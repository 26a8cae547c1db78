-------------------------- MODULE StreamStackProofs --------------------------
(***************************************************************************)
(* Proofs about StreamStack, for stacks of any depth and any number of       *)
(* pieces of user data, when one thread detaches the stack.                  *)
(***************************************************************************)
EXTENDS StreamStack, FiniteSetTheorems, TLAPS

CallbackType == [data : 0 .. MaxData, notify : BOOLEAN]

LifeTypes ==
    /\ ref \in [Streams -> Int]
    /\ sref \in [Streams -> Int]
    /\ linked \subseteq 2 .. Depth
    /\ source \in [Streams -> [held : SUBSET {"stream", "context", "loop"}, active : BOOLEAN]]
    /\ height \in 0 .. Depth
    /\ app \in [at : {"building", "attaching", "using", "closing", "detaching", "done"},
                pos : 0 .. Depth, closed : BOOLEAN, detached : BOOLEAN,
                by : {"app", "callback"}]
    /\ loop \in [at : {"idle", "grab", "callback", "detaching", "ungrab", "release"},
                 s : 0 .. Depth, top : 0 .. Depth, call : {"look", "dispatch"}]
    /\ walk \in [Threads -> [at : {"no", "down", "look", "up"}, pos : 0 .. Depth,
                             won : SUBSET Streams]]

\* A stream keeps its child as long as it has a struct_ref.
LinkInv == \A s \in Streams \ {1} : s \in linked <=> sref[s] > 0

One(p) == IF p THEN 1 ELSE 0

\* The thread that detaches the stack.
Walker == IF app.by = "app" THEN "app" ELSE "loop"
Other == IF app.by = "app" THEN "loop" ELSE "app"

Held(s) == "stream" \in source[s].held
AllHeld == \A s \in 1 .. height : Held(s)
NoneHeld == \A s \in Streams : ~Held(s)

\* Who counts on the struct_ref of stream s besides its parent: a source, from
\* z_stream_attach_source to the end of its detaching; the poll thread; and the
\* application until it has closed the stream.
Attached(s) ==
    /\ s <= height
    /\ \/ app.at = "attaching"
       \/ Held(s)
       \/ s \in walk[Walker].won /\ walk[Walker].pos <= s
Grabbed(s) == loop.top = s
Unclosed(s) ==
    /\ s <= height
    /\ ~app.closed
    /\ app.at = "closing" => app.pos <= s

Users(s) == One(Attached(s)) + One(Grabbed(s)) + One(Unclosed(s))

StructInv == \A s \in Streams : sref[s] >= One(s + 1 \in linked) + Users(s)

\* Who counts on the reference of stream s: the application on the top, its
\* child and its parent, its source, and z_stream_source_dispatch.
RefInv ==
    \A s \in Streams : ref[s] >= One(s = height /\ app.at # "done")
                                 + One(s \in linked) + One(s + 1 \in linked)
                                 + One(source[s].held # {})
                                 + One(loop.at = "detaching" /\ loop.top = s)

\* Before the stack is in use.
BuildInv ==
    /\ linked \subseteq 2 .. height
    /\ \A s \in Streams : s > height => ~Held(s) /\ ~source[s].active
    /\ \A s \in Streams : source[s].active => Held(s)
    /\ app.at # "building" => height > 0
    /\ app.at = "building" =>
          /\ linked = 2 .. height
          /\ \A s \in Streams : source[s] = NoSource
          /\ loop.at = "idle"
    /\ app.at \in {"building", "attaching"} =>
          ~app.closed /\ ~app.detached /\ \A t \in Threads : walk[t] = Idle
    /\ app.at = "attaching" =>
          /\ app.pos \in 1 .. height
          /\ \A s \in 1 .. height : Held(s) <=> s < app.pos
          /\ \A s \in Streams : ~Held(s) => source[s] = NoSource
    /\ app.at = "closing" => app.pos \in 1 .. height /\ ~app.closed

\* How far z_stream_detach_source has got.
WalkInv ==
    LET w == walk[Walker] IN
    /\ walk[Other] = Idle
    /\ w.at = "no" => w = Idle
    /\ w.at = "no" /\ app.at \notin {"building", "attaching"} => AllHeld \/ NoneHeld
    /\ w.at # "no" => w.pos \in 1 .. height
    /\ w.at \in {"down", "look"} =>
          /\ \A s \in 1 .. height : Held(s) <=> s < w.pos \/ (s = w.pos /\ w.at = "down")
          /\ w.won = {s \in 1 .. height : ~Held(s)}
    /\ w.at = "up" => NoneHeld /\ w.won = 1 .. height

\* Who detaches.
TurnInv ==
    /\ app.by = "app" =>
          /\ loop.at # "detaching"
          /\ walk["app"].at # "no" => app.at = "detaching"
          /\ app.at = "detaching" => app.detached /\ (walk["app"].at # "no" \/ NoneHeld)
          /\ app.at \in {"using", "closing", "done"} =>
                IF app.detached THEN NoneHeld ELSE AllHeld
    /\ app.by = "callback" =>
          /\ ~app.detached /\ app.at # "detaching"
          /\ walk["loop"].at # "no" => loop.at = "detaching"
          /\ loop.at = "callback" => AllHeld
          /\ loop.at = "detaching" => walk["loop"].at # "no" \/ NoneHeld

\* What the poll thread works on.
PollInv ==
    /\ loop.at # "idle" => loop.s \in 1 .. height /\ "loop" \in source[loop.s].held
    /\ loop.at \in {"callback", "detaching", "ungrab"} =>
          loop.top = height /\ \A i \in loop.s + 1 .. height : i \in linked
    /\ loop.at \notin {"callback", "detaching", "ungrab"} => loop.top = 0

LifeInv ==
    /\ LifeTypes /\ LinkInv /\ StructInv /\ RefInv
    /\ BuildInv /\ WalkInv /\ TurnInv /\ PollInv

\* Every piece of user data has one owner and is released once.
OneOwner ==
    /\ slot \in [Streams -> CallbackType]
    /\ context \in [restored : BOOLEAN, cb : CallbackType]
    /\ context.restored => context.cb = NoCallback
    /\ used \in 0 .. MaxData
    /\ released \in [Data -> 0 .. 1]
    /\ \A s \in Streams : slot[s].data # 0 => slot[s].notify
    /\ context.cb.data # 0 => context.cb.notify
    /\ \A s, r \in Streams : slot[s].data # 0 /\ slot[s].data = slot[r].data => s = r
    /\ \A s \in Streams : slot[s].data # 0 => /\ slot[s].data # context.cb.data
                                              /\ released[slot[s].data] = 0
    /\ context.cb.data # 0 => released[context.cb.data] = 0
    /\ \A d \in Data : d <= used <=> \/ \E s \in Streams : slot[s].data = d
                                     \/ context.cb.data = d
                                     \/ released[d] = 1

DataInv ==
    /\ OneOwner
    /\ app.at = "building" => \A s \in Streams : s > height => slot[s].data = 0

-----------------------------------------------------------------------------
(* z_stream_struct_unref. *)

\* What losing a struct_ref does to the counters and links: it takes from every
\* counter exactly what went away.
LEMMA UnrefFacts ==
    ASSUME LifeTypes, LinkInv, NEW s \in Streams, z_stream_struct_unref(s),
           \A i \in Streams : sref[i] >= One(i + 1 \in linked),
           sref[s] >= 1 + One(s + 1 \in linked)
    PROVE  /\ ref' \in [Streams -> Int] /\ sref' \in [Streams -> Int]
           /\ linked' \subseteq linked
           /\ LinkInv'
           /\ \A i \in Streams :
                 /\ sref'[i] = sref[i] - One(i = s)
                               - One(i + 1 \in linked) + One(i + 1 \in linked')
                 /\ ref'[i] = ref[i] - One(i \in linked) + One(i \in linked')
                              - One(i + 1 \in linked) + One(i + 1 \in linked')
           /\ sref[s] > 1 => linked' = linked
           /\ \A i \in linked : i > s => i \in linked'
<1> DEFINE cut == Broken(s)
<1>1. /\ sref \in [Streams -> Int] /\ ref \in [Streams -> Int]
      /\ linked \subseteq 2 .. Depth /\ Depth \in Nat
  BY StackAssumption DEF LifeTypes
<1>2. /\ sref' = [i \in Streams |-> sref[i] - (IF i = s THEN 1 ELSE 0)
                                            - (IF i + 1 \in cut THEN 1 ELSE 0)]
      /\ linked' = linked \ cut
      /\ ref' = [i \in Streams |-> ref[i] - (IF i \in cut THEN 1 ELSE 0)
                                          - (IF i + 1 \in cut THEN 1 ELSE 0)]
  BY DEF z_stream_struct_unref
<1>3. cut = Falls(s) \cap linked
  BY DEF Broken
<1>4. ASSUME NEW j \in Falls(s)
      PROVE  /\ j \in Streams /\ j <= s /\ sref[s] = 1
             /\ \A i \in j .. s - 1 : i + 1 \in linked /\ sref[i] = 1
  BY <1>1 DEF Falls, Streams, One
<1>5. sref[s] = 1 => s \in Falls(s)
  BY <1>1 DEF Falls, Streams
<1>6. ASSUME NEW i \in Streams, i + 1 \in Falls(s), i + 1 \in linked, sref[i] = 1
      PROVE  i \in Falls(s)
  <2>1. i + 1 <= s /\ sref[s] = 1 /\ \A k \in i + 1 .. s - 1 : k + 1 \in linked /\ sref[k] = 1
    BY <1>4, <1>6
  <2>2. i \in 1 .. s
    BY <1>1, <2>1 DEF Streams
  <2>3. ASSUME NEW k \in i .. s - 1 PROVE k + 1 \in linked /\ sref[k] = 1
    <3>1. CASE k = i
      BY <1>6, <3>1
    <3>2. CASE k # i
      <4>1. k \in i + 1 .. s - 1
        BY <1>1, <3>2 DEF Streams
      <4> QED
        BY <2>1, <4>1
    <3> QED
      BY <3>1, <3>2
  <2> QED
    BY <1>1, <2>1, <2>2, <2>3 DEF Falls
<1> HIDE DEF cut
<1>7. ref' \in [Streams -> Int] /\ sref' \in [Streams -> Int] /\ linked' \subseteq linked
  BY <1>1, <1>2
<1>8. cut \subseteq linked
  BY <1>3
<1>9. ASSUME NEW i \in Streams
      PROVE  /\ sref'[i] = sref[i] - One(i = s)
                           - One(i + 1 \in linked) + One(i + 1 \in linked')
             /\ ref'[i] = ref[i] - One(i \in linked) + One(i \in linked')
                          - One(i + 1 \in linked) + One(i + 1 \in linked')
  <2>1. /\ (IF i \in cut THEN 1 ELSE 0) = One(i \in linked) - One(i \in linked')
        /\ (IF i + 1 \in cut THEN 1 ELSE 0) = One(i + 1 \in linked) - One(i + 1 \in linked')
        /\ (IF i = s THEN 1 ELSE 0) = One(i = s)
    BY <1>2, <1>8 DEF One
  <2>2. /\ sref'[i] = sref[i] - (IF i = s THEN 1 ELSE 0)
                             - (IF i + 1 \in cut THEN 1 ELSE 0)
        /\ ref'[i] = ref[i] - (IF i \in cut THEN 1 ELSE 0)
                            - (IF i + 1 \in cut THEN 1 ELSE 0)
    BY <1>2
  <2>3. /\ sref[i] \in Int /\ ref[i] \in Int
        /\ One(i \in linked) \in Int /\ One(i \in linked') \in Int
        /\ One(i + 1 \in linked) \in Int /\ One(i + 1 \in linked') \in Int
        /\ One(i = s) \in Int
    BY <1>1 DEF One
  <2> QED
    BY <2>1, <2>2, <2>3
<1>10. sref[s] > 1 => linked' = linked
  BY <1>1, <1>2, <1>3, <1>4
<1>11. \A i \in linked : i > s => i \in linked'
  BY <1>1, <1>2, <1>3, <1>4 DEF Streams
<1>12. ASSUME NEW i \in Streams \ {1}
       PROVE  i \in linked' <=> sref'[i] > 0
  <2>1. sref'[i] = sref[i] - (IF i = s THEN 1 ELSE 0) - (IF i + 1 \in cut THEN 1 ELSE 0)
    BY <1>2
  <2>2. (i \in linked <=> sref[i] > 0) /\ sref[i] \in Int /\ i \in Int
    BY <1>1 DEF LinkInv, Streams
  <2>3. CASE i \in Falls(s)
    <3>1. i \notin linked'
      BY <1>2, <1>3, <2>3
    <3>2. CASE i = s
      BY <1>4, <2>1, <2>2, <2>3, <3>1, <3>2
    <3>3. CASE i # s
      <4>1. i \in i .. s - 1 /\ i <= s
        BY <1>1, <1>4, <2>3, <3>3 DEF Streams
      <4>2. sref[i] = 1 /\ i + 1 \in linked
        BY <1>4, <2>3, <4>1
      <4>3. i + 1 \in Falls(s)
        <5>1. /\ i + 1 \in 1 .. s /\ sref[s] = 1
              /\ \A k \in i + 1 .. s - 1 : k + 1 \in linked /\ sref[k] = 1
          <6>1. i \in Int /\ s \in Int /\ i >= 1 /\ i < s
            BY <1>1, <4>1 DEF Streams
          <6>2. sref[s] = 1 /\ \A k \in i .. s - 1 : k + 1 \in linked /\ sref[k] = 1
            BY <1>4, <2>3
          <6> QED
            BY <6>1, <6>2
        <5> QED
          BY <1>1, <5>1 DEF Falls
      <4> QED
        BY <1>3, <2>1, <3>1, <3>3, <4>2, <4>3
    <3> QED
      BY <3>2, <3>3
  <2>4. CASE i \notin Falls(s)
    <3>1. i \in linked' <=> i \in linked
      BY <1>2, <1>3, <2>4
    <3>2. CASE i = s
      <4>1. sref[s] > 1 /\ i + 1 \notin cut
        BY <1>1, <1>3, <1>4, <1>5, <2>4, <3>2 DEF One, Streams
      <4> QED
        BY <2>1, <2>2, <3>1, <3>2, <4>1
    <3>3. CASE i # s /\ i + 1 \in cut
      <4>1. sref[i] # 1 /\ sref[i] >= 1
        BY <1>3, <1>6, <2>4, <3>3 DEF One
      <4> QED
        BY <2>1, <2>2, <3>1, <3>3, <4>1
    <3>4. CASE i # s /\ i + 1 \notin cut
      BY <2>1, <2>2, <3>1, <3>4
    <3> QED
      BY <3>2, <3>3, <3>4
  <2> QED
    BY <2>3, <2>4
<1>13. LinkInv'
  BY <1>12 DEF LinkInv
<1> QED
  BY <1>7, <1>9, <1>10, <1>11, <1>13

\* A struct_ref lost by one of its users: nobody else's is touched.
LEMMA UnrefStep ==
    ASSUME LifeInv, NEW s \in 1 .. height, z_stream_struct_unref(s),
           UNCHANGED <<source, height>>,
           Users(s) >= 1 + Users(s)',
           \A i \in Streams \ {s} : Users(i) >= Users(i)',
           app'.at # "done" => app.at # "done",
           loop'.at = "detaching" => loop.at = "detaching" /\ loop'.top = loop.top
    PROVE  /\ ref' \in [Streams -> Int] /\ sref' \in [Streams -> Int]
           /\ linked' \subseteq linked
           /\ LinkInv' /\ StructInv' /\ RefInv'
           /\ sref[s] > 1 => linked' = linked
           /\ \A i \in linked : i > s => i \in linked'
           /\ sref[s] >= One(s + 1 \in linked) + Users(s)
<1>1. /\ LifeTypes /\ LinkInv /\ StructInv /\ RefInv /\ Depth \in Nat
  BY StackAssumption DEF LifeInv
<1>2. s \in Streams
  BY <1>1 DEF LifeTypes, Streams
<1>3. \A i : Users(i) \in Nat /\ Users(i)' \in Nat
  BY DEF Users, One
<1>4. \A i \in Streams : /\ One(i + 1 \in linked) \in Nat
                         /\ One(i + 1 \in linked') \in Nat
                         /\ sref[i] \in Int /\ ref[i] \in Int
  BY <1>1 DEF One, LifeTypes
<1>5. \A i \in Streams : sref[i] >= One(i + 1 \in linked) + Users(i)
  BY <1>1 DEF StructInv
<1>6. \A i \in Streams : sref[i] >= One(i + 1 \in linked)
  BY <1>3, <1>4, <1>5
<1>7. sref[s] >= 1 + One(s + 1 \in linked)
  BY <1>2, <1>3, <1>4, <1>5
<1>8. /\ ref' \in [Streams -> Int] /\ sref' \in [Streams -> Int]
      /\ linked' \subseteq linked
      /\ LinkInv'
      /\ \A i \in Streams :
            /\ sref'[i] = sref[i] - One(i = s)
                          - One(i + 1 \in linked) + One(i + 1 \in linked')
            /\ ref'[i] = ref[i] - One(i \in linked) + One(i \in linked')
                         - One(i + 1 \in linked) + One(i + 1 \in linked')
      /\ sref[s] > 1 => linked' = linked
      /\ \A i \in linked : i > s => i \in linked'
  BY <1>1, <1>2, <1>6, <1>7, UnrefFacts
<1>9. StructInv'
  <2>1. ASSUME NEW i \in Streams
        PROVE  sref'[i] >= One(i + 1 \in linked') + Users(i)'
    <3>1. CASE i = s
      <4>1. One(i = s) = 1
        BY <3>1 DEF One
      <4> QED
        BY <1>3, <1>4, <1>5, <1>8, <3>1, <4>1
    <3>2. CASE i # s
      <4>1. One(i = s) = 0
        BY <3>2 DEF One
      <4> QED
        BY <1>3, <1>4, <1>5, <1>8, <3>2, <4>1
    <3> QED
      BY <3>1, <3>2
  <2> QED
    BY <2>1 DEF StructInv
<1>10. RefInv'
  <2>1. ASSUME NEW i \in Streams
        PROVE  ref'[i] >= One(i = height' /\ app'.at # "done")
                          + One(i \in linked') + One(i + 1 \in linked')
                          + One(source'[i].held # {})
                          + One(loop'.at = "detaching" /\ loop'.top = i)
    <3>1. ref[i] >= One(i = height /\ app.at # "done")
                    + One(i \in linked) + One(i + 1 \in linked)
                    + One(source[i].held # {})
                    + One(loop.at = "detaching" /\ loop.top = i)
      BY <1>1 DEF RefInv
    <3>2. /\ One(i = height' /\ app'.at # "done") <= One(i = height /\ app.at # "done")
          /\ One(loop'.at = "detaching" /\ loop'.top = i)
                <= One(loop.at = "detaching" /\ loop.top = i)
          /\ One(source'[i].held # {}) = One(source[i].held # {})
      BY DEF One
    <3>3. /\ One(i = height' /\ app'.at # "done") \in Nat
          /\ One(i = height /\ app.at # "done") \in Nat
          /\ One(loop'.at = "detaching" /\ loop'.top = i) \in Nat
          /\ One(loop.at = "detaching" /\ loop.top = i) \in Nat
          /\ One(source[i].held # {}) \in Nat
          /\ One(i \in linked) \in Nat /\ One(i \in linked') \in Nat
      BY DEF One
    <3>4. ref'[i] = ref[i] - One(i \in linked) + One(i \in linked')
                         - One(i + 1 \in linked) + One(i + 1 \in linked')
      BY <1>8
    <3> QED
      BY <1>4, <3>1, <3>2, <3>3, <3>4
  <2> QED
    BY <2>1 DEF RefInv
<1> QED
  BY <1>2, <1>5, <1>8, <1>9, <1>10

-----------------------------------------------------------------------------
(* What the invariant says of one stream. *)

LEMMA UsersNat == \A s : Users(s) \in Nat /\ Users(s)' \in Nat
BY DEF Users, One

\* A stream that somebody keeps has its child, and so has one with a parent.
LEMMA KeptLinked ==
    ASSUME LifeInv, NEW s \in Streams, s # 1,
           \/ Attached(s) \/ Grabbed(s) \/ Unclosed(s) \/ s + 1 \in linked
    PROVE  s \in linked
<1>1. sref[s] >= One(s + 1 \in linked) + Users(s)
  BY DEF LifeInv, StructInv
<1>2. One(s + 1 \in linked) + Users(s) >= 1
  BY DEF Users, One
<1>3. sref[s] \in Int
  BY DEF LifeInv, LifeTypes
<1>4. sref[s] > 0
  BY <1>1, <1>2, <1>3, UsersNat DEF One
<1> QED
  BY <1>4 DEF LifeInv, LinkInv

\* A stream that somebody looks at is not freed.
LEMMA HeldAlive ==
    ASSUME LifeInv, NEW s \in Streams,
           \/ s = height /\ app.at # "done"
           \/ s \in linked
           \/ s + 1 \in linked
           \/ source[s].held # {}
           \/ loop.at = "detaching" /\ loop.top = s
    PROVE  ref[s] > 0
<1>1. ref[s] >= One(s = height /\ app.at # "done")
                + One(s \in linked) + One(s + 1 \in linked)
                + One(source[s].held # {})
                + One(loop.at = "detaching" /\ loop.top = s)
  BY DEF LifeInv, RefInv
<1>2. ref[s] \in Int
  BY DEF LifeInv, LifeTypes
<1> QED
  BY <1>1, <1>2 DEF One

\* Where the walk of z_stream_detach_source has not come back, the stack is whole.
LEMMA WalkLinked ==
    ASSUME LifeInv, walk[Walker].at # "no", NEW i \in Streams, i # 1, i <= height,
           walk[Walker].at = "up" => walk[Walker].pos <= i
    PROVE  i \in linked
<1> DEFINE w == walk[Walker]
<1>1. i \in 1 .. height /\ i \in Int /\ Depth \in Nat
  BY StackAssumption DEF Streams, LifeInv, LifeTypes
<1>2. /\ w.pos \in 1 .. height
      /\ w.at \in {"down", "look"} =>
            /\ \A s \in 1 .. height : Held(s) <=> s < w.pos \/ (s = w.pos /\ w.at = "down")
            /\ w.won = {s \in 1 .. height : ~Held(s)}
      /\ w.at = "up" => w.won = 1 .. height
  BY DEF LifeInv, WalkInv
<1>3. w.at \in {"down", "look", "up"}
  <2>1. Walker \in Threads
    BY DEF Walker, Threads
  <2> QED
    BY <2>1 DEF LifeInv, LifeTypes
<1>4. Held(i) \/ (i \in w.won /\ w.pos <= i)
  <2>1. CASE w.at = "up"
    BY <1>1, <1>2, <2>1
  <2>2. CASE w.at \in {"down", "look"}
    <3>1. CASE Held(i)
      BY <3>1
    <3>2. CASE ~Held(i)
      <4>1. i \in w.won
        BY <1>1, <1>2, <2>2, <3>2
      <4>2. ~(i < w.pos)
        BY <1>1, <1>2, <2>2, <3>2
      <4>3. w.pos \in Int
        BY <1>1, <1>2 DEF LifeInv, LifeTypes
      <4> QED
        BY <1>1, <4>1, <4>2, <4>3
    <3> QED
      BY <3>1, <3>2
  <2> QED
    BY <1>3, <2>1, <2>2
<1>5. Attached(i)
  BY <1>4 DEF Attached
<1> QED
  BY <1>5, KeptLinked

\* No thread looks at a freed stream, and no stream is freed with its links.
LEMMA LifeSafe == LifeInv => NoUseAfterFree
<1> SUFFICES ASSUME LifeInv PROVE NoUseAfterFree
  OBVIOUS
<1>1. /\ LifeTypes /\ WalkInv /\ TurnInv /\ PollInv /\ BuildInv /\ Depth \in Nat
      /\ height \in 0 .. Depth /\ height \in Int
  BY StackAssumption DEF LifeInv, LifeTypes
<1>2. \A s \in linked : ref[s] > 0 /\ ref[s - 1] > 0
  <2> SUFFICES ASSUME NEW s \in linked PROVE ref[s] > 0 /\ ref[s - 1] > 0
    OBVIOUS
  <2>1. s \in Streams /\ s - 1 \in Streams /\ (s - 1) + 1 = s
    BY <1>1 DEF LifeTypes, Streams
  <2> QED
    BY <2>1, HeldAlive
<1>3. ASSUME NEW t \in Threads, walk[t] # Idle PROVE ref[walk[t].pos] > 0
  <2>1. t = Walker
    BY <1>1, <1>3 DEF WalkInv, Threads, Walker, Other
  <2>2. walk[Walker].at # "no" /\ walk[Walker].pos \in 1 .. height
    BY <1>1, <1>3, <2>1 DEF WalkInv
  <2> DEFINE p == walk[Walker].pos
  <2>3. p \in Streams /\ p \in Int
    BY <1>1, <2>2 DEF Streams
  <2>4. CASE p < height
    <3>1. p + 1 \in Streams /\ p + 1 # 1 /\ p + 1 <= height /\ p <= p + 1
      BY <1>1, <2>2, <2>4 DEF Streams
    <3>2. p + 1 \in linked
      BY <2>2, <3>1, WalkLinked
    <3> QED
      BY <2>1, <2>3, <3>2, HeldAlive
  <2>5. CASE p = height
    <3>1. CASE app.by = "app"
      <4>1. app.at = "detaching"
        BY <1>1, <2>2, <3>1 DEF TurnInv, Walker
      <4> QED
        BY <2>1, <2>3, <2>5, <4>1, HeldAlive
    <3>2. CASE app.by # "app"
      <4>1. app.by = "callback"
        BY <1>1, <3>2 DEF LifeTypes
      <4>2. loop.at = "detaching" /\ loop.top = height
        BY <1>1, <2>2, <4>1 DEF TurnInv, Walker, PollInv
      <4> QED
        BY <2>1, <2>3, <2>5, <4>2, HeldAlive
    <3> QED
      BY <3>1, <3>2
  <2> QED
    BY <1>1, <2>1, <2>2, <2>3, <2>4, <2>5
<1>4. ASSUME loop.at # "idle" PROVE loop.s \in Streams /\ loop.s <= height /\ ref[loop.s] > 0
  <2>1. loop.s \in 1 .. height /\ "loop" \in source[loop.s].held
    BY <1>1, <1>4 DEF PollInv
  <2>2. loop.s \in Streams /\ loop.s <= height
    BY <1>1, <2>1 DEF Streams
  <2> QED
    BY <2>1, <2>2, HeldAlive
<1>5. ASSUME loop.at \in {"callback", "detaching", "ungrab"} PROVE ref[loop.top] > 0
  <2>1. loop.top = height
    BY <1>1, <1>5 DEF PollInv
  <2>2. loop.s \in Streams /\ loop.s <= height /\ ref[loop.s] > 0
    BY <1>4, <1>5
  <2>3. CASE height = 1
    <3>1. loop.s = 1
      BY <2>2, <2>3 DEF Streams
    <3> QED
      BY <2>1, <2>2, <2>3, <3>1
  <2>4. CASE height # 1
    <3>1. height \in Streams
      BY <1>1, <2>2 DEF Streams
    <3>2. height \in linked
      BY <2>1, <2>4, <3>1, KeptLinked DEF Grabbed
    <3> QED
      BY <2>1, <3>1, <3>2, HeldAlive
  <2> QED
    BY <2>3, <2>4
<1>6. ASSUME app.at = "closing" PROVE ref[app.pos] > 0
  <2>1. app.pos \in 1 .. height /\ ~app.closed
    BY <1>1, <1>6 DEF BuildInv
  <2>2. app.pos \in Streams /\ app.pos \in Int
    BY <1>1, <2>1 DEF Streams
  <2>3. CASE app.pos = height
    BY <1>6, <2>2, <2>3, HeldAlive
  <2>4. CASE app.pos # height
    <3>1. app.pos + 1 \in Streams /\ app.pos + 1 # 1 /\ app.pos + 1 <= height
      BY <1>1, <2>1, <2>4 DEF Streams
    <3>2. Unclosed(app.pos + 1)
      BY <2>1, <2>2, <3>1 DEF Unclosed
    <3>3. app.pos + 1 \in linked
      BY <3>1, <3>2, KeptLinked
    <3> QED
      BY <2>2, <3>3, HeldAlive
  <2> QED
    BY <2>3, <2>4
<1>7. ASSUME app.at = "using" PROVE ref[height] > 0
  <2>1. height \in Streams
    BY <1>1, <1>7 DEF BuildInv, Streams
  <2> QED
    BY <1>7, <2>1, HeldAlive
<1>8. ASSUME NEW s \in Touched PROVE ref[s] > 0
  <2>1. \/ \E t \in Threads : walk[t] # Idle /\ s = walk[t].pos
        \/ loop.at # "idle" /\ s = loop.s
        \/ loop.at \in {"callback", "detaching", "ungrab"} /\ s = loop.top
        \/ app.at = "closing" /\ s = app.pos
        \/ app.at = "using" /\ s = height
    BY <1>8 DEF Touched
  <2> QED
    BY <1>3, <1>4, <1>5, <1>6, <1>7, <2>1
<1> QED
  BY <1>2, <1>8 DEF NoUseAfterFree

-----------------------------------------------------------------------------
(* Building the stack. *)

LEMMA LifeFacts ==
    ASSUME LifeInv
    PROVE  /\ LifeTypes /\ LinkInv /\ StructInv /\ RefInv
           /\ BuildInv /\ WalkInv /\ TurnInv /\ PollInv
           /\ Depth \in Nat /\ height \in Int /\ height >= 0 /\ height <= Depth
           /\ Streams = 1 .. Depth
           /\ \A i \in Streams : sref[i] \in Int /\ ref[i] \in Int
           /\ Walker \in Threads /\ Other \in Threads
BY StackAssumption DEF LifeInv, LifeTypes, Streams, Walker, Other, Threads

\* While the stack is built, only the application uses it.
LEMMA BuildUsers ==
    ASSUME LifeInv, Building, NEW i \in Streams
    PROVE  /\ Users(i) = One(i <= height)
           /\ source[i].held = {} /\ ~source[i].active
           /\ i + 1 \in linked <=> i + 1 <= height
           /\ i \in linked <=> i # 1 /\ i <= height
<1>1. /\ BuildInv /\ PollInv /\ LifeTypes /\ i \in 1 .. Depth /\ Depth \in Nat
      /\ Walker \in Threads /\ height \in Int
  BY LifeFacts
<1>2. /\ app.at = "building" /\ ~app.closed /\ linked = 2 .. height
      /\ source[i] = NoSource /\ loop.at = "idle" /\ walk[Walker] = Idle
  BY <1>1 DEF Building, BuildInv
<1>3. source[i].held = {} /\ ~source[i].active /\ loop.top = 0 /\ walk[Walker].won = {}
  BY <1>1, <1>2 DEF NoSource, Idle, PollInv
<1>4. ~Attached(i) /\ ~Grabbed(i) /\ (Unclosed(i) <=> i <= height)
  BY <1>1, <1>2, <1>3 DEF Attached, Held, Grabbed, Unclosed
<1> QED
  BY <1>1, <1>2, <1>3, <1>4 DEF Users, One

\* A step between two states of building.
LEMMA BuildStep ==
    ASSUME LifeInv, Building, height' \in 0 .. Depth, linked' = 2 .. height',
           ref' \in [Streams -> Int], sref' \in [Streams -> Int],
           UNCHANGED <<source, app, loop, walk>>,
           \A i \in Streams : /\ sref'[i] >= One(i + 1 <= height') + One(i <= height')
                              /\ i > height' => sref'[i] = 0 \/ i = 1
                              /\ ref'[i] >= One(i = height') + One(i # 1 /\ i <= height')
                                            + One(i + 1 <= height')
    PROVE  LifeInv'
<1>1. /\ LifeTypes /\ BuildInv /\ WalkInv /\ TurnInv /\ PollInv
      /\ Depth \in Nat /\ Streams = 1 .. Depth /\ Walker \in Threads
  BY LifeFacts
<1>2. /\ app.at = "building" /\ ~app.closed /\ ~app.detached /\ loop.at = "idle"
      /\ loop.top = 0 /\ \A t \in Threads : walk[t] = Idle
      /\ \A i \in Streams : source[i] = NoSource
  BY <1>1 DEF Building, BuildInv, PollInv
<1>3. height' \in Int /\ height' <= Depth
  BY <1>1
<1>4. LifeTypes'
  <2>1. linked' \subseteq 2 .. Depth
    BY <1>1, <1>3
  <2>2. /\ source' \in [Streams -> [held : SUBSET {"stream", "context", "loop"}, active : BOOLEAN]]
        /\ app' \in [at : {"building", "attaching", "using", "closing", "detaching", "done"},
                     pos : 0 .. Depth, closed : BOOLEAN, detached : BOOLEAN,
                     by : {"app", "callback"}]
        /\ loop' \in [at : {"idle", "grab", "callback", "detaching", "ungrab", "release"},
                      s : 0 .. Depth, top : 0 .. Depth, call : {"look", "dispatch"}]
        /\ walk' \in [Threads -> [at : {"no", "down", "look", "up"}, pos : 0 .. Depth,
                                  won : SUBSET Streams]]
    BY <1>1 DEF LifeTypes
  <2> QED
    BY <2>1, <2>2 DEF LifeTypes
<1>5. \A i \in Streams : /\ i + 1 \in linked' <=> i + 1 <= height'
                         /\ i \in linked' <=> i # 1 /\ i <= height'
  BY <1>1, <1>3
<1>6. ASSUME NEW i \in Streams PROVE Users(i)' = One(i <= height')
  <2>1. source'[i].held = {} /\ loop'.top = 0 /\ walk'[Walker'].won = {}
    BY <1>1, <1>2 DEF NoSource, Idle, Walker, Threads
  <2>2. ~Attached(i)' /\ ~Grabbed(i)' /\ (Unclosed(i)' <=> i <= height')
    BY <1>1, <1>2, <2>1 DEF Attached, Held, Grabbed, Unclosed
  <2> QED
    BY <2>2 DEF Users, One
<1>7. StructInv'
  BY <1>5, <1>6 DEF StructInv, One
<1>8. LinkInv'
  <2>1. ASSUME NEW i \in Streams \ {1} PROVE i \in linked' <=> sref'[i] > 0
    <3>1. sref'[i] >= One(i + 1 <= height') + One(i <= height') /\ sref'[i] \in Int
      OBVIOUS
    <3>2. i > height' => sref'[i] = 0
      OBVIOUS
    <3>3. i \in linked' <=> i <= height'
      BY <1>5
    <3>4. CASE i <= height'
      <4>1. One(i <= height') = 1 /\ One(i + 1 <= height') \in Nat
        BY <3>4 DEF One
      <4> QED
        BY <3>1, <3>3, <3>4, <4>1
    <3>5. CASE i > height'
      BY <1>1, <1>3, <3>2, <3>3, <3>5
    <3> QED
      BY <1>1, <1>3, <3>4, <3>5
  <2> QED
    BY <2>1 DEF LinkInv
<1>9. RefInv'
  <2>1. \A i \in Streams : source'[i].held = {}
    BY <1>2 DEF NoSource
  <2> QED
    BY <1>2, <1>5, <2>1 DEF RefInv, One
<1>10. BuildInv'
  <2>1. \A i \in Streams : ~Held(i)' /\ ~source'[i].active
    BY <1>2 DEF NoSource, Held
  <2> QED
    BY <1>2, <2>1 DEF BuildInv
<1>11. WalkInv' /\ TurnInv'
  <2>1. walk'[Walker'] = Idle /\ walk'[Other'] = Idle
    BY <1>2 DEF Walker, Other, Threads
  <2>2. walk'["app"].at = "no" /\ walk'["loop"].at = "no"
    BY <1>2 DEF Idle, Threads
  <2>3. WalkInv'
    BY <1>2, <2>1 DEF WalkInv, Idle
  <2>4. TurnInv'
    BY <1>2, <2>2 DEF TurnInv
  <2> QED
    BY <2>3, <2>4
<1>12. PollInv'
  BY <1>2 DEF PollInv
<1> QED
  BY <1>4, <1>7, <1>8, <1>9, <1>10, <1>11, <1>12 DEF LifeInv

LEMMA PushLife ==
    ASSUME LifeInv, z_stream_push
    PROVE  LifeInv'
<1> DEFINE new == height + 1
<1>1. /\ Building /\ new \in Streams /\ height' = new
      /\ ref' = [ref EXCEPT ![new] = IF height = 0 THEN 1 ELSE 2]
      /\ sref' = [i \in Streams |-> IF i = new THEN 1
                                    ELSE IF i = height THEN sref[i] + 1 ELSE sref[i]]
      /\ linked' = IF height = 0 THEN linked ELSE linked \cup {new}
      /\ UNCHANGED <<source, app, loop, walk>>
  BY DEF z_stream_push
<1>2. /\ LifeTypes /\ StructInv /\ RefInv /\ LinkInv
      /\ Depth \in Nat /\ Streams = 1 .. Depth /\ height \in Int /\ height >= 0
      /\ \A i \in Streams : sref[i] \in Int /\ ref[i] \in Int
  BY LifeFacts
<1>3. linked = 2 .. height
  BY <1>1, <1>2, LifeFacts DEF BuildInv, Building
<1>4. linked' = 2 .. height'
  <2>1. CASE height = 0
    <3>1. linked' = 2 .. 0 /\ height' = 1
      BY <1>1, <1>3, <2>1
    <3> QED
      BY <3>1
  <2>2. CASE height # 0
    <3>1. linked' = (2 .. height) \cup {height + 1}
      BY <1>1, <1>3, <2>2
    <3>2. height \in Int /\ height >= 1 /\ height' = height + 1
      BY <1>1, <1>2, <2>2
    <3> QED
      BY <3>1, <3>2
  <2> QED
    BY <2>1, <2>2
<1>5. ref' \in [Streams -> Int] /\ sref' \in [Streams -> Int]
  BY <1>1, <1>2 DEF LifeTypes
<1>6. ASSUME NEW i \in Streams
      PROVE  /\ sref'[i] >= One(i + 1 <= height') + One(i <= height')
             /\ i > height' => sref'[i] = 0 \/ i = 1
             /\ ref'[i] >= One(i = height') + One(i # 1 /\ i <= height')
                           + One(i + 1 <= height')
  <2>1. /\ Users(i) = One(i <= height) /\ source[i].held = {}
        /\ i + 1 \in linked <=> i + 1 <= height
        /\ i \in linked <=> i # 1 /\ i <= height
    BY <1>1, BuildUsers
  <2>2. sref[i] >= One(i + 1 \in linked) + One(i <= height)
    BY <1>2, <2>1 DEF StructInv
  <2>3. ref[i] >= One(i = height /\ app.at # "done") + One(i \in linked) + One(i + 1 \in linked)
                  + One(source[i].held # {}) + One(loop.at = "detaching" /\ loop.top = i)
    BY <1>2 DEF RefInv
  <2>4. app.at = "building"
    BY <1>1 DEF Building
  <2>5. /\ sref'[i] = IF i = new THEN 1 ELSE IF i = height THEN sref[i] + 1 ELSE sref[i]
        /\ ref'[i] = IF i = new THEN (IF height = 0 THEN 1 ELSE 2) ELSE ref[i]
    BY <1>1, <1>2 DEF LifeTypes
  <2>6. sref'[i] >= One(i + 1 <= height') + One(i <= height')
    BY <1>1, <1>2, <2>1, <2>2, <2>5 DEF One
  <2>7. ref'[i] >= One(i = height') + One(i # 1 /\ i <= height') + One(i + 1 <= height')
    BY <1>1, <1>2, <2>1, <2>3, <2>4, <2>5 DEF One
  <2>8. i > height' => sref'[i] = 0 \/ i = 1
    <3> SUFFICES ASSUME i > height', i # 1 PROVE sref'[i] = 0
      OBVIOUS
    <3>1. i \notin linked /\ sref'[i] = sref[i]
      BY <1>1, <1>2, <2>1, <2>5
    <3>2. ~(sref[i] > 0)
      BY <1>2, <3>1 DEF LinkInv
    <3> QED
      BY <1>2, <2>2, <3>1, <3>2 DEF One
  <2> QED
    BY <2>6, <2>7, <2>8
<1>7. height' \in 0 .. Depth
  BY <1>1, <1>2
<1> QED
  BY <1>1, <1>4, <1>5, <1>6, <1>7, BuildStep

LEMMA PopLife ==
    ASSUME LifeInv, z_stream_pop
    PROVE  LifeInv'
<1>1. /\ Building /\ height \in linked /\ height' = height - 1
      /\ linked' = linked \ {height}
      /\ ref' = [ref EXCEPT ![height] = ref[height] - 2]
      /\ sref' = [i \in Streams |-> IF i = height - 1 THEN sref[i] - 1
                                    ELSE IF i = height THEN 0 ELSE sref[i]]
      /\ UNCHANGED <<source, app, loop, walk>>
  BY DEF z_stream_pop
<1>2. /\ LifeTypes /\ StructInv /\ RefInv /\ LinkInv
      /\ Depth \in Nat /\ Streams = 1 .. Depth /\ height \in Int /\ height >= 0
      /\ \A i \in Streams : sref[i] \in Int /\ ref[i] \in Int
  BY LifeFacts
<1>3. linked = 2 .. height /\ height >= 2 /\ height \in Streams
  BY <1>1, <1>2, LifeFacts DEF BuildInv, Building
<1>4. linked' = 2 .. height'
  BY <1>1, <1>2, <1>3
<1>5. ref' \in [Streams -> Int] /\ sref' \in [Streams -> Int]
  BY <1>1, <1>2, <1>3 DEF LifeTypes
<1>6. ASSUME NEW i \in Streams
      PROVE  /\ sref'[i] >= One(i + 1 <= height') + One(i <= height')
             /\ i > height' => sref'[i] = 0 \/ i = 1
             /\ ref'[i] >= One(i = height') + One(i # 1 /\ i <= height')
                           + One(i + 1 <= height')
  <2>1. /\ Users(i) = One(i <= height) /\ source[i].held = {}
        /\ i + 1 \in linked <=> i + 1 <= height
        /\ i \in linked <=> i # 1 /\ i <= height
    BY <1>1, BuildUsers
  <2>2. sref[i] >= One(i + 1 \in linked) + One(i <= height)
    BY <1>2, <2>1 DEF StructInv
  <2>3. ref[i] >= One(i = height /\ app.at # "done") + One(i \in linked) + One(i + 1 \in linked)
                  + One(source[i].held # {}) + One(loop.at = "detaching" /\ loop.top = i)
    BY <1>2 DEF RefInv
  <2>4. app.at = "building"
    BY <1>1 DEF Building
  <2>5. /\ sref'[i] = IF i = height - 1 THEN sref[i] - 1
                      ELSE IF i = height THEN 0 ELSE sref[i]
        /\ ref'[i] = IF i = height THEN ref[i] - 2 ELSE ref[i]
    BY <1>1, <1>2 DEF LifeTypes
  <2>6. sref'[i] >= One(i + 1 <= height') + One(i <= height')
    BY <1>1, <1>2, <1>3, <2>1, <2>2, <2>5 DEF One
  <2>7. ref'[i] >= One(i = height') + One(i # 1 /\ i <= height') + One(i + 1 <= height')
    BY <1>1, <1>2, <1>3, <2>1, <2>3, <2>4, <2>5 DEF One
  <2>8. i > height' => sref'[i] = 0 \/ i = 1
    <3> SUFFICES ASSUME i > height', i # 1, i # height PROVE sref'[i] = 0
      BY <1>1, <1>2, <2>5
    <3>1. i \notin linked /\ sref'[i] = sref[i]
      BY <1>1, <1>2, <2>1, <2>5
    <3>2. ~(sref[i] > 0)
      BY <1>2, <3>1 DEF LinkInv
    <3> QED
      BY <1>2, <2>2, <3>1, <3>2 DEF One
  <2> QED
    BY <2>6, <2>7, <2>8
<1>7. height' \in 0 .. Depth
  BY <1>1, <1>2, <1>3
<1> QED
  BY <1>1, <1>4, <1>5, <1>6, <1>7, BuildStep

-----------------------------------------------------------------------------
(* Attaching, closing and leaving: the steps of the application. *)

\* A step that leaves every struct_ref where it is.
LEMMA SameStruct ==
    ASSUME LifeInv, UNCHANGED <<sref, linked>>,
           \A i \in Streams : Users(i)' <= Users(i)
    PROVE  LinkInv' /\ StructInv'
<1>1. LinkInv /\ StructInv /\ \A i \in Streams : sref[i] \in Int
  BY LifeFacts
<1>2. \A i : Users(i) \in Nat /\ Users(i)' \in Nat
  BY UsersNat DEF Users, One
<1>3. LinkInv'
  BY <1>1 DEF LinkInv
<1>4. ASSUME NEW i \in Streams PROVE sref'[i] >= One(i + 1 \in linked') + Users(i)'
  <2>1. sref[i] >= One(i + 1 \in linked) + Users(i)
    BY <1>1 DEF StructInv
  <2>2. One(i + 1 \in linked) \in Nat /\ One(i + 1 \in linked') = One(i + 1 \in linked)
    BY DEF One
  <2> QED
    BY <1>1, <1>2, <2>1, <2>2
<1> QED
  BY <1>3, <1>4 DEF StructInv

\* While z_stream_struct_unref takes from a user that is not the poll thread,
\* the stack a callback runs on stays whole.
LEMMA ChainKept ==
    ASSUME LifeInv, loop.at \in {"callback", "detaching", "ungrab"},
           NEW s \in 1 .. height, Users(s) >= 1 + One(Grabbed(s)),
           sref[s] > 1 => linked' = linked,
           \A i \in linked : i > s => i \in linked'
    PROVE  \A i \in loop.s + 1 .. height : i \in linked'
<1>1. /\ loop.top = height /\ \A i \in loop.s + 1 .. height : i \in linked
      /\ loop.s \in 1 .. height
  BY LifeFacts DEF PollInv
<1>2. /\ s \in Streams /\ s \in Int /\ height \in Int /\ s <= height /\ sref[s] \in Int
      /\ loop.s \in Int /\ StructInv /\ Users(s) \in Nat
  BY <1>1, LifeFacts, UsersNat
<1>3. sref[s] >= One(s + 1 \in linked) + Users(s)
  BY <1>2 DEF StructInv
<1>4. CASE s = height
  <2>1. One(Grabbed(s)) = 1 /\ One(s + 1 \in linked) \in Nat
    BY <1>1, <1>4 DEF Grabbed, One
  <2> QED
    BY <1>1, <1>2, <1>3, <2>1
<1>5. CASE s < height /\ s >= loop.s
  <2>1. s + 1 \in linked
    BY <1>1, <1>2, <1>5
  <2>2. One(s + 1 \in linked) = 1 /\ One(Grabbed(s)) \in Nat
    BY <2>1 DEF One
  <2> QED
    BY <1>1, <1>2, <1>3, <2>2
<1>6. CASE s < loop.s
  BY <1>1, <1>2, <1>6
<1> QED
  BY <1>2, <1>4, <1>5, <1>6

LEMMA AttachBeginsLife ==
    ASSUME LifeInv, AttachBegins
    PROVE  LifeInv'
<1>1. /\ app.at = "building" /\ height > 0 /\ Building
      /\ sref' = [i \in Streams |-> IF i <= height THEN sref[i] + 1 ELSE sref[i]]
      /\ app' = [app EXCEPT !.at = "attaching", !.pos = 1]
      /\ UNCHANGED <<ref, linked, source, height, loop, walk>>
  BY DEF AttachBegins, Building
<1>2. /\ LifeTypes /\ LinkInv /\ StructInv /\ RefInv
      /\ BuildInv /\ WalkInv /\ TurnInv /\ PollInv
      /\ Depth \in Nat /\ height \in Int /\ height <= Depth /\ Streams = 1 .. Depth
      /\ \A i \in Streams : sref[i] \in Int
      /\ Walker \in Threads /\ Other \in Threads
  BY LifeFacts
<1>3. /\ app'.at = "attaching" /\ app'.pos = 1 /\ app'.closed = app.closed
      /\ app'.detached = app.detached /\ app'.by = app.by
  BY <1>1, <1>2 DEF LifeTypes
<1>4. LifeTypes'
  <2>1. 1 \in 0 .. Depth
    BY <1>1, <1>2
  <2>2. app' \in [at : {"building", "attaching", "using", "closing", "detaching", "done"},
                  pos : 0 .. Depth, closed : BOOLEAN, detached : BOOLEAN,
                  by : {"app", "callback"}]
    BY <1>1, <1>2, <2>1 DEF LifeTypes
  <2>3. sref' \in [Streams -> Int]
    BY <1>1, <1>2
  <2> QED
    BY <1>1, <1>2, <2>2, <2>3 DEF LifeTypes
<1>5. /\ ~app.closed /\ ~app.detached /\ loop.at = "idle" /\ loop.top = 0
      /\ \A t \in Threads : walk[t] = Idle
      /\ \A i \in Streams : source[i] = NoSource
      /\ linked = 2 .. height
  BY <1>1, <1>2 DEF BuildInv, PollInv
<1>6. ASSUME NEW i \in Streams
      PROVE  Users(i)' = One(i <= height) + One(i <= height)
  <2>1. (Attached(i)' <=> i <= height) /\ ~Grabbed(i)' /\ (Unclosed(i)' <=> i <= height)
    BY <1>1, <1>2, <1>3, <1>5 DEF Attached, Grabbed, Unclosed
  <2> QED
    BY <2>1 DEF Users, One
<1>7. ASSUME NEW i \in Streams
      PROVE  /\ sref'[i] >= One(i + 1 \in linked') + Users(i)'
             /\ i # 1 => (i \in linked' <=> sref'[i] > 0)
  <2>1. Users(i) = One(i <= height)
    BY <1>1, BuildUsers
  <2>2. sref[i] >= One(i + 1 \in linked) + One(i <= height)
    BY <1>2, <2>1 DEF StructInv
  <2>3. sref'[i] = IF i <= height THEN sref[i] + 1 ELSE sref[i]
    BY <1>1
  <2>4. i # 1 => (i \in linked <=> sref[i] > 0)
    BY <1>2 DEF LinkInv
  <2>5. CASE i <= height
    <3>1. One(i <= height) = 1 /\ One(i + 1 \in linked) \in Nat /\ One(i + 1 \in linked') \in Nat
          /\ One(i + 1 \in linked') = One(i + 1 \in linked)
      BY <1>1, <2>5 DEF One
    <3>2. i # 1 => i \in linked
      BY <1>2, <1>5, <2>5
    <3>3. sref[i] \in Int /\ sref'[i] = sref[i] + 1
      BY <1>2, <2>3, <2>5
    <3> QED
      BY <1>1, <1>6, <2>2, <3>1, <3>2, <3>3
  <2>6. CASE ~(i <= height)
    <3>1. One(i <= height) = 0 /\ One(i + 1 \in linked) \in Nat
          /\ One(i + 1 \in linked') = One(i + 1 \in linked)
      BY <1>1, <2>6 DEF One
    <3> QED
      BY <1>1, <1>2, <1>6, <2>2, <2>3, <2>4, <2>6, <3>1
  <2> QED
    BY <2>5, <2>6
<1>8. LinkInv' /\ StructInv'
  BY <1>7 DEF LinkInv, StructInv
<1>9. RefInv'
  BY <1>1, <1>2, <1>3 DEF RefInv, One
<1>10. BuildInv'
  <2>1. \A i \in Streams : ~Held(i)' /\ ~source'[i].active /\ source'[i] = NoSource
    BY <1>1, <1>5 DEF NoSource, Held
  <2>2. \A i \in 1 .. height' : Held(i)' <=> i < app'.pos
    BY <1>1, <1>2, <1>3, <2>1
  <2> QED
    BY <1>1, <1>2, <1>3, <1>5, <2>1, <2>2 DEF BuildInv
<1>11. WalkInv' /\ TurnInv'
  <2>1. walk'[Walker'] = Idle /\ walk'[Other'] = Idle
    BY <1>1, <1>5 DEF Walker, Other, Threads
  <2>2. walk'["app"].at = "no" /\ walk'["loop"].at = "no"
    BY <1>1, <1>5 DEF Idle, Threads
  <2>3. WalkInv'
    BY <1>3, <2>1 DEF WalkInv, Idle
  <2>4. TurnInv'
    BY <1>1, <1>3, <1>5, <2>2 DEF TurnInv
  <2> QED
    BY <2>3, <2>4
<1>12. PollInv'
  BY <1>1, <1>5 DEF PollInv
<1> QED
  BY <1>4, <1>8, <1>9, <1>10, <1>11, <1>12 DEF LifeInv

LEMMA AttachSourceLife ==
    ASSUME LifeInv, z_stream_attach_source
    PROVE  LifeInv'
<1> DEFINE s == app.pos
<1>1. /\ app.at = "attaching"
      /\ source' = [source EXCEPT ![s] = [held |-> {"stream", "context"}, active |-> TRUE]]
      /\ ref' = [ref EXCEPT ![s] = ref[s] + 1]
      /\ app' = IF s = height THEN [app EXCEPT !.at = "using", !.pos = 0]
                ELSE [app EXCEPT !.pos = s + 1]
      /\ UNCHANGED <<sref, linked, height, loop, walk>>
  BY DEF z_stream_attach_source, z_stream_source_new
<1>2. /\ LifeTypes /\ LinkInv /\ StructInv /\ RefInv
      /\ BuildInv /\ WalkInv /\ TurnInv /\ PollInv
      /\ Depth \in Nat /\ height \in Int /\ height <= Depth /\ Streams = 1 .. Depth
      /\ \A i \in Streams : ref[i] \in Int
      /\ Walker \in Threads /\ Other \in Threads
  BY LifeFacts
<1>3. /\ app'.at = (IF s = height THEN "using" ELSE "attaching")
      /\ app'.pos = (IF s = height THEN 0 ELSE s + 1)
      /\ app'.closed = app.closed /\ app'.detached = app.detached /\ app'.by = app.by
  BY <1>1, <1>2 DEF LifeTypes
<1>4. /\ ~app.closed /\ ~app.detached /\ s \in 1 .. height /\ s \in Streams
      /\ \A t \in Threads : walk[t] = Idle
      /\ \A i \in 1 .. height : Held(i) <=> i < s
      /\ \A i \in Streams : ~Held(i) => source[i] = NoSource
      /\ \A i \in Streams : i > height => ~Held(i) /\ ~source[i].active
      /\ \A i \in Streams : source[i].active => Held(i)
  BY <1>1, <1>2 DEF BuildInv
<1>5. \A i \in Streams : source'[i] = IF i = s THEN [held |-> {"stream", "context"}, active |-> TRUE]
                                      ELSE source[i]
  BY <1>1, <1>2 DEF LifeTypes
<1>6. LifeTypes'
  <2>1. source' \in [Streams -> [held : SUBSET {"stream", "context", "loop"}, active : BOOLEAN]]
    BY <1>1, <1>2 DEF LifeTypes
  <2>2. ref' \in [Streams -> Int]
    BY <1>1, <1>2, <1>4 DEF LifeTypes
  <2>3. app' \in [at : {"building", "attaching", "using", "closing", "detaching", "done"},
                  pos : 0 .. Depth, closed : BOOLEAN, detached : BOOLEAN,
                  by : {"app", "callback"}]
    <3>1. CASE s = height
      <4>1. 0 \in 0 .. Depth
        BY <1>2
      <4> QED
        BY <1>1, <1>2, <3>1, <4>1 DEF LifeTypes
    <3>2. CASE s # height
      <4>1. s + 1 \in 0 .. Depth
        BY <1>2, <1>4, <3>2
      <4> QED
        BY <1>1, <1>2, <3>2, <4>1 DEF LifeTypes
    <3> QED
      BY <3>1, <3>2
  <2> QED
    BY <1>1, <1>2, <2>1, <2>2, <2>3 DEF LifeTypes
<1>7. \A i \in Streams : Held(i)' <=> Held(i) \/ i = s
  BY <1>5 DEF Held
<1>8. \A i \in 1 .. height : Held(i)' <=> i <= s
  BY <1>2, <1>4, <1>7
<1>9. LinkInv' /\ StructInv'
  <2>1. ASSUME NEW i \in Streams PROVE Users(i)' <= Users(i)
    <3>1. Grabbed(i)' <=> Grabbed(i)
      BY <1>1 DEF Grabbed
    <3>2. Unclosed(i)' <=> Unclosed(i)
      BY <1>1, <1>3 DEF Unclosed
    <3>3. Attached(i)' => Attached(i)
      BY <1>1 DEF Attached
    <3> QED
      BY <3>1, <3>2, <3>3 DEF Users, One
  <2> QED
    BY <1>1, <2>1, SameStruct
<1>10. RefInv'
  <2>1. ASSUME NEW i \in Streams
        PROVE  ref'[i] >= One(i = height' /\ app'.at # "done")
                          + One(i \in linked') + One(i + 1 \in linked')
                          + One(source'[i].held # {})
                          + One(loop'.at = "detaching" /\ loop'.top = i)
    <3>1. ref[i] >= One(i = height /\ app.at # "done")
                    + One(i \in linked) + One(i + 1 \in linked)
                    + One(source[i].held # {})
                    + One(loop.at = "detaching" /\ loop.top = i)
      BY <1>2 DEF RefInv
    <3>2. ref'[i] = IF i = s THEN ref[i] + 1 ELSE ref[i]
      BY <1>1, <1>2 DEF LifeTypes
    <3>3. app.at # "done" /\ app'.at # "done" /\ ref[i] \in Int
      BY <1>1, <1>2, <1>3
    <3>4. i # s => source'[i] = source[i]
      BY <1>5
    <3> QED
      BY <1>1, <3>1, <3>2, <3>3, <3>4 DEF One
  <2> QED
    BY <2>1 DEF RefInv
<1>11. BuildInv'
  <2>1. \A i \in Streams : i > height' => ~Held(i)' /\ ~source'[i].active
    BY <1>1, <1>2, <1>4, <1>5, <1>7
  <2>2. \A i \in Streams : source'[i].active => Held(i)'
    BY <1>4, <1>5, <1>7
  <2>3. app'.at = "attaching" =>
          /\ app'.pos \in 1 .. height'
          /\ \A i \in 1 .. height' : Held(i)' <=> i < app'.pos
          /\ \A i \in Streams : ~Held(i)' => source'[i] = NoSource
    <3> SUFFICES ASSUME s # height
                 PROVE  /\ s + 1 \in 1 .. height
                        /\ \A i \in 1 .. height : Held(i)' <=> i < s + 1
                        /\ \A i \in Streams : ~Held(i)' => source'[i] = NoSource
      BY <1>1, <1>3
    <3>1. s + 1 \in 1 .. height /\ s \in Int
      BY <1>2, <1>4
    <3>2. \A i \in 1 .. height : Held(i)' <=> i < s + 1
      BY <1>8, <3>1
    <3> QED
      BY <1>4, <1>5, <1>7, <3>1, <3>2
  <2>4. linked' \subseteq 2 .. height' /\ height' > 0 /\ app'.at \in {"attaching", "using"}
    BY <1>1, <1>2, <1>3 DEF BuildInv
  <2>5. ~app'.closed /\ ~app'.detached /\ \A t \in Threads : walk'[t] = Idle
    BY <1>1, <1>3, <1>4
  <2> QED
    BY <2>1, <2>2, <2>3, <2>4, <2>5 DEF BuildInv
<1>12. s = height => AllHeld'
  BY <1>1, <1>2, <1>8 DEF AllHeld
<1>13. WalkInv' /\ TurnInv'
  <2>1. walk'[Walker'] = Idle /\ walk'[Other'] = Idle
    BY <1>1, <1>4 DEF Walker, Other, Threads
  <2>2. walk'["app"].at = "no" /\ walk'["loop"].at = "no"
    BY <1>1, <1>4 DEF Idle, Threads
  <2>3. WalkInv'
    BY <1>3, <1>12, <2>1 DEF WalkInv, Idle
  <2>4. AllHeld => AllHeld'
    BY <1>1, <1>2, <1>7 DEF AllHeld
  <2>5. (app.by = "app" => loop.at # "detaching")
        /\ (app.by = "callback" => (loop.at = "callback" => AllHeld)
                                   /\ (loop.at = "detaching" => NoneHeld))
    BY <1>1, <1>2, <1>4 DEF TurnInv, Idle, Threads
  <2>6. loop.at = "detaching" => app.by # "callback"
    <3> SUFFICES ASSUME loop.at = "detaching", app.by = "callback" PROVE FALSE
      OBVIOUS
    <3>1. NoneHeld /\ loop.s \in 1 .. height /\ "loop" \in source[loop.s].held
      BY <1>2, <2>5 DEF PollInv
    <3>2. loop.s \in Streams
      BY <1>2, <3>1
    <3>3. source[loop.s] = NoSource
      BY <1>4, <3>1, <3>2 DEF NoneHeld
    <3> QED
      BY <3>1, <3>3 DEF NoSource
  <2>7. TurnInv'
    BY <1>1, <1>3, <1>4, <1>12, <2>2, <2>4, <2>5, <2>6 DEF TurnInv
  <2> QED
    BY <2>3, <2>7
<1>14. PollInv'
  <2>1. loop'.at # "idle" => loop'.s \in 1 .. height' /\ "loop" \in source'[loop'.s].held
    <3> SUFFICES ASSUME loop.at # "idle"
                 PROVE  loop.s \in 1 .. height /\ "loop" \in source'[loop.s].held
      BY <1>1
    <3>1. loop.s \in 1 .. height /\ "loop" \in source[loop.s].held
      BY <1>2 DEF PollInv
    <3>2. loop.s \in Streams
      BY <1>2, <3>1
    <3>3. loop.s # s
      <4>1. ~Held(s)
        BY <1>2, <1>4
      <4>2. source[s] = NoSource
        BY <1>4, <4>1
      <4> QED
        BY <3>1, <4>2 DEF NoSource
    <3> QED
      BY <1>5, <3>1, <3>2, <3>3
  <2> QED
    BY <1>1, <1>2, <2>1 DEF PollInv
<1> QED
  BY <1>6, <1>9, <1>10, <1>11, <1>13, <1>14 DEF LifeInv

\* A step of the application inside its use of the stack: what it leaves as it
\* was for the poll thread and for z_stream_detach_source.
LEMMA UsingStep ==
    ASSUME LifeInv, UNCHANGED <<source, height, loop, walk>>,
           ref' \in [Streams -> Int], sref' \in [Streams -> Int],
           linked' \subseteq linked,
           LinkInv', StructInv', RefInv',
           app.at \in {"using", "closing"}, app'.at \in {"using", "closing", "done"},
           app' \in [at : {"building", "attaching", "using", "closing", "detaching", "done"},
                     pos : 0 .. Depth, closed : BOOLEAN, detached : BOOLEAN,
                     by : {"app", "callback"}],
           app'.detached = app.detached, app'.by = app.by,
           app'.at = "closing" => app'.pos \in 1 .. height /\ ~app'.closed,
           loop.at \in {"callback", "detaching", "ungrab"} =>
               \A i \in loop.s + 1 .. height : i \in linked'
    PROVE  LifeInv'
<1>1. /\ LifeTypes /\ BuildInv /\ WalkInv /\ TurnInv /\ PollInv
  BY LifeFacts
<1>2. LifeTypes'
  BY <1>1 DEF LifeTypes
<1>3. /\ \A i \in Streams : Held(i)' <=> Held(i)
      /\ AllHeld' <=> AllHeld
      /\ NoneHeld' <=> NoneHeld
      /\ Walker' = Walker /\ Other' = Other
  BY DEF Held, AllHeld, NoneHeld, Walker, Other
<1>4. BuildInv'
  <2>1. /\ linked' \subseteq 2 .. height' /\ height' > 0
        /\ \A s \in Streams : s > height' => ~Held(s)' /\ ~source'[s].active
        /\ \A s \in Streams : source'[s].active => Held(s)'
    BY <1>1, <1>3 DEF BuildInv
  <2> QED
    BY <2>1 DEF BuildInv
<1>5. WalkInv'
  <2>1. \A s : Held(s)' <=> Held(s)
    BY DEF Held
  <2> QED
    BY <1>1, <1>3, <2>1 DEF WalkInv
<1>6. TurnInv'
  BY <1>1, <1>3 DEF TurnInv
<1>7. PollInv'
  BY <1>1 DEF PollInv
<1> QED
  BY <1>2, <1>4, <1>5, <1>6, <1>7 DEF LifeInv

LEMMA CloseBeginsLife ==
    ASSUME LifeInv, CloseBegins
    PROVE  LifeInv'
<1>1. /\ app.at = "using" /\ ~app.closed
      /\ app' = [app EXCEPT !.at = "closing", !.pos = 1]
      /\ UNCHANGED <<ref, sref, linked, source, height, loop, walk>>
  BY DEF CloseBegins, Ready
<1>2. /\ LifeTypes /\ BuildInv /\ PollInv /\ RefInv
      /\ Depth \in Nat /\ height \in Int /\ height <= Depth /\ Streams = 1 .. Depth
  BY LifeFacts
<1>3. /\ app'.at = "closing" /\ app'.pos = 1 /\ app'.closed = app.closed
      /\ app'.detached = app.detached /\ app'.by = app.by
  BY <1>1, <1>2 DEF LifeTypes
<1>4. height > 0
  BY <1>1, <1>2 DEF BuildInv
<1>5. 1 \in 0 .. Depth /\ 1 \in 1 .. height
  BY <1>2, <1>4
<1>6. app' \in [at : {"building", "attaching", "using", "closing", "detaching", "done"},
                pos : 0 .. Depth, closed : BOOLEAN, detached : BOOLEAN,
                by : {"app", "callback"}]
  BY <1>1, <1>2, <1>5 DEF LifeTypes
<1>7. LinkInv' /\ StructInv'
  <2>1. ASSUME NEW i \in Streams PROVE Users(i)' <= Users(i)
    <3>1. Grabbed(i)' <=> Grabbed(i)
      BY <1>1 DEF Grabbed
    <3>2. Unclosed(i)' <=> Unclosed(i)
      BY <1>1, <1>2, <1>3 DEF Unclosed
    <3>3. Attached(i)' <=> Attached(i)
      BY <1>1, <1>3 DEF Attached, Held, Walker
    <3> QED
      BY <3>1, <3>2, <3>3 DEF Users, One
  <2> QED
    BY <1>1, <2>1, SameStruct
<1>8. RefInv'
  BY <1>1, <1>2, <1>3 DEF RefInv, One
<1>9. /\ ref' \in [Streams -> Int] /\ sref' \in [Streams -> Int] /\ linked' \subseteq linked
  BY <1>1, <1>2 DEF LifeTypes
<1>10. loop.at \in {"callback", "detaching", "ungrab"} =>
           \A i \in loop.s + 1 .. height : i \in linked'
  BY <1>1, <1>2 DEF PollInv
<1> QED
  BY <1>1, <1>3, <1>5, <1>6, <1>7, <1>8, <1>9, <1>10, UsingStep

LEMMA CloseLife ==
    ASSUME LifeInv, z_stream_close
    PROVE  LifeInv'
<1>0. PICK s : s = app.pos
  OBVIOUS
<1>1. /\ app.at = "closing" /\ z_stream_struct_unref(s)
      /\ app' = IF s = height
                THEN [app EXCEPT !.at = "using", !.pos = 0, !.closed = TRUE]
                ELSE [app EXCEPT !.pos = s + 1]
      /\ UNCHANGED <<source, height, loop, walk>>
  BY <1>0 DEF z_stream_close
<1>2. /\ LifeTypes /\ BuildInv
      /\ Depth \in Nat /\ height \in Int /\ height <= Depth /\ Streams = 1 .. Depth
  BY LifeFacts
<1>3. s \in 1 .. height /\ ~app.closed /\ s \in Int /\ s \in Streams
  BY <1>0, <1>1, <1>2 DEF BuildInv
<1>4. /\ app'.at = (IF s = height THEN "using" ELSE "closing")
      /\ app'.pos = (IF s = height THEN 0 ELSE s + 1)
      /\ app'.closed = (s = height)
      /\ app'.detached = app.detached /\ app'.by = app.by
  BY <1>1, <1>2, <1>3 DEF LifeTypes
<1>5. app' \in [at : {"building", "attaching", "using", "closing", "detaching", "done"},
                pos : 0 .. Depth, closed : BOOLEAN, detached : BOOLEAN,
                by : {"app", "callback"}]
  <2>1. CASE s = height
    <3>1. 0 \in 0 .. Depth
      BY <1>2
    <3> QED
      BY <1>1, <1>2, <2>1, <3>1 DEF LifeTypes
  <2>2. CASE s # height
    <3>1. s + 1 \in 0 .. Depth
      BY <1>2, <1>3, <2>2
    <3> QED
      BY <1>1, <1>2, <2>2, <3>1 DEF LifeTypes
  <2> QED
    BY <2>1, <2>2
<1>6. ASSUME NEW i \in Streams
      PROVE  /\ Attached(i)' <=> Attached(i)
             /\ Grabbed(i)' <=> Grabbed(i)
             /\ Unclosed(i)' => Unclosed(i)
  <2>1. Grabbed(i)' <=> Grabbed(i)
    BY <1>1 DEF Grabbed
  <2>2. Attached(i)' <=> Attached(i)
    BY <1>1, <1>4 DEF Attached, Held, Walker
  <2>3. Unclosed(i)' => Unclosed(i)
    <3>1. CASE s = height
      BY <1>4, <3>1 DEF Unclosed
    <3>2. CASE s # height
      <4> SUFFICES ASSUME i <= height, s + 1 <= i PROVE i <= height /\ ~app.closed /\ s <= i
        BY <1>0, <1>1, <1>4, <3>2 DEF Unclosed
      <4> QED
        BY <1>2, <1>3
    <3> QED
      BY <3>1, <3>2
  <2> QED
    BY <2>1, <2>2, <2>3
<1>7. Unclosed(s) /\ ~Unclosed(s)'
  <2>1. Unclosed(s)
    BY <1>0, <1>2, <1>3 DEF Unclosed
  <2>2. CASE s = height
    BY <1>4, <2>1, <2>2 DEF Unclosed
  <2>3. CASE s # height
    BY <1>3, <1>4, <2>1, <2>3 DEF Unclosed
  <2> QED
    BY <2>1, <2>2, <2>3
<1>8. Users(s) >= 1 + Users(s)' /\ Users(s) >= 1 + One(Grabbed(s))
  BY <1>3, <1>6, <1>7 DEF Users, One
<1>9. \A i \in Streams \ {s} : Users(i) >= Users(i)'
  BY <1>6 DEF Users, One
<1>10. app'.at # "done"
  BY <1>4
<1>11. /\ ref' \in [Streams -> Int] /\ sref' \in [Streams -> Int]
       /\ linked' \subseteq linked
       /\ LinkInv' /\ StructInv' /\ RefInv'
       /\ sref[s] > 1 => linked' = linked
       /\ \A i \in linked : i > s => i \in linked'
  BY <1>1, <1>3, <1>8, <1>9, <1>10, UnrefStep
<1>12. loop.at \in {"callback", "detaching", "ungrab"} =>
           \A i \in loop.s + 1 .. height : i \in linked'
  BY <1>3, <1>8, <1>11, ChainKept
<1>13. app'.at = "closing" => app'.pos \in 1 .. height /\ ~app'.closed
  <2>1. CASE s = height
    BY <1>4, <2>1
  <2>2. CASE s # height
    <3>1. s + 1 \in 1 .. height
      BY <1>2, <1>3, <2>2
    <3> QED
      BY <1>4, <2>2, <3>1
  <2> QED
    BY <2>1, <2>2
<1>14. app'.at \in {"using", "closing", "done"}
  BY <1>4
<1> QED
  BY <1>1, <1>4, <1>5, <1>11, <1>12, <1>13, <1>14, UsingStep

LEMMA DestroyLife ==
    ASSUME LifeInv, z_stream_destroy
    PROVE  LifeInv'
<1>1. /\ app.at = "using" /\ ~app.closed /\ z_stream_struct_unref(height)
      /\ app' = [app EXCEPT !.closed = TRUE]
      /\ UNCHANGED <<source, height, loop, walk>>
  BY DEF z_stream_destroy, Ready
<1>2. /\ LifeTypes /\ BuildInv
      /\ Depth \in Nat /\ height \in Int /\ height <= Depth /\ Streams = 1 .. Depth
  BY LifeFacts
<1>3. height > 0 /\ height \in 1 .. height /\ height \in Streams
  BY <1>1, <1>2 DEF BuildInv
<1>4. /\ app'.at = "using" /\ app'.closed
      /\ app'.detached = app.detached /\ app'.by = app.by
      /\ app' \in [at : {"building", "attaching", "using", "closing", "detaching", "done"},
                   pos : 0 .. Depth, closed : BOOLEAN, detached : BOOLEAN,
                   by : {"app", "callback"}]
  BY <1>1, <1>2 DEF LifeTypes
<1>5. ASSUME NEW i \in Streams
      PROVE  /\ Attached(i)' <=> Attached(i)
             /\ Grabbed(i)' <=> Grabbed(i)
             /\ ~Unclosed(i)'
  BY <1>1, <1>4 DEF Grabbed, Attached, Held, Walker, Unclosed
<1>6. Unclosed(height)
  BY <1>1, <1>2 DEF Unclosed
<1>7. Users(height) >= 1 + One(Grabbed(height))
  BY <1>6 DEF Users, One
<1>8. /\ Users(height)' = One(Attached(height)) + One(Grabbed(height))
      /\ Users(height) = One(Attached(height)) + One(Grabbed(height)) + 1
  <2>1. /\ One(Attached(height))' = One(Attached(height))
        /\ One(Grabbed(height))' = One(Grabbed(height))
        /\ One(Unclosed(height))' = 0
    <3>1. /\ Attached(height)' <=> Attached(height)
          /\ Grabbed(height)' <=> Grabbed(height)
          /\ ~Unclosed(height)'
      BY <1>1, <1>4 DEF Grabbed, Attached, Held, Walker, Unclosed
    <3> QED
      BY <3>1 DEF One
  <2>2. One(Unclosed(height)) = 1 /\ One(Attached(height)) \in Nat /\ One(Grabbed(height)) \in Nat
    BY <1>6 DEF One
  <2> QED
    BY <2>1, <2>2 DEF Users
<1>9. Users(height) >= 1 + Users(height)'
  <2>1. One(Attached(height)) \in Nat /\ One(Grabbed(height)) \in Nat
    BY DEF One
  <2> QED
    BY <1>8, <2>1
<1>10. \A i \in Streams \ {height} : Users(i) >= Users(i)'
  BY <1>5 DEF Users, One
<1>11. /\ ref' \in [Streams -> Int] /\ sref' \in [Streams -> Int]
       /\ linked' \subseteq linked
       /\ LinkInv' /\ StructInv' /\ RefInv'
       /\ sref[height] > 1 => linked' = linked
       /\ \A i \in linked : i > height => i \in linked'
  BY <1>1, <1>3, <1>4, <1>9, <1>10, UnrefStep
<1>12. loop.at \in {"callback", "detaching", "ungrab"} =>
           \A i \in loop.s + 1 .. height : i \in linked'
  BY <1>3, <1>7, <1>11, ChainKept
<1> QED
  BY <1>1, <1>4, <1>11, <1>12, UsingStep

LEMMA UnrefTopLife ==
    ASSUME LifeInv, z_stream_unref
    PROVE  LifeInv'
<1>1. /\ app.at = "using" /\ app.closed
      /\ app' = [app EXCEPT !.at = "done"]
      /\ ref' = [ref EXCEPT ![height] = ref[height] - 1]
      /\ UNCHANGED <<sref, linked, source, height, loop, walk>>
  BY DEF z_stream_unref, Ready
<1>2. /\ LifeTypes /\ BuildInv /\ PollInv /\ RefInv
      /\ Depth \in Nat /\ height \in Int /\ height <= Depth /\ Streams = 1 .. Depth
      /\ \A i \in Streams : ref[i] \in Int
  BY LifeFacts
<1>3. /\ app'.at = "done" /\ app'.closed = app.closed
      /\ app'.detached = app.detached /\ app'.by = app.by
      /\ app' \in [at : {"building", "attaching", "using", "closing", "detaching", "done"},
                   pos : 0 .. Depth, closed : BOOLEAN, detached : BOOLEAN,
                   by : {"app", "callback"}]
  BY <1>1, <1>2 DEF LifeTypes
<1>4. height \in Streams
  BY <1>1, <1>2 DEF BuildInv
<1>5. LinkInv' /\ StructInv'
  <2>1. ASSUME NEW i \in Streams PROVE Users(i)' <= Users(i)
    <3>1. /\ Grabbed(i)' <=> Grabbed(i)
          /\ ~Unclosed(i)'
          /\ Attached(i)' <=> Attached(i)
      BY <1>1, <1>3 DEF Grabbed, Unclosed, Attached, Held, Walker
    <3> QED
      BY <3>1 DEF Users, One
  <2> QED
    BY <1>1, <2>1, SameStruct
<1>6. RefInv'
  <2>1. ASSUME NEW i \in Streams
        PROVE  ref'[i] >= One(i = height' /\ app'.at # "done")
                          + One(i \in linked') + One(i + 1 \in linked')
                          + One(source'[i].held # {})
                          + One(loop'.at = "detaching" /\ loop'.top = i)
    <3>1. ref[i] >= One(i = height /\ app.at # "done")
                    + One(i \in linked) + One(i + 1 \in linked)
                    + One(source[i].held # {})
                    + One(loop.at = "detaching" /\ loop.top = i)
      BY <1>2 DEF RefInv
    <3>2. ref'[i] = (IF i = height THEN ref[i] - 1 ELSE ref[i]) /\ ref[i] \in Int
      BY <1>1, <1>2 DEF LifeTypes
    <3>3. CASE i = height
      BY <1>1, <1>3, <3>1, <3>2, <3>3 DEF One
    <3>4. CASE i # height
      BY <1>1, <3>1, <3>2, <3>4 DEF One
    <3> QED
      BY <3>3, <3>4
  <2> QED
    BY <2>1 DEF RefInv
<1>7. /\ ref' \in [Streams -> Int] /\ sref' \in [Streams -> Int] /\ linked' \subseteq linked
  BY <1>1, <1>2, <1>4 DEF LifeTypes
<1>8. loop.at \in {"callback", "detaching", "ungrab"} =>
           \A i \in loop.s + 1 .. height : i \in linked'
  BY <1>1, <1>2 DEF PollInv
<1> QED
  BY <1>1, <1>3, <1>5, <1>6, <1>7, <1>8, UsingStep

-----------------------------------------------------------------------------
(* z_stream_detach_source, by the one thread that detaches. *)

LEMMA AppDetachesLife ==
    ASSUME LifeInv, ~BothDetach, AppDetaches
    PROVE  LifeInv'
<1>1. /\ app.at = "using" /\ ~app.detached /\ app.by = "app"
      /\ walk' = [walk EXCEPT !["app"] = [at |-> "down", pos |-> height, won |-> {}]]
      /\ app' = [app EXCEPT !.at = "detaching", !.detached = TRUE]
      /\ UNCHANGED <<ref, sref, linked, source, height, loop>>
  BY DEF AppDetaches, Ready
<1>2. /\ LifeTypes /\ BuildInv /\ WalkInv /\ TurnInv /\ PollInv /\ RefInv
      /\ Depth \in Nat /\ height \in Int /\ height <= Depth /\ Streams = 1 .. Depth
  BY LifeFacts
<1>3. /\ app'.at = "detaching" /\ app'.closed = app.closed
      /\ app'.detached /\ app'.by = app.by
      /\ app' \in [at : {"building", "attaching", "using", "closing", "detaching", "done"},
                   pos : 0 .. Depth, closed : BOOLEAN, detached : BOOLEAN,
                   by : {"app", "callback"}]
  BY <1>1, <1>2 DEF LifeTypes
<1>4. /\ Walker = "app" /\ Walker' = "app" /\ Other = "loop" /\ Other' = "loop"
      /\ "app" \in Threads /\ "loop" \in Threads
  BY <1>1, <1>3 DEF Walker, Other, Threads
<1>5. AllHeld /\ walk["app"] = Idle /\ walk["loop"] = Idle
  BY <1>1, <1>2, <1>4 DEF TurnInv, WalkInv
<1>6. /\ walk'["app"] = [at |-> "down", pos |-> height, won |-> {}]
      /\ walk'["loop"] = Idle
  BY <1>1, <1>2, <1>4, <1>5 DEF LifeTypes
<1>7. height > 0 /\ height \in 1 .. height /\ height \in 0 .. Depth
  BY <1>1, <1>2 DEF BuildInv
<1>8. LifeTypes'
  <2>1. [at |-> "down", pos |-> height, won |-> {}]
            \in [at : {"no", "down", "look", "up"}, pos : 0 .. Depth, won : SUBSET Streams]
    BY <1>7
  <2>2. walk' \in [Threads -> [at : {"no", "down", "look", "up"}, pos : 0 .. Depth,
                               won : SUBSET Streams]]
    BY <1>1, <1>2, <2>1 DEF LifeTypes
  <2> QED
    BY <1>1, <1>2, <1>3, <2>2 DEF LifeTypes
<1>9. \A i : Held(i)' <=> Held(i)
  BY <1>1 DEF Held
<1>10. LinkInv' /\ StructInv'
  <2>1. ASSUME NEW i \in Streams PROVE Users(i)' <= Users(i)
    <3>1. /\ Grabbed(i)' <=> Grabbed(i)
          /\ Unclosed(i)' <=> Unclosed(i)
          /\ Attached(i)' => Attached(i)
      BY <1>1, <1>3, <1>4, <1>6, <1>9 DEF Grabbed, Unclosed, Attached
    <3> QED
      BY <3>1 DEF Users, One
  <2> QED
    BY <1>1, <2>1, SameStruct
<1>11. RefInv'
  BY <1>1, <1>2, <1>3 DEF RefInv, One
<1>12. BuildInv'
  BY <1>1, <1>2, <1>3, <1>7, <1>9 DEF BuildInv
<1>13. WalkInv'
  <2>1. \A i \in 1 .. height : Held(i)'
    BY <1>5, <1>9 DEF AllHeld
  <2>2. \A i \in 1 .. height : i < height \/ i = height
    BY <1>2
  <2> QED
    BY <1>1, <1>4, <1>6, <1>7, <2>1, <2>2 DEF WalkInv
<1>14. TurnInv'
  BY <1>1, <1>2, <1>3, <1>6 DEF TurnInv
<1>15. PollInv'
  BY <1>1, <1>2 DEF PollInv
<1> QED
  BY <1>8, <1>10, <1>11, <1>12, <1>13, <1>14, <1>15 DEF LifeInv

LEMMA AppDetachedLife ==
    ASSUME LifeInv, AppDetached
    PROVE  LifeInv'
<1>1. /\ app.at = "detaching" /\ walk["app"] = Idle
      /\ app' = [app EXCEPT !.at = "using"]
      /\ UNCHANGED <<ref, sref, linked, source, height, loop, walk>>
  BY DEF AppDetached
<1>2. /\ LifeTypes /\ BuildInv /\ WalkInv /\ TurnInv /\ PollInv /\ RefInv
  BY LifeFacts
<1>3. /\ app'.at = "using" /\ app'.closed = app.closed
      /\ app'.detached = app.detached /\ app'.by = app.by
      /\ app' \in [at : {"building", "attaching", "using", "closing", "detaching", "done"},
                   pos : 0 .. Depth, closed : BOOLEAN, detached : BOOLEAN,
                   by : {"app", "callback"}]
  BY <1>1, <1>2 DEF LifeTypes
<1>4. app.by = "app" /\ app.detached /\ NoneHeld
  BY <1>1, <1>2 DEF TurnInv, Idle, LifeTypes
<1>5. LifeTypes'
  BY <1>1, <1>2, <1>3 DEF LifeTypes
<1>6. /\ \A i : Held(i)' <=> Held(i)
      /\ AllHeld' <=> AllHeld
      /\ NoneHeld' <=> NoneHeld
      /\ Walker' = Walker /\ Other' = Other
  BY <1>1, <1>3 DEF Held, AllHeld, NoneHeld, Walker, Other
<1>7. LinkInv' /\ StructInv'
  <2>1. ASSUME NEW i \in Streams PROVE Users(i)' <= Users(i)
    <3>1. /\ Grabbed(i)' <=> Grabbed(i)
          /\ Unclosed(i)' <=> Unclosed(i)
          /\ Attached(i)' <=> Attached(i)
      BY <1>1, <1>3, <1>6 DEF Grabbed, Unclosed, Attached
    <3> QED
      BY <3>1 DEF Users, One
  <2> QED
    BY <1>1, <2>1, SameStruct
<1>8. RefInv'
  BY <1>1, <1>2, <1>3 DEF RefInv, One
<1>9. BuildInv'
  BY <1>1, <1>2, <1>3, <1>6 DEF BuildInv
<1>10. WalkInv'
  BY <1>1, <1>2, <1>3, <1>6 DEF WalkInv
<1>11. TurnInv'
  BY <1>1, <1>2, <1>3, <1>4, <1>6 DEF TurnInv, Idle
<1>12. PollInv'
  BY <1>1, <1>2 DEF PollInv
<1> QED
  BY <1>5, <1>7, <1>8, <1>9, <1>10, <1>11, <1>12 DEF LifeInv

\* The thread inside z_stream_detach_source is the one that detaches.
LEMMA WalkerWalks ==
    ASSUME LifeInv, NEW t \in Threads, walk[t].at # "no"
    PROVE  /\ t = Walker /\ Other # t /\ walk[Other] = Idle
           /\ app.at \notin {"building", "attaching"}
           /\ walk[t].pos \in 1 .. height /\ walk[t].pos \in Streams
           /\ walk[t].at \in {"down", "look", "up"}
           /\ app.by = "app" => t = "app" /\ app.at = "detaching"
           /\ app.by = "callback" => t = "loop" /\ loop.at = "detaching"
           /\ app.by \in {"app", "callback"}
<1>1. /\ LifeTypes /\ BuildInv /\ WalkInv /\ TurnInv
      /\ Depth \in Nat /\ height \in Int /\ height <= Depth /\ Streams = 1 .. Depth
  BY LifeFacts
<1>2. walk[t] # Idle
  BY DEF Idle
<1>3. t = Walker /\ Other # t /\ walk[Other] = Idle
  BY <1>1, <1>2 DEF WalkInv, Walker, Other, Threads
<1>4. app.at \notin {"building", "attaching"}
  BY <1>1, <1>2 DEF BuildInv
<1>5. walk[t].pos \in 1 .. height
  BY <1>1, <1>3 DEF WalkInv
<1>6. walk[t].pos \in Streams
  BY <1>1, <1>5
<1>7. walk[t].at \in {"down", "look", "up"} /\ app.by \in {"app", "callback"}
  BY <1>1 DEF LifeTypes
<1>8. app.by = "app" => t = "app" /\ app.at = "detaching"
  BY <1>1, <1>3 DEF TurnInv, Walker
<1>9. app.by = "callback" => t = "loop" /\ loop.at = "detaching"
  BY <1>1, <1>3 DEF TurnInv, Walker
<1> QED
  BY <1>3, <1>4, <1>5, <1>6, <1>7, <1>8, <1>9

LEMMA TakeSourceLife ==
    ASSUME LifeInv, NEW t \in Threads, TakeSource(t)
    PROVE  LifeInv'
<1>0. PICK s : s = walk[t].pos
  OBVIOUS
<1>1. /\ walk[t].at = "down"
      /\ DropSource(s, IF "stream" \in source[s].held THEN {"stream", "context"} ELSE {})
      /\ walk' = [walk EXCEPT ![t].at = "look",
                              ![t].won = IF "stream" \in source[s].held THEN walk[t].won \cup {s}
                                         ELSE walk[t].won]
      /\ UNCHANGED <<sref, linked, height, app, loop>>
  BY <1>0 DEF TakeSource
<1>2. /\ LifeTypes /\ BuildInv /\ WalkInv /\ TurnInv /\ PollInv /\ RefInv
      /\ Depth \in Nat /\ height \in Int /\ height <= Depth /\ Streams = 1 .. Depth
      /\ \A i \in Streams : ref[i] \in Int
  BY LifeFacts
<1>3. /\ t = Walker /\ Other # t /\ walk[Other] = Idle
      /\ app.at \notin {"building", "attaching"}
      /\ s \in 1 .. height /\ s \in Streams /\ s \in Int
      /\ app.by = "app" => t = "app" /\ app.at = "detaching"
      /\ app.by = "callback" => t = "loop" /\ loop.at = "detaching"
      /\ app.by \in {"app", "callback"}
  BY <1>0, <1>1, <1>2, WalkerWalks
<1>4. /\ \A i \in 1 .. height : Held(i) <=> i < s \/ i = s
      /\ walk[t].won = {i \in 1 .. height : ~Held(i)}
  BY <1>0, <1>1, <1>2, <1>3 DEF WalkInv
<1>5. "stream" \in source[s].held
  BY <1>3, <1>4 DEF Held
<1>6. PICK left : left = source[s].held \ {"stream", "context"}
  OBVIOUS
<1>7. /\ source' = [source EXCEPT ![s].held = left, ![s].active = FALSE]
      /\ ref' = IF left = {} THEN [ref EXCEPT ![s] = ref[s] - 1] ELSE ref
  BY <1>1, <1>5, <1>6 DEF DropSource
<1>8. /\ \A i \in Streams : i # s => source'[i] = source[i]
      /\ source'[s].held = left /\ source'[s].active = FALSE
  BY <1>2, <1>3, <1>7 DEF LifeTypes
<1>9. /\ walk'[t].at = "look" /\ walk'[t].pos = s /\ walk'[t].won = walk[t].won \cup {s}
      /\ walk'[Other] = Idle
  BY <1>0, <1>1, <1>2, <1>3, <1>5, LifeFacts DEF LifeTypes
<1>10. /\ \A i \in Streams : Held(i)' <=> Held(i) /\ i # s
       /\ Walker' = Walker /\ Other' = Other
  BY <1>1, <1>6, <1>8 DEF Held, Walker, Other
<1>11. LifeTypes'
  <2>1. source' \in [Streams -> [held : SUBSET {"stream", "context", "loop"}, active : BOOLEAN]]
    <3>1. left \in SUBSET {"stream", "context", "loop"}
      BY <1>2, <1>3, <1>6 DEF LifeTypes
    <3>2. source'[s] \in [held : SUBSET {"stream", "context", "loop"}, active : BOOLEAN]
      <4>1. source'[s] = [[source[s] EXCEPT !.held = left] EXCEPT !.active = FALSE]
        BY <1>2, <1>3, <1>7 DEF LifeTypes
      <4>2. source[s] \in [held : SUBSET {"stream", "context", "loop"}, active : BOOLEAN]
        BY <1>2, <1>3 DEF LifeTypes
      <4> QED
        BY <3>1, <4>1, <4>2
    <3>3. DOMAIN source' = Streams /\ source' = [i \in Streams |-> source'[i]]
      BY <1>2, <1>7 DEF LifeTypes
    <3>4. \A i \in Streams :
              source'[i] \in [held : SUBSET {"stream", "context", "loop"}, active : BOOLEAN]
      BY <1>2, <1>8, <3>2 DEF LifeTypes
    <3> QED
      BY <3>3, <3>4
  <2>2. ref' \in [Streams -> Int]
    BY <1>2, <1>3, <1>7 DEF LifeTypes
  <2>3. walk' \in [Threads -> [at : {"no", "down", "look", "up"}, pos : 0 .. Depth,
                               won : SUBSET Streams]]
    <3>1. walk[t].won \cup {s} \in SUBSET Streams
      BY <1>2, <1>3 DEF LifeTypes
    <3>2. walk' = [walk EXCEPT ![t].at = "look", ![t].won = walk[t].won \cup {s}]
      BY <1>1, <1>5
    <3>3. walk'[t] = [[walk[t] EXCEPT !.at = "look"] EXCEPT !.won = walk[t].won \cup {s}]
      BY <1>2, <3>2 DEF LifeTypes
    <3>4. walk[t] \in [at : {"no", "down", "look", "up"}, pos : 0 .. Depth, won : SUBSET Streams]
      BY <1>2 DEF LifeTypes
    <3>5. walk'[t] \in [at : {"no", "down", "look", "up"}, pos : 0 .. Depth, won : SUBSET Streams]
      BY <3>1, <3>3, <3>4
    <3>6. walk' = [u \in Threads |-> walk'[u]] /\ \A u \in Threads : u # t => walk'[u] = walk[u]
      BY <1>2, <3>2 DEF LifeTypes
    <3>7. \A u \in Threads : walk'[u] \in [at : {"no", "down", "look", "up"}, pos : 0 .. Depth,
                                           won : SUBSET Streams]
      BY <1>2, <3>5, <3>6 DEF LifeTypes
    <3> QED
      BY <3>6, <3>7
  <2> QED
    BY <1>1, <1>2, <2>1, <2>2, <2>3 DEF LifeTypes
<1>12. LinkInv' /\ StructInv'
  <2>1. ASSUME NEW i \in Streams PROVE Users(i)' <= Users(i)
    <3>1. Grabbed(i)' <=> Grabbed(i)
      BY <1>1 DEF Grabbed
    <3>2. Unclosed(i)' <=> Unclosed(i)
      BY <1>1 DEF Unclosed
    <3>3. Attached(i)' => Attached(i)
      <4>1. CASE i = s
        BY <1>1, <1>3, <1>4, <4>1 DEF Attached
      <4>2. CASE i # s
        BY <1>0, <1>1, <1>3, <1>9, <1>10, <4>2 DEF Attached
      <4> QED
        BY <4>1, <4>2
    <3> QED
      BY <3>1, <3>2, <3>3 DEF Users, One
  <2> QED
    BY <1>1, <2>1, SameStruct
<1>13. RefInv'
  <2>1. ASSUME NEW i \in Streams
        PROVE  ref'[i] >= One(i = height' /\ app'.at # "done")
                          + One(i \in linked') + One(i + 1 \in linked')
                          + One(source'[i].held # {})
                          + One(loop'.at = "detaching" /\ loop'.top = i)
    <3>1. ref[i] >= One(i = height /\ app.at # "done")
                    + One(i \in linked) + One(i + 1 \in linked)
                    + One(source[i].held # {})
                    + One(loop.at = "detaching" /\ loop.top = i)
      BY <1>2 DEF RefInv
    <3>2. ref'[i] = (IF i = s /\ left = {} THEN ref[i] - 1 ELSE ref[i]) /\ ref[i] \in Int
      BY <1>2, <1>7 DEF LifeTypes
    <3>3. CASE i = s
      <4>1. source[i].held # {} /\ source'[i].held = left
        BY <1>5, <1>8, <3>3
      <4> QED
        BY <1>1, <3>1, <3>2, <3>3, <4>1 DEF One
    <3>4. CASE i # s
      <4>1. source'[i] = source[i]
        BY <1>8, <3>4
      <4> QED
        BY <1>1, <3>1, <3>2, <3>4, <4>1 DEF One
    <3> QED
      BY <3>3, <3>4
  <2> QED
    BY <2>1 DEF RefInv
<1>14. BuildInv'
  <2>1. /\ \A i \in Streams : i > height' => ~Held(i)' /\ ~source'[i].active
        /\ \A i \in Streams : source'[i].active => Held(i)'
    BY <1>1, <1>2, <1>8, <1>10 DEF BuildInv
  <2>2. /\ linked' \subseteq 2 .. height' /\ height' > 0
        /\ app'.at = "closing" => app'.pos \in 1 .. height' /\ ~app'.closed
    BY <1>1, <1>2, <1>3 DEF BuildInv
  <2> QED
    BY <1>1, <1>3, <2>1, <2>2 DEF BuildInv
<1>15. WalkInv'
  <2>1. \A i \in 1 .. height : Held(i)' <=> i < s
    BY <1>2, <1>3, <1>4, <1>10
  <2>2. walk'[t].won = {i \in 1 .. height : ~Held(i)'}
    BY <1>2, <1>3, <1>4, <1>9, <1>10
  <2> QED
    BY <1>1, <1>3, <1>9, <1>10, <2>1, <2>2 DEF WalkInv
<1>16. TurnInv'
  BY <1>1, <1>2, <1>3, <1>9 DEF TurnInv
<1>17. PollInv'
  <2>1. loop'.at # "idle" => loop'.s \in 1 .. height' /\ "loop" \in source'[loop'.s].held
    <3> SUFFICES ASSUME loop.at # "idle"
                 PROVE  loop.s \in 1 .. height /\ "loop" \in source'[loop.s].held
      BY <1>1
    <3>1. loop.s \in 1 .. height /\ "loop" \in source[loop.s].held
      BY <1>2 DEF PollInv
    <3>2. loop.s \in Streams
      BY <1>2, <3>1
    <3> QED
      BY <1>6, <1>8, <3>1, <3>2
  <2> QED
    BY <1>1, <1>2, <2>1 DEF PollInv
<1> QED
  BY <1>11, <1>12, <1>13, <1>14, <1>15, <1>16, <1>17 DEF LifeInv

LEMMA DetachChildLife ==
    ASSUME LifeInv, NEW t \in Threads, DetachChild(t)
    PROVE  LifeInv'
<1>0. PICK s : s = walk[t].pos
  OBVIOUS
<1>1. /\ walk[t].at = "look"
      /\ walk' = [walk EXCEPT ![t] = IF s \in linked
                                     THEN [walk[t] EXCEPT !.at = "down", !.pos = s - 1]
                                     ELSE [walk[t] EXCEPT !.at = "up"]]
      /\ UNCHANGED <<ref, sref, linked, source, height, app, loop>>
  BY <1>0 DEF DetachChild
<1>2. /\ LifeTypes /\ BuildInv /\ WalkInv /\ TurnInv /\ PollInv /\ RefInv
      /\ Depth \in Nat /\ height \in Int /\ height <= Depth /\ Streams = 1 .. Depth
      /\ \A i \in Streams : ref[i] \in Int
  BY LifeFacts
<1>3. /\ t = Walker /\ Other # t /\ walk[Other] = Idle /\ Other \in Threads
      /\ app.at \notin {"building", "attaching"}
      /\ s \in 1 .. height /\ s \in Streams /\ s \in Int
      /\ app.by = "app" => t = "app" /\ app.at = "detaching"
      /\ app.by = "callback" => t = "loop" /\ loop.at = "detaching"
      /\ app.by \in {"app", "callback"}
  BY <1>0, <1>1, <1>2, WalkerWalks, LifeFacts
<1>4. /\ \A i \in 1 .. height : Held(i) <=> i < s
      /\ walk[t].won = {i \in 1 .. height : ~Held(i)}
  BY <1>0, <1>1, <1>2, <1>3 DEF WalkInv
<1>5. s \notin linked => s = 1
  BY <1>1, <1>2, <1>3, WalkLinked
<1>6. s \in linked => s >= 2
  BY <1>2 DEF LifeTypes
<1>7. walk[t] \in [at : {"no", "down", "look", "up"}, pos : 0 .. Depth, won : SUBSET Streams]
  BY <1>2 DEF LifeTypes
<1>8. /\ walk'[t].at = (IF s \in linked THEN "down" ELSE "up")
      /\ walk'[t].pos = (IF s \in linked THEN s - 1 ELSE s)
      /\ walk'[t].won = walk[t].won
      /\ walk'[Other] = Idle
  BY <1>0, <1>1, <1>2, <1>3, <1>7 DEF LifeTypes
<1>9. /\ \A i : Held(i)' <=> Held(i)
      /\ Walker' = Walker /\ Other' = Other
  BY <1>1 DEF Held, Walker, Other
<1>10. LifeTypes'
  <2>1. walk'[t] \in [at : {"no", "down", "look", "up"}, pos : 0 .. Depth, won : SUBSET Streams]
    <3>1. CASE s \in linked
      <4>1. s - 1 \in 0 .. Depth
        BY <1>2, <1>3, <1>6, <3>1
      <4>2. walk'[t] = [walk[t] EXCEPT !.at = "down", !.pos = s - 1]
        BY <1>1, <1>2, <3>1 DEF LifeTypes
      <4> QED
        BY <1>7, <4>1, <4>2
    <3>2. CASE s \notin linked
      <4>1. walk'[t] = [walk[t] EXCEPT !.at = "up"]
        BY <1>1, <1>2, <3>2 DEF LifeTypes
      <4> QED
        BY <1>7, <4>1
    <3> QED
      BY <3>1, <3>2
  <2>2. walk' = [u \in Threads |-> walk'[u]] /\ \A u \in Threads : u # t => walk'[u] = walk[u]
    BY <1>1, <1>2 DEF LifeTypes
  <2>3. \A u \in Threads : walk'[u] \in [at : {"no", "down", "look", "up"}, pos : 0 .. Depth,
                                         won : SUBSET Streams]
    BY <1>2, <2>1, <2>2 DEF LifeTypes
  <2>4. walk' \in [Threads -> [at : {"no", "down", "look", "up"}, pos : 0 .. Depth,
                               won : SUBSET Streams]]
    BY <2>2, <2>3
  <2> QED
    BY <1>1, <1>2, <2>4 DEF LifeTypes
<1>11. LinkInv' /\ StructInv'
  <2>1. ASSUME NEW i \in Streams PROVE Users(i)' <= Users(i)
    <3>1. (Grabbed(i)' <=> Grabbed(i)) /\ (Unclosed(i)' <=> Unclosed(i))
      BY <1>1 DEF Grabbed, Unclosed
    <3>2. Attached(i)' => Attached(i)
      <4> SUFFICES ASSUME i <= height, i \in walk[t].won, ~Held(i) PROVE walk[t].pos <= i
        BY <1>1, <1>3, <1>8, <1>9 DEF Attached
      <4>1. i \in 1 .. height
        BY <1>4
      <4> QED
        BY <1>0, <1>2, <1>3, <1>4, <4>1
    <3> QED
      BY <3>1, <3>2 DEF Users, One
  <2> QED
    BY <1>1, <2>1, SameStruct
<1>12. RefInv'
  BY <1>1, <1>2 DEF RefInv
<1>13. BuildInv'
  BY <1>1, <1>2, <1>3, <1>9 DEF BuildInv
<1>14. WalkInv'
  <2>1. walk'[t].pos \in 1 .. height
    BY <1>2, <1>3, <1>6, <1>8
  <2>2. CASE s \in linked
    <3>1. \A i \in 1 .. height : Held(i)' <=> i < s - 1 \/ i = s - 1
      BY <1>2, <1>3, <1>4, <1>9
    <3>2. walk'[t].won = {i \in 1 .. height : ~Held(i)'}
      BY <1>4, <1>8, <1>9
    <3> QED
      BY <1>1, <1>3, <1>8, <1>9, <2>1, <2>2, <3>1, <3>2 DEF WalkInv
  <2>3. CASE s \notin linked
    <3>1. \A i \in 1 .. height : ~Held(i)
      BY <1>2, <1>4, <1>5, <2>3
    <3>2. NoneHeld'
      BY <1>2, <1>9, <3>1 DEF NoneHeld, BuildInv
    <3>3. walk'[t].won = 1 .. height
      BY <1>4, <1>8, <3>1
    <3> QED
      BY <1>1, <1>3, <1>8, <1>9, <2>1, <2>3, <3>2, <3>3 DEF WalkInv
  <2> QED
    BY <2>2, <2>3
<1>15. TurnInv'
  BY <1>1, <1>2, <1>3, <1>8 DEF TurnInv
<1>16. PollInv'
  BY <1>1, <1>2 DEF PollInv
<1> QED
  BY <1>10, <1>11, <1>12, <1>13, <1>14, <1>15, <1>16 DEF LifeInv

LEMMA DetachReturnsLife ==
    ASSUME LifeInv, NEW t \in Threads, DetachReturns(t)
    PROVE  LifeInv'
<1>0. PICK s : s = walk[t].pos
  OBVIOUS
<1>1. /\ walk[t].at = "up"
      /\ s \in walk[t].won => z_stream_struct_unref(s)
      /\ walk' = [walk EXCEPT ![t] = IF s = height THEN Idle
                                     ELSE [walk[t] EXCEPT !.pos = s + 1]]
      /\ UNCHANGED <<source, height, app, loop>>
  BY <1>0 DEF DetachReturns
<1>2. /\ LifeTypes /\ BuildInv /\ WalkInv /\ TurnInv /\ PollInv
      /\ Depth \in Nat /\ height \in Int /\ height <= Depth /\ Streams = 1 .. Depth
      /\ \A i \in Streams : ref[i] \in Int
  BY LifeFacts
<1>3. /\ t = Walker /\ Other # t /\ walk[Other] = Idle /\ Other \in Threads
      /\ app.at \notin {"building", "attaching"}
      /\ s \in 1 .. height /\ s \in Streams /\ s \in Int
      /\ app.by = "app" => t = "app" /\ app.at = "detaching"
      /\ app.by = "callback" => t = "loop" /\ loop.at = "detaching"
      /\ app.by \in {"app", "callback"}
  BY <1>0, <1>1, <1>2, WalkerWalks, LifeFacts
<1>4. NoneHeld /\ walk[t].won = 1 .. height
  BY <1>1, <1>2, <1>3 DEF WalkInv
<1>5. z_stream_struct_unref(s)
  BY <1>1, <1>3, <1>4
<1>6. walk[t] \in [at : {"no", "down", "look", "up"}, pos : 0 .. Depth, won : SUBSET Streams]
  BY <1>2 DEF LifeTypes
<1>7. /\ walk'[t] = IF s = height THEN Idle ELSE [walk[t] EXCEPT !.pos = s + 1]
      /\ walk'[Other] = Idle
      /\ walk' = [u \in Threads |-> walk'[u]]
      /\ \A u \in Threads : u # t => walk'[u] = walk[u]
  BY <1>1, <1>2, <1>3 DEF LifeTypes
<1>8. /\ s = height => walk'[t] = Idle
      /\ s # height => /\ walk'[t].at = "up" /\ walk'[t].pos = s + 1
                       /\ walk'[t].won = 1 .. height
                       /\ s + 1 \in 1 .. height /\ s + 1 \in 0 .. Depth
  BY <1>1, <1>2, <1>3, <1>4, <1>6, <1>7
<1>9. /\ \A i : Held(i)' <=> Held(i)
      /\ NoneHeld'
      /\ Walker' = Walker /\ Other' = Other
  BY <1>1, <1>4 DEF Held, NoneHeld, Walker, Other
<1>10. walk' \in [Threads -> [at : {"no", "down", "look", "up"}, pos : 0 .. Depth,
                              won : SUBSET Streams]]
  <2>1. walk'[t] \in [at : {"no", "down", "look", "up"}, pos : 0 .. Depth, won : SUBSET Streams]
    <3>1. CASE s = height
      <4>1. 0 \in 0 .. Depth
        BY <1>2
      <4> QED
        BY <1>7, <3>1, <4>1 DEF Idle
    <3>2. CASE s # height
      BY <1>6, <1>7, <1>8, <3>2
    <3> QED
      BY <3>1, <3>2
  <2>2. \A u \in Threads : walk'[u] \in [at : {"no", "down", "look", "up"}, pos : 0 .. Depth,
                                         won : SUBSET Streams]
    BY <1>2, <1>7, <2>1 DEF LifeTypes
  <2> QED
    BY <1>7, <2>2
<1>11. Attached(s) /\ ~Attached(s)'
  <2>1. Attached(s)
    BY <1>0, <1>2, <1>3, <1>4 DEF Attached
  <2>2. ~Held(s)'
    BY <1>3, <1>9 DEF NoneHeld
  <2>3. CASE s = height
    BY <1>1, <1>3, <1>8, <1>9, <2>1, <2>2, <2>3 DEF Attached, Idle
  <2>4. CASE s # height
    BY <1>1, <1>3, <1>8, <1>9, <2>1, <2>2, <2>4 DEF Attached
  <2> QED
    BY <2>1, <2>3, <2>4
<1>12. ASSUME NEW i \in Streams
       PROVE  /\ Grabbed(i)' <=> Grabbed(i)
              /\ Unclosed(i)' <=> Unclosed(i)
              /\ Attached(i)' => Attached(i)
  <2>1. (Grabbed(i)' <=> Grabbed(i)) /\ (Unclosed(i)' <=> Unclosed(i))
    BY <1>1 DEF Grabbed, Unclosed
  <2>2. ~Held(i)'
    BY <1>9 DEF NoneHeld
  <2>3. CASE s = height
    BY <1>1, <1>3, <1>8, <1>9, <2>1, <2>2, <2>3 DEF Attached, Idle
  <2>4. CASE s # height
    <3>1. s + 1 <= i => s <= i
      BY <1>2, <1>3
    <3> QED
      BY <1>0, <1>1, <1>3, <1>4, <1>8, <1>9, <2>1, <2>2, <2>4, <3>1 DEF Attached
  <2> QED
    BY <2>3, <2>4
<1>13. Users(s) >= 1 + Users(s)' /\ Users(s) >= 1 + One(Grabbed(s))
  BY <1>3, <1>11, <1>12 DEF Users, One
<1>14. \A i \in Streams \ {s} : Users(i) >= Users(i)'
  BY <1>12 DEF Users, One
<1>15. /\ ref' \in [Streams -> Int] /\ sref' \in [Streams -> Int]
       /\ linked' \subseteq linked
       /\ LinkInv' /\ StructInv' /\ RefInv'
       /\ sref[s] > 1 => linked' = linked
       /\ \A i \in linked : i > s => i \in linked'
  BY <1>1, <1>3, <1>5, <1>13, <1>14, UnrefStep
<1>16. loop.at \in {"callback", "detaching", "ungrab"} =>
           \A i \in loop.s + 1 .. height : i \in linked'
  BY <1>3, <1>13, <1>15, ChainKept
<1>17. LifeTypes'
  BY <1>1, <1>2, <1>10, <1>15 DEF LifeTypes
<1>18. BuildInv'
  <2>1. linked' \subseteq 2 .. height' /\ height' > 0
    BY <1>1, <1>2, <1>3, <1>15 DEF BuildInv
  <2> QED
    BY <1>1, <1>2, <1>3, <1>9, <2>1 DEF BuildInv
<1>19. WalkInv'
  <2>1. CASE s = height
    BY <1>3, <1>7, <1>8, <1>9, <2>1 DEF WalkInv, Idle
  <2>2. CASE s # height
    BY <1>1, <1>3, <1>7, <1>8, <1>9, <2>2 DEF WalkInv
  <2> QED
    BY <2>1, <2>2
<1>20. TurnInv'
  BY <1>1, <1>2, <1>3, <1>9 DEF TurnInv
<1>21. PollInv'
  BY <1>1, <1>2, <1>16 DEF PollInv
<1> QED
  BY <1>15, <1>17, <1>18, <1>19, <1>20, <1>21 DEF LifeInv

-----------------------------------------------------------------------------
(* The poll thread. *)

LEMMA LoopTakesLife ==
    ASSUME LifeInv, LoopTakes
    PROVE  LifeInv'
<1>1. PICK s \in Streams, c \in {"look", "dispatch"} :
          /\ source[s].active /\ "context" \in source[s].held
          /\ source' = [source EXCEPT ![s].held = source[s].held \cup {"loop"}]
          /\ loop' = [loop EXCEPT !.at = "grab", !.s = s, !.call = c]
  BY DEF LoopTakes
<1>2. loop.at = "idle" /\ UNCHANGED <<ref, sref, linked, height, app, walk>>
  BY DEF LoopTakes
<1>3. /\ LifeTypes /\ BuildInv /\ WalkInv /\ TurnInv /\ PollInv /\ RefInv
      /\ Depth \in Nat /\ height \in Int /\ height <= Depth /\ Streams = 1 .. Depth
      /\ \A i \in Streams : ref[i] \in Int
  BY LifeFacts
<1>4. /\ \A i \in Streams : i # s => source'[i] = source[i]
      /\ source'[s].held = source[s].held \cup {"loop"} /\ source'[s].active = source[s].active
  BY <1>1, <1>3 DEF LifeTypes
<1>5. /\ loop'.at = "grab" /\ loop'.s = s /\ loop'.top = loop.top
      /\ loop' \in [at : {"idle", "grab", "callback", "detaching", "ungrab", "release"},
                    s : 0 .. Depth, top : 0 .. Depth, call : {"look", "dispatch"}]
  <2>1. s \in 0 .. Depth
    BY <1>3
  <2> QED
    BY <1>1, <1>3, <2>1 DEF LifeTypes
<1>6. Held(s) /\ s \in 1 .. height
  BY <1>1, <1>3 DEF BuildInv
<1>7. /\ \A i \in Streams : Held(i)' <=> Held(i)
      /\ \A i \in Streams : source'[i].active = source[i].active
      /\ Walker' = Walker /\ Other' = Other
  BY <1>2, <1>4 DEF Held, Walker, Other
<1>8. /\ AllHeld' <=> AllHeld
      /\ NoneHeld' <=> NoneHeld
  BY <1>2, <1>3, <1>7 DEF AllHeld, NoneHeld
<1>9. LifeTypes'
  <2>1. source' \in [Streams -> [held : SUBSET {"stream", "context", "loop"}, active : BOOLEAN]]
    BY <1>1, <1>3 DEF LifeTypes
  <2> QED
    BY <1>2, <1>3, <1>5, <2>1 DEF LifeTypes
<1>10. LinkInv' /\ StructInv'
  <2>1. ASSUME NEW i \in Streams PROVE Users(i)' <= Users(i)
    <3>1. /\ Grabbed(i)' <=> Grabbed(i)
          /\ Unclosed(i)' <=> Unclosed(i)
          /\ Attached(i)' <=> Attached(i)
      BY <1>2, <1>5, <1>7 DEF Grabbed, Unclosed, Attached
    <3> QED
      BY <3>1 DEF Users, One
  <2> QED
    BY <1>2, <2>1, SameStruct
<1>11. RefInv'
  <2>1. ASSUME NEW i \in Streams
        PROVE  ref'[i] >= One(i = height' /\ app'.at # "done")
                          + One(i \in linked') + One(i + 1 \in linked')
                          + One(source'[i].held # {})
                          + One(loop'.at = "detaching" /\ loop'.top = i)
    <3>1. ref[i] >= One(i = height /\ app.at # "done")
                    + One(i \in linked) + One(i + 1 \in linked)
                    + One(source[i].held # {})
                    + One(loop.at = "detaching" /\ loop.top = i)
      BY <1>3 DEF RefInv
    <3>2. source'[i].held # {} => source[i].held # {}
      BY <1>1, <1>4
    <3>3. ref'[i] = ref[i] /\ ref[i] \in Int
      BY <1>2, <1>3
    <3> QED
      BY <1>2, <1>5, <3>1, <3>2, <3>3 DEF One
  <2> QED
    BY <2>1 DEF RefInv
<1>12. app.at # "building"
  BY <1>1, <1>3 DEF BuildInv, NoSource
<1>13. BuildInv'
  <2>1. app'.at = "attaching" =>
          /\ app'.pos \in 1 .. height'
          /\ \A i \in 1 .. height' : Held(i)' <=> i < app'.pos
          /\ \A i \in Streams : ~Held(i)' => source'[i] = NoSource
    <3> SUFFICES ASSUME app.at = "attaching"
                 PROVE  /\ app.pos \in 1 .. height
                        /\ \A i \in 1 .. height : Held(i)' <=> i < app.pos
                        /\ \A i \in Streams : ~Held(i)' => source'[i] = NoSource
      BY <1>2
    <3>1. /\ app.pos \in 1 .. height
          /\ \A i \in 1 .. height : Held(i) <=> i < app.pos
          /\ \A i \in Streams : ~Held(i) => source[i] = NoSource
      BY <1>3 DEF BuildInv
    <3> QED
      BY <1>3, <1>4, <1>6, <1>7, <3>1
  <2>2. /\ linked' \subseteq 2 .. height'
        /\ \A i \in Streams : i > height' => ~Held(i)' /\ ~source'[i].active
        /\ \A i \in Streams : source'[i].active => Held(i)'
        /\ app'.at # "building" => height' > 0
        /\ app'.at \in {"building", "attaching"} =>
              ~app'.closed /\ ~app'.detached /\ \A t \in Threads : walk'[t] = Idle
        /\ app'.at = "closing" => app'.pos \in 1 .. height' /\ ~app'.closed
    BY <1>2, <1>3, <1>7 DEF BuildInv
  <2> QED
    BY <1>2, <1>12, <2>1, <2>2 DEF BuildInv
<1>14. WalkInv'
  <2>1. \A i \in 1 .. height : Held(i)' <=> Held(i)
    BY <1>3, <1>7
  <2> QED
    BY <1>2, <1>3, <1>7, <1>8, <2>1 DEF WalkInv
<1>15. TurnInv'
  BY <1>2, <1>3, <1>5, <1>8 DEF TurnInv
<1>16. PollInv'
  BY <1>2, <1>3, <1>4, <1>5, <1>6 DEF PollInv
<1> QED
  BY <1>9, <1>10, <1>11, <1>13, <1>14, <1>15, <1>16 DEF LifeInv

\* z_stream_source_grab_ref succeeds on a whole stack only: every source from
\* the one that was dispatched up to the top is attached, so nobody has begun
\* to take the stack apart.
LEMMA GrabWhole ==
    ASSUME LifeInv, loop.at = "grab", Grabbable(loop.s)
    PROVE  /\ AllHeld /\ Top(loop.s) = height /\ height \in Streams
           /\ \A i \in 2 .. height : i \in linked
<1>1. /\ LifeTypes /\ BuildInv /\ WalkInv /\ TurnInv /\ PollInv
      /\ Depth \in Nat /\ height \in Int /\ height <= Depth /\ Streams = 1 .. Depth
  BY LifeFacts
<1>2. loop.s \in 1 .. height /\ loop.s \in Int /\ loop.s \in Streams
  BY <1>1 DEF PollInv
<1>3. height \in Streams /\ height >= 1 /\ linked \subseteq 2 .. height
  BY <1>1, <1>2 DEF BuildInv
<1>4. \A j \in Above(loop.s) : Held(j)
  BY DEF Grabbable, Held
<1>5. loop.s \in Above(loop.s)
  <2>1. loop.s \in loop.s .. Depth /\ loop.s + 1 .. loop.s = {}
    BY <1>1, <1>2
  <2> QED
    BY <2>1 DEF Above
<1>6. Held(loop.s)
  BY <1>4, <1>5
<1>7. ASSUME \A i \in 2 .. height : i \in linked
      PROVE  Above(loop.s) = loop.s .. height
  <2>1. ASSUME NEW j \in loop.s .. Depth PROVE (\A i \in loop.s + 1 .. j : i \in linked) <=> j <= height
    <3>1. CASE j <= height
      BY <1>1, <1>2, <1>7, <3>1
    <3>2. CASE j > height
      <4>1. j \in loop.s + 1 .. j
        BY <1>1, <1>2, <3>2
      <4>2. j \notin linked
        BY <1>1, <1>3, <3>2
      <4> QED
        BY <1>1, <1>2, <3>2, <4>1, <4>2
    <3> QED
      BY <1>1, <1>2, <3>1, <3>2
  <2>2. Above(loop.s) = {j \in loop.s .. Depth : j <= height}
    BY <2>1 DEF Above
  <2> QED
    BY <1>1, <1>2, <2>2
<1>8. (\A i \in 2 .. height : i \in linked) => Held(height)
  <2> SUFFICES ASSUME \A i \in 2 .. height : i \in linked PROVE Held(height)
    OBVIOUS
  <2>1. height \in loop.s .. height
    BY <1>1, <1>2
  <2> QED
    BY <1>4, <1>7, <2>1
<1>9. app.at # "building"
  BY <1>1 DEF BuildInv
<1>10. AllHeld /\ \A i \in 2 .. height : i \in linked
  <2>1. CASE walk[Walker].at = "no" /\ app.at # "attaching"
    <3>1. AllHeld
      BY <1>1, <1>2, <1>6, <1>9, <2>1 DEF WalkInv, NoneHeld
    <3>2. ASSUME NEW i \in 2 .. height PROVE i \in linked
      <4>1. i \in Streams /\ i # 1 /\ i <= height /\ i \in 1 .. height
        BY <1>1
      <4>2. Attached(i)
        BY <3>1, <4>1 DEF AllHeld, Attached
      <4> QED
        BY <4>1, <4>2, KeptLinked
    <3> QED
      BY <3>1, <3>2
  <2>2. CASE app.at = "attaching"
    <3>1. ASSUME NEW i \in 2 .. height PROVE i \in linked
      <4>1. i \in Streams /\ i # 1 /\ i <= height
        BY <1>1
      <4>2. Attached(i)
        BY <2>2, <4>1 DEF Attached
      <4> QED
        BY <4>1, <4>2, KeptLinked
    <3>2. Held(height)
      BY <1>8, <3>1
    <3>3. app.pos \in 1 .. height /\ (Held(height) <=> height < app.pos)
      BY <1>1, <1>3, <2>2 DEF BuildInv
    <3> QED
      BY <1>1, <3>2, <3>3
  <2>3. CASE walk[Walker].at # "no"
    <3>1. walk[Walker].at \in {"down", "look"}
      <4>1. walk[Walker].at # "up"
        BY <1>1, <1>2, <1>6 DEF WalkInv, NoneHeld
      <4>2. Walker \in Threads
        BY LifeFacts
      <4> QED
        BY <1>1, <2>3, <4>1, <4>2 DEF LifeTypes
    <3>2. ASSUME NEW i \in 2 .. height PROVE i \in linked
      <4>1. i \in Streams /\ i # 1 /\ i <= height
        BY <1>1
      <4> QED
        BY <2>3, <3>1, <4>1, WalkLinked
    <3>3. Held(height)
      BY <1>8, <3>2
    <3>4. PICK p : p = walk[Walker].pos
      OBVIOUS
    <3>5. /\ p \in 1 .. height
          /\ \A i \in 1 .. height : Held(i) <=> i < p \/ (i = p /\ walk[Walker].at = "down")
      BY <1>1, <2>3, <3>1, <3>4 DEF WalkInv
    <3>6. p = height /\ walk[Walker].at = "down"
      BY <1>1, <1>3, <3>3, <3>5
    <3>7. AllHeld
      BY <1>1, <3>5, <3>6 DEF AllHeld
    <3> QED
      BY <3>2, <3>7
  <2> QED
    BY <2>1, <2>2, <2>3
<1>11. Top(loop.s) = height
  <2>1. Above(loop.s) = loop.s .. height
    BY <1>7, <1>10
  <2>2. \A j : (j \in loop.s .. height /\ \A i \in loop.s .. height : i <= j) <=> j = height
    BY <1>1, <1>2
  <2>3. Top(loop.s) = CHOOSE j \in loop.s .. height : \A i \in loop.s .. height : i <= j
    BY <2>1 DEF Top
  <2> QED
    BY <2>2, <2>3
<1> QED
  BY <1>3, <1>10, <1>11

LEMMA GrabLife ==
    ASSUME LifeInv, z_stream_source_grab_ref
    PROVE  LifeInv'
<1>1. loop.at = "grab" /\ UNCHANGED <<ref, linked, source, height, app, walk>>
  BY DEF z_stream_source_grab_ref
<1>2. /\ LifeTypes /\ LinkInv /\ StructInv /\ BuildInv /\ WalkInv /\ TurnInv /\ PollInv /\ RefInv
      /\ Depth \in Nat /\ height \in Int /\ height <= Depth /\ Streams = 1 .. Depth
      /\ \A i \in Streams : sref[i] \in Int
  BY LifeFacts
<1>3. loop.top = 0 /\ loop.s \in 1 .. height /\ loop.s \in Int
  BY <1>1, <1>2 DEF PollInv
<1>4. /\ \A i : Held(i)' <=> Held(i)
      /\ AllHeld' <=> AllHeld
      /\ NoneHeld' <=> NoneHeld
      /\ Walker' = Walker /\ Other' = Other
  BY <1>1 DEF Held, AllHeld, NoneHeld, Walker, Other
<1>5. ASSUME NEW i \in Streams
      PROVE  (Attached(i)' <=> Attached(i)) /\ (Unclosed(i)' <=> Unclosed(i)) /\ ~Grabbed(i)
  BY <1>1, <1>2, <1>3, <1>4 DEF Attached, Unclosed, Grabbed
<1>6. ASSUME loop'.at # "detaching", loop'.at # "idle"
      PROVE  RefInv' /\ BuildInv' /\ WalkInv'
  <2>1. RefInv'
    BY <1>1, <1>2, <1>6 DEF RefInv, One
  <2>2. app.at # "building"
    BY <1>1, <1>2 DEF BuildInv
  <2>3. BuildInv'
    BY <1>1, <1>2, <1>4, <2>2 DEF BuildInv
  <2>4. WalkInv'
    BY <1>1, <1>2, <1>4 DEF WalkInv
  <2> QED
    BY <2>1, <2>3, <2>4
<1>7. CASE Grabbable(loop.s)
  <2>1. /\ AllHeld /\ Top(loop.s) = height /\ height \in Streams
        /\ \A i \in 2 .. height : i \in linked
    BY <1>1, <1>7, GrabWhole
  <2>2. /\ sref' = [sref EXCEPT ![height] = sref[height] + 1]
        /\ loop' = [loop EXCEPT !.at = "callback", !.top = height]
    BY <1>7, <2>1 DEF z_stream_source_grab_ref
  <2>3. /\ loop'.at = "callback" /\ loop'.top = height /\ loop'.s = loop.s
        /\ loop' \in [at : {"idle", "grab", "callback", "detaching", "ungrab", "release"},
                      s : 0 .. Depth, top : 0 .. Depth, call : {"look", "dispatch"}]
    <3>1. height \in 0 .. Depth
      BY <1>2, <2>1
    <3> QED
      BY <1>2, <2>2, <3>1 DEF LifeTypes
  <2>4. LifeTypes'
    <3>1. sref' \in [Streams -> Int]
      BY <1>2, <2>1, <2>2 DEF LifeTypes
    <3> QED
      BY <1>1, <1>2, <2>3, <3>1 DEF LifeTypes
  <2>5. ASSUME NEW i \in Streams
        PROVE  /\ sref'[i] >= One(i + 1 \in linked') + Users(i)'
               /\ i # 1 => (i \in linked' <=> sref'[i] > 0)
    <3>1. sref[i] >= One(i + 1 \in linked) + Users(i) /\ (i # 1 => (i \in linked <=> sref[i] > 0))
      BY <1>2 DEF StructInv, LinkInv
    <3>2. sref'[i] = (IF i = height THEN sref[i] + 1 ELSE sref[i]) /\ sref[i] \in Int
      BY <1>2, <2>1, <2>2 DEF LifeTypes
    <3>3. Grabbed(i)' <=> i = height
      BY <2>3 DEF Grabbed
    <3>4. Users(i)' = Users(i) + One(i = height)
      BY <1>5, <3>3 DEF Users, One
    <3>5. i = height /\ i # 1 => i \in linked
      BY <1>2, <2>1
    <3>6. /\ One(i + 1 \in linked') = One(i + 1 \in linked) /\ One(i + 1 \in linked) \in Nat
          /\ Users(i) \in Nat
      BY <1>1, UsersNat DEF One
    <3>7. CASE i = height
      <4>1. One(i = height) = 1
        BY <3>7 DEF One
      <4> QED
        BY <1>1, <3>1, <3>2, <3>4, <3>5, <3>6, <3>7, <4>1
    <3>8. CASE i # height
      <4>1. One(i = height) = 0
        BY <3>8 DEF One
      <4> QED
        BY <1>1, <3>1, <3>2, <3>4, <3>6, <3>8, <4>1
    <3> QED
      BY <3>7, <3>8
  <2>6. LinkInv' /\ StructInv'
    BY <2>5 DEF LinkInv, StructInv
  <2>7. TurnInv'
    BY <1>1, <1>2, <1>4, <2>1, <2>3 DEF TurnInv
  <2>8. PollInv'
    <3>1. \A i \in loop.s + 1 .. height : i \in linked
      <4>1. \A i \in loop.s + 1 .. height : i \in 2 .. height
        BY <1>2, <1>3
      <4> QED
        BY <2>1, <4>1
    <3> QED
      BY <1>1, <1>2, <1>3, <2>3, <3>1 DEF PollInv
  <2> QED
    BY <1>6, <2>3, <2>4, <2>6, <2>7, <2>8 DEF LifeInv
<1>8. CASE ~Grabbable(loop.s)
  <2>1. loop' = [loop EXCEPT !.at = "release"] /\ UNCHANGED sref
    BY <1>8 DEF z_stream_source_grab_ref
  <2>2. /\ loop'.at = "release" /\ loop'.top = loop.top /\ loop'.s = loop.s
        /\ loop' \in [at : {"idle", "grab", "callback", "detaching", "ungrab", "release"},
                      s : 0 .. Depth, top : 0 .. Depth, call : {"look", "dispatch"}]
    BY <1>2, <2>1 DEF LifeTypes
  <2>3. LifeTypes'
    BY <1>1, <1>2, <2>1, <2>2 DEF LifeTypes
  <2>4. LinkInv' /\ StructInv'
    <3>1. ASSUME NEW i \in Streams PROVE Users(i)' <= Users(i)
      <4>1. Grabbed(i)' <=> Grabbed(i)
        BY <2>2 DEF Grabbed
      <4> QED
        BY <1>5, <4>1 DEF Users, One
    <3> QED
      BY <1>1, <2>1, <3>1, SameStruct
  <2>5. TurnInv'
    BY <1>1, <1>2, <1>4, <2>2 DEF TurnInv
  <2>6. PollInv'
    BY <1>1, <1>2, <2>2 DEF PollInv
  <2> QED
    BY <1>6, <2>2, <2>3, <2>4, <2>5, <2>6 DEF LifeInv
<1> QED
  BY <1>7, <1>8

LEMMA CallbackReturnsLife ==
    ASSUME LifeInv, CallbackReturns
    PROVE  LifeInv'
<1>1. /\ loop.at = "callback" /\ loop' = [loop EXCEPT !.at = "ungrab"]
      /\ UNCHANGED <<ref, sref, linked, source, height, app, walk>>
  BY DEF CallbackReturns
<1>2. /\ LifeTypes /\ BuildInv /\ WalkInv /\ TurnInv /\ PollInv /\ RefInv
  BY LifeFacts
<1>3. /\ loop'.at = "ungrab" /\ loop'.top = loop.top /\ loop'.s = loop.s
      /\ loop' \in [at : {"idle", "grab", "callback", "detaching", "ungrab", "release"},
                    s : 0 .. Depth, top : 0 .. Depth, call : {"look", "dispatch"}]
  BY <1>1, <1>2 DEF LifeTypes
<1>4. /\ \A i : Held(i)' <=> Held(i)
      /\ AllHeld' <=> AllHeld
      /\ NoneHeld' <=> NoneHeld
      /\ Walker' = Walker /\ Other' = Other
  BY <1>1 DEF Held, AllHeld, NoneHeld, Walker, Other
<1>5. LifeTypes'
  BY <1>1, <1>2, <1>3 DEF LifeTypes
<1>6. LinkInv' /\ StructInv'
  <2>1. ASSUME NEW i \in Streams PROVE Users(i)' <= Users(i)
    <3>1. /\ Grabbed(i)' <=> Grabbed(i)
          /\ Unclosed(i)' <=> Unclosed(i)
          /\ Attached(i)' <=> Attached(i)
      BY <1>1, <1>3, <1>4 DEF Grabbed, Unclosed, Attached
    <3> QED
      BY <3>1 DEF Users, One
  <2> QED
    BY <1>1, <2>1, SameStruct
<1>7. RefInv'
  BY <1>1, <1>2, <1>3 DEF RefInv, One
<1>8. BuildInv'
  <2>1. app.at # "building"
    BY <1>1, <1>2 DEF BuildInv
  <2> QED
    BY <1>1, <1>2, <1>4, <2>1 DEF BuildInv
<1>9. WalkInv'
  BY <1>1, <1>2, <1>4 DEF WalkInv
<1>10. TurnInv'
  BY <1>1, <1>2, <1>3, <1>4 DEF TurnInv
<1>11. PollInv'
  BY <1>1, <1>2, <1>3 DEF PollInv
<1> QED
  BY <1>5, <1>6, <1>7, <1>8, <1>9, <1>10, <1>11 DEF LifeInv

LEMMA CallbackEndsLife ==
    ASSUME LifeInv, ~BothDetach, CallbackEnds
    PROVE  LifeInv'
<1>1. /\ loop.at = "callback" /\ app.by = "callback"
      /\ loop' = [loop EXCEPT !.at = "detaching"]
      /\ ref' = [ref EXCEPT ![loop.top] = ref[loop.top] + 1]
      /\ walk' = [walk EXCEPT !["loop"] = [at |-> "down", pos |-> loop.top, won |-> {}]]
      /\ UNCHANGED <<sref, linked, source, height, app>>
  BY DEF CallbackEnds
<1>2. /\ LifeTypes /\ BuildInv /\ WalkInv /\ TurnInv /\ PollInv /\ RefInv
      /\ Depth \in Nat /\ height \in Int /\ height <= Depth /\ Streams = 1 .. Depth
      /\ \A i \in Streams : ref[i] \in Int
  BY LifeFacts
<1>3. loop.top = height /\ loop.s \in 1 .. height /\ height \in 1 .. height /\ height \in Streams
  BY <1>1, <1>2 DEF PollInv
<1>4. /\ loop'.at = "detaching" /\ loop'.top = loop.top /\ loop'.s = loop.s
      /\ loop' \in [at : {"idle", "grab", "callback", "detaching", "ungrab", "release"},
                    s : 0 .. Depth, top : 0 .. Depth, call : {"look", "dispatch"}]
  BY <1>1, <1>2 DEF LifeTypes
<1>5. /\ Walker = "loop" /\ Walker' = "loop" /\ Other = "app" /\ Other' = "app"
      /\ "app" \in Threads /\ "loop" \in Threads
  BY <1>1 DEF Walker, Other, Threads
<1>6. AllHeld /\ walk["app"] = Idle /\ walk["loop"] = Idle
  BY <1>1, <1>2, <1>5 DEF TurnInv, WalkInv
<1>7. /\ walk'["loop"] = [at |-> "down", pos |-> height, won |-> {}]
      /\ walk'["app"] = Idle
  BY <1>1, <1>2, <1>3, <1>5, <1>6 DEF LifeTypes
<1>8. LifeTypes'
  <2>1. [at |-> "down", pos |-> loop.top, won |-> {}]
            \in [at : {"no", "down", "look", "up"}, pos : 0 .. Depth, won : SUBSET Streams]
    BY <1>2, <1>3
  <2>2. walk' \in [Threads -> [at : {"no", "down", "look", "up"}, pos : 0 .. Depth,
                               won : SUBSET Streams]]
    BY <1>1, <1>2, <2>1 DEF LifeTypes
  <2>3. ref' \in [Streams -> Int]
    BY <1>1, <1>2, <1>3 DEF LifeTypes
  <2> QED
    BY <1>1, <1>2, <1>4, <2>2, <2>3 DEF LifeTypes
<1>9. \A i : Held(i)' <=> Held(i)
  BY <1>1 DEF Held
<1>10. app.at \notin {"building", "attaching"}
  <2>1. app.at # "building"
    BY <1>1, <1>2 DEF BuildInv
  <2>2. app.at # "attaching"
    BY <1>2, <1>3, <1>6 DEF BuildInv, AllHeld
  <2> QED
    BY <2>1, <2>2
<1>11. LinkInv' /\ StructInv'
  <2>1. ASSUME NEW i \in Streams PROVE Users(i)' <= Users(i)
    <3>1. /\ Grabbed(i)' <=> Grabbed(i)
          /\ Unclosed(i)' <=> Unclosed(i)
          /\ Attached(i)' => Attached(i)
      BY <1>1, <1>4, <1>5, <1>7, <1>9 DEF Grabbed, Unclosed, Attached
    <3> QED
      BY <3>1 DEF Users, One
  <2> QED
    BY <1>1, <2>1, SameStruct
<1>12. RefInv'
  <2>1. ASSUME NEW i \in Streams
        PROVE  ref'[i] >= One(i = height' /\ app'.at # "done")
                          + One(i \in linked') + One(i + 1 \in linked')
                          + One(source'[i].held # {})
                          + One(loop'.at = "detaching" /\ loop'.top = i)
    <3>1. ref[i] >= One(i = height /\ app.at # "done")
                    + One(i \in linked) + One(i + 1 \in linked)
                    + One(source[i].held # {})
                    + One(loop.at = "detaching" /\ loop.top = i)
      BY <1>2 DEF RefInv
    <3>2. ref'[i] = (IF i = loop.top THEN ref[i] + 1 ELSE ref[i]) /\ ref[i] \in Int
      BY <1>1, <1>2 DEF LifeTypes
    <3> QED
      BY <1>1, <1>4, <3>1, <3>2 DEF One
  <2> QED
    BY <2>1 DEF RefInv
<1>13. BuildInv'
  BY <1>1, <1>2, <1>9, <1>10 DEF BuildInv
<1>14. WalkInv'
  <2>1. \A i \in 1 .. height : Held(i)'
    BY <1>6, <1>9 DEF AllHeld
  <2>2. \A i \in 1 .. height : i < height \/ i = height
    BY <1>2
  <2> QED
    BY <1>1, <1>3, <1>5, <1>7, <2>1, <2>2 DEF WalkInv
<1>15. TurnInv'
  BY <1>1, <1>2, <1>4, <1>7 DEF TurnInv
<1>16. PollInv'
  BY <1>1, <1>2, <1>4 DEF PollInv
<1> QED
  BY <1>8, <1>11, <1>12, <1>13, <1>14, <1>15, <1>16 DEF LifeInv

LEMMA LoopDetachedLife ==
    ASSUME LifeInv, LoopDetached
    PROVE  LifeInv'
<1>1. /\ loop.at = "detaching" /\ walk["loop"] = Idle
      /\ loop' = [loop EXCEPT !.at = "ungrab"]
      /\ ref' = [ref EXCEPT ![loop.top] = ref[loop.top] - 1]
      /\ UNCHANGED <<sref, linked, source, height, app, walk>>
  BY DEF LoopDetached
<1>2. /\ LifeTypes /\ BuildInv /\ WalkInv /\ TurnInv /\ PollInv /\ RefInv
      /\ Depth \in Nat /\ height \in Int /\ height <= Depth /\ Streams = 1 .. Depth
      /\ \A i \in Streams : ref[i] \in Int
  BY LifeFacts
<1>3. loop.top = height /\ loop.s \in 1 .. height /\ height \in Streams
  BY <1>1, <1>2 DEF PollInv
<1>4. /\ loop'.at = "ungrab" /\ loop'.top = loop.top /\ loop'.s = loop.s
      /\ loop' \in [at : {"idle", "grab", "callback", "detaching", "ungrab", "release"},
                    s : 0 .. Depth, top : 0 .. Depth, call : {"look", "dispatch"}]
  BY <1>1, <1>2 DEF LifeTypes
<1>5. /\ \A i : Held(i)' <=> Held(i)
      /\ AllHeld' <=> AllHeld
      /\ NoneHeld' <=> NoneHeld
      /\ Walker' = Walker /\ Other' = Other
  BY <1>1 DEF Held, AllHeld, NoneHeld, Walker, Other
<1>6. app.by = "callback"
  BY <1>1, <1>2 DEF TurnInv, LifeTypes
<1>7. LifeTypes'
  <2>1. ref' \in [Streams -> Int]
    BY <1>1, <1>2, <1>3 DEF LifeTypes
  <2> QED
    BY <1>1, <1>2, <1>4, <2>1 DEF LifeTypes
<1>8. LinkInv' /\ StructInv'
  <2>1. ASSUME NEW i \in Streams PROVE Users(i)' <= Users(i)
    <3>1. /\ Grabbed(i)' <=> Grabbed(i)
          /\ Unclosed(i)' <=> Unclosed(i)
          /\ Attached(i)' <=> Attached(i)
      BY <1>1, <1>4, <1>5 DEF Grabbed, Unclosed, Attached
    <3> QED
      BY <3>1 DEF Users, One
  <2> QED
    BY <1>1, <2>1, SameStruct
<1>9. RefInv'
  <2>1. ASSUME NEW i \in Streams
        PROVE  ref'[i] >= One(i = height' /\ app'.at # "done")
                          + One(i \in linked') + One(i + 1 \in linked')
                          + One(source'[i].held # {})
                          + One(loop'.at = "detaching" /\ loop'.top = i)
    <3>1. ref[i] >= One(i = height /\ app.at # "done")
                    + One(i \in linked) + One(i + 1 \in linked)
                    + One(source[i].held # {})
                    + One(loop.at = "detaching" /\ loop.top = i)
      BY <1>2 DEF RefInv
    <3>2. ref'[i] = (IF i = loop.top THEN ref[i] - 1 ELSE ref[i]) /\ ref[i] \in Int
      BY <1>1, <1>2 DEF LifeTypes
    <3>3. loop'.at # "detaching"
      BY <1>4
    <3>4. CASE i = loop.top
      BY <1>1, <3>1, <3>2, <3>3, <3>4 DEF One
    <3>5. CASE i # loop.top
      BY <1>1, <3>1, <3>2, <3>3, <3>5 DEF One
    <3> QED
      BY <3>4, <3>5
  <2> QED
    BY <2>1 DEF RefInv
<1>10. BuildInv'
  <2>1. app.at # "building"
    BY <1>1, <1>2 DEF BuildInv
  <2> QED
    BY <1>1, <1>2, <1>5, <2>1 DEF BuildInv
<1>11. WalkInv'
  BY <1>1, <1>2, <1>5 DEF WalkInv
<1>12. TurnInv'
  BY <1>1, <1>2, <1>4, <1>5, <1>6 DEF TurnInv, Idle
<1>13. PollInv'
  BY <1>1, <1>2, <1>4 DEF PollInv
<1> QED
  BY <1>7, <1>8, <1>9, <1>10, <1>11, <1>12, <1>13 DEF LifeInv

LEMMA UngrabLife ==
    ASSUME LifeInv, Ungrab
    PROVE  LifeInv'
<1>1. /\ loop.at = "ungrab" /\ z_stream_struct_unref(loop.top)
      /\ loop' = [loop EXCEPT !.at = "release", !.top = 0]
      /\ UNCHANGED <<source, height, app, walk>>
  BY DEF Ungrab
<1>2. /\ LifeTypes /\ BuildInv /\ WalkInv /\ TurnInv /\ PollInv
      /\ Depth \in Nat /\ height \in Int /\ height <= Depth /\ Streams = 1 .. Depth
  BY LifeFacts
<1>3. /\ loop.top = height /\ loop.s \in 1 .. height /\ height \in 1 .. height
      /\ height \in Streams /\ height # 0
  BY <1>1, <1>2 DEF PollInv
<1>4. /\ loop'.at = "release" /\ loop'.top = 0 /\ loop'.s = loop.s
      /\ loop' \in [at : {"idle", "grab", "callback", "detaching", "ungrab", "release"},
                    s : 0 .. Depth, top : 0 .. Depth, call : {"look", "dispatch"}]
  <2>1. 0 \in 0 .. Depth
    BY <1>2
  <2> QED
    BY <1>1, <1>2, <2>1 DEF LifeTypes
<1>5. /\ \A i : Held(i)' <=> Held(i)
      /\ AllHeld' <=> AllHeld
      /\ NoneHeld' <=> NoneHeld
      /\ Walker' = Walker /\ Other' = Other
  BY <1>1 DEF Held, AllHeld, NoneHeld, Walker, Other
<1>6. PICK s : s = height
  OBVIOUS
<1>7. ASSUME NEW i \in Streams
      PROVE  /\ ~Grabbed(i)' /\ (Grabbed(i) <=> i = s)
             /\ Unclosed(i)' <=> Unclosed(i)
             /\ Attached(i)' <=> Attached(i)
  BY <1>1, <1>2, <1>3, <1>4, <1>5, <1>6 DEF Grabbed, Unclosed, Attached
<1>8. s \in Streams /\ s \in 1 .. height
  BY <1>3, <1>6
<1>9. Users(s) >= 1 + Users(s)'
  BY <1>7, <1>8 DEF Users, One
<1>10. \A i \in Streams \ {s} : Users(i) >= Users(i)'
  BY <1>7 DEF Users, One
<1>11. z_stream_struct_unref(s)
  BY <1>1, <1>3, <1>6
<1>12. /\ ref' \in [Streams -> Int] /\ sref' \in [Streams -> Int]
       /\ linked' \subseteq linked
       /\ LinkInv' /\ StructInv' /\ RefInv'
  BY <1>1, <1>4, <1>8, <1>9, <1>10, <1>11, UnrefStep
<1>13. LifeTypes'
  BY <1>1, <1>2, <1>4, <1>12 DEF LifeTypes
<1>14. BuildInv'
  <2>1. app.at # "building" /\ linked' \subseteq 2 .. height'
    BY <1>1, <1>2, <1>12 DEF BuildInv
  <2> QED
    BY <1>1, <1>2, <1>5, <2>1 DEF BuildInv
<1>15. WalkInv'
  BY <1>1, <1>2, <1>5 DEF WalkInv
<1>16. TurnInv'
  BY <1>1, <1>2, <1>4, <1>5 DEF TurnInv
<1>17. PollInv'
  BY <1>1, <1>2, <1>3, <1>4 DEF PollInv
<1> QED
  BY <1>12, <1>13, <1>14, <1>15, <1>16, <1>17 DEF LifeInv

LEMMA LoopReleasesLife ==
    ASSUME LifeInv, LoopReleases
    PROVE  LifeInv'
<1>0. PICK s, left : s = loop.s /\ left = source[loop.s].held \ {"loop"}
  OBVIOUS
<1>1. /\ loop.at = "release" /\ loop' = [loop EXCEPT !.at = "idle", !.s = 0]
      /\ source' = [source EXCEPT ![s].held = left]
      /\ ref' = IF left = {} THEN [ref EXCEPT ![s] = ref[s] - 1] ELSE ref
      /\ UNCHANGED <<sref, linked, height, app, walk>>
  BY <1>0 DEF LoopReleases
<1>2. /\ LifeTypes /\ BuildInv /\ WalkInv /\ TurnInv /\ PollInv /\ RefInv
      /\ Depth \in Nat /\ height \in Int /\ height <= Depth /\ Streams = 1 .. Depth
      /\ \A i \in Streams : ref[i] \in Int
  BY LifeFacts
<1>3. s \in 1 .. height /\ s \in Streams /\ "loop" \in source[s].held /\ loop.top = 0
  BY <1>0, <1>1, <1>2 DEF PollInv
<1>4. /\ loop'.at = "idle" /\ loop'.top = 0
      /\ loop' \in [at : {"idle", "grab", "callback", "detaching", "ungrab", "release"},
                    s : 0 .. Depth, top : 0 .. Depth, call : {"look", "dispatch"}]
  <2>1. 0 \in 0 .. Depth
    BY <1>2
  <2> QED
    BY <1>1, <1>2, <1>3, <2>1 DEF LifeTypes
<1>5. /\ \A i \in Streams : i # s => source'[i] = source[i]
      /\ source'[s].held = left /\ source'[s].active = source[s].active
  BY <1>1, <1>2, <1>3 DEF LifeTypes
<1>6. /\ \A i \in Streams : Held(i)' <=> Held(i)
      /\ \A i \in Streams : source'[i].active = source[i].active
      /\ Walker' = Walker /\ Other' = Other
  BY <1>0, <1>1, <1>5 DEF Held, Walker, Other
<1>7. /\ AllHeld' <=> AllHeld
      /\ NoneHeld' <=> NoneHeld
  BY <1>1, <1>2, <1>6 DEF AllHeld, NoneHeld
<1>8. LifeTypes'
  <2>1. left \in SUBSET {"stream", "context", "loop"}
    <3>1. source[s] \in [held : SUBSET {"stream", "context", "loop"}, active : BOOLEAN]
      BY <1>2, <1>3 DEF LifeTypes
    <3>2. source[s].held \in SUBSET {"stream", "context", "loop"}
      BY <3>1
    <3>3. left \subseteq source[s].held
      BY <1>0
    <3> QED
      BY <3>2, <3>3
  <2>2. source' \in [Streams -> [held : SUBSET {"stream", "context", "loop"}, active : BOOLEAN]]
    <3>1. source[s] \in [held : SUBSET {"stream", "context", "loop"}, active : BOOLEAN]
      BY <1>2, <1>3 DEF LifeTypes
    <3>2. source'[s] = [source[s] EXCEPT !.held = left]
      BY <1>1, <1>2, <1>3 DEF LifeTypes
    <3>3. source'[s] \in [held : SUBSET {"stream", "context", "loop"}, active : BOOLEAN]
      BY <2>1, <3>1, <3>2
    <3>4. source' = [i \in Streams |-> source'[i]]
      BY <1>1, <1>2 DEF LifeTypes
    <3>5. \A i \in Streams :
              source'[i] \in [held : SUBSET {"stream", "context", "loop"}, active : BOOLEAN]
      BY <1>2, <1>5, <3>3 DEF LifeTypes
    <3> QED
      BY <3>4, <3>5
  <2>3. ref' \in [Streams -> Int]
    BY <1>1, <1>2, <1>3 DEF LifeTypes
  <2> QED
    BY <1>1, <1>2, <1>4, <2>2, <2>3 DEF LifeTypes
<1>9. LinkInv' /\ StructInv'
  <2>1. ASSUME NEW i \in Streams PROVE Users(i)' <= Users(i)
    <3>1. /\ Grabbed(i)' <=> Grabbed(i)
          /\ Unclosed(i)' <=> Unclosed(i)
          /\ Attached(i)' <=> Attached(i)
      BY <1>1, <1>3, <1>4, <1>6 DEF Grabbed, Unclosed, Attached
    <3> QED
      BY <3>1 DEF Users, One
  <2> QED
    BY <1>1, <2>1, SameStruct
<1>10. RefInv'
  <2>1. ASSUME NEW i \in Streams
        PROVE  ref'[i] >= One(i = height' /\ app'.at # "done")
                          + One(i \in linked') + One(i + 1 \in linked')
                          + One(source'[i].held # {})
                          + One(loop'.at = "detaching" /\ loop'.top = i)
    <3>1. ref[i] >= One(i = height /\ app.at # "done")
                    + One(i \in linked) + One(i + 1 \in linked)
                    + One(source[i].held # {})
                    + One(loop.at = "detaching" /\ loop.top = i)
      BY <1>2 DEF RefInv
    <3>2. ref'[i] = (IF i = s /\ left = {} THEN ref[i] - 1 ELSE ref[i]) /\ ref[i] \in Int
      BY <1>1, <1>2 DEF LifeTypes
    <3>3. CASE i = s
      <4>1. source[i].held # {} /\ source'[i].held = left
        BY <1>3, <1>5, <3>3
      <4> QED
        BY <1>1, <1>4, <3>1, <3>2, <3>3, <4>1 DEF One
    <3>4. CASE i # s
      <4>1. source'[i] = source[i]
        BY <1>5, <3>4
      <4> QED
        BY <1>1, <1>4, <3>1, <3>2, <3>4, <4>1 DEF One
    <3> QED
      BY <3>3, <3>4
  <2> QED
    BY <2>1 DEF RefInv
<1>11. BuildInv'
  <2>1. app.at # "building"
    BY <1>1, <1>2 DEF BuildInv
  <2>2. app'.at = "attaching" =>
          /\ app'.pos \in 1 .. height'
          /\ \A i \in 1 .. height' : Held(i)' <=> i < app'.pos
          /\ \A i \in Streams : ~Held(i)' => source'[i] = NoSource
    <3> SUFFICES ASSUME app.at = "attaching"
                 PROVE  /\ app.pos \in 1 .. height
                        /\ \A i \in 1 .. height : Held(i)' <=> i < app.pos
                        /\ \A i \in Streams : ~Held(i)' => source'[i] = NoSource
      BY <1>1
    <3>1. /\ app.pos \in 1 .. height
          /\ \A i \in 1 .. height : Held(i) <=> i < app.pos
          /\ \A i \in Streams : ~Held(i) => source[i] = NoSource
      BY <1>2 DEF BuildInv
    <3>2. Held(s)
      BY <1>3, <3>1 DEF NoSource
    <3> QED
      BY <1>2, <1>5, <1>6, <3>1, <3>2
  <2>3. /\ linked' \subseteq 2 .. height'
        /\ \A i \in Streams : i > height' => ~Held(i)' /\ ~source'[i].active
        /\ \A i \in Streams : source'[i].active => Held(i)'
        /\ app'.at # "building" => height' > 0
        /\ app'.at \in {"building", "attaching"} =>
              ~app'.closed /\ ~app'.detached /\ \A t \in Threads : walk'[t] = Idle
        /\ app'.at = "closing" => app'.pos \in 1 .. height' /\ ~app'.closed
    BY <1>1, <1>2, <1>6 DEF BuildInv
  <2> QED
    BY <1>1, <2>1, <2>2, <2>3 DEF BuildInv
<1>12. WalkInv'
  <2>1. \A i \in 1 .. height : Held(i)' <=> Held(i)
    BY <1>2, <1>6
  <2> QED
    BY <1>1, <1>2, <1>6, <1>7, <2>1 DEF WalkInv
<1>13. TurnInv'
  BY <1>1, <1>2, <1>4, <1>7 DEF TurnInv
<1>14. PollInv'
  BY <1>4 DEF PollInv
<1> QED
  BY <1>8, <1>9, <1>10, <1>11, <1>12, <1>13, <1>14 DEF LifeInv

-----------------------------------------------------------------------------
(* Every step keeps the invariant of the references. *)

LEMMA LifeInit == Init => LifeInv
<1> SUFFICES ASSUME Init PROVE LifeInv
  OBVIOUS
<1>1. /\ ref = [s \in Streams |-> 0] /\ sref = [s \in Streams |-> 0] /\ linked = {}
      /\ source = [s \in Streams |-> NoSource] /\ height = 0
      /\ app \in [at : {"building"}, pos : {0}, closed : {FALSE}, detached : {FALSE},
                  by : {"app", "callback"}]
      /\ loop = [at |-> "idle", s |-> 0, top |-> 0, call |-> "look"]
      /\ walk = [t \in Threads |-> Idle]
  BY DEF Init
<1>2. Depth \in Nat /\ Streams = 1 .. Depth /\ 0 \in 0 .. Depth
  BY StackAssumption DEF Streams
<1>3. LifeTypes
  <2>1. ref \in [Streams -> Int] /\ sref \in [Streams -> Int] /\ linked \subseteq 2 .. Depth
    BY <1>1
  <2>2. source \in [Streams -> [held : SUBSET {"stream", "context", "loop"}, active : BOOLEAN]]
    BY <1>1 DEF NoSource
  <2>3. app \in [at : {"building", "attaching", "using", "closing", "detaching", "done"},
                 pos : 0 .. Depth, closed : BOOLEAN, detached : BOOLEAN,
                 by : {"app", "callback"}]
    BY <1>1, <1>2
  <2>4. loop \in [at : {"idle", "grab", "callback", "detaching", "ungrab", "release"},
                  s : 0 .. Depth, top : 0 .. Depth, call : {"look", "dispatch"}]
    BY <1>1, <1>2
  <2>5. walk \in [Threads -> [at : {"no", "down", "look", "up"}, pos : 0 .. Depth,
                              won : SUBSET Streams]]
    <3>1. Idle \in [at : {"no", "down", "look", "up"}, pos : 0 .. Depth, won : SUBSET Streams]
      BY <1>2 DEF Idle
    <3> QED
      BY <1>1, <3>1
  <2>6. height \in 0 .. Depth
    BY <1>1, <1>2
  <2> QED
    BY <2>1, <2>2, <2>3, <2>4, <2>5, <2>6 DEF LifeTypes
<1>4. \A i \in Streams : /\ ~Held(i) /\ source[i].held = {} /\ ~source[i].active
                         /\ source[i] = NoSource
                         /\ ref[i] = 0 /\ sref[i] = 0 /\ i # 0 /\ ~(i <= height)
                         /\ i \notin linked /\ i + 1 \notin linked
  BY <1>1, <1>2 DEF Held, NoSource
<1>5. \A t \in Threads : walk[t] = Idle
  BY <1>1
<1>6. Walker \in Threads /\ Other \in Threads
  BY DEF Walker, Other, Threads
<1>7. LinkInv
  BY <1>4 DEF LinkInv
<1>8. StructInv
  <2>1. ASSUME NEW i \in Streams PROVE ~Attached(i) /\ ~Grabbed(i) /\ ~Unclosed(i)
    BY <1>1, <1>4 DEF Attached, Grabbed, Unclosed
  <2> QED
    BY <1>4, <2>1 DEF StructInv, Users, One
<1>9. RefInv
  BY <1>1, <1>4 DEF RefInv, One
<1>10. BuildInv
  <2>1. linked = 2 .. height /\ loop.at = "idle"
    BY <1>1
  <2> QED
    BY <1>1, <1>4, <1>5, <2>1 DEF BuildInv
<1>11. WalkInv
  BY <1>1, <1>5, <1>6 DEF WalkInv, Idle
<1>12. TurnInv
  BY <1>1, <1>5 DEF TurnInv, Idle, Threads
<1>13. PollInv
  BY <1>1 DEF PollInv
<1> QED
  BY <1>3, <1>7, <1>8, <1>9, <1>10, <1>11, <1>12, <1>13 DEF LifeInv

LEMMA LifeSame ==
    ASSUME LifeInv, UNCHANGED lifeVars
    PROVE  LifeInv'
<1>1. /\ LifeTypes /\ BuildInv /\ WalkInv /\ TurnInv /\ PollInv /\ RefInv
  BY LifeFacts
<1>2. UNCHANGED <<ref, sref, linked, source, height, app, loop, walk>>
  BY DEF lifeVars
<1>3. /\ \A i : Held(i)' <=> Held(i)
      /\ AllHeld' <=> AllHeld
      /\ NoneHeld' <=> NoneHeld
      /\ Walker' = Walker /\ Other' = Other
  BY <1>2 DEF Held, AllHeld, NoneHeld, Walker, Other
<1>4. LinkInv' /\ StructInv'
  <2>1. ASSUME NEW i \in Streams PROVE Users(i)' <= Users(i)
    <3>1. /\ Grabbed(i)' <=> Grabbed(i)
          /\ Unclosed(i)' <=> Unclosed(i)
          /\ Attached(i)' <=> Attached(i)
      BY <1>2, <1>3 DEF Grabbed, Unclosed, Attached
    <3> QED
      BY <3>1 DEF Users, One
  <2> QED
    BY <1>2, <2>1, SameStruct
<1>5. LifeTypes' /\ RefInv' /\ BuildInv'
  BY <1>1, <1>2, <1>3 DEF LifeTypes, RefInv, BuildInv
<1>6. WalkInv' /\ TurnInv' /\ PollInv'
  BY <1>1, <1>2, <1>3 DEF WalkInv, TurnInv, PollInv
<1> QED
  BY <1>4, <1>5, <1>6 DEF LifeInv

LEMMA LifeStep ==
    ASSUME LifeInv, ~BothDetach, [Next]_vars
    PROVE  LifeInv'
<1>1. CASE AppNext
  BY <1>1, AttachBeginsLife, AttachSourceLife, CloseBeginsLife, CloseLife, DestroyLife,
     AppDetachesLife, AppDetachedLife, UnrefTopLife DEF AppNext
<1>2. CASE LoopNext
  BY <1>2, LoopTakesLife, GrabLife, CallbackReturnsLife, CallbackEndsLife, LoopDetachedLife,
     UngrabLife, LoopReleasesLife DEF LoopNext, LoopGoesOn
<1>3. ASSUME NEW t \in Threads, Detach(t) PROVE LifeInv'
  BY <1>3, TakeSourceLife, DetachChildLife, DetachReturnsLife DEF Detach
<1>4. CASE z_stream_push
  BY <1>4, PushLife
<1>5. CASE z_stream_pop
  BY <1>5, PopLife
<1>6. CASE DataNext
  <2>1. UNCHANGED lifeVars
    BY <1>6 DEF DataNext, z_stream_set_callback, z_stream_save_context,
                z_stream_restore_context, z_stream_context_destroy
  <2> QED
    BY <2>1, LifeSame
<1>7. CASE UNCHANGED vars
  BY <1>7, LifeSame DEF vars, lifeVars
<1> QED
  BY <1>1, <1>2, <1>3, <1>4, <1>5, <1>6, <1>7 DEF Next

-----------------------------------------------------------------------------
(* User data. *)

LEMMA OneOfMany ==
    ASSUME NEW S, NEW P, P \subseteq S, \A x, y \in P : x = y
    PROVE  Cardinality(P) = One(P # {})
<1>1. CASE P = {}
  BY <1>1, FS_EmptySet DEF One
<1>2. CASE P # {}
  <2>1. PICK x : P = {x}
    BY <1>2
  <2> QED
    BY <1>2, <2>1, FS_Singleton DEF One
<1> QED
  BY <1>1, <1>2

\* What a release counts when the data to be released has one owner.
LEMMA NotifiedOnce ==
    ASSUME NEW cs, NEW d \in Data, released[d] \in Nat,
           \A s, r \in DOMAIN cs : cs[s].data = d /\ cs[r].data = d => s = r,
           \A s \in DOMAIN cs : cs[s].data = d => cs[s].notify
    PROVE  Notified(cs)[d] = released[d] + One(\E s \in DOMAIN cs : cs[s].data = d)
<1> DEFINE P == {s \in DOMAIN cs : cs[s].data = d /\ cs[s].notify}
<1>1. Cardinality(P) = One(P # {})
  <2>1. P \subseteq DOMAIN cs /\ \A x, y \in P : x = y
    OBVIOUS
  <2> HIDE DEF P
  <2> QED
    BY <2>1, OneOfMany
<1>2. P # {} <=> \E s \in DOMAIN cs : cs[s].data = d
  OBVIOUS
<1>3. Notified(cs)[d] = released[d] + Cardinality(P)
  BY DEF Notified
<1> QED
  BY <1>1, <1>2, <1>3 DEF One

LEMMA DataInit == Init => DataInv
BY StackAssumption DEF Init, DataInv, OneOwner, CallbackType, NoCallback, Restored, Streams, Data

LEMMA DataFacts ==
    ASSUME OneOwner
    PROVE  /\ \A s \in Streams : /\ slot[s] \in CallbackType /\ slot[s].data \in Nat
                                 /\ slot[s].data # 0 => slot[s].data \in Data
           /\ context.cb \in CallbackType /\ context.cb.data \in Nat
           /\ context.cb.data # 0 => context.cb.data \in Data
           /\ \A d \in Data : released[d] \in {0, 1} /\ d # 0 /\ d \in Nat
           /\ MaxData \in Nat /\ used \in Nat /\ used <= MaxData
<1>1. MaxData \in Nat /\ Data = 1 .. MaxData
  BY StackAssumption DEF Data
<1>2. \A c \in CallbackType : c.data \in 0 .. MaxData
  BY DEF CallbackType
<1>3. /\ slot \in [Streams -> CallbackType]
      /\ context \in [restored : BOOLEAN, cb : CallbackType]
      /\ used \in 0 .. MaxData /\ released \in [Data -> 0 .. 1]
  BY DEF OneOwner
<1>4. \A d \in 0 .. MaxData : d \in Nat /\ (d # 0 => d \in Data)
  BY <1>1
<1>5. \A s \in Streams : slot[s] \in CallbackType
  BY <1>3
<1>6. context.cb \in CallbackType
  BY <1>3
<1>7. \A d \in Data : released[d] \in {0, 1} /\ d # 0 /\ d \in Nat
  BY <1>1, <1>3
<1> QED
  BY <1>1, <1>2, <1>3, <1>4, <1>5, <1>6, <1>7

\* z_stream_drop_callbacks of the streams of S.
LEMMA DropData ==
    ASSUME OneOwner, NEW S \in SUBSET Streams,
           slot' \in [Streams -> CallbackType],
           \A s \in Streams : slot'[s].data = IF s \in S THEN 0 ELSE slot[s].data,
           \A s \in Streams : slot'[s].data # 0 => slot'[s].notify,
           released' = Notified([s \in S |-> slot[s]]),
           UNCHANGED <<context, used>>
    PROVE  OneOwner'
<1>1. /\ \A s \in Streams : /\ slot[s] \in CallbackType /\ slot[s].data \in Nat
                            /\ slot[s].data # 0 => slot[s].data \in Data
      /\ \A d \in Data : released[d] \in {0, 1} /\ d # 0 /\ d \in Nat
      /\ context.cb.data # 0 => context.cb.data \in Data
  BY DataFacts
<1>2. ASSUME NEW d \in Data
      PROVE  released'[d] = released[d] + One(\E s \in S : slot[s].data = d)
  <2> DEFINE cs == [s \in S |-> slot[s]]
  <2>1. DOMAIN cs = S /\ \A s \in S : cs[s] = slot[s]
    OBVIOUS
  <2>2. \A s, r \in S : slot[s].data = d /\ slot[r].data = d => s = r
    BY <1>1 DEF OneOwner
  <2>3. \A s \in S : slot[s].data = d => slot[s].notify
    BY <1>1 DEF OneOwner
  <2>4. released' = Notified(cs)
    OBVIOUS
  <2> HIDE DEF cs
  <2>5. Notified(cs)[d] = released[d] + One(\E s \in DOMAIN cs : cs[s].data = d)
    <3>1. released[d] \in Nat
      BY <1>1
    <3>2. \A s, r \in DOMAIN cs : cs[s].data = d /\ cs[r].data = d => s = r
      BY <2>1, <2>2
    <3>3. \A s \in DOMAIN cs : cs[s].data = d => cs[s].notify
      BY <2>1, <2>3
    <3> QED
      BY <3>1, <3>2, <3>3, NotifiedOnce
  <2> QED
    BY <2>1, <2>4, <2>5 DEF One
<1>3. ASSUME NEW d \in Data
      PROVE  /\ (\E s \in S : slot[s].data = d) => released[d] = 0 /\ released'[d] = 1
             /\ ~(\E s \in S : slot[s].data = d) => released'[d] = released[d]
  <2>1. (\E s \in S : slot[s].data = d) => released[d] = 0
    BY <1>1 DEF OneOwner
  <2> QED
    BY <1>1, <1>2, <2>1 DEF One
<1>4. released' \in [Data -> 0 .. 1]
  <2>1. \A d \in Data : released'[d] \in 0 .. 1
    BY <1>1, <1>3
  <2>2. released' = [d \in Data |-> released'[d]]
    BY DEF Notified
  <2> QED
    BY <2>1, <2>2
<1>5. /\ context' \in [restored : BOOLEAN, cb : CallbackType]
      /\ context'.restored => context'.cb = NoCallback
      /\ used' \in 0 .. MaxData
      /\ context'.cb.data # 0 => context'.cb.notify
  BY DEF OneOwner
<1>6. \A s, r \in Streams : slot'[s].data # 0 /\ slot'[s].data = slot'[r].data => s = r
  BY DEF OneOwner
<1>7. \A s \in Streams : slot'[s].data # 0 => /\ slot'[s].data # context'.cb.data
                                              /\ released'[slot'[s].data] = 0
  <2> SUFFICES ASSUME NEW s \in Streams, slot'[s].data # 0
               PROVE  slot'[s].data # context'.cb.data /\ released'[slot'[s].data] = 0
    OBVIOUS
  <2>1. s \notin S /\ slot'[s].data = slot[s].data /\ slot[s].data \in Data
    BY <1>1
  <2>2. ~(\E r \in S : slot[r].data = slot[s].data)
    BY <2>1 DEF OneOwner
  <2>3. slot[s].data # context.cb.data /\ released[slot[s].data] = 0
    BY <2>1 DEF OneOwner
  <2> QED
    BY <1>3, <2>1, <2>2, <2>3
<1>8. context'.cb.data # 0 => released'[context'.cb.data] = 0
  <2> SUFFICES ASSUME context.cb.data # 0 PROVE released'[context.cb.data] = 0
    OBVIOUS
  <2>1. context.cb.data \in Data /\ released[context.cb.data] = 0
    BY <1>1 DEF OneOwner
  <2>2. ~(\E r \in S : slot[r].data = context.cb.data)
    BY <2>1 DEF OneOwner
  <2> QED
    BY <1>3, <2>1, <2>2
<1>9. ASSUME NEW d \in Data
      PROVE  d <= used' <=> \/ \E s \in Streams : slot'[s].data = d
                            \/ context'.cb.data = d
                            \/ released'[d] = 1
  <2>1. d <= used <=> \/ \E s \in Streams : slot[s].data = d
                      \/ context.cb.data = d
                      \/ released[d] = 1
    BY DEF OneOwner
  <2>2. CASE \E s \in S : slot[s].data = d
    BY <1>3, <2>1, <2>2
  <2>3. CASE ~(\E s \in S : slot[s].data = d)
    <3>1. released'[d] = released[d]
      BY <1>3, <2>3
    <3>2. (\E s \in Streams : slot'[s].data = d) <=> (\E s \in Streams : slot[s].data = d)
      BY <1>1, <2>3
    <3> QED
      BY <2>1, <3>1, <3>2
  <2> QED
    BY <2>2, <2>3
<1> QED
  BY <1>4, <1>5, <1>6, <1>7, <1>8, <1>9 DEF OneOwner

\* A step of the references frees streams, and releases what they held.
LEMMA LifeData ==
    ASSUME LifeInv, DataInv, AppNext \/ LoopNext \/ \E t \in Threads : Detach(t),
           z_stream_free_method
    PROVE  DataInv'
<1>1. PICK S : S = {s \in Streams : ref[s] > 0 /\ ref'[s] = 0}
  OBVIOUS
<1>2. z_stream_drop_callbacks(S)
  BY <1>1 DEF z_stream_free_method
<1>3. /\ slot' = Dropped(S) /\ released' = Notified([s \in S |-> slot[s]])
      /\ UNCHANGED <<context, used>> /\ S \in SUBSET Streams
  BY <1>1, <1>2 DEF z_stream_drop_callbacks
<1>4. OneOwner
  BY DEF DataInv
<1>5. ASSUME NEW s \in Streams
      PROVE  /\ slot'[s] \in CallbackType
             /\ slot'[s].data = IF s \in S THEN 0 ELSE slot[s].data
             /\ slot'[s].notify = slot[s].notify
  <2>1. slot[s] \in CallbackType
    BY <1>4 DEF OneOwner
  <2>2. 0 \in 0 .. MaxData
    BY StackAssumption
  <2>3. slot'[s] = IF s \in S THEN [slot[s] EXCEPT !.data = 0] ELSE slot[s]
    BY <1>3 DEF Dropped
  <2> QED
    BY <2>1, <2>2, <2>3 DEF CallbackType
<1>6. slot' \in [Streams -> CallbackType]
  <2>1. slot' = [s \in Streams |-> slot'[s]]
    BY <1>3 DEF Dropped
  <2> QED
    BY <1>5, <2>1
<1>7. \A s \in Streams : slot'[s].data # 0 => slot'[s].notify
  BY <1>4, <1>5 DEF OneOwner
<1>8. OneOwner'
  BY <1>3, <1>4, <1>5, <1>6, <1>7, DropData
<1>9. height' = height /\ (app'.at = "building" => app.at = "building")
  <2>1. LifeTypes
    BY LifeFacts
  <2>2. CASE AppNext
    <3>1. height' = height
      BY <2>2 DEF AppNext, AttachBegins, z_stream_attach_source, CloseBegins, z_stream_close,
                  z_stream_destroy, AppDetaches, AppDetached, z_stream_unref
    <3>2. CASE AttachBegins \/ CloseBegins \/ AppDetaches \/ AppDetached \/ z_stream_unref
      BY <2>1, <3>2 DEF AttachBegins, CloseBegins, AppDetaches, AppDetached, z_stream_unref,
                        Ready, LifeTypes
    <3>3. CASE z_stream_attach_source
      BY <2>1, <3>3 DEF z_stream_attach_source, LifeTypes
    <3>4. CASE z_stream_close
      BY <2>1, <3>4 DEF z_stream_close, LifeTypes
    <3>5. CASE z_stream_destroy
      BY <2>1, <3>5 DEF z_stream_destroy, Ready, LifeTypes
    <3> QED
      BY <2>2, <3>1, <3>2, <3>3, <3>4, <3>5 DEF AppNext
  <2>3. CASE LoopNext
    BY <2>3 DEF LoopNext, LoopTakes, LoopGoesOn, z_stream_source_grab_ref, CallbackReturns,
                CallbackEnds, LoopDetached, Ungrab, LoopReleases
  <2>4. CASE \E t \in Threads : Detach(t)
    BY <2>4 DEF Detach, TakeSource, DetachChild, DetachReturns
  <2> QED
    BY <2>2, <2>3, <2>4
<1>10. app'.at = "building" => \A s \in Streams : s > height' => slot'[s].data = 0
  BY <1>5, <1>9 DEF DataInv
<1> QED
  BY <1>8, <1>10 DEF DataInv

LEMMA PushData ==
    ASSUME LifeInv, DataInv, z_stream_push
    PROVE  DataInv'
<1> DEFINE new == height + 1
<1>1. PICK S : S = {height} \ {0}
  OBVIOUS
<1>2. /\ app.at = "building" /\ new \in Streams /\ height' = new
      /\ slot' = [s \in Streams |-> IF s = new THEN NoCallback
                                    ELSE IF s = height THEN [data |-> 0, notify |-> TRUE]
                                    ELSE slot[s]]
      /\ released' = Notified([s \in S |-> slot[s]])
      /\ UNCHANGED <<app, context, used>>
  BY <1>1 DEF z_stream_push, Building
<1>3. /\ Depth \in Nat /\ Streams = 1 .. Depth /\ height \in Int /\ height >= 0 /\ height <= Depth
      /\ OneOwner /\ \A s \in Streams : s > height => slot[s].data = 0
  BY <1>2, LifeFacts DEF DataInv
<1>4. S \in SUBSET Streams
  BY <1>1, <1>3
<1>5. NoCallback \in CallbackType /\ [data |-> 0, notify |-> TRUE] \in CallbackType
  BY StackAssumption DEF NoCallback, CallbackType
<1>6. ASSUME NEW s \in Streams
      PROVE  /\ slot'[s] \in CallbackType
             /\ slot'[s].data = IF s \in S THEN 0 ELSE slot[s].data
             /\ slot'[s].data # 0 => slot'[s].notify
  <2>1. CASE s = new
    <3>1. s \notin S /\ slot[s].data = 0 /\ slot'[s] = NoCallback
      BY <1>1, <1>2, <1>3, <2>1
    <3> QED
      BY <1>5, <3>1 DEF NoCallback
  <2>2. CASE s = height
    <3>1. s \in S /\ slot'[s] = [data |-> 0, notify |-> TRUE]
      BY <1>1, <1>2, <1>3, <2>2
    <3> QED
      BY <1>5, <3>1
  <2>3. CASE s # new /\ s # height
    <3>1. s \notin S /\ slot'[s] = slot[s]
      BY <1>1, <1>2, <2>3
    <3> QED
      BY <1>3, <3>1 DEF OneOwner
  <2> QED
    BY <2>1, <2>2, <2>3
<1>7. slot' \in [Streams -> CallbackType]
  <2>1. slot' = [s \in Streams |-> slot'[s]]
    BY <1>2
  <2> QED
    BY <1>6, <2>1
<1>8. OneOwner'
  BY <1>2, <1>3, <1>4, <1>6, <1>7, DropData
<1>9. \A s \in Streams : s > height' => slot'[s].data = 0
  <2> SUFFICES ASSUME NEW s \in Streams, s > height' PROVE slot'[s].data = 0
    OBVIOUS
  <2>1. s > height /\ s \notin S
    BY <1>1, <1>2, <1>3
  <2> QED
    BY <1>3, <1>6, <2>1
<1> QED
  BY <1>8, <1>9 DEF DataInv

LEMMA PopData ==
    ASSUME LifeInv, DataInv, z_stream_pop
    PROVE  DataInv'
<1>1. PICK S : S = {height, height - 1}
  OBVIOUS
<1>2. /\ Building /\ height \in linked /\ height' = height - 1
      /\ slot' = Dropped(S) /\ released' = Notified([s \in S |-> slot[s]])
      /\ UNCHANGED <<app, context, used>>
  BY <1>1 DEF z_stream_pop, z_stream_drop_callbacks
<1>3. /\ Depth \in Nat /\ Streams = 1 .. Depth /\ height \in Int /\ height <= Depth
      /\ linked \subseteq 2 .. Depth /\ OneOwner
      /\ \A s \in Streams : s > height => slot[s].data = 0
  BY <1>2, LifeFacts DEF DataInv, LifeTypes, Building
<1>4. S \in SUBSET Streams
  BY <1>1, <1>2, <1>3
<1>5. ASSUME NEW s \in Streams
      PROVE  /\ slot'[s] \in CallbackType
             /\ slot'[s].data = IF s \in S THEN 0 ELSE slot[s].data
             /\ slot'[s].notify = slot[s].notify
  <2>1. slot[s] \in CallbackType
    BY <1>3 DEF OneOwner
  <2>2. 0 \in 0 .. MaxData
    BY StackAssumption
  <2>3. slot'[s] = IF s \in S THEN [slot[s] EXCEPT !.data = 0] ELSE slot[s]
    BY <1>2 DEF Dropped
  <2> QED
    BY <2>1, <2>2, <2>3 DEF CallbackType
<1>6. slot' \in [Streams -> CallbackType]
  <2>1. slot' = [s \in Streams |-> slot'[s]]
    BY <1>2 DEF Dropped
  <2> QED
    BY <1>5, <2>1
<1>7. \A s \in Streams : slot'[s].data # 0 => slot'[s].notify
  BY <1>3, <1>5 DEF OneOwner
<1>8. OneOwner'
  BY <1>2, <1>3, <1>4, <1>5, <1>6, <1>7, DropData
<1>9. \A s \in Streams : s > height' => slot'[s].data = 0
  <2> SUFFICES ASSUME NEW s \in Streams, s > height' PROVE slot'[s].data = 0
    OBVIOUS
  <2>1. CASE s \in S
    BY <1>5, <2>1
  <2>2. CASE s \notin S
    <3>1. s > height
      BY <1>1, <1>2, <1>3, <2>2
    <3> QED
      BY <1>3, <1>5, <2>2, <3>1
  <2> QED
    BY <2>1, <2>2
<1> QED
  BY <1>8, <1>9 DEF DataInv

\* The stream an application works on is one of the stack.
LEMMA AppTopStream ==
    ASSUME LifeInv, AppTop # 0
    PROVE  AppTop \in Streams /\ (Building => AppTop = height)
<1>1. LifeTypes /\ Depth \in Nat /\ height \in Int /\ Streams = 1 .. Depth
  BY LifeFacts
<1>2. height \in 0 .. Depth /\ loop.top \in 0 .. Depth
  BY <1>1 DEF LifeTypes
<1> QED
  BY <1>1, <1>2 DEF AppTop

\* One callback is released: z_stream_set_callback, z_stream_restore_context and
\* z_stream_context_destroy.
LEMMA ReleaseOne ==
    ASSUME OneOwner, NEW cb \in CallbackType, cb.data # 0 => cb.notify,
           cb.data # 0 => released[cb.data] = 0,
           released' = Notified(<<cb>>)
    PROVE  /\ released' \in [Data -> 0 .. 1]
           /\ \A d \in Data : released'[d] = IF cb.data = d THEN 1 ELSE released[d]
<1>1. /\ \A d \in Data : released[d] \in {0, 1} /\ d # 0 /\ d \in Nat
  BY DataFacts
<1>2. ASSUME NEW d \in Data
      PROVE  released'[d] = IF cb.data = d THEN 1 ELSE released[d]
  <2> DEFINE cs == <<cb>>
  <2>1. DOMAIN cs = {1} /\ cs[1] = cb
    OBVIOUS
  <2>2. released' = Notified(cs)
    OBVIOUS
  <2> HIDE DEF cs
  <2>3. Notified(cs)[d] = released[d] + One(\E s \in DOMAIN cs : cs[s].data = d)
    <3>1. released[d] \in Nat
      BY <1>1
    <3>2. \A s, r \in DOMAIN cs : cs[s].data = d /\ cs[r].data = d => s = r
      BY <2>1
    <3>3. \A s \in DOMAIN cs : cs[s].data = d => cs[s].notify
      BY <1>1, <2>1
    <3> QED
      BY <3>1, <3>2, <3>3, NotifiedOnce
  <2>4. cb.data = d => released[d] = 0
    BY <1>1
  <2> QED
    BY <1>1, <2>1, <2>2, <2>3, <2>4 DEF One
<1>3. \A d \in Data : released'[d] \in 0 .. 1
  BY <1>1, <1>2
<1>4. released' = [d \in Data |-> released'[d]]
  BY DEF Notified
<1> QED
  BY <1>2, <1>3, <1>4

LEMMA SetCallbackData ==
    ASSUME LifeInv, DataInv, z_stream_set_callback
    PROVE  DataInv'
<1>1. PICK top : top = AppTop
  OBVIOUS
<1>2. /\ top # 0 /\ used < MaxData /\ used' = used + 1
      /\ slot' = [slot EXCEPT ![top] = [data |-> used + 1, notify |-> TRUE]]
      /\ released' = Notified(<<slot[top]>>)
      /\ UNCHANGED <<app, height, context>>
  BY <1>1 DEF z_stream_set_callback, lifeVars
<1>3. top \in Streams /\ (app.at = "building" => top = height)
  BY <1>1, <1>2, AppTopStream DEF Building
<1>4. OneOwner /\ (app.at = "building" => \A s \in Streams : s > height => slot[s].data = 0)
  BY DEF DataInv
<1>5. /\ \A s \in Streams : /\ slot[s] \in CallbackType /\ slot[s].data \in Nat
                            /\ slot[s].data # 0 => slot[s].data \in Data
      /\ context.cb \in CallbackType /\ context.cb.data \in Nat
      /\ context.cb.data # 0 => context.cb.data \in Data
      /\ \A d \in Data : released[d] \in {0, 1} /\ d # 0 /\ d \in Nat
      /\ MaxData \in Nat /\ used \in Nat /\ used <= MaxData
  BY <1>4, DataFacts
<1>6. PICK new : new = used + 1
  OBVIOUS
<1>7. new \in Data /\ new \in 0 .. MaxData /\ new # 0 /\ new \in Nat /\ ~(new <= used)
  BY <1>2, <1>5, <1>6 DEF Data
<1>8. /\ \A s \in Streams : slot[s].data # new
      /\ context.cb.data # new /\ released[new] = 0
  BY <1>4, <1>5, <1>7 DEF OneOwner
<1>9. /\ released' \in [Data -> 0 .. 1]
      /\ \A d \in Data : released'[d] = IF slot[top].data = d THEN 1 ELSE released[d]
  <2>1. /\ slot[top] \in CallbackType /\ (slot[top].data # 0 => slot[top].notify)
        /\ slot[top].data # 0 => released[slot[top].data] = 0
    BY <1>3, <1>4, <1>5 DEF OneOwner
  <2> QED
    BY <1>2, <1>4, <2>1, ReleaseOne
<1>10. /\ \A s \in Streams : s # top => slot'[s] = slot[s]
       /\ slot'[top] = [data |-> new, notify |-> TRUE]
       /\ slot'[top].data = new /\ slot'[top].notify
  BY <1>2, <1>3, <1>4, <1>6 DEF OneOwner
<1>11. slot' \in [Streams -> CallbackType]
  <2>1. [data |-> new, notify |-> TRUE] \in CallbackType
    BY <1>7 DEF CallbackType
  <2> QED
    BY <1>2, <1>3, <1>4, <1>6, <2>1 DEF OneOwner
<1>12. used' \in 0 .. MaxData
  BY <1>2, <1>5
<1>13. \A s \in Streams : slot'[s].data # 0 => slot'[s].notify
  BY <1>4, <1>10 DEF OneOwner
<1>14. \A s, r \in Streams : slot'[s].data # 0 /\ slot'[s].data = slot'[r].data => s = r
  <2> SUFFICES ASSUME NEW s \in Streams, NEW r \in Streams,
                      slot'[s].data # 0, slot'[s].data = slot'[r].data
               PROVE  s = r
    OBVIOUS
  <2>1. CASE s # top /\ r # top
    BY <1>4, <1>10, <2>1 DEF OneOwner
  <2>2. CASE s = top /\ r # top
    BY <1>8, <1>10, <2>2
  <2>3. CASE s # top /\ r = top
    BY <1>8, <1>10, <2>3
  <2> QED
    BY <2>1, <2>2, <2>3
<1>15. ASSUME NEW s \in Streams, slot'[s].data # 0
       PROVE  slot'[s].data # context.cb.data /\ released'[slot'[s].data] = 0
  <2>1. CASE s = top
    <3>1. slot[top].data # new
      BY <1>3, <1>8
    <3> QED
      BY <1>7, <1>8, <1>9, <1>10, <2>1, <3>1
  <2>2. CASE s # top
    <3>1. slot[s].data # 0 /\ slot[s].data \in Data /\ slot[s].data # slot[top].data
      BY <1>3, <1>4, <1>5, <1>10, <1>15, <2>2 DEF OneOwner
    <3>2. slot[s].data # context.cb.data /\ released[slot[s].data] = 0
      BY <1>4, <3>1 DEF OneOwner
    <3> QED
      BY <1>9, <1>10, <2>2, <3>1, <3>2
  <2> QED
    BY <2>1, <2>2
<1>16. context.cb.data # 0 => released'[context.cb.data] = 0
  <2> SUFFICES ASSUME context.cb.data # 0 PROVE released'[context.cb.data] = 0
    OBVIOUS
  <2>1. released[context.cb.data] = 0 /\ slot[top].data # context.cb.data
    BY <1>3, <1>4 DEF OneOwner
  <2> QED
    BY <1>5, <1>9, <2>1
<1>17. ASSUME NEW d \in Data
       PROVE  d <= used' <=> \/ \E s \in Streams : slot'[s].data = d
                             \/ context.cb.data = d
                             \/ released'[d] = 1
  <2>1. d <= used <=> \/ \E s \in Streams : slot[s].data = d
                      \/ context.cb.data = d
                      \/ released[d] = 1
    BY <1>4 DEF OneOwner
  <2>2. d <= used' <=> d <= used \/ d = new
    BY <1>2, <1>5, <1>6
  <2>3. CASE d = new
    BY <1>3, <1>10, <2>2, <2>3
  <2>4. CASE d # new /\ slot[top].data = d
    BY <1>3, <1>9, <2>1, <2>2, <2>4
  <2>5. CASE d # new /\ slot[top].data # d
    <3>1. (\E s \in Streams : slot'[s].data = d) <=> (\E s \in Streams : slot[s].data = d)
      BY <1>10, <2>5
    <3>2. released'[d] = released[d]
      BY <1>9, <2>5
    <3> QED
      BY <2>1, <2>2, <2>5, <3>1, <3>2
  <2> QED
    BY <2>3, <2>4, <2>5
<1>18. OneOwner'
  <2>1. /\ context' \in [restored : BOOLEAN, cb : CallbackType]
        /\ context'.restored => context'.cb = NoCallback
        /\ context'.cb.data # 0 => context'.cb.notify
    BY <1>2, <1>4 DEF OneOwner
  <2> QED
    BY <1>2, <1>9, <1>11, <1>12, <1>13, <1>14, <1>15, <1>16, <1>17, <2>1 DEF OneOwner
<1>19. app'.at = "building" => \A s \in Streams : s > height' => slot'[s].data = 0
  <2> SUFFICES ASSUME app.at = "building", NEW s \in Streams, s > height
               PROVE  slot'[s].data = 0
    BY <1>2
  <2>1. s # top
    BY <1>3, LifeFacts
  <2> QED
    BY <1>4, <1>10, <2>1
<1> QED
  BY <1>18, <1>19 DEF DataInv

LEMMA SaveData ==
    ASSUME LifeInv, DataInv, z_stream_save_context
    PROVE  DataInv'
<1>1. PICK top : top = AppTop
  OBVIOUS
<1>2. /\ top # 0 /\ context.restored
      /\ context' = [restored |-> FALSE, cb |-> slot[top]]
      /\ slot' = [slot EXCEPT ![top] = NoCallback]
      /\ UNCHANGED <<app, height, used, released>>
  BY <1>1 DEF z_stream_save_context, lifeVars
<1>3. top \in Streams /\ (app.at = "building" => top = height)
  BY <1>1, <1>2, AppTopStream DEF Building
<1>4. OneOwner /\ (app.at = "building" => \A s \in Streams : s > height => slot[s].data = 0)
  BY DEF DataInv
<1>5. /\ \A s \in Streams : slot[s] \in CallbackType
      /\ \A d \in Data : d # 0
      /\ MaxData \in Nat
  BY <1>4, DataFacts
<1>6. NoCallback \in CallbackType /\ NoCallback.data = 0
  BY <1>5 DEF NoCallback, CallbackType
<1>7. /\ \A s \in Streams : s # top => slot'[s] = slot[s]
      /\ slot'[top].data = 0
      /\ slot' \in [Streams -> CallbackType]
  BY <1>2, <1>3, <1>4, <1>6 DEF OneOwner
<1>8. context.cb.data = 0
  BY <1>2, <1>4, <1>6 DEF OneOwner
<1>9. /\ context'.cb = slot[top] /\ ~context'.restored
      /\ context' \in [restored : BOOLEAN, cb : CallbackType]
  BY <1>2, <1>3, <1>5
<1>10. /\ \A s \in Streams : slot'[s].data # 0 => slot'[s].notify
       /\ context'.cb.data # 0 => context'.cb.notify
       /\ \A s, r \in Streams : slot'[s].data # 0 /\ slot'[s].data = slot'[r].data => s = r
  BY <1>3, <1>4, <1>7, <1>9 DEF OneOwner
<1>11. ASSUME NEW s \in Streams, slot'[s].data # 0
       PROVE  slot'[s].data # context'.cb.data /\ released'[slot'[s].data] = 0
  BY <1>2, <1>3, <1>4, <1>7, <1>9, <1>11 DEF OneOwner
<1>12. context'.cb.data # 0 => released'[context'.cb.data] = 0
  BY <1>2, <1>3, <1>4, <1>9 DEF OneOwner
<1>13. ASSUME NEW d \in Data
       PROVE  d <= used' <=> \/ \E s \in Streams : slot'[s].data = d
                             \/ context'.cb.data = d
                             \/ released'[d] = 1
  <2>1. d <= used <=> \/ \E s \in Streams : slot[s].data = d
                      \/ context.cb.data = d
                      \/ released[d] = 1
    BY <1>4 DEF OneOwner
  <2>2. (\E s \in Streams : slot[s].data = d)
            <=> (\E s \in Streams : slot'[s].data = d) \/ context'.cb.data = d
    BY <1>3, <1>5, <1>7, <1>9
  <2>3. context.cb.data # d
    BY <1>5, <1>8
  <2> QED
    BY <1>2, <2>1, <2>2, <2>3
<1>14. OneOwner'
  <2>1. used' \in 0 .. MaxData /\ released' \in [Data -> 0 .. 1]
    BY <1>2, <1>4 DEF OneOwner
  <2> QED
    BY <1>7, <1>9, <1>10, <1>11, <1>12, <1>13, <2>1 DEF OneOwner
<1>15. app'.at = "building" => \A s \in Streams : s > height' => slot'[s].data = 0
  BY <1>2, <1>4, <1>7
<1> QED
  BY <1>14, <1>15 DEF DataInv

\* The saved callback leaves the context: back to a stream, or released itself.
LEMMA RestoreData ==
    ASSUME LifeInv, DataInv, z_stream_restore_context
    PROVE  DataInv'
<1>1. PICK top : top = AppTop
  OBVIOUS
<1>2. /\ top # 0 /\ ~context.restored
      /\ slot' = [slot EXCEPT ![top] = context.cb]
      /\ released' = Notified(<<slot[top]>>)
      /\ context' = Restored
      /\ UNCHANGED <<app, height, used>>
  BY <1>1 DEF z_stream_restore_context, lifeVars
<1>3. top \in Streams /\ (app.at = "building" => top = height)
  BY <1>1, <1>2, AppTopStream DEF Building
<1>4. OneOwner /\ (app.at = "building" => \A s \in Streams : s > height => slot[s].data = 0)
  BY DEF DataInv
<1>5. /\ \A s \in Streams : /\ slot[s] \in CallbackType
                            /\ slot[s].data # 0 => slot[s].data \in Data
      /\ context.cb \in CallbackType
      /\ context.cb.data # 0 => context.cb.data \in Data
      /\ \A d \in Data : released[d] \in {0, 1} /\ d # 0
      /\ MaxData \in Nat
  BY <1>4, DataFacts
<1>6. /\ released' \in [Data -> 0 .. 1]
      /\ \A d \in Data : released'[d] = IF slot[top].data = d THEN 1 ELSE released[d]
  <2>1. /\ slot[top] \in CallbackType /\ (slot[top].data # 0 => slot[top].notify)
        /\ slot[top].data # 0 => released[slot[top].data] = 0
    BY <1>3, <1>4, <1>5 DEF OneOwner
  <2> QED
    BY <1>2, <1>4, <2>1, ReleaseOne
<1>7. /\ \A s \in Streams : s # top => slot'[s] = slot[s]
      /\ slot'[top] = context.cb
      /\ slot' \in [Streams -> CallbackType]
  BY <1>2, <1>3, <1>4, <1>5 DEF OneOwner
<1>8. /\ context'.cb = NoCallback /\ context'.cb.data = 0 /\ context'.restored
      /\ context' \in [restored : BOOLEAN, cb : CallbackType]
  BY <1>2, <1>5 DEF Restored, NoCallback, CallbackType
<1>9. /\ \A s \in Streams : slot'[s].data # 0 => slot'[s].notify
      /\ \A s, r \in Streams : slot'[s].data # 0 /\ slot'[s].data = slot'[r].data => s = r
  <2>1. \A s \in Streams : slot'[s].data # 0 => slot'[s].notify
    BY <1>4, <1>7 DEF OneOwner
  <2>2. \A s \in Streams : slot[s].data # 0 => slot[s].data # context.cb.data
    BY <1>4 DEF OneOwner
  <2>3. ASSUME NEW s \in Streams, NEW r \in Streams,
               slot'[s].data # 0, slot'[s].data = slot'[r].data
        PROVE  s = r
    <3>1. CASE s # top /\ r # top
      BY <1>4, <1>7, <2>3, <3>1 DEF OneOwner
    <3>2. CASE s = top /\ r # top
      BY <1>7, <2>2, <2>3, <3>2
    <3>3. CASE s # top /\ r = top
      BY <1>7, <2>2, <2>3, <3>3
    <3> QED
      BY <3>1, <3>2, <3>3
  <2> QED
    BY <2>1, <2>3
<1>10. ASSUME NEW s \in Streams, slot'[s].data # 0
       PROVE  slot'[s].data # context'.cb.data /\ released'[slot'[s].data] = 0
  <2>1. CASE s = top
    <3>1. /\ slot'[s].data = context.cb.data /\ context.cb.data # 0
          /\ released[context.cb.data] = 0 /\ context.cb.data \in Data
      BY <1>4, <1>5, <1>7, <1>10, <2>1 DEF OneOwner
    <3>2. slot[top].data # context.cb.data
      BY <1>3, <1>4, <3>1 DEF OneOwner
    <3> QED
      BY <1>6, <1>8, <1>10, <3>1, <3>2
  <2>2. CASE s # top
    <3>1. /\ slot'[s].data = slot[s].data /\ slot[s].data # 0 /\ slot[s].data \in Data
          /\ slot[s].data # slot[top].data /\ released[slot[s].data] = 0
      BY <1>3, <1>4, <1>5, <1>7, <1>10, <2>2 DEF OneOwner
    <3> QED
      BY <1>6, <1>8, <1>10, <3>1
  <2> QED
    BY <2>1, <2>2
<1>11. ASSUME NEW d \in Data
       PROVE  d <= used' <=> \/ \E s \in Streams : slot'[s].data = d
                             \/ context'.cb.data = d
                             \/ released'[d] = 1
  <2>1. d <= used <=> \/ \E s \in Streams : slot[s].data = d
                      \/ context.cb.data = d
                      \/ released[d] = 1
    BY <1>4 DEF OneOwner
  <2>2. context'.cb.data # d
    BY <1>5, <1>8
  <2>3. CASE slot[top].data = d
    BY <1>2, <1>3, <1>6, <2>1, <2>3
  <2>4. CASE slot[top].data # d
    <3>1. (\E s \in Streams : slot'[s].data = d)
              <=> (\E s \in Streams : slot[s].data = d) \/ context.cb.data = d
      BY <1>3, <1>7, <2>4
    <3>2. released'[d] = released[d]
      BY <1>6, <2>4
    <3> QED
      BY <1>2, <2>1, <2>2, <3>1, <3>2
  <2> QED
    BY <2>3, <2>4
<1>12. OneOwner'
  <2>1. used' \in 0 .. MaxData
    BY <1>2, <1>4 DEF OneOwner
  <2> QED
    BY <1>6, <1>7, <1>8, <1>9, <1>10, <1>11, <2>1 DEF OneOwner
<1>13. app'.at = "building" => \A s \in Streams : s > height' => slot'[s].data = 0
  <2> SUFFICES ASSUME app.at = "building", NEW s \in Streams, s > height
               PROVE  slot'[s].data = 0
    BY <1>2
  <2>1. s # top
    BY <1>3, LifeFacts
  <2> QED
    BY <1>4, <1>7, <2>1
<1> QED
  BY <1>12, <1>13 DEF DataInv

LEMMA ContextDestroyData ==
    ASSUME DataInv, z_stream_context_destroy
    PROVE  DataInv'
<1>1. /\ ~context.restored
      /\ released' = Notified(<<context.cb>>)
      /\ context' = Restored
      /\ UNCHANGED <<app, height, slot, used>>
  BY DEF z_stream_context_destroy, lifeVars
<1>2. OneOwner /\ (app.at = "building" => \A s \in Streams : s > height => slot[s].data = 0)
  BY DEF DataInv
<1>3. /\ \A s \in Streams : slot[s].data # 0 => slot[s].data \in Data
      /\ context.cb \in CallbackType
      /\ \A d \in Data : released[d] \in {0, 1} /\ d # 0
      /\ MaxData \in Nat
  BY <1>2, DataFacts
<1>4. /\ released' \in [Data -> 0 .. 1]
      /\ \A d \in Data : released'[d] = IF context.cb.data = d THEN 1 ELSE released[d]
  <2>1. /\ context.cb.data # 0 => context.cb.notify
        /\ context.cb.data # 0 => released[context.cb.data] = 0
    BY <1>2 DEF OneOwner
  <2> QED
    BY <1>1, <1>2, <1>3, <2>1, ReleaseOne
<1>5. /\ context'.cb = NoCallback /\ context'.cb.data = 0 /\ context'.restored
      /\ context' \in [restored : BOOLEAN, cb : CallbackType]
  BY <1>1, <1>3 DEF Restored, NoCallback, CallbackType
<1>6. ASSUME NEW s \in Streams, slot'[s].data # 0
      PROVE  slot'[s].data # context'.cb.data /\ released'[slot'[s].data] = 0
  BY <1>1, <1>2, <1>3, <1>4, <1>5, <1>6 DEF OneOwner
<1>7. ASSUME NEW d \in Data
      PROVE  d <= used' <=> \/ \E s \in Streams : slot'[s].data = d
                            \/ context'.cb.data = d
                            \/ released'[d] = 1
  <2>1. d <= used <=> \/ \E s \in Streams : slot[s].data = d
                      \/ context.cb.data = d
                      \/ released[d] = 1
    BY <1>2 DEF OneOwner
  <2> QED
    BY <1>1, <1>3, <1>4, <1>5, <2>1
<1>8. OneOwner'
  <2>1. /\ slot' \in [Streams -> CallbackType] /\ used' \in 0 .. MaxData
        /\ \A s \in Streams : slot'[s].data # 0 => slot'[s].notify
        /\ \A s, r \in Streams : slot'[s].data # 0 /\ slot'[s].data = slot'[r].data => s = r
    BY <1>1, <1>2 DEF OneOwner
  <2> QED
    BY <1>4, <1>5, <1>6, <1>7, <2>1 DEF OneOwner
<1> QED
  BY <1>1, <1>2, <1>8 DEF DataInv

LEMMA DataStep ==
    ASSUME LifeInv, DataInv, [Next]_vars
    PROVE  DataInv'
<1>1. CASE (AppNext \/ LoopNext \/ (\E t \in Threads : Detach(t))) /\ z_stream_free_method
  BY <1>1, LifeData
<1>2. CASE z_stream_push
  BY <1>2, PushData
<1>3. CASE z_stream_pop
  BY <1>3, PopData
<1>4. CASE DataNext
  BY <1>4, SetCallbackData, SaveData, RestoreData, ContextDestroyData DEF DataNext
<1>5. CASE UNCHANGED vars
  BY <1>5 DEF vars, DataInv, OneOwner
<1> QED
  BY <1>1, <1>2, <1>3, <1>4, <1>5 DEF Next

LEMMA DataOnce == DataInv => DataReleasedOnce
<1> SUFFICES ASSUME DataInv, NEW d \in Data
             PROVE  Cardinality({s \in Streams : slot[s].data = d})
                    + (IF context.cb.data = d THEN 1 ELSE 0)
                    + released[d] = IF d <= used THEN 1 ELSE 0
  BY DEF DataReleasedOnce
<1> DEFINE P == {s \in Streams : slot[s].data = d}
<1>1. OneOwner
  BY DEF DataInv
<1>2. d # 0 /\ released[d] \in {0, 1}
  BY <1>1, DataFacts
<1>3. P # {} <=> \E s \in Streams : slot[s].data = d
  OBVIOUS
<1>4. Cardinality(P) = One(P # {})
  <2>1. P \subseteq Streams /\ \A x, y \in P : x = y
    BY <1>1, <1>2 DEF OneOwner
  <2> HIDE DEF P
  <2> QED
    BY <2>1, OneOfMany
<1>5. /\ P # {} => context.cb.data # d /\ released[d] = 0
      /\ context.cb.data = d => released[d] = 0
      /\ d <= used <=> P # {} \/ context.cb.data = d \/ released[d] = 1
  BY <1>1, <1>2, <1>3 DEF OneOwner
<1> HIDE DEF P
<1>6. Cardinality(P) + (IF context.cb.data = d THEN 1 ELSE 0) + released[d]
          = IF d <= used THEN 1 ELSE 0
  BY <1>2, <1>4, <1>5 DEF One
<1> QED
  BY <1>6 DEF P

-----------------------------------------------------------------------------
\* References are sound in every interleaving of the application, which builds,
\* attaches, closes, detaches and drops a stack of any depth, with the poll
\* thread that calls back: no thread looks at a freed stream (z_stream_unref,
\* z_stream_struct_unref, z_stream_source_finalize), and every piece of user
\* data is released once (z_stream_drop_callbacks, z_stream_context_destroy).
\* One side detaches the stack: the application, or the callback by FALSE.
THEOREM StreamsOutlive ==
    ASSUME ~BothDetach
    PROVE  Spec => []RefsSound
<1>1. Init => LifeInv /\ DataInv
  BY LifeInit, DataInit
<1>2. LifeInv /\ DataInv /\ [Next]_vars => LifeInv' /\ DataInv'
  BY LifeStep, DataStep
<1>3. LifeInv /\ DataInv => RefsSound
  BY LifeSafe, DataOnce DEF RefsSound
<1> QED
  BY <1>1, <1>2, <1>3, PTL DEF Spec

\* A callback runs on a stack nobody has begun to take apart: z_stream_close and
\* z_stream_detach_source cut no link above the stream that was dispatched
\* while z_stream_source_grab_ref keeps the top.
THEOREM CallbacksOnWholeStacks ==
    ASSUME ~BothDetach
    PROVE  Spec => []CallbackOnWholeStack
<1>1. Init => LifeInv
  BY LifeInit
<1>2. LifeInv /\ [Next]_vars => LifeInv'
  BY LifeStep
<1>3. LifeInv => CallbackOnWholeStack
  BY DEF LifeInv, PollInv, CallbackOnWholeStack
<1> QED
  BY <1>1, <1>2, <1>3, PTL DEF Spec

=============================================================================
