--------------------------- MODULE EventLoopProofs ---------------------------
(***************************************************************************)
(* Theorems about a poll loop with its connector and its listener             *)
(* (EventLoop): the socket of the connector is closed exactly once or becomes  *)
(* a stream, no thread works on an object that has been freed, and no          *)
(* callback comes twice or after its cancellation, for any number of threads.  *)
(***************************************************************************)
EXTENDS EventLoop, TLAPS, FiniteSetTheorems

-----------------------------------------------------------------------------
(* The inductive invariant of the connector. *)

\* The poll thread is inside of the dispatch, which holds the callback data.
InDispatch == {"connected", "lock", "callback", "return"}
ConnectorPlaces == InDispatch \cup {"destroy", "cancel"}

One(b) == IF b THEN 1 ELSE 0

SelfRec == [state : {"none", "failed", "live", "freed"}, fd : BOOLEAN, callback : BOOLEAN,
            watch : BOOLEAN, user_data : BOOLEAN, holders : SUBSET Users, ref_cnt : Int]

ConnectorTypes ==
    /\ self \in SelfRec
    /\ source \in [state : {"none", "attached", "destroyed"}, data : Int]
    /\ DOMAIN thread = Users \cup {Loop}
    /\ loop \in [fd : BOOLEAN, timed_out : BOOLEAN]
    /\ expired \in BOOLEAN
    /\ calls \in Nat

\* References on the callback data and on the connector.
ConnectorRefs ==
    /\ source.data = One(source.state = "attached") + One(thread[Loop] \in InDispatch)
    /\ source.state = "none" => thread[Loop] \notin InDispatch \cup {"destroy"}
    /\ source.state # "none" => net # "idle"
    /\ self.state = "live" => /\ self.ref_cnt = Cardinality(self.holders) + One(source.data > 0)
                              /\ self.ref_cnt > 0
    /\ self.state # "live" => self.holders = {} /\ source.data = 0 /\ ~self.watch
    /\ self.state = "none" => net = "idle" /\ calls = 0
    /\ self.state \in {"none", "failed"} => source.state = "none" /\ sock \in {"none", "lost"}
    /\ source.data > 0 => self.user_data
    /\ \A u \in Users : thread[u] = "cancel" => u \in self.holders /\ ~self.watch /\ net # "idle"

\* Who has the socket.
ConnectorSocket ==
    /\ self.state = "live" /\ source.state = "none" /\ net = "idle"
         => self.user_data /\ self.fd /\ self.callback
    /\ self.fd => self.state = "live" /\ sock = "connector"
    /\ \/ source.state = "attached" /\ thread[Loop] \notin {"lock", "callback", "return", "destroy"}
       \/ thread[Loop] = "connected"
       => self.fd /\ self.callback
    /\ thread[Loop] = "lock" => self.callback /\ (loop.fd => ~self.fd /\ sock = "connector")
    /\ self.state = "live" => /\ sock \in {"connector", "stream", "closed"}
                              /\ sock = "connector" => self.fd \/ (thread[Loop] = "lock" /\ loop.fd)
    /\ self.state = "freed" => sock \in {"stream", "closed"}

\* Whether the callback may still come.
ConnectorCalls ==
    /\ cancelled => ~self.watch /\ net # "idle"
    /\ calls > 0 => ~self.callback

ConnectorInv == ConnectorTypes /\ ConnectorRefs /\ ConnectorSocket /\ ConnectorCalls

-----------------------------------------------------------------------------
(* The inductive invariant of the listener. *)

LWork == {"laccept", "lloop", "ltake", "lcallback", "lunlock", "lreturn"}
LLocked == {"lloop", "ltake", "lcallback", "lunlock"}
ListenerPlaces == LWork \cup {"ldestroy", "lcancel"}

Starts == 1 .. MaxStarts

\* Where the poll thread is, or returns to once z_listener_cancel is done.
Place == IF thread[Loop] = "lcancel" THEN cancelling.back ELSE thread[Loop]

ListenerRec == [state : {"live", "freed"}, fd : {"none", "open", "closed"}, watch : 0 .. MaxStarts,
                accept_one : BOOLEAN, holders : SUBSET {Creator, Loop}, ref_cnt : Int]
SourceRec == [state : {"none", "attached", "destroyed"}, data : Int, suspended : BOOLEAN]

ListenerTypes ==
    /\ listener \in ListenerRec
    /\ lsource \in [Starts -> SourceRec]
    /\ owner \in {Creator, Loop}
    /\ acc \in [watch : 0 .. MaxStarts, accepts : Int, rc : BOOLEAN]
    /\ seen \in [cancelled : BOOLEAN, stopped : BOOLEAN, late : Nat]
    /\ cancelling \in [watch : 0 .. MaxStarts, back : {"idle", "lcallback"}]

\* The sources somebody holds the callback data of.
HeldSources == {n \in Starts : lsource[n].data > 0}

\* The holders, h sources and k callers have a reference each, and the
\* listener goes with the last one.
Counted(l, h, k) ==
    /\ l.state = "live" => /\ l.ref_cnt = Cardinality(l.holders) + h + k
                           /\ l.ref_cnt > 0
    /\ l.state = "freed" => l.holders = {} /\ h = 0 /\ k = 0 /\ l.fd # "open"

ListenerRefs ==
    /\ Place \in LWork \cup {"ldestroy"} =>
         acc.watch \in Starts /\ lsource[acc.watch].state # "none"
    /\ \A n \in Starts : lsource[n].data = One(lsource[n].state = "attached")
                                            + One(Place \in LWork /\ acc.watch = n)
    /\ Counted(listener, Cardinality(HeldSources), One(Place \in LLocked))

ListenerCalls ==
    /\ llock = IF Place \in LLocked THEN Loop ELSE NoOne
    /\ \A t \in {Creator, Loop} : thread[t] = "lcancel" =>
         /\ t = owner /\ t \in listener.holders /\ listener.watch = 0
         /\ cancelling.watch \in Starts
         /\ t = Creator => cancelling.back = "idle"
    /\ thread[Loop] \in {"lloop", "ltake"} => listener.watch # 0
    /\ seen.cancelled => listener.watch = 0
    /\ seen.late <= 1
    /\ seen.late > 0 => L!Suspended \/ listener.watch = 0
    /\ thread[Loop] = "ltake" => seen.late = 0

ListenerInv == ListenerTypes /\ ListenerRefs /\ ListenerCalls

\* Which calls a thread can be in.
LoopPlaces == {"idle", "destroy"} \cup InDispatch \cup ListenerPlaces
UserPlaces == {"idle", "cancel", "lcancel", "wakeup", "pipe"}

Placed ==
    /\ DOMAIN thread = Users \cup {Loop}
    /\ thread[Loop] \in LoopPlaces
    /\ \A u \in Users : thread[u] \in UserPlaces

\* Who is about to wake the loop up.
PollInv ==
    /\ DOMAIN poll = {"state", "quit", "wakeup", "pipe"}
    /\ \A u \in Users : thread[u] \in {"wakeup", "pipe"} => poll.state = "live"

LoopInv == ConnectorInv /\ ListenerInv /\ Placed /\ PollInv

-----------------------------------------------------------------------------
(* The steps of the connector. *)

LEMMA HoldersCount ==
    ASSUME NEW S, IsFiniteSet(S)
    PROVE  /\ Cardinality(S) \in Nat
           /\ Cardinality(S) = 0 <=> S = {}
           /\ \A x : x \notin S => Cardinality(S \cup {x}) = Cardinality(S) + 1
           /\ \A x \in S : Cardinality(S \ {x}) = Cardinality(S) - 1
           /\ \A x : IsFiniteSet(S \cup {x}) /\ IsFiniteSet(S \ {x})
  BY FS_CardinalityType, FS_EmptySet, FS_AddElement, FS_RemoveElement

LEMMA HoldersFinite == ASSUME NEW S \in SUBSET Users PROVE IsFiniteSet(S)
  BY ConnectorAssumption, FS_Subset

\* What the other threads do between their calls is nothing to the connector.
LEMMA ConnectorKept ==
    ASSUME ConnectorInv, UNCHANGED cvars, DOMAIN thread' = Users \cup {Loop},
           \A t \in Users \cup {Loop} : thread'[t] = thread[t]
              \/ (thread[t] \notin ConnectorPlaces /\ thread'[t] \notin ConnectorPlaces)
    PROVE  ConnectorInv'
<1> USE DEF cvars
<1>1. ConnectorTypes'
  BY DEF ConnectorInv, ConnectorTypes
<1>2. ConnectorRefs'
  BY DEF ConnectorInv, ConnectorTypes, ConnectorRefs, ConnectorPlaces, InDispatch
<1>3. ConnectorSocket'
  BY DEF ConnectorInv, ConnectorTypes, ConnectorSocket, ConnectorPlaces, InDispatch
<1>4. ConnectorCalls'
  BY DEF ConnectorInv, ConnectorCalls
<1> QED
  BY <1>1, <1>2, <1>3, <1>4 DEF ConnectorInv

LEMMA ConnectorInit == ASSUME EInit PROVE ConnectorInv
<1>1. ConnectorTypes
  <2>1. self \in SelfRec
    BY DEF EInit, Init, SelfRec
  <2>2. expired \in BOOLEAN
    BY DEF EInit, Init
  <2>3. /\ source \in [state : {"none", "attached", "destroyed"}, data : Int]
        /\ DOMAIN thread = Users \cup {Loop} /\ calls \in Nat
    BY DEF EInit, Init
  <2>4. loop \in [fd : BOOLEAN, timed_out : BOOLEAN]
    BY DEF EInit, Init
  <2> QED
    BY <2>1, <2>2, <2>3, <2>4 DEF ConnectorTypes
<1>2. ConnectorRefs
  BY ConnectorAssumption DEF EInit, Init, ConnectorRefs, InDispatch, One
<1>3. ConnectorSocket
  BY ConnectorAssumption DEF EInit, Init, ConnectorSocket
<1>4. ConnectorCalls
  BY DEF EInit, Init, ConnectorCalls
<1> QED
  BY <1>1, <1>2, <1>3, <1>4 DEF ConnectorInv

LEMMA InvNewFails == ASSUME ConnectorInv, NewFails PROVE ConnectorInv'
<1> USE DEF ConnectorInv, ConnectorTypes, NewFails, SelfRec
<1>1. ConnectorTypes'
  OBVIOUS
<1>2. ConnectorRefs'
  BY DEF ConnectorRefs
<1>3. ConnectorSocket'
  BY DEF ConnectorRefs, ConnectorSocket, One
<1>4. ConnectorCalls'
  BY DEF ConnectorCalls
<1> QED
  BY <1>1, <1>2, <1>3, <1>4

LEMMA InvNew == ASSUME ConnectorInv, z_connector_new PROVE ConnectorInv'
<1> USE DEF ConnectorInv, ConnectorTypes, z_connector_new, SelfRec
<1>1. ConnectorTypes'
  BY ConnectorAssumption
<1>2. ConnectorRefs'
  <2>1. Cardinality({Creator}) = 1
    BY FS_Singleton
  <2> QED
    BY <2>1 DEF ConnectorRefs, One
<1>3. ConnectorSocket'
  BY DEF ConnectorRefs, ConnectorSocket, One
<1>4. ConnectorCalls'
  BY DEF ConnectorCalls, ConnectorRefs
<1> QED
  BY <1>1, <1>2, <1>3, <1>4

\* Who holds a reference holds it on a connector that lives.
LEMMA HeldLives ==
    ASSUME ConnectorInv
    PROVE  /\ self \in SelfRec /\ self.ref_cnt \in Int /\ self.holders \in SUBSET Users
           /\ (self.holders # {} \/ source.data > 0) => self.state = "live"
           /\ Cardinality(self.holders) \in Nat /\ IsFiniteSet(self.holders)
           /\ (Cardinality(self.holders) = 0) <=> (self.holders = {})
           /\ source.data \in 0 .. 2
<1>1. self \in SelfRec /\ self.ref_cnt \in Int /\ self.holders \in SUBSET Users
  BY DEF ConnectorInv, ConnectorTypes, SelfRec
<1>2. (self.holders # {} \/ source.data > 0) => self.state = "live"
  BY DEF ConnectorInv, ConnectorRefs
<1>3. source.data \in 0 .. 2
  BY DEF ConnectorInv, ConnectorRefs, One
<1> QED
  BY <1>1, <1>2, <1>3, HoldersFinite, HoldersCount

LEMMA InvStart == ASSUME ConnectorInv, z_connector_start PROVE ConnectorInv'
<1> DEFINE n == self.ref_cnt + 1
           c == [self EXCEPT !.watch = TRUE, !.ref_cnt = n]
<1>1. self \in SelfRec /\ n \in Int /\ self.state = "live" /\ self.ref_cnt \in Int
  BY HeldLives DEF z_connector_start, Holds
<1>2. self' = c
  BY DEF z_connector_start, StartRef
<1> HIDE DEF n
<1>3. /\ c \in SelfRec /\ c.state = self.state /\ c.fd = self.fd /\ c.callback = self.callback
      /\ c.user_data = self.user_data /\ c.holders = self.holders /\ c.ref_cnt = n
  BY <1>1 DEF SelfRec
<1> HIDE DEF c
<1>4. /\ source' = [state |-> "attached", data |-> 1] /\ source.state = "none" /\ net = "idle"
      /\ net' \in {"connecting", "connected"}
      /\ UNCHANGED <<lock, sock, expired, thread, loop, calls, cancelled>>
  BY DEF z_connector_start
<1>5. thread[Loop] \notin InDispatch \cup {"destroy"} /\ source.data = 0
  BY <1>4 DEF ConnectorInv, ConnectorRefs, One
<1>6. ConnectorTypes'
  BY <1>2, <1>3, <1>4 DEF ConnectorInv, ConnectorTypes
<1>7. ConnectorRefs'
  <2>1. n = Cardinality(self.holders) + 1 /\ n > 0
    BY <1>1, <1>5, HeldLives DEF ConnectorInv, ConnectorRefs, One, n
  <2>2. self.user_data
    BY <1>1, <1>4 DEF ConnectorInv, ConnectorSocket
  <2>3. \A u \in Users : thread[u] # "cancel"
    BY <1>4 DEF ConnectorInv, ConnectorRefs
  <2> QED
    BY <1>1, <1>2, <1>3, <1>4, <1>5, <2>1, <2>2, <2>3 DEF ConnectorRefs, One
<1>8. ConnectorSocket'
  BY <1>1, <1>2, <1>3, <1>4, <1>5 DEF ConnectorInv, ConnectorSocket, InDispatch
<1>9. ConnectorCalls'
  BY <1>2, <1>3, <1>4 DEF ConnectorInv, ConnectorCalls
<1> QED
  BY <1>6, <1>7, <1>8, <1>9 DEF ConnectorInv

LEMMA InvStartFails == ASSUME ConnectorInv, StartFails PROVE ConnectorInv'
<1> USE DEF ConnectorInv, ConnectorTypes, StartFails, SelfRec, Holds
<1>1. ConnectorTypes'
  OBVIOUS
<1>2. ConnectorRefs'
  BY DEF ConnectorRefs
<1>3. ConnectorSocket'
  BY DEF ConnectorSocket
<1>4. ConnectorCalls'
  BY DEF ConnectorCalls
<1> QED
  BY <1>1, <1>2, <1>3, <1>4

LEMMA InvStartBlock == ASSUME ConnectorInv, z_connector_start_block PROVE ConnectorInv'
<1> USE DEF ConnectorInv, ConnectorTypes, z_connector_start_block, SelfRec, Holds
<1>1. ConnectorTypes'
  OBVIOUS
<1>2. ConnectorRefs'
  BY DEF ConnectorRefs, One
<1>3. ConnectorSocket'
  BY DEF ConnectorRefs, ConnectorSocket, One, InDispatch
<1>4. ConnectorCalls'
  BY DEF ConnectorCalls
<1> QED
  BY <1>1, <1>2, <1>3, <1>4

LEMMA InvRef ==
    ASSUME ConnectorInv, NEW u \in Users, NEW v \in Users, z_connector_ref(u, v) PROVE ConnectorInv'
<1> USE DEF ConnectorInv, ConnectorTypes, z_connector_ref, SelfRec, Holds
<1>1. ConnectorTypes'
  <2> DEFINE S == self.holders \cup {v}
             n == self.ref_cnt + 1
  <2>1. S \in SUBSET Users /\ n \in Int
    OBVIOUS
  <2>2. self' = [self EXCEPT !.holders = S, !.ref_cnt = n]
    OBVIOUS
  <2> HIDE DEF S, n
  <2>3. self' \in SelfRec
    BY <2>1, <2>2
  <2> QED
    BY <2>3
<1>2. /\ Cardinality(self.holders \cup {v}) = Cardinality(self.holders) + 1
      /\ Cardinality(self.holders) \in Nat
  BY HoldersCount, HoldersFinite
<1>3. ConnectorRefs'
  BY <1>2 DEF ConnectorRefs, One
<1>4. ConnectorSocket'
  BY DEF ConnectorSocket
<1>5. ConnectorCalls'
  BY DEF ConnectorCalls
<1> QED
  BY <1>1, <1>3, <1>4, <1>5

\* z_connector_unref frees the connector with the last reference.
LEMMA UnrefRec ==
    ASSUME NEW c \in SelfRec
    PROVE  LET d == Unref(c) IN
           /\ d \in SelfRec /\ d.holders = c.holders /\ d.ref_cnt = c.ref_cnt - 1
           /\ c.ref_cnt = 1 => /\ d.state = "freed" /\ ~d.fd /\ ~d.callback /\ ~d.user_data
                               /\ ~d.watch
           /\ c.ref_cnt # 1 => /\ d.state = c.state /\ d.fd = c.fd /\ d.callback = c.callback
                               /\ d.user_data = c.user_data /\ d.watch = c.watch
<1> DEFINE n == c.ref_cnt - 1
           e == [c EXCEPT !.ref_cnt = n]
           f == Freed(e)
<1>1. c.ref_cnt \in Int /\ n \in Int /\ (n = 0 <=> c.ref_cnt = 1)
  BY DEF SelfRec
<1> HIDE DEF n
<1>2. /\ e \in SelfRec /\ e.ref_cnt = n /\ e.holders = c.holders /\ e.state = c.state
      /\ e.fd = c.fd /\ e.callback = c.callback /\ e.user_data = c.user_data /\ e.watch = c.watch
  BY <1>1 DEF SelfRec
<1>3. Unref(c) = IF n = 0 THEN f ELSE e
  BY <1>2 DEF Unref, n
<1> HIDE DEF e
<1>4. /\ f \in SelfRec /\ f.ref_cnt = e.ref_cnt /\ f.holders = e.holders /\ f.state = "freed"
      /\ f.fd = FALSE /\ f.callback = FALSE /\ f.user_data = FALSE /\ f.watch = FALSE
  BY <1>2 DEF SelfRec, Freed
<1> HIDE DEF f
<1> QED
  BY <1>1, <1>2, <1>3, <1>4 DEF n

LEMMA InvUnref ==
    ASSUME ConnectorInv, NEW u \in Users, z_connector_unref(u) PROVE ConnectorInv'
<1> DEFINE S == self.holders \ {u}
           c == [self EXCEPT !.holders = S]
           d == Unref(c)
<1>1. /\ self \in SelfRec /\ self.state = "live" /\ self.ref_cnt \in Int
      /\ self.holders \in SUBSET Users /\ u \in self.holders /\ thread[u] = "idle"
  BY HeldLives DEF z_connector_unref, Holds
<1>2. S \in SUBSET Users /\ Cardinality(S) = Cardinality(self.holders) - 1 /\ Cardinality(S) \in Nat
      /\ (Cardinality(S) = 0 <=> S = {})
  BY <1>1, HoldersFinite, HoldersCount
<1>3. /\ self' = d /\ sock' = SockAfter(c)
      /\ UNCHANGED <<lock, source, net, expired, thread, loop, calls, cancelled>>
  BY DEF z_connector_unref
<1> HIDE DEF S
<1>4. /\ c \in SelfRec /\ c.holders = S /\ c.state = "live" /\ c.fd = self.fd
      /\ c.callback = self.callback /\ c.user_data = self.user_data /\ c.watch = self.watch
      /\ c.ref_cnt = self.ref_cnt
  BY <1>1, <1>2 DEF SelfRec
<1> HIDE DEF c
<1>5. /\ d \in SelfRec /\ d.holders = S /\ d.ref_cnt = self.ref_cnt - 1
      /\ self.ref_cnt = 1 => /\ d.state = "freed" /\ ~d.fd /\ ~d.callback /\ ~d.user_data
                             /\ ~d.watch
      /\ self.ref_cnt # 1 => /\ d.state = "live" /\ d.fd = self.fd /\ d.callback = self.callback
                             /\ d.user_data = self.user_data /\ d.watch = self.watch
  BY <1>4, UnrefRec
<1> HIDE DEF d
<1>6. /\ self.ref_cnt = Cardinality(self.holders) + One(source.data > 0) /\ source.data \in 0 .. 2
      /\ self.ref_cnt > 0 /\ Cardinality(self.holders) \in Nat
  BY <1>1, HeldLives DEF ConnectorInv, ConnectorRefs
<1>7. ASSUME self.ref_cnt = 1 PROVE S = {} /\ source.data = 0
  BY <1>2, <1>6, <1>7 DEF One
<1>8. ConnectorTypes'
  BY <1>3, <1>5 DEF ConnectorInv, ConnectorTypes
<1>9. ConnectorRefs'
  <2>1. CASE self.ref_cnt = 1
    <3>1. \A t \in Users : thread[t] # "cancel"
      BY <1>1, <1>7, <2>1 DEF ConnectorInv, ConnectorRefs, S
    <3> QED
      BY <1>1, <1>3, <1>5, <1>6, <1>7, <2>1, <3>1 DEF ConnectorInv, ConnectorRefs
  <2>2. CASE self.ref_cnt # 1
    <3>1. d.ref_cnt = Cardinality(S) + One(source.data > 0) /\ d.ref_cnt > 0
      BY <1>1, <1>2, <1>5, <1>6, <2>2 DEF One
    <3> QED
      BY <1>1, <1>3, <1>5, <2>2, <3>1 DEF ConnectorInv, ConnectorRefs, S
  <2> QED
    BY <2>1, <2>2
<1>10. ConnectorSocket'
  <2>1. CASE self.ref_cnt = 1
    <3>1. thread[Loop] \notin InDispatch /\ source.state # "attached"
      BY <1>7, <2>1 DEF ConnectorInv, ConnectorRefs, One
    <3>2. sock' = IF self.fd THEN Close ELSE sock
      BY <1>3, <1>4, <2>1 DEF SockAfter
    <3>3. sock' \in {"stream", "closed"}
      BY <1>1, <3>1, <3>2 DEF ConnectorInv, ConnectorSocket, Close, InDispatch
    <3> QED
      BY <1>3, <1>5, <2>1, <3>1, <3>3 DEF ConnectorSocket, InDispatch
  <2>2. CASE self.ref_cnt # 1
    <3>1. sock' = sock
      BY <1>3, <1>4, <2>2 DEF SockAfter
    <3> QED
      BY <1>1, <1>3, <1>5, <2>2, <3>1 DEF ConnectorInv, ConnectorSocket
  <2> QED
    BY <2>1, <2>2
<1>11. ConnectorCalls'
  BY <1>3, <1>5 DEF ConnectorInv, ConnectorCalls
<1> QED
  BY <1>8, <1>9, <1>10, <1>11 DEF ConnectorInv

\* A thread has left a call and the connector at most lost its watch.
LEMMA WatchDropped ==
    ASSUME ConnectorInv, NEW b \in BOOLEAN, b => self.watch,
           self' = [self EXCEPT !.watch = b],
           UNCHANGED <<source, sock, net, calls>>,
           DOMAIN thread' = Users \cup {Loop},
           \A u \in Users : thread'[u] = "cancel" => thread[u] = "cancel" \/
                (u \in self.holders /\ ~b /\ net # "idle"),
           expired' = expired, loop' \in [fd : BOOLEAN, timed_out : BOOLEAN],
           (thread'[Loop] = thread[Loop] /\ loop' = loop)
             \/ (thread[Loop] = "destroy" /\ thread'[Loop] = "idle" /\ source.state # "attached"),
           cancelled' => cancelled \/ (~b /\ net # "idle")
    PROVE  ConnectorInv'
<1>1. /\ self \in SelfRec /\ self'.state = self.state /\ self'.fd = self.fd
      /\ self'.callback = self.callback /\ self'.user_data = self.user_data /\ self'.watch = b
      /\ self'.holders = self.holders /\ self'.ref_cnt = self.ref_cnt /\ self' \in SelfRec
  BY HeldLives DEF SelfRec
<1>2. ConnectorTypes'
  BY <1>1 DEF ConnectorInv, ConnectorTypes
<1>3. ConnectorRefs'
  BY <1>1 DEF ConnectorInv, ConnectorRefs, InDispatch
<1>4. ConnectorSocket'
  BY <1>1 DEF ConnectorInv, ConnectorSocket
<1>5. ConnectorCalls'
  BY <1>1 DEF ConnectorInv, ConnectorCalls
<1> QED
  BY <1>2, <1>3, <1>4, <1>5 DEF ConnectorInv

\* A reference on the callback data goes, and with the last one the source's
\* reference on the connector.
LEMMA DataDropped ==
    ASSUME ConnectorInv, NEW c \in SelfRec, c.state = self.state, c.fd = self.fd,
           c.callback = self.callback, c.user_data = self.user_data, c.holders = self.holders,
           c.ref_cnt = self.ref_cnt, c.watch => self.watch,
           DropData(c, 1), source.data > 0,
           source' \in [state : {"attached", "destroyed"}, data : Int],
           source'.data = source.data - 1,
           source'.data = One(source'.state = "attached") + One(thread'[Loop] \in InDispatch),
           source'.state = "attached" => source.state = "attached" /\ thread'[Loop] = "destroy",
           UNCHANGED <<net, calls>>,
           DOMAIN thread' = Users \cup {Loop},
           \A u \in Users : thread'[u] = "cancel" => thread[u] = "cancel",
           expired' = expired, loop' \in [fd : BOOLEAN, timed_out : BOOLEAN],
           (thread'[Loop] = thread[Loop] /\ loop' = loop) \/ thread[Loop] \notin {"lock", "connected"},
           thread'[Loop] \in {"lock", "connected"} => thread[Loop] = thread'[Loop],
           cancelled' => cancelled \/ (~c.watch /\ net # "idle")
    PROVE  ConnectorInv'
<1> DEFINE e == [c EXCEPT !.user_data = FALSE]
           d == Unref(e)
<1>1. self.state = "live" /\ self.ref_cnt \in Int /\ source.data \in 1 .. 2
  BY HeldLives
<1>2. /\ self.ref_cnt = Cardinality(self.holders) + 1 /\ self.ref_cnt > 0
      /\ Cardinality(self.holders) \in Nat /\ (Cardinality(self.holders) = 0 <=> self.holders = {})
  BY <1>1, HeldLives DEF ConnectorInv, ConnectorRefs, One
<1>3. CASE source.data # 1
  <2>1. self' = c /\ sock' = sock /\ source'.data = 1
    BY <1>1, <1>3 DEF DropData
  <2>2. ConnectorTypes'
    BY <2>1 DEF ConnectorInv, ConnectorTypes
  <2>3. ConnectorRefs'
    BY <1>1, <1>2, <2>1 DEF ConnectorInv, ConnectorRefs, One
  <2>4. ConnectorSocket'
    BY <1>1, <2>1 DEF ConnectorInv, ConnectorSocket
  <2>5. ConnectorCalls'
    BY <2>1 DEF ConnectorInv, ConnectorCalls
  <2> QED
    BY <2>2, <2>3, <2>4, <2>5 DEF ConnectorInv
<1>4. CASE source.data = 1
  <2>1. self' = d /\ sock' = SockAfter(c) /\ source'.data = 0
    BY <1>4 DEF DropData
  <2>2. /\ e \in SelfRec /\ e.state = "live" /\ e.fd = self.fd /\ e.callback = self.callback
        /\ e.holders = self.holders /\ e.ref_cnt = self.ref_cnt /\ e.watch = c.watch
        /\ e.user_data = FALSE
    BY <1>1 DEF SelfRec
  <2> HIDE DEF e
  <2>3. /\ d \in SelfRec /\ d.holders = self.holders /\ d.ref_cnt = self.ref_cnt - 1
        /\ self.ref_cnt = 1 => /\ d.state = "freed" /\ ~d.fd /\ ~d.callback /\ ~d.user_data
                               /\ ~d.watch
        /\ self.ref_cnt # 1 => /\ d.state = "live" /\ d.fd = self.fd /\ d.callback = self.callback
                               /\ d.user_data = FALSE /\ d.watch = c.watch
    BY <2>2, UnrefRec
  <2> HIDE DEF d
  <2>4. thread'[Loop] \notin InDispatch /\ source'.state # "attached"
    BY <2>1 DEF One
  <2>5. thread[Loop] \notin {"lock", "connected"}
    BY <2>4 DEF InDispatch
  <2>6. ConnectorTypes'
    BY <2>1, <2>3 DEF ConnectorInv, ConnectorTypes
  <2>7. ConnectorRefs'
    <3>1. CASE self.ref_cnt = 1
      <4>1. self.holders = {}
        BY <1>2, <3>1
      <4> QED
        BY <1>1, <2>1, <2>3, <2>4, <3>1, <4>1 DEF ConnectorInv, ConnectorRefs, One
    <3>2. CASE self.ref_cnt # 1
      <4>1. d.ref_cnt = Cardinality(self.holders) + 0 /\ d.ref_cnt > 0
        BY <1>1, <1>2, <2>3, <3>2
      <4> QED
        BY <1>1, <2>1, <2>3, <2>4, <3>2, <4>1 DEF ConnectorInv, ConnectorRefs, One
    <3> QED
      BY <3>1, <3>2
  <2>8. ConnectorSocket'
    <3>1. CASE self.ref_cnt = 1
      <4>1. sock' = IF self.fd THEN Close ELSE sock
        BY <2>1, <3>1 DEF SockAfter
      <4>2. sock' \in {"stream", "closed"}
        BY <1>1, <2>5, <4>1 DEF ConnectorInv, ConnectorSocket, Close
      <4> QED
        BY <2>1, <2>3, <2>4, <3>1, <4>2 DEF ConnectorSocket, InDispatch
    <3>2. CASE self.ref_cnt # 1
      <4>1. sock' = sock
        BY <2>1, <3>2 DEF SockAfter
      <4> QED
        BY <1>1, <2>1, <2>3, <2>4, <2>5, <3>2, <4>1 DEF ConnectorInv, ConnectorSocket, InDispatch
    <3> QED
      BY <3>1, <3>2
  <2>9. ConnectorCalls'
    BY <2>1, <2>3 DEF ConnectorInv, ConnectorCalls
  <2> QED
    BY <2>6, <2>7, <2>8, <2>9 DEF ConnectorInv
<1> QED
  BY <1>3, <1>4

LEMMA InvCancel ==
    ASSUME ConnectorInv, NEW u \in Users, z_connector_cancel(u) PROVE ConnectorInv'
<1>1. /\ self' = [self EXCEPT !.watch = FALSE] /\ u \in self.holders /\ net # "idle"
      /\ UNCHANGED <<lock, source, sock, net, expired, loop, calls>>
      /\ thread' = [thread EXCEPT ![u] = IF self.watch THEN "cancel" ELSE "idle"]
  BY DEF z_connector_cancel, Holds, Goes
<1>2. /\ DOMAIN thread = Users \cup {Loop} /\ u # Loop
      /\ loop \in [fd : BOOLEAN, timed_out : BOOLEAN]
  BY ConnectorAssumption DEF ConnectorInv, ConnectorTypes
<1>3. /\ DOMAIN thread' = Users \cup {Loop} /\ thread'[Loop] = thread[Loop]
      /\ \A t \in Users \ {u} : thread'[t] = thread[t]
  BY <1>1, <1>2
<1> DEFINE b == FALSE
<1>4. \A t \in Users : thread'[t] = "cancel" => thread[t] = "cancel" \/
            (t \in self.holders /\ ~b /\ net # "idle")
  BY <1>1, <1>3
<1>5. (cancelled' => cancelled \/ (~b /\ net # "idle")) /\ b \in BOOLEAN /\ ~b
      /\ self' = [self EXCEPT !.watch = b]
  BY <1>1
<1> HIDE DEF b
<1>6. loop' \in [fd : BOOLEAN, timed_out : BOOLEAN]
  BY <1>1, <1>2
<1> QED
  BY <1>1, <1>3, <1>4, <1>5, <1>6, WatchDropped

\* g_source_destroy, in whatever call it happens.
LEMMA DestroyedKeeps ==
    ASSUME ConnectorInv, NEW b \in BOOLEAN, b => self.watch,
           Destroyed([self EXCEPT !.watch = b]), self.state = "live" \/ source.state = "destroyed",
           UNCHANGED <<net, calls>>,
           DOMAIN thread' = Users \cup {Loop},
           \A u \in Users : thread'[u] = "cancel" => thread[u] = "cancel",
           expired' = expired, loop' \in [fd : BOOLEAN, timed_out : BOOLEAN],
           (thread'[Loop] = thread[Loop] /\ loop' = loop)
             \/ (thread[Loop] = "destroy" /\ thread'[Loop] = "idle"),
           cancelled' => cancelled \/ (~b /\ net # "idle")
    PROVE  ConnectorInv'
<1> DEFINE c == [self EXCEPT !.watch = b]
<1>1. /\ c \in SelfRec /\ c.state = self.state /\ c.fd = self.fd
      /\ c.callback = self.callback /\ c.user_data = self.user_data /\ c.watch = b
      /\ c.holders = self.holders /\ c.ref_cnt = self.ref_cnt
  BY HeldLives DEF SelfRec
<1>2. CASE source.state = "attached"
  <2>1. DropData(c, 1) /\ source' = [state |-> "destroyed", data |-> source.data - 1]
    BY <1>2 DEF Destroyed
  <2> HIDE DEF c
  <2>2. source.data = 1 + One(thread[Loop] \in InDispatch) /\ source.data \in 1 .. 2
    BY <1>2 DEF ConnectorInv, ConnectorRefs, One
  <2>3. (thread'[Loop] \in InDispatch) = (thread[Loop] \in InDispatch)
    BY DEF InDispatch
  <2>4. /\ source' \in [state : {"attached", "destroyed"}, data : Int]
        /\ source'.state = "destroyed" /\ source'.data = source.data - 1
    BY <2>1, <2>2
  <2>5. source'.data = One(source'.state = "attached") + One(thread'[Loop] \in InDispatch)
    BY <2>2, <2>3, <2>4 DEF One
  <2> QED
    BY <1>1, <2>1, <2>2, <2>4, <2>5, DataDropped
<1>3. CASE source.state # "attached"
  <2>1. self' = c /\ sock' = sock /\ source' = source
    BY <1>3 DEF Destroyed
  <2> QED
    BY <1>3, <2>1, WatchDropped
<1> QED
  BY <1>2, <1>3

\* Nothing is taken from the connector.
LEMMA WatchKept ==
    ASSUME ConnectorInv
    PROVE  self = [self EXCEPT !.watch = self.watch] /\ self.watch \in BOOLEAN
  BY DEF ConnectorInv, ConnectorTypes, SelfRec

LEMMA InvCancelDestroys ==
    ASSUME ConnectorInv, NEW u \in Users, CancelDestroys(u) PROVE ConnectorInv'
<1>1. /\ thread[u] = "cancel" /\ Destroyed(self) /\ thread' = [thread EXCEPT ![u] = "idle"]
      /\ cancelled' = TRUE /\ UNCHANGED <<net, expired, loop, calls>>
  BY DEF CancelDestroys, Goes
<1>2. u \in self.holders /\ ~self.watch /\ net # "idle"
  BY <1>1 DEF ConnectorInv, ConnectorRefs
<1>3. /\ DOMAIN thread = Users \cup {Loop} /\ u # Loop
      /\ loop \in [fd : BOOLEAN, timed_out : BOOLEAN]
  BY ConnectorAssumption DEF ConnectorInv, ConnectorTypes
<1>4. /\ DOMAIN thread' = Users \cup {Loop} /\ thread'[Loop] = thread[Loop]
      /\ \A t \in Users : thread'[t] = "cancel" => thread[t] = "cancel"
  BY <1>1, <1>3
<1>5. self.state = "live"
  BY <1>2, HeldLives
<1>6. self = [self EXCEPT !.watch = FALSE]
  BY <1>2, HeldLives DEF SelfRec
<1> DEFINE b == FALSE
<1>7. Destroyed([self EXCEPT !.watch = b])
  BY <1>1, <1>6
<1>8. (cancelled' => cancelled \/ (~b /\ net # "idle")) /\ b \in BOOLEAN /\ ~b
  BY <1>2
<1> HIDE DEF b
<1>9. loop' \in [fd : BOOLEAN, timed_out : BOOLEAN]
  BY <1>1, <1>3
<1> QED
  BY <1>1, <1>4, <1>5, <1>7, <1>8, <1>9, DestroyedKeeps

LEMMA InvCallbackCancels == ASSUME ConnectorInv, CallbackCancels PROVE ConnectorInv'
<1>1. /\ self.watch /\ Destroyed([self EXCEPT !.watch = FALSE])
      /\ UNCHANGED <<net, expired, loop, thread, calls>> /\ thread[Loop] = "callback"
  BY DEF CallbackCancels
<1>2. /\ DOMAIN thread = Users \cup {Loop}
      /\ loop \in [fd : BOOLEAN, timed_out : BOOLEAN]
  BY DEF ConnectorInv, ConnectorTypes
<1>3. self.state = "live"
  BY <1>1 DEF ConnectorInv, ConnectorRefs
<1>4. net # "idle"
  BY <1>1 DEF ConnectorInv, ConnectorRefs, InDispatch
<1> DEFINE b == FALSE
<1>5. (cancelled' => cancelled \/ (~b /\ net # "idle")) /\ b \in BOOLEAN /\ ~b
      /\ Destroyed([self EXCEPT !.watch = b])
  BY <1>1, <1>4
<1> HIDE DEF b
<1>6. /\ DOMAIN thread' = Users \cup {Loop} /\ loop' \in [fd : BOOLEAN, timed_out : BOOLEAN]
      /\ \A t \in Users : thread'[t] = "cancel" => thread[t] = "cancel"
  BY <1>1, <1>2
<1> QED
  BY <1>1, <1>3, <1>5, <1>6, DestroyedKeeps

LEMMA InvLoopDestroys == ASSUME ConnectorInv, LoopDestroys PROVE ConnectorInv'
<1>1. /\ Destroyed(self) /\ UNCHANGED <<net, expired, calls, cancelled>> /\ thread[Loop] = "destroy"
      /\ thread' = [thread EXCEPT ![Loop] = "idle"]
      /\ loop' = [fd |-> FALSE, timed_out |-> FALSE]
  BY DEF LoopDestroys, Goes
<1>2. DOMAIN thread = Users \cup {Loop} /\ Loop \notin Users
  BY ConnectorAssumption DEF ConnectorInv, ConnectorTypes
<1>3. /\ DOMAIN thread' = Users \cup {Loop} /\ thread'[Loop] = "idle"
      /\ \A t \in Users : thread'[t] = thread[t]
  BY <1>1, <1>2
<1>4. self.state = "live" \/ source.state = "destroyed"
  BY <1>1 DEF ConnectorInv, ConnectorRefs, ConnectorTypes, One
<1>5. loop' \in [fd : BOOLEAN, timed_out : BOOLEAN]
  BY <1>1
<1> QED
  BY <1>1, <1>3, <1>4, <1>5, WatchKept, DestroyedKeeps

LEMMA InvDispatchEnds == ASSUME ConnectorInv, DispatchEnds PROVE ConnectorInv'
<1>1. /\ DropData(self, 1) /\ UNCHANGED <<net, expired, loop, calls, cancelled>> /\ thread[Loop] = "return"
      /\ thread' = [thread EXCEPT ![Loop] = "destroy"]
      /\ source' = [source EXCEPT !.data = source.data - 1]
  BY DEF DispatchEnds, Goes
<1>2. /\ DOMAIN thread = Users \cup {Loop} /\ Loop \notin Users
      /\ loop \in [fd : BOOLEAN, timed_out : BOOLEAN]
      /\ source \in [state : {"none", "attached", "destroyed"}, data : Int]
  BY ConnectorAssumption DEF ConnectorInv, ConnectorTypes
<1>3. /\ DOMAIN thread' = Users \cup {Loop} /\ thread'[Loop] = "destroy"
      /\ \A t \in Users : thread'[t] = thread[t]
  BY <1>1, <1>2
<1>4. source.data = One(source.state = "attached") + 1 /\ source.state # "none" /\ source.data > 0
  BY <1>1 DEF ConnectorInv, ConnectorRefs, One, InDispatch
<1>5. /\ source' \in [state : {"attached", "destroyed"}, data : Int]
      /\ source'.data = source.data - 1 /\ source'.state = source.state
  BY <1>1, <1>2, <1>4
<1>6. source'.data = One(source'.state = "attached") + One(thread'[Loop] \in InDispatch)
  BY <1>3, <1>4, <1>5 DEF One, InDispatch
<1> QED
  BY <1>1, <1>2, <1>3, <1>4, <1>5, <1>6, HeldLives, DataDropped

LEMMA InvDispatch == ASSUME ConnectorInv, Dispatch PROVE ConnectorInv'
<1>1. /\ thread[Loop] = "idle" /\ source.state = "attached"
      /\ source' = [source EXCEPT !.data = source.data + 1]
      /\ loop' = [fd |-> FALSE, timed_out |-> expired]
      /\ thread' = [thread EXCEPT ![Loop] = "connected"]
      /\ UNCHANGED <<self, lock, sock, net, expired, calls, cancelled>>
  BY DEF Dispatch, Goes
<1>2. /\ DOMAIN thread = Users \cup {Loop} /\ Loop \notin Users
      /\ source \in [state : {"none", "attached", "destroyed"}, data : Int]
  BY ConnectorAssumption DEF ConnectorInv, ConnectorTypes
<1>3. /\ DOMAIN thread' = Users \cup {Loop} /\ thread'[Loop] = "connected"
      /\ \A t \in Users : thread'[t] = thread[t]
  BY <1>1, <1>2
<1>4. source.data = 1
  BY <1>1 DEF ConnectorInv, ConnectorRefs, One, InDispatch
<1>5. source' \in [state : {"none", "attached", "destroyed"}, data : Int]
      /\ source'.data = 2 /\ source'.state = "attached"
  BY <1>1, <1>2, <1>4
<1>6. ConnectorTypes'
  <2>1. loop' \in [fd : BOOLEAN, timed_out : BOOLEAN]
    BY <1>1 DEF ConnectorInv, ConnectorTypes
  <2> QED
    BY <1>1, <1>3, <1>5, <2>1 DEF ConnectorInv, ConnectorTypes
<1>7. ConnectorRefs'
  BY <1>1, <1>3, <1>4, <1>5 DEF ConnectorInv, ConnectorRefs, One, InDispatch
<1>8. ConnectorSocket'
  BY <1>1, <1>3, <1>5 DEF ConnectorInv, ConnectorSocket
<1>9. ConnectorCalls'
  BY <1>1 DEF ConnectorInv, ConnectorCalls
<1> QED
  BY <1>6, <1>7, <1>8, <1>9 DEF ConnectorInv

LEMMA InvConnected == ASSUME ConnectorInv, z_connector_connected PROVE ConnectorInv'
<1> DEFINE e == Error
<1>1. thread[Loop] = "connected" /\ self.fd /\ self.callback /\ sock = "connector" /\ self.state = "live"
  BY DEF z_connector_connected, ConnectorInv, ConnectorSocket
<1>2. /\ self' = [self EXCEPT !.fd = e] /\ loop' = [loop EXCEPT !.fd = ~e]
      /\ thread' = [thread EXCEPT ![Loop] = "lock"]
      /\ UNCHANGED <<lock, source, sock, net, expired, calls, cancelled>>
  BY <1>1 DEF z_connector_connected, Goes, KeepsFd
<1>3. e \in BOOLEAN
  BY DEF Error
<1> HIDE DEF e
<1>4. /\ DOMAIN thread = Users \cup {Loop} /\ Loop \notin Users /\ self \in SelfRec
      /\ loop \in [fd : BOOLEAN, timed_out : BOOLEAN]
  BY ConnectorAssumption DEF ConnectorInv, ConnectorTypes
<1>5. /\ DOMAIN thread' = Users \cup {Loop} /\ thread'[Loop] = "lock"
      /\ \A t \in Users : thread'[t] = thread[t]
  BY <1>2, <1>4
<1>6. /\ self' \in SelfRec /\ self'.state = "live" /\ self'.fd = e
      /\ self'.callback = self.callback /\ self'.user_data = self.user_data
      /\ self'.watch = self.watch /\ self'.holders = self.holders /\ self'.ref_cnt = self.ref_cnt
  BY <1>1, <1>2, <1>3, <1>4 DEF SelfRec
<1>7. loop' \in [fd : BOOLEAN, timed_out : BOOLEAN] /\ loop'.fd = ~e
  BY <1>2, <1>3, <1>4
<1>8. ConnectorTypes'
  BY <1>2, <1>5, <1>6, <1>7 DEF ConnectorInv, ConnectorTypes
<1>9. ConnectorRefs'
  BY <1>1, <1>2, <1>5, <1>6 DEF ConnectorInv, ConnectorRefs, InDispatch
<1>10. ConnectorSocket'
  <2>1. self'.callback /\ (loop'.fd => ~self'.fd) /\ (self'.fd \/ loop'.fd)
    BY <1>1, <1>3, <1>6, <1>7
  <2>2. source.state # "none"
    BY <1>1 DEF ConnectorInv, ConnectorRefs, InDispatch
  <2> QED
    BY <1>1, <1>2, <1>5, <1>6, <2>1, <2>2 DEF ConnectorSocket
<1>11. ConnectorCalls'
  BY <1>2, <1>6 DEF ConnectorInv, ConnectorCalls
<1> QED
  BY <1>8, <1>9, <1>10, <1>11 DEF ConnectorInv

LEMMA InvCallbackStarts == ASSUME ConnectorInv, CallbackStarts PROVE ConnectorInv'
<1>1. /\ self' = [self EXCEPT !.callback = FALSE] /\ calls' = calls + 1 /\ thread[Loop] = "lock"
      /\ thread' = [thread EXCEPT ![Loop] = "callback"] /\ sock' = (IF loop.fd THEN "stream" ELSE sock)
      /\ UNCHANGED <<source, net, expired, loop, cancelled>>
  BY DEF CallbackStarts, Goes
<1>2. /\ DOMAIN thread = Users \cup {Loop} /\ Loop \notin Users /\ self \in SelfRec /\ calls \in Nat
      /\ loop \in [fd : BOOLEAN, timed_out : BOOLEAN]
  BY ConnectorAssumption DEF ConnectorInv, ConnectorTypes
<1>3. /\ DOMAIN thread' = Users \cup {Loop} /\ thread'[Loop] = "callback"
      /\ \A t \in Users : thread'[t] = thread[t]
  BY <1>1, <1>2
<1>4. /\ self' \in SelfRec /\ self'.state = self.state /\ self'.fd = self.fd
      /\ self'.callback = FALSE /\ self'.user_data = self.user_data
      /\ self'.watch = self.watch /\ self'.holders = self.holders /\ self'.ref_cnt = self.ref_cnt
  BY <1>1, <1>2 DEF SelfRec
<1>5. /\ source.state # "none" /\ source.data > 0 /\ net # "idle" /\ self.state = "live"
  BY <1>1 DEF ConnectorInv, ConnectorRefs, ConnectorTypes, InDispatch, One
<1>6. ConnectorTypes'
  BY <1>1, <1>2, <1>3, <1>4 DEF ConnectorInv, ConnectorTypes
<1>7. ConnectorRefs'
  BY <1>1, <1>3, <1>4, <1>5 DEF ConnectorInv, ConnectorRefs, InDispatch
<1>8. ConnectorSocket'
  <2>1. loop.fd => ~self.fd
    BY <1>1 DEF ConnectorInv, ConnectorSocket
  <2> QED
    BY <1>1, <1>3, <1>4, <1>5, <2>1 DEF ConnectorInv, ConnectorSocket
<1>9. ConnectorCalls'
  BY <1>1, <1>4 DEF ConnectorInv, ConnectorCalls
<1> QED
  BY <1>6, <1>7, <1>8, <1>9 DEF ConnectorInv

LEMMA InvCallbackSkipped == ASSUME ConnectorInv, CallbackSkipped PROVE ConnectorInv'
<1>1. /\ thread[Loop] = "lock" /\ sock' = (IF loop.fd THEN Close ELSE sock)
      /\ thread' = [thread EXCEPT ![Loop] = "return"]
      /\ UNCHANGED <<self, source, net, expired, loop, calls, cancelled>>
  BY DEF CallbackSkipped, Goes
<1>2. DOMAIN thread = Users \cup {Loop} /\ Loop \notin Users
  BY ConnectorAssumption DEF ConnectorInv, ConnectorTypes
<1>3. /\ DOMAIN thread' = Users \cup {Loop} /\ thread'[Loop] = "return"
      /\ \A t \in Users : thread'[t] = thread[t]
  BY <1>1, <1>2
<1>4. sock' = IF loop.fd THEN "closed" ELSE sock
  BY <1>1 DEF ConnectorInv, ConnectorSocket, Close
<1>5. /\ source.state # "none" /\ source.data > 0 /\ net # "idle" /\ self.state = "live"
  BY <1>1 DEF ConnectorInv, ConnectorRefs, ConnectorTypes, InDispatch, One
<1>6. ConnectorTypes'
  BY <1>1, <1>3 DEF ConnectorInv, ConnectorTypes
<1>7. ConnectorRefs'
  BY <1>1, <1>3, <1>5 DEF ConnectorInv, ConnectorRefs, InDispatch
<1>8. ConnectorSocket'
  <2>1. loop.fd => ~self.fd
    BY <1>1 DEF ConnectorInv, ConnectorSocket
  <2> QED
    BY <1>1, <1>3, <1>4, <1>5, <2>1 DEF ConnectorInv, ConnectorSocket
<1>9. ConnectorCalls'
  BY <1>1 DEF ConnectorInv, ConnectorCalls
<1> QED
  BY <1>6, <1>7, <1>8, <1>9 DEF ConnectorInv

LEMMA InvCallbackEnds == ASSUME ConnectorInv, CallbackEnds PROVE ConnectorInv'
<1>1. /\ thread[Loop] = "callback" /\ thread' = [thread EXCEPT ![Loop] = "return"]
      /\ UNCHANGED <<self, source, sock, net, expired, loop, calls, cancelled>>
  BY DEF CallbackEnds, Goes
<1>2. DOMAIN thread = Users \cup {Loop} /\ Loop \notin Users
  BY ConnectorAssumption DEF ConnectorInv, ConnectorTypes
<1>3. /\ DOMAIN thread' = Users \cup {Loop} /\ thread'[Loop] = "return"
      /\ \A t \in Users : thread'[t] = thread[t]
  BY <1>1, <1>2
<1>6. ConnectorTypes'
  BY <1>1, <1>3 DEF ConnectorInv, ConnectorTypes
<1>7. ConnectorRefs'
  BY <1>1, <1>3 DEF ConnectorInv, ConnectorRefs, InDispatch
<1>8. ConnectorSocket'
  BY <1>1, <1>3 DEF ConnectorInv, ConnectorSocket
<1>9. ConnectorCalls'
  BY <1>1 DEF ConnectorInv, ConnectorCalls
<1> QED
  BY <1>6, <1>7, <1>8, <1>9 DEF ConnectorInv

LEMMA InvEnvironment ==
    ASSUME ConnectorInv, NetworkAnswers \/ TimeoutExpires PROVE ConnectorInv'
<1>1. /\ UNCHANGED <<self, source, sock, thread, loop, calls, cancelled>>
      /\ expired' \in BOOLEAN /\ (net' = net \/ (net # "idle" /\ net' # "idle"))
  BY DEF NetworkAnswers, TimeoutExpires, ConnectorInv, ConnectorTypes
<1>6. ConnectorTypes'
  BY <1>1 DEF ConnectorInv, ConnectorTypes
<1>7. ConnectorRefs'
  BY <1>1 DEF ConnectorInv, ConnectorRefs
<1>8. ConnectorSocket'
  BY <1>1 DEF ConnectorInv, ConnectorSocket
<1>9. ConnectorCalls'
  BY <1>1 DEF ConnectorInv, ConnectorCalls
<1> QED
  BY <1>6, <1>7, <1>8, <1>9 DEF ConnectorInv

\* Every step of the connector.
LEMMA ConnectorStep ==
    ASSUME ConnectorInv, Application \/ Dispatch \/ Connected \/ NetworkAnswers \/ TimeoutExpires
    PROVE  ConnectorInv'
<1>1. CASE Application
  BY <1>1, InvNewFails, InvNew, InvStart, InvStartFails, InvStartBlock, InvRef, InvUnref,
     InvCancel, InvCancelDestroys, InvCallbackCancels DEF Application, CallbackUnrefs
<1>2. CASE Connected
  BY <1>2, InvConnected, InvCallbackStarts, InvCallbackSkipped, InvCallbackEnds, InvDispatchEnds,
     InvLoopDestroys DEF Connected
<1> QED
  BY <1>1, <1>2, InvDispatch, InvEnvironment

-----------------------------------------------------------------------------
(* The steps of the listener. *)

\* Threads that come and go elsewhere are nothing to the listener.
LEMMA ListenerKept ==
    ASSUME ListenerInv, UNCHANGED lvars,
           \A t \in {Creator, Loop} : thread'[t] = thread[t]
              \/ (thread[t] \notin ListenerPlaces /\ thread'[t] \notin ListenerPlaces)
    PROVE  ListenerInv'
<1> USE DEF lvars
<1>1. Place' = Place \/ (Place \notin ListenerPlaces /\ Place' \notin ListenerPlaces)
  BY DEF Place, ListenerPlaces
<1>2. /\ (Place \in LWork)' = (Place \in LWork) /\ (Place \in LLocked)' = (Place \in LLocked)
      /\ (Place \in LWork \cup {"ldestroy"})' = (Place \in LWork \cup {"ldestroy"})
  BY <1>1 DEF ListenerPlaces, LWork, LLocked
<1>3. ListenerTypes'
  BY DEF ListenerInv, ListenerTypes
<1>4. ListenerRefs'
  <2>1. HeldSources' = HeldSources
    BY DEF HeldSources
  <2> QED
    BY <1>2, <2>1 DEF ListenerInv, ListenerRefs, Counted
<1>5. ListenerCalls'
  BY <1>2 DEF ListenerInv, ListenerCalls, L!Suspended, ListenerPlaces, LWork
<1> QED
  BY <1>3, <1>4, <1>5 DEF ListenerInv

LEMMA ListenerInit == ASSUME EInit PROVE ListenerInv
<1>0. /\ L!LInit /\ thread = [t \in Users \cup {Loop} |-> "idle"] /\ Creator \in Users
  BY ConnectorAssumption DEF EInit, Init
<1>1. Place = "idle" /\ thread[Loop] = "idle" /\ thread[Creator] = "idle"
  BY <1>0 DEF Place
<1>2. /\ listener.state = "live" /\ listener.holders = {owner} /\ listener.ref_cnt = 1
      /\ listener.watch = 0
  BY <1>0 DEF L!LInit
<1>3. ListenerTypes
  <2>1. listener \in ListenerRec
    BY <1>0, LoopAssumption DEF L!LInit, ListenerRec
  <2>2. lsource \in [Starts -> SourceRec]
    <3> DEFINE r == [state |-> "none", data |-> 0, suspended |-> FALSE]
    <3>1. r \in SourceRec
      BY DEF SourceRec
    <3> HIDE DEF r
    <3> QED
      BY <1>0, <3>1 DEF L!LInit, Starts, r
  <2>3. acc \in [watch : 0 .. MaxStarts, accepts : Int, rc : BOOLEAN]
    BY <1>0, LoopAssumption DEF L!LInit, L!NoLocals
  <2>4. seen \in [cancelled : BOOLEAN, stopped : BOOLEAN, late : Nat]
    BY <1>0 DEF L!LInit
  <2>5. cancelling \in [watch : 0 .. MaxStarts, back : {"idle", "lcallback"}]
    BY <1>0, LoopAssumption DEF L!LInit, L!NotCancelling
  <2> QED
    BY <1>0, <2>1, <2>2, <2>3, <2>4, <2>5 DEF L!LInit, ListenerTypes
<1>4. ListenerRefs
  <2>1. \A n \in Starts : lsource[n].data = 0 /\ lsource[n].state = "none"
    BY <1>0 DEF L!LInit, Starts
  <2>2. HeldSources = {}
    BY <2>1 DEF HeldSources
  <2>3. Cardinality(HeldSources) = 0 /\ Cardinality(listener.holders) = 1
    BY <1>2, <2>2, FS_EmptySet, FS_Singleton
  <2> QED
    BY <1>1, <1>2, <2>1, <2>3 DEF ListenerRefs, Counted, One, LWork, LLocked
<1>5. ListenerCalls
  BY <1>0, <1>1, <1>2 DEF L!LInit, ListenerCalls, LLocked
<1> QED
  BY <1>3, <1>4, <1>5 DEF ListenerInv

\* What the invariant says about the references.
LEMMA ListenerFacts ==
    ASSUME ListenerInv
    PROVE  /\ listener \in ListenerRec /\ listener.ref_cnt \in Int
           /\ IsFiniteSet(listener.holders) /\ Cardinality(listener.holders) \in Nat
           /\ IsFiniteSet(HeldSources) /\ Cardinality(HeldSources) \in Nat
           /\ (Cardinality(HeldSources) = 0) <=> (HeldSources = {})
           /\ \A n \in Starts : lsource[n] \in SourceRec /\ lsource[n].data \in 0 .. 2
           /\ listener.holders # {} \/ Place \in LWork
                  \/ (\E n \in Starts : lsource[n].state = "attached")
                => listener.state = "live"
           /\ Creator # Loop /\ NoOne # Loop
<1>1. listener \in ListenerRec /\ listener.ref_cnt \in Int /\ listener.holders \in SUBSET {Creator, Loop}
  BY DEF ListenerInv, ListenerTypes, ListenerRec
<1>2. IsFiniteSet({Creator, Loop}) /\ IsFiniteSet(Starts)
  <2>1. {Creator, Loop} = {Creator} \cup {Loop}
    OBVIOUS
  <2>2. IsFiniteSet({Creator} \cup {Loop})
    BY FS_AddElement, FS_Singleton
  <2>3. 1 \in Int /\ MaxStarts \in Int
    BY LoopAssumption
  <2> QED
    BY <2>1, <2>2, <2>3, FS_Interval DEF Starts
<1>3. IsFiniteSet(listener.holders) /\ IsFiniteSet(HeldSources)
  BY <1>1, <1>2, FS_Subset DEF HeldSources
<1>4. \A n \in Starts : lsource[n] \in SourceRec /\ lsource[n].data \in 0 .. 2
  <2> TAKE n \in Starts
  <2>1. lsource[n] \in SourceRec
    BY DEF ListenerInv, ListenerTypes
  <2> QED
    BY <2>1 DEF ListenerInv, ListenerRefs, One
<1>5. /\ Cardinality(listener.holders) \in Nat /\ Cardinality(HeldSources) \in Nat
      /\ (Cardinality(HeldSources) = 0) <=> (HeldSources = {})
  BY <1>3, HoldersCount
<1>6. ASSUME listener.holders # {} \/ Place \in LWork
               \/ (\E n \in Starts : lsource[n].state = "attached")
      PROVE  listener.state = "live"
  <2>1. listener.holders # {} \/ HeldSources # {}
    <3>1. CASE Place \in LWork
      <4>1. acc.watch \in Starts /\ lsource[acc.watch].data > 0
        BY <3>1 DEF ListenerInv, ListenerRefs, One
      <4> QED
        BY <4>1 DEF HeldSources
    <3>2. CASE \E n \in Starts : lsource[n].state = "attached"
      <4>1. PICK n \in Starts : lsource[n].state = "attached"
        BY <3>2
      <4>2. lsource[n].data > 0
        BY <4>1 DEF ListenerInv, ListenerRefs, One
      <4> QED
        BY <4>2 DEF HeldSources
    <3> QED
      BY <1>6, <3>1, <3>2
  <2>2. listener.state \in {"live", "freed"}
    BY <1>1 DEF ListenerRec
  <2> QED
    BY <1>5, <2>1, <2>2 DEF ListenerInv, ListenerRefs, Counted
<1> QED
  BY <1>1, <1>3, <1>4, <1>5, <1>6, ConnectorAssumption

\* z_listener_unref by somebody who has a reference of its own.
LEMMA UnrefCounted ==
    ASSUME NEW l \in ListenerRec, NEW h \in Nat, NEW k \in Nat, l.state = "live",
           Cardinality(l.holders) \in Nat, l.holders # {} => Cardinality(l.holders) # 0,
           l.ref_cnt = Cardinality(l.holders) + h + k + 1
    PROVE  /\ L!ListenerUnref(l) \in ListenerRec
           /\ L!ListenerUnref(l).watch = l.watch
           /\ L!ListenerUnref(l).holders = l.holders
           /\ Counted(L!ListenerUnref(l), h, k)
<1> DEFINE n == l.ref_cnt - 1
           m == [l EXCEPT !.ref_cnt = n]
           f == L!ListenerFreed(m)
<1>1. n \in Int /\ n = Cardinality(l.holders) + h + k
  BY DEF ListenerRec
<1> HIDE DEF n
<1>2. /\ m \in ListenerRec /\ m.ref_cnt = n /\ m.holders = l.holders /\ m.watch = l.watch
      /\ m.state = "live" /\ m.fd = l.fd
  BY <1>1 DEF ListenerRec
<1>3. L!ListenerUnref(l) = IF n = 0 THEN f ELSE m
  BY <1>2 DEF L!ListenerUnref, n
<1> HIDE DEF m
<1>4. /\ f \in ListenerRec /\ f.holders = m.holders /\ f.watch = m.watch /\ f.state = "freed"
      /\ f.fd # "open"
  BY <1>2 DEF ListenerRec, L!ListenerFreed
<1> HIDE DEF f
<1>5. CASE n = 0
  <2> DEFINE c == Cardinality(l.holders)
  <2>1. c \in Nat /\ 0 = c + h + k /\ (l.holders # {} => c # 0)
    BY <1>1, <1>5
  <2> HIDE DEF c
  <2>2. c = 0 /\ h = 0 /\ k = 0
    BY <2>1
  <2>3. l.holders = {} /\ h = 0 /\ k = 0
    BY <2>1, <2>2
  <2> QED
    BY <1>2, <1>3, <1>4, <1>5, <2>3 DEF Counted
<1>6. CASE n # 0
  <2>1. n > 0
    BY <1>1, <1>6
  <2> QED
    BY <1>1, <1>2, <1>3, <1>6, <2>1 DEF Counted
<1> QED
  BY <1>5, <1>6

\* A reference on the callback data of a source goes.
LEMMA SourceDropped ==
    ASSUME ListenerInv, NEW n \in Starts, lsource[n].data > 0,
           listener' = L!ListenerDropData(listener, n),
           lsource' \in [Starts -> SourceRec],
           lsource'[n].data = lsource[n].data - 1,
           \A m \in Starts \ {n} : lsource'[m] = lsource[m],
           (Place' \in LLocked) = (Place \in LLocked)
    PROVE  /\ listener' \in ListenerRec /\ listener'.watch = listener.watch
           /\ listener'.holders = listener.holders
           /\ Counted(listener, Cardinality(HeldSources), One(Place \in LLocked))'
<1> DEFINE k == One(Place \in LLocked)
           h == Cardinality(HeldSources)
<1>1. k \in Nat /\ h \in Nat /\ k' = k /\ IsFiniteSet(HeldSources)
  BY ListenerFacts DEF One
<1>2. /\ n \in HeldSources /\ lsource[n].data \in 1 .. 2 /\ Counted(listener, h, k)
      /\ listener.state = "live" /\ listener \in ListenerRec /\ Cardinality(listener.holders) \in Nat
      /\ listener.holders # {} => Cardinality(listener.holders) # 0
  <2>1. n \in HeldSources /\ lsource[n].data \in 1 .. 2
    BY ListenerFacts DEF HeldSources
  <2>2. listener \in ListenerRec /\ Counted(listener, h, k) /\ h # 0
    BY <2>1, ListenerFacts DEF ListenerInv, ListenerRefs
  <2>3. listener.state = "live"
    BY <2>2 DEF Counted, ListenerRec
  <2> QED
    BY <2>1, <2>2, <2>3, ListenerFacts, HoldersCount
<1>3. CASE lsource[n].data = 1
  <2>1. HeldSources' = HeldSources \ {n}
    BY <1>3 DEF HeldSources
  <2>2. h' = h - 1 /\ h' \in Nat
    <3>1. Cardinality(HeldSources \ {n}) = Cardinality(HeldSources) - 1
      BY <1>1, <1>2, HoldersCount
    <3>2. Cardinality(HeldSources \ {n}) \in Nat
      BY <1>1, HoldersCount
    <3> QED
      BY <2>1, <3>1, <3>2
  <2>3. listener' = L!ListenerUnref(listener)
    BY <1>3 DEF L!ListenerDropData
  <2> HIDE DEF h, k
  <2>4. listener.ref_cnt = Cardinality(listener.holders) + h' + k + 1
    BY <1>1, <1>2, <2>2 DEF Counted
  <2>5. /\ listener' \in ListenerRec /\ listener'.watch = listener.watch
        /\ listener'.holders = listener.holders /\ Counted(listener', h', k)
    BY <1>1, <1>2, <2>2, <2>3, <2>4, UnrefCounted
  <2> QED
    BY <1>1, <2>5 DEF h, k, Counted
<1>4. CASE lsource[n].data = 2
  <2>1. HeldSources' = HeldSources
    BY <1>4 DEF HeldSources
  <2>2. listener' = listener
    BY <1>4 DEF L!ListenerDropData
  <2> QED
    BY <1>1, <1>2, <2>1, <2>2 DEF Counted
<1> QED
  BY <1>2, <1>3, <1>4

\* A thread that moves leaves the other one where it is.
LEMMA OneMoves ==
    ASSUME DOMAIN thread = Users \cup {Loop}, NEW t \in {Creator, Loop}, NEW w,
           thread' = [thread EXCEPT ![t] = w]
    PROVE  /\ thread'[t] = w /\ Creator # Loop
           /\ \A u \in Users \cup {Loop} : u # t => thread'[u] = thread[u]
           /\ DOMAIN thread' = Users \cup {Loop}
  BY ConnectorAssumption

\* Who operates on the listener has a reference and is not in z_listener_cancel,
\* and neither is the other thread.
LEMMA OperatesFacts ==
    ASSUME ListenerInv, NEW t \in {Creator, Loop}, L!Operates(t)
    PROVE  /\ listener.state = "live" /\ t \in listener.holders /\ t = owner
           /\ \A u \in {Creator, Loop} : thread[u] # "lcancel"
           /\ thread[t] = "idle" \/ (t = Loop /\ thread[t] = "lcallback")
           /\ Place = thread[Loop]
<1>1. /\ t \in listener.holders /\ t = owner
      /\ thread[t] = "idle" \/ (t = Loop /\ thread[t] = "lcallback")
  BY DEF L!Operates
<1>2. \A u \in {Creator, Loop} : thread[u] # "lcancel"
  BY <1>1 DEF ListenerInv, ListenerCalls
<1> QED
  BY <1>1, <1>2, ListenerFacts DEF Place

LEMMA InvListenerStart ==
    ASSUME ListenerInv, NEW t \in {Creator, Loop}, L!z_listener_start(t) PROVE ListenerInv'
<1>1. PICK n \in Starts :
         /\ lsource[n].state = "none"
         /\ lsource' = [lsource EXCEPT ![n] =
                          [state |-> "attached", data |-> 1, suspended |-> FALSE]]
         /\ listener' = [[listener EXCEPT !.fd = "open"] EXCEPT
                            !.watch = n, !.ref_cnt = @ + L!SourceRef]
  BY DEF L!z_listener_start, L!z_stream_listener_open_listener, Starts
<1>2. /\ seen' = [cancelled |-> FALSE, stopped |-> FALSE, late |-> 0]
      /\ UNCHANGED <<llock, owner, socket, thread, acc, cancelling>> /\ L!Operates(t)
  BY DEF L!z_listener_start
<1> DEFINE c == listener.ref_cnt + 1
           r == [state |-> "attached", data |-> 1, suspended |-> FALSE]
<1>3. listener \in ListenerRec /\ c \in Int /\ n \in 0 .. MaxStarts /\ lsource \in [Starts -> SourceRec]
  BY DEF ListenerInv, ListenerTypes, ListenerRec, Starts
<1>4. r \in SourceRec /\ r.state = "attached" /\ r.data = 1 /\ r.suspended = FALSE
  BY DEF SourceRec
<1>5. listener' = [listener EXCEPT !.fd = "open", !.watch = n, !.ref_cnt = c]
  BY <1>1, <1>3 DEF L!SourceRef, ListenerRec
<1> HIDE DEF c, r
<1>6. /\ listener' \in ListenerRec /\ listener'.state = listener.state /\ listener'.watch = n
      /\ listener'.holders = listener.holders /\ listener'.ref_cnt = c
  BY <1>3, <1>5 DEF ListenerRec
<1>7. /\ lsource' \in [Starts -> SourceRec] /\ lsource'[n] = r
      /\ \A m \in Starts \ {n} : lsource'[m] = lsource[m]
  BY <1>1, <1>3, <1>4 DEF r
<1>8. Place' = Place
  BY <1>2 DEF Place
<1>9. lsource[n].data = 0 /\ (Place \in LWork \cup {"ldestroy"} => acc.watch # n)
  BY <1>1 DEF ListenerInv, ListenerRefs, One
<1>10. ListenerTypes'
  <2>1. seen' \in [cancelled : BOOLEAN, stopped : BOOLEAN, late : Nat]
    BY <1>2
  <2> QED
    BY <1>2, <1>6, <1>7, <2>1 DEF ListenerInv, ListenerTypes
<1>11. ListenerRefs'
  <2>1. HeldSources' = HeldSources \cup {n} /\ n \notin HeldSources
    BY <1>4, <1>7, <1>9 DEF HeldSources
  <2>2. Cardinality(HeldSources)' = Cardinality(HeldSources) + 1
    BY <2>1, ListenerFacts, HoldersCount
  <2> DEFINE h == Cardinality(HeldSources)
             k == One(Place \in LLocked)
             g == Cardinality(listener.holders)
  <2>3. listener.state = "live" /\ h \in Nat /\ k \in Nat /\ g \in Nat /\ listener.ref_cnt \in Int
    BY <1>2, OperatesFacts, ListenerFacts DEF One
  <2>4. h' = h + 1 /\ k' = k /\ g' = g /\ Counted(listener, h, k)
    BY <1>6, <1>8, <2>2 DEF ListenerInv, ListenerRefs
  <2>5. listener.ref_cnt = g + h + k /\ listener.ref_cnt > 0
    BY <2>3, <2>4 DEF Counted
  <2> HIDE DEF h, k, g
  <2>6. c = g + (h + 1) + k /\ c > 0
    BY <2>3, <2>5 DEF c
  <2>7. Counted(listener, h, k)'
    BY <1>6, <2>3, <2>4, <2>6 DEF Counted, g
  <2>8. \A m \in Starts : lsource'[m].data = One(lsource'[m].state = "attached")
                                            + One(Place \in LWork /\ acc.watch = m)
    <3> TAKE m \in Starts
    <3>1. CASE m = n
      BY <1>4, <1>7, <1>9, <3>1 DEF One
    <3>2. CASE m # n
      BY <1>7, <3>2 DEF ListenerInv, ListenerRefs
    <3> QED
      BY <3>1, <3>2
  <2>9. Place \in LWork \cup {"ldestroy"} => acc.watch \in Starts /\ lsource'[acc.watch].state # "none"
    BY <1>7, <1>9 DEF ListenerInv, ListenerRefs
  <2> QED
    BY <1>2, <1>8, <2>7, <2>8, <2>9 DEF ListenerRefs, h, k
<1>12. ListenerCalls'
  <2>1. \A u \in {Creator, Loop} : thread[u] # "lcancel"
    BY <1>2, OperatesFacts
  <2>2. listener'.watch # 0
    BY <1>6 DEF Starts
  <2>3. seen'.late = 0 /\ ~seen'.cancelled
    BY <1>2
  <2> QED
    BY <1>2, <1>8, <2>1, <2>2, <2>3 DEF ListenerInv, ListenerCalls
<1> QED
  BY <1>10, <1>11, <1>12 DEF ListenerInv

\* Only the descriptor, the watch or the way of the source is changed.
LEMMA ListenerTouched ==
    ASSUME ListenerInv, listener' \in ListenerRec, listener'.state = listener.state,
           listener'.holders = listener.holders, listener'.ref_cnt = listener.ref_cnt,
           listener.state = "live",
           lsource' \in [Starts -> SourceRec],
           \A n \in Starts : lsource'[n].state = lsource[n].state /\ lsource'[n].data = lsource[n].data,
           acc' \in [watch : 0 .. MaxStarts, accepts : Int, rc : BOOLEAN], acc'.watch = acc.watch,
           (Place' \in LWork) = (Place \in LWork), (Place' \in LLocked) = (Place \in LLocked),
           Place' = "ldestroy" => Place = "ldestroy"
    PROVE  ListenerRefs'
<1>1. HeldSources' = HeldSources
  BY DEF HeldSources
<1>2. Counted(listener, Cardinality(HeldSources), One(Place \in LLocked))'
  BY <1>1 DEF ListenerInv, ListenerRefs, Counted
<1>3. \A n \in Starts : lsource'[n].data = One(lsource'[n].state = "attached")
                                            + One(Place' \in LWork /\ acc'.watch = n)
  <2> TAKE n \in Starts
  <2>1. lsource[n].data = One(lsource[n].state = "attached") + One(Place \in LWork /\ acc.watch = n)
    BY DEF ListenerInv, ListenerRefs
  <2>2. (Place' \in LWork /\ acc'.watch = n) = (Place \in LWork /\ acc.watch = n)
    OBVIOUS
  <2>3. (lsource'[n].state = "attached") = (lsource[n].state = "attached")
    OBVIOUS
  <2> QED
    BY <2>1, <2>2, <2>3
<1>4. (Place \in LWork \cup {"ldestroy"} =>
         acc.watch \in Starts /\ lsource[acc.watch].state # "none")'
  BY DEF ListenerInv, ListenerRefs
<1> QED
  BY <1>2, <1>3, <1>4 DEF ListenerRefs

LEMMA InvListenerOpen ==
    ASSUME ListenerInv, NEW t \in {Creator, Loop}, L!z_listener_open(t) PROVE ListenerInv'
<1>1. /\ listener' = [listener EXCEPT !.fd = "open"] /\ L!Operates(t)
      /\ UNCHANGED <<llock, lsource, owner, socket, thread, acc, seen, cancelling>>
  BY DEF L!z_listener_open, L!z_stream_listener_open_listener
<1>2. listener \in ListenerRec /\ listener.state = "live"
  BY <1>1, OperatesFacts, ListenerFacts
<1>3. /\ listener' \in ListenerRec /\ listener'.state = listener.state
      /\ listener'.watch = listener.watch
      /\ listener'.holders = listener.holders /\ listener'.ref_cnt = listener.ref_cnt
  BY <1>1, <1>2 DEF ListenerRec
<1>4. Place' = Place
  BY <1>1 DEF Place
<1>5. ListenerTypes'
  BY <1>1, <1>3 DEF ListenerInv, ListenerTypes
<1>6. ListenerRefs'
  <2>1. /\ lsource' \in [Starts -> SourceRec]
        /\ acc' \in [watch : 0 .. MaxStarts, accepts : Int, rc : BOOLEAN]
    BY <1>5 DEF ListenerTypes
  <2>2. \A n \in Starts : lsource'[n].state = lsource[n].state /\ lsource'[n].data = lsource[n].data
    BY <1>1
  <2> QED
    BY <1>1, <1>2, <1>3, <1>4, <2>1, <2>2, ListenerTouched
<1>7. ListenerCalls'
  <2>1. L!Suspended' = L!Suspended
    BY <1>1, <1>3 DEF L!Suspended
  <2> QED
    BY <1>1, <1>3, <1>4, <2>1 DEF ListenerInv, ListenerCalls
<1> QED
  BY <1>5, <1>6, <1>7 DEF ListenerInv

LEMMA InvSetSuspended ==
    ASSUME ListenerInv, NEW t \in {Creator, Loop}, NEW b \in BOOLEAN, L!SetSuspended(t, b)
    PROVE  ListenerInv'
<1> DEFINE w == listener.watch
<1>1. /\ L!Operates(t) /\ w # 0 /\ lsource' = [lsource EXCEPT ![w].suspended = b]
      /\ seen' = [seen EXCEPT !.late = 0]
      /\ UNCHANGED <<listener, llock, owner, socket, thread, acc, cancelling>>
  BY DEF L!SetSuspended
<1>2. /\ listener \in ListenerRec /\ listener.state = "live" /\ w \in Starts
      /\ \A u \in {Creator, Loop} : thread[u] # "lcancel"
  BY <1>1, OperatesFacts, ListenerFacts DEF ListenerRec, Starts
<1>3. lsource \in [Starts -> SourceRec] /\ seen \in [cancelled : BOOLEAN, stopped : BOOLEAN, late : Nat]
  BY DEF ListenerInv, ListenerTypes
<1> HIDE DEF w
<1>4. /\ lsource' \in [Starts -> SourceRec] /\ \A n \in Starts \ {w} : lsource'[n] = lsource[n]
      /\ lsource'[w].state = lsource[w].state /\ lsource'[w].data = lsource[w].data
  <2>1. lsource[w] \in SourceRec
    BY <1>2, <1>3
  <2>2. /\ [lsource[w] EXCEPT !.suspended = b] \in SourceRec
        /\ [lsource[w] EXCEPT !.suspended = b].state = lsource[w].state
        /\ [lsource[w] EXCEPT !.suspended = b].data = lsource[w].data
    BY <2>1 DEF SourceRec
  <2>3. lsource' = [lsource EXCEPT ![w] = [lsource[w] EXCEPT !.suspended = b]]
    BY <1>1, <1>2, <1>3
  <2> QED
    BY <1>2, <1>3, <2>2, <2>3
<1>5. /\ seen' \in [cancelled : BOOLEAN, stopped : BOOLEAN, late : Nat] /\ seen'.late = 0
      /\ seen'.cancelled = seen.cancelled
  BY <1>1, <1>3
<1>6. Place' = Place
  BY <1>1 DEF Place
<1>7. ListenerTypes'
  BY <1>1, <1>4, <1>5 DEF ListenerInv, ListenerTypes
<1>8. ListenerRefs'
  <2>1. acc' \in [watch : 0 .. MaxStarts, accepts : Int, rc : BOOLEAN] /\ listener' \in ListenerRec
    BY <1>7 DEF ListenerTypes
  <2>2. \A n \in Starts : lsource'[n].state = lsource[n].state /\ lsource'[n].data = lsource[n].data
    BY <1>4
  <2> QED
    BY <1>1, <1>2, <1>4, <1>6, <2>1, <2>2, ListenerTouched
<1>9. ListenerCalls'
  BY <1>1, <1>2, <1>5, <1>6 DEF ListenerInv, ListenerCalls
<1> QED
  BY <1>7, <1>8, <1>9 DEF ListenerInv

LEMMA InvListenerCancel ==
    ASSUME ListenerInv, DOMAIN thread = Users \cup {Loop}, NEW t \in {Creator, Loop},
           L!z_listener_cancel(t)
    PROVE  ListenerInv'
<1>1. /\ L!Operates(t) /\ listener.watch # 0 /\ llock \in {NoOne, t}
      /\ listener' = [listener EXCEPT !.watch = 0]
      /\ cancelling' = [watch |-> listener.watch, back |-> thread[t]]
      /\ thread' = [thread EXCEPT ![t] = "lcancel"]
      /\ UNCHANGED <<llock, lsource, owner, socket, acc, seen>>
  BY DEF L!z_listener_cancel, L!LGoes
<1>2. /\ listener \in ListenerRec /\ listener.state = "live" /\ listener.watch \in Starts
      /\ \A u \in {Creator, Loop} : thread[u] # "lcancel"
      /\ thread[t] = "idle" \/ (t = Loop /\ thread[t] = "lcallback")
      /\ Place = thread[Loop] /\ t = owner /\ t \in listener.holders
  BY <1>1, OperatesFacts, ListenerFacts DEF ListenerRec, Starts
<1>3. /\ thread'[t] = "lcancel" /\ \A u \in {Creator, Loop} : u # t => thread'[u] = thread[u]
  BY <1>1, OneMoves, ConnectorAssumption
<1>4. /\ listener' \in ListenerRec /\ listener'.state = listener.state /\ listener'.watch = 0
      /\ listener'.holders = listener.holders /\ listener'.ref_cnt = listener.ref_cnt
  BY <1>1, <1>2, LoopAssumption DEF ListenerRec
<1>5. /\ cancelling' \in [watch : 0 .. MaxStarts, back : {"idle", "lcallback"}]
      /\ cancelling'.watch = listener.watch /\ cancelling'.back = thread[t]
  BY <1>1, <1>2 DEF Starts
<1>6. Place' = Place
  <2>1. CASE t = Loop
    BY <1>2, <1>3, <1>5, <2>1 DEF Place
  <2>2. CASE t # Loop
    BY <1>2, <1>3, <2>2 DEF Place
  <2> QED
    BY <2>1, <2>2
<1>7. ListenerTypes'
  BY <1>1, <1>4, <1>5 DEF ListenerInv, ListenerTypes
<1>8. ListenerRefs'
  <2>1. /\ lsource' \in [Starts -> SourceRec]
        /\ acc' \in [watch : 0 .. MaxStarts, accepts : Int, rc : BOOLEAN]
    BY <1>7 DEF ListenerTypes
  <2>2. \A n \in Starts : lsource'[n].state = lsource[n].state /\ lsource'[n].data = lsource[n].data
    BY <1>1
  <2> QED
    BY <1>1, <1>2, <1>4, <1>6, <2>1, <2>2, ListenerTouched
<1>9. ListenerCalls'
  <2>1. thread'[Loop] \notin {"lloop", "ltake"}
    <3>1. CASE t = Loop
      BY <1>3, <3>1
    <3>2. CASE t = Creator
      <4>1. llock # Loop
        BY <1>1, <3>2, ConnectorAssumption
      <4>2. Place \notin LLocked
        BY <4>1 DEF ListenerInv, ListenerCalls
      <4> QED
        BY <1>2, <1>3, <3>2, <4>2, ConnectorAssumption DEF LLocked
    <3> QED
      BY <3>1, <3>2
  <2>2. \A u \in {Creator, Loop} : thread'[u] = "lcancel" => u = t
    BY <1>2, <1>3
  <2>3. t = Creator => cancelling'.back = "idle"
    BY <1>2, <1>5, ConnectorAssumption
  <2> QED
    BY <1>1, <1>2, <1>4, <1>5, <1>6, <2>1, <2>2, <2>3 DEF ListenerInv, ListenerCalls
<1> QED
  BY <1>7, <1>8, <1>9 DEF ListenerInv

\* g_source_destroy, in whatever call it happens.
LEMMA ListenerDestroyedKeeps ==
    ASSUME ListenerInv, NEW n \in Starts, L!ListenerDestroyed(listener, n),
           (Place' \in LWork) = (Place \in LWork), (Place' \in LLocked) = (Place \in LLocked),
           Place' = "ldestroy" => Place = "ldestroy",
           Place' \in LWork \cup {"ldestroy"} => acc'.watch = acc.watch
    PROVE  /\ listener' \in ListenerRec /\ listener'.watch = listener.watch
           /\ listener'.holders = listener.holders
           /\ lsource' \in [Starts -> SourceRec]
           /\ \A m \in Starts : lsource'[m].suspended = lsource[m].suspended
           /\ ListenerRefs'
<1>1. listener \in ListenerRec /\ lsource \in [Starts -> SourceRec] /\ lsource[n] \in SourceRec
  BY DEF ListenerInv, ListenerTypes
<1>2. CASE lsource[n].state = "attached"
  <2> DEFINE d == lsource[n].data - 1
             r == [lsource[n] EXCEPT !.state = "destroyed", !.data = d]
  <2>1. /\ listener' = L!ListenerDropData(listener, n)
        /\ lsource' = [lsource EXCEPT ![n] = r]
    BY <1>1, <1>2 DEF L!ListenerDestroyed
  <2>2. lsource[n].data = 1 + One(Place \in LWork /\ acc.watch = n)
    BY <1>2 DEF ListenerInv, ListenerRefs, One
  <2>3. d \in Int /\ d = One(Place \in LWork /\ acc.watch = n) /\ lsource[n].data > 0
    BY <2>2 DEF One
  <2> HIDE DEF d
  <2>4. r \in SourceRec /\ r.state = "destroyed" /\ r.data = d /\ r.suspended = lsource[n].suspended
    BY <1>1, <2>3 DEF SourceRec
  <2> HIDE DEF r
  <2>5. /\ lsource' \in [Starts -> SourceRec] /\ lsource'[n] = r
        /\ \A m \in Starts \ {n} : lsource'[m] = lsource[m]
    BY <1>1, <2>1, <2>4
  <2>6. lsource'[n].data = lsource[n].data - 1
    BY <2>4, <2>5 DEF d
  <2>7. /\ listener' \in ListenerRec /\ listener'.watch = listener.watch
        /\ listener'.holders = listener.holders
        /\ Counted(listener, Cardinality(HeldSources), One(Place \in LLocked))'
    BY <2>1, <2>3, <2>5, <2>6, SourceDropped
  <2>8. \A m \in Starts : lsource'[m].data = One(lsource'[m].state = "attached")
                                            + One(Place' \in LWork /\ acc'.watch = m)
    <3> TAKE m \in Starts
    <3>1. (Place' \in LWork /\ acc'.watch = m) = (Place \in LWork /\ acc.watch = m)
      OBVIOUS
    <3>2. CASE m = n
      BY <2>3, <2>4, <2>5, <3>1, <3>2 DEF One
    <3>3. CASE m # n
      BY <2>5, <3>1, <3>3 DEF ListenerInv, ListenerRefs
    <3> QED
      BY <3>2, <3>3
  <2>9. Place' \in LWork \cup {"ldestroy"} => acc'.watch \in Starts /\ lsource'[acc'.watch].state # "none"
    BY <2>4, <2>5 DEF ListenerInv, ListenerRefs
  <2>10. ListenerRefs'
    BY <2>7, <2>8, <2>9 DEF ListenerRefs
  <2> QED
    BY <2>4, <2>5, <2>7, <2>10
<1>3. CASE lsource[n].state # "attached"
  <2>1. listener' = listener /\ lsource' = lsource
    BY <1>3 DEF L!ListenerDestroyed
  <2>2. \A m \in Starts : lsource'[m].data = One(lsource'[m].state = "attached")
                                            + One(Place' \in LWork /\ acc'.watch = m)
    <3> TAKE m \in Starts
    <3>1. (Place' \in LWork /\ acc'.watch = m) = (Place \in LWork /\ acc.watch = m)
      OBVIOUS
    <3> QED
      BY <2>1, <3>1 DEF ListenerInv, ListenerRefs
  <2>3. Counted(listener, Cardinality(HeldSources), One(Place \in LLocked))'
    <3>1. HeldSources' = HeldSources
      BY <2>1 DEF HeldSources
    <3> QED
      BY <2>1, <3>1 DEF ListenerInv, ListenerRefs, Counted
  <2>4. Place' \in LWork \cup {"ldestroy"} => acc'.watch \in Starts /\ lsource'[acc'.watch].state # "none"
    BY <2>1 DEF ListenerInv, ListenerRefs
  <2>5. ListenerRefs'
    BY <2>2, <2>3, <2>4 DEF ListenerRefs
  <2> QED
    BY <1>1, <2>1, <2>5
<1> QED
  BY <1>2, <1>3

LEMMA InvListenerCancelDestroys ==
    ASSUME ListenerInv, DOMAIN thread = Users \cup {Loop}, NEW t \in {Creator, Loop},
           L!ListenerCancelDestroys(t)
    PROVE  ListenerInv'
<1>1. /\ thread[t] = "lcancel" /\ L!ListenerDestroyed(listener, cancelling.watch)
      /\ thread' = [thread EXCEPT ![t] = cancelling.back]
      /\ seen' = [seen EXCEPT !.cancelled = TRUE, !.late = 0]
      /\ cancelling' = [watch |-> 0, back |-> "idle"]
      /\ UNCHANGED <<llock, owner, socket, acc>>
  BY DEF L!ListenerCancelDestroys, L!LGoes, L!NotCancelling
<1>2. /\ t = owner /\ listener.watch = 0 /\ cancelling.watch \in Starts
      /\ t = Creator => cancelling.back = "idle"
      /\ \A u \in {Creator, Loop} : u # t => thread[u] # "lcancel"
      /\ cancelling.back \in {"idle", "lcallback"}
  BY <1>1 DEF ListenerInv, ListenerCalls, ListenerTypes
<1>3. /\ thread'[t] = cancelling.back /\ \A u \in {Creator, Loop} : u # t => thread'[u] = thread[u]
      /\ Creator # Loop
  BY <1>1, OneMoves, ConnectorAssumption
<1>4. Place' = Place /\ \A u \in {Creator, Loop} : thread'[u] # "lcancel"
  <2>1. \A u \in {Creator, Loop} : thread'[u] # "lcancel"
    BY <1>2, <1>3
  <2>2. CASE t = Loop
    BY <1>1, <1>2, <1>3, <2>1, <2>2 DEF Place
  <2>3. CASE t = Creator
    BY <1>2, <1>3, <2>1, <2>3 DEF Place
  <2> QED
    BY <2>1, <2>2, <2>3
<1>5. /\ listener' \in ListenerRec /\ listener'.watch = listener.watch
      /\ listener'.holders = listener.holders
      /\ lsource' \in [Starts -> SourceRec] /\ ListenerRefs'
  BY <1>1, <1>2, <1>4, ListenerDestroyedKeeps
<1>6. /\ seen' \in [cancelled : BOOLEAN, stopped : BOOLEAN, late : Nat] /\ seen'.late = 0
  <2>1. seen \in [cancelled : BOOLEAN, stopped : BOOLEAN, late : Nat]
    BY DEF ListenerInv, ListenerTypes
  <2> QED
    BY <1>1, <2>1
<1>7. cancelling' \in [watch : 0 .. MaxStarts, back : {"idle", "lcallback"}]
  BY <1>1, LoopAssumption
<1>8. ListenerTypes'
  BY <1>1, <1>5, <1>6, <1>7 DEF ListenerInv, ListenerTypes
<1>9. ListenerCalls'
  <2>1. thread'[Loop] \notin {"lloop", "ltake"}
    BY <1>2, <1>3 DEF ListenerInv, ListenerCalls
  <2> QED
    BY <1>1, <1>2, <1>4, <1>5, <1>6, <2>1 DEF ListenerInv, ListenerCalls
<1> QED
  BY <1>5, <1>8, <1>9 DEF ListenerInv

LEMMA InvListenerRef ==
    ASSUME ListenerInv, NEW t \in {Creator, Loop}, NEW v \in {Creator, Loop},
           L!z_listener_ref(t, v)
    PROVE  ListenerInv'
<1> DEFINE S == listener.holders \cup {v}
           c == listener.ref_cnt + 1
<1>1. /\ t \in listener.holders /\ v \notin listener.holders
      /\ listener' = [listener EXCEPT !.holders = S, !.ref_cnt = c]
      /\ UNCHANGED <<llock, lsource, owner, socket, thread, acc, seen, cancelling>>
  BY ListenerFacts DEF L!z_listener_ref, ListenerRec
<1>2. /\ listener \in ListenerRec /\ listener.state = "live" /\ c \in Int
      /\ S \in SUBSET {Creator, Loop}
  BY <1>1, ListenerFacts DEF ListenerRec
<1>3. Cardinality(S) = Cardinality(listener.holders) + 1
  BY <1>1, ListenerFacts, HoldersCount
<1> HIDE DEF S, c
<1>4. /\ listener' \in ListenerRec /\ listener'.state = "live" /\ listener'.watch = listener.watch
      /\ listener'.holders = S /\ listener'.ref_cnt = c
  BY <1>1, <1>2 DEF ListenerRec
<1>5. Place' = Place /\ HeldSources' = HeldSources
  BY <1>1 DEF Place, HeldSources
<1>6. ListenerTypes'
  BY <1>1, <1>4 DEF ListenerInv, ListenerTypes
<1>7. ListenerRefs'
  <2> DEFINE h == Cardinality(HeldSources)
             k == One(Place \in LLocked)
             g == Cardinality(listener.holders)
  <2>1. h \in Nat /\ k \in Nat /\ g \in Nat /\ listener.ref_cnt \in Int /\ Counted(listener, h, k)
    BY ListenerFacts DEF One, ListenerInv, ListenerRefs
  <2>2. listener.ref_cnt = g + h + k
    BY <1>2, <2>1 DEF Counted
  <2>3. Cardinality(listener.holders)' = g + 1
    BY <1>3, <1>4
  <2>4. h' = h /\ k' = k
    BY <1>5
  <2> HIDE DEF h, k, g
  <2>5. c = (g + 1) + h + k /\ c > 0
    BY <2>1, <2>2 DEF c
  <2>6. Counted(listener, h, k)'
    BY <1>4, <2>3, <2>4, <2>5 DEF Counted
  <2> QED
    BY <1>1, <1>5, <2>6 DEF ListenerInv, ListenerRefs, h, k
<1>8. ListenerCalls'
  <2>1. L!Suspended' = L!Suspended
    BY <1>1, <1>4 DEF L!Suspended
  <2>2. listener.holders \subseteq listener'.holders
    BY <1>4 DEF S
  <2> QED
    BY <1>1, <1>4, <1>5, <2>1, <2>2 DEF ListenerInv, ListenerCalls
<1> QED
  BY <1>6, <1>7, <1>8 DEF ListenerInv

LEMMA InvListenerUnref ==
    ASSUME ListenerInv, NEW t \in {Creator, Loop}, L!z_listener_unref(t) PROVE ListenerInv'
<1> DEFINE S == listener.holders \ {t}
           l == [listener EXCEPT !.holders = S]
           h == Cardinality(HeldSources)
           k == One(Place \in LLocked)
           g == Cardinality(listener.holders)
<1>1. /\ t \in listener.holders /\ thread[t] # "lcancel"
      /\ listener' = L!ListenerUnref(l)
      /\ UNCHANGED <<llock, lsource, owner, socket, thread, acc, seen, cancelling>>
  BY ListenerFacts DEF L!z_listener_unref, ListenerRec
<1>2. /\ listener \in ListenerRec /\ listener.state = "live" /\ listener.ref_cnt \in Int
      /\ S \in SUBSET {Creator, Loop}
  BY <1>1, ListenerFacts DEF ListenerRec
<1>3. /\ Cardinality(S) = g - 1 /\ Cardinality(S) \in Nat /\ (S # {} => Cardinality(S) # 0)
  BY <1>1, ListenerFacts, HoldersCount
<1>4. h \in Nat /\ k \in Nat /\ g \in Nat /\ Counted(listener, h, k)
  BY ListenerFacts DEF One, ListenerInv, ListenerRefs
<1>5. listener.ref_cnt = g + h + k
  BY <1>2, <1>4 DEF Counted
<1>6. Place' = Place /\ HeldSources' = HeldSources
  BY <1>1 DEF Place, HeldSources
<1>7. h' = h /\ k' = k
  BY <1>6
<1> HIDE DEF S
<1>8. /\ l \in ListenerRec /\ l.holders = S /\ l.state = "live" /\ l.watch = listener.watch
      /\ l.ref_cnt = listener.ref_cnt
  BY <1>2 DEF ListenerRec
<1> HIDE DEF l, h, k, g
<1>9. l.ref_cnt = Cardinality(l.holders) + h + k + 1
  BY <1>2, <1>3, <1>4, <1>5, <1>8
<1>10. /\ listener' \in ListenerRec /\ listener'.watch = listener.watch /\ listener'.holders = S
       /\ Counted(listener', h, k)
  BY <1>1, <1>3, <1>4, <1>8, <1>9, UnrefCounted
<1>11. ListenerTypes'
  BY <1>1, <1>10 DEF ListenerInv, ListenerTypes
<1>12. ListenerRefs'
  <2>1. Counted(listener, h, k)'
    BY <1>7, <1>10 DEF Counted
  <2> QED
    BY <1>1, <1>6, <2>1 DEF ListenerInv, ListenerRefs, h, k
<1>13. ListenerCalls'
  <2>1. L!Suspended' = L!Suspended
    BY <1>1, <1>10 DEF L!Suspended
  <2>2. \A u \in {Creator, Loop} : thread[u] = "lcancel" => (u \in listener.holders => u \in S)
    BY <1>1 DEF S
  <2> QED
    BY <1>1, <1>6, <1>10, <2>1, <2>2 DEF ListenerInv, ListenerCalls
<1> QED
  BY <1>11, <1>12, <1>13 DEF ListenerInv

LEMMA InvListenerDispatch ==
    ASSUME ListenerInv, DOMAIN thread = Users \cup {Loop}, NEW n \in Starts, L!ListenerDispatch(n)
    PROVE  ListenerInv'
<1> DEFINE w == IF lsource[n].suspended THEN "lreturn" ELSE "laccept"
           d == lsource[n].data + 1
           r == [lsource[n] EXCEPT !.data = d]
<1>1. /\ thread[Loop] = "idle" /\ lsource[n].state = "attached"
      /\ acc' = [watch |-> n, accepts |-> 0, rc |-> TRUE] /\ thread' = [thread EXCEPT ![Loop] = w]
      /\ UNCHANGED <<listener, llock, owner, socket, seen, cancelling>>
  BY DEF L!ListenerDispatch, L!LGoes
<1>2. lsource \in [Starts -> SourceRec] /\ lsource[n] \in SourceRec
  BY DEF ListenerInv, ListenerTypes
<1>3. lsource' = [lsource EXCEPT ![n] = r]
  BY <1>2 DEF L!ListenerDispatch
<1>4. /\ thread'[Loop] \in {"lreturn", "laccept"} /\ thread'[Creator] = thread[Creator] /\ Creator # Loop
  BY <1>1, OneMoves, ConnectorAssumption
<1>5. Place = "idle" /\ Place' \in {"lreturn", "laccept"}
  BY <1>1, <1>4 DEF Place
<1>6. lsource[n].data = 1 /\ d = 2 /\ d \in Int
  BY <1>1, <1>5 DEF ListenerInv, ListenerRefs, One, LWork
<1> HIDE DEF w, d
<1>7. r \in SourceRec /\ r.state = "attached" /\ r.data = 2 /\ r.suspended = lsource[n].suspended
  BY <1>1, <1>2, <1>6 DEF SourceRec
<1> HIDE DEF r
<1>8. /\ lsource' \in [Starts -> SourceRec] /\ lsource'[n] = r
      /\ \A m \in Starts \ {n} : lsource'[m] = lsource[m]
  BY <1>2, <1>3, <1>7
<1>9. acc' \in [watch : 0 .. MaxStarts, accepts : Int, rc : BOOLEAN] /\ acc'.watch = n
  BY <1>1 DEF Starts
<1>10. ListenerTypes'
  BY <1>1, <1>8, <1>9 DEF ListenerInv, ListenerTypes
<1>11. ListenerRefs'
  <2>1. HeldSources' = HeldSources
    BY <1>6, <1>7, <1>8 DEF HeldSources
  <2>2. Counted(listener, Cardinality(HeldSources), One(Place \in LLocked))'
    BY <1>1, <1>5, <2>1 DEF ListenerInv, ListenerRefs, Counted, LLocked
  <2>3. \A m \in Starts : lsource'[m].data = One(lsource'[m].state = "attached")
                                            + One(Place' \in LWork /\ acc'.watch = m)
    <3> TAKE m \in Starts
    <3>1. Place' \in LWork /\ Place \notin LWork
      BY <1>5 DEF LWork
    <3>2. CASE m = n
      BY <1>7, <1>8, <1>9, <3>1, <3>2 DEF One
    <3>3. CASE m # n
      BY <1>8, <1>9, <3>1, <3>3 DEF ListenerInv, ListenerRefs, One
    <3> QED
      BY <3>2, <3>3
  <2> QED
    BY <1>7, <1>8, <1>9, <2>2, <2>3 DEF ListenerRefs
<1>12. ListenerCalls'
  <2>1. L!Suspended' = L!Suspended
    <3>1. listener.watch \in 0 .. MaxStarts /\ (listener.watch # 0 => listener.watch \in Starts)
      BY ListenerFacts DEF ListenerRec, Starts
    <3> QED
      BY <1>1, <1>7, <1>8, <3>1 DEF L!Suspended
  <2>2. Place' \notin LLocked /\ Place \notin LLocked
    BY <1>5 DEF LLocked
  <2>3. thread'[Loop] \notin {"lcancel", "lloop", "ltake"}
    BY <1>4
  <2> QED
    BY <1>1, <1>4, <2>1, <2>2, <2>3 DEF ListenerInv, ListenerCalls
<1> QED
  BY <1>10, <1>11, <1>12 DEF ListenerInv

\* The poll thread goes on inside of z_listener_accept.
LEMMA AcceptGoesOn ==
    ASSUME ListenerInv, DOMAIN thread = Users \cup {Loop}, NEW w \in LWork,
           thread[Loop] \in LWork, (w \in LLocked) = (thread[Loop] \in LLocked),
           thread' = [thread EXCEPT ![Loop] = w],
           UNCHANGED <<listener, llock, lsource, owner, cancelling>>,
           acc' \in [watch : 0 .. MaxStarts, accepts : Int, rc : BOOLEAN], acc'.watch = acc.watch,
           seen' \in [cancelled : BOOLEAN, stopped : BOOLEAN, late : Nat],
           seen'.cancelled = seen.cancelled,
           seen'.late <= 1, seen'.late > 0 => L!Suspended \/ listener.watch = 0,
           w = "ltake" => seen'.late = 0,
           w \in {"lloop", "ltake"} => listener.watch # 0
    PROVE  ListenerInv'
<1>1. /\ thread'[Loop] = w /\ thread'[Creator] = thread[Creator] /\ Creator # Loop
  BY OneMoves, ConnectorAssumption
<1>2. Place' = w /\ Place = thread[Loop] /\ w # "lcancel"
  BY <1>1 DEF Place, LWork
<1>3. ListenerTypes'
  BY DEF ListenerInv, ListenerTypes
<1>4. ListenerRefs'
  <2>1. listener \in ListenerRec /\ lsource \in [Starts -> SourceRec] /\ listener.state = "live"
    BY <1>2, ListenerFacts DEF ListenerInv, ListenerTypes
  <2>2. /\ (Place' \in LWork) = (Place \in LWork) /\ (Place' \in LLocked) = (Place \in LLocked)
        /\ Place' # "ldestroy"
    BY <1>2 DEF LWork
  <2> QED
    BY <2>1, <2>2, ListenerTouched
<1>5. ListenerCalls'
  <2>1. L!Suspended' = L!Suspended
    BY DEF L!Suspended
  <2>2. (Place' \in LLocked) = (Place \in LLocked)
    BY <1>2
  <2> QED
    BY <1>1, <1>2, <2>1, <2>2 DEF ListenerInv, ListenerCalls
<1> QED
  BY <1>3, <1>4, <1>5 DEF ListenerInv

LEMMA LocalsTyped ==
    ASSUME ListenerInv
    PROVE  /\ acc \in [watch : 0 .. MaxStarts, accepts : Int, rc : BOOLEAN]
           /\ seen \in [cancelled : BOOLEAN, stopped : BOOLEAN, late : Nat]
           /\ seen.late \in Nat /\ seen.late <= 1
           /\ seen.late > 0 => L!Suspended \/ listener.watch = 0
  BY DEF ListenerInv, ListenerTypes, ListenerCalls

LEMMA InvAcceptLoop ==
    ASSUME ListenerInv, DOMAIN thread = Users \cup {Loop}, L!AcceptLoop PROVE ListenerInv'
<1>1. /\ thread[Loop] = "lloop" /\ ~L!Suspended /\ thread' = [thread EXCEPT ![Loop] = "ltake"]
      /\ UNCHANGED <<listener, llock, lsource, owner, acc, seen, cancelling>>
  BY DEF L!AcceptLoop, L!LGoes, L!GoesOn
<1>2. listener.watch # 0
  BY <1>1 DEF ListenerInv, ListenerCalls
<1>3. seen.late = 0
  BY <1>1, <1>2, LocalsTyped
<1>4. /\ "ltake" \in LWork /\ thread[Loop] \in LWork
      /\ ("ltake" \in LLocked) = (thread[Loop] \in LLocked)
  BY <1>1 DEF LWork, LLocked
<1> QED
  BY <1>1, <1>2, <1>3, <1>4, LocalsTyped, AcceptGoesOn

LEMMA InvAcceptCalls ==
    ASSUME ListenerInv, DOMAIN thread = Users \cup {Loop}, NEW k, L!AcceptCalls(k)
    PROVE  ListenerInv'
<1> DEFINE n == IF L!Suspended THEN seen.late + 1 ELSE seen.late
<1>1. /\ thread[Loop] = "ltake" /\ thread' = [thread EXCEPT ![Loop] = "lcallback"]
      /\ UNCHANGED <<listener, llock, lsource, owner, acc, cancelling>>
  BY DEF L!AcceptCalls, L!LGoes
<1>2. seen.late = 0 /\ listener.watch # 0
  BY <1>1 DEF ListenerInv, ListenerCalls
<1>3. seen' = [seen EXCEPT !.late = n]
  BY LocalsTyped DEF L!AcceptCalls
<1>4. n \in Nat /\ n <= 1 /\ (n > 0 => L!Suspended)
  BY <1>2
<1> HIDE DEF n
<1>5. /\ seen' \in [cancelled : BOOLEAN, stopped : BOOLEAN, late : Nat]
      /\ seen'.cancelled = seen.cancelled /\ seen'.late = n
  BY <1>3, <1>4, LocalsTyped
<1>6. /\ "lcallback" \in LWork /\ thread[Loop] \in LWork
      /\ ("lcallback" \in LLocked) = (thread[Loop] \in LLocked)
  BY <1>1 DEF LWork, LLocked
<1> QED
  BY <1>1, <1>4, <1>5, <1>6, LocalsTyped, AcceptGoesOn

LEMMA InvAcceptLoopEnds ==
    ASSUME ListenerInv, DOMAIN thread = Users \cup {Loop}, L!AcceptLoopEnds PROVE ListenerInv'
<1>1. /\ thread[Loop] \in {"lloop", "ltake"} /\ thread' = [thread EXCEPT ![Loop] = "lunlock"]
      /\ UNCHANGED <<listener, llock, lsource, owner, acc, seen, cancelling>>
  BY DEF L!AcceptLoopEnds, L!LGoes
<1>2. /\ "lunlock" \in LWork /\ thread[Loop] \in LWork
      /\ ("lunlock" \in LLocked) = (thread[Loop] \in LLocked)
  BY <1>1 DEF LWork, LLocked
<1> QED
  BY <1>1, <1>2, LocalsTyped, AcceptGoesOn

LEMMA InvAcceptCallbackEnds ==
    ASSUME ListenerInv, DOMAIN thread = Users \cup {Loop}, L!AcceptCallbackEnds PROVE ListenerInv'
<1> DEFINE w == IF listener.watch = 0 THEN "lunlock" ELSE "lloop"
<1>1. /\ thread[Loop] = "lcallback" /\ thread' = [thread EXCEPT ![Loop] = w]
      /\ UNCHANGED <<listener, llock, lsource, owner, cancelling>>
  BY DEF L!AcceptCallbackEnds, L!LGoes
<1>2. PICK rc \in BOOLEAN :
         /\ acc' = [acc EXCEPT !.accepts = @ + 1, !.rc = rc /\ ~listener.accept_one]
         /\ seen' = [seen EXCEPT !.stopped = ~rc \/ listener.accept_one]
  BY DEF L!AcceptCallbackEnds
<1>3. acc' \in [watch : 0 .. MaxStarts, accepts : Int, rc : BOOLEAN] /\ acc'.watch = acc.watch
  <2> DEFINE b == rc /\ ~listener.accept_one
             n == acc.accepts + 1
  <2>1. b \in BOOLEAN /\ n \in Int /\ acc' = [acc EXCEPT !.accepts = n, !.rc = b]
    BY <1>2, LocalsTyped
  <2> HIDE DEF b, n
  <2> QED
    BY <2>1, LocalsTyped
<1>4. /\ seen' \in [cancelled : BOOLEAN, stopped : BOOLEAN, late : Nat]
      /\ seen'.cancelled = seen.cancelled /\ seen'.late = seen.late
  <2> DEFINE b == ~rc \/ listener.accept_one
  <2>1. b \in BOOLEAN /\ seen' = [seen EXCEPT !.stopped = b]
    BY <1>2
  <2> HIDE DEF b
  <2> QED
    BY <2>1, LocalsTyped
<1>5. /\ w \in LWork /\ thread[Loop] \in LWork /\ (w \in LLocked) = (thread[Loop] \in LLocked)
      /\ w # "ltake" /\ (w \in {"lloop", "ltake"} => listener.watch # 0)
  BY <1>1 DEF LWork, LLocked
<1> HIDE DEF w
<1> QED
  BY <1>1, <1>3, <1>4, <1>5, LocalsTyped, AcceptGoesOn

\* z_listener_accept with its lock: it takes a reference of its own.
LEMMA InvListenerAccept ==
    ASSUME ListenerInv, DOMAIN thread = Users \cup {Loop}, L!z_listener_accept PROVE ListenerInv'
<1>1. /\ thread[Loop] = "laccept" /\ llock = NoOne
      /\ UNCHANGED <<lsource, owner, socket, acc, seen, cancelling>>
  BY DEF L!z_listener_accept
<1>2. CASE ~L!AcceptWanted
  <2>1. thread' = [thread EXCEPT ![Loop] = "lreturn"] /\ UNCHANGED <<llock, listener>>
    BY <1>2 DEF L!z_listener_accept, L!LGoes
  <2>2. /\ "lreturn" \in LWork /\ thread[Loop] \in LWork
        /\ ("lreturn" \in LLocked) = (thread[Loop] \in LLocked)
    BY <1>1 DEF LWork, LLocked
  <2> QED
    BY <1>1, <2>1, <2>2, LocalsTyped, AcceptGoesOn
<1>3. CASE L!AcceptWanted
  <2> DEFINE c == listener.ref_cnt + 1
             h == Cardinality(HeldSources)
             k == One(Place \in LLocked)
             g == Cardinality(listener.holders)
  <2>1. /\ thread' = [thread EXCEPT ![Loop] = "lloop"] /\ llock' = Loop /\ listener.watch # 0
        /\ listener' = [listener EXCEPT !.ref_cnt = c]
    BY <1>3, ListenerFacts DEF L!z_listener_accept, L!LGoes, L!AcceptWanted, ListenerRec
  <2>2. /\ thread'[Loop] = "lloop" /\ thread'[Creator] = thread[Creator] /\ Creator # Loop
    BY <2>1, OneMoves, ConnectorAssumption
  <2>3. Place = "laccept" /\ Place' = "lloop"
    BY <1>1, <2>2 DEF Place
  <2>4. /\ listener \in ListenerRec /\ listener.state = "live" /\ c \in Int /\ listener.ref_cnt \in Int
        /\ h \in Nat /\ g \in Nat /\ Counted(listener, h, k) /\ k = 0 /\ k' = 1
    BY <2>3, ListenerFacts DEF LWork, LLocked, One, ListenerInv, ListenerRefs
  <2>5. listener.ref_cnt = g + h
    BY <2>4 DEF Counted
  <2> HIDE DEF c
  <2>6. /\ listener' \in ListenerRec /\ listener'.state = "live" /\ listener'.watch = listener.watch
        /\ listener'.holders = listener.holders /\ listener'.ref_cnt = c
    BY <2>1, <2>4 DEF ListenerRec
  <2>7. HeldSources' = HeldSources
    BY <1>1 DEF HeldSources
  <2>8. g' = g /\ h' = h
    BY <2>6, <2>7
  <2>9. Counted(listener, h, k)'
    <3> HIDE DEF g, h, k
    <3>1. c = g + h + 1 /\ c > 0
      BY <2>4, <2>5 DEF c
    <3> QED
      BY <2>4, <2>6, <2>8, <3>1 DEF Counted, g
  <2>10. ListenerTypes'
    BY <1>1, <2>6 DEF ListenerInv, ListenerTypes
  <2>11. ListenerRefs'
    <3>1. Place \in LWork /\ Place' \in LWork
      BY <2>3 DEF LWork
    <3> QED
      BY <1>1, <2>9, <3>1 DEF ListenerInv, ListenerRefs
  <2>12. ListenerCalls'
    <3>1. L!Suspended' = L!Suspended
      BY <1>1, <2>6 DEF L!Suspended
    <3>2. Place' \in LLocked
      BY <2>3 DEF LLocked
    <3> QED
      BY <1>1, <2>1, <2>2, <2>6, <3>1, <3>2 DEF ListenerInv, ListenerCalls
  <2> QED
    BY <2>10, <2>11, <2>12 DEF ListenerInv
<1> QED
  BY <1>2, <1>3

LEMMA InvAcceptUnlocks ==
    ASSUME ListenerInv, DOMAIN thread = Users \cup {Loop}, L!AcceptUnlocks PROVE ListenerInv'
<1> DEFINE h == Cardinality(HeldSources)
           k == One(Place \in LLocked)
           g == Cardinality(listener.holders)
<1>1. /\ thread[Loop] = "lunlock" /\ llock' = NoOne /\ listener' = L!ListenerUnref(listener)
      /\ thread' = [thread EXCEPT ![Loop] = "lreturn"]
      /\ UNCHANGED <<lsource, owner, socket, acc, seen, cancelling>>
  BY DEF L!AcceptUnlocks, L!LGoes
<1>2. /\ thread'[Loop] = "lreturn" /\ thread'[Creator] = thread[Creator] /\ Creator # Loop
  BY <1>1, OneMoves, ConnectorAssumption
<1>3. Place = "lunlock" /\ Place' = "lreturn"
  BY <1>1, <1>2 DEF Place
<1>4. /\ listener \in ListenerRec /\ listener.state = "live" /\ listener.ref_cnt \in Int
      /\ h \in Nat /\ g \in Nat /\ Counted(listener, h, k) /\ k = 1 /\ k' = 0
      /\ (listener.holders # {} => g # 0)
  BY <1>3, ListenerFacts, HoldersCount DEF LWork, LLocked, One, ListenerInv, ListenerRefs
<1>5. listener.ref_cnt = g + h + 0 + 1
  BY <1>4 DEF Counted
<1>6. /\ listener' \in ListenerRec /\ listener'.watch = listener.watch
      /\ listener'.holders = listener.holders /\ Counted(listener', h, 0)
  BY <1>1, <1>4, <1>5, UnrefCounted
<1>7. HeldSources' = HeldSources
  BY <1>1 DEF HeldSources
<1>8. Counted(listener, h, k)'
  BY <1>4, <1>6, <1>7 DEF Counted
<1>9. ListenerTypes'
  BY <1>1, <1>6 DEF ListenerInv, ListenerTypes
<1>10. ListenerRefs'
  <2>1. Place \in LWork /\ Place' \in LWork
    BY <1>3 DEF LWork
  <2> QED
    BY <1>1, <1>8, <2>1 DEF ListenerInv, ListenerRefs
<1>11. ListenerCalls'
  <2>1. L!Suspended' = L!Suspended
    BY <1>1, <1>6 DEF L!Suspended
  <2>2. Place' \notin LLocked
    BY <1>3 DEF LLocked
  <2> QED
    BY <1>1, <1>2, <1>6, <2>1, <2>2 DEF ListenerInv, ListenerCalls
<1> QED
  BY <1>9, <1>10, <1>11 DEF ListenerInv

LEMMA InvListenerDispatchEnds ==
    ASSUME ListenerInv, DOMAIN thread = Users \cup {Loop}, L!ListenerDispatchEnds
    PROVE  ListenerInv'
<1> DEFINE n == acc.watch
           w == IF acc.rc THEN "idle" ELSE "ldestroy"
           d == lsource[n].data - 1
           r == [lsource[n] EXCEPT !.data = d]
<1>1. /\ thread[Loop] = "lreturn" /\ listener' = L!ListenerDropData(listener, n)
      /\ thread' = [thread EXCEPT ![Loop] = w]
      /\ acc' = (IF acc.rc THEN L!NoLocals ELSE acc)
      /\ UNCHANGED <<llock, owner, socket, seen, cancelling>>
  BY DEF L!ListenerDispatchEnds, L!LGoes
<1>2. /\ thread'[Loop] = w /\ thread'[Creator] = thread[Creator] /\ Creator # Loop
  BY <1>1, OneMoves, ConnectorAssumption
<1>3. Place = "lreturn" /\ Place' = w
  BY <1>1, <1>2 DEF Place
<1>4. /\ lsource \in [Starts -> SourceRec] /\ n \in Starts /\ lsource[n].state # "none"
      /\ lsource[n] \in SourceRec
  BY <1>3 DEF ListenerInv, ListenerTypes, ListenerRefs, LWork
<1>5. lsource' = [lsource EXCEPT ![n] = r]
  BY <1>4 DEF L!ListenerDispatchEnds
<1>6. /\ lsource[n].data = One(lsource[n].state = "attached") + 1 /\ d \in Int
      /\ d = One(lsource[n].state = "attached") /\ lsource[n].data > 0
  BY <1>3, <1>4 DEF ListenerInv, ListenerRefs, One, LWork
<1>7. acc' \in [watch : 0 .. MaxStarts, accepts : Int, rc : BOOLEAN] /\ (w = "ldestroy" => acc'.watch = n)
  <2>1. CASE acc.rc
    BY <1>1, <2>1, LoopAssumption DEF L!NoLocals
  <2>2. CASE ~acc.rc
    BY <1>1, <2>2, LocalsTyped
  <2> QED
    BY <2>1, <2>2
<1> HIDE DEF d
<1>8. /\ r \in SourceRec /\ r.state = lsource[n].state /\ r.data = d
      /\ r.suspended = lsource[n].suspended
  BY <1>4, <1>6 DEF SourceRec
<1> HIDE DEF r, n
<1>9. /\ lsource' \in [Starts -> SourceRec] /\ lsource'[n] = r
      /\ \A m \in Starts \ {n} : lsource'[m] = lsource[m]
  BY <1>4, <1>5, <1>8
<1>10. /\ w \notin LWork /\ w \notin LLocked /\ "lreturn" \notin LLocked /\ "lreturn" \in LWork
       /\ w \notin {"lcancel", "lloop", "ltake"}
  BY DEF LWork, LLocked
<1> HIDE DEF w
<1>11. /\ listener' \in ListenerRec /\ listener'.watch = listener.watch
       /\ listener'.holders = listener.holders
       /\ Counted(listener, Cardinality(HeldSources), One(Place \in LLocked))'
  <2>1. lsource'[n].data = lsource[n].data - 1
    BY <1>8, <1>9 DEF d
  <2>2. (Place' \in LLocked) = (Place \in LLocked)
    BY <1>3, <1>10
  <2> QED
    BY <1>1, <1>4, <1>6, <1>9, <2>1, <2>2, SourceDropped
<1>12. ListenerTypes'
  BY <1>1, <1>7, <1>9, <1>11 DEF ListenerInv, ListenerTypes
<1>13. ListenerRefs'
  <2>1. \A m \in Starts : lsource'[m].data = One(lsource'[m].state = "attached")
                                            + One(Place' \in LWork /\ acc'.watch = m)
    <3> TAKE m \in Starts
    <3>1. CASE m = n
      BY <1>3, <1>6, <1>8, <1>9, <1>10, <3>1 DEF One
    <3>2. CASE m # n
      <4>1. lsource[m].data = One(lsource[m].state = "attached") + One(FALSE)
        BY <3>2 DEF ListenerInv, ListenerRefs, n, One
      <4> QED
        BY <1>3, <1>9, <1>10, <3>2, <4>1 DEF One
    <3> QED
      BY <3>1, <3>2
  <2>2. Place' \in LWork \cup {"ldestroy"} => acc'.watch \in Starts /\ lsource'[acc'.watch].state # "none"
    BY <1>3, <1>4, <1>7, <1>8, <1>9, <1>10
  <2> QED
    BY <1>11, <2>1, <2>2 DEF ListenerRefs
<1>14. ListenerCalls'
  <2>1. L!Suspended' = L!Suspended
    <3>1. listener.watch \in 0 .. MaxStarts /\ (listener.watch # 0 => listener.watch \in Starts)
      BY ListenerFacts DEF ListenerRec, Starts
    <3> QED
      BY <1>8, <1>9, <1>11, <3>1 DEF L!Suspended
  <2> QED
    BY <1>1, <1>2, <1>3, <1>10, <1>11, <2>1 DEF ListenerInv, ListenerCalls
<1> QED
  BY <1>12, <1>13, <1>14 DEF ListenerInv

LEMMA InvListenerLoopDestroys ==
    ASSUME ListenerInv, DOMAIN thread = Users \cup {Loop}, L!ListenerLoopDestroys
    PROVE  ListenerInv'
<1>1. /\ thread[Loop] = "ldestroy" /\ L!ListenerDestroyed(listener, acc.watch)
      /\ thread' = [thread EXCEPT ![Loop] = "idle"] /\ acc' = L!NoLocals
      /\ UNCHANGED <<llock, owner, socket, seen, cancelling>>
  BY DEF L!ListenerLoopDestroys, L!LGoes
<1>2. /\ thread'[Loop] = "idle" /\ thread'[Creator] = thread[Creator] /\ Creator # Loop
  BY <1>1, OneMoves, ConnectorAssumption
<1>3. Place = "ldestroy" /\ Place' = "idle" /\ acc.watch \in Starts
  <2>1. Place = "ldestroy" /\ Place' = "idle"
    BY <1>1, <1>2 DEF Place
  <2> QED
    BY <2>1 DEF ListenerInv, ListenerRefs
<1>4. /\ Place \notin LWork /\ Place' \notin LWork /\ Place \notin LLocked /\ Place' \notin LLocked
  BY <1>3 DEF LWork, LLocked
<1>5. /\ listener' \in ListenerRec /\ listener'.watch = listener.watch
      /\ listener'.holders = listener.holders
      /\ lsource' \in [Starts -> SourceRec]
      /\ \A m \in Starts : lsource'[m].suspended = lsource[m].suspended
      /\ ListenerRefs'
  BY <1>1, <1>3, <1>4, ListenerDestroyedKeeps
<1>6. ListenerTypes'
  <2>1. acc' \in [watch : 0 .. MaxStarts, accepts : Int, rc : BOOLEAN]
    BY <1>1, LoopAssumption DEF L!NoLocals
  <2> QED
    BY <1>1, <1>5, <2>1 DEF ListenerInv, ListenerTypes
<1>7. ListenerCalls'
  <2>1. L!Suspended' = L!Suspended
    <3>1. listener.watch \in 0 .. MaxStarts /\ (listener.watch # 0 => listener.watch \in Starts)
      BY ListenerFacts DEF ListenerRec, Starts
    <3> QED
      BY <1>5, <3>1 DEF L!Suspended
  <2> QED
    BY <1>1, <1>2, <1>4, <1>5, <2>1 DEF ListenerInv, ListenerCalls
<1> QED
  BY <1>5, <1>6, <1>7 DEF ListenerInv

LEMMA InvArrives ==
    ASSUME ListenerInv,
           UNCHANGED <<listener, llock, lsource, owner, thread, acc, seen, cancelling>>
    PROVE  ListenerInv'
<1>1. Place' = Place /\ HeldSources' = HeldSources /\ L!Suspended' = L!Suspended
  BY DEF Place, HeldSources, L!Suspended
<1>2. ListenerTypes'
  BY DEF ListenerInv, ListenerTypes
<1>3. ListenerRefs'
  BY <1>1 DEF ListenerInv, ListenerRefs, Counted
<1>4. ListenerCalls'
  BY <1>1 DEF ListenerInv, ListenerCalls
<1> QED
  BY <1>2, <1>3, <1>4 DEF ListenerInv

-----------------------------------------------------------------------------
(* The loop. *)

\* The thread stays out of A while it moves, and where it may be.
Apart(A) ==
    /\ DOMAIN thread' = Users \cup {Loop}
    /\ thread'[Loop] \in LoopPlaces
    /\ \A u \in Users : thread'[u] \in UserPlaces
    /\ \A t \in Users \cup {Loop} :
          thread'[t] = thread[t] \/ (thread[t] \notin A /\ thread'[t] \notin A)

LEMMA MovesApart ==
    ASSUME Placed, NEW A, NEW t \in Users \cup {Loop}, NEW w, thread' = [thread EXCEPT ![t] = w],
           thread[t] \notin A, w \notin A,
           t = Loop => w \in LoopPlaces, t \in Users => w \in UserPlaces
    PROVE  Apart(A)
  BY ConnectorAssumption DEF Placed, Apart

LEMMA StaysApart == ASSUME Placed, thread' = thread, NEW A PROVE Apart(A)
  BY DEF Placed, Apart

\* The connector moves threads in its own places only.
LEMMA ConnectorMoves ==
    ASSUME Placed, Application \/ Dispatch \/ Connected \/ NetworkAnswers \/ TimeoutExpires
    PROVE  Apart(ListenerPlaces \cup {"wakeup", "pipe"})
<1> DEFINE A == ListenerPlaces \cup {"wakeup", "pipe"}
<1>1. \A w \in {"idle", "destroy", "cancel", "connected", "lock", "callback", "return"} : w \notin A
  BY DEF ListenerPlaces, LWork
<1>2. {"idle", "destroy", "connected", "lock", "callback", "return"} \subseteq LoopPlaces
  BY DEF LoopPlaces, InDispatch
<1>3. "idle" \in UserPlaces /\ "cancel" \in UserPlaces
  BY DEF UserPlaces
<1> HIDE DEF A
<1>4. \/ thread' = thread
      \/ \E w \in {"idle", "destroy", "connected", "lock", "callback", "return"} :
            /\ thread' = [thread EXCEPT ![Loop] = w]
            /\ thread[Loop] \in {"idle", "destroy", "connected", "lock", "callback", "return"}
      \/ \E u \in Users, w \in {"idle", "cancel"} :
            thread' = [thread EXCEPT ![u] = w] /\ thread[u] \in {"idle", "cancel"}
  <2>1. CASE Application
    <3>1. ASSUME NEW u \in Users, z_connector_cancel(u)
          PROVE  \E w \in {"idle", "cancel"} :
                    thread' = [thread EXCEPT ![u] = w] /\ thread[u] \in {"idle", "cancel"}
      BY <3>1 DEF z_connector_cancel, Holds, Goes
    <3>2. ASSUME NEW u \in Users, CancelDestroys(u)
          PROVE  \E w \in {"idle", "cancel"} :
                    thread' = [thread EXCEPT ![u] = w] /\ thread[u] \in {"idle", "cancel"}
      BY <3>2 DEF CancelDestroys, Goes
    <3>3. ASSUME NewFails \/ z_connector_new \/ z_connector_start \/ StartFails
                   \/ z_connector_start_block \/ CallbackCancels
          PROVE  thread' = thread
      BY <3>3 DEF NewFails, z_connector_new, z_connector_start, StartFails,
                  z_connector_start_block, CallbackCancels
    <3>4. ASSUME NEW u \in Users, z_connector_unref(u) \/ CallbackUnrefs(u)
          PROVE  thread' = thread
      BY <3>4 DEF z_connector_unref, CallbackUnrefs
    <3>5. ASSUME NEW u \in Users, NEW v \in Users, z_connector_ref(u, v)
          PROVE  thread' = thread
      BY <3>5 DEF z_connector_ref
    <3> QED
      BY <2>1, <3>1, <3>2, <3>3, <3>4, <3>5 DEF Application
  <2>2. CASE Connected
    <3>1. CASE z_connector_connected
      BY <3>1 DEF z_connector_connected, Goes
    <3>2. CASE CallbackStarts
      BY <3>2 DEF CallbackStarts, Goes
    <3>3. CASE CallbackSkipped
      BY <3>3 DEF CallbackSkipped, Goes
    <3>4. CASE CallbackEnds
      BY <3>4 DEF CallbackEnds, Goes
    <3>5. CASE DispatchEnds
      BY <3>5 DEF DispatchEnds, Goes
    <3>6. CASE LoopDestroys
      BY <3>6 DEF LoopDestroys, Goes
    <3> QED
      BY <2>2, <3>1, <3>2, <3>3, <3>4, <3>5, <3>6 DEF Connected
  <2>3. CASE Dispatch
    BY <2>3 DEF Dispatch, Goes
  <2>4. CASE NetworkAnswers \/ TimeoutExpires
    BY <2>4 DEF NetworkAnswers, TimeoutExpires
  <2> QED
    BY <2>1, <2>2, <2>3, <2>4
<1>5. Apart(A)
  <2>1. CASE thread' = thread
    BY <2>1, StaysApart
  <2>2. ASSUME NEW w \in {"idle", "destroy", "connected", "lock", "callback", "return"},
               thread' = [thread EXCEPT ![Loop] = w],
               thread[Loop] \in {"idle", "destroy", "connected", "lock", "callback", "return"}
        PROVE  Apart(A)
    <3>1. w \notin A /\ thread[Loop] \notin A /\ w \in LoopPlaces /\ Loop \notin Users
      BY <1>1, <1>2, <2>2, ConnectorAssumption
    <3> QED
      BY <2>2, <3>1, MovesApart
  <2>3. ASSUME NEW u \in Users, NEW w \in {"idle", "cancel"},
               thread' = [thread EXCEPT ![u] = w], thread[u] \in {"idle", "cancel"}
        PROVE  Apart(A)
    <3>1. w \notin A /\ thread[u] \notin A /\ w \in UserPlaces /\ u # Loop
      BY <1>1, <1>3, <2>3, ConnectorAssumption
    <3> QED
      BY <2>3, <3>1, MovesApart
  <2> QED
    BY <1>4, <2>1, <2>2, <2>3
<1> QED
  BY <1>5 DEF A

\* So does the listener.
LEMMA ListenerMoves ==
    ASSUME Placed, ListenerInv,
           \/ L!Accepts \/ L!ConnectionArrives
           \/ \E t \in {Creator, Loop} : L!Operation(t)
           \/ \E n \in Starts : L!ListenerDispatch(n)
    PROVE  Apart(ConnectorPlaces \cup {"wakeup", "pipe"})
<1> DEFINE A == ConnectorPlaces \cup {"wakeup", "pipe"}
           P == {"idle"} \cup ListenerPlaces
<1>1. \A w \in P : w \notin A
  BY DEF ListenerPlaces, LWork, ConnectorPlaces, InDispatch
<1>2. P \subseteq LoopPlaces /\ {"idle", "lcancel"} \subseteq UserPlaces
      /\ {"idle", "laccept", "lloop", "ltake", "lcallback", "lunlock", "lreturn", "ldestroy",
          "lcancel"} = P
  BY DEF LoopPlaces, UserPlaces, ListenerPlaces, LWork
<1> HIDE DEF A, P
<1>3. \/ thread' = thread
      \/ \E w \in P : thread' = [thread EXCEPT ![Loop] = w] /\ thread[Loop] \in P
      \/ \E w \in {"idle", "lcancel"} :
            thread' = [thread EXCEPT ![Creator] = w] /\ thread[Creator] \in P
  <2>1. CASE L!Accepts
    <3>1. CASE L!z_listener_accept
      BY <1>2, <3>1 DEF L!z_listener_accept, L!LGoes
    <3>2. CASE L!AcceptLoop
      BY <1>2, <3>2 DEF L!AcceptLoop, L!LGoes
    <3>3. CASE L!Accept
      BY <1>2, <3>3 DEF L!Accept, L!AcceptCalls, L!LGoes
    <3>4. CASE L!AcceptFails
      BY <1>2, <3>4 DEF L!AcceptFails, L!AcceptCalls, L!LGoes
    <3>5. CASE L!AcceptLoopEnds
      BY <1>2, <3>5 DEF L!AcceptLoopEnds, L!LGoes
    <3>6. CASE L!AcceptCallbackEnds
      BY <1>2, <3>6 DEF L!AcceptCallbackEnds, L!LGoes
    <3>7. CASE L!AcceptUnlocks
      BY <1>2, <3>7 DEF L!AcceptUnlocks, L!LGoes
    <3>8. CASE L!ListenerDispatchEnds
      BY <1>2, <3>8 DEF L!ListenerDispatchEnds, L!LGoes
    <3>9. CASE L!ListenerLoopDestroys
      BY <1>2, <3>9 DEF L!ListenerLoopDestroys, L!LGoes
    <3> QED
      BY <2>1, <3>1, <3>2, <3>3, <3>4, <3>5, <3>6, <3>7, <3>8, <3>9 DEF L!Accepts
  <2>2. CASE L!ConnectionArrives
    BY <2>2 DEF L!ConnectionArrives
  <2>3. ASSUME NEW t \in {Creator, Loop}, L!Operation(t)
        PROVE  <1>3!2 \/ <1>3!3 \/ thread' = thread
    <3>1. CASE L!z_listener_cancel(t)
      BY <1>2, <3>1 DEF L!z_listener_cancel, L!Operates, L!LGoes
    <3>2. CASE L!ListenerCancelDestroys(t)
      <4>1. cancelling.back \in {"idle", "lcallback"} /\ (t = Creator => cancelling.back = "idle")
        BY <3>2 DEF L!ListenerCancelDestroys, ListenerInv, ListenerTypes, ListenerCalls
      <4>2. thread[t] = "lcancel" /\ thread' = [thread EXCEPT ![t] = cancelling.back]
        BY <3>2 DEF L!ListenerCancelDestroys, L!LGoes
      <4> QED
        BY <1>2, <4>1, <4>2
    <3>3. CASE L!z_listener_start(t) \/ L!z_listener_open(t) \/ L!z_listener_unref(t)
      BY <3>3 DEF L!z_listener_start, L!z_listener_open, L!z_listener_unref
    <3>4. CASE L!z_listener_suspend(t) \/ L!z_listener_resume(t)
      BY <3>4 DEF L!z_listener_suspend, L!z_listener_resume, L!SetSuspended
    <3>5. CASE \E v \in {Creator} \cup {Loop} : L!z_listener_ref(t, v)
      BY <3>5 DEF L!z_listener_ref
    <3> QED
      BY <2>3, <3>1, <3>2, <3>3, <3>4, <3>5 DEF L!Operation
  <2>4. ASSUME NEW n \in Starts, L!ListenerDispatch(n) PROVE <1>3!2
    BY <1>2, <2>4 DEF L!ListenerDispatch, L!LGoes
  <2> QED
    BY <2>1, <2>2, <2>3, <2>4
<1>4. Apart(A)
  <2>1. CASE thread' = thread
    BY <2>1, StaysApart
  <2>2. ASSUME NEW w \in P, thread' = [thread EXCEPT ![Loop] = w], thread[Loop] \in P
        PROVE  Apart(A)
    <3>1. w \notin A /\ thread[Loop] \notin A /\ w \in LoopPlaces /\ Loop \notin Users
      BY <1>1, <1>2, <2>2, ConnectorAssumption
    <3> QED
      BY <2>2, <3>1, MovesApart
  <2>3. ASSUME NEW w \in {"idle", "lcancel"}, thread' = [thread EXCEPT ![Creator] = w],
               thread[Creator] \in P
        PROVE  Apart(A)
    <3>1. w \notin A /\ thread[Creator] \notin A /\ w \in UserPlaces /\ Creator # Loop /\ Creator \in Users
      BY <1>1, <1>2, <2>3, ConnectorAssumption
    <3> QED
      BY <2>3, <3>1, MovesApart
  <2> QED
    BY <1>3, <2>1, <2>2, <2>3
<1> QED
  BY <1>4 DEF A

\* Nobody gets into a call on the poll.
LEMMA PollKept ==
    ASSUME Placed, PollInv, NEW A, Apart(A), {"wakeup", "pipe"} \subseteq A,
           DOMAIN poll' = DOMAIN poll, poll'.state = poll.state
    PROVE  Placed' /\ PollInv'
<1>1. Placed'
  BY DEF Placed, Apart
<1>2. PollInv'
  BY DEF PollInv, Apart
<1> QED
  BY <1>1, <1>2

LEMMA PipeWritten ==
    ASSUME PollInv, NEW b, Attaches(b)
    PROVE  DOMAIN poll' = DOMAIN poll /\ poll'.state = poll.state
  BY DEF PollInv, Attaches

\* A step of the connector.
LEMMA LoopConnector ==
    ASSUME LoopInv, Application \/ Dispatch \/ Connected \/ NetworkAnswers \/ TimeoutExpires,
           UNCHANGED lvars, DOMAIN poll' = DOMAIN poll, poll'.state = poll.state
    PROVE  LoopInv'
<1> DEFINE A == ListenerPlaces \cup {"wakeup", "pipe"}
<1>1. ConnectorInv /\ ListenerInv /\ Placed /\ PollInv
  BY DEF LoopInv
<1>2. Apart(A)
  BY <1>1, ConnectorMoves
<1>3. ConnectorInv'
  BY <1>1, ConnectorStep
<1>4. \A t \in {Creator, Loop} : thread'[t] = thread[t]
              \/ (thread[t] \notin ListenerPlaces /\ thread'[t] \notin ListenerPlaces)
  BY <1>2, ConnectorAssumption DEF Apart
<1>5. ListenerInv'
  BY <1>1, <1>4, ListenerKept
<1>6. {"wakeup", "pipe"} \subseteq A
  OBVIOUS
<1> HIDE DEF A
<1>7. Placed' /\ PollInv'
  BY <1>1, <1>2, <1>6, PollKept
<1> QED
  BY <1>3, <1>5, <1>7 DEF LoopInv

\* A step of the listener.
LEMMA LoopListener ==
    ASSUME LoopInv,
           \/ L!Accepts \/ L!ConnectionArrives
           \/ \E t \in {Creator, Loop} : L!Operation(t)
           \/ \E n \in Starts : L!ListenerDispatch(n),
           UNCHANGED cvars, DOMAIN poll' = DOMAIN poll, poll'.state = poll.state
    PROVE  LoopInv'
<1> DEFINE A == ConnectorPlaces \cup {"wakeup", "pipe"}
<1>1. ConnectorInv /\ ListenerInv /\ Placed /\ PollInv /\ DOMAIN thread = Users \cup {Loop}
  BY DEF LoopInv, Placed
<1>2. Apart(A)
  BY <1>1, ListenerMoves
<1>3. ListenerInv'
  <2>1. CASE L!Accepts
    BY <1>1, <2>1, InvListenerAccept, InvAcceptLoop, InvAcceptCalls, InvAcceptLoopEnds,
       InvAcceptCallbackEnds, InvAcceptUnlocks, InvListenerDispatchEnds, InvListenerLoopDestroys
       DEF L!Accepts, L!Accept, L!AcceptFails
  <2>2. CASE L!ConnectionArrives
    <3>1. UNCHANGED <<listener, llock, lsource, owner, thread, acc, seen, cancelling>>
      BY <2>2 DEF L!ConnectionArrives
    <3> QED
      BY <1>1, <3>1, InvArrives
  <2>3. ASSUME NEW t \in {Creator, Loop}, L!Operation(t) PROVE ListenerInv'
    <3>1. {Creator} \cup {Loop} = {Creator, Loop}
      OBVIOUS
    <3>2. CASE L!z_listener_suspend(t) \/ L!z_listener_resume(t)
      <4>1. \E b \in BOOLEAN : L!SetSuspended(t, b)
        BY <3>2 DEF L!z_listener_suspend, L!z_listener_resume
      <4> QED
        BY <1>1, <4>1, InvSetSuspended
    <3>3. CASE \E v \in {Creator} \cup {Loop} : L!z_listener_ref(t, v)
      BY <1>1, <3>1, <3>3, InvListenerRef
    <3> QED
      BY <1>1, <2>3, <3>2, <3>3, InvListenerStart, InvListenerOpen, InvListenerCancel,
         InvListenerCancelDestroys, InvListenerUnref DEF L!Operation
  <2>4. ASSUME NEW n \in Starts, L!ListenerDispatch(n) PROVE ListenerInv'
    BY <1>1, <2>4, InvListenerDispatch
  <2> QED
    BY <2>1, <2>2, <2>3, <2>4
<1>4. \A t \in Users \cup {Loop} : thread'[t] = thread[t]
              \/ (thread[t] \notin ConnectorPlaces /\ thread'[t] \notin ConnectorPlaces)
  BY <1>2 DEF Apart
<1>5. ConnectorInv'
  BY <1>1, <1>2, <1>4, ConnectorKept DEF Apart
<1>6. {"wakeup", "pipe"} \subseteq A
  OBVIOUS
<1> HIDE DEF A
<1>7. Placed' /\ PollInv'
  BY <1>1, <1>2, <1>6, PollKept
<1> QED
  BY <1>3, <1>5, <1>7 DEF LoopInv

\* A step that leaves both alone.
LEMMA LoopAlone ==
    ASSUME LoopInv, UNCHANGED <<cvars, lvars>>, Apart(ConnectorPlaces \cup ListenerPlaces), PollInv'
    PROVE  LoopInv'
<1>1. ConnectorInv'
  <2>1. \A t \in Users \cup {Loop} : thread'[t] = thread[t]
              \/ (thread[t] \notin ConnectorPlaces /\ thread'[t] \notin ConnectorPlaces)
    BY DEF Apart
  <2> QED
    BY <2>1, ConnectorKept DEF LoopInv, Apart
<1>2. ListenerInv'
  <2>1. \A t \in {Creator, Loop} : thread'[t] = thread[t]
              \/ (thread[t] \notin ListenerPlaces /\ thread'[t] \notin ListenerPlaces)
    BY ConnectorAssumption DEF Apart
  <2> QED
    BY <2>1, ListenerKept DEF LoopInv
<1>3. Placed'
  BY DEF Placed, Apart
<1> QED
  BY <1>1, <1>2, <1>3 DEF LoopInv

\* z_poll_quit, z_poll_wakeup and g_main_context_wakeup in one of the threads.
LEMMA LoopWakes ==
    ASSUME LoopInv, NEW u \in Users, z_poll_quit(u) \/ z_poll_wakeup(u) \/ WakeupPipe(u)
    PROVE  LoopInv'
<1>1. Placed /\ PollInv
  BY DEF LoopInv
<1>2. PICK w \in {"idle", "wakeup", "pipe"} :
         thread' = [thread EXCEPT ![u] = w] /\ thread[u] \in {"idle", "wakeup", "pipe"}
  BY DEF z_poll_quit, z_poll_wakeup, WakeupPipe, Goes
<1>3. UNCHANGED <<cvars, lvars>>
  BY DEF z_poll_quit, z_poll_wakeup, WakeupPipe
<1>4. /\ DOMAIN poll' = {"state", "quit", "wakeup", "pipe"} /\ poll'.state = poll.state
      /\ poll.state = "live"
  <2>1. DOMAIN poll = {"state", "quit", "wakeup", "pipe"}
    BY <1>1 DEF PollInv
  <2>2. CASE z_poll_quit(u)
    BY <2>1, <2>2 DEF z_poll_quit
  <2>3. CASE z_poll_wakeup(u)
    BY <2>1, <2>3 DEF z_poll_wakeup
  <2>4. CASE WakeupPipe(u)
    BY <1>1, <2>1, <2>4 DEF WakeupPipe, PollInv
  <2> QED
    BY <2>2, <2>3, <2>4
<1>5. PollInv'
  BY <1>4 DEF PollInv
<1>6. \A x \in {"idle", "wakeup", "pipe"} : x \notin ConnectorPlaces \cup ListenerPlaces /\ x \in UserPlaces
  BY DEF ConnectorPlaces, ListenerPlaces, InDispatch, LWork, UserPlaces
<1>7. Apart(ConnectorPlaces \cup ListenerPlaces)
  <2>1. u # Loop
    BY ConnectorAssumption
  <2> QED
    BY <1>1, <1>2, <1>6, <2>1, MovesApart
<1> QED
  BY <1>3, <1>5, <1>7, LoopAlone

\* A step of z_poll_iter_timeout outside of the callbacks, and z_poll_unref.
LEMMA LoopIterates ==
    ASSUME LoopInv, Iteration PROVE LoopInv'
<1>1. Placed /\ PollInv /\ DOMAIN poll = {"state", "quit", "wakeup", "pipe"}
  BY DEF LoopInv, PollInv
<1>2. ASSUME UNCHANGED <<cvars, lvars, thread>>, DOMAIN poll' = DOMAIN poll,
             poll'.state = poll.state \/ \A u \in Users : thread[u] \notin {"wakeup", "pipe"}
      PROVE  LoopInv'
  <2>1. Apart(ConnectorPlaces \cup ListenerPlaces)
    BY <1>1, <1>2, StaysApart
  <2>2. PollInv'
    BY <1>1, <1>2 DEF PollInv
  <2> QED
    BY <1>2, <2>1, <2>2, LoopAlone
<1>3. CASE IterQuits \/ IterPrepares \/ IterEnds
  BY <1>2, <1>3 DEF IterQuits, IterPrepares, IterEnds
<1>4. CASE IterChecks \/ DispatchWakeup
  <2>1. DOMAIN poll' = DOMAIN poll /\ poll'.state = poll.state
    BY <1>1, <1>4 DEF IterChecks, DispatchWakeup
  <2> QED
    BY <1>2, <1>4, <2>1 DEF IterChecks, DispatchWakeup
<1>5. CASE z_poll_unref
  <2>1. DOMAIN poll' = DOMAIN poll
    BY <1>1, <1>5 DEF z_poll_unref
  <2> QED
    BY <1>2, <1>5, <2>1 DEF z_poll_unref
<1>6. CASE DispatchConnector
  <2>1. UNCHANGED <<lvars, poll>>
    BY <1>6 DEF DispatchConnector
  <2>2. CASE Dispatch
    BY <2>1, <2>2, LoopConnector
  <2>3. CASE UNCHANGED vars
    BY <1>2, <2>1, <2>3 DEF vars, cvars
  <2> QED
    BY <1>6, <2>2, <2>3 DEF DispatchConnector
<1>7. ASSUME NEW n \in 1 .. MaxStarts, DispatchListener(n) PROVE LoopInv'
  <2>1. UNCHANGED <<cvars, poll>> /\ n \in Starts
    BY <1>7 DEF DispatchListener, Starts
  <2>2. CASE L!ListenerDispatch(n)
    BY <2>1, <2>2, LoopListener
  <2>3. CASE UNCHANGED <<lvars, thread>>
    BY <1>2, <2>1, <2>3
  <2> QED
    BY <1>7, <2>2, <2>3 DEF DispatchListener
<1> QED
  BY <1>3, <1>4, <1>5, <1>6, <1>7 DEF Iteration

LEMMA LoopInvNext ==
    ASSUME LoopInv, [ENext]_allvars PROVE LoopInv'
<1>1. Placed /\ PollInv
  BY DEF LoopInv
<1>2. CASE UNCHANGED allvars
  <2>1. UNCHANGED <<cvars, lvars, thread, poll>>
    BY <1>2 DEF allvars, vars, cvars, pvars
  <2>2. PollInv'
    BY <1>1, <2>1 DEF PollInv
  <2> QED
    BY <1>1, <2>1, <2>2, StaysApart, LoopAlone
<1>3. CASE Callbacks
  <2>1. UNCHANGED poll
    BY <1>3 DEF Callbacks, pvars
  <2>2. CASE Connected /\ UNCHANGED lvars
    BY <2>1, <2>2, LoopConnector
  <2>3. CASE L!Accepts /\ UNCHANGED cvars
    BY <2>1, <2>3, LoopListener
  <2>4. CASE L!ListenerCancelDestroys(Loop) /\ UNCHANGED cvars
    <3>1. L!Operation(Loop)
      BY <2>4 DEF L!Operation
    <3> QED
      BY <2>1, <2>4, <3>1, LoopListener
  <2> QED
    BY <1>3, <2>2, <2>3, <2>4 DEF Callbacks
<1>4. CASE Applications
  <2>1. ASSUME Application, UNCHANGED lvars, NEW b, Attaches(b) PROVE LoopInv'
    BY <1>1, <2>1, PipeWritten, LoopConnector
  <2>2. ASSUME NEW t \in {Creator, Loop}, L!Operation(t), UNCHANGED cvars, NEW b, Attaches(b)
        PROVE  LoopInv'
    BY <1>1, <2>2, PipeWritten, LoopListener
  <2> QED
    BY <1>4, <2>1, <2>2, LoopWakes DEF Applications
<1>5. CASE Environment
  <2>1. UNCHANGED poll
    BY <1>5 DEF Environment, pvars
  <2>2. CASE (NetworkAnswers \/ TimeoutExpires) /\ UNCHANGED lvars
    BY <2>1, <2>2, LoopConnector
  <2>3. CASE L!ConnectionArrives /\ UNCHANGED cvars
    BY <2>1, <2>3, LoopListener
  <2> QED
    BY <1>5, <2>2, <2>3 DEF Environment
<1> QED
  BY <1>2, <1>3, <1>4, <1>5, LoopIterates DEF ENext

LEMMA LoopInvInit == ASSUME EInit PROVE LoopInv
<1>1. Placed
  BY ConnectorAssumption DEF EInit, Init, Placed, LoopPlaces, UserPlaces
<1>2. PollInv
  BY DEF EInit, PollInv
<1> QED
  BY <1>1, <1>2, ConnectorInit, ListenerInit DEF LoopInv

\* The invariant of the loop, the connector and the listener.
THEOREM LoopSound == ESpec => []LoopInv
<1>1. EInit => LoopInv
  BY LoopInvInit
<1>2. LoopInv /\ [ENext]_allvars => LoopInv'
  BY LoopInvNext
<1> QED
  BY <1>1, <1>2, PTL DEF ESpec

-----------------------------------------------------------------------------
(* The theorems. *)

\* However an attempt to connect ends - answered, timed out, cancelled by
\* another thread or by its own callback - z_connector_connected and
\* z_connector_free close the socket at most once and never one that has become
\* a stream, and a connector that has been freed leaves no open socket behind.
THEOREM SocketsSettled == ESpec => []SocketSettled
<1>1. LoopInv => SocketSettled
  <2> SUFFICES ASSUME LoopInv PROVE SocketSettled
    OBVIOUS
  <2>1. self.state \in {"none", "failed", "live", "freed"}
    BY DEF LoopInv, ConnectorInv, ConnectorTypes, SelfRec
  <2> QED
    BY <2>1 DEF LoopInv, ConnectorInv, ConnectorRefs, ConnectorSocket, SocketSettled
<1> QED
  BY <1>1, LoopSound, PTL

\* No thread is inside of a call on a connector, a listener or a poll that has
\* been freed: the reference counts of connect.c, listen.c and poll.c cover
\* the dispatch, the callback and every call under way.
THEOREM ObjectsOutlive == ESpec => []ObjectsLive
<1>1. LoopInv => ObjectsLive
  <2> SUFFICES ASSUME LoopInv PROVE ObjectsLive
    OBVIOUS
  <2>1. NoUseAfterFree
    <3>1. ASSUME NEW t \in DOMAIN thread,
                 thread[t] \in {"cancel", "connected", "lock", "callback", "return"}
          PROVE  self.state = "live"
      <4>1. CASE t = Loop
        <5>1. thread[Loop] \in InDispatch
          BY <3>1, <4>1 DEF LoopInv, Placed, LoopPlaces, ListenerPlaces, LWork, InDispatch
        <5>2. source.data > 0
          BY <5>1 DEF LoopInv, ConnectorInv, ConnectorRefs, One
        <5> QED
          BY <5>2, HeldLives DEF LoopInv
      <4>2. CASE t \in Users
        <5>1. thread[t] = "cancel"
          BY <3>1, <4>2 DEF LoopInv, Placed, UserPlaces
        <5>2. t \in self.holders
          BY <4>2, <5>1 DEF LoopInv, ConnectorInv, ConnectorRefs
        <5> QED
          BY <5>2, HeldLives DEF LoopInv
      <4> QED
        BY <3>1, <4>1, <4>2 DEF LoopInv, Placed
    <3>2. thread[Loop] = "callback" => self.user_data
      BY DEF LoopInv, ConnectorInv, ConnectorRefs, One, InDispatch
    <3> QED
      BY <3>1, <3>2 DEF NoUseAfterFree
  <2>2. L!ListenerLive
    <3>1. ASSUME NEW t \in {Creator} \cup {Loop}, thread[t] = "lcancel" PROVE listener.state = "live"
      <4>1. t \in listener.holders
        BY <3>1 DEF LoopInv, ListenerInv, ListenerCalls
      <4> QED
        BY <4>1, ListenerFacts DEF LoopInv
    <3>2. ASSUME thread[Loop] \in {"laccept", "lloop", "ltake", "lcallback", "lunlock", "lreturn"}
          PROVE  listener.state = "live"
      <4>1. Place \in LWork
        BY <3>2 DEF Place, LWork
      <4> QED
        BY <4>1, ListenerFacts DEF LoopInv
    <3>3. listener.state = "freed" => listener.fd # "open"
      BY DEF LoopInv, ListenerInv, ListenerRefs, Counted
    <3> QED
      BY <3>1, <3>2, <3>3 DEF L!ListenerLive
  <2>3. (\E u \in Users : thread[u] \in {"wakeup", "pipe"}) => poll.state = "live"
    BY DEF LoopInv, PollInv
  <2> QED
    BY <2>1, <2>2, <2>3 DEF ObjectsLive
<1> QED
  BY <1>1, LoopSound, PTL

\* The callback of the connector is called by CallbackStarts only.
LEMMA CallsOnce ==
    ASSUME LoopInv, [ENext]_allvars, calls' # calls PROVE CallbackStarts
<1>1. CASE Application \/ Dispatch \/ NetworkAnswers \/ TimeoutExpires
  BY <1>1 DEF Application, Dispatch, NetworkAnswers, TimeoutExpires, NewFails, z_connector_new,
     z_connector_start, StartFails, z_connector_start_block, z_connector_ref, z_connector_unref,
     z_connector_cancel, CancelDestroys, CallbackUnrefs, CallbackCancels
<1>2. CASE Connected
  BY <1>2 DEF Connected, z_connector_connected, CallbackSkipped, CallbackEnds, DispatchEnds,
     LoopDestroys
<1>3. CASE UNCHANGED cvars
  BY <1>3 DEF cvars
<1>4. CASE UNCHANGED vars
  BY <1>4 DEF vars
<1>5. CASE Callbacks
  BY <1>2, <1>3, <1>5 DEF Callbacks
<1>6. CASE Iteration
  BY <1>1, <1>3, <1>4, <1>6 DEF Iteration, IterQuits, IterPrepares, IterChecks, DispatchWakeup,
     DispatchConnector, DispatchListener, IterEnds, z_poll_unref
<1>7. CASE Applications
  BY <1>1, <1>3, <1>7 DEF Applications, z_poll_quit, z_poll_wakeup, WakeupPipe
<1>8. CASE Environment
  BY <1>1, <1>3, <1>8 DEF Environment
<1>9. CASE UNCHANGED allvars
  BY <1>4, <1>9 DEF allvars
<1> QED
  BY <1>5, <1>6, <1>7, <1>8, <1>9 DEF ENext

\* z_connector_connected calls the application back once, and not after a
\* z_connector_cancel has returned; z_listener_accept does not after
\* z_listener_cancel has, and calls it at most once after z_listener_suspend.
THEOREM CallbacksWanted == ESpec => CallbackWanted
<1> DEFINE P == /\ calls' # calls => ~cancelled /\ calls = 0
                /\ L!NoAcceptAfterCancel
                /\ L!SuspendHolds'
<1>1. LoopInv /\ LoopInv' /\ [ENext]_allvars => [P]_allvars
  <2> SUFFICES ASSUME LoopInv, LoopInv', [ENext]_allvars PROVE P
    OBVIOUS
  <2>1. ASSUME calls' # calls PROVE ~cancelled /\ calls = 0
    <3>1. CallbackStarts
      BY <2>1, CallsOnce
    <3>2. thread[Loop] = "lock" /\ self.watch
      BY <3>1 DEF CallbackStarts, Wanted
    <3>3. self.callback
      BY <3>2 DEF LoopInv, ConnectorInv, ConnectorSocket
    <3>4. calls \in Nat
      BY DEF LoopInv, ConnectorInv, ConnectorTypes
    <3> QED
      BY <3>2, <3>3, <3>4 DEF LoopInv, ConnectorInv, ConnectorCalls
  <2>2. L!NoAcceptAfterCancel
    BY DEF L!NoAcceptAfterCancel, LoopInv, ListenerInv, ListenerCalls
  <2>3. L!SuspendHolds'
    BY DEF L!SuspendHolds, LoopInv, ListenerInv, ListenerCalls
  <2> QED
    BY <2>1, <2>2, <2>3
<1> QED
  BY <1>1, LoopSound, PTL DEF ESpec, CallbackWanted
=============================================================================
