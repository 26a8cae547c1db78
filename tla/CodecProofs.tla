---------------------------- MODULE CodecProofs -----------------------------
(***************************************************************************)
(* Theorems about the base64 coders (Codec): however the input, the result    *)
(* and what is on its way are cut into pieces, what comes out of the decoder  *)
(* is a beginning of what went into the encoder, for any inputs, sizes,       *)
(* lengths of lines and characters in between.                               *)
(*                                                                           *)
(* The decoder is followed along the characters that the encoder has written  *)
(* and nobody has decoded yet: after them it would have the bytes that were   *)
(* given, but for the bits that the encoder still holds (InStep).             *)
(***************************************************************************)
EXTENDS Codec, SequenceTheorems, WellFoundedInduction, TLAPS

-----------------------------------------------------------------------------
(* Bits. *)

\* Bytes that have no bit in common are added.
LEMMA OrFour == \A i \in 0 .. 63 : \A y \in 0 .. 3 : BitOr(4 * i, y) = 4 * i + y
  BY DEF BitOr

LEMMA OrSixteen == \A i \in 0 .. 15 : \A y \in 0 .. 15 : BitOr(16 * i, y) = 16 * i + y
  BY DEF BitOr

LEMMA OrSixtyFour == \A i \in 0 .. 3 : \A y \in 0 .. 63 : BitOr(64 * i, y) = 64 * i + y
  BY DEF BitOr

LEMMA OrType == \A x \in Int : \A y \in Int : BitOr(x, y) \in Int
  BY DEF BitOr

\* Every character of the alphabet has the value it was made for.
LEMMA CharValue ==
    ASSUME NEW v \in Nat
    PROVE  Char(v) \in Int /\ Value(Char(v)) = v % 64
<1>1. PICK w \in 0 .. 63 : w = v % 64
  OBVIOUS
<1> QED
  BY <1>1 DEF Char, Value

LEMMA OtherValues ==
    /\ Value(CR) = -1 /\ Value(LF) = -1 /\ Value(EQ) = -2
    /\ \A c \in Int : Value(c) \in -3 .. 63
  BY DEF Value, CR, LF, EQ

-----------------------------------------------------------------------------
(* Sequences. *)

\* A set of numbers has a first one.
LEMMA FirstOf ==
    ASSUME NEW S \in SUBSET Nat, S # {}
    PROVE  \E x \in S : \A y \in S : x <= y
<1> DEFINE R == {p \in Nat \X Nat : p[1] < p[2]}
<1>1. IsWellFoundedOn(R, Nat)
  BY NatLessThanWellFounded, Zenon DEF OpToRel
<1>2. \A y, x \in Nat : y < x => <<y, x>> \in R
  OBVIOUS
<1> HIDE DEF R
<1>3. PICK x \in S : \A y \in S : ~ (<<y, x>> \in R)
  BY <1>1, WFMin
<1>4. \A y \in S : ~ (y < x)
  BY <1>2, <1>3, Zenon
<1>5. \A y \in S : x <= y
  BY <1>4
<1> QED
  BY <1>5

\* One text begins another.
Begins(s, t) == Len(s) <= Len(t) /\ \A i \in 1 .. Len(s) : s[i] = t[i]

LEMMA BeginsPrefix ==
    ASSUME NEW s \in Seq(Int), NEW t \in Seq(Int), Begins(s, t)
    PROVE  IsPrefix(s, t)
<1>1. SubSeq(s, 1, Len(s)) = s
  OBVIOUS
<1>2. SubSeq(t, 1, Len(s)) = s
  BY DEF Begins
<1> QED
  BY <1>1, <1>2 DEF IsPrefix, Begins

LEMMA BeginsTrans ==
    ASSUME NEW s \in Seq(Int), NEW t \in Seq(Int), NEW u \in Seq(Int), Begins(s, t), Begins(t, u)
    PROVE  Begins(s, u)
  BY DEF Begins

-----------------------------------------------------------------------------
(* One character in the decoder. *)

\* The decoders that have room as V says, and whether a call has failed.
Decoders(V) ==
    [buf : Seq(Int), part : Int, buf_len : V, phase : 0 .. 4, errors : Int, tolerant : BOOLEAN]

Readers(V) == [code : Decoders(V), failed : BOOLEAN]

\* A decoder with one more byte, or another part of a byte.
Moved(d, x, p, h) ==
    {[d EXCEPT !.part = p, !.phase = h], [d EXCEPT !.buf = Append(@, x), !.part = p, !.phase = h],
     [d EXCEPT !.buf = Append(@, x), !.phase = h]}

LEMMA DecoderMoves ==
    ASSUME NEW V, NEW d \in Decoders(V), NEW x \in Int, NEW p \in Int, NEW h \in 0 .. 4
    PROVE  /\ Begins(d.buf, d.buf)
           /\ \A q \in Moved(d, x, p, h) :
                  /\ q \in Decoders(V)
                  /\ q.tolerant = d.tolerant
                  /\ Begins(d.buf, q.buf)
<1>1. /\ d.buf \in Seq(Int) /\ Append(d.buf, x) \in Seq(Int)
      /\ Begins(d.buf, d.buf) /\ Begins(d.buf, Append(d.buf, x))
  BY DEF Begins, Decoders
<1>2. PICK y : y = Append(d.buf, x)
  OBVIOUS
<1>3. y \in Seq(Int) /\ Begins(d.buf, y)
  BY <1>1, <1>2
<1>4. \A q \in {[d EXCEPT !.part = p, !.phase = h], [d EXCEPT !.buf = y, !.part = p, !.phase = h],
                 [d EXCEPT !.buf = y, !.phase = h]} :
          q \in Decoders(V) /\ q.tolerant = d.tolerant /\ q.buf \in {d.buf, y}
  BY <1>3 DEF Decoders
<1> QED
  BY <1>1, <1>2, <1>3, <1>4 DEF Moved

LEMMA BitsType ==
    ASSUME NEW V, NEW d \in Decoders(V), NEW v \in 0 .. 63, d.phase # 4
    PROVE  /\ Bits(d, v) \in Decoders(V)
           /\ Bits(d, v).tolerant = d.tolerant
           /\ Begins(d.buf, Bits(d, v).buf)
<1>1. /\ d.part \in Int
      /\ d.phase = 0 \/ d.phase = 1 \/ d.phase = 2 \/ d.phase = 3
  BY DEF Decoders
<1>2. /\ (v * 4) % 256 \in Int /\ (v * 16) % 256 \in Int /\ (v * 64) % 256 \in Int
      /\ v \in Int /\ v \div 16 \in Int /\ v \div 4 \in Int
  OBVIOUS
<1>3. /\ BitOr(d.part, v \div 16) \in Int /\ BitOr(d.part, v \div 4) \in Int /\ BitOr(d.part, v) \in Int
  BY <1>1, <1>2, OrType
<1>4. Bits(d, v) \in UNION {Moved(d, 0, (v * 4) % 256, 1),
                              Moved(d, BitOr(d.part, v \div 16), (v * 16) % 256, 2),
                              Moved(d, BitOr(d.part, v \div 4), (v * 64) % 256, 3),
                              Moved(d, BitOr(d.part, v), 0, 0)}
  BY <1>1 DEF Bits, Moved
<1>5. PICK y1 \in Int, y2 \in Int, y3 \in Int, p0 \in Int, p1 \in Int, p2 \in Int :
          /\ y1 = BitOr(d.part, v \div 16) /\ y2 = BitOr(d.part, v \div 4) /\ y3 = BitOr(d.part, v)
          /\ p0 = (v * 4) % 256 /\ p1 = (v * 16) % 256 /\ p2 = (v * 64) % 256
  BY <1>2, <1>3
<1>6. \E x \in Int, p \in Int, h \in 0 .. 4 : Bits(d, v) \in Moved(d, x, p, h)
  BY <1>4, <1>5
<1> QED
  BY <1>6, DecoderMoves

\* What a character may do to a reader.
Advances(r, q, V) ==
    /\ q \in Readers(V)
    /\ q.code.tolerant = r.code.tolerant
    /\ Begins(r.code.buf, q.code.buf)
    /\ r.failed => q = r

LEMMA CharAdvances ==
    ASSUME NEW V, NEW r \in Readers(V), NEW c \in Int
    PROVE  Advances(r, DecodeChar(r, c), V)
<1> DEFINE d == r.code
           v == Value(c)
           fails == [code |-> [d EXCEPT !.errors = @ + 1], failed |-> TRUE]
<1>1. d \in Decoders(V) /\ d.buf \in Seq(Int) /\ d.phase \in 0 .. 4 /\ r.failed \in BOOLEAN
  BY DEF Readers, Decoders
<1>2. v \in -3 .. 63
  BY OtherValues
<1>3. Advances(r, r, V)
  BY <1>1 DEF Advances, Begins
<1>4. \A x \in Decoders(V), f \in BOOLEAN :
          ~r.failed /\ x.tolerant = d.tolerant /\ Begins(d.buf, x.buf)
              => Advances(r, [code |-> x, failed |-> f], V)
  BY DEF Advances, Readers
<1>5. Begins(d.buf, d.buf)
  BY <1>1 DEF Begins
<1>6. ~r.failed => Advances(r, fails, V)
  <2>1. /\ [d EXCEPT !.errors = @ + 1] \in Decoders(V)
        /\ [d EXCEPT !.errors = @ + 1].tolerant = d.tolerant
        /\ [d EXCEPT !.errors = @ + 1].buf = d.buf
    BY <1>1 DEF Decoders
  <2> QED
    BY <1>4, <1>5, <2>1
<1>7. \A p \in 0 .. 4 : /\ [d EXCEPT !.phase = p] \in Decoders(V)
                        /\ [d EXCEPT !.phase = p].tolerant = d.tolerant
                        /\ [d EXCEPT !.phase = p].buf = d.buf
                        /\ [d EXCEPT !.phase = p].phase = p
  BY <1>1 DEF Decoders
<1>8. \A p \in 0 .. 4 : ~r.failed => Advances(r, [code |-> [d EXCEPT !.phase = p], failed |-> FALSE], V)
  BY <1>4, <1>5, <1>7
<1>9. CASE r.failed \/ v = -1
  BY <1>3, <1>9 DEF DecodeChar
<1>10. CASE ~r.failed /\ v = -2
  <2>2. CASE d.phase \in {0, 1}
    <3>1. DecodeChar(r, c) = IF d.tolerant THEN r ELSE fails
      BY <1>10, <2>2 DEF DecodeChar
    <3> QED
      BY <1>3, <1>6, <1>10, <3>1
  <2>3. CASE d.phase = 2
    <3>1. DecodeChar(r, c) = [code |-> [d EXCEPT !.phase = 4], failed |-> FALSE]
      BY <1>10, <2>3 DEF DecodeChar
    <3> QED
      BY <1>8, <1>10, <3>1
  <2>4. CASE d.phase \in {3, 4}
    <3>1. DecodeChar(r, c) = [code |-> [d EXCEPT !.phase = 0], failed |-> FALSE]
      BY <1>10, <2>4 DEF DecodeChar
    <3> QED
      BY <1>8, <1>10, <3>1
  <2> QED
    BY <1>1, <2>2, <2>3, <2>4
<1>11. CASE ~r.failed /\ v = -3
  <2>1. DecodeChar(r, c) = IF d.tolerant THEN r ELSE fails
    BY <1>11 DEF DecodeChar
  <2> QED
    BY <1>3, <1>6, <1>11, <2>1
<1>12. CASE ~r.failed /\ v \in 0 .. 63
  <2>1. DecodeChar(r, c) =
            IF d.phase = 4
            THEN IF d.tolerant THEN [code |-> Bits([d EXCEPT !.phase = 0], v), failed |-> FALSE]
                 ELSE fails
            ELSE [code |-> Bits(d, v), failed |-> FALSE]
    BY <1>12 DEF DecodeChar
  <2>2. /\ Bits([d EXCEPT !.phase = 0], v) \in Decoders(V)
        /\ Bits([d EXCEPT !.phase = 0], v).tolerant = d.tolerant
        /\ Begins(d.buf, Bits([d EXCEPT !.phase = 0], v).buf)
    <3>0. 0 \in 0 .. 4
      OBVIOUS
    <3>1. PICK x : x = [d EXCEPT !.phase = 0]
      OBVIOUS
    <3>2. x \in Decoders(V) /\ x.phase # 4 /\ x.buf = d.buf /\ x.tolerant = d.tolerant
      BY <1>7, <3>0, <3>1
    <3>3. /\ Bits(x, v) \in Decoders(V) /\ Bits(x, v).tolerant = x.tolerant
          /\ Begins(x.buf, Bits(x, v).buf)
      BY <1>12, <3>2, BitsType
    <3> QED
      BY <3>1, <3>2, <3>3
  <2>3. d.phase # 4 => /\ Bits(d, v) \in Decoders(V)
                       /\ Bits(d, v).tolerant = d.tolerant
                       /\ Begins(d.buf, Bits(d, v).buf)
    BY <1>1, <1>12, BitsType
  <2> HIDE DEF d, v, fails
  <2>4. CASE d.phase = 4 /\ d.tolerant
    BY <1>4, <1>12, <2>1, <2>2, <2>4
  <2>5. CASE d.phase = 4 /\ ~d.tolerant
    BY <1>6, <1>12, <2>1, <2>5
  <2>6. CASE d.phase # 4
    BY <1>4, <1>12, <2>1, <2>3, <2>6
  <2> QED
    BY <2>4, <2>5, <2>6
<1> QED
  BY <1>2, <1>9, <1>10, <1>11, <1>12

\* Readers that differ in no more than their room and the errors counted.
Alike(r, q) ==
    /\ r.failed = q.failed
    /\ r.code.buf = q.code.buf /\ r.code.part = q.code.part
    /\ r.code.phase = q.code.phase /\ r.code.tolerant = q.code.tolerant

LEMMA BitsAlike ==
    ASSUME NEW V, NEW W, NEW d \in Decoders(V), NEW x \in Decoders(W), NEW v,
           d.buf = x.buf, d.part = x.part, d.phase = x.phase, d.tolerant = x.tolerant,
           d.phase # 4
    PROVE  /\ Bits(d, v).buf = Bits(x, v).buf /\ Bits(d, v).part = Bits(x, v).part
           /\ Bits(d, v).phase = Bits(x, v).phase /\ Bits(d, v).tolerant = Bits(x, v).tolerant
<1>1. d.phase = 0 \/ d.phase = 1 \/ d.phase = 2 \/ d.phase = 3
  BY DEF Decoders
<1>2. CASE d.phase = 0
  <2>1. /\ Bits(d, v) = [d EXCEPT !.part = (v * 4) % 256, !.phase = 1]
        /\ Bits(x, v) = [x EXCEPT !.part = (v * 4) % 256, !.phase = 1]
    BY <1>2 DEF Bits
  <2> QED
    BY <2>1 DEF Decoders
<1>3. CASE d.phase = 1
  <2>1. /\ Bits(d, v) = [d EXCEPT !.buf = Append(@, BitOr(d.part, v \div 16)),
                                  !.part = (v * 16) % 256, !.phase = 2]
        /\ Bits(x, v) = [x EXCEPT !.buf = Append(@, BitOr(d.part, v \div 16)),
                                  !.part = (v * 16) % 256, !.phase = 2]
    BY <1>3 DEF Bits
  <2> QED
    BY <2>1 DEF Decoders
<1>4. CASE d.phase = 2
  <2>1. /\ Bits(d, v) = [d EXCEPT !.buf = Append(@, BitOr(d.part, v \div 4)),
                                  !.part = (v * 64) % 256, !.phase = 3]
        /\ Bits(x, v) = [x EXCEPT !.buf = Append(@, BitOr(d.part, v \div 4)),
                                  !.part = (v * 64) % 256, !.phase = 3]
    BY <1>4 DEF Bits
  <2> QED
    BY <2>1 DEF Decoders
<1>5. CASE d.phase = 3
  <2>1. /\ Bits(d, v) = [d EXCEPT !.buf = Append(@, BitOr(d.part, v)), !.phase = 0]
        /\ Bits(x, v) = [x EXCEPT !.buf = Append(@, BitOr(d.part, v)), !.phase = 0]
    BY <1>5 DEF Bits
  <2> QED
    BY <2>1 DEF Decoders
<1> QED
  BY <1>1, <1>2, <1>3, <1>4, <1>5

LEMMA FirstPhase ==
    ASSUME NEW V, NEW d \in Decoders(V)
    PROVE  [d EXCEPT !.phase = 0] \in Decoders(V) /\ [d EXCEPT !.phase = 0].phase = 0
<1>1. 0 \in 0 .. 4
  OBVIOUS
<1>2. \A p \in 0 .. 4 : [d EXCEPT !.phase = p] \in Decoders(V) /\ [d EXCEPT !.phase = p].phase = p
  BY DEF Decoders
<1> QED
  BY <1>1, <1>2

LEMMA CharAlike ==
    ASSUME NEW V, NEW W, NEW r \in Readers(V), NEW q \in Readers(W), NEW c \in Int, Alike(r, q)
    PROVE  Alike(DecodeChar(r, c), DecodeChar(q, c))
<1> DEFINE v == Value(c)
<1>1. PICK d \in Decoders(V), x \in Decoders(W) : d = r.code /\ x = q.code
  BY DEF Readers
<1>2. /\ d.buf = x.buf /\ d.part = x.part /\ d.phase = x.phase /\ d.tolerant = x.tolerant
      /\ r.failed = q.failed /\ d.phase \in 0 .. 4
  BY <1>1 DEF Alike, Decoders
<1>3. v \in -3 .. 63
  BY OtherValues
<1> DEFINE Same(y, z) == /\ y.buf = z.buf /\ y.part = z.part /\ y.phase = z.phase
                         /\ y.tolerant = z.tolerant
<1>4. \A y, z, f : Same(y, z) => Alike([code |-> y, failed |-> f], [code |-> z, failed |-> f])
  BY DEF Alike
<1>5. Same([d EXCEPT !.errors = @ + 1], [x EXCEPT !.errors = @ + 1])
  BY <1>2 DEF Decoders
<1>6. \A p : Same([d EXCEPT !.phase = p], [x EXCEPT !.phase = p])
  BY <1>2 DEF Decoders
<1>7. d.phase # 4 => Same(Bits(d, v), Bits(x, v))
  BY <1>2, BitsAlike
<1>8. Same(Bits([d EXCEPT !.phase = 0], v), Bits([x EXCEPT !.phase = 0], v))
  <2>0. PICK d0 : d0 = [d EXCEPT !.phase = 0]
    OBVIOUS
  <2>1. PICK x0 : x0 = [x EXCEPT !.phase = 0]
    OBVIOUS
  <2>2. d0 \in Decoders(V) /\ d0.phase = 0 /\ d0.phase # 4
    BY <1>1, <2>0, FirstPhase
  <2>5. x0 \in Decoders(W) /\ x0.phase = 0
    BY <1>1, <2>1, FirstPhase
  <2>3. d0.buf = x0.buf /\ d0.part = x0.part /\ d0.tolerant = x0.tolerant
    BY <1>2, <2>0, <2>1 DEF Decoders
  <2>4. Same(Bits(d0, v), Bits(x0, v))
    BY <2>2, <2>3, <2>5, BitsAlike
  <2> QED
    BY <2>0, <2>1, <2>4
<1> HIDE DEF Same
<1>9. CASE r.failed \/ v = -1
  BY <1>2, <1>9 DEF DecodeChar
<1>10. CASE ~r.failed /\ v = -2
  <2>1. CASE d.phase \in {0, 1} /\ d.tolerant
    BY <1>1, <1>2, <1>10, <2>1 DEF DecodeChar
  <2>2. CASE d.phase \in {0, 1} /\ ~d.tolerant
    <3>1. /\ DecodeChar(r, c) = [code |-> [d EXCEPT !.errors = @ + 1], failed |-> TRUE]
          /\ DecodeChar(q, c) = [code |-> [x EXCEPT !.errors = @ + 1], failed |-> TRUE]
      BY <1>1, <1>2, <1>10, <2>2 DEF DecodeChar
    <3> QED
      BY <1>4, <1>5, <3>1
  <2>3. CASE d.phase = 2
    <3>1. /\ DecodeChar(r, c) = [code |-> [d EXCEPT !.phase = 4], failed |-> FALSE]
          /\ DecodeChar(q, c) = [code |-> [x EXCEPT !.phase = 4], failed |-> FALSE]
      BY <1>1, <1>2, <1>10, <2>3 DEF DecodeChar
    <3> QED
      BY <1>4, <1>6, <3>1
  <2>4. CASE d.phase \in {3, 4}
    <3>1. /\ DecodeChar(r, c) = [code |-> [d EXCEPT !.phase = 0], failed |-> FALSE]
          /\ DecodeChar(q, c) = [code |-> [x EXCEPT !.phase = 0], failed |-> FALSE]
      BY <1>1, <1>2, <1>10, <2>4 DEF DecodeChar
    <3> QED
      BY <1>4, <1>6, <3>1
  <2> QED
    BY <1>2, <2>1, <2>2, <2>3, <2>4
<1>11. CASE ~r.failed /\ (v = -3 \/ (v \in 0 .. 63 /\ d.phase = 4 /\ ~d.tolerant))
  <2>1. CASE d.tolerant
    BY <1>1, <1>2, <1>11, <2>1 DEF DecodeChar
  <2>2. CASE ~d.tolerant
    <3>1. /\ DecodeChar(r, c) = [code |-> [d EXCEPT !.errors = @ + 1], failed |-> TRUE]
          /\ DecodeChar(q, c) = [code |-> [x EXCEPT !.errors = @ + 1], failed |-> TRUE]
      BY <1>1, <1>2, <1>11, <2>2 DEF DecodeChar
    <3> QED
      BY <1>4, <1>5, <3>1
  <2> QED
    BY <2>1, <2>2
<1>12. CASE ~r.failed /\ v \in 0 .. 63 /\ d.phase = 4 /\ d.tolerant
  <2>1. /\ DecodeChar(r, c) = [code |-> Bits([d EXCEPT !.phase = 0], v), failed |-> FALSE]
        /\ DecodeChar(q, c) = [code |-> Bits([x EXCEPT !.phase = 0], v), failed |-> FALSE]
    BY <1>1, <1>2, <1>12 DEF DecodeChar
  <2> QED
    BY <1>4, <1>8, <2>1
<1>13. CASE ~r.failed /\ v \in 0 .. 63 /\ d.phase # 4
  <2>1. /\ DecodeChar(r, c) = [code |-> Bits(d, v), failed |-> FALSE]
        /\ DecodeChar(q, c) = [code |-> Bits(x, v), failed |-> FALSE]
    BY <1>1, <1>2, <1>13 DEF DecodeChar
  <2> QED
    BY <1>4, <1>7, <1>13, <2>1
<1> QED
  <2>1. v = -1 \/ v = -2 \/ v = -3 \/ v \in 0 .. 63
    BY <1>3
  <2> HIDE DEF v
  <2>2. CASE r.failed
    BY <1>9, <2>2
  <2>3. CASE ~r.failed /\ v \in 0 .. 63
    BY <1>11, <1>12, <1>13, <2>3
  <2>4. CASE ~r.failed /\ v \notin 0 .. 63
    BY <1>9, <1>10, <1>11, <2>1, <2>4
  <2> QED
    BY <2>2, <2>3, <2>4

-----------------------------------------------------------------------------
(* A text in the decoder. *)

\* g is what the decoder is after each character of t, from r on.
Steps(g, r, t) ==
    /\ g[0] = r
    /\ \A n \in 1 .. Len(t) : g[n] = DecodeChar(g[n - 1], t[n])

\* From r the text t brings the decoder to s.
Reads(r, t, s) == \E g : Steps(g, r, t) /\ s = g[Len(t)]

LEMMA ReadsNothing ==
    ASSUME NEW r, NEW s
    PROVE  Reads(r, <<>>, s) <=> s = r
<1>1. Len(<<>>) = 0 /\ 1 .. 0 = {}
  OBVIOUS
<1>2. Reads(r, <<>>, s) => s = r
  BY <1>1 DEF Reads, Steps
<1>3. Steps([n \in {0} |-> r], r, <<>>) /\ [n \in {0} |-> r][Len(<<>>)] = r
  BY <1>1 DEF Steps
<1> QED
  BY <1>2, <1>3 DEF Reads

LEMMA ReadsOneMore ==
    ASSUME NEW t \in Seq(Int), NEW c \in Int, NEW r, NEW s, Reads(r, t, s)
    PROVE  Reads(r, Append(t, c), DecodeChar(s, c))
<1>1. PICK g : Steps(g, r, t) /\ s = g[Len(t)]
  BY DEF Reads
<1>2. PICK k \in Nat : k = Len(t)
  OBVIOUS
<1> DEFINE u == Append(t, c)
           h == [n \in 0 .. k + 1 |-> IF n <= k THEN g[n] ELSE DecodeChar(s, c)]
<1>3. Len(u) = k + 1 /\ u[k + 1] = c /\ \A n \in 1 .. k : u[n] = t[n]
  BY <1>2
<1>4. \A n \in 1 .. k : h[n] = g[n] /\ h[n - 1] = g[n - 1]
  BY <1>2
<1>5. h[0] = g[0] /\ h[k] = g[k] /\ h[k + 1] = DecodeChar(s, c)
  BY <1>2
<1> HIDE DEF h, u
<1>6. \A n \in 1 .. k + 1 : h[n] = DecodeChar(h[n - 1], u[n])
  <2> SUFFICES ASSUME NEW n \in 1 .. k + 1 PROVE h[n] = DecodeChar(h[n - 1], u[n])
    OBVIOUS
  <2>1. CASE n \in 1 .. k
    BY <1>1, <1>2, <1>3, <1>4, <2>1 DEF Steps
  <2>2. CASE n = k + 1
    <3>1. n - 1 = k
      BY <1>2, <2>2
    <3> QED
      BY <1>1, <1>2, <1>3, <1>5, <2>2, <3>1
  <2> QED
    BY <1>2, <2>1, <2>2
<1>7. Steps(h, r, u)
  BY <1>1, <1>3, <1>5, <1>6 DEF Steps
<1> QED
  BY <1>3, <1>5, <1>7 DEF Reads, u

\* Where a text is cut.
LEMMA ReadsCut ==
    ASSUME NEW t \in Seq(Int), NEW u \in Seq(Int), NEW r, NEW s, Reads(r, t \o u, s)
    PROVE  \E m : Reads(r, t, m) /\ Reads(m, u, s)
<1>1. PICK g : Steps(g, r, t \o u) /\ s = g[Len(t \o u)]
  BY DEF Reads
<1>2. PICK j \in Nat, k \in Nat : j = Len(t) /\ k = Len(u)
  OBVIOUS
<1>3. /\ Len(t \o u) = j + k /\ \A n \in 1 .. j : (t \o u)[n] = t[n]
      /\ \A n \in 1 .. k : (t \o u)[j + n] = u[n]
  BY <1>2
<1>4. PICK w : w = t \o u
  OBVIOUS
<1> DEFINE h == [n \in 0 .. k |-> g[j + n]]
<1>5. h[0] = g[j] /\ h[k] = g[j + k] /\ \A n \in 1 .. k : h[n] = g[j + n] /\ h[n - 1] = g[j + n - 1]
  BY <1>2
<1> HIDE DEF h
<1>6. Steps(g, r, t)
  BY <1>1, <1>2, <1>3 DEF Steps
<1>7. \A n \in 1 .. k : g[j + n] = DecodeChar(g[j + n - 1], w[j + n])
  <2>1. \A n \in 1 .. k : j + n \in 1 .. j + k
    BY <1>2
  <2> QED
    BY <1>1, <1>3, <1>4, <2>1 DEF Steps
<1>8. Steps(h, g[j], u)
  BY <1>2, <1>3, <1>4, <1>5, <1>7 DEF Steps
<1> QED
  BY <1>1, <1>2, <1>3, <1>5, <1>6, <1>8 DEF Reads

LEMMA ReadsJoined ==
    ASSUME NEW t \in Seq(Int), NEW u \in Seq(Int), NEW r, NEW m, NEW s,
           Reads(r, t, m), Reads(m, u, s)
    PROVE  Reads(r, t \o u, s)
<1>1. PICK g, f : Steps(g, r, t) /\ m = g[Len(t)] /\ Steps(f, m, u) /\ s = f[Len(u)]
  BY DEF Reads
<1>2. PICK j \in Nat, k \in Nat : j = Len(t) /\ k = Len(u)
  OBVIOUS
<1>3. /\ Len(t \o u) = j + k /\ \A n \in 1 .. j : (t \o u)[n] = t[n]
      /\ \A n \in 1 .. k : (t \o u)[j + n] = u[n]
  BY <1>2
<1>4. PICK w : w = t \o u
  OBVIOUS
<1> DEFINE h == [n \in 0 .. j + k |-> IF n <= j THEN g[n] ELSE f[n - j]]
<1>5. h[0] = g[0] /\ \A n \in 1 .. j : h[n] = g[n] /\ h[n - 1] = g[n - 1]
  BY <1>2
<1>6. g[j] = f[0]
  BY <1>1, <1>2 DEF Steps
<1>7. \A n \in 0 .. k : h[j + n] = f[n]
  <2> SUFFICES ASSUME NEW n \in 0 .. k PROVE h[j + n] = f[n]
    OBVIOUS
  <2>1. j + n \in 0 .. j + k /\ j + n - j = n /\ (j + n <= j <=> n = 0) /\ j + 0 = j
    BY <1>2
  <2>2. CASE n = 0
    BY <1>2, <1>6, <2>1, <2>2
  <2>3. CASE n # 0
    <3>1. h[j + n] = f[j + n - j]
      BY <2>1, <2>3
    <3> QED
      BY <2>1, <3>1
  <2> QED
    BY <2>2, <2>3
<1> HIDE DEF h
<1>8. \A n \in 1 .. j + k : h[n] = DecodeChar(h[n - 1], w[n])
  <2> SUFFICES ASSUME NEW n \in 1 .. j + k PROVE h[n] = DecodeChar(h[n - 1], w[n])
    OBVIOUS
  <2>1. CASE n \in 1 .. j
    BY <1>1, <1>2, <1>3, <1>4, <1>5, <2>1 DEF Steps
  <2>2. CASE n \notin 1 .. j
    <3>1. PICK i \in 1 .. k : n = j + i /\ i - 1 \in 0 .. k /\ n - 1 = j + (i - 1)
      <4>1. n - j \in 1 .. k /\ n = j + (n - j) /\ (n - j) - 1 \in 0 .. k /\ n - 1 = j + ((n - j) - 1)
        BY <1>2, <2>2
      <4> QED
        BY <4>1
    <3>2. h[n] = f[i] /\ h[n - 1] = f[i - 1] /\ w[n] = u[i]
      <4>1. i \in 0 .. k
        BY <1>2
      <4>2. h[n] = f[i] /\ h[n - 1] = f[i - 1]
        BY <1>7, <3>1, <4>1
      <4>3. w[n] = u[i]
        BY <1>3, <1>4, <3>1
      <4> QED
        BY <4>2, <4>3
    <3>3. f[i] = DecodeChar(f[i - 1], u[i])
      BY <1>1, <1>2, <3>1 DEF Steps
    <3> QED
      BY <3>2, <3>3
  <2> QED
    BY <2>1, <2>2
<1>9. Steps(h, r, w) /\ h[j + k] = s
  BY <1>1, <1>2, <1>3, <1>4, <1>5, <1>7, <1>8 DEF Steps
<1> QED
  BY <1>3, <1>4, <1>9 DEF Reads

\* Whatever the text, the decoder gets somewhere.
LEMMA StepsExist ==
    ASSUME NEW t \in Seq(Int), NEW r
    PROVE  \E g : Steps(g, r, t)
<1> DEFINE Upto(g, k) == g[0] = r /\ \A n \in 1 .. k : g[n] = DecodeChar(g[n - 1], t[n])
           Bad == {k \in 0 .. Len(t) : ~ \E g : Upto(g, k)}
<1>1. Bad = {}
  <2> SUFFICES ASSUME Bad # {} PROVE FALSE
    OBVIOUS
  <2>1. Bad \in SUBSET Nat
    OBVIOUS
  <2>2. PICK k \in Bad : \A m \in Bad : k <= m
    BY <2>1, FirstOf
  <2>3. k # 0
    <3>1. Upto([n \in {0} |-> r], 0)
      OBVIOUS
    <3> QED
      BY <2>2, <3>1
  <2>4. k \in Nat /\ k \in 0 .. Len(t) /\ k - 1 \in 0 .. Len(t) /\ k - 1 \in Nat
    BY <2>2, <2>3
  <2>5. PICK g : Upto(g, k - 1)
    <3>1. PICK j \in 0 .. Len(t) : j = k - 1 /\ ~(k <= j)
      BY <2>4
    <3>2. j \notin Bad
      <4> HIDE DEF Bad
      <4> QED
        BY <2>2, <3>1
    <3>3. \E g : Upto(g, j)
      BY <3>2
    <3> QED
      BY <3>1, <3>3
  <2> DEFINE h == [n \in 0 .. k |-> IF n < k THEN g[n] ELSE DecodeChar(g[k - 1], t[k])]
  <2>6. h[0] = g[0] /\ h[k] = DecodeChar(g[k - 1], t[k]) /\ h[k - 1] = g[k - 1]
        /\ \A n \in 1 .. k - 1 : h[n] = g[n] /\ h[n - 1] = g[n - 1]
    BY <2>3, <2>4
  <2> HIDE DEF h
  <2>7. \A n \in 1 .. k : n = k \/ n \in 1 .. k - 1
    BY <2>4
  <2>8. Upto(h, k)
    BY <2>5, <2>6, <2>7
  <2> QED
    BY <2>2, <2>4, <2>8
<1>2. Len(t) \in 0 .. Len(t)
  OBVIOUS
<1> QED
  BY <1>1, <1>2 DEF Steps

LEMMA ReadsSomewhere ==
    ASSUME NEW t \in Seq(Int), NEW r
    PROVE  \E s : Reads(r, t, s)
  BY StepsExist DEF Reads

\* What a text does to a reader.
LEMMA TextAdvances ==
    ASSUME NEW V, NEW r \in Readers(V), NEW t \in Seq(Int), NEW s, Reads(r, t, s)
    PROVE  Advances(r, s, V)
<1>1. PICK g : Steps(g, r, t) /\ s = g[Len(t)]
  BY DEF Reads
<1> DEFINE Bad == {k \in 0 .. Len(t) : ~ Advances(r, g[k], V)}
<1>2. Bad = {}
  <2> SUFFICES ASSUME Bad # {} PROVE FALSE
    OBVIOUS
  <2>1. Bad \in SUBSET Nat
    OBVIOUS
  <2>2. PICK k \in Bad : \A m \in Bad : k <= m
    BY <2>1, FirstOf
  <2>3. r.code.buf \in Seq(Int)
    BY DEF Readers, Decoders
  <2>4. Advances(r, r, V)
    BY <2>3 DEF Advances, Begins
  <2>5. k # 0
    BY <1>1, <2>2, <2>4 DEF Steps
  <2>6. k \in 1 .. Len(t) /\ k - 1 \in 0 .. Len(t) /\ ~(k <= k - 1)
    BY <2>2, <2>5
  <2>7. Advances(r, g[k - 1], V)
    BY <2>2, <2>6
  <2>8. g[k] = DecodeChar(g[k - 1], t[k]) /\ t[k] \in Int
    BY <1>1, <2>6 DEF Steps
  <2>9. PICK m : m = g[k - 1]
    OBVIOUS
  <2>10. m \in Readers(V) /\ Advances(r, m, V)
    BY <2>7, <2>9 DEF Advances
  <2>11. PICK q : q = g[k]
    OBVIOUS
  <2>12. Advances(m, q, V)
    BY <2>8, <2>9, <2>10, <2>11, CharAdvances
  <2>13. m.code.buf \in Seq(Int) /\ q.code.buf \in Seq(Int)
    BY <2>10, <2>12 DEF Advances, Readers, Decoders
  <2>14. Begins(r.code.buf, q.code.buf)
    BY <2>3, <2>10, <2>12, <2>13, BeginsTrans DEF Advances
  <2>15. Advances(r, q, V)
    BY <2>10, <2>12, <2>14 DEF Advances
  <2> QED
    BY <2>2, <2>11, <2>15
<1>3. Len(t) \in 0 .. Len(t)
  OBVIOUS
<1> QED
  BY <1>1, <1>2, <1>3

LEMMA TextAlike ==
    ASSUME NEW V, NEW W, NEW r \in Readers(V), NEW q \in Readers(W), Alike(r, q),
           NEW t \in Seq(Int), NEW s, NEW z, Reads(r, t, s), Reads(q, t, z)
    PROVE  Alike(s, z)
<1>1. PICK g : Steps(g, r, t) /\ s = g[Len(t)]
  BY DEF Reads
<1>2. PICK f : Steps(f, q, t) /\ z = f[Len(t)]
  BY DEF Reads
<1> DEFINE Same(k) == g[k] \in Readers(V) /\ f[k] \in Readers(W) /\ Alike(g[k], f[k])
           Bad == {k \in 0 .. Len(t) : ~ Same(k)}
<1>3. Bad = {}
  <2> SUFFICES ASSUME Bad # {} PROVE FALSE
    OBVIOUS
  <2>1. Bad \in SUBSET Nat
    OBVIOUS
  <2>2. PICK k \in Bad : \A m \in Bad : k <= m
    BY <2>1, FirstOf
  <2>3. k # 0
    BY <1>1, <1>2, <2>2 DEF Steps
  <2>4. k \in 1 .. Len(t) /\ k - 1 \in 0 .. Len(t) /\ ~(k <= k - 1)
    BY <2>2, <2>3
  <2>5. Same(k - 1)
    BY <2>2, <2>4
  <2>6. /\ g[k] = DecodeChar(g[k - 1], t[k]) /\ f[k] = DecodeChar(f[k - 1], t[k])
        /\ t[k] \in Int
    BY <1>1, <1>2, <2>4 DEF Steps
  <2>7. Alike(g[k], f[k])
    BY <2>5, <2>6, CharAlike
  <2>8. g[k] \in Readers(V) /\ f[k] \in Readers(W)
    BY <2>5, <2>6, CharAdvances DEF Advances
  <2> QED
    BY <2>2, <2>7, <2>8
<1>4. Len(t) \in 0 .. Len(t)
  OBVIOUS
<1> QED
  BY <1>1, <1>2, <1>3, <1>4

\* z_code_base64_decode_transform takes the characters of its piece one by one.
LEMMA TransformReads ==
    ASSUME NEW t \in Seq(Int), NEW d,
           NEW x, x = [d EXCEPT !.buf_len = z_code_grow(@, Len(d.buf) + (Len(t) * 3 + 3) \div 4 + 16)]
    PROVE  Reads([code |-> x, failed |-> FALSE], t, z_code_base64_decode_transform(d, t))
<1> DEFINE r == [code |-> x, failed |-> FALSE]
           Step(g) == [n \in 0 .. Len(t) |-> IF n = 0 THEN r ELSE DecodeChar(g[n - 1], t[n])]
           after == CHOOSE g : g = Step(g)
<1>1. PICK k \in Nat : k = Len(t)
  OBVIOUS
<1>2. PICK g : Steps(g, r, t)
  BY StepsExist
<1> DEFINE h == [n \in 0 .. k |-> g[n]]
<1>3. h = Step(h)
  <2>1. \A n \in 0 .. k : h[n] = IF n = 0 THEN r ELSE DecodeChar(h[n - 1], t[n])
    <3> SUFFICES ASSUME NEW n \in 0 .. k
                 PROVE  h[n] = IF n = 0 THEN r ELSE DecodeChar(h[n - 1], t[n])
      OBVIOUS
    <3>1. CASE n = 0
      BY <1>2, <3>1 DEF Steps
    <3>2. CASE n # 0
      <4>1. n \in 1 .. k /\ n - 1 \in 0 .. k
        BY <3>2
      <4>2. h[n] = g[n] /\ h[n - 1] = g[n - 1]
        BY <4>1
      <4> QED
        BY <1>1, <1>2, <3>2, <4>1, <4>2 DEF Steps
    <3> QED
      BY <3>1, <3>2
  <2> QED
    BY <1>1, <2>1
<1>4. after = Step(after)
  <2> HIDE DEF Step
  <2> QED
    BY <1>3
<1>5. PICK a : a = after
  OBVIOUS
<1>6. a = Step(a)
  BY <1>4, <1>5
<1> HIDE DEF after
<1>7. Steps(a, r, t)
  <2>3. \A n \in 0 .. k : a[n] = IF n = 0 THEN r ELSE DecodeChar(a[n - 1], t[n])
    BY <1>1, <1>6
  <2>1. a[0] = r
    <3>1. 0 \in 0 .. k
      BY <1>1
    <3> HIDE DEF r
    <3> QED
      BY <2>3, <3>1
  <2>2. \A n \in 1 .. k : a[n] = DecodeChar(a[n - 1], t[n])
    <3> SUFFICES ASSUME NEW n \in 1 .. k PROVE a[n] = DecodeChar(a[n - 1], t[n])
      OBVIOUS
    <3>1. n \in 0 .. k /\ n # 0
      BY <1>1
    <3> HIDE DEF r
    <3> QED
      BY <2>3, <3>1
  <2> QED
    BY <1>1, <2>1, <2>2 DEF Steps
<1>8. z_code_base64_decode_transform(d, t) = a[Len(t)]
  BY <1>5 DEF z_code_base64_decode_transform, after
<1> QED
  BY <1>7, <1>8 DEF Reads

-----------------------------------------------------------------------------
(* What the encoder writes. *)

Encoders(V) ==
    [buf : Seq(Int), part : Int, buf_len : V, phase : 0 .. 2, errors : Int,
     linepos : Int, linelen : Int]

\* What has been taken from the encoder and what has not bring the decoder to s.
Sent(r, w, e, s) == Reads(r, w \o e.buf, s)

LEMMA AppendJoined ==
    ASSUME NEW w \in Seq(Int), NEW b \in Seq(Int), NEW c \in Int
    PROVE  w \o Append(b, c) = Append(w \o b, c)
  OBVIOUS

LEMMA ThreeJoined ==
    ASSUME NEW b \in Seq(Int), NEW c \in Int, NEW x \in Int, NEW y \in Int
    PROVE  Append(b, c) \o <<x, y>> = b \o <<c, x, y>>
  OBVIOUS

LEMMA SentMore ==
    ASSUME NEW w \in Seq(Int), NEW b \in Seq(Int), NEW c \in Int, NEW r, NEW s,
           Reads(r, w \o b, s)
    PROVE  Append(b, c) \in Seq(Int) /\ Reads(r, w \o Append(b, c), DecodeChar(s, c))
<1>0. w \o b \in Seq(Int)
  OBVIOUS
<1>1. PICK u \in Seq(Int) : u = w \o b
  BY <1>0
<1>2. Append(b, c) \in Seq(Int) /\ w \o Append(b, c) = Append(u, c)
  BY <1>1, AppendJoined
<1>3. Reads(r, Append(u, c), DecodeChar(s, c))
  BY <1>1, ReadsOneMore
<1> QED
  BY <1>2, <1>3

\* A line break means nothing to the decoder.
LEMMA SentBreak ==
    ASSUME NEW w \in Seq(Int), NEW b \in Seq(Int), NEW r, NEW s, Reads(r, w \o b, s)
    PROVE  b \o <<CR, LF>> \in Seq(Int) /\ Reads(r, w \o (b \o <<CR, LF>>), s)
<1>1. CR \in Int /\ LF \in Int
  BY DEF CR, LF
<1>2. DecodeChar(s, CR) = s /\ DecodeChar(s, LF) = s
  BY OtherValues DEF DecodeChar
<1>3. Append(b, CR) \in Seq(Int) /\ Reads(r, w \o Append(b, CR), s)
  BY <1>1, <1>2, SentMore
<1>4. PICK p \in Seq(Int) : p = Append(b, CR)
  BY <1>3
<1>5. Append(p, LF) \in Seq(Int) /\ Reads(r, w \o Append(p, LF), s)
  BY <1>1, <1>2, <1>3, <1>4, SentMore
<1>6. Append(p, LF) = b \o <<CR, LF>>
  BY <1>1, <1>4
<1> QED
  BY <1>5, <1>6

\* What one call of z_code_base64_encode_fix changes.
Fixed(e, f, V) ==
    f \in Encoders(V) /\ f.part = e.part /\ f.phase = e.phase

LEMMA FixSends ==
    ASSUME NEW V, NEW e \in Encoders(V), NEW c \in Int, NEW w \in Seq(Int), NEW r, NEW s,
           Sent(r, w, e, s)
    PROVE  /\ Fixed(e, z_code_base64_encode_fix(e, c), V)
           /\ Sent(r, w, z_code_base64_encode_fix(e, c), DecodeChar(s, c))
<1>1. PICK b \in Seq(Int) : b = e.buf
  BY DEF Encoders
<1>2. PICK p \in Seq(Int) : p = Append(b, c)
  <2>1. Append(b, c) \in Seq(Int)
    OBVIOUS
  <2> QED
    BY <2>1
<1>3. Reads(r, w \o p, DecodeChar(s, c))
  BY <1>1, <1>2, SentMore DEF Sent
<1>4. CASE e.linelen # 0 /\ e.linepos >= e.linelen
  <2>1. PICK q \in Seq(Int) : q = p \o <<CR, LF>> /\ Reads(r, w \o q, DecodeChar(s, c))
    BY <1>3, SentBreak
  <2>2. q = b \o <<c, CR, LF>>
    <3>1. CR \in Int /\ LF \in Int
      BY DEF CR, LF
    <3>2. Append(b, c) \o <<CR, LF>> = b \o <<c, CR, LF>>
      BY <3>1, ThreeJoined
    <3> QED
      BY <1>2, <2>1, <3>2, Zenon
  <2>3. z_code_base64_encode_fix(e, c) = [e EXCEPT !.buf = q, !.linepos = 0]
    BY <1>1, <1>4, <2>2 DEF z_code_base64_encode_fix
  <2>6. PICK y \in Int : y = 0
    OBVIOUS
  <2>4. PICK f : f = [e EXCEPT !.buf = q, !.linepos = y]
    OBVIOUS
  <2>5. f.buf = q /\ Fixed(e, f, V)
    BY <2>4 DEF Fixed, Encoders
  <2> QED
    BY <2>1, <2>3, <2>4, <2>5, <2>6 DEF Sent
<1>5. CASE ~(e.linelen # 0 /\ e.linepos >= e.linelen)
  <2>1. PICK y \in Int : y = IF e.linelen # 0 THEN e.linepos + 1 ELSE e.linepos
    BY DEF Encoders
  <2>2. z_code_base64_encode_fix(e, c) = [e EXCEPT !.buf = p, !.linepos = y]
    BY <1>1, <1>2, <1>5, <2>1 DEF z_code_base64_encode_fix
  <2>3. PICK f : f = [e EXCEPT !.buf = p, !.linepos = y]
    OBVIOUS
  <2>4. f.buf = p /\ Fixed(e, f, V)
    BY <2>3 DEF Fixed, Encoders
  <2> QED
    BY <1>3, <2>2, <2>3, <2>4 DEF Sent
<1> QED
  BY <1>4, <1>5

LEMMA CharInt == ASSUME NEW v \in Int PROVE Char(v) \in Int
<1>1. v % 64 \in Int
  OBVIOUS
<1> QED
  BY <1>1 DEF Char

Parted(f, p, h) == [f EXCEPT !.part = p, !.phase = h]

LEMMA PartMoves ==
    ASSUME NEW V, NEW f \in Encoders(V), NEW p \in Int, NEW h \in 0 .. 2
    PROVE  Parted(f, p, h) \in Encoders(V) /\ Parted(f, p, h).buf = f.buf
  BY DEF Encoders, Parted

LEMMA PartIs ==
    ASSUME NEW V, NEW f \in Encoders(V), NEW p, NEW h
    PROVE  Parted(f, p, h).part = p /\ Parted(f, p, h).phase = h
  BY DEF Encoders, Parted

\* Where the decoder is after the characters of one byte.
AfterByte(s, e, b) ==
    CASE e.phase = 0 -> DecodeChar(s, Char(b \div 4))
      [] e.phase = 1 -> DecodeChar(s, Char(BitOr(e.part, b \div 16)))
      [] e.phase = 2 -> DecodeChar(DecodeChar(s, Char(BitOr(e.part, b \div 64))), Char(b % 64))

LEMMA ByteSends ==
    ASSUME NEW V, NEW e \in Encoders(V), NEW b \in 0 .. 255, NEW w \in Seq(Int), NEW r, NEW s,
           Sent(r, w, e, s)
    PROVE  /\ EncodeByte(e, b) \in Encoders(V)
           /\ Sent(r, w, EncodeByte(e, b), AfterByte(s, e, b))
           /\ EncodeByte(e, b).phase = (e.phase + 1) % 3
           /\ e.phase = 0 => EncodeByte(e, b).part = (b % 4) * 16
           /\ e.phase = 1 => EncodeByte(e, b).part = (b % 16) * 4
<1>1. /\ b \div 4 \in Int /\ b \div 16 \in Int /\ b \div 64 \in Int
      /\ b % 64 \in Int /\ (b % 4) * 16 \in Int /\ (b % 16) * 4 \in Int
  OBVIOUS
<1>2. /\ e.part \in Int
      /\ e.phase = 0 \/ e.phase = 1 \/ e.phase = 2
  BY DEF Encoders
<1>3. BitOr(e.part, b \div 16) \in Int /\ BitOr(e.part, b \div 64) \in Int
  BY <1>1, <1>2, OrType
<1>5. \A f \in Encoders(V), h \in 0 .. 2 :
          LET g == [f EXCEPT !.phase = h] IN
          g \in Encoders(V) /\ g.buf = f.buf /\ g.phase = h
  BY DEF Encoders
<1>6. CASE e.phase = 0
  <2>1. PICK c \in Int : c = Char(b \div 4)
    BY <1>1, CharInt
  <2>2. PICK f : f = z_code_base64_encode_fix(e, c)
    OBVIOUS
  <2>3. f \in Encoders(V) /\ Sent(r, w, f, DecodeChar(s, c))
    BY <2>2, FixSends DEF Fixed
  <2>9. PICK p \in Int : p = (b % 4) * 16
    BY <1>1
  <2>4. PICK g : g = Parted(f, p, 1)
    OBVIOUS
  <2>5. EncodeByte(e, b) = g /\ AfterByte(s, e, b) = DecodeChar(s, c)
    BY <1>6, <2>1, <2>2, <2>4, <2>9 DEF EncodeByte, AfterByte, Parted
  <2>6. 1 \in 0 .. 2 /\ (0 + 1) % 3 = 1
    OBVIOUS
  <2>7. g \in Encoders(V) /\ g.buf = f.buf /\ g.part = p /\ g.phase = 1
    <3>1. Parted(f, p, 1) \in Encoders(V) /\ Parted(f, p, 1).buf = f.buf
      BY <2>3, <2>6, <2>9, PartMoves
    <3>2. Parted(f, p, 1).part = p /\ Parted(f, p, 1).phase = 1
      BY <2>3, PartIs
    <3> QED
      BY <2>4, <3>1, <3>2
  <2>8. Sent(r, w, g, DecodeChar(s, c))
    BY <2>3, <2>7 DEF Sent
  <2> QED
    BY <1>6, <2>5, <2>6, <2>7, <2>8, <2>9
<1>7. CASE e.phase = 1
  <2>1. PICK c \in Int : c = Char(BitOr(e.part, b \div 16))
    BY <1>3, CharInt
  <2>2. PICK f : f = z_code_base64_encode_fix(e, c)
    OBVIOUS
  <2>3. f \in Encoders(V) /\ Sent(r, w, f, DecodeChar(s, c))
    BY <2>2, FixSends DEF Fixed
  <2>9. PICK p \in Int : p = (b % 16) * 4
    BY <1>1
  <2>4. PICK g : g = Parted(f, p, 2)
    OBVIOUS
  <2>5. EncodeByte(e, b) = g /\ AfterByte(s, e, b) = DecodeChar(s, c)
    BY <1>7, <2>1, <2>2, <2>4, <2>9 DEF EncodeByte, AfterByte, Parted
  <2>6. 2 \in 0 .. 2 /\ (1 + 1) % 3 = 2
    OBVIOUS
  <2>7. g \in Encoders(V) /\ g.buf = f.buf /\ g.part = p /\ g.phase = 2
    <3>1. Parted(f, p, 2) \in Encoders(V) /\ Parted(f, p, 2).buf = f.buf
      BY <2>3, <2>6, <2>9, PartMoves
    <3>2. Parted(f, p, 2).part = p /\ Parted(f, p, 2).phase = 2
      BY <2>3, PartIs
    <3> QED
      BY <2>4, <3>1, <3>2
  <2>8. Sent(r, w, g, DecodeChar(s, c))
    BY <2>3, <2>7 DEF Sent
  <2> QED
    BY <1>7, <2>5, <2>6, <2>7, <2>8, <2>9
<1>8. CASE e.phase = 2
  <2>1. PICK c \in Int, k \in Int : c = Char(BitOr(e.part, b \div 64)) /\ k = Char(b % 64)
    BY <1>1, <1>3, CharInt
  <2>2. PICK f : f = z_code_base64_encode_fix(e, c)
    OBVIOUS
  <2>3. f \in Encoders(V) /\ Sent(r, w, f, DecodeChar(s, c))
    BY <2>2, FixSends DEF Fixed
  <2>9. PICK m : m = z_code_base64_encode_fix(f, k)
    OBVIOUS
  <2>10. m \in Encoders(V) /\ Sent(r, w, m, DecodeChar(DecodeChar(s, c), k))
    BY <2>3, <2>9, FixSends DEF Fixed
  <2>4. PICK g : g = [m EXCEPT !.phase = 0]
    OBVIOUS
  <2>5. EncodeByte(e, b) = g /\ AfterByte(s, e, b) = DecodeChar(DecodeChar(s, c), k)
    BY <1>8, <2>1, <2>2, <2>4, <2>9 DEF EncodeByte, AfterByte, Parted
  <2>6. 0 \in 0 .. 2 /\ (2 + 1) % 3 = 0
    OBVIOUS
  <2>7. g \in Encoders(V) /\ g.buf = m.buf /\ g.phase = 0
    BY <1>5, <2>4, <2>6, <2>10
  <2>8. Sent(r, w, g, DecodeChar(DecodeChar(s, c), k))
    BY <2>7, <2>10 DEF Sent
  <2> QED
    BY <1>8, <2>5, <2>6, <2>7, <2>8
<1> QED
  BY <1>2, <1>6, <1>7, <1>8

\* What is left of the encoder's byte, and the end of its line, when the text ends.
AfterEnd(s, e) ==
    CASE e.phase = 0 -> s
      [] e.phase = 1 -> DecodeChar(DecodeChar(DecodeChar(s, Char(((e.part \div 16) % 4) * 16)), EQ), EQ)
      [] e.phase = 2 -> DecodeChar(DecodeChar(s, Char(((e.part \div 4) % 16) * 4)), EQ)

LEMMA EndSends ==
    ASSUME NEW V, NEW e \in Encoders(V), NEW w \in Seq(Int), NEW r, NEW s, Sent(r, w, e, s)
    PROVE  /\ z_code_base64_encode_finish(e) \in Encoders(V)
           /\ Sent(r, w, z_code_base64_encode_finish(e), AfterEnd(s, e))
           /\ z_code_base64_encode_finish(e).phase = 0
<1> DEFINE End(p) == [p EXCEPT !.buf = IF p.linepos # 0 THEN @ \o <<CR, LF>> ELSE @,
                               !.linepos = 0, !.phase = 0]
<1>1. /\ e.part \in Int
      /\ e.phase = 0 \/ e.phase = 1 \/ e.phase = 2
  BY DEF Encoders
<1>2. ((e.part \div 16) % 4) * 16 \in Int /\ ((e.part \div 4) % 16) * 4 \in Int /\ EQ \in Int
  BY <1>1 DEF EQ
<1>3. \A p \in Encoders(V) : \A q : Sent(r, w, p, q) =>
          End(p) \in Encoders(V) /\ Sent(r, w, End(p), q) /\ End(p).phase = 0
  <2> SUFFICES ASSUME NEW p \in Encoders(V), NEW q, Sent(r, w, p, q)
               PROVE  End(p) \in Encoders(V) /\ Sent(r, w, End(p), q) /\ End(p).phase = 0
    OBVIOUS
  <2>1. p.buf \in Seq(Int)
    BY DEF Encoders
  <2>2. PICK b \in Seq(Int) : b = p.buf
    BY <2>1
  <2>3. PICK c : c = IF p.linepos # 0 THEN b \o <<CR, LF>> ELSE b
    OBVIOUS
  <2>4. c \in Seq(Int) /\ Reads(r, w \o c, q)
    BY <2>2, <2>3, SentBreak DEF Sent
  <2>5. End(p) = [p EXCEPT !.buf = c, !.linepos = 0, !.phase = 0]
    BY <2>2, <2>3
  <2>8. PICK h \in 0 .. 2 : h = 0
    OBVIOUS
  <2>6. PICK f : f = [p EXCEPT !.buf = c, !.linepos = h, !.phase = h]
    OBVIOUS
  <2>7. f \in Encoders(V) /\ f.buf = c /\ f.phase = h
    <3>1. h \in Int
      BY <2>8
    <3> QED
      BY <2>4, <2>6, <3>1 DEF Encoders
  <2> QED
    BY <2>4, <2>5, <2>6, <2>7, <2>8 DEF Sent
<1> HIDE DEF End
<1>4. CASE e.phase = 0
  <2>1. z_code_base64_encode_finish(e) = End(e) /\ AfterEnd(s, e) = s
    BY <1>4 DEF z_code_base64_encode_finish, AfterEnd, End
  <2> QED
    BY <1>3, <2>1
<1>5. CASE e.phase = 1
  <2>1. PICK c \in Int : c = Char(((e.part \div 16) % 4) * 16)
    BY <1>2, CharInt
  <2>2. PICK f : f = z_code_base64_encode_fix(e, c)
    OBVIOUS
  <2>3. f \in Encoders(V) /\ Sent(r, w, f, DecodeChar(s, c))
    BY <2>2, FixSends DEF Fixed
  <2>4. PICK g : g = z_code_base64_encode_fix(f, EQ)
    OBVIOUS
  <2>5. g \in Encoders(V) /\ Sent(r, w, g, DecodeChar(DecodeChar(s, c), EQ))
    BY <1>2, <2>3, <2>4, FixSends DEF Fixed
  <2>6. PICK h : h = z_code_base64_encode_fix(g, EQ)
    OBVIOUS
  <2>7. h \in Encoders(V) /\ Sent(r, w, h, DecodeChar(DecodeChar(DecodeChar(s, c), EQ), EQ))
    BY <1>2, <2>5, <2>6, FixSends DEF Fixed
  <2>8. /\ z_code_base64_encode_finish(e) = End(h)
        /\ AfterEnd(s, e) = DecodeChar(DecodeChar(DecodeChar(s, c), EQ), EQ)
    BY <1>5, <2>1, <2>2, <2>4, <2>6 DEF z_code_base64_encode_finish, AfterEnd, End
  <2> QED
    BY <1>3, <2>7, <2>8
<1>6. CASE e.phase = 2
  <2>1. PICK c \in Int : c = Char(((e.part \div 4) % 16) * 4)
    BY <1>2, CharInt
  <2>2. PICK f : f = z_code_base64_encode_fix(e, c)
    OBVIOUS
  <2>3. f \in Encoders(V) /\ Sent(r, w, f, DecodeChar(s, c))
    BY <2>2, FixSends DEF Fixed
  <2>4. PICK g : g = z_code_base64_encode_fix(f, EQ)
    OBVIOUS
  <2>5. g \in Encoders(V) /\ Sent(r, w, g, DecodeChar(DecodeChar(s, c), EQ))
    BY <1>2, <2>3, <2>4, FixSends DEF Fixed
  <2>6. /\ z_code_base64_encode_finish(e) = End(g)
        /\ AfterEnd(s, e) = DecodeChar(DecodeChar(s, c), EQ)
    BY <1>6, <2>1, <2>2, <2>4 DEF z_code_base64_encode_finish, AfterEnd, End
  <2> QED
    BY <1>3, <2>5, <2>6
<1> QED
  BY <1>1, <1>4, <1>5, <1>6

-----------------------------------------------------------------------------
(* What the decoder makes of it. *)

\* The decoder has the first n bytes of x and is in that phase.
At(s, V, phase, n, x) ==
    /\ s \in Readers(V)
    /\ s.failed = FALSE
    /\ s.code.phase = phase
    /\ s.code.buf \in Seq(Int)
    /\ Len(s.code.buf) = n
    /\ \A i \in 1 .. n : s.code.buf[i] = x[i]

LEMMA AtBits ==
    ASSUME NEW V, NEW s, NEW n \in Nat, NEW x, NEW phase \in Int, At(s, V, phase, n, x), phase # 4,
           NEW v \in 0 .. 63
    PROVE  DecodeChar(s, Char(v)) = [code |-> Bits(s.code, v), failed |-> FALSE]
<1>1. v \in Nat /\ v % 64 = v
  OBVIOUS
<1>2. PICK c \in Int : c = Char(v) /\ Value(c) = v
  BY <1>1, CharValue
<1>3. Value(c) # -1 /\ Value(c) # -2 /\ Value(c) # -3
  BY <1>2
<1>4. ~s.failed /\ s.code.phase # 4
  BY DEF At
<1>5. DecodeChar(s, c) = [code |-> Bits(s.code, Value(c)), failed |-> FALSE]
  BY <1>3, <1>4 DEF DecodeChar
<1> QED
  BY <1>2, <1>5

\* A decoder with another result, part of a byte and phase.
Turned(d, y, p, h) == [d EXCEPT !.buf = y, !.part = p, !.phase = h]

\* A character that only begins a byte.
LEMMA AtFirst ==
    ASSUME NEW V, NEW s, NEW n \in Nat, NEW x, NEW phase \in Int, phase = 0,
           At(s, V, phase, n, x), NEW v \in 0 .. 63, NEW q, q = DecodeChar(s, Char(v))
    PROVE  At(q, V, phase + 1, n, x) /\ q.code.part = v * 4
<1>1. PICK p \in Int : p = v * 4 /\ (v * 4) % 256 = p
  OBVIOUS
<1>2. q = [code |-> Bits(s.code, v), failed |-> FALSE]
  BY AtBits
<1>3. PICK d : d = s.code
  OBVIOUS
<1>4. /\ d \in Decoders(V) /\ d.phase = phase /\ d.buf \in Seq(Int) /\ Len(d.buf) = n
      /\ \A i \in 1 .. n : d.buf[i] = x[i]
  BY <1>3 DEF At, Readers, Decoders
<1>5. PICK h \in 0 .. 4 : h = phase + 1
  OBVIOUS
<1>6. Bits(d, v) = [d EXCEPT !.part = p, !.phase = h]
  <2>1. d.phase = 0 /\ h = 1
    BY <1>4, <1>5
  <2>2. Bits(d, v) = [d EXCEPT !.part = (v * 4) % 256, !.phase = 1]
    BY <2>1 DEF Bits
  <2> QED
    BY <1>1, <2>1, <2>2
<1>7. PICK t : t = Turned(d, d.buf, p, h)
  OBVIOUS
<1>8. Bits(d, v) = t
  BY <1>4, <1>6, <1>7 DEF Turned, Decoders
<1>9. At([code |-> t, failed |-> FALSE], V, h, n, x) /\ t.part = p
  <2>1. t \in Decoders(V) /\ t.part = p /\ t.phase = h /\ t.buf = d.buf
    BY <1>4, <1>5, <1>7 DEF Turned, Decoders
  <2> QED
    BY <1>4, <2>1 DEF At, Readers
<1> QED
  BY <1>1, <1>2, <1>3, <1>5, <1>8, <1>9

\* One more byte.
LEMMA OneMore ==
    ASSUME NEW n \in Nat, NEW x, NEW c \in Int, c = x[n + 1], NEW e \in Seq(Int), Len(e) = n,
           \A i \in 1 .. n : e[i] = x[i], NEW y, y = Append(e, c)
    PROVE  y \in Seq(Int) /\ Len(y) = n + 1 /\ \A i \in 1 .. n + 1 : y[i] = x[i]
<1>1. y \in Seq(Int) /\ Len(y) = n + 1 /\ y[n + 1] = c /\ \A i \in 1 .. n : y[i] = e[i]
  OBVIOUS
<1>2. \A i \in 1 .. n + 1 : i \in 1 .. n \/ i = n + 1
  OBVIOUS
<1> QED
  BY <1>1, <1>2

\* The padding.
LEMMA AtPad ==
    ASSUME NEW V, NEW s, NEW n \in Nat, NEW x, NEW phase \in Int, phase \in 2 .. 4,
           At(s, V, phase, n, x)
    PROVE  At(DecodeChar(s, EQ), V, IF phase = 2 THEN 4 ELSE 0, n, x)
<1>1. PICK d : d = s.code
  OBVIOUS
<1>2. /\ d \in Decoders(V) /\ d.phase = phase /\ d.part \in Int /\ d.buf \in Seq(Int)
      /\ Len(d.buf) = n /\ \A i \in 1 .. n : d.buf[i] = x[i]
  BY <1>1 DEF At, Readers, Decoders
<1>3. Value(EQ) = -2 /\ ~s.failed
  BY OtherValues DEF At
<1>4. PICK h \in 0 .. 4 : h = IF phase = 2 THEN 4 ELSE 0
  OBVIOUS
<1>5. PICK t : t = Turned(d, d.buf, d.part, h)
  OBVIOUS
<1>6. [d EXCEPT !.phase = h] = t
  BY <1>2, <1>5 DEF Turned, Decoders
<1>7. DecodeChar(s, EQ) = [code |-> t, failed |-> FALSE]
  <2>1. CASE phase = 2
    <3>1. DecodeChar(s, EQ) = [code |-> [d EXCEPT !.phase = 4], failed |-> FALSE]
      BY <1>1, <1>2, <1>3, <2>1 DEF DecodeChar
    <3> QED
      BY <1>4, <1>6, <2>1, <3>1
  <2>2. CASE phase \in {3, 4}
    <3>1. DecodeChar(s, EQ) = [code |-> [d EXCEPT !.phase = 0], failed |-> FALSE]
      BY <1>1, <1>2, <1>3, <2>2 DEF DecodeChar
    <3>2. h = 0
      BY <1>4, <2>2
    <3> QED
      BY <1>6, <3>1, <3>2
  <2>3. phase = 2 \/ phase \in {3, 4}
    OBVIOUS
  <2> QED
    BY <2>1, <2>2, <2>3
<1>8. At([code |-> t, failed |-> FALSE], V, h, n, x)
  <2>1. t \in Decoders(V) /\ t.phase = h /\ t.buf = d.buf
    BY <1>2, <1>4, <1>5 DEF Turned, Decoders
  <2> QED
    BY <1>2, <2>1 DEF At, Readers
<1> QED
  BY <1>4, <1>7, <1>8

\* The two parts of a byte are put together again.
LEMMA OrParts ==
    ASSUME NEW c \in 0 .. 255
    PROVE  /\ BitOr((c \div 4) * 4, c % 4) = c
           /\ BitOr((c \div 16) * 16, c % 16) = c
           /\ BitOr((c \div 64) * 64, c % 64) = c
<1>1. PICK i \in 0 .. 63, j \in 0 .. 3 : i = c \div 4 /\ j = c % 4
  OBVIOUS
<1>2. PICK k \in 0 .. 15, l \in 0 .. 15 : k = c \div 16 /\ l = c % 16
  OBVIOUS
<1>3. PICK m \in 0 .. 3, n \in 0 .. 63 : m = c \div 64 /\ n = c % 64
  OBVIOUS
<1>4. BitOr(4 * i, j) = 4 * i + j /\ 4 * i = i * 4 /\ 4 * i + j = c
  BY <1>1, OrFour
<1>5. BitOr(16 * k, l) = 16 * k + l /\ 16 * k = k * 16 /\ 16 * k + l = c
  BY <1>2, OrSixteen
<1>6. BitOr(64 * m, n) = 64 * m + n /\ 64 * m = m * 64 /\ 64 * m + n = c
  BY <1>3, OrSixtyFour
<1> QED
  BY <1>1, <1>2, <1>3, <1>4, <1>5, <1>6

\* What the encoder makes of the end of one byte and the beginning of the next.
OneAndTwo(c, b) ==
    \E v \in 0 .. 63 : /\ v = BitOr((c % 4) * 16, b \div 16)
                      /\ v \div 16 = c % 4 /\ (v % 16) * 16 = (b \div 16) * 16

TwoAndThree(c, b) ==
    \E v \in 0 .. 63 : /\ v = BitOr((c % 16) * 4, b \div 64)
                      /\ v \div 4 = c % 16 /\ (v % 4) * 64 = (b \div 64) * 64

LEMMA OrNeighbours ==
    ASSUME NEW c \in 0 .. 255, NEW b \in 0 .. 255
    PROVE  OneAndTwo(c, b) /\ TwoAndThree(c, b)
<1>1. PICK i \in 0 .. 3, j \in 0 .. 15 : i = c % 4 /\ j = b \div 16
  OBVIOUS
<1>2. PICK k \in 0 .. 15, l \in 0 .. 3 : k = c % 16 /\ l = b \div 64
  OBVIOUS
<1>3. i \in 0 .. 15 /\ 16 * i = i * 16
  BY <1>1
<1>4. k \in 0 .. 63 /\ 4 * k = k * 4
  BY <1>2
<1>5. BitOr(16 * i, j) = 16 * i + j
  BY <1>1, <1>3, OrSixteen
<1>6. BitOr(4 * k, l) = 4 * k + l
  BY <1>2, <1>4, OrFour
<1>7. PICK v \in 0 .. 63 : v = 16 * i + j
  BY <1>1
<1>8. v \div 16 = i /\ v % 16 = j
  BY <1>1, <1>7
<1>9. PICK w \in 0 .. 63 : w = 4 * k + l
  BY <1>2
<1>10. w \div 4 = k /\ w % 4 = l
  BY <1>2, <1>9
<1>11. v = BitOr((c % 4) * 16, b \div 16) /\ v \div 16 = c % 4 /\ (v % 16) * 16 = (b \div 16) * 16
  BY <1>1, <1>3, <1>5, <1>7, <1>8
<1>12. w = BitOr((c % 16) * 4, b \div 64) /\ w \div 4 = c % 16 /\ (w % 4) * 64 = (b \div 64) * 64
  BY <1>2, <1>4, <1>6, <1>9, <1>10
<1> QED
  BY <1>11, <1>12 DEF OneAndTwo, TwoAndThree

\* And of the end of the last.
LEMMA LastParts ==
    ASSUME NEW c \in 0 .. 255
    PROVE  /\ \E v \in 0 .. 63 : /\ v = ((((c % 4) * 16) \div 16) % 4) * 16
                                 /\ v \div 16 = c % 4
           /\ \E v \in 0 .. 63 : /\ v = ((((c % 16) * 4) \div 4) % 16) * 4
                                 /\ v \div 4 = c % 16
<1>1. PICK i \in 0 .. 3, k \in 0 .. 15 : i = c % 4 /\ k = c % 16
  OBVIOUS
<1>2. ((i * 16) \div 16) % 4 = i /\ ((k * 4) \div 4) % 16 = k
  BY <1>1
<1>3. PICK v \in 0 .. 63, w \in 0 .. 63 : v = i * 16 /\ w = k * 4
  BY <1>1
<1>4. v \div 16 = i /\ w \div 4 = k
  BY <1>1, <1>3
<1> QED
  BY <1>1, <1>2, <1>3, <1>4

\* The second, third and fourth of the characters of a triple.
Second(s, V, phase, h, n, m, x, c, v, q) ==
    /\ n \in Nat /\ m = n + 1 /\ c \in 0 .. 255 /\ v \in 0 .. 63
    /\ At(s, V, phase, n, x) /\ phase = 1 /\ h = 2 /\ c = x[m]
    /\ s.code.part = (c \div 4) * 4 /\ v \div 16 = c % 4 /\ q = DecodeChar(s, Char(v))

LEMMA AtSecond ==
    ASSUME NEW V, NEW s, NEW phase, NEW h, NEW n, NEW m, NEW x, NEW c, NEW v, NEW q,
           Second(s, V, phase, h, n, m, x, c, v, q)
    PROVE  At(q, V, h, m, x) /\ q.code.part = (v % 16) * 16
<1> SUFFICES ASSUME n \in Nat, m = n + 1, phase \in Int, c \in 0 .. 255, v \in 0 .. 63,
                    phase = 1, h = 2, At(s, V, phase, n, x), c = x[n + 1],
                    s.code.part = (c \div 4) * 4, v \div 16 = c % 4, q = DecodeChar(s, Char(v))
             PROVE  At(q, V, h, m, x) /\ q.code.part = (v % 16) * 16
  BY DEF Second
<1>1. PICK d : d = s.code
  OBVIOUS
<1>2. /\ d \in Decoders(V) /\ d.phase = 1 /\ d.buf \in Seq(Int) /\ d.part \in Int
      /\ Len(d.buf) = n /\ \A i \in 1 .. n : d.buf[i] = x[i]
  BY <1>1 DEF At, Readers, Decoders
<1>3. BitOr(d.part, v \div 16) = c
  <2>1. BitOr((c \div 4) * 4, c % 4) = c
    BY OrParts
  <2> QED
    BY <1>1, <2>1
<1>4. PICK y : y = Append(d.buf, c)
  OBVIOUS
<1>5. y \in Seq(Int) /\ Len(y) = n + 1 /\ \A i \in 1 .. n + 1 : y[i] = x[i]
  <2>1. PICK e \in Seq(Int) : e = d.buf
    BY <1>2
  <2>2. c \in Int /\ c = x[n + 1]
    OBVIOUS
  <2>3. Len(e) = n /\ (\A i \in 1 .. n : e[i] = x[i]) /\ y = Append(e, c)
    BY <1>2, <1>4, <2>1
  <2> QED
    BY <2>2, <2>3, OneMore
<1>6. PICK p \in Int : p = (v % 16) * 16
  OBVIOUS
<1>7. PICK g \in 0 .. 4 : g = 2
  OBVIOUS
<1>12. PICK t : t = Turned(d, y, p, g)
  OBVIOUS
<1>8. Bits(d, v) = t
  <2>1. Bits(d, v) = [d EXCEPT !.buf = Append(@, BitOr(d.part, v \div 16)), !.part = (v * 16) % 256, !.phase = 2]
    BY <1>2 DEF Bits
  <2>2. (v * 16) % 256 = (v % 16) * 16
    OBVIOUS
  <2> QED
    BY <1>3, <1>4, <1>6, <1>7, <1>12, <2>1, <2>2 DEF Turned
<1>9. t \in Decoders(V) /\ t.part = p /\ t.phase = g /\ t.buf = y
  <2>1. t \in Decoders(V)
    BY <1>2, <1>5, <1>6, <1>7, <1>12 DEF Turned, Decoders
  <2>2. t.part = p /\ t.phase = g /\ t.buf = y
    BY <1>2, <1>12 DEF Turned, Decoders
  <2> QED
    BY <2>1, <2>2
<1>10. q = [code |-> t, failed |-> FALSE]
  <2>1. phase # 4
    OBVIOUS
  <2> QED
    BY <1>1, <1>8, <2>1, AtBits
<1>11. At([code |-> t, failed |-> FALSE], V, g, n + 1, x)
  BY <1>5, <1>9 DEF At, Readers
<1> QED
  BY <1>6, <1>7, <1>9, <1>10, <1>11

Third(s, V, phase, h, n, m, x, c, v, q) ==
    /\ n \in Nat /\ m = n + 1 /\ c \in 0 .. 255 /\ v \in 0 .. 63
    /\ At(s, V, phase, n, x) /\ phase = 2 /\ h = 3 /\ c = x[m]
    /\ s.code.part = (c \div 16) * 16 /\ v \div 4 = c % 16 /\ q = DecodeChar(s, Char(v))

LEMMA AtThird ==
    ASSUME NEW V, NEW s, NEW phase, NEW h, NEW n, NEW m, NEW x, NEW c, NEW v, NEW q,
           Third(s, V, phase, h, n, m, x, c, v, q)
    PROVE  At(q, V, h, m, x) /\ q.code.part = (v % 4) * 64
<1> SUFFICES ASSUME n \in Nat, m = n + 1, phase \in Int, c \in 0 .. 255, v \in 0 .. 63,
                    phase = 2, h = 3, At(s, V, phase, n, x), c = x[n + 1],
                    s.code.part = (c \div 16) * 16, v \div 4 = c % 16, q = DecodeChar(s, Char(v))
             PROVE  At(q, V, h, m, x) /\ q.code.part = (v % 4) * 64
  BY DEF Third
<1>1. PICK d : d = s.code
  OBVIOUS
<1>2. /\ d \in Decoders(V) /\ d.phase = 2 /\ d.buf \in Seq(Int) /\ d.part \in Int
      /\ Len(d.buf) = n /\ \A i \in 1 .. n : d.buf[i] = x[i]
  BY <1>1 DEF At, Readers, Decoders
<1>3. BitOr(d.part, v \div 4) = c
  <2>1. BitOr((c \div 16) * 16, c % 16) = c
    BY OrParts
  <2> QED
    BY <1>1, <2>1
<1>4. PICK y : y = Append(d.buf, c)
  OBVIOUS
<1>5. y \in Seq(Int) /\ Len(y) = n + 1 /\ \A i \in 1 .. n + 1 : y[i] = x[i]
  <2>1. PICK e \in Seq(Int) : e = d.buf
    BY <1>2
  <2>2. c \in Int /\ c = x[n + 1]
    OBVIOUS
  <2>3. Len(e) = n /\ (\A i \in 1 .. n : e[i] = x[i]) /\ y = Append(e, c)
    BY <1>2, <1>4, <2>1
  <2> QED
    BY <2>2, <2>3, OneMore
<1>6. PICK p \in Int : p = (v % 4) * 64
  OBVIOUS
<1>7. PICK g \in 0 .. 4 : g = 3
  OBVIOUS
<1>12. PICK t : t = Turned(d, y, p, g)
  OBVIOUS
<1>8. Bits(d, v) = t
  <2>1. Bits(d, v) = [d EXCEPT !.buf = Append(@, BitOr(d.part, v \div 4)), !.part = (v * 64) % 256, !.phase = 3]
    BY <1>2 DEF Bits
  <2>2. (v * 64) % 256 = (v % 4) * 64
    OBVIOUS
  <2> QED
    BY <1>3, <1>4, <1>6, <1>7, <1>12, <2>1, <2>2 DEF Turned
<1>9. t \in Decoders(V) /\ t.part = p /\ t.phase = g /\ t.buf = y
  <2>1. t \in Decoders(V)
    BY <1>2, <1>5, <1>6, <1>7, <1>12 DEF Turned, Decoders
  <2>2. t.part = p /\ t.phase = g /\ t.buf = y
    BY <1>2, <1>12 DEF Turned, Decoders
  <2> QED
    BY <2>1, <2>2
<1>10. q = [code |-> t, failed |-> FALSE]
  <2>1. phase # 4
    OBVIOUS
  <2> QED
    BY <1>1, <1>8, <2>1, AtBits
<1>11. At([code |-> t, failed |-> FALSE], V, g, n + 1, x)
  BY <1>5, <1>9 DEF At, Readers
<1> QED
  BY <1>6, <1>7, <1>9, <1>10, <1>11

Fourth(s, V, phase, h, n, m, x, c, v, q) ==
    /\ n \in Nat /\ m = n + 1 /\ c \in 0 .. 255 /\ v \in 0 .. 63
    /\ At(s, V, phase, n, x) /\ phase = 3 /\ h = 0 /\ c = x[m]
    /\ s.code.part = (c \div 64) * 64 /\ v = c % 64 /\ q = DecodeChar(s, Char(v))

LEMMA AtFourth ==
    ASSUME NEW V, NEW s, NEW phase, NEW h, NEW n, NEW m, NEW x, NEW c, NEW v, NEW q,
           Fourth(s, V, phase, h, n, m, x, c, v, q)
    PROVE  At(q, V, h, m, x)
<1> SUFFICES ASSUME n \in Nat, m = n + 1, phase \in Int, c \in 0 .. 255, v \in 0 .. 63,
                    phase = 3, h = 0, At(s, V, phase, n, x), c = x[n + 1],
                    s.code.part = (c \div 64) * 64, v = c % 64, q = DecodeChar(s, Char(v))
             PROVE  At(q, V, h, m, x)
  BY DEF Fourth
<1>1. PICK d : d = s.code
  OBVIOUS
<1>2. /\ d \in Decoders(V) /\ d.phase = 3 /\ d.buf \in Seq(Int) /\ d.part \in Int
      /\ Len(d.buf) = n /\ \A i \in 1 .. n : d.buf[i] = x[i]
  BY <1>1 DEF At, Readers, Decoders
<1>3. BitOr(d.part, v) = c
  <2>1. BitOr((c \div 64) * 64, c % 64) = c
    BY OrParts
  <2> QED
    BY <1>1, <2>1
<1>4. PICK y : y = Append(d.buf, c)
  OBVIOUS
<1>5. y \in Seq(Int) /\ Len(y) = n + 1 /\ \A i \in 1 .. n + 1 : y[i] = x[i]
  <2>1. PICK e \in Seq(Int) : e = d.buf
    BY <1>2
  <2>2. c \in Int /\ c = x[n + 1]
    OBVIOUS
  <2>3. Len(e) = n /\ (\A i \in 1 .. n : e[i] = x[i]) /\ y = Append(e, c)
    BY <1>2, <1>4, <2>1
  <2> QED
    BY <2>2, <2>3, OneMore
<1>6. PICK p \in Int : p = d.part
  BY <1>2
<1>7. PICK g \in 0 .. 4 : g = 0
  OBVIOUS
<1>12. PICK t : t = Turned(d, y, p, g)
  OBVIOUS
<1>8. Bits(d, v) = t
  <2>1. Bits(d, v) = [d EXCEPT !.buf = Append(@, BitOr(d.part, v)), !.phase = 0]
    BY <1>2 DEF Bits
  <2>2. Bits(d, v) = [d EXCEPT !.buf = y, !.phase = g]
    BY <1>3, <1>4, <1>7, <2>1
  <2>3. [d EXCEPT !.buf = y, !.phase = g] = Turned(d, y, d.part, g)
    BY <1>2 DEF Turned, Decoders
  <2> QED
    BY <1>6, <1>12, <2>2, <2>3
<1>9. t \in Decoders(V) /\ t.part = p /\ t.phase = g /\ t.buf = y
  <2>1. t \in Decoders(V)
    BY <1>2, <1>5, <1>6, <1>7, <1>12 DEF Turned, Decoders
  <2>2. t.part = p /\ t.phase = g /\ t.buf = y
    BY <1>2, <1>12 DEF Turned, Decoders
  <2> QED
    BY <2>1, <2>2
<1>10. q = [code |-> t, failed |-> FALSE]
  <2>1. phase # 4
    OBVIOUS
  <2> QED
    BY <1>1, <1>8, <2>1, AtBits
<1>11. At([code |-> t, failed |-> FALSE], V, g, n + 1, x)
  BY <1>5, <1>9 DEF At, Readers
<1> QED
  BY <1>7, <1>10, <1>11

\* The decoder has what was given to the encoder, but for the bits that the
\* encoder holds back.
InStep(s, V, e, n, x) ==
    /\ At(s, V, e.phase, IF e.phase = 0 THEN n ELSE n - 1, x)
    /\ e.phase # 0 => n >= 1
    /\ e.phase = 1 => e.part = (x[n] % 4) * 16 /\ s.code.part = (x[n] \div 4) * 4
    /\ e.phase = 2 => e.part = (x[n] % 16) * 4 /\ s.code.part = (x[n] \div 16) * 16

\* The encoder f is e after the byte b.
Encoded(e, f, b) ==
    /\ f.phase = (e.phase + 1) % 3
    /\ e.phase = 0 => f.part = (b % 4) * 16
    /\ e.phase = 1 => f.part = (b % 16) * 4

\* And b the byte of x that comes after the n that the decoder s has been brought to.
Given(V, e, f, s, x, n, b) ==
    /\ n \in Nat /\ b \in 0 .. 255 /\ b = x[n + 1]
    /\ e.phase # 0 => n >= 1 /\ x[n] \in 0 .. 255
    /\ InStep(s, V, e, n, x) /\ Encoded(e, f, b)

LEMMA ByteZero ==
    ASSUME NEW V, NEW e, NEW f, NEW s, NEW x, NEW n, NEW b, Given(V, e, f, s, x, n, b),
           e.phase = 0
    PROVE  InStep(AfterByte(s, e, b), V, f, n + 1, x)
<1> SUFFICES ASSUME n \in Nat, b \in 0 .. 255, b = x[n + 1], InStep(s, V, e, n, x),
                    f.phase = 1, f.part = (b % 4) * 16
             PROVE  InStep(AfterByte(s, e, b), V, f, n + 1, x)
  BY DEF Given, Encoded
<1>1. PICK v \in 0 .. 63 : v = b \div 4
  OBVIOUS
<1>2. PICK q : q = DecodeChar(s, Char(v))
  OBVIOUS
<1>3. PICK p \in Int : p = 0
  OBVIOUS
<1>4. At(s, V, p, n, x)
  BY <1>3 DEF InStep
<1>5. At(q, V, p + 1, n, x) /\ q.code.part = v * 4
  BY <1>2, <1>3, <1>4, AtFirst
<1>6. AfterByte(s, e, b) = q
  BY <1>1, <1>2 DEF AfterByte
<1>7. f.phase = p + 1 /\ f.phase # 0 /\ f.phase # 2 /\ (n + 1) - 1 = n /\ n + 1 >= 1
  BY <1>3
<1>8. q.code.part = (b \div 4) * 4
  BY <1>1, <1>5
<1>9. At(q, V, f.phase, (n + 1) - 1, x)
  BY <1>5, <1>7
<1> QED
  BY <1>6, <1>7, <1>8, <1>9 DEF InStep

LEMMA ByteOne ==
    ASSUME NEW V, NEW e, NEW f, NEW s, NEW x, NEW n, NEW b, Given(V, e, f, s, x, n, b),
           e.phase = 1
    PROVE  InStep(AfterByte(s, e, b), V, f, n + 1, x)
<1> SUFFICES ASSUME n \in Nat, b \in 0 .. 255, b = x[n + 1], n >= 1, x[n] \in 0 .. 255,
                    InStep(s, V, e, n, x), f.phase = 2, f.part = (b % 16) * 4
             PROVE  InStep(AfterByte(s, e, b), V, f, n + 1, x)
  BY DEF Given, Encoded
<1>1. PICK m \in Nat, c \in 0 .. 255 : n = m + 1 /\ n - 1 = m /\ c = x[n]
  <2>1. n - 1 \in Nat /\ n = (n - 1) + 1
    OBVIOUS
  <2> QED
    BY <2>1
<1>2. PICK v \in 0 .. 63 : /\ v = BitOr((c % 4) * 16, b \div 16)
                           /\ v \div 16 = c % 4 /\ (v % 16) * 16 = (b \div 16) * 16
  <2>1. OneAndTwo(c, b)
    BY OrNeighbours
  <2> QED
    BY <2>1 DEF OneAndTwo
<1>3. PICK q : q = DecodeChar(s, Char(v))
  OBVIOUS
<1>20. PICK p \in Int, h \in Int : p = 1 /\ h = 2
  OBVIOUS
<1>4. At(s, V, p, m, x) /\ e.part = (c % 4) * 16 /\ s.code.part = (c \div 4) * 4
  BY <1>1, <1>20 DEF InStep
<1>5. At(q, V, h, n, x) /\ q.code.part = (v % 16) * 16
  <2>1. Second(s, V, p, h, m, n, x, c, v, q)
    BY <1>1, <1>2, <1>3, <1>20, <1>4 DEF Second
  <2> QED
    BY <2>1, AtSecond
<1>6. AfterByte(s, e, b) = q
  BY <1>2, <1>3, <1>20, <1>4 DEF AfterByte
<1>7. f.phase = h /\ f.phase # 0 /\ f.phase # 1 /\ (n + 1) - 1 = n /\ n + 1 >= 1
  BY <1>3, <1>20
<1>8. q.code.part = (b \div 16) * 16
  BY <1>2, <1>5
<1>9. At(q, V, f.phase, (n + 1) - 1, x)
  BY <1>5, <1>7
<1> QED
  BY <1>6, <1>7, <1>8, <1>9 DEF InStep

LEMMA ByteTwo ==
    ASSUME NEW V, NEW e, NEW f, NEW s, NEW x, NEW n, NEW b, Given(V, e, f, s, x, n, b),
           e.phase = 2
    PROVE  InStep(AfterByte(s, e, b), V, f, n + 1, x)
<1> SUFFICES ASSUME n \in Nat, b \in 0 .. 255, b = x[n + 1], n >= 1, x[n] \in 0 .. 255,
                    InStep(s, V, e, n, x), f.phase = 0
             PROVE  InStep(AfterByte(s, e, b), V, f, n + 1, x)
  BY DEF Given, Encoded
<1>1. PICK m \in Nat, c \in 0 .. 255, k \in Nat :
          n = m + 1 /\ n - 1 = m /\ c = x[n] /\ k = n + 1
  <2>1. n - 1 \in Nat /\ n = (n - 1) + 1
    OBVIOUS
  <2> QED
    BY <2>1
<1>2. PICK v \in 0 .. 63 : /\ v = BitOr((c % 16) * 4, b \div 64)
                           /\ v \div 4 = c % 16 /\ (v % 4) * 64 = (b \div 64) * 64
  <2>1. TwoAndThree(c, b)
    BY OrNeighbours
  <2> QED
    BY <2>1 DEF TwoAndThree
<1>3. PICK q : q = DecodeChar(s, Char(v))
  OBVIOUS
<1>20. PICK p \in Int, h \in Int : p = 2 /\ h = 3
  OBVIOUS
<1>4. At(s, V, p, m, x) /\ e.part = (c % 16) * 4 /\ s.code.part = (c \div 16) * 16
  BY <1>1, <1>20 DEF InStep
<1>5. At(q, V, h, n, x) /\ q.code.part = (v % 4) * 64
  <2>1. Third(s, V, p, h, m, n, x, c, v, q)
    BY <1>1, <1>2, <1>3, <1>20, <1>4 DEF Third
  <2>2. At(q, V, h, n, x)
    BY <2>1, AtThird
  <2>3. q.code.part = (v % 4) * 64
    BY <2>1, AtThird
  <2> QED
    BY <2>2, <2>3
<1>12. PICK w \in 0 .. 63, z \in Int : w = b % 64 /\ z = 0
  OBVIOUS
<1>6. PICK t : t = DecodeChar(q, Char(w))
  OBVIOUS
<1>7. q.code.part = (b \div 64) * 64
  BY <1>2, <1>5
<1>8. At(t, V, z, k, x)
  <2>1. Fourth(q, V, h, z, n, k, x, b, w, t)
    BY <1>1, <1>3, <1>20, <1>5, <1>6, <1>7, <1>12 DEF Fourth
  <2> QED
    BY <2>1, AtFourth
<1>9. AfterByte(s, e, b) = t
  BY <1>2, <1>3, <1>20, <1>4, <1>6, <1>12 DEF AfterByte
<1>10. f.phase = z /\ f.phase = 0 /\ f.phase # 1 /\ f.phase # 2
  BY <1>12
<1>11. At(t, V, f.phase, n + 1, x)
  BY <1>1, <1>8, <1>10
<1> QED
  BY <1>9, <1>10, <1>11 DEF InStep

LEMMA ByteOf ==
    ASSUME NEW S, NEW x \in Seq(S), NEW n \in 1 .. Len(x)
    PROVE  x[n] \in S
  OBVIOUS

\* A byte given to the encoder is known to the decoder, as far as it can be.
LEMMA ByteInStep ==
    ASSUME NEW V, NEW W, NEW e \in Encoders(W), NEW f, NEW s,
           NEW x \in Seq(0 .. 255), NEW n \in Nat, n + 1 <= Len(x), NEW b \in 0 .. 255, b = x[n + 1],
           InStep(s, V, e, n, x), Encoded(e, f, b)
    PROVE  InStep(AfterByte(s, e, b), V, f, n + 1, x)
<1>1. e.phase = 0 \/ e.phase = 1 \/ e.phase = 2
  BY DEF Encoders
<1>2. ASSUME e.phase # 0 PROVE n >= 1 /\ x[n] \in 0 .. 255
  <2>1. n >= 1
    BY <1>2 DEF InStep
  <2>2. n \in 1 .. Len(x)
    BY <2>1
  <2>3. x[n] \in 0 .. 255
    BY <2>2, ByteOf
  <2> QED
    BY <2>1, <2>3
<1>3. Given(V, e, f, s, x, n, b)
  BY <1>2 DEF Given
<1> QED
  BY <1>1, <1>3, ByteZero, ByteOne, ByteTwo

LEMMA EndOne ==
    ASSUME NEW V, NEW e, NEW f, NEW s, NEW x, NEW n \in Nat, n >= 1, x[n] \in 0 .. 255,
           InStep(s, V, e, n, x), e.phase = 1, f.phase = 0
    PROVE  InStep(AfterEnd(s, e), V, f, n, x)
<1>1. PICK m \in Nat, c \in 0 .. 255 : n = m + 1 /\ n - 1 = m /\ c = x[n]
  <2>1. n - 1 \in Nat /\ n = (n - 1) + 1
    OBVIOUS
  <2> QED
    BY <2>1
<1>2. PICK v \in 0 .. 63 : v = ((((c % 4) * 16) \div 16) % 4) * 16 /\ v \div 16 = c % 4
  BY LastParts
<1>3. PICK q : q = DecodeChar(s, Char(v))
  OBVIOUS
<1>20. PICK p \in Int, h \in Int : p = 1 /\ h = 2
  OBVIOUS
<1>4. At(s, V, p, m, x) /\ e.part = (c % 4) * 16 /\ s.code.part = (c \div 4) * 4
  BY <1>1, <1>20 DEF InStep
<1>5. At(q, V, h, n, x)
  <2>1. Second(s, V, p, h, m, n, x, c, v, q)
    BY <1>1, <1>2, <1>3, <1>20, <1>4 DEF Second
  <2> QED
    BY <2>1, AtSecond
<1>6. AfterEnd(s, e) = DecodeChar(DecodeChar(q, EQ), EQ)
  BY <1>2, <1>3, <1>20, <1>4 DEF AfterEnd
<1>7. PICK k \in Int, z \in Int : k = 4 /\ z = 0
  OBVIOUS
<1>21. PICK t : t = DecodeChar(q, EQ)
  OBVIOUS
<1>8. At(t, V, k, n, x)
  <2>1. At(t, V, IF h = 2 THEN 4 ELSE 0, n, x)
    BY <1>3, <1>20, <1>5, <1>7, <1>21, AtPad
  <2> QED
    BY <1>3, <1>20, <1>7, <1>21, <2>1
<1>9. At(DecodeChar(t, EQ), V, z, n, x)
  <2>1. At(DecodeChar(t, EQ), V, IF k = 2 THEN 4 ELSE 0, n, x)
    BY <1>7, <1>21, <1>8, AtPad
  <2> QED
    BY <1>7, <1>21, <2>1
<1> QED
  BY <1>6, <1>7, <1>21, <1>9 DEF InStep

LEMMA EndTwo ==
    ASSUME NEW V, NEW e, NEW f, NEW s, NEW x, NEW n \in Nat, n >= 1, x[n] \in 0 .. 255,
           InStep(s, V, e, n, x), e.phase = 2, f.phase = 0
    PROVE  InStep(AfterEnd(s, e), V, f, n, x)
<1>1. PICK m \in Nat, c \in 0 .. 255 : n = m + 1 /\ n - 1 = m /\ c = x[n]
  <2>1. n - 1 \in Nat /\ n = (n - 1) + 1
    OBVIOUS
  <2> QED
    BY <2>1
<1>2. PICK v \in 0 .. 63 : v = ((((c % 16) * 4) \div 4) % 16) * 4 /\ v \div 4 = c % 16
  BY LastParts
<1>3. PICK q : q = DecodeChar(s, Char(v))
  OBVIOUS
<1>20. PICK p \in Int, h \in Int : p = 2 /\ h = 3
  OBVIOUS
<1>4. At(s, V, p, m, x) /\ e.part = (c % 16) * 4 /\ s.code.part = (c \div 16) * 16
  BY <1>1, <1>20 DEF InStep
<1>5. At(q, V, h, n, x)
  <2>1. Third(s, V, p, h, m, n, x, c, v, q)
    BY <1>1, <1>2, <1>3, <1>20, <1>4 DEF Third
  <2> QED
    BY <2>1, AtThird
<1>6. AfterEnd(s, e) = DecodeChar(q, EQ)
  BY <1>2, <1>3, <1>20, <1>4 DEF AfterEnd
<1>7. PICK z \in Int : z = 0
  OBVIOUS
<1>8. At(DecodeChar(q, EQ), V, z, n, x)
  <2>1. At(DecodeChar(q, EQ), V, IF h = 2 THEN 4 ELSE 0, n, x)
    BY <1>3, <1>20, <1>5, AtPad
  <2> QED
    BY <1>3, <1>20, <1>7, <2>1
<1> QED
  BY <1>6, <1>7, <1>8 DEF InStep

\* After the padding it is known altogether.
LEMMA EndInStep ==
    ASSUME NEW V, NEW W, NEW e \in Encoders(W), NEW f, NEW s,
           NEW x \in Seq(0 .. 255), NEW n \in Nat, n <= Len(x),
           InStep(s, V, e, n, x), f.phase = 0
    PROVE  InStep(AfterEnd(s, e), V, f, n, x)
<1>1. e.phase = 0 \/ e.phase = 1 \/ e.phase = 2
  BY DEF Encoders
<1>2. CASE e.phase = 0
  BY <1>2 DEF InStep, AfterEnd
<1>3. CASE e.phase \in {1, 2}
  <2>1. n >= 1
    BY <1>3 DEF InStep
  <2>2. x[n] \in 0 .. 255
    <3>1. n \in 1 .. Len(x)
      BY <2>1
    <3> QED
      BY <3>1, ByteOf
  <2>3. CASE e.phase = 1
    BY <2>1, <2>2, <2>3, EndOne
  <2>4. CASE e.phase = 2
    BY <2>1, <2>2, <2>4, EndTwo
  <2> QED
    BY <1>3, <2>3, <2>4
<1> QED
  BY <1>1, <1>2, <1>3

-----------------------------------------------------------------------------
(* A piece in the encoder. *)

\* The encoder after each byte of the piece t.
Bytes(g, e, t) ==
    /\ g[0] = e
    /\ \A n \in 1 .. Len(t) : g[n] = EncodeByte(g[n - 1], t[n])

\* And so does the encoder.
LEMMA BytesExist ==
    ASSUME NEW t \in Seq(Int), NEW r
    PROVE  \E g : Bytes(g, r, t)
<1> DEFINE Upto(g, k) == g[0] = r /\ \A n \in 1 .. k : g[n] = EncodeByte(g[n - 1], t[n])
           Bad == {k \in 0 .. Len(t) : ~ \E g : Upto(g, k)}
<1>1. Bad = {}
  <2> SUFFICES ASSUME Bad # {} PROVE FALSE
    OBVIOUS
  <2>1. Bad \in SUBSET Nat
    OBVIOUS
  <2>2. PICK k \in Bad : \A m \in Bad : k <= m
    BY <2>1, FirstOf
  <2>3. k # 0
    <3>1. Upto([n \in {0} |-> r], 0)
      OBVIOUS
    <3> QED
      BY <2>2, <3>1
  <2>4. k \in Nat /\ k \in 0 .. Len(t) /\ k - 1 \in 0 .. Len(t) /\ k - 1 \in Nat
    BY <2>2, <2>3
  <2>5. PICK g : Upto(g, k - 1)
    <3>1. PICK j \in 0 .. Len(t) : j = k - 1 /\ ~(k <= j)
      BY <2>4
    <3>2. j \notin Bad
      <4> HIDE DEF Bad
      <4> QED
        BY <2>2, <3>1
    <3>3. \E g : Upto(g, j)
      BY <3>2
    <3> QED
      BY <3>1, <3>3
  <2> DEFINE h == [n \in 0 .. k |-> IF n < k THEN g[n] ELSE EncodeByte(g[k - 1], t[k])]
  <2>6. h[0] = g[0] /\ h[k] = EncodeByte(g[k - 1], t[k]) /\ h[k - 1] = g[k - 1]
        /\ \A n \in 1 .. k - 1 : h[n] = g[n] /\ h[n - 1] = g[n - 1]
    BY <2>3, <2>4
  <2> HIDE DEF h
  <2>7. \A n \in 1 .. k : n = k \/ n \in 1 .. k - 1
    BY <2>4
  <2>8. Upto(h, k)
    BY <2>5, <2>6, <2>7
  <2> QED
    BY <2>2, <2>4, <2>8
<1>2. Len(t) \in 0 .. Len(t)
  OBVIOUS
<1> QED
  BY <1>1, <1>2 DEF Bytes

\* z_code_base64_encode_transform takes the bytes of its piece one by one.
LEMMA TransformBytes ==
    ASSUME NEW t \in Seq(Int), NEW e,
           NEW r, r = [e EXCEPT !.buf_len =
                        z_code_grow(@, z_code_calculate_growing(Len(e.buf), Len(t), e.linelen))]
    PROVE  \E a : Bytes(a, r, t) /\ z_code_base64_encode_transform(e, t) = a[Len(t)]
<1> DEFINE Step(g) == [n \in 0 .. Len(t) |-> IF n = 0 THEN r ELSE EncodeByte(g[n - 1], t[n])]
           after == CHOOSE g : g = Step(g)
<1>1. PICK k \in Nat : k = Len(t)
  OBVIOUS
<1>2. PICK g : Bytes(g, r, t)
  BY BytesExist
<1> DEFINE h == [n \in 0 .. k |-> g[n]]
<1>3. h = Step(h)
  <2>1. \A n \in 0 .. k : h[n] = IF n = 0 THEN r ELSE EncodeByte(h[n - 1], t[n])
    <3> SUFFICES ASSUME NEW n \in 0 .. k
                 PROVE  h[n] = IF n = 0 THEN r ELSE EncodeByte(h[n - 1], t[n])
      OBVIOUS
    <3>1. CASE n = 0
      BY <1>2, <3>1 DEF Bytes
    <3>2. CASE n # 0
      <4>1. n \in 1 .. k /\ n - 1 \in 0 .. k
        BY <3>2
      <4>2. h[n] = g[n] /\ h[n - 1] = g[n - 1]
        BY <4>1
      <4> QED
        BY <1>1, <1>2, <3>2, <4>1, <4>2 DEF Bytes
    <3> QED
      BY <3>1, <3>2
  <2> QED
    BY <1>1, <2>1
<1>4. after = Step(after)
  <2> HIDE DEF Step
  <2> QED
    BY <1>3
<1>5. PICK a : a = after
  OBVIOUS
<1>6. a = Step(a)
  BY <1>4, <1>5
<1> HIDE DEF after
<1>7. Bytes(a, r, t)
  <2>3. \A n \in 0 .. k : a[n] = IF n = 0 THEN r ELSE EncodeByte(a[n - 1], t[n])
    BY <1>1, <1>6
  <2>1. a[0] = r
    <3>1. 0 \in 0 .. k
      BY <1>1
    <3> QED
      BY <2>3, <3>1
  <2>2. \A n \in 1 .. k : a[n] = EncodeByte(a[n - 1], t[n])
    <3> SUFFICES ASSUME NEW n \in 1 .. k PROVE a[n] = EncodeByte(a[n - 1], t[n])
      OBVIOUS
    <3>1. n \in 0 .. k /\ n # 0
      BY <1>1
    <3> QED
      BY <2>3, <3>1
  <2> QED
    BY <1>1, <2>1, <2>2 DEF Bytes
<1>8. z_code_base64_encode_transform(e, t) = a[Len(t)]
  BY <1>5 DEF z_code_base64_encode_transform, after
<1> QED
  BY <1>7, <1>8

LEMMA FailedStays ==
    ASSUME NEW s, s.failed, NEW e, NEW b, e.phase = 0 \/ e.phase = 1 \/ e.phase = 2
    PROVE  AfterByte(s, e, b) = s /\ AfterEnd(s, e) = s
<1>1. \A c : DecodeChar(s, c) = s
  BY DEF DecodeChar
<1> QED
  BY <1>1 DEF AfterByte, AfterEnd

\* The encoder e, in front of the decoder r, has the bytes of x up to n; s has been
\* there before.
Follows(r, w, e, W, s, V, n, x, q, k, f) ==
    /\ f \in Encoders(W)
    /\ Sent(r, w, f, q)
    /\ InStep(s, V, e, n, x) => InStep(q, V, f, k, x)
    /\ s.failed => q = s

\* One byte more.
LEMMA ByteFollows ==
    ASSUME NEW V, NEW W, NEW e, NEW r, NEW w \in Seq(Int), NEW s,
           NEW x \in Seq(0 .. 255), NEW n, NEW k \in Nat, k + 1 <= Len(x), NEW f, NEW q,
           Follows(r, w, e, W, s, V, n, x, q, k, f)
    PROVE  Follows(r, w, e, W, s, V, n, x, AfterByte(q, f, x[k + 1]), k + 1, EncodeByte(f, x[k + 1]))
<1>6. PICK b \in 0 .. 255 : b = x[k + 1]
  <2>1. k + 1 \in 1 .. Len(x)
    OBVIOUS
  <2>2. x[k + 1] \in 0 .. 255
    BY <2>1, ByteOf
  <2> QED
    BY <2>2
<1>1. f \in Encoders(W) /\ Sent(r, w, f, q)
  BY DEF Follows
<1>2. PICK h : h = EncodeByte(f, b)
  OBVIOUS
<1>3. /\ h \in Encoders(W) /\ Sent(r, w, h, AfterByte(q, f, b))
      /\ h.phase = (f.phase + 1) % 3
      /\ f.phase = 0 => h.part = (b % 4) * 16
      /\ f.phase = 1 => h.part = (b % 16) * 4
  BY <1>1, <1>2, ByteSends
<1>4. ASSUME InStep(s, V, e, n, x)
      PROVE  InStep(AfterByte(q, f, b), V, h, k + 1, x)
  <2>1. InStep(q, V, f, k, x)
    BY <1>4 DEF Follows
  <2>2. Encoded(f, h, b)
    BY <1>3 DEF Encoded
  <2> QED
    BY <1>1, <1>6, <2>1, <2>2, ByteInStep
<1>5. ASSUME s.failed PROVE AfterByte(q, f, b) = s
  <2>1. q = s
    BY <1>5 DEF Follows
  <2>2. f.phase = 0 \/ f.phase = 1 \/ f.phase = 2
    BY <1>1 DEF Encoders
  <2> QED
    BY <1>5, <2>1, <2>2, FailedStays
<1> QED
  BY <1>2, <1>3, <1>4, <1>5, <1>6 DEF Follows

\* And a whole piece.
LEMMA PieceFollows ==
    ASSUME NEW V, NEW W, NEW e \in Encoders(W), NEW r, NEW w \in Seq(Int), NEW s, Sent(r, w, e, s),
           NEW x \in Seq(0 .. 255), NEW n \in Nat, NEW k \in Nat, n + k <= Len(x),
           NEW t \in Seq(Int), Len(t) = k, \A i \in 1 .. k : t[i] = x[n + i],
           NEW g, Bytes(g, e, t)
    PROVE  \E q : Follows(r, w, e, W, s, V, n, x, q, n + k, g[k])
<1> DEFINE Good(i) == \E q : Follows(r, w, e, W, s, V, n, x, q, n + i, g[i])
           Bad == {i \in 0 .. k : ~ Good(i)}
<1>1. Bad = {}
  <2> SUFFICES ASSUME Bad # {} PROVE FALSE
    OBVIOUS
  <2>1. Bad \in SUBSET Nat
    OBVIOUS
  <2>2. PICK i \in Bad : \A m \in Bad : i <= m
    BY <2>1, FirstOf
  <2>3. i # 0
    <3>1. g[0] = e /\ n + 0 = n
      BY DEF Bytes
    <3>2. Follows(r, w, e, W, s, V, n, x, s, n, e)
      BY DEF Follows
    <3>3. Good(0)
      BY <3>1, <3>2
    <3> QED
      BY <2>2, <3>3
  <2>4. PICK j \in Nat : i = j + 1 /\ j \in 0 .. k /\ i \in 1 .. k /\ ~(i <= j) /\ i - 1 = j
    <3>1. i - 1 \in Nat /\ i = (i - 1) + 1 /\ i - 1 \in 0 .. k /\ i \in 1 .. k /\ ~(i <= i - 1)
      BY <2>2, <2>3
    <3> QED
      BY <3>1
  <2>5. PICK q : Follows(r, w, e, W, s, V, n, x, q, n + j, g[j])
    <3>1. j \notin Bad
      <4> HIDE DEF Bad
      <4> QED
        BY <2>2, <2>4
    <3> QED
      BY <2>4, <3>1
  <2>6. PICK p \in Nat : p = n + j /\ p + 1 = n + i /\ p + 1 \in 1 .. Len(x) /\ p + 1 <= Len(x)
    <3>1. n + j \in Nat /\ (n + j) + 1 = n + i /\ (n + j) + 1 <= Len(x) /\ (n + j) + 1 \in 1 .. Len(x)
      BY <2>4
    <3> QED
      BY <3>1
  <2>7. PICK b \in 0 .. 255 : b = x[p + 1]
    <3>1. x[p + 1] \in 0 .. 255
      BY <2>6, ByteOf
    <3> QED
      BY <3>1
  <2>8. g[i] = EncodeByte(g[j], b)
    <3>1. t[i] = x[p + 1]
      BY <2>4, <2>6
    <3>2. g[i] = EncodeByte(g[i - 1], t[i])
      BY <2>4 DEF Bytes
    <3> QED
      BY <2>4, <2>7, <3>1, <3>2
  <2>9. PICK f : f = g[j]
    OBVIOUS
  <2>10. Follows(r, w, e, W, s, V, n, x, AfterByte(q, f, b), p + 1, EncodeByte(f, b))
    <3>1. Follows(r, w, e, W, s, V, n, x, q, p, f)
      BY <2>5, <2>6, <2>9
    <3>2. Follows(r, w, e, W, s, V, n, x, AfterByte(q, f, x[p + 1]), p + 1, EncodeByte(f, x[p + 1]))
      BY <2>6, <3>1, ByteFollows
    <3> QED
      BY <2>7, <3>2
  <2>11. Good(i)
    BY <2>6, <2>8, <2>9, <2>10
  <2> QED
    BY <2>2, <2>11
<1>2. k \in 0 .. k
  OBVIOUS
<1> QED
  BY <1>1, <1>2

-----------------------------------------------------------------------------
(* The invariant. *)

\* A strict decoder has met what is no base64.
Refused(s, k, x) ==
    s.failed /\ ~s.code.tolerant /\ k > 0 /\ Begins(s.code.buf, x)

\* When all that the encoder e has written, the w that is on its way and what has not
\* been taken, goes through the decoder d, it has the n bytes of x that were given, or it
\* refuses one of k characters.
Kept(d, o, w, e, n, x, k) ==
    \E s : /\ Sent([code |-> d, failed |-> ~o], w, e, s)
           /\ InStep(s, {d.buf_len}, e, n, x) \/ Refused(s, k, x)

CodecTypes ==
    /\ input \in Seq(0 .. 255) /\ given \in 0 .. Len(input) /\ ends \subseteq 0 .. given
    /\ enc \in Encoders({enc.buf_len}) /\ wire \in Seq(Int)
    /\ dec \in Decoders({dec.buf_len})
    /\ ok \in BOOLEAN /\ torn \in BOOLEAN /\ odd \in Nat
    /\ given \in ends => enc.phase = 0

CodecInv == CodecTypes /\ (torn \/ Kept(dec, ok, wire, enc, given, input, odd))

\* The result may be cut in any way.
LEMMA CutKeeps ==
    ASSUME NEW d, NEW o, NEW w, NEW e, NEW n, NEW x, NEW k, Kept(d, o, w, e, n, x, k),
           NEW v, NEW f, v \o f.buf = w \o e.buf, f.phase = e.phase,
           f.part = e.part \/ e.phase = 0
    PROVE  Kept(d, o, v, f, n, x, k)
<1>1. PICK s : /\ Sent([code |-> d, failed |-> ~o], w, e, s)
               /\ InStep(s, {d.buf_len}, e, n, x) \/ Refused(s, k, x)
  BY DEF Kept
<1>2. Sent([code |-> d, failed |-> ~o], v, f, s)
  BY <1>1 DEF Sent
<1>3. ASSUME InStep(s, {d.buf_len}, e, n, x) PROVE InStep(s, {d.buf_len}, f, n, x)
  BY <1>3 DEF InStep
<1> QED
  BY <1>1, <1>2, <1>3 DEF Kept

\* z_code_finish.
LEMMA FinishKeeps ==
    ASSUME NEW d, NEW o, NEW w \in Seq(Int), NEW W, NEW e \in Encoders(W),
           NEW x \in Seq(0 .. 255), NEW n \in Nat, n <= Len(x),
           NEW k \in Nat, NEW l \in Nat, k <= l, Kept(d, o, w, e, n, x, k),
           NEW f, f = z_code_base64_encode_finish(e)
    PROVE  f \in Encoders(W) /\ f.phase = 0 /\ Kept(d, o, w, f, n, x, l)
<1>1. PICK s : /\ Sent([code |-> d, failed |-> ~o], w, e, s)
               /\ InStep(s, {d.buf_len}, e, n, x) \/ Refused(s, k, x)
  BY DEF Kept
<1>2. PICK r : r = [code |-> d, failed |-> ~o]
  OBVIOUS
<1>3. Sent(r, w, e, s)
  BY <1>1, <1>2
<1>4. f \in Encoders(W) /\ f.phase = 0 /\ Sent(r, w, f, AfterEnd(s, e))
  BY <1>3, EndSends
<1>5. CASE InStep(s, {d.buf_len}, e, n, x)
  <2>1. InStep(AfterEnd(s, e), {d.buf_len}, f, n, x)
    BY <1>4, <1>5, EndInStep
  <2> QED
    BY <1>2, <1>4, <2>1 DEF Kept
<1>6. CASE Refused(s, k, x)
  <2>1. e.phase = 0 \/ e.phase = 1 \/ e.phase = 2
    BY DEF Encoders
  <2>2. AfterEnd(s, e) = s
    BY <1>6, <2>1, FailedStays DEF Refused
  <2>3. Refused(s, l, x)
    <3>1. k > 0
      BY <1>6 DEF Refused
    <3>2. l > 0
      BY <3>1
    <3> QED
      BY <1>6, <3>2 DEF Refused
  <2> QED
    BY <1>2, <1>4, <2>2, <2>3 DEF Kept
<1> QED
  BY <1>1, <1>5, <1>6

LEMMA Grown ==
    ASSUME NEW V, NEW e \in Encoders(V), NEW b, NEW f, f = [e EXCEPT !.buf_len = b]
    PROVE  f \in Encoders({b}) /\ f.buf = e.buf /\ f.phase = e.phase /\ f.part = e.part
  BY DEF Encoders

\* t is the j elements of x after the first n.
Piece(t, x, n, j) ==
    /\ n \in Nat /\ j \in Nat /\ n + j <= Len(x)
    /\ t \in Seq(Int) /\ Len(t) = j /\ \A i \in 1 .. j : t[i] = x[n + i]

\* z_code_transform.
LEMMA FeedTypes ==
    ASSUME NEW W, NEW e \in Encoders(W),
           NEW x \in Seq(0 .. 255), NEW n, NEW j, NEW t, Piece(t, x, n, j),
           NEW f, f = z_code_base64_encode_transform(e, t)
    PROVE  \E U : f \in Encoders(U)
<1> SUFFICES ASSUME n \in Nat, j \in Nat, n + j <= Len(x), t \in Seq(Int), Len(t) = j,
                    \A i \in 1 .. j : t[i] = x[n + i]
             PROVE  \E U : f \in Encoders(U)
  BY DEF Piece
<1>1. PICK b : b = z_code_grow(e.buf_len, z_code_calculate_growing(Len(e.buf), Len(t), e.linelen))
  OBVIOUS
<1>2. PICK h : h = [e EXCEPT !.buf_len = b]
  OBVIOUS
<1>3. h \in Encoders({b})
  BY <1>2, Grown
<1>4. h = [e EXCEPT !.buf_len =
              z_code_grow(@, z_code_calculate_growing(Len(e.buf), Len(t), e.linelen))]
  BY <1>1, <1>2
<1>5. PICK g : Bytes(g, h, t) /\ f = g[Len(t)]
  BY <1>4, TransformBytes
<1>6. PICK w \in Seq(Int) : w = <<>>
  <2>1. <<>> \in Seq(Int)
    BY EmptySeq
  <2> QED
    BY <2>1, Zenon
<1>10. PICK r, V : r = h /\ V = {b}
  OBVIOUS
<1>7. w \o h.buf \in Seq(Int)
  BY <1>3 DEF Encoders
<1>8. PICK s : Sent(r, w, h, s)
  BY <1>7, ReadsSomewhere DEF Sent
<1>9. \E q : Follows(r, w, h, {b}, s, V, n, x, q, n + j, g[j])
  BY <1>3, <1>5, <1>8, PieceFollows
<1> QED
  BY <1>5, <1>9 DEF Follows

LEMMA FeedKeeps ==
    ASSUME NEW d, NEW o, NEW w \in Seq(Int), NEW W, NEW e \in Encoders(W),
           NEW x \in Seq(0 .. 255), NEW n, NEW j, NEW t, Piece(t, x, n, j),
           NEW k, Kept(d, o, w, e, n, x, k),
           NEW f, f = z_code_base64_encode_transform(e, t), NEW m, m = n + j
    PROVE  Kept(d, o, w, f, m, x, k)
<1> SUFFICES ASSUME n \in Nat, j \in Nat, n + j <= Len(x), t \in Seq(Int), Len(t) = j,
                    \A i \in 1 .. j : t[i] = x[n + i]
             PROVE  Kept(d, o, w, f, n + j, x, k)
  BY DEF Piece
<1>1. PICK s : /\ Sent([code |-> d, failed |-> ~o], w, e, s)
               /\ InStep(s, {d.buf_len}, e, n, x) \/ Refused(s, k, x)
  BY DEF Kept
<1>2. PICK r, V : r = [code |-> d, failed |-> ~o] /\ V = {d.buf_len}
  OBVIOUS
<1>3. PICK b : b = z_code_grow(e.buf_len, z_code_calculate_growing(Len(e.buf), Len(t), e.linelen))
  OBVIOUS
<1>4. PICK h : h = [e EXCEPT !.buf_len = b]
  OBVIOUS
<1>5. h \in Encoders({b}) /\ h.buf = e.buf /\ h.phase = e.phase /\ h.part = e.part
  BY <1>4, Grown
<1>6. h = [e EXCEPT !.buf_len =
              z_code_grow(@, z_code_calculate_growing(Len(e.buf), Len(t), e.linelen))]
  BY <1>3, <1>4
<1>7. PICK g : Bytes(g, h, t) /\ f = g[Len(t)]
  BY <1>6, TransformBytes
<1>8. Sent(r, w, h, s)
  BY <1>1, <1>2, <1>5 DEF Sent
<1>9. PICK q : Follows(r, w, h, {b}, s, V, n, x, q, n + j, f)
  <2>1. \E q : Follows(r, w, h, {b}, s, V, n, x, q, n + j, g[j])
    BY <1>5, <1>7, <1>8, PieceFollows
  <2> QED
    BY <1>7, <2>1
<1>10. f \in Encoders({b}) /\ Sent([code |-> d, failed |-> ~o], w, f, q)
  BY <1>2, <1>9 DEF Follows
<1>11. InStep(q, {d.buf_len}, f, n + j, x) \/ Refused(q, k, x)
  <2>1. CASE InStep(s, {d.buf_len}, e, n, x)
    <3>1. InStep(s, V, h, n, x)
      BY <1>2, <1>5, <2>1 DEF InStep
    <3> QED
      BY <1>2, <1>9, <3>1 DEF Follows
  <2>2. CASE Refused(s, k, x)
    <3>1. q = s
      BY <1>9, <2>2 DEF Follows, Refused
    <3> QED
      BY <2>2, <3>1
  <2> QED
    BY <1>1, <2>1, <2>2
<1> QED
  BY <1>10, <1>11 DEF Kept

LEMMA Begun ==
    ASSUME NEW V, NEW s, NEW W, NEW e \in Encoders(W), NEW n \in Nat, NEW x \in Seq(Int), n <= Len(x),
           InStep(s, V, e, n, x)
    PROVE  s \in Readers(V) /\ s.failed = FALSE /\ Begins(s.code.buf, x)
<1>1. PICK m \in Nat : m <= n /\ At(s, V, e.phase, m, x)
  <2>1. CASE e.phase = 0
    BY <2>1 DEF InStep
  <2>2. CASE e.phase # 0
    <3>1. n - 1 \in Nat /\ n - 1 <= n
      BY <2>2 DEF InStep
    <3>2. At(s, V, e.phase, n - 1, x)
      BY <2>2 DEF InStep
    <3> QED
      BY <3>1, <3>2
  <2> QED
    BY <2>1, <2>2
<1> QED
  BY <1>1 DEF At, Begins

\* A character that is no base64 gets in between.
LEMMA InsertKeeps ==
    ASSUME NEW d, d \in Decoders({d.buf_len}), NEW o \in BOOLEAN, NEW w \in Seq(Int),
           NEW W, NEW e \in Encoders(W), NEW x \in Seq(Int), NEW n \in Nat, n <= Len(x),
           NEW k \in Nat, Kept(d, o, w, e, n, x, k),
           NEW c \in Int, Value(c) = -1 \/ Value(c) = -3
    PROVE  Kept(d, o, Append(w, c), e, n, x, k + 1)
<1>1. PICK s : /\ Sent([code |-> d, failed |-> ~o], w, e, s)
               /\ InStep(s, {d.buf_len}, e, n, x) \/ Refused(s, k, x)
  BY DEF Kept
<1>2. PICK r, V, b : r = [code |-> d, failed |-> ~o] /\ V = {d.buf_len} /\ b = e.buf
  OBVIOUS
<1>3. r \in Readers(V) /\ b \in Seq(Int)
  BY <1>2 DEF Readers, Encoders
<1>4. PICK m : Reads(r, w, m) /\ Reads(m, b, s)
  <2>1. Reads(r, w \o b, s)
    BY <1>1, <1>2 DEF Sent
  <2> QED
    BY <1>3, <2>1, ReadsCut
<1>5. Advances(r, m, V)
  BY <1>3, <1>4, TextAdvances
<1>6. m \in Readers(V)
  BY <1>5 DEF Advances
<1>7. Advances(m, s, V)
  BY <1>3, <1>4, <1>6, TextAdvances
<1>8. PICK q : q = DecodeChar(m, c)
  OBVIOUS
<1>9. Reads(r, Append(w, c), q)
  BY <1>4, <1>8, ReadsOneMore
<1>10. Append(w, c) \in Seq(Int)
  OBVIOUS
<1>11. CASE q = m
  <2>1. Reads(r, Append(w, c) \o b, s)
    BY <1>3, <1>4, <1>9, <1>10, <1>11, ReadsJoined
  <2>2. Sent([code |-> d, failed |-> ~o], Append(w, c), e, s)
    BY <1>2, <2>1 DEF Sent
  <2>3. Refused(s, k, x) => Refused(s, k + 1, x)
    <3>1. k > 0 => k + 1 > 0
      OBVIOUS
    <3> QED
      BY <3>1 DEF Refused
  <2> QED
    BY <1>1, <2>2, <2>3 DEF Kept
<1>12. CASE q # m
  <2>1. q.failed /\ ~m.code.tolerant /\ q.code.buf = m.code.buf
    <3>1. Value(c) = -3 /\ ~m.failed /\ ~m.code.tolerant
      BY <1>8, <1>12 DEF DecodeChar
    <3>2. q = [code |-> [m.code EXCEPT !.errors = @ + 1], failed |-> TRUE]
      BY <1>8, <3>1 DEF DecodeChar
    <3>3. m.code \in Decoders(V)
      BY <1>6 DEF Readers
    <3> QED
      BY <3>1, <3>2, <3>3 DEF Decoders
  <2>2. Advances(m, q, V)
    BY <1>6, <1>8, CharAdvances
  <2>3. q \in Readers(V) /\ ~q.code.tolerant
    BY <2>1, <2>2 DEF Advances
  <2>4. Reads(q, b, q)
    <3>1. PICK z : Reads(q, b, z)
      BY <1>3, ReadsSomewhere
    <3>2. Advances(q, z, V)
      BY <1>3, <2>3, <3>1, TextAdvances
    <3> QED
      BY <2>1, <3>1, <3>2 DEF Advances
  <2>5. Reads(r, Append(w, c) \o b, q)
    BY <1>3, <1>9, <1>10, <2>4, ReadsJoined
  <2>6. Sent([code |-> d, failed |-> ~o], Append(w, c), e, q)
    BY <1>2, <2>5 DEF Sent
  <2>7. Begins(s.code.buf, x)
    BY <1>1, Begun DEF Refused
  <2>8. Begins(q.code.buf, x)
    <3>1. m.code.buf \in Seq(Int) /\ s.code.buf \in Seq(Int)
      BY <1>6, <1>7 DEF Advances, Readers, Decoders
    <3>2. Begins(m.code.buf, s.code.buf)
      BY <1>7 DEF Advances
    <3>3. Begins(m.code.buf, x)
      BY <2>7, <3>1, <3>2, BeginsTrans
    <3> QED
      BY <2>1, <3>3
  <2>9. Refused(q, k + 1, x)
    <3>1. k + 1 > 0
      OBVIOUS
    <3> QED
      BY <2>1, <2>3, <2>8, <3>1 DEF Refused
  <2> QED
    BY <2>6, <2>9 DEF Kept
<1> QED
  BY <1>11, <1>12

LEMMA GrownDecoder ==
    ASSUME NEW V, NEW d \in Decoders(V), NEW b, NEW x, x = [d EXCEPT !.buf_len = b]
    PROVE  /\ x \in Decoders({b}) /\ x.buf = d.buf /\ x.phase = d.phase /\ x.part = d.part
           /\ x.tolerant = d.tolerant
  BY DEF Decoders

LEMMA DecodeTypes ==
    ASSUME NEW V, NEW d \in Decoders(V), NEW t \in Seq(Int),
           NEW y, y = z_code_base64_decode_transform(d, t)
    PROVE  y.code \in Decoders({y.code.buf_len}) /\ y.failed \in BOOLEAN
<1>1. PICK l : l = z_code_grow(d.buf_len, Len(d.buf) + (Len(t) * 3 + 3) \div 4 + 16)
  OBVIOUS
<1>2. PICK g : g = [d EXCEPT !.buf_len = l]
  OBVIOUS
<1>3. g \in Decoders({l})
  BY <1>2, GrownDecoder
<1>4. PICK z : z = [code |-> g, failed |-> FALSE]
  OBVIOUS
<1>5. z \in Readers({l})
  BY <1>3, <1>4 DEF Readers
<1>6. Reads(z, t, y)
  <2>1. g = [d EXCEPT !.buf_len = z_code_grow(@, Len(d.buf) + (Len(t) * 3 + 3) \div 4 + 16)]
    BY <1>1, <1>2
  <2> QED
    BY <1>4, <2>1, TransformReads
<1>7. Advances(z, y, {l})
  BY <1>5, <1>6, TextAdvances
<1> QED
  BY <1>7 DEF Advances, Readers, Decoders

\* z_code_transform of the decoder: t is decoded, and u still on its way.
LEMMA DecodeKeeps ==
    ASSUME NEW V, NEW d, d \in Decoders({d.buf_len}), NEW t \in Seq(Int), NEW u \in Seq(Int),
           NEW W, NEW e \in Encoders(W), NEW x, NEW n, NEW k,
           Kept(d, TRUE, t \o u, e, n, x, k),
           NEW y, y = z_code_base64_decode_transform(d, t)
    PROVE  /\ y.code \in Decoders({y.code.buf_len}) /\ y.failed \in BOOLEAN
           /\ Kept(y.code, ~y.failed, u, e, n, x, k)
<1>1. PICK s : /\ Sent([code |-> d, failed |-> ~TRUE], t \o u, e, s)
               /\ InStep(s, {d.buf_len}, e, n, x) \/ Refused(s, k, x)
  BY DEF Kept
<1>2. PICK b : b = e.buf
  OBVIOUS
<1>3. PICK r, U : r = [code |-> d, failed |-> FALSE] /\ U = {d.buf_len}
  OBVIOUS
<1>4. r \in Readers(U) /\ b \in Seq(Int) /\ u \o b \in Seq(Int)
  <2>1. b \in Seq(Int)
    BY <1>2 DEF Encoders
  <2>2. u \o b \in Seq(Int)
    BY <2>1
  <2> QED
    BY <1>3, <2>1, <2>2 DEF Readers
<1>5. PICK m : Reads(r, t, m) /\ Reads(m, u \o b, s)
  <2>1. r = [code |-> d, failed |-> ~TRUE]
    BY <1>3
  <2>2. Reads(r, (t \o u) \o b, s)
    BY <1>1, <1>2, <2>1 DEF Sent
  <2>3. (t \o u) \o b = t \o (u \o b)
    BY <1>4
  <2> QED
    BY <1>4, <2>2, <2>3, ReadsCut
<1>6. PICK l : l = z_code_grow(d.buf_len, Len(d.buf) + (Len(t) * 3 + 3) \div 4 + 16)
  OBVIOUS
<1>7. PICK g : g = [d EXCEPT !.buf_len = l]
  OBVIOUS
<1>8. /\ g \in Decoders({l}) /\ g.buf = d.buf /\ g.phase = d.phase /\ g.part = d.part
      /\ g.tolerant = d.tolerant
  BY <1>7, GrownDecoder
<1>9. PICK z : z = [code |-> g, failed |-> FALSE]
  OBVIOUS
<1>10. z \in Readers({l}) /\ Alike(r, z)
  BY <1>3, <1>8, <1>9 DEF Readers, Alike
<1>11. Reads(z, t, y)
  <2>1. g = [d EXCEPT !.buf_len = z_code_grow(@, Len(d.buf) + (Len(t) * 3 + 3) \div 4 + 16)]
    BY <1>6, <1>7
  <2> QED
    BY <1>9, <2>1, TransformReads
<1>12. Alike(m, y)
  BY <1>4, <1>5, <1>10, <1>11, TextAlike
<1>13. y \in Readers({l}) /\ m \in Readers(U)
  <2>1. Advances(z, y, {l})
    BY <1>10, <1>11, TextAdvances
  <2>2. Advances(r, m, U)
    BY <1>4, <1>5, TextAdvances
  <2> QED
    BY <2>1, <2>2 DEF Advances
<1>14. y.code.buf_len = l /\ y.code \in Decoders({y.code.buf_len}) /\ y.failed \in BOOLEAN
  BY <1>13 DEF Readers, Decoders
<1>15. PICK q : Reads(y, u \o b, q)
  BY <1>4, ReadsSomewhere
<1>16. Alike(s, q)
  BY <1>4, <1>5, <1>12, <1>13, <1>15, TextAlike
<1>17. q \in Readers({l}) /\ s \in Readers(U)
  <2>1. Advances(y, q, {l})
    BY <1>4, <1>13, <1>15, TextAdvances
  <2>2. Advances(m, s, U)
    BY <1>4, <1>5, <1>13, TextAdvances
  <2> QED
    BY <2>1, <2>2 DEF Advances
<1>18. Sent([code |-> y.code, failed |-> ~~y.failed], u, e, q)
  <2>1. y = [code |-> y.code, failed |-> ~~y.failed]
    BY <1>13 DEF Readers
  <2> QED
    BY <1>2, <1>15, <2>1 DEF Sent
<1>19. ASSUME InStep(s, {d.buf_len}, e, n, x)
       PROVE  InStep(q, {y.code.buf_len}, e, n, x)
  <2>1. \A h, i : At(s, {d.buf_len}, h, i, x) => At(q, {l}, h, i, x)
    BY <1>16, <1>17 DEF At, Alike
  <2>2. q.code.part = s.code.part
    BY <1>16 DEF Alike
  <2> QED
    BY <1>14, <1>19, <2>1, <2>2 DEF InStep
<1>20. Refused(s, k, x) => Refused(q, k, x)
  BY <1>16 DEF Alike, Refused
<1> QED
  BY <1>1, <1>14, <1>18, <1>19, <1>20 DEF Kept

-----------------------------------------------------------------------------
(* The steps. *)

LEMMA NewEncoderTypes ==
    ASSUME NEW size, NEW linelen, linelen \in Int
    PROVE  /\ NewEncoder(size, linelen) \in Encoders({size})
           /\ NewEncoder(size, linelen).buf = <<>> /\ NewEncoder(size, linelen).phase = 0
           /\ NewEncoder(size, linelen).buf_len = size
  BY DEF NewEncoder, Encoders

LEMMA NewDecoderTypes ==
    ASSUME NEW t \in BOOLEAN
    PROVE  /\ NewDecoder(t) \in Decoders({256})
           /\ NewDecoder(t).buf = <<>> /\ NewDecoder(t).phase = 0 /\ NewDecoder(t).buf_len = 256
  BY DEF NewDecoder, Decoders

LEMMA InitHolds == Init => CodecInv
<1> SUFFICES ASSUME Init PROVE CodecInv
  OBVIOUS
<1>1. PICK b \in BufSizes, n \in LineLens : enc = NewEncoder(b, n)
  BY DEF Init
<1>2. PICK t \in BOOLEAN : dec = NewDecoder(t)
  BY DEF Init
<1>3. n \in Int
  BY CodecAssumption
<1>4. /\ enc \in Encoders({enc.buf_len}) /\ enc.buf = <<>> /\ enc.phase = 0
      /\ dec \in Decoders({dec.buf_len}) /\ dec.buf = <<>> /\ dec.phase = 0
  <2>1. /\ NewEncoder(b, n) \in Encoders({b}) /\ NewEncoder(b, n).buf = <<>>
        /\ NewEncoder(b, n).phase = 0 /\ NewEncoder(b, n).buf_len = b
    BY <1>3, NewEncoderTypes
  <2>2. /\ NewDecoder(t) \in Decoders({256}) /\ NewDecoder(t).buf = <<>>
        /\ NewDecoder(t).phase = 0 /\ NewDecoder(t).buf_len = 256
    BY NewDecoderTypes
  <2> QED
    BY <1>1, <1>2, <2>1, <2>2
<1>5. input \in Seq(0 .. 255)
  <2>1. \A i \in Inputs : i \in Seq(0 .. 255)
    BY CodecAssumption
  <2> QED
    BY <2>1 DEF Init
<1>6. CodecTypes
  <2>1. given \in 0 .. Len(input) /\ ends \subseteq 0 .. given /\ odd \in Nat
    <3>1. Len(input) \in Nat
      BY <1>5
    <3> QED
      BY <3>1 DEF Init
  <2>2. wire \in Seq(Int)
    BY EmptySeq DEF Init
  <2> QED
    BY <1>4, <1>5, <2>1, <2>2 DEF Init, CodecTypes
<1>7. Kept(dec, ok, wire, enc, given, input, odd)
  <2>1. PICK s : s = [code |-> dec, failed |-> ~ok]
    OBVIOUS
  <2>2. Sent(s, wire, enc, s)
    <3>1. wire \o enc.buf = <<>>
      BY <1>4 DEF Init
    <3> QED
      BY <3>1, ReadsNothing DEF Sent
  <2>3. s \in Readers({dec.buf_len}) /\ s.failed = FALSE /\ s.code = dec
    BY <1>4, <2>1 DEF Init, Readers
  <2>4. At(s, {dec.buf_len}, 0, 0, input)
    <3>1. s.code.buf \in Seq(Int) /\ Len(s.code.buf) = 0
      <4>1. <<>> \in Seq(Int) /\ Len(<<>>) = 0
        BY EmptySeq
      <4> QED
        BY <1>4, <2>3, <4>1, Zenon
    <3>2. \A i \in 1 .. 0 : s.code.buf[i] = input[i]
      OBVIOUS
    <3> QED
      BY <1>4, <2>3, <3>1, <3>2 DEF At
  <2>5. InStep(s, {dec.buf_len}, enc, given, input)
    BY <1>4, <2>4 DEF InStep, Init
  <2> QED
    BY <2>1, <2>2, <2>5 DEF Kept
<1> QED
  BY <1>6, <1>7 DEF CodecInv

LEMMA BytesInt ==
    ASSUME NEW x \in Seq(0 .. 255)
    PROVE  x \in Seq(Int)
<1>1. PICK n \in Nat : n = Len(x)
  OBVIOUS
<1>2. \A i \in 1 .. n : x[i] \in Int
  <2> SUFFICES ASSUME NEW i \in 1 .. n PROVE x[i] \in Int
    OBVIOUS
  <2>1. x[i] \in 0 .. 255
    BY <1>1, ByteOf
  <2>2. 0 .. 255 \subseteq Int
    OBVIOUS
  <2> QED
    BY <2>1, <2>2, Zenon
<1>3. x = [i \in 1 .. n |-> x[i]]
  <2>1. PICK S : S = 0 .. 255
    OBVIOUS
  <2>2. x \in Seq(S)
    BY <2>1
  <2> QED
    BY <1>1, <2>2
<1>4. x \in [1 .. n -> Int]
  BY <1>2, <1>3
<1> QED
  BY <1>4

LEMMA PieceIs ==
    ASSUME NEW x \in Seq(0 .. 255), NEW n \in Nat, NEW j \in Nat, n + j <= Len(x),
           NEW t, t = SubSeq(x, n + 1, n + j)
    PROVE  Piece(t, x, n, j)
<1>1. PICK y \in Seq(Int) : y = x
  BY BytesInt
<1>2. n + j <= Len(y) /\ t = SubSeq(y, n + 1, n + j)
  BY <1>1
<1>3. t \in Seq(Int) /\ Len(t) = j /\ \A i \in 1 .. j : t[i] = y[n + i]
  BY <1>2
<1> QED
  BY <1>1, <1>3 DEF Piece

LEMMA EncoderTypes ==
    ASSUME NEW V, NEW e \in Encoders(V)
    PROVE  e \in Encoders({e.buf_len})
  BY DEF Encoders

LEMMA FeedStep == CodecInv /\ Feed => CodecInv'
<1> SUFFICES ASSUME CodecInv, Feed PROVE CodecInv'
  OBVIOUS
<1> USE DEF CodecTypes
<1>1. PICK n \in Nat, x \in Seq(0 .. 255), k \in Nat : n = given /\ x = input /\ k = Len(x)
  <2>1. input \in Seq(0 .. 255)
    BY DEF CodecInv
  <2>2. Len(input) \in Nat
    BY <2>1, LenProperties
  <2>3. given \in Nat
    BY <2>2 DEF CodecInv
  <2> QED
    BY <2>1, <2>2, <2>3, Zenon
<1>2. PICK i \in 1 .. MaxPiece :
          /\ given + i <= Len(input)
          /\ enc' = z_code_base64_encode_transform(enc, SubSeq(input, given + 1, given + i))
          /\ given' = given + i
  BY DEF Feed
<1>3. PICK j \in Nat : j = i /\ j >= 1
  BY CodecAssumption
<1>4. PICK t : t = SubSeq(x, n + 1, n + j)
  OBVIOUS
<1>5. Piece(t, x, n, j)
  <2>1. n + j <= Len(x)
    BY <1>1, <1>2, <1>3
  <2> QED
    BY <1>4, <2>1, PieceIs
<1>6. enc' = z_code_base64_encode_transform(enc, t)
  BY <1>1, <1>2, <1>3, <1>4
<1>7. PICK e, f, W : e = enc /\ f = enc' /\ W = {e.buf_len}
  OBVIOUS
<1>8. e \in Encoders(W) /\ f = z_code_base64_encode_transform(e, t)
  BY <1>6, <1>7 DEF CodecInv
<1>9. enc' \in Encoders({enc'.buf_len})
  <2>1. PICK U : f \in Encoders(U)
    BY <1>5, <1>8, FeedTypes
  <2>2. f \in Encoders({f.buf_len})
    BY <2>1, EncoderTypes
  <2> QED
    BY <1>7, <2>2
<1>10. given' \in 0 .. Len(input) /\ given' \notin ends /\ ends \subseteq 0 .. given'
  <2>1. given' \in Nat /\ given' > given /\ given' <= k
    BY <1>1, <1>2, <1>3
  <2>2. ends \subseteq 0 .. given
    BY DEF CodecInv
  <2> QED
    BY <1>1, <2>1, <2>2
<1>11. CodecTypes'
  BY <1>9, <1>10 DEF CodecInv, Feed
<1>12. torn' \/ Kept(dec, ok, wire, enc, given, input, odd)'
  <2>1. CASE torn
    BY <2>1 DEF Feed
  <2>2. CASE ~torn
    <3>1. Kept(dec, ok, wire, e, n, x, odd)
      BY <1>1, <1>7, <2>2 DEF CodecInv
    <3>2. wire \in Seq(Int)
      BY DEF CodecInv
    <3>3. PICK m : m = n + j
      OBVIOUS
    <3>4. Kept(dec, ok, wire, f, m, x, odd)
      BY <1>5, <1>8, <3>1, <3>2, <3>3, FeedKeeps
    <3>5. given' = m
      BY <1>1, <1>2, <1>3, <3>3
    <3> QED
      BY <1>1, <1>7, <3>4, <3>5 DEF Feed
  <2> QED
    BY <2>1, <2>2
<1> QED
  BY <1>11, <1>12 DEF CodecInv

LEMMA FinishStep == CodecInv /\ Finish => CodecInv'
<1> SUFFICES ASSUME CodecInv, Finish PROVE CodecInv'
  OBVIOUS
<1> USE DEF CodecTypes
<1>1. PICK n \in Nat, x \in Seq(0 .. 255), k \in Nat, l \in Nat :
          n = given /\ x = input /\ k = odd /\ l = odd' /\ k <= l /\ n <= Len(x)
  <2>1. input \in Seq(0 .. 255)
    BY DEF CodecInv
  <2>2. Len(input) \in Nat
    BY <2>1, LenProperties
  <2>3. given \in Nat /\ given <= Len(input)
    BY <2>2 DEF CodecInv
  <2>4. odd \in Nat /\ odd' \in Nat /\ odd <= odd'
    BY DEF CodecInv, Finish
  <2> QED
    BY <2>1, <2>3, <2>4, Zenon
<1>2. PICK e, f, W : e = enc /\ f = enc' /\ W = {e.buf_len}
  OBVIOUS
<1>3. e \in Encoders(W) /\ f = z_code_base64_encode_finish(e)
  BY <1>2 DEF CodecInv, Finish
<1>4. f \in Encoders(W) /\ f.phase = 0
  <2>1. PICK w \in Seq(Int) : w = <<>>
    <3>1. <<>> \in Seq(Int)
      BY EmptySeq
    <3> QED
      BY <3>1, Zenon
  <2>2. w \o e.buf \in Seq(Int)
    BY <1>3 DEF Encoders
  <2>3. PICK r : r = e
    OBVIOUS
  <2>4. PICK s : Sent(r, w, e, s)
    BY <2>2, ReadsSomewhere DEF Sent
  <2> QED
    BY <1>3, <2>4, EndSends
<1>5. enc' \in Encoders({enc'.buf_len})
  <2>1. f \in Encoders({f.buf_len})
    BY <1>4, EncoderTypes
  <2> QED
    BY <1>2, <2>1
<1>6. CodecTypes'
  BY <1>1, <1>2, <1>4, <1>5 DEF CodecInv, Finish
<1>7. torn' \/ Kept(dec, ok, wire, enc, given, input, odd)'
  <2>1. CASE torn
    BY <2>1 DEF Finish
  <2>2. CASE ~torn
    <3>1. Kept(dec, ok, wire, e, n, x, k)
      BY <1>1, <1>2, <2>2 DEF CodecInv
    <3>2. wire \in Seq(Int)
      BY DEF CodecInv
    <3>3. Kept(dec, ok, wire, f, n, x, l)
      BY <1>1, <1>3, <3>1, <3>2, FinishKeeps
    <3> QED
      BY <1>1, <1>2, <3>3 DEF Finish
  <2> QED
    BY <2>1, <2>2
<1> QED
  BY <1>6, <1>7 DEF CodecInv

LEMMA JoinedLen ==
    ASSUME NEW t \in Seq(Int), NEW u \in Seq(Int)
    PROVE  t \o u \in Seq(Int) /\ Len(t \o u) = Len(t) + Len(u)
  OBVIOUS

LEMMA JoinedTwice ==
    ASSUME NEW t \in Seq(Int), NEW u \in Seq(Int), NEW v \in Seq(Int)
    PROVE  (t \o u) \o v = t \o (u \o v)
  OBVIOUS

\* A part of a result taken, one put back.
LEMMA TakenJoined ==
    ASSUME NEW w \in Seq(Int), NEW b \in Seq(Int), NEW n \in Nat, n <= Len(b)
    PROVE  /\ w \o SubSeq(b, 1, n) \in Seq(Int) /\ SubSeq(b, n + 1, Len(b)) \in Seq(Int)
           /\ (w \o SubSeq(b, 1, n)) \o SubSeq(b, n + 1, Len(b)) = w \o b
<1>1. PICK t, u : t = SubSeq(b, 1, n) /\ u = SubSeq(b, n + 1, Len(b))
  OBVIOUS
<1>5. PICK m \in Nat : m = Len(b) /\ n <= m
  OBVIOUS
<1>6. t \in Seq(Int) /\ Len(t) = n /\ \A i \in 1 .. n : t[i] = b[i]
  BY <1>1, <1>5
<1>7. u \in Seq(Int) /\ Len(u) = m - n /\ \A i \in 1 .. m - n : u[i] = b[n + i]
  BY <1>1, <1>5
<1>8. t \o u = b
  <2>4. n + (m - n) = m
    BY <1>5
  <2>1. t \o u \in Seq(Int) /\ Len(t \o u) = m
    <3>1. t \o u \in Seq(Int) /\ Len(t \o u) = Len(t) + Len(u)
      BY <1>6, <1>7, JoinedLen
    <3> QED
      BY <1>6, <1>7, <2>4, <3>1
  <2>2. \A i \in 1 .. m : (t \o u)[i] = IF i <= n THEN t[i] ELSE u[i - n]
    BY <1>5, <1>6, <1>7
  <2>3. \A i \in 1 .. m : (t \o u)[i] = b[i]
    <3> SUFFICES ASSUME NEW i \in 1 .. m PROVE (t \o u)[i] = b[i]
      OBVIOUS
    <3>1. CASE i <= n
      BY <1>6, <2>2, <3>1
    <3>2. CASE ~(i <= n)
      <4>1. i - n \in 1 .. m - n /\ n + (i - n) = i
        BY <1>5, <3>2
      <4>2. u[i - n] = b[i]
        BY <1>7, <4>1
      <4> QED
        BY <2>2, <3>2, <4>2
    <3> QED
      BY <3>1, <3>2
  <2> QED
    BY <1>5, <2>1, <2>3, SeqEqual
<1>2. t \in Seq(Int) /\ u \in Seq(Int) /\ t \o u = b
  BY <1>6, <1>7, <1>8
<1>3. (w \o t) \o u = w \o (t \o u)
  BY <1>2, JoinedTwice
<1>4. w \o t \in Seq(Int)
  BY <1>2
<1> QED
  BY <1>1, <1>2, <1>3, <1>4

LEMMA PutBackJoined ==
    ASSUME NEW w \in Seq(Int), NEW b \in Seq(Int), w # <<>>
    PROVE  /\ Front(w) \in Seq(Int) /\ <<Last(w)>> \o b \in Seq(Int)
           /\ Front(w) \o (<<Last(w)>> \o b) = w \o b
<1>1. PICK n \in Nat : n = Len(w) /\ n >= 1
  OBVIOUS
<1>2. PICK t, c : t = SubSeq(w, 1, n - 1) /\ c = w[n]
  OBVIOUS
<1>3. Front(w) = t /\ Last(w) = c
  BY <1>1, <1>2 DEF Front, Last
<1>4. t \in Seq(Int) /\ c \in Int /\ w = t \o <<c>>
  BY <1>1, <1>2
<1>5. <<c>> \in Seq(Int) /\ <<c>> \o b \in Seq(Int)
  BY <1>4
<1>6. (t \o <<c>>) \o b = t \o (<<c>> \o b)
  BY <1>4, <1>5, JoinedTwice
<1> QED
  BY <1>3, <1>4, <1>5, <1>6

LEMMA TakeStep == CodecInv /\ Take => CodecInv'
<1> SUFFICES ASSUME CodecInv, Take PROVE CodecInv'
  OBVIOUS
<1> USE DEF CodecTypes
<1>1. PICK e, b, W : e = enc /\ b = e.buf /\ W = {e.buf_len}
  OBVIOUS
<1>2. PICK n \in Nat : n <= Len(b) /\ wire' = wire \o SubSeq(b, 1, n)
                       /\ enc' = z_code_get_result(e, n)
  <2>1. PICK n \in 1 .. MaxPiece :
            n <= Len(enc.buf) /\ wire' = wire \o SubSeq(enc.buf, 1, n)
            /\ enc' = z_code_get_result(enc, n)
    BY DEF Take
  <2>2. n \in Nat
    BY CodecAssumption
  <2> QED
    BY <1>1, <2>1, <2>2
<1>3. e \in Encoders(W) /\ b \in Seq(Int) /\ wire \in Seq(Int)
  BY <1>1 DEF CodecInv, Encoders
<1>4. PICK c : c = SubSeq(b, n + 1, Len(b))
  OBVIOUS
<1>5. wire' \in Seq(Int) /\ c \in Seq(Int) /\ wire' \o c = wire \o b
  BY <1>2, <1>3, <1>4, TakenJoined
<1>6. PICK f : f = enc'
  OBVIOUS
<1>7. f = [e EXCEPT !.buf = c]
  BY <1>1, <1>2, <1>4, <1>6 DEF z_code_get_result
<1>8. f \in Encoders({f.buf_len}) /\ f.buf = c /\ f.phase = e.phase
  BY <1>3, <1>5, <1>7 DEF Encoders
<1>9. f.part = e.part
  BY <1>3, <1>5, <1>7 DEF Encoders
<1>10. CodecTypes'
  BY <1>1, <1>5, <1>6, <1>8 DEF CodecInv, Take
<1>11. torn' \/ Kept(dec, ok, wire, enc, given, input, odd)'
  <2>1. CASE torn
    BY <2>1 DEF Take
  <2>2. CASE ~torn
    <3>1. Kept(dec, ok, wire, e, given, input, odd)
      BY <1>1, <2>2 DEF CodecInv
    <3>2. Kept(dec, ok, wire', f, given, input, odd)
      BY <1>1, <1>5, <1>8, <1>9, <3>1, CutKeeps
    <3> QED
      BY <1>6, <3>2 DEF Take
  <2> QED
    BY <2>1, <2>2
<1> QED
  BY <1>10, <1>11 DEF CodecInv

LEMMA PutBackStep == CodecInv /\ PutBack => CodecInv'
<1> SUFFICES ASSUME CodecInv, PutBack PROVE CodecInv'
  OBVIOUS
<1> USE DEF CodecTypes
<1>1. PICK e, b, W : e = enc /\ b = e.buf /\ W = {e.buf_len}
  OBVIOUS
<1>2. PICK p \in {0, 255} : enc' = z_code_unget_result(enc, <<Last(wire)>>, p)
  BY DEF PutBack
<1>3. e \in Encoders(W) /\ b \in Seq(Int) /\ wire \in Seq(Int) /\ wire # <<>>
  BY <1>1 DEF CodecInv, Encoders, PutBack
<1>4. PICK c : c = <<Last(wire)>> \o b
  OBVIOUS
<1>5. wire' \in Seq(Int) /\ c \in Seq(Int) /\ wire' \o c = wire \o b
  BY <1>3, <1>4, PutBackJoined DEF PutBack
<1>6. PICK f : f = enc'
  OBVIOUS
<1>7. PICK l : f = [e EXCEPT !.buf = c, !.part = p, !.buf_len = l]
  BY <1>1, <1>2, <1>4, <1>6 DEF z_code_unget_result
<1>8. f \in Encoders({f.buf_len}) /\ f.buf = c /\ f.phase = e.phase
  <2>1. p \in Int
    OBVIOUS
  <2> QED
    BY <1>3, <1>5, <1>7, <2>1 DEF Encoders
<1>9. CodecTypes'
  BY <1>1, <1>5, <1>6, <1>8 DEF CodecInv, PutBack
<1>10. torn' \/ Kept(dec, ok, wire, enc, given, input, odd)'
  <2>1. CASE torn \/ e.phase # 0
    BY <1>1, <2>1 DEF PutBack
  <2>2. CASE ~torn /\ e.phase = 0
    <3>1. Kept(dec, ok, wire, e, given, input, odd)
      BY <1>1, <2>2 DEF CodecInv
    <3>2. Kept(dec, ok, wire', f, given, input, odd)
      <4>1. wire' \o f.buf = wire \o e.buf /\ f.phase = e.phase /\ e.phase = 0
        BY <1>1, <1>5, <1>8, <2>2
      <4> QED
        BY <3>1, <4>1, CutKeeps
    <3> QED
      BY <1>6, <3>2 DEF PutBack
  <2> QED
    BY <2>1, <2>2
<1> QED
  BY <1>9, <1>10 DEF CodecInv

LEMMA PeekAndFlushStep == CodecInv /\ PeekAndFlush => CodecInv'
<1> SUFFICES ASSUME CodecInv, PeekAndFlush PROVE CodecInv'
  OBVIOUS
<1> USE DEF CodecTypes
<1>1. PICK e, b, W : e = enc /\ b = e.buf /\ W = {e.buf_len}
  OBVIOUS
<1>2. e \in Encoders(W) /\ b \in Seq(Int) /\ wire \in Seq(Int)
  BY <1>1 DEF CodecInv, Encoders
<1>3. PICK k \in Nat : k = Len(b)
  BY <1>2
<1>4. PICK n \in Nat : /\ n >= 1 /\ n <= Len(b)
                       /\ wire' = wire \o SubSeq(b, 1, n) /\ enc' = z_code_flush_result(e, n)
  <2>1. PICK n \in 1 .. k : wire' = wire \o SubSeq(b, 1, n) /\ enc' = z_code_flush_result(e, n)
    BY <1>1, <1>3 DEF PeekAndFlush
  <2>2. n \in Nat /\ n >= 1 /\ n <= Len(b)
    BY <1>3
  <2> QED
    BY <2>1, <2>2
<1>5. PICK c : c = SubSeq(b, n + 1, Len(b))
  OBVIOUS
<1>6. wire' \in Seq(Int) /\ c \in Seq(Int) /\ wire' \o c = wire \o b
  BY <1>2, <1>3, <1>4, <1>5, TakenJoined
<1>7. PICK f : f = enc'
  OBVIOUS
<1>8. PICK p \in Int : f = [e EXCEPT !.buf = c, !.part = p]
  <2>5. n # 0 /\ ~(k < n) /\ k - n \in 0 .. k /\ k - (k - n) + 1 = n + 1
    BY <1>3, <1>4
  <2>1. PICK left \in 0 .. k : left = (IF n = 0 \/ k < n THEN 0 ELSE k - n) /\ k - left + 1 = n + 1
    BY <2>5
  <2>2. f = [e EXCEPT !.buf = SubSeq(@, Len(@) - left + 1, Len(@)),
                      !.part = IF left < Len(b) THEN b[left + 1] ELSE @]
    BY <1>1, <1>3, <1>4, <1>7, <2>1 DEF z_code_flush_result
  <2>3. f = [e EXCEPT !.buf = c, !.part = IF left < Len(b) THEN b[left + 1] ELSE e.part]
    BY <1>1, <1>3, <1>5, <2>1, <2>2
  <2>4. (IF left < Len(b) THEN b[left + 1] ELSE e.part) \in Int
    <3>1. e.part \in Int
      BY <1>2 DEF Encoders
    <3>2. ASSUME left < Len(b) PROVE b[left + 1] \in Int
      BY <1>2, <1>3, <2>1, <3>2
    <3> QED
      BY <3>1, <3>2
  <2> QED
    BY <2>3, <2>4
<1>9. f \in Encoders({f.buf_len}) /\ f.buf = c /\ f.phase = e.phase
  BY <1>2, <1>6, <1>8 DEF Encoders
<1>10. CodecTypes'
  BY <1>1, <1>6, <1>7, <1>9 DEF CodecInv, PeekAndFlush
<1>11. torn' \/ Kept(dec, ok, wire, enc, given, input, odd)'
  <2>1. CASE torn \/ e.phase # 0
    BY <1>1, <2>1 DEF PeekAndFlush
  <2>2. CASE ~torn /\ e.phase = 0
    <3>1. Kept(dec, ok, wire, e, given, input, odd)
      BY <1>1, <2>2 DEF CodecInv
    <3>2. Kept(dec, ok, wire', f, given, input, odd)
      <4>1. wire' \o f.buf = wire \o e.buf /\ f.phase = e.phase /\ e.phase = 0
        BY <1>1, <1>6, <1>9, <2>2
      <4> QED
        BY <3>1, <4>1, CutKeeps
    <3> QED
      BY <1>7, <3>2 DEF PeekAndFlush
  <2> QED
    BY <2>1, <2>2
<1> QED
  BY <1>10, <1>11 DEF CodecInv

LEMMA InsertStep == CodecInv /\ Insert => CodecInv'
<1> SUFFICES ASSUME CodecInv, Insert PROVE CodecInv'
  OBVIOUS
<1> USE DEF CodecTypes
<1>1. PICK c \in Junk : wire' = Append(wire, c)
  BY DEF Insert
<1>2. c \in Int /\ (Value(c) = -1 \/ Value(c) = -3)
  BY JunkAssumption
<1>3. PICK e, d, W : e = enc /\ d = dec /\ W = {e.buf_len}
  OBVIOUS
<1>4. PICK n \in Nat, x \in Seq(Int), k \in Nat :
          n = given /\ x = input /\ k = odd /\ odd' = k + 1 /\ n <= Len(x)
  <2>1. input \in Seq(Int)
    BY BytesInt DEF CodecInv
  <2>2. Len(input) \in Nat
    BY <2>1, LenProperties
  <2>3. given \in Nat /\ given <= Len(input) /\ odd \in Nat /\ odd' = odd + 1
    BY <2>2 DEF CodecInv, Insert
  <2> QED
    BY <2>1, <2>3, Zenon
<1>5. e \in Encoders(W) /\ d \in Decoders({d.buf_len}) /\ ok \in BOOLEAN /\ wire \in Seq(Int)
  BY <1>3 DEF CodecInv
<1>6. wire' \in Seq(Int) /\ odd' \in Nat
  BY <1>1, <1>2, <1>4, <1>5
<1>7. CodecTypes'
  BY <1>6 DEF CodecInv, Insert
<1>8. torn' \/ Kept(dec, ok, wire, enc, given, input, odd)'
  <2>1. CASE torn
    BY <2>1 DEF Insert
  <2>2. CASE ~torn
    <3>1. Kept(d, ok, wire, e, n, x, k)
      BY <1>3, <1>4, <2>2 DEF CodecInv
    <3>2. Kept(d, ok, Append(wire, c), e, n, x, k + 1)
      BY <1>2, <1>4, <1>5, <3>1, InsertKeeps
    <3> QED
      BY <1>1, <1>3, <1>4, <3>2 DEF Insert
  <2> QED
    BY <2>1, <2>2
<1> QED
  BY <1>7, <1>8 DEF CodecInv

LEMMA SentCut ==
    ASSUME NEW w \in Seq(Int), NEW n \in Nat, n <= Len(w)
    PROVE  /\ SubSeq(w, 1, n) \in Seq(Int) /\ SubSeq(w, n + 1, Len(w)) \in Seq(Int)
           /\ SubSeq(w, 1, n) \o SubSeq(w, n + 1, Len(w)) = w
<1>1. PICK v \in Seq(Int) : v = <<>>
  <2>1. <<>> \in Seq(Int)
    BY EmptySeq
  <2> QED
    BY <2>1, Zenon
<1>2. PICK t, u : t = SubSeq(w, 1, n) /\ u = SubSeq(w, n + 1, Len(w))
  OBVIOUS
<1>5. t \in Seq(Int) /\ u \in Seq(Int)
  BY <1>2
<1>3. (v \o t) \o u = v \o w
  BY <1>2, TakenJoined
<1>4. v \o t = t /\ v \o w = w
  BY <1>1, <1>5
<1> QED
  BY <1>2, <1>3, <1>4, <1>5

LEMMA DecodeStep == CodecInv /\ Decode => CodecInv'
<1> SUFFICES ASSUME CodecInv, Decode PROVE CodecInv'
  OBVIOUS
<1> USE DEF CodecTypes
<1>1. PICK n \in Nat :
          /\ n <= Len(wire)
          /\ LET r == z_code_base64_decode_transform(dec, SubSeq(wire, 1, n)) IN
             dec' = r.code /\ ok' = ~r.failed
          /\ wire' = SubSeq(wire, n + 1, Len(wire))
  <2>1. \A n \in 1 .. MaxPiece : n \in Nat
    BY CodecAssumption
  <2> QED
    BY <2>1 DEF Decode
<1>2. PICK e, d, W, V : e = enc /\ d = dec /\ W = {e.buf_len} /\ V = {d.buf_len}
  OBVIOUS
<1>3. e \in Encoders(W) /\ d \in Decoders(V) /\ d \in Decoders({d.buf_len}) /\ wire \in Seq(Int)
  BY <1>2 DEF CodecInv
<1>4. PICK t, u : t = SubSeq(wire, 1, n) /\ u = SubSeq(wire, n + 1, Len(wire))
  OBVIOUS
<1>5. t \in Seq(Int) /\ u \in Seq(Int) /\ t \o u = wire
  BY <1>1, <1>3, <1>4, SentCut
<1>6. PICK y : y = z_code_base64_decode_transform(d, t)
  OBVIOUS
<1>7. dec' = y.code /\ ok' = ~y.failed /\ wire' = u
  BY <1>1, <1>2, <1>4, <1>6
<1>8. y.code \in Decoders({y.code.buf_len}) /\ y.failed \in BOOLEAN
  BY <1>3, <1>5, <1>6, DecodeTypes
<1>9. CodecTypes'
  BY <1>5, <1>7, <1>8 DEF CodecInv, Decode
<1>10. torn' \/ Kept(dec, ok, wire, enc, given, input, odd)'
  <2>1. CASE torn
    BY <2>1 DEF Decode
  <2>2. CASE ~torn
    <3>1. ok = TRUE
      BY DEF Decode, CodecInv
    <3>2. Kept(d, TRUE, t \o u, e, given, input, odd)
      BY <1>2, <1>5, <2>2, <3>1 DEF CodecInv
    <3>3. Kept(y.code, ~y.failed, u, e, given, input, odd)
      BY <1>3, <1>5, <1>6, <3>2, DecodeKeeps
    <3> QED
      BY <1>2, <1>7, <3>3 DEF Decode
  <2> QED
    BY <2>1, <2>2
<1> QED
  BY <1>9, <1>10 DEF CodecInv

\* What the invariant says of the end.
LEMMA AllThere ==
    ASSUME CodecInv, ~torn, AllPassed, ok
    PROVE  dec.buf = input /\ dec.phase = 0
<1> USE DEF CodecTypes
<1>1. PICK r : r = [code |-> dec, failed |-> ~ok]
  OBVIOUS
<1>2. PICK s : /\ Sent(r, wire, enc, s)
               /\ InStep(s, {dec.buf_len}, enc, given, input) \/ Refused(s, odd, input)
  BY <1>1 DEF CodecInv, Kept
<1>3. s = r
  <2>1. wire \o enc.buf = <<>>
    BY DEF AllPassed
  <2> QED
    BY <1>2, <2>1, ReadsNothing DEF Sent
<1>4. s.code = dec /\ s.failed = FALSE
  BY <1>1, <1>3
<1>5. At(s, {dec.buf_len}, enc.phase, given, input) /\ enc.phase = 0
  <2>1. enc.phase = 0
    BY DEF CodecInv, AllPassed
  <2>2. InStep(s, {dec.buf_len}, enc, given, input)
    BY <1>2, <1>4 DEF Refused
  <2> QED
    BY <2>1, <2>2 DEF InStep
<1>6. dec.phase = 0 /\ Len(dec.buf) = given /\ \A i \in 1 .. given : dec.buf[i] = input[i]
  BY <1>4, <1>5 DEF At
<1>7. dec.buf \in Seq(Int) /\ input \in Seq(Int) /\ Len(input) = given
  <2>1. input \in Seq(Int)
    BY BytesInt DEF CodecInv
  <2> QED
    BY <2>1 DEF CodecInv, AllPassed, Decoders
<1>8. dec.buf = input
  BY <1>6, <1>7, SeqEqual
<1> QED
  BY <1>6, <1>8

LEMMA DecodeFinishStep == CodecInv /\ DecodeFinish => CodecInv'
<1> SUFFICES ASSUME CodecInv, DecodeFinish PROVE CodecInv'
  OBVIOUS
<1> USE DEF CodecTypes
<1>1. dec' = [dec EXCEPT !.phase = 0] /\ ok' = ~(dec.phase # 0 /\ ~dec.tolerant)
  BY DEF DecodeFinish, z_code_base64_decode_finish
<1>2. dec \in Decoders({dec.buf_len})
  BY DEF CodecInv
<1>3. dec' \in Decoders({dec'.buf_len})
  <2>1. PICK d, V, f : d = dec /\ V = {d.buf_len} /\ f = dec'
    OBVIOUS
  <2>2. d \in Decoders(V) /\ f = [d EXCEPT !.phase = 0]
    BY <1>1, <1>2, <2>1
  <2>3. f \in Decoders({f.buf_len})
    BY <2>2 DEF Decoders
  <2> QED
    BY <2>1, <2>3
<1>4. CodecTypes'
  BY <1>1, <1>3 DEF CodecInv, DecodeFinish
<1>5. torn' \/ Kept(dec, ok, wire, enc, given, input, odd)'
  <2>1. CASE torn
    BY <2>1 DEF DecodeFinish
  <2>2. CASE ~torn
    <3>1. dec.phase = 0
      BY <2>2, AllThere DEF DecodeFinish
    <3>2. dec' = dec /\ ok' = TRUE /\ ok = TRUE
      BY <1>1, <1>2, <3>1 DEF Decoders, DecodeFinish, CodecInv
    <3>3. Kept(dec, ok, wire, enc, given, input, odd)
      BY <2>2 DEF CodecInv
    <3> QED
      BY <3>2, <3>3 DEF DecodeFinish
  <2> QED
    BY <2>1, <2>2
<1> QED
  BY <1>4, <1>5 DEF CodecInv

LEMMA StutterStep == CodecInv /\ UNCHANGED vars => CodecInv'
  BY DEF CodecInv, CodecTypes, vars

\* Whatever the calls on the two coders, the characters between them bring the decoder
\* to all bytes that z_code_transform of the encoder was given, or to a refusal.
THEOREM CodecHolds == Spec => []CodecInv
<1>1. CodecInv /\ [Next]_vars => CodecInv'
  BY FeedStep, FinishStep, TakeStep, PutBackStep, PeekAndFlushStep, InsertStep, DecodeStep,
     DecodeFinishStep, StutterStep DEF Next
<1> QED
  BY InitHolds, <1>1, PTL DEF Spec

LEMMA InvRoundTrip == CodecInv => RoundTrip
<1> SUFFICES ASSUME CodecInv, ~torn
             PROVE  /\ IsPrefix(dec.buf, input)
                    /\ AllPassed /\ ok => dec.buf = input /\ dec.phase = 0
                    /\ Failed => ~dec.tolerant /\ odd > 0
  BY DEF RoundTrip
<1> USE DEF CodecTypes
<1>1. PICK r, V : r = [code |-> dec, failed |-> ~ok] /\ V = {dec.buf_len}
  OBVIOUS
<1>2. PICK s : /\ Sent(r, wire, enc, s)
               /\ InStep(s, V, enc, given, input) \/ Refused(s, odd, input)
  BY <1>1 DEF CodecInv, Kept
<1>3. r \in Readers(V)
  BY <1>1 DEF CodecInv, Readers
<1>4. Advances(r, s, V)
  <2>1. wire \o enc.buf \in Seq(Int)
    BY DEF CodecInv, Encoders
  <2> QED
    BY <1>2, <1>3, <2>1, TextAdvances DEF Sent
<1>11. PICK e, W : e = enc /\ W = {e.buf_len}
  OBVIOUS
<1>5. PICK x \in Seq(Int), n \in Nat : x = input /\ n = given /\ n <= Len(x)
  <2>1. input \in Seq(Int)
    BY BytesInt DEF CodecInv
  <2>2. Len(input) \in Nat
    BY <2>1, LenProperties
  <2>3. given \in Nat /\ given <= Len(input)
    BY <2>2 DEF CodecInv
  <2> QED
    BY <2>1, <2>3, Zenon
<1>6. e \in Encoders(W)
  BY <1>11 DEF CodecInv
<1>7. ASSUME InStep(s, V, enc, given, input)
      PROVE  s.failed = FALSE /\ Begins(s.code.buf, x)
  BY <1>5, <1>6, <1>7, <1>11, Begun
<1>8. Begins(s.code.buf, x)
  BY <1>2, <1>5, <1>7 DEF Refused
<1>9. IsPrefix(dec.buf, input)
  <2>1. r.code.buf \in Seq(Int) /\ s.code.buf \in Seq(Int) /\ Begins(r.code.buf, s.code.buf)
    BY <1>3, <1>4 DEF Advances, Readers, Decoders
  <2>2. Begins(r.code.buf, x)
    BY <1>8, <2>1, BeginsTrans
  <2>3. IsPrefix(r.code.buf, x)
    BY <2>1, <2>2, BeginsPrefix
  <2> QED
    BY <1>1, <1>5, <2>3
<1>10. Failed => ~dec.tolerant /\ odd > 0
  <2> SUFFICES ASSUME Failed PROVE ~dec.tolerant /\ odd > 0
    OBVIOUS
  <2>1. s = r /\ r.failed
    BY <1>1, <1>4 DEF Advances, Failed
  <2>2. Refused(s, odd, input)
    BY <1>2, <1>7, <2>1
  <2> QED
    BY <1>1, <2>1, <2>2 DEF Refused
<1> QED
  BY <1>9, <1>10, AllThere

\* What has been decoded is a beginning of what was encoded, and at the end all of it:
\* z_code_transform, z_code_finish, z_code_get_result, z_code_unget_result and
\* z_code_flush_result of both coders, in any order, on pieces of any size.
THEOREM CodeRoundTrip == Spec => []RoundTrip
  BY CodecHolds, InvRoundTrip, PTL
=============================================================================
