-------------------------------- MODULE Codec --------------------------------
(***************************************************************************)
(* Coders (src/src/code.c) and the base64 coders (src/src/code_base64.c): an  *)
(* application feeds an encoder in pieces of any size, takes the result in    *)
(* pieces, puts some back or drops it, and passes it on to a decoder.         *)
(*                                                                           *)
(* A coder keeps the byte it is working on behind the result, in              *)
(* buf[buf_used]: c.buf is the result and c.part that byte.  Bytes and        *)
(* characters are integers.                                                   *)
(***************************************************************************)
EXTENDS Integers, Sequences, SequencesExt

CONSTANTS
    Inputs,     \* what is to be encoded
    BufSizes,   \* bufsize of the encoder
    LineLens,   \* linelen: 0 for no line breaks
    MaxPiece,   \* bound: bytes in a piece
    Junk,       \* characters that get between the encoder and the decoder
    MaxOdd,     \* bound: such characters, and calls of finish before the end
    MaxBack     \* bound: times a result is put back or dropped

ASSUME CodecAssumption ==
    /\ \A i \in Inputs : i \in Seq(0 .. 255)
    /\ \A b \in BufSizes : b \in Nat \ {0}
    /\ \A n \in LineLens : n \in Nat
    /\ MaxPiece \in Nat \ {0} /\ MaxOdd \in Nat /\ MaxBack \in Nat

VARIABLES
    input,  \* all that is encoded
    given,  \* bytes given to the encoder
    ends,   \* places of the input where z_code_finish was called
    enc,    \* the ZCodeBase64Encode
    wire,   \* characters on their way from the encoder to the decoder
    dec,    \* the ZCodeBase64Decode
    ok,     \* no call has returned FALSE
    torn,   \* a call on a result has overwritten the byte behind it
    odd,    \* calls counted by MaxOdd and by MaxBack
    back

vars == <<input, given, ends, enc, wire, dec, ok, torn, odd, back>>

CR == 13
LF == 10
EQ == 61

\* z_code_base64_encode_new and z_code_base64_decode_new, with z_code_init.
NewEncoder(size, linelen) ==
    [buf |-> <<>>, part |-> 0, buf_len |-> size, phase |-> 0, errors |-> 0,
     linepos |-> 0, linelen |-> linelen]
NewDecoder(tolerant) ==
    [buf |-> <<>>, part |-> 0, buf_len |-> 256, phase |-> 0, errors |-> 0, tolerant |-> tolerant]

Init ==
    /\ input \in Inputs
    /\ given = 0 /\ ends = {}
    /\ \E b \in BufSizes, n \in LineLens : enc = NewEncoder(b, n)
    /\ wire = <<>>
    /\ \E t \in BOOLEAN : dec = NewDecoder(t)
    /\ ok = TRUE /\ torn = FALSE
    /\ odd = 0 /\ back = 0

-----------------------------------------------------------------------------
(* The buffer of a coder. *)

\* z_code_grow: doubles until it is enough (ten times at most, here).
z_code_grow(len, reqlen) ==
    CHOOSE n \in {len * 2 ^ k : k \in 0 .. 10} :
        n >= reqlen /\ (n = len \/ n \div 2 < reqlen)

\* (mutant) the byte behind the result stays where it was
z_code_get_result_leaves(c, n) ==
    [c EXCEPT !.buf = SubSeq(@, n + 1, Len(@)), !.part = IF n = 0 THEN @ ELSE 0]

\* z_code_get_result, of n bytes of the result: the byte behind it moves along.
z_code_get_result(c, n) == [c EXCEPT !.buf = SubSeq(@, n + 1, Len(@))]

\* z_code_unget_result: only the result moves, and what is behind it now is
\* whatever was there.
z_code_unget_result(c, s, garbage) ==
    [c EXCEPT !.buf = s \o @, !.part = garbage, !.buf_len = z_code_grow(@, Len(c.buf) + Len(s))]

\* z_code_flush_result: only the result moves.
z_code_flush_result(c, n) ==
    LET left == IF n = 0 \/ Len(c.buf) < n THEN 0 ELSE Len(c.buf) - n IN
    [c EXCEPT !.buf = SubSeq(@, Len(@) - left + 1, Len(@)),
              !.part = IF left < Len(c.buf) THEN c.buf[left + 1] ELSE @]

\* x | y of two bytes, bit by bit.
BitOr(x, y) ==
    LET bit(p) == IF (x \div p) % 2 = 1 \/ (y \div p) % 2 = 1 THEN p ELSE 0
    IN  bit(1) + bit(2) + bit(4) + bit(8) + bit(16) + bit(32) + bit(64) + bit(128)

-----------------------------------------------------------------------------
(* The encoder. *)

\* The character for a six-bit value.
Char(v) ==
    LET w == v % 64 IN
    IF w < 26 THEN 65 + w ELSE IF w < 52 THEN 97 + w - 26
    ELSE IF w < 62 THEN 48 + w - 52 ELSE IF w = 62 THEN 43 ELSE 47

\* z_code_base64_encode_fix: a character, and a line break after the last of
\* its line.
z_code_base64_encode_fix(e, char) ==
    IF e.linelen # 0 /\ e.linepos >= e.linelen
    THEN [e EXCEPT !.buf = @ \o <<char, CR, LF>>, !.linepos = 0]
    ELSE [e EXCEPT !.buf = Append(@, char), !.linepos = IF e.linelen # 0 THEN @ + 1 ELSE @]

\* One byte.
EncodeByte(e, b) ==
    LET fix(c, v) == z_code_base64_encode_fix(c, Char(v)) IN
    CASE e.phase = 0 -> [fix(e, b \div 4) EXCEPT !.part = (b % 4) * 16, !.phase = 1]
      [] e.phase = 1 -> [fix(e, BitOr(e.part, b \div 16)) EXCEPT !.part = (b % 16) * 4, !.phase = 2]
      [] e.phase = 2 -> [fix(fix(e, BitOr(e.part, b \div 64)), b % 64) EXCEPT !.phase = 0]

\* z_code_calculate_growing.
z_code_calculate_growing(old, orig, line) ==
    LET n == old + (orig * 4 + 2) \div 3 IN
    IF line = 0 THEN n ELSE n + (2 * (n + line - 1)) \div line

z_code_base64_encode_transform(e, piece) ==
    LET grown == [e EXCEPT !.buf_len =
                     z_code_grow(@, z_code_calculate_growing(Len(e.buf), Len(piece), e.linelen))]
        after[n \in 0 .. Len(piece)] ==
            IF n = 0 THEN grown ELSE EncodeByte(after[n - 1], piece[n])
    IN  after[Len(piece)]

z_code_base64_encode_finish(e) ==
    LET fix(c, char) == z_code_base64_encode_fix(c, char)
        padded == CASE e.phase = 0 -> e
                    [] e.phase = 1 -> fix(fix(fix(e, Char(((e.part \div 16) % 4) * 16)), EQ), EQ)
                    [] e.phase = 2 -> fix(fix(e, Char(((e.part \div 4) % 16) * 4)), EQ)
    IN  [padded EXCEPT !.buf = IF padded.linepos # 0 THEN @ \o <<CR, LF>> ELSE @,
                       !.linepos = 0, !.phase = 0]

-----------------------------------------------------------------------------
(* The decoder. *)

\* The value of a character: -1 is passed over, -2 is padding, -3 is an error.
Value(c) ==
    IF c \in 65 .. 90 THEN c - 65 ELSE IF c \in 97 .. 122 THEN c - 71
    ELSE IF c \in 48 .. 57 THEN c + 4 ELSE IF c = 43 THEN 62 ELSE IF c = 47 THEN 63
    ELSE IF c \in {9, 10, 13, 32} THEN -1 ELSE IF c = EQ THEN -2 ELSE -3

\* What gets in between is no base64.
ASSUME JunkAssumption == \A c \in Junk : c \in 0 .. 255 /\ Value(c) \in {-1, -3}

Bits(d, v) ==
    CASE d.phase = 0 -> [d EXCEPT !.part = (v * 4) % 256, !.phase = 1]
      [] d.phase = 1 -> [d EXCEPT !.buf = Append(@, BitOr(d.part, v \div 16)),
                                  !.part = (v * 16) % 256, !.phase = 2]
      [] d.phase = 2 -> [d EXCEPT !.buf = Append(@, BitOr(d.part, v \div 4)),
                                  !.part = (v * 64) % 256, !.phase = 3]
      [] d.phase = 3 -> [d EXCEPT !.buf = Append(@, BitOr(d.part, v)), !.phase = 0]

\* One character: the decoder after it, failed if the call returns FALSE here.
DecodeChar(r, c) ==
    LET d == r.code
        v == Value(c)
        goes(x) == [code |-> x, failed |-> FALSE]
        fails == [code |-> [d EXCEPT !.errors = @ + 1], failed |-> TRUE]
    IN  IF r.failed \/ v = -1 THEN r
        ELSE IF v = -2
        THEN CASE d.phase \in {0, 1} -> IF d.tolerant THEN r ELSE fails
               [] d.phase = 2 -> goes([d EXCEPT !.phase = 4])
               [] d.phase \in {3, 4} -> goes([d EXCEPT !.phase = 0])
        ELSE IF v = -3 THEN (IF d.tolerant THEN r ELSE fails)
        ELSE IF d.phase = 4
        THEN (IF d.tolerant THEN goes(Bits([d EXCEPT !.phase = 0], v)) ELSE fails)
        ELSE goes(Bits(d, v))

\* z_code_base64_decode_transform.
z_code_base64_decode_transform(d, piece) ==
    LET grown == [d EXCEPT !.buf_len =
                     z_code_grow(@, Len(d.buf) + (Len(piece) * 3 + 3) \div 4 + 16)]
        after[n \in 0 .. Len(piece)] ==
            IF n = 0 THEN [code |-> grown, failed |-> FALSE]
            ELSE DecodeChar(after[n - 1], piece[n])
    IN  after[Len(piece)]

\* z_code_base64_decode_finish: the decoder, and what is returned.
z_code_base64_decode_finish(d) ==
    [code |-> [d EXCEPT !.phase = 0], failed |-> d.phase # 0 /\ ~d.tolerant]

-----------------------------------------------------------------------------
(* The application. *)

Feed ==
    /\ ok
    /\ \E n \in 1 .. MaxPiece :
          /\ given + n <= Len(input)
          /\ enc' = z_code_base64_encode_transform(enc, SubSeq(input, given + 1, given + n))
          /\ given' = given + n
    /\ UNCHANGED <<input, ends, wire, dec, ok, torn, odd, back>>

\* z_code_finish, at the end or before: the encoder goes on with a new text.
Finish ==
    /\ ok
    /\ given \notin ends
    /\ given = Len(input) \/ odd < MaxOdd
    /\ enc' = z_code_base64_encode_finish(enc)
    /\ ends' = ends \cup {given}
    /\ odd' = IF given = Len(input) THEN odd ELSE odd + 1
    /\ UNCHANGED <<input, given, wire, dec, ok, torn, back>>

Take ==
    /\ ok
    /\ \E n \in 1 .. MaxPiece :
          /\ n <= Len(enc.buf)
          /\ wire' = wire \o SubSeq(enc.buf, 1, n)
          /\ enc' = z_code_get_result(enc, n)
    /\ UNCHANGED <<input, given, ends, dec, ok, torn, odd, back>>

\* The application puts back the last character it took.
PutBack ==
    /\ ok /\ wire # <<>> /\ back < MaxBack
    /\ \E garbage \in {0, 255} : enc' = z_code_unget_result(enc, <<Last(wire)>>, garbage)
    /\ wire' = Front(wire)
    /\ torn' = (torn \/ enc.phase # 0)
    /\ back' = back + 1
    /\ UNCHANGED <<input, given, ends, dec, ok, odd>>

\* z_code_peek_result, then z_code_flush_result of what was used.
PeekAndFlush ==
    /\ ok /\ enc.buf # <<>> /\ back < MaxBack
    /\ \E n \in 1 .. Len(enc.buf) :
          /\ wire' = wire \o SubSeq(enc.buf, 1, n)
          /\ enc' = z_code_flush_result(enc, n)
    /\ torn' = (torn \/ enc.phase # 0)
    /\ back' = back + 1
    /\ UNCHANGED <<input, given, ends, dec, ok, odd>>

Insert ==
    /\ ok /\ odd < MaxOdd
    /\ \E c \in Junk : wire' = Append(wire, c)
    /\ odd' = odd + 1
    /\ UNCHANGED <<input, given, ends, enc, dec, ok, torn, back>>

Decode ==
    /\ ok
    /\ \E n \in 1 .. MaxPiece :
          /\ n <= Len(wire)
          /\ LET r == z_code_base64_decode_transform(dec, SubSeq(wire, 1, n)) IN
             dec' = r.code /\ ok' = ~r.failed
          /\ wire' = SubSeq(wire, n + 1, Len(wire))
    /\ UNCHANGED <<input, given, ends, enc, torn, odd, back>>

AllPassed == given = Len(input) /\ given \in ends /\ enc.buf = <<>> /\ wire = <<>>

DecodeFinish ==
    /\ ok /\ AllPassed
    /\ LET r == z_code_base64_decode_finish(dec) IN dec' = r.code /\ ok' = ~r.failed
    /\ UNCHANGED <<input, given, ends, enc, wire, torn, odd, back>>

Next ==
    \/ Feed \/ Finish \/ Take \/ PutBack \/ PeekAndFlush \/ Insert \/ Decode \/ DecodeFinish

Spec == Init /\ [][Next]_vars

-----------------------------------------------------------------------------
(* Properties. *)

Failed == ~ok

\* What comes out of the decoder is what went into the encoder, however both
\* are cut into pieces, with lines of any length, texts that follow each other
\* and characters in between: always a beginning of it, and all of it at the
\* end.  Unless the byte behind the result was lost, only a character that is
\* no base64 makes a call fail, and only in a strict decoder.
RoundTrip ==
    ~torn =>
        /\ IsPrefix(dec.buf, input)
        /\ AllPassed /\ ok => dec.buf = input /\ dec.phase = 0
        /\ Failed => ~dec.tolerant /\ odd > 0
=============================================================================
