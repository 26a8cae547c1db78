------------------------------- MODULE MCCodec -------------------------------
(* Instances of Codec. *)
EXTENDS Codec, Bitwise

MCInputs == {<<>>, <<255>>, <<0, 255>>, <<255, 255, 0>>, <<165, 90, 60, 195, 127>>}

\* What Codec writes with BitOr, \div and % are the operators on the bits of a byte.
ASSUME BitsAssumption ==
    \A x, y \in 0 .. 255 :
        /\ BitOr(x, y) = x | y
        /\ ((x \div 16) % 4) * 16 = x & 48 /\ ((x \div 4) % 16) * 4 = x & 60
=============================================================================
