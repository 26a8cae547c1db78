----------------------------- MODULE MCStreamLine -----------------------------
(* Instances of StreamLine. *)
EXTENDS StreamLine

\* Every input up to the given length.
UpTo(n, bytes) == UNION {[1 .. k -> bytes] : k \in 0 .. n}

MCCases ==
    [input : UpTo(3, {"a", "LF"}) \cup {<<"a", "a", "a", "a", "LF", "a", "LF">>},
     flags : {{"EOL_NL", "TRUNCATE"}, {"EOL_NL", "SPLIT", "RETURN_EOL"},
              {"EOL_NL", "SINGLE_READ", "RETURN_EOL"}}]
    \cup [input : UpTo(3, {"a", "CR", "LF"}),
          flags : {{"EOL_CRLF"}, {"EOL_CRLF", "EOL_FATAL"}}]
    \cup [input : {<<"a", "NUL", "LF">>, <<"a", "NUL", "a">>}, flags : {{"EOL_NL"}, {"EOL_NL", "NUL_NONFATAL"}, {"EOL_NUL"}}]
=============================================================================
