------------------------------- MODULE MCLog --------------------------------
(* Instances of Log for TLC. *)
EXTENDS Log

Debug == <<"core", "debug">>
Http == <<"http", "error">>

Entry(glob, num) == [glob |-> glob, colon |-> TRUE, num |-> num]

MCTags == {Debug, Http}
MCMapped == {Http}
MCLogSpecs == {<<>>,
               <<Entry(<<"*", "debug", "x">>, 0), Entry(<<"core">>, 255)>>,
               <<Entry(<<"*">>, 0), [glob |-> <<"core">>, colon |-> FALSE, num |-> 0]>>}
=============================================================================
