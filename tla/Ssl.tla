-------------------------------- MODULE Ssl ---------------------------------
(***************************************************************************)
(* The SSL support of the library: sessions are created (SslSession), verify    *)
(* the peer (SslVerify) and carry a stream (StreamSsl).  The three share no      *)
(* state that changes: a session keeps the parameters it was created with.  A    *)
(* behaviour exercises one of them.                                           *)
(***************************************************************************)
EXTENDS SslSession, SslVerify, StreamSsl

VARIABLE stage

sslvars == <<sessionvars, verifyvars, streamvars, stage>>

Init ==
    /\ stage \in {"create", "verify", "stream"}
    /\ SessionInit /\ VerifyInit /\ StreamInit
    /\ stage # "create" => dir.files = {} /\ dir.good = {}
    /\ stage # "verify" => session = [verify_type |-> "NONE", verify_depth |-> -1, crl_store |-> FALSE]
    /\ stage # "stream" => ~ssl.session

Next ==
    /\ \/ stage = "create" /\ SessionNext /\ UNCHANGED <<verifyvars, streamvars>>
       \/ stage = "verify" /\ VerifyNext /\ UNCHANGED <<sessionvars, streamvars>>
       \/ stage = "stream" /\ StreamNext /\ UNCHANGED <<sessionvars, verifyvars>>
    /\ UNCHANGED stage

Spec == Init /\ [][Next]_sslvars
=============================================================================
