-------------------------------- MODULE Log ---------------------------------
(***************************************************************************)
(* The logging of the library (src/src/log.c).  Its three parts share nothing *)
(* but the order of the calls: z_log_enabled_len decides (LogSpec), a message *)
(* goes to syslogd (Syslog), and what the program writes to stderr becomes a  *)
(* message (StderrLog).  A behaviour exercises one of them.                   *)
(***************************************************************************)
EXTENDS LogSpec, Syslog, StderrLog

VARIABLE part

logvars == <<logspecvars, syslogvars, stderrvars, part>>

\* z_log_init.
Init ==
    /\ part \in {"spec", "syslog", "stderr"}
    /\ LogSpecInit
    /\ part # "spec" => log_spec.items = <<>>
    /\ SyslogInit
    /\ StderrInit

Next ==
    /\ \/ part = "spec" /\ LogSpecNext /\ UNCHANGED <<syslogvars, stderrvars>>
       \/ part = "syslog" /\ SyslogNext /\ UNCHANGED <<logspecvars, stderrvars>>
       \/ part = "stderr" /\ StderrNext /\ UNCHANGED <<logspecvars, syslogvars>>
    /\ UNCHANGED part

\* The two threads of StderrLog run.
Spec == Init /\ [][Next]_logvars /\ StderrFair
=============================================================================
