------------------------------ MODULE Process -------------------------------
(***************************************************************************)
(* src/src/process.c as a whole: a process is started (Daemonize) and, in   *)
(* the mode safe-background, becomes the supervisor of the daemons it forks *)
(* (Supervisor).                                                            *)
(***************************************************************************)
EXTENDS Daemonize, Supervisor

ProcessInit == DaemonizeInit /\ Init

Next ==
    \/ DaemonizeNext /\ UNCHANGED vars
    \/ BecomeSupervisor /\ ForkSupervisor
    \/ SupervisorNext /\ UNCHANGED dvars

Spec ==
    /\ ProcessInit
    /\ [][Next]_<<dvars, vars>>
    /\ Fairness

-----------------------------------------------------------------------------
(* Properties. *)

\* A supervisor never starts a daemon while the one before is still alive, and
\* the pid file names the daemon that is up, whatever the ones before it left.
OneDaemonNamed == OneDaemon /\ PidfileCurrent

\* Whoever starts the program is told of a success only if the daemon reported
\* one, with or without a supervisor, and the daemon that reports it runs in
\* the root directory and as the user, group and capabilities asked for.
StartSound == StartupTruth /\ RunsAsAsked
=============================================================================
