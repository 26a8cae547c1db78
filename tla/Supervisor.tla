----------------------------- MODULE Supervisor -----------------------------
(***************************************************************************)
(* Starting and supervising a daemon (src/src/process.c, mode               *)
(* safe-background).  A startup process waits on a pipe for the result of   *)
(* the first start, a supervisor forks the daemon, waits on another pipe    *)
(* for the result of its initialisation, restarts it when it fails, crashes *)
(* or hangs, and gives up when it had to do so too often.                   *)
(*                                                                         *)
(* A second supervisor exists only after the notification program could not *)
(* be executed: the forked process then goes on as a supervisor.  Times are *)
(* kept as ages in seconds, up to one more than the restart interval.       *)
(***************************************************************************)
EXTENDS Integers, Sequences, FiniteSets

CONSTANTS
    restart_max_opt,       \* --restart-max
    restart_interval_opt,  \* --restart-interval
    PROC_RESTART_MAX,      \* room in restart_time: 30 in the code
    Shift,                 \* elements the table is moved by: sizeof(time_t)
    CheckEnabled,          \* a check function is installed
    PidfileMayFail,        \* the pid file cannot always be created
    TwiceAge,              \* bound: a notification fails only while every start
                           \* is at most so old
    SecondStarts           \* bound: starts in the table of a second supervisor

Least(x, y) == IF x <= y THEN x ELSE y
Most(x, y) == IF x <= y THEN y ELSE x

ASSUME SupervisorAssumption ==
    /\ restart_max_opt \in Int
    /\ restart_interval_opt \in Int
    /\ PROC_RESTART_MAX \in Nat \ {0, 1}
    /\ Shift \in 1 .. PROC_RESTART_MAX - 1
    /\ CheckEnabled \in BOOLEAN
    /\ PidfileMayFail \in BOOLEAN
    /\ TwiceAge \in Nat
    /\ SecondStarts \in Nat

\* The options as z_process_perform_supervise corrects them.
restart_max ==
    IF restart_max_opt < 2 THEN 5 ELSE Least(restart_max_opt, PROC_RESTART_MAX)
restart_interval_min == Most(5, 3 * restart_max)
restart_interval ==
    IF restart_interval_opt < restart_interval_min THEN 5 ELSE restart_interval_opt

VARIABLES
    startup,         \* the startup process: "reading" or its exit code
    startup_result,  \* startup_result_pipe
    sup,             \* the supervisors
    daemon,          \* the child of every supervisor
    init_result,     \* its init_result_pipe
    signal,          \* the last signal sent to it
    pidfile,         \* whose pid is in the file
    first_ok         \* the first daemon has reported success

vars == <<startup, startup_result, sup, daemon, init_result, signal, pidfile, first_ok>>

\* The supervisor, and the one that comes from a failed notification; the
\* number of these is a bound of the model.
Sups == {"first", "second"}

Alive == {"init", "written", "failed", "up", "hung", "finishing"}
Zombie == {"exit0", "exit1", "killed", "crashed"}

\* Nobody has been forked, or the child has been waited for.
NoChild == "none"

NoSup == [pc |-> "none", tries |-> 0, restart_time |-> <<>>, moved |-> FALSE,
          restart_count |-> 1, first |-> FALSE, deadlock |-> FALSE, rc |-> "exit0"]

\* z_process_start has not forked yet.
Init ==
    /\ startup = "none"
    /\ startup_result = "empty"
    /\ sup = [s \in Sups |-> NoSup]
    /\ daemon = [s \in Sups |-> NoChild]
    /\ init_result = [s \in Sups |-> "empty"]
    /\ signal = [s \in Sups |-> "none"]
    /\ pidfile = "none"
    /\ first_ok = FALSE

At(s, where) == sup[s].pc = where

\* z_process_start forks the supervisor off; its parent waits for the result.
ForkSupervisor ==
    /\ startup = "none"
    /\ startup' = "reading"
    /\ sup' = [sup EXCEPT !["first"] = [NoSup EXCEPT !.pc = "fork", !.first = TRUE]]
    /\ UNCHANGED <<startup_result, daemon, init_result, signal, pidfile, first_ok>>

-----------------------------------------------------------------------------
(* The table of restart times. *)

Old == restart_interval + 1
Ages == 0 .. Old

\* A second has passed.
Older(table) == [i \in 1 .. Len(table) |-> Least(table[i] + 1, Old)]

\* memmove moves the table by sizeof(time_t) elements, not bytes, so what
\* lies behind the table moves in at its end.
Room(table) ==
    IF Len(table) < PROC_RESTART_MAX THEN {table}
    ELSE {[i \in 1 .. PROC_RESTART_MAX - 1 |->
              IF i + Shift <= PROC_RESTART_MAX THEN table[i + Shift]
              ELSE behind[i + Shift - PROC_RESTART_MAX]]
          : behind \in [1 .. Shift - 1 -> Ages]}

\* The number of entries at the end of the table before an old one.
Recent(table) ==
    CHOOSE n \in 0 .. Len(table) :
        /\ \A i \in Len(table) - n + 1 .. Len(table) : table[i] <= restart_interval
        /\ n < Len(table) => table[Len(table) - n] > restart_interval

\* (mutant) the counter starts at zero
restart_count_zero(table) == Recent(table)

\* The scan goes back from the entry just written, which is counted as well,
\* and the counter starts at 1.
restart_count(table) == 1 + Recent(table)

-----------------------------------------------------------------------------
(* The supervisor: z_process_perform_supervise. *)

\* The start is recorded, the recent ones are counted and a daemon is forked.
\* The count is not looked at before that daemon has ended.
Fork(s) ==
    /\ At(s, "fork")
    /\ s = "second" => Len(sup[s].restart_time) < SecondStarts
    /\ \E kept \in Room(sup[s].restart_time) :
         LET table == Append(kept, 0) IN
         sup' = [sup EXCEPT ![s] =
                   [sup[s] EXCEPT !.pc = "recv",
                                  !.restart_time = table,
                                  !.restart_count = restart_count(table),
                                  !.moved = sup[s].moved
                                            \/ Len(sup[s].restart_time) = PROC_RESTART_MAX,
                                  !.deadlock = FALSE,
                                  !.tries = 0,
                                  !.rc = "exit0"]]
    /\ daemon' = [daemon EXCEPT ![s] = "init"]
    /\ UNCHANGED <<startup, startup_result, init_result, signal, pidfile, first_ok>>

\* (mutant) only a success is reported
Report_success(s, res) ==
    startup_result' = IF sup[s].first /\ res = "ok" THEN res ELSE startup_result

\* z_process_send_result in the supervisor, the first time only.
Report(s, res) ==
    startup_result' = IF sup[s].first THEN res ELSE startup_result

\* pipe() or fork() failed: z_process_startup_failed ends the supervisor.
ForkFails(s) ==
    /\ At(s, "fork")
    /\ sup' = [sup EXCEPT ![s].pc = "exited"]
    /\ Report(s, "fail")
    /\ UNCHANGED <<startup, daemon, init_result, signal, pidfile, first_ok>>

\* z_process_recv_result: a pipe that ends without a result is a failure.
recv_result(res) == IF res = "empty" THEN "fail" ELSE res

\* (mutant) the supervisor keeps the write side of the pipe
PipeEnds_held(s) == FALSE

\* Nobody holds the write side of init_result_pipe.
PipeEnds(s) == daemon[s] \notin Alive

\* The result of the initialisation, or the end of the pipe, has arrived.
RecvResult(s) ==
    LET res == recv_result(init_result[s]) IN
    /\ At(s, "recv")
    /\ init_result[s] # "empty" \/ PipeEnds(s)
    /\ Report(s, res)
    /\ sup' = [sup EXCEPT ![s] =
                 [sup[s] EXCEPT !.pc = CASE res = "ok" /\ CheckEnabled -> "watch"
                                         [] res = "ok" /\ ~CheckEnabled -> "wait"
                                         [] res = "fail" /\ sup[s].first -> "exited"
                                         [] OTHER -> "reap",
                                !.first = FALSE]]
    /\ init_result' = [init_result EXCEPT ![s] = "empty"]
    /\ UNCHANGED <<startup, daemon, signal, pidfile, first_ok>>

\* (mutant) the second signal is no harder than the first
Signal_soft(n) == IF n > 3 THEN "soft" ELSE "none"
\* From the fourth second on a signal the daemon may handle, then SIGKILL.
Signal(n) == IF n > 4 THEN "kill" ELSE IF n > 3 THEN "soft" ELSE "none"

\* One turn of the two loops that get rid of a daemon; SIGTERM is used after
\* a failed initialisation, SIGABRT after a deadlock.
Insist(s) ==
    /\ At(s, "reap") \/ At(s, "kill")
    /\ sup[s].tries < 6
    /\ daemon[s] \in Alive
    /\ signal' = [signal EXCEPT ![s] = Signal(sup[s].tries)]
    /\ sup' = [sup EXCEPT ![s].pc = IF At(s, "reap") THEN "reap_sleep" ELSE "kill_sleep"]
    /\ UNCHANGED <<startup, startup_result, daemon, init_result, pidfile, first_ok>>

\* sleep(1) is over; SIGKILL has done its work by then.
Insisted(s) ==
    /\ At(s, "reap_sleep") \/ At(s, "kill_sleep")
    /\ signal[s] = "kill" => daemon[s] \notin Alive
    /\ sup' = [sup EXCEPT ![s] =
                 [sup[s] EXCEPT !.pc = IF At(s, "reap_sleep") THEN "reap" ELSE "kill",
                                !.tries = sup[s].tries + 1,
                                !.restart_time = Older(sup[s].restart_time)]]
    /\ signal' = [signal EXCEPT ![s] = "none"]
    /\ UNCHANGED <<startup, startup_result, daemon, init_result, pidfile, first_ok>>

\* waitpid has returned the daemon; a daemon that is still alive stays behind.
Reaped(s) ==
    IF daemon[s] \in Zombie THEN daemon' = [daemon EXCEPT ![s] = NoChild]
    ELSE UNCHANGED daemon

TooMany(s) == sup[s].restart_count > restart_max

\* A daemon that failed to initialise is gone: the next attempt follows.
ReapEnds(s) ==
    /\ At(s, "reap")
    /\ sup[s].tries = 6 \/ daemon[s] \notin Alive
    /\ Reaped(s)
    /\ sup' = [sup EXCEPT ![s].pc = IF TooMany(s) THEN "exited" ELSE "fork"]
    /\ UNCHANGED <<startup, startup_result, init_result, signal, pidfile, first_ok>>

\* The daemon has ended by itself.
DaemonWaitedFor(s) ==
    /\ At(s, "watch") \/ At(s, "wait")
    /\ daemon[s] \in Zombie
    /\ Reaped(s)
    /\ sup' = [sup EXCEPT ![s] = [sup[s] EXCEPT !.pc = "decide", !.rc = daemon[s]]]
    /\ UNCHANGED <<startup, startup_result, init_result, signal, pidfile, first_ok>>

\* A second goes by while the supervisor waits for the daemon.
TimePasses(s) ==
    /\ sup[s].pc \in {"recv", "watch", "wait"}
    /\ daemon[s] \in Alive
    /\ sup' = [sup EXCEPT ![s].restart_time = Older(sup[s].restart_time)]
    /\ UNCHANGED <<startup, startup_result, daemon, init_result, signal, pidfile, first_ok>>

\* check_fn has returned FALSE, rightly or not.
CheckFails(s) ==
    /\ At(s, "watch")
    /\ daemon[s] \in Alive
    /\ sup' = [sup EXCEPT ![s] =
                 [sup[s] EXCEPT !.pc = "kill", !.deadlock = TRUE]]
    /\ UNCHANGED <<startup, startup_result, daemon, init_result, signal, pidfile, first_ok>>

KillEnds(s) ==
    /\ At(s, "kill")
    /\ sup[s].tries = 6 \/ daemon[s] \notin Alive
    /\ Reaped(s)
    /\ sup' = [sup EXCEPT ![s] =
                 [sup[s] EXCEPT !.pc = "decide",
                                !.rc = IF daemon[s] \in Zombie THEN daemon[s] ELSE sup[s].rc]]
    /\ UNCHANGED <<startup, startup_result, init_result, signal, pidfile, first_ok>>

Failure(s) == sup[s].deadlock \/ sup[s].rc # "exit0"

\* Killed by somebody else than us, or too many restarts: give up.
Restarts(s) == Failure(s) /\ (sup[s].deadlock \/ sup[s].rc # "killed") /\ ~TooMany(s)

Decided(s) ==
    [sup[s] EXCEPT !.pc = IF Restarts(s) THEN "fork" ELSE "exited",
                   !.restart_time = IF Restarts(s) THEN Older(sup[s].restart_time)
                                    ELSE sup[s].restart_time]

\* The supervisor makes up its mind, and sleeps for a second before a restart.
Decide(s) ==
    /\ At(s, "decide")
    /\ sup' = [sup EXCEPT ![s] = Decided(s)]
    /\ UNCHANGED <<startup, startup_result, daemon, init_result, signal, pidfile, first_ok>>

\* The same, but the program that should notify about the failure could not
\* be executed: the process forked for it leaves the inner switch, falls into
\* the branch of the parent and goes on as a supervisor.
DecideTwice(s) ==
    /\ At(s, "decide")
    /\ Failure(s)
    /\ sup["second"] = NoSup
    /\ \A i \in 1 .. Len(sup[s].restart_time) : sup[s].restart_time[i] <= TwiceAge
    /\ sup' = [t \in Sups |-> Decided(s)]
    /\ UNCHANGED <<startup, startup_result, daemon, init_result, signal, pidfile, first_ok>>

\* Somebody kills the supervisor.
SupervisorKilled(s) ==
    /\ sup[s].pc \notin {"none", "exited", "killed"}
    /\ sup' = [sup EXCEPT ![s].pc = "killed"]
    /\ UNCHANGED <<startup, startup_result, daemon, init_result, signal, pidfile, first_ok>>

-----------------------------------------------------------------------------
(* The startup process: z_process_perform_startup. *)

\* The pipe ends when nobody holds its write side any more: the supervisor
\* before its report, and the first daemon, which has inherited it.
StartupExits ==
    /\ startup = "reading"
    /\ \/ startup_result # "empty"
       \/ sup["first"].pc \in {"exited", "killed"} /\ daemon["first"] \notin Alive
    /\ startup' = recv_result(startup_result)
    /\ startup_result' = "empty"
    /\ UNCHANGED <<sup, daemon, init_result, signal, pidfile, first_ok>>

-----------------------------------------------------------------------------
(* The daemon. *)

\* The file is opened with "w": an old content is lost.
write_pidfile(s) == pidfile' = s

\* z_process_startup_ok: the pid file first ...
WritePidfile(s) ==
    /\ daemon[s] = "init"
    /\ daemon' = [daemon EXCEPT ![s] = "written"]
    /\ write_pidfile(s) \/ (PidfileMayFail /\ UNCHANGED pidfile)
    /\ UNCHANGED <<startup, startup_result, sup, init_result, signal, first_ok>>

\* ... then the result.
StartupOk(s) ==
    /\ daemon[s] = "written"
    /\ daemon' = [daemon EXCEPT ![s] = "up"]
    /\ init_result' = [init_result EXCEPT ![s] = "ok"]
    /\ first_ok' = (first_ok \/ sup[s].first)
    /\ UNCHANGED <<startup, startup_result, sup, signal, pidfile>>

\* z_process_startup_failed, with and without an exit.
StartupFailed(s) ==
    /\ daemon[s] = "init"
    /\ \E st \in {"failed", "exit1"} : daemon' = [daemon EXCEPT ![s] = st]
    /\ init_result' = [init_result EXCEPT ![s] = "fail"]
    /\ UNCHANGED <<startup, startup_result, sup, signal, pidfile, first_ok>>

\* z_process_finish or z_process_finish_prepare removes its own pid file.
Finish(s) ==
    /\ daemon[s] = "up"
    /\ daemon' = [daemon EXCEPT ![s] = "finishing"]
    /\ pidfile' = IF pidfile = s THEN "none" ELSE pidfile
    /\ UNCHANGED <<startup, startup_result, sup, init_result, signal, first_ok>>

Hang(s) ==
    /\ daemon[s] = "up"
    /\ daemon' = [daemon EXCEPT ![s] = "hung"]
    /\ UNCHANGED <<startup, startup_result, sup, init_result, signal, pidfile, first_ok>>

\* The daemon ends: by itself unless it hangs, or by a signal.  Its pid stays
\* in the file, where it no longer means this daemon.
Dies(s, st) ==
    /\ daemon[s] \in Alive
    /\ st \in {"exit0", "exit1"} => daemon[s] # "hung"
    /\ daemon' = [daemon EXCEPT ![s] = st]
    /\ pidfile' = IF pidfile = s THEN "stale" ELSE pidfile
    /\ UNCHANGED <<startup, startup_result, sup, init_result, signal, first_ok>>

-----------------------------------------------------------------------------
(* The specification. *)

Supervise(s) ==
    \/ Fork(s)
    \/ ForkFails(s)
    \/ RecvResult(s)
    \/ Insist(s)
    \/ Insisted(s)
    \/ ReapEnds(s)
    \/ DaemonWaitedFor(s)
    \/ KillEnds(s)
    \/ Decide(s)
    \/ DecideTwice(s)

SupervisorNext ==
    \/ StartupExits
    \/ \E s \in Sups :
         \/ Supervise(s)
         \/ TimePasses(s)
         \/ CheckFails(s)
         \/ SupervisorKilled(s)
         \/ WritePidfile(s)
         \/ StartupOk(s)
         \/ StartupFailed(s)
         \/ Finish(s)
         \/ Hang(s)
         \/ \E st \in Zombie : Dies(s, st)

\* The processes are scheduled, an initialisation comes to an end, SIGKILL
\* kills, and the check function notices a daemon that hangs.
Fairness ==
    /\ WF_vars(StartupExits)
    /\ \A s \in Sups :
         /\ WF_vars(Supervise(s))
         /\ WF_vars(WritePidfile(s) \/ StartupOk(s) \/ StartupFailed(s))
         /\ WF_vars(signal[s] = "kill" /\ Dies(s, "killed"))
         /\ WF_vars(daemon[s] = "hung" /\ CheckFails(s))

-----------------------------------------------------------------------------
(* Properties. *)

\* A supervisor never starts a daemon while the one before is still alive,
\* whether that one crashed, hung, or failed to initialise and did not exit.
OneDaemon == \A s \in Sups : At(s, "fork") => daemon[s] \notin Alive

\* The caller is told that the start was successful only if it was.
StartupTruth == startup = "ok" => first_ok

\* A supervisor that has not run out of room in its table never makes more
\* than restart_max starts in any interval of restart_interval seconds.
RestartLimit ==
    \A s \in Sups :
        LET table == sup[s].restart_time IN
        ~sup[s].moved =>
            Cardinality({i \in DOMAIN table : table[i] <= restart_interval}) <= restart_max

\* While a daemon is up, and no second supervisor has started another one, the
\* pid file names it, whatever its predecessors have left behind.
PidfileCurrent ==
    ~PidfileMayFail /\ sup["second"] = NoSup
        => \A s \in Sups : daemon[s] \in {"up", "hung"} => pidfile = s

\* A daemon that has died or hangs is replaced, or the supervisor ends.
Recovers ==
    \A s \in Sups :
        (daemon[s] \in Zombie \cup {"hung"} /\ CheckEnabled)
        ~> (daemon[s] \notin Zombie \cup {"hung"}
            \/ sup[s].pc \in {"none", "exited", "killed"})

\* The startup process comes to an end, unless the supervisor is killed before
\* its report and the first daemon, which holds the pipe as well, lives on.
StartupEnds ==
    (startup = "reading")
    ~> (startup # "reading" \/ (sup["first"].pc = "killed" /\ daemon["first"] \in Alive))
=============================================================================
