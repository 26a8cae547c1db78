----------------------------- MODULE Daemonize ------------------------------
(***************************************************************************)
(* z_process_start (src/src/process.c): from the command line to a process  *)
(* that runs detached, in its root directory, with its user, group, groups  *)
(* and capabilities, and to the result it reports to the process it was     *)
(* forked from.  The process followed is the one that goes on to do the     *)
(* work, in each of the three modes; in the mode safe-background it may be  *)
(* the supervisor instead, whose life is the module Supervisor.             *)
(*                                                                         *)
(* Every system call may fail.  Names are resolved in the directory tree    *)
(* the process sees, so a known user may be unknown inside the chroot.      *)
(***************************************************************************)
EXTENDS Integers

CONSTANTS
    CmdUsers,      \* users the command line may ask for
    ProgramUser    \* the user the program asks for, if it asks

\* NULL in process_opts.
None == "none"

\* uid_t and gid_t: root, two accounts, the unprivileged user who started the
\* program, and (uid_t) -1, which z_process_change_user takes for "not asked".
Root == 0
Starter == 9
NotAsked == -1
Unresolved == -2

uid_of(user) ==
    CASE user = "zorp" -> 1
      [] user = "nobody" -> 2
      [] user = "0xffffffff" -> NotAsked

VARIABLES
    cmdline,   \* what the user asks for on the command line
    opts,      \* process_opts
    proc,      \* the process
    result,    \* init_result_pipe of the mode background
    parent     \* the startup process of the mode background

dvars == <<cmdline, opts, proc, result, parent>>

Modes == {"foreground", "background", "safe-background"}

NoOpts == [mode |-> "safe-background", user |-> None, group |-> None,
           chroot_dir |-> None, caps |-> None, cwd |-> None,
           core |-> FALSE, fdlimit |-> FALSE]

\* The program may be started by root or by somebody else.
Started(by) ==
    [pc |-> "options", kind |-> "startup", started_by |-> by, tty |-> TRUE, session |-> FALSE,
     nofile |-> FALSE, root |-> "/", cwd |-> "initial",
     uid |-> by, gid |-> by, groups |-> by, keepcaps |-> FALSE,
     permitted |-> by = Root, caps |-> None, dumpable |-> TRUE, corelimit |-> FALSE,
     stderr_present |-> TRUE, told |-> {}, pidfile |-> FALSE, pid_removed |-> FALSE,
     reported |-> "empty"]

DaemonizeInit ==
    /\ cmdline \in [mode : Modes \cup {None, "unknown"}, user : CmdUsers, group : {None, "zorp"},
                    chroot_dir : {None, "/jail"}, caps : {None, "cap"}, core : BOOLEAN]
    /\ opts = NoOpts
    /\ \E by \in {Root, Starter} : proc = Started(by)
    /\ result = "empty"
    /\ parent = "none"

\* z_process_message: to the user as long as somebody can read stderr, then
\* to the system log.
z_process_message(p, topic) ==
    [p EXCEPT !.told = @ \cup {<<topic, IF p.stderr_present THEN "stderr" ELSE "syslog">>}]

Told(p, topic) == \E to \in {"stderr", "syslog"} : <<topic, to>> \in p.told

\* Of a process that has ended only what it has reported is left.
Ended(p) == [Started(p.started_by) EXCEPT !.pc = "exited", !.reported = p.reported]

\* A call that may fail, and is only reported when it does.
OrTold(done, p, topic) == {done, z_process_message(p, topic)}

-----------------------------------------------------------------------------
(* Options. *)

\* GLib stores the options of the command line; an unknown mode is an error.
ParseOptions ==
    /\ proc.pc = "options"
    /\ opts = NoOpts
    /\ opts' = [NoOpts EXCEPT !.mode = IF cmdline.mode = None THEN @ ELSE cmdline.mode,
                              !.user = cmdline.user, !.group = cmdline.group,
                              !.chroot_dir = cmdline.chroot_dir, !.caps = cmdline.caps,
                              !.core = cmdline.core]
    /\ proc' = IF cmdline.mode = "unknown" THEN Ended(proc) ELSE [proc EXCEPT !.pc = "set"]
    /\ UNCHANGED <<cmdline, result, parent>>

\* The functions z_process_set_user, _group, _chroot, _caps and _working_dir
\* do not replace what is there already.
SetFirst(old, new) == IF old = None THEN new ELSE old

\* The program sets its own values before it starts the process.
SetOptions ==
    /\ proc.pc = "set"
    /\ \E user \in {None, ProgramUser}, own \in BOOLEAN :
         opts' = [opts EXCEPT !.user = SetFirst(@, user),
                              !.cwd = SetFirst(@, IF own THEN "/var/run" ELSE None),
                              !.fdlimit = own]
    /\ proc' = [proc EXCEPT !.pc = "start"]
    /\ UNCHANGED <<cmdline, result, parent>>

-----------------------------------------------------------------------------
(* Detaching. *)

z_process_detach_tty(p) ==
    IF opts.mode # "foreground" /\ p.tty THEN [p EXCEPT !.tty = FALSE, !.session = TRUE] ELSE p

\* Raising the hard limit is a privilege.
z_process_change_limits(p) ==
    IF ~opts.fdlimit THEN {p}
    ELSE IF p.uid = Root THEN OrTold([p EXCEPT !.nofile = TRUE], p, "nofile")
    ELSE {z_process_message(p, "nofile")}

\* z_process_detach_stdio: nobody reads what is written to stderr after it.
z_process_detach_stdio(p) ==
    IF opts.mode = "foreground" THEN p ELSE [p EXCEPT !.stderr_present = FALSE]

\* The beginning of z_process_start, in the process the user has started.
Start ==
    /\ proc.pc = "start"
    /\ \E p \in z_process_change_limits(z_process_detach_tty(proc)) :
         proc' = [p EXCEPT !.pc = "fork"]
    /\ UNCHANGED <<cmdline, opts, result, parent>>

\* A pipe to the parent or a fork cannot be had.
ForkError ==
    /\ proc.pc = "fork"
    /\ opts.mode # "foreground"
    /\ proc' = Ended(proc)
    /\ UNCHANGED <<cmdline, opts, result, parent>>

\* The daemon gets a session of its own, in the foreground too.
AsDaemon(p) == [p EXCEPT !.kind = "daemon", !.session = TRUE, !.pc = "root"]

\* Background: the startup process waits for the result of the daemon.
Background ==
    /\ proc.pc = "fork"
    /\ opts.mode = "background"
    /\ proc' = AsDaemon(proc)
    /\ parent' = "reading"
    /\ UNCHANGED <<cmdline, opts, result>>

\* Foreground, or the daemon that a supervisor has forked.
Foreground ==
    /\ proc.pc = "fork"
    /\ opts.mode # "background"
    /\ proc' = AsDaemon(proc)
    /\ UNCHANGED <<cmdline, opts, result, parent>>

\* Safe-background, where the process followed is the supervisor; nothing
\* that is kept here matters to it.
BecomeSupervisor ==
    /\ proc.pc = "fork"
    /\ opts.mode = "safe-background"
    /\ proc' = [Started(Root) EXCEPT !.kind = "supervisor", !.pc = "supervise"]
    /\ opts' = NoOpts
    /\ cmdline' = [cmdline EXCEPT !.user = None, !.group = None, !.chroot_dir = None,
                                  !.caps = None, !.core = FALSE, !.mode = "safe-background"]
    /\ UNCHANGED <<result, parent>>

-----------------------------------------------------------------------------
(* The result. *)

\* z_process_send_result: once, and to nobody in the foreground.
z_process_send_result(res) ==
    result' = IF parent # "none" /\ proc.reported = "empty" THEN res ELSE result

\* z_process_startup_failed
DaemonFails(p, may_exit) ==
    /\ z_process_send_result("fail")
    /\ LET q == [p EXCEPT !.reported = IF @ = "empty" THEN "fail" ELSE @] IN
       proc' = IF may_exit THEN Ended(q)
               ELSE [z_process_detach_stdio(q) EXCEPT !.pc = "failed"]
    /\ UNCHANGED <<cmdline, opts, parent>>

\* z_process_perform_startup in the process the user has started: the exit
\* code is what the daemon has sent, or 1 if it has ended without a result.
ParentExits ==
    /\ parent = "reading"
    /\ result # "empty" \/ proc.pc = "exited"
    /\ parent' = IF result = "ok" THEN "ok" ELSE "fail"
    /\ UNCHANGED <<cmdline, opts, proc, result>>

-----------------------------------------------------------------------------
(* The identity of the daemon. *)

Step(p, pc) ==
    /\ proc' = [p EXCEPT !.pc = pc]
    /\ UNCHANGED <<cmdline, opts, result, parent>>

\* z_process_change_root: a failure ends the start.  The working directory
\* is left where it was.
z_process_change_root ==
    /\ proc.pc = "root"
    /\ \/ opts.chroot_dir = None /\ Step(proc, "resolve")
       \/ /\ opts.chroot_dir # None
          /\ \/ proc.uid = Root /\ Step([proc EXCEPT !.root = opts.chroot_dir], "resolve")
             \/ DaemonFails(z_process_message(proc, "chroot"), TRUE)

\* z_resolve_user, z_resolve_group: a name that is not in the database of the
\* root directory the process sees is read as a number, which it may not be.
z_resolve(name) ==
    IF name = None THEN {NotAsked}
    ELSE {uid_of(name)} \cup (IF uid_of(name) = NotAsked THEN {} ELSE {Unresolved})

\* (mutant) whoever runs the program, a failure is tolerated
Tolerated_always(p) == TRUE

\* A failure to switch is tolerated when root did not start the program.
Tolerated(p) == p.uid # Root

MayBecome(p, id) == p.uid = Root \/ id = p.started_by

\* A call of z_process_change_user has failed: the message, and then, unless
\* it is tolerated, the end of the start.
CallFails(p, topic) ==
    [z_process_message(p, topic) EXCEPT !.pc = IF Tolerated(p) THEN @ ELSE "error"]

\* What setgid(gid), then initgroups(user, gid), leave.
Grouped(p, gid) ==
    LET set == IF MayBecome(p, gid) THEN {[p EXCEPT !.gid = gid]} ELSE {}
        init(q) == IF q.uid = Root THEN {[q EXCEPT !.groups = gid]} ELSE {}
        tried == set \cup {CallFails(p, "setgid")}
    IN  IF gid = NotAsked THEN {p}
        ELSE IF opts.user = None THEN tried
        ELSE UNION {IF q.pc = "error" THEN {q} ELSE init(q) \cup {CallFails(q, "initgroups")}
                    : q \in tried}

\* What setuid(uid) leaves: a process that stops being root loses its
\* capabilities, unless it keeps them, and may not dump core.
Switched(p, uid) ==
    LET left == uid # Root /\ p.uid = Root
        set == [p EXCEPT !.uid = uid,
                         !.permitted = IF left THEN p.keepcaps ELSE @,
                         !.dumpable = IF left THEN FALSE ELSE @]
    IN  IF uid = NotAsked \/ p.pc = "error" THEN {p}
        ELSE (IF MayBecome(p, uid) THEN {set} ELSE {}) \cup {CallFails(p, "setuid")}

\* PR_SET_KEEPCAPS, when capabilities are asked for.
KeepCaps(p) == IF opts.caps = None THEN p ELSE [p EXCEPT !.keepcaps = TRUE]

\* z_process_change_user
z_process_change_user ==
    /\ proc.pc = "resolve"
    /\ \E uid \in z_resolve(opts.user), gid \in z_resolve(opts.group) :
         \/ /\ Unresolved \in {uid, gid}
            /\ DaemonFails(z_process_message(KeepCaps(proc), "resolve"), TRUE)
         \/ /\ Unresolved \notin {uid, gid}
            /\ \E g \in Grouped(KeepCaps(proc), gid) : \E u \in Switched(g, uid) :
                 IF u.pc = "error" THEN DaemonFails(u, TRUE) ELSE Step(u, "caps")

\* z_process_change_caps: only a capability set that cannot be parsed ends
\* the start.
z_process_change_caps ==
    /\ proc.pc = "caps"
    /\ \/ opts.caps = None /\ Step(proc, "core")
       \/ /\ opts.caps # None
          /\ \/ DaemonFails(z_process_message(proc, "parse"), TRUE)
             \/ proc.permitted /\ Step([proc EXCEPT !.caps = opts.caps], "core")
             \/ Step(z_process_message(proc, "caps"), "core")

\* z_process_enable_core, after the switch, which takes the permission away.
z_process_enable_core ==
    LET dumpable == IF proc.dumpable THEN {proc}
                    ELSE OrTold([proc EXCEPT !.dumpable = TRUE], proc, "dumpable")
        limits(p) == IF p.uid = Root \/ p.caps # None
                     THEN OrTold([p EXCEPT !.corelimit = TRUE], p, "corelimit")
                     ELSE {z_process_message(p, "corelimit")}
    IN  /\ proc.pc = "core"
        /\ \/ ~opts.core /\ Step(proc, "dir")
           \/ opts.core /\ \E p \in dumpable : \E q \in limits(p) : Step(q, "dir")

\* z_process_change_dir: whether chdir succeeds is not looked at, only
\* whether a core file could be written where the process is.
z_process_change_dir ==
    LET moved == IF opts.mode # "foreground" /\ opts.cwd # None
                 THEN {proc, [proc EXCEPT !.cwd = opts.cwd]} ELSE {proc}
    IN  /\ proc.pc = "dir"
        /\ \E p \in moved :
             \/ Step(p, "returned")
             \/ opts.core /\ Step(z_process_message(p, "unwritable"), "returned")

-----------------------------------------------------------------------------
(* The program, once z_process_start has returned. *)

\* z_process_startup_ok
DaemonOk ==
    /\ proc.pc \in {"returned", "failed"}
    /\ \E written \in {[proc EXCEPT !.pidfile = TRUE, !.pid_removed = FALSE],
                       [z_process_message(proc, "pidfile") EXCEPT !.pid_removed = FALSE]} :
         proc' = [z_process_detach_stdio(written)
                  EXCEPT !.pc = "up", !.reported = IF @ = "empty" THEN "ok" ELSE @]
    /\ z_process_send_result("ok")
    /\ UNCHANGED <<cmdline, opts, parent>>

\* The initialisation of the program has failed.
DaemonFailed ==
    /\ proc.pc = "returned"
    /\ \E may_exit \in BOOLEAN : DaemonFails(proc, may_exit)

\* z_process_finish_prepare, z_process_finish: the pid file is removed, once.
DaemonFinishes ==
    /\ proc.pc = "up"
    /\ ~proc.pid_removed
    /\ \/ proc.pidfile /\ Step([proc EXCEPT !.pidfile = FALSE, !.pid_removed = TRUE], "up")
       \/ Step(z_process_message(proc, "remove"), "up")

\* The process ends, or crashes, at any point.
DaemonEnds ==
    /\ proc.kind = "daemon"
    /\ Step(Ended(proc), "exited")

DaemonizeNext ==
    \/ ParseOptions
    \/ SetOptions
    \/ Start
    \/ ForkError
    \/ Background
    \/ Foreground
    \/ ParentExits
    \/ z_process_change_root
    \/ z_process_change_user
    \/ z_process_change_caps
    \/ z_process_enable_core
    \/ z_process_change_dir
    \/ DaemonOk
    \/ DaemonFailed
    \/ DaemonFinishes
    \/ DaemonEnds

-----------------------------------------------------------------------------
(* Properties. *)

Running == proc.pc \in {"returned", "failed", "up"}

\* The user asked for, as the command line takes precedence over the program.
Asked == IF cmdline.user = None THEN opts.user ELSE cmdline.user

Identified ==
    /\ cmdline.chroot_dir # None => proc.root = cmdline.chroot_dir
    /\ proc.started_by = Root =>
         /\ Asked # None /\ uid_of(Asked) # NotAsked => proc.uid = uid_of(Asked)
         /\ cmdline.group # None => proc.gid = uid_of(cmdline.group)
         /\ cmdline.group # None /\ Asked # None => proc.groups = uid_of(cmdline.group)
         /\ proc.uid # Root /\ cmdline.caps = None => ~proc.permitted

\* Whatever else was asked for is there, or its absence has been told.
NothingSilent ==
    /\ proc.uid # Root /\ Asked # None /\ uid_of(Asked) \notin {NotAsked, proc.uid}
         => Told(proc, "setuid")
    /\ cmdline.caps # None => proc.caps = cmdline.caps \/ Told(proc, "caps")
    /\ opts.fdlimit => proc.nofile \/ Told(proc, "nofile")
    /\ cmdline.core => /\ proc.dumpable \/ Told(proc, "dumpable")
                       /\ proc.corelimit \/ Told(proc, "corelimit")

\* Once z_process_start has returned, the process is what the user and the
\* program have asked for; and a caller in the background mode is told of a
\* success only if the daemon came so far.
RunsAsAsked ==
    /\ Running => Identified /\ NothingSilent
    /\ parent = "ok" => proc.reported = "ok"
=============================================================================
