------------------------------- MODULE Syslog -------------------------------
(***************************************************************************)
(* The private syslog() of the library (src/src/log.c): threads write to a     *)
(* connection they share without a lock, and whoever finds it broken opens a   *)
(* new one and closes the old one under a lock.  syslogd comes and goes.       *)
(*                                                                           *)
(* Descriptors are what the kernel gives out: the lowest one that is free.     *)
(***************************************************************************)
EXTENDS Integers, FiniteSetsExt

CONSTANTS
    Senders,   \* threads that log
    MaxFd,     \* bound: descriptors 0 .. MaxFd
    MaxFlaps   \* bound: how often syslogd goes away

\* socket() finds a free descriptor next to the one that is in use.
ASSUME FdAssumption == MaxFd \in Nat \ {0}

VARIABLES
    fds,        \* every descriptor: "free", or a socket "idle", "connected", "broken"
    syslog_fd,  \* the global one, -1 for none
    send,       \* z_send_syslog in every thread
    reopener,   \* who holds the lock of z_send_syslog
    syslogd,    \* whether it accepts connections, and how often it went away
    double      \* a descriptor that was free has been closed

syslogvars == <<fds, syslog_fd, send, reopener, syslogd, double>>

NoSend == [at |-> "idle", sfd |-> -1, attempt |-> 0, rc |-> 0]

FreeFd == Min({fd \in DOMAIN fds : fds[fd] = "free"})

\* z_log_enable_syslog has opened the connection.
SyslogInit ==
    /\ fds = [fd \in 0 .. MaxFd |-> IF fd = 0 THEN "connected" ELSE "free"]
    /\ syslog_fd = 0
    /\ send = [t \in Senders |-> NoSend]
    /\ reopener = {}
    /\ syslogd = [up |-> TRUE, flaps |-> 0]
    /\ double = FALSE

Sends(t, s) == send' = [send EXCEPT ![t] = s]

-----------------------------------------------------------------------------
(* z_send_syslog. *)

z_send_syslog(t) ==
    /\ send[t].at = "idle"
    /\ Sends(t, [at |-> "write", sfd |-> syslog_fd, attempt |-> 1, rc |-> 0])
    /\ UNCHANGED <<fds, syslog_fd, reopener, syslogd, double>>

\* write() succeeds on a connection, fails on anything else, or would block;
\* without a descriptor there is no write and rc stays as it is.
Writes(t) ==
    /\ send[t].at = "write"
    /\ LET s == send[t] IN
       \/ /\ s.sfd # -1
          /\ fds[s.sfd] = "connected"
          /\ Sends(t, NoSend)
       \/ /\ s.sfd = -1
          /\ Sends(t, [s EXCEPT !.at = "lock"])
       \/ /\ s.sfd # -1
          /\ fds[s.sfd] # "connected"
          /\ Sends(t, [s EXCEPT !.at = "lock", !.rc = -1])
    /\ UNCHANGED <<fds, syslog_fd, reopener, syslogd, double>>

\* EINTR or EAGAIN: tried once more without a new connection.
WriteAgain(t) ==
    /\ send[t].at = "write"
    /\ send[t].sfd # -1
    /\ fds[send[t].sfd] = "connected"
    /\ Sends(t, IF send[t].attempt > 1 THEN NoSend
                ELSE [send[t] EXCEPT !.attempt = 2, !.rc = -1])
    /\ UNCHANGED <<fds, syslog_fd, reopener, syslogd, double>>

\* (mutant) every thread that fails opens a new connection
Stale_never(t) == TRUE
\* Nobody has opened another connection meanwhile.
Stale(t) == send[t].sfd = syslog_fd

Locks(t) ==
    /\ send[t].at = "lock"
    /\ reopener = {}
    /\ reopener' = {t}
    /\ Sends(t, [send[t] EXCEPT !.at = IF Stale(t) THEN "socket" ELSE "unlock"])
    /\ UNCHANGED <<fds, syslog_fd, syslogd, double>>

\* z_open_syslog: the global is set before the socket is connected ...
z_open_syslog(t) ==
    /\ send[t].at = "socket"
    /\ syslog_fd' = FreeFd
    /\ fds' = [fds EXCEPT ![FreeFd] = "idle"]
    /\ Sends(t, [send[t] EXCEPT !.at = "connect"])
    /\ UNCHANGED <<reopener, syslogd, double>>

\* ... and connected then, or closed, and after a second try with SOCK_DGRAM
\* there is no connection.
Connects(t) ==
    /\ send[t].at = "connect"
    /\ \/ /\ syslogd.up
          /\ fds' = [fds EXCEPT ![syslog_fd] = "connected"]
          /\ UNCHANGED syslog_fd
       \/ /\ ~syslogd.up
          /\ fds' = [fds EXCEPT ![syslog_fd] = "free"]
          /\ syslog_fd' = -1
    /\ Sends(t, [send[t] EXCEPT !.at = "close"])
    /\ UNCHANGED <<reopener, syslogd, double>>

\* z_close_syslog_internal of the old descriptor.
z_close_syslog_internal(t) ==
    /\ send[t].at = "close"
    /\ IF send[t].sfd = -1 THEN UNCHANGED <<fds, double>>
       ELSE /\ fds' = [fds EXCEPT ![send[t].sfd] = "free"]
            /\ double' = (double \/ fds[send[t].sfd] = "free")
    /\ Sends(t, [send[t] EXCEPT !.at = "unlock"])
    /\ UNCHANGED <<syslog_fd, reopener, syslogd>>

\* A message that failed is tried once more; one that had no connection to
\* begin with is lost.
Unlocks(t) ==
    /\ send[t].at = "unlock"
    /\ reopener' = {}
    /\ Sends(t, IF send[t].rc = -1 /\ send[t].attempt <= 1
                THEN [send[t] EXCEPT !.at = "write", !.sfd = syslog_fd, !.attempt = 2, !.rc = 0]
                ELSE NoSend)
    /\ UNCHANGED <<fds, syslog_fd, syslogd, double>>

-----------------------------------------------------------------------------

\* syslogd goes away with its connections, and comes back.
SyslogdStops ==
    /\ syslogd.up
    /\ syslogd.flaps < MaxFlaps
    /\ syslogd' = [up |-> FALSE, flaps |-> syslogd.flaps + 1]
    /\ fds' = [fd \in DOMAIN fds |-> IF fds[fd] = "connected" THEN "broken" ELSE fds[fd]]
    /\ UNCHANGED <<syslog_fd, send, reopener, double>>

SyslogdStarts ==
    /\ ~syslogd.up
    /\ syslogd' = [syslogd EXCEPT !.up = TRUE]
    /\ UNCHANGED <<fds, syslog_fd, send, reopener, double>>

Sending(t) ==
    \/ z_send_syslog(t)
    \/ Writes(t)
    \/ WriteAgain(t)
    \/ Locks(t)
    \/ z_open_syslog(t)
    \/ Connects(t)
    \/ z_close_syslog_internal(t)
    \/ Unlocks(t)

SyslogNext == (\E t \in Senders : Sending(t)) \/ SyslogdStops \/ SyslogdStarts

-----------------------------------------------------------------------------
(* Properties. *)

\* However many threads find the connection broken at the same time, it is
\* closed once, and outside of the lock the only descriptor in use is syslog_fd.
OneConnection ==
    /\ ~double
    /\ reopener = {} => {fd \in DOMAIN fds : fds[fd] # "free"} = {syslog_fd} \ {-1}
=============================================================================
