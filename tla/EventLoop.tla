------------------------------ MODULE EventLoop ------------------------------
(***************************************************************************)
(* A ZPoll (src/src/poll.c) that polls a connector or a listener: one thread  *)
(* iterates, finds the sources that are ready and dispatches them one after   *)
(* the other, while the threads of the application work on the objects, wake  *)
(* the loop up and end it.                                                    *)
(*                                                                           *)
(* GMainContext is external: g_main_context_check collects the sources that   *)
(* are ready, and g_main_context_dispatch skips those destroyed meanwhile.    *)
(***************************************************************************)
EXTENDS Connector

CONSTANTS
    MAX_ACCEPTS_AT_A_TIME, MaxArrivals, MaxErrors, MaxStarts

ASSUME LoopAssumption ==
    /\ MAX_ACCEPTS_AT_A_TIME \in Nat \ {0}
    /\ MaxArrivals \in Nat
    /\ MaxErrors \in Nat
    /\ MaxStarts \in Nat

VARIABLES
    listener, llock, lsource, owner, socket, acc, seen, cancelling,
    polled,  \* what the application does: it polls one of the two, or only wakes
    poll,    \* the ZRealPoll: quit, the flag of its wakeup source, the pipe
    iter     \* z_poll_iter_timeout: where it is, what it polls for, what is ready

L == INSTANCE Listener WITH Users <- {Creator}

lvars == <<listener, llock, lsource, owner, socket, acc, seen, cancelling>>
pvars == <<polled, poll, iter>>
cvars == <<self, lock, source, sock, net, expired, loop, calls, cancelled>>
allvars == <<vars, lvars, pvars>>

\* z_poll_new.
EInit ==
    /\ Init
    /\ L!LInit
    /\ polled \in {"connector", "listener", "nothing"}
    /\ polled # "listener" => owner = Loop /\ ~listener.accept_one
    /\ poll = [state |-> "live", quit |-> FALSE, wakeup |-> FALSE, pipe |-> FALSE]
    /\ iter = [at |-> "out", ready |-> {}, armed |-> {}]

\* The names of the sources.
Wakeup == <<"wakeup", 0>>
Connecting == <<"connector", 0>>
Listening(n) == <<"listener", n>>

-----------------------------------------------------------------------------
(* Other threads. *)

\* (mutant) only the flag is set
z_poll_quit_silent(u) ==
    /\ thread[u] = "idle"
    /\ poll.state = "live"
    /\ poll' = [poll EXCEPT !.quit = TRUE]
    /\ UNCHANGED <<cvars, lvars, thread, polled, iter>>

\* z_poll_quit sets the flag and wakes the loop up.
z_poll_quit(u) ==
    /\ thread[u] = "idle"
    /\ poll.state = "live"
    /\ ~poll.quit
    /\ poll' = [poll EXCEPT !.quit = TRUE]
    /\ Goes(u, "wakeup")
    /\ UNCHANGED <<cvars, lvars, polled, iter>>

z_poll_wakeup(u) ==
    /\ thread[u] = "wakeup" \/ (thread[u] = "idle" /\ polled = "nothing")
    /\ poll.state = "live"
    /\ poll' = [poll EXCEPT !.wakeup = TRUE]
    /\ Goes(u, "pipe")
    /\ UNCHANGED <<cvars, lvars, polled, iter>>

\* g_main_context_wakeup.
WakeupPipe(u) ==
    /\ thread[u] = "pipe"
    /\ poll' = [poll EXCEPT !.pipe = TRUE]
    /\ Goes(u, "idle")
    /\ UNCHANGED <<cvars, lvars, polled, iter>>

-----------------------------------------------------------------------------
(* z_poll_iter_timeout. *)

\* The call returns 0 at once after z_poll_quit; the application leaves its loop.
IterQuits ==
    /\ iter.at = "out"
    /\ poll.quit
    /\ iter' = [iter EXCEPT !.at = "ended"]
    /\ UNCHANGED <<cvars, lvars, thread, polled, poll>>

\* The wakeup source is ready when it finds the flag; z_poll_source_check never
\* says so.
z_poll_source_prepare == IF poll.wakeup THEN {Wakeup} ELSE {}

\* g_main_context_prepare: the sources say what they poll for.
IterPrepares ==
    /\ iter.at = "out"
    /\ ~poll.quit
    /\ iter' = [at |-> "poll",
                ready |-> z_poll_source_prepare,
                armed |-> (IF source.state = "attached" THEN {Connecting} ELSE {})
                            \cup {Listening(n) : n \in {m \in DOMAIN lsource : L!ListenerPolls(m)}}]
    /\ UNCHANGED <<cvars, lvars, thread, polled, poll>>

ReadySources ==
    iter.ready
      \cup {s \in iter.armed : s = Connecting /\ source.state = "attached" /\ Ready}
      \cup {s \in iter.armed : \E n \in DOMAIN lsource : s = Listening(n) /\ L!ListenerReady(n)}

\* poll() returns when something is ready or the pipe has been written;
\* g_main_context_check empties the pipe.
IterChecks ==
    /\ iter.at = "poll"
    /\ poll.pipe \/ ReadySources # {}
    /\ poll' = [poll EXCEPT !.pipe = FALSE]
    /\ iter' = [at |-> "dispatch", ready |-> ReadySources, armed |-> {}]
    /\ UNCHANGED <<cvars, lvars, thread, polled>>

Dispatches(s) ==
    /\ iter.at = "dispatch"
    /\ thread[Loop] = "idle"
    /\ s \in iter.ready
    /\ iter' = [iter EXCEPT !.ready = @ \ {s}]

DispatchWakeup ==
    /\ Dispatches(Wakeup)
    /\ poll' = [poll EXCEPT !.wakeup = FALSE]
    /\ UNCHANGED <<cvars, lvars, thread, polled>>

DispatchConnector ==
    /\ Dispatches(Connecting)
    /\ IF source.state = "attached" THEN Dispatch ELSE UNCHANGED vars
    /\ UNCHANGED <<lvars, polled, poll>>

DispatchListener(n) ==
    /\ Dispatches(Listening(n))
    /\ IF lsource[n].state = "attached"
       THEN L!ListenerDispatch(n)
       ELSE UNCHANGED <<lvars, thread>>
    /\ UNCHANGED <<cvars, polled, poll>>

IterEnds ==
    /\ iter.at = "dispatch" /\ iter.ready = {}
    /\ thread[Loop] = "idle"
    /\ iter' = [iter EXCEPT !.at = "out"]
    /\ UNCHANGED <<cvars, lvars, thread, polled, poll>>

\* z_poll_unref by the thread that polled, once nobody is inside of a call.
z_poll_unref ==
    /\ iter.at = "ended"
    /\ poll.state = "live"
    /\ \A u \in Users : thread[u] \notin {"wakeup", "pipe"}
    /\ poll' = [poll EXCEPT !.state = "freed"]
    /\ UNCHANGED <<cvars, lvars, thread, polled, iter>>
-----------------------------------------------------------------------------
(* The specification. *)

\* The poll thread runs the callbacks of the sources.
Callbacks ==
    \/ Connected /\ UNCHANGED <<lvars, pvars>>
    \/ L!Accepts /\ UNCHANGED <<cvars, pvars>>
    \/ L!ListenerCancelDestroys(Loop) /\ UNCHANGED <<cvars, pvars>>

Iteration ==
    \/ IterQuits
    \/ IterPrepares
    \/ IterChecks
    \/ DispatchWakeup
    \/ DispatchConnector
    \/ \E n \in 1 .. MaxStarts : DispatchListener(n)
    \/ IterEnds
    \/ z_poll_unref

\* g_source_attach by another thread wakes the loop up.
Attaches(attached) == poll' = [poll EXCEPT !.pipe = @ \/ attached]

\* The application; the poll thread is part of it while it does not sleep.
Applications ==
    \/ /\ polled = "connector"
       /\ Application
       /\ Attaches(source'.state # source.state /\ source'.state = "attached")
       /\ UNCHANGED <<lvars, polled, iter>>
    \/ \E t \in {Creator, Loop} :
         /\ polled = "listener"
         /\ t = Loop => iter.at # "poll"
         /\ L!Operation(t)
         /\ Attaches(t = Creator /\ \E n \in DOMAIN lsource :
                       lsource[n].state = "none" /\ lsource'[n].state = "attached")
         /\ UNCHANGED <<cvars, polled, iter>>
    \/ \E u \in Users : z_poll_quit(u) \/ z_poll_wakeup(u) \/ WakeupPipe(u)

\* The time is read by the check only.
Environment ==
    \/ NetworkAnswers /\ UNCHANGED <<lvars, pvars>>
    \/ iter.at # "dispatch" /\ TimeoutExpires /\ UNCHANGED <<lvars, pvars>>
    \/ L!ConnectionArrives /\ UNCHANGED <<cvars, pvars>>

ENext == Callbacks \/ Iteration \/ Applications \/ Environment

\* A call that has begun ends, whichever thread is in it.
Finishes(u) ==
    \/ CancelDestroys(u) /\ UNCHANGED <<lvars, pvars>>
    \/ u = Creator /\ L!ListenerCancelDestroys(u) /\ UNCHANGED <<cvars, pvars>>
    \/ thread[u] = "wakeup" /\ z_poll_wakeup(u)
    \/ WakeupPipe(u)

\* The poll thread runs, threads inside of a call go on, and time passes.
\* Nothing is assumed of the network.  The clock of the accept loop does not
\* strike in every single round.
ESpec ==
    /\ EInit /\ [][ENext]_allvars
    /\ WF_allvars(Callbacks)
    /\ WF_allvars(Iteration)
    /\ \A u \in Users : WF_allvars(Finishes(u))
    /\ WF_allvars(TimeoutExpires /\ UNCHANGED <<lvars, pvars>>)
    /\ SF_allvars(L!AcceptLoop /\ UNCHANGED <<cvars, pvars>>)

-----------------------------------------------------------------------------
(* Properties. *)

\* Nobody works on a connector, a listener or a poll that has been freed.
ObjectsLive ==
    /\ NoUseAfterFree
    /\ L!ListenerLive
    /\ (\E u \in Users : thread[u] \in {"wakeup", "pipe"}) => poll.state = "live"

\* A callback of the connector comes once and not after z_connector_cancel
\* has returned; one of the listener not after z_listener_cancel has, and after
\* z_listener_suspend at most the one that was being accepted.
CallbackWanted ==
    [][/\ calls' # calls => ~cancelled /\ calls = 0
       /\ L!NoAcceptAfterCancel
       /\ L!SuspendHolds']_allvars

\* A connector that has been started calls back or is cancelled, even if the
\* network never answers, unless the loop is told to end.
ConnectAnswered ==
    (source.state = "attached") ~> (calls > 0 \/ ~self.watch \/ poll.quit)

\* z_poll_quit ends the loop, at whichever point of the iteration it comes.
QuitEnds == poll.quit ~> (iter.at = "ended")

\* z_listener_resume of another thread does not wake a loop that sleeps.
Overslept ==
    /\ iter.at = "poll" /\ ~poll.pipe
    /\ \E n \in DOMAIN lsource : L!ListenerPolls(n) /\ Listening(n) \notin iter.armed

\* A connection that waits is accepted, unless the listener is suspended,
\* cancelled or told to stop, the loop ends, or a resume went unnoticed.
ConnectionAccepted ==
    (socket.pending > 0) ~>
      \/ socket.pending = 0
      \/ L!Suspended \/ listener.watch = 0 \/ seen.stopped
      \/ poll.quit
      \/ Overslept
=============================================================================
