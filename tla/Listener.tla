------------------------------ MODULE Listener ------------------------------
(***************************************************************************)
(* One ZListener (src/src/listen.c) on its ZSocketSource                      *)
(* (src/src/socketsource.c): the poll thread accepts connections and calls    *)
(* the application back, other threads start, suspend, resume and cancel the  *)
(* listener and drop their references.                                        *)
(*                                                                           *)
(* self->watch is read without the lock by all of those operations, so an     *)
(* application has to keep them to one thread, the owner, which may be the    *)
(* poll thread itself.  The callback runs under the lock.                     *)
(***************************************************************************)
EXTENDS Integers, FiniteSets

CONSTANTS
    Users,                  \* the threads of the application
    Loop,                   \* the thread that polls
    NoOne,
    MAX_ACCEPTS_AT_A_TIME,
    MaxArrivals,            \* bound: connections that ever arrive
    MaxErrors,              \* bound: failures of accept()
    MaxStarts               \* bound: sources created by z_listener_start

VARIABLES
    listener,  \* the ZListener
    llock,     \* who holds its lock
    lsource,   \* the ZSocketSources it has created
    owner,     \* the thread that may start, suspend, resume and cancel it
    socket,    \* the kernel: connections pending and to come, failures left
    thread,    \* where every thread is
    acc,       \* the locals of z_listener_accept
    cancelling,\* the local watch of z_listener_cancel, and where it returns to
    seen       \* what the application knows: it has cancelled, a callback has
               \* returned FALSE, callbacks since it has suspended

lvars == <<listener, llock, lsource, owner, socket, acc, seen, cancelling>>

NoLocals == [watch |-> 0, accepts |-> 0, rc |-> TRUE]
NotCancelling == [watch |-> 0, back |-> "idle"]

\* z_listener_new or z_stream_listener_new has been called by the owner.
LInit ==
    /\ owner \in Users \cup {Loop}
    /\ listener \in [state : {"live"}, fd : {"none"}, watch : {0},
                     accept_one : BOOLEAN, holders : {{owner}}, ref_cnt : {1}]
    /\ llock = NoOne
    /\ lsource = [n \in 1 .. MaxStarts |-> [state |-> "none", data |-> 0, suspended |-> FALSE]]
    /\ socket = [pending |-> 0, arrivals |-> MaxArrivals, errors |-> MaxErrors]
    /\ acc = NoLocals
    /\ seen = [cancelled |-> FALSE, stopped |-> FALSE, late |-> 0]
    /\ cancelling = NotCancelling

LGoes(t, where) == thread' = [thread EXCEPT ![t] = where]

\* The owner outside of a callback, or the callback.
Operates(t) ==
    /\ t = owner
    /\ t \in listener.holders
    /\ thread[t] = "idle" \/ (t = Loop /\ thread[t] = "lcallback")

-----------------------------------------------------------------------------
(* References. *)

\* z_listener_free.
ListenerFreed(l) == [l EXCEPT !.state = "freed", !.fd = IF l.fd = "open" THEN "closed" ELSE l.fd]

\* z_listener_unref.
ListenerUnref(l) ==
    LET m == [l EXCEPT !.ref_cnt = l.ref_cnt - 1] IN
    IF m.ref_cnt = 0 THEN ListenerFreed(m) ELSE m

\* A reference on the callback data of source n goes; with the last one
\* z_listener_unref is called.
ListenerDropData(l, n) ==
    IF lsource[n].data = 1 THEN ListenerUnref(l) ELSE l

\* g_source_destroy of source n.
ListenerDestroyed(l, n) ==
    IF lsource[n].state = "attached"
    THEN /\ listener' = ListenerDropData(l, n)
         /\ lsource' = [lsource EXCEPT ![n].state = "destroyed", ![n].data = @ - 1]
    ELSE listener' = l /\ UNCHANGED lsource

-----------------------------------------------------------------------------
(* The application. *)

\* (mutant) the source gets a borrowed pointer
SourceRef_borrowed == 0
SourceRef == 1

\* z_stream_listener_open_listener: socket(), bind() and listen().  When one of them
\* fails the descriptor is closed again and l is as it was.
z_stream_listener_open_listener(l) == [l EXCEPT !.fd = "open"]

\* z_listener_start and z_listener_start_in_context; the socket is opened if
\* that has not been done.
z_listener_start(t) ==
    /\ Operates(t)
    /\ listener.watch = 0
    /\ \E n \in 1 .. MaxStarts :
         /\ lsource[n].state = "none"
         /\ \A m \in 1 .. n - 1 : lsource[m].state # "none"
         /\ lsource' = [lsource EXCEPT ![n] =
                          [state |-> "attached", data |-> 1, suspended |-> FALSE]]
         /\ listener' = [z_stream_listener_open_listener(listener) EXCEPT
                            !.watch = n, !.ref_cnt = @ + SourceRef]
    /\ seen' = [cancelled |-> FALSE, stopped |-> FALSE, late |-> 0]
    /\ UNCHANGED <<llock, owner, socket, thread, acc, cancelling>>

\* z_listener_open on its own.  Nothing changes when it fails.
z_listener_open(t) ==
    /\ Operates(t)
    /\ listener.fd = "none"
    /\ listener' = z_stream_listener_open_listener(listener)
    /\ UNCHANGED <<llock, lsource, owner, socket, thread, acc, seen, cancelling>>

SetSuspended(t, b) ==
    /\ Operates(t)
    /\ listener.watch # 0
    /\ lsource[listener.watch].suspended # b
    /\ lsource' = [lsource EXCEPT ![listener.watch].suspended = b]
    /\ seen' = [seen EXCEPT !.late = 0]
    /\ UNCHANGED <<listener, llock, owner, socket, thread, acc, cancelling>>

z_listener_suspend(t) == SetSuspended(t, TRUE)
z_listener_resume(t) == SetSuspended(t, FALSE)

\* The watch is taken away under the lock, which is recursive.
z_listener_cancel(t) ==
    /\ Operates(t)
    /\ listener.watch # 0
    /\ llock \in {NoOne, t}
    /\ listener' = [listener EXCEPT !.watch = 0]
    /\ cancelling' = [watch |-> listener.watch, back |-> thread[t]]
    /\ LGoes(t, "lcancel")
    /\ UNCHANGED <<llock, lsource, owner, socket, acc, seen>>

\* g_source_destroy and g_source_unref, without the lock.
ListenerCancelDestroys(t) ==
    /\ thread[t] = "lcancel"
    /\ ListenerDestroyed(listener, cancelling.watch)
    /\ LGoes(t, cancelling.back)
    /\ seen' = [seen EXCEPT !.cancelled = TRUE, !.late = 0]
    /\ cancelling' = NotCancelling
    /\ UNCHANGED <<llock, owner, socket, acc>>

z_listener_ref(t, v) ==
    /\ thread[t] = "idle"
    /\ t \in listener.holders
    /\ v \in (Users \cup {Loop}) \ listener.holders
    /\ listener' = [listener EXCEPT !.holders = @ \cup {v}, !.ref_cnt = @ + 1]
    /\ UNCHANGED <<llock, lsource, owner, socket, thread, acc, seen, cancelling>>

z_listener_unref(t) ==
    /\ thread[t] \in {"idle", "lcallback"}
    /\ t \in listener.holders
    /\ listener' = ListenerUnref([listener EXCEPT !.holders = @ \ {t}])
    /\ UNCHANGED <<llock, lsource, owner, socket, thread, acc, seen, cancelling>>

-----------------------------------------------------------------------------
(* The poll thread. *)

\* z_socket_source_prepare: what the source polls for.
ListenerPolls(n) == lsource[n].state = "attached" /\ ~lsource[n].suspended

\* z_socket_source_check: there is no timeout.
ListenerReady(n) == lsource[n].state = "attached" /\ socket.pending > 0

\* (mutant) a suspended source gives up
ListenerDispatch_dropped(n) ==
    /\ thread[Loop] = "idle"
    /\ lsource[n].state = "attached"
    /\ lsource' = [lsource EXCEPT ![n].data = @ + 1]
    /\ acc' = [watch |-> n, accepts |-> 0, rc |-> ~lsource[n].suspended]
    /\ LGoes(Loop, IF lsource[n].suspended THEN "lreturn" ELSE "laccept")
    /\ UNCHANGED <<listener, llock, owner, socket, seen, cancelling>>

\* z_socket_source_dispatch: the source may have been suspended since it was
\* found ready.
ListenerDispatch(n) ==
    /\ thread[Loop] = "idle"
    /\ lsource[n].state = "attached"
    /\ lsource' = [lsource EXCEPT ![n].data = @ + 1]
    /\ acc' = [watch |-> n, accepts |-> 0, rc |-> TRUE]
    /\ LGoes(Loop, IF lsource[n].suspended THEN "lreturn" ELSE "laccept")
    /\ UNCHANGED <<listener, llock, owner, socket, seen, cancelling>>

\* (mutant) the watch is not looked at under the lock
AcceptWanted_always == TRUE
AcceptWanted == listener.watch # 0

z_listener_accept ==
    /\ thread[Loop] = "laccept"
    /\ llock = NoOne
    /\ IF AcceptWanted
       THEN /\ llock' = Loop
            /\ listener' = [listener EXCEPT !.ref_cnt = @ + 1]
            /\ LGoes(Loop, "lloop")
       ELSE /\ LGoes(Loop, "lreturn")
            /\ UNCHANGED <<llock, listener>>
    /\ UNCHANGED <<lsource, owner, socket, acc, seen, cancelling>>

\* z_socket_source_is_suspended(self->watch).
Suspended == listener.watch # 0 /\ lsource[listener.watch].suspended

GoesOn ==
    /\ ~Suspended
    /\ acc.rc
    /\ acc.accepts < MAX_ACCEPTS_AT_A_TIME

AcceptLoop ==
    /\ thread[Loop] = "lloop"
    /\ GoesOn
    /\ LGoes(Loop, "ltake")
    /\ UNCHANGED <<listener, llock, lsource, owner, socket, acc, seen, cancelling>>

\* accept_connection gave a stream, or it failed and the callback gets NULL.
AcceptCalls(sock) ==
    /\ thread[Loop] = "ltake"
    /\ socket' = sock
    /\ seen' = [seen EXCEPT !.late = IF Suspended THEN @ + 1 ELSE @]
    /\ LGoes(Loop, "lcallback")
    /\ UNCHANGED <<listener, llock, lsource, owner, acc, cancelling>>

Accept == socket.pending > 0 /\ AcceptCalls([socket EXCEPT !.pending = @ - 1])
AcceptFails == socket.errors > 0 /\ AcceptCalls([socket EXCEPT !.errors = @ - 1])

\* One of the conditions of the loop failed or a new second has begun; or
\* there is nothing to accept.
AcceptLoopEnds ==
    /\ thread[Loop] = "lloop" \/ (thread[Loop] = "ltake" /\ socket.pending = 0)
    /\ LGoes(Loop, "lunlock")
    /\ UNCHANGED <<listener, llock, lsource, owner, socket, acc, seen, cancelling>>

\* The callback returns whether it wants more.
AcceptCallbackEnds ==
    /\ thread[Loop] = "lcallback"
    /\ \E rc \in BOOLEAN :
         /\ acc' = [acc EXCEPT !.accepts = @ + 1, !.rc = rc /\ ~listener.accept_one]
         /\ seen' = [seen EXCEPT !.stopped = ~rc \/ listener.accept_one]
    /\ LGoes(Loop, IF listener.watch = 0 THEN "lunlock" ELSE "lloop")
    /\ UNCHANGED <<listener, llock, lsource, owner, socket, cancelling>>

AcceptUnlocks ==
    /\ thread[Loop] = "lunlock"
    /\ llock' = NoOne
    /\ listener' = ListenerUnref(listener)
    /\ LGoes(Loop, "lreturn")
    /\ UNCHANGED <<lsource, owner, socket, acc, seen, cancelling>>

\* The message is logged, and the reference taken for the dispatch goes ...
ListenerDispatchEnds ==
    /\ thread[Loop] = "lreturn"
    /\ listener' = ListenerDropData(listener, acc.watch)
    /\ lsource' = [lsource EXCEPT ![acc.watch].data = @ - 1]
    /\ LGoes(Loop, IF acc.rc THEN "idle" ELSE "ldestroy")
    /\ acc' = IF acc.rc THEN NoLocals ELSE acc
    /\ UNCHANGED <<llock, owner, socket, seen, cancelling>>

\* ... and the source is destroyed after FALSE.  self->watch keeps its value.
ListenerLoopDestroys ==
    /\ thread[Loop] = "ldestroy"
    /\ ListenerDestroyed(listener, acc.watch)
    /\ LGoes(Loop, "idle")
    /\ acc' = NoLocals
    /\ UNCHANGED <<llock, owner, socket, seen, cancelling>>

-----------------------------------------------------------------------------

ConnectionArrives ==
    /\ listener.fd = "open"
    /\ socket.arrivals > 0
    /\ socket' = [socket EXCEPT !.pending = @ + 1, !.arrivals = @ - 1]
    /\ UNCHANGED <<listener, llock, lsource, owner, thread, acc, seen, cancelling>>

\* What the poll thread does once the source is dispatched.
Accepts ==
    \/ z_listener_accept
    \/ AcceptLoop
    \/ Accept
    \/ AcceptFails
    \/ AcceptLoopEnds
    \/ AcceptCallbackEnds
    \/ AcceptUnlocks
    \/ ListenerDispatchEnds
    \/ ListenerLoopDestroys

\* What the application does in thread t.
Operation(t) ==
    \/ z_listener_start(t)
    \/ z_listener_open(t)
    \/ z_listener_suspend(t)
    \/ z_listener_resume(t)
    \/ z_listener_cancel(t)
    \/ ListenerCancelDestroys(t)
    \/ \E v \in Users \cup {Loop} : z_listener_ref(t, v)
    \/ z_listener_unref(t)

-----------------------------------------------------------------------------
(* Properties. *)

\* "It is therefore guaranteed that no user callbacks will be called after
\* cancellation": no callback begins between the return of z_listener_cancel
\* and the next z_listener_start.
NoAcceptAfterCancel ==
    thread'[Loop] = "lcallback" /\ thread[Loop] = "ltake" => ~seen.cancelled

\* After z_listener_suspend at most the one callback whose connection was
\* being accepted is still delivered.
SuspendHolds == seen.late <= 1

\* The poll thread works on a listener that exists, and its socket is closed
\* with it.
ListenerLive ==
    /\ \/ \E t \in Users \cup {Loop} : thread[t] = "lcancel"
       \/ thread[Loop] \in {"laccept", "lloop", "ltake", "lcallback", "lunlock", "lreturn"}
       => listener.state = "live"
    /\ listener.state = "freed" => listener.fd # "open"
=============================================================================
