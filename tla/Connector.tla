------------------------------ MODULE Connector ------------------------------
(***************************************************************************)
(* The life of one ZConnector (src/src/connect.c) on its ZSocketSource       *)
(* (src/src/socketsource.c): the poll thread reports the outcome of a         *)
(* connection attempt to the application, while other threads that share the  *)
(* connector cancel it and drop their references.                             *)
(*                                                                           *)
(* GLib is external.  A GSource holds one reference on its callback data and  *)
(* takes another one while it is being dispatched; the destroy notification   *)
(* comes when the last of them is gone.                                       *)
(***************************************************************************)
EXTENDS Integers, FiniteSets

CONSTANTS
    Users,     \* the threads of the application
    Creator,   \* the one that creates and starts the connector
    Loop,      \* the thread that polls
    NoOne

ASSUME ConnectorAssumption ==
    /\ IsFiniteSet(Users)
    /\ Creator \in Users
    /\ Loop \notin Users
    /\ NoOne \notin Users \cup {Loop}

VARIABLES
    self,      \* the ZConnector
    lock,      \* who holds self->lock
    source,    \* the GSource behind self->watch
    sock,      \* who owns the socket
    net,       \* what the network has made of the attempt
    expired,   \* timeout_time has been reached
    thread,    \* where every thread is
    loop,      \* the locals of z_connector_connected
    calls,     \* calls of the callback of the application
    cancelled  \* some z_connector_cancel has returned

vars == <<self, lock, source, sock, net, expired, thread, loop, calls, cancelled>>

\* z_connector_new has not been called.
Init ==
    /\ self = [state |-> "none", fd |-> FALSE, callback |-> FALSE, watch |-> FALSE,
               user_data |-> FALSE, holders |-> {}, ref_cnt |-> 0]
    /\ lock = NoOne
    /\ source = [state |-> "none", data |-> 0]
    /\ sock = "none"
    /\ net = "idle"
    /\ expired = FALSE
    /\ thread = [t \in Users \cup {Loop} |-> "idle"]
    /\ loop = [fd |-> FALSE, timed_out |-> FALSE]
    /\ calls = 0
    /\ cancelled = FALSE

Goes(t, where) == thread' = [thread EXCEPT ![t] = where]

Holds(u) == u \in self.holders /\ thread[u] = "idle"

-----------------------------------------------------------------------------
(* References. *)

\* close() by the connector: closing what is not its own any more is kept
\* as a state of its own.
Close == IF sock = "connector" THEN "closed" ELSE "twice"

\* z_connector_free.
Freed(c) == [c EXCEPT !.state = "freed", !.callback = FALSE, !.user_data = FALSE,
                      !.fd = FALSE, !.watch = FALSE]

\* z_connector_unref by the holder or the source that c has lost already.
Unref(c) ==
    LET d == [c EXCEPT !.ref_cnt = c.ref_cnt - 1] IN
    IF d.ref_cnt = 0 THEN Freed(d) ELSE d

\* What that means for the socket.
SockAfter(c) == IF c.ref_cnt = 1 /\ c.fd THEN Close ELSE sock

\* n references on the callback data go.  z_connector_source_destroy_cb is
\* called with the last one.
DropData(c, n) ==
    IF source.data = n
    THEN self' = Unref([c EXCEPT !.user_data = FALSE]) /\ sock' = SockAfter(c)
    ELSE self' = c /\ UNCHANGED sock

-----------------------------------------------------------------------------
(* The application. *)

\* socket() failed, or bind() or fcntl(): then the descriptor is lost.
NewFails ==
    /\ self.state = "none"
    /\ self' = [self EXCEPT !.state = "failed"]
    /\ sock' \in {"none", "lost"}
    /\ UNCHANGED <<lock, source, net, expired, thread, loop, calls, cancelled>>

z_connector_new ==
    /\ self.state = "none"
    /\ self' = [state |-> "live", fd |-> TRUE, callback |-> TRUE, watch |-> FALSE,
                user_data |-> TRUE, holders |-> {Creator}, ref_cnt |-> 1]
    /\ sock' = "connector"
    /\ UNCHANGED <<lock, source, net, expired, thread, loop, calls, cancelled>>

\* The reference the source gets on the connector.
StartRef == 1

\* The connection is in progress or there already: the source is attached.
z_connector_start ==
    /\ Holds(Creator)
    /\ source.state = "none"
    /\ net = "idle"
    /\ net' \in {"connecting", "connected"}
    /\ self' = [self EXCEPT !.watch = TRUE, !.ref_cnt = self.ref_cnt + StartRef]
    /\ source' = [state |-> "attached", data |-> 1]
    /\ UNCHANGED <<lock, sock, expired, thread, loop, calls, cancelled>>

\* connect() failed at once.
StartFails ==
    /\ Holds(Creator)
    /\ source.state = "none"
    /\ net = "idle"
    /\ net' = "failed"
    /\ UNCHANGED <<self, lock, source, sock, expired, thread, loop, calls, cancelled>>

\* z_connector_start_block: whatever poll() returned the descriptor becomes a
\* stream, and the user data is destroyed.
z_connector_start_block ==
    /\ Holds(Creator)
    /\ source.state = "none"
    /\ net = "idle"
    /\ net' \in {"connecting", "connected", "failed"}
    /\ sock' = "stream"
    /\ self' = [self EXCEPT !.fd = FALSE, !.user_data = FALSE]
    /\ UNCHANGED <<lock, source, expired, thread, loop, calls, cancelled>>

z_connector_ref(u, v) ==
    /\ Holds(u)
    /\ v \in Users \ self.holders
    /\ self' = [self EXCEPT !.holders = self.holders \cup {v},
                            !.ref_cnt = self.ref_cnt + 1]
    /\ UNCHANGED <<lock, source, sock, net, expired, thread, loop, calls, cancelled>>

z_connector_unref(u) ==
    /\ Holds(u)
    /\ LET c == [self EXCEPT !.holders = self.holders \ {u}] IN
       self' = Unref(c) /\ sock' = SockAfter(c)
    /\ UNCHANGED <<lock, source, net, expired, thread, loop, calls, cancelled>>

\* self->lock is taken and released; nothing happens without a watch.
z_connector_cancel(u) ==
    /\ Holds(u)
    /\ net # "idle"
    /\ lock = NoOne
    /\ self' = [self EXCEPT !.watch = FALSE]
    /\ Goes(u, IF self.watch THEN "cancel" ELSE "idle")
    /\ cancelled' = (cancelled \/ ~self.watch)
    /\ UNCHANGED <<lock, source, sock, net, expired, loop, calls>>

\* g_source_destroy drops the reference of the source on its callback data.
Destroyed(c) ==
    IF source.state = "attached"
    THEN /\ DropData(c, 1)
         /\ source' = [state |-> "destroyed", data |-> source.data - 1]
    ELSE self' = c /\ UNCHANGED <<sock, source>>

\* g_source_destroy and g_source_unref, without the lock.
CancelDestroys(u) ==
    /\ thread[u] = "cancel"
    /\ Destroyed(self)
    /\ Goes(u, "idle")
    /\ cancelled' = TRUE
    /\ UNCHANGED <<lock, net, expired, loop, calls>>

-----------------------------------------------------------------------------
(* The poll thread. *)

\* (mutant) the timeout is not looked at
Ready_untimed == net # "connecting"
\* z_socket_source_check.
Ready == expired \/ net # "connecting"

\* GLib dispatches the source and holds the callback data meanwhile.
Dispatch ==
    /\ thread[Loop] = "idle"
    /\ source.state = "attached"
    /\ Ready
    /\ source' = [source EXCEPT !.data = source.data + 1]
    /\ loop' = [fd |-> FALSE, timed_out |-> expired]
    /\ Goes(Loop, "connected")
    /\ UNCHANGED <<self, lock, sock, net, expired, calls, cancelled>>

Error == loop.timed_out \/ net = "failed"

\* (mutant) self->fd stays set although it is handed over
KeepsFd_always == TRUE
KeepsFd == Error

\* Up to the lock: the socket is taken out of self when it is connected.
z_connector_connected ==
    /\ thread[Loop] = "connected"
    /\ IF self.callback
       THEN /\ loop' = [loop EXCEPT !.fd = ~Error]
            /\ self' = [self EXCEPT !.fd = KeepsFd]
            /\ Goes(Loop, "lock")
       ELSE /\ Goes(Loop, "return")
            /\ UNCHANGED <<loop, self>>
    /\ UNCHANGED <<lock, source, sock, net, expired, calls, cancelled>>

Wanted == self.watch

CallbackStarts ==
    /\ thread[Loop] = "lock"
    /\ lock = NoOne
    /\ Wanted
    /\ lock' = Loop
    /\ self' = [self EXCEPT !.callback = FALSE]
    /\ sock' = IF loop.fd THEN "stream" ELSE sock
    /\ calls' = calls + 1
    /\ Goes(Loop, "callback")
    /\ UNCHANGED <<source, net, expired, loop, cancelled>>

\* The application has cancelled: close the socket if we have taken it.
CallbackSkipped ==
    /\ thread[Loop] = "lock"
    /\ lock = NoOne
    /\ ~Wanted
    /\ sock' = IF loop.fd THEN Close ELSE sock
    /\ Goes(Loop, "return")
    /\ UNCHANGED <<self, lock, source, net, expired, loop, calls, cancelled>>

\* The callback cancels the connector itself: the lock is recursive.
CallbackCancels ==
    /\ thread[Loop] = "callback"
    /\ self.watch
    /\ Destroyed([self EXCEPT !.watch = FALSE])
    /\ cancelled' = TRUE
    /\ UNCHANGED <<lock, net, expired, thread, loop, calls>>

\* The callback drops the reference of an idle thread on its behalf.
CallbackUnrefs(u) ==
    /\ thread[Loop] = "callback"
    /\ z_connector_unref(u)

CallbackEnds ==
    /\ thread[Loop] = "callback"
    /\ lock' = NoOne
    /\ Goes(Loop, "return")
    /\ UNCHANGED <<self, source, sock, net, expired, loop, calls, cancelled>>

\* FALSE is returned: the reference taken for the dispatch goes ...
DispatchEnds ==
    /\ thread[Loop] = "return"
    /\ DropData(self, 1)
    /\ source' = [source EXCEPT !.data = source.data - 1]
    /\ Goes(Loop, "destroy")
    /\ UNCHANGED <<lock, net, expired, loop, calls, cancelled>>

\* ... and then the source is destroyed.
LoopDestroys ==
    /\ thread[Loop] = "destroy"
    /\ Destroyed(self)
    /\ Goes(Loop, "idle")
    /\ loop' = [fd |-> FALSE, timed_out |-> FALSE]
    /\ UNCHANGED <<lock, net, expired, calls, cancelled>>

-----------------------------------------------------------------------------
(* The environment. *)

NetworkAnswers ==
    /\ net = "connecting"
    /\ net' \in {"connected", "failed"}
    /\ UNCHANGED <<self, lock, source, sock, expired, thread, loop, calls, cancelled>>

TimeoutExpires ==
    /\ source.state = "attached"
    /\ ~expired
    /\ expired' = TRUE
    /\ UNCHANGED <<self, lock, source, sock, net, thread, loop, calls, cancelled>>

-----------------------------------------------------------------------------
(* The specification. *)

\* What the poll thread does once the source is dispatched.
Connected ==
    \/ z_connector_connected
    \/ CallbackStarts
    \/ CallbackSkipped
    \/ CallbackEnds
    \/ DispatchEnds
    \/ LoopDestroys

\* What the application does.
Application ==
    \/ NewFails
    \/ z_connector_new
    \/ z_connector_start
    \/ StartFails
    \/ z_connector_start_block
    \/ \E u \in Users :
         \/ \E v \in Users : z_connector_ref(u, v)
         \/ z_connector_unref(u)
         \/ z_connector_cancel(u)
         \/ CancelDestroys(u)
         \/ CallbackUnrefs(u)
    \/ CallbackCancels

Next == Application \/ Dispatch \/ Connected \/ NetworkAnswers \/ TimeoutExpires

Spec == Init /\ [][Next]_vars

-----------------------------------------------------------------------------
(* Properties. *)

\* The socket is never closed twice nor after it has become a stream, and a
\* connector that is freed leaves no open socket behind: the attempt may
\* succeed, fail, time out and be cancelled in any order.
SocketSettled ==
    /\ sock # "twice"
    /\ self.state = "freed" => sock \in {"stream", "closed"}

\* Nobody works on a connector that has been freed, and the callback gets user
\* data that has not been destroyed.
NoUseAfterFree ==
    /\ (\E t \in DOMAIN thread :
           thread[t] \in {"cancel", "connected", "lock", "callback", "return"})
         => self.state = "live"
    /\ thread[Loop] = "callback" => self.user_data
=============================================================================
