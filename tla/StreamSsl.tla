------------------------------ MODULE StreamSsl ------------------------------
(***************************************************************************)
(* ZStreamSsl (src/src/streamssl.c) and the BIO under it (src/src/ssl.c): an    *)
(* SSL read may have to wait until the child can be written, and an SSL write   *)
(* until it can be read.  what_if_called remembers which, and the callbacks of  *)
(* the child are crossed meanwhile.                                           *)
(*                                                                           *)
(* The application is driven by the callbacks: it wants to read or to write,    *)
(* and tries again when it is called.  OpenSSL is external: a call does its     *)
(* work, or asks for a direction that the child does not offer at the moment    *)
(* (a renegotiation), or fails.  The bytes and the timeouts are dropped; the    *)
(* shutdown, which blocks, is one step and restores the nonblocking mode.       *)
(***************************************************************************)
EXTENDS Integers

CONSTANT Duplex     \* whether the application reads and writes at the same time

ASSUME DuplexAssumption == Duplex \in BOOLEAN

VARIABLES
    ssl,    \* ZStreamSsl: session (ssl # NULL), what_if_called, shutdown, want_read/want_write
    child,  \* the stream below: its conditions, what it offers, eof and error
    app     \* wants: calls to be made; waits: the direction each has to
            \* wait for; over: it has met the end or an error

streamvars == <<ssl, child, app>>

Calls == {"read", "write"}

\* The direction a call has by itself.
Own(call) == IF call = "read" THEN "IN" ELSE "OUT"

\* z_stream_ssl_new, with a session or (until STARTTLS) without one; the child
\* is in nonblocking mode.
StreamInit ==
    /\ ssl \in [session: BOOLEAN, what: {"DO_AS_USUAL"}, shutdown: {FALSE}, pending: {FALSE}]
    /\ child = [cond |-> {}, ready |-> {}, state |-> "open"]
    /\ app = [wants |-> {}, waits |-> [c \in Calls |-> Own(c)], over |-> FALSE]

-----------------------------------------------------------------------------
(* The BIO. *)

\* z_stream_bio_read: the flags say a retry, 0 is the end, -1 an error.
z_stream_bio_read ==
    CASE child.state = "failed" -> "error"
      [] child.state = "eof" -> "end"
      [] "IN" \in child.ready -> "data"
      [] OTHER -> "retry"

z_stream_bio_write ==
    CASE child.state = "failed" -> "error"
      [] "OUT" \in child.ready -> "data"
      [] OTHER -> "retry"

\* SSL_read and SSL_write (external): what a call may return.
SslResults(call) ==
    LET bio == IF call = "read" THEN z_stream_bio_read ELSE z_stream_bio_write
    IN  (IF bio = "data" \/ (call = "read" /\ ssl.pending) THEN {"done"} ELSE {})
        \union (IF bio = "data" THEN {"SSL_ERROR_SSL", "SSL_ERROR_ZERO_RETURN"} ELSE {})
        \union (IF bio = "end" THEN {"0"} ELSE {})
        \union (IF bio = "error" THEN {"SYSCALL_EAGAIN", "SYSCALL"} ELSE {})
        \union (IF z_stream_bio_read = "retry" THEN {"WANT_READ"} ELSE {})
        \union (IF z_stream_bio_write = "retry" THEN {"WANT_WRITE"} ELSE {})

-----------------------------------------------------------------------------
(* The read and the write method: <<status, what_if_called, child's conditions>>. *)

Status(result) ==
    CASE result = "done" -> "NORMAL"
      [] result \in {"WANT_READ", "WANT_WRITE", "SYSCALL_EAGAIN"} -> "AGAIN"
      [] result \in {"SSL_ERROR_ZERO_RETURN", "0"} -> "EOF"
      [] OTHER -> "ERROR"

\* (mutant) the condition is not set on the child
z_stream_ssl_read_method_impl_unset(result) ==
    CASE result = "WANT_WRITE" -> <<"CALL_READ_WHEN_WRITE", child.cond>>
      [] result = "done" /\ ssl.what # "DO_AS_USUAL" -> <<"DO_AS_USUAL", child.cond \ {"OUT"}>>
      [] OTHER -> <<ssl.what, child.cond>>

z_stream_ssl_read_method_impl(result) ==
    CASE result = "WANT_WRITE" ->
           <<"CALL_READ_WHEN_WRITE",
             IF ssl.what = "DO_AS_USUAL" THEN child.cond \union {"OUT"} ELSE child.cond>>
      [] result = "done" /\ ssl.what # "DO_AS_USUAL" -> <<"DO_AS_USUAL", child.cond \ {"OUT"}>>
      [] OTHER -> <<ssl.what, child.cond>>

z_stream_ssl_write_method_impl(result) ==
    CASE result = "WANT_READ" ->
           <<"CALL_WRITE_WHEN_READ",
             IF ssl.what = "DO_AS_USUAL" THEN child.cond \union {"IN"} ELSE child.cond>>
      [] result = "done" /\ ssl.what # "DO_AS_USUAL" -> <<"DO_AS_USUAL", child.cond \ {"IN"}>>
      [] OTHER -> <<ssl.what, child.cond>>

\* The direction the application has to wait for after AGAIN.
WaitsFor(call, result) ==
    CASE result = "WANT_READ" -> "IN" [] result = "WANT_WRITE" -> "OUT" [] OTHER -> Own(call)

\* A call that has ended: the application goes on with the same call, or stops
\* and clears its condition, which goes down to the child.
Ended(call, cond) ==
    \/ /\ app' = [app EXCEPT !.waits[call] = Own(call)]
       /\ child' = [child EXCEPT !.cond = cond, !.ready = @ \ {Own(call)}]
    \/ /\ app' = [app EXCEPT !.waits[call] = Own(call), !.wants = @ \ {call}]
       /\ child' = [child EXCEPT !.cond = cond \ {Own(call)}, !.ready = @ \ {Own(call)}]

\* After the end or an error the application leaves the stream.
GivesUp(call, cond) ==
    /\ app' = [app EXCEPT !.wants = @ \ {call}, !.over = TRUE]
    /\ child' = [child EXCEPT !.cond = cond \ {Own(call)}]

\* z_stream_ssl_read_method, z_stream_ssl_write_method: after the shutdown a read
\* is at the end and a write fails; without a session the child is called.
Tries(call) ==
    IF ssl.shutdown THEN GivesUp(call, child.cond) /\ UNCHANGED ssl
    ELSE IF ~ssl.session
    THEN /\ UNCHANGED ssl
         /\ LET bio == IF call = "read" THEN z_stream_bio_read ELSE z_stream_bio_write
            IN  CASE bio = "data" -> Ended(call, child.cond)
                  [] bio = "retry" -> UNCHANGED <<app, child>>
                  [] OTHER -> GivesUp(call, child.cond)
    ELSE \E result \in SslResults(call), more \in BOOLEAN :
           LET after == IF call = "read" THEN z_stream_ssl_read_method_impl(result)
                                         ELSE z_stream_ssl_write_method_impl(result)
           IN  /\ ssl' = [ssl EXCEPT !.what = after[1],
                            !.pending = IF call = "read" /\ Status(result) = "NORMAL" THEN more ELSE @]
               /\ CASE Status(result) = "NORMAL" -> Ended(call, after[2])
                    [] Status(result) = "AGAIN" ->
                         /\ app' = [app EXCEPT !.waits[call] = WaitsFor(call, result)]
                         /\ child' = [child EXCEPT !.cond = after[2]]
                    [] OTHER -> GivesUp(call, after[2])

z_stream_ssl_read_method == Tries("read")

z_stream_ssl_write_method == Tries("write")

-----------------------------------------------------------------------------
(* The callbacks. *)

\* z_stream_ssl_read_callback, z_stream_ssl_write_callback: the callback of the
\* application that an event of the child leads to.
Routed(direction) ==
    IF direction = "IN"
    THEN IF ssl.what = "CALL_WRITE_WHEN_READ" THEN "write" ELSE "read"
    ELSE IF ssl.what = "CALL_READ_WHEN_WRITE" THEN "read" ELSE "write"

\* The child's source dispatches; a failed or finished child is ready for everything.
Offers(direction) == direction \in child.ready \/ child.state # "open"

z_stream_ssl_callback(direction) ==
    /\ direction \in child.cond
    /\ Offers(direction)
    /\ Routed(direction) \in app.wants
    /\ IF Routed(direction) = "read" THEN z_stream_ssl_read_method ELSE z_stream_ssl_write_method

\* z_stream_ssl_watch_prepare and _check: the stream's own source is ready when
\* something can be read without the child.  Without a session the conditions go
\* to the child again, and a stream that wants to write, too, is ready at once.
WatchReady ==
    /\ "read" \in app.wants
    /\ \/ ssl.shutdown
       \/ ssl.session /\ ssl.pending
       \/ ~ssl.session /\ "write" \in app.wants

z_stream_ssl_watch_dispatch ==
    /\ WatchReady
    /\ z_stream_ssl_read_method

-----------------------------------------------------------------------------
(* The application. *)

\* z_stream_set_cond: z_stream_ssl_ctrl_method forwards it to the child.
z_stream_set_cond(call) ==
    /\ call \notin app.wants
    /\ ~app.over
    /\ Duplex \/ app.wants = {}
    /\ app' = [app EXCEPT !.wants = @ \union {call}, !.waits[call] = Own(call)]
    /\ child' = [child EXCEPT !.cond = @ \union {Own(call)}]
    /\ UNCHANGED ssl

\* ZST_CTRL_SSL_SET_SESSION: the session is taken, and a BIO made for the child.
SetSession ==
    /\ ~ssl.session
    /\ app.wants = {}
    /\ ssl' = [ssl EXCEPT !.session = TRUE]
    /\ UNCHANGED <<child, app>>

\* z_stream_ssl_shutdown_method: the alerts are exchanged in blocking mode, and
\* the child is shut down.
z_stream_ssl_shutdown_method ==
    /\ ~ssl.shutdown
    /\ ssl' = [ssl EXCEPT !.shutdown = TRUE]
    /\ child' = [child EXCEPT !.state = IF @ = "open" THEN "eof" ELSE @]
    /\ UNCHANGED app

\* The child becomes readable, writable, full, or ends (external).
ChildChanges ==
    /\ child.state = "open"
    /\ \/ \E d \in {"IN", "OUT"} : d \notin child.ready /\ child' = [child EXCEPT !.ready = @ \union {d}]
       \/ "OUT" \in child.ready /\ child' = [child EXCEPT !.ready = @ \ {"OUT"}]
       \/ \E state \in {"eof", "failed"} : child' = [child EXCEPT !.state = state]
    /\ UNCHANGED <<ssl, app>>

StreamNext ==
    \/ \E d \in {"IN", "OUT"} : z_stream_ssl_callback(d)
    \/ z_stream_ssl_watch_dispatch
    \/ \E call \in Calls : z_stream_set_cond(call)
    \/ SetSession
    \/ z_stream_ssl_shutdown_method
    \/ ChildChanges

-----------------------------------------------------------------------------
(* Properties. *)

\* Nobody waits in vain: a call that the application has to make again waits for
\* a direction that the child watches, and an event in that direction leads to
\* the callback of that call; or the stream's own source is ready.  A
\* renegotiation moves the wait to the other direction and back.
RetryWoken ==
    \A call \in app.wants :
        \/ app.waits[call] \in child.cond /\ Routed(app.waits[call]) = call
        \/ call = "read" /\ WatchReady
=============================================================================
