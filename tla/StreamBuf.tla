----------------------------- MODULE StreamBuf -----------------------------
(***************************************************************************)
(* The write buffer of a stream stack (src/src/streambuf.c).  Writers put   *)
(* packets into the buffer under buffer_lock; flushing writes them to the   *)
(* child stream, under the same lock and in bursts of a few child writes.   *)
(* Flushing is started by the poll loop when the child is writable, by a    *)
(* writer right after a write (Z_SBF_IMMED_FLUSH), by z_stream_buf_flush    *)
(* and by a shutdown.                                                       *)
(*                                                                         *)
(* Bytes are numbered in the order in which the buffer accepted them, so a  *)
(* packet is the number of its first byte and a length.                     *)
(***************************************************************************)
EXTENDS Integers, Sequences

CONSTANTS
    Writers,       \* threads other than the one that runs the poll loop
    Loop,          \* the thread of the poll loop
    Lengths,       \* lengths of the packets
    buf_threshold, \* the buffer counts as writable below this size
    Burst,         \* child writes of one flush: 10 in the code
    ImmedFlush,    \* Z_SBF_IMMED_FLUSH is set
    ChildResults,  \* how a write to the child may end
    MayShutdown,   \* the application shuts the stream down
    MaxBytes,      \* bound: no write starts that would exceed it
    MaxPackets     \* bound: nor one with this many packets in the buffer

Actors == Writers \cup {Loop}

ASSUME BufAssumption ==
    /\ Loop \notin Writers
    /\ "nobody" \notin Actors
    /\ Lengths \subseteq Nat
    /\ buf_threshold \in Nat
    /\ Burst \in Nat \ {0}
    /\ ImmedFlush \in BOOLEAN
    /\ ChildResults \subseteq {"normal", "again", "error", "eof"}
    /\ MayShutdown \in BOOLEAN
    /\ MaxBytes \in Nat
    /\ MaxPackets \in Nat

VARIABLES
    buffers,      \* packets, the first one possibly written in part
    pending_pos,  \* how much of the first packet the child has
    current_size, \* bytes in the buffer
    flush_error,  \* an error is stored for the next write
    want_write,   \* the application waits for writability
    watch,        \* the poll loop waits for the child's writability
    act,          \* where every thread is, and where a flush returns to
    flush,        \* who holds buffer_lock in a flush, child writes left
    shutdown,     \* how far a shutdown has got: "no", "begun" or "done"
    total,        \* bytes the buffer has accepted
    wire,         \* bytes the child has taken
    failed        \* a write to the child has failed

vars == <<buffers, pending_pos, current_size, flush_error, want_write, watch, act,
          flush, shutdown, total, wire, failed>>

NoOne == "nobody"

Init ==
    /\ buffers = <<>>
    /\ pending_pos = 0
    /\ current_size = 0
    /\ flush_error = FALSE
    /\ want_write = TRUE
    /\ watch = FALSE
    /\ act = [a \in Actors |-> [pc |-> IF a = Loop THEN "prepare" ELSE "idle",
                                then |-> "idle"]]
    /\ flush = [by |-> NoOne, left |-> 0]
    /\ shutdown = "no"
    /\ total = 0
    /\ wire = <<>>
    /\ failed = FALSE

At(a, where) == act[a].pc = where
Goes(a, where) == act' = [act EXCEPT ![a] = [pc |-> where, then |-> "idle"]]

\* z_stream_buf_space_avail_internal, read without the lock.
SpaceAvail == current_size < buf_threshold

-----------------------------------------------------------------------------
(* Writing. *)

\* (mutant) the stored error is not looked at
Refused_never == FALSE
Refused == flush_error

\* z_stream_write_packet_internal under buffer_lock.
WritePacket(n) ==
    /\ shutdown = "no"
    /\ flush.by = NoOne
    /\ total + n <= MaxBytes
    /\ Len(buffers) < MaxPackets
    /\ \/ /\ Refused
          /\ UNCHANGED <<buffers, current_size, total>>
       \/ /\ ~Refused
          /\ buffers' = Append(buffers, [first |-> total + 1, length |-> n])
          /\ current_size' = current_size + n
          /\ total' = total + n
    /\ UNCHANGED <<pending_pos, flush_error, watch, flush, shutdown, wire, failed>>

\* After an accepted write the buffer may be flushed before the call returns.
AfterWrite(a, where) ==
    IF ImmedFlush /\ ~Refused
    THEN act' = [act EXCEPT ![a] = [pc |-> "flush", then |-> where]]
    ELSE Goes(a, where)

\* z_stream_write, z_stream_write_buf or z_stream_write_packet by a thread of
\* its own.
WriterWrites(w, n) ==
    /\ At(w, "idle")
    /\ WritePacket(n)
    /\ AfterWrite(w, "idle")
    /\ UNCHANGED want_write

\* z_stream_buf_flush.
z_stream_buf_flush(w) ==
    /\ At(w, "idle")
    /\ shutdown = "no"
    /\ act' = [act EXCEPT ![w] = [pc |-> "flush", then |-> "idle"]]
    /\ UNCHANGED <<buffers, pending_pos, current_size, flush_error, want_write, watch,
                   flush, shutdown, total, wire, failed>>

-----------------------------------------------------------------------------
(* The poll loop. *)

\* (mutant) the child is watched only when the buffer is full
WatchesChild_full == ~SpaceAvail /\ ~flush_error
WatchesChild == current_size # 0 /\ ~flush_error

\* z_stream_buf_watch_prepare.
LoopPrepare ==
    /\ At(Loop, "prepare")
    /\ watch' = WatchesChild
    /\ Goes(Loop, IF want_write /\ SpaceAvail THEN "dispatch" ELSE "poll")
    /\ UNCHANGED <<buffers, pending_pos, current_size, flush_error, want_write, flush,
                   shutdown, total, wire, failed>>

\* poll() returns because the child is writable; if the buffer has become
\* writable meanwhile (z_stream_buf_watch_check) its source comes first,
\* otherwise z_stream_buf_write_callback flushes.
ChildWritable ==
    /\ At(Loop, "poll")
    /\ watch
    /\ IF want_write /\ SpaceAvail
       THEN Goes(Loop, "dispatch")
       ELSE act' = [act EXCEPT ![Loop] = [pc |-> "flush", then |-> "prepare"]]
    /\ UNCHANGED <<buffers, pending_pos, current_size, flush_error, want_write, watch,
                   flush, shutdown, total, wire, failed>>

\* poll() returns because of some other source, whose handler may ask for
\* writability again.
OtherEvent ==
    /\ At(Loop, "poll")
    /\ \/ /\ want_write /\ SpaceAvail
          /\ Goes(Loop, "dispatch")
          /\ UNCHANGED want_write
       \/ /\ ~(want_write /\ SpaceAvail)
          /\ Goes(Loop, "prepare")
          /\ want_write' \in {want_write, TRUE}
    /\ UNCHANGED <<buffers, pending_pos, current_size, flush_error, watch, flush,
                   shutdown, total, wire, failed>>

\* z_stream_buf_watch_dispatch: the application's callback writes one packet
\* or more, and stops waiting for writability when a write is refused ...
CallbackWrites(n) ==
    /\ At(Loop, "dispatch")
    /\ WritePacket(n)
    /\ \E where \in {"dispatch", "prepare"} : AfterWrite(Loop, where)
    /\ want_write' = (want_write /\ ~Refused)

\* ... or when it has nothing more to write.
CallbackStops ==
    /\ At(Loop, "dispatch")
    /\ want_write' = FALSE
    /\ Goes(Loop, "prepare")
    /\ UNCHANGED <<buffers, pending_pos, current_size, flush_error, watch, flush,
                   shutdown, total, wire, failed>>

-----------------------------------------------------------------------------
(* Flushing: z_stream_buf_flush_internal. *)

FlushLock(a) ==
    /\ At(a, "flush")
    /\ flush.by = NoOne
    /\ flush' = [by |-> a, left |-> Burst]
    /\ act' = [act EXCEPT ![a] = [pc |-> "flushing", then |-> act[a].then]]
    /\ UNCHANGED <<buffers, pending_pos, current_size, flush_error, want_write, watch,
                   shutdown, total, wire, failed>>

\* The loop goes on for another child write.
MayWriteChild(a) == At(a, "flushing") /\ buffers # <<>> /\ flush.left > 0

FlushReturns(a) ==
    /\ Goes(a, act[a].then)
    /\ flush' = [by |-> NoOne, left |-> 0]

\* The numbers of n bytes from number k on.
Bytes(k, n) == [i \in 1 .. n |-> k + i - 1]

\* (mutant) the position in the next packet is not reset
NextPos_kept(n) == pending_pos + n
NextPos(n) == IF pending_pos + n >= Head(buffers).length THEN 0 ELSE pending_pos + n

Released(n) ==
    IF pending_pos + n >= Head(buffers).length THEN Head(buffers).length ELSE 0

\* The child takes n bytes of the first packet, which is dropped at its end.
ChildTakes(a, n) ==
    LET packet == Head(buffers) IN
    /\ MayWriteChild(a)
    /\ "normal" \in ChildResults
    /\ shutdown # "done"
    /\ n \in 0 .. packet.length - pending_pos
    /\ n = 0 => packet.length = pending_pos
    /\ wire' = wire \o Bytes(packet.first + pending_pos, n)
    /\ pending_pos' = NextPos(n)
    /\ current_size' = current_size - Released(n)
    /\ buffers' = IF pending_pos + n >= packet.length THEN Tail(buffers) ELSE buffers
    /\ flush' = [flush EXCEPT !.left = flush.left - 1]
    /\ UNCHANGED <<flush_error, want_write, watch, act, shutdown, total, failed>>

\* The child's buffers are full; a shutdown has made it blocking.
ChildAgain(a) ==
    /\ MayWriteChild(a)
    /\ "again" \in ChildResults
    /\ shutdown # "done"
    /\ act[a].then # "close"
    /\ FlushReturns(a)
    /\ UNCHANGED <<buffers, pending_pos, current_size, flush_error, want_write, watch,
                   shutdown, total, wire, failed>>

\* How a write to the child may fail; after its shutdown it always does.
ChildFailures ==
    IF shutdown = "done" THEN {"error"} ELSE ChildResults \cap {"error", "eof"}

\* Any other result ends the flush, too.  The error that came with it is
\* stored: none came with the end of the child's stream.
ChildFails(a) ==
    \E res \in ChildFailures :
       /\ MayWriteChild(a)
       /\ flush_error' = (res = "error")
       /\ failed' = TRUE
       /\ FlushReturns(a)
       /\ UNCHANGED <<buffers, pending_pos, current_size, want_write, watch, shutdown,
                      total, wire>>

FlushDone(a) ==
    /\ At(a, "flushing")
    /\ buffers = <<>> \/ flush.left = 0
    /\ FlushReturns(a)
    /\ UNCHANGED <<buffers, pending_pos, current_size, flush_error, want_write, watch,
                   shutdown, total, wire, failed>>

-----------------------------------------------------------------------------
(* Shutting down. *)

\* z_stream_buf_shutdown_method for the write direction: one flush with the
\* child in blocking mode, then the child is shut down.
z_stream_buf_shutdown_method(a) ==
    /\ MayShutdown
    /\ shutdown = "no"
    /\ At(a, "idle") \/ At(a, "dispatch")
    /\ shutdown' = "begun"
    /\ act' = [act EXCEPT ![a] = [pc |-> "flush", then |-> "close"]]
    /\ UNCHANGED <<buffers, pending_pos, current_size, flush_error, want_write, watch,
                   flush, total, wire, failed>>

ChildShutdown(a) ==
    /\ At(a, "close")
    /\ shutdown' = "done"
    /\ Goes(a, IF a = Loop THEN "prepare" ELSE "idle")
    /\ UNCHANGED <<buffers, pending_pos, current_size, flush_error, want_write, watch,
                   flush, total, wire, failed>>

-----------------------------------------------------------------------------
(* The specification. *)

Flushing(a) ==
    \/ FlushLock(a)
    \/ \E n \in 0 .. MaxBytes : ChildTakes(a, n)
    \/ ChildAgain(a)
    \/ ChildFails(a)
    \/ FlushDone(a)

Next ==
    \/ \E w \in Writers : z_stream_buf_flush(w)
    \/ \E w \in Writers, n \in Lengths : WriterWrites(w, n)
    \/ LoopPrepare
    \/ ChildWritable
    \/ OtherEvent
    \/ \E n \in Lengths : CallbackWrites(n)
    \/ CallbackStops
    \/ \E a \in Actors : \/ Flushing(a)
                         \/ z_stream_buf_shutdown_method(a)
                         \/ ChildShutdown(a)

Spec == Init /\ [][Next]_vars

Sends == \E a \in Actors, n \in 0 .. MaxBytes : ChildTakes(a, n)

\* The loop and the flushes run on, no other source keeps poll() from
\* reporting the child for ever, callbacks return, and a child that is written
\* to again and again takes something in the end.
FairSpec ==
    /\ Spec
    /\ WF_vars(LoopPrepare)
    /\ SF_vars(ChildWritable)
    /\ WF_vars(CallbackStops \/ \E n \in Lengths : CallbackWrites(n))
    /\ \A a \in Actors : WF_vars(Flushing(a))
    /\ SF_vars(Sends)

-----------------------------------------------------------------------------
(* Properties. *)

\* The child gets the accepted bytes in order, none lost and none twice,
\* however writers, bursts and partial writes interleave.
InOrder ==
    /\ Len(wire) <= total
    /\ \A k \in 1 .. Len(wire) : wire[k] = k

\* "Write errors are propagated to the user of the stream by storing the
\* possible error condition": once a write to the child has failed no further
\* data is accepted.
ErrorPropagated == [][failed => total' = total]_vars

\* Once the poll loop watches the child, everything accepted so far is sent,
\* through any number of bursts and partial writes and whatever other threads
\* write and flush meanwhile, unless the child fails or is shut down.
Drained ==
    \A k \in 1 .. MaxBytes :
        (watch /\ total >= k) ~> (Len(wire) >= k \/ failed \/ shutdown # "no")

-----------------------------------------------------------------------------
(* What comments of streambuf.c claim and the code does not keep: the README  *)
(* says how each of them fails.                                               *)

\* "it flushes the output buffer": when the child is shut down without an
\* error, it has got everything.
ShutdownFlushes == shutdown = "done" /\ ~failed => buffers = <<>>

\* "independent of the flush thread": the same for whatever is accepted,
\* watched or not.
SentInTheEnd ==
    \A k \in 1 .. MaxBytes :
        (total >= k) ~> (Len(wire) >= k \/ failed \/ shutdown # "no")

\* An application that waits for writability is told about an error: it gets
\* its callback and its write is refused.
ErrorNoticed == (failed /\ want_write) ~> (~want_write \/ shutdown # "no")
=============================================================================
