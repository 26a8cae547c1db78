------------------------------- MODULE StreamFd -------------------------------
(***************************************************************************)
(* A descriptor stream (src/src/streamfd.c) with what every stream has        *)
(* (src/src/stream.c): packets that were put back, conditions it is polled    *)
(* for, reading and writing with a timeout.  The other end of the socket and  *)
(* the kernel are external: they decide how much a call moves.                *)
(***************************************************************************)
EXTENDS Integers, Sequences, SequencesExt

CONSTANTS
    MaxChunk   \* bound: bytes one system call moves

ASSUME ChunkAssumption == MaxChunk \in Nat \ {0}

VARIABLES
    sock,  \* what the peer sends before it closes, as far as it has not been read
    fd     \* the ZStreamFD

NewFd(nonblock, timeout) ==
    [ungot |-> <<>>, nonblock |-> nonblock, timeout |-> timeout,
     want_read |-> FALSE, want_write |-> FALSE]

\* What a call on a stream gives: a status, and the bytes moved.
Outcome(status, data) == [status |-> status, data |-> data]
NORMAL(data) == Outcome("NORMAL", data)
AGAIN == Outcome("AGAIN", <<>>)
EOF == Outcome("EOF", <<>>)
ERROR == Outcome("ERROR", <<>>)

Smaller(a, b) == IF a < b THEN a ELSE b

-----------------------------------------------------------------------------
(* Controls. *)

\* z_stream_ctrl_method: the conditions stream s is polled for.  What it does with
\* callbacks is in StreamStack.
z_stream_ctrl_method(s, control, value) ==
    CASE control = "SET_COND_READ" -> [s EXCEPT !.want_read = value]
      [] control = "SET_COND_WRITE" -> [s EXCEPT !.want_write = value]

\* z_stream_set_timeout.  A stream on top of this one hands its timeout down before
\* every call, so that this field stands for both.
SetTimeout(s, value) == [s EXCEPT !.timeout = value]

\* z_stream_fd_ctrl_method: the mode of the descriptor.
z_stream_fd_ctrl_method(nonblock) == [fd EXCEPT !.nonblock = nonblock]

\* z_stream_set_cond, for reading and for writing.
SetConds(s, r, w) ==
    z_stream_ctrl_method(z_stream_ctrl_method(s, "SET_COND_READ", r), "SET_COND_WRITE", w)

-----------------------------------------------------------------------------
(* Reading. *)

\* z_stream_unget on a descriptor stream: the packet is the next to be read.
z_stream_unget(s, data) == [s EXCEPT !.ungot = <<data>> \o @]

\* z_stream_wait_fd: what waiting for the descriptor can end with.
z_stream_wait_fd ==
    IF fd.nonblock \/ fd.timeout = -2 THEN {TRUE} ELSE {TRUE, FALSE}

\* g_io_channel_read_chars on the descriptor.
ReadChars(count) ==
    {NORMAL(SubSeq(sock, 1, n)) : n \in 1 .. Smaller(Smaller(count, MaxChunk), Len(sock))}
    \cup (IF sock = <<>> THEN {EOF} ELSE {})
    \cup (IF fd.nonblock THEN {AGAIN} ELSE {})
    \cup {ERROR}

\* z_stream_fd_read_method.
z_stream_fd_read_method(count) ==
    UNION {IF ready THEN ReadChars(count) ELSE {ERROR} : ready \in z_stream_wait_fd}

\* What z_stream_read can give.
ReadOutcomes(count) ==
    IF fd.ungot # <<>>
    THEN {NORMAL(SubSeq(Head(fd.ungot), 1, Smaller(count, Len(Head(fd.ungot)))))}
    ELSE z_stream_fd_read_method(count)

\* z_stream_read with outcome o: first what was put back, packet by packet,
\* then the descriptor.
z_stream_read(o) ==
    IF fd.ungot # <<>>
    THEN /\ fd' = [fd EXCEPT !.ungot =
                      IF Len(o.data) = Len(Head(@)) THEN Tail(@)
                      ELSE <<SubSeq(Head(@), Len(o.data) + 1, Len(Head(@)))>> \o Tail(@)]
         /\ UNCHANGED sock
    ELSE sock' = SubSeq(sock, Len(o.data) + 1, Len(sock)) /\ UNCHANGED fd

\* The bytes z_stream_read gives from here on.
Unread == FlattenSeq(fd.ungot) \o sock

-----------------------------------------------------------------------------
(* Writing. *)

\* g_io_channel_write_chars, or send() with MSG_OOB: how many of count bytes go.
WriteChars(count) ==
    {Outcome("NORMAL", n) : n \in 1 .. Smaller(count, MaxChunk)}
    \cup (IF fd.nonblock THEN {Outcome("AGAIN", 0)} ELSE {})
    \cup {Outcome("ERROR", 0)}

TimedOut == {Outcome("ERROR", 0)}

z_stream_fd_write_method(count) ==
    UNION {IF ready THEN WriteChars(count) ELSE TimedOut : ready \in z_stream_wait_fd}

\* An interrupted send() waits and sends again: it ends as an uninterrupted one.
z_stream_fd_write_pri_method(count) ==
    UNION {IF ready THEN WriteChars(count) ELSE TimedOut : ready \in z_stream_wait_fd}

\* What z_stream_write and z_stream_write_pri can give.
z_stream_write(count) ==
    z_stream_fd_write_method(count) \cup z_stream_fd_write_pri_method(count)

-----------------------------------------------------------------------------
(* The poll loop. *)

\* What poll() can report for the events z_stream_fd_watch_prepare asks for:
\* errors come whether they are asked for or not.
Events ==
    (IF fd.want_read THEN {"IN"} ELSE {}) \cup (IF fd.want_write THEN {"OUT"} ELSE {})
    \cup {"ERR"}

\* z_stream_source_prepare, z_stream_source_check and z_stream_fd_watch_check:
\* a stream with something put back is ready without a look at the descriptor.
FdReady(revents) == (fd.want_read /\ fd.ungot # <<>>) \/ revents # {}

\* Which callback z_stream_source_dispatch and z_stream_fd_watch_dispatch call:
\* an error goes to the reader first.
FdCalls(revents) ==
    (IF fd.want_read /\ (fd.ungot # <<>> \/ revents \cap {"IN", "ERR"} # {})
     THEN {"read"} ELSE {})
    \cup (IF fd.want_write /\ fd.ungot = <<>>
             /\ ("OUT" \in revents \/ ("ERR" \in revents /\ ~fd.want_read))
          THEN {"write"} ELSE {})
=============================================================================
