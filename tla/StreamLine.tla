----------------------------- MODULE StreamLine -----------------------------
(***************************************************************************)
(* A line stream (src/src/streamline.c) on a descriptor stream: the           *)
(* application takes lines, copies of them or raw bytes, puts data back,      *)
(* switches flags, and is told by the poll loop when a line is there, while   *)
(* the input arrives in pieces of any size.                                   *)
(*                                                                           *)
(* l.buf is the used part of the buffer, so Len(l.buf) is end; pos and oldpos *)
(* count from 0 as in the code.                                               *)
(***************************************************************************)
EXTENDS StreamFd, FiniteSets, FiniteSetsExt

CONSTANTS
    Cases,      \* what the peer sends, and the flags given to z_stream_line_new
    BufSizes,   \* bufsize
    CopySizes,  \* *length of z_stream_line_get_copy, and sizes of raw reads
    PeekSizes,  \* bytes read and put back before the line stream was stacked
    Settable,   \* flags z_stream_line_ctrl switches
    MaxSent     \* bound: bytes written

\* What z_stream_line_new can be given, and what z_stream_line_ctrl_method can switch.
NewFlags ==
    {"EOL_NL", "EOL_CRLF", "EOL_NUL", "EOL_FATAL", "NUL_NONFATAL", "TRUNCATE", "SPLIT",
     "SINGLE_READ", "POLL_PARTIAL", "RETURN_EOL"}
Switchable ==
    {"TRUNCATE", "NUL_NONFATAL", "SPLIT", "SINGLE_READ", "POLL_PARTIAL", "RETURN_EOL"}

ASSUME LineAssumption ==
    /\ \A c \in Cases : c.input \in Seq(STRING) /\ c.flags \in SUBSET NewFlags
    /\ PeekSizes \subseteq Nat
    /\ Settable \subseteq Switchable
    /\ \A b \in BufSizes : b \in Nat \ {0}
    /\ \A n \in CopySizes : n \in Nat \ {0}
    /\ MaxSent \in Nat

VARIABLES
    input,    \* all that the peer sends
    l,        \* the ZStreamLine
    call,     \* the call of the application that is under way
    out,      \* what the application has been given: how many pieces, their
              \* bytes but for the last piece, and that piece
    sent,     \* bytes written
    loop,     \* "app", or "sleeping" in poll()
    history   \* what has happened that a property must know of

linevars == <<sock, fd, input, l, call, out, sent, loop, history>>

NoCall == [op |-> "none", size |-> 0]

\* z_stream_line_new.
NewLine(size, flags) ==
    [buf |-> <<>>, pos |-> 0, oldpos |-> 0, bufsize |-> size, flags |-> flags,
     avail |-> "unset", child_cond |-> {}, want_read |-> FALSE, want_write |-> FALSE]

\* The application may have looked at the first bytes and put them back before
\* it stacked the line stream on the descriptor.
LineInit ==
    /\ \E c \in Cases, b \in BufSizes : input = c.input /\ l = NewLine(b, c.flags)
    /\ \E k \in PeekSizes, nonblock \in BOOLEAN :
          /\ k <= Len(input)
          /\ sock = SubSeq(input, k + 1, Len(input))
          /\ fd = IF k = 0 THEN NewFd(nonblock, -2)
                  ELSE z_stream_unget(NewFd(nonblock, 1), SubSeq(input, 1, k))
    /\ call = NoCall
    /\ out = [n |-> 0, before |-> <<>>, last |-> <<>>]
    /\ sent = 0
    /\ loop = "app"
    /\ history = {}

-----------------------------------------------------------------------------
(* The buffer. *)

EolByte == IF "EOL_NUL" \in l.flags THEN "NUL" ELSE "LF"

\* The end-of-line bytes of the unread part of m's buffer.
Eols(m) == {i \in m.pos + 1 .. Len(m.buf) : m.buf[i] = EolByte}

Emptied(m) == [m EXCEPT !.buf = <<>>, !.pos = 0, !.oldpos = 0]

\* How many bytes of end-of-line the line that ends at e has: -1 is an error.
EolLen(m, e) ==
    IF "EOF" \in m.flags THEN 0
    ELSE IF m.flags \cap {"EOL_NL", "EOL_NUL"} # {} THEN 1
    ELSE IF "EOL_CRLF" \notin m.flags THEN 0
    ELSE IF e >= 2 /\ m.buf[e - 1] = "CR" THEN 2
    ELSE IF "EOL_FATAL" \in m.flags THEN -1 ELSE 1

\* The outcome of handing out the bytes up to e.  A line shorter than its
\* end-of-line has a length below zero.
LineTo(m, e) ==
    LET raw == SubSeq(m.buf, m.pos + 1, e)
        eol == EolLen(m, e)
        len == IF "RETURN_EOL" \in m.flags THEN Len(raw) ELSE Len(raw) - eol
        nul == "EOL_NUL" \notin m.flags /\ "NUL_NONFATAL" \notin m.flags
               /\ \E i \in DOMAIN raw : raw[i] = "NUL"
    IN  IF nul \/ eol = -1 THEN ERROR
        ELSE IF len < 0 THEN Outcome("OVERRUN", <<>>)
        ELSE NORMAL(SubSeq(raw, 1, len))

\* z_stream_line_get_from_buf: the outcome and the stream after it.
z_stream_line_get_from_buf(m) ==
    IF "EOF" \in m.flags \/ Eols(m) # {}
    THEN LET e == IF "EOF" \in m.flags THEN Len(m.buf) ELSE Min(Eols(m)) IN
         <<LineTo(m, e), [m EXCEPT !.oldpos = m.pos, !.pos = e]>>
    ELSE <<AGAIN, [m EXCEPT !.buf = SubSeq(@, m.pos + 1, Len(@)), !.pos = 0, !.oldpos = 0]>>

-----------------------------------------------------------------------------
(* Answers to the application. *)

Given(data) ==
    out' = [n |-> out.n + 1, before |-> out.before \o out.last, last |-> data]

\* The call returns.  Bytes go to the application; copy is *length of
\* z_stream_line_get_copy or 0, held is the line in the buffer of m.
Answer(data, m, copy) ==
    /\ call' = NoCall
    /\ IF copy = 0 \/ Len(data) <= copy
       THEN Given(data) /\ l' = m /\ UNCHANGED history
       ELSE IF "SPLIT" \in m.flags
       THEN /\ Given(SubSeq(data, 1, copy))
            /\ l' = IF m.buf = <<>> THEN [m EXCEPT !.buf = data, !.pos = copy]
                    ELSE [m EXCEPT !.pos = m.oldpos + copy]
            /\ UNCHANGED history
       ELSE \* "Line buffer too small": the line is lost
            /\ history' = history \cup {"failed"}
            /\ l' = m
            /\ UNCHANGED out

\* The call returns without data.
NoAnswer(m, what) ==
    /\ call' = NoCall
    /\ l' = m
    /\ history' = history \cup what
    /\ UNCHANGED out

\* What z_stream_line_get_internal makes of a line found in the buffer at once.
TakeFound(o, m, copy) ==
    CASE o.status = "NORMAL" -> Answer(o.data, m, copy)
      [] o.status = "OVERRUN" -> NoAnswer(m, {"overrun"})
      [] o.status = "ERROR" -> NoAnswer([m EXCEPT !.flags = @ \cup {"ERROR"}], {"failed"})
      [] o.status = "AGAIN" -> /\ call' = [op |-> "get", size |-> copy]
                               /\ l' = m
                               /\ UNCHANGED <<out, history>>

\* An application gives a stream up after an error.
Ready == loop = "app" /\ call = NoCall /\ history \cap {"failed", "overrun"} = {}

\* (mutant) the cached answer outlives the line it was about
Polled_keeps(m) == [m EXCEPT !.child_cond = {}]

\* What the last poll found is used up.
Polled(m) == [m EXCEPT !.child_cond = {}, !.avail = "unset"]

\* z_stream_line_get (copy = 0) or z_stream_line_get_copy: what the buffer holds.
z_stream_line_get(copy) ==
    /\ Ready
    /\ IF "ERROR" \in l.flags THEN NoAnswer(l, {"failed"})
       ELSE IF "EOF" \in l.flags THEN NoAnswer(l, {"eof"})
       ELSE LET m == Polled(l) IN
            IF Len(m.buf) # m.pos
            THEN LET r == z_stream_line_get_from_buf(m) IN TakeFound(r[1], r[2], copy)
            ELSE /\ call' = [op |-> "get", size |-> copy]
                 /\ l' = Emptied(m)
                 /\ UNCHANGED <<out, history>>
    /\ UNCHANGED <<sock, fd, input, sent, loop>>

Full(m) == Len(m.buf) = m.bufsize

\* The loop of z_stream_line_get_internal without room: a line that does not fit.
BufferFull ==
    /\ call.op = "get" /\ Full(l)
    /\ "IGNORE" \notin l.flags
    /\ IF "TRUNCATE" \in l.flags
       THEN Answer(l.buf, [Emptied(l) EXCEPT !.flags = @ \cup {"IGNORE"}], call.size)
       ELSE IF "SPLIT" \in l.flags THEN Answer(l.buf, Emptied(l), call.size)
       ELSE NoAnswer([l EXCEPT !.flags = @ \cup {"ERROR"}], {"failed"})
    /\ UNCHANGED <<sock, fd, input, sent, loop>>

\* What comes after maybe_another_line: the rest of a truncated line is skipped.
TakeRead(r, copy) ==
    LET o == r[1]
        m == r[2] IN
    CASE o.status = "NORMAL" -> Answer(o.data, m, copy)
      [] o.status = "OVERRUN" -> NoAnswer(m, {"overrun"})
      [] o.status = "ERROR" -> NoAnswer(m, {"failed"})
      [] o.status = "AGAIN" /\ "SINGLE_READ" \in m.flags -> NoAnswer(m, {})
      [] o.status = "AGAIN" /\ "SINGLE_READ" \notin m.flags ->
            /\ l' = m /\ UNCHANGED <<call, out, history>>

\* The first line found while ZRL_IGNORE_TILL_EOL is set goes unseen.
Skipped(r) ==
    IF r[1].status = "NORMAL" /\ "IGNORE" \in r[2].flags
    THEN z_stream_line_get_from_buf([r[2] EXCEPT !.flags = @ \ {"IGNORE"}])
    ELSE r

\* The loop of z_stream_line_get_internal with room: one read of the child.
ReadMore ==
    LET m == IF Full(l) THEN Emptied(l) ELSE l
        room == m.bufsize - Len(m.buf) IN
    /\ call.op = "get"
    /\ Full(l) => "IGNORE" \in l.flags
    /\ \E o \in ReadOutcomes(room) :
          /\ z_stream_read(o)
          /\ CASE o.status = "AGAIN" -> NoAnswer(m, {})
               [] o.status = "ERROR" ->
                     NoAnswer([m EXCEPT !.flags = @ \cup {"ERROR"}], {"failed"})
               [] o.status = "EOF" /\ Len(m.buf) = m.pos -> NoAnswer(m, {"eof"})
               [] o.status = "EOF" /\ Len(m.buf) # m.pos ->
                     TakeRead(Skipped(z_stream_line_get_from_buf(
                                  [m EXCEPT !.flags = @ \cup {"EOF"}])), call.size)
               [] o.status = "NORMAL" ->
                     TakeRead(Skipped(z_stream_line_get_from_buf(
                                  [m EXCEPT !.buf = @ \o o.data])), call.size)
    /\ UNCHANGED <<input, sent, loop>>

-----------------------------------------------------------------------------
(* Raw access, and putting back. *)

\* z_stream_line_read_method: the buffer first, or one read of the child.
z_stream_line_read_method(n) ==
    IF Len(l.buf) > l.pos
    THEN LET k == Smaller(n, Len(l.buf) - l.pos) IN
         /\ Given(SubSeq(l.buf, l.pos + 1, l.pos + k))
         /\ l' = IF l.pos + k = Len(l.buf)
                 THEN [l EXCEPT !.buf = <<>>, !.pos = 0, !.oldpos = l.pos, !.avail = "unset"]
                 ELSE [l EXCEPT !.pos = @ + k, !.oldpos = l.pos, !.avail = "unset"]
         /\ UNCHANGED <<fd, sock>>
    ELSE \E o \in ReadOutcomes(n) :
            /\ z_stream_read(o)
            /\ l' = [l EXCEPT !.child_cond = {}]
            /\ IF o.status = "NORMAL" THEN Given(o.data) ELSE UNCHANGED out

z_stream_line_read(n) ==
    /\ Ready
    /\ z_stream_line_read_method(n)
    /\ history' = history \cup {"raw"}
    /\ UNCHANGED <<input, call, sent, loop>>

\* z_stream_read_chunk on a blocking stream: until n bytes are there, or the end.
ChunkBegins(n) ==
    /\ Ready
    /\ ~fd.nonblock
    /\ call' = [op |-> "chunk", size |-> n]
    /\ history' = history \cup {"raw"}
    /\ UNCHANGED <<sock, fd, input, l, out, sent, loop>>

z_stream_read_chunk ==
    /\ call.op = "chunk"
    /\ z_stream_line_read_method(call.size)
    /\ LET got == IF out' = out THEN 0 ELSE Len(out'.last) IN
       call' = IF got \in {0, call.size} THEN NoCall ELSE [call EXCEPT !.size = @ - got]
    /\ UNCHANGED <<input, sent, loop, history>>

\* (mutant) one byte too few is made free
Unget_short(data) ==
    LET n == Len(data) IN
    IF l.pos > n
    THEN [l EXCEPT !.buf = SubSeq(@, 1, l.pos - n) \o data \o SubSeq(@, l.pos + 1, Len(@)),
                   !.pos = @ - n]
    ELSE [l EXCEPT !.buf = data \o SubSeq(@, l.pos + 2, Len(@)), !.pos = 0]

\* z_stream_line_unget_packet_method with room for the data.
Unget(data) ==
    LET n == Len(data) IN
    IF l.pos > n
    THEN [l EXCEPT !.buf = SubSeq(@, 1, l.pos - n) \o data \o SubSeq(@, l.pos + 1, Len(@)),
                   !.pos = @ - n]
    ELSE [l EXCEPT !.buf = data \o SubSeq(@, l.pos + 1, Len(@)), !.pos = 0]

\* The application puts the last thing it was given back: it fails if it does
\* not fit, and nothing changes then.
z_stream_line_unget ==
    /\ Ready
    /\ out.last # <<>>
    /\ l.pos + (l.bufsize - Len(l.buf)) > Len(out.last)
    /\ l' = Unget(out.last)
    /\ out' = [out EXCEPT !.n = @ - 1, !.last = <<>>]
    /\ history' = history \cup {"ungot"}
    /\ UNCHANGED <<sock, fd, input, call, sent, loop>>

-----------------------------------------------------------------------------
(* Writing goes to the child. *)

\* z_stream_line_write_method, z_stream_line_write_pri_method.
z_stream_line_write(n) ==
    /\ Ready
    /\ input = <<>> /\ sent + n <= MaxSent
    /\ \E o \in z_stream_write(n) : sent' = sent + o.data
    /\ UNCHANGED <<sock, fd, input, l, call, out, loop, history>>

\* z_stream_write_chunk on a blocking stream.
WriteChunkBegins(n) ==
    /\ Ready
    /\ ~fd.nonblock
    /\ input = <<>> /\ sent + n <= MaxSent
    /\ call' = [op |-> "write", size |-> n]
    /\ UNCHANGED <<sock, fd, input, l, out, sent, loop, history>>

z_stream_write_chunk ==
    /\ call.op = "write"
    /\ \E o \in z_stream_write(call.size) :
          /\ sent' = sent + o.data
          /\ call' = IF o.status = "ERROR" \/ o.data = call.size THEN NoCall
                     ELSE [call EXCEPT !.size = @ - o.data]
    /\ UNCHANGED <<sock, fd, input, l, out, loop, history>>

-----------------------------------------------------------------------------
(* Flags, and the poll loop. *)

\* z_stream_line_ctrl_method: how lines are framed is settled before the first
\* byte is read.
z_stream_line_ctrl(f) ==
    /\ Ready
    /\ f \in Settable
    /\ out.n = 0 /\ l.buf = <<>> /\ history = {} /\ ~l.want_read
    /\ l' = [l EXCEPT !.flags = IF f \in @ THEN @ \ {f} ELSE @ \cup {f}]
    /\ UNCHANGED <<sock, fd, input, call, out, sent, loop, history>>

\* z_stream_set_cond on the line stream, which passes it on to its child.
z_stream_set_cond(r, w) ==
    /\ Ready
    /\ <<r, w>> # <<l.want_read, l.want_write>>
    /\ w => input = <<>>
    /\ l' = SetConds(l, r, w)
    /\ fd' = SetConds(fd, r, w)
    /\ UNCHANGED <<sock, input, call, out, sent, loop, history>>

\* z_stream_set_nonblock on the line stream goes down to the descriptor, and
\* z_stream_set_timeout gives a blocking one a timeout or takes it away.
SetMode(nonblock) ==
    /\ Ready
    /\ fd.nonblock # nonblock
    /\ \E timeout \in {-2, 1} :
          fd' = SetTimeout(z_stream_fd_ctrl_method(nonblock), IF nonblock THEN fd.timeout ELSE timeout)
    /\ UNCHANGED <<sock, input, l, call, out, sent, loop, history>>

\* z_stream_line_have_line, with its cached answer.
HaveLine(m) ==
    IF m.avail # "unset" THEN m.avail = "yes" ELSE Eols(m) # {}

Looked(m) == [m EXCEPT !.avail = IF HaveLine(m) THEN "yes" ELSE "no"]

\* Something the reader is to be called for.
Readable(m) ==
    \/ "IN" \in m.child_cond
    \/ IF "POLL_PARTIAL" \in m.flags THEN m.pos # Len(m.buf) ELSE HaveLine(m)

\* z_stream_line_watch_prepare: the reader is called now, and is in the
\* application again, or the child is polled.
z_stream_line_watch_prepare ==
    LET looks == l.want_read /\ "POLL_PARTIAL" \notin l.flags
        ready == l.want_read /\ Readable(l) IN
    /\ Ready
    /\ l' = IF looks THEN Looked(l) ELSE l
    /\ fd' = SetConds(fd, l.want_read /\ ~ready, l.want_write)
    /\ loop' = IF ready THEN "app" ELSE "sleeping"
    /\ UNCHANGED <<sock, input, call, out, sent, history>>

\* poll() returns and the callbacks of the child run: z_stream_line_read_callback
\* notes the condition, z_stream_line_write_callback calls the application.
FdDispatch ==
    /\ loop = "sleeping"
    /\ \E revents \in SUBSET Events :
          /\ FdReady(revents)
          /\ l' = [l EXCEPT !.child_cond = IF "read" \in FdCalls(revents)
                                          THEN @ \cup {"IN"} ELSE @]
    /\ loop' = "app"
    /\ UNCHANGED <<sock, fd, input, call, out, sent, history>>

LineNext ==
    \/ \E copy \in {0} \cup CopySizes : z_stream_line_get(copy)
    \/ BufferFull \/ ReadMore
    \/ \E n \in CopySizes : z_stream_line_read(n) \/ ChunkBegins(n)
    \/ z_stream_read_chunk
    \/ z_stream_line_unget
    \/ \E n \in 1 .. MaxSent : z_stream_line_write(n) \/ WriteChunkBegins(n)
    \/ z_stream_write_chunk
    \/ \E f \in Settable : z_stream_line_ctrl(f)
    \/ \E r, w \in BOOLEAN : z_stream_set_cond(r, w)
    \/ \E nonblock \in BOOLEAN : SetMode(nonblock)
    \/ z_stream_line_watch_prepare \/ FdDispatch

LineSpec == LineInit /\ [][LineNext]_linevars

-----------------------------------------------------------------------------
(* Properties. *)

\* The k-th line of the input as the flags frame it: up to its end-of-line or
\* the end, without the end-of-line, and cut to the buffer if truncated.
LineEnds == {i \in DOMAIN input : input[i] = EolByte}
             \cup (IF input = <<>> THEN {} ELSE {Len(input)})
LineCount == Cardinality(LineEnds)
EndOf(k) == CHOOSE e \in LineEnds : Cardinality({i \in LineEnds : i <= e}) = k
Segment(k) == SubSeq(input, IF k = 1 THEN 1 ELSE EndOf(k - 1) + 1, EndOf(k))
Stripped(s) ==
    IF "RETURN_EOL" \in l.flags \/ Last(s) # EolByte THEN s
    ELSE IF l.flags \cap {"EOL_NL", "EOL_NUL", "EOL_CRLF"} = {} THEN s
    ELSE IF l.flags \cap {"EOL_NL", "EOL_NUL"} = {} /\ Len(s) > 1 /\ s[Len(s) - 1] = "CR"
    THEN SubSeq(s, 1, Len(s) - 2) ELSE Front(s)
InputLine(k) ==
    LET s == Segment(k) IN
    IF Len(s) > l.bufsize THEN SubSeq(s, 1, l.bufsize) ELSE Stripped(s)

\* However the input is cut into reads, the application gets the lines of the
\* input, in order and none twice (streamline.c, z_stream_line_get_internal):
\* as long as it only asks for lines, no call has failed, and a truncated line
\* has its end.
LinesOfInput ==
    (/\ history \cap {"raw", "ungot", "failed", "overrun"} = {}
     /\ "SPLIT" \notin l.flags
     /\ "TRUNCATE" \in l.flags => (input = <<>> \/ Last(input) = EolByte))
    => (out.n > 0 => out.n <= LineCount /\ out.last = InputLine(out.n))

\* With ZRL_RETURN_EOL every byte of the input is in one place: given to the
\* application, in the buffer, put back, or not read yet; lines, parts of lines,
\* raw reads, chunks and ungets may alternate.
EveryByteOnce ==
    ("RETURN_EOL" \in l.flags /\ "TRUNCATE" \notin l.flags
     /\ history \cap {"failed", "overrun"} = {})
    => out.before \o out.last \o SubSeq(l.buf, l.pos + 1, Len(l.buf)) \o Unread = input

\* The poll loop does not sleep while the buffer holds what the reader waits
\* for, unless the application has put something back (z_stream_line_have_line
\* caches its answer).
NoSleepOnLine ==
    (loop = "sleeping" /\ l.want_read /\ "ungot" \notin history) =>
        /\ Eols(l) = {}
        /\ "POLL_PARTIAL" \in l.flags => l.pos = Len(l.buf)

\* What the application gets is the input: its lines as long as it only asks for
\* lines, and its bytes, each of them once, through any mix of calls
\* (z_stream_line_get_internal, z_stream_line_read_method, the unget method).
InputDelivered == LinesOfInput /\ EveryByteOnce
=============================================================================
