------------------------------ MODULE StreamGzip ------------------------------
(***************************************************************************)
(* Two compressed streams (src/src/streamgzip.c) at the ends of a connection: *)
(* one compresses what its application writes, the other one gives back what  *)
(* it reads.                                                                  *)
(*                                                                           *)
(* zlib is external: it takes bytes and gives tokens, in order, and keeps     *)
(* some of them as long as it likes; compressed or not, a byte is its number. *)
(* A gzip header, the end of the compressed data and the trailer are a token  *)
(* each.                                                                      *)
(***************************************************************************)
EXTENDS Integers, Sequences, SequencesExt

CONSTANTS
    MaxData,        \* bound: bytes written
    buffer_length,  \* tokens in the buffers of a stream
    MaxHeld,        \* bound: tokens zlib keeps
    MaxCount,       \* bound: bytes of one read or write
    ShortWrites     \* the child may take a part of what it is given

ASSUME GzipAssumption ==
    /\ MaxData \in Nat /\ MaxHeld \in Nat
    /\ buffer_length \in Nat \ {0} /\ MaxCount \in Nat \ {0}
    /\ ShortWrites \in BOOLEAN

VARIABLES
    flags,   \* flags of both streams, and whether the child of the writer blocks
    w,       \* the writing ZStreamGzip
    wcall,   \* the call the writing application is in
    taken,   \* bytes the writing stream has accepted
    link,    \* what is on its way
    hung,    \* the writer has closed its side
    r,       \* the reading ZStreamGzip
    got,     \* what the reading application has been given
    rloop    \* the reading application: "app", "poll" or "done"

gzipvars == <<flags, w, wcall, taken, link, hung, r, got, rloop>>
writervars == <<w, wcall, taken>>
readervars == <<r, got, rloop>>

NoWrite == [op |-> "none", left |-> 0, n |-> 0]

\* z_stream_gzip_set_child: the assertion on the child.
SetChild(f) == f.header => ~f.nonblock

\* z_stream_gzip_new, for each side the fields it uses.
GzipInit ==
    /\ flags \in [header : BOOLEAN, empty : BOOLEAN, sync : BOOLEAN, nonblock : BOOLEAN]
    /\ flags.empty => flags.header
    /\ SetChild(flags)
    /\ w = [held |-> <<>>, out |-> <<>>, out_p |-> 0, state |-> {}, shutdown |-> FALSE,
            child_out |-> FALSE, status |-> "open"]
    /\ wcall = NoWrite /\ taken = 0
    /\ link = <<>> /\ hung = FALSE
    /\ r = [avail_in |-> <<>>, held |-> <<>>, state |-> {}, child_in |-> FALSE]
    /\ got = <<>> /\ rloop = "app"

HDR == -1
END == -2
TRL == -3

AtMost(a, b) == IF a < b THEN a ELSE b
Numbers(from, to) == [i \in 1 .. to - from + 1 |-> from + i - 1]
Upto(s, n) == SubSeq(s, 1, n)
From(s, n) == SubSeq(s, n + 1, Len(s))

-----------------------------------------------------------------------------
(* Writing. *)

\* z_stream_write on the child, of n tokens: how many are taken (-1: AGAIN).
ChildWrites(n, nonblock) ==
    (IF ShortWrites THEN 1 .. n ELSE {n}) \cup {n : x \in IF n = 0 THEN {0} ELSE {}}
    \cup (IF nonblock THEN {-1} ELSE {})

\* deflate: takes some input and puts out some of what it keeps, until there is
\* no more input or no more room; with Z_SYNC_FLUSH nothing is kept back.
Deflations(held, input, room, sync) ==
    LET all(c) == held \o Upto(input, c) IN
    {[held |-> From(all(x[1]), x[2]), out |-> Upto(all(x[1]), x[2]), used |-> x[1]] :
        x \in {y \in (0 .. Len(input)) \X (0 .. room) :
            LET n == Len(held) + y[1] IN
            /\ y[2] <= n /\ n - y[2] <= MaxHeld
            /\ y[1] = Len(input) \/ y[2] = room
            /\ sync => y[2] = AtMost(n, room)}}

\* z_stream_gzip_write_gzip_header: what it writes, once, and the state after it.
z_stream_gzip_write_gzip_header(state) ==
    IF flags.header /\ "HEADER_WRITTEN" \notin state
    THEN [sent |-> <<HDR>>, state |-> state \cup {"HEADER_WRITTEN"}]
    ELSE [sent |-> <<>>, state |-> state]

\* z_stream_gzip_write_gzip_trailer: what it writes.
z_stream_gzip_write_gzip_trailer(state) ==
    IF flags.header /\ "HEADER_WRITTEN" \in state THEN <<TRL>> ELSE <<>>

\* The application writes n bytes: z_stream_gzip_write_method down to the loop.
\* The header goes in one piece, what is left in the buffer goes first.
WriteBegins(n) ==
    /\ wcall.op = "none" /\ w.status = "open"
    /\ taken + n <= MaxData
    /\ LET pending == From(w.out, w.out_p)
           header == z_stream_gzip_write_gzip_header(w.state)
           state == header.state
           before == header.sent
       IN  IF Len(w.out) = 0
           THEN /\ w' = [w EXCEPT !.state = state, !.child_out = FALSE]
                /\ link' = link \o before
                /\ wcall' = [op |-> "write", left |-> n, n |-> n]
           ELSE \E k \in ChildWrites(Len(pending), flags.nonblock) :
                   /\ link' = link \o before \o (IF k = -1 THEN <<>> ELSE Upto(pending, k))
                   /\ IF k = Len(pending)
                      THEN /\ w' = [w EXCEPT !.state = state, !.child_out = FALSE,
                                             !.out = <<>>, !.out_p = 0]
                           /\ wcall' = [op |-> "write", left |-> n, n |-> n]
                      ELSE /\ w' = [w EXCEPT !.state = state, !.child_out = FALSE,
                                             !.out_p = IF k = -1 THEN @ ELSE @ + k]
                           /\ UNCHANGED wcall
    /\ UNCHANGED <<flags, taken, hung, readervars>>

\* (mutant) the loop goes on from where the buffer was before
Rest_kept(out, p, k) == [out |-> out, out_p |-> 0]

\* The buffer after k tokens of it went.
Rest(out, p, k) ==
    IF p + k = Len(out) THEN [out |-> <<>>, out_p |-> 0] ELSE [out |-> out, out_p |-> p + k]

\* One round of the loop of z_stream_gzip_write_method: the child is given the
\* buffer from its beginning.
WriteLoop ==
    /\ wcall.op = "write"
    /\ wcall.left > 0
    /\ \E d \in Deflations(w.held, Numbers(taken + 1, taken + wcall.left),
                           buffer_length - Len(w.out), flags.sync) :
          LET out == w.out \o d.out
              left == wcall.left - d.used
          IN  /\ taken' = taken + d.used
              /\ \E k \in ChildWrites(Len(out), flags.nonblock) :
                    /\ link' = link \o (IF k = -1 THEN <<>> ELSE Upto(out, k))
                    /\ LET rest == IF k = -1 THEN [out |-> out, out_p |-> w.out_p]
                                   ELSE Rest(out, w.out_p, k) IN
                       w' = [w EXCEPT !.held = d.held, !.out = rest.out, !.out_p = rest.out_p]
                    /\ wcall' = IF left = 0 \/ k = -1 THEN NoWrite ELSE [wcall EXCEPT !.left = left]
    /\ UNCHANGED <<flags, hung, readervars>>

\* z_stream_gzip_write_callback, when the poll loop finds the child writable:
\* the buffer is not reset here.
z_stream_gzip_write_callback ==
    /\ wcall.op = "none" /\ w.status = "open"
    /\ w.out # <<>> /\ ~w.child_out
    /\ LET pending == From(w.out, w.out_p) IN
       \E k \in ChildWrites(Len(pending), flags.nonblock) \ {-1} :
          /\ link' = link \o Upto(pending, k)
          /\ w' = [w EXCEPT !.out_p = @ + k, !.child_out = (k = Len(pending))]
    /\ UNCHANGED <<flags, wcall, taken, hung, readervars>>

\* The child fails: the stream keeps the error, and is closed.
WriteError ==
    /\ w.status = "open"
    /\ w' = [w EXCEPT !.state = @ \cup {"WRITE_ERROR"}, !.status = "failed", !.shutdown = TRUE]
    /\ wcall' = NoWrite
    /\ hung' = TRUE
    /\ UNCHANGED <<flags, taken, link, readervars>>

\* (mutant) deflate is not told to finish
z_stream_gzip_shutdown_method_unfinished(how) ==
    /\ wcall.op = "none" /\ w.status = "open"
    /\ link' = link \o From(w.out, w.out_p)
    /\ w' = [w EXCEPT !.held = <<>>, !.out = <<>>, !.out_p = 0, !.shutdown = TRUE,
                      !.status = "closed"]
    /\ hung' = TRUE
    /\ UNCHANGED <<flags, wcall, taken, readervars>>

\* What z_stream_gzip_shutdown_method writes: what is in the buffer, then what
\* one deflate with Z_FINISH gives, a header if there was none and it is asked
\* for, and the trailer, unless only the write side is shut down (res is still
\* G_IO_STATUS_ERROR then).
z_stream_gzip_shutdown_method(how) ==
    LET last == Append(w.held, END)
        fits == Len(last) <= buffer_length
        header == IF flags.empty THEN z_stream_gzip_write_gzip_header(w.state)
                  ELSE [sent |-> <<>>, state |-> w.state]
        trailer == IF how = "RDWR" THEN z_stream_gzip_write_gzip_trailer(header.state) ELSE <<>>
    IN  /\ wcall.op = "none" /\ w.status = "open"
        /\ link' = link \o From(w.out, w.out_p) \o Upto(last, AtMost(Len(last), buffer_length))
                        \o (IF fits THEN header.sent \o trailer ELSE <<>>)
        /\ w' = [w EXCEPT !.held = <<>>, !.out = <<>>, !.out_p = 0, !.shutdown = TRUE,
                          !.status = "closed"]
        /\ hung' = TRUE
        /\ UNCHANGED <<flags, wcall, taken, readervars>>

\* z_stream_gzip_close_method.
z_stream_gzip_close_method == z_stream_gzip_shutdown_method("RDWR")

-----------------------------------------------------------------------------
(* Reading. *)

\* z_stream_read on the child: tokens, or the end.
ChildReads(n) ==
    {Upto(link, k) : k \in 1 .. AtMost(n, Len(link))}

\* inflate: until there is no input or no room for output, or the end is there.
Inflations(held, in, count) ==
    LET all(c) == held \o Upto(in, c)
        n(c) == AtMost(count, Len(all(c))) IN
    {[held |-> From(all(c), n(c)), out |-> Upto(all(c), n(c)), in |-> From(in, c)] :
        c \in {k \in 0 .. Len(in) :
            /\ END \notin ToSet(Upto(in, k))
            /\ \/ k = Len(in)
               \/ in[k + 1] = END
               \/ Len(all(k)) >= count}}

\* The answer of inflate to the reader: at the end of the data once all is put
\* out, and an error if it cannot go on.
Inflated(d, state) ==
    LET ended == d.held = <<>> /\ d.in # <<>> /\ Head(d.in) = END
        stuck == d.out = <<>> /\ d.in = r.avail_in /\ ~ended /\ "EOF_RECEIVED" \in state
    IN  /\ r' = [avail_in |-> IF ended THEN Tail(d.in) ELSE d.in, held |-> d.held,
                 state |-> state \cup (IF ended THEN {"COMPRESS_FINISHED"} ELSE {})
                                 \cup (IF stuck THEN {"READ_ERROR"} ELSE {}),
                 child_in |-> FALSE]
        /\ got' = got \o d.out
        /\ rloop' = IF stuck THEN "done" ELSE "app"

\* z_stream_gzip_read_gzip_header reads chunks: it waits for the header.
z_stream_gzip_read_gzip_header ==
    /\ rloop = "app"
    /\ flags.header /\ "HEADER_READ" \notin r.state
    /\ IF link # <<>> /\ Head(link) = HDR
       THEN /\ r' = [r EXCEPT !.state = @ \cup {"HEADER_READ"}]
            /\ link' = Tail(link)
            /\ UNCHANGED rloop
       ELSE /\ link # <<>> \/ hung
            /\ r' = [r EXCEPT !.state = @ \cup {"HEADER_READ", "READ_ERROR"}]
            /\ rloop' = "done"
            /\ UNCHANGED link
    /\ UNCHANGED <<flags, writervars, hung, got>>

\* z_stream_gzip_read_method after the header.
z_stream_gzip_read_method(count) ==
    /\ rloop = "app"
    /\ flags.header => "HEADER_READ" \in r.state
    /\ "COMPRESS_FINISHED" \notin r.state
    /\ IF r.avail_in # <<>> \/ "EOF_RECEIVED" \in r.state
       THEN /\ \E d \in Inflations(r.held, r.avail_in, count) : Inflated(d, r.state)
            /\ UNCHANGED link
       ELSE \/ \E s \in ChildReads(buffer_length) :
                  /\ link' = From(link, Len(s))
                  /\ \E d \in Inflations(r.held, s, count) : Inflated(d, r.state)
            \/ /\ link = <<>> /\ hung
               /\ \E d \in Inflations(r.held, <<>>, count) :
                     Inflated(d, r.state \cup {"EOF_RECEIVED"})
               /\ UNCHANGED link
    /\ UNCHANGED <<flags, writervars, hung>>

\* z_stream_gzip_read_method once inflate has found the end.
ReadsEof ==
    /\ rloop = "app"
    /\ "COMPRESS_FINISHED" \in r.state
    /\ rloop' = "done"
    /\ UNCHANGED <<flags, writervars, link, hung, r, got>>

\* z_stream_gzip_watch_check and _dispatch: the reader is called.
z_stream_gzip_watch_check == r.avail_in # <<>> \/ r.child_in

\* z_stream_gzip_watch_prepare: with no input left, the reader sleeps until the
\* child is readable; what zlib keeps is not looked at.
z_stream_gzip_watch_prepare ==
    /\ rloop = "app"
    /\ "COMPRESS_FINISHED" \notin r.state
    /\ ~z_stream_gzip_watch_check
    /\ rloop' = "poll"
    /\ UNCHANGED <<flags, writervars, link, hung, r, got>>

\* z_stream_gzip_read_callback, and the reader is called.
z_stream_gzip_read_callback ==
    /\ rloop = "poll"
    /\ link # <<>> \/ hung
    /\ r' = [r EXCEPT !.child_in = TRUE]
    /\ rloop' = "app"
    /\ UNCHANGED <<flags, writervars, link, hung, got>>

Reads ==
    \/ z_stream_gzip_read_gzip_header
    \/ \E n \in 1 .. MaxCount : z_stream_gzip_read_method(n)
    \/ ReadsEof

GzipNext ==
    \/ \E n \in 1 .. MaxCount : WriteBegins(n)
    \/ WriteLoop
    \/ z_stream_gzip_write_callback
    \/ WriteError
    \/ z_stream_gzip_shutdown_method("WR") \/ z_stream_gzip_close_method
    \/ Reads \/ z_stream_gzip_watch_prepare \/ z_stream_gzip_read_callback

\* The reader reads until it is told that it is over, and a child that has
\* something or is closed becomes readable.  Nothing makes the writer write.
GzipSpec ==
    /\ GzipInit /\ [][GzipNext]_gzipvars
    /\ WF_gzipvars(Reads) /\ WF_gzipvars(z_stream_gzip_read_callback)

-----------------------------------------------------------------------------
(* Properties. *)

Numbered(s) == \A i \in DOMAIN s : s[i] = i

\* The two streams are transparent: the reader gets what was written, in order
\* and nothing twice, through short reads, AGAIN from the child, flushes by the
\* poll loop and bytes that zlib keeps; it is told the end only after the last
\* byte.
Transparent ==
    /\ Numbered(got) /\ Len(got) <= taken
    /\ "COMPRESS_FINISHED" \in r.state => Len(got) = taken

\* After a shutdown, the reader gets all that was accepted, and its end.
Delivered ==
    (w.status = "closed" /\ taken > 0) ~> (Len(got) = taken /\ "COMPRESS_FINISHED" \in r.state)
=============================================================================
