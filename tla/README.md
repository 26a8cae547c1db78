# libzorpll: TLA+ models, checks and proofs

libzorpll is the low-level library of the Zorp proxy firewall: blobs with memory and disk
quotas, threads, poll loops, stacked streams, connectors and listeners, process start-up and
supervision, logging, SSL sessions, codecs, addresses. This directory models the parts whose
correctness depends on the order in which threads, processes, events and partial results
come, checks them with TLC on small instances, and proves the central safety properties of
all these parts but the codecs (blobs, threads, processes, the poll loop with its connectors
and listeners, the stream stack, the buffered, the line and the compressed stream, logging,
SSL) with TLAPS for every instance.

Definitions keep the names of the C code where TLA+ allows it; `PROJECT.json` ("map") gives
the lines behind every definition. Paths below are relative to `src/src/`.

## 1. The system: inventory

| Component | State it keeps | Operations | Interacts with | What is hard | What makes it correct |
|---|---|---|---|---|---|
| Blobs (`blob.c`) | quotas `mem_used`, `disk_used`; list of blobs; request queue and waiting list; per blob: data or file, sizes, lock, references | new, ref, unref, truncate, add_copy, get_copy, get_ptr, get_file, read_from_stream, storage_lock; the management thread; destruction | client threads, a management thread, streams, files | two locks, sleeping requests, swapping while files and pointers are lent, destruction | quotas kept and counters exact; no request lost; no move under a lent file, pointer or storage lock |
| Threads (`thread.c`) | `num_threads`, job queue and its reference count | `z_thread_new`, the thread loop, `z_thread_destroy` | start/stop callbacks of other modules | a creation fails after it was counted; a thread leaves while a job arrives | limit kept, each job run once, none stranded |
| Process start and supervision (`process.c`) | options, identity, three processes, two pipes, pid file, table of restart times | start, detach, change of root, user and capabilities, supervise, startup_ok/failed, finish | signals, `fork`, notification program, the kernel | one privileged call of several fails; lost results, hangs, restarts, kills | the daemon runs as it was asked to, one at a time; truthful start-up result; bounded restarts |
| Connector (`connect.c`), listener (`listen.c`), socket source (`socketsource.c`) | descriptor, callback, watch, suspension, references | start, cancel, suspend, resume, the callbacks | poll loop, application threads | cancel, suspend and the last unref against the callback; timeout against success | callbacks only while wanted; a descriptor has one owner; everything pending is answered |
| Poll loop and event sources (`poll.c`, `source.c`) | wakeup pipe, quit flag, references, sources | iterate, wakeup, quit, unref | sources, threads | a wakeup between the test and the sleep | no lost wakeup |
| Buffered stream (`streambuf.c`) | packets, position, size, stored error | write, write_packet, flush, shutdown, poll source | child stream, several threads | bursts, partial writes, errors, sleeping loop | order and completeness of the bytes, errors reported |
| Stream stack (`stream.c`) | child and parent links, two reference counts, sources, callbacks, saved contexts | push, pop, attach, detach, close, save and restore, set_callback | every stream, the poll thread | circles of references, detaching against a callback | nothing used after its end, everything freed, user data released once |
| Descriptor stream (`streamfd.c`), line stream (`streamline.c`) | packets put back, mode and timeout; line buffer, position, flags, cached look-ahead | get, get_copy, read, chunks, unget, polling | the kernel, the application | partial lines, truncation, end of file, a stale cache | the lines and bytes are those of the input; no sleep on a line that is there |
| Compressed stream (`streamgzip.c`) | two zlib states, two buffers, header fields | read, write, flush from the loop, shutdown | zlib, child stream | output that zlib keeps, AGAIN, the end | the bytes arrive in order and completely |
| SSL (`ssl.c`, `streamssl.c`) | sessions, CA list cache, verification state; `what_if_called` | create sessions, verify, read, write, shutdown | OpenSSL, files, child stream | verdict made of several calls, changing directories, crossed conditions | only trusted peers, current CA lists, no retry forgotten |
| Logging (`log.c`) | log spec, tag caches, syslog connection, stderr pipe | enabled?, change level or spec, send, reopen, redirect, destroy | every component, syslogd | caches filled during a change, reconnects by several threads, teardown | the answer is the one in force; one connection; the reader ends |
| Codecs (`code*.c`) | result buffer with a partial byte behind it | transform, get_result, unget_result, flush, finish | zlib, OpenSSL | chunk boundaries | decode inverts encode for any chunking |
| Packet buffer, tee and blob streams, addresses, socket wrappers, registry, objects, URL parser, tracing, capabilities, crypt, random | little or none | conversions, copies and wrappers | OS | | |

The tests of the repository are single-threaded and short (`tests/test_blob.c`,
`test_streams.c`, `test_readline.c`, `test_base64.c` ...): none of them reaches an
interleaving, a failed creation, a crash or a quota at its limit with several holders.

## 2. Modules

| Module | Models | Code |
|---|---|---|
| `BlobSystem`, `BlobSystemProofs` | blobs, their system, the management thread, clients | `blob.c` |
| `JobPool` | abstract specification: jobs are accepted, started when a slot is free, done once | |
| `ThreadPool`; theorems in `BaseProofs` | threads, queue and reference count; implements `JobPool` | `thread.c` |
| `Daemonize` | from the command line to a detached process with its identity | `process.c` |
| `Supervisor` | startup process, supervisor, daemon in safe-background mode | `process.c` |
| `Process`, `ProcessProofs` | the two composed: a daemon is supervised once it has come up | `process.c` |
| `Connector`, `Listener` | one connector and one listener on their socket sources, with application threads | `connect.c`, `listen.c`, `socketsource.c` |
| `EventLoop`, `EventLoopProofs` | both in one poll loop, with wakeup and quit | `poll.c` |
| `StreamBuf` | the write buffer of a stream stack | `streambuf.c` |
| `StreamStack`, `StreamStackProofs` | references, sources, callbacks and contexts of a stack | `stream.c`, `zorp/stream.h`, `zorp/zobject.h` |
| `StreamFd`, `StreamLine` | a line stream on a descriptor stream | `streamfd.c`, `streamline.c`, `stream.c` |
| `StreamGzip` | a compressing and a decompressing stream on a connection | `streamgzip.c` |
| `StreamProofs` | theorems about the three streams that keep bytes back: `StreamBuf`, `StreamLine`, `StreamGzip` | |
| `Codec`, `CodecProofs` | the base64 coders with the result buffer | `code.c`, `code_base64.c` |
| `LogSpec`, `Syslog`, `StderrLog`, `Log` | decision, connection, redirection; `Log` runs them; theorems in `BaseProofs` | `log.c` |
| `SslVerify`, `SslSession`, `StreamSsl`, `Ssl` | verification, sessions and CA cache, the stream; `Ssl` runs them; `SslProofs` | `ssl.c`, `streamssl.c` |
| `MC...` | instances for TLC | |

Every module names its state after the fields of the C structures. An action is the code
between two synchronisation points. Definitions marked `(mutant)` stand in front of the
definition they spoil; they show that a property would notice the mistake and belong to no
specification.

### BlobSystem

`cli[c]` is where a client thread is inside a call, `mgr` where the management thread is,
`sysd` how far `z_blob_system_unref` has come. A call such as `z_blob_add_copy` takes the
lock of the blob, enters `z_blob_alloc` (`EnterAlloc`), checks the quota under `mtx_blobsys`
(`AllocCheck`), pushes a request when it did not fit (`AllocPush`), sleeps until it is
answered (`AllocWoken`), resizes (`AllocFinish`) and does its work (`CallBody`). What is done
under `mtx_blobsys` in one stretch is one step, except the two loops of the management
thread, which take a step per iteration with the mutex held (`SysLocked`). Content is
abstracted to sizes. `WORD` is the width at which the unsigned quotas wrap (`Gsize`);
`AppWritesFile` is the application that changes a file it was lent (external).

### ThreadPool and JobPool

`thr[j]` is the thread created for job `j`: it is counted first (`CountThread`), created or
not afterwards (`ThreadStarts`, `CreateFails`), runs its job, and takes further jobs from the
queue until it leaves. `JobPool` has only the sets of submitted, running and finished jobs;
`ThreadPool!ImplementsPool` is the refinement.

### Daemonize, Supervisor and Process

`Daemonize` follows the process that goes on to do the work through `z_process_start`: every
system call may fail, and a failure is fatal, told, or tolerated where the code does not run as
root (`Tolerated`). Names are resolved in the tree the process sees, so that a user known
outside may be unknown inside the chroot. `proc` is the identity of the process; `told` in it
is what has been written to stderr or the log.

The supervisors `"first"` and `"second"` share the code; the second exists only after
`execlp` of the notification program failed (`DecideTwice`). Times are ages in seconds up to
one more than the restart interval. The restart count is taken when a daemon is forked, as
in the code, and compared after its end. Reading past the table after the oversized
`memmove` is a choice over all ages. Assumed: `SIGKILL` ends a daemon within the second the
supervisor sleeps. The period of the check function and the notification interval are
abstracted: a check may fail in any second.

### EventLoop, Connector and Listener

GLib is external, used as documented: a source holds a reference on its callback data and
takes another one during a dispatch; the destroy notification comes with the last;
`g_main_context_check` collects the ready sources and `g_main_context_dispatch` skips those
destroyed meanwhile; `g_main_context_wakeup` writes to a pipe that the next poll sees. The
test of `callback` and the hand-over of `fd` in the connector happen without the lock, as in
the code. `self->watch` of a listener is read without a lock too, so its operations are kept
to one owner thread, which may be the poll thread itself. A loop serves
one connector and one listener, which may be started again.

### StreamBuf

Bytes are numbered as they are accepted; `wire` is what the child has taken, so order,
loss and duplication are visible. The poll loop decides to watch the child
(`LoopPrepare`) before it sleeps. `Burst` is the constant 10 of the code.

### StreamStack

Stream `i + 1` is stacked on stream `i`. `ref` is the reference count of the object, `sref`
`struct_ref`; `linked` are the streams that are some stream's parent. Attaching walks down
and comes back up, closing and detaching walk down, the poll thread grabs the streams up to
the top before it calls back (`z_stream_source_grab_ref`). One callback slot stands for the
three of a stream; a piece of user data has to be released once, by a new callback, by
`z_stream_drop_callbacks` or by the end of a saved context.

### StreamFd and StreamLine

The socket gives its bytes in pieces of any size, nothing, an error or the end. `l.buf` is the
used part of the line buffer, `pos` and `oldpos` count as in the code, `avail` is the cached
answer of `z_stream_line_have_line`. A get that finds no line goes on with `ReadMore` and
`BufferFull`, one step per call of the child, so that data put back, truncation and skipping
meet every cut of the input. Lines are compared with a definition on the whole input
(`InputLine`). A byte is `"a"`, `"CR"`, `"LF"` or `"NUL"`.

### Codec

Bytes are integers and the bit operations arithmetic; `BitOr` is written out, because nothing can be
proved about the recursive operators of `Bitwise`. `BitsAssumption` in `MCCodec` compares them for all bytes. `c.part` is the byte behind the result.
The application feeds pieces, takes pieces, puts back or drops results, and inserts white
space or other characters between the encoder and the decoder (`Insert`). `torn` records an
operation after which the partial byte is lost.

### StreamGzip

zlib takes bytes and gives tokens, in order, and may keep some of them; header, end and
trailer are tokens. The writing child takes everything or nothing (`ShortWrites = FALSE`), the
connection gives any prefix.

### Log and Ssl

The parts of each share no state that changes; a behaviour of `Log` or `Ssl` picks one part
and exercises it, so that one run covers all of them. `LogSpec`: tags and patterns are
sequences of words, a call of `z_log_enabled_len` is cut at every lock and at every access
to a shared table. `Syslog`: descriptors are what the kernel gives, the lowest free one.
`SslVerify`: a chain is a sequence of certificates with OpenSSL's verdict, the CRL its
subject has published, and whether its issuer lists it. `SslSession`: a change of the directory is a
new modification time. `StreamSsl`: OpenSSL does its work, asks for a direction that
the child does not offer, or fails.

## 3. Runs

Each property has a mutant that violates it. No run expects a violation; what the code
promises and does not keep is in section 5.

| Run | Instance | Shows |
|---|---|---|
| `blob_core` | 2 clients, 2 blobs, memory 2, disk 2 | memory quota, exact counters, each request in one place, no use after free, and no move of a blob that is mapped, lent or locked |
| `blob_live` | 2 clients, 2 blobs; writes, reads, lent files, destruction; fair | deferred requests are served when the others have gone, destruction ends |
| `thread_pool` | 4 jobs, 2 threads, failing creations, fair | counters exact, queue outlives its threads, jobs kept once, implements `JobPool`, jobs served if no creation fails |
| `supervisor` | three modes, three users, every call failing; `restart_max` 2, a table of 3; fair | the daemon runs as asked and is reported truthfully; one daemon per supervisor, named by the pid file; restart limit; recovery; the startup process ends |
| `net` | a loop, a connector, a listener, 2 application threads, fair | sockets settled, objects live, callbacks only while wanted, connections answered and accepted, quit ends |
| `buf_order` | a writer, the loop, bursts of 2, errors and shutdown, fair | order, error propagation, draining |
| `stream_life` | 3 streams, 2 pieces of user data, fair | references and user data sound, callbacks on whole stacks, everything freed |
| `lines` | inputs of 3 bytes and one of 7, a buffer of 3, all framings | the application gets the input, and does not sleep on a line |
| `codec` | texts of 0, 1, 2, 3 and 5 bytes, pieces of 2, lines of 1 and 2 | decoding inverts encoding |
| `gzip` | 4 bytes, a buffer of 3, zlib keeps 2, fair | transparent, and complete after a shutdown |
| `log` | 2 threads, 1 administrator, 2 changes; 3 senders; 2 lines of stderr; fair | current answers, one connection, the reader ends |
| `ssl` | chains of 2, all modes and depths; 2 creators, 2 files; half-duplex stream | only trusted peers, current CA lists, every retry woken |

### Bounds

Two clients and two blobs are enough for every pair of calls to meet, for a request to be
deferred by another blob, and for a swap of one blob during a call on the other; writes of 2
with a quota of 2 fit at once, wait, or go to disk, and a truncation to 1 leaves a request
that is smaller than its allocation. `MaxQueue` stops new calls while messages are
queued, `MaxDrift` stops lending files once `disk_used` has drifted. Four jobs on two
threads give a queue of two behind a full pool. In `supervisor` the table has room for one
entry more than `restart_max`, so it is moved; `TwiceAge` and `SecondStarts` bound the
second supervisor. In `net` a burst is 2 accepts for at most one waiting connection and one
failing accept, and the listener starts at most twice (`MaxArrivals`, `MaxErrors`,
`MaxStarts`). `MaxBytes` and `MaxPackets` bound the buffer at more than one burst and more
than the threshold. In `lines` an input of 7 with a buffer of 3 makes a line overrun, be
truncated, skipped and followed by another; `MaxChunk` reads the buffer in one piece or in
several; writes are explored on the empty input only, which they cannot influence. In `codec`
five bytes cross all phases of a group of three and the lengths of lines include 0 (none).
In `gzip` the buffer is larger than what zlib keeps. In `log` two changes let a thread be
overtaken between evaluating and storing, three senders let a third one hold a descriptor
that the first two have replaced, and `MaxFd` leaves a free descriptor for each. Symmetry is used
for clients and blobs in `blob_core` only. Deadlock is not checked where the application may
simply make no further call.

### Fairness

Weak fairness of every thread inside a call (the scheduler), of the management thread and of
the destruction; a lent file or pointer is returned. In `thread_pool` creations end and job
functions return. In `supervisor` processes are scheduled, an initialisation ends, `SIGKILL`
works and the check function notices a hanging daemon; without such a check nothing in the
code notices one. In `net` the loop iterates, time passes (a started timeout expires), callbacks
return, and nothing is assumed of the network; the accept loop takes the lock in the end
although application threads contend for it (strong fairness); a connector whose timeout is -1 has no such promise. In `buf_order`
strong fairness says that poll reports a writable child in the end and that a child written
to again and again takes something. In `stream_life` a detach that has begun, the poll thread
and the last release go on. In `gzip` the reader reads what is there. In `log` the reader of
stderr and a destruction that has begun go on.

## 4. Proofs

A theorem holds for every value of the constants that satisfies the assumptions named in the
modules (`SizesAssumption`, `NamesAssumption`, `PoolAssumption`, `SupervisorAssumption`,
`ConnectorAssumption`, `LoopAssumption`, `BufAssumption`, `LineAssumption`, `ChunkAssumption`,
`GzipAssumption`, `StackAssumption`, `FdAssumption`, `LogSpecAssumption`, `CreatorsAssumption`,
`ChainAssumption`, `DuplexAssumption`), which TLC evaluates in every run. They type the constants and keep the special values apart. A theorem with a
hypothesis of its own excludes a case of section 5 in which the code does not keep the property,
and the run that checks the property excludes the same case.

All proofs have the same shape: an inductive invariant that says more than the property, a
lemma per action that the action keeps it, one lemma that combines them, and the theorem. The
modules are laid out in this order.

### BlobSystemProofs

| Theorem | States | Hypothesis |
|---|---|---|
| `TypeCorrect`, `MemoryQuota` | types; `MemWithinLimit` | |
| `BlobsOutlive` | `NoUseAfterFree` | `"shutdown"` not in `Ops` |
| `RequestsKept` | `RequestKeptOnce` | the same |
| `BlobsStay` | `StaysPut` | the same |
| `CountersExact` | `Accounting` | the same, `"file"` not in `Ops`, no initial size but 0 |

`MemWithinLimit` is not inductive: a grant is charged for the request in `alloc_req`
of the blob a thread works on, so `QuotaInv` adds the types and that a busy
thread has a blob (`BusyHasBlob`). `ChargeKeepsLimit` carries the
argument for all three places that grant; the swap-in compares with the same limit.

The other three need to know who may touch a blob. `UseInv` adds to `QuotaInv`: a thread inside a
call holds a reference, and `ref_cnt` is the number of holders (`RefsHeld`); a thread that
works on the data has the lock, or the only reference (`WorksAlone`), which is what lets
`z_blob_unref` and the first allocation go without a lock; and a request is in exactly one
of queue, hand and waiting list while its thread sleeps (`KeptApart`). `StaysPut` follows because
the management thread moves a blob only with its lock, and a lent pointer keeps that.

`CountersExact` is about sums over all blobs. `LedgerInv` adds to `UseInv` what makes a charge
and its release match: only the owner of the lock changes what its blob was granted
(`LockHeld`), a request keeps the size it was granted for (`RequestSizes`), and a thread that
wakes up has its verdict (`VerdictsGiven`). Almost every step then changes the share of one
blob, and one counter or both by as much (`Settles`); `SettlesKeeps` shows that such a step
keeps the sums. What the sum of a set does when one member changes is an induction over finite
sets. The library states that with an operator as parameter; here it is done by hand, as a
least counterexample under the strict subset ordering (`FS_StrictSubsetOrderingWellFounded`
and `WFMin`), which needs no such parameter.

### BaseProofs

Theorems about the thread pool and the logging.

`TypeCorrect`, `CountExact`, `LimitHolds`, `QueueSafe`, `KeptOnce` and
`Refinement`. The invariant `PoolInv` has two halves: `CountInv` (the counter is the
number of counted threads, at most `max_threads`, and the reference count of the queue
covers them) and `PlaceInv` (what a thread in each phase holds, and that no job is in two
places). Counting is by the cardinality theorems of the library; the refinement of `JobPool` needs
both halves: a job starts only when the abstract pool has a slot (`SlotFree`).

`ConnectionClosedOnce`: `SyslogInv` says who has the lock and what its holder knows of
`syslog_fd`; outside of it the descriptor in use is that one or none.

`AnswersSound`: in `LogSpecInv` every cache and every call under way is sound unless it has been
marked to be cleared, so that an answer computed from the old specification can not outlive the change. It needs
one administrator, and levels in the specification that fit into a byte (`LevelsFit`).

### ProcessProofs

`OneNamedDaemon` and `RestartsLimited` come from `SupInv`. For each supervisor it relates the place
in the loop to what is known of the daemon (`Supervised`): after `fork` and until the wait it
has at most this one, and gets rid of it before it forks again (`Fine`). For the limit
(`Limited`) the table of restart times is sorted as long as it has not been moved, so the count that
stops at the first old entry counts all recent ones, and it was compared with `restart_max` before the
fork. `Named` says whose number the pid file holds, `Truthful` that a success is one the first
daemon has reported.

`StartsSound` combines `Truthful` with `StartInv`, which follows `z_process_start`: `Progress` says for
each place which wishes have been carried out, and that a wish that failed was fatal or has been
told. This is where the order of root, groups, user and capabilities counts.

### EventLoopProofs

`SocketsSettled`, `ObjectsOutlive` and `CallbacksWanted` (an action property) from `LoopSound`, the
invariance of `LoopInv`. `ConnectorInv` and `ListenerInv` count: a reference count is the number
of those who hold one, which are the application, the source as long as its callback data lives,
a dispatch, and each call under way. They say who has the socket at each place of
each thread, and whether the callback may still be called. `Placed` says where
the loop and the other threads can be, `PollInv` that a thread about to wake the poll up has it alive. The
connector decides without a lock and the listener with one, so the calls under way are part of
the count in both.

### StreamStackProofs

`StreamsOutlive` and `CallbacksOnWholeStacks`, for stacks of any height, under `~BothDetach`. A
stream is freed by a chain of events (the last `struct_ref` unlinks child and parent, each loses a
reference, a source is destroyed, the next one down is freed), so the invariant says who counts on every
count: on `struct_ref` the parent, the source up to the end of its detaching, the poll thread, and the
application until it has closed the stream (`StructInv`); on the reference the application, child and
parent, the source, and the dispatch (`RefInv`). `BuildInv`, `WalkInv`,
`TurnInv` and `PollInv` say how far building, a walk, the turn of the detaching side and a dispatch have
got. Together they are `LifeInv`; `DataInv` adds one owner for every piece of user data.
`UnrefStep` carries the argument about `z_stream_struct_unref` for all its callers;
`GrabWhole` and `ChainKept` say that what the poll thread has grabbed is linked up to the top and
stays so until it lets go.

### StreamProofs

| Theorem | States | Hypothesis |
|---|---|---|
| `BytesInOrder` | `InOrder` of `StreamBuf` | |
| `ErrorsPropagated` | `ErrorPropagated` of `StreamBuf` | `"eof"` not in `ChildResults` |
| `AwakeOnLine` | `NoSleepOnLine` of `StreamLine` | |
| `InputGiven` | `InputDelivered` of `StreamLine` | |
| `BytesTransparent` | `Transparent` of `StreamGzip` | `~ShortWrites` |

The buffered stream. `BufInv` says that the packets follow each other (`Chained`), beginning
with the byte after the last on the wire, or inside the first packet by `pos`. A failure of the
child is stored at once and never cleared (`ErrorStored`), if it comes with a `GError`.

The compressed stream. What was accepted is in six places: delivered, kept by inflate, in the
input buffer of the reader, on the link, in the output buffer of the writer, kept by deflate.
`GzipInv` says that each is a run of consecutive bytes that begins where the one before it
ends (`InPlace`, `Flows`), with the end mark right behind the last byte. Before the header
has been read the order is that of the header and the data (`HeaderFirst`). Every action moves
the beginning of one run to the end of the next one (`PlaceCut`, `PlaceJoined`); this is what fails after
a partial write of the child, hence the hypothesis.

The line stream has three invariants, one on top of the other. `SleepInv` adds to the types
that a cached "no" of `z_stream_line_have_line` is right (`AnswerCached`), and that a call which goes
on to read has found no end-of-line (`Getting`). `ByteInv`: no line is being skipped and
nothing is lost before the first answer, only a truncated line is skipped, and with
ZRL_RETURN_EOL the bytes given, the buffer and what was not read make up the input. `LineInv`
is for an application that asks for lines only. What is to come is the rest of the input behind some place, the
number of lines given is the number of ends of lines up to that place, and the place is
itself an end (`AtLine`), or lies in a truncated line whose rest has no end-of-line in the buffer
(`InLine`). A line given moves the place to the next end (`LineGoesOut`); since the last thing given
is then the line of that number (`LastIsLine`), wherever the input is cut, the property
follows. `FirstOf`, the least member of a set of numbers, is again taken from `WFMin`.

### CodecProofs

`CodeRoundTrip` states `RoundTrip`. Between the two coders there are the characters that were
inserted or are on their way (`wire`), the result of the encoder and, behind it, the partial byte. The decoder is followed
along the characters (`Reads`): `Sent` is the decoder as it will be after all of them. Then
either it is in step with the encoder (`InStep`): it has what was given but for the bits the
encoder still holds, which are those the decoder lacks; or a strict decoder has met a character that is no
base64 and stays refused (`Refused`), with a beginning of the input. `CodecInv` adds this to the
types, unless `torn`. A byte moves both coders by one phase (`ByteZero`, `ByteOne`, `ByteTwo`), the
end of a text brings both back to phase 0, and what cuts or puts back the result leaves the
characters as they are (`CutKeeps`). That a call on a whole piece is a step per character is
an induction along the piece, again by a least counterexample, since the library's needs an operator. The assumptions are `CodecAssumption`,
on the inputs and sizes, and `JunkAssumption`: what is inserted is white space or no base64, never a
padding or a character of the alphabet, which would be data.

### SslProofs

`CaListSound`: what a thread has found is what is there but for the files it has not come to,
unless the directory has changed since the thread took its time (`ReadSound`), so an entry that
looks current is. `PeerTrusted`: the certificates
visited so far are sound (`VerifyInv`), for chains of any length. `RetriesWoken`: an operation that
waits for the other direction is the one that `what_if_called` names (`RetryInv`), under
`~Duplex`.

### Only model-checked

- Liveness under fairness, in all modules: the prover does not treat it.

## 5. Claims of the code that do not hold

Stated as definitions at the end of their modules; each fails on a small instance.

- `DiskWithinLimit`: `blob.c:173` grants every request of a blob that is already in its file
  without looking at `disk_max`, which `zorp/blob.h:25` calls the maximal disk usage.
- `NoForgottenRequest`: `blob.c:429` says memory is freed by negative requests only; swapping
  out frees memory too and wakes nobody.
- `NoAssertionFails`: a pending request is refused at destruction and its thread meets
  `g_assert(alloc_granted)` (`blob.c:905`); a second `z_blob_get_ptr` meets
  `g_assert(self->mapped_ptr == NULL)` before it takes the lock (`blob.c:1213`).
- `NoReadOverrun`: `z_blob_get_copy` clamps to a size read before the lock (`blob.c:1052`).
- `NoNullWrite`: `z_blob_read_from_stream` decides for memory before `z_blob_alloc` moves the
  blob to disk (`blob.c:1304`), and reads into NULL (`blob.c:1370`).
- `LentFileHoldsContent`: a shared blob that is storage-locked between the checks of
  `z_blob_get_file`, or a system being destroyed, lends a file without the content.
- `QueuedJobServed`: a failed creation leaves a queued job without any thread (`thread.c:229`,
  against the message at line 212).
- `SentInTheEnd`: a write by another thread does not wake a poll loop that sleeps without
  watching the child, although `streambuf.c:60` speaks of independent threads.
- `ErrorNoticed`: with a full buffer and a flush error `z_stream_buf_watch_prepare` and
  `_check` use the test that ignores the error (`streambuf.c:517`), against the note at
  line 118.
- `ShutdownFlushes`: a shutdown does one flush of at most ten writes (`streambuf.c:140`).

Properties of a run that fail with another value of a constant:

- `Accounting`, with sizes other than 0 in `InitialSizes`: the first allocation of a sized
  blob runs without its lock (`blob.c:711`, against the comment at 849) and the management
  thread swaps the blob meanwhile. With `"file"` and `"app_write"` in `Ops` the disk counter
  drifts: `z_blob_release_file` sets `alloc_size` from the file (`blob.c:1181`) and leaves
  `disk_used` alone.
- `NoUseAfterFree`, `RequestKeptOnce` and `StaysPut`, with `"shutdown"` in `Ops`: `z_blob_system_unref`
  (`blob.c:573`) refuses the pending requests and drops one reference of every listed blob,
  also of those that a thread is working on.
- `ErrorPropagated`, with `"eof"` in `ChildResults`: a child that ends without a GError leaves
  no stored error, and data is accepted for ever (`streambuf.c:44-46` against 165).
- `RefsSound`, with `BothDetach = TRUE`: the application and a callback detach the same
  stream at the same time, as the note at `stream.c:997` allows, and one of them uses a
  source that the other has released.
- `Transparent`, with `ShortWrites = TRUE`: after a partial write of the child the next
  attempt starts at the beginning of the buffer (`streamgzip.c:506`). `Delivered`, with a
  `buffer_length` up to `MaxHeld`: one call of `deflate(Z_FINISH)` has to hold all the rest
  (`streamgzip.c:583`).
- `AnswersCurrent`, with two `Admins`: the old level is read before the lock, so that the second
  change may find nothing changed and clear nothing (`log.c:670`).
- `RetryWoken`, with `Duplex = TRUE`: a read and a write that both wait share one
  `what_if_called`, and one of them is not called again (`streamssl.c:129`).

Exceptions written into the properties, where the code is known not to keep more:
`RestartLimit` excludes a supervisor that has moved its table (`process.c:1017` moves by
`sizeof(time_t)` elements); `StartupEnds` a killed supervisor whose daemon lives and holds the pipe;
`ConnectionAccepted` a resume by another thread, which does not wake a sleeping loop
(`Overslept`); `CallbackWanted` the one accept under way during a suspension; `NoSleepOnLine` data put
back, after which the cached look-ahead is stale; `LinesOfInput` a truncated last line
without its end, which gives a spurious empty line, and failed calls; `RoundTrip` an unget or
a flush with a partial byte behind the result, which is lost; `ReaderEnds` a destruction
before the thread has published its context, after which the thread never ends; `AllFreed` a
stack that was not closed; `TrustedPeer` the other verification modes, in which
`forced_ok` overrides CRL and depth verdicts, and REQUIRED_UNTRUSTED accepts a peer
without a certificate.

Seen while modelling, in the code of modelled parts:

- `process.c`: a failed `execlp` of the notification program leaves a second supervisor and a
  second daemon (1185, against 59-62); 1003 announces `restart_interval_min` and sets 5; a
  daemon that crashes long after a burst of restarts is not restarted when the count taken at
  its start was over the limit; a user without a group keeps root's groups; a numeric
  user 0xffffffff stays root; chroot without a working directory is not followed by chdir; the core limit is raised
  after the change of user; a failing `cap_set_proc` leaves the permitted set of root, with a message only.
- `connect.c`, `listen.c`, `poll.c`: `z_connector_open_socket` loses the descriptor when `bind`
  or `fcntl` fails; `z_connector_start_block` reports success whatever `poll` returned;
  `z_listener_cancel` tests `watch` before the lock, so that two cancellations may destroy NULL; after a
  callback that returned FALSE `watch` stays set and a restart is refused; `ref_count` of
  ZPoll is not atomic.
- `streambuf.c`: `write_cb` gets `user_data_read`; a refused packet is neither kept nor freed.
- `stream.c`, `streamfd.c`, `streamline.c`: ungetting a packet in a stream of umbrella type
  puts one packet into several streams; chunk loops assert on AGAIN; with ZRL_SPLIT or after
  an unget, data left at the end of file may be lost; a copy that does not fit loses its line.
- `code_base64.c`: lines are one character longer than `linelen`; `finish` writes without
  growing the buffer, although the comment at 146 counts on it.
- `streamgzip.c`: the trailer is missing after SHUT_WR only; a deflate error sets the state of the
  reader; a reader may sleep while zlib holds output.
- `log.c`: levels above 255 are truncated; a message without a connection is lost even if the connection
  is opened meanwhile; a stale descriptor may be somebody else's by the time of the write.
- `ssl.c`: if the CRL store cannot be created, no CRL is checked; a file changed in place, or
  within the second of the last change, leaves the cached CA list as it is; an unreadable directory is
  cached as empty and `g_dir_close` gets NULL.

## 6. Not modelled

The parts that `PROJECT.json` lists as `not_modelled`: wrappers of OpenSSL and system
calls, the packet buffer, tee and blob streams (copies of calls that are modelled), formatting
and parsing of addresses and URLs, the registry, tracing and stack dumps that read raw memory, Windows code.
Inside modelled parts: file names and statistics of blobs, thread ids, the title of a
process, socket options, the timeout and threshold sources of `source.c`, the text of
messages, the gzip and cipher codecs, the fields of a gzip header, the SSL protocol itself.

## 7. Plan

1. The timeout and threshold sources of `source.c` in `EventLoop`.
