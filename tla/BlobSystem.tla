----------------------------- MODULE BlobSystem -----------------------------
(***************************************************************************)
(* The blob subsystem of libzorpll (src/src/blob.c).  Client threads create *)
(* blobs, resize, write, read and map them; every blob is charged to a      *)
(* memory or to a disk quota of its ZBlobSystem, and a management thread    *)
(* answers the requests that did not fit at once, swaps blobs back into     *)
(* memory, and is stopped when the system is destroyed.                     *)
(*                                                                         *)
(* One action is one stretch of code between two synchronisation points:    *)
(* everything done under mtx_blobsys without releasing it is one step,      *)
(* except for the two loops of the management thread (the scan of the       *)
(* waiting list and the swap-in loop), which take one step per iteration    *)
(* and keep mtx_blobsys (SysLocked) while clients run outside of it.        *)
(***************************************************************************)
EXTENDS Integers, Sequences, FiniteSetsExt, SequencesExt

CONSTANTS
    Clients,       \* application threads
    Blobs,         \* identities of ZBlob objects, reused after z_blob_unref
    MemMax,        \* system->mem_max
    DiskMax,       \* system->disk_max
    LoWat,         \* the lowat argument of z_blob_system_new
    HiWat,         \* the hiwat argument of z_blob_system_new
    WORD,          \* 2^64: where the unsigned counters wrap
    InitialSizes,  \* initial_size arguments of z_blob_new (0: no allocation)
    WriteSizes,    \* end positions of the data that is written or streamed
    TruncSizes,    \* pos arguments of z_blob_truncate
    Ops,           \* the calls this application makes
    MaxQueue,      \* bound: no call starts with this many queued messages
    MaxDrift       \* bound: no file is lent while disk_used is further off

AllOps == {"truncate", "write", "stream", "read", "ptr", "file", "app_write",
           "storage_lock", "ref", "shutdown"}

ASSUME SizesAssumption ==
    /\ MemMax \in Nat \ {0}
    /\ DiskMax \in Nat
    /\ LoWat \in Nat
    /\ HiWat \in Nat
    /\ WORD \in Nat
    /\ InitialSizes \subseteq Nat
    /\ WriteSizes \subseteq Nat
    /\ TruncSizes \subseteq Nat
ASSUME NamesAssumption ==
    /\ {"MEM_FREED", "KILL", "none"} \cap Blobs = {}
    /\ "nobody" \notin Clients
    /\ Ops \subseteq AllOps
    /\ MaxQueue \in Nat
    /\ MaxDrift \in Nat

VARIABLES
    mem_used, disk_used,  \* the counters of ZBlobSystem
    req_queue,            \* the GAsyncQueue of the management thread
    waiting_list,         \* requests that did not fit yet
    blobs,                \* system->blobs
    blob,                 \* the fields of every ZBlob
    cli,                  \* where every client thread is
    mgr,                  \* where the management thread is
    sysd                  \* how far z_blob_system_unref has got

vars == <<mem_used, disk_used, req_queue, waiting_list, blobs, blob, cli, mgr,
          sysd>>

-----------------------------------------------------------------------------
(* Data. *)

NoOne == "nobody"
NoBlob == "none"
MEM_FREED == "MEM_FREED"
KILL == "KILL"

Unallocated == 0

\* A ZBlob before z_blob_new has given it its first reference; file_len is the length
\* of its temporary file and holders the threads its references belong to.
FreshBlob ==
    [alloc_size |-> Unallocated, size |-> 0, file_len |-> 0, is_in_file |-> FALSE,
     storage_locked |-> FALSE, alloc_req |-> 0, approved |-> FALSE,
     replied |-> FALSE, mtx_lock |-> NoOne, ref_cnt |-> 0, holders |-> {}]

IdleClient ==
    [pc |-> "idle", blob |-> NoBlob, want |-> 0, len |-> 0, op |-> "none"]

\* z_blob_system_new lowers both water marks below the memory limit.
lowat == IF MemMax <= LoWat THEN MemMax - 1 ELSE LoWat
hiwat == IF MemMax <= HiWat THEN MemMax - 1 ELSE HiWat

\* A difference of unsigned counters as the code sees it.
Gsize(x) == IF x < 0 THEN x + WORD ELSE x

Least(x, y) == IF x <= y THEN x ELSE y
Most(x, y) == IF x <= y THEN y ELSE x

\* The result of the two loops of z_blob_alloc that size an allocation: the
\* current size is halved until it does not exceed the request, and then
\* doubled until it covers it.
Halved(a, r) ==
    {h \in 0 .. a : \E k \in 0 .. a :
        h = a \div 2^k /\ h <= r /\ (k > 0 => a \div 2^(k - 1) > r)}
req_alloc_size(s, r) ==
    IF s.alloc_size <= 0 \/ s.is_in_file
    THEN {r}
    ELSE {n \in 0 .. 2 * (s.alloc_size + r) :
             \E h \in Halved(s.alloc_size, r), k \in 0 .. r :
                n = h * 2^k /\ n >= r /\ (k > 0 => h * 2^(k - 1) < r)}

-----------------------------------------------------------------------------
(* z_blob_swap_out and z_blob_check_alloc, under mtx_blobsys. *)

MayMove(s) == ~s.storage_locked /\ ~s.is_in_file

\* z_blob_swap_out: the first size bytes go to the file.
z_blob_swap_out(s) ==
    IF MayMove(s)
    THEN [s EXCEPT !.is_in_file = TRUE, !.file_len = Most(s.file_len, s.size)]
    ELSE s

\* (mutant) the size instead of the allocation is moved between the counters
SwappedOut_size(s) == IF MayMove(s) THEN s.size ELSE 0

SwappedOut(s) == IF MayMove(s) THEN s.alloc_size ELSE 0

mem_available == Gsize(MemMax - mem_used)
disk_available == Gsize(DiskMax - disk_used)

\* (mutant) the request is compared with the limit, not with what is left
FitsInMemory_total(s) == s.alloc_req < 0 \/ s.alloc_req <= MemMax

FitsInMemory(s) == s.alloc_req < 0 \/ s.alloc_req <= mem_available

\* Does not fit in memory but fits on disk.
GoesToDisk(s) ==
    /\ ~s.is_in_file
    /\ ~FitsInMemory(s)
    /\ ~s.storage_locked
    /\ Gsize(s.alloc_size + s.alloc_req) <= disk_available

\* What z_blob_check_alloc returns ...
z_blob_check_alloc(s) == s.is_in_file \/ FitsInMemory(s) \/ GoesToDisk(s)

\* ... and what a granted request changes.
Charge(s) ==
    /\ mem_used' = IF s.is_in_file THEN mem_used
                   ELSE IF GoesToDisk(s) THEN mem_used - SwappedOut(s)
                   ELSE mem_used + s.alloc_req
    /\ disk_used' = IF s.is_in_file THEN disk_used + s.alloc_req
                    ELSE IF GoesToDisk(s)
                         THEN disk_used + SwappedOut(s) + s.alloc_req
                    ELSE disk_used
Stored(s) == IF GoesToDisk(s) THEN z_blob_swap_out(s) ELSE s
\* (mutant) the management thread is not told about freed memory
FreedMessage_none(s) == <<>>

FreedMessage(s) == IF s.alloc_req < 0 THEN <<MEM_FREED>> ELSE <<>>

\* z_blob_signal_ready after the verdict has been stored in approved.
Answered(s, verdict) == [s EXCEPT !.approved = verdict, !.replied = TRUE]

\* The management thread keeps mtx_blobsys through its loops.
SysLocked == mgr.pc \in {"scan", "swap"}

-----------------------------------------------------------------------------
(* Client threads: entering a call. *)

\* A failed assertion or a write through NULL ends the process.
Crashed == \E c \in Clients : cli[c].pc \in {"aborted", "null_write"}

At(c, where) == cli[c].pc = where /\ ~Crashed
MgrAt(where) == mgr.pc = where /\ ~Crashed
SysAt(where) == sysd.pc = where /\ ~Crashed


Goes(c, where) == cli' = [cli EXCEPT ![c].pc = where]

\* The caller holds a reference, no call of it is under way.
MayCall(c, b) ==
    /\ At(c, "idle")
    /\ sysd.pc = "up"
    /\ b \in blobs
    /\ c \in blob[b].holders
    /\ Len(req_queue) < MaxQueue

\* z_blob_lock succeeds; a call that times out instead changes nothing.
z_blob_lock(c, b) ==
    /\ blob[b].mtx_lock = NoOne
    /\ blob' = [blob EXCEPT ![b].mtx_lock = c]

\* The head of z_blob_alloc: nothing more to do when the size stays the same.
EnterAlloc(c, b, n, op) ==
    \E a \in req_alloc_size(blob[b], n) :
        cli' = [cli EXCEPT ![c] =
                  [pc |-> IF a = blob[b].alloc_size THEN "body" ELSE "alloc",
                   blob |-> b, want |-> a, len |-> n, op |-> op]]

\* A call that writes up to n allocates only if the space is not there yet.
EnsureSpace(c, b, n, op) ==
    \/ /\ blob[b].alloc_size < n
       /\ EnterAlloc(c, b, n, op)
    \/ /\ blob[b].alloc_size >= n
       /\ cli' = [cli EXCEPT ![c] = [pc |-> "body", blob |-> b,
                    want |-> blob[b].alloc_size, len |-> n, op |-> op]]

\* z_blob_new: the blob becomes visible to the management thread under
\* mtx_blobsys; its first allocation then runs without the lock of the blob.
z_blob_new(c, b, n) ==
    /\ At(c, "idle")
    /\ sysd.pc = "up"
    /\ Len(req_queue) < MaxQueue
    /\ ~SysLocked
    /\ b \notin blobs
    /\ blobs' = blobs \cup {b}
    /\ blob' = [blob EXCEPT ![b] =
                  [FreshBlob EXCEPT !.ref_cnt = 1, !.holders = {c}]]
    /\ cli' = IF n = 0 THEN cli ELSE
              [cli EXCEPT ![c] = [pc |-> "alloc", blob |-> b, want |-> n,
                                  len |-> n, op |-> "new"]]
    /\ UNCHANGED <<mem_used, disk_used, req_queue, waiting_list, mgr, sysd>>

z_blob_truncate(c, b, n) ==
    /\ "truncate" \in Ops
    /\ MayCall(c, b)
    /\ z_blob_lock(c, b)
    /\ EnterAlloc(c, b, n, "truncate")
    /\ UNCHANGED <<mem_used, disk_used, req_queue, waiting_list, blobs, mgr, sysd>>

z_blob_add_copy(c, b, n) ==
    /\ "write" \in Ops
    /\ MayCall(c, b)
    /\ z_blob_lock(c, b)
    /\ EnsureSpace(c, b, n, "write")
    /\ UNCHANGED <<mem_used, disk_used, req_queue, waiting_list, blobs, mgr, sysd>>

\* The branch for a blob in memory is chosen once, when the lock is taken.
z_blob_read_from_stream(c, b, n) ==
    /\ "stream" \in Ops
    /\ MayCall(c, b)
    /\ z_blob_lock(c, b)
    /\ EnsureSpace(c, b, n,
                   IF blob[b].is_in_file THEN "stream_file" ELSE "stream_mem")
    /\ UNCHANGED <<mem_used, disk_used, req_queue, waiting_list, blobs, mgr, sysd>>

\* In a file, a start position p beyond the size is allocated first, which may
\* also shrink the allocation ...
StreamSeek(c, b, p) ==
    /\ "stream" \in Ops
    /\ MayCall(c, b)
    /\ blob[b].is_in_file
    /\ blob[b].size < p
    /\ z_blob_lock(c, b)
    /\ EnterAlloc(c, b, p, "stream_seek")
    /\ UNCHANGED <<mem_used, disk_used, req_queue, waiting_list, blobs, mgr, sysd>>

\* ... and the space for the data itself next.
StreamSeeked(c) ==
    /\ At(c, "body")
    /\ cli[c].op = "stream_seek"
    /\ \E n \in WriteSizes :
          /\ n >= cli[c].len
          /\ EnsureSpace(c, cli[c].blob, n, "stream_file")
    /\ UNCHANGED <<mem_used, disk_used, req_queue, waiting_list, blobs, blob, mgr,
                   sysd>>

-----------------------------------------------------------------------------
(* Client threads: z_blob_alloc. *)

\* The first look at the quota, under mtx_blobsys.
AllocCheck(c) ==
    LET b == cli[c].blob
        s == [blob[b] EXCEPT !.alloc_req = cli[c].want - blob[b].alloc_size]
    IN
    /\ At(c, "alloc")
    /\ ~SysLocked
    /\ \/ /\ z_blob_check_alloc(s)
          /\ Charge(s)
          /\ blob' = [blob EXCEPT ![b] = Stored(s)]
          /\ req_queue' = req_queue \o FreedMessage(s)
          /\ Goes(c, "finish")
       \/ /\ ~z_blob_check_alloc(s)
          /\ blob' = [blob EXCEPT ![b] = s]
          /\ Goes(c, "push")
          /\ UNCHANGED <<mem_used, disk_used, req_queue>>
    /\ UNCHANGED <<waiting_list, blobs, mgr, sysd>>

\* Denied: the blob itself is the message to the management thread.
AllocPush(c) ==
    LET b == cli[c].blob IN
    /\ At(c, "push")
    /\ blob' = [blob EXCEPT ![b] =
                  [blob[b] EXCEPT !.approved = FALSE, !.replied = FALSE]]
    /\ req_queue' = Append(req_queue, b)
    /\ Goes(c, "wait")
    /\ UNCHANGED <<mem_used, disk_used, waiting_list, blobs, mgr, sysd>>

\* The condition variable has been signalled; g_assert(alloc_granted).
AllocWoken(c) ==
    LET s == blob[cli[c].blob] IN
    /\ At(c, "wait")
    /\ s.replied
    /\ Goes(c, IF s.approved THEN "finish" ELSE "aborted")
    /\ UNCHANGED <<mem_used, disk_used, req_queue, waiting_list, blobs, blob, mgr, sysd>>

\* ftruncate or realloc, outside of mtx_blobsys.
AllocFinish(c) ==
    LET b == cli[c].blob
        s == blob[b]
        n == cli[c].want
    IN
    /\ At(c, "finish")
    /\ blob' = [blob EXCEPT ![b] =
                  [s EXCEPT !.alloc_size = n,
                            !.size = Least(s.size, n),
                            !.file_len = IF s.is_in_file THEN n ELSE s.file_len]]
    /\ Goes(c, "body")
    /\ UNCHANGED <<mem_used, disk_used, req_queue, waiting_list, blobs, mgr, sysd>>

-----------------------------------------------------------------------------
(* Client threads: the rest of a call, and leaving it. *)

\* The end of the data a call has put into the blob.  The loop around write()
\* keeps only the length of its last chunk; a stream may end early.
WrittenUpTo(s, op, n) ==
    CASE op = "write" -> IF s.is_in_file THEN 1 .. n ELSE {n}
      [] op \in {"stream_file", "stream_mem"} -> 0 .. n
      [] OTHER -> {0}

Finish(c, b, e) ==
    /\ blob' = [blob EXCEPT ![b] =
                  [blob[b] EXCEPT !.size = Most(blob[b].size, e),
                                  !.file_len = IF blob[b].is_in_file
                                               THEN Most(blob[b].file_len, e)
                                               ELSE blob[b].file_len,
                                  !.mtx_lock = NoOne]]
    /\ cli' = [cli EXCEPT ![c] = IdleClient]

\* The in-memory branch of z_blob_read_from_stream writes through self->data,
\* which z_blob_alloc has freed if the blob went to disk meanwhile.
CallBody(c) ==
    LET b == cli[c].blob
        s == blob[b]
    IN
    /\ At(c, "body")
    /\ cli[c].op # "stream_seek"
    /\ \E e \in WrittenUpTo(s, cli[c].op, cli[c].len) :
          IF cli[c].op = "stream_mem" /\ s.is_in_file /\ e > 0
          THEN Goes(c, "null_write") /\ UNCHANGED blob
          ELSE Finish(c, b, e)
    /\ UNCHANGED <<mem_used, disk_used, req_queue, waiting_list, blobs, mgr, sysd>>

-----------------------------------------------------------------------------
(* Client threads: reading, pointers and files. *)

\* z_blob_get_copy clamps the length to the size before it takes the lock ...
z_blob_get_copy(c, b, n) ==
    /\ "read" \in Ops
    /\ MayCall(c, b)
    /\ blob[b].size > 0
    /\ cli' = [cli EXCEPT ![c] =
                 [pc |-> "read", blob |-> b, want |-> 0,
                  len |-> Least(n, blob[b].size), op |-> "read"]]
    /\ UNCHANGED <<mem_used, disk_used, req_queue, waiting_list, blobs, blob, mgr, sysd>>

\* ... and copies that many bytes under it: from a file that is too short it
\* never returns, from memory that is too short it reads past the end.
GetCopyLocked(c) ==
    LET s == blob[cli[c].blob] IN
    /\ At(c, "read")
    /\ s.mtx_lock = NoOne
    /\ cli' = IF cli[c].len > (IF s.is_in_file THEN s.file_len ELSE s.alloc_size)
              THEN [cli EXCEPT ![c].pc = "overrun"]
              ELSE [cli EXCEPT ![c] = IdleClient]
    /\ UNCHANGED <<mem_used, disk_used, req_queue, waiting_list, blobs, blob, mgr, sysd>>

\* self->mapped_ptr is set.
Mapped(b) == \E d \in Clients : cli[d].pc = "ptr" /\ cli[d].blob = b

\* z_blob_get_ptr asserts that no pointer is out and tests the size, both
\* without the lock.
z_blob_get_ptr(c, b) ==
    /\ "ptr" \in Ops
    /\ MayCall(c, b)
    /\ Mapped(b) \/ blob[b].size > 0
    /\ cli' = [cli EXCEPT ![c] =
                 [pc |-> IF Mapped(b) THEN "aborted" ELSE "getptr",
                  blob |-> b, want |-> 0, len |-> 0, op |-> "ptr"]]
    /\ UNCHANGED <<mem_used, disk_used, req_queue, waiting_list, blobs, blob, mgr, sysd>>

\* mmap refuses an empty range, the in-memory branch hands it out.
GetPtrLocked(c) ==
    LET b == cli[c].blob
        s == blob[b]
    IN
    /\ At(c, "getptr")
    /\ s.mtx_lock = NoOne
    /\ IF s.is_in_file /\ s.size = 0
       THEN cli' = [cli EXCEPT ![c] = IdleClient] /\ UNCHANGED blob
       ELSE /\ z_blob_lock(c, b)
            /\ cli' = [cli EXCEPT ![c] =
                          [cli[c] EXCEPT !.pc = "ptr", !.len = s.size]]
    /\ UNCHANGED <<mem_used, disk_used, req_queue, waiting_list, blobs, mgr, sysd>>

\* g_assert(self->mapped_length > 0).
z_blob_free_ptr(c) ==
    /\ At(c, "ptr")
    /\ IF cli[c].len = 0
       THEN Goes(c, "aborted") /\ UNCHANGED blob
       ELSE Finish(c, cli[c].blob, 0)
    /\ UNCHANGED <<mem_used, disk_used, req_queue, waiting_list, blobs, mgr, sysd>>

\* z_blob_get_file: a blob in memory that is storage_locked is refused.
z_blob_get_file(c, b) ==
    /\ "file" \in Ops
    /\ MayCall(c, b)
    /\ disk_used \in 0 - MaxDrift .. MaxDrift
    /\ blob[b].is_in_file \/ ~blob[b].storage_locked
    /\ z_blob_lock(c, b)
    /\ cli' = [cli EXCEPT ![c] =
                 [pc |-> IF blob[b].is_in_file THEN "file" ELSE "swapout",
                  blob |-> b, want |-> 0, len |-> 0, op |-> "file"]]
    /\ UNCHANGED <<mem_used, disk_used, req_queue, waiting_list, blobs, mgr, sysd>>

\* The swap-out of z_blob_get_file takes mtx_blobsys on its own.
GetFileSwapOut(c) ==
    LET b == cli[c].blob IN
    /\ At(c, "swapout")
    /\ ~SysLocked
    /\ blob' = [blob EXCEPT ![b] = z_blob_swap_out(blob[b])]
    /\ mem_used' = mem_used - SwappedOut(blob[b])
    /\ disk_used' = disk_used + SwappedOut(blob[b])
    /\ Goes(c, "file")
    /\ UNCHANGED <<req_queue, waiting_list, blobs, mgr, sysd>>

\* chown or chmod failed: the lock is released, no name is returned.
GetFileFails(c) ==
    /\ At(c, "file")
    /\ cli[c].op = "file"
    /\ Finish(c, cli[c].blob, 0)
    /\ UNCHANGED <<mem_used, disk_used, req_queue, waiting_list, blobs, mgr, sysd>>

\* The application changes the file it was given the name of.
AppWritesFile(c, n) ==
    /\ "app_write" \in Ops
    /\ At(c, "file")
    /\ blob' = [blob EXCEPT ![cli[c].blob].file_len = n]
    /\ cli' = [cli EXCEPT ![c].op = "written"]
    /\ UNCHANGED <<mem_used, disk_used, req_queue, waiting_list, blobs, mgr, sysd>>

\* z_blob_release_file takes size and alloc_size from the file.
z_blob_release_file(c) ==
    LET b == cli[c].blob IN
    /\ At(c, "file")
    /\ blob' = [blob EXCEPT ![b] =
                  [blob[b] EXCEPT !.size = blob[b].file_len,
                                  !.alloc_size = blob[b].file_len,
                                  !.mtx_lock = NoOne]]
    /\ cli' = [cli EXCEPT ![c] = IdleClient]
    /\ UNCHANGED <<mem_used, disk_used, req_queue, waiting_list, blobs, mgr, sysd>>

\* z_blob_storage_lock takes no lock at all.
z_blob_storage_lock(c, b, st) ==
    /\ "storage_lock" \in Ops
    /\ MayCall(c, b)
    /\ blob' = [blob EXCEPT ![b].storage_locked = st]
    /\ UNCHANGED <<mem_used, disk_used, req_queue, waiting_list, blobs, cli, mgr, sysd>>

-----------------------------------------------------------------------------
(* Client threads: references. *)

Referenced(n) == n + 1

\* (mutant) the blob is destroyed one reference too early
LastReference_early(n) == n <= 2
LastReference(n) == n = 1

\* One thread hands a reference of its own to another one.
z_blob_ref(c, d, b) ==
    /\ "ref" \in Ops
    /\ MayCall(c, b)
    /\ d \notin blob[b].holders
    /\ blob' = [blob EXCEPT ![b] =
                  [blob[b] EXCEPT !.ref_cnt = Referenced(blob[b].ref_cnt),
                                  !.holders = blob[b].holders \cup {d}]]
    /\ UNCHANGED <<mem_used, disk_used, req_queue, waiting_list, blobs, cli, mgr, sysd>>

\* z_blob_unref: the last reference sends the thread on to destroy the blob.
z_blob_unref(c, b) ==
    /\ MayCall(c, b)
    /\ blob' = [blob EXCEPT ![b] =
                  [blob[b] EXCEPT !.ref_cnt = blob[b].ref_cnt - 1,
                                  !.holders = blob[b].holders \ {c}]]
    /\ cli' = IF LastReference(blob[b].ref_cnt)
              THEN [cli EXCEPT ![c] =
                      [cli[c] EXCEPT !.pc = "destroy", !.blob = b]]
              ELSE cli
    /\ UNCHANGED <<mem_used, disk_used, req_queue, waiting_list, blobs, mgr, sysd>>

\* What destroying blob b does under mtx_blobsys: everything it was charged
\* is released by a negative request.
Destroy(b) ==
    LET s == [blob[b] EXCEPT !.alloc_req = 0 - blob[b].alloc_size] IN
    /\ ~SysLocked
    /\ Charge(s)
    /\ blobs' = blobs \ {b}
    /\ blob' = [blob EXCEPT ![b] = FreshBlob]
    /\ req_queue' = req_queue \o FreedMessage(s)

UnrefDestroy(c) ==
    /\ At(c, "destroy")
    /\ Destroy(cli[c].blob)
    /\ cli' = [cli EXCEPT ![c] = IdleClient]
    /\ UNCHANGED <<waiting_list, mgr, sysd>>

-----------------------------------------------------------------------------
(* The management thread: z_blob_system_threadproc. *)

\* (mutant) the kill message is not recognised
IsKill_never(m) == FALSE
IsKill(m) == m = KILL

MgrPop ==
    /\ MgrAt("pop")
    /\ req_queue # <<>>
    /\ mgr' = [pc |-> IF IsKill(Head(req_queue)) THEN "dead" ELSE "item",
               item |-> Head(req_queue), pos |-> 1]
    /\ req_queue' = Tail(req_queue)
    /\ UNCHANGED <<mem_used, disk_used, waiting_list, blobs, blob, cli, sysd>>

\* The verdict reaches the sleeping thread.
GrantLate(b) ==
    /\ Charge(blob[b])
    /\ blob' = [blob EXCEPT ![b] = Answered(Stored(blob[b]), TRUE)]
    /\ req_queue' = req_queue \o FreedMessage(blob[b])

\* (mutant) a denied request is not put on the waiting list
Defer_dropped(b) ==
    /\ blob' = [blob EXCEPT ![b].approved = FALSE]
    /\ UNCHANGED <<waiting_list, req_queue>>

Defer(b) ==
    /\ blob' = [blob EXCEPT ![b].approved = FALSE]
    /\ waiting_list' = Append(waiting_list, b)
    /\ UNCHANGED req_queue

\* A request: answered if it fits now, otherwise it joins the waiting list.
MgrRequest ==
    LET b == mgr.item IN
    /\ MgrAt("item")
    /\ b \in Blobs
    /\ \/ /\ z_blob_check_alloc(blob[b])
          /\ GrantLate(b)
          /\ UNCHANGED waiting_list
       \/ /\ ~z_blob_check_alloc(blob[b])
          /\ Defer(b)
          /\ UNCHANGED <<mem_used, disk_used>>
    /\ mgr' = [mgr EXCEPT !.pc = "pop", !.item = NoBlob]
    /\ UNCHANGED <<blobs, cli, sysd>>

\* Memory was freed: mtx_blobsys is taken for both loops.
MgrFreed ==
    /\ MgrAt("item")
    /\ mgr.item = MEM_FREED
    /\ mgr' = [pc |-> "scan", item |-> NoBlob, pos |-> 1]
    /\ UNCHANGED <<mem_used, disk_used, req_queue, waiting_list, blobs, blob, cli, sysd>>

Delete(i) == RemoveAt(waiting_list, i)

\* One entry of the waiting list.
MgrScan ==
    LET b == waiting_list[mgr.pos] IN
    /\ MgrAt("scan")
    /\ mgr.pos <= Len(waiting_list)
    /\ \/ /\ z_blob_check_alloc(blob[b])
          /\ GrantLate(b)
          /\ waiting_list' = Delete(mgr.pos)
          /\ UNCHANGED mgr
       \/ /\ ~z_blob_check_alloc(blob[b])
          /\ blob' = [blob EXCEPT ![b].approved = FALSE]
          /\ mgr' = [mgr EXCEPT !.pos = mgr.pos + 1]
          /\ UNCHANGED <<mem_used, disk_used, req_queue, waiting_list>>
    /\ UNCHANGED <<blobs, cli, sysd>>

\* z_blob_system_swap_in starts only below lowat and with hiwat on disk.
MgrScanDone ==
    /\ MgrAt("scan")
    /\ mgr.pos > Len(waiting_list)
    /\ mgr' = [pc |-> IF Gsize(mem_used) >= lowat \/ Gsize(disk_used) < hiwat
                      THEN "pop" ELSE "swap",
               item |-> NoBlob, pos |-> 1]
    /\ UNCHANGED <<mem_used, disk_used, req_queue, waiting_list, blobs, blob, cli, sysd>>

\* (mutant) storage_locked is not tested
SwapInCandidate_any(b) ==
    /\ b \in blobs
    /\ blob[b].mtx_lock = NoOne
    /\ blob[b].is_in_file
    /\ blob[b].alloc_size <= hiwat - mem_used

\* A blob whose lock the trylock gets and that would fit below hiwat.
SwapInCandidate(b) ==
    /\ b \in blobs
    /\ blob[b].mtx_lock = NoOne
    /\ ~blob[b].storage_locked
    /\ blob[b].is_in_file
    /\ blob[b].alloc_size <= hiwat - mem_used

\* One turn of the swap-in loop; any candidate may have the best score.
MgrSwapIn(b) ==
    /\ MgrAt("swap")
    /\ SwapInCandidate(b)
    /\ blob' = [blob EXCEPT ![b] =
                  [blob[b] EXCEPT !.is_in_file = FALSE, !.file_len = 0]]
    /\ mem_used' = mem_used + blob[b].alloc_size
    /\ disk_used' = disk_used - blob[b].alloc_size
    /\ UNCHANGED <<req_queue, waiting_list, blobs, cli, mgr, sysd>>

MgrSwapInDone ==
    /\ MgrAt("swap")
    /\ \A b \in Blobs : ~SwapInCandidate(b)
    /\ mgr' = [mgr EXCEPT !.pc = "pop"]
    /\ UNCHANGED <<mem_used, disk_used, req_queue, waiting_list, blobs, blob, cli, sysd>>

-----------------------------------------------------------------------------
(* z_blob_system_unref, by the thread that drops the last reference. *)

SysUnref ==
    /\ "shutdown" \in Ops
    /\ SysAt("up")
    /\ sysd' = [sysd EXCEPT !.pc = "join"]
    /\ req_queue' = Append(req_queue, KILL)
    /\ UNCHANGED <<mem_used, disk_used, waiting_list, blobs, blob, cli, mgr>>

\* g_thread_join has returned; the pending requests are refused in turn ...
SysRefuse ==
    LET b == Head(waiting_list) IN
    /\ SysAt("join")
    /\ mgr.pc = "dead"
    /\ waiting_list # <<>>
    /\ blob' = [blob EXCEPT ![b] = Answered(blob[b], FALSE)]
    /\ waiting_list' = Tail(waiting_list)
    /\ UNCHANGED <<mem_used, disk_used, req_queue, blobs, cli, mgr, sysd>>

SysRefused ==
    /\ SysAt("join")
    /\ mgr.pc = "dead"
    /\ waiting_list = <<>>
    /\ sysd' = [pc |-> "unref", left |-> blobs]
    /\ UNCHANGED <<mem_used, disk_used, req_queue, waiting_list, blobs, blob, cli, mgr>>

\* ... then one reference of every blob that is still listed is dropped.
SysUnrefBlob(b) ==
    /\ SysAt("unref")
    /\ b \in sysd.left
    /\ sysd' = [sysd EXCEPT !.left = sysd.left \ {b}]
    /\ \/ /\ b \in blobs
          /\ blob[b].ref_cnt = 1
          /\ Destroy(b)
       \/ /\ b \in blobs
          /\ blob[b].ref_cnt # 1
          /\ blob' = [blob EXCEPT ![b].ref_cnt = blob[b].ref_cnt - 1]
          /\ UNCHANGED <<mem_used, disk_used, req_queue, blobs>>
       \/ /\ b \notin blobs
          /\ UNCHANGED <<mem_used, disk_used, req_queue, blobs, blob>>
    /\ UNCHANGED <<waiting_list, cli, mgr>>

SysGone ==
    /\ SysAt("unref")
    /\ sysd.left = {}
    /\ sysd' = [sysd EXCEPT !.pc = "gone"]
    /\ UNCHANGED <<mem_used, disk_used, req_queue, waiting_list, blobs, blob, cli, mgr>>

-----------------------------------------------------------------------------
(* The specification. *)

Init ==
    /\ mem_used = 0
    /\ disk_used = 0
    /\ req_queue = <<>>
    /\ waiting_list = <<>>
    /\ blobs = {}
    /\ blob = [b \in Blobs |-> FreshBlob]
    /\ cli = [c \in Clients |-> IdleClient]
    /\ mgr = [pc |-> "pop", item |-> NoBlob, pos |-> 1]
    /\ sysd = [pc |-> "up", left |-> {}]

\* What an application thread decides to call.
Calls(c) ==
    \E b \in Blobs :
       \/ \E n \in InitialSizes : z_blob_new(c, b, n)
       \/ \E n \in TruncSizes : z_blob_truncate(c, b, n)
       \/ \E n \in WriteSizes : z_blob_add_copy(c, b, n)
       \/ \E n \in WriteSizes : z_blob_read_from_stream(c, b, n)
       \/ \E p \in WriteSizes : StreamSeek(c, b, p)
       \/ \E n \in WriteSizes : z_blob_get_copy(c, b, n)
       \/ z_blob_get_ptr(c, b)
       \/ z_blob_get_file(c, b)
       \/ \E st \in BOOLEAN : z_blob_storage_lock(c, b, st)
       \/ \E d \in Clients : z_blob_ref(c, d, b)
       \/ z_blob_unref(c, b)

\* What a thread does inside of a call until it returns.
Continues(c) ==
    \/ AllocCheck(c)
    \/ AllocPush(c)
    \/ AllocWoken(c)
    \/ AllocFinish(c)
    \/ StreamSeeked(c)
    \/ CallBody(c)
    \/ GetCopyLocked(c)
    \/ GetPtrLocked(c)
    \/ GetFileSwapOut(c)
    \/ UnrefDestroy(c)

\* The application gives back what it was lent.
Returns(c) == z_blob_free_ptr(c) \/ z_blob_release_file(c)

Manager ==
    \/ MgrPop
    \/ MgrRequest
    \/ MgrFreed
    \/ MgrScan
    \/ MgrScanDone
    \/ \E b \in Blobs : MgrSwapIn(b)
    \/ MgrSwapInDone

Teardown ==
    \/ SysRefuse
    \/ SysRefused
    \/ \E b \in Blobs : SysUnrefBlob(b)
    \/ SysGone

Next ==
    \/ \E c \in Clients :
         \/ Calls(c)
         \/ Continues(c)
         \/ Returns(c)
         \/ GetFileFails(c)
         \/ \E n \in WriteSizes : AppWritesFile(c, n)
    \/ Manager
    \/ SysUnref
    \/ Teardown

Spec == Init /\ [][Next]_vars

\* The scheduler runs every thread that is inside of the library, and an
\* application gives pointers and files back; it is never made to call.
Fairness ==
    /\ WF_vars(Manager)
    /\ WF_vars(Teardown)
    /\ \A c \in Clients : WF_vars(Continues(c))
    /\ \A c \in Clients : WF_vars(Returns(c))

FairSpec == Spec /\ Fairness

-----------------------------------------------------------------------------
(* Types. *)

BlobType ==
    [alloc_size : Nat, size : Nat, file_len : Nat, is_in_file : BOOLEAN,
     storage_locked : BOOLEAN, alloc_req : Int, approved : BOOLEAN,
     replied : BOOLEAN, mtx_lock : Clients \cup {NoOne}, ref_cnt : Int,
     holders : SUBSET Clients]
ClientType ==
    [pc : {"idle", "alloc", "push", "wait", "finish", "body", "read", "overrun",
           "getptr", "ptr", "swapout", "file", "destroy", "aborted",
           "null_write"},
     blob : Blobs \cup {NoBlob}, want : Nat, len : Nat,
     op : {"none", "new", "truncate", "write", "stream_mem", "stream_file",
           "stream_seek", "read", "ptr", "file", "written"}]
ManagerType ==
    [pc : {"pop", "item", "scan", "swap", "dead"},
     item : Blobs \cup {NoBlob, MEM_FREED, KILL}, pos : Nat \ {0}]

\* Every variable has its type: in particular the sizes never become negative,
\* whatever sequence of resizes, swaps and releases the threads go through.
TypeOK ==
    /\ mem_used \in Int
    /\ disk_used \in Int
    /\ req_queue \in Seq(Blobs \cup {MEM_FREED, KILL})
    /\ waiting_list \in Seq(Blobs)
    /\ blobs \subseteq Blobs
    /\ blob \in [Blobs -> BlobType]
    /\ cli \in [Clients -> ClientType]
    /\ mgr \in ManagerType
    /\ sysd \in [pc : {"up", "join", "unref", "gone"}, left : SUBSET Blobs]

-----------------------------------------------------------------------------
(* Safety. *)

\* The memory quota is never exceeded, by requests granted at once, by
\* requests granted late by the management thread, or by swapping in.
MemWithinLimit == mem_used <= MemMax

\* A request on blob b has been granted and its thread has not resized the
\* blob yet: alloc_req is charged on top of alloc_size.
Granted(b) ==
    \E c \in Clients :
        /\ cli[c].blob = b
        /\ \/ cli[c].pc = "finish"
           \/ cli[c].pc = "wait" /\ blob[b].approved

Charged(b) == blob[b].alloc_size + (IF Granted(b) THEN blob[b].alloc_req ELSE 0)

\* mem_used is exactly what the blobs in memory were granted: nothing leaks
\* and nothing is released twice, however resizing, swapping and destroying
\* interleave.
MemAccounting ==
    mem_used = MapThenSumSet(Charged, {b \in blobs : ~blob[b].is_in_file})

\* The same for disk_used and the blobs in their files.
DiskAccounting ==
    disk_used = MapThenSumSet(Charged, {b \in blobs : blob[b].is_in_file})

\* A thread sleeps in z_blob_alloc and waits for the verdict on blob b.
Awaited(b) ==
    /\ ~blob[b].replied
    /\ \E c \in Clients : cli[c].pc = "wait" /\ cli[c].blob = b

\* Where the management thread keeps blob b as an unanswered request.
InHand(b) == mgr.pc = "item" /\ mgr.item = b
Queued(b) == \E i \in 1 .. Len(req_queue) : req_queue[i] = b
Deferred(b) == \E i \in 1 .. Len(waiting_list) : waiting_list[i] = b

\* In how many places the management thread keeps blob b.
Places(b) ==
    Cardinality({i \in 1 .. Len(req_queue) : req_queue[i] = b})
    + Cardinality({i \in 1 .. Len(waiting_list) : waiting_list[i] = b})
    + (IF InHand(b) THEN 1 ELSE 0)

\* The request of a sleeping thread is in exactly one place: it cannot fall
\* between the queue and the waiting list, and it is not charged twice.  No
\* other blob is in any place, so no freed blob is ever examined and no
\* verdict goes to a thread that does not wait for one.
RequestKeptOnce ==
    \A b \in Blobs : /\ Places(b) = IF Awaited(b) THEN 1 ELSE 0
                     /\ Awaited(b) => b \in blobs

\* A thread inside of a call works on a blob that has not been destroyed, and
\* every reference that was handed out is counted.
NoUseAfterFree ==
    /\ \A c \in Clients : cli[c].blob \in Blobs => cli[c].blob \in blobs
    /\ \A b \in blobs : blob[b].ref_cnt = Cardinality(blob[b].holders)

\* The name of a file is lent only while the content is in the file.
LentFileHoldsContent ==
    \A c \in Clients : cli[c].pc = "file" => blob[cli[c].blob].is_in_file

\* Both counters are exact.
Accounting == MemAccounting /\ DiskAccounting

\* A step neither moves nor resizes a blob an application holds a pointer into,
\* and does not move one whose storage is locked.
KeepsPut ==
    /\ \A c \in Clients :
          LET b == cli[c].blob IN
          cli[c].pc = "ptr" /\ cli'[c].pc = "ptr" =>
              /\ blob'[b].is_in_file = blob[b].is_in_file
              /\ blob'[b].alloc_size = blob[b].alloc_size
    /\ \A b \in blobs :
          blob[b].storage_locked /\ b \in blobs' =>
              blob'[b].is_in_file = blob[b].is_in_file

\* A blob stays put while someone relies on it: an application that holds a
\* pointer into it (z_blob_get_ptr), or has locked its storage.
StaysPut == [][KeepsPut]_vars

-----------------------------------------------------------------------------
(* Liveness. *)

\* A deferred request that the memory limit allows is answered once every
\* other blob is gone.
DeferredServed ==
    \A b \in Blobs :
        (/\ Deferred(b)
         /\ blobs = {b}
         /\ blob[b].alloc_size + blob[b].alloc_req <= MemMax)
        ~> (~Awaited(b) \/ blobs # {b} \/ sysd.pc # "up")

\* z_blob_system_unref comes to an end, whatever is queued or pending.
TeardownEnds == (sysd.pc # "up") ~> (sysd.pc = "gone" \/ Crashed)

-----------------------------------------------------------------------------
(* What comments and assertions of blob.c claim and the code does not keep:   *)
(* the README says how each of them fails.                                    *)

\* The stream copy never writes through the freed data pointer.
NoNullWrite == \A c \in Clients : cli[c].pc # "null_write"

\* No g_assert of the blob code fails.
NoAssertionFails == \A c \in Clients : cli[c].pc # "aborted"

\* No copy runs past the end of what is stored.
NoReadOverrun == \A c \in Clients : cli[c].pc # "overrun"

\* disk_used stays within disk_max.
DiskWithinLimit == disk_used <= DiskMax

\* When the management thread has nothing left to do, no deferred request
\* would be granted if it were looked at again.
NoForgottenRequest ==
    mgr.pc = "pop" /\ req_queue = <<>> =>
        \A b \in Blobs : Deferred(b) => ~z_blob_check_alloc(blob[b])
=============================================================================
