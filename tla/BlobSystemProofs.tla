-------------------------- MODULE BlobSystemProofs --------------------------
(***************************************************************************)
(* Proofs about BlobSystem, for any number of threads and blobs, any limits *)
(* and water marks, and any sizes.                                         *)
(***************************************************************************)
EXTENDS BlobSystem, SequenceTheorems, FiniteSetTheorems, WellFoundedInduction, TLAPS

\* The sizing of an allocation yields natural numbers.
LEMMA ReqAllocSizeType ==
    ASSUME NEW s \in BlobType, NEW r \in Nat, NEW n \in req_alloc_size(s, r)
    PROVE  n \in Nat
<1>1. s.alloc_size \in Nat
  BY DEF BlobType
<1>2. CASE s.alloc_size <= 0 \/ s.is_in_file
  BY <1>2 DEF req_alloc_size
<1>3. CASE ~(s.alloc_size <= 0 \/ s.is_in_file)
  BY <1>1, <1>3 DEF req_alloc_size
<1> QED
  BY <1>2, <1>3

\* A swapped-out blob is still a blob, and moves a natural number of bytes.
LEMMA SwapOutType ==
    ASSUME NEW s \in BlobType
    PROVE  z_blob_swap_out(s) \in BlobType /\ SwappedOut(s) \in Nat
BY DEF BlobType, z_blob_swap_out, SwappedOut, MayMove, Most

LEMMA StoredType ==
    ASSUME NEW s \in BlobType
    PROVE  Stored(s) \in BlobType
BY SwapOutType DEF Stored

\* What the quota check leaves in the counters are numbers.
LEMMA ChargeType ==
    ASSUME mem_used \in Int, disk_used \in Int, NEW s \in BlobType, Charge(s)
    PROVE  mem_used' \in Int /\ disk_used' \in Int
<1>1. s.alloc_req \in Int /\ SwappedOut(s) \in Nat
  BY SwapOutType DEF BlobType
<1> QED
  BY <1>1 DEF Charge

LEMMA FreshBlobType == FreshBlob \in BlobType
BY DEF FreshBlob, Unallocated, BlobType

\* The reference count and the holders may be replaced.
LEMMA RefsType ==
    ASSUME NEW s \in BlobType, NEW n \in Int, NEW h \in SUBSET Clients
    PROVE  [s EXCEPT !.ref_cnt = n, !.holders = h] \in BlobType
BY DEF BlobType

LEMMA IdleClientType == IdleClient \in ClientType
BY DEF IdleClient, ClientType

\* Replacing one entry keeps the type of the whole.
LEMMA SetBlob ==
    ASSUME blob \in [Blobs -> BlobType], NEW b, NEW s \in BlobType,
           blob' = [blob EXCEPT ![b] = s]
    PROVE  blob' \in [Blobs -> BlobType]
OBVIOUS

LEMMA SetClient ==
    ASSUME cli \in [Clients -> ClientType], NEW c \in Clients,
           NEW r \in ClientType, cli' = [cli EXCEPT ![c] = r]
    PROVE  cli' \in [Clients -> ClientType]
OBVIOUS

-----------------------------------------------------------------------------
(* The inductive invariant. *)

\* A thread that is inside of a call works on some blob.
BusyHasBlob == \A c \in Clients : cli[c].pc # "idle" => cli[c].blob \in Blobs

QuotaInv == TypeOK /\ BusyHasBlob /\ MemWithinLimit

\* The thread's record after it moved on inside of the same call.
LEMMA GoesInv ==
    ASSUME QuotaInv, NEW c \in Clients, cli[c].pc # "idle",
           NEW w \in {"push", "wait", "finish", "body", "overrun", "file",
                      "aborted", "null_write"},
           cli' = [cli EXCEPT ![c].pc = w]
    PROVE  cli' \in [Clients -> ClientType] /\ BusyHasBlob'
<1>1. cli \in [Clients -> ClientType] /\ cli[c] \in ClientType
  BY DEF QuotaInv, TypeOK
<1>2. [cli[c] EXCEPT !.pc = w] \in ClientType
  BY <1>1 DEF ClientType
<1>3. cli' = [cli EXCEPT ![c] = [cli[c] EXCEPT !.pc = w]]
  OBVIOUS
<1>4. cli' \in [Clients -> ClientType]
  BY <1>1, <1>2, <1>3, SetClient
<1>5. BusyHasBlob'
  BY <1>1, <1>3 DEF QuotaInv, BusyHasBlob, ClientType
<1> QED
  BY <1>4, <1>5

\* The thread leaves the library.
LEMMA IdleInv ==
    ASSUME QuotaInv, NEW c \in Clients, cli' = [cli EXCEPT ![c] = IdleClient]
    PROVE  cli' \in [Clients -> ClientType] /\ BusyHasBlob'
<1>1. cli' \in [Clients -> ClientType]
  BY IdleClientType, SetClient DEF QuotaInv, TypeOK
<1>2. BusyHasBlob'
  BY DEF QuotaInv, TypeOK, BusyHasBlob, IdleClient
<1> QED
  BY <1>1, <1>2

\* The thread enters the library with a blob in hand.
LEMMA EnterInv ==
    ASSUME QuotaInv, NEW c \in Clients, NEW r \in ClientType,
           r.blob \in Blobs, cli' = [cli EXCEPT ![c] = r]
    PROVE  cli' \in [Clients -> ClientType] /\ BusyHasBlob'
<1>1. cli' \in [Clients -> ClientType]
  BY SetClient DEF QuotaInv, TypeOK
<1>2. BusyHasBlob'
  BY DEF QuotaInv, TypeOK, BusyHasBlob
<1> QED
  BY <1>1, <1>2

\* The quota check keeps the counters numbers and the memory limit: memory is
\* only granted out of what is available, and going to disk only releases it.
LEMMA ChargeKeepsLimit ==
    ASSUME QuotaInv, NEW s \in BlobType, z_blob_check_alloc(s), Charge(s)
    PROVE  mem_used' \in Int /\ disk_used' \in Int /\ mem_used' <= MemMax
<1>1. mem_used \in Int /\ disk_used \in Int /\ mem_used <= MemMax
  BY DEF QuotaInv, TypeOK, MemWithinLimit
<1>2. mem_used' \in Int /\ disk_used' \in Int
  BY <1>1, ChargeType
<1>3. s.alloc_req \in Int /\ SwappedOut(s) \in Nat
  BY SwapOutType DEF BlobType
<1>4. CASE s.is_in_file
  BY <1>1, <1>2, <1>4 DEF Charge
<1>5. CASE ~s.is_in_file /\ GoesToDisk(s)
  BY <1>1, <1>2, <1>3, <1>5, SizesAssumption DEF Charge
<1>6. CASE ~s.is_in_file /\ ~GoesToDisk(s)
  <2>1. mem_used' = mem_used + s.alloc_req
    BY <1>6 DEF Charge
  <2>2. s.alloc_req < 0 \/ s.alloc_req <= MemMax - mem_used
    BY <1>1, <1>3, <1>6, SizesAssumption
    DEF z_blob_check_alloc, FitsInMemory, mem_available, Gsize
  <2> QED
    BY <1>1, <1>2, <1>3, <2>1, <2>2, SizesAssumption
<1> QED
  BY <1>4, <1>5, <1>6

\* A freed-memory message is a message.
LEMMA QueueType ==
    ASSUME QuotaInv, NEW s, req_queue' = req_queue \o FreedMessage(s)
    PROVE  req_queue' \in Seq(Blobs \cup {MEM_FREED, KILL})
<1>1. FreedMessage(s) \in Seq(Blobs \cup {MEM_FREED, KILL})
  <2>1. <<MEM_FREED>> \in Seq(Blobs \cup {MEM_FREED, KILL})
    OBVIOUS
  <2>2. << >> \in Seq(Blobs \cup {MEM_FREED, KILL})
    OBVIOUS
  <2> QED
    BY <2>1, <2>2 DEF FreedMessage
<1> QED
  BY <1>1 DEF QuotaInv, TypeOK

-----------------------------------------------------------------------------
(* Every action keeps the invariant: the calls a thread enters. *)

LEMMA NewInv ==
    ASSUME QuotaInv, NEW c \in Clients, NEW b \in Blobs, NEW n \in InitialSizes,
           z_blob_new(c, b, n)
    PROVE  QuotaInv'
<1> DEFINE s == [FreshBlob EXCEPT !.ref_cnt = 1, !.holders = {c}]
           r == [pc |-> "alloc", blob |-> b, want |-> n, len |-> n, op |-> "new"]
<1>1. s \in BlobType
  <2>1. {c} \in SUBSET Clients /\ 1 \in Int
    OBVIOUS
  <2>2. \A k \in Int, h \in SUBSET Clients :
          [FreshBlob EXCEPT !.ref_cnt = k, !.holders = h] \in BlobType
    BY FreshBlobType, RefsType
  <2> QED
    BY <2>1, <2>2
<1>2. blob' \in [Blobs -> BlobType]
  BY <1>1, SetBlob DEF z_blob_new, QuotaInv, TypeOK
<1>3. n \in Nat
  BY SizesAssumption
<1>4. r \in ClientType
  BY <1>3 DEF ClientType
<1>5. cli' \in [Clients -> ClientType] /\ BusyHasBlob'
  <2>1. CASE n = 0
    BY <2>1 DEF z_blob_new, QuotaInv, TypeOK, BusyHasBlob
  <2>2. CASE n # 0
    BY <1>4, <2>2, EnterInv DEF z_blob_new
  <2> QED
    BY <2>1, <2>2
<1> QED
  BY <1>2, <1>5 DEF z_blob_new, QuotaInv, TypeOK, MemWithinLimit

\* Taking the lock of a blob.
LEMMA LockType ==
    ASSUME QuotaInv, NEW c \in Clients, NEW b \in Blobs, z_blob_lock(c, b)
    PROVE  blob' \in [Blobs -> BlobType]
<1>1. blob \in [Blobs -> BlobType] /\ blob[b] \in BlobType
  BY DEF QuotaInv, TypeOK
<1>2. [blob[b] EXCEPT !.mtx_lock = c] \in BlobType
  BY <1>1 DEF BlobType
<1>3. blob' = [blob EXCEPT ![b] = [blob[b] EXCEPT !.mtx_lock = c]]
  BY DEF z_blob_lock
<1> QED
  BY <1>1, <1>2, <1>3, SetBlob

\* The head of z_blob_alloc.
LEMMA EnterAllocInv ==
    ASSUME QuotaInv, NEW c \in Clients, NEW b \in Blobs, NEW n \in Nat,
           NEW op \in {"truncate", "write", "stream_mem", "stream_file", "stream_seek"},
           EnterAlloc(c, b, n, op)
    PROVE  cli' \in [Clients -> ClientType] /\ BusyHasBlob'
<1>1. PICK a \in req_alloc_size(blob[b], n) :
        cli' = [cli EXCEPT ![c] =
                  [pc |-> IF a = blob[b].alloc_size THEN "body" ELSE "alloc",
                   blob |-> b, want |-> a, len |-> n, op |-> op]]
  BY DEF EnterAlloc
<1>2. a \in Nat
  BY ReqAllocSizeType DEF QuotaInv, TypeOK
<1> DEFINE r == [pc |-> IF a = blob[b].alloc_size THEN "body" ELSE "alloc",
                 blob |-> b, want |-> a, len |-> n, op |-> op]
<1>3. r \in ClientType /\ r.blob \in Blobs
  BY <1>2 DEF ClientType
<1> QED
  BY <1>1, <1>3, EnterInv

LEMMA EnsureSpaceInv ==
    ASSUME QuotaInv, NEW c \in Clients, NEW b \in Blobs, NEW n \in Nat,
           NEW op \in {"truncate", "write", "stream_mem", "stream_file", "stream_seek"},
           EnsureSpace(c, b, n, op)
    PROVE  cli' \in [Clients -> ClientType] /\ BusyHasBlob'
<1> DEFINE r == [pc |-> "body", blob |-> b, want |-> blob[b].alloc_size,
                 len |-> n, op |-> op]
<1>1. CASE EnterAlloc(c, b, n, op)
  BY <1>1, EnterAllocInv
<1>2. CASE cli' = [cli EXCEPT ![c] = r]
  <2>1. blob[b].alloc_size \in Nat
    BY DEF QuotaInv, TypeOK, BlobType
  <2>2. r \in ClientType /\ r.blob \in Blobs
    BY <2>1 DEF ClientType
  <2> QED
    BY <1>2, <2>2, EnterInv
<1> QED
  BY <1>1, <1>2 DEF EnsureSpace

LEMMA LockedCallsInv ==
    ASSUME QuotaInv, NEW c \in Clients, NEW b \in Blobs, NEW n \in Nat,
           \/ z_blob_truncate(c, b, n)
           \/ z_blob_add_copy(c, b, n)
           \/ z_blob_read_from_stream(c, b, n)
           \/ StreamSeek(c, b, n)
    PROVE  QuotaInv'
<1>1. z_blob_lock(c, b) /\ UNCHANGED <<mem_used, disk_used, req_queue,
                                       waiting_list, blobs, mgr, sysd>>
  BY DEF z_blob_truncate, z_blob_add_copy, z_blob_read_from_stream, StreamSeek
<1>2. blob' \in [Blobs -> BlobType]
  BY <1>1, LockType
<1>3. cli' \in [Clients -> ClientType] /\ BusyHasBlob'
  <2>1. CASE z_blob_truncate(c, b, n)
    BY <2>1, EnterAllocInv DEF z_blob_truncate
  <2>2. CASE z_blob_add_copy(c, b, n)
    BY <2>2, EnsureSpaceInv DEF z_blob_add_copy
  <2>3. CASE z_blob_read_from_stream(c, b, n)
    BY <2>3, EnsureSpaceInv DEF z_blob_read_from_stream
  <2>4. CASE StreamSeek(c, b, n)
    BY <2>4, EnterAllocInv DEF StreamSeek
  <2> QED
    BY <2>1, <2>2, <2>3, <2>4
<1> QED
  BY <1>1, <1>2, <1>3 DEF QuotaInv, TypeOK, MemWithinLimit

-----------------------------------------------------------------------------
(* The steps of z_blob_alloc and the end of a call. *)

\* A busy thread's blob and its record.
LEMMA BusyBlob ==
    ASSUME QuotaInv, NEW c \in Clients, cli[c].pc # "idle"
    PROVE  /\ cli[c].blob \in Blobs
           /\ blob \in [Blobs -> BlobType]
           /\ blob[cli[c].blob] \in BlobType
           /\ cli[c] \in ClientType
BY DEF QuotaInv, TypeOK, BusyHasBlob

LEMMA StreamSeekedInv ==
    ASSUME QuotaInv, NEW c \in Clients, StreamSeeked(c)
    PROVE  QuotaInv'
<1>1. cli[c].pc # "idle"
  BY DEF StreamSeeked, At
<1>2. cli[c].blob \in Blobs
  BY <1>1, BusyBlob
<1>3. PICK n \in WriteSizes : EnsureSpace(c, cli[c].blob, n, "stream_file")
  BY DEF StreamSeeked
<1>4. n \in Nat
  BY SizesAssumption
<1>5. cli' \in [Clients -> ClientType] /\ BusyHasBlob'
  BY <1>2, <1>3, <1>4, EnsureSpaceInv
<1> QED
  BY <1>5 DEF StreamSeeked, QuotaInv, TypeOK, MemWithinLimit

LEMMA AllocCheckInv ==
    ASSUME QuotaInv, NEW c \in Clients, AllocCheck(c)
    PROVE  QuotaInv'
<1> DEFINE b == cli[c].blob
           s == [blob[b] EXCEPT !.alloc_req = cli[c].want - blob[b].alloc_size]
<1>1. cli[c].pc # "idle"
  BY DEF AllocCheck, At
<1>2. b \in Blobs /\ blob \in [Blobs -> BlobType] /\ blob[b] \in BlobType
      /\ cli[c] \in ClientType
  BY <1>1, BusyBlob
<1>3. cli[c].want - blob[b].alloc_size \in Int
  BY <1>2 DEF BlobType, ClientType
<1>4. s \in BlobType
  BY <1>2, <1>3 DEF BlobType
<1>5. CASE /\ z_blob_check_alloc(s)
           /\ Charge(s)
           /\ blob' = [blob EXCEPT ![b] = Stored(s)]
           /\ req_queue' = req_queue \o FreedMessage(s)
           /\ Goes(c, "finish")
  <2>1. mem_used' \in Int /\ disk_used' \in Int /\ mem_used' <= MemMax
    BY <1>4, <1>5, ChargeKeepsLimit
  <2>2. blob' \in [Blobs -> BlobType]
    BY <1>2, <1>4, <1>5, StoredType, SetBlob
  <2>3. req_queue' \in Seq(Blobs \cup {MEM_FREED, KILL})
    BY <1>5, QueueType
  <2>4. cli' \in [Clients -> ClientType] /\ BusyHasBlob'
    BY <1>1, <1>5, GoesInv DEF Goes
  <2> QED
    BY <2>1, <2>2, <2>3, <2>4
    DEF AllocCheck, QuotaInv, TypeOK, MemWithinLimit
<1>6. CASE /\ blob' = [blob EXCEPT ![b] = s]
           /\ Goes(c, "push")
           /\ UNCHANGED <<mem_used, disk_used, req_queue>>
  <2>1. blob' \in [Blobs -> BlobType]
    BY <1>2, <1>4, <1>6, SetBlob
  <2>2. cli' \in [Clients -> ClientType] /\ BusyHasBlob'
    BY <1>1, <1>6, GoesInv DEF Goes
  <2> QED
    BY <1>6, <2>1, <2>2 DEF AllocCheck, QuotaInv, TypeOK, MemWithinLimit
<1> QED
  BY <1>5, <1>6 DEF AllocCheck

LEMMA AllocPushInv ==
    ASSUME QuotaInv, NEW c \in Clients, AllocPush(c)
    PROVE  QuotaInv'
<1> DEFINE b == cli[c].blob
           s == [blob[b] EXCEPT !.approved = FALSE, !.replied = FALSE]
<1>1. cli[c].pc # "idle"
  BY DEF AllocPush, At
<1>2. b \in Blobs /\ blob \in [Blobs -> BlobType] /\ blob[b] \in BlobType
  BY <1>1, BusyBlob
<1>3. s \in BlobType
  BY <1>2 DEF BlobType
<1>4. blob' \in [Blobs -> BlobType]
  BY <1>2, <1>3, SetBlob DEF AllocPush
<1>5. cli' \in [Clients -> ClientType] /\ BusyHasBlob'
  BY <1>1, GoesInv DEF AllocPush, Goes
<1>6. req_queue' \in Seq(Blobs \cup {MEM_FREED, KILL})
  BY <1>2 DEF AllocPush, QuotaInv, TypeOK
<1> QED
  BY <1>4, <1>5, <1>6 DEF AllocPush, QuotaInv, TypeOK, MemWithinLimit

LEMMA AllocWokenInv ==
    ASSUME QuotaInv, NEW c \in Clients, AllocWoken(c)
    PROVE  QuotaInv'
<1>1. cli[c].pc # "idle"
  BY DEF AllocWoken, At
<1>2. cli' \in [Clients -> ClientType] /\ BusyHasBlob'
  <2>1. Goes(c, "finish") \/ Goes(c, "aborted")
    BY DEF AllocWoken
  <2> QED
    BY <1>1, <2>1, GoesInv DEF Goes
<1> QED
  BY <1>2 DEF AllocWoken, QuotaInv, TypeOK, MemWithinLimit

LEMMA AllocFinishInv ==
    ASSUME QuotaInv, NEW c \in Clients, AllocFinish(c)
    PROVE  QuotaInv'
<1> DEFINE b == cli[c].blob
           s == blob[b]
           n == cli[c].want
           m == Least(s.size, n)
           f == IF s.is_in_file THEN n ELSE s.file_len
<1>1. cli[c].pc # "idle"
  BY DEF AllocFinish, At
<1>2. b \in Blobs /\ blob \in [Blobs -> BlobType] /\ s \in BlobType
      /\ cli[c] \in ClientType
  BY <1>1, BusyBlob
<1>3. n \in Nat /\ m \in Nat /\ f \in Nat
  BY <1>2 DEF BlobType, ClientType, Least
<1> HIDE DEF m, f
<1>4. [s EXCEPT !.alloc_size = n, !.size = m, !.file_len = f] \in BlobType
  BY <1>2, <1>3 DEF BlobType
<1>5. blob' = [blob EXCEPT ![b] =
                 [s EXCEPT !.alloc_size = n, !.size = m, !.file_len = f]]
  BY DEF AllocFinish, m, f
<1>6. blob' \in [Blobs -> BlobType]
  BY <1>2, <1>4, <1>5, SetBlob
<1>7. cli' \in [Clients -> ClientType] /\ BusyHasBlob'
  BY <1>1, GoesInv DEF AllocFinish, Goes
<1> QED
  BY <1>6, <1>7 DEF AllocFinish, QuotaInv, TypeOK, MemWithinLimit

\* The end of a call: the size may grow, the lock is released.
LEMMA FinishInv ==
    ASSUME QuotaInv, NEW c \in Clients, NEW b \in Blobs, NEW e \in Nat,
           Finish(c, b, e)
    PROVE  /\ blob' \in [Blobs -> BlobType]
           /\ cli' \in [Clients -> ClientType]
           /\ BusyHasBlob'
<1> DEFINE s == blob[b]
           m == Most(s.size, e)
           f == IF s.is_in_file THEN Most(s.file_len, e) ELSE s.file_len
<1>1. blob \in [Blobs -> BlobType] /\ s \in BlobType
  BY DEF QuotaInv, TypeOK
<1>2. m \in Nat /\ f \in Nat
  BY <1>1 DEF BlobType, Most
<1> HIDE DEF m, f
<1>3. [s EXCEPT !.size = m, !.file_len = f, !.mtx_lock = NoOne] \in BlobType
  BY <1>1, <1>2 DEF BlobType
<1>4. blob' = [blob EXCEPT ![b] =
                 [s EXCEPT !.size = m, !.file_len = f, !.mtx_lock = NoOne]]
  BY DEF Finish, m, f
<1>5. blob' \in [Blobs -> BlobType]
  BY <1>1, <1>3, <1>4, SetBlob
<1> QED
  BY <1>5, IdleInv DEF Finish

LEMMA CallBodyInv ==
    ASSUME QuotaInv, NEW c \in Clients, CallBody(c)
    PROVE  QuotaInv'
<1> DEFINE b == cli[c].blob
<1>1. cli[c].pc # "idle"
  BY DEF CallBody, At
<1>2. b \in Blobs /\ cli[c] \in ClientType
  BY <1>1, BusyBlob
<1>3. PICK e \in WrittenUpTo(blob[b], cli[c].op, cli[c].len) :
        (Goes(c, "null_write") /\ UNCHANGED blob) \/ Finish(c, b, e)
  BY DEF CallBody
<1>4. e \in Nat
  <2>1. cli[c].len \in Nat
    BY <1>2 DEF ClientType
  <2> QED
    BY <2>1 DEF WrittenUpTo
<1>5. CASE Goes(c, "null_write") /\ UNCHANGED blob
  BY <1>1, <1>5, GoesInv DEF CallBody, Goes, QuotaInv, TypeOK, MemWithinLimit
<1>6. CASE Finish(c, b, e)
  BY <1>2, <1>4, <1>6, FinishInv DEF CallBody, QuotaInv, TypeOK, MemWithinLimit
<1> QED
  BY <1>3, <1>5, <1>6

-----------------------------------------------------------------------------
(* Reading, pointers, files and references. *)

\* Entering a call that does not allocate.
LEMMA EnterOtherInv ==
    ASSUME QuotaInv, NEW c \in Clients, NEW b \in Blobs, NEW n \in Nat,
           NEW w \in {"read", "getptr", "aborted", "file", "swapout"},
           NEW op \in {"read", "ptr", "file"},
           cli' = [cli EXCEPT ![c] = [pc |-> w, blob |-> b, want |-> 0,
                                      len |-> n, op |-> op]]
    PROVE  cli' \in [Clients -> ClientType] /\ BusyHasBlob'
<1> DEFINE r == [pc |-> w, blob |-> b, want |-> 0, len |-> n, op |-> op]
<1>1. r \in ClientType /\ r.blob \in Blobs
  BY DEF ClientType
<1> QED
  BY <1>1, EnterInv

LEMMA GetCopyInv ==
    ASSUME QuotaInv, NEW c \in Clients, NEW b \in Blobs, NEW n \in Nat,
           z_blob_get_copy(c, b, n)
    PROVE  QuotaInv'
<1>1. Least(n, blob[b].size) \in Nat
  BY DEF QuotaInv, TypeOK, BlobType, Least
<1>2. cli' \in [Clients -> ClientType] /\ BusyHasBlob'
  BY <1>1, EnterOtherInv DEF z_blob_get_copy
<1> QED
  BY <1>2 DEF z_blob_get_copy, QuotaInv, TypeOK, MemWithinLimit

LEMMA GetCopyLockedInv ==
    ASSUME QuotaInv, NEW c \in Clients, GetCopyLocked(c)
    PROVE  QuotaInv'
<1>1. cli[c].pc # "idle"
  BY DEF GetCopyLocked, At
<1>2. \/ cli' = [cli EXCEPT ![c].pc = "overrun"]
      \/ cli' = [cli EXCEPT ![c] = IdleClient]
  BY DEF GetCopyLocked
<1>3. cli' \in [Clients -> ClientType] /\ BusyHasBlob'
  BY <1>1, <1>2, GoesInv, IdleInv
<1> QED
  BY <1>3 DEF GetCopyLocked, QuotaInv, TypeOK, MemWithinLimit

LEMMA GetPtrInv ==
    ASSUME QuotaInv, NEW c \in Clients, NEW b \in Blobs, z_blob_get_ptr(c, b)
    PROVE  QuotaInv'
<1>1. PICK w \in {"getptr", "aborted"} :
        cli' = [cli EXCEPT ![c] = [pc |-> w, blob |-> b, want |-> 0,
                                   len |-> 0, op |-> "ptr"]]
  BY DEF z_blob_get_ptr
<1>2. cli' \in [Clients -> ClientType] /\ BusyHasBlob'
  <2>1. /\ w \in {"read", "getptr", "aborted", "file", "swapout"}
        /\ 0 \in Nat
    BY <1>1
  <2> QED
    BY <1>1, <2>1, EnterOtherInv
<1> QED
  BY <1>2 DEF z_blob_get_ptr, QuotaInv, TypeOK, MemWithinLimit

LEMMA GetPtrLockedInv ==
    ASSUME QuotaInv, NEW c \in Clients, GetPtrLocked(c)
    PROVE  QuotaInv'
<1> DEFINE b == cli[c].blob
           n == blob[b].size
<1>1. cli[c].pc # "idle"
  BY DEF GetPtrLocked, At
<1>2. b \in Blobs /\ blob[b] \in BlobType /\ cli[c] \in ClientType
  BY <1>1, BusyBlob
<1>3. CASE cli' = [cli EXCEPT ![c] = IdleClient] /\ UNCHANGED blob
  BY <1>3, IdleInv DEF GetPtrLocked, QuotaInv, TypeOK, MemWithinLimit
<1>4. CASE /\ z_blob_lock(c, b)
           /\ cli' = [cli EXCEPT ![c] = [cli[c] EXCEPT !.pc = "ptr", !.len = n]]
  <2>1. n \in Nat
    BY <1>2 DEF BlobType
  <2> HIDE DEF n
  <2>2. [cli[c] EXCEPT !.pc = "ptr", !.len = n] \in ClientType
    BY <1>2, <2>1 DEF ClientType
  <2>3. [cli[c] EXCEPT !.pc = "ptr", !.len = n].blob \in Blobs
    BY <1>2 DEF ClientType
  <2>4. cli' \in [Clients -> ClientType] /\ BusyHasBlob'
    BY <1>4, <2>2, <2>3, EnterInv
  <2>5. blob' \in [Blobs -> BlobType]
    BY <1>2, <1>4, LockType
  <2> QED
    BY <2>4, <2>5 DEF GetPtrLocked, QuotaInv, TypeOK, MemWithinLimit
<1> QED
  BY <1>3, <1>4 DEF GetPtrLocked

LEMMA FreePtrInv ==
    ASSUME QuotaInv, NEW c \in Clients, z_blob_free_ptr(c)
    PROVE  QuotaInv'
<1>1. cli[c].pc # "idle"
  BY DEF z_blob_free_ptr, At
<1>2. cli[c].blob \in Blobs
  BY <1>1, BusyBlob
<1>3. CASE Goes(c, "aborted") /\ UNCHANGED blob
  BY <1>1, <1>3, GoesInv
  DEF z_blob_free_ptr, Goes, QuotaInv, TypeOK, MemWithinLimit
<1>4. CASE Finish(c, cli[c].blob, 0)
  BY <1>2, <1>4, FinishInv DEF z_blob_free_ptr, QuotaInv, TypeOK, MemWithinLimit
<1> QED
  BY <1>3, <1>4 DEF z_blob_free_ptr

LEMMA GetFileInv ==
    ASSUME QuotaInv, NEW c \in Clients, NEW b \in Blobs, z_blob_get_file(c, b)
    PROVE  QuotaInv'
<1>1. PICK w \in {"file", "swapout"} :
        cli' = [cli EXCEPT ![c] = [pc |-> w, blob |-> b, want |-> 0,
                                   len |-> 0, op |-> "file"]]
  BY DEF z_blob_get_file
<1>2. cli' \in [Clients -> ClientType] /\ BusyHasBlob'
  <2>1. /\ w \in {"read", "getptr", "aborted", "file", "swapout"}
        /\ 0 \in Nat
    BY <1>1
  <2> QED
    BY <1>1, <2>1, EnterOtherInv
<1>3. blob' \in [Blobs -> BlobType]
  BY LockType DEF z_blob_get_file
<1> QED
  BY <1>2, <1>3 DEF z_blob_get_file, QuotaInv, TypeOK, MemWithinLimit

LEMMA GetFileSwapOutInv ==
    ASSUME QuotaInv, NEW c \in Clients, GetFileSwapOut(c)
    PROVE  QuotaInv'
<1> DEFINE b == cli[c].blob
<1>1. cli[c].pc # "idle"
  BY DEF GetFileSwapOut, At
<1>2. b \in Blobs /\ blob \in [Blobs -> BlobType] /\ blob[b] \in BlobType
  BY <1>1, BusyBlob
<1>3. z_blob_swap_out(blob[b]) \in BlobType /\ SwappedOut(blob[b]) \in Nat
  BY <1>2, SwapOutType
<1>4. blob' \in [Blobs -> BlobType]
  BY <1>2, <1>3, SetBlob DEF GetFileSwapOut
<1>5. mem_used' \in Int /\ disk_used' \in Int /\ mem_used' <= MemMax
  BY <1>3, SizesAssumption DEF GetFileSwapOut, QuotaInv, TypeOK, MemWithinLimit
<1>6. cli' \in [Clients -> ClientType] /\ BusyHasBlob'
  BY <1>1, GoesInv DEF GetFileSwapOut, Goes
<1> QED
  BY <1>4, <1>5, <1>6 DEF GetFileSwapOut, QuotaInv, TypeOK, MemWithinLimit

LEMMA GetFileFailsInv ==
    ASSUME QuotaInv, NEW c \in Clients, GetFileFails(c)
    PROVE  QuotaInv'
<1>1. cli[c].pc # "idle"
  BY DEF GetFileFails, At
<1>2. cli[c].blob \in Blobs
  BY <1>1, BusyBlob
<1> QED
  BY <1>2, FinishInv DEF GetFileFails, QuotaInv, TypeOK, MemWithinLimit

LEMMA AppWritesFileInv ==
    ASSUME QuotaInv, NEW c \in Clients, NEW n \in Nat, AppWritesFile(c, n)
    PROVE  QuotaInv'
<1> DEFINE b == cli[c].blob
<1>1. cli[c].pc # "idle"
  BY DEF AppWritesFile, At
<1>2. b \in Blobs /\ blob \in [Blobs -> BlobType] /\ blob[b] \in BlobType
      /\ cli[c] \in ClientType
  BY <1>1, BusyBlob
<1>3. [blob[b] EXCEPT !.file_len = n] \in BlobType
  BY <1>2 DEF BlobType
<1>4. blob' = [blob EXCEPT ![b] = [blob[b] EXCEPT !.file_len = n]]
  BY DEF AppWritesFile
<1>5. blob' \in [Blobs -> BlobType]
  BY <1>2, <1>3, <1>4, SetBlob
<1>6. [cli[c] EXCEPT !.op = "written"] \in ClientType
      /\ [cli[c] EXCEPT !.op = "written"].blob \in Blobs
  BY <1>2 DEF ClientType
<1>7. cli' = [cli EXCEPT ![c] = [cli[c] EXCEPT !.op = "written"]]
  BY DEF AppWritesFile
<1>8. cli' \in [Clients -> ClientType] /\ BusyHasBlob'
  BY <1>6, <1>7, EnterInv
<1> QED
  BY <1>5, <1>8 DEF AppWritesFile, QuotaInv, TypeOK, MemWithinLimit

LEMMA ReleaseFileInv ==
    ASSUME QuotaInv, NEW c \in Clients, z_blob_release_file(c)
    PROVE  QuotaInv'
<1> DEFINE b == cli[c].blob
           n == blob[b].file_len
<1>1. cli[c].pc # "idle"
  BY DEF z_blob_release_file, At
<1>2. b \in Blobs /\ blob \in [Blobs -> BlobType] /\ blob[b] \in BlobType
  BY <1>1, BusyBlob
<1>3. n \in Nat
  BY <1>2 DEF BlobType
<1>4. blob' = [blob EXCEPT ![b] = [blob[b] EXCEPT !.size = n, !.alloc_size = n,
                                                  !.mtx_lock = NoOne]]
  BY DEF z_blob_release_file
<1> HIDE DEF n
<1>5. [blob[b] EXCEPT !.size = n, !.alloc_size = n, !.mtx_lock = NoOne] \in BlobType
  BY <1>2, <1>3 DEF BlobType
<1>6. blob' \in [Blobs -> BlobType]
  BY <1>2, <1>4, <1>5, SetBlob
<1> QED
  BY <1>6, IdleInv DEF z_blob_release_file, QuotaInv, TypeOK, MemWithinLimit

LEMMA StorageLockInv ==
    ASSUME QuotaInv, NEW c \in Clients, NEW b \in Blobs, NEW st \in BOOLEAN,
           z_blob_storage_lock(c, b, st)
    PROVE  QuotaInv'
<1>1. blob \in [Blobs -> BlobType] /\ blob[b] \in BlobType
  BY DEF QuotaInv, TypeOK
<1>2. [blob[b] EXCEPT !.storage_locked = st] \in BlobType
  BY <1>1 DEF BlobType
<1>3. blob' = [blob EXCEPT ![b] = [blob[b] EXCEPT !.storage_locked = st]]
  BY DEF z_blob_storage_lock
<1>4. blob' \in [Blobs -> BlobType]
  BY <1>1, <1>2, <1>3, SetBlob
<1> QED
  BY <1>4 DEF z_blob_storage_lock, QuotaInv, TypeOK, BusyHasBlob, MemWithinLimit

LEMMA RefInv ==
    ASSUME QuotaInv, NEW c \in Clients, NEW d \in Clients, NEW b \in Blobs,
           z_blob_ref(c, d, b)
    PROVE  QuotaInv'
<1> DEFINE n == blob[b].ref_cnt + 1
           h == blob[b].holders \cup {d}
<1>1. blob \in [Blobs -> BlobType] /\ blob[b] \in BlobType
  BY DEF QuotaInv, TypeOK
<1>2. n \in Int /\ h \in SUBSET Clients
  BY <1>1 DEF BlobType
<1>3. blob' = [blob EXCEPT ![b] = [blob[b] EXCEPT !.ref_cnt = n, !.holders = h]]
  BY DEF z_blob_ref, Referenced
<1>4. blob' \in [Blobs -> BlobType]
  BY <1>1, <1>2, <1>3, RefsType, SetBlob
<1> QED
  BY <1>4 DEF z_blob_ref, QuotaInv, TypeOK, BusyHasBlob, MemWithinLimit

LEMMA UnrefInv ==
    ASSUME QuotaInv, NEW c \in Clients, NEW b \in Blobs, z_blob_unref(c, b)
    PROVE  QuotaInv'
<1> DEFINE n == blob[b].ref_cnt - 1
           h == blob[b].holders \ {c}
           r == [cli[c] EXCEPT !.pc = "destroy", !.blob = b]
<1>1. /\ blob \in [Blobs -> BlobType]
      /\ blob[b] \in BlobType
      /\ cli[c] \in ClientType
  BY DEF QuotaInv, TypeOK
<1>2. n \in Int /\ h \in SUBSET Clients
  BY <1>1 DEF BlobType
<1>3. blob' = [blob EXCEPT ![b] = [blob[b] EXCEPT !.ref_cnt = n, !.holders = h]]
  BY DEF z_blob_unref
<1>4. blob' \in [Blobs -> BlobType]
  BY <1>1, <1>2, <1>3, RefsType, SetBlob
<1>5. r \in ClientType /\ r.blob \in Blobs
  BY <1>1 DEF ClientType
<1>6. cli' = cli \/ cli' = [cli EXCEPT ![c] = r]
  BY DEF z_blob_unref
<1>7. cli' \in [Clients -> ClientType] /\ BusyHasBlob'
  <2>1. CASE cli' = cli
    BY <2>1 DEF QuotaInv, TypeOK, BusyHasBlob
  <2>2. CASE cli' = [cli EXCEPT ![c] = r]
    BY <1>5, <2>2, EnterInv
  <2> QED
    BY <1>6, <2>1, <2>2
<1> QED
  BY <1>4, <1>7 DEF z_blob_unref, QuotaInv, TypeOK, MemWithinLimit

LEMMA DestroyInv ==
    ASSUME QuotaInv, NEW b \in Blobs, Destroy(b)
    PROVE  /\ mem_used' \in Int /\ disk_used' \in Int /\ mem_used' <= MemMax
           /\ blob' \in [Blobs -> BlobType]
           /\ blobs' \subseteq Blobs
           /\ req_queue' \in Seq(Blobs \cup {MEM_FREED, KILL})
<1> DEFINE s == [blob[b] EXCEPT !.alloc_req = 0 - blob[b].alloc_size]
<1>1. blob \in [Blobs -> BlobType] /\ blob[b] \in BlobType
  BY DEF QuotaInv, TypeOK
<1>2. 0 - blob[b].alloc_size \in Int /\ 0 - blob[b].alloc_size <= 0
  BY <1>1 DEF BlobType
<1>3. s \in BlobType /\ s.alloc_req = 0 - blob[b].alloc_size
  BY <1>1, <1>2 DEF BlobType
<1>4. z_blob_check_alloc(s)
  <2>1. 0 <= mem_available
    BY SizesAssumption
    DEF mem_available, Gsize, QuotaInv, TypeOK, MemWithinLimit
  <2>2. s.alloc_req < 0 \/ s.alloc_req = 0
    BY <1>2, <1>3
  <2> HIDE DEF s
  <2>3. FitsInMemory(s)
    BY <2>1, <2>2 DEF FitsInMemory
  <2> QED
    BY <2>3 DEF z_blob_check_alloc
<1>5. Charge(s) /\ req_queue' = req_queue \o FreedMessage(s)
      /\ blobs' = blobs \ {b} /\ blob' = [blob EXCEPT ![b] = FreshBlob]
  BY DEF Destroy
<1> HIDE DEF s
<1>6. mem_used' \in Int /\ disk_used' \in Int /\ mem_used' <= MemMax
  BY <1>3, <1>4, <1>5, ChargeKeepsLimit
<1>7. req_queue' \in Seq(Blobs \cup {MEM_FREED, KILL})
  BY <1>5, QueueType
<1>8. blob' \in [Blobs -> BlobType]
  BY <1>1, <1>5, FreshBlobType, SetBlob
<1> QED
  BY <1>5, <1>6, <1>7, <1>8 DEF QuotaInv, TypeOK

LEMMA UnrefDestroyInv ==
    ASSUME QuotaInv, NEW c \in Clients, UnrefDestroy(c)
    PROVE  QuotaInv'
<1>1. cli[c].pc # "idle"
  BY DEF UnrefDestroy, At
<1>2. cli[c].blob \in Blobs
  BY <1>1, BusyBlob
<1>3. cli' \in [Clients -> ClientType] /\ BusyHasBlob'
  BY IdleInv DEF UnrefDestroy
<1> QED
  BY <1>2, <1>3, DestroyInv DEF UnrefDestroy, QuotaInv, TypeOK, MemWithinLimit

-----------------------------------------------------------------------------
(* The management thread. *)

\* Granting a request of blob b late, from the queue or the waiting list.
LEMMA LateGrantInv ==
    ASSUME QuotaInv, NEW b \in Blobs,
           z_blob_check_alloc(blob[b]), GrantLate(b)
    PROVE  /\ mem_used' \in Int /\ disk_used' \in Int /\ mem_used' <= MemMax
           /\ blob' \in [Blobs -> BlobType]
           /\ req_queue' \in Seq(Blobs \cup {MEM_FREED, KILL})
<1>1. blob \in [Blobs -> BlobType] /\ blob[b] \in BlobType
  BY DEF QuotaInv, TypeOK
<1>2. Stored(blob[b]) \in BlobType
  BY <1>1, StoredType
<1>3. Answered(Stored(blob[b]), TRUE) \in BlobType
  BY <1>2 DEF Answered, BlobType
<1>4. blob' \in [Blobs -> BlobType]
  BY <1>1, <1>3, SetBlob DEF GrantLate
<1> QED
  BY <1>1, <1>4, ChargeKeepsLimit, QueueType DEF GrantLate

\* A denial only clears approved.
LEMMA DenyType ==
    ASSUME QuotaInv, NEW b \in Blobs, blob' = [blob EXCEPT ![b].approved = FALSE]
    PROVE  blob' \in [Blobs -> BlobType]
<1>1. blob \in [Blobs -> BlobType] /\ blob[b] \in BlobType
  BY DEF QuotaInv, TypeOK
<1>2. [blob[b] EXCEPT !.approved = FALSE] \in BlobType
  BY <1>1 DEF BlobType
<1>3. blob' = [blob EXCEPT ![b] = [blob[b] EXCEPT !.approved = FALSE]]
  OBVIOUS
<1> QED
  BY <1>1, <1>2, <1>3, SetBlob

LEMMA MgrRequestInv ==
    ASSUME QuotaInv, MgrRequest
    PROVE  QuotaInv'
<1> DEFINE b == mgr.item
<1>1. b \in Blobs
  BY DEF MgrRequest
<1>2. mgr' \in ManagerType
  BY DEF MgrRequest, QuotaInv, TypeOK, ManagerType
<1>3. CASE /\ z_blob_check_alloc(blob[b])
           /\ GrantLate(b)
           /\ UNCHANGED waiting_list
  BY <1>1, <1>2, <1>3, LateGrantInv
  DEF MgrRequest, QuotaInv, TypeOK, BusyHasBlob, MemWithinLimit
<1>4. CASE Defer(b) /\ UNCHANGED <<mem_used, disk_used>>
  <2>1. blob' \in [Blobs -> BlobType]
    BY <1>1, <1>4, DenyType DEF Defer
  <2>2. waiting_list' \in Seq(Blobs)
    BY <1>1, <1>4 DEF Defer, QuotaInv, TypeOK
  <2> QED
    BY <1>2, <1>4, <2>1, <2>2
    DEF MgrRequest, Defer, QuotaInv, TypeOK, BusyHasBlob, MemWithinLimit
<1> QED
  BY <1>3, <1>4 DEF MgrRequest

\* Deleting an entry of a list leaves a list.
LEMMA RemoveAtType ==
    ASSUME NEW S, NEW q \in Seq(S), NEW i \in 1 .. Len(q)
    PROVE  RemoveAt(q, i) \in Seq(S)
<1>1. SubSeq(q, 1, i - 1) \in Seq(S)
  <2>1. \A k \in 1 .. i - 1 : q[k] \in S
    BY ElementOfSeq
  <2> QED
    BY <2>1
<1>2. SubSeq(q, i + 1, Len(q)) \in Seq(S)
  <2>1. \A k \in i + 1 .. Len(q) : q[k] \in S
    BY ElementOfSeq
  <2> QED
    BY <2>1
<1> QED
  BY <1>1, <1>2, ConcatProperties DEF RemoveAt

LEMMA MgrScanInv ==
    ASSUME QuotaInv, MgrScan
    PROVE  QuotaInv'
<1> DEFINE b == waiting_list[mgr.pos]
<1>1. mgr.pos \in 1 .. Len(waiting_list) /\ waiting_list \in Seq(Blobs)
  BY DEF MgrScan, QuotaInv, TypeOK, ManagerType
<1>2. b \in Blobs
  BY <1>1
<1>3. CASE /\ z_blob_check_alloc(blob[b])
           /\ GrantLate(b)
           /\ waiting_list' = Delete(mgr.pos)
           /\ UNCHANGED mgr
  <2>1. waiting_list' \in Seq(Blobs)
    BY <1>1, <1>3, RemoveAtType DEF Delete
  <2> QED
    BY <1>2, <1>3, <2>1, LateGrantInv
    DEF MgrScan, QuotaInv, TypeOK, BusyHasBlob, MemWithinLimit
<1>4. CASE /\ blob' = [blob EXCEPT ![b].approved = FALSE]
           /\ mgr' = [mgr EXCEPT !.pos = mgr.pos + 1]
           /\ UNCHANGED <<mem_used, disk_used, req_queue, waiting_list>>
  <2>1. blob' \in [Blobs -> BlobType]
    BY <1>2, <1>4, DenyType
  <2>2. mgr' \in ManagerType
    <3>1. mgr \in ManagerType
      BY DEF QuotaInv, TypeOK
    <3>2. mgr.pos + 1 \in Nat \ {0}
      BY <3>1 DEF ManagerType
    <3>3. \A q \in Nat \ {0} : [mgr EXCEPT !.pos = q] \in ManagerType
      BY <3>1 DEF ManagerType
    <3> QED
      BY <1>4, <3>2, <3>3
  <2> QED
    BY <1>4, <2>1, <2>2
    DEF MgrScan, QuotaInv, TypeOK, BusyHasBlob, MemWithinLimit
<1> QED
  BY <1>3, <1>4 DEF MgrScan

\* Swapping in stays below hiwat, which is below the limit.
LEMMA MgrSwapInInv ==
    ASSUME QuotaInv, NEW b \in Blobs, MgrSwapIn(b)
    PROVE  QuotaInv'
<1>1. blob \in [Blobs -> BlobType] /\ blob[b] \in BlobType
  BY DEF QuotaInv, TypeOK
<1>2. [blob[b] EXCEPT !.is_in_file = FALSE, !.file_len = 0] \in BlobType
  BY <1>1 DEF BlobType
<1>3. blob' \in [Blobs -> BlobType]
  BY <1>1, <1>2, SetBlob DEF MgrSwapIn
<1>4. blob[b].alloc_size \in Nat
  BY <1>1 DEF BlobType
<1>5. hiwat \in Int /\ hiwat <= MemMax /\ MemMax \in Int
  BY SizesAssumption DEF hiwat
<1>6. blob[b].alloc_size <= hiwat - mem_used
  BY DEF MgrSwapIn, SwapInCandidate
<1>7. mem_used' \in Int /\ disk_used' \in Int /\ mem_used' <= MemMax
  BY <1>4, <1>5, <1>6 DEF MgrSwapIn, QuotaInv, TypeOK
<1> QED
  BY <1>3, <1>7 DEF MgrSwapIn, QuotaInv, TypeOK, BusyHasBlob, MemWithinLimit

LEMMA MgrOtherInv ==
    ASSUME QuotaInv, MgrPop \/ MgrFreed \/ MgrScanDone \/ MgrSwapInDone
    PROVE  QuotaInv'
<1>1. CASE MgrPop
  <2>1. /\ Head(req_queue) \in Blobs \cup {MEM_FREED, KILL}
        /\ Tail(req_queue) \in Seq(Blobs \cup {MEM_FREED, KILL})
    BY <1>1 DEF MgrPop, QuotaInv, TypeOK
  <2>2. mgr' \in ManagerType
    BY <1>1, <2>1 DEF MgrPop, ManagerType
  <2> QED
    BY <1>1, <2>1, <2>2 DEF MgrPop, QuotaInv, TypeOK, BusyHasBlob, MemWithinLimit
<1>2. CASE MgrFreed
  BY <1>2 DEF MgrFreed, QuotaInv, TypeOK, BusyHasBlob, MemWithinLimit, ManagerType
<1>3. CASE MgrScanDone
  BY <1>3
  DEF MgrScanDone, QuotaInv, TypeOK, BusyHasBlob, MemWithinLimit, ManagerType
<1>4. CASE MgrSwapInDone
  BY <1>4
  DEF MgrSwapInDone, QuotaInv, TypeOK, BusyHasBlob, MemWithinLimit, ManagerType
<1> QED
  BY <1>1, <1>2, <1>3, <1>4

-----------------------------------------------------------------------------
(* The teardown. *)

LEMMA SysRefuseInv ==
    ASSUME QuotaInv, SysRefuse
    PROVE  QuotaInv'
<1> DEFINE b == Head(waiting_list)
<1>1. b \in Blobs /\ Tail(waiting_list) \in Seq(Blobs)
  BY DEF SysRefuse, QuotaInv, TypeOK
<1>2. blob \in [Blobs -> BlobType] /\ blob[b] \in BlobType
  BY <1>1 DEF QuotaInv, TypeOK
<1>3. Answered(blob[b], FALSE) \in BlobType
  BY <1>2 DEF Answered, BlobType
<1>4. blob' \in [Blobs -> BlobType]
  BY <1>2, <1>3, SetBlob DEF SysRefuse
<1> QED
  BY <1>1, <1>4 DEF SysRefuse, QuotaInv, TypeOK, BusyHasBlob, MemWithinLimit

LEMMA SysUnrefBlobInv ==
    ASSUME QuotaInv, NEW b \in Blobs, SysUnrefBlob(b)
    PROVE  QuotaInv'
<1>1. sysd' \in [pc : {"up", "join", "unref", "gone"}, left : SUBSET Blobs]
  BY DEF SysUnrefBlob, QuotaInv, TypeOK
<1>2. CASE Destroy(b)
  BY <1>1, <1>2, DestroyInv
  DEF SysUnrefBlob, QuotaInv, TypeOK, BusyHasBlob, MemWithinLimit
<1>3. CASE /\ blob' = [blob EXCEPT ![b].ref_cnt = blob[b].ref_cnt - 1]
           /\ UNCHANGED <<mem_used, disk_used, req_queue, blobs>>
  <2>1. blob \in [Blobs -> BlobType] /\ blob[b] \in BlobType
    BY DEF QuotaInv, TypeOK
  <2>2. blob[b].ref_cnt - 1 \in Int
    BY <2>1 DEF BlobType
  <2>3. [blob[b] EXCEPT !.ref_cnt = blob[b].ref_cnt - 1] \in BlobType
    BY <2>1, <2>2 DEF BlobType
  <2>4. blob' = [blob EXCEPT ![b] =
                   [blob[b] EXCEPT !.ref_cnt = blob[b].ref_cnt - 1]]
    BY <1>3
  <2>5. blob' \in [Blobs -> BlobType]
    BY <2>1, <2>3, <2>4, SetBlob
  <2> QED
    BY <1>1, <1>3, <2>5
    DEF SysUnrefBlob, QuotaInv, TypeOK, BusyHasBlob, MemWithinLimit
<1>4. CASE UNCHANGED <<mem_used, disk_used, req_queue, blobs, blob>>
  BY <1>1, <1>4 DEF SysUnrefBlob, QuotaInv, TypeOK, BusyHasBlob, MemWithinLimit
<1> QED
  BY <1>2, <1>3, <1>4 DEF SysUnrefBlob

LEMMA SysOtherInv ==
    ASSUME QuotaInv, SysUnref \/ SysRefused \/ SysGone
    PROVE  QuotaInv'
<1>1. CASE SysUnref
  <2>1. req_queue' \in Seq(Blobs \cup {MEM_FREED, KILL})
    BY <1>1 DEF SysUnref, QuotaInv, TypeOK
  <2> QED
    BY <1>1, <2>1 DEF SysUnref, QuotaInv, TypeOK, BusyHasBlob, MemWithinLimit
<1>2. CASE SysRefused
  BY <1>2 DEF SysRefused, QuotaInv, TypeOK, BusyHasBlob, MemWithinLimit
<1>3. CASE SysGone
  BY <1>3 DEF SysGone, QuotaInv, TypeOK, BusyHasBlob, MemWithinLimit
<1> QED
  BY <1>1, <1>2, <1>3

-----------------------------------------------------------------------------
(* The theorems. *)

LEMMA QuotaInit == Init => QuotaInv
<1> SUFFICES ASSUME Init PROVE QuotaInv
  OBVIOUS
<1>1. blob \in [Blobs -> BlobType] /\ cli \in [Clients -> ClientType]
  BY FreshBlobType, IdleClientType DEF Init
<1>2. BusyHasBlob
  BY DEF Init, BusyHasBlob, IdleClient
<1>3. mgr \in ManagerType
  BY DEF Init, ManagerType
<1> QED
  BY <1>1, <1>2, <1>3, SizesAssumption DEF Init, QuotaInv, TypeOK, MemWithinLimit

LEMMA QuotaNext == QuotaInv /\ [Next]_vars => QuotaInv'
<1> SUFFICES ASSUME QuotaInv, [Next]_vars PROVE QuotaInv'
  OBVIOUS
<1>1. ASSUME NEW c \in Clients, Calls(c) PROVE QuotaInv'
  <2>1. PICK b \in Blobs :
          \/ \E n \in InitialSizes : z_blob_new(c, b, n)
          \/ \E n \in TruncSizes : z_blob_truncate(c, b, n)
          \/ \E n \in WriteSizes : z_blob_add_copy(c, b, n)
          \/ \E n \in WriteSizes : z_blob_read_from_stream(c, b, n)
          \/ \E p \in WriteSizes : StreamSeek(c, b, p)
          \/ \E n \in WriteSizes : z_blob_get_copy(c, b, n)
          \/ z_blob_get_ptr(c, b)
          \/ z_blob_get_file(c, b)
          \/ \E st \in BOOLEAN : z_blob_storage_lock(c, b, st)
          \/ \E d \in Clients : z_blob_ref(c, d, b)
          \/ z_blob_unref(c, b)
    BY <1>1 DEF Calls
  <2>2. TruncSizes \subseteq Nat /\ WriteSizes \subseteq Nat
    BY SizesAssumption
  <2> QED
    BY <2>1, <2>2, NewInv, LockedCallsInv, GetCopyInv, GetPtrInv, GetFileInv,
       StorageLockInv, RefInv, UnrefInv
<1>2. ASSUME NEW c \in Clients, Continues(c) PROVE QuotaInv'
  BY <1>2, AllocCheckInv, AllocPushInv, AllocWokenInv, AllocFinishInv,
     StreamSeekedInv, CallBodyInv, GetCopyLockedInv, GetPtrLockedInv, GetFileSwapOutInv,
     UnrefDestroyInv
  DEF Continues
<1>3. ASSUME NEW c \in Clients,
             Returns(c) \/ GetFileFails(c) \/ \E n \in WriteSizes : AppWritesFile(c, n)
      PROVE  QuotaInv'
  <2>1. WriteSizes \subseteq Nat
    BY SizesAssumption
  <2> QED
    BY <1>3, <2>1, FreePtrInv, ReleaseFileInv, GetFileFailsInv, AppWritesFileInv
    DEF Returns
<1>4. CASE Manager
  BY <1>4, MgrRequestInv, MgrScanInv, MgrSwapInInv, MgrOtherInv DEF Manager
<1>5. CASE SysUnref \/ Teardown
  BY <1>5, SysRefuseInv, SysUnrefBlobInv, SysOtherInv DEF Teardown
<1>6. CASE UNCHANGED vars
  BY <1>6 DEF vars, QuotaInv, TypeOK, BusyHasBlob, MemWithinLimit
<1> QED
  BY <1>1, <1>2, <1>3, <1>4, <1>5, <1>6 DEF Next

\* The variables keep their types in every behaviour of the blob system.
THEOREM TypeCorrect == Spec => []TypeOK
<1>1. QuotaInv => TypeOK
  BY DEF QuotaInv
<1> QED
  BY <1>1, QuotaInit, QuotaNext, PTL DEF Spec

\* The memory quota holds: whatever the threads request, write, lend, release
\* and destroy, and whatever the management thread grants late or swaps in,
\* mem_used never exceeds mem_max.
THEOREM MemoryQuota == Spec => []MemWithinLimit
<1>1. QuotaInv => MemWithinLimit
  BY DEF QuotaInv
<1> QED
  BY <1>1, QuotaInit, QuotaNext, PTL DEF Spec

-----------------------------------------------------------------------------
(* References, locks and requests.  The invariant of the application that     *)
(* does not destroy the system while it makes calls.                          *)

\* Where a thread works on its blob alone: it holds mtx_lock, or z_blob_new has
\* not returned yet and nobody else knows the blob.
Alone == {"alloc", "push", "wait", "finish", "body", "ptr", "swapout", "file"}

\* Where a thread does not count on a reference of its own.
Outside == {"idle", "destroy"}

\* A thread inside of a call holds a reference on the blob it works on; the
\* thread that destroys a blob has dropped the last one.
RefsHeld ==
    /\ sysd.pc = "up"
    /\ \A c \in Clients :
          /\ cli[c].pc = "idle" => cli[c].blob = NoBlob
          /\ cli[c].pc # "idle" => cli[c].blob \in blobs
          /\ cli[c].pc \notin Outside => c \in blob[cli[c].blob].holders
          /\ cli[c].pc = "destroy" => blob[cli[c].blob].holders = {}
    /\ \A c, d \in Clients :
          cli[c].pc = "destroy" /\ cli[d].pc = "destroy" /\ cli[c].blob = cli[d].blob
             => c = d
    /\ \A b \in blobs : /\ IsFiniteSet(blob[b].holders)
                        /\ blob[b].ref_cnt = Cardinality(blob[b].holders)

\* The lock of the blob, or the only reference, keeps all others away; a
\* pointer is lent under the lock.
WorksAlone ==
    \A c \in Clients :
        /\ cli[c].pc \in Alone => \/ blob[cli[c].blob].mtx_lock = c
                                  \/ blob[cli[c].blob].holders = {c}
        /\ cli[c].pc = "ptr" => blob[cli[c].blob].mtx_lock = c

\* A request is in the queue, in hand or on the waiting list exactly while its
\* thread sleeps unanswered, and never in two of these places, nor twice in one.
KeptApart ==
    /\ \A b \in Blobs :
          /\ Awaited(b) <=> (InHand(b) \/ Queued(b) \/ Deferred(b))
          /\ ~(InHand(b) /\ Queued(b))
          /\ ~(InHand(b) /\ Deferred(b))
          /\ ~(Queued(b) /\ Deferred(b))
    /\ \A i, j \in 1 .. Len(req_queue) :
          req_queue[i] \in Blobs /\ req_queue[i] = req_queue[j] => i = j
    /\ \A i, j \in 1 .. Len(waiting_list) :
          waiting_list[i] = waiting_list[j] => i = j

UseInv == QuotaInv /\ RefsHeld /\ WorksAlone /\ KeptApart

\* What a call other than those on references does to the state, whichever
\* step it takes: it touches the record of its own blob and thread only, takes
\* the lock when it is free, keeps it while it works alone, and leaves it with
\* its last step; it moves the blob only while it works alone on it.
Touches(c, b) ==
    /\ UNCHANGED <<blobs, mgr, sysd, waiting_list>>
    /\ b \in blobs /\ c \in blob[b].holders
    /\ \A d \in Clients \ {c} : cli'[d] = cli[d]
    /\ \A x \in Blobs \ {b} : blob'[x] = blob[x]
    /\ blob'[b].holders = blob[b].holders /\ blob'[b].ref_cnt = blob[b].ref_cnt
Proceeds(c, b) ==
    /\ cli[c].pc # "destroy"
    /\ cli[c].pc # "idle" => cli[c].blob = b
    /\ \/ cli'[c].pc = "idle" /\ cli'[c].blob = NoBlob
       \/ cli'[c].pc \notin Outside /\ cli'[c].blob = b
Locking(c, b) ==
    /\ \/ blob'[b].mtx_lock = blob[b].mtx_lock
       \/ blob[b].mtx_lock = NoOne /\ blob'[b].mtx_lock = c
       \/ cli[c].pc \in Alone /\ cli'[c].pc = "idle"
    /\ cli'[c].pc \in Alone =>
          \/ cli[c].pc \in Alone /\ blob'[b].mtx_lock = blob[b].mtx_lock
          \/ blob'[b].mtx_lock = c
    /\ cli'[c].pc = "ptr" => cli[c].pc = "ptr" \/ blob'[b].mtx_lock = c
Moving(c, b) ==
    /\ \/ cli[c].pc \in Alone \ {"ptr"}
       \/ /\ blob'[b].is_in_file = blob[b].is_in_file
          /\ blob'[b].alloc_size = blob[b].alloc_size
    /\ blob[b].storage_locked => blob'[b].is_in_file = blob[b].is_in_file
Asking(c, b) ==
    \/ /\ blob'[b].replied = blob[b].replied
       /\ cli'[c].pc = "wait" <=> cli[c].pc = "wait"
       /\ req_queue' = req_queue \/ req_queue' = Append(req_queue, MEM_FREED)
    \/ /\ cli[c].pc = "push" /\ cli'[c].pc = "wait"
       /\ ~blob'[b].replied
       /\ req_queue' = Append(req_queue, b)
    \/ /\ cli[c].pc = "wait" /\ blob[b].replied
       /\ blob'[b].replied = blob[b].replied
       /\ cli'[c].pc # "wait"
       /\ req_queue' = req_queue

CallStep(c, b) == /\ Touches(c, b) /\ Proceeds(c, b) /\ Locking(c, b)
                  /\ Moving(c, b) /\ Asking(c, b)

\* A thread inside of a call, and its blob.
LEMMA InsideFacts ==
    ASSUME UseInv, NEW c \in Clients, cli[c].pc \notin Outside
    PROVE  /\ cli[c].blob \in blobs
           /\ cli[c].blob \in Blobs
           /\ c \in blob[cli[c].blob].holders
           /\ blob \in [Blobs -> BlobType] /\ blob[cli[c].blob] \in BlobType
           /\ cli \in [Clients -> ClientType] /\ cli[c] \in ClientType
           /\ sysd.pc = "up"
BY DEF UseInv, QuotaInv, TypeOK, RefsHeld, Outside

\* A call that takes the lock first.
LEMMA EnterLockedStep ==
    ASSUME UseInv, NEW c \in Clients, NEW b \in Blobs, MayCall(c, b),
           z_blob_lock(c, b), NEW r \in ClientType,
           r.pc \in {"alloc", "body", "file", "swapout"}, r.blob = b,
           cli' = [cli EXCEPT ![c] = r],
           UNCHANGED <<req_queue, waiting_list, blobs, mgr, sysd>>
    PROVE  CallStep(c, b)
<1>1. /\ cli \in [Clients -> ClientType] /\ blob \in [Blobs -> BlobType]
      /\ blob[b] \in BlobType
  BY DEF UseInv, QuotaInv, TypeOK
<1>2. cli[c].pc = "idle" /\ b \in blobs /\ c \in blob[b].holders
  BY DEF MayCall, At
<1>3. /\ cli'[c] = r /\ cli'[c].pc \in {"alloc", "body", "file", "swapout"}
      /\ cli'[c].blob = b
      /\ \A d \in Clients \ {c} : cli'[d] = cli[d]
  BY <1>1
<1>4. blob' = [blob EXCEPT ![b] = [blob[b] EXCEPT !.mtx_lock = c]]
  BY DEF z_blob_lock
<1>5. /\ blob'[b] = [blob[b] EXCEPT !.mtx_lock = c]
      /\ \A x \in Blobs \ {b} : blob'[x] = blob[x]
  BY <1>1, <1>4
<1>6. /\ blob[b].mtx_lock = NoOne /\ blob'[b].mtx_lock = c
      /\ blob'[b].holders = blob[b].holders /\ blob'[b].ref_cnt = blob[b].ref_cnt
      /\ blob'[b].is_in_file = blob[b].is_in_file
      /\ blob'[b].alloc_size = blob[b].alloc_size
      /\ blob'[b].replied = blob[b].replied
  BY <1>1, <1>5 DEF z_blob_lock, BlobType
<1>7. Touches(c, b)
  BY <1>2, <1>3, <1>5, <1>6 DEF Touches
<1>8. Proceeds(c, b)
  BY <1>2, <1>3 DEF Proceeds, Outside
<1>9. Locking(c, b) /\ Moving(c, b)
  BY <1>6 DEF Locking, Moving
<1>10. Asking(c, b)
  BY <1>2, <1>3, <1>6 DEF Asking
<1> QED
  BY <1>7, <1>8, <1>9, <1>10 DEF CallStep

LEMMA EnterAllocRecord ==
    ASSUME UseInv, NEW c \in Clients, NEW b \in Blobs, NEW n \in Nat,
           NEW op \in {"truncate", "write", "stream_mem", "stream_file", "stream_seek"},
           EnsureSpace(c, b, n, op) \/ EnterAlloc(c, b, n, op)
    PROVE  \E r \in ClientType : /\ r.pc \in {"alloc", "body"} /\ r.blob = b
                                 /\ cli' = [cli EXCEPT ![c] = r]
<1>1. blob[b] \in BlobType /\ blob[b].alloc_size \in Nat
  BY DEF UseInv, QuotaInv, TypeOK, BlobType
<1>2. ASSUME EnterAlloc(c, b, n, op)
      PROVE  \E r \in ClientType : /\ r.pc \in {"alloc", "body"} /\ r.blob = b
                                   /\ cli' = [cli EXCEPT ![c] = r]
  <2>1. PICK a \in req_alloc_size(blob[b], n) :
          cli' = [cli EXCEPT ![c] =
                    [pc |-> IF a = blob[b].alloc_size THEN "body" ELSE "alloc",
                     blob |-> b, want |-> a, len |-> n, op |-> op]]
    BY <1>2 DEF EnterAlloc
  <2>2. a \in Nat
    BY <1>1, ReqAllocSizeType
  <2> DEFINE r == [pc |-> IF a = blob[b].alloc_size THEN "body" ELSE "alloc",
                   blob |-> b, want |-> a, len |-> n, op |-> op]
  <2>3. r \in ClientType /\ r.blob = b /\ r.pc \in {"alloc", "body"}
    BY <2>2 DEF ClientType
  <2> QED
    BY <2>1, <2>3
<1>3. ASSUME cli' = [cli EXCEPT ![c] = [pc |-> "body", blob |-> b,
                        want |-> blob[b].alloc_size, len |-> n, op |-> op]]
      PROVE  \E r \in ClientType : /\ r.pc \in {"alloc", "body"} /\ r.blob = b
                                   /\ cli' = [cli EXCEPT ![c] = r]
  <2> DEFINE r == [pc |-> "body", blob |-> b, want |-> blob[b].alloc_size,
                   len |-> n, op |-> op]
  <2>1. r \in ClientType /\ r.blob = b /\ r.pc \in {"alloc", "body"}
    BY <1>1 DEF ClientType
  <2> QED
    BY <1>3, <2>1
<1> QED
  BY <1>2, <1>3 DEF EnsureSpace

LEMMA LockedCallsStep ==
    ASSUME UseInv, NEW c \in Clients, NEW b \in Blobs, NEW n \in Nat,
           \/ z_blob_truncate(c, b, n)
           \/ z_blob_add_copy(c, b, n)
           \/ z_blob_read_from_stream(c, b, n)
           \/ StreamSeek(c, b, n)
    PROVE  CallStep(c, b)
<1>1. /\ MayCall(c, b) /\ z_blob_lock(c, b)
      /\ UNCHANGED <<req_queue, waiting_list, blobs, mgr, sysd>>
  BY DEF z_blob_truncate, z_blob_add_copy, z_blob_read_from_stream, StreamSeek
<1>2. PICK op \in {"truncate", "write", "stream_mem", "stream_file", "stream_seek"} :
        EnsureSpace(c, b, n, op) \/ EnterAlloc(c, b, n, op)
  BY DEF z_blob_truncate, z_blob_add_copy, z_blob_read_from_stream, StreamSeek
<1>3. PICK r \in ClientType : /\ r.pc \in {"alloc", "body"} /\ r.blob = b
                              /\ cli' = [cli EXCEPT ![c] = r]
  BY <1>2, EnterAllocRecord
<1> QED
  BY <1>1, <1>3, EnterLockedStep

LEMMA GetFileStep ==
    ASSUME UseInv, NEW c \in Clients, NEW b \in Blobs, z_blob_get_file(c, b)
    PROVE  CallStep(c, b)
<1> DEFINE r == [pc |-> IF blob[b].is_in_file THEN "file" ELSE "swapout",
                 blob |-> b, want |-> 0, len |-> 0, op |-> "file"]
<1>1. r \in ClientType /\ r.pc \in {"file", "swapout"} /\ r.blob = b
  BY DEF ClientType
<1>2. /\ MayCall(c, b) /\ z_blob_lock(c, b)
      /\ UNCHANGED <<req_queue, waiting_list, blobs, mgr, sysd>>
      /\ cli' = [cli EXCEPT ![c] = r]
  BY DEF z_blob_get_file
<1> HIDE DEF r
<1> QED
  BY <1>1, <1>2, EnterLockedStep

\* The record of a thread that goes on with its call, or leaves it.
Onward(r, b) == \/ r.pc = "idle" /\ r.blob = NoBlob
                \/ r.pc \notin Outside /\ r.blob = b

\* Only one thread and one blob change.
OthersStay(c, b) ==
    /\ \A d \in Clients \ {c} : cli'[d] = cli[d]
    /\ \A x \in Blobs \ {b} : blob'[x] = blob[x]

\* A step inside of a call, or the one that ends it.
LEMMA InsideStep ==
    ASSUME UseInv, NEW c \in Clients, cli[c].pc \notin Outside,
           OthersStay(c, cli[c].blob), Onward(cli'[c], cli[c].blob),
           blob'[cli[c].blob].holders = blob[cli[c].blob].holders,
           blob'[cli[c].blob].ref_cnt = blob[cli[c].blob].ref_cnt,
           UNCHANGED <<waiting_list, blobs, mgr, sysd>>
    PROVE  Touches(c, cli[c].blob) /\ Proceeds(c, cli[c].blob)
<1> DEFINE b == cli[c].blob
<1>1. b \in blobs /\ b \in Blobs /\ c \in blob[b].holders
  BY InsideFacts
<1>2. Touches(c, b)
  BY <1>1 DEF Touches, OthersStay
<1>3. Proceeds(c, b)
  BY DEF Proceeds, Outside, Onward
<1> QED
  BY <1>2, <1>3

\* Where a step may take a thread inside of its call.
Insides == {"push", "wait", "finish", "body", "overrun", "file", "aborted",
            "null_write"}

\* A thread that goes on inside of its call, and what it does to its blob.
LEMMA GoesOn ==
    ASSUME UseInv, NEW c \in Clients, cli[c].pc \notin Outside, NEW s,
           NEW w \in Insides, cli' = [cli EXCEPT ![c].pc = w],
           blob' = [blob EXCEPT ![cli[c].blob] = s]
    PROVE  /\ OthersStay(c, cli[c].blob) /\ Onward(cli'[c], cli[c].blob)
           /\ cli'[c].pc = w /\ blob'[cli[c].blob] = s
<1>1. /\ cli \in [Clients -> ClientType] /\ cli[c] \in ClientType
      /\ blob \in [Blobs -> BlobType] /\ cli[c].blob \in Blobs
  BY InsideFacts
<1>2. cli'[c] = [cli[c] EXCEPT !.pc = w]
  BY <1>1
<1>3. cli'[c].pc = w /\ cli'[c].blob = cli[c].blob
  BY <1>1, <1>2 DEF ClientType
<1>4. Onward(cli'[c], cli[c].blob)
  BY <1>3 DEF Onward, Insides, Outside
<1>5. OthersStay(c, cli[c].blob) /\ blob'[cli[c].blob] = s
  BY <1>1 DEF OthersStay
<1> QED
  BY <1>3, <1>4, <1>5

\* A record replaced by itself.
LEMMA SameBlob ==
    ASSUME UseInv, NEW b \in Blobs, UNCHANGED blob
    PROVE  blob' = [blob EXCEPT ![b] = blob[b]] /\ blob[b] \in BlobType
BY DEF UseInv, QuotaInv, TypeOK

LEMMA StreamSeekedStep ==
    ASSUME UseInv, NEW c \in Clients, StreamSeeked(c)
    PROVE  CallStep(c, cli[c].blob)
<1> DEFINE b == cli[c].blob
<1>1. /\ cli[c].pc = "body" /\ cli[c].pc \notin Outside
      /\ UNCHANGED <<req_queue, waiting_list, blobs, blob, mgr, sysd>>
  BY DEF StreamSeeked, At, Outside
<1>2. b \in Blobs /\ cli \in [Clients -> ClientType]
  BY <1>1, InsideFacts
<1>3. PICK n \in WriteSizes : EnsureSpace(c, b, n, "stream_file")
  BY DEF StreamSeeked
<1>4. n \in Nat
  BY SizesAssumption
<1>5. PICK r \in ClientType : /\ r.pc \in {"alloc", "body"} /\ r.blob = b
                              /\ cli' = [cli EXCEPT ![c] = r]
  BY <1>2, <1>3, <1>4, EnterAllocRecord
<1>6. OthersStay(c, b) /\ cli'[c] = r
  BY <1>1, <1>2, <1>5 DEF OthersStay
<1>7. Onward(cli'[c], b)
  BY <1>5, <1>6 DEF Onward, Outside
<1>8. Touches(c, b) /\ Proceeds(c, b)
  BY <1>1, <1>6, <1>7, InsideStep
<1>9. Locking(c, b) /\ Moving(c, b) /\ Asking(c, b)
  BY <1>1, <1>5, <1>6 DEF Locking, Moving, Asking, Alone
<1> QED
  BY <1>8, <1>9 DEF CallStep

\* What storing a blob on disk leaves alone.
LEMMA StoredFacts ==
    ASSUME NEW s \in BlobType
    PROVE  /\ Stored(s) \in BlobType
           /\ Stored(s).holders = s.holders /\ Stored(s).ref_cnt = s.ref_cnt
           /\ Stored(s).mtx_lock = s.mtx_lock
           /\ Stored(s).replied = s.replied
           /\ Stored(s).alloc_size = s.alloc_size
           /\ Stored(s).storage_locked = s.storage_locked
           /\ s.storage_locked => Stored(s).is_in_file = s.is_in_file
<1>1. CASE Stored(s) = s
  BY <1>1
<1>2. CASE Stored(s) # s
  <2>1. /\ Stored(s) = [s EXCEPT !.is_in_file = TRUE,
                                 !.file_len = Most(s.file_len, s.size)]
        /\ ~s.storage_locked
    BY <1>2 DEF Stored, z_blob_swap_out, MayMove
  <2>2. Stored(s) \in BlobType
    BY StoredType
  <2> QED
    BY <2>1, <2>2 DEF BlobType
<1> QED
  BY <1>1, <1>2

\* A freed-memory message, or none.
LEMMA FreedQueue ==
    ASSUME UseInv, NEW s, req_queue' = req_queue \o FreedMessage(s)
    PROVE  req_queue' = req_queue \/ req_queue' = Append(req_queue, MEM_FREED)
<1>1. req_queue \in Seq(Blobs \cup {MEM_FREED, KILL})
  BY DEF UseInv, QuotaInv, TypeOK
<1>2. CASE FreedMessage(s) = << >>
  BY <1>1, <1>2
<1>3. CASE FreedMessage(s) = <<MEM_FREED>>
  <2>1. MEM_FREED \in Blobs \cup {MEM_FREED, KILL}
    OBVIOUS
  <2> QED
    BY <1>1, <1>3, <2>1
<1> QED
  BY <1>2, <1>3 DEF FreedMessage

LEMMA AllocCheckStep ==
    ASSUME UseInv, NEW c \in Clients, AllocCheck(c)
    PROVE  CallStep(c, cli[c].blob)
<1> DEFINE b == cli[c].blob
           s == [blob[b] EXCEPT !.alloc_req = cli[c].want - blob[b].alloc_size]
<1>1. /\ cli[c].pc = "alloc" /\ cli[c].pc \notin Outside
      /\ UNCHANGED <<waiting_list, blobs, mgr, sysd>>
  BY DEF AllocCheck, At, Outside
<1>2. b \in Blobs /\ blob[b] \in BlobType /\ cli[c] \in ClientType
  BY <1>1, InsideFacts
<1>3. cli[c].want - blob[b].alloc_size \in Int
  BY <1>2 DEF BlobType, ClientType
<1>4. /\ s \in BlobType
      /\ s.holders = blob[b].holders /\ s.ref_cnt = blob[b].ref_cnt
      /\ s.mtx_lock = blob[b].mtx_lock /\ s.replied = blob[b].replied
      /\ s.storage_locked = blob[b].storage_locked
      /\ s.is_in_file = blob[b].is_in_file
  BY <1>2, <1>3 DEF BlobType
<1>5. \/ /\ blob' = [blob EXCEPT ![b] = Stored(s)]
         /\ req_queue' = req_queue \o FreedMessage(s)
         /\ cli' = [cli EXCEPT ![c].pc = "finish"]
      \/ /\ blob' = [blob EXCEPT ![b] = s]
         /\ cli' = [cli EXCEPT ![c].pc = "push"]
         /\ req_queue' = req_queue
  BY DEF AllocCheck, Goes
<1> HIDE DEF s
<1>6. /\ OthersStay(c, b) /\ Onward(cli'[c], b)
      /\ cli'[c].pc \in {"finish", "push"}
      /\ blob'[b] = s \/ blob'[b] = Stored(s)
      /\ req_queue' = req_queue \/ req_queue' = Append(req_queue, MEM_FREED)
  <2>1. "finish" \in Insides /\ "push" \in Insides
    BY DEF Insides
  <2> QED
    <3>1. CASE /\ blob' = [blob EXCEPT ![b] = Stored(s)]
               /\ req_queue' = req_queue \o FreedMessage(s)
               /\ cli' = [cli EXCEPT ![c].pc = "finish"]
      BY <1>1, <2>1, <3>1, FreedQueue, GoesOn
    <3>2. CASE /\ blob' = [blob EXCEPT ![b] = s]
               /\ cli' = [cli EXCEPT ![c].pc = "push"]
               /\ req_queue' = req_queue
      BY <1>1, <2>1, <3>2, GoesOn
    <3> QED
      BY <1>5, <3>1, <3>2
<1>7. /\ blob'[b].holders = blob[b].holders /\ blob'[b].ref_cnt = blob[b].ref_cnt
      /\ blob'[b].mtx_lock = blob[b].mtx_lock /\ blob'[b].replied = blob[b].replied
      /\ blob[b].storage_locked => blob'[b].is_in_file = blob[b].is_in_file
  BY <1>4, <1>6, StoredFacts
<1>8. Touches(c, b) /\ Proceeds(c, b)
  BY <1>1, <1>6, <1>7, InsideStep
<1>9. Locking(c, b) /\ Moving(c, b) /\ Asking(c, b)
  BY <1>1, <1>6, <1>7 DEF Locking, Moving, Asking, Alone
<1> QED
  BY <1>8, <1>9 DEF CallStep

LEMMA AllocPushStep ==
    ASSUME UseInv, NEW c \in Clients, AllocPush(c)
    PROVE  CallStep(c, cli[c].blob)
<1> DEFINE b == cli[c].blob
           s == [blob[b] EXCEPT !.approved = FALSE, !.replied = FALSE]
<1>1. /\ cli[c].pc = "push" /\ cli[c].pc \notin Outside
      /\ UNCHANGED <<waiting_list, blobs, mgr, sysd>>
      /\ blob' = [blob EXCEPT ![b] = s]
      /\ cli' = [cli EXCEPT ![c].pc = "wait"]
      /\ req_queue' = Append(req_queue, b)
  BY DEF AllocPush, Goes, At, Outside
<1>2. b \in Blobs /\ blob[b] \in BlobType
  BY <1>1, InsideFacts
<1>3. /\ s.holders = blob[b].holders /\ s.ref_cnt = blob[b].ref_cnt
      /\ s.mtx_lock = blob[b].mtx_lock /\ ~s.replied
      /\ s.is_in_file = blob[b].is_in_file
  BY <1>2 DEF BlobType
<1> HIDE DEF s
<1>4. /\ OthersStay(c, b) /\ Onward(cli'[c], b)
      /\ cli'[c].pc = "wait" /\ blob'[b] = s
  <2>1. "wait" \in Insides
    BY DEF Insides
  <2> QED
    BY <1>1, <2>1, GoesOn
<1>5. Touches(c, b) /\ Proceeds(c, b)
  BY <1>1, <1>3, <1>4, InsideStep
<1>6. Locking(c, b) /\ Moving(c, b) /\ Asking(c, b)
  BY <1>1, <1>3, <1>4 DEF Locking, Moving, Asking, Alone
<1> QED
  BY <1>5, <1>6 DEF CallStep

LEMMA AllocWokenStep ==
    ASSUME UseInv, NEW c \in Clients, AllocWoken(c)
    PROVE  CallStep(c, cli[c].blob)
<1> DEFINE b == cli[c].blob
<1>1. /\ cli[c].pc = "wait" /\ cli[c].pc \notin Outside
      /\ blob[b].replied
      /\ UNCHANGED <<req_queue, waiting_list, blobs, blob, mgr, sysd>>
  BY DEF AllocWoken, At, Outside
<1>2. \/ cli' = [cli EXCEPT ![c].pc = "finish"]
      \/ cli' = [cli EXCEPT ![c].pc = "aborted"]
  BY DEF AllocWoken, Goes
<1>3. blob' = [blob EXCEPT ![b] = blob[b]]
  BY <1>1, InsideFacts, SameBlob
<1>4. /\ OthersStay(c, b) /\ Onward(cli'[c], b)
      /\ cli'[c].pc \in {"finish", "aborted"}
  <2>1. "finish" \in Insides /\ "aborted" \in Insides
    BY DEF Insides
  <2> QED
    <3>1. CASE cli' = [cli EXCEPT ![c].pc = "finish"]
      BY <1>1, <1>3, <2>1, <3>1, GoesOn
    <3>2. CASE cli' = [cli EXCEPT ![c].pc = "aborted"]
      BY <1>1, <1>3, <2>1, <3>2, GoesOn
    <3> QED
      BY <1>2, <3>1, <3>2
<1>5. Touches(c, b) /\ Proceeds(c, b)
  BY <1>1, <1>4, InsideStep
<1>6. Locking(c, b) /\ Moving(c, b) /\ Asking(c, b)
  BY <1>1, <1>4 DEF Locking, Moving, Asking, Alone
<1> QED
  BY <1>5, <1>6 DEF CallStep

LEMMA AllocFinishStep ==
    ASSUME UseInv, NEW c \in Clients, AllocFinish(c)
    PROVE  CallStep(c, cli[c].blob)
<1> DEFINE b == cli[c].blob
           n == cli[c].want
           m == Least(blob[b].size, n)
           f == IF blob[b].is_in_file THEN n ELSE blob[b].file_len
           s == [blob[b] EXCEPT !.alloc_size = n, !.size = m, !.file_len = f]
<1>1. /\ cli[c].pc = "finish" /\ cli[c].pc \notin Outside
      /\ UNCHANGED <<req_queue, waiting_list, blobs, mgr, sysd>>
      /\ blob' = [blob EXCEPT ![b] = s]
      /\ cli' = [cli EXCEPT ![c].pc = "body"]
  BY DEF AllocFinish, Goes, At, Outside
<1>2. b \in Blobs /\ blob[b] \in BlobType
  BY <1>1, InsideFacts
<1> HIDE DEF m, f, n
<1>3. /\ s.holders = blob[b].holders /\ s.ref_cnt = blob[b].ref_cnt
      /\ s.mtx_lock = blob[b].mtx_lock /\ s.replied = blob[b].replied
      /\ s.is_in_file = blob[b].is_in_file
  BY <1>2 DEF BlobType
<1> HIDE DEF s
<1>4. /\ OthersStay(c, b) /\ Onward(cli'[c], b)
      /\ cli'[c].pc = "body" /\ blob'[b] = s
  <2>1. "body" \in Insides
    BY DEF Insides
  <2> QED
    BY <1>1, <2>1, GoesOn
<1>5. Touches(c, b) /\ Proceeds(c, b)
  BY <1>1, <1>3, <1>4, InsideStep
<1>6. Locking(c, b) /\ Moving(c, b) /\ Asking(c, b)
  BY <1>1, <1>3, <1>4 DEF Locking, Moving, Asking, Alone
<1> QED
  BY <1>5, <1>6 DEF CallStep

\* A thread that leaves its call, and what it does to its blob.
LEMMA Leaves ==
    ASSUME UseInv, NEW c \in Clients, cli[c].pc \notin Outside, NEW s,
           cli' = [cli EXCEPT ![c] = IdleClient],
           blob' = [blob EXCEPT ![cli[c].blob] = s]
    PROVE  /\ OthersStay(c, cli[c].blob) /\ Onward(cli'[c], cli[c].blob)
           /\ cli'[c].pc = "idle" /\ blob'[cli[c].blob] = s
<1>1. /\ cli \in [Clients -> ClientType] /\ blob \in [Blobs -> BlobType]
      /\ cli[c].blob \in Blobs
  BY InsideFacts
<1>2. cli'[c].pc = "idle" /\ cli'[c].blob = NoBlob
  BY <1>1 DEF IdleClient
<1>3. OthersStay(c, cli[c].blob) /\ blob'[cli[c].blob] = s
  BY <1>1 DEF OthersStay
<1> QED
  BY <1>2, <1>3 DEF Onward

\* The common end of calls: the size may grow, the lock is released.
LEMMA FinishStep ==
    ASSUME UseInv, NEW c \in Clients, cli[c].pc \in Alone, NEW e,
           Finish(c, cli[c].blob, e),
           UNCHANGED <<req_queue, waiting_list, blobs, mgr, sysd>>,
           cli[c].pc # "wait"
    PROVE  CallStep(c, cli[c].blob)
<1> DEFINE b == cli[c].blob
           m == Most(blob[b].size, e)
           f == IF blob[b].is_in_file THEN Most(blob[b].file_len, e)
                ELSE blob[b].file_len
           s == [blob[b] EXCEPT !.size = m, !.file_len = f, !.mtx_lock = NoOne]
<1>1. /\ cli[c].pc \notin Outside
      /\ blob' = [blob EXCEPT ![b] = s]
      /\ cli' = [cli EXCEPT ![c] = IdleClient]
  BY DEF Finish, Alone, Outside
<1>2. b \in Blobs /\ blob[b] \in BlobType
  BY <1>1, InsideFacts
<1> HIDE DEF m, f
<1>3. /\ s.holders = blob[b].holders /\ s.ref_cnt = blob[b].ref_cnt
      /\ s.replied = blob[b].replied
      /\ s.is_in_file = blob[b].is_in_file /\ s.alloc_size = blob[b].alloc_size
  BY <1>2 DEF BlobType
<1> HIDE DEF s
<1>4. /\ OthersStay(c, b) /\ Onward(cli'[c], b)
      /\ cli'[c].pc = "idle" /\ blob'[b] = s
  BY <1>1, Leaves
<1>5. Touches(c, b) /\ Proceeds(c, b)
  BY <1>1, <1>3, <1>4, InsideStep
<1>6. Locking(c, b) /\ Moving(c, b) /\ Asking(c, b)
  BY <1>3, <1>4 DEF Locking, Moving, Asking, Alone
<1> QED
  BY <1>5, <1>6 DEF CallStep

\* A thread goes to a place from which nobody goes on, or which ends its work
\* on the blob, and leaves the blob as it is.
LEMMA StuckStep ==
    ASSUME UseInv, NEW c \in Clients, cli[c].pc \notin Outside, cli[c].pc # "wait",
           NEW w \in {"overrun", "aborted", "null_write"},
           cli' = [cli EXCEPT ![c].pc = w], UNCHANGED blob,
           UNCHANGED <<req_queue, waiting_list, blobs, mgr, sysd>>
    PROVE  CallStep(c, cli[c].blob)
<1> DEFINE b == cli[c].blob
<1>1. blob' = [blob EXCEPT ![b] = blob[b]]
  BY InsideFacts, SameBlob
<1>2. /\ OthersStay(c, b) /\ Onward(cli'[c], b) /\ cli'[c].pc = w
  <2>1. w \in Insides
    BY DEF Insides
  <2> QED
    BY <1>1, <2>1, GoesOn
<1>3. Touches(c, b) /\ Proceeds(c, b)
  BY <1>2, InsideStep
<1>4. Locking(c, b) /\ Moving(c, b) /\ Asking(c, b)
  BY <1>2 DEF Locking, Moving, Asking, Alone
<1> QED
  BY <1>3, <1>4 DEF CallStep

\* A thread leaves its call without a change of the blob.
LEMMA ReturnsStep ==
    ASSUME UseInv, NEW c \in Clients, cli[c].pc \notin Outside, cli[c].pc # "wait",
           cli' = [cli EXCEPT ![c] = IdleClient], UNCHANGED blob,
           UNCHANGED <<req_queue, waiting_list, blobs, mgr, sysd>>
    PROVE  CallStep(c, cli[c].blob)
<1> DEFINE b == cli[c].blob
<1>1. blob' = [blob EXCEPT ![b] = blob[b]]
  BY InsideFacts, SameBlob
<1>2. /\ OthersStay(c, b) /\ Onward(cli'[c], b) /\ cli'[c].pc = "idle"
  BY <1>1, Leaves
<1>3. Touches(c, b) /\ Proceeds(c, b)
  BY <1>2, InsideStep
<1>4. Locking(c, b) /\ Moving(c, b) /\ Asking(c, b)
  BY <1>2 DEF Locking, Moving, Asking, Alone
<1> QED
  BY <1>3, <1>4 DEF CallStep

LEMMA CallBodyStep ==
    ASSUME UseInv, NEW c \in Clients, CallBody(c)
    PROVE  CallStep(c, cli[c].blob)
<1>1. /\ cli[c].pc = "body" /\ cli[c].pc \notin Outside /\ cli[c].pc \in Alone
      /\ UNCHANGED <<req_queue, waiting_list, blobs, mgr, sysd>>
  BY DEF CallBody, At, Outside, Alone
<1>2. PICK e : \/ Goes(c, "null_write") /\ UNCHANGED blob
               \/ Finish(c, cli[c].blob, e)
  BY DEF CallBody
<1>3. CASE Goes(c, "null_write") /\ UNCHANGED blob
  BY <1>1, <1>3, StuckStep DEF Goes
<1>4. CASE Finish(c, cli[c].blob, e)
  BY <1>1, <1>4, FinishStep
<1> QED
  BY <1>2, <1>3, <1>4

LEMMA GetCopyLockedStep ==
    ASSUME UseInv, NEW c \in Clients, GetCopyLocked(c)
    PROVE  CallStep(c, cli[c].blob)
<1>1. /\ cli[c].pc = "read" /\ cli[c].pc \notin Outside
      /\ UNCHANGED <<req_queue, waiting_list, blobs, mgr, sysd>>
      /\ UNCHANGED blob
  BY DEF GetCopyLocked, At, Outside
<1>2. \/ cli' = [cli EXCEPT ![c].pc = "overrun"]
      \/ cli' = [cli EXCEPT ![c] = IdleClient]
  BY DEF GetCopyLocked
<1>3. CASE cli' = [cli EXCEPT ![c].pc = "overrun"]
  BY <1>1, <1>3, StuckStep
<1>4. CASE cli' = [cli EXCEPT ![c] = IdleClient]
  BY <1>1, <1>4, ReturnsStep
<1> QED
  BY <1>2, <1>3, <1>4

LEMMA FreePtrStep ==
    ASSUME UseInv, NEW c \in Clients, z_blob_free_ptr(c)
    PROVE  CallStep(c, cli[c].blob)
<1>1. /\ cli[c].pc = "ptr" /\ cli[c].pc \notin Outside /\ cli[c].pc \in Alone
      /\ UNCHANGED <<req_queue, waiting_list, blobs, mgr, sysd>>
  BY DEF z_blob_free_ptr, At, Outside, Alone
<1>2. CASE Goes(c, "aborted") /\ UNCHANGED blob
  BY <1>1, <1>2, StuckStep DEF Goes
<1>3. CASE Finish(c, cli[c].blob, 0)
  BY <1>1, <1>3, FinishStep
<1> QED
  BY <1>2, <1>3 DEF z_blob_free_ptr

LEMMA GetFileFailsStep ==
    ASSUME UseInv, NEW c \in Clients, GetFileFails(c)
    PROVE  CallStep(c, cli[c].blob)
<1>1. /\ cli[c].pc = "file" /\ cli[c].pc \in Alone
      /\ UNCHANGED <<req_queue, waiting_list, blobs, mgr, sysd>>
      /\ Finish(c, cli[c].blob, 0)
  BY DEF GetFileFails, At, Alone
<1> QED
  BY <1>1, FinishStep

LEMMA GetPtrLockedStep ==
    ASSUME UseInv, NEW c \in Clients, GetPtrLocked(c)
    PROVE  CallStep(c, cli[c].blob)
<1> DEFINE b == cli[c].blob
           s == [blob[b] EXCEPT !.mtx_lock = c]
           r == [cli[c] EXCEPT !.pc = "ptr", !.len = blob[b].size]
<1>1. /\ cli[c].pc = "getptr" /\ cli[c].pc \notin Outside
      /\ UNCHANGED <<req_queue, waiting_list, blobs, mgr, sysd>>
  BY DEF GetPtrLocked, At, Outside
<1>2. /\ b \in Blobs /\ blob[b] \in BlobType /\ blob \in [Blobs -> BlobType]
      /\ cli[c] \in ClientType /\ cli \in [Clients -> ClientType]
  BY <1>1, InsideFacts
<1>3. CASE cli' = [cli EXCEPT ![c] = IdleClient] /\ UNCHANGED blob
  BY <1>1, <1>3, ReturnsStep
<1>4. CASE z_blob_lock(c, b) /\ cli' = [cli EXCEPT ![c] = r]
  <2>1. blob[b].mtx_lock = NoOne /\ blob' = [blob EXCEPT ![b] = s]
    BY <1>4 DEF z_blob_lock
  <2>2. /\ s.holders = blob[b].holders /\ s.ref_cnt = blob[b].ref_cnt
        /\ s.replied = blob[b].replied /\ s.mtx_lock = c
        /\ s.is_in_file = blob[b].is_in_file /\ s.alloc_size = blob[b].alloc_size
    BY <1>2 DEF BlobType
  <2>3. r.pc = "ptr" /\ r.blob = b
    BY <1>2 DEF ClientType
  <2> HIDE DEF s, r
  <2>4. OthersStay(c, b) /\ cli'[c] = r /\ blob'[b] = s
    BY <1>2, <1>4, <2>1 DEF OthersStay
  <2>5. Onward(cli'[c], b)
    BY <2>3, <2>4 DEF Onward, Outside
  <2>6. Touches(c, b) /\ Proceeds(c, b)
    BY <1>1, <2>2, <2>4, <2>5, InsideStep
  <2>7. Locking(c, b) /\ Moving(c, b) /\ Asking(c, b)
    BY <1>1, <2>1, <2>2, <2>3, <2>4 DEF Locking, Moving, Asking, Alone
  <2> QED
    BY <2>6, <2>7 DEF CallStep
<1> QED
  BY <1>3, <1>4 DEF GetPtrLocked

LEMMA GetFileSwapOutStep ==
    ASSUME UseInv, NEW c \in Clients, GetFileSwapOut(c)
    PROVE  CallStep(c, cli[c].blob)
<1> DEFINE b == cli[c].blob
           s == z_blob_swap_out(blob[b])
<1>1. /\ cli[c].pc = "swapout" /\ cli[c].pc \notin Outside
      /\ UNCHANGED <<req_queue, waiting_list, blobs, mgr, sysd>>
      /\ blob' = [blob EXCEPT ![b] = s]
      /\ cli' = [cli EXCEPT ![c].pc = "file"]
  BY DEF GetFileSwapOut, Goes, At, Outside
<1>2. b \in Blobs /\ blob[b] \in BlobType
  BY <1>1, InsideFacts
<1>3. /\ s.holders = blob[b].holders /\ s.ref_cnt = blob[b].ref_cnt
      /\ s.replied = blob[b].replied /\ s.mtx_lock = blob[b].mtx_lock
      /\ blob[b].storage_locked => s.is_in_file = blob[b].is_in_file
  BY <1>2 DEF BlobType, z_blob_swap_out, MayMove
<1> HIDE DEF s
<1>4. /\ OthersStay(c, b) /\ Onward(cli'[c], b)
      /\ cli'[c].pc = "file" /\ blob'[b] = s
  <2>1. "file" \in Insides
    BY DEF Insides
  <2> QED
    BY <1>1, <2>1, GoesOn
<1>5. Touches(c, b) /\ Proceeds(c, b)
  BY <1>1, <1>3, <1>4, InsideStep
<1>6. Locking(c, b) /\ Moving(c, b) /\ Asking(c, b)
  BY <1>1, <1>3, <1>4 DEF Locking, Moving, Asking, Alone
<1> QED
  BY <1>5, <1>6 DEF CallStep

LEMMA AppWritesFileStep ==
    ASSUME UseInv, NEW c \in Clients, NEW n \in Nat, AppWritesFile(c, n)
    PROVE  CallStep(c, cli[c].blob)
<1> DEFINE b == cli[c].blob
           s == [blob[b] EXCEPT !.file_len = n]
           r == [cli[c] EXCEPT !.op = "written"]
<1>1. /\ cli[c].pc = "file" /\ cli[c].pc \notin Outside
      /\ UNCHANGED <<req_queue, waiting_list, blobs, mgr, sysd>>
      /\ blob' = [blob EXCEPT ![b] = s]
      /\ cli' = [cli EXCEPT ![c] = r]
  BY DEF AppWritesFile, At, Outside
<1>2. /\ b \in Blobs /\ blob[b] \in BlobType /\ blob \in [Blobs -> BlobType]
      /\ cli[c] \in ClientType /\ cli \in [Clients -> ClientType]
  BY <1>1, InsideFacts
<1>3. /\ s.holders = blob[b].holders /\ s.ref_cnt = blob[b].ref_cnt
      /\ s.replied = blob[b].replied /\ s.mtx_lock = blob[b].mtx_lock
      /\ s.is_in_file = blob[b].is_in_file /\ s.alloc_size = blob[b].alloc_size
  BY <1>2 DEF BlobType
<1>4. r.pc = "file" /\ r.blob = b
  BY <1>1, <1>2 DEF ClientType
<1> HIDE DEF s, r
<1>5. OthersStay(c, b) /\ cli'[c] = r /\ blob'[b] = s
  BY <1>1, <1>2 DEF OthersStay
<1>6. Onward(cli'[c], b)
  BY <1>4, <1>5 DEF Onward, Outside
<1>7. Touches(c, b) /\ Proceeds(c, b)
  BY <1>1, <1>3, <1>5, <1>6, InsideStep
<1>8. Locking(c, b) /\ Moving(c, b) /\ Asking(c, b)
  BY <1>1, <1>3, <1>4, <1>5 DEF Locking, Moving, Asking, Alone
<1> QED
  BY <1>7, <1>8 DEF CallStep

LEMMA ReleaseFileStep ==
    ASSUME UseInv, NEW c \in Clients, z_blob_release_file(c)
    PROVE  CallStep(c, cli[c].blob)
<1> DEFINE b == cli[c].blob
           n == blob[b].file_len
           s == [blob[b] EXCEPT !.size = n, !.alloc_size = n, !.mtx_lock = NoOne]
<1>1. /\ cli[c].pc = "file" /\ cli[c].pc \notin Outside
      /\ UNCHANGED <<req_queue, waiting_list, blobs, mgr, sysd>>
      /\ blob' = [blob EXCEPT ![b] = s]
      /\ cli' = [cli EXCEPT ![c] = IdleClient]
  BY DEF z_blob_release_file, At, Outside
<1>2. b \in Blobs /\ blob[b] \in BlobType
  BY <1>1, InsideFacts
<1> HIDE DEF n
<1>3. /\ s.holders = blob[b].holders /\ s.ref_cnt = blob[b].ref_cnt
      /\ s.replied = blob[b].replied /\ s.is_in_file = blob[b].is_in_file
  BY <1>2 DEF BlobType
<1> HIDE DEF s
<1>4. /\ OthersStay(c, b) /\ Onward(cli'[c], b)
      /\ cli'[c].pc = "idle" /\ blob'[b] = s
  BY <1>1, Leaves
<1>5. Touches(c, b) /\ Proceeds(c, b)
  BY <1>1, <1>3, <1>4, InsideStep
<1>6. Locking(c, b) /\ Moving(c, b) /\ Asking(c, b)
  BY <1>1, <1>3, <1>4 DEF Locking, Moving, Asking, Alone
<1> QED
  BY <1>5, <1>6 DEF CallStep

\* A call that starts without the lock.
LEMMA EnterUnlockedStep ==
    ASSUME UseInv, NEW c \in Clients, NEW b \in Blobs, MayCall(c, b),
           NEW r \in ClientType, r.pc \in {"read", "getptr", "aborted"}, r.blob = b,
           cli' = [cli EXCEPT ![c] = r], UNCHANGED blob,
           UNCHANGED <<req_queue, waiting_list, blobs, mgr, sysd>>
    PROVE  CallStep(c, b)
<1>1. cli \in [Clients -> ClientType]
  BY DEF UseInv, QuotaInv, TypeOK
<1>2. cli[c].pc = "idle" /\ b \in blobs /\ c \in blob[b].holders
  BY DEF MayCall, At
<1>3. cli'[c] = r /\ \A d \in Clients \ {c} : cli'[d] = cli[d]
  BY <1>1
<1>4. Touches(c, b)
  BY <1>2, <1>3 DEF Touches
<1>5. Proceeds(c, b)
  BY <1>2, <1>3 DEF Proceeds, Outside
<1>6. Locking(c, b) /\ Moving(c, b) /\ Asking(c, b)
  BY <1>2, <1>3 DEF Locking, Moving, Asking, Alone
<1> QED
  BY <1>4, <1>5, <1>6 DEF CallStep

LEMMA GetCopyStep ==
    ASSUME UseInv, NEW c \in Clients, NEW b \in Blobs, NEW n \in Nat,
           z_blob_get_copy(c, b, n)
    PROVE  CallStep(c, b)
<1> DEFINE r == [pc |-> "read", blob |-> b, want |-> 0,
                 len |-> Least(n, blob[b].size), op |-> "read"]
<1>1. r \in ClientType /\ r.pc = "read" /\ r.blob = b
  <2>1. Least(n, blob[b].size) \in Nat
    BY DEF UseInv, QuotaInv, TypeOK, BlobType, Least
  <2> QED
    BY <2>1 DEF ClientType
<1>2. /\ MayCall(c, b) /\ cli' = [cli EXCEPT ![c] = r] /\ UNCHANGED blob
      /\ UNCHANGED <<req_queue, waiting_list, blobs, mgr, sysd>>
  BY DEF z_blob_get_copy
<1> HIDE DEF r
<1> QED
  BY <1>1, <1>2, EnterUnlockedStep

LEMMA GetPtrStep ==
    ASSUME UseInv, NEW c \in Clients, NEW b \in Blobs, z_blob_get_ptr(c, b)
    PROVE  CallStep(c, b)
<1> DEFINE r == [pc |-> IF Mapped(b) THEN "aborted" ELSE "getptr",
                 blob |-> b, want |-> 0, len |-> 0, op |-> "ptr"]
<1>1. r \in ClientType /\ r.pc \in {"getptr", "aborted"} /\ r.blob = b
  BY DEF ClientType
<1>2. /\ MayCall(c, b) /\ cli' = [cli EXCEPT ![c] = r] /\ UNCHANGED blob
      /\ UNCHANGED <<req_queue, waiting_list, blobs, mgr, sysd>>
  BY DEF z_blob_get_ptr
<1> HIDE DEF r
<1> QED
  BY <1>1, <1>2, EnterUnlockedStep

LEMMA StorageLockStep ==
    ASSUME UseInv, NEW c \in Clients, NEW b \in Blobs, NEW st \in BOOLEAN,
           z_blob_storage_lock(c, b, st)
    PROVE  CallStep(c, b)
<1> DEFINE s == [blob[b] EXCEPT !.storage_locked = st]
<1>1. /\ MayCall(c, b) /\ UNCHANGED cli
      /\ UNCHANGED <<req_queue, waiting_list, blobs, mgr, sysd>>
      /\ blob' = [blob EXCEPT ![b] = s]
  BY DEF z_blob_storage_lock
<1>2. blob \in [Blobs -> BlobType] /\ blob[b] \in BlobType
  BY DEF UseInv, QuotaInv, TypeOK
<1>3. /\ cli[c].pc = "idle" /\ b \in blobs /\ c \in blob[b].holders
      /\ cli[c].blob = NoBlob
  BY <1>1 DEF MayCall, At, UseInv, RefsHeld
<1>4. /\ s.holders = blob[b].holders /\ s.ref_cnt = blob[b].ref_cnt
      /\ s.replied = blob[b].replied /\ s.mtx_lock = blob[b].mtx_lock
      /\ s.is_in_file = blob[b].is_in_file /\ s.alloc_size = blob[b].alloc_size
  BY <1>2 DEF BlobType
<1> HIDE DEF s
<1>5. blob'[b] = s /\ \A x \in Blobs \ {b} : blob'[x] = blob[x]
  BY <1>1, <1>2
<1>6. Touches(c, b)
  BY <1>1, <1>3, <1>4, <1>5 DEF Touches
<1>7. Proceeds(c, b)
  BY <1>1, <1>3 DEF Proceeds
<1>8. Locking(c, b) /\ Moving(c, b) /\ Asking(c, b)
  BY <1>1, <1>3, <1>4, <1>5 DEF Locking, Moving, Asking, Alone
<1> QED
  BY <1>6, <1>7, <1>8 DEF CallStep

-----------------------------------------------------------------------------
(* What such a step keeps. *)

\* Two threads that work alone on the same blob are the same thread.
LEMMA AloneMeansAlone ==
    ASSUME UseInv, NEW c \in Clients, NEW d \in Clients,
           cli[c].pc \in Alone, cli[d].pc \in Alone, cli[c].blob = cli[d].blob
    PROVE  c = d
<1>1. cli[c].pc \notin Outside /\ cli[d].pc \notin Outside
  BY DEF Alone, Outside
<1>2. c \in blob[cli[c].blob].holders /\ d \in blob[cli[c].blob].holders
  BY <1>1, InsideFacts
<1>3. /\ blob[cli[c].blob].mtx_lock = c \/ blob[cli[c].blob].holders = {c}
      /\ blob[cli[c].blob].mtx_lock = d \/ blob[cli[c].blob].holders = {d}
  BY DEF UseInv, WorksAlone
<1> QED
  BY <1>2, <1>3

LEMMA CallStepRefs ==
    ASSUME UseInv, NEW c \in Clients, NEW b \in Blobs, CallStep(c, b)
    PROVE  RefsHeld'
<1>1. /\ Touches(c, b) /\ Proceeds(c, b)
  BY DEF CallStep
<1>2. \A x \in Blobs : /\ blob'[x].holders = blob[x].holders
                       /\ blob'[x].ref_cnt = blob[x].ref_cnt
  BY <1>1 DEF Touches
<1>3. blobs' = blobs /\ blobs \subseteq Blobs /\ sysd' = sysd
  BY <1>1 DEF Touches, UseInv, QuotaInv, TypeOK
<1>4. ASSUME NEW d \in Clients
      PROVE  /\ cli'[d].pc = "idle" => cli'[d].blob = NoBlob
             /\ cli'[d].pc # "idle" => cli'[d].blob \in blobs
             /\ cli'[d].pc \notin Outside => d \in blob'[cli'[d].blob].holders
             /\ cli'[d].pc = "destroy" => /\ blob'[cli'[d].blob].holders = {}
                                          /\ cli'[d] = cli[d]
  <2>1. CASE d = c
    BY <1>1, <1>2, <2>1 DEF Touches, Proceeds, Outside
  <2>2. CASE d # c
    <3>1. cli'[d] = cli[d]
      BY <1>1, <2>2 DEF Touches
    <3> QED
      BY <1>2, <1>3, <3>1 DEF UseInv, RefsHeld, Outside
  <2> QED
    BY <2>1, <2>2
<1>5. \A d, e \in Clients :
         cli'[d].pc = "destroy" /\ cli'[e].pc = "destroy" /\ cli'[d].blob = cli'[e].blob
            => d = e
  BY <1>4 DEF UseInv, RefsHeld
<1>6. \A x \in blobs : /\ IsFiniteSet(blob'[x].holders)
                       /\ blob'[x].ref_cnt = Cardinality(blob'[x].holders)
  BY <1>2, <1>3 DEF UseInv, RefsHeld
<1>7. sysd'.pc = "up"
  BY <1>3 DEF UseInv, RefsHeld
<1> QED
  BY <1>3, <1>4, <1>5, <1>6, <1>7 DEF RefsHeld

LEMMA CallStepAlone ==
    ASSUME UseInv, NEW c \in Clients, NEW b \in Blobs, CallStep(c, b)
    PROVE  WorksAlone'
<1>1. Touches(c, b) /\ Proceeds(c, b) /\ Locking(c, b)
  BY DEF CallStep
<1>2. SUFFICES ASSUME NEW d \in Clients, cli'[d].pc \in Alone
               PROVE  /\ \/ blob'[cli'[d].blob].mtx_lock = d
                         \/ blob'[cli'[d].blob].holders = {d}
                      /\ cli'[d].pc = "ptr" => blob'[cli'[d].blob].mtx_lock = d
  BY DEF WorksAlone, Alone
<1>3. CASE d = c
  <2>1. cli'[c].blob = b
    BY <1>1, <1>2, <1>3 DEF Proceeds, Alone
  <2>2. CASE blob'[b].mtx_lock = c
    BY <1>3, <2>1, <2>2
  <2>3. CASE cli[c].pc \in Alone /\ blob'[b].mtx_lock = blob[b].mtx_lock
    <3>1. cli[c].blob = b
      BY <1>1, <2>3 DEF Proceeds, Alone
    <3>2. blob[b].mtx_lock = c \/ blob[b].holders = {c}
      BY <2>3, <3>1 DEF UseInv, WorksAlone
    <3>3. cli'[c].pc = "ptr" => blob'[b].mtx_lock = c
      BY <1>1, <2>3, <3>1 DEF UseInv, WorksAlone, Locking
    <3> QED
      BY <1>1, <1>3, <2>1, <2>3, <3>2, <3>3 DEF Touches
  <2> QED
    BY <1>1, <1>2, <1>3, <2>2, <2>3 DEF Locking
<1>4. CASE d # c
  <2>1. cli'[d] = cli[d] /\ cli[d].pc \in Alone
    BY <1>1, <1>2, <1>4 DEF Touches
  <2>2. /\ blob[cli[d].blob].mtx_lock = d \/ blob[cli[d].blob].holders = {d}
        /\ cli[d].pc = "ptr" => blob[cli[d].blob].mtx_lock = d
    BY <2>1 DEF UseInv, WorksAlone
  <2>3. cli[d].blob \in Blobs
    <3>1. cli[d].pc \notin Outside
      BY <2>1 DEF Alone, Outside
    <3> QED
      BY <3>1, InsideFacts
  <2>4. CASE cli[d].blob # b
    <3>1. blob'[cli[d].blob] = blob[cli[d].blob]
      BY <1>1, <2>3, <2>4 DEF Touches
    <3> QED
      BY <2>1, <2>2, <3>1
  <2>5. CASE cli[d].blob = b
    <3>1. blob'[b].holders = blob[b].holders /\ c \in blob[b].holders
      BY <1>1 DEF Touches
    <3>2. blob[b].mtx_lock = d
      BY <1>4, <2>2, <2>5, <3>1
    <3>3. d # NoOne
      BY NamesAssumption DEF NoOne
    <3>4. ~(cli[c].pc \in Alone)
      <4> SUFFICES ASSUME cli[c].pc \in Alone PROVE FALSE
        OBVIOUS
      <4>1. cli[c].blob = b
        BY <1>1 DEF Proceeds, Alone
      <4> QED
        BY <1>4, <2>1, <2>5, <4>1, AloneMeansAlone
    <3>5. blob'[b].mtx_lock = d
      BY <1>1, <3>2, <3>3, <3>4 DEF Locking
    <3> QED
      BY <2>1, <2>5, <3>5
  <2> QED
    BY <2>4, <2>5
<1> QED
  BY <1>3, <1>4

-----------------------------------------------------------------------------
(* The places of requests. *)

\* The thread that sleeps for the verdict on blob b works alone on it.
LEMMA AwaitedFacts ==
    ASSUME UseInv, NEW b \in Blobs, Awaited(b)
    PROVE  /\ b \in blobs
           /\ ~blob[b].replied
           /\ \E c \in Clients : cli[c].pc = "wait" /\ cli[c].blob = b
<1>1. PICK c \in Clients : cli[c].pc = "wait" /\ cli[c].blob = b
  BY DEF Awaited
<1> QED
  BY <1>1 DEF Awaited, UseInv, RefsHeld

\* Appending a message that is not a blob changes nothing about requests.
LEMMA QueueOther ==
    ASSUME UseInv, req_queue' = req_queue \/ req_queue' = Append(req_queue, MEM_FREED)
    PROVE  /\ \A b \in Blobs : Queued(b)' <=> Queued(b)
           /\ \A i, j \in 1 .. Len(req_queue') :
                 req_queue'[i] \in Blobs /\ req_queue'[i] = req_queue'[j] => i = j
<1>1. /\ req_queue \in Seq(Blobs \cup {MEM_FREED, KILL}) /\ MEM_FREED \notin Blobs
      /\ Len(req_queue) \in Nat
  BY NamesAssumption DEF UseInv, QuotaInv, TypeOK, MEM_FREED
<1>2. \A i, j \in 1 .. Len(req_queue) :
         req_queue[i] \in Blobs /\ req_queue[i] = req_queue[j] => i = j
  BY DEF UseInv, KeptApart
<1>3. CASE req_queue' = req_queue
  BY <1>2, <1>3 DEF Queued
<1>4. CASE req_queue' = Append(req_queue, MEM_FREED)
  <2>1. /\ Len(req_queue') = Len(req_queue) + 1
        /\ \A i \in 1 .. Len(req_queue) : req_queue'[i] = req_queue[i]
        /\ req_queue'[Len(req_queue) + 1] = MEM_FREED
    BY <1>1, <1>4
  <2>2. \A i \in 1 .. Len(req_queue') :
           i \in 1 .. Len(req_queue) \/ i = Len(req_queue) + 1
    BY <1>1, <2>1
  <2>3. \A i \in 1 .. Len(req_queue) : i \in 1 .. Len(req_queue')
    BY <1>1, <2>1
  <2>4. ASSUME NEW b \in Blobs PROVE Queued(b)' <=> Queued(b)
    <3>1. Queued(b) <=> \E i \in 1 .. Len(req_queue) : req_queue[i] = b
      BY DEF Queued
    <3>2. Queued(b)' <=> \E i \in 1 .. Len(req_queue') : req_queue'[i] = b
      BY DEF Queued
    <3>3. ASSUME NEW i \in 1 .. Len(req_queue'), req_queue'[i] = b
          PROVE  i \in 1 .. Len(req_queue) /\ req_queue[i] = b
      BY <1>1, <2>1, <2>2, <3>3
    <3> QED
      BY <2>1, <2>3, <3>1, <3>2, <3>3
  <2>5. ASSUME NEW i \in 1 .. Len(req_queue'), NEW j \in 1 .. Len(req_queue'),
               req_queue'[i] \in Blobs, req_queue'[i] = req_queue'[j]
        PROVE  i = j
    <3>1. i \in 1 .. Len(req_queue) /\ j \in 1 .. Len(req_queue)
      BY <1>1, <2>1, <2>2, <2>5
    <3> QED
      BY <1>2, <2>1, <2>5, <3>1
  <2> QED
    BY <2>4, <2>5
<1> QED
  BY <1>3, <1>4

\* A step that leaves the management thread and its lists alone, and changes
\* nothing about who waits, keeps every request in its place.
LEMMA PlacesStay ==
    ASSUME UseInv, UNCHANGED <<mgr, waiting_list>>,
           req_queue' = req_queue \/ req_queue' = Append(req_queue, MEM_FREED),
           \A x \in Blobs : Awaited(x)' <=> Awaited(x)
    PROVE  KeptApart'
<1>1. \A x \in Blobs : Queued(x)' <=> Queued(x)
  BY QueueOther
<1>2. \A x \in Blobs : /\ InHand(x)' <=> InHand(x)
                       /\ Deferred(x)' <=> Deferred(x)
  BY DEF InHand, Deferred
<1>3. \A x \in Blobs :
          /\ Awaited(x)' <=> (InHand(x)' \/ Queued(x)' \/ Deferred(x)')
          /\ ~(InHand(x)' /\ Queued(x)')
          /\ ~(InHand(x)' /\ Deferred(x)')
          /\ ~(Queued(x)' /\ Deferred(x)')
  BY <1>1, <1>2 DEF UseInv, KeptApart
<1>4. \A i, j \in 1 .. Len(req_queue') :
         req_queue'[i] \in Blobs /\ req_queue'[i] = req_queue'[j] => i = j
  BY QueueOther
<1>5. \A i, j \in 1 .. Len(waiting_list') :
          waiting_list'[i] = waiting_list'[j] => i = j
  BY DEF UseInv, KeptApart
<1> QED
  BY <1>3, <1>4, <1>5 DEF KeptApart

\* Appending a request that is nowhere else.
LEMMA QueuePush ==
    ASSUME UseInv, NEW b \in Blobs, ~Queued(b), req_queue' = Append(req_queue, b)
    PROVE  /\ Queued(b)'
           /\ \A x \in Blobs \ {b} : Queued(x)' <=> Queued(x)
           /\ \A i, j \in 1 .. Len(req_queue') :
                 req_queue'[i] \in Blobs /\ req_queue'[i] = req_queue'[j] => i = j
<1>1. req_queue \in Seq(Blobs \cup {MEM_FREED, KILL}) /\ Len(req_queue) \in Nat
  BY DEF UseInv, QuotaInv, TypeOK
<1>2. \A i, j \in 1 .. Len(req_queue) :
         req_queue[i] \in Blobs /\ req_queue[i] = req_queue[j] => i = j
  BY DEF UseInv, KeptApart
<1>3. /\ Len(req_queue') = Len(req_queue) + 1
      /\ \A i \in 1 .. Len(req_queue) : req_queue'[i] = req_queue[i]
      /\ req_queue'[Len(req_queue) + 1] = b
  BY <1>1
<1>4. \A i \in 1 .. Len(req_queue') :
         i \in 1 .. Len(req_queue) \/ i = Len(req_queue) + 1
  BY <1>1, <1>3
<1>5. /\ \A i \in 1 .. Len(req_queue) : i \in 1 .. Len(req_queue')
      /\ Len(req_queue) + 1 \in 1 .. Len(req_queue')
  BY <1>1, <1>3
<1>6. \A x : Queued(x) <=> \E i \in 1 .. Len(req_queue) : req_queue[i] = x
  BY DEF Queued
<1>7. \A x : Queued(x)' <=> \E i \in 1 .. Len(req_queue') : req_queue'[i] = x
  BY DEF Queued
<1>8. Queued(b)'
  BY <1>3, <1>5, <1>7
<1>9. ASSUME NEW x \in Blobs \ {b} PROVE Queued(x)' <=> Queued(x)
  <2>1. ASSUME NEW i \in 1 .. Len(req_queue'), req_queue'[i] = x
        PROVE  i \in 1 .. Len(req_queue) /\ req_queue[i] = x
    BY <1>3, <1>4, <2>1
  <2> QED
    BY <1>3, <1>5, <1>6, <1>7, <2>1
<1>10. ASSUME NEW i \in 1 .. Len(req_queue'), NEW j \in 1 .. Len(req_queue'),
              req_queue'[i] \in Blobs, req_queue'[i] = req_queue'[j]
       PROVE  i = j
  <2>1. CASE i \in 1 .. Len(req_queue) /\ j \in 1 .. Len(req_queue)
    BY <1>2, <1>3, <1>10, <2>1
  <2>2. CASE i = Len(req_queue) + 1 /\ j = Len(req_queue) + 1
    BY <2>2
  <2>3. ASSUME NEW k \in 1 .. Len(req_queue) PROVE req_queue[k] # b
    BY <1>6
  <2> QED
    BY <1>3, <1>4, <1>10, <2>1, <2>2, <2>3
<1> QED
  BY <1>8, <1>9, <1>10

LEMMA CallStepKept ==
    ASSUME UseInv, NEW c \in Clients, NEW b \in Blobs, CallStep(c, b)
    PROVE  KeptApart'
<1>1. Touches(c, b) /\ Proceeds(c, b) /\ Asking(c, b)
  BY DEF CallStep
<1>2. UNCHANGED <<mgr, waiting_list>>
  BY <1>1 DEF Touches
<1> DEFINE Waits(d, x) == cli[d].pc = "wait" /\ cli[d].blob = x
           WaitsThen(d, x) == cli'[d].pc = "wait" /\ cli'[d].blob = x
<1>3. \A x : /\ Awaited(x) <=> (~blob[x].replied /\ \E d \in Clients : Waits(d, x))
             /\ Awaited(x)' <=> (~blob'[x].replied /\ \E d \in Clients : WaitsThen(d, x))
  BY DEF Awaited
<1>4. \A d \in Clients \ {c}, x \in Blobs : WaitsThen(d, x) <=> Waits(d, x)
  BY <1>1 DEF Touches
<1>5. \A x \in Blobs \ {b} : ~Waits(c, x) /\ ~WaitsThen(c, x)
  BY <1>1 DEF Proceeds
<1>6. \A x \in Blobs \ {b} : blob'[x] = blob[x]
  BY <1>1 DEF Touches
<1> HIDE DEF Waits, WaitsThen
<1>7. \A x \in Blobs \ {b} : Awaited(x)' <=> Awaited(x)
  BY <1>3, <1>4, <1>5, <1>6
<1>8. CASE /\ blob'[b].replied = blob[b].replied
           /\ cli'[c].pc = "wait" <=> cli[c].pc = "wait"
           /\ req_queue' = req_queue \/ req_queue' = Append(req_queue, MEM_FREED)
  <2>1. WaitsThen(c, b) <=> Waits(c, b)
    BY <1>1, <1>8 DEF Proceeds, Waits, WaitsThen
  <2>2. Awaited(b)' <=> Awaited(b)
    BY <1>3, <1>4, <1>8, <2>1
  <2>3. \A x \in Blobs : Awaited(x)' <=> Awaited(x)
    BY <1>7, <2>2
  <2> QED
    BY <1>2, <1>8, <2>3, PlacesStay
<1>9. CASE /\ cli[c].pc = "wait" /\ blob[b].replied
           /\ blob'[b].replied = blob[b].replied
           /\ cli'[c].pc # "wait"
           /\ req_queue' = req_queue
  <2>1. ~Awaited(b)' /\ ~Awaited(b)
    BY <1>3, <1>9
  <2>2. \A x \in Blobs : Awaited(x)' <=> Awaited(x)
    BY <1>7, <2>1
  <2> QED
    BY <1>2, <1>9, <2>2, PlacesStay
<1>10. CASE /\ cli[c].pc = "push" /\ cli'[c].pc = "wait"
            /\ ~blob'[b].replied
            /\ req_queue' = Append(req_queue, b)
  <2>1. cli'[c].blob = b /\ cli[c].blob = b
    BY <1>1, <1>10 DEF Proceeds
  <2>2. Awaited(b)'
    BY <1>3, <1>10, <2>1 DEF WaitsThen
  <2>3. ASSUME NEW d \in Clients, Waits(d, b) PROVE FALSE
    <3>1. cli[d].pc = "wait" /\ cli[d].pc \in Alone /\ cli[c].pc \in Alone
          /\ cli[d].blob = cli[c].blob
      BY <1>10, <2>1, <2>3 DEF Waits, Alone
    <3>2. c = d
      BY <3>1, AloneMeansAlone
    <3> QED
      BY <1>10, <3>1, <3>2
  <2>4. ~Awaited(b)
    BY <1>3, <2>3
  <2>5. ~InHand(b) /\ ~Queued(b) /\ ~Deferred(b)
    BY <2>4 DEF UseInv, KeptApart
  <2>6. \A x \in Blobs : /\ InHand(x)' <=> InHand(x)
                         /\ Deferred(x)' <=> Deferred(x)
    BY <1>2 DEF InHand, Deferred
  <2>7. /\ Queued(b)' /\ \A x \in Blobs \ {b} : Queued(x)' <=> Queued(x)
        /\ \A i, j \in 1 .. Len(req_queue') :
              req_queue'[i] \in Blobs /\ req_queue'[i] = req_queue'[j] => i = j
    BY <1>10, <2>5, QueuePush
  <2>8. ASSUME NEW x \in Blobs
        PROVE  /\ Awaited(x)' <=> (InHand(x)' \/ Queued(x)' \/ Deferred(x)')
               /\ ~(InHand(x)' /\ Queued(x)')
               /\ ~(InHand(x)' /\ Deferred(x)')
               /\ ~(Queued(x)' /\ Deferred(x)')
    <3>1. CASE x = b
      BY <2>2, <2>5, <2>6, <2>7, <3>1
    <3>2. CASE x # b
      BY <1>7, <2>6, <2>7, <3>2 DEF UseInv, KeptApart
    <3> QED
      BY <3>1, <3>2
  <2>9. \A i, j \in 1 .. Len(waiting_list') :
            waiting_list'[i] = waiting_list'[j] => i = j
    BY <1>2 DEF UseInv, KeptApart
  <2> QED
    BY <2>7, <2>8, <2>9 DEF KeptApart
<1> QED
  BY <1>1, <1>8, <1>9, <1>10 DEF Asking

-----------------------------------------------------------------------------
(* The calls that create, share and destroy blobs. *)

\* Nobody is inside of a call on a blob that is not listed.
LEMMA NobodyOn ==
    ASSUME UseInv, NEW b \in Blobs, b \notin blobs, NEW d \in Clients
    PROVE  cli[d].blob # b
<1>1. NoBlob # b
  BY NamesAssumption DEF NoBlob
<1> QED
  BY <1>1 DEF UseInv, RefsHeld

LEMMA NewUse ==
    ASSUME UseInv, NEW c \in Clients, NEW b \in Blobs, NEW n, z_blob_new(c, b, n)
    PROVE  RefsHeld' /\ WorksAlone' /\ KeptApart'
<1> DEFINE s == [FreshBlob EXCEPT !.ref_cnt = 1, !.holders = {c}]
           r == [pc |-> "alloc", blob |-> b, want |-> n, len |-> n, op |-> "new"]
<1>1. /\ cli[c].pc = "idle" /\ b \notin blobs /\ blobs' = blobs \cup {b}
      /\ blob' = [blob EXCEPT ![b] = s]
      /\ cli' = cli \/ cli' = [cli EXCEPT ![c] = r]
      /\ UNCHANGED <<req_queue, waiting_list, mgr, sysd>>
  BY DEF z_blob_new, At
<1>2. /\ blob \in [Blobs -> BlobType] /\ cli \in [Clients -> ClientType]
      /\ blobs \subseteq Blobs
  BY DEF UseInv, QuotaInv, TypeOK
<1>3. s.holders = {c} /\ s.ref_cnt = 1
  BY DEF FreshBlob
<1>4. r.pc = "alloc" /\ r.blob = b
  OBVIOUS
<1> HIDE DEF s, r
<1>5. blob'[b] = s /\ \A x \in Blobs \ {b} : blob'[x] = blob[x]
  BY <1>1, <1>2
<1>6. /\ \A d \in Clients \ {c} : cli'[d] = cli[d]
      /\ cli'[c] = cli[c] \/ (cli'[c].pc = "alloc" /\ cli'[c].blob = b)
  BY <1>1, <1>2, <1>4
<1>7. \A d \in Clients : cli[d].blob # b
  BY <1>1, NobodyOn
<1>8. cli[c].blob = NoBlob
  BY <1>1 DEF UseInv, RefsHeld
<1>9. ASSUME NEW d \in Clients
      PROVE  \/ cli'[d] = cli[d]
             \/ d = c /\ cli'[d].pc = "alloc" /\ cli'[d].blob = b
  BY <1>6
<1>10. ASSUME NEW d \in Clients, cli[d].pc # "idle"
       PROVE  cli[d].blob \in blobs /\ blob'[cli[d].blob] = blob[cli[d].blob]
  <2>1. cli[d].blob \in blobs
    BY <1>10 DEF UseInv, RefsHeld
  <2> QED
    BY <1>2, <1>5, <1>7, <2>1
<1>11. RefsHeld'
  <2>1. ASSUME NEW d \in Clients
        PROVE  /\ cli'[d].pc = "idle" => cli'[d].blob = NoBlob
               /\ cli'[d].pc # "idle" => cli'[d].blob \in blobs'
               /\ cli'[d].pc \notin Outside => d \in blob'[cli'[d].blob].holders
               /\ cli'[d].pc = "destroy" => blob'[cli'[d].blob].holders = {}
    <3>1. CASE cli'[d] = cli[d]
      BY <1>1, <1>10, <3>1 DEF UseInv, RefsHeld, Outside
    <3>2. CASE d = c /\ cli'[d].pc = "alloc" /\ cli'[d].blob = b
      BY <1>1, <1>3, <1>5, <3>2
    <3> QED
      BY <1>9, <3>1, <3>2
  <2>2. \A d, e \in Clients :
           cli'[d].pc = "destroy" /\ cli'[e].pc = "destroy" /\ cli'[d].blob = cli'[e].blob
              => d = e
    BY <1>9 DEF UseInv, RefsHeld
  <2>3. ASSUME NEW x \in blobs'
        PROVE  /\ IsFiniteSet(blob'[x].holders)
               /\ blob'[x].ref_cnt = Cardinality(blob'[x].holders)
    <3>1. CASE x = b
      BY <1>3, <1>5, <3>1, FS_Singleton
    <3>2. CASE x # b
      BY <1>1, <1>2, <1>5, <3>2 DEF UseInv, RefsHeld
    <3> QED
      BY <3>1, <3>2
  <2>4. sysd'.pc = "up"
    BY <1>1 DEF UseInv, RefsHeld
  <2> QED
    BY <2>1, <2>2, <2>3, <2>4 DEF RefsHeld
<1>12. WorksAlone'
  <2>1. ASSUME NEW d \in Clients, cli'[d].pc \in Alone
        PROVE  /\ \/ blob'[cli'[d].blob].mtx_lock = d
                  \/ blob'[cli'[d].blob].holders = {d}
               /\ cli'[d].pc = "ptr" => blob'[cli'[d].blob].mtx_lock = d
    <3>1. CASE cli'[d] = cli[d]
      <4>1. cli[d].pc \in Alone /\ cli[d].pc # "idle"
        BY <2>1, <3>1 DEF Alone
      <4> QED
        BY <1>10, <3>1, <4>1 DEF UseInv, WorksAlone
    <3>2. CASE d = c /\ cli'[d].pc = "alloc" /\ cli'[d].blob = b
      BY <1>3, <1>5, <3>2
    <3> QED
      BY <1>9, <3>1, <3>2
  <2> QED
    BY <2>1 DEF WorksAlone, Alone
<1>13. KeptApart'
  <2>1. ASSUME NEW x \in Blobs PROVE Awaited(x)' <=> Awaited(x)
    <3>1. \A d \in Clients : (cli'[d].pc = "wait" /\ cli'[d].blob = x)
                                <=> (cli[d].pc = "wait" /\ cli[d].blob = x)
      BY <1>1, <1>6
    <3>2. CASE x = b
      BY <1>7, <3>1, <3>2 DEF Awaited
    <3>3. CASE x # b
      BY <1>5, <3>1, <3>3 DEF Awaited
    <3> QED
      BY <3>2, <3>3
  <2> QED
    BY <1>1, <2>1, PlacesStay
<1> QED
  BY <1>11, <1>12, <1>13

\* A change of the references of one blob by a thread that holds one, under
\* which the other threads keep theirs.
LEMMA ShareUse ==
    ASSUME UseInv, NEW c \in Clients, NEW b \in Blobs, MayCall(c, b), NEW h, NEW k,
           blob' = [blob EXCEPT ![b] = [blob[b] EXCEPT !.ref_cnt = k, !.holders = h]],
           blob[b].holders \ {c} \subseteq h, IsFiniteSet(h), k = Cardinality(h),
           \A d \in Clients \ {c} : cli'[d] = cli[d],
           \/ cli'[c] = cli[c]
           \/ cli'[c].pc = "destroy" /\ cli'[c].blob = b /\ h = {},
           UNCHANGED <<req_queue, waiting_list, blobs, mgr, sysd>>
    PROVE  RefsHeld' /\ WorksAlone' /\ KeptApart'
<1>1. /\ cli[c].pc = "idle" /\ b \in blobs /\ c \in blob[b].holders
  BY DEF MayCall, At
<1>2. /\ blob \in [Blobs -> BlobType] /\ blob[b] \in BlobType /\ blobs \subseteq Blobs
  BY DEF UseInv, QuotaInv, TypeOK
<1> DEFINE s == [blob[b] EXCEPT !.ref_cnt = k, !.holders = h]
<1>3. /\ s.ref_cnt = k /\ s.holders = h /\ s.mtx_lock = blob[b].mtx_lock
      /\ s.replied = blob[b].replied
  BY <1>2 DEF BlobType
<1>4. blob'[b] = s /\ \A x \in Blobs \ {b} : blob'[x] = blob[x]
  BY <1>2
<1> HIDE DEF s
<1>5. ASSUME NEW d \in Clients, cli[d].pc # "idle"
      PROVE  d # c /\ cli'[d] = cli[d] /\ cli[d].blob \in blobs /\ cli[d].blob \in Blobs
  BY <1>1, <1>2, <1>5 DEF UseInv, RefsHeld
<1>6. ASSUME NEW d \in Clients, cli[d].pc = "destroy" PROVE cli[d].blob # b
  BY <1>1, <1>6 DEF UseInv, RefsHeld
<1>7. ASSUME NEW d \in Clients, cli[d].pc \notin Outside
      PROVE  d \in blob'[cli[d].blob].holders
  <2>1. d # c /\ cli[d].blob \in Blobs /\ d \in blob[cli[d].blob].holders
    BY <1>5, <1>7 DEF UseInv, RefsHeld, Outside
  <2>2. CASE cli[d].blob = b
    BY <1>3, <1>4, <2>1, <2>2
  <2>3. CASE cli[d].blob # b
    BY <1>4, <2>1, <2>3
  <2> QED
    BY <2>2, <2>3
<1>8. ASSUME NEW d \in Clients
      PROVE  \/ cli'[d] = cli[d]
             \/ d = c /\ cli'[d].pc = "destroy" /\ cli'[d].blob = b /\ h = {}
  OBVIOUS
<1>9. RefsHeld'
  <2>1. ASSUME NEW d \in Clients
        PROVE  /\ cli'[d].pc = "idle" => cli'[d].blob = NoBlob
               /\ cli'[d].pc # "idle" => cli'[d].blob \in blobs'
               /\ cli'[d].pc \notin Outside => d \in blob'[cli'[d].blob].holders
               /\ cli'[d].pc = "destroy" => blob'[cli'[d].blob].holders = {}
    <3>1. CASE cli'[d] = cli[d]
      <4>1. cli[d].pc = "idle" => cli[d].blob = NoBlob
        BY DEF UseInv, RefsHeld
      <4>2. cli[d].pc = "destroy" => blob'[cli[d].blob].holders = {}
        <5> SUFFICES ASSUME cli[d].pc = "destroy"
                     PROVE  blob'[cli[d].blob].holders = {}
          OBVIOUS
        <5>1. blob[cli[d].blob].holders = {}
          BY DEF UseInv, RefsHeld
        <5> QED
          BY <1>4, <1>5, <1>6, <5>1
      <4> QED
        BY <1>5, <1>7, <3>1, <4>1, <4>2
    <3>2. CASE d = c /\ cli'[d].pc = "destroy" /\ cli'[d].blob = b /\ h = {}
      BY <1>1, <1>3, <1>4, <3>2 DEF Outside
    <3> QED
      BY <1>8, <3>1, <3>2
  <2>2. ASSUME NEW d \in Clients, NEW e \in Clients,
               cli'[d].pc = "destroy", cli'[e].pc = "destroy",
               cli'[d].blob = cli'[e].blob
        PROVE  d = e
    <3>1. CASE cli'[d] = cli[d] /\ cli'[e] = cli[e]
      BY <2>2, <3>1 DEF UseInv, RefsHeld
    <3>2. CASE d = c \/ e = c
      BY <1>1, <1>6, <1>8, <2>2, <3>2
    <3> QED
      BY <1>8, <3>1, <3>2
  <2>3. ASSUME NEW x \in blobs'
        PROVE  /\ IsFiniteSet(blob'[x].holders)
               /\ blob'[x].ref_cnt = Cardinality(blob'[x].holders)
    <3>1. CASE x = b
      BY <1>3, <1>4, <3>1
    <3>2. CASE x # b
      BY <1>2, <1>4, <3>2 DEF UseInv, RefsHeld
    <3> QED
      BY <3>1, <3>2
  <2>4. sysd'.pc = "up"
    BY DEF UseInv, RefsHeld
  <2> QED
    BY <2>1, <2>2, <2>3, <2>4 DEF RefsHeld
<1>10. WorksAlone'
  <2>1. ASSUME NEW d \in Clients, cli'[d].pc \in Alone
        PROVE  /\ \/ blob'[cli'[d].blob].mtx_lock = d
                  \/ blob'[cli'[d].blob].holders = {d}
               /\ cli'[d].pc = "ptr" => blob'[cli'[d].blob].mtx_lock = d
    <3>1. cli'[d] = cli[d] /\ cli[d].pc \in Alone /\ cli[d].pc # "idle"
      BY <1>1, <1>8, <2>1 DEF Alone
    <3>2. d # c /\ cli[d].blob \in Blobs
      BY <1>5, <3>1
    <3>3. /\ blob[cli[d].blob].mtx_lock = d \/ blob[cli[d].blob].holders = {d}
          /\ cli[d].pc = "ptr" => blob[cli[d].blob].mtx_lock = d
      BY <3>1 DEF UseInv, WorksAlone
    <3>4. CASE cli[d].blob = b
      BY <1>1, <1>3, <1>4, <3>1, <3>2, <3>3, <3>4
    <3>5. CASE cli[d].blob # b
      BY <1>4, <3>1, <3>2, <3>3, <3>5
    <3> QED
      BY <3>4, <3>5
  <2> QED
    BY <2>1 DEF WorksAlone, Alone
<1>11. KeptApart'
  <2>1. ASSUME NEW x \in Blobs PROVE Awaited(x)' <=> Awaited(x)
    <3>1. \A d \in Clients : (cli'[d].pc = "wait" /\ cli'[d].blob = x)
                                <=> (cli[d].pc = "wait" /\ cli[d].blob = x)
      BY <1>1, <1>8
    <3>2. blob'[x].replied = blob[x].replied
      BY <1>3, <1>4
    <3> QED
      BY <3>1, <3>2 DEF Awaited
  <2> QED
    BY <2>1, PlacesStay
<1> QED
  BY <1>9, <1>10, <1>11

LEMMA RefUse ==
    ASSUME UseInv, NEW c \in Clients, NEW d \in Clients, NEW b \in Blobs,
           z_blob_ref(c, d, b)
    PROVE  RefsHeld' /\ WorksAlone' /\ KeptApart'
<1> DEFINE h == blob[b].holders \cup {d}
           k == blob[b].ref_cnt + 1
<1>1. /\ MayCall(c, b) /\ d \notin blob[b].holders /\ UNCHANGED cli
      /\ blob' = [blob EXCEPT ![b] = [blob[b] EXCEPT !.ref_cnt = k, !.holders = h]]
      /\ UNCHANGED <<req_queue, waiting_list, blobs, mgr, sysd>>
  BY DEF z_blob_ref, Referenced
<1>2. IsFiniteSet(blob[b].holders) /\ blob[b].ref_cnt = Cardinality(blob[b].holders)
  BY <1>1 DEF MayCall, UseInv, RefsHeld
<1>3. IsFiniteSet(h) /\ k = Cardinality(h)
  BY <1>1, <1>2, FS_AddElement
<1>4. blob[b].holders \ {c} \subseteq h
  OBVIOUS
<1> HIDE DEF h, k
<1>5. cli'[c] = cli[c] /\ \A e \in Clients \ {c} : cli'[e] = cli[e]
  BY <1>1
<1> QED
  BY <1>1, <1>3, <1>4, <1>5, ShareUse

LEMMA UnrefUse ==
    ASSUME UseInv, NEW c \in Clients, NEW b \in Blobs, z_blob_unref(c, b)
    PROVE  RefsHeld' /\ WorksAlone' /\ KeptApart'
<1> DEFINE h == blob[b].holders \ {c}
           k == blob[b].ref_cnt - 1
           r == [cli[c] EXCEPT !.pc = "destroy", !.blob = b]
<1>1. /\ MayCall(c, b)
      /\ blob' = [blob EXCEPT ![b] = [blob[b] EXCEPT !.ref_cnt = k, !.holders = h]]
      /\ \/ cli' = cli
         \/ blob[b].ref_cnt = 1 /\ cli' = [cli EXCEPT ![c] = r]
      /\ UNCHANGED <<req_queue, waiting_list, blobs, mgr, sysd>>
  BY DEF z_blob_unref, LastReference
<1>2. /\ IsFiniteSet(blob[b].holders) /\ blob[b].ref_cnt = Cardinality(blob[b].holders)
      /\ c \in blob[b].holders
  BY <1>1 DEF MayCall, UseInv, RefsHeld
<1>3. IsFiniteSet(h) /\ k = Cardinality(h)
  BY <1>2, FS_RemoveElement
<1>4. blob[b].ref_cnt = 1 => h = {}
  <2>1. blob[b].ref_cnt = 1 => Cardinality(h) = 0
    BY <1>3
  <2> QED
    BY <1>3, <2>1, FS_EmptySet
<1>5. cli \in [Clients -> ClientType] /\ cli[c] \in ClientType
  BY DEF UseInv, QuotaInv, TypeOK
<1>6. r.pc = "destroy" /\ r.blob = b
  BY <1>5 DEF ClientType
<1> HIDE DEF r
<1>7. /\ \A e \in Clients \ {c} : cli'[e] = cli[e]
      /\ \/ cli'[c] = cli[c]
         \/ cli'[c].pc = "destroy" /\ cli'[c].blob = b /\ h = {}
  BY <1>1, <1>4, <1>5, <1>6
<1>8. blob[b].holders \ {c} \subseteq h
  OBVIOUS
<1> HIDE DEF h, k
<1> QED
  BY <1>1, <1>3, <1>7, <1>8, ShareUse

LEMMA UnrefDestroyUse ==
    ASSUME UseInv, NEW c \in Clients, UnrefDestroy(c)
    PROVE  RefsHeld' /\ WorksAlone' /\ KeptApart'
<1> DEFINE b == cli[c].blob
           t == [blob[b] EXCEPT !.alloc_req = 0 - blob[b].alloc_size]
<1>1. /\ cli[c].pc = "destroy" /\ blobs' = blobs \ {b}
      /\ blob' = [blob EXCEPT ![b] = FreshBlob]
      /\ req_queue' = req_queue \o FreedMessage(t)
      /\ cli' = [cli EXCEPT ![c] = IdleClient]
      /\ UNCHANGED <<waiting_list, mgr, sysd>>
  BY DEF UnrefDestroy, Destroy, At
<1>2. /\ blob \in [Blobs -> BlobType] /\ cli \in [Clients -> ClientType]
      /\ blobs \subseteq Blobs
  BY DEF UseInv, QuotaInv, TypeOK
<1>3. b \in blobs /\ b \in Blobs /\ blob[b].holders = {}
  BY <1>1, <1>2 DEF UseInv, RefsHeld
<1>4. /\ \A x \in Blobs \ {b} : blob'[x] = blob[x]
      /\ cli'[c].pc = "idle" /\ cli'[c].blob = NoBlob
      /\ \A d \in Clients \ {c} : cli'[d] = cli[d]
  BY <1>1, <1>2 DEF IdleClient
<1>5. ASSUME NEW d \in Clients, d # c PROVE cli[d].blob # b
  <2>1. CASE cli[d].pc = "idle"
    <3>1. NoBlob # b
      BY <1>3, NamesAssumption DEF NoBlob
    <3> QED
      BY <2>1, <3>1 DEF UseInv, RefsHeld
  <2>2. CASE cli[d].pc = "destroy"
    BY <1>1, <1>5, <2>2 DEF UseInv, RefsHeld
  <2>3. CASE cli[d].pc \notin Outside
    <3>1. d \in blob[cli[d].blob].holders
      BY <2>3 DEF UseInv, RefsHeld
    <3> QED
      BY <1>3, <3>1
  <2> QED
    BY <2>1, <2>2, <2>3 DEF Outside
<1>6. ASSUME NEW d \in Clients, cli'[d].pc # "idle"
      PROVE  /\ d # c /\ cli'[d] = cli[d] /\ cli[d].blob \in blobs'
             /\ blob'[cli[d].blob] = blob[cli[d].blob]
  <2>1. d # c /\ cli'[d] = cli[d]
    BY <1>4, <1>6
  <2>2. cli[d].blob \in blobs /\ cli[d].blob # b
    BY <1>5, <1>6, <2>1 DEF UseInv, RefsHeld
  <2> QED
    BY <1>1, <1>2, <1>4, <2>1, <2>2
<1>7. RefsHeld'
  <2>1. ASSUME NEW d \in Clients
        PROVE  /\ cli'[d].pc = "idle" => cli'[d].blob = NoBlob
               /\ cli'[d].pc # "idle" => cli'[d].blob \in blobs'
               /\ cli'[d].pc \notin Outside => d \in blob'[cli'[d].blob].holders
               /\ cli'[d].pc = "destroy" => blob'[cli'[d].blob].holders = {}
    <3>1. CASE cli'[d].pc = "idle"
      BY <1>4, <3>1 DEF UseInv, RefsHeld, Outside
    <3>2. CASE cli'[d].pc # "idle"
      BY <1>6, <3>2 DEF UseInv, RefsHeld
    <3> QED
      BY <3>1, <3>2
  <2>2. \A d, e \in Clients :
           cli'[d].pc = "destroy" /\ cli'[e].pc = "destroy" /\ cli'[d].blob = cli'[e].blob
              => d = e
    BY <1>6 DEF UseInv, RefsHeld
  <2>3. \A x \in blobs' : /\ IsFiniteSet(blob'[x].holders)
                          /\ blob'[x].ref_cnt = Cardinality(blob'[x].holders)
    BY <1>1, <1>2, <1>4 DEF UseInv, RefsHeld
  <2>4. sysd'.pc = "up"
    BY <1>1 DEF UseInv, RefsHeld
  <2> QED
    BY <2>1, <2>2, <2>3, <2>4 DEF RefsHeld
<1>8. WorksAlone'
  <2>1. \A d \in Clients : cli'[d].pc \in Alone => cli'[d].pc # "idle"
    BY DEF Alone
  <2> QED
    BY <1>6, <2>1 DEF UseInv, WorksAlone
<1>9. KeptApart'
  <2>1. ASSUME NEW x \in Blobs PROVE Awaited(x)' <=> Awaited(x)
    <3>1. \A d \in Clients : (cli'[d].pc = "wait" /\ cli'[d].blob = x)
                                <=> (cli[d].pc = "wait" /\ cli[d].blob = x)
      BY <1>1, <1>4
    <3>2. CASE x = b
      <4>1. \A d \in Clients : ~(cli[d].pc = "wait" /\ cli[d].blob = x)
        BY <1>1, <1>5, <3>2
      <4> QED
        BY <3>1, <4>1 DEF Awaited
    <3>3. CASE x # b
      BY <1>4, <3>1, <3>3 DEF Awaited
    <3> QED
      BY <3>2, <3>3
  <2>2. req_queue' = req_queue \/ req_queue' = Append(req_queue, MEM_FREED)
    BY <1>1, FreedQueue
  <2> QED
    BY <1>1, <2>1, <2>2, PlacesStay
<1> QED
  BY <1>7, <1>8, <1>9

-----------------------------------------------------------------------------
(* The management thread. *)

\* It never touches references, locks and the list of blobs.
LEMMA ManagerUse ==
    ASSUME UseInv, UNCHANGED <<cli, blobs, sysd>>,
           \A x \in Blobs : /\ blob'[x].holders = blob[x].holders
                            /\ blob'[x].ref_cnt = blob[x].ref_cnt
                            /\ blob'[x].mtx_lock = blob[x].mtx_lock
    PROVE  RefsHeld' /\ WorksAlone'
<1>1. blobs \subseteq Blobs
  BY DEF UseInv, QuotaInv, TypeOK
<1>2. ASSUME NEW d \in Clients, cli[d].pc # "idle"
      PROVE  cli[d].blob \in blobs /\ cli[d].blob \in Blobs
  BY <1>1, <1>2 DEF UseInv, RefsHeld
<1>3. ASSUME NEW d \in Clients
      PROVE  /\ cli[d].pc = "idle" => cli[d].blob = NoBlob
             /\ cli[d].pc # "idle" => cli[d].blob \in blobs
             /\ cli[d].pc \notin Outside => d \in blob'[cli[d].blob].holders
             /\ cli[d].pc = "destroy" => blob'[cli[d].blob].holders = {}
  BY <1>2 DEF UseInv, RefsHeld, Outside
<1>4. \A d, e \in Clients :
         cli[d].pc = "destroy" /\ cli[e].pc = "destroy" /\ cli[d].blob = cli[e].blob
            => d = e
  BY DEF UseInv, RefsHeld
<1>5. \A x \in blobs : /\ IsFiniteSet(blob'[x].holders)
                       /\ blob'[x].ref_cnt = Cardinality(blob'[x].holders)
  BY <1>1 DEF UseInv, RefsHeld
<1>6. RefsHeld'
  BY <1>3, <1>4, <1>5 DEF UseInv, RefsHeld
<1>7. ASSUME NEW d \in Clients, cli[d].pc \in Alone
      PROVE  /\ blob'[cli[d].blob].mtx_lock = d \/ blob'[cli[d].blob].holders = {d}
             /\ cli[d].pc = "ptr" => blob'[cli[d].blob].mtx_lock = d
  <2>1. cli[d].blob \in Blobs
    BY <1>2, <1>7 DEF Alone
  <2> QED
    BY <1>7, <2>1 DEF UseInv, WorksAlone
<1>8. WorksAlone'
  BY <1>7 DEF WorksAlone, Alone
<1> QED
  BY <1>6, <1>8

\* What a late grant changes: the blob is answered, and possibly on disk.
LEMMA GrantLateFacts ==
    ASSUME UseInv, NEW b \in Blobs, GrantLate(b)
    PROVE  /\ \A x \in Blobs \ {b} : blob'[x] = blob[x]
           /\ blob'[b].holders = blob[b].holders
           /\ blob'[b].ref_cnt = blob[b].ref_cnt
           /\ blob'[b].mtx_lock = blob[b].mtx_lock
           /\ blob'[b].replied
           /\ blob[b].storage_locked => blob'[b].is_in_file = blob[b].is_in_file
           /\ req_queue' = req_queue \/ req_queue' = Append(req_queue, MEM_FREED)
<1>1. blob \in [Blobs -> BlobType] /\ blob[b] \in BlobType
  BY DEF UseInv, QuotaInv, TypeOK
<1> DEFINE s == Stored(blob[b])
<1>2. /\ s \in BlobType
      /\ s.holders = blob[b].holders /\ s.ref_cnt = blob[b].ref_cnt
      /\ s.mtx_lock = blob[b].mtx_lock
      /\ blob[b].storage_locked => s.is_in_file = blob[b].is_in_file
  BY <1>1, StoredFacts
<1>3. /\ blob' = [blob EXCEPT ![b] = Answered(s, TRUE)]
      /\ req_queue' = req_queue \o FreedMessage(blob[b])
  BY DEF GrantLate
<1> HIDE DEF s
<1>4. /\ Answered(s, TRUE).holders = s.holders
      /\ Answered(s, TRUE).ref_cnt = s.ref_cnt
      /\ Answered(s, TRUE).mtx_lock = s.mtx_lock
      /\ Answered(s, TRUE).is_in_file = s.is_in_file
      /\ Answered(s, TRUE).replied
  BY <1>2 DEF Answered, BlobType
<1>5. /\ blob'[b] = Answered(s, TRUE)
      /\ \A x \in Blobs \ {b} : blob'[x] = blob[x]
  BY <1>1, <1>3
<1>6. req_queue' = req_queue \/ req_queue' = Append(req_queue, MEM_FREED)
  BY <1>3, FreedQueue
<1> QED
  BY <1>2, <1>4, <1>5, <1>6

\* What a denial changes.
LEMMA DenyFacts ==
    ASSUME UseInv, NEW b \in Blobs, blob' = [blob EXCEPT ![b].approved = FALSE]
    PROVE  \A x \in Blobs : /\ blob'[x].holders = blob[x].holders
                            /\ blob'[x].ref_cnt = blob[x].ref_cnt
                            /\ blob'[x].mtx_lock = blob[x].mtx_lock
                            /\ blob'[x].replied = blob[x].replied
                            /\ blob'[x].is_in_file = blob[x].is_in_file
                            /\ blob'[x].alloc_size = blob[x].alloc_size
<1>1. blob \in [Blobs -> BlobType] /\ blob[b] \in BlobType
  BY DEF UseInv, QuotaInv, TypeOK
<1> DEFINE s == [blob[b] EXCEPT !.approved = FALSE]
<1>2. /\ s.holders = blob[b].holders /\ s.ref_cnt = blob[b].ref_cnt
      /\ s.mtx_lock = blob[b].mtx_lock /\ s.replied = blob[b].replied
      /\ s.is_in_file = blob[b].is_in_file /\ s.alloc_size = blob[b].alloc_size
  BY <1>1 DEF BlobType
<1>3. blob' = [blob EXCEPT ![b] = s]
  OBVIOUS
<1> HIDE DEF s
<1>4. \A x \in Blobs : blob'[x] = IF x = b THEN s ELSE blob[x]
  BY <1>1, <1>3
<1> QED
  BY <1>2, <1>4

\* Awaited requests after an answer to b, and after none.
LEMMA AnsweredAwaited ==
    ASSUME UNCHANGED cli, NEW b \in Blobs, blob'[b].replied,
           \A x \in Blobs \ {b} : blob'[x] = blob[x]
    PROVE  ~Awaited(b)' /\ \A x \in Blobs \ {b} : Awaited(x)' <=> Awaited(x)
BY DEF Awaited

LEMMA UnansweredAwaited ==
    ASSUME UNCHANGED cli, \A x \in Blobs : blob'[x].replied = blob[x].replied
    PROVE  \A x \in Blobs : Awaited(x)' <=> Awaited(x)
BY DEF Awaited

LEMMA MgrPopUse ==
    ASSUME UseInv, MgrPop
    PROVE  RefsHeld' /\ WorksAlone' /\ KeptApart'
<1>1. /\ mgr.pc = "pop" /\ req_queue # << >> /\ req_queue' = Tail(req_queue)
      /\ mgr'.item = Head(req_queue)
      /\ mgr'.pc = IF Head(req_queue) = KILL THEN "dead" ELSE "item"
      /\ UNCHANGED <<cli, blobs, sysd, blob, waiting_list>>
  BY DEF MgrPop, MgrAt, IsKill
<1>2. req_queue \in Seq(Blobs \cup {MEM_FREED, KILL}) /\ Len(req_queue) \in Nat
  BY DEF UseInv, QuotaInv, TypeOK
<1>3. KILL \notin Blobs
  BY NamesAssumption DEF KILL
<1>4. RefsHeld' /\ WorksAlone'
  BY <1>1, ManagerUse
<1>5. \A x \in Blobs : Awaited(x)' <=> Awaited(x)
  BY <1>1, UnansweredAwaited
<1>6. \A x \in Blobs : ~InHand(x) /\ (Deferred(x)' <=> Deferred(x))
  BY <1>1 DEF InHand, Deferred
<1>7. \A x \in Blobs : InHand(x)' <=> x = req_queue[1]
  BY <1>1, <1>2, <1>3 DEF InHand
<1>8. /\ Len(req_queue) >= 1 /\ Len(req_queue') = Len(req_queue) - 1
      /\ \A i \in 1 .. Len(req_queue') : /\ i + 1 \in 1 .. Len(req_queue)
                                         /\ req_queue'[i] = req_queue[i + 1]
  BY <1>1, <1>2
<1>9. \A i, j \in 1 .. Len(req_queue) :
         req_queue[i] \in Blobs /\ req_queue[i] = req_queue[j] => i = j
  BY DEF UseInv, KeptApart
<1>10. ASSUME NEW x \in Blobs
       PROVE  /\ Queued(x) <=> (Queued(x)' \/ x = req_queue[1])
              /\ ~(Queued(x)' /\ x = req_queue[1])
  <2>1. Queued(x) <=> \E i \in 1 .. Len(req_queue) : req_queue[i] = x
    BY DEF Queued
  <2>2. Queued(x)' <=> \E i \in 1 .. Len(req_queue') : req_queue'[i] = x
    BY DEF Queued
  <2>3. ASSUME NEW i \in 1 .. Len(req_queue), i # 1
        PROVE  i - 1 \in 1 .. Len(req_queue') /\ req_queue'[i - 1] = req_queue[i]
    <3>1. i - 1 \in 1 .. Len(req_queue')
      BY <1>2, <1>8, <2>3
    <3>2. req_queue'[i - 1] = req_queue[(i - 1) + 1]
      BY <1>8, <3>1
    <3>3. (i - 1) + 1 = i
      OBVIOUS
    <3> QED
      BY <3>1, <3>2, <3>3
  <2>4. 1 \in 1 .. Len(req_queue)
    BY <1>2, <1>8
  <2>5. ASSUME NEW i \in 1 .. Len(req_queue'), req_queue'[i] = x
        PROVE  x # req_queue[1]
    <3>1. i + 1 \in 1 .. Len(req_queue) /\ req_queue[i + 1] = x /\ i + 1 # 1
      BY <1>8, <2>5
    <3> QED
      BY <1>9, <2>4, <3>1
  <2> QED
    BY <1>8, <2>1, <2>2, <2>3, <2>4, <2>5
<1>11. \A i, j \in 1 .. Len(req_queue') :
          req_queue'[i] \in Blobs /\ req_queue'[i] = req_queue'[j] => i = j
  <2> SUFFICES ASSUME NEW i \in 1 .. Len(req_queue'), NEW j \in 1 .. Len(req_queue'),
                      req_queue'[i] \in Blobs, req_queue'[i] = req_queue'[j]
               PROVE  i = j
    OBVIOUS
  <2>1. i + 1 = j + 1
    BY <1>8, <1>9
  <2> QED
    BY <2>1
<1>12. ASSUME NEW x \in Blobs
       PROVE  /\ Awaited(x)' <=> (InHand(x)' \/ Queued(x)' \/ Deferred(x)')
              /\ ~(InHand(x)' /\ Queued(x)')
              /\ ~(InHand(x)' /\ Deferred(x)')
              /\ ~(Queued(x)' /\ Deferred(x)')
  BY <1>5, <1>6, <1>7, <1>10 DEF UseInv, KeptApart
<1>13. \A i, j \in 1 .. Len(waiting_list') :
           waiting_list'[i] = waiting_list'[j] => i = j
  BY <1>1 DEF UseInv, KeptApart
<1>14. KeptApart'
  BY <1>11, <1>12, <1>13 DEF KeptApart
<1> QED
  BY <1>4, <1>14

LEMMA MgrRequestUse ==
    ASSUME UseInv, MgrRequest
    PROVE  RefsHeld' /\ WorksAlone' /\ KeptApart'
<1>0. PICK b \in Blobs : b = mgr.item
  BY DEF MgrRequest
<1>1. /\ mgr.pc = "item" /\ b = mgr.item /\ mgr' = [mgr EXCEPT !.pc = "pop", !.item = NoBlob]
      /\ UNCHANGED <<cli, blobs, sysd>>
  BY <1>0 DEF MgrRequest, MgrAt
<1>2. mgr \in ManagerType /\ waiting_list \in Seq(Blobs) /\ Len(waiting_list) \in Nat
  BY DEF UseInv, QuotaInv, TypeOK
<1>3. mgr'.pc = "pop"
  BY <1>1, <1>2 DEF ManagerType
<1>4. /\ \A x \in Blobs : ~InHand(x)' /\ (InHand(x) <=> x = b)
  BY <1>1, <1>3 DEF InHand
<1>5. \A x \in Blobs : /\ Awaited(x) <=> (InHand(x) \/ Queued(x) \/ Deferred(x))
                       /\ ~(InHand(x) /\ Queued(x)) /\ ~(InHand(x) /\ Deferred(x))
                       /\ ~(Queued(x) /\ Deferred(x))
  BY DEF UseInv, KeptApart
<1>6. \A i, j \in 1 .. Len(waiting_list) : waiting_list[i] = waiting_list[j] => i = j
  BY DEF UseInv, KeptApart
<1>7. CASE GrantLate(b) /\ UNCHANGED waiting_list
  <2>1. /\ \A x \in Blobs \ {b} : blob'[x] = blob[x]
        /\ blob'[b].holders = blob[b].holders
        /\ blob'[b].ref_cnt = blob[b].ref_cnt
        /\ blob'[b].mtx_lock = blob[b].mtx_lock
        /\ blob'[b].replied
        /\ req_queue' = req_queue \/ req_queue' = Append(req_queue, MEM_FREED)
    BY <1>1, <1>7, GrantLateFacts
  <2>2. RefsHeld' /\ WorksAlone'
    BY <1>1, <2>1, ManagerUse
  <2>3. ~Awaited(b)' /\ \A x \in Blobs \ {b} : Awaited(x)' <=> Awaited(x)
    BY <1>1, <2>1, AnsweredAwaited
  <2>4. /\ \A x \in Blobs : Queued(x)' <=> Queued(x)
        /\ \A i, j \in 1 .. Len(req_queue') :
              req_queue'[i] \in Blobs /\ req_queue'[i] = req_queue'[j] => i = j
    BY <2>1, QueueOther
  <2>5. \A x \in Blobs : Deferred(x)' <=> Deferred(x)
    BY <1>7 DEF Deferred
  <2>6. ASSUME NEW x \in Blobs
        PROVE  /\ Awaited(x)' <=> (InHand(x)' \/ Queued(x)' \/ Deferred(x)')
               /\ ~(InHand(x)' /\ Queued(x)')
               /\ ~(InHand(x)' /\ Deferred(x)')
               /\ ~(Queued(x)' /\ Deferred(x)')
    <3>1. CASE x = b
      BY <1>4, <1>5, <2>3, <2>4, <2>5, <3>1
    <3>2. CASE x # b
      BY <1>4, <1>5, <2>3, <2>4, <2>5, <3>2
    <3> QED
      BY <3>1, <3>2
  <2>7. \A i, j \in 1 .. Len(waiting_list') : waiting_list'[i] = waiting_list'[j] => i = j
    BY <1>6, <1>7
  <2>8. KeptApart'
    BY <2>4, <2>6, <2>7 DEF KeptApart
  <2> QED
    BY <2>2, <2>8
<1>8. CASE Defer(b)
  <2>1. /\ blob' = [blob EXCEPT ![b].approved = FALSE]
        /\ waiting_list' = Append(waiting_list, b) /\ req_queue' = req_queue
    BY <1>8 DEF Defer
  <2>2. \A x \in Blobs : /\ blob'[x].holders = blob[x].holders
                         /\ blob'[x].ref_cnt = blob[x].ref_cnt
                         /\ blob'[x].mtx_lock = blob[x].mtx_lock
                         /\ blob'[x].replied = blob[x].replied
    BY <1>1, <2>1, DenyFacts
  <2>3. RefsHeld' /\ WorksAlone'
    BY <1>1, <2>2, ManagerUse
  <2>4. \A x \in Blobs : Awaited(x)' <=> Awaited(x)
    BY <1>1, <2>2, UnansweredAwaited
  <2>5. \A x \in Blobs : Queued(x)' <=> Queued(x)
    BY <2>1 DEF Queued
  <2>6. /\ Len(waiting_list') = Len(waiting_list) + 1
        /\ \A i \in 1 .. Len(waiting_list) : waiting_list'[i] = waiting_list[i]
        /\ waiting_list'[Len(waiting_list) + 1] = b
    BY <1>1, <1>2, <2>1
  <2>7. \A i : i \in 1 .. Len(waiting_list')
               <=> (i \in 1 .. Len(waiting_list) \/ i = Len(waiting_list) + 1)
    BY <1>2, <2>6
  <2>8. ASSUME NEW x \in Blobs PROVE Deferred(x)' <=> (Deferred(x) \/ x = b)
    <3>1. Deferred(x) <=> \E i \in 1 .. Len(waiting_list) : waiting_list[i] = x
      BY DEF Deferred
    <3>2. Deferred(x)' <=> \E i \in 1 .. Len(waiting_list') : waiting_list'[i] = x
      BY DEF Deferred
    <3> QED
      BY <2>6, <2>7, <3>1, <3>2
  <2>9. \A i \in 1 .. Len(waiting_list) : waiting_list[i] # b
    BY <1>1, <1>4, <1>5 DEF Deferred
  <2>10. \A i, j \in 1 .. Len(waiting_list') :
             waiting_list'[i] = waiting_list'[j] => i = j
    BY <1>6, <2>6, <2>7, <2>9
  <2>11. ASSUME NEW x \in Blobs
         PROVE  /\ Awaited(x)' <=> (InHand(x)' \/ Queued(x)' \/ Deferred(x)')
                /\ ~(InHand(x)' /\ Queued(x)')
                /\ ~(InHand(x)' /\ Deferred(x)')
                /\ ~(Queued(x)' /\ Deferred(x)')
    BY <1>4, <1>5, <2>4, <2>5, <2>8
  <2>12. \A i, j \in 1 .. Len(req_queue') :
            req_queue'[i] \in Blobs /\ req_queue'[i] = req_queue'[j] => i = j
    BY <2>1 DEF UseInv, KeptApart
  <2>13. KeptApart'
    BY <2>10, <2>11, <2>12 DEF KeptApart
  <2> QED
    BY <2>3, <2>13
<1> QED
  BY <1>0, <1>7, <1>8 DEF MgrRequest

\* Deleting an entry of a list moves the later ones up.
LEMMA RemoveAtEntries ==
    ASSUME NEW S, NEW q \in Seq(S), NEW p \in 1 .. Len(q)
    PROVE  /\ Len(RemoveAt(q, p)) = Len(q) - 1
           /\ \A i \in 1 .. Len(q) - 1 :
                 RemoveAt(q, p)[i] = IF i < p THEN q[i] ELSE q[i + 1]
<1>1. Len(q) \in Nat /\ p \in Nat /\ p >= 1 /\ p <= Len(q)
  OBVIOUS
<1> DEFINE u == SubSeq(q, 1, p - 1)
           v == SubSeq(q, p + 1, Len(q))
<1>2. /\ u \in Seq(S) /\ Len(u) = p - 1
      /\ \A i \in 1 .. p - 1 : u[i] = q[i]
  BY <1>1
<1>3. /\ v \in Seq(S) /\ Len(v) = Len(q) - p
      /\ \A i \in 1 .. Len(q) - p : v[i] = q[p + i]
  BY <1>1
<1>4. RemoveAt(q, p) = u \o v
  BY DEF RemoveAt
<1> HIDE DEF u, v
<1>5. /\ Len(u \o v) = Len(u) + Len(v)
      /\ \A i \in 1 .. Len(u) + Len(v) :
            (u \o v)[i] = IF i <= Len(u) THEN u[i] ELSE v[i - Len(u)]
  BY <1>2, <1>3, ConcatProperties
<1>6. Len(u \o v) = Len(q) - 1
  BY <1>1, <1>2, <1>3, <1>5
<1>7. ASSUME NEW i \in 1 .. Len(q) - 1
      PROVE  (u \o v)[i] = IF i < p THEN q[i] ELSE q[i + 1]
  <2>1. i \in 1 .. Len(u) + Len(v)
    BY <1>1, <1>2, <1>3
  <2>2. CASE i < p
    BY <1>1, <1>2, <1>5, <2>1, <2>2
  <2>3. CASE ~(i < p)
    <3>1. i - Len(u) \in 1 .. Len(q) - p /\ p + (i - Len(u)) = i + 1 /\ ~(i <= Len(u))
      BY <1>1, <1>2, <2>3
    <3> QED
      BY <1>3, <1>5, <2>1, <2>3, <3>1
  <2> QED
    BY <2>2, <2>3
<1> QED
  BY <1>4, <1>6, <1>7

LEMMA MgrScanUse ==
    ASSUME UseInv, MgrScan
    PROVE  RefsHeld' /\ WorksAlone' /\ KeptApart'
<1>1. /\ waiting_list \in Seq(Blobs) /\ Len(waiting_list) \in Nat
      /\ mgr.pos \in 1 .. Len(waiting_list) /\ mgr \in ManagerType
  BY DEF MgrScan, UseInv, QuotaInv, TypeOK, ManagerType
<1>2. PICK p \in 1 .. Len(waiting_list) : p = mgr.pos
  BY <1>1
<1>3. PICK b \in Blobs : b = waiting_list[p]
  BY <1>1
<1>4. mgr.pc = "scan" /\ UNCHANGED <<cli, blobs, sysd>>
  BY DEF MgrScan, MgrAt
<1>5. \A x \in Blobs : /\ Awaited(x) <=> (InHand(x) \/ Queued(x) \/ Deferred(x))
                       /\ ~(InHand(x) /\ Queued(x)) /\ ~(InHand(x) /\ Deferred(x))
                       /\ ~(Queued(x) /\ Deferred(x))
  BY DEF UseInv, KeptApart
<1>6. \A i, j \in 1 .. Len(waiting_list) : waiting_list[i] = waiting_list[j] => i = j
  BY DEF UseInv, KeptApart
<1>7. CASE /\ GrantLate(b)
           /\ waiting_list' = RemoveAt(waiting_list, p)
           /\ UNCHANGED mgr
  <2>1. /\ \A x \in Blobs \ {b} : blob'[x] = blob[x]
        /\ blob'[b].holders = blob[b].holders
        /\ blob'[b].ref_cnt = blob[b].ref_cnt
        /\ blob'[b].mtx_lock = blob[b].mtx_lock
        /\ blob'[b].replied
        /\ req_queue' = req_queue \/ req_queue' = Append(req_queue, MEM_FREED)
    BY <1>7, GrantLateFacts
  <2>2. RefsHeld' /\ WorksAlone'
    BY <1>4, <2>1, ManagerUse
  <2>3. ~Awaited(b)' /\ \A x \in Blobs \ {b} : Awaited(x)' <=> Awaited(x)
    BY <1>4, <2>1, AnsweredAwaited
  <2>4. /\ \A x \in Blobs : Queued(x)' <=> Queued(x)
        /\ \A i, j \in 1 .. Len(req_queue') :
              req_queue'[i] \in Blobs /\ req_queue'[i] = req_queue'[j] => i = j
    BY <2>1, QueueOther
  <2>5. \A x \in Blobs : ~InHand(x) /\ ~InHand(x)'
    BY <1>4, <1>7 DEF InHand
  <2> DEFINE n == Len(waiting_list)
             Old(i) == IF i < p THEN i ELSE i + 1
  <2>6. /\ Len(waiting_list') = n - 1
        /\ \A i \in 1 .. n - 1 :
              waiting_list'[i] = IF i < p THEN waiting_list[i] ELSE waiting_list[i + 1]
    BY <1>1, <1>7, RemoveAtEntries
  <2>7. \A i \in 1 .. n - 1 : /\ Old(i) \in 1 .. n /\ Old(i) # p
                              /\ waiting_list'[i] = waiting_list[Old(i)]
    BY <1>1, <2>6
  <2>8. \A i, j \in 1 .. n - 1 : Old(i) = Old(j) => i = j
    BY <1>1
  <2>9. ASSUME NEW k \in 1 .. n, k # p
        PROVE  \E i \in 1 .. n - 1 : Old(i) = k
    <3>1. CASE k < p
      <4>1. k \in 1 .. n - 1 /\ Old(k) = k
        BY <1>1, <3>1
      <4> QED
        BY <4>1
    <3>2. CASE k > p
      <4>1. k - 1 \in 1 .. n - 1 /\ Old(k - 1) = k
        BY <1>1, <3>2
      <4> QED
        BY <4>1
    <3> QED
      BY <1>1, <2>9, <3>1, <3>2
  <2> HIDE DEF Old
  <2>10. ASSUME NEW x \in Blobs
         PROVE  /\ Deferred(x) <=> (Deferred(x)' \/ x = b)
                /\ ~(Deferred(x)' /\ x = b)
    <3>1. Deferred(x) <=> \E i \in 1 .. n : waiting_list[i] = x
      BY DEF Deferred
    <3>2. Deferred(x)' <=> \E i \in 1 .. n - 1 : waiting_list'[i] = x
      BY <2>6 DEF Deferred
    <3>3. ASSUME NEW i \in 1 .. n - 1, waiting_list'[i] = x
          PROVE  Deferred(x) /\ x # b
      BY <1>3, <1>6, <2>7, <3>1, <3>3
    <3>4. ASSUME NEW k \in 1 .. n, waiting_list[k] = x, x # b
          PROVE  Deferred(x)'
      <4>1. k # p
        BY <1>3, <3>4
      <4> QED
        BY <2>7, <2>9, <3>2, <3>4, <4>1
    <3> QED
      BY <1>3, <3>1, <3>2, <3>3, <3>4
  <2>11. \A i, j \in 1 .. Len(waiting_list') : waiting_list'[i] = waiting_list'[j] => i = j
    BY <1>6, <2>6, <2>7, <2>8
  <2>12. ASSUME NEW x \in Blobs
         PROVE  /\ Awaited(x)' <=> (InHand(x)' \/ Queued(x)' \/ Deferred(x)')
                /\ ~(InHand(x)' /\ Queued(x)')
                /\ ~(InHand(x)' /\ Deferred(x)')
                /\ ~(Queued(x)' /\ Deferred(x)')
    <3>1. CASE x = b
      BY <1>5, <2>3, <2>4, <2>5, <2>10, <3>1
    <3>2. CASE x # b
      BY <1>5, <2>3, <2>4, <2>5, <2>10, <3>2
    <3> QED
      BY <3>1, <3>2
  <2>13. KeptApart'
    BY <2>4, <2>11, <2>12 DEF KeptApart
  <2> QED
    BY <2>2, <2>13
<1>8. CASE /\ blob' = [blob EXCEPT ![b].approved = FALSE]
           /\ mgr' = [mgr EXCEPT !.pos = mgr.pos + 1]
           /\ UNCHANGED <<req_queue, waiting_list>>
  <2>1. \A x \in Blobs : /\ blob'[x].holders = blob[x].holders
                         /\ blob'[x].ref_cnt = blob[x].ref_cnt
                         /\ blob'[x].mtx_lock = blob[x].mtx_lock
                         /\ blob'[x].replied = blob[x].replied
    BY <1>8, DenyFacts
  <2>2. RefsHeld' /\ WorksAlone'
    BY <1>4, <2>1, ManagerUse
  <2>3. \A x \in Blobs : Awaited(x)' <=> Awaited(x)
    BY <1>4, <2>1, UnansweredAwaited
  <2>4. mgr'.pc = "scan"
    BY <1>1, <1>4, <1>8 DEF ManagerType
  <2>5. KeptApart'
    BY <1>4, <1>8, <2>3, <2>4 DEF UseInv, KeptApart, InHand, Queued, Deferred
  <2> QED
    BY <2>2, <2>5
<1> QED
  BY <1>2, <1>3, <1>7, <1>8 DEF MgrScan, Delete

LEMMA MgrSwapInUse ==
    ASSUME UseInv, NEW b \in Blobs, MgrSwapIn(b)
    PROVE  /\ RefsHeld' /\ WorksAlone' /\ KeptApart'
           /\ blob[b].mtx_lock = NoOne /\ ~blob[b].storage_locked /\ blob[b].is_in_file
           /\ \A x \in Blobs \ {b} : blob'[x] = blob[x]
           /\ blob'[b].alloc_size = blob[b].alloc_size
<1> DEFINE s == [blob[b] EXCEPT !.is_in_file = FALSE, !.file_len = 0]
<1>1. /\ blob' = [blob EXCEPT ![b] = s]
      /\ UNCHANGED <<req_queue, waiting_list, blobs, cli, mgr, sysd>>
      /\ blob[b].mtx_lock = NoOne /\ ~blob[b].storage_locked /\ blob[b].is_in_file
  BY DEF MgrSwapIn, SwapInCandidate
<1>2. blob \in [Blobs -> BlobType] /\ blob[b] \in BlobType
  BY DEF UseInv, QuotaInv, TypeOK
<1>3. /\ s.holders = blob[b].holders /\ s.ref_cnt = blob[b].ref_cnt
      /\ s.mtx_lock = blob[b].mtx_lock /\ s.replied = blob[b].replied
      /\ s.alloc_size = blob[b].alloc_size
  BY <1>2 DEF BlobType
<1> HIDE DEF s
<1>4. blob'[b] = s /\ \A x \in Blobs \ {b} : blob'[x] = blob[x]
  BY <1>1, <1>2
<1>5. \A x \in Blobs : /\ blob'[x].holders = blob[x].holders
                       /\ blob'[x].ref_cnt = blob[x].ref_cnt
                       /\ blob'[x].mtx_lock = blob[x].mtx_lock
                       /\ blob'[x].replied = blob[x].replied
  BY <1>3, <1>4
<1>6. RefsHeld' /\ WorksAlone'
  BY <1>1, <1>5, ManagerUse
<1>7. \A x \in Blobs : Awaited(x)' <=> Awaited(x)
  BY <1>1, <1>5, UnansweredAwaited
<1>8. KeptApart'
  BY <1>1, <1>7, PlacesStay
<1> QED
  BY <1>1, <1>3, <1>4, <1>6, <1>8

LEMMA MgrOtherUse ==
    ASSUME UseInv, MgrFreed \/ MgrScanDone \/ MgrSwapInDone
    PROVE  RefsHeld' /\ WorksAlone' /\ KeptApart'
<1>1. UNCHANGED <<req_queue, waiting_list, blobs, blob, cli, sysd>>
  BY DEF MgrFreed, MgrScanDone, MgrSwapInDone
<1>2. RefsHeld' /\ WorksAlone'
  BY <1>1, ManagerUse
<1>3. \A x \in Blobs : ~InHand(x) /\ ~InHand(x)'
  <2>1. mgr \in ManagerType
    BY DEF UseInv, QuotaInv, TypeOK
  <2>2. MEM_FREED \notin Blobs
    BY NamesAssumption DEF MEM_FREED
  <2>3. mgr'.pc # "item" /\ (mgr.pc # "item" \/ mgr.item = MEM_FREED)
    BY <2>1 DEF MgrFreed, MgrScanDone, MgrSwapInDone, MgrAt, ManagerType
  <2> QED
    BY <2>2, <2>3 DEF InHand
<1>4. KeptApart'
  BY <1>1, <1>3 DEF UseInv, KeptApart, Awaited, Queued, Deferred
<1> QED
  BY <1>2, <1>4

-----------------------------------------------------------------------------
(* The invariant holds, and what follows from it. *)

\* A step is one of a call, a change of references, or the management thread's.
LEMMA StepKinds ==
    ASSUME UseInv, "shutdown" \notin Ops, Next
    PROVE  \/ \E c \in Clients, b \in Blobs : CallStep(c, b)
           \/ \E c \in Clients, b \in Blobs, n \in InitialSizes : z_blob_new(c, b, n)
           \/ \E c, d \in Clients, b \in Blobs : z_blob_ref(c, d, b)
           \/ \E c \in Clients, b \in Blobs : z_blob_unref(c, b)
           \/ \E c \in Clients : UnrefDestroy(c)
           \/ Manager
<1> DEFINE Kinds == \/ \E c \in Clients, b \in Blobs : CallStep(c, b)
                    \/ \E c \in Clients, b \in Blobs, n \in InitialSizes :
                          z_blob_new(c, b, n)
                    \/ \E c, d \in Clients, b \in Blobs : z_blob_ref(c, d, b)
                    \/ \E c \in Clients, b \in Blobs : z_blob_unref(c, b)
                    \/ \E c \in Clients : UnrefDestroy(c)
                    \/ Manager
<1>1. WriteSizes \subseteq Nat /\ TruncSizes \subseteq Nat
  BY SizesAssumption
<1>2. ASSUME NEW c \in Clients, Calls(c) PROVE Kinds
  <2>1. PICK b \in Blobs :
          \/ \E n \in InitialSizes : z_blob_new(c, b, n)
          \/ \E n \in TruncSizes : z_blob_truncate(c, b, n)
          \/ \E n \in WriteSizes : z_blob_add_copy(c, b, n)
          \/ \E n \in WriteSizes : z_blob_read_from_stream(c, b, n)
          \/ \E p \in WriteSizes : StreamSeek(c, b, p)
          \/ \E n \in WriteSizes : z_blob_get_copy(c, b, n)
          \/ z_blob_get_ptr(c, b)
          \/ z_blob_get_file(c, b)
          \/ \E st \in BOOLEAN : z_blob_storage_lock(c, b, st)
          \/ \E d \in Clients : z_blob_ref(c, d, b)
          \/ z_blob_unref(c, b)
    BY <1>2 DEF Calls
  <2>2. CASE \E n \in InitialSizes : z_blob_new(c, b, n)
    BY <2>2
  <2>3. CASE \/ \E n \in TruncSizes : z_blob_truncate(c, b, n)
             \/ \E n \in WriteSizes : z_blob_add_copy(c, b, n)
             \/ \E n \in WriteSizes : z_blob_read_from_stream(c, b, n)
             \/ \E p \in WriteSizes : StreamSeek(c, b, p)
    <3>1. CallStep(c, b)
      BY <1>1, <2>3, LockedCallsStep
    <3> QED
      BY <3>1
  <2>4. CASE \/ \E n \in WriteSizes : z_blob_get_copy(c, b, n)
             \/ z_blob_get_ptr(c, b)
             \/ z_blob_get_file(c, b)
             \/ \E st \in BOOLEAN : z_blob_storage_lock(c, b, st)
    <3>1. CallStep(c, b)
      BY <1>1, <2>4, GetCopyStep, GetPtrStep, GetFileStep, StorageLockStep
    <3> QED
      BY <3>1
  <2>5. CASE \E d \in Clients : z_blob_ref(c, d, b)
    BY <2>5
  <2>6. CASE z_blob_unref(c, b)
    BY <2>6
  <2> HIDE DEF Kinds
  <2> QED
    BY <2>1, <2>2, <2>3, <2>4, <2>5, <2>6
<1>3. ASSUME NEW c \in Clients, CallStep(c, cli[c].blob), cli[c].pc \notin Outside
      PROVE  Kinds
  <2>1. cli[c].blob \in Blobs
    BY <1>3, InsideFacts
  <2> QED
    BY <1>3, <2>1
<1>4. ASSUME NEW c \in Clients, Continues(c) PROVE Kinds
  <2>1. CASE UnrefDestroy(c)
    BY <2>1
  <2>2. CASE \/ AllocCheck(c) \/ AllocPush(c) \/ AllocWoken(c) \/ AllocFinish(c)
             \/ StreamSeeked(c)
    <3>1. cli[c].pc \notin Outside
      BY <2>2 DEF AllocCheck, AllocPush, AllocWoken, AllocFinish, StreamSeeked, At,
                  Outside
    <3>2. CallStep(c, cli[c].blob)
      BY <2>2, AllocCheckStep, AllocPushStep, AllocWokenStep, AllocFinishStep,
         StreamSeekedStep
    <3> QED
      BY <1>3, <3>1, <3>2
  <2>3. CASE CallBody(c) \/ GetCopyLocked(c) \/ GetPtrLocked(c) \/ GetFileSwapOut(c)
    <3>1. cli[c].pc \notin Outside
      BY <2>3 DEF CallBody, GetCopyLocked, GetPtrLocked, GetFileSwapOut, At, Outside
    <3>2. CallStep(c, cli[c].blob)
      BY <2>3, CallBodyStep, GetCopyLockedStep, GetPtrLockedStep, GetFileSwapOutStep
    <3> QED
      BY <1>3, <3>1, <3>2
  <2> QED
    BY <1>4, <2>1, <2>2, <2>3 DEF Continues
<1>5. ASSUME NEW c \in Clients,
             \/ Returns(c)
             \/ GetFileFails(c)
             \/ \E n \in WriteSizes : AppWritesFile(c, n)
      PROVE  Kinds
  <2>1. cli[c].pc \notin Outside
    BY <1>5 DEF Returns, z_blob_free_ptr, z_blob_release_file, GetFileFails,
                AppWritesFile, At, Outside
  <2>2. CallStep(c, cli[c].blob)
    BY <1>1, <1>5, FreePtrStep, ReleaseFileStep, GetFileFailsStep, AppWritesFileStep
       DEF Returns
  <2> QED
    BY <1>3, <2>1, <2>2
<1>6. ~SysUnref
  BY DEF SysUnref
<1>7. ~Teardown
  <2>1. sysd.pc = "up"
    BY DEF UseInv, RefsHeld
  <2> QED
    BY <2>1 DEF Teardown, SysRefuse, SysRefused, SysUnrefBlob, SysGone, SysAt
<1>8. Manager => Kinds
  OBVIOUS
<1> HIDE DEF Kinds
<1>9. Kinds
  BY <1>2, <1>4, <1>5, <1>6, <1>7, <1>8 DEF Next
<1> QED
  BY <1>9 DEF Kinds

LEMMA ManagerKeeps ==
    ASSUME UseInv, Manager
    PROVE  RefsHeld' /\ WorksAlone' /\ KeptApart'
BY MgrPopUse, MgrRequestUse, MgrScanUse, MgrSwapInUse, MgrOtherUse DEF Manager

LEMMA UseInit == Init => UseInv
<1> SUFFICES ASSUME Init PROVE UseInv
  OBVIOUS
<1>1. QuotaInv
  BY QuotaInit
<1>2. /\ sysd.pc = "up" /\ blobs = {} /\ mgr.pc = "pop"
      /\ req_queue = << >> /\ waiting_list = << >>
      /\ \A c \in Clients : cli[c].pc = "idle" /\ cli[c].blob = NoBlob
  BY DEF Init, IdleClient
<1>3. RefsHeld
  BY <1>2 DEF RefsHeld, Outside
<1>4. WorksAlone
  BY <1>2 DEF WorksAlone, Alone
<1>5. Len(req_queue) = 0 /\ Len(waiting_list) = 0
  BY <1>2
<1>6. KeptApart
  BY <1>2, <1>5 DEF KeptApart, Awaited, InHand, Queued, Deferred
<1> QED
  BY <1>1, <1>3, <1>4, <1>6 DEF UseInv

LEMMA UseNext ==
    ASSUME "shutdown" \notin Ops
    PROVE  UseInv /\ [Next]_vars => UseInv'
<1> SUFFICES ASSUME UseInv, [Next]_vars PROVE UseInv'
  OBVIOUS
<1>1. QuotaInv'
  BY QuotaNext DEF UseInv
<1>2. ASSUME Next PROVE RefsHeld' /\ WorksAlone' /\ KeptApart'
  <2>1. ASSUME NEW c \in Clients, NEW b \in Blobs, CallStep(c, b)
        PROVE  RefsHeld' /\ WorksAlone' /\ KeptApart'
    BY <2>1, CallStepRefs, CallStepAlone, CallStepKept
  <2>2. ASSUME NEW c \in Clients, NEW b \in Blobs, NEW n \in InitialSizes,
               z_blob_new(c, b, n)
        PROVE  RefsHeld' /\ WorksAlone' /\ KeptApart'
    BY <2>2, NewUse
  <2> QED
    BY <1>2, <2>1, <2>2, StepKinds, RefUse, UnrefUse, UnrefDestroyUse, ManagerKeeps
<1>3. ASSUME UNCHANGED vars PROVE RefsHeld' /\ WorksAlone' /\ KeptApart'
  BY <1>3 DEF vars, UseInv, RefsHeld, WorksAlone, KeptApart, Awaited, InHand,
              Queued, Deferred
<1> QED
  BY <1>1, <1>2, <1>3 DEF UseInv

\* While no thread destroys the system, no call works on a destroyed blob and
\* every reference that was handed out is counted, however z_blob_ref,
\* z_blob_unref and the calls of the threads interleave.
THEOREM BlobsOutlive ==
    ASSUME "shutdown" \notin Ops
    PROVE  Spec => []NoUseAfterFree
<1>1. UseInv => NoUseAfterFree
  <2>1. NoBlob \notin Blobs
    BY NamesAssumption DEF NoBlob
  <2> QED
    BY <2>1 DEF UseInv, RefsHeld, NoUseAfterFree
<1> QED
  BY <1>1, UseInit, UseNext, PTL DEF Spec

\* While no thread destroys the system, the request of a sleeping thread is in
\* exactly one of the queue, the hand of the management thread and its waiting
\* list, and no other blob is in any of them.
THEOREM RequestsKept ==
    ASSUME "shutdown" \notin Ops
    PROVE  Spec => []RequestKeptOnce
<1>1. ASSUME UseInv, NEW b \in Blobs
      PROVE  /\ Places(b) = IF Awaited(b) THEN 1 ELSE 0
             /\ Awaited(b) => b \in blobs
  <2> DEFINE Q == {i \in 1 .. Len(req_queue) : req_queue[i] = b}
             W == {i \in 1 .. Len(waiting_list) : waiting_list[i] = b}
  <2>1. /\ Awaited(b) <=> (InHand(b) \/ Queued(b) \/ Deferred(b))
        /\ ~(InHand(b) /\ Queued(b))
        /\ ~(InHand(b) /\ Deferred(b))
        /\ ~(Queued(b) /\ Deferred(b))
    BY <1>1 DEF UseInv, KeptApart
  <2>2. Cardinality(Q) = IF Queued(b) THEN 1 ELSE 0
    <3>1. CASE Queued(b)
      <4>1. PICK i \in 1 .. Len(req_queue) : req_queue[i] = b
        BY <3>1 DEF Queued
      <4>2. Q = {i}
        BY <1>1, <4>1 DEF UseInv, KeptApart
      <4> QED
        BY <3>1, <4>2, FS_Singleton
    <3>2. CASE ~Queued(b)
      <4>1. Q = {}
        BY <3>2 DEF Queued
      <4> QED
        BY <3>2, <4>1, FS_EmptySet
    <3> QED
      BY <3>1, <3>2
  <2>3. Cardinality(W) = IF Deferred(b) THEN 1 ELSE 0
    <3>1. CASE Deferred(b)
      <4>1. PICK i \in 1 .. Len(waiting_list) : waiting_list[i] = b
        BY <3>1 DEF Deferred
      <4>2. W = {i}
        BY <1>1, <4>1 DEF UseInv, KeptApart
      <4> QED
        BY <3>1, <4>2, FS_Singleton
    <3>2. CASE ~Deferred(b)
      <4>1. W = {}
        BY <3>2 DEF Deferred
      <4> QED
        BY <3>2, <4>1, FS_EmptySet
    <3> QED
      BY <3>1, <3>2
  <2>4. Places(b) = Cardinality(Q) + Cardinality(W) + (IF InHand(b) THEN 1 ELSE 0)
    BY DEF Places
  <2> HIDE DEF Q, W
  <2>5. Awaited(b) => b \in blobs
    BY <1>1, AwaitedFacts
  <2> QED
    BY <2>1, <2>2, <2>3, <2>4, <2>5
<1>2. UseInv => RequestKeptOnce
  BY <1>1 DEF RequestKeptOnce
<1> QED
  BY <1>2, UseInit, UseNext, PTL DEF Spec

-----------------------------------------------------------------------------
(* What may move a blob. *)

\* The threads that hold a pointer into a blob, or count on its locked storage,
\* notice only what happens to that blob.
LEMMA PutExcept ==
    ASSUME UseInv, NEW b \in Blobs, \A x \in Blobs \ {b} : blob'[x] = blob[x],
           \A c \in Clients : cli[c].pc = "ptr" /\ cli[c].blob = b =>
                                 /\ blob'[b].is_in_file = blob[b].is_in_file
                                 /\ blob'[b].alloc_size = blob[b].alloc_size,
           b \in blobs /\ b \in blobs' /\ blob[b].storage_locked =>
               blob'[b].is_in_file = blob[b].is_in_file
    PROVE  KeepsPut
<1>1. ASSUME NEW c \in Clients, cli[c].pc = "ptr" PROVE cli[c].blob \in Blobs
  BY <1>1, InsideFacts DEF Outside
<1>2. blobs \subseteq Blobs
  BY DEF UseInv, QuotaInv, TypeOK
<1> QED
  BY <1>1, <1>2 DEF KeepsPut

\* A call moves its blob only while it works alone on it, and then nobody
\* holds a pointer.
LEMMA CallStepPut ==
    ASSUME UseInv, NEW c \in Clients, NEW b \in Blobs, CallStep(c, b)
    PROVE  KeepsPut
<1>1. Touches(c, b) /\ Proceeds(c, b) /\ Moving(c, b)
  BY DEF CallStep
<1>2. \A x \in Blobs \ {b} : blob'[x] = blob[x]
  BY <1>1 DEF Touches
<1>3. ASSUME NEW d \in Clients, cli[d].pc = "ptr", cli[d].blob = b
      PROVE  /\ blob'[b].is_in_file = blob[b].is_in_file
             /\ blob'[b].alloc_size = blob[b].alloc_size
  <2>1. ~(cli[c].pc \in Alone \ {"ptr"})
    <3> SUFFICES ASSUME cli[c].pc \in Alone \ {"ptr"} PROVE FALSE
      OBVIOUS
    <3>1. cli[c].blob = b
      BY <1>1 DEF Proceeds, Alone
    <3>2. c = d
      BY <1>3, <3>1, AloneMeansAlone DEF Alone
    <3> QED
      BY <1>3, <3>2
  <2> QED
    BY <1>1, <2>1 DEF Moving
<1>4. blob[b].storage_locked => blob'[b].is_in_file = blob[b].is_in_file
  BY <1>1 DEF Moving
<1> QED
  BY <1>2, <1>3, <1>4, PutExcept

\* Creating, sharing and destroying do not touch a blob in use.
LEMMA ReferencesPut ==
    ASSUME UseInv, NEW c \in Clients, NEW b \in Blobs,
           \/ \E n \in InitialSizes : z_blob_new(c, b, n)
           \/ \E d \in Clients : z_blob_ref(c, d, b)
           \/ z_blob_unref(c, b)
    PROVE  KeepsPut
<1>1. blob \in [Blobs -> BlobType] /\ blob[b] \in BlobType
  BY DEF UseInv, QuotaInv, TypeOK
<1>2. CASE \E n \in InitialSizes : z_blob_new(c, b, n)
  <2>1. b \notin blobs /\ \A x \in Blobs \ {b} : blob'[x] = blob[x]
    BY <1>1, <1>2 DEF z_blob_new
  <2>2. \A d \in Clients : cli[d].blob # b
    BY <2>1, NobodyOn
  <2> QED
    BY <2>1, <2>2, PutExcept
<1>3. ASSUME NEW k, NEW h,
             blob' = [blob EXCEPT ![b] = [blob[b] EXCEPT !.ref_cnt = k, !.holders = h]]
      PROVE  KeepsPut
  <2> DEFINE s == [blob[b] EXCEPT !.ref_cnt = k, !.holders = h]
  <2>1. s.is_in_file = blob[b].is_in_file /\ s.alloc_size = blob[b].alloc_size
    BY <1>1 DEF BlobType
  <2> HIDE DEF s
  <2>2. blob'[b] = s /\ \A x \in Blobs \ {b} : blob'[x] = blob[x]
    BY <1>1, <1>3 DEF s
  <2> QED
    BY <2>1, <2>2, PutExcept
<1>4. CASE \E d \in Clients : z_blob_ref(c, d, b)
  BY <1>3, <1>4 DEF z_blob_ref
<1>5. CASE z_blob_unref(c, b)
  BY <1>3, <1>5 DEF z_blob_unref
<1> QED
  BY <1>2, <1>4, <1>5

LEMMA UnrefDestroyPut ==
    ASSUME UseInv, NEW c \in Clients, UnrefDestroy(c)
    PROVE  KeepsPut
<1>1. blob \in [Blobs -> BlobType] /\ blobs \subseteq Blobs
  BY DEF UseInv, QuotaInv, TypeOK
<1>2. PICK b \in Blobs : b = cli[c].blob /\ blob[b].holders = {}
  BY <1>1 DEF UnrefDestroy, At, UseInv, RefsHeld
<1>3. blobs' = blobs \ {b} /\ \A x \in Blobs \ {b} : blob'[x] = blob[x]
  BY <1>1, <1>2 DEF UnrefDestroy, Destroy
<1>4. ASSUME NEW d \in Clients, cli[d].pc = "ptr" PROVE cli[d].blob # b
  <2>1. d \in blob[cli[d].blob].holders
    BY <1>4, InsideFacts DEF Outside
  <2> QED
    BY <1>2, <2>1
<1> QED
  BY <1>3, <1>4, PutExcept

\* The management thread answers a thread that works alone on its blob, and
\* swaps in a blob that nobody has locked.
LEMMA ManagerPut ==
    ASSUME UseInv, Manager
    PROVE  KeepsPut
<1>1. ASSUME UNCHANGED blob PROVE KeepsPut
  BY <1>1 DEF KeepsPut
<1>2. ASSUME NEW b \in Blobs, GrantLate(b), InHand(b) \/ Deferred(b)
      PROVE  KeepsPut
  <2>1. Awaited(b)
    BY <1>2 DEF UseInv, KeptApart
  <2>2. PICK w \in Clients : cli[w].pc = "wait" /\ cli[w].blob = b
    BY <2>1, AwaitedFacts
  <2>3. ASSUME NEW c \in Clients, cli[c].pc = "ptr" PROVE cli[c].blob # b
    <3> SUFFICES ASSUME cli[c].blob = b PROVE FALSE
      OBVIOUS
    <3>1. c = w
      BY <2>2, <2>3, AloneMeansAlone DEF Alone
    <3> QED
      BY <2>2, <2>3, <3>1
  <2>4. /\ \A x \in Blobs \ {b} : blob'[x] = blob[x]
        /\ blob[b].storage_locked => blob'[b].is_in_file = blob[b].is_in_file
    BY <1>2, GrantLateFacts
  <2> QED
    BY <2>3, <2>4, PutExcept
<1>3. ASSUME NEW b \in Blobs, blob' = [blob EXCEPT ![b].approved = FALSE]
      PROVE  KeepsPut
  <2>1. \A x \in Blobs : /\ blob'[x].is_in_file = blob[x].is_in_file
                         /\ blob'[x].alloc_size = blob[x].alloc_size
    BY <1>3, DenyFacts
  <2>2. blob \in [Blobs -> BlobType]
    BY DEF UseInv, QuotaInv, TypeOK
  <2>3. \A x \in Blobs \ {b} : blob'[x] = blob[x]
    BY <1>3, <2>2
  <2> QED
    BY <2>1, <2>3, PutExcept
<1>4. CASE MgrPop \/ MgrFreed \/ MgrScanDone \/ MgrSwapInDone
  BY <1>1, <1>4 DEF MgrPop, MgrFreed, MgrScanDone, MgrSwapInDone
<1>5. CASE MgrRequest
  <2>1. PICK b \in Blobs : b = mgr.item
    BY <1>5 DEF MgrRequest
  <2>2. InHand(b)
    BY <1>5, <2>1 DEF MgrRequest, MgrAt, InHand
  <2>3. GrantLate(b) \/ Defer(b)
    BY <1>5, <2>1 DEF MgrRequest
  <2> QED
    BY <1>2, <1>3, <2>2, <2>3 DEF Defer
<1>6. CASE MgrScan
  <2>1. /\ waiting_list \in Seq(Blobs)
        /\ mgr.pos \in 1 .. Len(waiting_list)
    BY <1>6 DEF MgrScan, UseInv, QuotaInv, TypeOK, ManagerType
  <2>2. PICK b \in Blobs : b = waiting_list[mgr.pos]
    BY <2>1
  <2>3. Deferred(b)
    BY <2>1, <2>2 DEF Deferred
  <2>4. GrantLate(b) \/ blob' = [blob EXCEPT ![b].approved = FALSE]
    BY <1>6, <2>2 DEF MgrScan
  <2> QED
    BY <1>2, <1>3, <2>3, <2>4
<1>7. ASSUME NEW b \in Blobs, MgrSwapIn(b) PROVE KeepsPut
  <2>1. /\ blob[b].mtx_lock = NoOne /\ ~blob[b].storage_locked
        /\ \A x \in Blobs \ {b} : blob'[x] = blob[x]
    BY <1>7, MgrSwapInUse
  <2>2. ASSUME NEW c \in Clients, cli[c].pc = "ptr" PROVE cli[c].blob # b
    <3>1. blob[cli[c].blob].mtx_lock = c /\ c # NoOne
      BY <2>2, NamesAssumption DEF UseInv, WorksAlone, NoOne
    <3> QED
      BY <2>1, <3>1
  <2> QED
    BY <2>1, <2>2, PutExcept
<1> QED
  BY <1>4, <1>5, <1>6, <1>7 DEF Manager

\* While no thread destroys the system, no step moves or resizes a blob that an
\* application holds a pointer into, and none moves one whose storage it has
\* locked: not the management thread's late grants and swap-ins either.
THEOREM BlobsStay ==
    ASSUME "shutdown" \notin Ops
    PROVE  Spec => StaysPut
<1>1. UseInv /\ [Next]_vars => [KeepsPut]_vars
  <2> SUFFICES ASSUME UseInv, Next PROVE KeepsPut
    OBVIOUS
  <2>1. ASSUME NEW c \in Clients, NEW b \in Blobs, CallStep(c, b) PROVE KeepsPut
    BY <2>1, CallStepPut
  <2> QED
    BY <2>1, StepKinds, ReferencesPut, UnrefDestroyPut, ManagerPut
<1> QED
  BY <1>1, UseInit, UseNext, PTL DEF Spec, StaysPut

-----------------------------------------------------------------------------
(* Finite sums.  MapThenSumSet of the community modules is a recursive function *)
(* on the subsets of a set; what it computes is proved by taking a smallest     *)
(* set for which the claim would fail.                                          *)

\* Of a set of finite sets one is not larger than any other.
LEMMA SmallestSet ==
    ASSUME NEW S, IsFiniteSet(S), NEW T, T \subseteq SUBSET S, T # {}
    PROVE  \E t \in T : \A u \in T : u \subseteq t => u = t
<1>1. T \subseteq FiniteSubsetsOf(S)
  BY FS_Subset DEF FiniteSubsetsOf
<1>2. PICK t \in T : \A u \in T : ~ (<<u, t>> \in StrictSubsetOrdering(S))
  BY <1>1, FS_StrictSubsetOrderingWellFounded, WFMin
<1>3. ASSUME NEW u \in T, u \subseteq t PROVE u = t
  BY <1>2, <1>3 DEF StrictSubsetOrdering
<1> QED
  BY <1>3

\* The element a sum takes next.
Picked(s) == CHOOSE x \in s : TRUE

\* g gives the sums of f over the subsets of S.
IsSum(g, f, S) ==
    g = [s \in SUBSET S |-> IF s = {} THEN 0 ELSE f[Picked(s)] + g[s \ {Picked(s)}]]

Total(f, S) == (CHOOSE g : IsSum(g, f, S))[S]

\* What a sum takes next belongs to what is left.
LEMMA PickedIn == \A s : s # {} => Picked(s) \in s
BY DEF Picked

\* A sum depends on what is summed only.
LEMMA SumUnique ==
    ASSUME NEW T, IsFiniteSet(T), NEW S, NEW U, T \subseteq S, T \subseteq U,
           NEW f, NEW h, \A x \in T : f[x] = h[x],
           NEW g, IsSum(g, f, S), NEW k, IsSum(k, h, U)
    PROVE  g[T] = k[T]
<1> DEFINE Bad == {s \in SUBSET T : g[s] # k[s]}
<1> SUFFICES ASSUME Bad # {} PROVE FALSE
  OBVIOUS
<1>1. Bad \subseteq SUBSET T
  OBVIOUS
<1>2. PICK s \in Bad : \A u \in Bad : u \subseteq s => u = s
  <2> HIDE DEF Bad
  <2> QED
    BY <1>1, SmallestSet
<1>3. s \subseteq T /\ g[s] # k[s]
  OBVIOUS
<1>4. s # {}
  BY <1>3 DEF IsSum
<1>5. Picked(s) \in s /\ s \ {Picked(s)} \subseteq T /\ s \ {Picked(s)} # s
  BY <1>3, <1>4, PickedIn
<1>6. g[s \ {Picked(s)}] = k[s \ {Picked(s)}]
  BY <1>2, <1>5
<1>7. /\ g[s] = f[Picked(s)] + g[s \ {Picked(s)}]
      /\ k[s] = h[Picked(s)] + k[s \ {Picked(s)}]
  BY <1>3, <1>4 DEF IsSum
<1> QED
  BY <1>3, <1>5, <1>6, <1>7

\* Restricted to smaller sets it is still a sum.
LEMMA SumRestricts ==
    ASSUME NEW S, NEW U, U \subseteq S, NEW f, NEW g, IsSum(g, f, S)
    PROVE  IsSum([s \in SUBSET U |-> g[s]], f, U)
<1> DEFINE k == [s \in SUBSET U |-> g[s]]
<1>1. ASSUME NEW s \in SUBSET U
      PROVE  k[s] = IF s = {} THEN 0 ELSE f[Picked(s)] + k[s \ {Picked(s)}]
  BY DEF IsSum
<1> HIDE DEF k
<1>2. k = [s \in SUBSET U |-> k[s]]
  BY DEF k
<1>3. k = [s \in SUBSET U |-> IF s = {} THEN 0 ELSE f[Picked(s)] + k[s \ {Picked(s)}]]
  BY <1>1, <1>2
<1> QED
  BY <1>3 DEF IsSum, k

\* Every finite set has a sum: the recursion defines a function.
LEMMA SumExists ==
    ASSUME NEW S, IsFiniteSet(S), NEW f
    PROVE  \E g : IsSum(g, f, S)
<1> DEFINE Bad == {s \in SUBSET S : ~ \E g : IsSum(g, f, s)}
<1> SUFFICES ASSUME Bad # {} PROVE FALSE
  OBVIOUS
<1>1. Bad \subseteq SUBSET S
  OBVIOUS
<1>2. PICK t \in Bad : \A u \in Bad : u \subseteq t => u = t
  <2> HIDE DEF Bad
  <2> QED
    BY <1>1, SmallestSet
<1>3. t \subseteq S /\ ~ \E g : IsSum(g, f, t)
  OBVIOUS
<1>4. ASSUME NEW s, s \subseteq t, s # t PROVE IsSum(CHOOSE g : IsSum(g, f, s), f, s)
  <2>1. s \in SUBSET S /\ s \notin Bad
    BY <1>2, <1>3, <1>4
  <2> QED
    BY <2>1
<1>5. ASSUME NEW s, s \subseteq t, s # t
      PROVE  Total(f, s) = IF s = {} THEN 0 ELSE f[Picked(s)] + Total(f, s \ {Picked(s)})
  <2> DEFINE g == CHOOSE g : IsSum(g, f, s)
  <2>1. IsSum(g, f, s)
    BY <1>4, <1>5
  <2> HIDE DEF g
  <2>2. CASE s = {}
    BY <2>1, <2>2 DEF Total, IsSum, g
  <2>3. CASE s # {}
    <3> DEFINE u == s \ {Picked(s)}
               k == CHOOSE k : IsSum(k, f, u)
    <3>1. u \subseteq s /\ u \subseteq t /\ u # t /\ IsFiniteSet(u)
      BY <1>3, <1>5, <2>3, PickedIn, FS_Subset
    <3>2. IsSum(k, f, u)
      BY <1>4, <3>1
    <3> HIDE DEF k, u
    <3>3. g[u] = k[u]
      BY <2>1, <3>1, <3>2, SumUnique
    <3>4. g[s] = f[Picked(s)] + g[u]
      BY <2>1, <2>3 DEF IsSum, u
    <3> QED
      BY <2>3, <3>3, <3>4 DEF Total, g, k, u
  <2> QED
    BY <2>2, <2>3
<1> DEFINE top == IF t = {} THEN 0 ELSE f[Picked(t)] + Total(f, t \ {Picked(t)})
           h == [s \in SUBSET t |-> IF s = t THEN top ELSE Total(f, s)]
<1>6. ASSUME NEW s \in SUBSET t
      PROVE  h[s] = IF s = {} THEN 0 ELSE f[Picked(s)] + h[s \ {Picked(s)}]
  <2>1. s # {} => s \ {Picked(s)} \in SUBSET t /\ s \ {Picked(s)} # t
    BY PickedIn
  <2>2. CASE s = t
    BY <2>1, <2>2
  <2>3. CASE s # t
    BY <1>5, <2>1, <2>3
  <2> QED
    BY <2>2, <2>3
<1> HIDE DEF h
<1>7. h = [s \in SUBSET t |-> h[s]]
  BY DEF h
<1>8. IsSum(h, f, t)
  BY <1>6, <1>7 DEF IsSum
<1> QED
  BY <1>3, <1>8

\* The total is what any solution of the recursion gives.
LEMMA TotalIs ==
    ASSUME NEW S, IsFiniteSet(S), NEW f, NEW g, IsSum(g, f, S)
    PROVE  Total(f, S) = g[S]
<1> DEFINE k == CHOOSE k : IsSum(k, f, S)
<1>1. IsSum(k, f, S)
  OBVIOUS
<1> HIDE DEF k
<1>2. k[S] = g[S]
  BY <1>1, SumUnique
<1> QED
  BY <1>2 DEF Total, k

\* A total is computed by the recursion itself.
LEMMA TotalNext ==
    ASSUME NEW S, IsFiniteSet(S), NEW f
    PROVE  Total(f, S) = IF S = {} THEN 0 ELSE f[Picked(S)] + Total(f, S \ {Picked(S)})
<1>1. PICK g : IsSum(g, f, S)
  BY SumExists
<1>2. Total(f, S) = g[S]
  BY <1>1, TotalIs
<1> DEFINE u == S \ {Picked(S)}
           k == [s \in SUBSET u |-> g[s]]
<1>3. IsSum(k, f, u) /\ IsFiniteSet(u)
  <2>1. u \subseteq S
    OBVIOUS
  <2>2. IsFiniteSet(u)
    BY <2>1, FS_Subset
  <2> HIDE DEF u
  <2>3. \A v : v \subseteq S => IsSum([s \in SUBSET v |-> g[s]], f, v)
    BY <1>1, SumRestricts
  <2>4. IsSum(k, f, u)
    BY <2>1, <2>3
  <2> QED
    BY <2>2, <2>4
<1>4. Total(f, u) = k[u] /\ k[u] = g[u]
  <2>1. k[u] = g[u]
    OBVIOUS
  <2> HIDE DEF k, u
  <2> QED
    BY <1>3, <2>1, TotalIs
<1> QED
  BY <1>1, <1>2, <1>4 DEF IsSum

\* Functions that agree on a set have the same total there.
LEMMA TotalSame ==
    ASSUME NEW S, IsFiniteSet(S), NEW f, NEW h, \A x \in S : f[x] = h[x]
    PROVE  Total(f, S) = Total(h, S)
<1>1. PICK g : IsSum(g, f, S)
  BY SumExists
<1>2. PICK k : IsSum(k, h, S)
  BY SumExists
<1>3. g[S] = k[S]
  BY <1>1, <1>2, SumUnique
<1> QED
  BY <1>1, <1>2, <1>3, TotalIs

\* The total of integers is an integer.
LEMMA TotalType ==
    ASSUME NEW S, IsFiniteSet(S), NEW f, \A x \in S : f[x] \in Int
    PROVE  Total(f, S) \in Int
<1> DEFINE Bad == {s \in SUBSET S : Total(f, s) \notin Int}
<1> SUFFICES ASSUME Bad # {} PROVE FALSE
  OBVIOUS
<1>1. Bad \subseteq SUBSET S
  OBVIOUS
<1>2. PICK t \in Bad : \A u \in Bad : u \subseteq t => u = t
  <2> HIDE DEF Bad
  <2> QED
    BY <1>1, SmallestSet
<1>3. t \subseteq S /\ Total(f, t) \notin Int /\ IsFiniteSet(t)
  BY FS_Subset
<1>4. Total(f, t) = IF t = {} THEN 0 ELSE f[Picked(t)] + Total(f, t \ {Picked(t)})
  BY <1>3, TotalNext
<1>5. t # {} => Picked(t) \in S /\ Total(f, t \ {Picked(t)}) \in Int
  <2>1. t # {} => Picked(t) \in t /\ t \ {Picked(t)} \subseteq S /\ t \ {Picked(t)} # t
    BY <1>3, PickedIn
  <2> HIDE DEF Picked
  <2> QED
    BY <1>2, <1>3, <2>1
<1> QED
  BY <1>3, <1>4, <1>5

\* Any element may be taken out.
LEMMA TotalWithout ==
    ASSUME NEW S, IsFiniteSet(S), NEW f, \A x \in S : f[x] \in Int, NEW b \in S
    PROVE  Total(f, S) = f[b] + Total(f, S \ {b})
<1> DEFINE Bad == {s \in SUBSET S : \E x \in s : Total(f, s) # f[x] + Total(f, s \ {x})}
<1> SUFFICES ASSUME Bad # {} PROVE FALSE
  OBVIOUS
<1>1. Bad \subseteq SUBSET S
  OBVIOUS
<1>2. PICK t \in Bad : \A u \in Bad : u \subseteq t => u = t
  <2> HIDE DEF Bad
  <2> QED
    BY <1>1, SmallestSet
<1>3. PICK x \in t : Total(f, t) # f[x] + Total(f, t \ {x})
  OBVIOUS
<1>4. t \subseteq S /\ IsFiniteSet(t) /\ Picked(t) \in t
  BY FS_Subset, PickedIn
<1> DEFINE y == Picked(t)
           rest == t \ {x, y}
<1> HIDE DEF y
<1>5. Total(f, t) = f[y] + Total(f, t \ {y}) /\ y \in t
  BY <1>4, TotalNext DEF y
<1>6. x # y
  BY <1>3, <1>5
<1>7. /\ t \ {x} \subseteq S /\ t \ {x} # t /\ y \in t \ {x} /\ (t \ {x}) \ {y} = rest
      /\ t \ {y} \subseteq S /\ t \ {y} # t /\ x \in t \ {y} /\ (t \ {y}) \ {x} = rest
  BY <1>4, <1>5, <1>6
<1>8. t \ {x} \notin Bad /\ t \ {y} \notin Bad
  BY <1>2, <1>7
<1>9. /\ Total(f, t \ {x}) = f[y] + Total(f, rest)
      /\ Total(f, t \ {y}) = f[x] + Total(f, rest)
  BY <1>7, <1>8
<1>10. f[x] \in Int /\ f[y] \in Int /\ Total(f, rest) \in Int
  <2>1. IsFiniteSet(rest) /\ rest \subseteq S
    BY <1>4, FS_Subset
  <2> QED
    BY <1>4, <1>5, <2>1, TotalType
<1> QED
  BY <1>3, <1>5, <1>9, <1>10

\* The same numbers over the same set, but for b.
SameBut(b, f, S, h, U) ==
    /\ IsFiniteSet(S)
    /\ U \ {b} = S \ {b}
    /\ \A x \in S : f[x] \in Int
    /\ \A x \in U : h[x] \in Int
    /\ \A x \in S \ {b} : f[x] = h[x]

\* A step that concerns one element.
LEMMA TotalStep ==
    ASSUME NEW b, NEW f, NEW S, NEW h, NEW U, SameBut(b, f, S, h, U)
    PROVE  Total(h, U) = Total(f, S) - (IF b \in S THEN f[b] ELSE 0)
                                     + (IF b \in U THEN h[b] ELSE 0)
<1>1. /\ IsFiniteSet(S)
      /\ \A x \in S : f[x] \in Int
      /\ \A x \in U : h[x] \in Int
      /\ \A x \in S \ {b} : f[x] = h[x]
  BY DEF SameBut
<1>2. U \ {b} = S \ {b}
  BY DEF SameBut
<1>3. IsFiniteSet(S \ {b}) /\ IsFiniteSet(U)
  <2>1. IsFiniteSet(S \ {b})
    BY <1>1, FS_RemoveElement
  <2>2. IsFiniteSet((S \ {b}) \cup {b})
    BY <2>1, FS_AddElement
  <2>3. U = S \ {b} \/ U = (S \ {b}) \cup {b}
    BY <1>2
  <2> QED
    BY <2>1, <2>2, <2>3
<1>4. Total(f, S \ {b}) = Total(h, U \ {b})
  BY <1>1, <1>2, <1>3, TotalSame
<1>5. Total(f, S \ {b}) \in Int
  BY <1>1, <1>3, TotalType
<1>6. Total(f, S) = (IF b \in S THEN f[b] ELSE 0) + Total(f, S \ {b})
  <2>1. CASE b \in S
    BY <1>1, <2>1, TotalWithout
  <2>2. CASE b \notin S
    <3>1. S \ {b} = S
      BY <2>2
    <3>2. Total(f, S) = Total(f, S \ {b})
      BY <3>1
    <3> QED
      BY <2>2, <3>2, <1>5
  <2> QED
    BY <2>1, <2>2
<1>7. Total(h, U) = (IF b \in U THEN h[b] ELSE 0) + Total(h, U \ {b})
  <2>1. CASE b \in U
    BY <1>1, <1>3, <2>1, TotalWithout
  <2>2. CASE b \notin U
    <3>1. U \ {b} = U
      BY <2>2
    <3>2. Total(h, U) = Total(h, U \ {b})
      BY <3>1
    <3> QED
      BY <2>2, <3>2, <1>4, <1>5
  <2> QED
    BY <2>1, <2>2
<1> QED
  BY <1>1, <1>3, <1>4, <1>5, <1>6, <1>7

\* What every blob is charged.
Charges == [b \in Blobs |-> Charged(b)]
InMemory == {b \in blobs : ~blob[b].is_in_file}
OnDisk == {b \in blobs : blob[b].is_in_file}

\* The MapThenSumSet that Accounting is stated with is this total.
LEMMA MapThenTotal ==
    ASSUME NEW S, IsFiniteSet(S), S \subseteq Blobs
    PROVE  MapThenSumSet(Charged, S) = Total(Charges, S)
<1> DEFINE I(g) == g = [s \in SUBSET S |-> IF s = {} THEN 0
                          ELSE Charged(CHOOSE x \in s : TRUE)
                               + g[s \ {CHOOSE x \in s : TRUE}]]
<1>1. MapThenSumSet(Charged, S) = (CHOOSE g : I(g))[S]
  BY DEF MapThenSumSet, MapThenFoldSet
<1>2. \A g : I(g) <=> IsSum(g, Charges, S)
  <2>1. \A s \in SUBSET S : s # {} => Charges[Picked(s)] = Charged(Picked(s))
    BY PickedIn DEF Charges
  <2> SUFFICES ASSUME NEW g PROVE I(g) <=> IsSum(g, Charges, S)
    OBVIOUS
  <2>2. \A s \in SUBSET S :
          (IF s = {} THEN 0 ELSE Charged(Picked(s)) + g[s \ {Picked(s)}])
          = (IF s = {} THEN 0 ELSE Charges[Picked(s)] + g[s \ {Picked(s)}])
    BY <2>1
  <2>3. [s \in SUBSET S |-> IF s = {} THEN 0 ELSE Charged(Picked(s)) + g[s \ {Picked(s)}]]
      = [s \in SUBSET S |-> IF s = {} THEN 0 ELSE Charges[Picked(s)] + g[s \ {Picked(s)}]]
    BY <2>2
  <2> QED
    BY <2>3 DEF IsSum, Picked
<1> DEFINE k == CHOOSE g : I(g)
<1> HIDE DEF I
<1>3. PICK g : IsSum(g, Charges, S)
  BY SumExists
<1>4. I(k)
  BY <1>2, <1>3
<1> HIDE DEF k
<1>5. k[S] = Total(Charges, S)
  BY <1>2, <1>4, TotalIs
<1> QED
  BY <1>1, <1>5 DEF k

\* Both sums of Accounting are totals of the charges ...
LEMMA SumsNow ==
    IsFiniteSet(blobs) /\ blobs \subseteq Blobs =>
        /\ MapThenSumSet(Charged, InMemory) = Total(Charges, InMemory)
        /\ MapThenSumSet(Charged, OnDisk) = Total(Charges, OnDisk)
<1> SUFFICES ASSUME IsFiniteSet(blobs), blobs \subseteq Blobs
             PROVE  /\ MapThenSumSet(Charged, InMemory) = Total(Charges, InMemory)
                    /\ MapThenSumSet(Charged, OnDisk) = Total(Charges, OnDisk)
  OBVIOUS
<1>1. /\ InMemory \subseteq Blobs /\ IsFiniteSet(InMemory)
      /\ OnDisk \subseteq Blobs /\ IsFiniteSet(OnDisk)
  BY FS_Subset DEF InMemory, OnDisk
<1> QED
  BY <1>1, MapThenTotal

\* ... so that Accounting says that the counters are these totals ...
LEMMA AccountingNow ==
    IsFiniteSet(blobs) /\ blobs \subseteq Blobs =>
        (Accounting <=> /\ mem_used = Total(Charges, InMemory)
                        /\ disk_used = Total(Charges, OnDisk))
BY SumsNow DEF Accounting, MemAccounting, DiskAccounting, InMemory, OnDisk

\* ... before a step and after it.
LEMMA AccountingNext ==
    (IsFiniteSet(blobs) /\ blobs \subseteq Blobs =>
        (Accounting <=> /\ mem_used = Total(Charges, InMemory)
                        /\ disk_used = Total(Charges, OnDisk)))'
BY AccountingNow, PTL

\* A thread works alone on a blob under its lock: a blob is created empty, so
\* that z_blob_new allocates nothing without the lock.
LockHeld ==
    \A c \in Clients : cli[c].pc \in Alone => blob[cli[c].blob].mtx_lock = c

\* No file is lent.
NoFiles == \A c \in Clients : cli[c].pc \notin {"swapout", "file"}

\* The threads that wait for the quota, or have been granted it.
Requesting == {"push", "wait", "finish"}

\* What was requested is what the blob still has to grow, or shrink, by.
RequestSizes ==
    \A c \in Clients : cli[c].pc \in Requesting =>
        blob[cli[c].blob].alloc_req = cli[c].want - blob[cli[c].blob].alloc_size

\* A request is not granted before it is answered: it is charged once.
VerdictsGiven ==
    \A c \in Clients : cli[c].pc = "wait" /\ blob[cli[c].blob].approved =>
        blob[cli[c].blob].replied

RequestsInv == LockHeld /\ NoFiles /\ RequestSizes /\ VerdictsGiven

LedgerInv == UseInv /\ RequestsInv /\ IsFiniteSet(blobs) /\ Accounting

\* What blob b is charged in memory, and on disk.
MemShare(b) == IF b \in InMemory THEN Charged(b) ELSE 0
DiskShare(b) == IF b \in OnDisk THEN Charged(b) ELSE 0

\* A step that changes what blob b is charged, and the counters by as much.
Settles(b) ==
    /\ blobs' \ {b} = blobs \ {b}
    /\ \A x \in Blobs \ {b} : blob'[x] = blob[x] /\ (Granted(x)' <=> Granted(x))
    /\ mem_used' = mem_used - MemShare(b) + MemShare(b)'
    /\ disk_used' = disk_used - DiskShare(b) + DiskShare(b)'

\* What is charged, and the counters, are integers ...
LEMMA ChargesType ==
    TypeOK => /\ \A x \in Blobs : Charges[x] = Charged(x) /\ Charged(x) \in Int
              /\ blobs \subseteq Blobs /\ mem_used \in Int /\ disk_used \in Int
BY DEF TypeOK, BlobType, Charged, Charges

\* ... after a step too.
LEMMA ChargesTypeNext ==
    (TypeOK => /\ \A x \in Blobs : Charges[x] = Charged(x) /\ Charged(x) \in Int
               /\ blobs \subseteq Blobs /\ mem_used \in Int /\ disk_used \in Int)'
BY ChargesType, PTL

\* If one blob's share changes and the counters by as much, they stay exact.
LEMMA SettlesKeeps ==
    ASSUME TypeOK, TypeOK', IsFiniteSet(blobs), Accounting, NEW b \in Blobs,
           Settles(b)
    PROVE  Accounting' /\ IsFiniteSet(blobs')
<1>1. /\ \A x \in Blobs : Charges[x] = Charged(x) /\ Charged(x) \in Int
      /\ \A x \in Blobs : Charges'[x] = Charged(x)' /\ Charged(x)' \in Int
      /\ blobs \subseteq Blobs /\ blobs' \subseteq Blobs
      /\ mem_used \in Int /\ disk_used \in Int
  BY ChargesType, ChargesTypeNext
<1>2. \A x \in Blobs \ {b} : Charges[x] = Charges'[x]
  <2> TAKE x \in Blobs \ {b}
  <2>1. blob'[x] = blob[x] /\ (Granted(x)' <=> Granted(x))
    BY DEF Settles
  <2>2. Charged(x)' = Charged(x)
    BY <2>1 DEF Charged
  <2> QED
    BY <1>1, <2>2
<1>3. /\ InMemory' \ {b} = InMemory \ {b} /\ OnDisk' \ {b} = OnDisk \ {b}
      /\ InMemory \subseteq Blobs /\ OnDisk \subseteq Blobs
      /\ InMemory' \subseteq Blobs /\ OnDisk' \subseteq Blobs
  BY <1>1 DEF Settles, InMemory, OnDisk
<1>4. IsFiniteSet(InMemory) /\ IsFiniteSet(OnDisk)
  BY FS_Subset DEF InMemory, OnDisk
<1>5. IsFiniteSet(blobs')
  <2>1. blobs' \subseteq blobs \cup {b}
    BY DEF Settles
  <2> QED
    BY <2>1, FS_Subset, FS_AddElement
<1>6. mem_used = Total(Charges, InMemory) /\ disk_used = Total(Charges, OnDisk)
  BY <1>1, AccountingNow
<1>7. /\ SameBut(b, Charges, InMemory, Charges', InMemory')
      /\ SameBut(b, Charges, OnDisk, Charges', OnDisk')
  BY <1>1, <1>2, <1>3, <1>4 DEF SameBut
<1>8. /\ MemShare(b) = IF b \in InMemory THEN Charges[b] ELSE 0
      /\ MemShare(b)' = IF b \in InMemory' THEN Charges'[b] ELSE 0
      /\ DiskShare(b) = IF b \in OnDisk THEN Charges[b] ELSE 0
      /\ DiskShare(b)' = IF b \in OnDisk' THEN Charges'[b] ELSE 0
  BY <1>1 DEF MemShare, DiskShare
<1>9. /\ Total(Charges', InMemory') = Total(Charges, InMemory) - MemShare(b) + MemShare(b)'
      /\ Total(Charges', OnDisk') = Total(Charges, OnDisk) - DiskShare(b) + DiskShare(b)'
  BY <1>7, <1>8, TotalStep
<1>10. (mem_used = Total(Charges, InMemory) /\ disk_used = Total(Charges, OnDisk))'
  BY <1>6, <1>9 DEF Settles
<1> QED
  BY <1>1, <1>5, <1>10, AccountingNext

-----------------------------------------------------------------------------
(* What the calls of the threads charge. *)

\* Two threads do not both work alone on one blob.
LEMMA SoleWorker ==
    ASSUME LockHeld, NEW c \in Clients, NEW d \in Clients,
           cli[c].pc \in Alone, cli[d].pc \in Alone, cli[c].blob = cli[d].blob
    PROVE  c = d
BY DEF LockHeld

\* A call keeps the lock of the blob it works alone on.
LEMMA CallStepLockHeld ==
    ASSUME UseInv, LockHeld, NEW c \in Clients, NEW b \in Blobs, CallStep(c, b)
    PROVE  LockHeld'
<1> SUFFICES ASSUME NEW d \in Clients, cli'[d].pc \in Alone
             PROVE  blob'[cli'[d].blob].mtx_lock = d
  BY DEF LockHeld
<1>1. Touches(c, b) /\ Proceeds(c, b) /\ Locking(c, b)
  BY DEF CallStep
<1>2. CASE d = c
  <2>1. cli'[c].blob = b
    BY <1>1, <1>2 DEF Proceeds, Alone
  <2>2. cli[c].pc \in Alone => cli[c].blob = b /\ blob[b].mtx_lock = c
    BY <1>1 DEF Proceeds, LockHeld, Alone
  <2> QED
    BY <1>1, <1>2, <2>1, <2>2 DEF Locking
<1>3. CASE d # c
  <2>1. cli'[d] = cli[d] /\ blob[cli[d].blob].mtx_lock = d
    BY <1>1, <1>3 DEF Touches, LockHeld
  <2>2. cli[d].blob \in Blobs
    <3>1. cli[d].pc \notin Outside
      BY <2>1 DEF Alone, Outside
    <3> QED
      BY <3>1, InsideFacts
  <2>3. CASE cli[d].blob # b
    BY <1>1, <2>1, <2>2, <2>3 DEF Touches
  <2>4. CASE cli[d].blob = b
    <3>1. blob[b].mtx_lock # NoOne
      BY <2>1, <2>4, NamesAssumption DEF NoOne
    <3>2. cli[c].pc \notin Alone
      <4>1. cli[c].pc \in Alone => cli[c].blob = b
        BY <1>1 DEF Proceeds, Alone
      <4> QED
        BY <1>3, <2>1, <2>4, <4>1 DEF LockHeld
    <3>3. blob'[b].mtx_lock = blob[b].mtx_lock
      BY <1>1, <3>1, <3>2 DEF Locking
    <3> QED
      BY <2>1, <2>4, <3>3
  <2> QED
    BY <2>3, <2>4
<1> QED
  BY <1>2, <1>3

\* A call grants or ends no request of another blob.
LEMMA GrantedOthers ==
    ASSUME NEW c \in Clients, NEW b \in Blobs, CallStep(c, b)
    PROVE  \A x \in Blobs \ {b} : Granted(x)' <=> Granted(x)
<1> TAKE x \in Blobs \ {b}
<1>1. Touches(c, b) /\ Proceeds(c, b)
  BY DEF CallStep
<1>2. x # NoBlob
  BY NamesAssumption DEF NoBlob
<1>3. blob'[x] = blob[x] /\ \A d \in Clients \ {c} : cli'[d] = cli[d]
  BY <1>1 DEF Touches
<1>4. cli'[c].blob # x /\ (cli[c].blob = x => cli[c].pc = "idle")
  BY <1>1, <1>2 DEF Proceeds
<1> DEFINE G(d) == /\ cli[d].blob = x
                   /\ \/ cli[d].pc = "finish"
                      \/ cli[d].pc = "wait" /\ blob[x].approved
<1>5. ASSUME NEW d \in Clients PROVE G(d)' <=> G(d)
  <2>1. CASE d = c
    BY <1>4, <2>1
  <2>2. CASE d # c
    BY <1>3, <2>2
  <2> QED
    BY <2>1, <2>2
<1>6. Granted(x) <=> \E d \in Clients : G(d)
  BY DEF Granted
<1>7. Granted(x)' <=> \E d \in Clients : G(d)'
  BY DEF Granted
<1> HIDE DEF G
<1> QED
  BY <1>5, <1>6, <1>7

\* A step of a call that has nothing to do with the quota.
Plain(c, b) ==
    /\ UNCHANGED <<mem_used, disk_used>>
    /\ blob'[b].alloc_size = blob[b].alloc_size
    /\ blob'[b].is_in_file = blob[b].is_in_file
    /\ blob'[b].alloc_req = blob[b].alloc_req
    /\ blob'[b].approved = blob[b].approved
    /\ blob'[b].replied = blob[b].replied
    /\ cli[c].pc \notin Requesting
    /\ cli'[c].pc \notin Requesting \cup {"swapout", "file"}

\* A step that leaves the quota alone changes no share and no request.
LEMMA PlainKeeps ==
    ASSUME LedgerInv, NEW c \in Clients, NEW b \in Blobs, CallStep(c, b), Plain(c, b)
    PROVE  Settles(b) /\ NoFiles' /\ RequestSizes' /\ VerdictsGiven'
<1>1. /\ \A d \in Clients \ {c} : cli'[d] = cli[d]
      /\ \A x \in Blobs \ {b} : blob'[x] = blob[x]
      /\ blobs' = blobs
  BY DEF CallStep, Touches
<1>2. \A d \in Clients : cli[d].pc \in Requesting => cli[d].blob \in Blobs
  <2>1. \A d \in Clients : cli[d].pc \in Requesting => cli[d].pc \notin Outside
    BY DEF Requesting, Outside
  <2> QED
    BY <2>1, InsideFacts DEF LedgerInv
<1>3. \A x \in Blobs : /\ blob'[x].alloc_size = blob[x].alloc_size
                       /\ blob'[x].is_in_file = blob[x].is_in_file
                       /\ blob'[x].alloc_req = blob[x].alloc_req
                       /\ blob'[x].approved = blob[x].approved
                       /\ blob'[x].replied = blob[x].replied
  BY <1>1 DEF Plain
<1>4. \A d \in Clients : /\ cli'[d].pc \in Requesting <=> cli[d].pc \in Requesting
                         /\ cli[d].pc \in Requesting => cli'[d] = cli[d]
  BY <1>1 DEF Plain
<1>5. "finish" \in Requesting /\ "wait" \in Requesting
  BY DEF Requesting
<1>6. Granted(b)' <=> Granted(b)
  BY <1>3, <1>4, <1>5 DEF Granted
<1>7. Charged(b)' = Charged(b)
  BY <1>3, <1>6 DEF Charged
<1>8. (b \in InMemory <=> b \in InMemory') /\ (b \in OnDisk <=> b \in OnDisk')
  BY <1>1, <1>3 DEF InMemory, OnDisk
<1>9. MemShare(b)' = MemShare(b) /\ DiskShare(b)' = DiskShare(b)
  BY <1>7, <1>8 DEF MemShare, DiskShare
<1>10. MemShare(b) \in Int /\ DiskShare(b) \in Int /\ mem_used \in Int /\ disk_used \in Int
  BY ChargesType DEF MemShare, DiskShare, LedgerInv, UseInv, QuotaInv
<1>11. Settles(b)
  <2>1. mem_used' = mem_used /\ disk_used' = disk_used
    BY DEF Plain
  <2> QED
    BY <1>1, <1>9, <1>10, <2>1, GrantedOthers DEF Settles
<1>12. NoFiles'
  BY <1>1 DEF NoFiles, Plain, LedgerInv, RequestsInv
<1>13. RequestSizes'
  BY <1>2, <1>3, <1>4 DEF RequestSizes, LedgerInv, RequestsInv
<1>14. VerdictsGiven'
  BY <1>2, <1>3, <1>4, <1>5 DEF VerdictsGiven, LedgerInv, RequestsInv
<1> QED
  BY <1>11, <1>12, <1>13, <1>14

\* A thread that only takes the lock, or none, and enters its call.
LEMMA LockedCallsSettle ==
    ASSUME LedgerInv, NEW c \in Clients, NEW b \in Blobs, NEW n \in Nat,
           \/ z_blob_truncate(c, b, n)
           \/ z_blob_add_copy(c, b, n)
           \/ z_blob_read_from_stream(c, b, n)
           \/ StreamSeek(c, b, n)
    PROVE  Plain(c, b)
<1>1. /\ MayCall(c, b) /\ z_blob_lock(c, b) /\ UNCHANGED <<mem_used, disk_used>>
  BY DEF z_blob_truncate, z_blob_add_copy, z_blob_read_from_stream, StreamSeek
<1>2. PICK op \in {"truncate", "write", "stream_mem", "stream_file", "stream_seek"} :
        EnsureSpace(c, b, n, op) \/ EnterAlloc(c, b, n, op)
  BY DEF z_blob_truncate, z_blob_add_copy, z_blob_read_from_stream, StreamSeek
<1>3. PICK r \in ClientType : /\ r.pc \in {"alloc", "body"} /\ r.blob = b
                              /\ cli' = [cli EXCEPT ![c] = r]
  BY <1>2, EnterAllocRecord DEF LedgerInv
<1>4. /\ blob \in [Blobs -> BlobType] /\ blob[b] \in BlobType
      /\ cli \in [Clients -> ClientType]
  BY DEF LedgerInv, UseInv, QuotaInv, TypeOK
<1>5. cli[c].pc = "idle" /\ cli'[c] = r
  BY <1>1, <1>3, <1>4 DEF MayCall, At
<1> DEFINE s == [blob[b] EXCEPT !.mtx_lock = c]
<1>6. blob'[b] = s
  BY <1>1, <1>4 DEF z_blob_lock
<1>7. /\ s.alloc_size = blob[b].alloc_size /\ s.is_in_file = blob[b].is_in_file
      /\ s.alloc_req = blob[b].alloc_req /\ s.approved = blob[b].approved
      /\ s.replied = blob[b].replied
  BY <1>4 DEF BlobType
<1> HIDE DEF s
<1> QED
  BY <1>1, <1>3, <1>5, <1>6, <1>7 DEF Plain, Requesting

\* So does a thread that enters a call without the lock.
LEMMA UnlockedCallsSettle ==
    ASSUME LedgerInv, NEW c \in Clients, NEW b \in Blobs,
           \/ \E n \in WriteSizes : z_blob_get_copy(c, b, n)
           \/ z_blob_get_ptr(c, b)
           \/ \E st \in BOOLEAN : z_blob_storage_lock(c, b, st)
    PROVE  Plain(c, b)
<1>1. /\ blob \in [Blobs -> BlobType] /\ blob[b] \in BlobType
      /\ cli \in [Clients -> ClientType]
  BY DEF LedgerInv, UseInv, QuotaInv, TypeOK
<1>2. cli[c].pc = "idle" /\ UNCHANGED <<mem_used, disk_used>>
  BY DEF MayCall, At, z_blob_get_copy, z_blob_get_ptr, z_blob_storage_lock
<1>3. cli'[c].pc \in {"idle", "read", "getptr", "aborted"}
  BY <1>1, <1>2 DEF z_blob_get_copy, z_blob_get_ptr, z_blob_storage_lock
<1>4. /\ blob'[b].alloc_size = blob[b].alloc_size
      /\ blob'[b].is_in_file = blob[b].is_in_file
      /\ blob'[b].alloc_req = blob[b].alloc_req
      /\ blob'[b].approved = blob[b].approved
      /\ blob'[b].replied = blob[b].replied
  <2>1. CASE UNCHANGED blob
    BY <2>1
  <2>2. ASSUME NEW st \in BOOLEAN, z_blob_storage_lock(c, b, st)
        PROVE  /\ blob'[b].alloc_size = blob[b].alloc_size
               /\ blob'[b].is_in_file = blob[b].is_in_file
               /\ blob'[b].alloc_req = blob[b].alloc_req
               /\ blob'[b].approved = blob[b].approved
               /\ blob'[b].replied = blob[b].replied
    <3>1. blob'[b] = [blob[b] EXCEPT !.storage_locked = st]
      BY <1>1, <2>2 DEF z_blob_storage_lock
    <3> QED
      BY <1>1, <3>1 DEF BlobType
  <2> QED
    BY <2>1, <2>2 DEF z_blob_get_copy, z_blob_get_ptr
<1> QED
  BY <1>2, <1>3, <1>4 DEF Plain, Requesting

\* The common end of calls.
LEMMA FinishPlain ==
    ASSUME LedgerInv, NEW c \in Clients, cli[c].pc \in {"body", "ptr"}, NEW e,
           Finish(c, cli[c].blob, e), UNCHANGED <<mem_used, disk_used>>
    PROVE  Plain(c, cli[c].blob)
<1> DEFINE b == cli[c].blob
           m == Most(blob[b].size, e)
           f == IF blob[b].is_in_file THEN Most(blob[b].file_len, e)
                ELSE blob[b].file_len
           s == [blob[b] EXCEPT !.size = m, !.file_len = f, !.mtx_lock = NoOne]
<1>1. cli[c].pc \notin Outside
  BY DEF Outside
<1>2. /\ b \in Blobs /\ blob[b] \in BlobType /\ blob \in [Blobs -> BlobType]
      /\ cli \in [Clients -> ClientType]
  BY <1>1, InsideFacts DEF LedgerInv
<1>3. blob'[b] = s /\ cli'[c].pc = "idle"
  BY <1>2 DEF Finish, IdleClient
<1> HIDE DEF m, f
<1>4. /\ s.alloc_size = blob[b].alloc_size /\ s.is_in_file = blob[b].is_in_file
      /\ s.alloc_req = blob[b].alloc_req /\ s.approved = blob[b].approved
      /\ s.replied = blob[b].replied
  BY <1>2 DEF BlobType
<1> HIDE DEF s
<1> QED
  BY <1>3, <1>4 DEF Plain, Requesting

\* The other steps inside of a call, and z_blob_free_ptr, are plain too.
LEMMA InsideCallsSettle ==
    ASSUME LedgerInv, NEW c \in Clients,
           \/ StreamSeeked(c) \/ CallBody(c)
           \/ GetCopyLocked(c) \/ GetPtrLocked(c) \/ z_blob_free_ptr(c)
    PROVE  Plain(c, cli[c].blob)
<1> DEFINE b == cli[c].blob
<1>1. /\ cli[c].pc \in {"body", "read", "getptr", "ptr"}
      /\ UNCHANGED <<mem_used, disk_used>>
  BY DEF StreamSeeked, CallBody, GetCopyLocked, GetPtrLocked, z_blob_free_ptr, At
<1>2. cli[c].pc \notin Outside /\ cli[c].pc \notin Requesting
  BY <1>1 DEF Outside, Requesting
<1>3. /\ b \in Blobs /\ blob \in [Blobs -> BlobType] /\ blob[b] \in BlobType
      /\ cli \in [Clients -> ClientType] /\ cli[c] \in ClientType
  BY <1>2, InsideFacts DEF LedgerInv
<1>4. ASSUME UNCHANGED blob,
             cli'[c].pc \notin Requesting \cup {"swapout", "file"}
      PROVE  Plain(c, b)
  BY <1>1, <1>2, <1>4 DEF Plain
<1>5. CASE StreamSeeked(c)
  <2>1. PICK n \in WriteSizes : EnsureSpace(c, b, n, "stream_file")
    BY <1>5 DEF StreamSeeked
  <2>2. n \in Nat
    BY SizesAssumption
  <2>3. PICK r \in ClientType : /\ r.pc \in {"alloc", "body"} /\ r.blob = b
                                /\ cli' = [cli EXCEPT ![c] = r]
    BY <1>3, <2>1, <2>2, EnterAllocRecord DEF LedgerInv
  <2>4. cli'[c] = r /\ UNCHANGED blob
    BY <1>3, <1>5, <2>3 DEF StreamSeeked
  <2> QED
    BY <1>4, <2>3, <2>4 DEF Requesting
<1>6. CASE CallBody(c)
  <2>1. cli[c].pc = "body"
    BY <1>6 DEF CallBody, At
  <2>2. PICK e : \/ Goes(c, "null_write") /\ UNCHANGED blob
                 \/ Finish(c, b, e)
    BY <1>6 DEF CallBody
  <2>3. CASE Goes(c, "null_write") /\ UNCHANGED blob
    <3>1. cli'[c].pc = "null_write"
      BY <1>3, <2>3 DEF Goes, ClientType
    <3> QED
      BY <1>4, <2>3, <3>1 DEF Requesting
  <2>4. CASE Finish(c, b, e)
    BY <1>1, <2>1, <2>4, FinishPlain
  <2> QED
    BY <2>2, <2>3, <2>4
<1>7. CASE GetCopyLocked(c)
  <2>1. cli'[c].pc \in {"overrun", "idle"} /\ UNCHANGED blob
    BY <1>3, <1>7 DEF GetCopyLocked, IdleClient, ClientType
  <2> QED
    BY <1>4, <2>1 DEF Requesting
<1>8. CASE GetPtrLocked(c)
  <2>1. CASE cli' = [cli EXCEPT ![c] = IdleClient] /\ UNCHANGED blob
    <3>1. cli'[c].pc = "idle"
      BY <1>3, <2>1 DEF IdleClient
    <3> QED
      BY <1>4, <2>1, <3>1 DEF Requesting
  <2>2. CASE /\ z_blob_lock(c, b)
             /\ cli' = [cli EXCEPT ![c] = [cli[c] EXCEPT !.pc = "ptr",
                                                         !.len = blob[b].size]]
    <3>1. cli'[c].pc = "ptr"
      BY <1>3, <2>2 DEF ClientType
    <3>2. blob'[b] = [blob[b] EXCEPT !.mtx_lock = c]
      BY <1>3, <2>2 DEF z_blob_lock
    <3>3. /\ blob'[b].alloc_size = blob[b].alloc_size
          /\ blob'[b].is_in_file = blob[b].is_in_file
          /\ blob'[b].alloc_req = blob[b].alloc_req
          /\ blob'[b].approved = blob[b].approved
          /\ blob'[b].replied = blob[b].replied
      BY <1>3, <3>2 DEF BlobType
    <3> QED
      BY <1>1, <1>2, <3>1, <3>3 DEF Plain, Requesting
  <2> QED
    BY <1>8, <2>1, <2>2 DEF GetPtrLocked
<1>9. CASE z_blob_free_ptr(c)
  <2>1. cli[c].pc = "ptr"
    BY <1>9 DEF z_blob_free_ptr, At
  <2>2. CASE Goes(c, "aborted") /\ UNCHANGED blob
    <3>1. cli'[c].pc = "aborted"
      BY <1>3, <2>2 DEF Goes, ClientType
    <3> QED
      BY <1>4, <2>2, <3>1 DEF Requesting
  <2>3. CASE Finish(c, b, 0)
    BY <1>1, <2>1, <2>3, FinishPlain
  <2> QED
    BY <1>9, <2>2, <2>3 DEF z_blob_free_ptr
<1> QED
  BY <1>5, <1>6, <1>7, <1>8, <1>9

-----------------------------------------------------------------------------
(* The steps of z_blob_alloc. *)

\* A charge, as the blob was and as it is stored.
LEMMA ChargeShares ==
    ASSUME NEW s \in BlobType, mem_used \in Int, disk_used \in Int, Charge(s)
    PROVE  /\ mem_used' = mem_used - (IF s.is_in_file THEN 0 ELSE s.alloc_size)
                 + (IF Stored(s).is_in_file THEN 0 ELSE s.alloc_size + s.alloc_req)
           /\ disk_used' = disk_used - (IF s.is_in_file THEN s.alloc_size ELSE 0)
                 + (IF Stored(s).is_in_file THEN s.alloc_size + s.alloc_req ELSE 0)
           /\ Stored(s).alloc_size = s.alloc_size
           /\ Stored(s).alloc_req = s.alloc_req
<1>1. s.alloc_size \in Int /\ s.alloc_req \in Int /\ s.is_in_file \in BOOLEAN
  BY DEF BlobType
<1>2. CASE s.is_in_file
  <2>1. Stored(s) = s
    BY <1>2 DEF Stored, GoesToDisk
  <2> QED
    BY <1>1, <1>2, <2>1 DEF Charge
<1>3. CASE ~s.is_in_file /\ GoesToDisk(s)
  <2>1. MayMove(s)
    BY <1>3 DEF GoesToDisk, MayMove
  <2>2. Stored(s) = [s EXCEPT !.is_in_file = TRUE, !.file_len = Most(s.file_len, s.size)]
    BY <1>3, <2>1 DEF Stored, z_blob_swap_out
  <2>3. /\ Stored(s).is_in_file /\ Stored(s).alloc_size = s.alloc_size
        /\ Stored(s).alloc_req = s.alloc_req
    BY <2>2 DEF BlobType
  <2>4. SwappedOut(s) = s.alloc_size
    BY <2>1 DEF SwappedOut
  <2>5. /\ mem_used' = mem_used - s.alloc_size
        /\ disk_used' = disk_used + s.alloc_size + s.alloc_req
    BY <1>3, <2>4 DEF Charge
  <2> QED
    BY <1>1, <1>3, <2>3, <2>5
<1>4. CASE ~s.is_in_file /\ ~GoesToDisk(s)
  <2>1. Stored(s) = s
    BY <1>4 DEF Stored
  <2>2. mem_used' = mem_used + s.alloc_req /\ disk_used' = disk_used
    BY <1>4 DEF Charge
  <2> QED
    BY <1>1, <1>4, <2>1, <2>2
<1> QED
  BY <1>2, <1>3, <1>4

\* The shares of a blob that exists, or does not.
LEMMA SharesNow ==
    \A b \in Blobs :
        /\ MemShare(b) = IF b \in blobs /\ ~blob[b].is_in_file THEN Charged(b) ELSE 0
        /\ DiskShare(b) = IF b \in blobs /\ blob[b].is_in_file THEN Charged(b) ELSE 0
BY DEF MemShare, DiskShare, InMemory, OnDisk

\* The same after a step.
LEMMA SharesNext ==
    (\A b \in Blobs :
        /\ MemShare(b) = IF b \in blobs /\ ~blob[b].is_in_file THEN Charged(b) ELSE 0
        /\ DiskShare(b) = IF b \in blobs /\ blob[b].is_in_file THEN Charged(b) ELSE 0)'
BY SharesNow, PTL

\* The thread that works alone on a blob is the only one that may have been granted.
LEMMA GrantedToSole ==
    (LockHeld =>
        \A c \in Clients :
            cli[c].pc \in Alone =>
                (Granted(cli[c].blob) <=>
                    \/ cli[c].pc = "finish"
                    \/ cli[c].pc = "wait" /\ blob[cli[c].blob].approved))
<1> SUFFICES ASSUME LockHeld, NEW c \in Clients, cli[c].pc \in Alone
             PROVE  Granted(cli[c].blob) <=>
                       \/ cli[c].pc = "finish"
                       \/ cli[c].pc = "wait" /\ blob[cli[c].blob].approved
  OBVIOUS
<1>1. \A d \in Clients : cli[d].pc \in {"finish", "wait"} /\ cli[d].blob = cli[c].blob
                            => d = c
  BY SoleWorker DEF Alone
<1> QED
  BY <1>1 DEF Granted

\* The same after a step.
LEMMA GrantedToSoleNext ==
    (LockHeld =>
        \A c \in Clients :
            cli[c].pc \in Alone =>
                (Granted(cli[c].blob) <=>
                    \/ cli[c].pc = "finish"
                    \/ cli[c].pc = "wait" /\ blob[cli[c].blob].approved))'
BY GrantedToSole, PTL

\* A step of a thread that works alone on its blob: who may have been granted, and
\* what is left to show of the requests.
LEMMA SoleStep ==
    ASSUME LedgerInv, NEW c \in Clients, NEW b \in Blobs, b = cli[c].blob,
           cli[c].pc \in Alone, CallStep(c, b),
           cli'[c].pc \notin {"swapout", "file"},
           cli'[c].pc \in Requesting =>
              blob'[b].alloc_req = cli'[c].want - blob'[b].alloc_size,
           cli'[c].pc = "wait" /\ blob'[b].approved => blob'[b].replied
    PROVE  /\ RequestsInv'
           /\ Granted(b) <=> \/ cli[c].pc = "finish"
                             \/ cli[c].pc = "wait" /\ blob[b].approved
           /\ Granted(b)' <=> \/ cli'[c].pc = "finish"
                              \/ cli'[c].pc = "wait" /\ blob'[b].approved
<1>1. /\ \A d \in Clients \ {c} : cli'[d] = cli[d]
      /\ \A x \in Blobs \ {b} : blob'[x] = blob[x]
      /\ cli'[c].pc # "idle" => cli'[c].blob = b
  BY DEF CallStep, Touches, Proceeds
<1>2. LockHeld' /\ LockHeld
  BY CallStepLockHeld DEF LedgerInv, RequestsInv
<1>3. Granted(b) <=> \/ cli[c].pc = "finish"
                     \/ cli[c].pc = "wait" /\ blob[b].approved
  BY <1>2, GrantedToSole
<1>4. ASSUME NEW d \in Clients, d # c, cli[d].pc \in Requesting
      PROVE  /\ cli'[d] = cli[d] /\ cli[d].blob # b
             /\ blob'[cli[d].blob] = blob[cli[d].blob]
  <2>1. cli[d].pc \in Alone /\ cli[d].pc \notin Outside
    BY <1>4 DEF Requesting, Alone, Outside
  <2>2. cli[d].blob \in Blobs
    BY <2>1, InsideFacts DEF LedgerInv
  <2>3. cli[d].blob # b
    BY <1>2, <1>4, <2>1, SoleWorker
  <2> QED
    BY <1>1, <1>4, <2>2, <2>3
<1>5. "finish" \in Requesting /\ "wait" \in Requesting /\ "idle" \notin Requesting
  BY DEF Requesting
<1>6. ASSUME NEW d \in Clients, cli'[d].pc \in Requesting
      PROVE  \/ d = c /\ cli'[d].blob = b
             \/ /\ d # c /\ cli'[d] = cli[d] /\ cli[d].blob # b
                /\ blob'[cli[d].blob] = blob[cli[d].blob]
  <2>1. CASE d = c
    BY <1>1, <1>5, <1>6, <2>1
  <2>2. CASE d # c
    <3>1. cli'[d] = cli[d]
      BY <1>1, <2>2
    <3> QED
      BY <1>4, <1>6, <2>2, <3>1
  <2> QED
    BY <2>1, <2>2
<1>7. Granted(b)' <=> \/ cli'[c].pc = "finish"
                      \/ cli'[c].pc = "wait" /\ blob'[b].approved
  <2>1. Granted(b)' <=> \E d \in Clients :
             /\ cli'[d].blob = b
             /\ \/ cli'[d].pc = "finish"
                \/ cli'[d].pc = "wait" /\ blob'[b].approved
    BY DEF Granted
  <2> QED
    BY <1>5, <1>6, <2>1
<1>8. NoFiles'
  BY <1>1 DEF NoFiles, LedgerInv, RequestsInv
<1>9. RequestSizes'
  <2> SUFFICES ASSUME NEW d \in Clients, cli'[d].pc \in Requesting
               PROVE  blob'[cli'[d].blob].alloc_req
                        = cli'[d].want - blob'[cli'[d].blob].alloc_size
    BY DEF RequestSizes, Requesting
  <2> QED
    BY <1>6 DEF RequestSizes, LedgerInv, RequestsInv
<1>10. VerdictsGiven'
  <2> SUFFICES ASSUME NEW d \in Clients, cli'[d].pc = "wait",
                      blob'[cli'[d].blob].approved
               PROVE  blob'[cli'[d].blob].replied
    BY DEF VerdictsGiven
  <2> QED
    BY <1>5, <1>6 DEF VerdictsGiven, LedgerInv, RequestsInv
<1> QED
  BY <1>2, <1>3, <1>7, <1>8, <1>9, <1>10 DEF RequestsInv

\* The types at hand.
LEMMA LedgerTypes ==
    ASSUME LedgerInv
    PROVE  /\ TypeOK
           /\ mem_used \in Int /\ disk_used \in Int
           /\ blob \in [Blobs -> BlobType] /\ cli \in [Clients -> ClientType]
           /\ blobs \subseteq Blobs
           /\ \A b \in Blobs : /\ blob[b].alloc_size \in Int
                               /\ blob[b].alloc_req \in Int
                               /\ Charged(b) \in Int
BY ChargesType DEF LedgerInv, UseInv, QuotaInv, TypeOK, BlobType

\* The first look at the quota: charged at once, or not at all.
LEMMA AllocCheckSettles ==
    ASSUME LedgerInv, NEW c \in Clients, AllocCheck(c), NEW b, b = cli[c].blob
    PROVE  Settles(b) /\ RequestsInv'
<1> DEFINE s == [blob[b] EXCEPT !.alloc_req = cli[c].want - blob[b].alloc_size]
<1>1. cli[c].pc = "alloc" /\ cli[c].pc \in Alone /\ cli[c].pc \notin Outside
  BY DEF AllocCheck, At, Alone, Outside
<1>2. /\ b \in Blobs /\ b \in blobs /\ blob[b] \in BlobType /\ cli[c] \in ClientType
      /\ blob \in [Blobs -> BlobType] /\ cli \in [Clients -> ClientType]
  BY <1>1, InsideFacts DEF LedgerInv
<1>3. CallStep(c, b) /\ blobs' = blobs
  BY AllocCheckStep DEF LedgerInv, AllocCheck
<1>4. /\ s.alloc_size = blob[b].alloc_size /\ s.is_in_file = blob[b].is_in_file
      /\ s.alloc_req = cli[c].want - blob[b].alloc_size
      /\ s \in BlobType
  <2>1. cli[c].want - blob[b].alloc_size \in Int
    BY <1>2 DEF BlobType, ClientType
  <2> QED
    BY <1>2, <2>1 DEF BlobType
<1>5. \/ /\ Charge(s)
         /\ blob' = [blob EXCEPT ![b] = Stored(s)]
         /\ cli' = [cli EXCEPT ![c].pc = "finish"]
      \/ /\ UNCHANGED <<mem_used, disk_used>>
         /\ blob' = [blob EXCEPT ![b] = s]
         /\ cli' = [cli EXCEPT ![c].pc = "push"]
  BY DEF AllocCheck, Goes
<1> HIDE DEF s
<1>6. /\ mem_used \in Int /\ disk_used \in Int
      /\ blob[b].alloc_size \in Int /\ s.alloc_req \in Int /\ s.is_in_file \in BOOLEAN
  BY <1>2, <1>4, LedgerTypes DEF BlobType
<1>7. CASE /\ Charge(s)
           /\ blob' = [blob EXCEPT ![b] = Stored(s)]
           /\ cli' = [cli EXCEPT ![c].pc = "finish"]
  <2>1. cli'[c].pc = "finish" /\ cli'[c].want = cli[c].want
    BY <1>2, <1>7 DEF ClientType
  <2>2. /\ blob'[b] = Stored(s)
        /\ Stored(s).alloc_size = blob[b].alloc_size
        /\ Stored(s).alloc_req = s.alloc_req
    BY <1>2, <1>4, <1>6, <1>7, ChargeShares
  <2>3. RequestsInv' /\ ~Granted(b) /\ Granted(b)'
    BY <1>1, <1>2, <1>3, <1>4, <2>1, <2>2, SoleStep
  <2>4. /\ Charged(b) = blob[b].alloc_size
        /\ Charged(b)' = blob[b].alloc_size + s.alloc_req
    BY <1>6, <2>2, <2>3 DEF Charged
  <2>5. /\ mem_used' = mem_used - (IF s.is_in_file THEN 0 ELSE blob[b].alloc_size)
                 + (IF Stored(s).is_in_file THEN 0 ELSE blob[b].alloc_size + s.alloc_req)
        /\ disk_used' = disk_used - (IF s.is_in_file THEN blob[b].alloc_size ELSE 0)
                 + (IF Stored(s).is_in_file THEN blob[b].alloc_size + s.alloc_req ELSE 0)
    BY <1>4, <1>6, <1>7, ChargeShares
  <2>6. /\ MemShare(b) = IF s.is_in_file THEN 0 ELSE blob[b].alloc_size
        /\ DiskShare(b) = IF s.is_in_file THEN blob[b].alloc_size ELSE 0
    BY <1>2, <1>4, <2>4, SharesNow
  <2>7. /\ MemShare(b)' = IF Stored(s).is_in_file THEN 0
                          ELSE blob[b].alloc_size + s.alloc_req
        /\ DiskShare(b)' = IF Stored(s).is_in_file
                           THEN blob[b].alloc_size + s.alloc_req ELSE 0
    BY <1>2, <1>3, <2>2, <2>4, SharesNext
  <2>8. Settles(b)
    BY <1>2, <1>3, <1>7, <2>5, <2>6, <2>7, GrantedOthers DEF Settles
  <2> QED
    BY <2>3, <2>8
<1>8. CASE /\ UNCHANGED <<mem_used, disk_used>>
           /\ blob' = [blob EXCEPT ![b] = s]
           /\ cli' = [cli EXCEPT ![c].pc = "push"]
  <2>1. cli'[c].pc = "push" /\ cli'[c].want = cli[c].want
    BY <1>2, <1>8 DEF ClientType
  <2>2. blob'[b] = s
    BY <1>2, <1>8
  <2>3. RequestsInv' /\ ~Granted(b) /\ ~Granted(b)'
    BY <1>1, <1>2, <1>3, <1>4, <2>1, <2>2, SoleStep
  <2>4. Charged(b) = blob[b].alloc_size /\ Charged(b)' = blob[b].alloc_size
    BY <1>4, <1>6, <2>2, <2>3 DEF Charged
  <2>5. MemShare(b)' = MemShare(b) /\ DiskShare(b)' = DiskShare(b)
    BY <1>2, <1>3, <1>4, <2>2, <2>4, SharesNow, SharesNext
  <2>6. MemShare(b) \in Int /\ DiskShare(b) \in Int
    BY <1>2, <1>6, <2>4, SharesNow
  <2>7. Settles(b)
    BY <1>2, <1>3, <1>6, <1>8, <2>5, <2>6, GrantedOthers DEF Settles
  <2> QED
    BY <2>3, <2>7
<1> QED
  BY <1>5, <1>7, <1>8

\* A step that leaves the counters and what its blob is charged.
LEMMA SameCharge ==
    ASSUME LedgerInv, NEW c \in Clients, NEW b \in Blobs, CallStep(c, b),
           UNCHANGED <<mem_used, disk_used, blobs>>,
           blob'[b].is_in_file = blob[b].is_in_file, Charged(b)' = Charged(b),
           \A x \in Blobs \ {b} : blob'[x] = blob[x]
    PROVE  Settles(b)
<1>1. MemShare(b)' = MemShare(b) /\ DiskShare(b)' = DiskShare(b)
  BY SharesNow, SharesNext
<1>2. /\ MemShare(b) \in Int /\ DiskShare(b) \in Int
      /\ mem_used \in Int /\ disk_used \in Int
  BY LedgerTypes, SharesNow
<1> QED
  BY <1>1, <1>2, GrantedOthers DEF Settles

\* Sending the request charges nothing.
LEMMA AllocPushSettles ==
    ASSUME LedgerInv, NEW c \in Clients, AllocPush(c), NEW b, b = cli[c].blob
    PROVE  Settles(b) /\ RequestsInv'
<1> DEFINE s == [blob[b] EXCEPT !.approved = FALSE, !.replied = FALSE]
<1>1. cli[c].pc = "push" /\ cli[c].pc \in Alone /\ cli[c].pc \notin Outside
  BY DEF AllocPush, At, Alone, Outside
<1>2. /\ b \in Blobs /\ blob[b] \in BlobType /\ cli[c] \in ClientType
      /\ blob \in [Blobs -> BlobType] /\ cli \in [Clients -> ClientType]
  BY <1>1, InsideFacts DEF LedgerInv
<1>3. CallStep(c, b) /\ UNCHANGED <<mem_used, disk_used, blobs>>
  BY AllocPushStep DEF LedgerInv, AllocPush
<1>4. /\ s.alloc_size = blob[b].alloc_size /\ s.is_in_file = blob[b].is_in_file
      /\ s.alloc_req = blob[b].alloc_req /\ ~s.approved
  BY <1>2 DEF BlobType
<1>5. blob' = [blob EXCEPT ![b] = s] /\ cli' = [cli EXCEPT ![c].pc = "wait"]
  BY DEF AllocPush, Goes
<1> HIDE DEF s
<1>6. /\ blob'[b] = s /\ \A x \in Blobs \ {b} : blob'[x] = blob[x]
      /\ cli'[c].pc = "wait" /\ cli'[c].want = cli[c].want
  BY <1>2, <1>5 DEF ClientType
<1>7. blob[b].alloc_req = cli[c].want - blob[b].alloc_size
  BY <1>1 DEF LedgerInv, RequestsInv, RequestSizes, Requesting
<1>8. RequestsInv' /\ ~Granted(b) /\ ~Granted(b)'
  BY <1>1, <1>2, <1>3, <1>4, <1>6, <1>7, SoleStep
<1>9. Charged(b)' = Charged(b)
  BY <1>4, <1>6, <1>8 DEF Charged
<1> QED
  BY <1>2, <1>3, <1>4, <1>6, <1>8, <1>9, SameCharge

\* Waking with the verdict charges nothing: the grant was charged when it was given.
LEMMA AllocWokenSettles ==
    ASSUME LedgerInv, NEW c \in Clients, AllocWoken(c), NEW b, b = cli[c].blob
    PROVE  Settles(b) /\ RequestsInv'
<1>1. cli[c].pc = "wait" /\ cli[c].pc \in Alone /\ cli[c].pc \notin Outside
  BY DEF AllocWoken, At, Alone, Outside
<1>2. /\ b \in Blobs /\ cli[c] \in ClientType /\ cli \in [Clients -> ClientType]
  BY <1>1, InsideFacts DEF LedgerInv
<1>3. CallStep(c, b) /\ UNCHANGED <<mem_used, disk_used, blobs, blob>>
  BY AllocWokenStep DEF LedgerInv, AllocWoken
<1>4. /\ cli'[c].pc = IF blob[b].approved THEN "finish" ELSE "aborted"
      /\ cli'[c].want = cli[c].want
  BY <1>2 DEF AllocWoken, Goes, ClientType
<1>5. blob[b].alloc_req = cli[c].want - blob[b].alloc_size
  BY <1>1 DEF LedgerInv, RequestsInv, RequestSizes, Requesting
<1>6. RequestsInv' /\ (Granted(b) <=> blob[b].approved)
      /\ (Granted(b)' <=> blob[b].approved)
  BY <1>1, <1>2, <1>3, <1>4, <1>5, SoleStep
<1>7. Charged(b)' = Charged(b)
  BY <1>3, <1>6 DEF Charged
<1> QED
  BY <1>2, <1>3, <1>6, <1>7, SameCharge

\* The resize turns the granted request into part of the size: the charge stays.
LEMMA AllocFinishSettles ==
    ASSUME LedgerInv, NEW c \in Clients, AllocFinish(c), NEW b, b = cli[c].blob
    PROVE  Settles(b) /\ RequestsInv'
<1> DEFINE n == cli[c].want
           m == Least(blob[b].size, n)
           f == IF blob[b].is_in_file THEN n ELSE blob[b].file_len
           s == [blob[b] EXCEPT !.alloc_size = n, !.size = m, !.file_len = f]
<1>1. cli[c].pc = "finish" /\ cli[c].pc \in Alone /\ cli[c].pc \notin Outside
  BY DEF AllocFinish, At, Alone, Outside
<1>2. /\ b \in Blobs /\ blob[b] \in BlobType /\ cli[c] \in ClientType
      /\ blob \in [Blobs -> BlobType] /\ cli \in [Clients -> ClientType]
  BY <1>1, InsideFacts DEF LedgerInv
<1>3. CallStep(c, b) /\ UNCHANGED <<mem_used, disk_used, blobs>>
  BY AllocFinishStep DEF LedgerInv, AllocFinish
<1>4. blob' = [blob EXCEPT ![b] = s] /\ cli' = [cli EXCEPT ![c].pc = "body"]
  BY DEF AllocFinish, Goes
<1> HIDE DEF m, f
<1>5. s.alloc_size = n /\ s.is_in_file = blob[b].is_in_file
  BY <1>2 DEF BlobType
<1> HIDE DEF s
<1>6. /\ blob'[b] = s /\ \A x \in Blobs \ {b} : blob'[x] = blob[x]
      /\ cli'[c].pc = "body"
  BY <1>2, <1>4 DEF ClientType
<1>7. blob[b].alloc_req = n - blob[b].alloc_size /\ n \in Int
  BY <1>1, <1>2 DEF LedgerInv, RequestsInv, RequestSizes, Requesting, ClientType
<1>8. cli'[c].pc \notin Requesting
  BY <1>6 DEF Requesting
<1>9. RequestsInv' /\ Granted(b) /\ ~Granted(b)'
  BY <1>1, <1>2, <1>3, <1>6, <1>8, SoleStep
<1>10. Charged(b) = n /\ Charged(b)' = n
  BY <1>5, <1>6, <1>7, <1>9, LedgerTypes, <1>2 DEF Charged
<1> QED
  BY <1>2, <1>3, <1>5, <1>6, <1>9, <1>10, SameCharge

-----------------------------------------------------------------------------
(* References, and blobs that come and go. *)

\* A step under which no thread works alone on the blob it concerns.
LEMMA Bystanders ==
    ASSUME LedgerInv, NEW b \in Blobs,
           \A x \in Blobs \ {b} : blob'[x] = blob[x],
           \A d \in Clients : \/ cli'[d] = cli[d] /\ cli[d].blob # b
                              \/ cli[d].pc \in Outside /\ cli'[d].pc \in Outside
    PROVE  /\ RequestsInv'
           /\ \A x \in Blobs \ {b} : Granted(x)' <=> Granted(x)
           /\ ~Granted(b) /\ ~Granted(b)'
<1>1. /\ \A w \in Alone : w \notin Outside
      /\ "finish" \in Alone /\ "wait" \in Alone /\ "swapout" \in Alone
      /\ "file" \in Alone /\ \A w \in Requesting : w \in Alone
  BY DEF Alone, Outside, Requesting
<1>2. ASSUME NEW d \in Clients, cli[d].pc \in Alone \/ cli'[d].pc \in Alone
      PROVE  /\ cli'[d] = cli[d] /\ cli[d].blob # b /\ cli[d].blob \in Blobs
             /\ blob'[cli[d].blob] = blob[cli[d].blob]
  <2>1. cli'[d] = cli[d] /\ cli[d].blob # b
    BY <1>1, <1>2
  <2>2. cli[d].blob \in Blobs
    BY <1>1, <1>2, <2>1, InsideFacts DEF LedgerInv
  <2> QED
    BY <2>1, <2>2
<1>3. ASSUME NEW x \in Blobs \ {b} PROVE Granted(x)' <=> Granted(x)
  <2>1. Granted(x) <=> \E d \in Clients : /\ cli[d].blob = x
                          /\ \/ cli[d].pc = "finish"
                             \/ cli[d].pc = "wait" /\ blob[x].approved
    BY DEF Granted
  <2>2. Granted(x)' <=> \E d \in Clients : /\ cli'[d].blob = x
                           /\ \/ cli'[d].pc = "finish"
                              \/ cli'[d].pc = "wait" /\ blob'[x].approved
    BY DEF Granted
  <2>3. blob'[x] = blob[x]
    OBVIOUS
  <2> QED
    BY <1>1, <1>2, <2>1, <2>2, <2>3
<1>4. ~Granted(b) /\ ~Granted(b)'
  BY <1>1, <1>2 DEF Granted
<1>5. LockHeld' /\ NoFiles' /\ RequestSizes' /\ VerdictsGiven'
  BY <1>1, <1>2
     DEF LedgerInv, RequestsInv, LockHeld, NoFiles, RequestSizes, VerdictsGiven
<1> QED
  BY <1>3, <1>4, <1>5 DEF RequestsInv

\* A blob that z_blob_new creates empty is charged nothing.
LEMMA NewSettles ==
    ASSUME LedgerInv, InitialSizes \subseteq {0}, NEW c \in Clients, NEW b \in Blobs,
           NEW n \in InitialSizes, z_blob_new(c, b, n)
    PROVE  Settles(b) /\ RequestsInv'
<1> DEFINE s == [FreshBlob EXCEPT !.ref_cnt = 1, !.holders = {c}]
<1>1. /\ b \notin blobs /\ blobs' = blobs \cup {b} /\ UNCHANGED cli
      /\ blob' = [blob EXCEPT ![b] = s] /\ UNCHANGED <<mem_used, disk_used>>
  BY DEF z_blob_new
<1>2. s.alloc_size = 0
  BY DEF FreshBlob, Unallocated
<1> HIDE DEF s
<1>3. blob'[b] = s /\ \A x \in Blobs \ {b} : blob'[x] = blob[x]
  BY <1>1, LedgerTypes
<1>4. \A d \in Clients : cli'[d] = cli[d] /\ cli[d].blob # b
  BY <1>1, NobodyOn DEF LedgerInv
<1>5. /\ RequestsInv' /\ ~Granted(b)'
      /\ \A x \in Blobs \ {b} : Granted(x)' <=> Granted(x)
  BY <1>3, <1>4, Bystanders
<1>6. Charged(b)' = 0
  BY <1>2, <1>3, <1>5 DEF Charged
<1>7. /\ MemShare(b) = 0 /\ MemShare(b)' = 0
      /\ DiskShare(b) = 0 /\ DiskShare(b)' = 0
  BY <1>1, <1>6, SharesNow, SharesNext
<1>8. mem_used \in Int /\ disk_used \in Int
  BY LedgerTypes
<1> QED
  BY <1>1, <1>3, <1>5, <1>7, <1>8 DEF Settles

\* Destroying a blob releases exactly what it was charged.
LEMMA UnrefDestroySettles ==
    ASSUME LedgerInv, NEW c \in Clients, UnrefDestroy(c), NEW b, b = cli[c].blob
    PROVE  Settles(b) /\ RequestsInv'
<1> DEFINE t == [blob[b] EXCEPT !.alloc_req = 0 - blob[b].alloc_size]
<1>1. /\ cli[c].pc = "destroy" /\ blobs' = blobs \ {b} /\ Charge(t)
      /\ blob' = [blob EXCEPT ![b] = FreshBlob]
      /\ cli' = [cli EXCEPT ![c] = IdleClient]
  BY DEF UnrefDestroy, Destroy, At
<1>2. b \in blobs /\ b \in Blobs /\ blob[b].holders = {} /\ blob[b] \in BlobType
  BY <1>1, LedgerTypes DEF LedgerInv, UseInv, RefsHeld
<1>3. /\ \A x \in Blobs \ {b} : blob'[x] = blob[x]
      /\ cli'[c].pc = "idle" /\ \A d \in Clients \ {c} : cli'[d] = cli[d]
  BY <1>1, <1>2, LedgerTypes DEF IdleClient
<1>4. ASSUME NEW d \in Clients, d # c
      PROVE  cli[d].blob # b \/ cli[d].pc \in Outside
  <2>1. CASE cli[d].pc \notin Outside
    <3>1. d \in blob[cli[d].blob].holders
      BY <2>1 DEF LedgerInv, UseInv, RefsHeld
    <3> QED
      BY <1>2, <3>1
  <2> QED
    BY <2>1
<1>5. \A d \in Clients : \/ cli'[d] = cli[d] /\ cli[d].blob # b
                         \/ cli[d].pc \in Outside /\ cli'[d].pc \in Outside
  BY <1>1, <1>3, <1>4 DEF Outside
<1>6. /\ RequestsInv' /\ ~Granted(b)
      /\ \A x \in Blobs \ {b} : Granted(x)' <=> Granted(x)
  BY <1>2, <1>3, <1>5, Bystanders
<1>7. blob[b].alloc_size \in Int /\ mem_used \in Int /\ disk_used \in Int
  BY <1>2, LedgerTypes
<1>8. /\ t \in BlobType /\ t.alloc_size = blob[b].alloc_size
      /\ t.alloc_req = 0 - blob[b].alloc_size /\ t.is_in_file = blob[b].is_in_file
  <2>1. 0 - blob[b].alloc_size \in Int
    BY <1>7
  <2> QED
    BY <1>2, <2>1 DEF BlobType
<1>9. Charged(b) = blob[b].alloc_size
  BY <1>6, <1>7 DEF Charged
<1>10. /\ MemShare(b) = IF blob[b].is_in_file THEN 0 ELSE blob[b].alloc_size
       /\ DiskShare(b) = IF blob[b].is_in_file THEN blob[b].alloc_size ELSE 0
  BY <1>2, <1>9, SharesNow
<1>11. MemShare(b)' = 0 /\ DiskShare(b)' = 0
  BY <1>1, <1>2, SharesNext
<1> HIDE DEF t
<1>12. blob[b].alloc_size + t.alloc_req = 0
  BY <1>7, <1>8
<1>13. /\ mem_used' = mem_used - (IF blob[b].is_in_file THEN 0 ELSE blob[b].alloc_size) + 0
       /\ disk_used' = disk_used - (IF blob[b].is_in_file THEN blob[b].alloc_size ELSE 0) + 0
  BY <1>1, <1>7, <1>8, <1>12, ChargeShares
<1> QED
  BY <1>1, <1>3, <1>6, <1>10, <1>11, <1>13 DEF Settles

\* A change of references.
LEMMA ShareSettles ==
    ASSUME LedgerInv, NEW c \in Clients, NEW b \in Blobs,
           (\E d \in Clients : z_blob_ref(c, d, b)) \/ z_blob_unref(c, b)
    PROVE  Settles(b) /\ RequestsInv'
<1>1. /\ UNCHANGED <<mem_used, disk_used, blobs>>
      /\ cli[c].pc = "idle"
  BY DEF z_blob_ref, z_blob_unref, MayCall, At
<1>2. PICK k, h : blob' = [blob EXCEPT ![b] = [blob[b] EXCEPT !.ref_cnt = k, !.holders = h]]
  BY DEF z_blob_ref, z_blob_unref
<1>3. /\ \A d \in Clients \ {c} : cli'[d] = cli[d]
      /\ cli'[c] = cli[c] \/ cli'[c].pc = "destroy"
  <2>1. cli \in [Clients -> ClientType] /\ cli[c] \in ClientType
    BY LedgerTypes
  <2> QED
    BY <2>1 DEF z_blob_ref, z_blob_unref, ClientType
<1>4. blob \in [Blobs -> BlobType] /\ blob[b] \in BlobType
  BY LedgerTypes
<1> DEFINE s == [blob[b] EXCEPT !.ref_cnt = k, !.holders = h]
<1>5. /\ s.alloc_size = blob[b].alloc_size /\ s.is_in_file = blob[b].is_in_file
      /\ s.alloc_req = blob[b].alloc_req /\ s.approved = blob[b].approved
      /\ s.replied = blob[b].replied /\ s.mtx_lock = blob[b].mtx_lock
  BY <1>4 DEF BlobType
<1>6. blob'[b] = s /\ \A x \in Blobs \ {b} : blob'[x] = blob[x]
  BY <1>2, <1>4
<1> HIDE DEF s
<1>7. \A x \in Blobs : /\ blob'[x].alloc_size = blob[x].alloc_size
                       /\ blob'[x].is_in_file = blob[x].is_in_file
                       /\ blob'[x].alloc_req = blob[x].alloc_req
                       /\ blob'[x].approved = blob[x].approved
                       /\ blob'[x].replied = blob[x].replied
                       /\ blob'[x].mtx_lock = blob[x].mtx_lock
  BY <1>5, <1>6
<1>8. \A d \in Clients : cli[d].pc \in Alone \/ cli'[d].pc \in Alone =>
                            cli'[d] = cli[d] /\ cli[d].blob \in Blobs
  <2>1. \A d \in Clients : cli[d].pc \in Alone => cli[d].pc \notin Outside
    BY DEF Alone, Outside
  <2>2. cli[c].pc \notin Alone /\ (cli'[c] = cli[c] \/ cli'[c].pc \notin Alone)
    BY <1>1, <1>3 DEF Alone
  <2> QED
    BY <1>3, <2>1, <2>2, InsideFacts DEF LedgerInv
<1>9. /\ "finish" \in Alone /\ "wait" \in Alone /\ "swapout" \in Alone
      /\ "file" \in Alone /\ \A w \in Requesting : w \in Alone
  BY DEF Alone, Requesting
<1>10. RequestsInv'
  <2>1. LockHeld' /\ NoFiles' /\ RequestSizes' /\ VerdictsGiven'
    BY <1>7, <1>8, <1>9
       DEF LedgerInv, RequestsInv, LockHeld, NoFiles, RequestSizes, VerdictsGiven
  <2> QED
    BY <2>1 DEF RequestsInv
<1>11. \A x \in Blobs : Granted(x)' <=> Granted(x)
  BY <1>7, <1>8, <1>9 DEF Granted
<1>12. Charged(b)' = Charged(b)
  BY <1>7, <1>11 DEF Charged
<1>13. MemShare(b)' = MemShare(b) /\ DiskShare(b)' = DiskShare(b)
  BY <1>1, <1>7, <1>12, SharesNow, SharesNext
<1>14. /\ MemShare(b) \in Int /\ DiskShare(b) \in Int
       /\ mem_used \in Int /\ disk_used \in Int
  BY LedgerTypes, SharesNow
<1> QED
  BY <1>1, <1>6, <1>10, <1>11, <1>13, <1>14 DEF Settles

-----------------------------------------------------------------------------
(* The management thread. *)

\* A step of it leaves the threads and the locks alone.
LEMMA ManagerRequests ==
    ASSUME LedgerInv, UNCHANGED <<cli, blobs>>,
           \A x \in Blobs : /\ blob'[x].mtx_lock = blob[x].mtx_lock
                            /\ blob'[x].alloc_size = blob[x].alloc_size
                            /\ blob'[x].alloc_req = blob[x].alloc_req
                            /\ blob'[x].approved => blob'[x].replied \/ blob[x].approved
                            /\ blob[x].replied => blob'[x].replied
    PROVE  RequestsInv'
<1>1. \A d \in Clients : cli[d].pc \in Alone => cli[d].blob \in Blobs
  <2>1. \A d \in Clients : cli[d].pc \in Alone => cli[d].pc \notin Outside
    BY DEF Alone, Outside
  <2> QED
    BY <2>1, InsideFacts DEF LedgerInv
<1>2. "wait" \in Alone /\ \A w \in Requesting : w \in Alone
  BY DEF Alone, Requesting
<1>3. LockHeld' /\ NoFiles'
  BY <1>1 DEF LedgerInv, RequestsInv, LockHeld, NoFiles
<1>4. RequestSizes'
  BY <1>1, <1>2 DEF LedgerInv, RequestsInv, RequestSizes
<1>5. VerdictsGiven'
  BY <1>1, <1>2 DEF LedgerInv, RequestsInv, VerdictsGiven
<1> QED
  BY <1>3, <1>4, <1>5 DEF RequestsInv

\* The management thread grants no request but the one it answers.
LEMMA ManagerOthers ==
    ASSUME UNCHANGED cli, NEW b \in Blobs, \A x \in Blobs \ {b} : blob'[x] = blob[x]
    PROVE  \A x \in Blobs \ {b} : Granted(x)' <=> Granted(x)
BY DEF Granted

\* A request that the management thread keeps has not been granted.
LEMMA PendingRequest ==
    ASSUME LedgerInv, NEW b \in Blobs, InHand(b) \/ Deferred(b)
    PROVE  /\ b \in blobs /\ ~Granted(b)
           /\ \E c \in Clients : cli[c].pc = "wait" /\ cli[c].blob = b
<1>1. Awaited(b)
  BY DEF LedgerInv, UseInv, KeptApart
<1>2. PICK c \in Clients : cli[c].pc = "wait" /\ cli[c].blob = b
  BY <1>1 DEF Awaited
<1>3. cli[c].pc \in Alone /\ cli[c].pc \notin Outside /\ LockHeld
  BY <1>2 DEF Alone, Outside, LedgerInv, RequestsInv
<1>4. b \in blobs
  BY <1>2, <1>3, InsideFacts DEF LedgerInv
<1>5. ~blob[b].approved
  BY <1>1, <1>2 DEF Awaited, LedgerInv, RequestsInv, VerdictsGiven
<1>6. ~Granted(b)
  BY <1>2, <1>3, <1>5, GrantedToSole
<1> QED
  BY <1>2, <1>4, <1>6

\* A late grant charges the request once, where the blob is then stored.
LEMMA GrantLateSettles ==
    ASSUME LedgerInv, NEW b \in Blobs, InHand(b) \/ Deferred(b), GrantLate(b),
           UNCHANGED <<cli, blobs>>
    PROVE  Settles(b) /\ RequestsInv'
<1>1. PICK s : s = blob[b]
  OBVIOUS
<1>2. PICK t : t = Stored(s)
  OBVIOUS
<1>3. b \in blobs /\ ~Granted(b)
  BY PendingRequest
<1>4. PICK c \in Clients : cli[c].pc = "wait" /\ cli[c].blob = b
  BY PendingRequest
<1>5. /\ blob \in [Blobs -> BlobType] /\ s \in BlobType
      /\ mem_used \in Int /\ disk_used \in Int
      /\ s.alloc_size \in Int
  BY <1>1, LedgerTypes
<1>6. /\ t \in BlobType /\ t.alloc_size = s.alloc_size /\ t.alloc_req = s.alloc_req
      /\ t.mtx_lock = s.mtx_lock /\ Charge(s)
  BY <1>1, <1>2, <1>5, StoredFacts, ChargeShares DEF GrantLate
<1>7. blob' = [blob EXCEPT ![b] = Answered(t, TRUE)]
  BY <1>1, <1>2 DEF GrantLate
<1>8. /\ Answered(t, TRUE).alloc_size = t.alloc_size
      /\ Answered(t, TRUE).alloc_req = t.alloc_req
      /\ Answered(t, TRUE).mtx_lock = t.mtx_lock
      /\ Answered(t, TRUE).is_in_file = t.is_in_file
      /\ Answered(t, TRUE).approved /\ Answered(t, TRUE).replied
  BY <1>6 DEF Answered, BlobType
<1>9. /\ blob'[b] = Answered(t, TRUE)
      /\ \A x \in Blobs \ {b} : blob'[x] = blob[x]
  BY <1>5, <1>7
<1>10. RequestsInv'
  BY <1>1, <1>6, <1>8, <1>9, ManagerRequests
<1>11. Granted(b)'
  BY <1>4, <1>8, <1>9 DEF Granted
<1>12. Charged(b) = s.alloc_size /\ Charged(b)' = s.alloc_size + s.alloc_req
  <2>1. Charged(b) = blob[b].alloc_size
    BY <1>1, <1>3, <1>5 DEF Charged
  <2>2. Charged(b)' = blob'[b].alloc_size + blob'[b].alloc_req
    BY <1>11 DEF Charged
  <2> QED
    BY <1>1, <1>6, <1>8, <1>9, <2>1, <2>2
<1>13. /\ MemShare(b) = IF s.is_in_file THEN 0 ELSE s.alloc_size
       /\ DiskShare(b) = IF s.is_in_file THEN s.alloc_size ELSE 0
  BY <1>1, <1>3, <1>12, SharesNow
<1>14. /\ MemShare(b)' = IF t.is_in_file THEN 0 ELSE s.alloc_size + s.alloc_req
       /\ DiskShare(b)' = IF t.is_in_file THEN s.alloc_size + s.alloc_req ELSE 0
  BY <1>3, <1>8, <1>9, <1>12, SharesNext
<1>15. /\ mem_used' = mem_used - (IF s.is_in_file THEN 0 ELSE s.alloc_size)
                 + (IF t.is_in_file THEN 0 ELSE s.alloc_size + s.alloc_req)
       /\ disk_used' = disk_used - (IF s.is_in_file THEN s.alloc_size ELSE 0)
                 + (IF t.is_in_file THEN s.alloc_size + s.alloc_req ELSE 0)
  BY <1>1, <1>2, <1>5, <1>6, ChargeShares
<1> QED
  BY <1>9, <1>10, <1>13, <1>14, <1>15, ManagerOthers DEF Settles

\* Deferring a request charges nothing.
LEMMA DenySettles ==
    ASSUME LedgerInv, NEW b \in Blobs, InHand(b) \/ Deferred(b),
           blob' = [blob EXCEPT ![b].approved = FALSE],
           UNCHANGED <<cli, blobs, mem_used, disk_used>>
    PROVE  Settles(b) /\ RequestsInv'
<1>1. blob \in [Blobs -> BlobType] /\ blob[b] \in BlobType
  BY LedgerTypes
<1>2. blob'[b] = [blob[b] EXCEPT !.approved = FALSE]
      /\ \A x \in Blobs \ {b} : blob'[x] = blob[x]
  BY <1>1
<1>3. /\ ~blob'[b].approved /\ blob'[b].alloc_size = blob[b].alloc_size
      /\ blob'[b].alloc_req = blob[b].alloc_req /\ blob'[b].replied = blob[b].replied
      /\ blob'[b].is_in_file = blob[b].is_in_file /\ blob'[b].mtx_lock = blob[b].mtx_lock
  BY <1>1, <1>2 DEF BlobType
<1>4. RequestsInv'
  BY <1>2, <1>3, ManagerRequests
<1>5. ~Granted(b)
  BY PendingRequest
<1>6. ~Granted(b)'
  BY <1>3, <1>5 DEF Granted
<1>7. Charged(b)' = Charged(b)
  BY <1>3, <1>5, <1>6 DEF Charged
<1>8. MemShare(b)' = MemShare(b) /\ DiskShare(b)' = DiskShare(b)
  BY <1>3, <1>7, SharesNow, SharesNext
<1>9. /\ MemShare(b) \in Int /\ DiskShare(b) \in Int
      /\ mem_used \in Int /\ disk_used \in Int
  BY LedgerTypes, SharesNow
<1> QED
  BY <1>2, <1>4, <1>8, <1>9, ManagerOthers DEF Settles

\* A swap-in moves the whole charge of a blob that no thread is resizing.
LEMMA MgrSwapInSettles ==
    ASSUME LedgerInv, NEW b \in Blobs, MgrSwapIn(b)
    PROVE  Settles(b) /\ RequestsInv'
<1> DEFINE s == [blob[b] EXCEPT !.is_in_file = FALSE, !.file_len = 0]
<1>1. /\ blob' = [blob EXCEPT ![b] = s] /\ UNCHANGED <<blobs, cli>>
      /\ b \in blobs /\ blob[b].mtx_lock = NoOne /\ blob[b].is_in_file
      /\ mem_used' = mem_used + blob[b].alloc_size
      /\ disk_used' = disk_used - blob[b].alloc_size
  BY DEF MgrSwapIn, SwapInCandidate
<1>2. /\ blob \in [Blobs -> BlobType] /\ blob[b] \in BlobType
      /\ blob[b].alloc_size \in Int /\ mem_used \in Int /\ disk_used \in Int
  BY LedgerTypes
<1>3. /\ s.alloc_size = blob[b].alloc_size /\ s.alloc_req = blob[b].alloc_req
      /\ s.approved = blob[b].approved /\ s.replied = blob[b].replied
      /\ s.mtx_lock = blob[b].mtx_lock /\ ~s.is_in_file
  BY <1>2 DEF BlobType
<1> HIDE DEF s
<1>4. blob'[b] = s /\ \A x \in Blobs \ {b} : blob'[x] = blob[x]
  BY <1>1, <1>2
<1>5. RequestsInv'
  BY <1>1, <1>3, <1>4, ManagerRequests
<1>6. \A d \in Clients : cli[d].pc \in {"wait", "finish"} => cli[d].blob # b
  BY <1>1, NamesAssumption
     DEF LedgerInv, RequestsInv, LockHeld, Alone, NoOne
<1>7. ~Granted(b) /\ ~Granted(b)'
  BY <1>1, <1>6 DEF Granted
<1>8. Charged(b) = blob[b].alloc_size /\ Charged(b)' = blob[b].alloc_size
  BY <1>2, <1>3, <1>4, <1>7 DEF Charged
<1>9. /\ MemShare(b) = 0 /\ DiskShare(b) = blob[b].alloc_size
      /\ MemShare(b)' = blob[b].alloc_size /\ DiskShare(b)' = 0
  BY <1>1, <1>3, <1>4, <1>8, SharesNow, SharesNext
<1> QED
  BY <1>1, <1>2, <1>4, <1>5, <1>9, ManagerOthers DEF Settles

\* A step that leaves the blobs and the threads alone.
LEMMA StillKeeps ==
    ASSUME LedgerInv, UNCHANGED <<mem_used, disk_used, blobs, blob, cli>>
    PROVE  Accounting' /\ IsFiniteSet(blobs') /\ RequestsInv'
<1>1. RequestsInv'
  BY ManagerRequests DEF LedgerInv
<1>2. Charges' = Charges /\ InMemory' = InMemory /\ OnDisk' = OnDisk
  BY DEF Charges, InMemory, OnDisk, Charged, Granted
<1>3. blobs \subseteq Blobs /\ IsFiniteSet(blobs) /\ Accounting
  BY LedgerTypes DEF LedgerInv
<1>4. mem_used = Total(Charges, InMemory) /\ disk_used = Total(Charges, OnDisk)
  BY <1>3, AccountingNow
<1>5. (mem_used = Total(Charges, InMemory) /\ disk_used = Total(Charges, OnDisk))'
  BY <1>2, <1>4
<1>6. (IsFiniteSet(blobs) /\ blobs \subseteq Blobs)'
  BY <1>3
<1> QED
  BY <1>1, <1>5, <1>6, AccountingNext

\* Every step of the management thread keeps the counters exact.
LEMMA ManagerLedger ==
    ASSUME LedgerInv, Manager
    PROVE  /\ RequestsInv'
           /\ \/ \E b \in Blobs : Settles(b)
              \/ Accounting' /\ IsFiniteSet(blobs')
<1>1. CASE MgrPop \/ MgrFreed \/ MgrScanDone \/ MgrSwapInDone
  <2>1. UNCHANGED <<mem_used, disk_used, blobs, blob, cli>>
    BY <1>1 DEF MgrPop, MgrFreed, MgrScanDone, MgrSwapInDone
  <2> QED
    BY <2>1, StillKeeps
<1>2. CASE MgrRequest
  <2>1. PICK b \in Blobs : b = mgr.item
    BY <1>2 DEF MgrRequest
  <2>2. InHand(b) /\ UNCHANGED <<cli, blobs>>
    BY <1>2, <2>1 DEF MgrRequest, MgrAt, InHand
  <2>3. CASE GrantLate(b)
    BY <2>2, <2>3, GrantLateSettles
  <2>4. CASE Defer(b) /\ UNCHANGED <<mem_used, disk_used>>
    BY <2>2, <2>4, DenySettles DEF Defer
  <2> QED
    BY <1>2, <2>1, <2>3, <2>4 DEF MgrRequest
<1>3. CASE MgrScan
  <2>1. /\ waiting_list \in Seq(Blobs) /\ Len(waiting_list) \in Nat
        /\ mgr.pos \in 1 .. Len(waiting_list)
    BY <1>3 DEF MgrScan, LedgerInv, UseInv, QuotaInv, TypeOK, ManagerType
  <2>2. PICK b \in Blobs : b = waiting_list[mgr.pos]
    BY <2>1
  <2>3. Deferred(b) /\ UNCHANGED <<cli, blobs>>
    BY <1>3, <2>1, <2>2 DEF MgrScan, Deferred
  <2>4. CASE GrantLate(b)
    BY <2>3, <2>4, GrantLateSettles
  <2>5. CASE /\ blob' = [blob EXCEPT ![b].approved = FALSE]
             /\ UNCHANGED <<mem_used, disk_used>>
    BY <2>3, <2>5, DenySettles
  <2> QED
    BY <1>3, <2>2, <2>4, <2>5 DEF MgrScan
<1>4. CASE \E b \in Blobs : MgrSwapIn(b)
  BY <1>4, MgrSwapInSettles
<1> QED
  BY <1>1, <1>2, <1>3, <1>4 DEF Manager

-----------------------------------------------------------------------------
(* The counters are exact. *)

\* Nothing is charged at first.
LEMMA LedgerInit == Init => LedgerInv
<1> SUFFICES ASSUME Init PROVE LedgerInv
  OBVIOUS
<1>1. UseInv
  BY UseInit
<1>2. /\ blobs = {} /\ mem_used = 0 /\ disk_used = 0
      /\ \A c \in Clients : cli[c].pc = "idle"
  BY DEF Init, IdleClient
<1>3. RequestsInv
  BY <1>2 DEF RequestsInv, LockHeld, NoFiles, RequestSizes, VerdictsGiven, Alone,
              Requesting
<1>4. IsFiniteSet(blobs) /\ blobs \subseteq Blobs
  BY <1>2, FS_EmptySet
<1>5. InMemory = {} /\ OnDisk = {}
  BY <1>2 DEF InMemory, OnDisk
<1>6. Total(Charges, {}) = 0
  BY FS_EmptySet, TotalNext
<1> QED
  BY <1>1, <1>2, <1>3, <1>4, <1>5, <1>6, AccountingNow DEF LedgerInv

\* A call that leaves the quota alone.
LEMMA PlainLedger ==
    ASSUME LedgerInv, NEW c \in Clients, NEW b \in Blobs, CallStep(c, b), Plain(c, b)
    PROVE  Settles(b) /\ RequestsInv'
<1>1. LockHeld'
  BY CallStepLockHeld DEF LedgerInv, RequestsInv
<1> QED
  BY <1>1, PlainKeeps DEF RequestsInv

\* Entering a call changes at most the share of its blob.
LEMMA CallsLedger ==
    ASSUME LedgerInv, "file" \notin Ops, InitialSizes \subseteq {0},
           NEW c \in Clients, Calls(c)
    PROVE  \E b \in Blobs : Settles(b) /\ RequestsInv'
<1>1. WriteSizes \subseteq Nat /\ TruncSizes \subseteq Nat /\ UseInv
  BY SizesAssumption DEF LedgerInv
<1>2. PICK b \in Blobs :
        \/ \E n \in InitialSizes : z_blob_new(c, b, n)
        \/ \E n \in TruncSizes : z_blob_truncate(c, b, n)
        \/ \E n \in WriteSizes : z_blob_add_copy(c, b, n)
        \/ \E n \in WriteSizes : z_blob_read_from_stream(c, b, n)
        \/ \E p \in WriteSizes : StreamSeek(c, b, p)
        \/ \E n \in WriteSizes : z_blob_get_copy(c, b, n)
        \/ z_blob_get_ptr(c, b)
        \/ z_blob_get_file(c, b)
        \/ \E st \in BOOLEAN : z_blob_storage_lock(c, b, st)
        \/ \E d \in Clients : z_blob_ref(c, d, b)
        \/ z_blob_unref(c, b)
  BY DEF Calls
<1>3. CASE \E n \in InitialSizes : z_blob_new(c, b, n)
  BY <1>3, NewSettles
<1>4. CASE \/ \E n \in TruncSizes : z_blob_truncate(c, b, n)
           \/ \E n \in WriteSizes : z_blob_add_copy(c, b, n)
           \/ \E n \in WriteSizes : z_blob_read_from_stream(c, b, n)
           \/ \E p \in WriteSizes : StreamSeek(c, b, p)
  <2>1. CallStep(c, b) /\ Plain(c, b)
    BY <1>1, <1>4, LockedCallsStep, LockedCallsSettle
  <2> QED
    BY <2>1, PlainLedger
<1>5. CASE \/ \E n \in WriteSizes : z_blob_get_copy(c, b, n)
           \/ z_blob_get_ptr(c, b)
           \/ \E st \in BOOLEAN : z_blob_storage_lock(c, b, st)
  <2>1. CallStep(c, b)
    BY <1>1, <1>5, GetCopyStep, GetPtrStep, StorageLockStep
  <2>2. Plain(c, b)
    BY <1>5, UnlockedCallsSettle
  <2> QED
    BY <2>1, <2>2, PlainLedger
<1>6. ~z_blob_get_file(c, b)
  BY DEF z_blob_get_file
<1>7. CASE (\E d \in Clients : z_blob_ref(c, d, b)) \/ z_blob_unref(c, b)
  BY <1>7, ShareSettles
<1> QED
  BY <1>2, <1>3, <1>4, <1>5, <1>6, <1>7

\* So does a step inside of a call, and giving a pointer back.
LEMMA InsideLedger ==
    ASSUME LedgerInv, NEW c \in Clients, Continues(c) \/ z_blob_free_ptr(c)
    PROVE  \E b \in Blobs : Settles(b) /\ RequestsInv'
<1>1. PICK b : b = cli[c].blob
  OBVIOUS
<1>2. UseInv /\ cli[c].pc # "swapout"
  BY DEF LedgerInv, RequestsInv, NoFiles
<1>3. cli[c].pc # "idle"
  BY DEF Continues, AllocCheck, AllocPush, AllocWoken, AllocFinish, StreamSeeked,
         CallBody, GetCopyLocked, GetPtrLocked, GetFileSwapOut, UnrefDestroy,
         z_blob_free_ptr, At
<1>4. b \in Blobs
  BY <1>1, <1>2, <1>3, LedgerTypes DEF UseInv, RefsHeld
<1>5. CASE AllocCheck(c) \/ AllocPush(c) \/ AllocWoken(c) \/ AllocFinish(c)
  BY <1>1, <1>4, <1>5, AllocCheckSettles, AllocPushSettles, AllocWokenSettles,
     AllocFinishSettles
<1>6. CASE \/ StreamSeeked(c) \/ CallBody(c) \/ GetCopyLocked(c) \/ GetPtrLocked(c)
           \/ z_blob_free_ptr(c)
  <2>1. CallStep(c, b)
    BY <1>1, <1>2, <1>6, StreamSeekedStep, CallBodyStep, GetCopyLockedStep,
       GetPtrLockedStep, FreePtrStep
  <2>2. Plain(c, b)
    BY <1>1, <1>6, InsideCallsSettle
  <2> QED
    BY <1>4, <2>1, <2>2, PlainLedger
<1>7. CASE UnrefDestroy(c)
  BY <1>1, <1>4, <1>7, UnrefDestroySettles
<1>8. ~GetFileSwapOut(c)
  BY <1>2 DEF GetFileSwapOut, At
<1> QED
  BY <1>5, <1>6, <1>7, <1>8 DEF Continues

\* LedgerInv is inductive.
LEMMA LedgerNext ==
    ASSUME "shutdown" \notin Ops, "file" \notin Ops, InitialSizes \subseteq {0}
    PROVE  LedgerInv /\ [Next]_vars => LedgerInv'
<1> SUFFICES ASSUME LedgerInv, [Next]_vars PROVE LedgerInv'
  OBVIOUS
<1>1. UseInv /\ UseInv'
  BY UseNext DEF LedgerInv
<1>2. TypeOK /\ TypeOK' /\ IsFiniteSet(blobs) /\ Accounting
  BY <1>1 DEF LedgerInv, UseInv, QuotaInv
<1>3. ASSUME NEW b \in Blobs, Settles(b) /\ RequestsInv' PROVE LedgerInv'
  BY <1>1, <1>2, <1>3, SettlesKeeps DEF LedgerInv
<1>4. ASSUME NEW c \in Clients, Calls(c) PROVE LedgerInv'
  BY <1>3, <1>4, CallsLedger
<1>5. ASSUME NEW c \in Clients, Continues(c) \/ z_blob_free_ptr(c) PROVE LedgerInv'
  BY <1>3, <1>5, InsideLedger
<1>6. \A c \in Clients : /\ ~z_blob_release_file(c) /\ ~GetFileFails(c)
                         /\ \A n \in WriteSizes : ~AppWritesFile(c, n)
  BY DEF LedgerInv, RequestsInv, NoFiles, z_blob_release_file, GetFileFails,
         AppWritesFile, At
<1>7. CASE Manager
  <2>1. RequestsInv'
    BY <1>7, ManagerLedger
  <2>2. CASE \E b \in Blobs : Settles(b)
    BY <1>3, <2>1, <2>2
  <2>3. CASE Accounting' /\ IsFiniteSet(blobs')
    BY <1>1, <2>1, <2>3 DEF LedgerInv
  <2> QED
    BY <1>7, <2>2, <2>3, ManagerLedger
<1>8. ~SysUnref /\ ~Teardown
  <2>1. sysd.pc = "up"
    BY <1>1 DEF UseInv, RefsHeld
  <2> QED
    BY <2>1 DEF SysUnref, Teardown, SysRefuse, SysRefused, SysUnrefBlob, SysGone, SysAt
<1>9. CASE UNCHANGED vars
  <2>1. UNCHANGED <<mem_used, disk_used, blobs, blob, cli>>
    BY <1>9 DEF vars
  <2> QED
    BY <1>1, <2>1, StillKeeps DEF LedgerInv
<1> QED
  BY <1>4, <1>5, <1>6, <1>7, <1>8, <1>9 DEF Next, Returns

\* While no thread destroys the system, no file is lent and blobs are created
\* empty, mem_used and disk_used are exactly what the blobs in memory and in
\* files were granted, whatever resizes, late grants, moves between memory and
\* file, and destructions interleave: nothing leaks, nothing is released twice.
THEOREM CountersExact ==
    ASSUME "shutdown" \notin Ops, "file" \notin Ops, InitialSizes \subseteq {0}
    PROVE  Spec => []Accounting
<1>1. LedgerInv => Accounting
  BY DEF LedgerInv
<1> QED
  BY <1>1, LedgerInit, LedgerNext, PTL DEF Spec
=============================================================================
