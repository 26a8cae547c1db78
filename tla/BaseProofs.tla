----------------------------- MODULE BaseProofs -----------------------------
(***************************************************************************)
(* Theorems about what all parts of the library use: the thread pool          *)
(* (ThreadPool), for any finite set of jobs and any limit, and the logging    *)
(* (Log), where threads that share the connection to syslogd close it once    *)
(* (Syslog) and the caches of the log specification never hide a change       *)
(* (LogSpec).                                                                *)
(***************************************************************************)
EXTENDS ThreadPool, Log, FiniteSetTheorems, SequenceTheorems, WellFoundedInduction, TLAPS

-----------------------------------------------------------------------------
(* The thread pool. *)

\* The inductive invariant of the counters.
CountInv ==
    /\ TypeOK
    /\ NumThreadsExact
    /\ num_threads <= max_threads
    /\ QueueOutlivesThreads

\* What a thread that is being created, runs, or is over has to do with jobs.
ThreadShape ==
    \A t \in Jobs :
        /\ thr[t].pc # "none" => t \in submitted
        /\ thr[t].pc \in {"creating", "failed"} => thr[t].job = t
        /\ thr[t].pc = "run" => thr[t].job \in submitted
        /\ thr[t].pc \in {"none", "pop", "exited"} => thr[t].job = NoJob

\* The inductive invariant of the places where jobs are kept.
PlaceInv ==
    /\ ThreadShape
    /\ Queued \subseteq submitted
    /\ done \subseteq submitted
    /\ JobsKeptOnce

PoolInv == CountInv /\ PlaceInv

\* The counted threads are finitely many, and how their number follows when
\* one of them comes or goes.
LEMMA CountedFinite == IsFiniteSet(Counted) /\ Cardinality(Counted) \in Nat
<1>1. Counted \in SUBSET Jobs
  BY DEF Counted
<1>2. IsFiniteSet(Counted)
  BY <1>1, PoolAssumption, FS_Subset
<1> QED
  BY <1>2, FS_CardinalityType

LEMMA CountedComes ==
    ASSUME NEW t, t \notin Counted, Counted' = Counted \cup {t}
    PROVE  Cardinality(Counted') = Cardinality(Counted) + 1
<1>1. Cardinality(Counted \cup {t}) = Cardinality(Counted) + 1
  BY CountedFinite, FS_AddElement
<1> QED
  BY <1>1

LEMMA CountedGoes ==
    ASSUME NEW t \in Counted, Counted' = Counted \ {t}
    PROVE  Cardinality(Counted') = Cardinality(Counted) - 1
<1>1. Cardinality(Counted \ {t}) = Cardinality(Counted) - 1
  BY CountedFinite, FS_RemoveElement
<1> QED
  BY <1>1

\* A thread that is still counted keeps the counters above zero.
LEMMA CountedPositive ==
    ASSUME CountInv, NEW t \in Counted
    PROVE  num_threads - 1 \in Nat /\ queue_refs - 1 \in Nat
<1>1. Cardinality(Counted) # 0
  BY CountedFinite, FS_EmptySet
<1> QED
  BY <1>1, CountedFinite
  DEF CountInv, TypeOK, NumThreadsExact, QueueOutlivesThreads

\* Replacing the state of one thread.
LEMMA SetThread ==
    ASSUME TypeOK, NEW t \in Jobs, NEW r \in ThreadType,
           thr' = [thr EXCEPT ![t] = r]
    PROVE  /\ thr' \in [Jobs -> ThreadType]
           /\ r.pc \in {"creating", "run", "pop"} => Counted' = Counted \cup {t}
           /\ r.pc \notin {"creating", "run", "pop"} => Counted' = Counted \ {t}
<1>1. thr \in [Jobs -> ThreadType]
  BY DEF TypeOK
<1>2. thr' \in [Jobs -> ThreadType]
  BY <1>1
<1>3. \A u \in Jobs : thr'[u] = IF u = t THEN r ELSE thr[u]
  BY <1>1
<1> QED
  BY <1>2, <1>3 DEF Counted

LEMMA PoolInitInv == ThreadInit => PoolInv
<1> SUFFICES ASSUME ThreadInit PROVE PoolInv
  OBVIOUS
<1>1. thr \in [Jobs -> ThreadType]
  <2>1. [pc |-> "none", job |-> NoJob] \in ThreadType
    BY DEF ThreadType
  <2> QED
    BY <2>1 DEF ThreadInit
<1>2. TypeOK
  <2>1. queue \in Seq(Jobs) /\ num_threads \in Nat /\ queue_refs \in Nat
    BY DEF ThreadInit
  <2>2. destroyed \in BOOLEAN /\ submitted \subseteq Jobs /\ done \subseteq Jobs
    BY Zenon DEF ThreadInit
  <2> QED
    BY <1>1, <2>1, <2>2 DEF TypeOK
<1>3. Counted = {} /\ Queued = {}
  BY DEF ThreadInit, Counted, Queued
<1>4. CountInv
  BY <1>2, <1>3, FS_EmptySet, PoolAssumption
  DEF ThreadInit, CountInv, NumThreadsExact, QueueOutlivesThreads
<1>5. PlaceInv
  BY <1>3 DEF ThreadInit, PlaceInv, ThreadShape, JobsKeptOnce
<1> QED
  BY <1>4, <1>5 DEF PoolInv

-----------------------------------------------------------------------------
(* Counting the threads. *)

\* z_thread_new counts the thread that it is about to create.
LEMMA NewCount ==
    ASSUME PoolInv, NEW j \in Jobs, z_thread_new(j)
    PROVE  CountInv'
<1>1. CountInv /\ TypeOK
  BY DEF PoolInv, CountInv
<1>2. CASE AtLimit /\ queue' = Append(queue, j)
           /\ UNCHANGED <<num_threads, queue_refs, thr>>
  <2>1. Counted' = Counted
    BY <1>2 DEF Counted
  <2>2. queue' \in Seq(Jobs)
    BY <1>1, <1>2 DEF TypeOK
  <2> QED
    BY <1>1, <1>2, <2>1, <2>2
    DEF CountInv, TypeOK, z_thread_new, NumThreadsExact, QueueOutlivesThreads
<1>3. CASE ~AtLimit /\ CountThread /\ UNCHANGED queue
           /\ thr' = [thr EXCEPT ![j] = [pc |-> "creating", job |-> j]]
  <2>1. [pc |-> "creating", job |-> j] \in ThreadType
    BY DEF ThreadType
  <2>2. thr' \in [Jobs -> ThreadType] /\ Counted' = Counted \cup {j}
    BY <1>1, <1>3, <2>1, SetThread
  <2>3. j \notin Counted
    BY DEF PoolInv, PlaceInv, ThreadShape, z_thread_new, Counted
  <2>4. Cardinality(Counted') = Cardinality(Counted) + 1
    BY <2>2, <2>3, CountedComes
  <2>5. TypeOK'
    BY <1>1, <1>3, <2>2 DEF TypeOK, z_thread_new, CountThread, ThreadType
  <2>6. num_threads' <= max_threads
    BY <1>1, <1>3, PoolAssumption DEF AtLimit, CountThread, TypeOK
  <2>7. NumThreadsExact'
    BY <1>1, <1>3, <2>4 DEF CountInv, CountThread, NumThreadsExact
  <2>8. QueueOutlivesThreads'
    BY <1>1, <1>3, <2>4, CountedFinite
    DEF CountInv, CountThread, QueueOutlivesThreads, z_thread_new, TypeOK
  <2> QED
    BY <2>5, <2>6, <2>7, <2>8 DEF CountInv
<1> QED
  BY <1>2, <1>3 DEF z_thread_new

\* A thread that goes on stays counted.
LEMMA StaysCount ==
    ASSUME CountInv, NEW t \in Counted, NEW r \in ThreadType,
           r.pc \in {"creating", "run", "pop"},
           thr' = [thr EXCEPT ![t] = r],
           queue' \in Seq(Jobs), done' \subseteq Jobs,
           UNCHANGED <<num_threads, queue_refs, submitted, destroyed>>
    PROVE  CountInv'
<1>1. t \in Jobs /\ TypeOK
  BY DEF Counted, CountInv
<1>2. thr' \in [Jobs -> ThreadType] /\ Counted' = Counted \cup {t}
  BY <1>1, SetThread
<1>3. Counted' = Counted
  BY <1>2
<1>4. TypeOK'
  BY <1>1, <1>2 DEF TypeOK
<1> QED
  BY <1>3, <1>4 DEF CountInv, NumThreadsExact, QueueOutlivesThreads

\* A thread that is over is not counted any more.
LEMMA GoneCount ==
    ASSUME CountInv, NEW t \in Counted, NEW r \in ThreadType,
           r.pc \in {"exited", "failed"},
           thr' = [thr EXCEPT ![t] = r],
           num_threads' = num_threads - 1,
           queue_refs' \in {queue_refs, queue_refs - 1},
           UNCHANGED <<queue, submitted, done, destroyed>>
    PROVE  CountInv'
<1>1. t \in Jobs /\ TypeOK
  BY DEF Counted, CountInv
<1>2. thr' \in [Jobs -> ThreadType] /\ Counted' = Counted \ {t}
  BY <1>1, SetThread
<1>3. Cardinality(Counted') = Cardinality(Counted) - 1
  BY <1>2, CountedGoes
<1>4. num_threads' \in Nat /\ queue_refs' \in Nat
  BY <1>1, CountedPositive DEF TypeOK
<1>5. TypeOK'
  BY <1>1, <1>2, <1>4 DEF TypeOK
<1>6. NumThreadsExact' /\ num_threads' <= max_threads
  BY <1>1, <1>3, PoolAssumption DEF CountInv, NumThreadsExact, TypeOK
<1>7. QueueOutlivesThreads'
  BY <1>1, <1>3, CountedFinite DEF CountInv, QueueOutlivesThreads, TypeOK
<1> QED
  BY <1>5, <1>6, <1>7 DEF CountInv

LEMMA ThreadCount ==
    ASSUME PoolInv, NEW t \in Jobs,
           Creation(t) \/ z_thread_func_core(t) \/ NextJob(t)
    PROVE  CountInv'
<1>1. CountInv /\ TypeOK /\ thr[t] \in ThreadType
  BY DEF PoolInv, CountInv, TypeOK
<1>2. t \in Counted
  BY DEF Creation, ThreadStarts, CreateFails, z_thread_func_core, NextJob, Counted
<1>3. CASE ThreadStarts(t)
  <2>1. [pc |-> "run", job |-> thr[t].job] \in ThreadType
    BY <1>1 DEF ThreadType
  <2> QED
    BY <1>1, <1>2, <1>3, <2>1, StaysCount DEF ThreadStarts, TypeOK
<1>4. CASE CreateFails(t)
  <2>1. [pc |-> "failed", job |-> thr[t].job] \in ThreadType
    BY <1>1 DEF ThreadType
  <2> QED
    BY <1>1, <1>2, <1>4, <2>1, GoneCount DEF CreateFails
<1>5. CASE z_thread_func_core(t)
  <2>1. [pc |-> "pop", job |-> NoJob] \in ThreadType
    BY DEF ThreadType
  <2>2. thr[t].job \in Jobs
    BY <1>1, <1>5 DEF PoolInv, PlaceInv, ThreadShape, z_thread_func_core, TypeOK
  <2> QED
    BY <1>1, <1>2, <1>5, <2>1, <2>2, StaysCount DEF z_thread_func_core, TypeOK
<1>6. CASE NextJob(t) /\ KeepsGoing
  <2>1. Head(queue) \in Jobs /\ Tail(queue) \in Seq(Jobs)
    BY <1>1, <1>6 DEF KeepsGoing, TypeOK
  <2>2. [pc |-> "run", job |-> Head(queue)] \in ThreadType
    BY <2>1 DEF ThreadType
  <2> QED
    BY <1>1, <1>2, <1>6, <2>1, <2>2, StaysCount DEF NextJob, Rest, TypeOK
<1>7. CASE NextJob(t) /\ ~KeepsGoing
  <2>1. [pc |-> "exited", job |-> NoJob] \in ThreadType
    BY DEF ThreadType
  <2> QED
    BY <1>1, <1>2, <1>7, <2>1, GoneCount DEF NextJob, Leave
<1> QED
  BY <1>3, <1>4, <1>5, <1>6, <1>7 DEF Creation

LEMMA DestroyCount ==
    ASSUME PoolInv, z_thread_destroy
    PROVE  CountInv'
<1>1. CountInv /\ Counted' = Counted
  BY DEF PoolInv, z_thread_destroy, Counted
<1> QED
  BY <1>1, CountedFinite
  DEF CountInv, TypeOK, NumThreadsExact, QueueOutlivesThreads, z_thread_destroy
-----------------------------------------------------------------------------
(* Where the jobs are kept. *)

LEMMA QueueGrows ==
    ASSUME queue \in Seq(Jobs), NEW j \in Jobs, queue' = Append(queue, j)
    PROVE  /\ Queued' = Queued \cup {j}
           /\ (/\ j \notin Queued
               /\ \A i, k \in 1 .. Len(queue) : queue[i] = queue[k] => i = k)
              => \A i, k \in 1 .. Len(queue') : queue'[i] = queue'[k] => i = k
<1>1. /\ Len(queue') = Len(queue) + 1
      /\ queue'[Len(queue) + 1] = j
      /\ \A i \in 1 .. Len(queue) : queue'[i] = queue[i]
  OBVIOUS
<1>2. Len(queue) \in Nat
  OBVIOUS
<1>3. Queued' = Queued \cup {j}
  BY <1>1, <1>2 DEF Queued
<1> QED
  BY <1>1, <1>2, <1>3 DEF Queued

LEMMA QueueShrinks ==
    ASSUME queue \in Seq(Jobs), queue # <<>>, queue' = Tail(queue),
           \A i, k \in 1 .. Len(queue) : queue[i] = queue[k] => i = k
    PROVE  /\ Head(queue) \in Queued
           /\ Queued' = Queued \ {Head(queue)}
           /\ \A i, k \in 1 .. Len(queue') : queue'[i] = queue'[k] => i = k
<1>1. /\ Len(queue) \in Nat \ {0}
      /\ Head(queue) = queue[1]
      /\ Len(queue') = Len(queue) - 1
      /\ \A i \in 1 .. Len(queue') : queue'[i] = queue[i + 1]
  OBVIOUS
<1>2. Head(queue) \in Queued
  BY <1>1 DEF Queued
<1>3. ASSUME NEW x \in Queued' PROVE x \in Queued \ {Head(queue)}
  <2>1. PICK i \in 1 .. Len(queue') : x = queue'[i]
    BY <1>3 DEF Queued
  <2>2. i + 1 \in 1 .. Len(queue) /\ i + 1 # 1 /\ x = queue[i + 1]
    BY <1>1, <2>1
  <2>3. 1 \in 1 .. Len(queue)
    BY <1>1
  <2> QED
    BY <1>1, <2>2, <2>3 DEF Queued
<1>4. ASSUME NEW x \in Queued, x # Head(queue) PROVE x \in Queued'
  <2>1. PICK i \in 1 .. Len(queue) : x = queue[i]
    BY <1>4 DEF Queued
  <2>2. i - 1 \in 1 .. Len(queue') /\ x = queue'[i - 1]
    BY <1>1, <1>4, <2>1
  <2> QED
    BY <2>2 DEF Queued
<1>5. ASSUME NEW i \in 1 .. Len(queue'), NEW k \in 1 .. Len(queue'),
             queue'[i] = queue'[k]
      PROVE  i = k
  <2>1. i + 1 \in 1 .. Len(queue) /\ k + 1 \in 1 .. Len(queue)
    BY <1>1
  <2>2. queue[i + 1] = queue[k + 1]
    BY <1>1, <1>5
  <2>3. i + 1 = k + 1
    BY <2>1, <2>2
  <2> QED
    BY <2>3, <1>1
<1> QED
  BY <1>2, <1>3, <1>4, <1>5

LEMMA NewPlace ==
    ASSUME PoolInv, NEW j \in Jobs, z_thread_new(j)
    PROVE  PlaceInv'
<1>1. TypeOK /\ PlaceInv /\ thr \in [Jobs -> ThreadType]
  BY DEF PoolInv, CountInv, TypeOK
<1>2. j \notin Queued /\ j \notin done /\ thr[j].pc = "none"
  BY <1>1 DEF PlaceInv, ThreadShape, z_thread_new
<1>3. \A t \in Jobs : thr[t].job # j
  BY <1>1, <1>2, PoolAssumption
  DEF PlaceInv, ThreadShape, z_thread_new, ThreadType, NoJob
<1>4. CASE AtLimit /\ queue' = Append(queue, j)
           /\ UNCHANGED <<num_threads, queue_refs, thr>>
  <2>1. Queued' = Queued \cup {j}
    BY <1>1, <1>4, QueueGrows DEF TypeOK
  <2>2. \A i, k \in 1 .. Len(queue') : queue'[i] = queue'[k] => i = k
    BY <1>1, <1>2, <1>4, QueueGrows DEF TypeOK, PlaceInv, JobsKeptOnce
  <2>3. ThreadShape'
    BY <1>1, <1>4 DEF PlaceInv, ThreadShape, z_thread_new
  <2> QED
    BY <1>1, <1>2, <1>3, <1>4, <2>1, <2>2, <2>3
    DEF PlaceInv, JobsKeptOnce, z_thread_new
<1>5. CASE ~AtLimit /\ CountThread /\ UNCHANGED queue
           /\ thr' = [thr EXCEPT ![j] = [pc |-> "creating", job |-> j]]
  <2>1. \A t \in Jobs : thr'[t] = IF t = j THEN [pc |-> "creating", job |-> j]
                                  ELSE thr[t]
    BY <1>1, <1>5
  <2>2. Queued' = Queued
    BY <1>5 DEF Queued
  <2>3. ThreadShape'
    BY <1>1, <2>1 DEF PlaceInv, ThreadShape, z_thread_new
  <2>4. JobsKeptOnce'
    BY <1>1, <1>2, <1>3, <1>5, <2>1, <2>2 DEF PlaceInv, JobsKeptOnce, z_thread_new
  <2> QED
    BY <1>1, <2>2, <2>3, <2>4 DEF PlaceInv, z_thread_new
<1> QED
  BY <1>4, <1>5 DEF z_thread_new

\* A thread changes what it does, the queue stays.
LEMMA ThreadPlace ==
    ASSUME PoolInv, NEW t \in Jobs,
           Creation(t) \/ z_thread_func_core(t) \/ NextJob(t)
    PROVE  PlaceInv'
<1>1. TypeOK /\ PlaceInv /\ thr \in [Jobs -> ThreadType]
  BY DEF PoolInv, CountInv, TypeOK
<1>2. \A u \in Jobs : u # t => thr'[u] = thr[u]
  BY <1>1
  DEF Creation, ThreadStarts, CreateFails, z_thread_func_core, NextJob
<1>3. submitted' = submitted /\ t \in submitted
  BY <1>1
  DEF Creation, ThreadStarts, CreateFails, z_thread_func_core, NextJob,
      PlaceInv, ThreadShape
<1>4. CASE Creation(t)
  <2>1. /\ thr'[t].job = t /\ thr[t].job = t
        /\ thr'[t].pc \in {"run", "failed"}
    BY <1>1, <1>4 DEF Creation, ThreadStarts, CreateFails, PlaceInv, ThreadShape
  <2>2. Queued' = Queued /\ UNCHANGED <<queue, done>>
    BY <1>4 DEF Creation, ThreadStarts, CreateFails, Queued
  <2>3. ThreadShape'
    BY <1>1, <1>2, <1>3, <2>1 DEF PlaceInv, ThreadShape
  <2>4. JobsKeptOnce'
    BY <1>1, <1>2, <2>1, <2>2 DEF PlaceInv, JobsKeptOnce
  <2> QED
    BY <1>1, <1>3, <2>2, <2>3, <2>4 DEF PlaceInv
<1>5. CASE z_thread_func_core(t)
  <2>1. /\ thr'[t].job = NoJob /\ thr'[t].pc = "pop"
        /\ thr[t].job \in submitted /\ thr[t].job # NoJob
    BY <1>1, <1>5, PoolAssumption
    DEF z_thread_func_core, PlaceInv, ThreadShape, NoJob, TypeOK
  <2>2. Queued' = Queued /\ queue' = queue /\ done' = done \cup {thr[t].job}
    BY <1>5 DEF z_thread_func_core, Queued
  <2>3. ThreadShape'
    BY <1>1, <1>2, <1>3, <2>1 DEF PlaceInv, ThreadShape
  <2>4. NoJob \notin Queued \cup done'
    BY <1>1, <2>1, <2>2, PoolAssumption DEF PlaceInv, NoJob, TypeOK
  <2>5. \A u \in Jobs : u # t => thr[u].job # thr[t].job
    BY <1>1, <2>1 DEF PlaceInv, JobsKeptOnce
  <2>6. JobsKeptOnce'
    BY <1>1, <1>2, <2>1, <2>2, <2>4, <2>5 DEF PlaceInv, JobsKeptOnce
  <2> QED
    BY <1>1, <1>3, <2>1, <2>2, <2>3, <2>6 DEF PlaceInv
<1>6. CASE NextJob(t) /\ KeepsGoing
  <2>1. queue # <<>> /\ queue' = Tail(queue) /\ done' = done
        /\ thr'[t] = [pc |-> "run", job |-> Head(queue)]
    BY <1>1, <1>6 DEF NextJob, KeepsGoing, Rest
  <2>2. /\ Head(queue) \in Queued
        /\ Queued' = Queued \ {Head(queue)}
        /\ \A i, k \in 1 .. Len(queue') : queue'[i] = queue'[k] => i = k
    BY <1>1, <2>1, QueueShrinks DEF TypeOK, PlaceInv, JobsKeptOnce
  <2>3. Head(queue) \in submitted /\ Head(queue) # NoJob
    BY <1>1, <2>2, PoolAssumption DEF PlaceInv, TypeOK, NoJob
  <2>4. ThreadShape'
    BY <1>1, <1>2, <1>3, <2>1, <2>3 DEF PlaceInv, ThreadShape
  <2>5. \A u \in Jobs : thr[u].job # Head(queue)
    BY <1>1, <2>2 DEF PlaceInv, JobsKeptOnce
  <2>6. JobsKeptOnce'
    BY <1>1, <1>2, <2>1, <2>2, <2>5 DEF PlaceInv, JobsKeptOnce
  <2> QED
    BY <1>1, <1>3, <2>1, <2>2, <2>4, <2>6 DEF PlaceInv
<1>7. CASE NextJob(t) /\ ~KeepsGoing
  <2>1. UNCHANGED <<queue, done>> /\ Queued' = Queued
        /\ thr'[t] = [pc |-> "exited", job |-> NoJob]
    BY <1>1, <1>7 DEF NextJob, Queued
  <2>2. ThreadShape'
    BY <1>1, <1>2, <1>3, <2>1 DEF PlaceInv, ThreadShape
  <2>3. NoJob \notin Queued \cup done
    BY <1>1, PoolAssumption DEF PlaceInv, NoJob, TypeOK
  <2>4. JobsKeptOnce'
    BY <1>1, <1>2, <2>1, <2>3 DEF PlaceInv, JobsKeptOnce
  <2> QED
    BY <1>1, <1>3, <2>1, <2>2, <2>4 DEF PlaceInv
<1> QED
  BY <1>4, <1>5, <1>6, <1>7

LEMMA PoolNextInv == PoolInv /\ [ThreadNext]_vars => PoolInv'
<1> SUFFICES ASSUME PoolInv, [ThreadNext]_vars PROVE PoolInv'
  OBVIOUS
<1>1. CASE \E j \in Jobs : z_thread_new(j)
  BY <1>1, NewCount, NewPlace DEF PoolInv
<1>2. CASE \E t \in Jobs : Creation(t) \/ z_thread_func_core(t) \/ NextJob(t)
  BY <1>2, ThreadCount, ThreadPlace DEF PoolInv
<1>3. CASE z_thread_destroy
  <2>1. PlaceInv'
    BY <1>3 DEF z_thread_destroy, PoolInv, PlaceInv, ThreadShape, JobsKeptOnce, Queued
  <2> QED
    BY <1>3, <2>1, DestroyCount DEF PoolInv
<1>4. CASE UNCHANGED vars
  BY <1>4
  DEF vars, PoolInv, CountInv, PlaceInv, ThreadShape, JobsKeptOnce, Queued, Counted,
      TypeOK, NumThreadsExact, QueueOutlivesThreads
<1> QED
  BY <1>1, <1>2, <1>3, <1>4 DEF ThreadNext

LEMMA PoolInvariant == ThreadSpec => []PoolInv
BY PoolInitInv, PoolNextInv, PTL DEF ThreadSpec

-----------------------------------------------------------------------------
(* The theorems. *)

\* The counters of z_thread_new and z_thread_func never drop below zero.
THEOREM TypeCorrect == ThreadSpec => []TypeOK
<1>1. PoolInv => TypeOK
  BY DEF PoolInv, CountInv
<1> QED
  BY <1>1, PoolInvariant, PTL

\* Never more than max_threads threads exist or are being created, whatever
\* creations fail and in whatever order threads are started and end.
THEOREM LimitHolds == ThreadSpec => []ThreadLimit
<1>1. PoolInv => ThreadLimit
  BY DEF PoolInv, CountInv, NumThreadsExact, ThreadLimit
<1> QED
  BY <1>1, PoolInvariant, PTL

\* num_threads counts exactly the threads that exist or are being created.
THEOREM CountExact == ThreadSpec => []NumThreadsExact
<1>1. PoolInv => NumThreadsExact
  BY DEF PoolInv, CountInv
<1> QED
  BY <1>1, PoolInvariant, PTL

\* No thread looks into a queue that has been freed.
THEOREM QueueSafe == ThreadSpec => []QueueOutlivesThreads
<1>1. PoolInv => QueueOutlivesThreads
  BY DEF PoolInv, CountInv
<1> QED
  BY <1>1, PoolInvariant, PTL

\* No job is lost to two threads, run twice or run while it is still queued.
THEOREM KeptOnce == ThreadSpec => []JobsKeptOnce
<1>1. PoolInv => JobsKeptOnce
  BY DEF PoolInv, PlaceInv
<1> QED
  BY <1>1, PoolInvariant, PTL

-----------------------------------------------------------------------------
(* The refinement. *)

\* As long as some thread is still being created, a slot is free.
LEMMA SlotFree ==
    ASSUME PoolInv, NEW t \in Jobs, thr[t].pc \in {"creating", "pop"}
    PROVE  Cardinality(Running) < max_threads
<1> DEFINE R == {u \in Jobs : thr[u].pc = "run"}
           f == [u \in R |-> thr[u].job]
<1>1. R \in SUBSET (Counted \ {t})
  BY DEF Counted
<1>2. t \in Counted
  BY DEF Counted
<1>3. /\ IsFiniteSet(Counted \ {t})
      /\ Cardinality(Counted \ {t}) = Cardinality(Counted) - 1
  BY <1>2, CountedFinite, FS_RemoveElement
<1>4. IsFiniteSet(R) /\ Cardinality(R) <= Cardinality(Counted) - 1
  BY <1>1, <1>3, FS_Subset
<1>5. f \in Surjection(R, Running)
  BY DEF Surjection, Running
<1>6. IsFiniteSet(Running) /\ Cardinality(Running) <= Cardinality(R)
  BY <1>4, <1>5, FS_Surjection
<1>7. Cardinality(Running) \in Nat /\ Cardinality(R) \in Nat
  BY <1>4, <1>6, FS_CardinalityType
<1>8. Cardinality(Counted) <= max_threads
  BY DEF PoolInv, CountInv, NumThreadsExact
<1> QED
  BY <1>4, <1>6, <1>7, <1>8, CountedFinite, PoolAssumption

\* The instance of the abstract module counts the way this module does.
LEMMA SameCardinality ==
    ASSUME NEW S
    PROVE  Pool!Cardinality(S) = Cardinality(S)
BY DEF Pool!Cardinality, Cardinality

LEMMA NewSubmits ==
    ASSUME PoolInv, NEW j \in Jobs, z_thread_new(j)
    PROVE  Pool!Submit(j)
<1>1. TypeOK /\ PlaceInv /\ thr \in [Jobs -> ThreadType]
  BY DEF PoolInv, CountInv, TypeOK
<1>2. j \notin Waiting \cup done \cup Refused
  BY <1>1 DEF PlaceInv, ThreadShape, z_thread_new, Waiting, Refused
<1>3. j \notin Running
  BY <1>1 DEF PlaceInv, ThreadShape, z_thread_new, Running
<1>4. CASE AtLimit /\ queue' = Append(queue, j)
           /\ UNCHANGED <<num_threads, queue_refs, thr>>
  <2>1. Queued' = Queued \cup {j}
    BY <1>1, <1>4, QueueGrows DEF TypeOK
  <2>2. Waiting' = Waiting \cup {j} /\ Running' = Running /\ Refused' = Refused
    BY <1>4, <2>1 DEF Waiting, Running, Refused
  <2> QED
    BY <1>2, <1>3, <2>2 DEF Pool!Submit, z_thread_new
<1>5. CASE ~AtLimit /\ CountThread /\ UNCHANGED queue
           /\ thr' = [thr EXCEPT ![j] = [pc |-> "creating", job |-> j]]
  <2>1. \A t \in Jobs : thr'[t] = IF t = j THEN [pc |-> "creating", job |-> j]
                                  ELSE thr[t]
    BY <1>1, <1>5
  <2>2. thr[j].pc = "none"
    BY <1>1 DEF PlaceInv, ThreadShape, z_thread_new
  <2>3. Queued' = Queued
    BY <1>5 DEF Queued
  <2>4. Waiting' = Waiting \cup {j} /\ Refused' = Refused
    BY <2>1, <2>2, <2>3 DEF Waiting, Refused
  <2>5. Running' = Running
    BY <2>1, <2>2 DEF Running
  <2> QED
    BY <1>2, <1>3, <2>4, <2>5 DEF Pool!Submit, z_thread_new
<1> QED
  BY <1>4, <1>5 DEF z_thread_new

LEMMA ThreadRefines ==
    ASSUME PoolInv, NEW t \in Jobs,
           Creation(t) \/ z_thread_func_core(t) \/ NextJob(t)
    PROVE  Pool!PoolNext \/ UNCHANGED Pool!pool
<1>1. TypeOK /\ PlaceInv /\ thr \in [Jobs -> ThreadType]
  BY DEF PoolInv, CountInv, TypeOK
<1>2. \A u \in Jobs : u # t => thr'[u] = thr[u]
  BY <1>1
  DEF Creation, ThreadStarts, CreateFails, z_thread_func_core, NextJob
<1>3. CASE ThreadStarts(t)
  <2>1. /\ thr[t].pc = "creating" /\ thr[t].job = t
        /\ thr'[t] = [pc |-> "run", job |-> t]
        /\ Queued' = Queued /\ done' = done /\ t \notin Queued
    BY <1>1, <1>3
    DEF ThreadStarts, PlaceInv, ThreadShape, JobsKeptOnce, Queued
  <2>2. t \in Waiting /\ Waiting' = Waiting \ {t} /\ Refused' = Refused
    BY <1>2, <2>1 DEF Waiting, Refused
  <2>3. Running' = Running \cup {t}
    BY <1>2, <2>1 DEF Running
  <2>4. Cardinality(Running) < max_threads
    BY <2>1, SlotFree
  <2>5. Pool!Start(t)
    BY <2>1, <2>2, <2>3, <2>4, SameCardinality DEF Pool!Start
  <2> QED
    BY <2>5 DEF Pool!PoolNext
<1>4. CASE CreateFails(t)
  <2>1. /\ thr[t].pc = "creating" /\ thr[t].job = t
        /\ thr'[t] = [pc |-> "failed", job |-> t]
        /\ Queued' = Queued /\ done' = done /\ t \notin Queued
    BY <1>1, <1>4
    DEF CreateFails, PlaceInv, ThreadShape, JobsKeptOnce, Queued
  <2>2. /\ t \in Waiting /\ Waiting' = Waiting \ {t}
        /\ Refused' = Refused \cup {t}
    BY <1>2, <2>1 DEF Waiting, Refused
  <2>3. Running' = Running
    BY <1>2, <2>1 DEF Running
  <2>4. Pool!Refuse(t)
    BY <2>1, <2>2, <2>3 DEF Pool!Refuse
  <2> QED
    BY <2>4 DEF Pool!PoolNext
<1>5. CASE z_thread_func_core(t)
  <2> DEFINE j == thr[t].job
  <2>1. /\ thr[t].pc = "run" /\ j \in Jobs /\ j # NoJob
        /\ thr'[t] = [pc |-> "pop", job |-> NoJob]
        /\ Queued' = Queued /\ done' = done \cup {j}
    BY <1>1, <1>5, PoolAssumption
    DEF z_thread_func_core, PlaceInv, ThreadShape, Queued, TypeOK, NoJob
  <2>2. Waiting' = Waiting /\ Refused' = Refused
    BY <1>2, <2>1 DEF Waiting, Refused
  <2>3. \A u \in Jobs : u # t => thr[u].job # j
    BY <1>1, <2>1 DEF PlaceInv, JobsKeptOnce
  <2>4. j \in Running /\ Running' = Running \ {j}
    BY <1>2, <2>1, <2>3 DEF Running
  <2>5. Pool!Complete(j)
    BY <2>1, <2>2, <2>4 DEF Pool!Complete
  <2> QED
    BY <2>1, <2>5 DEF Pool!PoolNext
<1>6. CASE NextJob(t) /\ KeepsGoing
  <2> DEFINE j == Head(queue)
  <2>1. /\ thr[t].pc = "pop" /\ thr'[t] = [pc |-> "run", job |-> j]
        /\ queue # <<>> /\ queue' = Tail(queue) /\ done' = done
    BY <1>1, <1>6 DEF NextJob, KeepsGoing, Rest
  <2>2. j \in Queued /\ Queued' = Queued \ {j}
    BY <1>1, <2>1, QueueShrinks DEF TypeOK, PlaceInv, JobsKeptOnce
  <2>3. j \in Jobs /\ thr[j].pc # "creating"
    BY <1>1, <2>2 DEF PlaceInv, ThreadShape, JobsKeptOnce, TypeOK
  <2>4. j \in Waiting /\ Waiting' = Waiting \ {j} /\ Refused' = Refused
    BY <1>2, <2>1, <2>2, <2>3 DEF Waiting, Refused
  <2>5. Running' = Running \cup {j}
    BY <1>2, <2>1 DEF Running
  <2>6. Cardinality(Running) < max_threads
    BY <2>1, SlotFree
  <2>7. Pool!Start(j)
    BY <2>1, <2>4, <2>5, <2>6, SameCardinality DEF Pool!Start
  <2> QED
    BY <2>3, <2>7 DEF Pool!PoolNext
<1>7. CASE NextJob(t) /\ ~KeepsGoing
  <2>1. /\ thr[t].pc = "pop" /\ thr'[t] = [pc |-> "exited", job |-> NoJob]
        /\ UNCHANGED <<queue, done>>
    BY <1>1, <1>7 DEF NextJob
  <2>2. Waiting' = Waiting /\ Refused' = Refused
    BY <1>2, <2>1 DEF Waiting, Refused, Queued
  <2>3. Running' = Running
    BY <1>2, <2>1 DEF Running
  <2> QED
    BY <2>1, <2>2, <2>3 DEF Pool!pool
<1> QED
  BY <1>3, <1>4, <1>5, <1>6, <1>7 DEF Creation

\* Every behaviour of the threads and their queue is a behaviour of a pool of
\* max_threads slots that runs every job at most once.
THEOREM Refinement == ThreadSpec => ImplementsPool
<1>1. ThreadInit => Pool!PoolInit
  <2> SUFFICES ASSUME ThreadInit PROVE Pool!PoolInit
    OBVIOUS
  <2>1. Waiting = {} /\ Refused = {}
    BY DEF ThreadInit, Waiting, Queued, Refused
  <2>2. Running = {}
    BY DEF ThreadInit, Running
  <2> QED
    BY <2>1, <2>2 DEF ThreadInit, Pool!PoolInit
<1>2. PoolInv /\ [ThreadNext]_vars => [Pool!PoolNext]_(Pool!pool)
  <2> SUFFICES ASSUME PoolInv, [ThreadNext]_vars
               PROVE  Pool!PoolNext \/ UNCHANGED Pool!pool
    OBVIOUS
  <2>1. CASE \E j \in Jobs : z_thread_new(j)
    BY <2>1, NewSubmits DEF Pool!PoolNext
  <2>2. CASE \E t \in Jobs : Creation(t) \/ z_thread_func_core(t) \/ NextJob(t)
    BY <2>2, ThreadRefines
  <2>3. CASE z_thread_destroy
    BY <2>3 DEF z_thread_destroy, Pool!pool, Waiting, Queued, Running, Refused
  <2>4. CASE UNCHANGED vars
    BY <2>4 DEF vars, Pool!pool, Waiting, Queued, Running, Refused
  <2> QED
    BY <2>1, <2>2, <2>3, <2>4 DEF ThreadNext
<1> QED
  BY <1>1, <1>2, PoolInvariant, PTL DEF ThreadSpec, ImplementsPool, Pool!PoolSpec

-----------------------------------------------------------------------------
(* The logging. *)

\* The operators of the two modules that take the least element of a set of
\* numbers find it.
LEMMA MinOfNats ==
    ASSUME NEW S, S \subseteq Nat, S # {}
    PROVE  Min(S) \in S /\ \A y \in S : Min(S) <= y
<1> DEFINE R == {p \in Nat \X Nat : p[1] < p[2]}
<1>1. IsWellFoundedOn(R, Nat)
  BY NatLessThanWellFounded, Zenon DEF OpToRel
<1>2. \A y, x \in Nat : y < x => <<y, x>> \in R
  OBVIOUS
<1> HIDE DEF R
<1>3. PICK x \in S : \A y \in S : ~ (<<y, x>> \in R)
  BY <1>1, WFMin
<1>4. \A y \in S : ~ (y < x)
  BY <1>2, <1>3, Zenon
<1>5. \A y \in S : x <= y
  BY <1>4
<1> QED
  BY <1>5 DEF Min

-----------------------------------------------------------------------------
(* Syslog. *)

Used == {fd \in DOMAIN fds : fds[fd] # "free"}

Fd == -1 .. MaxFd

SyslogTypeOK ==
    /\ fds \in [0 .. MaxFd -> {"free", "idle", "connected", "broken"}]
    /\ syslog_fd \in Fd
    /\ send \in [Senders -> [at : {"idle", "write", "lock", "socket", "connect", "close", "unlock"},
                             sfd : Fd, attempt : {0, 1, 2}, rc : {0, -1}]]
    /\ reopener \subseteq Senders

\* The lock: who holds it is between Locks and Unlocks.
LockHeld ==
    /\ \A t \in Senders : t \in reopener <=> send[t].at \in {"socket", "connect", "close", "unlock"}
    /\ \A t, u \in reopener : t = u

\* What the holder of the lock knows of the descriptors in use.
HolderKnows(t) ==
    /\ send[t].at = "socket" => send[t].sfd = syslog_fd
    /\ send[t].at \in {"socket", "unlock"} => Used = {syslog_fd} \ {-1}
    /\ send[t].at \in {"connect", "close"} => Used = {send[t].sfd, syslog_fd} \ {-1}
    /\ send[t].at = "connect" => syslog_fd # -1
    /\ send[t].at \in {"connect", "close"} => send[t].sfd # syslog_fd \/ send[t].sfd = -1

SyslogInv ==
    /\ SyslogTypeOK
    /\ LockHeld
    /\ double = FALSE
    /\ reopener = {} => Used = {syslog_fd} \ {-1}
    /\ \A t \in Senders : HolderKnows(t)

LEMMA SyslogInitInv == SyslogInit => SyslogInv
<1> SUFFICES ASSUME SyslogInit PROVE SyslogInv
  OBVIOUS
<1>1. SyslogTypeOK
  BY FdAssumption DEF SyslogInit, SyslogTypeOK, NoSend, Fd
<1>2. Used = {0}
  BY FdAssumption DEF SyslogInit, Used
<1>3. \A t \in Senders : send[t].at = "idle"
  BY DEF SyslogInit, NoSend
<1> QED
  BY <1>1, <1>2, <1>3 DEF SyslogInit, SyslogInv, LockHeld, HolderKnows

\* A free descriptor is found while the only one in use is syslog_fd.
LEMMA FreeFdIsFree ==
    ASSUME SyslogTypeOK, Used \subseteq {syslog_fd}
    PROVE  FreeFd \in 0 .. MaxFd /\ fds[FreeFd] = "free"
<1> DEFINE S == {fd \in DOMAIN fds : fds[fd] = "free"}
<1>1. S \subseteq Nat /\ DOMAIN fds = 0 .. MaxFd
  BY FdAssumption DEF SyslogTypeOK
<1>2. S # {}
  BY FdAssumption DEF SyslogTypeOK, Used
<1>3. FreeFd \in S
  BY <1>1, <1>2, MinOfNats DEF FreeFd
<1> QED
  BY <1>1, <1>3

\* A step of a thread that does not touch what the descriptors and the lock say.
LEMMA SendMoves ==
    ASSUME SyslogInv, NEW t \in Senders,
           NEW s \in [at : {"idle", "write", "lock"}, sfd : Fd, attempt : {0, 1, 2}, rc : {0, -1}],
           send[t].at \in {"idle", "write", "lock"},
           Sends(t, s), UNCHANGED <<fds, syslog_fd, reopener, double>>
    PROVE  SyslogInv'
<1>1. /\ send' \in [Senders -> [at : {"idle", "write", "lock", "socket", "connect", "close", "unlock"},
                             sfd : Fd, attempt : {0, 1, 2}, rc : {0, -1}]]
      /\ send'[t] = s
      /\ \A u \in Senders \ {t} : send'[u] = send[u]
  BY DEF SyslogInv, SyslogTypeOK, Sends
<1>2. SyslogTypeOK' /\ double' = FALSE
  BY <1>1 DEF SyslogInv, SyslogTypeOK
<1>3. LockHeld'
  BY <1>1 DEF SyslogInv, LockHeld
<1>4. Used' = Used
  BY DEF Used
<1>5. \A u \in Senders : HolderKnows(u)'
  BY <1>1, <1>4 DEF SyslogInv, HolderKnows
<1> QED
  BY <1>2, <1>3, <1>4, <1>5 DEF SyslogInv

\* A step of the holder of the lock: only what it knows has to be shown again.
LEMMA HolderMoves ==
    ASSUME SyslogInv, NEW t \in Senders, send[t].at \in {"socket", "connect", "close", "unlock"},
           NEW s \in [at : {"socket", "connect", "close", "unlock"}, sfd : Fd, attempt : {0, 1, 2}, rc : {0, -1}],
           Sends(t, s), UNCHANGED reopener,
           fds' \in [0 .. MaxFd -> {"free", "idle", "connected", "broken"}],
           syslog_fd' \in Fd, double' = FALSE, HolderKnows(t)'
    PROVE  SyslogInv'
<1>1. /\ send' \in [Senders -> [at : {"idle", "write", "lock", "socket", "connect", "close", "unlock"},
                             sfd : Fd, attempt : {0, 1, 2}, rc : {0, -1}]]
      /\ send'[t] = s
      /\ \A u \in Senders \ {t} : send'[u] = send[u]
  BY DEF SyslogInv, SyslogTypeOK, Sends
<1>2. SyslogTypeOK'
  BY <1>1 DEF SyslogInv, SyslogTypeOK
<1>3. LockHeld' /\ t \in reopener
  BY <1>1 DEF SyslogInv, LockHeld
<1>4. \A u \in Senders \ {t} : send[u].at \notin {"socket", "connect", "close", "unlock"}
  BY <1>3 DEF SyslogInv, LockHeld
<1>5. \A u \in Senders : HolderKnows(u)'
  BY <1>1, <1>4 DEF HolderKnows
<1> QED
  BY <1>2, <1>3, <1>5 DEF SyslogInv

LEMMA SendingInv ==
    ASSUME SyslogInv, NEW t \in Senders, Sending(t)
    PROVE  SyslogInv'
<1> DEFINE Send == [at : {"idle", "write", "lock", "socket", "connect", "close", "unlock"},
                    sfd : Fd, attempt : {0, 1, 2}, rc : {0, -1}]
           Idle == [at : {"idle", "write", "lock"}, sfd : Fd, attempt : {0, 1, 2}, rc : {0, -1}]
           Held == [at : {"socket", "connect", "close", "unlock"}, sfd : Fd, attempt : {0, 1, 2}, rc : {0, -1}]
<1>0. /\ send[t] \in Send
      /\ send[t].sfd \in Fd /\ syslog_fd \in Fd
      /\ fds \in [0 .. MaxFd -> {"free", "idle", "connected", "broken"}]
      /\ HolderKnows(t)
      /\ double = FALSE
  BY DEF SyslogInv, SyslogTypeOK
<1>1. NoSend \in Idle
  BY FdAssumption DEF NoSend, Fd
<1>2. CASE z_send_syslog(t)
  <2>1. [at |-> "write", sfd |-> syslog_fd, attempt |-> 1, rc |-> 0] \in Idle
    BY <1>0
  <2> QED
    BY <1>2, <2>1, SendMoves DEF z_send_syslog
<1>3. CASE Writes(t)
  <2>1. /\ [send[t] EXCEPT !.at = "lock"] \in Idle
        /\ [send[t] EXCEPT !.at = "lock", !.rc = -1] \in Idle
    BY <1>0
  <2> QED
    BY <1>1, <1>3, <2>1, SendMoves DEF Writes
<1>4. CASE WriteAgain(t)
  <2>1. send[t].at = "write" => [send[t] EXCEPT !.attempt = 2, !.rc = -1] \in Idle
    BY <1>0
  <2> QED
    BY <1>1, <1>4, <2>1, SendMoves DEF WriteAgain
<1>5. CASE Locks(t)
  <2> DEFINE at == IF Stale(t) THEN "socket" ELSE "unlock"
             s == [send[t] EXCEPT !.at = at]
  <2>1. /\ s \in Send /\ s.at \in {"socket", "unlock"} /\ s.sfd = send[t].sfd
        /\ s.at = "socket" => send[t].sfd = syslog_fd
    BY <1>0 DEF Stale
  <2>2. /\ send' \in [Senders -> Send]
        /\ send'[t] = s
        /\ \A u \in Senders \ {t} : send'[u] = send[u]
    BY <1>5, <2>1 DEF SyslogInv, SyslogTypeOK, Sends, Locks
  <2> HIDE DEF s
  <2>3. /\ reopener = {} /\ reopener' = {t} /\ UNCHANGED <<fds, syslog_fd, double>>
    BY <1>5 DEF Locks
  <2>4. Used' = Used /\ Used = {syslog_fd} \ {-1}
    BY <2>3 DEF Used, SyslogInv
  <2>5. \A u \in Senders : send[u].at \notin {"socket", "connect", "close", "unlock"}
    BY <2>3 DEF SyslogInv, LockHeld
  <2>6. \A u \in Senders : HolderKnows(u)'
    BY <2>1, <2>2, <2>3, <2>4, <2>5 DEF HolderKnows
  <2>7. LockHeld'
    BY <2>1, <2>2, <2>3, <2>5 DEF LockHeld
  <2>8. SyslogTypeOK'
    BY <2>2, <2>3 DEF SyslogInv, SyslogTypeOK
  <2> QED
    BY <2>3, <2>4, <2>6, <2>7, <2>8 DEF SyslogInv
<1>6. CASE z_open_syslog(t)
  <2>1. Used = {syslog_fd} \ {-1} /\ send[t].sfd = syslog_fd
    BY <1>0, <1>6 DEF z_open_syslog, HolderKnows
  <2>2. FreeFd \in 0 .. MaxFd /\ fds[FreeFd] = "free"
    BY <2>1, FreeFdIsFree DEF SyslogInv
  <2>3. /\ [send[t] EXCEPT !.at = "connect"] \in Held
        /\ send'[t] = [send[t] EXCEPT !.at = "connect"]
    BY <1>0, <1>6 DEF z_open_syslog, Sends, SyslogInv, SyslogTypeOK
  <2>4. /\ fds' \in [0 .. MaxFd -> {"free", "idle", "connected", "broken"}]
        /\ syslog_fd' = FreeFd
        /\ Used' = Used \cup {FreeFd}
    BY <1>0, <1>6, <2>2 DEF z_open_syslog, Used
  <2>5. FreeFd \notin Used
    BY <2>2 DEF Used
  <2>6. FreeFd \in Fd /\ FreeFd # -1
    BY <2>2, FdAssumption DEF Fd
  <2>7. HolderKnows(t)'
    BY <1>0, <2>1, <2>3, <2>4, <2>5, <2>6 DEF HolderKnows
  <2> QED
    BY <1>0, <1>6, <2>3, <2>4, <2>6, <2>7, HolderMoves DEF z_open_syslog
<1>7. CASE Connects(t)
  <2>1. /\ Used = {send[t].sfd, syslog_fd} \ {-1}
        /\ syslog_fd # -1
        /\ send[t].sfd # syslog_fd \/ send[t].sfd = -1
    BY <1>0, <1>7 DEF Connects, HolderKnows
  <2>2. syslog_fd \in 0 .. MaxFd
    BY <1>0, <2>1, FdAssumption DEF Fd
  <2>3. /\ [send[t] EXCEPT !.at = "close"] \in Held
        /\ send'[t] = [send[t] EXCEPT !.at = "close"]
    BY <1>0, <1>7 DEF Connects, Sends, SyslogInv, SyslogTypeOK
  <2>4. CASE fds' = [fds EXCEPT ![syslog_fd] = "connected"] /\ UNCHANGED syslog_fd
    <3>1. /\ fds' \in [0 .. MaxFd -> {"free", "idle", "connected", "broken"}]
          /\ Used' = Used
      BY <1>0, <2>1, <2>2, <2>4 DEF Used
    <3>2. HolderKnows(t)'
      BY <2>1, <2>3, <2>4, <3>1 DEF HolderKnows
    <3> QED
      BY <1>0, <1>7, <2>3, <2>4, <3>1, <3>2, HolderMoves DEF Connects
  <2>5. CASE fds' = [fds EXCEPT ![syslog_fd] = "free"] /\ syslog_fd' = -1
    <3>1. /\ fds' \in [0 .. MaxFd -> {"free", "idle", "connected", "broken"}]
          /\ Used' = Used \ {syslog_fd}
      BY <1>0, <2>2, <2>5 DEF Used
    <3>2. HolderKnows(t)'
      BY <2>1, <2>3, <2>5, <3>1 DEF HolderKnows
    <3>3. syslog_fd' \in Fd
      BY <2>5, FdAssumption DEF Fd
    <3> QED
      BY <1>0, <1>7, <2>3, <3>1, <3>2, <3>3, HolderMoves DEF Connects
  <2> QED
    BY <1>7, <2>4, <2>5 DEF Connects
<1>8. CASE z_close_syslog_internal(t)
  <2>1. /\ Used = {send[t].sfd, syslog_fd} \ {-1}
        /\ send[t].sfd # syslog_fd \/ send[t].sfd = -1
    BY <1>0, <1>8 DEF z_close_syslog_internal, HolderKnows
  <2>2. /\ [send[t] EXCEPT !.at = "unlock"] \in Held
        /\ send'[t] = [send[t] EXCEPT !.at = "unlock"]
    BY <1>0, <1>8 DEF z_close_syslog_internal, Sends, SyslogInv, SyslogTypeOK
  <2>3. /\ fds' \in [0 .. MaxFd -> {"free", "idle", "connected", "broken"}]
        /\ Used' = {syslog_fd} \ {-1}
        /\ double' = FALSE
    <3>1. CASE send[t].sfd = -1
      BY <1>0, <1>8, <2>1, <3>1 DEF z_close_syslog_internal, Used
    <3>2. CASE send[t].sfd # -1
      <4>1. send[t].sfd \in Used /\ fds' = [fds EXCEPT ![send[t].sfd] = "free"]
        BY <1>8, <2>1, <3>2 DEF z_close_syslog_internal
      <4>2. fds[send[t].sfd] # "free" /\ send[t].sfd \in 0 .. MaxFd
        BY <1>0, <4>1 DEF Used
      <4>3. double' = FALSE
        BY <1>0, <1>8, <3>2, <4>2 DEF z_close_syslog_internal
      <4>4. Used' = Used \ {send[t].sfd}
        BY <1>0, <4>1, <4>2 DEF Used
      <4> QED
        BY <1>0, <2>1, <3>2, <4>1, <4>3, <4>4
    <3> QED
      BY <3>1, <3>2
  <2>4. HolderKnows(t)'
    BY <1>8, <2>2, <2>3 DEF HolderKnows, z_close_syslog_internal
  <2> QED
    BY <1>0, <1>8, <2>2, <2>3, <2>4, HolderMoves DEF z_close_syslog_internal
<1>9. CASE Unlocks(t)
  <2> DEFINE s == IF send[t].rc = -1 /\ send[t].attempt <= 1
                  THEN [send[t] EXCEPT !.at = "write", !.sfd = syslog_fd, !.attempt = 2, !.rc = 0]
                  ELSE NoSend
  <2>1. s \in Send /\ s.at \in {"write", "idle"}
    BY <1>0, <1>1 DEF NoSend
  <2>2. /\ send' \in [Senders -> Send]
        /\ send'[t] = s
        /\ \A u \in Senders \ {t} : send'[u] = send[u]
    BY <1>9, <2>1 DEF SyslogInv, SyslogTypeOK, Sends, Unlocks
  <2> HIDE DEF s
  <2>3. reopener' = {} /\ UNCHANGED <<fds, syslog_fd, double>>
    BY <1>9 DEF Unlocks
  <2>4. Used' = Used /\ Used = {syslog_fd} \ {-1}
    BY <1>0, <1>9, <2>3 DEF Used, HolderKnows, Unlocks
  <2>5. \A u \in Senders \ {t} : send[u].at \notin {"socket", "connect", "close", "unlock"}
    BY <1>9 DEF SyslogInv, LockHeld, Unlocks
  <2>6. \A u \in Senders : HolderKnows(u)'
    BY <2>1, <2>2, <2>5 DEF HolderKnows
  <2>7. LockHeld'
    BY <2>1, <2>2, <2>3, <2>5 DEF LockHeld
  <2>8. SyslogTypeOK'
    BY <2>2, <2>3 DEF SyslogInv, SyslogTypeOK
  <2> QED
    BY <1>0, <2>3, <2>4, <2>6, <2>7, <2>8 DEF SyslogInv
<1> QED
  BY <1>2, <1>3, <1>4, <1>5, <1>6, <1>7, <1>8, <1>9 DEF Sending

\* syslogd takes no descriptor away.
LEMMA SyslogdInv ==
    ASSUME SyslogInv, SyslogdStops \/ SyslogdStarts
    PROVE  SyslogInv'
<1>1. /\ fds' \in [0 .. MaxFd -> {"free", "idle", "connected", "broken"}]
      /\ Used' = Used
      /\ UNCHANGED <<syslog_fd, send, reopener, double>>
  <2>1. CASE SyslogdStops
    BY <2>1 DEF SyslogdStops, SyslogInv, SyslogTypeOK, Used
  <2>2. CASE SyslogdStarts
    BY <2>2 DEF SyslogdStarts, SyslogInv, SyslogTypeOK, Used
  <2> QED
    BY <2>1, <2>2
<1> QED
  BY <1>1 DEF SyslogInv, SyslogTypeOK, LockHeld, HolderKnows

LEMMA SyslogStutter ==
    ASSUME SyslogInv, UNCHANGED syslogvars
    PROVE  SyslogInv'
<1>1. Used' = Used
  BY DEF Used, syslogvars
<1> QED
  BY <1>1 DEF SyslogInv, SyslogTypeOK, LockHeld, HolderKnows, syslogvars

\* However many threads find the connection to syslogd broken at the same time, and
\* however often it comes and goes, z_send_syslog closes a connection once and
\* leaks none: outside of the lock, syslog_fd is the only descriptor in use.
THEOREM ConnectionClosedOnce == Spec => []OneConnection
<1>1. Init => SyslogInv
  BY SyslogInitInv DEF Init
<1>2. SyslogInv /\ [Next]_logvars => SyslogInv'
  <2> SUFFICES ASSUME SyslogInv, [Next]_logvars PROVE SyslogInv'
    OBVIOUS
  <2>1. CASE UNCHANGED syslogvars
    BY <2>1, SyslogStutter
  <2>2. CASE SyslogNext
    BY <2>2, SendingInv, SyslogdInv DEF SyslogNext
  <2> QED
    BY <2>1, <2>2 DEF Next, logvars
<1>3. SyslogInv => OneConnection
  BY DEF SyslogInv, OneConnection, Used
<1> QED
  BY <1>1, <1>2, <1>3, PTL DEF Spec

-----------------------------------------------------------------------------
(* LogSpec. *)

Level == 0 .. GUCHAR - 1

\* The levels of the entries fit the array of the known tags, whose elements are
\* a guchar.
LevelsFit == \A str \in LogSpecs : \A i \in DOMAIN str : str[i].num \in Level

ItemLists ==
    {[i \in DOMAIN str |-> [pattern |-> str[i].glob, level |-> str[i].num]] : str \in LogSpecs} \cup {<<>>}

ZLogSpec == [items : ItemLists, verbose : Level]

CallPlaces == {"idle", "answer", "array", "hash", "unmark", "lookup", "eval", "insert"}

LogSpecTypeOK ==
    /\ log_spec \in ZLogSpec
    /\ caches \in Seq([empty_hash : BOOLEAN, used : BOOLEAN, hash : [Tags -> 0 .. GUCHAR]])
    /\ current \in [Threads -> Nat]
    /\ started \subseteq Threads
    /\ verb \in [Mapped -> Level]
    /\ call \in [Threads -> [at : CallPlaces, tag : Tags, verbose : Level, fresh : BOOLEAN]]
    /\ adm \in [Admins -> [at : {"idle", "verbose", "compare", "swap", "clear", "memset"}, old : Level,
                           direction : {-1, 0, 1}, value : Int, new_spec : ZLogSpec]]

\* A cache belongs to one thread at a time.
CachesOwned ==
    /\ \A t \in started : current[t] \in DOMAIN caches /\ caches[current[t]].used
    /\ \A t, u \in started : current[t] = current[u] => t = u
    /\ \A t \in Threads \ started : call[t].at = "idle"

\* The administrator has changed the specification and not yet marked the caches.
Changed(a) == adm[a].at = "clear" \/ (adm[a].at = "compare" /\ adm[a].old # log_spec.verbose)

HashesSettled == \A a \in Admins : ~Changed(a)

ArraySettled == \A a \in Admins : ~Changed(a) /\ adm[a].at # "memset"

\* What a cache remembers is the answer of the specification in force.
HashSound(cache) == \A tag \in Tags : cache.hash[tag] \in {0, z_log_spec_eval(log_spec, tag) + 1}

CachesSound ==
    /\ HashesSettled => \A i \in DOMAIN caches : caches[i].empty_hash \/ HashSound(caches[i])
    /\ ArraySettled => \A tag \in Mapped : verb[tag] \in {0, z_log_spec_eval(log_spec, tag) + 1}
    /\ \A a \in Admins : adm[a].at = "verbose" => adm[a].old = log_spec.verbose

\* A thread between reading and writing its cache.
CallSound(c, cache) ==
    /\ c.at = "array" => c.tag \in Mapped
    /\ c.at = "unmark" => cache.hash = NoHash
    /\ c.at = "insert" /\ HashesSettled
         => cache.empty_hash \/ c.verbose = z_log_spec_eval(log_spec, c.tag)
    /\ c.fresh => Quiet
    /\ c.fresh /\ c.at \in {"lookup", "eval", "insert"} => ~cache.empty_hash
    /\ c.fresh /\ c.at = "answer" => c.verbose = z_log_spec_eval(log_spec, c.tag)

LogSpecInv ==
    /\ LogSpecTypeOK
    /\ CachesOwned
    /\ CachesSound
    /\ \A t \in Threads : CallSound(call[t], caches[current[t]])

Call == [at : CallPlaces, tag : Tags, verbose : Level, fresh : BOOLEAN]

Cache == [empty_hash : BOOLEAN, used : BOOLEAN, hash : [Tags -> 0 .. GUCHAR]]

Change == [at : {"idle", "verbose", "compare", "swap", "clear", "memset"}, old : Level,
           direction : {-1, 0, 1}, value : Int, new_spec : ZLogSpec]

\* The specification gives every tag a level that fits.
LEMMA EvalLevel ==
    ASSUME LevelsFit, NEW spec \in ZLogSpec, NEW tag
    PROVE  /\ z_log_spec_eval(spec, tag) \in Level
           /\ spec.items = <<>> => z_log_spec_eval(spec, tag) = spec.verbose
<1> DEFINE hits == {i \in DOMAIN spec.items : z_log_spec_glob_match(spec.items[i].pattern, tag)}
<1>1. CASE spec.items = <<>>
  BY <1>1 DEF z_log_spec_eval, ZLogSpec
<1>2. CASE spec.items # <<>>
  <2>1. PICK str \in LogSpecs :
          spec.items = [i \in DOMAIN str |-> [pattern |-> str[i].glob, level |-> str[i].num]]
    BY <1>2 DEF ZLogSpec, ItemLists
  <2>2. DOMAIN spec.items = DOMAIN str /\ DOMAIN str \subseteq Nat
    BY <2>1, LogSpecAssumption
  <2>3. \A i \in DOMAIN spec.items : spec.items[i].level \in Level
    BY <2>1, <2>2 DEF LevelsFit
  <2>4. hits # {} => Min(hits) \in hits
    BY <2>2, MinOfNats
  <2>5. spec.verbose \in Level
    BY DEF ZLogSpec
  <2> QED
    BY <1>2, <2>3, <2>4, <2>5 DEF z_log_spec_eval
<1> QED
  BY <1>1, <1>2

\* A level that fits comes back from the array, or is not remembered.
LEMMA MappedLevel ==
    ASSUME NEW v \in Level
    PROVE  MappedValue(v) \in Level /\ MappedValue(v) \in {0, v + 1}
<1>1. v % GUCHAR = v
  BY LogSpecAssumption DEF Level
<1>2. CASE v + 1 = GUCHAR
  <2>1. GUCHAR % GUCHAR = 0
    BY LogSpecAssumption
  <2> QED
    BY <1>1, <1>2, <2>1, LogSpecAssumption DEF MappedValue, Level
<1>3. CASE v + 1 # GUCHAR
  <2>1. v + 1 \in 0 .. GUCHAR - 1
    BY <1>3, LogSpecAssumption DEF Level
  <2>2. (v + 1) % GUCHAR = v + 1
    BY <2>1, LogSpecAssumption
  <2> QED
    BY <1>1, <2>1, <2>2, LogSpecAssumption DEF MappedValue, Level
<1> QED
  BY <1>2, <1>3

LEMMA NoCallSound ==
    /\ NoCall \in Call
    /\ NoCall.at = "idle"
    /\ ~NoCall.fresh
    /\ NoChange \in Change
    /\ NoHash \in [Tags -> 0 .. GUCHAR]
<1>1. (CHOOSE t \in Tags : TRUE) \in Tags
  BY LogSpecAssumption
<1>2. 0 \in Level
  BY LogSpecAssumption DEF Level
<1>3. [items |-> <<>>, verbose |-> 0] \in ZLogSpec
  BY <1>2 DEF ZLogSpec, ItemLists
<1>4. NoHash \in [Tags -> 0 .. GUCHAR]
  BY LogSpecAssumption DEF NoHash
<1>5. NoChange \in Change
  BY <1>2, <1>3 DEF NoChange, Change
<1>6. NoCall \in Call /\ NoCall.at = "idle" /\ ~NoCall.fresh
  BY <1>1, <1>2 DEF NoCall, Call, CallPlaces
<1> QED
  BY <1>4, <1>5, <1>6

LEMMA LogSpecInitInv ==
    ASSUME LevelsFit, LogSpecInit
    PROVE  LogSpecInv
<1>1. log_spec \in ZLogSpec
  <2>1. PICK str \in LogSpecs : log_spec = z_log_spec_init(str, 1)
    BY DEF LogSpecInit
  <2>2. 1 \in Level
    BY LogSpecAssumption DEF Level
  <2> QED
    BY <2>1, <2>2 DEF z_log_spec_init, ZLogSpec, ItemLists
<1>2. caches = <<>> /\ caches \in Seq(Cache) /\ DOMAIN caches = {}
  BY DEF LogSpecInit
<1>3. /\ call \in [Threads -> Call]
      /\ \A t \in Threads : call[t].at = "idle" /\ ~call[t].fresh
  BY NoCallSound DEF LogSpecInit
<1>4. /\ adm \in [Admins -> Change]
      /\ \A a \in Admins : adm[a].at = "idle"
  BY NoCallSound DEF LogSpecInit, NoChange
<1>5. /\ verb \in [Mapped -> Level]
      /\ \A tag \in Mapped : verb[tag] = 0
  BY LogSpecAssumption DEF LogSpecInit, Level
<1>6. LogSpecTypeOK
  BY <1>1, <1>2, <1>3, <1>4, <1>5 DEF LogSpecInit, LogSpecTypeOK, Call, Cache, Change
<1>7. CachesOwned
  BY <1>3 DEF CachesOwned, LogSpecInit
<1>8. CachesSound
  BY <1>2, <1>4, <1>5 DEF CachesSound
<1> QED
  BY <1>3, <1>6, <1>7, <1>8 DEF LogSpecInv, CallSound

\* A step of a thread with its cache and with the array: what has to be shown.
LEMMA ThreadMoves ==
    ASSUME LogSpecInv, NEW t \in started, NEW c \in Call, Calls(t, c),
           NEW cache \in Cache, cache.used, caches' = [caches EXCEPT ![current[t]] = cache],
           verb' \in [Mapped -> Level], UNCHANGED <<log_spec, current, started, adm>>,
           HashesSettled => cache.empty_hash \/ HashSound(cache),
           ArraySettled => \A tag \in Mapped : verb'[tag] \in {0, z_log_spec_eval(log_spec, tag) + 1},
           CallSound(c, cache)
    PROVE  LogSpecInv'
<1>1. /\ call' \in [Threads -> Call]
      /\ call'[t] = c
      /\ \A u \in Threads \ {t} : call'[u] = call[u]
  BY DEF LogSpecInv, LogSpecTypeOK, Calls, Call
<1>2. /\ caches' \in Seq(Cache)
      /\ DOMAIN caches' = DOMAIN caches
      /\ current[t] \in DOMAIN caches
      /\ caches'[current[t]] = cache
      /\ \A i \in DOMAIN caches \ {current[t]} : caches'[i] = caches[i]
  BY DEF LogSpecInv, LogSpecTypeOK, CachesOwned, Cache
<1>3. LogSpecTypeOK'
  BY <1>1, <1>2 DEF LogSpecInv, LogSpecTypeOK, Call, Cache
<1>4. CachesOwned'
  <2>1. ASSUME NEW u \in started
        PROVE  current[u] \in DOMAIN caches' /\ caches'[current[u]].used
    <3>1. CASE current[u] = current[t]
      BY <1>2, <3>1
    <3>2. CASE current[u] # current[t]
      BY <1>2, <3>2 DEF LogSpecInv, CachesOwned
    <3> QED
      BY <3>1, <3>2
  <2>2. \A u \in Threads \ started : call'[u].at = "idle"
    BY <1>1 DEF LogSpecInv, CachesOwned
  <2> QED
    BY <2>1, <2>2 DEF LogSpecInv, CachesOwned
<1>5. HashesSettled' = HashesSettled /\ ArraySettled' = ArraySettled /\ Quiet' = Quiet
  BY DEF HashesSettled, ArraySettled, Changed, Quiet
<1>6. CachesSound'
  <2>1. HashesSettled => \A i \in DOMAIN caches' : caches'[i].empty_hash \/ HashSound(caches'[i])
    BY <1>2 DEF LogSpecInv, CachesSound
  <2>2. \A i \in DOMAIN caches' : HashSound(caches'[i]) => HashSound(caches[i])'
    BY DEF HashSound
  <2> QED
    BY <1>5, <2>1, <2>2 DEF LogSpecInv, CachesSound
<1>7. \A u \in Threads : CallSound(call[u], caches[current[u]])'
  <2>1. CallSound(call[t], caches[current[t]])'
    BY <1>1, <1>2, <1>5 DEF CallSound
  <2>2. ASSUME NEW u \in started, u # t
        PROVE  CallSound(call[u], caches[current[u]])'
    <3>1. current[u] \in DOMAIN caches \ {current[t]} /\ u \in Threads
      BY <2>2 DEF LogSpecInv, CachesOwned, LogSpecTypeOK
    <3>2. CallSound(call[u], caches[current[u]])
      BY <3>1 DEF LogSpecInv
    <3>3. call'[u] = call[u] /\ caches'[current'[u]] = caches[current[u]]
      BY <1>1, <1>2, <2>2, <3>1
    <3> QED
      BY <1>5, <3>2, <3>3 DEF CallSound
  <2>3. ASSUME NEW u \in Threads \ started
        PROVE  CallSound(call[u], caches[current[u]])'
    BY <1>1, <1>5, <2>3 DEF LogSpecInv, CachesOwned, CallSound
  <2> QED
    BY <2>1, <2>2, <2>3 DEF LogSpecInv, LogSpecTypeOK
<1> QED
  BY <1>3, <1>4, <1>6, <1>7 DEF LogSpecInv

\* What a started thread has in its hands.
LEMMA OwnCache ==
    ASSUME LogSpecInv, NEW t \in started
    PROVE  /\ t \in Threads
           /\ current[t] \in DOMAIN caches
           /\ caches[current[t]] \in Cache
           /\ caches[current[t]].used
           /\ caches = [caches EXCEPT ![current[t]] = caches[current[t]]]
           /\ HashesSettled => caches[current[t]].empty_hash \/ HashSound(caches[current[t]])
           /\ ArraySettled => \A g \in Mapped : verb[g] \in {0, z_log_spec_eval(log_spec, g) + 1}
           /\ call[t] \in Call
           /\ CallSound(call[t], caches[current[t]])
           /\ verb \in [Mapped -> Level]
<1>1. t \in Threads /\ current[t] \in DOMAIN caches
  BY DEF LogSpecInv, LogSpecTypeOK, CachesOwned
<1>2. caches \in Seq(Cache)
  BY DEF LogSpecInv, LogSpecTypeOK, Cache
<1>3. caches[current[t]] \in Cache /\ caches = [caches EXCEPT ![current[t]] = caches[current[t]]]
  BY <1>1, <1>2
<1>4. caches[current[t]].used
  BY DEF LogSpecInv, CachesOwned
<1> QED
  BY <1>1, <1>3, <1>4 DEF LogSpecInv, LogSpecTypeOK, CachesSound, Call

LEMMA EnabledInv ==
    ASSUME LogSpecInv, LevelsFit, NEW t \in Threads, NEW tag \in Tags, z_log_enabled_len(t, tag)
    PROVE  LogSpecInv'
<1> DEFINE c == [at |-> "answer", tag |-> tag, verbose |-> log_spec.verbose, fresh |-> Quiet]
           new == IF log_spec.items = <<>> THEN c
                  ELSE IF tag \notin Mapped THEN [c EXCEPT !.at = "hash"]
                  ELSE IF verb[tag] # 0 THEN [c EXCEPT !.verbose = verb[tag] - 1]
                  ELSE [c EXCEPT !.at = "array"]
           cache == caches[current[t]]
<1>1. /\ t \in started /\ Calls(t, new) /\ UNCHANGED <<log_spec, caches, current, started, verb, adm, changes>>
  BY DEF z_log_enabled_len
<1>2. cache \in Cache /\ cache.used /\ caches = [caches EXCEPT ![current[t]] = cache]
  BY <1>1, OwnCache
<1>3. log_spec \in ZLogSpec /\ log_spec.verbose \in Level /\ verb \in [Mapped -> Level]
  BY DEF LogSpecInv, LogSpecTypeOK, ZLogSpec
<1>4. tag \in Mapped /\ verb[tag] # 0 => verb[tag] - 1 \in Level
  BY <1>3, LogSpecAssumption DEF Level
<1>5. Quiet \in BOOLEAN
  BY DEF Quiet
<1>6. c \in Call
  BY <1>3, <1>5 DEF Call, CallPlaces
<1>7. new \in Call
  BY <1>4, <1>6 DEF Call, CallPlaces
<1>8. /\ new.tag = tag /\ new.at \in {"answer", "hash", "array"}
      /\ new.fresh => Quiet
      /\ new.at = "array" => tag \in Mapped
  OBVIOUS
<1>9. Quiet => HashesSettled /\ ArraySettled
  BY DEF Quiet, HashesSettled, ArraySettled, Changed
<1>10. new.fresh /\ new.at = "answer" => new.verbose = z_log_spec_eval(log_spec, tag)
  <2>1. CASE log_spec.items = <<>>
    BY <1>3, <2>1, EvalLevel
  <2>2. CASE log_spec.items # <<>> /\ tag \in Mapped /\ verb[tag] # 0
    <3>1. Quiet => verb[tag] = z_log_spec_eval(log_spec, tag) + 1
      BY <1>9, <2>2 DEF LogSpecInv, CachesSound
    <3>2. z_log_spec_eval(log_spec, tag) \in Int
      BY <1>3, EvalLevel DEF Level
    <3> QED
      BY <1>8, <2>2, <3>1, <3>2
  <2> QED
    BY <2>1, <2>2
<1> HIDE DEF new
<1>11. CallSound(new, cache)
  BY <1>8, <1>10 DEF CallSound
<1>12. /\ HashesSettled => cache.empty_hash \/ HashSound(cache)
       /\ ArraySettled => \A g \in Mapped : verb'[g] \in {0, z_log_spec_eval(log_spec, g) + 1}
  BY <1>1, OwnCache
<1> HIDE DEF cache
<1> QED
  BY <1>1, <1>2, <1>3, <1>7, <1>11, <1>12, ThreadMoves

LEMMA FillsArrayInv ==
    ASSUME LogSpecInv, LevelsFit, NEW t \in started, FillsArray(t)
    PROVE  LogSpecInv'
<1> DEFINE v == z_log_spec_eval(log_spec, call[t].tag)
           c == [call[t] EXCEPT !.at = "answer", !.verbose = v]
           cache == caches[current[t]]
<1>1. /\ call[t].at = "array" /\ Calls(t, c) /\ verb' = [verb EXCEPT ![call[t].tag] = MappedValue(v)]
      /\ UNCHANGED <<log_spec, caches, current, started, adm, changes>>
  BY DEF FillsArray
<1>2. log_spec \in ZLogSpec
  BY DEF LogSpecInv, LogSpecTypeOK
<1>3. v \in Level
  BY <1>2, EvalLevel
<1>4. /\ call[t] \in Call /\ call[t].tag \in Mapped /\ (call[t].fresh => Quiet)
  BY <1>1, OwnCache DEF CallSound
<1>5. /\ c \in Call /\ c.at = "answer" /\ c.verbose = v /\ c.tag = call[t].tag
      /\ c.fresh => Quiet
  BY <1>3, <1>4 DEF Call, CallPlaces
<1>6. /\ verb' \in [Mapped -> Level]
      /\ verb'[call[t].tag] \in {0, v + 1}
      /\ \A g \in Mapped \ {call[t].tag} : verb'[g] = verb[g]
  BY <1>1, <1>3, <1>4, MappedLevel, OwnCache
<1>7. ArraySettled => \A g \in Mapped : verb'[g] \in {0, z_log_spec_eval(log_spec, g) + 1}
  BY <1>6, OwnCache
<1>8. CallSound(c, cache)
  BY <1>5 DEF CallSound
<1> HIDE DEF c, cache, v
<1>9. /\ cache \in Cache /\ cache.used /\ caches = [caches EXCEPT ![current[t]] = cache]
      /\ HashesSettled => cache.empty_hash \/ HashSound(cache)
  BY OwnCache DEF cache
<1> QED
  BY <1>1, <1>5, <1>6, <1>7, <1>8, <1>9, ThreadMoves

\* A step of a thread that leaves the array alone.
LEMMA HashMoves ==
    ASSUME LogSpecInv, NEW t \in started, NEW c \in Call, Calls(t, c),
           NEW cache \in Cache, cache.used, caches' = [caches EXCEPT ![current[t]] = cache],
           UNCHANGED <<log_spec, current, started, verb, adm>>,
           HashesSettled => cache.empty_hash \/ HashSound(cache),
           CallSound(c, cache)
    PROVE  LogSpecInv'
<1>1. /\ verb' \in [Mapped -> Level]
      /\ ArraySettled => \A g \in Mapped : verb'[g] \in {0, z_log_spec_eval(log_spec, g) + 1}
  BY OwnCache
<1> QED
  BY <1>1, ThreadMoves

LEMMA ChecksHashInv ==
    ASSUME LogSpecInv, NEW t \in started, ChecksHash(t)
    PROVE  LogSpecInv'
<1> DEFINE cache == caches[current[t]]
<1>1. /\ call[t].at = "hash" /\ call[t] \in Call /\ (call[t].fresh => Quiet)
      /\ UNCHANGED <<log_spec, current, started, verb, adm, changes>>
  BY OwnCache DEF ChecksHash, CallSound
<1>2. CASE cache.empty_hash
  <2> DEFINE c == [call[t] EXCEPT !.at = "unmark"]
             new == [cache EXCEPT !.hash = NoHash]
  <2>1. Calls(t, c) /\ caches' = [caches EXCEPT ![current[t]] = new]
    BY <1>2 DEF ChecksHash
  <2>2. c \in Call /\ c.at = "unmark" /\ (c.fresh => Quiet)
    BY <1>1 DEF Call, CallPlaces
  <2>3. cache \in Cache /\ cache.used
    BY OwnCache
  <2>4. new \in Cache /\ new.used /\ new.empty_hash /\ new.hash = NoHash
    BY <1>2, <2>3, NoCallSound DEF Cache
  <2>5. CallSound(c, new)
    BY <2>2, <2>4 DEF CallSound
  <2> HIDE DEF c, new
  <2> QED
    BY <1>1, <2>1, <2>2, <2>4, <2>5, HashMoves
<1>3. CASE ~cache.empty_hash
  <2> DEFINE c == [call[t] EXCEPT !.at = "lookup"]
  <2>1. Calls(t, c) /\ caches' = caches
    BY <1>3 DEF ChecksHash
  <2>2. c \in Call /\ c.at = "lookup" /\ (c.fresh => Quiet)
    BY <1>1 DEF Call, CallPlaces
  <2>3. CallSound(c, cache)
    BY <1>3, <2>2 DEF CallSound
  <2> HIDE DEF c
  <2> QED
    BY <1>1, <2>1, <2>2, <2>3, OwnCache, HashMoves
<1> QED
  BY <1>2, <1>3

LEMMA UnmarksInv ==
    ASSUME LogSpecInv, NEW t \in started, Unmarks(t)
    PROVE  LogSpecInv'
<1> DEFINE cache == caches[current[t]]
           c == [call[t] EXCEPT !.at = "lookup"]
           new == [cache EXCEPT !.empty_hash = FALSE]
<1>1. /\ call[t].at = "unmark" /\ call[t] \in Call /\ (call[t].fresh => Quiet)
      /\ UNCHANGED <<log_spec, current, started, verb, adm, changes>>
      /\ Calls(t, c) /\ caches' = [caches EXCEPT ![current[t]] = new]
      /\ cache.hash = NoHash
  BY OwnCache DEF Unmarks, CallSound
<1>2. c \in Call /\ c.at = "lookup" /\ (c.fresh => Quiet)
  BY <1>1 DEF Call, CallPlaces
<1>3. cache \in Cache /\ cache.used
  BY OwnCache
<1>4. new \in Cache /\ new.used /\ ~new.empty_hash /\ new.hash = NoHash
  BY <1>1, <1>3 DEF Cache
<1>5. CallSound(c, new) /\ HashSound(new)
  BY <1>2, <1>4 DEF CallSound, HashSound, NoHash
<1> HIDE DEF c, new
<1> QED
  BY <1>1, <1>2, <1>4, <1>5, HashMoves

LEMMA LooksUpInv ==
    ASSUME LogSpecInv, LevelsFit, NEW t \in started, LooksUp(t)
    PROVE  LogSpecInv'
<1> DEFINE cache == caches[current[t]]
           v == cache.hash[call[t].tag]
           c == IF v = 0 THEN [call[t] EXCEPT !.at = "eval"]
                ELSE [call[t] EXCEPT !.at = "answer", !.verbose = v - 1]
<1>1. /\ call[t].at = "lookup" /\ call[t] \in Call /\ call[t].tag \in Tags
      /\ call[t].fresh => Quiet /\ ~cache.empty_hash
      /\ UNCHANGED <<log_spec, caches, current, started, verb, adm, changes>>
      /\ Calls(t, c)
  BY OwnCache DEF LooksUp, CallSound, Call
<1>2. v \in 0 .. GUCHAR
  BY <1>1, OwnCache DEF Cache
<1>3. v # 0 => v - 1 \in Level
  BY <1>2, LogSpecAssumption DEF Level
<1>4. /\ c \in Call /\ c.tag = call[t].tag /\ c.at \in {"eval", "answer"}
      /\ c.fresh => call[t].fresh
      /\ c.at = "answer" => v # 0 /\ c.verbose = v - 1
  BY <1>1, <1>3 DEF Call, CallPlaces
<1>5. Quiet => HashesSettled
  BY DEF Quiet, HashesSettled, Changed
<1>6. call[t].fresh /\ v # 0 => v - 1 = z_log_spec_eval(log_spec, call[t].tag)
  <2>1. z_log_spec_eval(log_spec, call[t].tag) \in Int
    BY EvalLevel DEF LogSpecInv, LogSpecTypeOK, Level
  <2>2. call[t].fresh => HashSound(cache)
    BY <1>1, <1>5, OwnCache
  <2> QED
    BY <1>1, <2>1, <2>2 DEF HashSound
<1> HIDE DEF c, v
<1>7. CallSound(c, cache)
  BY <1>1, <1>4, <1>6 DEF CallSound
<1> QED
  BY <1>1, <1>4, <1>7, OwnCache, HashMoves

LEMMA EvaluatesInv ==
    ASSUME LogSpecInv, LevelsFit, NEW t \in started, Evaluates(t)
    PROVE  LogSpecInv'
<1> DEFINE cache == caches[current[t]]
           v == z_log_spec_eval(log_spec, call[t].tag)
           c == [call[t] EXCEPT !.at = "insert", !.verbose = v]
<1>1. /\ call[t].at = "eval" /\ call[t] \in Call
      /\ call[t].fresh => Quiet /\ ~cache.empty_hash
      /\ UNCHANGED <<log_spec, caches, current, started, verb, adm, changes>>
      /\ Calls(t, c)
  BY OwnCache DEF Evaluates, CallSound
<1>2. v \in Level
  BY EvalLevel DEF LogSpecInv, LogSpecTypeOK
<1>3. /\ c \in Call /\ c.tag = call[t].tag /\ c.at = "insert" /\ c.verbose = v
      /\ c.fresh => call[t].fresh
  BY <1>1, <1>2 DEF Call, CallPlaces
<1>4. CallSound(c, cache)
  BY <1>1, <1>3 DEF CallSound
<1> HIDE DEF c, v
<1> QED
  BY <1>1, <1>3, <1>4, OwnCache, HashMoves

LEMMA InsertsInv ==
    ASSUME LogSpecInv, LevelsFit, NEW t \in started, Inserts(t)
    PROVE  LogSpecInv'
<1> DEFINE cache == caches[current[t]]
           c == [call[t] EXCEPT !.at = "answer"]
           new == [cache EXCEPT !.hash[call[t].tag] = call[t].verbose + 1]
<1>1. /\ call[t].at = "insert" /\ call[t] \in Call /\ call[t].tag \in Tags /\ call[t].verbose \in Level
      /\ call[t].fresh => Quiet /\ ~cache.empty_hash
      /\ UNCHANGED <<log_spec, current, started, verb, adm, changes>>
      /\ Calls(t, c) /\ caches' = [caches EXCEPT ![current[t]] = new]
      /\ HashesSettled => cache.empty_hash \/ call[t].verbose = z_log_spec_eval(log_spec, call[t].tag)
  BY OwnCache DEF Inserts, CallSound, Call
<1>2. /\ c \in Call /\ c.tag = call[t].tag /\ c.at = "answer" /\ c.verbose = call[t].verbose
      /\ c.fresh => call[t].fresh
  BY <1>1 DEF Call, CallPlaces
<1>3. call[t].verbose + 1 \in 0 .. GUCHAR
  BY <1>1, LogSpecAssumption DEF Level
<1>4. cache \in Cache /\ cache.used /\ (HashesSettled => cache.empty_hash \/ HashSound(cache))
  BY OwnCache
<1>5. /\ new \in Cache /\ new.used
      /\ new.empty_hash <=> cache.empty_hash
      /\ new.hash[call[t].tag] = call[t].verbose + 1
      /\ \A g \in Tags \ {call[t].tag} : new.hash[g] = cache.hash[g]
  BY <1>1, <1>3, <1>4 DEF Cache
<1>6. Quiet => HashesSettled
  BY DEF Quiet, HashesSettled, Changed
<1> HIDE DEF c, new
<1>7. HashesSettled => new.empty_hash \/ HashSound(new)
  BY <1>1, <1>4, <1>5 DEF HashSound
<1>8. CallSound(c, new)
  BY <1>1, <1>2, <1>6 DEF CallSound
<1> QED
  BY <1>1, <1>2, <1>5, <1>7, <1>8, HashMoves

LEMMA AnswersInv ==
    ASSUME LogSpecInv, NEW t \in started, Answers(t)
    PROVE  LogSpecInv'
<1>1. CallSound(NoCall, caches[current[t]])
  BY NoCallSound DEF CallSound
<1> HIDE DEF NoCall
<1> QED
  BY <1>1, NoCallSound, OwnCache, HashMoves DEF Answers

LEMMA GrabsInv ==
    ASSUME LogSpecInv, NEW t \in Threads, z_log_grab_cache(t)
    PROVE  LogSpecInv'
<1> DEFINE i == IF Unused = {} THEN Len(caches) + 1 ELSE Min(Unused)
           fresh == [empty_hash |-> FALSE, used |-> TRUE, hash |-> NoHash]
<1>1. /\ t \notin started /\ started' = started \cup {t}
      /\ current' = [current EXCEPT ![t] = i]
      /\ caches' = IF i > Len(caches) THEN Append(caches, fresh) ELSE [caches EXCEPT ![i].used = TRUE]
      /\ UNCHANGED <<log_spec, verb, call, adm>>
  BY DEF z_log_grab_cache
<1>2. caches \in Seq(Cache) /\ Len(caches) \in Nat /\ DOMAIN caches = 1 .. Len(caches)
  BY DEF LogSpecInv, LogSpecTypeOK, Cache
<1>3. Unused # {} => i \in Unused
  <2>1. Unused \subseteq Nat
    BY <1>2 DEF Unused
  <2> QED
    BY <2>1, MinOfNats
<1>4. \A u \in started : current[u] \in DOMAIN caches /\ caches[current[u]].used /\ current[u] # i
  BY <1>2, <1>3 DEF LogSpecInv, CachesOwned, Unused
<1>5. /\ caches' \in Seq(Cache)
      /\ i \in DOMAIN caches' /\ caches'[i].used
      /\ \A j \in DOMAIN caches : j \in DOMAIN caches' /\ (j # i => caches'[j] = caches[j])
      /\ \A j \in DOMAIN caches' : j = i \/ j \in DOMAIN caches
      /\ \/ i \notin DOMAIN caches /\ caches'[i].hash = NoHash
         \/ /\ i \in DOMAIN caches
            /\ caches'[i].hash = caches[i].hash
            /\ caches'[i].empty_hash <=> caches[i].empty_hash
  <2>1. CASE Unused = {}
    <3>1. fresh \in Cache /\ fresh.used /\ fresh.hash = NoHash
      BY NoCallSound DEF Cache
    <3> HIDE DEF fresh
    <3>2. i = Len(caches) + 1
      BY <2>1
    <3> HIDE DEF i
    <3>3. caches' = Append(caches, fresh)
      <4>1. i > Len(caches)
        BY <1>2, <3>2
      <4> QED
        BY <1>1, <4>1, Zenon
    <3> QED
      BY <1>2, <3>1, <3>2, <3>3
  <2>2. CASE Unused # {}
    <3> DEFINE new == [caches[i] EXCEPT !.used = TRUE]
    <3>1. i \in DOMAIN caches /\ i <= Len(caches)
      BY <1>2, <1>3, <2>2 DEF Unused
    <3> HIDE DEF i
    <3>2. caches[i] \in Cache
      BY <1>2, <3>1
    <3>3. /\ new \in Cache /\ new.used /\ new.hash = caches[i].hash
          /\ new.empty_hash <=> caches[i].empty_hash
      BY <3>2 DEF Cache
    <3>4. ~(i > Len(caches))
      BY <1>2, <3>1
    <3>5. caches' = [caches EXCEPT ![i] = new]
      BY <1>1, <3>4
    <3> HIDE DEF new
    <3> QED
      BY <1>2, <3>1, <3>3, <3>5
  <2> QED
    BY <2>1, <2>2
<1>6. i \in Nat
  BY <1>2, <1>3 DEF Unused
<1> HIDE DEF i, fresh
<1>7. /\ current' \in [Threads -> Nat] /\ current'[t] = i
      /\ \A u \in Threads \ {t} : current'[u] = current[u]
  BY <1>1, <1>6 DEF LogSpecInv, LogSpecTypeOK
<1>8. LogSpecTypeOK'
  BY <1>1, <1>5, <1>7 DEF LogSpecInv, LogSpecTypeOK, Cache
<1>9. CachesOwned'
  <2>1. ASSUME NEW u \in started'
        PROVE  current'[u] \in DOMAIN caches' /\ caches'[current'[u]].used
    <3>1. CASE u = t
      BY <1>5, <1>7, <3>1
    <3>2. CASE u # t
      <4>1. u \in started /\ u \in Threads /\ current'[u] = current[u]
        BY <1>1, <1>7, <3>2 DEF LogSpecInv, LogSpecTypeOK
      <4>2. current[u] \in DOMAIN caches' /\ caches'[current[u]] = caches[current[u]]
        BY <1>4, <1>5, <4>1
      <4> QED
        BY <1>4, <4>1, <4>2
    <3> QED
      BY <3>1, <3>2
  <2>2. \A u, v \in started' : current'[u] = current'[v] => u = v
    BY <1>1, <1>4, <1>7 DEF LogSpecInv, LogSpecTypeOK, CachesOwned
  <2>3. \A u \in Threads \ started' : call'[u].at = "idle"
    BY <1>1 DEF LogSpecInv, CachesOwned
  <2> QED
    BY <2>1, <2>2, <2>3 DEF CachesOwned
<1>10. HashesSettled' = HashesSettled /\ ArraySettled' = ArraySettled /\ Quiet' = Quiet
  BY <1>1 DEF HashesSettled, ArraySettled, Changed, Quiet
<1>11. CachesSound'
  <2>1. ASSUME HashesSettled, NEW j \in DOMAIN caches'
        PROVE  caches'[j].empty_hash \/ HashSound(caches'[j])
    <3>1. CASE j \notin DOMAIN caches
      BY <1>5, <3>1 DEF HashSound, NoHash
    <3>2. CASE j \in DOMAIN caches
      <4>1. caches[j].empty_hash \/ HashSound(caches[j])
        BY <2>1, <3>2 DEF LogSpecInv, CachesSound
      <4>2. caches'[j].hash = caches[j].hash /\ (caches'[j].empty_hash <=> caches[j].empty_hash)
        BY <1>5, <3>2
      <4> QED
        BY <4>1, <4>2 DEF HashSound
    <3> QED
      BY <3>1, <3>2
  <2>2. \A j \in DOMAIN caches' : HashSound(caches'[j]) => HashSound(caches[j])'
    BY <1>1 DEF HashSound
  <2> QED
    BY <1>1, <1>10, <2>1, <2>2 DEF LogSpecInv, CachesSound
<1>12. \A u \in Threads : CallSound(call[u], caches[current[u]])'
  <2>1. ASSUME NEW u \in started
        PROVE  CallSound(call[u], caches[current[u]])'
    <3>1. /\ u \in Threads /\ u # t /\ current'[u] = current[u]
          /\ caches'[current[u]] = caches[current[u]]
      BY <1>1, <1>4, <1>5, <1>7 DEF LogSpecInv, LogSpecTypeOK
    <3>2. CallSound(call[u], caches[current[u]])
      BY <3>1 DEF LogSpecInv
    <3> QED
      BY <1>1, <1>10, <3>1, <3>2 DEF CallSound
  <2>2. ASSUME NEW u \in Threads \ started
        PROVE  CallSound(call[u], caches[current[u]])'
    <3>1. call[u].at = "idle" /\ (call[u].fresh => Quiet)
      BY DEF LogSpecInv, CachesOwned, CallSound
    <3> QED
      BY <1>1, <1>10, <3>1 DEF CallSound
  <2> QED
    BY <2>1, <2>2
<1> QED
  BY <1>8, <1>9, <1>11, <1>12 DEF LogSpecInv

LEMMA ReleasesInv ==
    ASSUME LogSpecInv, NEW t \in Threads, z_log_release_cache(t)
    PROVE  LogSpecInv'
<1> DEFINE new == [caches[current[t]] EXCEPT !.used = FALSE]
<1>1. /\ t \in started /\ started' = started \ {t} /\ call[t].at = "idle"
      /\ caches' = [caches EXCEPT ![current[t]] = new]
      /\ UNCHANGED <<log_spec, current, verb, call, adm>>
  BY DEF z_log_release_cache
<1>2. /\ caches \in Seq(Cache) /\ current[t] \in DOMAIN caches /\ caches[current[t]] \in Cache
      /\ HashesSettled => caches[current[t]].empty_hash \/ HashSound(caches[current[t]])
  BY <1>1, OwnCache DEF LogSpecInv, LogSpecTypeOK, Cache
<1>3. /\ new \in Cache /\ new.hash = caches[current[t]].hash
      /\ new.empty_hash <=> caches[current[t]].empty_hash
  BY <1>2 DEF Cache
<1> HIDE DEF new
<1>4. /\ caches' \in Seq(Cache) /\ DOMAIN caches' = DOMAIN caches /\ caches'[current[t]] = new
      /\ \A j \in DOMAIN caches \ {current[t]} : caches'[j] = caches[j]
  BY <1>1, <1>2, <1>3
<1>5. LogSpecTypeOK'
  BY <1>1, <1>4 DEF LogSpecInv, LogSpecTypeOK, Cache
<1>6. \A u \in started' : u \in started /\ u # t /\ u \in Threads /\ current[u] # current[t]
                          /\ current[u] \in DOMAIN caches /\ caches'[current[u]] = caches[current[u]]
  BY <1>1, <1>4 DEF LogSpecInv, LogSpecTypeOK, CachesOwned
<1>7. CachesOwned'
  <2>1. \A u \in started' : current'[u] \in DOMAIN caches' /\ caches'[current'[u]].used
    <3> SUFFICES ASSUME NEW u \in started'
                 PROVE  current'[u] \in DOMAIN caches' /\ caches'[current'[u]].used
      OBVIOUS
    <3>1. caches[current[u]].used
      BY <1>6 DEF LogSpecInv, CachesOwned
    <3> QED
      BY <1>1, <1>4, <1>6, <3>1
  <2>2. \A u \in Threads \ started' : call'[u].at = "idle"
    BY <1>1 DEF LogSpecInv, CachesOwned
  <2> QED
    BY <1>1, <2>1, <2>2 DEF LogSpecInv, CachesOwned
<1>8. HashesSettled' = HashesSettled /\ ArraySettled' = ArraySettled /\ Quiet' = Quiet
  BY <1>1 DEF HashesSettled, ArraySettled, Changed, Quiet
<1>9. CachesSound'
  <2>1. ASSUME HashesSettled, NEW j \in DOMAIN caches
        PROVE  caches'[j].empty_hash \/ HashSound(caches'[j])
    <3>1. caches[j].empty_hash \/ HashSound(caches[j])
      BY <2>1 DEF LogSpecInv, CachesSound
    <3>2. caches'[j].hash = caches[j].hash /\ (caches'[j].empty_hash <=> caches[j].empty_hash)
      BY <1>3, <1>4
    <3> QED
      BY <3>1, <3>2 DEF HashSound
  <2>2. \A j \in DOMAIN caches' : HashSound(caches'[j]) => HashSound(caches[j])'
    BY <1>1 DEF HashSound
  <2> QED
    BY <1>1, <1>4, <1>8, <2>1, <2>2 DEF LogSpecInv, CachesSound
<1>10. \A u \in Threads : CallSound(call[u], caches[current[u]])'
  <2>1. ASSUME NEW u \in started'
        PROVE  CallSound(call[u], caches[current[u]])'
    <3>1. CallSound(call[u], caches[current[u]])
      BY <1>6 DEF LogSpecInv
    <3> QED
      BY <1>1, <1>6, <1>8, <3>1 DEF CallSound
  <2>2. ASSUME NEW u \in Threads \ started'
        PROVE  CallSound(call[u], caches[current[u]])'
    <3>1. call[u].at = "idle" /\ (call[u].fresh => Quiet)
      BY <1>1 DEF LogSpecInv, CachesOwned, CallSound
    <3> QED
      BY <1>1, <1>8, <3>1 DEF CallSound
  <2> QED
    BY <2>1, <2>2
<1> QED
  BY <1>5, <1>7, <1>9, <1>10 DEF LogSpecInv

\* A step of the administrator: either the caches are as sound as they were, or
\* every one of them is marked, or they are not yet settled again.
LEMMA AdminMoves ==
    ASSUME LogSpecInv, NEW a, Admins = {a},
           log_spec' \in ZLogSpec, adm' \in [Admins -> Change], verb' \in [Mapped -> Level],
           caches' \in Seq(Cache), DOMAIN caches' = DOMAIN caches,
           \A j \in DOMAIN caches : /\ caches'[j].hash = caches[j].hash
                                    /\ caches'[j].used <=> caches[j].used
                                    /\ caches[j].empty_hash => caches'[j].empty_hash,
           UNCHANGED <<current, started>>,
           call' \in [Threads -> Call],
           \A t \in Threads : /\ call'[t].at = call[t].at /\ call'[t].tag = call[t].tag
                              /\ call'[t].verbose = call[t].verbose /\ ~call'[t].fresh,
           HashesSettled' => \/ HashesSettled /\ log_spec' = log_spec
                             \/ \A j \in DOMAIN caches : caches'[j].empty_hash,
           ArraySettled' => \A g \in Mapped : verb'[g] \in {0, z_log_spec_eval(log_spec', g) + 1},
           adm'[a].at = "verbose" => adm'[a].old = log_spec'.verbose
    PROVE  LogSpecInv'
<1>1. LogSpecTypeOK'
  BY DEF LogSpecInv, LogSpecTypeOK, Call, Cache, Change
<1>2. CachesOwned'
  BY DEF LogSpecInv, LogSpecTypeOK, CachesOwned
<1>3. CachesSound'
  <2>1. ASSUME HashesSettled', NEW j \in DOMAIN caches
        PROVE  caches'[j].empty_hash \/ HashSound(caches[j])'
    <3>1. CASE HashesSettled /\ log_spec' = log_spec
      <4>1. caches[j].empty_hash \/ HashSound(caches[j])
        BY <3>1 DEF LogSpecInv, CachesSound
      <4> QED
        BY <3>1, <4>1 DEF HashSound
    <3>2. CASE \A k \in DOMAIN caches : caches'[k].empty_hash
      BY <3>2
    <3> QED
      BY <2>1, <3>1, <3>2
  <2> QED
    BY <2>1 DEF CachesSound
<1>4. \A t \in Threads : CallSound(call[t], caches[current[t]])'
  <2> SUFFICES ASSUME NEW t \in Threads PROVE CallSound(call[t], caches[current[t]])'
    OBVIOUS
  <2>1. CallSound(call[t], caches[current[t]])
    BY DEF LogSpecInv
  <2>2. CASE t \in started
    <3>1. current[t] \in DOMAIN caches
      BY <2>2, OwnCache
    <3>2. /\ call[t].at = "unmark" => caches'[current[t]].hash = NoHash
          /\ call[t].at = "array" => call[t].tag \in Mapped
      BY <2>1, <3>1 DEF CallSound
    <3>3. call[t].at = "insert" /\ HashesSettled'
            => caches'[current[t]].empty_hash \/ call[t].verbose = z_log_spec_eval(log_spec', call[t].tag)
      BY <2>1, <3>1 DEF CallSound
    <3> QED
      BY <3>2, <3>3 DEF CallSound
  <2>3. CASE t \notin started
    <3>1. call[t].at = "idle"
      BY <2>3 DEF LogSpecInv, CachesOwned
    <3> QED
      BY <3>1 DEF CallSound
  <2> QED
    BY <2>2, <2>3
<1> QED
  BY <1>1, <1>2, <1>3, <1>4 DEF LogSpecInv

\* What the only administrator is about decides whether the caches are settled.
LEMMA OneAdmin ==
    ASSUME NEW a, Admins = {a}
    PROVE  /\ HashesSettled <=> ~Changed(a)
           /\ ArraySettled <=> ~Changed(a) /\ adm[a].at # "memset"
           /\ Quiet <=> adm[a].at = "idle"
           /\ HashesSettled' <=> ~Changed(a)'
           /\ ArraySettled' <=> ~Changed(a)' /\ adm'[a].at # "memset"
  BY DEF HashesSettled, ArraySettled, Quiet

\* A step of an administrator who has begun: no call counts as undisturbed.
LEMMA BusyMoves ==
    ASSUME LogSpecInv, NEW a, Admins = {a}, adm[a].at # "idle",
           NEW change \in Change, adm' = [adm EXCEPT ![a] = change],
           log_spec' \in ZLogSpec, verb' \in [Mapped -> Level],
           caches' \in Seq(Cache), DOMAIN caches' = DOMAIN caches,
           \A j \in DOMAIN caches : /\ caches'[j].hash = caches[j].hash
                                    /\ caches'[j].used <=> caches[j].used
                                    /\ caches[j].empty_hash => caches'[j].empty_hash,
           UNCHANGED <<current, started, call>>,
           ~Changed(a)' => \/ ~Changed(a) /\ log_spec' = log_spec
                           \/ \A j \in DOMAIN caches : caches'[j].empty_hash,
           ~Changed(a)' /\ change.at # "memset"
             => \A g \in Mapped : verb'[g] \in {0, z_log_spec_eval(log_spec', g) + 1},
           change.at # "verbose"
    PROVE  LogSpecInv'
<1>1. adm' \in [Admins -> Change] /\ adm'[a] = change
  BY DEF LogSpecInv, LogSpecTypeOK, Change
<1>2. call' \in [Threads -> Call] /\ \A t \in Threads : ~call'[t].fresh
  <2>1. \A t \in Threads : ~call[t].fresh
    BY OneAdmin DEF LogSpecInv, CallSound
  <2> QED
    BY <2>1 DEF LogSpecInv, LogSpecTypeOK, Call
<1>3. /\ HashesSettled' => \/ HashesSettled /\ log_spec' = log_spec
                           \/ \A j \in DOMAIN caches : caches'[j].empty_hash
      /\ ArraySettled' => \A g \in Mapped : verb'[g] \in {0, z_log_spec_eval(log_spec', g) + 1}
  BY <1>1, OneAdmin
<1> QED
  BY <1>1, <1>2, <1>3, AdminMoves

\* The administrator begins: nothing has changed yet.
LEMMA BeginsInv ==
    ASSUME LogSpecInv, NEW a, Admins = {a}, NEW change \in Change, change.at \in {"verbose", "swap"},
           change.at = "verbose" => change.old = log_spec.verbose, Begins(a, change)
    PROVE  LogSpecInv'
<1>1. /\ adm[a].at = "idle" /\ adm' = [adm EXCEPT ![a] = change]
      /\ call' = [t \in Threads |-> [call[t] EXCEPT !.fresh = FALSE]]
      /\ UNCHANGED <<log_spec, caches, current, started, verb>>
  BY DEF Begins
<1>2. adm' \in [Admins -> Change] /\ adm'[a] = change
  BY <1>1 DEF LogSpecInv, LogSpecTypeOK, Change
<1>3. \A t \in Threads : call[t] \in Call
  BY DEF LogSpecInv, LogSpecTypeOK, Call
<1>4. \A t \in Threads : /\ [call[t] EXCEPT !.fresh = FALSE] \in Call
                         /\ ~[call[t] EXCEPT !.fresh = FALSE].fresh
  BY <1>3 DEF Call
<1>5. /\ call' \in [Threads -> Call]
      /\ \A t \in Threads : /\ call'[t].at = call[t].at /\ call'[t].tag = call[t].tag
                            /\ call'[t].verbose = call[t].verbose /\ ~call'[t].fresh
  BY <1>1, <1>3, <1>4 DEF Call
<1>6. HashesSettled /\ ArraySettled
  BY <1>1, OneAdmin DEF Changed
<1>7. /\ log_spec' \in ZLogSpec /\ verb' \in [Mapped -> Level]
      /\ caches' \in Seq(Cache) /\ DOMAIN caches' = DOMAIN caches
      /\ ArraySettled => \A g \in Mapped : verb'[g] \in {0, z_log_spec_eval(log_spec', g) + 1}
  BY <1>1 DEF LogSpecInv, LogSpecTypeOK, Cache, CachesSound
<1> QED
  BY <1>1, <1>2, <1>5, <1>6, <1>7, AdminMoves

LEMMA SpecParsed ==
    ASSUME NEW str \in LogSpecs, NEW v \in Level
    PROVE  z_log_spec_init(str, v) \in ZLogSpec
  BY DEF z_log_spec_init, ZLogSpec, ItemLists

LEMMA AdminInv ==
    ASSUME LogSpecInv, LevelsFit, NEW a, Admins = {a},
           \/ \E d \in {-1, 0, 1}, v \in Steps : z_log_change_verbose_level(a, d, v)
           \/ VerboseChanges(a)
           \/ VerboseCompares(a)
           \/ \E str \in LogSpecs : z_log_change_logspec(a, str)
           \/ LogspecSwaps(a)
           \/ z_log_clear_caches(a)
           \/ ClearsArray(a)
    PROVE  LogSpecInv'
<1>0. /\ log_spec \in ZLogSpec /\ log_spec.verbose \in Level /\ verb \in [Mapped -> Level]
      /\ caches \in Seq(Cache) /\ adm[a] \in Change /\ adm \in [Admins -> Change]
      /\ NoChange \in Change
  BY NoCallSound DEF LogSpecInv, LogSpecTypeOK, ZLogSpec, Cache, Change
<1>1. ASSUME NEW d \in {-1, 0, 1}, NEW v \in Steps, z_log_change_verbose_level(a, d, v)
      PROVE  LogSpecInv'
  <2> DEFINE c == [NoChange EXCEPT !.at = "verbose", !.old = log_spec.verbose, !.direction = d, !.value = v]
  <2>1. c \in Change /\ c.at = "verbose" /\ c.old = log_spec.verbose
    BY <1>0, LogSpecAssumption DEF Change
  <2>2. Begins(a, c)
    BY <1>1 DEF z_log_change_verbose_level
  <2> HIDE DEF c
  <2> QED
    BY <2>1, <2>2, BeginsInv
<1>2. ASSUME NEW str \in LogSpecs, z_log_change_logspec(a, str)
      PROVE  LogSpecInv'
  <2> DEFINE c == [NoChange EXCEPT !.at = "swap", !.new_spec = z_log_spec_init(str, log_spec.verbose)]
  <2>1. z_log_spec_init(str, log_spec.verbose) \in ZLogSpec
    BY <1>0, SpecParsed
  <2>2. c \in Change /\ c.at = "swap"
    BY <1>0, <2>1 DEF Change
  <2>3. Begins(a, c)
    BY <1>2 DEF z_log_change_logspec
  <2> HIDE DEF c
  <2> QED
    BY <2>2, <2>3, BeginsInv
<1>3. CASE VerboseChanges(a)
  <2> DEFINE level == Clamped(IF adm[a].direction = 0 THEN adm[a].value
                              ELSE log_spec.verbose + adm[a].direction * adm[a].value)
             c == [adm[a] EXCEPT !.at = "compare"]
  <2>1. /\ adm[a].at = "verbose" /\ log_spec' = [log_spec EXCEPT !.verbose = level]
        /\ adm' = [adm EXCEPT ![a] = c]
        /\ UNCHANGED <<caches, current, started, verb, call>>
    BY <1>3 DEF VerboseChanges
  <2>2. level \in Level
    <3>1. adm[a].direction \in Int /\ adm[a].value \in Int /\ log_spec.verbose \in Int
      BY <1>0 DEF Change, Level
    <3>2. adm[a].direction * adm[a].value \in Int
      BY <3>1
    <3>3. \A n \in Int : Clamped(n) \in Level
      BY LogSpecAssumption DEF Clamped, Level
    <3>4. log_spec.verbose + adm[a].direction * adm[a].value \in Int
      BY <3>1, <3>2
    <3> QED
      BY <3>1, <3>3, <3>4
  <2>3. c \in Change /\ c.at = "compare" /\ c.old = log_spec.verbose
    BY <1>0, <2>1 DEF Change, LogSpecInv, CachesSound
  <2> HIDE DEF level, c
  <2>4. log_spec' \in ZLogSpec /\ log_spec'.verbose = level
    BY <1>0, <2>1, <2>2 DEF ZLogSpec
  <2>5. adm'[a] = c
    BY <1>0, <2>1
  <2>6. ~Changed(a)' => log_spec' = log_spec
    BY <1>0, <2>1, <2>3, <2>4, <2>5 DEF Changed, ZLogSpec
  <2>7. ~Changed(a) /\ ArraySettled
    BY <2>1, OneAdmin DEF Changed
  <2>8. \A g \in Mapped : verb[g] \in {0, z_log_spec_eval(log_spec, g) + 1}
    BY <2>7 DEF LogSpecInv, CachesSound
  <2> QED
    BY <1>0, <2>1, <2>3, <2>4, <2>6, <2>7, <2>8, BusyMoves
<1>4. CASE VerboseCompares(a)
  <2> DEFINE c == IF adm[a].old = log_spec.verbose THEN NoChange ELSE [NoChange EXCEPT !.at = "clear"]
  <2>1. /\ adm[a].at = "compare" /\ adm' = [adm EXCEPT ![a] = c]
        /\ UNCHANGED <<log_spec, caches, current, started, verb, call>>
    BY <1>4 DEF VerboseCompares
  <2>2. c \in Change /\ c.at \in {"idle", "clear"} /\ (c.at = "idle" => adm[a].old = log_spec.verbose)
    BY <1>0 DEF Change, NoChange
  <2> HIDE DEF c
  <2>3. adm'[a] = c
    BY <1>0, <2>1
  <2>4. ~Changed(a)' => ~Changed(a) /\ ArraySettled
    BY <2>1, <2>2, <2>3, OneAdmin DEF Changed
  <2>5. ArraySettled => \A g \in Mapped : verb[g] \in {0, z_log_spec_eval(log_spec, g) + 1}
    BY DEF LogSpecInv, CachesSound
  <2> QED
    BY <1>0, <2>1, <2>2, <2>4, <2>5, BusyMoves
<1>5. CASE LogspecSwaps(a)
  <2> DEFINE c == [NoChange EXCEPT !.at = "clear"]
  <2>1. /\ adm[a].at = "swap" /\ adm' = [adm EXCEPT ![a] = c] /\ log_spec' = adm[a].new_spec
        /\ UNCHANGED <<caches, current, started, verb, call>>
    BY <1>5 DEF LogspecSwaps
  <2>2. c \in Change /\ c.at = "clear" /\ log_spec' \in ZLogSpec
    BY <1>0, <2>1 DEF Change
  <2> HIDE DEF c
  <2>3. Changed(a)'
    BY <1>0, <2>1, <2>2 DEF Changed
  <2> QED
    BY <1>0, <2>1, <2>2, <2>3, BusyMoves
<1>6. CASE z_log_clear_caches(a)
  <2> DEFINE c == [adm[a] EXCEPT !.at = "memset"]
  <2>1. /\ adm[a].at = "clear" /\ adm' = [adm EXCEPT ![a] = c]
        /\ caches' = [j \in DOMAIN caches |-> [caches[j] EXCEPT !.empty_hash = TRUE]]
        /\ UNCHANGED <<log_spec, current, started, verb, call>>
    BY <1>6 DEF z_log_clear_caches
  <2>2. c \in Change /\ c.at = "memset"
    BY <1>0 DEF Change
  <2> HIDE DEF c
  <2>3. \A j \in DOMAIN caches : caches[j] \in Cache
    BY <1>0
  <2>4. \A j \in DOMAIN caches : /\ [caches[j] EXCEPT !.empty_hash = TRUE] \in Cache
                                 /\ [caches[j] EXCEPT !.empty_hash = TRUE].hash = caches[j].hash
                                 /\ [caches[j] EXCEPT !.empty_hash = TRUE].used <=> caches[j].used
                                 /\ [caches[j] EXCEPT !.empty_hash = TRUE].empty_hash
    BY <2>3 DEF Cache
  <2>5. /\ caches' \in Seq(Cache) /\ DOMAIN caches' = DOMAIN caches
        /\ \A j \in DOMAIN caches : caches'[j] = [caches[j] EXCEPT !.empty_hash = TRUE]
    BY <1>0, <2>1, <2>4
  <2>6. \A j \in DOMAIN caches : /\ caches'[j].hash = caches[j].hash
                                 /\ caches'[j].used <=> caches[j].used
                                 /\ caches'[j].empty_hash
    BY <2>4, <2>5
  <2> QED
    BY <1>0, <2>1, <2>2, <2>5, <2>6, BusyMoves
<1>7. CASE ClearsArray(a)
  <2>1. /\ adm[a].at = "memset" /\ adm' = [adm EXCEPT ![a] = NoChange] /\ verb' = [t \in Mapped |-> 0]
        /\ UNCHANGED <<log_spec, caches, current, started, call>>
    BY <1>7 DEF ClearsArray
  <2>2. /\ verb' \in [Mapped -> Level]
        /\ \A g \in Mapped : verb'[g] \in {0, z_log_spec_eval(log_spec', g) + 1}
    BY <2>1, LogSpecAssumption DEF Level
  <2>3. ~Changed(a) /\ NoChange.at = "idle"
    BY <2>1 DEF Changed, NoChange
  <2> HIDE DEF NoChange
  <2> QED
    BY <1>0, <2>1, <2>2, <2>3, BusyMoves
<1> QED
  BY <1>1, <1>2, <1>3, <1>4, <1>5, <1>6, <1>7

LEMMA LogSpecNextInv ==
    ASSUME LogSpecInv, LevelsFit, NEW a, Admins = {a}, LogSpecNext
    PROVE  LogSpecInv'
<1>1. \A t \in Threads : call[t].at # "idle" => t \in started
  BY DEF LogSpecInv, CachesOwned
<1>2. ASSUME NEW t \in Threads,
             FillsArray(t) \/ ChecksHash(t) \/ Unmarks(t) \/ LooksUp(t) \/ Evaluates(t) \/ Inserts(t) \/ Answers(t)
      PROVE  LogSpecInv'
  <2>1. t \in started
    BY <1>1, <1>2 DEF FillsArray, ChecksHash, Unmarks, LooksUp, Evaluates, Inserts, Answers
  <2> QED
    BY <1>2, <2>1, FillsArrayInv, ChecksHashInv, UnmarksInv, LooksUpInv, EvaluatesInv, InsertsInv, AnswersInv
<1>3. ASSUME NEW t \in Threads,
             z_log_grab_cache(t) \/ z_log_release_cache(t) \/ \E tag \in Tags : z_log_enabled_len(t, tag)
      PROVE  LogSpecInv'
  BY <1>3, GrabsInv, ReleasesInv, EnabledInv
<1> QED
  BY <1>2, <1>3, AdminInv DEF LogSpecNext

LEMMA LogSpecStutter ==
    ASSUME LogSpecInv, UNCHANGED logspecvars
    PROVE  LogSpecInv'
<1>1. UNCHANGED <<log_spec, caches, current, started, verb, call, adm>>
  BY DEF logspecvars
<1>2. HashesSettled' = HashesSettled /\ ArraySettled' = ArraySettled /\ Quiet' = Quiet
  BY <1>1 DEF HashesSettled, ArraySettled, Changed, Quiet
<1>3. LogSpecTypeOK' /\ CachesOwned'
  BY <1>1 DEF LogSpecInv, LogSpecTypeOK, CachesOwned
<1>4. CachesSound'
  BY <1>1, <1>2 DEF LogSpecInv, CachesSound, HashSound
<1>5. \A t \in Threads : CallSound(call[t], caches[current[t]])'
  BY <1>1, <1>2 DEF LogSpecInv, CallSound
<1> QED
  BY <1>3, <1>4, <1>5 DEF LogSpecInv

\* Whether a message is logged is decided by the specification in force: however
\* many threads fill their caches and the shared array while one administrator
\* changes the specification, no call that the change does not overlap gets an
\* old answer.  The levels have to fit the guchar of the array.  (With two
\* administrators the comparison with the remembered level can miss a change.)
THEOREM AnswersSound ==
    ASSUME NEW a, Admins = {a}, LevelsFit
    PROVE  Spec => []AnswersCurrent
<1>1. Init => LogSpecInv
  BY LogSpecInitInv DEF Init
<1>2. LogSpecInv /\ [Next]_logvars => LogSpecInv'
  <2> SUFFICES ASSUME LogSpecInv, [Next]_logvars PROVE LogSpecInv'
    OBVIOUS
  <2>1. CASE UNCHANGED logspecvars
    BY <2>1, LogSpecStutter
  <2>2. CASE LogSpecNext
    BY <2>2, LogSpecNextInv
  <2> QED
    BY <2>1, <2>2 DEF Next, logvars
<1>3. LogSpecInv => AnswersCurrent
  BY DEF LogSpecInv, CallSound, AnswersCurrent
<1> QED
  BY <1>1, <1>2, <1>3, PTL DEF Spec

=============================================================================
