----------------------------- MODULE ThreadPool -----------------------------
(***************************************************************************)
(* The threads of libzorpll (src/src/thread.c).  z_thread_new starts a      *)
(* thread for every job until max_threads of them exist; further jobs wait  *)
(* in a queue that every thread looks into before it exits.  All decisions  *)
(* are taken under the lock of the queue, but the creation of a thread is   *)
(* not: it happens, or fails, after the thread has been counted.            *)
(*                                                                         *)
(* The thread created for job j is thr[j]; it may go on to run other jobs.  *)
(***************************************************************************)
EXTENDS Naturals, Sequences, FiniteSets

CONSTANTS
    Jobs,           \* the calls of z_thread_new an application makes
    max_threads,    \* as set before z_thread_init
    CreateMayFail   \* whether g_thread_create_full can fail

ASSUME PoolAssumption ==
    /\ IsFiniteSet(Jobs)
    /\ max_threads \in Nat \ {0}
    /\ CreateMayFail \in BOOLEAN
    /\ "none" \notin Jobs

VARIABLES
    num_threads,  \* threads counted against max_threads
    queue,        \* jobs that wait for a thread
    queue_refs,   \* the reference count of the queue
    submitted,    \* jobs that z_thread_new was called for
    thr,          \* the thread created for each job
    done,         \* jobs whose function and callbacks have returned
    destroyed     \* z_thread_destroy was called

vars == <<num_threads, queue, queue_refs, submitted, thr, done, destroyed>>

NoJob == "none"

ThreadInit ==
    /\ num_threads = 0
    /\ queue = <<>>
    /\ queue_refs = 1
    /\ submitted = {}
    /\ thr = [j \in Jobs |-> [pc |-> "none", job |-> NoJob]]
    /\ done = {}
    /\ destroyed = FALSE

\* (mutant) one thread more than the limit
AtLimit_over == num_threads > max_threads
AtLimit == num_threads >= max_threads

\* (mutant) the new thread does not get a reference of its own
CountThread_unref ==
    /\ num_threads' = num_threads + 1
    /\ UNCHANGED queue_refs

\* The thread is counted and gets a reference to the queue.
CountThread ==
    /\ num_threads' = num_threads + 1
    /\ queue_refs' = queue_refs + 1

z_thread_new(j) ==
    /\ ~destroyed
    /\ j \notin submitted
    /\ submitted' = submitted \cup {j}
    /\ \/ /\ AtLimit
          /\ queue' = Append(queue, j)
          /\ UNCHANGED <<num_threads, queue_refs, thr>>
       \/ /\ ~AtLimit
          /\ CountThread
          /\ thr' = [thr EXCEPT ![j] = [pc |-> "creating", job |-> j]]
          /\ UNCHANGED queue
    /\ UNCHANGED <<done, destroyed>>

\* g_thread_create_full succeeds: the thread enters z_thread_func.
ThreadStarts(t) ==
    /\ thr[t].pc = "creating"
    /\ thr' = [thr EXCEPT ![t] = [pc |-> "run", job |-> thr[t].job]]
    /\ UNCHANGED <<num_threads, queue, queue_refs, submitted, done, destroyed>>

\* It fails: the count is taken back under the lock, the reference is not.
CreateFails(t) ==
    /\ CreateMayFail
    /\ thr[t].pc = "creating"
    /\ thr' = [thr EXCEPT ![t] = [pc |-> "failed", job |-> thr[t].job]]
    /\ num_threads' = num_threads - 1
    /\ UNCHANGED <<queue, queue_refs, submitted, done, destroyed>>

\* z_thread_func_core: the start callbacks, the function, the stop callbacks.
z_thread_func_core(t) ==
    /\ thr[t].pc = "run"
    /\ done' = done \cup {thr[t].job}
    /\ thr' = [thr EXCEPT ![t] = [pc |-> "pop", job |-> NoJob]]
    /\ UNCHANGED <<num_threads, queue, queue_refs, submitted, destroyed>>

\* (mutant) the thread is still counted after it has left
Leave_counted ==
    /\ queue_refs' = queue_refs - 1
    /\ UNCHANGED num_threads

Leave ==
    /\ num_threads' = num_threads - 1
    /\ queue_refs' = queue_refs - 1

\* (mutant) the thread exits without looking into the queue
KeepsGoing_never == FALSE
KeepsGoing == queue # <<>>

\* (mutant) the job is taken but stays in the queue
Rest_same == queue
Rest == Tail(queue)

\* The end of the loop of z_thread_func, under the lock of the queue.
NextJob(t) ==
    /\ thr[t].pc = "pop"
    /\ \/ /\ KeepsGoing
          /\ thr' = [thr EXCEPT ![t] = [pc |-> "run", job |-> Head(queue)]]
          /\ queue' = Rest
          /\ UNCHANGED <<num_threads, queue_refs>>
       \/ /\ ~KeepsGoing
          /\ thr' = [thr EXCEPT ![t] = [pc |-> "exited", job |-> NoJob]]
          /\ Leave
          /\ UNCHANGED queue
    /\ UNCHANGED <<submitted, done, destroyed>>

\* The program exits: the first reference of the queue is dropped.
z_thread_destroy ==
    /\ ~destroyed
    /\ destroyed' = TRUE
    /\ queue_refs' = queue_refs - 1
    /\ UNCHANGED <<num_threads, queue, submitted, thr, done>>

Creation(t) == ThreadStarts(t) \/ CreateFails(t)

ThreadNext ==
    \/ \E j \in Jobs : z_thread_new(j)
    \/ \E t \in Jobs : Creation(t) \/ z_thread_func_core(t) \/ NextJob(t)
    \/ z_thread_destroy

ThreadSpec == ThreadInit /\ [][ThreadNext]_vars

\* The scheduler runs every thread, and the functions handed over return.
FairSpec ==
    /\ ThreadSpec
    /\ \A t \in Jobs : /\ WF_vars(Creation(t))
                       /\ WF_vars(z_thread_func_core(t))
                       /\ WF_vars(NextJob(t))

-----------------------------------------------------------------------------
(* Properties. *)

Running == {thr[t].job : t \in {u \in Jobs : thr[u].pc = "run"}}
Queued == {queue[i] : i \in 1 .. Len(queue)}

\* Threads that are counted: being created, or inside of z_thread_func.
Counted == {t \in Jobs : thr[t].pc \in {"creating", "run", "pop"}}

ThreadType == [pc : {"none", "creating", "run", "pop", "exited", "failed"},
               job : Jobs \cup {NoJob}]

\* Every variable has its type, and the counters never drop below zero.
TypeOK ==
    /\ num_threads \in Nat
    /\ queue \in Seq(Jobs)
    /\ queue_refs \in Nat
    /\ submitted \subseteq Jobs
    /\ thr \in [Jobs -> ThreadType]
    /\ done \subseteq Jobs
    /\ destroyed \in BOOLEAN

\* num_threads is exactly the number of threads that exist or are about to:
\* neither a failed creation nor an exit leaves it off.
NumThreadsExact == num_threads = Cardinality(Counted)

\* The limit holds of the threads themselves, not only of the counter.
ThreadLimit == Cardinality(Counted) <= max_threads

\* The queue outlives every thread that will still look into it, also when
\* z_thread_destroy comes before the threads have ended.
QueueOutlivesThreads ==
    queue_refs >= Cardinality(Counted) + (IF destroyed THEN 0 ELSE 1)

\* Every job is in one place: it waits, or one thread has it, or it is over.
JobsKeptOnce ==
    /\ \A i, k \in 1 .. Len(queue) : queue[i] = queue[k] => i = k
    /\ \A t, u \in Jobs : thr[t].job = thr[u].job /\ thr[t].job # NoJob => t = u
    /\ \A t \in Jobs : thr[t].job \notin Queued \cup done
    /\ Queued \cap done = {}

\* The abstract pool, read off the queue and the threads.
Waiting == Queued \cup {t \in Jobs : thr[t].pc = "creating"}
Refused == {t \in Jobs : thr[t].pc = "failed"}

Pool == INSTANCE JobPool WITH
    Limit <- max_threads,
    waiting <- Waiting,
    running <- Running,
    done <- done,
    refused <- Refused

\* Whatever the threads do is what a pool of max_threads slots may do.
ImplementsPool == Pool!PoolSpec

\* Every job that was handed over is run in the end, unless the creation of a
\* thread has failed: in particular a job is not left behind by a thread that
\* looks into the queue for the last time while the job is being queued.
JobServed ==
    \A j \in Jobs : j \in submitted ~> (j \in done \/ Refused # {})

\* "waiting for one to become free": a queued job is run in the end, whatever
\* becomes of the threads that other calls of z_thread_new create.
QueuedJobServed ==
    \A j \in Jobs : j \in Queued ~> j \in done

=============================================================================
