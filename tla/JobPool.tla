------------------------------ MODULE JobPool ------------------------------
(***************************************************************************)
(* What the thread module promises (src/src/thread.c): the jobs given to    *)
(* z_thread_new are each run once, at most Limit of them at a time, unless  *)
(* the caller is told that no thread could be created.                      *)
(***************************************************************************)
EXTENDS Naturals, FiniteSets

CONSTANTS
    Jobs,    \* functions handed to z_thread_new
    Limit    \* how many may run at a time

VARIABLES
    waiting,  \* accepted, not started
    running,
    done,
    refused   \* z_thread_new returned FALSE

pool == <<waiting, running, done, refused>>

PoolInit ==
    /\ waiting = {}
    /\ running = {}
    /\ done = {}
    /\ refused = {}

Submit(j) ==
    /\ j \notin waiting \cup running \cup done \cup refused
    /\ waiting' = waiting \cup {j}
    /\ UNCHANGED <<running, done, refused>>

Start(j) ==
    /\ j \in waiting
    /\ Cardinality(running) < Limit
    /\ waiting' = waiting \ {j}
    /\ running' = running \cup {j}
    /\ UNCHANGED <<done, refused>>

Refuse(j) ==
    /\ j \in waiting
    /\ waiting' = waiting \ {j}
    /\ refused' = refused \cup {j}
    /\ UNCHANGED <<running, done>>

Complete(j) ==
    /\ j \in running
    /\ running' = running \ {j}
    /\ done' = done \cup {j}
    /\ UNCHANGED <<waiting, refused>>

PoolNext == \E j \in Jobs : Submit(j) \/ Start(j) \/ Refuse(j) \/ Complete(j)

PoolSpec == PoolInit /\ [][PoolNext]_pool
=============================================================================
