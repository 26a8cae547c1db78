---------------------------- MODULE ProcessProofs ---------------------------
(***************************************************************************)
(* Theorems about starting and supervising a daemon (Process): a supervisor  *)
(* never runs two daemons at a time, the pid file names the one that is up,  *)
(* the restarts are limited, and a success is reported only by a daemon that *)
(* runs as it was asked to, for every value of the options.                  *)
(***************************************************************************)
EXTENDS Process, TLAPS, FiniteSetTheorems, WellFoundedInduction

-----------------------------------------------------------------------------
(* The table of restart times. *)

Table == Seq(Ages)

\* The entries that count.
Recents(table) == {i \in DOMAIN table : table[i] <= restart_interval}

\* Later entries are younger.
Sorted(table) == \A i, j \in 1 .. Len(table) : i <= j => table[j] <= table[i]

LEMMA Options ==
    /\ restart_max \in Nat /\ restart_max >= 2
    /\ restart_interval \in Nat
    /\ Old \in Nat /\ Old = restart_interval + 1
    /\ Ages = 0 .. Old
<1>1. restart_max \in Nat /\ restart_max >= 2
  BY SupervisorAssumption DEF restart_max, Least
<1>2. restart_interval_min \in Nat /\ restart_interval_min >= 5
  BY <1>1 DEF restart_interval_min, Most
<1>3. restart_interval \in Nat
  BY <1>2, SupervisorAssumption DEF restart_interval
<1> QED
  BY <1>1, <1>3 DEF Old, Ages

LEMMA MinOfNats ==
    ASSUME NEW S, S \subseteq Nat, S # {}
    PROVE  \E x \in S : \A y \in S : x <= y
<1> DEFINE R == {p \in Nat \X Nat : p[1] < p[2]}
<1>1. IsWellFoundedOn(R, Nat)
  BY NatLessThanWellFounded, Zenon DEF OpToRel
<1>2. \A y, x \in Nat : y < x => <<y, x>> \in R
  OBVIOUS
<1> HIDE DEF R
<1>3. PICK x \in S : \A y \in S : ~ (<<y, x>> \in R)
  BY <1>1, WFMin
<1>4. \A y \in S : ~ (y < x)
  BY <1>2, <1>3, Zenon
<1>5. \A y \in S : x <= y
  BY <1>4
<1> QED
  BY <1>5

\* The scan from the end of the table stops somewhere.
LEMMA RecentFound ==
    ASSUME NEW table \in Table
    PROVE  /\ Recent(table) \in 0 .. Len(table)
           /\ \A i \in Len(table) - Recent(table) + 1 .. Len(table) : table[i] <= restart_interval
           /\ Recent(table) < Len(table) => table[Len(table) - Recent(table)] > restart_interval
<1> DEFINE P(n) == /\ \A i \in Len(table) - n + 1 .. Len(table) : table[i] <= restart_interval
                   /\ n < Len(table) => table[Len(table) - n] > restart_interval
           S == {n \in 0 .. Len(table) : n < Len(table) => table[Len(table) - n] > restart_interval}
<1>1. Len(table) \in Nat /\ \A i \in 1 .. Len(table) : table[i] \in Int
  BY Options DEF Table
<1>2. S \subseteq Nat /\ Len(table) \in S
  BY <1>1
<1>3. PICK n \in S : \A m \in S : n <= m
  BY <1>2, MinOfNats
<1>4. ASSUME NEW i \in Len(table) - n + 1 .. Len(table)
      PROVE  table[i] <= restart_interval
  <2>1. n \in 0 .. Len(table)
    OBVIOUS
  <2>2. /\ Len(table) - i \in 0 .. Len(table) /\ Len(table) - i < n /\ Len(table) - i < Len(table)
        /\ i \in 1 .. Len(table) /\ Len(table) - (Len(table) - i) = i
    BY <1>1, <2>1
  <2>3. Len(table) - i \notin S
    BY <1>1, <1>3, <2>1, <2>2
  <2>4. ~(table[i] > restart_interval)
    BY <2>2, <2>3
  <2> QED
    BY <1>1, <2>2, <2>4, Options
<1>5. n \in 0 .. Len(table) /\ P(n)
  BY <1>4
<1> HIDE DEF P
<1>6. Recent(table) = CHOOSE m \in 0 .. Len(table) : P(m)
  BY DEF Recent, P
<1>7. Recent(table) \in 0 .. Len(table) /\ P(Recent(table))
  BY <1>5, <1>6
<1> QED
  BY <1>7 DEF P

LEMMA RecentsFinite ==
    ASSUME NEW table \in Table
    PROVE  /\ Recents(table) \subseteq 1 .. Len(table)
           /\ IsFiniteSet(Recents(table)) /\ Cardinality(Recents(table)) \in Nat
<1>1. Len(table) \in Nat /\ DOMAIN table = 1 .. Len(table)
  BY DEF Table
<1>2. IsFiniteSet(1 .. Len(table))
  BY <1>1, FS_Interval
<1>3. Recents(table) \in SUBSET (1 .. Len(table))
  BY <1>1 DEF Recents
<1>4. IsFiniteSet(Recents(table))
  BY <1>2, <1>3, FS_Subset
<1> QED
  BY <1>3, <1>4, FS_CardinalityType

\* In a table in order the entries that count are the ones the scan sees.
LEMMA RecentCounts ==
    ASSUME NEW table \in Table, Sorted(table)
    PROVE  Cardinality(Recents(table)) = Recent(table)
<1> DEFINE n == Recent(table)
           lo == Len(table) - n + 1
<1>1. Len(table) \in Nat /\ DOMAIN table = 1 .. Len(table)
  BY DEF Table
<1>2. \A i \in 1 .. Len(table) : table[i] \in Int
  BY Options DEF Table
<1>3. /\ n \in 0 .. Len(table)
      /\ \A i \in lo .. Len(table) : table[i] <= restart_interval
      /\ n < Len(table) => table[Len(table) - n] > restart_interval
  BY RecentFound
<1> HIDE DEF n
<1>4. lo .. Len(table) \subseteq Recents(table)
  BY <1>1, <1>3 DEF Recents
<1>5. ASSUME NEW i \in Recents(table)
      PROVE  i \in lo .. Len(table)
  <2>1. i \in 1 .. Len(table) /\ table[i] <= restart_interval
    BY <1>1 DEF Recents
  <2>2. CASE i < lo
    <3>1. n < Len(table) /\ i <= Len(table) - n /\ Len(table) - n \in 1 .. Len(table)
      BY <1>1, <1>3, <2>1, <2>2
    <3>2. table[Len(table) - n] <= table[i]
      BY <2>1, <3>1 DEF Sorted
    <3>3. table[i] \in Int /\ table[Len(table) - n] \in Int
      BY <1>2, <2>1, <3>1
    <3> QED
      BY <1>3, <2>1, <3>1, <3>2, <3>3, Options
  <2> QED
    BY <1>1, <1>3, <2>1, <2>2
<1>6. Recents(table) = lo .. Len(table)
  BY <1>4, <1>5
<1>7. Cardinality(lo .. Len(table)) = n
  <2>1. lo \in Int /\ Len(table) \in Int
    BY <1>1, <1>3
  <2>2. Cardinality(lo .. Len(table)) = IF lo > Len(table) THEN 0 ELSE Len(table) - lo + 1
    BY <2>1, FS_Interval
  <2> QED
    BY <1>1, <1>3, <2>2
<1> QED
  BY <1>6, <1>7 DEF n

\* A second makes no entry count that did not count before.
LEMMA OlderTable ==
    ASSUME NEW table \in Table
    PROVE  /\ Older(table) \in Table /\ Len(Older(table)) = Len(table)
           /\ Sorted(table) => Sorted(Older(table))
           /\ Recents(Older(table)) \subseteq Recents(table)
           /\ Cardinality(Recents(Older(table))) <= Cardinality(Recents(table))
<1>1. Len(table) \in Nat /\ DOMAIN table = 1 .. Len(table)
  BY DEF Table
<1>2. \A i \in 1 .. Len(table) : table[i] \in Int /\ table[i] \in 0 .. Old
  BY Options DEF Table
<1>3. \A x \in 0 .. Old : Least(x + 1, Old) \in 0 .. Old
  BY Options DEF Least
<1>4. Older(table) \in Table /\ Len(Older(table)) = Len(table)
  BY <1>1, <1>2, <1>3, Options DEF Older, Table
<1>5. \A i \in 1 .. Len(table) : Older(table)[i] = Least(table[i] + 1, Old)
  BY <1>1 DEF Older
<1>6. Sorted(table) => Sorted(Older(table))
  <2>1. \A x, y \in 0 .. Old : x <= y => Least(x + 1, Old) <= Least(y + 1, Old)
    BY Options DEF Least
  <2> QED
    BY <1>2, <1>4, <1>5, <2>1 DEF Sorted
<1>7. Recents(Older(table)) \subseteq Recents(table)
  <2>1. \A x \in 0 .. Old : Least(x + 1, Old) <= restart_interval => x <= restart_interval
    BY Options DEF Least
  <2>2. DOMAIN Older(table) = DOMAIN table
    BY <1>1 DEF Older
  <2> QED
    BY <1>1, <1>2, <1>5, <2>1, <2>2 DEF Recents
<1>8. Cardinality(Recents(Older(table))) <= Cardinality(Recents(table))
  BY <1>7, RecentsFinite, FS_Subset
<1> QED
  BY <1>4, <1>6, <1>7, <1>8

\* A start is recorded at the end, and counts.
LEMMA RecordedStart ==
    ASSUME NEW table \in Table
    PROVE  /\ Append(table, 0) \in Table /\ Len(Append(table, 0)) = Len(table) + 1
           /\ Sorted(table) => Sorted(Append(table, 0))
           /\ Cardinality(Recents(Append(table, 0))) = Cardinality(Recents(table)) + 1
<1> DEFINE new == Append(table, 0)
<1>1. Len(table) \in Nat /\ DOMAIN table = 1 .. Len(table)
  BY DEF Table
<1>2. \A i \in 1 .. Len(table) : table[i] \in Int /\ 0 <= table[i]
  BY Options DEF Table
<1>3. 0 \in Ages
  BY Options
<1>4. /\ new \in Table /\ Len(new) = Len(table) + 1 /\ new[Len(table) + 1] = 0
      /\ DOMAIN new = 1 .. Len(table) + 1
      /\ \A i \in 1 .. Len(table) : new[i] = table[i]
  BY <1>1, <1>3 DEF Table
<1> HIDE DEF new
<1>5. Sorted(table) => Sorted(new)
  <2> SUFFICES ASSUME Sorted(table), NEW i \in 1 .. Len(table) + 1, NEW j \in 1 .. Len(table) + 1, i <= j
               PROVE  new[j] <= new[i]
    BY <1>4 DEF Sorted
  <2>1. CASE j = Len(table) + 1
    <3>1. CASE i = Len(table) + 1
      BY <1>4, <2>1, <3>1
    <3>2. CASE i # Len(table) + 1
      <4>1. i \in 1 .. Len(table)
        BY <1>1, <3>2
      <4> QED
        BY <1>2, <1>4, <2>1, <4>1
    <3> QED
      BY <3>1, <3>2
  <2>2. CASE j # Len(table) + 1
    <3>1. i \in 1 .. Len(table) /\ j \in 1 .. Len(table)
      BY <1>1, <2>2
    <3> QED
      BY <1>4, <3>1 DEF Sorted
  <2> QED
    BY <2>1, <2>2
<1>6. Recents(new) = Recents(table) \cup {Len(table) + 1}
  <2>1. 0 <= restart_interval
    BY Options
  <2>2. ASSUME NEW i \in 1 .. Len(table) + 1
        PROVE  i = Len(table) + 1 \/ i \in 1 .. Len(table)
    BY <1>1
  <2>3. 1 .. Len(table) \subseteq 1 .. Len(table) + 1 /\ Len(table) + 1 \in 1 .. Len(table) + 1
    BY <1>1
  <2> QED
    BY <1>1, <1>4, <2>1, <2>2, <2>3 DEF Recents
<1>7. Len(table) + 1 \notin Recents(table)
  BY <1>1 DEF Recents
<1> QED
  BY <1>4, <1>5, <1>6, <1>7, RecentsFinite, FS_AddElement DEF new

\* What memmove leaves is again a table with room for one more.
LEMMA RoomMade ==
    ASSUME NEW table \in Table, Len(table) <= PROC_RESTART_MAX, NEW kept \in Room(table)
    PROVE  /\ kept \in Table /\ Len(kept) < PROC_RESTART_MAX
           /\ Len(table) < PROC_RESTART_MAX => kept = table
<1>1. Len(table) \in Nat
  BY DEF Table
<1>2. CASE Len(table) < PROC_RESTART_MAX
  BY <1>2 DEF Room
<1>3. CASE ~(Len(table) < PROC_RESTART_MAX)
  <2>1. Len(table) = PROC_RESTART_MAX
    BY <1>1, <1>3, SupervisorAssumption
  <2>2. PICK behind \in [1 .. Shift - 1 -> Ages] :
          kept = [i \in 1 .. PROC_RESTART_MAX - 1 |->
                     IF i + Shift <= PROC_RESTART_MAX THEN table[i + Shift]
                     ELSE behind[i + Shift - PROC_RESTART_MAX]]
    BY <1>3 DEF Room
  <2>3. \A i \in 1 .. PROC_RESTART_MAX - 1 : kept[i] \in Ages
    <3> SUFFICES ASSUME NEW i \in 1 .. PROC_RESTART_MAX - 1 PROVE kept[i] \in Ages
      OBVIOUS
    <3>1. CASE i + Shift <= PROC_RESTART_MAX
      <4>1. i + Shift \in 1 .. Len(table)
        BY <2>1, <3>1, SupervisorAssumption
      <4> QED
        BY <2>2, <3>1, <4>1 DEF Table
    <3>2. CASE ~(i + Shift <= PROC_RESTART_MAX)
      <4>1. i + Shift - PROC_RESTART_MAX \in 1 .. Shift - 1
        BY <3>2, SupervisorAssumption
      <4> QED
        BY <2>2, <3>2, <4>1
    <3> QED
      BY <3>1, <3>2
  <2>4. PROC_RESTART_MAX - 1 \in Nat
    BY SupervisorAssumption
  <2>5. kept \in [1 .. PROC_RESTART_MAX - 1 -> Ages]
    BY <2>2, <2>3
  <2>6. kept \in Table /\ Len(kept) = PROC_RESTART_MAX - 1
    BY <2>4, <2>5 DEF Table
  <2> QED
    BY <1>3, <2>6, SupervisorAssumption
<1> QED
  BY <1>2, <1>3

-----------------------------------------------------------------------------
(* The inductive invariant of the supervisors. *)

SupPcs == {"none", "fork", "recv", "watch", "wait", "reap", "reap_sleep", "kill",
           "kill_sleep", "decide", "exited", "killed"}

SupRec == [pc : SupPcs, tries : 0 .. 6, restart_time : Table, moved : BOOLEAN,
           restart_count : Nat, first : BOOLEAN, deadlock : BOOLEAN, rc : Zombie]

DaemonStates == Alive \cup Zombie \cup {NoChild}

\* Where the supervisor is says how far it has come in getting rid of a daemon.
Fine(r, d, sig) ==
    /\ r.pc \in {"none", "fork", "decide"} => d \notin Alive
    /\ r.pc = "none" => d = NoChild
    /\ r.pc \in {"recv", "watch", "wait"} => r.tries = 0
    /\ r.pc \in {"reap", "kill"} /\ r.tries = 6 => d \notin Alive
    /\ r.pc \in {"reap_sleep", "kill_sleep"} => r.tries < 6 /\ sig = Signal(r.tries)
    /\ r.pc \notin {"fork", "recv", "exited", "killed"} => ~r.first

\* What the last count says of the table, until entries move in from behind it.
Limited(r) ==
    ~r.moved => /\ Sorted(r.restart_time)
                /\ Cardinality(Recents(r.restart_time)) <= r.restart_count - 1
                /\ Cardinality(Recents(r.restart_time)) <= restart_max
                /\ r.pc = "fork" => r.restart_count <= restart_max

RecOK(r) ==
    /\ r \in SupRec
    /\ Len(r.restart_time) <= PROC_RESTART_MAX
    /\ Limited(r)

Supervised(s) == RecOK(sup[s]) /\ Fine(sup[s], daemon[s], signal[s])

\* The first daemon has written the file before it is up.
Named ==
    sup["second"].pc = "none" /\ ~PidfileMayFail /\ daemon["first"] \in {"written", "up", "hung"}
        => pidfile = "first"

Results == {"empty", "ok", "fail"}

\* The result that travels from the daemon to the startup process.
Truthful ==
    /\ \A s \in Sups : /\ init_result[s] \in Results
                       /\ sup[s].first /\ init_result[s] = "ok" => first_ok
    /\ startup_result \in Results
    /\ startup_result = "ok" => first_ok
    /\ startup = "ok" => first_ok
    /\ startup = "none" => \A s \in Sups : sup[s] = NoSup /\ init_result[s] = "empty"

SupInv ==
    /\ DOMAIN sup = Sups /\ DOMAIN daemon = Sups /\ DOMAIN init_result = Sups
    /\ DOMAIN signal = Sups
    /\ \A s \in Sups : daemon[s] \in DaemonStates /\ Supervised(s)
    /\ Named
    /\ Truthful

\* A supervisor is in order again after a step that at most lets the table age.
LEMMA Advanced ==
    ASSUME NEW r, RecOK(r), NEW q \in SupRec,
           q.restart_time = r.restart_time \/ q.restart_time = Older(r.restart_time),
           q.moved = r.moved, q.restart_count = r.restart_count,
           (q.pc = "fork") => (r.pc = "fork" \/ q.restart_count <= restart_max)
    PROVE  RecOK(q)
<1> DEFINE old == r.restart_time
           new == q.restart_time
<1>1. old \in Table /\ new \in Table /\ r.restart_count \in Nat
  BY DEF RecOK, SupRec
<1>2. Len(new) = Len(old)
  BY <1>1, OlderTable
<1>3. Len(new) <= PROC_RESTART_MAX
  BY <1>2 DEF RecOK
<1>4. ASSUME ~q.moved PROVE Sorted(new)
  BY <1>1, <1>4, OlderTable DEF RecOK, Limited
<1>5. ASSUME ~q.moved
      PROVE  /\ Cardinality(Recents(new)) <= q.restart_count - 1
             /\ Cardinality(Recents(new)) <= restart_max
  <2> DEFINE m == Cardinality(Recents(old))
             n == Cardinality(Recents(new))
  <2>1. m \in Nat /\ n \in Nat
    BY <1>1, RecentsFinite
  <2>2. n <= m
    BY <1>1, <2>1, OlderTable
  <2>3. m <= r.restart_count - 1 /\ m <= restart_max
    BY <1>5 DEF RecOK, Limited
  <2> HIDE DEF m, n
  <2>4. n <= q.restart_count - 1 /\ n <= restart_max
    BY <1>1, <2>1, <2>2, <2>3, Options
  <2> QED
    BY <2>4 DEF n
<1>6. ASSUME ~q.moved, q.pc = "fork" PROVE q.restart_count <= restart_max
  BY <1>6 DEF RecOK, Limited
<1> QED
  BY <1>3, <1>4, <1>5, <1>6 DEF RecOK, Limited

\* A supervisor moves, and its daemon does not come up by that.
LEMMA SupervisorMoves ==
    ASSUME SupInv, NEW s \in Sups, NEW r, RecOK(r), sup[s].pc # "none", r.pc # "none",
           r.first => sup[s].first,
           sup' = [sup EXCEPT ![s] = r],
           DOMAIN daemon' = Sups, \A t \in Sups \ {s} : daemon'[t] = daemon[t],
           daemon'[s] \in DaemonStates,
           daemon'[s] \in {"written", "up", "hung"} => daemon'[s] = daemon[s],
           DOMAIN signal' = Sups, \A t \in Sups \ {s} : signal'[t] = signal[t],
           Fine(r, daemon'[s], signal'[s]),
           init_result' = init_result \/ init_result' = [init_result EXCEPT ![s] = "empty"],
           startup' = startup, startup_result' \in Results, (startup_result' = "ok") => first_ok,
           pidfile' = pidfile, first_ok' = first_ok
    PROVE  SupInv'
<1>1. /\ DOMAIN sup' = Sups /\ sup'[s] = r
      /\ \A t \in Sups \ {s} : sup'[t] = sup[t]
  BY DEF SupInv
<1>2. /\ DOMAIN init_result' = Sups
      /\ \A t \in Sups : init_result'[t] = init_result[t] \/ init_result'[t] = "empty"
  BY DEF SupInv
<1>3. ASSUME NEW t \in Sups PROVE (daemon[t] \in DaemonStates /\ Supervised(t))'
  <2>1. CASE t = s
    BY <1>1, <2>1 DEF Supervised
  <2>2. CASE t # s
    BY <1>1, <2>2 DEF SupInv, Supervised
  <2> QED
    BY <2>1, <2>2
<1>4. Named'
  <2> SUFFICES ASSUME sup'["second"].pc = "none", ~PidfileMayFail,
                      daemon'["first"] \in {"written", "up", "hung"}
               PROVE  pidfile' = "first"
    BY DEF Named
  <2>1. s = "first"
    BY <1>1 DEF Sups
  <2>2. sup["second"].pc = "none" /\ daemon["first"] \in {"written", "up", "hung"}
    BY <1>1, <2>1 DEF Sups
  <2> QED
    BY <2>2 DEF SupInv, Named
<1>5. Truthful'
  <2>1. startup # "none"
    BY DEF SupInv, Truthful, NoSup
  <2>2. ASSUME NEW t \in Sups, sup'[t].first, init_result'[t] = "ok" PROVE first_ok
    BY <1>1, <1>2, <2>2 DEF SupInv, Truthful
  <2>3. \A t \in Sups : init_result'[t] \in Results
    BY <1>2 DEF SupInv, Truthful, Results
  <2> QED
    BY <2>1, <2>2, <2>3 DEF SupInv, Truthful
<1> QED
  BY <1>1, <1>2, <1>3, <1>4, <1>5 DEF SupInv

\* A living daemon moves, or dies.
LEMMA DaemonMoves ==
    ASSUME SupInv, NEW s \in Sups, NEW d \in DaemonStates, d # NoChild, daemon[s] \in Alive,
           daemon' = [daemon EXCEPT ![s] = d],
           (s = "first" /\ ~PidfileMayFail /\ d \in {"written", "up", "hung"}
              /\ sup["second"].pc = "none") => pidfile' = "first",
           UNCHANGED <<startup, startup_result, sup, signal>>,
           DOMAIN init_result' = Sups, \A t \in Sups \ {s} : init_result'[t] = init_result[t],
           init_result'[s] \in Results,
           (sup[s].first /\ init_result'[s] = "ok") => first_ok',
           first_ok => first_ok'
    PROVE  SupInv'
<1>1. /\ DOMAIN daemon' = Sups /\ daemon'[s] = d
      /\ \A t \in Sups \ {s} : daemon'[t] = daemon[t]
  BY DEF SupInv
<1>2. Fine(sup[s], daemon[s], signal[s]) /\ sup[s].pc # "none"
  BY DEF SupInv, Supervised, Fine
<1>3. Fine(sup[s], d, signal[s])
  BY <1>2 DEF Fine
<1>4. ASSUME NEW t \in Sups PROVE (daemon[t] \in DaemonStates /\ Supervised(t))'
  <2>1. CASE t = s
    BY <1>1, <1>3, <2>1 DEF SupInv, Supervised
  <2>2. CASE t # s
    BY <1>1, <2>2 DEF SupInv, Supervised
  <2> QED
    BY <2>1, <2>2
<1>5. Named'
  <2> SUFFICES ASSUME sup["second"].pc = "none", ~PidfileMayFail,
                      daemon'["first"] \in {"written", "up", "hung"}
               PROVE  pidfile' = "first"
    BY DEF Named
  <2>1. s = "first"
    BY <1>2 DEF Sups
  <2> QED
    BY <1>1, <2>1
<1>6. Truthful'
  <2>1. startup # "none"
    BY <1>2 DEF SupInv, Truthful, NoSup
  <2>2. ASSUME NEW t \in Sups, sup[t].first, init_result'[t] = "ok" PROVE first_ok'
    <3>1. CASE t = s
      BY <2>2, <3>1
    <3>2. CASE t # s
      BY <2>2, <3>2 DEF SupInv, Truthful
    <3> QED
      BY <3>1, <3>2
  <2> QED
    BY <2>1, <2>2 DEF SupInv, Truthful
<1> QED
  BY <1>1, <1>4, <1>5, <1>6 DEF SupInv

-----------------------------------------------------------------------------
(* Every step keeps the invariant. *)

LEMMA NothingStarted == RecOK(NoSup) /\ Cardinality(Recents(<<>>)) = 0
<1>1. <<>> \in Table /\ Len(<<>>) = 0
  BY DEF Table
<1>2. Recents(<<>>) = {}
  BY DEF Recents
<1>3. Cardinality(Recents(<<>>)) = 0
  BY <1>2, FS_EmptySet
<1>4. Sorted(<<>>)
  BY <1>1 DEF Sorted
<1>5. NoSup \in SupRec
  BY <1>1 DEF NoSup, SupRec, SupPcs, Zombie
<1>6. Limited(NoSup)
  BY <1>3, <1>4, Options DEF Limited, NoSup
<1> QED
  BY <1>1, <1>3, <1>5, <1>6, SupervisorAssumption DEF RecOK, NoSup

LEMMA SupInvInit == ASSUME Init PROVE SupInv
<1>1. \A s \in Sups : /\ sup[s] = NoSup /\ daemon[s] = NoChild /\ signal[s] = "none"
                      /\ init_result[s] = "empty"
  BY DEF Init
<1>2. NoChild \in DaemonStates /\ NoChild \notin Alive
  BY DEF DaemonStates, NoChild, Alive
<1>3. Fine(NoSup, NoChild, "none")
  BY <1>2 DEF Fine, NoSup
<1>4. \A s \in Sups : daemon[s] \in DaemonStates /\ Supervised(s)
  BY <1>1, <1>2, <1>3, NothingStarted DEF Supervised
<1>5. Named
  BY <1>1 DEF Named, NoChild, Sups
<1>6. Truthful
  BY <1>1 DEF Truthful, Init, NoSup, Results
<1> QED
  BY <1>4, <1>5, <1>6 DEF SupInv, Init

LEMMA SupInvForkSupervisor == ASSUME SupInv, ForkSupervisor PROVE SupInv'
<1> DEFINE r == [NoSup EXCEPT !.pc = "fork", !.first = TRUE]
<1>1. /\ r \in SupRec /\ r.pc = "fork" /\ r.restart_time = NoSup.restart_time
      /\ r.moved = NoSup.moved /\ r.restart_count = NoSup.restart_count
      /\ r.restart_count = 1
  BY NothingStarted DEF RecOK, SupRec, SupPcs, NoSup
<1>2. \A s \in Sups : sup[s] = NoSup /\ init_result[s] = "empty"
  BY DEF SupInv, Truthful, ForkSupervisor
<1>3. sup' = [sup EXCEPT !["first"] = r]
  BY DEF ForkSupervisor
<1> HIDE DEF r
<1>4. RecOK(r)
  <2>1. r.restart_count <= restart_max
    BY <1>1, Options
  <2> QED
    BY <1>1, <2>1, NothingStarted, Advanced
<1>5. \A s \in Sups : daemon[s] = NoChild
  BY <1>2 DEF SupInv, Supervised, Fine, NoSup
<1>6. Fine(r, NoChild, signal["first"])
  BY <1>1 DEF Fine, NoChild, Alive
<1>7. "first" \in Sups
  BY DEF Sups
<1>8. /\ DOMAIN sup' = Sups /\ sup'["first"] = r
      /\ \A t \in Sups \ {"first"} : sup'[t] = sup[t]
  BY <1>3, <1>7 DEF SupInv
<1>9. ASSUME NEW t \in Sups PROVE (daemon[t] \in DaemonStates /\ Supervised(t))'
  <2>1. CASE t = "first"
    BY <1>4, <1>5, <1>6, <1>8, <2>1 DEF SupInv, Supervised, ForkSupervisor
  <2>2. CASE t # "first"
    BY <1>8, <2>2 DEF SupInv, Supervised, ForkSupervisor
  <2> QED
    BY <2>1, <2>2
<1>10. Named'
  BY <1>5, <1>7 DEF Named, NoChild, ForkSupervisor
<1>11. Truthful'
  BY <1>2 DEF SupInv, Truthful, ForkSupervisor
<1> QED
  BY <1>8, <1>9, <1>10, <1>11 DEF SupInv, ForkSupervisor

LEMMA SupInvFork == ASSUME SupInv, NEW s \in Sups, Fork(s) PROVE SupInv'
<1> DEFINE r == sup[s]
<1>1. r \in SupRec /\ Len(r.restart_time) <= PROC_RESTART_MAX /\ Limited(r) /\ r.pc = "fork"
  BY DEF SupInv, Supervised, RecOK, Fork, At
<1>2. r.restart_time \in Table /\ r.restart_count \in Nat
  BY <1>1 DEF SupRec
<1>3. PICK kept \in Room(r.restart_time) :
        sup' = [sup EXCEPT ![s] =
                  [r EXCEPT !.pc = "recv",
                            !.restart_time = Append(kept, 0),
                            !.restart_count = restart_count(Append(kept, 0)),
                            !.moved = r.moved \/ Len(r.restart_time) = PROC_RESTART_MAX,
                            !.deadlock = FALSE,
                            !.tries = 0,
                            !.rc = "exit0"]]
  BY DEF Fork
<1> DEFINE table == Append(kept, 0)
           moved == r.moved \/ Len(r.restart_time) = PROC_RESTART_MAX
           q == [r EXCEPT !.pc = "recv", !.restart_time = table,
                          !.restart_count = restart_count(table), !.moved = moved,
                          !.deadlock = FALSE, !.tries = 0, !.rc = "exit0"]
<1>4. /\ kept \in Table /\ Len(kept) < PROC_RESTART_MAX
      /\ Len(r.restart_time) < PROC_RESTART_MAX => kept = r.restart_time
  BY <1>1, <1>2, RoomMade
<1>5. /\ table \in Table /\ Len(table) = Len(kept) + 1
      /\ Sorted(kept) => Sorted(table)
      /\ Cardinality(Recents(table)) = Cardinality(Recents(kept)) + 1
  BY <1>4, RecordedStart
<1>6. Recent(table) \in Nat
  <2>1. Len(table) \in Nat
    BY <1>5 DEF Table
  <2> QED
    BY <1>5, <2>1, RecentFound
<1>7. sup' = [sup EXCEPT ![s] = q]
  BY <1>3
<1> HIDE DEF table
<1>8. restart_count(table) \in Nat /\ restart_count(table) = 1 + Recent(table)
  BY <1>6 DEF restart_count
<1> HIDE DEF r
<1>9. moved \in BOOLEAN
  BY <1>1 DEF SupRec
<1> HIDE DEF moved
<1> DEFINE n == restart_count(table)
<1> HIDE DEF n
<1>10. /\ q \in SupRec /\ q.pc = "recv" /\ q.restart_time = table /\ q.moved = moved
       /\ q.restart_count = n /\ q.first = r.first /\ q.tries = 0
  <2>1. r \in SupRec /\ table \in Table /\ n \in Nat /\ moved \in BOOLEAN
    BY <1>1, <1>5, <1>8, <1>9 DEF n
  <2>2. "recv" \in SupPcs /\ "exit0" \in Zombie /\ 0 \in 0 .. 6
    BY DEF SupPcs, Zombie
  <2>3. q = [r EXCEPT !.pc = "recv", !.restart_time = table,
                      !.restart_count = n, !.moved = moved,
                      !.deadlock = FALSE, !.tries = 0, !.rc = "exit0"]
    BY DEF n
  <2> HIDE DEF q
  <2> QED
    BY <2>1, <2>2, <2>3 DEF SupRec
<1> HIDE DEF q
<1>11. Len(table) <= PROC_RESTART_MAX
  <2>1. Len(kept) \in Nat
    BY <1>4 DEF Table
  <2> QED
    BY <1>4, <1>5, <2>1, SupervisorAssumption
<1>12. ASSUME ~moved
       PROVE  /\ Sorted(table) /\ Cardinality(Recents(table)) <= restart_max
              /\ Cardinality(Recents(table)) <= restart_count(table) - 1
  <2>1. ~r.moved /\ Len(r.restart_time) # PROC_RESTART_MAX
    BY <1>12 DEF moved
  <2>2. Len(r.restart_time) \in Nat
    BY <1>2 DEF Table
  <2>3. Len(r.restart_time) < PROC_RESTART_MAX
    BY <1>1, <2>1, <2>2, SupervisorAssumption
  <2>4. kept = r.restart_time
    BY <1>4, <2>3
  <2>5. /\ Sorted(kept) /\ Cardinality(Recents(kept)) <= r.restart_count - 1
        /\ r.restart_count <= restart_max
    BY <1>1, <2>1, <2>4 DEF Limited
  <2>6. Sorted(table)
    BY <1>5, <2>5
  <2>7. Cardinality(Recents(table)) = Recent(table)
    BY <1>5, <2>6, RecentCounts
  <2> DEFINE m == Cardinality(Recents(kept))
  <2>8. m \in Nat
    BY <1>4, RecentsFinite
  <2>9. Cardinality(Recents(table)) = m + 1 /\ m <= r.restart_count - 1
    BY <1>5, <2>5
  <2> HIDE DEF m
  <2>10. m + 1 <= restart_max
    BY <1>2, <2>5, <2>8, <2>9, Options
  <2>11. Recent(table) <= restart_count(table) - 1
    BY <1>6, <1>8
  <2> QED
    BY <2>6, <2>7, <2>9, <2>10, <2>11
<1>13. RecOK(q)
  BY <1>10, <1>11, <1>12 DEF RecOK, Limited, n
<1>14. /\ DOMAIN daemon' = Sups /\ daemon'[s] = "init"
       /\ \A t \in Sups \ {s} : daemon'[t] = daemon[t]
  BY DEF SupInv, Fork
<1>15. Fine(q, daemon'[s], signal'[s])
  BY <1>10 DEF Fine
<1>16. "init" \in DaemonStates
  BY DEF DaemonStates, Alive
<1>17. /\ startup' = startup /\ startup_result' = startup_result /\ init_result' = init_result
       /\ signal' = signal /\ pidfile' = pidfile /\ first_ok' = first_ok
  BY DEF Fork
<1>18. DOMAIN signal = Sups /\ startup_result \in Results /\ (startup_result = "ok" => first_ok)
  BY DEF SupInv, Truthful
<1> QED
  BY <1>1, <1>7, <1>10, <1>13, <1>14, <1>15, <1>16, <1>17, <1>18, SupervisorMoves DEF r

\* What the invariant says of one supervisor, and of the rest of the state.
LEMMA SupFacts ==
    ASSUME SupInv, NEW s \in Sups
    PROVE  /\ RecOK(sup[s]) /\ sup[s] \in SupRec
           /\ Fine(sup[s], daemon[s], signal[s])
           /\ daemon[s] \in DaemonStates
           /\ DOMAIN daemon = Sups /\ DOMAIN signal = Sups /\ DOMAIN sup = Sups
           /\ DOMAIN init_result = Sups
           /\ init_result[s] \in Results /\ startup_result \in Results
           /\ (startup_result = "ok") => first_ok
           /\ (sup[s].first /\ init_result[s] = "ok") => first_ok
  BY DEF SupInv, Supervised, RecOK, Truthful

\* A supervisor goes on to another place and leaves everything else alone.
LEMMA PcMoves ==
    ASSUME NEW r \in SupRec, NEW pc \in SupPcs
    PROVE  LET q == [r EXCEPT !.pc = pc] IN
           /\ q \in SupRec /\ q.pc = pc /\ q.restart_time = r.restart_time /\ q.moved = r.moved
           /\ q.restart_count = r.restart_count /\ q.first = r.first /\ q.tries = r.tries
  BY DEF SupRec

LEMMA SupInvForkFails == ASSUME SupInv, NEW s \in Sups, ForkFails(s) PROVE SupInv'
<1> DEFINE r == sup[s]
           q == [r EXCEPT !.pc = "exited"]
<1>1. r \in SupRec /\ RecOK(r)
  BY SupFacts
<1>2. "exited" \in SupPcs
  BY DEF SupPcs
<1>3. /\ q \in SupRec /\ q.pc = "exited" /\ q.restart_time = r.restart_time /\ q.moved = r.moved
      /\ q.restart_count = r.restart_count /\ q.first = r.first
  BY <1>1, <1>2, PcMoves
<1>4. /\ sup' = [sup EXCEPT ![s] = q] /\ r.pc = "fork"
      /\ daemon' = daemon /\ signal' = signal /\ startup' = startup
      /\ init_result' = init_result /\ pidfile' = pidfile /\ first_ok' = first_ok
  BY DEF ForkFails, At
<1>5. (startup_result' = "ok") => first_ok
  BY SupFacts DEF ForkFails, Report
<1>8. startup_result' \in Results
  BY SupFacts DEF ForkFails, Report, Results
<1> HIDE DEF q, r
<1>6. RecOK(q)
  BY <1>1, <1>3, Advanced
<1>7. Fine(q, daemon'[s], signal'[s])
  BY <1>3 DEF Fine
<1> QED
  BY <1>3, <1>4, <1>5, <1>6, <1>7, <1>8, SupFacts, SupervisorMoves DEF r

LEMMA SupInvRecvResult == ASSUME SupInv, NEW s \in Sups, RecvResult(s) PROVE SupInv'
<1> DEFINE r == sup[s]
           res == recv_result(init_result[s])
           pc == CASE res = "ok" /\ CheckEnabled -> "watch"
                   [] res = "ok" /\ ~CheckEnabled -> "wait"
                   [] res = "fail" /\ r.first -> "exited"
                   [] OTHER -> "reap"
           q == [r EXCEPT !.pc = pc, !.first = FALSE]
<1>1. r \in SupRec /\ RecOK(r)
  BY SupFacts
<1>2. /\ sup' = [sup EXCEPT ![s] = q] /\ r.pc = "recv"
      /\ daemon' = daemon /\ signal' = signal /\ startup' = startup
      /\ pidfile' = pidfile /\ first_ok' = first_ok
      /\ init_result' = [init_result EXCEPT ![s] = "empty"]
  BY DEF RecvResult, At
<1>3. startup_result' \in Results /\ ((startup_result' = "ok") => first_ok)
  <2>1. startup_result' = IF r.first THEN res ELSE startup_result
    BY DEF RecvResult, Report
  <2>2. res \in Results /\ ((res = "ok") => (init_result[s] = "ok"))
    BY SupFacts DEF recv_result, Results
  <2> QED
    BY <2>1, <2>2, SupFacts
<1>4. pc \in {"watch", "wait", "exited", "reap"}
  <2> HIDE DEF res
  <2> QED
    BY SupervisorAssumption, <1>1 DEF SupRec
<1> HIDE DEF pc
<1>5. /\ q \in SupRec /\ q.pc = pc /\ q.restart_time = r.restart_time /\ q.moved = r.moved
      /\ q.restart_count = r.restart_count /\ ~q.first /\ q.tries = r.tries
  BY <1>1, <1>4 DEF SupRec, SupPcs
<1>6. r.tries = 0
  BY <1>2, SupFacts DEF Fine
<1> HIDE DEF q, r
<1>7. RecOK(q)
  BY <1>1, <1>4, <1>5, Advanced
<1>8. Fine(q, daemon'[s], signal'[s])
  BY <1>4, <1>5, <1>6 DEF Fine
<1> QED
  BY <1>2, <1>3, <1>4, <1>5, <1>7, <1>8, SupFacts, SupervisorMoves DEF r

LEMMA SupInvInsist == ASSUME SupInv, NEW s \in Sups, Insist(s) PROVE SupInv'
<1> DEFINE r == sup[s]
           pc == IF r.pc = "reap" THEN "reap_sleep" ELSE "kill_sleep"
           q == [r EXCEPT !.pc = pc]
<1>1. r \in SupRec /\ RecOK(r)
  BY SupFacts
<1>2. pc \in {"reap_sleep", "kill_sleep"} /\ pc \in SupPcs
  BY DEF SupPcs
<1>3. /\ sup' = [sup EXCEPT ![s] = q] /\ r.pc \in {"reap", "kill"} /\ r.tries < 6
      /\ daemon' = daemon /\ signal' = [signal EXCEPT ![s] = Signal(r.tries)] /\ startup' = startup
      /\ init_result' = init_result /\ pidfile' = pidfile /\ first_ok' = first_ok
      /\ startup_result' = startup_result
  BY DEF Insist, At
<1> HIDE DEF pc
<1>4. /\ q \in SupRec /\ q.pc = pc /\ q.restart_time = r.restart_time /\ q.moved = r.moved
      /\ q.restart_count = r.restart_count /\ q.first = r.first /\ q.tries = r.tries
  BY <1>1, <1>2, PcMoves
<1>5. ~r.first
  BY <1>3, SupFacts DEF Fine
<1> HIDE DEF q, r
<1>6. RecOK(q)
  BY <1>1, <1>2, <1>4, Advanced
<1>7. /\ DOMAIN signal' = Sups /\ signal'[s] = Signal(r.tries)
      /\ \A t \in Sups \ {s} : signal'[t] = signal[t]
  BY <1>3, SupFacts
<1>8. Fine(q, daemon'[s], signal'[s])
  BY <1>2, <1>3, <1>4, <1>5, <1>7 DEF Fine
<1>9. sup[s].pc # "none" /\ q.pc # "none" /\ (q.first => sup[s].first)
  BY <1>2, <1>3, <1>4 DEF r
<1>10. /\ DOMAIN daemon' = Sups /\ daemon'[s] \in DaemonStates
       /\ \A t \in Sups \ {s} : daemon'[t] = daemon[t]
       /\ startup_result' \in Results /\ ((startup_result' = "ok") => first_ok)
  BY <1>3, SupFacts
<1> QED
  BY <1>3, <1>6, <1>7, <1>8, <1>9, <1>10, SupervisorMoves

LEMMA SupInvInsisted == ASSUME SupInv, NEW s \in Sups, Insisted(s) PROVE SupInv'
<1> DEFINE r == sup[s]
           pc == IF r.pc = "reap_sleep" THEN "reap" ELSE "kill"
           table == Older(r.restart_time)
           n == r.tries + 1
           q == [r EXCEPT !.pc = pc, !.tries = n, !.restart_time = table]
<1>1. r \in SupRec /\ RecOK(r) /\ r.restart_time \in Table /\ r.tries \in 0 .. 6
  BY SupFacts DEF SupRec
<1>2. pc \in {"reap", "kill"}
  OBVIOUS
<1>3. /\ sup' = [sup EXCEPT ![s] = q] /\ r.pc \in {"reap_sleep", "kill_sleep"}
      /\ signal[s] = "kill" => daemon[s] \notin Alive
      /\ daemon' = daemon /\ signal' = [signal EXCEPT ![s] = "none"] /\ startup' = startup
      /\ init_result' = init_result /\ pidfile' = pidfile /\ first_ok' = first_ok
      /\ startup_result' = startup_result
  BY DEF Insisted, At
<1>4. r.tries < 6 /\ signal[s] = Signal(r.tries) /\ ~r.first
  BY <1>3, SupFacts DEF Fine
<1>5. n \in 0 .. 6 /\ (n = 6 => r.tries = 5)
  BY <1>1, <1>4
<1>6. table \in Table
  BY <1>1, OlderTable
<1>7. (n = 6) => daemon[s] \notin Alive
  BY <1>3, <1>4, <1>5 DEF Signal
<1> HIDE DEF pc, table, n
<1>8. /\ q \in SupRec /\ q.pc = pc /\ q.restart_time = table /\ q.moved = r.moved
      /\ q.restart_count = r.restart_count /\ q.first = r.first /\ q.tries = n
  BY <1>1, <1>2, <1>5, <1>6 DEF SupRec, SupPcs
<1> HIDE DEF q, r
<1>9. RecOK(q)
  BY <1>1, <1>2, <1>8, Advanced DEF table
<1>10. /\ DOMAIN signal' = Sups /\ signal'[s] = "none"
       /\ \A t \in Sups \ {s} : signal'[t] = signal[t]
  BY <1>3, SupFacts
<1>11. Fine(q, daemon'[s], signal'[s])
  BY <1>2, <1>3, <1>4, <1>7, <1>8 DEF Fine
<1>12. sup[s].pc # "none" /\ q.pc # "none" /\ (q.first => sup[s].first)
  BY <1>2, <1>3, <1>8 DEF r
<1>13. /\ DOMAIN daemon' = Sups /\ daemon'[s] \in DaemonStates
       /\ \A t \in Sups \ {s} : daemon'[t] = daemon[t]
       /\ startup_result' \in Results /\ ((startup_result' = "ok") => first_ok)
  BY <1>3, SupFacts
<1> QED
  BY <1>3, <1>9, <1>10, <1>11, <1>12, <1>13, SupervisorMoves

\* waitpid leaves no living daemon dead and no dead one behind.
LEMMA ReapedDaemon ==
    ASSUME SupInv, NEW s \in Sups, Reaped(s)
    PROVE  /\ DOMAIN daemon' = Sups /\ \A t \in Sups \ {s} : daemon'[t] = daemon[t]
           /\ daemon'[s] \in DaemonStates
           /\ daemon'[s] \in Alive => daemon'[s] = daemon[s]
<1>1. NoChild \in DaemonStates /\ NoChild \notin Alive
  BY DEF NoChild, DaemonStates, Alive
<1>2. CASE daemon[s] \in Zombie
  BY <1>1, <1>2, SupFacts DEF Reaped
<1>3. CASE daemon[s] \notin Zombie
  BY <1>3, SupFacts DEF Reaped
<1> QED
  BY <1>2, <1>3

LEMMA SupInvReapEnds == ASSUME SupInv, NEW s \in Sups, ReapEnds(s) PROVE SupInv'
<1> DEFINE r == sup[s]
           pc == IF TooMany(s) THEN "exited" ELSE "fork"
           q == [r EXCEPT !.pc = pc]
<1>1. r \in SupRec /\ RecOK(r) /\ r.restart_count \in Nat
  BY SupFacts DEF SupRec
<1>2. pc \in {"exited", "fork"} /\ pc \in SupPcs
  BY DEF SupPcs
<1>3. (pc = "fork") => (r.restart_count <= restart_max)
  BY <1>1, Options DEF TooMany
<1>4. /\ sup' = [sup EXCEPT ![s] = q] /\ r.pc = "reap"
      /\ r.tries = 6 \/ daemon[s] \notin Alive
      /\ Reaped(s) /\ signal' = signal /\ startup' = startup
      /\ init_result' = init_result /\ pidfile' = pidfile /\ first_ok' = first_ok
      /\ startup_result' = startup_result
  BY DEF ReapEnds, At
<1> HIDE DEF pc
<1>5. /\ q \in SupRec /\ q.pc = pc /\ q.restart_time = r.restart_time /\ q.moved = r.moved
      /\ q.restart_count = r.restart_count /\ q.first = r.first /\ q.tries = r.tries
  BY <1>1, <1>2, PcMoves
<1>6. ~r.first /\ daemon[s] \notin Alive
  BY <1>4, SupFacts DEF Fine
<1> HIDE DEF q, r
<1>7. RecOK(q)
  BY <1>1, <1>3, <1>5, Advanced
<1>8. daemon'[s] \notin Alive
  BY <1>4, <1>6, ReapedDaemon
<1>9. Fine(q, daemon'[s], signal'[s])
  BY <1>2, <1>5, <1>6, <1>8 DEF Fine
<1>10. daemon'[s] \notin {"written", "up", "hung"}
  BY <1>8 DEF Alive
<1> QED
  BY <1>2, <1>4, <1>5, <1>7, <1>9, <1>10, ReapedDaemon, SupFacts, SupervisorMoves DEF r

LEMMA SupInvDaemonWaitedFor == ASSUME SupInv, NEW s \in Sups, DaemonWaitedFor(s) PROVE SupInv'
<1> DEFINE r == sup[s]
           q == [r EXCEPT !.pc = "decide", !.rc = daemon[s]]
<1>1. r \in SupRec /\ RecOK(r)
  BY SupFacts
<1>2. /\ sup' = [sup EXCEPT ![s] = q] /\ r.pc \in {"watch", "wait"} /\ daemon[s] \in Zombie
      /\ Reaped(s) /\ signal' = signal /\ startup' = startup
      /\ init_result' = init_result /\ pidfile' = pidfile /\ first_ok' = first_ok
      /\ startup_result' = startup_result
  BY DEF DaemonWaitedFor, At
<1>3. /\ q \in SupRec /\ q.pc = "decide" /\ q.restart_time = r.restart_time /\ q.moved = r.moved
      /\ q.restart_count = r.restart_count /\ q.first = r.first
  BY <1>1, <1>2 DEF SupRec, SupPcs
<1>4. ~r.first
  BY <1>2, SupFacts DEF Fine
<1> HIDE DEF q, r
<1>5. RecOK(q)
  BY <1>1, <1>3, Advanced
<1>6. daemon'[s] \notin Alive
  BY <1>2, ReapedDaemon DEF Zombie, Alive
<1>7. Fine(q, daemon'[s], signal'[s])
  BY <1>3, <1>4, <1>6 DEF Fine
<1>8. daemon'[s] \notin {"written", "up", "hung"}
  BY <1>6 DEF Alive
<1>9. sup[s].pc # "none" /\ q.pc # "none" /\ (q.first => sup[s].first)
  BY <1>2, <1>3 DEF r
<1>10. /\ DOMAIN signal' = Sups
       /\ startup_result' \in Results /\ ((startup_result' = "ok") => first_ok)
  BY <1>2, SupFacts
<1> QED
  BY <1>2, <1>5, <1>7, <1>8, <1>9, <1>10, ReapedDaemon, SupervisorMoves

LEMMA SupInvKillEnds == ASSUME SupInv, NEW s \in Sups, KillEnds(s) PROVE SupInv'
<1> DEFINE r == sup[s]
           rc == IF daemon[s] \in Zombie THEN daemon[s] ELSE r.rc
           q == [r EXCEPT !.pc = "decide", !.rc = rc]
<1>1. r \in SupRec /\ RecOK(r) /\ rc \in Zombie
  BY SupFacts DEF SupRec
<1>2. /\ sup' = [sup EXCEPT ![s] = q] /\ r.pc = "kill" /\ (r.tries = 6 \/ daemon[s] \notin Alive)
      /\ Reaped(s) /\ signal' = signal /\ startup' = startup
      /\ init_result' = init_result /\ pidfile' = pidfile /\ first_ok' = first_ok
      /\ startup_result' = startup_result
  BY DEF KillEnds, At
<1> HIDE DEF rc
<1>3. /\ q \in SupRec /\ q.pc = "decide" /\ q.restart_time = r.restart_time /\ q.moved = r.moved
      /\ q.restart_count = r.restart_count /\ q.first = r.first
  BY <1>1 DEF SupRec, SupPcs
<1>4. ~r.first /\ daemon[s] \notin Alive
  BY <1>2, SupFacts DEF Fine
<1> HIDE DEF q, r
<1>5. RecOK(q)
  BY <1>1, <1>3, Advanced
<1>6. daemon'[s] \notin Alive
  BY <1>2, <1>4, ReapedDaemon
<1>7. Fine(q, daemon'[s], signal'[s])
  BY <1>3, <1>4, <1>6 DEF Fine
<1>8. daemon'[s] \notin {"written", "up", "hung"}
  BY <1>6 DEF Alive
<1>9. sup[s].pc # "none" /\ q.pc # "none" /\ (q.first => sup[s].first)
  BY <1>2, <1>3 DEF r
<1>10. /\ DOMAIN signal' = Sups
       /\ startup_result' \in Results /\ ((startup_result' = "ok") => first_ok)
  BY <1>2, SupFacts
<1> QED
  BY <1>2, <1>5, <1>7, <1>8, <1>9, <1>10, ReapedDaemon, SupervisorMoves

\* A supervisor moves and nothing else does.
LEMMA SupervisorAlone ==
    ASSUME SupInv, NEW s \in Sups, NEW r, RecOK(r), sup[s].pc # "none", r.pc # "none",
           r.first => sup[s].first, sup' = [sup EXCEPT ![s] = r],
           Fine(r, daemon[s], signal[s]),
           UNCHANGED <<startup, startup_result, daemon, init_result, signal, pidfile, first_ok>>
    PROVE  SupInv'
<1>1. /\ DOMAIN daemon' = Sups /\ daemon'[s] \in DaemonStates /\ DOMAIN signal' = Sups
      /\ startup_result' \in Results /\ ((startup_result' = "ok") => first_ok)
  BY SupFacts
<1> QED
  BY <1>1, SupervisorMoves

LEMMA SupInvTimePasses == ASSUME SupInv, NEW s \in Sups, TimePasses(s) PROVE SupInv'
<1> DEFINE r == sup[s]
           table == Older(r.restart_time)
           q == [r EXCEPT !.restart_time = table]
<1>1. r \in SupRec /\ RecOK(r) /\ r.restart_time \in Table
  BY SupFacts DEF SupRec
<1>2. table \in Table
  BY <1>1, OlderTable
<1>3. /\ sup' = [sup EXCEPT ![s] = q] /\ r.pc \in {"recv", "watch", "wait"}
      /\ UNCHANGED <<startup, startup_result, daemon, init_result, signal, pidfile, first_ok>>
  BY DEF TimePasses
<1> HIDE DEF table
<1>4. /\ q \in SupRec /\ q.pc = r.pc /\ q.restart_time = table /\ q.moved = r.moved
      /\ q.restart_count = r.restart_count /\ q.first = r.first /\ q.tries = r.tries
  BY <1>1, <1>2 DEF SupRec
<1>5. Fine(q, daemon[s], signal[s])
  BY <1>4, SupFacts DEF Fine
<1> HIDE DEF q, r
<1>6. RecOK(q)
  BY <1>1, <1>4, Advanced DEF table
<1>7. sup[s].pc # "none" /\ q.pc # "none" /\ (q.first => sup[s].first)
  BY <1>3, <1>4 DEF r
<1> QED
  BY <1>3, <1>5, <1>6, <1>7, SupervisorAlone

LEMMA SupInvCheckFails == ASSUME SupInv, NEW s \in Sups, CheckFails(s) PROVE SupInv'
<1> DEFINE r == sup[s]
           q == [r EXCEPT !.pc = "kill", !.deadlock = TRUE]
<1>1. r \in SupRec /\ RecOK(r)
  BY SupFacts
<1>2. /\ sup' = [sup EXCEPT ![s] = q] /\ r.pc = "watch"
      /\ UNCHANGED <<startup, startup_result, daemon, init_result, signal, pidfile, first_ok>>
  BY DEF CheckFails, At
<1>3. /\ q \in SupRec /\ q.pc = "kill" /\ q.restart_time = r.restart_time /\ q.moved = r.moved
      /\ q.restart_count = r.restart_count /\ q.first = r.first /\ q.tries = r.tries
  BY <1>1 DEF SupRec, SupPcs
<1>4. r.tries = 0 /\ ~r.first
  BY <1>2, SupFacts DEF Fine
<1> HIDE DEF q, r
<1>5. Fine(q, daemon[s], signal[s])
  BY <1>3, <1>4 DEF Fine
<1>6. RecOK(q)
  BY <1>1, <1>3, Advanced
<1>7. sup[s].pc # "none" /\ q.pc # "none" /\ (q.first => sup[s].first)
  BY <1>2, <1>3 DEF r
<1> QED
  BY <1>2, <1>5, <1>6, <1>7, SupervisorAlone

LEMMA SupInvSupervisorKilled == ASSUME SupInv, NEW s \in Sups, SupervisorKilled(s) PROVE SupInv'
<1> DEFINE r == sup[s]
           q == [r EXCEPT !.pc = "killed"]
<1>1. r \in SupRec /\ RecOK(r) /\ "killed" \in SupPcs
  BY SupFacts DEF SupPcs
<1>2. /\ sup' = [sup EXCEPT ![s] = q] /\ r.pc # "none"
      /\ UNCHANGED <<startup, startup_result, daemon, init_result, signal, pidfile, first_ok>>
  BY DEF SupervisorKilled
<1>3. /\ q \in SupRec /\ q.pc = "killed" /\ q.restart_time = r.restart_time /\ q.moved = r.moved
      /\ q.restart_count = r.restart_count /\ q.first = r.first
  BY <1>1, PcMoves
<1> HIDE DEF q, r
<1>4. Fine(q, daemon[s], signal[s])
  BY <1>3 DEF Fine
<1>5. RecOK(q)
  BY <1>1, <1>3, Advanced
<1>6. sup[s].pc # "none" /\ q.pc # "none" /\ (q.first => sup[s].first)
  BY <1>2, <1>3 DEF r
<1> QED
  BY <1>2, <1>4, <1>5, <1>6, SupervisorAlone

\* The mind that a supervisor makes up, for itself and for its copy.
LEMMA DecidedFine ==
    ASSUME SupInv, NEW s \in Sups, At(s, "decide")
    PROVE  /\ RecOK(Decided(s)) /\ Decided(s).pc \in {"fork", "exited"} /\ ~Decided(s).first
           /\ daemon[s] \notin Alive
<1> DEFINE r == sup[s]
           pc == IF Restarts(s) THEN "fork" ELSE "exited"
           table == IF Restarts(s) THEN Older(r.restart_time) ELSE r.restart_time
           q == [r EXCEPT !.pc = pc, !.restart_time = table]
<1>1. r \in SupRec /\ RecOK(r) /\ r.restart_time \in Table /\ r.restart_count \in Nat
  BY SupFacts DEF SupRec
<1>2. table \in Table /\ (table = r.restart_time \/ table = Older(r.restart_time))
  BY <1>1, OlderTable
<1>3. pc \in {"fork", "exited"} /\ ((pc = "fork") => (r.restart_count <= restart_max))
  BY <1>1, Options DEF Restarts, TooMany
<1>4. Decided(s) = q
  BY DEF Decided
<1>5. ~r.first /\ daemon[s] \notin Alive
  BY SupFacts DEF Fine, At
<1> HIDE DEF pc, table
<1>6. /\ q \in SupRec /\ q.pc = pc /\ q.restart_time = table /\ q.moved = r.moved
      /\ q.restart_count = r.restart_count /\ q.first = r.first
  BY <1>1, <1>2, <1>3 DEF SupRec, SupPcs
<1> HIDE DEF q, r
<1>7. RecOK(q)
  BY <1>1, <1>2, <1>3, <1>6, Advanced
<1> QED
  BY <1>3, <1>4, <1>5, <1>6, <1>7

LEMMA SupInvDecide == ASSUME SupInv, NEW s \in Sups, Decide(s) PROVE SupInv'
<1> DEFINE q == Decided(s)
<1>1. At(s, "decide") /\ sup' = [sup EXCEPT ![s] = q]
  BY DEF Decide
<1>2. RecOK(q) /\ q.pc \in {"fork", "exited"} /\ ~q.first /\ daemon[s] \notin Alive
  BY <1>1, DecidedFine
<1> HIDE DEF q
<1>3. Fine(q, daemon[s], signal[s])
  BY <1>2 DEF Fine
<1>4. sup[s].pc # "none" /\ q.pc # "none" /\ (q.first => sup[s].first)
  BY <1>1, <1>2 DEF At
<1>5. UNCHANGED <<startup, startup_result, daemon, init_result, signal, pidfile, first_ok>>
  BY DEF Decide
<1> QED
  BY <1>1, <1>2, <1>3, <1>4, <1>5, SupervisorAlone

LEMMA SupInvDecideTwice == ASSUME SupInv, NEW s \in Sups, DecideTwice(s) PROVE SupInv'
<1> DEFINE q == Decided(s)
<1>1. /\ At(s, "decide") /\ sup["second"] = NoSup /\ sup' = [t \in Sups |-> q]
      /\ UNCHANGED <<startup, startup_result, daemon, init_result, signal, pidfile, first_ok>>
  BY DEF DecideTwice
<1>2. s = "first"
  BY <1>1 DEF At, NoSup, Sups
<1>3. RecOK(q) /\ q.pc \in {"fork", "exited"} /\ ~q.first /\ daemon[s] \notin Alive
  BY <1>1, DecidedFine
<1> HIDE DEF q
<1>4. daemon["second"] \notin Alive
  BY <1>1, SupFacts DEF Sups, Fine, NoSup, NoChild, Alive
<1>5. \A t \in Sups : sup'[t] = q /\ Fine(q, daemon[t], signal[t])
  BY <1>1, <1>2, <1>3, <1>4 DEF Sups, Fine
<1>6. \A t \in Sups : (daemon[t] \in DaemonStates /\ Supervised(t))'
  BY <1>1, <1>3, <1>5 DEF SupInv, Supervised
<1>7. Named'
  BY <1>3, <1>5 DEF Named, Sups
<1>8. startup # "none"
  BY <1>1 DEF SupInv, Truthful, At, NoSup
<1>9. Truthful'
  BY <1>1, <1>3, <1>5, <1>8 DEF SupInv, Truthful
<1> QED
  BY <1>1, <1>6, <1>7, <1>9 DEF SupInv

LEMMA SupInvStartupExits == ASSUME SupInv, StartupExits PROVE SupInv'
<1>1. \A s \in Sups : (daemon[s] \in DaemonStates /\ Supervised(s))'
  BY DEF SupInv, Supervised, StartupExits
<1>2. Named'
  BY DEF SupInv, Named, StartupExits
<1>3. startup' # "none"
  BY DEF SupInv, Truthful, StartupExits, recv_result, Results
<1>4. (startup' = "ok") => first_ok
  BY DEF SupInv, Truthful, StartupExits, recv_result
<1> QED
  BY <1>1, <1>2, <1>3, <1>4 DEF SupInv, Truthful, StartupExits, Results

LEMMA SupInvDaemon ==
    ASSUME SupInv, NEW s \in Sups,
           \/ WritePidfile(s) \/ StartupOk(s) \/ StartupFailed(s) \/ Finish(s) \/ Hang(s)
           \/ \E st \in Zombie : Dies(s, st)
    PROVE  SupInv'
<1>1. /\ DOMAIN init_result = Sups /\ DOMAIN daemon = Sups /\ init_result[s] \in Results
      /\ (sup[s].first /\ init_result[s] = "ok") => first_ok
      /\ (s = "first" /\ ~PidfileMayFail /\ daemon[s] \in {"written", "up", "hung"}
            /\ sup["second"].pc = "none") => pidfile = "first"
  BY SupFacts DEF SupInv, Named
<1>2. \A d \in Alive \cup Zombie : d \in DaemonStates /\ d # NoChild
  BY DEF DaemonStates, Alive, Zombie, NoChild
<1>3. CASE WritePidfile(s)
  <2>1. /\ daemon' = [daemon EXCEPT ![s] = "written"] /\ daemon[s] \in Alive
        /\ (s = "first" /\ ~PidfileMayFail) => pidfile' = "first"
        /\ UNCHANGED <<startup, startup_result, sup, init_result, signal, first_ok>>
    BY <1>3 DEF WritePidfile, write_pidfile, Alive
  <2>2. "written" \in DaemonStates /\ "written" # NoChild
    BY <1>2 DEF Alive
  <2> QED
    BY <1>1, <2>1, <2>2, DaemonMoves
<1>4. CASE StartupOk(s)
  <2>1. /\ daemon' = [daemon EXCEPT ![s] = "up"] /\ daemon[s] \in Alive /\ daemon[s] = "written"
        /\ init_result' = [init_result EXCEPT ![s] = "ok"]
        /\ UNCHANGED <<startup, startup_result, sup, signal, pidfile>>
    BY <1>4 DEF StartupOk, Alive
  <2>2. (sup[s].first => first_ok') /\ (first_ok => first_ok')
    BY <1>4 DEF StartupOk
  <2>3. "up" \in DaemonStates /\ "up" # NoChild
    BY <1>2 DEF Alive
  <2>4. /\ DOMAIN init_result' = Sups /\ init_result'[s] \in Results
        /\ \A t \in Sups \ {s} : init_result'[t] = init_result[t]
    BY <1>1, <2>1 DEF Results
  <2>5. (s = "first" /\ ~PidfileMayFail /\ "up" \in {"written", "up", "hung"}
            /\ sup["second"].pc = "none") => pidfile' = "first"
    BY <1>1, <2>1
  <2> QED
    BY <2>1, <2>2, <2>3, <2>4, <2>5, DaemonMoves
<1>5. CASE StartupFailed(s)
  <2>1. PICK st \in {"failed", "exit1"} : daemon' = [daemon EXCEPT ![s] = st]
    BY <1>5 DEF StartupFailed
  <2>2. /\ daemon[s] \in Alive
        /\ init_result' = [init_result EXCEPT ![s] = "fail"]
        /\ UNCHANGED <<startup, startup_result, sup, signal, pidfile, first_ok>>
    BY <1>5 DEF StartupFailed, Alive
  <2>3. st \in DaemonStates /\ st # NoChild
    BY <1>2 DEF Alive, Zombie
  <2>4. /\ DOMAIN init_result' = Sups /\ init_result'[s] = "fail" /\ init_result'[s] \in Results
        /\ \A t \in Sups \ {s} : init_result'[t] = init_result[t]
    BY <1>1, <2>2 DEF Results
  <2> QED
    BY <2>1, <2>2, <2>3, <2>4, DaemonMoves
<1>6. CASE Finish(s)
  <2>1. /\ daemon' = [daemon EXCEPT ![s] = "finishing"] /\ daemon[s] \in Alive
        /\ UNCHANGED <<startup, startup_result, sup, init_result, signal, first_ok>>
    BY <1>6 DEF Finish, Alive
  <2>2. "finishing" \in DaemonStates /\ "finishing" # NoChild
    BY <1>2 DEF Alive
  <2> QED
    BY <1>1, <2>1, <2>2, DaemonMoves
<1>7. CASE Hang(s)
  <2>1. /\ daemon' = [daemon EXCEPT ![s] = "hung"] /\ daemon[s] \in Alive /\ daemon[s] = "up"
        /\ UNCHANGED <<startup, startup_result, sup, init_result, signal, pidfile, first_ok>>
    BY <1>7 DEF Hang, Alive
  <2>2. "hung" \in DaemonStates /\ "hung" # NoChild
    BY <1>2 DEF Alive
  <2> QED
    BY <1>1, <2>1, <2>2, DaemonMoves
<1>8. ASSUME NEW st \in Zombie, Dies(s, st) PROVE SupInv'
  <2>1. /\ daemon' = [daemon EXCEPT ![s] = st] /\ daemon[s] \in Alive
        /\ UNCHANGED <<startup, startup_result, sup, init_result, signal, first_ok>>
    BY <1>8 DEF Dies
  <2>2. st \in DaemonStates /\ st # NoChild /\ st \notin {"written", "up", "hung"}
    BY <1>2 DEF Zombie
  <2> QED
    BY <1>1, <2>1, <2>2, DaemonMoves
<1> QED
  BY <1>3, <1>4, <1>5, <1>6, <1>7, <1>8

LEMMA SupInvSame == ASSUME SupInv, UNCHANGED vars PROVE SupInv'
<1>1. \A s \in Sups : (daemon[s] \in DaemonStates /\ Supervised(s))'
  BY DEF SupInv, Supervised, vars
<1>2. Named' /\ Truthful'
  BY DEF SupInv, Named, Truthful, vars
<1> QED
  BY <1>1, <1>2 DEF SupInv, vars

LEMMA SupInvNext == ASSUME SupInv, [Next]_<<dvars, vars>> PROVE SupInv'
<1>1. CASE DaemonizeNext /\ UNCHANGED vars
  BY <1>1, SupInvSame
<1>2. CASE BecomeSupervisor /\ ForkSupervisor
  BY <1>2, SupInvForkSupervisor
<1>3. CASE StartupExits
  BY <1>3, SupInvStartupExits
<1>4. ASSUME NEW s \in Sups, Supervise(s) PROVE SupInv'
  BY <1>4, SupInvFork, SupInvForkFails, SupInvRecvResult, SupInvInsist, SupInvInsisted,
     SupInvReapEnds, SupInvDaemonWaitedFor, SupInvKillEnds, SupInvDecide, SupInvDecideTwice
     DEF Supervise
<1>5. ASSUME NEW s \in Sups, TimePasses(s) \/ CheckFails(s) \/ SupervisorKilled(s) PROVE SupInv'
  BY <1>5, SupInvTimePasses, SupInvCheckFails, SupInvSupervisorKilled
<1>6. CASE SupervisorNext
  BY <1>3, <1>4, <1>5, <1>6, SupInvDaemon DEF SupervisorNext
<1>7. CASE UNCHANGED <<dvars, vars>>
  BY <1>7, SupInvSame
<1> QED
  BY <1>1, <1>2, <1>6, <1>7 DEF Next

LEMMA SupInvAlways == Spec => []SupInv
<1>1. ProcessInit => SupInv
  BY SupInvInit DEF ProcessInit
<1>2. SupInv /\ [Next]_<<dvars, vars>> => SupInv'
  BY SupInvNext
<1> QED
  BY <1>1, <1>2, PTL DEF Spec

-----------------------------------------------------------------------------
(* The inductive invariant of a start: what has been done by every step of     *)
(* z_process_start is still there, or told, at the end.                        *)

ProcFields == DOMAIN Started(Root)

\* process_opts holds what the command line asks for.
Wished ==
    /\ opts.group = cmdline.group /\ opts.chroot_dir = cmdline.chroot_dir
    /\ opts.caps = cmdline.caps /\ opts.core = cmdline.core
    /\ cmdline.user # None => opts.user = cmdline.user

NofileDone(p) == opts.fdlimit => p.nofile \/ Told(p, "nofile")
RootDone(p) == cmdline.chroot_dir # None => p.root = cmdline.chroot_dir
UserDone(p) ==
    /\ p.started_by = Root =>
         /\ Asked # None /\ uid_of(Asked) # NotAsked => p.uid = uid_of(Asked)
         /\ cmdline.group # None => p.gid = uid_of(cmdline.group)
         /\ cmdline.group # None /\ Asked # None => p.groups = uid_of(cmdline.group)
         /\ p.uid # Root /\ cmdline.caps = None => ~p.permitted
    /\ p.uid # Root /\ Asked # None /\ uid_of(Asked) \notin {NotAsked, p.uid}
         => Told(p, "setuid")
CapsDone(p) == cmdline.caps # None => p.caps = cmdline.caps \/ Told(p, "caps")
CoreDone(p) ==
    cmdline.core => /\ p.dumpable \/ Told(p, "dumpable")
                    /\ p.corelimit \/ Told(p, "corelimit")

AfterDir == {"returned", "failed", "up"}
AfterCore == {"dir"} \cup AfterDir
AfterCaps == {"core"} \cup AfterCore
AfterUser == {"caps"} \cup AfterCaps
AfterRoot == {"resolve"} \cup AfterUser
AfterStart == {"fork", "root"} \cup AfterRoot
AfterOptions == {"set", "start"} \cup AfterStart

Progress(p) ==
    /\ p.pc \in AfterOptions => Wished
    /\ p.pc \in {"options"} \cup (AfterOptions \ AfterUser) => p.uid = p.started_by /\ ~p.keepcaps
    /\ p.pc \in AfterStart => NofileDone(p)
    /\ p.pc \in AfterRoot => RootDone(p)
    /\ p.pc \in AfterUser => UserDone(p)
    /\ p.pc \in AfterCaps => CapsDone(p)
    /\ p.pc \in AfterCore => CoreDone(p)

\* Only what the daemon has reported travels to the startup process.
Reported ==
    /\ result = "ok" => proc.reported = "ok"
    /\ parent = "ok" => proc.reported = "ok"
    /\ proc.pc \in {"options", "set", "start", "fork"} => result # "ok" /\ parent = "none"

StartInv ==
    /\ DOMAIN proc = ProcFields
    /\ DOMAIN opts = DOMAIN NoOpts
    /\ DOMAIN cmdline = {"mode", "user", "group", "chroot_dir", "caps", "core"}
    /\ cmdline.group \in {None, "zorp"}
    /\ Progress(proc)
    /\ Reported

\* Nothing of what a step of the start has done is lost.
Carried(p, q) ==
    /\ q.started_by = p.started_by /\ q.root = p.root /\ q.uid = p.uid /\ q.gid = p.gid
    /\ q.groups = p.groups /\ q.permitted = p.permitted /\ q.caps = p.caps
    /\ q.nofile = p.nofile /\ q.dumpable = p.dumpable /\ q.corelimit = p.corelimit
    /\ q.keepcaps = p.keepcaps /\ p.told \subseteq q.told

LEMMA Fields ==
    ProcFields = {"pc", "kind", "started_by", "tty", "session", "nofile", "root", "cwd", "uid",
                  "gid", "groups", "keepcaps", "permitted", "caps", "dumpable", "corelimit",
                  "stderr_present", "told", "pidfile", "pid_removed", "reported"}
  BY DEF ProcFields, Started

LEMMA ToldKept ==
    ASSUME NEW p, NEW q, p.told \subseteq q.told, NEW topic, Told(p, topic)
    PROVE  Told(q, topic)
  BY DEF Told

LEMMA CarriedDone ==
    ASSUME NEW p, NEW q, Carried(p, q)
    PROVE  /\ NofileDone(p) => NofileDone(q)
           /\ RootDone(p) => RootDone(q)
           /\ UserDone(p) => UserDone(q)
           /\ CapsDone(p) => CapsDone(q)
           /\ CoreDone(p) => CoreDone(q)
<1>1. /\ NofileDone(p) => NofileDone(q)
      /\ CapsDone(p) => CapsDone(q)
      /\ CoreDone(p) => CoreDone(q)
  BY ToldKept DEF Carried, NofileDone, CapsDone, CoreDone
<1>2. RootDone(p) => RootDone(q)
  BY DEF Carried, RootDone
<1>3. UserDone(p) => UserDone(q)
  BY ToldKept DEF Carried, UserDone
<1> QED
  BY <1>1, <1>2, <1>3

LEMMA CarriedOn ==
    ASSUME NEW p, NEW q, NEW r, Carried(p, q), Carried(q, r)
    PROVE  Carried(p, r)
  BY DEF Carried

\* A message changes nothing but what has been told.
LEMMA MessageTold ==
    ASSUME NEW p, DOMAIN p = ProcFields, NEW topic
    PROVE  LET q == z_process_message(p, topic) IN
           /\ DOMAIN q = ProcFields /\ Carried(p, q) /\ Told(q, topic) /\ q.pc = p.pc
           /\ q.reported = p.reported
<1> DEFINE to == IF p.stderr_present THEN "stderr" ELSE "syslog"
           q == z_process_message(p, topic)
<1>1. to \in {"stderr", "syslog"}
  OBVIOUS
<1>2. q = [p EXCEPT !.told = p.told \cup {<<topic, to>>}]
  BY DEF z_process_message
<1> HIDE DEF to, q
<1>3. /\ DOMAIN q = ProcFields /\ q.told = p.told \cup {<<topic, to>>}
      /\ \A f \in ProcFields \ {"told"} : q[f] = p[f]
  BY <1>2, Fields
<1>4. Told(q, topic)
  BY <1>1, <1>3 DEF Told
<1>5. Carried(p, q) /\ q.pc = p.pc /\ q.reported = p.reported
  BY <1>3, Fields DEF Carried
<1> QED
  BY <1>3, <1>4, <1>5 DEF q

\* Going on to the next step changes nothing else.
LEMMA PcStep ==
    ASSUME NEW p, DOMAIN p = ProcFields, NEW pc
    PROVE  LET q == [p EXCEPT !.pc = pc] IN
           DOMAIN q = ProcFields /\ Carried(p, q) /\ q.pc = pc /\ q.reported = p.reported
<1> DEFINE q == [p EXCEPT !.pc = pc]
<1>1. DOMAIN q = ProcFields /\ q.pc = pc /\ \A f \in ProcFields \ {"pc"} : q[f] = p[f]
  BY Fields
<1> HIDE DEF q
<1>2. Carried(p, q) /\ q.reported = p.reported
  BY <1>1, Fields DEF Carried
<1> QED
  BY <1>1, <1>2 DEF q

\* A process that has ended owes nothing but its report.
LEMMA EndedOwes ==
    ASSUME NEW p
    PROVE  LET q == Ended(p) IN
           /\ DOMAIN q = ProcFields /\ q.pc = "exited" /\ q.reported = p.reported
           /\ Progress(q)
<1> DEFINE q == Ended(p)
<1>1. DOMAIN q = ProcFields /\ q.pc = "exited" /\ q.reported = p.reported
  BY DEF Ended, Started, ProcFields
<1> HIDE DEF q
<1>2. Progress(q)
  BY <1>1 DEF Progress, AfterDir, AfterCore, AfterCaps, AfterUser, AfterRoot, AfterStart, AfterOptions
<1> QED
  BY <1>1, <1>2 DEF q

LEMMA StartInvInit == ASSUME DaemonizeInit PROVE StartInv
<1>1. PICK by \in {Root, Starter} : proc = Started(by)
  BY DEF DaemonizeInit
<1>2. /\ DOMAIN proc = ProcFields /\ proc.pc = "options" /\ proc.uid = by /\ proc.started_by = by
      /\ ~proc.keepcaps
  BY <1>1 DEF Started, ProcFields
<1>3. Progress(proc)
  BY <1>2 DEF Progress, AfterDir, AfterCore, AfterCaps, AfterUser, AfterRoot, AfterStart, AfterOptions
<1>4. DOMAIN cmdline = {"mode", "user", "group", "chroot_dir", "caps", "core"}
  BY DEF DaemonizeInit
<1>5. cmdline.group \in {None, "zorp"}
  BY DEF DaemonizeInit
<1>6. Reported
  BY DEF Reported, DaemonizeInit
<1> QED
  BY <1>2, <1>3, <1>4, <1>5, <1>6 DEF StartInv, DaemonizeInit

\* A step of the daemon: the process goes on, the report is what it was.
LEMMA ProcMoves ==
    ASSUME StartInv, DOMAIN proc' = ProcFields, Progress(proc)',
           proc'.reported = proc.reported,
           proc'.pc \in {"options", "set", "start", "fork"} => proc.pc \in {"options", "set", "start", "fork"},
           UNCHANGED <<cmdline, opts, result, parent>>
    PROVE  StartInv'
  BY DEF StartInv, Reported

LEMMA StartInvParseOptions == ASSUME StartInv, ParseOptions PROVE StartInv'
<1>1. /\ DOMAIN opts' = DOMAIN NoOpts /\ opts'.user = cmdline.user /\ opts'.group = cmdline.group
      /\ opts'.chroot_dir = cmdline.chroot_dir /\ opts'.caps = cmdline.caps
      /\ opts'.core = cmdline.core
  BY DEF ParseOptions, NoOpts
<1>2. /\ proc.pc = "options" /\ DOMAIN proc = ProcFields
      /\ proc' = Ended(proc) \/ proc' = [proc EXCEPT !.pc = "set"]
      /\ cmdline' = cmdline /\ result' = result /\ parent' = parent
  BY DEF ParseOptions, StartInv
<1>3. proc.uid = proc.started_by /\ ~proc.keepcaps /\ Reported
  BY <1>2 DEF StartInv, Progress
<1>4. CASE proc' = Ended(proc)
  <2>1. DOMAIN proc' = ProcFields /\ proc'.pc = "exited" /\ proc'.reported = proc.reported
    BY <1>4, EndedOwes
  <2>2. Progress(proc)'
    BY <2>1 DEF Progress, AfterDir, AfterCore, AfterCaps, AfterUser, AfterRoot, AfterStart, AfterOptions
  <2> QED
    BY <1>1, <1>2, <1>3, <2>1, <2>2 DEF StartInv, Reported
<1>5. CASE proc' = [proc EXCEPT !.pc = "set"]
  <2>1. /\ DOMAIN proc' = ProcFields /\ Carried(proc, proc') /\ proc'.pc = "set"
        /\ proc'.reported = proc.reported
    BY <1>2, <1>5, PcStep
  <2>2. Wished'
    BY <1>1, <1>2 DEF Wished
  <2>3. Progress(proc)'
    BY <1>3, <2>1, <2>2 DEF Carried, Progress, AfterDir, AfterCore, AfterCaps, AfterUser, AfterRoot,
       AfterStart, AfterOptions
  <2> QED
    BY <1>1, <1>2, <1>3, <2>1, <2>3 DEF StartInv, Reported
<1> QED
  BY <1>2, <1>4, <1>5

LEMMA StartInvSetOptions == ASSUME StartInv, SetOptions PROVE StartInv'
<1>1. /\ proc.pc = "set" /\ DOMAIN proc = ProcFields /\ proc' = [proc EXCEPT !.pc = "start"]
      /\ cmdline' = cmdline /\ result' = result /\ parent' = parent
      /\ DOMAIN opts = {"mode", "user", "group", "chroot_dir", "caps", "cwd", "core", "fdlimit"}
  BY DEF SetOptions, StartInv, NoOpts
<1>2. PICK user \in {None, ProgramUser}, own \in BOOLEAN :
        opts' = [opts EXCEPT !.user = SetFirst(@, user),
                             !.cwd = SetFirst(@, IF own THEN "/var/run" ELSE None),
                             !.fdlimit = own]
  BY DEF SetOptions
<1>3. /\ DOMAIN opts' = DOMAIN opts /\ opts'.user = SetFirst(opts.user, user)
      /\ opts'.group = opts.group /\ opts'.chroot_dir = opts.chroot_dir /\ opts'.caps = opts.caps
      /\ opts'.core = opts.core
  BY <1>1, <1>2
<1>4. proc.uid = proc.started_by /\ ~proc.keepcaps /\ Wished /\ Reported
  BY <1>1 DEF StartInv, Progress, AfterOptions, AfterStart, AfterRoot, AfterUser, AfterCaps,
     AfterCore, AfterDir
<1>5. Wished'
  BY <1>1, <1>3, <1>4 DEF Wished, SetFirst
<1>6. /\ DOMAIN proc' = ProcFields /\ Carried(proc, proc') /\ proc'.pc = "start"
      /\ proc'.reported = proc.reported
  BY <1>1, PcStep
<1>7. Progress(proc)'
  BY <1>4, <1>5, <1>6 DEF Carried, Progress, AfterDir, AfterCore, AfterCaps, AfterUser, AfterRoot,
     AfterStart, AfterOptions
<1> QED
  BY <1>1, <1>3, <1>4, <1>6, <1>7 DEF StartInv, Reported

\* z_process_detach_tty and z_process_detach_stdio take nothing away.
LEMMA Detached ==
    ASSUME NEW p, DOMAIN p = ProcFields
    PROVE  /\ LET q == z_process_detach_tty(p) IN
              DOMAIN q = ProcFields /\ Carried(p, q) /\ q.reported = p.reported
           /\ LET q == z_process_detach_stdio(p) IN
              DOMAIN q = ProcFields /\ Carried(p, q) /\ q.reported = p.reported
<1> DEFINE t == z_process_detach_tty(p)
           u == z_process_detach_stdio(p)
<1>1. /\ DOMAIN t = ProcFields /\ \A f \in ProcFields \ {"tty", "session"} : t[f] = p[f]
      /\ DOMAIN u = ProcFields /\ \A f \in ProcFields \ {"stderr_present"} : u[f] = p[f]
  BY DEF z_process_detach_tty, z_process_detach_stdio
<1> HIDE DEF t, u
<1>2. Carried(p, t) /\ t.reported = p.reported
  BY <1>1, Fields DEF Carried
<1>3. Carried(p, u) /\ u.reported = p.reported
  BY <1>1, Fields DEF Carried
<1> QED
  BY <1>1, <1>2, <1>3 DEF t, u

\* The file limit is raised, or its absence is told.
LEMMA LimitsChanged ==
    ASSUME NEW p, DOMAIN p = ProcFields, NEW q \in z_process_change_limits(p)
    PROVE  /\ DOMAIN q = ProcFields /\ NofileDone(q) /\ q.uid = p.uid
           /\ q.started_by = p.started_by /\ q.keepcaps = p.keepcaps /\ q.reported = p.reported
<1>1. CASE q = p /\ ~opts.fdlimit
  BY <1>1 DEF NofileDone
<1>2. CASE q = z_process_message(p, "nofile")
  BY <1>2, MessageTold DEF Carried, NofileDone
<1>3. CASE q = [p EXCEPT !.nofile = TRUE]
  <2>1. DOMAIN q = ProcFields /\ q.nofile /\ \A f \in ProcFields \ {"nofile"} : q[f] = p[f]
    BY <1>3, Fields
  <2> QED
    BY <2>1, Fields DEF NofileDone
<1> QED
  BY <1>1, <1>2, <1>3 DEF z_process_change_limits, OrTold

LEMMA StartInvStart == ASSUME StartInv, Start PROVE StartInv'
<1> DEFINE t == z_process_detach_tty(proc)
<1>1. proc.pc = "start" /\ DOMAIN proc = ProcFields /\ UNCHANGED <<cmdline, opts, result, parent>>
  BY DEF Start, StartInv
<1>2. PICK p \in z_process_change_limits(t) : proc' = [p EXCEPT !.pc = "fork"]
  BY DEF Start
<1>3. DOMAIN t = ProcFields /\ Carried(proc, t) /\ t.reported = proc.reported
  BY <1>1, Detached
<1> HIDE DEF t
<1>4. /\ DOMAIN p = ProcFields /\ NofileDone(p) /\ p.uid = t.uid
      /\ p.started_by = t.started_by /\ p.keepcaps = t.keepcaps /\ p.reported = t.reported
  BY <1>3, LimitsChanged
<1>5. /\ DOMAIN proc' = ProcFields /\ Carried(p, proc') /\ proc'.pc = "fork"
      /\ proc'.reported = p.reported
  BY <1>2, <1>4, PcStep
<1>6. proc.uid = proc.started_by /\ ~proc.keepcaps /\ Wished
  BY <1>1 DEF StartInv, Progress, AfterOptions, AfterStart, AfterRoot, AfterUser, AfterCaps,
     AfterCore, AfterDir
<1>7. proc'.uid = proc'.started_by /\ ~proc'.keepcaps /\ Wished'
  BY <1>1, <1>3, <1>4, <1>5, <1>6 DEF Carried, Wished
<1>8. NofileDone(proc')
  BY <1>4, <1>5, CarriedDone
<1>9. NofileDone(proc)'
  BY <1>1, <1>8 DEF NofileDone, Told
<1>10. Progress(proc)'
  BY <1>5, <1>7, <1>9 DEF Progress, AfterDir, AfterCore, AfterCaps, AfterUser, AfterRoot,
     AfterStart, AfterOptions
<1> QED
  BY <1>1, <1>3, <1>4, <1>5, <1>10, ProcMoves

LEMMA ProgressPrimed ==
    ASSUME UNCHANGED <<cmdline, opts>>, NEW q, proc' = q, Progress(q)
    PROVE  Progress(proc)'
<1>1. /\ Wished => Wished'
      /\ NofileDone(q) => NofileDone(proc)'
      /\ RootDone(q) => RootDone(proc)'
  BY DEF Wished, NofileDone, RootDone, Told
<1>2. /\ CapsDone(q) => CapsDone(proc)'
      /\ CoreDone(q) => CoreDone(proc)'
  BY DEF CapsDone, CoreDone, Told
<1>3. UserDone(q) => UserDone(proc)'
  BY DEF UserDone, Told, Asked
<1> QED
  BY <1>1, <1>2, <1>3 DEF Progress

\* A step that keeps everything leads to a place where nothing more is due.
LEMMA ProgressCarried ==
    ASSUME NEW p, NEW q, Carried(p, q), Progress(p),
           p.pc \in AfterOptions => q.pc \in AfterOptions,
           q.pc \in AfterOptions => p.pc \in AfterOptions,
           q.pc # "options",
           q.pc \in AfterOptions \ AfterUser => p.pc \in AfterOptions \ AfterUser,
           q.pc \in AfterStart => p.pc \in AfterStart,
           q.pc \in AfterRoot => p.pc \in AfterRoot \/ RootDone(q),
           q.pc \in AfterUser => p.pc \in AfterUser,
           q.pc \in AfterCaps => p.pc \in AfterCaps \/ CapsDone(q),
           q.pc \in AfterCore => p.pc \in AfterCore \/ CoreDone(q)
    PROVE  Progress(q)
<1>1. /\ q.uid = p.uid /\ q.started_by = p.started_by /\ q.keepcaps = p.keepcaps
  BY DEF Carried
<1> QED
  BY <1>1, CarriedDone DEF Progress

LEMMA StartInvAsDaemon ==
    ASSUME StartInv, proc.pc = "fork", proc' = AsDaemon(proc),
           UNCHANGED <<cmdline, opts, result>>, parent' = parent \/ parent' = "reading"
    PROVE  StartInv'
<1> DEFINE q == AsDaemon(proc)
<1>1. DOMAIN proc = ProcFields /\ Progress(proc) /\ Reported
  BY DEF StartInv
<1>2. /\ DOMAIN q = ProcFields /\ q.pc = "root"
      /\ \A f \in ProcFields \ {"kind", "session", "pc"} : q[f] = proc[f]
  BY <1>1, Fields DEF AsDaemon
<1>3. proc' = q
  OBVIOUS
<1> HIDE DEF q
<1>4. Carried(proc, q) /\ q.reported = proc.reported
  BY <1>2, Fields DEF Carried
<1>5. Progress(q)
  BY <1>1, <1>2, <1>4, ProgressCarried DEF AfterDir, AfterCore, AfterCaps, AfterUser,
     AfterRoot, AfterStart, AfterOptions
<1>6. Progress(proc)'
  BY <1>3, <1>5, ProgressPrimed
<1> QED
  BY <1>1, <1>2, <1>3, <1>4, <1>6 DEF StartInv, Reported

\* The end of the process, wherever it comes.
LEMMA StartInvEnds ==
    ASSUME StartInv, NEW p, p.reported = proc.reported, proc' = Ended(p),
           UNCHANGED <<cmdline, opts, result, parent>>
    PROVE  StartInv'
<1>1. /\ DOMAIN proc' = ProcFields /\ proc'.pc = "exited" /\ proc'.reported = p.reported
      /\ Progress(Ended(p))
  BY EndedOwes
<1>2. Progress(proc)'
  BY <1>1, ProgressPrimed
<1> QED
  BY <1>1, <1>2, ProcMoves

\* z_process_startup_failed reports a failure only if nothing was reported.
LEMMA StartInvFails ==
    ASSUME StartInv, NEW p, DOMAIN p = ProcFields, p.reported = proc.reported,
           NEW may_exit \in BOOLEAN, DaemonFails(p, may_exit),
           ~may_exit => p = proc /\ proc.pc = "returned",
           proc.pc \notin {"options", "set", "start", "fork"}
    PROVE  StartInv'
<1> DEFINE q == [p EXCEPT !.reported = IF @ = "empty" THEN "fail" ELSE @]
           u == z_process_detach_stdio(q)
<1>1. /\ DOMAIN q = ProcFields /\ q.reported = (IF p.reported = "empty" THEN "fail" ELSE p.reported)
      /\ \A f \in ProcFields \ {"reported"} : q[f] = p[f]
  BY Fields
<1>2. /\ UNCHANGED <<cmdline, opts, parent>> /\ (result' = result \/ result' = "fail")
      /\ proc' = IF may_exit THEN Ended(q) ELSE [u EXCEPT !.pc = "failed"]
  BY DEF DaemonFails, z_process_send_result
<1> HIDE DEF q
<1>3. (proc.reported = "ok") => (q.reported = "ok")
  BY <1>1
<1>4. Reported /\ Progress(proc)
  BY DEF StartInv
<1>5. CASE may_exit
  <2>1. /\ DOMAIN proc' = ProcFields /\ proc'.pc = "exited" /\ proc'.reported = q.reported
        /\ Progress(Ended(q)) /\ proc' = Ended(q)
    BY <1>2, <1>5, EndedOwes
  <2>2. Progress(proc)'
    BY <1>2, <2>1, ProgressPrimed
  <2> QED
    BY <1>2, <1>3, <1>4, <2>1, <2>2 DEF StartInv, Reported
<1>6. CASE ~may_exit
  <2>1. DOMAIN u = ProcFields /\ Carried(q, u) /\ u.reported = q.reported
    BY <1>1, Detached
  <2>2. Carried(p, q)
    BY <1>1, Fields DEF Carried
  <2> DEFINE v == [u EXCEPT !.pc = "failed"]
  <2>3. DOMAIN v = ProcFields /\ Carried(u, v) /\ v.pc = "failed" /\ v.reported = u.reported
    BY <2>1, PcStep
  <2>4. proc' = v
    BY <1>2, <1>6
  <2> HIDE DEF u, v
  <2>5. Carried(proc, v)
    BY <1>6, <2>1, <2>2, <2>3, CarriedOn
  <2>6. proc.pc = "returned"
    BY <1>6
  <2>7. Progress(v)
    BY <1>4, <2>3, <2>5, <2>6, ProgressCarried DEF AfterDir, AfterCore, AfterCaps, AfterUser,
       AfterRoot, AfterStart, AfterOptions
  <2>8. Progress(proc)'
    BY <1>2, <2>4, <2>7, ProgressPrimed
  <2> QED
    BY <1>2, <1>3, <1>4, <2>1, <2>3, <2>4, <2>8 DEF StartInv, Reported
<1> QED
  BY <1>5, <1>6

\* Step keeps the invariant when what is due at the next place is done.
LEMMA StartInvStep ==
    ASSUME StartInv, NEW p, NEW pc, DOMAIN p = ProcFields, p.reported = proc.reported, Step(p, pc),
           pc \notin {"options", "set", "start", "fork"},
           \A q : (Carried(p, q) /\ q.pc = pc) => Progress(q)
    PROVE  StartInv'
<1> DEFINE q == [p EXCEPT !.pc = pc]
<1>1. DOMAIN q = ProcFields /\ Carried(p, q) /\ q.pc = pc /\ q.reported = p.reported
  BY PcStep
<1>2. proc' = q /\ UNCHANGED <<cmdline, opts, result, parent>>
  BY DEF Step
<1> HIDE DEF q
<1>3. Progress(proc)'
  BY <1>1, <1>2, ProgressPrimed
<1> QED
  BY <1>1, <1>2, <1>3, ProcMoves

\* What z_process_change_user leaves of the steps before it.
Based(p, q) ==
    /\ DOMAIN q = ProcFields
    /\ q.started_by = p.started_by /\ q.root = p.root /\ q.nofile = p.nofile
    /\ q.reported = p.reported /\ p.told \subseteq q.told

LEMMA CallFailed ==
    ASSUME NEW p, DOMAIN p = ProcFields, NEW topic
    PROVE  LET q == CallFails(p, topic) IN
           /\ DOMAIN q = ProcFields /\ Carried(p, q) /\ q.reported = p.reported /\ Told(q, topic)
           /\ q.pc = IF p.uid # Root THEN p.pc ELSE "error"
<1> DEFINE m == z_process_message(p, topic)
           pc == IF Tolerated(p) THEN m.pc ELSE "error"
           q == [m EXCEPT !.pc = pc]
<1>1. DOMAIN m = ProcFields /\ Carried(p, m) /\ Told(m, topic) /\ m.pc = p.pc /\ m.reported = p.reported
  BY MessageTold
<1>2. CallFails(p, topic) = q
  BY DEF CallFails
<1>3. pc = IF p.uid # Root THEN p.pc ELSE "error"
  BY <1>1 DEF Tolerated
<1> HIDE DEF m, pc
<1>4. DOMAIN q = ProcFields /\ Carried(m, q) /\ q.pc = pc /\ q.reported = m.reported
  BY <1>1, PcStep
<1> HIDE DEF q
<1>5. Carried(p, q)
  BY <1>1, <1>4, CarriedOn
<1>6. Told(q, topic)
  BY <1>1, <1>4, ToldKept DEF Carried
<1> QED
  BY <1>1, <1>2, <1>3, <1>4, <1>5, <1>6

LEMMA GroupSet ==
    ASSUME NEW p, DOMAIN p = ProcFields, NEW gid
    PROVE  /\ LET q == [p EXCEPT !.gid = gid] IN
              /\ Based(p, q) /\ q.uid = p.uid /\ q.keepcaps = p.keepcaps
              /\ q.pc = p.pc /\ q.gid = gid
           /\ LET q == [p EXCEPT !.groups = gid] IN
              /\ Based(p, q) /\ q.uid = p.uid /\ q.keepcaps = p.keepcaps
              /\ q.pc = p.pc /\ q.gid = p.gid /\ q.groups = gid
<1> DEFINE q == [p EXCEPT !.gid = gid]
           r == [p EXCEPT !.groups = gid]
<1>1. /\ DOMAIN q = ProcFields /\ q.gid = gid /\ \A f \in ProcFields \ {"gid"} : q[f] = p[f]
      /\ DOMAIN r = ProcFields /\ r.groups = gid /\ \A f \in ProcFields \ {"groups"} : r[f] = p[f]
  BY Fields
<1> HIDE DEF q, r
<1>2. Based(p, q) /\ q.uid = p.uid /\ q.keepcaps = p.keepcaps /\ q.pc = p.pc
  BY <1>1, Fields DEF Based
<1>3. Based(p, r) /\ r.uid = p.uid /\ r.keepcaps = p.keepcaps /\ r.pc = p.pc /\ r.gid = p.gid
  BY <1>1, Fields DEF Based
<1> QED
  BY <1>1, <1>2, <1>3 DEF q, r

\* setgid and initgroups: root gets what it asked for, or the start ends.
LEMMA GroupsChanged ==
    ASSUME NEW p, DOMAIN p = ProcFields, p.pc # "error", NEW gid, NEW g \in Grouped(p, gid)
    PROVE  /\ Based(p, g) /\ g.uid = p.uid /\ g.keepcaps = p.keepcaps
           /\ (p.uid = Root /\ g.pc # "error" /\ gid # NotAsked) =>
                 g.gid = gid /\ (opts.user # None => g.groups = gid)
<1> DEFINE set == IF MayBecome(p, gid) THEN {[p EXCEPT !.gid = gid]} ELSE {}
           init(q) == IF q.uid = Root THEN {[q EXCEPT !.groups = gid]} ELSE {}
           tried == set \cup {CallFails(p, "setgid")}
<1>1. ASSUME NEW q \in tried
      PROVE  /\ Based(p, q) /\ q.uid = p.uid /\ q.keepcaps = p.keepcaps
             /\ (p.uid = Root /\ q.pc # "error") => q.gid = gid
  <2>1. CASE q = [p EXCEPT !.gid = gid]
    <3> HIDE DEF tried, set, init
    <3>1. LET r == [p EXCEPT !.gid = gid] IN
          Based(p, r) /\ r.uid = p.uid /\ r.keepcaps = p.keepcaps /\ r.gid = gid
      BY GroupSet
    <3> QED
      BY <2>1, <3>1
  <2>2. CASE q = CallFails(p, "setgid")
    BY <2>2, CallFailed DEF Based, Carried
  <2> QED
    BY <2>1, <2>2
<1>2. CASE gid = NotAsked
  <2>1. g = p
    BY <1>2 DEF Grouped
  <2> QED
    BY <1>2, <2>1 DEF Based
<1>3. CASE gid # NotAsked /\ opts.user = None
  <2>1. g \in tried
    BY <1>3 DEF Grouped
  <2> QED
    BY <1>1, <1>3, <2>1
<1>4. CASE gid # NotAsked /\ opts.user # None
  <2>1. g \in UNION {IF q.pc = "error" THEN {q} ELSE init(q) \cup {CallFails(q, "initgroups")}
                      : q \in tried}
    BY <1>4 DEF Grouped
  <2> HIDE DEF tried
  <2>2. PICK q \in tried : g \in IF q.pc = "error" THEN {q}
                                  ELSE init(q) \cup {CallFails(q, "initgroups")}
    BY <2>1
  <2>3. /\ Based(p, q) /\ q.uid = p.uid /\ q.keepcaps = p.keepcaps /\ DOMAIN q = ProcFields
        /\ (p.uid = Root /\ q.pc # "error") => q.gid = gid
    BY <1>1 DEF Based
  <2>4. CASE g = q /\ q.pc = "error"
    BY <2>3, <2>4
  <2>5. CASE q.pc # "error" /\ g = [q EXCEPT !.groups = gid]
    <3>1. /\ Based(q, g) /\ g.uid = q.uid /\ g.keepcaps = q.keepcaps
          /\ g.gid = q.gid /\ g.groups = gid
      BY <2>3, <2>5, GroupSet
    <3> QED
      BY <2>3, <2>5, <3>1 DEF Based
  <2>6. CASE q.pc # "error" /\ g = CallFails(q, "initgroups")
    <3>1. /\ DOMAIN g = ProcFields /\ Carried(q, g) /\ g.reported = q.reported
          /\ (q.uid = Root) => (g.pc = "error")
      BY <2>3, <2>6, CallFailed
    <3> QED
      BY <2>3, <3>1 DEF Based, Carried
  <2> QED
    BY <2>2, <2>4, <2>5, <2>6
<1> QED
  BY <1>2, <1>3, <1>4

\* setuid: root becomes who it asked for, or the start ends; somebody else who
\* could not is told.
LEMMA UserSwitched ==
    ASSUME NEW g, DOMAIN g = ProcFields, NEW uid, NEW u \in Switched(g, uid), u.pc # "error"
    PROVE  /\ Based(g, u) /\ g.pc # "error" /\ u.gid = g.gid /\ u.groups = g.groups
           /\ uid = NotAsked => u = g
           /\ uid # NotAsked =>
                \/ u.uid = uid /\ (g.uid = Root /\ uid # Root => u.permitted = g.keepcaps)
                \/ g.uid # Root /\ u.uid = g.uid /\ Told(u, "setuid")
<1> DEFINE left == uid # Root /\ g.uid = Root
           permitted == IF left THEN g.keepcaps ELSE g.permitted
           dumpable == IF left THEN FALSE ELSE g.dumpable
           set == [g EXCEPT !.uid = uid, !.permitted = permitted, !.dumpable = dumpable]
<1>1. CASE g.pc = "error" \/ uid = NotAsked
  <2>1. u = g
    BY <1>1 DEF Switched
  <2> QED
    BY <1>1, <2>1 DEF Based
<1>2. CASE ~(g.pc = "error" \/ uid = NotAsked)
  <2>1. u = set \/ u = CallFails(g, "setuid")
    BY <1>2 DEF Switched
  <2>2. CASE u = set
    <3>1. left => (permitted = g.keepcaps)
      OBVIOUS
    <3> HIDE DEF permitted, dumpable
    <3>2. /\ DOMAIN u = ProcFields /\ u.uid = uid /\ u.permitted = permitted
          /\ \A f \in ProcFields \ {"uid", "permitted", "dumpable"} : u[f] = g[f]
      BY <2>2, Fields
    <3>3. Based(g, u) /\ u.gid = g.gid /\ u.groups = g.groups
      BY <3>2, Fields DEF Based
    <3> QED
      BY <1>2, <3>1, <3>2, <3>3
  <2>3. CASE u = CallFails(g, "setuid")
    <3>1. /\ DOMAIN u = ProcFields /\ Carried(g, u) /\ u.reported = g.reported
          /\ Told(u, "setuid") /\ u.pc = IF g.uid # Root THEN g.pc ELSE "error"
      BY <2>3, CallFailed
    <3> QED
      BY <1>2, <3>1 DEF Based, Carried
  <2> QED
    BY <2>1, <2>2, <2>3
<1> QED
  BY <1>1, <1>2

LEMMA StartInvChangeRoot == ASSUME StartInv, z_process_change_root PROVE StartInv'
<1>1. proc.pc = "root" /\ DOMAIN proc = ProcFields /\ Progress(proc)
  BY DEF StartInv, z_process_change_root
<1>2. Wished /\ NofileDone(proc) /\ proc.uid = proc.started_by /\ ~proc.keepcaps
  BY <1>1 DEF Progress, AfterDir, AfterCore, AfterCaps, AfterUser,
     AfterRoot, AfterStart, AfterOptions
<1>3. CASE opts.chroot_dir = None /\ Step(proc, "resolve")
  <2>1. ASSUME NEW q, Carried(proc, q), q.pc = "resolve" PROVE Progress(q)
    <3>1. RootDone(q)
      BY <1>2, <1>3 DEF RootDone, Wished
    <3> QED
      BY <1>1, <2>1, <3>1, ProgressCarried DEF AfterDir, AfterCore, AfterCaps, AfterUser,
         AfterRoot, AfterStart, AfterOptions
  <2> QED
    BY <1>1, <1>3, <2>1, StartInvStep
<1>4. CASE Step([proc EXCEPT !.root = opts.chroot_dir], "resolve")
  <2> DEFINE p == [proc EXCEPT !.root = opts.chroot_dir]
  <2>1. /\ DOMAIN p = ProcFields /\ p.root = opts.chroot_dir
        /\ \A f \in ProcFields \ {"root"} : p[f] = proc[f]
    BY <1>1, Fields
  <2>2. Step(p, "resolve")
    BY <1>4
  <2> HIDE DEF p
  <2>3. /\ p.reported = proc.reported /\ p.uid = p.started_by /\ ~p.keepcaps
        /\ p.nofile = proc.nofile /\ p.told = proc.told
    BY <1>2, <2>1, Fields
  <2>4. NofileDone(p) /\ RootDone(p)
    BY <1>2, <2>1, <2>3 DEF NofileDone, RootDone, Wished, Told
  <2>5. ASSUME NEW q, Carried(p, q), q.pc = "resolve" PROVE Progress(q)
    <3>1. NofileDone(q) /\ RootDone(q) /\ q.uid = q.started_by /\ ~q.keepcaps
      BY <2>3, <2>4, <2>5, CarriedDone DEF Carried
    <3> QED
      BY <1>2, <2>5, <3>1 DEF Progress, AfterDir, AfterCore, AfterCaps, AfterUser,
         AfterRoot, AfterStart, AfterOptions
  <2> QED
    BY <2>1, <2>2, <2>3, <2>5, StartInvStep
<1>5. CASE DaemonFails(z_process_message(proc, "chroot"), TRUE)
  BY <1>1, <1>5, MessageTold, StartInvFails
<1> QED
  BY <1>3, <1>4, <1>5 DEF z_process_change_root

LEMMA CapsKept ==
    ASSUME NEW p, DOMAIN p = ProcFields
    PROVE  LET q == KeepCaps(p) IN
           /\ Based(p, q) /\ q.uid = p.uid /\ q.pc = p.pc
           /\ opts.caps = None => q.keepcaps = p.keepcaps
<1>1. CASE opts.caps = None
  BY <1>1 DEF KeepCaps, Based
<1>2. CASE opts.caps # None
  <2> DEFINE q == KeepCaps(p)
  <2>1. DOMAIN q = ProcFields /\ \A f \in ProcFields \ {"keepcaps"} : q[f] = p[f]
    BY <1>2, Fields DEF KeepCaps
  <2> HIDE DEF q
  <2>2. Based(p, q) /\ q.uid = p.uid /\ q.pc = p.pc
    BY <2>1, Fields DEF Based
  <2> QED
    BY <1>2, <2>2 DEF q
<1> QED
  BY <1>1, <1>2

LEMMA StartInvChangeUser == ASSUME StartInv, z_process_change_user PROVE StartInv'
<1>1. proc.pc = "resolve" /\ DOMAIN proc = ProcFields /\ Progress(proc)
  BY DEF StartInv, z_process_change_user
<1>2. /\ Wished /\ NofileDone(proc) /\ RootDone(proc)
      /\ proc.uid = proc.started_by /\ ~proc.keepcaps
  BY <1>1 DEF Progress, AfterDir, AfterCore, AfterCaps, AfterUser,
     AfterRoot, AfterStart, AfterOptions
<1> DEFINE k == KeepCaps(proc)
<1>3. PICK uid \in z_resolve(opts.user), gid \in z_resolve(opts.group) :
         \/ /\ Unresolved \in {uid, gid}
            /\ DaemonFails(z_process_message(k, "resolve"), TRUE)
         \/ /\ Unresolved \notin {uid, gid}
            /\ \E g \in Grouped(k, gid) : \E u \in Switched(g, uid) :
                 IF u.pc = "error" THEN DaemonFails(u, TRUE) ELSE Step(u, "caps")
  BY DEF z_process_change_user
<1>4. /\ Based(proc, k) /\ k.uid = proc.uid /\ k.pc = proc.pc
      /\ opts.caps = None => k.keepcaps = proc.keepcaps
  BY <1>1, CapsKept
<1> HIDE DEF k
<1>5. DOMAIN k = ProcFields /\ k.reported = proc.reported
  BY <1>4 DEF Based
<1>6. CASE DaemonFails(z_process_message(k, "resolve"), TRUE)
  BY <1>1, <1>5, <1>6, MessageTold, StartInvFails
<1>7. ASSUME Unresolved \notin {uid, gid}, NEW g \in Grouped(k, gid), NEW u \in Switched(g, uid),
             IF u.pc = "error" THEN DaemonFails(u, TRUE) ELSE Step(u, "caps")
      PROVE  StartInv'
  <2>1. /\ Based(k, g) /\ g.uid = k.uid /\ g.keepcaps = k.keepcaps
        /\ (k.uid = Root /\ g.pc # "error" /\ gid # NotAsked) =>
             g.gid = gid /\ (opts.user # None => g.groups = gid)
    BY <1>1, <1>4, <1>5, GroupsChanged
  <2>2. DOMAIN g = ProcFields /\ g.reported = proc.reported /\ g.started_by = proc.started_by
    BY <1>4, <1>5, <2>1 DEF Based
  <2>3. CASE u.pc = "error"
    <3>1. DOMAIN u = ProcFields /\ u.reported = g.reported
      <4>1. CASE u = g
        BY <2>2, <4>1
      <4>2. CASE u = CallFails(g, "setuid")
        BY <2>2, <4>2, CallFailed
      <4>3. CASE u # g /\ u # CallFails(g, "setuid")
        <5> DEFINE left == uid # Root /\ g.uid = Root
                   permitted == IF left THEN g.keepcaps ELSE g.permitted
                   dumpable == IF left THEN FALSE ELSE g.dumpable
        <5>1. u = [g EXCEPT !.uid = uid, !.permitted = permitted, !.dumpable = dumpable]
          BY <4>3 DEF Switched
        <5> HIDE DEF permitted, dumpable
        <5> QED
          BY <2>2, <5>1, Fields
      <4> QED
        BY <4>1, <4>2, <4>3
    <3>2. DaemonFails(u, TRUE)
      BY <1>7, <2>3
    <3> QED
      BY <1>1, <2>2, <3>1, <3>2, StartInvFails
  <2>4. CASE u.pc # "error"
    <3>1. /\ Based(g, u) /\ g.pc # "error" /\ u.gid = g.gid /\ u.groups = g.groups
          /\ uid = NotAsked => u = g
          /\ uid # NotAsked =>
               \/ u.uid = uid /\ (g.uid = Root /\ uid # Root => u.permitted = g.keepcaps)
               \/ g.uid # Root /\ u.uid = g.uid /\ Told(u, "setuid")
      BY <2>2, <2>4, UserSwitched
    <3>2. /\ DOMAIN u = ProcFields /\ u.reported = proc.reported /\ u.started_by = proc.started_by
          /\ u.root = proc.root /\ u.nofile = proc.nofile /\ proc.told \subseteq u.told
      BY <1>4, <2>1, <3>1 DEF Based
    <3>3. NofileDone(u) /\ RootDone(u)
      BY <1>2, <3>2, ToldKept DEF NofileDone, RootDone
    <3>4. Asked = opts.user /\ cmdline.group = opts.group /\ cmdline.caps = opts.caps
      BY <1>2 DEF Wished, Asked
    <3>5. (Asked = None => uid = NotAsked) /\ (Asked # None => uid = uid_of(Asked))
      BY <1>7, <3>4 DEF z_resolve
    <3>6. (cmdline.group # None) => (gid = uid_of(cmdline.group) /\ gid # NotAsked)
      <4>1. cmdline.group \in {None, "zorp"}
        BY DEF StartInv
      <4>2. uid_of("zorp") # NotAsked
        BY DEF uid_of, NotAsked
      <4> QED
        BY <1>7, <3>4, <4>1, <4>2 DEF z_resolve
    <3>7. UserDone(u)
      <4>1. ASSUME u.started_by = Root
            PROVE  /\ (Asked # None /\ uid_of(Asked) # NotAsked) => u.uid = uid_of(Asked)
                   /\ cmdline.group # None => u.gid = uid_of(cmdline.group)
                   /\ (cmdline.group # None /\ Asked # None) => u.groups = uid_of(cmdline.group)
                   /\ (u.uid # Root /\ cmdline.caps = None) => ~u.permitted
        <5>1. k.uid = Root /\ g.uid = Root
          BY <1>2, <1>4, <2>1, <3>2, <4>1
        <5>2. (Asked # None /\ uid_of(Asked) # NotAsked) => u.uid = uid_of(Asked)
          BY <3>1, <3>5, <5>1
        <5>3. (cmdline.group # None) => (g.gid = gid /\ (Asked # None => g.groups = gid))
          BY <2>1, <3>1, <3>4, <3>6, <5>1
        <5>4. ASSUME u.uid # Root, cmdline.caps = None PROVE ~u.permitted
          <6>1. uid # NotAsked
            BY <3>1, <5>1, <5>4
          <6>2. u.uid = uid /\ u.permitted = g.keepcaps
            BY <3>1, <5>1, <5>4, <6>1
          <6> QED
            BY <1>2, <1>4, <2>1, <3>4, <5>4, <6>2
        <5> QED
          BY <3>1, <3>6, <5>2, <5>3, <5>4
      <4>2. ASSUME Asked # None, uid_of(Asked) \notin {NotAsked, u.uid}
            PROVE  Told(u, "setuid")
        BY <3>1, <3>5, <4>2
      <4> QED
        BY <4>1, <4>2 DEF UserDone
    <3>8. ASSUME NEW q, Carried(u, q), q.pc = "caps" PROVE Progress(q)
      <4>1. NofileDone(q) /\ RootDone(q) /\ UserDone(q)
        BY <3>3, <3>7, <3>8, CarriedDone
      <4> QED
        BY <1>2, <3>8, <4>1 DEF Progress, AfterDir, AfterCore, AfterCaps, AfterUser,
           AfterRoot, AfterStart, AfterOptions
    <3>9. Step(u, "caps")
      BY <1>7, <2>4
    <3> QED
      BY <3>2, <3>8, <3>9, StartInvStep
  <2> QED
    BY <2>3, <2>4
<1> QED
  BY <1>3, <1>6, <1>7

LEMMA StartInvChangeCaps == ASSUME StartInv, z_process_change_caps PROVE StartInv'
<1>1. proc.pc = "caps" /\ DOMAIN proc = ProcFields /\ Progress(proc)
  BY DEF StartInv, z_process_change_caps
<1>2. Wished /\ NofileDone(proc) /\ RootDone(proc) /\ UserDone(proc)
  BY <1>1 DEF Progress, AfterDir, AfterCore, AfterCaps, AfterUser,
     AfterRoot, AfterStart, AfterOptions
<1>3. CASE opts.caps = None /\ Step(proc, "core")
  <2>1. ASSUME NEW q, Carried(proc, q), q.pc = "core" PROVE Progress(q)
    <3>1. CapsDone(q)
      BY <1>2, <1>3 DEF CapsDone, Wished
    <3> QED
      BY <1>1, <2>1, <3>1, ProgressCarried DEF AfterDir, AfterCore, AfterCaps, AfterUser,
         AfterRoot, AfterStart, AfterOptions
  <2> QED
    BY <1>1, <1>3, <2>1, StartInvStep
<1>4. CASE DaemonFails(z_process_message(proc, "parse"), TRUE)
  BY <1>1, <1>4, MessageTold, StartInvFails
<1>5. CASE Step([proc EXCEPT !.caps = opts.caps], "core")
  <2> DEFINE p == [proc EXCEPT !.caps = opts.caps]
  <2>1. /\ DOMAIN p = ProcFields /\ p.caps = opts.caps
        /\ \A f \in ProcFields \ {"caps"} : p[f] = proc[f]
    BY <1>1, Fields
  <2>2. Step(p, "core")
    BY <1>5
  <2> HIDE DEF p
  <2>3. /\ p.reported = proc.reported /\ p.uid = proc.uid /\ p.started_by = proc.started_by
        /\ p.gid = proc.gid /\ p.groups = proc.groups /\ p.permitted = proc.permitted
        /\ p.nofile = proc.nofile /\ p.told = proc.told /\ p.root = proc.root
    BY <2>1, Fields
  <2>4. NofileDone(p) /\ RootDone(p) /\ CapsDone(p)
    BY <1>2, <2>1, <2>3 DEF NofileDone, RootDone, CapsDone, Wished, Told
  <2>5. UserDone(p)
    BY <1>2, <2>3 DEF UserDone, Told
  <2>6. ASSUME NEW q, Carried(p, q), q.pc = "core" PROVE Progress(q)
    <3>1. NofileDone(q) /\ RootDone(q) /\ UserDone(q) /\ CapsDone(q)
      BY <2>4, <2>5, <2>6, CarriedDone
    <3> QED
      BY <1>2, <2>6, <3>1 DEF Progress, AfterDir, AfterCore, AfterCaps, AfterUser,
         AfterRoot, AfterStart, AfterOptions
  <2> QED
    BY <2>1, <2>2, <2>3, <2>6, StartInvStep
<1>6. CASE Step(z_process_message(proc, "caps"), "core")
  <2> DEFINE p == z_process_message(proc, "caps")
  <2>1. /\ DOMAIN p = ProcFields /\ Carried(proc, p) /\ Told(p, "caps") /\ p.pc = proc.pc
        /\ p.reported = proc.reported
    BY <1>1, MessageTold
  <2>2. Step(p, "core")
    BY <1>6
  <2> HIDE DEF p
  <2>3. ASSUME NEW q, Carried(p, q), q.pc = "core" PROVE Progress(q)
    <3>1. Carried(proc, q)
      BY <2>1, <2>3, CarriedOn
    <3>2. CapsDone(q)
      BY <2>1, <2>3, ToldKept DEF CapsDone, Carried
    <3> QED
      BY <1>1, <2>3, <3>1, <3>2, ProgressCarried DEF AfterDir, AfterCore, AfterCaps, AfterUser,
         AfterRoot, AfterStart, AfterOptions
  <2> QED
    BY <2>1, <2>2, <2>3, StartInvStep
<1> QED
  BY <1>3, <1>4, <1>5, <1>6 DEF z_process_change_caps

\* What z_process_enable_core and z_process_change_dir leave of the steps before.
Cored(p, q) ==
    /\ DOMAIN q = ProcFields
    /\ q.started_by = p.started_by /\ q.root = p.root /\ q.uid = p.uid /\ q.gid = p.gid
    /\ q.groups = p.groups /\ q.permitted = p.permitted /\ q.caps = p.caps
    /\ q.nofile = p.nofile /\ q.reported = p.reported /\ p.told \subseteq q.told

LEMMA CoredDone ==
    ASSUME NEW p, NEW q, Cored(p, q), NofileDone(p), RootDone(p), UserDone(p), CapsDone(p)
    PROVE  NofileDone(q) /\ RootDone(q) /\ UserDone(q) /\ CapsDone(q)
<1>1. NofileDone(q) /\ RootDone(q) /\ CapsDone(q)
  BY ToldKept DEF Cored, NofileDone, RootDone, CapsDone
<1>2. UserDone(q)
  BY ToldKept DEF Cored, UserDone
<1> QED
  BY <1>1, <1>2

LEMMA FlagSet ==
    ASSUME NEW p, DOMAIN p = ProcFields
    PROVE  /\ LET q == [p EXCEPT !.dumpable = TRUE] IN Cored(p, q) /\ q.dumpable
           /\ LET q == [p EXCEPT !.corelimit = TRUE] IN
              Cored(p, q) /\ q.corelimit /\ q.dumpable = p.dumpable
<1> DEFINE q == [p EXCEPT !.dumpable = TRUE]
           r == [p EXCEPT !.corelimit = TRUE]
<1>1. /\ DOMAIN q = ProcFields /\ q.dumpable /\ \A f \in ProcFields \ {"dumpable"} : q[f] = p[f]
      /\ DOMAIN r = ProcFields /\ r.corelimit /\ \A f \in ProcFields \ {"corelimit"} : r[f] = p[f]
  BY Fields
<1> HIDE DEF q, r
<1>2. Cored(p, q)
  BY <1>1, Fields DEF Cored
<1>3. Cored(p, r) /\ r.dumpable = p.dumpable
  BY <1>1, Fields DEF Cored
<1> QED
  BY <1>1, <1>2, <1>3 DEF q, r

LEMMA StartInvEnableCore == ASSUME StartInv, z_process_enable_core PROVE StartInv'
<1>1. proc.pc = "core" /\ DOMAIN proc = ProcFields /\ Progress(proc)
  BY DEF StartInv, z_process_enable_core
<1>2. Wished /\ NofileDone(proc) /\ RootDone(proc) /\ UserDone(proc) /\ CapsDone(proc)
  BY <1>1 DEF Progress, AfterDir, AfterCore, AfterCaps, AfterUser,
     AfterRoot, AfterStart, AfterOptions
<1>3. CASE ~opts.core /\ Step(proc, "dir")
  <2>1. ASSUME NEW q, Carried(proc, q), q.pc = "dir" PROVE Progress(q)
    <3>1. CoreDone(q)
      BY <1>2, <1>3 DEF CoreDone, Wished
    <3> QED
      BY <1>1, <2>1, <3>1, ProgressCarried DEF AfterDir, AfterCore, AfterCaps, AfterUser,
         AfterRoot, AfterStart, AfterOptions
  <2> QED
    BY <1>1, <1>3, <2>1, StartInvStep
<1>4. CASE ~(~opts.core /\ Step(proc, "dir"))
  <2> DEFINE dumpable == IF proc.dumpable THEN {proc}
                         ELSE OrTold([proc EXCEPT !.dumpable = TRUE], proc, "dumpable")
             limits(p) == IF p.uid = Root \/ p.caps # None
                          THEN OrTold([p EXCEPT !.corelimit = TRUE], p, "corelimit")
                          ELSE {z_process_message(p, "corelimit")}
  <2>1. PICK p \in dumpable : \E q \in limits(p) : Step(q, "dir")
    BY <1>4 DEF z_process_enable_core
  <2>2. PICK q \in limits(p) : Step(q, "dir")
    BY <2>1
  <2>3. Cored(proc, p) /\ (p.dumpable \/ Told(p, "dumpable"))
    <3>1. CASE p = proc /\ proc.dumpable
      BY <1>1, <3>1 DEF Cored
    <3>2. CASE p = [proc EXCEPT !.dumpable = TRUE]
      BY <1>1, <3>2, FlagSet
    <3>3. CASE p = z_process_message(proc, "dumpable")
      BY <1>1, <3>3, MessageTold DEF Cored, Carried
    <3> QED
      BY <3>1, <3>2, <3>3 DEF OrTold
  <2>4. DOMAIN p = ProcFields
    BY <2>3 DEF Cored
  <2>5. /\ Cored(p, q) /\ (q.corelimit \/ Told(q, "corelimit")) /\ q.dumpable = p.dumpable
    <3>1. CASE q = [p EXCEPT !.corelimit = TRUE]
      BY <2>4, <3>1, FlagSet
    <3>2. CASE q = z_process_message(p, "corelimit")
      BY <2>4, <3>2, MessageTold DEF Cored, Carried
    <3> QED
      BY <3>1, <3>2 DEF OrTold
  <2> HIDE DEF dumpable, limits
  <2>6. Cored(proc, q)
    BY <2>3, <2>5 DEF Cored
  <2>7. NofileDone(q) /\ RootDone(q) /\ UserDone(q) /\ CapsDone(q)
    BY <1>2, <2>6, CoredDone
  <2>8. q.dumpable \/ Told(q, "dumpable")
    BY <2>3, <2>5, ToldKept DEF Cored
  <2>9. CoreDone(q)
    BY <2>5, <2>8 DEF CoreDone
  <2>10. ASSUME NEW r, Carried(q, r), r.pc = "dir" PROVE Progress(r)
    <3>1. NofileDone(r) /\ RootDone(r) /\ UserDone(r) /\ CapsDone(r) /\ CoreDone(r)
      BY <2>7, <2>9, <2>10, CarriedDone
    <3> QED
      BY <1>2, <2>10, <3>1 DEF Progress, AfterDir, AfterCore, AfterCaps, AfterUser,
         AfterRoot, AfterStart, AfterOptions
  <2>11. DOMAIN q = ProcFields /\ q.reported = proc.reported
    BY <2>6 DEF Cored
  <2> QED
    BY <2>2, <2>10, <2>11, StartInvStep
<1> QED
  BY <1>3, <1>4

LEMMA StartInvChangeDir == ASSUME StartInv, z_process_change_dir PROVE StartInv'
<1>1. proc.pc = "dir" /\ DOMAIN proc = ProcFields /\ Progress(proc)
  BY DEF StartInv, z_process_change_dir
<1>2. PICK p \in {proc, [proc EXCEPT !.cwd = opts.cwd]} :
        Step(p, "returned") \/ Step(z_process_message(p, "unwritable"), "returned")
  BY DEF z_process_change_dir
<1>3. DOMAIN p = ProcFields /\ \A f \in ProcFields \ {"cwd"} : p[f] = proc[f]
  BY <1>1, <1>2, Fields
<1>4. Carried(proc, p) /\ p.reported = proc.reported
  BY <1>3, Fields DEF Carried
<1>5. ASSUME NEW q, Carried(proc, q), q.pc = "returned" PROVE Progress(q)
  BY <1>1, <1>5, ProgressCarried DEF AfterDir, AfterCore, AfterCaps, AfterUser,
     AfterRoot, AfterStart, AfterOptions
<1>6. CASE Step(p, "returned")
  <2>1. ASSUME NEW q, Carried(p, q), q.pc = "returned" PROVE Progress(q)
    BY <1>4, <1>5, <2>1, CarriedOn
  <2> QED
    BY <1>3, <1>4, <1>6, <2>1, StartInvStep
<1>7. CASE Step(z_process_message(p, "unwritable"), "returned")
  <2> DEFINE m == z_process_message(p, "unwritable")
  <2>1. DOMAIN m = ProcFields /\ Carried(p, m) /\ m.reported = p.reported
    BY <1>3, MessageTold
  <2>2. Step(m, "returned")
    BY <1>7
  <2> HIDE DEF m
  <2>3. Carried(proc, m)
    BY <1>4, <2>1, CarriedOn
  <2>4. ASSUME NEW q, Carried(m, q), q.pc = "returned" PROVE Progress(q)
    BY <1>5, <2>3, <2>4, CarriedOn
  <2> QED
    BY <1>4, <2>1, <2>2, <2>4, StartInvStep
<1> QED
  BY <1>2, <1>6, <1>7

LEMMA StartInvDaemonOk == ASSUME StartInv, DaemonOk PROVE StartInv'
<1>1. proc.pc \in {"returned", "failed"} /\ DOMAIN proc = ProcFields /\ Progress(proc) /\ Reported
  BY DEF StartInv, DaemonOk
<1>2. PICK w \in {[proc EXCEPT !.pidfile = TRUE, !.pid_removed = FALSE],
                   [z_process_message(proc, "pidfile") EXCEPT !.pid_removed = FALSE]} :
        proc' = [z_process_detach_stdio(w)
                 EXCEPT !.pc = "up", !.reported = IF @ = "empty" THEN "ok" ELSE @]
  BY DEF DaemonOk
<1>3. DOMAIN w = ProcFields /\ Carried(proc, w) /\ w.reported = proc.reported
  <2>1. CASE w = [proc EXCEPT !.pidfile = TRUE, !.pid_removed = FALSE]
    <3>1. DOMAIN w = ProcFields /\ \A f \in ProcFields \ {"pidfile", "pid_removed"} : w[f] = proc[f]
      BY <1>1, <2>1
    <3> QED
      BY <3>1, Fields DEF Carried
  <2>2. CASE w = [z_process_message(proc, "pidfile") EXCEPT !.pid_removed = FALSE]
    <3> DEFINE m == z_process_message(proc, "pidfile")
    <3>1. DOMAIN m = ProcFields /\ Carried(proc, m) /\ m.reported = proc.reported
      BY <1>1, MessageTold
    <3>2. w = [m EXCEPT !.pid_removed = FALSE]
      BY <2>2
    <3> HIDE DEF m
    <3>3. DOMAIN w = ProcFields /\ \A f \in ProcFields \ {"pid_removed"} : w[f] = m[f]
      BY <3>1, <3>2
    <3>4. Carried(m, w) /\ w.reported = m.reported
      BY <3>3, Fields DEF Carried
    <3> QED
      BY <3>1, <3>3, <3>4, CarriedOn
  <2> QED
    BY <1>2, <2>1, <2>2
<1> DEFINE u == z_process_detach_stdio(w)
           rep == IF u.reported = "empty" THEN "ok" ELSE u.reported
           q == [u EXCEPT !.pc = "up", !.reported = rep]
<1>4. DOMAIN u = ProcFields /\ Carried(w, u) /\ u.reported = w.reported
  BY <1>3, Detached
<1>5. proc' = q
  BY <1>2
<1>6. (u.reported \in {"empty", "ok"} => rep = "ok")
  OBVIOUS
<1> HIDE DEF u, rep
<1>7. /\ DOMAIN q = ProcFields /\ q.pc = "up" /\ q.reported = rep
      /\ \A f \in ProcFields \ {"pc", "reported"} : q[f] = u[f]
  BY <1>4, Fields
<1> HIDE DEF q
<1>8. Carried(u, q)
  BY <1>7, Fields DEF Carried
<1>9. Carried(proc, q)
  BY <1>3, <1>4, <1>8, CarriedOn
<1>10. Progress(q)
  BY <1>1, <1>7, <1>9, ProgressCarried DEF AfterDir, AfterCore, AfterCaps, AfterUser,
     AfterRoot, AfterStart, AfterOptions
<1>11. /\ UNCHANGED <<cmdline, opts, parent>>
       /\ result' = IF parent # "none" /\ proc.reported = "empty" THEN "ok" ELSE result
  BY DEF DaemonOk, z_process_send_result
<1>12. Progress(proc)'
  BY <1>5, <1>10, <1>11, ProgressPrimed
<1>13. Reported'
  BY <1>1, <1>3, <1>4, <1>5, <1>6, <1>7, <1>11 DEF Reported
<1> QED
  BY <1>5, <1>7, <1>11, <1>12, <1>13 DEF StartInv

LEMMA StartInvDaemonFinishes == ASSUME StartInv, DaemonFinishes PROVE StartInv'
<1>1. proc.pc = "up" /\ DOMAIN proc = ProcFields /\ Progress(proc)
  BY DEF StartInv, DaemonFinishes
<1>2. ASSUME NEW q, Carried(proc, q), q.pc = "up" PROVE Progress(q)
  BY <1>1, <1>2, ProgressCarried DEF AfterDir, AfterCore, AfterCaps, AfterUser,
     AfterRoot, AfterStart, AfterOptions
<1>3. CASE Step([proc EXCEPT !.pidfile = FALSE, !.pid_removed = TRUE], "up")
  <2> DEFINE p == [proc EXCEPT !.pidfile = FALSE, !.pid_removed = TRUE]
  <2>1. DOMAIN p = ProcFields /\ \A f \in ProcFields \ {"pidfile", "pid_removed"} : p[f] = proc[f]
    BY <1>1
  <2>2. Step(p, "up")
    BY <1>3
  <2> HIDE DEF p
  <2>3. Carried(proc, p) /\ p.reported = proc.reported
    BY <2>1, Fields DEF Carried
  <2>4. ASSUME NEW q, Carried(p, q), q.pc = "up" PROVE Progress(q)
    BY <1>2, <2>3, <2>4, CarriedOn
  <2> QED
    BY <2>1, <2>2, <2>3, <2>4, StartInvStep
<1>4. CASE Step(z_process_message(proc, "remove"), "up")
  <2> DEFINE m == z_process_message(proc, "remove")
  <2>1. DOMAIN m = ProcFields /\ Carried(proc, m) /\ m.reported = proc.reported
    BY <1>1, MessageTold
  <2>2. Step(m, "up")
    BY <1>4
  <2> HIDE DEF m
  <2>3. ASSUME NEW q, Carried(m, q), q.pc = "up" PROVE Progress(q)
    BY <1>2, <2>1, <2>3, CarriedOn
  <2> QED
    BY <2>1, <2>2, <2>3, StartInvStep
<1> QED
  BY <1>3, <1>4 DEF DaemonFinishes

LEMMA StartInvDaemonEnds == ASSUME StartInv, DaemonEnds PROVE StartInv'
<1> DEFINE e == Ended(proc)
           q == [e EXCEPT !.pc = "exited"]
<1>1. DOMAIN e = ProcFields /\ e.reported = proc.reported
  BY EndedOwes
<1>2. proc' = q /\ UNCHANGED <<cmdline, opts, result, parent>>
  BY DEF DaemonEnds, Step
<1> HIDE DEF e
<1>3. DOMAIN q = ProcFields /\ Carried(e, q) /\ q.pc = "exited" /\ q.reported = e.reported
  BY <1>1, PcStep
<1> HIDE DEF q
<1>4. Progress(q)
  BY <1>3 DEF Progress, AfterDir, AfterCore, AfterCaps, AfterUser,
     AfterRoot, AfterStart, AfterOptions
<1>5. Progress(proc)'
  BY <1>2, <1>4, ProgressPrimed
<1> QED
  BY <1>1, <1>2, <1>3, <1>5, ProcMoves

LEMMA StartInvBecomeSupervisor == ASSUME StartInv, BecomeSupervisor PROVE StartInv'
<1>1. /\ DOMAIN proc' = ProcFields /\ proc'.pc = "supervise"
      /\ opts' = NoOpts /\ result' = result /\ parent' = parent
  BY Fields DEF BecomeSupervisor, Started, ProcFields
<1>2. /\ DOMAIN cmdline' = {"mode", "user", "group", "chroot_dir", "caps", "core"}
      /\ cmdline'.group = None
  BY DEF StartInv, BecomeSupervisor
<1>3. Progress(proc)'
  BY <1>1 DEF Progress, AfterDir, AfterCore, AfterCaps, AfterUser,
     AfterRoot, AfterStart, AfterOptions
<1>4. result # "ok" /\ parent = "none"
  BY DEF StartInv, Reported, BecomeSupervisor
<1> QED
  BY <1>1, <1>2, <1>3, <1>4 DEF StartInv, Reported

LEMMA StartInvParentExits == ASSUME StartInv, ParentExits PROVE StartInv'
<1>1. /\ UNCHANGED <<cmdline, opts, proc, result>> /\ parent = "reading"
      /\ parent' = IF result = "ok" THEN "ok" ELSE "fail"
  BY DEF ParentExits
<1>2. Progress(proc)'
  BY <1>1, ProgressPrimed DEF StartInv
<1> QED
  BY <1>1, <1>2 DEF StartInv, Reported

LEMMA StartInvSame == ASSUME StartInv, UNCHANGED dvars PROVE StartInv'
<1>1. UNCHANGED <<cmdline, opts, proc, result, parent>>
  BY DEF dvars
<1>2. Progress(proc)'
  BY <1>1, ProgressPrimed DEF StartInv
<1> QED
  BY <1>1, <1>2 DEF StartInv, Reported

LEMMA StartInvNext == ASSUME StartInv, [Next]_<<dvars, vars>> PROVE StartInv'
<1>1. CASE ForkError
  BY <1>1, StartInvEnds DEF ForkError
<1>2. CASE Background \/ Foreground
  BY <1>2, StartInvAsDaemon DEF Background, Foreground
<1>3. CASE DaemonFailed
  <2>1. PICK may_exit \in BOOLEAN : DaemonFails(proc, may_exit)
    BY <1>3 DEF DaemonFailed
  <2>2. proc.pc = "returned" /\ DOMAIN proc = ProcFields
    BY <1>3 DEF DaemonFailed, StartInv
  <2> QED
    BY <2>1, <2>2, StartInvFails
<1>4. CASE DaemonizeNext
  BY <1>1, <1>2, <1>3, <1>4, StartInvParseOptions, StartInvSetOptions, StartInvStart,
     StartInvParentExits, StartInvChangeRoot, StartInvChangeUser, StartInvChangeCaps,
     StartInvEnableCore, StartInvChangeDir, StartInvDaemonOk, StartInvDaemonFinishes,
     StartInvDaemonEnds
     DEF DaemonizeNext
<1>5. CASE UNCHANGED dvars
  BY <1>5, StartInvSame
<1> QED
  BY <1>4, <1>5, StartInvBecomeSupervisor DEF Next

LEMMA StartInvAlways == Spec => []StartInv
<1>1. ProcessInit => StartInv
  BY StartInvInit DEF ProcessInit
<1>2. StartInv /\ [Next]_<<dvars, vars>> => StartInv'
  BY StartInvNext
<1> QED
  BY <1>1, <1>2, PTL DEF Spec

-----------------------------------------------------------------------------
(* Theorems. *)

\* z_process_perform_supervise never forks a daemon while the one before is
\* alive, because it leaves its two killing loops only after a SIGKILL has done
\* its work, and with one supervisor the pid file names the daemon that is up.
THEOREM OneNamedDaemon == Spec => []OneDaemonNamed
<1>1. ASSUME SupInv PROVE OneDaemon
  BY <1>1, SupFacts DEF OneDaemon, At, Fine
<1>2. ASSUME SupInv PROVE PidfileCurrent
  <2> SUFFICES ASSUME ~PidfileMayFail, sup["second"] = NoSup,
                      NEW s \in Sups, daemon[s] \in {"up", "hung"}
               PROVE  pidfile = s
    BY DEF PidfileCurrent
  <2>1. sup["second"].pc = "none"
    BY DEF NoSup
  <2>2. daemon["second"] = NoChild
    BY <1>2, <2>1, SupFacts DEF Sups, Fine
  <2>3. s = "first"
    BY <2>2 DEF Sups, NoChild
  <2> QED
    BY <1>2, <2>1, <2>3 DEF SupInv, Named
<1>3. SupInv => OneDaemonNamed
  BY <1>1, <1>2 DEF OneDaemonNamed
<1> QED
  BY <1>3, SupInvAlways, PTL

\* As long as its table has not overflowed, a supervisor makes at most
\* restart_max starts in restart_interval seconds, although it looks at the
\* count of one start only before the next.
THEOREM RestartsLimited == Spec => []RestartLimit
<1>1. ASSUME SupInv PROVE RestartLimit
  <2> SUFFICES ASSUME NEW s \in Sups, ~sup[s].moved
               PROVE  Cardinality(Recents(sup[s].restart_time)) <= restart_max
    BY DEF RestartLimit, Recents
  <2> QED
    BY <1>1, SupFacts DEF RecOK, Limited
<1> QED
  BY <1>1, SupInvAlways, PTL

\* z_process_perform_startup exits with 0 only after the first daemon has
\* reported a success, and a daemon that has come out of z_process_start runs
\* in the root directory and as the user, group and capabilities asked for, or
\* has told what it could not have, whichever of the system calls failed.
THEOREM StartsSound == Spec => []StartSound
<1>1. ASSUME SupInv PROVE StartupTruth
  BY <1>1 DEF SupInv, Truthful, StartupTruth
<1>2. ASSUME StartInv PROVE RunsAsAsked
  <2>1. (parent = "ok") => (proc.reported = "ok")
    BY <1>2 DEF StartInv, Reported
  <2>2. ASSUME Running PROVE Identified /\ NothingSilent
    <3>1. /\ NofileDone(proc) /\ RootDone(proc) /\ UserDone(proc) /\ CapsDone(proc)
          /\ CoreDone(proc)
      BY <1>2, <2>2 DEF StartInv, Progress, Running, AfterDir, AfterCore, AfterCaps, AfterUser,
         AfterRoot, AfterStart
    <3>2. Identified
      BY <3>1 DEF Identified, RootDone, UserDone
    <3>3. NothingSilent
      BY <3>1 DEF NothingSilent, NofileDone, UserDone, CapsDone, CoreDone
    <3> QED
      BY <3>2, <3>3
  <2> QED
    BY <2>1, <2>2 DEF RunsAsAsked
<1>3. SupInv /\ StartInv => StartSound
  BY <1>1, <1>2 DEF StartSound
<1> QED
  BY <1>3, SupInvAlways, StartInvAlways, PTL

=============================================================================
