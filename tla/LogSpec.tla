------------------------------- MODULE LogSpec -------------------------------
(***************************************************************************)
(* The decision whether a message is logged (src/src/log.c): a log            *)
(* specification maps tags to verbosity levels, every thread caches the       *)
(* answers in a hash of its own, known tags have an array that all threads    *)
(* share, and an administrator changes the specification meanwhile.           *)
(*                                                                           *)
(* Tags and patterns are sequences of words; log_spec_lock and                *)
(* logtag_cache_lock make one step of what runs under them.                   *)
(***************************************************************************)
EXTENDS Integers, Sequences, FiniteSetsExt

CONSTANTS
    Threads,    \* ZThreads: they grab a cache when they start
    Admins,     \* the threads that change the specification
    Tags,       \* tags of messages
    Mapped,     \* the tags log_map_tag knows
    LogSpecs,   \* what an administrator may write: sequences of glob:num entries
    Steps,      \* bound: values of z_log_change_verbose_level
    MaxLevel,   \* 10 in the code
    GUCHAR,     \* 256: values of a guchar
    MaxChanges  \* bound: changes of the specification

ASSUME LogSpecAssumption ==
    /\ Tags # {} /\ Mapped \subseteq Tags
    /\ LogSpecs \subseteq Seq([glob : Seq(STRING), colon : BOOLEAN, num : Int])
    /\ Steps \subseteq Int
    /\ MaxLevel \in 1 .. GUCHAR - 1 /\ GUCHAR \in Nat

VARIABLES
    log_spec,   \* the ZLogSpec: items and the default level
    caches,     \* logtag_caches
    current,    \* current_logtag_cache of every thread, 0 for none
    started,    \* the threads between their start and stop callbacks
    verb,       \* log_mapped_tags_verb
    call,       \* z_log_enabled_len in every thread
    adm,        \* the change an administrator makes
    changes     \* how many there were

logspecvars == <<log_spec, caches, current, started, verb, call, adm, changes>>

NoHash == [t \in Tags |-> 0]
NoCall == [at |-> "idle", tag |-> CHOOSE t \in Tags : TRUE, verbose |-> 0, fresh |-> FALSE]
NoChange == [at |-> "idle", old |-> 0, direction |-> 0, value |-> 0,
             new_spec |-> [items |-> <<>>, verbose |-> 0]]

-----------------------------------------------------------------------------
(* Evaluation. *)

z_log_spec_glob_match(glob, tag) ==
    /\ Len(glob) <= Len(tag)
    /\ \A i \in 1 .. Len(glob) : glob[i] \in {"*", tag[i]}

\* The first item that matches decides.
z_log_spec_eval(spec, tag) ==
    LET hits == {i \in DOMAIN spec.items : z_log_spec_glob_match(spec.items[i].pattern, tag)} IN
    IF hits = {} THEN spec.verbose ELSE spec.items[Min(hits)].level

\* An entry without its colon makes the whole specification invalid.
ValidSpec(str) == \A i \in DOMAIN str : str[i].colon

z_log_spec_init(str, default_verbosity) ==
    [items |-> [i \in DOMAIN str |-> [pattern |-> str[i].glob, level |-> str[i].num]],
     verbose |-> default_verbosity]

\* (verbose & 0xFF) + 1, kept in a guchar.
MappedValue(verbose) == ((verbose % GUCHAR) + 1) % GUCHAR

-----------------------------------------------------------------------------

\* z_log_init has parsed the specification of the options.
LogSpecInit ==
    /\ log_spec \in {z_log_spec_init(str, 1) : str \in {s \in LogSpecs : ValidSpec(s)}}
    /\ caches = <<>>
    /\ current = [t \in Threads |-> 0]
    /\ started = {}
    /\ verb = [t \in Mapped |-> 0]
    /\ call = [t \in Threads |-> NoCall]
    /\ adm = [a \in Admins |-> NoChange]
    /\ changes = 0

-----------------------------------------------------------------------------
(* Threads come and go; caches are used again. *)

Unused == {i \in DOMAIN caches : ~caches[i].used}

\* z_log_thread_started.
z_log_grab_cache(t) ==
    /\ t \notin started
    /\ started' = started \cup {t}
    /\ LET i == IF Unused = {} THEN Len(caches) + 1 ELSE Min(Unused) IN
       /\ current' = [current EXCEPT ![t] = i]
       /\ caches' = IF i > Len(caches)
                    THEN Append(caches, [empty_hash |-> FALSE, used |-> TRUE, hash |-> NoHash])
                    ELSE [caches EXCEPT ![i].used = TRUE]
    /\ UNCHANGED <<log_spec, verb, call, adm, changes>>

\* z_log_thread_stopped.  current_logtag_cache keeps its value.
z_log_release_cache(t) ==
    /\ t \in started
    /\ call[t].at = "idle"
    /\ started' = started \ {t}
    /\ caches' = [caches EXCEPT ![current[t]].used = FALSE]
    /\ UNCHANGED <<log_spec, current, verb, call, adm, changes>>

-----------------------------------------------------------------------------
(* z_log_enabled_len. *)

Calls(t, c) == call' = [call EXCEPT ![t] = c]

Quiet == \A a \in Admins : adm[a].at = "idle"

\* Without items the answer is the default level.  A known tag is looked up in
\* the array, any other one in the hash of the thread.
z_log_enabled_len(t, tag) ==
    /\ t \in started
    /\ call[t].at = "idle"
    /\ LET c == [at |-> "answer", tag |-> tag, verbose |-> log_spec.verbose, fresh |-> Quiet] IN
       Calls(t,
         IF log_spec.items = <<>> THEN c
         ELSE IF tag \notin Mapped THEN [c EXCEPT !.at = "hash"]
         ELSE IF verb[tag] # 0 THEN [c EXCEPT !.verbose = verb[tag] - 1]
         ELSE [c EXCEPT !.at = "array"])
    /\ UNCHANGED <<log_spec, caches, current, started, verb, adm, changes>>

\* Evaluated and stored under log_spec_lock.
FillsArray(t) ==
    /\ call[t].at = "array"
    /\ LET v == z_log_spec_eval(log_spec, call[t].tag) IN
       /\ verb' = [verb EXCEPT ![call[t].tag] = MappedValue(v)]
       /\ Calls(t, [call[t] EXCEPT !.at = "answer", !.verbose = v])
    /\ UNCHANGED <<log_spec, caches, current, started, adm, changes>>

\* A hash that is marked empty is replaced, and only then the mark goes.
ChecksHash(t) ==
    /\ call[t].at = "hash"
    /\ IF caches[current[t]].empty_hash
       THEN /\ caches' = [caches EXCEPT ![current[t]].hash = NoHash]
            /\ Calls(t, [call[t] EXCEPT !.at = "unmark"])
       ELSE /\ Calls(t, [call[t] EXCEPT !.at = "lookup"])
            /\ UNCHANGED caches
    /\ UNCHANGED <<log_spec, current, started, verb, adm, changes>>

Unmarks(t) ==
    /\ call[t].at = "unmark"
    /\ caches' = [caches EXCEPT ![current[t]].empty_hash = FALSE]
    /\ Calls(t, [call[t] EXCEPT !.at = "lookup"])
    /\ UNCHANGED <<log_spec, current, started, verb, adm, changes>>

LooksUp(t) ==
    /\ call[t].at = "lookup"
    /\ LET v == caches[current[t]].hash[call[t].tag] IN
       Calls(t, IF v = 0 THEN [call[t] EXCEPT !.at = "eval"]
                ELSE [call[t] EXCEPT !.at = "answer", !.verbose = v - 1])
    /\ UNCHANGED <<log_spec, caches, current, started, verb, adm, changes>>

\* Under log_spec_lock ...
Evaluates(t) ==
    /\ call[t].at = "eval"
    /\ Calls(t, [call[t] EXCEPT !.at = "insert", !.verbose = z_log_spec_eval(log_spec, call[t].tag)])
    /\ UNCHANGED <<log_spec, caches, current, started, verb, adm, changes>>

\* ... and stored after it.
Inserts(t) ==
    /\ call[t].at = "insert"
    /\ caches' = [caches EXCEPT ![current[t]].hash[call[t].tag] = call[t].verbose + 1]
    /\ Calls(t, [call[t] EXCEPT !.at = "answer"])
    /\ UNCHANGED <<log_spec, current, started, verb, adm, changes>>

Answers(t) ==
    /\ call[t].at = "answer"
    /\ Calls(t, NoCall)
    /\ UNCHANGED <<log_spec, caches, current, started, verb, adm, changes>>

-----------------------------------------------------------------------------
(* Changes. *)

\* The calls under way may get the old answer or the new one.
Begins(a, change) ==
    /\ adm[a].at = "idle"
    /\ changes < MaxChanges
    /\ changes' = changes + 1
    /\ adm' = [adm EXCEPT ![a] = change]
    /\ call' = [t \in Threads |-> [call[t] EXCEPT !.fresh = FALSE]]
    /\ UNCHANGED <<log_spec, caches, current, started, verb>>

Clamped(level) == IF level < 0 THEN 0 ELSE IF level > MaxLevel THEN MaxLevel ELSE level

\* The old level is remembered before log_spec_lock is taken.
z_log_change_verbose_level(a, direction, value) ==
    Begins(a, [NoChange EXCEPT !.at = "verbose", !.old = log_spec.verbose,
                               !.direction = direction, !.value = value])

VerboseChanges(a) ==
    /\ adm[a].at = "verbose"
    /\ log_spec' = [log_spec EXCEPT !.verbose =
                      Clamped(IF adm[a].direction = 0 THEN adm[a].value
                              ELSE @ + adm[a].direction * adm[a].value)]
    /\ adm' = [adm EXCEPT ![a].at = "compare"]
    /\ UNCHANGED <<caches, current, started, verb, call, changes>>

\* The caches are cleared only if the level is another one now.
VerboseCompares(a) ==
    /\ adm[a].at = "compare"
    /\ adm' = [adm EXCEPT ![a] = IF adm[a].old = log_spec.verbose THEN NoChange
                                 ELSE [NoChange EXCEPT !.at = "clear"]]
    /\ UNCHANGED <<log_spec, caches, current, started, verb, call, changes>>

\* The new specification is parsed with the default level read without the
\* lock.  An invalid one changes nothing.
z_log_change_logspec(a, str) ==
    /\ ValidSpec(str)
    /\ Begins(a, [NoChange EXCEPT !.at = "swap",
                                  !.new_spec = z_log_spec_init(str, log_spec.verbose)])

LogspecSwaps(a) ==
    /\ adm[a].at = "swap"
    /\ log_spec' = adm[a].new_spec
    /\ adm' = [adm EXCEPT ![a] = [NoChange EXCEPT !.at = "clear"]]
    /\ UNCHANGED <<caches, current, started, verb, call, changes>>

\* (mutant) only the caches in use are cleared
z_log_clear_caches_used(a) ==
    /\ adm[a].at = "clear"
    /\ caches' = [i \in DOMAIN caches |->
                    [caches[i] EXCEPT !.empty_hash = caches[i].used \/ caches[i].empty_hash]]
    /\ adm' = [adm EXCEPT ![a].at = "memset"]
    /\ UNCHANGED <<log_spec, current, started, verb, call, changes>>

z_log_clear_caches(a) ==
    /\ adm[a].at = "clear"
    /\ caches' = [i \in DOMAIN caches |-> [caches[i] EXCEPT !.empty_hash = TRUE]]
    /\ adm' = [adm EXCEPT ![a].at = "memset"]
    /\ UNCHANGED <<log_spec, current, started, verb, call, changes>>

\* The array is cleared without a lock.
ClearsArray(a) ==
    /\ adm[a].at = "memset"
    /\ verb' = [t \in Mapped |-> 0]
    /\ adm' = [adm EXCEPT ![a] = NoChange]
    /\ UNCHANGED <<log_spec, caches, current, started, call, changes>>

-----------------------------------------------------------------------------

LogSpecNext ==
    \/ \E t \in Threads :
         \/ z_log_grab_cache(t)
         \/ z_log_release_cache(t)
         \/ \E tag \in Tags : z_log_enabled_len(t, tag)
         \/ FillsArray(t)
         \/ ChecksHash(t)
         \/ Unmarks(t)
         \/ LooksUp(t)
         \/ Evaluates(t)
         \/ Inserts(t)
         \/ Answers(t)
    \/ \E a \in Admins :
         \/ \E d \in {-1, 0, 1}, v \in Steps : z_log_change_verbose_level(a, d, v)
         \/ VerboseChanges(a)
         \/ VerboseCompares(a)
         \/ \E str \in LogSpecs : z_log_change_logspec(a, str)
         \/ LogspecSwaps(a)
         \/ z_log_clear_caches(a)
         \/ ClearsArray(a)

-----------------------------------------------------------------------------
(* Properties. *)

\* A call that no change overlaps answers what the specification in force says,
\* whatever the caches were filled with before: no invalidation is lost between
\* a thread that fills its cache and an administrator who clears it.
AnswersCurrent ==
    \A t \in Threads :
      call[t].at = "answer" /\ call[t].fresh
        => call[t].verbose = z_log_spec_eval(log_spec, call[t].tag)
=============================================================================
