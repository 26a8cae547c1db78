------------------------------ MODULE StderrLog ------------------------------
(***************************************************************************)
(* The thread that turns what the program writes to stderr into messages      *)
(* (src/src/log.c): it polls the pipe in a GMainContext of its own, which      *)
(* z_log_destroy takes away from it.                                          *)
(*                                                                           *)
(* GLib is external: g_main_context_wakeup makes the present or the next       *)
(* iteration return.                                                          *)
(***************************************************************************)
EXTENDS Integers

CONSTANT MaxLines   \* bound: lines written to stderr

VARIABLES
    log_context,  \* the global: whether it is set
    context,      \* the GMainContext: references, wakeup pending, source attached
    reader,       \* z_log_run
    destroyer,    \* z_log_destroy
    err           \* the pipe: lines in it, lines written, closed, lines logged

stderrvars == <<log_context, context, reader, destroyer, err>>

\* z_log_enable_stderr_redirect has made the pipe and created the thread.
StderrInit ==
    /\ log_context = FALSE
    /\ context = [refs |-> 0, wakeup |-> FALSE, source |-> FALSE]
    /\ reader = [at |-> "start", c |-> FALSE]
    /\ destroyer = [at |-> "idle", c |-> FALSE]
    /\ err = [lines |-> 0, written |-> 0, closed |-> FALSE, logged |-> 0]

-----------------------------------------------------------------------------
(* z_log_run. *)

\* The context is made and published.
z_log_run ==
    /\ reader.at = "start"
    /\ context' = [context EXCEPT !.refs = 2]
    /\ log_context' = TRUE
    /\ reader' = [reader EXCEPT !.at = "attach"]
    /\ UNCHANGED <<destroyer, err>>

\* z_log_source_new; the global may be NULL again, and then the source goes to
\* the default context.
Attaches ==
    /\ reader.at = "attach"
    /\ context' = [context EXCEPT !.source = log_context]
    /\ reader' = [reader EXCEPT !.at = "loop"]
    /\ UNCHANGED <<log_context, destroyer, err>>

Reads ==
    /\ reader.at = "loop"
    /\ reader' = [at |-> IF log_context THEN "iterate" ELSE "release", c |-> log_context]
    /\ UNCHANGED <<log_context, context, destroyer, err>>

\* g_main_context_iteration calls z_fetch_stderr if there is something in the
\* pipe, and returns when it has been woken up.
z_fetch_stderr ==
    /\ reader.at = "iterate"
    /\ context.source
    /\ \/ /\ err.lines > 0
          /\ err' = [err EXCEPT !.lines = @ - 1, !.logged = @ + 1]
          /\ context' = [context EXCEPT !.wakeup = FALSE]
       \/ /\ err.lines = 0 /\ err.closed
          /\ context' = [context EXCEPT !.source = FALSE, !.wakeup = FALSE]
          /\ UNCHANGED err
    /\ reader' = [reader EXCEPT !.at = "loop"]
    /\ UNCHANGED <<log_context, destroyer>>

IterationWoken ==
    /\ reader.at = "iterate"
    /\ context.wakeup
    /\ context' = [context EXCEPT !.wakeup = FALSE]
    /\ reader' = [reader EXCEPT !.at = "loop"]
    /\ UNCHANGED <<log_context, destroyer, err>>

Releases ==
    /\ reader.at = "release"
    /\ context' = [context EXCEPT !.refs = @ - 1]
    /\ reader' = [reader EXCEPT !.at = "ended"]
    /\ UNCHANGED <<log_context, destroyer, err>>

-----------------------------------------------------------------------------
(* The program. *)

WritesStderr ==
    /\ ~err.closed
    /\ err.written < MaxLines
    /\ err' = [err EXCEPT !.written = @ + 1, !.lines = @ + 1]
    /\ UNCHANGED <<log_context, context, reader, destroyer>>

\* stdout and stderr are closed, and the context is taken ...
z_log_destroy ==
    /\ destroyer.at = "idle"
    /\ err' = [err EXCEPT !.closed = TRUE]
    /\ destroyer' = [at |-> "clear", c |-> log_context]
    /\ UNCHANGED <<log_context, context, reader>>

DestroyClears ==
    /\ destroyer.at = "clear"
    /\ log_context' = FALSE
    /\ destroyer' = [destroyer EXCEPT !.at = IF destroyer.c THEN "wakeup" ELSE "done"]
    /\ UNCHANGED <<context, reader, err>>

\* (mutant) nobody is woken up
DestroyWakes_silent ==
    /\ destroyer.at = "wakeup"
    /\ destroyer' = [destroyer EXCEPT !.at = "unref"]
    /\ UNCHANGED <<log_context, context, reader, err>>

\* ... woken up and released.
DestroyWakes ==
    /\ destroyer.at = "wakeup"
    /\ context' = [context EXCEPT !.wakeup = TRUE]
    /\ destroyer' = [destroyer EXCEPT !.at = "unref"]
    /\ UNCHANGED <<log_context, reader, err>>

DestroyUnrefs ==
    /\ destroyer.at = "unref"
    /\ context' = [context EXCEPT !.refs = @ - 1]
    /\ destroyer' = [destroyer EXCEPT !.at = "done"]
    /\ UNCHANGED <<log_context, reader, err>>

-----------------------------------------------------------------------------

Reader == z_log_run \/ Attaches \/ Reads \/ z_fetch_stderr \/ IterationWoken \/ Releases

Destroyer == z_log_destroy \/ DestroyClears \/ DestroyWakes \/ DestroyUnrefs

StderrNext == Reader \/ Destroyer \/ WritesStderr

\* Both threads run.
StderrFair == WF_stderrvars(Reader) /\ WF_stderrvars(Destroyer /\ destroyer.at # "idle")

-----------------------------------------------------------------------------
(* Properties. *)

\* A z_log_destroy that found the context ends the thread, whatever the thread
\* was doing.
ReaderEnds == (destroyer.at = "done" /\ destroyer.c) ~> (reader.at = "ended")
=============================================================================
