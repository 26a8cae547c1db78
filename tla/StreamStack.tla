----------------------------- MODULE StreamStack -----------------------------
(***************************************************************************)
(* The life of a stack of streams (src/src/stream.c, zorp/zobject.h): who     *)
(* holds which reference, when the structure is taken apart, and when a       *)
(* stream is freed, while an application thread builds the stack, attaches    *)
(* it to a poll loop, closes and detaches it, and the poll thread calls back. *)
(*                                                                           *)
(* Stream i + 1 is stacked on stream i.  GLib is external: a main context     *)
(* holds a reference on an attached GSource until it is destroyed, and        *)
(* another one while it polls or dispatches it.                               *)
(*                                                                           *)
(* The read, write and urgent callbacks of a stream are handled alike: one    *)
(* slot stands for the three.  What an application passes as user data, with  *)
(* a GDestroyNotify, is a piece of data that is to be released once.          *)
(***************************************************************************)
EXTENDS Integers, FiniteSets

CONSTANTS
    Depth,         \* bound: streams in the stack
    MaxData,       \* bound: pieces of user data
    DestroyDepth,  \* bound: streams in a stack that z_stream_destroy is used on
    BothDetach     \* the application detaches and the callback returns FALSE

ASSUME StackAssumption ==
    /\ Depth \in Nat \ {0}
    /\ MaxData \in Nat
    /\ DestroyDepth \in 0 .. Depth
    /\ BothDetach \in BOOLEAN

VARIABLES
    ref,     \* ref_cnt of every stream: 0 when it is freed
    sref,    \* struct_ref of every stream
    linked,  \* i in linked: stream i has child i - 1, which has i as its parent
    source,  \* the GSource of every stream: who holds it, and whether it is active
    height,  \* the application holds a reference on the stream at this height
    app,     \* where the application is, and who is to detach the stack
    loop,    \* where the poll thread is
    walk,    \* the call of z_stream_detach_source each of the two is in
    slot,    \* the callback of every stream: user data (0: none, or a reference
             \* on the parent) and whether there is a notify function
    context, \* the ZStreamContext of the application
    used,    \* pieces of user data given to z_stream_set_callback
    released \* how often each of them was released

lifeVars == <<ref, sref, linked, source, height, app, loop, walk>>
vars == <<ref, sref, linked, source, height, app, loop, walk, slot, context, used, released>>

Streams == 1 .. Depth
Threads == {"app", "loop"}

Data == 1 .. MaxData
NoCallback == [data |-> 0, notify |-> FALSE]
Restored == [restored |-> TRUE, cb |-> NoCallback]

NoSource == [held |-> {}, active |-> FALSE]
Idle == [at |-> "no", pos |-> 0, won |-> {}]

Init ==
    /\ ref = [s \in Streams |-> 0]
    /\ sref = [s \in Streams |-> 0]
    /\ linked = {}
    /\ source = [s \in Streams |-> NoSource]
    /\ height = 0
    /\ app \in [at : {"building"}, pos : {0}, closed : {FALSE}, detached : {FALSE},
                by : {"app", "callback"}]
    /\ loop = [at |-> "idle", s |-> 0, top |-> 0, call |-> "look"]
    /\ walk = [t \in Threads |-> Idle]
    /\ slot = [s \in Streams |-> NoCallback]
    /\ context = Restored
    /\ used = 0
    /\ released = [d \in Data |-> 0]

-----------------------------------------------------------------------------
(* References. *)

\* (mutant) the structure goes while one reference is left
Falls_early(s) ==
    IF sref[s] > 2 THEN {}
    ELSE {j \in 1 .. s : \A i \in j .. s - 1 : i + 1 \in linked /\ sref[i] = 1}

\* The streams whose struct_ref reaches zero when s loses one: s, and below
\* it each child that only its parent kept.
Falls(s) ==
    IF sref[s] > 1 THEN {}
    ELSE {j \in 1 .. s : \A i \in j .. s - 1 : i + 1 \in linked /\ sref[i] = 1}

\* The links that go with them.
Broken(s) == Falls(s) \cap linked

\* (mutant) the child keeps its reference on its parent
z_stream_struct_unref_half(s) ==
    LET cut == Broken(s) IN
    /\ sref' = [i \in Streams |-> sref[i] - (IF i = s THEN 1 ELSE 0)
                                          - (IF i + 1 \in cut THEN 1 ELSE 0)]
    /\ linked' = linked \ cut
    /\ ref' = [i \in Streams |-> ref[i] - (IF i + 1 \in cut THEN 1 ELSE 0)]

\* z_stream_struct_unref and, at zero, z_stream_set_child(self, NULL): the link
\* goes in both directions with a reference each, and the child loses the
\* struct_ref its parent held.
z_stream_struct_unref(s) ==
    LET cut == Broken(s) IN
    /\ sref' = [i \in Streams |-> sref[i] - (IF i = s THEN 1 ELSE 0)
                                          - (IF i + 1 \in cut THEN 1 ELSE 0)]
    /\ linked' = linked \ cut
    /\ ref' = [i \in Streams |-> ref[i] - (IF i \in cut THEN 1 ELSE 0)
                                        - (IF i + 1 \in cut THEN 1 ELSE 0)]

\* g_source_unref by who, and z_stream_source_finalize with the last one.
DropSource(s, who) ==
    LET left == source[s].held \ who IN
    /\ source' = [source EXCEPT ![s].held = left, ![s].active = FALSE]
    /\ ref' = IF left = {} /\ source[s].held # {}
              THEN [ref EXCEPT ![s] = @ - 1] ELSE ref

-----------------------------------------------------------------------------
(* Building the stack: one thread, nothing is attached. *)

Building == app.at = "building"

\* The notify function of callback c is called: for 0 it drops a reference that
\* is counted with the link, or is passed NULL.
Notified(cs) ==
    [d \in Data |-> released[d] + Cardinality({s \in DOMAIN cs : cs[s].data = d /\ cs[s].notify})]

\* z_stream_drop_callbacks on the streams of S: the notify function stays.
Dropped(S) == [s \in Streams |-> IF s \in S THEN [slot[s] EXCEPT !.data = 0] ELSE slot[s]]

z_stream_drop_callbacks(S) ==
    /\ slot' = Dropped(S)
    /\ released' = Notified([s \in S |-> slot[s]])
    /\ UNCHANGED <<context, used>>

\* z_stream_free_method, for every stream that has just lost its last reference.
z_stream_free_method == z_stream_drop_callbacks({s \in Streams : ref[s] > 0 /\ ref'[s] = 0})

\* z_stream_new, and z_stream_push of the new stream on the old top: the
\* reference of the application moves to the new top, whose set_child method
\* puts callbacks of its own on the old one.
z_stream_push ==
    LET new == height + 1 IN
    /\ Building
    /\ new \in Streams /\ ref[new] = 0
    /\ height' = new
    /\ ref' = [ref EXCEPT ![new] = IF height = 0 THEN 1 ELSE 2]
    /\ sref' = [i \in Streams |-> IF i = new THEN 1
                                  ELSE IF i = height THEN sref[i] + 1 ELSE sref[i]]
    /\ linked' = IF height = 0 THEN linked ELSE linked \cup {new}
    /\ slot' = [s \in Streams |-> IF s = new THEN NoCallback
                                  ELSE IF s = height THEN [data |-> 0, notify |-> TRUE]
                                  ELSE slot[s]]
    /\ released' = Notified([s \in {height} \ {0} |-> slot[s]])
    /\ UNCHANGED <<source, app, loop, walk, context, used>>

\* z_stream_pop with a child: the old top is freed unless someone else holds it.
z_stream_pop ==
    /\ Building
    /\ height \in linked
    /\ height' = height - 1
    /\ linked' = linked \ {height}
    /\ ref' = [ref EXCEPT ![height] = @ - 2]
    /\ sref' = [i \in Streams |-> IF i = height - 1 THEN sref[i] - 1
                                  ELSE IF i = height THEN 0 ELSE sref[i]]
    /\ z_stream_drop_callbacks({height, height - 1})
    /\ UNCHANGED <<source, app, loop, walk>>

\* z_stream_attach_source goes down with a struct_ref for every stream ...
AttachBegins ==
    /\ Building
    /\ height > 0
    /\ sref' = [i \in Streams |-> IF i <= height THEN sref[i] + 1 ELSE sref[i]]
    /\ app' = [app EXCEPT !.at = "attaching", !.pos = 1]
    /\ UNCHANGED <<ref, linked, source, height, loop, walk>>

\* z_stream_source_new: the references the source takes on its stream.
z_stream_source_new == 1

\* ... and comes back up with a source for every stream, which holds it.
z_stream_attach_source ==
    LET s == app.pos IN
    /\ app.at = "attaching"
    /\ source' = [source EXCEPT ![s] = [held |-> {"stream", "context"}, active |-> TRUE]]
    /\ ref' = [ref EXCEPT ![s] = @ + z_stream_source_new]
    /\ app' = IF s = height THEN [app EXCEPT !.at = "using", !.pos = 0]
              ELSE [app EXCEPT !.pos = s + 1]
    /\ UNCHANGED <<sref, linked, height, loop, walk>>

-----------------------------------------------------------------------------
(* Taking it down: the order of closing and detaching is up to the           *)
(* application.                                                               *)

Ready == app.at = "using"

\* z_stream_close walks to the bottom first.
CloseBegins ==
    /\ Ready
    /\ ~app.closed
    /\ app' = [app EXCEPT !.at = "closing", !.pos = 1]
    /\ UNCHANGED <<ref, sref, linked, source, height, loop, walk>>

\* z_stream_close_method of one stream, after its child is closed.
z_stream_close ==
    /\ app.at = "closing"
    /\ z_stream_struct_unref(app.pos)
    /\ app' = IF app.pos = height
              THEN [app EXCEPT !.at = "using", !.pos = 0, !.closed = TRUE]
              ELSE [app EXCEPT !.pos = app.pos + 1]
    /\ UNCHANGED <<source, height, loop, walk>>

\* z_stream_destroy in its place: the descriptor stays open.
z_stream_destroy ==
    /\ Ready
    /\ ~app.closed
    /\ height <= DestroyDepth
    /\ z_stream_struct_unref(height)
    /\ app' = [app EXCEPT !.closed = TRUE]
    /\ UNCHANGED <<source, height, loop, walk>>

\* The application calls z_stream_detach_source on the top.
AppDetaches ==
    /\ Ready
    /\ ~app.detached
    /\ app.by = "app" \/ BothDetach
    /\ walk' = [walk EXCEPT !["app"] = [at |-> "down", pos |-> height, won |-> {}]]
    /\ app' = [app EXCEPT !.at = "detaching", !.detached = TRUE]
    /\ UNCHANGED <<ref, sref, linked, source, height, loop>>

AppDetached ==
    /\ app.at = "detaching"
    /\ walk["app"] = Idle
    /\ app' = [app EXCEPT !.at = "using"]
    /\ UNCHANGED <<ref, sref, linked, source, height, loop, walk>>

\* z_stream_unref of the top, the last thing the application does.
z_stream_unref ==
    /\ Ready
    /\ app.closed
    /\ app.detached \/ app.by = "callback"
    /\ app' = [app EXCEPT !.at = "done"]
    /\ ref' = [ref EXCEPT ![height] = @ - 1]
    /\ UNCHANGED <<sref, linked, source, height, loop, walk>>

-----------------------------------------------------------------------------
(* z_stream_detach_source_method, by either thread. *)

\* Under detach_lock: the source is destroyed by whoever finds it.
TakeSource(t) ==
    LET s == walk[t].pos
        found == "stream" \in source[s].held IN
    /\ walk[t].at = "down"
    /\ DropSource(s, IF found THEN {"stream", "context"} ELSE {})
    /\ walk' = [walk EXCEPT ![t].at = "look",
                            ![t].won = IF found THEN @ \cup {s} ELSE @]
    /\ UNCHANGED <<sref, linked, height, app, loop>>

\* After the lock: the child, if there is one.
DetachChild(t) ==
    LET s == walk[t].pos IN
    /\ walk[t].at = "look"
    /\ walk' = [walk EXCEPT ![t] = IF s \in linked
                                   THEN [@ EXCEPT !.at = "down", !.pos = s - 1]
                                   ELSE [@ EXCEPT !.at = "up"]]
    /\ UNCHANGED <<ref, sref, linked, source, height, app, loop>>

\* Back from the child: the struct_ref of the source goes with it.
DetachReturns(t) ==
    LET s == walk[t].pos IN
    /\ walk[t].at = "up"
    /\ IF s \in walk[t].won THEN z_stream_struct_unref(s)
       ELSE UNCHANGED <<ref, sref, linked>>
    /\ walk' = [walk EXCEPT ![t] = IF s = height THEN Idle ELSE [@ EXCEPT !.pos = s + 1]]
    /\ UNCHANGED <<source, height, app, loop>>

-----------------------------------------------------------------------------
(* The poll thread. *)

\* g_main_context_iteration takes a source to prepare, check or dispatch it.
LoopTakes ==
    /\ loop.at = "idle"
    /\ \E s \in Streams, c \in {"look", "dispatch"} :
          /\ source[s].active /\ "context" \in source[s].held
          /\ source' = [source EXCEPT ![s].held = @ \cup {"loop"}]
          /\ loop' = [loop EXCEPT !.at = "grab", !.s = s, !.call = c]
    /\ UNCHANGED <<ref, sref, linked, height, app, walk>>

\* The streams from s to the top of its stack.
Above(s) == {j \in s .. Depth : \A i \in s + 1 .. j : i \in linked}
Top(s) == CHOOSE j \in Above(s) : \A i \in Above(s) : i <= j

Grabbable(s) == \A j \in Above(s) : "stream" \in source[j].held /\ source[j].active

\* z_stream_source_grab_ref, under detach_lock.
z_stream_source_grab_ref ==
    /\ loop.at = "grab"
    /\ IF Grabbable(loop.s)
       THEN /\ sref' = [sref EXCEPT ![Top(loop.s)] = @ + 1]
            /\ loop' = [loop EXCEPT !.at = "callback", !.top = Top(loop.s)]
       ELSE /\ loop' = [loop EXCEPT !.at = "release"]
            /\ UNCHANGED sref
    /\ UNCHANGED <<ref, linked, source, height, app, walk>>

\* z_stream_source_prepare, _check, or _dispatch with TRUE from the callback.
CallbackReturns ==
    /\ loop.at = "callback"
    /\ loop' = [loop EXCEPT !.at = "ungrab"]
    /\ UNCHANGED <<ref, sref, linked, source, height, app, walk>>

\* FALSE from the callback: z_stream_source_dispatch takes a reference on
\* the top and detaches the stack.
CallbackEnds ==
    /\ loop.at = "callback"
    /\ loop.call = "dispatch"
    /\ app.by = "callback" \/ BothDetach
    /\ loop' = [loop EXCEPT !.at = "detaching"]
    /\ ref' = [ref EXCEPT ![loop.top] = @ + 1]
    /\ walk' = [walk EXCEPT !["loop"] = [at |-> "down", pos |-> loop.top, won |-> {}]]
    /\ UNCHANGED <<sref, linked, source, height, app>>

LoopDetached ==
    /\ loop.at = "detaching"
    /\ walk["loop"] = Idle
    /\ loop' = [loop EXCEPT !.at = "ungrab"]
    /\ ref' = [ref EXCEPT ![loop.top] = @ - 1]
    /\ UNCHANGED <<sref, linked, source, height, app, walk>>

\* The final z_stream_struct_unref of prepare, check and dispatch.
Ungrab ==
    /\ loop.at = "ungrab"
    /\ z_stream_struct_unref(loop.top)
    /\ loop' = [loop EXCEPT !.at = "release", !.top = 0]
    /\ UNCHANGED <<source, height, app, walk>>

\* The context drops its reference on the source it has taken.
LoopReleases ==
    /\ loop.at = "release"
    /\ loop' = [loop EXCEPT !.at = "idle", !.s = 0]
    /\ LET left == source[loop.s].held \ {"loop"} IN
       /\ source' = [source EXCEPT ![loop.s].held = left]
       /\ ref' = IF left = {} THEN [ref EXCEPT ![loop.s] = @ - 1] ELSE ref
    /\ UNCHANGED <<sref, linked, height, app, walk>>

AppNext ==
    \/ AttachBegins \/ z_stream_attach_source
    \/ CloseBegins \/ z_stream_close \/ z_stream_destroy
    \/ AppDetaches \/ AppDetached \/ z_stream_unref

-----------------------------------------------------------------------------
(* Callbacks and contexts, on the top of the stack: before it is attached, or   *)
(* inside a callback.                                                         *)

AppTop ==
    IF Building THEN height
    ELSE IF loop.at = "callback" /\ loop.call = "dispatch" THEN loop.top ELSE 0

\* z_stream_set_callback and z_stream_ctrl_method, with a new piece of data.
z_stream_set_callback ==
    /\ AppTop # 0
    /\ used < MaxData
    /\ used' = used + 1
    /\ slot' = [slot EXCEPT ![AppTop] = [data |-> used + 1, notify |-> TRUE]]
    /\ released' = Notified(<<slot[AppTop]>>)
    /\ UNCHANGED <<lifeVars, context>>

\* (mutant) the stream keeps what it has saved
z_stream_save_context_keeps ==
    /\ AppTop # 0
    /\ context.restored
    /\ context' = [restored |-> FALSE, cb |-> slot[AppTop]]
    /\ UNCHANGED <<lifeVars, slot, used, released>>

z_stream_save_context ==
    /\ AppTop # 0
    /\ context.restored
    /\ context' = [restored |-> FALSE, cb |-> slot[AppTop]]
    /\ slot' = [slot EXCEPT ![AppTop] = NoCallback]
    /\ UNCHANGED <<lifeVars, used, released>>

z_stream_restore_context ==
    /\ AppTop # 0
    /\ ~context.restored
    /\ slot' = [slot EXCEPT ![AppTop] = context.cb]
    /\ released' = Notified(<<slot[AppTop]>>)
    /\ context' = Restored
    /\ UNCHANGED <<lifeVars, used>>

\* z_stream_context_destroy, also when the streams are gone.
z_stream_context_destroy ==
    /\ ~context.restored
    /\ released' = Notified(<<context.cb>>)
    /\ context' = Restored
    /\ UNCHANGED <<lifeVars, slot, used>>

DataNext ==
    \/ z_stream_set_callback \/ z_stream_save_context
    \/ z_stream_restore_context \/ z_stream_context_destroy

-----------------------------------------------------------------------------
LoopGoesOn ==
    \/ z_stream_source_grab_ref \/ CallbackReturns \/ CallbackEnds
    \/ LoopDetached \/ Ungrab \/ LoopReleases

LoopNext == LoopTakes \/ LoopGoesOn

Detach(t) == TakeSource(t) \/ DetachChild(t) \/ DetachReturns(t)

Next ==
    \/ (AppNext \/ LoopNext \/ (\E t \in Threads : Detach(t))) /\ z_stream_free_method
    \/ z_stream_push \/ z_stream_pop
    \/ DataNext

\* A thread inside a call goes on, and so does the poll loop.  Nothing makes
\* the application attach, close or leave.
Fairness ==
    /\ \A t \in Threads : WF_vars(Detach(t) /\ z_stream_free_method)
    /\ WF_vars(AppDetached /\ z_stream_free_method)
    /\ WF_vars(LoopGoesOn /\ z_stream_free_method)

Spec == Init /\ [][Next]_vars /\ Fairness

-----------------------------------------------------------------------------
(* Properties. *)

\* The streams a thread looks at next.
Touched ==
    {walk[t].pos : t \in {u \in Threads : walk[u] # Idle}}
    \cup (IF loop.at = "idle" THEN {} ELSE {loop.s})
    \cup (IF loop.at \in {"callback", "detaching", "ungrab"} THEN {loop.top} ELSE {})
    \cup (IF app.at = "closing" THEN {app.pos} ELSE {})
    \cup (IF app.at = "using" THEN {height} ELSE {})

\* No thread looks at a stream that has been freed, and no stream is freed
\* with a child (the assertion of z_stream_free_method), whatever the order of
\* close, detach, the last z_stream_unref and the callbacks.
NoUseAfterFree ==
    /\ \A s \in Touched : ref[s] > 0
    /\ \A s \in linked : ref[s] > 0 /\ ref[s - 1] > 0

\* A callback never runs on a stack that is being taken apart: every stream
\* between the one that was dispatched and the top is still linked.
CallbackOnWholeStack ==
    loop.at \in {"callback", "detaching"} =>
        \A i \in loop.s + 1 .. loop.top : i \in linked

\* Once the application has closed the stack and dropped its reference, and
\* the sources are detached, every stream is freed: the circles of references
\* between streams and their sources are broken.
AllFreed ==
    (app.at = "done" /\ \A s \in Streams : "stream" \notin source[s].held)
        ~> (\A s \in Streams : ref[s] = 0)

\* A piece of user data has one owner, the stream or the saved context, and is
\* released once: it is with its owner until it is released and nowhere after
\* (z_stream_set_callback, z_stream_drop_callbacks, z_stream_save_context).
DataReleasedOnce ==
    \A d \in Data :
        Cardinality({s \in Streams : slot[s].data = d})
        + (IF context.cb.data = d THEN 1 ELSE 0)
        + released[d] = IF d <= used THEN 1 ELSE 0

\* References are sound: a stream lives as long as anyone looks at it, and what
\* an application has handed over is released exactly once.
RefsSound == NoUseAfterFree /\ DataReleasedOnce
=============================================================================
