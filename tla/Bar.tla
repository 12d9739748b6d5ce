-------------------------------- MODULE Bar ---------------------------------
(***************************************************************************)
(* The bar process (crates/realm-bar): the thread that hands the events of *)
(* the control subscription to the user interface through a channel of one *)
(* place, and the user interface, which maps the surfaces a state asks for *)
(* and draws them into at most two buffers of a size each (src/wayland.rs, *)
(* the surface lifecycle of src/model.rs, the damage of src/render.rs).    *)
(*                                                                         *)
(* A state is [modules, panels].  A frame is what it shows and its size:   *)
(* the bar shows the modules, a panel the keymap.  A size stands for the   *)
(* logical size together with the scale.                                   *)
(***************************************************************************)
EXTENDS Naturals, Sequences

CONSTANTS Panels,  \* the surfaces shown on demand: which-key and the grimoire
          Sizes,   \* sizes a surface can have
          Nothing  \* no frame, no state, no size

VARIABLES chan,    \* the channel's place and, after it, what the worker blocks on sending
          ui       \* App

barVars == <<chan, ui>>

Kinds == {"Bar"} \union Panels
SmallestSize == CHOOSE z \in Sizes : \A y \in Sizes : z <= y

Absent == [mapped |-> FALSE]

\* create_surface: nothing is drawn before the compositor has configured it.
NewSurface ==
    [mapped |-> TRUE, configured |-> FALSE, size |-> SmallestSize, pending |-> TRUE,
     frame |-> Nothing, shown |-> Nothing, callback |-> FALSE, busy |-> [z \in Sizes |-> 0]]

BarInit(keymap) ==
    /\ chan = << >>
    /\ ui = [state |-> Nothing, keymap |-> keymap, exit |-> FALSE, failure |-> FALSE,
             surfaces |-> [k \in Kinds |-> Absent]]

Mapped(a, k) == a.surfaces[k].mapped

\* render_bar, render_which_key and render_grimoire.
Rendered(a, k) ==
    [shows |-> IF k = "Bar" THEN a.state.modules ELSE a.keymap, size |-> a.surfaces[k].size]

\* bar_damage: nothing differs from the frame that was committed last.  The
\* panels are damaged as a whole.
Undamaged(k, s, frame) == k = "Bar" /\ s.shown = frame

\* Both buffers of the frame's size are with the compositor.
NoBuffer(s, frame) == s.busy[frame.size] = 2

\* A frame that already waits for a buffer stays the one that waits.
commit_frame_KeepsWaiting(k, s, frame) ==
    IF Undamaged(k, s, frame)
    THEN [s EXCEPT !.pending = FALSE, !.frame = Nothing]
    ELSE IF NoBuffer(s, frame)
    THEN [s EXCEPT !.pending = TRUE, !.callback = TRUE, !.frame = IF @ = Nothing THEN frame ELSE @]
    ELSE [s EXCEPT !.pending = FALSE, !.frame = Nothing, !.shown = frame, !.busy[frame.size] = @ + 1]
\* commit_frame, of the surface s of kind k.
commit_frame(k, s, frame) ==
    IF Undamaged(k, s, frame)
    THEN [s EXCEPT !.pending = FALSE, !.frame = Nothing]
    ELSE IF NoBuffer(s, frame)
    THEN [s EXCEPT !.pending = TRUE, !.callback = TRUE, !.frame = frame]
    ELSE [s EXCEPT !.pending = FALSE, !.frame = Nothing, !.shown = frame, !.busy[frame.size] = @ + 1]

draw_surface(a, k) ==
    IF ~Mapped(a, k) THEN a
    ELSE IF ~a.surfaces[k].configured THEN [a EXCEPT !.surfaces[k].pending = TRUE]
    ELSE IF a.state = Nothing THEN a
    ELSE [a EXCEPT !.surfaces[k] = commit_frame(k, a.surfaces[k], Rendered(a, k))]

retry_surface(a, k) ==
    LET frame == a.surfaces[k].frame IN
    IF frame # Nothing
    THEN [a EXCEPT !.surfaces[k] = commit_frame(k, [a.surfaces[k] EXCEPT !.frame = Nothing], frame)]
    ELSE draw_surface(a, k)

\* renders_same_as, which leaves out the revision, as a state here does.
renders_same_as(s, t) == s = t

\* reconcile_visibility, for a panel; the bar stays once it is there.
Reconciled(a, state, k) ==
    IF k # "Bar" /\ k \notin state.panels THEN Absent
    ELSE IF Mapped(a, k) THEN a.surfaces[k] ELSE NewSurface

\* apply_state carries out the commands of SurfaceLifecycle::update: nothing
\* for a state that looks the same, else the surfaces it asks for and a drawing
\* of the bar (the panels that appear with it are not configured yet).
apply_state(a, state) ==
    IF renders_same_as(a.state, state) THEN a
    ELSE draw_surface([a EXCEPT !.state = state,
                                !.surfaces = [k \in Kinds |-> Reconciled(a, state, k)]], "Bar")

\* The Keymap message of run.
apply_keymap(a, keymap) ==
    LET b == [a EXCEPT !.keymap = keymap]
    IN [b EXCEPT !.surfaces = [k \in Kinds |-> IF k = "Bar" THEN b.surfaces[k]
                                               ELSE draw_surface(b, k).surfaces[k]]]

-----------------------------------------------------------------------------
Running == ~ui.exit

\* control_worker: the place in the channel is free, or the worker has nothing in hand.
WorkerFree == Len(chan) < 2
Send(message) == chan' = Append(chan, message)

Ended(failure) == [ui EXCEPT !.exit = TRUE, !.failure = failure]

\* The receiving end of the channel, in run.  The worker returns once it has
\* sent Shutdown; when it has let go of the channel by the time that message is
\* read, the same dispatch reports Closed, which counts as a failure.
Receive ==
    /\ Running /\ chan # << >>
    /\ LET message == Head(chan) IN
         ui' \in CASE message.kind = "State" -> {apply_state(ui, message.value)}
                   [] message.kind = "Keymap" -> {apply_keymap(ui, message.value)}
                   [] message.kind = "Shutdown" -> {Ended(FALSE), Ended(TRUE)}
                   [] message.kind = "Failed" -> {Ended(TRUE)}
    /\ chan' = Tail(chan)

\* configure: the first one of a surface, and later ones.  A compositor that
\* gives Nothing leaves the size to the client, which has none before the first.
Configure(k, size) ==
    /\ Running /\ Mapped(ui, k)
    /\ LET s == ui.surfaces[k]
           t == [s EXCEPT !.configured = @ \/ size # Nothing,
                          !.size = IF size # Nothing THEN size ELSE @,
                          !.pending = TRUE]
       IN ui' = draw_surface([ui EXCEPT !.surfaces[k] = t], k)
    /\ UNCHANGED chan

scale_factor_changed(k, size) ==
    /\ Running /\ Mapped(ui, k)
    /\ ui' = draw_surface([ui EXCEPT !.surfaces[k].size = size, !.surfaces[k].pending = TRUE], k)
    /\ UNCHANGED chan

\* The callback asked for with the commit that found no buffer.
FrameCallback(k) ==
    /\ Running /\ Mapped(ui, k) /\ ui.surfaces[k].callback
    /\ LET a == [ui EXCEPT !.surfaces[k].callback = FALSE]
       IN ui' = IF a.surfaces[k].pending THEN retry_surface(a, k) ELSE a
    /\ UNCHANGED chan

\* closed: the compositor takes a surface away, which ends the bar.
SurfaceClosed(k) ==
    /\ Running /\ Mapped(ui, k)
    /\ ui' = [ui EXCEPT !.surfaces[k] = Absent, !.failure = TRUE, !.exit = TRUE]
    /\ UNCHANGED chan

\* The compositor gives a buffer back (external).  It may keep the one it shows.
Replaced(s, size) ==
    s.busy[size] > (IF s.shown # Nothing /\ s.shown.size = size THEN 1 ELSE 0)
ReleaseBuffer(k, size) ==
    /\ Running /\ Mapped(ui, k) /\ ui.surfaces[k].busy[size] > 0
    /\ ui' = [ui EXCEPT !.surfaces[k].busy[size] = @ - 1]
    /\ UNCHANGED chan

\* What happens without a further event from outside.
FirstConfigure(k) ==
    Mapped(ui, k) /\ ~ui.surfaces[k].configured /\ \E size \in Sizes : Configure(k, size)
BufferComesBack(k) ==
    \E size \in Sizes : Mapped(ui, k) /\ Replaced(ui.surfaces[k], size) /\ ReleaseBuffer(k, size)
=============================================================================
