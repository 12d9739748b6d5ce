------------------------------ MODULE Display -------------------------------
(***************************************************************************)
(* What the user sees: the sampler and the session of the daemon, and the  *)
(* bar that is subscribed to it.  The subscription is what Control.tla     *)
(* shows of it: the state of the moment first, then newer ones, of which   *)
(* any but the last may be left out, and Shutdown at the end.              *)
(***************************************************************************)
EXTENDS Sampler, Bar

CONSTANTS Keymaps,    \* keymaps a daemon can be configured with
          MaxChanges  \* how many events the environment causes

ASSUME DisplayAssumption ==
    /\ Levels # {} /\ Keymaps # {} /\ "WhichKey" \in Panels
    /\ \E z \in Sizes : \A y \in Sizes : z <= y
    /\ Nothing \notin Sizes
    /\ Nothing \notin [modules : Snapshots, panels : SUBSET Panels]

VARIABLES keymap,   \* of the daemon that runs
          link,     \* the worker's connection: "up", "down" or "over" (the worker returned)
          sent,     \* the state the worker read last on this connection
          changes   \* events of the environment so far

displayVars == <<samplerVars, barVars, keymap, link, sent, changes>>

\* The state a subscriber is sent.
Published == [modules |-> session.modules, panels |-> session.panels]

\* run connects, and gets the keymap, before there is a user interface.  Which
\* keymap the first daemon has makes no difference.
DisplayInit ==
    /\ SamplerInit
    /\ keymap = CHOOSE k \in Keymaps : TRUE
    /\ BarInit(keymap)
    /\ link = "up" /\ sent = Nothing /\ changes = 0

-----------------------------------------------------------------------------
WorkerReads ==
    /\ link = "up" /\ Running /\ WorkerFree
    /\ \/ /\ session.phase = "Live" /\ sent # Published
          /\ Send([kind |-> "State", value |-> Published])
          /\ sent' = Published /\ UNCHANGED link
       \/ /\ session.phase = "QuitPending"
          /\ Send([kind |-> "Shutdown"])
          /\ link' = "over" /\ UNCHANGED sent
    /\ UNCHANGED <<samplerVars, ui, keymap, changes>>

\* control_worker, once the daemon that took over listens.
WorkerReconnects ==
    /\ link = "down" /\ Running /\ WorkerFree
    /\ Send([kind |-> "Keymap", value |-> keymap])
    /\ link' = "up" /\ sent' = Nothing
    /\ UNCHANGED <<samplerVars, ui, keymap, changes>>

\* control_worker ends on an error that it does not answer by connecting again:
\* a frame that stalls or is malformed, or an endpoint that refuses the bar.
WorkerFails ==
    /\ link \in {"up", "down"} /\ Running /\ WorkerFree
    /\ Send([kind |-> "Failed"])
    /\ link' = "over"
    /\ UNCHANGED <<samplerVars, ui, keymap, sent>>

DaemonStep == (SamplerStep \/ LoopStep) /\ UNCHANGED <<barVars, keymap, link, sent, changes>>
BarMoves ==
    /\ Receive \/ \E k \in Kinds : FirstConfigure(k) \/ FrameCallback(k) \/ BufferComesBack(k)
    /\ UNCHANGED <<samplerVars, keymap, link, sent, changes>>

\* The daemon dies, and one with a keymap of its own takes over.
DaemonRestarts ==
    /\ session.phase = "Live" /\ link = "up"
    /\ \E uevents \in BOOLEAN : thread' = ThreadStart(uevents)
    /\ supply' = [supply EXCEPT !.uevent = FALSE]
    /\ mail' = FreshMail /\ clock' = FreshClock /\ session' = FreshSession
    /\ keymap' \in Keymaps
    /\ link' = "down"
    /\ UNCHANGED <<barVars, sent>>

Change ==
    /\ changes < MaxChanges
    /\ changes' = changes + 1
    /\ \/ /\ \/ \E input \in NoRate : SampleProc(input)
             \/ SampleBattery(FALSE) \/ Wake(TRUE)
             \/ UeventSourceLost \/ SupplyChanges \/ Quit
             \/ \E panels \in SUBSET Panels : BeginTransaction(panels)
          /\ UNCHANGED <<barVars, keymap, link, sent>>
       \/ /\ \E k \in Kinds :
               \/ SurfaceClosed(k)
               \/ \E size \in Sizes :
                    scale_factor_changed(k, size) \/ Configure(k, size) \/ ReleaseBuffer(k, size)
               \/ Configure(k, Nothing)
          /\ UNCHANGED <<samplerVars, keymap, link, sent>>
       \/ DaemonRestarts
       \/ WorkerFails

DisplayNext == DaemonStep \/ BarMoves \/ WorkerReads \/ WorkerReconnects \/ Change

\* The threads run when they can; a compositor configures a surface it was
\* asked for, answers a frame request and gives back a buffer it has replaced.
Others == <<barVars, keymap, link, sent, changes>>
Rest == <<samplerVars, keymap, link, sent, changes>>
DisplayFairness ==
    /\ WF_displayVars(SamplerStep /\ UNCHANGED Others)
    /\ WF_displayVars(LoopStep /\ UNCHANGED Others)
    /\ WF_displayVars(Receive /\ UNCHANGED Rest)
    /\ WF_displayVars(WorkerReads) /\ WF_displayVars(WorkerReconnects)
    /\ \A k \in Kinds :
         /\ WF_displayVars(FirstConfigure(k) /\ UNCHANGED Rest)
         /\ WF_displayVars(FrameCallback(k) /\ UNCHANGED Rest)
         /\ WF_displayVars(BufferComesBack(k) /\ UNCHANGED Rest)

DisplaySpec == DisplayInit /\ [][DisplayNext]_displayVars /\ DisplayFairness

-----------------------------------------------------------------------------
\* A configured surface shows what the user interface last drew it for, its
\* state or keymap at its present size, or exactly that frame waits for a
\* buffer and a frame callback is on its way to retry it; so no order of
\* states, keymaps, sizes and releases leaves an old picture with no wake-up
\* due (commit_frame, retry_surface).  A sample in the mailbox likewise has its
\* eventfd raised, or a publisher about to raise it (publish, try_take_latest).
RedrawIsDue ==
    /\ \A k \in Kinds :
         (Running /\ Mapped(ui, k) /\ ui.surfaces[k].configured) =>
            LET s == ui.surfaces[k] IN
            \/ s.shown = Rendered(ui, k)
            \/ s.pending /\ s.callback /\ s.frame = Rendered(ui, k)
    /\ mail.slot # Unset => mail.event \/ thread.pc \in {"unlock", "notify"}

\* Once the environment is quiet, the bar has ended or every surface the
\* session wants is mapped and shows it: the modules last sampled, which name
\* the battery's level where it is observed, and the daemon's keymap.
AllShown ==
    /\ \A k \in Kinds : Mapped(ui, k) <=> (k = "Bar" \/ k \in session.panels)
    /\ \A k \in Kinds : Mapped(ui, k) =>
         ui.surfaces[k].shown =
           [shows |-> IF k = "Bar" THEN session.modules ELSE keymap, size |-> ui.surfaces[k].size]
    /\ session.modules = [cpu |-> thread.cpu, battery |-> thread.battery]
    /\ thread.source /\ ~thread.failed => thread.battery = supply.battery

\* Whatever happens first (a restart of the daemon, a sample in the middle of
\* a transaction, two buffers held by the compositor, a size changed), the bar
\* comes to show what the daemon knows, unless it has been told to end or the
\* compositor closed its surface.
BarShowsLatest == <>[](ui.exit \/ AllShown)
=============================================================================
