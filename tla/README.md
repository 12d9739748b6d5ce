# Verification of the realm desktop

TLA+ models of the `realms-de` daemon, its theme store and its bar; the TLC runs that check them on
small instances; and TLAPS proofs of the central results for every instance. Source paths are
relative to `src/crates`, documents to `src/docs`. Every definition that models code is listed with
its lines in `PROJECT.json` (`map`); names follow the source where TLA+ allows it.

## The system

`realm-session` is a single-threaded daemon that decides where the windows of the River compositor
go. Around it are a worker thread that writes its snapshot, a sampler thread that reads the
machine's load, a control socket, a bar that subscribes to it, and a store of theme generations
that launchers lease.

| part | source | modules |
| --- | --- | --- |
| ledger: orbits, focus, stow, fullscreen, undo and redo | `realm-core/src/ledger.rs` | `LedgerOps`, `LedgerSpec`, `LedgerProofs` |
| layout: an orbit to rectangles | `realm-core/src/layout.rs` | `Layout`, `LayoutSpec` |
| session: transactions over the authority, bindings, key repeat, published state | `realm-session/src/session.rs`, `backend.rs`, `turn.rs`, `timers.rs` | `Session`, `SessionSpec`, `SnapshotWire`, `SessionProofs` |
| snapshot persistence and worker | `realm-session/src/persistence.rs`, `snapshot.rs`, `worker.rs` | `Persistence`, `SnapshotWorker`, `PersistenceProofs` |
| River backend | `realm-session/src/backend/river.rs` | `RiverObjects`, `River`, `RiverProofs` |
| control server: connection machine, server, response barrier, shutdown | `realm-control/src/protocol.rs`, `server.rs` | `ControlMachine`, `Control`, `ControlProofs` |
| control endpoint: lock, probe, bind, listen | `realm-control/src/endpoint.rs`, `runtime.rs`, `sys.rs` | `Endpoint`, `BarProofs` |
| start of the daemon, control client of the bar | `realm-session/src/runtime.rs`, `realm-control/src/client.rs`, `realm-bar/src/wayland.rs` | `Startup`, `BarProofs` |
| module sampler | `realm-session/src/modules.rs` | `Sampler`, composed in `Display` |
| bar: control worker, surfaces, buffers, damage | `realm-bar/src/wayland.rs`, `model.rs`, `render.rs` | `Bar`, composed in `Display`, `BarProofs` |
| theme generations: publish, recover, roll back, select, collect | `realm-theme/src/generation.rs` | `GenerationRules`, `Generation`, `ActivationRegister`, `GenerationProofs` |
| activation lifecycle: claim, prepare, adopt, reconcile | `realm-theme/src/generation/lifecycle.rs` | `LaunchRules`, `Launch`, `LaunchProofs` |
| runtime: the loop that owns the daemon's parts | `realm-session/src/runtime.rs` | its handlers, in the module of what each one drives |

How they interact: the backend delivers *policy turns* (what the compositor observed since the last
one) and completions. The session reduces a turn to an answer (projection, closes, enabled
bindings), keeps the outcome private until the compositor has applied it and nothing else was
observed meanwhile, and only then installs it. The installed state goes to control subscribers, the
bar among them, and as a snapshot to the persistence coordinator, whose writes the worker performs.
Launchers select the current theme generation under a lease, which the activation registry
transfers to what they launch and releases once it is gone.

Modules named `...Ops`, `...Rules`, `...Objects`, `...Machine`, and `Layout`, `Session`,
`Persistence`, `SnapshotWire` hold pure operators, one per method. The others make them actions.
`MC*` modules give the constants of the runs.

## Models and runs

### `core`: ledger and layout (`LedgerSpec`, `LayoutSpec`, `MCCore`)

One operator per method of `Ledger`, with the checkpoint each one takes or does not take; the
integer partition, `triptych`, `even`, `mono` and `fullscreen` as computed, division included. The
two share no state. `MCCore` explores each with the other at its first state, so the run is the
union of two explorations and not their product.

* `LedgerConsistent`: no window twice, focus inside the list, stowed and fullscreen windows exist, in
  the ledger and in every snapshot that undo or redo can put back.
* `UndoThenRedo`, `UndoRestoresStep`: undo is exact, and redo takes it back.
* `ProjectionExact`: visible tiles are disjoint and cover the tile area to the last pixel, and every
  visible window is placed.

Two windows exercise wrap-around, swap and moves between orbits; depth 2 makes the history overflow
with a non-empty redo. Up to five windows, widths 1, 3, 7 and heights 3, 4, with and without
reserved space, give remainders of every kind and outputs too small for their rows.

### `session` (`SessionSpec`, `MCSession`)

`phase` and `tx` are the lifecycle phase and `TransactionSubstate`; `rt` is what `RuntimeOwners`
adds (the pending requester, the armed repeat timer, the clock fold); `comp` is the compositor as
the backend sees it. One action per handler, from the read of a snapshot file by the daemon that
starts (`SnapshotWire`: what is written, and what the next start accepts) to the end. `Histories`
enumerates what a compositor that obeys the River protocol may report in one turn.

* `CleanBoundaryShown`: between transactions the compositor shows the projection of the ledger over
  the windows that exist, the enabled bindings are the mode's, and in a chord the next key is eaten.
* `LiveSnapshotValid`: a live session always has a snapshot the next start accepts.
* `RepeatTimerOwned`: an armed repeat timer has a key that is held, enabled and repeatable.
* `TransactionOwesItsOwn`: across drain turns a transaction keeps its requester, and each effect key
  is staged or handed over once.
* `NoContractFailureOnceLive`: no legal sequence of compositor events makes a live session give an
  answer the backend refuses or reject a turn.
* `PublishedIsCurrent`: the published state is the installed authority, with the latest minute.

Two windows, one of which may be recovered (stowed, on another orbit), one key of each kind, two
client requests, four tickets, two events per turn, one minute: a drain turn inside a client's
transaction, with a window closing in it, needs three tickets. The run's keymap binds a key in
Resize mode, which the reducer supports and its tests use; the default keymap has none. Symmetry is
over window identities, and all properties are invariants. A key pressed in the drain turn of
`FinalizingReplay` is rejected and ends the daemon; `specs/0003-realm-session.md:1494` documents
that, so `NoContractFailureOnceLive` speaks of live sessions only.

### `snapshot_worker` (`SnapshotWorker`)

The loop, the worker thread (receive, write in three steps, send, notify), the child reaper, the
bounded channels and the eventfd, a file system whose every step may fail, a quit, the fence, and a
restart that reads whatever file is left. Time is counted in ticks.

* `NoWorkerError`: no schedule fills the job channel or breaks an expectation that ends the daemon.
* `HandoffsExact`: results, announcements and owned children agree across three threads.
* `DurableUnlessLateFault`: a quiet session finds its own snapshot in the file.
* `DeadlineNeverSlides`: a waiting snapshot's deadline is fixed.
* `FenceAlwaysPasses`, `EventuallyPersisted`: logout gets past a hung worker; a session that settles
  is saved.

Two values, two jobs, one fault, one restart, three updates: enough for a value to change and revert
during a write. Fairness: `WF(LoopStep)` because every iteration of `run_combined_loop` submits,
services and advances; `WF(Tick)` because time passes. The worker is fair only in the antecedent of
`EventuallyPersisted`: its file system calls may hang.

### `river` (`River`, `RiverObjects`, `MCRiver`)

The backend from the connection to the exit: discovery, the two input fences, the replay, then the
service quantum by its fixed priority (flush, a public event, dispatch, drain marker, read, prepare
a read). `wins` is the window table, `b` the other fields of `RiverBackend`; `wire`, `decoded`,
`out` and `req` are the messages on their way in and out. `Ready` is the loop's rule that a quantum
with immediate work gets no readiness. The compositor is external and follows
`river-window-management-v1.xml`: it may answer a proposal with another size, late, resize windows
unasked, plug in and lose outputs, seats and devices, put a new seat in the place of another, report
keys the session has bound, and give focus to a layer surface. Sizes have one dimension. The session answers with any projection until `MaxTickets` tickets are spent and
keeps its layout after that, so no bound ever stops a transaction.

* `SequenceOrder`: River never receives a finish out of sequence.
* `FatalCauses`: the daemon ends only for the causes the property names: a request queued behind a
  blocked `render_finish`, when a partial flush sends the finish alone; a seat that was selected and
  is not the oldest; a key in the drain turn of the replay, before the session is live; a device
  announced between the fences, or gone with its result owed; no output with an area, or no seat.
* `ShownAtRest`: at rest, placed windows are shown and others hidden, the output is one that exists,
  and the focused window has the keyboard unless a layer surface has it.
* `ResponsesComplete`: every answer completes or fails, through blocked flushes and corrections.

One window, sizes 2 and 3 (3 is the output's, hence fullscreen), a socket that holds one request so
that flushes block and split, two upsets (something plugged, lost, resized or focused). Fairness:
`WF(Service)` because the loop services a backend that is ready or immediate;
`WF(begin_exit_session)` because the shutdown gates have deadlines; `WF` on the compositor reading
requests, starting a sequence it owes and ending a layout with a render sequence. Weak fairness of
`Service` assumes that the other sources do not starve it, which the guard `OthersServed` states:
the loop takes the first ready source, and one that stayed ready for ever would win for ever
(`runtime.rs:1136`).

### `control` (`Control`, `ControlMachine`, `MCControl`)

The connection machine frame by frame, and one action per quantum of the loop: accept, receive,
end of input, hang-up, send, expiry, with the `advance_shutdown` that follows each. A frame is what
the machine tells apart; a chunk may complete two frames and cut a third. Peers pipeline, half-close,
leave, and stop reading. The state or keymap a client asks for may be too large for a frame, which
ends its connection.

* `NeverFatal`: none of the owner's invariant checks, each of which ends the daemon, ever fails.
* `RequestsAreAnswered`: at most one request of a peer is open, and its answer is queued or owed.
* `SubscriberStream`, `SubscriberConverges`: an initial state, then only newer ones, then Shutdown;
  conflation loses intermediate states only.
* `QuitIsAnsweredFirst`, `QuitCompletes`: shutdown waits for the answer to the Quit, and for no peer.

Two connections (one acts or sends what is no request, one subscribes or quits), two frames each,
three versions, one fault. Fairness: while a source is ready or a deadline runs, the loop takes a
quantum, which `poll(2)` and its timeout give. It is written out as a formula instead of `WF` so
that TLC need not enumerate successors for `ENABLED`.

### `startup` (`Startup`, `Endpoint`, `MCStartup`)

`Endpoint` has the steps of a daemon at the socket's directory: lock, stat, probe, recheck, unlink,
bind, verify, listen, and the reverse on the way out; it may be killed at each. `Startup` adds the
order of `run_production_daemon` (bind, worker, recovery, backend, listen, READY) and the bar's
search for a session with its inotify watch and retry interval, down to a subscription that breaks
in a way the bar does not answer by connecting again.

* `OneReachableListener`: at most one daemon listens, and the name leads to no other's socket.
* `ReadyIsReachable`: a daemon that reported READY listens at the name until it ends.
* `BarFindsSession`: once daemons stop dying, the bar is subscribed or was told the session ended.

Two daemons, two inodes (one is used again), three faults. Deadlock is checked. Fairness: threads
run on, and the units restart what left (`realm-wm.service` has `Restart=always`,
`realm-bar.service` `Restart=on-failure`). Three defensive branches of `endpoint.rs` are in the
model and cannot be reached under the lock: a probe that is answered, a recheck that finds another
inode, and a bind that finds the name taken.

### `display` (`Display`, `Sampler`, `Bar`, `MCDisplay`)

The sampler thread with its timer and uevents, the mailbox with its eventfd, the hand-over to a
session that may be in a transaction, the subscription as `Control` guarantees it, and the bar's
channel, surfaces, two buffers a size, damage and retry. A quit abandons the transaction it finds; a
compositor may configure a surface and leave its size open; the worker may end with a failure.

* `RedrawIsDue`: a configured surface shows its frame, or that frame waits with a callback due; a
  sample in the mailbox is announced.
* `BarShowsLatest`: in the end the bar shows what the daemon knows.

Two levels, one panel, two sizes, two keymaps, two events of the environment: a second value of each
is what an old picture can differ by, and two events make a buffer shortage coincide with a change.
Fairness: threads run on, and the compositor configures a new surface, sends frame callbacks and
releases buffers it has replaced; it gives a new surface a size in the end.

### `generation` (`Generation`, `GenerationRules`, `ActivationRegister`, `MCGeneration`)

Each system call that changes a directory is a step, each directory sync another. A call may fail; a
process may die between steps; a power loss leaves any state a directory went through since its last
sync, for the root and for `generations/` independently. Operations hold `activation.lock`
exclusively, selections share it.

An operation syncs nothing when it begins, so it may find what an earlier one changed and did not
sync, because its sync failed or its process died. The history variable `basis`, which no guard
reads, becomes "unsynced" when a rollback begins on a tree, or a collection on a root, that a power
loss may take back (`Overtakes`).

* `PointersNameSealedTrees`: whatever is on disk, `current` and the journals name complete trees, as
  long as `basis` is "synced".
* `EveryCrashIsRecoverable`: as long as `basis` is "synced", recovery accepts every state a crash
  leaves, except an empty `.current-<id>` (created, not yet written), which the code refuses for good.
* `SelectionsSurvive`: a selected generation keeps its tree and its lease.
* `TwoNewerAreKept`: a tree is removed only while two that were published after it stay complete
  beside the current one.
* `ImplementsRegister`: the store refines `ActivationRegister`, in which a write takes effect at one
  instant, its answer Committed is a promise about any later power loss, and NotCommitted says that
  it had no effect. An operation that finds its generation current (`ensure_current`, or a rollback
  to it) writes and syncs nothing: its Committed (`Retain` of the register) leaves the pointer as
  durable as it was, which after a process death before the last sync is not at all.

Four ids (the collector keeps two beside the current one, so one is left to remove), one process,
two faults, and at most one lease of a dead process at a time (`MaxStale` of `MCGeneration`: a further
process dies only once a collection has reclaimed it; the theorems have no such bound). No fairness: all properties are safety.

### `launch` (`Launch`, `LaunchRules`, `MCLaunch`)

Every durable step of claim, prepare, adopt (with the exchange of the process lease for the launch's)
and reconciliation, each of which a crash may follow; dropping a selection runs beside them. Owners,
payloads and the inspector are external: they die, detach, drain, or cannot be observed.

* `GenerationStaysLeased`: what runs from a generation, or is about to, has a lease.
* `EveryCrashIsReconcilable`: no crash leaves files that reconciliation refuses.
* `LeaseReleasedOnlyWhenEmpty`: a lifecycle lease goes only after the owner and all it started.
* `LaunchesAreCollected`: records of empty systemd launches are collected in the end.

One systemd and one direct launch, helpers in direct mode, two faults, five inventory entries.
Fairness: a begun operation goes on or gives up, and reconciliation is called again and again with
an inspector that is not always uncertain (strong fairness, since operations take turns at the
lock). A direct launch whose owner was lost without its drain witness stays uncertain by design and
stops a pass, so the liveness property assumes that none does.

`CHECK_DEADLOCK FALSE` stands in the runs where the system may stop: a failed or exited daemon, an
idle loop in `poll`, a store at its bounds.

## Disagreements found

Runs that show one:

* `snapshot_late_fault`: `write_snapshot_atomically` renames before it syncs the directory, so a
  write reported as failed may have replaced the file. If the session has reverted meanwhile,
  `complete` clears the dirty value and the file keeps the other one;
  `specs/0003-realm-session.md:2051` says the value "never ceased to be durable".
* `river_exit`: after the exit request no read is prepared, so `poll_interest` stays immediate and the
  loop never passes on the hang-up that `service` waits for; `specs/0003-realm-session.md:358`
  says that disconnect returns `BackendTurn::ExitComplete`.
* `river_stall`: if the flush of `render_finish` blocks, a read is prepared meanwhile, and after the
  completion the drain marker waits for River to send something; A43 (`:1934`) says the marker or a
  tagged turn follows.

Observed while modelling, without a run of their own:

* Registry quota: a new record may fill the inventory to its bound (`lifecycle.rs:1770`). The
  temporary of an update that then crashes exceeds it, and recovery refuses to scan, though
  `specs/0012-activation-launch-lifecycle.md:324` and A8 (`:1090`) say that temporaries cannot block
  it. With `MaxEntries = 3` TLC finds `EveryCrashIsReconcilable` violated; run `launch` leaves the
  room that 4096 entries leave in practice.
* A Wayland global that appears or goes at run time ends the backend (`river.rs:1896`); additional
  and disappearing outputs are described as supported (`specs/0003-realm-session.md:223`). `River`
  has both cases: River tells its client of the global, which ends the backend, or does not.
* `Committed` is documented as "The pointer and journal cleanup are durable" (`generation.rs:367`).
  `ensure_current` (`:1047`) and a rollback to the current generation (`:1194`) answer it without a
  sync: if the process that wrote the pointer died between the rename that settles the journal and
  the sync after it (`:1640`), a power loss undoes a commit that was answered.
* `adr/0017` (`:82`) says that a crash cannot make `current` name an unsealed tree. A rollback whose
  target was installed by a process that died before the sync of `generations/`, or a collection that
  begins with the root unsynced, can: `PointersNameSealedTrees` excludes both by name.
* A libinput device that is removed leaves its id among the results that are owed (`river.rs:1371`),
  though `specs/0003-realm-session.md:178` says its policy is cancelled. A touchpad announced between
  the two fences makes the connection fail; `FatalCauses` names both.
* A bar that is told of the shutdown may end as failed: the worker returns after it has sent
  Shutdown, and if it has dropped the channel when that message is read, the same dispatch reports
  `Closed` (`wayland.rs:179`). Its unit then restarts it.
* If the selected output is lost while the only other one has not told its area, the backend ends as
  unavailable.
* A mono orbit whose focused window is stowed has every placement marked occluded (`layout.rs:225`),
  though the field's comment (`:178`) says "fully covered by another".
* A daemon that restarts in the middle of the handshake ends the bar, whose unit restarts it;
  `specs/0005-session-startup.md:480` says the bar reconnects on its own.
* A write queued for a control peer waits for the first-ready-source rule, though
  `specs/0007-control-socket-security.md:599` says it may not be delayed indefinitely. A slow reader
  that takes some bytes renews its output deadline, and idle Ready peers hold their slots.
* A battery reading is kept after the uevent source was lost; the field's comment
  (`modules.rs:97`) says it is absent when observation is disabled. `BarShowsLatest` asks for the true
  level only where it is observed.

## Proofs

Liveness and `ENABLED` are out of the prover's reach, and so are the library's induction theorems;
each theorem below is a safety result for every value of the constants, under the ASSUMEs of the
modules (names distinct, sets not empty, bounds natural numbers). Where a run checks the same property it is named.

* **`LedgerProofs`** (any windows, orbits, layouts, undo depth). `LedgerOK` is inductive
  (`LedgerInductive`): types, well-formed orbits, a window in at most one orbit, the bound on the two
  stacks together and, for every stacked snapshot, the same over *the same set of windows*. That
  last part is the strengthening: without it undo could restore anything. `LedgerSafety`
  (`LedgerConsistent`), `UndoIsExact` (`UndoRestoresStep`, and no desired mutation creates or loses
  a window) and `UndoRedoRoundTrip` (`UndoThenRedo`) follow. Lemmas on lists, on one orbit and on
  stacks; each method is then a desired edit, a lifecycle edit, an undo or a redo.
* **`BarProofs`** has the bar and what it finds at the socket's name (any daemons, inodes, faults).
  Of `Endpoint`, `LockDiscipline`: whoever is past
  the lock holds it, whoever has a socket is in the steps that own the entry, and there the entry is
  the socket's. `EndpointExclusive` is `OneReachableListener`. `StartupRefinesEndpoint`: every step of the start
  and of the bar is a step of `Endpoint` or leaves it alone, so its results carry over
  (`StartupExclusive`). `ReadyDaemonIsReachable` (`ReadyIsReachable`) adds that a daemon reported
  ready is at the endpoint's last step, where it listens. Of `Display` (any panels, sizes, keymaps,
  levels, number of events), `DisplayInv`: types, the mailbox is announced, and for every mapped
  surface a state was received and the frame that waits, if any, is the one to be shown. Without the
  last clause a retry could commit an older frame. `RedrawAlwaysDue` is `RedrawIsDue`.
* **`SessionProofs`** (any windows, keymap, titles, output areas, snapshots, requests, number of
  tickets, of minutes and of events in a turn). `SessionInv` (`SessionInductive`) has five parts:
  `Shape`, what each phase makes of the transaction; `Owes`, what it owes the control server and the
  effects; `Repeats`, the repeat target and its timer; `Shows`, the clock and the published state;
  `ToldAll`, what River was told and, for each substate of the transaction, what is still to be told.
  The last is why the properties need a transaction's private state: between two boundaries River
  shows neither the old nor the new authority. A turn is handled in two inductions over its events,
  each by the least position that fails. `IsTrace` follows the compositor through the turn (what it
  had enabled and held down when each event happened); `TurnInv` follows the reducer, event by
  event, and says how far it is from what the turn began with. `ReducedOK` sums the turn up, and
  the actions use only that. The theorems are `CleanBoundaryIsShown` (`CleanBoundaryShown`),
  `RepeatTimerIsOwned` (`RepeatTimerOwned`), `TransactionOwesOnlyItsOwn` (`TransactionOwesItsOwn`)
  and `PublishedStateIsCurrent` (`PublishedIsCurrent`). `KeymapAssumption`: only focus and swap
  repeat, as in `realm-core::keys`; `SessionAssumption`: the number of events is a number, and no
  output area is the absent one.
* **`PersistenceProofs`** (any snapshots, delay, channel sizes, faults, restarts).
  `CoordinatorAlwaysValid`, and from it `DeadlineIsFixed` (`DeadlineNeverSlides`): every method leaves
  a coordinator that *follows* its argument, and `Next` applies methods only. `WorkerInv`
  (`WorkerInductive`) follows loop, thread, reaper and the three channels: the eventfd and the
  loop's count announce exactly the queued results; a slot of `owned_children` is a queued spawn or
  a child of the reaper; a thread that asked for a snapshot sends nothing until it has it, so the
  request is the last result and the outcome of a write the first; the request in flight is in
  exactly one place; the fence is the thread's last word; and, in each phase, what the file may hold
  beside what the session wants. It gives `NoWorkerErrorEver` (`NoWorkerError`),
  `HandoffsAlwaysExact` (`HandoffsExact`) and `DurableUnlessFaultIsLate` (`DurableUnlessLateFault`,
  the exception being the disagreement `snapshot_late_fault`). `WorkerAssumption` says that the
  absent request is no request, which `Option` gives.
* **`ControlProofs`** (any number of connections, any frames in any chunks, any versions, faults).
  `ControlInv` (`ControlInductive`) says of each connection what its phase makes of its output, its
  conflated state, the requests without an answer and what its peer has seen, and of the owner what
  its phase makes of the response barrier, the pending request and the connections left. Each
  operator of `ControlMachine` has a lemma on one connection; each action combines them. It gives
  `ControlNeverFatal` (`NeverFatal`), `EveryRequestIsAnswered` (`RequestsAreAnswered`) and the action
  properties `SubscriberStreamInOrder` (`SubscriberStream`) and `QuitAlwaysAnsweredFirst`
  (`QuitIsAnsweredFirst`).
* **`RiverProofs`** (any windows, sizes, room in the socket, devices, upsets). `SequenceInv`
  (`SequenceInductive`) follows a sequence as one token: River sends it as `manage_start` or
  `render_start`; it is then on the wire, decoded, an open turn, a finish the transport buffers, or a
  finish in the socket, never in two of these, and River is in that sequence until it is back. No
  flush that blocks or splits, no correction and no quit duplicates or swaps it, which is
  `FinishesInOrder` (`SequenceOrder`). That a batch of held input events sends no finish
  (`PolicySent`) is an induction on the batch, done by its shortest failing prefix (`InputFold`).
  `RiverAssumption`: finitely many windows, room for a request, a natural number of devices.
* **`GenerationProofs`** (any ids, processes, faults). `SelectionInv`: a selection has its tree and
  its lease and is in no plan of the collector, and a reader excludes operations; it gives
  `SelectionsAlwaysSurvive` (`SelectionsSurvive`). `PointerInv` speaks of every
  root that may be on disk: while `basis` is "synced", what it names is sealed in every tree map that
  may be on disk; a publication's target is sealed and synced before a journal names it; the
  collector works on a synced root and has no referenced tree in its plan. It gives
  `PointersAlwaysNameSealedTrees` (`PointersNameSealedTrees`). No theorem assumes when directories are
  written back; only this one and `EveryCrashLeavesARecoverableStore` speak of `basis`.
  `ProtocolInv` (`ProtocolInductive`): the pointer of every root that may be on disk has one of six
  shapes (clean, prepared with an empty or a written file, journalled, exchanged, settled), and each
  step of the transaction, of its undoing and of recovery fixes which of them. So
  `EveryCrashLeavesARecoverableStore` (`EveryCrashIsRecoverable`) and `StoreImplementsRegister`
  (`ImplementsRegister`): a write takes effect at the rename that settles the journal and persists at
  the sync that follows, and the answer to a write is given only when no root on disk contradicts it.
  `RetentionInv` keeps, for each victim of the collector's plan, two complete trees with greater
  sequence numbers outside the plan, and that a removal once begun is not undone by a power loss;
  it gives the action property `CollectionKeepsTwoNewer` (`TwoNewerAreKept`).
* **`LaunchProofs`** (any launches, bounds, faults). `LaunchInv`, per launch: a record that lets the
  owner start its payload has the lifecycle lease, so has a payload that runs, a selection still
  held has some lease; and per operation: the exchange is under way with the right lease in place,
  and a pass plans to complete only launches that are gone. `PlanIsSound` shows the last from
  `plan_reconciliation` and a truthful observation. It gives `GenerationAlwaysLeased`
  (`GenerationStaysLeased`) and `LeaseReleasedLast` (`LeaseReleasedOnlyWhenEmpty`). `FilesInv`
  (`FilesInductive`) is about the files: record, lease, stage and retirement of a launch belong to
  one launch and one transfer, at most one temporary is left beside the session's, the stages are
  apart, and the plan of a pass still fits what it was made for. From it, `OnlyTheBoundFreezes`: as
  long as the entries are within the bound of the scan, every crash is reconcilable, so the quota is
  the only thing that can stop recovery; and `CrashesAlwaysReconcilable`
  (`EveryCrashIsReconcilable`), for finitely many launches with room for all of them and three
  entries more (the session's record, its temporary, that of one update). Without that room the
  property is false: that is the registry quota above.

`SelectionInv`, `PointerInv`, `ProtocolInv`, `RetentionInv`, `LaunchInv`, `FilesInv`, `WorkerInv`,
`ControlInv`, `SequenceInv` and `SessionInv` were model-checked on the instances of the runs before they were proved.

Only model-checked, and why:

* every liveness property (`ENABLED` and fairness);
* `ProjectionExact`, whose tiles are recursive sums;
* `LiveSnapshotValid` and `NoContractFailureOnceLive` of `session`: they compare the identities of
  the ledger, the bindings and the backend window by window, which needs the effect of the whole
  start (what `validate` accepts, what the replay banishes and admits) as well as of every turn;
* `FatalCauses` and `ShownAtRest` of `river`, for which no inductive invariant has been worked out:
  they relate the window table, the stage of the response and what River has still to read.

## Not modelled

* Text and encodings: titles, chord echo, module strings, the JSON of control frames, colours,
  templates, desktop entries, the drawing of glyphs and shapes. The snapshot file is an exception:
  `SnapshotWire` has its fields, since a rejected file starts an empty session.
* Byte limits, credentials of peers, and the validation of the runtime directory's permissions
  (`realm-control/src/runtime.rs`).
* `request_spawn` and the direct `toggle_whichkey` as session actions: the first changes nothing of
  the session (its job is in `SnapshotWorker`), the second is called by tests only.
* River: modifiers, borders, stacking, and limits other than that of devices (such as the cap on
  `GeometryDrifted` events of one turn).
* `realm-ctl` (arguments, its bounded retry, `doctor`), `realm-theme`'s rendering, the reference state
  consumer, the development record gate, and the vendored Wayland transport, which is third-party
  code. What `realm-launch` does is external to `Launch`.
