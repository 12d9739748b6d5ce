----------------------------- MODULE Generation -----------------------------
(***************************************************************************)
(* The store of theme generations: publication, bootstrap, recovery,       *)
(* rollback and garbage collection, which hold activation.lock             *)
(* exclusively, and the selections of launching processes, which share it. *)
(*                                                                         *)
(* Every change of a directory is a step of its own, followed by the step  *)
(* that syncs the directory.  A system call may fail; the process may die  *)
(* between any two steps, which leaves what is visible; a power loss       *)
(* leaves any state the directory went through since its last sync, for    *)
(* the root and for generations/ independently.                            *)
(***************************************************************************)
EXTENDS GenerationRules

CONSTANTS Procs,     \* the processes that select a generation
          MaxSeq,    \* bound on publication-order's next-sequence
          MaxFaults  \* bound on failed calls, crashes and power losses

VARIABLES root,      \* the root directory as processes see it
          disk,      \* the roots a power loss may leave
          trees,     \* generations/ as processes see it
          treeDisk,  \* the tree maps a power loss may leave
          leases,    \* the lease files: [gen, owner, live]
          reading,   \* the generation a diff compares, under the shared lock, or None
          selected,  \* per process, the generation it launched from
          op,        \* the holder of the exclusive lock, and where it is
          reply,     \* how the last operation ended
          faults,    \* failed calls, crashes and power losses so far
          basis      \* history, which no guard reads: "unsynced" once a rollback or
                     \* a collection began on changes no sync had followed (Overtakes)

vars == <<root, disk, trees, treeDisk, leases, reading, selected, op, reply, faults, basis>>
files == <<root, disk, trees, treeDisk>>

Idle == [kind |-> "none", pc |-> "idle", gen |-> None, had |-> FALSE, victims |-> {}]
NoReply == [result |-> "none", gen |-> None]

TornLease == [gen |-> None, owner |-> None, live |-> FALSE]

Init ==
  /\ root = EmptyRoot
  /\ disk = {EmptyRoot}
  /\ trees = [g \in Ids |-> "none"]
  /\ treeDisk = {trees}
  /\ leases = {}
  /\ reading = None
  /\ selected = [p \in Procs |-> None]
  /\ op = Idle
  /\ reply = NoReply
  /\ faults = 0
  /\ basis = "synced"

-----------------------------------------------------------------------------
\* The shapes of a step.

Goto(pc) == op' = [op EXCEPT !.pc = pc] /\ UNCHANGED reply

End(result, g) ==
  /\ op' = Idle
  /\ reply' = [result |-> result, gen |-> g]

ChangeRoot(r) ==
  /\ root' = r
  /\ disk' = disk \cup {r}
  /\ UNCHANGED <<trees, treeDisk, leases, reading, selected, faults, basis>>

SyncRoot ==
  /\ disk' = {root}
  /\ UNCHANGED <<root, trees, treeDisk, leases, reading, selected, faults, basis>>

ChangeTrees(t) ==
  /\ trees' = t
  /\ treeDisk' = treeDisk \cup {t}
  /\ UNCHANGED <<root, disk, leases, reading, selected, faults, basis>>

SyncTrees ==
  /\ treeDisk' = {trees}
  /\ UNCHANGED <<root, disk, trees, leases, reading, selected, faults, basis>>

KeepFiles == UNCHANGED <<root, disk, trees, treeDisk, leases, reading, selected, faults, basis>>

At(pc) == op.pc = pc

\* A rollback commits the tree it sees, and a collection keeps what the root it
\* sees names; a power loss may take back what was seen.
Overtakes(kind) ==
  \/ kind = "rollback" /\ treeDisk # {trees}
  \/ kind = "gc" /\ disk # {root}

\* An operation takes the lock.  It syncs nothing: what an earlier one left
\* unsynced, because its sync failed or its process died, is unsynced still.
Begin(kind, pc, g) ==
  /\ op = Idle /\ reading = None
  /\ op' = [Idle EXCEPT !.kind = kind, !.pc = pc, !.gen = g]
  /\ reply' = NoReply
  /\ basis' = IF Overtakes(kind) THEN "unsynced" ELSE basis
  /\ UNCHANGED <<files, leases, reading, selected, faults>>

-----------------------------------------------------------------------------
\* Opening the store creates publication-order once.

OpenStore == root.order = "absent" /\ Begin("open", "openCreate", None)

OpenCreate ==
  At("openCreate") /\ Goto("openWrite") /\ ChangeRoot([root EXCEPT !.order = "torn"])

OpenWrite ==
  At("openWrite") /\ Goto("openSync") /\ ChangeRoot([root EXCEPT !.order = "written"])

OpenSync == At("openSync") /\ End("none", None) /\ SyncRoot

-----------------------------------------------------------------------------
\* publish, recover and rollback start by inspecting and cleaning the journals.

Inspection == InspectPointerJournals(root, trees)

Publish ==
  /\ root.order # "absent"
  /\ Inspection # "error"
  /\ Begin("publish", "cleanStaging", None)

Recover ==
  /\ root.order # "absent"
  /\ Inspection # "error"
  /\ Begin("recover", "cleanStaging", None)

Rollback(g) ==
  /\ root.order # "absent"
  /\ Inspection # "error"
  /\ Sealed(trees, g)
  /\ Begin("rollback", "cleanPointer", g)

\* ensure_current retains a valid current generation, with no sync of its own, or
\* publishes once.
EnsureCurrent ==
  /\ op = Idle /\ reading = None
  /\ root.order # "absent"
  /\ Inspection \in {"clean", "cleanup_committed"}
  /\ KeepFiles
  /\ \/ /\ root.cur # None
        /\ End("committed", root.cur)
     \/ /\ root.cur = None
        /\ Inspection = "clean"
        /\ PristineBootstrap(root, trees, leases)
        /\ root.next < MaxSeq
        /\ op' = [Idle EXCEPT !.kind = "publish", !.pc = "reserveWrite"]
        /\ reply' = NoReply

CleanStaging ==
  /\ At("cleanStaging")
  /\ Goto("cleanPointer")
  /\ trees' = [g \in Ids |-> IF trees[g] = "staging" THEN "none" ELSE trees[g]]
  /\ treeDisk' = {trees'}
  /\ UNCHANGED <<root, disk, leases, reading, selected, faults, basis>>

AfterCleaning ==
  CASE op.kind = "publish" -> "cleanOrder"
    [] OTHER -> "resolve"

\* The inventory an operation began with is none that inspection refuses, and
\* the journals are still as they were.
CleanPointerStaging ==
  /\ At("cleanPointer") /\ Inspection # "error"
  /\ CASE Inspection = "clean" -> Goto(AfterCleaning) /\ KeepFiles
       [] Inspection = "discard_current" ->
            Goto("cleanSync") /\ ChangeRoot([root EXCEPT !.jc = NoFile])
       [] Inspection = "rollback_current" ->
            Goto("cleanSync") /\ ChangeRoot([root EXCEPT !.cur = root.jc.body, !.jc = NoFile])
       [] Inspection = "rollback_absent" ->
            /\ Goto("absentSync")
            /\ ChangeRoot([root EXCEPT !.cur = None, !.jc = [id |-> root.ja, body |-> root.cur]])
       [] Inspection = "discard_pristine" ->
            Goto("dropCurrent") /\ ChangeRoot([root EXCEPT !.ja = None])
       [] Inspection = "cleanup_committed" ->
            Goto("cleanSync") /\ ChangeRoot([root EXCEPT !.jm = NoFile])

AbsentSync == At("absentSync") /\ Goto("dropAbsent") /\ SyncRoot

\* The two journals of a first publication dropped in the other order.
DropAbsent_Reversed ==
  At("dropAbsent") /\ Goto("dropCurrent") /\ ChangeRoot([root EXCEPT !.jc = NoFile])
DropAbsent ==
  At("dropAbsent") /\ Goto("dropCurrent") /\ ChangeRoot([root EXCEPT !.ja = None])

DropCurrent ==
  At("dropCurrent") /\ Goto("cleanSync") /\ ChangeRoot([root EXCEPT !.jc = NoFile])

CleanSync == At("cleanSync") /\ Goto(AfterCleaning) /\ SyncRoot

-----------------------------------------------------------------------------
\* A failed settlement is reported as having had no effect.
FailureResult_SettleIsClean ==
  CASE op.kind \notin {"publish", "rollback"} -> "error"
    [] op.pc \in {"undo", "undoAbsent", "undoSync"} -> "ambiguous"
    [] op.pc \in {"cleanup", "cleanupSync"} -> "cleanup_pending"
    [] OTHER -> "not_committed"
\* The answer when the call made at the current step fails.
FailureResult ==
  CASE op.kind \notin {"publish", "rollback"} -> "error"
    [] op.pc \in {"undo", "undoAbsent", "undoSync", "settle", "settleSync"} -> "ambiguous"
    [] op.pc \in {"cleanup", "cleanupSync"} -> "cleanup_pending"
    [] OTHER -> "not_committed"

\* resolve_current ends a recovery; a rollback goes on to commit its target.

Resolve ==
  /\ At("resolve")
  /\ KeepFiles
  /\ \/ ~Sealed(trees, root.cur) /\ End(FailureResult, None)
     \/ /\ Sealed(trees, root.cur)
        /\ op.kind = "recover"
        /\ End("none", root.cur)
     \/ /\ Sealed(trees, root.cur)
        /\ op.kind = "rollback" /\ root.cur = op.gen
        /\ End("committed", root.cur)
     \/ /\ Sealed(trees, root.cur)
        /\ op.kind = "rollback" /\ root.cur # op.gen
        /\ op' = [op EXCEPT !.pc = "journalCreate", !.had = TRUE]
        /\ UNCHANGED reply

-----------------------------------------------------------------------------
\* publish: reserve a sequence, stage and seal the tree, map and install it.

CleanPublicationOrder ==
  /\ At("cleanOrder")
  /\ IF root.staged THEN Goto("cleanOrderSync") /\ ChangeRoot([root EXCEPT !.staged = FALSE])
                    ELSE Goto("validate") /\ KeepFiles

CleanOrderSync == At("cleanOrderSync") /\ Goto("validate") /\ SyncRoot

Publishable ==
  /\ CurrentOrPristine(root, trees)
  /\ PublicationOrderComplete(root, trees)

\* The capture of the theme's inputs may also fail.
Validate ==
  /\ At("validate")
  /\ KeepFiles
  /\ \/ End("not_committed", None)
     \/ /\ Publishable
        /\ root.next < MaxSeq
        /\ op' = [op EXCEPT !.pc = "reserveWrite", !.had = root.cur # None]
        /\ UNCHANGED reply

StageOrder(pc, next) ==
  At(pc) /\ Goto(next) /\ ChangeRoot([root EXCEPT !.staged = TRUE])

ReserveWrite == StageOrder("reserveWrite", "reserveRename")

ReserveRename ==
  /\ At("reserveRename")
  /\ Goto("reserveSync")
  /\ ChangeRoot([root EXCEPT !.staged = FALSE, !.next = @ + 1])

ReserveSync == At("reserveSync") /\ Goto("allocate") /\ SyncRoot

\* A fresh id, and its staging directory.
Allocate(g) ==
  /\ At("allocate")
  /\ root.seq[g] = 0 /\ trees[g] = "none"
  /\ op' = [op EXCEPT !.pc = "orderWrite", !.gen = g]
  /\ UNCHANGED reply
  /\ ChangeTrees([trees EXCEPT ![g] = "staging"])

OrderWrite == StageOrder("orderWrite", "orderRename")

OrderRename ==
  /\ At("orderRename")
  /\ Goto("orderSync")
  /\ ChangeRoot([root EXCEPT !.staged = FALSE, !.seq[op.gen] = root.next - 1])

OrderSync == At("orderSync") /\ Goto("install") /\ SyncRoot

Install ==
  At("install") /\ Goto("installSync") /\ ChangeTrees([trees EXCEPT ![op.gen] = "sealed"])

\* The journal may name a tree that no sync has made durable.
InstallSync_NoSync == At("installSync") /\ Goto("journalCreate") /\ KeepFiles
InstallSync == At("installSync") /\ Goto("journalCreate") /\ SyncTrees

-----------------------------------------------------------------------------
PointerPcs ==
  {"journalCreate", "journalWrite", "absentCreate", "journalSync", "commit",
   "commitSync", "settle", "settleSync", "cleanup", "cleanupSync",
   "undo", "undoAbsent", "undoSync"}

\* The pointer transaction, of a publication and of a rollback.

JournalCreate ==
  /\ At("journalCreate")
  /\ Goto("journalWrite")
  /\ ChangeRoot([root EXCEPT !.jc = [id |-> op.gen, body |-> Torn]])

JournalWrite ==
  /\ At("journalWrite")
  /\ Goto(IF op.had THEN "journalSync" ELSE "absentCreate")
  /\ ChangeRoot([root EXCEPT !.jc = [id |-> op.gen, body |-> op.gen]])

AbsentCreate ==
  At("absentCreate") /\ Goto("journalSync") /\ ChangeRoot([root EXCEPT !.ja = op.gen])

JournalSync == At("journalSync") /\ Goto("commit") /\ SyncRoot

\* `.current-G` and `current` are exchanged, or the first renamed to the second.
CommitPointer ==
  /\ At("commit")
  /\ Goto("commitSync")
  /\ ChangeRoot([root EXCEPT !.cur = root.jc.body,
                             !.jc = IF op.had THEN [id |-> op.gen, body |-> root.cur] ELSE NoFile])

CommitSync == At("commitSync") /\ Goto("settle") /\ SyncRoot

\* The journal becomes `.committed-G`: from here on recovery keeps G.
Settle ==
  /\ At("settle")
  /\ Goto("settleSync")
  /\ ChangeRoot([root EXCEPT !.jm = [id |-> op.gen, body |-> root.jc.body],
                             !.jc = NoFile, !.ja = None])

SettleSync == At("settleSync") /\ Goto("cleanup") /\ SyncRoot

Cleanup == At("cleanup") /\ Goto("cleanupSync") /\ ChangeRoot([root EXCEPT !.jm = NoFile])

CleanupSync == At("cleanupSync") /\ End("committed", op.gen) /\ SyncRoot

\* A failed sync of the exchanged pointers is undone.
Undo ==
  /\ At("undo")
  /\ Goto(IF op.had THEN "undoSync" ELSE "undoAbsent")
  /\ ChangeRoot([root EXCEPT !.cur = root.jc.body, !.jc = [id |-> op.gen, body |-> op.gen]])

UndoAbsent ==
  At("undoAbsent") /\ Goto("undoSync") /\ ChangeRoot([root EXCEPT !.ja = None])

UndoSync == At("undoSync") /\ End("not_committed", op.gen) /\ SyncRoot

-----------------------------------------------------------------------------
\* garbage_collect: first the stale leases, then one tree at a time.

LiveGenerations == {l.gen : l \in {m \in leases : m.live}}

\* A lease file that cannot be read freezes the whole collection.
GarbageCollect ==
  /\ root.order # "absent"
  /\ TornLease \notin leases
  /\ Begin("gc", "gcLeases", None)

ReclaimLease(l) ==
  /\ At("gcLeases")
  /\ ~l.live
  /\ leases' = leases \ {l}
  /\ UNCHANGED <<files, reading, selected, op, reply, faults, basis>>

ChooseVictims ==
  /\ At("gcLeases")
  /\ \A l \in leases : l.live
  /\ op' = [op EXCEPT !.pc = "gcTrees",
                      !.victims = Collectible(root, trees, LiveGenerations)]
  /\ UNCHANGED reply
  /\ KeepFiles

\* The removal of a tree's entries begins.
BreakTree(g) ==
  /\ At("gcTrees")
  /\ op' = [op EXCEPT !.pc = "gcRemove", !.gen = g, !.victims = @ \ {g}]
  /\ UNCHANGED reply
  /\ ChangeTrees([trees EXCEPT ![g] = "broken"])

RemoveTree ==
  At("gcRemove") /\ Goto("gcSync") /\ ChangeTrees([trees EXCEPT ![op.gen] = "none"])

GcSync == At("gcSync") /\ Goto("gcTrees") /\ SyncTrees

GcEnd ==
  At("gcTrees") /\ op.victims = {} /\ End("none", None) /\ KeepFiles

-----------------------------------------------------------------------------
\* Launching processes, under the shared lock.

LeaseFor(p, g) == [gen |-> g, owner |-> p, live |-> TRUE]

SelectCurrent(p) ==
  /\ op = Idle
  /\ selected[p] = None
  /\ Selectable(root, trees)
  /\ leases' = leases \cup {LeaseFor(p, root.cur)}
  /\ selected' = [selected EXCEPT ![p] = root.cur]
  /\ UNCHANGED <<files, reading, op, reply, faults, basis>>

\* Dropping the selection unlinks exactly its own lease.
Release(p) ==
  /\ op = Idle
  /\ selected[p] # None
  /\ leases' = leases \ {LeaseFor(p, selected[p])}
  /\ selected' = [selected EXCEPT ![p] = None]
  /\ UNCHANGED <<files, reading, op, reply, faults, basis>>

\* The leases of a process that died are stale.
Stale(l, P) == IF l.owner \in P THEN [l EXCEPT !.live = FALSE] ELSE l

Die(p) ==
  /\ selected[p] # None
  /\ leases' = {Stale(l, {p}) : l \in leases}
  /\ selected' = [selected EXCEPT ![p] = None]
  /\ UNCHANGED <<files, reading, op, reply, faults, basis>>

-----------------------------------------------------------------------------
\* GenerationReader: a dry-run diff with the current generation, under the
\* shared lock; it needs what a selection needs.  Its outcome is not modelled.

OpenReader ==
  /\ op = Idle /\ reading = None
  /\ Selectable(root, trees)
  /\ reading' = root.cur
  /\ UNCHANGED <<files, leases, selected, op, reply, faults, basis>>

DiffCurrent ==
  /\ reading # None
  /\ reading' = None
  /\ UNCHANGED <<files, leases, selected, op, reply, faults, basis>>

-----------------------------------------------------------------------------
\* Faults.

Fault == faults < MaxFaults /\ faults' = faults + 1 /\ UNCHANGED basis

\* A call fails and changes nothing; a failed sync leaves the disk unknown.
CallFails ==
  /\ Fault
  /\ op # Idle
  /\ ~At("commitSync")
  /\ End(FailureResult, op.gen)
  /\ UNCHANGED <<files, leases, reading, selected>>

CommitSyncFails ==
  At("commitSync") /\ Fault /\ Goto("undo") /\ UNCHANGED <<files, leases, reading, selected>>

\* The lease file is created and its content is not written.
SelectFails ==
  /\ Fault
  /\ op = Idle
  /\ Selectable(root, trees)
  /\ leases' = leases \cup {TornLease}
  /\ UNCHANGED <<files, reading, selected, op, reply>>

\* The process that holds the exclusive lock dies; the kernel drops the lock.
Crash ==
  /\ Fault
  /\ op # Idle
  /\ op' = Idle
  /\ reply' = NoReply
  /\ UNCHANGED <<files, leases, reading, selected>>

PowerLoss ==
  /\ Fault
  /\ \E r \in disk, t \in treeDisk :
       root' = r /\ disk' = {r} /\ trees' = t /\ treeDisk' = {t}
  /\ leases' = {Stale(l, Procs) : l \in leases}
  /\ reading' = None
  /\ selected' = [p \in Procs |-> None]
  /\ op' = Idle
  /\ reply' = NoReply

-----------------------------------------------------------------------------
PointerStep ==
  \/ JournalCreate \/ JournalWrite \/ AbsentCreate \/ JournalSync
  \/ CommitPointer \/ CommitSync \/ Settle \/ SettleSync
  \/ Cleanup \/ CleanupSync \/ Undo \/ UndoAbsent \/ UndoSync

CleaningStep ==
  \/ CleanStaging \/ CleanPointerStaging \/ AbsentSync \/ DropAbsent
  \/ DropCurrent \/ CleanSync \/ Resolve

PublishStep ==
  \/ CleanPublicationOrder \/ CleanOrderSync \/ Validate
  \/ ReserveWrite \/ ReserveRename \/ ReserveSync
  \/ (\E g \in Ids : Allocate(g))
  \/ OrderWrite \/ OrderRename \/ OrderSync \/ Install \/ InstallSync

CollectStep ==
  \/ (\E l \in leases : ReclaimLease(l)) \/ ChooseVictims
  \/ (\E g \in op.victims : BreakTree(g)) \/ RemoveTree \/ GcSync \/ GcEnd

BeginStep ==
  \/ OpenStore \/ OpenCreate \/ OpenWrite \/ OpenSync
  \/ Publish \/ Recover \/ (\E g \in Ids : Rollback(g)) \/ EnsureCurrent
  \/ GarbageCollect

ReaderStep == OpenReader \/ DiffCurrent

ProcessStep == \E p \in Procs : SelectCurrent(p) \/ Release(p) \/ Die(p)

FaultStep == CallFails \/ CommitSyncFails \/ SelectFails \/ Crash \/ PowerLoss

Next ==
  \/ BeginStep \/ CleaningStep \/ PublishStep \/ PointerStep
  \/ CollectStep \/ ReaderStep \/ ProcessStep \/ FaultStep

Spec == Init /\ [][Next]_vars

-----------------------------------------------------------------------------
(***************************************************************************)
(* Properties.                                                             *)
(***************************************************************************)
\* The generations a root refers to.
Referenced(r) == {r.cur, r.jc.body, r.jm.body} \ {None, Torn}

\* However a crash or a power loss mixes what is on disk of the root and of
\* generations/, `current` and the journals name only completely written trees,
\* until a rollback or a collection begins on what an earlier operation changed
\* and did not sync.
PointersNameSealedTrees ==
  basis = "synced" => \A r \in disk, t \in treeDisk : \A g \in Referenced(r) : Sealed(t, g)

\* Under the same condition, whatever a power loss leaves, recovery accepts the
\* journals it finds, except where a `.current-<id>` was created and its content
\* not written.
EveryCrashIsRecoverable ==
  basis = "synced" => \A r \in disk, t \in treeDisk :
    r.jc.body = Torn \/ InspectPointerJournals(r, t) # "error"

\* A process that launched from a generation keeps a complete tree and a lease
\* for it, whatever is published, rolled back or collected meanwhile; a tree
\* being compared is complete, and the current one, to the end of the diff.
SelectionsSurvive ==
  /\ \A p \in Procs : selected[p] # None =>
       /\ Sealed(trees, selected[p])
       /\ LeaseFor(p, selected[p]) \in leases
  /\ reading # None => reading = root.cur /\ Sealed(trees, reading)

\* Collection never shrinks the choice a rollback has below two generations
\* besides current: a step that breaks a tree leaves two sealed trees
\* that were published after it.
TwoNewerAreKept ==
  [][\A g \in Ids : trees[g] = "sealed" /\ trees'[g] = "broken" =>
       \E a, b \in Ids \ {root.cur} :
         a # b /\ Sealed(trees', a) /\ Sealed(trees', b)
         /\ root.seq[a] > root.seq[g] /\ root.seq[b] > root.seq[g]]_vars

\* How the store's files implement the register that its callers rely on.
Register == INSTANCE ActivationRegister WITH
  value <- Recovered(root),
  durable <- {Recovered(r) : r \in disk},
  target <- IF op.pc \in PointerPcs THEN op.gen ELSE None,
  effected <- op.pc \in {"settleSync", "cleanup", "cleanupSync"},
  answer <- reply.result

\* Publication and rollback change the recovered pointer at one instant, and
\* their answers are honest about what a power loss may still undo; an operation
\* that finds its generation current answers Committed and syncs nothing.
ImplementsRegister == Register!Spec
=============================================================================
