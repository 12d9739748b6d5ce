-------------------------- MODULE GenerationProofs --------------------------
(***************************************************************************)
(* Proofs about Generation, for any ids and processes and any number of    *)
(* faults, in four parts: selections, which survive; pointers, which name  *)
(* complete trees; the pointer transaction, which recovery can finish or   *)
(* undo after any crash and which implements ActivationRegister; and the   *)
(* collector, which keeps two newer trees.                                 *)
(***************************************************************************)
EXTENDS Generation, FiniteSetTheorems, WellFoundedInduction, TLAPS

TreeMaps == [Ids -> {"none", "staging", "sealed", "broken"}]
Kinds == {"none", "open", "publish", "recover", "rollback", "gc"}
Pcs ==
  {"idle", "absentCreate", "absentSync", "allocate", "cleanOrder", "cleanOrderSync",
   "cleanPointer", "cleanStaging", "cleanSync", "cleanup", "cleanupSync", "commit", "commitSync",
   "dropAbsent", "dropCurrent", "gcLeases", "gcRemove", "gcSync", "gcTrees", "install",
   "installSync", "journalCreate", "journalSync", "journalWrite", "openCreate", "openSync",
   "openWrite", "orderRename", "orderSync", "orderWrite", "reserveRename", "reserveSync",
   "reserveWrite", "resolve", "settle", "settleSync", "undo", "undoAbsent", "undoSync",
   "validate"}
Operations == [kind : Kinds, pc : Pcs, gen : Ids \cup {None}, had : BOOLEAN, victims : SUBSET Ids]

StoreTypeOK ==
  /\ trees \in TreeMaps
  /\ treeDisk \subseteq TreeMaps
  /\ selected \in [Procs -> Ids \cup {None}]
  /\ op \in Operations

\* A selection has its complete tree and its lease, and the collector is not
\* about to remove the tree.
Protected(p) ==
  selected[p] # None =>
    /\ Sealed(trees, selected[p])
    /\ LeaseFor(p, selected[p]) \in leases
    /\ selected[p] \notin op.victims
    /\ op.pc = "gcRemove" => op.gen # selected[p]

\* The reader holds the shared lock, so no operation is under way.
ReaderProtected ==
  reading # None => op = Idle /\ reading = root.cur /\ Sealed(trees, reading)

SelectionInv == StoreTypeOK /\ (\A p \in Procs : Protected(p)) /\ ReaderProtected

-----------------------------------------------------------------------------
\* Selection finds a complete current tree.
LEMMA SelectableIsSealed ==
  ASSUME Selectable(root, trees)
  PROVE  root.cur # None /\ Sealed(trees, root.cur)
BY DEF Selectable, InspectPointerJournals

\* A leased generation is not collected.
LEMMA CollectibleIsUnleased ==
  ASSUME NEW p \in Procs, NEW g \in Ids, LeaseFor(p, g) \in leases
  PROVE  g \notin Collectible(root, trees, LiveGenerations)
<1>1. LeaseFor(p, g).live /\ LeaseFor(p, g).gen = g
  BY DEF LeaseFor
<1>2. g \in LiveGenerations
  BY <1>1 DEF LiveGenerations
<1>. QED BY <1>2 DEF Collectible, CollectCandidates

\* The collection chooses among published trees only.
LEMMA CollectibleAreIds ==
  ASSUME NEW g \in Collectible(root, trees, LiveGenerations)
  PROVE  g \in Ids
BY DEF Collectible, CollectCandidates

\* No operation: nothing is chosen for removal.
LEMMA IdleIsIdle == Idle \in Operations /\ Idle.pc = "idle" /\ Idle.victims = {}
BY DEF Idle, Operations, Kinds, Pcs

\* While an operation is under way nobody reads.
LEMMA NoReader ==
  ASSUME SelectionInv, op.pc # "idle"
  PROVE  reading = None
BY IdleIsIdle DEF SelectionInv, ReaderProtected

-----------------------------------------------------------------------------
(* The shapes of a step.                                                   *)

\* A step of an operation that keeps trees, leases and selections.
LEMMA OperationStep ==
  ASSUME SelectionInv,
         reading' = None,
         UNCHANGED <<trees, leases, selected>>,
         treeDisk' \subseteq TreeMaps,
         op' \in Operations, op'.pc # "gcRemove", op'.victims \subseteq op.victims
  PROVE  SelectionInv'
<1>1. StoreTypeOK' /\ ReaderProtected'
  BY DEF SelectionInv, StoreTypeOK, ReaderProtected
<1>2. ASSUME NEW p \in Procs PROVE Protected(p)'
  BY DEF SelectionInv, Protected
<1>. QED BY <1>1, <1>2 DEF SelectionInv

\* A step of an operation that changes trees, and no sealed one.
LEMMA TreeStep ==
  ASSUME SelectionInv, NEW t \in TreeMaps,
         reading' = None,
         UNCHANGED <<leases, selected>>,
         trees' = t, treeDisk' \subseteq TreeMaps,
         \A g \in Ids : trees[g] = "sealed" => t[g] = "sealed",
         op' \in Operations, op'.pc # "gcRemove", op'.victims \subseteq op.victims
  PROVE  SelectionInv'
<1>1. StoreTypeOK' /\ ReaderProtected'
  BY DEF SelectionInv, StoreTypeOK, ReaderProtected
<1>2. ASSUME NEW p \in Procs PROVE Protected(p)'
  BY DEF SelectionInv, Protected, Sealed
<1>. QED BY <1>1, <1>2 DEF SelectionInv

\* An operation goes on, or ends, without choosing a tree to remove.
Advances == op' \in Operations /\ op'.pc # "gcRemove" /\ op'.victims \subseteq op.victims

\* The next step of an operation chooses nothing.
LEMMA GotoAdvances ==
  ASSUME op \in Operations, NEW x \in Pcs, x # "gcRemove", Goto(x)
  PROVE  Advances
BY DEF Goto, Advances, Operations

\* Nor does its end.
LEMMA EndAdvances == op' = Idle => Advances
BY IdleIsIdle DEF Advances

\* The pointer transaction and the cleaning of its journals touch the root only.
RootOnly == op.pc # "idle" /\ UNCHANGED <<trees, treeDisk, leases, reading, selected>> /\ Advances

\* Every step of the pointer transaction.
LEMMA PointerIsRootOnly ==
  ASSUME op \in Operations, PointerStep
  PROVE  RootOnly
<1> USE GotoAdvances, EndAdvances DEF Pcs, RootOnly, At, End, ChangeRoot, SyncRoot
<1>1. CASE JournalCreate \/ JournalWrite \/ AbsentCreate \/ JournalSync
  BY <1>1 DEF JournalCreate, JournalWrite, AbsentCreate, JournalSync
<1>2. CASE CommitPointer \/ CommitSync \/ Settle \/ SettleSync
  BY <1>2 DEF CommitPointer, CommitSync, Settle, SettleSync
<1>3. CASE Cleanup \/ CleanupSync \/ Undo \/ UndoAbsent \/ UndoSync
  BY <1>3 DEF Cleanup, CleanupSync, Undo, UndoAbsent, UndoSync
<1>. QED BY <1>1, <1>2, <1>3 DEF PointerStep

\* Every step that cleans up what an earlier transaction left.
LEMMA CleaningIsRootOnly ==
  ASSUME op \in Operations,
         \/ CleanPointerStaging \/ AbsentSync \/ DropAbsent \/ DropCurrent \/ CleanSync \/ Resolve
  PROVE  RootOnly
<1> USE GotoAdvances, EndAdvances DEF Pcs, RootOnly, At, End, ChangeRoot, SyncRoot, KeepFiles
<1>1. AfterCleaning \in Pcs /\ AfterCleaning # "gcRemove"
  BY DEF AfterCleaning, Pcs
<1>2. CASE CleanPointerStaging
  <2>1. Inspection \in {"error", "clean", "discard_current", "rollback_current", "rollback_absent",
                        "discard_pristine", "cleanup_committed"}
    BY DEF Inspection, InspectPointerJournals
  <2>. QED BY <1>1, <1>2, <2>1, Zenon DEF CleanPointerStaging
<1>3. CASE AbsentSync \/ DropAbsent \/ DropCurrent \/ CleanSync
  BY <1>1, <1>3 DEF AbsentSync, DropAbsent, DropCurrent, CleanSync
<1>4. CASE Resolve
  <2>1. [op EXCEPT !.pc = "journalCreate", !.had = TRUE] \in Operations
    BY Zenon DEF Operations
  <2>. QED BY <1>4, <2>1, ZenonT(30) DEF Resolve, Advances, Operations
<1>. QED BY <1>2, <1>3, <1>4

\* Every step of a publication but those that build and move the tree.
LEMMA PublishRootOnly ==
  ASSUME op \in Operations,
         \/ CleanPublicationOrder \/ CleanOrderSync \/ Validate
         \/ ReserveWrite \/ ReserveRename \/ ReserveSync \/ OrderWrite \/ OrderRename \/ OrderSync
  PROVE  RootOnly
<1> USE GotoAdvances, EndAdvances DEF Pcs, RootOnly, At, End, ChangeRoot, SyncRoot, KeepFiles
<1>1. CASE CleanPublicationOrder \/ CleanOrderSync
  BY <1>1 DEF CleanPublicationOrder, CleanOrderSync
<1>2. CASE Validate
  <2>1. \/ op' = Idle
        \/ \E had \in BOOLEAN : op' = [op EXCEPT !.pc = "reserveWrite", !.had = had]
    BY <1>2, ZenonT(30) DEF Validate
  <2>2. Advances
    BY <2>1, ZenonT(30) DEF Advances, Operations
  <2>. QED BY <1>2, <2>2 DEF Validate
<1>3. CASE ReserveWrite \/ ReserveRename \/ ReserveSync \/ OrderWrite \/ OrderRename \/ OrderSync
  BY <1>3 DEF ReserveWrite, ReserveRename, ReserveSync, OrderWrite, OrderRename, OrderSync, StageOrder
<1>. QED BY <1>1, <1>2, <1>3

\* Steps on the root leave the selections and the readers as they are.
LEMMA RootOnlyKeeps ==
  ASSUME SelectionInv, RootOnly
  PROVE  SelectionInv'
BY NoReader, OperationStep DEF RootOnly, Advances, SelectionInv, StoreTypeOK

\* An operation begins: nobody reads, and what is visible stays.
LEMMA BeginKeeps ==
  ASSUME SelectionInv, BeginStep
  PROVE  SelectionInv'
<1>1. ASSUME NEW kind \in Kinds, NEW pc \in Pcs, pc # "gcRemove", NEW g \in Ids \cup {None},
             Begin(kind, pc, g)
      PROVE  SelectionInv'
  <2>1. /\ reading' = None /\ UNCHANGED <<trees, leases, selected>>
        /\ op' = [Idle EXCEPT !.kind = kind, !.pc = pc, !.gen = g]
    BY <1>1 DEF Begin, files
  <2>2. treeDisk' \subseteq TreeMaps
    BY <1>1 DEF Begin, files, SelectionInv, StoreTypeOK
  <2>3. Advances
    BY <1>1, <2>1, IdleIsIdle, Zenon DEF Advances, Operations, Idle
  <2>. QED BY <2>1, <2>2, <2>3, OperationStep DEF Advances
<1>2. CASE OpenStore \/ Publish \/ Recover \/ GarbageCollect
  BY <1>1, <1>2 DEF OpenStore, Publish, Recover, GarbageCollect, Kinds, Pcs
<1>3. CASE \E g \in Ids : Rollback(g)
  BY <1>1, <1>3 DEF Rollback, Kinds, Pcs
<1>4. CASE OpenCreate \/ OpenWrite \/ OpenSync
  <2>1. RootOnly
    BY <1>4, GotoAdvances, EndAdvances
       DEF OpenCreate, OpenWrite, OpenSync, RootOnly, At, End, ChangeRoot, SyncRoot, Pcs,
           SelectionInv, StoreTypeOK
  <2>. QED BY <2>1, RootOnlyKeeps
<1>5. CASE EnsureCurrent
  <2>1. /\ reading' = None /\ UNCHANGED <<trees, leases, selected>>
        /\ op' = Idle \/ op' = [Idle EXCEPT !.kind = "publish", !.pc = "reserveWrite"]
    BY <1>5 DEF EnsureCurrent, KeepFiles, End
  <2>2. treeDisk' \subseteq TreeMaps
    BY <1>5 DEF EnsureCurrent, KeepFiles, SelectionInv, StoreTypeOK
  <2>3. Advances
    BY <2>1, IdleIsIdle, Zenon DEF Advances, Operations, Idle, Kinds, Pcs
  <2>. QED BY <2>1, <2>2, <2>3, OperationStep DEF Advances
<1>. QED BY <1>2, <1>3, <1>4, <1>5 DEF BeginStep

\* Staging, sealing and cleaning leave every sealed tree as it is.
LEMMA TreesOfPublishKeep ==
  ASSUME SelectionInv,
         CleanStaging \/ (\E g \in Ids : Allocate(g)) \/ Install \/ InstallSync
  PROVE  SelectionInv'
<1>1. op \in Operations /\ trees \in TreeMaps /\ treeDisk \subseteq TreeMaps
  BY DEF SelectionInv, StoreTypeOK
<1>2. CASE CleanStaging
  <2>1. Advances /\ op.pc # "idle"
    BY <1>1, <1>2, GotoAdvances DEF CleanStaging, At, Pcs
  <2> DEFINE t == [g \in Ids |-> IF trees[g] = "staging" THEN "none" ELSE trees[g]]
  <2>2. t \in TreeMaps /\ \A g \in Ids : trees[g] = "sealed" => t[g] = "sealed"
    BY <1>1 DEF TreeMaps
  <2>3. trees' = t /\ treeDisk' = {t} /\ UNCHANGED <<leases, selected, reading>>
    BY <1>2 DEF CleanStaging
  <2> HIDE DEF t
  <2>. QED BY <2>1, <2>2, <2>3, NoReader, TreeStep DEF Advances
<1>3. ASSUME NEW g \in Ids, Allocate(g) PROVE SelectionInv'
  <2>1. Advances /\ op.pc # "idle"
    BY <1>1, <1>3, Zenon DEF Allocate, At, Pcs, Advances, Operations
  <2> DEFINE t == [trees EXCEPT ![g] = "staging"]
  <2>2. t \in TreeMaps /\ \A h \in Ids : trees[h] = "sealed" => t[h] = "sealed"
    BY <1>1, <1>3, Zenon DEF Allocate, TreeMaps
  <2>3. trees' = t /\ treeDisk' = treeDisk \cup {t} /\ UNCHANGED <<leases, selected, reading>>
    BY <1>3, Zenon DEF Allocate, ChangeTrees
  <2> HIDE DEF t
  <2>. QED BY <1>1, <2>1, <2>2, <2>3, NoReader, TreeStep DEF Advances
<1>4. CASE Install
  <2>1. Advances /\ op.pc # "idle"
    BY <1>1, <1>4, GotoAdvances DEF Install, At, Pcs
  <2> DEFINE t == [trees EXCEPT ![op.gen] = "sealed"]
  <2>2. t \in TreeMaps /\ \A h \in Ids : trees[h] = "sealed" => t[h] = "sealed"
    BY <1>1, Zenon DEF TreeMaps
  <2>3. trees' = t /\ treeDisk' = treeDisk \cup {t} /\ UNCHANGED <<leases, selected, reading>>
    BY <1>4 DEF Install, ChangeTrees
  <2> HIDE DEF t
  <2>. QED BY <1>1, <2>1, <2>2, <2>3, NoReader, TreeStep DEF Advances
<1>5. CASE InstallSync
  <2>1. Advances /\ op.pc # "idle"
    BY <1>1, <1>5, GotoAdvances DEF InstallSync, At, Pcs
  <2>. QED BY <1>1, <1>5, <2>1, NoReader, OperationStep DEF InstallSync, SyncTrees, Advances
<1>. QED BY <1>2, <1>3, <1>4, <1>5

\* The collector removes stale leases, and trees that nobody leases.
LEMMA CollectKeeps ==
  ASSUME SelectionInv, CollectStep
  PROVE  SelectionInv'
<1>1. op \in Operations /\ trees \in TreeMaps /\ treeDisk \subseteq TreeMaps
  BY DEF SelectionInv, StoreTypeOK
<1>2. reading = None
  BY NoReader, Zenon DEF CollectStep, ReclaimLease, ChooseVictims, BreakTree, RemoveTree, GcSync, GcEnd, At
<1>3. ASSUME NEW l \in leases, ReclaimLease(l) PROVE SelectionInv'
  <2>1. \A p \in Procs : LeaseFor(p, selected[p]) # l
    BY <1>3 DEF ReclaimLease, LeaseFor
  <2>2. leases' = leases \ {l} /\ UNCHANGED <<trees, treeDisk, reading, selected, op>>
    BY <1>3 DEF ReclaimLease, files
  <2>3. ASSUME NEW p \in Procs PROVE Protected(p)'
    BY <2>1, <2>2 DEF SelectionInv, Protected, LeaseFor
  <2>. QED BY <1>2, <2>2, <2>3 DEF SelectionInv, StoreTypeOK, ReaderProtected
<1>4. CASE ChooseVictims
  <2> DEFINE V == Collectible(root, trees, LiveGenerations)
  <2>1. V \subseteq Ids
    BY CollectibleAreIds
  <2>2. \A p \in Procs : selected[p] # None => selected[p] \notin V
    BY CollectibleIsUnleased DEF SelectionInv, StoreTypeOK, Protected
  <2>3. op' = [op EXCEPT !.pc = "gcTrees", !.victims = V]
        /\ UNCHANGED <<trees, treeDisk, leases, reading, selected>>
    BY <1>4 DEF ChooseVictims, KeepFiles
  <2> HIDE DEF V
  <2>4. op' \in Operations /\ op'.pc = "gcTrees" /\ op'.victims = V
    BY <1>1, <2>1, <2>3, Zenon DEF Operations, Pcs
  <2>5. ASSUME NEW p \in Procs PROVE Protected(p)'
    BY <2>2, <2>3, <2>4 DEF SelectionInv, Protected
  <2>. QED BY <1>2, <2>3, <2>4, <2>5 DEF SelectionInv, StoreTypeOK, ReaderProtected
<1>5. ASSUME NEW g \in op.victims, BreakTree(g) PROVE SelectionInv'
  <2> DEFINE t == [trees EXCEPT ![g] = "broken"]
  <2>1. g \in Ids
    BY <1>1 DEF Operations
  <2>2. t \in TreeMaps /\ \A h \in Ids : h # g => t[h] = trees[h]
    BY <1>1, <2>1 DEF TreeMaps
  <2>3. trees' = t /\ treeDisk' = treeDisk \cup {t} /\ UNCHANGED <<leases, reading, selected>>
    BY <1>5 DEF BreakTree, ChangeTrees
  <2> HIDE DEF t
  <2>4. /\ op' \in Operations /\ op'.gen = g /\ op'.victims \subseteq op.victims
    BY <1>1, <1>5, <2>1, Zenon DEF BreakTree, Operations, Pcs
  <2>5. ASSUME NEW p \in Procs PROVE Protected(p)'
    <3>1. selected[p] # None => selected[p] # g
      BY DEF SelectionInv, Protected
    <3>. QED BY <2>2, <2>3, <2>4, <3>1 DEF SelectionInv, StoreTypeOK, Protected, Sealed
  <2>. QED BY <1>1, <1>2, <2>2, <2>3, <2>4, <2>5 DEF SelectionInv, StoreTypeOK, ReaderProtected
<1>6. CASE RemoveTree
  <2> DEFINE t == [trees EXCEPT ![op.gen] = "none"]
  <2>1. t \in TreeMaps /\ \A h \in Ids : h # op.gen => t[h] = trees[h]
    BY <1>1, Zenon DEF TreeMaps
  <2>2. trees' = t /\ treeDisk' = treeDisk \cup {t} /\ UNCHANGED <<leases, reading, selected>>
    BY <1>6 DEF RemoveTree, ChangeTrees
  <2> HIDE DEF t
  <2>3. Advances
    BY <1>1, <1>6, GotoAdvances DEF RemoveTree, Pcs
  <2>4. ASSUME NEW p \in Procs PROVE Protected(p)'
    BY <1>6, <2>1, <2>2, <2>3 DEF RemoveTree, At, SelectionInv, StoreTypeOK, Protected, Sealed, Advances
  <2>. QED BY <1>1, <1>2, <2>1, <2>2, <2>3, <2>4
           DEF SelectionInv, StoreTypeOK, ReaderProtected, Advances
<1>7. CASE GcSync
  <2>1. Advances
    BY <1>1, <1>7, GotoAdvances DEF GcSync, Pcs
  <2>. QED BY <1>1, <1>2, <1>7, <2>1, OperationStep DEF GcSync, SyncTrees, Advances
<1>8. CASE GcEnd
  BY <1>1, <1>2, <1>8, EndAdvances, OperationStep DEF GcEnd, End, KeepFiles, Advances
<1>. QED BY <1>3, <1>4, <1>5, <1>6, <1>7, <1>8 DEF CollectStep

\* A process selects a complete tree, and ends without touching another's lease.
LEMMA ProcessKeeps ==
  ASSUME SelectionInv, ProcessStep
  PROVE  SelectionInv'
<1> PICK p \in Procs : SelectCurrent(p) \/ Release(p) \/ Die(p)
  BY DEF ProcessStep
<1>1. UNCHANGED <<root, trees, treeDisk, reading, op>>
  BY DEF SelectCurrent, Release, Die, files
<1>2. CASE SelectCurrent(p)
  <2>1. Sealed(trees, root.cur) /\ root.cur \in Ids
    BY <1>2, SelectableIsSealed DEF SelectCurrent, Sealed
  <2>2. op.victims = {} /\ op.pc = "idle"
    BY <1>2, IdleIsIdle DEF SelectCurrent
  <2>3. leases' = leases \cup {LeaseFor(p, root.cur)}
        /\ selected' = [selected EXCEPT ![p] = root.cur]
    BY <1>2 DEF SelectCurrent
  <2>4. ASSUME NEW q \in Procs PROVE Protected(q)'
    <3>1. CASE q = p
      BY <1>1, <2>1, <2>2, <2>3, <3>1 DEF SelectionInv, StoreTypeOK, Protected, Sealed, LeaseFor
    <3>2. CASE q # p
      BY <1>1, <2>3, <3>2 DEF SelectionInv, StoreTypeOK, Protected, Sealed, LeaseFor
    <3>. QED BY <3>1, <3>2
  <2>. QED BY <1>1, <2>1, <2>3, <2>4 DEF SelectionInv, StoreTypeOK, ReaderProtected, Sealed
<1>3. ASSUME selected' = [selected EXCEPT ![p] = None],
             \A q \in Procs \ {p} : \A g \in Ids : LeaseFor(q, g) \in leases => LeaseFor(q, g) \in leases'
      PROVE  SelectionInv'
  <2>1. selected' \in [Procs -> Ids \cup {None}] /\ selected'[p] = None
        /\ \A q \in Procs \ {p} : selected'[q] = selected[q]
    BY <1>3 DEF SelectionInv, StoreTypeOK
  <2>2. ASSUME NEW q \in Procs PROVE Protected(q)'
    BY <1>1, <1>3, <2>1 DEF SelectionInv, StoreTypeOK, Protected, Sealed, LeaseFor
  <2>. QED BY <1>1, <2>1, <2>2 DEF SelectionInv, StoreTypeOK, ReaderProtected, Sealed
<1>4. CASE Release(p)
  <2>1. \A q \in Procs \ {p} : \A g \in Ids : LeaseFor(q, g) # LeaseFor(p, selected[p])
    BY DEF LeaseFor
  <2>. QED BY <1>3, <1>4, <2>1 DEF Release
<1>5. CASE Die(p)
  <2>1. \A q \in Procs \ {p} : \A g \in Ids : Stale(LeaseFor(q, g), {p}) = LeaseFor(q, g)
    BY DEF LeaseFor, Stale
  <2>. QED BY <1>3, <1>5, <2>1 DEF Die
<1>. QED BY <1>2, <1>4, <1>5

\* A reader opens what is selected, or compares it.
LEMMA ReaderKeeps ==
  ASSUME SelectionInv, ReaderStep
  PROVE  SelectionInv'
<1>1. UNCHANGED <<root, trees, treeDisk, leases, selected, op>>
  BY DEF ReaderStep, OpenReader, DiffCurrent, files
<1>2. ReaderProtected'
  BY <1>1, SelectableIsSealed DEF ReaderStep, OpenReader, DiffCurrent, ReaderProtected, Sealed
<1>3. ASSUME NEW p \in Procs PROVE Protected(p)'
  BY <1>1 DEF SelectionInv, Protected, Sealed, LeaseFor
<1>. QED BY <1>1, <1>2, <1>3 DEF SelectionInv, StoreTypeOK

\* A failed call and a crash keep the files; nobody's selection outlives a
\* power loss.
LEMMA FaultKeeps ==
  ASSUME SelectionInv, FaultStep
  PROVE  SelectionInv'
<1>1. op \in Operations /\ treeDisk \subseteq TreeMaps
  BY DEF SelectionInv, StoreTypeOK
<1>2. CASE CallFails \/ Crash
  <2>1. reading' = None /\ UNCHANGED <<trees, treeDisk, leases, selected>> /\ op' = Idle
    BY <1>2 DEF CallFails, Crash, End, files, SelectionInv, ReaderProtected
  <2>. QED BY <1>1, <2>1, EndAdvances, OperationStep DEF Advances
<1>3. CASE CommitSyncFails
  <2>1. op.pc # "idle" /\ Advances
    BY <1>1, <1>3, GotoAdvances DEF CommitSyncFails, At, Pcs
  <2>2. UNCHANGED <<trees, treeDisk, leases, reading, selected>>
    BY <1>3 DEF CommitSyncFails, files
  <2>. QED BY <2>1, <2>2, RootOnlyKeeps DEF RootOnly
<1>4. CASE SelectFails
  <2>1. leases \subseteq leases' /\ UNCHANGED <<root, trees, treeDisk, reading, selected, op>>
    BY <1>4 DEF SelectFails, files
  <2>2. ASSUME NEW p \in Procs PROVE Protected(p)'
    BY <2>1 DEF SelectionInv, Protected, Sealed, LeaseFor
  <2>. QED BY <2>1, <2>2 DEF SelectionInv, StoreTypeOK, ReaderProtected, Sealed
<1>5. CASE PowerLoss
  <2> PICK t \in treeDisk : trees' = t /\ treeDisk' = {t}
    BY <1>5 DEF PowerLoss
  <2>1. reading' = None /\ selected' = [p \in Procs |-> None] /\ op' = Idle
    BY <1>5 DEF PowerLoss
  <2>2. StoreTypeOK'
    BY <1>1, <2>1, IdleIsIdle DEF StoreTypeOK
  <2>. QED BY <2>1, <2>2 DEF SelectionInv, Protected, ReaderProtected
<1>. QED BY <1>2, <1>3, <1>4, <1>5 DEF FaultStep

-----------------------------------------------------------------------------
\* However operations, launches, readers, failed calls, crashes and power
\* losses interleave, the strengthened invariant holds.
THEOREM SelectionInductive == Spec => []SelectionInv
<1>1. Init => SelectionInv
  BY IdleIsIdle DEF Init, SelectionInv, StoreTypeOK, TreeMaps, Protected, ReaderProtected
<1>2. SelectionInv /\ [Next]_vars => SelectionInv'
  <2> SUFFICES ASSUME SelectionInv, [Next]_vars PROVE SelectionInv'
    OBVIOUS
  <2>1. op \in Operations
    BY DEF SelectionInv, StoreTypeOK
  <2>2. CASE PointerStep
    BY <2>1, <2>2, PointerIsRootOnly, RootOnlyKeeps
  <2>3. CASE CleaningStep
    BY <2>1, <2>3, CleaningIsRootOnly, RootOnlyKeeps, TreesOfPublishKeep DEF CleaningStep
  <2>4. CASE PublishStep
    BY <2>1, <2>4, PublishRootOnly, RootOnlyKeeps, TreesOfPublishKeep DEF PublishStep
  <2>5. CASE UNCHANGED vars
    BY <2>5 DEF vars, SelectionInv, StoreTypeOK, Protected, ReaderProtected, Sealed, LeaseFor
  <2>. QED BY <2>2, <2>3, <2>4, <2>5, BeginKeeps, CollectKeeps, ReaderKeeps, ProcessKeeps, FaultKeeps
           DEF Next
<1>. QED BY <1>1, <1>2, PTL DEF Spec

\* select_current, open_reader and garbage_collect: a process that launched from
\* a generation keeps its complete tree and its lease, and a diff its tree.
THEOREM SelectionsAlwaysSurvive == Spec => []SelectionsSurvive
<1>1. SelectionInv => SelectionsSurvive
  BY DEF SelectionInv, Protected, ReaderProtected, SelectionsSurvive
<1>. QED BY <1>1, SelectionInductive, PTL

-----------------------------------------------------------------------------
(* What `current` and the journals name.                                   *)

Names == Ids \cup {None, Torn}
Files == [id : Names, body : Names]
Roots == [cur : Names, jc : Files, ja : Names, jm : Files, order : {"absent", "torn", "written"},
          next : Nat \ {0}, seq : [Ids -> Nat], staged : BOOLEAN]

\* Whatever generations/ a power loss leaves, the root names complete trees, if
\* no rollback and no collection began on unsynced changes.
Safe(r) ==
  /\ r \in Roots
  /\ r.jc.id = None => r.jc.body = None
  /\ basis = "synced" => \A t \in treeDisk : \A g \in Referenced(r) : Sealed(t, g)

\* The generation a pointer transaction commits is durably complete.
TargetSealed ==
  op.kind = "rollback" \/ op.pc \in PointerPcs =>
    /\ op.gen \in Ids
    /\ basis = "synced" => \A t \in treeDisk : Sealed(t, op.gen)

StagedPcs == {"orderWrite", "orderRename", "orderSync", "install", "installSync"}
PublishPcs ==
  {"cleanOrder", "cleanOrderSync", "validate", "reserveWrite", "reserveRename", "reserveSync",
   "allocate"} \cup StagedPcs
Publishing ==
  /\ op.pc \in PublishPcs => op.kind = "publish"
  /\ op.pc \in StagedPcs => op.gen \in Ids
  /\ op.pc = "installSync" => Sealed(trees, op.gen)

\* The collector works on a root that names none of its victims, and a durable one
\* if the root was when it began.
CollectPcs == {"gcLeases", "gcTrees", "gcRemove", "gcSync"}
Collecting ==
  op.pc \in CollectPcs =>
    /\ op.kind = "gc"
    /\ basis = "synced" => disk = {root}
    /\ \A g \in op.victims : g \notin Referenced(root)
    /\ op.pc = "gcRemove" => op.gen \notin Referenced(root)

PointerInv ==
  /\ trees \in treeDisk /\ treeDisk \subseteq TreeMaps
  /\ root \in disk /\ \A r \in disk : Safe(r)
  /\ op \in Operations
  /\ TargetSealed /\ Publishing /\ Collecting

Proceeds == op' \in Operations /\ op'.pc \notin CollectPcs /\ TargetSealed' /\ Publishing'

\* The next step of an operation keeps its target sealed.
LEMMA GotoProceeds ==
  ASSUME PointerInv, UNCHANGED <<trees, treeDisk, basis>>,
         NEW x \in Pcs, x \notin CollectPcs, x # "installSync", Goto(x),
         x \in PointerPcs => op.kind = "rollback" \/ op.pc \in PointerPcs,
         x \in PublishPcs => op.kind = "publish",
         x \in StagedPcs => op.gen \in Ids
  PROVE  Proceeds
<1>1. op' \in Operations /\ op'.pc = x /\ op'.kind = op.kind /\ op'.gen = op.gen
  BY DEF Goto, PointerInv, Operations
<1>. QED BY <1>1 DEF Proceeds, PointerInv, TargetSealed, Publishing, Sealed

\* An operation that has ended has no target.
LEMMA EndProceeds == op' = Idle => Proceeds
BY IdleIsIdle DEF Idle, Proceeds, TargetSealed, Publishing, PointerPcs, PublishPcs, StagedPcs, CollectPcs

\* A step that changes or syncs the root, and makes it name nothing new except
\* what is durably complete.
LEMMA RootStep ==
  ASSUME PointerInv, NEW r \in Roots, root' = r, disk' \subseteq disk \cup {r}, r \in disk',
         UNCHANGED <<trees, treeDisk, basis>>,
         r.jc.id = None => r.jc.body = None,
         basis = "synced" =>
           \A g \in Referenced(r) : g \in Referenced(root) \/ \A t \in treeDisk : Sealed(t, g),
         Proceeds
  PROVE  PointerInv'
<1>1. ASSUME NEW q \in disk' PROVE Safe(q)'
  <2>1. CASE q = r
    BY <2>1 DEF PointerInv, Safe, Sealed
  <2>2. CASE q \in disk
    BY <2>2 DEF PointerInv, Safe, Sealed
  <2>. QED BY <2>1, <2>2
<1>2. Collecting'
  BY DEF Proceeds, Collecting
<1>. QED BY <1>1, <1>2 DEF PointerInv, Proceeds

\* The same root, kept or synced.
LEMMA SameRoot ==
  ASSUME PointerInv, UNCHANGED <<root, trees, treeDisk, basis>>, disk' \subseteq disk, root \in disk', Proceeds
  PROVE  PointerInv'
<1>1. root \in Roots /\ (root.jc.id = None => root.jc.body = None)
  BY DEF PointerInv, Safe
<1>. QED BY <1>1, RootStep

\* A change of the root that leaves `current` and the journals alone.
LEMMA OrderStep ==
  ASSUME PointerInv, NEW r \in Roots, ChangeRoot(r),
         r.cur = root.cur, r.jc = root.jc, r.jm = root.jm, Proceeds
  PROVE  PointerInv'
<1>1. Referenced(r) = Referenced(root)
  BY DEF Referenced
<1>2. r.jc.id = None => r.jc.body = None
  BY DEF PointerInv, Safe
<1>. QED BY <1>1, <1>2, RootStep DEF ChangeRoot

\* The root directory is always one the root operators are about.
LEMMA RootIsRoot == PointerInv => root \in Roots
BY DEF PointerInv, Safe

\* Every step of the pointer transaction leaves a root from which the pointer is recovered.
LEMMA PointerKeeps ==
  ASSUME PointerInv, PointerStep
  PROVE  PointerInv'
<1> USE DEF At
<1>1. op.pc \in PointerPcs
  BY DEF PointerStep, PointerPcs, JournalCreate, JournalWrite, AbsentCreate, JournalSync, CommitPointer,
         CommitSync, Settle, SettleSync, Cleanup, CleanupSync, Undo, UndoAbsent, UndoSync
<1>2. op.gen \in Ids /\ (basis = "synced" => \A t \in treeDisk : Sealed(t, op.gen))
  BY <1>1 DEF PointerInv, TargetSealed
<1>3. root \in Roots
  BY RootIsRoot
<1>4. ASSUME NEW x \in PointerPcs, Goto(x), UNCHANGED <<trees, treeDisk, basis>> PROVE Proceeds
  BY <1>1, <1>4, GotoProceeds DEF PointerPcs, PublishPcs, StagedPcs, CollectPcs, Pcs
<1>5. CASE JournalSync \/ CommitSync \/ SettleSync \/ CleanupSync \/ UndoSync
  <2>1. SyncRoot /\ Proceeds
    BY <1>4, <1>5, EndProceeds
       DEF JournalSync, CommitSync, SettleSync, CleanupSync, UndoSync, SyncRoot, End, PointerPcs
  <2>. QED BY <2>1, SameRoot DEF SyncRoot, PointerInv
<1>6. ASSUME NEW r \in Roots, NEW x \in PointerPcs, Goto(x), ChangeRoot(r),
             r.jc.id = None => r.jc.body = None,
             r.cur \in {root.cur, root.jc.body, None, op.gen},
             r.jc.body \in {root.cur, root.jc.body, None, Torn, op.gen},
             r.jm.body \in {root.jc.body, root.jm.body, None}
      PROVE  PointerInv'
  <2>1. \A g \in Referenced(r) : g \in Referenced(root) \/ g = op.gen
    BY <1>6 DEF Referenced
  <2>2. Proceeds
    BY <1>4, <1>6, Zenon DEF ChangeRoot
  <2>. QED BY <1>2, <1>6, <2>1, <2>2, RootStep DEF ChangeRoot
<1>7. CASE JournalCreate
  <2> DEFINE r == [root EXCEPT !.jc = [id |-> op.gen, body |-> Torn]]
  <2>1. r \in Roots /\ r.cur = root.cur /\ r.jc = [id |-> op.gen, body |-> Torn] /\ r.jm = root.jm
    BY <1>2, <1>3 DEF Roots, Files, Names
  <2>2. ChangeRoot(r) /\ Goto("journalWrite")
    BY <1>7, Zenon DEF JournalCreate
  <2> HIDE DEF r
  <2>. QED BY <1>2, <1>6, <2>1, <2>2, NamesAreDistinct DEF PointerPcs
<1>8. CASE JournalWrite
  <2> DEFINE r == [root EXCEPT !.jc = [id |-> op.gen, body |-> op.gen]]
  <2>1. r \in Roots /\ r.cur = root.cur /\ r.jc = [id |-> op.gen, body |-> op.gen] /\ r.jm = root.jm
    BY <1>2, <1>3 DEF Roots, Files, Names
  <2>2. ChangeRoot(r) /\ (Goto("journalSync") \/ Goto("absentCreate"))
    BY <1>8 DEF JournalWrite
  <2> HIDE DEF r
  <2>. QED BY <1>2, <1>6, <2>1, <2>2, NamesAreDistinct DEF PointerPcs
<1>9. CASE AbsentCreate \/ UndoAbsent
  <2>1. PICK a \in {op.gen, None}, x \in {"journalSync", "undoSync"} :
          ChangeRoot([root EXCEPT !.ja = a]) /\ Goto(x)
    BY <1>9 DEF AbsentCreate, UndoAbsent
  <2> DEFINE r == [root EXCEPT !.ja = a]
  <2>2. r \in Roots /\ r.cur = root.cur /\ r.jc = root.jc /\ r.jm = root.jm
    BY <1>2, <1>3, <2>1 DEF Roots, Names
  <2>3. ChangeRoot(r)
    BY <2>1
  <2> HIDE DEF r
  <2>4. Proceeds
    BY <1>4, <2>1, <2>3, Zenon DEF ChangeRoot, PointerPcs
  <2>. QED BY <2>2, <2>3, <2>4, OrderStep
<1>10. CASE CommitPointer
  <2> DEFINE j == IF op.had THEN [id |-> op.gen, body |-> root.cur] ELSE NoFile
             r == [root EXCEPT !.cur = root.jc.body, !.jc = j]
  <2>1. j \in Files /\ j.body \in {root.cur, None} /\ (j.id = None => j.body = None)
    BY <1>2, <1>3, NamesAreDistinct DEF Roots, Files, Names, NoFile
  <2>2. ChangeRoot(r) /\ Goto("commitSync")
    BY <1>10 DEF CommitPointer
  <2>3. r \in Roots /\ r.cur = root.jc.body /\ r.jc = j /\ r.jm = root.jm
    BY <1>3, <2>1, Zenon DEF Roots, Files, Names
  <2> HIDE DEF r
  <2>. QED BY <1>6, <2>1, <2>2, <2>3 DEF PointerPcs
<1>11. CASE Settle
  <2> DEFINE m == [id |-> op.gen, body |-> root.jc.body]
             r == [root EXCEPT !.jm = m, !.jc = NoFile, !.ja = None]
  <2>1. m \in Files /\ m.body = root.jc.body /\ NoFile \in Files /\ NoFile.body = None
    BY <1>2, <1>3 DEF Roots, Files, Names, NoFile
  <2>2. ChangeRoot(r) /\ Goto("settleSync")
    BY <1>11 DEF Settle
  <2>3. r \in Roots /\ r.cur = root.cur /\ r.jc = NoFile /\ r.jm = m
    BY <1>3, <2>1, ZenonT(30) DEF Roots, Names
  <2> HIDE DEF r
  <2>. QED BY <1>6, <2>1, <2>2, <2>3 DEF PointerPcs
<1>12. CASE Cleanup
  <2> DEFINE r == [root EXCEPT !.jm = NoFile]
  <2>1. NoFile \in Files /\ NoFile.body = None
    BY DEF Files, Names, NoFile
  <2>2. r \in Roots /\ r.cur = root.cur /\ r.jc = root.jc /\ r.jm = NoFile
    BY <1>3, <2>1 DEF Roots
  <2>3. ChangeRoot(r) /\ Goto("cleanupSync")
    BY <1>12, SMTT(30) DEF Cleanup
  <2> HIDE DEF r
  <2>. QED BY <1>6, <2>1, <2>2, <2>3 DEF PointerPcs, PointerInv, Safe
<1>13. CASE Undo
  <2> DEFINE r == [root EXCEPT !.cur = root.jc.body, !.jc = [id |-> op.gen, body |-> op.gen]]
  <2>1. /\ r \in Roots /\ r.cur = root.jc.body
        /\ r.jc = [id |-> op.gen, body |-> op.gen] /\ r.jm = root.jm
    BY <1>2, <1>3, Zenon DEF Roots, Files, Names
  <2>2. ChangeRoot(r) /\ (Goto("undoSync") \/ Goto("undoAbsent"))
    BY <1>13 DEF Undo
  <2> HIDE DEF r
  <2>. QED BY <1>2, <1>6, <2>1, <2>2, NamesAreDistinct DEF PointerPcs
<1>. QED BY <1>5, <1>7, <1>8, <1>9, <1>10, <1>11, <1>12, <1>13 DEF PointerStep

\* A step of an operation that changes trees, and no sealed one.
LEMMA SealedStaySealed ==
  ASSUME PointerInv, NEW t \in TreeMaps, trees' = t, t \in treeDisk', treeDisk' \subseteq treeDisk \cup {t},
         UNCHANGED <<root, disk, basis>>,
         \A g \in Ids : trees[g] = "sealed" => t[g] = "sealed",
         Proceeds
  PROVE  PointerInv'
<1>1. ASSUME NEW q \in disk' PROVE Safe(q)'
  BY DEF PointerInv, Safe, Sealed
<1>2. Collecting'
  BY DEF Proceeds, Collecting
<1>. QED BY <1>1, <1>2 DEF PointerInv, Proceeds

\* Recovering from the journals makes the root name nothing new.
LEMMA CleaningKeeps ==
  ASSUME PointerInv, CleaningStep
  PROVE  PointerInv'
<1> USE DEF At
<1>1. /\ op \in Operations /\ root \in Roots /\ (root.jc.id = None => root.jc.body = None)
      /\ trees \in TreeMaps
  BY DEF PointerInv, Safe
<1>2. NoFile \in Files /\ NoFile.body = None
  BY DEF Files, Names, NoFile
<1>3. ASSUME NEW x \in {"cleanPointer", "absentSync", "dropAbsent", "dropCurrent", "cleanSync"},
             Goto(x), UNCHANGED <<trees, treeDisk, basis>>
      PROVE  Proceeds
  BY <1>3, GotoProceeds DEF PointerPcs, PublishPcs, StagedPcs, CollectPcs, Pcs
<1>4. ASSUME Goto(AfterCleaning), UNCHANGED <<trees, treeDisk, basis>> PROVE Proceeds
  <2>1. AfterCleaning = "resolve" \/ (AfterCleaning = "cleanOrder" /\ op.kind = "publish")
    BY DEF AfterCleaning
  <2>. QED BY <1>4, <2>1, GotoProceeds DEF PointerPcs, PublishPcs, StagedPcs, CollectPcs, Pcs
<1>5. ASSUME NEW r \in Roots, NEW x \in {"absentSync", "dropCurrent", "cleanSync"},
             Goto(x), ChangeRoot(r),
             r.jc.id = None => r.jc.body = None,
             r.cur \in {root.cur, root.jc.body, None},
             r.jc.body \in {root.cur, root.jc.body, None},
             r.jm.body \in {root.jm.body, None}
      PROVE  PointerInv'
  <2>1. \A g \in Referenced(r) : g \in Referenced(root)
    BY <1>5 DEF Referenced
  <2>2. Proceeds
    BY <1>3, <1>5 DEF ChangeRoot
  <2>. QED BY <1>5, <2>1, <2>2, RootStep DEF ChangeRoot
<1>6. CASE CleanStaging
  <2> DEFINE t == [g \in Ids |-> IF trees[g] = "staging" THEN "none" ELSE trees[g]]
  <2>1. t \in TreeMaps /\ \A g \in Ids : trees[g] = "sealed" => t[g] = "sealed"
    BY <1>1 DEF TreeMaps
  <2>2. trees' = t /\ treeDisk' = {t} /\ UNCHANGED <<root, disk, basis>> /\ Goto("cleanPointer")
    BY <1>6 DEF CleanStaging
  <2> HIDE DEF t
  <2>3. op' \in Operations /\ op'.pc = "cleanPointer" /\ op'.kind = op.kind /\ op'.gen = op.gen
    BY <1>1, <2>2 DEF Goto, Operations, Pcs
  <2>4. Proceeds
    BY <2>1, <2>2, <2>3
       DEF Proceeds, PointerInv, TargetSealed, Publishing, Sealed, PointerPcs, PublishPcs, StagedPcs, CollectPcs
  <2>. QED BY <2>1, <2>2, <2>4, SealedStaySealed
<1>7. CASE CleanPointerStaging
  <2>1. CASE Inspection = "clean"
    BY <1>4, <1>7, <2>1, SameRoot DEF CleanPointerStaging, KeepFiles, PointerInv
  <2>2. CASE Inspection = "discard_current"
    <3> DEFINE r == [root EXCEPT !.jc = NoFile]
    <3>1. r \in Roots /\ r.cur = root.cur /\ r.jc = NoFile /\ r.jm = root.jm
      BY <1>1, <1>2 DEF Roots
    <3>2. Goto("cleanSync") /\ ChangeRoot(r)
      BY <1>7, <2>2 DEF CleanPointerStaging
    <3> HIDE DEF r
    <3>. QED BY <1>2, <1>5, <3>1, <3>2
  <2>3. CASE Inspection = "rollback_current"
    <3> DEFINE r == [root EXCEPT !.cur = root.jc.body, !.jc = NoFile]
    <3>1. r \in Roots /\ r.cur = root.jc.body /\ r.jc = NoFile /\ r.jm = root.jm
      BY <1>1, <1>2, Zenon DEF Roots, Files
    <3>2. Goto("cleanSync") /\ ChangeRoot(r)
      BY <1>7, <2>3 DEF CleanPointerStaging
    <3> HIDE DEF r
    <3>. QED BY <1>2, <1>5, <3>1, <3>2
  <2>4. CASE Inspection = "rollback_absent"
    <3> DEFINE j == [id |-> root.ja, body |-> root.cur]
               r == [root EXCEPT !.cur = None, !.jc = j]
    <3>1. "absent" \in Journals(root)
      BY <2>4 DEF Inspection, InspectPointerJournals, RollsBackAbsent
    <3>2. root.ja # None
      BY <3>1 DEF Journals
    <3>3. j \in Files /\ j.id # None /\ j.body = root.cur
      BY <1>1, <3>2 DEF Roots, Files
    <3>4. Goto("absentSync") /\ ChangeRoot(r)
      BY <1>7, <2>4 DEF CleanPointerStaging
    <3> HIDE DEF j
    <3>5. r \in Roots /\ r.cur = None /\ r.jc = j /\ r.jm = root.jm
      BY <1>1, <3>3, Zenon DEF Roots, Names
    <3> HIDE DEF r
    <3>. QED BY <1>5, <3>3, <3>4, <3>5
  <2>5. CASE Inspection = "discard_pristine"
    <3> DEFINE r == [root EXCEPT !.ja = None]
    <3>1. r \in Roots /\ r.cur = root.cur /\ r.jc = root.jc /\ r.jm = root.jm
      BY <1>1 DEF Roots, Names
    <3>2. Goto("dropCurrent") /\ ChangeRoot(r)
      BY <1>7, <2>5 DEF CleanPointerStaging
    <3> HIDE DEF r
    <3>. QED BY <1>1, <1>5, <3>1, <3>2
  <2>6. CASE Inspection = "cleanup_committed"
    <3> DEFINE r == [root EXCEPT !.jm = NoFile]
    <3>1. r \in Roots /\ r.cur = root.cur /\ r.jc = root.jc /\ r.jm = NoFile
      BY <1>1, <1>2 DEF Roots
    <3>2. Goto("cleanSync") /\ ChangeRoot(r)
      BY <1>7, <2>6 DEF CleanPointerStaging
    <3> HIDE DEF r
    <3>. QED BY <1>1, <1>2, <1>5, <3>1, <3>2
  <2>. QED BY <1>7, <2>1, <2>2, <2>3, <2>4, <2>5, <2>6
           DEF CleanPointerStaging, Inspection, InspectPointerJournals
<1>8. CASE AbsentSync \/ CleanSync
  BY <1>3, <1>4, <1>8, SameRoot DEF AbsentSync, CleanSync, SyncRoot, PointerInv
<1>9. CASE DropAbsent
  <2> DEFINE r == [root EXCEPT !.ja = None]
  <2>1. r \in Roots /\ r.cur = root.cur /\ r.jc = root.jc /\ r.jm = root.jm
    BY <1>1 DEF Roots, Names
  <2>2. Goto("dropCurrent") /\ ChangeRoot(r)
    BY <1>9 DEF DropAbsent
  <2> HIDE DEF r
  <2>. QED BY <1>1, <1>5, <2>1, <2>2
<1>10. CASE DropCurrent
  <2> DEFINE r == [root EXCEPT !.jc = NoFile]
  <2>1. r \in Roots /\ r.cur = root.cur /\ r.jc = NoFile /\ r.jm = root.jm
    BY <1>1, <1>2 DEF Roots
  <2>2. Goto("cleanSync") /\ ChangeRoot(r)
    BY <1>10 DEF DropCurrent
  <2> HIDE DEF r
  <2>. QED BY <1>2, <1>5, <2>1, <2>2
<1>11. CASE Resolve
  <2>1. CASE op' = Idle
    BY <1>11, <2>1, EndProceeds, SameRoot DEF Resolve, KeepFiles, PointerInv
  <2>2. CASE op.kind = "rollback" /\ op' = [op EXCEPT !.pc = "journalCreate", !.had = TRUE]
    <3>1. op' \in Operations /\ op'.pc = "journalCreate" /\ op'.kind = "rollback" /\ op'.gen = op.gen
      BY <1>1, <2>2, Zenon DEF Operations, Pcs
    <3>2. Proceeds
      BY <1>11, <2>2, <3>1
         DEF Resolve, KeepFiles, Proceeds, PointerInv, TargetSealed, Publishing, Sealed, PublishPcs,
             StagedPcs, CollectPcs
    <3>. QED BY <1>11, <3>2, SameRoot DEF Resolve, KeepFiles, PointerInv
  <2>. QED BY <1>11, <2>1, <2>2 DEF Resolve, End
<1>. QED BY <1>6, <1>7, <1>8, <1>9, <1>10, <1>11 DEF CleaningStep

\* A tree is sealed and synced before the pointer transaction begins.
LEMMA PublishKeeps ==
  ASSUME PointerInv, PublishStep
  PROVE  PointerInv'
<1> USE DEF At
<1>1. op \in Operations /\ root \in Roots /\ trees \in TreeMaps
  BY DEF PointerInv, Safe
<1>2. op.pc \in PublishPcs /\ op.kind = "publish"
  BY Zenon DEF PublishStep, PublishPcs, StagedPcs, PointerInv, Publishing, CleanPublicationOrder, CleanOrderSync,
         Validate, StageOrder, ReserveWrite, ReserveRename, ReserveSync, Allocate, OrderWrite,
         OrderRename, OrderSync, Install, InstallSync
<1>3. ASSUME NEW x \in PublishPcs, Goto(x), UNCHANGED <<trees, treeDisk, basis>>,
             x \in StagedPcs => op.pc \in StagedPcs, x # "installSync"
      PROVE  Proceeds
  <2>1. x \in StagedPcs => op.gen \in Ids
    BY <1>3 DEF PointerInv, Publishing
  <2>2. x \in Pcs /\ x \notin CollectPcs /\ x \notin PointerPcs
    BY DEF PublishPcs, StagedPcs, Pcs, CollectPcs, PointerPcs
  <2>. QED BY <1>2, <1>3, <2>1, <2>2, GotoProceeds
<1>4. CASE CleanOrderSync \/ ReserveSync \/ OrderSync
  <2>1. SyncRoot /\ Proceeds
    BY <1>3, <1>4 DEF CleanOrderSync, ReserveSync, OrderSync, SyncRoot, PublishPcs, StagedPcs
  <2>. QED BY <2>1, SameRoot DEF SyncRoot, PointerInv
<1>5. CASE CleanPublicationOrder
  <2>1. CASE root.staged
    <3> DEFINE r == [root EXCEPT !.staged = FALSE]
    <3>1. r \in Roots /\ r.cur = root.cur /\ r.jc = root.jc /\ r.jm = root.jm
      BY <1>1, Zenon DEF Roots
    <3>2. Goto("cleanOrderSync") /\ ChangeRoot(r)
      BY <1>5, <2>1 DEF CleanPublicationOrder
    <3> HIDE DEF r
    <3>. QED BY <1>3, <3>1, <3>2, OrderStep DEF ChangeRoot, PublishPcs, StagedPcs
  <2>2. CASE ~root.staged
    BY <1>3, <1>5, <2>2, SameRoot
       DEF CleanPublicationOrder, KeepFiles, PublishPcs, StagedPcs, PointerInv
  <2>. QED BY <2>1, <2>2
<1>6. CASE Validate
  <2>1. \/ op' = Idle
        \/ \E had \in BOOLEAN : op' = [op EXCEPT !.pc = "reserveWrite", !.had = had]
    BY <1>6, Zenon DEF Validate, End
  <2>2. ASSUME NEW had \in BOOLEAN, op' = [op EXCEPT !.pc = "reserveWrite", !.had = had]
        PROVE  Proceeds
    <3>1. op' \in Operations /\ op'.pc = "reserveWrite" /\ op'.kind = "publish"
      BY <1>1, <1>2, <2>2, Zenon DEF Operations, Pcs
    <3>. QED BY <3>1 DEF Proceeds, TargetSealed, Publishing, PointerPcs, StagedPcs, CollectPcs
  <2>. QED BY <1>6, <2>1, <2>2, EndProceeds, SameRoot, Zenon DEF Validate, KeepFiles, PointerInv
<1>7. CASE ReserveWrite \/ OrderWrite
  <2> DEFINE r == [root EXCEPT !.staged = TRUE]
  <2>1. r \in Roots /\ r.cur = root.cur /\ r.jc = root.jc /\ r.jm = root.jm
    BY <1>1, Zenon DEF Roots
  <2>2. ChangeRoot(r) /\ (Goto("reserveRename") \/ (op.pc = "orderWrite" /\ Goto("orderRename")))
    BY <1>7 DEF ReserveWrite, OrderWrite, StageOrder
  <2> HIDE DEF r
  <2>. QED BY <1>3, <2>1, <2>2, OrderStep DEF ChangeRoot, PublishPcs, StagedPcs
<1>8. CASE ReserveRename
  <2> DEFINE n == root.next + 1
             r == [root EXCEPT !.staged = FALSE, !.next = n]
  <2>0. n \in Nat \ {0}
    BY <1>1 DEF Roots
  <2> HIDE DEF n
  <2>1. r \in Roots /\ r.cur = root.cur /\ r.jc = root.jc /\ r.jm = root.jm
    BY <1>1, <2>0, Zenon DEF Roots
  <2>2. ChangeRoot(r) /\ Goto("reserveSync")
    BY <1>8 DEF ReserveRename, n
  <2> HIDE DEF r
  <2>. QED BY <1>3, <2>1, <2>2, OrderStep DEF ChangeRoot, PublishPcs, StagedPcs
<1>9. CASE OrderRename
  <2> DEFINE r == [root EXCEPT !.staged = FALSE, !.seq[op.gen] = root.next - 1]
  <2>1. root.next - 1 \in Nat /\ root.seq \in [Ids -> Nat]
    BY <1>1 DEF Roots
  <2>2. [root.seq EXCEPT ![op.gen] = root.next - 1] \in [Ids -> Nat]
    BY <2>1, Zenon
  <2>3. r \in Roots /\ r.cur = root.cur /\ r.jc = root.jc /\ r.jm = root.jm
    BY <1>1, <2>2, Zenon DEF Roots
  <2>4. ChangeRoot(r) /\ Goto("orderSync") /\ op.pc = "orderRename"
    BY <1>9 DEF OrderRename
  <2> HIDE DEF r
  <2>. QED BY <1>3, <2>3, <2>4, OrderStep DEF ChangeRoot, PublishPcs, StagedPcs
<1>10. ASSUME NEW g \in Ids, Allocate(g) PROVE PointerInv'
  <2> DEFINE t == [trees EXCEPT ![g] = "staging"]
  <2>1. t \in TreeMaps /\ \A h \in Ids : trees[h] = "sealed" => t[h] = "sealed"
    BY <1>1, <1>10 DEF Allocate, TreeMaps
  <2>2. trees' = t /\ treeDisk' = treeDisk \cup {t} /\ UNCHANGED <<root, disk, basis>>
    BY <1>10 DEF Allocate, ChangeTrees
  <2> HIDE DEF t
  <2>3. op' \in Operations /\ op'.pc = "orderWrite" /\ op'.kind = "publish" /\ op'.gen = g
    BY <1>1, <1>2, <1>10, Zenon DEF Allocate, Operations, Pcs
  <2>4. Proceeds
    BY <2>3 DEF Proceeds, TargetSealed, Publishing, PointerPcs, StagedPcs, CollectPcs
  <2>. QED BY <2>1, <2>2, <2>4, SealedStaySealed
<1>11. CASE Install
  <2> DEFINE t == [trees EXCEPT ![op.gen] = "sealed"]
  <2>1. op.gen \in Ids
    BY <1>11 DEF Install, PointerInv, Publishing, StagedPcs
  <2>2. /\ t \in TreeMaps /\ t[op.gen] = "sealed"
        /\ \A h \in Ids : trees[h] = "sealed" => t[h] = "sealed"
    BY <1>1, <2>1 DEF TreeMaps
  <2>3. trees' = t /\ treeDisk' = treeDisk \cup {t} /\ UNCHANGED <<root, disk, basis>>
    BY <1>11 DEF Install, ChangeTrees
  <2> HIDE DEF t
  <2>4. op' \in Operations /\ op'.pc = "installSync" /\ op'.kind = "publish" /\ op'.gen = op.gen
    BY <1>1, <1>2, <1>11 DEF Install, Goto, Operations, Pcs
  <2>5. Proceeds
    BY <2>1, <2>2, <2>3, <2>4 DEF Proceeds, TargetSealed, Publishing, Sealed, PointerPcs, StagedPcs, CollectPcs
  <2>. QED BY <2>2, <2>3, <2>5, SealedStaySealed
<1>12. CASE InstallSync
  <2>1. Sealed(trees, op.gen)
    BY <1>12 DEF InstallSync, PointerInv, Publishing
  <2>2. treeDisk' = {trees} /\ UNCHANGED <<root, disk, trees, basis>>
    BY <1>12 DEF InstallSync, SyncTrees
  <2>3. op' \in Operations /\ op'.pc = "journalCreate" /\ op'.kind = "publish" /\ op'.gen = op.gen
    BY <1>1, <1>2, <1>12 DEF InstallSync, Goto, Operations, Pcs
  <2>4. Proceeds
    BY <2>1, <2>2, <2>3 DEF Proceeds, TargetSealed, Publishing, Sealed, PublishPcs, StagedPcs, CollectPcs
  <2>. QED BY <1>1, <2>2, <2>4, SealedStaySealed
<1>. QED BY <1>4, <1>5, <1>6, <1>7, <1>8, <1>9, <1>10, <1>11, <1>12 DEF PublishStep

\* What is collected is named neither by current nor by a journal.
LEMMA CollectibleIsUnnamed ==
  ASSUME PointerInv, NEW g \in Collectible(root, trees, LiveGenerations)
  PROVE  g \notin Referenced(root)
<1>1. g \in Ids /\ g # root.cur /\ g # root.jm.body
  BY DEF Collectible, CollectCandidates
<1>2. Inspection \in {"clean", "cleanup_committed"}
  BY DEF Collectible, Inspection
<1>3. Journals(root) = {} \/ Journals(root) = {"committed"}
  BY <1>2 DEF Inspection, InspectPointerJournals, CleansCommitted
<1>4. root.jc.id = None
  BY <1>3 DEF Journals
<1>5. root.jc.body = None
  BY <1>4 DEF PointerInv, Safe
<1>. QED BY <1>1, <1>5, NamesAreDistinct DEF Referenced

\* The collector removes only trees that nothing on disk names.
LEMMA CollectKeepsNamed ==
  ASSUME PointerInv, CollectStep
  PROVE  PointerInv'
<1> USE DEF At
<1>1. op \in Operations /\ trees \in TreeMaps
  BY DEF PointerInv
<1>2. op.pc \in CollectPcs
  BY Zenon DEF CollectStep, CollectPcs, ReclaimLease, ChooseVictims, BreakTree, RemoveTree, GcSync, GcEnd
<1>3. /\ op.kind = "gc" /\ (basis = "synced" => disk = {root})
      /\ \A g \in op.victims : g \notin Referenced(root)
      /\ op.pc = "gcRemove" => op.gen \notin Referenced(root)
  BY <1>2 DEF PointerInv, Collecting
<1>4. ASSUME NEW V \in SUBSET Ids, \A g \in V : g \notin Referenced(root), op' \in Operations, op'.kind = "gc",
             op'.pc \in CollectPcs, op'.victims = V, op'.pc = "gcRemove" => op'.gen \notin Referenced(root),
             UNCHANGED <<root, disk, basis>>, trees' \in treeDisk', treeDisk' \subseteq TreeMaps,
             basis = "synced" => \A t \in treeDisk' : t \in treeDisk \/
               \A g \in Referenced(root) : t[g] = trees[g]
      PROVE  PointerInv'
  <2>1. ASSUME NEW r \in disk' PROVE Safe(r)'
    BY <1>3, <1>4, <2>1 DEF PointerInv, Safe, Sealed
  <2>2. TargetSealed' /\ Publishing'
    BY <1>4 DEF TargetSealed, Publishing, CollectPcs, PointerPcs, PublishPcs, StagedPcs
  <2>3. Collecting'
    BY <1>3, <1>4 DEF Collecting
  <2>. QED BY <1>3, <1>4, <2>1, <2>2, <2>3 DEF PointerInv
<1>5. ASSUME NEW l \in leases, ReclaimLease(l) PROVE PointerInv'
  <2>1. UNCHANGED <<root, disk, trees, treeDisk, op, basis>>
    BY <1>5 DEF ReclaimLease, files
  <2>. QED BY <2>1 DEF PointerInv, Safe, TargetSealed, Publishing, Collecting, Sealed
<1>6. CASE ChooseVictims
  <2> DEFINE V == Collectible(root, trees, LiveGenerations)
  <2>1. V \in SUBSET Ids /\ \A g \in V : g \notin Referenced(root)
    BY CollectibleAreIds, CollectibleIsUnnamed
  <2>2. op' = [op EXCEPT !.pc = "gcTrees", !.victims = V] /\ UNCHANGED <<root, disk, trees, treeDisk, basis>>
    BY <1>6 DEF ChooseVictims, KeepFiles
  <2> HIDE DEF V
  <2>3. op' \in Operations /\ op'.kind = "gc" /\ op'.pc = "gcTrees" /\ op'.victims = V
    BY <1>1, <1>3, <2>1, <2>2, Zenon DEF Operations, Pcs
  <2>. QED BY <1>4, <2>1, <2>2, <2>3 DEF CollectPcs, PointerInv
<1>7. ASSUME NEW g \in op.victims, BreakTree(g) PROVE PointerInv'
  <2> DEFINE t == [trees EXCEPT ![g] = "broken"]
  <2>1. g \in Ids /\ op.victims \ {g} \in SUBSET Ids
    BY <1>1 DEF Operations
  <2>2. t \in TreeMaps /\ (basis = "synced" => \A h \in Referenced(root) : t[h] = trees[h])
    <3>1. ASSUME NEW h \in Referenced(root), basis = "synced" PROVE h \in Ids /\ h # g
      BY <1>3, <3>1 DEF PointerInv, Safe, Sealed
    <3>. QED BY <1>1, <2>1, <3>1 DEF TreeMaps
  <2>3. trees' = t /\ treeDisk' = treeDisk \cup {t} /\ UNCHANGED <<root, disk, basis>>
    BY <1>7 DEF BreakTree, ChangeTrees
  <2> HIDE DEF t
  <2>4. /\ op' \in Operations /\ op'.kind = "gc" /\ op'.pc = "gcRemove" /\ op'.gen = g
        /\ op'.victims = op.victims \ {g}
    BY <1>1, <1>3, <1>7, <2>1, Zenon DEF BreakTree, Operations, Pcs
  <2>. QED BY <1>3, <1>4, <2>1, <2>2, <2>3, <2>4 DEF CollectPcs, PointerInv
<1>8. CASE RemoveTree
  <2> DEFINE t == [trees EXCEPT ![op.gen] = "none"]
  <2>1. op.gen \notin Referenced(root) /\ op.victims \in SUBSET Ids
    BY <1>1, <1>3, <1>8 DEF RemoveTree, Operations
  <2>2. t \in TreeMaps /\ (basis = "synced" => \A h \in Referenced(root) : t[h] = trees[h])
    <3>1. ASSUME NEW h \in Referenced(root), basis = "synced" PROVE h \in Ids /\ h # op.gen
      BY <2>1, <3>1 DEF PointerInv, Safe, Sealed
    <3>. QED BY <1>1, <3>1, Zenon DEF TreeMaps
  <2>3. trees' = t /\ treeDisk' = treeDisk \cup {t} /\ UNCHANGED <<root, disk, basis>>
    BY <1>8 DEF RemoveTree, ChangeTrees
  <2> HIDE DEF t
  <2>4. /\ op' \in Operations /\ op'.kind = "gc" /\ op'.pc = "gcSync" /\ op'.victims = op.victims
    BY <1>1, <1>3, <1>8 DEF RemoveTree, Goto, Operations, Pcs
  <2>. QED BY <1>3, <1>4, <2>1, <2>2, <2>3, <2>4 DEF CollectPcs, PointerInv
<1>9. CASE GcSync
  <2>1. treeDisk' = {trees} /\ UNCHANGED <<root, disk, trees, basis>>
    BY <1>9 DEF GcSync, SyncTrees
  <2>2. op' \in Operations /\ op'.kind = "gc" /\ op'.pc = "gcTrees" /\ op'.victims = op.victims
    BY <1>1, <1>3, <1>9, SMTT(30) DEF GcSync, Goto, Operations, Pcs
  <2>. QED BY <1>1, <1>3, <1>4, <2>1, <2>2 DEF CollectPcs, PointerInv, Operations
<1>10. CASE GcEnd
  BY <1>10, EndProceeds, SameRoot DEF GcEnd, End, KeepFiles, PointerInv
<1>. QED BY <1>5, <1>6, <1>7, <1>8, <1>9, <1>10 DEF CollectStep

\* What an operation begins on stays as it is.
LEMMA BeginKeepsNamed ==
  ASSUME PointerInv, BeginStep
  PROVE  PointerInv'
<1>1. op \in Operations /\ root \in Roots /\ trees \in TreeMaps /\ Safe(root)
  BY DEF PointerInv, Safe
<1>2. ASSUME NEW kind \in Kinds, NEW pc \in Pcs, NEW g \in Ids \cup {None}, Begin(kind, pc, g),
             pc \notin PointerPcs, pc \notin PublishPcs, kind = "rollback" => Sealed(trees, g),
             pc \in CollectPcs => kind = "gc" /\ pc # "gcRemove"
      PROVE  PointerInv'
  <2>1. op' \in Operations /\ op'.kind = kind /\ op'.pc = pc /\ op'.gen = g /\ op'.victims = {}
    BY <1>2, IdleIsIdle, Zenon DEF Begin, Idle, Operations
  <2>2. /\ UNCHANGED <<root, disk, trees, treeDisk>>
        /\ basis' = "synced" => basis = "synced" /\ ~Overtakes(kind)
    BY <1>2 DEF Begin, files
  <2>3. TargetSealed' /\ Publishing'
    BY <1>2, <2>1, <2>2 DEF TargetSealed, Publishing, Sealed, PublishPcs, StagedPcs, Overtakes
  <2>4. Collecting'
    BY <1>2, <2>1, <2>2 DEF Collecting, Overtakes
  <2>5. ASSUME NEW r \in disk' PROVE Safe(r)'
    BY <2>2, <2>5 DEF PointerInv, Safe, Sealed
  <2>. QED BY <2>1, <2>2, <2>3, <2>4, <2>5 DEF PointerInv
<1>3. CASE OpenStore \/ Publish \/ Recover \/ GarbageCollect
  BY <1>2, <1>3 DEF OpenStore, Publish, Recover, GarbageCollect, Kinds, Pcs, PointerPcs, PublishPcs, StagedPcs, CollectPcs
<1>4. CASE \E g \in Ids : Rollback(g)
  BY <1>2, <1>4 DEF Rollback, Kinds, Pcs, PointerPcs, PublishPcs, StagedPcs, CollectPcs
<1>5. CASE OpenCreate \/ OpenWrite
  <2>1. PICK o \in {"torn", "written"}, x \in {"openWrite", "openSync"} :
          ChangeRoot([root EXCEPT !.order = o]) /\ Goto(x)
    BY <1>5 DEF OpenCreate, OpenWrite
  <2> DEFINE r == [root EXCEPT !.order = o]
  <2>2. r \in Roots /\ r.cur = root.cur /\ r.jc = root.jc /\ r.jm = root.jm
    BY <1>1 DEF Roots
  <2>3. ChangeRoot(r)
    BY <2>1
  <2> HIDE DEF r
  <2>4. Proceeds
    BY <2>1, <2>3, GotoProceeds DEF ChangeRoot, Pcs, PointerPcs, PublishPcs, StagedPcs, CollectPcs
  <2>. QED BY <2>2, <2>3, <2>4, OrderStep
<1>6. CASE OpenSync
  BY <1>6, EndProceeds, SameRoot DEF OpenSync, End, SyncRoot, PointerInv
<1>7. CASE EnsureCurrent
  <2>1. KeepFiles /\ (op' = Idle \/ op' = [Idle EXCEPT !.kind = "publish", !.pc = "reserveWrite"])
    BY <1>7 DEF EnsureCurrent, End
  <2>2. Proceeds
    <3>1. op' = Idle => Proceeds
      BY EndProceeds
    <3>2. CASE op' = [Idle EXCEPT !.kind = "publish", !.pc = "reserveWrite"]
      <4>1. op' \in Operations /\ op'.pc = "reserveWrite" /\ op'.kind = "publish"
        BY <3>2, IdleIsIdle, Zenon DEF Idle, Operations, Kinds, Pcs
      <4>. QED BY <4>1 DEF Proceeds, TargetSealed, Publishing, PointerPcs, StagedPcs, CollectPcs
    <3>. QED BY <2>1, <3>1, <3>2
  <2>. QED BY <2>1, <2>2, SameRoot DEF KeepFiles, PointerInv
<1>. QED BY <1>3, <1>4, <1>5, <1>6, <1>7 DEF BeginStep

\* Readers, processes and faults leave root and trees alone, or crash to what is durable.
LEMMA RestKeepsNamed ==
  ASSUME PointerInv, ReaderStep \/ ProcessStep \/ FaultStep \/ UNCHANGED vars
  PROVE  PointerInv'
<1>1. CASE ReaderStep \/ ProcessStep \/ SelectFails \/ UNCHANGED vars
  <2>1. UNCHANGED <<root, disk, trees, treeDisk, op, basis>>
    BY <1>1, Zenon DEF ReaderStep, OpenReader, DiffCurrent, ProcessStep, SelectCurrent, Release, Die, SelectFails,
                Fault, files, vars
  <2>. QED BY <2>1 DEF PointerInv, Safe, TargetSealed, Publishing, Collecting, Sealed
<1>2. CASE CallFails \/ Crash
  BY <1>2, EndProceeds, SameRoot DEF CallFails, Crash, Fault, End, files, PointerInv
<1>3. CASE CommitSyncFails
  <2>1. UNCHANGED <<root, disk, trees, treeDisk, basis>> /\ op.pc = "commitSync" /\ Goto("undo")
    BY <1>3 DEF CommitSyncFails, Fault, At, files
  <2>2. Proceeds
    BY <2>1, GotoProceeds DEF Pcs, PointerPcs, PublishPcs, StagedPcs, CollectPcs
  <2>. QED BY <2>1, <2>2, SameRoot DEF PointerInv
<1>4. CASE PowerLoss
  <2> PICK r \in disk, t \in treeDisk : root' = r /\ disk' = {r} /\ trees' = t /\ treeDisk' = {t}
    BY <1>4 DEF PowerLoss
  <2>1. UNCHANGED basis
    BY <1>4 DEF PowerLoss, Fault
  <2>2. Proceeds
    BY <1>4, EndProceeds DEF PowerLoss
  <2>3. Safe(r)'
    BY <2>1 DEF PointerInv, Safe, Sealed
  <2>. QED BY <2>2, <2>3 DEF PointerInv, Proceeds, Collecting
<1>. QED BY <1>1, <1>2, <1>3, <1>4 DEF FaultStep

\* The empty store.
LEMMA PointerInit == Init => PointerInv
<1> SUFFICES ASSUME Init PROVE PointerInv
  OBVIOUS
<1>1. EmptyRoot \in Roots /\ EmptyRoot.jc = NoFile /\ Referenced(EmptyRoot) = {}
  BY DEF EmptyRoot, Roots, Files, Names, NoFile, Referenced
<1>2. trees \in TreeMaps /\ root = EmptyRoot /\ disk = {EmptyRoot} /\ treeDisk = {trees} /\ op = Idle
  BY DEF Init, TreeMaps
<1>3. Safe(EmptyRoot)
  BY <1>1 DEF Safe, NoFile
<1>. QED BY <1>2, <1>3, IdleIsIdle
         DEF PointerInv, TargetSealed, Publishing, Collecting, Idle, PointerPcs, PublishPcs, StagedPcs,
             CollectPcs

\* Every step keeps it.
LEMMA PointerNext ==
  ASSUME PointerInv, [Next]_vars
  PROVE  PointerInv'
BY BeginKeepsNamed, CleaningKeeps, PublishKeeps, PointerKeeps, CollectKeepsNamed, RestKeepsNamed DEF Next

\* publish, rollback, recover and garbage_collect: at every instant, whatever a
\* power loss would leave of the two directories, `current` and the journals
\* name complete trees only, unless a rollback or a collection began on changes
\* that were not synced.
THEOREM PointersAlwaysNameSealedTrees == Spec => []PointersNameSealedTrees
<1>1. PointerInv /\ [Next]_vars => PointerInv'
  BY PointerNext
<1>2. PointerInv => PointersNameSealedTrees
  BY DEF PointerInv, Safe, PointersNameSealedTrees
<1>. QED BY <1>1, <1>2, PointerInit, PTL DEF Spec

-----------------------------------------------------------------------------
(* The pointer transaction: what the root holds at every step of it, and   *)
(* what a power loss may leave of it.                                      *)

\* What a root says of the pointer.
Pointer(r) == [cur |-> r.cur, jc |-> r.jc, ja |-> r.ja, jm |-> r.jm]
File(g, b) == [id |-> g, body |-> b]

\* No transaction; and one from c to g: its journal created or written, ready to
\* commit, `current` exchanged, the exchange settled.
Clean(c) == [cur |-> c, jc |-> NoFile, ja |-> None, jm |-> NoFile]
Prepared(c, g, b) == [cur |-> c, jc |-> File(g, b), ja |-> None, jm |-> NoFile]
Journalled(c, g) ==
  [cur |-> c, jc |-> File(g, g), ja |-> IF c = None THEN g ELSE None, jm |-> NoFile]
Exchanged(c, g) ==
  [cur |-> g, jc |-> IF c = None THEN NoFile ELSE File(g, c), ja |-> IF c = None THEN g ELSE None,
   jm |-> NoFile]
Settled(c, g) == [cur |-> g, jc |-> NoFile, ja |-> None, jm |-> File(g, c)]

Known(p) ==
  \/ \E c \in Ids \cup {None} : p = Clean(c)
  \/ \E c \in Ids \cup {None}, g \in Ids :
       /\ c # g
       /\ p \in {Prepared(c, g, Torn), Prepared(c, g, g), Journalled(c, g), Exchanged(c, g), Settled(c, g)}

\* The root is p, and a power loss leaves one of S.
Stands(p, S) == Pointer(root) = p /\ \A r \in disk : Pointer(r) \in S

\* The transaction from c to g at its steps.  Until its journal is synced, a power
\* loss may also leave what an earlier operation did not sync.
Transaction(c, g) ==
  /\ g \in Ids /\ c # g /\ op.had = (c # None)
  /\ \/ op.pc = "journalCreate" /\ Pointer(root) = Clean(c)
     \/ op.pc = "journalWrite" /\ Pointer(root) = Prepared(c, g, Torn)
     \/ op.pc = "absentCreate" /\ c = None /\ Pointer(root) = Prepared(c, g, g)
     \/ op.pc = "journalSync" /\ Pointer(root) = Journalled(c, g)
     \/ op.pc = "commit" /\ Stands(Journalled(c, g), {Journalled(c, g)})
     \/ op.pc \in {"commitSync", "undo"} /\ Stands(Exchanged(c, g), {Journalled(c, g), Exchanged(c, g)})
     \/ op.pc = "settle" /\ Stands(Exchanged(c, g), {Exchanged(c, g)})
     \/ op.pc = "settleSync" /\ Stands(Settled(c, g), {Exchanged(c, g), Settled(c, g)})
     \/ op.pc = "cleanup" /\ Stands(Settled(c, g), {Settled(c, g)})
     \/ op.pc = "cleanupSync" /\ Stands(Clean(g), {Settled(c, g), Clean(g)})
     \/ /\ op.pc = "undoAbsent" /\ c = None
        /\ Stands(Journalled(c, g), {Journalled(c, g), Exchanged(c, g)})
     \/ /\ op.pc = "undoSync"
        /\ Stands(Prepared(c, g, g), {Journalled(c, g), Exchanged(c, g), Prepared(c, g, g)})

\* The cleaning of what an earlier transaction left, and the steps after it.
ReadyPcs == PublishPcs \cup {"resolve"}
ReservePcs == {"reserveWrite", "reserveRename", "reserveSync", "allocate"}
SizedPcs == ReservePcs \cup StagedPcs
Cleaning ==
  /\ op.pc \in {"absentSync", "dropAbsent"} => \E g \in Ids : Pointer(root) = Journalled(None, g)
  /\ op.pc = "dropCurrent" => \E g \in Ids : Pointer(root) = Prepared(None, g, g)
  /\ op.pc \in ReadyPcs \cup {"cleanSync"} => Pointer(root) = Clean(root.cur)
  /\ op.pc \in ReservePcs => (root.cur # None => Sealed(trees, root.cur))
  /\ op.pc \in SizedPcs => op.had = (root.cur # None)
  /\ op.pc \in StagedPcs => op.gen # root.cur

ProtocolInv ==
  /\ \A r \in disk : Known(Pointer(r))
  /\ op.pc # "idle" => reply.result = "none"
  /\ op.pc = "idle" => op = Idle
  /\ op.pc \in PointerPcs =>
       op.kind \in {"publish", "rollback"} /\ \E c \in Ids \cup {None} : Transaction(c, op.gen)
  /\ op.pc \in {"absentSync", "dropAbsent", "dropCurrent", "cleanSync", "cleanPointer", "cleanStaging"} =>
       op.kind \in {"publish", "recover", "rollback"}
  /\ op.pc = "resolve" => op.kind \in {"recover", "rollback"}
  /\ Cleaning

\* Recovery looks at the pointer only, and finds c until the transaction is
\* settled, g from then on.
LEMMA RecoveredAt ==
  /\ \A r : Recovered(r) = Recovered(Pointer(r))
  /\ \A c \in Ids \cup {None} : Recovered(Clean(c)) = c
  /\ \A c \in Ids \cup {None}, g \in Ids : c # g =>
       /\ Recovered(Prepared(c, g, Torn)) = c /\ Recovered(Prepared(c, g, g)) = c
       /\ Recovered(Journalled(c, g)) = c /\ Recovered(Exchanged(c, g)) = c
       /\ Recovered(Settled(c, g)) = g
<1>1. ASSUME NEW r PROVE Recovered(r) = Recovered(Pointer(r))
  BY DEF Recovered, Pointer
<1>2. ASSUME NEW c \in Ids \cup {None} PROVE Recovered(Clean(c)) = c
  BY DEF Recovered, Clean, NoFile
<1>3. ASSUME NEW c \in Ids \cup {None}, NEW g \in Ids, c # g
      PROVE  /\ Recovered(Prepared(c, g, Torn)) = c /\ Recovered(Prepared(c, g, g)) = c
             /\ Recovered(Journalled(c, g)) = c /\ Recovered(Exchanged(c, g)) = c
             /\ Recovered(Settled(c, g)) = g
  <2>1. None # g /\ Torn # g /\ Torn # c
    BY NamesAreDistinct
  <2>2. Recovered(Prepared(c, g, Torn)) = c /\ Recovered(Prepared(c, g, g)) = c
    BY <1>3, <2>1 DEF Recovered, Prepared, File
  <2>3. Recovered(Journalled(c, g)) = c
    BY <1>3, <2>1 DEF Recovered, Journalled, File
  <2>4. Recovered(Exchanged(c, g)) = c
    BY <1>3, <2>1 DEF Recovered, Exchanged, File, NoFile
  <2>5. Recovered(Settled(c, g)) = g
    BY <1>3, <2>1 DEF Recovered, Settled, NoFile
  <2>. QED BY <2>2, <2>3, <2>4, <2>5
<1>. QED BY <1>1, <1>2, <1>3

\* Every stage of a transaction is one that recovery knows.
LEMMA StagesAreKnown ==
  ASSUME NEW c \in Ids \cup {None}, NEW g \in Ids, c # g
  PROVE  /\ Known(Clean(c)) /\ Known(Clean(g)) /\ Known(Prepared(c, g, Torn)) /\ Known(Prepared(c, g, g))
         /\ Known(Journalled(c, g)) /\ Known(Exchanged(c, g)) /\ Known(Settled(c, g))
BY Zenon DEF Known

\* A power loss leaves what it could leave before, or the root.
LEMMA KnownStays ==
  ASSUME ProtocolInv, disk' \subseteq disk \cup {root'}, Known(Pointer(root'))
  PROVE  \A r \in disk' : Known(Pointer(r))
BY Zenon DEF ProtocolInv

\* What Pointer reads.
LEMMA PointerFields ==
  ASSUME NEW r, NEW p, Pointer(r) = p
  PROVE  r.cur = p.cur /\ r.jc = p.jc /\ r.ja = p.ja /\ r.jm = p.jm
BY DEF Pointer

\* What the root holds, by its shape: no transaction.
LEMMA CleanShape ==
  ASSUME NEW r, NEW c, Pointer(r) = Clean(c)
  PROVE  /\ r.cur = c /\ r.jc = NoFile /\ r.jc.id = None /\ r.jc.body = None
         /\ r.ja = None /\ r.jm = NoFile /\ r.jm.id = None
BY DEF Pointer, Clean, NoFile

\* Its journal created (b = Torn) or written.
LEMMA PreparedShape ==
  ASSUME NEW r, NEW c, NEW g, NEW b, Pointer(r) = Prepared(c, g, b)
  PROVE  /\ r.cur = c /\ r.jc = File(g, b) /\ r.jc.id = g /\ r.jc.body = b
         /\ r.ja = None /\ r.jm = NoFile /\ r.jm.id = None
BY DEF Pointer, Prepared, File, NoFile

\* Ready to commit.
LEMMA JournalledShape ==
  ASSUME NEW r, NEW c, NEW g, Pointer(r) = Journalled(c, g)
  PROVE  /\ r.cur = c /\ r.jc = File(g, g) /\ r.jc.id = g /\ r.jc.body = g
         /\ r.ja = (IF c = None THEN g ELSE None) /\ r.jm = NoFile /\ r.jm.id = None
BY DEF Pointer, Journalled, File, NoFile

\* `current` exchanged.
LEMMA ExchangedShape ==
  ASSUME NEW r, NEW c, NEW g, Pointer(r) = Exchanged(c, g)
  PROVE  /\ r.cur = g /\ r.jc.id = (IF c = None THEN None ELSE g) /\ r.jc.body = c
         /\ r.ja = (IF c = None THEN g ELSE None) /\ r.jm = NoFile /\ r.jm.id = None
BY DEF Pointer, Exchanged, File, NoFile

\* The exchange settled.
LEMMA SettledShape ==
  ASSUME NEW r, NEW c, NEW g, Pointer(r) = Settled(c, g)
  PROVE  /\ r.cur = g /\ r.jc = NoFile /\ r.jc.id = None /\ r.ja = None
         /\ r.jm = File(g, c) /\ r.jm.id = g /\ r.jm.body = c
BY SMTT(30) DEF Pointer, Settled, File, NoFile

\* Every step of the pointer transaction goes on to the next stage of the same
\* transaction, or ends the operation.
LEMMA TransactionProceeds ==
  ASSUME PointerInv, PointerStep, NEW c \in Ids \cup {None}, NEW g \in Ids, op.gen = g, Transaction(c, g)
  PROVE  \/ /\ op' \in Operations /\ op'.pc \in PointerPcs /\ op'.gen = g /\ op'.kind = op.kind
            /\ op'.had = op.had /\ Transaction(c, g)' /\ reply' = reply
         \/ /\ op.pc = "cleanupSync" /\ op' = Idle /\ reply'.result = "committed" /\ SyncRoot
         \/ /\ op.pc = "undoSync" /\ op' = Idle /\ reply'.result = "not_committed" /\ SyncRoot
<1> USE DEF At
<1>1. op \in Operations /\ root \in Roots /\ g # None /\ c # g /\ op.had = (c # None)
  BY RootIsRoot, NamesAreDistinct DEF PointerInv, Transaction
<1>2. ASSUME NEW x \in PointerPcs, Goto(x)
      PROVE  /\ op' \in Operations /\ op'.pc = x /\ op'.pc \in PointerPcs /\ op'.gen = g /\ op'.kind = op.kind
             /\ op'.had = op.had /\ reply' = reply
  <2>1. x \in Pcs
    BY DEF PointerPcs, Pcs
  <2>. QED BY <1>1, <1>2, <2>1 DEF Goto, Operations
<1>3. ASSUME SyncRoot PROVE Pointer(root') = Pointer(root) /\ \A r \in disk' : Pointer(r) = Pointer(root)
  BY <1>3 DEF SyncRoot
<1>4. CASE JournalCreate
  <2>1. Pointer(root) = Clean(c)
    BY <1>4 DEF JournalCreate, Transaction
  <2>2. /\ root' = [root EXCEPT !.jc = [id |-> g, body |-> Torn]] /\ disk' = disk \cup {root'}
        /\ Goto("journalWrite")
    BY <1>4 DEF JournalCreate, ChangeRoot
  <2>3. Pointer(root') = Prepared(c, g, Torn)
    BY <1>1, <2>1, <2>2, PointerFields DEF Pointer, Clean, Prepared, File, Roots
  <2>4. "journalWrite" \in PointerPcs
    BY DEF PointerPcs
  <2>. QED BY <1>1, <1>2, <2>2, <2>3, <2>4 DEF Transaction
<1>5. CASE JournalWrite
  <2>1. Pointer(root) = Prepared(c, g, Torn)
    BY <1>5 DEF JournalWrite, Transaction
  <2>2. /\ root' = [root EXCEPT !.jc = [id |-> g, body |-> g]] /\ disk' = disk \cup {root'}
        /\ Goto(IF c # None THEN "journalSync" ELSE "absentCreate")
    BY <1>1, <1>5, Zenon DEF JournalWrite, ChangeRoot
  <2>3. Pointer(root') = Prepared(c, g, g)
    BY <1>1, <2>1, <2>2, PointerFields DEF Pointer, Prepared, File, Roots
  <2>4. c # None => Prepared(c, g, g) = Journalled(c, g)
    BY DEF Prepared, Journalled
  <2>5. "journalSync" \in PointerPcs /\ "absentCreate" \in PointerPcs
    BY DEF PointerPcs
  <2>6. CASE c # None
    BY <1>1, <1>2, <2>2, <2>3, <2>4, <2>5, <2>6, SMTT(30) DEF Transaction
  <2>7. CASE c = None
    BY <1>1, <1>2, <2>2, <2>3, <2>5, <2>7, SMTT(30) DEF Transaction
  <2>. QED BY <2>6, <2>7
<1>6. CASE AbsentCreate
  <2>1. c = None /\ Pointer(root) = Prepared(c, g, g)
    BY <1>6 DEF AbsentCreate, Transaction
  <2>2. /\ root' = [root EXCEPT !.ja = g] /\ disk' = disk \cup {root'} /\ Goto("journalSync")
    BY <1>6 DEF AbsentCreate, ChangeRoot
  <2>3. Pointer(root') = Journalled(c, g)
    BY <1>1, <2>1, <2>2, PointerFields DEF Pointer, Prepared, Journalled, Roots
  <2>4. "journalSync" \in PointerPcs
    BY Zenon DEF PointerPcs
  <2>. QED BY <1>1, <1>2, <2>2, <2>3, <2>4 DEF Transaction
<1>7. CASE JournalSync
  <2>1. Pointer(root) = Journalled(c, g) /\ SyncRoot /\ Goto("commit")
    BY <1>7 DEF JournalSync, Transaction
  <2>2. Stands(Journalled(c, g), {Journalled(c, g)})'
    BY <1>3, <2>1 DEF Stands
  <2>3. "commit" \in PointerPcs
    BY DEF PointerPcs
  <2>. QED BY <1>1, <1>2, <2>1, <2>2, <2>3, ZenonT(30) DEF Transaction
<1>8. CASE CommitPointer
  <2> DEFINE j == IF op.had THEN [id |-> g, body |-> root.cur] ELSE NoFile
  <2>1. Pointer(root) = Journalled(c, g) /\ \A r \in disk : Pointer(r) \in {Journalled(c, g)}
    BY <1>8 DEF CommitPointer, Transaction, Stands
  <2>2. /\ root' = [root EXCEPT !.cur = root.jc.body, !.jc = j] /\ disk' = disk \cup {root'}
        /\ Goto("commitSync")
    BY <1>8, Zenon DEF CommitPointer, ChangeRoot
  <2> HIDE DEF j
  <2>3. root.cur = c /\ root.jc.body = g /\ root.ja = (IF c = None THEN g ELSE None) /\ root.jm = NoFile
    BY <2>1, JournalledShape, ExchangedShape
  <2>4. j = IF c = None THEN NoFile ELSE File(g, c)
    BY <1>1, <2>3, Zenon DEF File, j
  <2>5. Pointer(root') = Exchanged(c, g)
    BY <1>1, <2>2, <2>3, <2>4 DEF Pointer, Exchanged, Roots
  <2>6. Stands(Exchanged(c, g), {Journalled(c, g), Exchanged(c, g)})'
    BY <2>1, <2>2, <2>5 DEF Stands
  <2>7. "commitSync" \in PointerPcs
    BY SMTT(30) DEF PointerPcs
  <2>. QED BY <1>1, <1>2, <2>2, <2>6, <2>7 DEF Transaction
<1>9. CASE CommitSync
  <2>1. Pointer(root) = Exchanged(c, g) /\ SyncRoot /\ Goto("settle")
    BY <1>9 DEF CommitSync, Transaction, Stands
  <2>2. Stands(Exchanged(c, g), {Exchanged(c, g)})'
    BY <1>3, <2>1 DEF Stands
  <2>3. "settle" \in PointerPcs
    BY DEF PointerPcs
  <2>. QED BY <1>1, <1>2, <2>1, <2>2, <2>3, SMTT(30) DEF Transaction
<1>10. CASE Settle
  <2> DEFINE m == [id |-> g, body |-> root.jc.body]
  <2>1. Pointer(root) = Exchanged(c, g) /\ \A r \in disk : Pointer(r) \in {Exchanged(c, g)}
    BY <1>10 DEF Settle, Transaction, Stands
  <2>2. /\ root' = [root EXCEPT !.jm = m, !.jc = NoFile, !.ja = None] /\ disk' = disk \cup {root'}
        /\ Goto("settleSync")
    BY <1>10, Zenon DEF Settle, ChangeRoot
  <2> HIDE DEF m
  <2>3. root.cur = g /\ root.jc.body = c
    BY <2>1, JournalledShape, ExchangedShape, SMTT(30)
  <2>4. m = File(g, c)
    BY <2>3 DEF File, m
  <2>5. Pointer(root') = Settled(c, g)
    BY <1>1, <2>2, <2>3, <2>4 DEF Pointer, Settled, Roots
  <2>6. Stands(Settled(c, g), {Exchanged(c, g), Settled(c, g)})'
    BY <2>1, <2>2, <2>5 DEF Stands
  <2>7. "settleSync" \in PointerPcs
    BY Zenon DEF PointerPcs
  <2>. QED BY <1>1, <1>2, <2>2, <2>6, <2>7 DEF Transaction
<1>11. CASE SettleSync
  <2>1. Pointer(root) = Settled(c, g) /\ SyncRoot /\ Goto("cleanup")
    BY <1>11 DEF SettleSync, Transaction, Stands
  <2>2. Stands(Settled(c, g), {Settled(c, g)})'
    BY <1>3, <2>1 DEF Stands
  <2>3. "cleanup" \in PointerPcs
    BY DEF PointerPcs
  <2>. QED BY <1>1, <1>2, <2>1, <2>2, <2>3, ZenonT(30) DEF Transaction
<1>12. CASE Cleanup
  <2>1. Pointer(root) = Settled(c, g) /\ \A r \in disk : Pointer(r) \in {Settled(c, g)}
    BY <1>12 DEF Cleanup, Transaction, Stands
  <2>2. root' = [root EXCEPT !.jm = NoFile] /\ disk' = disk \cup {root'} /\ Goto("cleanupSync")
    BY <1>12 DEF Cleanup, ChangeRoot
  <2>3. Pointer(root') = Clean(g)
    BY <1>1, <2>1, <2>2, PointerFields DEF Pointer, Settled, Clean, Roots
  <2>4. Stands(Clean(g), {Settled(c, g), Clean(g)})'
    BY <2>1, <2>2, <2>3 DEF Stands
  <2>5. "cleanupSync" \in PointerPcs
    BY DEF PointerPcs
  <2>. QED BY <1>1, <1>2, <2>2, <2>4, <2>5 DEF Transaction
<1>13. CASE Undo
  <2>1. /\ Pointer(root) = Exchanged(c, g)
        /\ \A r \in disk : Pointer(r) \in {Journalled(c, g), Exchanged(c, g)}
    BY <1>13 DEF Undo, Transaction, Stands
  <2>2. /\ root' = [root EXCEPT !.cur = root.jc.body, !.jc = [id |-> g, body |-> g]]
        /\ disk' = disk \cup {root'} /\ Goto(IF c # None THEN "undoSync" ELSE "undoAbsent")
    BY <1>1, <1>13, Zenon DEF Undo, ChangeRoot
  <2>3. root.jc.body = c /\ root.ja = (IF c = None THEN g ELSE None) /\ root.jm = NoFile
    BY <2>1, JournalledShape, ExchangedShape
  <2>4. Pointer(root') = Journalled(c, g)
    BY <1>1, <2>2, <2>3 DEF Pointer, Journalled, File, Roots
  <2>5. \A r \in disk' : Pointer(r) \in {Journalled(c, g), Exchanged(c, g)}
    BY <2>1, <2>2, <2>4
  <2>6. c # None => Prepared(c, g, g) = Journalled(c, g)
    BY DEF Prepared, Journalled
  <2>7. "undoSync" \in PointerPcs /\ "undoAbsent" \in PointerPcs
    BY DEF PointerPcs
  <2>8. CASE c # None
    BY <1>1, <1>2, <2>2, <2>4, <2>5, <2>6, <2>7, <2>8, SMTT(30) DEF Transaction, Stands
  <2>9. CASE c = None
    BY <1>1, <1>2, <2>2, <2>4, <2>5, <2>7, <2>9, SMTT(30) DEF Transaction, Stands
  <2>. QED BY <2>8, <2>9
<1>14. CASE UndoAbsent
  <2>1. /\ c = None /\ Pointer(root) = Journalled(c, g)
        /\ \A r \in disk : Pointer(r) \in {Journalled(c, g), Exchanged(c, g)}
    BY <1>14 DEF UndoAbsent, Transaction, Stands
  <2>2. root' = [root EXCEPT !.ja = None] /\ disk' = disk \cup {root'} /\ Goto("undoSync")
    BY <1>14 DEF UndoAbsent, ChangeRoot
  <2>3. Pointer(root') = Prepared(c, g, g)
    BY <1>1, <2>1, <2>2, PointerFields DEF Pointer, Prepared, Journalled, Roots
  <2>4. Stands(Prepared(c, g, g), {Journalled(c, g), Exchanged(c, g), Prepared(c, g, g)})'
    BY <2>1, <2>2, <2>3 DEF Stands
  <2>5. "undoSync" \in PointerPcs
    BY DEF PointerPcs
  <2>. QED BY <1>1, <1>2, <2>2, <2>4, <2>5 DEF Transaction
<1>15. CASE CleanupSync \/ UndoSync
  BY <1>15 DEF CleanupSync, UndoSync, End
<1>. QED BY <1>4, <1>5, <1>6, <1>7, <1>8, <1>9, <1>10, <1>11, <1>12, <1>13, <1>14, <1>15, SMTT(30) DEF PointerStep

\* The journals present, one condition each.
LEMMA JournalsPresent ==
  ASSUME NEW r
  PROVE  /\ Journals(r) = {} <=> r.jc.id = None /\ r.ja = None /\ r.jm.id = None
         /\ Journals(r) = {"current"} <=> r.jc.id # None /\ r.ja = None /\ r.jm.id = None
         /\ Journals(r) = {"absent"} <=> r.jc.id = None /\ r.ja # None /\ r.jm.id = None
         /\ Journals(r) = {"committed"} <=> r.jc.id = None /\ r.ja = None /\ r.jm.id # None
         /\ Journals(r) = {"current", "absent"} <=> r.jc.id # None /\ r.ja # None /\ r.jm.id = None
<1>1. \A k : k \in Journals(r) <=>
        \/ k = "current" /\ r.jc.id # None
        \/ k = "absent" /\ r.ja # None
        \/ k = "committed" /\ r.jm.id # None
  BY DEF Journals
<1>2. Journals(r) = {} <=> r.jc.id = None /\ r.ja = None /\ r.jm.id = None
  BY <1>1
<1>3. Journals(r) = {"current"} <=> r.jc.id # None /\ r.ja = None /\ r.jm.id = None
  BY <1>1
<1>4. Journals(r) = {"absent"} <=> r.jc.id = None /\ r.ja # None /\ r.jm.id = None
  BY <1>1
<1>5. Journals(r) = {"committed"} <=> r.jc.id = None /\ r.ja = None /\ r.jm.id # None
  BY <1>1
<1>6. Journals(r) = {"current", "absent"} <=> r.jc.id # None /\ r.ja # None /\ r.jm.id = None
  BY <1>1
<1>. QED BY <1>2, <1>3, <1>4, <1>5, <1>6, SMTT(30)

\* What each verdict of inspect_pointer_journals says of a pointer that a
\* transaction, or its cleaning, may have left.
LEMMA VerdictShape ==
  ASSUME NEW r, NEW t, Known(Pointer(r))
  PROVE  /\ Journals(r) = {} => Pointer(r) = Clean(r.cur)
         /\ DiscardsCurrent(r, t) => r.ja = None /\ r.jm = NoFile /\ Recovered(r) = r.cur
         /\ RollsBackCurrent(r, t) => r.ja = None /\ r.jm = NoFile /\ Recovered(r) = r.jc.body
         /\ RollsBackAbsent(r, t) => r.cur \in Ids /\ Pointer(r) = Exchanged(None, r.cur)
         /\ DiscardsPristine(r, t) => r.ja \in Ids /\ Pointer(r) = Journalled(None, r.ja)
         /\ CleansCommitted(r, t) => r.ja = None /\ r.jc = NoFile /\ Recovered(r) = r.cur
<1> USE JournalsPresent DEF DiscardsCurrent, RollsBackCurrent, RollsBackAbsent, DiscardsPristine,
                            CleansCommitted
<1>1. Recovered(r) = Recovered(Pointer(r))
  BY RecoveredAt, Zenon
<1>2. CASE \E c \in Ids \cup {None} : Pointer(r) = Clean(c)
  <2>1. PICK c \in Ids \cup {None} : Pointer(r) = Clean(c)
    BY <1>2, Zenon
  <2>2. r.cur = c /\ r.jc = NoFile /\ r.ja = None /\ r.jm = NoFile
    BY <2>1, CleanShape, Zenon
  <2>. QED BY <2>1, <2>2, Zenon DEF NoFile
<1>3. ASSUME NEW c \in Ids \cup {None}, NEW g \in Ids, c # g,
             Pointer(r) \in {Prepared(c, g, Torn), Prepared(c, g, g), Journalled(c, g), Exchanged(c, g),
                             Settled(c, g)}
      PROVE  /\ Journals(r) = {} => Pointer(r) = Clean(r.cur)
             /\ DiscardsCurrent(r, t) => r.ja = None /\ r.jm = NoFile /\ Recovered(r) = r.cur
             /\ RollsBackCurrent(r, t) => r.ja = None /\ r.jm = NoFile /\ Recovered(r) = r.jc.body
             /\ RollsBackAbsent(r, t) => r.cur \in Ids /\ Pointer(r) = Exchanged(None, r.cur)
             /\ DiscardsPristine(r, t) => r.ja \in Ids /\ Pointer(r) = Journalled(None, r.ja)
             /\ CleansCommitted(r, t) => r.ja = None /\ r.jc = NoFile /\ Recovered(r) = r.cur
  <2>1. g # None /\ g # Torn /\ c # Torn
    BY NamesAreDistinct, Zenon
  <2>2. ASSUME NEW b \in {g, Torn}, Pointer(r) = Prepared(c, g, b)
        PROVE  /\ r.cur = c /\ r.jc.id = g /\ r.jc.body = b /\ r.ja = None /\ r.jm = NoFile /\ r.jm.id = None
               /\ Recovered(r) = c
    <3>1. r.cur = c /\ r.jc.id = g /\ r.jc.body = b /\ r.ja = None /\ r.jm = NoFile /\ r.jm.id = None
      BY <2>2, PreparedShape, SMTT(30)
    <3>2. Recovered(r) = c
      BY <1>1, <1>3, <2>2, RecoveredAt
    <3>. QED BY <3>1, <3>2, ZenonT(30)
  <2>3. CASE Pointer(r) = Prepared(c, g, Torn)
    BY <1>3, <2>1, <2>2, <2>3, Zenon
  <2>4. CASE Pointer(r) = Prepared(c, g, g)
    BY <1>3, <2>1, <2>2, <2>4, Zenon
  <2>5. CASE Pointer(r) = Journalled(c, g)
    <3>1. /\ r.cur = c /\ r.jc.id = g /\ r.jc.body = g /\ r.ja = (IF c = None THEN g ELSE None)
          /\ r.jm = NoFile /\ r.jm.id = None
      BY <2>5, JournalledShape, SMTT(30)
    <3>2. Recovered(r) = c
      BY <1>1, <1>3, <2>5, RecoveredAt
    <3>. QED BY <1>3, <2>1, <2>5, <3>1, <3>2, ZenonT(30)
  <2>6. CASE Pointer(r) = Exchanged(c, g)
    <3>1. /\ r.cur = g /\ r.jc.id = (IF c = None THEN None ELSE g) /\ r.jc.body = c
          /\ r.ja = (IF c = None THEN g ELSE None) /\ r.jm = NoFile /\ r.jm.id = None
      BY <2>6, ExchangedShape, ZenonT(30)
    <3>2. Recovered(r) = c
      BY <1>1, <1>3, <2>6, RecoveredAt
    <3>. QED BY <1>3, <2>1, <2>6, <3>1, <3>2, Zenon
  <2>7. CASE Pointer(r) = Settled(c, g)
    <3>1. r.cur = g /\ r.jc = NoFile /\ r.jc.id = None /\ r.ja = None /\ r.jm.id = g
      BY <2>7, SettledShape, SMTT(30)
    <3>2. Recovered(r) = g
      BY <1>1, <1>3, <2>7, RecoveredAt
    <3>. QED BY <2>1, <3>1, <3>2, ZenonT(30)
  <2>. QED BY <1>3, <2>3, <2>4, <2>5, <2>6, <2>7, Zenon
<1>4. CASE \E c \in Ids \cup {None}, g \in Ids :
             /\ c # g
             /\ Pointer(r) \in {Prepared(c, g, Torn), Prepared(c, g, g), Journalled(c, g), Exchanged(c, g),
                                Settled(c, g)}
  BY <1>3, <1>4, Zenon
<1>. QED BY <1>2, <1>4, Zenon DEF Known

-----------------------------------------------------------------------------
(* ProtocolInv after a step, by the stage of the operation it leads to.    *)

\* An operation that has ended.
LEMMA EndsProtocol ==
  ASSUME op' = Idle, \A r \in disk' : Known(Pointer(r))
  PROVE  ProtocolInv'
<1>1. op'.pc = "idle"
  BY ZenonT(30) DEF Idle
<1>2. Cleaning'
  BY <1>1 DEF Cleaning, ReadyPcs, ReservePcs, SizedPcs, PublishPcs, StagedPcs
<1>. QED BY <1>1, <1>2 DEF ProtocolInv, PointerPcs

\* One that has not looked at the journals.
FirstPcs == {"openCreate", "openWrite", "openSync", "cleanStaging", "cleanPointer"} \cup CollectPcs
LEMMA FirstProtocol ==
  ASSUME op'.pc \in FirstPcs, reply'.result = "none", \A r \in disk' : Known(Pointer(r)),
         op'.pc \in {"cleanStaging", "cleanPointer"} => op'.kind \in {"publish", "recover", "rollback"}
  PROVE  ProtocolInv'
<1>1. Cleaning'
  BY Zenon DEF Cleaning, FirstPcs, ReadyPcs, ReservePcs, SizedPcs, PublishPcs, StagedPcs, CollectPcs
<1>. QED BY <1>1, Zenon DEF ProtocolInv, FirstPcs, CollectPcs, PointerPcs

\* One that has cleaned the journals and has not begun its own.
LEMMA ReadyProtocol ==
  ASSUME op'.pc \in ReadyPcs, reply'.result = "none",
         Pointer(root') = Clean(root'.cur), \A r \in disk' : Known(Pointer(r)),
         op'.pc = "resolve" => op'.kind \in {"recover", "rollback"},
         op'.pc \in ReservePcs => (root'.cur # None => Sealed(trees', root'.cur)),
         op'.pc \in SizedPcs => op'.had = (root'.cur # None),
         op'.pc \in StagedPcs => op'.gen # root'.cur
  PROVE  ProtocolInv'
<1>1. Cleaning'
  BY DEF Cleaning, ReadyPcs, PublishPcs, StagedPcs, Sealed
<1>. QED BY <1>1, Zenon DEF ProtocolInv, ReadyPcs, PublishPcs, StagedPcs, PointerPcs

\* One in its pointer transaction.
LEMMA PointerProtocol ==
  ASSUME ProtocolInv, disk' \subseteq disk \cup {root'},
         NEW c \in Ids \cup {None}, NEW g \in Ids, op'.pc \in PointerPcs, op'.gen = g, Transaction(c, g)',
         reply'.result = "none", op'.kind \in {"publish", "rollback"}
  PROVE  ProtocolInv'
<1>1. Cleaning'
  BY DEF Cleaning, ReadyPcs, ReservePcs, SizedPcs, PublishPcs, StagedPcs, PointerPcs
<1>2. Known(Pointer(root'))
  <2>1. c # g
    BY Zenon DEF Transaction
  <2>2. Pointer(root') \in {Clean(c), Clean(g), Prepared(c, g, Torn), Prepared(c, g, g), Journalled(c, g),
                            Exchanged(c, g), Settled(c, g)}
    BY Zenon DEF Transaction, Stands
  <2>. QED BY <2>1, <2>2, StagesAreKnown, Zenon
<1>3. \A r \in disk' : Known(Pointer(r))
  BY <1>2, KnownStays
<1>. QED BY <1>1, <1>3, ZenonT(30) DEF ProtocolInv, PointerPcs

\* The pointer transaction keeps the protocol.
LEMMA PointerStepProtocol ==
  ASSUME PointerInv, ProtocolInv, PointerStep
  PROVE  ProtocolInv'
<1> USE DEF At
<1>1. op.pc \in PointerPcs
  BY DEF PointerStep, PointerPcs, JournalCreate, JournalWrite, AbsentCreate, JournalSync, CommitPointer,
         CommitSync, Settle, SettleSync, Cleanup, CleanupSync, Undo, UndoAbsent, UndoSync
<1>2. op.gen \in Ids /\ root \in disk /\ trees \in treeDisk
  BY <1>1 DEF PointerInv, TargetSealed
<1>3. PICK c \in Ids \cup {None} : Transaction(c, op.gen)
  BY <1>1 DEF ProtocolInv
<1>4. PICK g \in Ids : op.gen = g
  BY <1>2
<1>5. op.pc # "idle" /\ op.kind \in {"publish", "rollback"} /\ reply.result = "none"
  BY <1>1 DEF ProtocolInv, PointerPcs
<1>6. \/ /\ op' \in Operations /\ op'.pc \in PointerPcs /\ op'.gen = g /\ op'.kind = op.kind
         /\ op'.had = op.had /\ Transaction(c, g)' /\ reply' = reply
      \/ op' = Idle /\ SyncRoot
  BY <1>3, <1>4, TransactionProceeds
<1>7. disk' \subseteq disk \cup {root'}
  BY <1>2, Zenon DEF PointerStep, JournalCreate, JournalWrite, AbsentCreate, JournalSync, CommitPointer, CommitSync,
                     Settle, SettleSync, Cleanup, CleanupSync, Undo, UndoAbsent, UndoSync, ChangeRoot, SyncRoot
<1>8. CASE op'.pc \in PointerPcs /\ op'.gen = g /\ op'.kind = op.kind /\ Transaction(c, g)' /\ reply' = reply
  BY <1>5, <1>7, <1>8, PointerProtocol
<1>9. CASE op' = Idle /\ SyncRoot
  <2>1. \A r \in disk' : Known(Pointer(r))
    BY <1>2, <1>9 DEF SyncRoot, ProtocolInv
  <2>. QED BY <1>9, <2>1, EndsProtocol
<1>. QED BY <1>6, <1>8, <1>9

\* The pointer in a root that the cleaning wrote.
LEMMA CleanedProtocol ==
  ASSUME ProtocolInv, NEW c \in Ids \cup {None}, NEW r, ChangeRoot(r), Pointer(r) = Clean(c),
         Recovered(root) = c, op'.pc = "cleanSync", reply'.result = "none",
         op'.kind \in {"publish", "recover", "rollback"}
  PROVE  ProtocolInv' /\ Recovered(root') = Recovered(root)
<1>1. root' = r /\ disk' = disk \cup {r} /\ r.cur = c
  BY CleanShape DEF ChangeRoot
<1>2. Recovered(root') = c
  <2>1. Recovered(r) = c
    BY RecoveredAt, Zenon
  <2>. QED BY <1>1, <2>1
<1>3. Known(Pointer(r))
  BY Zenon DEF Known
<1>4. \A q \in disk' : Known(Pointer(q))
  BY <1>1, <1>3, KnownStays
<1>5. op'.pc \notin ReadyPcs /\ op'.pc \notin SizedPcs /\ op'.pc \notin StagedPcs /\ op'.pc \notin ReservePcs
  BY DEF ReadyPcs, ReservePcs, SizedPcs, PublishPcs, StagedPcs
<1>6. Cleaning'
  BY <1>1, <1>5, Zenon DEF Cleaning
<1>. QED BY <1>2, <1>4, <1>6 DEF ProtocolInv, PointerPcs

\* The steps between: the journals of a first publication.
LEMMA AbsentProtocol ==
  ASSUME ProtocolInv, disk' \subseteq disk \cup {root'}, NEW g \in Ids, Recovered(root) = None,
         reply'.result = "none", op'.kind \in {"publish", "recover", "rollback"},
         \/ op'.pc \in {"absentSync", "dropAbsent"} /\ Pointer(root') = Journalled(None, g)
         \/ op'.pc = "dropCurrent" /\ Pointer(root') = Prepared(None, g, g)
  PROVE  ProtocolInv' /\ Recovered(root') = Recovered(root)
<1>1. None # g
  BY NamesAreDistinct
<1>2. Pointer(root') \in {Journalled(None, g), Prepared(None, g, g)}
  OBVIOUS
<1>3. Known(Pointer(root'))
  BY <1>1, <1>2, StagesAreKnown, Zenon
<1>4. \A q \in disk' : Known(Pointer(q))
  BY <1>3, KnownStays
<1>5. Recovered(root') = None
  <2>1. Recovered(Journalled(None, g)) = None /\ Recovered(Prepared(None, g, g)) = None
    BY <1>1, RecoveredAt
  <2>2. Recovered(root') = Recovered(Pointer(root'))
    BY RecoveredAt
  <2>. QED BY <1>2, <2>1, <2>2
<1>6. op'.pc \notin ReadyPcs /\ op'.pc \notin SizedPcs /\ op'.pc \notin StagedPcs /\ op'.pc \notin ReservePcs
  BY DEF ReadyPcs, ReservePcs, SizedPcs, PublishPcs, StagedPcs
<1>7. Cleaning'
  BY <1>6, Zenon DEF Cleaning
<1>. QED BY <1>4, <1>5, <1>7 DEF ProtocolInv, PointerPcs

\* inspect_pointer_journals' verdicts.
LEMMA Verdicts ==
  ASSUME NEW r, NEW t, NEW v, InspectPointerJournals(r, t) = v, v # "error"
  PROVE  /\ v = "clean" => Journals(r) = {}
         /\ v = "discard_current" => DiscardsCurrent(r, t)
         /\ v = "rollback_current" => RollsBackCurrent(r, t)
         /\ v = "rollback_absent" => RollsBackAbsent(r, t)
         /\ v = "discard_pristine" => DiscardsPristine(r, t)
         /\ v = "cleanup_committed" => CleansCommitted(r, t)
         /\ v \in {"clean", "discard_current", "rollback_current", "rollback_absent", "discard_pristine",
                   "cleanup_committed"}
         /\ r.cur # None => Sealed(t, r.cur)
BY DEF InspectPointerJournals

\* A known pointer names generations or nothing, and so does what is recovered.
LEMMA KnownNames ==
  ASSUME NEW r, Known(Pointer(r))
  PROVE  r.cur \in Ids \cup {None} /\ Recovered(r) \in Ids \cup {None}
<1>1. Recovered(r) = Recovered(Pointer(r))
  BY RecoveredAt
<1>2. CASE \E c \in Ids \cup {None} : Pointer(r) = Clean(c)
  BY <1>1, <1>2, CleanShape, RecoveredAt
<1>3. ASSUME NEW c \in Ids \cup {None}, NEW g \in Ids, c # g,
             Pointer(r) \in {Prepared(c, g, Torn), Prepared(c, g, g), Journalled(c, g), Exchanged(c, g),
                             Settled(c, g)}
      PROVE  r.cur \in Ids \cup {None} /\ Recovered(r) \in Ids \cup {None}
  <2>1. Recovered(r) \in {c, g}
    BY <1>1, <1>3, RecoveredAt
  <2>2. Pointer(r).cur \in {c, g}
    BY <1>3 DEF Prepared, Journalled, Exchanged, Settled
  <2>3. r.cur \in {c, g}
    BY <2>2, PointerFields
  <2>. QED BY <2>1, <2>3
<1>. QED BY <1>2, <1>3 DEF Known

\* Inspecting and cleaning the journals of an earlier operation.
LEMMA CleanPointerProtocol ==
  ASSUME PointerInv, ProtocolInv, CleanPointerStaging
  PROVE  ProtocolInv' /\ Recovered(root') = Recovered(root)
<1> USE DEF At
<1>1. /\ op.pc = "cleanPointer" /\ op \in Operations /\ root \in Roots /\ root \in disk
      /\ op.kind \in {"publish", "recover", "rollback"} /\ reply.result = "none"
  BY RootIsRoot DEF CleanPointerStaging, PointerInv, ProtocolInv
<1>2. Known(Pointer(root)) /\ root.cur \in Ids \cup {None} /\ Recovered(root) \in Ids \cup {None}
  BY <1>1, KnownNames DEF ProtocolInv
<1>3. ASSUME NEW x \in Pcs, Goto(x)
      PROVE  op'.pc = x /\ op'.kind = op.kind /\ op'.gen = op.gen /\ op'.had = op.had /\ reply'.result = "none"
  BY <1>1, <1>3 DEF Goto, Operations
<1>4. Inspection # "error"
  BY Zenon DEF CleanPointerStaging
<1>5. CASE Inspection = "clean"
  <2>1. Goto(AfterCleaning) /\ KeepFiles /\ Pointer(root) = Clean(root.cur)
    BY <1>2, <1>5, Verdicts, VerdictShape DEF CleanPointerStaging, Inspection
  <2>2. /\ AfterCleaning \in Pcs /\ AfterCleaning \in {"cleanOrder", "resolve"}
        /\ AfterCleaning = "resolve" => op.kind # "publish"
    BY DEF AfterCleaning, Pcs
  <2>3. /\ op'.pc \in ReadyPcs /\ op'.pc \notin SizedPcs /\ op'.pc \notin StagedPcs
        /\ op'.pc = "resolve" => op'.kind \in {"recover", "rollback"}
    BY <1>1, <1>3, <2>1, <2>2 DEF ReadyPcs, PublishPcs, StagedPcs, ReservePcs, SizedPcs
  <2>4. root' = root /\ \A q \in disk' : Known(Pointer(q))
    BY <2>1, Zenon DEF KeepFiles, ProtocolInv
  <2>5. op'.pc \notin ReservePcs
    BY <2>3, Zenon DEF SizedPcs
  <2>6. ProtocolInv'
    BY <1>3, <2>1, <2>2, <2>3, <2>4, <2>5, ReadyProtocol, Zenon
  <2>. QED BY <2>4, <2>6
<1>6. ASSUME NEW r, NEW c \in Ids \cup {None}, ChangeRoot(r), Goto("cleanSync"), Pointer(r) = Clean(c),
             Recovered(root) = c
      PROVE  ProtocolInv' /\ Recovered(root') = Recovered(root)
  <2>1. "cleanSync" \in Pcs
    BY DEF Pcs
  <2>. QED BY <1>1, <1>3, <1>6, <2>1, CleanedProtocol, Zenon
<1>7. CASE Inspection = "discard_current"
  <2> DEFINE r == [root EXCEPT !.jc = NoFile]
  <2>1. Goto("cleanSync") /\ ChangeRoot(r)
    BY <1>7, ZenonT(30) DEF CleanPointerStaging
  <2>2. root.ja = None /\ root.jm = NoFile /\ Recovered(root) = root.cur
    BY <1>2, <1>7, Verdicts, VerdictShape DEF Inspection
  <2>3. Pointer(r) = Clean(root.cur)
    BY <1>1, <2>2 DEF Pointer, Clean, Roots
  <2>. QED BY <1>2, <1>6, <2>1, <2>2, <2>3
<1>8. CASE Inspection = "rollback_current"
  <2> DEFINE r == [root EXCEPT !.cur = root.jc.body, !.jc = NoFile]
  <2>1. Goto("cleanSync") /\ ChangeRoot(r)
    BY <1>8, Zenon DEF CleanPointerStaging
  <2>2. root.ja = None /\ root.jm = NoFile /\ Recovered(root) = root.jc.body
    BY <1>2, <1>8, Verdicts, VerdictShape, Zenon DEF Inspection
  <2>3. Pointer(r) = Clean(root.jc.body)
    BY <1>1, <2>2 DEF Pointer, Clean, Roots
  <2>. QED BY <1>2, <1>6, <2>1, <2>2, <2>3, Zenon
<1>9. CASE Inspection = "cleanup_committed"
  <2> DEFINE r == [root EXCEPT !.jm = NoFile]
  <2>1. Goto("cleanSync") /\ ChangeRoot(r)
    BY <1>9, Zenon DEF CleanPointerStaging
  <2>2. root.ja = None /\ root.jc = NoFile /\ Recovered(root) = root.cur
    BY <1>2, <1>9, Verdicts, VerdictShape, Zenon DEF Inspection
  <2>3. Pointer(r) = Clean(root.cur)
    BY <1>1, <2>2 DEF Pointer, Clean, Roots
  <2>. QED BY <1>2, <1>6, <2>1, <2>2, <2>3
<1>10. CASE Inspection = "rollback_absent"
  <2> DEFINE r == [root EXCEPT !.cur = None, !.jc = [id |-> root.ja, body |-> root.cur]]
  <2>1. Goto("absentSync") /\ root' = r /\ disk' = disk \cup {r}
    BY <1>10 DEF CleanPointerStaging, ChangeRoot
  <2>2. root.cur \in Ids /\ Pointer(root) = Exchanged(None, root.cur)
    BY <1>2, <1>10, Verdicts, VerdictShape, Zenon DEF Inspection
  <2>3. PICK g \in Ids : root.cur = g
    BY <2>2
  <2>4. root.ja = g /\ root.jm = NoFile
    BY <2>2, <2>3, JournalledShape, ExchangedShape
  <2>5. Pointer(r) = Journalled(None, g)
    BY <1>1, <2>3, <2>4 DEF Pointer, Journalled, File, Roots
  <2>6. Recovered(root) = None
    BY <2>2, <2>3, RecoveredAt, NamesAreDistinct
  <2>7. op'.pc = "absentSync" /\ op'.kind = op.kind /\ reply'.result = "none"
    BY <1>3, <2>1 DEF Pcs
  <2> HIDE DEF r
  <2>. QED BY <1>1, <2>1, <2>5, <2>6, <2>7, AbsentProtocol
<1>11. CASE Inspection = "discard_pristine"
  <2> DEFINE r == [root EXCEPT !.ja = None]
  <2>1. Goto("dropCurrent") /\ root' = r /\ disk' = disk \cup {r}
    BY <1>11 DEF CleanPointerStaging, ChangeRoot
  <2>2. root.ja \in Ids /\ Pointer(root) = Journalled(None, root.ja)
    BY <1>2, <1>11, Verdicts, VerdictShape, Zenon DEF Inspection
  <2>3. PICK g \in Ids : root.ja = g
    BY <2>2
  <2>4. root.cur = None /\ root.jc = File(g, g) /\ root.jm = NoFile
    BY <2>2, <2>3, JournalledShape
  <2>5. Pointer(r) = Prepared(None, g, g)
    BY <1>1, <2>4 DEF Pointer, Prepared, Roots
  <2>6. Recovered(root) = None
    BY <2>2, <2>3, RecoveredAt, NamesAreDistinct
  <2>7. op'.pc = "dropCurrent" /\ op'.kind = op.kind /\ reply'.result = "none"
    BY <1>3, <2>1 DEF Pcs
  <2> HIDE DEF r
  <2>. QED BY <1>1, <2>1, <2>5, <2>6, <2>7, AbsentProtocol
<1>12. Inspection \in {"clean", "discard_current", "rollback_current", "rollback_absent", "discard_pristine",
                       "cleanup_committed"}
  BY <1>4, Verdicts DEF Inspection
<1>. QED BY <1>5, <1>7, <1>8, <1>9, <1>10, <1>11, <1>12, Zenon

\* Cleaning what an earlier operation left keeps the protocol.
LEMMA CleaningProtocol ==
  ASSUME PointerInv, ProtocolInv, CleaningStep
  PROVE  ProtocolInv' /\ Recovered(root') = Recovered(root)
<1> USE DEF At
<1>1. /\ op \in Operations /\ root \in Roots /\ root \in disk /\ trees \in treeDisk
      /\ root.cur \in Ids \cup {None}
  BY RootIsRoot, KnownNames DEF PointerInv, ProtocolInv
<1>2. op.pc # "idle" => reply.result = "none"
  BY DEF ProtocolInv
<1>3. ASSUME NEW x \in Pcs, Goto(x), op.pc # "idle"
      PROVE  op'.pc = x /\ op'.kind = op.kind /\ op'.gen = op.gen /\ op'.had = op.had /\ reply'.result = "none"
  BY <1>1, <1>2, <1>3 DEF Goto, Operations
<1>4. {"cleanPointer", "absentSync", "dropAbsent", "dropCurrent", "cleanSync", "cleanOrder", "resolve"} \subseteq Pcs
  BY DEF Pcs
<1>5. op.pc \in {"absentSync", "dropAbsent", "dropCurrent", "cleanSync", "cleanPointer", "cleanStaging"} =>
        op.kind \in {"publish", "recover", "rollback"}
  BY DEF ProtocolInv
<1>6. CASE CleanStaging
  <2>1. op.pc = "cleanStaging" /\ Goto("cleanPointer") /\ UNCHANGED <<root, disk>>
    BY <1>6, Zenon DEF CleanStaging
  <2>2. \A r \in disk : Known(Pointer(r))
    BY Zenon DEF ProtocolInv
  <2>3. "cleanPointer" \in FirstPcs
    BY Zenon DEF FirstPcs
  <2>4. op'.pc = "cleanPointer" /\ op'.kind = op.kind /\ reply'.result = "none"
    BY <1>3, <1>4, <2>1
  <2>5. ProtocolInv'
    BY <1>5, <2>1, <2>2, <2>3, <2>4, FirstProtocol
  <2>. QED BY <2>1, <2>5
<1>7. CASE CleanPointerStaging
  BY <1>7, CleanPointerProtocol
<1>8. CASE AbsentSync
  <2>1. op.pc = "absentSync" /\ Goto("dropAbsent") /\ root' = root /\ disk' = {root}
    BY <1>8, SMTT(30) DEF AbsentSync, SyncRoot
  <2>2. PICK g \in Ids : Pointer(root) = Journalled(None, g)
    BY <2>1 DEF ProtocolInv, Cleaning
  <2>3. Recovered(root) = None
    BY <2>2, RecoveredAt, NamesAreDistinct
  <2>4. op'.pc = "dropAbsent" /\ op'.kind = op.kind /\ reply'.result = "none"
    BY <1>3, <1>4, <2>1
  <2>. QED BY <1>5, <2>1, <2>2, <2>3, <2>4, AbsentProtocol
<1>9. CASE DropAbsent
  <2>1. op.pc = "dropAbsent" /\ Goto("dropCurrent") /\ root' = [root EXCEPT !.ja = None] /\ disk' = disk \cup {root'}
    BY <1>9 DEF DropAbsent, ChangeRoot
  <2>2. PICK g \in Ids : Pointer(root) = Journalled(None, g)
    BY <2>1 DEF ProtocolInv, Cleaning
  <2>3. root.cur = None /\ root.jc = File(g, g) /\ root.jm = NoFile
    BY <2>2, JournalledShape
  <2>4. Pointer(root') = Prepared(None, g, g)
    BY <1>1, <2>1, <2>3 DEF Pointer, Prepared, Roots
  <2>5. Recovered(root) = None
    BY <2>2, RecoveredAt, NamesAreDistinct
  <2>6. op'.pc = "dropCurrent" /\ op'.kind = op.kind /\ reply'.result = "none"
    BY <1>3, <1>4, <2>1
  <2>. QED BY <1>5, <2>1, <2>4, <2>5, <2>6, AbsentProtocol
<1>10. CASE DropCurrent
  <2> DEFINE r == [root EXCEPT !.jc = NoFile]
  <2>1. op.pc = "dropCurrent" /\ Goto("cleanSync") /\ ChangeRoot(r)
    BY <1>10 DEF DropCurrent
  <2>2. PICK g \in Ids : Pointer(root) = Prepared(None, g, g)
    BY <2>1 DEF ProtocolInv, Cleaning
  <2>3. root.cur = None /\ root.ja = None /\ root.jm = NoFile
    BY <2>2, PreparedShape
  <2>4. Pointer(r) = Clean(None)
    BY <1>1, <2>3 DEF Pointer, Clean, Roots
  <2>5. Recovered(root) = None
    BY <2>2, RecoveredAt, NamesAreDistinct
  <2>6. op'.pc = "cleanSync" /\ op'.kind = op.kind /\ reply'.result = "none"
    BY <1>3, <1>4, <2>1, Zenon
  <2> HIDE DEF r
  <2>. QED BY <1>5, <2>1, <2>4, <2>5, <2>6, CleanedProtocol
<1>11. CASE CleanSync
  <2>1. op.pc = "cleanSync" /\ Goto(AfterCleaning) /\ root' = root /\ disk' = {root}
    BY <1>11 DEF CleanSync, SyncRoot
  <2>2. /\ AfterCleaning \in {"cleanOrder", "resolve"}
        /\ AfterCleaning = "resolve" => op.kind # "publish"
    BY DEF AfterCleaning
  <2>3. op'.pc = AfterCleaning /\ op'.kind = op.kind /\ reply'.result = "none"
    BY <1>3, <1>4, <2>1, <2>2
  <2>4. /\ op'.pc \in ReadyPcs /\ op'.pc \notin SizedPcs /\ op'.pc \notin StagedPcs
        /\ op'.pc = "resolve" => op'.kind \in {"recover", "rollback"}
    BY <1>5, <2>1, <2>2, <2>3, ZenonT(30) DEF ReadyPcs, PublishPcs, StagedPcs, ReservePcs, SizedPcs
  <2>5. Pointer(root) = Clean(root.cur)
    BY <2>1 DEF ProtocolInv, Cleaning
  <2>6. \A q \in disk' : Known(Pointer(q))
    BY <1>1, <2>1 DEF ProtocolInv
  <2>7. op'.pc \notin ReservePcs
    BY <2>4, Zenon DEF SizedPcs
  <2>8. ProtocolInv'
    BY <2>1, <2>3, <2>4, <2>5, <2>6, <2>7, ReadyProtocol, Zenon
  <2>. QED BY <2>1, <2>8
<1>12. CASE Resolve
  <2>1. op.pc = "resolve" /\ op.pc \in ReadyPcs /\ UNCHANGED <<root, disk>>
    BY <1>12, SMTT(30) DEF Resolve, KeepFiles, ReadyPcs
  <2>2. Pointer(root) = Clean(root.cur)
    BY <2>1 DEF ProtocolInv, Cleaning
  <2>3. CASE op' = Idle
    <3>1. \A q \in disk' : Known(Pointer(q))
      BY <2>1 DEF ProtocolInv
    <3>2. ProtocolInv'
      BY <2>3, <3>1, EndsProtocol
    <3>. QED BY <2>1, <3>2
  <2>4. CASE /\ Sealed(trees, root.cur) /\ op.kind = "rollback" /\ root.cur # op.gen
             /\ op' = [op EXCEPT !.pc = "journalCreate", !.had = TRUE] /\ UNCHANGED reply
    <3>1. op.gen \in Ids /\ root.cur \in Ids /\ root.cur # None
      BY <1>1, <2>4, NamesAreDistinct DEF PointerInv, TargetSealed, Sealed
    <3>2. PICK c \in Ids \cup {None} : root.cur = c
      BY <3>1
    <3>3. PICK g \in Ids : op.gen = g
      BY <3>1
    <3>4. /\ op'.pc = "journalCreate" /\ op'.gen = g /\ op'.had = TRUE /\ op'.kind = "rollback"
          /\ reply'.result = "none"
      BY <1>1, <1>2, <2>1, <2>4, <3>3 DEF Operations
    <3>5. Transaction(c, g)'
      BY <2>1, <2>2, <2>4, <3>1, <3>2, <3>3, <3>4, ZenonT(30) DEF Transaction
    <3>6. "journalCreate" \in PointerPcs
      BY DEF PointerPcs
    <3>7. ProtocolInv'
      BY <2>1, <3>4, <3>5, <3>6, PointerProtocol
    <3>. QED BY <2>1, <3>7
  <2>. QED BY <1>12, <2>3, <2>4 DEF Resolve, End
<1>. QED BY <1>6, <1>7, <1>8, <1>9, <1>10, <1>11, <1>12, Zenon DEF CleaningStep

\* Reserving, staging and installing a generation keeps the protocol.
LEMMA PublishProtocol ==
  ASSUME PointerInv, ProtocolInv, PublishStep
  PROVE  ProtocolInv'
<1> USE DEF At
<1>1. /\ op \in Operations /\ root \in Roots /\ root \in disk /\ trees \in treeDisk /\ treeDisk \subseteq TreeMaps
      /\ root.cur \in Ids \cup {None}
  BY RootIsRoot, KnownNames DEF PointerInv, ProtocolInv
<1>2. op.pc \in PublishPcs
  BY ZenonT(30) DEF PublishStep, PublishPcs, StagedPcs, CleanPublicationOrder, CleanOrderSync, Validate, ReserveWrite,
         ReserveRename, ReserveSync, Allocate, OrderWrite, OrderRename, OrderSync, Install, InstallSync,
         StageOrder
<1>3. /\ op.pc # "idle" /\ op.kind = "publish" /\ reply.result = "none"
      /\ Pointer(root) = Clean(root.cur)
      /\ op.pc \in ReservePcs => (root.cur # None => Sealed(trees, root.cur))
      /\ op.pc \in SizedPcs => op.had = (root.cur # None)
      /\ op.pc \in StagedPcs => op.gen # root.cur
  BY <1>2, Zenon DEF ProtocolInv, Cleaning, PointerInv, Publishing, ReadyPcs, PublishPcs, StagedPcs
<1>4. ASSUME NEW r \in {root, root'}, root' = r, Pointer(r) = Pointer(root), disk' \subseteq disk \cup {r},
             op'.pc \in PublishPcs, reply'.result = "none",
             op'.pc \in ReservePcs => (root.cur # None => Sealed(trees', root.cur)),
             op'.pc \in SizedPcs => op'.had = (root.cur # None),
             op'.pc \in StagedPcs => op'.gen # root.cur
      PROVE  ProtocolInv'
  <2>1. root'.cur = root.cur
    BY <1>4, Zenon DEF Pointer
  <2>2. op'.pc \in ReadyPcs /\ op'.pc # "resolve"
    BY <1>4 DEF ReadyPcs, PublishPcs, StagedPcs
  <2>3. Pointer(root') = Clean(root'.cur)
    BY <1>3, <1>4, <2>1, ZenonT(30)
  <2>4. \A q \in disk' : Known(Pointer(q))
    BY <1>1, <1>4, Zenon DEF ProtocolInv
  <2>. QED BY <1>4, <2>1, <2>2, <2>3, <2>4, ReadyProtocol, Zenon
<1>5. ASSUME NEW x \in PublishPcs, Goto(x), x \in ReservePcs => op.pc \in ReservePcs /\ UNCHANGED trees,
             x \in SizedPcs => op.pc \in SizedPcs, x \in StagedPcs => op.pc \in StagedPcs
      PROVE  /\ op'.pc \in PublishPcs /\ reply'.result = "none"
             /\ op'.pc \in ReservePcs => (root.cur # None => Sealed(trees', root.cur))
             /\ op'.pc \in SizedPcs => op'.had = (root.cur # None)
             /\ op'.pc \in StagedPcs => op'.gen # root.cur
  <2>1. op'.pc = x /\ op'.had = op.had /\ op'.gen = op.gen /\ reply' = reply
    BY <1>1, <1>5, Zenon DEF Goto, Operations
  <2>. QED BY <1>3, <1>5, <2>1
<1>6. ASSUME NEW x \in PublishPcs, Goto(x), root' = root, disk' \subseteq disk \cup {root},
             x \in ReservePcs => op.pc \in ReservePcs /\ UNCHANGED trees,
             x \in SizedPcs => op.pc \in SizedPcs, x \in StagedPcs => op.pc \in StagedPcs
      PROVE  ProtocolInv'
  BY <1>4, <1>5, <1>6, SMTT(30)
<1>7. ASSUME NEW x \in PublishPcs, Goto(x), disk' = disk \cup {root'}, Pointer(root') = Pointer(root),
             x \in ReservePcs => op.pc \in ReservePcs /\ UNCHANGED trees,
             x \in SizedPcs => op.pc \in SizedPcs, x \in StagedPcs => op.pc \in StagedPcs
      PROVE  ProtocolInv'
  BY <1>4, <1>5, <1>7
<1> USE DEF PublishPcs, StagedPcs, ReservePcs, SizedPcs
<1>8. CASE CleanPublicationOrder
  <2>1. CASE root.staged
    <3>1. root' = [root EXCEPT !.staged = FALSE] /\ disk' = disk \cup {root'} /\ Goto("cleanOrderSync")
      BY <1>8, <2>1, Zenon DEF CleanPublicationOrder, ChangeRoot
    <3>2. Pointer(root') = Pointer(root)
      BY <1>1, <3>1 DEF Pointer, Roots
    <3>. QED BY <1>7, <3>1, <3>2
  <2>2. CASE ~root.staged
    BY <1>6, <1>8, <2>2 DEF CleanPublicationOrder, KeepFiles
  <2>. QED BY <2>1, <2>2
<1>9. CASE CleanOrderSync
  BY <1>6, <1>9 DEF CleanOrderSync, SyncRoot
<1>10. CASE Validate
  <2>1. UNCHANGED <<root, disk, trees>>
    BY <1>10 DEF Validate, KeepFiles
  <2>2. CASE op' = Idle
    <3>1. \A q \in disk' : Known(Pointer(q))
      BY <2>1 DEF ProtocolInv
    <3>. QED BY <2>2, <3>1, EndsProtocol
  <2>3. CASE /\ Publishable /\ op' = [op EXCEPT !.pc = "reserveWrite", !.had = root.cur # None]
             /\ reply' = reply
    <3>1. op'.pc = "reserveWrite" /\ op'.had = (root.cur # None)
      BY <1>1, <2>3 DEF Operations
    <3>2. root.cur # None => Sealed(trees', root.cur)
      BY <2>1, <2>3 DEF Publishable, CurrentOrPristine
    <3>. QED BY <1>3, <1>4, <2>1, <2>3, <3>1, <3>2
  <2>. QED BY <1>10, <2>2, <2>3 DEF Validate, End
<1>11. CASE ReserveWrite \/ OrderWrite
  <2>1. /\ root' = [root EXCEPT !.staged = TRUE] /\ disk' = disk \cup {root'}
        /\ \/ op.pc = "reserveWrite" /\ Goto("reserveRename")
           \/ op.pc = "orderWrite" /\ Goto("orderRename")
        /\ UNCHANGED trees
    BY <1>11, Zenon DEF ReserveWrite, OrderWrite, StageOrder, ChangeRoot
  <2>2. Pointer(root') = Pointer(root)
    BY <1>1, <2>1 DEF Pointer, Roots
  <2>. QED BY <1>7, <2>1, <2>2
<1>12. CASE ReserveRename
  <2>1. root' = [root EXCEPT !.staged = FALSE, !.next = @ + 1] /\ disk' = disk \cup {root'} /\ Goto("reserveSync")
    BY <1>12 DEF ReserveRename, ChangeRoot
  <2>2. Pointer(root') = Pointer(root)
    BY <1>1, <2>1 DEF Pointer, Roots
  <2>3. op.pc = "reserveRename" /\ UNCHANGED trees
    BY <1>12 DEF ReserveRename, ChangeRoot
  <2>. QED BY <1>7, <2>1, <2>2, <2>3
<1>13. CASE ReserveSync
  BY <1>6, <1>13 DEF ReserveSync, SyncRoot
<1>14. ASSUME NEW g \in Ids, Allocate(g) PROVE ProtocolInv'
  <2>1. /\ op.pc = "allocate" /\ trees[g] = "none" /\ op' = [op EXCEPT !.pc = "orderWrite", !.gen = g]
        /\ reply' = reply /\ UNCHANGED <<root, disk>>
    BY <1>14 DEF Allocate, ChangeTrees
  <2>2. op'.pc = "orderWrite" /\ op'.gen = g /\ op'.had = op.had
    BY <1>1, <2>1 DEF Operations
  <2>3. root.cur \in Ids => trees[root.cur] = "sealed"
    BY <1>3, <2>1, NamesAreDistinct DEF Sealed
  <2>4. op'.gen # root.cur
    BY <2>1, <2>2, <2>3
  <2>. QED BY <1>3, <1>4, <2>1, <2>2, <2>4
<1>15. CASE OrderRename
  <2>1. /\ root' = [root EXCEPT !.staged = FALSE, !.seq[op.gen] = root.next - 1] /\ disk' = disk \cup {root'}
        /\ Goto("orderSync") /\ op.pc = "orderRename"
    BY <1>15 DEF OrderRename, ChangeRoot
  <2>2. Pointer(root') = Pointer(root)
    BY <1>1, <2>1 DEF Pointer, Roots
  <2>. QED BY <1>7, <2>1, <2>2
<1>16. CASE OrderSync
  BY <1>6, <1>16 DEF OrderSync, SyncRoot
<1>17. CASE Install
  BY <1>6, <1>17 DEF Install, ChangeTrees
<1>18. CASE InstallSync
  <2>1. op.pc = "installSync" /\ Goto("journalCreate") /\ UNCHANGED <<root, disk>>
    BY <1>18 DEF InstallSync, SyncTrees
  <2>2. op.gen \in Ids
    BY <2>1 DEF PointerInv, Publishing
  <2>3. PICK c \in Ids \cup {None} : root.cur = c
    BY <1>1
  <2>4. PICK g \in Ids : op.gen = g
    BY <2>2
  <2>5. op'.pc = "journalCreate" /\ op'.gen = g /\ op'.had = op.had /\ op'.kind = "publish" /\ reply'.result = "none"
    BY <1>1, <1>3, <2>1, <2>4, Zenon DEF Goto, Operations
  <2>6. c # g /\ op.had = (c # None)
    BY <1>3, <2>1, <2>3, <2>4, Zenon
  <2>7. Transaction(c, g)'
    BY <1>3, <2>1, <2>3, <2>5, <2>6, Zenon DEF Transaction
  <2>8. "journalCreate" \in PointerPcs
    BY DEF PointerPcs
  <2>. QED BY <2>1, <2>5, <2>7, <2>8, PointerProtocol
<1>. QED BY <1>8, <1>9, <1>10, <1>11, <1>12, <1>13, <1>14, <1>15, <1>16, <1>17, <1>18, SMTT(30) DEF PublishStep

\* An operation starts on what it finds.
LEMMA BeginProtocol ==
  ASSUME PointerInv, ProtocolInv, BeginStep
  PROVE  ProtocolInv'
<1> USE DEF At
<1>1. /\ op \in Operations /\ root \in Roots /\ root \in disk /\ Known(Pointer(root))
      /\ root.cur \in Ids \cup {None} /\ \A q \in disk : Known(Pointer(q))
  BY RootIsRoot, KnownNames DEF PointerInv, ProtocolInv
<1>2. ASSUME NEW k \in Kinds, NEW x \in FirstPcs, NEW g \in Ids \cup {None}, Begin(k, x, g),
             x \in {"cleanStaging", "cleanPointer"} => k \in {"publish", "recover", "rollback"}
      PROVE  ProtocolInv'
  <2>1. op'.pc = x /\ op'.kind = k /\ reply'.result = "none" /\ UNCHANGED <<root, disk>>
    BY <1>2 DEF Begin, Idle, NoReply, files
  <2>. QED BY <1>1, <1>2, <2>1, FirstProtocol
<1>3. CASE OpenStore
  BY <1>2, <1>3 DEF OpenStore, FirstPcs, Kinds
<1>4. ASSUME NEW x \in {"openWrite", "openSync"}, NEW y \in {"torn", "written"},
             op.pc \in {"openCreate", "openWrite"}, Goto(x), ChangeRoot([root EXCEPT !.order = y])
      PROVE  ProtocolInv'
  <2>1. root' = [root EXCEPT !.order = y] /\ disk' = disk \cup {root'}
    BY <1>4 DEF ChangeRoot
  <2>2. Pointer(root') = Pointer(root)
    BY <1>1, <2>1 DEF Pointer, Roots
  <2>3. op'.pc = x /\ reply'.result = "none"
    BY <1>1, <1>4 DEF Goto, Operations, ProtocolInv
  <2>4. x \in FirstPcs /\ x \notin {"cleanStaging", "cleanPointer"}
    BY <1>4 DEF FirstPcs
  <2>. QED BY <1>1, <2>1, <2>2, <2>3, <2>4, FirstProtocol, SMTT(30)
<1>5. CASE OpenCreate
  BY <1>4, <1>5 DEF OpenCreate
<1>6. CASE OpenWrite
  BY <1>4, <1>6 DEF OpenWrite
<1>7. CASE OpenSync
  BY <1>1, <1>7, EndsProtocol DEF OpenSync, End, SyncRoot
<1>8. CASE Publish \/ Recover
  BY <1>2, <1>8 DEF Publish, Recover, FirstPcs, Kinds
<1>9. CASE \E g \in Ids : Rollback(g)
  BY <1>2, <1>9 DEF Rollback, FirstPcs, Kinds
<1>10. CASE GarbageCollect
  BY <1>2, <1>10 DEF GarbageCollect, FirstPcs, CollectPcs, Kinds
<1>11. CASE EnsureCurrent
  <2>1. UNCHANGED <<root, disk>>
    BY <1>11 DEF EnsureCurrent, KeepFiles
  <2>2. CASE op' = Idle
    BY <1>1, <2>1, <2>2, EndsProtocol
  <2>3. CASE /\ root.cur = None /\ Inspection = "clean"
             /\ op' = [Idle EXCEPT !.kind = "publish", !.pc = "reserveWrite"] /\ reply' = NoReply
    <3>1. op'.pc = "reserveWrite" /\ op'.had = FALSE /\ reply'.result = "none"
      BY <2>3 DEF Idle, NoReply
    <3>2. Pointer(root) = Clean(root.cur)
      BY <1>1, <2>3, Verdicts, VerdictShape DEF Inspection
    <3>3. op'.pc \in ReadyPcs /\ op'.pc # "resolve" /\ op'.pc \notin StagedPcs
      BY <3>1 DEF ReadyPcs, PublishPcs, StagedPcs
    <3>. QED BY <1>1, <2>1, <2>3, <3>1, <3>2, <3>3, ReadyProtocol, ZenonT(30)
  <2>. QED BY <1>11, <2>2, <2>3 DEF EnsureCurrent, End
<1>. QED BY <1>3, <1>5, <1>6, <1>7, <1>8, <1>9, <1>10, <1>11, ZenonT(30) DEF BeginStep

\* The collector leaves the root alone.
LEMMA CollectProtocol ==
  ASSUME PointerInv, ProtocolInv, CollectStep
  PROVE  ProtocolInv'
<1> USE DEF At
<1>1. /\ op \in Operations /\ op.pc \in CollectPcs /\ UNCHANGED <<root, disk>>
  BY Zenon DEF CollectStep, CollectPcs, PointerInv, ReclaimLease, ChooseVictims, BreakTree, RemoveTree, GcSync, GcEnd,
         ChangeTrees, SyncTrees, KeepFiles, files
<1>2. op.pc \in FirstPcs /\ op.pc # "idle"
  BY <1>1 DEF FirstPcs, CollectPcs
<1>3. (\A q \in disk : Known(Pointer(q))) /\ reply.result = "none"
  BY <1>2 DEF ProtocolInv
<1>4. ASSUME op'.pc \in CollectPcs, reply' = reply PROVE ProtocolInv'
  <2>1. op'.pc \in FirstPcs /\ op'.pc \notin {"cleanStaging", "cleanPointer"}
    BY <1>4 DEF FirstPcs, CollectPcs
  <2>. QED BY <1>1, <1>3, <1>4, <2>1, FirstProtocol
<1>5. CASE op' = Idle
  BY <1>1, <1>3, <1>5, EndsProtocol, SMTT(30)
<1>6. op' = Idle \/ (op'.pc \in CollectPcs /\ reply' = reply)
  <2>1. CASE \E l \in leases : ReclaimLease(l)
    BY <1>1, <2>1 DEF ReclaimLease
  <2>2. CASE ChooseVictims
    BY <1>1, <2>2 DEF ChooseVictims, CollectPcs, Operations
  <2>3. CASE \E g \in op.victims : BreakTree(g)
    <3>1. PICK g \in op.victims : BreakTree(g)
      BY <2>3
    <3>2. op'.pc = "gcRemove" /\ reply' = reply
      BY <1>1, <3>1 DEF BreakTree, Operations
    <3>. QED BY <3>2 DEF CollectPcs
  <2>4. CASE RemoveTree \/ GcSync
    BY <1>1, <2>4 DEF RemoveTree, GcSync, Goto, CollectPcs, Operations
  <2>5. CASE GcEnd
    BY <2>5 DEF GcEnd, End
  <2>. QED BY <2>1, <2>2, <2>3, <2>4, <2>5 DEF CollectStep
<1>. QED BY <1>4, <1>5, <1>6

\* Selections, diffs, faults, crashes and power losses.
LEMMA RestProtocol ==
  ASSUME PointerInv, ProtocolInv, ReaderStep \/ ProcessStep \/ FaultStep \/ UNCHANGED vars
  PROVE  ProtocolInv'
<1> USE DEF At
<1>1. CASE UNCHANGED <<root, disk, trees, op, reply>>
  <2>1. Cleaning' <=> Cleaning
    BY <1>1, ZenonT(30) DEF Cleaning, Sealed
  <2>2. \A c : Transaction(c, op.gen)' <=> Transaction(c, op.gen)
    BY <1>1 DEF Transaction, Stands
  <2>. QED BY <1>1, <2>1, <2>2, Zenon DEF ProtocolInv
<1>2. CASE op' = Idle /\ disk' \subseteq disk
  BY <1>2, EndsProtocol, Zenon DEF ProtocolInv
<1>3. CASE CommitSyncFails
  <2>1. op.pc = "commitSync" /\ Goto("undo") /\ UNCHANGED <<root, disk>>
    BY <1>3 DEF CommitSyncFails, files
  <2>2. op.pc \in PointerPcs /\ "undo" \in PointerPcs /\ op \in Operations /\ trees \in treeDisk
    BY <2>1 DEF PointerPcs, PointerInv
  <2>3. op.gen \in Ids
    BY <2>2 DEF PointerInv, TargetSealed, Sealed
  <2>4. PICK g \in Ids : op.gen = g
    BY <2>3
  <2>5. PICK c \in Ids \cup {None} : Transaction(c, g)
    BY <2>2, <2>4 DEF ProtocolInv
  <2>6. /\ op'.pc = "undo" /\ op'.gen = g /\ op'.had = op.had /\ op'.kind = op.kind /\ reply' = reply
        /\ op.kind \in {"publish", "rollback"} /\ reply.result = "none"
    BY <2>1, <2>2, <2>4, Zenon DEF Goto, Operations, ProtocolInv
  <2>7. Transaction(c, g)'
    BY <2>1, <2>5, <2>6, Zenon DEF Transaction, Stands
  <2>. QED BY <2>1, <2>2, <2>6, <2>7, PointerProtocol, Zenon
<1>4. CASE ReaderStep
  BY <1>1, <1>4, ZenonT(30) DEF ReaderStep, OpenReader, DiffCurrent, files
<1>5. CASE ProcessStep
  BY <1>1, <1>5 DEF ProcessStep, SelectCurrent, Release, Die, files
<1>6. CASE CallFails \/ Crash
  BY <1>2, <1>6 DEF CallFails, Crash, End, files
<1>7. CASE SelectFails
  BY <1>1, <1>7 DEF SelectFails, files
<1>8. CASE PowerLoss
  BY <1>2, <1>8 DEF PowerLoss
<1>9. CASE UNCHANGED vars
  BY <1>1, <1>9 DEF vars
<1>. QED BY <1>3, <1>4, <1>5, <1>6, <1>7, <1>8, <1>9, Zenon DEF FaultStep

-----------------------------------------------------------------------------
\* Together the two invariants are inductive.
LEMMA ProtocolInit == Init => ProtocolInv
<1> SUFFICES ASSUME Init PROVE ProtocolInv
  OBVIOUS
<1>1. op = Idle /\ op.pc = "idle" /\ disk = {EmptyRoot}
  BY Zenon DEF Init, Idle
<1>2. Pointer(EmptyRoot) = Clean(None)
  BY DEF EmptyRoot, Pointer, Clean
<1>3. \A r \in disk : Known(Pointer(r))
  BY <1>1, <1>2, ZenonT(30) DEF Known
<1>4. Cleaning
  BY <1>1 DEF Cleaning, ReadyPcs, ReservePcs, SizedPcs, PublishPcs, StagedPcs
<1>. QED BY <1>1, <1>3, <1>4, Zenon DEF ProtocolInv, PointerPcs

\* Every step keeps the protocol.
LEMMA ProtocolNext ==
  ASSUME PointerInv, ProtocolInv, [Next]_vars
  PROVE  ProtocolInv'
BY BeginProtocol, CleaningProtocol, PublishProtocol, PointerStepProtocol, CollectProtocol, RestProtocol
   DEF Next

\* At every step of publish, rollback and recover the root holds one of the
\* five shapes of a pointer transaction, and so does all that a power loss may
\* leave of it.
THEOREM ProtocolInductive == Spec => [](PointerInv /\ ProtocolInv)
<1>1. PointerInv /\ ProtocolInv /\ [Next]_vars => PointerInv' /\ ProtocolInv'
  BY PointerNext, ProtocolNext, Zenon
<1>. QED BY <1>1, PointerInit, ProtocolInit, PTL DEF Spec

\* inspect_pointer_journals accepts every shape whose journal is written.
LEMMA KnownIsAccepted ==
  ASSUME NEW r, NEW t, Known(Pointer(r)), \A g \in Referenced(r) : Sealed(t, g), r.jc.body # Torn
  PROVE  InspectPointerJournals(r, t) # "error"
<1>1. r.cur # None => Sealed(t, r.cur)
  BY KnownNames, NamesAreDistinct DEF Referenced
<1>2. SUFFICES \/ Journals(r) = {} \/ DiscardsCurrent(r, t) \/ RollsBackCurrent(r, t) \/ RollsBackAbsent(r, t)
               \/ DiscardsPristine(r, t) \/ CleansCommitted(r, t)
  BY <1>1, ZenonT(30) DEF InspectPointerJournals
<1>3. CASE \E c \in Ids \cup {None} : Pointer(r) = Clean(c)
  <2>1. r.jc = NoFile /\ r.ja = None /\ r.jm = NoFile
    BY <1>3, CleanShape, Zenon
  <2>. QED BY <2>1, JournalsPresent DEF NoFile
<1>4. ASSUME NEW c \in Ids \cup {None}, NEW g \in Ids, c # g,
             Pointer(r) \in {Prepared(c, g, Torn), Prepared(c, g, g), Journalled(c, g), Exchanged(c, g),
                             Settled(c, g)}
      PROVE  \/ DiscardsCurrent(r, t) \/ RollsBackCurrent(r, t) \/ RollsBackAbsent(r, t)
             \/ DiscardsPristine(r, t) \/ CleansCommitted(r, t)
  <2>1. g # None /\ g # Torn /\ c # Torn
    BY NamesAreDistinct, ZenonT(30)
  <2>2. CASE Pointer(r) = Prepared(c, g, Torn)
    BY <2>2, PreparedShape, SMTT(30)
  <2>3. CASE Pointer(r) = Prepared(c, g, g)
    <3>1. r.cur = c /\ r.jc.id = g /\ r.jc.body = g /\ r.ja = None /\ r.jm.id = None
      BY <2>3, PreparedShape
    <3>2. Sealed(t, g)
      BY <2>1, <3>1, ZenonT(30) DEF Referenced
    <3>. QED BY <1>4, <2>1, <3>1, <3>2, JournalsPresent, SMTT(30) DEF DiscardsCurrent
  <2>4. CASE Pointer(r) = Journalled(c, g)
    <3>1. /\ r.cur = c /\ r.jc.id = g /\ r.jc.body = g /\ r.ja = (IF c = None THEN g ELSE None)
          /\ r.jm.id = None
      BY <2>4, JournalledShape, SMTT(30)
    <3>2. Sealed(t, g)
      BY <2>1, <3>1, SMTT(30) DEF Referenced
    <3>. QED BY <1>4, <2>1, <3>1, <3>2, JournalsPresent, SMTT(30) DEF DiscardsCurrent, DiscardsPristine
  <2>5. CASE Pointer(r) = Exchanged(c, g)
    <3>1. /\ r.cur = g /\ r.jc.id = (IF c = None THEN None ELSE g) /\ r.jc.body = c
          /\ r.ja = (IF c = None THEN g ELSE None) /\ r.jm.id = None
      BY <2>5, ExchangedShape
    <3>2. Sealed(t, g) /\ (c # None => Sealed(t, c))
      BY <2>1, <3>1, ZenonT(30) DEF Referenced
    <3>. QED BY <1>4, <2>1, <3>1, <3>2, JournalsPresent, SMTT(30) DEF RollsBackCurrent, RollsBackAbsent
  <2>6. CASE Pointer(r) = Settled(c, g)
    <3>1. r.cur = g /\ r.jc.id = None /\ r.ja = None /\ r.jm.id = g /\ r.jm.body = c
      BY <2>6, SettledShape, SMTT(30)
    <3>2. Sealed(t, g) /\ (c # None => Sealed(t, c))
      BY <2>1, <3>1 DEF Referenced
    <3>. QED BY <1>4, <2>1, <3>1, <3>2, JournalsPresent, ZenonT(30) DEF CleansCommitted
  <2>. QED BY <1>4, <2>2, <2>3, <2>4, <2>5, <2>6, Zenon
<1>. QED BY <1>3, <1>4, ZenonT(30) DEF Known

\* recover() after a crash: whatever a power loss leaves of the root and of
\* generations/, inspect_pointer_journals accepts it, except a `.current-<id>`
\* that was created and not written, unless a rollback or a collection began on
\* changes that were not synced.
THEOREM EveryCrashLeavesARecoverableStore == Spec => []EveryCrashIsRecoverable
<1>1. PointerInv /\ ProtocolInv => EveryCrashIsRecoverable
  BY KnownIsAccepted, Zenon DEF PointerInv, ProtocolInv, Safe, EveryCrashIsRecoverable
<1>. QED BY <1>1, ProtocolInductive, PTL

-----------------------------------------------------------------------------
(* The store implements ActivationRegister.                                *)

Value == Recovered(root)
Durable == {Recovered(r) : r \in disk}
EffectedPcs == {"settleSync", "cleanup", "cleanupSync"}

\* A transaction from c to g: recovery finds c until it is settled and g from
\* then on, and once the journal is synced a power loss leaves nothing else.
LEMMA TransactionValue ==
  \A k \in Ids \cup {None}, h \in Ids :
    root \in disk /\ Transaction(k, h) =>
      /\ op.pc \notin EffectedPcs => Value = k
      /\ op.pc \in EffectedPcs => Value = h
      /\ op.pc = "undoSync" => Durable = {k}
      /\ op.pc \in {"cleanup", "cleanupSync"} => Durable = {h}
<1> SUFFICES ASSUME NEW c \in Ids \cup {None}, NEW g \in Ids, root \in disk, Transaction(c, g)
             PROVE  /\ op.pc \notin EffectedPcs => Value = c
                    /\ op.pc \in EffectedPcs => Value = g
                    /\ op.pc = "undoSync" => Durable = {c}
                    /\ op.pc \in {"cleanup", "cleanupSync"} => Durable = {g}
  BY Zenon
<1>1. \A r : Recovered(r) = Recovered(Pointer(r))
  BY RecoveredAt
<1>2. /\ Recovered(Clean(c)) = c /\ Recovered(Clean(g)) = g
      /\ Recovered(Prepared(c, g, Torn)) = c /\ Recovered(Prepared(c, g, g)) = c
      /\ Recovered(Journalled(c, g)) = c /\ Recovered(Exchanged(c, g)) = c
      /\ Recovered(Settled(c, g)) = g /\ c # g
  BY RecoveredAt, Zenon DEF Transaction
<1>3. ASSUME NEW v, \A r \in disk : Recovered(r) = v PROVE Durable = {v}
  BY <1>3 DEF Durable
<1>4. op.pc \notin EffectedPcs => Value = c
  <2>1. op.pc \notin EffectedPcs =>
          Pointer(root) \in {Clean(c), Prepared(c, g, Torn), Prepared(c, g, g), Journalled(c, g), Exchanged(c, g)}
    BY Zenon DEF Transaction, Stands, EffectedPcs
  <2>. QED BY <1>1, <1>2, <2>1, Zenon DEF Value
<1>5. op.pc \in EffectedPcs => Value = g
  <2>1. op.pc \in EffectedPcs => Pointer(root) \in {Settled(c, g), Clean(g)}
    BY DEF Transaction, Stands, EffectedPcs
  <2>. QED BY <1>1, <1>2, <2>1, Zenon DEF Value
<1>6. CASE op.pc = "undoSync"
  <2>1. \A r \in disk : Pointer(r) \in {Journalled(c, g), Exchanged(c, g), Prepared(c, g, g)}
    BY <1>6 DEF Transaction, Stands
  <2>2. \A r \in disk : Recovered(r) = c
    BY <1>1, <1>2, <2>1, Zenon
  <2>. QED BY <1>3, <1>4, <1>5, <1>6, <2>2, Zenon
<1>7. CASE op.pc \in {"cleanup", "cleanupSync"}
  <2>1. \A r \in disk : Pointer(r) \in {Settled(c, g), Clean(g)}
    BY <1>7 DEF Transaction, Stands
  <2>2. \A r \in disk : Recovered(r) = g
    BY <1>1, <1>2, <2>1, Zenon
  <2>. QED BY <1>3, <1>4, <1>5, <1>7, <2>2, Zenon
<1>. QED BY <1>4, <1>5, <1>6, <1>7, Zenon

\* A root changed, synced or kept, with the same recovered value, adds no value
\* to what a power loss may leave.
LEMMA DurableSteps ==
  ASSUME root \in disk, Value' = Value, disk' \in {disk, {root'}, disk \cup {root'}}
  PROVE  Durable' \in {Durable, {Value}}
<1>1. Value \in Durable
  BY DEF Value, Durable
<1>2. CASE disk' = disk
  BY <1>2 DEF Durable
<1>3. CASE disk' = {root'}
  BY <1>3 DEF Durable, Value
<1>4. CASE disk' = disk \cup {root'}
  <2>1. Durable' = Durable \cup {Value'}
    BY <1>4 DEF Durable, Value
  <2>. QED BY <1>1, <2>1
<1>. QED BY <1>2, <1>3, <1>4

\* The steps of the register.
LEMMA AsNoEffect ==
  ASSUME NEW a \in {"none", "error", "not_committed"}, reply'.result = a,
         op.pc \notin PointerPcs, op'.pc \notin PointerPcs, Value' = Value, Durable' \in {Durable, {Value}}
  PROVE  Register!Next
<1>1. op.pc \notin EffectedPcs /\ op'.pc \notin EffectedPcs
  BY DEF PointerPcs, EffectedPcs
<1>2. Register!NoEffect(a)
  BY <1>1 DEF Register!NoEffect, Value, Durable, EffectedPcs
<1>3. a \in Register!Answers
  BY Zenon DEF Register!Answers
<1>. QED BY <1>2, <1>3 DEF Register!Next

\* An operation finds its value in place.
LEMMA AsRetain ==
  ASSUME op.pc \notin PointerPcs, op' = Idle, UNCHANGED <<root, disk>>, Value # None, reply'.result = "committed"
  PROVE  Register!Next
<1>1. op'.pc \notin PointerPcs /\ op.pc \notin EffectedPcs /\ op'.pc \notin EffectedPcs
  BY DEF Idle, PointerPcs, EffectedPcs
<1>2. Register!Retain
  BY <1>1 DEF Register!Retain, Value, EffectedPcs
<1>. QED BY <1>2 DEF Register!Next

\* A step that is none of the register's, or that makes its value durable.
LEMMA AsQuiet ==
  ASSUME Value' = Value, Durable' \in {Durable, {Value}}, reply'.result = reply.result,
         op.pc \in PointerPcs <=> op'.pc \in PointerPcs, op'.pc \in PointerPcs => op'.gen = op.gen,
         op.pc \in EffectedPcs <=> op'.pc \in EffectedPcs
  PROVE  Register!Next \/ UNCHANGED Register!vars
<1>1. CASE Durable' = Durable
  BY <1>1 DEF Register!vars, Value, Durable, EffectedPcs
<1>2. CASE Durable' = {Value}
  <2>1. Register!Persist
    BY <1>2 DEF Register!Persist, Value, Durable, EffectedPcs
  <2>. QED BY <2>1 DEF Register!Next
<1>. QED BY <1>1, <1>2

\* An operation fixes its target.
LEMMA AsStart ==
  ASSUME op.pc \notin PointerPcs, op'.pc = "journalCreate", op'.gen \in Ids, reply'.result = "none",
         UNCHANGED <<root, disk>>
  PROVE  Register!Next
<1>1. op'.pc \in PointerPcs /\ op'.pc \notin EffectedPcs
  BY DEF PointerPcs, EffectedPcs
<1>2. PICK g \in Ids : op'.gen = g
  OBVIOUS
<1>3. Register!Start(g)
  BY <1>1, <1>2 DEF Register!Start, EffectedPcs
<1>. QED BY <1>3 DEF Register!Next

\* An operation with a target ends.
LEMMA AsFinish ==
  ASSUME NEW a \in {"committed", "cleanup_pending", "ambiguous", "not_committed"}, reply'.result = a,
         op.pc \in PointerPcs, op.gen \in Ids, op' = Idle, Value' = Value, Durable' = Durable,
         a \in {"committed", "cleanup_pending"} => Durable = {op.gen},
         a = "not_committed" => op.pc \notin EffectedPcs
  PROVE  Register!Next
<1>1. op'.pc \notin PointerPcs /\ op'.pc \notin EffectedPcs
  BY DEF Idle, PointerPcs, EffectedPcs
<1>2. op.gen # None
  BY NamesAreDistinct, Zenon
<1>3. Register!Finish(a)
  BY <1>1, <1>2 DEF Register!Finish, Value, Durable, EffectedPcs
<1>4. a \in Register!Answers
  BY DEF Register!Answers
<1>. QED BY <1>3, <1>4, Zenon DEF Register!Next

\* The pointer transaction writes the register at its settlement.
LEMMA PointerRegister ==
  ASSUME PointerInv, ProtocolInv, PointerInv', PointerStep
  PROVE  Register!Next \/ UNCHANGED Register!vars
<1> USE DEF At
<1>1. op.pc \in PointerPcs /\ op \in Operations /\ root \in disk /\ root' \in disk'
  BY ZenonT(30) DEF PointerStep, PointerPcs, PointerInv, JournalCreate, JournalWrite, AbsentCreate, JournalSync,
         CommitPointer, CommitSync, Settle, SettleSync, Cleanup, CleanupSync, Undo, UndoAbsent, UndoSync
<1>2. PICK g \in Ids : op.gen = g
  BY <1>1 DEF PointerInv, TargetSealed
<1>3. PICK c \in Ids \cup {None} : Transaction(c, g)
  BY <1>1, <1>2 DEF ProtocolInv
<1>4. /\ op.pc \notin EffectedPcs => Value = c
      /\ op.pc \in EffectedPcs => Value = g
      /\ op.pc = "undoSync" => Durable = {c}
      /\ op.pc \in {"cleanup", "cleanupSync"} => Durable = {g}
  BY <1>1, <1>3, TransactionValue, Zenon
<1>5. Transaction(c, g)' => /\ op'.pc \notin EffectedPcs => Value' = c
                            /\ op'.pc \in EffectedPcs => Value' = g
  <2>1. (\A k \in Ids \cup {None}, h \in Ids :
          root \in disk /\ Transaction(k, h) =>
            /\ op.pc \notin EffectedPcs => Value = k
            /\ op.pc \in EffectedPcs => Value = h
            /\ op.pc = "undoSync" => Durable = {k}
            /\ op.pc \in {"cleanup", "cleanupSync"} => Durable = {h})'
    BY TransactionValue, PTL
  <2>. QED BY <1>1, <2>1, Zenon
<1>6. ASSUME NEW x \in PointerPcs, Goto(x)
      PROVE  op'.pc = x /\ op'.gen = op.gen /\ reply' = reply /\ Transaction(c, g)'
  <2>1. op'.pc = x /\ op'.gen = op.gen /\ reply' = reply
    BY <1>1, <1>6, Zenon DEF Goto, Operations
  <2>2. op' # Idle
    BY <1>6, <2>1 DEF Idle, PointerPcs
  <2>. QED BY <1>2, <1>3, <2>1, <2>2, TransactionProceeds
<1>7. ASSUME NEW x \in PointerPcs, Goto(x), disk' \in {disk, {root'}, disk \cup {root'}},
             op.pc \in EffectedPcs <=> x \in EffectedPcs
      PROVE  Register!Next \/ UNCHANGED Register!vars
  <2>1. op'.pc = x /\ op'.gen = op.gen /\ reply' = reply /\ Transaction(c, g)'
    BY <1>6, <1>7
  <2>2. Value' = Value
    BY <1>4, <1>5, <1>7, <2>1, Zenon
  <2>3. Durable' \in {Durable, {Value}}
    BY <1>1, <1>7, <2>2, DurableSteps
  <2>. QED BY <1>1, <1>7, <2>1, <2>2, <2>3, AsQuiet, Zenon
<1>8. ASSUME SyncRoot PROVE Value' = Value /\ Durable' = {Value} /\ disk' = {root'}
  BY <1>8 DEF SyncRoot, Value, Durable
<1>9. CASE JournalCreate \/ JournalWrite \/ AbsentCreate \/ CommitPointer \/ Cleanup \/ Undo \/ UndoAbsent
  <2>1. disk' = disk \cup {root'}
    BY <1>9 DEF JournalCreate, JournalWrite, AbsentCreate, CommitPointer, Cleanup, Undo, UndoAbsent, ChangeRoot
  <2>2. \E x \in PointerPcs : Goto(x) /\ (op.pc \in EffectedPcs <=> x \in EffectedPcs)
    BY <1>9 DEF JournalCreate, JournalWrite, AbsentCreate, CommitPointer, Cleanup, Undo, UndoAbsent, PointerPcs,
                EffectedPcs
  <2>. QED BY <1>7, <2>1, <2>2
<1>10. CASE JournalSync \/ CommitSync \/ SettleSync
  <2>1. disk' = {root'}
    BY <1>8, <1>10 DEF JournalSync, CommitSync, SettleSync
  <2>2. \E x \in PointerPcs : Goto(x) /\ (op.pc \in EffectedPcs <=> x \in EffectedPcs)
    BY <1>10 DEF JournalSync, CommitSync, SettleSync, PointerPcs, EffectedPcs
  <2>. QED BY <1>7, <2>1, <2>2
<1>11. CASE Settle
  <2>1. op.pc = "settle" /\ Goto("settleSync") /\ disk' = disk \cup {root'}
    BY <1>11 DEF Settle, ChangeRoot
  <2>2. "settleSync" \in PointerPcs /\ "settleSync" \in EffectedPcs /\ "settle" \notin EffectedPcs
    BY DEF PointerPcs, EffectedPcs
  <2>3. op'.pc = "settleSync" /\ op'.gen = op.gen /\ reply' = reply /\ Value' = g
    BY <1>5, <1>6, <2>1, <2>2
  <2>4. Durable' = Durable \cup {Value'}
    BY <2>1 DEF Value, Durable
  <2>5. op.gen # None
    BY <1>2, NamesAreDistinct
  <2>6. Register!TakeEffect
    BY <1>1, <1>2, <2>1, <2>2, <2>3, <2>4, <2>5, ZenonT(30) DEF Register!TakeEffect, Value, Durable, EffectedPcs
  <2>. QED BY <2>6 DEF Register!Next
<1>12. CASE CleanupSync
  <2>1. op.pc = "cleanupSync" /\ op' = Idle /\ reply'.result = "committed" /\ Value' = Value /\ Durable' = {Value}
    BY <1>8, <1>12 DEF CleanupSync, End
  <2>2. Durable = {g} /\ Value = g
    BY <1>4, <2>1 DEF EffectedPcs
  <2>. QED BY <1>1, <1>2, <2>1, <2>2, AsFinish, Zenon
<1>13. CASE UndoSync
  <2>1. op.pc = "undoSync" /\ op' = Idle /\ reply'.result = "not_committed" /\ Value' = Value /\ Durable' = {Value}
    BY <1>8, <1>13 DEF UndoSync, End
  <2>2. Durable = {c} /\ Value = c /\ op.pc \notin EffectedPcs
    BY <1>4, <2>1 DEF EffectedPcs
  <2>. QED BY <1>1, <1>2, <2>1, <2>2, AsFinish, Zenon
<1>. QED BY <1>9, <1>10, <1>11, <1>12, <1>13, Zenon DEF PointerStep

\* A step between two stages that have no target.
LEMMA QuietRegister ==
  ASSUME root \in disk, Value' = Value, disk' \in {disk, {root'}, disk \cup {root'}}, reply' = reply,
         op.pc \notin PointerPcs, op'.pc \notin PointerPcs
  PROVE  Register!Next \/ UNCHANGED Register!vars
<1>1. op.pc \notin EffectedPcs /\ op'.pc \notin EffectedPcs
  BY DEF PointerPcs, EffectedPcs
<1>2. Durable' \in {Durable, {Value}}
  BY DurableSteps
<1>. QED BY <1>1, <1>2, AsQuiet

\* An operation without a target starts or ends.
LEMMA PlainRegister ==
  ASSUME root \in disk, root' = root, disk' \in {disk, {root}}, op.pc \notin PointerPcs, op'.pc \notin PointerPcs,
         reply'.result \in {"none", "error", "not_committed"}
  PROVE  Register!Next
<1>1. Value' = Value
  BY DEF Value
<1>2. Durable' \in {Durable, {Value}}
  BY <1>1, DurableSteps
<1>3. PICK a \in {"none", "error", "not_committed"} : reply'.result = a
  OBVIOUS
<1>. QED BY <1>1, <1>2, <1>3, AsNoEffect, Zenon

\* Starting an operation writes nothing; ensure_current may answer at once.
LEMMA BeginRegister ==
  ASSUME PointerInv, ProtocolInv, BeginStep
  PROVE  Register!Next \/ UNCHANGED Register!vars
<1> USE DEF At
<1>1. op \in Operations /\ root \in disk /\ root \in Roots /\ Known(Pointer(root))
  BY RootIsRoot DEF PointerInv, ProtocolInv
<1>2. ASSUME NEW k, NEW x \in {"openCreate", "cleanStaging", "cleanPointer", "gcLeases"}, NEW g, Begin(k, x, g)
      PROVE  Register!Next
  <2>1. op'.pc = x /\ reply'.result = "none" /\ op.pc = "idle" /\ UNCHANGED <<root, disk>>
    BY <1>2 DEF Begin, Idle, NoReply, files
  <2>. QED BY <1>1, <1>2, <2>1, PlainRegister DEF PointerPcs
<1>3. CASE OpenStore \/ Publish \/ Recover \/ GarbageCollect
  BY <1>2, <1>3 DEF OpenStore, Publish, Recover, GarbageCollect
<1>4. CASE \E g \in Ids : Rollback(g)
  BY <1>2, <1>4 DEF Rollback
<1>5. CASE OpenCreate \/ OpenWrite
  <2>1. PICK o \in {"torn", "written"} : ChangeRoot([root EXCEPT !.order = o])
    BY <1>5 DEF OpenCreate, OpenWrite
  <2>2. root' = [root EXCEPT !.order = o] /\ disk' = disk \cup {root'}
    BY <2>1 DEF ChangeRoot
  <2>3. Value' = Value
    BY <1>1, <2>2 DEF Value, Recovered, Roots
  <2>4. /\ op.pc \in {"openCreate", "openWrite"} /\ op'.pc \in {"openWrite", "openSync"} /\ reply' = reply
    BY <1>1, <1>5 DEF OpenCreate, OpenWrite, Goto, Operations
  <2>. QED BY <1>1, <2>2, <2>3, <2>4, QuietRegister DEF PointerPcs
<1>6. CASE OpenSync
  <2>1. op.pc = "openSync" /\ op'.pc = "idle" /\ reply'.result = "none" /\ root' = root /\ disk' = {root}
    BY <1>6 DEF OpenSync, End, SyncRoot, Idle
  <2>. QED BY <1>1, <2>1, PlainRegister DEF PointerPcs
<1>7. CASE EnsureCurrent
  <2>1. op.pc = "idle" /\ op.pc \notin PointerPcs /\ UNCHANGED <<root, disk>>
    BY <1>7, SMTT(30) DEF EnsureCurrent, KeepFiles, Idle, PointerPcs
  <2>2. CASE root.cur # None /\ End("committed", root.cur)
    <3>1. Inspection \in {"clean", "cleanup_committed"}
      BY <1>7 DEF EnsureCurrent
    <3>2. Journals(root) = {} \/ CleansCommitted(root, trees)
      BY <3>1, Verdicts DEF Inspection
    <3>3. Recovered(root) = root.cur
      <4>1. CASE Journals(root) = {}
        <5>1. Pointer(root) = Clean(root.cur)
          BY <1>1, <4>1, VerdictShape, Zenon
        <5>2. root.cur \in Ids \cup {None}
          BY <1>1, KnownNames
        <5>. QED BY <5>1, <5>2, RecoveredAt, Zenon
      <4>2. CASE CleansCommitted(root, trees)
        BY <1>1, <4>2, VerdictShape, Zenon
      <4>. QED BY <3>2, <4>1, <4>2
    <3>. QED BY <2>1, <2>2, <3>3, AsRetain DEF End, Value
  <2>3. CASE op' = [Idle EXCEPT !.kind = "publish", !.pc = "reserveWrite"] /\ reply' = NoReply
    <3>1. op'.pc = "reserveWrite" /\ reply'.result = "none"
      BY <2>3 DEF Idle, NoReply
    <3>. QED BY <1>1, <2>1, <3>1, PlainRegister DEF PointerPcs
  <2>. QED BY <1>7, <2>2, <2>3 DEF EnsureCurrent
<1>. QED BY <1>3, <1>4, <1>5, <1>6, <1>7, SMTT(30) DEF BeginStep

\* Neither does cleaning the journals: recovery finds what it would have found.
LEMMA CleaningRegister ==
  ASSUME PointerInv, ProtocolInv, CleaningStep
  PROVE  Register!Next \/ UNCHANGED Register!vars
<1> USE DEF At
<1>1. op \in Operations /\ root \in disk
  BY DEF PointerInv
<1> DEFINE Later == {"cleanPointer", "absentSync", "dropAbsent", "dropCurrent", "cleanSync", "cleanOrder", "resolve"}
<1>2. CASE \E x \in Later : Goto(x) /\ disk' \in {disk, {root'}, disk \cup {root'}} /\ op.pc \in Later \cup {"cleanStaging"}
  <2>1. op'.pc \in Later /\ reply' = reply
    BY <1>1, <1>2 DEF Goto, Operations
  <2>2. op.pc \notin PointerPcs /\ op'.pc \notin PointerPcs
    BY <1>2, <2>1 DEF PointerPcs
  <2>3. Value' = Value
    BY CleaningProtocol DEF Value
  <2>. QED BY <1>1, <1>2, <2>1, <2>2, <2>3, QuietRegister
<1>3. CASE CleanStaging \/ AbsentSync \/ DropAbsent \/ DropCurrent
  BY <1>2, <1>3 DEF CleanStaging, AbsentSync, DropAbsent, DropCurrent, SyncRoot, ChangeRoot
<1>4. AfterCleaning \in Later
  BY DEF AfterCleaning
<1>5. CASE CleanSync
  BY <1>2, <1>4, <1>5 DEF CleanSync, SyncRoot
<1>6. CASE CleanPointerStaging
  <2>1. op.pc = "cleanPointer"
    BY <1>6 DEF CleanPointerStaging
  <2>2. Inspection \in {"clean", "discard_current", "rollback_current", "rollback_absent", "discard_pristine",
                        "cleanup_committed"}
    BY <1>6, Verdicts DEF CleanPointerStaging, Inspection
  <2>3. \E x \in Later : Goto(x) /\ disk' \in {disk, {root'}, disk \cup {root'}}
    BY <1>4, <1>6, <2>2, Zenon DEF CleanPointerStaging, KeepFiles, ChangeRoot
  <2>. QED BY <1>2, <2>1, <2>3
<1>7. CASE Resolve
  <2>1. op.pc = "resolve" /\ UNCHANGED <<root, disk>> /\ reply.result = "none" /\ op.kind \in {"recover", "rollback"}
    BY <1>7 DEF Resolve, KeepFiles, ProtocolInv
  <2>2. op.pc \notin PointerPcs
    BY <2>1 DEF PointerPcs
  <2>3. CASE \E g : End(FailureResult, g) \/ End("none", g)
    <3>1. FailureResult \in {"error", "not_committed"}
      BY <2>1 DEF FailureResult
    <3>2. op'.pc \notin PointerPcs /\ reply'.result \in {"none", "error", "not_committed"}
      BY <2>3, <3>1 DEF End, Idle, PointerPcs
    <3>. QED BY <1>1, <2>1, <2>2, <3>2, PlainRegister
  <2>4. CASE Sealed(trees, root.cur) /\ End("committed", root.cur)
    <3>1. Pointer(root) = Clean(root.cur)
      BY <2>1 DEF ProtocolInv, Cleaning, ReadyPcs
    <3>2. root.cur \in Ids /\ root.cur # None
      BY <2>4, NamesAreDistinct DEF Sealed
    <3>3. Value = root.cur
      BY <3>1, <3>2, RecoveredAt, Zenon DEF Value
    <3>. QED BY <2>1, <2>2, <2>4, <3>2, <3>3, AsRetain DEF End
  <2>5. CASE op.kind = "rollback" /\ op' = [op EXCEPT !.pc = "journalCreate", !.had = TRUE] /\ reply' = reply
    <3>1. op'.pc = "journalCreate" /\ op'.gen = op.gen
      BY <1>1, <2>5 DEF Operations
    <3>2. op.gen \in Ids
      BY <2>5 DEF PointerInv, TargetSealed
    <3>. QED BY <2>1, <2>2, <2>5, <3>1, <3>2, AsStart, Zenon
  <2>. QED BY <1>7, <2>3, <2>4, <2>5 DEF Resolve
<1>. QED BY <1>3, <1>5, <1>6, <1>7 DEF CleaningStep

\* Staging and installing a generation writes nothing; then the target is fixed.
LEMMA PublishRegister ==
  ASSUME PointerInv, ProtocolInv, PublishStep
  PROVE  Register!Next \/ UNCHANGED Register!vars
<1> USE DEF At
<1>1. op \in Operations /\ root \in disk /\ root \in Roots
  BY RootIsRoot DEF PointerInv
<1>2. op.pc \in PublishPcs /\ op.pc \notin PointerPcs
  BY Zenon DEF PublishStep, PublishPcs, StagedPcs, PointerPcs, CleanPublicationOrder, CleanOrderSync, Validate,
         ReserveWrite, ReserveRename, ReserveSync, Allocate, OrderWrite, OrderRename, OrderSync, Install,
         InstallSync, StageOrder
<1>3. CASE op'.pc \in PublishPcs /\ reply' = reply /\ Value' = Value /\ disk' \in {disk, {root'}, disk \cup {root'}}
  <2>1. op'.pc \notin PointerPcs
    BY <1>3 DEF PublishPcs, StagedPcs, PointerPcs
  <2>. QED BY <1>1, <1>2, <1>3, <2>1, QuietRegister
<1>4. ASSUME NEW x \in PublishPcs, Goto(x) PROVE op'.pc \in PublishPcs /\ reply' = reply
  <2>1. op'.pc = x
    BY <1>1, <1>4 DEF Goto, Operations
  <2>. QED BY <1>4, <2>1 DEF Goto
<1>5. CASE CleanPublicationOrder \/ ReserveWrite \/ OrderWrite
  <2>1. \E x \in PublishPcs : Goto(x)
    BY <1>5 DEF CleanPublicationOrder, ReserveWrite, OrderWrite, StageOrder, PublishPcs, StagedPcs
  <2>2. \/ UNCHANGED <<root, disk>>
        \/ \E s \in BOOLEAN : root' = [root EXCEPT !.staged = s] /\ disk' = disk \cup {root'}
    BY <1>5 DEF CleanPublicationOrder, ReserveWrite, OrderWrite, StageOrder, ChangeRoot, KeepFiles
  <2>3. Value' = Value
    BY <1>1, <2>2 DEF Value, Recovered, Roots
  <2>. QED BY <1>3, <1>4, <2>1, <2>2, <2>3
<1>6. CASE ReserveRename
  <2>1. /\ root' = [root EXCEPT !.staged = FALSE, !.next = @ + 1] /\ disk' = disk \cup {root'}
        /\ Goto("reserveSync")
    BY <1>6 DEF ReserveRename, ChangeRoot
  <2>2. Value' = Value
    BY <1>1, <2>1 DEF Value, Recovered, Roots
  <2>. QED BY <1>3, <1>4, <2>1, <2>2 DEF PublishPcs
<1>7. CASE OrderRename
  <2>1. /\ root' = [root EXCEPT !.staged = FALSE, !.seq[op.gen] = root.next - 1] /\ disk' = disk \cup {root'}
        /\ Goto("orderSync")
    BY <1>7 DEF OrderRename, ChangeRoot
  <2>2. Value' = Value
    BY <1>1, <2>1 DEF Value, Recovered, Roots
  <2>. QED BY <1>3, <1>4, <2>1, <2>2 DEF PublishPcs, StagedPcs
<1>8. CASE CleanOrderSync \/ ReserveSync \/ OrderSync \/ Install
  <2>1. \E x \in PublishPcs : Goto(x)
    BY <1>8 DEF CleanOrderSync, ReserveSync, OrderSync, Install, PublishPcs, StagedPcs
  <2>2. root' = root /\ disk' \in {disk, {root'}}
    BY <1>8 DEF CleanOrderSync, ReserveSync, OrderSync, Install, SyncRoot, ChangeTrees
  <2>. QED BY <1>3, <1>4, <2>1, <2>2 DEF Value
<1>9. CASE Validate
  <2>1. UNCHANGED <<root, disk>>
    BY <1>9 DEF Validate, KeepFiles
  <2>2. CASE End("not_committed", None)
    <3>1. op'.pc \notin PointerPcs /\ reply'.result = "not_committed"
      BY <2>2 DEF End, Idle, PointerPcs
    <3>. QED BY <1>1, <1>2, <2>1, <3>1, PlainRegister
  <2>3. CASE op' = [op EXCEPT !.pc = "reserveWrite", !.had = root.cur # None] /\ reply' = reply
    <3>1. op'.pc = "reserveWrite"
      BY <1>1, <2>3 DEF Operations
    <3>. QED BY <1>3, <2>1, <2>3, <3>1 DEF PublishPcs, Value
  <2>. QED BY <1>9, <2>2, <2>3 DEF Validate
<1>10. ASSUME NEW g \in Ids, Allocate(g) PROVE Register!Next \/ UNCHANGED Register!vars
  <2>1. op' = [op EXCEPT !.pc = "orderWrite", !.gen = g] /\ reply' = reply /\ UNCHANGED <<root, disk>>
    BY <1>10 DEF Allocate, ChangeTrees
  <2>2. op'.pc = "orderWrite"
    BY <1>1, <2>1, Zenon DEF Operations
  <2>. QED BY <1>3, <2>1, <2>2 DEF PublishPcs, StagedPcs, Value
<1>11. CASE InstallSync
  <2>1. op.pc = "installSync" /\ Goto("journalCreate") /\ UNCHANGED <<root, disk>>
    BY <1>11, Zenon DEF InstallSync, SyncTrees
  <2>2. op.gen \in Ids /\ reply.result = "none"
    BY <2>1 DEF PointerInv, Publishing, StagedPcs, ProtocolInv
  <2>3. op'.pc = "journalCreate" /\ op'.gen = op.gen /\ reply' = reply
    BY <1>1, <2>1 DEF Goto, Operations
  <2>. QED BY <1>2, <2>1, <2>2, <2>3, AsStart
<1>. QED BY <1>5, <1>6, <1>7, <1>8, <1>9, <1>10, <1>11 DEF PublishStep

\* The collector does not touch the register.
LEMMA CollectRegister ==
  ASSUME PointerInv, CollectStep
  PROVE  Register!Next \/ UNCHANGED Register!vars
<1> USE DEF At
<1>1. op \in Operations /\ op.pc \in CollectPcs /\ UNCHANGED <<root, disk>> /\ root \in disk
  BY Zenon DEF CollectStep, CollectPcs, PointerInv, ReclaimLease, ChooseVictims, BreakTree, RemoveTree, GcSync, GcEnd,
         ChangeTrees, SyncTrees, KeepFiles, files
<1>2. op.pc \notin PointerPcs /\ Value' = Value
  BY <1>1 DEF CollectPcs, PointerPcs, Value
<1>3. CASE op'.pc \in CollectPcs /\ reply' = reply
  <2>1. op'.pc \notin PointerPcs
    BY <1>3 DEF CollectPcs, PointerPcs
  <2>. QED BY <1>1, <1>2, <1>3, <2>1, QuietRegister
<1>4. CASE \E l \in leases : ReclaimLease(l)
  BY <1>1, <1>3, <1>4 DEF ReclaimLease
<1>5. CASE ChooseVictims
  BY <1>1, <1>3, <1>5 DEF ChooseVictims, CollectPcs, Operations
<1>6. CASE \E g \in op.victims : BreakTree(g)
  <2>1. PICK g \in op.victims : BreakTree(g)
    BY <1>6
  <2>2. op'.pc = "gcRemove" /\ reply' = reply
    BY <1>1, <2>1 DEF BreakTree, Operations
  <2>. QED BY <1>3, <2>2 DEF CollectPcs
<1>7. CASE RemoveTree \/ GcSync
  BY <1>1, <1>3, <1>7, ZenonT(30) DEF RemoveTree, GcSync, Goto, CollectPcs, Operations
<1>8. CASE GcEnd
  <2>1. op'.pc \notin PointerPcs /\ reply'.result = "none"
    BY <1>8 DEF GcEnd, End, Idle, PointerPcs
  <2>. QED BY <1>1, <1>2, <2>1, PlainRegister
<1>. QED BY <1>4, <1>5, <1>6, <1>7, <1>8 DEF CollectStep

\* Selections and diffs leave the register alone; a failed call is reported
\* honestly, and a power loss leaves one of the durable values.
LEMMA RestRegister ==
  ASSUME PointerInv, ProtocolInv, ReaderStep \/ ProcessStep \/ FaultStep \/ UNCHANGED vars
  PROVE  Register!Next \/ UNCHANGED Register!vars
<1> USE DEF At
<1>1. op \in Operations /\ root \in disk /\ trees \in treeDisk
  BY DEF PointerInv
<1>2. ASSUME UNCHANGED <<root, disk>> PROVE Value' = Value /\ Durable' = Durable /\ Durable' \in {Durable, {Value}}
  BY <1>2 DEF Value, Durable
<1>3. CASE UNCHANGED <<root, disk, op, reply>>
  BY <1>2, <1>3, AsQuiet, ZenonT(30)
<1>4. CASE ReaderStep \/ ProcessStep \/ SelectFails \/ UNCHANGED vars
  BY <1>3, <1>4, Zenon DEF ReaderStep, OpenReader, DiffCurrent, ProcessStep, SelectCurrent, Release, Die, SelectFails,
                    files, vars
<1>5. CASE CommitSyncFails
  <2>1. op.pc = "commitSync" /\ op'.pc = "undo" /\ op'.gen = op.gen /\ reply' = reply /\ UNCHANGED <<root, disk>>
    BY <1>1, <1>5 DEF CommitSyncFails, Goto, Operations, files
  <2>. QED BY <1>2, <2>1, AsQuiet, Zenon DEF PointerPcs, EffectedPcs
<1>6. CASE Crash
  <2>1. op' = Idle /\ reply'.result = "none" /\ UNCHANGED <<root, disk>>
    BY <1>6 DEF Crash, NoReply, files
  <2>2. op'.pc \notin PointerPcs /\ op'.pc \notin {"settleSync", "cleanup", "cleanupSync"}
    BY <2>1 DEF Idle, PointerPcs
  <2>3. Register!Crash
    BY <2>1, <2>2 DEF Register!Crash
  <2>. QED BY <2>3 DEF Register!Next
<1>7. CASE PowerLoss
  <2>1. PICK r \in disk : root' = r /\ disk' = {r}
    BY <1>7, Zenon DEF PowerLoss
  <2>2. op'.pc = "idle" /\ reply'.result = "none"
    BY <1>7 DEF PowerLoss, Idle, NoReply
  <2>3. Value' = Recovered(r) /\ Durable' = {Recovered(r)} /\ Recovered(r) \in Durable
    BY <2>1 DEF Value, Durable
  <2>4. Register!PowerLoss
    BY <2>2, <2>3 DEF Register!PowerLoss, Value, Durable, PointerPcs
  <2>. QED BY <2>4 DEF Register!Next
<1>8. CASE CallFails
  <2>1. op # Idle /\ op' = Idle /\ reply'.result = FailureResult /\ UNCHANGED <<root, disk>> /\ op.pc # "commitSync"
    BY <1>8 DEF CallFails, End, files
  <2>2. Value' = Value /\ Durable' = Durable /\ op.pc # "idle"
    BY <1>2, <2>1, Zenon DEF ProtocolInv
  <2>3. CASE op.pc \in PointerPcs
    <3>1. op.gen \in Ids /\ op.kind \in {"publish", "rollback"}
      BY <2>3 DEF PointerInv, TargetSealed, ProtocolInv
    <3>2. /\ FailureResult \in {"committed", "cleanup_pending", "ambiguous", "not_committed"}
          /\ FailureResult \in {"committed", "cleanup_pending"} => op.pc \in {"cleanup", "cleanupSync"}
          /\ FailureResult = "not_committed" => op.pc \notin EffectedPcs
      BY <3>1 DEF FailureResult, EffectedPcs
    <3>3. op.pc \in {"cleanup", "cleanupSync"} => Durable = {op.gen}
      <4>1. PICK c \in Ids \cup {None} : Transaction(c, op.gen)
        BY <2>3 DEF ProtocolInv
      <4>2. PICK g \in Ids : op.gen = g
        BY <3>1
      <4>. QED BY <1>1, <4>1, <4>2, TransactionValue, Zenon
    <3>4. PICK a \in {"committed", "cleanup_pending", "ambiguous", "not_committed"} : FailureResult = a
      BY <3>2
    <3>. QED BY <2>1, <2>2, <2>3, <3>1, <3>2, <3>3, <3>4, AsFinish, SMTT(30)
  <2>4. CASE op.pc \notin PointerPcs
    <3>1. FailureResult \in {"error", "not_committed"}
      BY <2>4 DEF FailureResult, PointerPcs
    <3>2. op'.pc \notin PointerPcs
      BY <2>1 DEF Idle, PointerPcs
    <3>. QED BY <1>1, <2>1, <2>4, <3>1, <3>2, PlainRegister, SMTT(30)
  <2>. QED BY <2>3, <2>4
<1>. QED BY <1>4, <1>5, <1>6, <1>7, <1>8, SMTT(30) DEF FaultStep

\* publish, rollback and recover implement a register: the generation that
\* recovery would make current changes at one instant of an operation, and
\* CommitOutcome is honest about what a power loss may still undo: of a write,
\* Committed means that none can; an operation that finds its generation current
\* answers Committed too, of a pointer as durable as the earlier write left it.
THEOREM StoreImplementsRegister == Spec => ImplementsRegister
<1>1. Init => Register!Init
  <2> SUFFICES ASSUME Init PROVE Register!Init
    BY SMTT(30)
  <2>1. op.pc = "idle" /\ root = EmptyRoot /\ disk = {EmptyRoot} /\ reply.result = "none"
    BY DEF Init, Idle, NoReply
  <2>2. Recovered(EmptyRoot) = None
    BY DEF Recovered, EmptyRoot, NoFile
  <2>. QED BY <2>1, <2>2 DEF Register!Init, PointerPcs
<1>2. ASSUME PointerInv, ProtocolInv, PointerInv', [Next]_vars
      PROVE  Register!Next \/ UNCHANGED Register!vars
  BY <1>2, BeginRegister, CleaningRegister, PublishRegister, PointerRegister, CollectRegister, RestRegister, SMTT(30)
     DEF Next
<1>3. (PointerInv /\ ProtocolInv) /\ (PointerInv /\ ProtocolInv)' /\ [Next]_vars => [Register!Next]_Register!vars
  BY <1>2
<1>4. Spec => [](PointerInv /\ ProtocolInv)
  BY ProtocolInductive
<1>. QED BY <1>1, <1>3, <1>4, PTL DEF Spec, ImplementsRegister, Register!Spec

-----------------------------------------------------------------------------
(* Garbage collection keeps two generations newer than any it removes.     *)

\* Every published sequence is below next-sequence.
Ordered(r) == \A g \in Ids : r.seq[g] < r.next

\* Two complete trees, neither current nor a victim, published after g.
TwoNewer(g) ==
  \E a, b \in Ids \ (op.victims \cup {root.cur}) :
    /\ a # b /\ Sealed(trees, a) /\ Sealed(trees, b)
    /\ root.seq[a] > root.seq[g] /\ root.seq[b] > root.seq[g]

Retaining ==
  /\ op.pc \in CollectPcs => \A g \in op.victims : TwoNewer(g) /\ Sealed(trees, g)
  /\ op.pc = "gcRemove" => trees[op.gen] = "broken"

\* The removal of a tree is not undone by a power loss.
Removing ==
  \A t \in treeDisk, g \in Ids : t[g] = "broken" =>
    trees[g] \in {"broken", "none"} /\ (op.pc \in StagedPcs => g # op.gen)

\* No power loss leaves a tree that was installed without its sequence, so that
\* its id is never allocated again.
Ranked ==
  \A t \in treeDisk, g \in Ids : t[g] \in {"sealed", "broken"} => \A r \in disk : r.seq[g] # 0

\* The sequence is durable before the tree is installed.
RankedPcs == {"reserveSync", "allocate"} \cup StagedPcs
Ranking ==
  /\ op.pc \in {"reserveSync", "allocate", "orderWrite", "orderRename"} => root.next > 1
  /\ op.pc = "orderSync" => root.seq[op.gen] # 0
  /\ op.pc = "install" => \A r \in disk : r.seq[op.gen] # 0

RetentionInv == (\A r \in disk : Ordered(r)) /\ Retaining /\ Removing /\ Ranked /\ Ranking

\* A set whose sequences are bounded has a newest member.
LEMMA NewestExists ==
  ASSUME NEW S, S # {}, NEW f, \A x \in S : f[x] \in Nat, NEW n \in Nat, \A x \in S : f[x] <= n
  PROVE  \E x \in S : \A y \in S : f[y] <= f[x]
<1> DEFINE T == {n - f[x] : x \in S}
<1>1. T \subseteq Nat /\ T # {}
  OBVIOUS
<1>2. PICK m \in T : \A k \in T : ~(<<k, m>> \in OpToRel(<, Nat))
  BY <1>1, NatLessThanWellFounded, WFMin, Zenon
<1>3. \A k \in T : ~(k < m)
  BY <1>1, <1>2, Zenon DEF OpToRel
<1>4. PICK x \in S : m = n - f[x]
  OBVIOUS
<1>5. ASSUME NEW y \in S PROVE f[y] <= f[x]
  <2>1. n - f[y] \in T
    OBVIOUS
  <2>2. ~(n - f[y] < n - f[x])
    BY <1>3, <1>4, <2>1
  <2>. QED BY <2>2
<1>. QED BY <1>5

\* A set with no member, or with one, has fewer than two.
LEMMA FewerThanTwo ==
  ASSUME NEW S, NEW a, S \subseteq {a}
  PROVE  Cardinality(S) < 2
<1>1. S = {} \/ S = {a}
  OBVIOUS
<1>2. Cardinality({}) = 0
  BY FS_EmptySet, Zenon
<1>3. Cardinality({a}) = 1
  BY FS_Singleton, Zenon
<1>. QED BY <1>1, <1>2, <1>3

\* What is not among the two newest of S has two of them after it.
LEMMA TwoNewestAfter ==
  ASSUME NEW r, NEW S, \A x \in S : r.seq[x] \in Nat, NEW n \in Nat, \A x \in S : r.seq[x] <= n,
         NEW g \in S, g \notin Newest(r, S)
  PROVE  \E a, b \in Newest(r, S) : a # b /\ r.seq[a] > r.seq[g] /\ r.seq[b] > r.seq[g]
<1> DEFINE After(x) == {h \in S : r.seq[h] > r.seq[x]}
<1>1. \A x \in S : x \in Newest(r, S) <=> Cardinality(After(x)) < 2
  BY DEF Newest
<1>2. \A a : ~(After(g) \subseteq {a})
  BY <1>1, FewerThanTwo, Zenon
<1>3. After(g) # {}
  BY <1>2
<1>4. PICK a \in After(g) : \A y \in After(g) : r.seq[y] <= r.seq[a]
  <2> DEFINE A == After(g)
  <2>1. A # {} /\ (\A x \in A : r.seq[x] \in Nat) /\ (\A x \in A : r.seq[x] <= n)
    BY <1>3
  <2> HIDE DEF A
  <2>2. \E x \in A : \A y \in A : r.seq[y] <= r.seq[x]
    BY <2>1, NewestExists, Zenon
  <2>. QED BY <2>2 DEF A
<1>5. PICK b \in After(g) \ {a} : \A y \in After(g) \ {a} : r.seq[y] <= r.seq[b]
  <2> DEFINE A == After(g) \ {a}
  <2>1. A # {} /\ (\A x \in A : r.seq[x] \in Nat) /\ (\A x \in A : r.seq[x] <= n)
    BY <1>2
  <2> HIDE DEF A
  <2>2. \E x \in A : \A y \in A : r.seq[y] <= r.seq[x]
    BY <2>1, NewestExists, Zenon
  <2>. QED BY <2>2 DEF A
<1>6. After(a) \subseteq {a}
  <2> SUFFICES ASSUME NEW h \in After(a) PROVE h = a
    OBVIOUS
  <2>1. h \in After(g)
    OBVIOUS
  <2>. QED BY <1>4, <2>1
<1>7. After(b) \subseteq {a}
  <2> SUFFICES ASSUME NEW h \in After(b), h # a PROVE FALSE
    OBVIOUS
  <2>1. h \in After(g) \ {a}
    OBVIOUS
  <2>. QED BY <1>5, <2>1
<1>8. a \in Newest(r, S) /\ b \in Newest(r, S)
  BY <1>1, <1>6, <1>7, FewerThanTwo, ZenonT(30)
<1>. QED BY <1>4, <1>5, <1>8, Zenon

\* A step that leaves the trees alone, outside the collection.
LEMMA SameTreesRetention ==
  ASSUME RetentionInv, UNCHANGED <<trees, treeDisk>>, op'.pc \notin CollectPcs, disk' \subseteq disk \cup {root'},
         root \in disk,
         root' \in disk \/ (root'.seq = root.seq /\ root'.next = root.next)
           \/ (Ordered(root') /\ \A g \in Ids : root.seq[g] # 0 => root'.seq[g] # 0),
         op'.pc \in StagedPcs => op.pc \in StagedPcs /\ op'.gen = op.gen,
         Ranking'
  PROVE  RetentionInv'
<1>1. \A r \in disk' : Ordered(r)
  BY DEF RetentionInv, Ordered
<1>2. Retaining'
  BY DEF Retaining, CollectPcs
<1>3. Removing'
  BY Zenon DEF RetentionInv, Removing
<1>4. Ranked'
  <2> SUFFICES ASSUME NEW t \in treeDisk, NEW g \in Ids, t[g] \in {"sealed", "broken"}, NEW r \in disk'
               PROVE  r.seq[g] # 0
    BY Zenon DEF Ranked
  <2>1. \A s \in disk : s.seq[g] # 0
    BY Zenon DEF RetentionInv, Ranked
  <2>2. r \in disk \/ r = root'
    OBVIOUS
  <2>. QED BY <2>1, <2>2, Zenon
<1>. QED BY <1>1, <1>2, <1>3, <1>4, SMTT(30) DEF RetentionInv

\* The same, outside the ranking of a new generation.
LEMMA OtherRetention ==
  ASSUME RetentionInv, UNCHANGED <<trees, treeDisk>>, op'.pc \notin CollectPcs, op'.pc \notin RankedPcs,
         disk' \subseteq disk \cup {root'}, root \in disk,
         root' \in disk \/ (root'.seq = root.seq /\ root'.next = root.next)
  PROVE  RetentionInv'
<1>1. Ranking'
  BY Zenon DEF Ranking, RankedPcs, StagedPcs
<1>2. op'.pc \notin StagedPcs
  BY Zenon DEF RankedPcs
<1>. QED BY <1>1, <1>2, SameTreesRetention, Zenon

\* The pointer transaction.
LEMMA PointerRetention ==
  ASSUME PointerInv, RetentionInv, PointerStep
  PROVE  RetentionInv'
<1> USE DEF At
<1>1. op \in Operations /\ root \in Roots /\ root \in disk
  BY RootIsRoot DEF PointerInv
<1>2. ASSUME NEW x \in PointerPcs, Goto(x) PROVE op'.pc = x
  BY <1>1, <1>2 DEF Goto, Operations
<1>3. op'.pc \in PointerPcs \cup {"idle"}
  <2>1. (\E x \in PointerPcs : Goto(x)) \/ op' = Idle
    BY DEF PointerStep, PointerPcs, JournalCreate, JournalWrite, AbsentCreate, JournalSync, CommitPointer,
           CommitSync, Settle, SettleSync, Cleanup, CleanupSync, Undo, UndoAbsent, UndoSync, End
  <2>. QED BY <1>2, <2>1 DEF Idle
<1>4. UNCHANGED <<trees, treeDisk>> /\ disk' \subseteq disk \cup {root'}
  BY <1>1 DEF PointerStep, JournalCreate, JournalWrite, AbsentCreate, JournalSync, CommitPointer, CommitSync,
              Settle, SettleSync, Cleanup, CleanupSync, Undo, UndoAbsent, UndoSync, ChangeRoot, SyncRoot
<1>5. root' = root \/ (root'.seq = root.seq /\ root'.next = root.next)
  <2>1. CASE JournalCreate \/ JournalWrite \/ AbsentCreate \/ Cleanup \/ UndoAbsent
    BY <1>1, <2>1 DEF JournalCreate, JournalWrite, AbsentCreate, Cleanup, UndoAbsent, ChangeRoot, Roots
  <2>2. CASE CommitPointer \/ Settle \/ Undo
    BY <1>1, <2>2, Zenon DEF CommitPointer, Settle, Undo, ChangeRoot, Roots
  <2>3. CASE JournalSync \/ CommitSync \/ SettleSync \/ CleanupSync \/ UndoSync
    BY <2>3 DEF JournalSync, CommitSync, SettleSync, CleanupSync, UndoSync, SyncRoot
  <2>. QED BY <2>1, <2>2, <2>3 DEF PointerStep
<1>6. op'.pc \notin CollectPcs /\ op'.pc \notin RankedPcs
  BY <1>3 DEF PointerPcs, CollectPcs, RankedPcs, StagedPcs
<1>. QED BY <1>1, <1>4, <1>5, <1>6, OtherRetention, ZenonT(30)

\* The cleaning.
LEMMA CleaningRetention ==
  ASSUME PointerInv, RetentionInv, CleaningStep
  PROVE  RetentionInv'
<1> USE DEF At
<1>1. op \in Operations /\ root \in Roots /\ root \in disk /\ trees \in TreeMaps
  BY RootIsRoot DEF PointerInv
<1> DEFINE Before == {"cleanStaging", "cleanPointer", "absentSync", "dropAbsent", "dropCurrent", "cleanSync", "resolve"}
           After == {"cleanPointer", "absentSync", "dropAbsent", "dropCurrent", "cleanSync", "cleanOrder", "resolve"}
<1>2. op.pc \in Before
  BY Zenon DEF CleaningStep, CleanStaging, CleanPointerStaging, AbsentSync, DropAbsent, DropCurrent, CleanSync, Resolve
<1>4. AfterCleaning \in After
  BY DEF AfterCleaning
<1>5. op'.pc \in After \cup {"journalCreate", "idle"}
  <2>1. CASE CleanStaging \/ AbsentSync \/ DropAbsent \/ DropCurrent \/ CleanSync
    BY <1>1, <1>4, <2>1 DEF CleanStaging, AbsentSync, DropAbsent, DropCurrent, CleanSync, Goto, Operations
  <2>2. CASE CleanPointerStaging
    <3>1. Inspection \in {"clean", "discard_current", "rollback_current", "rollback_absent", "discard_pristine",
                          "cleanup_committed"}
      BY <2>2, Verdicts DEF CleanPointerStaging, Inspection
    <3>2. \E x \in After : Goto(x)
      BY <1>4, <2>2, <3>1, Zenon DEF CleanPointerStaging
    <3>. QED BY <1>1, <3>2 DEF Goto, Operations
  <2>3. CASE Resolve
    <3>1. CASE op' = [op EXCEPT !.pc = "journalCreate", !.had = TRUE]
      BY <1>1, <3>1, SMTT(30) DEF Operations
    <3>2. CASE op' = Idle
      BY <3>2 DEF Idle
    <3>. QED BY <2>3, <3>1, <3>2 DEF Resolve, End
  <2>. QED BY <2>1, <2>2, <2>3 DEF CleaningStep
<1>6. op'.pc \notin CollectPcs /\ op'.pc \notin RankedPcs
  BY <1>5, SMTT(30) DEF CollectPcs, RankedPcs, StagedPcs
<1>7. ASSUME UNCHANGED <<trees, treeDisk>>, disk' \subseteq disk \cup {root'},
             root' = root \/ (root'.seq = root.seq /\ root'.next = root.next)
      PROVE  RetentionInv'
  BY <1>1, <1>6, <1>7, OtherRetention, SMTT(30)
<1>8. CASE CleanStaging
  <2>1. treeDisk' = {trees'} /\ disk' = disk
    BY <1>8 DEF CleanStaging
  <2>2. Removing'
    BY <1>6, <2>1 DEF Removing, RankedPcs
  <2>3. Retaining'
    BY <1>6 DEF Retaining, CollectPcs
  <2>4. \A g \in Ids : trees'[g] = trees[g] \/ trees'[g] = "none"
    BY <1>8 DEF CleanStaging
  <2>5. trees \in treeDisk
    BY DEF PointerInv
  <2>6. Ranked'
    BY <2>1, <2>4, <2>5, ZenonT(30) DEF RetentionInv, Ranked
  <2>7. Ranking'
    BY <1>6, Zenon DEF Ranking, RankedPcs, StagedPcs
  <2>. QED BY <2>1, <2>2, <2>3, <2>6, <2>7, Zenon DEF RetentionInv
<1>9. CASE CleanPointerStaging
  <2>1. Inspection \in {"clean", "discard_current", "rollback_current", "rollback_absent", "discard_pristine",
                        "cleanup_committed"}
    BY <1>9, Verdicts DEF CleanPointerStaging, Inspection
  <2>2. \/ KeepFiles
        \/ ChangeRoot([root EXCEPT !.jc = NoFile])
        \/ ChangeRoot([root EXCEPT !.cur = root.jc.body, !.jc = NoFile])
        \/ ChangeRoot([root EXCEPT !.cur = None, !.jc = [id |-> root.ja, body |-> root.cur]])
        \/ ChangeRoot([root EXCEPT !.ja = None])
        \/ ChangeRoot([root EXCEPT !.jm = NoFile])
    BY <1>9, <2>1, Zenon DEF CleanPointerStaging
  <2>3. UNCHANGED <<trees, treeDisk>> /\ disk' \subseteq disk \cup {root'}
    BY <2>2 DEF KeepFiles, ChangeRoot
  <2>4. root' = root \/ (root'.seq = root.seq /\ root'.next = root.next)
    BY <1>1, <2>2, Zenon DEF KeepFiles, ChangeRoot, Roots
  <2>. QED BY <1>7, <2>3, <2>4
<1>10. CASE AbsentSync \/ CleanSync \/ Resolve
  BY <1>1, <1>7, <1>10 DEF AbsentSync, CleanSync, Resolve, SyncRoot, KeepFiles
<1>11. CASE DropAbsent \/ DropCurrent
  <2>1. UNCHANGED <<trees, treeDisk>> /\ disk' \subseteq disk \cup {root'}
    BY <1>11 DEF DropAbsent, DropCurrent, ChangeRoot
  <2>2. root'.seq = root.seq /\ root'.next = root.next
    BY <1>1, <1>11 DEF DropAbsent, DropCurrent, ChangeRoot, Roots
  <2>. QED BY <1>7, <2>1, <2>2
<1>. QED BY <1>8, <1>9, <1>10, <1>11 DEF CleaningStep

\* Publication: the sequence it reserves is greater than all before it, and the
\* id it allocates is that of no tree being removed.
LEMMA PublishRetention ==
  ASSUME PointerInv, RetentionInv, PublishStep
  PROVE  RetentionInv'
<1> USE DEF At
<1>1. op \in Operations /\ root \in Roots /\ root \in disk /\ trees \in TreeMaps /\ Ordered(root)
  BY RootIsRoot, Zenon DEF PointerInv, RetentionInv
<1>2. op.pc \in PublishPcs
  BY Zenon DEF PublishStep, PublishPcs, StagedPcs, CleanPublicationOrder, CleanOrderSync, Validate, ReserveWrite,
         ReserveRename, ReserveSync, Allocate, OrderWrite, OrderRename, OrderSync, Install, InstallSync,
         StageOrder
<1>3. ASSUME NEW x \in PublishPcs, Goto(x), x \in StagedPcs <=> op.pc \in StagedPcs,
             UNCHANGED <<trees, treeDisk>>, disk' \subseteq disk \cup {root'}, Ranking',
             root' = root \/ (root'.seq = root.seq /\ root'.next = root.next)
               \/ (Ordered(root') /\ \A g \in Ids : root.seq[g] # 0 => root'.seq[g] # 0)
      PROVE  RetentionInv'
  <2>1. op'.pc = x /\ op'.gen = op.gen
    BY <1>1, <1>3, ZenonT(30) DEF Goto, Operations
  <2>2. op'.pc \notin CollectPcs
    BY <1>3, <2>1, SMTT(30) DEF PublishPcs, StagedPcs, CollectPcs
  <2>. QED BY <1>1, <1>3, <2>1, <2>2, SameTreesRetention, Zenon
<1>4. CASE CleanOrderSync \/ ReserveSync \/ OrderSync
  <2>1. SyncRoot
    BY <1>4 DEF CleanOrderSync, ReserveSync, OrderSync
  <2>2. \E x \in PublishPcs : Goto(x) /\ (x \in StagedPcs <=> op.pc \in StagedPcs)
    BY <1>4 DEF CleanOrderSync, ReserveSync, OrderSync, PublishPcs, StagedPcs
  <2>3. op'.gen = op.gen /\ disk' = {root} /\ root' = root
    BY <1>1, <2>1, <2>2 DEF Goto, Operations, SyncRoot
  <2>4. CASE CleanOrderSync
    <3>1. op'.pc = "validate"
      BY <1>1, <2>4 DEF CleanOrderSync, Goto, Operations
    <3>2. Ranking'
      BY <3>1 DEF Ranking
    <3>. QED BY <1>1, <1>3, <2>1, <2>2, <3>2 DEF SyncRoot
  <2>5. CASE ReserveSync
    <3>1. op.pc = "reserveSync" /\ op'.pc = "allocate"
      BY <1>1, <2>5 DEF ReserveSync, Goto, Operations
    <3>2. root.next > 1
      BY <3>1 DEF RetentionInv, Ranking
    <3>3. Ranking'
      BY <2>3, <3>1, <3>2 DEF Ranking
    <3>. QED BY <1>1, <1>3, <2>1, <2>2, <3>3 DEF SyncRoot
  <2>6. CASE OrderSync
    <3>1. op.pc = "orderSync" /\ op'.pc = "install"
      BY <1>1, <2>6 DEF OrderSync, Goto, Operations
    <3>2. root.seq[op.gen] # 0
      BY <3>1 DEF RetentionInv, Ranking
    <3>3. Ranking'
      BY <2>3, <3>1, <3>2 DEF Ranking
    <3>. QED BY <1>1, <1>3, <2>1, <2>2, <3>3 DEF SyncRoot
  <2>. QED BY <1>4, <2>4, <2>5, <2>6
<1>5. CASE CleanPublicationOrder \/ ReserveWrite \/ OrderWrite
  <2>1. \/ KeepFiles
        \/ \E b \in BOOLEAN : ChangeRoot([root EXCEPT !.staged = b])
    BY <1>5, Zenon DEF CleanPublicationOrder, ReserveWrite, OrderWrite, StageOrder
  <2>2. \E x \in PublishPcs : Goto(x) /\ (x \in StagedPcs <=> op.pc \in StagedPcs)
    BY <1>5 DEF CleanPublicationOrder, ReserveWrite, OrderWrite, StageOrder, PublishPcs, StagedPcs
  <2>3. UNCHANGED <<trees, treeDisk>> /\ disk' \subseteq disk \cup {root'}
    BY <2>1 DEF KeepFiles, ChangeRoot
  <2>4. root'.seq = root.seq /\ root'.next = root.next
    BY <1>1, <2>1, SMTT(30) DEF KeepFiles, ChangeRoot, Roots
  <2>5. Ranking'
    <3>1. CASE OrderWrite
      <4>1. op.pc = "orderWrite" /\ op'.pc = "orderRename"
        BY <1>1, <3>1 DEF OrderWrite, StageOrder, Goto, Operations
      <4>2. root.next > 1
        BY <4>1 DEF RetentionInv, Ranking
      <4>. QED BY <2>4, <4>1, <4>2 DEF Ranking
    <3>2. CASE CleanPublicationOrder \/ ReserveWrite
      <4>1. op'.pc \in {"cleanOrderSync", "validate", "reserveRename"}
        BY <1>1, <3>2 DEF CleanPublicationOrder, ReserveWrite, StageOrder, Goto, Operations
      <4>. QED BY <4>1 DEF Ranking
    <3>. QED BY <1>5, <3>1, <3>2
  <2>. QED BY <1>3, <2>2, <2>3, <2>4, <2>5
<1>6. CASE Validate
  <2>1. KeepFiles
    BY <1>6 DEF Validate
  <2>2. op'.pc \in {"idle", "reserveWrite"}
    <3>1. CASE op' = Idle
      BY <3>1 DEF Idle
    <3>2. CASE op' = [op EXCEPT !.pc = "reserveWrite", !.had = root.cur # None]
      BY <1>1, <3>2 DEF Operations
    <3>. QED BY <1>6, <3>1, <3>2, SMTT(30) DEF Validate, End
  <2>3. op'.pc \notin CollectPcs /\ op'.pc \notin RankedPcs
    BY <2>2 DEF CollectPcs, RankedPcs, StagedPcs
  <2>. QED BY <1>1, <2>1, <2>3, OtherRetention, SMTT(30) DEF KeepFiles
<1>7. CASE ReserveRename
  <2> DEFINE n == root.next + 1
  <2>1. ChangeRoot([root EXCEPT !.staged = FALSE, !.next = n]) /\ Goto("reserveSync") /\ op.pc = "reserveRename"
    BY <1>7 DEF ReserveRename
  <2>2. n \in Nat /\ root.next < n /\ n > 1 /\ root.next \in Nat /\ root.seq \in [Ids -> Nat]
    BY <1>1 DEF Roots
  <2> HIDE DEF n
  <2>3. root'.seq = root.seq /\ root'.next = n
    BY <1>1, <2>1 DEF ChangeRoot, Roots
  <2>4. Ordered(root')
    BY <1>1, <2>2, <2>3 DEF Ordered
  <2>5. op'.pc = "reserveSync"
    BY <1>1, <2>1 DEF Goto, Operations
  <2>6. Ranking'
    BY <2>2, <2>3, <2>5 DEF Ranking
  <2>. QED BY <1>3, <2>1, <2>3, <2>4, <2>6 DEF ChangeRoot, PublishPcs, StagedPcs
<1>8. CASE OrderRename
  <2> DEFINE q == [root.seq EXCEPT ![op.gen] = root.next - 1]
  <2>1. ChangeRoot([root EXCEPT !.staged = FALSE, !.seq = q]) /\ Goto("orderSync") /\ op.pc = "orderRename"
    BY <1>8 DEF OrderRename
  <2>2. root.next \in Nat /\ root.seq \in [Ids -> Nat] /\ root.next > 1 /\ op.gen \in Ids
    BY <1>1, <2>1 DEF Roots, RetentionInv, Ranking, PointerInv, Publishing, StagedPcs
  <2>3. \A g \in Ids : q[g] < root.next /\ (root.seq[g] # 0 => q[g] # 0)
    BY <1>1, <2>2 DEF Ordered
  <2>4. q[op.gen] # 0
    BY <2>2
  <2> HIDE DEF q
  <2>5. root'.seq = q /\ root'.next = root.next
    BY <1>1, <2>1 DEF ChangeRoot, Roots
  <2>6. Ordered(root') /\ \A g \in Ids : root.seq[g] # 0 => root'.seq[g] # 0
    BY <2>3, <2>5 DEF Ordered
  <2>7. op'.pc = "orderSync" /\ op'.gen = op.gen
    BY <1>1, <2>1 DEF Goto, Operations
  <2>8. Ranking'
    BY <2>4, <2>5, <2>7 DEF Ranking
  <2>. QED BY <1>3, <2>1, <2>6, <2>8 DEF ChangeRoot, PublishPcs, StagedPcs
<1>9. ASSUME NEW g \in Ids, Allocate(g) PROVE RetentionInv'
  <2>1. trees[g] = "none" /\ root.seq[g] = 0 /\ op.pc = "allocate"
    BY <1>9 DEF Allocate
  <2>2. trees' = [trees EXCEPT ![g] = "staging"] /\ treeDisk' = treeDisk \cup {trees'} /\ UNCHANGED <<root, disk>>
    BY <1>9 DEF Allocate, ChangeTrees
  <2>3. op'.pc = "orderWrite" /\ op'.gen = g
    BY <1>1, <1>9 DEF Allocate, Operations
  <2>4. \A h \in Ids : h # g => trees'[h] = trees[h]
    BY <1>1, <2>2 DEF TreeMaps
  <2>5. trees'[g] = "staging"
    BY <1>1, <2>2, Zenon DEF TreeMaps
  <2>6. \A t \in treeDisk : t[g] # "broken"
    BY <1>1, <2>1 DEF RetentionInv, Ranked
  <2>7. \A t \in treeDisk, h \in Ids : t[h] = "broken" => trees[h] \in {"broken", "none"}
    BY Zenon DEF RetentionInv, Removing
  <2>8. Removing'
    <3> SUFFICES ASSUME NEW t \in treeDisk', NEW h \in Ids, t[h] = "broken"
                 PROVE  trees'[h] \in {"broken", "none"} /\ h # g
      BY <2>3 DEF Removing
    <3>1. CASE t = trees'
      BY <2>5, <3>1
    <3>2. CASE t \in treeDisk
      BY <2>4, <2>6, <2>7, <3>2
    <3>. QED BY <2>2, <3>1, <3>2
  <2>9. Retaining'
    BY <2>3 DEF Retaining, CollectPcs
  <2>10. Ranked'
    BY <1>1, <2>2, <2>4, <2>5, ZenonT(30) DEF RetentionInv, Ranked, PointerInv
  <2>11. root.next > 1
    BY <2>1 DEF RetentionInv, Ranking
  <2>12. Ranking'
    BY <2>2, <2>3, <2>11 DEF Ranking
  <2>. QED BY <2>2, <2>8, <2>9, <2>10, <2>12, Zenon DEF RetentionInv
<1>10. CASE Install
  <2>1. op.pc = "install" /\ op.pc \in StagedPcs
    BY <1>10 DEF Install, StagedPcs
  <2>2. trees' = [trees EXCEPT ![op.gen] = "sealed"] /\ treeDisk' = treeDisk \cup {trees'} /\ disk' = disk
    BY <1>10 DEF Install, ChangeTrees
  <2>3. op'.pc = "installSync" /\ op'.gen = op.gen
    BY <1>1, <1>10 DEF Install, Goto, Operations
  <2>4. \A h \in Ids : h # op.gen => trees'[h] = trees[h]
    BY <1>1, <2>2 DEF TreeMaps
  <2>5. trees'[op.gen] # "broken"
    <3>1. op.gen \in Ids
      BY <2>1, Zenon DEF PointerInv, Publishing
    <3>. QED BY <1>1, <2>2, <3>1, Zenon DEF TreeMaps
  <2>6. Removing'
    BY <2>1, <2>2, <2>3, <2>4, <2>5, ZenonT(30) DEF RetentionInv, Removing, StagedPcs
  <2>7. Retaining'
    BY <2>3 DEF Retaining, CollectPcs
  <2>8. \A r \in disk : r.seq[op.gen] # 0
    BY <2>1 DEF RetentionInv, Ranking
  <2>9. \A t \in treeDisk, h \in Ids : t[h] \in {"sealed", "broken"} => \A r \in disk : r.seq[h] # 0
    BY Zenon DEF RetentionInv, Ranked
  <2>10. Ranked'
    <3> SUFFICES ASSUME NEW t \in treeDisk', NEW h \in Ids, t[h] \in {"sealed", "broken"}, NEW r \in disk
                 PROVE  r.seq[h] # 0
      BY <2>2 DEF Ranked
    <3>1. CASE h = op.gen
      BY <2>8, <3>1
    <3>2. CASE h # op.gen /\ t = trees'
      BY <1>1, <2>4, <2>9, <3>2 DEF PointerInv
    <3>3. CASE t \in treeDisk
      BY <2>9, <3>3
    <3>. QED BY <2>2, <3>1, <3>2, <3>3
  <2>11. Ranking'
    BY <2>3 DEF Ranking
  <2>. QED BY <2>2, <2>6, <2>7, <2>10, <2>11, Zenon DEF RetentionInv
<1>11. CASE InstallSync
  <2>1. treeDisk' = {trees} /\ trees' = trees /\ disk' = disk
    BY <1>11 DEF InstallSync, SyncTrees
  <2>2. op'.pc = "journalCreate"
    BY <1>1, <1>11 DEF InstallSync, Goto, Operations
  <2>3. Removing'
    BY <2>1, <2>2 DEF Removing, StagedPcs
  <2>4. Retaining'
    BY <2>2 DEF Retaining, CollectPcs
  <2>5. Ranked'
    BY <2>1, Zenon DEF RetentionInv, Ranked, PointerInv
  <2>6. Ranking'
    BY <2>2 DEF Ranking
  <2>. QED BY <2>1, <2>3, <2>4, <2>5, <2>6, Zenon DEF RetentionInv
<1>. QED BY <1>4, <1>5, <1>6, <1>7, <1>8, <1>9, <1>10, <1>11, ZenonT(30) DEF PublishStep

\* An operation starts.
LEMMA BeginRetention ==
  ASSUME PointerInv, RetentionInv, BeginStep
  PROVE  RetentionInv'
<1> USE DEF At
<1>1. op \in Operations /\ root \in Roots /\ root \in disk /\ Ordered(root)
  BY RootIsRoot DEF PointerInv, RetentionInv
<1>2. ASSUME UNCHANGED <<root, disk, trees, treeDisk>>, op'.pc \notin RankedPcs,
             op'.pc \in CollectPcs => op'.victims = {} /\ op'.pc # "gcRemove"
      PROVE  RetentionInv'
  <2>1. op'.pc \notin StagedPcs
    BY <1>2, Zenon DEF RankedPcs
  <2>2. Removing' /\ Ranked'
    BY <1>2, <2>1, Zenon DEF RetentionInv, Removing, Ranked
  <2>3. Retaining' /\ Ranking'
    BY <1>2, Zenon DEF Retaining, CollectPcs, Ranking, RankedPcs, StagedPcs
  <2>. QED BY <1>2, <2>2, <2>3, Zenon DEF RetentionInv
<1>3. ASSUME NEW kind, NEW pc, NEW g, Begin(kind, pc, g), pc \notin RankedPcs, pc # "gcRemove"
      PROVE  RetentionInv'
  <2>1. op'.pc = pc /\ op'.victims = {} /\ UNCHANGED <<root, disk, trees, treeDisk>>
    BY <1>3 DEF Begin, Idle, files
  <2>. QED BY <1>2, <1>3, <2>1
<1>4. CASE OpenStore \/ Publish \/ Recover \/ GarbageCollect
  BY <1>3, <1>4 DEF OpenStore, Publish, Recover, GarbageCollect, RankedPcs, StagedPcs
<1>5. CASE \E g \in Ids : Rollback(g)
  BY <1>3, <1>5, Zenon DEF Rollback, RankedPcs, StagedPcs
<1>6. CASE OpenCreate \/ OpenWrite
  <2>1. PICK o \in {"torn", "written"}, x \in {"openWrite", "openSync"} :
          ChangeRoot([root EXCEPT !.order = o]) /\ Goto(x)
    BY <1>6 DEF OpenCreate, OpenWrite
  <2>2. root'.seq = root.seq /\ root'.next = root.next
    BY <1>1, <2>1 DEF ChangeRoot, Roots
  <2>3. op'.pc \notin CollectPcs /\ op'.pc \notin RankedPcs
    BY <1>1, <2>1 DEF Goto, Operations, CollectPcs, RankedPcs, StagedPcs
  <2>4. UNCHANGED <<trees, treeDisk>> /\ disk' \subseteq disk \cup {root'}
    BY <2>1, Zenon DEF ChangeRoot
  <2>. QED BY <1>1, <2>2, <2>3, <2>4, OtherRetention, Zenon
<1>7. CASE OpenSync
  <2>1. op'.pc = "idle"
    BY <1>7 DEF OpenSync, End, Idle
  <2>2. op'.pc \notin CollectPcs /\ op'.pc \notin RankedPcs
    BY <2>1 DEF CollectPcs, RankedPcs, StagedPcs
  <2>. QED BY <1>1, <1>7, <2>2, OtherRetention, ZenonT(30) DEF OpenSync, SyncRoot
<1>8. CASE EnsureCurrent
  <2>1. KeepFiles /\ (op' = Idle \/ op' = [Idle EXCEPT !.kind = "publish", !.pc = "reserveWrite"])
    BY <1>8, ZenonT(30) DEF EnsureCurrent, End
  <2>2. op'.pc \in {"idle", "reserveWrite"}
    <3>1. CASE op' = Idle
      BY <3>1 DEF Idle
    <3>2. CASE op' = [Idle EXCEPT !.kind = "publish", !.pc = "reserveWrite"]
      BY <3>2, Zenon DEF Idle
    <3>. QED BY <2>1, <3>1, <3>2, Zenon
  <2>. QED BY <1>2, <2>1, <2>2 DEF RankedPcs, StagedPcs, CollectPcs, KeepFiles
<1>. QED BY <1>4, <1>5, <1>6, <1>7, <1>8, ZenonT(30) DEF BeginStep

\* What is collectible has two complete trees after it that are not.
LEMMA CollectibleHasTwoNewer ==
  ASSUME root \in Roots, Ordered(root), NEW V, V = Collectible(root, trees, LiveGenerations), NEW g \in V
  PROVE  /\ Sealed(trees, g)
         /\ \E a, b \in Ids \ (V \cup {root.cur}) :
              /\ a # b /\ Sealed(trees, a) /\ Sealed(trees, b)
              /\ root.seq[a] > root.seq[g] /\ root.seq[b] > root.seq[g]
<1> DEFINE S == CollectCandidates(root, trees, LiveGenerations)
<1>1. V = S \ Newest(root, S)
  BY Zenon DEF Collectible
<1>2. \A x \in S : x \in Ids /\ x # root.cur /\ Sealed(trees, x)
  BY DEF CollectCandidates
<1>3. root.next \in Nat /\ root.seq \in [Ids -> Nat]
  BY Zenon DEF Roots
<1> HIDE DEF S
<1>4. \A x \in S : root.seq[x] \in Nat /\ root.seq[x] <= root.next
  BY <1>2, <1>3 DEF Ordered
<1>5. \A x \in Newest(root, S) : x \in S
  BY Zenon DEF Newest
<1>6. PICK a \in Newest(root, S), b \in Newest(root, S) :
        a # b /\ root.seq[a] > root.seq[g] /\ root.seq[b] > root.seq[g]
  BY <1>1, <1>3, <1>4, TwoNewestAfter, Zenon
<1>. QED BY <1>1, <1>2, <1>5, <1>6, Zenon

\* The collector breaks only victims, so the trees it owes them stay.
LEMMA CollectRetention ==
  ASSUME PointerInv, RetentionInv, CollectStep
  PROVE  RetentionInv'
<1> USE DEF At
<1>1. op \in Operations /\ root \in Roots /\ root \in disk /\ Ordered(root) /\ trees \in TreeMaps
  BY RootIsRoot, Zenon DEF PointerInv, RetentionInv
<1>2. op.pc \in CollectPcs
  BY Zenon DEF CollectStep, CollectPcs, ReclaimLease, ChooseVictims, BreakTree, RemoveTree, GcSync, GcEnd
<1>3. \A g \in op.victims : TwoNewer(g) /\ Sealed(trees, g)
  BY <1>2, Zenon DEF RetentionInv, Retaining
<1>4. ASSUME op'.pc \in CollectPcs, UNCHANGED <<root, disk>>, \A g \in op'.victims : TwoNewer(g)',
             op'.pc = "gcRemove" => trees'[op'.gen] = "broken",
             \A g \in op'.victims : Sealed(trees', g),
             \A t \in treeDisk', g \in Ids : t[g] = "broken" => trees'[g] \in {"broken", "none"},
             \A t \in treeDisk', g \in Ids : t[g] \in {"sealed", "broken"} => \A r \in disk : r.seq[g] # 0
      PROVE  RetentionInv'
  <2>1. op'.pc \notin StagedPcs
    BY <1>4, Zenon DEF StagedPcs, CollectPcs
  <2>2. Removing'
    BY <1>4, <2>1, ZenonT(30) DEF Removing
  <2>3. Retaining'
    BY <1>4 DEF Retaining
  <2>4. Ranked'
    BY <1>4, Zenon DEF Ranked
  <2>5. Ranking'
    BY <1>4 DEF Ranking, CollectPcs
  <2>. QED BY <1>4, <2>2, <2>3, <2>4, <2>5, Zenon DEF RetentionInv
<1>5. \A t \in treeDisk, g \in Ids : t[g] = "broken" => trees[g] \in {"broken", "none"}
  BY ZenonT(30) DEF RetentionInv, Removing
<1>5a. \A t \in treeDisk, g \in Ids : t[g] \in {"sealed", "broken"} => \A r \in disk : r.seq[g] # 0
  BY Zenon DEF RetentionInv, Ranked
<1>5b. trees \in treeDisk
  BY Zenon DEF PointerInv
<1>6. ASSUME NEW l \in leases, ReclaimLease(l) PROVE RetentionInv'
  <2>1. UNCHANGED <<root, disk, trees, treeDisk, op>>
    BY <1>6 DEF ReclaimLease, files
  <2>. QED BY <2>1 DEF RetentionInv, Retaining, Removing, TwoNewer, Ordered, Sealed, Ranked, Ranking
<1>7. CASE ChooseVictims
  <2> DEFINE V == Collectible(root, trees, LiveGenerations)
  <2>1. op' = [op EXCEPT !.pc = "gcTrees", !.victims = V] /\ UNCHANGED <<root, disk, trees, treeDisk>>
    BY <1>7, ZenonT(30) DEF ChooseVictims, KeepFiles
  <2>1a. \A g \in V : Sealed(trees, g)
    BY <1>1, CollectibleHasTwoNewer
  <2>2. \A g \in V : \E a, b \in Ids \ (V \cup {root.cur}) :
           /\ a # b /\ Sealed(trees, a) /\ Sealed(trees, b)
           /\ root.seq[a] > root.seq[g] /\ root.seq[b] > root.seq[g]
    BY <1>1, CollectibleHasTwoNewer
  <2> HIDE DEF V
  <2>3. op'.pc = "gcTrees" /\ op'.victims = V
    BY <1>1, <2>1 DEF Operations
  <2>4. \A g \in op'.victims : TwoNewer(g)'
    BY <2>1, <2>2, <2>3, Zenon DEF TwoNewer, Sealed
  <2>. QED BY <1>4, <1>5, <1>5a, <2>1, <2>1a, <2>3, <2>4, Zenon DEF CollectPcs
<1>8. ASSUME NEW g \in op.victims, BreakTree(g) PROVE RetentionInv'
  <2>1. trees' = [trees EXCEPT ![g] = "broken"] /\ treeDisk' = treeDisk \cup {trees'} /\ UNCHANGED <<root, disk>>
    BY <1>8 DEF BreakTree, ChangeTrees
  <2>2. op'.pc = "gcRemove" /\ op'.gen = g /\ op'.victims = op.victims \ {g} /\ g \in Ids
    BY <1>1, <1>8, Zenon DEF BreakTree, Operations
  <2>3. trees'[g] = "broken" /\ \A h \in Ids : h # g => trees'[h] = trees[h]
    BY <1>1, <2>1, <2>2, Zenon DEF TreeMaps
  <2>4. ASSUME NEW h \in op'.victims PROVE TwoNewer(h)'
    <3>1. PICK a \in Ids \ (op.victims \cup {root.cur}), b \in Ids \ (op.victims \cup {root.cur}) :
            /\ a # b /\ Sealed(trees, a) /\ Sealed(trees, b)
            /\ root.seq[a] > root.seq[h] /\ root.seq[b] > root.seq[h]
      BY <1>3, <2>2, <2>4, Zenon DEF TwoNewer
    <3>2. Sealed(trees', a) /\ Sealed(trees', b)
      BY <2>3, <3>1, Zenon DEF Sealed
    <3>. QED BY <2>1, <2>2, <3>1, <3>2, Zenon DEF TwoNewer
  <2>5. \A t \in treeDisk', h \in Ids : t[h] = "broken" => trees'[h] \in {"broken", "none"}
    BY <1>5, <2>1, <2>3, ZenonT(30)
  <2>6. \A h \in op'.victims : Sealed(trees', h)
    BY <1>3, <2>2, <2>3, Zenon DEF Sealed
  <2>7. \A t \in treeDisk', h \in Ids : t[h] \in {"sealed", "broken"} => \A r \in disk : r.seq[h] # 0
    <3>1. \A h \in Ids : trees'[h] \in {"sealed", "broken"} => trees[h] \in {"sealed", "broken"}
      BY <1>3, <1>8, <2>3, Zenon DEF Sealed
    <3>. QED BY <1>5a, <1>5b, <2>1, <3>1, Zenon
  <2>. QED BY <1>4, <2>1, <2>2, <2>3, <2>4, <2>5, <2>6, <2>7, Zenon DEF CollectPcs
<1>9. CASE RemoveTree
  <2>1. trees' = [trees EXCEPT ![op.gen] = "none"] /\ treeDisk' = treeDisk \cup {trees'} /\ UNCHANGED <<root, disk>>
    BY <1>9 DEF RemoveTree, ChangeTrees
  <2>2. op'.pc = "gcSync" /\ op'.victims = op.victims
    BY <1>1, <1>9, Zenon DEF RemoveTree, Goto, Operations
  <2>3. trees[op.gen] = "broken"
    BY <1>9 DEF RemoveTree, RetentionInv, Retaining
  <2>4. \A h \in Ids : trees'[h] = trees[h] \/ (h = op.gen /\ trees'[h] = "none")
    BY <1>1, <2>1, Zenon DEF TreeMaps
  <2>5. ASSUME NEW h \in op'.victims PROVE TwoNewer(h)'
    <3>1. PICK a \in Ids \ (op.victims \cup {root.cur}), b \in Ids \ (op.victims \cup {root.cur}) :
            /\ a # b /\ Sealed(trees, a) /\ Sealed(trees, b)
            /\ root.seq[a] > root.seq[h] /\ root.seq[b] > root.seq[h]
      BY <1>3, <2>2, <2>5, Zenon DEF TwoNewer
    <3>2. Sealed(trees', a) /\ Sealed(trees', b)
      BY <2>3, <2>4, <3>1, Zenon DEF Sealed
    <3>. QED BY <2>1, <2>2, <3>1, <3>2, Zenon DEF TwoNewer
  <2>6. \A t \in treeDisk', h \in Ids : t[h] = "broken" => trees'[h] \in {"broken", "none"}
    BY <1>5, <2>1, <2>4, Zenon
  <2>7. \A h \in op'.victims : Sealed(trees', h)
    BY <1>3, <2>2, <2>3, <2>4, Zenon DEF Sealed
  <2>8. \A t \in treeDisk', h \in Ids : t[h] \in {"sealed", "broken"} => \A r \in disk : r.seq[h] # 0
    <3>1. \A h \in Ids : trees'[h] \in {"sealed", "broken"} => trees[h] \in {"sealed", "broken"}
      BY <2>4
    <3>. QED BY <1>5a, <1>5b, <2>1, <3>1, Zenon
  <2>9. op'.pc \in CollectPcs /\ op'.pc # "gcRemove"
    BY <2>2 DEF CollectPcs
  <2>. QED BY <1>4, <2>1, <2>5, <2>6, <2>7, <2>8, <2>9, ZenonT(30)
<1>10. CASE GcSync
  <2>1. treeDisk' = {trees} /\ UNCHANGED <<root, disk, trees>>
    BY <1>10 DEF GcSync, SyncTrees
  <2>2. op'.pc = "gcTrees" /\ op'.victims = op.victims
    BY <1>1, <1>10 DEF GcSync, Goto, Operations
  <2>3. \A h \in op'.victims : TwoNewer(h)'
    BY <1>3, <2>1, <2>2 DEF TwoNewer, Sealed
  <2>4. \A h \in op'.victims : Sealed(trees', h)
    BY <1>3, <2>1, <2>2, Zenon
  <2>5. \A t \in treeDisk', h \in Ids : t[h] \in {"sealed", "broken"} => \A r \in disk : r.seq[h] # 0
    BY <1>5a, <1>5b, <2>1, Zenon
  <2>. QED BY <1>4, <2>1, <2>2, <2>3, <2>4, <2>5 DEF CollectPcs
<1>11. CASE GcEnd
  <2>1. op'.pc = "idle"
    BY <1>11 DEF GcEnd, End, Idle
  <2>2. op'.pc \notin CollectPcs /\ op'.pc \notin RankedPcs
    BY <2>1 DEF CollectPcs, RankedPcs, StagedPcs
  <2>. QED BY <1>1, <1>11, <2>2, OtherRetention, ZenonT(30) DEF GcEnd, KeepFiles
<1>. QED BY <1>6, <1>7, <1>8, <1>9, <1>10, <1>11, Zenon DEF CollectStep

\* Readers, processes and faults.
LEMMA RestRetention ==
  ASSUME PointerInv, RetentionInv, ReaderStep \/ ProcessStep \/ FaultStep \/ UNCHANGED vars
  PROVE  RetentionInv'
<1>1. op \in Operations /\ root \in disk
  BY Zenon DEF PointerInv
<1>2. CASE ReaderStep \/ ProcessStep \/ SelectFails \/ UNCHANGED vars
  <2>1. UNCHANGED <<root, disk, trees, treeDisk, op>>
    BY <1>2, ZenonT(30) DEF ReaderStep, OpenReader, DiffCurrent, ProcessStep, SelectCurrent, Release, Die, SelectFails,
                files, vars
  <2>. QED BY <2>1, ZenonT(30) DEF RetentionInv, Retaining, Removing, TwoNewer, Ordered, Sealed, Ranked, Ranking
<1>3. CASE CallFails \/ Crash
  <2>1. op'.pc = "idle" /\ UNCHANGED <<root, disk, trees, treeDisk>>
    <3>1. CASE CallFails
      BY <3>1, SMTT(30) DEF CallFails, End, Idle, files
    <3>2. CASE Crash
      BY <3>2 DEF Crash, Idle, files
    <3>. QED BY <1>3, <3>1, <3>2, SMTT(30)
  <2>2. op'.pc \notin CollectPcs /\ op'.pc \notin RankedPcs
    BY <2>1, Zenon DEF CollectPcs, RankedPcs, StagedPcs
  <2>. QED BY <1>1, <2>1, <2>2, OtherRetention
<1>4. CASE CommitSyncFails
  <2>1. op'.pc = "undo" /\ UNCHANGED <<root, disk, trees, treeDisk>>
    BY <1>1, <1>4 DEF CommitSyncFails, Goto, Operations, files
  <2>2. op'.pc \notin CollectPcs /\ op'.pc \notin RankedPcs
    BY <2>1 DEF CollectPcs, RankedPcs, StagedPcs
  <2>. QED BY <1>1, <2>1, <2>2, OtherRetention, Zenon
<1>5. CASE PowerLoss
  <2>1. op'.pc = "idle" /\ treeDisk' = {trees'} /\ disk' \subseteq disk /\ trees' \in treeDisk
    BY <1>5 DEF PowerLoss, Idle
  <2>2. Removing'
    BY <2>1 DEF Removing, StagedPcs
  <2>3. Retaining'
    BY <2>1 DEF Retaining, CollectPcs
  <2>4. Ranked'
    BY <2>1, ZenonT(30) DEF RetentionInv, Ranked
  <2>5. Ranking'
    BY <2>1 DEF Ranking
  <2>. QED BY <2>1, <2>2, <2>3, <2>4, <2>5, ZenonT(30) DEF RetentionInv
<1>. QED BY <1>2, <1>3, <1>4, <1>5 DEF FaultStep

\* The empty store.
LEMMA RetentionInit == Init => RetentionInv
<1> SUFFICES ASSUME Init PROVE RetentionInv
  OBVIOUS
<1>1. op.pc = "idle" /\ disk = {EmptyRoot} /\ treeDisk = {trees} /\ op.victims = {}
  BY Zenon DEF Init, Idle
<1>2. Ordered(EmptyRoot)
  BY DEF Ordered, EmptyRoot
<1>3. \A t \in treeDisk, g \in Ids : t[g] = "none"
  BY <1>1 DEF Init
<1>4. Removing /\ Ranked
  BY <1>3 DEF Removing, Ranked
<1>. QED BY <1>1, <1>2, <1>4, Zenon DEF RetentionInv, Retaining, CollectPcs, Ranking

\* Every step keeps it.
LEMMA RetentionNext ==
  ASSUME PointerInv, RetentionInv, [Next]_vars
  PROVE  RetentionInv'
BY BeginRetention, CleaningRetention, PublishRetention, PointerRetention, CollectRetention, RestRetention, Zenon DEF Next

\* Only the collection breaks a complete tree, and it breaks a victim.
LEMMA OnlyVictimsBreak ==
  ASSUME PointerInv, RetentionInv, [Next]_vars, NEW g \in Ids, trees[g] = "sealed", trees'[g] = "broken"
  PROVE  g \in op.victims /\ BreakTree(g)
<1>1. op \in Operations /\ trees \in TreeMaps /\ trees' # trees
  BY DEF PointerInv
<1>2. ASSUME BeginStep \/ PointerStep \/ ReaderStep \/ ProcessStep \/ UNCHANGED vars PROVE FALSE
  <2>1. CASE PointerStep
    BY <1>1, <2>1, PointerIsRootOnly, SMTT(30) DEF RootOnly
  <2>2. CASE BeginStep
    BY <1>1, <2>2, Zenon DEF BeginStep, OpenStore, OpenCreate, OpenWrite, OpenSync, Publish, Recover, Rollback,
                      EnsureCurrent, GarbageCollect, Begin, KeepFiles, files, ChangeRoot, SyncRoot
  <2>3. CASE ReaderStep \/ ProcessStep \/ UNCHANGED vars
    BY <1>1, <2>3, Zenon DEF ReaderStep, OpenReader, DiffCurrent, ProcessStep, SelectCurrent, Release, Die, files, vars
  <2>. QED BY <1>2, <2>1, <2>2, <2>3, Zenon
<1>3. ASSUME CleaningStep PROVE FALSE
  <2>1. CASE CleanStaging
    BY <2>1 DEF CleanStaging
  <2>2. CASE ~CleanStaging
    BY <1>1, <1>3, <2>2, CleaningIsRootOnly, Zenon DEF RootOnly, CleaningStep
  <2>. QED BY <2>1, <2>2
<1>4. ASSUME PublishStep PROVE FALSE
  <2>1. CASE Install
    BY <1>1, <2>1 DEF Install, ChangeTrees, TreeMaps
  <2>2. CASE \E h \in Ids : Allocate(h)
    BY <1>1, <2>2 DEF Allocate, ChangeTrees, TreeMaps
  <2>3. CASE InstallSync
    BY <1>1, <2>3 DEF InstallSync, SyncTrees
  <2>4. CASE ~Install /\ ~(\E h \in Ids : Allocate(h)) /\ ~InstallSync
    BY <1>1, <1>4, <2>4, Zenon DEF PublishStep, CleanPublicationOrder, CleanOrderSync, Validate, ReserveWrite,
         ReserveRename, ReserveSync, OrderWrite, OrderRename, OrderSync, StageOrder, ChangeRoot, SyncRoot, KeepFiles
  <2>. QED BY <2>1, <2>2, <2>3, <2>4, Zenon
<1>5. ASSUME FaultStep PROVE FALSE
  <2>1. CASE PowerLoss
    <3>1. trees' \in treeDisk
      BY <2>1, Zenon DEF PowerLoss
    <3>. QED BY <3>1, Zenon DEF RetentionInv, Removing
  <2>2. CASE CallFails \/ CommitSyncFails \/ SelectFails \/ Crash
    BY <1>1, <2>2, Zenon DEF CallFails, CommitSyncFails, SelectFails, Crash, files
  <2>. QED BY <1>5, <2>1, <2>2, Zenon DEF FaultStep
<1>6. ASSUME CollectStep PROVE g \in op.victims /\ BreakTree(g)
  <2>1. CASE RemoveTree
    BY <1>1, <2>1 DEF RemoveTree, ChangeTrees, TreeMaps
  <2>2. CASE (\E l \in leases : ReclaimLease(l)) \/ ChooseVictims \/ GcSync \/ GcEnd
    BY <1>1, <2>2 DEF ReclaimLease, ChooseVictims, GcSync, GcEnd, KeepFiles, SyncTrees, files
  <2>3. ASSUME NEW h \in op.victims, BreakTree(h) PROVE g = h
    BY <1>1, <2>3 DEF BreakTree, ChangeTrees, TreeMaps
  <2>. QED BY <1>6, <2>1, <2>2, <2>3, ZenonT(30) DEF CollectStep
<1>. QED BY <1>2, <1>3, <1>4, <1>5, <1>6, ZenonT(30) DEF Next

\* garbage_collect: whenever the removal of a complete generation begins, two
\* complete generations published after it, besides current, are kept.
THEOREM CollectionKeepsTwoNewer == Spec => TwoNewerAreKept
<1>1. Init => PointerInv /\ RetentionInv
  BY PointerInit, RetentionInit
<1>2. (PointerInv /\ RetentionInv) /\ [Next]_vars => (PointerInv /\ RetentionInv)'
  BY PointerNext, RetentionNext, Zenon
<1>3. ASSUME PointerInv, RetentionInv, [Next]_vars, NEW g \in Ids, trees[g] = "sealed", trees'[g] = "broken"
      PROVE  \E a, b \in Ids \ {root.cur} :
               a # b /\ Sealed(trees', a) /\ Sealed(trees', b)
               /\ root.seq[a] > root.seq[g] /\ root.seq[b] > root.seq[g]
  <2>1. g \in op.victims /\ BreakTree(g) /\ trees \in TreeMaps
    BY <1>3, OnlyVictimsBreak DEF PointerInv
  <2>2. TwoNewer(g)
    BY <1>3, <2>1, ZenonT(30) DEF BreakTree, At, RetentionInv, Retaining, CollectPcs
  <2>3. PICK a \in Ids \ (op.victims \cup {root.cur}), b \in Ids \ (op.victims \cup {root.cur}) :
          /\ a # b /\ Sealed(trees, a) /\ Sealed(trees, b)
          /\ root.seq[a] > root.seq[g] /\ root.seq[b] > root.seq[g]
    BY <2>2 DEF TwoNewer
  <2>4. Sealed(trees', a) /\ Sealed(trees', b)
    BY <2>1, <2>3, ZenonT(30) DEF BreakTree, ChangeTrees, TreeMaps, Sealed
  <2>. QED BY <2>3, <2>4, Zenon
<1>4. (PointerInv /\ RetentionInv) /\ [Next]_vars =>
        [\A g \in Ids : trees[g] = "sealed" /\ trees'[g] = "broken" =>
           \E a, b \in Ids \ {root.cur} :
             a # b /\ Sealed(trees', a) /\ Sealed(trees', b)
             /\ root.seq[a] > root.seq[g] /\ root.seq[b] > root.seq[g]]_vars
  BY <1>3
<1>. QED BY <1>1, <1>2, <1>4, PTL DEF Spec, TwoNewerAreKept
=============================================================================
