---------------------------- MODULE LaunchProofs ----------------------------
(***************************************************************************)
(* Proofs about Launch, for any launches, any bound on entries and faults: *)
(* who runs from a generation has a lease for it (LaunchInv), and the      *)
(* files a crash leaves are ones that reconciliation accepts (FilesInv).   *)
(***************************************************************************)
EXTENDS Launch, FiniteSetTheorems, TLAPS

Leases == {"none"} \union LeaseKinds
Records == [state : {"none", "preparing", "adopted", "running", "terminal"},
            kind : {"process", "lifecycle"}, result : {"none", "failed", "exited", "lost"},
            exec : BOOLEAN, drained : BOOLEAN, retired : BOOLEAN]
PlanType == [act : {"complete", "terminalize", "retain", "uncertain"}, control : BOOLEAN,
             result : {"none", "failed", "exited", "lost"}, transferred : BOOLEAN,
             release : BOOLEAN]
PlanMaps == [Launches -> PlanType]
LaunchSets == SUBSET Launches

\* The operations on one launch, a reconciliation pass, and its step on one launch.
ReleasePcs == {"retireLease", "unlinkLease", "retireLaunch", "unlinkLaunch"}
StepPcs == {"terminalRecord", "terminalRename"} \union ReleasePcs
PassPcs == {"normalizeTemps", "normalizeStages", "apply"} \union StepPcs
LaunchOps == [pc : AdoptPcs \union {"prepareRename"}, launch : Launches]
PassOps == [pc : {"normalizeTemps", "normalizeStages", "apply"}, plans : PlanMaps,
            todo : LaunchSets]
StepOps == [pc : StepPcs \union {"apply"}, plans : PlanMaps, todo : LaunchSets,
            launch : Launches]

RegistryTypeOK ==
  /\ rec \in [Launches -> Records]
  /\ target \in [Launches -> Leases] /\ stage \in [Launches -> Leases] /\ retire \in [Launches -> Leases]
  /\ armed \in [Launches -> {"none", "armed", "dropping"}]
  /\ owner \in [Launches -> {"unborn", "alive", "dead"}]
  /\ payload \in [Launches -> {"unstarted", "live", "detached", "exited"}]
  /\ op \in {Idle, [pc |-> "claimRename"]} \union LaunchOps \union PassOps \union StepOps

\* What holds of one launch: a record that lets the owner start its payload has
\* the lifecycle lease, and so has a payload that runs.
LaunchOK(l) ==
  /\ rec[l].state \in {"adopted", "running"} =>
       rec[l].kind = "lifecycle" /\ (owner[l] = "alive" => target[l] = LifecycleLease(l))
  /\ payload[l] \in {"live", "detached"} =>
       /\ target[l] = LifecycleLease(l)
       /\ rec[l].state \in {"running", "terminal"} /\ rec[l].kind = "lifecycle"
  /\ armed[l] = "armed" /\ owner[l] = "alive" => LeaseOf(l) # "none"
  /\ rec[l].drained => payload[l] = "exited"
  /\ owner[l] = "unborn" =>
       target[l] = "none" /\ retire[l] = "none" /\ rec[l].state = "none" /\ ~rec[l].drained

\* The owner is dead for good, and nothing that it started is left.
Gone(l) == owner[l] = "dead" /\ payload[l] \notin {"live", "detached"}

\* A pass releases what is gone only; a direct payload that left its group keeps
\* its lease.
Planned(l) ==
  /\ op.plans[l].act \in {"complete", "terminalize"} /\ owner[l] # "unborn"
  /\ op.plans[l].act = "complete" => Gone(l)
  /\ op.plans[l].act = "terminalize" => op.plans[l].result # "none"

OperationOK ==
  /\ op.pc = "prepareRename" => rec[op.launch].state = "none" /\ owner[op.launch] # "unborn"
  /\ op.pc \in AdoptPcs \ {"disarm"} => rec[op.launch] = PreparingRecord
  /\ op.pc = "exchange" => stage[op.launch] = LifecycleLease(op.launch)
  /\ op.pc \in {"unlinkStage", "adoptRecord", "adoptRename"} =>
       target[op.launch] = LifecycleLease(op.launch)
  /\ op.pc \in PassPcs => \A l \in op.todo : Planned(l)
  /\ op.pc \in StepPcs => Planned(op.launch)
  /\ op.pc \in ReleasePcs => op.plans[op.launch].act = "complete"

LaunchInv == RegistryTypeOK /\ (\A l \in Launches : LaunchOK(l)) /\ OperationOK

-----------------------------------------------------------------------------
\* Which fields an operation has shows in its pc.
LEMMA Shapes ==
  ASSUME RegistryTypeOK
  PROVE  /\ op.pc \in AdoptPcs \union {"prepareRename"} => op \in LaunchOps
         /\ op.pc \in StepPcs => op \in StepOps
         /\ op.pc \in PassPcs => op \in PassOps \union StepOps
BY DEF RegistryTypeOK, Idle, LaunchOps, PassOps, StepOps, AdoptPcs, StepPcs, ReleasePcs, PassPcs

\* The lease of a launch is neither absent nor one of a process.
LEMMA LifecycleIsLease ==
  \A l : LifecycleLease(l) \in Leases /\ LifecycleLease(l) \notin {"none", "process"}
BY DEF LifecycleLease, Leases, LeaseKinds

\* Between operations nothing is asked of one.
LEMMA EndedIsOK ==
  ASSUME op' \in {Idle, [pc |-> "claimRename"]}
  PROVE  OperationOK'
BY DEF OperationOK, Idle, AdoptPcs, PassPcs, StepPcs, ReleasePcs

evidence == <<rec, target, retire, owner, payload>>

\* An operation ends, or one on the session begins; nothing else is armed.
LEMMA EndStep ==
  ASSUME LaunchInv, UNCHANGED evidence, stage' \in [Launches -> Leases],
         armed' \in [Launches -> {"none", "armed", "dropping"}],
         \A l \in Launches : armed'[l] = "armed" => armed[l] = "armed",
         op' \in {Idle, [pc |-> "claimRename"]}
  PROVE  LaunchInv'
<1>1. RegistryTypeOK'
  BY DEF LaunchInv, RegistryTypeOK, evidence
<1>2. ASSUME NEW l \in Launches PROVE LaunchOK(l)'
  BY DEF LaunchInv, LaunchOK, LeaseOf, LifecycleLease, evidence
<1>. QED BY <1>1, <1>2, EndedIsOK DEF LaunchInv

\* A step of an operation that leaves the evidence alone.
LEMMA OperationGoesOn ==
  ASSUME LaunchInv, UNCHANGED <<evidence, armed>>, stage' \in [Launches -> Leases],
         op' \in LaunchOps \union PassOps \union StepOps, OperationOK'
  PROVE  LaunchInv'
<1>1. RegistryTypeOK'
  BY DEF LaunchInv, RegistryTypeOK, evidence
<1>2. ASSUME NEW l \in Launches PROVE LaunchOK(l)'
  BY DEF LaunchInv, LaunchOK, LeaseOf, LifecycleLease, evidence
<1>. QED BY <1>1, <1>2 DEF LaunchInv

-----------------------------------------------------------------------------
(* The session, the launcher and the owner.                                *)

SessionSteps ==
  \/ ClaimSession \/ ClaimRename \/ ClaimRefused \/ AdvanceSession \/ AdvanceDies \/ OpenRegistry
  \/ OpenActiveSession \/ EntryDies \/ StoreReplaced

\* Steps on the session record and its entry.
LEMMA SessionKeeps ==
  ASSUME LaunchInv, SessionSteps \/ UNCHANGED vars
  PROVE  LaunchInv'
<1>1. CASE UNCHANGED <<evidence, stage, armed, op>>
  <2>1. RegistryTypeOK' /\ OperationOK'
    BY <1>1 DEF LaunchInv, RegistryTypeOK, OperationOK, Planned, Gone, LifecycleLease, evidence
  <2>2. ASSUME NEW l \in Launches PROVE LaunchOK(l)'
    BY <1>1 DEF LaunchInv, LaunchOK, LeaseOf, LifecycleLease, evidence
  <2>. QED BY <2>1, <2>2 DEF LaunchInv
<1>2. CASE UNCHANGED <<evidence, stage, armed>> /\ op' \in {Idle, [pc |-> "claimRename"]}
  BY <1>2, EndStep DEF LaunchInv, RegistryTypeOK
<1>3. \/ UNCHANGED <<evidence, stage, armed, op>>
      \/ UNCHANGED <<evidence, stage, armed>> /\ op' \in {Idle, [pc |-> "claimRename"]}
  BY DEF SessionSteps, ClaimSession, ClaimRename, ClaimRefused, AdvanceSession, AdvanceDies, OpenRegistry,
         OpenActiveSession, EntryDies, StoreReplaced, Finished, evidence, processes, files, vars
<1>. QED BY <1>1, <1>2, <1>3

\* The launches an operation works on have an owner.
LEMMA WorkedOnIsBorn ==
  ASSUME LaunchInv, op.pc \in (AdoptPcs \ {"disarm"}) \union {"prepareRename"}
  PROVE  owner[op.launch] # "unborn"
BY Shapes DEF LaunchInv, LaunchOK, OperationOK, PreparingRecord, NoRecord, LaunchOps, AdoptPcs

\* Beside an operation: records and stages stay, the dead stay dead, what is
\* gone starts nothing, and only process leases and unborn owners change.
LEMMA BesideKeepsOperation ==
  ASSUME LaunchInv, UNCHANGED <<rec, stage, op>>,
         \A l \in Launches :
           /\ owner[l] # "unborn" => owner'[l] # "unborn"
           /\ Gone(l) => Gone(l)'
           /\ target[l] = LifecycleLease(l) => target'[l] = target[l]
  PROVE  OperationOK'
<1>1. op.pc \in AdoptPcs \union {"prepareRename"} => op.launch \in Launches
  BY Shapes DEF LaunchInv, LaunchOps
<1>2. op.pc \in PassPcs => op.todo \subseteq Launches
  BY Shapes DEF LaunchInv, PassOps, StepOps, LaunchSets
<1>3. op.pc \in StepPcs => op.launch \in Launches
  BY Shapes DEF LaunchInv, StepOps
<1>4. ASSUME NEW l \in Launches, Planned(l) PROVE Planned(l)'
  BY <1>4 DEF Planned
<1>. QED BY <1>1, <1>2, <1>3, <1>4
         DEF LaunchInv, OperationOK, AdoptPcs, PassPcs, StepPcs, LifecycleLease

\* Steps of the launched process and of its payload.
LEMMA OwnerKeeps ==
  ASSUME LaunchInv, NEW l \in Launches,
         SelectCurrent(l) \/ StartPayload(l) \/ PayloadLeaves(l) \/ OwnerDies(l)
  PROVE  LaunchInv'
<1>1. RegistryTypeOK /\ \A k \in Launches : LaunchOK(k)
  BY DEF LaunchInv
<1>2. CASE SelectCurrent(l)
  <2>1. RegistryTypeOK'
    BY <1>1, <1>2 DEF SelectCurrent, RegistryTypeOK, Leases, LeaseKinds
  <2>2. ASSUME NEW k \in Launches PROVE LaunchOK(k)'
    BY <1>1, <1>2 DEF SelectCurrent, RegistryTypeOK, LaunchOK, LeaseOf, LifecycleLease
  <2>3. OperationOK'
    <3>1. ASSUME NEW k \in Launches
          PROVE  /\ owner[k] # "unborn" => owner'[k] # "unborn"
                 /\ Gone(k) => Gone(k)'
                 /\ target[k] = LifecycleLease(k) => target'[k] = target[k]
      BY <1>1, <1>2, LifecycleIsLease DEF SelectCurrent, RegistryTypeOK, LaunchOK, Gone
    <3>. QED BY <1>2, <3>1, BesideKeepsOperation DEF SelectCurrent
  <2>. QED BY <2>1, <2>2, <2>3 DEF LaunchInv
<1>3. CASE StartPayload(l) \/ PayloadLeaves(l) \/ OwnerDies(l)
  <2>1. UNCHANGED <<rec, target, stage, retire, armed, op>>
    BY <1>3 DEF StartPayload, PayloadLeaves, OwnerDies, files
  <2>2. RegistryTypeOK'
    BY <1>1, <1>3, <2>1 DEF StartPayload, PayloadLeaves, OwnerDies, RegistryTypeOK
  <2>3. ASSUME NEW k \in Launches PROVE LaunchOK(k)'
    BY <1>1, <1>3, <2>1
       DEF StartPayload, PayloadLeaves, OwnerDies, RegistryTypeOK, LaunchOK, LeaseOf, LifecycleLease
  <2>4. OperationOK'
    <3>1. ASSUME NEW k \in Launches
          PROVE  /\ owner[k] # "unborn" => owner'[k] # "unborn"
                 /\ Gone(k) => Gone(k)'
      BY <1>1, <1>3 DEF StartPayload, PayloadLeaves, OwnerDies, RegistryTypeOK, Gone
    <3>. QED BY <2>1, <3>1, BesideKeepsOperation
  <2>. QED BY <2>2, <2>3, <2>4 DEF LaunchInv
<1>. QED BY <1>2, <1>3

\* The owner advances its record; with an open gate it has the lifecycle lease.
LEMMA RecordKeeps ==
  ASSUME LaunchInv, NEW l \in Launches, OpenGate(l) \/ RecordRunning(l) \/ RecordDrained(l)
  PROVE  LaunchInv'
<1>1. RegistryTypeOK /\ \A k \in Launches : LaunchOK(k)
  BY DEF LaunchInv
<1>2. rec[l] \in Records
  BY <1>1 DEF RegistryTypeOK
<1>3. PICK r : OwnerRecords(l, r) /\ r \in Records /\ r.kind = rec[l].kind
               /\ rec[l].state \in {"adopted", "running"}
               /\ r.state \in {"adopted", "running", "terminal"}
               /\ (r.state = "adopted" => rec[l].state = "adopted")
               /\ (r.drained => rec[l].drained \/ payload[l] = "exited")
               /\ (r.state = "terminal" => payload[l] = "exited")
  <2>1. CASE OpenGate(l)
    <3> DEFINE r == [rec[l] EXCEPT !.exec = TRUE]
    <3>1. /\ r \in Records /\ r.kind = rec[l].kind /\ r.state = rec[l].state /\ r.drained = rec[l].drained
          /\ rec[l].state = "adopted"
      BY <1>2, <2>1, Zenon DEF OpenGate, Records, AdoptedRecord, PreparingRecord, NoRecord
    <3>. QED BY <2>1, <3>1, Zenon DEF OpenGate
  <2>2. CASE RecordRunning(l)
    <3> DEFINE r == [rec[l] EXCEPT !.state = "running"]
    <3>1. r \in Records /\ r.kind = rec[l].kind /\ r.state = "running" /\ r.drained = rec[l].drained
      BY <1>2 DEF Records
    <3>. QED BY <2>2, <3>1, Zenon DEF RecordRunning
  <2>3. CASE RecordDrained(l)
    <3> DEFINE r == [rec[l] EXCEPT !.state = "terminal", !.result = "exited", !.drained = TRUE]
    <3>1. r \in Records /\ r.kind = rec[l].kind /\ r.state = "terminal"
      BY <1>2, Zenon DEF Records
    <3>. QED BY <2>3, <3>1, Zenon DEF RecordDrained
  <2>. QED BY <2>1, <2>2, <2>3
<1>4. /\ rec' = [rec EXCEPT ![l] = r] /\ owner[l] = "alive" /\ op = Idle
      /\ UNCHANGED <<target, stage, retire, armed, owner, payload, op>>
  BY <1>3 DEF OwnerRecords, processes
<1>5. RegistryTypeOK'
  BY <1>1, <1>3, <1>4 DEF RegistryTypeOK
<1>6. ASSUME NEW k \in Launches PROVE LaunchOK(k)'
  BY <1>1, <1>3, <1>4 DEF RegistryTypeOK, LaunchOK, LeaseOf, LifecycleLease
<1>. QED BY <1>4, <1>5, <1>6, EndedIsOK DEF LaunchInv

\* A launcher that gives its selection up takes nothing but its process lease.
LEMMA LauncherKeeps ==
  ASSUME LaunchInv, NEW l \in Launches,
         DropSelection(l) \/ LauncherDies(l) \/ AdoptFindsStaging(l) \/ AdoptRefused(l)
  PROVE  LaunchInv'
<1>1. RegistryTypeOK /\ \A k \in Launches : LaunchOK(k)
  BY DEF LaunchInv
<1>2. CASE DropSelection(l)
  <2>1. UNCHANGED <<rec, stage, retire, owner, payload, op>>
    BY <1>2 DEF DropSelection
  <2>2. RegistryTypeOK'
    BY <1>1, <1>2 DEF DropSelection, RegistryTypeOK, Leases
  <2>3. \A k \in Launches : target[k] = LifecycleLease(k) => target'[k] = target[k]
    BY <1>1, <1>2, LifecycleIsLease DEF DropSelection, StillProcessLease, RegistryTypeOK
  <2>4. \A k \in Launches : k # l => target'[k] = target[k] /\ armed'[k] = armed[k]
    BY <1>1, <1>2 DEF DropSelection, RegistryTypeOK
  <2>5. armed'[l] = "none" /\ (target'[l] = target[l] \/ target'[l] = "none")
    BY <1>1, <1>2 DEF DropSelection, RegistryTypeOK
  <2>6. ASSUME NEW k \in Launches PROVE LaunchOK(k)'
    BY <1>1, <2>1, <2>3, <2>4, <2>5 DEF LaunchOK, LeaseOf, LifecycleLease
  <2>7. OperationOK'
    BY <2>1, <2>3, BesideKeepsOperation DEF Gone
  <2>. QED BY <2>2, <2>6, <2>7 DEF LaunchInv
<1>3. CASE LauncherDies(l) \/ AdoptFindsStaging(l) \/ AdoptRefused(l)
  <2>1. UNCHANGED <<evidence, stage>> /\ op' = Idle
    BY <1>3 DEF LauncherDies, AdoptFindsStaging, AdoptRefused, Locks, files, evidence
  <2>2. PICK a \in {"none", "dropping"} : armed' = [armed EXCEPT ![l] = a]
    BY <1>3 DEF LauncherDies, AdoptFindsStaging, AdoptRefused
  <2>3. /\ armed' \in [Launches -> {"none", "armed", "dropping"}]
        /\ \A k \in Launches : armed'[k] = "armed" => armed[k] = "armed"
    BY <1>1, <2>2 DEF RegistryTypeOK
  <2>. QED BY <1>1, <2>1, <2>3, EndStep DEF RegistryTypeOK
<1>. QED BY <1>2, <1>3

\* Leases of dead processes are reclaimed; a lifecycle lease is none of them.
LEMMA ReclaimKeeps ==
  ASSUME LaunchInv, ReclaimStaleLeases
  PROVE  LaunchInv'
<1>1. RegistryTypeOK /\ \A k \in Launches : LaunchOK(k)
  BY DEF LaunchInv
<1>2. UNCHANGED <<rec, stage, retire, owner, payload, armed, op>> /\ op = Idle
  BY DEF ReclaimStaleLeases, processes, Locks
<1>3. \A k \in Launches : target'[k] = IF owner[k] = "alive" THEN target[k] ELSE "none"
  BY DEF ReclaimStaleLeases
<1>4. RegistryTypeOK'
  BY <1>1, <1>2 DEF ReclaimStaleLeases, RegistryTypeOK, Leases
<1>5. ASSUME NEW k \in Launches PROVE LaunchOK(k)'
  <2>1. target[k] # LifecycleLease(k)
    BY LifecycleIsLease DEF ReclaimStaleLeases
  <2>. QED BY <1>1, <1>2, <1>3, <2>1 DEF LaunchOK, LeaseOf, LifecycleLease
<1>. QED BY <1>2, <1>4, <1>5, EndedIsOK DEF LaunchInv

-----------------------------------------------------------------------------
(* prepare and adopt_prepared.                                             *)

\* The next step of an adoption is about the same launch.
LEMMA GotoOnLaunch ==
  ASSUME op \in LaunchOps, NEW x \in AdoptPcs, Goto(x)
  PROVE  op' \in LaunchOps /\ op'.pc = x /\ op'.launch = op.launch
BY DEF Goto, LaunchOps

\* Every step of prepare and of adopt_prepared.
LEMMA AdoptKeeps ==
  ASSUME LaunchInv,
         \/ (\E l \in Launches : Prepare(l) \/ AdoptPrepared(l)) \/ PrepareRename
         \/ LinkStage \/ Exchange \/ UnlinkStage \/ AdoptRecord \/ AdoptRename \/ Disarm
  PROVE  LaunchInv'
<1> USE DEF At
<1>1. RegistryTypeOK /\ OperationOK /\ \A k \in Launches : LaunchOK(k)
  BY DEF LaunchInv
<1>2. ASSUME NEW l \in Launches, Prepare(l) \/ AdoptPrepared(l) PROVE LaunchInv'
  <2>1. UNCHANGED <<evidence, stage, armed>>
    BY <1>2 DEF Prepare, AdoptPrepared, processes, evidence
  <2>2. \/ op' = [pc |-> "prepareRename", launch |-> l] /\ rec[l].state = "none" /\ owner[l] = "alive"
        \/ op' = [pc |-> "linkStage", launch |-> l] /\ rec[l] = PreparingRecord
    BY <1>2 DEF Prepare, AdoptPrepared, HasRecord, SelectionValid, ProcessIsExact
  <2>3. op' \in LaunchOps
    BY <2>2 DEF LaunchOps, AdoptPcs
  <2>4. OperationOK'
    BY <2>1, <2>2 DEF OperationOK, AdoptPcs, PassPcs, StepPcs, ReleasePcs, evidence
  <2>. QED BY <1>1, <2>1, <2>3, <2>4, OperationGoesOn DEF RegistryTypeOK
<1>3. CASE PrepareRename
  <2>1. op.launch \in Launches /\ rec[op.launch].state = "none" /\ owner[op.launch] # "unborn"
    BY <1>1, <1>3, Shapes DEF PrepareRename, OperationOK, LaunchOps
  <2>2. rec' = [rec EXCEPT ![op.launch] = PreparingRecord] /\ op' = Idle
        /\ UNCHANGED <<target, stage, retire, armed, owner, payload>>
    BY <1>3 DEF PrepareRename, Finished, processes
  <2>3. PreparingRecord \in Records /\ PreparingRecord.state = "preparing" /\ ~PreparingRecord.drained
    BY Zenon DEF PreparingRecord, NoRecord, Records
  <2>4. RegistryTypeOK'
    BY <1>1, <2>2, <2>3, Zenon DEF RegistryTypeOK
  <2>5. ASSUME NEW k \in Launches PROVE LaunchOK(k)'
    BY <1>1, <2>1, <2>2, <2>3 DEF RegistryTypeOK, LaunchOK, LeaseOf, LifecycleLease
  <2>. QED BY <2>2, <2>4, <2>5, EndedIsOK DEF LaunchInv
<1>4. CASE LinkStage
  <2>1. op \in LaunchOps /\ op.launch \in Launches /\ rec[op.launch] = PreparingRecord
    BY <1>1, <1>4, Shapes DEF LinkStage, OperationOK, LaunchOps, AdoptPcs
  <2>2. op' \in LaunchOps /\ op'.pc = "exchange" /\ op'.launch = op.launch
    BY <1>4, <2>1, GotoOnLaunch DEF LinkStage, AdoptPcs
  <2>3. stage' \in [Launches -> Leases] /\ stage'[op.launch] = LifecycleLease(op.launch)
    BY <1>1, <1>4, <2>1, LifecycleIsLease DEF LinkStage, RegistryTypeOK
  <2>4. UNCHANGED <<evidence, armed>>
    BY <1>4 DEF LinkStage, processes, evidence
  <2>5. OperationOK'
    BY <2>1, <2>2, <2>3, <2>4 DEF OperationOK, AdoptPcs, PassPcs, StepPcs, ReleasePcs, evidence
  <2>. QED BY <2>2, <2>3, <2>4, <2>5, OperationGoesOn
<1>5. CASE Exchange
  <2>1. /\ op \in LaunchOps /\ op.launch \in Launches /\ rec[op.launch] = PreparingRecord
        /\ stage[op.launch] = LifecycleLease(op.launch)
    BY <1>1, <1>5, Shapes DEF Exchange, OperationOK, LaunchOps, AdoptPcs
  <2>2. op' \in LaunchOps /\ op'.pc = "unlinkStage" /\ op'.launch = op.launch
    BY <1>5, <2>1, GotoOnLaunch DEF Exchange, AdoptPcs
  <2>3. /\ target' = [target EXCEPT ![op.launch] = LifecycleLease(op.launch)]
        /\ stage' = [stage EXCEPT ![op.launch] = target[op.launch]]
        /\ UNCHANGED <<rec, retire, armed, owner, payload>>
    BY <1>5, <2>1 DEF Exchange, processes
  <2>4. RegistryTypeOK'
    BY <1>1, <2>1, <2>2, <2>3, LifecycleIsLease DEF RegistryTypeOK
  <2>5. ASSUME NEW k \in Launches PROVE LaunchOK(k)'
    BY <1>1, <2>1, <2>3, LifecycleIsLease
       DEF RegistryTypeOK, LaunchOK, LeaseOf, LifecycleLease, PreparingRecord, NoRecord
  <2>6. OperationOK'
    BY <1>1, <2>1, <2>2, <2>3
       DEF RegistryTypeOK, OperationOK, AdoptPcs, PassPcs, StepPcs, ReleasePcs, LifecycleLease
  <2>. QED BY <2>4, <2>5, <2>6 DEF LaunchInv
<1>6. CASE UnlinkStage \/ AdoptRecord
  <2>1. /\ op \in LaunchOps /\ op.launch \in Launches /\ rec[op.launch] = PreparingRecord
        /\ target[op.launch] = LifecycleLease(op.launch)
    BY <1>1, <1>6, Shapes DEF UnlinkStage, AdoptRecord, OperationOK, LaunchOps, AdoptPcs
  <2>2. op' \in LaunchOps /\ op'.pc \in {"adoptRecord", "adoptRename"} /\ op'.launch = op.launch
    BY <1>6, <2>1, GotoOnLaunch DEF UnlinkStage, AdoptRecord, AdoptPcs
  <2>3. stage' \in [Launches -> Leases]
    BY <1>1, <1>6 DEF UnlinkStage, AdoptRecord, RegistryTypeOK, Leases
  <2>4. UNCHANGED <<evidence, armed>>
    BY <1>6 DEF UnlinkStage, AdoptRecord, processes, evidence
  <2>5. OperationOK'
    BY <2>1, <2>2, <2>4 DEF OperationOK, AdoptPcs, PassPcs, StepPcs, ReleasePcs, evidence, LifecycleLease
  <2>. QED BY <2>2, <2>3, <2>4, <2>5, OperationGoesOn
<1>7. CASE AdoptRename
  <2>1. /\ op \in LaunchOps /\ op.launch \in Launches /\ rec[op.launch] = PreparingRecord
        /\ target[op.launch] = LifecycleLease(op.launch)
    BY <1>1, <1>7, Shapes DEF AdoptRename, OperationOK, LaunchOps, AdoptPcs
  <2>2. op' \in LaunchOps /\ op'.pc = "disarm"
    BY <1>7, <2>1, GotoOnLaunch DEF AdoptRename, AdoptPcs
  <2>3. rec' = [rec EXCEPT ![op.launch] = AdoptedRecord]
        /\ UNCHANGED <<target, stage, retire, armed, owner, payload>>
    BY <1>7 DEF AdoptRename, processes
  <2>4. /\ AdoptedRecord \in Records /\ AdoptedRecord.state = "adopted" /\ ~AdoptedRecord.drained
        /\ AdoptedRecord.kind = "lifecycle" /\ PreparingRecord.state = "preparing"
    BY Zenon DEF AdoptedRecord, PreparingRecord, NoRecord, Records
  <2>5. RegistryTypeOK'
    BY <1>1, <2>2, <2>3, <2>4, Zenon DEF RegistryTypeOK
  <2>6. ASSUME NEW k \in Launches PROVE LaunchOK(k)'
    BY <1>1, <2>1, <2>3, <2>4 DEF RegistryTypeOK, LaunchOK, LeaseOf, LifecycleLease
  <2>7. OperationOK'
    BY <2>2 DEF OperationOK, AdoptPcs, PassPcs, StepPcs, ReleasePcs
  <2>. QED BY <2>5, <2>6, <2>7 DEF LaunchInv
<1>8. CASE Disarm
  <2>1. UNCHANGED <<evidence, stage>> /\ op' = Idle /\ armed' = [armed EXCEPT ![op.launch] = "none"]
    BY <1>8 DEF Disarm, Finished, files, evidence
  <2>2. /\ armed' \in [Launches -> {"none", "armed", "dropping"}]
        /\ \A k \in Launches : armed'[k] = "armed" => armed[k] = "armed"
    BY <1>1, <2>1, Zenon DEF RegistryTypeOK
  <2>. QED BY <1>1, <2>1, <2>2, EndStep DEF RegistryTypeOK
<1>. QED BY <1>2, <1>3, <1>4, <1>5, <1>6, <1>7, <1>8

\* A failing call and a crash leave the evidence as it is.
LEMMA FaultsKeep ==
  ASSUME LaunchInv, OperationFails \/ AdoptFails \/ Crash
  PROVE  LaunchInv'
<1>1. RegistryTypeOK
  BY DEF LaunchInv
<1>2. UNCHANGED evidence /\ op' = Idle
  BY DEF OperationFails, AdoptFails, Crash, Finished, files, evidence
<1>3. /\ armed' \in [Launches -> {"none", "armed", "dropping"}]
      /\ \A k \in Launches : armed'[k] = "armed" => armed[k] = "armed"
  BY <1>1 DEF OperationFails, AdoptFails, Crash, RegistryTypeOK
<1>4. stage' \in [Launches -> Leases]
  <2>1. CASE AdoptFails
    <3>1. op.launch \in Launches
      BY <1>1, <2>1, Shapes DEF AdoptFails, LaunchOps
    <3>. QED BY <1>1, <2>1, <3>1 DEF AdoptFails, RegistryTypeOK, Leases
  <2>2. CASE OperationFails \/ Crash
    BY <1>1, <2>2 DEF OperationFails, Crash, RegistryTypeOK, files
  <2>. QED BY <2>1, <2>2
<1>. QED BY <1>2, <1>3, <1>4, EndStep

-----------------------------------------------------------------------------
(* reconcile.                                                              *)

\* What is observed to be empty is empty, but for a payload that left its group.
LEMMA EmptyObserved ==
  ASSUME LaunchInv, NEW l \in Launches, NEW o \in Observations, o[l] = "empty"
  PROVE  /\ owner[l] # "alive"
         /\ l \in Systemd \/ rec[l].drained => payload[l] \notin {"live", "detached"}
<1>1. "empty" \in Observed(l)
  BY DEF Observations
<1>2. CASE l \in Systemd
  BY <1>1, <1>2 DEF Observed, Empty
<1>3. CASE l \notin Systemd
  <2>1. owner[l] # "alive"
    BY <1>1, <1>3 DEF Observed
  <2>. QED BY <1>3, <2>1 DEF LaunchInv, LaunchOK
<1>. QED BY <1>2, <1>3

\* A plan completes a launch only where it is empty, or will be once the
\* controller has closed its gate.
SoundPlan(l, p) ==
  /\ p \in PlanType
  /\ p.act = "terminalize" => p.result # "none"
  /\ p.act = "complete" =>
       payload[l] \notin {"live", "detached"} /\ (p.control \/ owner[l] # "alive")

\* What plan_reconciliation decides is sound for what it has observed.
LEMMA PlanIsSound ==
  ASSUME LaunchInv, NEW l \in Launches, NEW o \in Observations
  PROVE  SoundPlan(l, PlanReconciliation(l, rec[l], LeaseOf(l), o[l]))
<1> DEFINE ob == o[l]
           r == rec[l]
           le == LeaseOf(l)
<1>1. r \in Records /\ LaunchOK(l)
  BY DEF LaunchInv, RegistryTypeOK
<1>2. payload[l] \in {"live", "detached"} => r.state \in {"running", "terminal"} /\ r.kind = "lifecycle"
  BY <1>1 DEF LaunchOK
<1>3. ob = "empty" => /\ owner[l] # "alive"
                      /\ l \in Systemd \/ r.drained => payload[l] \notin {"live", "detached"}
  BY EmptyObserved
<1> SUFFICES SoundPlan(l, PlanReconciliation(l, r, le, ob))
  OBVIOUS
<1> HIDE DEF ob, r, le
<1>4. SoundPlan(l, Retain) /\ SoundPlan(l, Uncertain)
  BY Zenon DEF SoundPlan, Retain, Uncertain, Plan, PlanType
<1>5. ASSUME NEW p, \/ p = [Plan EXCEPT !.control = TRUE]
                    \/ p = [Plan EXCEPT !.control = TRUE, !.release = TRUE]
                    \/ p = [Plan EXCEPT !.control = TRUE, !.result = "failed"]
                    \/ p = [Plan EXCEPT !.control = TRUE, !.result = "failed", !.release = TRUE]
                    \/ p = [Plan EXCEPT !.control = TRUE, !.result = "failed", !.transferred = TRUE,
                                        !.release = TRUE],
             payload[l] \notin {"live", "detached"}
      PROVE  SoundPlan(l, p)
  BY <1>5, Zenon DEF SoundPlan, Plan, PlanType
<1>6. ASSUME NEW rel \in BOOLEAN PROVE SoundPlan(l, TerminalPlan(l, r, rel, ob))
  <2>1. CASE Releasable(l, r, ob)
    <3>1. TerminalPlan(l, r, rel, ob) = [Plan EXCEPT !.release = rel]
      BY <2>1 DEF TerminalPlan, Releasable
    <3>2. payload[l] \notin {"live", "detached"} /\ owner[l] # "alive"
      BY <1>3, <2>1 DEF Releasable
    <3> DEFINE p == [Plan EXCEPT !.release = rel]
    <3>3. p \in PlanType /\ p.act = "complete"
      BY Zenon DEF Plan, PlanType
    <3> HIDE DEF p
    <3>4. SoundPlan(l, p)
      BY <3>2, <3>3 DEF SoundPlan
    <3>. QED BY <3>1, <3>4 DEF p
  <2>2. CASE ~Releasable(l, r, ob)
    BY <1>4, <2>2 DEF TerminalPlan
  <2>. QED BY <2>1, <2>2
<1>7. SoundPlan(l, RunningPlan(l, ob))
  <2>1. CASE l \in Systemd /\ ob = "empty"
    BY <1>3, <2>1, Zenon DEF RunningPlan, SoundPlan, Plan, PlanType
  <2>2. CASE l \notin Systemd /\ ob = "detached"
    BY <2>2, Zenon DEF RunningPlan, SoundPlan, Plan, PlanType
  <2>3. CASE ~(l \in Systemd /\ ob = "empty") /\ ~(l \notin Systemd /\ ob = "detached")
    BY <1>4, <2>3 DEF RunningPlan
  <2>. QED BY <2>1, <2>2, <2>3
<1>8. CASE r.state \in {"preparing", "adopted"}
  BY <1>2, <1>4, <1>5, <1>8, LifecycleIsLease, Zenon DEF PlanReconciliation
<1>9. CASE r.state = "running"
  BY <1>4, <1>7, <1>9 DEF PlanReconciliation
<1>10. CASE r.state = "terminal"
  <2>1. CASE r.kind = "process" /\ (le = "process" \/ (le = "none" /\ l \notin Systemd))
    <3>1. \/ PlanReconciliation(l, r, le, ob) = [Plan EXCEPT !.control = TRUE]
          \/ PlanReconciliation(l, r, le, ob) = [Plan EXCEPT !.control = TRUE, !.release = TRUE]
      BY <1>10, <2>1, LifecycleIsLease, Zenon DEF PlanReconciliation
    <3>2. payload[l] \notin {"live", "detached"}
      BY <1>2, <2>1
    <3>. QED BY <1>5, <3>1, <3>2
  <2>2. CASE ~(r.kind = "process" /\ (le = "process" \/ (le = "none" /\ l \notin Systemd)))
    <3>1. \/ PlanReconciliation(l, r, le, ob) = Uncertain
          \/ PlanReconciliation(l, r, le, ob) = TerminalPlan(l, r, TRUE, ob)
          \/ PlanReconciliation(l, r, le, ob) = TerminalPlan(l, r, FALSE, ob)
      BY <1>10, <2>2, LifecycleIsLease, Zenon DEF PlanReconciliation
    <3>2. SoundPlan(l, TerminalPlan(l, r, TRUE, ob)) /\ SoundPlan(l, TerminalPlan(l, r, FALSE, ob))
      BY <1>6, Zenon
    <3>. QED BY <1>4, <3>1, <3>2, Zenon
  <2>. QED BY <2>1, <2>2
<1>11. CASE r.state = "none"
  BY <1>4, <1>11 DEF PlanReconciliation
<1>. QED BY <1>1, <1>8, <1>9, <1>10, <1>11 DEF Records

\* A killed owner stays one its record allows.
LEMMA KillKeeps ==
  ASSUME LaunchInv, NEW ls \in SUBSET Launches, \A l \in ls : HasRecord(l), Kill(ls),
         UNCHANGED <<rec, target, retire, stage, armed, payload>>
  PROVE  /\ owner' \in [Launches -> {"unborn", "alive", "dead"}]
         /\ \A l \in Launches : LaunchOK(l)'
<1>1. \A l \in Launches : owner'[l] = IF l \in ls THEN "dead" ELSE owner[l]
  BY DEF Kill
<1>2. ASSUME NEW l \in Launches PROVE LaunchOK(l)'
  BY <1>1 DEF LaunchInv, LaunchOK, LeaseOf, LifecycleLease, HasRecord
<1>. QED BY <1>2 DEF Kill, LaunchInv, RegistryTypeOK

\* Reconciliation plans and kills; what it is going to release is gone then.
LEMMA ReconcileKeeps ==
  ASSUME LaunchInv, NEW o \in Observations, Reconcile(o) \/ ControllerUncertain(o)
  PROVE  LaunchInv'
<1> DEFINE P == Plans(o)
<1>1. RegistryTypeOK
  BY DEF LaunchInv
<1>2. P \in PlanMaps /\ \A l \in Launches : SoundPlan(l, P[l])
  <2>1. ASSUME NEW l \in Launches PROVE SoundPlan(l, P[l])
    <3>1. SoundPlan(l, Retain)
      BY Zenon DEF SoundPlan, Retain, Plan, PlanType
    <3>. QED BY <3>1, PlanIsSound DEF Plans
  <2>2. \A l \in Launches : P[l] \in PlanType
    BY <2>1, Zenon DEF SoundPlan
  <2>. QED BY <2>1, <2>2 DEF PlanMaps, Plans
<1>3. \A l \in Launches : P[l].control \/ P[l].act # "retain" => HasRecord(l)
  BY DEF Plans, Retain, Plan
<1>4. UNCHANGED <<rec, target, retire, stage, armed, payload>> /\ Certain(P)
  BY DEF Reconcile, ControllerUncertain, files
<1>5. CASE ControllerUncertain(o)
  <2>1. PICK ls \in SUBSET Controlled(P) : Kill(ls)
    BY <1>5 DEF ControllerUncertain
  <2>2. ls \in SUBSET Launches /\ \A l \in ls : HasRecord(l)
    BY <1>3, <2>1 DEF Controlled
  <2>3. op' = Idle
    BY <1>5, SMTT(30) DEF ControllerUncertain, Locks
  <2>. QED BY <1>1, <1>4, <2>1, <2>2, <2>3, KillKeeps, EndedIsOK DEF LaunchInv, RegistryTypeOK
<1>6. CASE Reconcile(o)
  <2> DEFINE D == {l \in Launches : P[l].act # "retain"}
  <2>1. Kill(Controlled(P)) /\ op' = [pc |-> "normalizeTemps", plans |-> P, todo |-> D]
    BY <1>6 DEF Reconcile
  <2>2. Controlled(P) \in SUBSET Launches /\ \A l \in Controlled(P) : HasRecord(l)
    BY <1>3 DEF Controlled
  <2>3. D \in LaunchSets /\ D \subseteq Launches
    BY DEF LaunchSets
  <2>4. ASSUME NEW l \in D PROVE Planned(l)'
    <3>1. HasRecord(l) /\ P[l].act \in {"complete", "terminalize"}
      BY <1>2, <1>3, <1>4, SMTT(30) DEF SoundPlan, PlanType, Certain
    <3>2. owner[l] # "unborn" /\ owner[l] \in {"unborn", "alive", "dead"}
      BY <1>1, <3>1 DEF LaunchInv, LaunchOK, HasRecord, RegistryTypeOK
    <3>3. owner'[l] = IF P[l].control THEN "dead" ELSE owner[l]
      BY <2>1 DEF Kill, Controlled
    <3>4. P[l].act = "complete" => Gone(l)'
      BY <1>2, <1>4, <3>2, <3>3 DEF SoundPlan, Gone
    <3>5. op'.plans = P
      BY <2>1
    <3>. QED BY <1>2, <3>1, <3>2, <3>3, <3>4, <3>5, ZenonT(30) DEF Planned, SoundPlan
  <2> HIDE DEF P, D
  <2>5. op' \in PassOps /\ op'.pc = "normalizeTemps" /\ op'.todo = D
    BY <1>2, <2>1, <2>3 DEF PassOps
  <2>6. OperationOK'
    BY <2>4, <2>5 DEF OperationOK, AdoptPcs, PassPcs, StepPcs, ReleasePcs
  <2>. QED BY <1>1, <1>4, <2>1, <2>2, <2>5, <2>6, KillKeeps, SMTT(30) DEF LaunchInv, RegistryTypeOK
<1>. QED BY <1>5, <1>6

\* The plans stand while the pass goes on.
LEMMA PassGoesOn ==
  ASSUME LaunchInv, op.pc \in PassPcs, UNCHANGED <<owner, payload>>,
         op' \in PassOps \union StepOps, op'.plans = op.plans, op'.todo \subseteq op.todo,
         NEW k, op'.pc \in StepPcs => op'.launch = k /\ Planned(k),
         op'.pc \in ReleasePcs => op.plans[k].act = "complete"
  PROVE  OperationOK'
<1>1. \A l : Planned(l) => Planned(l)'
  BY DEF Planned, Gone
<1>2. op'.pc \in PassPcs
  BY DEF PassOps, StepOps, PassPcs
<1>3. \A l \in op'.todo : Planned(l)'
  BY <1>1 DEF LaunchInv, OperationOK
<1>4. op'.pc \notin AdoptPcs \union {"prepareRename"}
  BY <1>2 DEF PassPcs, StepPcs, ReleasePcs, AdoptPcs
<1>5. op'.pc \in StepPcs => Planned(op.launch)'
  BY <1>1 DEF Planned, Gone
<1>. QED BY <1>3, <1>4, <1>5 DEF OperationOK, AdoptPcs, StepPcs

\* Goto in a pass, whose operation has the launch k or none yet.
LEMMA GotoInPass ==
  ASSUME op \in PassOps \union StepOps, NEW x,
         \/ op \in PassOps /\ x \in {"normalizeStages", "apply"}
         \/ op \in StepOps /\ x \in StepPcs \union {"apply"},
         Goto(x)
  PROVE  /\ op' \in PassOps \union StepOps /\ op'.pc = x /\ op'.plans = op.plans /\ op'.todo = op.todo
         /\ op \in StepOps => op' \in StepOps /\ op'.launch = op.launch
<1>1. CASE op \in PassOps /\ x \in {"normalizeStages", "apply"}
  BY <1>1 DEF Goto, PassOps, StepOps
<1>2. CASE op \in StepOps /\ x \in StepPcs \union {"apply"}
  BY <1>2 DEF Goto, PassOps, StepOps
<1>. QED BY <1>1, <1>2

\* Every step of a reconciliation pass.
LEMMA PassKeeps ==
  ASSUME LaunchInv,
         \/ NormalizeTemps \/ NormalizedStages \/ Applied
         \/ \E l \in Launches : NormalizeStage(l) \/ ApplyPlan(l)
  PROVE  LaunchInv'
<1> USE DEF At
<1>1. RegistryTypeOK /\ OperationOK
  BY DEF LaunchInv
<1>2. op.pc \in {"normalizeTemps", "normalizeStages", "apply"}
  BY DEF NormalizeTemps, NormalizedStages, Applied, NormalizeStage, ApplyPlan
<1>3. op.pc \in PassPcs /\ op \in PassOps \union StepOps /\ op.todo \subseteq Launches
  BY <1>1, <1>2, Shapes DEF PassPcs, PassOps, StepOps, LaunchSets
<1>4. op.pc \in {"normalizeTemps", "normalizeStages"} => op \in PassOps
  BY <1>3 DEF PassOps, StepOps, StepPcs, ReleasePcs
<1>5. CASE NormalizeTemps \/ NormalizedStages
  <2>1. UNCHANGED <<evidence, stage, armed>>
    BY <1>5 DEF NormalizeTemps, NormalizedStages, evidence, processes, files
  <2>2. PICK x \in {"normalizeStages", "apply"} : Goto(x)
    BY <1>5 DEF NormalizeTemps, NormalizedStages, NextPlan, Goto
  <2>3. op' \in PassOps \union StepOps /\ op'.pc = x /\ op'.plans = op.plans /\ op'.todo = op.todo
    BY <1>4, <1>5, <2>2, GotoInPass DEF NormalizeTemps, NormalizedStages
  <2>4. OperationOK'
    BY <1>3, <2>1, <2>3, PassGoesOn DEF evidence, StepPcs, ReleasePcs
  <2>. QED BY <1>1, <2>1, <2>3, <2>4, OperationGoesOn DEF RegistryTypeOK
<1>6. ASSUME NEW l \in Launches, NormalizeStage(l) PROVE LaunchInv'
  <2>1. UNCHANGED <<evidence, armed, op>> /\ stage' \in [Launches -> Leases]
    BY <1>1, <1>6 DEF NormalizeStage, evidence, processes, RegistryTypeOK, Leases
  <2>2. op.pc \notin StepPcs /\ op.pc \notin ReleasePcs
    BY <1>2 DEF StepPcs, ReleasePcs
  <2>3. op' \in PassOps \union StepOps /\ op'.pc = op.pc /\ op'.plans = op.plans /\ op'.todo = op.todo
    BY <1>3, <2>1
  <2>4. OperationOK'
    BY <1>3, <2>1, <2>2, <2>3, PassGoesOn, Zenon DEF evidence
  <2>. QED BY <2>1, <2>3, <2>4, OperationGoesOn
<1>7. CASE Applied
  BY <1>1, <1>7, EndStep, Zenon DEF Applied, Finished, files, processes, evidence, RegistryTypeOK
<1>8. ASSUME NEW l \in Launches, ApplyPlan(l) PROVE LaunchInv'
  <2> DEFINE p == op.plans[l]
  <2>1. l \in op.todo /\ Planned(l)
    BY <1>1, <1>3, <1>8 DEF ApplyPlan, OperationOK
  <2>2. StepOf(p) \in StepPcs /\ (StepOf(p) \in ReleasePcs => p.result = "none")
    BY DEF StepOf, StepPcs, ReleasePcs
  <2>3. op.plans \in PlanMaps /\ op.todo \in LaunchSets
    BY <1>3 DEF PassOps, StepOps
  <2>4. op.todo \ {l} \in LaunchSets
    BY <2>3 DEF LaunchSets
  <2>5. op' = [pc |-> StepOf(p), plans |-> op.plans, todo |-> op.todo \ {l}, launch |-> l]
    BY <1>8 DEF ApplyPlan
  <2>6. UNCHANGED <<evidence, stage, armed>>
    BY <1>8 DEF ApplyPlan, files, processes, evidence
  <2>7. StepOf(p) \in ReleasePcs => p.act = "complete"
    BY <2>1, <2>2, Zenon DEF Planned
  <2> HIDE DEF p
  <2>8. /\ op' \in StepOps /\ op'.pc = StepOf(p) /\ op'.plans = op.plans /\ op'.todo \subseteq op.todo
        /\ op'.launch = l
    BY <2>2, <2>3, <2>4, <2>5, ZenonT(30) DEF StepOps
  <2>9. OperationOK'
    BY <1>3, <2>1, <2>6, <2>7, <2>8, PassGoesOn DEF evidence, p
  <2>. QED BY <1>1, <2>6, <2>8, <2>9, OperationGoesOn, ZenonT(30) DEF RegistryTypeOK
<1>. QED BY <1>5, <1>6, <1>7, <1>8

\* apply_reconciliation_plan, for the launch at hand.
LEMMA ApplyKeeps ==
  ASSUME LaunchInv,
         \/ TerminalRecord \/ TerminalRename \/ RetireLease \/ UnlinkLease \/ RetireLaunch \/ UnlinkLaunch
  PROVE  LaunchInv'
<1> USE DEF At
<1> DEFINE l == op.launch
<1>1. RegistryTypeOK /\ OperationOK /\ \A k \in Launches : LaunchOK(k)
  BY DEF LaunchInv
<1>2. op.pc \in StepPcs
  BY DEF TerminalRecord, TerminalRename, RetireLease, UnlinkLease, RetireLaunch, UnlinkLaunch, StepPcs,
         ReleasePcs
<1>3. /\ op \in StepOps /\ l \in Launches /\ op.pc \in PassPcs /\ op.plans[l] \in PlanType
      /\ Planned(l)
  BY <1>1, <1>2, Shapes DEF StepOps, PlanMaps, PassPcs, OperationOK
<1>4. UNCHANGED <<owner, payload, armed, stage>>
  BY DEF TerminalRecord, TerminalRename, RetireLease, UnlinkLease, RetireLaunch, UnlinkLaunch, processes
<1>5. ASSUME NEW x \in StepPcs \union {"apply"}, Goto(x),
             x \in ReleasePcs => op.plans[l].act = "complete"
      PROVE  op' \in StepOps /\ OperationOK'
  <2>1. /\ op' \in StepOps /\ op'.pc = x /\ op'.plans = op.plans /\ op'.todo = op.todo
        /\ op'.launch = l
    BY <1>3, <1>5, GotoInPass, ZenonT(30)
  <2>. QED BY <1>3, <1>4, <1>5, <2>1, PassGoesOn
<1>6. op.pc \in ReleasePcs => op.plans[l].act = "complete" /\ Gone(l)
  BY <1>1, <1>3 DEF OperationOK, Planned
<1>7. CASE TerminalRecord
  <2>1. op' \in StepOps /\ OperationOK'
    BY <1>5, <1>7 DEF TerminalRecord, StepPcs, ReleasePcs
  <2>2. UNCHANGED <<evidence, armed>>
    BY <1>7 DEF TerminalRecord, processes, evidence
  <2>. QED BY <1>1, <1>4, <2>1, <2>2, OperationGoesOn, SMTT(30) DEF RegistryTypeOK
<1>8. CASE TerminalRename
  <2> DEFINE p == op.plans[l]
             r == TerminalSuccessor(rec[l], p)
  <2>1. PICK x \in {"apply", "retireLease", "retireLaunch"} :
          Goto(x) /\ (x # "apply" => p.act # "terminalize")
    BY <1>8 DEF TerminalRename, Current
  <2>2. op' \in StepOps /\ OperationOK'
    <3>1. x \in ReleasePcs => p.act = "complete"
      BY <1>3, <2>1 DEF ReleasePcs, Planned
    <3>. QED BY <1>5, <2>1, <3>1 DEF StepPcs, ReleasePcs
  <2>3. rec' = [rec EXCEPT ![l] = r] /\ UNCHANGED <<target, retire>>
    BY <1>8 DEF TerminalRename, Current
  <2>4. /\ r \in Records /\ r.state = "terminal" /\ r.drained = rec[l].drained
        /\ rec[l].kind = "lifecycle" => r.kind = "lifecycle"
    <3>1. rec[l] \in Records
      BY <1>1, <1>3 DEF RegistryTypeOK
    <3>. QED BY <1>3, <3>1, Zenon DEF TerminalSuccessor, Records, PlanType
  <2>5. owner[l] # "unborn"
    BY <1>3 DEF Planned
  <2> HIDE DEF p, r
  <2>6. RegistryTypeOK'
    BY <1>1, <1>3, <1>4, <2>2, <2>3, <2>4, SMTT(30) DEF RegistryTypeOK
  <2>7. ASSUME NEW k \in Launches PROVE LaunchOK(k)'
    BY <1>1, <1>3, <1>4, <2>3, <2>4, <2>5 DEF RegistryTypeOK, LaunchOK, LeaseOf, LifecycleLease
  <2>. QED BY <2>2, <2>6, <2>7 DEF LaunchInv
<1>9. CASE RetireLease \/ UnlinkLease
  <2>1. op.plans[l].act = "complete" /\ Gone(l)
    BY <1>6, <1>9 DEF RetireLease, UnlinkLease, ReleasePcs
  <2>2. op' \in StepOps /\ OperationOK'
    BY <1>5, <1>9, <2>1, Zenon DEF RetireLease, UnlinkLease, StepPcs, ReleasePcs
  <2>3. /\ UNCHANGED rec /\ target' \in [Launches -> Leases] /\ retire' \in [Launches -> Leases]
        /\ \A k \in Launches : k # l => target'[k] = target[k] /\ retire'[k] = retire[k]
    BY <1>1, <1>3, <1>9 DEF RetireLease, UnlinkLease, RegistryTypeOK, Leases
  <2>4. RegistryTypeOK'
    BY <1>1, <1>4, <2>2, <2>3, SMTT(30) DEF RegistryTypeOK
  <2>5. ASSUME NEW k \in Launches PROVE LaunchOK(k)'
    BY <1>1, <1>4, <2>1, <2>3 DEF LaunchOK, LeaseOf, LifecycleLease, Gone
  <2>. QED BY <2>2, <2>4, <2>5 DEF LaunchInv
<1>10. CASE RetireLaunch \/ UnlinkLaunch
  <2>1. op.plans[l].act = "complete" /\ Gone(l)
    BY <1>6, <1>10 DEF RetireLaunch, UnlinkLaunch, ReleasePcs
  <2>2. op' \in StepOps /\ OperationOK'
    BY <1>5, <1>10, <2>1 DEF RetireLaunch, UnlinkLaunch, StepPcs, ReleasePcs, NextPlan, Goto
  <2>3. PICK r \in Records : /\ rec' = [rec EXCEPT ![l] = r] /\ (r.drained => rec[l].drained)
                             /\ r.state \in {"none", rec[l].state} /\ r.kind \in {"process", rec[l].kind}
                             /\ (r.state # "none" => r.kind = rec[l].kind)
    <3>1. rec[l] \in Records
      BY <1>1, <1>3 DEF RegistryTypeOK
    <3>2. CASE RetireLaunch
      <4> DEFINE r == [rec[l] EXCEPT !.retired = TRUE]
      <4>1. r \in Records /\ r.drained = rec[l].drained /\ r.state = rec[l].state /\ r.kind = rec[l].kind
        BY <3>1, Zenon DEF Records
      <4>2. rec' = [rec EXCEPT ![l] = r]
        BY <3>2 DEF RetireLaunch
      <4>. QED BY <4>1, <4>2, Zenon
    <3>3. CASE UnlinkLaunch
      <4>1. NoRecord \in Records /\ ~NoRecord.drained /\ NoRecord.state = "none" /\ NoRecord.kind = "process"
        BY DEF NoRecord, Records
      <4>. QED BY <3>3, <4>1, Zenon DEF UnlinkLaunch
    <3>. QED BY <1>10, <3>2, <3>3
  <2>4. UNCHANGED <<target, retire>>
    BY <1>10, SMTT(30) DEF RetireLaunch, UnlinkLaunch
  <2>5. RegistryTypeOK'
    BY <1>1, <1>3, <1>4, <2>2, <2>3, <2>4, SMTT(30) DEF RegistryTypeOK
  <2>6. ASSUME NEW k \in Launches PROVE LaunchOK(k)'
    BY <1>1, <1>3, <1>4, <2>1, <2>3, <2>4 DEF RegistryTypeOK, LaunchOK, LeaseOf, LifecycleLease, Gone
  <2>. QED BY <2>2, <2>5, <2>6 DEF LaunchInv
<1>. QED BY <1>7, <1>8, <1>9, <1>10

-----------------------------------------------------------------------------
\* Whatever died, failed or raced on the way, the strengthened invariant holds.
THEOREM LaunchInductive == Spec => []LaunchInv
<1>1. Init => LaunchInv
  <2> SUFFICES ASSUME Init PROVE LaunchInv
    OBVIOUS
  <2>1. NoRecord \in Records /\ NoRecord.state = "none" /\ ~NoRecord.drained
    BY DEF NoRecord, Records
  <2>2. RegistryTypeOK
    BY <2>1 DEF Init, RegistryTypeOK, Leases
  <2>3. ASSUME NEW l \in Launches PROVE LaunchOK(l)
    BY <2>1 DEF Init, LaunchOK
  <2>4. OperationOK
    BY DEF Init, OperationOK, Idle, AdoptPcs, PassPcs, StepPcs, ReleasePcs
  <2>. QED BY <2>2, <2>3, <2>4 DEF LaunchInv
<1>2. LaunchInv /\ [Next]_vars => LaunchInv'
  <2> SUFFICES ASSUME LaunchInv, [Next]_vars PROVE LaunchInv'
    OBVIOUS
  <2>1. CASE OperationStep
    BY <2>1, SessionKeeps, AdoptKeeps, PassKeeps, ApplyKeeps DEF OperationStep, SessionSteps
  <2>2. ASSUME NEW l \in Launches,
               \/ SelectCurrent(l) \/ Prepare(l) \/ AdoptFindsStaging(l) \/ AdoptRefused(l)
               \/ AdoptPrepared(l) \/ DropSelection(l) \/ LauncherDies(l)
               \/ OpenGate(l) \/ RecordRunning(l) \/ RecordDrained(l)
               \/ StartPayload(l) \/ PayloadLeaves(l) \/ OwnerDies(l)
        PROVE  LaunchInv'
    BY <2>2, OwnerKeeps, RecordKeeps, LauncherKeeps, AdoptKeeps
  <2>3. CASE \E o \in Observations : Reconcile(o) \/ ControllerUncertain(o)
    BY <2>3, ReconcileKeeps
  <2>. QED BY <2>1, <2>2, <2>3, SessionKeeps, ReclaimKeeps, FaultsKeep DEF Next, SessionSteps
<1>. QED BY <1>1, <1>2, PTL DEF Spec

\* replace_with_lifecycle_locked and apply_reconciliation_plan: what an owner
\* started runs under the lifecycle lease, and no step of a transfer or of a
\* pass leaves a launch that may still start something without a lease.
THEOREM GenerationAlwaysLeased == Spec => []GenerationStaysLeased
<1>1. LaunchInv => GenerationStaysLeased
  BY LifecycleIsLease, Zenon DEF LaunchInv, LaunchOK, LeaseOf, GenerationStaysLeased
<1>. QED BY <1>1, LaunchInductive, PTL

\* The steps that change a lease at either of its names.
LEMMA OtherStepsKeepLeases ==
  ASSUME [Next]_vars
  PROVE  \/ UNCHANGED <<target, retire>>
         \/ ReclaimStaleLeases \/ Exchange \/ RetireLease \/ UnlinkLease
         \/ \E l \in Launches : SelectCurrent(l) \/ DropSelection(l)
<1>1. CASE SessionSteps \/ UNCHANGED vars \/ OperationFails \/ AdoptFails \/ Crash
  BY <1>1, Zenon DEF SessionSteps, ClaimSession, ClaimRename, ClaimRefused, AdvanceSession, AdvanceDies,
              OpenRegistry, OpenActiveSession, EntryDies, StoreReplaced, OperationFails, AdoptFails, Crash,
              files, vars
<1>2. CASE \E o \in Observations : Reconcile(o) \/ ControllerUncertain(o)
  BY <1>2, Zenon DEF Reconcile, ControllerUncertain, files
<1>3. CASE OperationStep
  BY <1>3 DEF OperationStep, ClaimRename, ClaimRefused, PrepareRename, LinkStage, UnlinkStage, AdoptRecord,
              AdoptRename, Disarm, NormalizeTemps, NormalizedStages, Applied, TerminalRecord,
              TerminalRename, RetireLaunch, UnlinkLaunch, NormalizeStage, ApplyPlan, files
<1>4. ASSUME NEW l \in Launches,
             \/ Prepare(l) \/ AdoptFindsStaging(l) \/ AdoptRefused(l) \/ AdoptPrepared(l)
             \/ LauncherDies(l) \/ OpenGate(l) \/ RecordRunning(l) \/ RecordDrained(l)
             \/ StartPayload(l) \/ PayloadLeaves(l) \/ OwnerDies(l)
      PROVE  UNCHANGED <<target, retire>>
  BY <1>4 DEF Prepare, AdoptFindsStaging, AdoptRefused, AdoptPrepared, LauncherDies, OpenGate, RecordRunning,
              RecordDrained, OwnerRecords, StartPayload, PayloadLeaves, OwnerDies, files
<1>. QED BY <1>1, <1>2, <1>3, <1>4, Zenon DEF Next, SessionSteps

\* unlink_exact_lease, release_matching_process_lease and
\* reclaim_stale_leases_locked: a lifecycle lease goes only when the owner and
\* all it started are gone.
THEOREM LeaseReleasedLast == Spec => LeaseReleasedOnlyWhenEmpty
<1>1. ASSUME LaunchInv, [Next]_vars, NEW l \in Launches,
             LeaseOf(l) \notin {"none", "process"}, LeaseOf(l)' # LeaseOf(l)
      PROVE  Empty(l)
  <2> USE DEF At
  <2>1. RegistryTypeOK /\ OperationOK /\ LaunchOK(l)
    BY <1>1 DEF LaunchInv
  <2>2. ~UNCHANGED <<target, retire>>
    BY <1>1 DEF LeaseOf
  <2>3. CASE ReclaimStaleLeases
    <3>1. target[l] \in {"none", "process"} /\ retire[l] = "none"
      BY <2>3 DEF ReclaimStaleLeases, NoTransferStaging
    <3>. QED BY <1>1, <3>1 DEF LeaseOf
  <2>4. CASE Exchange
    <3>1. target[op.launch] = "process" /\ UNCHANGED retire
      BY <2>4 DEF Exchange, SelectionValid
    <3>2. l # op.launch => target'[l] = target[l]
      BY <2>1, <2>4 DEF Exchange, RegistryTypeOK
    <3>. QED BY <1>1, <3>1, <3>2 DEF LeaseOf
  <2>5. CASE RetireLease
    <3>1. op.launch \in Launches
      BY <2>1, <2>5, Shapes DEF RetireLease, StepOps, StepPcs, ReleasePcs
    <3>2. l # op.launch => target'[l] = target[l] /\ retire'[l] = retire[l]
      BY <2>1, <2>5 DEF RetireLease, RegistryTypeOK
    <3>3. \/ UNCHANGED <<target, retire>>
          \/ target[op.launch] # "none" /\ target'[op.launch] = "none"
             /\ retire'[op.launch] = target[op.launch]
      BY <2>1, <2>5, <3>1 DEF RetireLease, RegistryTypeOK
    <3>. QED BY <1>1, <3>2, <3>3, SMTT(30) DEF LeaseOf
  <2>6. CASE UnlinkLease
    <3>1. op.launch \in Launches /\ Planned(op.launch) /\ op.plans[op.launch].act = "complete"
      BY <2>1, <2>6, Shapes DEF UnlinkLease, OperationOK, StepOps, StepPcs, ReleasePcs
    <3>2. l # op.launch => target'[l] = target[l] /\ retire'[l] = retire[l]
      BY <2>1, <2>6 DEF UnlinkLease, RegistryTypeOK
    <3>3. l = op.launch
      BY <1>1, <3>2 DEF LeaseOf
    <3>. QED BY <3>1, <3>3, ZenonT(30) DEF Planned, Gone, Empty
  <2>7. ASSUME NEW k \in Launches, SelectCurrent(k) \/ DropSelection(k) PROVE FALSE
    <3>1. l # k => target'[l] = target[l]
      BY <2>1, <2>7 DEF SelectCurrent, DropSelection, RegistryTypeOK
    <3>2. UNCHANGED retire
      BY <2>7 DEF SelectCurrent, DropSelection
    <3>3. l = k
      BY <1>1, <3>1, <3>2, Zenon DEF LeaseOf
    <3>4. \/ target[l] = "none" /\ retire[l] = "none"
          \/ target[l] = "process"
          \/ target'[l] = target[l]
      BY <2>1, <2>7, <3>3 DEF SelectCurrent, DropSelection, StillProcessLease, RegistryTypeOK, LaunchOK
    <3>. QED BY <1>1, <3>2, <3>4 DEF LeaseOf
  <2>. QED BY <1>1, <2>2, <2>3, <2>4, <2>5, <2>6, <2>7, OtherStepsKeepLeases
<1> DEFINE A == \A l \in Launches :
                  LeaseOf(l) \notin {"none", "process"} /\ LeaseOf(l)' # LeaseOf(l) => Empty(l)
<1>2. LaunchInv /\ [Next]_vars => [A]_vars
  BY <1>1
<1>. QED BY <1>2, LaunchInductive, PTL DEF Spec, LeaseReleasedOnlyWhenEmpty

-----------------------------------------------------------------------------
(* What a crash leaves is inventory that reconciliation recognises.        *)

Sessions == [state : {"none"} \union {SessionStates[i] : i \in 1..Len(SessionStates)}, compositor : BOOLEAN,
             helper : HelperModes \union {"none"}, wm : BOOLEAN, bar : BOOLEAN]
SessionOK == session \in Sessions /\ (HasSession => SessionReachable(session))

\* A record r, and the lease under its own name (t), the name of its stage (s) and
\* that of its retirement (q), are of one launch and one transfer.
LeaseAt(t, q) == IF t # "none" THEN t ELSE q
Evidence(l, r, t, s, q) ==
  /\ r.state # "none" => ProducerReachable(l, r) /\ RelationKnown(l, r, LeaseAt(t, q))
  /\ r.retired => r.state = "terminal" /\ LeaseAt(t, q) = "none"
  /\ s # "none" => {t, s} = {"process", LifecycleLease(l)}
  /\ t = "none" \/ q = "none"
  /\ q # "none" => r.state = "terminal" /\ ~r.retired
  /\ LeaseAt(t, q) \notin {"none", "process"} => r.state # "none" /\ LeaseAt(t, q) = LifecycleLease(l)
EvidenceOK(l) == Evidence(l, rec[l], target[l], stage[l], retire[l])

\* At most one writer of a record has died since the temporaries were last
\* discarded, beside the one of the session's.
TempsOK ==
  /\ \E x \in temps \union {<<"session">>} : temps \subseteq {<<"session">>, x}
  /\ TempsDiscardable

\* A plan p still fits the record and the lease it was made for.
Fits(l, r, lease, p) ==
  /\ r.state # "none"
  /\ p.result = "none" => r.state = "terminal"
  /\ p.result # "none" =>
       /\ r.state # "terminal"
       /\ ProducerReachable(l, TerminalSuccessor(r, p)) /\ RelationKnown(l, TerminalSuccessor(r, p), lease)
  /\ p.act = "complete" /\ ~p.release => lease = "none"
  /\ p.release => ~r.retired
FitsOK(l) == Fits(l, rec[l], LeaseOf(l), op.plans[l])

CleanPcs == {"linkStage", "exchange", "unlinkStage", "adoptRecord", "normalizeStages", "apply", "terminalRecord"}
            \union ReleasePcs

OperationFiles ==
  /\ op.pc \in {"linkStage", "exchange"} => target[op.launch] = "process"
  /\ op.pc \in AdoptPcs => \A k \in Launches : retire[k] = "none"
  /\ op.pc \in CleanPcs => temps = {}
  /\ op.pc \in {"adoptRename", "terminalRename"} => temps \subseteq {<<"update", op.launch>>}
  /\ op.pc \in StepPcs \union {"apply"} => \A k \in Launches : stage[k] = "none"
  /\ op.pc \in PassPcs => \A l \in op.todo : FitsOK(l)
  /\ op.pc \in StepPcs => op.launch \notin op.todo
  /\ op.pc \in {"terminalRecord", "terminalRename"} =>
       op.plans[op.launch].result # "none" /\ FitsOK(op.launch)
  /\ op.pc \in ReleasePcs => rec[op.launch].state = "terminal"
  /\ op.pc = "retireLease" => ~rec[op.launch].retired
  /\ op.pc = "unlinkLease" => target[op.launch] = "none"
  /\ op.pc = "retireLaunch" => LeaseOf(op.launch) = "none"
  /\ op.pc = "unlinkLaunch" => rec[op.launch].retired

FilesInv ==
  /\ SessionOK /\ TempsOK /\ StagesApart
  /\ \A l \in Launches : EvidenceOK(l)
  /\ OperationFiles

\* Two leases of one launch are different, and neither is the absent one.
LEMMA LeaseNames ==
  ASSUME NEW l
  PROVE  LifecycleLease(l) # "none" /\ LifecycleLease(l) # "process"
BY DEF LifecycleLease

\* The records that prepare and adopt_prepared write.
LEMMA WrittenRecords ==
  ASSUME NEW l
  PROVE  /\ PreparingRecord \in Records /\ AdoptedRecord \in Records /\ NoRecord \in Records
         /\ PreparingRecord.state = "preparing" /\ AdoptedRecord.state = "adopted" /\ NoRecord.state = "none"
         /\ ~PreparingRecord.retired /\ ~AdoptedRecord.retired /\ ~NoRecord.retired
         /\ PreparingRecord.kind = "process" /\ AdoptedRecord.kind = "lifecycle"
         /\ ProducerReachable(l, PreparingRecord) /\ ProducerReachable(l, AdoptedRecord)
BY Zenon DEF PreparingRecord, AdoptedRecord, NoRecord, Records, ProducerReachable

\* select_current makes a process lease; nothing else of the launch exists.
LEMMA SelectEvidence ==
  ASSUME NEW l, NEW r, NEW s, Evidence(l, r, "none", s, "none"), r.state = "none"
  PROVE  Evidence(l, r, "process", s, "none")
BY LeaseNames DEF Evidence, LeaseAt

\* A process lease that is dropped or reclaimed.
LEMMA DropEvidence ==
  ASSUME NEW l, NEW r, NEW q, Evidence(l, r, "process", "none", q)
  PROVE  Evidence(l, r, "none", "none", q)
<1>1. r.state # "none" => RelationKnown(l, r, "none")
  BY LeaseNames DEF Evidence, LeaseAt, RelationKnown, process_lease_matches, lifecycle_lease_matches
<1>2. q = "none"
  BY DEF Evidence
<1>. QED BY <1>1, <1>2 DEF Evidence, LeaseAt

\* A stage that is unlinked.
LEMMA UnstageEvidence ==
  ASSUME NEW l, NEW r, NEW t, NEW s, NEW q, Evidence(l, r, t, s, q)
  PROVE  Evidence(l, r, t, "none", q)
BY DEF Evidence

\* prepare publishes the record of a launch that has at most a process lease.
LEMMA PrepareEvidence ==
  ASSUME NEW l, NEW r, NEW t, NEW s, NEW q, Evidence(l, r, t, s, q), r.state = "none"
  PROVE  Evidence(l, PreparingRecord, t, s, q)
<1>1. q = "none" /\ LeaseAt(t, q) \in {"none", "process"}
  BY DEF Evidence
<1>2. RelationKnown(l, PreparingRecord, LeaseAt(t, q))
  BY <1>1, WrittenRecords DEF RelationKnown, process_lease_matches
<1>. QED BY <1>1, <1>2, WrittenRecords DEF Evidence

\* adopt_prepared stages the lifecycle lease and exchanges it with the process lease.
LEMMA StageEvidence ==
  ASSUME NEW l, NEW s, Evidence(l, PreparingRecord, "process", s, "none")
  PROVE  /\ Evidence(l, PreparingRecord, "process", LifecycleLease(l), "none")
         /\ Evidence(l, PreparingRecord, LifecycleLease(l), "process", "none")
<1>1. RelationKnown(l, PreparingRecord, LifecycleLease(l))
  BY WrittenRecords DEF RelationKnown, lifecycle_lease_matches
<1>. QED BY <1>1, WrittenRecords, LeaseNames DEF Evidence, LeaseAt

\* The adopted record expects the lifecycle lease.
LEMMA AdoptEvidence ==
  ASSUME NEW l, NEW s, Evidence(l, PreparingRecord, LifecycleLease(l), s, "none")
  PROVE  Evidence(l, AdoptedRecord, LifecycleLease(l), s, "none")
<1>1. RelationKnown(l, AdoptedRecord, LifecycleLease(l))
  BY WrittenRecords DEF RelationKnown, lifecycle_lease_matches
<1>. QED BY <1>1, WrittenRecords, LeaseNames DEF Evidence, LeaseAt

\* The owner's next record, of a launch that has the lifecycle lease.
LEMMA OwnerEvidence ==
  ASSUME NEW l, NEW r \in Records, NEW t, NEW s, NEW q, NEW n, Evidence(l, r, t, s, q),
         r.state \in {"adopted", "running"}, n.kind = "lifecycle", ~n.retired, ProducerReachable(l, n),
         n.state # "none"
  PROVE  Evidence(l, n, t, s, q)
<1>1. q = "none"
  BY DEF Evidence
<1>2. LeaseAt(t, q) = LifecycleLease(l)
  BY DEF Evidence, RelationKnown, process_lease_matches, lifecycle_lease_matches
<1>3. RelationKnown(l, n, LeaseAt(t, q))
  BY <1>2 DEF RelationKnown, lifecycle_lease_matches
<1>. QED BY <1>1, <1>3, LeaseNames DEF Evidence

\* A plan's terminal record.
LEMMA TerminalEvidence ==
  ASSUME NEW l, NEW r \in Records, NEW t, NEW s, NEW q, NEW p, Evidence(l, r, t, s, q),
         Fits(l, r, LeaseAt(t, q), p), p.result # "none"
  PROVE  Evidence(l, TerminalSuccessor(r, p), t, s, q) /\ ~r.retired
<1>1. TerminalSuccessor(r, p).state = "terminal" /\ TerminalSuccessor(r, p).retired = r.retired
  BY DEF TerminalSuccessor, Records
<1>2. ~r.retired /\ q = "none"
  BY DEF Evidence, Fits
<1>. QED BY <1>1, <1>2 DEF Evidence, Fits

\* The lease of a terminal record is retired, then unlinked.
LEMMA RetireEvidence ==
  ASSUME NEW l, NEW r, NEW t, NEW q, Evidence(l, r, t, "none", q), r.state = "terminal"
  PROVE  /\ ~r.retired /\ t # "none" => Evidence(l, r, "none", "none", t)
         /\ t = "none" => Evidence(l, r, "none", "none", "none")
<1>1. RelationKnown(l, r, "none")
  BY DEF RelationKnown
<1>. QED BY <1>1 DEF Evidence, LeaseAt

\* A terminal record without a lease is retired, then unlinked.
LEMMA UnlinkEvidence ==
  ASSUME NEW l, NEW r \in Records, NEW t, NEW s, NEW q, Evidence(l, r, t, s, q), r.state = "terminal",
         LeaseAt(t, q) = "none"
  PROVE  Evidence(l, [r EXCEPT !.retired = TRUE], t, s, q) /\ Evidence(l, NoRecord, t, s, q)
<1> DEFINE n == [r EXCEPT !.retired = TRUE]
<1>1. /\ n.state = r.state /\ n.kind = r.kind /\ n.result = r.result /\ n.exec = r.exec /\ n.drained = r.drained
      /\ n.retired
  BY Zenon DEF Records
<1> HIDE DEF n
<1>2. ProducerReachable(l, n)
  BY <1>1, ZenonT(30) DEF Evidence, ProducerReachable
<1>3. RelationKnown(l, n, "none")
  BY <1>1 DEF RelationKnown
<1>4. q = "none"
  BY DEF LeaseAt
<1>5. Evidence(l, n, t, s, q)
  BY <1>1, <1>2, <1>3, <1>4, Zenon DEF Evidence
<1>6. Evidence(l, NoRecord, t, s, q)
  BY <1>4, WrittenRecords, Zenon DEF Evidence
<1>. QED BY <1>5, <1>6 DEF n

-----------------------------------------------------------------------------
(* The steps on the session, the owner's and the launcher's.               *)

\* Between operations nothing is asked of the files of one.
LEMMA EndedFiles ==
  ASSUME op' \in {Idle, [pc |-> "claimRename"]}
  PROVE  OperationFiles'
BY DEF OperationFiles, Idle, AdoptPcs, PassPcs, StepPcs, ReleasePcs, CleanPcs

\* A step that leaves the records and the leases alone.
LEMMA SameEvidence ==
  ASSUME FilesInv, UNCHANGED <<rec, target, stage, retire>>
  PROVE  (\A k \in Launches : EvidenceOK(k)') /\ StagesApart'
BY DEF FilesInv, EvidenceOK, StagesApart

\* A step on the record and the leases of one launch.
LEMMA OneLaunchChanges ==
  ASSUME FilesInv, NEW l \in Launches,
         \A k \in Launches : k # l => /\ rec'[k] = rec[k] /\ target'[k] = target[k]
                                      /\ stage'[k] = stage[k] /\ retire'[k] = retire[k],
         Evidence(l, rec'[l], target'[l], stage'[l], retire'[l])
  PROVE  \A k \in Launches : EvidenceOK(k)'
<1> SUFFICES ASSUME NEW k \in Launches PROVE EvidenceOK(k)'
  BY SMTT(30)
<1>1. CASE k = l
  BY <1>1 DEF EvidenceOK
<1>2. CASE k # l
  BY <1>2 DEF FilesInv, EvidenceOK
<1>. QED BY <1>1, <1>2, Zenon

\* Temporaries are discarded, or none is added and no record is lost.
LEMMA FewerTemps ==
  ASSUME TempsOK, temps' \subseteq temps, HasSession => HasSession',
         \A l \in Launches : HasRecord(l) => HasRecord(l)'
  PROVE  TempsOK'
<1>1. \E x \in temps' \union {<<"session">>} : temps' \subseteq {<<"session">>, x}
  <2>1. PICK x \in temps \union {<<"session">>} : temps \subseteq {<<"session">>, x}
    BY DEF TempsOK
  <2>2. CASE x \in temps'
    BY <2>1, <2>2
  <2>3. CASE x \notin temps'
    BY <2>1, <2>3, Zenon
  <2>. QED BY <2>2, <2>3
<1>2. TempsDiscardable'
  BY DEF TempsOK, TempsDiscardable
<1>. QED BY <1>1, <1>2 DEF TempsOK

\* No temporary is left.
LEMMA NoTemps ==
  ASSUME temps' = {}
  PROVE  TempsOK'
BY DEF TempsOK, TempsDiscardable

\* The temporary of a new record is the only one.
LEMMA CreateTemps ==
  ASSUME NEW t, t = <<"claim">> \/ \E l \in Launches : t = <<"create", l>>, temps' = {t}
  PROVE  TempsOK'
<1>1. t # <<"session">> /\ \A l \in Launches : t # <<"update", l>>
  OBVIOUS
<1>. QED BY <1>1 DEF TempsOK, TempsDiscardable

\* The temporary of a record that is updated is the only one.
LEMMA UpdateTemps ==
  ASSUME NEW l \in Launches, temps' = {<<"update", l>>}, HasRecord(l)'
  PROVE  TempsOK'
<1>1. <<"session">> \notin temps'
  OBVIOUS
<1>2. ASSUME NEW k \in Launches, <<"update", k>> \in temps' PROVE k = l
  BY <1>2
<1>. QED BY <1>1, <1>2 DEF TempsOK, TempsDiscardable

\* The session record is followed by one that its owner may write.
LEMMA SessionGoesOn ==
  ASSUME SessionOK, HasSession, session' \in SessionSuccessors
  PROVE  SessionOK' /\ HasSession'
<1>1. SessionReachable(session)'
  BY Zenon DEF SessionSuccessors, SessionReachable
<1>2. session' \in Sessions /\ HasSession'
  <2>1. CASE \E h \in HelperModes : session' = [session EXCEPT !.state = "preparing", !.compositor = TRUE, !.helper = h]
    <3>1. SessionStates[2] = "preparing" /\ 2 \in 1..Len(SessionStates)
      BY DEF SessionStates
    <3>2. "preparing" \in {SessionStates[i] : i \in 1..Len(SessionStates)}
      BY <3>1
    <3>3. PICK h \in HelperModes :
            session' = [session EXCEPT !.state = "preparing", !.compositor = TRUE, !.helper = h]
      BY <2>1, Zenon
    <3>. QED BY <3>2, <3>3, Zenon DEF SessionOK, Sessions, HasSession
  <2>2. CASE session' = [session EXCEPT !.wm = TRUE, !.bar = TRUE]
    BY <2>2, Zenon DEF SessionOK, Sessions, HasSession
  <2>3. ASSUME NEW i \in 2..Len(SessionStates) - 1, session' = [session EXCEPT !.state = SessionStates[i + 1]]
        PROVE  session' \in Sessions /\ HasSession'
    <3>1. Len(SessionStates) = 7
      BY DEF SessionStates
    <3>2. i + 1 \in 1..Len(SessionStates) /\ i + 1 \in {3, 4, 5, 6, 7}
      BY <3>1
    <3>3. \A j \in {3, 4, 5, 6, 7} : SessionStates[j] # "none"
      BY DEF SessionStates
    <3>4. SessionStates[i + 1] # "none"
      BY <3>2, <3>3
    <3>. QED BY <2>3, <3>2, <3>4 DEF SessionOK, Sessions, HasSession
  <2>. QED BY <2>1, <2>2, <2>3, Zenon DEF SessionSuccessors
<1>. QED BY <1>1, <1>2 DEF SessionOK

\* Nothing of the files changes, and the operation stays where it is.
LEMMA FilesUnchanged ==
  ASSUME FilesInv, UNCHANGED <<files, op>>
  PROVE  FilesInv'
<1>1. SessionOK' /\ TempsOK'
  BY SMTT(30) DEF FilesInv, SessionOK, TempsOK, TempsDiscardable, HasSession, HasRecord, files
<1>2. OperationFiles'
  BY DEF FilesInv, OperationFiles, FitsOK, LeaseOf, files
<1>. QED BY <1>1, <1>2, SameEvidence DEF FilesInv, files

\* The temporaries are discarded between operations.
LEMMA DiscardedFiles ==
  ASSUME FilesInv, temps' = {}, UNCHANGED <<session, rec, target, stage, retire, op>>, op = Idle
  PROVE  FilesInv'
<1>1. SessionOK'
  BY DEF FilesInv, SessionOK, HasSession
<1>. QED BY <1>1, NoTemps, EndedFiles, SameEvidence DEF FilesInv

\* Steps on the session record and its entry.
LEMMA SessionFiles ==
  ASSUME FilesInv, SessionSteps \/ UNCHANGED vars
  PROVE  FilesInv'
<1>1. CASE UNCHANGED <<files, op>>
  BY <1>1, FilesUnchanged
<1>2. CASE OpenRegistry \/ OpenActiveSession
  BY <1>2, DiscardedFiles DEF OpenRegistry, OpenActiveSession, Locks
<1>3. CASE ClaimSession
  <2>1. SessionOK'
    BY <1>3 DEF ClaimSession, FilesInv, SessionOK, HasSession
  <2>. QED BY <1>3, <2>1, CreateTemps, EndedFiles, SameEvidence, Zenon DEF ClaimSession, FilesInv
<1>4. CASE ClaimRename
  <2>1. ClaimedSession \in Sessions /\ ClaimedSession.state # "none" /\ SessionReachable(ClaimedSession)
    <3>1. SessionStates[1] = "claimed" /\ 1 \in 1..Len(SessionStates)
      BY DEF SessionStates
    <3>2. "claimed" \in {SessionStates[i] : i \in 1..Len(SessionStates)}
      BY <3>1
    <3>. QED BY <3>2, Zenon DEF ClaimedSession, NoSession, Sessions, SessionReachable
  <2>2. SessionOK' /\ HasSession'
    BY <1>4, <2>1 DEF ClaimRename, SessionOK, HasSession
  <2>3. TempsOK'
    BY <1>4, <2>2, FewerTemps DEF ClaimRename, FilesInv, HasRecord
  <2>. QED BY <1>4, <2>2, <2>3, EndedFiles, SameEvidence DEF ClaimRename, Finished, FilesInv
<1>5. CASE ClaimRefused
  <2>1. SessionOK'
    BY <1>5 DEF ClaimRefused, FilesInv, SessionOK, HasSession
  <2>2. TempsOK'
    BY <1>5, FewerTemps DEF ClaimRefused, FilesInv, HasRecord, HasSession
  <2>. QED BY <1>5, <2>1, <2>2, EndedFiles, SameEvidence DEF ClaimRefused, Finished, FilesInv
<1>6. CASE AdvanceSession
  <2>1. SessionOK' /\ HasSession'
    BY <1>6, SessionGoesOn DEF AdvanceSession, FilesInv
  <2>2. TempsOK'
    BY <1>6, <2>1, FewerTemps, Zenon DEF AdvanceSession, FilesInv, HasRecord
  <2>. QED BY <1>6, <2>1, <2>2, EndedFiles, SameEvidence DEF AdvanceSession, FilesInv
<1>7. CASE AdvanceDies
  <2>1. SessionOK' /\ HasSession'
    BY <1>7 DEF AdvanceDies, FilesInv, SessionOK, HasSession
  <2>2. \E x \in temps' \union {<<"session">>} : temps' \subseteq {<<"session">>, x}
    BY <1>7, SMTT(30) DEF AdvanceDies, WriteTemp, FilesInv, TempsOK
  <2>3. ASSUME NEW k \in Launches, <<"update", k>> \in temps' PROVE HasRecord(k)'
    <3>1. <<"update", k>> # <<"session">>
      OBVIOUS
    <3>2. <<"update", k>> \in temps
      BY <1>7, <2>3, <3>1, Zenon DEF AdvanceDies, WriteTemp
    <3>. QED BY <1>7, <3>2 DEF AdvanceDies, FilesInv, TempsOK, TempsDiscardable, HasRecord
  <2>. QED BY <1>7, <2>1, <2>2, <2>3, EndedFiles, SameEvidence, Zenon
           DEF AdvanceDies, FilesInv, TempsOK, TempsDiscardable
<1>. QED BY <1>1, <1>2, <1>3, <1>4, <1>5, <1>6, <1>7
         DEF SessionSteps, EntryDies, StoreReplaced, vars, files

\* select_current and the drop of a selection change one process lease, and no
\* operation on that launch relies on it.
LEMMA LeaseBeside ==
  ASSUME LaunchInv, FilesInv, NEW l \in Launches,
         UNCHANGED <<session, temps, rec, stage, retire, op>>,
         \A k \in Launches : k # l => target'[k] = target[k],
         \/ owner[l] = "unborn" /\ target'[l] = "process"
         \/ stage[l] = "none" /\ target[l] = "process" /\ target'[l] = "none" /\ ~Adopting(l)
  PROVE  FilesInv'
<1>1. SessionOK' /\ TempsOK' /\ StagesApart'
  BY Zenon DEF FilesInv, SessionOK, TempsOK, TempsDiscardable, StagesApart, HasSession, HasRecord
<1>2. owner[l] = "unborn" => rec[l].state = "none" /\ target[l] = "none" /\ retire[l] = "none"
  BY ZenonT(30) DEF LaunchInv, LaunchOK
<1>3. Evidence(l, rec'[l], target'[l], stage'[l], retire'[l])
  BY <1>2, SelectEvidence, DropEvidence DEF FilesInv, EvidenceOK
<1>4. ASSUME NEW k \in Launches, owner[k] # "unborn", FitsOK(k) PROVE FitsOK(k)'
  <2>1. CASE k # l
    BY <1>4, <2>1, ZenonT(30) DEF FitsOK, LeaseOf
  <2>2. CASE k = l
    <3>1. target[l] = "process" /\ target'[l] = "none" /\ retire[l] = "none"
      BY <1>4, <2>2 DEF FilesInv, EvidenceOK, Evidence
    <3>2. LeaseOf(l)' = "none"
      BY <3>1, ZenonT(30) DEF LeaseOf
    <3>3. ASSUME NEW p, p.result # "none", Fits(l, rec[l], LeaseOf(l), p)
          PROVE  RelationKnown(l, TerminalSuccessor(rec[l], p), "none")
      <4>1. TerminalSuccessor(rec[l], p).state = "terminal"
        BY SMTT(30) DEF TerminalSuccessor, LaunchInv, RegistryTypeOK, Records
      <4>. QED BY <4>1 DEF RelationKnown
    <3>. QED BY <1>4, <2>2, <3>2, <3>3, ZenonT(30) DEF FitsOK, Fits
  <2>. QED BY <2>1, <2>2, Zenon
<1>5. OperationFiles'
  <2>1. op.pc \in PassPcs => \A k \in op.todo : k \in Launches /\ owner[k] # "unborn"
    BY Shapes, Zenon DEF LaunchInv, OperationOK, Planned, PassOps, StepOps, LaunchSets
  <2>2. op.pc \in StepPcs => op.launch \in Launches /\ owner[op.launch] # "unborn"
    BY Shapes DEF LaunchInv, OperationOK, Planned, StepOps
  <2>3. op.pc \in {"linkStage", "exchange"} => op.launch # l \/ target'[l] = "process"
    BY DEF Adopting, AdoptPcs
  <2>4. op.pc \in {"linkStage", "exchange"} => op.launch \in Launches
    BY Shapes, Zenon DEF LaunchInv, LaunchOps, AdoptPcs
  <2>5. op.pc \in {"linkStage", "exchange"} => target'[op.launch] = "process"
    BY <2>3, <2>4, Zenon DEF FilesInv, OperationFiles
  <2>6. op.pc \in PassPcs => \A k \in op.todo : FitsOK(k)'
    BY <1>4, <2>1, Zenon DEF FilesInv, OperationFiles
  <2>7. op.pc \in {"terminalRecord", "terminalRename"} => FitsOK(op.launch)'
    BY <1>4, <2>2, Zenon DEF FilesInv, OperationFiles, StepPcs
  <2>8. op.pc = "unlinkLease" => target'[op.launch] = "none"
    BY <2>2, Zenon DEF FilesInv, OperationFiles, StepPcs, ReleasePcs
  <2>9. op.pc = "retireLaunch" => LeaseOf(op.launch)' = "none"
    BY <2>2, Zenon DEF FilesInv, OperationFiles, StepPcs, ReleasePcs, LeaseOf
  <2>. QED BY <2>5, <2>6, <2>7, <2>8, <2>9 DEF FilesInv, OperationFiles
<1>. QED BY <1>1, <1>3, <1>5, OneLaunchChanges, Zenon DEF FilesInv

\* The owner's and the launcher's steps that no operation is part of.
LEMMA BesideFiles ==
  ASSUME LaunchInv, FilesInv, NEW l \in Launches,
         \/ SelectCurrent(l) \/ DropSelection(l) \/ StartPayload(l) \/ PayloadLeaves(l) \/ OwnerDies(l)
         \/ AdoptFindsStaging(l) \/ AdoptRefused(l) \/ LauncherDies(l)
  PROVE  FilesInv'
<1>1. CASE UNCHANGED <<files, op>>
  BY <1>1, FilesUnchanged, Zenon
<1>2. CASE SelectCurrent(l)
  <2>1. target'[l] = "process" /\ \A k \in Launches : k # l => target'[k] = target[k]
    BY <1>2 DEF SelectCurrent, LaunchInv, RegistryTypeOK
  <2>. QED BY <1>2, <2>1, LeaseBeside, Zenon DEF SelectCurrent
<1>3. CASE DropSelection(l)
  <2>1. CASE StillProcessLease(l)
    <3>1. target'[l] = "none" /\ \A k \in Launches : k # l => target'[k] = target[k]
      BY <1>3, <2>1 DEF DropSelection, LaunchInv, RegistryTypeOK
    <3>. QED BY <1>3, <2>1, <3>1, LeaseBeside, ZenonT(30) DEF DropSelection, StillProcessLease
  <2>2. CASE ~StillProcessLease(l)
    <3>1. target' = target
      BY <1>3, <2>2, ZenonT(30) DEF DropSelection, LaunchInv, RegistryTypeOK
    <3>. QED BY <1>3, <3>1, FilesUnchanged, Zenon DEF DropSelection, files
  <2>. QED BY <2>1, <2>2, Zenon
<1>4. CASE AdoptRefused(l)
  BY <1>4, DiscardedFiles, FilesUnchanged, Zenon DEF AdoptRefused, files
<1>. QED BY <1>1, <1>2, <1>3, <1>4, Zenon
         DEF StartPayload, PayloadLeaves, OwnerDies, AdoptFindsStaging, LauncherDies

\* What the owner records of its launch.
LEMMA RecordFiles ==
  ASSUME LaunchInv, FilesInv, NEW l \in Launches, OpenGate(l) \/ RecordRunning(l) \/ RecordDrained(l)
  PROVE  FilesInv'
<1>1. PICK n : /\ OwnerRecords(l, n) /\ rec[l].state \in {"adopted", "running"}
               /\ \/ rec[l].state = "adopted" /\ n = [rec[l] EXCEPT !.exec = TRUE]
                  \/ rec[l].exec /\ rec[l].state = "adopted" /\ n = [rec[l] EXCEPT !.state = "running"]
                  \/ /\ l \notin Systemd /\ rec[l].state = "running"
                     /\ n = [rec[l] EXCEPT !.state = "terminal", !.result = "exited", !.drained = TRUE]
  BY Zenon DEF OpenGate, RecordRunning, RecordDrained, AdoptedRecord, PreparingRecord, NoRecord
<1>2. rec[l] \in Records /\ Evidence(l, rec[l], target[l], stage[l], retire[l])
  BY DEF LaunchInv, RegistryTypeOK, FilesInv, EvidenceOK
<1>3. ProducerReachable(l, rec[l]) /\ ~rec[l].retired
  BY <1>1, <1>2 DEF Evidence
<1>4. n.state # "none" /\ n.kind = "lifecycle" /\ ~n.retired /\ ProducerReachable(l, n)
  BY <1>1, <1>2, <1>3, Zenon DEF ProducerReachable, Records
<1>5. Evidence(l, n, target[l], stage[l], retire[l])
  BY <1>1, <1>2, <1>4, OwnerEvidence
<1>6. rec'[l] = n /\ \A k \in Launches : k # l => rec'[k] = rec[k]
  BY <1>1 DEF OwnerRecords, LaunchInv, RegistryTypeOK
<1>7. UNCHANGED <<session, temps, target, stage, retire, op>> /\ op = Idle
  BY <1>1 DEF OwnerRecords
<1>8. SessionOK' /\ StagesApart'
  BY <1>7, ZenonT(30) DEF FilesInv, SessionOK, HasSession, StagesApart
<1>9. TempsOK'
  BY <1>4, <1>6, <1>7, FewerTemps, Zenon DEF FilesInv, HasSession, HasRecord
<1>. QED BY <1>5, <1>6, <1>7, <1>8, <1>9, OneLaunchChanges, EndedFiles, Zenon DEF FilesInv

\* Garbage collection reclaims the process leases of dead owners.
LEMMA ReclaimFiles ==
  ASSUME LaunchInv, FilesInv, ReclaimStaleLeases
  PROVE  FilesInv'
<1>1. UNCHANGED <<session, temps, rec, stage, retire, op>> /\ op = Idle
  BY DEF ReclaimStaleLeases, Locks
<1>2. SessionOK' /\ TempsOK' /\ StagesApart'
  BY <1>1, ZenonT(30) DEF FilesInv, SessionOK, TempsOK, TempsDiscardable, StagesApart, HasSession, HasRecord
<1>3. ASSUME NEW k \in Launches PROVE EvidenceOK(k)'
  <2>1. /\ stage[k] = "none"
        /\ target'[k] = target[k] \/ (target[k] \in {"none", "process"} /\ target'[k] = "none")
    BY DEF ReclaimStaleLeases, NoTransferStaging
  <2>. QED BY <1>1, <2>1, DropEvidence, ZenonT(30) DEF FilesInv, EvidenceOK
<1>. QED BY <1>1, <1>2, <1>3, EndedFiles DEF FilesInv

\* A step that fails or a process that dies leaves the files as they are, but for
\* a temporary and a stage that are unlinked again.
LEMMA FaultFiles ==
  ASSUME LaunchInv, FilesInv, OperationFails \/ AdoptFails \/ Crash
  PROVE  FilesInv'
<1>1. op' = Idle /\ UNCHANGED <<session, rec, target, retire>>
  BY DEF OperationFails, AdoptFails, Crash, Finished, files
<1>2. temps' \subseteq temps
  <2>1. CASE Crash
    BY <2>1 DEF Crash, files
  <2>2. CASE temps' \in TempsAfterFailure
    BY <2>2 DEF TempsAfterFailure, At
  <2>. QED BY <2>1, <2>2 DEF OperationFails, AdoptFails
<1>3. \A k \in Launches : stage'[k] \in {stage[k], "none"}
  <2>1. CASE AdoptFails
    <3>1. PICK s \in {stage[op.launch], "none"} : stage' = [stage EXCEPT ![op.launch] = s]
      BY <2>1, ZenonT(30) DEF AdoptFails
    <3>. QED BY <3>1 DEF LaunchInv, RegistryTypeOK
  <2>. QED BY <2>1 DEF OperationFails, Crash, files
<1>4. \A k \in Launches : EvidenceOK(k)'
  BY <1>1, <1>3, UnstageEvidence DEF FilesInv, EvidenceOK
<1>5. SessionOK' /\ StagesApart'
  BY <1>1, <1>3 DEF FilesInv, SessionOK, HasSession, StagesApart
<1>6. TempsOK'
  BY <1>1, <1>2, FewerTemps, Zenon DEF FilesInv, HasSession, HasRecord
<1>. QED BY <1>1, <1>4, <1>5, <1>6, EndedFiles, Zenon DEF FilesInv

-----------------------------------------------------------------------------
(* The files of prepare and adopt_prepared.                                *)

\* A step of an adoption of l that leaves the session alone and retires nothing.
LEMMA AdoptionGoesOn ==
  ASSUME FilesInv, UNCHANGED <<session, retire>>, NEW l \in Launches,
         op'.pc \in AdoptPcs, op'.launch = l, \A k \in Launches : retire[k] = "none",
         \A k \in Launches : k # l => rec'[k] = rec[k] /\ target'[k] = target[k] /\ stage'[k] = stage[k],
         Evidence(l, rec'[l], target'[l], stage'[l], retire'[l]),
         op'.pc \in {"linkStage", "exchange"} => target'[l] = "process",
         rec'[l].state # "none",
         IF op'.pc = "adoptRename" THEN temps' = {<<"update", l>>} ELSE temps' = {}
  PROVE  FilesInv'
<1>1. SessionOK' /\ StagesApart'
  BY Zenon DEF FilesInv, SessionOK, HasSession, StagesApart
<1>2. TempsOK'
  BY NoTemps, UpdateTemps, Zenon DEF HasRecord
<1>3. OperationFiles'
  BY ZenonT(30) DEF OperationFiles, AdoptPcs, PassPcs, StepPcs, ReleasePcs, CleanPcs
<1>4. \A k \in Launches : EvidenceOK(k)'
  BY OneLaunchChanges
<1>. QED BY <1>1, <1>2, <1>3, <1>4, Zenon DEF FilesInv

\* prepare, and the beginning of adopt_prepared.
LEMMA PrepareFiles ==
  ASSUME LaunchInv, FilesInv, (\E l \in Launches : Prepare(l) \/ AdoptPrepared(l)) \/ PrepareRename \/ Disarm
  PROVE  FilesInv'
<1> USE DEF At
<1>1. RegistryTypeOK /\ OperationOK
  BY DEF LaunchInv
<1>2. ASSUME NEW l \in Launches, Prepare(l) PROVE FilesInv'
  <2>1. SessionOK'
    BY <1>2, Zenon DEF Prepare, FilesInv, SessionOK, HasSession
  <2>2. OperationFiles'
    BY <1>2 DEF Prepare, OperationFiles, AdoptPcs, PassPcs, StepPcs, ReleasePcs, CleanPcs
  <2>3. TempsOK'
    BY <1>2, CreateTemps, Zenon DEF Prepare
  <2>. QED BY <1>2, <2>1, <2>2, <2>3, SameEvidence, Zenon DEF Prepare, FilesInv
<1>3. ASSUME NEW l \in Launches, AdoptPrepared(l) PROVE FilesInv'
  <2>1. UNCHANGED <<session, rec, target, stage, retire>> /\ temps' = {}
        /\ op'.pc = "linkStage" /\ op'.launch = l
    BY <1>3 DEF AdoptPrepared
  <2>2. /\ target[l] = "process" /\ rec[l].state # "none"
        /\ \A k \in Launches : retire[k] = "none"
    BY <1>3, WrittenRecords, Zenon DEF AdoptPrepared, SelectionValid, NoTransferStaging
  <2>3. Evidence(l, rec[l], target[l], stage[l], retire[l])
    BY DEF FilesInv, EvidenceOK
  <2>. QED BY <2>1, <2>2, <2>3, AdoptionGoesOn, SMTT(30) DEF AdoptPcs
<1>4. CASE PrepareRename
  <2>1. op.launch \in Launches /\ rec[op.launch].state = "none"
    BY <1>1, <1>4, Shapes, Zenon DEF PrepareRename, OperationOK, LaunchOps
  <2>2. /\ rec'[op.launch] = PreparingRecord
        /\ \A k \in Launches : k # op.launch => rec'[k] = rec[k]
    BY <1>1, <1>4, <2>1 DEF PrepareRename, RegistryTypeOK
  <2>3. UNCHANGED <<session, target, stage, retire>> /\ op' = Idle /\ temps' \subseteq temps
    BY <1>4, Zenon DEF PrepareRename, Finished
  <2>4. Evidence(op.launch, rec'[op.launch], target'[op.launch], stage'[op.launch], retire'[op.launch])
    BY <2>1, <2>2, <2>3, PrepareEvidence, Zenon DEF FilesInv, EvidenceOK
  <2>5. \A k \in Launches : EvidenceOK(k)'
    BY <2>1, <2>2, <2>3, <2>4, OneLaunchChanges, Zenon
  <2>6. TempsOK'
    BY <2>1, <2>2, <2>3, FewerTemps, WrittenRecords, ZenonT(30) DEF FilesInv, HasSession, HasRecord
  <2>7. SessionOK' /\ StagesApart'
    BY <2>3 DEF FilesInv, SessionOK, HasSession, StagesApart
  <2>. QED BY <2>3, <2>5, <2>6, <2>7, EndedFiles, Zenon DEF FilesInv
<1>5. CASE Disarm
  <2>1. SessionOK' /\ TempsOK'
    BY <1>5, Zenon DEF Disarm, files, FilesInv, SessionOK, TempsOK, TempsDiscardable, HasSession, HasRecord
  <2>. QED BY <1>5, <2>1, SameEvidence, EndedFiles, ZenonT(30) DEF Disarm, Finished, files, FilesInv
<1>. QED BY <1>2, <1>3, <1>4, <1>5

\* Every step of adopt_prepared on the lease and the record.
LEMMA AdoptFiles ==
  ASSUME LaunchInv, FilesInv, LinkStage \/ Exchange \/ UnlinkStage \/ AdoptRecord \/ AdoptRename
  PROVE  FilesInv'
<1> USE DEF At
<1> DEFINE l == op.launch
<1>1. op.pc \in AdoptPcs \ {"disarm"}
  BY DEF LinkStage, Exchange, UnlinkStage, AdoptRecord, AdoptRename, AdoptPcs
<1>2. op \in LaunchOps /\ l \in Launches /\ rec[l] = PreparingRecord
  BY <1>1, Shapes, Zenon DEF LaunchInv, OperationOK, LaunchOps
<1>3. RegistryTypeOK /\ (\A k \in Launches : retire[k] = "none")
      /\ Evidence(l, rec[l], target[l], stage[l], retire[l])
  BY <1>1, <1>2, Zenon DEF LaunchInv, FilesInv, OperationFiles, EvidenceOK
<1>4. PreparingRecord.state # "none" /\ AdoptedRecord.state # "none"
  BY WrittenRecords, Zenon
<1>5. CASE LinkStage
  <2>1. op'.pc = "exchange" /\ op'.launch = l /\ temps' = {} /\ target[l] = "process"
    BY <1>2, <1>5, GotoOnLaunch, Zenon DEF LinkStage, AdoptPcs, FilesInv, OperationFiles, CleanPcs
  <2>2. /\ stage'[l] = LifecycleLease(l) /\ \A k \in Launches : k # l => stage'[k] = stage[k]
        /\ UNCHANGED <<session, rec, target, retire>>
    BY <1>2, <1>3, <1>5, ZenonT(30) DEF LinkStage, RegistryTypeOK
  <2>3. Evidence(l, rec'[l], target'[l], stage'[l], retire'[l])
    BY <1>2, <1>3, <2>1, <2>2, StageEvidence
  <2>. QED BY <1>2, <1>3, <1>4, <2>1, <2>2, <2>3, AdoptionGoesOn, Zenon DEF AdoptPcs
<1>6. CASE Exchange
  <2>1. /\ op'.pc = "unlinkStage" /\ op'.launch = l /\ temps' = {} /\ target[l] = "process"
        /\ stage[l] = LifecycleLease(l)
    BY <1>2, <1>6, GotoOnLaunch DEF Exchange, AdoptPcs, FilesInv, OperationFiles, CleanPcs, LaunchInv, OperationOK
  <2>2. /\ stage'[l] = "process" /\ target'[l] = LifecycleLease(l)
        /\ \A k \in Launches : k # l => stage'[k] = stage[k] /\ target'[k] = target[k]
        /\ UNCHANGED <<session, rec, retire>>
    BY <1>2, <1>3, <1>6, <2>1, ZenonT(30) DEF Exchange, RegistryTypeOK
  <2>3. Evidence(l, rec'[l], target'[l], stage'[l], retire'[l])
    BY <1>2, <1>3, <2>1, <2>2, StageEvidence
  <2>. QED BY <1>2, <1>3, <1>4, <2>1, <2>2, <2>3, AdoptionGoesOn, ZenonT(30) DEF AdoptPcs
<1>7. CASE UnlinkStage
  <2>1. op'.pc = "adoptRecord" /\ op'.launch = l /\ temps' = {}
    BY <1>2, <1>7, GotoOnLaunch, Zenon DEF UnlinkStage, AdoptPcs, FilesInv, OperationFiles, CleanPcs
  <2>2. /\ stage'[l] = "none" /\ \A k \in Launches : k # l => stage'[k] = stage[k]
        /\ UNCHANGED <<session, rec, target, retire>>
    BY <1>2, <1>3, <1>7, ZenonT(30) DEF UnlinkStage, RegistryTypeOK
  <2>3. Evidence(l, rec'[l], target'[l], stage'[l], retire'[l])
    BY <1>3, <2>2, UnstageEvidence
  <2>. QED BY <1>2, <1>3, <1>4, <2>1, <2>2, <2>3, AdoptionGoesOn, Zenon DEF AdoptPcs
<1>8. CASE AdoptRecord
  <2>1. op'.pc = "adoptRename" /\ op'.launch = l /\ temps = {}
    BY <1>2, <1>8, GotoOnLaunch, Zenon DEF AdoptRecord, AdoptPcs, FilesInv, OperationFiles, CleanPcs
  <2>2. temps' = {<<"update", l>>} /\ UNCHANGED <<session, rec, target, stage, retire>>
    BY <1>8, <2>1, Zenon DEF AdoptRecord, WriteTemp
  <2>. QED BY <1>2, <1>3, <1>4, <2>1, <2>2, AdoptionGoesOn, Zenon DEF AdoptPcs
<1>9. CASE AdoptRename
  <2>1. op'.pc = "disarm" /\ op'.launch = l /\ temps' = {} /\ target[l] = LifecycleLease(l)
    BY <1>2, <1>9, GotoOnLaunch, Zenon DEF AdoptRename, AdoptPcs, FilesInv, OperationFiles, LaunchInv, OperationOK
  <2>2. /\ rec'[l] = AdoptedRecord /\ \A k \in Launches : k # l => rec'[k] = rec[k]
        /\ UNCHANGED <<session, target, stage, retire>>
    BY <1>2, <1>3, <1>9, ZenonT(30) DEF AdoptRename, RegistryTypeOK
  <2>3. Evidence(l, rec'[l], target'[l], stage'[l], retire'[l])
    BY <1>2, <1>3, <2>1, <2>2, AdoptEvidence
  <2>. QED BY <1>2, <1>3, <1>4, <2>1, <2>2, <2>3, AdoptionGoesOn, Zenon DEF AdoptPcs
<1>. QED BY <1>5, <1>6, <1>7, <1>8, <1>9, Zenon

-----------------------------------------------------------------------------
(* The files of a reconciliation pass.                                     *)

\* The fields of a plan, and of the terminal record that it asks for.
LEMMA SuccessorFields ==
  ASSUME NEW r \in Records, NEW p
  PROVE  /\ TerminalSuccessor(r, p).state = "terminal" /\ TerminalSuccessor(r, p).result = p.result
         /\ TerminalSuccessor(r, p).kind = IF p.transferred THEN "lifecycle" ELSE r.kind
         /\ TerminalSuccessor(r, p).exec = r.exec /\ TerminalSuccessor(r, p).drained = r.drained
         /\ TerminalSuccessor(r, p).retired = r.retired
BY DEF TerminalSuccessor, Records

\* A plan fits when the record it asks for may be written beside the lease.
LEMMA FitsByFields ==
  ASSUME NEW l, NEW r \in Records, NEW lease, NEW p, NEW kind,
         r.state \notin {"none", "terminal"}, ~r.retired, ~r.drained, p.result # "none",
         kind = IF p.transferred THEN "lifecycle" ELSE r.kind,
         \/ kind = "process" /\ p.result = "failed" /\ ~r.exec /\ lease \in {"none", "process"}
         \/ /\ kind = "lifecycle" /\ lease = LifecycleLease(l)
            /\ \/ l \in Systemd /\ (p.result = "failed" \/ (p.result = "exited" /\ r.exec))
               \/ l \notin Systemd /\ p.result = "lost" /\ r.exec,
         p.act = "complete" /\ ~p.release => lease = "none"
  PROVE  Fits(l, r, lease, p)
<1> DEFINE n == TerminalSuccessor(r, p)
<1>1. /\ n.state = "terminal" /\ n.result = p.result /\ n.kind = kind
      /\ n.exec = r.exec /\ n.drained = r.drained
  BY SuccessorFields, Zenon
<1> HIDE DEF n
<1>2. ProducerReachable(l, n)
  BY <1>1, Zenon DEF ProducerReachable
<1>3. RelationKnown(l, n, lease)
  BY <1>1, Zenon DEF RelationKnown, process_lease_matches, lifecycle_lease_matches
<1>. QED BY <1>2, <1>3, Zenon DEF Fits, n

\* What plan_reconciliation decides fits the record and the lease it was given.
LEMMA PlanFits ==
  ASSUME NEW l, NEW r \in Records, NEW lease, NEW ob, r.state # "none", ProducerReachable(l, r),
         RelationKnown(l, r, lease), r.retired => r.state = "terminal" /\ lease = "none"
  PROVE  \/ PlanReconciliation(l, r, lease, ob).act \in {"retain", "uncertain"}
         \/ Fits(l, r, lease, PlanReconciliation(l, r, lease, ob))
<1> DEFINE G(p) == p.act \in {"retain", "uncertain"} \/ Fits(l, r, lease, p)
<1> SUFFICES G(PlanReconciliation(l, r, lease, ob))
  OBVIOUS
<1>1. G(Retain) /\ G(Uncertain)
  BY Zenon DEF Retain, Uncertain, Plan
<1>2. CASE r.state = "preparing"
  <2>1. r.kind = "process" /\ ~r.exec /\ ~r.drained /\ ~r.retired
    BY <1>2 DEF ProducerReachable
  <2>2. ASSUME lease \in {"none", "process"}, NEW p, p.result = "failed", ~p.transferred, p.release \/ lease = "none"
        PROVE  G(p)
    BY <1>2, <2>1, <2>2, FitsByFields, SMTT(30)
  <2>3. ASSUME lease = LifecycleLease(l), l \in Systemd, NEW p, p.result = "failed", p.transferred, p.release
        PROVE  G(p)
    BY <1>2, <2>1, <2>3, FitsByFields, SMTT(30)
  <2>4. CASE lease = "process"
    <3> DEFINE p == [Plan EXCEPT !.control = TRUE, !.result = "failed", !.release = TRUE]
    <3>1. PlanReconciliation(l, r, lease, ob) = p
      BY <1>2, <2>4, LeaseNames DEF PlanReconciliation
    <3>2. p.result = "failed" /\ ~p.transferred /\ p.release
      BY DEF Plan
    <3> HIDE DEF p, G
    <3>. QED BY <2>2, <2>4, <3>1, <3>2
  <2>5. CASE lease = "none"
    <3> DEFINE p == [Plan EXCEPT !.control = TRUE, !.result = "failed"]
    <3>1. PlanReconciliation(l, r, lease, ob) = p
      BY <1>2, <2>5, LeaseNames DEF PlanReconciliation
    <3>2. p.result = "failed" /\ ~p.transferred
      BY DEF Plan
    <3> HIDE DEF p, G
    <3>. QED BY <2>2, <2>5, <3>1, <3>2
  <2>6. CASE lease = LifecycleLease(l) /\ l \in Systemd
    <3> DEFINE p == [Plan EXCEPT !.control = TRUE, !.result = "failed", !.transferred = TRUE,
                                 !.release = TRUE]
    <3>1. PlanReconciliation(l, r, lease, ob) = p
      BY <1>2, <2>6, LeaseNames DEF PlanReconciliation
    <3>2. p.result = "failed" /\ p.transferred /\ p.release
      BY DEF Plan
    <3> HIDE DEF p, G
    <3>. QED BY <2>3, <2>6, <3>1, <3>2
  <2>7. CASE lease \notin {"none", "process"} /\ ~(lease = LifecycleLease(l) /\ l \in Systemd)
    <3>1. PlanReconciliation(l, r, lease, ob) = Uncertain
      BY <1>2, <2>7 DEF PlanReconciliation
    <3> HIDE DEF G
    <3>. QED BY <1>1, <3>1
  <2>. QED BY <2>4, <2>5, <2>6, <2>7, Zenon
<1>3. CASE r.state \in {"adopted", "running"}
  <2>1. /\ r.kind = "lifecycle" /\ ~r.drained /\ ~r.retired /\ lease = LifecycleLease(l)
        /\ r.state = "running" => r.exec
    BY <1>3, Zenon DEF ProducerReachable, RelationKnown, process_lease_matches, lifecycle_lease_matches
  <2>2. ASSUME NEW p, ~p.transferred,
               \/ l \in Systemd /\ p.release /\ (p.result = "failed" \/ (p.result = "exited" /\ r.exec))
               \/ l \notin Systemd /\ p.act = "terminalize" /\ p.result = "lost" /\ r.exec
        PROVE  G(p)
    BY <1>3, <2>1, <2>2, FitsByFields, Zenon
  <2>3. CASE r.state = "adopted"
    <3> DEFINE p == [Plan EXCEPT !.control = TRUE, !.result = "failed", !.release = TRUE]
    <3>1. PlanReconciliation(l, r, lease, ob) = IF l \in Systemd THEN p ELSE Uncertain
      BY <2>1, <2>3, Zenon DEF PlanReconciliation
    <3>2. p.result = "failed" /\ ~p.transferred /\ p.release
      BY DEF Plan
    <3> HIDE DEF p, G
    <3>. QED BY <1>1, <2>2, <3>1, <3>2
  <2>4. CASE r.state = "running"
    <3> DEFINE p == [Plan EXCEPT !.result = "exited", !.release = TRUE]
               q == [Plan EXCEPT !.act = "terminalize", !.result = "lost"]
    <3>1. /\ PlanReconciliation(l, r, lease, ob) \in {p, q, Retain, Uncertain}
          /\ PlanReconciliation(l, r, lease, ob) = p => l \in Systemd
          /\ PlanReconciliation(l, r, lease, ob) = q => l \notin Systemd
      <4>1. PlanReconciliation(l, r, lease, ob) = RunningPlan(l, ob)
        BY <2>1, <2>4 DEF PlanReconciliation
      <4>2. CASE l \in Systemd
        BY <4>1, <4>2, Zenon DEF RunningPlan, Retain, Uncertain, Plan
      <4>3. CASE l \notin Systemd
        BY <4>1, <4>3, Zenon DEF RunningPlan, Retain, Uncertain, Plan
      <4>. QED BY <4>2, <4>3
    <3>2. /\ p.result = "exited" /\ ~p.transferred /\ p.release
          /\ q.act = "terminalize" /\ q.result = "lost" /\ ~q.transferred
      BY DEF Plan
    <3> HIDE DEF p, q, G
    <3>. QED BY <1>1, <2>1, <2>2, <2>4, <3>1, <3>2
  <2>. QED BY <1>3, <2>3, <2>4, Zenon
<1>4. CASE r.state = "terminal"
  <2>1. ASSUME NEW p, p.result = "none", p.release => lease # "none", ~p.release => lease = "none"
        PROVE  G(p)
    BY <1>4, <2>1 DEF Fits
  <2> DEFINE p == [Plan EXCEPT !.control = TRUE, !.release = TRUE]
             q == [Plan EXCEPT !.control = TRUE]
             p2 == [Plan EXCEPT !.release = TRUE]
             q2 == [Plan EXCEPT !.release = FALSE]
  <2>2. /\ PlanReconciliation(l, r, lease, ob) \in {p, q, p2, q2, Retain, Uncertain}
        /\ PlanReconciliation(l, r, lease, ob) \in {p, p2} => lease # "none"
        /\ PlanReconciliation(l, r, lease, ob) \in {q, q2} => lease = "none"
    <3>1. CASE lease = "none"
      BY <1>4, <3>1, LeaseNames, Zenon DEF PlanReconciliation, TerminalPlan, Retain, Uncertain, Plan
    <3>2. CASE r.kind = "process" /\ lease = "process"
      BY <1>4, <3>2, LeaseNames, Zenon DEF PlanReconciliation, Retain, Uncertain, Plan
    <3>3. CASE r.kind = "lifecycle" /\ lease = LifecycleLease(l)
      <4>1. PlanReconciliation(l, r, lease, ob) = TerminalPlan(l, r, TRUE, ob)
        BY <1>4, <3>3, LeaseNames, Zenon DEF PlanReconciliation
      <4>2. TerminalPlan(l, r, TRUE, ob) \in {p2, Retain, Uncertain}
        BY DEF TerminalPlan
      <4>3. q \notin {p2, Retain, Uncertain} /\ q2 \notin {p2, Retain, Uncertain} /\ lease # "none"
        BY <3>3, LeaseNames DEF Retain, Uncertain, Plan
      <4> HIDE DEF p, q, p2, q2
      <4>. QED BY <4>1, <4>2, <4>3, Zenon
    <3>. QED BY <1>4, <3>1, <3>2, <3>3 DEF RelationKnown, process_lease_matches, lifecycle_lease_matches
  <2>3. /\ p.result = "none" /\ p.release /\ q.result = "none" /\ ~q.release
        /\ p2.result = "none" /\ p2.release /\ q2.result = "none" /\ ~q2.release
    BY DEF Plan
  <2> HIDE DEF p, q, p2, q2, G
  <2>. QED BY <1>1, <2>1, <2>2, <2>3, SMTT(30)
<1>. QED BY <1>2, <1>3, <1>4, Zenon DEF Records

\* The plans fit the evidence that reconcile has made them from.
LEMMA ReconcileFiles ==
  ASSUME LaunchInv, FilesInv, NEW o \in Observations, Reconcile(o) \/ ControllerUncertain(o)
  PROVE  FilesInv'
<1> DEFINE P == Plans(o)
           D == {l \in Launches : P[l].act # "retain"}
<1>1. CASE ControllerUncertain(o)
  BY <1>1, FilesUnchanged, Zenon DEF ControllerUncertain
<1>2. CASE Reconcile(o)
  <2>1. UNCHANGED files /\ Certain(P) /\ op' = [pc |-> "normalizeTemps", plans |-> P, todo |-> D]
    BY <1>2, SMTT(30) DEF Reconcile
  <2>2. ASSUME NEW l \in D PROVE FitsOK(l)'
    <3>1. HasRecord(l) /\ P[l] = PlanReconciliation(l, rec[l], LeaseOf(l), o[l])
      BY Zenon DEF Plans, Retain, Plan
    <3>2. P[l].act \notin {"retain", "uncertain"}
      BY <2>1, Zenon DEF Certain
    <3>3. Evidence(l, rec[l], target[l], stage[l], retire[l]) /\ rec[l] \in Records
      BY Zenon DEF FilesInv, EvidenceOK, LaunchInv, RegistryTypeOK
    <3>4. LeaseOf(l) = LeaseAt(target[l], retire[l])
      BY ZenonT(30) DEF LeaseOf, LeaseAt
    <3>5. /\ rec[l].state # "none" /\ ProducerReachable(l, rec[l]) /\ RelationKnown(l, rec[l], LeaseOf(l))
          /\ rec[l].retired => rec[l].state = "terminal" /\ LeaseOf(l) = "none"
      <4>1. rec[l].state # "none"
        BY <3>1, Zenon DEF HasRecord
      <4>. QED BY <3>3, <3>4, <4>1, Zenon DEF Evidence
    <3> HIDE DEF P
    <3>6. Fits(l, rec[l], LeaseOf(l), P[l])
      BY <3>1, <3>2, <3>3, <3>5, PlanFits, Zenon
    <3>7. op'.plans = P /\ LeaseOf(l)' = LeaseOf(l) /\ rec' = rec
      BY <2>1, Zenon DEF LeaseOf, files
    <3>. QED BY <3>6, <3>7 DEF FitsOK
  <2> HIDE DEF P, D
  <2>3. OperationFiles'
    BY <2>1, <2>2, ZenonT(30) DEF OperationFiles, AdoptPcs, PassPcs, StepPcs, ReleasePcs, CleanPcs
  <2>4. SessionOK' /\ TempsOK'
    BY <2>1 DEF files, FilesInv, SessionOK, TempsOK, TempsDiscardable, HasSession, HasRecord
  <2>. QED BY <2>1, <2>3, <2>4, SameEvidence, ZenonT(30) DEF FilesInv, files
<1>. QED BY <1>1, <1>2, Zenon

\* The plans still to be applied fit after a step on another launch.
LEMMA OthersFit ==
  ASSUME LaunchInv, FilesInv, op.pc \in PassPcs, op'.plans = op.plans, op'.todo \subseteq op.todo,
         NEW l,
         l \notin op'.todo \/ UNCHANGED <<rec, target, retire>>,
         \A k \in Launches : k # l => rec'[k] = rec[k] /\ target'[k] = target[k] /\ retire'[k] = retire[k]
  PROVE  \A k \in op'.todo : FitsOK(k)'
<1> SUFFICES ASSUME NEW k \in op'.todo PROVE FitsOK(k)'
  OBVIOUS
<1>1. k \in Launches /\ FitsOK(k)
  BY Shapes, Zenon DEF FilesInv, OperationFiles, LaunchInv, PassOps, StepOps, LaunchSets
<1>2. rec'[k] = rec[k] /\ LeaseOf(k)' = LeaseOf(k)
  BY <1>1, Zenon DEF LeaseOf
<1>. QED BY <1>1, <1>2, Zenon DEF FitsOK

\* What a step of a pass on the launch l finds when it is its turn.
StepReady(l) ==
  /\ op.pc \in {"terminalRecord", "terminalRename"} => op.plans[l].result # "none" /\ FitsOK(l)
  /\ op.pc \in ReleasePcs => rec[l].state = "terminal"
  /\ op.pc = "retireLease" => ~rec[l].retired
  /\ op.pc = "unlinkLease" => target[l] = "none"
  /\ op.pc = "retireLaunch" => LeaseOf(l) = "none"
  /\ op.pc = "unlinkLaunch" => rec[l].retired

\* A pass goes on.
LEMMA PassFilesGoOn ==
  ASSUME FilesInv, UNCHANGED session, op'.pc \in PassPcs \ {"normalizeTemps"}, NEW l \in Launches \union {"none"},
         \A k \in Launches : EvidenceOK(k)', StagesApart', \A k \in op'.todo : FitsOK(k)',
         IF op'.pc = "terminalRename" THEN temps' = {<<"update", l>>} /\ l \in Launches /\ HasRecord(l)'
         ELSE temps' = {},
         op'.pc \in StepPcs \union {"apply"} => \A k \in Launches : stage'[k] = "none",
         op'.pc \in StepPcs => op'.launch = l /\ l \notin op'.todo /\ StepReady(l)'
  PROVE  FilesInv'
<1>1. SessionOK'
  BY Zenon DEF FilesInv, SessionOK, HasSession
<1>2. TempsOK'
  BY NoTemps, UpdateTemps, ZenonT(30)
<1>3. OperationFiles'
  BY Zenon DEF OperationFiles, StepReady, AdoptPcs, PassPcs, StepPcs, ReleasePcs, CleanPcs
<1>. QED BY <1>1, <1>2, <1>3, ZenonT(30) DEF FilesInv

\* Every step of a pass before and between the plans.
LEMMA PassFiles ==
  ASSUME LaunchInv, FilesInv,
         \/ NormalizeTemps \/ NormalizedStages \/ Applied
         \/ \E l \in Launches : NormalizeStage(l) \/ ApplyPlan(l)
  PROVE  FilesInv'
<1> USE DEF At
<1>1. RegistryTypeOK /\ OperationOK
  BY DEF LaunchInv
<1>2. op.pc \in {"normalizeTemps", "normalizeStages", "apply"}
  BY DEF NormalizeTemps, NormalizedStages, Applied, NormalizeStage, ApplyPlan
<1>3. op.pc \in PassPcs /\ op \in PassOps \union StepOps /\ op.todo \subseteq Launches
  BY <1>1, <1>2, Shapes, Zenon DEF PassPcs, PassOps, StepOps, LaunchSets
<1>4. op.pc \in {"normalizeTemps", "normalizeStages"} => op \in PassOps
  BY <1>3, Zenon DEF PassOps, StepOps, StepPcs, ReleasePcs
<1>5. op.pc \in {"normalizeStages", "apply"} => temps = {}
  BY Zenon DEF FilesInv, OperationFiles, CleanPcs
<1>6. CASE NormalizeTemps \/ NormalizedStages
  <2>1. UNCHANGED <<session, rec, target, stage, retire>> /\ temps' = {}
    BY <1>5, <1>6 DEF NormalizeTemps, NormalizedStages, files
  <2>2. PICK x \in {"normalizeStages", "apply"} :
          Goto(x) /\ (x = "apply" => \A k \in Launches : stage[k] = "none")
    BY <1>6, Zenon DEF NormalizeTemps, NormalizedStages, NextPlan, Goto
  <2>3. op'.pc = x /\ op'.plans = op.plans /\ op'.todo = op.todo
    BY <1>4, <1>6, <2>2, GotoInPass, Zenon DEF NormalizeTemps, NormalizedStages
  <2>4. \A k \in op'.todo : FitsOK(k)'
    BY <1>3, <2>1, <2>3, OthersFit, Zenon
  <2>5. op'.pc \in PassPcs \ {"normalizeTemps"} /\ op'.pc \notin StepPcs
    BY <2>3, Zenon DEF PassPcs, StepPcs, ReleasePcs
  <2>. QED BY <2>1, <2>2, <2>3, <2>4, <2>5, SameEvidence, PassFilesGoOn, ZenonT(30)
<1>7. ASSUME NEW l \in Launches, NormalizeStage(l) PROVE FilesInv'
  <2>1. UNCHANGED <<session, rec, target, retire, op>> /\ temps' = {} /\ op.pc = "normalizeStages"
    BY <1>5, <1>7, Zenon DEF NormalizeStage
  <2>2. \A k \in Launches : stage'[k] = IF k = l THEN "none" ELSE stage[k]
    BY <1>1, <1>7, Zenon DEF NormalizeStage, RegistryTypeOK
  <2>3. \A k \in Launches : EvidenceOK(k)'
    BY <2>1, <2>2, UnstageEvidence, Zenon DEF FilesInv, EvidenceOK
  <2>4. StagesApart'
    BY <2>1, <2>2, ZenonT(30) DEF FilesInv, StagesApart
  <2>5. \A k \in op'.todo : FitsOK(k)'
    BY <1>3, <2>1, OthersFit
  <2>6. op'.pc \in PassPcs \ {"normalizeTemps"} /\ op'.pc \notin StepPcs \union {"apply"}
    BY <2>1, ZenonT(30) DEF PassPcs, StepPcs, ReleasePcs
  <2>. QED BY <2>1, <2>3, <2>4, <2>5, <2>6, PassFilesGoOn, Zenon
<1>8. ASSUME NEW l \in Launches, ApplyPlan(l) PROVE FilesInv'
  <2>1. /\ UNCHANGED files /\ temps' = {} /\ l \in op.todo /\ op.pc = "apply"
        /\ op' = [pc |-> StepOf(op.plans[l]), plans |-> op.plans, todo |-> op.todo \ {l}, launch |-> l]
    BY <1>5, <1>8, ZenonT(30) DEF ApplyPlan, files
  <2>2. FitsOK(l) /\ Planned(l) /\ \A k \in Launches : stage[k] = "none"
    BY <1>1, <1>3, <2>1, ZenonT(30) DEF FilesInv, OperationFiles, OperationOK
  <2>3. \A k \in op'.todo : FitsOK(k)'
    BY <1>3, <2>1, OthersFit, Zenon DEF files
  <2>4. FitsOK(l)' /\ LeaseOf(l)' = LeaseOf(l)
    BY <2>1, <2>2, Zenon DEF FitsOK, LeaseOf, files
  <2>5. op'.pc \in StepPcs /\ op'.pc # "terminalRename" /\ op'.pc = StepOf(op.plans[l])
    BY <2>1, ZenonT(30) DEF StepOf, StepPcs, ReleasePcs
  <2>6. StepReady(l)'
    <3>1. op.plans[l].result = "none" => op.plans[l].act = "complete"
      BY <2>2 DEF Planned
    <3>. QED BY <2>1, <2>2, <2>4, <2>5, <3>1, ZenonT(30) DEF StepReady, FitsOK, Fits, StepOf, ReleasePcs, files
  <2>7. op'.launch = l /\ l \notin op'.todo
    BY <2>1, Zenon
  <2>8. op'.pc \in PassPcs \ {"normalizeTemps"}
    BY <2>5, Zenon DEF PassPcs, StepPcs, ReleasePcs
  <2>9. (\A k \in Launches : EvidenceOK(k)') /\ StagesApart' /\ UNCHANGED <<session, stage>>
    BY <2>1, SameEvidence, Zenon DEF files
  <2>. QED BY <2>1, <2>2, <2>3, <2>5, <2>6, <2>7, <2>8, <2>9, PassFilesGoOn, ZenonT(30)
<1>9. CASE Applied
  <2>1. UNCHANGED files /\ op' = Idle
    BY <1>9 DEF Applied, Finished
  <2>2. SessionOK' /\ TempsOK'
    BY <2>1, Zenon DEF files, FilesInv, SessionOK, TempsOK, TempsDiscardable, HasSession, HasRecord
  <2>. QED BY <2>1, <2>2, SameEvidence, EndedFiles, ZenonT(30) DEF FilesInv, files
<1>. QED BY <1>6, <1>7, <1>8, <1>9

\* Every step of apply_reconciliation_plan on the record and the lease of a launch.
LEMMA ApplyFiles ==
  ASSUME LaunchInv, FilesInv,
         TerminalRecord \/ TerminalRename \/ RetireLease \/ UnlinkLease \/ RetireLaunch \/ UnlinkLaunch
  PROVE  FilesInv'
<1> USE DEF At
<1>1. RegistryTypeOK /\ OperationOK
  BY DEF LaunchInv
<1>2. op.pc \in StepPcs
  BY DEF TerminalRecord, TerminalRename, RetireLease, UnlinkLease, RetireLaunch, UnlinkLaunch, StepPcs, ReleasePcs
<1> PICK l \in Launches : l = op.launch
  BY <1>1, <1>2, Shapes, Zenon DEF StepOps
<1>3. op \in StepOps /\ l \in Launches /\ op.pc \in PassPcs /\ l \notin op.todo
  BY <1>1, <1>2, Shapes, ZenonT(30) DEF PassPcs, FilesInv, OperationFiles
<1>4. StepReady(l) /\ Planned(l) /\ (op.pc \in ReleasePcs => op.plans[l].act = "complete")
  BY <1>1, <1>2 DEF FilesInv, OperationFiles, StepReady, OperationOK, StepPcs
<1>5. /\ \A k \in Launches : stage[k] = "none"
      /\ Evidence(l, rec[l], target[l], "none", retire[l]) /\ rec[l] \in Records
  BY <1>1, <1>2, <1>3, ZenonT(30) DEF FilesInv, OperationFiles, EvidenceOK, RegistryTypeOK
<1>6. op.pc # "terminalRename" => temps = {}
  BY <1>2 DEF FilesInv, OperationFiles, CleanPcs, StepPcs
<1>7. ASSUME NEW x \in StepPcs \union {"apply"}, Goto(x)
      PROVE  op'.pc = x /\ op'.plans = op.plans /\ op'.todo = op.todo /\ op'.launch = l
  BY <1>3, <1>7, GotoInPass, ZenonT(30)
<1>8. ASSUME NEW x \in StepPcs \union {"apply"}, Goto(x), UNCHANGED <<session, stage>>,
             \A k \in Launches : k # l => rec'[k] = rec[k] /\ target'[k] = target[k] /\ retire'[k] = retire[k],
             Evidence(l, rec'[l], target'[l], "none", retire'[l]),
             IF x = "terminalRename" THEN temps' = {<<"update", l>>} /\ HasRecord(l)' ELSE temps' = {},
             x \in StepPcs => StepReady(l)'
      PROVE  FilesInv'
  <2>1. op'.pc = x /\ op'.plans = op.plans /\ op'.todo = op.todo /\ op'.launch = l
    BY <1>7, <1>8, ZenonT(30)
  <2>2. \A k \in op'.todo : FitsOK(k)'
    <3>1. op'.todo \subseteq op.todo /\ l \notin op'.todo
      BY <1>3, <2>1, Zenon
    <3>. QED BY <1>3, <1>8, <2>1, <3>1, OthersFit, Zenon
  <2>3. \A k \in Launches : stage'[k] = "none"
    BY <1>5, <1>8, ZenonT(30)
  <2>4. \A k \in Launches : EvidenceOK(k)'
    BY <1>3, <1>8, <2>3, OneLaunchChanges, ZenonT(30)
  <2>5. StagesApart'
    BY <2>3 DEF StagesApart
  <2>6. op'.pc \in PassPcs \ {"normalizeTemps"}
    BY <2>1, Zenon DEF PassPcs, StepPcs, ReleasePcs
  <2>. QED BY <1>3, <1>8, <2>1, <2>2, <2>3, <2>4, <2>5, <2>6, PassFilesGoOn, ZenonT(30)
<1>9. CASE TerminalRecord
  <2>1. Goto("terminalRename") /\ temps' = {<<"update", l>>} /\ UNCHANGED <<session, rec, target, stage, retire>>
    BY <1>6, <1>9, Zenon DEF TerminalRecord, WriteTemp
  <2>2. op.plans[l].result # "none" /\ FitsOK(l) /\ HasRecord(l)
    BY <1>4, <1>9, Zenon DEF TerminalRecord, StepReady, FitsOK, Fits, HasRecord
  <2>3. op'.pc = "terminalRename" /\ op'.plans = op.plans
    BY <1>7, <2>1, Zenon DEF StepPcs
  <2>4. FitsOK(l)' /\ HasRecord(l)'
    BY <2>1, <2>2, <2>3, Zenon DEF FitsOK, LeaseOf, HasRecord
  <2>5. StepReady(l)'
    BY <2>2, <2>3, <2>4, Zenon DEF StepReady, ReleasePcs
  <2>. QED BY <1>5, <1>8, <2>1, <2>4, <2>5, Zenon DEF StepPcs
<1>10. CASE TerminalRename
  <2> DEFINE p == op.plans[l]
             x == IF p.act = "terminalize" THEN "apply" ELSE IF p.release THEN "retireLease" ELSE "retireLaunch"
  <2>1. Goto(x) /\ rec' = [rec EXCEPT ![l] = TerminalSuccessor(@, p)] /\ UNCHANGED <<session, target, stage, retire>>
    BY <1>10, ZenonT(30) DEF TerminalRename, Current
  <2>2. temps' = {}
    BY <1>10, SMTT(30) DEF TerminalRename, FilesInv, OperationFiles
  <2>3. p.result # "none" /\ Fits(l, rec[l], LeaseOf(l), p)
    BY <1>4, <1>10, Zenon DEF TerminalRename, StepReady, FitsOK
  <2>4. rec'[l] = TerminalSuccessor(rec[l], p) /\ \A k \in Launches : k # l => rec'[k] = rec[k]
    BY <1>1, <1>3, <2>1, Zenon DEF RegistryTypeOK
  <2>5. LeaseOf(l) = LeaseAt(target[l], retire[l])
    BY ZenonT(30) DEF LeaseOf, LeaseAt
  <2>6. Evidence(l, rec'[l], target'[l], "none", retire'[l]) /\ ~rec[l].retired
    <3> HIDE DEF x, p
    <3>1. Fits(l, rec[l], LeaseAt(target[l], retire[l]), p)
      BY <2>3, <2>5, ZenonT(30)
    <3>2. Evidence(l, TerminalSuccessor(rec[l], p), target[l], "none", retire[l]) /\ ~rec[l].retired
      BY <1>5, <2>3, <3>1, TerminalEvidence, ZenonT(30)
    <3>. QED BY <2>1, <2>4, <3>2, Zenon
  <2>7. rec'[l].state = "terminal" /\ ~rec'[l].retired
    <3> HIDE DEF x, p
    <3>1. /\ TerminalSuccessor(rec[l], p).state = "terminal"
          /\ TerminalSuccessor(rec[l], p).retired = rec[l].retired
      BY <1>5, SuccessorFields, Zenon
    <3>. QED BY <2>4, <2>6, <3>1, Zenon
  <2>8. x \in {"apply", "retireLease", "retireLaunch"} /\ x \in StepPcs \union {"apply"}
    BY DEF StepPcs, ReleasePcs
  <2>9. op'.pc = x
    BY <1>7, <2>1, <2>8, Zenon
  <2>10. x = "retireLaunch" => LeaseOf(l)' = "none"
    <3>1. p.act \in {"complete", "terminalize"}
      BY <1>4, Zenon DEF Planned
    <3>2. x = "retireLaunch" => LeaseOf(l) = "none"
      BY <2>3, <3>1, Zenon DEF Fits
    <3>. QED BY <2>1, <3>2, Zenon DEF LeaseOf
  <2> HIDE DEF x, p
  <2>11. x \in StepPcs => StepReady(l)'
    BY <2>7, <2>8, <2>9, <2>10, Zenon DEF StepReady
  <2>. QED BY <1>8, <2>1, <2>2, <2>4, <2>6, <2>8, <2>11, Zenon
<1>11. CASE RetireLease
  <2>1. UNCHANGED <<session, temps, rec, stage>> /\ temps' = {}
        /\ rec[l].state = "terminal" /\ ~rec[l].retired
    BY <1>4, <1>6, <1>11, Zenon DEF RetireLease, StepReady, ReleasePcs
  <2>2. CASE target[l] = "none"
    <3>1. PICK x \in {"apply", "unlinkLease"} : Goto(x)
      BY <1>11, <2>2, Zenon DEF RetireLease
    <3>2. UNCHANGED <<target, retire>>
      BY <1>11, <2>2 DEF RetireLease
    <3>3. op'.pc = x
      BY <1>7, <3>1, Zenon DEF StepPcs, ReleasePcs
    <3>4. StepReady(l)'
      BY <2>1, <2>2, <3>1, <3>2, <3>3, Zenon DEF StepReady
    <3>. QED BY <1>5, <1>8, <2>1, <3>1, <3>2, <3>4, Zenon DEF StepPcs, ReleasePcs
  <2>3. CASE target[l] # "none"
    <3>1. /\ Goto("unlinkLease") /\ target'[l] = "none" /\ retire'[l] = target[l]
          /\ \A k \in Launches : k # l => target'[k] = target[k] /\ retire'[k] = retire[k]
      BY <1>1, <1>3, <1>11, <2>3, Zenon DEF RetireLease, RegistryTypeOK
    <3>2. op'.pc = "unlinkLease"
      BY <1>7, <3>1, Zenon DEF StepPcs, ReleasePcs
    <3>3. StepReady(l)'
      BY <2>1, <3>1, <3>2, ZenonT(30) DEF StepReady
    <3>4. Evidence(l, rec'[l], target'[l], "none", retire'[l])
      BY <1>5, <2>1, <2>3, <3>1, RetireEvidence
    <3>. QED BY <1>8, <2>1, <3>1, <3>3, <3>4, Zenon DEF StepPcs, ReleasePcs
  <2>. QED BY <2>2, <2>3, Zenon
<1>12. CASE UnlinkLease
  <2>1. UNCHANGED <<session, temps, rec, target, stage>> /\ temps' = {} /\ Goto("retireLaunch")
        /\ rec[l].state = "terminal" /\ target[l] = "none"
    BY <1>4, <1>6, <1>12, Zenon DEF UnlinkLease, StepReady, ReleasePcs
  <2>2. retire'[l] = "none" /\ \A k \in Launches : k # l => retire'[k] = retire[k]
    BY <1>1, <1>3, <1>12, Zenon DEF UnlinkLease, RegistryTypeOK
  <2>3. op'.pc = "retireLaunch"
    BY <1>7, <2>1, Zenon DEF StepPcs, ReleasePcs
  <2>4. LeaseOf(l)' = "none"
    BY <2>1, <2>2, Zenon DEF LeaseOf
  <2>5. StepReady(l)'
    BY <2>1, <2>3, <2>4 DEF StepReady
  <2>6. Evidence(l, rec'[l], target'[l], "none", retire'[l])
    BY <1>5, <2>1, <2>2, RetireEvidence, Zenon
  <2>. QED BY <1>8, <2>1, <2>2, <2>5, <2>6, Zenon DEF StepPcs, ReleasePcs
<1>13. CASE RetireLaunch
  <2>1. UNCHANGED <<session, temps, target, stage, retire>> /\ temps' = {} /\ Goto("unlinkLaunch")
        /\ rec[l].state = "terminal" /\ LeaseOf(l) = "none"
    BY <1>4, <1>6, <1>13 DEF RetireLaunch, StepReady, ReleasePcs
  <2>2. rec'[l] = [rec[l] EXCEPT !.retired = TRUE] /\ \A k \in Launches : k # l => rec'[k] = rec[k]
    BY <1>1, <1>3, <1>13, Zenon DEF RetireLaunch, RegistryTypeOK
  <2>3. op'.pc = "unlinkLaunch"
    BY <1>7, <2>1, Zenon DEF StepPcs, ReleasePcs
  <2>4. rec'[l].retired /\ rec'[l].state = "terminal"
    BY <1>5, <2>1, <2>2, Zenon DEF Records
  <2>5. StepReady(l)'
    BY <2>3, <2>4, Zenon DEF StepReady
  <2>6. LeaseAt(target[l], retire[l]) = "none"
    BY <2>1 DEF LeaseOf, LeaseAt
  <2>7. Evidence(l, rec'[l], target'[l], "none", retire'[l])
    BY <1>5, <2>1, <2>2, <2>6, UnlinkEvidence
  <2>. QED BY <1>8, <2>1, <2>2, <2>5, <2>7, SMTT(30) DEF StepPcs, ReleasePcs
<1>14. CASE UnlinkLaunch
  <2>1. UNCHANGED <<session, temps, target, stage, retire>> /\ temps' = {} /\ Goto("apply")
        /\ rec[l].state = "terminal" /\ rec[l].retired
    BY <1>4, <1>6, <1>14, Zenon DEF UnlinkLaunch, StepReady, ReleasePcs, NextPlan, Goto
  <2>2. rec'[l] = NoRecord /\ \A k \in Launches : k # l => rec'[k] = rec[k]
    BY <1>1, <1>3, <1>14, Zenon DEF UnlinkLaunch, RegistryTypeOK
  <2>3. LeaseAt(target[l], retire[l]) = "none"
    BY <1>5, <2>1, Zenon DEF Evidence
  <2>4. Evidence(l, rec'[l], target'[l], "none", retire'[l])
    BY <1>5, <2>1, <2>2, <2>3, UnlinkEvidence, Zenon
  <2>5. "apply" \notin StepPcs
    BY DEF StepPcs, ReleasePcs
  <2>. QED BY <1>8, <2>1, <2>2, <2>4, <2>5, Zenon
<1>. QED BY <1>9, <1>10, <1>11, <1>12, <1>13, <1>14, SMTT(30)

-----------------------------------------------------------------------------
\* Every step of the registry, of its clients and of what fails leaves the files
\* in a shape that the next operation knows.
THEOREM FilesInductive == Spec => []FilesInv
<1>1. Init => FilesInv
  <2> SUFFICES ASSUME Init PROVE FilesInv
    OBVIOUS
  <2>1. SessionOK
    BY Zenon DEF Init, SessionOK, Sessions, NoSession, HasSession
  <2>2. TempsOK /\ StagesApart
    BY Zenon DEF Init, TempsOK, TempsDiscardable, StagesApart
  <2>3. ASSUME NEW l \in Launches PROVE EvidenceOK(l)
    BY WrittenRecords, Zenon DEF Init, EvidenceOK, Evidence, LeaseAt
  <2>4. OperationFiles
    BY Zenon DEF Init, OperationFiles, Idle, AdoptPcs, PassPcs, StepPcs, ReleasePcs, CleanPcs
  <2>. QED BY <2>1, <2>2, <2>3, <2>4 DEF FilesInv
<1>2. LaunchInv /\ FilesInv /\ [Next]_vars => FilesInv'
  <2> SUFFICES ASSUME LaunchInv, FilesInv, [Next]_vars PROVE FilesInv'
    OBVIOUS
  <2>1. CASE OperationStep
    BY <2>1, SessionFiles, PrepareFiles, AdoptFiles, PassFiles, ApplyFiles, Zenon DEF OperationStep, SessionSteps
  <2>2. ASSUME NEW l \in Launches,
               \/ SelectCurrent(l) \/ Prepare(l) \/ AdoptFindsStaging(l) \/ AdoptRefused(l)
               \/ AdoptPrepared(l) \/ DropSelection(l) \/ LauncherDies(l)
               \/ OpenGate(l) \/ RecordRunning(l) \/ RecordDrained(l)
               \/ StartPayload(l) \/ PayloadLeaves(l) \/ OwnerDies(l)
        PROVE  FilesInv'
    BY <2>2, BesideFiles, RecordFiles, PrepareFiles
  <2>3. CASE \E o \in Observations : Reconcile(o) \/ ControllerUncertain(o)
    BY <2>3, ReconcileFiles
  <2>. QED BY <2>1, <2>2, <2>3, SessionFiles, ReclaimFiles, FaultFiles, SMTT(30) DEF Next, SessionSteps
<1>. QED BY <1>1, <1>2, LaunchInductive, PTL DEF Spec

\* The shape of the files never keeps reconciliation from them: only an inventory
\* that has outgrown MAX_INVENTORY_ENTRIES can.
LEMMA KnownShapes ==
  ASSUME FilesInv, Entries(temps) <= MaxEntries
  PROVE  InventoryReconcilable
<1>1. ASSUME NEW l \in Launches
      PROVE  /\ HasRecord(l) => ProducerReachable(l, rec[l]) /\ RelationKnown(l, rec[l], LeaseOf(l))
             /\ rec[l].retired => rec[l].state = "terminal" /\ LeaseOf(l) = "none"
             /\ stage[l] # "none" => PairMatches(l)
             /\ target[l] = "none" \/ retire[l] = "none"
             /\ retire[l] # "none" => rec[l].state = "terminal" /\ ~rec[l].retired
             /\ LeaseOf(l) \notin {"none", "process"} => HasRecord(l) /\ lifecycle_lease_matches(l, LeaseOf(l))
  BY ZenonT(30) DEF FilesInv, EvidenceOK, Evidence, LeaseAt, LeaseOf, HasRecord, PairMatches, lifecycle_lease_matches
<1>2. InventoryClassified
  BY <1>1 DEF InventoryClassified, Parses, FilesInv, SessionOK, TempsOK
<1>3. StagesApart /\ TransferPairsExact /\ RelationsKnown
  BY <1>1, Zenon DEF FilesInv, TransferPairsExact, RelationsKnown
<1>4. LeaseInventorySafe
  BY <1>1, Zenon DEF LeaseInventorySafe
<1>. QED BY <1>2, <1>3, <1>4, Zenon DEF InventoryReconcilable

\* classify_inventory_recovery and plan_reconciliation: whatever operation a process
\* died or failed in, reconciliation recognises what it left, unless the records and
\* the temporaries are more than MAX_INVENTORY_ENTRIES.
THEOREM OnlyTheBoundFreezes == Spec => [](Entries(temps) <= MaxEntries => EveryCrashIsReconcilable)
<1>1. FilesInv => (Entries(temps) <= MaxEntries => EveryCrashIsReconcilable)
  BY KnownShapes DEF EveryCrashIsReconcilable
<1>. QED BY <1>1, FilesInductive, PTL

\* The records, the session and the temporaries of two dead writers fit.
LEMMA EntriesFit ==
  ASSUME FilesInv, IsFiniteSet(Launches), MaxEntries \in Nat, Cardinality(Launches) + 3 <= MaxEntries
  PROVE  Entries(temps) <= MaxEntries
<1> DEFINE R == {l \in Launches : HasRecord(l)}
<1>1. R \in SUBSET Launches
  OBVIOUS
<1>2. IsFiniteSet(R) /\ Cardinality(R) <= Cardinality(Launches)
  BY <1>1, FS_Subset
<1>3. Cardinality(R) \in Nat /\ Cardinality(Launches) \in Nat
  BY <1>2, FS_CardinalityType
<1>4. PICK x : temps \subseteq {<<"session">>, x}
  BY DEF FilesInv, TempsOK
<1> DEFINE S == {<<"session">>}
<1>5. IsFiniteSet(S) /\ Cardinality(S) = 1
  BY FS_Singleton, Zenon
<1>6. temps \in SUBSET (S \union {x})
  BY <1>4
<1> HIDE DEF R, S
<1>7. IsFiniteSet(S \union {x}) /\ Cardinality(S \union {x}) <= 2
  BY <1>5, FS_AddElement
<1>8. IsFiniteSet(temps) /\ Cardinality(temps) <= Cardinality(S \union {x})
  BY <1>6, <1>7, FS_Subset, Zenon
<1>9. Cardinality(temps) \in Nat /\ Cardinality(S \union {x}) \in Nat
  BY <1>7, <1>8, FS_CardinalityType
<1>10. Cardinality(temps) <= 2
  BY <1>7, <1>8, <1>9
<1>11. Entries(temps) = Cardinality(R) + Cardinality(temps) + (IF HasSession THEN 1 ELSE 0)
  BY DEF Entries, R
<1>. QED BY <1>2, <1>3, <1>9, <1>10, <1>11

\* Where every launch, the session and two temporaries fit in the inventory, no crash
\* freezes the registry (reconcile).
THEOREM CrashesAlwaysReconcilable ==
  ASSUME IsFiniteSet(Launches), MaxEntries \in Nat, Cardinality(Launches) + 3 <= MaxEntries
  PROVE  Spec => []EveryCrashIsReconcilable
<1>1. FilesInv => EveryCrashIsReconcilable
  BY KnownShapes, EntriesFit DEF EveryCrashIsReconcilable
<1>. QED BY <1>1, FilesInductive, PTL
=============================================================================
