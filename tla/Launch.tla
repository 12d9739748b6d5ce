------------------------------- MODULE Launch -------------------------------
(***************************************************************************)
(* The activation registry of crates/realm-theme/src/generation/           *)
(* lifecycle.rs: a session claims the activation, a launcher selects a     *)
(* generation (a process lease), prepares a launch record, transfers the   *)
(* lease to the launch and adopts it; reconciliation terminates, releases  *)
(* and collects what crashed or finished launches leave behind.            *)
(*                                                                         *)
(* Every durable step is an action of its own, so a process may die        *)
(* between any two of them.  The registry's operations hold lifecycle.lock *)
(* and the shared activation lock from first step to last (op); dropping a *)
(* selection takes only the shared lock and may fall between their steps,  *)
(* garbage collection takes the exclusive one and may not.                 *)
(***************************************************************************)
EXTENDS LaunchRules, FiniteSets

CONSTANTS HelperModes,  \* the helper modes a session may choose
          MaxEntries,   \* MAX_INVENTORY_ENTRIES
          MaxFaults     \* a bound on failed steps, crashes and controllers in doubt

VARIABLES session,   \* the session record
          entry,     \* the session's entry process: "alive", "dead"
          store,     \* the opened directories and locks are at their names: "same", "replaced"
          temps,     \* the temporary files: <<"claim">>, <<"session">>, <<"create", l>>, <<"update", l>>
          rec,       \* the launch record of each launch
          target,    \* the lease at its own name, "none" or one of LeaseKinds
          stage,     \* the file .lease-transfer-<lease>
          retire,    \* the file .lease-retire-<lease>
          armed,     \* the launcher's GenerationSelection: "none", "armed", "dropping"
          owner,     \* the owner process: "unborn", "alive", "dead"
          payload,   \* what the owner starts: "unstarted", "live", "detached", "exited"
          op,        \* the registry operation that holds lifecycle.lock
          faults     \* how many steps have failed

files == <<session, temps, rec, target, stage, retire>>
processes == <<entry, store, armed, owner, payload, faults>>
vars == <<files, processes, op>>

Fault == faults < MaxFaults /\ faults' = faults + 1

Idle == [pc |-> "idle"]

At(pc) == op.pc = pc
Goto(pc) == op' = [op EXCEPT !.pc = pc]
Finished == op' = Idle

Init ==
  /\ session = NoSession /\ temps = {} /\ op = Idle /\ faults = 0
  /\ entry = "alive" /\ store = "same"
  /\ rec = [l \in Launches |-> NoRecord]
  /\ target = [l \in Launches |-> "none"]
  /\ stage = target /\ retire = target /\ armed = target
  /\ owner = [l \in Launches |-> "unborn"]
  /\ payload = [l \in Launches |-> "unstarted"]

(***************************************************************************)
(* What an operation finds.                                                *)
(***************************************************************************)
HasRecord(l) == rec[l].state # "none"
HasSession == session.state # "none"

\* GenerationLeaseCapability::revalidate, and the registry's own paths.
StoreInPlace == store = "same"

\* ActivationRegistry::lock, and where the leases are used lock_shared: no
\* operation is under way, and what was opened still lies at its name.
Locks == op = Idle /\ StoreInPlace

\* revalidate_live_session, of a session that is the one opened.
SessionLive == session.state = "active" /\ entry = "alive"

\* read_reconciliation_lease: the lease under either of its names.
LeaseOf(l) == IF target[l] # "none" THEN target[l] ELSE retire[l]

\* The owner and everything it started are gone.
Empty(l) == owner[l] # "alive" /\ payload[l] \notin {"live", "detached"}

\* read_session_record, read_launch_record: the file found is a canonical record.
Parses ==
  /\ HasSession => SessionReachable(session)
  /\ \A l \in Launches : HasRecord(l) => ProducerReachable(l, rec[l])

\* A temporary is discarded by its name; an update needs the record it was to replace.
TempsDiscardable ==
  /\ <<"session">> \in temps => HasSession
  /\ \A l \in Launches : <<"update", l>> \in temps => HasRecord(l)

\* account_inventory, and inventory_within_bounds of both directories.
Entries(others) == Cardinality({l \in Launches : HasRecord(l)}) + Cardinality(others)
                   + (IF HasSession THEN 1 ELSE 0)

\* classify_inventory_recovery accepts the activation and launches directories.
InventoryClassified ==
  /\ Entries(temps) <= MaxEntries
  /\ Parses
  /\ \A l \in Launches : rec[l].retired => rec[l].state = "terminal"
  /\ TempsDiscardable

\* lifecycle_matches_process: the two names hold the two records of one transfer.
PairMatches(l) == {target[l], stage[l]} = {"process", LifecycleLease(l)}

\* scan_lease_transfer_inventory_locked: every stage has its exact counterpart.
TransferPairsExact ==
  \A l \in Launches : stage[l] # "none" =>
    PairMatches(l)

\* classify_lease_transfer_staging_locked finds no stage, and does not fail.
NoTransferStaging ==
  \A l \in Launches : stage[l] = "none" /\ retire[l] = "none"

\* Leases are being retired or transferred, never both.
StagesApart ==
  (\E l \in Launches : retire[l] # "none") => \A l \in Launches : stage[l] = "none"

\* reconciliation_lease_inventory_is_safe.
LeaseInventorySafe ==
  \A l \in Launches :
    /\ target[l] = "none" \/ retire[l] = "none"
    /\ retire[l] # "none" => rec[l].state = "terminal" /\ ~rec[l].retired
    /\ LeaseOf(l) \notin {"none", "process"} => HasRecord(l) /\ lifecycle_lease_matches(l, LeaseOf(l))
    /\ rec[l].retired => rec[l].state = "terminal" /\ LeaseOf(l) = "none"

RelationsKnown ==
  \A l \in Launches : HasRecord(l) => RelationKnown(l, rec[l], LeaseOf(l))

\* write_exclusive_synced of a record to be renamed.
WriteTemp(t) == temps' = temps \union {t}

(***************************************************************************)
(* claim_session and open_active_session; the session's later states are   *)
(* recorded by its owner (external).                                       *)
(***************************************************************************)
ClaimSession ==
  /\ Locks /\ InventoryClassified /\ ~HasSession /\ entry = "alive"
  /\ temps' = {<<"claim">>}
  /\ op' = [pc |-> "claimRename"]
  /\ UNCHANGED <<session, rec, target, stage, retire, processes>>

\* The entry process is looked up again before the record is published.
ClaimRename ==
  /\ At("claimRename") /\ entry = "alive"
  /\ session' = ClaimedSession /\ temps' = temps \ {<<"claim">>}
  /\ Finished
  /\ UNCHANGED <<rec, target, stage, retire, processes>>

ClaimRefused ==
  /\ At("claimRename") /\ entry = "dead"
  /\ temps' = temps \ {<<"claim">>}
  /\ Finished
  /\ UNCHANGED <<session, rec, target, stage, retire, processes>>

\* The session owner's next record.
SessionSuccessors ==
  {s \in
     (IF session.state = "claimed"
      THEN {[session EXCEPT !.state = "preparing", !.compositor = TRUE, !.helper = h] :
              h \in HelperModes}
      ELSE {[session EXCEPT !.wm = TRUE, !.bar = TRUE]})
     \union {[session EXCEPT !.state = SessionStates[i + 1]] :
               i \in {j \in 2..Len(SessionStates) - 1 : SessionStates[j] = session.state}} :
     SessionReachable(s) /\ s # session}

\* Admission is frozen at any time.  The states after that refuse the same
\* operations; a bound: they are reached only when no launch is left.
NoLaunchLeft == \A l \in Launches : ~HasRecord(l) /\ armed[l] = "none"

AdvanceSession ==
  /\ op = Idle /\ HasSession /\ entry = "alive"
  /\ session.state \in {"claimed", "preparing", "active"} \/ NoLaunchLeft
  /\ session' \in SessionSuccessors
  /\ UNCHANGED <<temps, rec, target, stage, retire, processes, op>>

\* Its owner may die in the middle of that.
AdvanceDies ==
  /\ op = Idle /\ HasSession /\ entry = "alive" /\ SessionSuccessors # {} /\ Fault
  /\ WriteTemp(<<"session">>)
  /\ entry' = "dead"
  /\ UNCHANGED <<session, rec, target, stage, retire, store, armed, owner, payload, op>>

\* open: the temporaries of crashed writers are discarded, without a session too.
OpenRegistry ==
  /\ Locks /\ InventoryClassified
  /\ temps # {} /\ temps' = {}
  /\ UNCHANGED <<session, rec, target, stage, retire, processes, op>>

OpenActiveSession ==
  /\ Locks /\ InventoryClassified /\ SessionLive
  /\ temps # {} /\ temps' = {}
  /\ UNCHANGED <<session, rec, target, stage, retire, processes, op>>

\* A bound: where it is looked up afterwards.
EntryDies ==
  /\ entry = "alive" /\ entry' = "dead"
  /\ At("claimRename") \/ session.state = "active"
  /\ UNCHANGED <<files, store, armed, owner, payload, op, faults>>

\* Something else puts another directory or lock at one of the names (external).
StoreReplaced ==
  /\ store = "same" /\ op = Idle /\ Fault
  /\ store' = "replaced"
  /\ UNCHANGED <<files, entry, armed, owner, payload, op>>

(***************************************************************************)
(* select_current leases the generation for the owner process, which waits *)
(* behind its gate; prepare records the launch.                            *)
(***************************************************************************)
SelectCurrent(l) ==
  /\ owner[l] = "unborn"
  /\ owner' = [owner EXCEPT ![l] = "alive"]
  /\ armed' = [armed EXCEPT ![l] = "armed"]
  /\ target' = [target EXCEPT ![l] = "process"]
  /\ UNCHANGED <<session, temps, rec, stage, retire, entry, store, payload, op, faults>>

\* current_process_record: the process of that pid has the recorded start time.
ProcessIsExact(l) == owner[l] = "alive"

\* The selection's process still is the one recorded, and the lease its own.
SelectionValid(l) == ProcessIsExact(l) /\ target[l] = "process"

\* ensure_capacity_for_new_record, when the temporaries have been discarded.
HasCapacity == Entries({}) + 1 <= MaxEntries

Prepare(l) ==
  /\ Locks /\ armed[l] = "armed" /\ ~HasRecord(l)
  /\ InventoryClassified /\ SessionLive
  /\ SelectionValid(l) /\ HasCapacity
  /\ temps' = {<<"create", l>>}
  /\ op' = [pc |-> "prepareRename", launch |-> l]
  /\ UNCHANGED <<session, rec, target, stage, retire, processes>>

PrepareRename ==
  /\ At("prepareRename")
  /\ rec' = [rec EXCEPT ![op.launch] = PreparingRecord]
  /\ temps' = temps \ {<<"create", op.launch>>}
  /\ Finished
  /\ UNCHANGED <<session, target, stage, retire, processes>>

(***************************************************************************)
(* adopt_prepared consumes the launcher's selection.  Where it returns an  *)
(* error the selection is dropped afterwards ("dropping"), except where    *)
(* transfer staging was seen: then it is retained for reconciliation.      *)
(***************************************************************************)
AdoptFindsStaging(l) ==
  /\ Locks /\ armed[l] = "armed" /\ rec[l].state # "none"
  /\ ~NoTransferStaging
  /\ armed' = [armed EXCEPT ![l] = "none"]
  /\ UNCHANGED <<files, entry, store, owner, payload, op, faults>>

AdoptRefused(l) ==
  /\ op = Idle /\ armed[l] = "armed" /\ rec[l].state # "none"
  /\ StoreInPlace => NoTransferStaging
  /\ (StoreInPlace /\ InventoryClassified /\ temps' = {}) \/ UNCHANGED temps
  /\ armed' = [armed EXCEPT ![l] = "dropping"]
  /\ UNCHANGED <<session, rec, target, stage, retire, entry, store, owner, payload, op, faults>>

AdoptPrepared(l) ==
  /\ Locks /\ armed[l] = "armed"
  /\ NoTransferStaging /\ InventoryClassified /\ SessionLive
  /\ rec[l] = PreparingRecord
  /\ SelectionValid(l)
  /\ temps' = {}
  /\ op' = [pc |-> "linkStage", launch |-> l]
  /\ UNCHANGED <<session, rec, target, stage, retire, processes>>

LinkStage ==
  /\ At("linkStage")
  /\ stage' = [stage EXCEPT ![op.launch] = LifecycleLease(op.launch)]
  /\ Goto("exchange")
  /\ UNCHANGED <<session, temps, rec, target, retire, processes>>

\* The owner and the process lease are validated again before the exchange.
Exchange ==
  /\ At("exchange")
  /\ SelectionValid(op.launch)
  /\ target' = [target EXCEPT ![op.launch] = stage[op.launch]]
  /\ stage' = [stage EXCEPT ![op.launch] = target[op.launch]]
  /\ Goto("unlinkStage")
  /\ UNCHANGED <<session, temps, rec, retire, processes>>

\* validated_lease_record_matches, of the two files after the exchange.
Exchanged(l) == target[l] = LifecycleLease(l) /\ stage[l] = "process"

UnlinkStage ==
  /\ At("unlinkStage") /\ Exchanged(op.launch)
  /\ stage' = [stage EXCEPT ![op.launch] = "none"]
  /\ Goto("adoptRecord")
  /\ UNCHANGED <<session, temps, rec, target, retire, processes>>

\* replace_launch_record writes the successor aside; the rename follows.
AdoptRecord ==
  /\ At("adoptRecord")
  /\ WriteTemp(<<"update", op.launch>>)
  /\ Goto("adoptRename")
  /\ UNCHANGED <<session, rec, target, stage, retire, processes>>

AdoptRename ==
  /\ At("adoptRename")
  /\ rec' = [rec EXCEPT ![op.launch] = AdoptedRecord]
  /\ temps' = temps \ {<<"update", op.launch>>}
  /\ Goto("disarm")
  /\ UNCHANGED <<session, target, stage, retire, processes>>

Disarm ==
  /\ At("disarm")
  /\ armed' = [armed EXCEPT ![op.launch] = "none"]
  /\ Finished
  /\ UNCHANGED <<files, entry, store, owner, payload, faults>>

\* release_matching_process_lease, the Drop of GenerationSelection.  It runs
\* beside the registry's operations, only not while adopt holds the selection.
AdoptPcs == {"linkStage", "exchange", "unlinkStage", "adoptRecord", "adoptRename", "disarm"}

Adopting(l) == op.pc \in AdoptPcs /\ op.launch = l

\* No transfer of the lease is under way, and its file is the one created.
StillProcessLease(l) == stage[l] = "none" /\ target[l] = "process"

\* The dropped selection unlinks whatever lies at the lease's name.
DropSelection_AnyLease(l) ==
  /\ armed[l] # "none" /\ ~Adopting(l)
  /\ armed' = [armed EXCEPT ![l] = "none"]
  /\ target' = [target EXCEPT ![l] = "none"]
  /\ UNCHANGED <<session, temps, rec, stage, retire, entry, store, owner, payload, op, faults>>
DropSelection(l) ==
  /\ armed[l] # "none" /\ ~Adopting(l)
  /\ armed' = [armed EXCEPT ![l] = "none"]
  /\ target' = [target EXCEPT ![l] = IF StillProcessLease(l) THEN "none" ELSE @]
  /\ UNCHANGED <<session, temps, rec, stage, retire, entry, store, owner, payload, op, faults>>

(***************************************************************************)
(* reclaim_stale_leases_locked, the lease half of garbage collection.      *)
(***************************************************************************)
ReclaimStaleLeases ==
  /\ Locks
  /\ NoTransferStaging
  /\ \A l \in Launches : target[l] \in {"none", "process"}
  /\ target' = [l \in Launches |-> IF owner[l] = "alive" THEN target[l] ELSE "none"]
  /\ target' # target
  /\ UNCHANGED <<session, temps, rec, stage, retire, processes, op>>

(***************************************************************************)
(* The owner's side of the protocol, which lifecycle.rs only records       *)
(* (external): the gate opens, the owner records running and starts its    *)
(* payload, a direct owner that has drained its group says so.  An owner   *)
(* may die, and a payload exit or leave its process group, at any time.    *)
(***************************************************************************)
OwnerRecords(l, r) ==
  /\ op = Idle /\ owner[l] = "alive" /\ r # rec[l]
  /\ rec' = [rec EXCEPT ![l] = r]
  /\ UNCHANGED <<session, temps, target, stage, retire, processes, op>>

OpenGate(l) ==
  /\ rec[l] = AdoptedRecord
  /\ OwnerRecords(l, [rec[l] EXCEPT !.exec = TRUE])

RecordRunning(l) ==
  /\ rec[l].state = "adopted" /\ rec[l].exec
  /\ OwnerRecords(l, [rec[l] EXCEPT !.state = "running"])

RecordDrained(l) ==
  /\ rec[l].state = "running" /\ l \notin Systemd /\ payload[l] = "exited"
  /\ OwnerRecords(l, [rec[l] EXCEPT !.state = "terminal", !.result = "exited",
                                    !.drained = TRUE])

StartPayload(l) ==
  /\ owner[l] = "alive" /\ rec[l].state = "running" /\ payload[l] = "unstarted"
  /\ payload' = [payload EXCEPT ![l] = "live"]
  /\ UNCHANGED <<files, entry, store, armed, owner, op, faults>>

PayloadLeaves(l) ==
  /\ \/ payload[l] \in {"live", "detached"} /\ payload' = [payload EXCEPT ![l] = "exited"]
     \/ payload[l] = "live" /\ l \notin Systemd /\ payload' = [payload EXCEPT ![l] = "detached"]
  /\ UNCHANGED <<files, entry, store, armed, owner, op, faults>>

OwnerDies(l) ==
  /\ owner[l] = "alive"
  /\ owner' = [owner EXCEPT ![l] = "dead"]
  /\ UNCHANGED <<files, entry, store, armed, payload, op, faults>>

(***************************************************************************)
(* What an OwnershipInspector may say of a launch (external): the truth,   *)
(* as far as the kernel shows it, or that it is uncertain.  A direct       *)
(* payload that left its process group is not in the group it is sought in.*)
(***************************************************************************)
Observed(l) ==
  CASE l \in Systemd -> IF Empty(l) THEN {"empty"} ELSE {"live"}
    [] l \notin Systemd /\ payload[l] = "detached" ->
         {"detached", IF owner[l] = "alive" THEN "live" ELSE "empty"}
    [] OTHER -> {IF owner[l] # "alive" /\ payload[l] # "live" THEN "empty" ELSE "live"}

Observations == {o \in [Launches -> {"empty", "live", "detached", "uncertain"}] :
                   \A l \in Launches : o[l] \in Observed(l) \union {"uncertain"}}

Plans(o) == [l \in Launches |-> IF HasRecord(l)
                                THEN PlanReconciliation(l, rec[l], LeaseOf(l), o[l])
                                ELSE Retain]

(***************************************************************************)
(* reconcile.  Nothing is changed unless the whole inventory is known, no  *)
(* plan is uncertain, and every controller proves its owner empty; a       *)
(* controller that fails to prove it may have killed the owner all the     *)
(* same.                                                                   *)
(***************************************************************************)
InventoryReconcilable ==
  /\ InventoryClassified /\ StagesApart /\ TransferPairsExact
  /\ LeaseInventorySafe /\ RelationsKnown

Controlled(plans) == {l \in Launches : plans[l].control}

Kill(ls) == owner' = [l \in Launches |-> IF l \in ls THEN "dead" ELSE owner[l]]

Certain(plans) == \A l \in Launches : plans[l].act # "uncertain"

Reconcile(o) ==
  /\ Locks /\ InventoryReconcilable /\ Certain(Plans(o))
  /\ Kill(Controlled(Plans(o)))
  /\ op' = [pc |-> "normalizeTemps", plans |-> Plans(o),
            todo |-> {l \in Launches : Plans(o)[l].act # "retain"}]
  /\ UNCHANGED <<files, entry, store, armed, payload, faults>>

ControllerUncertain(o) ==
  /\ Locks /\ InventoryReconcilable /\ Certain(Plans(o))
  /\ \E ls \in SUBSET Controlled(Plans(o)) : Kill(ls)
  /\ Fault
  /\ UNCHANGED <<files, entry, store, armed, payload, op>>

NormalizeTemps ==
  /\ At("normalizeTemps")
  /\ temps' = {}
  /\ Goto("normalizeStages")
  /\ UNCHANGED <<session, rec, target, stage, retire, processes>>

\* LeaseTransferRecoveryPlan::normalize unlinks the stages one by one.
NormalizeStage(l) ==
  /\ At("normalizeStages") /\ stage[l] # "none"
  /\ stage' = [stage EXCEPT ![l] = "none"]
  /\ UNCHANGED <<session, temps, rec, target, retire, processes, op>>

NextPlan == [op EXCEPT !.pc = "apply"]

NormalizedStages ==
  /\ At("normalizeStages") /\ \A l \in Launches : stage[l] = "none"
  /\ op' = NextPlan
  /\ UNCHANGED <<files, processes>>

(***************************************************************************)
(* apply_reconciliation_plan, for one launch after the other.              *)
(***************************************************************************)
\* The record is retired before the lease it accounts for.
StepOf_RecordFirst(plan) ==
  IF plan.result # "none" THEN "terminalRecord" ELSE "retireLaunch"
StepOf(plan) ==
  IF plan.result # "none" THEN "terminalRecord"
  ELSE IF plan.release THEN "retireLease" ELSE "retireLaunch"

ApplyPlan(l) ==
  /\ At("apply") /\ l \in op.todo
  /\ op' = [pc |-> StepOf(op.plans[l]), plans |-> op.plans, todo |-> op.todo \ {l},
            launch |-> l]
  /\ UNCHANGED <<files, processes>>

Applied ==
  /\ At("apply") /\ op.todo = {}
  /\ Finished
  /\ UNCHANGED <<files, processes>>

Current == op.plans[op.launch]

TerminalRecord ==
  /\ At("terminalRecord")
  /\ WriteTemp(<<"update", op.launch>>)
  /\ Goto("terminalRename")
  /\ UNCHANGED <<session, rec, target, stage, retire, processes>>

TerminalRename ==
  /\ At("terminalRename")
  /\ rec' = [rec EXCEPT ![op.launch] = TerminalSuccessor(@, Current)]
  /\ temps' = temps \ {<<"update", op.launch>>}
  /\ Goto(IF Current.act = "terminalize" THEN "apply"
          ELSE IF Current.release THEN "retireLease" ELSE "retireLaunch")
  /\ UNCHANGED <<session, target, stage, retire, processes>>

\* unlink_exact_lease; a lease that is gone by now retains the record.
RetireLease ==
  /\ At("retireLease")
  /\ LET l == op.launch IN
     IF target[l] = "none"
       THEN /\ Goto(IF retire[l] = "none" THEN "apply" ELSE "unlinkLease")
            /\ UNCHANGED <<target, retire>>
       ELSE /\ retire' = [retire EXCEPT ![l] = target[l]]
            /\ target' = [target EXCEPT ![l] = "none"]
            /\ Goto("unlinkLease")
  /\ UNCHANGED <<session, temps, rec, stage, processes>>

UnlinkLease ==
  /\ At("unlinkLease")
  /\ retire' = [retire EXCEPT ![op.launch] = "none"]
  /\ Goto("retireLaunch")
  /\ UNCHANGED <<session, temps, rec, target, stage, processes>>

\* unlink_exact_launch_record.
RetireLaunch ==
  /\ At("retireLaunch")
  /\ rec' = [rec EXCEPT ![op.launch].retired = TRUE]
  /\ Goto("unlinkLaunch")
  /\ UNCHANGED <<session, temps, target, stage, retire, processes>>

UnlinkLaunch ==
  /\ At("unlinkLaunch")
  /\ rec' = [rec EXCEPT ![op.launch] = NoRecord]
  /\ op' = NextPlan
  /\ UNCHANGED <<session, temps, target, stage, retire, processes>>

(***************************************************************************)
(* A step of an operation fails, and the operation returns its error.      *)
(***************************************************************************)
TempPcs == {"claimRename", "prepareRename", "adoptRename", "terminalRename"}

\* The temporary is unlinked on the way out, where that works.
TempsAfterFailure ==
  IF op.pc \in TempPcs
  THEN {temps, CASE At("claimRename") -> temps \ {<<"claim">>}
                 [] At("prepareRename") -> temps \ {<<"create", op.launch>>}
                 [] OTHER -> temps \ {<<"update", op.launch>>}}
  ELSE {temps}

OperationFails ==
  /\ op # Idle /\ op.pc \notin AdoptPcs /\ Fault
  /\ temps' \in TempsAfterFailure
  /\ Finished
  /\ UNCHANGED <<session, rec, target, stage, retire, entry, store, armed, owner, payload>>

\* Before the exchange the stage is unlinked again; a stage that remains
\* makes the launcher retain its selection instead of dropping it.  An owner
\* that died before the exchange makes it fail without a fault.
AdoptFails ==
  /\ op.pc \in AdoptPcs
  /\ Fault \/ (At("exchange") /\ owner[op.launch] # "alive" /\ UNCHANGED faults)
  /\ temps' \in TempsAfterFailure
  /\ \E s \in {stage[op.launch]} \union (IF At("exchange") THEN {"none"} ELSE {}) :
       /\ stage' = [stage EXCEPT ![op.launch] = s]
       /\ armed' = [armed EXCEPT ![op.launch] = IF s = "none" THEN "dropping" ELSE "none"]
  /\ Finished
  /\ UNCHANGED <<session, rec, target, retire, entry, store, owner, payload>>

\* The process that runs the operation dies; a launcher takes its selection
\* with it, and its lease stays.
Crash ==
  /\ op # Idle /\ Fault
  /\ Finished
  /\ armed' = IF op.pc \in AdoptPcs \union {"prepareRename"}
              THEN [armed EXCEPT ![op.launch] = "none"] ELSE armed
  /\ UNCHANGED <<files, entry, store, owner, payload>>

LauncherDies(l) ==
  /\ armed[l] # "none" /\ op = Idle
  /\ armed' = [armed EXCEPT ![l] = "none"]
  /\ UNCHANGED <<files, entry, store, owner, payload, op, faults>>

OperationStep ==
  \/ ClaimRename \/ ClaimRefused \/ PrepareRename \/ LinkStage \/ Exchange \/ UnlinkStage \/ AdoptRecord
  \/ AdoptRename \/ Disarm \/ NormalizeTemps \/ NormalizedStages \/ Applied
  \/ TerminalRecord \/ TerminalRename \/ RetireLease \/ UnlinkLease \/ RetireLaunch
  \/ UnlinkLaunch
  \/ \E l \in Launches : NormalizeStage(l) \/ ApplyPlan(l)

Next ==
  \/ ClaimSession \/ AdvanceSession \/ AdvanceDies \/ OpenRegistry \/ OpenActiveSession
  \/ EntryDies
  \/ StoreReplaced \/ ReclaimStaleLeases
  \/ \E o \in Observations : Reconcile(o) \/ ControllerUncertain(o)
  \/ OperationStep \/ OperationFails \/ AdoptFails \/ Crash
  \/ \E l \in Launches :
       \/ SelectCurrent(l) \/ Prepare(l) \/ AdoptFindsStaging(l) \/ AdoptRefused(l)
       \/ AdoptPrepared(l) \/ DropSelection(l) \/ LauncherDies(l)
       \/ OpenGate(l) \/ RecordRunning(l) \/ RecordDrained(l)
       \/ StartPayload(l) \/ PayloadLeaves(l) \/ OwnerDies(l)

(***************************************************************************)
(* An operation that has begun goes on or gives up.  Reconciliation is     *)
(* called again and again, and not every call meets an uncertain observer. *)
(***************************************************************************)
CertainReconcile ==
  \E o \in Observations : (\A l \in Launches : o[l] # "uncertain") /\ Reconcile(o)

Spec == /\ Init /\ [][Next]_vars
        /\ WF_vars(OperationStep \/ OperationFails \/ AdoptFails)
        /\ SF_vars(CertainReconcile)

(***************************************************************************)
(* Properties.                                                             *)
(***************************************************************************)

\* A generation that something runs from, or is about to, stays leased, whatever
\* died, failed or raced on the way.  What the owner started runs under the
\* lifecycle lease; and while the launcher holds its selection, or the owner may
\* still open its gate, the lease exists under its own name or as a file that
\* reconciliation knows: the exchange in replace_with_lifecycle_locked leaves no
\* moment without one.
GenerationStaysLeased ==
  \A l \in Launches :
    /\ payload[l] \in {"live", "detached"} => target[l] = LifecycleLease(l)
    /\ /\ owner[l] = "alive"
       /\ armed[l] = "armed" \/ rec[l].state \in {"adopted", "running"}
       => LeaseOf(l) # "none"

\* Whatever operation a process died or failed in, what it left is inventory
\* that reconciliation recognises: no crash can freeze the registry by the
\* shape of its files (classify_inventory_recovery, plan_reconciliation).
EveryCrashIsReconcilable == op = Idle => InventoryReconcilable

\* A lifecycle lease disappears only once the owner and all it started are
\* gone, however stale the observation the plan was made from
\* (apply_reconciliation_plan runs after the controllers, under the lock).
LeaseReleasedOnlyWhenEmpty ==
  [][\A l \in Launches :
       LeaseOf(l) \notin {"none", "process"} /\ LeaseOf(l)' # LeaseOf(l) => Empty(l)]_vars

\* Passes over the direct launches' evidence end in a plan, not in doubt.
DirectSettled ==
  \A d \in Launches \ Systemd :
    HasRecord(d) => \A o \in Observed(d) :
      PlanReconciliation(d, rec[d], LeaseOf(d), o) # Uncertain

\* Once a systemd launch is empty its record is collected, from whatever point
\* its launcher, its owner or an earlier pass died at, as long as no direct
\* launch keeps the passes from being certain and the store stays in its place
\* (reconcile).
LaunchesAreCollected ==
  <>[](DirectSettled /\ store = "same") =>
    \A l \in Systemd : (HasRecord(l) /\ Empty(l)) ~> ~HasRecord(l)
=============================================================================
