---------------------------- MODULE LaunchRules -----------------------------
(***************************************************************************)
(* The activation registry's rules for the evidence it finds: launch       *)
(* records, generation leases and what is observed of the processes        *)
(* (crates/realm-theme/src/generation/lifecycle.rs).                       *)
(*                                                                         *)
(* A launch record is [state, kind, result, exec, drained, retired]: its   *)
(* state, expected lease kind, result, exec-open and direct-drained, and   *)
(* whether it lies at .launch-retire-<id>.  The session record is [state,  *)
(* compositor, helper, wm, bar]: its state, the helper mode, and whether   *)
(* the compositor and the two helpers have been recorded.                  *)
(***************************************************************************)
EXTENDS Naturals, Sequences

CONSTANTS Launches,  \* the launch identifiers, each with a lease of its own
          Systemd    \* the launches owned by a systemd scope; the others are direct

ASSUME SystemdAreLaunches == Systemd \subseteq Launches

SessionStates == <<"claimed", "preparing", "active", "admission-frozen", "helpers-stopped",
                   "cleanup-delegated", "closed">>

NoSession == [state |-> "none", compositor |-> FALSE, helper |-> "none",
              wm |-> FALSE, bar |-> FALSE]

ClaimedSession == [NoSession EXCEPT !.state = "claimed"]

\* What SessionRecord::parse accepts.
SessionReachable(s) ==
  /\ s.state = "claimed" => ~s.compositor
  /\ s.state \in {"preparing", "active"} => s.compositor
  /\ s.compositor <=> s.helper # "none"
  /\ s.helper # "direct" => ~s.wm /\ ~s.bar
  /\ s.state = "active" /\ s.helper = "direct" => s.wm /\ s.bar

NoRecord == [state |-> "none", kind |-> "process", result |-> "none",
             exec |-> FALSE, drained |-> FALSE, retired |-> FALSE]

PreparingRecord == [NoRecord EXCEPT !.state = "preparing"]

AdoptedRecord == [PreparingRecord EXCEPT !.state = "adopted", !.kind = "lifecycle"]

\* What a lease file that parses holds: the process that selected the generation,
\* or the launch that took the lease over, a process group or a systemd scope.
LeaseKinds == {"process", "group", "scope"}

\* transfer_records: the lease of a launch whose ownership was verified.
LifecycleLease(l) == IF l \in Systemd THEN "scope" ELSE "group"

process_lease_matches(l, lease) == lease = "process"
lifecycle_lease_matches(l, lease) == lease = LifecycleLease(l)

\* What LaunchRecord::parse accepts of a tuple: the ones a producer can write.
ProducerReachable(l, r) ==
  \/ /\ r.state = "preparing" /\ r.kind = "process" /\ r.result = "none"
     /\ ~r.exec /\ ~r.drained
  \/ /\ r.state = "adopted" /\ r.kind = "lifecycle" /\ r.result = "none" /\ ~r.drained
  \/ /\ r.state = "running" /\ r.kind = "lifecycle" /\ r.result = "none"
     /\ r.exec /\ ~r.drained
  \/ /\ r.state = "terminal" /\ r.kind = "process" /\ r.result = "failed"
     /\ ~r.exec /\ ~r.drained
  \/ /\ r.state = "terminal" /\ r.kind = "lifecycle" /\ l \in Systemd /\ ~r.drained
     /\ r.result = "failed" \/ (r.result = "exited" /\ r.exec)
  \/ /\ r.state = "terminal" /\ r.kind = "lifecycle" /\ l \notin Systemd /\ r.exec
     /\ r.result = IF r.drained THEN "exited" ELSE "lost"

\* reconciliation_lease_relation_is_known, of a record and its actual lease.
RelationKnown(l, r, lease) ==
  \/ lease = "none" /\ (r.state = "terminal" \/ (r.state = "preparing" /\ r.kind = "process"))
  \/ /\ process_lease_matches(l, lease)
     /\ r.state \in {"preparing", "terminal"} /\ r.kind = "process"
  \/ /\ lifecycle_lease_matches(l, lease)
     /\ r.kind = "lifecycle" \/ r.state = "preparing"

(***************************************************************************)
(* plan_reconciliation.  A plan says which controller must first prove the *)
(* gate-closed owner empty (control), which terminal record to write       *)
(* (result), whether that record takes over the lifecycle lease            *)
(* (transferred), whether the lease is then released, and whether the      *)
(* record is retained afterwards.  Uncertain freezes the whole pass.       *)
(***************************************************************************)
Plan == [act |-> "complete", control |-> FALSE, result |-> "none",
         transferred |-> FALSE, release |-> FALSE]

Retain == [Plan EXCEPT !.act = "retain"]
Uncertain == [Plan EXCEPT !.act = "uncertain"]

\* An empty process group is taken for an empty launch.
TerminalPlan_NoWitness(l, r, released, observation) ==
  CASE observation = "empty" -> [Plan EXCEPT !.release = released]
    [] observation = "live" -> Retain
    [] OTHER -> Uncertain

\* A terminal record whose lease is already gone is left alone.
TerminalPlan_NeedsLease(l, r, released, observation) ==
  IF released /\ observation = "empty" THEN [Plan EXCEPT !.release = TRUE] ELSE Retain
\* direct_terminal_releasable needs the owner's own drain witness.
Releasable(l, r, observation) ==
  observation = "empty" /\ (l \in Systemd \/ r.drained)

TerminalPlan(l, r, released, observation) ==
  CASE Releasable(l, r, observation) -> [Plan EXCEPT !.release = released]
    [] observation = "live" -> Retain
    [] OTHER -> Uncertain

RunningPlan(l, observation) ==
  CASE l \in Systemd /\ observation = "empty" ->
         [Plan EXCEPT !.result = "exited", !.release = TRUE]
    [] l \notin Systemd /\ observation = "detached" ->
         [Plan EXCEPT !.act = "terminalize", !.result = "lost"]
    [] observation = "live" -> Retain
    [] OTHER -> Uncertain

PlanReconciliation(l, r, lease, observation) ==
  CASE r.state = "preparing" /\ lease = "process" ->
         [Plan EXCEPT !.control = TRUE, !.result = "failed", !.release = TRUE]
    [] r.state = "preparing" /\ lease = LifecycleLease(l) /\ l \in Systemd ->
         [Plan EXCEPT !.control = TRUE, !.result = "failed", !.transferred = TRUE,
                      !.release = TRUE]
    [] r.state = "preparing" /\ lease = "none" ->
         [Plan EXCEPT !.control = TRUE, !.result = "failed"]
    [] r.state = "adopted" /\ lease = LifecycleLease(l) /\ l \in Systemd ->
         [Plan EXCEPT !.control = TRUE, !.result = "failed", !.release = TRUE]
    [] r.state = "running" /\ lease = LifecycleLease(l) -> RunningPlan(l, observation)
    [] r.state = "terminal" /\ r.kind = "process" /\ lease = "process" ->
         [Plan EXCEPT !.control = TRUE, !.release = TRUE]
    [] r.state = "terminal" /\ r.kind = "lifecycle" /\ lease = LifecycleLease(l) ->
         TerminalPlan(l, r, TRUE, observation)
    [] r.state = "terminal" /\ lease = "none" /\ l \notin Systemd /\ r.kind = "process" ->
         [Plan EXCEPT !.control = TRUE]
    [] r.state = "terminal" /\ lease = "none" /\ (l \in Systemd \/ r.kind = "lifecycle") ->
         TerminalPlan(l, r, FALSE, observation)
    [] OTHER -> Uncertain

\* terminal_successor.
TerminalSuccessor(r, plan) ==
  [r EXCEPT !.state = "terminal", !.result = plan.result,
            !.kind = IF plan.transferred THEN "lifecycle" ELSE @]
=============================================================================
