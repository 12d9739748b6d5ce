---------------------------- MODULE Persistence ----------------------------
(***************************************************************************)
(* PersistenceCoordinator of the session daemon                            *)
(* (crates/realm-session/src/persistence.rs): which snapshot is on disk,   *)
(* which newer one waits for its deadline, and which one is being written. *)
(* Every method is an operator from a coordinator to a coordinator.        *)
(*                                                                         *)
(* A deadline is the number of ticks left until it, so that the passing of *)
(* time is AgeDirty and "now >= deadline" is "no tick left".               *)
(***************************************************************************)
EXTENDS Integers

CONSTANTS
    Snap,           \* session snapshots (SessionSnapshotV1)
    None,           \* the None of every Option
    SnapshotDelay   \* SNAPSHOT_DELAY in ticks

DirtySnapshot == [snapshot: Snap, left: 0..SnapshotDelay]
PersistRequest == [sequence: Nat, snapshot: Snap]
Coordinator ==
    [persisted: Snap \cup {None}, dirty: DirtySnapshot \cup {None},
     in_flight: PersistRequest \cup {None}, next_sequence: Nat]

ASSUME PersistenceAssumption ==
    /\ SnapshotDelay \in Nat
    /\ None \notin Snap
    /\ None \notin DirtySnapshot
    /\ None \notin PersistRequest

NewCoordinator(persisted) ==
    [persisted |-> persisted, dirty |-> None, in_flight |-> None, next_sequence |-> 1]

\* Option::is_some_and(|x| x.snapshot == snapshot)
Holds(slot, snapshot) == slot # None /\ slot.snapshot = snapshot
Armed(snapshot) == [snapshot |-> snapshot, left |-> SnapshotDelay]

\* Coalescing that restarts the deadline: a busy session never saves.
observe_Slides(c, snapshot) ==
    IF snapshot = None \/ Holds(c.dirty, snapshot) THEN c
    ELSE IF c.in_flight = None /\ c.persisted = snapshot THEN [c EXCEPT !.dirty = None]
    ELSE IF c.dirty # None THEN [c EXCEPT !.dirty = Armed(snapshot)]
    ELSE IF Holds(c.in_flight, snapshot) THEN c
    ELSE [c EXCEPT !.dirty = Armed(snapshot)]
\* Coalescing against the persisted value without asking what is in flight.
observe_IgnoresInFlight(c, snapshot) ==
    IF snapshot = None \/ Holds(c.dirty, snapshot) THEN c
    ELSE IF c.persisted = snapshot THEN [c EXCEPT !.dirty = None]
    ELSE IF c.dirty # None THEN [c EXCEPT !.dirty.snapshot = snapshot]
    ELSE IF Holds(c.in_flight, snapshot) THEN c
    ELSE [c EXCEPT !.dirty = Armed(snapshot)]
observe(c, snapshot) ==
    IF snapshot = None \/ Holds(c.dirty, snapshot) THEN c
    ELSE IF c.in_flight = None /\ c.persisted = snapshot THEN [c EXCEPT !.dirty = None]
    ELSE IF c.dirty # None THEN [c EXCEPT !.dirty.snapshot = snapshot]
    ELSE IF Holds(c.in_flight, snapshot) THEN c
    ELSE [c EXCEPT !.dirty = Armed(snapshot)]
\* take_due yields a request exactly when this holds, and the request is the
\* in_flight of the coordinator that take_due leaves behind.
IsDue(c) == c.in_flight = None /\ c.dirty # None /\ c.dirty.left = 0
take_due(c) ==
    [c EXCEPT !.dirty = None,
              !.in_flight = [sequence |-> c.next_sequence, snapshot |-> c.dirty.snapshot],
              !.next_sequence = @ + 1]

\* complete returns an error, and changes nothing, unless this holds.
Expected(c, sequence) == c.in_flight # None /\ c.in_flight.sequence = sequence

CompleteSucceeded(c) ==
    [c EXCEPT !.in_flight = None,
              !.dirty = IF Holds(@, c.in_flight.snapshot) THEN None ELSE @,
              !.persisted = c.in_flight.snapshot]
\* A failure that forgets the value nobody replaced.
CompleteFailed_Drops(c) == [c EXCEPT !.in_flight = None]
CompleteFailed(c) ==
    LET failed == c.in_flight.snapshot
    IN  [c EXCEPT
            !.in_flight = None,
            !.dirty = IF @ = None THEN Armed(failed)
                      ELSE IF c.persisted = @.snapshot THEN None
                      ELSE IF @.snapshot = failed THEN Armed(failed)
                      ELSE @]
complete(c, ok) == IF ok THEN CompleteSucceeded(c) ELSE CompleteFailed(c)
shutdown_snapshot(c) ==
    IF c.dirty # None THEN c.dirty.snapshot
    ELSE IF c.in_flight # None THEN c.in_flight.snapshot
    ELSE None
AgeDirty(c) == IF c.dirty = None \/ c.dirty.left = 0 THEN c
               ELSE [c EXCEPT !.dirty.left = @ - 1]
=============================================================================
