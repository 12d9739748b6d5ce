---- MODULE MCGeneration ----
(***************************************************************************)
(* Model checking of Generation, with at most MaxStale leases left by dead *)
(* processes at a time.                                                    *)
(***************************************************************************)
EXTENDS Generation, TLC

CONSTANT MaxStale

BoundedNext == Next /\ Cardinality({l \in leases' : ~l.live}) <= MaxStale

BoundedSpec == Init /\ [][BoundedNext]_vars

Symmetry == Permutations(Ids)
====
