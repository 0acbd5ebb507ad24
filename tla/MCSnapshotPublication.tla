---------------------- MODULE MCSnapshotPublication ----------------------
(* Instances of SnapshotPublication for TLC.                               *)
EXTENDS SnapshotPublication, TLC

CONSTANTS i1, i2, p1, p2

\* The accepted baseline: i1 with one session.
Baseline ==
    << [scope |-> Scope("instruments", {i1}, 0, 0), priority |-> 0,
        data |-> (<<i1, 0>> :> [fact |-> 0, rule |-> 0])],
       [scope |-> Scope("bars", {i1}, 1, 1), priority |-> 0,
        data |-> (<<i1, 1>> :> [fact |-> 1, rule |-> 0])] >>

ProcSymmetry == Permutations(Procs)
=============================================================================
