------------------------- MODULE MCBranchLifecycle -------------------------
(***************************************************************************)
(* Instances of BranchLifecycle for TLC.  Branches are model values.       *)
(***************************************************************************)
EXTENDS BranchRefinement, TLC

BranchSymmetry == Permutations(Branches)

\* Faults of one command that leave nothing half done.
WholeFaults == AllFaults \ {"cloneThenGet", "renameThenGet", "resolve"}
=============================================================================
