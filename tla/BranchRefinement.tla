-------------------------- MODULE BranchRefinement --------------------------
(***************************************************************************)
(* BranchLifecycle implements BranchContract.                              *)
(***************************************************************************)
EXTENDS BranchLifecycle

\* A call that was cut off does not say any more from what state it set out.
PhaseOf(b) ==
    CASE row[b].state = "absent" -> "absent"
      [] row[b].state \in {"running", "sleeping"} -> "ready"
      [] row[b].state = "error" -> "failed"
      [] row[b].state = "creating" -> "settling"
      [] row[b].state = "deleting" -> "deleting"
      [] row[b].state = "resetting" ->
            IF Locked(b) /\ ~task[b].wasError THEN "replacing" ELSE "settling"

Whole(v) == v.exists /\ v.init # "none"
\* What is left of a name that was deleted belongs to no branch.
DataOf(b) == IF row[b].state = "absent" THEN "none"
             ELSE IF Whole(vol[b]) THEN "here"
             ELSE IF Whole(stash[b]) THEN "aside" ELSE "none"

Contract == INSTANCE BranchContract WITH
               phase  <- [b \in Branches |-> PhaseOf(b)],
               data   <- [b \in Branches |-> DataOf(b)],
               pinned <- reg

\* Every call of manager.go, with every command that fails and wherever it is
\* cut off, is for a client a step of the contract or no step at all: data are
\* lost only to a deletion or to the repair of a branch that was in error,
\* never to a reset or recreate that fails; a branch becomes ready only with
\* its data in place; nothing touches a branch that backs a baseline; and what
\* was begun ends.
ImplementsContract == Contract!Spec
=============================================================================
