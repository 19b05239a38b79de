--------------------------- MODULE BranchContract ---------------------------
(***************************************************************************)
(* What a client of the API may count on, whatever sashikid does inside    *)
(* and however often it is stopped: which states a branch goes through,    *)
(* and what becomes of its data.  BranchRefinement shows that              *)
(* BranchLifecycle keeps to it.                                            *)
(***************************************************************************)

CONSTANT Branches

VARIABLES
    phase,    \* the state list shows, as far as a client acts upon it
    data,     \* a volume with its @init: under the branch's name, set aside, or none
    pinned    \* is one of the branch's snapshots a registered baseline?

vars == <<phase, data, pinned>>

\* replacing: the branch could be used, and a call asked for data in place of
\* its data; settling: it is being made, or made again after an error.
Phases     == {"absent", "ready", "failed", "replacing", "settling", "deleting"}
Working(b) == phase[b] \in {"replacing", "settling", "deleting"}
Data       == {"here", "aside", "none"}

TypeOK == /\ phase \in [Branches -> Phases]
          /\ data \in [Branches -> Data]
          /\ pinned \in [Branches -> BOOLEAN]

Moves(b, from, to, found, left) ==
    /\ phase[b] \in from /\ phase' = [phase EXCEPT ![b] = to]
    /\ data[b] \in found /\ \E d \in left : data' = [data EXCEPT ![b] = d]
    /\ UNCHANGED pinned
\* The data may be set aside or put back, not lost.
Kept(b) == IF data[b] = "none" THEN Data ELSE Data \ {"none"}

\* What is called for.  A branch that backs a baseline is not touched, and
\* without a volume there is only the name to delete.
Create(b)  == ~pinned[b] /\ Moves(b, {"absent"}, "settling", Data, Data \ {"here"})
Replace(b) == ~pinned[b] /\ Moves(b, {"ready"}, "replacing", Data, {data[b]})
Repair(b)  == ~pinned[b] /\ Moves(b, {"failed"}, "settling", Data, {data[b]})
Delete(b)  == ~pinned[b] /\ Moves(b, {"ready", "failed"}, "deleting", Data, {data[b]})
Forget(b)  == ~pinned[b] /\ Moves(b, {"failed"}, "absent", Data \ {"here"}, {"none"})
Wake(b)    == Moves(b, {"failed"}, "ready", {"here"}, {"here"})

\* What happens then.
Exchange(b) == Moves(b, {"replacing"}, "replacing", Data, Kept(b))
Work(b)     == Moves(b, {"settling"}, "settling", Data, Data)
Destroy(b)  == Moves(b, {"deleting"}, "deleting", Data, Data \ {"here"})
Succeed(b)  == Moves(b, {"replacing", "settling"}, "ready", {"here"}, {"here"})
Fail(b)     == Moves(b, Phases \ {"absent"}, "failed", Data, Kept(b))
Gone(b)     == Moves(b, {"deleting"}, "absent", Data \ {"here"}, {"none"})

Pin(b) ==
    /\ phase[b] = "ready" /\ data[b] = "here"
    /\ pinned' = [pinned EXCEPT ![b] = TRUE]
    /\ UNCHANGED <<phase, data>>
Unpin(b) ==
    /\ pinned' = [pinned EXCEPT ![b] = FALSE]
    /\ UNCHANGED <<phase, data>>

\* The program stops: what was being replaced has to be settled.
Interrupt ==
    /\ phase' = [b \in Branches |-> IF phase[b] = "replacing" THEN "settling" ELSE phase[b]]
    /\ UNCHANGED <<data, pinned>>

Init ==
    /\ phase = [b \in Branches |-> "absent"]
    /\ data = [b \in Branches |-> "none"]
    /\ pinned = [b \in Branches |-> FALSE]

Step(b) ==
    \/ Create(b) \/ Replace(b) \/ Repair(b) \/ Delete(b) \/ Forget(b) \/ Wake(b)
    \/ Exchange(b) \/ Work(b) \/ Destroy(b) \/ Succeed(b) \/ Fail(b) \/ Gone(b)
    \/ Pin(b) \/ Unpin(b)

Next == Interrupt \/ \E b \in Branches : Step(b)

\* What was begun comes to an end.
Settles == \A b \in Branches : Working(b) ~> ~Working(b)
Safety  == Init /\ [][Next]_vars
Spec    == Safety /\ Settles
=============================================================================
