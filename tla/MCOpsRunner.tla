---------------------------- MODULE MCOpsRunner ----------------------------
(***************************************************************************)
(* OpsRunner for TLC: two exclusive operations on one branch, a plain one  *)
(* and a synchronous one beside them.                                      *)
(***************************************************************************)
EXTENDS OpsRunner

CONSTANTS o1, o2, o3, o4, t1

FourOps == {o1, o2, o3, o4}
OneTarget == [c \in FourOps |-> t1]
EachKind == [c \in FourOps |-> CASE c \in {o1, o2} -> "exclusive"
                                 [] c = o3 -> "plain"
                                 [] c = o4 -> "sync"]
=============================================================================
