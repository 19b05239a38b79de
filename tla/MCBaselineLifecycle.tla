------------------------ MODULE MCBaselineLifecycle ------------------------
(***************************************************************************)
(* BaselineLifecycle for TLC: the imported baseline and one more, two      *)
(* calls at a time, one branch.                                            *)
(***************************************************************************)
EXTENDS BaselineLifecycle

CONSTANTS d, s1, t1, t2, b1

TwoSnaps == {d, s1}
=============================================================================
