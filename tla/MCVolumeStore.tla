--------------------------- MODULE MCVolumeStore ---------------------------
(***************************************************************************)
(* VolumeStore for TLC: one branch on each of the four backends.           *)
(***************************************************************************)
EXTENDS VolumeStore

CONSTANTS b1
=============================================================================
