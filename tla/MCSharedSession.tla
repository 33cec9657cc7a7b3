-------------------------- MODULE MCSharedSession --------------------------
(***************************************************************************)
(* Small instances of SharedSession for TLC.                               *)
(***************************************************************************)
EXTENDS SharedSession, TLC

CONSTANTS sp, en, bf, j1, j2

JobSymmetry == Permutations(Jobs)
=============================================================================
