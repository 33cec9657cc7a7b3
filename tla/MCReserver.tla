----------------------------- MODULE MCReserver -----------------------------
(***************************************************************************)
(* Small instances of Reserver for TLC.                                    *)
(***************************************************************************)
EXTENDS Reserver, TLC

CONSTANTS s1, s2, c1, c2

OneLine == {Slots}
CdcSymmetry == Permutations(Cdcs)
=============================================================================
