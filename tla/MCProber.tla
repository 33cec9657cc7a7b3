------------------------------ MODULE MCProber ------------------------------
(***************************************************************************)
(* Small instances of Prober for TLC.                                      *)
(***************************************************************************)
EXTENDS Prober, TLC

CONSTANTS j1, j2, s1, h1, h2, h3

\* For instances without Stubborn or Unreadable holds.
HoldSymmetry == Permutations(Holds)
=============================================================================
