---------------------------- MODULE MCBackground ----------------------------
(***************************************************************************)
(* Small instances of Background for TLC.                                  *)
(***************************************************************************)
EXTENDS Background

CONSTANTS a1, a2, sp, en, j1
=============================================================================
