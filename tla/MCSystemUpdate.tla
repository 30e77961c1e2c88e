---------------------------- MODULE MCSystemUpdate ----------------------------
(* Small instances of SystemUpdate for TLC.                                  *)
EXTENDS SystemUpdate, TLC

RunSymmetry == Permutations(Runs)
=============================================================================
