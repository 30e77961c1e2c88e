-------------------------- MODULE MCMirrorlistUpdate --------------------------
(* Small instances of MirrorlistUpdate for TLC.                              *)
EXTENDS MirrorlistUpdate, TLC

RunSymmetry == Permutations(Runs)
=============================================================================
