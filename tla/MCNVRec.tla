------------------------------- MODULE MCNVRec -------------------------------
(* NVRecEngine for TLC.                                                     *)
EXTENDS NVRecEngine, TLC

(* Keys are only compared: any two behaviours that differ by a permutation  *)
(* of them are alike.  Used by runs that check no liveness.                 *)
KeySymmetry == Permutations(Keys)
===============================================================================
