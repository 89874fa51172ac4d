------------------------------- MODULE MCNVMLog -------------------------------
(* NVMLogEngine for TLC.                                                    *)
EXTENDS NVMLogEngine, TLC

(* Keys are only compared.  Used by runs that check no liveness.            *)
KeySymmetry == Permutations(Keys)
===============================================================================
