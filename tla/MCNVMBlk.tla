------------------------------- MODULE MCNVMBlk -------------------------------
(* NVMBlkEngine for TLC.                                                    *)
EXTENDS NVMBlkEngine, TLC

(* Keys are only compared.  Used by runs that check no liveness.            *)
KeySymmetry == Permutations(Keys)
===============================================================================
