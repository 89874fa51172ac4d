-------------------------------- MODULE MCYCSB --------------------------------
(* YCSB for TLC: the sets of keys and records its bounds call for.          *)
EXTENDS YCSB

MCKeys == 0 .. (InsertStart + MaxSerial)
MCRecord == UNION {[S -> 1 .. MaxSerial] : S \in SUBSET Fields}
===============================================================================
