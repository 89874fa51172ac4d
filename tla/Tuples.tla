-------------------------------- MODULE Tuples --------------------------------
(***************************************************************************)
(* The tuples the recovery engines persist (recovery/recovery_defs.h) and  *)
(* how a sequence of them, the disk log or the contents of a pool, is      *)
(* read back.                                                              *)
(***************************************************************************)
EXTENDS Naturals, Sequences, OSFile

CONSTANTS
  Keys,       \* the uint64_t keys
  NoTuple,    \* no tuple
  MaxWrites   \* bound: calls of PersistUpdate and PersistDelete

(* A tuple.  The field images DBToRaw produced are opaque to the engines:  *)
(* ver, the number of the call that brought them, stands for them.         *)
Tuple == [key : Keys, deleted : BOOLEAN, ver : 1 .. MaxWrites]

ASSUME TupleAssumption ==
  /\ MaxWrites \in Nat
  /\ NoTuple \notin Tuple
  /\ Torn \notin Tuple

(* What a reader of records of one size gets of a file: the ones before    *)
(* the first torn record, behind which it is out of step.                  *)
Readable(s) ==
  LET whole == {i \in DOMAIN s : \A j \in 1 .. i : s[j] # Torn}
  IN  [i \in whole |-> s[i]]

(* Replaying the tuples s from the start: the last one for key k, or       *)
(* NoTuple.                                                                *)
LastOf(s, k) ==
  LET at == {i \in DOMAIN s : s[i].key = k}
  IN  IF at = {} THEN NoTuple ELSE s[CHOOSE i \in at : \A j \in at : j <= i]
===============================================================================
