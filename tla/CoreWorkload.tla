----------------------------- MODULE CoreWorkload -----------------------------
(***************************************************************************)
(* What the clients ask of the workload (core/core_workload.h and .cc):    *)
(* the keys they insert and use, the operations and the values.  The       *)
(* random choices are nondeterministic; how likely each one is does not    *)
(* matter here.                                                            *)
(*                                                                         *)
(* A key is the number it is made of.  BuildKeyName's hash, a permutation  *)
(* of the numbers as far as the program can tell, changes no comparison.   *)
(***************************************************************************)
EXTENDS Integers

CONSTANTS
  RecordCount,     \* recordcount: record_count_
  InsertStart,     \* insertstart
  Fields,          \* the names field0 .. field<fieldcount - 1>
  WriteAllFields,  \* writeallfields
  ReadAllFields,   \* readallfields
  Operations       \* the operations with a proportion above zero

ASSUME CoreWorkloadAssumption ==
  /\ RecordCount \in Nat \ {0}
  /\ InsertStart \in Nat
  /\ WriteAllFields \in BOOLEAN
  /\ ReadAllFields \in BOOLEAN
  /\ Operations \subseteq {"READ", "UPDATE", "INSERT", "SCAN", "READMODIFYWRITE"}

VARIABLE counter  \* key_generator_: counter_, an atomic integer

(* key_generator_ = new CounterGenerator(insert_start);                    *)
InitKeyGenerator == counter = InsertStart

(* Mutant: the counter is read and not advanced.                           *)
BugNextSequenceKey(k) == k = counter /\ UNCHANGED counter

(* key_generator_->Next(): one atomic fetch_add.                           *)
NextSequenceKey(k) == k = counter /\ counter' = counter + 1

(* insert_key_sequence_.Last(): it was set to record_count_ and nothing    *)
(* advances it.                                                            *)
LastInsertKey == RecordCount - 1

(* The keys NextTransactionKey can return, for each of the distributions:  *)
(* it draws again while the key is above insert_key_sequence_.Last().      *)
TransactionKeys == 0 .. LastInsertKey

(* The field/value pairs of a record, all of them with value v.            *)
BuildValues(v) == [f \in Fields |-> v]

(* One pair, for the field NextFieldName picks.                            *)
BuildUpdate(v) == {[f \in {g} |-> v] : g \in Fields}

(* What an update of value v writes.                                       *)
UpdateValues(v) == IF WriteAllFields THEN {BuildValues(v)} ELSE BuildUpdate(v)

(* The names a read asks for.  With readallfields=false the client puts    *)
(* "field" in front of a name that has it already: no record has a field   *)
(* of that name.                                                           *)
ReadFields == IF ReadAllFields THEN Fields ELSE {}
===============================================================================
