--------------------------------- MODULE Dict --------------------------------
(***************************************************************************)
(* The hash table of redis/hiredis/dict.c: slots with chains of entries,   *)
(* created at the first insertion and doubled when it is full.  A table is *)
(* a sequence of chains.  A chain is the set of its entries: where in its  *)
(* chain an entry is shows in the order of dictNext only.                  *)
(***************************************************************************)
EXTENDS Integers, Sequences, FiniteSets

CONSTANTS
  DictHash,              \* the hash of every name
  DICT_HT_INITIAL_SIZE

ASSUME DictAssumption == DICT_HT_INITIAL_SIZE \in Nat \ {0}

dictCreate == [table |-> << >>, used |-> 0]

Size(ht) == Len(ht.table)
Index(key, size) == (DictHash[key] % size) + 1

(* What dictNext visits.                                                   *)
dictEntries(ht) == UNION {ht.table[i] : i \in 1 .. Size(ht)}

(* The entry of the key, if there is one.                                  *)
dictFind(ht, key) ==
  IF Size(ht) = 0 THEN {}
  ELSE {e \in ht.table[Index(key, Size(ht))] : e.key = key}

(* Mutant: the entries stay in the slots they were in.                     *)
BugdictExpand(ht, size) ==
  [ht EXCEPT !.table = [i \in 1 .. size |-> IF i <= Size(ht) THEN ht.table[i] ELSE {}]]

(* size is a power of two times the initial size, as _dictNextPower makes  *)
(* it.  Every entry moves to its new chain; used, which counts them down   *)
(* to the assert, is how many there are (DictOK in RedisAsyncProofs).      *)
dictExpand(ht, size) ==
  [ht EXCEPT !.table = [i \in 1 .. size |-> {e \in dictEntries(ht) : Index(e.key, size) = i}]]

_dictExpandIfNeeded(ht) ==
  CASE Size(ht) = 0 -> dictExpand(ht, DICT_HT_INITIAL_SIZE)
    [] Size(ht) > 0 /\ ht.used = Size(ht) -> dictExpand(ht, 2 * Size(ht))
    [] OTHER -> ht

(* dictReplace: add the entry, or change its value when there is one.  The *)
(* table is expanded first in both cases.                                  *)
dictReplace(ht, key, val) ==
  LET room == _dictExpandIfNeeded(ht)
      found == dictFind(room, key)
  IN [table |-> [room.table EXCEPT ![Index(key, Size(room))] =
                   (@ \ found) \cup {[key |-> key, val |-> val]}],
      used |-> IF found = {} THEN room.used + 1 ELSE room.used]

dictDelete(ht, key) ==
  LET found == dictFind(ht, key)
  IN IF found = {} THEN ht
     ELSE [table |-> [ht.table EXCEPT ![Index(key, Size(ht))] = @ \ found],
           used |-> ht.used - 1]
===============================================================================
