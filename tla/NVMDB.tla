-------------------------------- MODULE NVMDB --------------------------------
(***************************************************************************)
(* The database of db/nvmdb.cc: the records in memory, one mutex, and the  *)
(* recovery engine every change is handed to.  The engine is the durable   *)
(* map DurableStore that the three engines are checked against; a call of  *)
(* it may also report kFail or throw, and then the map does not change.    *)
(*                                                                         *)
(* A read is one step, taken when nobody holds the mutex.  A change is     *)
(* two: the mutex is taken, the record in memory changed and the engine    *)
(* called; then the engine returns and the mutex is released.  There is    *)
(* one table.                                                              *)
(***************************************************************************)
EXTENDS Naturals

CONSTANTS
  Keys,      \* keys of the table
  Record,    \* lists of field/value pairs, as functions
  NoClient,  \* nobody holds the mutex
  NoRecord,  \* the table has no such key
  NoTuple    \* the engine has no tuple for the key

(* What PersistUpdate makes of a key and its field/value pairs.            *)
Tuple == [key : Keys, values : Record]

VARIABLES
  tables,    \* tables_: the records in memory
  mutex,     \* who holds mutex_
  stored,    \* what the recovery engine has
  req,       \* the tuple of the engine's call under way
  disputed   \* history: keys whose last engine call did not succeed

db == <<tables, mutex, stored, req, disputed>>

Engine == INSTANCE DurableStore

InitDB ==
  /\ tables = [k \in Keys |-> NoRecord]
  /\ mutex = NoClient
  /\ Engine!Init
  /\ disputed = {}

(* FindByTableKey.                                                         *)
Found(k) == tables[k] # NoRecord

(* FilterByFields.                                                         *)
FilterByFields(r, fields) == [f \in DOMAIN r \cap fields |-> r[f]]

(* Mutant: no lock_guard in Read.                                          *)
BugRead == UNCHANGED db

(* Read.                                                                   *)
Read == mutex = NoClient /\ UNCHANGED db

ReadStatus(k) == IF Found(k) THEN "kOK" ELSE "kErrorNoData"
ReadResult(k, fields) == IF Found(k) THEN FilterByFields(tables[k], fields) ELSE NoRecord

(* Scan changes nothing either.  It has no return statement for a key it   *)
(* finds: the caller gets any integer.                                     *)
Scan == mutex = NoClient /\ UNCHANGED db

ScanStatus(k) ==
  IF Found(k) THEN {"kOK", "kErrorNoData", "negative"} ELSE {"kErrorNoData"}

(* The values given replace those of the same fields; others are added.    *)
(* The engine gets the values given.                                       *)
Merge(r, values) ==
  [f \in DOMAIN r \cup DOMAIN values |-> IF f \in DOMAIN values THEN values[f] ELSE r[f]]

UpdateNoData(k) ==
  /\ mutex = NoClient
  /\ ~Found(k)
  /\ UNCHANGED db

UpdateRecord(c, k, values) ==
  /\ mutex = NoClient
  /\ Found(k)
  /\ mutex' = c
  /\ tables' = [tables EXCEPT ![k] = Merge(@, values)]
  /\ Engine!Begin([key |-> k, values |-> values])
  /\ UNCHANGED disputed

(* tables_[table][key] = values; PersistUpdate(key, values)                *)
InsertRecord(c, k, values) ==
  /\ mutex = NoClient
  /\ mutex' = c
  /\ tables' = [tables EXCEPT ![k] = values]
  /\ Engine!Begin([key |-> k, values |-> values])
  /\ UNCHANGED disputed

(* Mutant: kSuccess is reported before the engine has the tuple.           *)
BugPersist(c, k) ==
  /\ mutex = c
  /\ mutex' = NoClient
  /\ Engine!Fail
  /\ disputed' = disputed \ {k}
  /\ UNCHANGED tables

(* PersistUpdate returns kSuccess.                                         *)
Persist(c, k) ==
  /\ mutex = c
  /\ mutex' = NoClient
  /\ Engine!Succeed
  /\ disputed' = disputed \ {k}
  /\ UNCHANGED tables

(* Mutant: the mutex is released by hand, which an exception skips.        *)
BugPersistFails(c, k) ==
  /\ mutex = c
  /\ Engine!Fail
  /\ disputed' = disputed \cup {k}
  /\ UNCHANGED <<tables, mutex>>

(* PersistUpdate returns kFail or throws; lock_guard releases the mutex    *)
(* either way, and the record in memory stays changed.                     *)
PersistFails(c, k) ==
  /\ mutex = c
  /\ mutex' = NoClient
  /\ Engine!Fail
  /\ disputed' = disputed \cup {k}
  /\ UNCHANGED tables

(* The record the engine's tuple for key k holds.                          *)
Persisted(k) == IF stored[k] = NoTuple THEN NoRecord ELSE stored[k].values
===============================================================================
