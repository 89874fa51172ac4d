------------------------------ MODULE YCSBProofs ------------------------------
(***************************************************************************)
(* Proofs about YCSB for every number of clients, records and operations:  *)
(* when updates write whole records, memory and engine agree and reads see *)
(* persisted records only; and, however they write, every record is loaded *)
(* before the first transaction and no key is inserted twice.              *)
(***************************************************************************)
EXTENDS YCSB, FiniteSets, FiniteSetTheorems, TLAPS

(* The parts of TypeOK the argument needs.                                 *)
DBType ==
  /\ tables \in [Keys -> Record \cup {NoRecord}]
  /\ stored \in [Keys -> Tuple \cup {NoTuple}]
  /\ mutex \in Clients \cup {NoClient}
  /\ pc \in [Clients -> {"ready", "lock", "persist", "closing", "done", "thrown"}]
  /\ call \in [Clients -> [op : Ops, key : Keys, values : Record \cup {NoRecord}] \cup {NoCall}]
  /\ serial \in Nat
  /\ joined \in Nat /\ joined <= NumThreads

(* A client at its engine call holds the mutex, and the other way round.   *)
MutexInv ==
  /\ \A c \in Clients : mutex = c => pc[c] = "persist"
  /\ \A c \in Clients : pc[c] = "persist" /\ phase \in {"load", "run"} => mutex = c

(* main2 has waited for clients that are done.                             *)
JoinInv == \A c \in Clients : c <= joined => pc[c] = "done"

(* What a client is about to write, or writes, is a whole record.          *)
CallInv ==
  \A c \in Clients :
    /\ pc[c] = "lock" => call[c].op \in Ops
    /\ call[c].op \in {"UPDATE", "INSERT", "READMODIFYWRITE"} =>
         call[c].values \in [Fields -> 1 .. MaxSerial]

(* Inside the mutex, memory is ahead of the engine by one record at most,  *)
(* the one the holder has called the engine with.                          *)
AheadInv ==
  \A c \in Clients : mutex = c =>
    /\ call[c].key \in Keys /\ call[c].values \in Record
    /\ tables[call[c].key] = call[c].values
    /\ req = [key |-> call[c].key, values |-> call[c].values]
    /\ \A k \in Keys \ disputed : k # call[c].key => tables[k] = Persisted(k)

IInv == DBType /\ MutexInv /\ JoinInv /\ CallInv /\ AheadInv /\ Agreement

-------------------------------------------------------------------------------
(* A record with any of the fields is a record.                            *)
LEMMA WholeRecord ==
  ASSUME NEW v \in [Fields -> 1 .. MaxSerial]
  PROVE  v \in Record
<1>1. v \in UNION {[S -> 1 .. MaxSerial] : S \in SUBSET Fields}
  OBVIOUS
<1> QED
  BY <1>1, YCSBAssumption

(* Updating every field of a record leaves nothing of it.                  *)
LEMMA MergeWhole ==
  ASSUME NEW r \in Record, NEW v \in [Fields -> 1 .. MaxSerial]
  PROVE  Merge(r, v) = v
<1>1. PICK S \in SUBSET Fields : r \in [S -> 1 .. MaxSerial]
  BY YCSBAssumption
<1>2. DOMAIN r \cup DOMAIN v = DOMAIN v
  BY <1>1
<1> QED
  BY <1>2 DEF Merge

(* Constants.                                                              *)
LEMMA Bounds ==
  /\ NumThreads * MaxTx \in Nat
  /\ MaxSerial \in Nat
  /\ TransactionKeys \subseteq Keys
  /\ 0 \in Keys
<1>1. NumThreads \in Nat /\ MaxTx \in Nat /\ RecordCount \in Nat /\ InsertStart \in Nat
  BY YCSBAssumption, CoreWorkloadAssumption
<1> DEFINE p == NumThreads * MaxTx
<1>2. p \in Nat
  BY <1>1
<1>3. MaxSerial = RecordCount + p
  BY DEF MaxSerial
<1>4. Keys = 0 .. (InsertStart + MaxSerial)
  BY YCSBAssumption
<1> HIDE DEF p
<1>5. MaxSerial \in Nat /\ TransactionKeys \subseteq Keys /\ 0 \in Keys
  BY <1>1, <1>2, <1>3, <1>4 DEF TransactionKeys, LastInsertKey
<1> QED
  BY <1>2, <1>5 DEF p

(* No client has begun, and neither memory nor the engine has a record.    *)
LEMMA InitInv == Init => IInv
<1> SUFFICES ASSUME Init PROVE IInv
  OBVIOUS
<1> USE YCSBAssumption DEF Init, InitDB
<1>1. /\ tables = [k \in Keys |-> NoRecord] /\ mutex = NoClient
      /\ stored = [k \in Keys |-> NoTuple]
  BY DEF Engine!Init
<1>2. DBType
  BY <1>1 DEF DBType
<1>3. MutexInv /\ JoinInv /\ AheadInv
  BY <1>1 DEF MutexInv, JoinInv, AheadInv, Clients
<1>4. CallInv
  BY DEF CallInv, NoCall
<1>5. Agreement
  BY <1>1 DEF Agreement, Persisted
<1> QED
  BY <1>2, <1>3, <1>4, <1>5 DEF IInv

(* A step that leaves the database and the calls alone, and moves clients  *)
(* between points outside of it.                                           *)
LEMMA OutsideInv ==
  ASSUME IInv, DBType', JoinInv',
         UNCHANGED <<tables, mutex, stored, req, disputed>>,
         \A c \in Clients :
           /\ pc[c] = "persist" <=> pc'[c] = "persist"
           /\ pc'[c] = "lock" => call'[c].op \in Ops
           /\ pc'[c] = "persist" => call'[c] = call[c]
           /\ call'[c].op \in {"UPDATE", "INSERT", "READMODIFYWRITE"} =>
                call'[c].values \in [Fields -> 1 .. MaxSerial],
         phase' \in {"load", "run"} => phase \in {"load", "run"}
  PROVE  IInv'
<1> USE DEF IInv
<1>1. MutexInv'
  BY DEF MutexInv
<1>2. CallInv'
  BY DEF CallInv
<1>3. AheadInv'
  BY DEF AheadInv, MutexInv, Persisted
<1>4. Agreement'
  BY DEF Agreement, Persisted
<1> QED
  BY <1>1, <1>2, <1>3, <1>4

(* A client begins an operation on a key of the table.                     *)
LEMMA BeginInv ==
  ASSUME IInv, NEW c \in Clients, NEW op \in Ops, NEW k \in Keys,
         NEW v \in Record \cup {NoRecord},
         pc[c] = "ready", Begin(c, op, k, v),
         op \in {"UPDATE", "INSERT", "READMODIFYWRITE"} => v \in [Fields -> 1 .. MaxSerial]
  PROVE  IInv'
<1> USE DEF IInv
<1>1. /\ pc' = [pc EXCEPT ![c] = "lock"]
      /\ call' = [call EXCEPT ![c] = [op |-> op, key |-> k, values |-> v]]
      /\ serial' = serial + 1
      /\ UNCHANGED <<tables, mutex, stored, req, disputed, phase, joined>>
  BY DEF Begin, db
<1>2. DBType'
  BY <1>1 DEF DBType
<1>3. JoinInv'
  BY <1>1 DEF JoinInv, DBType
<1>4. \A d \in Clients :
        /\ pc[d] = "persist" <=> pc'[d] = "persist"
        /\ pc'[d] = "lock" => call'[d].op \in Ops
        /\ pc'[d] = "persist" => call'[d] = call[d]
        /\ call'[d].op \in {"UPDATE", "INSERT", "READMODIFYWRITE"} =>
             call'[d].values \in [Fields -> 1 .. MaxSerial]
  <2> SUFFICES ASSUME NEW d \in Clients
               PROVE  /\ pc[d] = "persist" <=> pc'[d] = "persist"
                      /\ pc'[d] = "lock" => call'[d].op \in Ops
                      /\ pc'[d] = "persist" => call'[d] = call[d]
                      /\ call'[d].op \in {"UPDATE", "INSERT", "READMODIFYWRITE"} =>
                           call'[d].values \in [Fields -> 1 .. MaxSerial]
    OBVIOUS
  <2>1. CASE d = c
    <3>1. pc'[d] = "lock" /\ call'[d] = [op |-> op, key |-> k, values |-> v]
      BY <1>1, <2>1 DEF DBType
    <3> QED
      BY <2>1, <3>1
  <2>2. CASE d # c
    <3>1. pc'[d] = pc[d] /\ call'[d] = call[d]
      BY <1>1, <2>2 DEF DBType
    <3> QED
      BY <3>1 DEF CallInv
  <2> QED
    BY <2>1, <2>2
<1> QED
  BY <1>1, <1>2, <1>3, <1>4, OutsideInv

(* The values an operation builds are a whole record.                      *)
LEMMA ValuesAreWhole ==
  ASSUME WriteAllFields, serial \in Nat, serial < MaxSerial
  PROVE  /\ BuildValues(serial + 1) \in [Fields -> 1 .. MaxSerial]
         /\ \A v \in UpdateValues(serial + 1) : v \in [Fields -> 1 .. MaxSerial]
BY Bounds DEF BuildValues, UpdateValues

(* A client goes from one point outside the database to another.           *)
LEMMA MoveInv ==
  ASSUME IInv, NEW c \in Clients, NEW p \in {"ready", "closing", "done", "thrown"},
         pc[c] \in {"ready", "lock", "closing"},
         pc' = [pc EXCEPT ![c] = p],
         call' \in {call, [call EXCEPT ![c] = NoCall]},
         UNCHANGED <<tables, mutex, stored, req, disputed, phase, joined, serial>>
  PROVE  IInv'
<1> USE DEF IInv
<1>1. DBType'
  BY DEF DBType
<1>2. JoinInv'
  BY DEF JoinInv, DBType
<1>3. \A d \in Clients :
        /\ pc[d] = "persist" <=> pc'[d] = "persist"
        /\ pc'[d] = "lock" => call'[d].op \in Ops
        /\ pc'[d] = "persist" => call'[d] = call[d]
        /\ call'[d].op \in {"UPDATE", "INSERT", "READMODIFYWRITE"} =>
             call'[d].values \in [Fields -> 1 .. MaxSerial]
  <2> SUFFICES ASSUME NEW d \in Clients
               PROVE  /\ pc[d] = "persist" <=> pc'[d] = "persist"
                      /\ pc'[d] = "lock" => call'[d].op \in Ops
                      /\ pc'[d] = "persist" => call'[d] = call[d]
                      /\ call'[d].op \in {"UPDATE", "INSERT", "READMODIFYWRITE"} =>
                           call'[d].values \in [Fields -> 1 .. MaxSerial]
    OBVIOUS
  <2>1. CASE d = c
    <3>1. pc'[d] = p /\ call'[d] \in {call[d], NoCall}
      BY <2>1 DEF DBType
    <3> QED
      BY <2>1, <3>1 DEF CallInv, NoCall
  <2>2. CASE d # c
    <3>1. pc'[d] = pc[d] /\ call'[d] = call[d]
      BY <2>2 DEF DBType
    <3> QED
      BY <3>1 DEF CallInv
  <2> QED
    BY <2>1, <2>2
<1> QED
  BY <1>1, <1>2, <1>3, OutsideInv

-------------------------------------------------------------------------------
(* The mutex is taken: one record goes ahead of the engine.                *)
LEMMA ChangeRecordInv ==
  ASSUME IInv, NEW c \in Clients, ChangeRecord(c)
  PROVE  IInv'
<1> USE DEF IInv
<1> DEFINE k == call[c].key
           v == call[c].values
<1>1. /\ pc[c] = "lock" /\ phase \in {"load", "run"} /\ mutex = NoClient /\ mutex' = c
      /\ call[c].op \in {"UPDATE", "INSERT"}
      /\ pc' = [pc EXCEPT ![c] = "persist"]
      /\ req' = [key |-> k, values |-> v]
      /\ UNCHANGED <<stored, disputed, phase, joined, call, serial>>
  BY DEF ChangeRecord, At, UpdateRecord, InsertRecord, Engine!Begin
<1>2. v \in [Fields -> 1 .. MaxSerial] /\ v \in Record
  BY <1>1, WholeRecord DEF CallInv
<1>3. k \in Keys
  BY <1>1 DEF DBType, NoCall
<1>4. tables' = [tables EXCEPT ![k] = v]
  <2>1. CASE At(c, "INSERT") /\ InsertRecord(c, k, v)
    BY <2>1 DEF InsertRecord
  <2>2. CASE At(c, "UPDATE") /\ UpdateRecord(c, k, v)
    <3>1. tables[k] \in Record
      BY <1>3, <2>2 DEF UpdateRecord, Found, DBType
    <3>2. Merge(tables[k], v) = v
      BY <1>2, <3>1, MergeWhole
    <3> QED
      BY <2>2, <3>2 DEF UpdateRecord
  <2> QED
    BY <2>1, <2>2 DEF ChangeRecord
<1> HIDE DEF v
<1>5. /\ \A d \in Clients : d # c => pc'[d] = pc[d]
      /\ pc'[c] = "persist"
      /\ tables'[k] = v
      /\ \A j \in Keys : j # k => tables'[j] = tables[j]
  BY <1>1, <1>3, <1>4 DEF DBType
<1>6. DBType'
  BY <1>1, <1>2, <1>4 DEF DBType
<1>7. NoClient \notin Clients
  BY YCSBAssumption
<1>8. MutexInv'
  BY <1>1, <1>5, <1>7 DEF MutexInv
<1>9. JoinInv'
  BY <1>1, <1>5 DEF JoinInv
<1>10. CallInv'
  BY <1>1, <1>5 DEF CallInv
<1>11. AheadInv'
  BY <1>1, <1>2, <1>3, <1>5 DEF AheadInv, Agreement, Persisted, v
<1>12. Agreement'
  BY <1>1, <1>7 DEF Agreement
<1> QED
  BY <1>6, <1>8, <1>9, <1>10, <1>11, <1>12

(* The engine has taken the record: memory is no longer ahead.             *)
LEMMA PersistSucceedsInv ==
  ASSUME IInv, NEW c \in Clients, PersistSucceeds(c)
  PROVE  IInv'
<1> USE DEF IInv
<1> DEFINE k == call[c].key
           v == call[c].values
           t == [key |-> k, values |-> v]
<1>1. /\ pc[c] = "persist" /\ phase \in {"load", "run"} /\ mutex = c /\ mutex' = NoClient
      /\ stored' = [stored EXCEPT ![req.key] = req]
      /\ disputed' = disputed \ {k}
      /\ pc' = [pc EXCEPT ![c] = "ready"]
      /\ call' = [call EXCEPT ![c] = NoCall]
      /\ UNCHANGED <<tables, phase, joined, serial>>
  BY DEF PersistSucceeds, AtEngine, Persist, Engine!Succeed, Return
<1>2. k \in Keys /\ v \in Record /\ tables[k] = v /\ req = t /\ req.key = k
  BY <1>1 DEF AheadInv
<1>3. t \in Tuple /\ t # NoTuple /\ t.values = v
  BY <1>2, YCSBAssumption DEF Tuple
<1> HIDE DEF t, v
<1>4. /\ \A d \in Clients : d # c => pc'[d] = pc[d] /\ call'[d] = call[d]
      /\ pc'[c] = "ready" /\ call'[c] = NoCall
      /\ stored'[k] = t
      /\ \A j \in Keys : j # k => stored'[j] = stored[j]
  <2>1. stored' = [stored EXCEPT ![k] = t]
    BY <1>1, <1>2
  <2>2. /\ \A d \in Clients : d # c => pc'[d] = pc[d] /\ call'[d] = call[d]
        /\ pc'[c] = "ready" /\ call'[c] = NoCall
    BY <1>1 DEF DBType
  <2>3. stored'[k] = t /\ \A j \in Keys : j # k => stored'[j] = stored[j]
    BY <1>2, <2>1 DEF DBType
  <2> QED
    BY <2>2, <2>3
<1>5. DBType'
  <2>1. stored' \in [Keys -> Tuple \cup {NoTuple}]
    BY <1>1, <1>2, <1>3 DEF DBType
  <2> QED
    BY <1>1, <2>1 DEF DBType
<1>6. NoClient \notin Clients
  BY YCSBAssumption
<1>7. MutexInv'
  BY <1>1, <1>4, <1>6 DEF MutexInv
<1>8. JoinInv'
  BY <1>1, <1>4 DEF JoinInv
<1>9. CallInv'
  BY <1>1, <1>4 DEF CallInv, NoCall
<1>10. AheadInv'
  BY <1>1, <1>6 DEF AheadInv
<1>11. Agreement'
  <2> SUFFICES ASSUME NEW j \in Keys, j \notin disputed'
               PROVE  tables'[j] = Persisted(j)'
    BY DEF Agreement
  <2>1. CASE j = k
    BY <1>1, <1>2, <1>3, <1>4, <2>1 DEF Persisted
  <2>2. CASE j # k
    BY <1>1, <1>4, <2>2 DEF Persisted, AheadInv
  <2> QED
    BY <2>1, <2>2
<1> QED
  BY <1>5, <1>7, <1>8, <1>9, <1>10, <1>11

(* The engine has not: the record is disputed, and the mutex free again.   *)
LEMMA PersistFailsInv ==
  ASSUME IInv, NEW c \in Clients, AtEngine(c), PersistFails(c, call[c].key),
         NEW p \in {"ready", "thrown", "persist"},
         pc' = [pc EXCEPT ![c] = p],
         call' \in {call, [call EXCEPT ![c] = NoCall]},
         p = "persist" => phase' = "aborted",
         phase' \in {phase, "aborted"},
         UNCHANGED <<joined, serial>>
  PROVE  IInv'
<1> USE DEF IInv
<1> DEFINE k == call[c].key
<1>1. /\ pc[c] = "persist" /\ phase \in {"load", "run"} /\ mutex = c /\ mutex' = NoClient
      /\ disputed' = disputed \cup {k}
      /\ UNCHANGED <<tables, stored>>
  BY DEF AtEngine, PersistFails, Engine!Fail
<1>2. /\ \A d \in Clients : d # c => pc'[d] = pc[d] /\ call'[d] = call[d]
      /\ pc'[c] = p /\ call'[c] \in {call[c], NoCall}
  BY DEF DBType
<1>3. DBType'
  BY <1>1 DEF DBType
<1>4. NoClient \notin Clients
  BY YCSBAssumption
<1>5. MutexInv'
  BY <1>1, <1>2, <1>4 DEF MutexInv
<1>6. JoinInv'
  BY <1>1, <1>2 DEF JoinInv
<1>7. CallInv'
  BY <1>1, <1>2 DEF CallInv, NoCall
<1>8. AheadInv'
  BY <1>1, <1>4 DEF AheadInv
<1>9. Agreement'
  BY <1>1 DEF Agreement, Persisted, AheadInv
<1> QED
  BY <1>3, <1>5, <1>6, <1>7, <1>8, <1>9

-------------------------------------------------------------------------------
(* The steps that begin an operation.                                      *)
LEMMA BeginsInv ==
  ASSUME WriteAllFields, IInv, NEW c \in Clients, DoInsert(c) \/ DoTransaction(c)
  PROVE  IInv'
<1>1. pc[c] = "ready"
  BY DEF DoInsert, DoTransaction
<1>2. PICK op \in Ops, k \in Keys, v \in UpdateValues(serial + 1)
                                       \cup {BuildValues(serial + 1), NoRecord} :
        /\ Begin(c, op, k, v)
        /\ op \in {"UPDATE", "INSERT", "READMODIFYWRITE"} =>
             v \in UpdateValues(serial + 1) \cup {BuildValues(serial + 1)}
  BY Bounds, CoreWorkloadAssumption DEF DoInsert, DoTransaction, Ops
<1>3. serial \in Nat /\ serial < MaxSerial
  BY <1>2 DEF Begin, IInv, DBType
<1>4. \A w \in UpdateValues(serial + 1) \cup {BuildValues(serial + 1)} :
        w \in [Fields -> 1 .. MaxSerial] /\ w \in Record
  BY <1>3, ValuesAreWhole, WholeRecord
<1>5. v \in Record \cup {NoRecord}
  BY <1>4
<1>6. op \in {"UPDATE", "INSERT", "READMODIFYWRITE"} => v \in [Fields -> 1 .. MaxSerial]
  BY <1>2, <1>4
<1> QED
  BY <1>1, <1>2, <1>5, <1>6, BeginInv

(* The read of a read-modify-write: the update is next, with its values.   *)
LEMMA ReadModifyWriteInv ==
  ASSUME IInv, NEW c \in Clients, TransactionReadModifyWrite(c)
  PROVE  IInv'
<1> USE DEF IInv
<1>1. /\ pc[c] = "lock" /\ call[c].op = "READMODIFYWRITE"
      /\ call' = [call EXCEPT ![c].op = "UPDATE"]
      /\ UNCHANGED <<tables, mutex, stored, req, disputed, phase, joined, pc, serial>>
  BY DEF TransactionReadModifyWrite, At, Read, db
<1>2. /\ call[c] \in [op : Ops, key : Keys, values : Record \cup {NoRecord}]
      /\ call[c].values \in [Fields -> 1 .. MaxSerial]
  BY <1>1 DEF DBType, NoCall, CallInv
<1>3. /\ \A d \in Clients : d # c => call'[d] = call[d]
      /\ call'[c] = [call[c] EXCEPT !.op = "UPDATE"]
  BY <1>1 DEF DBType
<1>4. /\ call'[c] \in [op : Ops, key : Keys, values : Record \cup {NoRecord}]
      /\ call'[c].op \in Ops /\ call'[c].values = call[c].values
  BY <1>2, <1>3 DEF Ops
<1>5. DBType'
  <2>1. call' = [d \in Clients |-> call'[d]]
    BY <1>1 DEF DBType
  <2>2. call' \in [Clients -> [op : Ops, key : Keys, values : Record \cup {NoRecord}] \cup {NoCall}]
    BY <1>3, <1>4, <2>1 DEF DBType
  <2> QED
    BY <1>1, <2>2 DEF DBType
<1>6. JoinInv'
  BY <1>1 DEF JoinInv
<1>7. \A d \in Clients :
        /\ pc[d] = "persist" <=> pc'[d] = "persist"
        /\ pc'[d] = "lock" => call'[d].op \in Ops
        /\ pc'[d] = "persist" => call'[d] = call[d]
        /\ call'[d].op \in {"UPDATE", "INSERT", "READMODIFYWRITE"} =>
             call'[d].values \in [Fields -> 1 .. MaxSerial]
  BY <1>1, <1>2, <1>3, <1>4 DEF CallInv
<1> QED
  BY <1>1, <1>5, <1>6, <1>7, OutsideInv

(* A step in which no client moves: of main2, of a sampling thread, an     *)
(* assertion that fails.                                                   *)
LEMMA StillInv ==
  ASSUME IInv, UNCHANGED <<tables, mutex, stored, req, disputed, pc, call, serial>>,
         phase' \in {"load", "run"} => phase \in {"load", "run"},
         joined' \in Nat, joined' <= NumThreads, JoinInv'
  PROVE  IInv'
<1> USE DEF IInv
<1>1. DBType'
  BY DEF DBType
<1>2. \A c \in Clients :
        /\ pc[c] = "persist" <=> pc'[c] = "persist"
        /\ pc'[c] = "lock" => call'[c].op \in Ops
        /\ pc'[c] = "persist" => call'[c] = call[c]
        /\ call'[c].op \in {"UPDATE", "INSERT", "READMODIFYWRITE"} =>
             call'[c].values \in [Fields -> 1 .. MaxSerial]
  BY DEF CallInv
<1> QED
  BY <1>1, <1>2, OutsideInv

(* The second phase starts: every client of the first one is done.         *)
LEMMA StartTransactionsInv ==
  ASSUME IInv, StartTransactions
  PROVE  IInv'
<1> USE DEF IInv
<1>1. /\ phase = "load" /\ joined = NumThreads /\ joined' = 0
      /\ pc' = [c \in Clients |-> "ready"]
      /\ UNCHANGED <<tables, mutex, stored, req, disputed, call, serial>>
  BY DEF StartTransactions, db
<1>2. \A c \in Clients : pc[c] = "done"
  BY <1>1, YCSBAssumption DEF JoinInv, Clients
<1>3. DBType'
  BY <1>1, YCSBAssumption DEF DBType
<1>4. JoinInv'
  BY <1>1 DEF JoinInv, Clients
<1> QED
  BY <1>1, <1>2, <1>3, <1>4, OutsideInv DEF CallInv

(* Any step of the driver and its clients.                                 *)
LEMMA StepInv ==
  ASSUME WriteAllFields, IInv, [Next]_vars
  PROVE  IInv'
<1>0. joined \in Nat /\ joined <= NumThreads /\ NumThreads \in Nat /\ JoinInv
  BY YCSBAssumption DEF IInv, DBType
<1>1. ASSUME NEW c \in Clients, DelegateClient(c)
      PROVE  IInv'
  <2>1. CASE DoInsert(c) \/ DoTransaction(c)
    BY <2>1, BeginsInv
  <2>2. CASE TransactionRead(c) \/ UpdateMissing(c)
    BY <2>2, MoveInv DEF TransactionRead, UpdateMissing, At, Read, UpdateNoData, db, Return
  <2>3. CASE TransactionReadModifyWrite(c)
    BY <2>3, ReadModifyWriteInv
  <2>4. CASE TransactionScan(c)
    <3>1. CASE Return(c) /\ UNCHANGED phase
      BY <2>4, <3>1, MoveInv DEF TransactionScan, At, Scan, db, Return
    <3>2. CASE phase' = "aborted" /\ UNCHANGED <<pc, call>>
      <4>1. JoinInv'
        BY <1>0, <2>4, <3>2 DEF TransactionScan, JoinInv
      <4> QED
        BY <1>0, <2>4, <3>2, <4>1, StillInv DEF TransactionScan, Scan, db
    <3> QED
      BY <2>4, <3>1, <3>2 DEF TransactionScan
  <2>5. CASE ChangeRecord(c)
    BY <2>5, ChangeRecordInv
  <2>6. CASE PersistSucceeds(c)
    BY <2>6, PersistSucceedsInv
  <2>7. CASE PersistReportsFail(c)
    BY <2>7, PersistFailsInv DEF PersistReportsFail, Return
  <2>8. CASE PersistThrows(c)
    <3>1. CASE phase = "load"
      BY <2>8, <3>1, PersistFailsInv DEF PersistThrows
    <3>2. CASE phase # "load"
      <4>1. pc' = [pc EXCEPT ![c] = "persist"]
        BY <2>8, <3>2 DEF PersistThrows, AtEngine, IInv, DBType
      <4> QED
        BY <2>8, <3>2, <4>1, PersistFailsInv DEF PersistThrows
    <3> QED
      BY <3>1, <3>2
  <2>9. CASE LoadingEnds(c) \/ TimeIsUp(c) \/ JoinSampler(c)
    BY <2>9, MoveInv DEF LoadingEnds, TimeIsUp, JoinSampler, db
  <2> QED
    BY <1>1, <2>1, <2>2, <2>3, <2>4, <2>5, <2>6, <2>7, <2>8, <2>9 DEF DelegateClient
<1>2. ASSUME NEW c \in Clients, SamplerEnds(c)
      PROVE  IInv'
  <2>1. JoinInv'
    BY <1>0, <1>2 DEF SamplerEnds, JoinInv, client
  <2> QED
    BY <1>0, <1>2, <2>1, StillInv DEF SamplerEnds, db, client
<1>3. CASE GetFuture
  <2>1. joined' \in Nat /\ joined' <= NumThreads
    BY <1>0, <1>3 DEF GetFuture
  <2>2. JoinInv'
    BY <1>0, <1>3 DEF GetFuture, JoinInv, Clients, client
  <2> QED
    BY <1>3, <2>1, <2>2, StillInv DEF GetFuture, db, client
<1>4. CASE GetThrows \/ Finish
  <2>1. JoinInv'
    BY <1>0, <1>4 DEF GetThrows, Finish, JoinInv, client
  <2> QED
    BY <1>0, <1>4, <2>1, StillInv DEF GetThrows, Finish, db, client
<1>5. CASE StartTransactions
  BY <1>5, StartTransactionsInv
<1>6. CASE UNCHANGED vars
  <2>1. JoinInv'
    BY <1>0, <1>6 DEF vars, JoinInv, client
  <2> QED
    BY <1>0, <1>6, <2>1, StillInv DEF vars, db, client
<1> QED
  BY <1>1, <1>2, <1>3, <1>4, <1>5, <1>6 DEF Next, Main

(* The inductive invariant, at all times.                                  *)
LEMMA InvHolds ==
  ASSUME WriteAllFields
  PROVE  Spec => []IInv
<1>1. IInv /\ [Next]_vars => IInv'
  BY StepInv
<1> QED
  BY <1>1, InitInv, PTL DEF Spec

-------------------------------------------------------------------------------
(* With writeallfields=true, for every number of clients, records, fields, *)
(* transactions and failing engine calls: whenever the mutex of NVMDB is   *)
(* free, the engine has each record as memory has it, but for those whose  *)
(* last engine call failed.                                                *)
THEOREM AgreementHolds ==
  ASSUME WriteAllFields
  PROVE  Spec => []Agreement
<1>1. IInv => Agreement
  BY DEF IInv
<1> QED
  BY <1>1, InvHolds, PTL

(* Only the two transactions that read change a call that is about to.     *)
LEMMA ReadersWait ==
  ASSUME IInv, [Next]_vars, NEW c \in Clients, Reads(c)
  PROVE  mutex = NoClient
<1> USE DEF IInv
<1>1. pc[c] = "lock" /\ call[c].op \in {"READ", "READMODIFYWRITE"} /\ call'[c] # call[c]
  BY DEF Reads, At
<1>2. ASSUME NEW d \in Clients, DelegateClient(d), d # c
      PROVE  FALSE
  <2>1. call'[c] = call[c]
    <3>1. CASE \E r : call' = [call EXCEPT ![d] = r]
      BY <1>2, <3>1 DEF DBType
    <3>2. CASE UNCHANGED call
      BY <3>2
    <3>3. CASE TransactionReadModifyWrite(d)
      BY <1>2, <3>3 DEF TransactionReadModifyWrite, DBType
    <3> QED
      BY <1>2, <3>1, <3>2, <3>3 DEF DelegateClient, DoInsert, DoTransaction, Begin, TransactionRead,
         TransactionScan, UpdateMissing, ChangeRecord, PersistSucceeds, PersistReportsFail,
         PersistThrows, LoadingEnds, TimeIsUp, JoinSampler, Return
  <2> QED
    BY <1>1, <2>1
<1>3. ASSUME DelegateClient(c)
      PROVE  mutex = NoClient
  <2>1. TransactionRead(c) \/ TransactionReadModifyWrite(c)
    BY <1>1, <1>3 DEF DelegateClient, DoInsert, DoTransaction, TransactionScan, UpdateMissing,
       ChangeRecord, PersistSucceeds, PersistReportsFail, PersistThrows, At, AtEngine,
       LoadingEnds, TimeIsUp, JoinSampler
  <2> QED
    BY <2>1 DEF TransactionRead, TransactionReadModifyWrite, Read
<1>4. ASSUME UNCHANGED call
      PROVE  FALSE
  BY <1>1, <1>4
<1>5. (\E d \in Clients : SamplerEnds(d)) \/ Main \/ UNCHANGED vars => UNCHANGED call
  BY DEF SamplerEnds, Main, GetFuture, GetThrows, StartTransactions, Finish, vars, client
<1> QED
  BY <1>2, <1>3, <1>4, <1>5 DEF Next

(* With writeallfields=true no read sees a record that the engine has not  *)
(* got, unless the engine refused it: Read takes the same mutex as the     *)
(* change of memory and the engine call together.                          *)
THEOREM ReadsArePersisted ==
  ASSUME WriteAllFields
  PROVE  Spec => ReadsPersisted
<1> DEFINE Step == \A c \in Clients :
                     LET k == call[c].key
                     IN  Reads(c) /\ Found(k) /\ k \notin disputed
                           => /\ Persisted(k) # NoRecord
                              /\ ReadResult(k, ReadFields) = FilterByFields(Persisted(k), ReadFields)
<1>1. IInv /\ [Next]_vars => [Step]_vars
  <2> SUFFICES ASSUME IInv, [Next]_vars, NEW c \in Clients,
                      Reads(c), Found(call[c].key), call[c].key \notin disputed
               PROVE  /\ Persisted(call[c].key) # NoRecord
                      /\ ReadResult(call[c].key, ReadFields)
                           = FilterByFields(Persisted(call[c].key), ReadFields)
    OBVIOUS
  <2>1. mutex = NoClient
    BY ReadersWait
  <2>2. call[c].key \in Keys
    BY Bounds DEF IInv, DBType, NoCall
  <2>3. tables[call[c].key] = Persisted(call[c].key)
    BY <2>1, <2>2 DEF IInv, Agreement
  <2> QED
    BY <2>3 DEF Found, ReadResult
<1>2. Spec => [][Step]_vars
  BY <1>1, InvHolds, PTL DEF Spec
<1> QED
  BY <1>2 DEF ReadsPersisted

-------------------------------------------------------------------------------
(* The keys of the insertions, and what is loaded when the transactions    *)
(* start.  None of this depends on how much of a record an update writes.  *)

(* What a client is about to hand to the database is a record.             *)
WriteInv ==
  \A c \in Clients :
    /\ pc[c] = "lock" => call[c].op \in Ops
    /\ pc[c] = "persist" => call[c].op \in {"UPDATE", "INSERT"}
    /\ call[c].op \in {"UPDATE", "INSERT", "READMODIFYWRITE"} => call[c].values \in Record

(* Client c has drawn a key and not yet inserted it.                       *)
Inserting(c) == pc[c] = "lock" /\ call[c].op = "INSERT"

(* A key is there, is on its way to the table with one client, or has not  *)
(* been drawn.                                                             *)
FreshInv ==
  /\ InsertStart <= counter /\ counter <= InsertStart + serial
  /\ \A k \in Keys : k >= counter => ~Found(k)
  /\ \A c \in Clients : Inserting(c) => call[c].key < counter /\ ~Found(call[c].key)
  /\ \A c, d \in Clients : Inserting(c) /\ Inserting(d) /\ c # d => call[c].key # call[d].key

DrawnInv ==
  \A k \in InsertStart .. (counter - 1) :
    Found(k) \/ \E c \in Clients : Inserting(c) /\ call[c].key = k

(* The insertions begun: the i-th last one of client c is <<c, i>>.        *)
Drawn == {x \in Clients \X (1 .. NumOps) : x[2] > left[x[1]]}

(* While loading, the counter counts them.                                 *)
LoadInv ==
  phase = "load" =>
    /\ \A c \in Clients : pc[c] = "done" => left[c] = 0
    /\ counter = InsertStart + Cardinality(Drawn)

LInv == TypeOK /\ WriteInv /\ JoinInv /\ FreshInv /\ DrawnInv /\ LoadInv /\ LoadedBeforeRun

(* What the clients are to load, RecordCount makes room for.               *)
LEMMA Share ==
  ASSUME NEW n \in Nat, NEW m \in Nat \ {0}
  PROVE  n \div m \in Nat /\ m * (n \div m) <= n
OBVIOUS

(* Constants.                                                              *)
LEMMA LoadBounds ==
  /\ NumThreads \in Nat \ {0} /\ NumOps \in Nat /\ InsertStart \in Nat
  /\ MaxTx \in Nat /\ MaxFaults \in Nat /\ MaxSerial \in Nat
  /\ Keys = 0 .. (InsertStart + MaxSerial)
  /\ NumThreads * NumOps \in Nat /\ NumThreads * NumOps <= MaxSerial
  /\ NoRecord \notin Record /\ NoTuple \notin Tuple /\ NoClient \notin Clients
  /\ IsFiniteSet(Clients \X (1 .. NumOps))
  /\ Cardinality(Clients \X (1 .. NumOps)) = NumThreads * NumOps
<1>1. NumThreads \in Nat \ {0} /\ RecordCount \in Nat /\ InsertStart \in Nat
  BY YCSBAssumption, CoreWorkloadAssumption
<1>2. NumOps \in Nat
  BY <1>1 DEF NumOps
<1>3. IsFiniteSet(Clients) /\ Cardinality(Clients) = NumThreads
  BY <1>1, FS_Interval DEF Clients
<1>4. IsFiniteSet(1 .. NumOps) /\ Cardinality(1 .. NumOps) = NumOps
  BY <1>2, FS_Interval
<1>5. NumThreads * NumOps \in Nat /\ NumThreads * NumOps <= RecordCount
  BY <1>1, <1>2, Share DEF NumOps
<1>6. RecordCount <= MaxSerial
  BY <1>1, Bounds DEF MaxSerial
<1> DEFINE p == NumThreads * NumOps
<1>7. IsFiniteSet(Clients \X (1 .. NumOps)) /\ Cardinality(Clients \X (1 .. NumOps)) = p
  BY <1>3, <1>4, FS_Product
<1>8. p \in Nat /\ p <= RecordCount
  BY <1>5
<1> HIDE DEF p
<1>9. p <= MaxSerial /\ MaxSerial \in Nat
  BY <1>1, <1>6, <1>8, Bounds
<1>10. MaxTx \in Nat /\ MaxFaults \in Nat /\ Keys = 0 .. (InsertStart + MaxSerial)
       /\ NoRecord \notin Record /\ NoTuple \notin Tuple /\ NoClient \notin Clients
  BY YCSBAssumption
<1> QED
  BY <1>1, <1>2, <1>7, <1>8, <1>9, <1>10 DEF p

(* A record with other fields put in it is a record.                       *)
LEMMA MergeRecord ==
  ASSUME NEW r \in Record, NEW v \in Record
  PROVE  Merge(r, v) \in Record
<1>1. PICK S \in SUBSET Fields : r \in [S -> 1 .. MaxSerial]
  BY YCSBAssumption
<1>2. PICK T \in SUBSET Fields : v \in [T -> 1 .. MaxSerial]
  BY YCSBAssumption
<1>3. Merge(r, v) \in [S \cup T -> 1 .. MaxSerial]
  BY <1>1, <1>2 DEF Merge
<1>4. S \cup T \in SUBSET Fields
  OBVIOUS
<1> QED
  BY <1>3, <1>4, YCSBAssumption

(* The values an operation builds.                                         *)
LEMMA ValuesAreRecords ==
  ASSUME serial \in Nat, serial < MaxSerial
  PROVE  /\ BuildValues(serial + 1) \in Record
         /\ UpdateValues(serial + 1) \subseteq Record
<1>1. serial + 1 \in 1 .. MaxSerial
  BY Bounds
<1>2. BuildValues(serial + 1) \in [Fields -> 1 .. MaxSerial]
  BY <1>1 DEF BuildValues
<1>3. ASSUME NEW v \in BuildUpdate(serial + 1)
      PROVE  v \in Record
  <2>1. PICK g \in Fields : v = [f \in {g} |-> serial + 1]
    BY <1>3 DEF BuildUpdate
  <2>2. v \in [{g} -> 1 .. MaxSerial] /\ {g} \in SUBSET Fields
    BY <1>1, <2>1
  <2> QED
    BY <2>2, YCSBAssumption
<1>4. BuildValues(serial + 1) \in Record
  BY <1>2, WholeRecord
<1> QED
  BY <1>3, <1>4 DEF UpdateValues

(* Nothing is loaded, nothing drawn.                                       *)
LEMMA InitLoad == Init => LInv
<1> SUFFICES ASSUME Init PROVE LInv
  OBVIOUS
<1> USE LoadBounds DEF Init, InitDB
<1>1. /\ tables = [k \in Keys |-> NoRecord] /\ mutex = NoClient
      /\ stored = [k \in Keys |-> NoTuple] /\ req = NoTuple /\ counter = InsertStart
  BY DEF Engine!Init, InitKeyGenerator
<1>2. TypeOK
  BY <1>1 DEF TypeOK
<1>3. WriteInv /\ JoinInv
  BY DEF WriteInv, JoinInv, NoCall, Clients
<1>4. FreshInv
  BY <1>1 DEF FreshInv, Inserting, Found
<1>5. DrawnInv
  BY <1>1 DEF DrawnInv
<1>6. Drawn = {}
  BY DEF Drawn
<1>7. LoadInv
  BY <1>1, <1>6, FS_EmptySet DEF LoadInv
<1>8. LoadedBeforeRun
  BY DEF LoadedBeforeRun
<1> QED
  BY <1>2, <1>3, <1>4, <1>5, <1>7, <1>8 DEF LInv

-------------------------------------------------------------------------------
(* An insertion on its way is one of a key of the table.                   *)
LEMMA InsertingKey ==
  ASSUME TypeOK, NEW c \in Clients, Inserting(c)
  PROVE  call[c].key \in Keys
<1>1. call[c] \in [op : Ops, key : Keys, values : Record \cup {NoRecord}]
  BY DEF Inserting, TypeOK, NoCall
<1> QED
  BY <1>1

(* A step in which no key is drawn and no record made: the insertions on   *)
(* their way stay as they are.                                             *)
LEMMA QuietLoad ==
  ASSUME LInv, TypeOK', WriteInv', JoinInv',
         \A k \in Keys : Found(k)' <=> Found(k),
         UNCHANGED <<counter, left>>, serial <= serial',
         \A c \in Clients : /\ Inserting(c)' <=> Inserting(c)
                            /\ Inserting(c) => call'[c] = call[c],
         phase' = "load" => phase = "load" /\ \A c \in Clients : pc'[c] = "done" => left[c] = 0,
         phase' = "run" => phase = "run"
  PROVE  LInv'
<1>0. TypeOK
  BY DEF LInv
<1>1. \A c \in Clients : Inserting(c) => call[c].key \in Keys
  BY <1>0, InsertingKey
<1> USE LoadBounds DEF LInv
<1>2. FreshInv'
  <2>0. serial \in Nat /\ serial' \in Nat /\ counter \in Nat
    BY DEF TypeOK
  <2>1. counter <= InsertStart + serial /\ counter' = counter /\ InsertStart \in Nat
    BY DEF FreshInv
  <2>4. counter' <= InsertStart + serial'
    <3>1. ASSUME NEW a \in Nat, NEW b \in Nat, a <= b, counter <= InsertStart + a
          PROVE  counter <= InsertStart + b
      BY <2>0, <2>1, <3>1
    <3>2. serial <= serial'
      OBVIOUS
    <3> QED
      BY <2>0, <2>1, <3>1, <3>2, Zenon
  <2>5. \A k \in Keys : k >= counter' => ~Found(k)'
    BY DEF FreshInv
  <2>2. \A c \in Clients : Inserting(c)' => call'[c].key < counter' /\ tables'[call'[c].key] = NoRecord
    BY <1>1 DEF FreshInv, Found
  <2>3. \A c, d \in Clients : Inserting(c)' /\ Inserting(d)' /\ c # d => call'[c].key # call'[d].key
    BY DEF FreshInv
  <2> QED
    BY <2>2, <2>3, <2>4, <2>5 DEF FreshInv, Found
<1>3. counter <= InsertStart + MaxSerial
  <2>1. serial \in 0 .. MaxSerial /\ counter \in Nat
    BY DEF TypeOK
  <2>2. counter <= InsertStart + serial /\ InsertStart \in Nat /\ MaxSerial \in Nat
    BY DEF FreshInv
  <2> QED
    BY ONLY <2>1, <2>2
<1>4. InsertStart .. (counter - 1) \subseteq Keys
  <2>1. counter \in Nat
    BY DEF TypeOK
  <2>2. InsertStart \in Nat /\ MaxSerial \in Nat /\ Keys = 0 .. (InsertStart + MaxSerial)
    OBVIOUS
  <2> QED
    BY ONLY <1>3, <2>1, <2>2
<1>5. DrawnInv'
  BY <1>4 DEF DrawnInv
<1>6. Drawn' = Drawn
  BY DEF Drawn
<1>7. LoadInv'
  BY <1>6 DEF LoadInv
<1>8. LoadedBeforeRun'
  <2> SUFFICES ASSUME phase' = "run",
                      NEW k \in InsertStart .. (InsertStart + NumThreads * NumOps - 1)
               PROVE  Found(k)'
    BY DEF LoadedBeforeRun
  <2>1. Found(k)
    BY DEF LoadedBeforeRun
  <2>2. k \in Keys
    OBVIOUS
  <2> QED
    BY <2>1, <2>2
<1> QED
  BY <1>2, <1>5, <1>7, <1>8

(* What a client begins is one of the operations, on a key of the table.   *)
LEMMA TypeBegin ==
  ASSUME LInv, NEW c \in Clients, DoInsert(c) \/ DoTransaction(c)
  PROVE  TypeOK'
<1> USE LoadBounds DEF LInv
<1>1. serial \in Nat /\ serial < MaxSerial
  BY DEF DoInsert, DoTransaction, Begin, TypeOK
<1>2. PICK op \in Ops, k \in Keys, v \in Record \cup {NoRecord} : Begin(c, op, k, v)
  BY <1>1, ValuesAreRecords, Bounds, CoreWorkloadAssumption DEF DoInsert, DoTransaction, Ops
<1>3. counter' \in Nat
  BY DEF DoInsert, DoTransaction, NextSequenceKey, TypeOK
<1>4. left' \in [Clients -> 0 .. NumOps] /\ tx' \in [Clients -> 0 .. MaxTx]
  <2>1. CASE DoInsert(c)
    BY <2>1 DEF DoInsert, TypeOK
  <2>2. CASE DoTransaction(c)
    <3>1. left' = left /\ tx[c] < MaxTx /\ tx' = [tx EXCEPT ![c] = @ + 1]
      BY <2>2 DEF DoTransaction
    <3> QED
      BY <3>1 DEF TypeOK
  <2> QED
    BY <2>1, <2>2
<1>5. /\ pc' = [pc EXCEPT ![c] = "lock"]
      /\ call' = [call EXCEPT ![c] = [op |-> op, key |-> k, values |-> v]]
      /\ serial' = serial + 1
      /\ UNCHANGED <<tables, mutex, stored, req, disputed, phase, joined, sampler, faults>>
  BY <1>2 DEF Begin, db
<1>6. call' \in [Clients -> [op : Ops, key : Keys, values : Record \cup {NoRecord}] \cup {NoCall}]
  BY <1>5 DEF TypeOK
<1> QED
  BY <1>1, <1>3, <1>4, <1>5, <1>6 DEF TypeOK

(* Steps that change the table or the engine.                              *)
LEMMA TypeChange ==
  ASSUME LInv, NEW c \in Clients,
         ChangeRecord(c) \/ PersistSucceeds(c) \/ PersistReportsFail(c) \/ PersistThrows(c)
  PROVE  TypeOK'
<1> USE LoadBounds DEF LInv
<1> DEFINE k == call[c].key
           v == call[c].values
<1>1. k \in Keys /\ v \in Record
  <2>1. call[c].op \in {"UPDATE", "INSERT"}
    BY DEF ChangeRecord, PersistSucceeds, PersistReportsFail, PersistThrows, At, AtEngine, WriteInv
  <2> QED
    BY <2>1 DEF TypeOK, WriteInv, NoCall
<1> HIDE DEF k, v
<1>2. CASE ChangeRecord(c)
  <2>1. tables' \in [Keys -> Record \cup {NoRecord}]
    <3>1. CASE At(c, "INSERT") /\ InsertRecord(c, k, v)
      BY <1>1, <3>1 DEF InsertRecord, TypeOK
    <3>2. CASE At(c, "UPDATE") /\ UpdateRecord(c, k, v)
      <4>1. Merge(tables[k], v) \in Record
        BY <1>1, <3>2, MergeRecord DEF UpdateRecord, Found, TypeOK
      <4> QED
        BY <1>1, <3>2, <4>1 DEF UpdateRecord, TypeOK
    <3> QED
      BY <1>2, <3>1, <3>2 DEF ChangeRecord, k, v
  <2>2. /\ mutex' = c /\ pc' = [pc EXCEPT ![c] = "persist"]
        /\ req' = [key |-> k, values |-> v]
        /\ UNCHANGED <<stored, disputed, counter, phase, joined, left, tx, call, sampler, serial, faults>>
    BY <1>2 DEF ChangeRecord, UpdateRecord, InsertRecord, Engine!Begin, k, v
  <2>3. req' \in Tuple
    BY <1>1, <2>2 DEF Tuple
  <2> QED
    BY <2>1, <2>2, <2>3 DEF TypeOK
<1>3. CASE PersistSucceeds(c)
  <2>1. req \in Tuple /\ req.key \in Keys
    BY <1>3 DEF PersistSucceeds, Persist, Engine!Succeed, TypeOK, Tuple
  <2>2. stored' = [stored EXCEPT ![req.key] = req] /\ req' = NoTuple
    BY <1>3 DEF PersistSucceeds, Persist, Engine!Succeed
  <2>3. stored' \in [Keys -> Tuple \cup {NoTuple}]
    BY <2>1, <2>2 DEF TypeOK
  <2>4. /\ mutex' = NoClient /\ pc' = [pc EXCEPT ![c] = "ready"] /\ call' = [call EXCEPT ![c] = NoCall]
        /\ disputed' = disputed \ {k}
        /\ UNCHANGED <<tables, counter, phase, joined, left, tx, sampler, serial, faults>>
    BY <1>3 DEF PersistSucceeds, Persist, Return, k
  <2> QED
    BY <2>2, <2>3, <2>4 DEF TypeOK
<1>4. CASE PersistReportsFail(c) \/ PersistThrows(c)
  <2>1. /\ mutex' = NoClient /\ disputed' = disputed \cup {k}
        /\ pc' \in {pc, [pc EXCEPT ![c] = "ready"], [pc EXCEPT ![c] = "thrown"]}
        /\ call' \in {call, [call EXCEPT ![c] = NoCall]}
        /\ phase' \in {phase, "aborted"}
        /\ faults < MaxFaults /\ faults' = faults + 1
        /\ req' = NoTuple
        /\ UNCHANGED <<tables, stored, counter, joined, left, tx, sampler, serial>>
    BY <1>4 DEF PersistReportsFail, PersistThrows, PersistFails, Engine!Fail, Return, k
  <2>2. pc' \in [Clients -> {"ready", "lock", "persist", "closing", "done", "thrown"}]
    BY <2>1 DEF TypeOK
  <2>3. call' \in [Clients -> [op : Ops, key : Keys, values : Record \cup {NoRecord}] \cup {NoCall}]
    BY <2>1 DEF TypeOK
  <2>4. disputed' \in SUBSET Keys /\ faults' \in 0 .. MaxFaults
    BY <1>1, <2>1 DEF TypeOK
  <2> QED
    BY <2>1, <2>2, <2>3, <2>4 DEF TypeOK
<1> QED
  BY <1>2, <1>3, <1>4

(* A client that has no insertion on its way goes to another point; the    *)
(* process may abort.                                                      *)
LEMMA MoveLoad ==
  ASSUME LInv, TypeOK', NEW c \in Clients,
         NEW p \in {"ready", "persist", "closing", "done", "thrown"},
         pc[c] # "done", ~Inserting(c),
         p = "persist" => pc[c] = "persist",
         p = "done" /\ phase = "load" => left[c] = 0,
         pc' = [pc EXCEPT ![c] = p],
         call' \in {call, [call EXCEPT ![c] = NoCall]},
         p = "persist" => call' = call,
         phase' \in {phase, "aborted"},
         UNCHANGED <<tables, counter, joined, left, serial>>
  PROVE  LInv'
<1> USE DEF LInv
<1>1. /\ \A d \in Clients : d # c => pc'[d] = pc[d] /\ call'[d] = call[d]
      /\ pc'[c] = p /\ call'[c] \in {call[c], NoCall}
      /\ p = "persist" => call'[c] = call[c]
  BY DEF TypeOK
<1>2. WriteInv'
  BY <1>1 DEF WriteInv, NoCall
<1>3. JoinInv'
  BY <1>1 DEF JoinInv
<1>4. \A d \in Clients : /\ Inserting(d)' <=> Inserting(d)
                         /\ Inserting(d) => call'[d] = call[d]
  BY <1>1 DEF Inserting
<1>5. \A k \in Keys : Found(k)' <=> Found(k)
  BY DEF Found
<1>6. phase' = "load" => phase = "load" /\ \A d \in Clients : pc'[d] = "done" => left[d] = 0
  BY <1>1 DEF LoadInv
<1>7. serial <= serial'
  BY DEF TypeOK
<1> QED
  BY <1>2, <1>3, <1>4, <1>5, <1>6, <1>7, QuietLoad

(* A step in which no client moves.                                        *)
LEMMA StillLoad ==
  ASSUME LInv, TypeOK', JoinInv', phase' \in {phase, "aborted", "done"},
         UNCHANGED <<tables, counter, left, serial, pc, call>>
  PROVE  LInv'
<1> USE DEF LInv
<1>1. WriteInv'
  BY DEF WriteInv
<1>2. \A d \in Clients : /\ Inserting(d)' <=> Inserting(d)
                         /\ Inserting(d) => call'[d] = call[d]
  BY DEF Inserting
<1>3. \A k \in Keys : Found(k)' <=> Found(k)
  BY DEF Found
<1>4. phase' = "load" => phase = "load" /\ \A d \in Clients : pc'[d] = "done" => left[d] = 0
  BY DEF LoadInv
<1>5. serial <= serial'
  BY DEF TypeOK
<1> QED
  BY <1>1, <1>2, <1>3, <1>4, <1>5, QuietLoad

(* The read of a read-modify-write.                                        *)
LEMMA ReadModifyWriteLoad ==
  ASSUME LInv, NEW c \in Clients, TransactionReadModifyWrite(c)
  PROVE  LInv'
<1> USE DEF LInv
<1>1. /\ pc[c] = "lock" /\ call[c].op = "READMODIFYWRITE"
      /\ call' = [call EXCEPT ![c].op = "UPDATE"]
      /\ UNCHANGED <<tables, mutex, stored, req, disputed, counter, phase, joined, pc, left, tx, sampler, serial, faults>>
  BY DEF TransactionReadModifyWrite, At, Read, db
<1>2. call[c] \in [op : Ops, key : Keys, values : Record \cup {NoRecord}]
  BY <1>1 DEF TypeOK, NoCall
<1>3. /\ \A d \in Clients : d # c => call'[d] = call[d]
      /\ call'[c] = [call[c] EXCEPT !.op = "UPDATE"]
  BY <1>1 DEF TypeOK
<1>4. /\ call'[c] \in [op : Ops, key : Keys, values : Record \cup {NoRecord}]
      /\ call'[c].op = "UPDATE" /\ call'[c].values = call[c].values
  BY <1>2, <1>3 DEF Ops
<1>5. TypeOK'
  <2>1. call' = [d \in Clients |-> call'[d]]
    BY <1>1 DEF TypeOK
  <2>2. call' \in [Clients -> [op : Ops, key : Keys, values : Record \cup {NoRecord}] \cup {NoCall}]
    BY <1>3, <1>4, <2>1 DEF TypeOK
  <2> QED
    BY <1>1, <2>2 DEF TypeOK
<1>6. WriteInv'
  BY <1>1, <1>3, <1>4 DEF WriteInv, Ops
<1>7. JoinInv'
  BY <1>1 DEF JoinInv
<1>8. \A d \in Clients : /\ Inserting(d)' <=> Inserting(d)
                         /\ Inserting(d) => call'[d] = call[d]
  BY <1>1, <1>3, <1>4 DEF Inserting
<1>9. \A k \in Keys : Found(k)' <=> Found(k)
  BY <1>1 DEF Found
<1>10. phase' = "load" => phase = "load" /\ \A d \in Clients : pc'[d] = "done" => left[d] = 0
  BY <1>1 DEF LoadInv
<1>11. serial <= serial'
  BY <1>1 DEF TypeOK
<1> QED
  BY <1>1, <1>5, <1>6, <1>7, <1>8, <1>9, <1>10, <1>11, QuietLoad

(* A transaction begins that is not an insertion.                          *)
LEMMA BeginLoad ==
  ASSUME LInv, TypeOK', NEW c \in Clients, NEW op \in Ops, op # "INSERT",
         NEW k, NEW v, pc[c] = "ready", Begin(c, op, k, v), op \in {"UPDATE", "READMODIFYWRITE"} => v \in Record,
         UNCHANGED <<counter, left>>
  PROVE  LInv'
<1> USE DEF LInv
<1>1. /\ pc' = [pc EXCEPT ![c] = "lock"]
      /\ call' = [call EXCEPT ![c] = [op |-> op, key |-> k, values |-> v]]
      /\ serial' = serial + 1
      /\ UNCHANGED <<tables, phase, joined>>
  BY DEF Begin, db
<1>2. /\ \A d \in Clients : d # c => pc'[d] = pc[d] /\ call'[d] = call[d]
      /\ pc'[c] = "lock" /\ call'[c].op = op /\ call'[c].values = v
  BY <1>1 DEF TypeOK
<1>3. WriteInv'
  BY <1>2 DEF WriteInv
<1>4. JoinInv'
  BY <1>1, <1>2 DEF JoinInv
<1>5. \A d \in Clients : /\ Inserting(d)' <=> Inserting(d)
                         /\ Inserting(d) => call'[d] = call[d]
  BY <1>2 DEF Inserting
<1>6. \A j \in Keys : Found(j)' <=> Found(j)
  BY <1>1 DEF Found
<1>7. phase' = "load" => phase = "load" /\ \A d \in Clients : pc'[d] = "done" => left[d] = 0
  BY <1>1, <1>2 DEF LoadInv
<1>8. serial <= serial'
  BY <1>1 DEF TypeOK
<1> QED
  BY <1>1, <1>3, <1>4, <1>5, <1>6, <1>7, <1>8, QuietLoad

(* One more insertion of client c.                                         *)
LEMMA DrawnGrows ==
  ASSUME left \in [Clients -> 0 .. NumOps], NEW c \in Clients, left[c] > 0,
         left' = [left EXCEPT ![c] = @ - 1]
  PROVE  Cardinality(Drawn') = Cardinality(Drawn) + 1 /\ Cardinality(Drawn) \in Nat
<1> DEFINE x == <<c, left[c]>>
<1>1. NumOps \in Nat /\ left[c] \in 1 .. NumOps
  BY LoadBounds
<1>2. x \notin Drawn
  BY <1>1 DEF Drawn
<1>3. Drawn' = Drawn \cup {x}
  <2>1. /\ left'[c] = left[c] - 1
        /\ \A d \in Clients : d # c => left'[d] = left[d]
    OBVIOUS
  <2>2. ASSUME NEW d \in Clients, NEW i \in 1 .. NumOps
        PROVE  i > left'[d] <=> i > left[d] \/ <<d, i>> = x
    <3>1. CASE d = c
      BY <1>1, <2>1, <3>1
    <3>2. CASE d # c
      BY <2>1, <3>2
    <3> QED
      BY <3>1, <3>2
  <2> HIDE DEF x
  <2>3. x \in Clients \X (1 .. NumOps)
    BY <1>1 DEF x
  <2>4. \A y \in Clients \X (1 .. NumOps) : y[2] > left'[y[1]] <=> y[2] > left[y[1]] \/ y = x
    BY <2>2
  <2> QED
    BY <2>3, <2>4 DEF Drawn
<1>4. IsFiniteSet(Drawn)
  BY LoadBounds, FS_Subset DEF Drawn
<1> HIDE DEF x
<1> QED
  BY <1>2, <1>3, <1>4, FS_AddElement, FS_CardinalityType

(* A client draws a key: nobody has it, nobody will.                       *)
LEMMA DrawLoad ==
  ASSUME LInv, TypeOK', NEW c \in Clients, NEW k \in Keys, pc[c] = "ready",
         NextSequenceKey(k), Begin(c, "INSERT", k, BuildValues(serial + 1)),
         phase = "load" => left[c] > 0 /\ left' = [left EXCEPT ![c] = @ - 1]
  PROVE  LInv'
<1> USE LoadBounds DEF LInv
<1>1. /\ pc' = [pc EXCEPT ![c] = "lock"]
      /\ call' = [call EXCEPT ![c] = [op |-> "INSERT", key |-> k, values |-> BuildValues(serial + 1)]]
      /\ serial < MaxSerial /\ serial' = serial + 1
      /\ k = counter /\ counter' = counter + 1
      /\ UNCHANGED <<tables, phase, joined>>
  BY DEF Begin, db, NextSequenceKey
<1>2. /\ \A d \in Clients : d # c => pc'[d] = pc[d] /\ call'[d] = call[d]
      /\ pc'[c] = "lock" /\ call'[c].op = "INSERT" /\ call'[c].key = k
      /\ call'[c].values = BuildValues(serial + 1)
  BY <1>1 DEF TypeOK
<1>3. serial \in Nat /\ counter \in Nat
  BY DEF TypeOK
<1>4. WriteInv'
  BY <1>1, <1>2, <1>3, ValuesAreRecords DEF WriteInv, Ops
<1>5. JoinInv'
  BY <1>1, <1>2 DEF JoinInv
<1>6. /\ Inserting(c)' /\ ~Inserting(c)
      /\ \A d \in Clients : d # c => (Inserting(d)' <=> Inserting(d)) /\ call'[d] = call[d]
  BY <1>2 DEF Inserting
<1>7. \A d \in Clients : Inserting(d) => call[d].key \in Keys /\ call[d].key < counter
  BY InsertingKey DEF FreshInv
<1>8. \A j \in Keys : Found(j)' <=> Found(j)
  BY <1>1 DEF Found
<1>9. FreshInv'
  <2>1. /\ InsertStart <= counter' /\ counter' <= InsertStart + serial'
        /\ \A j \in Keys : j >= counter' => ~Found(j)'
    BY <1>1, <1>3, <1>8 DEF FreshInv
  <2>2. \A d \in Clients : Inserting(d)' => call'[d].key < counter' /\ tables'[call'[d].key] = NoRecord
    BY <1>1, <1>2, <1>3, <1>6, <1>7 DEF FreshInv, Found
  <2>3. \A d, e \in Clients : Inserting(d)' /\ Inserting(e)' /\ d # e => call'[d].key # call'[e].key
    BY <1>1, <1>2, <1>3, <1>6, <1>7 DEF FreshInv
  <2> QED
    BY <2>1, <2>2, <2>3 DEF FreshInv, Found
<1>10. DrawnInv'
  <2> SUFFICES ASSUME NEW j \in InsertStart .. counter
               PROVE  Found(j)' \/ \E d \in Clients : Inserting(d)' /\ call'[d].key = j
    BY <1>1, <1>3 DEF DrawnInv
  <2>1. CASE j = k
    BY <1>2, <1>6, <2>1
  <2>2. CASE j # k
    BY <1>1, <1>3, <1>6, <2>2 DEF DrawnInv, Found
  <2> QED
    BY <2>1, <2>2
<1>11. LoadInv'
  <2> SUFFICES ASSUME phase = "load"
               PROVE  /\ \A d \in Clients : pc'[d] = "done" => left'[d] = 0
                      /\ counter' = InsertStart + Cardinality(Drawn')
    BY <1>1 DEF LoadInv
  <2>1. \A d \in Clients : d # c => left'[d] = left[d]
    BY DEF TypeOK
  <2>2. Cardinality(Drawn') = Cardinality(Drawn) + 1 /\ Cardinality(Drawn) \in Nat
    BY DrawnGrows DEF TypeOK
  <2> QED
    BY <1>1, <1>2, <2>1, <2>2 DEF LoadInv
<1>12. LoadedBeforeRun'
  BY <1>1 DEF LoadedBeforeRun, Found
<1> QED
  BY <1>4, <1>5, <1>9, <1>10, <1>11, <1>12

(* The record of a client's call is changed or made: no other key is       *)
(* found that was not, and none is lost.                                   *)
LEMMA ChangeLoad ==
  ASSUME LInv, TypeOK', NEW c \in Clients, ChangeRecord(c)
  PROVE  LInv'
<1> USE LoadBounds DEF LInv
<1>0. PICK k : k = call[c].key
  OBVIOUS
<1>1. /\ pc[c] = "lock" /\ call[c].op \in {"UPDATE", "INSERT"}
      /\ pc' = [pc EXCEPT ![c] = "persist"]
      /\ UNCHANGED <<counter, phase, joined, left, call, serial>>
  BY DEF ChangeRecord, At
<1>2. k \in Keys /\ call[c].values \in Record
  BY <1>0, <1>1 DEF TypeOK, NoCall, WriteInv
<1>3. /\ \A j \in Keys : j # k => (Found(j)' <=> Found(j))
      /\ Found(k)'
      /\ call[c].op = "UPDATE" => Found(k)
  <2>1. PICK r \in Record : tables' = [tables EXCEPT ![k] = r]
    <3>1. CASE InsertRecord(c, k, call[c].values)
      BY <1>2, <3>1 DEF InsertRecord
    <3>2. CASE UpdateRecord(c, k, call[c].values)
      <4>1. tables[k] \in Record
        BY <1>2, <3>2 DEF UpdateRecord, Found, TypeOK
      <4> QED
        BY <1>2, <3>2, <4>1, MergeRecord DEF UpdateRecord
    <3> QED
      BY <1>0, <3>1, <3>2 DEF ChangeRecord
  <2>2. tables'[k] = r /\ \A j \in Keys : j # k => tables'[j] = tables[j]
    BY <1>2, <2>1 DEF TypeOK
  <2>3. call[c].op = "UPDATE" => Found(k)
    BY <1>0 DEF ChangeRecord, At, UpdateRecord
  <2> QED
    BY <2>2, <2>3 DEF Found
<1>4. /\ \A d \in Clients : d # c => pc'[d] = pc[d]
      /\ pc'[c] = "persist"
  BY <1>1 DEF TypeOK
<1>5. WriteInv'
  BY <1>1, <1>4 DEF WriteInv
<1>6. JoinInv'
  BY <1>1, <1>4 DEF JoinInv
<1>7. /\ ~Inserting(c)'
      /\ \A d \in Clients : d # c => (Inserting(d)' <=> Inserting(d))
      /\ call[c].op = "INSERT" => Inserting(c)
  BY <1>1, <1>4 DEF Inserting
<1>8. \A d \in Clients : Inserting(d) => call[d].key \in Keys
  BY InsertingKey
<1>9. \A d \in Clients : d # c /\ Inserting(d) => call[d].key # k
  BY <1>0, <1>1, <1>3, <1>7 DEF FreshInv
<1>10. serial \in Nat /\ serial <= MaxSerial /\ counter \in Nat
  BY DEF TypeOK
<1>11. InsertStart .. (counter - 1) \subseteq Keys
  BY <1>10 DEF FreshInv
<1>12. k < counter
  BY <1>0, <1>1, <1>2, <1>3, <1>7, <1>10 DEF FreshInv
<1>13. FreshInv'
  <2>1. \A j \in Keys : j >= counter' => ~Found(j)'
    BY <1>1, <1>3, <1>10, <1>12 DEF FreshInv
  <2>2. \A d \in Clients : Inserting(d)' => call[d].key < counter /\ tables'[call[d].key] = NoRecord
    BY <1>3, <1>7, <1>8, <1>9 DEF FreshInv, Found
  <2>3. \A d, e \in Clients : Inserting(d)' /\ Inserting(e)' /\ d # e => call[d].key # call[e].key
    BY <1>7 DEF FreshInv
  <2> QED
    BY <1>1, <2>1, <2>2, <2>3 DEF FreshInv, Found
<1>14. DrawnInv'
  <2> SUFFICES ASSUME NEW j \in InsertStart .. (counter - 1)
               PROVE  Found(j)' \/ \E d \in Clients : Inserting(d)' /\ call[d].key = j
    BY <1>1 DEF DrawnInv
  <2>1. CASE j = k
    BY <1>3, <2>1
  <2>2. CASE j # k
    BY <1>0, <1>3, <1>7, <1>11, <2>2 DEF DrawnInv
  <2> QED
    BY <2>1, <2>2
<1>15. LoadInv'
  <2>1. Drawn' = Drawn
    BY <1>1 DEF Drawn
  <2> QED
    BY <1>1, <1>4, <2>1 DEF LoadInv
<1>16. LoadedBeforeRun'
  <2> SUFFICES ASSUME phase = "run",
                      NEW j \in InsertStart .. (InsertStart + NumThreads * NumOps - 1)
               PROVE  Found(j)'
    BY <1>1 DEF LoadedBeforeRun
  <2>1. j \in Keys
    OBVIOUS
  <2> QED
    <3>1. Found(j)
      BY DEF LoadedBeforeRun
    <3> QED
      BY <1>3, <2>1, <3>1
<1> QED
  BY <1>5, <1>6, <1>13, <1>14, <1>15, <1>16

(* Every client is done: each has begun all its insertions and none is on  *)
(* its way, so what was drawn is there, and it is all there was to load.   *)
LEMMA StartLoad ==
  ASSUME LInv, StartTransactions
  PROVE  LInv'
<1> USE LoadBounds DEF LInv
<1>1. /\ phase = "load" /\ phase' = "run" /\ joined = NumThreads /\ joined' = 0
      /\ pc' = [c \in Clients |-> "ready"] /\ sampler' = Clients
      /\ UNCHANGED <<tables, mutex, stored, req, disputed, counter, left, tx, call, serial, faults>>
  BY DEF StartTransactions, db
<1>2. \A c \in Clients : pc[c] = "done" /\ left[c] = 0
  BY <1>1 DEF JoinInv, LoadInv, Clients
<1>3. TypeOK'
  BY <1>1 DEF TypeOK
<1>4. WriteInv'
  BY <1>1 DEF WriteInv
<1>5. JoinInv'
  BY <1>1 DEF JoinInv, Clients
<1>6. \A c \in Clients : ~Inserting(c) /\ ~Inserting(c)'
  BY <1>1, <1>2 DEF Inserting
<1>7. FreshInv'
  BY <1>1, <1>6 DEF FreshInv, Found
<1>8. \A k \in InsertStart .. (counter - 1) : Found(k)
  BY <1>6 DEF DrawnInv
<1>9. DrawnInv'
  BY <1>1, <1>8 DEF DrawnInv, Found
<1>10. LoadInv'
  BY <1>1 DEF LoadInv
<1>11. Drawn = Clients \X (1 .. NumOps)
  BY <1>2 DEF Drawn
<1>12. counter = InsertStart + NumThreads * NumOps
  BY <1>1, <1>11 DEF LoadInv
<1>13. LoadedBeforeRun'
  BY <1>1, <1>8, <1>12 DEF LoadedBeforeRun, Found
<1> QED
  BY <1>3, <1>4, <1>5, <1>7, <1>9, <1>10, <1>13

(* A step of a client.                                                     *)
LEMMA ClientLoad ==
  ASSUME LInv, NEW c \in Clients, DelegateClient(c)
  PROVE  LInv'
<1> USE DEF LInv
<1>1. CASE DoInsert(c)
  BY <1>1, TypeBegin, DrawLoad DEF DoInsert
<1>2. CASE DoTransaction(c)
  <2>1. TypeOK' /\ pc[c] = "ready" /\ left' = left /\ phase = "run"
    BY <1>2, TypeBegin DEF DoTransaction
  <2>2. serial \in Nat
    BY DEF TypeOK
  <2>3. CASE \E k \in Keys : NextSequenceKey(k) /\ Begin(c, "INSERT", k, BuildValues(serial + 1))
    BY <2>1, <2>3, DrawLoad
  <2>4. CASE /\ \E op \in Operations \cap {"UPDATE", "READMODIFYWRITE"},
                  k \in TransactionKeys, v \in UpdateValues(serial + 1) : Begin(c, op, k, v)
             /\ UNCHANGED counter
    <3>1. PICK op \in {"UPDATE", "READMODIFYWRITE"}, k \in TransactionKeys,
               v \in UpdateValues(serial + 1) : Begin(c, op, k, v)
      BY <2>4
    <3>2. v \in Record
      BY <2>2, <3>1, ValuesAreRecords DEF Begin
    <3> QED
      BY <2>1, <2>4, <3>1, <3>2, BeginLoad DEF Ops
  <2>5. CASE /\ \E op \in Operations \cap {"READ", "SCAN"}, k \in TransactionKeys :
                  Begin(c, op, k, NoRecord)
             /\ UNCHANGED counter
    BY <2>1, <2>5, BeginLoad DEF Ops
  <2> QED
    BY <1>2, <2>3, <2>4, <2>5 DEF DoTransaction
<1>3. CASE TransactionRead(c) \/ UpdateMissing(c) \/ (TransactionScan(c) /\ Return(c) /\ UNCHANGED phase)
  <2>1. /\ pc[c] = "lock" /\ call[c].op # "INSERT"
        /\ pc' = [pc EXCEPT ![c] = "ready"] /\ call' = [call EXCEPT ![c] = NoCall]
        /\ UNCHANGED <<tables, mutex, stored, req, disputed, counter, phase, joined, left, tx, sampler, serial, faults>>
    BY <1>3 DEF TransactionRead, UpdateMissing, TransactionScan, At, Read, Scan, UpdateNoData, db, Return
  <2>2. TypeOK'
    BY <2>1 DEF TypeOK
  <2> QED
    BY <2>1, <2>2, MoveLoad DEF Inserting
<1>4. CASE TransactionReadModifyWrite(c)
  BY <1>4, ReadModifyWriteLoad
<1>5. CASE TransactionScan(c) /\ phase' = "aborted" /\ UNCHANGED <<pc, call>>
  <2>1. UNCHANGED <<tables, mutex, stored, req, disputed, counter, joined, left, tx, sampler, serial, faults>>
    BY <1>5 DEF TransactionScan, Scan, db
  <2>2. TypeOK'
    BY <1>5, <2>1 DEF TypeOK
  <2>3. JoinInv'
    BY <1>5, <2>1 DEF JoinInv
  <2> QED
    BY <1>5, <2>1, <2>2, <2>3, StillLoad
<1>6. CASE ChangeRecord(c)
  BY <1>6, TypeChange, ChangeLoad
<1>7. CASE PersistSucceeds(c) \/ PersistReportsFail(c)
  <2>1. /\ pc[c] = "persist" /\ pc' = [pc EXCEPT ![c] = "ready"] /\ call' = [call EXCEPT ![c] = NoCall]
        /\ UNCHANGED <<tables, counter, phase, joined, left, serial>>
    BY <1>7 DEF PersistSucceeds, PersistReportsFail, AtEngine, Persist, PersistFails, Return
  <2> QED
    BY <1>7, <2>1, TypeChange, MoveLoad DEF Inserting
<1>8. CASE PersistThrows(c)
  <2>1. /\ pc[c] = "persist" /\ call' = call
        /\ UNCHANGED <<tables, counter, joined, left, serial>>
    BY <1>8 DEF PersistThrows, AtEngine, PersistFails
  <2>2. PICK p \in {"persist", "thrown"} : pc' = [pc EXCEPT ![c] = p] /\ phase' \in {phase, "aborted"}
    BY <1>8, <2>1 DEF PersistThrows, TypeOK
  <2> QED
    BY <1>8, <2>1, <2>2, TypeChange, MoveLoad DEF Inserting
<1>9. CASE LoadingEnds(c) \/ TimeIsUp(c) \/ JoinSampler(c)
  <2>1. PICK p \in {"closing", "done"} :
          /\ pc[c] \in {"ready", "closing"} /\ pc' = [pc EXCEPT ![c] = p]
          /\ p = "done" /\ phase = "load" => left[c] = 0
    BY <1>9 DEF LoadingEnds, TimeIsUp, JoinSampler
  <2>2. UNCHANGED <<tables, mutex, stored, req, disputed, counter, phase, joined, left, tx, call, sampler, serial, faults>>
    BY <1>9 DEF LoadingEnds, TimeIsUp, JoinSampler, db
  <2>3. TypeOK'
    BY <2>1, <2>2 DEF TypeOK
  <2> QED
    BY <2>1, <2>2, <2>3, MoveLoad DEF Inserting
<1>10. TransactionScan(c) => (Return(c) /\ UNCHANGED phase) \/ (phase' = "aborted" /\ UNCHANGED <<pc, call>>)
  BY DEF TransactionScan
<1> QED
  BY <1>1, <1>2, <1>3, <1>4, <1>5, <1>6, <1>7, <1>8, <1>9, <1>10 DEF DelegateClient

(* Any step of the driver and its clients.                                 *)
LEMMA StepLoad ==
  ASSUME LInv, [Next]_vars
  PROVE  LInv'
<1> USE DEF LInv
<1>1. CASE \E c \in Clients : DelegateClient(c)
  BY <1>1, ClientLoad
<1>2. CASE \E c \in Clients : SamplerEnds(c)
  <2>1. /\ sampler' \subseteq sampler
        /\ UNCHANGED <<tables, mutex, stored, req, disputed, counter, phase, joined, pc, call, left, tx, serial, faults>>
    BY <1>2 DEF SamplerEnds, db, client
  <2>2. TypeOK'
    BY <2>1 DEF TypeOK
  <2>3. JoinInv'
    BY <2>1 DEF JoinInv
  <2> QED
    BY <2>1, <2>2, <2>3, StillLoad
<1>3. CASE GetFuture \/ GetThrows \/ Finish \/ UNCHANGED vars
  <2>1. /\ UNCHANGED <<tables, mutex, stored, req, disputed, counter, pc, call, left, tx, sampler, serial, faults>>
        /\ phase' \in {phase, "aborted", "done"}
        /\ \/ joined' = joined
           \/ joined < NumThreads /\ joined' = joined + 1 /\ pc[joined + 1] = "done"
    BY <1>3 DEF GetFuture, GetThrows, Finish, vars, db, client
  <2>2. TypeOK'
    BY <2>1, LoadBounds DEF TypeOK
  <2>3. joined \in Nat /\ Clients \subseteq Nat
    BY DEF TypeOK, Clients
  <2>4. JoinInv'
    BY <2>1, <2>3 DEF JoinInv
  <2> QED
    BY <2>1, <2>2, <2>4, StillLoad
<1>4. CASE StartTransactions
  BY <1>4, StartLoad
<1> QED
  BY <1>1, <1>2, <1>3, <1>4 DEF Next, Main

(* For every number of clients and records, and whatever fails: LInv holds *)
(* at all times.                                                           *)
LEMMA LoadInvHolds == Spec => []LInv
<1>1. LInv /\ [Next]_vars => LInv'
  BY StepLoad
<1> QED
  BY <1>1, InitLoad, PTL DEF Spec

(* Every variable of the driver keeps its type.                            *)
THEOREM TypeCorrect == Spec => []TypeOK
<1>1. LInv => TypeOK
  BY DEF LInv
<1> QED
  BY <1>1, LoadInvHolds, PTL

(* When the transactions start, and from then on, every record that the    *)
(* clients were to load is in the table: each client begins its share of   *)
(* the insertions (client.h), the counter hands a key to each of them, and *)
(* main2 waits for all clients.                                            *)
THEOREM LoadingIsComplete == Spec => []LoadedBeforeRun
<1>1. LInv => LoadedBeforeRun
  BY DEF LInv
<1> QED
  BY <1>1, LoadInvHolds, PTL

(* No insertion, while loading or of a transaction, replaces a record.     *)
THEOREM InsertsAreFresh == Spec => InsertIsFresh
<1> DEFINE Step == \A c \in Clients :
                     call[c].op = "INSERT" /\ mutex # c /\ mutex' = c => ~Found(call[c].key)
<1>1. LInv /\ [Next]_vars => [Step]_vars
  <2> SUFFICES ASSUME LInv, [Next]_vars, NEW c \in Clients,
                      call[c].op = "INSERT", mutex # c, mutex' = c
               PROVE  ~Found(call[c].key)
    OBVIOUS
  <2>1. c # NoClient
    BY LoadBounds
  <2>2. Inserting(c)
    <3>1. PICK d \in Clients : DelegateClient(d)
      BY DEF Next, Main, SamplerEnds, GetFuture, GetThrows, StartTransactions, Finish, vars, db
    <3>2. ChangeRecord(d)
      BY <2>1, <3>1 DEF DelegateClient, DoInsert, DoTransaction, Begin, TransactionRead,
         TransactionReadModifyWrite, TransactionScan, UpdateMissing, PersistSucceeds,
         PersistReportsFail, PersistThrows, LoadingEnds, TimeIsUp, JoinSampler,
         Read, Scan, UpdateNoData, Persist, PersistFails, db
    <3>3. mutex' = d /\ pc[d] = "lock"
      BY <3>2 DEF ChangeRecord, At, UpdateRecord, InsertRecord
    <3> QED
      BY <3>3 DEF Inserting
  <2> QED
    BY <2>2 DEF LInv, FreshInv
<1>2. Spec => [][Step]_vars
  BY <1>1, LoadInvHolds, PTL DEF Spec
<1> QED
  BY <1>2 DEF InsertIsFresh
===============================================================================
