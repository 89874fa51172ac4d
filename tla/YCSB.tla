--------------------------------- MODULE YCSB ---------------------------------
(***************************************************************************)
(* The benchmark driver (ycsbc.cc) and its clients (core/client.h), on a   *)
(* CoreWorkload and an NVMDB.  main2 starts NumThreads clients that load   *)
(* the records, waits for all of them, starts NumThreads clients that run  *)
(* transactions until their time is up, and waits again.  Each client of   *)
(* the second kind has a sampling thread beside it.                        *)
(*                                                                         *)
(* Throughput, the statistics file and what is printed are left out.       *)
(***************************************************************************)
EXTENDS Integers, CoreWorkload, NVMDB

CONSTANTS
  NumThreads,  \* threadcount
  MaxTx,       \* bound: transactions a client has time for
  MaxFaults    \* bound: engine calls that fail

Clients == 1 .. NumThreads

(* total_ops / num_threads, while loading.                                 *)
NumOps == RecordCount \div NumThreads

(* Operations begun in all.  A value is the number of the operation that   *)
(* built it.                                                               *)
MaxSerial == RecordCount + NumThreads * MaxTx

ASSUME YCSBAssumption ==
  /\ NumThreads \in Nat \ {0}
  /\ MaxTx \in Nat \ {0}
  /\ MaxFaults \in Nat
  /\ Keys = 0 .. (InsertStart + MaxSerial)
  /\ Record = UNION {[S -> 1 .. MaxSerial] : S \in SUBSET Fields}
  /\ NoRecord \notin Record
  /\ NoTuple \notin Tuple
  /\ NoClient \notin Clients

VARIABLES
  phase,    \* of main2
  joined,   \* futures main2 has waited for in this phase
  pc,       \* where each client is
  left,     \* insertions a loading client has left
  tx,       \* transactions a client has begun
  call,     \* the operation each client is in
  sampler,  \* the sampling threads that are running
  serial,   \* operations begun so far
  faults    \* engine calls that failed so far

client == <<pc, left, tx, call>>
vars == <<counter, db, phase, joined, client, sampler, serial, faults>>

NoCall == [op |-> "none", key |-> 0, values |-> NoRecord]

Ops == {"READ", "UPDATE", "INSERT", "SCAN", "READMODIFYWRITE"}

TypeOK ==
  /\ counter \in Nat
  /\ tables \in [Keys -> Record \cup {NoRecord}]
  /\ mutex \in Clients \cup {NoClient}
  /\ stored \in [Keys -> Tuple \cup {NoTuple}]
  /\ req \in Tuple \cup {NoTuple}
  /\ disputed \in SUBSET Keys
  /\ phase \in {"load", "run", "done", "aborted"}
  /\ joined \in 0 .. NumThreads
  /\ pc \in [Clients -> {"ready", "lock", "persist", "closing", "done", "thrown"}]
  /\ left \in [Clients -> 0 .. NumOps]
  /\ tx \in [Clients -> 0 .. MaxTx]
  /\ call \in [Clients -> [op : Ops, key : Keys, values : Record \cup {NoRecord}] \cup {NoCall}]
  /\ sampler \in SUBSET Clients
  /\ serial \in 0 .. MaxSerial
  /\ faults \in 0 .. MaxFaults

Init ==
  /\ InitKeyGenerator
  /\ InitDB
  /\ phase = "load"
  /\ joined = 0
  /\ pc = [c \in Clients |-> "ready"]
  /\ left = [c \in Clients |-> NumOps]
  /\ tx = [c \in Clients |-> 0]
  /\ call = [c \in Clients |-> NoCall]
  /\ sampler = {}
  /\ serial = 0
  /\ faults = 0

-------------------------------------------------------------------------------
(* A client chooses an operation; then it competes for the mutex.  The     *)
(* bound on serial is that of left and tx together.                        *)

Begin(c, op, k, values) ==
  /\ serial < MaxSerial
  /\ pc' = [pc EXCEPT ![c] = "lock"]
  /\ call' = [call EXCEPT ![c] = [op |-> op, key |-> k, values |-> values]]
  /\ serial' = serial + 1
  /\ UNCHANGED <<db, phase, joined, sampler, faults>>

(* Client::DoInsert, in the loop of DelegateClient.                        *)
DoInsert(c) ==
  /\ phase = "load"
  /\ pc[c] = "ready"
  /\ left[c] > 0
  /\ left' = [left EXCEPT ![c] = @ - 1]
  /\ \E k \in Keys : NextSequenceKey(k) /\ Begin(c, "INSERT", k, BuildValues(serial + 1))
  /\ UNCHANGED tx

(* Client::DoTransaction, up to the first call of the database.            *)
DoTransaction(c) ==
  /\ phase = "run"
  /\ pc[c] = "ready"
  /\ tx[c] < MaxTx
  /\ tx' = [tx EXCEPT ![c] = @ + 1]
  /\ \/ /\ "INSERT" \in Operations
        /\ \E k \in Keys : NextSequenceKey(k) /\ Begin(c, "INSERT", k, BuildValues(serial + 1))
     \/ /\ \E op \in Operations \cap {"UPDATE", "READMODIFYWRITE"},
              k \in TransactionKeys, v \in UpdateValues(serial + 1) : Begin(c, op, k, v)
        /\ UNCHANGED counter
     \/ /\ \E op \in Operations \cap {"READ", "SCAN"}, k \in TransactionKeys :
             Begin(c, op, k, NoRecord)
        /\ UNCHANGED counter
  /\ UNCHANGED left

-------------------------------------------------------------------------------
(* The calls of the database.                                              *)

At(c, op) == phase \in {"load", "run"} /\ pc[c] = "lock" /\ call[c].op = op

Return(c) ==
  /\ pc' = [pc EXCEPT ![c] = "ready"]
  /\ call' = [call EXCEPT ![c] = NoCall]

TransactionRead(c) ==
  /\ At(c, "READ")
  /\ Read
  /\ Return(c)
  /\ UNCHANGED <<counter, phase, joined, left, tx, sampler, serial, faults>>

(* The read of TransactionReadModifyWrite; its status is ignored.  The     *)
(* mutex is free between it and the update, whose values do not depend on  *)
(* what was read.                                                          *)
TransactionReadModifyWrite(c) ==
  /\ At(c, "READMODIFYWRITE")
  /\ Read
  /\ call' = [call EXCEPT ![c].op = "UPDATE"]
  /\ UNCHANGED <<counter, phase, joined, pc, left, tx, sampler, serial, faults>>

(* A negative status fails the assertion of DoTransaction.                 *)
TransactionScan(c) ==
  /\ At(c, "SCAN")
  /\ Scan
  /\ \/ /\ "negative" \in ScanStatus(call[c].key)
        /\ phase' = "aborted"
        /\ UNCHANGED <<pc, call>>
     \/ Return(c) /\ UNCHANGED phase
  /\ UNCHANGED <<counter, joined, left, tx, sampler, serial, faults>>

UpdateMissing(c) ==
  /\ At(c, "UPDATE")
  /\ UpdateNoData(call[c].key)
  /\ Return(c)
  /\ UNCHANGED <<counter, phase, joined, left, tx, sampler, serial, faults>>

(* Update and Insert up to and with the call of the engine.                *)
ChangeRecord(c) ==
  /\ \/ At(c, "UPDATE") /\ UpdateRecord(c, call[c].key, call[c].values)
     \/ At(c, "INSERT") /\ InsertRecord(c, call[c].key, call[c].values)
  /\ pc' = [pc EXCEPT ![c] = "persist"]
  /\ UNCHANGED <<counter, phase, joined, left, tx, call, sampler, serial, faults>>

AtEngine(c) == phase \in {"load", "run"} /\ pc[c] = "persist"

PersistSucceeds(c) ==
  /\ AtEngine(c)
  /\ Persist(c, call[c].key)
  /\ Return(c)
  /\ UNCHANGED <<counter, phase, joined, left, tx, sampler, serial, faults>>

(* kFail: the call returns kErrorConflict.                                 *)
PersistReportsFail(c) ==
  /\ AtEngine(c)
  /\ faults < MaxFaults
  /\ faults' = faults + 1
  /\ PersistFails(c, call[c].key)
  /\ Return(c)
  /\ UNCHANGED <<counter, phase, joined, left, tx, sampler, serial>>

(* An exception leaves DelegateClient.  While loading it is kept in the    *)
(* client's future; later it unwinds past the sampling thread, which is    *)
(* still joinable, and std::terminate ends the process.                    *)
PersistThrows(c) ==
  /\ AtEngine(c)
  /\ faults < MaxFaults
  /\ faults' = faults + 1
  /\ PersistFails(c, call[c].key)
  /\ IF phase = "load"
     THEN pc' = [pc EXCEPT ![c] = "thrown"] /\ UNCHANGED phase
     ELSE phase' = "aborted" /\ UNCHANGED pc
  /\ UNCHANGED <<counter, joined, left, tx, call, sampler, serial>>

-------------------------------------------------------------------------------
(* The ends of DelegateClient, and the sampling thread.                    *)

LoadingEnds(c) ==
  /\ phase = "load"
  /\ pc[c] = "ready"
  /\ left[c] = 0
  /\ pc' = [pc EXCEPT ![c] = "done"]
  /\ UNCHANGED <<counter, db, phase, joined, left, tx, call, sampler, serial, faults>>

(* The loop body runs at least once; then running.store(false).            *)
TimeIsUp(c) ==
  /\ phase = "run"
  /\ pc[c] = "ready"
  /\ tx[c] > 0
  /\ pc' = [pc EXCEPT ![c] = "closing"]
  /\ UNCHANGED <<counter, db, phase, joined, left, tx, call, sampler, serial, faults>>

(* t.join(); return oks;                                                   *)
JoinSampler(c) ==
  /\ phase = "run"
  /\ pc[c] = "closing"
  /\ c \notin sampler
  /\ pc' = [pc EXCEPT ![c] = "done"]
  /\ UNCHANGED <<counter, db, phase, joined, left, tx, call, sampler, serial, faults>>

(* while (running) { sleep; write a sample; }  The samples, which only the *)
(* statistics file sees, are left out.                                     *)
SamplerEnds(c) ==
  /\ phase = "run"
  /\ c \in sampler
  /\ pc[c] = "closing"
  /\ sampler' = sampler \ {c}
  /\ UNCHANGED <<counter, db, phase, joined, client, serial, faults>>

-------------------------------------------------------------------------------
(* main2.                                                                  *)

(* sum += n.get(), one client after the other.                             *)
GetFuture ==
  /\ phase \in {"load", "run"}
  /\ joined < NumThreads
  /\ pc[joined + 1] = "done"
  /\ joined' = joined + 1
  /\ UNCHANGED <<counter, db, phase, client, sampler, serial, faults>>

(* get() throws what the client threw, and nothing catches it.             *)
GetThrows ==
  /\ phase = "load"
  /\ joined < NumThreads
  /\ pc[joined + 1] = "thrown"
  /\ phase' = "aborted"
  /\ UNCHANGED <<counter, db, joined, client, sampler, serial, faults>>

(* Mutant: the transactions start when the first client has loaded.        *)
BugStartTransactions ==
  /\ phase = "load"
  /\ joined > 0
  /\ phase' = "run"
  /\ joined' = 0
  /\ pc' = [c \in Clients |-> "ready"]
  /\ sampler' = Clients
  /\ UNCHANGED <<counter, db, left, tx, call, serial, faults>>

StartTransactions ==
  /\ phase = "load"
  /\ joined = NumThreads
  /\ phase' = "run"
  /\ joined' = 0
  /\ pc' = [c \in Clients |-> "ready"]
  /\ sampler' = Clients
  /\ UNCHANGED <<counter, db, left, tx, call, serial, faults>>

Finish ==
  /\ phase = "run"
  /\ joined = NumThreads
  /\ phase' = "done"
  /\ UNCHANGED <<counter, db, joined, client, sampler, serial, faults>>

-------------------------------------------------------------------------------
DelegateClient(c) ==
  \/ DoInsert(c) \/ DoTransaction(c)
  \/ TransactionRead(c) \/ TransactionReadModifyWrite(c) \/ TransactionScan(c)
  \/ UpdateMissing(c) \/ ChangeRecord(c)
  \/ PersistSucceeds(c) \/ PersistReportsFail(c) \/ PersistThrows(c)
  \/ LoadingEnds(c) \/ TimeIsUp(c) \/ JoinSampler(c)

Main == GetFuture \/ GetThrows \/ StartTransactions \/ Finish

Next ==
  \/ \E c \in Clients : DelegateClient(c) \/ SamplerEnds(c)
  \/ Main

Spec == Init /\ [][Next]_vars

(* Every thread keeps running, and so does every call of the engine (see   *)
(* CallReturns of NVRecEngine).  A client waits for the mutex only while   *)
(* another one makes progress, and each has time for finitely many         *)
(* transactions: weak fairness is enough.                                  *)
FairSpec ==
  /\ Spec
  /\ \A c \in Clients : WF_vars(DelegateClient(c)) /\ WF_vars(SamplerEnds(c))
  /\ WF_vars(Main)

-------------------------------------------------------------------------------
(* Whenever nobody is inside the database, the engine holds every record   *)
(* as memory has it, but for those whose last engine call failed: what     *)
(* Update and Insert hand to the engine is the whole record.               *)
Agreement == mutex = NoClient => \A k \in Keys \ disputed : tables[k] = Persisted(k)

(* Client c reads: it leaves TransactionRead, or goes on to the update of  *)
(* TransactionReadModifyWrite.                                             *)
Reads(c) == (At(c, "READ") \/ At(c, "READMODIFYWRITE")) /\ call'[c] # call[c]

(* A read never returns a record the engine does not have, unless the      *)
(* engine refused it: no client sees a change whose persisting is under    *)
(* way.                                                                    *)
ReadsPersisted ==
  [][\A c \in Clients :
       LET k == call[c].key
       IN  Reads(c) /\ Found(k) /\ k \notin disputed
             => /\ Persisted(k) # NoRecord
                /\ ReadResult(k, ReadFields) = FilterByFields(Persisted(k), ReadFields)]_vars

(* Before the first transaction, all that the clients were to load is      *)
(* there, whatever the engine reported: main2 has waited for each of them  *)
(* and stops if one has thrown.                                            *)
LoadedBeforeRun ==
  phase = "run" => \A k \in InsertStart .. (InsertStart + NumThreads * NumOps - 1) : Found(k)

(* A transaction never works on a key that is not there: "If the generator *)
(* picks a key that is not inserted yet, we just ignore it and pick        *)
(* another key" (core_workload.cc).                                        *)
PicksInserted ==
  \A c \in Clients : phase = "run" /\ call[c].op \notin {"none", "INSERT"} => Found(call[c].key)

(* No insertion, of a loading client or of a transaction, hits a record    *)
(* that is there: the sequence of keys never repeats, whoever draws from   *)
(* it.                                                                     *)
InsertIsFresh ==
  [][\A c \in Clients :
       call[c].op = "INSERT" /\ mutex # c /\ mutex' = c => ~Found(call[c].key)]_vars

(* The program ends, whatever the engine does: no client is left waiting   *)
(* for the mutex, main2 for a client, or a client for its sampling thread. *)
Terminates == <>(phase \in {"done", "aborted"})
===============================================================================
