----------------------------- MODULE NVRecProofs -----------------------------
(***************************************************************************)
(* Proofs about NVRecEngine: TypeOK, LookupSound and FlushIsolated always, *)
(* Durable and UnlinkOnlyDurable when fsync does not fail and a pool file  *)
(* that exists can be opened, for every set of keys, every pool capacity   *)
(* and any number of calls and faults; and DiskOrdered, PoolsBounded and   *)
(* the steps of DurableStore while one process lives undisturbed.          *)
(***************************************************************************)
EXTENDS NVRecEngine, TuplesProofs

(* Acknowledged tuples are filed under their own key.                      *)
AckedInv == \A k \in Keys : acked[k] # NoTuple => acked[k].key = k

(* The caller's thread: a pool that is open is there, and full when it is  *)
(* about to be flushed; a call under way has a tuple; memory is empty      *)
(* while no process runs.                                                  *)
CallerInv ==
  /\ open => pool \in DOMAIN files
  /\ pc \in {"join", "spawn"} /\ open => Full(pool)
  /\ pc \in {"tx", "join", "spawn", "open"} => req \in Tuple
  /\ pc \in {"down", "idle", "closing"} => req = NoTuple
  /\ pc = "spawn" => flush_result = "invalid"
  /\ pc \in {"down", "open"} \/ (~open /\ pc # "closing") => lookup_table = EmptyLookup
  /\ pc = "closing" => ~open
  /\ pc = "down" => flush_result = "invalid" /\ pool = 0 /\ ~open /\ pool_counter = 0

(* The flush thread runs exactly while its future is pending.              *)
FlusherInv == flusher.pc = "none" <=> flush_result # "pending"

(* Pools and paths are numbered upwards: the thread unlinks a path that is *)
(* below the current pool, unless that is the pool it was given.  The path *)
(* of a pool that could not be created names no file.                      *)
PathInv ==
  /\ pool <= pool_counter
  /\ flusher.pc # "none" =>
       /\ flusher.pool <= flusher.path /\ flusher.path <= pool_counter
       /\ pool = flusher.pool \/ flusher.path < pool
  /\ ~ReopenMayFail =>
       /\ pool_counter = pool \/ pool_counter \notin DOMAIN files
       /\ flusher.pc # "none" => flusher.path = flusher.pool \/ flusher.path \notin DOMAIN files

(* The flush thread's progress: what it has passed is in the log, and      *)
(* durable there by the time it unlinks the pool.                          *)
Written(t) == \E j \in DOMAIN disk.data : disk.data[j] = t

FlushProgress ==
  /\ flusher.pc = "write" =>
       /\ flusher.current <= Len(files[flusher.pool])
       /\ \A i \in DOMAIN files[flusher.pool] :
            i > flusher.current => Written(files[flusher.pool][i])
  /\ flusher.pc = "unlink" /\ ~FsyncMayFail =>
       \A i \in DOMAIN files[flusher.pool] : OnDisk(files[flusher.pool][i])

(* The inductive invariant.                                                *)
IInv ==
  /\ TypeOK
  /\ AckedInv
  /\ CallerInv
  /\ FlusherInv
  /\ PathInv
  /\ FlushIsolated
  /\ LookupSound
  /\ FlushProgress
  /\ ~FsyncMayFail /\ ~ReopenMayFail => Durable

-------------------------------------------------------------------------------
(* Lemmas about tuples, lists and pools.                                   *)

(* A tuple has a key, and is neither of the two values that are no tuple.  *)
LEMMA TupleFacts ==
  ASSUME NEW t \in Tuple
  PROVE  t.key \in Keys /\ t # NoTuple
BY NVRecAssumption, TupleAssumption DEF Tuple

(* Opening or creating a pool leaves the other pools, and the contents of  *)
(* an existing one, as they are.                                           *)
LEMMA MakePool ==
  ASSUME TypeOK, NEW p \in Nat
  PROVE  /\ DOMAIN MakePersistentListPool(p) = DOMAIN files \cup {p}
         /\ DOMAIN MakePersistentListPool(p) \subseteq Nat
         /\ MakePersistentListPool(p) \in [DOMAIN MakePersistentListPool(p) -> Seq(Tuple)]
         /\ \A q \in DOMAIN files : MakePersistentListPool(p)[q] = files[q]
<1>1. << >> \in Seq(Tuple)
  OBVIOUS
<1>2. \A q \in DOMAIN files : files[q] \in Seq(Tuple)
  BY DEF TypeOK
<1> QED
  BY <1>1, <1>2 DEF TypeOK, MakePersistentListPool

(* Insert adds a node to one list: the nodes that were there keep their    *)
(* positions and the new one has the next.                                 *)
LEMMA InsertPool ==
  ASSUME TypeOK, NEW p \in DOMAIN files, NEW t \in Tuple
  PROVE  /\ DOMAIN Insert(p, t) = DOMAIN files
         /\ Insert(p, t) \in [DOMAIN files -> Seq(Tuple)]
         /\ \A q \in DOMAIN files : q # p => Insert(p, t)[q] = files[q]
         /\ Len(files[p]) \in Nat
         /\ DOMAIN files[p] = 1 .. Len(files[p])
         /\ DOMAIN Insert(p, t)[p] = 1 .. (Len(files[p]) + 1)
         /\ \A i \in DOMAIN files[p] : Insert(p, t)[p][i] = files[p][i]
         /\ Insert(p, t)[p][Len(files[p]) + 1] = t
<1>1. files[p] \in Seq(Tuple)
  BY DEF TypeOK
<1>2. /\ Append(files[p], t) \in Seq(Tuple)
      /\ Len(Append(files[p], t)) = Len(files[p]) + 1
      /\ \A i \in DOMAIN files[p] : Append(files[p], t)[i] = files[p][i]
      /\ Append(files[p], t)[Len(files[p]) + 1] = t
  BY <1>1
<1>3. /\ Insert(p, t) = [files EXCEPT ![p] = Append(files[p], t)]
      /\ Insert(p, t)[p] = Append(files[p], t)
      /\ DOMAIN Insert(p, t) = DOMAIN files
      /\ \A q \in DOMAIN files : q # p => Insert(p, t)[q] = files[q]
  BY DEF TypeOK, Insert
<1>4. Insert(p, t) \in [DOMAIN files -> Seq(Tuple)]
  BY <1>2, <1>3 DEF TypeOK
<1> QED
  BY <1>1, <1>2, <1>3, <1>4

(* An overwrite replaces one node and nothing else.                        *)
LEMMA OverwritePool ==
  ASSUME TypeOK, NEW p \in DOMAIN files, NEW i \in DOMAIN files[p], NEW t \in Tuple
  PROVE  /\ DOMAIN Overwrite(p, i, t) = DOMAIN files
         /\ Overwrite(p, i, t) \in [DOMAIN files -> Seq(Tuple)]
         /\ \A q \in DOMAIN files : q # p => Overwrite(p, i, t)[q] = files[q]
         /\ DOMAIN Overwrite(p, i, t)[p] = DOMAIN files[p]
         /\ \A j \in DOMAIN files[p] : j # i => Overwrite(p, i, t)[p][j] = files[p][j]
         /\ Overwrite(p, i, t)[p][i] = t
<1>1. files[p] \in Seq(Tuple)
  BY DEF TypeOK
<1>2. DEFINE s == [files[p] EXCEPT ![i] = t]
<1>3. /\ s \in Seq(Tuple)
      /\ DOMAIN s = DOMAIN files[p]
      /\ \A j \in DOMAIN files[p] : j # i => s[j] = files[p][j]
      /\ s[i] = t
  BY <1>1
<1>4. Overwrite(p, i, t) = [files EXCEPT ![p] = s]
  BY DEF TypeOK, Overwrite
<1> HIDE DEF s
<1>5. /\ Overwrite(p, i, t)[p] = s
      /\ DOMAIN Overwrite(p, i, t) = DOMAIN files
      /\ \A q \in DOMAIN files : q # p => Overwrite(p, i, t)[q] = files[q]
  BY <1>4 DEF TypeOK
<1>6. Overwrite(p, i, t) \in [DOMAIN files -> Seq(Tuple)]
  BY <1>3, <1>5, <1>4 DEF TypeOK
<1> QED
  BY <1>3, <1>5, <1>6

(* unlink removes one pool.                                                *)
LEMMA UnlinkPool ==
  ASSUME TypeOK, NEW p
  PROVE  /\ DOMAIN Unlink(p) = DOMAIN files \ {p}
         /\ DOMAIN Unlink(p) \subseteq Nat
         /\ Unlink(p) \in [DOMAIN Unlink(p) -> Seq(Tuple)]
         /\ \A q \in DOMAIN files : q # p => Unlink(p)[q] = files[q]
BY DEF TypeOK, Unlink

-------------------------------------------------------------------------------
(* Lemmas about what keeps a tuple durable.                                *)

(* A log that keeps its durable prefix keeps every durable tuple.          *)
LEMMA OnDiskKept ==
  ASSUME disk \in FileType(Tuple), disk' \in FileType(Tuple),
         disk.synced <= disk'.synced,
         \A i \in 1 .. disk.synced : disk'.data[i] = disk.data[i],
         NEW t, OnDisk(t)
  PROVE  OnDisk(t)'
<1>1. disk.synced \in Nat /\ disk'.synced \in Nat
  BY DEF FileType
<1> QED
  BY <1>1 DEF OnDisk

(* The initial state satisfies the invariant.                              *)
LEMMA InitInv == Init => IInv
<1> SUFFICES ASSUME Init PROVE IInv
  OBVIOUS
<1> USE NVRecAssumption, TupleAssumption
<1>1. TypeOK
  <2>1. /\ DOMAIN files = {}
        /\ files \in [DOMAIN files -> Seq(Tuple)]
    BY DEF Init
  <2>2. disk \in FileType(Tuple)
    <3>1. PICK p \in Privileges :
            disk = [exists |-> FALSE, privileged |-> p, data |-> << >>, synced |-> 0]
      BY DEF Init, NoFile
    <3>2. p \in BOOLEAN
      BY OSFileAssumption
    <3>3. << >> \in Seq(Tuple \cup {Torn}) /\ 0 <= Len(<< >>)
      OBVIOUS
    <3> QED
      BY <3>1, <3>2, <3>3 DEF FileType
  <2>3. 0 \in 0 .. MaxWrites /\ 0 \in 0 .. MaxFaults
    OBVIOUS
  <2> QED
    BY <2>1, <2>2, <2>3 DEF Init, TypeOK, EmptyLookup, NoFlush
<1>2. AckedInv /\ CallerInv /\ FlusherInv /\ PathInv /\ FlushIsolated /\ LookupSound /\ FlushProgress
  BY DEF Init, AckedInv, CallerInv, FlusherInv, PathInv, FlushIsolated, LookupSound, FlushProgress, NoFlush
<1>3. Durable
  BY DEF Init, Durable
<1> QED
  BY <1>1, <1>2, <1>3 DEF IInv

(* A step that changes neither the media nor what is acknowledged.         *)
LEMMA DurableStutter ==
  ASSUME UNCHANGED <<files, disk, acked>>
  PROVE  Durable => Durable'
BY DEF Durable, InPool, OnDisk

-------------------------------------------------------------------------------
(* Steps of the caller.                                                    *)

(* The constructor makes the first pool.                                   *)
LEMMA ConstructInv == IInv /\ Construct => IInv'
<1> SUFFICES ASSUME IInv, Construct PROVE IInv'
  OBVIOUS
<1> USE DEF IInv
<1>1. /\ files' = MakePersistentListPool(0)
      /\ DOMAIN files' = DOMAIN files \cup {0}
      /\ DOMAIN files' \subseteq Nat
      /\ files' \in [DOMAIN files' -> Seq(Tuple)]
      /\ \A q \in DOMAIN files : files'[q] = files[q]
  BY MakePool DEF Construct
<1>2. /\ pool = 0 /\ pool_counter = 0 /\ flusher.pc = "none" /\ lookup_table = EmptyLookup
      /\ req = NoTuple /\ pc' = "idle" /\ open'
      /\ UNCHANGED <<disk, req, pool, pool_counter, lookup_table, flush_result, flusher, acked, writes, faults>>
  BY DEF Construct, CallerInv, FlusherInv, flush
<1>3. TypeOK'
  BY <1>1, <1>2 DEF TypeOK
<1>4. AckedInv' /\ CallerInv' /\ FlusherInv' /\ PathInv' /\ FlushIsolated' /\ FlushProgress'
  BY <1>1, <1>2 DEF AckedInv, CallerInv, FlusherInv, PathInv, FlushIsolated, FlushProgress
<1>5. LookupSound'
  BY <1>2 DEF LookupSound, EmptyLookup
<1>6. Durable => Durable'
  BY <1>1, <1>2 DEF Durable, InPool, OnDisk
<1> QED
  BY <1>3, <1>4, <1>5, <1>6

(* The call of a write changes no pool.                                    *)
LEMMA CallInv ==
  ASSUME IInv, NEW t \in Tuple, Call(t)
  PROVE  IInv'
<1> USE DEF IInv
<1>1. /\ pc = "idle" /\ pc' = "tx" /\ req' = t /\ writes' = t.ver
      /\ UNCHANGED <<files, disk, pool, open, pool_counter, lookup_table, flush_result, flusher, acked, faults>>
  BY DEF Call, media, handle, flush
<1>2. t.ver \in 0 .. MaxWrites
  BY NVRecAssumption, TupleAssumption DEF Tuple
<1>3. TypeOK'
  BY <1>1, <1>2 DEF TypeOK
<1>4. AckedInv' /\ CallerInv' /\ FlusherInv' /\ PathInv' /\ FlushIsolated' /\ LookupSound'
  BY <1>1 DEF AckedInv, CallerInv, FlusherInv, PathInv, FlushIsolated, LookupSound, Full
<1>5. FlushProgress'
  BY <1>1 DEF FlushProgress, Written, OnDisk
<1> QED
  BY <1>1, <1>3, <1>4, <1>5, DurableStutter

(* A transaction that adds a node keeps the invariant.                     *)
LEMMA TxInsertInv == IInv /\ TxInsert => IInv'
<1> SUFFICES ASSUME IInv, TxInsert PROVE IInv'
  OBVIOUS
<1> USE DEF IInv
<1> DEFINE p == pool
           n == Len(files[pool])
<1>1. /\ pc = "tx" /\ open /\ ~Full(p) /\ pc' = "idle" /\ req' = NoTuple
      /\ files' = Insert(p, req)
      /\ lookup_table' = [lookup_table EXCEPT ![req.key] = n + 1]
      /\ acked' = [acked EXCEPT ![req.key] = req]
      /\ UNCHANGED <<disk, pool, open, pool_counter, flush_result, flusher, writes, faults>>
  BY DEF TxInsert, Return, handle, flush
<1>2. p \in DOMAIN files /\ req \in Tuple /\ req.key \in Keys /\ req # NoTuple
  BY <1>1, TupleFacts DEF CallerInv
<1>3. /\ DOMAIN files' = DOMAIN files
      /\ files' \in [DOMAIN files -> Seq(Tuple)]
      /\ \A q \in DOMAIN files : q # p => files'[q] = files[q]
      /\ n \in Nat
      /\ DOMAIN files[p] = 1 .. n
      /\ DOMAIN files'[p] = 1 .. (n + 1)
      /\ \A i \in DOMAIN files[p] : files'[p][i] = files[p][i]
      /\ files'[p][n + 1] = req
  BY <1>1, <1>2, InsertPool
<1> HIDE DEF n
<1>4. TypeOK'
  BY <1>1, <1>2, <1>3 DEF TypeOK
<1>5. AckedInv'
  BY <1>1, <1>2 DEF AckedInv, TypeOK
<1>6. CallerInv' /\ FlusherInv' /\ PathInv' /\ FlushIsolated'
  BY <1>1, <1>2, <1>3 DEF CallerInv, FlusherInv, PathInv, FlushIsolated, Full
<1>7. LookupSound'
  <2> SUFFICES ASSUME NEW k \in Keys, lookup_table'[k] # 0
               PROVE  /\ lookup_table'[k] \in DOMAIN files'[p]
                      /\ files'[p][lookup_table'[k]].key = k
    BY <1>1 DEF LookupSound
  <2>1. CASE k = req.key
    BY <1>1, <1>2, <1>3, <2>1 DEF TypeOK
  <2>2. CASE k # req.key
    <3>1. lookup_table'[k] = lookup_table[k]
      BY <1>1, <2>2 DEF TypeOK
    <3>2. lookup_table[k] \in DOMAIN files[p] /\ files[p][lookup_table[k]].key = k
      BY <1>1, <3>1 DEF LookupSound
    <3> QED
      BY <1>3, <3>1, <3>2
  <2> QED
    BY <2>1, <2>2
<1>8. FlushProgress'
  <2>1. flusher.pc \in {"open", "write", "unlink"} =>
          flusher.pool # p /\ files'[flusher.pool] = files[flusher.pool]
    BY <1>1, <1>3 DEF FlushIsolated
  <2> QED
    BY <1>1, <2>1 DEF FlushProgress, Written, OnDisk
<1>9. Durable => Durable'
  <2> SUFFICES ASSUME Durable, NEW k \in Keys, NEW t, t = acked'[k], t # NoTuple
               PROVE  InPool(t)' \/ OnDisk(t)'
    BY DEF Durable, InPool, OnDisk
  <2>1. CASE k = req.key
    <3>1. t = files'[p][n + 1] /\ n + 1 \in DOMAIN files'[p] /\ p \in DOMAIN files'
      BY <1>1, <1>2, <1>3, <2>1 DEF TypeOK
    <3> QED
      BY <3>1 DEF InPool
  <2>2. CASE k # req.key
    <3>1. InPool(t) \/ OnDisk(t)
      BY <1>1, <1>2, <2>2 DEF TypeOK, Durable
    <3>2. ASSUME InPool(t) PROVE InPool(t)'
      <4>1. PICK q \in DOMAIN files : \E i \in DOMAIN files[q] : files[q][i] = t
        BY <3>2 DEF InPool
      <4>2. PICK i \in DOMAIN files[q] : files[q][i] = t
        BY <4>1
      <4>3. i \in DOMAIN files'[q] /\ files'[q][i] = t
        BY <1>3, <4>2
      <4> QED
        BY <1>3, <4>3 DEF InPool
    <3>3. OnDisk(t) => OnDisk(t)'
      BY <1>1 DEF OnDisk
    <3> QED
      BY <3>1, <3>2, <3>3
  <2> QED
    BY <2>1, <2>2
<1> QED
  BY <1>4, <1>5, <1>6, <1>7, <1>8, <1>9

(* So does one that overwrites the node of the key.                        *)
LEMMA TxOverwriteInv == IInv /\ TxOverwrite => IInv'
<1> SUFFICES ASSUME IInv, TxOverwrite PROVE IInv'
  OBVIOUS
<1> USE DEF IInv
<1> DEFINE p == pool
           at == lookup_table[req.key]
<1>1. /\ pc = "tx" /\ open /\ pc' = "idle" /\ req' = NoTuple /\ at # 0
      /\ files' = Overwrite(p, at, req)
      /\ acked' = [acked EXCEPT ![req.key] = req]
      /\ UNCHANGED <<disk, pool, open, pool_counter, lookup_table, flush_result, flusher, writes, faults>>
  BY DEF TxOverwrite, Return, handle, flush
<1>2. p \in DOMAIN files /\ req \in Tuple /\ req.key \in Keys /\ req # NoTuple
  BY <1>1, TupleFacts DEF CallerInv
<1>3. at \in DOMAIN files[p] /\ files[p][at].key = req.key
  BY <1>1, <1>2 DEF LookupSound
<1>4. /\ DOMAIN files' = DOMAIN files
      /\ files' \in [DOMAIN files -> Seq(Tuple)]
      /\ \A q \in DOMAIN files : q # p => files'[q] = files[q]
      /\ DOMAIN files'[p] = DOMAIN files[p]
      /\ \A j \in DOMAIN files[p] : j # at => files'[p][j] = files[p][j]
      /\ files'[p][at] = req
  BY <1>1, <1>2, <1>3, OverwritePool
<1>5. TypeOK'
  BY <1>1, <1>2, <1>4 DEF TypeOK
<1>6. AckedInv'
  BY <1>1, <1>2 DEF AckedInv, TypeOK
<1>7. CallerInv' /\ FlusherInv' /\ PathInv' /\ FlushIsolated'
  BY <1>1, <1>2, <1>4 DEF CallerInv, FlusherInv, PathInv, FlushIsolated, Full, EmptyLookup
<1>8. LookupSound'
  <2> SUFFICES ASSUME NEW k \in Keys, lookup_table[k] # 0
               PROVE  /\ lookup_table[k] \in DOMAIN files'[p]
                      /\ files'[p][lookup_table[k]].key = k
    BY <1>1 DEF LookupSound
  <2>1. lookup_table[k] \in DOMAIN files[p] /\ files[p][lookup_table[k]].key = k
    BY <1>1 DEF LookupSound
  <2> QED
    BY <1>3, <1>4, <2>1
<1>9. FlushProgress'
  <2>1. flusher.pc \in {"open", "write", "unlink"} =>
          flusher.pool # p /\ files'[flusher.pool] = files[flusher.pool]
    BY <1>1, <1>2, <1>4 DEF FlushIsolated, EmptyLookup
  <2> QED
    BY <1>1, <2>1 DEF FlushProgress, Written, OnDisk
<1>10. Durable => Durable'
  <2> SUFFICES ASSUME Durable, NEW k \in Keys, NEW t, t = acked'[k], t # NoTuple
               PROVE  InPool(t)' \/ OnDisk(t)'
    BY DEF Durable, InPool, OnDisk
  <2>1. CASE k = req.key
    <3>1. t = files'[p][at] /\ at \in DOMAIN files'[p] /\ p \in DOMAIN files'
      BY <1>1, <1>2, <1>3, <1>4, <2>1 DEF TypeOK
    <3> QED
      BY <3>1 DEF InPool
  <2>2. CASE k # req.key
    <3>1. t = acked[k]
      BY <1>1, <1>2, <2>2 DEF TypeOK
    <3>2. t.key # req.key /\ (InPool(t) \/ OnDisk(t))
      BY <2>2, <3>1 DEF Durable, AckedInv
    <3>3. ASSUME InPool(t) PROVE InPool(t)'
      <4>1. PICK q \in DOMAIN files : \E i \in DOMAIN files[q] : files[q][i] = t
        BY <3>3 DEF InPool
      <4>2. PICK i \in DOMAIN files[q] : files[q][i] = t
        BY <4>1
      <4>3. q # p \/ i # at
        BY <1>3, <3>2, <4>2
      <4>4. i \in DOMAIN files'[q] /\ files'[q][i] = t
        BY <1>4, <4>2, <4>3
      <4> QED
        BY <1>4, <4>4 DEF InPool
    <3>4. OnDisk(t) => OnDisk(t)'
      BY <1>1 DEF OnDisk
    <3> QED
      BY <3>2, <3>3, <3>4
  <2> QED
    BY <2>1, <2>2
<1> QED
  BY <1>5, <1>6, <1>7, <1>8, <1>9, <1>10

(* A transaction that is rolled back leaves everything as it was.          *)
LEMMA TxAbortInv == IInv /\ TxAbort => IInv'
<1> SUFFICES ASSUME IInv, TxAbort PROVE IInv'
  OBVIOUS
<1> USE DEF IInv
<1>1. /\ pc = "tx" /\ pc' = "join" /\ Full(pool)
      /\ UNCHANGED <<files, disk, req, pool, open, pool_counter, lookup_table, flush_result, flusher, acked, writes, faults>>
  BY DEF TxAbort, media, handle, flush
<1>2. TypeOK'
  BY <1>1 DEF TypeOK
<1>3. AckedInv' /\ CallerInv' /\ FlusherInv' /\ PathInv' /\ FlushIsolated' /\ LookupSound'
  BY <1>1 DEF AckedInv, CallerInv, FlusherInv, PathInv, FlushIsolated, LookupSound, Full
<1>4. FlushProgress'
  BY <1>1 DEF FlushProgress, Written, OnDisk
<1> QED
  BY <1>1, <1>2, <1>3, <1>4, DurableStutter

(* The engine takes the result of a flush that has finished.               *)
LEMMA JoinInv == IInv /\ Join => IInv'
<1> SUFFICES ASSUME IInv, Join PROVE IInv'
  OBVIOUS
<1> USE DEF IInv
<1>1. /\ pc = "join" /\ pc' = "spawn"
      /\ flush_result # "pending" /\ flush_result' = "invalid"
      /\ UNCHANGED <<files, disk, req, pool, open, pool_counter, lookup_table, flusher, acked, writes, faults>>
  BY DEF Join, media, handle
<1>2. TypeOK'
  BY <1>1 DEF TypeOK
<1>3. AckedInv' /\ CallerInv' /\ FlusherInv' /\ PathInv' /\ FlushIsolated' /\ LookupSound'
  BY <1>1 DEF AckedInv, CallerInv, FlusherInv, PathInv, FlushIsolated, LookupSound, Full
<1>4. FlushProgress'
  BY <1>1 DEF FlushProgress, Written, OnDisk
<1> QED
  BY <1>1, <1>2, <1>3, <1>4, DurableStutter

(* The exception of a failed flush leaves the call.                        *)
LEMMA RethrowInv == IInv /\ Rethrow => IInv'
<1> SUFFICES ASSUME IInv, Rethrow PROVE IInv'
  OBVIOUS
<1> USE DEF IInv
<1>1. /\ pc = "join" /\ pc' = "idle" /\ req' = NoTuple
      /\ flush_result = "error" /\ flush_result' = "invalid"
      /\ UNCHANGED <<files, disk, pool, open, pool_counter, lookup_table, flusher, acked, writes, faults>>
  BY DEF Rethrow, media, handle
<1>2. TypeOK'
  BY <1>1 DEF TypeOK
<1>3. AckedInv' /\ CallerInv' /\ FlusherInv' /\ PathInv' /\ FlushIsolated' /\ LookupSound'
  BY <1>1 DEF AckedInv, CallerInv, FlusherInv, PathInv, FlushIsolated, LookupSound, Full
<1>4. FlushProgress'
  BY <1>1 DEF FlushProgress, Written, OnDisk
<1> QED
  BY <1>1, <1>2, <1>3, <1>4, DurableStutter

(* The engine starts the flush of the pool that is full.                   *)
LEMMA SpawnInv == IInv /\ Spawn => IInv'
<1> SUFFICES ASSUME IInv, Spawn PROVE IInv'
  OBVIOUS
<1> USE DEF IInv
<1>1. /\ pc = "spawn" /\ pc' = "open"
      /\ flusher' = [pc |-> IF open THEN "open" ELSE "lost",
                     pool |-> pool, path |-> pool_counter, current |-> 0]
      /\ flush_result' = "pending" /\ lookup_table' = EmptyLookup
      /\ UNCHANGED <<files, disk, req, pool, open, pool_counter, acked, writes, faults>>
  BY DEF Spawn, FlushOf, media, handle
<1>2. TypeOK'
  BY <1>1 DEF TypeOK, EmptyLookup
<1>3. AckedInv' /\ CallerInv' /\ FlusherInv' /\ PathInv' /\ FlushIsolated' /\ LookupSound' /\ FlushProgress'
  BY <1>1 DEF TypeOK, AckedInv, CallerInv, FlusherInv, PathInv, FlushIsolated, LookupSound, FlushProgress,
                   Full, EmptyLookup
<1> QED
  BY <1>1, <1>2, <1>3, DurableStutter

(* It goes on with a pool that no flush is reading.                        *)
LEMMA OpenNextPoolInv == IInv /\ OpenNextPool => IInv'
<1> SUFFICES ASSUME IInv, OpenNextPool PROVE IInv'
  OBVIOUS
<1> USE DEF IInv
<1>1. /\ pc = "open" /\ pc' = "tx"
      /\ pool' = pool_counter + 1 /\ open' /\ pool_counter' = pool_counter + 1
      /\ files' = MakePersistentListPool(pool_counter + 1)
      /\ UNCHANGED <<disk, req, lookup_table, flush_result, flusher, acked, writes, faults>>
  BY DEF OpenNextPool, NextPoolPath, handle, flush
<1>2. pool_counter \in Nat /\ pool_counter + 1 \in Nat
  BY DEF TypeOK
<1>3. /\ DOMAIN files' = DOMAIN files \cup {pool_counter + 1}
      /\ DOMAIN files' \subseteq Nat
      /\ files' \in [DOMAIN files' -> Seq(Tuple)]
      /\ \A q \in DOMAIN files : files'[q] = files[q]
  BY <1>1, <1>2, MakePool
<1>4. lookup_table = EmptyLookup
  BY <1>1 DEF CallerInv
<1>5. TypeOK'
  BY <1>1, <1>2, <1>3 DEF TypeOK
<1>6. AckedInv' /\ CallerInv'
  BY <1>1, <1>3 DEF AckedInv, CallerInv
<1>7. FlusherInv' /\ PathInv' /\ FlushIsolated'
  BY <1>1, <1>2, <1>3, <1>4 DEF TypeOK, FlusherInv, PathInv, FlushIsolated, Full
<1>8. LookupSound'
  BY <1>1, <1>4 DEF LookupSound, EmptyLookup
<1>9. FlushProgress'
  <2>1. flusher.pc \in {"open", "write", "unlink"} => files'[flusher.pool] = files[flusher.pool]
    BY <1>3 DEF FlushIsolated
  <2> QED
    BY <1>1, <2>1 DEF FlushProgress, Written, OnDisk
<1>10. Durable => Durable'
  <2>1. \A t : InPool(t) => InPool(t)'
    BY <1>3 DEF InPool
  <2> QED
    BY <1>1, <2>1 DEF Durable, OnDisk
<1> QED
  BY <1>5, <1>6, <1>7, <1>8, <1>9, <1>10

-------------------------------------------------------------------------------
(* Steps of the flush thread.                                              *)

(* The flush opens the data file.                                          *)
LEMMA FlushOpenInv == IInv /\ FlushOpen => IInv'
<1> SUFFICES ASSUME IInv, FlushOpen PROVE IInv'
  OBVIOUS
<1> USE DEF IInv
<1>1. /\ flusher.pc = "open" /\ disk' = Open(disk)
      /\ flusher' = [flusher EXCEPT !.pc = "write", !.current = Len(files[flusher.pool])]
      /\ UNCHANGED <<files, pc, req, pool, open, pool_counter, lookup_table, flush_result, acked, writes, faults>>
  BY DEF FlushOpen, caller, handle
<1>2. disk' \in FileType(Tuple) /\ disk'.data = disk.data /\ disk'.synced = disk.synced
  BY <1>1, OpenFile DEF TypeOK
<1>3. files[flusher.pool] \in Seq(Tuple) /\ Len(files[flusher.pool]) \in Nat
  BY <1>1 DEF FlushIsolated, TypeOK
<1>4. /\ flusher'.pc = "write" /\ flusher'.pool = flusher.pool /\ flusher'.path = flusher.path
      /\ flusher'.current = Len(files[flusher.pool])
      /\ flusher' \in [pc : {"none", "open", "write", "unlink", "lost"}, pool : Nat, path : Nat, current : Nat]
  BY <1>1, <1>3 DEF TypeOK
<1>5. TypeOK'
  BY <1>1, <1>2, <1>4 DEF TypeOK
<1>6. AckedInv' /\ CallerInv' /\ FlusherInv' /\ PathInv' /\ FlushIsolated' /\ LookupSound'
  BY <1>1, <1>4 DEF AckedInv, CallerInv, FlusherInv, PathInv, FlushIsolated, LookupSound, Full
<1>7. FlushProgress'
  <2>1. Len(files[flusher.pool]) \in Nat /\ DOMAIN files[flusher.pool] = 1 .. Len(files[flusher.pool])
    BY <1>3
  <2> QED
    BY <1>1, <1>4, <2>1 DEF FlushProgress
<1>8. Durable => Durable'
  BY <1>1, <1>2 DEF Durable, InPool, OnDisk
<1> QED
  BY <1>5, <1>6, <1>7, <1>8

(* The flush writes one node of its pool at a time.                        *)
LEMMA FlushWriteInv == IInv /\ FlushWrite => IInv'
<1> SUFFICES ASSUME IInv, FlushWrite PROVE IInv'
  OBVIOUS
<1> USE DEF IInv
<1> DEFINE L == files[flusher.pool]
           r == L[flusher.current]
<1>1. /\ flusher.pc = "write" /\ flusher.current > 0
      /\ disk' = Write(disk, r)
      /\ flusher' = [flusher EXCEPT !.current = @ - 1]
      /\ UNCHANGED <<files, pc, req, pool, open, pool_counter, lookup_table, flush_result, acked, writes, faults>>
  BY DEF FlushWrite, caller, handle
<1>2. L \in Seq(Tuple)
  BY <1>1 DEF FlushIsolated, TypeOK
<1>3. flusher.current \in Nat /\ flusher.current \in DOMAIN L
  BY <1>1, <1>2 DEF FlushProgress, TypeOK
<1>4. r \in Tuple
  BY <1>2, <1>3
<1> HIDE DEF r
<1>5. /\ disk' \in FileType(Tuple) /\ disk'.synced = disk.synced
      /\ Len(disk'.data) = Len(disk.data) + 1
      /\ \A i \in DOMAIN disk.data : disk'.data[i] = disk.data[i]
      /\ disk'.data[Len(disk.data) + 1] = r
  BY <1>1, <1>4, WriteFile DEF TypeOK
<1>6. /\ flusher'.pc = "write" /\ flusher'.pool = flusher.pool /\ flusher'.path = flusher.path
      /\ flusher'.current = flusher.current - 1
      /\ flusher' \in [pc : {"none", "open", "write", "unlink", "lost"}, pool : Nat, path : Nat, current : Nat]
  <2>1. flusher.current - 1 \in Nat
    BY <1>1, <1>3
  <2> QED
    BY <1>1, <2>1 DEF TypeOK
<1>7. TypeOK'
  BY <1>1, <1>5, <1>6 DEF TypeOK
<1>8. AckedInv' /\ CallerInv' /\ FlusherInv' /\ PathInv' /\ FlushIsolated' /\ LookupSound'
  BY <1>1, <1>6 DEF AckedInv, CallerInv, FlusherInv, PathInv, FlushIsolated, LookupSound, Full
<1>9. FlushProgress'
  <2>1. /\ Len(disk.data) \in Nat /\ DOMAIN disk.data = 1 .. Len(disk.data)
        /\ DOMAIN disk'.data = 1 .. (Len(disk.data) + 1)
    BY <1>5 DEF TypeOK, FileType
  <2> SUFFICES ASSUME NEW i \in DOMAIN L, i > flusher.current - 1
               PROVE  \E j \in DOMAIN disk'.data : disk'.data[j] = L[i]
    BY <1>1, <1>2, <1>3, <1>6 DEF FlushProgress, Written
  <2>2. CASE i = flusher.current
    BY <1>5, <2>1, <2>2 DEF r
  <2>3. CASE i > flusher.current
    <3>1. PICK j \in DOMAIN disk.data : disk.data[j] = L[i]
      BY <1>1, <2>3 DEF FlushProgress, Written
    <3> QED
      BY <1>5, <2>1, <3>1
  <2> QED
    BY <1>2, <1>3, <2>2, <2>3
<1>10. Durable => Durable'
  <2>1. \A i \in 1 .. disk.synced : disk'.data[i] = disk.data[i]
    BY <1>5 DEF TypeOK, FileType
  <2> QED
    BY <1>1, <1>5, <2>1 DEF Durable, InPool, OnDisk
<1> QED
  BY <1>7, <1>8, <1>9, <1>10

(* After the sync all of the pool is on disk, and only then is it          *)
(* unlinked.                                                               *)
LEMMA FlushSyncInv == IInv /\ FlushSync => IInv'
<1> SUFFICES ASSUME IInv, FlushSync PROVE IInv'
  OBVIOUS
<1> USE DEF IInv
<1> DEFINE L == files[flusher.pool]
<1>1. /\ flusher.pc = "write" /\ flusher.current = 0
      /\ disk' \in Sync(disk)
      /\ flusher' = [flusher EXCEPT !.pc = "unlink"]
      /\ UNCHANGED <<files, pc, req, pool, open, pool_counter, lookup_table, flush_result, acked, writes, faults>>
  BY DEF FlushSync, caller, handle
<1>2. /\ disk' \in FileType(Tuple) /\ disk'.data = disk.data
      /\ disk.synced <= disk'.synced
      /\ ~FsyncMayFail => disk'.synced = Len(disk.data)
  BY <1>1, SyncFile DEF TypeOK
<1>3. /\ flusher'.pc = "unlink" /\ flusher'.pool = flusher.pool /\ flusher'.path = flusher.path
      /\ flusher' \in [pc : {"none", "open", "write", "unlink", "lost"}, pool : Nat, path : Nat, current : Nat]
  BY <1>1 DEF TypeOK
<1>4. TypeOK'
  BY <1>1, <1>2, <1>3 DEF TypeOK
<1>5. AckedInv' /\ CallerInv' /\ FlusherInv' /\ PathInv' /\ FlushIsolated' /\ LookupSound'
  BY <1>1, <1>3 DEF AckedInv, CallerInv, FlusherInv, PathInv, FlushIsolated, LookupSound, Full
<1>6. FlushProgress'
  <2> SUFFICES ASSUME ~FsyncMayFail, NEW i \in DOMAIN L
               PROVE  \E j \in 1 .. disk'.synced : disk'.data[j] = L[i]
    BY <1>1, <1>3 DEF FlushProgress, OnDisk
  <2>1. L \in Seq(Tuple)
    BY <1>1 DEF FlushIsolated, TypeOK
  <2>2. i > flusher.current
    BY <1>1, <2>1
  <2>3. PICK j \in DOMAIN disk.data : disk.data[j] = L[i]
    BY <1>1, <2>2 DEF FlushProgress, Written
  <2>4. DOMAIN disk.data = 1 .. Len(disk.data)
    BY DEF TypeOK, FileType
  <2> QED
    BY <1>2, <2>3, <2>4
<1>7. Durable => Durable'
  <2>1. disk.synced \in Nat /\ disk'.synced \in Nat
    BY <1>2 DEF TypeOK, FileType
  <2> QED
    BY <1>1, <1>2, <2>1 DEF Durable, InPool, OnDisk
<1> QED
  BY <1>4, <1>5, <1>6, <1>7

(* The pool goes, and by FlushProgress everything in it is durable on disk.*)
LEMMA FlushUnlinkInv == IInv /\ FlushUnlink => IInv'
<1> SUFFICES ASSUME IInv, FlushUnlink PROVE IInv'
  OBVIOUS
<1> USE DEF IInv
<1>1. /\ flusher.pc = "unlink" /\ flusher' = NoFlush /\ flush_result' = "ready"
      /\ flusher.path \in DOMAIN files /\ files' = Unlink(flusher.path)
      /\ open' = (open /\ pool # flusher.pool)
      /\ UNCHANGED <<disk, pc, req, pool, pool_counter, lookup_table, acked, writes, faults>>
  BY DEF FlushUnlink, Close
<1>2. /\ DOMAIN files' = DOMAIN files \ {flusher.path}
      /\ DOMAIN files' \subseteq Nat
      /\ files' \in [DOMAIN files' -> Seq(Tuple)]
      /\ \A q \in DOMAIN files : q # flusher.path => files'[q] = files[q]
  BY <1>1, UnlinkPool
<1>3. TypeOK'
  BY <1>1, <1>2 DEF TypeOK, NoFlush
<1>4. /\ flusher.pool \in Nat /\ flusher.path \in Nat /\ pool \in Nat
      /\ open' => flusher.path # pool
      /\ ~(open') /\ pc # "closing" => lookup_table = EmptyLookup
  <2>1. flusher.pool \in Nat /\ flusher.path \in Nat /\ pool \in Nat
    BY DEF TypeOK
  <2>2. ASSUME open' PROVE flusher.path # pool
    <3>1. pool # flusher.pool
      BY <1>1, <2>2, Zenon
    <3>2. flusher.path < pool
      BY <1>1, <3>1 DEF PathInv
    <3> QED
      BY <2>1, <3>2
  <2>3. CASE open /\ pool = flusher.pool
    BY <1>1, <2>1, <2>2, <2>3 DEF FlushIsolated
  <2>4. CASE ~open
    BY <1>1, <2>1, <2>2, <2>4 DEF CallerInv
  <2> QED
    BY <1>1, <2>1, <2>2, <2>3, <2>4 DEF TypeOK
<1>5. pc # "down" /\ pc # "spawn"
  BY <1>1 DEF FlusherInv, CallerInv
<1>6. CallerInv'
  <2>1. open' => pool \in DOMAIN files' /\ files'[pool] = files[pool]
    BY <1>1, <1>2, <1>4 DEF CallerInv
  <2> QED
    BY <1>1, <1>4, <1>5, <2>1 DEF CallerInv, Full
<1>7. AckedInv' /\ FlusherInv' /\ PathInv' /\ FlushIsolated' /\ FlushProgress'
  BY <1>1, <1>2 DEF AckedInv, FlusherInv, PathInv, FlushIsolated, FlushProgress, NoFlush
<1>8. LookupSound'
  <2> SUFFICES ASSUME pc \in {"idle", "tx", "join", "spawn"}, NEW k \in Keys, lookup_table[k] # 0
               PROVE  /\ lookup_table[k] \in DOMAIN files'[pool]
                      /\ files'[pool][lookup_table[k]].key = k
    BY <1>1 DEF LookupSound
  <2>1. open'
    BY <1>4 DEF EmptyLookup
  <2>2. files'[pool] = files[pool]
    BY <1>1, <1>2, <1>4, <2>1 DEF CallerInv
  <2> QED
    BY <2>2 DEF LookupSound
<1>9. ~FsyncMayFail /\ ~ReopenMayFail => Durable'
  <2> SUFFICES ASSUME ~FsyncMayFail, ~ReopenMayFail,
                      NEW k \in Keys, NEW t, t = acked[k], t # NoTuple
               PROVE  InPool(t)' \/ OnDisk(t)'
    BY <1>1 DEF Durable, InPool, OnDisk
  <2>1. OnDisk(t) => OnDisk(t)'
    BY <1>1 DEF OnDisk
  <2>2. flusher.path = flusher.pool
    BY <1>1 DEF PathInv
  <2>3. ASSUME InPool(t) PROVE InPool(t)' \/ OnDisk(t)'
    <3>1. PICK q \in DOMAIN files : \E i \in DOMAIN files[q] : files[q][i] = t
      BY <2>3 DEF InPool
    <3>2. CASE q = flusher.pool
      BY <1>1, <2>1, <3>1, <3>2 DEF FlushProgress
    <3>3. CASE q # flusher.pool
      BY <1>2, <2>2, <3>1, <3>3 DEF InPool
    <3> QED
      BY <3>2, <3>3
  <2> QED
    BY <2>1, <2>3 DEF Durable
<1> QED
  BY <1>3, <1>6, <1>7, <1>8, <1>9

(* A flush that throws leaves every pool in place.                         *)
LEMMA FlushThrowsInv ==
  ASSUME IInv, FlushThrows, flusher.pc # "none",
         UNCHANGED caller \/ (flusher.pc = "unlink" /\ Close),
         disk' \in FileType(Tuple), faults' \in 0 .. MaxFaults,
         disk.synced <= disk'.synced,
         \A i \in 1 .. disk.synced : disk'.data[i] = disk.data[i]
  PROVE  IInv'
<1> USE DEF IInv
<1>1. /\ flusher' = NoFlush /\ flush_result' = "error"
      /\ open' = open \/ (flusher.pc = "unlink" /\ open' = (open /\ pool # flusher.pool))
      /\ UNCHANGED <<files, pc, req, pool, pool_counter, lookup_table, acked, writes>>
  BY DEF FlushThrows, Close, caller, handle
<1>2. pc # "down" /\ pc # "spawn"
  BY DEF FlusherInv, CallerInv
<1>3. TypeOK'
  BY <1>1 DEF TypeOK, NoFlush
<1>4. /\ AckedInv' /\ CallerInv' /\ FlusherInv' /\ PathInv' /\ FlushIsolated' /\ FlushProgress'
      /\ LookupSound'
  BY <1>1, <1>2
     DEF TypeOK, AckedInv, CallerInv, FlusherInv, PathInv, FlushIsolated, FlushProgress, LookupSound,
         NoFlush, Full
<1>5. Durable => Durable'
  <2>1. disk.synced \in Nat /\ disk'.synced \in Nat
    BY DEF TypeOK, FileType
  <2> QED
    BY <1>1, <2>1 DEF Durable, InPool, OnDisk
<1> QED
  BY <1>3, <1>4, <1>5

(* A flush that cannot open the file ends and keeps its pool.              *)
LEMMA FlushOpenDeniedInv == IInv /\ FlushOpenDenied => IInv'
<1> SUFFICES ASSUME IInv, FlushOpenDenied PROVE IInv'
  OBVIOUS
<1>1. /\ FlushThrows /\ flusher.pc # "none" /\ UNCHANGED <<disk, caller, faults>>
  BY DEF FlushOpenDenied
<1>2. /\ disk' \in FileType(Tuple) /\ faults' \in 0 .. MaxFaults /\ disk.synced \in Nat
  BY <1>1 DEF IInv, TypeOK, FileType
<1> QED
  BY <1>1, <1>2, FlushThrowsInv

(* So does one that finds no file at its path.                             *)
LEMMA FlushUnlinkDeniedInv == IInv /\ FlushUnlinkDenied => IInv'
<1> SUFFICES ASSUME IInv, FlushUnlinkDenied PROVE IInv'
  OBVIOUS
<1>1. /\ FlushThrows /\ flusher.pc = "unlink" /\ Close /\ disk' = disk /\ faults' = faults
  BY DEF FlushUnlinkDenied
<1>2. /\ disk' \in FileType(Tuple) /\ faults' \in 0 .. MaxFaults /\ disk.synced \in Nat
  BY <1>1 DEF IInv, TypeOK, FileType
<1> QED
  BY <1>1, <1>2, FlushThrowsInv

(* A flush that fails ends with an error and keeps its pool.               *)
LEMMA FlushIOErrorInv == IInv /\ FlushIOError => IInv'
<1> SUFFICES ASSUME IInv, FlushIOError PROVE IInv'
  OBVIOUS
<1>1. /\ FlushThrows /\ flusher.pc # "none"
      /\ UNCHANGED caller \/ (flusher.pc = "unlink" /\ Close)
      /\ faults < MaxFaults /\ faults' = faults + 1
      /\ disk' = disk \/ disk' = Write(disk, Torn)
  BY DEF FlushIOError, ShortWrite
<1>2. faults' \in 0 .. MaxFaults
  BY <1>1, NVRecAssumption, TupleAssumption DEF IInv, TypeOK
<1>3. disk \in FileType(Tuple)
  BY DEF IInv, TypeOK
<1>4. disk' \in FileType(Tuple) /\ disk'.synced = disk.synced
      /\ \A i \in DOMAIN disk.data : disk'.data[i] = disk.data[i]
  BY <1>1, <1>3, WriteFile
<1>5. disk.synced <= disk'.synced /\ \A i \in 1 .. disk.synced : disk'.data[i] = disk.data[i]
  BY <1>3, <1>4 DEF FileType
<1> QED
  BY <1>1, <1>2, <1>4, <1>5, FlushThrowsInv

-------------------------------------------------------------------------------
(* The end of a process.                                                   *)

(* Whatever dies with the process, the pools and the durable prefix of the *)
(* log stay.                                                               *)
LEMMA LoseMemoryInv ==
  ASSUME IInv, LoseMemory,
         disk' \in FileType(Tuple), faults' \in 0 .. MaxFaults,
         disk.synced <= disk'.synced,
         \A i \in 1 .. disk.synced : disk'.data[i] = disk.data[i]
  PROVE  IInv'
<1> USE DEF IInv
<1>1. /\ pc' = "down" /\ req' = NoTuple /\ pool' = 0 /\ open' = FALSE /\ pool_counter' = 0
      /\ lookup_table' = EmptyLookup
      /\ flush_result' = "invalid" /\ flusher' = NoFlush
      /\ UNCHANGED <<files, acked, writes>>
  BY DEF LoseMemory
<1>2. TypeOK'
  BY <1>1 DEF TypeOK, NoFlush, EmptyLookup
<1>3. /\ AckedInv' /\ CallerInv' /\ FlusherInv' /\ PathInv' /\ FlushIsolated' /\ FlushProgress'
      /\ LookupSound'
  BY <1>1
     DEF AckedInv, CallerInv, FlusherInv, PathInv, FlushIsolated, FlushProgress, LookupSound, NoFlush,
         EmptyLookup
<1>4. Durable => Durable'
  <2>1. disk.synced \in Nat /\ disk'.synced \in Nat
    BY DEF TypeOK, FileType
  <2> QED
    BY <1>1, <2>1 DEF Durable, InPool, OnDisk
<1> QED
  BY <1>2, <1>3, <1>4

(* The end of the program, by std::terminate, by the use of a closed pool  *)
(* or after the destructor, keeps the files.                               *)
LEMMA EndInv ==
  IInv /\ (Terminate \/ Destroyed \/ UseClosed \/ FlushOnClosed) => IInv'
<1> SUFFICES ASSUME IInv, Terminate \/ Destroyed \/ UseClosed \/ FlushOnClosed PROVE IInv'
  OBVIOUS
<1>1. LoseMemory /\ disk' = disk /\ faults' = faults
  BY DEF Terminate, Destroyed, UseClosed, FlushOnClosed
<1>2. disk' \in FileType(Tuple) /\ faults' \in 0 .. MaxFaults /\ disk.synced \in Nat
  BY <1>1 DEF IInv, TypeOK, FileType
<1> QED
  BY <1>1, <1>2, LoseMemoryInv

(* A crash keeps the pools and the synced part of the file.                *)
LEMMA CrashInv == IInv /\ Crash => IInv'
<1> SUFFICES ASSUME IInv, Crash PROVE IInv'
  OBVIOUS
<1>1. LoseMemory /\ disk' \in AfterCrash(disk) /\ faults < MaxFaults /\ faults' = faults + 1
  BY DEF Crash
<1>2. faults' \in 0 .. MaxFaults
  BY <1>1, NVRecAssumption, TupleAssumption DEF IInv, TypeOK
<1>3. /\ disk' \in FileType(Tuple) /\ disk.synced <= disk'.synced
      /\ \A i \in 1 .. disk.synced : disk'.data[i] = disk.data[i]
  BY <1>1, CrashFile DEF IInv, TypeOK
<1> QED
  BY <1>1, <1>2, <1>3, LoseMemoryInv

(* The destructor closes the pool and then waits for the flush.            *)
LEMMA DestroyInv == IInv /\ Destroy => IInv'
<1> SUFFICES ASSUME IInv, Destroy PROVE IInv'
  OBVIOUS
<1> USE DEF IInv
<1>1. pc = "idle" /\ faults < MaxFaults /\ faults' = faults + 1 /\ disk' = disk
  BY DEF Destroy
<1>2. /\ faults' \in 0 .. MaxFaults
      /\ disk' \in FileType(Tuple) /\ disk.synced \in Nat
  BY <1>1, NVRecAssumption, TupleAssumption DEF TypeOK, FileType
<1>3. CASE LoseMemory
  BY <1>1, <1>2, <1>3, LoseMemoryInv
<1>4. CASE ~LoseMemory
  <2>1. /\ pc' = "closing" /\ open' = FALSE
        /\ UNCHANGED <<files, req, pool, pool_counter, lookup_table, flush_result, flusher, acked, writes>>
    BY <1>4 DEF Destroy, flush
  <2>2. TypeOK'
    BY <1>1, <1>2, <2>1 DEF TypeOK
  <2>3. AckedInv' /\ CallerInv' /\ FlusherInv' /\ PathInv' /\ FlushIsolated' /\ LookupSound'
    BY <1>1, <2>1 DEF AckedInv, CallerInv, FlusherInv, PathInv, FlushIsolated, LookupSound, Full
  <2>4. FlushProgress'
    BY <1>1, <2>1 DEF FlushProgress, Written, OnDisk
  <2> QED
    BY <1>1, <2>1, <2>2, <2>3, <2>4, DurableStutter
<1> QED
  BY <1>3, <1>4

(* A pool that cannot be created ends the process, or leaves the engine    *)
(* with the pool it had and the number of one that does not exist.         *)
LEMMA OpenPoolFailsInv == IInv /\ OpenPoolFails => IInv'
<1> SUFFICES ASSUME IInv, OpenPoolFails PROVE IInv'
  OBVIOUS
<1> USE DEF IInv
<1>1. /\ pc = "open" /\ faults < MaxFaults /\ faults' = faults + 1 /\ disk' = disk
      /\ ~ReopenMayFail => pool_counter + 1 \notin DOMAIN files
  BY DEF OpenPoolFails, NextPoolPath
<1>2. /\ faults' \in 0 .. MaxFaults
      /\ disk' \in FileType(Tuple) /\ disk.synced \in Nat
  BY <1>1, NVRecAssumption, TupleAssumption DEF TypeOK, FileType
<1>3. CASE LoseMemory
  BY <1>1, <1>2, <1>3, LoseMemoryInv
<1>4. CASE ~LoseMemory
  <2>1. /\ pc' = "idle" /\ req' = NoTuple /\ pool_counter' = pool_counter + 1
        /\ UNCHANGED <<files, pool, open, lookup_table, flush_result, flusher, acked, writes>>
    BY <1>4 DEF OpenPoolFails, NextPoolPath, flush
  <2>2. TypeOK'
    BY <1>1, <1>2, <2>1 DEF TypeOK
  <2>3. AckedInv' /\ CallerInv' /\ FlusherInv' /\ FlushIsolated' /\ LookupSound'
    BY <1>1, <2>1 DEF AckedInv, CallerInv, FlusherInv, FlushIsolated, LookupSound, Full, EmptyLookup
  <2>4. PathInv'
    BY <1>1, <2>1 DEF TypeOK, PathInv
  <2>5. FlushProgress'
    BY <1>1, <2>1 DEF FlushProgress, Written, OnDisk
  <2> QED
    BY <1>1, <2>1, <2>2, <2>3, <2>4, <2>5, DurableStutter
<1> QED
  BY <1>3, <1>4

-------------------------------------------------------------------------------
(* The invariant and what follows from it.                                 *)

(* A step that changes no variable keeps the invariant.                    *)
LEMMA StutterInv == IInv /\ UNCHANGED vars => IInv'
BY DEF IInv, vars, handle, TypeOK, AckedInv, CallerInv, FlusherInv, PathInv, FlushIsolated, LookupSound,
       FlushProgress, Written, Durable, InPool, OnDisk, Full

(* Every step keeps the invariant.                                         *)
LEMMA NextInv == IInv /\ [Next]_vars => IInv'
<1> SUFFICES ASSUME IInv, [Next]_vars PROVE IInv'
  OBVIOUS
<1>1. CASE Construct
  BY <1>1, ConstructInv
<1>2. ASSUME NEW k \in Keys, PersistUpdate(k) \/ PersistDelete(k) PROVE IInv'
  <2>1. writes + 1 \in 1 .. MaxWrites
    BY <1>2, NVRecAssumption, TupleAssumption DEF PersistUpdate, PersistDelete, IInv, TypeOK
  <2>2. PICK d \in BOOLEAN : Call([key |-> k, deleted |-> d, ver |-> writes + 1])
    BY <1>2 DEF PersistUpdate, PersistDelete
  <2>3. [key |-> k, deleted |-> d, ver |-> writes + 1] \in Tuple
    BY <2>1 DEF Tuple
  <2> QED
    BY <2>2, <2>3, CallInv
<1>3. CASE Recover
  BY <1>3, StutterInv DEF Recover
<1>4. CASE Caller
  BY <1>4, TxInsertInv, TxOverwriteInv, TxAbortInv, JoinInv, RethrowInv, SpawnInv,
     OpenNextPoolInv, EndInv DEF Caller
<1>5. CASE Flusher
  BY <1>5, FlushOpenInv, FlushWriteInv, FlushSyncInv, FlushUnlinkInv, FlushOpenDeniedInv,
     FlushUnlinkDeniedInv, EndInv DEF Flusher
<1>6. CASE FlushIOError
  BY <1>6, FlushIOErrorInv
<1>7. CASE Crash
  BY <1>7, CrashInv
<1>8. CASE Destroy
  BY <1>8, DestroyInv
<1>9. CASE OpenPoolFails
  BY <1>9, OpenPoolFailsInv
<1>10. CASE UNCHANGED vars
  BY <1>10, StutterInv
<1> QED
  BY <1>1, <1>2, <1>3, <1>4, <1>5, <1>6, <1>7, <1>8, <1>9, <1>10 DEF Next

(* The inductive invariant holds in every reachable state.                 *)
THEOREM Invariance == Spec => []IInv
BY InitInv, NextInv, PTL DEF Spec

(* The variables keep their types: in particular every list has tuples     *)
(* only, and the durable part of the log never exceeds its data.           *)
THEOREM TypeCorrect == Spec => []TypeOK
<1>1. IInv => TypeOK
  BY DEF IInv
<1> QED
  BY <1>1, Invariance, PTL

(* lookup_table_ refers to nodes of the current pool that hold its keys,   *)
(* through every rotation, restart and failure.                            *)
THEOREM LookupIsSound == Spec => []LookupSound
<1>1. IInv => LookupSound
  BY DEF IInv
<1> QED
  BY <1>1, Invariance, PTL

(* The flush thread and the caller never work on the same pool, and the    *)
(* pool being flushed exists.                                              *)
THEOREM FlushIsIsolated == Spec => []FlushIsolated
<1>1. IInv => FlushIsolated
  BY DEF IInv
<1> QED
  BY <1>1, Invariance, PTL

(* When fsync reports no failure the code ignores, and a pool file that    *)
(* exists can be opened, an acknowledged tuple is never lost: neither by a *)
(* rotation, nor by a crash at any point of one, nor by a failing flush,   *)
(* nor by a next pool that cannot be created, nor by a restart on the      *)
(* files left behind.                                                      *)
THEOREM AckedIsDurable ==
  ASSUME ~FsyncMayFail, ~ReopenMayFail
  PROVE  Spec => []Durable
<1>1. IInv => Durable
  BY DEF IInv
<1> QED
  BY <1>1, Invariance, PTL

(* A pool is unlinked only after all of its tuples are durable on disk.    *)
THEOREM UnlinkIsSafe ==
  ASSUME ~FsyncMayFail, ~ReopenMayFail
  PROVE  Spec => UnlinkOnlyDurable
<1>1. ASSUME IInv, [Next]_vars
      PROVE  [\A p \in DOMAIN files \ DOMAIN files' :
                \A i \in DOMAIN files[p] : OnDisk(files[p][i])]_vars
  <2>1. CASE FlushUnlink
    <3>1. \A i \in DOMAIN files[flusher.pool] : OnDisk(files[flusher.pool][i])
      BY <1>1, <2>1 DEF IInv, FlushProgress, FlushUnlink
    <3>2. DOMAIN files' = DOMAIN files \ {flusher.path} /\ flusher.path = flusher.pool
      BY <1>1, <2>1, UnlinkPool DEF IInv, PathInv, FlushUnlink
    <3> QED
      BY <3>1, <3>2
  <2>2. CASE ~FlushUnlink
    <3>1. DOMAIN files \subseteq DOMAIN files'
      <4>1. CASE TxInsert \/ TxOverwrite
        BY <4>1 DEF TxInsert, TxOverwrite, Insert, Overwrite
      <4>2. CASE Construct \/ OpenNextPool
        BY <4>2 DEF Construct, OpenNextPool, NextPoolPath, MakePersistentListPool
      <4>3. CASE UNCHANGED files
        BY <4>3
      <4> QED
        BY <1>1, <2>2, <4>1, <4>2, <4>3
           DEF Next, Caller, Flusher, PersistUpdate, PersistDelete, Call, Recover, TxAbort, Join,
               Spawn, Terminate, Rethrow, UseClosed, Destroyed, FlushOpen, FlushWrite, FlushSync,
               FlushOpenDenied, FlushUnlinkDenied, FlushOnClosed, FlushThrows, FlushIOError,
               OpenPoolFails, Crash, Destroy, LoseMemory, media, vars
    <3> QED
      BY <3>1
  <2> QED
    BY <2>1, <2>2
<1> QED
  BY <1>1, Invariance, PTL DEF Spec, UnlinkOnlyDurable

-------------------------------------------------------------------------------
(***************************************************************************)
(* While one process lives undisturbed: DiskOrdered, PoolsBounded and the  *)
(* steps of DurableStore.  What they need beyond IInv is where the newest  *)
(* tuple of each key is: in the current pool, in the part of the old pool  *)
(* that the flush thread has still to copy, or at the end of the disk log. *)
(***************************************************************************)

(* The list the caller works on, and the one the flush thread copies; its  *)
(* nodes that are not in the disk log yet.                                 *)
Cur == IF pc \in {"open", "down"} THEN << >> ELSE files[pool]
Old == IF flusher.pc = "none" THEN << >> ELSE files[flusher.pool]
Left(i) == flusher.pc = "open" \/ (flusher.pc = "write" /\ i <= flusher.current)

(* There are no other pools, and neither a flush nor the creation of a     *)
(* pool has failed.                                                        *)
PoolsInv ==
  /\ flush_result # "error" /\ pc # "closing" /\ flusher.pc # "lost"
  /\ pc \notin {"open", "down"} => open
  /\ pool = pool_counter
  /\ flusher.pc = "none" => flusher.pool = 0
  /\ flusher.pc # "none" => flusher.path = flusher.pool /\ (pc = "open" <=> flusher.pool = pool)
  /\ \A p \in DOMAIN files :
       \/ p = pool /\ pc \notin {"open", "down"}
       \/ p = flusher.pool /\ flusher.pc # "none"

(* A node of the current pool is the only one of its key, and holds the    *)
(* acknowledged tuple.                                                     *)
CurInv ==
  \A i \in DOMAIN Cur : lookup_table[Cur[i].key] = i /\ acked[Cur[i].key] = Cur[i]

(* So does a node of the old pool whose key is not in the current one.     *)
OldInv ==
  /\ \A i, j \in DOMAIN Old : Old[i].key = Old[j].key => i = j
  /\ \A i \in DOMAIN Old : lookup_table[Old[i].key] = 0 => acked[Old[i].key] = Old[i]

(* Of every other key the disk log has the acknowledged tuple last.        *)
LastInv ==
  \A k \in Keys :
    /\ lookup_table[k] = 0
    /\ \A i \in DOMAIN Old : Old[i].key = k => ~Left(i)
    => LastOf(disk.data, k) = acked[k]

(* Everything on the media is older than the call under way.               *)
Busy == pc \in {"tx", "join", "spawn", "open"}
Older(t) == t.ver <= writes /\ (Busy => t.ver < writes)

VersionInv ==
  /\ Busy => req.ver = writes
  /\ \A i \in DOMAIN disk.data : disk.data[i] # Torn /\ Older(disk.data[i])
  /\ \A i \in DOMAIN Old : Older(Old[i])
  /\ \A i \in DOMAIN Cur : Older(Cur[i])

(* The tuples of a key are in the order of their calls: the disk log, then *)
(* what is left of the old pool, then the current pool.                    *)
Before(t, u) == t.key = u.key => t.ver < u.ver

OrderInv ==
  /\ \A i, j \in DOMAIN disk.data : i < j => Before(disk.data[i], disk.data[j])
  /\ \A i \in DOMAIN disk.data, j \in DOMAIN Old : Left(j) => Before(disk.data[i], Old[j])
  /\ \A i \in DOMAIN disk.data, j \in DOMAIN Cur : Before(disk.data[i], Cur[j])
  /\ \A i \in DOMAIN Old, j \in DOMAIN Cur : Before(Old[i], Cur[j])

(* The invariant of an undisturbed process.                                *)
StoreInv ==
  /\ PoolsInv
  /\ CurInv
  /\ OldInv
  /\ LastInv
  /\ VersionInv
  /\ OrderInv

UInv == Undisturbed => StoreInv

-------------------------------------------------------------------------------
(* Lemmas about the three places.                                          *)

(* The lists are sequences of tuples.                                      *)
LEMMA ListTypes ==
  ASSUME IInv, PoolsInv
  PROVE  /\ Cur \in Seq(Tuple) /\ Len(Cur) \in Nat /\ DOMAIN Cur = 1 .. Len(Cur)
         /\ Old \in Seq(Tuple) /\ Len(Old) \in Nat /\ DOMAIN Old = 1 .. Len(Old)
<1>1. << >> \in Seq(Tuple)
  OBVIOUS
<1>2. Cur \in Seq(Tuple)
  BY <1>1 DEF IInv, TypeOK, CallerInv, PoolsInv, Cur
<1>3. Old \in Seq(Tuple)
  BY <1>1 DEF IInv, TypeOK, FlushIsolated, PoolsInv, Old
<1> QED
  BY <1>2, <1>3

(* So is the disk log, when nothing in it is torn.                         *)
LEMMA DiskTuples ==
  ASSUME IInv, StoreInv
  PROVE  /\ Len(disk.data) \in Nat /\ DOMAIN disk.data = 1 .. Len(disk.data)
         /\ \A i \in DOMAIN disk.data : disk.data[i] \in Tuple
<1>1. /\ disk.data \in Seq(Entry) /\ Len(disk.data) \in Nat
      /\ DOMAIN disk.data = 1 .. Len(disk.data)
  BY FileParts DEF IInv, TypeOK
<1>2. \A i \in DOMAIN disk.data : disk.data[i] \in Entry /\ disk.data[i] # Torn
  BY <1>1 DEF StoreInv, VersionInv
<1> QED
  BY <1>1, <1>2 DEF Entry

(* An entry of lookup_table_ leads to a node of the current list.          *)
LEMMA LookupNode ==
  ASSUME IInv, PoolsInv, NEW k \in Keys, lookup_table[k] # 0
  PROVE  lookup_table[k] \in DOMAIN Cur /\ Cur[lookup_table[k]].key = k
<1>1. pc \notin {"open", "down"}
  BY DEF IInv, CallerInv, EmptyLookup
<1>2. pc \in {"idle", "tx", "join", "spawn"}
  BY <1>1 DEF IInv, TypeOK, PoolsInv
<1> QED
  BY <1>1, <1>2 DEF IInv, LookupSound, Cur

(* Steps that change neither the lists, nor the disk log, nor what is left *)
(* to copy.                                                                *)
LEMMA QuietStore ==
  ASSUME StoreInv, PoolsInv', VersionInv', Cur' = Cur, Old' = Old,
         disk'.data = disk.data, lookup_table' = lookup_table, acked' = acked,
         \A i \in DOMAIN Old : Left(i)' <=> Left(i)
  PROVE  StoreInv'
<1> USE DEF StoreInv
<1>1. CurInv' /\ OldInv'
  BY DEF CurInv, OldInv
<1>2. LastInv'
  BY DEF LastInv
<1>3. OrderInv'
  BY DEF OrderInv
<1> QED
  BY <1>1, <1>2, <1>3

(* The versions stay below those of the call when there is no new call.    *)
LEMMA QuietVersions ==
  ASSUME VersionInv, Cur' = Cur, Old' = Old, disk'.data = disk.data,
         writes' = writes, req' = req, Busy' => Busy
  PROVE  VersionInv'
BY DEF VersionInv, Older

-------------------------------------------------------------------------------
(* Steps of the caller.                                                    *)

(* The constructor adds no write.                                          *)
LEMMA ConstructStore ==
  ASSUME IInv, StoreInv, Construct
  PROVE  StoreInv'
<1> USE DEF StoreInv
<1>1. /\ pc = "down" /\ pc' = "idle" /\ files' = MakePersistentListPool(0)
      /\ open'
      /\ UNCHANGED <<disk, req, pool, pool_counter, lookup_table, flush_result, flusher, acked, writes, faults>>
  BY DEF Construct, handle, flush
<1>2. /\ pool = 0 /\ pool_counter = 0 /\ flusher.pc = "none"
  BY <1>1 DEF IInv, CallerInv, FlusherInv
<1>3. DOMAIN files = {}
  BY <1>1, <1>2 DEF PoolsInv
<1>4. files' = [q \in {0} |-> << >>]
  BY <1>1, <1>3 DEF MakePersistentListPool
<1>5. Cur' = << >> /\ Cur = << >> /\ Old' = << >> /\ Old = << >>
  BY <1>1, <1>2, <1>4 DEF Cur, Old
<1>6. PoolsInv'
  BY <1>1, <1>2, <1>4 DEF PoolsInv
<1>7. VersionInv'
  BY <1>1, <1>5, QuietVersions DEF Busy
<1> QED
  BY <1>1, <1>5, <1>6, <1>7, QuietStore

(* A call has the next version, newer than all that is stored.             *)
LEMMA CallStore ==
  ASSUME IInv, StoreInv, NEW t \in Tuple, Call(t), t.ver = writes + 1
  PROVE  StoreInv'
<1> USE DEF StoreInv
<1>1. /\ pc = "idle" /\ pc' = "tx" /\ req' = t /\ writes' = writes + 1
      /\ UNCHANGED <<files, disk, pool, open, pool_counter, lookup_table, flush_result, flusher, acked, faults>>
  BY DEF Call, media, handle, flush
<1>2. Cur' = Cur /\ Old' = Old /\ \A i : Left(i)' <=> Left(i)
  BY <1>1 DEF Cur, Old, Left
<1>3. PoolsInv'
  BY <1>1 DEF PoolsInv
<1>4. writes \in Nat
  BY TupleAssumption DEF IInv, TypeOK
<1>5. ASSUME NEW u \in Tuple, Older(u) PROVE Older(u)'
  <2>1. u.ver \in Nat /\ u.ver <= writes
    BY <1>5, TupleParts DEF Older
  <2> QED
    BY <1>1, <1>4, <2>1 DEF Older
<1>6. VersionInv'
  <2>1. /\ \A i \in DOMAIN disk.data : disk.data[i] \in Tuple
        /\ \A i \in DOMAIN Old : Old[i] \in Tuple
        /\ \A i \in DOMAIN Cur : Cur[i] \in Tuple
    BY <1>1, DiskTuples, ListTypes
  <2>2. Busy' => req'.ver = writes'
    BY <1>1
  <2>3. \A i \in DOMAIN disk.data : disk.data[i] # Torn /\ Older(disk.data[i])'
    BY <1>1, <1>5, <2>1 DEF VersionInv, Older
  <2>4. /\ \A i \in DOMAIN Old : Older(Old[i])'
        /\ \A i \in DOMAIN Cur : Older(Cur[i])'
    BY <1>2, <1>5, <2>1 DEF VersionInv, Older
  <2> QED
    BY <1>1, <1>2, <2>2, <2>3, <2>4 DEF VersionInv, Older
<1> QED
  BY <1>1, <1>2, <1>3, <1>6, QuietStore

(* A transaction that aborts, the wait for the last flush, the next pool.  *)
LEMMA RotateStore ==
  ASSUME IInv, StoreInv, TxAbort \/ Join \/ OpenNextPool
  PROVE  StoreInv'
<1> USE DEF StoreInv
<1>1. /\ UNCHANGED <<disk, req, lookup_table, flusher, acked, writes, faults>>
      /\ \A i : Left(i)' <=> Left(i)
  BY DEF TxAbort, Join, OpenNextPool, media, handle, flush, Left
<1>2. Busy /\ Busy'
  BY DEF TxAbort, Join, OpenNextPool, Busy
<1>3. CASE TxAbort \/ Join
  <2>1. /\ UNCHANGED <<files, pool, open, pool_counter>>
        /\ pc \in {"tx", "join"} /\ pc' \in {"join", "spawn"}
        /\ flush_result' \in {flush_result, "invalid"}
    BY <1>3 DEF TxAbort, Join, media, handle, flush
  <2>2. PoolsInv'
    BY <1>1, <2>1 DEF PoolsInv
  <2>3. Cur' = Cur /\ Old' = Old
    BY <1>1, <2>1 DEF Cur, Old
  <2>4. VersionInv'
    BY <1>1, <1>2, <2>3, QuietVersions
  <2> QED
    BY <1>1, <2>2, <2>3, <2>4, QuietStore
<1>4. CASE OpenNextPool
  <2>1. /\ pc = "open" /\ pc' = "tx"
        /\ pool' = pool_counter + 1 /\ open' /\ pool_counter' = pool_counter + 1
        /\ files' = MakePersistentListPool(pool_counter + 1) /\ flush_result' = flush_result
    BY <1>4 DEF OpenNextPool, NextPoolPath, handle, flush
  <2>2. pool_counter \in Nat /\ pool_counter + 1 # pool_counter /\ pool = pool_counter
    BY DEF IInv, TypeOK, PoolsInv
  <2>3. \A p \in DOMAIN files : p = flusher.pool /\ flusher.pc # "none" /\ p = pool
    BY <2>1 DEF PoolsInv
  <2>4. pool_counter + 1 \notin DOMAIN files
    BY <2>2, <2>3
  <2>5. /\ DOMAIN files' = DOMAIN files \cup {pool_counter + 1}
        /\ files'[pool_counter + 1] = << >>
        /\ \A q \in DOMAIN files : files'[q] = files[q]
    BY <2>1, <2>4 DEF MakePersistentListPool
  <2>6. Cur' = << >> /\ Cur = << >>
    BY <2>1, <2>5 DEF Cur
  <2>7. Old' = Old
    BY <1>1, <2>5 DEF Old, IInv, TypeOK, PoolsInv, FlushIsolated
  <2>8. PoolsInv'
    BY <1>1, <2>1, <2>2, <2>3, <2>5 DEF PoolsInv
  <2>9. VersionInv'
    BY <1>1, <1>2, <2>6, <2>7, QuietVersions
  <2> QED
    BY <1>1, <2>6, <2>7, <2>8, <2>9, QuietStore
<1> QED
  BY <1>3, <1>4

(* The current pool becomes the old one, with everything left to copy.     *)
LEMMA SpawnStore ==
  ASSUME IInv, StoreInv, Spawn
  PROVE  StoreInv'
<1> USE DEF StoreInv
<1>1. /\ pc = "spawn" /\ pc' = "open"
      /\ flusher' = [pc |-> "open", pool |-> pool, path |-> pool_counter, current |-> 0]
      /\ flush_result' = "pending" /\ lookup_table' = EmptyLookup
      /\ UNCHANGED <<files, disk, req, pool, open, pool_counter, acked, writes, faults>>
  BY DEF Spawn, FlushOf, PoolsInv, media, handle
<1>2. flusher.pc = "none"
  BY <1>1 DEF IInv, CallerInv, FlusherInv
<1>3. Old = << >> /\ Cur' = << >> /\ Old' = Cur /\ \A i : Left(i)'
  BY <1>1, <1>2 DEF Old, Cur, Left
<1>4. PoolsInv'
  BY <1>1, <1>2 DEF PoolsInv
<1>5. CurInv'
  BY <1>3 DEF CurInv
<1>6. OldInv'
  BY <1>1, <1>3 DEF OldInv, CurInv
<1>7. LastInv'
  <2> SUFFICES ASSUME NEW k \in Keys, \A i \in DOMAIN Cur : Cur[i].key # k
               PROVE  LastOf(disk.data, k) = acked[k]
    BY <1>1, <1>3 DEF LastInv
  <2>1. lookup_table[k] = 0
    BY <1>1, LookupNode
  <2> QED
    BY <1>3, <2>1 DEF LastInv
<1>8. Busy /\ Busy'
  BY <1>1 DEF Busy
<1>9. VersionInv'
  BY <1>1, <1>3, <1>8 DEF VersionInv, Older
<1>10. OrderInv'
  BY <1>1, <1>3 DEF OrderInv
<1> QED
  BY <1>4, <1>5, <1>6, <1>7, <1>9, <1>10

(* Node m of the current list becomes the tuple of the call: the node that *)
(* the key has, or a new one when it has none.                             *)
NodeWritten(m) ==
  /\ \/ m \in DOMAIN Cur /\ lookup_table[req.key] = m
     \/ m = Len(Cur) + 1 /\ lookup_table[req.key] = 0
  /\ DOMAIN Cur' = DOMAIN Cur \cup {m}
  /\ \A i \in DOMAIN Cur : i # m => Cur'[i] = Cur[i]
  /\ Cur'[m] = req

(* The node of the key is written, and with it the newest version of the   *)
(* key.                                                                    *)
LEMMA WriteNodeStore ==
  ASSUME IInv, StoreInv, pc = "tx", pc' = "idle", NEW m, NodeWritten(m), Old' = Old,
         lookup_table' = [lookup_table EXCEPT ![req.key] = m],
         acked' = [acked EXCEPT ![req.key] = req],
         PoolsInv', UNCHANGED <<disk, flusher, writes>>
  PROVE  StoreInv'
<1> USE DEF StoreInv
<1>1. /\ Cur \in Seq(Tuple) /\ Len(Cur) \in Nat /\ DOMAIN Cur = 1 .. Len(Cur)
      /\ Old \in Seq(Tuple)
  BY ListTypes
<1>2. /\ req \in Tuple /\ req.key \in Keys /\ req.ver \in Nat /\ req.ver = writes
  BY TupleParts DEF IInv, CallerInv, VersionInv, Busy
<1>3. m \in Nat /\ m # 0
  BY <1>1 DEF NodeWritten
<1>4. ASSUME NEW i \in DOMAIN Cur, i # m
      PROVE  Cur'[i] = Cur[i] /\ Cur[i] \in Tuple /\ Cur[i].key \in Keys /\ Cur[i].key # req.key
  <2>1. Cur'[i] = Cur[i] /\ Cur[i] \in Tuple /\ lookup_table[Cur[i].key] = i /\ i # 0
    BY <1>1, <1>4 DEF NodeWritten, CurInv
  <2>2. lookup_table[req.key] = m \/ lookup_table[req.key] = 0
    BY DEF NodeWritten
  <2> QED
    BY <1>4, <2>1, <2>2, TupleParts
<1>5. ASSUME NEW k \in Keys
      PROVE  /\ k = req.key => lookup_table'[k] = m /\ acked'[k] = req
             /\ k # req.key => lookup_table'[k] = lookup_table[k] /\ acked'[k] = acked[k]
  BY DEF IInv, TypeOK
<1>6. CurInv'
  <2> SUFFICES ASSUME NEW i \in DOMAIN Cur'
               PROVE  lookup_table'[Cur'[i].key] = i /\ acked'[Cur'[i].key] = Cur'[i]
    BY DEF CurInv
  <2>1. CASE i = m
    BY <1>2, <1>5, <2>1 DEF NodeWritten
  <2>2. CASE i # m
    <3>1. i \in DOMAIN Cur
      BY <2>2 DEF NodeWritten
    <3> QED
      BY <1>4, <1>5, <2>2, <3>1 DEF CurInv
  <2> QED
    BY <2>1, <2>2
<1>7. OldInv'
  <2>1. ASSUME NEW i \in DOMAIN Old, lookup_table'[Old[i].key] = 0
        PROVE  acked'[Old[i].key] = Old[i]
    <3>1. Old[i].key \in Keys
      BY <1>1, TupleParts
    <3>2. Old[i].key # req.key
      BY <1>3, <1>5, <2>1, <3>1
    <3> QED
      BY <1>5, <2>1, <3>1, <3>2 DEF OldInv
  <2> QED
    BY <2>1 DEF OldInv
<1>8. LastInv'
  <2> SUFFICES ASSUME NEW k \in Keys, lookup_table'[k] = 0,
                      \A i \in DOMAIN Old : Old[i].key = k => ~Left(i)
               PROVE  LastOf(disk.data, k) = acked'[k]
    BY DEF LastInv, Left
  <2>1. k # req.key
    BY <1>3, <1>5
  <2> QED
    BY <1>5, <2>1 DEF LastInv
<1>9. Busy /\ ~Busy' /\ writes \in Nat
  BY <1>2 DEF Busy
<1>10. VersionInv'
  <2>1. \A i \in DOMAIN Cur' : Older(Cur[i])'
    <3> SUFFICES ASSUME NEW i \in DOMAIN Cur' PROVE Cur'[i].ver <= writes
      BY <1>9 DEF Older
    <3>1. CASE i = m
      BY <1>2, <1>9, <3>1 DEF NodeWritten
    <3>2. CASE i # m
      <4>1. i \in DOMAIN Cur
        BY <3>2 DEF NodeWritten
      <4> QED
        BY <1>4, <3>2, <4>1 DEF VersionInv, Older
    <3> QED
      BY <3>1, <3>2
  <2> QED
    BY <1>9, <2>1 DEF VersionInv, Older
<1>11. OrderInv'
  <2>1. ASSUME NEW t, Older(t), NEW j \in DOMAIN Cur', j \in DOMAIN Cur => Before(t, Cur[j])
        PROVE  Before(t, Cur'[j])
    <3>1. CASE j = m
      BY <1>2, <1>9, <2>1, <3>1 DEF NodeWritten, Before, Older
    <3>2. CASE j # m
      <4>1. j \in DOMAIN Cur /\ Cur'[j] = Cur[j]
        BY <3>2 DEF NodeWritten
      <4> QED
        BY <2>1, <4>1
    <3> QED
      BY <3>1, <3>2
  <2>2. \A i \in DOMAIN disk.data, j \in DOMAIN Cur' : Before(disk.data[i], Cur'[j])
    BY <2>1 DEF OrderInv, VersionInv
  <2>3. \A i \in DOMAIN Old, j \in DOMAIN Cur' : Before(Old[i], Cur'[j])
    BY <2>1 DEF OrderInv, VersionInv
  <2>4. /\ \A i, j \in DOMAIN disk.data : i < j => Before(disk.data[i], disk.data[j])
        /\ \A i \in DOMAIN disk.data, j \in DOMAIN Old : Left(j) => Before(disk.data[i], Old[j])
    BY DEF OrderInv
  <2> QED
    BY <2>2, <2>3, <2>4 DEF OrderInv, Left, Before
<1> QED
  BY <1>6, <1>7, <1>8, <1>10, <1>11

(* Both transactions write one node.                                       *)
LEMMA TxStore ==
  ASSUME IInv, StoreInv, TxInsert \/ TxOverwrite
  PROVE  StoreInv'
<1> USE DEF StoreInv
<1> DEFINE p == pool
<1>1. /\ pc = "tx" /\ pc' = "idle" /\ acked' = [acked EXCEPT ![req.key] = req]
      /\ UNCHANGED <<disk, pool, open, pool_counter, flush_result, flusher, writes, faults>>
  BY DEF TxInsert, TxOverwrite, Return, handle, flush
<1>2. p \in DOMAIN files /\ req \in Tuple /\ req.key \in Keys /\ Cur = files[p]
  BY <1>1, TupleParts DEF IInv, CallerInv, PoolsInv, Cur
<1>3. ASSUME DOMAIN files' = DOMAIN files,
             \A q \in DOMAIN files : q # p => files'[q] = files[q]
      PROVE  PoolsInv' /\ Old' = Old /\ Cur' = files'[p]
  <2>1. PoolsInv'
    BY <1>1, <1>3 DEF PoolsInv
  <2>2. flusher.pc # "none" => flusher.pool \in DOMAIN files /\ flusher.pool # p
    BY <1>1 DEF PoolsInv, IInv, TypeOK, FlushIsolated
  <2> QED
    BY <1>1, <1>3, <2>1, <2>2 DEF Old, Cur
<1>4. CASE TxInsert
  <2> DEFINE m == Len(files[p]) + 1
  <2>1. /\ files' = Insert(p, req) /\ lookup_table[req.key] = 0
        /\ lookup_table' = [lookup_table EXCEPT ![req.key] = m]
    BY <1>4 DEF TxInsert
  <2>2. /\ DOMAIN files' = DOMAIN files
        /\ \A q \in DOMAIN files : q # p => files'[q] = files[q]
        /\ Len(files[p]) \in Nat /\ DOMAIN files[p] = 1 .. Len(files[p])
        /\ DOMAIN files'[p] = 1 .. m
        /\ \A i \in DOMAIN files[p] : files'[p][i] = files[p][i]
        /\ files'[p][m] = req
    BY <1>2, <2>1, InsertPool DEF IInv
  <2>3. PoolsInv' /\ Old' = Old /\ Cur' = files'[p]
    BY <1>3, <2>2
  <2>4. NodeWritten(m)
    <3>1. DOMAIN files'[p] = DOMAIN files[p] \cup {m}
      BY <2>2
    <3> QED
      BY <1>2, <2>1, <2>2, <2>3, <3>1 DEF NodeWritten
  <2> HIDE DEF m
  <2> QED
    BY <1>1, <2>1, <2>3, <2>4, WriteNodeStore
<1>5. CASE TxOverwrite
  <2> DEFINE m == lookup_table[req.key]
  <2>1. /\ m # 0 /\ files' = Overwrite(p, m, req) /\ lookup_table' = lookup_table
    BY <1>5 DEF TxOverwrite
  <2>2. m \in DOMAIN Cur
    BY <1>1, <1>2, <2>1, LookupNode
  <2>3. /\ DOMAIN files' = DOMAIN files
        /\ \A q \in DOMAIN files : q # p => files'[q] = files[q]
        /\ DOMAIN files'[p] = DOMAIN files[p]
        /\ \A j \in DOMAIN files[p] : j # m => files'[p][j] = files[p][j]
        /\ files'[p][m] = req
    BY <1>2, <2>1, <2>2, OverwritePool DEF IInv
  <2>4. PoolsInv' /\ Old' = Old /\ Cur' = files'[p]
    BY <1>3, <2>3
  <2>5. lookup_table' = [lookup_table EXCEPT ![req.key] = m]
    BY <1>2, <2>1 DEF IInv, TypeOK
  <2>6. NodeWritten(m)
    BY <1>2, <2>2, <2>3, <2>4 DEF NodeWritten
  <2> HIDE DEF m
  <2> QED
    BY <1>1, <2>4, <2>5, <2>6, WriteNodeStore
<1> QED
  BY <1>4, <1>5

-------------------------------------------------------------------------------
(* Steps of the flush thread.                                              *)

(* Opening the file moves no write.                                        *)
LEMMA FlushOpenStore ==
  ASSUME IInv, StoreInv, FlushOpen
  PROVE  StoreInv'
<1> USE DEF StoreInv
<1>1. /\ flusher.pc = "open" /\ disk' = Open(disk)
      /\ flusher' = [flusher EXCEPT !.pc = "write", !.current = Len(files[flusher.pool])]
      /\ UNCHANGED <<files, pc, req, pool, open, pool_counter, lookup_table, flush_result, acked, writes, faults>>
  BY DEF FlushOpen, caller, handle
<1>2. disk'.data = disk.data
  BY <1>1, OpenFile DEF IInv, TypeOK
<1>3. Cur' = Cur /\ Old' = Old /\ Old = files[flusher.pool] /\ (Busy' => Busy)
  BY <1>1 DEF Cur, Old, Busy
<1>4. \A i \in DOMAIN Old : Left(i) /\ Left(i)'
  <2>1. Len(Old) \in Nat /\ DOMAIN Old = 1 .. Len(Old)
    BY ListTypes
  <2> QED
    BY <1>1, <1>3, <2>1 DEF Left
<1>5. PoolsInv'
  BY <1>1 DEF PoolsInv
<1>6. VersionInv'
  BY <1>1, <1>2, <1>3, QuietVersions
<1> QED
  BY <1>1, <1>2, <1>3, <1>4, <1>5, <1>6, QuietStore

(* The sync of a pool makes its writes durable.                            *)
LEMMA FlushSyncStore ==
  ASSUME IInv, StoreInv, FlushSync
  PROVE  StoreInv'
<1> USE DEF StoreInv
<1>1. /\ flusher.pc = "write" /\ flusher.current = 0 /\ disk' \in Sync(disk)
      /\ flusher' = [flusher EXCEPT !.pc = "unlink"]
      /\ UNCHANGED <<files, pc, req, pool, open, pool_counter, lookup_table, flush_result, acked, writes, faults>>
  BY DEF FlushSync, caller, handle
<1>2. disk'.data = disk.data
  BY <1>1, SyncFile DEF IInv, TypeOK
<1>3. flusher'.pc = "unlink" /\ flusher'.pool = flusher.pool /\ flusher'.path = flusher.path
  BY <1>1 DEF IInv, TypeOK
<1>4. Cur' = Cur /\ Old' = Old /\ (Busy' => Busy)
  BY <1>1, <1>3 DEF Cur, Old, Busy
<1>5. \A i \in DOMAIN Old : ~Left(i) /\ ~(Left(i)')
  <2>1. Len(Old) \in Nat /\ DOMAIN Old = 1 .. Len(Old)
    BY ListTypes
  <2> QED
    BY <1>1, <1>3, <2>1 DEF Left
<1>6. PoolsInv'
  BY <1>1, <1>3 DEF PoolsInv
<1>7. VersionInv'
  BY <1>1, <1>2, <1>4, QuietVersions
<1> QED
  BY <1>1, <1>2, <1>4, <1>5, <1>6, <1>7, QuietStore

(* The node copied is newer than what the log has of its key, the only one *)
(* of its key in its list, and older than the one in the current list.     *)
LEMMA FlushWriteStore ==
  ASSUME IInv, StoreInv, FlushWrite
  PROVE  StoreInv'
<1> USE DEF StoreInv
<1> DEFINE m == flusher.current
           r == Old[m]
           n == Len(disk.data)
<1>1. /\ flusher.pc = "write" /\ m > 0 /\ disk' = Write(disk, r)
      /\ flusher' = [flusher EXCEPT !.current = @ - 1]
      /\ UNCHANGED <<files, pc, req, pool, open, pool_counter, lookup_table, flush_result, acked, writes, faults>>
  BY DEF FlushWrite, caller, handle, Old
<1>2. /\ Old \in Seq(Tuple) /\ Len(Old) \in Nat /\ DOMAIN Old = 1 .. Len(Old)
      /\ Cur \in Seq(Tuple)
  BY ListTypes
<1>3. m \in Nat /\ m \in DOMAIN Old
  BY <1>1, <1>2 DEF IInv, FlushProgress, TypeOK, Old
<1>4. r \in Tuple /\ r.key \in Keys /\ r # Torn /\ r \in Tuple \cup {Torn}
  BY <1>2, <1>3, TupleParts
<1>5. flusher'.pc = "write" /\ flusher'.pool = flusher.pool /\ flusher'.current = m - 1
  BY <1>1 DEF IInv, TypeOK
<1>6. Cur' = Cur /\ Old' = Old /\ (Busy' <=> Busy)
  BY <1>1, <1>5 DEF Cur, Old, Busy
<1> HIDE DEF r
<1>7. \A i \in DOMAIN Old : (Left(i) <=> i <= m) /\ (Left(i)' <=> i <= m - 1)
  BY <1>1, <1>5 DEF Left
<1>8. /\ disk \in FileType(Tuple) /\ disk' \in FileType(Tuple)
      /\ n \in Nat /\ DOMAIN disk.data = 1 .. n /\ DOMAIN disk'.data = 1 .. (n + 1)
      /\ \A i \in 1 .. n : disk'.data[i] = disk.data[i]
      /\ disk'.data[n + 1] = r
  <2>1. disk \in FileType(Tuple)
    BY DEF IInv, TypeOK
  <2>2. /\ disk' \in FileType(Tuple) /\ Len(disk'.data) = n + 1 /\ disk'.data[n + 1] = r
        /\ \A i \in DOMAIN disk.data : disk'.data[i] = disk.data[i]
    BY <1>1, <1>4, <2>1, WriteFile
  <2>3. DOMAIN disk'.data = 1 .. Len(disk'.data) /\ n \in Nat /\ DOMAIN disk.data = 1 .. n
    BY <2>1, <2>2, FileParts
  <2> QED
    BY <2>1, <2>2, <2>3
<1> HIDE DEF n
<1>9. PoolsInv' /\ CurInv' /\ OldInv'
  BY <1>1, <1>5, <1>6 DEF PoolsInv, CurInv, OldInv
<1>10. LastInv'
  <2> SUFFICES ASSUME NEW k \in Keys, lookup_table[k] = 0,
                      \A i \in DOMAIN Old : Old[i].key = k => ~(i <= m - 1)
               PROVE  LastOf(disk'.data, k) = acked[k]
    BY <1>1, <1>6, <1>7 DEF LastInv
  <2>1. LastOf(disk'.data, k) = IF r.key = k THEN r ELSE LastOf(disk.data, k)
    BY <1>1, <1>4, <1>8, LastWritten DEF VersionInv
  <2>2. CASE r.key = k
    BY <1>3, <2>1, <2>2 DEF OldInv, r
  <2>3. CASE r.key # k
    <3>1. ASSUME NEW i \in DOMAIN Old, Old[i].key = k PROVE ~Left(i)
      <4>1. i # m /\ ~(i <= m - 1)
        BY <2>3, <3>1 DEF r
      <4> QED
        BY <1>2, <1>3, <1>7, <4>1
    <3> QED
      BY <2>1, <2>3, <3>1 DEF LastInv
  <2> QED
    BY <2>2, <2>3
<1>11. VersionInv'
  <2>1. ASSUME NEW i \in 1 .. (n + 1) PROVE disk'.data[i] # Torn /\ Older(disk'.data[i])
    <3>1. CASE i = n + 1
      BY <1>3, <1>4, <1>8, <3>1 DEF VersionInv, r
    <3>2. CASE i \in 1 .. n
      BY <1>8, <3>2 DEF VersionInv
    <3> QED
      BY <1>8, <3>1, <3>2
  <2> QED
    BY <1>1, <1>6, <1>8, <2>1 DEF VersionInv, Older
<1>12. OrderInv'
  <2>1. ASSUME NEW i \in 1 .. (n + 1), NEW j \in 1 .. (n + 1), i < j
        PROVE  Before(disk'.data[i], disk'.data[j])
    <3>1. i \in 1 .. n
      BY <1>8, <2>1
    <3>2. CASE j = n + 1
      <4>1. Left(m)
        BY <1>1 DEF Left, IInv, TypeOK
      <4>2. Before(disk.data[i], r)
        BY <1>3, <1>8, <3>1, <4>1 DEF OrderInv, r
      <4> QED
        BY <1>8, <3>1, <3>2, <4>2
    <3>3. CASE j \in 1 .. n
      BY <1>8, <2>1, <3>1, <3>3 DEF OrderInv
    <3> QED
      BY <1>8, <3>2, <3>3
  <2>2. ASSUME NEW i \in 1 .. (n + 1), NEW j \in DOMAIN Old, j <= m - 1
        PROVE  Before(disk'.data[i], Old[j])
    <3>1. j <= m /\ j # m
      BY <1>2, <1>3, <2>2
    <3>2. CASE i = n + 1
      BY <1>3, <1>8, <3>1, <3>2 DEF OldInv, Before, r
    <3>3. CASE i \in 1 .. n
      BY <1>7, <1>8, <3>1, <3>3 DEF OrderInv
    <3> QED
      BY <1>8, <3>2, <3>3
  <2>3. ASSUME NEW i \in 1 .. (n + 1), NEW j \in DOMAIN Cur
        PROVE  Before(disk'.data[i], Cur[j])
    <3>1. CASE i = n + 1
      BY <1>3, <1>8, <3>1 DEF OrderInv, r
    <3>2. CASE i \in 1 .. n
      BY <1>8, <3>2 DEF OrderInv
    <3> QED
      BY <1>8, <3>1, <3>2
  <2> QED
    BY <1>6, <1>7, <1>8, <2>1, <2>2, <2>3 DEF OrderInv, Before
<1> QED
  BY <1>9, <1>10, <1>11, <1>12

(* Nothing is left to copy when the old pool goes.                         *)
LEMMA FlushUnlinkStore ==
  ASSUME IInv, StoreInv, FlushUnlink
  PROVE  StoreInv'
<1> USE DEF StoreInv
<1>1. /\ flusher.pc = "unlink" /\ flusher' = NoFlush /\ flush_result' = "ready"
      /\ files' = Unlink(flusher.pool) /\ open' = (open /\ pool # flusher.pool)
      /\ UNCHANGED <<disk, pc, req, pool, pool_counter, lookup_table, acked, writes, faults>>
  BY DEF FlushUnlink, Close, PoolsInv
<1>2. /\ DOMAIN files' = DOMAIN files \ {flusher.pool}
      /\ \A q \in DOMAIN files : q # flusher.pool => files'[q] = files[q]
  BY <1>1, UnlinkPool DEF IInv
<1>3. flusher.pool = pool => pc = "open"
  BY <1>1 DEF PoolsInv
<1>4. Cur' = Cur
  <2>1. CASE pc \in {"open", "down"}
    BY <1>1, <2>1 DEF Cur
  <2>2. CASE pc \notin {"open", "down"}
    <3>1. pool \in DOMAIN files
      BY <2>2 DEF IInv, CallerInv, PoolsInv
    <3> QED
      BY <1>1, <1>2, <1>3, <2>2, <3>1 DEF Cur
  <2> QED
    BY <2>1, <2>2
<1>5. Old' = << >> /\ \A i : ~Left(i)
  BY <1>1 DEF Old, NoFlush, Left
<1>6. PoolsInv'
  BY <1>1, <1>2 DEF PoolsInv, NoFlush
<1>7. CurInv' /\ OldInv'
  BY <1>1, <1>4, <1>5 DEF CurInv, OldInv
<1>8. LastInv'
  BY <1>1, <1>5 DEF LastInv
<1>9. VersionInv' /\ OrderInv'
  BY <1>1, <1>4, <1>5 DEF VersionInv, Older, Busy, OrderInv
<1> QED
  BY <1>6, <1>7, <1>8, <1>9

-------------------------------------------------------------------------------
(* The invariant and what follows from it.                                 *)

(* A process that is undisturbed after a step was so before it.            *)
LEMMA UndisturbedBefore ==
  ASSUME IInv, Next, faults' = 0, disk'.privileged \/ disk.privileged
  PROVE  Undisturbed /\ Undisturbed'
<1>1. faults \in Nat /\ disk \in FileType(Tuple)
  BY NVRecAssumption DEF IInv, TypeOK
<1>2. faults = 0 /\ disk'.privileged = disk.privileged
  <2>1. CASE FlushOpen
    BY <1>1, <2>1, OpenFile DEF FlushOpen
  <2>2. CASE FlushSync
    BY <1>1, <2>2, SyncFile DEF FlushSync
  <2>3. CASE FlushWrite
    <3> DEFINE r == files[flusher.pool][flusher.current]
    <3>1. disk' = Write(disk, r) /\ faults' = faults
      BY <2>3 DEF FlushWrite
    <3>2. files[flusher.pool] \in Seq(Tuple) /\ flusher.current \in Nat /\ flusher.current > 0
          /\ flusher.current <= Len(files[flusher.pool])
      BY <2>3 DEF IInv, TypeOK, FlushIsolated, FlushProgress, FlushWrite
    <3>3. r \in Tuple \cup {Torn}
      BY <3>2
    <3> HIDE DEF r
    <3> QED
      BY <1>1, <3>1, <3>3, WriteFile
  <2>4. CASE UNCHANGED <<disk, faults>>
    BY <2>4
  <2>5. CASE faults' = faults + 1
    BY <1>1, <2>5
  <2> QED
    BY <2>1, <2>2, <2>3, <2>4, <2>5
       DEF Next, Caller, Flusher, Construct, PersistUpdate, PersistDelete, Call, Recover, TxInsert,
           TxOverwrite, Return, TxAbort, Join, Spawn, OpenNextPool, Terminate, Rethrow, UseClosed,
           Destroyed, FlushUnlink, FlushOpenDenied, FlushUnlinkDenied, FlushOnClosed, FlushIOError,
           OpenPoolFails, Crash, Destroy, media, vars
<1> QED
  BY <1>2 DEF Undisturbed

(* Nothing has been written.                                               *)
LEMMA InitStore == Init => UInv
<1> SUFFICES ASSUME Init PROVE StoreInv
  BY DEF UInv
<1>1. /\ disk.data = << >> /\ DOMAIN files = {}
  BY DEF Init, NoFile
<1>2. Cur = << >> /\ Old = << >> /\ ~Busy
  BY DEF Init, Cur, Old, NoFlush, Busy
<1>3. PoolsInv /\ CurInv /\ OldInv /\ VersionInv /\ OrderInv
  BY <1>1, <1>2 DEF Init, PoolsInv, CurInv, OldInv, VersionInv, OrderInv, NoFlush
<1>4. LastInv
  <2>1. \A k \in Keys : At(<< >>, k) = {}
    BY DEF At
  <2>2. \A k \in Keys : LastOf(<< >>, k) = NoTuple
    BY <2>1, LastIsNone, Zenon
  <2> QED
    BY <1>1, <2>2 DEF Init, LastInv
<1> QED
  BY <1>3, <1>4 DEF StoreInv

(* Every step keeps the part of the invariant that is about the store.     *)
LEMMA NextStore == IInv /\ UInv /\ [Next]_vars => UInv'
<1> SUFFICES ASSUME IInv, UInv, [Next]_vars, Undisturbed' PROVE StoreInv'
  BY DEF UInv
<1>1. CASE UNCHANGED vars
  <2>1. StoreInv
    BY <1>1 DEF UInv, Undisturbed, vars
  <2>2. PoolsInv' /\ Cur' = Cur /\ Old' = Old /\ (Busy' <=> Busy) /\ \A i : Left(i)' <=> Left(i)
    BY <1>1, <2>1 DEF vars, handle, StoreInv, PoolsInv, Cur, Old, Busy, Left
  <2>3. VersionInv'
    BY <1>1, <2>1, <2>2, QuietVersions DEF vars, StoreInv
  <2> QED
    BY <1>1, <2>1, <2>2, <2>3, QuietStore DEF vars
<1>2. CASE Next
  <2>1. Undisturbed /\ StoreInv /\ faults' = 0
    BY <1>2, UndisturbedBefore DEF UInv, Undisturbed
  <2>2. ASSUME NEW k \in Keys, PersistUpdate(k) \/ PersistDelete(k) PROVE StoreInv'
    <3>1. writes + 1 \in 1 .. MaxWrites
      BY <2>2, TupleAssumption DEF PersistUpdate, PersistDelete, IInv, TypeOK
    <3>2. PICK d \in BOOLEAN : Call([key |-> k, deleted |-> d, ver |-> writes + 1])
      BY <2>2 DEF PersistUpdate, PersistDelete
    <3>3. [key |-> k, deleted |-> d, ver |-> writes + 1] \in Tuple
      BY <3>1 DEF Tuple
    <3> QED
      BY <2>1, <3>2, <3>3, CallStore
  <2>3. ~Terminate /\ ~Rethrow /\ ~UseClosed /\ ~Destroyed
    BY <2>1 DEF StoreInv, PoolsInv, Terminate, Rethrow, UseClosed, Destroyed
  <2>4. ~FlushOpenDenied /\ ~FlushIOError /\ ~OpenPoolFails /\ ~Crash /\ ~Destroy
    BY <2>1 DEF Undisturbed, FlushOpenDenied, CanOpen, FlushIOError, OpenPoolFails, Crash, Destroy
  <2>6. ~FlushUnlinkDenied /\ ~FlushOnClosed
    BY <2>1 DEF StoreInv, PoolsInv, FlushUnlinkDenied, FlushOnClosed, IInv, FlushIsolated
  <2>5. CASE Recover
    BY <1>1, <2>5 DEF Recover
  <2> QED
    BY <1>2, <2>1, <2>2, <2>3, <2>4, <2>5, <2>6, ConstructStore, TxStore, RotateStore, SpawnStore,
       FlushOpenStore, FlushWriteStore, FlushSyncStore, FlushUnlinkStore DEF Next, Caller, Flusher
<1> QED
  BY <1>1, <1>2

(* The invariant of undisturbed processes holds in every reachable state.  *)
THEOREM StoreInvariance == Spec => []UInv
<1> QED
  BY InitStore, NextStore, Invariance, PTL DEF Spec

(* While one process lives undisturbed the disk log has the tuples of a    *)
(* key in the order of the calls that brought them, each at most once:     *)
(* although a pool is written from its head, the newest node, backwards.   *)
THEOREM DiskIsOrdered == Spec => []DiskOrdered
<1>1. UInv => DiskOrdered
  BY DEF UInv, StoreInv, OrderInv, Before, DiskOrdered
<1> QED
  BY <1>1, StoreInvariance, PTL

(* Pools do not pile up: the wait for the last flush before a rotation     *)
(* leaves at most the current pool and the one being flushed.              *)
THEOREM PoolsAreBounded == Spec => []PoolsBounded
<1>1. UInv => PoolsBounded
  BY DEF UInv, StoreInv, PoolsInv, PoolsBounded
<1> QED
  BY <1>1, StoreInvariance, PTL

-------------------------------------------------------------------------------
(* The refinement of DurableStore.                                         *)

(* A list that has only one tuple of a key yields that tuple.              *)
LEMMA LastOfAll ==
  ASSUME NEW s \in Seq(Tuple), NEW k, NEW t, At(s, k) # {}, \A i \in At(s, k) : s[i] = t
  PROVE  LastOf(s, k) = t
BY LastExists

(* Reading the disk log, the old pool and the current pool yields what was *)
(* acknowledged.                                                           *)
LEMMA StoredIsAcked ==
  ASSUME IInv, UInv, Undisturbed
  PROVE  Stored = acked
<1> USE DEF UInv, StoreInv
<1> DEFINE d == disk.data
           f == PoolContents(flusher.pool)
           c == PoolContents(pool)
<1>1. /\ Cur \in Seq(Tuple) /\ DOMAIN Cur = 1 .. Len(Cur)
      /\ Old \in Seq(Tuple) /\ DOMAIN Old = 1 .. Len(Old)
  BY ListTypes
<1>2. d \in Seq(Tuple) /\ Readable(d) = d
  <2>1. d \in Seq(Entry) /\ \A i \in DOMAIN d : d[i] # Torn
    BY FileParts DEF IInv, TypeOK, VersionInv
  <2> QED
    BY <2>1, ReadableWhole
<1>3. c = Cur \/ (c = Old /\ Cur = << >>)
  <2>1. CASE pc \notin {"open", "down"}
    BY <2>1 DEF PoolsInv, IInv, TypeOK, CallerInv, Cur, PoolContents
  <2>2. CASE pc \in {"open", "down"} /\ pool \in DOMAIN files
    BY <2>2 DEF PoolsInv, Cur, Old, PoolContents
  <2>3. CASE pc \in {"open", "down"} /\ pool \notin DOMAIN files
    BY <2>3 DEF Cur, PoolContents
  <2> QED
    BY <2>1, <2>2, <2>3
<1>4. f = Old \/ (f = Cur /\ Old = << >>)
  <2>1. CASE flusher.pc # "none"
    BY <2>1 DEF IInv, TypeOK, FlushIsolated, PoolsInv, Old, PoolContents
  <2>2. CASE flusher.pc = "none" /\ flusher.pool \in DOMAIN files
    BY <2>2 DEF PoolsInv, Cur, Old, PoolContents
  <2>3. CASE flusher.pc = "none" /\ flusher.pool \notin DOMAIN files
    BY <2>3 DEF Old, PoolContents
  <2> QED
    BY <2>1, <2>2, <2>3
<1>5. Stored = [k \in Keys |-> LastOf((d \o f) \o c, k)]
  BY <1>2 DEF Stored
<1>6. c \in Seq(Tuple) /\ f \in Seq(Tuple)
  BY <1>1, <1>3, <1>4
<1> HIDE DEF d, f, c
<1>7. ASSUME NEW k \in Keys PROVE LastOf((d \o f) \o c, k) = acked[k]
  <2> DEFINE df == d \o f
  <2>1. df \in Seq(Tuple)
    BY <1>2, <1>6
  <2>2. LastOf(df, k) = IF At(f, k) = {} THEN LastOf(d, k) ELSE LastOf(f, k)
    BY <1>2, <1>6, LastConcat
  <2> HIDE DEF df
  <2>3. LastOf(df \o c, k) = IF At(c, k) = {} THEN LastOf(df, k) ELSE LastOf(c, k)
    BY <1>6, <2>1, LastConcat
  <2>4. At(<< >>, k) = {}
    BY DEF At
  <2>5. ASSUME At(Cur, k) # {} PROVE LastOf(Cur, k) = acked[k]
    <3>1. \A i \in At(Cur, k) : Cur[i] = acked[k]
      BY DEF At, CurInv
    <3> QED
      BY <1>1, <2>5, <3>1, LastOfAll
  <2>6. ASSUME At(Cur, k) = {} PROVE lookup_table[k] = 0
    <3>1. ASSUME lookup_table[k] # 0 PROVE FALSE
      <4>1. lookup_table[k] \in DOMAIN Cur /\ Cur[lookup_table[k]].key = k
        BY <3>1, LookupNode
      <4> QED
        BY <2>6, <4>1 DEF At
    <3> QED
      BY <3>1
  <2>7. ASSUME At(Cur, k) = {}, At(Old, k) # {} PROVE LastOf(Old, k) = acked[k]
    <3>1. \A i \in At(Old, k) : Old[i] = acked[k]
      BY <2>6, <2>7 DEF At, OldInv
    <3> QED
      BY <1>1, <2>7, <3>1, LastOfAll
  <2>8. ASSUME At(Cur, k) = {}, At(Old, k) = {} PROVE LastOf(d, k) = acked[k]
    <3>1. \A i \in DOMAIN Old : Old[i].key # k
      BY <2>8 DEF At
    <3> QED
      BY <2>6, <2>8, <3>1 DEF LastInv, d
  <2>9. CASE At(Cur, k) # {}
    BY <1>3, <1>4, <2>2, <2>3, <2>4, <2>5, <2>9 DEF df
  <2>10. CASE At(Cur, k) = {} /\ At(Old, k) # {}
    BY <1>3, <1>4, <2>2, <2>3, <2>4, <2>7, <2>10 DEF df
  <2>11. CASE At(Cur, k) = {} /\ At(Old, k) = {}
    BY <1>3, <1>4, <2>2, <2>3, <2>4, <2>8, <2>11 DEF df
  <2> QED
    BY <2>9, <2>10, <2>11
<1>8. acked \in [Keys -> Tuple \cup {NoTuple}]
  BY DEF IInv, TypeOK
<1> QED
  BY <1>5, <1>7, <1>8

(* As long as nothing fails and the disk log may be written, every step of *)
(* the two threads is a step of the durable store, or none: a call begins  *)
(* with its tuple, its commit replaces the tuple of its key and no other,  *)
(* and neither the steps of a rotation nor those of the flush thread       *)
(* beside the caller change what is stored.                                *)
THEOREM EngineImplementsStore == Spec => ImplementsStore
<1>1. IInv /\ UInv /\ Undisturbed => Stored = acked
  BY StoredIsAcked
<1>2. (IInv /\ UInv /\ Undisturbed => Stored = acked)'
  BY <1>1, PTL
<1>3. ASSUME IInv, UInv, IInv', UInv', [Next]_vars
      PROVE  [faults' = 0 /\ disk.privileged => [Store!Next]_<<Stored, req>>]_vars
  <2> SUFFICES ASSUME Next, faults' = 0, disk.privileged PROVE [Store!Next]_<<Stored, req>>
    BY <1>3
  <2>1. Undisturbed /\ Undisturbed'
    BY <1>3, UndisturbedBefore
  <2>2. Stored = acked /\ Stored' = acked'
    BY <1>1, <1>2, <1>3, <2>1
  <2>3. CASE TxInsert \/ TxOverwrite
    <3>1. req \in Tuple /\ req' = NoTuple /\ acked' = [acked EXCEPT ![req.key] = req]
      BY <1>3, <2>3 DEF TxInsert, TxOverwrite, Return, IInv, CallerInv
    <3> QED
      BY <2>2, <3>1, TupleParts DEF Store!Next, Store!Succeed
  <2>4. ASSUME NEW k \in Keys, PersistUpdate(k) \/ PersistDelete(k)
        PROVE  Store!Next
    <3>1. writes + 1 \in 1 .. MaxWrites
      BY <1>3, <2>4, TupleAssumption DEF PersistUpdate, PersistDelete, IInv, TypeOK
    <3>2. PICK d \in BOOLEAN : Call([key |-> k, deleted |-> d, ver |-> writes + 1])
      BY <2>4 DEF PersistUpdate, PersistDelete
    <3>3. [key |-> k, deleted |-> d, ver |-> writes + 1] \in Tuple
      BY <3>1 DEF Tuple
    <3>4. req = NoTuple /\ acked' = acked
      BY <1>3, <3>2 DEF Call, IInv, CallerInv
    <3> QED
      BY <2>2, <3>2, <3>3, <3>4 DEF Call, Store!Next, Store!Begin
  <2>5. CASE \/ TxAbort \/ Join \/ Spawn \/ OpenNextPool
            \/ FlushOpen \/ FlushWrite \/ FlushSync \/ FlushUnlink
            \/ Construct \/ Recover
    <3>1. req' = req /\ acked' = acked
      BY <2>5 DEF TxAbort, Join, Spawn, OpenNextPool, FlushOpen, FlushWrite, FlushSync,
                  FlushUnlink, Close, Construct, Recover, vars, caller
    <3> QED
      BY <2>2, <3>1
  <2>6. ~Terminate /\ ~Rethrow /\ ~UseClosed /\ ~Destroyed
    BY <1>3, <2>1
       DEF UInv, StoreInv, PoolsInv, Terminate, Rethrow, UseClosed, Destroyed
  <2>7. ~FlushOpenDenied /\ ~FlushIOError /\ ~OpenPoolFails /\ ~Crash /\ ~Destroy
    BY <2>1 DEF Undisturbed, FlushOpenDenied, CanOpen, FlushIOError, OpenPoolFails, Crash, Destroy
  <2>8. ~FlushUnlinkDenied /\ ~FlushOnClosed
    BY <1>3, <2>1
       DEF UInv, StoreInv, PoolsInv, FlushUnlinkDenied, FlushOnClosed, IInv, FlushIsolated
  <2> QED
    BY <2>3, <2>4, <2>5, <2>6, <2>7, <2>8 DEF Next, Caller, Flusher
<1> QED
  BY <1>3, Invariance, StoreInvariance, PTL DEF Spec, ImplementsStore
===============================================================================
