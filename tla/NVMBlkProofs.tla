----------------------------- MODULE NVMBlkProofs -----------------------------
(***************************************************************************)
(* Proofs about NVMBlkEngine, for every set of keys, every number of       *)
(* blocks and any number of calls, crashes and I/O errors.  Always: the    *)
(* types, LookupSound, FlushWritesCurrent, DiskOrdered, and, as long as    *)
(* there is no fault, the steps of DurableStore.  When fsync does not      *)
(* fail: Durable.                                                          *)
(***************************************************************************)
EXTENDS NVMBlkEngine, TuplesProofs

(* Where the caller is: a call under way carries the newest tuple; a new   *)
(* block is written only for a key that has none, and only when one is     *)
(* left; a flush is reached only with every block in use; nothing is in    *)
(* memory while no process runs.                                           *)
CallerInv ==
  /\ IF pc \in {"down", "idle"} THEN req = NoTuple ELSE req \in Tuple /\ req.ver = writes
  /\ pc = "new" => lookup_table[req.key] = NoBlock /\ next_block < MaxNumBlocks
  /\ pc \in {"open", "copy"} => next_block = MaxNumBlocks
  /\ pc = "down" => lookup_table = NoLookup /\ next_block = 0 /\ mine = {}

(* Acknowledged tuples are filed under their own key, and none is newer    *)
(* than the last call.                                                     *)
AckedInv ==
  /\ \A k \in Keys : acked[k] # NoTuple => acked[k].key = k /\ acked[k].ver <= writes
  /\ \A k \in mine : acked[k] # NoTuple

(* Every block in use has a key that leads to it.                          *)
UseInv ==
  \A b \in Blocks : b < next_block => \E k \in Keys : lookup_table[k] = b

(* The disk log has no tuple that is newer than the acknowledged one of    *)
(* its key.                                                                *)
DiskOld ==
  \A i \in DOMAIN disk.data : disk.data[i] # Torn =>
    /\ acked[disk.data[i].key] # NoTuple
    /\ disk.data[i].ver <= acked[disk.data[i].key].ver

(* The flush's progress: the blocks it has passed are in the disk log, but *)
(* for those it could not write whole.                                     *)
CopyInv ==
  pc = "copy" =>
    \A b \in Blocks : b < block_idx /\ b \notin skipped =>
      \E j \in DOMAIN disk.data : disk.data[j] = blk_pool[b]

(* What this process has acknowledged is still in its block, or durable on *)
(* disk.                                                                   *)
MineInv ==
  \A k \in mine : lookup_table[k] # NoBlock \/ OnDisk(acked[k])

(* Without a fault no record of the disk log is torn, and the log ends     *)
(* with the acknowledged tuple of every key that has no block, and of      *)
(* every key whose block the flush has passed.                             *)
NoFault == faults = 0 /\ disk.privileged

WholeDisk == \A i \in DOMAIN disk.data : disk.data[i] # Torn

LastInv ==
  \A k \in Keys :
    \/ lookup_table[k] = NoBlock
    \/ pc = "copy" /\ lookup_table[k] < block_idx
    => LastOf(disk.data, k) = acked[k]

StoreInv == WholeDisk /\ LastInv

(* The inductive invariant.                                                *)
IInv ==
  /\ TypeOK
  /\ CallerInv
  /\ AckedInv
  /\ LookupSound
  /\ UseInv
  /\ DiskOld
  /\ DiskOrdered
  /\ CopyInv
  /\ ~FsyncMayFail => MineInv
  /\ NoFault => StoreInv

-------------------------------------------------------------------------------
(* Lemmas about blocks and the disk log.                                   *)

(* Block numbers are naturals, and NoBlock is none.                        *)
LEMMA BlockNumbers ==
  /\ MaxNumBlocks \in Nat /\ MaxNumBlocks > 0 /\ NoBlock \notin Blocks
  /\ \A b : b \in Blocks <=> b \in Nat /\ b < MaxNumBlocks
BY NVMBlkAssumption DEF Blocks

(* A key with a block: the block has its acknowledged tuple, so no two     *)
(* keys share one.                                                         *)
LEMMA BlockOf ==
  ASSUME TypeOK, AckedInv, LookupSound, NEW k \in Keys, lookup_table[k] # NoBlock
  PROVE  /\ lookup_table[k] \in Blocks /\ lookup_table[k] < next_block
         /\ blk_pool[lookup_table[k]] = acked[k]
         /\ k \in mine /\ acked[k] \in Tuple /\ acked[k].key = k
<1>1. /\ lookup_table[k] \in Blocks /\ lookup_table[k] < next_block
      /\ blk_pool[lookup_table[k]] = acked[k] /\ k \in mine
  BY DEF TypeOK, LookupSound
<1>2. acked[k] \in Tuple /\ acked[k].key = k
  BY <1>1 DEF TypeOK, AckedInv
<1> QED
  BY <1>1, <1>2

(* A block in use has the acknowledged tuple of a key that leads to it.    *)
LEMMA UsedBlock ==
  ASSUME TypeOK, AckedInv, LookupSound, UseInv, NEW b \in Blocks, b < next_block
  PROVE  \E k \in Keys :
           /\ lookup_table[k] = b /\ blk_pool[b] = acked[k]
           /\ k \in mine /\ acked[k] \in Tuple /\ acked[k].key = k
<1>1. PICK k \in Keys : lookup_table[k] = b
  BY DEF UseInv
<1>2. lookup_table[k] # NoBlock
  BY <1>1, BlockNumbers
<1> QED
  BY <1>1, <1>2, BlockOf

(* During a flush every block is in use.                                   *)
LEMMA CopiedBlock ==
  ASSUME IInv, pc = "copy", NEW b \in Blocks
  PROVE  \E k \in Keys :
           /\ lookup_table[k] = b /\ blk_pool[b] = acked[k]
           /\ k \in mine /\ acked[k] \in Tuple /\ acked[k].key = k
<1>1. b < next_block
  BY BlockNumbers DEF IInv, CallerInv
<1> QED
  BY <1>1, UsedBlock DEF IInv

(* The disk log keeps its durable prefix, and with it what is durable.     *)
LEMMA OnDiskKept ==
  ASSUME disk \in FileType(Tuple), disk' \in FileType(Tuple),
         disk.synced <= disk'.synced,
         \A i \in 1 .. disk.synced : disk'.data[i] = disk.data[i],
         NEW t, OnDisk(t)
  PROVE  OnDisk(t)'
<1>1. disk.synced \in Nat /\ disk'.synced \in Nat
  BY DEF FileType
<1> QED
  BY <1>1 DEF OnDisk

(* A log that has lost records at its end, or has torn ones in their       *)
(* place, has no newer tuples and is still in order.                       *)
LEMMA DiskShrinks ==
  ASSUME DiskOld, DiskOrdered, acked' = acked,
         \A i \in DOMAIN disk'.data :
           disk'.data[i] = Torn \/ (i \in DOMAIN disk.data /\ disk'.data[i] = disk.data[i])
  PROVE  DiskOld' /\ DiskOrdered'
<1>1. DiskOld'
  BY DEF DiskOld
<1>2. DiskOrdered'
  BY DEF DiskOrdered
<1> QED
  BY <1>1, <1>2

(* A record in the page cache or on disk of the same key as the tuple      *)
(* appended is not newer: the log stays in order.                          *)
LEMMA DiskGrows ==
  ASSUME IInv, acked' = acked, NEW k \in Keys, acked[k] \in Tuple, acked[k].key = k,
         disk' = Write(disk, acked[k])
  PROVE  DiskOld' /\ DiskOrdered'
<1> USE DEF IInv
<1> DEFINE n == Len(disk.data)
           r == acked[k]
<1>1. disk \in FileType(Tuple) /\ r \in Tuple \cup {Torn} /\ r # Torn
  BY TupleParts DEF TypeOK
<1>2. /\ disk' \in FileType(Tuple) /\ Len(disk'.data) = n + 1
      /\ \A i \in DOMAIN disk.data : disk'.data[i] = disk.data[i]
      /\ disk'.data[n + 1] = r
  BY <1>1, WriteFile
<1>3. /\ n \in Nat /\ DOMAIN disk.data = 1 .. n /\ DOMAIN disk'.data = 1 .. (n + 1)
  BY <1>1, <1>2, FileParts
<1>4. r.ver \in Nat
  BY TupleParts
<1> HIDE DEF n
<1>5. DiskOld'
  <2> SUFFICES ASSUME NEW i \in 1 .. (n + 1), disk'.data[i] # Torn
               PROVE  /\ acked[disk'.data[i].key] # NoTuple
                      /\ disk'.data[i].ver <= acked[disk'.data[i].key].ver
    BY <1>3 DEF DiskOld
  <2>1. CASE i = n + 1
    BY <1>2, <1>4, <2>1, TupleParts
  <2>2. CASE i \in 1 .. n
    BY <1>2, <1>3, <2>2 DEF DiskOld
  <2> QED
    BY <1>3, <2>1, <2>2
<1>6. DiskOrdered'
  <2> SUFFICES ASSUME NEW i \in 1 .. (n + 1), NEW j \in 1 .. (n + 1), i < j,
                      disk'.data[i] # Torn, disk'.data[j] # Torn,
                      disk'.data[i].key = disk'.data[j].key
               PROVE  disk'.data[i].ver <= disk'.data[j].ver
    BY <1>3 DEF DiskOrdered
  <2>1. i \in 1 .. n
    BY <1>3
  <2>2. CASE j = n + 1
    <3>1. disk.data[i] # Torn /\ disk.data[i].key = k
      BY <1>2, <1>3, <2>1, <2>2
    <3>2. disk.data[i].ver <= r.ver
      BY <1>3, <2>1, <3>1 DEF DiskOld
    <3> QED
      BY <1>2, <1>3, <2>1, <2>2, <3>2
  <2>3. CASE j \in 1 .. n
    BY <1>2, <1>3, <2>1, <2>3 DEF DiskOrdered
  <2> QED
    BY <1>3, <2>2, <2>3
<1> QED
  BY <1>5, <1>6

-------------------------------------------------------------------------------
(* The initial state satisfies the invariant.                              *)
LEMMA InitInv == Init => IInv
<1> SUFFICES ASSUME Init PROVE IInv
  OBVIOUS
<1> USE NVMBlkAssumption, TupleAssumption
<1>1. PICK p \in Privileges :
        disk = [exists |-> FALSE, privileged |-> p, data |-> << >>, synced |-> 0]
  BY DEF Init, NoFile
<1>2. TypeOK
  <2>1. p \in BOOLEAN
    BY OSFileAssumption
  <2>2. << >> \in Seq(Tuple \cup {Torn}) /\ 0 <= Len(<< >>)
    OBVIOUS
  <2>3. disk \in FileType(Tuple)
    BY <1>1, <2>1, <2>2 DEF FileType
  <2> QED
    BY <2>3 DEF Init, TypeOK, NoLookup
<1>3. CallerInv /\ AckedInv /\ LookupSound /\ CopyInv /\ MineInv
  BY DEF Init, CallerInv, AckedInv, LookupSound, CopyInv, MineInv, NoLookup
<1>4. UseInv
  BY DEF Init, UseInv, Blocks
<1>5. DiskOld /\ DiskOrdered
  BY <1>1 DEF DiskOld, DiskOrdered
<1>6. StoreInv
  <2>1. \A k \in Keys : At(<< >>, k) = {}
    BY DEF At
  <2>2. \A k \in Keys : LastOf(<< >>, k) = NoTuple
    BY <2>1, LastIsNone, Zenon
  <2> QED
    BY <1>1, <2>2 DEF Init, StoreInv, WholeDisk, LastInv
<1> QED
  BY <1>2, <1>3, <1>4, <1>5, <1>6 DEF IInv

-------------------------------------------------------------------------------
(* Steps that leave the blocks, the table and the disk log's records       *)
(* alone, and do not reach the copying loop with any block passed.         *)
LEMMA QuietInv ==
  ASSUME IInv, TypeOK', CallerInv', CopyInv', writes <= writes',
         UNCHANGED <<blk_pool, lookup_table, next_block, acked, mine>>,
         disk'.data = disk.data, disk'.synced = disk.synced,
         NoFault' => NoFault,
         pc' = "copy" => block_idx' = 0
  PROVE  IInv'
<1> USE DEF IInv
<1>1. AckedInv'
  <2> SUFFICES ASSUME NEW k \in Keys, acked[k] # NoTuple PROVE acked[k].ver <= writes'
    BY DEF AckedInv
  <2>1. acked[k].ver \in Nat /\ acked[k].ver <= writes
    BY TupleParts DEF AckedInv, TypeOK
  <2>2. writes \in Nat /\ writes' \in Nat
    BY TupleAssumption DEF TypeOK
  <2> QED
    BY <2>1, <2>2
<1>2. LookupSound' /\ UseInv' /\ DiskOld' /\ DiskOrdered'
  BY DEF LookupSound, UseInv, DiskOld, DiskOrdered
<1>3. MineInv => MineInv'
  BY DEF MineInv, OnDisk
<1>4. StoreInv => StoreInv'
  <2>1. \A k \in Keys : lookup_table[k] # NoBlock => ~(lookup_table[k] < 0)
    BY BlockNumbers DEF TypeOK
  <2> QED
    BY <2>1 DEF StoreInv, WholeDisk, LastInv
<1> QED
  BY <1>1, <1>2, <1>3, <1>4

(* BuildEngine, which creates or opens the pool, keeps the invariant.      *)
LEMMA BuildEngineInv == IInv /\ BuildEngine => IInv'
<1> SUFFICES ASSUME IInv, BuildEngine PROVE IInv'
  OBVIOUS
<1> USE DEF IInv, BuildEngine, memory, flush
<1>1. TypeOK' /\ writes <= writes'
  BY TupleAssumption DEF TypeOK
<1>2. CallerInv' /\ CopyInv' /\ (NoFault' => NoFault)
  BY DEF CallerInv, CopyInv, NoFault
<1> QED
  BY <1>1, <1>2, QuietInv

(* So does the call of a write, with a version that is not older than      *)
(* those before.                                                           *)
LEMMA CallInv ==
  ASSUME IInv, NEW t \in Tuple, Call(t), writes <= t.ver
  PROVE  IInv'
<1> USE DEF IInv, Call, memory, flush
<1>1. t.ver \in 0 .. MaxWrites
  BY TupleAssumption DEF Tuple
<1>2. TypeOK'
  BY <1>1 DEF TypeOK
<1>3. CallerInv' /\ CopyInv' /\ (NoFault' => NoFault)
  BY DEF CallerInv, CopyInv, NoFault
<1> QED
  BY <1>2, <1>3, QuietInv

(* Recover, the search for a block, a write to the pool that fails, and an *)
(* exception that the process survives.                                    *)
Survived ==
  /\ pc \in {"open", "copy"}
  /\ pc' = "idle" /\ req' = NoTuple /\ status' = "thrown"
  /\ faults' \in faults .. MaxFaults
  /\ UNCHANGED <<disk, blk_pool, memory, flush, acked, writes>>

(* Recover, which reports kFail and does nothing, the choice of a new      *)
(* block, a write of a block that fails, and an error the engine survives. *)
LEMMA LocalStepInv == IInv /\ (Recover \/ UpdateOnNewBlk \/ WriteBlockFails \/ Survived) => IInv'
<1> SUFFICES ASSUME IInv, Recover \/ UpdateOnNewBlk \/ WriteBlockFails \/ Survived PROVE IInv'
  OBVIOUS
<1> USE DEF IInv
<1>1. /\ UNCHANGED <<blk_pool, disk, lookup_table, next_block, mine, block_idx, skipped, acked, writes>>
      /\ req' \in {req, NoTuple}
      /\ status' \in {"none", "kSuccess", "kFail", "thrown"}
      /\ \/ pc' = "idle" /\ req' = NoTuple
         \/ /\ pc' \in {"open", "new"} /\ pc = "update" /\ req' = req
            /\ lookup_table[req.key] = NoBlock
            /\ pc' = "open" <=> next_block = MaxNumBlocks
  BY DEF Recover, UpdateOnNewBlk, WriteBlockFails, Survived, TypeOK, CallerInv, memory, flush
<1>2. faults' \in 0 .. MaxFaults /\ (faults' = 0 => faults = 0)
  BY NVMBlkAssumption DEF Recover, UpdateOnNewBlk, WriteBlockFails, Survived, TypeOK
<1>3. TypeOK' /\ writes <= writes'
  <2>1. writes \in Nat
    BY TupleAssumption DEF TypeOK
  <2> QED
    BY <1>1, <1>2, <2>1 DEF TypeOK
<1>4. CallerInv'
  <2>1. next_block # MaxNumBlocks => next_block < MaxNumBlocks
    BY NVMBlkAssumption DEF TypeOK
  <2> QED
    BY <1>1, <2>1 DEF CallerInv
<1>5. CopyInv' /\ (NoFault' => NoFault) /\ pc' # "copy"
  BY <1>1, <1>2 DEF CopyInv, NoFault
<1> QED
  BY <1>1, <1>3, <1>4, <1>5, QuietInv

(* A flush opens the data file.                                            *)
LEMMA FlushOpenInv == IInv /\ FlushOpen => IInv'
<1> SUFFICES ASSUME IInv, FlushOpen PROVE IInv'
  OBVIOUS
<1> USE DEF IInv, FlushOpen, memory
<1>1. /\ disk' \in FileType(Tuple) /\ disk'.data = disk.data /\ disk'.synced = disk.synced
      /\ disk'.privileged = disk.privileged
  BY OpenFile DEF TypeOK
<1>2. TypeOK' /\ writes <= writes'
  <2>1. writes \in Nat /\ 0 \in 0 .. MaxNumBlocks
    BY TupleAssumption, NVMBlkAssumption DEF TypeOK
  <2> QED
    BY <1>1, <2>1 DEF TypeOK
<1>3. CallerInv' /\ (NoFault' => NoFault)
  BY <1>1 DEF CallerInv, NoFault
<1>4. CopyInv'
  BY BlockNumbers DEF CopyInv
<1> QED
  BY <1>1, <1>2, <1>3, <1>4, QuietInv

-------------------------------------------------------------------------------
(* A block is written for the key that has it, or for a key that has none  *)
(* and the next free block: no other key leads to it.                      *)
LEMMA WriteBlockInv ==
  ASSUME IInv, pc \in {"update", "new"}, NEW b \in Blocks, WriteBlock(b),
         lookup_table' = [lookup_table EXCEPT ![req.key] = b],
         \/ lookup_table[req.key] = b /\ next_block' = next_block
         \/ lookup_table[req.key] = NoBlock /\ b = next_block /\ next_block' = next_block + 1
  PROVE  IInv'
<1> USE DEF IInv
<1>1. /\ blk_pool' = [blk_pool EXCEPT ![b] = req]
      /\ acked' = [acked EXCEPT ![req.key] = req]
      /\ mine' = mine \cup {req.key}
      /\ pc' = "idle" /\ req' = NoTuple /\ status' = "kSuccess"
      /\ UNCHANGED <<disk, block_idx, skipped, writes, faults>>
  BY DEF WriteBlock, flush
<1>2. /\ req \in Tuple /\ req.key \in Keys /\ req.ver = writes /\ req # NoTuple
      /\ req.ver \in Nat
  BY TupleParts DEF CallerInv
<1>3. /\ b \in Nat /\ b < MaxNumBlocks /\ MaxNumBlocks \in Nat /\ NoBlock # b
      /\ next_block \in Nat /\ next_block <= MaxNumBlocks
  BY BlockNumbers DEF TypeOK
<1>4. /\ b < next_block' /\ next_block <= next_block' /\ next_block' \in 0 .. MaxNumBlocks
      /\ \A c \in Blocks : c < next_block' => c < next_block \/ c = b
  <2>1. lookup_table[req.key] = b => b < next_block
    BY <1>2, <1>3 DEF LookupSound
  <2> QED
    BY <1>3, <2>1, BlockNumbers
<1>5. TypeOK'
  BY <1>1, <1>2, <1>4 DEF TypeOK
<1>6. ASSUME NEW k \in Keys, k # req.key
      PROVE  /\ lookup_table'[k] = lookup_table[k] /\ acked'[k] = acked[k]
             /\ lookup_table[k] # NoBlock =>
                  /\ lookup_table[k] # b
                  /\ blk_pool'[lookup_table[k]] = blk_pool[lookup_table[k]]
  <2>1. lookup_table'[k] = lookup_table[k] /\ acked'[k] = acked[k]
    BY <1>1, <1>6 DEF TypeOK
  <2>2. ASSUME lookup_table[k] # NoBlock PROVE lookup_table[k] # b
    <3>1. lookup_table[k] < next_block /\ blk_pool[lookup_table[k]].key = k
      BY <2>2, BlockOf
    <3>2. CASE lookup_table[req.key] = b
      <4>1. blk_pool[b].key = req.key
        BY <1>2, <1>3, <3>2, BlockOf
      <4> QED
        BY <1>6, <3>1, <4>1
    <3>3. CASE b = next_block
      BY <1>3, <3>1, <3>3
    <3> QED
      BY <3>2, <3>3
  <2> QED
    BY <1>1, <2>1, <2>2 DEF TypeOK
<1>7. lookup_table'[req.key] = b /\ acked'[req.key] = req /\ blk_pool'[b] = req
  BY <1>1, <1>2 DEF TypeOK
<1>8. CallerInv' /\ CopyInv'
  BY <1>1 DEF CallerInv, CopyInv
<1>9. AckedInv'
  <2>1. writes <= writes
    BY <1>2
  <2> QED
    BY <1>1, <1>2, <1>6, <1>7, <2>1 DEF AckedInv, TypeOK
<1>10. LookupSound'
  <2> SUFFICES ASSUME NEW k \in Keys, lookup_table'[k] # NoBlock
               PROVE  /\ lookup_table'[k] < next_block'
                      /\ blk_pool'[lookup_table'[k]] = acked'[k]
                      /\ k \in mine'
    BY DEF LookupSound
  <2>1. CASE k = req.key
    BY <1>1, <1>4, <1>7, <2>1
  <2>2. CASE k # req.key
    <3>1. /\ lookup_table[k] \in Nat /\ lookup_table[k] < next_block
          /\ blk_pool[lookup_table[k]] = acked[k] /\ k \in mine
      BY <1>6, <2>2, BlockOf, BlockNumbers
    <3> QED
      BY <1>1, <1>3, <1>4, <1>6, <2>2, <3>1
  <2> QED
    BY <2>1, <2>2
<1>11. UseInv'
  <2> SUFFICES ASSUME NEW c \in Blocks, c < next_block'
               PROVE  \E k \in Keys : lookup_table'[k] = c
    BY DEF UseInv
  <2>1. CASE c = b
    BY <1>2, <1>7, <2>1
  <2>2. CASE c # b
    <3>1. PICK k \in Keys : lookup_table[k] = c
      BY <1>4, <2>2 DEF UseInv
    <3>2. k # req.key
      BY <2>2, <3>1, BlockNumbers
    <3> QED
      BY <1>6, <3>1, <3>2
  <2> QED
    BY <2>1, <2>2
<1>12. DiskOld'
  <2> SUFFICES ASSUME NEW i \in DOMAIN disk.data, disk.data[i] # Torn
               PROVE  /\ acked'[disk.data[i].key] # NoTuple
                      /\ disk.data[i].ver <= acked'[disk.data[i].key].ver
    BY <1>1 DEF DiskOld
  <2>1. disk.data[i] \in Tuple
    BY FileParts DEF TypeOK, Entry
  <2>2. disk.data[i].key \in Keys /\ disk.data[i].ver \in Nat
    BY <2>1, TupleParts
  <2>3. /\ acked[disk.data[i].key] # NoTuple
        /\ disk.data[i].ver <= acked[disk.data[i].key].ver
    BY DEF DiskOld
  <2>4. CASE disk.data[i].key = req.key
    <3>1. acked[req.key].ver <= writes /\ acked[req.key] \in Tuple
      BY <1>2, <2>3, <2>4 DEF AckedInv, TypeOK
    <3>2. acked[req.key].ver \in Nat
      BY <3>1, TupleParts
    <3> QED
      BY <1>2, <1>7, <2>2, <2>3, <2>4, <3>1, <3>2
  <2>5. CASE disk.data[i].key # req.key
    BY <1>6, <2>2, <2>3, <2>5
  <2> QED
    BY <2>4, <2>5
<1>13. DiskOrdered'
  BY <1>1 DEF DiskOrdered
<1>14. MineInv => MineInv'
  <2> SUFFICES ASSUME MineInv, NEW k \in mine', lookup_table'[k] = NoBlock
               PROVE  \E i \in 1 .. disk.synced : disk.data[i] = acked'[k]
    BY <1>1 DEF MineInv, OnDisk
  <2>1. k # req.key /\ k \in mine /\ k \in Keys
    BY <1>1, <1>3, <1>7 DEF TypeOK
  <2> QED
    BY <1>1, <1>6, <2>1 DEF MineInv, OnDisk
<1>15. NoFault' => StoreInv'
  <2> SUFFICES ASSUME StoreInv, NEW k \in Keys, lookup_table'[k] = NoBlock
               PROVE  LastOf(disk.data, k) = acked'[k]
    BY <1>1 DEF StoreInv, WholeDisk, LastInv, NoFault
  <2>1. k # req.key
    BY <1>3, <1>7
  <2> QED
    BY <1>6, <2>1 DEF StoreInv, LastInv
<1> QED
  BY <1>5, <1>8, <1>9, <1>10, <1>11, <1>12, <1>13, <1>14, <1>15

(* Writing a block, in place or at a new position, keeps it.               *)
LEMMA UpdateBlockInv == IInv /\ (UpdateOnBlkPosition \/ WriteNewBlock) => IInv'
<1> SUFFICES ASSUME IInv, UpdateOnBlkPosition \/ WriteNewBlock PROVE IInv'
  OBVIOUS
<1>1. req \in Tuple /\ req.key \in Keys
  BY TupleParts DEF UpdateOnBlkPosition, WriteNewBlock, IInv, CallerInv
<1>2. CASE UpdateOnBlkPosition
  <2> DEFINE b == lookup_table[req.key]
  <2>1. /\ pc = "update" /\ b # NoBlock /\ WriteBlock(b)
        /\ UNCHANGED <<lookup_table, next_block>>
    BY <1>2 DEF UpdateOnBlkPosition
  <2>2. b \in Blocks /\ lookup_table' = [lookup_table EXCEPT ![req.key] = b]
    BY <1>1, <2>1 DEF IInv, TypeOK
  <2> HIDE DEF b
  <2>3. lookup_table[req.key] = b /\ next_block' = next_block
    BY <2>1 DEF b
  <2> QED
    BY <2>1, <2>2, <2>3, WriteBlockInv
<1>3. CASE WriteNewBlock
  <2> DEFINE b == next_block
  <2>1. /\ pc = "new" /\ WriteBlock(b) /\ next_block' = next_block + 1
        /\ lookup_table' = [lookup_table EXCEPT ![req.key] = b]
    BY <1>3 DEF WriteNewBlock
  <2>2. b \in Blocks /\ lookup_table[req.key] = NoBlock
    BY <2>1, BlockNumbers DEF IInv, CallerInv, TypeOK
  <2> HIDE DEF b
  <2>3. b = next_block
    BY DEF b
  <2> QED
    BY <2>1, <2>2, <2>3, WriteBlockInv
<1> QED
  BY <1>2, <1>3

-------------------------------------------------------------------------------
(* The flush.                                                              *)

(* The block copied has the acknowledged tuple of its key, so the log      *)
(* stays in order and ends with that tuple of the key; a write that fails  *)
(* leaves the log as it was, or torn.                                      *)
LEMMA FlushCopyInv == IInv /\ FlushCopy => IInv'
<1> SUFFICES ASSUME IInv, FlushCopy PROVE IInv'
  OBVIOUS
<1> USE DEF IInv
<1> DEFINE b == block_idx
           n == Len(disk.data)
<1>1. /\ pc = "copy" /\ pc' = "copy" /\ b < MaxNumBlocks /\ block_idx' = b + 1
      /\ UNCHANGED <<blk_pool, req, lookup_table, next_block, mine, status, acked, writes>>
  BY DEF FlushCopy, memory
<1>2. /\ b \in Blocks /\ b \in Nat /\ b + 1 \in 0 .. MaxNumBlocks
      /\ disk \in FileType(Tuple)
  BY <1>1, BlockNumbers DEF TypeOK
<1>3. PICK k \in Keys : /\ lookup_table[k] = b /\ blk_pool[b] = acked[k]
                         /\ acked[k] \in Tuple /\ acked[k].key = k
  BY <1>1, <1>2, CopiedBlock
<1>4. CASE disk' = Write(disk, acked[k]) /\ UNCHANGED <<skipped, faults>>
  <2>1. acked[k] \in Tuple \cup {Torn}
    BY <1>3
  <2>2. /\ disk' \in FileType(Tuple) /\ disk'.synced = disk.synced
        /\ disk'.privileged = disk.privileged
        /\ Len(disk'.data) = n + 1 /\ disk'.data[n + 1] = acked[k]
        /\ \A i \in DOMAIN disk.data : disk'.data[i] = disk.data[i]
    BY <1>2, <1>4, <2>1, WriteFile
  <2>3. /\ n \in Nat /\ DOMAIN disk.data = 1 .. n /\ DOMAIN disk'.data = 1 .. (n + 1)
        /\ disk.synced \in Nat /\ disk.synced <= n
    BY <1>2, <2>2, FileParts
  <2> HIDE DEF n
  <2>4. TypeOK'
    BY <1>1, <1>2, <1>4, <2>2 DEF TypeOK
  <2>5. CallerInv' /\ AckedInv' /\ LookupSound' /\ UseInv'
    BY <1>1 DEF CallerInv, AckedInv, LookupSound, UseInv
  <2>6. DiskOld' /\ DiskOrdered'
    BY <1>1, <1>3, <1>4, DiskGrows
  <2>7. CopyInv'
    <3> SUFFICES ASSUME NEW c \in Blocks, c < b + 1, c \notin skipped
                 PROVE  \E j \in DOMAIN disk'.data : disk'.data[j] = blk_pool[c]
      BY <1>1, <1>4 DEF CopyInv
    <3>1. CASE c = b
      BY <1>3, <2>2, <2>3, <3>1
    <3>2. CASE c # b
      <4>1. c < b
        BY <1>2, <3>2, BlockNumbers
      <4>2. PICK j \in DOMAIN disk.data : disk.data[j] = blk_pool[c]
        BY <1>1, <4>1 DEF CopyInv
      <4> QED
        BY <2>2, <2>3, <4>2
    <3> QED
      BY <3>1, <3>2
  <2>8. MineInv => MineInv'
    BY <1>1, <2>2, <2>3 DEF MineInv, OnDisk
  <2>9. NoFault' => StoreInv'
    <3> SUFFICES ASSUME StoreInv PROVE WholeDisk' /\ LastInv'
      BY <1>4, <2>2 DEF StoreInv, NoFault
    <3>0. WholeDisk'
      <4>1. \A i \in DOMAIN disk.data : disk.data[i] # Torn
        BY DEF StoreInv, WholeDisk
      <4>2. acked[k] # Torn
        BY <1>3, TupleParts
      <4>3. \A i \in 1 .. (n + 1) : i \in 1 .. n \/ i = n + 1
        BY <2>3
      <4> QED
        BY <2>2, <2>3, <4>1, <4>2, <4>3 DEF WholeDisk
    <3>1. ASSUME NEW j \in Keys, lookup_table[j] = NoBlock \/ lookup_table[j] < b + 1
          PROVE  LastOf(disk'.data, j) = acked[j]
      <4>1. LastOf(disk'.data, j) = IF k = j THEN acked[k] ELSE LastOf(disk.data, j)
        BY <1>2, <1>3, <1>4, LastWritten DEF StoreInv, WholeDisk
      <4>2. ASSUME k # j PROVE LastOf(disk.data, j) = acked[j]
        <5>1. CASE lookup_table[j] = NoBlock
          BY <5>1 DEF StoreInv, LastInv
        <5>2. CASE lookup_table[j] # NoBlock
          <6>1. lookup_table[j] \in Nat /\ blk_pool[lookup_table[j]].key = j
            BY <5>2, BlockOf, BlockNumbers
          <6>2. lookup_table[j] # b
            BY <1>3, <4>2, <6>1
          <6>3. lookup_table[j] < b
            BY <1>2, <3>1, <5>2, <6>1, <6>2
          <6> QED
            BY <1>1, <6>3 DEF StoreInv, LastInv
        <5> QED
          BY <5>1, <5>2
      <4> QED
        BY <4>1, <4>2
    <3>2. LastInv'
      BY <1>1, <3>1 DEF LastInv
    <3> QED
      BY <3>0, <3>2
  <2> QED
    BY <2>4, <2>5, <2>6, <2>7, <2>8, <2>9
<1>5. CASE /\ faults < MaxFaults /\ faults' = faults + 1
           /\ disk' \in ShortWrite(disk) /\ skipped' = skipped \cup {b}
  <2>1. /\ disk' \in FileType(Tuple) /\ disk'.synced = disk.synced
        /\ \A i \in DOMAIN disk.data : i \in DOMAIN disk'.data /\ disk'.data[i] = disk.data[i]
        /\ \A i \in DOMAIN disk'.data :
             disk'.data[i] = Torn \/ (i \in DOMAIN disk.data /\ disk'.data[i] = disk.data[i])
    <3>1. CASE disk' = disk
      BY <1>2, <3>1
    <3>2. CASE disk' = Write(disk, Torn)
      <4>1. /\ disk' \in FileType(Tuple) /\ disk'.synced = disk.synced
            /\ Len(disk'.data) = n + 1 /\ disk'.data[n + 1] = Torn
            /\ \A i \in DOMAIN disk.data : disk'.data[i] = disk.data[i]
        BY <1>2, <3>2, WriteFile
      <4>2. /\ n \in Nat /\ DOMAIN disk.data = 1 .. n /\ DOMAIN disk'.data = 1 .. (n + 1)
        BY <1>2, <4>1, FileParts
      <4> HIDE DEF n
      <4> QED
        BY <4>1, <4>2
    <3> QED
      BY <1>5, <3>1, <3>2 DEF ShortWrite
  <2>2. /\ faults' \in 0 .. MaxFaults /\ faults' # 0
    BY <1>5, NVMBlkAssumption DEF TypeOK
  <2>3. TypeOK'
    BY <1>1, <1>2, <1>5, <2>1, <2>2 DEF TypeOK
  <2>4. CallerInv' /\ AckedInv' /\ LookupSound' /\ UseInv'
    BY <1>1 DEF CallerInv, AckedInv, LookupSound, UseInv
  <2>5. DiskOld' /\ DiskOrdered'
    BY <1>1, <2>1, DiskShrinks
  <2>6. CopyInv'
    <3> SUFFICES ASSUME NEW c \in Blocks, c < b + 1, c \notin skipped, c # b
                 PROVE  \E j \in DOMAIN disk'.data : disk'.data[j] = blk_pool[c]
      BY <1>1, <1>5 DEF CopyInv
    <3>1. c < b
      BY <1>2, BlockNumbers
    <3>2. PICK j \in DOMAIN disk.data : disk.data[j] = blk_pool[c]
      BY <1>1, <3>1 DEF CopyInv
    <3> QED
      BY <2>1, <3>2
  <2>7. MineInv => MineInv'
    <3>1. DOMAIN disk.data = 1 .. n /\ disk.synced \in Nat /\ disk.synced <= n /\ n \in Nat
      BY <1>2, FileParts
    <3> QED
      BY <1>1, <2>1, <3>1 DEF MineInv, OnDisk
  <2> QED
    BY <2>2, <2>3, <2>4, <2>5, <2>6, <2>7 DEF NoFault
<1> QED
  BY <1>3, <1>4, <1>5 DEF FlushCopy

(* Every block that was written whole is durable before the table is       *)
(* cleared.                                                                *)
LEMMA FlushSyncInv == IInv /\ FlushSync => IInv'
<1> SUFFICES ASSUME IInv, FlushSync PROVE IInv'
  OBVIOUS
<1> USE DEF IInv
<1>1. /\ pc = "copy" /\ pc' = "new" /\ block_idx = MaxNumBlocks /\ disk' \in Sync(disk)
      /\ lookup_table' = NoLookup /\ next_block' = 0
      /\ mine' = mine \ {blk_pool[b].key : b \in skipped}
      /\ UNCHANGED <<blk_pool, req, block_idx, skipped, status, acked, writes, faults>>
  BY DEF FlushSync, flush
<1>2. /\ disk' \in FileType(Tuple) /\ disk'.data = disk.data /\ disk.synced <= disk'.synced
      /\ disk'.privileged = disk.privileged
      /\ ~FsyncMayFail => disk'.synced = Len(disk.data)
  BY <1>1, SyncFile DEF TypeOK
<1>3. /\ disk.synced \in Nat /\ disk'.synced \in Nat
      /\ DOMAIN disk.data = 1 .. Len(disk.data)
  BY <1>2, FileParts DEF TypeOK
<1>4. TypeOK'
  BY <1>1, <1>2, BlockNumbers DEF TypeOK, NoLookup
<1>5. req.key \in Keys
  BY <1>1, TupleParts DEF CallerInv
<1>6. CallerInv' /\ AckedInv' /\ LookupSound' /\ CopyInv'
  BY <1>1, <1>5, BlockNumbers DEF CallerInv, AckedInv, LookupSound, CopyInv, NoLookup
<1>7. UseInv'
  BY <1>1, BlockNumbers DEF UseInv
<1>8. DiskOld' /\ DiskOrdered'
  BY <1>1, <1>2 DEF DiskOld, DiskOrdered
<1>9. ASSUME ~FsyncMayFail, MineInv PROVE MineInv'
  <2> SUFFICES ASSUME NEW k \in mine, \A b \in skipped : blk_pool[b].key # k
               PROVE  \E i \in 1 .. disk'.synced : disk'.data[i] = acked[k]
    BY <1>1 DEF MineInv, OnDisk
  <2>1. k \in Keys
    BY DEF TypeOK
  <2>2. CASE lookup_table[k] # NoBlock
    <3>1. /\ lookup_table[k] \in Blocks /\ blk_pool[lookup_table[k]] = acked[k]
          /\ acked[k].key = k
      BY <2>1, <2>2, BlockOf
    <3>2. lookup_table[k] < block_idx /\ lookup_table[k] \notin skipped
      BY <1>1, <3>1, BlockNumbers
    <3>3. PICK j \in DOMAIN disk.data : disk.data[j] = acked[k]
      BY <1>1, <3>1, <3>2 DEF CopyInv
    <3> QED
      BY <1>2, <1>3, <1>9, <3>3
  <2>3. CASE OnDisk(acked[k])
    BY <1>2, <1>3, <2>3 DEF OnDisk
  <2> QED
    BY <1>9, <2>2, <2>3 DEF MineInv
<1>10. NoFault' => StoreInv'
  <2> SUFFICES ASSUME StoreInv, NEW k \in Keys PROVE LastOf(disk.data, k) = acked[k]
    BY <1>1, <1>2 DEF StoreInv, WholeDisk, LastInv, NoFault
  <2>1. CASE lookup_table[k] = NoBlock
    BY <2>1 DEF StoreInv, LastInv
  <2>2. CASE lookup_table[k] # NoBlock
    <3>1. lookup_table[k] < block_idx
      BY <1>1, <2>2, BlockOf, BlockNumbers
    <3> QED
      BY <1>1, <3>1 DEF StoreInv, LastInv
  <2> QED
    BY <2>1, <2>2
<1> QED
  BY <1>4, <1>6, <1>7, <1>8, <1>9, <1>10

-------------------------------------------------------------------------------
(* The end of a process, by a fault or because the log cannot be opened:   *)
(* this process has nothing acknowledged any more, and the log keeps a     *)
(* prefix of its records.                                                  *)
LEMMA LoseMemoryInv ==
  ASSUME IInv, LoseMemory, disk' \in FileType(Tuple), faults' \in 0 .. MaxFaults, ~NoFault',
         \A i \in DOMAIN disk'.data :
           disk'.data[i] = Torn \/ (i \in DOMAIN disk.data /\ disk'.data[i] = disk.data[i])
  PROVE  IInv'
<1> USE DEF IInv
<1>1. /\ pc' = "down" /\ req' = NoTuple /\ lookup_table' = NoLookup /\ next_block' = 0
      /\ mine' = {} /\ block_idx' = 0 /\ skipped' = {} /\ status' = "none"
      /\ UNCHANGED <<blk_pool, acked, writes>>
  BY DEF LoseMemory
<1>2. TypeOK'
  BY <1>1, BlockNumbers DEF TypeOK, NoLookup
<1>3. CallerInv' /\ AckedInv' /\ LookupSound' /\ CopyInv' /\ MineInv'
  BY <1>1 DEF CallerInv, AckedInv, LookupSound, CopyInv, MineInv, NoLookup
<1>4. UseInv'
  BY <1>1, BlockNumbers DEF UseInv
<1>5. DiskOld' /\ DiskOrdered'
  BY <1>1, DiskShrinks
<1> QED
  BY <1>2, <1>3, <1>4, <1>5

(* So do a flush that is denied or that fails, a crash and the destructor. *)
LEMMA FaultInv == IInv /\ (FlushOpenDenied \/ FlushIOError \/ Crash \/ Destroy) => IInv'
<1> SUFFICES ASSUME IInv, FlushOpenDenied \/ FlushIOError \/ Crash \/ Destroy PROVE IInv'
  OBVIOUS
<1> USE DEF IInv
<1>1. disk \in FileType(Tuple) /\ faults \in 0 .. MaxFaults /\ MaxFaults \in Nat
  BY NVMBlkAssumption DEF TypeOK
<1>2. faults' \in faults .. MaxFaults /\ faults' \in 0 .. MaxFaults
  <2>1. faults' = faults \/ (faults < MaxFaults /\ faults' = faults + 1)
    BY DEF FlushOpenDenied, FlushIOError, Crash, Destroy
  <2> QED
    BY <1>1, <2>1
<1>3. ~NoFault'
  <2>1. CASE FlushOpenDenied
    BY <2>1 DEF FlushOpenDenied, CanOpen, NoFault
  <2>2. CASE FlushIOError \/ Crash \/ Destroy
    BY <1>1, <2>2 DEF FlushIOError, Crash, Destroy, NoFault
  <2> QED
    BY <2>1, <2>2
<1>4. /\ disk' \in FileType(Tuple)
      /\ \A i \in DOMAIN disk'.data :
           disk'.data[i] = Torn \/ (i \in DOMAIN disk.data /\ disk'.data[i] = disk.data[i])
  <2>1. CASE disk' = disk
    BY <1>1, <2>1
  <2>2. CASE disk' \in AfterCrash(disk)
    <3>1. /\ disk' \in FileType(Tuple) /\ Len(disk'.data) <= Len(disk.data)
          /\ \A i \in DOMAIN disk'.data : disk'.data[i] = disk.data[i] \/ disk'.data[i] = Torn
      BY <1>1, <2>2, CrashFile
    <3>2. /\ DOMAIN disk.data = 1 .. Len(disk.data) /\ Len(disk.data) \in Nat
          /\ DOMAIN disk'.data = 1 .. Len(disk'.data) /\ Len(disk'.data) \in Nat
      BY <1>1, <3>1, FileParts
    <3> QED
      BY <3>1, <3>2
  <2> QED
    BY <2>1, <2>2 DEF FlushOpenDenied, FlushIOError, Crash, Destroy
<1>5. CASE LoseMemory
  BY <1>2, <1>3, <1>4, <1>5, LoseMemoryInv
<1>6. CASE ~LoseMemory
  <2>1. Survived
    BY <1>2, <1>6 DEF FlushOpenDenied, FlushIOError, Crash, Destroy, Throw, Survived
  <2> QED
    BY <2>1, LocalStepInv
<1> QED
  BY <1>5, <1>6

(* A step that changes no variable keeps the invariant.                    *)
LEMMA StutterInv == IInv /\ UNCHANGED vars => IInv'
BY DEF IInv, vars, TypeOK, CallerInv, AckedInv, LookupSound, UseInv, DiskOld, DiskOrdered,
       CopyInv, MineInv, OnDisk, StoreInv, WholeDisk, LastInv, NoFault

(* Every step preserves the invariant.                                     *)
LEMMA NextInv == IInv /\ [Next]_vars => IInv'
<1> SUFFICES ASSUME IInv, [Next]_vars PROVE IInv'
  OBVIOUS
<1>1. ASSUME NEW k \in Keys, PersistUpdate(k) \/ PersistDelete(k) PROVE IInv'
  <2>1. writes + 1 \in 1 .. MaxWrites /\ writes <= writes + 1
    BY <1>1, TupleAssumption DEF PersistUpdate, PersistDelete, IInv, TypeOK
  <2>2. PICK d \in BOOLEAN : Call([key |-> k, deleted |-> d, ver |-> writes + 1])
    BY <1>1 DEF PersistUpdate, PersistDelete
  <2>3. [key |-> k, deleted |-> d, ver |-> writes + 1] \in Tuple
    BY <2>1 DEF Tuple
  <2> QED
    BY <2>1, <2>2, <2>3, CallInv
<1>2. CASE UNCHANGED vars
  BY <1>2, StutterInv
<1> QED
  BY <1>1, <1>2, BuildEngineInv, LocalStepInv, UpdateBlockInv, FlushOpenInv, FlushCopyInv,
     FlushSyncInv, FaultInv DEF Next

(* The inductive invariant holds in every reachable state.                 *)
THEOREM Invariance == Spec => []IInv
<1> QED
  BY InitInv, NextInv, PTL DEF Spec

-------------------------------------------------------------------------------
(* The variables of the engine keep their types.                           *)
THEOREM TypeCorrect == Spec => []TypeOK
<1>1. IInv => TypeOK
  BY DEF IInv
<1> QED
  BY <1>1, Invariance, PTL

(* lookup_table_ leads every key it has to a block in use that holds the   *)
(* key's last acknowledged tuple, through flushes, failed writes and       *)
(* restarts on a pool that has blocks of an earlier process.               *)
THEOREM LookupIsSound == Spec => []LookupSound
<1>1. IInv => LookupSound
  BY DEF IInv
<1> QED
  BY <1>1, Invariance, PTL

(* FlushToDisk, which copies every block of the pool without looking at    *)
(* lookup_table_, copies only what the running process has acknowledged.   *)
THEOREM FlushIsCurrent == Spec => []FlushWritesCurrent
<1>1. ASSUME IInv PROVE FlushWritesCurrent
  BY <1>1, CopiedBlock DEF FlushWritesCurrent
<1> QED
  BY <1>1, Invariance, PTL

(* The disk log has the tuples of a key in the order of the calls.         *)
THEOREM DiskIsOrdered == Spec => []DiskOrdered
<1>1. IInv => DiskOrdered
  BY DEF IInv
<1> QED
  BY <1>1, Invariance, PTL

(* When fsync does not fail, what the running process has acknowledged is  *)
(* in a block in use or durable on disk, but for what a short write lost.  *)
THEOREM AckedIsDurable ==
  ASSUME ~FsyncMayFail
  PROVE  Spec => []Durable
<1>1. ASSUME IInv PROVE Durable
  <2> SUFFICES ASSUME NEW k \in mine, ~OnDisk(acked[k])
               PROVE  \E b \in Blocks : b < next_block /\ blk_pool[b] = acked[k]
    BY DEF Durable
  <2>1. k \in Keys /\ lookup_table[k] # NoBlock
    BY <1>1 DEF IInv, TypeOK, MineInv
  <2> QED
    BY <1>1, <2>1, BlockOf DEF IInv
<1> QED
  BY <1>1, Invariance, PTL

-------------------------------------------------------------------------------
(* The refinement of DurableStore while there is no fault.                 *)

(* Replaying the disk log and then the blocks in use yields what was       *)
(* acknowledged: of a key that has a block, the block; of any other key,   *)
(* the last tuple of the disk log.                                         *)
LEMMA StoredIsAcked ==
  ASSUME IInv, NoFault
  PROVE  Stored = acked
<1> USE DEF IInv
<1> DEFINE u == [i \in 1 .. next_block |-> blk_pool[i - 1]]
           d == disk.data
<1>1. next_block \in Nat /\ next_block <= MaxNumBlocks
  BY BlockNumbers DEF TypeOK
<1>2. ASSUME NEW i \in 1 .. next_block
      PROVE  \E k \in Keys : /\ lookup_table[k] = i - 1 /\ blk_pool[i - 1] = acked[k]
                             /\ acked[k] \in Tuple /\ acked[k].key = k
  <2>1. i - 1 \in Blocks /\ i - 1 < next_block
    BY <1>1, BlockNumbers
  <2> QED
    BY <2>1, UsedBlock
<1>3. /\ \A i \in 1 .. next_block : u[i] = blk_pool[i - 1] /\ u[i] \in Tuple
      /\ DOMAIN u = 1 .. next_block
  BY <1>2
<1>4. u \in Seq(Tuple)
  BY <1>1, <1>3
<1>5. d \in Seq(Tuple) /\ Readable(d) = d
  BY FileParts, ReadableWhole DEF TypeOK, StoreInv, WholeDisk
<1>6. Stored = [k \in Keys |-> LastOf(d \o u, k)]
  BY <1>5 DEF Stored
<1> HIDE DEF u, d
<1>7. ASSUME NEW k \in Keys PROVE LastOf(d \o u, k) = acked[k]
  <2>1. LastOf(d \o u, k) = IF At(u, k) = {} THEN LastOf(d, k) ELSE LastOf(u, k)
    BY <1>4, <1>5, LastConcat
  <2>2. ASSUME NEW i \in At(u, k) PROVE lookup_table[k] = i - 1 /\ i \in 1 .. next_block
    <3>1. i \in 1 .. next_block /\ u[i].key = k
      BY <1>3 DEF At
    <3> QED
      BY <1>2, <1>3, <3>1
  <2>3. CASE lookup_table[k] = NoBlock
    <3>1. At(u, k) = {}
      <4>1. ASSUME NEW i \in At(u, k) PROVE FALSE
        <5>1. NoBlock = i - 1 /\ i - 1 \in Nat
          BY <2>2, <2>3, <4>1
        <5> QED
          BY <5>1, NVMBlkAssumption
      <4> QED
        BY <4>1
    <3>2. LastOf(d, k) = acked[k]
      BY <2>3 DEF StoreInv, LastInv, d
    <3> QED
      BY <2>1, <3>1, <3>2
  <2>4. CASE lookup_table[k] # NoBlock
    <3> DEFINE m == lookup_table[k] + 1
    <3>1. /\ lookup_table[k] \in Nat /\ lookup_table[k] < next_block
          /\ blk_pool[lookup_table[k]] = acked[k] /\ acked[k].key = k /\ acked[k] # Torn
      BY <2>4, BlockOf, BlockNumbers, TupleParts
    <3>2. m \in 1 .. next_block /\ m - 1 = lookup_table[k]
      BY <1>1, <3>1
    <3>3. m \in At(u, k) /\ u[m] = acked[k]
      BY <1>3, <3>1, <3>2 DEF At
    <3>4. ASSUME NEW j \in At(u, k) PROVE j <= m
      BY <2>2, <3>1, <3>2
    <3> HIDE DEF m
    <3>5. LastOf(u, k) = u[m]
      BY <1>4, <3>3, <3>4, LastIs
    <3> QED
      BY <2>1, <3>3, <3>5
  <2> QED
    BY <2>3, <2>4
<1>8. acked \in [Keys -> Tuple \cup {NoTuple}]
  BY DEF TypeOK
<1> QED
  BY <1>6, <1>7, <1>8

(* As long as no fault occurs and the log can be opened, a call begins     *)
(* with its tuple, the write of its block gives the call's key the call's  *)
(* tuple, and no other step changes what reading the media yields: not a   *)
(* step of the flush, whichever blocks it has copied so far.               *)
THEOREM EngineImplementsStore == Spec => ImplementsStore
<1>1. IInv /\ NoFault => Stored = acked
  BY StoredIsAcked
<1>2. (IInv /\ NoFault => Stored = acked)'
  BY <1>1, PTL
<1>3. ASSUME IInv, IInv', [Next]_vars
      PROVE  [faults' = 0 /\ disk.privileged => [Store!Next]_<<Stored, req>>]_vars
  <2> SUFFICES ASSUME Next, faults' = 0, disk.privileged PROVE [Store!Next]_<<Stored, req>>
    BY <1>3
  <2>1. faults \in Nat /\ disk \in FileType(Tuple)
    BY <1>3, NVMBlkAssumption DEF IInv, TypeOK
  <2>2. faults = 0 /\ disk'.privileged
    <3>1. CASE FlushOpen
      BY <2>1, <3>1, OpenFile DEF FlushOpen
    <3>2. CASE FlushSync
      BY <2>1, <3>2, SyncFile DEF FlushSync
    <3>3. CASE FlushCopy
      <4>1. disk' = Write(disk, blk_pool[block_idx]) /\ faults' = faults
        BY <2>1, <3>3 DEF FlushCopy
      <4>2. block_idx \in Blocks
        BY <1>3, <3>3, BlockNumbers DEF FlushCopy, IInv, TypeOK
      <4>3. blk_pool[block_idx] \in Tuple \cup {Torn}
        BY <1>3, <3>3, <4>2, CopiedBlock DEF FlushCopy
      <4> QED
        BY <2>1, <4>1, <4>3, WriteFile
    <3>4. CASE UNCHANGED <<disk, faults>>
      BY <3>4
    <3>5. CASE faults' = faults + 1
      BY <2>1, <3>5
    <3> QED
      BY <3>1, <3>2, <3>3, <3>4, <3>5
         DEF Next, BuildEngine, PersistUpdate, PersistDelete, Call, Recover, UpdateOnBlkPosition,
             UpdateOnNewBlk, WriteNewBlock, WriteBlock, WriteBlockFails, FlushOpenDenied,
             FlushIOError, Crash, Destroy
  <2>3. Stored = acked
    BY <1>1, <1>3, <2>2 DEF NoFault
  <2>4. Stored' = acked'
    BY <1>2, <1>3, <2>2 DEF NoFault
  <2>5. CASE UpdateOnBlkPosition \/ WriteNewBlock
    <3>1. req \in Tuple /\ req' = NoTuple /\ acked' = [acked EXCEPT ![req.key] = req]
      BY <1>3, <2>5 DEF UpdateOnBlkPosition, WriteNewBlock, WriteBlock, IInv, CallerInv
    <3> QED
      BY <2>3, <2>4, <3>1, TupleParts DEF Store!Next, Store!Succeed
  <2>6. ASSUME NEW k \in Keys, PersistUpdate(k) \/ PersistDelete(k)
        PROVE  Store!Next
    <3>1. writes + 1 \in 1 .. MaxWrites
      BY <1>3, <2>6, TupleAssumption DEF PersistUpdate, PersistDelete, IInv, TypeOK
    <3>2. PICK d \in BOOLEAN : Call([key |-> k, deleted |-> d, ver |-> writes + 1])
      BY <2>6 DEF PersistUpdate, PersistDelete
    <3>3. [key |-> k, deleted |-> d, ver |-> writes + 1] \in Tuple
      BY <3>1 DEF Tuple
    <3>4. req = NoTuple /\ acked' = acked
      BY <1>3, <3>2 DEF Call, IInv, CallerInv
    <3> QED
      BY <2>3, <2>4, <3>2, <3>3, <3>4 DEF Call, Store!Next, Store!Begin
  <2>7. CASE WriteBlockFails \/ FlushOpenDenied \/ FlushIOError \/ Crash \/ Destroy
    <3>1. req' = NoTuple /\ acked' = acked
      BY <2>7 DEF WriteBlockFails, FlushOpenDenied, FlushIOError, Crash, Destroy, Throw, LoseMemory
    <3> QED
      BY <2>3, <2>4, <3>1 DEF Store!Next, Store!Fail
  <2>8. CASE BuildEngine \/ Recover \/ UpdateOnNewBlk \/ FlushOpen \/ FlushCopy \/ FlushSync
    <3>1. req' = req /\ acked' = acked
      BY <2>8 DEF BuildEngine, Recover, UpdateOnNewBlk, FlushOpen, FlushCopy, FlushSync
    <3> QED
      BY <2>3, <2>4, <3>1
  <2> QED
    BY <2>5, <2>6, <2>7, <2>8 DEF Next
<1> QED
  BY <1>3, Invariance, PTL DEF Spec, ImplementsStore
===============================================================================
