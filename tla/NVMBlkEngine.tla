----------------------------- MODULE NVMBlkEngine -----------------------------
(***************************************************************************)
(* The NVMBlk recovery engine (recovery/nvmblk_engine.cc): every tuple is  *)
(* a block of a libpmemblk pool.  A key keeps its block until the pool is  *)
(* full and the next new key makes the caller copy all blocks to the disk  *)
(* log and start again from block 0.                                       *)
(*                                                                         *)
(* Callers hold NVMDB::mutex_ for the whole call: there is one thread.     *)
(* The blocks survive the process; lookup_table_ and next_block_ do not,   *)
(* so the next process writes its tuples over the blocks of the last.      *)
(***************************************************************************)
EXTENDS Naturals, Sequences, FiniteSets, Tuples

CONSTANTS
  MaxNumBlocks,   \* max_num_blocks_: pmemblk_nblock of the pool
  NoBlock,        \* no entry in lookup_table_
  MaxFaults       \* bound: crashes, I/O errors and engine shutdowns

ASSUME NVMBlkAssumption ==
  /\ MaxNumBlocks \in Nat \ {0}
  /\ MaxFaults \in Nat
  /\ NoBlock \notin Nat

Blocks == 0 .. (MaxNumBlocks - 1)

VARIABLES
  blk_pool,      \* the blocks of /mnt/mem/pmem_blk; NoTuple: never written
  disk,          \* disk_log.txt
  pc,            \* where the caller is
  req,           \* argument of the UpdateTuple under way
  lookup_table,  \* block of each key
  next_block,    \* next block to use
  block_idx,     \* loop variable of FlushToDisk
  status,        \* what the last call returned
  acked,         \* history: last tuple of each key whose call succeeded
  mine,          \* history: keys acknowledged by the process that is running,
                 \* without those a short write has lost
  skipped,       \* history: blocks this flush has not written whole
  writes,        \* calls so far
  faults         \* faults so far

memory == <<lookup_table, next_block, mine>>
flush == <<block_idx, skipped>>
vars == <<blk_pool, disk, pc, req, lookup_table, next_block, block_idx, status,
          acked, mine, skipped, writes, faults>>

NoLookup == [k \in Keys |-> NoBlock]

TypeOK ==
  /\ blk_pool \in [Blocks -> Tuple \cup {NoTuple}]
  /\ disk \in FileType(Tuple)
  /\ pc \in {"down", "idle", "update", "new", "open", "copy"}
  /\ req \in Tuple \cup {NoTuple}
  /\ lookup_table \in [Keys -> Blocks \cup {NoBlock}]
  /\ next_block \in 0 .. MaxNumBlocks
  /\ block_idx \in 0 .. MaxNumBlocks
  /\ status \in {"none", "kSuccess", "kFail", "thrown"}
  /\ acked \in [Keys -> Tuple \cup {NoTuple}]
  /\ mine \in SUBSET Keys
  /\ skipped \in SUBSET Blocks
  /\ writes \in 0 .. MaxWrites
  /\ faults \in 0 .. MaxFaults

Init ==
  /\ blk_pool = [b \in Blocks |-> NoTuple]
  /\ disk \in NoFile
  /\ pc = "down"
  /\ req = NoTuple
  /\ lookup_table = NoLookup
  /\ next_block = 0
  /\ block_idx = 0
  /\ status = "none"
  /\ acked = [k \in Keys |-> NoTuple]
  /\ mine = {}
  /\ skipped = {}
  /\ writes = 0
  /\ faults = 0

-------------------------------------------------------------------------------
(* Mutant: next_block_ resumes after the blocks in use, without their keys *)
(* in lookup_table_.                                                       *)
BugBuildEngine ==
  /\ pc = "down"
  /\ pc' = "idle"
  /\ next_block' = Cardinality({b \in Blocks : blk_pool[b] # NoTuple})
  /\ UNCHANGED <<blk_pool, disk, req, lookup_table, mine, flush, status, acked, writes, faults>>

(* BuildEngine creates the pool or, when it exists, opens it as it is.     *)
BuildEngine ==
  /\ pc = "down"
  /\ pc' = "idle"
  /\ UNCHANGED <<blk_pool, disk, req, memory, flush, status, acked, writes, faults>>

(* Entry of UpdateTuple(t).                                                *)
Call(t) ==
  /\ pc = "idle"
  /\ pc' = "update"
  /\ req' = t
  /\ writes' = t.ver
  /\ UNCHANGED <<blk_pool, disk, memory, flush, status, acked, faults>>

PersistUpdate(k) ==
  /\ writes < MaxWrites
  /\ Call([key |-> k, deleted |-> FALSE, ver |-> writes + 1])

PersistDelete(k) ==
  /\ writes < MaxWrites
  /\ Call([key |-> k, deleted |-> TRUE, ver |-> writes + 1])

(* Recover has no body and reports kFail.                                  *)
Recover ==
  /\ pc = "idle"
  /\ status' = "kFail"
  /\ UNCHANGED <<blk_pool, disk, pc, req, memory, flush, acked, writes, faults>>

(* pmemblk_write(req, b) succeeds, whole, and the call returns kSuccess.   *)
WriteBlock(b) ==
  /\ blk_pool' = [blk_pool EXCEPT ![b] = req]
  /\ acked' = [acked EXCEPT ![req.key] = req]
  /\ mine' = mine \cup {req.key}
  /\ status' = "kSuccess"
  /\ pc' = "idle"
  /\ req' = NoTuple
  /\ UNCHANGED <<disk, flush, writes, faults>>

(* UpdateTuple finds the key: UpdateOnBlkPosition.                         *)
UpdateOnBlkPosition ==
  /\ pc = "update"
  /\ lookup_table[req.key] # NoBlock
  /\ WriteBlock(lookup_table[req.key])
  /\ UNCHANGED <<lookup_table, next_block>>

(* Mutant: the pool counts as full one block early.                        *)
BugUpdateOnNewBlkEarly ==
  /\ pc = "update"
  /\ lookup_table[req.key] = NoBlock
  /\ pc' = IF next_block + 1 >= MaxNumBlocks THEN "open" ELSE "new"
  /\ UNCHANGED <<blk_pool, disk, req, memory, flush, status, acked, writes, faults>>

(* It does not: UpdateOnNewBlk, which flushes first when no block is left. *)
UpdateOnNewBlk ==
  /\ pc = "update"
  /\ lookup_table[req.key] = NoBlock
  /\ pc' = IF next_block = MaxNumBlocks THEN "open" ELSE "new"
  /\ UNCHANGED <<blk_pool, disk, req, memory, flush, status, acked, writes, faults>>

(* Mutant: the position stored is the one after the increment.             *)
BugWriteNewBlock ==
  /\ pc = "new"
  /\ WriteBlock(next_block)
  /\ lookup_table' = [lookup_table EXCEPT ![req.key] = (next_block + 1) % MaxNumBlocks]
  /\ next_block' = next_block + 1

(* pmemblk_write, then lookup_table_[tuple.key] = next_block_++.           *)
WriteNewBlock ==
  /\ pc = "new"
  /\ WriteBlock(next_block)
  /\ lookup_table' = [lookup_table EXCEPT ![req.key] = next_block]
  /\ next_block' = next_block + 1

(* pmemblk_write fails: kFail, and nothing has changed.                    *)
WriteBlockFails ==
  /\ \/ pc = "new"
     \/ pc = "update" /\ lookup_table[req.key] # NoBlock
  /\ faults < MaxFaults
  /\ faults' = faults + 1
  /\ status' = "kFail"
  /\ pc' = "idle"
  /\ req' = NoTuple
  /\ UNCHANGED <<blk_pool, disk, memory, flush, acked, writes>>

-------------------------------------------------------------------------------
(* FlushToDisk.                                                            *)

FlushOpen ==
  /\ pc = "open"
  /\ CanOpen(disk)
  /\ disk' = Open(disk)
  /\ block_idx' = 0
  /\ skipped' = {}
  /\ pc' = "copy"
  /\ UNCHANGED <<blk_pool, req, memory, status, acked, writes, faults>>

(* Mutant: the last block is not copied.                                   *)
BugFlushCopy ==
  /\ pc = "copy"
  /\ block_idx < MaxNumBlocks
  /\ disk' = IF block_idx + 1 < MaxNumBlocks
             THEN Write(disk, blk_pool[block_idx]) ELSE disk
  /\ block_idx' = block_idx + 1
  /\ UNCHANGED <<blk_pool, pc, req, memory, skipped, status, acked, writes, faults>>

(* One block: pmemblk_read, then osf.Write, whose result is not looked at. *)
FlushCopy ==
  /\ pc = "copy"
  /\ block_idx < MaxNumBlocks
  /\ \/ /\ disk' = Write(disk, blk_pool[block_idx])
        /\ UNCHANGED <<skipped, faults>>
     \/ /\ faults < MaxFaults
        /\ faults' = faults + 1
        /\ disk' \in ShortWrite(disk)
        /\ skipped' = skipped \cup {block_idx}
  /\ block_idx' = block_idx + 1
  /\ UNCHANGED <<blk_pool, pc, req, memory, status, acked, writes>>

(* osf.Sync(); lookup_table_.clear(); next_block_ = 0;                     *)
FlushSync ==
  /\ pc = "copy"
  /\ block_idx = MaxNumBlocks
  /\ disk' \in Sync(disk)
  /\ lookup_table' = NoLookup
  /\ next_block' = 0
  /\ mine' = mine \ {blk_pool[b].key : b \in skipped}
  /\ pc' = "new"
  /\ UNCHANGED <<blk_pool, req, flush, status, acked, writes, faults>>

-------------------------------------------------------------------------------
(* What ends a call or a process early.                                    *)

(* What dies with the process; the blocks and the disk log stay.           *)
LoseMemory ==
  /\ pc' = "down"
  /\ req' = NoTuple
  /\ lookup_table' = NoLookup
  /\ next_block' = 0
  /\ mine' = {}
  /\ block_idx' = 0
  /\ skipped' = {}
  /\ status' = "none"
  /\ UNCHANGED <<blk_pool, acked, writes>>

(* OSFile cannot open the disk log, or pmemblk_read fails: an exception    *)
(* leaves the call.  In the transaction phase it ends the process; in the  *)
(* loading phase the other clients go on with the engine as it is.         *)
Throw ==
  \/ LoseMemory
  \/ /\ pc' = "idle"
     /\ req' = NoTuple
     /\ status' = "thrown"
     /\ UNCHANGED <<blk_pool, memory, flush, acked, writes>>

FlushOpenDenied ==
  /\ pc = "open"
  /\ ~CanOpen(disk)
  /\ Throw
  /\ UNCHANGED <<disk, faults>>

FlushIOError ==
  /\ pc = "open" \/ (pc = "copy" /\ block_idx < MaxNumBlocks)
  /\ faults < MaxFaults
  /\ faults' = faults + 1
  /\ UNCHANGED disk
  /\ Throw

(* The process is killed or the power fails, at any point.                 *)
Crash ==
  /\ pc # "down"
  /\ faults < MaxFaults
  /\ faults' = faults + 1
  /\ disk' \in AfterCrash(disk)
  /\ LoseMemory

(* ~NVMBlkEngine: pmemblk_close.                                           *)
Destroy ==
  /\ pc = "idle"
  /\ faults < MaxFaults
  /\ faults' = faults + 1
  /\ UNCHANGED disk
  /\ LoseMemory

-------------------------------------------------------------------------------
Next ==
  \/ BuildEngine
  \/ \E k \in Keys : PersistUpdate(k) \/ PersistDelete(k)
  \/ Recover
  \/ UpdateOnBlkPosition \/ UpdateOnNewBlk \/ WriteNewBlock \/ WriteBlockFails
  \/ FlushOpen \/ FlushCopy \/ FlushSync \/ FlushOpenDenied \/ FlushIOError
  \/ Crash
  \/ Destroy

Spec == Init /\ [][Next]_vars

-------------------------------------------------------------------------------
OnDisk(t) == \E i \in 1 .. disk.synced : disk.data[i] = t

(* lookup_table_ and the pool agree: entries refer to different blocks,    *)
(* already used, each holding the last tuple acknowledged for its key; an  *)
(* update in place never destroys the tuple of another key.                *)
LookupSound ==
  \A k \in Keys : lookup_table[k] # NoBlock =>
    /\ lookup_table[k] < next_block
    /\ blk_pool[lookup_table[k]] = acked[k]
    /\ k \in mine

(* What the running process has acknowledged is durable, in a block or in  *)
(* the synced part of the disk log, but for the tuples whose own write to  *)
(* the disk log was short: one failing write loses no other tuple.  It     *)
(* says nothing of the processes before it: their blocks are overwritten   *)
(* from block 0 on without having been copied to disk.                     *)
Durable ==
  \A k \in mine :
    \/ \E b \in Blocks : b < next_block /\ blk_pool[b] = acked[k]
    \/ OnDisk(acked[k])

(* A flush copies what the running process has acknowledged and nothing    *)
(* else: no block that was never written, none that an earlier process or  *)
(* an earlier round left, none that is out of date.                        *)
FlushWritesCurrent ==
  pc = "copy" => \A b \in Blocks : \E k \in mine : blk_pool[b] = acked[k]

(* The disk log has the tuples of a key in the order of the calls that     *)
(* brought them, through crashes, restarts and repeated flushes.           *)
DiskOrdered ==
  \A i, j \in DOMAIN disk.data :
    /\ i < j
    /\ Torn \notin {disk.data[i], disk.data[j]}
    /\ disk.data[i].key = disk.data[j].key
    => disk.data[i].ver <= disk.data[j].ver

(* Replaying the disk log and then the blocks in use.                      *)
Stored ==
  [k \in Keys |-> LastOf(Readable(disk.data) \o [i \in 1 .. next_block |-> blk_pool[i - 1]], k)]

Store == INSTANCE DurableStore WITH stored <- Stored

(* While one process lives and its writes to the disk log succeed, the     *)
(* engine takes steps of the durable store only: a call that succeeds      *)
(* replaces its key's tuple, and a flush changes nothing.                  *)
ImplementsStore == [][faults' = 0 /\ disk.privileged => [Store!Next]_<<Stored, req>>]_vars
===============================================================================
