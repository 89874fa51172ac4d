----------------------------- MODULE NVRecEngine -----------------------------
(***************************************************************************)
(* The NVRec recovery engine (recovery/nvrec_engine.cc and                 *)
(* recovery/persistent_list.cc).                                           *)
(*                                                                         *)
(* Every tuple handed to PersistUpdate or PersistDelete goes to a list in  *)
(* the current persistent-memory pool: a new node, or the node that        *)
(* lookup_table has for its key.  When the transaction runs out of pool    *)
(* memory the engine waits for the previous flush, starts a thread that    *)
(* copies the full pool to the disk log and unlinks it, opens the next     *)
(* pool and tries again.                                                   *)
(*                                                                         *)
(* Callers hold NVMDB::mutex_ for the whole call, so there is one caller,  *)
(* running beside at most one flush thread.  The process may die at any    *)
(* point and be started again on the files it left.                        *)
(*                                                                         *)
(* A pool file is the sequence of its nodes in the order of insertion:     *)
(* index Len is head_, index 1 is tail_, node i's next is node i - 1.      *)
(* Pool 0 is "/mnt/mem/pmem", pool n > 0 is "/mnt/mem/pmem<n>".            *)
(***************************************************************************)
EXTENDS Naturals, Sequences, Tuples

CONSTANTS
  PoolCapacity,  \* nodes that fit into a pool of kPoolSize bytes
  ReopenMayFail, \* whether opening a pool file that exists can fail
  MaxFaults      \* bound: crashes, I/O errors and engine shutdowns

ASSUME NVRecAssumption ==
  /\ PoolCapacity \in Nat \ {0}
  /\ ReopenMayFail \in BOOLEAN
  /\ MaxFaults \in Nat

VARIABLES
  files,         \* pool files: a function from pool numbers to lists of nodes
  disk,          \* disk_log.txt
  pc,            \* where the caller's thread is
  req,           \* argument of the PersistRaw under way
  pool,          \* number of the pool pool_ refers to
  open,          \* whether that pool has not been closed
  pool_counter,  \* number of the path of the last pool asked for
  lookup_table,  \* node of each key in the current pool, 0 for none
  flush_result,  \* state of the future of the last flush
  flusher,       \* the flush thread
  acked,         \* history: last tuple of each key whose call returned
  writes,        \* calls so far
  faults         \* faults so far

media == <<files, disk>>
handle == <<pool, open, pool_counter>>
caller == <<pc, req, handle, lookup_table>>
flush == <<flush_result, flusher>>
vars == <<files, disk, pc, req, handle, lookup_table,
          flush_result, flusher, acked, writes, faults>>

NoFlush == [pc |-> "none", pool |-> 0, path |-> 0, current |-> 0]
EmptyLookup == [k \in Keys |-> 0]

TypeOK ==
  /\ DOMAIN files \subseteq Nat
  /\ files \in [DOMAIN files -> Seq(Tuple)]
  /\ disk \in FileType(Tuple)
  /\ pc \in {"down", "idle", "tx", "join", "spawn", "open", "closing"}
  /\ req \in Tuple \cup {NoTuple}
  /\ pool \in Nat
  /\ open \in BOOLEAN
  /\ pool_counter \in Nat
  /\ lookup_table \in [Keys -> Nat]
  /\ flush_result \in {"invalid", "pending", "ready", "error"}
  /\ flusher \in [pc : {"none", "open", "write", "unlink", "lost"},
                  pool : Nat, path : Nat, current : Nat]
  /\ acked \in [Keys -> Tuple \cup {NoTuple}]
  /\ writes \in 0 .. MaxWrites
  /\ faults \in 0 .. MaxFaults

Init ==
  /\ files = [p \in {} |-> << >>]
  /\ disk \in NoFile
  /\ pc = "down"
  /\ req = NoTuple
  /\ pool = 0
  /\ open = FALSE
  /\ pool_counter = 0
  /\ lookup_table = EmptyLookup
  /\ flush_result = "invalid"
  /\ flusher = NoFlush
  /\ acked = [k \in Keys |-> NoTuple]
  /\ writes = 0
  /\ faults = 0

-------------------------------------------------------------------------------
(* Pools and lists.                                                        *)

(* MakePersistentListPool: opens pool p if its file exists, creates it     *)
(* otherwise.                                                              *)
MakePersistentListPool(p) ==
  [q \in DOMAIN files \cup {p} |-> IF q \in DOMAIN files THEN files[q] ELSE << >>]

(* PersistentList::Insert: a new node becomes the head of the list.        *)
Insert(p, t) == [files EXCEPT ![p] = Append(@, t)]

(* it->second->obj = value.                                                *)
Overwrite(p, i, t) == [files EXCEPT ![p][i] = t]

Unlink(p) == [q \in DOMAIN files \ {p} |-> files[q]]

Full(p) == Len(files[p]) >= PoolCapacity

-------------------------------------------------------------------------------
(* The caller's thread.                                                    *)

(* NVRecEngine::NVRecEngine, on whatever pool 0 an earlier process left.   *)
Construct ==
  /\ pc = "down"
  /\ files' = MakePersistentListPool(0)
  /\ open' = TRUE
  /\ pc' = "idle"
  /\ UNCHANGED <<disk, req, pool, pool_counter, lookup_table, flush, acked, writes, faults>>

(* Entry of PersistRaw(t).                                                 *)
Call(t) ==
  /\ pc = "idle"
  /\ pc' = "tx"
  /\ req' = t
  /\ writes' = t.ver
  /\ UNCHANGED <<media, handle, lookup_table, flush, acked, faults>>

PersistUpdate(k) ==
  /\ writes < MaxWrites
  /\ Call([key |-> k, deleted |-> FALSE, ver |-> writes + 1])

PersistDelete(k) ==
  /\ writes < MaxWrites
  /\ Call([key |-> k, deleted |-> TRUE, ver |-> writes + 1])

(* Recover has no body and reports kSuccess.                               *)
Recover == pc = "idle" /\ UNCHANGED vars

(* The transaction of PersistRaw commits and the call returns kSuccess.    *)
(* libpmemobj makes it atomic: it happens whole or, on an abort or a       *)
(* crash, not at all.                                                      *)
Return ==
  /\ pc' = "idle"
  /\ req' = NoTuple
  /\ acked' = [acked EXCEPT ![req.key] = req]
  /\ UNCHANGED <<disk, handle, flush, writes, faults>>

(* Mutant: a key that has a node gets another one.                         *)
BugTxInsertTwice ==
  /\ pc = "tx" /\ open
  /\ ~Full(pool)
  /\ files' = Insert(pool, req)
  /\ lookup_table' = [lookup_table EXCEPT ![req.key] = Len(files[pool]) + 1]
  /\ Return

TxInsert ==
  /\ pc = "tx" /\ open
  /\ lookup_table[req.key] = 0
  /\ ~Full(pool)
  /\ files' = Insert(pool, req)
  /\ lookup_table' = [lookup_table EXCEPT ![req.key] = Len(files[pool]) + 1]
  /\ Return

TxOverwrite ==
  /\ pc = "tx" /\ open
  /\ lookup_table[req.key] # 0
  /\ files' = Overwrite(pool, lookup_table[req.key], req)
  /\ UNCHANGED lookup_table
  /\ Return

(* The transaction throws for want of pool memory and is rolled back.  An  *)
(* insertion into a full pool always does; an overwrite there may, because *)
(* the undo log that saves the old tuple is allocated in the pool as well. *)
TxAbort ==
  /\ pc = "tx" /\ open
  /\ Full(pool)
  /\ pc' = "join"
  /\ UNCHANGED <<media, req, handle, lookup_table, flush, acked, writes, faults>>

(* if (flush_result_.valid()) flush_result_.get();                         *)
Join ==
  /\ pc = "join"
  /\ flush_result \in {"invalid", "ready"}
  /\ flush_result' = "invalid"
  /\ pc' = "spawn"
  /\ UNCHANGED <<media, req, handle, lookup_table, flusher, acked, writes, faults>>

(* A thread with a copy of pool_.  If that pool has been closed the thread *)
(* is lost: it begins by asking the pool for its root.                     *)
FlushOf(path) ==
  [pc |-> IF open THEN "open" ELSE "lost", pool |-> pool, path |-> path, current |-> 0]

(* Mutant: the pool handed over is the one that is opened next.            *)
BugSpawnNextPool ==
  /\ pc = "spawn"
  /\ flusher' = [FlushOf(pool_counter) EXCEPT !.pool = pool_counter + 1]
  /\ flush_result' = "pending"
  /\ lookup_table' = EmptyLookup
  /\ pc' = "open"
  /\ UNCHANGED <<media, req, handle, acked, writes, faults>>

(* Mutant: lookup_table_ is copied to the flush thread and not cleared.    *)
BugSpawnKeepsLookup ==
  /\ pc = "spawn"
  /\ flusher' = FlushOf(pool_counter)
  /\ flush_result' = "pending"
  /\ pc' = "open"
  /\ UNCHANGED <<media, req, handle, lookup_table, acked, writes, faults>>

(* std::async(FlushToDisk, current_pool_path, pool_, lookup_table_).  A    *)
(* handle that is moved from still refers to its pool, a table is empty.   *)
Spawn ==
  /\ pc = "spawn"
  /\ flusher' = FlushOf(pool_counter)
  /\ flush_result' = "pending"
  /\ lookup_table' = EmptyLookup
  /\ pc' = "open"
  /\ UNCHANGED <<media, req, handle, acked, writes, faults>>

NextPoolPath == pool_counter + 1

(* pool_ = MakePersistentListPool(NextPoolPath()), and PersistRaw(value)   *)
(* once more.                                                              *)
OpenNextPool ==
  /\ pc = "open"
  /\ pool_counter' = NextPoolPath
  /\ pool' = NextPoolPath
  /\ open' = TRUE
  /\ files' = MakePersistentListPool(NextPoolPath)
  /\ pc' = "tx"
  /\ UNCHANGED <<disk, req, lookup_table, flush, acked, writes, faults>>

-------------------------------------------------------------------------------
(* The flush thread: NVRecEngine::FlushToDisk.                             *)

(* Mutant: the walk starts at the node after the head.                     *)
BugFlushOpenSkipsHead ==
  /\ flusher.pc = "open"
  /\ CanOpen(disk)
  /\ disk' = Open(disk)
  /\ flusher' = [flusher EXCEPT !.pc = "write", !.current = Len(files[flusher.pool]) - 1]
  /\ UNCHANGED <<files, caller, flush_result, acked, writes, faults>>

(* current = pool.get_root()->head(); OSFile osf{kFileName};               *)
FlushOpen ==
  /\ flusher.pc = "open"
  /\ CanOpen(disk)
  /\ disk' = Open(disk)
  /\ flusher' = [flusher EXCEPT !.pc = "write", !.current = Len(files[flusher.pool])]
  /\ UNCHANGED <<files, caller, flush_result, acked, writes, faults>>

(* One turn of the loop, from head_ along next.                            *)
FlushWrite ==
  /\ flusher.pc = "write"
  /\ flusher.current > 0
  /\ disk' = Write(disk, files[flusher.pool][flusher.current])
  /\ flusher' = [flusher EXCEPT !.current = @ - 1]
  /\ UNCHANGED <<files, caller, flush_result, acked, writes, faults>>

(* Mutant: no fsync before the pool goes.                                  *)
BugFlushNoSync ==
  /\ flusher.pc = "write"
  /\ flusher.current = 0
  /\ flusher' = [flusher EXCEPT !.pc = "unlink"]
  /\ UNCHANGED <<media, caller, flush_result, acked, writes, faults>>

FlushSync ==
  /\ flusher.pc = "write"
  /\ flusher.current = 0
  /\ disk' \in Sync(disk)
  /\ flusher' = [flusher EXCEPT !.pc = "unlink"]
  /\ UNCHANGED <<files, caller, flush_result, acked, writes, faults>>

(* pool.close(): pool_ may be a handle of the same pool.                   *)
Close ==
  /\ open' = (open /\ pool # flusher.pool)
  /\ UNCHANGED <<pc, req, pool, pool_counter, lookup_table>>

(* Mutant: the pool is closed and its file left behind.                    *)
BugFlushKeepsFile ==
  /\ flusher.pc = "unlink"
  /\ Close
  /\ flusher' = NoFlush
  /\ flush_result' = "ready"
  /\ UNCHANGED <<media, acked, writes, faults>>

(* Mutant: the thread ends without making its future ready.                *)
BugFlushNeverReady ==
  /\ flusher.pc = "unlink"
  /\ flusher.path \in DOMAIN files
  /\ Close
  /\ files' = Unlink(flusher.path)
  /\ flusher' = NoFlush
  /\ UNCHANGED <<disk, flush_result, acked, writes, faults>>

(* pool.close(), unlink(pool_path), and the future becomes ready.          *)
FlushUnlink ==
  /\ flusher.pc = "unlink"
  /\ flusher.path \in DOMAIN files
  /\ Close
  /\ files' = Unlink(flusher.path)
  /\ flusher' = NoFlush
  /\ flush_result' = "ready"
  /\ UNCHANGED <<disk, acked, writes, faults>>

(* An exception ends the thread and is kept in the future.                 *)
FlushThrows ==
  /\ flusher' = NoFlush
  /\ flush_result' = "error"
  /\ UNCHANGED <<files, acked, writes>>

(* OSFile cannot open the log.                                             *)
FlushOpenDenied ==
  /\ flusher.pc = "open"
  /\ ~CanOpen(disk)
  /\ UNCHANGED <<disk, caller, faults>>
  /\ FlushThrows

(* There is no file at the path.                                           *)
FlushUnlinkDenied ==
  /\ flusher.pc = "unlink"
  /\ flusher.path \notin DOMAIN files
  /\ Close
  /\ UNCHANGED <<disk, faults>>
  /\ FlushThrows

(* The log cannot be opened, a write is short, or unlink fails.            *)
FlushIOError ==
  /\ faults < MaxFaults
  /\ faults' = faults + 1
  /\ \/ flusher.pc = "open" /\ UNCHANGED <<disk, caller>>
     \/ /\ flusher.pc = "write"
        /\ flusher.current > 0
        /\ disk' \in ShortWrite(disk)
        /\ UNCHANGED caller
     \/ flusher.pc = "unlink" /\ Close /\ UNCHANGED disk
  /\ FlushThrows

-------------------------------------------------------------------------------
(* The end of a process.                                                   *)

(* What dies with the process.                                             *)
LoseMemory ==
  /\ pc' = "down"
  /\ req' = NoTuple
  /\ pool' = 0
  /\ open' = FALSE
  /\ pool_counter' = 0
  /\ lookup_table' = EmptyLookup
  /\ flush_result' = "invalid"
  /\ flusher' = NoFlush
  /\ UNCHANGED <<files, acked, writes>>

(* get() rethrows what the last flush threw, and the exception leaves the  *)
(* call.  In the transaction phase it ends the process: DelegateClient     *)
(* unwinds past a joinable thread.  In the loading phase it stays in the   *)
(* client's future and the other clients go on with the engine, on the     *)
(* same full pool and with no flush to wait for.                           *)
Terminate ==
  /\ pc = "join"
  /\ flush_result = "error"
  /\ LoseMemory
  /\ UNCHANGED <<disk, faults>>

Rethrow ==
  /\ pc = "join"
  /\ flush_result = "error"
  /\ flush_result' = "invalid"
  /\ pc' = "idle"
  /\ req' = NoTuple
  /\ UNCHANGED <<media, handle, lookup_table, flusher, acked, writes, faults>>

(* The next pool cannot be created, and the exception leaves the call in   *)
(* one of the two ways.  A process that goes on has moved its counter and  *)
(* emptied its table, but pool_ still refers to the pool being flushed.    *)
OpenPoolFails ==
  /\ pc = "open"
  /\ NextPoolPath \in DOMAIN files => ReopenMayFail
  /\ faults < MaxFaults
  /\ faults' = faults + 1
  /\ \/ LoseMemory
     \/ /\ pool_counter' = NextPoolPath
        /\ pc' = "idle"
        /\ req' = NoTuple
        /\ UNCHANGED <<files, pool, open, lookup_table, flush, acked, writes>>
  /\ UNCHANGED disk

(* A transaction on a closed pool, or a thread that is given one, uses     *)
(* memory that is not mapped any more, and that ends the process.          *)
UseClosed ==
  /\ pc = "tx" /\ ~open
  /\ LoseMemory
  /\ UNCHANGED <<disk, faults>>

FlushOnClosed ==
  /\ flusher.pc = "lost"
  /\ LoseMemory
  /\ UNCHANGED <<disk, faults>>

(* The process dies at any point: it is killed, the power fails, or main   *)
(* returns while a flush is under way (main never deletes the DB, so       *)
(* nothing waits for the thread).                                          *)
Crash ==
  /\ pc # "down"
  /\ faults < MaxFaults
  /\ faults' = faults + 1
  /\ disk' \in AfterCrash(disk)
  /\ LoseMemory

(* ~NVRecEngine closes the pool; then the destructor of flush_result_      *)
(* waits for the flush thread.  Closing a pool twice, or under the thread  *)
(* that walks it, ends the process at once.                                *)
Destroy ==
  /\ pc = "idle"
  /\ faults < MaxFaults
  /\ faults' = faults + 1
  /\ UNCHANGED disk
  /\ IF open /\ (flusher.pc # "none" => flusher.pool # pool)
     THEN /\ pc' = "closing"
          /\ open' = FALSE
          /\ UNCHANGED <<files, req, pool, pool_counter, lookup_table, flush, acked, writes>>
     ELSE LoseMemory

Destroyed ==
  /\ pc = "closing"
  /\ flush_result # "pending"
  /\ LoseMemory
  /\ UNCHANGED <<disk, faults>>

-------------------------------------------------------------------------------
Caller ==
  \/ TxInsert \/ TxOverwrite \/ TxAbort
  \/ Join \/ Spawn \/ OpenNextPool
  \/ Terminate \/ Rethrow \/ UseClosed \/ Destroyed

Flusher ==
  \/ FlushOpen \/ FlushWrite \/ FlushSync \/ FlushUnlink
  \/ FlushOpenDenied \/ FlushUnlinkDenied \/ FlushOnClosed

Next ==
  \/ Construct
  \/ \E k \in Keys : PersistUpdate(k) \/ PersistDelete(k)
  \/ Recover
  \/ Caller
  \/ Flusher
  \/ FlushIOError
  \/ OpenPoolFails
  \/ Crash
  \/ Destroy

Spec == Init /\ [][Next]_vars

(* Both threads keep running: the caller is never suspended for ever by    *)
(* the scheduler, and every system call of the flush thread returns.       *)
FairSpec == Spec /\ WF_vars(Caller) /\ WF_vars(Flusher)

-------------------------------------------------------------------------------
(* What the engine promises.                                               *)

InPool(t) == \E p \in DOMAIN files : \E i \in DOMAIN files[p] : files[p][i] = t

OnDisk(t) == \E i \in 1 .. disk.synced : disk.data[i] = t

(* PersistRaw returns kSuccess only for tuples that stay on durable media: *)
(* at every moment, in whatever state a crash, a restart, a failing write  *)
(* or a rotation leaves the files, the last tuple acknowledged for a key   *)
(* is in a pool file or in the synced part of the disk log.                *)
Durable == \A k \in Keys : acked[k] # NoTuple => InPool(acked[k]) \/ OnDisk(acked[k])

(* lookup_table_ and the pool agree: a key's entry refers to a node of the *)
(* current pool that holds that key, so an overwrite in place never        *)
(* replaces the tuple of another key.                                      *)
LookupSound ==
  pc \in {"idle", "tx", "join", "spawn"} =>
    \A k \in Keys : lookup_table[k] # 0 =>
      /\ lookup_table[k] \in DOMAIN files[pool]
      /\ files[pool][lookup_table[k]].key = k

(* The flush thread walks a pool no caller writes to, and that pool's file *)
(* is there until the thread itself unlinks it.  When the next pool could  *)
(* not be opened and callers still have this one, they find no node of     *)
(* theirs in it and no room for another: all they can do is wait.          *)
FlushIsolated ==
  flusher.pc \in {"open", "write", "unlink"} =>
    /\ flusher.pool \in DOMAIN files
    /\ flusher.pool = pool => lookup_table = EmptyLookup /\ Full(pool)

(* One process so far, without a fault, that may reopen the disk log.      *)
Undisturbed == faults = 0 /\ disk.privileged

(* While one process lives undisturbed, the disk log has the tuples of a   *)
(* key in the order of the calls that brought them, each at most once:     *)
(* replaying it from the start leaves the newest.                          *)
DiskOrdered ==
  Undisturbed =>
    \A i, j \in DOMAIN disk.data :
      i < j /\ disk.data[i].key = disk.data[j].key => disk.data[i].ver < disk.data[j].ver

(* Persistent memory holds the current pool and the one being flushed, no  *)
(* more, while one process lives undisturbed.                              *)
PoolsBounded ==
  Undisturbed =>
    \A p \in DOMAIN files : p = pool \/ (flusher.pc # "none" /\ p = flusher.pool)

(* A pool file is unlinked only when every tuple in it is durable on disk. *)
UnlinkOnlyDurable ==
  [][\A p \in DOMAIN files \ DOMAIN files' :
       \A i \in DOMAIN files[p] : OnDisk(files[p][i])]_vars

(* Every call returns, or its process ends: neither the wait for the       *)
(* previous flush nor the retry after a rotation goes on for ever.         *)
CallReturns == (pc = "tx") ~> (pc \in {"idle", "down"})

(* A full pool does not stay in persistent memory: once the engine rotates *)
(* away from it, its file is unlinked, unless the flush throws or the      *)
(* process ends first.                                                     *)
PoolReclaimed ==
  \A p \in 0 .. MaxWrites :
    (pc = "spawn" /\ pool = p)
      ~> (p \notin DOMAIN files \/ flush_result = "error" \/ pc = "down")

-------------------------------------------------------------------------------
(* The engine implements a durable map from keys to tuples while one       *)
(* process lives without a fault.                                          *)

PoolContents(p) == IF p \in DOMAIN files THEN files[p] ELSE << >>

(* What reading the disk log, then the pool being flushed, then the        *)
(* current pool yields for key k.                                          *)
Stored ==
  [k \in Keys |-> LastOf(Readable(disk.data) \o PoolContents(flusher.pool)
                                   \o PoolContents(pool), k)]

Store == INSTANCE DurableStore WITH stored <- Stored

(* As long as nothing fails and the disk log may be written, the engine    *)
(* takes steps of the durable store only: moving tuples from pool to pool  *)
(* and from pools to disk never changes what is stored, and a call that    *)
(* succeeds changes it for its key.                                        *)
ImplementsStore == [][faults' = 0 /\ disk.privileged => [Store!Next]_<<Stored, req>>]_vars
===============================================================================
