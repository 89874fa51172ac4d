# Verification of nvrec_ycsb

A TLA+ development kept beside the code of `nvrec_ycsb`: a YCSB benchmark
driver in C++ with a database, `NVMDB`, that keeps its tables in memory and
hands every change to one of three *recovery engines*, which keep it in
persistent memory and move it to a disk log when the memory is full. Beside it
the repository has databases on concurrent hash tables and a driver for Redis with
the client library it stands on. TLC checks
the modules on small instances; TLAPS proves the main results for every value of
the constants.

## 1. The system

| component | state it keeps | operations | interacts with |
|---|---|---|---|
| NVRec engine (`recovery/nvrec_engine`) | current libpmemobj pool, `lookup_table_`, `pool_counter_`, future of the last flush | `PersistUpdate`, `PersistDelete`, `Recover` (empty), rotation, `FlushToDisk` in a thread of its own | persistent list, OSFile, file system |
| Persistent list (`recovery/persistent_list`) | doubly linked list of nodes inside a pool | `MakePersistentListPool`, `Insert` | libpmemobj transactions |
| NVMLog engine (`recovery/nvmlog_engine`) | libpmemlog pool, `current_length_` | as above; flush in the caller's thread | OSFile |
| NVMBlk engine (`recovery/nvmblk_engine`) | libpmemblk pool, `lookup_table_`, `next_block_` | as above; flush in the caller's thread | OSFile |
| OSFile (`recovery/os_file`) | file descriptor of `disk_log.txt` | open for appending, `Write`, `Sync` | page cache |
| Tuple codec (`recovery/recovery_defs`) | none | `DBToRaw`, `RawToDB` | engines |
| NVMDB (`db/nvmdb`) | `tables_`, one mutex, the engine | `Read`, `Scan`, `Update`, `Insert`, `Delete`, each under the mutex | engine |
| Hashtable databases (`db/hashtable_db`, `db/*_db.h`, `lib/*_hashtable.h`) | table of tables of C strings | the same five, without a lock of their own across two table accesses | hash tables |
| Core workload and generators (`core/`) | counters, distributions | next key, next operation, next field, values | client |
| Client and driver (`core/client.h`, `ycsbc.cc`) | client threads, sampling threads, counters | load phase, transaction phase, statistics | workload, database |
| Redis driver (`db/redis_db`, `redis/redis_client.h`) | one blocking context, `slaves_` | `Read`, `Update`, `Insert`, `Delete` as commands to a server | hiredis, server |
| hiredis, blocking (`redis/hiredis/hiredis.c`, `read.c`, `sds.c`, `net.c`) | output buffer, reply reader with its stack of tasks and its objects, descriptor | connect, append a command, get a reply, free | sockets |
| hiredis, asynchronous (`async.c`, `dict.c`) | queue of callbacks, queue for invalid commands, tables of channels and patterns, flags | connect, command, disconnect, free; read and write events | event loop, application, server |
| Basic DB, factory, properties, scripts | | | |

`DBFactory` creates neither the Redis driver nor anything on top of `async.c`; both
are in the repository and built with it, and modelled for what they promise.

What is hard here:

* NVRec runs a flush thread beside the caller, which goes on in the next pool,
  rotates again, and only then waits for the flush;
* the process can end between any two system calls (it always does so while the
  last flush may be under way: `main` never deletes the database), and the next
  process starts on the files it finds, without the tables the last one had in
  memory;
* writes reach the page cache first; opens, writes, `fsync` and `unlink` fail;
* an exception that leaves an engine call ends the process in the transaction
  phase (the client's frame holds a joinable `std::thread`), but in the loading
  phase it stays in that client's future and the other clients go on using the
  engine;
* `HashtableDB` makes several accesses to a table in one call, each under a lock
  of its own, and deletes strings that other calls may hold pointers to;
* a socket moves any part of what it is given: a reply may come a byte at a time
  or together with the next, an allocation may fail inside it, and the server may
  answer with an error, go away or refuse the connection;
* `async.c` matches replies with callbacks by their order alone, in lists that a
  change of mode (subscribed, monitoring, disconnecting) switches between, while
  callbacks issue commands, disconnect or free the context they run in.

What makes the engines correct: no acknowledged tuple is lost; replaying the
disk log and then persistent memory yields the last acknowledged tuple of each
key, as long as no torn record is in the way; an update in place never hits another key; a pool is given up only when the
disk has it; calls end. What makes the others correct: a string is deleted once
and by its owner; what was acknowledged is read; a command arrives whole and its
reply goes to the call, or the callback, that it is for; nothing leaks on any
error path. `PROJECT.json` lists every hazard with the line where it
bites and the properties that cover it.

## 2. Modules

| module | models | used by |
|---|---|---|
| `OSFile` | `os_file.cc` as operators on a file value: its records and the length of the prefix that is durable | all engines |
| `Tuples` | the tuple, and how a sequence of tuples is replayed | all engines |
| `TuplesProofs` | what each operator of `OSFile` preserves; what replaying yields on longer, joined and changed sequences | engine proofs |
| `DurableStore` | abstract: calls that begin with a tuple and end by replacing the tuple of its key, or by changing nothing | refinement target; the engine in `NVMDB` |
| `NVRecEngine` | `nvrec_engine.cc`, `persistent_list.cc` | `MCNVRec`, `NVRecProofs` |
| `NVRecProofs` | proofs about NVRec: with faults anywhere, and while undisturbed | |
| `NVMLogEngine` | `nvmlog_engine.cc` | `MCNVMLog`, `NVMLogProofs` |
| `NVMLogProofs` | proofs about NVMLog | |
| `NVMBlkEngine` | `nvmblk_engine.cc` | `MCNVMBlk`, `NVMBlkProofs` |
| `NVMBlkProofs` | proofs about NVMBlk | |
| `TupleCodec` | `recovery_defs.cc` on packed characters | `TupleCodecProofs` |
| `TupleCodecProofs` | proofs about the codec | |
| `CoreWorkload` | `core_workload.cc` and the generators: keys, fields and operations that can come up | `YCSB` |
| `NVMDB` | `nvmdb.cc`: records in memory, mutex, an engine that is a `DurableStore` | `YCSB` |
| `YCSB` | `ycsbc.cc`, `client.h`: phases, clients, sampling threads, composed with the two above | `MCYCSB`, `YCSBProofs` |
| `YCSBProofs` | proofs about the driver, the clients and the database | |
| `HashtableDB` | `hashtable_db.cc`, the databases on it and their tables: calls that interleave between accesses | `MCHashtableDB`, `HashtableDBProofs` |
| `HashtableDBProofs` | proofs about who owns a string, where a write is and what a read gets | |
| `Sds` | `sds.c`: the dynamic strings of hiredis | `RedisReader` |
| `RedisReader` | `read.c` and the reply objects of `hiredis.c` | `RedisFormat` |
| `RedisFormat` | formatting of commands in `hiredis.c` | `RedisDB` |
| `RedisNet` | `net.c`: outcomes of connecting | `RedisDB`, `RedisAsync` |
| `RedisDB` | `redis_db.cc`, `redis_client.h`, blocking contexts of `hiredis.c`, with a server | `MCRedisDB` |
| `Dict` | `dict.c` | `RedisAsync` |
| `RedisAsync` | `async.c`, with an application, an event loop and a server | `MCRedisAsync`, `RedisAsyncProofs` |
| `RedisAsyncProofs` | proofs about callbacks, replies and subscriptions, with `Dict` and `RedisNet` underneath | |

### Abstractions

* A tuple is its key, its `deleted` flag and `ver`, the number of the call that
  brought it; `ver` stands for the field images, which the engines never look
  into. `TupleCodec` is where the characters are modelled.
* A libpmemobj transaction, `pmemlog_append` and `pmemblk_write` are atomic: they
  happen whole or not at all. This is what these libraries are for.
* A pool file of NVRec is the sequence of its nodes in the order of insertion:
  the head is the last, `next` goes down by one. A `persistent_ptr` in
  `lookup_table_` is a position in it.
* Capacities count tuples, not bytes. A transaction on a full NVRec pool aborts if
  it inserts and *may* abort if it overwrites (its undo log is allocated in the
  pool too).
* The disk file keeps the records written and how many of them `fsync` has made
  durable. A power failure keeps the durable prefix and any number of the records
  after it, the next one possibly torn (`Torn`). A short write appends nothing or
  a torn record. The records of the file have one size and no marks between them,
  so that a reader is out of step behind a torn one: `Readable` is the part of the
  log before the first torn record, and replaying (`LastOf`) is of that part.
* `DurableStore` has three actions. `Begin` is the entry of a call and brings its
  tuple (`req`), `Succeed` replaces the tuple of the key of *that* call, `Fail` ends the
  call, whether by `kFail`, an exception or the end of the process, and changes
  nothing. There is no other step, so a step of an engine that implements it and is
  not the success of a call leaves what is stored exactly as it was: a flush that
  brought an older tuple back, or a call that changed another key, would be a
  counterexample.
* `OSFile::Sync` and `NVMDB::Scan` end without a `return` although they are not
  `void`. The CMake build is not optimised, so control returns with an arbitrary
  value; `Sync`'s is ignored by all callers.
* Open modes are modelled: `open(..., O_CREAT, S_IRWXG)` gives the owner of the
  new log no permission, so an unprivileged process opens it once and never
  again (`Privileges` says which users a run considers).

### NVRecEngine

The caller's program counter `pc` goes through `PersistRaw`: `tx` (the
transaction: `TxInsert`, `TxOverwrite`, `TxAbort`), `join` (`flush_result_.get()`:
`Join`, or `Terminate`/`Rethrow` when the flush threw), `spawn` (`std::async`:
`Spawn`), `open` (`OpenNextPool`) and back to `tx`. The flush thread has its own:
`open`, `write` (one node per step, newest first), `unlink`. `Crash` happens at
any point; `Destroy`/`Destroyed` is the orderly end. `Construct` starts on
whatever is in the files.

`pool` is the pool `pool_` refers to and `pool_counter` the number of the last path
asked for. They differ after `OpenPoolFails`: `MakePersistentListPool` throws, and
unless that ends the process (as for `Terminate`) `pool_`, which was moved from but
still refers to the old pool, stays behind a counter that has moved on. `open` says
whether that pool has been closed: the flush thread closes it when it is done, and a
transaction on it (`UseClosed`) or another flush of it (`FlushOnClosed`) ends the
process. The next flush of such a process unlinks the path of the counter, which is
not that of the pool it has copied (`FlushUnlinkDenied` if there is no such file).

### NVMLogEngine and NVMBlkEngine

One thread, because `NVMDB` holds its mutex throughout; each system call is a
step so that a crash can come between any two. In NVMLog `inherited` is a history
variable: how many tuples of the log the running process did not append. Its
refinement has one exception, `RewindsBehindTorn`: when a write of a flush is cut
short in the middle of a record, the flush that repeats it appends behind that torn
record, where a reader is out of step, and the rewind then removes the tuples from
the pool. `Recoverable` speaks of logs whose durable part is whole (`Intact`), and
`Durable` of all: the bytes of every acknowledged tuple are in the pool or in the
durable part of the log. In NVMBlk `mine` is: the keys the running process acknowledged.

### CoreWorkload, NVMDB and YCSB

`YCSB` extends the other two and has the next-state relation. A client's
operation is: choose it (`DoInsert`, `DoTransaction`), then compete for the mutex.
Reads and scans are one step with the mutex free. Updates and inserts are two:
`ChangeRecord` takes the mutex and changes memory, then one of `PersistSucceeds`,
`PersistReportsFail`, `PersistThrows` ends the engine's call and releases it. The
engine is `DurableStore`, which `ImplementsStore` in `nvrec_crash`, `nvmlog_crash`
and `nvmblk_crash` justifies; that a call returns is `CallReturns` of NVRec. `disputed` is a history
variable: keys whose last engine call failed. `Scan` lacks a return statement, so
its status is any of three, one of which fails the client's assertion.

### HashtableDB

A table is a map with atomic operations, which is what the mutex of
`LockStlHashtable` and the locks of the two TBB tables make of it. A call goes
through as many steps as it makes accesses: `FindRecord`, `LinkRecord`, then per
field `InsertField`, or `UpdateField` and one of `AddField`, `DeleteOld`; a read
or scan fetches pointers in one step (`FetchFields`) and copies the strings they
point to in later ones (`CopyToResult`), where they may have been deleted. A scan
asks for any number of records (`FindTables`) and keeps the field tables it has
found under their places in the order of the key table, the constant `KeyOrder`.
`Entries` and `Insert` of `TbbScanHashtable` take its lock shared, so a traversal
goes on beside insertions; updates and removals wait for it. The traversal of the key
table passes by any of the records inserted since the scan began (`Without`; `there`
are those it cannot miss), and that of a field table may meet a field inserted since
it began (`FetchLate`), as long as it holds the lock: nothing it has found has been
swapped. A
call makes at most one field table and one string per field, so its number names both;
`freed` counts the deletions of each. Three history variables say what the
properties leave out: `raced` (records that two calls wrote while incomplete: both
may create it, and the results of the insertions are ignored), `mixed` (reads that
an update of the same record overlaps: these do copy deleted strings) and `prior`
(the calls that had returned when a call was made). `Delete` runs alone, as nothing
in the repository calls it beside others. Key strings, which the tables copy and
seldom free, are left out.

### Sds, RedisReader, RedisFormat, RedisNet and RedisDB

`Sds` has the dynamic strings with their room, `RedisReader` the parser of
replies as an operator on the reader's state, byte by byte, with the heap of reply
objects and a number of allocations that succeed. `RedisFormat` turns a format and
its arguments into bytes. `RedisNet` gives the set of outcomes of connecting:
which error is set, which descriptors are open. Its loop over addresses goes in
rounds: `Retries` are the attempts that follow one that did not get through
(`continue` and `goto addrretry` in the code), `Ends` the outcomes an attempt can
end the loop with, and `TryAddresses` collects the latter over all rounds there
can be. `RedisDB` composes them. A step of
a client ends at a system call (`BufferWrite`, `BufferRead`), which moves all or
a few of the bytes there are; the server, external, parses what has arrived and
appends its reply to the bytes on their way back. `issued`, `executed`, `seen` and
`result` are history variables. Keys and values have no space and no `%`: the
driver asserts the first, and hands its text over as a format, so that a `%` in a
value would be taken for a conversion. The class is used by one thread here: it
takes no lock around the context it has.

### Dict and RedisAsync

`Dict` is the chained hash table of `dict.c`. A chain is a set: the order in it
only decides in which order `dictNext` visits, and nothing depends on that.
`RedisAsync` works with whole
messages, because the bytes are `RedisReader`'s subject. `pc` is `events` or, within
`redisProcessCallbacks`, `loop`: one step per reply up to the end of its callback
(`ProcessReply`, in which the application may issue a command or disconnect;
`FreeInCallback`), one for the end of the input (`ProcessEnd`) and one for input that
is no reply (`LoopFails`). `cb` is the local variable that outlives an iteration, as
in the code. The server is external.

So is the application. `Useful` is what it would issue in any case: it ends only
subscriptions it has, naming each once (the server confirms the second as well, with
a name that is no longer in the table), and monitors when it is not subscribed.
`Sensible` is more: it issues nothing while the answer to an `UNSUBSCRIBE` is due, and
`MONITOR` only outside of callbacks when no reply is due. The library neither documents
nor checks this; `Disciplined` says whether the application keeps to it. It is
assumed by `redis_async` and by the theorems, and it cannot be dropped:

* a command issued while the answer to the last `UNSUBSCRIBE` is due waits among
  the invalid ones or for a confirmation, and its answer finds the context
  unsubscribed: the assert in line 463 fails. With `Disciplined = FALSE` and
  `MaxCommands = 3` TLC finds `PSUBSCRIBE`, `PUNSUBSCRIBE` and, before the answers are
  read, another `SUBSCRIBE` or `PUNSUBSCRIBE`;
* `MONITOR` issued while replies are due, or in a callback, pushes another
  command's callback back (lines 428-430).

Disciplined or not, a command other than `(P)SUBSCRIBE`, `(P)UNSUBSCRIBE` in subscribed
mode is answered with an error, for which the whole context is disconnected and the
callback run with NULL, although the comment in lines 635-636 says that the error is
to be received and passed to the callback. `OwnReply` allows a callback NULL, so it
does not see this; `RefusalDelivered` says what the comment says, and
`redis_async_refused` is its counterexample.

`redisAsyncFree` or `redisAsyncDisconnect` from `onConnect` or `onDisconnect` use
the context after it was freed; the application does not do it here.

## 3. Runs

| run | what it shows | bounds |
|---|---|---|
| `nvrec_crash` | `Durable`, `LookupSound`, `FlushIsolated`, `UnlinkOnlyDurable` with crashes, restarts, I/O errors, refused opens and pools that cannot be created anywhere; `DiskOrdered`, `PoolsBounded` and `ImplementsStore`, the refinement of `DurableStore`, while undisturbed | 3 keys, 2 nodes per pool, 5 calls, 2 faults: two rotations with an overwrite between, a crash in each, and orphan pools that a later process meets again |
| `nvrec_live` | `CallReturns`, `PoolReclaimed` | 1 node per pool, 3 calls, failing fsync, refused opens: a rotation on every new key, and a flush that throws |
| `nvmlog_crash` | `Durable`, `Recoverable`, `RewindOnlyDurable`, refinement of `DurableStore` *through crashes* but for a rewind behind a torn record; `LengthAccounted`, `FailsOnlyOnInherited`, `InheritedNeverFlushed` for the log a process takes over | 2 keys, 2 tuples in the log, 5 calls, 2 faults: a flush cut short, repeated, and another; a taken-over log that fills up |
| `nvmblk_crash` | `Durable` for the running process, `FlushWritesCurrent`, `LookupSound`, `DiskOrdered`, with failing writes and reads; `ImplementsStore` while undisturbed | 3 keys, 2 blocks, 5 calls, 2 faults |
| `codec_full` | violation: a value that fills its field is not read back; for shorter ones `RoundTrip` is proved (section 4) | 3 fields of 3 characters, 2 letters, values up to 3 characters |
| `ycsb` | `Agreement`, `LoadedBeforeRun`, `ReadsPersisted`, `InsertIsFresh`, `Terminates` | 2 clients, 3 records (one that nobody loads), 2 fields, 2 transactions each, 1 failing engine call |
| `ycsb_update` | violation: a one-field update leaves the engine with one field | 2 records, 1 transaction each |
| `ycsb_keys` | violation: a transaction picks a key nobody has inserted | 3 records, 2 clients |
| `hashtable_db` | `StringsOwned`, `AckedWrites`, `ReadSound` | 2 records of 2 fields, 2 calls at a time, 4 in all: two calls that overlap, with a record made before and a read or the deletion of the database after; scans of 1 and 2 records, which stand for a `Read` of all fields as well (`ReadsAll`) |
| `redis_db` | `CommandsIntact`, `ReadsStored`, `NoOrphans`, `InStep`, `ConnectReports`, `CallReturns` | 1 client, 2 calls, a value of two bytes that looks like protocol, lists of one and of two fields, transfers of one byte or all, 1 fault; the reader discards from 5 bytes on and its buffer is dropped above 8, so that both happen |
| `redis_async` | `AssertionsHold`, `OwnReply`, `Finished`, `SubscriptionsAgree`, `DisconnectEnds` | 2 channels and a pattern, 3 commands, 1 message, 1 fault; tables of 1 slot, so that they grow and chain; `Disciplined` |
| `redis_async_refused` | violation: `RefusalDelivered`, a command issued in subscribed mode | the same with `Disciplined`, 2 commands, no message, no fault |

`ImplementsStore` of NVRec and NVMBlk says of every step of a process that has met
no fault that it is a step of `DurableStore` or leaves `Stored` and `req` as they are;
NVMLog's says it of every step but `RewindsBehindTorn`, faults or not.

The bounds are on the length of behaviours (`MaxWrites`, `MaxFaults`) and on
sizes. Keys are only ever compared, hence the symmetry sets; one or two more keys
than a pool holds are enough to make every key an insertion in one pool and an
overwrite in another.

**Fairness.** `nvrec_live` uses weak fairness of the caller's steps and
of the flush thread's. The code justifies it by running both as operating-system
threads that nothing but the future couples, and by every system call returning.
No fairness is assumed for new calls, faults, or restarts. `ycsb` assumes weak
fairness of every client, sampling thread and of `main2`, all operating-system
threads; a client competes for the mutex with finitely many others, each of which
has time for finitely many transactions, so the mutex need not be fair.
`redis_db` assumes weak fairness of a client's steps within a call and of the
server, which answers or closes, and none for faults or new calls.
`redis_async` assumes that the event loop serves a descriptor that is ready
again and again: a read or write event moves at least a byte, so a message or
command, which is whole in the model, gets through after finitely many of them,
even if other events come between. In both the fairness of an action is written
out as a condition on the state under which it can be taken; `redis_db` names the
steps themselves by what nothing else changes, a waiting client by the context it
works on (`Acts`) and the server by the commands it has run (`Serves`).

### What the checks show about the code

* NVRec keeps every acknowledged tuple somewhere durable, but nothing reads it
  back: `Recover` is empty. After a restart pool 0 has several nodes per key and
  is copied newest first, and pools that a crash orphaned are met again when the
  counter reaches them, after newer tuples have gone to disk. `DiskOrdered` and
  the refinement are therefore claims about one process.
* `NVRecEngine::PersistRaw` has no answer to a next pool that cannot be opened. As
  long as pool files that exist can be (`ReopenMayFail = FALSE`), nothing is lost by
  it, because the path a later flush unlinks has no file. With `ReopenMayFail = TRUE`
  and three faults `Durable` and `UnlinkOnlyDurable` have counterexamples: a crash has
  left pool n+1, it cannot be opened behind pool n, the flush of pool n throws, and the
  next flush copies pool n and unlinks the file of pool n+1, whose tuples are nowhere
  else.
* NVMLog's disk log and pool replay to exactly what was acknowledged, through
  crashes and flushes cut short, as long as no torn record gets into the durable part
  of the log. A `write` that is cut short in the middle of a record puts one there, and
  then everything a later flush appends is on the disk but out of step. And a process that takes over a log with tuples in it never flushes it
  (`InheritedNeverFlushed`), and from the point where it is full every call
  returns `kFail`.
* NVMBlk's process overwrites the blocks of the one before it from block 0 on:
  what those held and no flush had copied is lost. `Durable` there speaks of the
  running process only. `FlushToDisk` does not look at the result of `Write`: a
  short write loses the tuple it was for (history variable `skipped`), and
  `Durable` says that the bytes of all others are on the medium. A reader of
  fixed-size records would not find those behind a torn one.
* All three ignore a failing `fsync`: `OSFile::Sync` drops its result. With
  `FsyncMayFail = TRUE` `Durable` of NVRec has a counterexample in three calls (a
  rotation whose fsync fails, the unlink, a power failure); it is checked and
  proved without.
* The hash-table databases lose acknowledged writes only when two calls create,
  or complete, the same record at once, and delete strings under a reader only
  when an update overlaps a read of the same record. Both do happen.
* `async.c` aborts the program when commands follow an `UNSUBSCRIBE` too closely
  (section 2, `Disciplined`), and gives up the connection for a command refused in
  subscribed mode (`redis_async_refused`).
* The Redis driver reports `kOK` for a read that failed and for a command the
  server answered with an error; after a failed `redisGetReply` it frees a reply
  that was never set, or was freed before. `process` in `RedisDB` has these ends.
* Connecting with `REDIS_REUSEADDR` leaves descriptors open on a retry and fails
  without an error on the last; nothing in the repository asks for it, and
  `ConnectReports` is about what the driver does.
* In monitor mode a read event that brings no whole line pushes a NULL callback,
  and lines are dropped from then on; `DisconnectEnds` excludes monitoring for this
  reason.
* With `writeallfields=false`, the default, the engines end up with one field per
  updated record (`ycsb_update`). `Agreement` holds for whole-record updates.
* The comment in `CoreWorkload::Init` on keys that are not inserted yet does not
  describe the code when the client count does not divide the record count
  (`ycsb_keys`).

## 4. Proofs

Each proof module has its inductive invariant `IInv` as a conjunction of named
parts, one lemma per action (actions that disturb the same parts share one), a
theorem `Invariance` and then the results. Every invariant was checked with TLC
before it was proved. Bounds such as `MaxWrites`, `MaxFaults` and `MaxCalls` are
constants, so what is proved holds for any number of calls and faults.

### What is assumed

* `TupleAssumption`, `NVRecAssumption`, `NVMLogAssumption`, `NVMBlkAssumption`,
  `CoreWorkloadAssumption`, `YCSBAssumption`: capacities and counts are positive
  naturals, and the values that stand for "none" are not keys, tuples or blocks.
* `DictAssumption`, `NetAssumption`, `AsyncAssumption`: the initial size of a table
  is positive, the counts are naturals, there are finitely many names, no name is a
  channel and a pattern, and a list in a command has a name in it.
* `HashtableDBAssumption`: a list of fields to write is not empty and has each
  field once, which is how `BuildValues` and `BuildUpdate` make them; every key has
  a place in the order of the key table.
* `~FsyncMayFail`, as a hypothesis of the theorems it is needed for: `OSFile::Sync`
  drops the result of `fsync`, and with a failing one they are false (section 3).
* `~ReopenMayFail`, as a hypothesis of two theorems of `NVRecProofs`, which are false
  without it (section 3).
* `Disciplined`, as a hypothesis of the theorems of `RedisAsyncProofs`
  (section 2 has the counterexample without).
* `CodecAssumption` (counts are positive, no value has a zero in it, none is longer
  than a field) and `MaxValueSize < kFieldSize`, as hypotheses of the theorem about
  the codec.
* `WriteAllFields`, as a hypothesis of two theorems of `YCSBProofs`
  (`ycsb_update` is the counterexample without).

### The lemmas underneath

`TuplesProofs` has lemmas for every operator of `OSFile` (for any set of
records): it yields a file again, keeps the durable prefix, and keeps the records
written in place. `CrashFile` is the one for a power failure. `ReadableGrows` says
that what is readable of a file stays so when the file gets longer, `ReadableWhole`
that a whole file is read whole.

It also says what replaying a sequence yields: `LastAppend`, `LastWritten`,
`LastConcat` (one sequence after another: the second decides if it has the key),
`LastSuffix`, `LastExtended` (what comes between makes no difference if its keys
come again). `LastOf` is a choice of the greatest position that has the key, so
each of them rests on there being one: `GreatestNatural`, from the well-founded
order of the naturals, which is how these facts are had without an induction over
the sequence.

### NVRec

`NVRecProofs`, with faults, crashes and restarts anywhere:

* `TypeCorrect`: `Spec => []TypeOK`
* `LookupIsSound`: `Spec => []LookupSound`
* `FlushIsIsolated`: `Spec => []FlushIsolated`
* `AckedIsDurable`: `Spec => []Durable`, assuming `~FsyncMayFail` and `~ReopenMayFail`
* `UnlinkIsSafe`: `Spec => UnlinkOnlyDurable`, assuming the same

`Durable` is not inductive: when a pool is unlinked, one has to know that the
flush thread has passed every node of it and that what it wrote is synced; when a
node is overwritten, that it holds the same key; that nothing is written to the pool
being flushed; and that the path that is unlinked is that pool's. The inductive invariant `IInv` adds

* `AckedInv`: acknowledged tuples are filed under their own key,
* `CallerInv`: a pool that is open exists, and is full when it is about to be
  flushed; the table is empty when there is no pool to refer to,
* `FlusherInv`: the thread runs exactly while its future is pending,
* `PathInv`: pools and paths are numbered upwards; the thread unlinks a path below
  the current pool, unless that is the pool it was given, and if pool files that
  exist can be opened that path is its pool's or has no file,
* `FlushProgress`: the nodes above the thread's position are in the log, and all
  are durable once it is about to unlink.

For a process that nothing has disturbed (second part of `NVRecProofs`):

* `DiskIsOrdered`: `Spec => []DiskOrdered`
* `PoolsAreBounded`: `Spec => []PoolsBounded`
* `EngineImplementsStore`: `Spec => ImplementsStore`

The question is where the newest tuple of each key is while caller and flush
thread both go on. `UInv` answers: in the current pool if the table has the key
(`CurInv`), else in the part of the old pool that the thread has still to copy
(`OldInv`), else last in the disk log (`LastInv`); and there are no other pools
(`PoolsInv`). With `VersionInv` and `OrderInv` (disk log, rest of the old pool,
current pool are in the order of the calls) this gives all three; the copying of a
pool from its head backwards does no harm because an undisturbed pool has one node
per key.

### NVMLog

`NVMLogProofs`, always: `TypeCorrect`, `LengthIsAccounted` (`LengthAccounted`),
`FailuresAreInherited` (`FailsOnlyOnInherited`), `InheritedStays`
(`InheritedNeverFlushed`). Assuming `~FsyncMayFail`: `AckedIsDurable` (`Durable`),
`AcksAreRecoverable` (`Recoverable`), `RewindIsSafe` (`RewindOnlyDurable`) and
`EngineImplementsStore` (`ImplementsStore`), the refinement of `DurableStore` through
crashes and restarts.

The part of the invariant that is not obvious is `TailInv`: a flush that was cut
short leaves tuples in the disk log, old ones perhaps, of which a later crash may
keep any number. The keys of all tuples beyond the durable part are still in the
pool, which is replayed after the disk log, so these tuples make no difference
(`LastExtended`). `CountInv` relates `current_length_` to the log; `WalkInv` says
that the disk log ends with what the walk has passed.

### NVMBlk

`NVMBlkProofs`, always: `TypeCorrect`, `LookupIsSound` (`LookupSound`),
`FlushIsCurrent` (`FlushWritesCurrent`), `DiskIsOrdered` (`DiskOrdered`), and
`EngineImplementsStore` (`ImplementsStore`, which speaks of steps without a fault).
Assuming `~FsyncMayFail`: `AckedIsDurable` (`Durable`).

The flush copies all blocks of the pool by number and never asks `lookup_table_`;
that each of them is current takes `UseInv` (every block below `next_block_` is
that of a key) and that a flush is reached only with all blocks in use. `MineInv`,
`CopyInv` and `StoreInv` follow the acknowledged tuples through it.

### The codec

`TupleCodecProofs`: `RoundTripHolds` (`Spec => []RoundTrip`), assuming
`CodecAssumption` and `MaxValueSize < kFieldSize`; `codec_full` is the counterexample for values that fill
their field. The invariant says what every field holds (`Holds`): its value with
zeros behind. `Places` and `Apart` are the arithmetic of the packed array, by which
no copy reaches another field, and `StrlenIs` finds the end of each value.

### The driver

`YCSBProofs`, assuming `WriteAllFields`: `AgreementHolds` (`Spec => []Agreement`)
and `ReadsArePersisted` (`Spec => ReadsPersisted`). `Agreement` speaks of states in
which the mutex is free, so it says nothing of the state an engine call starts
from. The inductive invariant `IInv` adds

* `AheadInv`: while a client holds the mutex, memory is ahead of the engine by at
  most the record that client is about to persist, and memory has exactly its
  values (`MergeWhole`: merging a whole record leaves nothing of the old one),
* `MutexInv`: the holder of the mutex is the client at its engine call,
* `CallInv`: what a client is about to write is a whole record,
* `JoinInv`: the clients `main2` has waited for are done, so that nobody is inside
  the database when the second phase replaces all of them.

`ReadsArePersisted` follows because only `TransactionRead` and
`TransactionReadModifyWrite` change the call of a client that is about to read
(`ReadersWait`), and both find the mutex free.

However updates write: `TypeCorrect`, `LoadingIsComplete` (`LoadedBeforeRun`) and
`InsertsAreFresh` (`InsertIsFresh`). The argument is a count. `Drawn` is the set of
insertions begun while loading, as pairs of a client and its operation; the counter
stands at its start plus the cardinality of that set (`DrawnInv`), each key below
it is in memory or with exactly one client that is about to insert it (`LoadInv`,
`FreshInv`), and when `main2` has waited for all clients the set is the whole
product, so that every key has been drawn and nobody holds one.

### The hash-table databases

`HashtableDBProofs`: `StringsAreOwned` (`Spec => []StringsOwned`),
`AckedWritesStay` (`Spec => []AckedWrites`) and `ReadsAreSound`
(`Spec => []ReadSound`), for any number of calls at a time. None is inductive. `IInv` has, while the database exists,

* `OwnerInv`: a string that is not deleted is in one field of one table, or with
  the one call that swapped it out and will delete it,
* `FreshInv`: a string that its call has not written yet is nowhere, so that
  putting it somewhere keeps it the only one,
* `TableInv`: a field table belongs to one key, and is empty until its call has
  tried to put it there; a deletion's table is under no key,
* `AloneInv`: a deletion runs alone, and after all calls there are,
* `RaceInv`: unless a record was written by two calls while incomplete, a second
  writer finds it complete, so that every field it writes is a swap; a writer that
  is alone finds what it inserts absent,
* `KeptInv`, `AckedInv`: then each string written is deleted, in a linked table, or
  swapped out, and each field has a string of a call that is not older.

A write of a field is proved once for all actions that do it (`WritesField` and the
lemmas `FieldInv`, `PutInv`, `SwapInv`, `DropInv`); `InsertField`, `UpdateField`,
`AddField` and `DeleteOld` are cases of it.

The reads have an invariant of their own on top, `ReadInv`, inductive relative to
`IInv` before and after the step. It says of every call that reads how far it is:

* `StringInv`, `MixedInv`: a string stays with the record it was written to, and a
  read that is not marked as mixed has no update of its record beside it. The one
  who deletes a string is an update that swapped it out, an insertion that never
  put it anywhere, or a deletion, which runs alone. So no string that such a read
  has a pointer to is deleted,
* `TablesOK`, `PairOK` in `ReaderOK`: the field tables it has still to go through
  are in the key table, and the strings it points to have been made and are alive,
* the last part of `ReaderOK`: each field that an acknowledged write had put there
  when the read began is copied, fetched, or still to be fetched from the record, in
  this version or a newer one. For the fetch this is `AckedInv` of `IInv`.

`Touches` bounds what a step of a call changes; `ReaderStays` and `ReadWaits` say
that a reader that does not move keeps its part through any such step, and
`FindTablesOK`, `FetchFieldsOK`, `CopiesOK`, `TurnsToOK` are the steps of the one that
does. The tables are visited in the order of their places, the least first, and
`LeastIs` has it from the well-founded order of the naturals.

### The asynchronous context

`RedisAsyncProofs`, for any channels and patterns, any lists of them, any hash
function, and any number of commands, messages and faults:

* `NoAssertion`: `Spec => []AssertionsHold`
* `Replies`: `Spec => []OwnReply`
* `AllFinished`: `Spec => []Finished`
* `Subscribed`: `Spec => []SubscriptionsAgree`

each assuming `Disciplined`. None of them is inductive, as each is about what is on its way. The invariant is
therefore about two sequences: the messages the client has read and not processed
followed by those on the wire (`Wire`), and the commands on the wire followed by
those in the output buffer (`Sent`). An event moves the border within one of
them, which changes nothing; what is left is what a command, the server and a
processed reply do at their ends. While a context lives, `IInv` has

* `AlignInv`, the heart: the callbacks in `ac->replies` are, one by one, those of
  the replies at the head of `Wire` and then of the commands at the head of `Sent`,
  and no other message is a reply; a GET behind them will be refused, because the
  server has subscriptions by then. So the list in its order is enough to match
  them, and a reply that finds the list empty comes in subscribed mode,
* `MonitorInv`, which takes its place in monitor mode, where the one callback is
  taken and put back; `RegularInv` before; `Quiet` and `RejectInv` once the server
  has refused the client,
* `TablesInv`, `EndingInv`, `NamedInv`, `LateInv`, `LastInv`: the tables have what
  the server has, what is asked for, and what has ended there without being
  confirmed here; each confirmation counts what is left after it, so that the
  subscribed mode ends with the right one; a message is about a name that is in
  the tables when its turn comes,
* `KeptInv`, `WaitInv`, `RanInv`: a callback that has not been run is kept, in one
  place, and each has been run with its own messages only,
* `LoopInv`: `onConnect` has been called if connected, and at most the context's
  descriptor is open,
* `DictOK`, in the types: every entry is in the slot of its hash, a key has one
  entry, and `used` counts them. `dictExpand`, `dictReplace` and `dictDelete` keep
  it (`TableOf`, `ReplaceNames`, `RemoveName`).

`Flow` collects what depends on these values only, so that the lemmas are about an
operator of the context, two sequences, the server's subscriptions and the
histories (`FlowServeGet`, `FlowServeMonitor`, ...), and each action is one or two
of them. `TryOpen` follows the rounds of `RedisNet`: however the loop over
addresses ends, no descriptor but the context's is open.

### Only model-checked

* Liveness (`CallReturns`, `PoolReclaimed`, `Terminates`, `DisconnectEnds`): out of
  the prover's reach.
* The blocking client (`CommandsIntact`, `ReadsStored`, `NoOrphans`, `InStep`,
  `ConnectReports` of `RedisDB`): the parser and the formatter are recursions over
  bytes, and recursive operators keep a module, and those that extend it, out of the
  prover's reach. The outcomes of connecting are covered by `TryOpen` for a context
  that does not block.

## 5. Not modelled

* The pointers of the persistent list inside a transaction (plan, below).
* Throughput, timing, printing, command-line and property parsing; the statistics
  file, which `main2` flushes while the sampling thread may be writing to it
  (`ycsbc.cc:77`).
* With `readallfields=false` the field a client asks for has "field" twice in its name
  (`client.h:78`), and nothing is read: the model has this, and no property is about it.
* hiredis: `redisReconnect`, time-outs on a context, keep-alive, `redisConnectFd`,
  the adapters to event libraries, error texts, and the functions of `sds.c` that
  the library does not call on the paths above (splitting, joining, quoting,
  trimming).
* Several threads on one `RedisDB`: nothing protects its context.
* Hashing and buckets of the tables, and the key strings they copy. The hash
  functions themselves: `DictHash` is a parameter.
* `Delete` of `NVMDB`: no client calls it.
* The lock libpmemlog holds while `pmemlog_walk` runs: an exception from the
  callback leaves it locked. The model lets the engine go on or the process end.
* `RawToDB` with a field written twice: the workload's records do not do that.

## 6. Plan

1. *Core, done*: `OSFile`, `Tuples`, `DurableStore`, `NVRecEngine` with proofs;
   `NVMLogEngine`, `NVMBlkEngine`, `TupleCodec`.
2. *Done*: `CoreWorkload`, `NVMDB`, `YCSB`: clients, mutex, phases, memory against
   the engine's store.
3. *Done*: `HashtableDB`: two clients between two table accesses.
4. *Done*: the Redis driver and hiredis, blocking (`Sds`, `RedisReader`,
   `RedisFormat`, `RedisNet`, `RedisDB`) and asynchronous (`Dict`, `RedisAsync`).
5. *Done*: the safety properties and refinements of the three engines, of the
   driver, of the codec, of the hash-table databases and of `RedisAsync`, proved for
   every value of the constants. What is left are those of `RedisDB`, whose parser
   and formatter are recursive.
6. `PersistentList`: pointers and undo log, refining the sequence of nodes.
