----------------------------- MODULE NVMLogEngine -----------------------------
(***************************************************************************)
(* The NVMLog recovery engine (recovery/nvmlog_engine.cc): every tuple is  *)
(* appended to a libpmemlog pool; when the next one would not fit, the     *)
(* caller itself copies the pool to the disk log, rewinds it, and appends. *)
(*                                                                         *)
(* Callers hold NVMDB::mutex_ for the whole call: there is one thread.     *)
(* What makes the engine hard is the end of a process between any two      *)
(* system calls, and the next process that starts on what is left.         *)
(***************************************************************************)
EXTENDS Naturals, Sequences, Tuples

CONSTANTS
  LogCapacity,   \* tuples that fit: available_bytes_ / sizeof(Tuple)
  MaxFaults      \* bound: crashes, I/O errors and engine shutdowns

ASSUME NVMLogAssumption ==
  /\ LogCapacity \in Nat \ {0}
  /\ MaxFaults \in Nat

VARIABLES
  log,             \* the tuples in /mnt/mem/pmem_log
  disk,            \* disk_log.txt
  pc,              \* where the caller is
  req,             \* argument of the UpdateOnLog under way
  current_length,  \* current_length_ / sizeof(Tuple)
  walked,          \* tuples pmemlog_walk has passed
  status,          \* what the last call returned
  acked,           \* history: last tuple of each key whose call succeeded
  inherited,       \* history: tuples in the log that this process did not append
  writes,          \* calls so far
  faults           \* faults so far

vars == <<log, disk, pc, req, current_length, walked, status, acked, inherited,
          writes, faults>>

TypeOK ==
  /\ log \in Seq(Tuple)
  /\ disk \in FileType(Tuple)
  /\ pc \in {"down", "idle", "update", "open", "walk", "sync", "rewind", "append"}
  /\ req \in Tuple \cup {NoTuple}
  /\ current_length \in Nat
  /\ walked \in Nat
  /\ status \in {"none", "kSuccess", "kFail", "thrown"}
  /\ acked \in [Keys -> Tuple \cup {NoTuple}]
  /\ inherited \in Nat
  /\ writes \in 0 .. MaxWrites
  /\ faults \in 0 .. MaxFaults

Init ==
  /\ log = << >>
  /\ disk \in NoFile
  /\ pc = "down"
  /\ req = NoTuple
  /\ current_length = 0
  /\ walked = 0
  /\ status = "none"
  /\ acked = [k \in Keys |-> NoTuple]
  /\ inherited = 0
  /\ writes = 0
  /\ faults = 0

-------------------------------------------------------------------------------
(* BuildEngine creates the log or, when it exists, opens it as it is;      *)
(* current_length_ starts from zero either way.                            *)
BuildEngine ==
  /\ pc = "down"
  /\ pc' = "idle"
  /\ inherited' = Len(log)
  /\ UNCHANGED <<log, disk, req, current_length, walked, status, acked, writes, faults>>

(* Entry of UpdateOnLog(t).                                                *)
Call(t) ==
  /\ pc = "idle"
  /\ pc' = "update"
  /\ req' = t
  /\ writes' = t.ver
  /\ UNCHANGED <<log, disk, current_length, walked, status, acked, inherited, faults>>

PersistUpdate(k) ==
  /\ writes < MaxWrites
  /\ Call([key |-> k, deleted |-> FALSE, ver |-> writes + 1])

PersistDelete(k) ==
  /\ writes < MaxWrites
  /\ Call([key |-> k, deleted |-> TRUE, ver |-> writes + 1])

(* Recover has no body and reports kSuccess.                               *)
Recover ==
  /\ pc = "idle"
  /\ status' = "kSuccess"
  /\ UNCHANGED <<log, disk, pc, req, current_length, walked, acked, inherited, writes, faults>>

(* Mutant: the log is flushed one tuple early.                             *)
BugUpdateOnLogEarly ==
  /\ pc = "update"
  /\ pc' = IF current_length + 2 > LogCapacity THEN "open" ELSE "append"
  /\ UNCHANGED <<log, disk, req, current_length, walked, status, acked, inherited, writes, faults>>

(* Mutant: the tuple about to be appended is not counted.                  *)
BugUpdateOnLog ==
  /\ pc = "update"
  /\ pc' = IF current_length > LogCapacity THEN "open" ELSE "append"
  /\ UNCHANGED <<log, disk, req, current_length, walked, status, acked, inherited, writes, faults>>

(* if ((current_length_ + sizeof(Tuple)) > available_bytes_) FlushToDisk();*)
UpdateOnLog ==
  /\ pc = "update"
  /\ pc' = IF current_length + 1 > LogCapacity THEN "open" ELSE "append"
  /\ UNCHANGED <<log, disk, req, current_length, walked, status, acked, inherited, writes, faults>>

(* pmemlog_append adds the tuple whole, or fails when it does not fit.     *)
AppendTuple ==
  /\ pc = "append"
  /\ Len(log) < LogCapacity
  /\ log' = Append(log, req)
  /\ current_length' = current_length + 1
  /\ acked' = [acked EXCEPT ![req.key] = req]
  /\ status' = "kSuccess"
  /\ pc' = "idle"
  /\ req' = NoTuple
  /\ UNCHANGED <<disk, walked, inherited, writes, faults>>

AppendFails ==
  /\ pc = "append"
  /\ Len(log) >= LogCapacity
  /\ status' = "kFail"
  /\ pc' = "idle"
  /\ req' = NoTuple
  /\ UNCHANGED <<log, disk, current_length, walked, acked, inherited, writes, faults>>

-------------------------------------------------------------------------------
(* FlushToDisk.                                                            *)

(* OSFile osf{kDiskLogPath};                                               *)
FlushOpen ==
  /\ pc = "open"
  /\ CanOpen(disk)
  /\ disk' = Open(disk)
  /\ walked' = 0
  /\ pc' = "walk"
  /\ UNCHANGED <<log, req, current_length, status, acked, inherited, writes, faults>>

(* Mutant: the walk stops before the last chunk.                           *)
BugFlushWalkEnd ==
  /\ pc = "walk"
  /\ walked >= Len(log) - 1
  /\ pc' = "sync"
  /\ UNCHANGED <<log, disk, req, current_length, walked, status, acked, inherited, writes, faults>>

(* pmemlog_walk calls the writing function for each tuple, oldest first.   *)
FlushWalk ==
  /\ pc = "walk"
  /\ walked < Len(log)
  /\ disk' = Write(disk, log[walked + 1])
  /\ walked' = walked + 1
  /\ UNCHANGED <<log, pc, req, current_length, status, acked, inherited, writes, faults>>

FlushWalkEnd ==
  /\ pc = "walk"
  /\ walked = Len(log)
  /\ pc' = "sync"
  /\ UNCHANGED <<log, disk, req, current_length, walked, status, acked, inherited, writes, faults>>

(* Mutant: no fsync before the log is rewound.                             *)
BugFlushNoSync ==
  /\ pc = "sync"
  /\ pc' = "rewind"
  /\ UNCHANGED <<log, disk, req, current_length, walked, status, acked, inherited, writes, faults>>

FlushSync ==
  /\ pc = "sync"
  /\ disk' \in Sync(disk)
  /\ pc' = "rewind"
  /\ UNCHANGED <<log, req, current_length, walked, status, acked, inherited, writes, faults>>

(* Mutant: the log is rewound and the length is not reset.                 *)
BugFlushKeepsLength ==
  /\ pc = "rewind"
  /\ log' = << >>
  /\ inherited' = 0
  /\ pc' = "append"
  /\ UNCHANGED <<disk, req, current_length, walked, status, acked, writes, faults>>

(* pmemlog_rewind(log_pool_); current_length_ = 0;                         *)
FlushRewind ==
  /\ pc = "rewind"
  /\ log' = << >>
  /\ current_length' = 0
  /\ inherited' = 0
  /\ pc' = "append"
  /\ UNCHANGED <<disk, req, walked, status, acked, writes, faults>>

-------------------------------------------------------------------------------
(* What ends a call or a process early.                                    *)

(* What dies with the process; the log and the disk file stay.             *)
LoseMemory ==
  /\ pc' = "down"
  /\ req' = NoTuple
  /\ current_length' = 0
  /\ walked' = 0
  /\ status' = "none"
  /\ UNCHANGED <<log, acked, inherited, writes>>

(* OSFile cannot open the disk log, or a write is short: an exception      *)
(* leaves the call.  In the transaction phase it ends the process; in the  *)
(* loading phase the other clients go on with the engine as it is.         *)
Throw ==
  \/ LoseMemory
  \/ /\ pc' = "idle"
     /\ req' = NoTuple
     /\ status' = "thrown"
     /\ UNCHANGED <<log, current_length, walked, acked, inherited, writes>>

FlushOpenDenied ==
  /\ pc = "open"
  /\ ~CanOpen(disk)
  /\ Throw
  /\ UNCHANGED <<disk, faults>>

FlushIOError ==
  /\ faults < MaxFaults
  /\ faults' = faults + 1
  /\ \/ pc = "open" /\ UNCHANGED disk
     \/ pc = "walk" /\ walked < Len(log) /\ disk' \in ShortWrite(disk)
  /\ Throw

(* The process is killed or the power fails, at any point.                 *)
Crash ==
  /\ pc # "down"
  /\ faults < MaxFaults
  /\ faults' = faults + 1
  /\ disk' \in AfterCrash(disk)
  /\ LoseMemory

(* ~NVMLogEngine: pmemlog_close.                                           *)
Destroy ==
  /\ pc = "idle"
  /\ faults < MaxFaults
  /\ faults' = faults + 1
  /\ UNCHANGED disk
  /\ LoseMemory

-------------------------------------------------------------------------------
Step ==
  \/ UpdateOnLog \/ AppendTuple \/ AppendFails
  \/ FlushOpen \/ FlushWalk \/ FlushWalkEnd \/ FlushSync \/ FlushRewind
  \/ FlushOpenDenied

Next ==
  \/ BuildEngine
  \/ \E k \in Keys : PersistUpdate(k) \/ PersistDelete(k)
  \/ Recover
  \/ Step
  \/ FlushIOError
  \/ Crash
  \/ Destroy

Spec == Init /\ [][Next]_vars

-------------------------------------------------------------------------------
(* The durable part of the disk log, and whether it is whole.              *)
Synced == SubSeq(disk.data, 1, disk.synced)
Intact == \A i \in 1 .. disk.synced : disk.data[i] # Torn

(* What reading the durable part of the disk log and then the pool yields. *)
Stored == [k \in Keys |-> LastOf(Readable(Synced) \o log, k)]

Store == INSTANCE DurableStore WITH stored <- Stored

(* The engine is a durable map from keys to tuples: a call that succeeds   *)
(* replaces the tuple of its key by the one it brought, a call that fails  *)
(* changes nothing, and neither does anything else, be it a flush, a crash *)
(* in the middle of one, the flush that repeats it, or a restart.  There   *)
(* is one exception: rewinding the pool (nvmlog_engine.cc:88) behind a     *)
(* torn record, which is what a write that was cut short leaves in the     *)
(* disk log, takes away tuples of which only copies out of step remain.    *)
RewindsBehindTorn == pc = "rewind" /\ pc' = "append" /\ ~Intact

ImplementsStore ==
  Store!Init /\ [][~RewindsBehindTorn => [Store!Next]_<<Stored, req>>]_vars

(* As long as the durable part of the disk log is whole, the media yield   *)
(* the last acknowledged tuple of every key.                               *)
Recoverable == Intact => \A k \in Keys : Stored[k] = acked[k]

(* Torn records or not, the last acknowledged tuple of every key is        *)
(* somewhere on durable media, in the pool or in the disk log.             *)
Durable ==
  \A k \in Keys : acked[k] # NoTuple =>
    \/ \E i \in DOMAIN log : log[i] = acked[k]
    \/ \E i \in 1 .. disk.synced : disk.data[i] = acked[k]

(* current_length_ counts what this process has appended since the log was *)
(* last rewound: it falls short of the log by what was there before.       *)
LengthAccounted == pc # "down" => Len(log) = current_length + inherited

(* A call fails only for want of room that tuples of an earlier process    *)
(* take: the flush before the append makes enough otherwise.               *)
FailsOnlyOnInherited ==
  [][pc = "append" /\ status' = "kFail" /\ pc' = "idle" => inherited > 0]_vars

(* The log shrinks only when every tuple in it is durable on disk.         *)
RewindOnlyDurable ==
  [][Len(log') < Len(log) =>
       \A i \in DOMAIN log : \E j \in 1 .. disk.synced : disk.data[j] = log[i]]_vars

(* A log that a process takes over with tuples in it is never flushed by   *)
(* that process: current_length_, which starts from zero, cannot reach the *)
(* length at which UpdateOnLog flushes before the log is full.  From then  *)
(* on every call fails.                                                    *)
InheritedNeverFlushed ==
  [][inherited > 0 /\ pc # "down" => pc' \notin {"open", "walk", "sync", "rewind"}]_vars
===============================================================================
