----------------------------- MODULE NVMLogProofs -----------------------------
(***************************************************************************)
(* Proofs about NVMLogEngine, for every set of keys, every capacity of the *)
(* log and any number of calls, crashes and I/O errors.  Without any       *)
(* condition: the types, the length the engine counts, what makes a call   *)
(* fail, and that a log with tuples of an earlier process is never         *)
(* flushed.  When fsync does not fail: the last acknowledged tuple of      *)
(* every key is on durable media; the media yield what was acknowledged    *)
(* while the disk log is whole; and the engine implements DurableStore,    *)
(* but for a rewind behind a torn record.                                  *)
(***************************************************************************)
EXTENDS NVMLogEngine, TuplesProofs

(* What current_length_ and the pool have to do with each other.  The      *)
(* engine flushes and appends by its own count, so a flush is reached only *)
(* with a log that this process has filled, and an append only with room   *)
(* by that count.                                                          *)
CountInv ==
  /\ Len(log) <= LogCapacity
  /\ LengthAccounted
  /\ pc \in {"open", "walk", "sync", "rewind"} => inherited = 0
  /\ pc = "append" => current_length < LogCapacity
  /\ pc = "down" => current_length = 0
  /\ IF pc \in {"down", "idle"} THEN req = NoTuple ELSE req \in Tuple

(* The flush's progress: the disk log ends with the tuples walked so far,  *)
(* at the end with the whole pool, which is durable before the rewind.     *)
WalkInv ==
  pc \in {"walk", "sync", "rewind"} =>
    /\ walked <= Len(log) /\ walked <= Len(disk.data)
    /\ \A i \in 1 .. walked : disk.data[Len(disk.data) - walked + i] = log[i]
    /\ pc # "walk" => walked = Len(log)
    /\ pc = "rewind" /\ ~FsyncMayFail => disk.synced = Len(disk.data)

(* What the disk log has beyond its durable part was left by flushes that  *)
(* did not come to an end: the keys of those tuples are still in the pool, *)
(* where their newest tuples are, so it makes no difference how much of    *)
(* that part survives a crash.                                             *)
TailInv ==
  \A i \in DOMAIN disk.data :
    i > disk.synced /\ disk.data[i] # Torn => At(log, disk.data[i].key) # {}

(* The inductive invariant.                                                *)
IInv ==
  /\ TypeOK
  /\ CountInv
  /\ WalkInv
  /\ ~FsyncMayFail => TailInv /\ Recoverable /\ Durable

-------------------------------------------------------------------------------
(* Lemmas about the media.                                                 *)

(* The pool is a sequence of tuples.                                       *)
LEMMA LogType ==
  ASSUME TypeOK
  PROVE  log \in Seq(Tuple) /\ Len(log) \in Nat /\ DOMAIN log = 1 .. Len(log)
BY DEF TypeOK

(* The durable part of the disk log is a sequence of records.              *)
LEMMA SyncedParts ==
  ASSUME TypeOK
  PROVE  /\ Synced \in Seq(Entry) /\ disk.synced \in Nat
         /\ Len(Synced) = disk.synced /\ DOMAIN Synced = 1 .. disk.synced
         /\ \A i \in 1 .. disk.synced : Synced[i] = disk.data[i]
BY FileParts DEF TypeOK, Synced

(* What no step does to the disk log: its durable part keeps its records,  *)
(* and what joins it was in the file before, or is torn.                   *)
DiskGrows ==
  /\ disk' \in FileType(Tuple)
  /\ disk.synced <= disk'.synced
  /\ \A i \in 1 .. disk.synced : disk'.data[i] = disk.data[i]
  /\ \A i \in 1 .. disk'.synced : i > disk.synced =>
       disk'.data[i] = Torn \/ (i \in DOMAIN disk.data /\ disk'.data[i] = disk.data[i])

(* And no step does.                                                       *)
LEMMA StepGrows ==
  ASSUME TypeOK, [Next]_vars
  PROVE  DiskGrows
<1>1. /\ disk \in FileType(Tuple) /\ disk.synced \in Nat /\ disk.synced <= Len(disk.data)
      /\ DOMAIN disk.data = 1 .. Len(disk.data) /\ Len(disk.data) \in Nat
  BY FileParts DEF TypeOK
<1>2. CASE disk' = disk
  BY <1>1, <1>2 DEF DiskGrows
<1>3. CASE FlushOpen
  BY <1>1, <1>3, OpenFile DEF FlushOpen, DiskGrows
<1>4. ASSUME NEW r \in Tuple \cup {Torn}, disk' = Write(disk, r) PROVE DiskGrows
  <2>1. /\ disk' \in FileType(Tuple) /\ disk'.synced = disk.synced
        /\ \A i \in DOMAIN disk.data : disk'.data[i] = disk.data[i]
    BY <1>1, <1>4, WriteFile
  <2> QED
    BY <1>1, <2>1 DEF DiskGrows
<1>5. CASE FlushWalk
  <2>1. log[walked + 1] \in Tuple
    BY <1>5, LogType DEF FlushWalk, TypeOK
  <2> QED
    BY <1>4, <1>5, <2>1 DEF FlushWalk
<1>6. CASE FlushSync
  <2>1. disk' \in FileType(Tuple) /\ disk'.data = disk.data /\ disk.synced <= disk'.synced
    BY <1>1, <1>6, SyncFile DEF FlushSync
  <2>2. disk'.synced \in Nat /\ disk'.synced <= Len(disk.data)
    BY <2>1, FileParts
  <2> QED
    BY <1>1, <2>1, <2>2 DEF DiskGrows
<1>7. CASE disk' \in AfterCrash(disk)
  <2>1. /\ disk' \in FileType(Tuple) /\ disk.synced <= disk'.synced
        /\ \A i \in 1 .. disk.synced : disk'.data[i] = disk.data[i]
        /\ Len(disk'.data) <= Len(disk.data)
        /\ \A i \in DOMAIN disk'.data : disk'.data[i] = disk.data[i] \/ disk'.data[i] = Torn
    BY <1>1, <1>7, CrashFile
  <2>2. /\ DOMAIN disk'.data = 1 .. Len(disk'.data) /\ Len(disk'.data) \in Nat
        /\ disk'.synced \in Nat /\ disk'.synced <= Len(disk'.data)
    BY <2>1, FileParts
  <2> QED
    BY <1>1, <2>1, <2>2 DEF DiskGrows
<1> QED
  BY <1>2, <1>3, <1>4, <1>5, <1>6, <1>7
     DEF Next, Step, BuildEngine, PersistUpdate, PersistDelete, Call, Recover, UpdateOnLog,
         AppendTuple, AppendFails, FlushWalkEnd, FlushRewind, FlushOpenDenied, FlushIOError,
         ShortWrite, Crash, Destroy, vars

(* As long as the pool stays as it is, what the media yield does not       *)
(* change: whatever of the disk log becomes durable has keys that the pool *)
(* has, or cannot be read.                                                 *)
LEMMA StoredKept ==
  ASSUME TypeOK, TypeOK', TailInv, log' = log, DiskGrows
  PROVE  Stored' = Stored
<1> DEFINE d == Synced
           e == Synced'
<1>1. /\ log \in Seq(Tuple) /\ d \in Seq(Entry)
      /\ Len(d) = disk.synced /\ disk.synced \in Nat
      /\ \A i \in 1 .. disk.synced : d[i] = disk.data[i]
  BY LogType, SyncedParts
<1>2. /\ e \in Seq(Entry) /\ Len(e) = disk'.synced /\ disk'.synced \in Nat
      /\ \A i \in 1 .. disk'.synced : e[i] = disk'.data[i]
  BY FileParts DEF TypeOK, Synced
<1>3. disk.synced <= disk'.synced /\ \A i \in 1 .. disk.synced : e[i] = d[i]
  BY <1>1, <1>2 DEF DiskGrows
<1>4. \A i \in 1 .. disk'.synced : i > disk.synced /\ e[i] # Torn => At(log, e[i].key) # {}
  BY <1>2 DEF DiskGrows, TailInv
<1>5. Stored = [k \in Keys |-> LastOf(Readable(d) \o log, k)]
  BY DEF Stored
<1>6. Stored' = [k \in Keys |-> LastOf(Readable(e) \o log, k)]
  BY DEF Stored
<1> HIDE DEF d, e
<1>7. /\ Readable(d) \in Seq(Tuple) /\ Readable(e) \in Seq(Tuple)
      /\ Len(Readable(d)) <= Len(Readable(e))
      /\ \A i \in 1 .. Len(Readable(d)) : Readable(e)[i] = Readable(d)[i]
      /\ \A i \in DOMAIN Readable(e) : i > Len(Readable(d)) =>
           i > Len(d) /\ i <= Len(e) /\ e[i] # Torn /\ Readable(e)[i] = e[i]
  BY <1>1, <1>2, <1>3, ReadableGrows
<1>8. Extends(Readable(e), Readable(d), log)
  <2>1. ASSUME NEW i \in DOMAIN Readable(e), i > Len(Readable(d))
        PROVE  At(log, Readable(e)[i].key) # {}
    <3>1. i \in Nat /\ i > disk.synced /\ i <= disk'.synced /\ e[i] # Torn
          /\ Readable(e)[i] = e[i]
      BY <1>1, <1>2, <1>7, <2>1
    <3> QED
      BY <1>1, <1>2, <1>4, <3>1
  <2> QED
    BY <1>7, <2>1 DEF Extends
<1>9. ASSUME NEW k \in Keys
      PROVE  LastOf(Readable(e) \o log, k) = LastOf(Readable(d) \o log, k)
  BY <1>1, <1>7, <1>8, LastExtended
<1> QED
  BY <1>5, <1>6, <1>9

(* Steps that neither append nor rewind keep what is durable and what is   *)
(* recoverable.                                                            *)
LEMMA MediaKept ==
  ASSUME IInv, TypeOK', log' = log, acked' = acked, DiskGrows, ~FsyncMayFail
  PROVE  Stored' = Stored /\ Recoverable' /\ Durable'
<1>1. Stored' = Stored
  BY StoredKept DEF IInv
<1>2. disk.synced \in Nat /\ disk'.synced \in Nat
  BY FileParts DEF IInv, TypeOK
<1>3. Intact' => Intact
  BY <1>2 DEF Intact, DiskGrows
<1>4. Durable'
  BY <1>2 DEF IInv, Durable, DiskGrows
<1> QED
  BY <1>1, <1>3, <1>4 DEF IInv, Recoverable

(* The initial state satisfies the invariant.                              *)
LEMMA InitInv == Init => IInv
<1> SUFFICES ASSUME Init PROVE IInv
  OBVIOUS
<1> USE NVMLogAssumption, TupleAssumption
<1>1. PICK p \in Privileges :
        disk = [exists |-> FALSE, privileged |-> p, data |-> << >>, synced |-> 0]
  BY DEF Init, NoFile
<1>2. TypeOK
  <2>1. p \in BOOLEAN
    BY OSFileAssumption
  <2>2. << >> \in Seq(Tuple \cup {Torn}) /\ 0 <= Len(<< >>)
    OBVIOUS
  <2>3. disk \in FileType(Tuple)
    BY <1>1, <2>1, <2>2 DEF FileType
  <2> QED
    BY <2>3 DEF Init, TypeOK
<1>3. CountInv /\ WalkInv
  BY DEF Init, CountInv, WalkInv, LengthAccounted
<1>4. TailInv
  BY <1>1 DEF TailInv
<1>5. Recoverable /\ Durable
  <2>1. Readable(Synced) \o log = << >>
    <3>1. Synced = << >> /\ << >> \in Seq(Entry)
      BY <1>1 DEF Synced
    <3>2. Readable(<< >>) = << >>
      <4> DEFINE e == << >>
      <4>1. e \in Seq(Entry) /\ DOMAIN e = {}
        OBVIOUS
      <4> HIDE DEF e
      <4>2. Readable(e) = e
        BY <4>1, ReadableWhole
      <4> QED
        BY <4>2 DEF e
    <3> QED
      BY <3>1, <3>2 DEF Init
  <2>2. \A k \in Keys : At(<< >>, k) = {}
    BY DEF At
  <2>3. \A k \in Keys : LastOf(<< >>, k) = NoTuple
    BY <2>2, LastIsNone, Zenon
  <2> QED
    BY <2>1, <2>3 DEF Init, Recoverable, Stored, Durable
<1> QED
  BY <1>2, <1>3, <1>4, <1>5 DEF IInv

-------------------------------------------------------------------------------
(* Steps that leave the records of the media alone.                        *)

(* A step that appends nothing keeps the invariant if counters and walk    *)
(* stay in order.                                                          *)
LEMMA QuietInv ==
  ASSUME IInv, TypeOK', CountInv', WalkInv',
         log' = log, acked' = acked, disk'.data = disk.data, disk'.synced = disk.synced
  PROVE  IInv'
<1> USE DEF IInv
<1>1. DiskGrows
  <2>1. disk.synced \in Nat
    BY FileParts DEF TypeOK
  <2> QED
    BY <2>1 DEF DiskGrows, TypeOK
<1>2. ~FsyncMayFail => Recoverable' /\ Durable'
  BY <1>1, MediaKept
<1>3. TailInv => TailInv'
  BY DEF TailInv
<1> QED
  BY <1>2, <1>3

(* BuildEngine, which creates or opens the pool, keeps the invariant.      *)
LEMMA BuildEngineInv == IInv /\ BuildEngine => IInv'
<1> SUFFICES ASSUME IInv, BuildEngine PROVE IInv'
  OBVIOUS
<1> USE DEF IInv, BuildEngine
<1>1. TypeOK'
  BY DEF TypeOK
<1>2. CountInv' /\ WalkInv'
  BY LogType DEF CountInv, WalkInv, LengthAccounted, TypeOK
<1> QED
  BY <1>1, <1>2, QuietInv

(* So does the call of a write.                                            *)
LEMMA CallInv ==
  ASSUME IInv, NEW t \in Tuple, Call(t)
  PROVE  IInv'
<1> USE DEF IInv, Call
<1>1. t.ver \in 0 .. MaxWrites
  BY TupleAssumption DEF Tuple
<1>2. TypeOK'
  BY <1>1 DEF TypeOK
<1>3. CountInv' /\ WalkInv'
  BY DEF CountInv, WalkInv, LengthAccounted
<1> QED
  BY <1>2, <1>3, QuietInv

(* Recover, the check of UpdateOnLog, an append that fails, and the end of *)
(* the walk.                                                               *)
LEMMA LocalStepInv == IInv /\ (Recover \/ UpdateOnLog \/ AppendFails \/ FlushWalkEnd) => IInv'
<1> SUFFICES ASSUME IInv, Recover \/ UpdateOnLog \/ AppendFails \/ FlushWalkEnd PROVE IInv'
  OBVIOUS
<1> USE DEF IInv
<1>1. /\ UNCHANGED <<log, disk, current_length, walked, acked, inherited, writes, faults>>
      /\ req' \in {req, NoTuple}
      /\ status' \in {"none", "kSuccess", "kFail", "thrown"}
      /\ pc' \in {"idle", "open", "append", "sync"}
      /\ pc # "down"
  BY DEF Recover, UpdateOnLog, AppendFails, FlushWalkEnd, TypeOK
<1>2. TypeOK'
  BY <1>1 DEF TypeOK
<1>3. CountInv'
  <2>1. pc' # "idle" => req' = req /\ pc \in {"update", "walk"}
    BY DEF Recover, UpdateOnLog, AppendFails, FlushWalkEnd
  <2>2. CASE UpdateOnLog
    <3>1. /\ Len(log) = current_length + inherited /\ Len(log) <= LogCapacity
          /\ current_length \in Nat /\ inherited \in Nat /\ LogCapacity \in Nat
      BY <2>2, NVMLogAssumption DEF CountInv, LengthAccounted, UpdateOnLog, TypeOK
    <3>2. current_length + 1 > LogCapacity => inherited = 0
      BY <3>1
    <3> QED
      BY <1>1, <2>1, <2>2, <3>1, <3>2 DEF CountInv, LengthAccounted, UpdateOnLog
  <2>3. CASE Recover \/ AppendFails \/ FlushWalkEnd
    BY <1>1, <2>1, <2>3 DEF CountInv, LengthAccounted, Recover, AppendFails, FlushWalkEnd
  <2> QED
    BY <2>2, <2>3
<1>4. WalkInv'
  BY <1>1 DEF WalkInv, Recover, UpdateOnLog, AppendFails, FlushWalkEnd
<1> QED
  BY <1>1, <1>2, <1>3, <1>4, QuietInv

(* A flush opens the data file.                                            *)
LEMMA FlushOpenInv == IInv /\ FlushOpen => IInv'
<1> SUFFICES ASSUME IInv, FlushOpen PROVE IInv'
  OBVIOUS
<1> USE DEF IInv, FlushOpen
<1>1. disk' \in FileType(Tuple) /\ disk'.data = disk.data /\ disk'.synced = disk.synced
  BY OpenFile DEF TypeOK
<1>2. TypeOK'
  BY <1>1 DEF TypeOK
<1>3. CountInv'
  BY DEF CountInv, LengthAccounted
<1>4. WalkInv'
  <2>1. 0 <= Len(log) /\ 0 <= Len(disk.data)
    BY LogType, FileParts DEF TypeOK
  <2> QED
    BY <1>1, <2>1 DEF WalkInv
<1> QED
  BY <1>1, <1>2, <1>3, <1>4, QuietInv

-------------------------------------------------------------------------------
(* Steps that change the media.                                            *)

(* An append gives its key the tuple in what the media yield, torn records *)
(* or not.                                                                 *)
LEMMA AppendStored ==
  ASSUME IInv, AppendTuple
  PROVE  Stored' = [Stored EXCEPT ![req.key] = req]
<1> DEFINE d == Readable(Synced)
           a == d \o log
<1>1. req \in Tuple /\ log' = Append(log, req) /\ disk' = disk
  BY DEF AppendTuple, IInv, CountInv
<1>2. d \in Seq(Tuple) /\ log \in Seq(Tuple)
  BY SyncedParts, ReadableParts, LogType DEF IInv
<1>3. d' = d
  BY <1>1 DEF Synced
<1>4. Stored = [k \in Keys |-> LastOf(a, k)] /\ Stored' = [k \in Keys |-> LastOf(d \o log', k)]
  BY <1>3 DEF Stored
<1> HIDE DEF d
<1>5. a \in Seq(Tuple) /\ d \o log' = Append(a, req)
  BY <1>1, <1>2
<1> HIDE DEF a
<1>6. \A k \in Keys : LastOf(Append(a, req), k) = IF req.key = k THEN req ELSE LastOf(a, k)
  BY <1>1, <1>5, LastAppend
<1> QED
  BY <1>4, <1>5, <1>6

(* It keeps the invariant: the tuple is now acknowledged.                  *)
LEMMA AppendTupleInv == IInv /\ AppendTuple => IInv'
<1> SUFFICES ASSUME IInv, AppendTuple PROVE IInv'
  OBVIOUS
<1> USE DEF IInv
<1>1. /\ pc = "append" /\ pc' = "idle" /\ req' = NoTuple /\ status' = "kSuccess"
      /\ Len(log) < LogCapacity /\ log' = Append(log, req)
      /\ current_length' = current_length + 1
      /\ acked' = [acked EXCEPT ![req.key] = req]
      /\ UNCHANGED <<disk, walked, inherited, writes, faults>>
  BY DEF AppendTuple
<1>2. req \in Tuple /\ req.key \in Keys
  BY <1>1, TupleParts DEF CountInv
<1>3. /\ log \in Seq(Tuple) /\ log' \in Seq(Tuple) /\ Len(log) \in Nat
      /\ Len(log') = Len(log) + 1
      /\ \A i \in DOMAIN log : i \in DOMAIN log' /\ log'[i] = log[i]
  BY <1>1, <1>2 DEF TypeOK
<1>4. TypeOK'
  BY <1>1, <1>2, <1>3 DEF TypeOK
<1>5. CountInv' /\ WalkInv'
  BY <1>1, <1>3, NVMLogAssumption DEF CountInv, WalkInv, LengthAccounted, TypeOK
<1>6. TailInv => TailInv'
  <2>1. \A k : At(log, k) # {} => At(log', k) # {}
    BY <1>3 DEF At
  <2> QED
    BY <1>1, <2>1 DEF TailInv
<1>7. Recoverable => Recoverable'
  <2>1. Stored' = [Stored EXCEPT ![req.key] = req]
    BY AppendStored
  <2>2. (Intact' <=> Intact) /\ DOMAIN Stored = Keys
    BY <1>1 DEF Intact, Stored
  <2> QED
    BY <1>1, <1>2, <2>1, <2>2 DEF Recoverable, TypeOK
<1>8. Durable => Durable'
  <2> SUFFICES ASSUME Durable, NEW k \in Keys, acked'[k] # NoTuple
               PROVE  \/ \E i \in DOMAIN log' : log'[i] = acked'[k]
                      \/ \E i \in 1 .. disk.synced : disk.data[i] = acked'[k]
    BY <1>1 DEF Durable
  <2>1. CASE k = req.key
    <3>1. Len(log) + 1 \in DOMAIN log' /\ log'[Len(log) + 1] = req /\ acked'[k] = req
      BY <1>1, <1>2, <1>3, <2>1 DEF TypeOK
    <3> QED
      BY <3>1
  <2>2. CASE k # req.key
    BY <1>1, <1>3, <2>2 DEF Durable, TypeOK
  <2> QED
    BY <2>1, <2>2
<1> QED
  BY <1>4, <1>5, <1>6, <1>7, <1>8

(* The walk writes a copy of a tuple that stays in the pool.               *)
LEMMA FlushWalkInv == IInv /\ FlushWalk => IInv'
<1> SUFFICES ASSUME IInv, FlushWalk PROVE IInv'
  OBVIOUS
<1> USE DEF IInv
<1> DEFINE r == log[walked + 1]
           n == Len(disk.data)
<1>1. /\ pc = "walk" /\ walked < Len(log) /\ disk' = Write(disk, r) /\ walked' = walked + 1
      /\ UNCHANGED <<log, pc, req, current_length, status, acked, inherited, writes, faults>>
  BY DEF FlushWalk
<1>2. /\ walked \in Nat /\ Len(log) \in Nat /\ walked + 1 \in DOMAIN log
      /\ r \in Tuple /\ r # Torn
  BY <1>1, LogType, TupleParts DEF TypeOK
<1> HIDE DEF r
<1>3. /\ disk' \in FileType(Tuple) /\ disk'.synced = disk.synced /\ n \in Nat
      /\ DOMAIN disk.data = 1 .. n
      /\ Len(disk'.data) = n + 1 /\ DOMAIN disk'.data = 1 .. (n + 1)
      /\ \A i \in 1 .. n : disk'.data[i] = disk.data[i]
      /\ disk'.data[n + 1] = r
      /\ disk.synced \in Nat /\ disk.synced <= n
  <2>1. disk \in FileType(Tuple) /\ r \in Tuple \cup {Torn}
    BY <1>2 DEF TypeOK
  <2>2. /\ disk' \in FileType(Tuple) /\ disk'.synced = disk.synced
        /\ Len(disk'.data) = n + 1 /\ disk'.data[n + 1] = r
        /\ \A i \in DOMAIN disk.data : disk'.data[i] = disk.data[i]
    BY <1>1, <2>1, WriteFile
  <2>3. DOMAIN disk'.data = 1 .. Len(disk'.data)
    BY <2>2, FileParts
  <2>4. /\ n \in Nat /\ DOMAIN disk.data = 1 .. n
        /\ disk.synced \in Nat /\ disk.synced <= n
    BY <2>1, FileParts
  <2> QED
    BY <2>2, <2>3, <2>4
<1> HIDE DEF n
<1>4. TypeOK'
  BY <1>1, <1>2, <1>3 DEF TypeOK
<1>5. CountInv'
  BY <1>1 DEF CountInv, LengthAccounted
<1>6. WalkInv'
  <2>1. /\ walked <= n
        /\ \A i \in 1 .. walked : disk.data[n - walked + i] = log[i]
    BY <1>1 DEF WalkInv, n
  <2>2. ASSUME NEW i \in 1 .. (walked + 1)
        PROVE  disk'.data[(n + 1) - (walked + 1) + i] = log[i]
    <3>1. CASE i = walked + 1
      <4>1. (n + 1) - (walked + 1) + i = n + 1
        BY <1>2, <1>3, <3>1
      <4> QED
        BY <1>3, <3>1, <4>1 DEF r
    <3>2. CASE i \in 1 .. walked
      <4>1. (n + 1) - (walked + 1) + i = n - walked + i /\ n - walked + i \in 1 .. n
        BY <1>2, <1>3, <2>1, <3>2
      <4> QED
        BY <1>3, <2>1, <3>2, <4>1
    <3> QED
      BY <1>2, <3>1, <3>2
  <2>3. /\ walked' <= Len(log') /\ walked' <= Len(disk'.data)
        /\ \A i \in 1 .. walked' : disk'.data[Len(disk'.data) - walked' + i] = log'[i]
    BY <1>1, <1>2, <1>3, <2>1, <2>2
  <2>4. pc' = "walk"
    BY <1>1
  <2> QED
    BY <2>3, <2>4 DEF WalkInv
<1>7. TailInv => TailInv'
  <2> SUFFICES ASSUME TailInv, NEW i \in DOMAIN disk'.data, i > disk'.synced, disk'.data[i] # Torn
               PROVE  At(log, disk'.data[i].key) # {}
    BY <1>1 DEF TailInv
  <2>1. CASE i \in 1 .. n
    BY <1>3, <2>1 DEF TailInv
  <2>2. CASE i = n + 1
    <3>1. At(log, r.key) # {}
      BY <1>2 DEF At, r
    <3> QED
      BY <1>3, <2>2, <3>1
  <2> QED
    BY <1>3, <2>1, <2>2
<1>8. ~FsyncMayFail => Recoverable' /\ Durable'
  BY <1>1, <1>4, StepGrows, MediaKept DEF Next, Step
<1> QED
  BY <1>4, <1>5, <1>6, <1>7, <1>8

(* Everything in the disk log becomes durable.                             *)
LEMMA FlushSyncInv == IInv /\ FlushSync => IInv'
<1> SUFFICES ASSUME IInv, FlushSync PROVE IInv'
  OBVIOUS
<1> USE DEF IInv
<1>1. /\ pc = "sync" /\ pc' = "rewind" /\ disk' \in Sync(disk)
      /\ UNCHANGED <<log, req, current_length, walked, status, acked, inherited, writes, faults>>
  BY DEF FlushSync
<1>2. /\ disk' \in FileType(Tuple) /\ disk'.data = disk.data /\ disk.synced <= disk'.synced
      /\ ~FsyncMayFail => disk'.synced = Len(disk.data)
  BY <1>1, SyncFile DEF TypeOK
<1>3. /\ disk.synced \in Nat /\ disk'.synced \in Nat
      /\ Len(disk.data) \in Nat /\ DOMAIN disk.data = 1 .. Len(disk.data)
      /\ disk'.synced <= Len(disk.data)
  BY <1>2, FileParts DEF TypeOK
<1>4. TypeOK'
  BY <1>1, <1>2 DEF TypeOK
<1>5. CountInv' /\ WalkInv'
  BY <1>1, <1>2 DEF CountInv, LengthAccounted, WalkInv
<1>6. TailInv => TailInv'
  BY <1>1, <1>2, <1>3 DEF TailInv
<1>7. ~FsyncMayFail => Recoverable' /\ Durable'
  BY <1>1, <1>4, StepGrows, MediaKept DEF Next, Step
<1> QED
  BY <1>4, <1>5, <1>6, <1>7

(* Before the rewind, every tuple of the pool is durable on disk, and the  *)
(* disk log ends with them.                                                *)
LEMMA PoolOnDisk ==
  ASSUME IInv, pc = "rewind", ~FsyncMayFail
  PROVE  /\ EndsWith(Synced, log)
         /\ \A i \in DOMAIN log : \E j \in 1 .. disk.synced : disk.data[j] = log[i]
         /\ disk.synced = Len(disk.data)
<1>1. /\ disk.synced = Len(disk.data) /\ Len(log) <= Len(disk.data)
      /\ \A i \in 1 .. Len(log) : disk.data[Len(disk.data) - Len(log) + i] = log[i]
  BY DEF IInv, WalkInv
<1>2. /\ Len(Synced) = disk.synced /\ disk.synced \in Nat
      /\ \A i \in 1 .. disk.synced : Synced[i] = disk.data[i]
      /\ Len(log) \in Nat /\ DOMAIN log = 1 .. Len(log)
  BY SyncedParts, LogType DEF IInv
<1>3. ASSUME NEW i \in 1 .. Len(log)
      PROVE  disk.synced - Len(log) + i \in 1 .. disk.synced
  BY <1>1, <1>2
<1> QED
  BY <1>1, <1>2, <1>3 DEF EndsWith

(* So, if the durable part of the disk log is whole, it yields by itself   *)
(* what it yielded with the pool.                                          *)
LEMMA RewindStored ==
  ASSUME IInv, FlushRewind, ~FsyncMayFail, Intact
  PROVE  Stored' = Stored
<1> DEFINE d == Synced
<1>1. log' = << >> /\ disk' = disk /\ pc = "rewind"
  BY DEF FlushRewind
<1>2. Readable(d) = d /\ d \in Seq(Tuple) /\ log \in Seq(Tuple)
  BY SyncedParts, ReadableWhole, LogType DEF IInv, Intact
<1>3. EndsWith(d, log)
  BY <1>1, PoolOnDisk
<1>4. d' = d
  BY <1>1 DEF Synced
<1>5. Stored = [k \in Keys |-> LastOf(d \o log, k)] /\ Stored' = [k \in Keys |-> LastOf(d \o << >>, k)]
  BY <1>1, <1>2, <1>4 DEF Stored
<1> HIDE DEF d
<1>6. << >> \in Seq(Tuple) /\ \A k : At(<< >>, k) = {}
  BY DEF At
<1>7. ASSUME NEW k \in Keys
      PROVE  LastOf(d \o << >>, k) = LastOf(d \o log, k)
  <2>1. LastOf(d \o << >>, k) = LastOf(d, k)
    BY <1>2, <1>6, LastConcat
  <2>2. LastOf(d \o log, k) = IF At(log, k) = {} THEN LastOf(d, k) ELSE LastOf(log, k)
    BY <1>2, LastConcat
  <2>3. At(log, k) # {} => LastOf(d, k) = LastOf(log, k)
    BY <1>2, <1>3, LastSuffix
  <2> QED
    BY <2>1, <2>2, <2>3
<1> QED
  BY <1>5, <1>7

(* The rewind keeps the invariant.                                         *)
LEMMA FlushRewindInv == IInv /\ FlushRewind => IInv'
<1> SUFFICES ASSUME IInv, FlushRewind PROVE IInv'
  OBVIOUS
<1> USE DEF IInv
<1>1. /\ pc = "rewind" /\ pc' = "append" /\ log' = << >> /\ current_length' = 0 /\ inherited' = 0
      /\ UNCHANGED <<disk, req, walked, status, acked, writes, faults>>
  BY DEF FlushRewind
<1>2. TypeOK'
  BY <1>1 DEF TypeOK
<1>3. CountInv' /\ WalkInv'
  BY <1>1, NVMLogAssumption DEF CountInv, LengthAccounted, WalkInv
<1>4. ASSUME ~FsyncMayFail PROVE TailInv' /\ Recoverable' /\ Durable'
  <2>1. /\ disk.synced = Len(disk.data)
        /\ \A i \in DOMAIN log : \E j \in 1 .. disk.synced : disk.data[j] = log[i]
    BY <1>1, <1>4, PoolOnDisk
  <2>2. DOMAIN disk.data = 1 .. Len(disk.data) /\ Len(disk.data) \in Nat
    BY FileParts DEF TypeOK
  <2>3. TailInv'
    BY <1>1, <2>1, <2>2 DEF TailInv
  <2>4. Durable'
    BY <1>1, <1>4, <2>1 DEF Durable
  <2>5. Intact' => Intact /\ Stored' = Stored
    BY <1>1, <1>4, RewindStored DEF Intact
  <2> QED
    BY <1>1, <1>4, <2>3, <2>4, <2>5 DEF Recoverable
<1> QED
  BY <1>2, <1>3, <1>4

(* The end of a call or of a process, which adds no tuple to the disk log. *)
LEMMA ThrowInv ==
  ASSUME IInv, Throw, DiskGrows, faults' \in 0 .. MaxFaults, pc # "down",
         \A i \in DOMAIN disk'.data :
           disk'.data[i] = Torn \/ (i \in DOMAIN disk.data /\ disk'.data[i] = disk.data[i])
  PROVE  IInv'
<1> USE DEF IInv
<1>1. /\ log' = log /\ acked' = acked /\ inherited' = inherited /\ writes' = writes
      /\ req' = NoTuple
      /\ \/ pc' = "down" /\ current_length' = 0 /\ walked' = 0 /\ status' = "none"
         \/ pc' = "idle" /\ current_length' = current_length /\ walked' = walked
            /\ status' = "thrown"
  BY DEF Throw, LoseMemory
<1>2. TypeOK'
  BY <1>1 DEF TypeOK, DiskGrows
<1>3. CountInv' /\ WalkInv'
  BY <1>1 DEF CountInv, LengthAccounted, WalkInv
<1>4. ASSUME TailInv PROVE TailInv'
  <2> SUFFICES ASSUME NEW i \in DOMAIN disk'.data, i > disk'.synced, disk'.data[i] # Torn
               PROVE  At(log, disk'.data[i].key) # {}
    BY <1>1 DEF TailInv
  <2>1. i \in DOMAIN disk.data /\ disk'.data[i] = disk.data[i]
    OBVIOUS
  <2>2. i > disk.synced
    <3>1. i \in Nat /\ disk.synced \in Nat /\ disk'.synced \in Nat
      BY <1>2, <2>1, FileParts DEF TypeOK
    <3> QED
      BY <3>1 DEF DiskGrows
  <2> QED
    BY <1>4, <2>1, <2>2 DEF TailInv
<1>5. ~FsyncMayFail => Recoverable' /\ Durable'
  BY <1>1, <1>2, MediaKept
<1> QED
  BY <1>2, <1>3, <1>4, <1>5

(* An exception, a crash or a shutdown, at any point.                      *)
LEMMA FaultInv == IInv /\ (FlushOpenDenied \/ FlushIOError \/ Crash \/ Destroy) => IInv'
<1> SUFFICES ASSUME IInv, FlushOpenDenied \/ FlushIOError \/ Crash \/ Destroy PROVE IInv'
  OBVIOUS
<1> USE DEF IInv
<1>1. disk \in FileType(Tuple)
  BY DEF TypeOK
<1>2. DiskGrows
  BY StepGrows DEF Next, Step
<1>3. Throw /\ pc # "down" /\ faults' \in 0 .. MaxFaults
  <2>1. Throw /\ pc # "down"
    BY DEF FlushOpenDenied, FlushIOError, Crash, Destroy, Throw
  <2>2. faults' = faults \/ (faults < MaxFaults /\ faults' = faults + 1)
    BY DEF FlushOpenDenied, FlushIOError, Crash, Destroy
  <2>3. faults \in 0 .. MaxFaults
    BY DEF TypeOK
  <2> QED
    BY <2>1, <2>2, <2>3, NVMLogAssumption
<1>4. \A i \in DOMAIN disk'.data :
        disk'.data[i] = Torn \/ (i \in DOMAIN disk.data /\ disk'.data[i] = disk.data[i])
  <2>1. /\ DOMAIN disk.data = 1 .. Len(disk.data) /\ Len(disk.data) \in Nat
        /\ DOMAIN disk'.data = 1 .. Len(disk'.data) /\ Len(disk'.data) \in Nat
    BY <1>1, <1>2, FileParts DEF DiskGrows
  <2>2. CASE disk' \in AfterCrash(disk)
    <3>1. /\ Len(disk'.data) <= Len(disk.data)
          /\ \A i \in DOMAIN disk'.data : disk'.data[i] = disk.data[i] \/ disk'.data[i] = Torn
      BY <1>1, <2>2, CrashFile
    <3> QED
      BY <2>1, <3>1
  <2>3. CASE disk' = Write(disk, Torn)
    <3>1. /\ Len(disk'.data) = Len(disk.data) + 1
          /\ \A i \in DOMAIN disk.data : disk'.data[i] = disk.data[i]
          /\ disk'.data[Len(disk.data) + 1] = Torn
      BY <1>1, <2>3, WriteFile
    <3> QED
      BY <2>1, <3>1
  <2>4. CASE disk' = disk
    BY <2>4
  <2> QED
    BY <2>2, <2>3, <2>4 DEF FlushOpenDenied, FlushIOError, Crash, Destroy, ShortWrite
<1> QED
  BY <1>2, <1>3, <1>4, ThrowInv

(* A step that changes no variable keeps the invariant.                    *)
LEMMA StutterInv == IInv /\ UNCHANGED vars => IInv'
<1> SUFFICES ASSUME IInv, UNCHANGED vars PROVE IInv'
  OBVIOUS
<1> USE DEF IInv, vars
<1>1. TypeOK'
  BY DEF TypeOK
<1>2. CountInv' /\ WalkInv'
  BY DEF CountInv, LengthAccounted, WalkInv
<1> QED
  BY <1>1, <1>2, QuietInv

(* Every step preserves the invariant.                                     *)
LEMMA NextInv == IInv /\ [Next]_vars => IInv'
<1> SUFFICES ASSUME IInv, [Next]_vars PROVE IInv'
  OBVIOUS
<1>1. ASSUME NEW k \in Keys, PersistUpdate(k) \/ PersistDelete(k) PROVE IInv'
  <2>1. writes + 1 \in 1 .. MaxWrites
    BY <1>1, TupleAssumption DEF PersistUpdate, PersistDelete, IInv, TypeOK
  <2>2. /\ [key |-> k, deleted |-> FALSE, ver |-> writes + 1] \in Tuple
        /\ [key |-> k, deleted |-> TRUE, ver |-> writes + 1] \in Tuple
    BY <2>1 DEF Tuple
  <2> QED
    BY <1>1, <2>2, CallInv DEF PersistUpdate, PersistDelete
<1>2. CASE UNCHANGED vars
  BY <1>2, StutterInv
<1> QED
  BY <1>1, <1>2, BuildEngineInv, LocalStepInv, AppendTupleInv, FlushOpenInv, FlushWalkInv,
     FlushSyncInv, FlushRewindInv, FaultInv DEF Next, Step

(* The inductive invariant holds in every reachable state.                 *)
THEOREM Invariance == Spec => []IInv
<1> QED
  BY InitInv, NextInv, PTL DEF Spec

-------------------------------------------------------------------------------
(* The variables of the engine keep their types.                           *)
THEOREM TypeCorrect == Spec => []TypeOK
<1>1. IInv => TypeOK
  BY DEF IInv
<1> QED
  BY <1>1, Invariance, PTL

(* current_length_ falls short of the log by exactly the tuples that were  *)
(* there when the process opened it, in every state of every process.      *)
THEOREM LengthIsAccounted == Spec => []LengthAccounted
<1>1. IInv => LengthAccounted
  BY DEF IInv, CountInv
<1> QED
  BY <1>1, Invariance, PTL

(* A call of UpdateOnLog fails only when tuples of an earlier process take *)
(* the room: after a flush, and below the length at which it flushes, the  *)
(* append always fits.                                                     *)
THEOREM FailuresAreInherited == Spec => FailsOnlyOnInherited
<1>1. ASSUME IInv, [Next]_vars
      PROVE  [pc = "append" /\ status' = "kFail" /\ pc' = "idle" => inherited > 0]_vars
  <2> SUFFICES ASSUME Next, pc = "append", status' = "kFail", pc' = "idle"
               PROVE  inherited > 0
    BY <1>1
  <2>1. AppendFails
    BY DEF Next, Step, BuildEngine, PersistUpdate, PersistDelete, Call, Recover, UpdateOnLog,
           AppendTuple, FlushOpen, FlushWalk, FlushWalkEnd, FlushSync, FlushRewind,
           FlushOpenDenied, FlushIOError, Crash, Destroy, LoseMemory
  <2> QED
    BY <1>1, <2>1, NVMLogAssumption
       DEF AppendFails, IInv, CountInv, LengthAccounted, TypeOK
<1> QED
  BY <1>1, Invariance, PTL DEF Spec, FailsOnlyOnInherited

(* A process that starts on a log with tuples in it never flushes them:    *)
(* UpdateOnLog compares its own count with the capacity, and the log is    *)
(* full before that count reaches it.                                      *)
THEOREM InheritedStays == Spec => InheritedNeverFlushed
<1>1. ASSUME IInv, IInv', [Next]_vars
      PROVE  [inherited > 0 /\ pc # "down" => pc' \notin {"open", "walk", "sync", "rewind"}]_vars
  <2> SUFFICES ASSUME Next, inherited > 0, pc # "down", pc' \in {"open", "walk", "sync", "rewind"}
               PROVE  FALSE
    BY <1>1
  <2>1. inherited' = 0 /\ inherited \in Nat
    BY <1>1 DEF IInv, CountInv, TypeOK
  <2>2. inherited' = inherited
    BY DEF Next, Step, BuildEngine, PersistUpdate, PersistDelete, Call, Recover, UpdateOnLog,
           AppendTuple, AppendFails, FlushOpen, FlushWalk, FlushWalkEnd, FlushSync, FlushRewind,
           FlushOpenDenied, FlushIOError, Crash, Destroy, LoseMemory, Throw
  <2> QED
    BY <2>1, <2>2
<1> QED
  BY <1>1, Invariance, PTL DEF Spec, InheritedNeverFlushed

-------------------------------------------------------------------------------
(* When fsync does not fail.                                               *)

(* The last acknowledged tuple of every key is in the pool or in the       *)
(* durable part of the disk log, through every crash, partial write,       *)
(* flush, repeated flush and restart.                                      *)
THEOREM AckedIsDurable ==
  ASSUME ~FsyncMayFail
  PROVE  Spec => []Durable
<1>1. IInv => Durable
  BY DEF IInv
<1> QED
  BY <1>1, Invariance, PTL

(* While no write that was cut short has left a torn record in the durable *)
(* part of the disk log, reading that part and then the pool yields the    *)
(* last acknowledged tuple of every key, whenever the process is stopped.  *)
THEOREM AcksAreRecoverable ==
  ASSUME ~FsyncMayFail
  PROVE  Spec => []Recoverable
<1>1. IInv => Recoverable
  BY DEF IInv
<1> QED
  BY <1>1, Invariance, PTL

(* pmemlog_rewind is reached only with every tuple of the log durable.     *)
THEOREM RewindIsSafe ==
  ASSUME ~FsyncMayFail
  PROVE  Spec => RewindOnlyDurable
<1>1. ASSUME IInv, [Next]_vars
      PROVE  [Len(log') < Len(log) =>
                \A i \in DOMAIN log : \E j \in 1 .. disk.synced : disk.data[j] = log[i]]_vars
  <2> SUFFICES ASSUME Next, Len(log') < Len(log), NEW i \in DOMAIN log
               PROVE  \E j \in 1 .. disk.synced : disk.data[j] = log[i]
    BY <1>1
  <2>1. log \in Seq(Tuple) /\ Len(log) \in Nat /\ DOMAIN log = 1 .. Len(log)
    BY <1>1, LogType DEF IInv, TypeOK
  <2>2. pc = "rewind"
    <3>1. CASE FlushRewind
      BY <3>1 DEF FlushRewind
    <3>2. CASE AppendTuple
      <4>1. req \in Tuple /\ log' = Append(log, req)
        BY <1>1, <3>2 DEF AppendTuple, IInv, CountInv
      <4>2. Len(log') = Len(log) + 1
        BY <2>1, <4>1
      <4> QED
        BY <2>1, <4>2
    <3>3. CASE log' = log
      BY <2>1, <3>3
    <3> QED
      BY <3>1, <3>2, <3>3
         DEF Next, Step, BuildEngine, PersistUpdate, PersistDelete, Call, Recover, UpdateOnLog,
             AppendFails, FlushOpen, FlushWalk, FlushWalkEnd, FlushSync, FlushOpenDenied,
             FlushIOError, Crash, Destroy, Throw, LoseMemory
  <2> QED
    BY <1>1, <2>2, PoolOnDisk
<1> QED
  BY <1>1, Invariance, PTL DEF Spec, RewindOnlyDurable

(* The engine implements the durable store: what reading the media yields  *)
(* starts empty; the append that makes a call return kSuccess replaces the *)
(* tuple of the call's key by the call's tuple; the end of a call in any   *)
(* other way, by kFail, an exception or the end of its process, changes    *)
(* nothing, nor does any step within a call or between two calls.  A       *)
(* rewind behind a torn record is excepted.                                *)
THEOREM EngineImplementsStore ==
  ASSUME ~FsyncMayFail
  PROVE  Spec => ImplementsStore
<1>1. Init => Store!Init
  <2> SUFFICES ASSUME Init PROVE Store!Init
    OBVIOUS
  <2>1. IInv /\ Intact
    <3>1. disk.synced = 0
      BY DEF Init, NoFile
    <3> QED
      BY <3>1, InitInv DEF Intact
  <2>2. Stored = [k \in Keys |-> Stored[k]] /\ \A k \in Keys : Stored[k] = acked[k]
    BY <2>1 DEF IInv, Recoverable, Stored
  <2> QED
    BY <2>2 DEF Init, Store!Init
<1>2. ASSUME IInv, IInv', [Next]_vars
      PROVE  [~RewindsBehindTorn => [Store!Next]_<<Stored, req>>]_vars
  <2> SUFFICES ASSUME Next, ~RewindsBehindTorn PROVE [Store!Next]_<<Stored, req>>
    BY <1>2
  <2>1. ASSUME log' = log, acked' = acked PROVE Stored' = Stored
    BY <1>2, <2>1, StepGrows, MediaKept DEF IInv
  <2>2. CASE AppendTuple
    <3>1. req # NoTuple /\ req' = NoTuple
      BY <1>2, <2>2, TupleParts DEF AppendTuple, IInv, CountInv
    <3> QED
      BY <1>2, <2>2, <3>1, AppendStored DEF Store!Next, Store!Succeed
  <2>3. ASSUME NEW k \in Keys, PersistUpdate(k) \/ PersistDelete(k)
        PROVE  Store!Next
    <3>1. writes + 1 \in 1 .. MaxWrites
      BY <1>2, <2>3, TupleAssumption DEF PersistUpdate, PersistDelete, IInv, TypeOK
    <3>2. PICK d \in BOOLEAN : Call([key |-> k, deleted |-> d, ver |-> writes + 1])
      BY <2>3 DEF PersistUpdate, PersistDelete
    <3>3. [key |-> k, deleted |-> d, ver |-> writes + 1] \in Tuple
      BY <3>1 DEF Tuple
    <3>4. Stored' = Stored
      BY <2>1, <3>2 DEF Call
    <3>5. req = NoTuple
      BY <1>2, <3>2 DEF Call, IInv, CountInv
    <3> QED
      BY <3>2, <3>3, <3>4, <3>5 DEF Call, Store!Next, Store!Begin
  <2>4. CASE AppendFails \/ FlushOpenDenied \/ FlushIOError \/ Crash \/ Destroy
    <3>1. req' = NoTuple /\ log' = log /\ acked' = acked
      BY <2>4 DEF AppendFails, FlushOpenDenied, FlushIOError, Crash, Destroy, Throw, LoseMemory
    <3> QED
      BY <2>1, <3>1 DEF Store!Next, Store!Fail
  <2>5. CASE FlushRewind
    <3>1. Intact /\ req' = req
      BY <2>5 DEF RewindsBehindTorn, FlushRewind
    <3> QED
      BY <1>2, <2>5, <3>1, RewindStored
  <2>6. CASE BuildEngine \/ Recover \/ UpdateOnLog \/ FlushOpen \/ FlushWalk \/ FlushWalkEnd
             \/ FlushSync
    <3>1. log' = log /\ acked' = acked /\ req' = req
      BY <2>6 DEF BuildEngine, Recover, UpdateOnLog, FlushOpen, FlushWalk, FlushWalkEnd, FlushSync
    <3> QED
      BY <2>1, <3>1
  <2> QED
    BY <2>2, <2>3, <2>4, <2>5, <2>6 DEF Next, Step
<1> QED
  BY <1>1, <1>2, Invariance, PTL DEF Spec, ImplementsStore
===============================================================================
