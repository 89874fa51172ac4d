-------------------------------- MODULE OSFile --------------------------------
(***************************************************************************)
(* The append-only file the recovery engines flush to: class OSFile of     *)
(* recovery/os_file.cc, opened on "disk_log.txt".  A file is the sequence  *)
(* of records written to it and the length of the prefix fsync has made    *)
(* durable; the records after that prefix are in the page cache only.      *)
(*                                                                         *)
(* The module has no variables: an engine keeps one file value and says    *)
(* which of these operators each of its steps applies.                     *)
(***************************************************************************)
EXTENDS Naturals, Sequences

CONSTANT
  Torn,         \* a record of which only some bytes reached the file
  Privileges,   \* whether the user may open files whatever their mode: the
                \* possibilities that are considered
  FsyncMayFail  \* fsync may fail

ASSUME OSFileAssumption ==
  /\ Privileges \in SUBSET BOOLEAN
  /\ FsyncMayFail \in BOOLEAN

(* The file before its first use, for a user with or without privilege.    *)
NoFile ==
  {[exists |-> FALSE, privileged |-> p, data |-> << >>, synced |-> 0] : p \in Privileges}

FileType(Records) ==
  {f \in [exists : BOOLEAN, privileged : BOOLEAN,
          data : Seq(Records \cup {Torn}), synced : Nat] :
     f.synced <= Len(f.data)}

(* open(O_WRONLY | O_CREAT | O_APPEND, S_IRWXG): a file it creates gives   *)
(* every permission to the group and none to the owner, so the same        *)
(* unprivileged user cannot open it a second time.                         *)
CanOpen(f) == ~f.exists \/ f.privileged
Open(f)    == [f EXCEPT !.exists = TRUE]

(* write(2) of a whole record; O_APPEND puts it at the end.                *)
Write(f, r) == [f EXCEPT !.data = Append(@, r)]

(* A write(2) that fails or returns a short count: nothing, or a part of   *)
(* the record, has reached the file.                                       *)
ShortWrite(f) == {f, Write(f, Torn)}

(* What Sync may leave.  It drops the result of fsync: when fsync fails    *)
(* the caller goes on as if it had succeeded, and no further record is     *)
(* durable.                                                                *)
Sync(f) ==
  {[f EXCEPT !.synced = Len(f.data)]} \cup (IF FsyncMayFail THEN {f} ELSE {})

(* The files a power failure can leave: the durable prefix, any number of  *)
(* the cached records after it, the next one possibly torn.                *)
AfterPowerFailure(f) ==
  LET kept(n)   == SubSeq(f.data, 1, n)
      onDisk(s) == [f EXCEPT !.data = s, !.synced = Len(s)]
  IN  {onDisk(kept(n)) : n \in f.synced .. Len(f.data)}
      \cup {onDisk(Append(kept(n), Torn)) : n \in f.synced .. (Len(f.data) - 1)}

(* The process dies: the page cache survives, unless the machine dies too. *)
AfterCrash(f) == {f} \cup AfterPowerFailure(f)
===============================================================================
