----------------------------- MODULE HashtableDB -----------------------------
(***************************************************************************)
(* db/hashtable_db.cc over the tables of lib/*_hashtable.h: a table of     *)
(* records, each of them a table of fields that holds strings.  An         *)
(* operation on a table is atomic, under the lock that LockStlHashtable,   *)
(* TbbRandHashtable and TbbScanHashtable take, but for a traversal of a    *)
(* TbbScanHashtable, whose lock insertions share.  A call of the database  *)
(* makes several, and the calls of the clients interleave between them.    *)
(*                                                                         *)
(* A call makes at most one field table and one string per field, so the   *)
(* number of the call names both; 0 is NULL.                               *)
(***************************************************************************)
EXTENDS Integers, Sequences, FiniteSets

CONSTANTS
  Keys, Fields,
  KeyOrder,     \* the order in which a scan visits the keys
  FieldLists,   \* the fields an update writes, or a read asks for
  ReadsAll,     \* which of Read and Scan are asked for all fields
  AllFields,    \* the fields of a record in the order an insertion writes them
  Clients,      \* how many calls run at a time
  MaxCalls      \* bound: calls made

VARIABLES
  key_table,   \* the field table of every key
  tables,      \* the string in every field of every field table
  calls,       \* the calls made
  freed,       \* how often each string has been deleted
  raced,       \* history: records that were written by two calls while incomplete
  destroyed    \* the database has been deleted

vars == << key_table, tables, calls, freed, raced, destroyed >>

Calls == 1 .. MaxCalls
Elements(q) == {q[i] : i \in DOMAIN q}
OneToOne(q) == \A i, j \in DOMAIN q : q[i] = q[j] => i = j

(* A list of fields to write has each field once, and is not empty.  Every *)
(* key has a place in the order of the table.                              *)
ASSUME HashtableDBAssumption ==
  /\ MaxCalls \in Nat /\ ReadsAll \subseteq {"Read", "Scan"}
  /\ KeyOrder \in Seq(Keys) /\ Keys \subseteq Elements(KeyOrder)
  /\ \A q \in FieldLists \cup {AllFields} : q \in Seq(Fields) /\ q # << >> /\ OneToOne(q)

Init ==
  /\ key_table = [k \in Keys |-> 0]
  /\ tables = [t \in Calls |-> [f \in Fields |-> 0]]
  /\ calls = << >>
  /\ freed = [s \in Calls \X Fields |-> 0]
  /\ raced = {} /\ destroyed = FALSE

-------------------------------------------------------------------------------
(* Operations of a table.                                                  *)

Get(table, key) == table[key]
Insert(table, key, value) == IF table[key] = 0 THEN [table EXCEPT ![key] = value] ELSE table
Update(table, key, value) == IF table[key] # 0 THEN [table EXCEPT ![key] = value] ELSE table
Remove(table, key) == [table EXCEPT ![key] = 0]
Entries(table, keys) == {key \in keys : table[key] # 0}

Least(S) == CHOOSE i \in S : \A j \in S : i <= j

(* The places of the n entries from a key on, in the order of the table;   *)
(* none when the key is not there.                                         *)
EntriesFrom(table, key, n) ==
  LET from == CHOOSE i \in DOMAIN KeyOrder : KeyOrder[i] = key
      there == {i \in from .. Len(KeyOrder) : table[KeyOrder[i]] # 0}
  IN IF table[key] = 0 THEN {} ELSE {i \in there : Cardinality({h \in there : h < i}) < n}

-------------------------------------------------------------------------------
(* Calls.                                                                  *)

(* The key table but for some of its records.                              *)
Without(missed) == [k \in Keys |-> IF k \in missed THEN 0 ELSE key_table[k]]

Active == {c \in DOMAIN calls : calls[c].pc # "done"}
Writes(x) == x.op \in {"Update", "Insert"}

(* A record that has not got all its fields, or is about to be inserted.   *)
Incomplete(k, x, y) ==
  \/ "Insert" \in {x.op, y.op}
  \/ key_table[k] = 0
  \/ Entries(tables[key_table[k]], Fields) # Fields

(* A client calls the database.  Nothing in the repository calls Delete    *)
(* while other calls run, and neither does a client here.  todo is what    *)
(* the call still has to write, or to fetch at a time; there are the       *)
(* records that a scan cannot miss.                                        *)
Start(op, k, todo) ==
  LET x == [op |-> op, key |-> k, todo |-> todo, pc |-> "get", table |-> 0, new |-> FALSE,
            old |-> 0, tables |-> << >>, pairs |-> {}, result |-> {}, rv |-> "none",
            prior |-> DOMAIN calls \ Active, fields |-> todo,
            there |-> IF op = "Scan" THEN Entries(key_table, Keys) ELSE {},
            mixed |-> \E c \in Active : calls[c].op = "Update" /\ (op = "Scan" \/ calls[c].key = k)]
  IN /\ ~destroyed /\ Len(calls) < MaxCalls /\ Cardinality(Active) < Clients
     /\ op = "Delete" => Active = {}
     /\ \A c \in Active : calls[c].op # "Delete"
     /\ calls' = Append([c \in DOMAIN calls |->
                           IF c \in Active /\ op = "Update" /\ (calls[c].op = "Scan" \/ calls[c].key = k)
                           THEN [calls[c] EXCEPT !.mixed = TRUE] ELSE calls[c]], x)
     /\ raced' = IF \E c \in Active : /\ Writes(x) /\ Writes(calls[c]) /\ calls[c].key = k
                                      /\ Incomplete(k, x, calls[c])
                 THEN raced \cup {k} ELSE raced
     /\ UNCHANGED << key_table, tables, freed, destroyed >>

Call ==
  \E k \in Keys :
    \/ Start("Insert", k, AllFields)
    \/ Start("Delete", k, << >>)
    \/ \E q \in FieldLists : Start("Update", k, q) \/ Start("Read", k, [i \in DOMAIN q |-> {q[i]}])
    \/ \E op \in ReadsAll : Start(op, k, << Fields >>)

At(c, ops, pc) == calls[c].op \in ops /\ calls[c].pc = pc
Set(c, x) == calls' = [calls EXCEPT ![c] = x]
Return(x, rv) == [x EXCEPT !.pc = "done", !.rv = rv]

(* The field that is being written.                                        *)
Field(c) == Head(calls[c].todo)

DeleteStrings(S) == freed' = [s \in DOMAIN freed |-> IF s \in S THEN freed[s] + 1 ELSE freed[s]]
Strings(t) == {<< tables[t][f], f >> : f \in Entries(tables[t], Fields)}

(* Mutant: only the first field is written.                                *)
BugNextField(x) == Return([x EXCEPT !.todo = Tail(@)], "kOK")

(* The loop over the fields to write.                                      *)
NextField(x) ==
  IF Len(x.todo) = 1 THEN Return([x EXCEPT !.todo = << >>], "kOK")
  ELSE [x EXCEPT !.todo = Tail(@), !.pc = "write"]

(* Update and Insert look for the record and make a field table if there   *)
(* is none.                                                                *)
FindRecord(c) ==
  /\ At(c, {"Update", "Insert"}, "get")
  /\ LET t == Get(key_table, calls[c].key)
     IN Set(c, IF t # 0 THEN [calls[c] EXCEPT !.pc = "write", !.table = t]
               ELSE [calls[c] EXCEPT !.pc = "link", !.table = c, !.new = TRUE])
  /\ UNCHANGED << key_table, tables, freed, raced, destroyed >>

(* The result of the insertion is ignored.                                 *)
LinkRecord(c) ==
  /\ At(c, {"Update", "Insert"}, "link")
  /\ key_table' = Insert(key_table, calls[c].key, c)
  /\ Set(c, [calls[c] EXCEPT !.pc = "write"])
  /\ UNCHANGED << tables, freed, raced, destroyed >>

(* Mutant: a conflict deletes the string that is in the table.             *)
BugInsertField(c) ==
  /\ At(c, {"Insert"}, "write") \/ (At(c, {"Update"}, "write") /\ calls[c].new)
  /\ LET x == calls[c]
         ok == tables[x.table][Field(c)] = 0
     IN /\ tables' = [tables EXCEPT ![x.table] = Insert(@, Field(c), c)]
        /\ Set(c, IF ok \/ x.op = "Update" THEN NextField(x) ELSE Return(x, "kErrorConflict"))
        /\ DeleteStrings(IF ok \/ x.op = "Update" THEN {}
                         ELSE {<< tables[x.table][Field(c)], Field(c) >>})
  /\ UNCHANGED << key_table, raced, destroyed >>

(* A field of an insertion, or of the record that an update has made.  An  *)
(* insertion ends at a field that is there.                                *)
InsertField(c) ==
  /\ At(c, {"Insert"}, "write") \/ (At(c, {"Update"}, "write") /\ calls[c].new)
  /\ LET x == calls[c]
         ok == tables[x.table][Field(c)] = 0
     IN /\ tables' = [tables EXCEPT ![x.table] = Insert(@, Field(c), c)]
        /\ Set(c, IF ok \/ x.op = "Update" THEN NextField(x) ELSE Return(x, "kErrorConflict"))
        /\ DeleteStrings(IF ok \/ x.op = "Update" THEN {} ELSE {<< c, Field(c) >>})
  /\ UNCHANGED << key_table, raced, destroyed >>

(* A field of a record that was there: swap the string ...                 *)
UpdateField(c) ==
  /\ At(c, {"Update"}, "write") /\ ~calls[c].new
  /\ LET x == calls[c]
         old == Get(tables[x.table], Field(c))
     IN /\ tables' = [tables EXCEPT ![x.table] = Update(@, Field(c), c)]
        /\ Set(c, [x EXCEPT !.old = old, !.pc = IF old = 0 THEN "add" ELSE "free"])
  /\ UNCHANGED << key_table, freed, raced, destroyed >>

(* ... and add the field if it was not there, ignoring the result, ...     *)
AddField(c) ==
  /\ At(c, {"Update"}, "add")
  /\ tables' = [tables EXCEPT ![calls[c].table] = Insert(@, Field(c), c)]
  /\ Set(c, NextField(calls[c]))
  /\ UNCHANGED << key_table, freed, raced, destroyed >>

(* Mutant: the string that is now in the table is deleted.                 *)
BugDeleteOld(c) ==
  /\ At(c, {"Update"}, "free")
  /\ DeleteStrings({<< Get(tables[calls[c].table], Field(c)), Field(c) >>})
  /\ Set(c, NextField(calls[c]))
  /\ UNCHANGED << key_table, tables, raced, destroyed >>

(* ... or delete the old string.                                           *)
DeleteOld(c) ==
  /\ At(c, {"Update"}, "free")
  /\ DeleteStrings({<< calls[c].old, Field(c) >>})
  /\ Set(c, NextField(calls[c]))
  /\ UNCHANGED << key_table, tables, raced, destroyed >>

(* Read finds one field table, Scan those of up to n records from a key    *)
(* on, under their places: at the end of its traversal, which has passed by*)
(* any of the records that were inserted meanwhile.                        *)
FindTables(c) ==
  /\ At(c, {"Read", "Scan"}, "get")
  /\ LET x == calls[c]
     IN \E n \in IF x.op = "Read" THEN {1} ELSE DOMAIN KeyOrder :
          \E missed \in SUBSET (Keys \ (x.there \cup {x.key})) :
            \E found \in {EntriesFrom(Without(missed), x.key, n)} :
              Set(c, IF found # {}
                     THEN [x EXCEPT !.pc = "fetch", !.there = {},
                                    !.tables = [i \in found |-> key_table[KeyOrder[i]]]]
                     ELSE Return(x, IF x.op = "Read" THEN "kErrorNoData" ELSE "kOK"))
  /\ UNCHANGED << key_table, tables, freed, raced, destroyed >>

(* The place of the field table that is read.                              *)
Place(c) == Least(DOMAIN calls[c].tables)

(* Pointers to the strings of the fields there are when Entries begins, or *)
(* of the next field that was asked for (Get), leave the lock of the table.*)
FetchFields(c) ==
  /\ At(c, {"Read", "Scan"}, "fetch")
  /\ LET x == calls[c]
         t == x.tables[Place(c)]
     IN Set(c, [x EXCEPT !.pc = IF x.fields = << Fields >> THEN "walk" ELSE "copy", !.todo = Tail(@),
                         !.pairs = {<< tables[t][f], f >> : f \in Entries(tables[t], Head(x.todo))}])
  /\ UNCHANGED << key_table, tables, freed, raced, destroyed >>

(* Entries may also meet a field that is inserted while it holds the lock, *)
(* which no update gets meanwhile: what it has found is still there.       *)
FetchLate(c) ==
  /\ At(c, {"Read", "Scan"}, "walk")
  /\ LET x == calls[c]
         t == x.tables[Place(c)]
     IN \E f \in Entries(tables[t], Fields) :
          /\ \A s \in x.pairs : s[2] # f /\ tables[t][s[2]] = s[1]
          /\ Set(c, [x EXCEPT !.pairs = @ \cup {<< tables[t][f], f >>}])
  /\ UNCHANGED << key_table, tables, freed, raced, destroyed >>

(* A string is copied to the result; what is copied from one that has been *)
(* deleted is arbitrary, and noted as such.  Then the next field or table. *)
CopyToResult(c) ==
  /\ \E pc \in {"walk", "copy"} : At(c, {"Read", "Scan"}, pc)
  /\ LET x == calls[c]
         s == CHOOSE s \in x.pairs : TRUE
     IN Set(c, CASE x.pairs # {} ->
                      [x EXCEPT !.pc = "copy", !.pairs = @ \ {s},
                                !.result = @ \cup {[str |-> s, live |-> freed[s] = 0]}]
                 [] x.pairs = {} /\ x.todo # << >> -> [x EXCEPT !.pc = "fetch"]
                 [] x.pairs = {} /\ x.todo = << >> /\ DOMAIN x.tables # {Place(c)} ->
                      [x EXCEPT !.pc = "fetch", !.todo = x.fields,
                                !.tables = [i \in DOMAIN @ \ {Place(c)} |-> @[i]]]
                 [] OTHER -> Return(x, "kOK"))
  /\ UNCHANGED << key_table, tables, freed, raced, destroyed >>

(* Delete, with DeleteFieldHashtable after the record was removed.         *)
RemoveRecord(c) ==
  /\ At(c, {"Delete"}, "get")
  /\ LET t == Get(key_table, calls[c].key)
     IN Set(c, IF t = 0 THEN Return(calls[c], "kErrorNoData")
               ELSE [calls[c] EXCEPT !.pc = "destroy", !.table = t])
  /\ key_table' = Remove(key_table, calls[c].key)
  /\ UNCHANGED << tables, freed, raced, destroyed >>

DeleteFieldHashtable(c) ==
  /\ At(c, {"Delete"}, "destroy")
  /\ DeleteStrings(Strings(calls[c].table))
  /\ Set(c, Return(calls[c], "kOK"))
  /\ UNCHANGED << key_table, tables, raced, destroyed >>

(* The destructor of the database, when all clients have finished.         *)
Destroy ==
  /\ Len(calls) = MaxCalls /\ Active = {} /\ ~destroyed
  /\ DeleteStrings(UNION {Strings(key_table[k]) : k \in Entries(key_table, Keys)})
  /\ destroyed' = TRUE
  /\ UNCHANGED << key_table, tables, calls, raced >>

Step(c) ==
  \/ FindRecord(c) \/ LinkRecord(c) \/ InsertField(c)
  \/ UpdateField(c) \/ AddField(c) \/ DeleteOld(c)
  \/ FindTables(c) \/ FetchFields(c) \/ FetchLate(c) \/ CopyToResult(c)
  \/ RemoveRecord(c) \/ DeleteFieldHashtable(c)

Next == Call \/ Destroy \/ \E c \in Active : Step(c)

Spec == Init /\ [][Next]_vars

-------------------------------------------------------------------------------
(* Properties.                                                             *)

(* However calls overlap, no string is deleted twice, and none while a     *)
(* record holds it: an update deletes exactly what its swap replaced, an   *)
(* insertion that fails only what it did not insert.  And when the         *)
(* database is deleted every string has been, unless an incomplete record  *)
(* was written by two calls.                                               *)
StringsOwned ==
  /\ \A s \in DOMAIN freed : freed[s] <= 1
  /\ ~destroyed => \A k \in Entries(key_table, Keys) : \A s \in Strings(key_table[k]) : freed[s] = 0
  /\ destroyed /\ raced = {} =>
       \A c \in DOMAIN calls : Writes(calls[c]) =>
         \A f \in Elements(calls[c].fields) \ Elements(calls[c].todo) : freed[<< c, f >>] = 1

(* The writes to k that returned kOK and that no deletion followed.        *)
Deleted(c, D) == \E d \in D : calls[d].op = "Delete" /\ calls[d].key = calls[c].key
                                /\ c \in calls[d].prior
Acknowledged(k, D) ==
  {c \in D : Writes(calls[c]) /\ calls[c].key = k /\ calls[c].rv = "kOK" /\ ~Deleted(c, D)}

(* v, found in a field of k, is no older than the write of call c: its     *)
(* call had not returned when c was made.                                  *)
NotBefore(v, c) == v # 0 /\ v \notin calls[c].prior

(* A write that returned kOK is in the record, under each of its fields,   *)
(* unless a call that it does not precede replaced it: calls that overlap  *)
(* lose nothing, but for those that wrote an incomplete record together.   *)
AckedWrites ==
  ~destroyed =>
    \A k \in Keys \ raced : \A c \in Acknowledged(k, DOMAIN calls) :
      /\ key_table[k] # 0
      /\ \A f \in Elements(calls[c].fields) : NotBefore(tables[key_table[k]][f], c)

(* A read that no update of the record overlaps copies live strings only,  *)
(* and gets for each field what was there when it began or something       *)
(* newer, also while insertions of other records go on.                    *)
ReadSound ==
  \A r \in DOMAIN calls :
    calls[r].op \in {"Read", "Scan"} /\ calls[r].pc = "done" /\ ~calls[r].mixed =>
      /\ \A x \in calls[r].result : x.live
      /\ calls[r].key \notin raced =>
           \A c \in Acknowledged(calls[r].key, calls[r].prior) :
             \A f \in Elements(calls[c].fields) \cap UNION Elements(calls[r].fields) :
               \E x \in calls[r].result : x.str[2] = f /\ NotBefore(x.str[1], c)
===============================================================================
