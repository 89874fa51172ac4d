--------------------------- MODULE HashtableDBProofs ---------------------------
(***************************************************************************)
(* Proofs about HashtableDB, for every number of clients, calls, records   *)
(* and fields: who owns each string, where a write that was acknowledged   *)
(* is, and what a read gets.                                               *)
(*                                                                         *)
(* Read and Scan change no table and delete no string, so the proof has    *)
(* two parts: an invariant of the tables that knows nothing of the reads,  *)
(* and one of the reads that rests on it.                                  *)
(***************************************************************************)
EXTENDS HashtableDB, TLAPS, FiniteSetTheorems, WellFoundedInduction

-------------------------------------------------------------------------------
(* The inductive invariant.                                                *)

(* What a call is made of.                                                 *)
Parts == {"op", "key", "todo", "pc", "table", "new", "old", "tables", "pairs", "result", "rv",
          "prior", "fields", "there", "mixed"}

Sequence(q) == \E S : q \in Seq(S)

TypeInv ==
  /\ key_table \in [Keys -> 0 .. MaxCalls]
  /\ tables \in [Calls -> [Fields -> 0 .. MaxCalls]]
  /\ freed \in [Calls \X Fields -> Nat]
  /\ destroyed \in BOOLEAN
  /\ Sequence(calls) /\ Len(calls) <= MaxCalls

(* How far a call that writes is.                                          *)
WriterOK(c, x) ==
  /\ x.pc \in {"get", "link", "write", "add", "free", "done"}
  /\ x.todo \in Seq(Fields) /\ OneToOne(x.todo)
  /\ Elements(x.fields) \subseteq Fields /\ Elements(x.fields) # {}
  /\ x.pc # "done" => x.todo # << >> /\ x.rv = "none"
  /\ x.pc \in {"get", "link"} => x.todo = x.fields
  /\ x.pc = "get" => x.new = FALSE
  /\ x.pc = "link" => x.new = TRUE
  /\ x.pc \in {"add", "free"} => x.op = "Update"
  /\ x.new = TRUE /\ x.pc # "done" => x.table = c /\ x.pc \in {"link", "write"}
  /\ x.pc = "done" /\ x.rv = "kOK" => x.todo = << >>
  /\ x.new \in BOOLEAN

CallOK(c) ==
  /\ DOMAIN calls[c] = Parts
  /\ calls[c].op \in {"Update", "Insert", "Delete", "Read", "Scan"}
  /\ calls[c].key \in Keys
  /\ calls[c].prior \subseteq DOMAIN calls \ Active
  /\ Writes(calls[c]) => WriterOK(c, calls[c])
  /\ calls[c].op = "Delete" => calls[c].pc \in {"get", "destroy", "done"}

CallInv == \A c \in DOMAIN calls : CallOK(c)

(* A deletion runs alone, and after every other call.                      *)
AloneInv ==
  \A d \in Active : calls[d].op = "Delete" =>
    Active = {d} /\ DOMAIN calls \ {d} \subseteq calls[d].prior

(* A deletion that has taken its field table out of the key table.         *)
Deleting(d) == calls[d].op = "Delete" /\ calls[d].pc = "destroy"

(* A call that has a field table in hand.                                  *)
Holds(d) == Deleting(d) \/ (Writes(calls[d]) /\ calls[d].pc \in {"write", "add", "free"})

(* Call t may have put its field table under key k.                        *)
Made(t, k) ==
  /\ t \in DOMAIN calls /\ Writes(calls[t])
  /\ calls[t].key = k /\ calls[t].pc \notin {"get", "link"}

(* A field table is used for one key only, and empty before that.          *)
TableInv ==
  /\ \A k \in Keys : key_table[k] # 0 => Made(key_table[k], k)
  /\ \A d \in DOMAIN calls : Holds(d) => Made(calls[d].table, calls[d].key)
  /\ \A d \in DOMAIN calls : Deleting(d) => key_table[calls[d].key] = 0
  /\ \A t \in Calls : ~(\E k \in Keys : Made(t, k)) => \A f \in Fields : tables[t][f] = 0

Linked(t) == \E k \in Keys : key_table[k] = t
Reached(t) == Linked(t) \/ \E d \in DOMAIN calls : Holds(d) /\ calls[d].table = t

(* Call d has swapped string <<c, f>> out of a table, and will delete it.  *)
Taken(d, c, f) ==
  calls[d].op = "Update" /\ calls[d].pc = "free" /\ calls[d].old = c /\ Field(d) = f

(* A string is in one table, or with one call that will delete it, or      *)
(* deleted.                                                                *)
OwnerInv ==
  /\ \A t \in Calls, f \in Fields : tables[t][f] # 0 => tables[t][f] \in DOMAIN calls
  /\ \A t, u \in Calls, f \in Fields : tables[t][f] # 0 /\ tables[t][f] = tables[u][f] => t = u
  /\ \A t \in Calls, f \in Fields :
       tables[t][f] # 0 /\ Reached(t) => freed[<< tables[t][f], f >>] = 0
  /\ \A d \in DOMAIN calls : \A c, f : Taken(d, c, f) =>
       /\ c \in DOMAIN calls /\ f \in Fields /\ freed[<< c, f >>] = 0
       /\ \A t \in Calls : tables[t][f] # c
       /\ \A e \in DOMAIN calls : Taken(e, c, f) => e = d

(* The fields a call has still to write, and those it has written.         *)
Unwritten(c) ==
  IF calls[c].pc = "free" THEN Elements(Tail(calls[c].todo)) ELSE Elements(calls[c].todo)
Written(c) == Elements(calls[c].fields) \ Unwritten(c)

(* A string that has not been made.                                        *)
Fresh(c, f) == c \notin DOMAIN calls \/ (c \in Active /\ Writes(calls[c]) /\ f \in Unwritten(c))

FreshInv ==
  \A c \in Calls, f \in Fields : Fresh(c, f) =>
    /\ freed[<< c, f >>] = 0
    /\ \A t \in Calls : tables[t][f] # c
    /\ \A d \in DOMAIN calls : ~Taken(d, c, f)

Writer(c, k) == c \in Active /\ Writes(calls[c]) /\ calls[c].key = k

(* Record k has all its fields.                                            *)
Complete(k) == key_table[k] # 0 /\ \A f \in Fields : tables[key_table[k]][f] # 0

(* Call c works on the record that is under its key, and what it is to     *)
(* insert is not there.                                                    *)
OnRecord(c) ==
  LET t == key_table[calls[c].key]
  IN  /\ calls[c].pc = "link" => t = 0
      /\ calls[c].pc \in {"write", "add", "free"} => calls[c].table = t
      /\ calls[c].pc = "add" => tables[t][Field(c)] = 0
      /\ calls[c].pc = "write" /\ calls[c].new = TRUE =>
           \A f \in Elements(calls[c].todo) : tables[t][f] = 0

(* Unless a record is written by two calls while incomplete, the second    *)
(* call finds it complete, and the first one works on it alone.            *)
RaceInv ==
  \A k \in Keys \ raced :
    /\ \A c, d \in DOMAIN calls : Writer(c, k) /\ Writer(d, k) /\ c # d => Complete(k)
    /\ \A c \in DOMAIN calls : Writer(c, k) => OnRecord(c)

(* Then no string is lost ...                                              *)
Kept(c, f) ==
  \/ freed[<< c, f >>] = 1
  \/ \E t \in Calls : /\ tables[t][f] = c
                      /\ Linked(t) \/ \E d \in DOMAIN calls : Deleting(d) /\ calls[d].table = t
  \/ \E d \in DOMAIN calls : Taken(d, c, f)

KeptInv ==
  \A c \in DOMAIN calls : Writes(calls[c]) /\ calls[c].key \notin raced =>
    \A f \in Written(c) : Kept(c, f)

(* ... and no write.                                                       *)
Current(c, f) ==
  /\ key_table[calls[c].key] # 0
  /\ NotBefore(tables[key_table[calls[c].key]][f], c)

AckedInv ==
  \A c \in DOMAIN calls :
    Writes(calls[c]) /\ calls[c].key \notin raced /\ ~Deleted(c, DOMAIN calls) =>
      \A f \in Written(c) : Current(c, f)

OnceInv == \A s \in Calls \X Fields : freed[s] <= 1

OpenInv == AloneInv /\ TableInv /\ OwnerInv /\ FreshInv /\ RaceInv /\ KeptInv /\ AckedInv

IInv ==
  /\ TypeInv /\ CallInv /\ OnceInv
  /\ ~destroyed => OpenInv
  /\ destroyed => Active = {} /\ StringsOwned

-------------------------------------------------------------------------------
(* Sequences.                                                              *)

(* The calls are numbered from 1 on.                                       *)
LEMMA CallsAre ==
  ASSUME Sequence(calls)
  PROVE  Len(calls) \in Nat /\ DOMAIN calls = 1 .. Len(calls)
BY DEF Sequence

(* One call goes on.                                                       *)
LEMMA Excepted ==
  ASSUME NEW q, Sequence(q), NEW c \in DOMAIN q, NEW y
  PROVE  LET r == [q EXCEPT ![c] = y]
         IN  /\ Sequence(r) /\ Len(r) = Len(q) /\ DOMAIN r = DOMAIN q
             /\ r[c] = y /\ \A d \in DOMAIN q : d # c => r[d] = q[d]
<1>1. PICK S : q \in Seq(S)
  BY DEF Sequence
<1>2. q \in Seq(S \cup {y})
  BY <1>1
<1>3. [q EXCEPT ![c] = y] \in Seq(S \cup {y})
  BY <1>2
<1> QED
  BY <1>1, <1>3 DEF Sequence

(* A call is added.                                                        *)
LEMMA Appended ==
  ASSUME NEW q, Sequence(q), NEW y
  PROVE  LET r == Append(q, y)
             n == Len(q) + 1
         IN  /\ Sequence(r) /\ Len(r) = n /\ DOMAIN r = DOMAIN q \cup {n}
             /\ n \notin DOMAIN q
             /\ r[n] = y /\ \A d \in DOMAIN q : r[d] = q[d]
<1>1. PICK S : q \in Seq(S)
  BY DEF Sequence
<1>2. q \in Seq(S \cup {y})
  BY <1>1
<1>3. Append(q, y) \in Seq(S \cup {y})
  BY <1>2
<1> QED
  BY <1>1, <1>3 DEF Sequence

(* The next fields to fetch, and the rest.                                 *)
LEMMA NextGroup ==
  ASSUME NEW S, NEW q \in Seq(S), q # << >>
  PROVE  /\ Tail(q) \in Seq(S) /\ Head(q) \in S
         /\ Elements(q) = Elements(Tail(q)) \cup {Head(q)}
<1>1. /\ Len(q) \in Nat /\ Len(q) > 0 /\ DOMAIN q = 1 .. Len(q) /\ Head(q) = q[1] /\ q[1] \in S
      /\ Tail(q) \in Seq(S) /\ DOMAIN Tail(q) = 1 .. (Len(q) - 1)
      /\ \A i \in 1 .. (Len(q) - 1) : Tail(q)[i] = q[i + 1]
  OBVIOUS
<1> DEFINE t == Tail(q)
<1> HIDE DEF t
<1>2. ASSUME NEW i \in DOMAIN q
      PROVE  q[i] \in Elements(t) \cup {Head(q)}
  <2>1. CASE i = 1
    BY <1>1, <2>1
  <2>2. CASE i # 1
    <3>1. i - 1 \in DOMAIN t /\ t[i - 1] = q[i]
      BY <1>1, <2>2 DEF t
    <3> QED
      BY <3>1 DEF Elements
  <2> QED
    BY <2>1, <2>2
<1>3. ASSUME NEW i \in DOMAIN t
      PROVE  t[i] \in Elements(q)
  BY <1>1 DEF Elements, t
<1>4. Head(q) \in Elements(q)
  BY <1>1 DEF Elements
<1>5. Elements(q) = Elements(t) \cup {Head(q)}
  BY <1>2, <1>3, <1>4 DEF Elements
<1> QED
  BY <1>1, <1>5 DEF t

(* The next field to write, and the rest.                                  *)
LEMMA Fields1 ==
  ASSUME NEW q \in Seq(Fields), q # << >>, OneToOne(q)
  PROVE  /\ Tail(q) \in Seq(Fields) /\ OneToOne(Tail(q))
         /\ Head(q) \in Fields /\ Head(q) \notin Elements(Tail(q))
         /\ Elements(q) = Elements(Tail(q)) \cup {Head(q)}
         /\ Len(q) = 1 <=> Tail(q) = << >>
<1>1. /\ Len(q) \in Nat /\ Len(q) > 0 /\ DOMAIN q = 1 .. Len(q) /\ Head(q) = q[1]
      /\ Tail(q) \in Seq(Fields) /\ Len(Tail(q)) = Len(q) - 1 /\ DOMAIN Tail(q) = 1 .. (Len(q) - 1)
      /\ \A i \in 1 .. (Len(q) - 1) : Tail(q)[i] = q[i + 1]
  OBVIOUS
<1> DEFINE t == Tail(q)
<1> HIDE DEF t
<1>2. OneToOne(t)
  BY <1>1 DEF OneToOne, t
<1>3. Head(q) \in Fields /\ Head(q) \notin Elements(t)
  BY <1>1 DEF Elements, OneToOne, t
<1>4. Elements(q) = Elements(t) \cup {Head(q)}
  BY NextGroup DEF t
<1>5. Len(q) = 1 <=> t = << >>
  BY <1>1 DEF t
<1> QED
  BY <1>1, <1>2, <1>3, <1>4, <1>5 DEF t

(* An empty list has no fields.                                            *)
LEMMA NoFields == Elements(<< >>) = {}
BY DEF Elements

(* What NextField makes of a call.                                         *)
LEMMA NextFieldIs ==
  ASSUME NEW x, DOMAIN x = Parts, x.todo \in Seq(Fields), x.todo # << >>, OneToOne(x.todo)
  PROVE  LET y == NextField(x)
         IN  /\ DOMAIN y = Parts
             /\ y.op = x.op /\ y.key = x.key /\ y.prior = x.prior /\ y.fields = x.fields
             /\ y.table = x.table /\ y.new = x.new
             /\ y.todo = Tail(x.todo)
             /\ Tail(x.todo) = << >> => y.pc = "done"
             /\ Tail(x.todo) # << >> => y.pc = "write" /\ y.rv = x.rv
<1>1. CASE Len(x.todo) = 1
  BY <1>1, Fields1 DEF NextField, Return, Parts
<1>2. CASE Len(x.todo) # 1
  BY <1>2, Fields1 DEF NextField, Return, Parts
<1> QED
  BY <1>1, <1>2

-------------------------------------------------------------------------------
(* Nothing has been called.                                                *)
LEMMA InitInv == Init => IInv
<1> SUFFICES ASSUME Init PROVE IInv
  OBVIOUS
<1> USE HashtableDBAssumption DEF Init
<1>1. Sequence(calls) /\ Len(calls) = 0 /\ DOMAIN calls = {}
  <2>1. << >> \in Seq({})
    OBVIOUS
  <2> QED
    BY <2>1 DEF Sequence
<1>2. TypeInv
  <2>1. 0 \in 0 .. MaxCalls
    OBVIOUS
  <2>2. /\ key_table \in [Keys -> 0 .. MaxCalls]
        /\ tables \in [Calls -> [Fields -> 0 .. MaxCalls]]
        /\ freed \in [Calls \X Fields -> Nat]
    BY <2>1
  <2>3. destroyed \in BOOLEAN
    OBVIOUS
  <2>4. Len(calls) <= MaxCalls
    BY <1>1
  <2> HIDE DEF Init
  <2> QED
    BY <1>1, <2>2, <2>3, <2>4 DEF TypeInv
<1>3. CallInv /\ OnceInv /\ AloneInv /\ Active = {}
  BY <1>1 DEF CallInv, OnceInv, AloneInv, Active
<1>4. TableInv
  BY <1>1 DEF TableInv
<1>5. OwnerInv
  BY <1>1 DEF OwnerInv
<1>6. FreshInv
  BY <1>1 DEF FreshInv, Calls
<1>7. RaceInv
  BY <1>1 DEF RaceInv
<1>8. KeptInv /\ AckedInv
  BY <1>1 DEF KeptInv, AckedInv
<1> QED
  BY <1>2, <1>3, <1>4, <1>5, <1>6, <1>7, <1>8 DEF IInv, OpenInv

-------------------------------------------------------------------------------
(* A step of one call.                                                     *)

(* Call c goes on; what it was asked to do stays.                          *)
Evolves(c) ==
  /\ Sequence(calls') /\ Len(calls') = Len(calls) /\ DOMAIN calls' = DOMAIN calls
  /\ \A d \in DOMAIN calls : d # c => calls'[d] = calls[d]
  /\ DOMAIN calls'[c] = Parts
  /\ calls'[c].op = calls[c].op /\ calls'[c].key = calls[c].key
  /\ calls'[c].prior = calls[c].prior /\ calls'[c].fields = calls[c].fields

(* A call whose record is replaced by one of the same request goes on.     *)
LEMMA SetEvolves ==
  ASSUME TypeInv, NEW c \in Active, NEW y, Set(c, y), DOMAIN y = Parts,
         y.op = calls[c].op, y.key = calls[c].key,
         y.prior = calls[c].prior, y.fields = calls[c].fields
  PROVE  Evolves(c) /\ calls'[c] = y
BY Excepted DEF TypeInv, Set, Evolves, Active

(* What a step of call c does not disturb.                                 *)
LEMMA Undisturbed ==
  ASSUME TypeInv, CallInv, AloneInv, NEW c \in Active, Evolves(c)
  PROVE  /\ Active' \subseteq Active /\ Active \ {c} \subseteq Active'
         /\ AloneInv'
         /\ \A d \in DOMAIN calls : d # c => CallOK(d)'
         /\ \A d \in DOMAIN calls : /\ Writes(calls'[d]) <=> Writes(calls[d])
                                    /\ calls'[d].key = calls[d].key
                                    /\ calls'[d].prior = calls[d].prior
                                    /\ calls'[d].fields = calls[d].fields
         /\ \A d \in DOMAIN calls : Deleted(d, DOMAIN calls)' <=> Deleted(d, DOMAIN calls)
         /\ \A d \in DOMAIN calls : d # c =>
              /\ Holds(d)' <=> Holds(d)
              /\ Deleting(d)' <=> Deleting(d)
              /\ Written(d)' = Written(d) /\ Unwritten(d)' = Unwritten(d)
              /\ \A e, f : Taken(d, e, f)' <=> Taken(d, e, f)
              /\ \A k : Made(d, k)' <=> Made(d, k)
              /\ \A k : Writer(d, k)' <=> Writer(d, k)
              /\ \A f : Fresh(d, f)' <=> Fresh(d, f)
         /\ c \in DOMAIN calls
<1>1. c \in DOMAIN calls /\ calls[c].pc # "done"
  BY DEF Active
<1>2. Active' \subseteq Active /\ Active \ {c} \subseteq Active'
  BY <1>1 DEF Active, Evolves
<1>3. \A d \in DOMAIN calls : /\ calls'[d].op = calls[d].op
                              /\ Writes(calls'[d]) <=> Writes(calls[d])
                              /\ calls'[d].key = calls[d].key
                              /\ calls'[d].prior = calls[d].prior
                              /\ calls'[d].fields = calls[d].fields
  BY DEF Evolves, Writes
<1>4. AloneInv'
  <2> SUFFICES ASSUME NEW d \in Active', calls'[d].op = "Delete"
               PROVE  Active' = {d} /\ DOMAIN calls' \ {d} \subseteq calls'[d].prior
    BY DEF AloneInv
  <2>1. d \in Active /\ d \in DOMAIN calls /\ calls[d].op = "Delete"
    BY <1>2, <1>3 DEF Active
  <2>2. Active = {d} /\ DOMAIN calls \ {d} \subseteq calls[d].prior
    BY <2>1 DEF AloneInv
  <2> QED
    BY <1>2, <1>3, <2>1, <2>2 DEF Evolves
<1>5. \A d \in DOMAIN calls : d # c => CallOK(d)'
  <2> SUFFICES ASSUME NEW d \in DOMAIN calls, d # c
               PROVE  CallOK(d)'
    OBVIOUS
  <2>1. calls'[d] = calls[d] /\ CallOK(d) /\ DOMAIN calls' = DOMAIN calls
    BY DEF Evolves, CallInv
  <2>2. calls'[d].prior \subseteq DOMAIN calls' \ Active'
    BY <1>2, <2>1 DEF CallOK
  <2> QED
    BY <2>1, <2>2 DEF CallOK
<1>6. \A d \in DOMAIN calls : Deleted(d, DOMAIN calls)' <=> Deleted(d, DOMAIN calls)
  BY <1>3 DEF Deleted, Evolves
<1>7. ASSUME NEW d \in DOMAIN calls, d # c
      PROVE  /\ Holds(d)' <=> Holds(d)
             /\ Deleting(d)' <=> Deleting(d)
             /\ Written(d)' = Written(d) /\ Unwritten(d)' = Unwritten(d)
             /\ \A e, f : Taken(d, e, f)' <=> Taken(d, e, f)
             /\ \A k : Made(d, k)' <=> Made(d, k)
             /\ \A k : Writer(d, k)' <=> Writer(d, k)
             /\ \A f : Fresh(d, f)' <=> Fresh(d, f)
  <2>1. calls'[d] = calls[d] /\ d \in DOMAIN calls' /\ (d \in Active <=> d \in Active')
    BY <1>2, <1>7 DEF Evolves
  <2>2. (Holds(d)' <=> Holds(d)) /\ (Deleting(d)' <=> Deleting(d))
    BY <2>1 DEF Holds, Deleting
  <2>3. Unwritten(d)' = Unwritten(d)
    BY <2>1 DEF Unwritten
  <2>4. Written(d)' = Written(d)
    BY <2>1, <2>3 DEF Written
  <2>5. \A e, f : Taken(d, e, f)' <=> Taken(d, e, f)
    BY <2>1 DEF Taken, Field
  <2>6. (\A k : Made(d, k)' <=> Made(d, k)) /\ (\A k : Writer(d, k)' <=> Writer(d, k))
    BY <2>1 DEF Made, Writer
  <2>7. \A f : Fresh(d, f)' <=> Fresh(d, f)
    BY <2>1, <2>3 DEF Fresh
  <2> QED
    BY <2>2, <2>3, <2>4, <2>5, <2>6, <2>7
<1> QED
  BY <1>1, <1>2, <1>3, <1>4, <1>5, <1>6, <1>7

(* A call goes on to its next table access and changes no table.           *)
LEMMA QuietInv ==
  ASSUME TypeInv, CallInv, OpenInv, NEW c \in Active, Evolves(c), CallOK(c)',
         UNCHANGED << key_table, tables, freed, raced, destroyed >>,
         ~Deleting(c), ~Deleting(c)', ~Holds(c),
         Holds(c)' => calls'[c].table = key_table[calls[c].key] /\ key_table[calls[c].key] # 0,
         \A e, f : ~Taken(c, e, f) /\ ~Taken(c, e, f)',
         Writes(calls[c]) => Unwritten(c)' = Unwritten(c) /\ Written(c)' = Written(c),
         \A k : Made(c, k) => Made(c, k)',
         Writes(calls[c]) /\ calls[c].key \notin raced =>
           /\ calls'[c].pc = "link" => key_table[calls[c].key] = 0
           /\ calls'[c].pc # "add"
           /\ calls'[c].pc = "write" => ~(calls'[c].new = TRUE)
  PROVE  TypeInv' /\ CallInv' /\ OpenInv'
<1> USE DEF OpenInv
<1>0. DOMAIN calls' = DOMAIN calls /\ DOMAIN calls = 1 .. Len(calls)
  BY CallsAre DEF Evolves, TypeInv
<1>1. TypeInv'
  BY DEF TypeInv, Evolves
<1>2. CallInv' /\ AloneInv'
  BY <1>0, Undisturbed DEF CallInv
<1>3. \A t, k : Made(t, k) => Made(t, k)'
  BY <1>0, Undisturbed DEF Made
<1>4. \A d \in DOMAIN calls : \A e, f : Taken(d, e, f)' <=> Taken(d, e, f)
  BY Undisturbed
<1>5. \A d \in DOMAIN calls : Deleting(d)' <=> Deleting(d)
  BY Undisturbed
<1>6. \A d \in DOMAIN calls : Holds(d)' =>
        \/ Holds(d) /\ calls'[d].table = calls[d].table
        \/ calls'[d].table = key_table[calls[d].key] /\ key_table[calls[d].key] # 0 /\ d = c
  BY Undisturbed DEF Evolves
<1>7. c \in DOMAIN calls /\ calls[c].key \in Keys
  BY DEF Active, CallInv, CallOK
<1>8. TableInv'
  <2>1. \A k \in Keys : key_table[k] # 0 => Made(key_table[k], k)'
    BY <1>3 DEF TableInv
  <2>2. \A d \in DOMAIN calls : Holds(d)' =>
          \A t, k : t = calls'[d].table /\ k = calls'[d].key => Made(t, k)'
    <3> SUFFICES ASSUME NEW d \in DOMAIN calls, Holds(d)', NEW t, t = calls'[d].table,
                        NEW k, k = calls'[d].key
                 PROVE  Made(t, k)'
      OBVIOUS
    <3>1. k = calls[d].key
      BY Undisturbed
    <3>2. Made(t, k)
      BY <1>6, <1>7, <3>1 DEF TableInv
    <3> QED
      BY <1>3, <3>2
  <2>3. \A d \in DOMAIN calls : Deleting(d)' => key_table[calls'[d].key] = 0
    BY <1>5, Undisturbed DEF TableInv
  <2>4. \A t \in Calls : ~(\E k \in Keys : Made(t, k)') => \A f \in Fields : tables[t][f] = 0
    BY <1>3 DEF TableInv
  <2> QED
    BY <1>0, <2>1, <2>2, <2>3, <2>4 DEF TableInv, Made
<1>9. \A t : Reached(t)' => Reached(t)
  BY <1>0, <1>6, <1>7 DEF Reached, Linked
<1>10. OwnerInv'
  BY <1>0, <1>4, <1>9 DEF OwnerInv
<1>11. \A d, f : Fresh(d, f)' => Fresh(d, f)
  BY <1>0, Undisturbed DEF Fresh
<1>12. FreshInv'
  <2> SUFFICES ASSUME NEW d \in Calls, NEW f \in Fields, Fresh(d, f)'
               PROVE  /\ freed[<< d, f >>] = 0
                      /\ \A t \in Calls : tables[t][f] # d
                      /\ \A e \in DOMAIN calls : ~Taken(e, d, f)'
    BY <1>0 DEF FreshInv
  <2> QED
    BY <1>4, <1>11 DEF FreshInv
<1>13. \A d, k : Writer(d, k)' => Writer(d, k)
  <2> SUFFICES ASSUME NEW d, NEW k, Writer(d, k)'
               PROVE  Writer(d, k)
    OBVIOUS
  <2>1. d \in Active' /\ d \in Active /\ d \in DOMAIN calls
    BY Undisturbed DEF Writer, Active
  <2> QED
    BY <2>1, Undisturbed DEF Writer
<1>14. RaceInv'
  <2>1. \A k \in Keys : Complete(k)' <=> Complete(k)
    BY DEF Complete
  <2>2. ASSUME NEW d \in DOMAIN calls, d # c, OnRecord(d)
        PROVE  OnRecord(d)'
    BY <2>2 DEF OnRecord, Field, Evolves
  <2>3. ASSUME NEW k, Writer(c, k)', calls[c].key \notin raced
        PROVE  OnRecord(c)'
    <3>1. Writes(calls[c]) /\ Writes(calls'[c]) /\ calls'[c].key = calls[c].key
      BY <1>13, <2>3, Undisturbed DEF Writer
    <3>2. calls'[c].pc \in {"write", "add", "free"} => calls'[c].table = key_table[calls[c].key]
      BY <3>1 DEF Holds
    <3> QED
      BY <2>3, <3>1, <3>2 DEF OnRecord
  <2> SUFFICES ASSUME NEW k \in Keys \ raced
               PROVE  /\ \A a, d \in DOMAIN calls : Writer(a, k)' /\ Writer(d, k)' /\ a # d => Complete(k)'
                      /\ \A d \in DOMAIN calls : Writer(d, k)' => OnRecord(d)'
    BY <1>0 DEF RaceInv
  <2>4. ASSUME NEW d \in DOMAIN calls, Writer(d, k)'
        PROVE  OnRecord(d)'
    <3>1. Writer(d, k) /\ OnRecord(d) /\ calls[d].key = k
      BY <1>13, <2>4 DEF RaceInv, Writer
    <3> QED
      BY <2>2, <2>3, <2>4, <3>1
  <2> QED
    BY <1>13, <2>1, <2>4 DEF RaceInv
<1>15. \A d \in DOMAIN calls : Writes(calls'[d]) =>
         /\ Writes(calls[d]) /\ Written(d)' = Written(d)
         /\ calls'[d].key = calls[d].key /\ calls'[d].prior = calls[d].prior
  BY Undisturbed
<1>16. \A d \in DOMAIN calls : \A f : Kept(d, f) => Kept(d, f)'
  BY <1>0, <1>4, <1>5, Undisturbed DEF Kept, Linked, Evolves
<1>17. KeptInv'
  BY <1>0, <1>15, <1>16 DEF KeptInv
<1>18. \A d \in DOMAIN calls : \A f : Writes(calls'[d]) /\ Current(d, f) => Current(d, f)'
  BY <1>15 DEF Current, NotBefore
<1>19. AckedInv'
  BY <1>0, <1>15, <1>18, Undisturbed DEF AckedInv
<1> QED
  BY <1>1, <1>2, <1>8, <1>10, <1>12, <1>14, <1>17, <1>19

-------------------------------------------------------------------------------
(* The steps of a read.                                                    *)

Reads(x) == x.op \in {"Read", "Scan"}

(* A read goes on and changes nothing else.                                *)
ReadsOn(c) ==
  /\ Evolves(c) /\ Reads(calls[c])
  /\ calls'[c].mixed = calls[c].mixed
  /\ UNCHANGED << key_table, tables, freed, raced, destroyed >>

(* It finds its field tables, or returns, ...                              *)
Finds(c, S) ==
  /\ calls[c].pc = "get"
  /\ calls'[c].todo = calls[c].todo /\ calls'[c].pairs = calls[c].pairs
  /\ calls'[c].result = calls[c].result
  /\ S = {} => calls'[c].pc = "done"
  /\ S # {} => /\ calls'[c].pc = "fetch"
               /\ calls'[c].tables = [i \in S |-> key_table[KeyOrder[i]]]

(* FindTables goes through the entries from the key on, one for a Read.    *)
LEMMA FindTablesIs ==
  ASSUME TypeInv, CallInv, NEW c \in Active, FindTables(c)
  PROVE  /\ ReadsOn(c)
         /\ \E n \in Nat \ {0}, m \in SUBSET (Keys \ {calls[c].key}) :
              /\ Finds(c, EntriesFrom(Without(m), calls[c].key, n))
              /\ calls[c].op = "Read" => n = 1
<1> DEFINE x == calls[c]
<1>1. /\ x.op \in {"Read", "Scan"} /\ x.pc = "get"
      /\ UNCHANGED << key_table, tables, freed, raced, destroyed >>
  BY DEF FindTables, At
<1>2. DOMAIN x = Parts
  BY DEF Active, CallInv, CallOK
<1>3. PICK n \in IF x.op = "Read" THEN {1} ELSE DOMAIN KeyOrder,
           m \in SUBSET (Keys \ (x.there \cup {x.key})) :
        \E S \in {EntriesFrom(Without(m), x.key, n)} :
          Set(c, IF S # {}
                 THEN [x EXCEPT !.pc = "fetch", !.there = {},
                                !.tables = [i \in S |-> key_table[KeyOrder[i]]]]
                 ELSE Return(x, IF x.op = "Read" THEN "kErrorNoData" ELSE "kOK"))
  BY DEF FindTables
<1>4. PICK S : /\ S = EntriesFrom(Without(m), x.key, n)
               /\ Set(c, IF S # {}
                         THEN [x EXCEPT !.pc = "fetch", !.there = {},
                                        !.tables = [i \in S |-> key_table[KeyOrder[i]]]]
                         ELSE Return(x, IF x.op = "Read" THEN "kErrorNoData" ELSE "kOK"))
  BY <1>3
<1>5. n \in Nat \ {0} /\ (x.op = "Read" => n = 1)
  <2>1. DOMAIN KeyOrder \subseteq Nat \ {0}
    BY HashtableDBAssumption
  <2>2. CASE x.op = "Read"
    BY <1>3, <2>2
  <2>3. CASE x.op # "Read"
    BY <1>3, <2>1, <2>3
  <2> QED
    BY <2>2, <2>3
<1>6. PICK y : /\ Set(c, y) /\ DOMAIN y = Parts
               /\ y.op = x.op /\ y.key = x.key /\ y.prior = x.prior /\ y.fields = x.fields
               /\ y.mixed = x.mixed /\ y.todo = x.todo /\ y.pairs = x.pairs /\ y.result = x.result
               /\ S = {} => y.pc = "done"
               /\ S # {} => y.pc = "fetch" /\ y.tables = [i \in S |-> key_table[KeyOrder[i]]]
  <2>1. CASE S # {}
    <3>1. PICK w : w = [i \in S |-> key_table[KeyOrder[i]]]
      OBVIOUS
    <3> DEFINE z == [x EXCEPT !.pc = "fetch", !.there = {}, !.tables = w]
    <3>2. Set(c, z)
      BY <1>4, <2>1, <3>1
    <3>3. /\ DOMAIN z = Parts
          /\ z.op = x.op /\ z.key = x.key /\ z.prior = x.prior /\ z.fields = x.fields
          /\ z.mixed = x.mixed /\ z.todo = x.todo /\ z.pairs = x.pairs /\ z.result = x.result
          /\ z.pc = "fetch" /\ z.tables = w
      BY <1>2 DEF Parts
    <3> HIDE DEF z
    <3> QED
      BY <2>1, <3>1, <3>2, <3>3
  <2>2. CASE S = {}
    <3>1. PICK w : w = IF x.op = "Read" THEN "kErrorNoData" ELSE "kOK"
      OBVIOUS
    <3> DEFINE z == Return(x, w)
    <3>2. Set(c, z)
      BY <1>4, <2>2, <3>1
    <3>3. /\ DOMAIN z = Parts
          /\ z.op = x.op /\ z.key = x.key /\ z.prior = x.prior /\ z.fields = x.fields
          /\ z.mixed = x.mixed /\ z.todo = x.todo /\ z.pairs = x.pairs /\ z.result = x.result
          /\ z.pc = "done"
      BY <1>2 DEF Parts, Return
    <3> HIDE DEF z
    <3> QED
      BY <2>2, <3>2, <3>3
  <2> QED
    BY <2>1, <2>2
<1>7. Evolves(c) /\ calls'[c] = y
  BY <1>6, SetEvolves
<1>8. ReadsOn(c) /\ Finds(c, S)
  BY <1>1, <1>6, <1>7 DEF ReadsOn, Finds, Reads
<1>9. m \in SUBSET (Keys \ {x.key})
  BY <1>3
<1> QED
  BY <1>4, <1>5, <1>8, <1>9

(* ... fetches the strings of the next fields from one of them ...         *)
Fetches(c, t) ==
  /\ calls[c].pc = "fetch"
  /\ calls'[c].pc \in {"walk", "copy"} /\ calls'[c].todo = Tail(calls[c].todo)
  /\ calls'[c].pairs = {<< tables[t][f], f >> : f \in Entries(tables[t], Head(calls[c].todo))}
  /\ calls'[c].result = calls[c].result /\ calls'[c].tables = calls[c].tables

(* FetchFields takes the pointers under the lock of the table at the       *)
(* current place.                                                          *)
LEMMA FetchFieldsIs ==
  ASSUME TypeInv, CallInv, NEW c \in Active, FetchFields(c)
  PROVE  ReadsOn(c) /\ Fetches(c, calls[c].tables[Place(c)])
<1> DEFINE x == calls[c]
<1>1. /\ x.op \in {"Read", "Scan"} /\ x.pc = "fetch"
      /\ UNCHANGED << key_table, tables, freed, raced, destroyed >>
  BY DEF FetchFields, At
<1>2. DOMAIN x = Parts
  BY DEF Active, CallInv, CallOK
<1>3. PICK t, u : /\ t = x.tables[Place(c)]
                  /\ u = {<< tables[t][f], f >> : f \in Entries(tables[t], Head(x.todo))}
  OBVIOUS
<1>4. PICK v : v = IF x.fields = << Fields >> THEN "walk" ELSE "copy"
  OBVIOUS
<1> DEFINE z == [x EXCEPT !.pc = v, !.todo = Tail(@), !.pairs = u]
<1>8. Set(c, z) /\ v \in {"walk", "copy"}
  BY <1>3, <1>4 DEF FetchFields
<1>5. /\ DOMAIN z = Parts
      /\ z.op = x.op /\ z.key = x.key /\ z.prior = x.prior /\ z.fields = x.fields
      /\ z.mixed = x.mixed /\ z.result = x.result /\ z.tables = x.tables
      /\ z.pc = v /\ z.todo = Tail(x.todo) /\ z.pairs = u
  BY <1>2 DEF Parts
<1> HIDE DEF z
<1>6. Evolves(c) /\ calls'[c] = z
  BY <1>5, <1>8, SetEvolves
<1>7. ReadsOn(c) /\ Fetches(c, t)
  BY <1>1, <1>3, <1>5, <1>6, <1>8 DEF ReadsOn, Fetches, Reads
<1> QED
  BY <1>3, <1>7

(* ... meets another one that is inserted meanwhile, ...                   *)
Meets(c, t) ==
  /\ calls[c].pc = "walk"
  /\ calls'[c].pc = "walk" /\ calls'[c].todo = calls[c].todo
  /\ \E f \in Fields : /\ tables[t][f] # 0
                       /\ calls'[c].pairs = calls[c].pairs \cup {<< tables[t][f], f >>}
  /\ calls'[c].result = calls[c].result /\ calls'[c].tables = calls[c].tables

LEMMA FetchLateIs ==
  ASSUME TypeInv, CallInv, NEW c \in Active, FetchLate(c)
  PROVE  ReadsOn(c) /\ Meets(c, calls[c].tables[Place(c)])
<1> DEFINE x == calls[c]
<1>1. /\ x.op \in {"Read", "Scan"} /\ x.pc = "walk"
      /\ UNCHANGED << key_table, tables, freed, raced, destroyed >>
  BY DEF FetchLate, At
<1>2. DOMAIN x = Parts
  BY DEF Active, CallInv, CallOK
<1>3. PICK t : t = x.tables[Place(c)]
  OBVIOUS
<1>4. PICK f \in Entries(tables[t], Fields) :
        Set(c, [x EXCEPT !.pairs = @ \cup {<< tables[t][f], f >>}])
  BY <1>3 DEF FetchLate
<1>5. PICK u : u = x.pairs \cup {<< tables[t][f], f >>}
  OBVIOUS
<1> DEFINE z == [x EXCEPT !.pairs = u]
<1>6. Set(c, z)
  BY <1>4, <1>5
<1>7. /\ DOMAIN z = Parts
      /\ z.op = x.op /\ z.key = x.key /\ z.prior = x.prior /\ z.fields = x.fields
      /\ z.mixed = x.mixed /\ z.result = x.result /\ z.tables = x.tables
      /\ z.pc = x.pc /\ z.todo = x.todo /\ z.pairs = u
  BY <1>2 DEF Parts
<1> HIDE DEF z
<1>8. Evolves(c) /\ calls'[c] = z
  BY <1>6, <1>7, SetEvolves
<1>9. f \in Fields /\ tables[t][f] # 0
  BY <1>4 DEF Entries
<1>10. ReadsOn(c) /\ Meets(c, t)
  BY <1>1, <1>5, <1>7, <1>8, <1>9 DEF ReadsOn, Meets, Reads
<1> QED
  BY <1>3, <1>10

(* ... copies one of them, ...                                             *)
Copies(c, s) ==
  /\ s \in calls[c].pairs /\ calls'[c].pairs = calls[c].pairs \ {s}
  /\ calls'[c].result = calls[c].result \cup {[str |-> s, live |-> freed[s] = 0]}
  /\ calls'[c].pc = "copy" /\ calls'[c].todo = calls[c].todo /\ calls'[c].tables = calls[c].tables

(* ... or goes on to the next fields, the next table, or returns.          *)
TurnsTo(c) ==
  /\ calls[c].pairs = {} /\ calls'[c].pairs = {} /\ calls'[c].result = calls[c].result
  /\ \/ /\ calls[c].todo # << >> /\ calls'[c].pc = "fetch" /\ calls'[c].todo = calls[c].todo
        /\ calls'[c].tables = calls[c].tables
     \/ /\ calls[c].todo = << >> /\ DOMAIN calls[c].tables # {Place(c)}
        /\ calls'[c].pc = "fetch" /\ calls'[c].todo = calls[c].fields
        /\ calls'[c].tables = [i \in DOMAIN calls[c].tables \ {Place(c)} |-> calls[c].tables[i]]
     \/ calls[c].todo = << >> /\ calls'[c].pc = "done"

(* CopyToResult copies one string, or has none left and goes on.           *)
LEMMA CopyToResultIs ==
  ASSUME TypeInv, CallInv, NEW c \in Active, CopyToResult(c)
  PROVE  ReadsOn(c) /\ calls[c].pc \in {"walk", "copy"} /\ (TurnsTo(c) \/ \E s : Copies(c, s))
<1> DEFINE x == calls[c]
<1>1. /\ x.op \in {"Read", "Scan"} /\ x.pc \in {"walk", "copy"}
      /\ UNCHANGED << key_table, tables, freed, raced, destroyed >>
  BY DEF CopyToResult, At
<1>2. DOMAIN x = Parts
  BY DEF Active, CallInv, CallOK
<1>3. CASE x.pairs # {}
  <2>1. PICK s : s = CHOOSE e \in x.pairs : TRUE
    OBVIOUS
  <2>2. s \in x.pairs
    BY <1>3, <2>1
  <2>3. PICK v, w : v = x.pairs \ {s} /\ w = x.result \cup {[str |-> s, live |-> freed[s] = 0]}
    OBVIOUS
  <2> DEFINE z == [x EXCEPT !.pc = "copy", !.pairs = v, !.result = w]
  <2>4. Set(c, z)
    BY <1>3, <2>1, <2>3 DEF CopyToResult
  <2>5. /\ DOMAIN z = Parts
        /\ z.op = x.op /\ z.key = x.key /\ z.prior = x.prior /\ z.fields = x.fields
        /\ z.mixed = x.mixed /\ z.tables = x.tables /\ z.pc = "copy" /\ z.todo = x.todo
        /\ z.pairs = v /\ z.result = w
    BY <1>2 DEF Parts
  <2> HIDE DEF z
  <2>6. Evolves(c) /\ calls'[c] = z
    BY <2>4, <2>5, SetEvolves
  <2>7. ReadsOn(c)
    BY <1>1, <2>5, <2>6 DEF ReadsOn, Reads
  <2>8. Copies(c, s)
    BY <1>1, <2>2, <2>3, <2>5, <2>6 DEF Copies
  <2> QED
    BY <1>1, <2>7, <2>8
<1>4. CASE x.pairs = {} /\ x.todo # << >>
  <2> DEFINE z == [x EXCEPT !.pc = "fetch"]
  <2>1. Set(c, z)
    BY <1>4 DEF CopyToResult
  <2>2. /\ DOMAIN z = Parts
        /\ z.op = x.op /\ z.key = x.key /\ z.prior = x.prior /\ z.fields = x.fields
        /\ z.mixed = x.mixed /\ z.tables = x.tables /\ z.pc = "fetch" /\ z.todo = x.todo
        /\ z.pairs = x.pairs /\ z.result = x.result
    BY <1>2 DEF Parts
  <2> HIDE DEF z
  <2>3. Evolves(c) /\ calls'[c] = z
    BY <2>1, <2>2, SetEvolves
  <2> QED
    BY <1>1, <1>4, <2>2, <2>3 DEF ReadsOn, Reads, TurnsTo
<1>5. CASE x.pairs = {} /\ x.todo = << >> /\ DOMAIN x.tables # {Place(c)}
  <2>1. PICK w : w = [i \in DOMAIN x.tables \ {Place(c)} |-> x.tables[i]]
    OBVIOUS
  <2> DEFINE z == [x EXCEPT !.pc = "fetch", !.todo = x.fields, !.tables = w]
  <2>2. Set(c, z)
    BY <1>5, <2>1 DEF CopyToResult
  <2>3. /\ DOMAIN z = Parts
        /\ z.op = x.op /\ z.key = x.key /\ z.prior = x.prior /\ z.fields = x.fields
        /\ z.mixed = x.mixed /\ z.tables = w /\ z.pc = "fetch" /\ z.todo = x.fields
        /\ z.pairs = x.pairs /\ z.result = x.result
    BY <1>2 DEF Parts
  <2> HIDE DEF z
  <2>4. Evolves(c) /\ calls'[c] = z
    BY <2>2, <2>3, SetEvolves
  <2> QED
    BY <1>1, <1>5, <2>1, <2>3, <2>4 DEF ReadsOn, Reads, TurnsTo
<1>6. CASE x.pairs = {} /\ x.todo = << >> /\ ~(DOMAIN x.tables # {Place(c)})
  <2> DEFINE z == Return(x, "kOK")
  <2>1. Set(c, z)
    BY <1>6 DEF CopyToResult
  <2>2. /\ DOMAIN z = Parts
        /\ z.op = x.op /\ z.key = x.key /\ z.prior = x.prior /\ z.fields = x.fields
        /\ z.mixed = x.mixed /\ z.pc = "done" /\ z.pairs = x.pairs /\ z.result = x.result
    BY <1>2 DEF Parts, Return
  <2> HIDE DEF z
  <2>3. Evolves(c) /\ calls'[c] = z
    BY <2>1, <2>2, SetEvolves
  <2> QED
    BY <1>1, <1>6, <2>2, <2>3 DEF ReadsOn, Reads, TurnsTo
<1> QED
  BY <1>3, <1>4, <1>5, <1>6

(* Read and Scan change no table and delete no string.                     *)
LEMMA ReaderInv ==
  ASSUME TypeInv, CallInv, OpenInv, NEW c \in Active,
         FindTables(c) \/ FetchFields(c) \/ FetchLate(c) \/ CopyToResult(c)
  PROVE  TypeInv' /\ CallInv' /\ OpenInv'
<1>1. ReadsOn(c)
  BY FindTablesIs, FetchFieldsIs, FetchLateIs, CopyToResultIs
<1>2. c \in DOMAIN calls /\ CallOK(c)
  BY DEF Active, CallInv
<1>3. UNCHANGED << key_table, tables, freed, raced, destroyed >>
  BY <1>1 DEF ReadsOn
<1>4. Evolves(c) /\ calls[c].op \in {"Read", "Scan"} /\ calls'[c].op = calls[c].op
  BY <1>1 DEF ReadsOn, Evolves, Reads
<1>5. /\ ~Deleting(c) /\ ~Deleting(c)' /\ ~Holds(c) /\ ~Holds(c)'
      /\ ~Writes(calls[c]) /\ ~Writes(calls'[c])
  BY <1>4 DEF Deleting, Holds, Writes
<1>6. \A e, f : ~Taken(c, e, f) /\ ~Taken(c, e, f)'
  BY <1>4 DEF Taken
<1>7. \A k : ~Made(c, k)
  BY <1>5 DEF Made
<1>8. CallOK(c)'
  <2>1. Active' \subseteq Active /\ DOMAIN calls' = DOMAIN calls
    BY <1>4, Undisturbed DEF Evolves, OpenInv
  <2> QED
    BY <1>2, <1>4, <1>5, <2>1 DEF CallOK, Evolves
<1> QED
  BY <1>3, <1>4, <1>5, <1>6, <1>7, <1>8, QuietInv

(* Update and Insert look for the record.                                  *)
LEMMA FindRecordInv ==
  ASSUME TypeInv, CallInv, OpenInv, NEW c \in Active, FindRecord(c)
  PROVE  TypeInv' /\ CallInv' /\ OpenInv'
<1> DEFINE x == calls[c]
           t == key_table[x.key]
           y == IF t # 0 THEN [x EXCEPT !.pc = "write", !.table = t]
                ELSE [x EXCEPT !.pc = "link", !.table = c, !.new = TRUE]
<1>1. /\ x.op \in {"Update", "Insert"} /\ x.pc = "get" /\ Set(c, y)
      /\ UNCHANGED << key_table, tables, freed, raced, destroyed >>
  BY DEF FindRecord, At, Get
<1>2. c \in DOMAIN calls /\ CallOK(c) /\ Writes(x)
  BY <1>1 DEF Active, CallInv, Writes
<1>3. DOMAIN x = Parts /\ WriterOK(c, x) /\ x.new = FALSE
  BY <1>1, <1>2 DEF CallOK, WriterOK
<1>4. /\ DOMAIN y = Parts /\ y.op = x.op /\ y.key = x.key /\ y.prior = x.prior
      /\ y.fields = x.fields /\ y.todo = x.todo /\ y.rv = x.rv
      /\ t # 0 => y.pc = "write" /\ y.table = t /\ y.new = FALSE
      /\ t = 0 => y.pc = "link" /\ y.table = c /\ y.new = TRUE
  <2>1. CASE t # 0
    BY <1>3, <2>1 DEF Parts
  <2>2. CASE t = 0
    BY <1>3, <2>2 DEF Parts
  <2> QED
    BY <2>1, <2>2
<1> HIDE DEF y
<1>5. Evolves(c) /\ calls'[c] = y
  BY <1>1, <1>4, SetEvolves
<1>6. y.pc \in {"write", "link"} /\ Writes(y)
  BY <1>1, <1>4 DEF Writes
<1>7. /\ ~Deleting(c) /\ ~Deleting(c)' /\ ~Holds(c)
      /\ Holds(c)' => calls'[c].table = t /\ t # 0
  BY <1>1, <1>4, <1>5, <1>6 DEF Deleting, Holds, Writes
<1>8. \A e, f : ~Taken(c, e, f) /\ ~Taken(c, e, f)'
  BY <1>1, <1>5, <1>6 DEF Taken
<1>9. \A k : ~Made(c, k)
  BY <1>1 DEF Made
<1>10. Unwritten(c)' = Unwritten(c) /\ Written(c)' = Written(c)
  BY <1>1, <1>4, <1>5, <1>6 DEF Unwritten, Written
<1>11. CallOK(c)'
  <2>1. Active' \subseteq Active /\ DOMAIN calls' = DOMAIN calls
    BY <1>5, Undisturbed DEF Evolves, OpenInv
  <2>2. WriterOK(c, y)
    BY <1>1, <1>3, <1>4 DEF WriterOK
  <2> QED
    BY <1>1, <1>2, <1>4, <1>5, <2>1, <2>2 DEF CallOK
<1>12. /\ y.pc = "link" => t = 0
       /\ y.pc # "add"
       /\ y.pc = "write" => ~(y.new = TRUE)
  BY <1>4, <1>6
<1> QED
  BY <1>1, <1>5, <1>7, <1>8, <1>9, <1>10, <1>11, <1>12, QuietInv

(* An empty field table is put under the key, unless one is there.         *)
LEMMA LinkRecordInv ==
  ASSUME TypeInv, CallInv, OpenInv, NEW c \in Active, LinkRecord(c)
  PROVE  TypeInv' /\ CallInv' /\ OpenInv'
<1> USE DEF OpenInv
<1> DEFINE x == calls[c]
           y == [x EXCEPT !.pc = "write"]
<1>1. /\ x.op \in {"Update", "Insert"} /\ x.pc = "link" /\ Set(c, y)
      /\ key_table' = Insert(key_table, x.key, c)
      /\ UNCHANGED << tables, freed, raced, destroyed >>
  BY DEF LinkRecord, At
<1>2. c \in DOMAIN calls /\ CallOK(c) /\ Writes(x) /\ x.key \in Keys
  BY <1>1 DEF Active, CallInv, Writes, CallOK
<1>3. /\ DOMAIN x = Parts /\ WriterOK(c, x)
      /\ x.new = TRUE /\ x.table = c /\ x.todo = x.fields
  BY <1>1, <1>2 DEF CallOK, WriterOK
<1>4. /\ DOMAIN y = Parts /\ y.op = x.op /\ y.key = x.key /\ y.prior = x.prior
      /\ y.fields = x.fields /\ y.todo = x.todo /\ y.rv = x.rv
      /\ y.pc = "write" /\ y.table = c /\ y.new = TRUE
  BY <1>3 DEF Parts
<1> HIDE DEF y
<1>5. Evolves(c) /\ calls'[c] = y
  BY <1>1, <1>4, SetEvolves
<1>6. /\ DOMAIN calls' = DOMAIN calls /\ DOMAIN calls = 1 .. Len(calls)
      /\ c \in Calls /\ c # 0 /\ DOMAIN calls \subseteq Calls
  BY <1>2, <1>5, CallsAre, HashtableDBAssumption DEF Evolves, TypeInv, Calls
<1>7. /\ \A k \in Keys : k # x.key => key_table'[k] = key_table[k]
      /\ key_table[x.key] # 0 => key_table'[x.key] = key_table[x.key]
      /\ key_table[x.key] = 0 => key_table'[x.key] = c
      /\ key_table' \in [Keys -> 0 .. MaxCalls]
  BY <1>1, <1>2, <1>6 DEF Insert, TypeInv, Calls
<1>8. TypeInv'
  BY <1>1, <1>5, <1>7 DEF TypeInv, Evolves
<1>9. CallOK(c)'
  <2>1. Active' \subseteq Active
    BY <1>5, Undisturbed
  <2>2. WriterOK(c, y)
    BY <1>1, <1>3, <1>4 DEF WriterOK
  <2> QED
    BY <1>1, <1>2, <1>4, <1>5, <1>6, <2>1, <2>2 DEF CallOK
<1>10. CallInv' /\ AloneInv'
  BY <1>5, <1>6, <1>9, Undisturbed DEF CallInv
<1>11. \A f \in Fields : tables[c][f] = 0
  <2>1. \A k \in Keys : ~Made(c, k)
    BY <1>1 DEF Made
  <2> QED
    BY <1>6, <2>1 DEF TableInv
<1>12. \A t, k : Made(t, k) \/ (t = c /\ k = x.key) => Made(t, k)'
  <2>1. \A k : k = x.key => Made(c, k)'
    BY <1>1, <1>2, <1>4, <1>5, <1>6 DEF Made, Writes
  <2>2. \A t, k : Made(t, k) => t \in DOMAIN calls /\ t # c
    BY <1>1 DEF Made
  <2> QED
    BY <1>5, <2>1, <2>2, Undisturbed
<1>13. \A d \in DOMAIN calls : \A e, f : Taken(d, e, f)' <=> Taken(d, e, f)
  <2>1. \A e, f : ~Taken(c, e, f) /\ ~Taken(c, e, f)'
    BY <1>1, <1>4, <1>5 DEF Taken
  <2> QED
    BY <1>5, <2>1, Undisturbed
<1>14. \A d \in DOMAIN calls : Deleting(d)' <=> Deleting(d)
  <2>1. ~Deleting(c) /\ ~Deleting(c)'
    BY <1>1, <1>4, <1>5 DEF Deleting
  <2> QED
    BY <1>5, <2>1, Undisturbed
<1>15. \A d \in DOMAIN calls : Holds(d)' =>
         \/ d # c /\ Holds(d) /\ calls'[d] = calls[d]
         \/ d = c /\ calls'[d].table = c
  BY <1>4, <1>5, Undisturbed DEF Evolves
<1>16. ~(\E d \in Active : calls[d].op = "Delete")
  BY <1>1 DEF AloneInv
<1>17. TableInv'
  <2>1. \A k \in Keys : key_table'[k] # 0 => \A t : t = key_table'[k] => Made(t, k)'
    BY <1>7, <1>12 DEF TableInv
  <2>2. \A d \in DOMAIN calls : Holds(d)' =>
          \A t, k : t = calls'[d].table /\ k = calls'[d].key => Made(t, k)'
    BY <1>4, <1>5, <1>12, <1>15 DEF TableInv
  <2>3. \A d \in DOMAIN calls : ~Deleting(d)'
    BY <1>14, <1>16 DEF Deleting, Active
  <2>4. \A t \in Calls : ~(\E k \in Keys : Made(t, k)') => \A f \in Fields : tables[t][f] = 0
    BY <1>12 DEF TableInv
  <2> QED
    BY <1>1, <1>6, <2>1, <2>2, <2>3, <2>4 DEF TableInv, Made
<1>18. \A t : Reached(t)' => Reached(t) \/ t = c
  BY <1>6, <1>7, <1>15 DEF Reached, Linked
<1>19. OwnerInv'
  BY <1>1, <1>6, <1>11, <1>13, <1>18 DEF OwnerInv
<1>20. Unwritten(c)' = Unwritten(c) /\ Written(c)' = {}
  BY <1>1, <1>3, <1>4, <1>5 DEF Unwritten, Written
<1>21. \A d, f : Fresh(d, f)' => Fresh(d, f)
  BY <1>5, <1>6, <1>20, Undisturbed DEF Fresh
<1>22. FreshInv'
  <2> SUFFICES ASSUME NEW d \in Calls, NEW f \in Fields, Fresh(d, f)'
               PROVE  /\ freed[<< d, f >>] = 0
                      /\ \A t \in Calls : tables[t][f] # d
                      /\ \A e \in DOMAIN calls : ~Taken(e, d, f)'
    BY <1>1, <1>6 DEF FreshInv
  <2> QED
    BY <1>13, <1>21 DEF FreshInv
<1>23. \A d, k : Writer(d, k)' => Writer(d, k) /\ calls[d].key = k /\ calls'[d].key = k
  <2> SUFFICES ASSUME NEW d, NEW k, Writer(d, k)'
               PROVE  Writer(d, k) /\ calls[d].key = k /\ calls'[d].key = k
    OBVIOUS
  <2>1. d \in Active' /\ d \in Active /\ d \in DOMAIN calls
    BY <1>5, Undisturbed DEF Writer, Active
  <2> QED
    BY <1>5, <2>1, Undisturbed DEF Writer
<1>24. RaceInv'
  <2> SUFFICES ASSUME NEW k \in Keys \ raced
               PROVE  /\ \A a, d \in DOMAIN calls : Writer(a, k)' /\ Writer(d, k)' /\ a # d => Complete(k)'
                      /\ \A d \in DOMAIN calls : Writer(d, k)' => OnRecord(d)'
    BY <1>1, <1>6 DEF RaceInv
  <2>1. CASE k = x.key
    <3>1. Writer(c, k) /\ OnRecord(c)
      BY <1>2, <2>1 DEF RaceInv, Writer
    <3>2. key_table[k] = 0 /\ key_table'[k] = c
      BY <1>1, <1>7, <2>1, <3>1 DEF OnRecord
    <3>3. \A d \in DOMAIN calls : Writer(d, k)' => d = c
      BY <1>2, <1>23, <3>1, <3>2 DEF RaceInv, Complete
    <3>4. OnRecord(c)'
      <4>1. \A f \in Elements(y.todo) : f \in Fields
        BY <1>3, <1>4 DEF WriterOK, Elements
      <4> QED
        BY <1>1, <1>4, <1>5, <1>11, <2>1, <3>2, <4>1 DEF OnRecord
    <3> QED
      BY <3>3, <3>4
  <2>2. CASE k # x.key
    <3>1. key_table'[k] = key_table[k]
      BY <1>7, <2>2
    <3>2. Complete(k)' <=> Complete(k)
      BY <1>1, <3>1 DEF Complete
    <3>3. ASSUME NEW d \in DOMAIN calls, Writer(d, k)'
          PROVE  OnRecord(d)'
      <4>1. Writer(d, k) /\ calls[d].key = k /\ d # c /\ OnRecord(d)
        BY <1>23, <2>2, <3>3 DEF RaceInv
      <4>2. calls'[d] = calls[d]
        BY <1>5, <4>1 DEF Evolves
      <4> QED
        BY <1>1, <3>1, <4>1, <4>2 DEF OnRecord, Field
    <3> QED
      BY <1>23, <3>2, <3>3 DEF RaceInv
  <2> QED
    BY <2>1, <2>2
<1>25. \A t \in Calls : Linked(t) => Linked(t)'
  BY <1>7 DEF Linked, Calls
<1>26. \A d \in DOMAIN calls : \A f : Kept(d, f) => Kept(d, f)'
  <2>1. \A d \in DOMAIN calls : Deleting(d) => calls'[d].table = calls[d].table
    BY <1>5, <1>16 DEF Deleting, Active, Evolves
  <2> QED
    BY <1>1, <1>6, <1>13, <1>14, <1>25, <2>1 DEF Kept
<1>27. \A d \in DOMAIN calls : Writes(calls'[d]) =>
         /\ Writes(calls[d]) /\ Written(d)' \subseteq Written(d)
         /\ calls'[d].key = calls[d].key /\ calls'[d].prior = calls[d].prior
  BY <1>5, <1>20, Undisturbed
<1>28. KeptInv'
  BY <1>1, <1>6, <1>26, <1>27 DEF KeptInv
<1>29. \A d \in DOMAIN calls : \A f : Writes(calls'[d]) /\ Current(d, f) => Current(d, f)'
  <2>1. \A d \in DOMAIN calls : calls[d].key \in Keys
    BY DEF CallInv, CallOK
  <2> QED
    BY <1>1, <1>7, <1>27, <2>1 DEF Current, NotBefore
<1>30. AckedInv'
  BY <1>1, <1>5, <1>6, <1>27, <1>29, Undisturbed DEF AckedInv
<1> QED
  BY <1>8, <1>10, <1>17, <1>19, <1>22, <1>24, <1>28, <1>30

-------------------------------------------------------------------------------
(* A call that writes field f of its field table t, or puts another string *)
(* there.                                                                  *)
WritesField(c, t, f) ==
  /\ c \in Active /\ Writes(calls[c]) /\ calls[c].pc \in {"write", "add", "free"}
  /\ t = calls[c].table /\ f = Field(c)
  /\ Evolves(c)
  /\ calls'[c].table = t /\ calls'[c].new = calls[c].new
  /\ WriterOK(c, calls'[c]) /\ calls'[c].pc \notin {"get", "link"}
  /\ UNCHANGED << key_table, raced, destroyed >>
  /\ tables' \in [Calls -> [Fields -> 0 .. MaxCalls]]
  /\ freed' \in [Calls \X Fields -> Nat]
  /\ \A u \in Calls, g \in Fields : u # t \/ g # f => tables'[u][g] = tables[u][g]
  /\ tables'[t][f] \in {tables[t][f], c}
  /\ calls[c].key \notin raced /\ calls'[c].pc # "done" => OnRecord(c)'
  /\ Written(c)' \subseteq Written(c) \cup {f}
  /\ calls[c].key \notin raced /\ f \in Written(c)' /\ f \notin Written(c) => tables'[t][f] = c

(* Where such a call is.                                                   *)
LEMMA FieldFacts ==
  ASSUME TypeInv, CallInv, OpenInv, NEW c \in Active, NEW t, NEW f,
         Writes(calls[c]), calls[c].pc \in {"write", "add", "free"},
         t = calls[c].table, f = Field(c)
  PROVE  /\ c \in DOMAIN calls /\ c \in Calls /\ c # 0 /\ CallOK(c) /\ WriterOK(c, calls[c])
         /\ DOMAIN calls[c] = Parts /\ DOMAIN calls \subseteq Calls
         /\ t \in Calls /\ t # 0 /\ Made(t, calls[c].key) /\ Holds(c) /\ Reached(t)
         /\ f \in Fields /\ f \in Elements(calls[c].todo)
         /\ f \notin Elements(Tail(calls[c].todo))
         /\ Elements(calls[c].todo) = Elements(Tail(calls[c].todo)) \cup {f}
         /\ Elements(calls[c].todo) \subseteq Fields
         /\ calls[c].key \in Keys
         /\ \A d \in DOMAIN calls : ~Deleting(d)
         /\ calls[c].key \notin raced => OnRecord(c) /\ t = key_table[calls[c].key]
<1> USE DEF OpenInv
<1>1. /\ c \in DOMAIN calls /\ CallOK(c) /\ calls[c].pc # "done"
      /\ DOMAIN calls \subseteq Calls /\ 0 \notin DOMAIN calls
  BY CallsAre, HashtableDBAssumption DEF Active, CallInv, TypeInv, Calls
<1>2. WriterOK(c, calls[c]) /\ DOMAIN calls[c] = Parts /\ calls[c].key \in Keys
  BY <1>1 DEF CallOK
<1>3. Holds(c) /\ Reached(t) /\ Made(t, calls[c].key)
  BY <1>1 DEF Holds, Reached, TableInv
<1>4. t \in Calls /\ t # 0
  BY <1>1, <1>3 DEF Made
<1>5. calls[c].todo \in Seq(Fields) /\ calls[c].todo # << >> /\ OneToOne(calls[c].todo)
  BY <1>1, <1>2 DEF WriterOK
<1>6. /\ f \in Fields /\ f \in Elements(calls[c].todo)
      /\ f \notin Elements(Tail(calls[c].todo))
      /\ Elements(calls[c].todo) = Elements(Tail(calls[c].todo)) \cup {f}
  BY <1>5, Fields1 DEF Field
<1>7. Elements(calls[c].todo) \subseteq Fields
  BY <1>5 DEF Elements
<1>8. \A d \in DOMAIN calls : ~Deleting(d)
  <2> SUFFICES ASSUME NEW d \in DOMAIN calls, Deleting(d)
               PROVE  FALSE
    OBVIOUS
  <2>1. d \in Active /\ calls[d].op = "Delete"
    BY DEF Deleting, Active
  <2>2. c = d
    BY <2>1 DEF AloneInv
  <2> QED
    BY <2>1, <2>2 DEF Writes
<1>9. calls[c].key \notin raced => OnRecord(c) /\ t = key_table[calls[c].key]
  BY <1>1, <1>2 DEF RaceInv, Writer, OnRecord
<1> QED
  BY <1>1, <1>2, <1>3, <1>4, <1>6, <1>7, <1>8, <1>9

(* The parts of the invariant that do not ask who owns the strings.        *)
LEMMA FieldInv ==
  ASSUME TypeInv, CallInv, OpenInv, NEW c \in Active, NEW t, NEW f, WritesField(c, t, f)
  PROVE  /\ TypeInv' /\ CallInv' /\ AloneInv' /\ TableInv' /\ RaceInv' /\ AckedInv'
         /\ \A u : Reached(u)' => Reached(u)
<1> USE DEF OpenInv
<1>1. /\ c \in DOMAIN calls /\ c \in Calls /\ c # 0 /\ CallOK(c)
      /\ t \in Calls /\ t # 0 /\ Made(t, calls[c].key) /\ Holds(c)
      /\ f \in Fields /\ calls[c].key \in Keys /\ DOMAIN calls \subseteq Calls
      /\ \A d \in DOMAIN calls : ~Deleting(d)
      /\ calls[c].key \notin raced => OnRecord(c) /\ t = key_table[calls[c].key]
  BY FieldFacts DEF WritesField
<1>2. /\ Evolves(c) /\ Writes(calls[c]) /\ calls'[c].pc \notin {"get", "link"}
      /\ calls[c].pc \in {"write", "add", "free"} /\ t = calls[c].table
      /\ calls'[c].table = t
      /\ UNCHANGED << key_table, raced, destroyed >>
      /\ DOMAIN calls' = DOMAIN calls
  BY DEF WritesField, Evolves
<1>3. /\ \A u \in Calls, g \in Fields : u # t \/ g # f => tables'[u][g] = tables[u][g]
      /\ tables'[t][f] \in {tables[t][f], c}
  BY DEF WritesField
<1>4. \A u \in Calls, g \in Fields : tables[u][g] # 0 => tables'[u][g] # 0
  BY <1>1, <1>3
<1>5. TypeInv'
  BY <1>2 DEF TypeInv, WritesField, Evolves
<1>6. CallOK(c)'
  <2>1. Active' \subseteq Active
    BY <1>2, Undisturbed
  <2> QED
    BY <1>1, <1>2, <2>1 DEF CallOK, Evolves, WritesField, Writes
<1>7. CallInv' /\ AloneInv'
  BY <1>2, <1>6, Undisturbed DEF CallInv
<1>8. \A u, k : Made(u, k) <=> Made(u, k)'
  <2>1. \A k : Made(c, k) <=> Made(c, k)'
    BY <1>1, <1>2 DEF Made, Evolves, Writes
  <2>2. \A u, k : Made(u, k) \/ Made(u, k)' => u \in DOMAIN calls
    BY <1>2 DEF Made
  <2> QED
    BY <1>2, <2>1, <2>2, Undisturbed
<1>9. \A d \in DOMAIN calls : ~Deleting(d)'
  <2>1. ~Deleting(c)'
    BY <1>2 DEF Deleting, Writes, Evolves
  <2> QED
    BY <1>1, <1>2, <2>1, Undisturbed
<1>10. \A d \in DOMAIN calls : Holds(d)' => Holds(d) /\ calls'[d].table = calls[d].table
  BY <1>1, <1>2, Undisturbed DEF Evolves
<1>11. TableInv'
  <2>1. \A k \in Keys : key_table[k] # 0 => \A u : u = key_table[k] => Made(u, k)'
    BY <1>8 DEF TableInv
  <2>2. \A d \in DOMAIN calls : Holds(d)' =>
          \A u, k : u = calls'[d].table /\ k = calls'[d].key => Made(u, k)'
    BY <1>2, <1>8, <1>10, Undisturbed DEF TableInv
  <2>3. \A u \in Calls : ~(\E k \in Keys : Made(u, k)') => \A g \in Fields : tables'[u][g] = 0
    <3> SUFFICES ASSUME NEW u \in Calls, ~(\E k \in Keys : Made(u, k)'), NEW g \in Fields
                 PROVE  tables'[u][g] = 0
      OBVIOUS
    <3>1. u # t /\ tables[u][g] = 0
      BY <1>1, <1>8 DEF TableInv
    <3> QED
      BY <1>3, <3>1
  <2> QED
    BY <1>2, <1>9, <2>1, <2>2, <2>3 DEF TableInv, Made
<1>12. \A u : Reached(u)' => Reached(u)
  BY <1>2, <1>10 DEF Reached, Linked
<1>13. \A d, k : Writer(d, k)' => Writer(d, k) /\ calls[d].key = k /\ calls'[d].key = k
  <2> SUFFICES ASSUME NEW d, NEW k, Writer(d, k)'
               PROVE  Writer(d, k) /\ calls[d].key = k /\ calls'[d].key = k
    OBVIOUS
  <2>1. d \in Active' /\ d \in Active /\ d \in DOMAIN calls
    BY <1>2, Undisturbed DEF Writer, Active
  <2> QED
    BY <1>2, <2>1, Undisturbed DEF Writer
<1>14. \A k \in Keys : key_table[k] # 0 => key_table[k] \in Calls
  BY <1>1 DEF TableInv, Made
<1>15. RaceInv'
  <2> SUFFICES ASSUME NEW k \in Keys \ raced
               PROVE  /\ \A a, d \in DOMAIN calls : Writer(a, k)' /\ Writer(d, k)' /\ a # d => Complete(k)'
                      /\ \A d \in DOMAIN calls : Writer(d, k)' => OnRecord(d)'
    BY <1>2 DEF RaceInv
  <2>1. Complete(k) => Complete(k)'
    BY <1>2, <1>4, <1>14 DEF Complete
  <2>2. ASSUME Writer(c, k)'
        PROVE  OnRecord(c)'
    BY <1>13, <2>2 DEF WritesField, Writer, Active
  <2>3. ASSUME NEW d \in DOMAIN calls, Writer(d, k)', d # c
        PROVE  OnRecord(d)'
    <3>1. Writer(d, k) /\ calls[d].key = k /\ OnRecord(d) /\ calls'[d] = calls[d]
      BY <1>2, <1>13, <2>3 DEF RaceInv, Evolves
    <3>2. WriterOK(d, calls[d]) /\ calls[d].pc # "done"
      BY <3>1 DEF CallInv, CallOK, Writer, Active
    <3>3. CASE k = calls[c].key
      <4>1. Complete(k)
        BY <1>1, <1>2, <2>3, <3>1, <3>3 DEF RaceInv, Writer
      <4>2. calls[d].pc # "add" /\ ~(calls[d].pc = "write" /\ calls[d].new = TRUE)
        <5>1. /\ calls[d].todo \in Seq(Fields) /\ calls[d].todo # << >> /\ OneToOne(calls[d].todo)
          BY <3>2 DEF WriterOK
        <5>2. Field(d) \in Fields /\ Field(d) \in Elements(calls[d].todo)
          BY <5>1, Fields1 DEF Field
        <5> QED
          BY <3>1, <4>1, <5>2 DEF OnRecord, Complete
      <4> QED
        BY <1>2, <3>1, <4>2 DEF OnRecord
    <3>4. CASE k # calls[c].key
      <4>1. key_table[k] # t
        BY <1>1, <3>4 DEF TableInv, Made
      <4>2. calls[d].pc \in {"add", "write"} => key_table[k] \in Calls
        <5>1. calls[d].pc \in {"add", "write"} => Holds(d)
          BY <3>1 DEF Holds, Writer
        <5>2. Holds(d) => calls[d].table \in Calls
          BY <1>1 DEF TableInv, Made
        <5> QED
          BY <3>1, <5>1, <5>2 DEF OnRecord
      <4>3. Elements(calls[d].todo) \subseteq Fields /\ (calls[d].pc # "done" => Field(d) \in Fields)
        <5>1. calls[d].todo \in Seq(Fields) /\ calls[d].todo # << >> /\ OneToOne(calls[d].todo)
          BY <3>2 DEF WriterOK
        <5> QED
          BY <5>1, Fields1 DEF Elements, Field
      <4>4. calls[d].pc = "add" => tables'[key_table[k]][Field(d)] = 0
        BY <1>3, <3>1, <4>1, <4>2, <4>3 DEF OnRecord
      <4>5. calls[d].pc = "write" /\ calls[d].new = TRUE =>
              \A g \in Elements(calls[d].todo) : tables'[key_table[k]][g] = 0
        BY <1>3, <3>1, <4>1, <4>2, <4>3 DEF OnRecord
      <4> QED
        BY <1>2, <3>1, <4>4, <4>5 DEF OnRecord, Field
    <3> QED
      BY <3>3, <3>4
  <2> QED
    BY <1>13, <2>1, <2>2, <2>3 DEF RaceInv
<1>16. ASSUME NEW d \in DOMAIN calls, Writes(calls[d]), calls[d].key \notin raced,
              ~Deleted(d, DOMAIN calls), NEW g \in Written(d)'
       PROVE  Current(d, g)'
  <2>1. /\ calls'[d].key = calls[d].key /\ calls'[d].prior = calls[d].prior
        /\ d # c => Written(d)' = Written(d)
    BY <1>2, Undisturbed
  <2>2. calls[d].key \in Keys /\ c \notin calls[d].prior
    BY DEF CallInv, CallOK
  <2>3. g \in Fields
    <3>1. Elements(calls[d].fields) \subseteq Fields
      BY <1>16 DEF CallInv, CallOK, WriterOK
    <3>2. Elements(calls'[d].fields) = Elements(calls[d].fields)
      BY <1>2, Undisturbed
    <3> QED
      BY <3>1, <3>2 DEF Written
  <2>4. CASE g \in Written(d)
    <3>1. Current(d, g)
      BY <1>16, <2>4 DEF AckedInv
    <3> DEFINE u == key_table[calls[d].key]
    <3>2. u \in Calls /\ tables[u][g] # 0 /\ tables[u][g] \notin calls[d].prior
      BY <1>14, <2>2, <3>1 DEF Current, NotBefore
    <3> HIDE DEF u
    <3>3. tables'[u][g] = tables[u][g] \/ tables'[u][g] = c
      <4>1. CASE u = t /\ g = f
        BY <1>3, <4>1
      <4>2. CASE u # t \/ g # f
        BY <1>3, <2>3, <3>2, <4>2
      <4> QED
        BY <4>1, <4>2
    <3> QED
      BY <1>1, <1>2, <2>1, <2>2, <3>1, <3>2, <3>3 DEF Current, NotBefore, u
  <2>5. CASE g \notin Written(d)
    <3>1. d = c /\ g = f /\ tables'[t][f] = c /\ t = key_table[calls[c].key]
      BY <1>1, <1>16, <2>1, <2>5 DEF WritesField
    <3> QED
      BY <1>1, <1>2, <2>1, <2>2, <3>1 DEF Current, NotBefore
  <2> QED
    BY <2>4, <2>5
<1>17. AckedInv'
  BY <1>2, <1>16, Undisturbed DEF AckedInv
<1> QED
  BY <1>5, <1>7, <1>11, <1>12, <1>15, <1>17

(* The others, while call c writes field f of table t.                     *)
LEMMA FieldOthers ==
  ASSUME TypeInv, CallInv, OpenInv, NEW c \in Active, NEW t, NEW f, WritesField(c, t, f)
  PROVE  /\ DOMAIN calls' = DOMAIN calls /\ DOMAIN calls \subseteq Calls /\ c \in DOMAIN calls
         /\ c # 0 /\ t \in Calls /\ f \in Fields /\ Reached(t)
         /\ \A d \in DOMAIN calls : d # c => \A e, g : Taken(d, e, g)' <=> Taken(d, e, g)
         /\ \A d, g : d # c => (Fresh(d, g)' <=> Fresh(d, g))
         /\ \A u : Linked(u)' <=> Linked(u)
         /\ \A d \in DOMAIN calls : Writes(calls'[d]) /\ calls'[d].key \notin raced' =>
              /\ Writes(calls[d]) /\ calls[d].key \notin raced
              /\ \A g \in Written(d)' :
                   \/ g \in Written(d)
                   \/ d = c /\ g = f /\ tables'[t][f] = c /\ Linked(t)
         /\ \A u \in Calls, g \in Fields : u # t \/ g # f => tables'[u][g] = tables[u][g]
         /\ \A u : Reached(u)' => Reached(u)
         /\ \A d \in DOMAIN calls : ~Deleting(d)
<1>1. /\ Evolves(c) /\ Writes(calls[c]) /\ DOMAIN calls' = DOMAIN calls
      /\ UNCHANGED << key_table, raced >> /\ AloneInv
  BY DEF WritesField, Evolves, OpenInv
<1>2. /\ DOMAIN calls \subseteq Calls /\ c \in DOMAIN calls /\ c # 0 /\ t \in Calls /\ f \in Fields
      /\ Reached(t) /\ calls[c].key \in Keys
      /\ calls[c].key \notin raced => t = key_table[calls[c].key]
      /\ \A d \in DOMAIN calls : ~Deleting(d)
  BY FieldFacts DEF WritesField
<1>3. \A d \in DOMAIN calls : d # c => \A e, g : Taken(d, e, g)' <=> Taken(d, e, g)
  BY <1>1, Undisturbed
<1>4. \A d, g : d # c => (Fresh(d, g)' <=> Fresh(d, g))
  <2>1. \A d \in DOMAIN calls : d # c => \A g : Fresh(d, g)' <=> Fresh(d, g)
    BY <1>1, Undisturbed
  <2>2. \A d, g : d \notin DOMAIN calls => Fresh(d, g) /\ Fresh(d, g)'
    BY <1>1 DEF Fresh
  <2> QED
    BY <2>1, <2>2
<1>5. \A u : Linked(u)' <=> Linked(u)
  BY <1>1 DEF Linked
<1>6. ASSUME NEW d \in DOMAIN calls, Writes(calls'[d]), calls'[d].key \notin raced'
      PROVE  /\ Writes(calls[d]) /\ calls[d].key \notin raced
             /\ \A g \in Written(d)' :
                   \/ g \in Written(d)
                   \/ d = c /\ g = f /\ tables'[t][f] = c /\ Linked(t)
  <2>1. /\ Writes(calls[d]) /\ calls[d].key \notin raced
        /\ d # c => Written(d)' = Written(d)
    BY <1>1, <1>6, Undisturbed
  <2>2. CASE d = c
    <3>1. t = key_table[calls[c].key] /\ Linked(t)
      BY <1>2, <2>1, <2>2 DEF Linked
    <3> QED
      BY <2>1, <2>2, <3>1 DEF WritesField
  <2> QED
    BY <2>1, <2>2
<1>7. \A u \in Calls, g \in Fields : u # t \/ g # f => tables'[u][g] = tables[u][g]
  BY DEF WritesField
<1>8. \A u : Reached(u)' => Reached(u)
  BY FieldInv
<1> QED
  BY <1>1, <1>2, <1>3, <1>4, <1>5, <1>6, <1>7, <1>8

(* The string goes into an empty field, or nowhere.                        *)
LEMMA PutInv ==
  ASSUME TypeInv, CallInv, OnceInv, OpenInv, NEW c \in Active, NEW t, NEW f, WritesField(c, t, f),
         Fresh(c, f), freed' = freed,
         \A e, g : ~Taken(c, e, g) /\ ~Taken(c, e, g)',
         \A g : Fresh(c, g)' => Fresh(c, g),
         \/ tables'[t][f] = tables[t][f]
         \/ tables[t][f] = 0 /\ tables'[t][f] = c /\ ~Fresh(c, f)'
  PROVE  TypeInv' /\ CallInv' /\ OnceInv' /\ OpenInv'
<1> USE DEF OpenInv
<1>1. /\ DOMAIN calls' = DOMAIN calls /\ DOMAIN calls \subseteq Calls /\ c \in DOMAIN calls
      /\ c # 0 /\ t \in Calls /\ f \in Fields /\ Reached(t)
      /\ \A u : Linked(u)' <=> Linked(u)
      /\ \A u \in Calls, g \in Fields : u # t \/ g # f => tables'[u][g] = tables[u][g]
      /\ \A u : Reached(u)' => Reached(u)
      /\ \A d \in DOMAIN calls : ~Deleting(d)
  BY FieldOthers
<1>2. \A d \in DOMAIN calls : \A e, g : Taken(d, e, g)' <=> Taken(d, e, g)
  BY FieldOthers
<1>3. \A d, g : Fresh(d, g)' => Fresh(d, g)
  BY FieldOthers
<1>4. /\ freed[<< c, f >>] = 0
      /\ \A u \in Calls : tables[u][f] # c
      /\ \A d \in DOMAIN calls : ~Taken(d, c, f)
  BY <1>1 DEF FreshInv
<1>5. OwnerInv'
  <2>1. \A u \in Calls, g \in Fields : tables'[u][g] # 0 => tables'[u][g] \in DOMAIN calls
    BY <1>1 DEF OwnerInv
  <2>2. \A u, v \in Calls, g \in Fields : tables'[u][g] # 0 /\ tables'[u][g] = tables'[v][g] => u = v
    BY <1>1, <1>4 DEF OwnerInv
  <2>3. \A u \in Calls, g \in Fields :
          tables'[u][g] # 0 /\ Reached(u)' => freed[<< tables'[u][g], g >>] = 0
    BY <1>1, <1>4 DEF OwnerInv
  <2>4. ASSUME NEW d \in DOMAIN calls, NEW e, NEW g, Taken(d, e, g)'
        PROVE  /\ e \in DOMAIN calls /\ g \in Fields /\ freed[<< e, g >>] = 0
               /\ \A u \in Calls : tables'[u][g] # e
               /\ \A h \in DOMAIN calls : Taken(h, e, g)' => h = d
    <3>1. /\ e \in DOMAIN calls /\ g \in Fields /\ freed[<< e, g >>] = 0
          /\ \A u \in Calls : tables[u][g] # e
          /\ \A h \in DOMAIN calls : Taken(h, e, g) => h = d
          /\ ~(e = c /\ g = f)
      BY <1>2, <1>4, <2>4 DEF OwnerInv
    <3>2. \A u \in Calls : tables'[u][g] # e
      BY <1>1, <3>1
    <3> QED
      BY <1>2, <3>1, <3>2
  <2> QED
    BY <1>1, <2>1, <2>2, <2>3, <2>4 DEF OwnerInv
<1>6. FreshInv'
  <2> SUFFICES ASSUME NEW d \in Calls, NEW g \in Fields, Fresh(d, g)'
               PROVE  /\ freed[<< d, g >>] = 0
                      /\ \A u \in Calls : tables'[u][g] # d
                      /\ \A e \in DOMAIN calls : ~Taken(e, d, g)'
    BY <1>1 DEF FreshInv
  <2>1. /\ freed[<< d, g >>] = 0
        /\ \A u \in Calls : tables[u][g] # d
        /\ \A e \in DOMAIN calls : ~Taken(e, d, g)
    BY <1>3 DEF FreshInv
  <2>2. d = c /\ g = f => tables'[t][f] = tables[t][f]
    OBVIOUS
  <2> QED
    BY <1>1, <1>2, <2>1, <2>2
<1>7. KeptInv'
  <2> SUFFICES ASSUME NEW d \in DOMAIN calls, Writes(calls'[d]), calls'[d].key \notin raced',
                      NEW g \in Written(d)'
               PROVE  Kept(d, g)'
    BY <1>1 DEF KeptInv
  <2>1. CASE g \in Written(d)
    <3>1. Kept(d, g)
      BY <2>1, FieldOthers DEF KeptInv
    <3>2. CASE \E u \in Calls : tables[u][g] = d /\ Linked(u)
      <4>1. PICK u \in Calls : tables[u][g] = d /\ Linked(u)
        BY <3>2
      <4>2. d # 0
        BY <1>1, HashtableDBAssumption DEF Calls
      <4>3. tables'[u][g] = d
        <5>1. CASE u = t /\ g = f
          BY <1>1, <4>1, <4>2, <5>1
        <5>2. CASE u # t \/ g # f
          <6>1. g \in Fields
            BY <2>1, FieldOthers DEF Written, CallInv, CallOK, WriterOK
          <6> QED
            BY <1>1, <4>1, <5>2, <6>1
        <5> QED
          BY <5>1, <5>2
      <4> QED
        BY <1>1, <4>1, <4>3 DEF Kept
    <3> QED
      BY <1>1, <1>2, <3>1, <3>2 DEF Kept
  <2>2. CASE g \notin Written(d)
    <3>1. d = c /\ g = f /\ tables'[t][f] = c /\ Linked(t)
      BY <2>2, FieldOthers
    <3> QED
      BY <1>1, <3>1 DEF Kept
  <2> QED
    BY <2>1, <2>2
<1>8. OnceInv'
  BY DEF OnceInv
<1> QED
  BY <1>5, <1>6, <1>7, <1>8, FieldInv

(* The fields a call has written are fields.                               *)
LEMMA WrittenFields ==
  ASSUME CallInv, NEW d \in DOMAIN calls, Writes(calls[d])
  PROVE  Written(d) \subseteq Fields
BY DEF CallInv, CallOK, WriterOK, Written

(* The string takes the place of another one, which call c will delete.    *)
LEMMA SwapInv ==
  ASSUME TypeInv, CallInv, OnceInv, OpenInv, NEW c \in Active, NEW t, NEW f, WritesField(c, t, f),
         Fresh(c, f), freed' = freed, tables[t][f] # 0, tables'[t][f] = c,
         \A e, g : ~Taken(c, e, g),
         \A e, g : Taken(c, e, g)' <=> e = tables[t][f] /\ g = f,
         \A g : Fresh(c, g)' => Fresh(c, g) /\ g # f
  PROVE  TypeInv' /\ CallInv' /\ OnceInv' /\ OpenInv'
<1> USE DEF OpenInv
<1>1. /\ DOMAIN calls' = DOMAIN calls /\ DOMAIN calls \subseteq Calls /\ c \in DOMAIN calls
      /\ c # 0 /\ t \in Calls /\ f \in Fields /\ Reached(t)
      /\ \A u : Linked(u)' <=> Linked(u)
      /\ \A u \in Calls, g \in Fields : u # t \/ g # f => tables'[u][g] = tables[u][g]
      /\ \A u : Reached(u)' => Reached(u)
      /\ \A d \in DOMAIN calls : ~Deleting(d)
  BY FieldOthers
<1> DEFINE old == tables[t][f]
<1>2. \A d \in DOMAIN calls : \A e, g :
        Taken(d, e, g)' <=> Taken(d, e, g) \/ (d = c /\ e = old /\ g = f)
  BY FieldOthers
<1>3. \A d, g : Fresh(d, g)' => Fresh(d, g) /\ ~(d = c /\ g = f)
  BY FieldOthers
<1>4. /\ freed[<< c, f >>] = 0
      /\ \A u \in Calls : tables[u][f] # c
      /\ \A d \in DOMAIN calls : ~Taken(d, c, f)
  BY <1>1 DEF FreshInv
<1>5. /\ old \in DOMAIN calls /\ freed[<< old, f >>] = 0
      /\ \A u \in Calls : tables[u][f] = old => u = t
      /\ \A d \in DOMAIN calls : ~Taken(d, old, f)
      /\ ~Fresh(old, f)
  BY <1>1 DEF OwnerInv, FreshInv
<1> HIDE DEF old
<1>6. OwnerInv'
  <2>1. \A u \in Calls, g \in Fields : tables'[u][g] # 0 => tables'[u][g] \in DOMAIN calls
    BY <1>1 DEF OwnerInv
  <2>2. \A u, v \in Calls, g \in Fields : tables'[u][g] # 0 /\ tables'[u][g] = tables'[v][g] => u = v
    BY <1>1, <1>4 DEF OwnerInv
  <2>3. \A u \in Calls, g \in Fields :
          tables'[u][g] # 0 /\ Reached(u)' => freed[<< tables'[u][g], g >>] = 0
    BY <1>1, <1>4 DEF OwnerInv
  <2>4. ASSUME NEW d \in DOMAIN calls, NEW e, NEW g, Taken(d, e, g)'
        PROVE  /\ e \in DOMAIN calls /\ g \in Fields /\ freed[<< e, g >>] = 0
               /\ \A u \in Calls : tables'[u][g] # e
               /\ \A h \in DOMAIN calls : Taken(h, e, g)' => h = d
    <3>1. CASE Taken(d, e, g)
      <4>1. /\ e \in DOMAIN calls /\ g \in Fields /\ freed[<< e, g >>] = 0
            /\ \A u \in Calls : tables[u][g] # e
            /\ \A h \in DOMAIN calls : Taken(h, e, g) => h = d
            /\ ~(e = c /\ g = f) /\ ~(e = old /\ g = f)
        BY <1>4, <1>5, <3>1 DEF OwnerInv
      <4>2. \A u \in Calls : tables'[u][g] # e
        BY <1>1, <4>1
      <4> QED
        BY <1>2, <4>1, <4>2
    <3>2. CASE d = c /\ e = old /\ g = f
      <4>1. \A u \in Calls : tables'[u][f] # old
        BY <1>1, <1>4, <1>5 DEF old
      <4> QED
        BY <1>1, <1>2, <1>5, <3>2, <4>1
    <3> QED
      BY <1>2, <2>4, <3>1, <3>2
  <2> QED
    BY <1>1, <2>1, <2>2, <2>3, <2>4 DEF OwnerInv
<1>7. FreshInv'
  <2> SUFFICES ASSUME NEW d \in Calls, NEW g \in Fields, Fresh(d, g)'
               PROVE  /\ freed[<< d, g >>] = 0
                      /\ \A u \in Calls : tables'[u][g] # d
                      /\ \A e \in DOMAIN calls : ~Taken(e, d, g)'
    BY <1>1 DEF FreshInv
  <2>1. /\ freed[<< d, g >>] = 0
        /\ \A u \in Calls : tables[u][g] # d
        /\ \A e \in DOMAIN calls : ~Taken(e, d, g)
        /\ ~(d = c /\ g = f) /\ ~(d = old /\ g = f)
    BY <1>3, <1>5 DEF FreshInv
  <2> QED
    BY <1>1, <1>2, <2>1
<1>8. KeptInv'
  <2> SUFFICES ASSUME NEW d \in DOMAIN calls, Writes(calls'[d]), calls'[d].key \notin raced',
                      NEW g \in Written(d)'
               PROVE  Kept(d, g)'
    BY <1>1 DEF KeptInv
  <2>1. CASE g \in Written(d)
    <3>1. Kept(d, g) /\ g \in Fields
      BY <2>1, FieldOthers, WrittenFields DEF KeptInv
    <3>2. CASE \E u \in Calls : tables[u][g] = d /\ Linked(u)
      <4>1. PICK u \in Calls : tables[u][g] = d /\ Linked(u)
        BY <3>2
      <4>2. CASE u = t /\ g = f
        BY <1>1, <1>2, <4>1, <4>2 DEF Kept, old
      <4>3. CASE u # t \/ g # f
        BY <1>1, <3>1, <4>1, <4>3 DEF Kept
      <4> QED
        BY <4>2, <4>3
    <3> QED
      BY <1>1, <1>2, <3>1, <3>2 DEF Kept
  <2>2. CASE g \notin Written(d)
    <3>1. d = c /\ g = f /\ tables'[t][f] = c /\ Linked(t)
      BY <2>2, FieldOthers
    <3> QED
      BY <1>1, <3>1 DEF Kept
  <2> QED
    BY <2>1, <2>2
<1>9. OnceInv'
  BY DEF OnceInv
<1> QED
  BY <1>6, <1>7, <1>8, <1>9, FieldInv

(* A string that nobody else has is deleted: the one that was to be        *)
(* inserted, or the one that was replaced.                                 *)
LEMMA DropInv ==
  ASSUME TypeInv, CallInv, OnceInv, OpenInv, NEW c \in Active, NEW t, NEW f, WritesField(c, t, f),
         tables' = tables, NEW s \in DOMAIN calls, DeleteStrings({<< s, f >>}),
         Taken(c, s, f) \/ (s = c /\ Fresh(c, f)),
         \A e, g : ~Taken(c, e, g)',
         \A e, g : Taken(c, e, g) => e = s /\ g = f,
         \A g : Fresh(c, g)' => Fresh(c, g) /\ g # f
  PROVE  TypeInv' /\ CallInv' /\ OnceInv' /\ OpenInv'
<1> USE DEF OpenInv
<1>1. /\ DOMAIN calls' = DOMAIN calls /\ DOMAIN calls \subseteq Calls /\ c \in DOMAIN calls
      /\ c # 0 /\ t \in Calls /\ f \in Fields
      /\ \A u : Linked(u)' <=> Linked(u)
      /\ \A u : Reached(u)' => Reached(u)
      /\ \A d \in DOMAIN calls : ~Deleting(d)
  BY FieldOthers
<1>2. \A d \in DOMAIN calls : \A e, g : Taken(d, e, g)' <=> Taken(d, e, g) /\ d # c
  BY FieldOthers
<1>3. \A d, g : Fresh(d, g)' => Fresh(d, g) /\ ~(d = c /\ g = f)
  BY FieldOthers
<1>4. /\ freed[<< s, f >>] = 0
      /\ \A u \in Calls : tables[u][f] # s
      /\ \A d \in DOMAIN calls : Taken(d, s, f) => d = c
      /\ Fresh(s, f) => s = c
  <2>1. CASE Taken(c, s, f)
    BY <1>1, <2>1 DEF OwnerInv, FreshInv
  <2>2. CASE s = c /\ Fresh(c, f)
    BY <1>1, <2>2 DEF FreshInv
  <2> QED
    BY <2>1, <2>2
<1>5. /\ freed'[<< s, f >>] = 1
      /\ \A d \in Calls, g \in Fields : ~(d = s /\ g = f) => freed'[<< d, g >>] = freed[<< d, g >>]
  BY <1>1, <1>4 DEF DeleteStrings, TypeInv
<1>6. OwnerInv'
  <2>1. \A u \in Calls, g \in Fields :
          tables[u][g] # 0 /\ Reached(u)' => freed'[<< tables[u][g], g >>] = 0
    BY <1>1, <1>4, <1>5 DEF OwnerInv
  <2>2. ASSUME NEW d \in DOMAIN calls, NEW e, NEW g, Taken(d, e, g)'
        PROVE  /\ e \in DOMAIN calls /\ g \in Fields /\ freed'[<< e, g >>] = 0
               /\ \A u \in Calls : tables[u][g] # e
               /\ \A h \in DOMAIN calls : Taken(h, e, g)' => h = d
    <3>1. /\ e \in DOMAIN calls /\ g \in Fields /\ freed[<< e, g >>] = 0
          /\ \A u \in Calls : tables[u][g] # e
          /\ \A h \in DOMAIN calls : Taken(h, e, g) => h = d
          /\ ~(e = s /\ g = f)
      BY <1>2, <1>4, <2>2 DEF OwnerInv
    <3> QED
      BY <1>1, <1>2, <1>5, <3>1
  <2> QED
    BY <1>1, <2>1, <2>2 DEF OwnerInv
<1>7. FreshInv'
  <2> SUFFICES ASSUME NEW d \in Calls, NEW g \in Fields, Fresh(d, g)'
               PROVE  /\ freed'[<< d, g >>] = 0
                      /\ \A u \in Calls : tables[u][g] # d
                      /\ \A e \in DOMAIN calls : ~Taken(e, d, g)'
    BY <1>1 DEF FreshInv
  <2>1. /\ freed[<< d, g >>] = 0
        /\ \A u \in Calls : tables[u][g] # d
        /\ \A e \in DOMAIN calls : ~Taken(e, d, g)
        /\ ~(d = s /\ g = f)
    BY <1>3, <1>4 DEF FreshInv
  <2> QED
    BY <1>2, <1>5, <2>1
<1>8. KeptInv'
  <2> SUFFICES ASSUME NEW d \in DOMAIN calls, Writes(calls'[d]), calls'[d].key \notin raced',
                      NEW g \in Written(d)'
               PROVE  Kept(d, g)'
    BY <1>1 DEF KeptInv
  <2>1. CASE g \in Written(d)
    <3>1. Kept(d, g) /\ g \in Fields
      BY <2>1, FieldOthers, WrittenFields DEF KeptInv
    <3>2. CASE d = s /\ g = f
      BY <1>5, <3>2 DEF Kept
    <3>3. CASE ~(d = s /\ g = f)
      <4>1. freed'[<< d, g >>] = freed[<< d, g >>]
        BY <1>1, <1>5, <3>1, <3>3
      <4>2. \A e \in DOMAIN calls : Taken(e, d, g) => Taken(e, d, g)'
        BY <1>2, <3>3
      <4> QED
        BY <1>1, <3>1, <4>1, <4>2 DEF Kept
    <3> QED
      BY <3>2, <3>3
  <2>2. CASE g \notin Written(d)
    <3>1. d = c /\ g = f /\ tables'[t][f] = c /\ Linked(t)
      BY <2>2, FieldOthers
    <3> QED
      BY <1>1, <3>1 DEF Kept
  <2> QED
    BY <2>1, <2>2
<1>9. OnceInv'
  <2> SUFFICES ASSUME NEW d \in Calls, NEW g \in Fields
               PROVE  freed'[<< d, g >>] <= 1
    BY DEF OnceInv
  <2> QED
    BY <1>5 DEF OnceInv
<1> QED
  BY <1>6, <1>7, <1>8, <1>9, FieldInv

(* A change of one field of one table.                                     *)
Puts(t, f, v) == tables' = [tables EXCEPT ![t] = [tables[t] EXCEPT ![f] = v]]
Inserts(t, f, v) == tables' = [tables EXCEPT ![t] = Insert(tables[t], f, v)]
Updates(t, f, v) == tables' = [tables EXCEPT ![t] = Update(tables[t], f, v)]

(* All other fields of all tables stay.                                    *)
LEMMA OneField ==
  ASSUME TypeInv, NEW t \in Calls, NEW f \in Fields, NEW v \in 0 .. MaxCalls,
         Puts(t, f, v)
  PROVE  /\ tables' \in [Calls -> [Fields -> 0 .. MaxCalls]]
         /\ tables'[t][f] = v
         /\ \A u \in Calls, g \in Fields : u # t \/ g # f => tables'[u][g] = tables[u][g]
BY DEF TypeInv, Puts

(* The string of call c into field f of table t, if the field is empty ... *)
LEMMA InsertIs ==
  ASSUME TypeInv, NEW t \in Calls, NEW f \in Fields, NEW c \in Calls, Inserts(t, f, c)
  PROVE  /\ tables' \in [Calls -> [Fields -> 0 .. MaxCalls]]
         /\ tables[t][f] = 0 => tables'[t][f] = c
         /\ tables[t][f] # 0 => tables' = tables
         /\ tables'[t][f] \in {tables[t][f], c}
         /\ \A u \in Calls, g \in Fields : u # t \/ g # f => tables'[u][g] = tables[u][g]
<1>1. c \in 0 .. MaxCalls
  BY HashtableDBAssumption DEF Calls
<1>2. [tables EXCEPT ![t] = tables[t]] = tables
  BY DEF TypeInv
<1>3. CASE tables[t][f] = 0
  <2>1. Puts(t, f, c)
    BY <1>3 DEF Insert, Inserts, Puts
  <2> QED
    BY <1>1, <1>3, <2>1, OneField
<1>4. CASE tables[t][f] # 0
  <2>1. tables' = tables
    BY <1>2, <1>4 DEF Insert, Inserts, Puts
  <2> QED
    BY <1>4, <2>1 DEF TypeInv
<1> QED
  BY <1>3, <1>4

(* ... or if it is not.                                                    *)
LEMMA UpdateIs ==
  ASSUME TypeInv, NEW t \in Calls, NEW f \in Fields, NEW c \in Calls, Updates(t, f, c)
  PROVE  /\ tables' \in [Calls -> [Fields -> 0 .. MaxCalls]]
         /\ tables[t][f] # 0 => tables'[t][f] = c
         /\ tables[t][f] = 0 => tables' = tables
         /\ tables'[t][f] \in {tables[t][f], c}
         /\ \A u \in Calls, g \in Fields : u # t \/ g # f => tables'[u][g] = tables[u][g]
<1>1. c \in 0 .. MaxCalls
  BY HashtableDBAssumption DEF Calls
<1>2. [tables EXCEPT ![t] = tables[t]] = tables
  BY DEF TypeInv
<1>3. CASE tables[t][f] # 0
  <2>1. Puts(t, f, c)
    BY <1>3 DEF Update, Updates, Puts
  <2> QED
    BY <1>1, <1>3, <2>1, OneField
<1>4. CASE tables[t][f] = 0
  <2>1. tables' = tables
    BY <1>2, <1>4 DEF Update, Updates, Puts
  <2> QED
    BY <1>4, <2>1 DEF TypeInv
<1> QED
  BY <1>3, <1>4

(* The call goes on to the next field, or returns kOK.                     *)
LEMMA NextStep ==
  ASSUME TypeInv, CallInv, OpenInv, NEW c \in Active, NEW t, NEW f,
         Writes(calls[c]), calls[c].pc \in {"write", "add", "free"},
         t = calls[c].table, f = Field(c), Set(c, NextField(calls[c])),
         UNCHANGED << key_table, raced, destroyed >>,
         tables' \in [Calls -> [Fields -> 0 .. MaxCalls]],
         freed' \in [Calls \X Fields -> Nat],
         \A u \in Calls, g \in Fields : u # t \/ g # f => tables'[u][g] = tables[u][g],
         tables'[t][f] \in {tables[t][f], c},
         calls[c].key \notin raced /\ calls[c].pc # "free" => tables'[t][f] = c
  PROVE  /\ WritesField(c, t, f)
         /\ \A e, g : ~Taken(c, e, g)'
         /\ \A g : Fresh(c, g)' => Fresh(c, g) /\ g # f
<1> DEFINE x == calls[c]
           y == NextField(x)
<1>1. /\ c \in DOMAIN calls /\ WriterOK(c, x) /\ DOMAIN x = Parts /\ t \in Calls
      /\ f \in Fields /\ f \notin Elements(Tail(x.todo))
      /\ Elements(x.todo) = Elements(Tail(x.todo)) \cup {f}
      /\ Elements(x.todo) \subseteq Fields
      /\ x.key \notin raced => OnRecord(c) /\ t = key_table[x.key]
  BY FieldFacts
<1>2. x.todo \in Seq(Fields) /\ x.todo # << >> /\ OneToOne(x.todo)
  BY <1>1 DEF WriterOK
<1>3. Tail(x.todo) \in Seq(Fields) /\ OneToOne(Tail(x.todo))
  BY <1>2, Fields1
<1>4. /\ DOMAIN y = Parts
      /\ y.op = x.op /\ y.key = x.key /\ y.prior = x.prior /\ y.fields = x.fields
      /\ y.table = x.table /\ y.new = x.new
      /\ y.todo = Tail(x.todo)
      /\ Tail(x.todo) = << >> => y.pc = "done"
      /\ Tail(x.todo) # << >> => y.pc = "write" /\ y.rv = x.rv
  BY <1>1, <1>2, NextFieldIs
<1> HIDE DEF y
<1>5. Evolves(c) /\ calls'[c] = y
  BY <1>4, SetEvolves DEF y
<1>6. y.pc \in {"write", "done"}
  BY <1>4
<1>7. WriterOK(c, y)
  BY <1>1, <1>3, <1>4, <1>6 DEF WriterOK
<1>8. Unwritten(c)' = Elements(Tail(x.todo))
  BY <1>4, <1>5, <1>6 DEF Unwritten
<1>9. /\ x.pc = "free" => Unwritten(c) = Elements(Tail(x.todo))
      /\ x.pc # "free" => Unwritten(c) = Elements(Tail(x.todo)) \cup {f}
  BY <1>1 DEF Unwritten
<1>10. /\ Written(c)' \subseteq Written(c) \cup {f}
       /\ x.pc = "free" => Written(c)' = Written(c)
  BY <1>4, <1>5, <1>8, <1>9 DEF Written
<1>11. \A e, g : ~Taken(c, e, g)'
  BY <1>5, <1>6 DEF Taken
<1>12. \A g : Fresh(c, g)' => Fresh(c, g) /\ g # f
  BY <1>1, <1>5, <1>8, <1>9 DEF Fresh, Evolves
<1>13. x.key \notin raced => OnRecord(c)'
  <2> SUFFICES ASSUME x.key \notin raced
               PROVE  OnRecord(c)'
    OBVIOUS
  <2>1. y.pc = "write" /\ y.new = TRUE => \A g \in Elements(Tail(x.todo)) : tables'[t][g] = 0
    <3> SUFFICES ASSUME y.pc = "write", y.new = TRUE, NEW g \in Elements(Tail(x.todo))
                 PROVE  tables'[t][g] = 0
      OBVIOUS
    <3>1. x.pc = "write" /\ x.new = TRUE
      BY <1>1, <1>4 DEF WriterOK
    <3>2. tables[t][g] = 0
      BY <1>1, <3>1 DEF OnRecord
    <3>3. g \in Fields /\ g # f
      BY <1>1
    <3> QED
      BY <1>1, <3>2, <3>3
  <2>2. calls'[c].pc \in {"write", "done"} /\ calls'[c].table = t /\ calls'[c].todo = Tail(x.todo)
        /\ calls'[c].key = x.key /\ calls'[c].new = y.new /\ calls'[c].pc = y.pc
    BY <1>4, <1>5, <1>6
  <2> QED
    BY <1>1, <2>1, <2>2 DEF OnRecord
<1>14. x.key \notin raced /\ f \in Written(c)' /\ f \notin Written(c) => tables'[t][f] = c
  BY <1>10
<1>15. WritesField(c, t, f)
  BY <1>4, <1>5, <1>6, <1>7, <1>10, <1>13, <1>14 DEF WritesField
<1> QED
  BY <1>11, <1>12, <1>15

(* The string of a call that is about to write a field is new.             *)
LEMMA AboutToWrite ==
  ASSUME TypeInv, CallInv, OpenInv, NEW c \in Active,
         Writes(calls[c]), calls[c].pc \in {"write", "add"}
  PROVE  /\ Fresh(c, Field(c)) /\ \A e, g : ~Taken(c, e, g)
<1>1. Field(c) \in Elements(calls[c].todo)
  BY FieldFacts
<1> QED
  BY <1>1 DEF Fresh, Unwritten, Taken

(* A field of an insertion, or of a record the update has made.            *)
LEMMA InsertFieldInv ==
  ASSUME TypeInv, CallInv, OnceInv, OpenInv, NEW c \in Active, InsertField(c)
  PROVE  TypeInv' /\ CallInv' /\ OnceInv' /\ OpenInv'
<1> DEFINE x == calls[c]
<1>0. PICK t, f : t = x.table /\ f = Field(c)
  OBVIOUS
<1>1. /\ Writes(x) /\ x.pc = "write" /\ (x.op = "Insert" \/ (x.op = "Update" /\ x.new))
      /\ Inserts(t, f, c)
      /\ Set(c, IF tables[t][f] = 0 \/ x.op = "Update" THEN NextField(x)
                ELSE Return(x, "kErrorConflict"))
      /\ DeleteStrings(IF tables[t][f] = 0 \/ x.op = "Update" THEN {} ELSE {<< c, f >>})
      /\ UNCHANGED << key_table, raced, destroyed >>
  BY <1>0 DEF InsertField, Inserts, At, Writes
<1>2. /\ c \in DOMAIN calls /\ c \in Calls /\ WriterOK(c, x) /\ DOMAIN x = Parts
      /\ t \in Calls /\ f \in Fields /\ f \in Elements(x.todo) /\ x.todo # << >>
      /\ x.key \notin raced => OnRecord(c) /\ t = key_table[x.key]
  BY <1>0, <1>1, FieldFacts DEF WriterOK
<1>3. Fresh(c, f) /\ \A e, g : ~Taken(c, e, g)
  BY <1>0, <1>1, AboutToWrite
<1>4. /\ tables' \in [Calls -> [Fields -> 0 .. MaxCalls]]
      /\ tables[t][f] = 0 => tables'[t][f] = c
      /\ tables[t][f] # 0 => tables' = tables
      /\ tables'[t][f] \in {tables[t][f], c}
      /\ \A u \in Calls, g \in Fields : u # t \/ g # f => tables'[u][g] = tables[u][g]
  BY <1>1, <1>2, InsertIs
<1>5. CASE tables[t][f] = 0 \/ x.op = "Update"
  <2>1. freed' = freed
    BY <1>1, <1>5 DEF DeleteStrings, TypeInv
  <2>2. x.key \notin raced => tables[t][f] = 0
    BY <1>1, <1>2, <1>5 DEF OnRecord, WriterOK
  <2>3. /\ tables' \in [Calls -> [Fields -> 0 .. MaxCalls]]
        /\ freed' \in [Calls \X Fields -> Nat]
        /\ \A u \in Calls, g \in Fields : u # t \/ g # f => tables'[u][g] = tables[u][g]
        /\ tables'[t][f] \in {tables[t][f], c}
        /\ tables[t][f] = 0 => tables'[t][f] = c
        /\ tables[t][f] # 0 => tables'[t][f] = tables[t][f]
    BY <1>4, <2>1 DEF TypeInv
  <2>4. Set(c, NextField(x))
    BY <1>1, <1>5
  <2>5. /\ WritesField(c, t, f)
        /\ \A e, g : ~Taken(c, e, g)'
        /\ \A g : Fresh(c, g)' => Fresh(c, g) /\ g # f
    BY <1>0, <1>1, <2>2, <2>3, <2>4, NextStep
  <2> QED
    BY <1>3, <2>1, <2>3, <2>5, PutInv
<1>6. CASE tables[t][f] # 0 /\ x.op = "Insert"
  <2> DEFINE y == Return(x, "kErrorConflict")
  <2>1. /\ DOMAIN y = Parts /\ y.op = x.op /\ y.key = x.key /\ y.prior = x.prior
        /\ y.fields = x.fields /\ y.todo = x.todo /\ y.table = x.table /\ y.new = x.new
        /\ y.pc = "done" /\ y.rv = "kErrorConflict"
    BY <1>2 DEF Return, Parts
  <2>2. Set(c, y) /\ DeleteStrings({<< c, f >>}) /\ tables' = tables
    BY <1>1, <1>4, <1>6
  <2> HIDE DEF y
  <2>3. Evolves(c) /\ calls'[c] = y
    BY <2>1, <2>2, SetEvolves
  <2>4. WriterOK(c, y)
    BY <1>2, <2>1 DEF WriterOK
  <2>5. Unwritten(c)' = Unwritten(c) /\ Written(c)' = Written(c)
    BY <1>1, <2>1, <2>3 DEF Unwritten, Written
  <2>6. c \notin Active' /\ (\A e, g : ~Taken(c, e, g)')
    BY <2>1, <2>3 DEF Active, Taken
  <2>7. \A g : ~Fresh(c, g)'
    BY <1>2, <2>3, <2>6 DEF Fresh, Evolves
  <2>8. freed' \in [Calls \X Fields -> Nat]
    BY <2>2 DEF DeleteStrings, TypeInv
  <2>9. WritesField(c, t, f)
    BY <1>0, <1>1, <2>1, <2>2, <2>3, <2>4, <2>5, <2>8 DEF WritesField, TypeInv
  <2> QED
    BY <1>2, <1>3, <2>2, <2>6, <2>7, <2>9, DropInv
<1> QED
  BY <1>1, <1>5, <1>6 DEF Writes

(* A field of a record that was there.                                     *)
LEMMA UpdateFieldInv ==
  ASSUME TypeInv, CallInv, OnceInv, OpenInv, NEW c \in Active, UpdateField(c)
  PROVE  TypeInv' /\ CallInv' /\ OnceInv' /\ OpenInv'
<1> DEFINE x == calls[c]
<1>0. PICK t, f : t = x.table /\ f = Field(c)
  OBVIOUS
<1> DEFINE old == tables[t][f]
           y == [x EXCEPT !.old = old, !.pc = IF old = 0 THEN "add" ELSE "free"]
<1>1. /\ Writes(x) /\ x.pc = "write" /\ x.op = "Update" /\ ~x.new
      /\ Updates(t, f, c)
      /\ Set(c, y)
      /\ UNCHANGED << key_table, freed, raced, destroyed >>
  BY <1>0 DEF UpdateField, Updates, At, Writes, Get
<1>2. /\ c \in DOMAIN calls /\ c \in Calls /\ WriterOK(c, x) /\ DOMAIN x = Parts
      /\ t \in Calls /\ f \in Fields /\ f \notin Elements(Tail(x.todo))
      /\ Elements(x.todo) = Elements(Tail(x.todo)) \cup {f}
      /\ x.key \notin raced => OnRecord(c) /\ t = key_table[x.key]
  BY <1>0, <1>1, FieldFacts
<1>3. Fresh(c, f) /\ \A e, g : ~Taken(c, e, g)
  BY <1>0, <1>1, AboutToWrite
<1>4. /\ tables' \in [Calls -> [Fields -> 0 .. MaxCalls]]
      /\ tables[t][f] # 0 => tables'[t][f] = c
      /\ tables[t][f] = 0 => tables' = tables
      /\ tables'[t][f] \in {tables[t][f], c}
      /\ \A u \in Calls, g \in Fields : u # t \/ g # f => tables'[u][g] = tables[u][g]
  BY <1>1, <1>2, UpdateIs
<1>5. /\ DOMAIN y = Parts /\ y.op = x.op /\ y.key = x.key /\ y.prior = x.prior
      /\ y.fields = x.fields /\ y.todo = x.todo /\ y.table = x.table /\ y.new = x.new
      /\ y.old = old /\ y.rv = x.rv
      /\ old = 0 => y.pc = "add"
      /\ old # 0 => y.pc = "free"
  BY <1>2 DEF Parts
<1> HIDE DEF y, old
<1>6. Evolves(c) /\ calls'[c] = y
  BY <1>1, <1>5, SetEvolves
<1>7. x.new = FALSE
  BY <1>1, <1>2 DEF WriterOK
<1>8. WriterOK(c, y) /\ y.pc \in {"add", "free"}
  BY <1>1, <1>2, <1>5, <1>7 DEF WriterOK
<1>9. Unwritten(c) = Elements(x.todo)
  BY <1>1 DEF Unwritten
<1>10. CASE old = 0
  <2>1. tables' = tables
    BY <1>4, <1>10 DEF old
  <2>2. Unwritten(c)' = Unwritten(c) /\ Written(c)' = Written(c)
    BY <1>5, <1>6, <1>9, <1>10 DEF Unwritten, Written
  <2>3. \A e, g : ~Taken(c, e, g)'
    BY <1>5, <1>6, <1>10 DEF Taken
  <2>4. \A g : Fresh(c, g)' => Fresh(c, g)
    BY <1>1, <1>2, <1>6, <2>2 DEF Fresh, Evolves
  <2>5. x.key \notin raced => OnRecord(c)'
    BY <1>0, <1>1, <1>2, <1>5, <1>6, <1>10, <2>1 DEF OnRecord, Field, old
  <2>6. WritesField(c, t, f)
    BY <1>0, <1>1, <1>5, <1>6, <1>8, <2>1, <2>2, <2>5 DEF WritesField, TypeInv
  <2> QED
    BY <1>1, <1>3, <2>1, <2>3, <2>4, <2>6, PutInv
<1>11. CASE old # 0
  <2>1. /\ tables' \in [Calls -> [Fields -> 0 .. MaxCalls]]
        /\ tables'[t][f] = c
        /\ \A u \in Calls, g \in Fields : u # t \/ g # f => tables'[u][g] = tables[u][g]
    BY <1>4, <1>11 DEF old
  <2>2. Unwritten(c)' = Elements(Tail(x.todo))
    BY <1>5, <1>6, <1>11 DEF Unwritten
  <2>3. Written(c)' \subseteq Written(c) \cup {f}
    BY <1>2, <1>5, <1>6, <1>9, <2>2 DEF Written
  <2>4. \A e, g : Taken(c, e, g)' <=> e = old /\ g = f
    BY <1>0, <1>1, <1>5, <1>6, <1>11 DEF Taken, Field
  <2>5. \A g : Fresh(c, g)' => Fresh(c, g) /\ g # f
    BY <1>1, <1>2, <1>6, <1>9, <2>2 DEF Fresh, Evolves
  <2>6. x.key \notin raced => OnRecord(c)'
    BY <1>0, <1>1, <1>2, <1>5, <1>6, <1>11 DEF OnRecord
  <2>7. WritesField(c, t, f)
    BY <1>0, <1>1, <1>5, <1>6, <1>8, <2>1, <2>3, <2>6 DEF WritesField, TypeInv
  <2> QED
    BY <1>1, <1>3, <1>11, <2>1, <2>4, <2>5, <2>7, SwapInv DEF old
<1> QED
  BY <1>10, <1>11

(* A field that was not there is added.                                    *)
LEMMA AddFieldInv ==
  ASSUME TypeInv, CallInv, OnceInv, OpenInv, NEW c \in Active, AddField(c)
  PROVE  TypeInv' /\ CallInv' /\ OnceInv' /\ OpenInv'
<1> DEFINE x == calls[c]
<1>0. PICK t, f : t = x.table /\ f = Field(c)
  OBVIOUS
<1>1. /\ Writes(x) /\ x.pc = "add"
      /\ Inserts(t, f, c)
      /\ Set(c, NextField(x))
      /\ UNCHANGED << key_table, freed, raced, destroyed >>
  BY <1>0 DEF AddField, Inserts, At, Writes
<1>2. /\ c \in Calls /\ t \in Calls /\ f \in Fields
      /\ x.key \notin raced => OnRecord(c) /\ t = key_table[x.key]
  BY <1>0, <1>1, FieldFacts
<1>3. Fresh(c, f) /\ \A e, g : ~Taken(c, e, g)
  BY <1>0, <1>1, AboutToWrite
<1>4. /\ tables' \in [Calls -> [Fields -> 0 .. MaxCalls]]
      /\ tables[t][f] = 0 => tables'[t][f] = c
      /\ tables[t][f] # 0 => tables' = tables
      /\ tables'[t][f] \in {tables[t][f], c}
      /\ \A u \in Calls, g \in Fields : u # t \/ g # f => tables'[u][g] = tables[u][g]
  BY <1>1, <1>2, InsertIs
<1>5. x.key \notin raced => tables[t][f] = 0
  BY <1>0, <1>1, <1>2 DEF OnRecord
<1>6. /\ tables' \in [Calls -> [Fields -> 0 .. MaxCalls]]
      /\ freed' \in [Calls \X Fields -> Nat]
      /\ \A u \in Calls, g \in Fields : u # t \/ g # f => tables'[u][g] = tables[u][g]
      /\ tables'[t][f] \in {tables[t][f], c}
      /\ tables[t][f] = 0 => tables'[t][f] = c
      /\ tables[t][f] # 0 => tables'[t][f] = tables[t][f]
  BY <1>1, <1>4 DEF TypeInv
<1>7. /\ WritesField(c, t, f)
      /\ \A e, g : ~Taken(c, e, g)'
      /\ \A g : Fresh(c, g)' => Fresh(c, g) /\ g # f
  BY <1>0, <1>1, <1>5, <1>6, NextStep
<1> QED
  BY <1>1, <1>3, <1>6, <1>7, PutInv

(* The string that was replaced is deleted.                                *)
LEMMA DeleteOldInv ==
  ASSUME TypeInv, CallInv, OnceInv, OpenInv, NEW c \in Active, DeleteOld(c)
  PROVE  TypeInv' /\ CallInv' /\ OnceInv' /\ OpenInv'
<1> DEFINE x == calls[c]
<1>0. PICK t, f, s : t = x.table /\ f = Field(c) /\ s = x.old
  OBVIOUS
<1>1. /\ Writes(x) /\ x.op = "Update" /\ x.pc = "free"
      /\ DeleteStrings({<< s, f >>}) /\ Set(c, NextField(x))
      /\ UNCHANGED << key_table, tables, raced, destroyed >>
  BY <1>0 DEF DeleteOld, At, Writes
<1>2. c \in DOMAIN calls
  BY DEF Active
<1>3. /\ Taken(c, s, f)
      /\ \A e, g : Taken(c, e, g) => e = s /\ g = f
  BY <1>0, <1>1 DEF Taken
<1>4. s \in DOMAIN calls
  BY <1>2, <1>3 DEF OpenInv, OwnerInv
<1>5. freed' \in [Calls \X Fields -> Nat]
  BY <1>1 DEF DeleteStrings, TypeInv
<1>6. /\ WritesField(c, t, f)
      /\ \A e, g : ~Taken(c, e, g)'
      /\ \A g : Fresh(c, g)' => Fresh(c, g) /\ g # f
  BY <1>0, <1>1, <1>5, NextStep DEF TypeInv
<1> QED
  BY <1>1, <1>3, <1>4, <1>6, DropInv

-------------------------------------------------------------------------------
(* Delete.                                                                 *)

(* A deletion runs alone.                                                  *)
LEMMA Deleter ==
  ASSUME TypeInv, CallInv, OpenInv, NEW c \in Active, calls[c].op = "Delete"
  PROVE  /\ c \in DOMAIN calls /\ DOMAIN calls \ {c} \subseteq calls[c].prior
         /\ DOMAIN calls \subseteq Calls /\ 0 \notin DOMAIN calls
         /\ CallOK(c) /\ DOMAIN calls[c] = Parts /\ calls[c].key \in Keys /\ ~Writes(calls[c])
         /\ \A d \in DOMAIN calls : d # c => calls[d].pc = "done" /\ ~Holds(d) /\ ~Deleting(d)
         /\ \A d \in DOMAIN calls : \A e, f : ~Taken(d, e, f)
         /\ \A k : ~Made(c, k)
<1>1. c \in DOMAIN calls /\ Active = {c} /\ DOMAIN calls \ {c} \subseteq calls[c].prior
  BY DEF Active, OpenInv, AloneInv
<1>2. DOMAIN calls \subseteq Calls /\ 0 \notin DOMAIN calls
  BY CallsAre, HashtableDBAssumption DEF TypeInv, Calls
<1>3. CallOK(c) /\ DOMAIN calls[c] = Parts /\ calls[c].key \in Keys /\ ~Writes(calls[c])
  BY <1>1 DEF CallInv, CallOK, Writes
<1>4. \A d \in DOMAIN calls : d # c => calls[d].pc = "done"
  BY <1>1 DEF Active
<1>5. \A d \in DOMAIN calls : d # c => ~Holds(d) /\ ~Deleting(d)
  BY <1>4 DEF Holds, Deleting
<1>6. \A d \in DOMAIN calls : \A e, f : ~Taken(d, e, f)
  BY <1>4 DEF Taken
<1>7. \A k : ~Made(c, k)
  BY <1>3 DEF Made
<1> QED
  BY <1>1, <1>2, <1>3, <1>4, <1>5, <1>6, <1>7

(* What a step of a deletion leaves alone.                                 *)
LEMMA DeleterStep ==
  ASSUME TypeInv, CallInv, OpenInv, NEW c \in Active, calls[c].op = "Delete",
         Evolves(c), calls'[c].pc \in {"destroy", "done"}, raced' = raced
  PROVE  /\ DOMAIN calls' = DOMAIN calls
         /\ CallInv' /\ AloneInv' /\ RaceInv'
         /\ \A d \in DOMAIN calls : d # c => ~Holds(d)' /\ ~Deleting(d)'
         /\ Holds(c)' <=> calls'[c].pc = "destroy"
         /\ Deleting(c)' <=> calls'[c].pc = "destroy"
         /\ \A d \in DOMAIN calls : \A e, f : ~Taken(d, e, f)'
         /\ \A t, k : Made(t, k)' <=> Made(t, k)
         /\ \A d, f : Fresh(d, f)' => Fresh(d, f)
         /\ \A d \in DOMAIN calls : Writes(calls'[d]) =>
              /\ Writes(calls[d]) /\ d # c /\ Written(d)' = Written(d)
              /\ calls'[d].key = calls[d].key /\ calls'[d].prior = calls[d].prior
         /\ \A d \in DOMAIN calls : Deleted(d, DOMAIN calls)' <=> Deleted(d, DOMAIN calls)
<1> USE DEF OpenInv
<1>1. DOMAIN calls' = DOMAIN calls /\ calls'[c].op = "Delete" /\ ~Writes(calls'[c])
  BY DEF Evolves, Writes
<1>2. /\ c \in DOMAIN calls /\ CallOK(c) /\ ~Writes(calls[c]) /\ (\A k : ~Made(c, k))
      /\ \A d \in DOMAIN calls : d # c => calls[d].pc = "done" /\ ~Holds(d) /\ ~Deleting(d)
      /\ \A d \in DOMAIN calls : \A e, f : ~Taken(d, e, f)
  BY Deleter
<1>3. CallOK(c)'
  <2>1. Active' \subseteq Active
    BY Undisturbed
  <2> QED
    BY <1>1, <1>2, <2>1 DEF CallOK, Evolves
<1>4. CallInv' /\ AloneInv'
  BY <1>1, <1>3, Undisturbed DEF CallInv
<1>5. /\ \A d \in DOMAIN calls : d # c => ~Holds(d)' /\ ~Deleting(d)'
      /\ \A d \in DOMAIN calls : d # c => \A e, f : ~Taken(d, e, f)'
  BY <1>2, Undisturbed
<1>6. /\ Holds(c)' <=> calls'[c].pc = "destroy"
      /\ Deleting(c)' <=> calls'[c].pc = "destroy"
      /\ \A e, f : ~Taken(c, e, f)'
      /\ \A k : ~Made(c, k)'
  BY <1>1 DEF Holds, Deleting, Taken, Made
<1>7. \A t, k : Made(t, k)' <=> Made(t, k)
  <2>1. \A t, k : Made(t, k) \/ Made(t, k)' => t \in DOMAIN calls
    BY <1>1 DEF Made
  <2> QED
    BY <1>2, <1>6, <2>1, Undisturbed
<1>8. \A d, f : Fresh(d, f)' => Fresh(d, f)
  <2>1. \A f : ~Fresh(c, f)'
    BY <1>1, <1>2 DEF Fresh
  <2>2. \A d, f : d \notin DOMAIN calls => Fresh(d, f)
    BY DEF Fresh
  <2> QED
    BY <2>1, <2>2, Undisturbed
<1>9. \A d, k : ~Writer(d, k)'
  <2>1. \A d \in Active' : d = c
    BY <1>1, <1>2, Undisturbed DEF Active
  <2> QED
    BY <1>1, <2>1 DEF Writer
<1>10. RaceInv'
  BY <1>9 DEF RaceInv
<1>11. \A d \in DOMAIN calls : Writes(calls'[d]) =>
         /\ Writes(calls[d]) /\ d # c /\ Written(d)' = Written(d)
         /\ calls'[d].key = calls[d].key /\ calls'[d].prior = calls[d].prior
  BY <1>1, Undisturbed
<1>12. \A d \in DOMAIN calls : Deleted(d, DOMAIN calls)' <=> Deleted(d, DOMAIN calls)
  BY Undisturbed
<1> QED
  BY <1>1, <1>4, <1>5, <1>6, <1>7, <1>8, <1>10, <1>11, <1>12

(* The field table is taken out of the key table.                          *)
LEMMA RemoveRecordInv ==
  ASSUME TypeInv, CallInv, OnceInv, OpenInv, NEW c \in Active, RemoveRecord(c)
  PROVE  TypeInv' /\ CallInv' /\ OnceInv' /\ OpenInv'
<1> USE DEF OpenInv
<1> DEFINE x == calls[c]
           t == key_table[x.key]
           y == IF t = 0 THEN Return(x, "kErrorNoData") ELSE [x EXCEPT !.pc = "destroy", !.table = t]
<1>1. /\ x.op = "Delete" /\ x.pc = "get" /\ Set(c, y)
      /\ key_table' = [key_table EXCEPT ![x.key] = 0]
      /\ UNCHANGED << tables, freed, raced, destroyed >>
  BY DEF RemoveRecord, At, Get, Remove
<1>2. /\ c \in DOMAIN calls /\ DOMAIN calls \ {c} \subseteq x.prior
      /\ DOMAIN calls \subseteq Calls /\ DOMAIN x = Parts /\ x.key \in Keys
      /\ \A d \in DOMAIN calls : d # c => ~Deleting(d)
      /\ \A d \in DOMAIN calls : \A e, f : ~Taken(d, e, f)
  BY <1>1, Deleter
<1>3. /\ DOMAIN y = Parts /\ y.op = x.op /\ y.key = x.key /\ y.prior = x.prior
      /\ y.fields = x.fields
      /\ t = 0 => y.pc = "done"
      /\ t # 0 => y.pc = "destroy" /\ y.table = t
  <2>1. CASE t = 0
    BY <1>2, <2>1 DEF Parts, Return
  <2>2. CASE t # 0
    BY <1>2, <2>2 DEF Parts
  <2> QED
    BY <2>1, <2>2
<1> HIDE DEF y
<1>4. Evolves(c) /\ calls'[c] = y
  BY <1>1, <1>3, SetEvolves
<1>5. y.pc \in {"destroy", "done"}
  BY <1>3
<1>6. /\ key_table' \in [Keys -> 0 .. MaxCalls] /\ key_table'[x.key] = 0
      /\ \A k \in Keys : k # x.key => key_table'[k] = key_table[k]
  BY <1>1, <1>2, HashtableDBAssumption DEF TypeInv
<1>7. /\ DOMAIN calls' = DOMAIN calls /\ CallInv' /\ AloneInv' /\ RaceInv'
      /\ \A d \in DOMAIN calls : d # c => ~Holds(d)' /\ ~Deleting(d)'
      /\ Holds(c)' <=> y.pc = "destroy"
      /\ Deleting(c)' <=> y.pc = "destroy"
      /\ \A d \in DOMAIN calls : \A e, f : ~Taken(d, e, f)'
      /\ \A u, k : Made(u, k)' <=> Made(u, k)
      /\ \A d, f : Fresh(d, f)' => Fresh(d, f)
      /\ \A d \in DOMAIN calls : Writes(calls'[d]) =>
           /\ Writes(calls[d]) /\ d # c /\ Written(d)' = Written(d)
           /\ calls'[d].key = calls[d].key /\ calls'[d].prior = calls[d].prior
      /\ \A d \in DOMAIN calls : Deleted(d, DOMAIN calls)' <=> Deleted(d, DOMAIN calls)
  BY <1>1, <1>4, <1>5, DeleterStep
<1>8. TypeInv' /\ OnceInv'
  BY <1>1, <1>4, <1>6 DEF TypeInv, OnceInv, Evolves
<1>9. TableInv'
  <2>1. \A k \in Keys : key_table'[k] # 0 => \A u : u = key_table'[k] => Made(u, k)'
    BY <1>6, <1>7 DEF TableInv
  <2>2. \A d \in DOMAIN calls : Holds(d)' => d = c /\ calls'[d].table = t /\ t # 0 /\ calls'[d].key = x.key
    BY <1>3, <1>4, <1>7
  <2>3. \A d \in DOMAIN calls : Holds(d)' =>
          \A u, k : u = calls'[d].table /\ k = calls'[d].key => Made(u, k)'
    BY <1>2, <1>7, <2>2 DEF TableInv
  <2>4. \A d \in DOMAIN calls : Deleting(d)' => key_table'[calls'[d].key] = 0
    BY <1>3, <1>4, <1>6, <1>7
  <2>5. \A u \in Calls : ~(\E k \in Keys : Made(u, k)') => \A f \in Fields : tables[u][f] = 0
    BY <1>7 DEF TableInv
  <2> QED
    BY <1>1, <1>7, <2>1, <2>3, <2>4, <2>5 DEF TableInv, Made
<1>10. \A u : Reached(u)' /\ u # 0 => Reached(u)
  BY <1>2, <1>3, <1>4, <1>6, <1>7 DEF Reached, Linked
<1>11. OwnerInv'
  <2>1. \A u \in Calls : u # 0
    BY HashtableDBAssumption DEF Calls
  <2> QED
    BY <1>1, <1>7, <1>10, <2>1 DEF OwnerInv
<1>12. FreshInv'
  BY <1>1, <1>7 DEF FreshInv
<1>13. ASSUME NEW d \in DOMAIN calls, NEW f, Kept(d, f)
       PROVE  Kept(d, f)'
  <2>1. CASE freed[<< d, f >>] = 1
    BY <1>1, <2>1 DEF Kept
  <2>2. CASE \E u \in Calls : tables[u][f] = d /\ Linked(u)
    <3>1. PICK u \in Calls, k \in Keys : tables[u][f] = d /\ key_table[k] = u /\ u # 0
      BY <2>2, HashtableDBAssumption DEF Linked, Calls
    <3>2. CASE k = x.key
      <4>1. Deleting(c)' /\ calls'[c].table = u
        BY <1>3, <1>4, <1>7, <3>1, <3>2
      <4> QED
        BY <1>1, <1>2, <1>7, <3>1, <4>1 DEF Kept
    <3>3. CASE k # x.key
      <4>1. Linked(u)'
        BY <1>6, <3>1, <3>3 DEF Linked
      <4> QED
        BY <1>1, <3>1, <4>1 DEF Kept
    <3> QED
      BY <3>2, <3>3
  <2>3. \A e \in DOMAIN calls : ~Deleting(e)
    BY <1>1, <1>2 DEF Deleting
  <2> QED
    BY <1>2, <1>13, <2>1, <2>2, <2>3 DEF Kept
<1>14. KeptInv'
  BY <1>1, <1>7, <1>13 DEF KeptInv
<1>15. ASSUME NEW d \in DOMAIN calls, Writes(calls'[d]), calls'[d].key \notin raced,
              ~Deleted(d, DOMAIN calls), NEW f \in Written(d)'
       PROVE  Current(d, f)'
  <2>1. /\ Writes(calls[d]) /\ d # c /\ Written(d)' = Written(d)
        /\ calls'[d].key = calls[d].key /\ calls'[d].prior = calls[d].prior
    BY <1>7, <1>15
  <2>2. calls[d].key # x.key /\ calls[d].key \in Keys
    <3>1. d \in x.prior
      BY <1>2, <2>1
    <3> QED
      BY <1>1, <1>2, <1>15, <3>1 DEF Deleted, CallInv, CallOK
  <2>3. Current(d, f)
    BY <1>15, <2>1 DEF AckedInv
  <2> QED
    BY <1>1, <1>6, <2>1, <2>2, <2>3 DEF Current, NotBefore
<1>16. AckedInv'
  BY <1>1, <1>7, <1>15 DEF AckedInv
<1> QED
  BY <1>7, <1>8, <1>9, <1>11, <1>12, <1>14, <1>16

(* The strings of a table, and what deleting them does.                    *)
LEMMA Counted ==
  ASSUME TypeInv, NEW S, DeleteStrings(S)
  PROVE  /\ freed' \in [Calls \X Fields -> Nat]
         /\ \A e \in Calls, g \in Fields : << e, g >> \in S => freed'[<< e, g >>] = freed[<< e, g >>] + 1
         /\ \A e \in Calls, g \in Fields : << e, g >> \notin S => freed'[<< e, g >>] = freed[<< e, g >>]
BY DEF TypeInv, DeleteStrings

(* A string is in a table if one of its fields points to it.               *)
LEMMA StringsAre ==
  ASSUME NEW t, NEW e, NEW g
  PROVE  << e, g >> \in Strings(t) <=> g \in Fields /\ tables[t][g] = e /\ e # 0
BY DEF Strings, Entries

(* The strings of the table are deleted.                                   *)
LEMMA DeleteFieldHashtableInv ==
  ASSUME TypeInv, CallInv, OnceInv, OpenInv, NEW c \in Active, DeleteFieldHashtable(c)
  PROVE  TypeInv' /\ CallInv' /\ OnceInv' /\ OpenInv'
<1> USE DEF OpenInv
<1> DEFINE x == calls[c]
           y == Return(x, "kOK")
<1>0. PICK t : t = x.table
  OBVIOUS
<1>1. /\ x.op = "Delete" /\ x.pc = "destroy" /\ Set(c, y) /\ DeleteStrings(Strings(t))
      /\ UNCHANGED << key_table, tables, raced, destroyed >>
  BY <1>0 DEF DeleteFieldHashtable, At
<1>2. /\ c \in DOMAIN calls /\ DOMAIN calls \subseteq Calls /\ 0 \notin DOMAIN calls
      /\ DOMAIN x = Parts /\ x.key \in Keys
      /\ \A d \in DOMAIN calls : d # c => ~Deleting(d)
      /\ \A d \in DOMAIN calls : \A e, f : ~Taken(d, e, f)
  BY <1>1, Deleter
<1>3. /\ DOMAIN y = Parts /\ y.op = x.op /\ y.key = x.key /\ y.prior = x.prior
      /\ y.fields = x.fields /\ y.pc = "done"
  BY <1>2 DEF Parts, Return
<1> HIDE DEF y
<1>4. Evolves(c) /\ calls'[c] = y
  BY <1>1, <1>3, SetEvolves
<1>5. /\ DOMAIN calls' = DOMAIN calls /\ CallInv' /\ AloneInv' /\ RaceInv'
      /\ \A d \in DOMAIN calls : ~Holds(d)' /\ ~Deleting(d)'
      /\ \A d \in DOMAIN calls : \A e, f : ~Taken(d, e, f)'
      /\ \A u, k : Made(u, k)' <=> Made(u, k)
      /\ \A d, f : Fresh(d, f)' => Fresh(d, f)
      /\ \A d \in DOMAIN calls : Writes(calls'[d]) =>
           /\ Writes(calls[d]) /\ d # c /\ Written(d)' = Written(d)
           /\ calls'[d].key = calls[d].key /\ calls'[d].prior = calls[d].prior
      /\ \A d \in DOMAIN calls : Deleted(d, DOMAIN calls)' <=> Deleted(d, DOMAIN calls)
  BY <1>1, <1>3, <1>4, DeleterStep
<1>6. Deleting(c) /\ Holds(c) /\ Reached(t) /\ Made(t, x.key) /\ key_table[x.key] = 0
  BY <1>0, <1>1, <1>2 DEF Deleting, Holds, Reached, TableInv
<1>7. t \in Calls /\ t # 0 /\ ~Linked(t)
  <2>1. t \in Calls /\ t # 0 /\ calls[t].key = x.key
    BY <1>2, <1>6 DEF Made
  <2>2. ASSUME NEW k \in Keys, key_table[k] = t
        PROVE  FALSE
    <3>1. Made(t, k)
      BY <2>1, <2>2 DEF TableInv
    <3> QED
      BY <1>6, <2>1, <2>2, <3>1 DEF Made
  <2> QED
    BY <2>1, <2>2 DEF Linked
<1>8. /\ freed' \in [Calls \X Fields -> Nat]
      /\ \A e \in Calls, g \in Fields : tables[t][g] = e => freed'[<< e, g >>] = 1
      /\ \A e \in Calls, g \in Fields : tables[t][g] # e => freed'[<< e, g >>] = freed[<< e, g >>]
  <2>1. \A e \in Calls, g \in Fields : tables[t][g] = e => freed[<< e, g >>] = 0 /\ e # 0
    BY <1>6, <1>7, HashtableDBAssumption DEF OwnerInv, Calls
  <2>2. /\ freed' \in [Calls \X Fields -> Nat]
        /\ \A e \in Calls, g \in Fields :
             << e, g >> \in Strings(t) => freed'[<< e, g >>] = freed[<< e, g >>] + 1
        /\ \A e \in Calls, g \in Fields :
             << e, g >> \notin Strings(t) => freed'[<< e, g >>] = freed[<< e, g >>]
    BY <1>1, Counted
  <2> QED
    BY <2>1, <2>2, StringsAre
<1>9. TypeInv'
  BY <1>1, <1>4, <1>8 DEF TypeInv, Evolves
<1>10. OnceInv'
  <2> SUFFICES ASSUME NEW e \in Calls, NEW g \in Fields
               PROVE  freed'[<< e, g >>] <= 1
    BY DEF OnceInv
  <2> QED
    BY <1>8 DEF OnceInv
<1>11. TableInv'
  <2>1. \A k \in Keys : key_table[k] # 0 => \A u : u = key_table[k] => Made(u, k)'
    BY <1>5 DEF TableInv
  <2>2. \A u \in Calls : ~(\E k \in Keys : Made(u, k)') => \A f \in Fields : tables[u][f] = 0
    BY <1>5 DEF TableInv
  <2> QED
    BY <1>1, <1>5, <2>1, <2>2 DEF TableInv, Made
<1>12. \A u : Reached(u)' => Linked(u)
  BY <1>1, <1>5 DEF Reached, Linked
<1>13. OwnerInv'
  <2>1. ASSUME NEW u \in Calls, NEW g \in Fields, tables[u][g] # 0, Reached(u)'
        PROVE  freed'[<< tables[u][g], g >>] = 0
    <3>1. u # t /\ Reached(u) /\ tables[u][g] \in Calls
      BY <1>2, <1>7, <1>12, <2>1 DEF OwnerInv, Reached
    <3>2. tables[t][g] # tables[u][g]
      BY <1>7, <2>1, <3>1 DEF OwnerInv
    <3>3. freed[<< tables[u][g], g >>] = 0
      BY <2>1, <3>1 DEF OwnerInv
    <3> QED
      BY <1>8, <3>1, <3>2, <3>3
  <2> QED
    BY <1>1, <1>5, <2>1 DEF OwnerInv
<1>14. FreshInv'
  <2> SUFFICES ASSUME NEW d \in Calls, NEW g \in Fields, Fresh(d, g)'
               PROVE  /\ freed'[<< d, g >>] = 0
                      /\ \A u \in Calls : tables[u][g] # d
                      /\ \A e \in DOMAIN calls : ~Taken(e, d, g)'
    BY <1>1, <1>5 DEF FreshInv
  <2>1. freed[<< d, g >>] = 0 /\ \A u \in Calls : tables[u][g] # d
    BY <1>5 DEF FreshInv
  <2> QED
    BY <1>5, <1>7, <1>8, <2>1
<1>15. ASSUME NEW d \in DOMAIN calls, NEW f \in Fields, Kept(d, f)
       PROVE  Kept(d, f)'
  <2>1. CASE tables[t][f] = d
    BY <1>2, <1>8, <2>1 DEF Kept
  <2>2. CASE tables[t][f] # d
    <3>1. CASE freed[<< d, f >>] = 1
      BY <1>2, <1>8, <2>2, <3>1 DEF Kept
    <3>2. CASE \E u \in Calls : tables[u][f] = d /\ Linked(u)
      BY <1>1, <3>2 DEF Kept, Linked
    <3>3. \A e \in DOMAIN calls : Deleting(e) => calls[e].table = t
      BY <1>0, <1>2
    <3> QED
      BY <1>2, <1>15, <2>2, <3>1, <3>2, <3>3 DEF Kept
  <2> QED
    BY <2>1, <2>2
<1>16. KeptInv'
  BY <1>1, <1>5, <1>15, WrittenFields DEF KeptInv
<1>17. \A d \in DOMAIN calls : \A f : Writes(calls'[d]) /\ Current(d, f) => Current(d, f)'
  BY <1>1, <1>5 DEF Current, NotBefore
<1>18. AckedInv'
  BY <1>1, <1>5, <1>17 DEF AckedInv
<1> QED
  BY <1>5, <1>9, <1>10, <1>11, <1>13, <1>14, <1>16, <1>18

-------------------------------------------------------------------------------
(* The database is deleted.                                                *)
LEMMA DestroyInv ==
  ASSUME TypeInv, CallInv, OnceInv, OpenInv, Destroy
  PROVE  TypeInv' /\ CallInv' /\ OnceInv' /\ Active' = {} /\ StringsOwned' /\ destroyed'
<1> USE DEF OpenInv
<1> DEFINE S == UNION {Strings(key_table[k]) : k \in Entries(key_table, Keys)}
<1>1. /\ Active = {} /\ DeleteStrings(S) /\ destroyed' = TRUE
      /\ UNCHANGED << key_table, tables, calls, raced >>
  BY DEF Destroy
<1>2. \A e, g : << e, g >> \in S <=>
        \E k \in Keys : key_table[k] # 0 /\ << e, g >> \in Strings(key_table[k])
  BY DEF Entries
<1> HIDE DEF S
<1>3. DOMAIN calls \subseteq Calls /\ 0 \notin DOMAIN calls
  BY CallsAre, HashtableDBAssumption DEF TypeInv, Calls
<1>4. \A k \in Keys : key_table[k] # 0 => key_table[k] \in Calls /\ Reached(key_table[k])
  BY <1>3 DEF TableInv, Made, Reached, Linked
<1>5. ASSUME NEW e \in Calls, NEW g \in Fields, << e, g >> \in S
      PROVE  freed[<< e, g >>] = 0
  <2>1. PICK k \in Keys : key_table[k] # 0 /\ << e, g >> \in Strings(key_table[k])
    BY <1>2, <1>5
  <2>2. PICK t : t = key_table[k]
    OBVIOUS
  <2>3. t \in Calls /\ Reached(t) /\ tables[t][g] = e /\ e # 0
    BY <1>4, <2>1, <2>2, StringsAre
  <2> QED
    BY <2>3 DEF OwnerInv
<1>6. /\ freed' \in [Calls \X Fields -> Nat]
      /\ \A e \in Calls, g \in Fields : << e, g >> \in S => freed'[<< e, g >>] = 1
      /\ \A e \in Calls, g \in Fields : << e, g >> \notin S => freed'[<< e, g >>] = freed[<< e, g >>]
  <2>1. /\ freed' \in [Calls \X Fields -> Nat]
        /\ \A e \in Calls, g \in Fields : << e, g >> \in S => freed'[<< e, g >>] = freed[<< e, g >>] + 1
        /\ \A e \in Calls, g \in Fields : << e, g >> \notin S => freed'[<< e, g >>] = freed[<< e, g >>]
    BY <1>1, Counted
  <2> QED
    BY <1>5, <2>1
<1>7. TypeInv'
  BY <1>1, <1>6 DEF TypeInv
<1>8. Active' = {}
  BY <1>1 DEF Active
<1>9. CallInv'
  <2>1. calls' = calls /\ Active' = Active
    BY <1>1, <1>8
  <2>2. \A c \in DOMAIN calls : CallOK(c)'
    BY <2>1 DEF CallInv, CallOK
  <2> QED
    BY <2>1, <2>2 DEF CallInv
<1>10. ASSUME NEW e \in Calls, NEW g \in Fields
       PROVE  freed'[<< e, g >>] <= 1
  <2>1. << e, g >> \in Calls \X Fields /\ freed[<< e, g >>] <= 1
    BY DEF OnceInv
  <2> QED
    BY <1>6, <2>1
<1>11. OnceInv'
  BY <1>10 DEF OnceInv
<1>12. ASSUME raced = {}, NEW c \in DOMAIN calls, Writes(calls[c]),
              NEW f \in Elements(calls[c].fields) \ Elements(calls[c].todo)
       PROVE  freed'[<< c, f >>] = 1
  <2>1. \A d \in DOMAIN calls : calls[d].pc = "done"
    BY <1>1 DEF Active
  <2>2. f \in Written(c) /\ f \in Fields /\ c \in Calls
    BY <1>3, <1>12, <2>1, WrittenFields DEF Written, Unwritten
  <2>3. Kept(c, f)
    BY <1>12, <2>2 DEF KeptInv
  <2>4. \A d \in DOMAIN calls : ~Deleting(d) /\ ~Taken(d, c, f)
    BY <2>1 DEF Deleting, Taken
  <2>5. CASE freed[<< c, f >>] = 1
    BY <1>5, <1>6, <2>2, <2>5
  <2>6. CASE \E t \in Calls : tables[t][f] = c /\ Linked(t)
    <3>1. PICK k \in Keys : key_table[k] \in Calls /\ tables[key_table[k]][f] = c
      BY <2>6 DEF Linked
    <3>2. key_table[k] # 0 /\ c # 0
      BY <1>3, <3>1, HashtableDBAssumption DEF Calls
    <3>3. << c, f >> \in S
      BY <1>2, <2>2, <3>1, <3>2, StringsAre
    <3> QED
      BY <1>6, <2>2, <3>3
  <2> QED
    BY <2>3, <2>4, <2>5, <2>6 DEF Kept
<1>13. StringsOwned'
  <2>1. \A s \in DOMAIN freed' : freed'[s] <= 1
    <3>1. DOMAIN freed' = Calls \X Fields
      BY <1>6
    <3> QED
      BY <1>11, <3>1 DEF OnceInv
  <2>2. raced' = {} => \A c \in DOMAIN calls' : Writes(calls'[c]) =>
          \A f \in Elements(calls'[c].fields) \ Elements(calls'[c].todo) : freed'[<< c, f >>] = 1
    BY <1>1, <1>12
  <2> QED
    BY <1>1, <2>1, <2>2 DEF StringsOwned
<1> QED
  BY <1>1, <1>7, <1>8, <1>9, <1>11, <1>13

-------------------------------------------------------------------------------
(* A client calls the database.                                            *)

(* What the other calls keep; only mixed may change.                       *)
Same(d) ==
  /\ DOMAIN calls'[d] = Parts
  /\ calls'[d].op = calls[d].op /\ calls'[d].key = calls[d].key /\ calls'[d].todo = calls[d].todo
  /\ calls'[d].pc = calls[d].pc /\ calls'[d].table = calls[d].table
  /\ calls'[d].new = calls[d].new /\ calls'[d].old = calls[d].old /\ calls'[d].rv = calls[d].rv
  /\ calls'[d].prior = calls[d].prior /\ calls'[d].fields = calls[d].fields

(* Call n is new, and has done nothing.                                    *)
Adds(n, op, k, todo) ==
  /\ Sequence(calls') /\ Len(calls') <= MaxCalls /\ DOMAIN calls' = DOMAIN calls \cup {n}
  /\ n \notin DOMAIN calls /\ n \in Calls
  /\ \A d \in DOMAIN calls : Same(d)
  /\ DOMAIN calls'[n] = Parts /\ calls'[n].op = op /\ calls'[n].key = k /\ calls'[n].todo = todo
  /\ calls'[n].pc = "get" /\ calls'[n].new = FALSE /\ calls'[n].fields = todo
  /\ calls'[n].rv = "none"
  /\ calls'[n].prior = DOMAIN calls \ Active

(* Reads and updates that come together are marked as mixed, the one that  *)
(* is new and those that have not returned.                                *)
Marks(n, op, k) ==
  /\ \A d \in DOMAIN calls :
       /\ calls'[d].tables = calls[d].tables
       /\ calls'[d].pairs = calls[d].pairs /\ calls'[d].result = calls[d].result
       /\ calls'[d].mixed = calls[d].mixed \/ calls'[d].mixed = TRUE
       /\ calls[d].pc = "done" => calls'[d] = calls[d]
       /\ d \in Active /\ op = "Update" /\ (calls[d].op = "Scan" \/ calls[d].key = k) =>
            calls'[d].mixed = TRUE
  /\ calls'[n].pairs = {} /\ calls'[n].result = {} /\ calls'[n].mixed \in BOOLEAN
  /\ \A c \in Active : calls[c].op = "Update" /\ (op = "Scan" \/ calls[c].key = k) =>
       calls'[n].mixed = TRUE

(* Start adds a call and changes nothing but mixed in the others.          *)
LEMMA StartAdds ==
  ASSUME TypeInv, CallInv, NEW op, NEW k, NEW todo, Start(op, k, todo)
  PROVE  \E n : Adds(n, op, k, todo) /\ Marks(n, op, k)
<1> DEFINE q == [c \in DOMAIN calls |->
                   IF c \in Active /\ op = "Update" /\ (calls[c].op = "Scan" \/ calls[c].key = k)
                   THEN [calls[c] EXCEPT !.mixed = TRUE] ELSE calls[c]]
           n == Len(calls) + 1
<1>0. PICK m \in BOOLEAN :
        m <=> \E c \in Active : calls[c].op = "Update" /\ (op = "Scan" \/ calls[c].key = k)
  OBVIOUS
<1>1. calls' = Append(q, [op |-> op, key |-> k, todo |-> todo, pc |-> "get", table |-> 0,
                 new |-> FALSE, old |-> 0, tables |-> << >>, pairs |-> {}, result |-> {},
                 rv |-> "none", prior |-> DOMAIN calls \ Active, fields |-> todo,
                 there |-> IF op = "Scan" THEN Entries(key_table, Keys) ELSE {}, mixed |-> m])
  BY <1>0 DEF Start
<1> DEFINE x == [op |-> op, key |-> k, todo |-> todo, pc |-> "get", table |-> 0,
                 new |-> FALSE, old |-> 0, tables |-> << >>, pairs |-> {}, result |-> {},
                 rv |-> "none", prior |-> DOMAIN calls \ Active, fields |-> todo,
                 there |-> IF op = "Scan" THEN Entries(key_table, Keys) ELSE {}, mixed |-> m]
<1>2. /\ DOMAIN x = Parts /\ x.op = op /\ x.key = k /\ x.todo = todo
      /\ x.pc = "get" /\ x.new = FALSE /\ x.fields = todo /\ x.rv = "none"
      /\ x.prior = DOMAIN calls \ Active
      /\ x.pairs = {} /\ x.result = {} /\ x.mixed = m
  BY DEF Parts
<1>3. Len(calls) \in Nat /\ DOMAIN calls = 1 .. Len(calls) /\ Len(calls) < MaxCalls
  BY CallsAre DEF TypeInv, Start
<1>4. \A d \in DOMAIN calls :
        /\ q[d] \in {calls[d], [calls[d] EXCEPT !.mixed = TRUE]}
        /\ calls[d].pc = "done" => q[d] = calls[d]
        /\ d \in Active /\ op = "Update" /\ (calls[d].op = "Scan" \/ calls[d].key = k) =>
             q[d] = [calls[d] EXCEPT !.mixed = TRUE]
  BY DEF Active
<1>5. Sequence(q) /\ Len(q) = Len(calls) /\ DOMAIN q = DOMAIN calls
  <2> DEFINE S == {q[d] : d \in DOMAIN calls}
  <2>1. q \in [1 .. Len(calls) -> S]
    BY <1>3
  <2> HIDE DEF q, S
  <2>2. q \in Seq(S) /\ Len(q) = Len(calls)
    BY <1>3, <2>1
  <2> QED
    BY <1>3, <2>1, <2>2 DEF Sequence
<1> HIDE DEF q, x
<1>6. calls' = Append(q, x)
  BY <1>1 DEF x
<1>7. /\ Sequence(calls') /\ Len(calls') = n /\ DOMAIN calls' = DOMAIN calls \cup {n}
      /\ n \notin DOMAIN calls
      /\ calls'[n] = x /\ \A d \in DOMAIN calls : calls'[d] = q[d]
  BY <1>5, <1>6, Appended
<1>8. ASSUME NEW d \in DOMAIN calls
      PROVE  Same(d)
  <2>1. calls'[d] \in {calls[d], [calls[d] EXCEPT !.mixed = TRUE]} /\ DOMAIN calls[d] = Parts
    BY <1>4, <1>7 DEF CallInv, CallOK
  <2>2. CASE calls'[d] = calls[d]
    BY <2>1, <2>2 DEF Same
  <2>3. CASE calls'[d] = [calls[d] EXCEPT !.mixed = TRUE]
    BY <2>1, <2>3 DEF Same, Parts
  <2> QED
    BY <2>1, <2>2, <2>3
<1>9. n \in Calls /\ Len(calls') <= MaxCalls
  BY <1>3, <1>7, HashtableDBAssumption DEF Calls
<1>10. Adds(n, op, k, todo)
  BY <1>2, <1>7, <1>8, <1>9 DEF Adds
<1>11. ASSUME NEW d \in DOMAIN calls
       PROVE  /\ calls'[d].tables = calls[d].tables
              /\ calls'[d].pairs = calls[d].pairs /\ calls'[d].result = calls[d].result
              /\ calls'[d].mixed = calls[d].mixed \/ calls'[d].mixed = TRUE
              /\ calls[d].pc = "done" => calls'[d] = calls[d]
              /\ d \in Active /\ op = "Update" /\ (calls[d].op = "Scan" \/ calls[d].key = k) =>
                   calls'[d].mixed = TRUE
  <2>1. calls'[d] \in {calls[d], [calls[d] EXCEPT !.mixed = TRUE]} /\ DOMAIN calls[d] = Parts
    BY <1>4, <1>7 DEF CallInv, CallOK
  <2>2. [calls[d] EXCEPT !.mixed = TRUE].mixed = TRUE
    BY <2>1 DEF Parts
  <2>3. /\ calls'[d].tables = calls[d].tables
        /\ calls'[d].pairs = calls[d].pairs /\ calls'[d].result = calls[d].result
        /\ calls'[d].mixed = calls[d].mixed \/ calls'[d].mixed = TRUE
    <3>1. CASE calls'[d] = calls[d]
      BY <3>1
    <3>2. CASE calls'[d] = [calls[d] EXCEPT !.mixed = TRUE]
      BY <2>1, <3>2 DEF Parts
    <3> QED
      BY <2>1, <3>1, <3>2
  <2> QED
    BY <1>4, <1>7, <2>2, <2>3
<1>12. Marks(n, op, k)
  <2>1. calls'[n].pairs = {} /\ calls'[n].result = {} /\ calls'[n].mixed \in BOOLEAN
    BY <1>2, <1>7
  <2>2. \A c \in Active : calls[c].op = "Update" /\ (op = "Scan" \/ calls[c].key = k) =>
          calls'[n].mixed = TRUE
    BY <1>0, <1>2, <1>7
  <2> QED
    BY <1>11, <2>1, <2>2 DEF Marks
<1> QED
  BY <1>10, <1>12

(* A call with the fields that it is to write, or another one.             *)
Asked(op, todo) ==
  /\ op \in {"Update", "Insert", "Delete", "Read", "Scan"}
  /\ op \in {"Update", "Insert"} => todo \in Seq(Fields) /\ todo # << >> /\ OneToOne(todo)

(* A new call, whatever it asks for and however many others run.           *)
LEMMA StartInv ==
  ASSUME TypeInv, CallInv, OnceInv, OpenInv, NEW op, NEW k \in Keys, NEW todo,
         Asked(op, todo), Start(op, k, todo)
  PROVE  TypeInv' /\ CallInv' /\ OnceInv' /\ OpenInv'
<1> USE DEF OpenInv
<1>1. /\ op = "Delete" => Active = {}
      /\ \A c \in Active : calls[c].op # "Delete"
      /\ UNCHANGED << key_table, tables, freed, destroyed >>
      /\ raced \subseteq raced'
  BY DEF Start
<1>2. PICK n : Adds(n, op, k, todo)
  BY StartAdds
<1>3. /\ DOMAIN calls' = DOMAIN calls \cup {n} /\ n \notin DOMAIN calls /\ n \in Calls
      /\ \A d \in DOMAIN calls : Same(d)
      /\ calls'[n].op = op /\ calls'[n].pc = "get" /\ calls'[n].key = k
      /\ calls'[n].todo = todo /\ calls'[n].fields = todo
      /\ calls'[n].prior = DOMAIN calls \ Active
  BY <1>2 DEF Adds
<1>4. Active' = Active \cup {n}
  BY <1>3 DEF Active, Same
<1>5. TypeInv' /\ OnceInv'
  BY <1>1, <1>2 DEF TypeInv, OnceInv, Adds
<1>6. ASSUME NEW d \in DOMAIN calls
      PROVE  CallOK(d)'
  <2>1. CallOK(d) /\ Same(d)
    BY <1>3 DEF CallInv
  <2>2. calls'[d].prior \subseteq DOMAIN calls' \ Active'
    BY <1>3, <1>4, <2>1 DEF CallOK, Same
  <2>3. Writes(calls'[d]) => WriterOK(d, calls'[d])
    BY <2>1 DEF CallOK, Same, Writes, WriterOK
  <2> QED
    BY <2>1, <2>2, <2>3 DEF CallOK, Same
<1>7. CallOK(n)'
  <2>1. calls'[n].prior \subseteq DOMAIN calls' \ Active'
    BY <1>3, <1>4
  <2>2. Writes(calls'[n]) => WriterOK(n, calls'[n])
    <3> SUFFICES ASSUME Writes(calls'[n]) PROVE WriterOK(n, calls'[n])
      OBVIOUS
    <3>1. todo \in Seq(Fields) /\ todo # << >> /\ OneToOne(todo)
      BY <1>3 DEF Writes, Asked
    <3>2. Elements(todo) \subseteq Fields /\ Elements(todo) # {}
      BY <3>1, Fields1 DEF Elements
    <3>3. calls'[n].new = FALSE /\ calls'[n].rv = "none"
      BY <1>2 DEF Adds
    <3> QED
      BY <1>3, <3>1, <3>2, <3>3 DEF WriterOK
  <2> QED
    BY <1>2, <2>1, <2>2 DEF CallOK, Adds, Asked
<1>8. CallInv'
  BY <1>3, <1>6, <1>7 DEF CallInv
<1>9. AloneInv'
  <2> SUFFICES ASSUME NEW d \in Active', calls'[d].op = "Delete"
               PROVE  Active' = {d} /\ DOMAIN calls' \ {d} \subseteq calls'[d].prior
    BY DEF AloneInv
  <2>1. d = n
    BY <1>1, <1>3, <1>4 DEF Active, Same
  <2>2. Active = {}
    BY <1>1, <1>3, <2>1
  <2> QED
    BY <1>3, <1>4, <2>1, <2>2
<1>10. \A d \in DOMAIN calls :
         /\ Holds(d)' <=> Holds(d)
         /\ Deleting(d)' <=> Deleting(d)
         /\ Writes(calls'[d]) <=> Writes(calls[d])
         /\ Unwritten(d)' = Unwritten(d) /\ Written(d)' = Written(d)
         /\ \A e, f : Taken(d, e, f)' <=> Taken(d, e, f)
  <2> SUFFICES ASSUME NEW d \in DOMAIN calls
               PROVE  /\ Holds(d)' <=> Holds(d)
                      /\ Deleting(d)' <=> Deleting(d)
                      /\ Writes(calls'[d]) <=> Writes(calls[d])
                      /\ Unwritten(d)' = Unwritten(d) /\ Written(d)' = Written(d)
                      /\ \A e, f : Taken(d, e, f)' <=> Taken(d, e, f)
    OBVIOUS
  <2>1. Same(d)
    BY <1>3
  <2>2. Unwritten(d)' = Unwritten(d)
    BY <2>1 DEF Same, Unwritten
  <2>3. Written(d)' = Written(d)
    BY <2>1, <2>2 DEF Same, Written
  <2>4. /\ Writes(calls'[d]) <=> Writes(calls[d])
        /\ Deleting(d)' <=> Deleting(d)
        /\ \A e, f : Taken(d, e, f)' <=> Taken(d, e, f)
    BY <2>1 DEF Same, Writes, Deleting, Taken, Field
  <2>5. Holds(d)' <=> Holds(d)
    BY <2>1, <2>4 DEF Same, Holds
  <2> QED
    BY <2>2, <2>3, <2>4, <2>5
<1>11. /\ ~Holds(n)' /\ ~Deleting(n)' /\ Written(n)' = {}
       /\ \A e, f : ~Taken(n, e, f)'
  BY <1>3 DEF Holds, Deleting, Taken, Written, Unwritten
<1>12. \A t, j : Made(t, j)' <=> Made(t, j)
  <2>1. \A j : ~Made(n, j) /\ ~Made(n, j)'
    BY <1>3 DEF Made
  <2>2. \A t, j : Made(t, j) \/ Made(t, j)' => t \in DOMAIN calls \cup {n}
    BY <1>3 DEF Made
  <2>3. \A t \in DOMAIN calls : \A j : Made(t, j)' <=> Made(t, j)
    BY <1>3, <1>10 DEF Made, Same
  <2> QED
    BY <2>1, <2>2, <2>3
<1>13. TableInv'
  <2>1. \A j \in Keys : key_table[j] # 0 => \A u : u = key_table[j] => Made(u, j)'
    BY <1>12 DEF TableInv
  <2>2. \A d \in DOMAIN calls' : Holds(d)' =>
          \A u, j : u = calls'[d].table /\ j = calls'[d].key => Made(u, j)'
    BY <1>3, <1>10, <1>11, <1>12 DEF TableInv, Same
  <2>3. \A d \in DOMAIN calls' : Deleting(d)' => key_table[calls'[d].key] = 0
    BY <1>3, <1>10, <1>11 DEF TableInv, Same
  <2>4. \A u \in Calls : ~(\E j \in Keys : Made(u, j)') => \A f \in Fields : tables[u][f] = 0
    BY <1>12 DEF TableInv
  <2> QED
    BY <1>1, <2>1, <2>2, <2>3, <2>4 DEF TableInv, Made
<1>14. \A u : Reached(u)' => Reached(u)
  BY <1>1, <1>3, <1>10, <1>11 DEF Reached, Linked, Same
<1>15. OwnerInv'
  <2>1. \A u \in Calls, g \in Fields : tables[u][g] # 0 => tables[u][g] \in DOMAIN calls'
    BY <1>3 DEF OwnerInv
  <2>2. \A u \in Calls, g \in Fields : tables[u][g] # 0 /\ Reached(u)' => freed[<< tables[u][g], g >>] = 0
    BY <1>14 DEF OwnerInv
  <2>3. \A d \in DOMAIN calls' : \A e, g : Taken(d, e, g)' => d \in DOMAIN calls /\ Taken(d, e, g)
    BY <1>3, <1>10, <1>11
  <2>4. \A d \in DOMAIN calls' : \A e, g : Taken(d, e, g)' =>
          /\ e \in DOMAIN calls' /\ g \in Fields /\ freed[<< e, g >>] = 0
          /\ \A t \in Calls : tables[t][g] # e
          /\ \A h \in DOMAIN calls' : Taken(h, e, g)' => h = d
    BY <1>3, <2>3 DEF OwnerInv
  <2> QED
    BY <1>1, <2>1, <2>2, <2>4 DEF OwnerInv
<1>16. \A d, f : Fresh(d, f)' => Fresh(d, f)
  <2> SUFFICES ASSUME NEW d, NEW f, Fresh(d, f)' PROVE Fresh(d, f)
    OBVIOUS
  <2>1. CASE d \notin DOMAIN calls
    BY <2>1 DEF Fresh
  <2>2. CASE d \in DOMAIN calls
    <3>1. d \in Active /\ Writes(calls[d]) /\ f \in Unwritten(d)
      BY <1>3, <1>4, <1>10, <2>2 DEF Fresh
    <3> QED
      BY <3>1 DEF Fresh
  <2> QED
    BY <2>1, <2>2
<1>17. FreshInv'
  <2> SUFFICES ASSUME NEW d \in Calls, NEW g \in Fields, Fresh(d, g)'
               PROVE  /\ freed[<< d, g >>] = 0
                      /\ \A u \in Calls : tables[u][g] # d
                      /\ \A e \in DOMAIN calls' : ~Taken(e, d, g)'
    BY <1>1 DEF FreshInv
  <2> QED
    BY <1>3, <1>10, <1>11, <1>16 DEF FreshInv
<1>18. \A d \in DOMAIN calls : \A j : Writer(d, j)' <=> Writer(d, j)
  BY <1>3, <1>4, <1>10 DEF Writer, Same
<1>19. RaceInv'
  <2> SUFFICES ASSUME NEW j \in Keys \ raced'
               PROVE  /\ \A a, d \in DOMAIN calls' : Writer(a, j)' /\ Writer(d, j)' /\ a # d => Complete(j)'
                      /\ \A d \in DOMAIN calls' : Writer(d, j)' => OnRecord(d)'
    BY DEF RaceInv
  <2>1. j \in Keys \ raced /\ (Complete(j)' <=> Complete(j))
    BY <1>1 DEF Complete
  <2>2. ASSUME NEW d \in DOMAIN calls, Writer(d, j), Writer(n, j)'
        PROVE  Complete(j)
    <3>1. j = k /\ Writes(calls'[n]) /\ op \in {"Update", "Insert"}
      BY <1>3, <2>2 DEF Writer, Writes
    <3>2. \E y : y.op = op /\ ~Incomplete(k, y, calls[d])
      <4> DEFINE y == [op |-> op, key |-> k, todo |-> todo, pc |-> "get", table |-> 0, new |-> FALSE,
            old |-> 0, tables |-> << >>, pairs |-> {}, result |-> {}, rv |-> "none",
            prior |-> DOMAIN calls \ Active, fields |-> todo,
            there |-> IF op = "Scan" THEN Entries(key_table, Keys) ELSE {},
            mixed |-> \E c \in Active : calls[c].op = "Update" /\ (op = "Scan" \/ calls[c].key = k)]
      <4>1. raced' = IF \E c \in Active : /\ Writes(y) /\ Writes(calls[c]) /\ calls[c].key = k
                                          /\ Incomplete(k, y, calls[c])
                     THEN raced \cup {k} ELSE raced
        BY DEF Start
      <4>2. y.op = op /\ Writes(y)
        BY <3>1 DEF Writes
      <4> HIDE DEF y
      <4>3. d \in Active /\ Writes(calls[d]) /\ calls[d].key = k
        BY <2>2, <3>1 DEF Writer
      <4>4. k \notin raced'
        BY <3>1
      <4>5. ~Incomplete(k, y, calls[d])
        BY <4>1, <4>2, <4>3, <4>4
      <4> QED
        BY <4>2, <4>5
    <3>3. key_table[k] # 0 /\ Entries(tables[key_table[k]], Fields) = Fields
      BY <3>2 DEF Incomplete
    <3> QED
      BY <3>1, <3>3 DEF Complete, Entries
  <2>3. ASSUME NEW a \in DOMAIN calls', NEW d \in DOMAIN calls', Writer(a, j)', Writer(d, j)', a # d
        PROVE  Complete(j)
    <3>1. CASE a = n
      BY <1>3, <1>18, <2>2, <2>3, <3>1
    <3>2. CASE d = n
      BY <1>3, <1>18, <2>2, <2>3, <3>2
    <3>3. CASE a # n /\ d # n
      BY <1>3, <1>18, <2>1, <2>3, <3>3 DEF RaceInv
    <3> QED
      BY <3>1, <3>2, <3>3
  <2>4. OnRecord(n)'
    BY <1>3 DEF OnRecord
  <2>5. ASSUME NEW d \in DOMAIN calls, Writer(d, j)'
        PROVE  OnRecord(d)'
    <3>1. OnRecord(d) /\ Same(d)
      BY <1>3, <1>18, <2>1, <2>5 DEF RaceInv
    <3> QED
      BY <1>1, <3>1 DEF OnRecord, Same, Field
  <2> QED
    BY <1>3, <2>1, <2>3, <2>4, <2>5
<1>20. \A d \in DOMAIN calls : \A f : Kept(d, f) => Kept(d, f)'
  BY <1>1, <1>3, <1>10 DEF Kept, Linked, Same
<1>21. KeptInv'
  <2> SUFFICES ASSUME NEW d \in DOMAIN calls', Writes(calls'[d]), calls'[d].key \notin raced',
                      NEW f \in Written(d)'
               PROVE  Kept(d, f)'
    BY DEF KeptInv
  <2>1. d \in DOMAIN calls
    BY <1>3, <1>11
  <2>2. Writes(calls[d]) /\ calls[d].key \notin raced /\ f \in Written(d)
    BY <1>1, <1>3, <1>10, <2>1 DEF Same
  <2> QED
    BY <1>20, <2>1, <2>2 DEF KeptInv
<1>22. AckedInv'
  <2> SUFFICES ASSUME NEW d \in DOMAIN calls', Writes(calls'[d]), calls'[d].key \notin raced',
                      ~Deleted(d, DOMAIN calls)', NEW f \in Written(d)'
               PROVE  Current(d, f)'
    BY DEF AckedInv
  <2>1. d \in DOMAIN calls
    BY <1>3, <1>11
  <2>2. Writes(calls[d]) /\ calls[d].key \notin raced /\ f \in Written(d)
    BY <1>1, <1>3, <1>10, <2>1 DEF Same
  <2>3. ~Deleted(d, DOMAIN calls)
    BY <1>3, <2>1 DEF Deleted, Same
  <2>4. Current(d, f)
    BY <2>1, <2>2, <2>3 DEF AckedInv
  <2>5. Same(d)
    BY <1>3, <2>1
  <2> QED
    BY <1>1, <2>4, <2>5 DEF Current, NotBefore, Same
<1> QED
  BY <1>5, <1>8, <1>9, <1>13, <1>15, <1>17, <1>19, <1>21, <1>22

-------------------------------------------------------------------------------
(* Every step.                                                             *)

(* Each of the calls that a client may make.                               *)
LEMMA CallStepInv ==
  ASSUME TypeInv, CallInv, OnceInv, OpenInv, Call
  PROVE  TypeInv' /\ CallInv' /\ OnceInv' /\ OpenInv'
<1>1. PICK k \in Keys :
        \/ Start("Insert", k, AllFields)
        \/ Start("Delete", k, << >>)
        \/ \E q \in FieldLists : Start("Update", k, q) \/ Start("Read", k, [i \in DOMAIN q |-> {q[i]}])
        \/ \E op \in ReadsAll : Start(op, k, << Fields >>)
  BY DEF Call
<1>2. CASE Start("Insert", k, AllFields)
  <2>1. Asked("Insert", AllFields)
    BY HashtableDBAssumption DEF Asked
  <2> QED
    BY <1>2, <2>1, StartInv
<1>3. CASE Start("Delete", k, << >>)
  <2>1. Asked("Delete", << >>)
    BY DEF Asked
  <2> QED
    BY <1>3, <2>1, StartInv
<1>4. ASSUME NEW q \in FieldLists, Start("Update", k, q)
      PROVE  TypeInv' /\ CallInv' /\ OnceInv' /\ OpenInv'
  <2>1. Asked("Update", q)
    BY HashtableDBAssumption DEF Asked
  <2> QED
    BY <1>4, <2>1, StartInv
<1>5. ASSUME NEW op, op \in {"Read", "Scan"}, NEW todo, Start(op, k, todo)
      PROVE  TypeInv' /\ CallInv' /\ OnceInv' /\ OpenInv'
  <2>1. Asked(op, todo)
    BY <1>5 DEF Asked
  <2> QED
    BY <1>5, <2>1, StartInv
<1>6. ReadsAll \subseteq {"Read", "Scan"}
  BY HashtableDBAssumption
<1> QED
  BY <1>1, <1>2, <1>3, <1>4, <1>5, <1>6

(* Every step of every call, and the destructor, keep the invariant.       *)
LEMMA StepInv == IInv /\ [Next]_vars => IInv'
<1> SUFFICES ASSUME IInv, [Next]_vars PROVE IInv'
  OBVIOUS
<1>1. TypeInv /\ CallInv /\ OnceInv
  BY DEF IInv
<1>2. CASE UNCHANGED vars
  <2>1. TypeInv' /\ CallInv' /\ OnceInv'
    BY <1>1, <1>2 DEF vars, TypeInv, CallInv, CallOK, OnceInv, Active
  <2>2. ~destroyed => OpenInv'
    BY <1>2 DEF IInv, vars, OpenInv, AloneInv, TableInv, OwnerInv, FreshInv, RaceInv, KeptInv, AckedInv,
           Active, Made, Holds, Deleting, Reached, Linked, Taken, Field, Fresh, Unwritten, Written,
           Writer, Complete, OnRecord, Kept, Current, NotBefore, Deleted
  <2>3. destroyed => Active' = {} /\ StringsOwned'
    BY <1>2 DEF IInv, vars, Active, StringsOwned, Entries, Strings
  <2>4. destroyed' = destroyed
    BY <1>2 DEF vars
  <2> QED
    BY <2>1, <2>2, <2>3, <2>4 DEF IInv
<1>3. CASE Next
  <2>1. ~destroyed /\ OpenInv
    <3>1. Call => ~destroyed
      <4>1. \A op, k, todo : Start(op, k, todo) => ~destroyed
        BY DEF Start
      <4> QED
        BY <4>1 DEF Call
    <3>2. Destroy => ~destroyed
      BY DEF Destroy
    <3>3. Active # {} => ~destroyed
      BY DEF IInv
    <3> QED
      BY <1>3, <3>1, <3>2, <3>3 DEF IInv, Next
  <2>2. CASE Destroy
    BY <1>1, <2>1, <2>2, DestroyInv DEF IInv
  <2>3. ASSUME Call \/ \E c \in Active : Step(c)
        PROVE  TypeInv' /\ CallInv' /\ OnceInv' /\ OpenInv' /\ ~destroyed'
    <3>1. ~destroyed'
      <4>1. Call => destroyed' = destroyed
        <5>1. \A op, k, todo : Start(op, k, todo) => destroyed' = destroyed
          BY DEF Start
        <5> QED
          BY <5>1 DEF Call
      <4>2. \A c : Step(c) => destroyed' = destroyed
        BY DEF Step, FindRecord, LinkRecord, InsertField, UpdateField, AddField, DeleteOld, FindTables,
               FetchFields, FetchLate, CopyToResult, RemoveRecord, DeleteFieldHashtable
      <4> QED
        BY <2>1, <2>3, <4>1, <4>2
    <3>2. CASE Call
      BY <1>1, <2>1, <3>1, <3>2, CallStepInv
    <3>3. ASSUME NEW c \in Active, Step(c)
          PROVE  TypeInv' /\ CallInv' /\ OnceInv' /\ OpenInv'
      <4>1. CASE FindRecord(c)
        <5>1. freed' = freed
          BY <4>1 DEF FindRecord
        <5> QED
          BY <1>1, <2>1, <4>1, <5>1, FindRecordInv DEF OnceInv
      <4>2. CASE LinkRecord(c)
        <5>1. freed' = freed
          BY <4>2 DEF LinkRecord
        <5> QED
          BY <1>1, <2>1, <4>2, <5>1, LinkRecordInv DEF OnceInv
      <4>3. CASE InsertField(c)
        BY <1>1, <2>1, <4>3, InsertFieldInv
      <4>4. CASE UpdateField(c)
        BY <1>1, <2>1, <4>4, UpdateFieldInv
      <4>5. CASE AddField(c)
        BY <1>1, <2>1, <4>5, AddFieldInv
      <4>6. CASE DeleteOld(c)
        BY <1>1, <2>1, <4>6, DeleteOldInv
      <4>7. CASE FindTables(c) \/ FetchFields(c) \/ FetchLate(c) \/ CopyToResult(c)
        <5>1. freed' = freed
          BY <4>7 DEF FindTables, FetchFields, FetchLate, CopyToResult
        <5> QED
          BY <1>1, <2>1, <4>7, <5>1, ReaderInv DEF OnceInv
      <4>8. CASE RemoveRecord(c)
        BY <1>1, <2>1, <4>8, RemoveRecordInv
      <4>9. CASE DeleteFieldHashtable(c)
        BY <1>1, <2>1, <4>9, DeleteFieldHashtableInv
      <4> QED
        BY <3>3, <4>1, <4>2, <4>3, <4>4, <4>5, <4>6, <4>7, <4>8, <4>9 DEF Step
    <3> QED
      BY <2>3, <3>1, <3>2, <3>3
  <2> QED
    BY <1>3, <2>2, <2>3 DEF IInv, Next
<1> QED
  BY <1>2, <1>3

(* However the calls of the clients interleave, the invariant holds.       *)
THEOREM Invariance == Spec => []IInv
BY InitInv, StepInv, PTL DEF Spec

(* The invariant says who owns each string.                                *)
LEMMA StringsOwnedByInv == IInv => StringsOwned
<1> SUFFICES ASSUME IInv PROVE StringsOwned
  OBVIOUS
<1>1. CASE destroyed
  BY <1>1 DEF IInv
<1>2. CASE ~destroyed
  <2>1. TypeInv /\ OnceInv /\ TableInv /\ OwnerInv
    BY <1>2 DEF IInv, OpenInv
  <2>2. \A s \in DOMAIN freed : freed[s] <= 1
    BY <2>1 DEF TypeInv, OnceInv
  <2>3. ASSUME NEW k \in Entries(key_table, Keys), NEW s \in Strings(key_table[k])
        PROVE  freed[s] = 0
    <3>1. PICK t : t = key_table[k] /\ t # 0 /\ k \in Keys
      BY DEF Entries
    <3>2. PICK g \in Fields : s = << tables[t][g], g >> /\ tables[t][g] # 0
      BY <3>1 DEF Strings, Entries
    <3>3. t \in Calls /\ Reached(t)
      BY <2>1, <3>1, CallsAre, HashtableDBAssumption DEF TableInv, Made, Reached, Linked, TypeInv, Calls
    <3> QED
      BY <2>1, <3>2, <3>3 DEF OwnerInv
  <2> QED
    BY <1>2, <2>2, <2>3 DEF StringsOwned
<1> QED
  BY <1>1, <1>2

(* The clients' calls delete no string twice and none that a record holds; *)
(* DeleteOld, DeleteFieldHashtable and the destructor delete what their    *)
(* call owns, and the destructor leaves nothing unless an incomplete       *)
(* record was raced on.                                                    *)
THEOREM StringsAreOwned == Spec => []StringsOwned
BY Invariance, StringsOwnedByInv, PTL

(* A call that returned kOK has written all its fields, and the invariant  *)
(* says where these are.                                                   *)
LEMMA AckedByInv == IInv => AckedWrites
<1> SUFFICES ASSUME IInv, ~destroyed, NEW k \in Keys \ raced, NEW c \in Acknowledged(k, DOMAIN calls)
             PROVE  /\ key_table[k] # 0
                    /\ \A f \in Elements(calls[c].fields) : NotBefore(tables[key_table[k]][f], c)
  BY DEF AckedWrites
<1>1. CallInv /\ AckedInv /\ RaceInv
  BY DEF IInv, OpenInv
<1>2. /\ c \in DOMAIN calls /\ Writes(calls[c]) /\ calls[c].key = k /\ calls[c].rv = "kOK"
      /\ ~Deleted(c, DOMAIN calls)
  BY DEF Acknowledged
<1>3. WriterOK(c, calls[c])
  BY <1>1, <1>2 DEF CallInv, CallOK
<1>4. calls[c].pc = "done" /\ calls[c].todo = << >> /\ Elements(calls[c].fields) # {}
  BY <1>2, <1>3 DEF WriterOK
<1>5. Written(c) = Elements(calls[c].fields)
  BY <1>4, NoFields DEF Written, Unwritten
<1>6. \A f \in Elements(calls[c].fields) : Current(c, f)
  BY <1>1, <1>2, <1>5 DEF AckedInv
<1> QED
  BY <1>2, <1>4, <1>6 DEF Current

(* A write that returned kOK is in its record under each of its fields,    *)
(* unless a call that had not returned when it began wrote there since:    *)
(* calls of Update and Insert that overlap lose nothing, but for those that *)
(* write an incomplete record together, where the results of the insertions *)
(* are not looked at.                                                      *)
THEOREM AckedWritesStay == Spec => []AckedWrites
BY Invariance, AckedByInv, PTL

-------------------------------------------------------------------------------
(* The reads: their part of the invariant.                                 *)

(* Strings stay with the record that they were written to.                 *)
StringInv ==
  /\ \A t \in Calls, f \in Fields : tables[t][f] # 0 => calls[tables[t][f]].key = calls[t].key
  /\ \A d \in DOMAIN calls : \A c, f : Taken(d, c, f) => calls[c].key = calls[d].key

(* A read that is not marked as mixed has no update of its record beside   *)
(* it, and a scan none at all.                                             *)
MixedInv ==
  \A r, c \in Active : Reads(calls[r]) /\ calls[c].op = "Update" /\ ~calls[r].mixed =>
    calls[r].op = "Read" /\ calls[c].key # calls[r].key

(* Read r is to see field f as call c wrote it, or newer.                  *)
Sought(r, c, f) ==
  /\ c \in Acknowledged(calls[r].key, calls[r].prior)
  /\ f \in Elements(calls[c].fields) /\ f \in UNION Elements(calls[r].fields)

(* It has the string, or has copied it, ...                                *)
Fetched(r, c, f) == \E s \in calls[r].pairs : s[2] = f /\ NotBefore(s[1], c)
Copied(r, c, f) == \E x \in calls[r].result : x.str[2] = f /\ NotBefore(x.str[1], c)

(* ... or has still to fetch the field, and from the record.               *)
Ahead(r, f) ==
  /\ f \in UNION Elements(calls[r].todo)
  /\ calls[r].tables[Place(r)] = key_table[calls[r].key]

(* The field tables that a read has to go through are in the key table.    *)
TablesOK(r) ==
  /\ DOMAIN calls[r].tables \subseteq DOMAIN KeyOrder /\ DOMAIN calls[r].tables # {}
  /\ \A i \in DOMAIN calls[r].tables :
       /\ calls[r].tables[i] # 0 /\ Linked(calls[r].tables[i])
       /\ calls[r].op = "Read" => calls[r].tables[i] = key_table[calls[r].key]

(* A string that a read has a pointer to has been made, and not been       *)
(* deleted.                                                                *)
PairOK(r, c, f) ==
  /\ c \in DOMAIN calls /\ f \in Fields /\ ~Fresh(c, f)
  /\ calls[r].op = "Read" => calls[c].key = calls[r].key
  /\ ~calls[r].mixed => freed[<< c, f >>] = 0

(* How far a call that reads is.                                           *)
ReaderOK(r) ==
  /\ calls[r].pc \in {"get", "fetch", "walk", "copy"}
  /\ calls[r].todo \in Seq(SUBSET Fields) /\ calls[r].fields \in Seq(SUBSET Fields)
  /\ calls[r].fields # << >> /\ calls[r].mixed \in BOOLEAN
  /\ \A d \in DOMAIN calls : calls[d].op = "Delete" => d \in calls[r].prior
  /\ calls[r].pc = "get" =>
       calls[r].todo = calls[r].fields /\ calls[r].pairs = {} /\ calls[r].result = {}
  /\ calls[r].pc = "fetch" => calls[r].pairs = {} /\ calls[r].todo # << >>
  /\ calls[r].pc # "get" => TablesOK(r)
  /\ \A s \in calls[r].pairs : \E c, f : s = << c, f >> /\ PairOK(r, c, f)
  /\ ~calls[r].mixed => \A x \in calls[r].result : x.live
  /\ calls[r].pc # "get" /\ calls[r].key \notin raced =>
       \A c, f : Sought(r, c, f) => Fetched(r, c, f) \/ Copied(r, c, f) \/ Ahead(r, f)

(* What a read that has returned promises.                                 *)
Sound(r) ==
  ~calls[r].mixed =>
    /\ \A x \in calls[r].result : x.live
    /\ calls[r].key \notin raced => \A c, f : Sought(r, c, f) => Copied(r, c, f)

-------------------------------------------------------------------------------
(* Places.                                                                 *)

(* A set of numbers that is not empty has a least one.                     *)
LEMMA LeastIs ==
  ASSUME NEW S \in SUBSET Nat, S # {}
  PROVE  Least(S) \in S /\ \A j \in S : Least(S) <= j
<1>1. \E i \in S : \A j \in S : ~(<< j, i >> \in OpToRel(<, Nat))
  BY NatLessThanWellFounded, WFMin
<1>2. PICK i \in S : \A j \in S : ~(<< j, i >> \in OpToRel(<, Nat))
  BY <1>1
<1>3. \A j \in S : ~(<< j, i >> \in {p \in Nat \X Nat : p[1] < p[2]})
  BY ONLY <1>2, Zenon DEF OpToRel
<1>4. \A j \in S : i <= j
  <2>1. i \in Nat /\ S \subseteq Nat
    BY Zenon
  <2>2. \A j \in Nat : j < i => << j, i >> \in {p \in Nat \X Nat : p[1] < p[2]}
    BY ONLY <2>1
  <2>3. \A j \in S : ~(j < i)
    BY ONLY <1>3, <2>1, <2>2, Zenon
  <2> QED
    BY ONLY <2>1, <2>3
<1> QED
  BY <1>4 DEF Least

(* The entries from a key on begin with that of the key, if it is there.   *)
LEMMA EntriesFromAre ==
  ASSUME NEW T, NEW k \in Keys, NEW n \in Nat, n > 0, NEW S, S = EntriesFrom(T, k, n)
  PROVE  /\ S \subseteq DOMAIN KeyOrder
         /\ \A i \in S : T[KeyOrder[i]] # 0
         /\ S = {} <=> T[k] = 0
         /\ S # {} => KeyOrder[Least(S)] = k
         /\ n = 1 => \A i \in S : KeyOrder[i] = k
<1> DEFINE from == CHOOSE i \in DOMAIN KeyOrder : KeyOrder[i] = k
           there == {i \in from .. Len(KeyOrder) : T[KeyOrder[i]] # 0}
           before(i) == {h \in there : h < i}
<1>1. KeyOrder \in Seq(Keys) /\ DOMAIN KeyOrder = 1 .. Len(KeyOrder) /\ Len(KeyOrder) \in Nat
  BY HashtableDBAssumption
<1>2. \E i \in DOMAIN KeyOrder : KeyOrder[i] = k
  BY HashtableDBAssumption DEF Elements
<1>3. from \in DOMAIN KeyOrder /\ KeyOrder[from] = k
  BY <1>2
<1>4. S = IF T[k] = 0 THEN {} ELSE {i \in there : Cardinality(before(i)) < n}
  BY DEF EntriesFrom
<1> HIDE DEF from
<1>5. there \subseteq DOMAIN KeyOrder /\ (\A i \in there : T[KeyOrder[i]] # 0 /\ from <= i)
  BY <1>1, <1>3
<1>6. T[k] # 0 => from \in there
  BY <1>1, <1>3
<1>7. before(from) = {}
  BY <1>1, <1>3, <1>5
<1>8. Cardinality(before(from)) = 0
  BY <1>7, FS_EmptySet
<1>9. \A i : IsFiniteSet(before(i))
  <2>1. IsFiniteSet(from .. Len(KeyOrder))
    BY <1>1, <1>3, FS_Interval
  <2> QED
    BY <2>1, FS_Subset
<1>10. \A i \in there : i # from => T[k] = 0 \/ from \in before(i)
  BY <1>1, <1>3, <1>5, <1>6
<1> HIDE DEF there, before
<1>11. ASSUME n = 1, NEW i \in S
       PROVE  i = from
  <2>1. T[k] # 0 /\ i \in there /\ Cardinality(before(i)) < 1
    BY <1>4, <1>11
  <2>2. Cardinality(before(i)) = 0
    BY <1>9, <2>1, FS_CardinalityType
  <2>3. before(i) = {}
    BY <1>9, <2>2, FS_EmptySet
  <2> QED
    BY <1>10, <2>1, <2>3
<1>12. S \subseteq there /\ (T[k] # 0 => from \in S) /\ (T[k] = 0 => S = {})
  BY <1>4, <1>6, <1>8
<1>13. ASSUME S # {}
       PROVE  Least(S) = from
  <2>1. from \in S /\ S \subseteq Nat
    BY <1>1, <1>5, <1>12, <1>13
  <2>2. Least(S) \in S /\ Least(S) <= from
    BY <2>1, LeastIs
  <2> QED
    BY <1>5, <1>12, <2>1, <2>2
<1> QED
  BY <1>3, <1>5, <1>11, <1>12, <1>13

-------------------------------------------------------------------------------
(* What the others do beside a read.                                       *)

(* All that a step of call c may change: a record that was not there, a    *)
(* field of the table it holds, a string that nobody can have a pointer to *)
(* or that it has taken out of a table.                                    *)
Touches(c) ==
  /\ Evolves(c) /\ raced' = raced /\ destroyed' = destroyed
  /\ calls[c].op # "Delete" => \A k \in Keys : key_table[k] # 0 => key_table'[k] = key_table[k]
  /\ \A t \in Calls, f \in Fields :
       tables'[t][f] = tables[t][f] \/ (tables'[t][f] = c /\ Holds(c) /\ t = calls[c].table)
  /\ calls[c].op # "Delete" => \A e \in Calls, f \in Fields :
       freed'[<< e, f >>] = freed[<< e, f >>] \/ Fresh(e, f) \/ Taken(c, e, f)
  /\ \A e, f : Taken(c, e, f)' => Holds(c) /\ e # 0 /\ e = tables[calls[c].table][f]
  /\ \A f : Fresh(c, f)' => Fresh(c, f)

(* Update and Insert before their first field.                             *)
LEMMA RecordTouches ==
  ASSUME TypeInv, CallInv, OpenInv, NEW c \in Active, FindRecord(c) \/ LinkRecord(c)
  PROVE  Touches(c)
<1> DEFINE x == calls[c]
<1>1. /\ Writes(x) /\ x.pc \in {"get", "link"} /\ x.op # "Delete"
      /\ UNCHANGED << tables, freed, raced, destroyed >>
      /\ \A k \in Keys : key_table[k] # 0 => key_table'[k] = key_table[k]
  <2>1. CASE FindRecord(c)
    BY <2>1 DEF FindRecord, At, Writes
  <2>2. CASE LinkRecord(c)
    BY <2>2 DEF LinkRecord, At, Writes, Insert, TypeInv
  <2> QED
    BY <2>1, <2>2
<1>2. c \in DOMAIN calls /\ DOMAIN x = Parts
  BY DEF Active, CallInv, CallOK
<1>3. PICK y : /\ Set(c, y) /\ DOMAIN y = Parts
               /\ y.op = x.op /\ y.key = x.key /\ y.prior = x.prior /\ y.fields = x.fields
               /\ y.todo = x.todo /\ y.pc \in {"write", "link"}
  <2>1. LET z == [x EXCEPT !.pc = "link", !.table = c, !.new = TRUE]
        IN  /\ DOMAIN z = Parts
            /\ z.op = x.op /\ z.key = x.key /\ z.prior = x.prior /\ z.fields = x.fields
            /\ z.todo = x.todo /\ z.pc \in {"write", "link"}
    BY <1>2 DEF Parts
  <2>2. \A v : LET z == [x EXCEPT !.pc = "write", !.table = v]
               IN  /\ DOMAIN z = Parts
                   /\ z.op = x.op /\ z.key = x.key /\ z.prior = x.prior /\ z.fields = x.fields
                   /\ z.todo = x.todo /\ z.pc \in {"write", "link"}
    BY <1>2 DEF Parts
  <2>3. LET z == [x EXCEPT !.pc = "write"]
        IN  /\ DOMAIN z = Parts
            /\ z.op = x.op /\ z.key = x.key /\ z.prior = x.prior /\ z.fields = x.fields
            /\ z.todo = x.todo /\ z.pc \in {"write", "link"}
    BY <1>2 DEF Parts
  <2>4. PICK v : \/ Set(c, [x EXCEPT !.pc = "link", !.table = c, !.new = TRUE])
                 \/ Set(c, [x EXCEPT !.pc = "write", !.table = v])
                 \/ Set(c, [x EXCEPT !.pc = "write"])
    <3>1. CASE FindRecord(c)
      BY <3>1 DEF FindRecord
    <3>2. CASE LinkRecord(c)
      BY <3>2 DEF LinkRecord
    <3> QED
      BY <3>1, <3>2
  <2>5. CASE Set(c, [x EXCEPT !.pc = "link", !.table = c, !.new = TRUE])
    BY <2>1, <2>5
  <2>6. CASE Set(c, [x EXCEPT !.pc = "write", !.table = v])
    BY <2>2, <2>6
  <2>7. CASE Set(c, [x EXCEPT !.pc = "write"])
    BY <2>3, <2>7
  <2> QED
    BY <2>4, <2>5, <2>6, <2>7
<1>4. Evolves(c) /\ calls'[c] = y
  BY <1>3, SetEvolves
<1>5. \A e, f : ~Taken(c, e, f)'
  BY <1>3, <1>4 DEF Taken
<1>6. \A f : Fresh(c, f)' => Fresh(c, f)
  <2>1. Unwritten(c)' = Unwritten(c)
    BY <1>1, <1>3, <1>4 DEF Unwritten
  <2> QED
    BY <1>1, <1>2, <1>4, <2>1 DEF Fresh, Evolves
<1> QED
  BY <1>1, <1>4, <1>5, <1>6 DEF Touches

(* A field of an insertion, or of a record the update has made.            *)
LEMMA InsertFieldTouches ==
  ASSUME TypeInv, CallInv, OpenInv, NEW c \in Active, InsertField(c)
  PROVE  Touches(c)
<1> DEFINE x == calls[c]
<1>0. PICK t, f : t = x.table /\ f = Field(c)
  OBVIOUS
<1>1. /\ Writes(x) /\ x.pc = "write" /\ (x.op = "Insert" \/ (x.op = "Update" /\ x.new))
      /\ Inserts(t, f, c)
      /\ Set(c, IF tables[t][f] = 0 \/ x.op = "Update" THEN NextField(x)
                ELSE Return(x, "kErrorConflict"))
      /\ DeleteStrings(IF tables[t][f] = 0 \/ x.op = "Update" THEN {} ELSE {<< c, f >>})
      /\ UNCHANGED << key_table, raced, destroyed >>
  BY <1>0 DEF InsertField, Inserts, At, Writes
<1>2. /\ c \in DOMAIN calls /\ c \in Calls /\ DOMAIN x = Parts /\ WriterOK(c, x)
      /\ t \in Calls /\ f \in Fields /\ Holds(c)
      /\ x.key \notin raced => OnRecord(c) /\ t = key_table[x.key]
      /\ f \in Elements(x.todo)
  BY <1>0, <1>1, FieldFacts
<1>3. Fresh(c, f)
  BY <1>0, <1>1, AboutToWrite
<1>4. /\ tables' \in [Calls -> [Fields -> 0 .. MaxCalls]]
      /\ tables[t][f] = 0 => tables'[t][f] = c
      /\ tables[t][f] # 0 => tables' = tables
      /\ tables'[t][f] \in {tables[t][f], c}
      /\ \A u \in Calls, g \in Fields : u # t \/ g # f => tables'[u][g] = tables[u][g]
  BY <1>1, <1>2, InsertIs
<1>5. \A u \in Calls, g \in Fields :
        tables'[u][g] = tables[u][g] \/ (tables'[u][g] = c /\ Holds(c) /\ u = calls[c].table)
  BY <1>0, <1>2, <1>4
<1>6. CASE tables[t][f] = 0 \/ x.op = "Update"
  <2>1. freed' = freed
    BY <1>1, <1>6 DEF DeleteStrings, TypeInv
  <2>2. x.key \notin raced => tables[t][f] = 0
    BY <1>1, <1>2, <1>6 DEF OnRecord, WriterOK
  <2>3. /\ WritesField(c, t, f)
        /\ \A e, g : ~Taken(c, e, g)'
        /\ \A g : Fresh(c, g)' => Fresh(c, g) /\ g # f
    <3>1. Set(c, NextField(x)) /\ freed' \in [Calls \X Fields -> Nat]
      BY <1>1, <1>6, <2>1 DEF TypeInv
    <3> QED
      BY <1>0, <1>1, <1>4, <2>2, <3>1, NextStep
  <2>4. Evolves(c)
    BY <2>3 DEF WritesField
  <2> QED
    BY <1>1, <1>5, <2>1, <2>3, <2>4 DEF Touches
<1>7. CASE tables[t][f] # 0 /\ x.op = "Insert"
  <2> DEFINE y == Return(x, "kErrorConflict")
  <2>1. /\ DOMAIN y = Parts /\ y.op = x.op /\ y.key = x.key /\ y.prior = x.prior
        /\ y.fields = x.fields /\ y.pc = "done"
    BY <1>2 DEF Return, Parts
  <2>2. Set(c, y) /\ DeleteStrings({<< c, f >>})
    BY <1>1, <1>7
  <2> HIDE DEF y
  <2>3. Evolves(c) /\ calls'[c] = y
    BY <2>1, <2>2, SetEvolves
  <2>4. \A e, g : ~Taken(c, e, g)'
    BY <2>1, <2>3 DEF Taken
  <2>5. \A g : ~Fresh(c, g)'
    BY <1>2, <2>1, <2>3 DEF Fresh, Active, Evolves
  <2>6. \A e \in Calls, g \in Fields : freed'[<< e, g >>] = freed[<< e, g >>] \/ Fresh(e, g)
    <3>1. \A e \in Calls, g \in Fields : << e, g >> \notin {<< c, f >>} =>
            freed'[<< e, g >>] = freed[<< e, g >>]
      BY <2>2, Counted
    <3> QED
      BY <1>3, <3>1
  <2> QED
    BY <1>1, <1>5, <2>3, <2>4, <2>5, <2>6 DEF Touches
<1> QED
  BY <1>1, <1>6, <1>7

(* A field of a record that was there.                                     *)
LEMMA UpdateFieldTouches ==
  ASSUME TypeInv, CallInv, OpenInv, NEW c \in Active, UpdateField(c)
  PROVE  Touches(c)
<1> DEFINE x == calls[c]
<1>0. PICK t, f : t = x.table /\ f = Field(c)
  OBVIOUS
<1> DEFINE old == tables[t][f]
           y == [x EXCEPT !.old = old, !.pc = IF old = 0 THEN "add" ELSE "free"]
<1>1. /\ Writes(x) /\ x.pc = "write" /\ x.op = "Update"
      /\ Updates(t, f, c) /\ Set(c, y)
      /\ UNCHANGED << key_table, freed, raced, destroyed >>
  BY <1>0 DEF UpdateField, Updates, At, Writes, Get
<1>2. /\ c \in DOMAIN calls /\ c \in Calls /\ DOMAIN x = Parts
      /\ t \in Calls /\ f \in Fields /\ Holds(c)
      /\ Elements(x.todo) = Elements(Tail(x.todo)) \cup {f}
  BY <1>0, <1>1, FieldFacts
<1>3. /\ tables'[t][f] \in {tables[t][f], c}
      /\ \A u \in Calls, g \in Fields : u # t \/ g # f => tables'[u][g] = tables[u][g]
  BY <1>1, <1>2, UpdateIs
<1>4. /\ DOMAIN y = Parts /\ y.op = x.op /\ y.key = x.key /\ y.prior = x.prior
      /\ y.fields = x.fields /\ y.todo = x.todo /\ y.old = old
      /\ old = 0 => y.pc = "add"
  BY <1>2 DEF Parts
<1> HIDE DEF y, old
<1>5. Evolves(c) /\ calls'[c] = y
  BY <1>1, <1>4, SetEvolves
<1>6. \A e, g : Taken(c, e, g)' => e = old /\ g = f /\ old # 0
  BY <1>0, <1>4, <1>5 DEF Taken, Field
<1>7. \A g : Fresh(c, g)' => Fresh(c, g)
  <2>1. Unwritten(c) = Elements(x.todo)
    BY <1>1 DEF Unwritten
  <2>2. Unwritten(c)' \subseteq Elements(x.todo)
    BY <1>2, <1>4, <1>5 DEF Unwritten
  <2> QED
    BY <1>1, <1>2, <1>5, <2>1, <2>2 DEF Fresh, Evolves
<1>8. \A u \in Calls, g \in Fields :
        tables'[u][g] = tables[u][g] \/ (tables'[u][g] = c /\ Holds(c) /\ u = calls[c].table)
  BY <1>0, <1>2, <1>3
<1> QED
  BY <1>0, <1>1, <1>2, <1>5, <1>6, <1>7, <1>8 DEF Touches, old

(* A field that was not there is added.                                    *)
LEMMA AddFieldTouches ==
  ASSUME TypeInv, CallInv, OpenInv, NEW c \in Active, AddField(c)
  PROVE  Touches(c)
<1> DEFINE x == calls[c]
<1>0. PICK t, f : t = x.table /\ f = Field(c)
  OBVIOUS
<1>1. /\ Writes(x) /\ x.pc = "add" /\ x.op = "Update"
      /\ Inserts(t, f, c) /\ Set(c, NextField(x))
      /\ UNCHANGED << key_table, freed, raced, destroyed >>
  BY <1>0 DEF AddField, Inserts, At, Writes
<1>2. /\ c \in Calls /\ t \in Calls /\ f \in Fields /\ Holds(c)
      /\ x.key \notin raced => OnRecord(c) /\ t = key_table[x.key]
  BY <1>0, <1>1, FieldFacts
<1>3. /\ tables' \in [Calls -> [Fields -> 0 .. MaxCalls]]
      /\ freed' \in [Calls \X Fields -> Nat]
      /\ tables[t][f] = 0 => tables'[t][f] = c
      /\ tables'[t][f] \in {tables[t][f], c}
      /\ \A u \in Calls, g \in Fields : u # t \/ g # f => tables'[u][g] = tables[u][g]
  BY <1>1, <1>2, InsertIs DEF TypeInv
<1>4. x.key \notin raced => tables[t][f] = 0
  BY <1>0, <1>1, <1>2 DEF OnRecord
<1>5. /\ WritesField(c, t, f)
      /\ \A e, g : ~Taken(c, e, g)'
      /\ \A g : Fresh(c, g)' => Fresh(c, g) /\ g # f
  BY <1>0, <1>1, <1>3, <1>4, NextStep
<1>6. Evolves(c)
  BY <1>5 DEF WritesField
<1>7. \A u \in Calls, g \in Fields :
        tables'[u][g] = tables[u][g] \/ (tables'[u][g] = c /\ Holds(c) /\ u = calls[c].table)
  BY <1>0, <1>2, <1>3
<1> QED
  BY <1>1, <1>5, <1>6, <1>7 DEF Touches

(* The string that was replaced is deleted.                                *)
LEMMA DeleteOldTouches ==
  ASSUME TypeInv, CallInv, OpenInv, NEW c \in Active, DeleteOld(c)
  PROVE  Touches(c)
<1> DEFINE x == calls[c]
<1>0. PICK t, f, s : t = x.table /\ f = Field(c) /\ s = x.old
  OBVIOUS
<1>1. /\ Writes(x) /\ x.op = "Update" /\ x.pc = "free"
      /\ DeleteStrings({<< s, f >>}) /\ Set(c, NextField(x))
      /\ UNCHANGED << key_table, tables, raced, destroyed >>
  BY <1>0 DEF DeleteOld, At, Writes
<1>2. Taken(c, s, f)
  BY <1>0, <1>1 DEF Taken
<1>3. freed' \in [Calls \X Fields -> Nat]
  BY <1>1 DEF DeleteStrings, TypeInv
<1>4. /\ WritesField(c, t, f)
      /\ \A e, g : ~Taken(c, e, g)'
      /\ \A g : Fresh(c, g)' => Fresh(c, g) /\ g # f
  BY <1>0, <1>1, <1>3, NextStep DEF TypeInv
<1>5. Evolves(c)
  BY <1>4 DEF WritesField
<1>6. \A e \in Calls, g \in Fields : freed'[<< e, g >>] = freed[<< e, g >>] \/ Taken(c, e, g)
  <2>1. \A e \in Calls, g \in Fields : << e, g >> \notin {<< s, f >>} =>
          freed'[<< e, g >>] = freed[<< e, g >>]
    BY <1>1, Counted
  <2> QED
    BY <1>2, <2>1
<1> QED
  BY <1>1, <1>4, <1>5, <1>6 DEF Touches

(* A read touches nothing.                                                 *)
LEMMA ReadTouches ==
  ASSUME CallInv, NEW c \in Active, ReadsOn(c)
  PROVE  Touches(c)
<1>1. ~Writes(calls'[c]) /\ calls'[c].op # "Update" /\ c \in DOMAIN calls
  BY DEF ReadsOn, Evolves, Reads, Writes, Active
<1>2. \A e, f : ~Taken(c, e, f)'
  BY <1>1 DEF Taken
<1>3. \A f : ~Fresh(c, f)'
  BY <1>1 DEF Fresh, ReadsOn, Evolves
<1> QED
  BY <1>2, <1>3 DEF Touches, ReadsOn

(* A deletion runs alone.                                                  *)
LEMMA DeleteTouches ==
  ASSUME TypeInv, CallInv, OpenInv, NEW c \in Active,
         RemoveRecord(c) \/ DeleteFieldHashtable(c)
  PROVE  Touches(c)
<1> DEFINE x == calls[c]
<1>1. x.op = "Delete" /\ UNCHANGED << tables, raced, destroyed >>
  BY DEF RemoveRecord, DeleteFieldHashtable, At
<1>2. c \in DOMAIN calls /\ DOMAIN x = Parts
  BY DEF Active, CallInv, CallOK
<1>3. PICK y : /\ Set(c, y) /\ DOMAIN y = Parts
               /\ y.op = x.op /\ y.key = x.key /\ y.prior = x.prior /\ y.fields = x.fields
  <2>1. PICK v, w : \/ Set(c, Return(x, v))
                    \/ Set(c, [x EXCEPT !.pc = "destroy", !.table = w])
    <3>1. CASE RemoveRecord(c)
      BY <3>1 DEF RemoveRecord
    <3>2. CASE DeleteFieldHashtable(c)
      BY <3>2 DEF DeleteFieldHashtable
    <3> QED
      BY <3>1, <3>2
  <2>2. CASE Set(c, Return(x, v))
    <3> DEFINE z == Return(x, v)
    <3>1. /\ DOMAIN z = Parts
          /\ z.op = x.op /\ z.key = x.key /\ z.prior = x.prior /\ z.fields = x.fields
      BY <1>2 DEF Parts, Return
    <3> QED
      BY <2>2, <3>1
  <2>3. CASE Set(c, [x EXCEPT !.pc = "destroy", !.table = w])
    <3> DEFINE z == [x EXCEPT !.pc = "destroy", !.table = w]
    <3>1. /\ DOMAIN z = Parts
          /\ z.op = x.op /\ z.key = x.key /\ z.prior = x.prior /\ z.fields = x.fields
      BY <1>2 DEF Parts
    <3> QED
      BY <2>3, <3>1
  <2> QED
    BY <2>1, <2>2, <2>3
<1>4. Evolves(c) /\ calls'[c].op = "Delete" /\ ~Writes(calls'[c])
  BY <1>1, <1>3, SetEvolves DEF Writes
<1>5. (\A e, f : ~Taken(c, e, f)') /\ (\A f : ~Fresh(c, f)')
  BY <1>2, <1>4 DEF Taken, Fresh, Evolves
<1> QED
  BY <1>1, <1>4, <1>5 DEF Touches

(* Every step of a call.                                                   *)
LEMMA StepTouches ==
  ASSUME TypeInv, CallInv, OpenInv, NEW c \in Active, Step(c)
  PROVE  Touches(c)
<1>1. CASE FindRecord(c) \/ LinkRecord(c)
  BY <1>1, RecordTouches
<1>2. CASE InsertField(c)
  BY <1>2, InsertFieldTouches
<1>3. CASE UpdateField(c)
  BY <1>3, UpdateFieldTouches
<1>4. CASE AddField(c)
  BY <1>4, AddFieldTouches
<1>5. CASE DeleteOld(c)
  BY <1>5, DeleteOldTouches
<1>6. CASE FindTables(c)
  BY <1>6, FindTablesIs, ReadTouches
<1>7. CASE FetchFields(c)
  BY <1>7, FetchFieldsIs, ReadTouches
<1>10. CASE FetchLate(c)
  BY <1>10, FetchLateIs, ReadTouches
<1>8. CASE CopyToResult(c)
  BY <1>8, CopyToResultIs, ReadTouches
<1>9. CASE RemoveRecord(c) \/ DeleteFieldHashtable(c)
  BY <1>9, DeleteTouches
<1> QED
  BY <1>1, <1>2, <1>3, <1>4, <1>5, <1>6, <1>7, <1>8, <1>9, <1>10 DEF Step

-------------------------------------------------------------------------------
(* A read while others go on.                                              *)

(* Calls that have returned stay as they are, so what a read is to see     *)
(* does.                                                                   *)
Settled ==
  \A c \in DOMAIN calls :
    /\ c \in DOMAIN calls' /\ calls'[c].key = calls[c].key /\ calls'[c].op = calls[c].op
    /\ calls'[c].fields = calls[c].fields /\ calls'[c].prior = calls[c].prior
    /\ calls[c].pc = "done" => calls'[c] = calls[c]

(* What a read is to see, and what counts as no older, is settled when it  *)
(* begins.                                                                 *)
LEMMA SoughtStays ==
  ASSUME CallInv, Settled, NEW r \in DOMAIN calls, NEW c, NEW f
  PROVE  /\ Sought(r, c, f)' <=> Sought(r, c, f)
         /\ Sought(r, c, f) => \A v : NotBefore(v, c)' <=> NotBefore(v, c)
<1>0. PICK D, k : D = calls[r].prior /\ k = calls[r].key
  OBVIOUS
<1>1. D \subseteq DOMAIN calls /\ \A d \in D : calls[d].pc = "done"
  BY <1>0 DEF CallInv, CallOK, Active
<1>2. calls'[r].prior = D /\ calls'[r].key = k /\ calls'[r].fields = calls[r].fields
  BY <1>0 DEF Settled
<1>3. \A d \in D : calls'[d] = calls[d]
  BY <1>1 DEF Settled
<1>4. \A d \in D : Deleted(d, D)' <=> Deleted(d, D)
  BY <1>3 DEF Deleted
<1>5. c \in Acknowledged(k, D)' <=> c \in Acknowledged(k, D)
  BY <1>3, <1>4 DEF Acknowledged, Writes
<1>6. c \in Acknowledged(k, D) => c \in D
  BY DEF Acknowledged
<1>7. c \in Acknowledged(k, D) =>
        calls'[c].fields = calls[c].fields /\ calls'[c].prior = calls[c].prior
  BY <1>3, <1>6
<1> QED
  BY <1>0, <1>2, <1>5, <1>7 DEF Sought, NotBefore

(* A read that has returned.                                               *)
LEMMA SoundStays ==
  ASSUME CallInv, Settled, raced \subseteq raced',
         NEW r \in DOMAIN calls, calls[r].pc = "done", Sound(r)
  PROVE  Sound(r)'
<1>1. calls'[r] = calls[r]
  BY DEF Settled
<1>2. ASSUME ~calls[r].mixed, calls[r].key \notin raced, NEW c, NEW f, Sought(r, c, f)'
      PROVE  Copied(r, c, f)'
  <2>1. Sought(r, c, f) /\ \A v : NotBefore(v, c)' <=> NotBefore(v, c)
    BY <1>2, SoughtStays
  <2>2. Copied(r, c, f)
    BY <1>2, <2>1 DEF Sound
  <2> QED
    BY <1>1, <2>1, <2>2 DEF Copied
<1>3. ~calls[r].mixed => \A x \in calls[r].result : x.live
  BY DEF Sound
<1> QED
  BY <1>1, <1>2, <1>3 DEF Sound

(* The place of a read is one of those it has found.                       *)
LEMMA PlaceIs ==
  ASSUME NEW r, TablesOK(r)
  PROVE  Place(r) \in DOMAIN calls[r].tables
<1>1. DOMAIN KeyOrder \subseteq Nat
  BY HashtableDBAssumption
<1> QED
  BY <1>1, LeastIs DEF TablesOK, Place

(* Read r itself is left alone, or marked as mixed.                        *)
Waits(r) ==
  /\ calls'[r].pc = calls[r].pc /\ calls'[r].todo = calls[r].todo
  /\ calls'[r].tables = calls[r].tables
  /\ calls'[r].pairs = calls[r].pairs /\ calls'[r].result = calls[r].result
  /\ calls'[r].mixed = calls[r].mixed \/ calls'[r].mixed = TRUE

(* A read that has not returned: the records it goes through stay, and     *)
(* so do the strings it has pointers to.                                   *)
LEMMA ReaderStays ==
  ASSUME CallInv, Settled, raced \subseteq raced',
         NEW r \in DOMAIN calls, ReaderOK(r), Waits(r),
         \A k \in Keys : key_table[k] # 0 => key_table'[k] = key_table[k],
         \A d \in DOMAIN calls' : calls'[d].op = "Delete" => d \in DOMAIN calls,
         \A c, f : PairOK(r, c, f) => PairOK(r, c, f)'
  PROVE  ReaderOK(r)'
<1>1. /\ calls'[r].op = calls[r].op /\ calls'[r].key = calls[r].key
      /\ calls'[r].fields = calls[r].fields /\ calls'[r].prior = calls[r].prior
      /\ calls[r].key \in Keys
  BY DEF Settled, CallInv, CallOK
<1>2. \A d \in DOMAIN calls' : calls'[d].op = "Delete" => d \in calls'[r].prior
  BY <1>1 DEF ReaderOK, Settled
<1>3. ASSUME calls[r].pc # "get"
      PROVE  TablesOK(r)'
  <2>1. TablesOK(r)
    BY <1>3 DEF ReaderOK
  <2>2. ASSUME NEW i \in DOMAIN calls[r].tables
        PROVE  /\ calls[r].tables[i] # 0
               /\ \E k \in Keys : key_table'[k] = calls[r].tables[i]
               /\ calls[r].op = "Read" => calls[r].tables[i] = key_table'[calls[r].key]
    BY <1>1, <2>1 DEF TablesOK, Linked
  <2> QED
    BY <1>1, <2>1, <2>2 DEF TablesOK, Waits, Linked
<1>4. ASSUME calls[r].pc # "get", calls[r].key \notin raced', NEW c, NEW f, Sought(r, c, f)'
      PROVE  Fetched(r, c, f)' \/ Copied(r, c, f)' \/ Ahead(r, f)'
  <2>1. Sought(r, c, f) /\ \A v : NotBefore(v, c)' <=> NotBefore(v, c)
    BY <1>4, SoughtStays
  <2>2. Fetched(r, c, f) \/ Copied(r, c, f) \/ Ahead(r, f)
    BY <1>4, <2>1 DEF ReaderOK
  <2>3. CASE Fetched(r, c, f)
    BY <2>1, <2>3 DEF Fetched, Waits
  <2>4. CASE Copied(r, c, f)
    BY <2>1, <2>4 DEF Copied, Waits
  <2>5. CASE Ahead(r, f)
    <3>1. TablesOK(r)
      BY <1>4 DEF ReaderOK
    <3>2. calls[r].tables[Place(r)] # 0
      BY <3>1, PlaceIs DEF TablesOK
    <3>3. Place(r)' = Place(r)
      BY DEF Place, Waits
    <3> QED
      BY <1>1, <2>5, <3>2, <3>3 DEF Ahead, Waits
  <2> QED
    BY <2>2, <2>3, <2>4, <2>5
<1>5. \A s \in calls'[r].pairs : \E c, f : s = << c, f >> /\ PairOK(r, c, f)'
  BY DEF ReaderOK, Waits
<1>6. ~calls'[r].mixed => \A x \in calls'[r].result : x.live
  BY DEF ReaderOK, Waits
<1>7. /\ calls'[r].pc \in {"get", "fetch", "walk", "copy"}
      /\ calls'[r].todo \in Seq(SUBSET Fields) /\ calls'[r].fields \in Seq(SUBSET Fields)
      /\ calls'[r].fields # << >> /\ calls'[r].mixed \in BOOLEAN
      /\ calls'[r].pc = "get" =>
           calls'[r].todo = calls'[r].fields /\ calls'[r].pairs = {} /\ calls'[r].result = {}
      /\ calls'[r].pc = "fetch" => calls'[r].pairs = {} /\ calls'[r].todo # << >>
  BY <1>1 DEF ReaderOK, Waits
<1>8. calls'[r].pc = calls[r].pc /\ calls'[r].key = calls[r].key
  BY <1>1 DEF Waits
<1> QED
  BY <1>2, <1>3, <1>4, <1>5, <1>6, <1>7, <1>8 DEF ReaderOK

(* What a read is to see is in the record.                                 *)
LEMMA SoughtIsThere ==
  ASSUME CallInv, AckedInv, NEW r \in DOMAIN calls, ReaderOK(r), calls[r].key \notin raced,
         NEW c, NEW f, Sought(r, c, f)
  PROVE  /\ c \in DOMAIN calls /\ f \in Fields /\ calls[c].key = calls[r].key /\ Current(c, f)
<1>1. /\ c \in calls[r].prior /\ Writes(calls[c]) /\ calls[c].key = calls[r].key
      /\ calls[c].rv = "kOK" /\ ~Deleted(c, calls[r].prior) /\ f \in Elements(calls[c].fields)
  BY DEF Sought, Acknowledged
<1>2. c \in DOMAIN calls /\ CallOK(c)
  BY <1>1 DEF CallInv, CallOK
<1>3. WriterOK(c, calls[c])
  BY <1>1, <1>2 DEF CallOK
<1>4. calls[c].pc = "done" /\ calls[c].todo = << >> /\ f \in Fields
  BY <1>1, <1>3 DEF WriterOK
<1>5. Written(c) = Elements(calls[c].fields)
  BY <1>4, NoFields DEF Written, Unwritten
<1>6. ~Deleted(c, DOMAIN calls)
  BY <1>1 DEF Deleted, ReaderOK
<1> QED
  BY <1>1, <1>2, <1>4, <1>5, <1>6 DEF AckedInv

-------------------------------------------------------------------------------
(* A read that goes on.                                                    *)

(* What a step of read r leaves as it is.                                  *)
LEMMA ReadsOnKeeps ==
  ASSUME TypeInv, CallInv, OpenInv, NEW r \in Active, ReadsOn(r), ReaderOK(r)
  PROVE  /\ r \in DOMAIN calls /\ Settled
         /\ calls'[r].op = calls[r].op /\ calls'[r].key = calls[r].key /\ calls[r].key \in Keys
         /\ calls'[r].fields = calls[r].fields /\ calls'[r].mixed = calls[r].mixed
         /\ calls'[r].fields \in Seq(SUBSET Fields)
         /\ calls'[r].fields # << >> /\ calls'[r].mixed \in BOOLEAN
         /\ \A d \in DOMAIN calls' : calls'[d].op = "Delete" => d \in calls'[r].prior
         /\ \A c, f : PairOK(r, c, f) => PairOK(r, c, f)'
         /\ \A c, f : Sought(r, c, f)' => Sought(r, c, f) /\ \A v : NotBefore(v, c)' <=> NotBefore(v, c)
<1>1. r \in DOMAIN calls /\ calls[r].pc # "done" /\ calls[r].key \in Keys
  BY DEF Active, CallInv, CallOK
<1>2. Evolves(r) /\ Reads(calls[r]) /\ calls'[r].mixed = calls[r].mixed
      /\ UNCHANGED << key_table, tables, freed, raced, destroyed >>
  BY DEF ReadsOn
<1>3. Settled
  BY <1>1, <1>2 DEF Settled, Evolves
<1>4. \A c, f : Fresh(c, f)' => Fresh(c, f)
  <2>1. ~Writes(calls[r]) /\ ~Writes(calls'[r])
    BY <1>2 DEF Reads, Writes, Evolves
  <2>2. DOMAIN calls' = DOMAIN calls
    BY <1>2 DEF Evolves
  <2>3. \A c \in DOMAIN calls : c # r => \A f : Fresh(c, f)' <=> Fresh(c, f)
    BY <1>2, Undisturbed DEF OpenInv
  <2>4. \A f : ~Fresh(r, f)'
    BY <1>1, <2>1, <2>2 DEF Fresh
  <2>5. \A c, f : c \notin DOMAIN calls => Fresh(c, f)
    BY DEF Fresh
  <2> QED
    BY <2>3, <2>4, <2>5
<1>5. \A c, f : PairOK(r, c, f) => PairOK(r, c, f)'
  <2> SUFFICES ASSUME NEW c, NEW f, PairOK(r, c, f)
               PROVE  PairOK(r, c, f)'
    OBVIOUS
  <2>1. c \in DOMAIN calls /\ c \in DOMAIN calls' /\ calls'[c].key = calls[c].key
    BY <1>3 DEF PairOK, Settled
  <2>2. calls'[r].op = calls[r].op /\ calls'[r].key = calls[r].key
    BY <1>1, <1>3 DEF Settled
  <2> QED
    BY <1>2, <1>4, <2>1, <2>2 DEF PairOK
<1>6. \A d \in DOMAIN calls' : calls'[d].op = "Delete" => d \in calls'[r].prior
  BY <1>1, <1>2, <1>3 DEF ReaderOK, Settled, Evolves
<1>7. \A c, f : Sought(r, c, f)' => Sought(r, c, f) /\ \A v : NotBefore(v, c)' <=> NotBefore(v, c)
  BY <1>1, <1>3, SoughtStays
<1> QED
  BY <1>1, <1>2, <1>3, <1>5, <1>6, <1>7 DEF Settled, ReaderOK

(* The tables of the records, the first of them that of the key.           *)
LEMMA FindTablesOK ==
  ASSUME TypeInv, CallInv, OpenInv, NEW r \in Active, ReadsOn(r), ReaderOK(r),
         NEW n \in Nat \ {0}, NEW m \in SUBSET (Keys \ {calls[r].key}),
         NEW S, S = EntriesFrom(Without(m), calls[r].key, n), Finds(r, S),
         calls[r].op = "Read" => n = 1
  PROVE  /\ calls'[r].pc # "done" => ReaderOK(r)'
         /\ calls'[r].pc = "done" => Sound(r)'
<1>1. /\ r \in DOMAIN calls /\ Settled
      /\ calls'[r].op = calls[r].op /\ calls'[r].key = calls[r].key /\ calls[r].key \in Keys
      /\ calls'[r].fields = calls[r].fields /\ calls'[r].mixed = calls[r].mixed
      /\ calls'[r].fields \in Seq(SUBSET Fields)
      /\ calls'[r].fields # << >> /\ calls'[r].mixed \in BOOLEAN
      /\ \A d \in DOMAIN calls' : calls'[d].op = "Delete" => d \in calls'[r].prior
      /\ \A c, f : Sought(r, c, f)' => Sought(r, c, f) /\ \A v : NotBefore(v, c)' <=> NotBefore(v, c)
  BY ReadsOnKeeps
<1>2. /\ calls[r].pc = "get" /\ calls'[r].todo = calls'[r].fields
      /\ calls'[r].pairs = {} /\ calls'[r].result = {}
      /\ S = {} => calls'[r].pc = "done"
      /\ S # {} => /\ calls'[r].pc = "fetch"
                   /\ calls'[r].tables = [i \in S |-> key_table[KeyOrder[i]]]
  BY <1>1 DEF Finds, ReaderOK
<1>3. key_table' = key_table /\ raced' = raced
  BY DEF ReadsOn
<1>4. /\ S \subseteq DOMAIN KeyOrder
      /\ \A i \in S : key_table[KeyOrder[i]] # 0
      /\ S = {} <=> key_table[calls[r].key] = 0
      /\ S # {} => KeyOrder[Least(S)] = calls[r].key
      /\ n = 1 => \A i \in S : KeyOrder[i] = calls[r].key
  <2> DEFINE T == Without(m)
  <2>1. T[calls[r].key] = key_table[calls[r].key] /\ \A k \in Keys : T[k] # 0 => key_table[k] # 0
    BY <1>1 DEF Without
  <2>2. \A i \in DOMAIN KeyOrder : KeyOrder[i] \in Keys
    BY HashtableDBAssumption
  <2> HIDE DEF T
  <2>3. S = EntriesFrom(T, calls[r].key, n)
    BY DEF T
  <2> QED
    BY <1>1, <2>1, <2>2, <2>3, EntriesFromAre
<1>5. CASE S = {}
  <2>1. calls[r].key \notin raced => \A c, f : ~Sought(r, c, f)
    <3> SUFFICES ASSUME calls[r].key \notin raced, NEW c, NEW f, Sought(r, c, f)
                 PROVE  FALSE
      OBVIOUS
    <3>1. calls[c].key = calls[r].key /\ Current(c, f)
      BY <1>1, SoughtIsThere DEF OpenInv
    <3> QED
      BY <1>4, <1>5, <3>1 DEF Current
  <2>2. Sound(r)'
    BY <1>1, <1>2, <1>3, <2>1 DEF Sound
  <2> QED
    BY <1>2, <1>5, <2>2
<1>6. CASE S # {}
  <2>1. DOMAIN calls'[r].tables = S /\ \A i \in S : calls'[r].tables[i] = key_table[KeyOrder[i]]
    BY <1>2, <1>6
  <2>2. Least(S) \in S
    <3>1. DOMAIN KeyOrder \subseteq Nat
      BY HashtableDBAssumption
    <3> QED
      BY <1>4, <1>6, <3>1, LeastIs
  <2>3. calls'[r].tables[Place(r)'] = key_table[calls[r].key]
    <3>1. Place(r)' = Least(S)
      BY <2>1 DEF Place
    <3> QED
      BY <1>4, <1>6, <2>1, <2>2, <3>1
  <2>4. TablesOK(r)'
    <3>1. \A i \in S : KeyOrder[i] \in Keys
      <4>1. \A i \in DOMAIN KeyOrder : KeyOrder[i] \in Keys
        BY HashtableDBAssumption
      <4> QED
        BY <1>4, <4>1
    <3>2. \A i \in S : calls'[r].tables[i] # 0 /\ \E k \in Keys : key_table'[k] = calls'[r].tables[i]
      BY <1>3, <1>4, <2>1, <3>1
    <3>3. calls[r].op = "Read" => \A i \in S : calls'[r].tables[i] = key_table[calls[r].key]
      BY <1>4, <2>1
    <3> QED
      BY <1>1, <1>3, <1>4, <1>6, <2>1, <3>2, <3>3 DEF TablesOK, Linked
  <2>5. \A c, f : Sought(r, c, f)' => Ahead(r, f)'
    BY <1>1, <1>2, <1>3, <2>3 DEF Sought, Ahead
  <2>6. ReaderOK(r)'
    BY <1>1, <1>2, <1>6, <2>4, <2>5 DEF ReaderOK
  <2> QED
    BY <1>2, <1>6, <2>6
<1> QED
  BY <1>5, <1>6

(* The strings of a field table that is in the key table are alive and of  *)
(* its record.                                                             *)
LEMMA FetchedOK ==
  ASSUME TypeInv, CallInv, OpenInv, StringInv, NEW r \in DOMAIN calls, TablesOK(r),
         NEW t, t = calls[r].tables[Place(r)], NEW f \in Fields, tables[t][f] # 0
  PROVE  PairOK(r, tables[t][f], f)
<1>1. t # 0 /\ Linked(t) /\ (calls[r].op = "Read" => t = key_table[calls[r].key])
  BY PlaceIs DEF TablesOK
<1>2. PICK k \in Keys : key_table[k] = t
  BY <1>1 DEF Linked
<1>3. t \in DOMAIN calls /\ calls[t].key = k /\ Reached(t)
  BY <1>1, <1>2 DEF OpenInv, TableInv, Made, Reached
<1>4. t \in Calls
  BY <1>3, CallsAre, HashtableDBAssumption DEF TypeInv, Calls
<1>5. calls[r].key \in Keys
  BY DEF CallInv, CallOK
<1>6. calls[r].op = "Read" => calls[t].key = calls[r].key
  BY <1>1, <1>5 DEF OpenInv, TableInv, Made
<1>7. tables[t][f] \in DOMAIN calls /\ freed[<< tables[t][f], f >>] = 0
  BY <1>3, <1>4 DEF OpenInv, OwnerInv
<1>8. tables[t][f] \in Calls
  BY <1>7, CallsAre, HashtableDBAssumption DEF TypeInv, Calls
<1>9. ~Fresh(tables[t][f], f)
  BY <1>4, <1>8 DEF OpenInv, FreshInv
<1>10. calls[tables[t][f]].key = calls[t].key
  BY <1>4 DEF StringInv
<1> QED
  BY <1>6, <1>7, <1>9, <1>10 DEF PairOK

(* What is fetched from the record is what was there when the read began,  *)
(* or newer.                                                               *)
LEMMA FetchFieldsOK ==
  ASSUME TypeInv, CallInv, OpenInv, StringInv, NEW r \in Active, ReadsOn(r), ReaderOK(r),
         NEW t, t = calls[r].tables[Place(r)], Fetches(r, t)
  PROVE  ReaderOK(r)'
<1>1. /\ r \in DOMAIN calls /\ Settled
      /\ calls'[r].op = calls[r].op /\ calls'[r].key = calls[r].key /\ calls[r].key \in Keys
      /\ calls'[r].fields = calls[r].fields /\ calls'[r].mixed = calls[r].mixed
      /\ calls'[r].fields \in Seq(SUBSET Fields)
      /\ calls'[r].fields # << >> /\ calls'[r].mixed \in BOOLEAN
      /\ \A d \in DOMAIN calls' : calls'[d].op = "Delete" => d \in calls'[r].prior
      /\ \A c, f : PairOK(r, c, f) => PairOK(r, c, f)'
      /\ \A c, f : Sought(r, c, f)' => Sought(r, c, f) /\ \A v : NotBefore(v, c)' <=> NotBefore(v, c)
  BY ReadsOnKeeps
<1>2. /\ calls[r].pc = "fetch" /\ calls'[r].pc \in {"walk", "copy"} /\ calls'[r].todo = Tail(calls[r].todo)
      /\ calls'[r].pairs = {<< tables[t][f], f >> : f \in Entries(tables[t], Head(calls[r].todo))}
      /\ calls'[r].result = calls[r].result /\ calls'[r].tables = calls[r].tables
  BY DEF Fetches
<1>3. /\ TablesOK(r) /\ calls[r].pairs = {}
      /\ calls[r].todo \in Seq(SUBSET Fields) /\ calls[r].todo # << >>
  BY <1>2 DEF ReaderOK
<1>4. key_table' = key_table /\ raced' = raced
  BY DEF ReadsOn
<1>5. PICK H : H = Head(calls[r].todo)
  OBVIOUS
<1>6. /\ calls'[r].todo \in Seq(SUBSET Fields) /\ H \subseteq Fields
      /\ Elements(calls[r].todo) = Elements(calls'[r].todo) \cup {H}
  <2>1. /\ Tail(calls[r].todo) \in Seq(SUBSET Fields) /\ Head(calls[r].todo) \in SUBSET Fields
        /\ Elements(calls[r].todo) = Elements(Tail(calls[r].todo)) \cup {Head(calls[r].todo)}
    BY <1>3, NextGroup
  <2> QED
    BY <1>2, <1>5, <2>1
<1>7. \A s : s \in calls'[r].pairs <=> \E f \in H : tables[t][f] # 0 /\ s = << tables[t][f], f >>
  BY <1>2, <1>5 DEF Entries
<1>8. \A s \in calls'[r].pairs : \E c, f : s = << c, f >> /\ PairOK(r, c, f)'
  <2> SUFFICES ASSUME NEW s \in calls'[r].pairs
               PROVE  \E c, f : s = << c, f >> /\ PairOK(r, c, f)'
    OBVIOUS
  <2>1. PICK f \in H : tables[t][f] # 0 /\ s = << tables[t][f], f >>
    BY <1>7
  <2>2. PICK e : e = tables[t][f]
    OBVIOUS
  <2>3. PairOK(r, e, f)
    BY <1>1, <1>3, <1>6, <2>1, <2>2, FetchedOK
  <2> QED
    BY <1>1, <2>1, <2>2, <2>3
<1>9. TablesOK(r)'
  BY <1>1, <1>2, <1>3, <1>4 DEF TablesOK, Linked
<1>10. ASSUME calls[r].key \notin raced, NEW c, NEW f, Sought(r, c, f)'
       PROVE  Fetched(r, c, f)' \/ Copied(r, c, f)' \/ Ahead(r, f)'
  <2>1. Sought(r, c, f) /\ \A v : NotBefore(v, c)' <=> NotBefore(v, c)
    BY <1>1, <1>10
  <2>2. Copied(r, c, f) \/ Ahead(r, f)
    BY <1>2, <1>3, <1>10, <2>1 DEF ReaderOK, Fetched
  <2>3. CASE Copied(r, c, f)
    BY <1>2, <2>1, <2>3 DEF Copied
  <2>4. CASE Ahead(r, f)
    <3>1. t = key_table[calls[r].key] /\ (f \in H \/ f \in UNION Elements(calls'[r].todo))
      BY <1>6, <2>4 DEF Ahead
    <3>2. CASE f \in H
      <4>1. Current(c, f) /\ calls[c].key = calls[r].key
        BY <1>1, <1>10, <2>1, SoughtIsThere DEF OpenInv
      <4>2. NotBefore(tables[t][f], c) /\ tables[t][f] # 0
        BY <3>1, <4>1 DEF Current, NotBefore
      <4>3. << tables[t][f], f >> \in calls'[r].pairs
        BY <1>7, <3>2, <4>2
      <4> QED
        BY <2>1, <4>2, <4>3 DEF Fetched
    <3>3. CASE f \in UNION Elements(calls'[r].todo)
      <4>1. Place(r)' = Place(r)
        BY <1>2 DEF Place
      <4> QED
        BY <1>1, <1>2, <1>4, <3>1, <3>3, <4>1 DEF Ahead
    <3> QED
      BY <3>1, <3>2, <3>3
  <2> QED
    BY <2>2, <2>3, <2>4
<1>11. ~calls'[r].mixed => \A x \in calls'[r].result : x.live
  BY <1>1, <1>2 DEF ReaderOK
<1> QED
  BY <1>1, <1>2, <1>4, <1>6, <1>8, <1>9, <1>10, <1>11 DEF ReaderOK

(* What is met later is alive too, and nothing is lost.                    *)
LEMMA MeetsOK ==
  ASSUME TypeInv, CallInv, OpenInv, StringInv, NEW r \in Active, ReadsOn(r), ReaderOK(r),
         NEW t, t = calls[r].tables[Place(r)], Meets(r, t)
  PROVE  ReaderOK(r)'
<1>1. /\ r \in DOMAIN calls /\ Settled
      /\ calls'[r].op = calls[r].op /\ calls'[r].key = calls[r].key /\ calls[r].key \in Keys
      /\ calls'[r].fields = calls[r].fields /\ calls'[r].mixed = calls[r].mixed
      /\ calls'[r].fields \in Seq(SUBSET Fields)
      /\ calls'[r].fields # << >> /\ calls'[r].mixed \in BOOLEAN
      /\ \A d \in DOMAIN calls' : calls'[d].op = "Delete" => d \in calls'[r].prior
      /\ \A c, f : PairOK(r, c, f) => PairOK(r, c, f)'
      /\ \A c, f : Sought(r, c, f)' => Sought(r, c, f) /\ \A v : NotBefore(v, c)' <=> NotBefore(v, c)
  BY ReadsOnKeeps
<1>2. PICK g \in Fields : /\ tables[t][g] # 0
                         /\ calls'[r].pairs = calls[r].pairs \cup {<< tables[t][g], g >>}
  BY DEF Meets
<1>3. /\ calls[r].pc = "walk" /\ calls'[r].pc = "walk" /\ calls'[r].todo = calls[r].todo
      /\ calls'[r].result = calls[r].result /\ calls'[r].tables = calls[r].tables
  BY DEF Meets
<1>4. key_table' = key_table /\ raced' = raced
  BY DEF ReadsOn
<1>5. TablesOK(r) /\ TablesOK(r)'
  BY <1>1, <1>3, <1>4 DEF TablesOK, Linked, ReaderOK
<1>6. PICK e : e = tables[t][g]
  OBVIOUS
<1>7. PairOK(r, e, g)
  BY <1>1, <1>2, <1>5, <1>6, FetchedOK
<1>8. \A s \in calls'[r].pairs : \E c, f : s = << c, f >> /\ PairOK(r, c, f)'
  <2>1. \A s \in calls[r].pairs : \E c, f : s = << c, f >> /\ PairOK(r, c, f)
    BY DEF ReaderOK
  <2> QED
    BY <1>1, <1>2, <1>6, <1>7, <2>1
<1>9. ASSUME calls[r].key \notin raced, NEW c, NEW f, Sought(r, c, f)'
      PROVE  Fetched(r, c, f)' \/ Copied(r, c, f)' \/ Ahead(r, f)'
  <2>1. Sought(r, c, f) /\ \A v : NotBefore(v, c)' <=> NotBefore(v, c)
    BY <1>1, <1>9
  <2>2. Fetched(r, c, f) \/ Copied(r, c, f) \/ Ahead(r, f)
    BY <1>3, <1>9, <2>1 DEF ReaderOK
  <2>3. CASE Fetched(r, c, f)
    BY <1>2, <2>1, <2>3 DEF Fetched
  <2>4. CASE Copied(r, c, f)
    BY <1>3, <2>1, <2>4 DEF Copied
  <2>5. CASE Ahead(r, f)
    <3>1. Place(r)' = Place(r)
      BY <1>3 DEF Place
    <3> QED
      BY <1>1, <1>3, <1>4, <2>5, <3>1 DEF Ahead
  <2> QED
    BY <2>2, <2>3, <2>4, <2>5
<1>10. ~calls'[r].mixed => \A x \in calls'[r].result : x.live
  BY <1>1, <1>3 DEF ReaderOK
<1>11. calls'[r].todo \in Seq(SUBSET Fields)
  BY <1>3 DEF ReaderOK
<1> QED
  BY <1>1, <1>3, <1>4, <1>5, <1>8, <1>9, <1>10, <1>11 DEF ReaderOK

(* What is copied is what was fetched, and alive unless an update deleted  *)
(* it meanwhile.                                                           *)
LEMMA CopiesOK ==
  ASSUME TypeInv, CallInv, OpenInv, NEW r \in Active, ReadsOn(r), ReaderOK(r),
         calls[r].pc \in {"walk", "copy"}, NEW s, Copies(r, s)
  PROVE  ReaderOK(r)'
<1>1. /\ r \in DOMAIN calls /\ Settled
      /\ calls'[r].op = calls[r].op /\ calls'[r].key = calls[r].key /\ calls[r].key \in Keys
      /\ calls'[r].fields = calls[r].fields /\ calls'[r].mixed = calls[r].mixed
      /\ calls'[r].fields \in Seq(SUBSET Fields)
      /\ calls'[r].fields # << >> /\ calls'[r].mixed \in BOOLEAN
      /\ \A d \in DOMAIN calls' : calls'[d].op = "Delete" => d \in calls'[r].prior
      /\ \A c, f : PairOK(r, c, f) => PairOK(r, c, f)'
      /\ \A c, f : Sought(r, c, f)' => Sought(r, c, f) /\ \A v : NotBefore(v, c)' <=> NotBefore(v, c)
  BY ReadsOnKeeps
<1>2. PICK x : x = [str |-> s, live |-> freed[s] = 0]
  OBVIOUS
<1>3. /\ s \in calls[r].pairs /\ calls'[r].pairs = calls[r].pairs \ {s}
      /\ calls'[r].result = calls[r].result \cup {x}
      /\ calls'[r].pc = "copy" /\ calls'[r].todo = calls[r].todo
      /\ calls'[r].tables = calls[r].tables
  BY <1>2 DEF Copies
<1>4. x.str = s /\ (freed[s] = 0 => x.live)
  BY <1>2
<1>5. key_table' = key_table /\ raced' = raced
  BY DEF ReadsOn
<1>6. ~calls[r].mixed => freed[s] = 0
  <2>1. PICK c, f : s = << c, f >> /\ PairOK(r, c, f)
    BY <1>3 DEF ReaderOK
  <2> QED
    BY <2>1 DEF PairOK
<1>7. ~calls'[r].mixed => \A y \in calls'[r].result : y.live
  BY <1>1, <1>3, <1>4, <1>6 DEF ReaderOK
<1>8. \A q \in calls'[r].pairs : \E c, f : q = << c, f >> /\ PairOK(r, c, f)'
  BY <1>1, <1>3 DEF ReaderOK
<1>9. TablesOK(r)'
  BY <1>1, <1>3, <1>5 DEF TablesOK, Linked, ReaderOK
<1>10. ASSUME calls[r].key \notin raced, NEW c, NEW f, Sought(r, c, f)'
       PROVE  Fetched(r, c, f)' \/ Copied(r, c, f)' \/ Ahead(r, f)'
  <2>1. Sought(r, c, f) /\ \A v : NotBefore(v, c)' <=> NotBefore(v, c)
    BY <1>1, <1>10
  <2>2. Fetched(r, c, f) \/ Copied(r, c, f) \/ Ahead(r, f)
    BY <1>10, <2>1 DEF ReaderOK
  <2>3. CASE Fetched(r, c, f)
    <3>1. PICK q \in calls[r].pairs : q[2] = f /\ NotBefore(q[1], c)
      BY <2>3 DEF Fetched
    <3>2. CASE q = s
      BY <1>3, <1>4, <2>1, <3>1, <3>2 DEF Copied
    <3>3. CASE q # s
      BY <1>3, <2>1, <3>1, <3>3 DEF Fetched
    <3> QED
      BY <3>2, <3>3
  <2>4. CASE Copied(r, c, f)
    BY <1>3, <2>1, <2>4 DEF Copied
  <2>5. CASE Ahead(r, f)
    <3>1. Place(r)' = Place(r)
      BY <1>3 DEF Place
    <3> QED
      BY <1>1, <1>3, <1>5, <2>5, <3>1 DEF Ahead
  <2> QED
    BY <2>2, <2>3, <2>4, <2>5
<1> QED
  BY <1>1, <1>3, <1>5, <1>7, <1>8, <1>9, <1>10 DEF ReaderOK

(* A read that has copied the last string of the last table has seen all   *)
(* that it was to see.                                                     *)
LEMMA TurnsToOK ==
  ASSUME TypeInv, CallInv, OpenInv, NEW r \in Active, ReadsOn(r), ReaderOK(r),
         calls[r].pc \in {"walk", "copy"}, TurnsTo(r)
  PROVE  /\ calls'[r].pc # "done" => ReaderOK(r)'
         /\ calls'[r].pc = "done" => Sound(r)'
<1>1. /\ r \in DOMAIN calls /\ Settled
      /\ calls'[r].op = calls[r].op /\ calls'[r].key = calls[r].key /\ calls[r].key \in Keys
      /\ calls'[r].fields = calls[r].fields /\ calls'[r].mixed = calls[r].mixed
      /\ calls'[r].fields \in Seq(SUBSET Fields)
      /\ calls'[r].fields # << >> /\ calls'[r].mixed \in BOOLEAN
      /\ \A d \in DOMAIN calls' : calls'[d].op = "Delete" => d \in calls'[r].prior
      /\ \A c, f : Sought(r, c, f)' => Sought(r, c, f) /\ \A v : NotBefore(v, c)' <=> NotBefore(v, c)
  BY ReadsOnKeeps
<1>2. calls[r].pairs = {} /\ calls'[r].pairs = {} /\ calls'[r].result = calls[r].result
  BY DEF TurnsTo
<1>3. key_table' = key_table /\ raced' = raced
  BY DEF ReadsOn
<1>4. ~calls'[r].mixed => \A x \in calls'[r].result : x.live
  BY <1>1, <1>2 DEF ReaderOK
<1>5. TablesOK(r) /\ calls[r].todo \in Seq(SUBSET Fields)
  BY DEF ReaderOK
<1>6. ASSUME calls[r].key \notin raced, NEW c, NEW f, Sought(r, c, f)'
      PROVE  Copied(r, c, f)' \/ Ahead(r, f)
  <2>1. Sought(r, c, f) /\ \A v : NotBefore(v, c)' <=> NotBefore(v, c)
    BY <1>1, <1>6
  <2>2. Copied(r, c, f) \/ Ahead(r, f)
    BY <1>2, <1>6, <2>1 DEF ReaderOK, Fetched
  <2> QED
    BY <1>2, <2>1, <2>2 DEF Copied
<1>7. calls[r].todo = << >> => \A f : ~Ahead(r, f)
  BY NoFields DEF Ahead
<1>8. CASE /\ calls[r].todo # << >> /\ calls'[r].pc = "fetch" /\ calls'[r].todo = calls[r].todo
           /\ calls'[r].tables = calls[r].tables
  <2>1. TablesOK(r)'
    BY <1>1, <1>3, <1>5, <1>8 DEF TablesOK, Linked
  <2>2. \A f : Ahead(r, f) => Ahead(r, f)'
    <3>1. Place(r)' = Place(r)
      BY <1>8 DEF Place
    <3> QED
      BY <1>1, <1>3, <1>8, <3>1 DEF Ahead
  <2>3. ReaderOK(r)'
    BY <1>1, <1>2, <1>3, <1>4, <1>5, <1>6, <1>8, <2>1, <2>2 DEF ReaderOK
  <2> QED
    BY <1>8, <2>3
<1>9. CASE /\ calls[r].todo = << >> /\ DOMAIN calls[r].tables # {Place(r)}
           /\ calls'[r].pc = "fetch" /\ calls'[r].todo = calls[r].fields
           /\ calls'[r].tables = [i \in DOMAIN calls[r].tables \ {Place(r)} |-> calls[r].tables[i]]
  <2>1. PICK D : D = DOMAIN calls[r].tables \ {Place(r)}
    OBVIOUS
  <2>2. /\ D \subseteq DOMAIN calls[r].tables /\ D # {}
        /\ DOMAIN calls'[r].tables = D /\ \A i \in D : calls'[r].tables[i] = calls[r].tables[i]
    <3>1. Place(r) \in DOMAIN calls[r].tables
      BY <1>5, PlaceIs
    <3> QED
      BY <1>9, <2>1, <3>1
  <2>3. TablesOK(r)'
    BY <1>1, <1>3, <1>5, <2>2 DEF TablesOK, Linked
  <2>4. ReaderOK(r)'
    BY <1>1, <1>2, <1>3, <1>4, <1>6, <1>7, <1>9, <2>3 DEF ReaderOK
  <2> QED
    BY <1>9, <2>4
<1>10. CASE calls[r].todo = << >> /\ calls'[r].pc = "done"
  <2>1. Sound(r)'
    BY <1>1, <1>3, <1>4, <1>6, <1>7, <1>10 DEF Sound
  <2> QED
    BY <1>10, <2>1
<1> QED
  BY <1>8, <1>9, <1>10 DEF TurnsTo

-------------------------------------------------------------------------------
(* Every step.                                                             *)

(* A call puts its string into a table of its record only, and takes out   *)
(* of it what is there.                                                    *)
LEMMA StringStays ==
  ASSUME TypeInv, CallInv, OpenInv, OpenInv', StringInv, NEW c \in Active, Touches(c)
  PROVE  StringInv'
<1>1. /\ c \in DOMAIN calls /\ DOMAIN calls' = DOMAIN calls
      /\ \A d \in DOMAIN calls : calls'[d].key = calls[d].key
      /\ \A d \in DOMAIN calls : d # c => \A e, f : Taken(d, e, f)' <=> Taken(d, e, f)
  BY Undisturbed DEF Touches, Evolves, OpenInv
<1>2. DOMAIN calls \subseteq Calls /\ 0 \notin DOMAIN calls
  BY CallsAre, HashtableDBAssumption DEF TypeInv, Calls
<1>3. ASSUME Holds(c)
      PROVE  /\ calls[c].table \in DOMAIN calls /\ calls[c].table \in Calls
             /\ calls[calls[c].table].key = calls[c].key
  BY <1>1, <1>2, <1>3 DEF OpenInv, TableInv, Made
<1>4. ASSUME NEW t \in Calls, NEW f \in Fields, tables'[t][f] # 0
      PROVE  calls'[tables'[t][f]].key = calls'[t].key
  <2>1. CASE tables'[t][f] = tables[t][f]
    <3>1. tables[t][f] \in DOMAIN calls /\ calls[tables[t][f]].key = calls[t].key
      BY <1>4, <2>1 DEF OpenInv, OwnerInv, StringInv
    <3>2. t \in DOMAIN calls
      BY <1>4, <2>1 DEF OpenInv, TableInv, Made
    <3> QED
      BY <1>1, <2>1, <3>1, <3>2
  <2>2. CASE tables'[t][f] = c /\ Holds(c) /\ t = calls[c].table
    BY <1>1, <1>3, <2>2
  <2> QED
    BY <2>1, <2>2 DEF Touches
<1>5. ASSUME NEW d \in DOMAIN calls, NEW e, NEW f, Taken(d, e, f)'
      PROVE  calls'[e].key = calls'[d].key
  <2>1. CASE d # c
    <3>1. Taken(d, e, f)
      BY <1>1, <1>5, <2>1
    <3>2. e \in DOMAIN calls /\ calls[e].key = calls[d].key
      BY <3>1 DEF OpenInv, OwnerInv, StringInv
    <3> QED
      BY <1>1, <3>2
  <2>2. CASE d = c
    <3>1. Holds(c) /\ e # 0 /\ e = tables[calls[c].table][f]
      BY <1>5, <2>2 DEF Touches
    <3>2. e \in DOMAIN calls' /\ f \in Fields
      BY <1>1, <1>5 DEF OpenInv, OwnerInv
    <3>3. calls[e].key = calls[calls[c].table].key
      BY <1>3, <3>1, <3>2 DEF StringInv
    <3> QED
      BY <1>1, <1>3, <2>2, <3>1, <3>2, <3>3
  <2> QED
    BY <2>1, <2>2
<1> QED
  BY <1>1, <1>4, <1>5 DEF StringInv

(* The steps of a call that reads.                                         *)
LEMMA ReaderSteps ==
  ASSUME TypeInv, CallInv, NEW c \in Active, Step(c), Reads(calls[c])
  PROVE  /\ ReadsOn(c)
         /\ FindTables(c) \/ FetchFields(c) \/ FetchLate(c) \/ CopyToResult(c)
<1>1. FindTables(c) \/ FetchFields(c) \/ FetchLate(c) \/ CopyToResult(c)
  BY DEF Step, Reads, At, FindRecord, LinkRecord, InsertField, UpdateField, AddField, DeleteOld,
         RemoveRecord, DeleteFieldHashtable
<1> QED
  BY <1>1, FindTablesIs, FetchFieldsIs, FetchLateIs, CopyToResultIs

(* A read goes on, or returns.                                             *)
LEMMA ReadGoesOn ==
  ASSUME TypeInv, CallInv, OpenInv, StringInv, NEW r \in Active, Step(r),
         Reads(calls[r]), ReaderOK(r)
  PROVE  /\ calls'[r].pc # "done" => ReaderOK(r)'
         /\ calls'[r].pc = "done" => Sound(r)'
<1>1. ReadsOn(r) /\ (FindTables(r) \/ FetchFields(r) \/ FetchLate(r) \/ CopyToResult(r))
  BY ReaderSteps
<1>2. CASE FindTables(r)
  BY <1>1, <1>2, FindTablesIs, FindTablesOK
<1>3. CASE FetchFields(r)
  <2>1. Fetches(r, calls[r].tables[Place(r)])
    BY <1>3, FetchFieldsIs
  <2>2. ReaderOK(r)' /\ calls'[r].pc # "done"
    BY <1>1, <2>1, FetchFieldsOK DEF Fetches
  <2> QED
    BY <2>2
<1>5. CASE FetchLate(r)
  <2>1. Meets(r, calls[r].tables[Place(r)])
    BY <1>5, FetchLateIs
  <2>2. ReaderOK(r)' /\ calls'[r].pc # "done"
    BY <1>1, <2>1, MeetsOK DEF Meets
  <2> QED
    BY <2>2
<1>4. CASE CopyToResult(r)
  <2>1. calls[r].pc \in {"walk", "copy"} /\ (TurnsTo(r) \/ \E s : Copies(r, s))
    BY <1>4, CopyToResultIs
  <2>2. CASE TurnsTo(r)
    BY <1>1, <2>1, <2>2, TurnsToOK
  <2>3. ASSUME NEW s, Copies(r, s)
        PROVE  ReaderOK(r)' /\ calls'[r].pc = "copy"
    BY <1>1, <2>1, <2>3, CopiesOK DEF Copies
  <2> QED
    BY <2>1, <2>2, <2>3
<1> QED
  BY <1>1, <1>2, <1>3, <1>4, <1>5

(* The parts of the invariant about calls that have not returned.          *)
OpenReads ==
  /\ StringInv /\ MixedInv
  /\ \A r \in Active : Reads(calls[r]) => ReaderOK(r)

DoneReads == \A r \in DOMAIN calls : Reads(calls[r]) /\ calls[r].pc = "done" => Sound(r)

(* A read beside a step of another call.                                   *)
LEMMA ReadWaits ==
  ASSUME TypeInv, CallInv, OpenInv, OpenReads, NEW c \in Active, Step(c), Touches(c),
         NEW r \in Active, r # c, Reads(calls[r])
  PROVE  ReaderOK(r)'
<1>1. /\ c \in DOMAIN calls /\ r \in DOMAIN calls /\ DOMAIN calls' = DOMAIN calls
      /\ calls'[r] = calls[r] /\ ReaderOK(r)
  BY DEF Touches, Evolves, Active, OpenReads
<1>2. calls[c].op # "Delete"
  BY <1>1 DEF OpenInv, AloneInv
<1>3. Settled
  BY DEF Settled, Touches, Evolves, Active
<1>4. Waits(r)
  BY <1>1 DEF Waits
<1>5. \A d \in DOMAIN calls' : calls'[d].op = "Delete" => d \in DOMAIN calls
  BY <1>1
<1>6. \A e, f : Fresh(e, f)' => Fresh(e, f)
  <2>1. \A e \in DOMAIN calls : e # c => \A f : Fresh(e, f)' <=> Fresh(e, f)
    BY Undisturbed DEF OpenInv, Touches
  <2>2. \A f : Fresh(c, f)' => Fresh(c, f)
    BY DEF Touches
  <2>3. \A e, f : e \notin DOMAIN calls => Fresh(e, f)
    BY DEF Fresh
  <2> QED
    BY <2>1, <2>2, <2>3
<1>7. ASSUME NEW e, NEW f, PairOK(r, e, f)
      PROVE  PairOK(r, e, f)'
  <2>1. e \in DOMAIN calls /\ e \in Calls /\ f \in Fields /\ ~Fresh(e, f)
    BY <1>7, CallsAre, HashtableDBAssumption DEF PairOK, TypeInv, Calls
  <2>2. ~Fresh(e, f)' /\ e \in DOMAIN calls' /\ calls'[e].key = calls[e].key
    BY <1>3, <1>6, <2>1 DEF Settled
  <2>3. ASSUME ~calls[r].mixed
        PROVE  freed'[<< e, f >>] = 0
    <3>1. freed[<< e, f >>] = 0
      BY <1>7, <2>3 DEF PairOK
    <3>2. ~Taken(c, e, f)
      <4> SUFFICES ASSUME Taken(c, e, f) PROVE FALSE
        OBVIOUS
      <4>1. calls[c].op = "Update" /\ calls[e].key = calls[c].key
        BY <1>1 DEF Taken, OpenReads, StringInv
      <4>2. calls[r].op = "Read" /\ calls[c].key # calls[r].key
        BY <2>3, <4>1 DEF OpenReads, MixedInv
      <4>3. calls[e].key = calls[r].key
        BY <1>7, <4>2 DEF PairOK
      <4> QED
        BY <4>1, <4>2, <4>3
    <3> QED
      BY <1>2, <2>1, <3>1, <3>2 DEF Touches
  <2> QED
    BY <1>1, <1>7, <2>1, <2>2, <2>3 DEF PairOK
<1>8. \A k \in Keys : key_table[k] # 0 => key_table'[k] = key_table[k]
  BY <1>2 DEF Touches
<1>9. raced \subseteq raced'
  BY DEF Touches
<1> QED
  BY <1>1, <1>3, <1>4, <1>5, <1>7, <1>8, <1>9, ReaderStays

(* A step of a call.                                                       *)
LEMMA StepReads ==
  ASSUME TypeInv, CallInv, OpenInv, OpenInv', OpenReads, DoneReads, NEW c \in Active, Step(c)
  PROVE  OpenReads' /\ DoneReads'
<1>1. Touches(c)
  BY StepTouches
<1>2. /\ c \in DOMAIN calls /\ DOMAIN calls' = DOMAIN calls /\ calls[c].pc # "done"
      /\ Active' \subseteq Active
      /\ \A d \in DOMAIN calls : /\ d # c => calls'[d] = calls[d]
                                 /\ calls'[d].op = calls[d].op /\ calls'[d].key = calls[d].key
      /\ \A d \in DOMAIN calls : Reads(calls'[d]) <=> Reads(calls[d])
  BY <1>1 DEF Touches, Evolves, Active, Reads
<1>3. StringInv'
  BY <1>1, StringStays DEF OpenReads
<1>4. MixedInv'
  <2>1. \A d \in DOMAIN calls : Reads(calls[d]) => calls'[d].mixed = calls[d].mixed
    BY <1>2, ReaderSteps DEF ReadsOn
  <2> QED
    BY <1>2, <2>1 DEF MixedInv, OpenReads, Active
<1>5. ASSUME NEW r \in Active', Reads(calls'[r])
      PROVE  ReaderOK(r)'
  <2>1. r \in Active /\ Reads(calls[r]) /\ calls'[r].pc # "done" /\ r \in DOMAIN calls
    BY <1>2, <1>5 DEF Active
  <2>2. CASE r = c
    BY <2>1, <2>2, ReadGoesOn DEF OpenReads
  <2>3. CASE r # c
    BY <1>1, <2>1, <2>3, ReadWaits
  <2> QED
    BY <2>2, <2>3
<1>6. ASSUME NEW r \in DOMAIN calls', Reads(calls'[r]), calls'[r].pc = "done"
      PROVE  Sound(r)'
  <2>1. r \in DOMAIN calls /\ Reads(calls[r])
    BY <1>2, <1>6
  <2>2. CASE r = c
    BY <1>6, <2>1, <2>2, ReadGoesOn DEF OpenReads
  <2>3. CASE r # c
    <3>1. calls[r].pc = "done" /\ Sound(r)
      BY <1>2, <1>6, <2>1, <2>3 DEF DoneReads
    <3>2. Settled /\ raced \subseteq raced'
      BY <1>1, <1>2 DEF Settled, Touches, Evolves
    <3> QED
      BY <2>1, <3>1, <3>2, SoundStays
  <2> QED
    BY <2>2, <2>3
<1> QED
  BY <1>3, <1>4, <1>5, <1>6 DEF OpenReads, DoneReads

(* A new call.                                                             *)
LEMMA StartReads ==
  ASSUME TypeInv, CallInv, OpenInv, OpenReads, DoneReads,
         NEW op, NEW k \in Keys, NEW todo, Start(op, k, todo),
         op \in {"Read", "Scan"} => todo \in Seq(SUBSET Fields) /\ todo # << >>
  PROVE  OpenReads' /\ DoneReads'
<1>1. /\ op = "Delete" => Active = {}
      /\ \A c \in Active : calls[c].op # "Delete"
      /\ UNCHANGED << key_table, tables, freed, destroyed >>
      /\ raced \subseteq raced'
  BY DEF Start
<1>2. PICK n : Adds(n, op, k, todo) /\ Marks(n, op, k)
  BY StartAdds
<1>3. /\ DOMAIN calls' = DOMAIN calls \cup {n} /\ n \notin DOMAIN calls
      /\ \A d \in DOMAIN calls : Same(d)
      /\ calls'[n].op = op /\ calls'[n].pc = "get" /\ calls'[n].key = k
      /\ calls'[n].todo = todo /\ calls'[n].fields = todo
      /\ calls'[n].prior = DOMAIN calls \ Active
  BY <1>2 DEF Adds
<1>4. /\ \A d \in DOMAIN calls :
           /\ calls'[d].mixed = calls[d].mixed \/ calls'[d].mixed = TRUE
           /\ d \in Active /\ op = "Update" /\ (calls[d].op = "Scan" \/ calls[d].key = k) =>
                calls'[d].mixed = TRUE
      /\ calls'[n].pairs = {} /\ calls'[n].result = {} /\ calls'[n].mixed \in BOOLEAN
      /\ \A c \in Active : calls[c].op = "Update" /\ (op = "Scan" \/ calls[c].key = k) =>
           calls'[n].mixed = TRUE
  BY <1>2 DEF Marks
<1>5. Active' = Active \cup {n} /\ Active \subseteq DOMAIN calls
  BY <1>3 DEF Active, Same
<1>6. \A d \in DOMAIN calls : /\ calls'[d].key = calls[d].key /\ calls'[d].op = calls[d].op
                              /\ Reads(calls'[d]) <=> Reads(calls[d])
                              /\ Writes(calls'[d]) <=> Writes(calls[d])
                              /\ calls'[d].pc = calls[d].pc
  BY <1>3 DEF Same, Reads, Writes
<1>7. Settled
  BY <1>2, <1>3 DEF Settled, Same, Marks
<1>8. StringInv'
  <2>1. ASSUME NEW t \in Calls, NEW f \in Fields, tables[t][f] # 0
        PROVE  calls'[tables[t][f]].key = calls'[t].key
    <3>1. /\ tables[t][f] \in DOMAIN calls /\ calls[tables[t][f]].key = calls[t].key
          /\ t \in DOMAIN calls
      BY <2>1 DEF OpenInv, OwnerInv, TableInv, Made, StringInv, OpenReads
    <3> QED
      BY <1>6, <3>1
  <2>2. ASSUME NEW d \in DOMAIN calls', NEW e, NEW f, Taken(d, e, f)'
        PROVE  calls'[e].key = calls'[d].key
    <3>1. d \in DOMAIN calls
      BY <1>3, <2>2 DEF Taken
    <3>2. Taken(d, e, f)
      BY <1>3, <2>2, <3>1 DEF Taken, Field, Same
    <3>3. e \in DOMAIN calls /\ calls[e].key = calls[d].key
      BY <3>1, <3>2 DEF OpenInv, OwnerInv, StringInv, OpenReads
    <3> QED
      BY <1>6, <3>1, <3>3
  <2> QED
    BY <1>1, <2>1, <2>2 DEF StringInv
<1>9. MixedInv'
  <2> SUFFICES ASSUME NEW r \in Active', NEW c \in Active',
                      Reads(calls'[r]), calls'[c].op = "Update", ~calls'[r].mixed
               PROVE  calls'[r].op = "Read" /\ calls'[c].key # calls'[r].key
    BY DEF MixedInv
  <2>1. CASE r \in Active /\ c \in Active
    BY <1>4, <1>5, <1>6, <2>1 DEF MixedInv, OpenReads
  <2>2. CASE r = n /\ c \in Active
    BY <1>3, <1>4, <1>5, <1>6, <2>2 DEF Reads
  <2>3. CASE r \in Active /\ c = n
    BY <1>3, <1>4, <1>5, <1>6, <2>3 DEF Reads
  <2>4. CASE r = n /\ c = n
    BY <2>4 DEF Reads
  <2> QED
    BY <1>5, <2>1, <2>2, <2>3, <2>4
<1>10. \A e, f : Fresh(e, f)' => Fresh(e, f)
  <2>1. ASSUME NEW e \in DOMAIN calls, NEW f, Fresh(e, f)'
        PROVE  Fresh(e, f)
    <3>1. Unwritten(e)' = Unwritten(e)
      BY <1>3 DEF Unwritten, Same
    <3>2. e \in Active
      BY <1>3, <1>5, <2>1 DEF Fresh
    <3> QED
      BY <1>3, <1>6, <2>1, <3>1, <3>2 DEF Fresh
  <2>2. \A e, f : e \notin DOMAIN calls => Fresh(e, f)
    BY DEF Fresh
  <2> QED
    BY <2>1, <2>2
<1>11. ASSUME NEW r \in Active, Reads(calls[r])
       PROVE  ReaderOK(r)'
  <2>1. r \in DOMAIN calls /\ ReaderOK(r) /\ op # "Delete"
    BY <1>1, <1>5, <1>11 DEF OpenReads
  <2>2. Waits(r)
    BY <1>2, <1>3, <2>1 DEF Waits, Same, Marks
  <2>3. \A d \in DOMAIN calls' : calls'[d].op = "Delete" => d \in DOMAIN calls
    BY <1>3, <2>1
  <2>4. ASSUME NEW e, NEW f, PairOK(r, e, f)
        PROVE  PairOK(r, e, f)'
    <3>1. e \in DOMAIN calls /\ e \in DOMAIN calls' /\ ~Fresh(e, f)'
      BY <1>3, <1>10, <2>4 DEF PairOK
    <3>2. ~calls'[r].mixed => ~calls[r].mixed
      BY <1>4, <2>1
    <3> QED
      BY <1>1, <1>6, <2>1, <2>4, <3>1, <3>2 DEF PairOK
  <2>5. \A j \in Keys : key_table[j] # 0 => key_table'[j] = key_table[j]
    BY <1>1
  <2> QED
    BY <1>1, <1>7, <2>1, <2>2, <2>3, <2>4, <2>5, ReaderStays
<1>12. ASSUME Reads(calls'[n])
       PROVE  ReaderOK(n)'
  <2>1. op \in {"Read", "Scan"} /\ todo \in Seq(SUBSET Fields) /\ todo # << >>
    BY <1>3, <1>12 DEF Reads
  <2>2. \A d \in DOMAIN calls' : calls'[d].op = "Delete" => d \in calls'[n].prior
    BY <1>1, <1>3, <1>6, <2>1
  <2> QED
    BY <1>3, <1>4, <2>1, <2>2 DEF ReaderOK
<1>13. ASSUME NEW r \in DOMAIN calls', Reads(calls'[r]), calls'[r].pc = "done"
       PROVE  Sound(r)'
  <2>1. r \in DOMAIN calls /\ Reads(calls[r]) /\ calls[r].pc = "done"
    BY <1>3, <1>6, <1>13
  <2> QED
    BY <1>1, <1>7, <2>1, SoundStays DEF DoneReads
<1>14. \A r \in Active' : Reads(calls'[r]) => ReaderOK(r)'
  BY <1>5, <1>6, <1>11, <1>12
<1> QED
  BY <1>8, <1>9, <1>13, <1>14 DEF OpenReads, DoneReads

(* The invariant of the reads.                                             *)
ReadInv == (~destroyed => OpenReads) /\ DoneReads

(* No read has been made.                                                  *)
LEMMA InitReads == Init => ReadInv
<1> SUFFICES ASSUME Init PROVE ReadInv
  OBVIOUS
<1>1. DOMAIN calls = {} /\ Active = {} /\ \A t \in Calls, f \in Fields : tables[t][f] = 0
  BY DEF Init, Active
<1> QED
  BY <1>1 DEF ReadInv, OpenReads, DoneReads, StringInv, MixedInv

(* Each of the calls that a client may make: a read asks for the fields of *)
(* a list one at a time, or for all of them at once.                       *)
LEMMA CallReads ==
  ASSUME TypeInv, CallInv, OpenInv, OpenReads, DoneReads, Call
  PROVE  OpenReads' /\ DoneReads'
<1>1. PICK k \in Keys :
        \/ Start("Insert", k, AllFields)
        \/ Start("Delete", k, << >>)
        \/ \E q \in FieldLists : Start("Update", k, q) \/ Start("Read", k, [i \in DOMAIN q |-> {q[i]}])
        \/ \E op \in ReadsAll : Start(op, k, << Fields >>)
  BY DEF Call
<1>2. CASE Start("Insert", k, AllFields)
  BY <1>2, StartReads
<1>3. CASE Start("Delete", k, << >>)
  BY <1>3, StartReads
<1>4. ASSUME NEW q \in FieldLists, Start("Update", k, q)
      PROVE  OpenReads' /\ DoneReads'
  BY <1>4, StartReads
<1>5. ASSUME NEW q \in FieldLists, Start("Read", k, [i \in DOMAIN q |-> {q[i]}])
      PROVE  OpenReads' /\ DoneReads'
  <2>1. PICK p : p = [i \in DOMAIN q |-> {q[i]}]
    OBVIOUS
  <2>2. p \in Seq(SUBSET Fields) /\ p # << >>
    <3>1. q \in Seq(Fields) /\ q # << >>
      BY HashtableDBAssumption
    <3>2. Len(q) \in Nat /\ DOMAIN q = 1 .. Len(q) /\ Len(q) > 0 /\ \A i \in DOMAIN q : q[i] \in Fields
      BY <3>1
    <3>3. p \in [1 .. Len(q) -> SUBSET Fields]
      BY <2>1, <3>2
    <3>4. p \in Seq(SUBSET Fields) /\ Len(p) = Len(q)
      BY <3>2, <3>3
    <3> QED
      BY <3>2, <3>4
  <2> QED
    BY <1>5, <2>1, <2>2, StartReads
<1>6. ASSUME NEW op \in ReadsAll, Start(op, k, << Fields >>)
      PROVE  OpenReads' /\ DoneReads'
  <2>1. << Fields >> \in Seq(SUBSET Fields) /\ << Fields >> # << >>
    OBVIOUS
  <2>2. op \in {"Read", "Scan"}
    BY <1>6, HashtableDBAssumption
  <2> QED
    BY <1>6, <2>1, <2>2, StartReads
<1> QED
  BY <1>1, <1>2, <1>3, <1>4, <1>5, <1>6

(* Every step keeps it.                                                    *)
LEMMA NextReads == IInv /\ IInv' /\ ReadInv /\ [Next]_vars => ReadInv'
<1> SUFFICES ASSUME IInv, IInv', ReadInv, [Next]_vars PROVE ReadInv'
  OBVIOUS
<1>1. TypeInv /\ CallInv /\ DoneReads
  BY DEF IInv, ReadInv
<1>2. CASE UNCHANGED vars
  <2>1. UNCHANGED << key_table, tables, calls, freed, raced, destroyed >>
    BY <1>2 DEF vars
  <2>2. Settled
    BY <2>1 DEF Settled
  <2>3. DoneReads'
    BY <1>1, <2>1, <2>2, SoundStays DEF DoneReads
  <2>4. Active' = Active /\ \A c, f : Fresh(c, f)' <=> Fresh(c, f)
    BY <2>1 DEF Active, Fresh, Unwritten
  <2>5. ASSUME OpenReads
        PROVE  OpenReads'
    <3>1. StringInv' /\ MixedInv'
      BY <2>1, <2>4, <2>5 DEF OpenReads, StringInv, MixedInv, Taken, Field
    <3>2. ASSUME NEW r \in Active, Reads(calls[r])
          PROVE  ReaderOK(r)'
      <4>1. r \in DOMAIN calls /\ ReaderOK(r) /\ Waits(r)
        BY <2>1, <2>5, <3>2 DEF Active, OpenReads, Waits
      <4>2. \A c, f : PairOK(r, c, f) => PairOK(r, c, f)'
        BY <2>1, <2>4 DEF PairOK
      <4> QED
        BY <1>1, <2>1, <2>2, <4>1, <4>2, ReaderStays
    <3> QED
      BY <2>1, <2>4, <3>1, <3>2 DEF OpenReads
  <2> QED
    BY <2>1, <2>3, <2>5 DEF ReadInv
<1>3. CASE Destroy
  <2>1. destroyed' /\ UNCHANGED << calls, raced >> /\ Settled
    BY <1>3 DEF Destroy, Settled
  <2>2. ASSUME NEW r \in DOMAIN calls', Reads(calls'[r]), calls'[r].pc = "done"
        PROVE  Sound(r)'
    BY <1>1, <2>1, <2>2, SoundStays DEF DoneReads
  <2> QED
    BY <2>1, <2>2 DEF ReadInv, DoneReads
<1>4. ASSUME Call
      PROVE  ReadInv'
  <2>1. ~destroyed
    <3>1. \A op, k, todo : Start(op, k, todo) => ~destroyed
      BY DEF Start
    <3> QED
      BY <1>4, <3>1 DEF Call
  <2>2. OpenInv /\ OpenReads
    BY <2>1 DEF IInv, ReadInv
  <2> QED
    BY <1>1, <1>4, <2>2, CallReads DEF ReadInv
<1>5. ASSUME NEW c \in Active, Step(c)
      PROVE  ReadInv'
  <2>1. ~destroyed /\ OpenInv /\ OpenReads
    BY DEF IInv, ReadInv
  <2>2. destroyed' = destroyed
    BY <1>1, <1>5, <2>1, StepTouches DEF Touches
  <2>3. OpenInv'
    BY <2>1, <2>2 DEF IInv
  <2> QED
    BY <1>1, <1>5, <2>1, <2>3, StepReads DEF ReadInv
<1> QED
  BY <1>2, <1>3, <1>4, <1>5 DEF Next

(* What the invariant says of a read that has returned.                    *)
LEMMA SoundByInv == ReadInv => ReadSound
<1> SUFFICES ASSUME ReadInv,
                    NEW r \in DOMAIN calls, calls[r].op \in {"Read", "Scan"}, calls[r].pc = "done",
                    ~calls[r].mixed
             PROVE  /\ \A x \in calls[r].result : x.live
                    /\ calls[r].key \notin raced =>
                         \A c \in Acknowledged(calls[r].key, calls[r].prior) :
                           \A f \in Elements(calls[c].fields) \cap UNION Elements(calls[r].fields) :
                             \E x \in calls[r].result : x.str[2] = f /\ NotBefore(x.str[1], c)
  BY DEF ReadSound
<1>1. Sound(r)
  BY DEF ReadInv, DoneReads, Reads
<1> QED
  BY <1>1 DEF Sound, Sought, Copied

(* A Read or a Scan that no Update of its record overlaps copies live      *)
(* strings only, and gets for each field it asked for what the record held *)
(* when it began, or something newer, whatever other calls do beside it:   *)
(* the pointers that FetchFields takes out of the lock of a field table    *)
(* are still good when CopyToResult follows them.                          *)
THEOREM ReadsAreSound == Spec => []ReadSound
BY Invariance, InitReads, NextReads, SoundByInv, PTL DEF Spec
================================================================================
