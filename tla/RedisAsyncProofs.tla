-------------------------- MODULE RedisAsyncProofs ---------------------------
(***************************************************************************)
(* Proofs about RedisAsync, for any channels, patterns and lists of names, *)
(* any hash function and any number of commands, messages and faults:      *)
(* AssertionsHold, OwnReply, Finished and SubscriptionsAgree, if the       *)
(* application is disciplined.                                             *)
(*                                                                         *)
(* All four follow from one invariant, about the context a, what is on its *)
(* way to the client (w, the messages read and not processed before those  *)
(* on the wire), what is on its way to the server (q, the commands on the  *)
(* wire before those in the output buffer), the subscriptions s the server *)
(* has (t without MONITOR), whether it has closed (cl), the callback c in  *)
(* the loop, and the histories iss and rn of commands and runs.  Its heart *)
(* is AlignInv: the callbacks of regular commands wait in the order of the *)
(* replies and commands that are on their way, and these come before all   *)
(* else.                                                                   *)
(***************************************************************************)
EXTENDS RedisAsync, TLAPS, FiniteSetTheorems, WellFoundedInduction

Wire == inbox \o down
Sent == up \o ac.obuf

-------------------------------------------------------------------------------
(* Types.                                                                  *)

Ids == 1 .. MaxCommands
MessageTypes == {"reply", "error", "message", "subscribe", "unsubscribe"}
MessageType == [type : MessageTypes \cup {"null"}, name : Names \cup {Monitor, ""},
                count : Nat, id : 0 .. MaxCommands]
WireType == {m \in MessageType : m.type # "null"}
SentType == {c \in [kind : {"GET", Monitor, "SUBSCRIBE", "UNSUBSCRIBE"}, names : NameLists \cup {<< >>},
                    scope : SUBSET Names, id : Ids] :
               Command(c.kind, c.names, c.scope) \in CommandSet}
EntryType(keys) == [key : keys, val : Ids]

DictType(keys) == [table : Seq(SUBSET EntryType(keys)), used : Nat]

(* A table: every entry is in the slot of its hash, a key has one entry,   *)
(* and used is how many entries there are.                                 *)
DictOK(ht) ==
  /\ \A i \in DOMAIN ht.table : \A e \in ht.table[i] : Index(e.key, Size(ht)) = i
  /\ \A e, f \in dictEntries(ht) : e.key = f.key => e = f
  /\ IsFiniteSet(dictEntries(ht)) /\ ht.used = Cardinality(dictEntries(ht))

ContextType ==
  [state : {"none", "alive", "freed"}, err : {"none", "IO", "OTHER", "PROTOCOL"},
   connected : BOOLEAN, disconnecting : BOOLEAN, freeing : BOOLEAN,
   subscribed : BOOLEAN, monitoring : BOOLEAN,
   replies : Seq(0 .. MaxCommands), invalid : Seq(Ids),
   channels : DictType(Channels), patterns : DictType(Patterns),
   obuf : Seq(SentType), reading : BOOLEAN, writing : BOOLEAN]

OutcomeType ==
  [fd : Int, err : {"none", "IO", "OTHER"}, connected : BOOLEAN, rv : BOOLEAN, open : SUBSET Nat]

(* What every variable can hold.                                           *)
TypeOK ==
  /\ ac \in ContextType /\ DictOK(ac.channels) /\ DictOK(ac.patterns)
  /\ conn \in OutcomeType
  /\ pc \in {"events", "loop"} /\ cb \in 0 .. MaxCommands
  /\ inbox \in Seq(WireType) /\ down \in Seq(WireType) /\ up \in Seq(SentType)
  /\ subs \in SUBSET (Names \cup {Monitor}) /\ closed \in BOOLEAN
  /\ published \in Nat /\ faults \in Nat
  /\ issued \in Seq(CommandSet) /\ Len(issued) <= MaxCommands
  /\ runs \in [Ids -> Seq(MessageType)]

-------------------------------------------------------------------------------
(* Subscriptions.                                                          *)

(* A message about a name.                                                 *)
About(m) == m.type \in {"subscribe", "message", "unsubscribe"} /\ m.name # Monitor

(* Name n is in a SUBSCRIBE of q; its end is confirmed in w, or after p.   *)
Asked(q, n) == \E p \in DOMAIN q : q[p].kind = "SUBSCRIBE" /\ n \in q[p].scope
EndsAfter(w, p, n) == \E r \in DOMAIN w : r > p /\ w[r].type = "unsubscribe" /\ w[r].name = n
Ending(w, n) == EndsAfter(w, 0, n)

(* The tables have the names the server has, or will have, and those whose *)
(* end is on its way.                                                      *)
TablesInv(a, w, q, t) ==
  /\ \A n \in Names : n \in AllNames(a) <=> n \in t \/ Asked(q, n) \/ Ending(w, n)
  /\ a.subscribed <=> AllNames(a) # {}

(* A name that ends is gone at the server, and nothing has been sent since;*)
(* its confirmation counts what is left after it.                          *)
EndingInv(w, q, t) ==
  /\ \A n \in Names : Ending(w, n) => n \notin t /\ q = << >>
  /\ \A p \in DOMAIN w : w[p].type = "unsubscribe" =>
       w[p].count = Cardinality({n \in Names : n \in t \/ EndsAfter(w, p, n)})

(* A message is about a name that is in the tables when its turn comes.    *)
NamedInv(a, w) ==
  \A p \in DOMAIN w : About(w[p]) =>
    /\ w[p].name \in AllNames(a)
    /\ \A r \in 1 .. (p - 1) : w[r].type = "unsubscribe" => w[r].name # w[p].name

(* A message about a name, or an error in subscribed mode, comes while the *)
(* subscriptions last.                                                     *)
LateInv(w, t) ==
  \A p \in DOMAIN w : About(w[p]) \/ (w[p].type = "error" /\ w[p] # Rejection) =>
    t # {} \/ \E r \in p .. Len(w) : w[r].type = "unsubscribe"

(* An UNSUBSCRIBE is the last command, and of what is subscribed by then.  *)
LastInv(w, q, t) ==
  \A p \in DOMAIN q : q[p].kind = "UNSUBSCRIBE" =>
    /\ p = Len(q) /\ \A n \in Names : ~Ending(w, n)
    /\ \E n \in q[p].scope : n \in t \/ Asked(q, n)
    /\ q[p].names # << >> =>
         Distinct(q[p].names) /\ \A n \in q[p].scope : n \in t \/ Asked(q, n)

-------------------------------------------------------------------------------
(* The order of replies.                                                   *)

(* The server has closed and nothing but its rejection is to come.         *)
Quiet(w, cl) == cl /\ (w = << >> \/ w = << Rejection >>)

Reply(id) == Message("reply", "", 0, id)
Refusal(id) == Message("error", "", 0, id)

(* The callbacks that wait are those of the replies, and then of the       *)
(* commands, that come first on their way; the other GETs will be refused. *)
AlignInv(r, w, q, t) ==
  /\ Len(r) <= Len(w) + Len(q)
  /\ \A p \in DOMAIN w : p <= Len(r) => w[p] = Reply(r[p])
  /\ \A p \in DOMAIN w : p > Len(r) => w[p].type # "reply"
  /\ \A p \in DOMAIN q : Len(w) + p <= Len(r) =>
       q[p].kind = "GET" /\ q[p].id = r[Len(w) + p] /\ t = {}
  /\ \A p \in DOMAIN q : Len(w) + p > Len(r) /\ q[p].kind = "GET" =>
       t # {} \/ \E k \in 1 .. (p - 1) : q[k].kind = "SUBSCRIBE"

(* Once the client monitors, its last command is the MONITOR and its       *)
(* callback the only one; the reply to it is the first message.            *)
MonitorInv(a, w, q, s, cl, c, iss, rn) ==
  LET m == Len(iss) IN
  /\ m > 0 /\ iss[m].kind = Monitor
  /\ AllNames(a) = {} /\ s \subseteq {Monitor}
  /\ \A j \in DOMAIN a.replies : a.replies[j] \in {0, m}
  /\ c \in {0, m}
  /\ rn[m] = << >> => a.replies # << >> /\ a.replies[1] = m
  /\ \A p \in DOMAIN w :
       \/ w[p].name = Monitor /\ (rn[m] = << >> => p > 1)
       \/ p = 1 /\ rn[m] = << >> /\ w[p] \in {Reply(m), Rejection}
  /\ ~cl /\ q # << >> =>
       /\ Len(q) = 1 /\ q[1].kind = Monitor /\ q[1].id = m
       /\ w = << >> /\ rn[m] = << >> /\ Monitor \notin s
  /\ Monitor \in s /\ rn[m] = << >> => w # << >>

(* Or else: no callback is the one of a MONITOR.                           *)
RegularInv(a, w, q, s, iss) ==
  /\ Monitor \notin s
  /\ \A i \in DOMAIN iss : iss[i].kind # Monitor
  /\ \A j \in DOMAIN a.replies : a.replies[j] # 0
  /\ \A p \in DOMAIN q : q[p].kind # Monitor
  /\ \A p \in DOMAIN w : w[p].name # Monitor

-------------------------------------------------------------------------------
(* Callbacks.                                                              *)

(* Whose callback is kept where: a regular command's in one place and only *)
(* if it has not been run, a subscription's with its names.                *)
KeptInv(a, iss, rn) ==
  /\ \A j \in DOMAIN a.replies : a.replies[j] # 0 =>
       /\ a.replies[j] <= Len(iss) /\ iss[a.replies[j]].kind \in {"GET", Monitor}
       /\ iss[a.replies[j]].kind = "GET" =>
            /\ rn[a.replies[j]] = << >>
            /\ \A k \in DOMAIN a.replies : a.replies[k] = a.replies[j] => k = j
            /\ \A k \in DOMAIN a.invalid : a.invalid[k] # a.replies[j]
  /\ \A j \in DOMAIN a.invalid :
       /\ a.invalid[j] <= Len(iss) /\ iss[a.invalid[j]].kind = "GET"
       /\ rn[a.invalid[j]] = << >>
       /\ \A k \in DOMAIN a.invalid : a.invalid[k] = a.invalid[j] => k = j
  /\ \A e \in Subscriptions(a) :
       e.val <= Len(iss) /\ iss[e.val].kind = "SUBSCRIBE" /\ e.key \in iss[e.val].scope

(* A callback that has not been run is kept.                               *)
WaitInv(a, iss, rn) ==
  \A i \in DOMAIN iss : iss[i].kind \in {"GET", Monitor} =>
    \/ rn[i] # << >>
    \/ \E j \in DOMAIN a.replies : a.replies[j] = i
    \/ \E j \in DOMAIN a.invalid : a.invalid[j] = i

(* OwnReply, of a context that has not been freed.                         *)
RanInv(iss, rn) ==
  /\ \A i \in Ids : i > Len(iss) => rn[i] = << >>
  /\ \A i \in DOMAIN iss :
       /\ iss[i].kind = "GET" =>
            /\ Len(rn[i]) <= 1
            /\ \A j \in DOMAIN rn[i] : rn[i][j] \in {Rejection, Reply(i)}
       /\ iss[i].kind = Monitor =>
            \A j \in DOMAIN rn[i] :
              IF j = 1 THEN rn[i][j] \in {Rejection, Reply(i)}
              ELSE rn[i][j].name = Monitor
       /\ iss[i].kind = "SUBSCRIBE" =>
            \A j \in DOMAIN rn[i] : rn[i][j].name \in iss[i].scope
       /\ iss[i].kind = "UNSUBSCRIBE" => rn[i] = << >>

(* The server's rejection is the only message there has been.              *)
RejectInv(w, cl, rn) ==
  \A p \in DOMAIN w : w[p] = Rejection => w = << Rejection >> /\ cl /\ \A i \in Ids : rn[i] = << >>

-------------------------------------------------------------------------------
(* The invariant.                                                          *)

(* What the events left, and onConnect.                                    *)
LoopInv ==
  /\ pc = "events" => inbox = << >> /\ cb = 0
  /\ ~ac.freeing
  /\ reported = IF ac.connected THEN << "connected" >> ELSE << >>
  /\ conn.open \subseteq {conn.fd} /\ (conn.fd <= 0 => conn.open = {})

SubsInv(a, w, q, t) ==
  /\ TablesInv(a, w, q, t) /\ EndingInv(w, q, t) /\ NamedInv(a, w)
  /\ LateInv(w, t) /\ LastInv(w, q, t)

OrderInv(a, w, q, s, cl, c, iss, rn) ==
  IF a.monitoring THEN MonitorInv(a, w, q, s, cl, c, iss, rn)
  ELSE RegularInv(a, w, q, s, iss) /\ (Quiet(w, cl) \/ AlignInv(a.replies, w, q, s \ {Monitor}))

CallbackInv(a, w, cl, iss, rn) ==
  KeptInv(a, iss, rn) /\ WaitInv(a, iss, rn) /\ RanInv(iss, rn) /\ RejectInv(w, cl, rn)

FlowType(a, w, q, s, cl, c, iss, rn) ==
  /\ a \in ContextType /\ DictOK(a.channels) /\ DictOK(a.patterns)
  /\ w \in Seq(WireType) /\ q \in Seq(SentType)
  /\ s \in SUBSET (Names \cup {Monitor}) /\ cl \in BOOLEAN /\ c \in 0 .. MaxCommands
  /\ iss \in Seq(CommandSet) /\ Len(iss) <= MaxCommands
  /\ rn \in [Ids -> Seq(MessageType)]

Flow(a, w, q, s, cl, c, iss, rn) ==
  /\ FlowType(a, w, q, s, cl, c, iss, rn)
  /\ SubsInv(a, w, q, s \ {Monitor})
  /\ OrderInv(a, w, q, s, cl, c, iss, rn)
  /\ CallbackInv(a, w, cl, iss, rn)

LiveInv == LoopInv /\ Flow(ac, Wire, Sent, subs, closed, cb, issued, runs)

(* Before redisAsyncConnect.                                               *)
NoneInv ==
  /\ ac = NoContext /\ conn = Unconnected /\ pc = "events" /\ inbox = << >> /\ cb = 0
  /\ up = << >> /\ down = << >> /\ subs = {} /\ ~closed
  /\ issued = << >> /\ reported = << >> /\ \A i \in Ids : runs[i] = << >>

IInv ==
  /\ TypeOK /\ OwnReply /\ Finished
  /\ ac.state = "none" => NoneInv
  /\ Alive => LiveInv

-------------------------------------------------------------------------------
(* The constants.                                                          *)
LEMMA Bounds ==
  /\ MaxCommands \in Nat /\ Addresses \in Nat /\ REDIS_CONNECT_RETRIES \in Nat
  /\ DICT_HT_INITIAL_SIZE \in Nat \ {0}
  /\ IsFiniteSet(Names) /\ Channels \cap Patterns = {}
  /\ "" \notin Names /\ Monitor \notin Names
  /\ DictHash \in [Names -> Nat]
BY AsyncAssumption, DictAssumption, NetAssumption

(* The numbers of commands, and 0 for a NULL function.                     *)
LEMMA MaxNat == MaxCommands \in Nat /\ 0 \in 0 .. MaxCommands
<1>1. MaxCommands \in Nat
  BY Bounds
<1> QED
  BY <1>1

(* Induction, for a set of naturals.                                       *)
LEMMA LeastNatural ==
  ASSUME NEW T, T \subseteq Nat, T # {}
  PROVE  \E n \in T : \A m \in T : n <= m
<1>1. PICK n \in T : \A m \in T : << m, n >> \notin OpToRel(<, Nat)
  BY WFMin, NatLessThanWellFounded, Zenon
<1>2. \A m \in T : ~(m < n)
  BY <1>1, Zenon DEF OpToRel
<1> QED
  BY <1>2

-------------------------------------------------------------------------------
(* Tables.                                                                 *)

(* The bucket of a name is one of the table.                               *)
LEMMA IndexRange ==
  ASSUME NEW k \in Names, NEW n \in Nat \ {0}
  PROVE  Index(k, n) \in 1 .. n
<1>1. DictHash[k] \in Nat
  BY Bounds
<1>2. DictHash[k] % n \in 0 .. (n - 1)
  BY <1>1
<1> QED
  BY <1>2 DEF Index

(* What is in a table.                                                     *)
LEMMA EntryIn ==
  ASSUME NEW K \in SUBSET Names, NEW ht \in DictType(K)
  PROVE  /\ Size(ht) \in Nat /\ DOMAIN ht.table = 1 .. Size(ht)
         /\ \A e : e \in dictEntries(ht) <=> \E i \in 1 .. Size(ht) : e \in ht.table[i]
         /\ \A e \in dictEntries(ht) : e \in EntryType(K) /\ e.key \in K /\ e.val \in Ids
<1>1. ht.table \in Seq(SUBSET EntryType(K))
  BY DEF DictType
<1> QED
  BY <1>1 DEF dictEntries, Size, EntryType

(* A lookup looks into one slot and finds what there is for the key.       *)
LEMMA FindEntry ==
  ASSUME NEW K \in SUBSET Names, NEW ht \in DictType(K), DictOK(ht), NEW k \in K
  PROVE  dictFind(ht, k) = {e \in dictEntries(ht) : e.key = k}
<1>1. CASE Size(ht) = 0
  BY <1>1, EntryIn DEF dictFind
<1>2. CASE Size(ht) # 0
  <2>1. Index(k, Size(ht)) \in 1 .. Size(ht)
    BY <1>2, EntryIn, IndexRange
  <2>2. ASSUME NEW e \in dictEntries(ht), e.key = k PROVE e \in dictFind(ht, k)
    BY <1>2, <2>1, <2>2, EntryIn DEF DictOK, dictFind
  <2>3. ASSUME NEW e \in dictFind(ht, k) PROVE e \in dictEntries(ht) /\ e.key = k
    BY <1>2, <2>1, <2>3, EntryIn DEF dictFind
  <2> QED
    BY <2>2, <2>3
<1> QED
  BY <1>1, <1>2

(* The table of the entries S with n slots.                                *)
TableOf(S, n) ==
  [table |-> [i \in 1 .. n |-> {e \in S : Index(e.key, n) = i}], used |-> Cardinality(S)]

(* A table made of a set of entries has just these.                        *)
LEMMA Rehash ==
  ASSUME NEW K \in SUBSET Names, NEW n \in Nat \ {0}, NEW S \in SUBSET EntryType(K),
         IsFiniteSet(S), \A e, f \in S : e.key = f.key => e = f
  PROVE  /\ TableOf(S, n) \in DictType(K) /\ DictOK(TableOf(S, n))
         /\ dictEntries(TableOf(S, n)) = S /\ Size(TableOf(S, n)) = n
<1> DEFINE ht == TableOf(S, n)
<1>1. ht.table \in Seq(SUBSET EntryType(K)) /\ Size(ht) = n
  BY DEF Size, TableOf
<1>2. Cardinality(S) \in Nat
  BY FS_CardinalityType
<1>3. ht \in DictType(K)
  BY <1>1, <1>2 DEF DictType, TableOf
<1>4. ASSUME NEW e \in S PROVE Index(e.key, n) \in 1 .. n
  BY IndexRange DEF EntryType
<1>5. dictEntries(ht) = S
  <2>1. \A e : e \in dictEntries(ht) <=> \E i \in 1 .. n : e \in ht.table[i]
    BY <1>1, <1>3, EntryIn
  <2> QED
    BY <2>1, <1>4 DEF TableOf
<1> QED
  BY <1>1, <1>3, <1>5 DEF DictOK, TableOf

(* The empty table, and one that has been created.                         *)
LEMMA CreateTable ==
  ASSUME NEW K \in SUBSET Names
  PROVE  dictCreate \in DictType(K) /\ DictOK(dictCreate) /\ dictEntries(dictCreate) = {}
<1>1. dictCreate \in DictType(K) /\ Size(dictCreate) = 0
  BY DEF dictCreate, DictType, Size
<1>2. dictEntries(dictCreate) = {}
  BY <1>1, EntryIn
<1>3. DOMAIN dictCreate.table = {} /\ dictCreate.used = Cardinality({})
  BY FS_EmptySet DEF dictCreate
<1> QED
  BY <1>1, <1>2, <1>3, FS_EmptySet DEF DictOK

(* The slots of a table are given by its entries.                          *)
LEMMA Slots ==
  ASSUME NEW K \in SUBSET Names, NEW ht \in DictType(K), DictOK(ht), NEW i \in 1 .. Size(ht)
  PROVE  ht.table[i] = {e \in dictEntries(ht) : Index(e.key, Size(ht)) = i}
<1>1. ASSUME NEW e \in ht.table[i] PROVE e \in dictEntries(ht) /\ Index(e.key, Size(ht)) = i
  BY EntryIn DEF DictOK
<1>2. ASSUME NEW e \in dictEntries(ht), Index(e.key, Size(ht)) = i PROVE e \in ht.table[i]
  BY <1>2, EntryIn DEF DictOK
<1> QED
  BY <1>1, <1>2

(* Room for one more: the same entries, and a slot at least.               *)
LEMMA MakeRoom ==
  ASSUME NEW K \in SUBSET Names, NEW ht \in DictType(K), DictOK(ht)
  PROVE  LET room == _dictExpandIfNeeded(ht)
         IN room \in DictType(K) /\ DictOK(room) /\ dictEntries(room) = dictEntries(ht) /\ Size(room) # 0
<1>1. ASSUME NEW n \in Nat \ {0}
      PROVE  LET room == dictExpand(ht, n)
             IN room \in DictType(K) /\ DictOK(room) /\ dictEntries(room) = dictEntries(ht) /\ Size(room) # 0
  <2> DEFINE S == dictEntries(ht)
  <2>1. S \in SUBSET EntryType(K)
    BY EntryIn
  <2>2. ht.used = Cardinality(S)
    BY DEF DictOK
  <2>5. \A X : [ht EXCEPT !.table = X] = [table |-> X, used |-> ht.used]
    BY DEF DictType
  <2>4. dictExpand(ht, n) = TableOf(S, n)
    BY <2>2, <2>5, Zenon DEF dictExpand, TableOf
  <2>3. IsFiniteSet(S) /\ \A e, f \in S : e.key = f.key => e = f
    BY DEF DictOK
  <2> HIDE DEF S
  <2> QED
    BY <2>1, <2>4, <2>3, Rehash DEF S
<1>2. Size(ht) \in Nat
  BY EntryIn
<1>3. CASE Size(ht) = 0
  <2>1. _dictExpandIfNeeded(ht) = dictExpand(ht, DICT_HT_INITIAL_SIZE)
    BY <1>3 DEF _dictExpandIfNeeded
  <2>2. DICT_HT_INITIAL_SIZE \in Nat \ {0}
    BY Bounds
  <2> QED
    BY <1>1, <2>1, <2>2
<1>4. CASE Size(ht) > 0 /\ ht.used = Size(ht)
  BY <1>1, <1>2, <1>4 DEF _dictExpandIfNeeded
<1>5. CASE Size(ht) > 0 /\ ht.used # Size(ht)
  BY <1>2, <1>5 DEF _dictExpandIfNeeded
<1> QED
  BY <1>2, <1>3, <1>4, <1>5

(* dictReplace makes the entry the only one of its key.                    *)
LEMMA ReplaceEntry ==
  ASSUME NEW K \in SUBSET Names, NEW ht \in DictType(K), DictOK(ht), NEW k \in K, NEW v \in Ids
  PROVE  /\ dictReplace(ht, k, v) \in DictType(K) /\ DictOK(dictReplace(ht, k, v))
         /\ dictEntries(dictReplace(ht, k, v)) =
              {e \in dictEntries(ht) : e.key # k} \cup {[key |-> k, val |-> v]}
<1> DEFINE room == _dictExpandIfNeeded(ht)
           S == dictEntries(ht)
           x == [key |-> k, val |-> v]
           T == {e \in S : e.key # k} \cup {x}
           n == Size(room)
           h == Index(k, n)
           found == {e \in S : e.key = k}
<1>1. /\ room \in DictType(K) /\ DictOK(room) /\ dictEntries(room) = S
      /\ n \in Nat \ {0}
  BY MakeRoom, EntryIn
<1>2. S \in SUBSET EntryType(K) /\ x \in EntryType(K) /\ x.key = k
  BY EntryIn DEF EntryType
<1>3. h \in 1 .. n
  BY <1>1, IndexRange
<1>4. dictFind(room, k) = found
  BY <1>1, FindEntry
<1>5. \A i \in 1 .. n : room.table[i] = {e \in S : Index(e.key, n) = i}
  BY <1>1, Slots
<1>6. DOMAIN room.table = 1 .. n
  BY <1>1, EntryIn
<1>7. IsFiniteSet(S) /\ (\A e, f \in S : e.key = f.key => e = f) /\ room.used = Cardinality(S)
  BY <1>1 DEF DictOK
<1>8. IsFiniteSet(T) /\ Cardinality(T) = IF found = {} THEN room.used + 1 ELSE room.used
  <2>1. CASE found = {}
    <3>1. T = S \cup {x} /\ x \notin S
      BY <2>1, <1>2
    <3> QED
      BY <2>1, <3>1, <1>7, FS_AddElement
  <2>2. CASE found # {}
    <3>1. PICK f \in S : f.key = k
      BY <2>2
    <3>2. T = (S \ {f}) \cup {x} /\ x \notin S \ {f}
      BY <3>1, <1>2, <1>7
    <3>3. IsFiniteSet(S \ {f}) /\ Cardinality(S \ {f}) = Cardinality(S) - 1
      BY <1>7, FS_RemoveElement
    <3>4. IsFiniteSet(T) /\ Cardinality(T) = Cardinality(S) - 1 + 1
      BY <3>2, <3>3, FS_AddElement
    <3>5. Cardinality(S) \in Nat
      BY <1>7, FS_CardinalityType
    <3> QED
      BY <2>2, <3>4, <3>5, <1>7
  <2> QED
    BY <2>1, <2>2
<1>9. dictReplace(ht, k, v) = TableOf(T, n)
  <2>1. dictReplace(ht, k, v) =
          [table |-> [room.table EXCEPT ![h] = (@ \ found) \cup {x}],
           used |-> IF found = {} THEN room.used + 1 ELSE room.used]
    BY <1>4 DEF dictReplace
  <2>2. room.table \in [1 .. n -> SUBSET EntryType(K)]
    BY <1>1 DEF DictType, Size
  <2>3. (room.table[h] \ found) \cup {x} = {e \in T : Index(e.key, n) = h}
    BY <1>2, <1>3, <1>5
  <2>4. \A i \in 1 .. n : i # h => room.table[i] = {e \in T : Index(e.key, n) = i}
    BY <1>2, <1>5
  <2>5. [room.table EXCEPT ![h] = (@ \ found) \cup {x}] = [i \in 1 .. n |-> {e \in T : Index(e.key, n) = i}]
    BY <2>2, <2>3, <2>4
  <2> QED
    BY <2>1, <2>5, <1>8 DEF TableOf
<1>10. T \in SUBSET EntryType(K) /\ \A e, f \in T : e.key = f.key => e = f
  BY <1>2, <1>7
<1> QED
  <2> HIDE DEF T, n, S, x
  <2>1. DictOK(dictReplace(ht, k, v)) /\ dictReplace(ht, k, v) \in DictType(K) /\ dictEntries(dictReplace(ht, k, v)) = T
    BY <1>1, <1>8, <1>9, <1>10, Rehash
  <2> QED
    BY <2>1 DEF T, S, x

(* dictDelete leaves no entry of the key.                                  *)
LEMMA DeleteEntry ==
  ASSUME NEW K \in SUBSET Names, NEW ht \in DictType(K), DictOK(ht), NEW k \in K
  PROVE  /\ dictDelete(ht, k) \in DictType(K) /\ DictOK(dictDelete(ht, k))
         /\ dictEntries(dictDelete(ht, k)) = {e \in dictEntries(ht) : e.key # k}
<1> DEFINE S == dictEntries(ht)
           T == {e \in S : e.key # k}
           n == Size(ht)
           h == Index(k, n)
           found == {e \in S : e.key = k}
<1>1. dictFind(ht, k) = found
  BY FindEntry
<1>2. CASE found = {}
  BY <1>1, <1>2 DEF dictDelete
<1>3. CASE found # {}
  <2>1. S \in SUBSET EntryType(K) /\ n \in Nat /\ n # 0
    BY <1>3, EntryIn
  <2>2. h \in 1 .. n
    BY <2>1, IndexRange
  <2>3. \A i \in 1 .. n : ht.table[i] = {e \in S : Index(e.key, n) = i}
    BY Slots
  <2>4. IsFiniteSet(S) /\ (\A e, f \in S : e.key = f.key => e = f) /\ ht.used = Cardinality(S)
    BY DEF DictOK
  <2>5. IsFiniteSet(T) /\ Cardinality(T) = ht.used - 1
    <3>1. PICK f \in S : f.key = k
      BY <1>3
    <3>2. T = S \ {f}
      BY <3>1, <2>4
    <3> QED
      BY <3>2, <2>4, FS_RemoveElement
  <2>6. dictDelete(ht, k) = TableOf(T, n)
    <3>1. dictDelete(ht, k) = [table |-> [ht.table EXCEPT ![h] = @ \ found], used |-> ht.used - 1]
      BY <1>1, <1>3 DEF dictDelete
    <3>2. ht.table \in [1 .. n -> SUBSET EntryType(K)]
      BY DEF DictType, Size
    <3>3. ht.table[h] \ found = {e \in T : Index(e.key, n) = h}
      BY <2>2, <2>3
    <3>4. \A i \in 1 .. n : i # h => ht.table[i] = {e \in T : Index(e.key, n) = i}
      BY <2>3
    <3>5. [ht.table EXCEPT ![h] = @ \ found] = [i \in 1 .. n |-> {e \in T : Index(e.key, n) = i}]
      BY <3>2, <3>3, <3>4
    <3> QED
      BY <3>1, <3>5, <2>5 DEF TableOf
  <2>7. T \in SUBSET EntryType(K) /\ \A e, f \in T : e.key = f.key => e = f
    BY <2>1, <2>4
  <2> HIDE DEF T, n
  <2>8. DictOK(dictDelete(ht, k)) /\ dictDelete(ht, k) \in DictType(K) /\ dictEntries(dictDelete(ht, k)) = T
    BY <2>1, <2>5, <2>6, <2>7, Rehash
  <2> QED
    BY <2>8 DEF T
<1> QED
  BY <1>2, <1>3

(* The tables while the names of a SUBSCRIBE are added, one by one.        *)
Added(ht, names, K, id, g, n) ==
  g = [i \in 0 .. n |-> IF i = 0 THEN ht
                        ELSE IF names[i] \in K THEN dictReplace(g[i - 1], names[i], id) ELSE g[i - 1]]

(* The recursive function of Replace exists.                               *)
LEMMA AddedExists ==
  ASSUME NEW ht, NEW names, NEW K, NEW id, NEW n \in Nat
  PROVE  \E g : Added(ht, names, K, id, g, n)
<1> DEFINE T == {m \in Nat : ~\E g : Added(ht, names, K, id, g, m)}
<1>1. SUFFICES ASSUME T # {} PROVE FALSE
  OBVIOUS
<1>2. PICK m \in T : \A l \in T : m <= l
  BY <1>1, LeastNatural
<1>3. CASE m = 0
  <2> DEFINE g == [i \in 0 .. 0 |-> ht]
  <2>1. Added(ht, names, K, id, g, 0)
    BY DEF Added
  <2> QED
    BY <1>2, <1>3, <2>1
<1>4. CASE m # 0
  <2>1. m - 1 \in Nat /\ m - 1 \notin T
    BY <1>2, <1>4
  <2>2. PICK f : Added(ht, names, K, id, f, m - 1)
    BY <2>1
  <2> DEFINE g == [i \in 0 .. m |-> IF i < m THEN f[i]
                                    ELSE IF names[m] \in K THEN dictReplace(f[m - 1], names[m], id) ELSE f[m - 1]]
  <2>3. Added(ht, names, K, id, g, m)
    BY <1>4, <2>1, <2>2 DEF Added
  <2> QED
    BY <1>2, <2>3
<1> QED
  BY <1>3, <1>4

(* The names of the list that belong to the table are in it afterwards,    *)
(* with the new callback; the rest is as it was.                           *)
LEMMA ReplaceNames ==
  ASSUME NEW K \in SUBSET Names, NEW ht \in DictType(K), DictOK(ht),
         NEW names \in Seq(Names), NEW id \in Ids
  PROVE  LET h == Replace(ht, names, K, id)
         IN /\ h \in DictType(K) /\ DictOK(h)
            /\ \A e \in dictEntries(h) :
                 e \in dictEntries(ht) \/ (e.val = id /\ e.key \in Elements(names))
            /\ \A k \in K : (\E e \in dictEntries(h) : e.key = k) <=>
                 (\E e \in dictEntries(ht) : e.key = k) \/ k \in Elements(names)
<1> DEFINE n == Len(names)
           g == CHOOSE g : Added(ht, names, K, id, g, n)
           P(i) == /\ g[i] \in DictType(K) /\ DictOK(g[i])
                   /\ \A e \in dictEntries(g[i]) :
                        e \in dictEntries(ht) \/ (e.val = id /\ \E j \in 1 .. i : names[j] = e.key)
                   /\ \A k \in K : (\E e \in dictEntries(g[i]) : e.key = k) <=>
                        (\E e \in dictEntries(ht) : e.key = k) \/ (\E j \in 1 .. i : names[j] = k)
           T == {i \in 0 .. n : ~P(i)}
<1>1. Replace(ht, names, K, id) = g[n]
  BY DEF Replace, Added
<1>2. n \in Nat /\ Added(ht, names, K, id, g, n)
  <2>1. n \in Nat
    OBVIOUS
  <2>2. \E f : Added(ht, names, K, id, f, n)
    BY <2>1, AddedExists
  <2> QED
    BY <2>1, <2>2, Zenon
<1> HIDE DEF g
<1>3. P(0)
  BY <1>2 DEF Added
<1>4. ASSUME NEW i \in 1 .. n, P(i - 1) PROVE P(i)
  <2>1. CASE names[i] \in K
    <3> DEFINE h == g[i - 1]
    <3>1. g[i] = dictReplace(h, names[i], id) /\ h \in DictType(K) /\ DictOK(h)
      BY <1>2, <1>4, <2>1 DEF Added
    <3>2. /\ g[i] \in DictType(K) /\ DictOK(g[i])
          /\ dictEntries(g[i]) = {e \in dictEntries(h) : e.key # names[i]} \cup {[key |-> names[i], val |-> id]}
      BY <2>1, <3>1, ReplaceEntry
    <3>3. ASSUME NEW e \in dictEntries(g[i])
          PROVE  e \in dictEntries(ht) \/ (e.val = id /\ \E j \in 1 .. i : names[j] = e.key)
      BY <1>4, <3>2, <3>3
    <3>4. ASSUME NEW k \in K
          PROVE  (\E e \in dictEntries(g[i]) : e.key = k) <=>
                   (\E e \in dictEntries(ht) : e.key = k) \/ (\E j \in 1 .. i : names[j] = k)
      <4>1. (\E e \in dictEntries(g[i]) : e.key = k) <=> (\E e \in dictEntries(h) : e.key = k) \/ k = names[i]
        <5> DEFINE x == [key |-> names[i], val |-> id]
        <5>1. x.key = names[i] /\ x \in dictEntries(g[i])
          BY <3>2
        <5>2. \A e \in dictEntries(g[i]) : e = x \/ e \in dictEntries(h)
          BY <3>2
        <5>3. \A e \in dictEntries(h) : e.key = names[i] \/ e \in dictEntries(g[i])
          BY <3>2
        <5> HIDE DEF x, h
        <5> QED
          BY <5>1, <5>2, <5>3
      <4>2. (\E j \in 1 .. i : names[j] = k) <=> (\E j \in 1 .. (i - 1) : names[j] = k) \/ k = names[i]
        OBVIOUS
      <4> QED
        BY <1>4, <4>1, <4>2
    <3> QED
      BY <3>2, <3>3, <3>4
  <2>2. CASE names[i] \notin K
    <3>1. g[i] = g[i - 1]
      BY <1>2, <2>2 DEF Added
    <3>2. \A k \in K : (\E j \in 1 .. i : names[j] = k) <=> (\E j \in 1 .. (i - 1) : names[j] = k)
      BY <2>2
    <3> QED
      BY <1>4, <3>1, <3>2
  <2> QED
    BY <2>1, <2>2
<1> HIDE DEF P
<1>5. T = {}
  <2>1. SUFFICES ASSUME T # {} PROVE FALSE
    OBVIOUS
  <2>2. T \subseteq Nat
    OBVIOUS
  <2>3. PICK i \in T : \A j \in T : i <= j
    BY <2>1, <2>2, LeastNatural
  <2>4. i # 0
    BY <1>3
  <2>5. i \in 1 .. n /\ i - 1 \in 0 .. n /\ i - 1 \notin T
    BY <2>3, <2>4
  <2> QED
    BY <1>4, <2>5
<1>6. P(n)
  BY <1>2, <1>5
<1>7. Elements(names) = {names[j] : j \in 1 .. n}
  BY DEF Elements
<1> QED
  BY <1>1, <1>6, <1>7 DEF P

-------------------------------------------------------------------------------
(* Connecting.                                                             *)

(* At most the context's own descriptor is open.                           *)
OneOpen(o) == o \in OutcomeType /\ o.open \subseteq {o.fd} /\ (o.fd <= 0 => o.open = {})
NoneOpen(o) == OneOpen(o) /\ o.open = {}

(* An outcome with another descriptor is an outcome.                       *)
LEMMA NewFd ==
  ASSUME NEW x \in OutcomeType, NEW S \in SUBSET Nat, NEW n \in Int
  PROVE  [fd |-> n, err |-> x.err, connected |-> x.connected, rv |-> x.rv, open |-> S] \in OutcomeType
BY DEF OutcomeType

(* What the error paths of net.c do to the open descriptor.                *)
LEMMA OneOpenKept ==
  ASSUME NEW o, OneOpen(o)
  PROVE  /\ \A e \in {"IO", "OTHER"} : OneOpen(Error(o, e)) /\ NoneOpen(redisContextCloseFd(Error(o, e)))
         /\ OneOpen(Failed(o)) /\ NoneOpen(redisContextCloseFd(o))
         /\ OneOpen([o EXCEPT !.connected = TRUE])
<1>1. ASSUME NEW x, OneOpen(x) PROVE NoneOpen(redisContextCloseFd(x))
  <2>1. CASE x.fd >= 0
    <3> DEFINE y == [fd |-> -1, err |-> x.err, connected |-> x.connected, rv |-> x.rv, open |-> {}]
    <3>1. x \in OutcomeType /\ x.open \ {x.fd} = {}
      BY <1>1 DEF OneOpen
    <3>2. redisContextCloseFd(x) = y
      BY <2>1, <3>1 DEF redisContextCloseFd, OutcomeType
    <3>4. -1 \in Int /\ {} \in SUBSET Nat
      OBVIOUS
    <3>3. y \in OutcomeType /\ y.open = {}
      BY <3>1, <3>4, NewFd
    <3> QED
      BY <3>2, <3>3 DEF OneOpen, NoneOpen
  <2>2. CASE ~(x.fd >= 0)
    BY <1>1, <2>2 DEF redisContextCloseFd, OneOpen, NoneOpen, OutcomeType
  <2> QED
    BY <2>1, <2>2
<1>2. \A e \in {"IO", "OTHER"} : OneOpen(Error(o, e))
  BY DEF OneOpen, OutcomeType, Error
<1>3. OneOpen(Failed(o)) /\ OneOpen([o EXCEPT !.connected = TRUE])
  BY DEF OneOpen, OutcomeType, Failed
<1> QED
  BY <1>1, <1>2, <1>3

(* redisCreateSocket opens the only descriptor.                            *)
LEMMA OpenSocket ==
  ASSUME NEW o, NoneOpen(o)
  PROVE  \A x \in SetOption(socket(o)) : OneOpen(x)
<1>1. o.open = {} /\ o \in OutcomeType
  BY DEF NoneOpen, OneOpen
<1>2. Cardinality({}) + 1 = 1
  BY FS_EmptySet
<1>3. 1 \in Int /\ {1} \in SUBSET Nat
  OBVIOUS
<1>4. socket(o) = [fd |-> 1, err |-> o.err, connected |-> o.connected, rv |-> o.rv, open |-> {1}]
  <2>1. Cardinality(o.open) + 1 = 1 /\ o.open \cup {1} = {1}
    BY <1>1, <1>2
  <2>2. socket(o) = [o EXCEPT !.fd = 1, !.open = o.open \cup {1}]
    BY <2>1 DEF socket
  <2> QED
    BY <1>1, <2>1, <2>2 DEF OutcomeType
<1>6. socket(o) \in OutcomeType
  BY <1>1, <1>3, <1>4, NewFd
<1>5. OneOpen(socket(o))
  BY <1>4, <1>6 DEF OneOpen
<1> QED
  BY <1>5, OneOpenKept DEF SetOption, NoneOpen

(* redisContextWaitReady leaves no other descriptor open.                  *)
LEMMA WaitOpen ==
  ASSUME NEW o, OneOpen(o)
  PROVE  \A x \in redisContextWaitReady(o) : OneOpen(x)
BY OneOpenKept DEF redisContextWaitReady, NoneOpen

(* Nor does what follows connect(2).                                       *)
LEMMA ConnectedOpen ==
  ASSUME NEW o, OneOpen(o)
  PROVE  \A x \in Connected(o, FALSE) : OneOpen(x)
<1>1. Connected(o, FALSE) \subseteq
        {o, [o EXCEPT !.connected = TRUE], redisContextCloseFd(Error(o, "IO"))}
  BY DEF Connected, Then
<1> QED
  BY <1>1, OneOpenKept DEF NoneOpen

(* Nor does what comes before it.                                          *)
LEMMA ReadyOpen ==
  ASSUME NEW o, NoneOpen(o)
  PROVE  \A x \in Ready(o, FALSE, TRUE) : OneOpen(x)
<1>1. ASSUME NEW x \in Ready(o, FALSE, TRUE)
      PROVE  \E y \in SetOption(socket(o)) : x \in {y, Error(y, "OTHER")}
  BY DEF Ready, Then, Bind
<1> QED
  BY <1>1, OpenSocket, OneOpenKept

(* Nor does the end of an attempt that got as far as connect(2).           *)
LEMMA OutcomeOpen ==
  ASSUME NEW o, OneOpen(o), NEW n
  PROVE  \A x \in Outcome(o, n, FALSE, FALSE) : OneOpen(x)
<1>1. ASSUME NEW x \in Outcome(o, n, FALSE, FALSE)
      PROVE  \/ x \in Connected(o, FALSE)
             \/ \E z \in redisContextWaitReady(o) : x = z \/ x \in Connected(z, FALSE)
  BY DEF Outcome, Then
<1> QED
  BY <1>1, WaitOpen, ConnectedOpen

(* Nor does the end of any attempt.                                        *)
LEMMA EndsOpen ==
  ASSUME NEW t, NoneOpen(t.o)
  PROVE  \A x \in Ends(t, FALSE, FALSE, TRUE) : OneOpen(x)
<1>1. CASE t.left = 0
  BY <1>1, OneOpenKept DEF Ends, NoneOpen
<1>2. CASE t.left # 0
  <2>1. ASSUME NEW x \in Ends(t, FALSE, FALSE, TRUE)
        PROVE  \E y \in Ready(t.o, FALSE, TRUE) : x = y \/ x \in Outcome(y, t.reuses, FALSE, FALSE)
    BY <1>2 DEF Ends, Then
  <2> QED
    BY <2>1, ReadyOpen, OutcomeOpen
<1> QED
  BY <1>1, <1>2

(* An attempt that is given up leaves no descriptor to the next.           *)
LEMMA RetriesOpen ==
  ASSUME NEW t, t \in [o : OutcomeType, left : Nat, reuses : Nat], NoneOpen(t.o)
  PROVE  \A u \in Retries(t, FALSE, TRUE) : u \in [o : OutcomeType, left : Nat, reuses : Nat] /\ NoneOpen(u.o)
<1>1. CASE t.left = 0
  BY <1>1 DEF Retries
<1>2. CASE t.left # 0
  <2>1. ASSUME NEW u \in Retries(t, FALSE, TRUE)
        PROVE  \/ u = [t EXCEPT !.left = @ - 1]
               \/ \E x \in Ready(t.o, FALSE, TRUE) : u = [t EXCEPT !.o = redisContextCloseFd(x), !.left = @ - 1]
    BY <1>2 DEF Retries
  <2>2. \A x \in Ready(t.o, FALSE, TRUE) : NoneOpen(redisContextCloseFd(x))
    BY ReadyOpen, OneOpenKept
  <2>3. \A x : NoneOpen(x) => x \in OutcomeType
    BY DEF NoneOpen, OneOpen
  <2>4. t.left - 1 \in Nat
    BY <1>2
  <2>5. ASSUME NEW x, NoneOpen(x)
        PROVE  LET u == [t EXCEPT !.o = x, !.left = @ - 1]
               IN u \in [o : OutcomeType, left : Nat, reuses : Nat] /\ NoneOpen(u.o)
    BY <2>3, <2>4, <2>5
  <2>6. LET u == [t EXCEPT !.left = @ - 1]
        IN u \in [o : OutcomeType, left : Nat, reuses : Nat] /\ NoneOpen(u.o)
    BY <2>4
  <2> QED
    BY <2>1, <2>2, <2>5, <2>6
<1> QED
  BY <1>1, <1>2

(* The attempts of the loop over addresses, round by round.                *)
FirstRound(o, n) == {[o |-> o, left |-> n, reuses |-> 0]}
NextRound(S) == Round(S, FALSE, TRUE)

Rounds(o, n, g, k) ==
  g = [i \in 0 .. k |-> IF i = 0 THEN FirstRound(o, n)
                        ELSE NextRound(g[i - 1])]

(* The recursive function of TryAddresses exists.                          *)
LEMMA RoundsExist ==
  ASSUME NEW o, NEW n, NEW k \in Nat
  PROVE  \E g : Rounds(o, n, g, k)
<1> DEFINE T == {m \in Nat : ~\E g : Rounds(o, n, g, m)}
<1>1. SUFFICES ASSUME T # {} PROVE FALSE
  OBVIOUS
<1>2. PICK m \in T : \A l \in T : m <= l
  BY <1>1, LeastNatural
<1>3. CASE m = 0
  <2> DEFINE g == [i \in 0 .. 0 |-> FirstRound(o, n)]
  <2>1. Rounds(o, n, g, 0)
    BY DEF Rounds
  <2> QED
    BY <1>2, <1>3, <2>1
<1>4. CASE m # 0
  <2>1. m - 1 \in Nat /\ m - 1 \notin T
    BY <1>2, <1>4
  <2>2. PICK f : Rounds(o, n, f, m - 1)
    BY <2>1
  <2> DEFINE g == [i \in 0 .. m |-> IF i < m THEN f[i] ELSE NextRound(f[m - 1])]
  <2>3. Rounds(o, n, g, m)
    BY <1>4, <2>1, <2>2 DEF Rounds
  <2> QED
    BY <1>2, <2>3
<1> QED
  BY <1>3, <1>4

(* However the loop ends, at most the context's descriptor is open.        *)
LEMMA TryOpen ==
  ASSUME NEW o, NoneOpen(o), NEW n \in Nat
  PROVE  \A x \in TryAddresses(o, n, FALSE, FALSE, TRUE) : OneOpen(x)
<1> DEFINE k == n + REDIS_CONNECT_RETRIES
           g == CHOOSE g : Rounds(o, n, g, k)
           A == [o : OutcomeType, left : Nat, reuses : Nat]
           P(i) == \A t \in g[i] : t \in A /\ NoneOpen(t.o)
           T == {i \in 0 .. k : ~P(i)}
<1>1. TryAddresses(o, n, FALSE, FALSE, TRUE) =
        UNION {Ends(t, FALSE, FALSE, TRUE) : t \in UNION {g[i] : i \in 0 .. k}}
  BY DEF TryAddresses, Rounds, FirstRound, NextRound
<1>2. k \in Nat /\ Rounds(o, n, g, k)
  <2>1. k \in Nat
    BY NetAssumption
  <2>2. \E f : Rounds(o, n, f, k)
    BY <2>1, RoundsExist
  <2> QED
    BY <2>1, <2>2, Zenon
<1> HIDE DEF g, k
<1>3. P(0)
  <2>1. g[0] = FirstRound(o, n)
    BY <1>2 DEF Rounds
  <2>2. o \in OutcomeType
    BY DEF NoneOpen, OneOpen
  <2> QED
    BY <2>1, <2>2 DEF FirstRound
<1>4. ASSUME NEW i \in 1 .. k, P(i - 1) PROVE P(i)
  <2>1. g[i] = NextRound(g[i - 1])
    BY <1>2 DEF Rounds
  <2>2. SUFFICES ASSUME NEW u \in g[i] PROVE u \in A /\ NoneOpen(u.o)
    OBVIOUS
  <2>3. PICK t \in g[i - 1] : u \in Retries(t, FALSE, TRUE)
    BY <2>1 DEF NextRound, Round
  <2> QED
    BY <1>4, <2>3, RetriesOpen
<1> HIDE DEF P
<1>5. T = {}
  <2>1. SUFFICES ASSUME T # {} PROVE FALSE
    OBVIOUS
  <2>2. T \subseteq Nat
    OBVIOUS
  <2>3. PICK i \in T : \A j \in T : i <= j
    BY <2>1, <2>2, LeastNatural
  <2>4. i # 0
    BY <1>3
  <2>5. i \in 1 .. k /\ i - 1 \in 0 .. k /\ i - 1 \notin T
    BY <1>2, <2>3, <2>4
  <2> QED
    BY <1>4, <2>5
<1>6. SUFFICES ASSUME NEW i \in 0 .. k, NEW t \in g[i], NEW x \in Ends(t, FALSE, FALSE, TRUE)
               PROVE  OneOpen(x)
  BY <1>1
<1>7. P(i)
  BY <1>5
<1> QED
  BY <1>7, EndsOpen DEF P

(* What redisAsyncConnect and its variants leave in the context.           *)
LEMMA ConnectOpen ==
  ASSUME NEW x \in redisContextConnectTcp(Unconnected, FALSE, FALSE, TRUE)
                   \cup redisContextConnectUnix(Unconnected, FALSE)
  PROVE  OneOpen(x)
<1>1. NoneOpen(Unconnected)
  BY DEF NoneOpen, OneOpen, OutcomeType, Unconnected
<1>2. OneOpen(Unconnected)
  BY <1>1 DEF NoneOpen
<1>3. CASE x \in redisContextConnectTcp(Unconnected, FALSE, FALSE, TRUE)
  <2>1. \/ x = Error(Unconnected, "OTHER")
        \/ \E n \in 1 .. Addresses : x \in TryAddresses(Unconnected, n, FALSE, FALSE, TRUE)
    BY <1>3 DEF redisContextConnectTcp
  <2>2. \A n \in 1 .. Addresses : n \in Nat
    BY NetAssumption
  <2> QED
    BY <1>1, <1>2, <2>1, <2>2, OneOpenKept, TryOpen
<1>4. CASE x \in redisContextConnectUnix(Unconnected, FALSE)
  <2>1. \/ x = Error(Unconnected, "IO")
        \/ \E y \in SetOption(socket(Unconnected)) :
             \/ x = y \/ x = [y EXCEPT !.connected = TRUE]
             \/ \E z \in redisContextWaitReady(y) : x = z \/ x = [z EXCEPT !.connected = TRUE]
    BY <1>4 DEF redisContextConnectUnix, Then
  <2>2. \A y \in SetOption(socket(Unconnected)) : OneOpen(y)
    BY <1>1, OpenSocket
  <2>3. \A y : OneOpen(y) => OneOpen([y EXCEPT !.connected = TRUE])
    BY OneOpenKept
  <2> QED
    BY <1>2, <2>1, <2>2, <2>3, WaitOpen, OneOpenKept
<1> QED
  BY <1>3, <1>4

-------------------------------------------------------------------------------
(* Sequences.                                                              *)

(* The parts of two sequences that are put together.                       *)
LEMMA CatParts ==
  ASSUME NEW A, NEW s \in Seq(A), NEW t \in Seq(A)
  PROVE  /\ s \o t \in Seq(A) /\ Len(s \o t) = Len(s) + Len(t)
         /\ DOMAIN (s \o t) = 1 .. (Len(s) + Len(t))
         /\ \A i \in 1 .. Len(s) : (s \o t)[i] = s[i]
         /\ \A i \in 1 .. Len(t) : (s \o t)[Len(s) + i] = t[i]
OBVIOUS

(* An element of two sequences is of one of them.                          *)
LEMMA CatEither ==
  ASSUME NEW A, NEW s \in Seq(A), NEW t \in Seq(A)
  PROVE  /\ s \o t \in Seq(A)
         /\ \A p \in DOMAIN (s \o t) :
              (p \in DOMAIN s /\ (s \o t)[p] = s[p]) \/ \E i \in DOMAIN t : (s \o t)[p] = t[i]
<1>1. /\ DOMAIN (s \o t) = 1 .. (Len(s) + Len(t)) /\ DOMAIN s = 1 .. Len(s) /\ DOMAIN t = 1 .. Len(t)
      /\ Len(s) \in Nat /\ Len(t) \in Nat
  BY CatParts
<1>2. ASSUME NEW p \in DOMAIN (s \o t), p \notin DOMAIN s PROVE \E i \in DOMAIN t : (s \o t)[p] = t[i]
  <2> DEFINE i == p - Len(s)
  <2>1. i \in 1 .. Len(t) /\ Len(s) + i = p
    BY <1>1, <1>2
  <2> HIDE DEF i
  <2> QED
    BY <1>1, <2>1, CatParts
<1> QED
  BY <1>1, <1>2, CatParts

(* What is left of a sequence without its first element.                   *)
LEMMA TailParts ==
  ASSUME NEW A, NEW s \in Seq(A), s # << >>
  PROVE  /\ Tail(s) \in Seq(A) /\ Len(Tail(s)) = Len(s) - 1 /\ Len(s) > 0
         /\ DOMAIN Tail(s) = 1 .. (Len(s) - 1)
         /\ \A i \in 1 .. (Len(s) - 1) : Tail(s)[i] = s[i + 1]
         /\ Head(s) = s[1] /\ s[1] \in A
OBVIOUS

(* A sequence with one element more.                                       *)
LEMMA AppendParts ==
  ASSUME NEW A, NEW s \in Seq(A), NEW x \in A
  PROVE  /\ Append(s, x) \in Seq(A) /\ Len(Append(s, x)) = Len(s) + 1
         /\ DOMAIN Append(s, x) = 1 .. (Len(s) + 1)
         /\ \A i \in 1 .. Len(s) : Append(s, x)[i] = s[i]
         /\ Append(s, x)[Len(s) + 1] = x
OBVIOUS

(* One element more is a sequence of one element more.                     *)
LEMMA OneMore ==
  ASSUME NEW A, NEW s \in Seq(A), NEW x \in A
  PROVE  << x >> \in Seq(A) /\ Append(s, x) = s \o << x >> /\ DOMAIN << x >> = {1} /\ << x >>[1] = x
OBVIOUS

(* Sequences with the same elements are the same.                          *)
LEMMA SeqEqual ==
  ASSUME NEW A, NEW s \in Seq(A), NEW t \in Seq(A), Len(s) = Len(t),
         \A i \in 1 .. Len(s) : s[i] = t[i]
  PROVE  s = t
OBVIOUS

(* The first element of two sequences is the first of the first one.       *)
LEMMA CatTail ==
  ASSUME NEW A, NEW s \in Seq(A), NEW t \in Seq(A), s # << >>
  PROVE  s \o t # << >> /\ Tail(s \o t) = Tail(s) \o t /\ Head(s \o t) = Head(s)
<1>1. s \o t \in Seq(A) /\ s \o t # << >> /\ Len(s \o t) = Len(s) + Len(t)
  OBVIOUS
<1>2. Tail(s) \o t \in Seq(A) /\ Tail(s \o t) \in Seq(A)
  BY <1>1
<1>3. Len(Tail(s) \o t) = Len(Tail(s \o t))
  BY <1>1
<1>4. ASSUME NEW i \in 1 .. Len(Tail(s) \o t) PROVE (Tail(s) \o t)[i] = Tail(s \o t)[i]
  BY <1>1
<1> QED
  BY <1>1, <1>2, <1>3, <1>4, SeqEqual

(* An element is added to two sequences at the end of the second.          *)
LEMMA CatAppend ==
  ASSUME NEW A, NEW s \in Seq(A), NEW t \in Seq(A), NEW x \in A
  PROVE  Append(s \o t, x) = s \o Append(t, x)
OBVIOUS

(* A sequence is its first n elements and the others.                      *)
LEMMA CatSplit ==
  ASSUME NEW A, NEW s \in Seq(A), NEW n \in 0 .. Len(s)
  PROVE  /\ SubSeq(s, 1, n) \in Seq(A) /\ SubSeq(s, n + 1, Len(s)) \in Seq(A)
         /\ SubSeq(s, 1, n) \o SubSeq(s, n + 1, Len(s)) = s
<1> DEFINE u == SubSeq(s, 1, n)
           v == SubSeq(s, n + 1, Len(s))
<1>1. u \in Seq(A) /\ v \in Seq(A)
  OBVIOUS
<1>2. Len(u) = n /\ Len(v) = Len(s) - n
  OBVIOUS
<1>3. \A i \in 1 .. n : u[i] = s[i]
  OBVIOUS
<1>4. \A i \in 1 .. (Len(s) - n) : v[i] = s[n + i]
  OBVIOUS
<1>7. Len(s) \in Nat /\ n \in Nat
  OBVIOUS
<1> HIDE DEF u, v
<1>5. u \o v \in Seq(A) /\ Len(u \o v) = Len(s)
  <2>1. u \o v \in Seq(A) /\ Len(u \o v) = Len(u) + Len(v)
    BY <1>1, CatParts
  <2>2. Len(u) + Len(v) = Len(s)
    BY <1>2, <1>7
  <2> QED
    BY <2>1, <2>2, Zenon
<1>6. ASSUME NEW i \in 1 .. Len(s) PROVE (u \o v)[i] = s[i]
  <2>1. CASE i <= n
    BY <1>1, <1>2, <1>3, <1>7, <2>1, CatParts
  <2>2. CASE i > n
    <3>1. i - n \in 1 .. (Len(s) - n) /\ n + (i - n) = i
      BY <2>2, <1>7
    <3>2. (u \o v)[Len(u) + (i - n)] = v[i - n]
      BY <1>1, <1>2, <3>1, CatParts
    <3> QED
      BY <1>2, <1>4, <3>1, <3>2
  <2>3. i <= n \/ i > n
    BY <1>7
  <2> QED
    BY <2>1, <2>2, <2>3, Zenon
<1>8. u \o v = s
  BY <1>5, <1>6, SeqEqual
<1> QED
  BY <1>1, <1>8 DEF u, v

(* Concatenation is associative, with the empty sequence as unit.          *)
LEMMA CatCat ==
  ASSUME NEW A, NEW s \in Seq(A), NEW t \in Seq(A), NEW u \in Seq(A)
  PROVE  (s \o t) \o u = s \o (t \o u) /\ << >> \o s = s /\ s \o << >> = s
OBVIOUS

-------------------------------------------------------------------------------
(* What is asked for and what ends, in a longer or shorter sequence.       *)

(* A command that is added asks for its own names only.                    *)
LEMMA AskedAppend ==
  ASSUME NEW q \in Seq(SentType), NEW x \in SentType, NEW n
  PROVE  Asked(Append(q, x), n) <=> Asked(q, n) \/ (x.kind = "SUBSCRIBE" /\ n \in x.scope)
<1>1. \A p \in 1 .. Len(q) : Append(q, x)[p] = q[p]
  OBVIOUS
<1>2. Append(q, x)[Len(q) + 1] = x /\ DOMAIN Append(q, x) = 1 .. (Len(q) + 1) /\ DOMAIN q = 1 .. Len(q)
  OBVIOUS
<1> QED
  BY <1>1, <1>2 DEF Asked

(* A command that is served is no longer asked for.                        *)
LEMMA AskedTail ==
  ASSUME NEW q \in Seq(SentType), q # << >>, NEW n
  PROVE  Asked(q, n) <=> Asked(Tail(q), n) \/ (q[1].kind = "SUBSCRIBE" /\ n \in q[1].scope)
<1>1. /\ DOMAIN Tail(q) = 1 .. (Len(q) - 1) /\ DOMAIN q = 1 .. Len(q) /\ Len(q) \in Nat \ {0}
      /\ \A p \in 1 .. (Len(q) - 1) : Tail(q)[p] = q[p + 1]
  OBVIOUS
<1>2. ASSUME NEW p \in 1 .. Len(q), p # 1 PROVE p - 1 \in 1 .. (Len(q) - 1) /\ q[p] = Tail(q)[p - 1]
  BY <1>1, <1>2
<1>3. ASSUME NEW p \in 1 .. (Len(q) - 1) PROVE p + 1 \in 1 .. Len(q) /\ Tail(q)[p] = q[p + 1]
  BY <1>1
<1>4. 1 \in 1 .. Len(q)
  BY <1>1
<1> DEFINE A(z) == z.kind = "SUBSCRIBE" /\ n \in z.scope
<1>5. Asked(q, n) <=> \E p \in 1 .. Len(q) : A(q[p])
  BY <1>1 DEF Asked
<1>6. Asked(Tail(q), n) <=> \E p \in 1 .. (Len(q) - 1) : A(Tail(q)[p])
  BY <1>1 DEF Asked
<1> HIDE DEF A
<1>7. ASSUME \E p \in 1 .. Len(q) : A(q[p]) PROVE A(q[1]) \/ \E p \in 1 .. (Len(q) - 1) : A(Tail(q)[p])
  BY <1>2, <1>7
<1>8. ASSUME \E p \in 1 .. (Len(q) - 1) : A(Tail(q)[p]) PROVE \E p \in 1 .. Len(q) : A(q[p])
  BY <1>3, <1>8
<1> QED
  BY <1>4, <1>5, <1>6, <1>7, <1>8 DEF A

(* Nothing is asked for, or ends, in an empty sequence.                    *)
LEMMA AskedNone ==
  ASSUME NEW n PROVE ~Asked(<< >>, n) /\ \A p : ~EndsAfter(<< >>, p, n)
BY DEF Asked, EndsAfter

(* What ends in a longer sequence of messages.                             *)
LEMMA EndsCat ==
  ASSUME NEW w \in Seq(WireType), NEW v \in Seq(WireType), NEW p \in Nat, NEW n
  PROVE  EndsAfter(w \o v, p, n) <=>
           EndsAfter(w, p, n)
           \/ \E r \in DOMAIN v : Len(w) + r > p /\ v[r].type = "unsubscribe" /\ v[r].name = n
<1>1. /\ DOMAIN (w \o v) = 1 .. (Len(w) + Len(v)) /\ DOMAIN w = 1 .. Len(w) /\ DOMAIN v = 1 .. Len(v)
      /\ Len(w) \in Nat /\ Len(v) \in Nat
      /\ \A r \in 1 .. Len(w) : (w \o v)[r] = w[r]
      /\ \A r \in 1 .. Len(v) : (w \o v)[Len(w) + r] = v[r]
  OBVIOUS
<1>2. ASSUME NEW r \in 1 .. (Len(w) + Len(v)), r \notin 1 .. Len(w)
      PROVE  r - Len(w) \in 1 .. Len(v) /\ (w \o v)[r] = v[r - Len(w)] /\ Len(w) + (r - Len(w)) = r
  <2>1. r - Len(w) \in 1 .. Len(v) /\ Len(w) + (r - Len(w)) = r
    BY <1>1, <1>2
  <2> QED
    BY <1>1, <2>1
<1>3. ASSUME NEW r \in 1 .. Len(v) PROVE Len(w) + r \in 1 .. (Len(w) + Len(v))
  BY <1>1
<1>4. 1 .. Len(w) \subseteq 1 .. (Len(w) + Len(v))
  BY <1>1
<1> DEFINE A(z) == z.type = "unsubscribe" /\ z.name = n
<1>5. EndsAfter(w \o v, p, n) <=> \E r \in 1 .. (Len(w) + Len(v)) : r > p /\ A((w \o v)[r])
  BY <1>1 DEF EndsAfter
<1>6. EndsAfter(w, p, n) <=> \E r \in 1 .. Len(w) : r > p /\ A(w[r])
  BY <1>1 DEF EndsAfter
<1>7. (\E r \in DOMAIN v : Len(w) + r > p /\ v[r].type = "unsubscribe" /\ v[r].name = n)
      <=> \E r \in 1 .. Len(v) : Len(w) + r > p /\ A(v[r])
  BY <1>1
<1> HIDE DEF A
<1>8. ASSUME NEW r \in 1 .. (Len(w) + Len(v)), r > p, A((w \o v)[r])
      PROVE  (\E t \in 1 .. Len(w) : t > p /\ A(w[t])) \/ \E t \in 1 .. Len(v) : Len(w) + t > p /\ A(v[t])
  <2>1. CASE r \in 1 .. Len(w)
    BY <2>1, <1>8, <1>1
  <2>2. CASE r \notin 1 .. Len(w)
    <3> DEFINE t == r - Len(w)
    <3>1. t \in 1 .. Len(v) /\ (w \o v)[r] = v[t] /\ Len(w) + t = r
      BY <1>2, <2>2
    <3> HIDE DEF t
    <3> QED
      BY <3>1, <1>8
  <2> QED
    BY <2>1, <2>2
<1>9. ASSUME NEW r \in 1 .. Len(w), r > p, A(w[r]) PROVE \E t \in 1 .. (Len(w) + Len(v)) : t > p /\ A((w \o v)[t])
  BY <1>1, <1>4, <1>9
<1>10. ASSUME NEW r \in 1 .. Len(v), Len(w) + r > p, A(v[r])
       PROVE  \E t \in 1 .. (Len(w) + Len(v)) : t > p /\ A((w \o v)[t])
  <2> DEFINE t == Len(w) + r
  <2>1. t \in 1 .. (Len(w) + Len(v)) /\ t > p /\ (w \o v)[t] = v[r]
    BY <1>1, <1>3, <1>10
  <2> HIDE DEF t
  <2> QED
    BY <1>10, <2>1
<1> QED
  BY <1>5, <1>6, <1>7, <1>8, <1>9, <1>10

(* What ends after the first message.                                      *)
LEMMA EndsTail ==
  ASSUME NEW w \in Seq(WireType), w # << >>, NEW n
  PROVE  /\ \A p \in Nat : EndsAfter(Tail(w), p, n) <=> EndsAfter(w, p + 1, n)
         /\ Ending(w, n) <=> (w[1].type = "unsubscribe" /\ w[1].name = n) \/ Ending(Tail(w), n)
<1>1. /\ DOMAIN Tail(w) = 1 .. (Len(w) - 1) /\ DOMAIN w = 1 .. Len(w) /\ Len(w) \in Nat \ {0}
      /\ \A p \in 1 .. (Len(w) - 1) : Tail(w)[p] = w[p + 1]
  OBVIOUS
<1>2. ASSUME NEW p \in 1 .. Len(w), p # 1 PROVE p - 1 \in 1 .. (Len(w) - 1) /\ w[p] = Tail(w)[p - 1]
  BY <1>1, <1>2
<1>3. ASSUME NEW p \in Nat PROVE EndsAfter(Tail(w), p, n) <=> EndsAfter(w, p + 1, n)
  <2> DEFINE A(z) == z.type = "unsubscribe" /\ z.name = n
  <2>1. EndsAfter(w, p + 1, n) <=> \E r \in 1 .. Len(w) : r > p + 1 /\ A(w[r])
    BY <1>1 DEF EndsAfter
  <2>2. EndsAfter(Tail(w), p, n) <=> \E r \in 1 .. (Len(w) - 1) : r > p /\ A(Tail(w)[r])
    BY <1>1 DEF EndsAfter
  <2> HIDE DEF A
  <2>3. ASSUME NEW r \in 1 .. Len(w), r > p + 1, A(w[r])
        PROVE  \E t \in 1 .. (Len(w) - 1) : t > p /\ A(Tail(w)[t])
    <3> DEFINE t == r - 1
    <3>1. t \in 1 .. (Len(w) - 1) /\ w[r] = Tail(w)[t] /\ t > p
      BY <1>2, <2>3
    <3> HIDE DEF t
    <3> QED
      BY <2>3, <3>1
  <2>4. ASSUME NEW r \in 1 .. (Len(w) - 1), r > p, A(Tail(w)[r])
        PROVE  \E t \in 1 .. Len(w) : t > p + 1 /\ A(w[t])
    <3> DEFINE t == r + 1
    <3>1. t \in 1 .. Len(w) /\ w[t] = Tail(w)[r] /\ t > p + 1
      BY <1>1, <2>4
    <3> HIDE DEF t
    <3> QED
      BY <2>4, <3>1
  <2> QED
    BY <2>1, <2>2, <2>3, <2>4
<1>4. Ending(w, n) <=> (w[1].type = "unsubscribe" /\ w[1].name = n) \/ EndsAfter(w, 1, n)
  BY <1>1 DEF Ending, EndsAfter
<1>5. EndsAfter(w, 1, n) <=> Ending(Tail(w), n)
  BY <1>3 DEF Ending
<1> QED
  BY <1>3, <1>4, <1>5

-------------------------------------------------------------------------------
(* Changes of the context.                                                 *)

(* b has the callbacks and the mode of a.                                  *)
Same(a, b) ==
  /\ b.replies = a.replies /\ b.invalid = a.invalid
  /\ b.channels = a.channels /\ b.patterns = a.patterns
  /\ b.subscribed = a.subscribed /\ b.monitoring = a.monitoring

(* A context that is to disconnect is otherwise the same.                  *)
LEMMA ContextDisconnect ==
  ASSUME NEW a \in ContextType
  PROVE  LET b == [a EXCEPT !.disconnecting = TRUE]
         IN b \in ContextType /\ Same(a, b) /\ b.state = a.state /\ b.freeing = a.freeing
            /\ b.connected = a.connected /\ b.obuf = a.obuf /\ b.err = a.err
BY DEF ContextType, Same

(* A context with other callbacks for replies is otherwise the same.       *)
LEMMA ContextReplies ==
  ASSUME NEW a \in ContextType, NEW r \in Seq(0 .. MaxCommands)
  PROVE  LET b == [a EXCEPT !.replies = r]
         IN /\ b \in ContextType /\ b.replies = r /\ b.invalid = a.invalid
            /\ b.channels = a.channels /\ b.patterns = a.patterns
            /\ b.subscribed = a.subscribed /\ b.monitoring = a.monitoring
            /\ b.state = a.state /\ b.freeing = a.freeing /\ b.connected = a.connected /\ b.obuf = a.obuf
BY DEF ContextType

(* The names in the tables.                                                *)
LEMMA NamesOf ==
  ASSUME NEW a \in ContextType
  PROVE  /\ AllNames(a) \subseteq Names
         /\ \A n : n \in AllNames(a) <=> \E e \in Subscriptions(a) : e.key = n
         /\ \A e \in Subscriptions(a) : e.val \in Ids /\ e.key \in Names
         /\ \A e \in dictEntries(a.channels) : e.val \in Ids /\ e.key \in Channels
         /\ \A e \in dictEntries(a.patterns) : e.val \in Ids /\ e.key \in Patterns
<1>1. a.channels \in DictType(Channels) /\ a.patterns \in DictType(Patterns)
  BY DEF ContextType
<1>2. Channels \in SUBSET Names /\ Patterns \in SUBSET Names
  BY DEF Names
<1>3. \A e \in dictEntries(a.channels) : e.val \in Ids /\ e.key \in Channels
  BY <1>1, <1>2, EntryIn
<1>4. \A e \in dictEntries(a.patterns) : e.val \in Ids /\ e.key \in Patterns
  BY <1>1, <1>2, EntryIn
<1>5. \A n : n \in AllNames(a) <=> \E e \in Subscriptions(a) : e.key = n
  BY DEF AllNames
<1>6. \A e \in Subscriptions(a) : e.val \in Ids /\ e.key \in Names
  BY <1>2, <1>3, <1>4 DEF Subscriptions
<1> QED
  BY <1>3, <1>4, <1>5, <1>6

(* A lookup in the table that a name belongs to.                           *)
LEMMA NameFound ==
  ASSUME NEW a \in ContextType, DictOK(a.channels), DictOK(a.patterns), NEW n \in Names
  PROVE  dictFind(IF n \in Patterns THEN a.patterns ELSE a.channels, n) =
           {e \in Subscriptions(a) : e.key = n}
<1>1. a.channels \in DictType(Channels) /\ a.patterns \in DictType(Patterns)
  BY DEF ContextType
<1>2. Channels \in SUBSET Names /\ Patterns \in SUBSET Names /\ Channels \cap Patterns = {}
  BY Bounds DEF Names
<1>3. CASE n \in Patterns
  <2>1. dictFind(a.patterns, n) = {e \in dictEntries(a.patterns) : e.key = n}
    BY <1>1, <1>2, <1>3, FindEntry
  <2>2. \A e \in dictEntries(a.channels) : e.key # n
    BY <1>2, <1>3, NamesOf
  <2> QED
    BY <1>3, <2>1, <2>2 DEF Subscriptions
<1>4. CASE n \notin Patterns
  <2>1. n \in Channels
    BY <1>4 DEF Names
  <2>2. dictFind(a.channels, n) = {e \in dictEntries(a.channels) : e.key = n}
    BY <1>1, <1>2, <2>1, FindEntry
  <2>3. \A e \in dictEntries(a.patterns) : e.key # n
    BY <1>4, NamesOf
  <2> QED
    BY <1>4, <2>2, <2>3 DEF Subscriptions
<1> QED
  BY <1>3, <1>4

(* Contexts with the same tables have the same names.                      *)
LEMMA SameNames ==
  ASSUME NEW a, NEW b, Same(a, b)
  PROVE  Subscriptions(b) = Subscriptions(a) /\ AllNames(b) = AllNames(a)
BY DEF Same, Subscriptions, AllNames

(* The invariant does not depend on the rest of the context, and a closed  *)
(* connection keeps it.                                                    *)
LEMMA FlowFrame ==
  ASSUME NEW a, NEW w, NEW q, NEW s, NEW cl, NEW c, NEW iss, NEW rn,
         Flow(a, w, q, s, cl, c, iss, rn),
         NEW b \in ContextType, Same(a, b), NEW dl \in BOOLEAN, cl => dl
  PROVE  Flow(b, w, q, s, dl, c, iss, rn)
<1>1. Subscriptions(b) = Subscriptions(a) /\ AllNames(b) = AllNames(a)
  BY SameNames
<1>2. FlowType(b, w, q, s, dl, c, iss, rn)
  BY DEF Flow, FlowType, Same
<1>3. SubsInv(b, w, q, s \ {Monitor})
  BY <1>1 DEF Flow, SubsInv, TablesInv, NamedInv, Same
<1>4. OrderInv(b, w, q, s, dl, c, iss, rn)
  <2>1. CASE a.monitoring
    BY <2>1, <1>1 DEF Flow, OrderInv, MonitorInv, Same
  <2>2. CASE ~a.monitoring
    <3>1. RegularInv(b, w, q, s, iss)
      BY <2>2, <1>1 DEF Flow, OrderInv, RegularInv, Same
    <3>2. Quiet(w, cl) => Quiet(w, dl)
      BY DEF Quiet
    <3>3. AlignInv(a.replies, w, q, s \ {Monitor}) => AlignInv(b.replies, w, q, s \ {Monitor})
      BY DEF Same
    <3> QED
      BY <2>2, <3>1, <3>2, <3>3 DEF Flow, OrderInv, Same
  <2> QED
    BY <2>1, <2>2
<1>5. CallbackInv(b, w, dl, iss, rn)
  BY <1>1 DEF Flow, CallbackInv, KeptInv, WaitInv, RejectInv, Same
<1> QED
  BY <1>2, <1>3, <1>4, <1>5 DEF Flow

(* Nothing has happened yet.                                               *)
LEMMA FlowInit ==
  ASSUME NEW a \in ContextType, Same(NoContext, a), NEW rn \in [Ids -> Seq(MessageType)],
         \A i \in Ids : rn[i] = << >>,
         NEW w, w = << >>, NEW q, q = << >>, NEW s, s = {}, NEW cl \in BOOLEAN, NEW c, c = 0,
         NEW iss, iss = << >>
  PROVE  Flow(a, w, q, s, cl, c, iss, rn)
<1>1. /\ a.channels = dictCreate /\ a.patterns = dictCreate /\ a.replies = << >> /\ a.invalid = << >>
      /\ ~a.subscribed /\ ~a.monitoring
  BY DEF Same, NoContext
<1>2. DictOK(dictCreate) /\ dictEntries(dictCreate) = {}
  BY CreateTable
<1>3. Subscriptions(a) = {} /\ AllNames(a) = {}
  BY <1>1, <1>2 DEF Subscriptions, AllNames
<1>4. FlowType(a, w, q, s, cl, c, iss, rn)
  <2>1. MaxCommands \in Nat
    BY Bounds
  <2> QED
    BY <1>1, <1>2, <2>1 DEF FlowType
<1> DEFINE t == s \ {Monitor}
<1>8. t = {}
  OBVIOUS
<1> HIDE DEF t
<1>5. SubsInv(a, w, q, t)
  <2>1. \A n : ~Asked(q, n) /\ ~Ending(w, n)
    BY AskedNone DEF Ending
  <2>2. DOMAIN w = {} /\ DOMAIN q = {}
    OBVIOUS
  <2>3. TablesInv(a, w, q, t)
    BY <1>1, <1>3, <1>8, <2>1 DEF TablesInv
  <2>4. EndingInv(w, q, t)
    BY <2>1, <2>2 DEF EndingInv
  <2> QED
    BY <2>2, <2>3, <2>4 DEF SubsInv, NamedInv, LateInv, LastInv
<1>6. OrderInv(a, w, q, s, cl, c, iss, rn)
  <2>1. AlignInv(a.replies, w, q, t)
    BY <1>1 DEF AlignInv
  <2>2. RegularInv(a, w, q, s, iss)
    BY <1>1 DEF RegularInv
  <2> QED
    BY <1>1, <2>1, <2>2 DEF OrderInv, t
<1>7. CallbackInv(a, w, cl, iss, rn)
  BY <1>1, <1>3 DEF CallbackInv, KeptInv, WaitInv, RanInv, RejectInv
<1> QED
  BY <1>4, <1>5, <1>6, <1>7 DEF Flow, t

-------------------------------------------------------------------------------
(* The end of the loop.                                                    *)
LEMMA FlowEnd ==
  ASSUME NEW a, NEW w, NEW q, NEW s, NEW cl, NEW c, NEW iss, NEW rn,
         Flow(a, w, q, s, cl, c, iss, rn),
         NEW b, b = IF a.monitoring THEN [a EXCEPT !.replies = Append(@, c)] ELSE a
  PROVE  Flow(b, w, q, s, cl, 0, iss, rn)
<1>1. /\ a \in ContextType /\ c \in 0 .. MaxCommands /\ a.replies \in Seq(0 .. MaxCommands)
      /\ MaxCommands \in Nat /\ 0 \in 0 .. MaxCommands
  <2>1. a \in ContextType /\ c \in 0 .. MaxCommands
    BY DEF Flow, FlowType
  <2> QED
    BY <2>1, MaxNat DEF ContextType
<1>2. CASE ~a.monitoring
  <2>1. b = a
    BY <1>2
  <2>2. FlowType(a, w, q, s, cl, 0, iss, rn)
    BY <1>1 DEF Flow, FlowType
  <2>3. OrderInv(a, w, q, s, cl, 0, iss, rn)
    BY <1>2 DEF Flow, OrderInv
  <2> QED
    BY <2>1, <2>2, <2>3 DEF Flow
<1>3. CASE a.monitoring
  <2> DEFINE r == Append(a.replies, c)
             m == Len(iss)
  <2>1. /\ r \in Seq(0 .. MaxCommands) /\ Len(r) = Len(a.replies) + 1 /\ r # << >>
        /\ \A j \in DOMAIN a.replies : r[j] = a.replies[j] /\ j \in DOMAIN r
        /\ r[Len(a.replies) + 1] = c /\ DOMAIN r = 1 .. (Len(a.replies) + 1)
        /\ DOMAIN a.replies = 1 .. Len(a.replies) /\ Len(a.replies) \in Nat
    BY <1>1
  <2> HIDE DEF r
  <2>2. /\ b \in ContextType /\ b.replies = r /\ b.invalid = a.invalid
        /\ b.channels = a.channels /\ b.patterns = a.patterns
        /\ b.subscribed = a.subscribed /\ b.monitoring
    <3>1. b = [a EXCEPT !.replies = r]
      BY <1>3 DEF r
    <3> HIDE DEF r
    <3> QED
      BY ONLY <1>1, <1>3, <2>1, <3>1, ContextReplies
  <2>3. Subscriptions(b) = Subscriptions(a) /\ AllNames(b) = AllNames(a)
    BY <2>2 DEF Subscriptions, AllNames
  <2>4. FlowType(b, w, q, s, cl, 0, iss, rn)
    BY <1>1, <2>2 DEF Flow, FlowType
  <2>5. SubsInv(b, w, q, s \ {Monitor})
    BY <2>2, <2>3 DEF Flow, SubsInv, TablesInv, NamedInv
  <2>6. MonitorInv(a, w, q, s, cl, c, iss, rn)
    BY <1>3, Zenon DEF Flow, OrderInv
  <2>13. (\A j \in DOMAIN a.replies : a.replies[j] \in {0, m}) /\ c \in {0, m}
    BY <2>6, Zenon DEF MonitorInv
  <2>7. \A j \in DOMAIN r : r[j] \in {0, m}
    BY <2>1, <2>13
  <2>8. rn[m] = << >> => r # << >> /\ r[1] = m
    <3>1. rn[m] = << >> => a.replies # << >> /\ a.replies[1] = m
      BY <2>6, Zenon DEF MonitorInv
    <3>2. a.replies # << >> => 1 \in DOMAIN a.replies
      BY <1>1
    <3> QED
      BY <2>1, <3>1, <3>2
  <2>9. OrderInv(b, w, q, s, cl, 0, iss, rn)
    <3>1. MonitorInv(b, w, q, s, cl, 0, iss, rn)
      BY <2>2, <2>3, <2>6, <2>7, <2>8 DEF MonitorInv
    <3> QED
      BY <2>2, <3>1, Zenon DEF OrderInv
  <2>10. m \in Nat /\ m > 0 /\ iss[m].kind = Monitor
    <3>1. m > 0 /\ iss[m].kind = Monitor
      BY <2>6, Zenon DEF MonitorInv
    <3>2. iss \in Seq(CommandSet)
      BY DEF Flow, FlowType
    <3> QED
      BY <3>1, <3>2
  <2>11. KeptInv(b, iss, rn)
    BY <2>2, <2>3, <2>7, <2>10 DEF Flow, CallbackInv, KeptInv, Monitor
  <2>12. WaitInv(b, iss, rn)
    BY <2>1, <2>2 DEF Flow, CallbackInv, WaitInv
  <2> QED
    BY <2>4, <2>5, <2>9, <2>11, <2>12 DEF Flow, CallbackInv
<1> QED
  BY <1>2, <1>3

-------------------------------------------------------------------------------
(* Messages from the server.                                               *)

(* No end is on its way while a command is.                                *)
LEMMA NoEnd ==
  ASSUME NEW a, NEW w, NEW q, NEW s, NEW cl, NEW c, NEW iss, NEW rn,
         Flow(a, w, q, s, cl, c, iss, rn), ~a.monitoring, q # << >>
  PROVE  \A p \in DOMAIN w : w[p].type # "unsubscribe"
<1>1. SUFFICES ASSUME NEW p \in DOMAIN w, w[p].type = "unsubscribe" PROVE FALSE
  OBVIOUS
<1>2. a \in ContextType /\ w \in Seq(WireType)
  BY DEF Flow, FlowType
<1>3. w[p].name # Monitor
  BY DEF Flow, OrderInv, RegularInv
<1>4. w[p].name \in AllNames(a)
  BY <1>1, <1>3 DEF Flow, SubsInv, NamedInv, About
<1>5. w[p].name \in Names
  BY <1>2, <1>4, NamesOf
<1>6. p > 0
  BY <1>2
<1>7. Ending(w, w[p].name)
  BY <1>1, <1>6 DEF Ending, EndsAfter
<1> QED
  BY <1>5, <1>7 DEF Flow, SubsInv, EndingInv

(* Nothing ends with a message that is no confirmation of it.              *)
LEMMA EndsPlain ==
  ASSUME NEW w \in Seq(WireType), NEW v \in Seq(WireType),
         \A r \in DOMAIN v : v[r].type # "unsubscribe"
  PROVE  \A n : /\ \A p \in Nat : EndsAfter(w \o v, p, n) <=> EndsAfter(w, p, n)
                /\ Ending(w \o v, n) <=> Ending(w, n)
<1>1. ASSUME NEW n, NEW p \in Nat PROVE EndsAfter(w \o v, p, n) <=> EndsAfter(w, p, n)
  BY EndsCat
<1> QED
  BY <1>1 DEF Ending

(* More messages, none of them an end.                                     *)
LEMMA SubsMore ==
  ASSUME NEW a, NEW w \in Seq(WireType), NEW q, NEW t \in SUBSET Names, NEW v \in Seq(WireType),
         SubsInv(a, w, q, t),
         \A r \in DOMAIN v : v[r].type # "unsubscribe" /\ (About(v[r]) => v[r].name \in t),
         \A r \in DOMAIN v : v[r].type = "error" /\ v[r] # Rejection => t # {}
  PROVE  SubsInv(a, w \o v, q, t)
<1> DEFINE u == w \o v
<1>1. /\ u \in Seq(WireType) /\ DOMAIN u = 1 .. (Len(w) + Len(v)) /\ DOMAIN w = 1 .. Len(w) /\ DOMAIN v = 1 .. Len(v)
      /\ Len(w) \in Nat /\ Len(v) \in Nat /\ Len(u) = Len(w) + Len(v)
      /\ \A i \in 1 .. Len(w) : u[i] = w[i]
  BY CatParts
<1>2. ASSUME NEW p \in DOMAIN u, p \notin DOMAIN w PROVE \E r \in DOMAIN v : u[p] = v[r]
  <2> DEFINE r == p - Len(w)
  <2>1. r \in 1 .. Len(v) /\ Len(w) + r = p
    BY <1>1, <1>2
  <2> HIDE DEF r
  <2> QED
    BY <1>1, <2>1, CatParts
<1>3. \A n : /\ \A p \in Nat : EndsAfter(u, p, n) <=> EndsAfter(w, p, n)
             /\ Ending(u, n) <=> Ending(w, n)
  BY EndsPlain
<1> HIDE DEF u
<1>4. TablesInv(a, u, q, t)
  BY <1>3 DEF SubsInv, TablesInv
<1>5. EndingInv(u, q, t)
  <2>1. \A n \in Names : Ending(u, n) => n \notin t /\ q = << >>
    BY <1>3 DEF SubsInv, EndingInv
  <2>2. ASSUME NEW p \in DOMAIN u, u[p].type = "unsubscribe"
        PROVE  u[p].count = Cardinality({n \in Names : n \in t \/ EndsAfter(u, p, n)})
    <3>1. p \in DOMAIN w /\ u[p] = w[p] /\ p \in Nat
      BY <1>1, <1>2, <2>2
    <3>2. {n \in Names : n \in t \/ EndsAfter(u, p, n)} = {n \in Names : n \in t \/ EndsAfter(w, p, n)}
      BY <1>3, <3>1
    <3>3. w[p].count = Cardinality({n \in Names : n \in t \/ EndsAfter(w, p, n)})
      BY <2>2, <3>1 DEF SubsInv, EndingInv
    <3> QED
      BY <3>1, <3>2, <3>3, Zenon
  <2> QED
    BY <2>1, <2>2 DEF EndingInv
<1>6. NamedInv(a, u)
  <2>1. ASSUME NEW p \in DOMAIN u, About(u[p])
        PROVE  /\ u[p].name \in AllNames(a)
               /\ \A r \in 1 .. (p - 1) : u[r].type = "unsubscribe" => u[r].name # u[p].name
    <3>1. CASE p \in DOMAIN w
      <4>1. \A r \in 1 .. (p - 1) : r \in 1 .. Len(w)
        BY <1>1, <3>1
      <4> QED
        BY <1>1, <2>1, <3>1, <4>1 DEF SubsInv, NamedInv
    <3>2. CASE p \notin DOMAIN w
      <4>1. u[p].name \in t
        BY <1>2, <2>1, <3>2
      <4>2. ~Ending(u, u[p].name) /\ u[p].name \in AllNames(a)
        BY <1>3, <4>1 DEF SubsInv, EndingInv, TablesInv
      <4>3. \A r \in 1 .. (p - 1) : r \in DOMAIN u /\ r > 0
        BY <1>1
      <4> QED
        BY <4>2, <4>3 DEF Ending, EndsAfter
    <3> QED
      BY <3>1, <3>2
  <2> QED
    BY <2>1 DEF NamedInv
<1>7. LateInv(u, t)
  <2>1. ASSUME NEW p \in DOMAIN u, About(u[p]) \/ (u[p].type = "error" /\ u[p] # Rejection)
        PROVE  t # {} \/ \E r \in p .. Len(u) : u[r].type = "unsubscribe"
    <3>1. CASE p \in DOMAIN w
      <4>1. t # {} \/ \E r \in p .. Len(w) : w[r].type = "unsubscribe"
        BY <1>1, <2>1, <3>1 DEF SubsInv, LateInv
      <4>2. \A r \in p .. Len(w) : r \in p .. Len(u) /\ u[r] = w[r]
        BY <1>1, <3>1
      <4> QED
        BY <4>1, <4>2
    <3>2. CASE p \notin DOMAIN w
      BY <1>2, <2>1, <3>2
    <3> QED
      BY <3>1, <3>2
  <2> QED
    BY <2>1 DEF LateInv
<1>8. LastInv(u, q, t)
  BY <1>3 DEF SubsInv, LastInv
<1> QED
  BY <1>4, <1>5, <1>6, <1>7, <1>8 DEF SubsInv, u

(* More messages that are no replies.                                      *)
LEMMA AlignMore ==
  ASSUME NEW R, NEW r \in Seq(R), NEW w \in Seq(WireType), NEW q \in Seq(SentType), NEW t, t # {},
         NEW v \in Seq(WireType), \A i \in DOMAIN v : v[i].type # "reply",
         AlignInv(r, w, q, t)
  PROVE  AlignInv(r, w \o v, q, t)
<1> DEFINE u == w \o v
           k == Len(r)
           l == Len(w)
<1>1. k \in Nat /\ l \in Nat /\ Len(v) \in Nat /\ Len(q) \in Nat /\ DOMAIN q = 1 .. Len(q) /\ DOMAIN w = 1 .. l
  OBVIOUS
<1>2. /\ DOMAIN u = 1 .. (l + Len(v)) /\ Len(u) = l + Len(v) /\ \A i \in 1 .. l : u[i] = w[i]
      /\ \A i \in 1 .. Len(v) : u[l + i] = v[i]
  BY CatParts
<1>3. k <= l + Len(q)
  BY DEF AlignInv
<1>4. \A p \in DOMAIN q : l + p > k
  BY DEF AlignInv
<1> HIDE DEF u, k, l
<1>5. k <= l
  <2>1. CASE Len(q) = 0
    BY <1>1, <1>3, <2>1
  <2>2. CASE Len(q) # 0
    <3>1. 1 \in DOMAIN q
      BY <1>1, <2>2
    <3>2. l + 1 > k
      BY <1>4, <3>1
    <3> QED
      BY <1>1, <3>2
  <2> QED
    BY <2>1, <2>2
<1>6. ASSUME NEW p \in DOMAIN u, p > l PROVE u[p].type # "reply"
  <2> DEFINE i == p - l
  <2>1. i \in 1 .. Len(v) /\ l + i = p
    BY <1>1, <1>2, <1>6
  <2> HIDE DEF i
  <2>2. u[l + i] = v[i] /\ i \in DOMAIN v
    BY <1>2, <2>1
  <2> QED
    BY <2>1, <2>2
<1>7. \A p \in DOMAIN u : p <= k => u[p] = Reply(r[p])
  <2>1. \A p \in DOMAIN u : p <= k => p \in DOMAIN w /\ u[p] = w[p]
    BY <1>1, <1>2, <1>5
  <2>2. \A p \in DOMAIN w : p <= k => w[p] = Reply(r[p])
    BY DEF AlignInv, k
  <2> QED
    BY <2>1, <2>2
<1>8. \A p \in DOMAIN u : p > k => u[p].type # "reply"
  <2>1. \A p \in DOMAIN u : p <= l => p \in DOMAIN w /\ u[p] = w[p]
    BY <1>1, <1>2
  <2>2. \A p \in DOMAIN w : p > k => w[p].type # "reply"
    BY DEF AlignInv, k
  <2>3. \A p \in DOMAIN u : p <= l \/ p > l
    BY <1>1, <1>2
  <2> QED
    BY <1>6, <2>1, <2>2, <2>3
<1>9. \A p \in DOMAIN q : ~(Len(u) + p <= k)
  BY <1>1, <1>2, <1>5
<1>10. k <= Len(u) + Len(q)
  BY <1>1, <1>2, <1>5
<1> QED
  BY <1>7, <1>8, <1>9, <1>10 DEF AlignInv, u, k

(* A message about a name or for a client that monitors.                   *)
LEMMA FlowPublish ==
  ASSUME NEW a, NEW w, NEW q, NEW s, NEW cl, NEW c, NEW iss, NEW rn,
         Flow(a, w, q, s, cl, c, iss, rn), ~cl, NEW n \in s
  PROVE  Flow(a, Append(w, Message("message", n, 0, 0)), q, s, cl, c, iss, rn)
<1> DEFINE x == Message("message", n, 0, 0)
           t == s \ {Monitor}
           v == << x >>
           u == Append(w, x)
<1>1. /\ a \in ContextType /\ w \in Seq(WireType) /\ q \in Seq(SentType) /\ s \in SUBSET (Names \cup {Monitor})
      /\ t \in SUBSET Names /\ iss \in Seq(CommandSet)
  BY DEF Flow, FlowType
<1>2. /\ x.type = "message" /\ x.name = n /\ x.count = 0 /\ x.id = 0 /\ x # Rejection
  BY DEF Message, Rejection
<1>3. x \in WireType
  <2>1. x \in MessageType
    BY <1>1, MaxNat DEF Message, MessageType, MessageTypes
  <2> QED
    BY <1>2, <2>1 DEF WireType
<1> HIDE DEF x
<1>4. v \in Seq(WireType) /\ u = w \o v /\ DOMAIN v = {1} /\ v[1] = x
  BY <1>1, <1>3
<1>5. /\ u \in Seq(WireType) /\ DOMAIN u = 1 .. (Len(w) + 1) /\ DOMAIN w = 1 .. Len(w) /\ Len(w) \in Nat
      /\ Len(u) = Len(w) + 1 /\ u[Len(w) + 1] = x /\ \A i \in 1 .. Len(w) : u[i] = w[i]
  BY <1>1, <1>3, AppendParts
<1> HIDE DEF u, v
<1>12. Len(w) \in Nat /\ Len(q) \in Nat /\ DOMAIN q = 1 .. Len(q) /\ (Len(w) = 0 => w = << >>)
  BY <1>1
<1>6. About(x) => n \in t
  BY <1>2 DEF About
<1>7. SubsInv(a, u, q, t)
  <2>1. SubsInv(a, w, q, t)
    BY DEF Flow
  <2> HIDE DEF t
  <2> QED
    BY <1>1, <1>2, <1>4, <1>6, <2>1, SubsMore
<1>8. FlowType(a, u, q, s, cl, c, iss, rn)
  BY <1>5 DEF Flow, FlowType
<1>9. OrderInv(a, u, q, s, cl, c, iss, rn)
  <2>1. CASE a.monitoring
    <3> DEFINE m == Len(iss)
    <3>1. MonitorInv(a, w, q, s, cl, c, iss, rn)
      BY <2>1, Zenon DEF Flow, OrderInv
    <3>2. /\ s \subseteq {Monitor}
          /\ Monitor \in s /\ rn[m] = << >> => w # << >>
          /\ (~cl /\ q # << >> => Monitor \notin s)
          /\ \A p \in DOMAIN w :
               \/ w[p].name = Monitor /\ (rn[m] = << >> => p > 1)
               \/ p = 1 /\ rn[m] = << >> /\ w[p] \in {Reply(m), Rejection}
      BY <3>1, Zenon DEF MonitorInv
    <3>7. n = Monitor
      BY <3>2
    <3>8. rn[m] = << >> => Len(w) # 0
      BY <3>2, <3>7, <1>12
    <3>3. q = << >>
      BY <3>2, <3>7
    <3>4. ASSUME NEW p \in DOMAIN u
          PROVE  \/ u[p].name = Monitor /\ (rn[m] = << >> => p > 1)
                 \/ p = 1 /\ rn[m] = << >> /\ u[p] \in {Reply(m), Rejection}
      <4>1. CASE p = Len(w) + 1
        <5>1. u[p].name = Monitor
          BY <1>2, <1>5, <3>7, <4>1
        <5>2. rn[m] = << >> => p > 1
          BY <1>12, <3>8, <4>1
        <5> QED
          BY <5>1, <5>2
      <4>2. CASE p # Len(w) + 1
        <5>1. p \in DOMAIN w /\ u[p] = w[p]
          BY <1>5, <4>2
        <5> QED
          BY <3>2, <5>1
      <4> QED
        BY <4>1, <4>2
    <3>5. u # << >>
      BY <1>5
    <3>6. MonitorInv(a, u, q, s, cl, c, iss, rn)
      BY <3>1, <3>3, <3>4, <3>5 DEF MonitorInv
    <3> QED
      BY <2>1, <3>6, Zenon DEF OrderInv
  <2>2. CASE ~a.monitoring
    <3>1. RegularInv(a, w, q, s, iss) /\ (Quiet(w, cl) \/ AlignInv(a.replies, w, q, t))
      BY <2>2, Zenon DEF Flow, OrderInv
    <3>2. AlignInv(a.replies, w, q, t) /\ n # Monitor /\ n \in t
      BY <3>1, Zenon DEF Quiet, RegularInv
    <3>3. RegularInv(a, u, q, s, iss)
      BY <3>1, <3>2, <1>2, <1>5 DEF RegularInv
    <3>4. a.replies \in Seq(0 .. MaxCommands)
      BY <1>1 DEF ContextType
    <3>5. t # {}
      BY <3>2
    <3>6. \A i \in DOMAIN v : v[i].type # "reply"
      BY <1>2, <1>4
    <3>7. AlignInv(a.replies, u, q, t)
      BY <1>1, <1>4, <3>2, <3>4, <3>5, <3>6, AlignMore
    <3> QED
      BY <2>2, <3>3, <3>7, Zenon DEF OrderInv, t
  <2> QED
    BY <2>1, <2>2
<1>10. CallbackInv(a, u, cl, iss, rn)
  <2>1. RejectInv(w, cl, rn) /\ KeptInv(a, iss, rn) /\ WaitInv(a, iss, rn) /\ RanInv(iss, rn)
    BY Zenon DEF Flow, CallbackInv
  <2>2. \A p \in DOMAIN u : u[p] # Rejection
    BY <1>2, <1>5, <2>1 DEF RejectInv
  <2>3. RejectInv(u, cl, rn)
    BY <2>2 DEF RejectInv
  <2> QED
    BY <2>1, <2>3, Zenon DEF CallbackInv
<1>11. Flow(a, u, q, s, cl, c, iss, rn)
  BY <1>7, <1>8, <1>9, <1>10, Zenon DEF Flow
<1> QED
  BY <1>11, Zenon DEF u, x

(* The server rejects the client.                                          *)
LEMMA FlowReject ==
  ASSUME NEW a, NEW w, NEW q, NEW s, NEW cl, NEW c, NEW iss, NEW rn,
         Flow(a, w, q, s, cl, c, iss, rn), w = << >>, s = {}, \A i \in Ids : rn[i] = << >>,
         NEW dl \in BOOLEAN, dl
  PROVE  Flow(a, << Rejection >>, q, s, dl, c, iss, rn)
<1> DEFINE x == Rejection
           t == s \ {Monitor}
           u == << x >>
<1>1. a \in ContextType /\ w \in Seq(WireType) /\ q \in Seq(SentType) /\ t \in SUBSET Names
  BY DEF Flow, FlowType
<1>2. x.type = "error" /\ x.name = "" /\ x.name # Monitor
  BY DEF Rejection, Message, Monitor
<1>3. x \in WireType
  <2>1. x \in MessageType
    BY MaxNat DEF Rejection, Message, MessageType, MessageTypes
  <2> QED
    BY <1>2, <2>1 DEF WireType
<1> HIDE DEF x
<1>4. u \in Seq(WireType) /\ u = w \o u /\ DOMAIN u = {1} /\ u[1] = x /\ u # << >>
  BY <1>1, <1>3
<1> HIDE DEF u
<1>5. SubsInv(a, u, q, t)
  <2>1. SubsInv(a, w, q, t)
    BY DEF Flow
  <2>2. ~About(x)
    BY <1>2 DEF About
  <2>3. /\ \A r \in DOMAIN u : u[r].type # "unsubscribe" /\ (About(u[r]) => u[r].name \in t)
        /\ \A r \in DOMAIN u : u[r].type = "error" /\ u[r] # Rejection => t # {}
    BY <1>2, <1>4, <2>2 DEF x
  <2> HIDE DEF t
  <2>4. SubsInv(a, w \o u, q, t)
    BY <1>1, <1>4, <2>1, <2>3, SubsMore
  <2> QED
    BY <1>4, <2>4
<1>6. FlowType(a, u, q, s, dl, c, iss, rn)
  BY <1>4 DEF Flow, FlowType
<1>7. OrderInv(a, u, q, s, dl, c, iss, rn)
  <2>1. CASE a.monitoring
    <3> DEFINE m == Len(iss)
    <3>1. MonitorInv(a, w, q, s, cl, c, iss, rn)
      BY <2>1, Zenon DEF Flow, OrderInv
    <3>2. m \in Ids
      <4>1. m > 0
        BY <3>1, Zenon DEF MonitorInv
      <4>2. m \in Nat /\ m <= MaxCommands
        BY DEF Flow, FlowType
      <4> QED
        BY <4>1, <4>2, MaxNat DEF Ids
    <3>3. \A p \in DOMAIN u : p = 1 /\ rn[m] = << >> /\ u[p] \in {Reply(m), Rejection}
      BY <1>4, <3>2 DEF x
    <3>4. MonitorInv(a, u, q, s, dl, c, iss, rn)
      BY <3>1, <3>3, <1>4 DEF MonitorInv
    <3> QED
      BY <2>1, <3>4, Zenon DEF OrderInv
  <2>2. CASE ~a.monitoring
    <3>1. RegularInv(a, w, q, s, iss)
      BY <2>2, Zenon DEF Flow, OrderInv
    <3>2. RegularInv(a, u, q, s, iss)
      BY <3>1, <1>2, <1>4 DEF RegularInv
    <3>3. Quiet(u, dl)
      BY DEF Quiet, u, x
    <3> QED
      BY <2>2, <3>2, <3>3, Zenon DEF OrderInv
  <2> QED
    BY <2>1, <2>2
<1>8. CallbackInv(a, u, dl, iss, rn)
  <2>1. RejectInv(u, dl, rn)
    BY DEF RejectInv, u, x
  <2> QED
    BY <2>1, Zenon DEF Flow, CallbackInv
<1> QED
  BY <1>5, <1>6, <1>7, <1>8, Zenon DEF Flow, u, x

-------------------------------------------------------------------------------
(* The server takes a command.                                             *)

(* A list of names.                                                        *)
LEMMA ListParts ==
  ASSUME NEW l \in NameLists
  PROVE  /\ l \in Seq(Names) /\ l # << >> /\ DOMAIN l = 1 .. Len(l) /\ Len(l) \in Nat \ {0}
         /\ l[1] \in Elements(l) /\ Elements(l) \subseteq Names
         /\ \A i \in DOMAIN l : l[i] \in Elements(l)
<1>1. l # << >> /\ (l \in Seq(Channels) \/ l \in Seq(Patterns))
  BY AsyncAssumption
<1>2. l \in Seq(Names)
  BY <1>1 DEF Names
<1>3. DOMAIN l = 1 .. Len(l) /\ Len(l) \in Nat \ {0}
  BY <1>1, <1>2
<1>4. \A i \in DOMAIN l : l[i] \in Elements(l) /\ l[i] \in Names
  BY <1>2 DEF Elements
<1>5. 1 \in DOMAIN l
  BY <1>3
<1>6. Elements(l) \subseteq Names
  BY <1>4 DEF Elements
<1> QED
  BY <1>1, <1>2, <1>3, <1>4, <1>5, <1>6

(* The fields of a command.                                                *)
LEMMA CommandFields ==
  ASSUME NEW k, NEW l, NEW S
  PROVE  Command(k, l, S).kind = k /\ Command(k, l, S).names = l /\ Command(k, l, S).scope = S
BY DEF Command

(* What a command of the application can be.                               *)
LEMMA CommandParts ==
  ASSUME NEW x \in CommandSet
  PROVE  /\ x.kind \in {"GET", Monitor, "SUBSCRIBE", "UNSUBSCRIBE"}
         /\ x.kind = "SUBSCRIBE" => x.names \in NameLists /\ x.scope = Elements(x.names)
         /\ x.kind = "UNSUBSCRIBE" /\ x.names # << >> => x.names \in NameLists /\ x.scope = Elements(x.names)
         /\ x = [kind |-> x.kind, names |-> x.names, scope |-> x.scope]
         /\ x.names \in NameLists \cup {<< >>}
         /\ x.scope \in SUBSET Names
<1>1. \/ \E k \in {"GET", Monitor} : x = Command(k, << >>, {})
      \/ \E k \in {"SUBSCRIBE", "UNSUBSCRIBE"}, l \in NameLists : x = Command(k, l, Elements(l))
      \/ \E S \in {Channels, Patterns} : x = Command("UNSUBSCRIBE", << >>, S)
  <2>1. \/ x \in {Command(k, << >>, {}) : k \in {"GET", Monitor}}
        \/ x \in {Command(k, q, Elements(q)) : k \in {"SUBSCRIBE", "UNSUBSCRIBE"}, q \in NameLists}
        \/ x \in {Command("UNSUBSCRIBE", << >>, S) : S \in {Channels, Patterns}}
    BY DEF CommandSet
  <2>2. ASSUME x \in {Command(k, q, Elements(q)) : k \in {"SUBSCRIBE", "UNSUBSCRIBE"}, q \in NameLists}
        PROVE  \E k \in {"SUBSCRIBE", "UNSUBSCRIBE"}, l \in NameLists : x = Command(k, l, Elements(l))
    BY ONLY <2>2
  <2>3. ASSUME x \in {Command(k, << >>, {}) : k \in {"GET", Monitor}}
        PROVE  \E k \in {"GET", Monitor} : x = Command(k, << >>, {})
    BY ONLY <2>3, Zenon
  <2>4. ASSUME x \in {Command("UNSUBSCRIBE", << >>, S) : S \in {Channels, Patterns}}
        PROVE  \E S \in {Channels, Patterns} : x = Command("UNSUBSCRIBE", << >>, S)
    BY ONLY <2>4, Zenon
  <2> QED
    BY <2>1, <2>2, <2>3, <2>4
<1>2. ASSUME NEW k \in {"GET", Monitor}, x = Command(k, << >>, {})
      PROVE  x.kind = k /\ x.names = << >> /\ x.scope = {}
  BY <1>2, CommandFields
<1>3. ASSUME NEW k \in {"SUBSCRIBE", "UNSUBSCRIBE"}, NEW l \in NameLists, x = Command(k, l, Elements(l))
      PROVE  x.kind = k /\ x.names = l /\ x.scope = Elements(l) /\ x.scope \in SUBSET Names
  <2>1. Elements(l) \subseteq Names
    BY ListParts
  <2> QED
    BY <1>3, <2>1, CommandFields
<1>4. ASSUME NEW S \in {Channels, Patterns}, x = Command("UNSUBSCRIBE", << >>, S)
      PROVE  x.kind = "UNSUBSCRIBE" /\ x.names = << >> /\ x.scope = S /\ x.scope \in SUBSET Names
  BY <1>4, CommandFields DEF Names
<1>5. x = [kind |-> x.kind, names |-> x.names, scope |-> x.scope]
  <2>1. \E k, l, S : x = Command(k, l, S)
    BY <1>1
  <2> QED
    BY <2>1 DEF Command
<1>6. CASE \E k \in {"GET", Monitor} : x = Command(k, << >>, {})
  BY <1>2, <1>5, <1>6 DEF Monitor
<1>7. CASE \E k \in {"SUBSCRIBE", "UNSUBSCRIBE"}, l \in NameLists : x = Command(k, l, Elements(l))
  <2>1. PICK k \in {"SUBSCRIBE", "UNSUBSCRIBE"}, l \in NameLists : x = Command(k, l, Elements(l))
    BY <1>7
  <2>2. x.kind = k /\ x.names = l /\ x.scope = Elements(l) /\ x.scope \in SUBSET Names
    BY <1>3, <2>1
  <2> QED
    BY <1>5, <2>2
<1>8. CASE \E S \in {Channels, Patterns} : x = Command("UNSUBSCRIBE", << >>, S)
  BY <1>4, <1>5, <1>8
<1> QED
  BY <1>1, <1>6, <1>7, <1>8

(* What a command on its way can be.                                       *)
LEMMA SentParts ==
  ASSUME NEW x \in SentType
  PROVE  /\ x.id \in Ids /\ x.id # 0 /\ x.scope \in SUBSET Names
         /\ x.kind \in {"GET", Monitor, "SUBSCRIBE", "UNSUBSCRIBE"}
         /\ x.kind = "SUBSCRIBE" => x.names \in NameLists /\ x.scope = Elements(x.names)
         /\ x.kind = "UNSUBSCRIBE" /\ x.names # << >> => x.names \in NameLists /\ x.scope = Elements(x.names)
<1>1. /\ x.id \in Ids /\ x.scope \in SUBSET Names
      /\ x.kind \in {"GET", Monitor, "SUBSCRIBE", "UNSUBSCRIBE"}
      /\ Command(x.kind, x.names, x.scope) \in CommandSet
  BY DEF SentType
<1>2. x.id # 0
  BY <1>1, MaxNat DEF Ids
<1> QED
  BY <1>1, <1>2, CommandParts, CommandFields

(* Subscriptions, when a command other than UNSUBSCRIBE has been taken.    *)
LEMMA SubsTake ==
  ASSUME NEW a, NEW w \in Seq(WireType), NEW q \in Seq(SentType), q # << >>, NEW t \in SUBSET Names,
         SubsInv(a, w, q, t), \A p \in DOMAIN w : w[p].type # "unsubscribe",
         q[1].kind # "UNSUBSCRIBE",
         NEW t2 \in SUBSET Names,
         \A n : n \in t2 <=> n \in t \/ (q[1].kind = "SUBSCRIBE" /\ n \in q[1].scope)
  PROVE  SubsInv(a, w, Tail(q), t2)
<1> DEFINE h == Tail(q)
<1>1. /\ h \in Seq(SentType) /\ DOMAIN h = 1 .. (Len(q) - 1) /\ Len(h) = Len(q) - 1 /\ Len(q) \in Nat \ {0}
      /\ DOMAIN q = 1 .. Len(q) /\ \A p \in 1 .. (Len(q) - 1) : h[p] = q[p + 1]
  BY TailParts
<1>2. \A n : Asked(q, n) <=> Asked(h, n) \/ (q[1].kind = "SUBSCRIBE" /\ n \in q[1].scope)
  BY AskedTail
<1>3. \A n : ~Ending(w, n)
  BY DEF Ending, EndsAfter
<1> HIDE DEF h
<1>4. \A n : n \in t2 \/ Asked(h, n) <=> n \in t \/ Asked(q, n)
  BY <1>2
<1>5. TablesInv(a, w, h, t2)
  BY <1>4 DEF SubsInv, TablesInv
<1>6. EndingInv(w, h, t2)
  BY <1>3 DEF EndingInv
<1>7. NamedInv(a, w) /\ LateInv(w, t2)
  BY DEF SubsInv, LateInv
<1>8. LastInv(w, h, t2)
  <2>1. SUFFICES ASSUME NEW p \in DOMAIN h, h[p].kind = "UNSUBSCRIBE"
                 PROVE  /\ p = Len(h) /\ \A n \in Names : ~Ending(w, n)
                        /\ \E n \in h[p].scope : n \in t2 \/ Asked(h, n)
                        /\ h[p].names # << >> =>
                             Distinct(h[p].names) /\ \A n \in h[p].scope : n \in t2 \/ Asked(h, n)
    BY DEF LastInv
  <2>2. p + 1 \in DOMAIN q /\ h[p] = q[p + 1] /\ (p + 1 = Len(q) => p = Len(h))
    BY <1>1
  <2>3. q[p + 1].kind = "UNSUBSCRIBE"
    BY <2>1, <2>2
  <2>4. /\ p + 1 = Len(q)
        /\ \E n \in q[p + 1].scope : n \in t \/ Asked(q, n)
        /\ q[p + 1].names # << >> =>
             Distinct(q[p + 1].names) /\ \A n \in q[p + 1].scope : n \in t \/ Asked(q, n)
    BY <2>2, <2>3 DEF SubsInv, LastInv
  <2> QED
    BY <1>3, <1>4, <2>2, <2>4
<1> QED
  BY <1>5, <1>6, <1>7, <1>8 DEF SubsInv, h

(* The answers to a command.                                               *)
LEMMA Answers ==
  ASSUME NEW i \in Ids
  PROVE  /\ Reply(i) \in WireType /\ Reply(i).type = "reply" /\ Reply(i).name = "" /\ Reply(i) # Rejection
         /\ Refusal(i) \in WireType /\ Refusal(i).type = "error" /\ Refusal(i).name = "" /\ Refusal(i) # Rejection
<1>1. i # 0 /\ i \in 0 .. MaxCommands
  BY MaxNat DEF Ids
<1>2. /\ Reply(i).type = "reply" /\ Reply(i).name = "" /\ Reply(i).id = i
      /\ Refusal(i).type = "error" /\ Refusal(i).name = "" /\ Refusal(i).id = i
      /\ Rejection.id = 0
  BY DEF Reply, Refusal, Message, Rejection
<1>3. Reply(i) \in MessageType
  BY <1>1 DEF Reply, Message, MessageType, MessageTypes
<1>4. Refusal(i) \in MessageType
  BY <1>1 DEF Refusal, Message, MessageType, MessageTypes
<1>5. Reply(i) # Rejection /\ Refusal(i) # Rejection
  BY <1>1, <1>2
<1> QED
  BY <1>2, <1>3, <1>4, <1>5 DEF WireType

(* A GET is answered, by an error if there are subscriptions.              *)
LEMMA AlignGet ==
  ASSUME NEW R, NEW r \in Seq(R), NEW w \in Seq(WireType), NEW q \in Seq(SentType), NEW t,
         q # << >>, q[1].kind = "GET", AlignInv(r, w, q, t), NEW x \in WireType,
         t = {} => x = Reply(q[1].id), t # {} => x.type # "reply"
  PROVE  AlignInv(r, Append(w, x), Tail(q), t)
<1> DEFINE u == Append(w, x)
           h == Tail(q)
           k == Len(r)
           l == Len(w)
           n == Len(q)
<1>1. k \in Nat /\ l \in Nat /\ n \in Nat \ {0} /\ DOMAIN q = 1 .. n /\ DOMAIN w = 1 .. l
  OBVIOUS
<1>2. DOMAIN u = 1 .. (l + 1) /\ Len(u) = l + 1 /\ u[l + 1] = x /\ \A i \in 1 .. l : u[i] = w[i]
  BY AppendParts
<1>3. DOMAIN h = 1 .. (n - 1) /\ Len(h) = n - 1 /\ \A i \in 1 .. (n - 1) : h[i] = q[i + 1]
  BY TailParts
<1>4. /\ k <= l + n
      /\ \A p \in DOMAIN w : p <= k => w[p] = Reply(r[p])
      /\ \A p \in DOMAIN w : p > k => w[p].type # "reply"
      /\ \A p \in DOMAIN q : l + p <= k => q[p].kind = "GET" /\ q[p].id = r[l + p] /\ t = {}
      /\ \A p \in DOMAIN q : l + p > k /\ q[p].kind = "GET" =>
           t # {} \/ \E i \in 1 .. (p - 1) : q[i].kind = "SUBSCRIBE"
  BY DEF AlignInv
<1> HIDE DEF u, h, k, l, n
<1>5. 1 \in DOMAIN q
  BY <1>1
<1>6. l + 1 <= k => x = Reply(r[l + 1])
  BY <1>4, <1>5
<1>7. l + 1 > k => x.type # "reply"
  <2>1. 1 .. (1 - 1) = {}
    OBVIOUS
  <2> QED
    BY <1>4, <1>5, <2>1
<1>8. \A p \in DOMAIN u : p = l + 1 \/ (p \in DOMAIN w /\ u[p] = w[p])
  BY <1>1, <1>2
<1>9. k <= Len(u) + Len(h)
  BY <1>1, <1>2, <1>3, <1>4
<1>10. \A p \in DOMAIN h : p + 1 \in DOMAIN q /\ h[p] = q[p + 1] /\ Len(u) + p = l + (p + 1)
  <2>1. \A p \in DOMAIN h : p \in 1 .. (n - 1) /\ p + 1 \in DOMAIN q /\ h[p] = q[p + 1]
    BY <1>1, <1>3
  <2> QED
    BY <1>1, <1>2, <2>1
<1>11. ASSUME NEW p \in DOMAIN h, Len(u) + p > k, h[p].kind = "GET", t = {}
       PROVE  \E i \in 1 .. (p - 1) : h[i].kind = "SUBSCRIBE"
  <2>1. PICK i \in 1 .. ((p + 1) - 1) : q[i].kind = "SUBSCRIBE"
    BY <1>4, <1>10, <1>11
  <2>2. i # 1
    BY <2>1
  <2> DEFINE j == i - 1
  <2>3. j \in 1 .. (p - 1) /\ j \in DOMAIN h /\ j + 1 = i
    BY <1>1, <1>3, <2>2
  <2> HIDE DEF j
  <2> QED
    BY <1>10, <2>1, <2>3
<1>12. \A p \in DOMAIN u : p <= k => u[p] = Reply(r[p])
  BY <1>2, <1>4, <1>6, <1>8
<1>13. \A p \in DOMAIN u : p > k => u[p].type # "reply"
  BY <1>2, <1>4, <1>7, <1>8
<1>14. \A p \in DOMAIN h : Len(u) + p <= k => h[p].kind = "GET" /\ h[p].id = r[Len(u) + p] /\ t = {}
  BY <1>4, <1>10
<1> QED
  BY <1>9, <1>11, <1>12, <1>13, <1>14 DEF AlignInv, u, h, k

(* Another command is taken.                                               *)
LEMMA AlignTake ==
  ASSUME NEW R, NEW r \in Seq(R), NEW w \in Seq(WireType), NEW q \in Seq(SentType), NEW t,
         q # << >>, q[1].kind # "GET", AlignInv(r, w, q, t), NEW t2, t2 # {} \/ Tail(q) = << >>
  PROVE  AlignInv(r, w, Tail(q), t2) /\ Len(r) <= Len(w)
<1> DEFINE h == Tail(q)
           k == Len(r)
           l == Len(w)
           n == Len(q)
<1>1. k \in Nat /\ l \in Nat /\ n \in Nat \ {0} /\ DOMAIN q = 1 .. n
  OBVIOUS
<1>2. DOMAIN h = 1 .. (n - 1) /\ Len(h) = n - 1
  BY TailParts
<1>3. \A p \in DOMAIN q : l + p <= k => q[p].kind = "GET"
  BY DEF AlignInv
<1>4. 1 \in DOMAIN q
  BY <1>1
<1> HIDE DEF n
<1>5. k <= l
  BY <1>1, <1>3, <1>4
<1>6. k <= l + Len(h) /\ \A p \in DOMAIN h : ~(l + p <= k)
  BY <1>1, <1>2, <1>5
<1>7. \A p \in DOMAIN h : t2 # {}
  <2>1. h = << >> => DOMAIN h = {}
    OBVIOUS
  <2> QED
    BY <2>1
<1> HIDE DEF h
<1> QED
  BY <1>5, <1>6, <1>7 DEF AlignInv, h

(* A GET that is served: its reply, or its refusal, is on its way instead. *)
LEMMA FlowServeGet ==
  ASSUME NEW a, NEW w, NEW q, NEW s, NEW cl, NEW c, NEW iss, NEW rn,
         Flow(a, w, q, s, cl, c, iss, rn), ~cl, q # << >>, q[1].kind = "GET",
         NEW x, s \ {Monitor} = {} => x = Reply(q[1].id), s \ {Monitor} # {} => x = Refusal(q[1].id)
  PROVE  Flow(a, Append(w, x), Tail(q), s, cl, c, iss, rn)
<1> DEFINE t == s \ {Monitor}
           v == << x >>
           u == Append(w, x)
           h == Tail(q)
<1>1. /\ a \in ContextType /\ w \in Seq(WireType) /\ q \in Seq(SentType)
      /\ t \in SUBSET Names /\ iss \in Seq(CommandSet) /\ a.replies \in Seq(0 .. MaxCommands)
  BY DEF Flow, FlowType, ContextType
<1>2. q[1] \in SentType /\ h \in Seq(SentType)
  BY <1>1, TailParts
<1>3. q[1].id \in Ids /\ q[1].id # 0 /\ q[1].id \in 0 .. MaxCommands
  <2>1. q[1].id \in Ids /\ q[1].id # 0
    BY <1>2, SentParts
  <2> QED
    BY <2>1, MaxNat DEF Ids
<1>5. t = {} => x = Reply(q[1].id)
  OBVIOUS
<1>4. /\ x \in WireType /\ x # Rejection /\ x.type \in {"error", "reply"} /\ x.name = ""
      /\ t # {} => x.type # "reply"
      /\ t = {} => x.type # "error"
  <2>1. CASE t = {}
    BY <1>3, <1>5, <2>1, Answers
  <2>2. CASE t # {}
    BY <1>3, <2>2, Answers
  <2> QED
    BY <2>1, <2>2
<1>6. x.name # Monitor
  BY <1>4 DEF Monitor
<1>7. ~a.monitoring
  <2>1. SUFFICES ASSUME a.monitoring PROVE FALSE
    OBVIOUS
  <2>2. MonitorInv(a, w, q, s, cl, c, iss, rn)
    BY <2>1, Zenon DEF Flow, OrderInv
  <2>3. q[1].kind = Monitor
    BY <2>2 DEF MonitorInv
  <2> QED
    BY <2>3 DEF Monitor
<1>8. RegularInv(a, w, q, s, iss) /\ AlignInv(a.replies, w, q, t)
  BY <1>7, Zenon DEF Flow, OrderInv, Quiet
<1>9. \A p \in DOMAIN w : w[p].type # "unsubscribe"
  BY <1>7, NoEnd
<1>22. x \in WireType /\ w \in Seq(WireType) /\ x # Rejection
  BY <1>1, <1>4, Zenon
<1>21. x \in WireType /\ w \in Seq(WireType) /\ DOMAIN w = 1 .. Len(w) /\ Len(w) \in Nat
  BY ONLY <1>22
<1>10. v \in Seq(WireType) /\ u = w \o v /\ DOMAIN v = {1} /\ v[1] = x
  BY ONLY <1>21, OneMore
<1>11. /\ u \in Seq(WireType) /\ DOMAIN u = 1 .. (Len(w) + 1) /\ DOMAIN w = 1 .. Len(w) /\ Len(w) \in Nat
       /\ u[Len(w) + 1] = x /\ \A i \in 1 .. Len(w) : u[i] = w[i]
  BY ONLY <1>21, AppendParts
<1>12. SubsInv(a, w, q, t)
  BY DEF Flow
<1> HIDE DEF t, v, u
<1>13. SubsInv(a, w, h, t)
  BY <1>1, <1>9, <1>12, SubsTake
<1>14. SubsInv(a, u, h, t)
  <2>1. ~About(x)
    BY <1>4 DEF About
  <2>2. /\ \A r \in DOMAIN v : v[r].type # "unsubscribe" /\ (About(v[r]) => v[r].name \in t)
        /\ \A r \in DOMAIN v : v[r].type = "error" /\ v[r] # Rejection => t # {}
    BY <1>4, <1>10, <2>1
  <2>3. SubsInv(a, w \o v, h, t)
    BY <1>1, <1>10, <1>13, <2>2, SubsMore
  <2> QED
    BY <1>10, <2>3
<1>15. AlignInv(a.replies, u, h, t)
  BY <1>1, <1>4, <1>5, <1>8, AlignGet DEF u
<1>16. RegularInv(a, u, h, s, iss)
  <2>1. \A p \in DOMAIN h : h[p].kind # Monitor
    <3>1. \A p \in DOMAIN q : q[p].kind # Monitor
      BY <1>8, Zenon DEF RegularInv
    <3> QED
      BY <1>1, <3>1, TailParts
  <2>2. \A p \in DOMAIN u : u[p].name # Monitor
    BY <1>6, <1>8, <1>11 DEF RegularInv
  <2> QED
    BY <1>8, <2>1, <2>2 DEF RegularInv
<1>17. OrderInv(a, u, h, s, cl, c, iss, rn)
  BY <1>7, <1>15, <1>16, Zenon DEF OrderInv, t
<1>18. CallbackInv(a, u, cl, iss, rn)
  <2>1. RejectInv(w, cl, rn) /\ KeptInv(a, iss, rn) /\ WaitInv(a, iss, rn) /\ RanInv(iss, rn)
    BY Zenon DEF Flow, CallbackInv
  <2>2. \A p \in DOMAIN u : u[p] # Rejection
    <3>1. \A p \in DOMAIN w : w[p] # Rejection
      BY <2>1 DEF RejectInv
    <3> QED
      BY ONLY <1>22, <1>11, <3>1
  <2>3. RejectInv(u, cl, rn)
    BY <2>2 DEF RejectInv
  <2> QED
    BY <2>1, <2>3, Zenon DEF CallbackInv
<1>19. FlowType(a, u, h, s, cl, c, iss, rn)
  BY <1>2, <1>11 DEF Flow, FlowType
<1>20. Flow(a, u, h, s, cl, c, iss, rn)
  BY <1>14, <1>17, <1>18, <1>19, Zenon DEF Flow, t
<1> QED
  BY <1>20 DEF u

(* A MONITOR that is served.                                               *)
LEMMA FlowServeMonitor ==
  ASSUME NEW a, NEW w, NEW q, NEW s, NEW cl, NEW c, NEW iss, NEW rn,
         Flow(a, w, q, s, cl, c, iss, rn), ~cl, q # << >>, q[1].kind = Monitor
  PROVE  Flow(a, Append(w, Reply(q[1].id)), Tail(q), s \cup {Monitor}, cl, c, iss, rn)
<1> DEFINE t == s \ {Monitor}
           z == s \cup {Monitor}
           x == Reply(q[1].id)
           v == << x >>
           u == Append(w, x)
           h == Tail(q)
           m == Len(iss)
<1>1. /\ a \in ContextType /\ w \in Seq(WireType) /\ q \in Seq(SentType)
      /\ t \in SUBSET Names /\ t = z \ {Monitor}
  BY DEF Flow, FlowType
<1>2. q[1] \in SentType /\ h \in Seq(SentType)
  BY <1>1, TailParts
<1>3. q[1].id \in Ids
  BY <1>2, SentParts
<1>4. x \in WireType /\ x.type = "reply" /\ x # Rejection /\ ~About(x)
  BY <1>3, Answers DEF About
<1>5. a.monitoring
  <2>1. SUFFICES ASSUME ~a.monitoring PROVE FALSE
    OBVIOUS
  <2>2. RegularInv(a, w, q, s, iss)
    BY <2>1, Zenon DEF Flow, OrderInv
  <2>3. 1 \in DOMAIN q
    BY <1>1
  <2> QED
    BY <2>2, <2>3 DEF RegularInv
<1>6. MonitorInv(a, w, q, s, cl, c, iss, rn)
  BY <1>5, Zenon DEF Flow, OrderInv
<1>7. Len(q) = 1 /\ q[1].id = m /\ w = << >> /\ rn[m] = << >> /\ s \subseteq {Monitor}
  BY <1>6, Zenon DEF MonitorInv
<1>8. h = << >>
  <2>1. Len(h) = 0 /\ h \in Seq(SentType)
    BY <1>1, <1>7, TailParts
  <2> HIDE DEF h
  <2> QED
    BY ONLY <2>1
<1> HIDE DEF x, h, t
<1>9. v \in Seq(WireType) /\ u = w \o v /\ DOMAIN v = {1} /\ v[1] = x
  BY <1>1, <1>4, OneMore
<1>10. u \in Seq(WireType) /\ DOMAIN u = {1} /\ u[1] = x /\ u # << >>
  BY <1>4, <1>7
<1> HIDE DEF v, u
<1>11. SubsInv(a, u, h, t)
  <2>1. SubsInv(a, w, q, t)
    BY DEF Flow, t
  <2>2. \A p \in DOMAIN w : w[p].type # "unsubscribe"
    BY <1>7
  <2>3. q[1].kind # "UNSUBSCRIBE" /\ q[1].kind # "SUBSCRIBE"
    BY DEF Monitor
  <2>4. SubsInv(a, w, h, t)
    BY <1>1, <2>1, <2>2, <2>3, SubsTake DEF h
  <2>5. /\ \A r \in DOMAIN v : v[r].type # "unsubscribe" /\ (About(v[r]) => v[r].name \in t)
        /\ \A r \in DOMAIN v : v[r].type = "error" /\ v[r] # Rejection => t # {}
    BY <1>4, <1>9
  <2>6. SubsInv(a, w \o v, h, t)
    BY <1>1, <1>9, <2>4, <2>5, SubsMore
  <2> QED
    BY <1>9, <2>6
<1>12. OrderInv(a, u, h, z, cl, c, iss, rn)
  <2>1. \A p \in DOMAIN u : p = 1 /\ rn[m] = << >> /\ u[p] \in {Reply(m), Rejection}
    BY <1>7, <1>10 DEF x
  <2>2. z \subseteq {Monitor}
    BY <1>7
  <2>3. MonitorInv(a, u, h, z, cl, c, iss, rn)
    BY <1>6, <1>8, <1>10, <2>1, <2>2 DEF MonitorInv
  <2> QED
    BY <1>5, <2>3, Zenon DEF OrderInv
<1>13. CallbackInv(a, u, cl, iss, rn)
  <2>1. RejectInv(u, cl, rn)
    BY <1>4, <1>10 DEF RejectInv
  <2> QED
    BY <2>1, Zenon DEF Flow, CallbackInv
<1>14. FlowType(a, u, h, z, cl, c, iss, rn)
  BY <1>2, <1>10 DEF Flow, FlowType, h
<1>15. Flow(a, u, h, z, cl, c, iss, rn)
  <2> HIDE DEF z
  <2> QED
    BY <1>1, <1>11, <1>12, <1>13, <1>14, Zenon DEF Flow
<1> QED
  BY <1>15, Zenon DEF u, x, h

(* What confirms changes of subscriptions, f[i] after the i-th of them.    *)
Afterwards(l, f) == \A i \in DOMAIN l : f[i] \in SUBSET (Names \cup {Monitor})

Confirms(v, type, l, f) ==
  /\ v \in Seq(WireType) /\ Len(v) = Len(l) /\ DOMAIN v = DOMAIN l
  /\ \A i \in DOMAIN l : /\ v[i].type = type /\ v[i].name = l[i]
                         /\ v[i].count = Cardinality(f[i] \ {Monitor})

(* The messages of Confirm, one by one.                                    *)
LEMMA Confirmations ==
  ASSUME NEW type, type \in {"subscribe", "unsubscribe"}, NEW l \in Seq(Names), NEW f, Afterwards(l, f)
  PROVE  Confirms(Confirm(type, l, f), type, l, f)
<1> SUFFICES ASSUME \A i \in DOMAIN l : f[i] \in SUBSET (Names \cup {Monitor})
             PROVE  LET v == Confirm(type, l, f)
                    IN /\ v \in Seq(WireType) /\ Len(v) = Len(l) /\ DOMAIN v = DOMAIN l
                       /\ \A i \in DOMAIN l : /\ v[i].type = type /\ v[i].name = l[i]
                                              /\ v[i].count = Cardinality(f[i] \ {Monitor})
  BY Zenon DEF Afterwards, Confirms
<1> DEFINE v == Confirm(type, l, f)
           M(i) == Message(type, l[i], Cardinality(f[i] \ {Monitor}), 0)
<1>1. DOMAIN v = 1 .. Len(l) /\ Len(l) \in Nat /\ DOMAIN l = 1 .. Len(l) /\ \A i \in DOMAIN l : v[i] = M(i)
  BY DEF Confirm
<1>2. ASSUME NEW i \in DOMAIN l
      PROVE  /\ M(i) \in WireType /\ M(i).type = type /\ M(i).name = l[i]
             /\ M(i).count = Cardinality(f[i] \ {Monitor})
  <2> DEFINE k == Cardinality(f[i] \ {Monitor})
  <2>1. k \in Nat
    <3>1. f[i] \ {Monitor} \subseteq Names
      OBVIOUS
    <3> QED
      BY <3>1, Bounds, FS_Subset, FS_CardinalityType
  <2>2. l[i] \in Names
    OBVIOUS
  <2> HIDE DEF k
  <2>3. Message(type, l[i], k, 0) \in MessageType
    BY <2>1, <2>2, MaxNat DEF Message, MessageType, MessageTypes
  <2>4. /\ Message(type, l[i], k, 0).type = type /\ Message(type, l[i], k, 0).name = l[i]
        /\ Message(type, l[i], k, 0).count = k
    BY DEF Message
  <2> QED
    BY <2>3, <2>4 DEF WireType, k
<1> HIDE DEF M
<1>3. v = [i \in 1 .. Len(l) |-> v[i]]
  BY <1>1 DEF Confirm
<1> HIDE DEF v
<1>4. v \in Seq(WireType) /\ Len(v) = Len(l)
  <2>1. \A i \in 1 .. Len(l) : v[i] \in WireType
    BY <1>1, <1>2
  <2>2. v \in [1 .. Len(l) -> WireType]
    BY <1>3, <2>1
  <2> QED
    BY <1>1, <2>2
<1>5. \A i \in DOMAIN l : v[i].type = type /\ v[i].name = l[i] /\ v[i].count = Cardinality(f[i] \ {Monitor})
  BY <1>1, <1>2
<1> QED
  BY <1>1, <1>4, <1>5 DEF v

(* A SUBSCRIBE that is served: its names are at the server instead.        *)
LEMMA FlowServeSubscribe ==
  ASSUME NEW a, NEW w, NEW q, NEW s, NEW cl, NEW c, NEW iss, NEW rn,
         Flow(a, w, q, s, cl, c, iss, rn), ~cl, q # << >>, q[1].kind = "SUBSCRIBE",
         NEW v \in Seq(WireType),
         \A i \in DOMAIN v : v[i].type = "subscribe" /\ v[i].name \in q[1].scope
  PROVE  Flow(a, w \o v, Tail(q), s \cup q[1].scope, cl, c, iss, rn)
<1> DEFINE t == s \ {Monitor}
           z == s \cup q[1].scope
           y == z \ {Monitor}
           u == w \o v
           h == Tail(q)
<1>1. /\ a \in ContextType /\ w \in Seq(WireType) /\ q \in Seq(SentType)
      /\ t \in SUBSET Names /\ a.replies \in Seq(0 .. MaxCommands)
      /\ s \in SUBSET (Names \cup {Monitor})
  BY DEF Flow, FlowType, ContextType
<1>2. q[1] \in SentType /\ h \in Seq(SentType)
  BY <1>1, TailParts
<1>3. q[1].names \in NameLists /\ q[1].scope = Elements(q[1].names) /\ q[1].scope \in SUBSET Names
  BY <1>2, SentParts
<1>4. q[1].scope # {}
  BY <1>3, ListParts
<1>5. Monitor \notin q[1].scope
  BY <1>3, Bounds
<1>6. y \in SUBSET Names /\ y # {} /\ \A n : n \in y <=> n \in t \/ (q[1].kind = "SUBSCRIBE" /\ n \in q[1].scope)
  BY <1>1, <1>3, <1>4, <1>5
<1>7. ~a.monitoring
  <2>1. SUFFICES ASSUME a.monitoring PROVE FALSE
    OBVIOUS
  <2>2. MonitorInv(a, w, q, s, cl, c, iss, rn)
    BY <2>1, Zenon DEF Flow, OrderInv
  <2>3. q[1].kind = Monitor
    BY <2>2 DEF MonitorInv
  <2> QED
    BY <2>3 DEF Monitor
<1>8. RegularInv(a, w, q, s, iss) /\ AlignInv(a.replies, w, q, t)
  BY <1>7, Zenon DEF Flow, OrderInv, Quiet
<1>9. \A p \in DOMAIN w : w[p].type # "unsubscribe"
  BY <1>7, NoEnd
<1>10. SubsInv(a, w, q, t)
  BY DEF Flow
<1> HIDE DEF t, y, u
<1>11. SubsInv(a, w, h, y)
  BY <1>1, <1>6, <1>9, <1>10, SubsTake
<1>12. SubsInv(a, u, h, y)
  <2>1. /\ \A r \in DOMAIN v : v[r].type # "unsubscribe" /\ (About(v[r]) => v[r].name \in y)
        /\ \A r \in DOMAIN v : v[r].type = "error" /\ v[r] # Rejection => y # {}
    BY <1>6
  <2> QED
    BY <1>1, <1>6, <1>11, <2>1, SubsMore DEF u
<1>13. AlignInv(a.replies, u, h, y)
  <2>1. q[1].kind # "GET"
    OBVIOUS
  <2>2. AlignInv(a.replies, w, h, y)
    BY <1>1, <1>6, <1>8, <2>1, AlignTake
  <2>3. \A i \in DOMAIN v : v[i].type # "reply"
    OBVIOUS
  <2> QED
    BY <1>1, <1>2, <1>6, <2>2, <2>3, AlignMore DEF u
<1>14. /\ \A p \in DOMAIN u : (p \in DOMAIN w /\ u[p] = w[p]) \/ \E i \in DOMAIN v : u[p] = v[i]
       /\ u \in Seq(WireType)
  BY <1>1, CatEither DEF u
<1>15. RegularInv(a, u, h, z, iss)
  <2>1. \A p \in DOMAIN h : h[p].kind # Monitor
    <3>1. \A p \in DOMAIN q : q[p].kind # Monitor
      BY <1>8, Zenon DEF RegularInv
    <3> QED
      BY <1>1, <3>1, TailParts
  <2>2. \A p \in DOMAIN w : w[p].name # Monitor
    BY <1>8, Zenon DEF RegularInv
  <2>3. \A p \in DOMAIN u : u[p].name # Monitor
    BY <1>5, <1>14, <2>2
  <2>4. Monitor \notin z
    BY <1>5, <1>8 DEF RegularInv
  <2> QED
    BY <1>8, <2>1, <2>3, <2>4 DEF RegularInv
<1>16. OrderInv(a, u, h, z, cl, c, iss, rn)
  BY <1>7, <1>13, <1>15, Zenon DEF OrderInv, y
<1>17. CallbackInv(a, u, cl, iss, rn)
  <2>1. RejectInv(w, cl, rn) /\ KeptInv(a, iss, rn) /\ WaitInv(a, iss, rn) /\ RanInv(iss, rn)
    BY Zenon DEF Flow, CallbackInv
  <2>2. \A p \in DOMAIN w : w[p] # Rejection
    BY <2>1 DEF RejectInv
  <2>3. Rejection.type = "error"
    BY DEF Rejection, Message
  <2>4. \A p \in DOMAIN u : u[p] # Rejection
    BY <1>14, <2>2, <2>3
  <2>5. RejectInv(u, cl, rn)
    BY <2>4 DEF RejectInv
  <2> QED
    BY <2>1, <2>5, Zenon DEF CallbackInv
<1>18. FlowType(a, u, h, z, cl, c, iss, rn)
  BY <1>1, <1>2, <1>3, <1>14 DEF Flow, FlowType
<1>19. Flow(a, u, h, z, cl, c, iss, rn)
  BY <1>12, <1>16, <1>17, <1>18, Zenon DEF Flow, y
<1> QED
  BY <1>19 DEF u

(* How many subscriptions are left after the first i names of l.           *)
Left(s, l, i) == Cardinality((s \ {l[j] : j \in 1 .. i}) \ {Monitor})

(* The end of subscriptions: the names l, each of them once.               *)
LEMMA FlowServeUnsubscribe ==
  ASSUME NEW a, NEW w, NEW q, NEW s, NEW cl, NEW c, NEW iss, NEW rn,
         Flow(a, w, q, s, cl, c, iss, rn), ~cl, q # << >>, q[1].kind = "UNSUBSCRIBE",
         NEW l \in Seq(Names), l # << >>, Distinct(l), \A i \in DOMAIN l : l[i] \in s,
         NEW v \in Seq(WireType), DOMAIN v = DOMAIN l, Len(v) = Len(l),
         \A i \in DOMAIN l :
           /\ v[i].type = "unsubscribe" /\ v[i].name = l[i]
           /\ v[i].count = Left(s, l, i)
  PROVE  Flow(a, w \o v, Tail(q), s \ Elements(l), cl, c, iss, rn)
<1> DEFINE t == s \ {Monitor}
           z == s \ Elements(l)
           y == z \ {Monitor}
           u == w \o v
           h == Tail(q)
           k == Len(w)
           d == Len(l)
<1>1. /\ a \in ContextType /\ w \in Seq(WireType) /\ q \in Seq(SentType)
      /\ t \in SUBSET Names /\ a.replies \in Seq(0 .. MaxCommands)
      /\ s \in SUBSET (Names \cup {Monitor})
  BY DEF Flow, FlowType, ContextType
<1>2. q[1] \in SentType /\ h \in Seq(SentType) /\ 1 \in DOMAIN q
  BY <1>1, TailParts
<1>3. ~a.monitoring
  <2>1. SUFFICES ASSUME a.monitoring PROVE FALSE
    OBVIOUS
  <2>2. MonitorInv(a, w, q, s, cl, c, iss, rn)
    BY <2>1, Zenon DEF Flow, OrderInv
  <2>3. q[1].kind = Monitor
    BY <2>2 DEF MonitorInv
  <2> QED
    BY <2>3 DEF Monitor
<1>4. RegularInv(a, w, q, s, iss) /\ AlignInv(a.replies, w, q, t)
  BY <1>3, Zenon DEF Flow, OrderInv, Quiet
<1>5. \A p \in DOMAIN w : w[p].type # "unsubscribe"
  BY <1>3, NoEnd
<1>6. SubsInv(a, w, q, t)
  BY DEF Flow
<1>7. h = << >>
  <2>1. 1 = Len(q)
    BY <1>2, <1>6 DEF SubsInv, LastInv
  <2>2. Len(h) = 0 /\ h \in Seq(SentType)
    BY <1>1, <2>1, TailParts
  <2> HIDE DEF h
  <2> QED
    BY ONLY <2>2
<1>8. \A n : ~Asked(q, n)
  <2>1. \A p \in DOMAIN q : p = 1
    <3>1. 1 = Len(q)
      BY <1>2, <1>6 DEF SubsInv, LastInv
    <3> QED
      BY <1>1, <3>1
  <2> QED
    BY <2>1 DEF Asked
<1>9. \A n : ~Ending(w, n) /\ \A p \in Nat : ~EndsAfter(w, p, n)
  BY <1>5 DEF Ending, EndsAfter
<1>10. /\ d \in Nat \ {0} /\ k \in Nat /\ DOMAIN l = 1 .. d /\ DOMAIN v = 1 .. d /\ Len(v) = d /\ DOMAIN w = 1 .. k
  BY <1>1
<1>11. \A n : n \in Elements(l) <=> \E i \in 1 .. d : l[i] = n
  BY <1>10 DEF Elements
<1>12. \A i \in 1 .. d : l[i] \in t /\ l[i] \in Names /\ l[i] # Monitor
  <2>1. Monitor \notin Names
    BY Bounds
  <2>2. \A i \in DOMAIN l : l[i] \in s /\ l[i] \in Names
    OBVIOUS
  <2> QED
    BY ONLY <1>10, <2>1, <2>2
<1>13. /\ u \in Seq(WireType) /\ DOMAIN u = 1 .. (k + d) /\ Len(u) = k + d
       /\ \A i \in 1 .. k : u[i] = w[i]
       /\ \A i \in 1 .. d : u[k + i] = v[i]
  <2>1. Len(v) = d
    OBVIOUS
  <2>3. w \in Seq(WireType) /\ v \in Seq(WireType)
    BY <1>1
  <2>2. /\ u \in Seq(WireType) /\ DOMAIN u = 1 .. (Len(w) + Len(v)) /\ Len(u) = Len(w) + Len(v)
        /\ \A i \in 1 .. Len(w) : u[i] = w[i]
        /\ \A i \in 1 .. Len(v) : u[Len(w) + i] = v[i]
    BY ONLY <2>3, CatParts
  <2> HIDE DEF d, u
  <2> QED
    BY ONLY <2>1, <2>2
<1>14. ASSUME NEW n, NEW p \in Nat
       PROVE  EndsAfter(u, p, n) <=> \E i \in 1 .. d : k + i > p /\ l[i] = n
  <2>1. EndsAfter(u, p, n) <=> \E r \in DOMAIN v : k + r > p /\ v[r].type = "unsubscribe" /\ v[r].name = n
    <3>1. w \in Seq(WireType) /\ v \in Seq(WireType) /\ ~EndsAfter(w, p, n)
      BY <1>1, <1>9
    <3> QED
      BY ONLY <3>1, <1>14, EndsCat
  <2> QED
    BY <1>10, <2>1
<1>15. \A n : Ending(u, n) <=> n \in Elements(l)
  <2>1. ASSUME NEW n PROVE Ending(u, n) <=> \E i \in 1 .. d : k + i > 0 /\ l[i] = n
    BY <1>14 DEF Ending
  <2>2. \A i \in 1 .. d : k + i > 0
    BY <1>10
  <2> QED
    BY <1>11, <2>1, <2>2
<1> HIDE DEF u, h, k, d
<1>16. \A n : n \in y <=> n \in t /\ n \notin Elements(l)
  OBVIOUS
<1>17. \A n \in Elements(l) : n \in t
  BY <1>11, <1>12
<1>18. y \in SUBSET Names
  BY <1>1, <1>16
<1> HIDE DEF t, y
<1>19. \A p \in DOMAIN u : (p \in DOMAIN w /\ u[p] = w[p]) \/ \E i \in 1 .. d : p = k + i /\ u[p] = v[i]
  <2>1. ASSUME NEW p \in DOMAIN u, p \notin DOMAIN w PROVE \E i \in 1 .. d : p = k + i /\ u[p] = v[i]
    <3> DEFINE i == p - k
    <3>1. i \in 1 .. d /\ p = k + i
      BY <1>10, <1>13, <2>1
    <3> HIDE DEF i
    <3> QED
      BY <1>13, <3>1
  <2> QED
    BY <1>10, <1>13, <2>1
<1>20. TablesInv(a, u, h, y)
  <2>1. \A n : ~Asked(h, n)
    BY <1>7, AskedNone
  <2>2. \A n \in Names : n \in AllNames(a) <=> n \in t
    BY <1>6, <1>8, <1>9 DEF SubsInv, TablesInv
  <2>3. \A n \in Names : n \in t <=> n \in y \/ Ending(u, n)
    BY <1>15, <1>16, <1>17
  <2> QED
    BY <1>6, <2>1, <2>2, <2>3 DEF SubsInv, TablesInv
<1>21. EndingInv(u, h, y)
  <2>1. \A n \in Names : Ending(u, n) => n \notin y /\ h = << >>
    BY <1>7, <1>15, <1>16
  <2>2. ASSUME NEW p \in DOMAIN u, u[p].type = "unsubscribe"
        PROVE  u[p].count = Cardinality({n \in Names : n \in y \/ EndsAfter(u, p, n)})
    <3>1. PICK i \in 1 .. d : p = k + i /\ u[p] = v[i]
      BY <1>5, <1>19, <2>2
    <3>2. u[p].count = Cardinality((s \ {l[j] : j \in 1 .. i}) \ {Monitor})
      BY <1>10, <3>1 DEF Left
    <3>3. p \in Nat
      BY <1>10, <3>1
    <3>4. ASSUME NEW n \in Names
          PROVE  n \in y \/ EndsAfter(u, p, n) <=> n \in (s \ {l[j] : j \in 1 .. i}) \ {Monitor}
      <4>1. EndsAfter(u, p, n) <=> \E j \in 1 .. d : k + j > p /\ l[j] = n
        BY <1>14, <3>3
      <4>2. \A j \in 1 .. d : k + j > p <=> j > i
        BY <1>10, <3>1
      <4>3. EndsAfter(u, p, n) <=> \E j \in 1 .. d : j > i /\ l[j] = n
        BY <4>1, <4>2
      <4>4. \A j \in 1 .. d : j > i \/ j \in 1 .. i
        BY <1>10
      <4>5. \A j \in 1 .. i : j \in 1 .. d
        BY <1>10
      <4>6. n \in {l[j] : j \in 1 .. i} <=> \E j \in 1 .. i : l[j] = n
        OBVIOUS
      <4>7. \A j, g \in 1 .. d : l[j] = l[g] => j = g
        BY <1>10 DEF Distinct
      <4>8. \A j \in 1 .. i : ~(j > i)
        BY <1>10
      <4>9. n \in (s \ {l[j] : j \in 1 .. i}) \ {Monitor} <=> n \in t /\ ~\E j \in 1 .. i : l[j] = n
        BY <4>6 DEF t
      <4>10. ASSUME n \in y \/ EndsAfter(u, p, n) PROVE n \in t /\ ~\E j \in 1 .. i : l[j] = n
        <5>1. CASE n \in y
          BY <5>1, <1>11, <1>16, <4>5
        <5>2. CASE EndsAfter(u, p, n)
          <6>1. PICK g \in 1 .. d : g > i /\ l[g] = n
            BY <4>3, <5>2
          <6>2. \A j \in 1 .. i : l[j] # n
            BY <4>5, <4>7, <4>8, <6>1
          <6> QED
            BY <1>12, <6>1, <6>2
        <5> QED
          BY <4>10, <5>1, <5>2
      <4>11. ASSUME n \in t, ~\E j \in 1 .. i : l[j] = n PROVE n \in y \/ EndsAfter(u, p, n)
        BY <1>11, <1>16, <4>3, <4>4, <4>11
      <4> QED
        BY <4>9, <4>10, <4>11
    <3>5. (s \ {l[j] : j \in 1 .. i}) \ {Monitor} \subseteq Names
      BY <1>1
    <3>6. {n \in Names : n \in y \/ EndsAfter(u, p, n)} = (s \ {l[j] : j \in 1 .. i}) \ {Monitor}
      BY <3>4, <3>5
    <3> QED
      BY <3>2, <3>6, Zenon
  <2> QED
    BY <2>1, <2>2 DEF EndingInv
<1>22. NamedInv(a, u)
  <2>1. ASSUME NEW p \in DOMAIN u, About(u[p])
        PROVE  /\ u[p].name \in AllNames(a)
               /\ \A r \in 1 .. (p - 1) : u[r].type = "unsubscribe" => u[r].name # u[p].name
    <3>1. CASE p \in DOMAIN w /\ u[p] = w[p]
      <4>1. \A r \in 1 .. (p - 1) : r \in 1 .. k
        BY <1>10, <3>1
      <4> QED
        BY <1>5, <1>6, <1>10, <1>13, <2>1, <3>1, <4>1 DEF SubsInv, NamedInv
    <3>2. ASSUME NEW i \in 1 .. d, p = k + i, u[p] = v[i]
          PROVE  /\ u[p].name \in AllNames(a)
                 /\ \A r \in 1 .. (p - 1) : u[r].type = "unsubscribe" => u[r].name # u[p].name
      <4>1. u[p].name = l[i]
        BY <1>10, <3>2
      <4>2. l[i] \in AllNames(a)
        BY <1>6, <1>12 DEF SubsInv, TablesInv
      <4>3. ASSUME NEW r \in 1 .. (p - 1), u[r].type = "unsubscribe" PROVE u[r].name # u[p].name
        <5>1. r \in DOMAIN u
          BY <1>10, <1>13, <3>2
        <5>2. PICK j \in 1 .. d : r = k + j /\ u[r] = v[j]
          BY <1>5, <1>19, <4>3, <5>1
        <5>3. j # i
          BY <1>10, <3>2, <5>2
        <5>4. l[j] # l[i]
          BY <1>10, <5>3 DEF Distinct
        <5> QED
          BY <1>10, <4>1, <5>2, <5>4
      <4> QED
        BY <4>1, <4>2, <4>3
    <3> QED
      BY <1>19, <3>1, <3>2
  <2> QED
    BY <2>1 DEF NamedInv
<1>23. LateInv(u, y)
  <2>1. u[k + d].type = "unsubscribe" /\ k + d = Len(u)
    BY <1>10, <1>13
  <2>2. \A p \in DOMAIN u : k + d \in p .. Len(u)
    BY <1>10, <1>13
  <2> QED
    BY <2>1, <2>2 DEF LateInv
<1>24. LastInv(u, h, y)
  BY <1>7 DEF LastInv
<1>25. SubsInv(a, u, h, y)
  BY <1>20, <1>21, <1>22, <1>23, <1>24 DEF SubsInv
<1>26. AlignInv(a.replies, u, h, y)
  <2>1. q[1].kind # "GET"
    OBVIOUS
  <2>2. AlignInv(a.replies, w, h, y) /\ Len(a.replies) <= k
    BY <1>1, <1>4, <1>7, <2>1, AlignTake DEF h, k
  <2>3. Len(a.replies) \in Nat /\ Len(h) = 0 /\ DOMAIN h = {}
    BY <1>1, <1>7
  <2>4. \A p \in DOMAIN w : p <= Len(a.replies) => w[p] = Reply(a.replies[p])
    BY <2>2 DEF AlignInv
  <2>5. \A p \in DOMAIN w : p > Len(a.replies) => w[p].type # "reply"
    BY <2>2 DEF AlignInv
  <2>6. \A i \in 1 .. d : v[i].type # "reply" /\ ~(k + i <= Len(a.replies))
    BY <1>10, <2>2, <2>3
  <2>7. \A p \in DOMAIN u : p <= Len(a.replies) => u[p] = Reply(a.replies[p])
    BY <1>19, <2>4, <2>6
  <2>8. \A p \in DOMAIN u : p > Len(a.replies) => u[p].type # "reply"
    BY <1>19, <2>5, <2>6
  <2>9. Len(a.replies) <= Len(u) + Len(h)
    BY <1>10, <1>13, <2>2, <2>3
  <2> QED
    BY <2>3, <2>7, <2>8, <2>9 DEF AlignInv
<1>27. RegularInv(a, u, h, z, iss)
  <2>2. \A p \in DOMAIN w : w[p].name # Monitor
    BY <1>4, Zenon DEF RegularInv
  <2>3. \A p \in DOMAIN u : u[p].name # Monitor
    BY <1>10, <1>12, <1>19, <2>2
  <2>4. Monitor \notin z
    BY <1>4 DEF RegularInv
  <2> QED
    BY <1>4, <1>7, <2>3, <2>4 DEF RegularInv
<1>28. OrderInv(a, u, h, z, cl, c, iss, rn)
  BY <1>3, <1>26, <1>27, Zenon DEF OrderInv, y
<1>29. CallbackInv(a, u, cl, iss, rn)
  <2>1. RejectInv(w, cl, rn) /\ KeptInv(a, iss, rn) /\ WaitInv(a, iss, rn) /\ RanInv(iss, rn)
    BY Zenon DEF Flow, CallbackInv
  <2>2. \A p \in DOMAIN w : w[p] # Rejection
    BY <2>1 DEF RejectInv
  <2>3. Rejection.type = "error"
    BY DEF Rejection, Message
  <2>6. \A i \in 1 .. d : v[i] # Rejection
    BY <1>10, <2>3
  <2>4. \A p \in DOMAIN u : u[p] # Rejection
    BY ONLY <1>19, <2>2, <2>6
  <2>5. RejectInv(u, cl, rn)
    BY <2>4 DEF RejectInv
  <2> QED
    BY <2>1, <2>5, Zenon DEF CallbackInv
<1>30. FlowType(a, u, h, z, cl, c, iss, rn)
  BY <1>1, <1>2, <1>13 DEF Flow, FlowType
<1>31. Flow(a, u, h, z, cl, c, iss, rn)
  BY <1>25, <1>28, <1>29, <1>30, Zenon DEF Flow, y
<1> QED
  BY <1>31 DEF u, h

-------------------------------------------------------------------------------
(* A command is issued.                                                    *)

Queued(x, id) == [kind |-> x.kind, names |-> x.names, scope |-> x.scope, id |-> id]

(* What __redisAsyncCommand puts into the output buffer.                   *)
LEMMA QueuedParts ==
  ASSUME NEW x \in CommandSet, NEW id \in Ids
  PROVE  /\ Queued(x, id) \in SentType /\ Queued(x, id).kind = x.kind /\ Queued(x, id).names = x.names
         /\ Queued(x, id).scope = x.scope /\ Queued(x, id).id = id
<1> DEFINE y == Queued(x, id)
<1>1. y.kind = x.kind /\ y.names = x.names /\ y.scope = x.scope /\ y.id = id
  BY DEF Queued
<1>2. /\ x.kind \in {"GET", Monitor, "SUBSCRIBE", "UNSUBSCRIBE"} /\ x.names \in NameLists \cup {<< >>}
      /\ x.scope \in SUBSET Names /\ x = Command(x.kind, x.names, x.scope)
  BY CommandParts DEF Command
<1>3. y \in [kind : {"GET", Monitor, "SUBSCRIBE", "UNSUBSCRIBE"}, names : NameLists \cup {<< >>},
             scope : SUBSET Names, id : Ids]
  BY <1>2 DEF Queued
<1> HIDE DEF y
<1>4. Command(y.kind, y.names, y.scope) \in CommandSet
  BY <1>1, <1>2
<1>5. y \in SentType
  BY <1>3, <1>4 DEF SentType
<1> QED
  BY <1>1, <1>5 DEF y

(* What AsyncCommand leaves as it is.                                      *)
Elsewhere(a, b, y) ==
  /\ b.state = a.state /\ b.freeing = a.freeing /\ b.connected = a.connected
  /\ b.obuf = Append(a.obuf, y)

(* Where the callback of a regular command goes.                           *)
LEMMA RegisterGet ==
  ASSUME NEW a \in ContextType, NEW x \in CommandSet, NEW id \in Ids, x.kind = "GET"
  PROVE  LET b == AsyncCommand(a, x, id)
         IN /\ b \in ContextType /\ Elsewhere(a, b, Queued(x, id))
            /\ b.subscribed = a.subscribed /\ b.monitoring = a.monitoring
            /\ b.channels = a.channels /\ b.patterns = a.patterns
            /\ a.subscribed => b.replies = a.replies /\ b.invalid = Append(a.invalid, id)
            /\ ~a.subscribed => b.replies = Append(a.replies, id) /\ b.invalid = a.invalid
<1> DEFINE y == Queued(x, id)
           o == Append(a.obuf, y)
<1>1. y \in SentType /\ id \in 0 .. MaxCommands
  BY QueuedParts, MaxNat DEF Ids
<1>2. a.obuf \in Seq(SentType) /\ a.replies \in Seq(0 .. MaxCommands) /\ a.invalid \in Seq(Ids) /\ a.subscribed \in BOOLEAN
  BY DEF ContextType
<1>3. o \in Seq(SentType) /\ Append(a.replies, id) \in Seq(0 .. MaxCommands) /\ Append(a.invalid, id) \in Seq(Ids)
  BY <1>1, <1>2, AppendParts
<1>4. CASE a.subscribed
  <2> DEFINE r == Append(a.invalid, id)
  <2>1. Register(a, x, id) = [a EXCEPT !.invalid = r]
    BY <1>4 DEF Register, Monitor
  <2> HIDE DEF r, y, o
  <2>2. AsyncCommand(a, x, id) = [[a EXCEPT !.invalid = r] EXCEPT !.obuf = o, !.writing = TRUE]
    BY <2>1 DEF AsyncCommand, o, y, Queued, ContextType
  <2>3. r \in Seq(Ids)
    BY <1>3 DEF r
  <2> QED
    BY <1>3, <1>4, <2>2, <2>3 DEF ContextType, Elsewhere, r, o, y
<1>5. CASE ~a.subscribed
  <2> DEFINE r == Append(a.replies, id)
  <2>1. Register(a, x, id) = [a EXCEPT !.replies = r]
    BY <1>5 DEF Register, Monitor
  <2> HIDE DEF r, y, o
  <2>2. AsyncCommand(a, x, id) = [[a EXCEPT !.replies = r] EXCEPT !.obuf = o, !.writing = TRUE]
    BY <2>1 DEF AsyncCommand, o, y, Queued, ContextType
  <2>3. r \in Seq(0 .. MaxCommands)
    BY <1>3 DEF r
  <2> QED
    BY <1>3, <1>5, <2>2, <2>3 DEF ContextType, Elsewhere, r, o, y
<1> QED
  BY <1>2, <1>4, <1>5

(* Where __redisAsyncCommand keeps the callback of MONITOR.                *)
LEMMA RegisterMonitor ==
  ASSUME NEW a \in ContextType, NEW x \in CommandSet, NEW id \in Ids, x.kind = Monitor
  PROVE  LET b == AsyncCommand(a, x, id)
         IN /\ b \in ContextType /\ Elsewhere(a, b, Queued(x, id))
            /\ b.subscribed = a.subscribed /\ b.monitoring
            /\ b.channels = a.channels /\ b.patterns = a.patterns
            /\ b.replies = Append(a.replies, id) /\ b.invalid = a.invalid
<1> DEFINE y == Queued(x, id)
           o == Append(a.obuf, y)
           r == Append(a.replies, id)
<1>1. y \in SentType /\ id \in 0 .. MaxCommands
  BY QueuedParts, MaxNat DEF Ids
<1>2. a.obuf \in Seq(SentType) /\ a.replies \in Seq(0 .. MaxCommands)
  BY DEF ContextType
<1>3. o \in Seq(SentType) /\ r \in Seq(0 .. MaxCommands)
  BY <1>1, <1>2, AppendParts
<1>4. Register(a, x, id) = [a EXCEPT !.monitoring = TRUE, !.replies = r]
  BY DEF Register, Monitor
<1> HIDE DEF r, y, o
<1>5. AsyncCommand(a, x, id) = [[a EXCEPT !.monitoring = TRUE, !.replies = r] EXCEPT !.obuf = o, !.writing = TRUE]
  BY <1>4 DEF AsyncCommand, o, y, Queued, ContextType
<1> QED
  BY <1>3, <1>5 DEF ContextType, Elsewhere, r, o, y

(* It keeps none for UNSUBSCRIBE.                                          *)
LEMMA RegisterUnsubscribe ==
  ASSUME NEW a \in ContextType, NEW x \in CommandSet, NEW id \in Ids, x.kind = "UNSUBSCRIBE"
  PROVE  LET b == AsyncCommand(a, x, id)
         IN b \in ContextType /\ Elsewhere(a, b, Queued(x, id)) /\ Same(a, b)
<1> DEFINE y == Queued(x, id)
           o == Append(a.obuf, y)
<1>1. y \in SentType
  BY QueuedParts
<1>2. a.obuf \in Seq(SentType)
  BY DEF ContextType
<1>3. o \in Seq(SentType)
  BY <1>1, <1>2, AppendParts
<1>4. Register(a, x, id) = a
  BY DEF Register, Monitor
<1> HIDE DEF y, o
<1>5. AsyncCommand(a, x, id) = [a EXCEPT !.obuf = o, !.writing = TRUE]
  BY <1>4 DEF AsyncCommand, o, y, Queued, ContextType
<1> QED
  BY <1>3, <1>5 DEF ContextType, Elsewhere, Same, o, y

(* It keeps that of SUBSCRIBE in the tables, under each name.              *)
LEMMA RegisterSubscribe ==
  ASSUME NEW a \in ContextType, NEW x \in CommandSet, NEW id \in Ids, x.kind = "SUBSCRIBE",
         DictOK(a.channels), DictOK(a.patterns)
  PROVE  LET b == AsyncCommand(a, x, id)
         IN /\ b \in ContextType /\ Elsewhere(a, b, Queued(x, id))
            /\ DictOK(b.channels) /\ DictOK(b.patterns)
            /\ b.subscribed /\ b.monitoring = a.monitoring
            /\ b.replies = a.replies /\ b.invalid = a.invalid
            /\ \A e \in Subscriptions(b) : e \in Subscriptions(a) \/ (e.val = id /\ e.key \in x.scope)
            /\ \A n \in Names : n \in AllNames(b) <=> n \in AllNames(a) \/ n \in x.scope
<1> DEFINE y == Queued(x, id)
           o == Append(a.obuf, y)
           g == Replace(a.channels, x.names, Channels, id)
           h == Replace(a.patterns, x.names, Patterns, id)
           b == AsyncCommand(a, x, id)
<1>1. y \in SentType
  BY QueuedParts
<1>2. /\ a.obuf \in Seq(SentType) /\ a.channels \in DictType(Channels) /\ a.patterns \in DictType(Patterns)
  BY DEF ContextType
<1>3. o \in Seq(SentType)
  BY <1>1, <1>2, AppendParts
<1>4. x.names \in NameLists /\ x.scope = Elements(x.names)
  BY CommandParts
<1>5. x.names \in Seq(Names)
  BY <1>4, ListParts
<1>6. Channels \in SUBSET Names /\ Patterns \in SUBSET Names
  BY DEF Names
<1>7. /\ g \in DictType(Channels) /\ DictOK(g)
      /\ \A e \in dictEntries(g) : e \in dictEntries(a.channels) \/ (e.val = id /\ e.key \in x.scope)
      /\ \A k \in Channels : (\E e \in dictEntries(g) : e.key = k) <=>
           (\E e \in dictEntries(a.channels) : e.key = k) \/ k \in x.scope
  BY <1>2, <1>4, <1>5, <1>6, ReplaceNames
<1>8. /\ h \in DictType(Patterns) /\ DictOK(h)
      /\ \A e \in dictEntries(h) : e \in dictEntries(a.patterns) \/ (e.val = id /\ e.key \in x.scope)
      /\ \A k \in Patterns : (\E e \in dictEntries(h) : e.key = k) <=>
           (\E e \in dictEntries(a.patterns) : e.key = k) \/ k \in x.scope
  BY <1>2, <1>4, <1>5, <1>6, ReplaceNames
<1>9. Register(a, x, id) = [a EXCEPT !.subscribed = TRUE, !.channels = g, !.patterns = h]
  <2>1. /\ [a EXCEPT !.subscribed = TRUE, !.channels = Replace(@, x.names, Channels, id),
                      !.patterns = Replace(@, x.names, Patterns, id)]
           = [a EXCEPT !.subscribed = TRUE, !.channels = g, !.patterns = h]
    BY DEF ContextType
  <2>2. x.kind # "UNSUBSCRIBE" /\ x.kind # Monitor /\ x.kind # "GET"
    BY DEF Monitor
  <2> HIDE DEF g, h
  <2> QED
    BY <2>1, <2>2, Zenon DEF Register
<1> HIDE DEF y, o, g, h
<1>10. b = [[a EXCEPT !.subscribed = TRUE, !.channels = g, !.patterns = h] EXCEPT !.obuf = o, !.writing = TRUE]
  BY <1>9 DEF AsyncCommand, o, y, Queued, ContextType
<1>11. /\ b \in ContextType /\ Elsewhere(a, b, y) /\ b.channels = g /\ b.patterns = h
       /\ b.subscribed /\ b.monitoring = a.monitoring
       /\ b.replies = a.replies /\ b.invalid = a.invalid
  <2> HIDE DEF b
  <2> QED
    BY <1>3, <1>7, <1>8, <1>10 DEF ContextType, Elsewhere, o
<1> HIDE DEF b
<1>12. \A e \in Subscriptions(b) : e \in Subscriptions(a) \/ (e.val = id /\ e.key \in x.scope)
  BY <1>7, <1>8, <1>11 DEF Subscriptions
<1>13. ASSUME NEW n \in Names PROVE n \in AllNames(b) <=> n \in AllNames(a) \/ n \in x.scope
  <2>1. \A c \in ContextType : n \in AllNames(c) <=>
          (\E e \in dictEntries(c.channels) : e.key = n) \/ (\E e \in dictEntries(c.patterns) : e.key = n)
    BY NamesOf DEF Subscriptions
  <2>2. \A c \in ContextType : /\ n \notin Channels => ~\E e \in dictEntries(c.channels) : e.key = n
                               /\ n \notin Patterns => ~\E e \in dictEntries(c.patterns) : e.key = n
    BY NamesOf
  <2>3. n \in Channels \/ n \in Patterns
    BY DEF Names
  <2> QED
    BY <1>7, <1>8, <1>11, <2>1, <2>2, <2>3
<1> QED
  BY <1>7, <1>8, <1>11, <1>12, <1>13 DEF b, y

(* Subscriptions, when command y is issued and no end is on its way.       *)
LEMMA IssueSubs ==
  ASSUME NEW a, NEW b, NEW w \in Seq(WireType), NEW q \in Seq(SentType), NEW t \in SUBSET Names,
         NEW y \in SentType, SubsInv(a, w, q, t),
         \A p \in DOMAIN w : w[p].type # "unsubscribe", \A p \in DOMAIN q : q[p].kind # "UNSUBSCRIBE",
         \A n : n \in AllNames(a) => n \in Names,
         \A n \in Names : n \in AllNames(b) <=> n \in AllNames(a) \/ (y.kind = "SUBSCRIBE" /\ n \in y.scope),
         b.subscribed <=> AllNames(b) # {},
         y.kind = "UNSUBSCRIBE" =>
           /\ \E n \in y.scope : n \in AllNames(a)
           /\ y.names # << >> => Distinct(y.names) /\ \A n \in y.scope : n \in AllNames(a)
  PROVE  SubsInv(b, w, Append(q, y), t)
<1> DEFINE h == Append(q, y)
<1>1. /\ h \in Seq(SentType) /\ DOMAIN h = 1 .. (Len(q) + 1) /\ Len(h) = Len(q) + 1 /\ h[Len(q) + 1] = y
      /\ \A i \in 1 .. Len(q) : h[i] = q[i]
  BY AppendParts
<1>2. Len(q) \in Nat /\ DOMAIN q = 1 .. Len(q)
  OBVIOUS
<1>3. \A n : Asked(h, n) <=> Asked(q, n) \/ (y.kind = "SUBSCRIBE" /\ n \in y.scope)
  BY AskedAppend
<1>4. \A n : ~Ending(w, n)
  BY DEF Ending, EndsAfter
<1> HIDE DEF h
<1>5. TablesInv(b, w, h, t)
  BY <1>3 DEF SubsInv, TablesInv
<1>6. EndingInv(w, h, t)
  BY <1>4 DEF EndingInv
<1>7. NamedInv(b, w)
  BY DEF SubsInv, NamedInv
<1>8. \A n \in Names : n \in AllNames(a) <=> n \in t \/ Asked(q, n)
  BY <1>4 DEF SubsInv, TablesInv
<1>9. LastInv(w, h, t)
  <2>1. ASSUME NEW p \in DOMAIN h, h[p].kind = "UNSUBSCRIBE" PROVE p = Len(h) /\ h[p] = y
    BY <1>1, <1>2, <2>1
  <2>2. y.kind = "UNSUBSCRIBE" =>
          /\ \E n \in y.scope : n \in t \/ Asked(h, n)
          /\ y.names # << >> => Distinct(y.names) /\ \A n \in y.scope : n \in t \/ Asked(h, n)
    BY <1>3, <1>8
  <2> QED
    BY <1>4, <2>1, <2>2 DEF LastInv
<1> QED
  BY <1>5, <1>6, <1>7, <1>9 DEF SubsInv, h

(* The new command is the last one, and has not been answered.             *)
LEMMA IssueRan ==
  ASSUME NEW iss \in Seq(CommandSet), NEW x \in CommandSet, Len(iss) < MaxCommands,
         NEW rn, RanInv(iss, rn)
  PROVE  /\ RanInv(Append(iss, x), rn) /\ Len(iss) + 1 \in Ids /\ rn[Len(iss) + 1] = << >>
         /\ Append(iss, x) \in Seq(CommandSet) /\ Len(Append(iss, x)) = Len(iss) + 1
         /\ Append(iss, x)[Len(iss) + 1] = x
         /\ \A i \in DOMAIN iss : Append(iss, x)[i] = iss[i] /\ i \in Ids /\ i <= Len(iss)
         /\ DOMAIN Append(iss, x) = 1 .. (Len(iss) + 1)
<1> DEFINE js == Append(iss, x)
<1>1. /\ js \in Seq(CommandSet) /\ Len(js) = Len(iss) + 1 /\ js[Len(iss) + 1] = x
      /\ (\A i \in 1 .. Len(iss) : js[i] = iss[i]) /\ DOMAIN js = 1 .. (Len(iss) + 1)
  BY AppendParts
<1>2. Len(iss) \in Nat /\ DOMAIN iss = 1 .. Len(iss)
  OBVIOUS
<1> HIDE DEF js
<1>3. Len(iss) + 1 \in Ids /\ Len(iss) + 1 > Len(iss) /\ \A i \in DOMAIN iss : i \in Ids /\ i <= Len(iss)
  BY <1>2, MaxNat DEF Ids
<1>4. rn[Len(iss) + 1] = << >>
  BY <1>3 DEF RanInv
<1>5. \A i \in Ids : i > Len(js) => i > Len(iss)
  BY <1>1, <1>2, MaxNat DEF Ids
<1>6. \A i \in DOMAIN js : i = Len(iss) + 1 \/ (i \in DOMAIN iss /\ js[i] = iss[i])
  BY <1>1, <1>2
<1>7. \A j : j \notin DOMAIN << >>
  OBVIOUS
<1>8. Len(<< >>) <= 1
  OBVIOUS
<1>9. RanInv(js, rn)
  <2>1. \A i \in Ids : i > Len(js) => rn[i] = << >>
    BY <1>5 DEF RanInv
  <2>2. ASSUME NEW i \in DOMAIN js
        PROVE  /\ js[i].kind = "GET" =>
                    /\ Len(rn[i]) <= 1
                    /\ \A j \in DOMAIN rn[i] : rn[i][j] \in {Rejection, Reply(i)}
               /\ js[i].kind = Monitor =>
                    \A j \in DOMAIN rn[i] :
                      IF j = 1 THEN rn[i][j] \in {Rejection, Reply(i)}
                      ELSE rn[i][j].name = Monitor
               /\ js[i].kind = "SUBSCRIBE" =>
                    \A j \in DOMAIN rn[i] : rn[i][j].name \in js[i].scope
               /\ js[i].kind = "UNSUBSCRIBE" => rn[i] = << >>
    <3>1. CASE i = Len(iss) + 1
      <4>1. rn[i] = << >>
        BY <1>4, <3>1
      <4> QED
        BY <1>7, <1>8, <4>1, Zenon
    <3>2. CASE i \in DOMAIN iss /\ js[i] = iss[i]
      BY <3>2 DEF RanInv
    <3> QED
      BY <1>6, <3>1, <3>2
  <2> QED
    BY <2>1, <2>2 DEF RanInv
<1> QED
  BY <1>1, <1>3, <1>4, <1>9 DEF js

(* Its callback is kept where Register puts it.                            *)
LEMMA IssueKept ==
  ASSUME NEW a \in ContextType, NEW b \in ContextType, NEW iss \in Seq(CommandSet), NEW x \in CommandSet,
         NEW rn, NEW js, NEW id, id = Len(iss) + 1, id \in Ids, rn[id] = << >>,
         js[id] = x, \A i \in DOMAIN iss : js[i] = iss[i] /\ i \in Ids /\ i <= Len(iss),
         Len(js) = id, DOMAIN js = 1 .. id,
         KeptInv(a, iss, rn), WaitInv(a, iss, rn),
         \/ b.replies = a.replies /\ b.invalid = a.invalid /\ x.kind \notin {"GET", Monitor}
         \/ b.replies = Append(a.replies, id) /\ b.invalid = a.invalid /\ x.kind \in {"GET", Monitor}
         \/ b.replies = a.replies /\ b.invalid = Append(a.invalid, id) /\ x.kind = "GET",
         \A e \in Subscriptions(b) :
           e \in Subscriptions(a) \/ (e.val = id /\ x.kind = "SUBSCRIBE" /\ e.key \in x.scope)
  PROVE  KeptInv(b, js, rn) /\ WaitInv(b, js, rn)
<1> DEFINE r == a.replies
           v == a.invalid
           R == b.replies
           V == b.invalid
<1>1. r \in Seq(0 .. MaxCommands) /\ v \in Seq(Ids) /\ id \in 0 .. MaxCommands /\ Len(iss) \in Nat
  BY MaxNat DEF ContextType, Ids
<1>2. /\ \A j \in DOMAIN Append(r, id) : (j \in DOMAIN r /\ Append(r, id)[j] = r[j]) \/ (Append(r, id)[j] = id /\ j = Len(r) + 1)
      /\ \A j \in DOMAIN r : j \in DOMAIN Append(r, id) /\ Append(r, id)[j] = r[j]
      /\ Len(r) + 1 \in DOMAIN Append(r, id) /\ Append(r, id)[Len(r) + 1] = id
  BY <1>1
<1>3. /\ \A j \in DOMAIN Append(v, id) : (j \in DOMAIN v /\ Append(v, id)[j] = v[j]) \/ (Append(v, id)[j] = id /\ j = Len(v) + 1)
      /\ \A j \in DOMAIN v : j \in DOMAIN Append(v, id) /\ Append(v, id)[j] = v[j]
      /\ Len(v) + 1 \in DOMAIN Append(v, id) /\ Append(v, id)[Len(v) + 1] = id
  BY <1>1
<1>4. /\ \A j \in DOMAIN r : r[j] # id
      /\ \A j \in DOMAIN v : v[j] # id
  <2>1. \A j \in DOMAIN r : r[j] = 0 \/ r[j] <= Len(iss)
    BY DEF KeptInv
  <2>2. \A j \in DOMAIN v : v[j] <= Len(iss)
    BY DEF KeptInv
  <2>3. id # 0 /\ ~(id <= Len(iss))
    BY <1>1
  <2> QED
    BY <2>1, <2>2, <2>3
<1>5. \A i \in Ids : i <= Len(iss) => js[i] = iss[i] /\ i <= Len(js)
  BY <1>1 DEF Ids
<1>6. id <= Len(js)
  BY <1>1
<1> HIDE DEF r, v, R, V
<1>7. \A j \in DOMAIN R : (j \in DOMAIN r /\ R[j] = r[j])
                          \/ (R[j] = id /\ j = Len(r) + 1 /\ x.kind \in {"GET", Monitor} /\ V = v)
  BY <1>2 DEF r, v, R, V
<1>8. \A j \in DOMAIN V : (j \in DOMAIN v /\ V[j] = v[j])
                          \/ (V[j] = id /\ j = Len(v) + 1 /\ x.kind = "GET" /\ R = r)
  BY <1>3 DEF r, v, R, V
<1>9. (\A j \in DOMAIN r : j \in DOMAIN R /\ R[j] = r[j]) /\ (\A j \in DOMAIN v : j \in DOMAIN V /\ V[j] = v[j])
  BY <1>2, <1>3 DEF r, v, R, V
<1>10. x.kind \in {"GET", Monitor} => (\E j \in DOMAIN R : R[j] = id) \/ (\E j \in DOMAIN V : V[j] = id)
  BY <1>2, <1>3 DEF r, v, R, V
<1>11. (\A j \in DOMAIN r : r[j] # 0 => r[j] \in Ids) /\ (\A j \in DOMAIN v : v[j] \in Ids)
  BY <1>1, MaxNat DEF Ids
<1>12. ASSUME NEW j \in DOMAIN R, R[j] # 0
       PROVE  /\ R[j] <= Len(js) /\ js[R[j]].kind \in {"GET", Monitor}
              /\ js[R[j]].kind = "GET" =>
                   /\ rn[R[j]] = << >>
                   /\ \A k \in DOMAIN R : R[k] = R[j] => k = j
                   /\ \A k \in DOMAIN V : V[k] # R[j]
  <2>1. CASE j \in DOMAIN r /\ R[j] = r[j]
    <3>1. /\ r[j] <= Len(iss) /\ iss[r[j]].kind \in {"GET", Monitor}
          /\ iss[r[j]].kind = "GET" =>
               /\ rn[r[j]] = << >>
               /\ \A k \in DOMAIN r : r[k] = r[j] => k = j
               /\ \A k \in DOMAIN v : v[k] # r[j]
      BY <1>12, <2>1 DEF KeptInv, r, v
    <3>2. r[j] \in Ids /\ js[r[j]] = iss[r[j]] /\ r[j] <= Len(js) /\ r[j] # id
      BY <1>4, <1>5, <1>11, <1>12, <2>1, <3>1
    <3> QED
      BY <1>7, <1>8, <2>1, <3>1, <3>2
  <2>2. CASE R[j] = id /\ j = Len(r) + 1 /\ x.kind \in {"GET", Monitor} /\ V = v
    <3>1. \A k \in DOMAIN R : R[k] = id => k = j
      BY <1>4, <1>7, <2>2
    <3> QED
      BY <1>4, <1>6, <2>2, <3>1
  <2> QED
    BY <1>7, <2>1, <2>2
<1>13. ASSUME NEW j \in DOMAIN V
       PROVE  /\ V[j] <= Len(js) /\ js[V[j]].kind = "GET"
              /\ rn[V[j]] = << >>
              /\ \A k \in DOMAIN V : V[k] = V[j] => k = j
  <2>1. CASE j \in DOMAIN v /\ V[j] = v[j]
    <3>1. /\ v[j] <= Len(iss) /\ iss[v[j]].kind = "GET" /\ rn[v[j]] = << >>
          /\ \A k \in DOMAIN v : v[k] = v[j] => k = j
      BY <2>1 DEF KeptInv, v
    <3>2. v[j] \in Ids /\ js[v[j]] = iss[v[j]] /\ v[j] <= Len(js) /\ v[j] # id
      BY <1>4, <1>5, <1>11, <2>1, <3>1
    <3> QED
      BY <1>8, <2>1, <3>1, <3>2
  <2>2. CASE V[j] = id /\ j = Len(v) + 1 /\ x.kind = "GET"
    <3>1. \A k \in DOMAIN V : V[k] = id => k = j
      BY <1>4, <1>8, <2>2
    <3> QED
      BY <1>6, <2>2, <3>1
  <2> QED
    BY <1>8, <2>1, <2>2
<1>14. ASSUME NEW e \in Subscriptions(b)
       PROVE  e.val <= Len(js) /\ js[e.val].kind = "SUBSCRIBE" /\ e.key \in js[e.val].scope
  <2>1. CASE e \in Subscriptions(a)
    <3>1. e.val \in Ids
      BY <2>1, NamesOf
    <3> QED
      BY <1>5, <2>1, <3>1 DEF KeptInv
  <2>2. CASE e.val = id /\ x.kind = "SUBSCRIBE" /\ e.key \in x.scope
    BY <1>6, <2>2
  <2> QED
    BY <2>1, <2>2
<1>15. KeptInv(b, js, rn)
  BY <1>12, <1>13, <1>14 DEF KeptInv, R, V
<1>16. ASSUME NEW i \in DOMAIN js, js[i].kind \in {"GET", Monitor}
       PROVE  rn[i] # << >> \/ (\E j \in DOMAIN R : R[j] = i) \/ (\E j \in DOMAIN V : V[j] = i)
  <2>1. CASE i = id
    BY <1>10, <1>16, <2>1
  <2>2. CASE i # id
    <3>1. i \in DOMAIN iss
      BY <1>1, <2>2
    <3>2. rn[i] # << >> \/ (\E j \in DOMAIN r : r[j] = i) \/ (\E j \in DOMAIN v : v[j] = i)
      BY <1>16, <3>1 DEF WaitInv, r, v
    <3> QED
      BY <1>9, <3>2
  <2> QED
    BY <2>1, <2>2
<1>17. WaitInv(b, js, rn)
  BY <1>16 DEF WaitInv, R, V
<1> QED
  BY <1>15, <1>17

(* A command whose callback does not wait with the regular ones.           *)
LEMMA AlignQueue ==
  ASSUME NEW R, NEW r \in Seq(R), NEW w \in Seq(WireType), NEW q \in Seq(SentType), NEW t,
         NEW y \in SentType, AlignInv(r, w, q, t),
         y.kind = "GET" => t # {} \/ \E p \in DOMAIN q : q[p].kind = "SUBSCRIBE"
  PROVE  AlignInv(r, w, Append(q, y), t)
<1> DEFINE h == Append(q, y)
           k == Len(r)
           l == Len(w)
           n == Len(q)
<1>1. k \in Nat /\ l \in Nat /\ n \in Nat /\ DOMAIN q = 1 .. n
  OBVIOUS
<1>2. DOMAIN h = 1 .. (n + 1) /\ Len(h) = n + 1 /\ h[n + 1] = y /\ \A i \in 1 .. n : h[i] = q[i]
  BY AppendParts
<1>3. /\ k <= l + n
      /\ \A p \in DOMAIN w : p <= k => w[p] = Reply(r[p])
      /\ \A p \in DOMAIN w : p > k => w[p].type # "reply"
      /\ \A p \in DOMAIN q : l + p <= k => q[p].kind = "GET" /\ q[p].id = r[l + p] /\ t = {}
      /\ \A p \in DOMAIN q : l + p > k /\ q[p].kind = "GET" =>
           t # {} \/ \E i \in 1 .. (p - 1) : q[i].kind = "SUBSCRIBE"
  BY DEF AlignInv
<1> HIDE DEF h, k, l, n
<1>4. ~(l + (n + 1) <= k) /\ k <= l + Len(h)
  BY <1>1, <1>2, <1>3
<1>5. \A p \in DOMAIN h : p = n + 1 \/ (p \in DOMAIN q /\ h[p] = q[p])
  BY <1>1, <1>2
<1>6. \A p \in DOMAIN h : l + p <= k => h[p].kind = "GET" /\ h[p].id = r[l + p] /\ t = {}
  BY <1>3, <1>4, <1>5
<1>7. ASSUME NEW p \in DOMAIN h, l + p > k, h[p].kind = "GET", t = {}
      PROVE  \E i \in 1 .. (p - 1) : h[i].kind = "SUBSCRIBE"
  <2>1. CASE p = n + 1
    <3>1. PICK i \in DOMAIN q : q[i].kind = "SUBSCRIBE"
      BY <1>2, <1>7, <2>1
    <3>2. i \in 1 .. (p - 1) /\ h[i] = q[i]
      BY <1>1, <1>2, <2>1
    <3> QED
      BY <3>1, <3>2
  <2>2. CASE p \in DOMAIN q /\ h[p] = q[p]
    <3>1. PICK i \in 1 .. (p - 1) : q[i].kind = "SUBSCRIBE"
      BY <1>3, <1>7, <2>2
    <3>2. h[i] = q[i]
      BY <1>1, <1>2, <2>2
    <3> QED
      BY <3>1, <3>2
  <2> QED
    BY <1>5, <2>1, <2>2
<1> QED
  BY <1>3, <1>4, <1>6, <1>7 DEF AlignInv, h, k, l

(* A regular command, when all that is on its way has a callback.          *)
LEMMA AlignWait ==
  ASSUME NEW R, NEW r \in Seq(R), NEW w \in Seq(WireType), NEW q \in Seq(SentType), NEW t, t = {},
         NEW y \in SentType, y.kind = "GET", y.id \in R, AlignInv(r, w, q, t), Len(r) = Len(w) + Len(q)
  PROVE  AlignInv(Append(r, y.id), w, Append(q, y), t)
<1> DEFINE h == Append(q, y)
           g == Append(r, y.id)
           k == Len(r)
           l == Len(w)
           n == Len(q)
<1>1. k \in Nat /\ l \in Nat /\ n \in Nat /\ DOMAIN q = 1 .. n /\ DOMAIN w = 1 .. l /\ k = l + n
  OBVIOUS
<1>2. DOMAIN h = 1 .. (n + 1) /\ Len(h) = n + 1 /\ h[n + 1] = y /\ \A i \in 1 .. n : h[i] = q[i]
  BY AppendParts
<1>3. Len(g) = k + 1 /\ g[k + 1] = y.id /\ \A i \in 1 .. k : g[i] = r[i]
  BY AppendParts
<1>4. /\ \A p \in DOMAIN w : p <= k => w[p] = Reply(r[p])
      /\ \A p \in DOMAIN q : l + p <= k => q[p].kind = "GET" /\ q[p].id = r[l + p] /\ t = {}
  BY DEF AlignInv
<1> HIDE DEF h, g, k, l, n
<1>5. \A p \in DOMAIN w : p <= k /\ w[p] = Reply(g[p]) /\ ~(p > Len(g))
  BY <1>1, <1>3, <1>4
<1>6. ASSUME NEW p \in DOMAIN h PROVE h[p].kind = "GET" /\ h[p].id = g[l + p] /\ ~(l + p > Len(g))
  <2>1. CASE p = n + 1
    <3>1. l + p = k + 1
      BY <1>1, <2>1
    <3> QED
      BY <1>1, <1>2, <1>3, <2>1, <3>1
  <2>2. CASE p # n + 1
    <3>1. p \in DOMAIN q /\ h[p] = q[p] /\ l + p <= k /\ l + p \in 1 .. k
      BY <1>1, <1>2, <2>2
    <3> QED
      BY <1>1, <1>3, <1>4, <3>1
  <2> QED
    BY <2>1, <2>2
<1>7. Len(g) <= l + Len(h)
  BY <1>1, <1>2, <1>3
<1> QED
  BY <1>5, <1>6, <1>7 DEF AlignInv, h, g, l

(* Without subscriptions there is a callback for every message and command *)
(* on its way.                                                             *)
LEMMA AllWait ==
  ASSUME NEW a, NEW w, NEW q, NEW s, NEW cl, NEW c, NEW iss, NEW rn,
         Flow(a, w, q, s, cl, c, iss, rn), ~a.monitoring, ~Quiet(w, cl), ~a.subscribed,
         \A p \in DOMAIN w : w[p].type # "unsubscribe", \A p \in DOMAIN q : q[p].kind # "UNSUBSCRIBE"
  PROVE  s \ {Monitor} = {} /\ Len(a.replies) = Len(w) + Len(q)
<1> DEFINE t == s \ {Monitor}
           k == Len(a.replies)
           l == Len(w)
           n == Len(q)
<1>1. /\ a \in ContextType /\ w \in Seq(WireType) /\ q \in Seq(SentType) /\ t \in SUBSET Names
      /\ a.replies \in Seq(0 .. MaxCommands)
  BY DEF Flow, FlowType, ContextType
<1>2. RegularInv(a, w, q, s, iss) /\ AlignInv(a.replies, w, q, t) /\ RejectInv(w, cl, rn) /\ SubsInv(a, w, q, t)
  BY Zenon DEF Flow, OrderInv, CallbackInv
<1>3. AllNames(a) = {}
  BY <1>2 DEF SubsInv, TablesInv
<1>4. t = {} /\ \A m \in Names : ~Asked(q, m)
  BY <1>1, <1>2, <1>3 DEF SubsInv, TablesInv
<1>5. k \in Nat /\ l \in Nat /\ n \in Nat /\ DOMAIN w = 1 .. l /\ DOMAIN q = 1 .. n /\ k <= l + n
  <2>1. k <= l + n
    BY <1>2 DEF AlignInv
  <2> QED
    BY <1>1, <2>1
<1>6. \A p \in DOMAIN w : w[p].type = "reply"
  <2>1. ASSUME NEW p \in DOMAIN w, w[p].type # "reply" PROVE FALSE
    <3>1. w[p] \in WireType
      BY <1>1
    <3>2. w[p].type \in {"error", "message", "subscribe", "unsubscribe"}
      BY <2>1, <3>1 DEF WireType, MessageType, MessageTypes
    <3>3. w[p].name # Monitor
      BY <1>2 DEF RegularInv
    <3>4. ~About(w[p])
      BY <1>2, <1>3 DEF SubsInv, NamedInv
    <3>5. w[p].type = "error"
      BY <3>2, <3>3, <3>4 DEF About
    <3>6. CASE w[p] = Rejection
      BY <1>2, <3>6 DEF RejectInv, Quiet
    <3>7. CASE w[p] # Rejection
      <4>1. PICK r \in p .. Len(w) : w[r].type = "unsubscribe"
        BY <1>2, <1>4, <3>5, <3>7 DEF SubsInv, LateInv
      <4>2. r \in DOMAIN w
        BY <1>5
      <4> QED
        BY <4>1, <4>2
    <3> QED
      BY <3>6, <3>7
  <2> QED
    BY <2>1
<1>7. \A p \in DOMAIN q : q[p].kind = "GET"
  <2>1. ASSUME NEW p \in DOMAIN q, q[p].kind # "GET" PROVE FALSE
    <3>1. q[p] \in SentType
      BY <1>1
    <3>2. q[p].kind = "SUBSCRIBE"
      <4>1. q[p].kind # Monitor
        BY <1>2 DEF RegularInv
      <4> QED
        BY <2>1, <3>1, <4>1, SentParts
    <3>3. q[p].names \in NameLists /\ q[p].scope = Elements(q[p].names)
      BY <3>1, <3>2, SentParts
    <3>4. PICK m \in Names : m \in q[p].scope
      BY <3>3, ListParts
    <3> QED
      BY <1>4, <3>2, <3>4 DEF Asked
  <2> QED
    BY <2>1
<1>8. \A p \in DOMAIN w : p > k => w[p].type # "reply"
  BY <1>2 DEF AlignInv
<1>9. \A p \in DOMAIN q : l + p > k /\ q[p].kind = "GET" =>
        t # {} \/ \E i \in 1 .. (p - 1) : q[i].kind = "SUBSCRIBE"
  BY <1>2 DEF AlignInv
<1>10. \A p \in DOMAIN q : \A i \in 1 .. (p - 1) : i \in DOMAIN q
  BY <1>5
<1>11. \A p \in DOMAIN q : ~(l + p > k)
  BY <1>4, <1>7, <1>9, <1>10
<1>12. \A p \in DOMAIN w : ~(p > k)
  BY <1>6, <1>8
<1> HIDE DEF t, k, l, n
<1>13. k = l + n
  <2>1. CASE n = 0
    <3>1. CASE l = 0
      BY <1>5, <2>1, <3>1
    <3>2. CASE l # 0
      <4>1. l \in DOMAIN w
        BY <1>5, <3>2
      <4>2. ~(l > k)
        BY <1>12, <4>1
      <4> QED
        BY <1>5, <2>1, <4>2
    <3> QED
      BY <3>1, <3>2
  <2>2. CASE n # 0
    <3>1. n \in DOMAIN q
      BY <1>5, <2>2
    <3>2. ~(l + n > k)
      BY <1>11, <3>1
    <3> QED
      BY <1>5, <3>2
  <2> QED
    BY <2>1, <2>2
<1> QED
  BY <1>4, <1>13 DEF t, k, l, n

(* What a command does to the invariant.                                   *)
LEMMA FlowIssue ==
  ASSUME NEW a, NEW w, NEW q, NEW s, NEW cl, NEW c, NEW iss, NEW rn,
         Flow(a, w, q, s, cl, c, iss, rn), NEW x \in CommandSet, Len(iss) < MaxCommands, ~a.monitoring,
         \A p \in DOMAIN w : w[p].type # "unsubscribe", \A p \in DOMAIN q : q[p].kind # "UNSUBSCRIBE",
         x.kind = "UNSUBSCRIBE" =>
           /\ a.subscribed
           /\ \E n \in x.scope : n \in AllNames(a)
           /\ x.names # << >> => Distinct(x.names) /\ \A n \in x.scope : n \in AllNames(a),
         x.kind = Monitor => c = 0 /\ a.replies = << >> /\ ~a.subscribed
  PROVE  LET id == Len(iss) + 1
             b == AsyncCommand(a, x, id)
         IN /\ Flow(b, w, Append(q, Queued(x, id)), s, cl, c, Append(iss, x), rn)
            /\ Elsewhere(a, b, Queued(x, id))
<1> DEFINE t == s \ {Monitor}
           id == Len(iss) + 1
           b == AsyncCommand(a, x, id)
           y == Queued(x, id)
           h == Append(q, y)
           js == Append(iss, x)
<1>1. /\ a \in ContextType /\ w \in Seq(WireType) /\ q \in Seq(SentType)
      /\ t \in SUBSET Names /\ a.replies \in Seq(0 .. MaxCommands)
      /\ iss \in Seq(CommandSet) /\ DictOK(a.channels) /\ DictOK(a.patterns) /\ c \in 0 .. MaxCommands
      /\ a.invalid \in Seq(Ids) /\ a.subscribed \in BOOLEAN
  BY DEF Flow, FlowType, ContextType
<1>2. /\ KeptInv(a, iss, rn) /\ WaitInv(a, iss, rn) /\ RanInv(iss, rn) /\ RejectInv(w, cl, rn)
      /\ SubsInv(a, w, q, t)
  BY Zenon DEF Flow, CallbackInv
<1>3. /\ RanInv(js, rn) /\ id \in Ids /\ rn[id] = << >>
      /\ js \in Seq(CommandSet) /\ Len(js) = id
      /\ js[id] = x
      /\ \A i \in DOMAIN iss : js[i] = iss[i] /\ i \in Ids /\ i <= Len(iss)
      /\ DOMAIN js = 1 .. id
  BY <1>1, <1>2, IssueRan
<1>4. /\ y \in SentType /\ y.kind = x.kind /\ y.names = x.names /\ y.scope = x.scope /\ y.id = id
  BY <1>3, QueuedParts
<1>5. RegularInv(a, w, q, s, iss) /\ (Quiet(w, cl) \/ AlignInv(a.replies, w, q, t))
  BY Zenon DEF Flow, OrderInv
<1>6. /\ h \in Seq(SentType) /\ \A p \in DOMAIN h : h[p] = y \/ (p \in DOMAIN q /\ h[p] = q[p])
  BY <1>1, <1>4, AppendParts
<1>7. AllNames(a) \subseteq Names
  BY <1>1, NamesOf
<1>8. id # 0 /\ Len(js) <= MaxCommands /\ Len(iss) \in Nat /\ DOMAIN iss = 1 .. Len(iss)
  BY <1>1, <1>3, MaxNat DEF Ids
<1> HIDE DEF t, id, b, y, h, js
<1>9. \A n \in Names : n \in AllNames(a) <=> n \in t \/ Asked(q, n)
  BY <1>2 DEF SubsInv, TablesInv, Ending, EndsAfter
<1>10. a.subscribed <=> AllNames(a) # {}
  BY <1>2 DEF SubsInv, TablesInv
<1>15. /\ \A n : n \in AllNames(a) => n \in Names
       /\ y.kind = "UNSUBSCRIBE" =>
            /\ \E n \in y.scope : n \in AllNames(a)
            /\ y.names # << >> => Distinct(y.names) /\ \A n \in y.scope : n \in AllNames(a)
  BY <1>4, <1>7
<1>16. /\ w \in Seq(WireType) /\ q \in Seq(SentType) /\ t \in SUBSET Names /\ y \in SentType
       /\ SubsInv(a, w, q, t)
  BY <1>1, <1>2, <1>4
<1>17. /\ a \in ContextType /\ iss \in Seq(CommandSet) /\ id = Len(iss) + 1 /\ id \in Ids /\ rn[id] = << >>
       /\ js[id] = x /\ (\A i \in DOMAIN iss : js[i] = iss[i] /\ i \in Ids /\ i <= Len(iss))
       /\ Len(js) = id /\ DOMAIN js = 1 .. id
       /\ KeptInv(a, iss, rn) /\ WaitInv(a, iss, rn)
  BY <1>1, <1>2, <1>3, Zenon DEF id
<1>11. CASE x.kind = "GET"
  <2>1. /\ b \in ContextType /\ Elsewhere(a, b, y)
        /\ b.subscribed = a.subscribed /\ b.monitoring = a.monitoring
        /\ b.channels = a.channels /\ b.patterns = a.patterns
        /\ a.subscribed => b.replies = a.replies /\ b.invalid = Append(a.invalid, id)
        /\ ~a.subscribed => b.replies = Append(a.replies, id) /\ b.invalid = a.invalid
    <3>1. a \in ContextType /\ id \in Ids
      BY <1>1, <1>3
    <3> QED
      BY <1>11, <3>1, RegisterGet, Zenon DEF b, y
  <2>2. Subscriptions(b) = Subscriptions(a) /\ AllNames(b) = AllNames(a)
    BY <2>1 DEF Subscriptions, AllNames
  <2>3. SubsInv(b, w, h, t)
    <3>1. \A n \in Names : n \in AllNames(b) <=> n \in AllNames(a) \/ (y.kind = "SUBSCRIBE" /\ n \in y.scope)
      BY <1>4, <1>11, <2>2
    <3>2. b.subscribed <=> AllNames(b) # {}
      BY <1>10, <2>1, <2>2
    <3> QED
      BY <1>15, <1>16, <3>1, <3>2, IssueSubs DEF h
  <2>4. KeptInv(b, js, rn) /\ WaitInv(b, js, rn)
    <3>1. \/ b.replies = a.replies /\ b.invalid = a.invalid /\ x.kind \notin {"GET", Monitor}
          \/ b.replies = Append(a.replies, id) /\ b.invalid = a.invalid /\ x.kind \in {"GET", Monitor}
          \/ b.replies = a.replies /\ b.invalid = Append(a.invalid, id) /\ x.kind = "GET"
      BY <1>11, <2>1, <2>2
    <3>2. \A e \in Subscriptions(b) :
            e \in Subscriptions(a) \/ (e.val = id /\ x.kind = "SUBSCRIBE" /\ e.key \in x.scope)
      BY <2>1, <2>2
    <3>3. b \in ContextType
      BY <2>1
    <3> QED
      BY ONLY <1>17, <3>1, <3>2, <3>3, x \in CommandSet, IssueKept
  <2>5. Quiet(w, cl) \/ AlignInv(b.replies, w, h, t)
    <3>1. CASE Quiet(w, cl)
      BY <3>1
    <3>2. CASE ~Quiet(w, cl) /\ a.subscribed
      <4>1. PICK n \in Names : n \in t \/ Asked(q, n)
        BY <1>7, <1>9, <1>10, <3>2
      <4>2. t # {} \/ \E p \in DOMAIN q : q[p].kind = "SUBSCRIBE"
        BY <4>1 DEF Asked
      <4>3. AlignInv(a.replies, w, h, t)
        BY <1>1, <1>4, <1>5, <3>2, <4>2, AlignQueue DEF h
      <4> QED
        BY <2>1, <3>2, <4>3
    <3>3. CASE ~Quiet(w, cl) /\ ~a.subscribed
      <4>1. t = {} /\ Len(a.replies) = Len(w) + Len(q)
        BY <3>3, AllWait DEF t
      <4>2. y.id \in 0 .. MaxCommands
        BY <1>3, <1>4, MaxNat DEF Ids
      <4>3. AlignInv(Append(a.replies, y.id), w, h, t)
        BY <1>1, <1>4, <1>5, <1>11, <3>3, <4>1, <4>2, AlignWait DEF h
      <4> QED
        BY <1>4, <2>1, <3>3, <4>3
    <3> QED
      BY <1>1, <3>1, <3>2, <3>3
  <2>6. RegularInv(b, w, h, s, js)
    <3>1. \A j \in DOMAIN b.replies : b.replies[j] # 0
      <4>1. \A j \in DOMAIN a.replies : a.replies[j] # 0
        BY <1>5 DEF RegularInv
      <4>2. id \in 0 .. MaxCommands
        BY <1>3, MaxNat DEF Ids
      <4>3. \A j \in DOMAIN Append(a.replies, id) : Append(a.replies, id)[j] = id
              \/ (j \in DOMAIN a.replies /\ Append(a.replies, id)[j] = a.replies[j])
        BY <1>1, <4>2, AppendParts
      <4> QED
        BY <1>1, <1>8, <2>1, <4>1, <4>3
    <3>2. \A i \in DOMAIN js : js[i].kind # Monitor
      <4>1. \A i \in DOMAIN js : i = id \/ i \in DOMAIN iss
        BY <1>3, <1>8 DEF id
      <4>2. \A i \in DOMAIN iss : iss[i].kind # Monitor
        BY <1>5 DEF RegularInv
      <4> QED
        BY <1>3, <1>11, <4>1, <4>2 DEF Monitor
    <3>3. \A p \in DOMAIN h : h[p].kind # Monitor
      <4>1. \A p \in DOMAIN q : q[p].kind # Monitor
        BY <1>5 DEF RegularInv
      <4> QED
        BY <1>4, <1>6, <1>11, <4>1 DEF Monitor
    <3> QED
      BY <1>5, <3>1, <3>2, <3>3 DEF RegularInv
  <2>7. OrderInv(b, w, h, s, cl, c, js, rn)
    BY <2>1, <2>5, <2>6, Zenon DEF OrderInv, t
  <2>8. FlowType(b, w, h, s, cl, c, js, rn)
    BY <1>3, <1>6, <1>8, <2>1 DEF Flow, FlowType
  <2>9. CallbackInv(b, w, cl, js, rn)
    BY <1>2, <1>3, <2>4, Zenon DEF CallbackInv
  <2> QED
    BY <2>1, <2>3, <2>7, <2>8, <2>9, Zenon DEF Flow, b, y, h, js, id, t
<1>12. CASE x.kind = "SUBSCRIBE" \/ x.kind = "UNSUBSCRIBE"
  <2>1. /\ b \in ContextType /\ Elsewhere(a, b, y) /\ DictOK(b.channels) /\ DictOK(b.patterns)
        /\ ~b.monitoring /\ b.replies = a.replies /\ b.invalid = a.invalid
        /\ b.subscribed <=> AllNames(b) # {}
        /\ \A e \in Subscriptions(b) :
             e \in Subscriptions(a) \/ (e.val = id /\ x.kind = "SUBSCRIBE" /\ e.key \in x.scope)
        /\ \A n \in Names : n \in AllNames(b) <=> n \in AllNames(a) \/ (x.kind = "SUBSCRIBE" /\ n \in x.scope)
    <3>1. CASE x.kind = "SUBSCRIBE"
      <4>1. /\ b \in ContextType /\ Elsewhere(a, b, y)
            /\ DictOK(b.channels) /\ DictOK(b.patterns)
            /\ b.subscribed /\ b.monitoring = a.monitoring
            /\ b.replies = a.replies /\ b.invalid = a.invalid
            /\ \A e \in Subscriptions(b) : e \in Subscriptions(a) \/ (e.val = id /\ e.key \in x.scope)
            /\ \A n \in Names : n \in AllNames(b) <=> n \in AllNames(a) \/ n \in x.scope
        BY <1>1, <1>3, <3>1, RegisterSubscribe DEF b, y
      <4>2. \E n \in Names : n \in x.scope
        <5>1. x.names \in NameLists /\ x.scope = Elements(x.names)
          BY <3>1, CommandParts
        <5> QED
          BY <5>1, ListParts
      <4> QED
        BY <3>1, <4>1, <4>2
    <3>2. CASE x.kind = "UNSUBSCRIBE"
      <4>1. b \in ContextType /\ Elsewhere(a, b, y) /\ Same(a, b)
        BY <1>1, <1>3, <3>2, RegisterUnsubscribe DEF b, y
      <4>2. Subscriptions(b) = Subscriptions(a) /\ AllNames(b) = AllNames(a)
        BY <4>1, SameNames
      <4> QED
        BY <1>1, <1>10, <3>2, <4>1, <4>2 DEF Same
    <3> QED
      BY <1>12, <3>1, <3>2
  <2>2. x.kind # "GET" /\ x.kind # Monitor
    BY <1>12 DEF Monitor
  <2>3. SubsInv(b, w, h, t)
    <3>1. \A n \in Names : n \in AllNames(b) <=> n \in AllNames(a) \/ (y.kind = "SUBSCRIBE" /\ n \in y.scope)
      BY <1>4, <2>1
    <3>2. b.subscribed <=> AllNames(b) # {}
      BY <2>1
    <3> QED
      BY <1>15, <1>16, <3>1, <3>2, IssueSubs DEF h
  <2>4. KeptInv(b, js, rn) /\ WaitInv(b, js, rn)
    <3>1. \/ b.replies = a.replies /\ b.invalid = a.invalid /\ x.kind \notin {"GET", Monitor}
          \/ b.replies = Append(a.replies, id) /\ b.invalid = a.invalid /\ x.kind \in {"GET", Monitor}
          \/ b.replies = a.replies /\ b.invalid = Append(a.invalid, id) /\ x.kind = "GET"
      BY <2>1, <2>2
    <3>2. \A e \in Subscriptions(b) :
            e \in Subscriptions(a) \/ (e.val = id /\ x.kind = "SUBSCRIBE" /\ e.key \in x.scope)
      BY <2>1, <2>2
    <3>3. b \in ContextType
      BY <2>1
    <3> QED
      BY ONLY <1>17, <3>1, <3>2, <3>3, x \in CommandSet, IssueKept
  <2>5. Quiet(w, cl) \/ AlignInv(b.replies, w, h, t)
    BY <1>1, <1>4, <1>5, <2>1, <2>2, AlignQueue DEF h
  <2>6. RegularInv(b, w, h, s, js)
    <3>2. \A i \in DOMAIN js : js[i].kind # Monitor
      <4>1. \A i \in DOMAIN js : i = id \/ i \in DOMAIN iss
        BY <1>3, <1>8 DEF id
      <4>2. \A i \in DOMAIN iss : iss[i].kind # Monitor
        BY <1>5 DEF RegularInv
      <4> QED
        BY <1>3, <2>2, <4>1, <4>2
    <3>3. \A p \in DOMAIN h : h[p].kind # Monitor
      <4>1. \A p \in DOMAIN q : q[p].kind # Monitor
        BY <1>5 DEF RegularInv
      <4> QED
        BY <1>4, <1>6, <2>2, <4>1
    <3> QED
      BY <1>5, <2>1, <3>2, <3>3 DEF RegularInv
  <2>7. OrderInv(b, w, h, s, cl, c, js, rn)
    BY <2>1, <2>5, <2>6, Zenon DEF OrderInv, t
  <2>8. FlowType(b, w, h, s, cl, c, js, rn)
    BY <1>3, <1>6, <1>8, <2>1 DEF Flow, FlowType
  <2>9. CallbackInv(b, w, cl, js, rn)
    BY <1>2, <1>3, <2>4, Zenon DEF CallbackInv
  <2> QED
    BY <2>1, <2>3, <2>7, <2>8, <2>9, Zenon DEF Flow, b, y, h, js, id, t
<1>13. CASE x.kind = Monitor
  <2>1. /\ b \in ContextType /\ Elsewhere(a, b, y)
        /\ b.subscribed = a.subscribed /\ b.monitoring
        /\ b.channels = a.channels /\ b.patterns = a.patterns
        /\ b.replies = Append(a.replies, id) /\ b.invalid = a.invalid
    BY <1>1, <1>3, <1>13, RegisterMonitor DEF b, y
  <2>2. Subscriptions(b) = Subscriptions(a) /\ AllNames(b) = AllNames(a)
    BY <2>1 DEF Subscriptions, AllNames
  <2>3. y.kind # "SUBSCRIBE" /\ y.kind # "UNSUBSCRIBE" /\ x.kind # "UNSUBSCRIBE"
    BY <1>4, <1>13 DEF Monitor
  <2>4. SubsInv(b, w, h, t)
    BY <1>1, <1>2, <1>4, <1>7, <1>10, <2>1, <2>2, <2>3, IssueSubs DEF h
  <2>5. KeptInv(b, js, rn) /\ WaitInv(b, js, rn)
    <3>1. x.kind \in {"GET", Monitor}
      BY <1>13
    <3> QED
      BY <1>1, <1>2, <1>3, <2>1, <2>2, <3>1, IssueKept DEF id
  <2>6. c = 0 /\ a.replies = << >> /\ ~a.subscribed
    BY <1>13
  <2>7. b.replies = << id >>
    BY <2>1, <2>6
  <2>8. AllNames(b) = {}
    BY <1>10, <2>2, <2>6
  <2>9. Monitor \notin s /\ t = {}
    <3>1. Monitor \notin s
      BY <1>5 DEF RegularInv
    <3>2. t = {}
      BY <1>1, <1>9, <2>2, <2>8
    <3> QED
      BY <3>1, <3>2
  <2>10. s = {}
    BY <2>9 DEF t
  <2>11. (w = << >> /\ q = << >>) \/ (cl /\ (w = << >> \/ w = << Rejection >>))
    <3>1. CASE Quiet(w, cl)
      BY <3>1 DEF Quiet
    <3>2. CASE ~Quiet(w, cl)
      <4>1. Len(a.replies) = Len(w) + Len(q)
        BY <2>6, <3>2, AllWait
      <4>2. Len(w) \in Nat /\ Len(q) \in Nat /\ (Len(w) = 0 => w = << >>) /\ (Len(q) = 0 => q = << >>)
        BY <1>1
      <4>3. Len(a.replies) = 0
        BY <2>6
      <4> QED
        BY <4>1, <4>2, <4>3
    <3> QED
      BY <3>1, <3>2
  <2>12. MonitorInv(b, w, h, s, cl, c, js, rn)
    <3>1. id > 0 /\ js[id].kind = Monitor
      BY <1>3, <1>8, <1>13 DEF id
    <3>2. \A j \in DOMAIN b.replies : b.replies[j] \in {0, id}
      BY <2>7
    <3>3. b.replies # << >> /\ b.replies[1] = id
      BY <2>7
    <3>4. ASSUME NEW p \in DOMAIN w PROVE p = 1 /\ rn[id] = << >> /\ w[p] \in {Reply(id), Rejection}
      <4>1. w = << Rejection >>
        BY <2>11
      <4> QED
        BY <1>3, <4>1
    <3>5. ASSUME ~cl PROVE Len(h) = 1 /\ h[1].kind = Monitor /\ h[1].id = id /\ w = << >> /\ rn[id] = << >> /\ Monitor \notin s
      <4>1. w = << >> /\ q = << >>
        BY <2>11, <3>5
      <4>2. h = << y >>
        BY <4>1 DEF h
      <4>3. Len(h) = 1 /\ h[1] = y
        BY <4>2
      <4> QED
        BY <1>3, <1>4, <1>13, <2>9, <4>1, <4>3
    <3>6. c \in {0, id} /\ s \subseteq {Monitor} /\ Monitor \notin s
      BY <2>6, <2>10
    <3> QED
      BY <1>3, <2>8, <3>1, <3>2, <3>3, <3>4, <3>5, <3>6 DEF MonitorInv
  <2>13. OrderInv(b, w, h, s, cl, c, js, rn)
    BY <2>1, <2>12, Zenon DEF OrderInv
  <2>14. FlowType(b, w, h, s, cl, c, js, rn)
    BY <1>3, <1>6, <1>8, <2>1 DEF Flow, FlowType
  <2>15. CallbackInv(b, w, cl, js, rn)
    BY <1>2, <1>3, <2>5, Zenon DEF CallbackInv
  <2> QED
    BY <2>1, <2>4, <2>13, <2>14, <2>15, Zenon DEF Flow, b, y, h, js, id, t
<1>14. x.kind \in {"GET", Monitor, "SUBSCRIBE", "UNSUBSCRIBE"}
  BY CommandParts
<1> QED
  BY <1>11, <1>12, <1>13, <1>14

-------------------------------------------------------------------------------
(* A reply is processed.                                                   *)

(* Callback i, if it is one, has been run with m.                          *)
Ran(rn, i, m) == IF i = 0 THEN rn ELSE [rn EXCEPT ![i] = Append(@, m)]

(* The history when a callback is run once more.                           *)
LEMMA RanParts ==
  ASSUME NEW rn \in [Ids -> Seq(MessageType)], NEW i \in 0 .. MaxCommands, NEW m \in WireType
  PROVE  /\ Ran(rn, i, m) \in [Ids -> Seq(MessageType)]
         /\ \A j \in Ids : j # i => Ran(rn, i, m)[j] = rn[j]
         /\ i # 0 => i \in Ids /\ Ran(rn, i, m)[i] = Append(rn[i], m)
<1>1. m \in MessageType
  BY DEF WireType
<1>2. CASE i = 0
  BY <1>2 DEF Ran
<1>3. CASE i # 0
  <2>1. i \in Ids
    BY <1>3, MaxNat DEF Ids
  <2>2. Append(rn[i], m) \in Seq(MessageType)
    BY <1>1, <2>1, AppendParts
  <2>3. Ran(rn, i, m) = [rn EXCEPT ![i] = Append(rn[i], m)]
    BY <1>3 DEF Ran
  <2> QED
    BY <1>3, <2>1, <2>2, <2>3
<1> QED
  BY <1>2, <1>3

(* A callback that is run with what it may get keeps RanInv.               *)
LEMMA RanStep ==
  ASSUME NEW iss \in Seq(CommandSet), Len(iss) <= MaxCommands,
         NEW rn \in [Ids -> Seq(MessageType)], NEW m \in WireType,
         RanInv(iss, rn), NEW i \in 0 .. MaxCommands, i # 0 => i <= Len(iss),
         i # 0 /\ iss[i].kind = "GET" => rn[i] = << >> /\ m \in {Rejection, Reply(i)},
         i # 0 /\ iss[i].kind = Monitor /\ rn[i] = << >> => m \in {Rejection, Reply(i)},
         i # 0 /\ iss[i].kind = Monitor /\ rn[i] # << >> => m.name = Monitor,
         i # 0 /\ iss[i].kind = "SUBSCRIBE" => m.name \in iss[i].scope,
         i # 0 => iss[i].kind # "UNSUBSCRIBE"
  PROVE  RanInv(iss, Ran(rn, i, m))
<1> DEFINE f == Ran(rn, i, m)
<1>1. \A j \in Ids : j # i => f[j] = rn[j]
  BY RanParts
<1>2. i # 0 => i \in Ids /\ f[i] = Append(rn[i], m) /\ rn[i] \in Seq(MessageType) /\ i \in DOMAIN iss
  <2>1. i # 0 => i \in Ids /\ f[i] = Append(rn[i], m)
    BY RanParts
  <2>2. i # 0 => i \in DOMAIN iss
    OBVIOUS
  <2> HIDE DEF f
  <2> QED
    BY <2>1, <2>2
<1>3. Len(iss) \in Nat /\ DOMAIN iss = 1 .. Len(iss) /\ \A j \in DOMAIN iss : j \in Ids /\ j # 0
  BY MaxNat DEF Ids
<1>4. m \in MessageType
  BY DEF WireType
<1> HIDE DEF f
<1>5. \A j \in Ids : j > Len(iss) => f[j] = << >>
  <2>1. \A j \in Ids : j > Len(iss) => j # i
    BY <1>3, MaxNat DEF Ids
  <2> QED
    BY <1>1, <2>1 DEF RanInv
<1>6. ASSUME NEW j \in DOMAIN iss
      PROVE  /\ iss[j].kind = "GET" =>
                  /\ Len(f[j]) <= 1
                  /\ \A k \in DOMAIN f[j] : f[j][k] \in {Rejection, Reply(j)}
             /\ iss[j].kind = Monitor =>
                  \A k \in DOMAIN f[j] :
                    IF k = 1 THEN f[j][k] \in {Rejection, Reply(j)} ELSE f[j][k].name = Monitor
             /\ iss[j].kind = "SUBSCRIBE" => \A k \in DOMAIN f[j] : f[j][k].name \in iss[j].scope
             /\ iss[j].kind = "UNSUBSCRIBE" => f[j] = << >>
  <2>1. CASE j # i
    <3>1. f[j] = rn[j]
      BY <1>1, <1>3, <2>1
    <3> QED
      BY <3>1 DEF RanInv
  <2>2. CASE j = i
    <3> DEFINE o == rn[i]
               g == Append(o, m)
    <3>1. f[j] = g /\ i # 0 /\ o \in Seq(MessageType)
      BY <1>2, <1>3, <2>2
    <3>2. /\ Len(g) = Len(o) + 1 /\ DOMAIN g = 1 .. (Len(o) + 1) /\ g[Len(o) + 1] = m /\ Len(o) \in Nat
          /\ DOMAIN o = 1 .. Len(o) /\ (Len(o) = 0 <=> o = << >>)
          /\ \A k \in 1 .. Len(o) : g[k] = o[k]
      BY <1>4, <3>1, AppendParts
    <3> HIDE DEF g
    <3>3. \A k \in DOMAIN g : (k = Len(o) + 1 /\ g[k] = m) \/ (k \in DOMAIN o /\ g[k] = o[k])
      BY <3>2
    <3>4. ASSUME iss[i].kind = "GET" PROVE Len(g) <= 1 /\ \A k \in DOMAIN g : g[k] \in {Rejection, Reply(i)}
      <4>1. Len(o) = 0 /\ m \in {Rejection, Reply(i)}
        BY <3>1, <3>2, <3>4
      <4>2. DOMAIN o = {} /\ Len(g) <= 1
        BY <3>2, <4>1
      <4> QED
        BY <3>3, <4>1, <4>2
    <3>5. ASSUME iss[i].kind = Monitor, NEW k \in DOMAIN g
          PROVE  (k = 1 => g[k] \in {Rejection, Reply(i)}) /\ (k # 1 => g[k].name = Monitor)
      <4>1. CASE k = Len(o) + 1 /\ g[k] = m
        <5>1. k = 1 <=> o = << >>
          BY <3>2, <4>1
        <5> QED
          BY <3>1, <3>5, <4>1, <5>1
      <4>2. CASE k \in DOMAIN o /\ g[k] = o[k]
        BY <2>2, <3>5, <4>2 DEF RanInv
      <4> QED
        BY <3>3, <4>1, <4>2
    <3>6. ASSUME iss[i].kind = "SUBSCRIBE", NEW k \in DOMAIN g PROVE g[k].name \in iss[i].scope
      <4>1. CASE g[k] = m
        BY <3>1, <3>6, <4>1
      <4>2. CASE k \in DOMAIN o /\ g[k] = o[k]
        BY <2>2, <3>6, <4>2 DEF RanInv
      <4> QED
        BY <3>3, <4>1, <4>2
    <3> QED
      BY <2>2, <3>1, <3>4, <3>5, <3>6
  <2> QED
    BY <2>1, <2>2
<1> QED
  BY <1>5, <1>6 DEF RanInv, f

(* The rejection is never behind another message.                          *)
LEMMA TailReject ==
  ASSUME NEW w \in Seq(WireType), w # << >>, NEW cl, NEW rn, RejectInv(w, cl, rn), NEW f
  PROVE  RejectInv(Tail(w), cl, f)
<1>1. ASSUME NEW p \in DOMAIN Tail(w), Tail(w)[p] = Rejection PROVE FALSE
  <2>1. p + 1 \in DOMAIN w /\ w[p + 1] = Rejection /\ Len(w) # 1
    BY <1>1, TailParts
  <2>2. w = << Rejection >>
    BY <2>1 DEF RejectInv
  <2> QED
    BY <2>1, <2>2
<1> QED
  BY <1>1 DEF RejectInv

(* Subscriptions, when a message that ends none of them has been taken.    *)
LEMMA TailSubs ==
  ASSUME NEW a, NEW b, NEW w \in Seq(WireType), w # << >>, NEW q, NEW t,
         SubsInv(a, w, q, t), AllNames(b) = AllNames(a), b.subscribed = a.subscribed,
         w[1].type = "unsubscribe" => w[1].name \notin Names
  PROVE  SubsInv(b, Tail(w), q, t)
<1> DEFINE v == Tail(w)
<1>1. /\ v \in Seq(WireType) /\ DOMAIN v = 1 .. (Len(w) - 1) /\ Len(v) = Len(w) - 1
      /\ DOMAIN w = 1 .. Len(w) /\ Len(w) \in Nat \ {0} /\ \A i \in 1 .. (Len(w) - 1) : v[i] = w[i + 1]
  BY TailParts
<1>2. \A n \in Names : Ending(v, n) <=> Ending(w, n)
  BY EndsTail
<1>3. \A n : \A p \in Nat : EndsAfter(v, p, n) <=> EndsAfter(w, p + 1, n)
  BY EndsTail
<1> HIDE DEF v
<1>4. \A p \in DOMAIN v : p + 1 \in DOMAIN w /\ v[p] = w[p + 1] /\ p \in Nat
  BY <1>1
<1>5. TablesInv(b, v, q, t)
  BY <1>2 DEF SubsInv, TablesInv
<1>6. EndingInv(v, q, t)
  <2>1. \A n \in Names : Ending(v, n) => n \notin t /\ q = << >>
    BY <1>2 DEF SubsInv, EndingInv
  <2>2. ASSUME NEW p \in DOMAIN v, v[p].type = "unsubscribe"
        PROVE  v[p].count = Cardinality({n \in Names : n \in t \/ EndsAfter(v, p, n)})
    <3>1. w[p + 1].count = Cardinality({n \in Names : n \in t \/ EndsAfter(w, p + 1, n)})
      BY <1>4, <2>2 DEF SubsInv, EndingInv
    <3>2. {n \in Names : n \in t \/ EndsAfter(v, p, n)} = {n \in Names : n \in t \/ EndsAfter(w, p + 1, n)}
      BY <1>3, <1>4
    <3> QED
      BY <1>4, <3>1, <3>2, Zenon
  <2> QED
    BY <2>1, <2>2 DEF EndingInv
<1>7. NamedInv(b, v)
  <2>1. ASSUME NEW p \in DOMAIN v, About(v[p])
        PROVE  /\ v[p].name \in AllNames(b)
               /\ \A r \in 1 .. (p - 1) : v[r].type = "unsubscribe" => v[r].name # v[p].name
    <3>1. /\ w[p + 1].name \in AllNames(a)
          /\ \A r \in 1 .. ((p + 1) - 1) : w[r].type = "unsubscribe" => w[r].name # w[p + 1].name
      BY <1>4, <2>1 DEF SubsInv, NamedInv
    <3>2. \A r \in 1 .. (p - 1) : r \in DOMAIN v /\ r + 1 \in 1 .. ((p + 1) - 1)
      BY <1>1
    <3> QED
      BY <1>4, <3>1, <3>2
  <2> QED
    BY <2>1 DEF NamedInv
<1>8. LateInv(v, t)
  <2>1. ASSUME NEW p \in DOMAIN v, About(v[p]) \/ (v[p].type = "error" /\ v[p] # Rejection), t = {}
        PROVE  \E r \in p .. Len(v) : v[r].type = "unsubscribe"
    <3>1. PICK r \in (p + 1) .. Len(w) : w[r].type = "unsubscribe"
      BY <1>4, <2>1 DEF SubsInv, LateInv
    <3> DEFINE k == r - 1
    <3>2. k \in p .. Len(v) /\ k \in DOMAIN v /\ k + 1 = r
      BY <1>1
    <3> HIDE DEF k
    <3> QED
      BY <1>4, <3>1, <3>2
  <2> QED
    BY <2>1 DEF LateInv
<1>9. LastInv(v, q, t)
  BY <1>2 DEF SubsInv, LastInv
<1> QED
  BY <1>5, <1>6, <1>7, <1>8, <1>9 DEF SubsInv, v

(* Subscriptions, when the end of one of them has been taken.              *)
LEMMA EndSubs ==
  ASSUME NEW a, NEW b, NEW w \in Seq(WireType), w # << >>, NEW q, NEW t \in SUBSET Names,
         SubsInv(a, w, q, t), AllNames(a) \subseteq Names,
         w[1].type = "unsubscribe", w[1].name \in Names,
         \A n : n \in AllNames(b) <=> n \in AllNames(a) /\ n # w[1].name,
         b.subscribed <=> w[1].count # 0
  PROVE  SubsInv(b, Tail(w), q, t)
<1> DEFINE v == Tail(w)
           k == w[1].name
<1>1. /\ v \in Seq(WireType) /\ DOMAIN v = 1 .. (Len(w) - 1) /\ Len(v) = Len(w) - 1
      /\ DOMAIN w = 1 .. Len(w) /\ Len(w) \in Nat \ {0} /\ \A i \in 1 .. (Len(w) - 1) : v[i] = w[i + 1]
  BY TailParts
<1>2. \A n \in Names : Ending(w, n) <=> n = k \/ Ending(v, n)
  BY EndsTail
<1>3. \A n : \A p \in Nat : EndsAfter(v, p, n) <=> EndsAfter(w, p + 1, n)
  BY EndsTail
<1> HIDE DEF v
<1>4. \A p \in DOMAIN v : p + 1 \in DOMAIN w /\ v[p] = w[p + 1] /\ p \in Nat /\ 1 \in 1 .. ((p + 1) - 1)
  BY <1>1
<1>5. k \notin t /\ q = << >>
  BY <1>2 DEF SubsInv, EndingInv
<1>6. k # Monitor
  BY Bounds
<1>7. ASSUME NEW p \in DOMAIN v, About(v[p]) PROVE v[p].name # k
  BY <1>4, <1>7 DEF SubsInv, NamedInv
<1>8. ~Ending(v, k)
  BY <1>6, <1>7 DEF Ending, EndsAfter, About
<1>9. \A n : ~Asked(q, n)
  BY <1>5, AskedNone
<1>10. \A n \in Names : n \in AllNames(a) <=> n \in t \/ n = k \/ Ending(v, n)
  BY <1>2, <1>9 DEF SubsInv, TablesInv
<1>11. \A n \in Names : n \in AllNames(b) <=> n \in t \/ Ending(v, n)
  BY <1>5, <1>8, <1>10
<1>12. TablesInv(b, v, q, t)
  <2>1. 1 \in DOMAIN w
    BY <1>1
  <2> DEFINE S == {n \in Names : n \in t \/ EndsAfter(w, 1, n)}
  <2>2. w[1].count = Cardinality(S)
    BY <2>1 DEF SubsInv, EndingInv
  <2>3. \A n : EndsAfter(w, 1, n) <=> Ending(v, n)
    BY <1>3 DEF Ending
  <2>4. AllNames(b) = S
    BY <1>11, <2>3
  <2>5. IsFiniteSet(S)
    <3>1. S \subseteq Names /\ IsFiniteSet(Names)
      BY Bounds
    <3> HIDE DEF S
    <3> QED
      BY <3>1, FS_Subset
  <2> HIDE DEF S
  <2>6. Cardinality(S) = 0 <=> S = {}
    BY <2>5, FS_EmptySet
  <2>7. b.subscribed <=> AllNames(b) # {}
    BY <2>2, <2>4, <2>6
  <2> QED
    BY <1>9, <1>11, <2>7 DEF TablesInv
<1>13. EndingInv(v, q, t)
  <2>1. \A n \in Names : Ending(v, n) => n \notin t /\ q = << >>
    BY <1>2 DEF SubsInv, EndingInv
  <2>2. ASSUME NEW p \in DOMAIN v, v[p].type = "unsubscribe"
        PROVE  v[p].count = Cardinality({n \in Names : n \in t \/ EndsAfter(v, p, n)})
    <3>1. w[p + 1].count = Cardinality({n \in Names : n \in t \/ EndsAfter(w, p + 1, n)})
      BY <1>4, <2>2 DEF SubsInv, EndingInv
    <3>2. {n \in Names : n \in t \/ EndsAfter(v, p, n)} = {n \in Names : n \in t \/ EndsAfter(w, p + 1, n)}
      BY <1>3, <1>4
    <3> QED
      BY <1>4, <3>1, <3>2, Zenon
  <2> QED
    BY <2>1, <2>2 DEF EndingInv
<1>14. NamedInv(b, v)
  <2>1. ASSUME NEW p \in DOMAIN v, About(v[p])
        PROVE  /\ v[p].name \in AllNames(b)
               /\ \A r \in 1 .. (p - 1) : v[r].type = "unsubscribe" => v[r].name # v[p].name
    <3>1. /\ w[p + 1].name \in AllNames(a)
          /\ \A r \in 1 .. ((p + 1) - 1) : w[r].type = "unsubscribe" => w[r].name # w[p + 1].name
      BY <1>4, <2>1 DEF SubsInv, NamedInv
    <3>2. \A r \in 1 .. (p - 1) : r \in DOMAIN v /\ r + 1 \in 1 .. ((p + 1) - 1)
      BY <1>1
    <3> QED
      BY <1>4, <1>7, <2>1, <3>1, <3>2
  <2> QED
    BY <2>1 DEF NamedInv
<1>15. LateInv(v, t)
  <2>1. ASSUME NEW p \in DOMAIN v, About(v[p]) \/ (v[p].type = "error" /\ v[p] # Rejection), t = {}
        PROVE  \E r \in p .. Len(v) : v[r].type = "unsubscribe"
    <3>1. PICK r \in (p + 1) .. Len(w) : w[r].type = "unsubscribe"
      BY <1>4, <2>1 DEF SubsInv, LateInv
    <3> DEFINE d == r - 1
    <3>2. d \in p .. Len(v) /\ d \in DOMAIN v /\ d + 1 = r
      BY <1>1
    <3> HIDE DEF d
    <3> QED
      BY <1>4, <3>1, <3>2
  <2> QED
    BY <2>1 DEF LateInv
<1>16. LastInv(v, q, t)
  BY <1>5 DEF LastInv
<1> QED
  BY <1>12, <1>13, <1>14, <1>15, <1>16 DEF SubsInv, v

(* Callback i has been run, if it is one.                                  *)
RunOf(i, rn, f) == (\A j \in Ids : j # i => f[j] = rn[j]) /\ (i # 0 => f[i] # << >>)

(* A regular callback that has been run is gone.                           *)
LEMMA ShiftKept ==
  ASSUME NEW a \in ContextType, NEW b, NEW iss, NEW rn, NEW f, a.replies # << >>,
         b.replies = Tail(a.replies), b.invalid = a.invalid, Subscriptions(b) = Subscriptions(a),
         NEW i, i = a.replies[1], RunOf(i, rn, f),
         KeptInv(a, iss, rn), WaitInv(a, iss, rn), Len(iss) <= MaxCommands, iss \in Seq(CommandSet)
  PROVE  KeptInv(b, iss, f) /\ WaitInv(b, iss, f)
<1> SUFFICES ASSUME \A j \in Ids : j # i => f[j] = rn[j], i # 0 => f[i] # << >>
             PROVE  KeptInv(b, iss, f) /\ WaitInv(b, iss, f)
  BY DEF RunOf
<1> DEFINE r == a.replies
           R == Tail(r)
           v == a.invalid
<1>1. r \in Seq(0 .. MaxCommands) /\ v \in Seq(Ids)
  BY DEF ContextType
<1>2. /\ DOMAIN R = 1 .. (Len(r) - 1) /\ DOMAIN r = 1 .. Len(r) /\ Len(r) \in Nat \ {0}
      /\ \A j \in 1 .. (Len(r) - 1) : R[j] = r[j + 1]
  BY <1>1, TailParts
<1>3. (\A j \in DOMAIN r : r[j] # 0 => r[j] \in Ids) /\ (\A j \in DOMAIN v : v[j] \in Ids)
  BY <1>1, MaxNat DEF Ids
<1> HIDE DEF r, v, R
<1>4. \A j \in DOMAIN R : j + 1 \in DOMAIN r /\ R[j] = r[j + 1] /\ j + 1 # 1 /\ j \in Nat
  BY <1>2
<1>5. 1 \in DOMAIN r /\ r[1] = i
  BY <1>2 DEF r
<1>6. ASSUME NEW j \in DOMAIN R, R[j] # 0
      PROVE  /\ R[j] <= Len(iss) /\ iss[R[j]].kind \in {"GET", Monitor}
             /\ iss[R[j]].kind = "GET" =>
                  /\ f[R[j]] = << >>
                  /\ \A k \in DOMAIN R : R[k] = R[j] => k = j
                  /\ \A k \in DOMAIN v : v[k] # R[j]
  <2>1. /\ r[j + 1] <= Len(iss) /\ iss[r[j + 1]].kind \in {"GET", Monitor}
        /\ iss[r[j + 1]].kind = "GET" =>
             /\ rn[r[j + 1]] = << >>
             /\ \A k \in DOMAIN r : r[k] = r[j + 1] => k = j + 1
             /\ \A k \in DOMAIN v : v[k] # r[j + 1]
    BY <1>4, <1>6 DEF KeptInv, r, v
  <2>2. r[j + 1] \in Ids
    BY <1>3, <1>4, <1>6
  <2>3. iss[r[j + 1]].kind = "GET" => r[j + 1] # i
    BY <1>4, <1>5, <2>1
  <2>4. ASSUME iss[r[j + 1]].kind = "GET", NEW k \in DOMAIN R, R[k] = R[j] PROVE k = j
    <3>1. k + 1 = j + 1
      BY <1>4, <2>1, <2>4
    <3> QED
      BY <1>4, <3>1
  <2> QED
    BY <1>4, <2>1, <2>2, <2>3, <2>4
<1>7. ASSUME NEW j \in DOMAIN v
      PROVE  /\ v[j] <= Len(iss) /\ iss[v[j]].kind = "GET" /\ f[v[j]] = << >>
             /\ \A k \in DOMAIN v : v[k] = v[j] => k = j
  <2>1. /\ v[j] <= Len(iss) /\ iss[v[j]].kind = "GET" /\ rn[v[j]] = << >>
        /\ \A k \in DOMAIN v : v[k] = v[j] => k = j
    BY DEF KeptInv, v
  <2>2. v[j] # i
    <3>1. SUFFICES ASSUME v[j] = i PROVE FALSE
      OBVIOUS
    <3>2. i # 0
      BY <1>3, <3>1, MaxNat DEF Ids
    <3> QED
      BY <1>5, <2>1, <3>1, <3>2 DEF KeptInv, r, v
  <2> QED
    BY <1>3, <2>1, <2>2
<1>8. KeptInv(b, iss, f)
  BY <1>6, <1>7 DEF KeptInv, R, v, r
<1>9. ASSUME NEW k \in DOMAIN iss, iss[k].kind \in {"GET", Monitor}, f[k] = << >>
      PROVE  (\E j \in DOMAIN R : R[j] = k) \/ (\E j \in DOMAIN v : v[j] = k)
  <2>1. k \in Ids /\ k # 0
    BY MaxNat DEF Ids
  <2>2. k # i
    BY <1>9, <2>1
  <2>3. (\E j \in DOMAIN r : r[j] = k) \/ (\E j \in DOMAIN v : v[j] = k)
    BY <1>9, <2>1, <2>2 DEF WaitInv, r, v
  <2>4. ASSUME NEW j \in DOMAIN r, r[j] = k PROVE \E p \in DOMAIN R : R[p] = k
    <3> DEFINE p == j - 1
    <3>1. j # 1
      BY <1>5, <2>2, <2>4
    <3>2. p \in DOMAIN R /\ p + 1 = j
      BY <1>2, <3>1
    <3> HIDE DEF p
    <3> QED
      BY <1>4, <2>4, <3>2
  <2> QED
    BY <2>3, <2>4
<1>10. WaitInv(b, iss, f)
  BY <1>9 DEF WaitInv, R, v, r
<1> QED
  BY <1>8, <1>10

(* A callback that stays where it is has been run.                         *)
LEMMA RanKept ==
  ASSUME NEW a \in ContextType, NEW b, NEW iss \in Seq(CommandSet), Len(iss) <= MaxCommands,
         NEW rn, NEW f, NEW i,
         b.replies = a.replies, b.invalid = a.invalid, Subscriptions(b) \subseteq Subscriptions(a),
         RunOf(i, rn, f), i # 0 => iss[i].kind # "GET",
         KeptInv(a, iss, rn), WaitInv(a, iss, rn)
  PROVE  KeptInv(b, iss, f) /\ WaitInv(b, iss, f)
<1> SUFFICES ASSUME \A j \in Ids : j # i => f[j] = rn[j], i # 0 => f[i] # << >>
             PROVE  KeptInv(b, iss, f) /\ WaitInv(b, iss, f)
  BY DEF RunOf
<1> DEFINE r == a.replies
           v == a.invalid
<1>1. (\A j \in DOMAIN r : r[j] # 0 => r[j] \in Ids) /\ (\A j \in DOMAIN v : v[j] \in Ids /\ v[j] # 0)
  <2>1. r \in Seq(0 .. MaxCommands) /\ v \in Seq(Ids)
    BY DEF ContextType
  <2> QED
    BY <2>1, MaxNat DEF Ids
<1> HIDE DEF r, v
<1>2. ASSUME NEW j \in Ids, j # 0, iss[j].kind = "GET" PROVE f[j] = rn[j]
  BY <1>2
<1>3. ASSUME NEW j \in DOMAIN r, r[j] # 0
      PROVE  /\ r[j] <= Len(iss) /\ iss[r[j]].kind \in {"GET", Monitor}
             /\ iss[r[j]].kind = "GET" =>
                  /\ f[r[j]] = << >>
                  /\ \A k \in DOMAIN r : r[k] = r[j] => k = j
                  /\ \A k \in DOMAIN v : v[k] # r[j]
  <2>1. /\ r[j] <= Len(iss) /\ iss[r[j]].kind \in {"GET", Monitor}
        /\ iss[r[j]].kind = "GET" =>
             /\ rn[r[j]] = << >>
             /\ \A k \in DOMAIN r : r[k] = r[j] => k = j
             /\ \A k \in DOMAIN v : v[k] # r[j]
    BY <1>3 DEF KeptInv, r, v
  <2> QED
    BY <1>1, <1>2, <1>3, <2>1
<1>4. ASSUME NEW j \in DOMAIN v
      PROVE  /\ v[j] <= Len(iss) /\ iss[v[j]].kind = "GET" /\ f[v[j]] = << >>
             /\ \A k \in DOMAIN v : v[k] = v[j] => k = j
  <2>1. /\ v[j] <= Len(iss) /\ iss[v[j]].kind = "GET" /\ rn[v[j]] = << >>
        /\ \A k \in DOMAIN v : v[k] = v[j] => k = j
    BY DEF KeptInv, v
  <2> QED
    BY <1>1, <1>2, <2>1
<1>5. KeptInv(b, iss, f)
  BY <1>3, <1>4 DEF KeptInv, v, r
<1>6. ASSUME NEW k \in DOMAIN iss, iss[k].kind \in {"GET", Monitor}, f[k] = << >>
      PROVE  (\E j \in DOMAIN r : r[j] = k) \/ (\E j \in DOMAIN v : v[j] = k)
  <2>1. k \in Ids /\ k # 0
    BY MaxNat DEF Ids
  <2>2. k # i
    BY <1>6, <2>1
  <2> QED
    BY <1>6, <2>1, <2>2 DEF WaitInv, r, v
<1>7. WaitInv(b, iss, f)
  BY <1>6 DEF WaitInv, v, r
<1> QED
  BY <1>5, <1>7

(* A message in monitor mode.                                              *)
LEMMA MonitorStep ==
  ASSUME NEW a, NEW w, NEW q, NEW s, NEW cl, NEW c, NEW iss, NEW rn,
         Flow(a, w, q, s, cl, c, iss, rn), a.monitoring, w # << >>,
         NEW b \in ContextType, b.invalid = a.invalid, b.channels = a.channels, b.patterns = a.patterns,
         b.subscribed = a.subscribed, b.monitoring = a.monitoring, NEW i,
         \/ a.replies = << >> /\ b.replies = a.replies /\ i = c
         \/ a.replies # << >> /\ b.replies = Tail(a.replies) /\ i = a.replies[1]
  PROVE  Flow(b, Tail(w), q, s, cl, i, iss, Ran(rn, i, w[1]))
<1> DEFINE m == Len(iss)
           x == w[1]
           f == Ran(rn, i, x)
           v == Tail(w)
           r == a.replies
           R == b.replies
<1>1. /\ a \in ContextType /\ DictOK(a.channels) /\ DictOK(a.patterns)
      /\ w \in Seq(WireType) /\ q \in Seq(SentType) /\ c \in 0 .. MaxCommands
      /\ s \in SUBSET (Names \cup {Monitor}) /\ cl \in BOOLEAN
      /\ iss \in Seq(CommandSet) /\ Len(iss) <= MaxCommands /\ rn \in [Ids -> Seq(MessageType)]
  BY DEF Flow, FlowType
<1>2. /\ v \in Seq(WireType) /\ DOMAIN v = 1 .. (Len(w) - 1) /\ Len(w) \in Nat \ {0}
      /\ DOMAIN w = 1 .. Len(w) /\ \A p \in 1 .. (Len(w) - 1) : v[p] = w[p + 1]
      /\ x \in WireType
  BY <1>1, TailParts
<1>3. r \in Seq(0 .. MaxCommands)
  BY <1>1 DEF ContextType
<1>4. r # << >> => /\ Tail(r) \in Seq(0 .. MaxCommands) /\ DOMAIN Tail(r) = 1 .. (Len(r) - 1)
                   /\ \A j \in 1 .. (Len(r) - 1) : Tail(r)[j] = r[j + 1]
                   /\ DOMAIN r = 1 .. Len(r) /\ Len(r) \in Nat \ {0}
  <2> HIDE DEF r
  <2> QED
    BY ONLY <1>3, TailParts
<1>5. MonitorInv(a, w, q, s, cl, c, iss, rn)
  BY Zenon DEF Flow, OrderInv
<1>6. /\ m > 0 /\ iss[m].kind = Monitor /\ AllNames(a) = {} /\ s \subseteq {Monitor}
      /\ (\A j \in DOMAIN r : r[j] \in {0, m}) /\ c \in {0, m}
      /\ rn[m] = << >> => r # << >> /\ r[1] = m
      /\ \A p \in DOMAIN w :
           \/ w[p].name = Monitor /\ (rn[m] = << >> => p > 1)
           \/ p = 1 /\ rn[m] = << >> /\ w[p] \in {Reply(m), Rejection}
      /\ ~cl /\ q # << >> => w = << >>
  BY <1>5, Zenon DEF MonitorInv
<1>7. m \in Nat /\ m \in Ids /\ m # 0 /\ m \in 0 .. MaxCommands
  BY <1>1, <1>6, MaxNat DEF Ids
<1>8. r # << >> => 1 \in DOMAIN r
  BY <1>4
<1>9. i \in {0, m} /\ i \in 0 .. MaxCommands
  BY <1>6, <1>7, <1>8, MaxNat
<1>10. i = 0 => rn[m] # << >>
  BY <1>6, <1>7
<1>11. /\ f \in [Ids -> Seq(MessageType)] /\ (\A j \in Ids : j # i => f[j] = rn[j])
       /\ (i # 0 => i \in Ids /\ f[i] = Append(rn[i], x))
  <2> HIDE DEF x
  <2> QED
    BY ONLY <1>1, <1>2, <1>9, RanParts
<1> HIDE DEF f, v, x
<1>12. i # 0 => f[i] # << >>
  <2>1. i # 0 => rn[i] \in Seq(MessageType)
    BY <1>1, <1>11
  <2>2. x \in MessageType
    BY <1>2 DEF WireType
  <2> QED
    BY <1>11, <2>1, <2>2
<1>13. f[m] # << >>
  BY <1>7, <1>9, <1>10, <1>11, <1>12
<1>14. /\ rn[m] = << >> => x \in {Reply(m), Rejection}
       /\ rn[m] # << >> => x.name = Monitor
  <2>1. 1 \in DOMAIN w /\ ~(1 > 1)
    BY <1>2
  <2> QED
    BY <1>6, <2>1 DEF x
<1>15. x.type = "unsubscribe" => x.name \notin Names
  <2>1. Reply(m).type # "unsubscribe" /\ Rejection.type # "unsubscribe"
    BY DEF Reply, Rejection, Message
  <2> QED
    BY <1>14, <2>1, Bounds
<1>16. Subscriptions(b) = Subscriptions(a) /\ AllNames(b) = AllNames(a)
  BY DEF Subscriptions, AllNames
<1>17. SubsInv(b, v, q, s \ {Monitor})
  <2>1. SubsInv(a, w, q, s \ {Monitor})
    BY DEF Flow
  <2> QED
    BY <1>1, <1>15, <1>16, <2>1, TailSubs DEF v, x
<1>18. FlowType(b, v, q, s, cl, i, iss, f)
  BY <1>1, <1>2, <1>9, <1>11 DEF FlowType
<1>19. \A j \in DOMAIN R : R[j] \in {0, m}
  <2>1. CASE R = r
    BY <1>6, <2>1
  <2>2. CASE r # << >> /\ R = Tail(r)
    <3>1. \A j \in DOMAIN R : j + 1 \in DOMAIN r /\ R[j] = r[j + 1]
      BY <1>4, <2>2
    <3> QED
      BY <1>6, <3>1
  <2> QED
    BY <2>1, <2>2
<1>20. \A p \in DOMAIN v : v[p].name = Monitor
  <2>1. \A p \in DOMAIN v : p + 1 \in DOMAIN w /\ v[p] = w[p + 1] /\ p + 1 # 1
    BY <1>2
  <2> QED
    BY <1>6, <2>1
<1>21. OrderInv(b, v, q, s, cl, i, iss, f)
  <2>1. MonitorInv(b, v, q, s, cl, i, iss, f)
    BY <1>6, <1>9, <1>13, <1>16, <1>19, <1>20 DEF MonitorInv
  <2> QED
    BY <2>1, Zenon DEF OrderInv
<1>22. KeptInv(a, iss, rn) /\ WaitInv(a, iss, rn) /\ RanInv(iss, rn) /\ RejectInv(w, cl, rn)
  BY DEF Flow, CallbackInv
<1>23. KeptInv(b, iss, f) /\ WaitInv(b, iss, f)
  <2>1. RunOf(i, rn, f)
    BY <1>11, <1>12 DEF RunOf
  <2>2. CASE r # << >> /\ R = Tail(r) /\ i = r[1]
    BY <1>1, <1>16, <1>22, <2>1, <2>2, ShiftKept
  <2>3. CASE R = r
    <3>1. i # 0 => iss[i].kind # "GET"
      BY <1>6, <1>9 DEF Monitor
    <3>2. Subscriptions(b) \subseteq Subscriptions(a)
      BY <1>16
    <3> QED
      BY <1>1, <1>22, <2>1, <2>3, <3>1, <3>2, RanKept
  <2> QED
    BY <2>2, <2>3
<1>24. RanInv(iss, f)
  <2>1. i # 0 => i = m /\ i <= Len(iss)
    BY <1>7, <1>9
  <2> QED
    BY <1>1, <1>2, <1>6, <1>9, <1>14, <1>22, <2>1, RanStep DEF f, Monitor
<1>25. RejectInv(v, cl, f)
  BY <1>1, <1>22, TailReject DEF v
<1>26. CallbackInv(b, v, cl, iss, f)
  BY <1>23, <1>24, <1>25 DEF CallbackInv
<1> QED
  BY <1>17, <1>18, <1>21, <1>26, Zenon DEF Flow, f, v, x

(* The order of replies, when one of them has been taken, ...              *)
LEMMA AlignShift ==
  ASSUME NEW R, NEW r \in Seq(R), r # << >>, NEW w \in Seq(WireType), w # << >>,
         NEW q \in Seq(SentType), NEW t, AlignInv(r, w, q, t)
  PROVE  w[1] = Reply(r[1]) /\ AlignInv(Tail(r), Tail(w), q, t)
<1> DEFINE g == Tail(r)
           v == Tail(w)
           k == Len(r)
           l == Len(w)
           n == Len(q)
<1>1. /\ Len(g) = k - 1 /\ k \in Nat \ {0} /\ \A p \in 1 .. (k - 1) : g[p] = r[p + 1]
      /\ Len(v) = l - 1 /\ l \in Nat \ {0} /\ (\A p \in 1 .. (l - 1) : v[p] = w[p + 1])
      /\ DOMAIN v = 1 .. (l - 1) /\ DOMAIN w = 1 .. l /\ DOMAIN q = 1 .. n /\ n \in Nat
  BY TailParts
<1>2. /\ k <= l + n
      /\ \A p \in DOMAIN w : p <= k => w[p] = Reply(r[p])
      /\ \A p \in DOMAIN w : p > k => w[p].type # "reply"
      /\ \A p \in DOMAIN q : l + p <= k => q[p].kind = "GET" /\ q[p].id = r[l + p] /\ t = {}
      /\ \A p \in DOMAIN q : l + p > k /\ q[p].kind = "GET" =>
           t # {} \/ \E j \in 1 .. (p - 1) : q[j].kind = "SUBSCRIBE"
  BY DEF AlignInv
<1> HIDE DEF g, v, k, l, n
<1>3. w[1] = Reply(r[1])
  <2>1. 1 \in DOMAIN w /\ 1 <= k
    BY <1>1
  <2> QED
    BY <1>2, <2>1
<1>4. Len(g) <= Len(v) + n
  BY <1>1, <1>2
<1>5. ASSUME NEW p \in DOMAIN v
      PROVE  (p <= Len(g) => v[p] = Reply(g[p])) /\ (p > Len(g) => v[p].type # "reply")
  <2> DEFINE d == p + 1
  <2>1. d \in DOMAIN w /\ v[p] = w[d] /\ (p <= Len(g) => d <= k /\ g[p] = r[d]) /\ (p > Len(g) => d > k)
    BY <1>1
  <2> HIDE DEF d
  <2> QED
    BY <1>2, <2>1
<1>6. ASSUME NEW p \in DOMAIN q
      PROVE  /\ Len(v) + p <= Len(g) => q[p].kind = "GET" /\ q[p].id = g[Len(v) + p] /\ t = {}
             /\ Len(v) + p > Len(g) /\ q[p].kind = "GET" =>
                  t # {} \/ \E j \in 1 .. (p - 1) : q[j].kind = "SUBSCRIBE"
  <2>1. /\ Len(v) + p <= Len(g) => l + p <= k /\ g[Len(v) + p] = r[l + p]
        /\ Len(v) + p > Len(g) => l + p > k
    <3>1. Len(v) + p + 1 = l + p /\ Len(v) + p \in Nat \ {0}
      BY <1>1
    <3> QED
      BY <1>1, <3>1
  <2> QED
    BY <1>2, <2>1
<1>7. AlignInv(g, v, q, t)
  BY <1>4, <1>5, <1>6 DEF AlignInv, n
<1> QED
  BY <1>3, <1>7 DEF g, v

(* ... and when no regular callback waits for one.                         *)
LEMMA AlignDrop ==
  ASSUME NEW r, r = << >>, NEW w \in Seq(WireType), w # << >>,
         NEW q \in Seq(SentType), NEW t, AlignInv(r, w, q, t)
  PROVE  w[1].type # "reply" /\ AlignInv(r, Tail(w), q, t)
<1> DEFINE v == Tail(w)
           k == Len(r)
           l == Len(w)
           n == Len(q)
<1>1. /\ k = 0 /\ Len(v) = l - 1 /\ l \in Nat \ {0} /\ (\A p \in 1 .. (l - 1) : v[p] = w[p + 1])
      /\ DOMAIN v = 1 .. (l - 1) /\ DOMAIN w = 1 .. l /\ DOMAIN q = 1 .. n /\ n \in Nat
  BY TailParts
<1>2. /\ \A p \in DOMAIN w : p > k => w[p].type # "reply"
      /\ \A p \in DOMAIN q : l + p > k /\ q[p].kind = "GET" =>
           t # {} \/ \E j \in 1 .. (p - 1) : q[j].kind = "SUBSCRIBE"
  BY DEF AlignInv
<1> HIDE DEF v, k, l, n
<1>3. \A p \in DOMAIN w : w[p].type # "reply"
  BY <1>1, <1>2
<1>4. 1 \in DOMAIN w /\ \A p \in DOMAIN v : v[p].type # "reply" /\ ~(p <= k)
  <2>1. \A p \in DOMAIN v : p + 1 \in DOMAIN w /\ v[p] = w[p + 1] /\ ~(p <= k)
    BY <1>1
  <2>2. 1 \in DOMAIN w
    BY <1>1
  <2> QED
    BY <1>3, <2>1, <2>2
<1>5. k <= Len(v) + n /\ \A p \in DOMAIN q : ~(Len(v) + p <= k) /\ l + p > k
  BY <1>1
<1>6. AlignInv(r, v, q, t)
  BY <1>2, <1>4, <1>5 DEF AlignInv, k, n
<1> QED
  BY <1>3, <1>4, <1>6 DEF v

(* The reply to a regular command.                                         *)
LEMMA ReplyStep ==
  ASSUME NEW a, NEW w, NEW q, NEW s, NEW cl, NEW c, NEW iss, NEW rn,
         Flow(a, w, q, s, cl, c, iss, rn), ~a.monitoring, w # << >>,
         NEW b \in ContextType, b.invalid = a.invalid, b.channels = a.channels, b.patterns = a.patterns,
         b.subscribed = a.subscribed, b.monitoring = a.monitoring, NEW i,
         a.replies # << >>, b.replies = Tail(a.replies), i = a.replies[1]
  PROVE  Flow(b, Tail(w), q, s, cl, i, iss, Ran(rn, i, w[1]))
<1> DEFINE x == w[1]
           f == Ran(rn, i, x)
           v == Tail(w)
           r == a.replies
           g == Tail(r)
           t == s \ {Monitor}
<1>1. /\ a \in ContextType /\ DictOK(a.channels) /\ DictOK(a.patterns)
      /\ w \in Seq(WireType) /\ q \in Seq(SentType) /\ c \in 0 .. MaxCommands
      /\ s \in SUBSET (Names \cup {Monitor}) /\ cl \in BOOLEAN
      /\ iss \in Seq(CommandSet) /\ Len(iss) <= MaxCommands /\ rn \in [Ids -> Seq(MessageType)]
  BY DEF Flow, FlowType
<1>2. /\ v \in Seq(WireType) /\ DOMAIN v = 1 .. (Len(w) - 1) /\ Len(w) \in Nat \ {0}
      /\ DOMAIN w = 1 .. Len(w) /\ (\A p \in 1 .. (Len(w) - 1) : v[p] = w[p + 1])
      /\ x \in WireType
  BY <1>1, TailParts
<1>3. r \in Seq(0 .. MaxCommands) /\ r # << >>
  BY <1>1 DEF ContextType
<1> HIDE DEF r
<1>4. /\ g \in Seq(0 .. MaxCommands) /\ DOMAIN g = 1 .. (Len(r) - 1)
      /\ \A j \in 1 .. (Len(r) - 1) : g[j] = r[j + 1]
      /\ DOMAIN r = 1 .. Len(r) /\ Len(r) \in Nat \ {0}
  BY ONLY <1>3, TailParts
<1>5. 1 \in DOMAIN r /\ 1 \in DOMAIN w /\ i \in 0 .. MaxCommands /\ i = r[1]
  <2>1. 1 \in DOMAIN r /\ 1 \in DOMAIN w
    BY <1>2, <1>4
  <2>2. i = r[1]
    BY DEF r
  <2> DEFINE A == 0 .. MaxCommands
  <2>3. r \in Seq(A)
    BY <1>3
  <2> HIDE DEF A
  <2>4. r[1] \in A
    BY <2>1, <2>3
  <2> QED
    BY <2>1, <2>2, <2>4 DEF A
<1>6. RegularInv(a, w, q, s, iss) /\ (Quiet(w, cl) \/ AlignInv(r, w, q, t))
  BY Zenon DEF Flow, OrderInv, r
<1>7. /\ i # 0 /\ Monitor \notin s /\ (\A j \in DOMAIN iss : iss[j].kind # Monitor)
      /\ (\A p \in DOMAIN q : q[p].kind # Monitor) /\ (\A p \in DOMAIN w : w[p].name # Monitor)
      /\ \A j \in DOMAIN r : r[j] # 0
  BY <1>5, <1>6 DEF RegularInv, r
<1>8. KeptInv(a, iss, rn) /\ WaitInv(a, iss, rn) /\ RanInv(iss, rn) /\ RejectInv(w, cl, rn)
  BY DEF Flow, CallbackInv
<1>9. i \in DOMAIN iss /\ i <= Len(iss) /\ iss[i].kind = "GET" /\ rn[i] = << >>
  <2>1. /\ i <= Len(iss) /\ iss[i].kind \in {"GET", Monitor}
        /\ iss[i].kind = "GET" => rn[i] = << >>
    BY <1>5, <1>7, <1>8 DEF KeptInv, r
  <2>2. i \in DOMAIN iss
    BY <1>1, <1>5, <1>7, <2>1, MaxNat
  <2> QED
    BY <1>7, <2>1, <2>2
<1> HIDE DEF t
<1>10. x \in {Rejection, Reply(i)} /\ (Quiet(v, cl) \/ AlignInv(g, v, q, t))
  <2>1. CASE Quiet(w, cl)
    <3>1. w = << Rejection >> /\ cl
      BY <2>1 DEF Quiet
    <3>2. x = Rejection /\ v = << >>
      BY <3>1
    <3> QED
      BY <3>1, <3>2 DEF Quiet
  <2>2. CASE AlignInv(r, w, q, t)
    BY <1>1, <1>3, <1>5, <2>2, AlignShift
  <2> QED
    BY <1>6, <2>1, <2>2
<1>11. /\ f \in [Ids -> Seq(MessageType)] /\ (\A j \in Ids : j # i => f[j] = rn[j])
       /\ i \in Ids /\ f[i] = Append(rn[i], x)
  <2> HIDE DEF x
  <2> QED
    BY <1>1, <1>2, <1>5, <1>7, RanParts
<1> HIDE DEF f, v, x, g
<1>12. RunOf(i, rn, f)
  <2>1. rn[i] \in Seq(MessageType) /\ x \in MessageType
    BY <1>1, <1>2, <1>11 DEF WireType
  <2>2. f[i] # << >>
    BY <1>11, <2>1
  <2> QED
    BY <1>11, <2>2 DEF RunOf
<1>13. Subscriptions(b) = Subscriptions(a) /\ AllNames(b) = AllNames(a)
  BY DEF Subscriptions, AllNames
<1>14. SubsInv(b, v, q, t)
  <2>1. x.type # "unsubscribe"
    <3>1. Reply(i).type # "unsubscribe" /\ Rejection.type # "unsubscribe"
      BY DEF Reply, Rejection, Message
    <3> QED
      BY <1>10, <3>1
  <2>2. SubsInv(a, w, q, t)
    BY DEF Flow, t
  <2> QED
    BY <1>1, <1>13, <2>1, <2>2, TailSubs DEF v, x
<1>15. FlowType(b, v, q, s, cl, i, iss, f)
  BY <1>1, <1>2, <1>5, <1>11 DEF FlowType
<1>16. OrderInv(b, v, q, s, cl, i, iss, f)
  <2>1. \A j \in DOMAIN g : g[j] # 0
    <3>1. \A j \in DOMAIN g : j + 1 \in DOMAIN r /\ g[j] = r[j + 1]
      BY <1>4
    <3> QED
      BY <1>7, <3>1
  <2>2. \A p \in DOMAIN v : v[p].name # Monitor
    <3>1. \A p \in DOMAIN v : p + 1 \in DOMAIN w /\ v[p] = w[p + 1]
      BY <1>2
    <3> QED
      BY <1>7, <3>1
  <2>3. b.replies = g
    BY DEF g, r
  <2>4. RegularInv(b, v, q, s, iss)
    BY <1>7, <2>1, <2>2, <2>3 DEF RegularInv
  <2> QED
    BY <1>10, <2>3, <2>4, Zenon DEF OrderInv, t
<1>17. KeptInv(b, iss, f) /\ WaitInv(b, iss, f)
  BY <1>1, <1>3, <1>8, <1>12, <1>13, ShiftKept
<1>18. RanInv(iss, f)
  BY <1>1, <1>2, <1>5, <1>8, <1>9, <1>10, RanStep DEF f, Monitor
<1>19. RejectInv(v, cl, f)
  BY <1>1, <1>8, TailReject DEF v
<1>20. CallbackInv(b, v, cl, iss, f)
  BY <1>17, <1>18, <1>19 DEF CallbackInv
<1> QED
  BY <1>14, <1>15, <1>16, <1>20, Zenon DEF Flow, f, v, x, t

(* A message that no regular callback waits for is about a name, which is  *)
(* in the tables with the callback of a SUBSCRIBE.                         *)
LEMMA NamedMessage ==
  ASSUME NEW a, NEW w, NEW q, NEW s, NEW cl, NEW c, NEW iss, NEW rn,
         Flow(a, w, q, s, cl, c, iss, rn), ~a.monitoring, w # << >>,
         a.replies = << >>, w[1].type # "error"
  PROVE  /\ a.subscribed /\ w[1].name \in Names /\ w[1].name \in AllNames(a)
         /\ w[1].type \notin {"reply", "error"}
         /\ AlignInv(a.replies, w, q, s \ {Monitor})
         /\ \A e \in Subscriptions(a) : /\ e.val \in Ids /\ e.val <= Len(iss)
                                        /\ iss[e.val].kind = "SUBSCRIBE" /\ e.key \in iss[e.val].scope
<1> DEFINE t == s \ {Monitor}
           x == w[1]
<1>1. /\ a \in ContextType /\ w \in Seq(WireType) /\ q \in Seq(SentType)
  BY DEF Flow, FlowType
<1>2. 1 \in DOMAIN w /\ x \in WireType
  BY <1>1
<1>3. RegularInv(a, w, q, s, iss) /\ (Quiet(w, cl) \/ AlignInv(a.replies, w, q, t))
  BY Zenon DEF Flow, OrderInv
<1>4. ~Quiet(w, cl)
  <2>1. << Rejection >>[1].type = "error"
    BY DEF Rejection, Message
  <2> QED
    BY <2>1 DEF Quiet
<1> HIDE DEF t
<1>5. AlignInv(a.replies, w, q, t)
  BY <1>3, <1>4
<1>6. x.type # "reply"
  BY <1>1, <1>5, AlignDrop
<1>7. x.name # Monitor
  BY <1>2, <1>3 DEF RegularInv
<1>8. About(x)
  <2>1. x.type \in MessageTypes
    BY <1>2 DEF WireType, MessageType
  <2> QED
    BY <1>6, <1>7, <2>1 DEF About, MessageTypes
<1>9. SubsInv(a, w, q, t)
  BY DEF Flow, t
<1>10. x.name \in AllNames(a)
  BY <1>2, <1>8, <1>9 DEF SubsInv, NamedInv
<1>11. a.subscribed
  BY <1>9, <1>10 DEF SubsInv, TablesInv
<1>12. x.name \in Names /\ \A e \in Subscriptions(a) : e.val \in Ids
  BY <1>1, <1>10, NamesOf
<1>13. KeptInv(a, iss, rn)
  BY DEF Flow, CallbackInv
<1> QED
  BY <1>5, <1>6, <1>10, <1>11, <1>12, <1>13 DEF KeptInv, t

(* A message for a subscription.                                           *)
LEMMA MessageStep ==
  ASSUME NEW a, NEW w, NEW q, NEW s, NEW cl, NEW c, NEW iss, NEW rn,
         Flow(a, w, q, s, cl, c, iss, rn), ~a.monitoring, w # << >>,
         a.replies = << >>, w[1].type # "error",
         NEW b \in ContextType, DictOK(b.channels), DictOK(b.patterns),
         b.replies = a.replies, b.invalid = a.invalid, b.monitoring = a.monitoring,
         w[1].type # "unsubscribe" => b = a,
         w[1].type = "unsubscribe" =>
           /\ b.subscribed <=> w[1].count # 0
           /\ Subscriptions(b) = {e \in Subscriptions(a) : e.key # w[1].name},
         NEW d \in Subscriptions(a), d.key = w[1].name, NEW i, i = d.val
  PROVE  Flow(b, Tail(w), q, s, cl, i, iss, Ran(rn, i, w[1]))
<1> DEFINE x == w[1]
           f == Ran(rn, i, x)
           v == Tail(w)
           t == s \ {Monitor}
<1>1. /\ a \in ContextType /\ DictOK(a.channels) /\ DictOK(a.patterns)
      /\ w \in Seq(WireType) /\ q \in Seq(SentType) /\ c \in 0 .. MaxCommands
      /\ s \in SUBSET (Names \cup {Monitor}) /\ cl \in BOOLEAN
      /\ iss \in Seq(CommandSet) /\ Len(iss) <= MaxCommands /\ rn \in [Ids -> Seq(MessageType)]
  BY DEF Flow, FlowType
<1>2. /\ v \in Seq(WireType) /\ DOMAIN v = 1 .. (Len(w) - 1) /\ Len(w) \in Nat \ {0}
      /\ DOMAIN w = 1 .. Len(w) /\ (\A p \in 1 .. (Len(w) - 1) : v[p] = w[p + 1])
      /\ x \in WireType
  BY <1>1, TailParts
<1>3. /\ a.subscribed /\ x.name \in Names /\ x.name \in AllNames(a)
      /\ x.type \notin {"reply", "error"} /\ AlignInv(a.replies, w, q, t)
      /\ i \in Ids /\ i <= Len(iss) /\ iss[i].kind = "SUBSCRIBE" /\ x.name \in iss[i].scope
  BY NamedMessage
<1>4. i \in 0 .. MaxCommands /\ i # 0
  BY <1>3, MaxNat DEF Ids
<1>5. RegularInv(a, w, q, s, iss)
  BY Zenon DEF Flow, OrderInv
<1>6. KeptInv(a, iss, rn) /\ WaitInv(a, iss, rn) /\ RanInv(iss, rn) /\ RejectInv(w, cl, rn)
  BY DEF Flow, CallbackInv
<1> HIDE DEF t
<1>7. /\ f \in [Ids -> Seq(MessageType)] /\ (\A j \in Ids : j # i => f[j] = rn[j])
      /\ f[i] = Append(rn[i], x)
  <2> HIDE DEF x
  <2> QED
    BY <1>1, <1>2, <1>4, RanParts
<1> HIDE DEF f, v, x
<1>8. RunOf(i, rn, f)
  <2>1. rn[i] \in Seq(MessageType) /\ x \in MessageType
    BY <1>1, <1>2, <1>3 DEF WireType
  <2>2. f[i] # << >>
    BY <1>7, <2>1
  <2> QED
    BY <1>7, <2>2 DEF RunOf
<1>9. SubsInv(b, v, q, t)
  <2>1. SubsInv(a, w, q, t)
    BY DEF Flow, t
  <2>2. CASE x.type # "unsubscribe"
    <3>1. b = a
      BY <2>2 DEF x
    <3> QED
      BY <1>1, <2>1, <2>2, <3>1, TailSubs DEF v, x
  <2>3. CASE x.type = "unsubscribe"
    <3>1. /\ b.subscribed <=> x.count # 0
          /\ Subscriptions(b) = {e \in Subscriptions(a) : e.key # x.name}
      BY <2>3 DEF x
    <3>2. \A n : n \in AllNames(b) <=> n \in AllNames(a) /\ n # x.name
      BY <3>1 DEF AllNames
    <3>3. AllNames(a) \subseteq Names /\ t \in SUBSET Names
      BY <1>1, NamesOf DEF t
    <3> QED
      BY <1>1, <1>3, <2>1, <2>3, <3>1, <3>2, <3>3, EndSubs DEF v, x
  <2> QED
    BY <2>2, <2>3
<1>10. FlowType(b, v, q, s, cl, i, iss, f)
  BY <1>1, <1>2, <1>4, <1>7 DEF FlowType
<1>11. OrderInv(b, v, q, s, cl, i, iss, f)
  <2>1. \A p \in DOMAIN v : v[p].name # Monitor
    <3>1. \A p \in DOMAIN v : p + 1 \in DOMAIN w /\ v[p] = w[p + 1]
      BY <1>2
    <3> QED
      BY <1>5, <3>1 DEF RegularInv
  <2>2. RegularInv(b, v, q, s, iss)
    BY <1>5, <2>1 DEF RegularInv
  <2>3. AlignInv(b.replies, v, q, t)
    BY <1>1, <1>3, AlignDrop DEF v
  <2> QED
    BY <2>2, <2>3, Zenon DEF OrderInv, t
<1>12. KeptInv(b, iss, f) /\ WaitInv(b, iss, f)
  <2>1. Subscriptions(b) \subseteq Subscriptions(a)
    OBVIOUS
  <2> QED
    BY <1>1, <1>3, <1>6, <1>8, <2>1, RanKept
<1>13. RanInv(iss, f)
  BY <1>1, <1>2, <1>3, <1>4, <1>6, RanStep DEF f, Monitor
<1>14. RejectInv(v, cl, f)
  BY <1>1, <1>6, TailReject DEF v
<1>15. CallbackInv(b, v, cl, iss, f)
  BY <1>12, <1>13, <1>14 DEF CallbackInv
<1> QED
  BY <1>9, <1>10, <1>11, <1>15, Zenon DEF Flow, f, v, x, t

(* What a reply leaves alone.                                              *)
Rest(a, b) ==
  /\ b.state = a.state /\ b.err = a.err /\ b.connected = a.connected
  /\ b.disconnecting = a.disconnecting /\ b.freeing = a.freeing /\ b.obuf = a.obuf

Removed(a, n, y) ==
  [a EXCEPT ![IF n \in Patterns THEN "patterns" ELSE "channels"] = dictDelete(@, n), !.subscribed = y]

(* __redisGetSubscribeCallback removes just the name that ends.            *)
LEMMA RemoveName ==
  ASSUME NEW a \in ContextType, DictOK(a.channels), DictOK(a.patterns), NEW n \in Names, NEW y \in BOOLEAN,
         NEW b, b = Removed(a, n, y)
  PROVE  /\ b \in ContextType /\ DictOK(b.channels) /\ DictOK(b.patterns)
         /\ b.replies = a.replies /\ b.invalid = a.invalid /\ b.monitoring = a.monitoring
         /\ b.subscribed = y /\ Rest(a, b)
         /\ Subscriptions(b) = {e \in Subscriptions(a) : e.key # n}
<1>1. a.channels \in DictType(Channels) /\ a.patterns \in DictType(Patterns)
  BY DEF ContextType
<1>2. Channels \in SUBSET Names /\ Patterns \in SUBSET Names /\ Channels \cap Patterns = {}
  BY Bounds DEF Names
<1>3. CASE n \in Patterns
  <2> DEFINE h == dictDelete(a.patterns, n)
  <2>1. h \in DictType(Patterns) /\ DictOK(h) /\ dictEntries(h) = {e \in dictEntries(a.patterns) : e.key # n}
    BY ONLY <1>1, <1>2, <1>3, DictOK(a.patterns), DeleteEntry
  <2>2. \A e \in dictEntries(a.channels) : e.key # n
    BY <1>2, <1>3, NamesOf
  <2> HIDE DEF h
  <2>3. b = [a EXCEPT !.patterns = h, !.subscribed = y]
    BY <1>3 DEF h, Removed
  <2>4. /\ b \in ContextType /\ b.channels = a.channels /\ b.patterns = h
        /\ b.replies = a.replies /\ b.invalid = a.invalid /\ b.monitoring = a.monitoring
        /\ b.subscribed = y /\ Rest(a, b)
    BY <2>1, <2>3 DEF ContextType, Rest
  <2> QED
    BY <2>1, <2>2, <2>4 DEF Subscriptions
<1>4. CASE n \notin Patterns
  <2> DEFINE h == dictDelete(a.channels, n)
  <2>1. n \in Channels
    BY <1>4 DEF Names
  <2>2. h \in DictType(Channels) /\ DictOK(h) /\ dictEntries(h) = {e \in dictEntries(a.channels) : e.key # n}
    BY <1>1, <1>2, <2>1, DeleteEntry
  <2>3. \A e \in dictEntries(a.patterns) : e.key # n
    BY <1>4, NamesOf
  <2> HIDE DEF h
  <2>4. b = [a EXCEPT !.channels = h, !.subscribed = y]
    BY <1>4 DEF h, Removed
  <2>5. /\ b \in ContextType /\ b.patterns = a.patterns /\ b.channels = h
        /\ b.replies = a.replies /\ b.invalid = a.invalid /\ b.monitoring = a.monitoring
        /\ b.subscribed = y /\ Rest(a, b)
    BY <2>2, <2>4 DEF ContextType, Rest
  <2> QED
    BY <2>2, <2>3, <2>5 DEF Subscriptions
<1> QED
  BY <1>3, <1>4

(* The context without its first callback for a reply.                     *)
LEMMA TakeReply ==
  ASSUME NEW a \in ContextType, a.replies # << >>, NEW b, b = [a EXCEPT !.replies = Tail(@)]
  PROVE  /\ b \in ContextType /\ b.replies = Tail(a.replies) /\ b.invalid = a.invalid
         /\ b.channels = a.channels /\ b.patterns = a.patterns
         /\ b.subscribed = a.subscribed /\ b.monitoring = a.monitoring /\ Rest(a, b)
<1> DEFINE A == 0 .. MaxCommands
           r == a.replies
           g == Tail(r)
<1>1. r \in Seq(A)
  BY DEF ContextType
<1>2. g \in Seq(A)
  <2> HIDE DEF A, r
  <2> QED
    BY <1>1 DEF r
<1> HIDE DEF g
<1>3. b = [a EXCEPT !.replies = g]
  BY DEF g
<1> QED
  BY <1>2, <1>3 DEF ContextType, Rest, g

(* A reply is taken: redisProcessCallbacks finds a callback for it, or the *)
(* context is in monitor mode, and the invariant holds after it.           *)
LEMMA FlowShift ==
  ASSUME NEW a, NEW w, NEW q, NEW s, NEW cl, NEW c, NEW iss, NEW rn,
         Flow(a, w, q, s, cl, c, iss, rn), w # << >>,
         a.replies # << >> \/ w[1].type # "error"
  PROVE  /\ a.replies # << >> \/ a.subscribed \/ a.monitoring
         /\ LET h == Shift(a, w[1], c)
            IN /\ Flow(h[1], Tail(w), q, s, cl, h[2], iss, Ran(rn, h[2], w[1]))
               /\ h[1] \in ContextType /\ Rest(a, h[1])
<1> DEFINE x == w[1]
           h == Shift(a, x, c)
           Goal == /\ Flow(h[1], Tail(w), q, s, cl, h[2], iss, Ran(rn, h[2], x))
                   /\ h[1] \in ContextType /\ Rest(a, h[1])
<1>1. /\ a \in ContextType /\ DictOK(a.channels) /\ DictOK(a.patterns)
      /\ w \in Seq(WireType) /\ c \in 0 .. MaxCommands
  BY DEF Flow, FlowType
<1>2. Rest(a, a)
  BY DEF Rest
<1>3. CASE a.replies # << >>
  <2> DEFINE b == [a EXCEPT !.replies = Tail(@)]
             i == a.replies[1]
  <2>1. h = << b, i >>
    <3>1. Head(a.replies) = a.replies[1]
      <4>1. a.replies \in Seq(0 .. MaxCommands)
        BY <1>1 DEF ContextType
      <4> QED
        BY <4>1
    <3> QED
      BY <1>3, <3>1 DEF Shift
  <2>2. /\ b \in ContextType /\ b.replies = Tail(a.replies) /\ b.invalid = a.invalid
        /\ b.channels = a.channels /\ b.patterns = a.patterns
        /\ b.subscribed = a.subscribed /\ b.monitoring = a.monitoring /\ Rest(a, b)
    BY <1>1, <1>3, TakeReply
  <2> HIDE DEF b, i, h
  <2>3. i = a.replies[1]
    BY DEF i
  <2>4. Flow(b, Tail(w), q, s, cl, i, iss, Ran(rn, i, x))
    <3>1. CASE a.monitoring
      BY <1>3, <2>2, <2>3, <3>1, MonitorStep
    <3>2. CASE ~a.monitoring
      BY <1>3, <2>2, <2>3, <3>2, ReplyStep
    <3> QED
      BY <3>1, <3>2
  <2>5. h[1] = b /\ h[2] = i
    BY <2>1
  <2>6. Goal
    BY <2>2, <2>4, <2>5
  <2> QED
    BY <1>3, <2>6 DEF h
<1>4. CASE a.replies = << >> /\ a.monitoring
  <2>1. ~a.subscribed
    <3>1. MonitorInv(a, w, q, s, cl, c, iss, rn)
      BY <1>4, Zenon DEF Flow, OrderInv
    <3>2. AllNames(a) = {}
      BY <3>1, Zenon DEF MonitorInv
    <3> QED
      BY <3>2 DEF Flow, SubsInv, TablesInv
  <2>2. h = << a, c >>
    BY <1>4, <2>1 DEF Shift
  <2> HIDE DEF h
  <2>3. Flow(a, Tail(w), q, s, cl, c, iss, Ran(rn, c, x))
    BY <1>1, <1>4, MonitorStep
  <2>4. h[1] = a /\ h[2] = c
    BY <2>2
  <2>5. Goal
    BY <1>1, <1>2, <2>3, <2>4
  <2> QED
    BY <1>4, <2>5 DEF h
<1>5. CASE a.replies = << >> /\ ~a.monitoring
  <2> DEFINE n == x.name
             found == dictFind(IF n \in Patterns THEN a.patterns ELSE a.channels, n)
             d == CHOOSE e \in found : TRUE
             R == [a EXCEPT ![IF n \in Patterns THEN "patterns" ELSE "channels"] = dictDelete(@, n),
                            !.subscribed = (x.count # 0)]
             b == IF x.type = "unsubscribe" THEN R ELSE a
  <2>1. /\ a.subscribed /\ n \in Names /\ n \in AllNames(a) /\ x.type \notin {"reply", "error"}
    BY <1>5, NamedMessage
  <2>2. found = {e \in Subscriptions(a) : e.key = n}
    BY <1>1, <2>1, NameFound
  <2>3. d \in Subscriptions(a) /\ d.key = n /\ found # {}
    <3>1. \E e \in Subscriptions(a) : e.key = n
      BY <1>1, <2>1, NamesOf
    <3> HIDE DEF found
    <3> QED
      BY <2>2, <3>1
  <2>4. h = << b, d.val >>
    <3>1. h = SubscribeCallback(a, x, c)
      BY <1>5, <2>1 DEF Shift
    <3>2. a[IF n \in Patterns THEN "patterns" ELSE "channels"] = IF n \in Patterns THEN a.patterns ELSE a.channels
      OBVIOUS
    <3> QED
      BY <2>1, <2>3, <3>1, <3>2, Zenon DEF SubscribeCallback
  <2>5. (x.count # 0) \in BOOLEAN
    OBVIOUS
  <2>6. /\ R \in ContextType /\ DictOK(R.channels) /\ DictOK(R.patterns)
        /\ R.replies = a.replies /\ R.invalid = a.invalid /\ R.monitoring = a.monitoring
        /\ (R.subscribed <=> x.count # 0) /\ Rest(a, R)
        /\ Subscriptions(R) = {e \in Subscriptions(a) : e.key # n}
    <3> DEFINE y == x.count # 0
    <3>1. R = Removed(a, n, y)
      BY DEF Removed
    <3>2. y \in BOOLEAN
      OBVIOUS
    <3> HIDE DEF y, R, n
    <3>3. R.subscribed = y /\ R \in ContextType /\ DictOK(R.channels) /\ DictOK(R.patterns)
          /\ R.replies = a.replies /\ R.invalid = a.invalid /\ R.monitoring = a.monitoring
          /\ Rest(a, R) /\ Subscriptions(R) = {e \in Subscriptions(a) : e.key # n}
      BY ONLY <1>1, <2>1, <3>1, <3>2, RemoveName
    <3> QED
      BY <3>3 DEF y
  <2> HIDE DEF found, d, R, h
  <2>7. /\ b \in ContextType /\ DictOK(b.channels) /\ DictOK(b.patterns)
        /\ b.replies = a.replies /\ b.invalid = a.invalid /\ b.monitoring = a.monitoring /\ Rest(a, b)
        /\ (x.type # "unsubscribe" => b = a)
        /\ x.type = "unsubscribe" =>
             /\ b.subscribed <=> x.count # 0
             /\ Subscriptions(b) = {e \in Subscriptions(a) : e.key # n}
    BY <1>1, <1>2, <2>6
  <2> DEFINE i == d.val
  <2> HIDE DEF b, i
  <2>8. Flow(b, Tail(w), q, s, cl, i, iss, Ran(rn, i, x))
    <3>1. i = d.val /\ x.type # "error"
      BY <1>5 DEF i
    <3> QED
      BY <1>5, <2>3, <2>7, <3>1, MessageStep
  <2>9. h[1] = b /\ h[2] = i
    BY <2>4 DEF i
  <2>10. Goal
    BY <2>7, <2>8, <2>9
  <2> QED
    BY <2>1, <2>10 DEF h
<1> QED
  BY <1>3, <1>4, <1>5

-------------------------------------------------------------------------------
(* The end of a context.                                                   *)

(* How many members sets without, with one and with some have.             *)
LEMMA Counted ==
  ASSUME NEW S, IsFiniteSet(S)
  PROVE  /\ Cardinality(S) \in Nat /\ (S = {} => Cardinality(S) = 0) /\ (S # {} => Cardinality(S) > 0)
         /\ \A x : S = {x} => Cardinality(S) = 1
<1>1. Cardinality(S) \in Nat /\ (Cardinality(S) = 0 <=> S = {})
  BY FS_EmptySet, FS_CardinalityType
<1>2. ASSUME NEW x, S = {x} PROVE Cardinality(S) = 1
  BY <1>2, FS_Singleton
<1> QED
  BY <1>1, <1>2

(* How often the callback of a command is run at the end.                  *)
LEMMA PendingNat ==
  ASSUME NEW a \in ContextType, DictOK(a.channels), DictOK(a.patterns), NEW i
  PROVE  /\ IsFiniteSet({j \in DOMAIN a.replies : a.replies[j] = i})
         /\ IsFiniteSet({j \in DOMAIN a.invalid : a.invalid[j] = i})
         /\ IsFiniteSet({e \in Subscriptions(a) : e.val = i})
         /\ Pending(a, i) \in Nat
<1> DEFINE A == {j \in DOMAIN a.replies : a.replies[j] = i}
           B == {j \in DOMAIN a.invalid : a.invalid[j] = i}
           C == {e \in Subscriptions(a) : e.val = i}
<1>1. a.replies \in Seq(0 .. MaxCommands) /\ a.invalid \in Seq(Ids)
  BY DEF ContextType
<1>2. IsFiniteSet(A)
  <2>1. A \subseteq 1 .. Len(a.replies) /\ Len(a.replies) \in Nat
    BY <1>1
  <2> HIDE DEF A
  <2>2. IsFiniteSet(1 .. Len(a.replies))
    BY <2>1, FS_Interval
  <2> QED
    BY <2>1, <2>2, FS_Subset
<1>3. IsFiniteSet(B)
  <2>1. B \subseteq 1 .. Len(a.invalid) /\ Len(a.invalid) \in Nat
    BY <1>1
  <2> HIDE DEF B
  <2>2. IsFiniteSet(1 .. Len(a.invalid))
    BY <2>1, FS_Interval
  <2> QED
    BY <2>1, <2>2, FS_Subset
<1>4. IsFiniteSet(C)
  <2>1. IsFiniteSet(Subscriptions(a))
    BY FS_Union DEF DictOK, Subscriptions
  <2>2. C \subseteq Subscriptions(a)
    OBVIOUS
  <2> HIDE DEF C
  <2> QED
    BY <2>1, <2>2, FS_Subset
<1>5. Pending(a, i) = Cardinality(A) + Cardinality(B) + Cardinality(C)
  BY DEF Pending, Times
<1> HIDE DEF A, B, C
<1>6. Cardinality(A) \in Nat /\ Cardinality(B) \in Nat /\ Cardinality(C) \in Nat
  BY <1>2, <1>3, <1>4, Counted
<1>7. Pending(a, i) \in Nat
  BY <1>5, <1>6
<1> QED
  BY <1>2, <1>3, <1>4, <1>7 DEF A, B, C

(* How often __redisAsyncFree runs a callback: a GET's at most once, and   *)
(* one that waits at least once.                                           *)
LEMMA PendingTimes ==
  ASSUME NEW a \in ContextType, DictOK(a.channels), DictOK(a.patterns), NEW iss \in Seq(CommandSet), NEW rn,
         KeptInv(a, iss, rn), WaitInv(a, iss, rn), NEW i \in DOMAIN iss
  PROVE  /\ Pending(a, i) \in Nat
         /\ iss[i].kind = "GET" => Pending(a, i) <= 1 /\ (rn[i] # << >> => Pending(a, i) = 0)
         /\ iss[i].kind \in {"GET", Monitor} /\ rn[i] = << >> => Pending(a, i) > 0
         /\ iss[i].kind = "UNSUBSCRIBE" => Pending(a, i) = 0
<1> DEFINE r == a.replies
           v == a.invalid
           A == {j \in DOMAIN r : r[j] = i}
           B == {j \in DOMAIN v : v[j] = i}
           C == {e \in Subscriptions(a) : e.val = i}
<1>1. IsFiniteSet(A) /\ IsFiniteSet(B) /\ IsFiniteSet(C) /\ Pending(a, i) \in Nat
  BY PendingNat
<1>2. Pending(a, i) = Cardinality(A) + Cardinality(B) + Cardinality(C)
  BY DEF Pending, Times
<1>3. i # 0
  OBVIOUS
<1>4. ASSUME iss[i].kind = "GET"
      PROVE  /\ C = {} /\ (A = {} \/ B = {}) /\ (A = {} \/ \E x : A = {x}) /\ (B = {} \/ \E x : B = {x})
             /\ rn[i] # << >> => A = {} /\ B = {}
  <2>1. C = {}
    BY <1>4 DEF KeptInv
  <2>2. ASSUME NEW j \in A PROVE A = {j} /\ B = {} /\ rn[i] = << >>
    <3>1. /\ rn[i] = << >> /\ \A k \in DOMAIN r : r[k] = i => k = j
          /\ \A k \in DOMAIN v : v[k] # i
      BY <1>3, <1>4 DEF KeptInv
    <3> QED
      BY <3>1
  <2>3. ASSUME NEW j \in B PROVE B = {j} /\ rn[i] = << >>
    <3>1. rn[i] = << >> /\ \A k \in DOMAIN v : v[k] = i => k = j
      BY DEF KeptInv
    <3> QED
      BY <3>1
  <2> QED
    BY <2>1, <2>2, <2>3
<1>5. ASSUME iss[i].kind = "UNSUBSCRIBE" PROVE A = {} /\ B = {} /\ C = {}
  BY <1>3, <1>5 DEF KeptInv, Monitor
<1>6. ASSUME iss[i].kind \in {"GET", Monitor}, rn[i] = << >> PROVE A # {} \/ B # {}
  BY <1>6 DEF WaitInv
<1> HIDE DEF A, B, C
<1>7. /\ Cardinality(A) \in Nat /\ (A = {} => Cardinality(A) = 0) /\ (A # {} => Cardinality(A) > 0)
      /\ \A x : A = {x} => Cardinality(A) = 1
  BY <1>1, Counted
<1>8. /\ Cardinality(B) \in Nat /\ (B = {} => Cardinality(B) = 0) /\ (B # {} => Cardinality(B) > 0)
      /\ \A x : B = {x} => Cardinality(B) = 1
  BY <1>1, Counted
<1>9. Cardinality(C) \in Nat /\ (C = {} => Cardinality(C) = 0)
  BY <1>1, Counted
<1>10. iss[i].kind = "GET" => Pending(a, i) <= 1 /\ (rn[i] # << >> => Pending(a, i) = 0)
  <2>1. ASSUME iss[i].kind = "GET"
        PROVE  /\ Cardinality(C) = 0 /\ (Cardinality(A) = 0 \/ Cardinality(B) = 0)
               /\ Cardinality(A) \in {0, 1} /\ Cardinality(B) \in {0, 1}
               /\ rn[i] # << >> => Cardinality(A) = 0 /\ Cardinality(B) = 0
    BY <1>4, <1>7, <1>8, <1>9, <2>1
  <2> QED
    BY <1>2, <2>1
<1>11. iss[i].kind = "UNSUBSCRIBE" => Pending(a, i) = 0
  BY <1>2, <1>5, <1>7, <1>8, <1>9
<1>12. iss[i].kind \in {"GET", Monitor} /\ rn[i] = << >> => Pending(a, i) > 0
  BY <1>2, <1>6, <1>7, <1>8, <1>9
<1> QED
  BY <1>1, <1>10, <1>11, <1>12

(* OwnReply, of histories iss and rn.                                      *)
OwnOf(iss, rn) ==
  \A i \in DOMAIN iss :
    /\ iss[i].kind = "GET" =>
         Len(rn[i]) <= 1 /\ \A j \in DOMAIN rn[i] : rn[i][j] \in {Null, Rejection, Reply(i)}
    /\ iss[i].kind = Monitor =>
         \A j \in DOMAIN rn[i] :
           \/ rn[i][j] \in {Null, Rejection, Reply(i)} /\ (j = 1 \/ rn[i][j] = Null)
           \/ rn[i][j].name = Monitor /\ j > 1
    /\ iss[i].kind = "SUBSCRIBE" =>
         \A j \in DOMAIN rn[i] :
           \/ rn[i][j] = Null /\ \A k \in j .. Len(rn[i]) : rn[i][k] = Null
           \/ rn[i][j].name \in iss[i].scope
    /\ iss[i].kind = "UNSUBSCRIBE" => rn[i] = << >>

(* All of them have been run.                                              *)
Told(iss, rn) == \A i \in DOMAIN iss : iss[i].kind \in {"GET", Monitor} => rn[i] # << >>

(* RanInv gives what OwnReply asks for while nobody got NULL.              *)
LEMMA RanOwn ==
  ASSUME NEW iss \in Seq(CommandSet), NEW rn \in [Ids -> Seq(MessageType)], Len(iss) <= MaxCommands,
         RanInv(iss, rn)
  PROVE  OwnOf(iss, rn)
<1>1. SUFFICES ASSUME NEW i \in DOMAIN iss, iss[i].kind = Monitor, NEW j \in DOMAIN rn[i], j # 1
               PROVE  j > 1
  BY DEF RanInv, OwnOf
<1>2. i \in Ids
  BY MaxNat DEF Ids
<1>3. rn[i] \in Seq(MessageType)
  BY <1>2
<1> QED
  BY <1>1, <1>3

(* NULL is no reply of the server.                                         *)
LEMMA NullParts == Null \in MessageType /\ \A i : Null # Reply(i)
<1>1. 0 \in 0 .. MaxCommands
  BY MaxNat
<1> QED
  BY <1>1 DEF Null, Message, MessageType, Reply

Nulls(n) == [j \in 1 .. n |-> Null]

(* A callback that is run with NULL n times.                               *)
LEMMA NullsParts ==
  ASSUME NEW n \in Nat
  PROVE  Nulls(n) \in Seq(MessageType) /\ Len(Nulls(n)) = n /\ \A j \in 1 .. n : Nulls(n)[j] = Null
BY NullParts DEF Nulls

(* The history of one callback at the end.                                 *)
LEMMA EndRun ==
  ASSUME NEW o \in Seq(MessageType), NEW z \in Seq(MessageType), \A j \in 1 .. Len(z) : z[j] = Null
  PROVE  /\ o \o z \in Seq(MessageType) /\ Len(o \o z) = Len(o) + Len(z)
         /\ DOMAIN (o \o z) = 1 .. (Len(o) + Len(z))
         /\ \A j \in DOMAIN (o \o z) : \/ j \in DOMAIN o /\ (o \o z)[j] = o[j]
                                       \/ j > Len(o) /\ (o \o z)[j] = Null
         /\ Len(o) \in Nat /\ (Len(o) = 0 <=> o = << >>) /\ DOMAIN o = 1 .. Len(o)
<1> DEFINE g == o \o z
           n == Len(z)
<1>1. /\ g \in Seq(MessageType) /\ Len(g) = Len(o) + n /\ DOMAIN g = 1 .. (Len(o) + n)
      /\ \A j \in 1 .. Len(o) : g[j] = o[j]
      /\ \A j \in 1 .. n : g[Len(o) + j] = z[j]
  BY CatParts
<1>2. Len(o) \in Nat /\ (Len(o) = 0 <=> o = << >>) /\ DOMAIN o = 1 .. Len(o) /\ n \in Nat
  OBVIOUS
<1>3. \A j \in 1 .. n : z[j] = Null
  OBVIOUS
<1> HIDE DEF g, n
<1>4. ASSUME NEW j \in DOMAIN g, j \notin DOMAIN o PROVE j > Len(o) /\ g[j] = Null
  <2> DEFINE k == j - Len(o)
  <2>1. k \in 1 .. n /\ Len(o) + k = j
    BY <1>1, <1>2, <1>4
  <2> HIDE DEF k
  <2>2. g[j] = Null
    BY <1>1, <1>3, <2>1
  <2> QED
    BY <1>1, <1>2, <1>4, <2>2
<1>5. \A j \in DOMAIN g : (j \in DOMAIN o /\ g[j] = o[j]) \/ (j > Len(o) /\ g[j] = Null)
  BY <1>1, <1>2, <1>4
<1> QED
  BY <1>1, <1>2, <1>5 DEF g, n

(* All that wait are told at the end, each of them once.                   *)
LEMMA FlowFree ==
  ASSUME NEW a, NEW w, NEW q, NEW s, NEW cl, NEW c, NEW iss, NEW rn,
         Flow(a, w, q, s, cl, c, iss, rn), NEW r, r = RunAll(rn, a, Null)
  PROVE  r \in [Ids -> Seq(MessageType)] /\ OwnOf(iss, r) /\ Told(iss, r)
<1>1. /\ a \in ContextType /\ DictOK(a.channels) /\ DictOK(a.patterns)
      /\ iss \in Seq(CommandSet) /\ Len(iss) <= MaxCommands /\ rn \in [Ids -> Seq(MessageType)]
  BY DEF Flow, FlowType
<1>2. KeptInv(a, iss, rn) /\ WaitInv(a, iss, rn) /\ RanInv(iss, rn)
  BY DEF Flow, CallbackInv
<1>3. /\ DOMAIN r = Ids /\ r = [i \in Ids |-> r[i]]
      /\ \A i \in Ids : r[i] = rn[i] \o Nulls(Pending(a, i))
  BY <1>1 DEF RunAll, Nulls
<1>4. \A i \in Ids : Pending(a, i) \in Nat /\ rn[i] \in Seq(MessageType)
  BY <1>1, PendingNat
<1>5. ASSUME NEW i \in Ids
      PROVE  /\ r[i] \in Seq(MessageType) /\ Len(r[i]) = Len(rn[i]) + Pending(a, i)
             /\ DOMAIN r[i] = 1 .. (Len(rn[i]) + Pending(a, i))
             /\ \A j \in DOMAIN r[i] : \/ j \in DOMAIN rn[i] /\ r[i][j] = rn[i][j]
                                       \/ j > Len(rn[i]) /\ r[i][j] = Null
             /\ Len(rn[i]) \in Nat /\ (Len(rn[i]) = 0 <=> rn[i] = << >>) /\ DOMAIN rn[i] = 1 .. Len(rn[i])
  <2> DEFINE g == r[i]
             o == rn[i]
             n == Pending(a, i)
  <2>1. o \in Seq(MessageType) /\ n \in Nat /\ g = o \o Nulls(n)
    BY <1>3, <1>4
  <2> HIDE DEF g, o, n
  <2> DEFINE z == Nulls(n)
  <2>2. z \in Seq(MessageType) /\ Len(z) = n /\ \A j \in 1 .. n : z[j] = Null
    BY <2>1, NullsParts
  <2>3. g = o \o z
    BY <2>1
  <2> HIDE DEF z
  <2>4. /\ o \o z \in Seq(MessageType) /\ Len(o \o z) = Len(o) + Len(z)
        /\ DOMAIN (o \o z) = 1 .. (Len(o) + Len(z))
        /\ \A j \in DOMAIN (o \o z) : \/ j \in DOMAIN o /\ (o \o z)[j] = o[j]
                                      \/ j > Len(o) /\ (o \o z)[j] = Null
        /\ Len(o) \in Nat /\ (Len(o) = 0 <=> o = << >>) /\ DOMAIN o = 1 .. Len(o)
    <3>1. \A j \in 1 .. Len(z) : z[j] = Null
      BY <2>2
    <3> QED
      BY ONLY <2>1, <2>2, <3>1, EndRun, Zenon
  <2> QED
    BY <2>2, <2>3, <2>4, Zenon DEF g, o, n
<1>6. r \in [Ids -> Seq(MessageType)]
  BY <1>3, <1>5
<1>7. ASSUME NEW i \in DOMAIN iss
      PROVE  /\ iss[i].kind = "GET" =>
                  Len(r[i]) <= 1 /\ \A j \in DOMAIN r[i] : r[i][j] \in {Null, Rejection, Reply(i)}
             /\ iss[i].kind = Monitor =>
                  \A j \in DOMAIN r[i] :
                    \/ r[i][j] \in {Null, Rejection, Reply(i)} /\ (j = 1 \/ r[i][j] = Null)
                    \/ r[i][j].name = Monitor /\ j > 1
             /\ iss[i].kind = "SUBSCRIBE" =>
                  \A j \in DOMAIN r[i] :
                    \/ r[i][j] = Null /\ \A k \in j .. Len(r[i]) : r[i][k] = Null
                    \/ r[i][j].name \in iss[i].scope
             /\ iss[i].kind = "UNSUBSCRIBE" => r[i] = << >>
             /\ iss[i].kind \in {"GET", Monitor} => r[i] # << >>
  <2>1. i \in Ids
    BY <1>1, MaxNat DEF Ids
  <2> DEFINE g == r[i]
             o == rn[i]
             n == Pending(a, i)
  <2>2. /\ g \in Seq(MessageType) /\ Len(g) = Len(o) + n
        /\ DOMAIN g = 1 .. (Len(o) + n)
        /\ \A j \in DOMAIN g : (j \in DOMAIN o /\ g[j] = o[j]) \/ (j > Len(o) /\ g[j] = Null)
        /\ Len(o) \in Nat /\ (Len(o) = 0 <=> o = << >>) /\ DOMAIN o = 1 .. Len(o)
    BY <1>5, <2>1
  <2>3. /\ n \in Nat
        /\ iss[i].kind = "GET" => n <= 1 /\ (o # << >> => n = 0)
        /\ iss[i].kind \in {"GET", Monitor} /\ o = << >> => n > 0
        /\ iss[i].kind = "UNSUBSCRIBE" => n = 0
    BY <1>1, <1>2, PendingTimes
  <2>4. /\ iss[i].kind = "GET" => Len(o) <= 1 /\ \A j \in DOMAIN o : o[j] \in {Rejection, Reply(i)}
        /\ iss[i].kind = Monitor =>
             \A j \in DOMAIN o : IF j = 1 THEN o[j] \in {Rejection, Reply(i)} ELSE o[j].name = Monitor
        /\ iss[i].kind = "SUBSCRIBE" => \A j \in DOMAIN o : o[j].name \in iss[i].scope
        /\ iss[i].kind = "UNSUBSCRIBE" => o = << >>
    BY <1>2 DEF RanInv
  <2> HIDE DEF g, o, n
  <2>5. ASSUME iss[i].kind = "GET"
        PROVE  Len(g) <= 1 /\ \A j \in DOMAIN g : g[j] \in {Null, Rejection, Reply(i)}
    <3>1. Len(g) <= 1
      BY <2>2, <2>3, <2>4, <2>5
    <3> QED
      BY <2>2, <2>4, <2>5, <3>1
  <2>6. ASSUME iss[i].kind = Monitor, NEW j \in DOMAIN g
        PROVE  \/ g[j] \in {Null, Rejection, Reply(i)} /\ (j = 1 \/ g[j] = Null)
               \/ g[j].name = Monitor /\ j > 1
    <3>1. j = 1 \/ j > 1
      BY <2>2, <2>3
    <3> QED
      BY <2>2, <2>4, <2>6, <3>1
  <2>7. ASSUME iss[i].kind = "SUBSCRIBE", NEW j \in DOMAIN g
        PROVE  \/ g[j] = Null /\ \A k \in j .. Len(g) : g[k] = Null
               \/ g[j].name \in iss[i].scope
    <3>1. CASE j \in DOMAIN o /\ g[j] = o[j]
      BY <2>4, <2>7, <3>1
    <3>2. CASE j > Len(o) /\ g[j] = Null
      <4>1. \A k \in j .. Len(g) : k \in DOMAIN g /\ k \notin DOMAIN o
        BY <2>2, <2>3, <3>2
      <4> QED
        BY <2>2, <3>2, <4>1
    <3> QED
      BY <2>2, <3>1, <3>2
  <2>8. iss[i].kind = "UNSUBSCRIBE" => g = << >>
    <3>1. iss[i].kind = "UNSUBSCRIBE" => Len(g) = 0
      BY <2>2, <2>3, <2>4
    <3> QED
      BY <2>2, <3>1
  <2>9. iss[i].kind \in {"GET", Monitor} => g # << >>
    <3>1. iss[i].kind \in {"GET", Monitor} => Len(g) > 0
      BY <2>2, <2>3
    <3> QED
      BY <2>2, <3>1
  <2> QED
    BY <2>5, <2>6, <2>7, <2>8, <2>9 DEF g
<1> QED
  BY <1>6, <1>7 DEF OwnOf, Told

(* What the end of a context has to keep.                                  *)
LEMMA OwnReplyOf ==
  ASSUME issued' \in Seq(CommandSet), OwnOf(issued', runs')
  PROVE  OwnReply'
<1> DEFINE iss == issued'
           rn == runs'
<1>1. SUFFICES ASSUME NEW i \in DOMAIN iss
               PROVE  LET own == {Null, Rejection, Message("reply", "", 0, i)}
                      IN CASE iss[i].kind = "GET" -> Len(rn[i]) <= 1 /\ Elements(rn[i]) \subseteq own
                           [] iss[i].kind = Monitor ->
                                \A j \in DOMAIN rn[i] :
                                  \/ rn[i][j] \in own /\ (j = 1 \/ rn[i][j] = Null)
                                  \/ rn[i][j].name = Monitor /\ j > 1
                           [] iss[i].kind = "SUBSCRIBE" ->
                                \A j \in DOMAIN rn[i] :
                                  \/ rn[i][j] = Null /\ \A k \in j .. Len(rn[i]) : rn[i][k] = Null
                                  \/ rn[i][j].name \in iss[i].scope
                           [] iss[i].kind = "UNSUBSCRIBE" -> rn[i] = << >>
  BY Zenon DEF OwnReply
<1>2. iss[i] \in CommandSet
  OBVIOUS
<1> DEFINE k == iss[i].kind
           S == iss[i].scope
           g == rn[i]
<1>3. k \in {"GET", Monitor, "SUBSCRIBE", "UNSUBSCRIBE"}
  BY <1>2, CommandParts
<1>4. /\ k = "GET" => Len(g) <= 1 /\ \A j \in DOMAIN g : g[j] \in {Null, Rejection, Reply(i)}
      /\ k = Monitor =>
           \A j \in DOMAIN g :
             \/ g[j] \in {Null, Rejection, Reply(i)} /\ (j = 1 \/ g[j] = Null)
             \/ g[j].name = Monitor /\ j > 1
      /\ k = "SUBSCRIBE" =>
           \A j \in DOMAIN g :
             \/ g[j] = Null /\ \A p \in j .. Len(g) : g[p] = Null
             \/ g[j].name \in S
      /\ k = "UNSUBSCRIBE" => g = << >>
  BY Zenon DEF OwnOf
<1> HIDE DEF k, g, S, iss, rn
<1>5. Reply(i) = Message("reply", "", 0, i)
  BY DEF Reply
<1>6. k = "GET" => Len(g) <= 1 /\ Elements(g) \subseteq {Null, Rejection, Message("reply", "", 0, i)}
  BY <1>4, <1>5, Zenon DEF Elements
<1> QED
  BY <1>3, <1>4, <1>5, <1>6, Zenon DEF k, g, S, Monitor

-------------------------------------------------------------------------------
(* The steps of the specification.                                         *)

(* What the invariant says of a context that has not been freed.           *)
LEMMA LiveParts ==
  ASSUME IInv, Alive
  PROVE  /\ LoopInv /\ Flow(ac, Wire, Sent, subs, closed, cb, issued, runs)
         /\ ac \in ContextType /\ inbox \in Seq(WireType) /\ down \in Seq(WireType)
         /\ up \in Seq(SentType) /\ ac.obuf \in Seq(SentType)
         /\ conn \in OutcomeType /\ published \in Nat /\ faults \in Nat
         /\ pc \in {"events", "loop"} /\ closed \in BOOLEAN
<1>1. ac.obuf \in Seq(SentType)
  BY DEF IInv, TypeOK, ContextType
<1> QED
  BY <1>1 DEF IInv, TypeOK, LiveInv

(* The context lives on.                                                   *)
LEMMA LivesOn ==
  ASSUME ac'.state = "alive", LoopInv', Flow(ac', Wire', Sent', subs', closed', cb', issued', runs'),
         conn' \in OutcomeType, pc' \in {"events", "loop"},
         inbox' \in Seq(WireType), down' \in Seq(WireType), up' \in Seq(SentType),
         published' \in Nat, faults' \in Nat
  PROVE  IInv'
<1>1. FlowType(ac', Wire', Sent', subs', closed', cb', issued', runs')
  BY DEF Flow
<1>2. TypeOK'
  BY <1>1 DEF TypeOK, FlowType
<1>3. RanInv(issued', runs')
  BY DEF Flow, CallbackInv
<1>4. OwnOf(issued', runs')
  BY <1>1, <1>3, RanOwn DEF FlowType
<1>5. issued' \in Seq(CommandSet)
  BY <1>1 DEF FlowType
<1>6. OwnReply'
  BY <1>4, <1>5, OwnReplyOf
<1> QED
  BY <1>2, <1>6 DEF IInv, Finished, Alive, LiveInv

(* A sequence of two elements.                                             *)
LEMMA AppendPair ==
  ASSUME NEW x, NEW y PROVE Append(<< x >>, y) = << x, y >>
<1> DEFINE A == {x, y}
           s == << x >>
           t == << x, y >>
<1>5. s \in Seq(A) /\ y \in A
  OBVIOUS
<1>1. t \in Seq(A) /\ Len(s) = 1 /\ Len(t) = 2 /\ s[1] = x /\ t[1] = x /\ t[2] = y
  OBVIOUS
<1> HIDE DEF A, s, t
<1>2. /\ Append(s, y) \in Seq(A) /\ Len(Append(s, y)) = 2 /\ Append(s, y)[1] = x /\ Append(s, y)[2] = y
  <2>1. /\ Append(s, y) \in Seq(A) /\ Len(Append(s, y)) = Len(s) + 1
        /\ (\A i \in 1 .. Len(s) : Append(s, y)[i] = s[i]) /\ Append(s, y)[Len(s) + 1] = y
    BY ONLY <1>5, AppendParts
  <2>2. Len(s) + 1 = 2 /\ 1 \in 1 .. Len(s)
    BY <1>1
  <2> QED
    BY <1>1, <2>1, <2>2
<1>3. \A i \in 1 .. 2 : i = 1 \/ i = 2
  OBVIOUS
<1>4. Append(s, y) = t
  BY <1>1, <1>2, <1>3, <1>5, SeqEqual
<1> QED
  BY <1>4 DEF s, t

(* The context is freed, from a state in which the invariant holds with r. *)
LEMMA Freed ==
  ASSUME IInv, Alive, NEW b, NEW r, NEW rep, AsyncFree(b, r, rep), UNCHANGED << server, issued >>,
         published' \in Nat, faults' \in Nat,
         NEW w, NEW c, Flow(b, w, Sent, subs, closed, c, issued, r),
         b.connected => rep = << "connected" >>,
         ~b.connected => rep \in {<< >>, << "refused" >>}
  PROVE  IInv'
<1>1. /\ LoopInv /\ conn \in OutcomeType /\ down \in Seq(WireType) /\ up \in Seq(SentType)
      /\ subs \in SUBSET (Names \cup {Monitor}) /\ closed \in BOOLEAN
      /\ issued \in Seq(CommandSet) /\ Len(issued) <= MaxCommands
  BY DEF IInv, TypeOK, LiveInv
<1>2. /\ ac' = [NoContext EXCEPT !.state = "freed"] /\ runs' = RunAll(r, b, Null)
      /\ reported' = (IF b.connected THEN Append(rep, "disconnected") ELSE rep)
      /\ conn' = (IF conn.fd > 0 THEN [conn EXCEPT !.open = @ \ {conn.fd}] ELSE conn)
      /\ pc' = "events" /\ inbox' = << >> /\ cb' = 0
      /\ up' = up /\ down' = down /\ subs' = subs /\ closed' = closed /\ issued' = issued
  BY DEF AsyncFree, server
<1>3. runs' \in [Ids -> Seq(MessageType)] /\ OwnOf(issued, runs') /\ Told(issued, runs')
  BY <1>2, FlowFree
<1>4. ac' \in ContextType /\ DictOK(ac'.channels) /\ DictOK(ac'.patterns) /\ ac'.state = "freed"
  <2>1. /\ DictOK(dictCreate) /\ dictCreate \in DictType(Channels) /\ dictCreate \in DictType(Patterns)
    BY CreateTable DEF Names
  <2>2. << >> \in Seq(0 .. MaxCommands) /\ << >> \in Seq(Ids) /\ << >> \in Seq(SentType)
    OBVIOUS
  <2> QED
    BY <1>2, <2>1, <2>2 DEF NoContext, ContextType
<1>5. conn' \in OutcomeType /\ conn'.open = {}
  <2>1. conn.open \subseteq {conn.fd} /\ (conn.fd <= 0 => conn.open = {}) /\ conn.fd \in Int
    BY <1>1 DEF LoopInv, OutcomeType
  <2>2. CASE conn.fd > 0
    BY <1>1, <1>2, <2>1, <2>2 DEF OutcomeType
  <2>3. CASE ~(conn.fd > 0)
    BY <1>1, <1>2, <2>1, <2>3
  <2> QED
    BY <2>2, <2>3
<1>6. TypeOK'
  <2>1. inbox' \in Seq(WireType) /\ cb' \in 0 .. MaxCommands
    BY <1>2, MaxNat
  <2> QED
    BY <1>1, <1>2, <1>3, <1>4, <1>5, <2>1 DEF TypeOK
<1>7. OwnReply'
  BY <1>1, <1>2, <1>3, OwnReplyOf
<1>8. Finished'
  <2>1. reported' \in {<< >>, << "refused" >>, << "connected", "disconnected" >>}
    <3>1. CASE b.connected
      <4>1. Append(<< "connected" >>, "disconnected") = << "connected", "disconnected" >>
        BY AppendPair
      <4> QED
        BY <1>2, <3>1, <4>1
    <3>2. CASE ~b.connected
      BY <1>2, <3>2
    <3> QED
      BY <3>1, <3>2
  <2> QED
    BY <1>2, <1>3, <1>5, <2>1 DEF Finished, Told
<1>9. ac'.state # "none" /\ ~Alive'
  BY <1>4 DEF Alive
<1> QED
  BY <1>6, <1>7, <1>8, <1>9 DEF IInv

(* A context that is being freed is otherwise the same.                    *)
LEMMA ContextFreeing ==
  ASSUME NEW a \in ContextType
  PROVE  LET b == [a EXCEPT !.freeing = TRUE]
         IN b \in ContextType /\ Same(a, b) /\ b.connected = a.connected
BY DEF ContextType, Same

(* The context is freed with the callbacks it has.                         *)
LEMMA FreedFlags ==
  ASSUME IInv, Alive, NEW b \in ContextType, Same(ac, b), b.connected = ac.connected,
         NEW rep, rep = reported \/ (~ac.connected /\ rep = Append(reported, "refused")),
         AsyncFree(b, runs, rep), UNCHANGED << server, issued >>, published' \in Nat, faults' \in Nat
  PROVE  IInv'
<1>1. LoopInv /\ Flow(ac, Wire, Sent, subs, closed, cb, issued, runs) /\ closed \in BOOLEAN
  BY LiveParts
<1>2. Flow(b, Wire, Sent, subs, closed, cb, issued, runs)
  BY <1>1, FlowFrame
<1>3. reported = IF ac.connected THEN << "connected" >> ELSE << >>
  BY <1>1 DEF LoopInv
<1>4. Append(<< >>, "refused") = << "refused" >>
  OBVIOUS
<1>5. (b.connected => rep = << "connected" >>) /\ (~b.connected => rep \in {<< >>, << "refused" >>})
  BY <1>3, <1>4
<1> QED
  BY <1>2, <1>5, Freed

(* Connect: an outcome of net.c has at most its own descriptor open.       *)
LEMMA ConnectStep == IInv /\ Connect => IInv'
<1> SUFFICES ASSUME IInv, Connect PROVE IInv'
  OBVIOUS
<1>1. NoneInv /\ TypeOK
  BY DEF Connect, IInv
<1>2. PICK o \in redisContextConnectTcp(conn, FALSE, FALSE, TRUE) \cup redisContextConnectUnix(conn, FALSE) :
        /\ conn' = o
        /\ ac' = [ac EXCEPT !.state = "alive", !.err = o.err, !.writing = (o.err = "none")]
  BY DEF Connect
<1>3. OneOpen(o)
  BY <1>1, <1>2, ConnectOpen DEF NoneInv
<1>4. /\ ac' \in ContextType /\ Same(NoContext, ac') /\ ac'.state = "alive"
      /\ ~ac'.freeing /\ ~ac'.connected /\ ac'.obuf = << >>
  <2>1. ac = NoContext /\ ac \in ContextType
    BY <1>1 DEF NoneInv, TypeOK
  <2>2. o.err \in {"none", "IO", "OTHER"}
    BY <1>3 DEF OneOpen, OutcomeType
  <2>3. ~ac.freeing /\ ~ac.connected /\ ac.obuf = << >>
    BY <2>1 DEF NoContext
  <2>4. /\ ac' \in ContextType /\ Same(ac, ac') /\ ac'.state = "alive" /\ ac'.freeing = ac.freeing
        /\ ac'.connected = ac.connected /\ ac'.obuf = ac.obuf
    <3>1. /\ ac \in ContextType /\ o.err \in {"none", "IO", "OTHER", "PROTOCOL"}
          /\ (o.err = "none") \in BOOLEAN
          /\ ac' = [ac EXCEPT !.state = "alive", !.err = o.err, !.writing = (o.err = "none")]
      BY <1>2, <2>1, <2>2
    <3>2. /\ Same(ac, ac') /\ ac'.state = "alive" /\ ac'.freeing = ac.freeing
          /\ ac'.connected = ac.connected /\ ac'.obuf = ac.obuf
      BY ONLY <3>1 DEF ContextType, Same
    <3>3. ac' \in ContextType
      <4> DEFINE b == [ac EXCEPT !.state = "alive"]
                 d == [b EXCEPT !.err = o.err]
                 e == (o.err = "none")
      <4>1. b \in ContextType
        BY ONLY <3>1 DEF ContextType
      <4>2. d \in ContextType
        BY ONLY <3>1, <4>1 DEF ContextType
      <4>3. e \in BOOLEAN
        OBVIOUS
      <4>4. ac' = [d EXCEPT !.writing = e]
        BY ONLY <3>1
      <4> HIDE DEF d, e
      <4> QED
        BY ONLY <4>2, <4>3, <4>4 DEF ContextType
    <3> QED
      BY <3>2, <3>3
  <2> QED
    BY <2>1, <2>3, <2>4
<1>5. /\ pc' = "events" /\ inbox' = << >> /\ cb' = 0 /\ up' = << >> /\ down' = << >> /\ subs' = {} /\ closed' = closed
      /\ published' = published /\ faults' = faults /\ issued' = << >> /\ runs' = runs /\ reported' = << >>
  BY <1>1 DEF Connect, NoneInv, server
<1>6. << >> \o << >> = << >>
  OBVIOUS
<1>7. Wire' = << >> /\ Sent' = << >>
  BY <1>4, <1>5, <1>6 DEF Wire, Sent
<1>8. runs' \in [Ids -> Seq(MessageType)] /\ \A i \in Ids : runs'[i] = << >>
  BY <1>1, <1>5 DEF TypeOK, NoneInv
<1>9. closed' \in BOOLEAN
  BY <1>1, <1>5 DEF TypeOK
<1>10. Flow(ac', Wire', Sent', subs', closed', cb', issued', runs')
  BY <1>4, <1>5, <1>7, <1>8, <1>9, FlowInit
<1>11. LoopInv'
  BY <1>2, <1>3, <1>4, <1>5 DEF LoopInv, OneOpen
<1>12. conn' \in OutcomeType /\ published' \in Nat /\ faults' \in Nat
  BY <1>1, <1>2, <1>3, <1>5 DEF OneOpen, TypeOK
<1> QED
  BY <1>4, <1>5, <1>10, <1>11, <1>12, LivesOn

(* Free: the callbacks that wait are run.                                  *)
LEMMA FreeStep == IInv /\ Free => IInv'
<1> SUFFICES ASSUME IInv, Free PROVE IInv'
  OBVIOUS
<1> DEFINE b == [ac EXCEPT !.freeing = TRUE]
<1>1. Alive /\ AsyncFree(b, runs, reported) /\ UNCHANGED << server, issued >> /\ UNCHANGED << published, faults >>
  BY DEF Free
<1>2. ac \in ContextType /\ published' \in Nat /\ faults' \in Nat
  BY <1>1, LiveParts
<1>3. b \in ContextType /\ Same(ac, b) /\ b.connected = ac.connected
  BY <1>2, ContextFreeing
<1> HIDE DEF b
<1> QED
  BY <1>1, <1>2, <1>3, FreedFlags

(* A disconnect after an error.                                            *)
LEMMA ErrorEnds ==
  ASSUME IInv, Alive, NEW e \in {"IO", "OTHER", "PROTOCOL"},
         NEW rep, rep = reported \/ (~ac.connected /\ rep = Append(reported, "refused")),
         AsyncDisconnect([ac EXCEPT !.err = e], runs, rep),
         UNCHANGED << server, issued >>, published' \in Nat, faults' \in Nat
  PROVE  IInv'
<1> DEFINE a == [ac EXCEPT !.err = e]
           b == [[ac EXCEPT !.err = e] EXCEPT !.disconnecting = TRUE]
<1>1. ac \in ContextType
  BY LiveParts
<1>2. b \in ContextType /\ Same(ac, b) /\ b.connected = ac.connected /\ a.err = e
  BY <1>1 DEF ContextType, Same
<1>3. AsyncFree(b, runs, rep)
  BY <1>2 DEF AsyncDisconnect
<1> HIDE DEF a, b
<1> QED
  BY <1>2, <1>3, FreedFlags

(* A disconnect that leaves nobody waiting.                                *)
LEMMA CleanEnds ==
  ASSUME IInv, Alive, NEW a, a = ac \/ a = [ac EXCEPT !.disconnecting = TRUE], ac.replies = << >>,
         AsyncDisconnect(a, runs, reported),
         UNCHANGED << server, issued >>, published' \in Nat, faults' \in Nat
  PROVE  IInv'
<1> DEFINE b == [a EXCEPT !.disconnecting = TRUE]
<1>1. ac \in ContextType
  BY LiveParts
<1>2. a.replies = << >> /\ b \in ContextType /\ Same(ac, b) /\ b.connected = ac.connected
  <2>1. CASE a = ac
    BY <1>1, <2>1, ContextDisconnect
  <2>2. CASE a = [ac EXCEPT !.disconnecting = TRUE]
    BY <1>1, <2>2 DEF ContextType, Same
  <2> QED
    BY <2>1, <2>2
<1>3. AsyncFree(b, runs, reported)
  BY <1>2 DEF AsyncDisconnect
<1> HIDE DEF b
<1> QED
  BY <1>2, <1>3, FreedFlags

(* The counter of faults.                                                  *)
LEMMA FaultNat ==
  ASSUME IInv, Fault PROVE faults' \in Nat
BY DEF IInv, TypeOK, Fault

(* ConnectFails: onConnect is called, and onDisconnect is not.             *)
LEMMA ConnectFailsStep == IInv /\ ConnectFails => IInv'
<1> SUFFICES ASSUME IInv, ConnectFails PROVE IInv'
  OBVIOUS
<1>1. /\ Alive /\ ~ac.connected /\ Fault
      /\ AsyncDisconnect([ac EXCEPT !.err = "IO"], runs, Append(reported, "refused"))
      /\ UNCHANGED << server, issued >> /\ published' = published
  BY DEF ConnectFails
<1>2. published' \in Nat /\ faults' \in Nat
  BY <1>1, LiveParts, FaultNat
<1> QED
  BY <1>1, <1>2, ErrorEnds

(* EventFails: the disconnection has an error, so that callbacks may wait. *)
LEMMA EventFailsStep == IInv /\ EventFails => IInv'
<1> SUFFICES ASSUME IInv, EventFails PROVE IInv'
  OBVIOUS
<1>1. /\ Alive /\ (faults' = faults \/ Fault)
      /\ AsyncDisconnect([ac EXCEPT !.err = "IO"], runs, reported)
      /\ UNCHANGED << server, issued >> /\ published' = published
  BY DEF EventFails
<1>2. published' \in Nat /\ faults' \in Nat
  BY <1>1, LiveParts, FaultNat
<1> QED
  BY <1>1, <1>2, ErrorEnds

(* LoopFails: the same, in redisProcessCallbacks.                          *)
LEMMA LoopFailsStep == IInv /\ LoopFails => IInv'
<1> SUFFICES ASSUME IInv, LoopFails PROVE IInv'
  OBVIOUS
<1>1. /\ Alive /\ Fault
      /\ AsyncDisconnect([ac EXCEPT !.err = "PROTOCOL"], runs, reported)
      /\ UNCHANGED << server, issued >> /\ published' = published
  BY DEF LoopFails
<1>2. published' \in Nat /\ faults' \in Nat
  BY <1>1, LiveParts, FaultNat
<1> QED
  BY <1>1, <1>2, ErrorEnds

(* Disconnect: at once only when no callback waits.                        *)
LEMMA DisconnectStep == IInv /\ Disconnect => IInv'
<1> SUFFICES ASSUME IInv, Disconnect PROVE IInv'
  OBVIOUS
<1> DEFINE a == [ac EXCEPT !.disconnecting = TRUE]
<1>1. /\ Alive /\ pc = "events"
      /\ IF a.replies = << >> THEN AsyncDisconnect(a, runs, reported)
         ELSE ac' = a /\ UNCHANGED << conn, pc, inbox, cb, runs, reported >>
      /\ UNCHANGED << server, issued >> /\ UNCHANGED << published, faults >>
  BY DEF Disconnect
<1>2. /\ LoopInv /\ Flow(ac, Wire, Sent, subs, closed, cb, issued, runs)
      /\ ac \in ContextType /\ inbox \in Seq(WireType) /\ down \in Seq(WireType)
      /\ up \in Seq(SentType) /\ ac.obuf \in Seq(SentType)
      /\ conn \in OutcomeType /\ published \in Nat /\ faults \in Nat
      /\ pc \in {"events", "loop"} /\ closed \in BOOLEAN
  BY <1>1, LiveParts
<1>3. /\ a \in ContextType /\ Same(ac, a) /\ a.state = ac.state /\ a.freeing = ac.freeing
      /\ a.connected = ac.connected /\ a.obuf = ac.obuf
  BY <1>2, ContextDisconnect
<1>4. CASE ac.replies = << >>
  <2>1. a.replies = << >>
    BY <1>3, <1>4 DEF Same
  <2>2. AsyncDisconnect(a, runs, reported)
    BY <1>1, <2>1
  <2> QED
    BY <1>1, <1>2, <1>4, <2>2, CleanEnds
<1>5. CASE ac.replies # << >>
  <2>1. ac' = a /\ UNCHANGED << conn, pc, inbox, cb, runs, reported >>
    BY <1>1, <1>3, <1>5 DEF Same
  <2> HIDE DEF a
  <2>2. Wire' = Wire /\ Sent' = Sent
    BY <1>1, <1>3, <2>1 DEF Wire, Sent, server
  <2>3. Flow(ac', Wire', Sent', subs', closed', cb', issued', runs')
    <3>1. Flow(a, Wire, Sent, subs, closed, cb, issued, runs)
      BY <1>2, <1>3, FlowFrame
    <3> QED
      BY <1>1, <2>1, <2>2, <3>1 DEF server
  <2>4. LoopInv'
    BY <1>2, <1>3, <2>1 DEF LoopInv
  <2> QED
    BY <1>1, <1>2, <1>3, <2>1, <2>3, <2>4, LivesOn DEF server, Alive
<1> QED
  BY <1>4, <1>5

(* HandleWrite: commands move on, in their order.                          *)
LEMMA HandleWriteStep == ASSUME IInv, NEW n \in 0 .. Len(ac.obuf), HandleWrite(n) PROVE IInv'
<1> DEFINE o == SubSeq(ac.obuf, n + 1, Len(ac.obuf))
           u == SubSeq(ac.obuf, 1, n)
           y == n < Len(ac.obuf)
<1>1. /\ Alive /\ pc = "events" /\ up' = up \o u
      /\ ac' = [ac EXCEPT !.connected = TRUE, !.reading = TRUE, !.obuf = o, !.writing = y]
      /\ reported' = (IF ac.connected THEN reported ELSE Append(reported, "connected"))
      /\ UNCHANGED << conn, pc, inbox, cb, down, subs, closed, published, faults, issued, runs >>
  BY DEF HandleWrite
<1>2. /\ LoopInv /\ Flow(ac, Wire, Sent, subs, closed, cb, issued, runs)
      /\ ac \in ContextType /\ inbox \in Seq(WireType) /\ down \in Seq(WireType)
      /\ up \in Seq(SentType) /\ ac.obuf \in Seq(SentType)
      /\ conn \in OutcomeType /\ published \in Nat /\ faults \in Nat
      /\ pc \in {"events", "loop"} /\ closed \in BOOLEAN
  BY <1>1, LiveParts
<1>3. u \in Seq(SentType) /\ o \in Seq(SentType) /\ u \o o = ac.obuf
  <2> DEFINE z == ac.obuf
  <2>1. z \in Seq(SentType) /\ n \in 0 .. Len(z)
    BY <1>2
  <2> HIDE DEF z
  <2>2. SubSeq(z, 1, n) \in Seq(SentType) /\ SubSeq(z, n + 1, Len(z)) \in Seq(SentType)
        /\ SubSeq(z, 1, n) \o SubSeq(z, n + 1, Len(z)) = z
    BY ONLY <2>1, CatSplit
  <2> QED
    BY <2>2 DEF z
<1>4. y \in BOOLEAN
  OBVIOUS
<1> HIDE DEF o, u, y
<1>5. /\ ac' \in ContextType /\ Same(ac, ac') /\ ac'.state = ac.state /\ ac'.freeing = ac.freeing
      /\ ac'.connected /\ ac'.obuf = o
  BY <1>1, <1>2, <1>3, <1>4 DEF ContextType, Same
<1>6. Wire' = Wire /\ Sent' = Sent /\ up' \in Seq(SentType)
  <2>1. (up \o u) \o o = up \o (u \o o) /\ up \o u \in Seq(SentType)
    <3>1. up \in Seq(SentType) /\ u \in Seq(SentType) /\ o \in Seq(SentType)
      BY <1>2, <1>3
    <3>2. (up \o u) \o o = up \o (u \o o)
      BY ONLY <3>1, CatCat
    <3> QED
      BY <3>1, <3>2, CatParts
  <2> QED
    BY <1>1, <1>3, <1>5, <2>1 DEF Wire, Sent
<1>7. Flow(ac', Wire', Sent', subs', closed', cb', issued', runs')
  <2>1. Flow(ac', Wire, Sent, subs, closed, cb, issued, runs)
    BY <1>2, <1>5, FlowFrame
  <2> QED
    BY <1>1, <1>6, <2>1
<1>8. LoopInv'
  <2>1. Append(<< >>, "connected") = << "connected" >>
    OBVIOUS
  <2>2. reported' = << "connected" >>
    BY <1>1, <1>2, <2>1 DEF LoopInv
  <2> QED
    BY <1>1, <1>2, <1>5, <2>2 DEF LoopInv
<1> QED
  BY <1>1, <1>2, <1>5, <1>6, <1>7, <1>8, LivesOn DEF Alive

(* HandleRead: messages move on, in their order.                           *)
LEMMA HandleReadStep == ASSUME IInv, NEW n \in 0 .. Len(down), HandleRead(n) PROVE IInv'
<1> DEFINE v == SubSeq(down, 1, n)
           z == SubSeq(down, n + 1, Len(down))
<1>1. /\ Alive /\ pc = "events" /\ pc' = "loop" /\ cb' = 0 /\ inbox' = v /\ down' = z
      /\ UNCHANGED << ac, conn, up, subs, closed, published, faults, issued, runs, reported >>
  BY DEF HandleRead
<1>2. /\ LoopInv /\ Flow(ac, Wire, Sent, subs, closed, cb, issued, runs)
      /\ inbox \in Seq(WireType) /\ down \in Seq(WireType) /\ up \in Seq(SentType)
      /\ conn \in OutcomeType /\ published \in Nat /\ faults \in Nat
  BY <1>1, LiveParts
<1>3. v \in Seq(WireType) /\ z \in Seq(WireType) /\ v \o z = down
  BY <1>2, CatSplit
<1> HIDE DEF v, z
<1>4. inbox = << >> /\ cb = 0
  BY <1>1, <1>2 DEF LoopInv
<1>5. Wire' = Wire /\ Sent' = Sent
  <2>1. << >> \o down = down
    BY <1>2, CatCat
  <2> QED
    BY <1>1, <1>3, <1>4, <2>1 DEF Wire, Sent
<1>6. Flow(ac', Wire', Sent', subs', closed', cb', issued', runs')
  BY <1>1, <1>2, <1>4, <1>5
<1>7. LoopInv'
  BY <1>1, <1>2 DEF LoopInv
<1> QED
  BY <1>1, <1>2, <1>3, <1>6, <1>7, LivesOn DEF Alive

(* ProcessEnd: a callback that goes back to the list is the monitor's.     *)
LEMMA ProcessEndStep == IInv /\ ProcessEnd => IInv'
<1> SUFFICES ASSUME IInv, ProcessEnd PROVE IInv'
  OBVIOUS
<1> DEFINE b == IF ac.monitoring THEN [ac EXCEPT !.replies = Append(@, cb)] ELSE ac
<1>1. /\ Alive /\ inbox = << >> /\ UNCHANGED << server, issued >> /\ UNCHANGED << published, faults >>
      /\ \/ ac.replies = << >> /\ AsyncDisconnect(ac, runs, reported)
         \/ pc' = "events" /\ cb' = 0 /\ ac' = b /\ UNCHANGED << conn, inbox, runs, reported >>
  BY DEF ProcessEnd
<1>2. /\ LoopInv /\ Flow(ac, Wire, Sent, subs, closed, cb, issued, runs)
      /\ ac \in ContextType /\ inbox \in Seq(WireType) /\ down \in Seq(WireType) /\ up \in Seq(SentType)
      /\ conn \in OutcomeType /\ published \in Nat /\ faults \in Nat
  BY <1>1, LiveParts
<1>3. CASE ac.replies = << >> /\ AsyncDisconnect(ac, runs, reported)
  BY <1>1, <1>2, <1>3, CleanEnds
<1>4. CASE pc' = "events" /\ cb' = 0 /\ ac' = b /\ UNCHANGED << conn, inbox, runs, reported >>
  <2>1. Flow(b, Wire, Sent, subs, closed, 0, issued, runs)
    BY <1>2, FlowEnd
  <2>2. b.state = ac.state /\ b.freeing = ac.freeing /\ b.connected = ac.connected /\ b.obuf = ac.obuf
    BY <1>2 DEF ContextType
  <2> HIDE DEF b
  <2>3. Wire' = Wire /\ Sent' = Sent
    BY <1>1, <1>4, <2>2 DEF Wire, Sent, server
  <2>4. Flow(ac', Wire', Sent', subs', closed', cb', issued', runs')
    BY <1>1, <1>4, <2>1, <2>3 DEF server
  <2>5. LoopInv'
    BY <1>1, <1>2, <1>4, <2>2 DEF LoopInv
  <2> QED
    BY <1>1, <1>2, <1>4, <2>2, <2>4, <2>5, LivesOn DEF server, Alive
<1> QED
  BY <1>1, <1>3, <1>4

-------------------------------------------------------------------------------
(* The server's steps leave the client alone.                              *)
LEMMA ServerStep ==
  ASSUME IInv, Alive, UNCHANGED << ac, conn, pc, inbox, cb, issued, runs, reported >>,
         down' \in Seq(WireType), up' \in Seq(SentType), published' \in Nat, faults' \in Nat,
         Flow(ac, inbox \o down', up' \o ac.obuf, subs', closed', cb, issued, runs)
  PROVE  IInv'
<1>1. /\ LoopInv /\ inbox \in Seq(WireType) /\ conn \in OutcomeType /\ pc \in {"events", "loop"}
  BY LiveParts
<1>2. Flow(ac', Wire', Sent', subs', closed', cb', issued', runs')
  BY DEF Wire, Sent
<1>3. LoopInv'
  BY <1>1 DEF LoopInv
<1> QED
  BY <1>1, <1>2, <1>3, LivesOn DEF Alive

(* Publish: a message about a name that the server has, which the tables   *)
(* have too.                                                               *)
LEMMA PublishStep == IInv /\ Publish => IInv'
<1> SUFFICES ASSUME IInv, Publish PROVE IInv'
  OBVIOUS
<1>1. PICK n \in subs : down' = Append(down, Message("message", n, 0, 0))
  BY DEF Publish
<1>2. /\ Alive /\ ~closed /\ published' = published + 1
      /\ UNCHANGED << ac, conn, pc, inbox, cb, issued, runs, reported >>
      /\ UNCHANGED << up, subs, closed, faults >>
  BY DEF Publish, Serving
<1>3. /\ Flow(ac, Wire, Sent, subs, closed, cb, issued, runs)
      /\ inbox \in Seq(WireType) /\ down \in Seq(WireType) /\ up \in Seq(SentType)
      /\ published \in Nat /\ faults \in Nat
  BY <1>2, LiveParts
<1> DEFINE m == Message("message", n, 0, 0)
<1>4. Flow(ac, Append(Wire, m), Sent, subs, closed, cb, issued, runs)
  BY <1>2, <1>3, FlowPublish
<1>5. m \in WireType
  <2>1. subs \in SUBSET (Names \cup {Monitor})
    BY <1>3 DEF Flow, FlowType
  <2> QED
    BY <2>1, MaxNat DEF Message, WireType, MessageType, MessageTypes
<1>6. down' = Append(down, m)
  BY <1>1
<1> HIDE DEF m
<1>7. inbox \o down' = Append(Wire, m) /\ down' \in Seq(WireType)
  BY <1>3, <1>5, <1>6, CatAppend, AppendParts DEF Wire
<1>8. up' \o ac.obuf = Sent /\ published' \in Nat
  BY <1>2, <1>3 DEF Sent
<1> QED
  BY <1>2, <1>3, <1>4, <1>7, <1>8, ServerStep

(* Reject: nothing has been answered by then.                              *)
LEMMA RejectStep == IInv /\ Reject => IInv'
<1> SUFFICES ASSUME IInv, Reject PROVE IInv'
  OBVIOUS
<1>1. /\ Alive /\ Fault /\ subs = {} /\ down \o inbox = << >> /\ (\A i \in DOMAIN runs : runs[i] = << >>)
      /\ down' = << Rejection >> /\ closed' = TRUE
      /\ UNCHANGED << ac, conn, pc, inbox, cb, issued, runs, reported >>
      /\ UNCHANGED << up, subs, published >>
  BY DEF Reject, Serving
<1>2. /\ Flow(ac, Wire, Sent, subs, closed, cb, issued, runs)
      /\ inbox \in Seq(WireType) /\ down \in Seq(WireType) /\ up \in Seq(SentType)
      /\ published \in Nat /\ faults \in Nat
  BY <1>1, LiveParts
<1>3. down = << >> /\ inbox = << >>
  BY <1>1, <1>2
<1>4. Wire = << >>
  BY <1>3 DEF Wire
<1>5. \A i \in Ids : runs[i] = << >>
  BY <1>1, <1>2 DEF Flow, FlowType
<1>6. Flow(ac, << Rejection >>, Sent, subs, closed', cb, issued, runs)
  BY <1>1, <1>2, <1>4, <1>5, FlowReject
<1>7. Rejection \in WireType
  BY MaxNat DEF Rejection, Message, WireType, MessageType, MessageTypes
<1>8. down' \in Seq(WireType) /\ inbox \o down' = << Rejection >>
  BY <1>1, <1>3, <1>7
<1>9. up' \o ac.obuf = Sent /\ faults' \in Nat
  BY <1>1, FaultNat DEF Sent
<1> QED
  BY <1>1, <1>2, <1>6, <1>8, <1>9, ServerStep

(* CloseConnection: what is on its way stays.                              *)
LEMMA CloseStep == IInv /\ CloseConnection => IInv'
<1> SUFFICES ASSUME IInv, CloseConnection PROVE IInv'
  OBVIOUS
<1>1. /\ Alive /\ Fault /\ closed' = TRUE
      /\ UNCHANGED << ac, conn, pc, inbox, cb, issued, runs, reported >>
      /\ UNCHANGED << up, down, subs, published >>
  BY DEF CloseConnection, Serving
<1>2. /\ Flow(ac, Wire, Sent, subs, closed, cb, issued, runs) /\ ac \in ContextType
      /\ inbox \in Seq(WireType) /\ down \in Seq(WireType) /\ up \in Seq(SentType)
      /\ published \in Nat /\ faults \in Nat
  BY <1>1, LiveParts
<1>3. Same(ac, ac) /\ closed' \in BOOLEAN /\ closed'
  BY <1>1 DEF Same
<1>4. Flow(ac, Wire, Sent, subs, closed', cb, issued, runs)
  BY <1>2, <1>3, FlowFrame
<1>5. inbox \o down' = Wire /\ up' \o ac.obuf = Sent /\ faults' \in Nat
  BY <1>1, FaultNat DEF Wire, Sent
<1> QED
  BY <1>1, <1>2, <1>4, <1>5, ServerStep

-------------------------------------------------------------------------------
(* Commands.                                                               *)
LEMMA Swapped ==
  ASSUME NEW A, NEW s \in Seq(A), NEW t \in Seq(A)
  PROVE  \A p \in DOMAIN (t \o s) : (t \o s)[p] \in Elements(s \o t)
<1> DEFINE u == s \o t
<1>1. /\ DOMAIN u = 1 .. (Len(s) + Len(t)) /\ (\A i \in 1 .. Len(s) : u[i] = s[i])
      /\ \A i \in 1 .. Len(t) : u[Len(s) + i] = t[i]
  BY CatParts
<1>2. DOMAIN s = 1 .. Len(s) /\ DOMAIN t = 1 .. Len(t) /\ Len(s) \in Nat /\ Len(t) \in Nat
  OBVIOUS
<1> HIDE DEF u
<1>3. \A i \in DOMAIN s : s[i] \in Elements(u)
  <2>1. \A i \in DOMAIN s : i \in DOMAIN u /\ u[i] = s[i]
    BY <1>1, <1>2
  <2> QED
    BY <2>1 DEF Elements
<1>4. \A i \in DOMAIN t : t[i] \in Elements(u)
  <2>1. \A i \in DOMAIN t : Len(s) + i \in DOMAIN u /\ u[Len(s) + i] = t[i]
    BY <1>1, <1>2
  <2> QED
    BY <2>1 DEF Elements
<1> QED
  BY <1>3, <1>4, CatEither DEF u

(* A command is added behind those on their way.                           *)
LEMMA SentAppend ==
  ASSUME NEW u \in Seq(SentType), NEW v \in Seq(SentType), NEW y \in SentType
  PROVE  Append(u \o v, y) = u \o Append(v, y)
OBVIOUS

(* A command that the application issues, with what is read by then.       *)
LEMMA IssueFlow ==
  ASSUME NEW a, NEW c, NEW rn, NEW x \in CommandSet,
         inbox' \in Seq(WireType), down \in Seq(WireType), up \in Seq(SentType),
         Flow(a, inbox' \o down, up \o a.obuf, subs, closed, c, issued, rn),
         pc = "events" => c = 0, Disciplined, Issues(a, x), Len(issued) < MaxCommands
  PROVE  LET b == AsyncCommand(a, x, Len(issued) + 1)
         IN /\ Flow(b, inbox' \o down, up \o b.obuf, subs, closed, c, Append(issued, x), rn)
            /\ b.state = a.state /\ b.freeing = a.freeing /\ b.connected = a.connected
<1> DEFINE w == inbox' \o down
           q == up \o a.obuf
           id == Len(issued) + 1
           b == AsyncCommand(a, x, id)
           y == Queued(x, id)
<1>1. a \in ContextType /\ issued \in Seq(CommandSet)
  BY DEF Flow, FlowType
<1>2. a.obuf \in Seq(SentType)
  BY <1>1 DEF ContextType
<1>3. /\ ~a.monitoring
      /\ \A m \in Elements(a.obuf \o up) : m.kind # "UNSUBSCRIBE"
      /\ \A m \in Elements(down \o inbox') : m.type # "unsubscribe"
      /\ x.kind = Monitor => pc = "events" /\ a.replies = << >> /\ ~a.subscribed
  BY DEF Issues, Useful, Sensible
<1>4. \A p \in DOMAIN q : q[p].kind # "UNSUBSCRIBE"
  BY <1>2, <1>3, Swapped
<1>5. \A p \in DOMAIN w : w[p].type # "unsubscribe"
  BY <1>3, Swapped
<1>6. x.kind = Monitor => c = 0 /\ a.replies = << >> /\ ~a.subscribed
  BY <1>3
<1>7. ASSUME x.kind = "UNSUBSCRIBE"
      PROVE  /\ a.subscribed /\ \E n \in x.scope : n \in AllNames(a)
             /\ x.names # << >> => Distinct(x.names) /\ \A n \in x.scope : n \in AllNames(a)
  <2>1. a.subscribed
    BY <1>7 DEF Issues, Accepted
  <2>2. CASE x.names = << >>
    BY <1>7, <2>1, <2>2 DEF Issues, Useful
  <2>3. CASE x.names # << >>
    <3>1. x.scope \subseteq AllNames(a) /\ Distinct(x.names)
      BY <1>7, <2>3 DEF Issues, Useful
    <3>2. x.names[1] \in x.scope
      BY <1>7, <2>3, CommandParts, ListParts
    <3> QED
      BY <2>1, <3>1, <3>2
  <2> QED
    BY <2>2, <2>3
<1> HIDE DEF w, q
<1>8. /\ Flow(b, w, Append(q, y), subs, closed, c, Append(issued, x), rn)
      /\ Elsewhere(a, b, y)
  <2>1. Flow(a, w, q, subs, closed, c, issued, rn)
    BY DEF w, q
  <2> QED
    BY ONLY <1>3, <1>4, <1>5, <1>6, <1>7, <2>1, x \in CommandSet, Len(issued) < MaxCommands, FlowIssue
<1>9. y \in SentType
  <2>1. id \in Ids
    BY <1>1, MaxNat DEF Ids
  <2> QED
    BY <2>1, QueuedParts
<1> HIDE DEF b, y
<1>10. b.obuf = Append(a.obuf, y)
  BY <1>8 DEF Elsewhere
<1>11. up \o b.obuf = Append(q, y)
  <2> DEFINE z == a.obuf
  <2>1. up \in Seq(SentType) /\ z \in Seq(SentType)
    BY <1>2
  <2> HIDE DEF z
  <2>2. Append(up \o z, y) = up \o Append(z, y)
    BY ONLY <1>9, <2>1, SentAppend
  <2> QED
    BY <1>10, <2>2 DEF q, z
<1> QED
  BY <1>8, <1>11 DEF Elsewhere, b, w

(* Issue: a command from the event loop.                                   *)
LEMMA IssueStep == ASSUME Disciplined PROVE IInv /\ Issue => IInv'
<1> SUFFICES ASSUME IInv, Issue PROVE IInv'
  OBVIOUS
<1>1. PICK x \in CommandSet : /\ Issues(ac, x)
                              /\ issued' = Append(issued, x) /\ ac' = AsyncCommand(ac, x, Len(issued'))
  BY DEF Issue
<1>2. /\ Alive /\ pc = "events" /\ Len(issued) < MaxCommands
      /\ UNCHANGED << conn, pc, inbox, cb, up, down, subs, closed, published, faults, runs, reported >>
  BY DEF Issue, server
<1>3. /\ LoopInv /\ Flow(ac, Wire, Sent, subs, closed, cb, issued, runs)
      /\ inbox \in Seq(WireType) /\ down \in Seq(WireType) /\ up \in Seq(SentType)
      /\ conn \in OutcomeType /\ published \in Nat /\ faults \in Nat
  BY <1>2, LiveParts
<1>4. Len(issued') = Len(issued) + 1
  <2>1. issued \in Seq(CommandSet)
    BY <1>3 DEF Flow, FlowType
  <2> QED
    BY <1>1, <2>1
<1>5. Flow(ac, inbox' \o down, up \o ac.obuf, subs, closed, cb, issued, runs)
  BY <1>2, <1>3 DEF Wire, Sent
<1>6. cb = 0 /\ inbox' \in Seq(WireType)
  BY <1>2, <1>3 DEF LoopInv
<1> DEFINE b == AsyncCommand(ac, x, Len(issued) + 1)
<1>7. /\ Flow(b, inbox' \o down, up \o b.obuf, subs, closed, cb, Append(issued, x), runs)
      /\ b.state = ac.state /\ b.freeing = ac.freeing /\ b.connected = ac.connected
  BY <1>1, <1>2, <1>3, <1>5, <1>6, IssueFlow
<1>8. ac' = b
  BY <1>1, <1>4
<1> HIDE DEF b
<1>9. Flow(ac', Wire', Sent', subs', closed', cb', issued', runs')
  BY <1>1, <1>2, <1>7, <1>8 DEF Wire, Sent
<1>10. LoopInv'
  BY <1>2, <1>3, <1>7, <1>8 DEF LoopInv
<1> QED
  BY <1>2, <1>3, <1>7, <1>8, <1>9, <1>10, LivesOn DEF Alive

-------------------------------------------------------------------------------
(* Replies.                                                                *)

(* A reply is taken from the inbox.  One about a subscription has a name:  *)
(* that is in the tables.                                                  *)
LEMMA ReplyTaken ==
  ASSUME IInv, Alive, inbox # << >>, NEW m, m = Head(inbox), ac.replies # << >> \/ m.type # "error",
         NEW h, h = Shift(ac, m, cb)
  PROVE  /\ ~Unexpected(ac, m)
         /\ Flow(h[1], Tail(inbox) \o down, Sent, subs, closed, h[2], issued, Ran(runs, h[2], m))
         /\ h[1] \in ContextType /\ Rest(ac, h[1])
         /\ Tail(inbox) \in Seq(WireType)
<1>1. /\ Flow(ac, Wire, Sent, subs, closed, cb, issued, runs)
      /\ inbox \in Seq(WireType) /\ down \in Seq(WireType)
  BY LiveParts
<1>2. Wire # << >> /\ Tail(Wire) = Tail(inbox) \o down /\ Head(Wire) = m /\ Wire \in Seq(WireType)
  BY <1>1, CatTail, CatParts DEF Wire
<1>3. Wire[1] = m
  BY <1>2, TailParts
<1>4. Tail(inbox) \in Seq(WireType)
  BY <1>1, TailParts
<1> DEFINE w == Wire
<1> HIDE DEF w
<1>5. Flow(ac, w, Sent, subs, closed, cb, issued, runs) /\ w # << >> /\ w[1] = m
  BY <1>1, <1>2, <1>3 DEF w
<1>6. /\ ac.replies # << >> \/ ac.subscribed \/ ac.monitoring
      /\ Flow(h[1], Tail(w), Sent, subs, closed, h[2], issued, Ran(runs, h[2], m))
      /\ h[1] \in ContextType /\ Rest(ac, h[1])
  BY <1>5, FlowShift
<1>7. ~(ac.subscribed /\ m.type = "unsubscribe" /\ m.name = "")
  <2> SUFFICES ASSUME m.type = "unsubscribe", m.name = "" PROVE FALSE
    OBVIOUS
  <2>1. NamedInv(ac, w) /\ w \in Seq(WireType) /\ ac \in ContextType
        /\ DictOK(ac.channels) /\ DictOK(ac.patterns)
    BY <1>5 DEF Flow, FlowType, SubsInv
  <2>2. 1 \in DOMAIN w /\ About(w[1])
    <3>1. 1 \in DOMAIN w
      <4>1. w \in Seq(WireType) /\ w # << >>
        BY <1>5, <2>1
      <4> QED
        BY ONLY <4>1
    <3>2. m.name # Monitor
      BY DEF Monitor
    <3>3. w[1] = m
      BY <1>5
    <3> QED
      BY <3>1, <3>2, <3>3 DEF About
  <2>3. w[1].name \in AllNames(ac)
    BY <2>1, <2>2 DEF NamedInv
  <2>4. AllNames(ac) \subseteq Names
    BY <2>1, NamesOf
  <2> QED
    BY <1>5, <2>3, <2>4, Bounds
<1>8. ~Unexpected(ac, m)
  BY <1>6, <1>7 DEF Unexpected
<1> QED
  BY <1>2, <1>4, <1>6, <1>8 DEF w

(* What the application does in the callback of a reply.                   *)
LEMMA CallbackStep ==
  ASSUME Disciplined, IInv, Alive, pc = "loop", UNCHANGED << server, published, faults >>,
         NEW a \in ContextType, Rest(ac, a), NEW r,
         inbox' \in Seq(WireType),
         Flow(a, inbox' \o down, Sent, subs, closed, cb', issued, r), InCallback(a, r)
  PROVE  IInv'
<1>1. /\ LoopInv /\ down \in Seq(WireType) /\ up \in Seq(SentType) /\ closed \in BOOLEAN
      /\ conn \in OutcomeType /\ published \in Nat /\ faults \in Nat
  BY LiveParts
<1>2. /\ a.state = "alive" /\ ~a.freeing /\ a.connected = ac.connected /\ a.obuf = ac.obuf
  BY <1>1 DEF Rest, LoopInv, Alive
<1>3. /\ conn' = conn /\ pc' = pc /\ reported' = reported /\ runs' = r
      /\ up' = up /\ down' = down /\ subs' = subs /\ closed' = closed
      /\ published' = published /\ faults' = faults
  BY DEF InCallback, server
<1>4. ASSUME ac'.state = "alive", ~ac'.freeing, ac'.connected = ac.connected,
             Flow(ac', Wire', Sent', subs', closed', cb', issued', runs')
      PROVE  IInv'
  <2>1. LoopInv'
    BY <1>1, <1>3, <1>4 DEF LoopInv
  <2> QED
    BY <1>1, <1>3, <1>4, <2>1, LivesOn
<1>5. CASE ac' = a /\ issued' = issued
  <2>1. Wire' = inbox' \o down /\ Sent' = Sent
    BY <1>2, <1>3, <1>5 DEF Wire, Sent
  <2> QED
    BY <1>2, <1>3, <1>4, <1>5, <2>1
<1>6. CASE ac' = [a EXCEPT !.disconnecting = TRUE] /\ issued' = issued
  <2>1. /\ ac' \in ContextType /\ Same(a, ac') /\ ac'.state = a.state /\ ac'.freeing = a.freeing
        /\ ac'.connected = a.connected /\ ac'.obuf = a.obuf
    BY <1>6, ContextDisconnect
  <2>2. Wire' = inbox' \o down /\ Sent' = Sent
    BY <1>2, <1>3, <2>1 DEF Wire, Sent
  <2>3. Flow(ac', inbox' \o down, Sent, subs, closed, cb', issued, r)
    BY <1>1, <2>1, FlowFrame
  <2> QED
    BY <1>2, <1>3, <1>4, <1>6, <2>1, <2>2, <2>3
<1>7. CASE /\ Len(issued) < MaxCommands
           /\ \E x \in CommandSet :
                /\ Issues(a, x)
                /\ issued' = Append(issued, x)
                /\ ac' = AsyncCommand(a, x, Len(issued'))
  <2>1. PICK x \in CommandSet : /\ Issues(a, x)
                                /\ issued' = Append(issued, x)
                                /\ ac' = AsyncCommand(a, x, Len(issued'))
    BY <1>7
  <2>2. Len(issued') = Len(issued) + 1
    <3>1. issued \in Seq(CommandSet)
      BY DEF Flow, FlowType
    <3> QED
      BY <2>1, <3>1
  <2> DEFINE b == AsyncCommand(a, x, Len(issued) + 1)
  <2>3. Flow(a, inbox' \o down, up \o a.obuf, subs, closed, cb', issued, r)
    BY <1>2 DEF Sent
  <2>4. /\ Flow(b, inbox' \o down, up \o b.obuf, subs, closed, cb', Append(issued, x), r)
        /\ b.state = a.state /\ b.freeing = a.freeing /\ b.connected = a.connected
    BY <1>1, <1>7, <2>1, <2>3, IssueFlow
  <2>5. ac' = b
    BY <2>1, <2>2
  <2> HIDE DEF b
  <2>6. Flow(ac', Wire', Sent', subs', closed', cb', issued', runs')
    BY <1>3, <2>1, <2>4, <2>5 DEF Wire, Sent
  <2> QED
    BY <1>2, <1>4, <2>4, <2>5, <2>6
<1> QED
  BY <1>5, <1>6, <1>7 DEF InCallback

(* ProcessReply: the callback is that of the message, and neither assert   *)
(* fails.                                                                  *)
LEMMA ProcessReplyStep == ASSUME Disciplined PROVE IInv /\ ProcessReply => IInv'
<1> SUFFICES ASSUME IInv, ProcessReply PROVE IInv'
  OBVIOUS
<1> DEFINE m == Head(inbox)
           h == Shift(ac, m, cb)
<1>1. Alive /\ pc = "loop" /\ inbox # << >> /\ UNCHANGED << server, published, faults >>
  BY DEF ProcessReply
<1>2. CASE ac.replies = << >> /\ m.type = "error"
  <2>1. AsyncDisconnect([ac EXCEPT !.err = "OTHER"], runs, reported) /\ issued' = issued
    <3>1. ~Unexpected(ac, m)
      BY <1>2 DEF Unexpected
    <3> QED
      BY <1>2, <3>1 DEF ProcessReply
  <2>2. published' \in Nat /\ faults' \in Nat
    BY <1>1, LiveParts
  <2> QED
    BY <1>1, <2>1, <2>2, ErrorEnds
<1>3. CASE ~(ac.replies = << >> /\ m.type = "error")
  <2>1. /\ ~Unexpected(ac, m)
        /\ Flow(h[1], Tail(inbox) \o down, Sent, subs, closed, h[2], issued, Ran(runs, h[2], m))
        /\ h[1] \in ContextType /\ Rest(ac, h[1])
        /\ Tail(inbox) \in Seq(WireType)
    BY <1>1, <1>3, ReplyTaken
  <2>2. /\ inbox' = Tail(inbox) /\ cb' = h[2]
        /\ IF h[2] = 0 THEN ac' = h[1] /\ UNCHANGED << conn, pc, issued, runs, reported >>
           ELSE InCallback(h[1], [runs EXCEPT ![h[2]] = Append(@, m)])
    BY <1>3, <2>1 DEF ProcessReply
  <2>3. InCallback(h[1], Ran(runs, h[2], m))
    BY <2>2 DEF Ran, InCallback
  <2> HIDE DEF h
  <2> DEFINE a == h[1]
             r == Ran(runs, h[2], m)
  <2> HIDE DEF a, r
  <2>4. /\ a \in ContextType /\ Rest(ac, a) /\ inbox' \in Seq(WireType)
        /\ Flow(a, inbox' \o down, Sent, subs, closed, cb', issued, r) /\ InCallback(a, r)
    BY <2>1, <2>2, <2>3 DEF a, r
  <2> QED
    BY <1>1, <2>4, CallbackStep
<1> QED
  BY <1>2, <1>3

(* FreeInCallback: the one callback is run, then those that wait.          *)
LEMMA FreeInCallbackStep == IInv /\ FreeInCallback => IInv'
<1> SUFFICES ASSUME IInv, FreeInCallback PROVE IInv'
  OBVIOUS
<1> DEFINE m == Head(inbox)
           h == Shift(ac, m, cb)
           a == h[1]
           b == [a EXCEPT !.freeing = TRUE]
           r == Ran(runs, h[2], m)
<1>1. /\ Alive /\ inbox # << >> /\ (ac.replies # << >> \/ m.type # "error")
      /\ h[2] # 0 /\ AsyncFree(b, [runs EXCEPT ![h[2]] = Append(@, m)], reported)
      /\ UNCHANGED << server, issued >> /\ UNCHANGED << published, faults >>
  BY DEF FreeInCallback
<1>2. /\ Flow(a, Tail(inbox) \o down, Sent, subs, closed, h[2], issued, r)
      /\ a \in ContextType /\ Rest(ac, a)
  BY <1>1, ReplyTaken
<1>3. AsyncFree(b, r, reported)
  BY <1>1 DEF Ran
<1> HIDE DEF h, a, r
<1>4. b \in ContextType /\ Same(a, b) /\ b.connected = a.connected
  BY <1>2, ContextFreeing
<1> HIDE DEF b
<1>5. LoopInv /\ published' \in Nat /\ faults' \in Nat /\ closed \in BOOLEAN
  BY <1>1, LiveParts
<1>6. Flow(b, Tail(inbox) \o down, Sent, subs, closed, h[2], issued, r)
  BY <1>2, <1>4, <1>5, FlowFrame
<1>7. (b.connected => reported = << "connected" >>) /\ (~b.connected => reported \in {<< >>, << "refused" >>})
  BY <1>2, <1>4, <1>5 DEF Rest, LoopInv
<1> QED
  BY <1>1, <1>3, <1>5, <1>6, <1>7, Freed

-------------------------------------------------------------------------------
(* The server's replies.                                                   *)
LEMMA ServeParts ==
  ASSUME IInv, Serve
  PROVE  /\ Alive /\ ~closed /\ Sent # << >> /\ Tail(Sent) = up' \o ac.obuf /\ Sent[1] = Head(up)
         /\ up' \in Seq(SentType) /\ Head(up) \in SentType
         /\ Flow(ac, Wire, Sent, subs, closed, cb, issued, runs)
         /\ inbox \in Seq(WireType) /\ down \in Seq(WireType)
         /\ UNCHANGED << ac, conn, pc, inbox, cb, issued, runs, reported >>
         /\ closed' = closed /\ published' \in Nat /\ faults' \in Nat
<1>1. /\ Alive /\ ~closed /\ up # << >> /\ up' = Tail(up)
      /\ UNCHANGED << ac, conn, pc, inbox, cb, issued, runs, reported >>
      /\ UNCHANGED << closed, published, faults >>
  BY DEF Serve, Serving
<1>2. /\ Flow(ac, Wire, Sent, subs, closed, cb, issued, runs)
      /\ inbox \in Seq(WireType) /\ down \in Seq(WireType) /\ up \in Seq(SentType)
      /\ ac.obuf \in Seq(SentType) /\ published \in Nat /\ faults \in Nat
  BY <1>1, LiveParts
<1>3. up' \in Seq(SentType) /\ Head(up) \in SentType
  BY <1>1, <1>2
<1> DEFINE z == ac.obuf
           u == up
<1>4. u \in Seq(SentType) /\ z \in Seq(SentType) /\ u # << >>
  BY <1>1, <1>2
<1> HIDE DEF z, u
<1>5. u \o z # << >> /\ Tail(u \o z) = Tail(u) \o z /\ (u \o z)[1] = Head(u)
  <2>1. u \o z # << >> /\ Tail(u \o z) = Tail(u) \o z /\ Head(u \o z) = Head(u) /\ u \o z \in Seq(SentType)
    BY ONLY <1>4, CatTail, CatParts
  <2> QED
    BY <2>1
<1> QED
  BY <1>1, <1>2, <1>3, <1>5 DEF Sent, u, z

(* What the server adds comes after all that is on its way.                *)
LEMMA ServeAppend ==
  ASSUME inbox \in Seq(WireType), down \in Seq(WireType), NEW v \in Seq(WireType)
  PROVE  down \o v \in Seq(WireType) /\ inbox \o (down \o v) = Wire \o v
<1>1. (inbox \o down) \o v = inbox \o (down \o v)
  BY CatCat
<1> QED
  BY <1>1, CatParts DEF Wire

(* A message is added behind those on their way.                           *)
LEMMA ServeMore ==
  ASSUME inbox \in Seq(WireType), down \in Seq(WireType), NEW m \in WireType
  PROVE  Append(down, m) \in Seq(WireType) /\ inbox \o Append(down, m) = Append(Wire, m)
BY CatAppend, AppendParts DEF Wire

(* The first names of a list.                                              *)
LEMMA FirstNames ==
  ASSUME NEW l \in Seq(Names), NEW i \in DOMAIN l
  PROVE  Elements(SubSeq(l, 1, i)) = {l[j] : j \in 1 .. i} /\ Elements(SubSeq(l, 1, i)) \subseteq Names
<1> DEFINE u == SubSeq(l, 1, i)
<1>1. DOMAIN u = 1 .. i /\ (\A j \in 1 .. i : u[j] = l[j] /\ l[j] \in Names)
  OBVIOUS
<1> HIDE DEF u
<1>2. Elements(u) = {l[j] : j \in 1 .. i} /\ Elements(u) \subseteq Names
  BY <1>1 DEF Elements
<1> QED
  BY <1>2 DEF u

(* Serve, with a GET,                                                      *)
LEMMA ServeGet == ASSUME IInv, Serve, Head(up).kind = "GET" PROVE IInv'
<1> DEFINE x == Head(up)
           t == subs \ {Monitor}
           m == Message(IF t # {} THEN "error" ELSE "reply", "", 0, x.id)
<1>1. /\ Alive /\ ~closed /\ Sent # << >> /\ Tail(Sent) = up' \o ac.obuf /\ Sent[1] = x
      /\ up' \in Seq(SentType) /\ x \in SentType
      /\ Flow(ac, Wire, Sent, subs, closed, cb, issued, runs)
      /\ inbox \in Seq(WireType) /\ down \in Seq(WireType)
      /\ UNCHANGED << ac, conn, pc, inbox, cb, issued, runs, reported >>
      /\ closed' = closed /\ published' \in Nat /\ faults' \in Nat
  BY ServeParts
<1>2. down' = Append(down, m) /\ subs' = subs
  BY DEF Serve, Monitor
<1>3. (t = {} => m = Reply(x.id)) /\ (t # {} => m = Refusal(x.id)) /\ m \in WireType
  <2>1. x.id \in Ids
    BY <1>1, SentParts
  <2>2. (t = {} => m = Reply(x.id)) /\ (t # {} => m = Refusal(x.id))
    BY DEF Reply, Refusal
  <2>3. Reply(x.id) \in WireType /\ Refusal(x.id) \in WireType
    BY <2>1, Answers
  <2> HIDE DEF m, t
  <2> QED
    BY <2>2, <2>3
<1> HIDE DEF m, x
<1>4. Flow(ac, Append(Wire, m), Tail(Sent), subs, closed, cb, issued, runs)
  <2>1. subs \ {Monitor} = {} => m = Reply(Sent[1].id)
    BY <1>1, <1>3
  <2>2. subs \ {Monitor} # {} => m = Refusal(Sent[1].id)
    BY <1>1, <1>3
  <2>3. Sent[1].kind = "GET"
    BY <1>1 DEF x
  <2> QED
    BY <1>1, <2>1, <2>2, <2>3, FlowServeGet
<1>5. down' \in Seq(WireType) /\ inbox \o down' = Append(Wire, m)
  BY <1>1, <1>2, <1>3, ServeMore
<1> QED
  BY <1>1, <1>2, <1>4, <1>5, ServerStep

(* with a MONITOR,                                                         *)
LEMMA ServeMonitor == ASSUME IInv, Serve, Head(up).kind = Monitor PROVE IInv'
<1> DEFINE x == Head(up)
           m == Reply(x.id)
<1>1. /\ Alive /\ ~closed /\ Sent # << >> /\ Tail(Sent) = up' \o ac.obuf /\ Sent[1] = x
      /\ up' \in Seq(SentType) /\ x \in SentType
      /\ Flow(ac, Wire, Sent, subs, closed, cb, issued, runs)
      /\ inbox \in Seq(WireType) /\ down \in Seq(WireType)
      /\ UNCHANGED << ac, conn, pc, inbox, cb, issued, runs, reported >>
      /\ closed' = closed /\ published' \in Nat /\ faults' \in Nat
  BY ServeParts
<1>2. down' = Append(down, m) /\ subs' = subs \cup {Monitor}
  BY DEF Serve, Monitor, Reply
<1>3. m \in WireType
  <2>1. x.id \in Ids
    BY <1>1, SentParts
  <2> QED
    BY <2>1, Answers
<1>4. Sent[1].kind = Monitor /\ m = Reply(Sent[1].id)
  BY <1>1
<1> HIDE DEF m, x
<1>5. Flow(ac, Append(Wire, m), Tail(Sent), subs', closed, cb, issued, runs)
  BY <1>1, <1>2, <1>4, FlowServeMonitor
<1>6. down' \in Seq(WireType) /\ inbox \o down' = Append(Wire, m)
  BY <1>1, <1>2, <1>3, ServeMore
<1> QED
  BY <1>1, <1>5, <1>6, ServerStep

(* with a SUBSCRIBE,                                                       *)
LEMMA ServeSubscribe == ASSUME IInv, Serve, Head(up).kind = "SUBSCRIBE" PROVE IInv'
<1> DEFINE x == Head(up)
           l == x.names
           f == [i \in DOMAIN l |-> subs \cup Elements(SubSeq(l, 1, i))]
           v == Confirm("subscribe", l, f)
<1>1. /\ Alive /\ ~closed /\ Sent # << >> /\ Tail(Sent) = up' \o ac.obuf /\ Sent[1] = x
      /\ up' \in Seq(SentType) /\ x \in SentType
      /\ Flow(ac, Wire, Sent, subs, closed, cb, issued, runs)
      /\ inbox \in Seq(WireType) /\ down \in Seq(WireType)
      /\ UNCHANGED << ac, conn, pc, inbox, cb, issued, runs, reported >>
      /\ closed' = closed /\ published' \in Nat /\ faults' \in Nat
  BY ServeParts
<1>2. down' = down \o v /\ subs' = subs \cup Elements(l)
  BY DEF Serve, Monitor
<1>3. l \in NameLists /\ x.scope = Elements(l)
  BY <1>1, SentParts
<1>4. l \in Seq(Names) /\ \A i \in DOMAIN l : l[i] \in x.scope
  BY <1>3, ListParts
<1>5. Afterwards(l, f)
  <2>1. subs \in SUBSET (Names \cup {Monitor})
    BY <1>1 DEF Flow, FlowType
  <2>2. \A i \in DOMAIN l : Elements(SubSeq(l, 1, i)) \subseteq Names
    BY <1>4, FirstNames
  <2> QED
    BY <2>1, <2>2 DEF Afterwards
<1> HIDE DEF f, l, x
<1>6. /\ v \in Seq(WireType) /\ DOMAIN v = DOMAIN l
      /\ \A i \in DOMAIN l : v[i].type = "subscribe" /\ v[i].name = l[i]
  <2>1. Confirms(v, "subscribe", l, f)
    BY <1>4, <1>5, Confirmations
  <2> HIDE DEF v
  <2> QED
    BY <2>1 DEF Confirms
<1> HIDE DEF v
<1>7. \A i \in DOMAIN v : v[i].type = "subscribe" /\ v[i].name \in Sent[1].scope
  BY <1>1, <1>4, <1>6
<1>8. Sent[1].kind = "SUBSCRIBE" /\ subs' = subs \cup Sent[1].scope
  BY <1>1, <1>2, <1>3 DEF x
<1>9. Flow(ac, Wire \o v, Tail(Sent), subs', closed, cb, issued, runs)
  BY <1>1, <1>6, <1>7, <1>8, FlowServeSubscribe
<1>10. down' \in Seq(WireType) /\ inbox \o down' = Wire \o v
  BY <1>1, <1>2, <1>6, ServeAppend
<1> QED
  BY <1>1, <1>9, <1>10, ServerStep

(* An order of names has each of them once.                                *)
LEMMA OrdersParts ==
  ASSUME NEW S \in SUBSET Names, S # {}, NEW l \in Orders(S)
  PROVE  l \in Seq(Names) /\ l # << >> /\ Distinct(l) /\ \A i \in DOMAIN l : l[i] \in S
<1> DEFINE n == Cardinality(S)
<1>1. n \in Nat
  BY Bounds, FS_Subset, FS_CardinalityType
<1>2. l \in [1 .. n -> S] /\ Elements(l) = S /\ Distinct(l)
  BY DEF Orders
<1> HIDE DEF n
<1>3. l \in Seq(Names) /\ DOMAIN l = 1 .. n /\ \A i \in DOMAIN l : l[i] \in S
  BY <1>1, <1>2
<1>4. DOMAIN l # {}
  BY <1>2 DEF Elements
<1>5. l # << >>
  <2>1. DOMAIN << >> = {}
    OBVIOUS
  <2> QED
    BY <1>4, <2>1, Zenon
<1> QED
  BY <1>2, <1>3, <1>5

(* and with an UNSUBSCRIBE.                                                *)
LEMMA ServeUnsubscribe == ASSUME IInv, Serve, Head(up).kind = "UNSUBSCRIBE" PROVE IInv'
<1> DEFINE x == Head(up)
           t == subs \ {Monitor}
           W == Wire
           Q == Sent
<1>1. /\ Alive /\ ~closed /\ Q # << >> /\ Tail(Q) = up' \o ac.obuf /\ Q[1] = x
      /\ up' \in Seq(SentType) /\ x \in SentType
      /\ Flow(ac, W, Q, subs, closed, cb, issued, runs)
      /\ inbox \in Seq(WireType) /\ down \in Seq(WireType)
      /\ UNCHANGED << ac, conn, pc, inbox, cb, issued, runs, reported >>
      /\ closed' = closed /\ published' \in Nat /\ faults' \in Nat
  BY ServeParts
<1>2. PICK l \in Ended(x) :
        /\ down' = down \o Confirm("unsubscribe", l, [i \in DOMAIN l |-> subs \ Elements(SubSeq(l, 1, i))])
        /\ subs' = subs \ Elements(l)
  BY DEF Serve, Monitor
<1>3. x.kind = "UNSUBSCRIBE" /\ subs \in SUBSET (Names \cup {Monitor}) /\ x.scope \in SUBSET Names
  BY <1>1, SentParts DEF Flow, FlowType
<1>4. /\ \E n \in x.scope : n \in t
      /\ x.names # << >> => Distinct(x.names) /\ \A n \in x.scope : n \in t
  <2> HIDE DEF W, Q, t
  <2>1. Q \in Seq(SentType) /\ 1 \in DOMAIN Q
    <3>1. Q \in Seq(SentType)
      BY <1>1 DEF Flow, FlowType
    <3> QED
      BY <1>1, <3>1
  <2>2. LastInv(W, Q, t)
    BY <1>1 DEF Flow, SubsInv, t
  <2>3. /\ 1 = Len(Q)
        /\ \E n \in x.scope : n \in t \/ Asked(Q, n)
        /\ x.names # << >> => Distinct(x.names) /\ \A n \in x.scope : n \in t \/ Asked(Q, n)
    BY <1>1, <1>3, <2>1, <2>2 DEF LastInv
  <2>4. \A n : ~Asked(Q, n)
    <3>1. \A p \in DOMAIN Q : p = 1
      BY <2>1, <2>3
    <3> QED
      BY <1>1, <1>3, <3>1 DEF Asked
  <2> QED
    BY <2>3, <2>4
<1>5. /\ l \in Seq(Names) /\ l # << >> /\ Distinct(l) /\ \A i \in DOMAIN l : l[i] \in subs
  <2>1. CASE x.names = << >>
    <3>1. x.scope \cap subs \in SUBSET Names /\ x.scope \cap subs # {} /\ l \in Orders(x.scope \cap subs)
      BY <1>2, <1>3, <1>4, <2>1 DEF Ended
    <3> QED
      BY <3>1, OrdersParts
  <2>2. CASE x.names # << >>
    <3>1. l = x.names /\ l \in NameLists /\ x.scope = Elements(l)
      BY <1>1, <1>2, <1>3, <2>2, SentParts DEF Ended
    <3>2. l \in Seq(Names) /\ l # << >> /\ \A i \in DOMAIN l : l[i] \in x.scope
      BY <3>1, ListParts
    <3> QED
      BY <1>4, <2>2, <3>1, <3>2
  <2> QED
    BY <2>1, <2>2
<1> DEFINE f == [i \in DOMAIN l |-> subs \ Elements(SubSeq(l, 1, i))]
           v == Confirm("unsubscribe", l, f)
<1>6. Afterwards(l, f)
  BY <1>3 DEF Afterwards
<1>7. \A i \in DOMAIN l : Cardinality(f[i] \ {Monitor}) = Left(subs, l, i)
  <2>1. \A i \in DOMAIN l : f[i] = subs \ {l[j] : j \in 1 .. i}
    BY <1>5, FirstNames
  <2> HIDE DEF f
  <2> QED
    BY <2>1, Zenon DEF Left
<1>8. down' = down \o v
  BY <1>2
<1> HIDE DEF x, t, f
<1>9. Confirms(v, "unsubscribe", l, f)
  BY <1>5, <1>6, Confirmations
<1> HIDE DEF v
<1>10. /\ v \in Seq(WireType) /\ DOMAIN v = DOMAIN l /\ Len(v) = Len(l)
       /\ \A i \in DOMAIN l : /\ v[i].type = "unsubscribe" /\ v[i].name = l[i]
                              /\ v[i].count = Left(subs, l, i)
  BY <1>7, <1>9 DEF Confirms
<1>11. Sent[1].kind = "UNSUBSCRIBE"
  BY <1>1, <1>3
<1>12. Flow(ac, Wire \o v, Tail(Sent), subs', closed, cb, issued, runs)
  BY <1>1, <1>2, <1>5, <1>10, <1>11, FlowServeUnsubscribe
<1>13. down' \in Seq(WireType) /\ inbox \o down' = Wire \o v
  BY <1>1, <1>8, <1>10, ServeAppend
<1> QED
  BY <1>1, <1>12, <1>13, ServerStep

(* Serve: the server takes the first command and answers it.               *)
LEMMA ServeStep == IInv /\ Serve => IInv'
<1> SUFFICES ASSUME IInv, Serve PROVE IInv'
  OBVIOUS
<1>1. Head(up) \in SentType
  BY ServeParts
<1>2. Head(up).kind \in {"GET", Monitor, "SUBSCRIBE", "UNSUBSCRIBE"}
  BY <1>1, SentParts
<1> QED
  BY <1>2, ServeGet, ServeMonitor, ServeSubscribe, ServeUnsubscribe

-------------------------------------------------------------------------------
(* The invariant of the specification, and what follows from it.           *)
LEMMA InitStep == Init => IInv
<1> SUFFICES ASSUME Init PROVE IInv
  OBVIOUS
<1>1. TypeOK
  <2>1. /\ DictOK(dictCreate) /\ dictCreate \in DictType(Channels) /\ dictCreate \in DictType(Patterns)
    BY CreateTable DEF Names
  <2>2. << >> \in Seq(0 .. MaxCommands) /\ << >> \in Seq(Ids) /\ << >> \in Seq(SentType)
    OBVIOUS
  <2>3. ac \in ContextType /\ DictOK(ac.channels) /\ DictOK(ac.patterns)
    BY <2>1, <2>2 DEF Init, NoContext, ContextType
  <2>4. conn \in OutcomeType
    BY DEF Init, Unconnected, OutcomeType
  <2>5. issued \in Seq(CommandSet) /\ Len(issued) <= MaxCommands
    BY MaxNat DEF Init
  <2>6. runs \in [Ids -> Seq(MessageType)]
    BY DEF Init, Ids
  <2>7. pc = "events" /\ pc \in {"events", "loop"}
    BY DEF Init
  <2>8. cb \in 0 .. MaxCommands
    BY MaxNat DEF Init
  <2>9. inbox = << >> /\ down = << >> /\ up = << >>
    BY DEF Init
  <2>10. inbox \in Seq(WireType) /\ down \in Seq(WireType) /\ up \in Seq(SentType)
    BY ONLY <2>9
  <2>11. subs \in SUBSET (Names \cup {Monitor})
    BY DEF Init
  <2>12. closed \in BOOLEAN
    BY DEF Init
  <2>13. published \in Nat /\ faults \in Nat
    BY DEF Init
  <2> QED
    BY ONLY <2>3, <2>4, <2>5, <2>6, <2>7, <2>8, <2>10, <2>11, <2>12, <2>13, ZenonT(30) DEF TypeOK
<1>2. OwnReply
  <2>1. issued = << >>
    BY DEF Init
  <2>2. DOMAIN issued = {}
    BY ONLY <2>1
  <2> QED
    BY ONLY <2>2, Zenon DEF OwnReply
<1>3. NoneInv
  BY DEF Init, NoneInv, Ids
<1>4. ac.state = "none"
  BY DEF Init, NoContext
<1> QED
  BY <1>1, <1>2, <1>3, <1>4 DEF IInv, Finished, Alive

(* Every step keeps the invariant.                                         *)
LEMMA NextStep == ASSUME Disciplined PROVE IInv /\ [Next]_vars => IInv'
<1> SUFFICES ASSUME IInv, [Next]_vars PROVE IInv'
  OBVIOUS
<1>1. CASE Connect
  BY <1>1, ConnectStep
<1>2. CASE Issue
  BY <1>2, IssueStep
<1>3. CASE Disconnect
  BY <1>3, DisconnectStep
<1>4. CASE Free
  BY <1>4, FreeStep
<1>5. CASE ConnectFails
  BY <1>5, ConnectFailsStep
<1>6. CASE EventFails
  BY <1>6, EventFailsStep
<1>7. CASE \E n \in 0 .. Len(ac.obuf) : HandleWrite(n)
  BY <1>7, HandleWriteStep
<1>8. CASE \E n \in 0 .. Len(down) : HandleRead(n)
  BY <1>8, HandleReadStep
<1>9. CASE ProcessReply
  BY <1>9, ProcessReplyStep
<1>10. CASE FreeInCallback
  BY <1>10, FreeInCallbackStep
<1>11. CASE ProcessEnd
  BY <1>11, ProcessEndStep
<1>12. CASE Serve
  BY <1>12, ServeStep
<1>13. CASE Publish
  BY <1>13, PublishStep
<1>14. CASE Reject
  BY <1>14, RejectStep
<1>15. CASE CloseConnection
  BY <1>15, CloseStep
<1>16. CASE UNCHANGED vars
  <2>1. /\ ac' = ac /\ conn' = conn /\ pc' = pc /\ inbox' = inbox /\ cb' = cb
        /\ up' = up /\ down' = down /\ subs' = subs /\ closed' = closed
        /\ published' = published /\ faults' = faults
        /\ issued' = issued /\ runs' = runs /\ reported' = reported
    BY <1>16 DEF vars
  <2>2. TypeOK /\ OwnReply /\ Finished
    BY DEF IInv
  <2>3. TypeOK'
    BY ONLY <2>1, <2>2, ZenonT(30) DEF TypeOK
  <2>4. OwnReply'
    BY ONLY <2>1, <2>2, ZenonT(30) DEF OwnReply
  <2>5. Finished'
    BY ONLY <2>1, <2>2, ZenonT(30) DEF Finished
  <2>6. NoneInv => NoneInv'
    BY ONLY <2>1, ZenonT(30) DEF NoneInv
  <2>7. LiveInv => LiveInv'
    <3>1. LoopInv => LoopInv'
      BY ONLY <2>1, ZenonT(30) DEF LoopInv
    <3>2. Wire' = Wire /\ Sent' = Sent
      BY ONLY <2>1 DEF Wire, Sent
    <3> QED
      BY ONLY <2>1, <3>1, <3>2, ZenonT(30) DEF LiveInv
  <2>8. (ac.state = "none" => NoneInv) /\ (Alive => LiveInv)
    BY DEF IInv
  <2>9. (ac.state = "none")' = (ac.state = "none") /\ Alive' = Alive
    BY ONLY <2>1 DEF Alive
  <2> QED
    BY ONLY <2>3, <2>4, <2>5, <2>6, <2>7, <2>8, <2>9, ZenonT(30) DEF IInv
<1>17. CASE LoopFails
  BY <1>17, LoopFailsStep
<1> QED
  BY <1>1, <1>2, <1>3, <1>4, <1>5, <1>6, <1>7, <1>8, <1>9, <1>10, <1>11, <1>12, <1>13, <1>14, <1>15, <1>16, <1>17 DEF Next

(* Every state of the context, of what is on its way and of the histories  *)
(* satisfies the invariant: the callbacks that async.c keeps in its lists  *)
(* and tables are those of the replies that are to come, in their order.   *)
THEOREM Invariance == ASSUME Disciplined PROVE Spec => []IInv
<1>1. Init => IInv
  BY InitStep
<1>2. IInv /\ [Next]_vars => IInv'
  BY NextStep
<1> QED
  BY <1>1, <1>2, PTL DEF Spec

(* The asserts of redisProcessCallbacks and __redisAsyncDisconnect never   *)
(* fail, if the application is disciplined: Sensible, which the library    *)
(* neither documents nor checks, is an assumption.                         *)
THEOREM NoAssertion == ASSUME Disciplined PROVE Spec => []AssertionsHold
<1>1. IInv => AssertionsHold
  BY DEF IInv, TypeOK, ContextType, AssertionsHold
<1> QED
  BY <1>1, Invariance, PTL

(* redisProcessCallbacks and __redisAsyncFree run the callback of a        *)
(* command with the reply to it, the server's rejection or NULL, that of a *)
(* subscription with what is about its names, and each as often as it may. *)
THEOREM Replies == ASSUME Disciplined PROVE Spec => []OwnReply
<1>1. IInv => OwnReply
  BY DEF IInv
<1> QED
  BY <1>1, Invariance, PTL

(* Once __redisAsyncFree has freed the context nobody waits for a reply,   *)
(* the calls of onConnect and onDisconnect agree, and the descriptor is    *)
(* closed.                                                                 *)
THEOREM AllFinished == ASSUME Disciplined PROVE Spec => []Finished
<1>1. IInv => Finished
  BY DEF IInv
<1> QED
  BY <1>1, Invariance, PTL

(* When nothing is on its way, the tables that __redisAsyncCommand and     *)
(* __redisGetSubscribeCallback keep have the names the server has.         *)
THEOREM Subscribed == ASSUME Disciplined PROVE Spec => []SubscriptionsAgree
<1>1. IInv => SubscriptionsAgree
  <2> SUFFICES ASSUME IInv, Alive, pc = "events", ac.obuf \o up = << >>, down = << >>
               PROVE  /\ AllNames(ac) = subs \ {Monitor}
                      /\ \A n \in AllNames(ac) :
                           dictFind(IF n \in Patterns THEN ac.patterns ELSE ac.channels, n) # {}
                      /\ ac.subscribed <=> AllNames(ac) # {}
    BY DEF SubscriptionsAgree
  <2>1. /\ LoopInv /\ Flow(ac, Wire, Sent, subs, closed, cb, issued, runs)
        /\ ac \in ContextType /\ up \in Seq(SentType) /\ ac.obuf \in Seq(SentType)
    BY LiveParts
  <2>2. Wire = << >> /\ Sent = << >>
    <3>1. inbox = << >>
      BY <2>1 DEF LoopInv
    <3>2. up = << >> /\ ac.obuf = << >>
      BY <2>1
    <3> QED
      BY <3>1, <3>2 DEF Wire, Sent
  <2> DEFINE t == subs \ {Monitor}
  <2>3. t \subseteq Names /\ DictOK(ac.channels) /\ DictOK(ac.patterns)
    BY <2>1 DEF Flow, FlowType
  <2>4. TablesInv(ac, Wire, Sent, t)
    BY <2>1 DEF Flow, SubsInv
  <2> HIDE DEF t
  <2>5. AllNames(ac) \subseteq Names
    BY <2>1, NamesOf
  <2>6. \A n : ~Asked(Sent, n) /\ ~Ending(Wire, n)
    BY <2>2, AskedNone DEF Ending
  <2>7. AllNames(ac) = t
    BY <2>3, <2>4, <2>5, <2>6 DEF TablesInv
  <2>8. ASSUME NEW n \in AllNames(ac)
        PROVE  dictFind(IF n \in Patterns THEN ac.patterns ELSE ac.channels, n) # {}
    <3>1. dictFind(IF n \in Patterns THEN ac.patterns ELSE ac.channels, n) = {e \in Subscriptions(ac) : e.key = n}
      BY <2>1, <2>3, <2>5, NameFound
    <3>2. \E e \in Subscriptions(ac) : e.key = n
      BY <2>1, NamesOf
    <3> QED
      BY <3>1, <3>2
  <2> QED
    BY <2>4, <2>7, <2>8 DEF TablesInv, t
<1> QED
  BY <1>1, Invariance, PTL
===============================================================================
