----------------------------- MODULE TuplesProofs -----------------------------
(***************************************************************************)
(* What the engines' files hold, for any set of records and sequences of   *)
(* any length.  First, each operation of OSFile: the file stays a file, it *)
(* keeps its durable prefix, and the records written keep their places.    *)
(* Then what is read of a file whose records may be torn, and what         *)
(* replaying a sequence of tuples yields: LastOf on a longer sequence, and *)
(* on two sequences one after the other.                                   *)
(***************************************************************************)
EXTENDS Tuples, TLAPS, WellFoundedInduction

(* Opening the log changes none of its records.                            *)
LEMMA OpenFile ==
  ASSUME NEW Records, NEW f \in FileType(Records)
  PROVE  /\ Open(f) \in FileType(Records)
         /\ Open(f).data = f.data
         /\ Open(f).synced = f.synced
         /\ Open(f).privileged = f.privileged
BY DEF FileType, Open

(* A write adds its record at the end and touches nothing before it.       *)
LEMMA WriteFile ==
  ASSUME NEW Records, NEW f \in FileType(Records), NEW r \in Records \cup {Torn}
  PROVE  /\ Write(f, r) \in FileType(Records)
         /\ Write(f, r).synced = f.synced
         /\ Write(f, r).privileged = f.privileged
         /\ Len(Write(f, r).data) = Len(f.data) + 1
         /\ \A i \in DOMAIN f.data : Write(f, r).data[i] = f.data[i]
         /\ Write(f, r).data[Len(f.data) + 1] = r
<1> DEFINE s == Append(f.data, r)
<1>1. /\ f.data \in Seq(Records \cup {Torn})
      /\ f.synced \in Nat /\ f.synced <= Len(f.data)
  BY DEF FileType
<1>2. /\ s \in Seq(Records \cup {Torn})
      /\ Len(s) = Len(f.data) + 1
      /\ \A i \in DOMAIN f.data : s[i] = f.data[i]
      /\ s[Len(f.data) + 1] = r
  BY <1>1
<1>3. f.synced <= Len(s)
  BY <1>1, <1>2
<1>4. Write(f, r) = [f EXCEPT !.data = s]
  BY DEF Write
<1> HIDE DEF s
<1>5. /\ Write(f, r).data = s /\ Write(f, r).synced = f.synced
      /\ Write(f, r).privileged = f.privileged
  BY <1>4 DEF FileType
<1>6. Write(f, r) \in FileType(Records)
  BY <1>2, <1>3, <1>4 DEF FileType
<1> QED
  BY <1>2, <1>5, <1>6

(* Sync changes no record, and unless fsync may fail it makes all of them  *)
(* durable.                                                                *)
LEMMA SyncFile ==
  ASSUME NEW Records, NEW f \in FileType(Records), NEW g \in Sync(f)
  PROVE  /\ g \in FileType(Records)
         /\ g.data = f.data
         /\ f.synced <= g.synced
         /\ g.privileged = f.privileged
         /\ ~FsyncMayFail => g.synced = Len(f.data)
<1>1. CASE g = f
  BY <1>1 DEF FileType, Sync
<1>2. CASE g = [f EXCEPT !.synced = Len(f.data)]
  BY <1>2 DEF FileType
<1> QED
  BY <1>1, <1>2 DEF Sync

(* A crash keeps the durable prefix, and what it leaves of the rest is     *)
(* where it was, or torn.                                                  *)
LEMMA CrashFile ==
  ASSUME NEW Records, NEW f \in FileType(Records), NEW g \in AfterCrash(f)
  PROVE  /\ g \in FileType(Records)
         /\ f.synced <= g.synced
         /\ \A i \in 1 .. f.synced : g.data[i] = f.data[i]
         /\ Len(g.data) <= Len(f.data)
         /\ \A i \in DOMAIN g.data : g.data[i] = f.data[i] \/ g.data[i] = Torn
<1> DEFINE kept(n) == SubSeq(f.data, 1, n)
<1> DEFINE onDisk(s) == [f EXCEPT !.data = s, !.synced = Len(s)]
<1>1. ASSUME NEW n \in f.synced .. Len(f.data)
      PROVE  /\ kept(n) \in Seq(Records \cup {Torn})
             /\ Len(kept(n)) = n
             /\ \A i \in 1 .. n : kept(n)[i] = f.data[i]
             /\ \A i \in 1 .. f.synced : kept(n)[i] = f.data[i]
  BY DEF FileType
<1>2. ASSUME NEW s \in Seq(Records \cup {Torn}), f.synced <= Len(s), Len(s) <= Len(f.data),
             \A i \in 1 .. f.synced : s[i] = f.data[i],
             \A i \in DOMAIN s : s[i] = f.data[i] \/ s[i] = Torn
      PROVE  /\ onDisk(s) \in FileType(Records)
             /\ f.synced <= onDisk(s).synced
             /\ \A i \in 1 .. f.synced : onDisk(s).data[i] = f.data[i]
             /\ Len(onDisk(s).data) <= Len(f.data)
             /\ \A i \in DOMAIN onDisk(s).data :
                  onDisk(s).data[i] = f.data[i] \/ onDisk(s).data[i] = Torn
  <2> DEFINE n == Len(s)
  <2>1. n \in Nat /\ n <= Len(s)
    BY <1>2
  <2>2. onDisk(s) = [f EXCEPT !.data = s, !.synced = n]
    OBVIOUS
  <2> HIDE DEF n, onDisk
  <2>3. onDisk(s).data = s /\ onDisk(s).synced = n
    BY <2>2 DEF FileType
  <2>4. onDisk(s) \in FileType(Records)
    BY <1>2, <2>1, <2>2 DEF FileType
  <2> QED
    BY <1>2, <2>3, <2>4 DEF n
<1>3. CASE g = f
  BY <1>3 DEF FileType
<1>4. CASE \E n \in f.synced .. Len(f.data) : g = onDisk(kept(n))
  <2>1. PICK n \in f.synced .. Len(f.data) : g = onDisk(kept(n))
    BY <1>4
  <2>2. f.synced <= n /\ n <= Len(f.data)
    BY DEF FileType
  <2> HIDE DEF kept, onDisk
  <2>3. DOMAIN kept(n) = 1 .. n
    BY <1>1
  <2> QED
    BY <1>1, <1>2, <2>1, <2>2, <2>3
<1>5. CASE \E n \in f.synced .. (Len(f.data) - 1) : g = onDisk(Append(kept(n), Torn))
  <2>1. PICK n \in f.synced .. (Len(f.data) - 1) : g = onDisk(Append(kept(n), Torn))
    BY <1>5
  <2>2. /\ n \in f.synced .. Len(f.data) /\ f.synced \in Nat /\ n \in Nat /\ f.synced <= n
        /\ n + 1 <= Len(f.data)
    BY DEF FileType
  <2> HIDE DEF kept, onDisk
  <2>3. /\ kept(n) \in Seq(Records \cup {Torn})
        /\ Len(kept(n)) = n
        /\ \A i \in 1 .. n : kept(n)[i] = f.data[i]
        /\ \A i \in 1 .. f.synced : kept(n)[i] = f.data[i]
    BY <1>1, <2>2
  <2>4. /\ Append(kept(n), Torn) \in Seq(Records \cup {Torn})
        /\ Len(Append(kept(n), Torn)) = n + 1
        /\ \A i \in 1 .. f.synced : Append(kept(n), Torn)[i] = f.data[i]
        /\ \A i \in DOMAIN Append(kept(n), Torn) :
             Append(kept(n), Torn)[i] = f.data[i] \/ Append(kept(n), Torn)[i] = Torn
    BY <2>2, <2>3
  <2>5. f.synced <= Len(Append(kept(n), Torn))
    BY <2>2, <2>4
  <2> QED
    BY <1>2, <2>1, <2>2, <2>4, <2>5
<1> QED
  BY <1>3, <1>4, <1>5 DEF AfterCrash, AfterPowerFailure

-------------------------------------------------------------------------------
(* What a disk log has: tuples, and records of which a part is missing.    *)
Entry == Tuple \cup {Torn}

(* A tuple has a key and a version, and is neither of the two values that  *)
(* are no tuple.                                                           *)
LEMMA TupleParts ==
  ASSUME NEW t \in Tuple
  PROVE  /\ t.key \in Keys /\ t.ver \in Nat /\ t.ver <= MaxWrites
         /\ t # NoTuple /\ t # Torn
BY TupleAssumption DEF Tuple

(* The records of a file and its durable part are sequences.               *)
LEMMA FileParts ==
  ASSUME NEW f \in FileType(Tuple)
  PROVE  /\ f.data \in Seq(Entry) /\ Len(f.data) \in Nat
         /\ DOMAIN f.data = 1 .. Len(f.data)
         /\ f.synced \in Nat /\ f.synced <= Len(f.data)
         /\ SubSeq(f.data, 1, f.synced) \in Seq(Entry)
         /\ Len(SubSeq(f.data, 1, f.synced)) = f.synced
         /\ DOMAIN SubSeq(f.data, 1, f.synced) = 1 .. f.synced
         /\ \A i \in 1 .. f.synced : SubSeq(f.data, 1, f.synced)[i] = f.data[i]
<1>1. /\ f.data \in Seq(Entry)
      /\ f.synced \in Nat /\ f.synced <= Len(f.data)
  BY DEF FileType, Entry
<1> QED
  BY <1>1

(* A bounded set of naturals that is not empty has a greatest element.     *)
LEMMA GreatestNatural ==
  ASSUME NEW S \in SUBSET Nat, S # {}, NEW n \in Nat, \A i \in S : i <= n
  PROVE  \E m \in S : \A i \in S : i <= m
<1> DEFINE below == {d \in Nat : n - d \in S}
<1>1. below \subseteq Nat /\ below # {}
  <2>1. PICK i \in S : TRUE
    OBVIOUS
  <2>2. n - i \in Nat /\ n - (n - i) = i
    BY <2>1
  <2> QED
    BY <2>1, <2>2
<1> HIDE DEF below
<1>2. PICK d \in below : \A e \in below : << e, d >> \notin OpToRel(<, Nat)
  BY <1>1, WFMin, NatLessThanWellFounded, Zenon
<1>3. \A e \in below : ~(e < d)
  BY <1>1, <1>2, Zenon DEF OpToRel
<1>4. n - d \in S /\ d \in Nat
  BY DEF below
<1>5. ASSUME NEW i \in S PROVE i <= n - d
  <2>1. n - i \in below
    BY DEF below
  <2>2. ~(n - i < d)
    BY <1>3, <2>1
  <2> QED
    BY <1>4, <2>2
<1> QED
  BY <1>4, <1>5

(* What is read of a sequence of records: all that comes before the first  *)
(* torn one.                                                               *)
LEMMA ReadableParts ==
  ASSUME NEW s \in Seq(Entry)
  PROVE  \E n \in Nat :
           /\ n <= Len(s)
           /\ Readable(s) \in Seq(Tuple) /\ Len(Readable(s)) = n
           /\ \A i \in 1 .. n : Readable(s)[i] = s[i] /\ s[i] # Torn
           /\ n < Len(s) => s[n + 1] = Torn
<1> DEFINE whole == {i \in DOMAIN s : \A j \in 1 .. i : s[j] # Torn}
<1>1. Len(s) \in Nat /\ DOMAIN s = 1 .. Len(s)
  OBVIOUS
<1>2. PICK n \in whole \cup {0} : \A i \in whole \cup {0} : i <= n
  <2>1. /\ whole \cup {0} \in SUBSET Nat /\ whole \cup {0} # {}
        /\ \A i \in whole \cup {0} : i <= Len(s)
    BY <1>1
  <2> HIDE DEF whole
  <2> QED
    BY <1>1, <2>1, GreatestNatural
<1>3. n \in Nat /\ n <= Len(s)
  BY <1>1
<1>4. \A j \in 1 .. n : s[j] # Torn
  BY <1>1
<1>5. whole = 1 .. n
  <2>1. ASSUME NEW i \in whole PROVE i \in 1 .. n
    BY <1>1, <1>2, <2>1
  <2>2. ASSUME NEW i \in 1 .. n PROVE i \in whole
    BY <1>1, <1>3, <1>4
  <2> QED
    BY <2>1, <2>2
<1>6. ASSUME n < Len(s) PROVE s[n + 1] = Torn
  <2>1. n + 1 \in DOMAIN s /\ n + 1 \notin whole
    BY <1>1, <1>3, <1>5, <1>6
  <2>2. PICK j \in 1 .. (n + 1) : s[j] = Torn
    BY <2>1
  <2>3. j = n + 1
    BY <1>3, <1>4, <2>2
  <2> QED
    BY <2>2, <2>3
<1>7. Readable(s) = [i \in 1 .. n |-> s[i]]
  BY <1>5 DEF Readable
<1> HIDE DEF whole
<1>8. \A i \in 1 .. n : s[i] \in Tuple
  BY <1>1, <1>3, <1>4 DEF Entry
<1> QED
  BY <1>3, <1>4, <1>6, <1>7, <1>8

(* Of a sequence without a torn record, everything is read.                *)
LEMMA ReadableWhole ==
  ASSUME NEW s \in Seq(Entry), \A i \in DOMAIN s : s[i] # Torn
  PROVE  Readable(s) = s /\ s \in Seq(Tuple)
<1>1. /\ DOMAIN s = 1 .. Len(s) /\ Len(s) \in Nat
      /\ \A i \in DOMAIN s : s[i] \in Tuple
  BY DEF Entry
<1>2. {i \in DOMAIN s : \A j \in 1 .. i : s[j] # Torn} = DOMAIN s
  BY <1>1
<1>3. Readable(s) = [i \in DOMAIN s |-> s[i]]
  BY <1>2 DEF Readable
<1> QED
  BY <1>1, <1>3

(* What is read of a longer sequence extends what is read of the shorter   *)
(* one, with records that are new.                                         *)
LEMMA ReadableGrows ==
  ASSUME NEW s \in Seq(Entry), NEW r \in Seq(Entry), Len(s) <= Len(r),
         \A i \in 1 .. Len(s) : r[i] = s[i]
  PROVE  /\ Readable(s) \in Seq(Tuple) /\ Readable(r) \in Seq(Tuple)
         /\ Len(Readable(s)) <= Len(Readable(r))
         /\ \A i \in 1 .. Len(Readable(s)) : Readable(r)[i] = Readable(s)[i]
         /\ \A i \in DOMAIN Readable(r) : i > Len(Readable(s)) =>
              i > Len(s) /\ i <= Len(r) /\ r[i] # Torn /\ Readable(r)[i] = r[i]
<1>1. PICK n \in Nat :
        /\ n <= Len(s)
        /\ Readable(s) \in Seq(Tuple) /\ Len(Readable(s)) = n
        /\ \A i \in 1 .. n : Readable(s)[i] = s[i] /\ s[i] # Torn
        /\ n < Len(s) => s[n + 1] = Torn
  BY ReadableParts
<1>2. PICK m \in Nat :
        /\ m <= Len(r)
        /\ Readable(r) \in Seq(Tuple) /\ Len(Readable(r)) = m
        /\ \A i \in 1 .. m : Readable(r)[i] = r[i] /\ r[i] # Torn
        /\ m < Len(r) => r[m + 1] = Torn
  BY ReadableParts
<1>3. Len(s) \in Nat /\ Len(r) \in Nat /\ DOMAIN Readable(r) = 1 .. m
  BY <1>2
<1>4. n <= m
  <2>1. ASSUME m < n PROVE FALSE
    <3>1. m + 1 \in 1 .. n /\ m + 1 \in 1 .. Len(s) /\ m < Len(r)
      BY <1>1, <1>3, <2>1
    <3> QED
      BY <1>1, <1>2, <3>1
  <2> QED
    BY <2>1
<1>5. n < Len(s) => m = n
  <2>1. ASSUME n < Len(s), n < m PROVE FALSE
    <3>1. n + 1 \in 1 .. m /\ n + 1 \in 1 .. Len(s)
      BY <1>3, <2>1
    <3> QED
      BY <1>1, <1>2, <2>1, <3>1
  <2> QED
    BY <1>4, <2>1
<1>6. \A i \in 1 .. n : Readable(r)[i] = Readable(s)[i]
  BY <1>1, <1>2, <1>3, <1>4
<1>7. ASSUME NEW i \in 1 .. m, i > n
      PROVE  i > Len(s) /\ i <= Len(r) /\ r[i] # Torn /\ Readable(r)[i] = r[i]
  BY <1>1, <1>2, <1>3, <1>5, <1>7
<1> QED
  BY <1>1, <1>2, <1>3, <1>4, <1>6, <1>7

(* The tuples of key k in s.                                               *)
At(s, k) == {i \in DOMAIN s : s[i].key = k}

(* What is the last tuple of a key: no other one comes after it.           *)
LEMMA LastIs ==
  ASSUME NEW s \in Seq(Tuple), NEW k, NEW i \in At(s, k),
         \A j \in At(s, k) : j <= i
  PROVE  LastOf(s, k) = s[i]
<1>1. At(s, k) \subseteq Nat
  BY DEF At
<1>2. (CHOOSE m \in At(s, k) : \A j \in At(s, k) : j <= m) = i
  BY <1>1
<1> QED
  BY <1>2 DEF LastOf, At

(* Without a tuple of the key there is none to return.                     *)
LEMMA LastIsNone ==
  ASSUME NEW s, NEW k, At(s, k) = {}
  PROVE  LastOf(s, k) = NoTuple
BY DEF LastOf, At

(* With one, there is a last one.                                          *)
LEMMA LastExists ==
  ASSUME NEW s \in Seq(Tuple), NEW k, At(s, k) # {}
  PROVE  \E i \in At(s, k) : LastOf(s, k) = s[i] /\ \A j \in At(s, k) : j <= i
<1>1. At(s, k) \in SUBSET Nat /\ Len(s) \in Nat /\ \A i \in At(s, k) : i <= Len(s)
  BY DEF At
<1>2. PICK i \in At(s, k) : \A j \in At(s, k) : j <= i
  BY <1>1, GreatestNatural
<1> QED
  BY <1>2, LastIs

(* LastOf is a tuple of the key, or none.                                  *)
LEMMA LastType ==
  ASSUME NEW s \in Seq(Tuple), NEW k
  PROVE  /\ LastOf(s, k) \in Tuple \cup {NoTuple}
         /\ LastOf(s, k) # NoTuple => LastOf(s, k).key = k
         /\ LastOf(s, k) = NoTuple <=> At(s, k) = {}
<1>1. CASE At(s, k) = {}
  BY <1>1, LastIsNone
<1>2. CASE At(s, k) # {}
  <2>1. PICK i \in At(s, k) : LastOf(s, k) = s[i]
    BY <1>2, LastExists
  <2>2. s[i] \in Tuple /\ s[i].key = k
    BY DEF At
  <2> QED
    BY <1>2, <2>1, <2>2, TupleParts
<1> QED
  BY <1>1, <1>2

(* Sequences that agree on the tuples of a key agree on the last one.      *)
LEMMA LastAgrees ==
  ASSUME NEW s \in Seq(Tuple), NEW r \in Seq(Tuple), NEW k,
         At(r, k) = At(s, k), \A i \in At(s, k) : r[i] = s[i]
  PROVE  LastOf(r, k) = LastOf(s, k)
<1>1. CASE At(s, k) = {}
  BY <1>1, LastIsNone
<1>2. CASE At(s, k) # {}
  <2>1. PICK i \in At(s, k) : LastOf(s, k) = s[i] /\ \A j \in At(s, k) : j <= i
    BY <1>2, LastExists
  <2>2. LastOf(r, k) = r[i]
    BY <2>1, LastIs
  <2> QED
    BY <2>1, <2>2
<1> QED
  BY <1>1, <1>2

(* One more element.                                                       *)
LEMMA LastAppend ==
  ASSUME NEW s \in Seq(Tuple), NEW t \in Tuple, NEW k
  PROVE  LastOf(Append(s, t), k) = IF t.key = k THEN t ELSE LastOf(s, k)
<1> DEFINE r == Append(s, t)
<1>1. /\ r \in Seq(Tuple) /\ Len(s) \in Nat
      /\ DOMAIN s = 1 .. Len(s) /\ DOMAIN r = 1 .. (Len(s) + 1)
      /\ \A i \in 1 .. Len(s) : r[i] = s[i]
      /\ r[Len(s) + 1] = t
  OBVIOUS
<1> HIDE DEF r
<1>2. CASE t.key = k
  <2>1. Len(s) + 1 \in At(r, k) /\ \A j \in At(r, k) : j <= Len(s) + 1
    BY <1>1, <1>2 DEF At
  <2> QED
    BY <1>1, <1>2, <2>1, LastIs DEF r
<1>3. CASE ~(t.key = k)
  <2>1. At(r, k) = At(s, k)
    BY <1>1, <1>3 DEF At
  <2>2. \A i \in At(s, k) : r[i] = s[i]
    BY <1>1 DEF At
  <2> QED
    BY <1>1, <1>3, <2>1, <2>2, LastAgrees DEF r
<1> QED
  BY <1>2, <1>3

(* The same for a tuple written to a file that has no torn record.         *)
LEMMA LastWritten ==
  ASSUME NEW f \in FileType(Tuple), NEW t \in Tuple, NEW k,
         \A i \in DOMAIN f.data : f.data[i] # Torn
  PROVE  LastOf(Write(f, t).data, k) = IF t.key = k THEN t ELSE LastOf(f.data, k)
<1> DEFINE s == f.data
<1>1. s \in Seq(Tuple)
  BY FileParts, ReadableWhole
<1>2. Write(f, t).data = Append(s, t)
  BY DEF Write, FileType
<1> HIDE DEF s
<1>3. LastOf(Append(s, t), k) = IF t.key = k THEN t ELSE LastOf(s, k)
  BY <1>1, LastAppend
<1> QED
  BY <1>2, <1>3 DEF s

(* One sequence after another: the second one decides if it has the key.   *)
LEMMA LastConcat ==
  ASSUME NEW s \in Seq(Tuple), NEW u \in Seq(Tuple), NEW k
  PROVE  LastOf(s \o u, k) = IF At(u, k) = {} THEN LastOf(s, k) ELSE LastOf(u, k)
<1> DEFINE r == s \o u
<1>1. /\ r \in Seq(Tuple) /\ Len(s) \in Nat /\ Len(u) \in Nat
      /\ DOMAIN s = 1 .. Len(s) /\ DOMAIN u = 1 .. Len(u)
      /\ DOMAIN r = 1 .. (Len(s) + Len(u))
      /\ \A i \in 1 .. Len(s) : r[i] = s[i]
      /\ \A i \in 1 .. Len(u) : r[Len(s) + i] = u[i]
  OBVIOUS
<1> HIDE DEF r
<1>2. ASSUME NEW i \in At(r, k), i > Len(s)
      PROVE  i - Len(s) \in At(u, k)
  <2>1. i - Len(s) \in 1 .. Len(u) /\ i = Len(s) + (i - Len(s))
    BY <1>1, <1>2 DEF At
  <2>2. r[i] = u[i - Len(s)]
    BY <1>1, <2>1
  <2> QED
    BY <1>1, <2>1, <2>2 DEF At
<1>3. CASE At(u, k) = {}
  <2>1. At(r, k) = At(s, k)
    <3>1. ASSUME NEW i \in At(r, k) PROVE i \in 1 .. Len(s)
      <4>1. i \in 1 .. (Len(s) + Len(u))
        BY <1>1 DEF At
      <4>2. ~(i > Len(s))
        BY <1>2, <1>3
      <4> QED
        BY <1>1, <4>1, <4>2
    <3> QED
      BY <1>1, <3>1 DEF At
  <2>2. \A i \in At(s, k) : r[i] = s[i]
    BY <1>1 DEF At
  <2> QED
    BY <1>1, <1>3, <2>1, <2>2, LastAgrees DEF r
<1>4. CASE At(u, k) # {}
  <2>1. PICK i \in At(u, k) : LastOf(u, k) = u[i] /\ \A j \in At(u, k) : j <= i
    BY <1>4, LastExists
  <2>2. i \in 1 .. Len(u) /\ r[Len(s) + i] = u[i] /\ u[i].key = k
    BY <1>1 DEF At
  <2>3. Len(s) + i \in At(r, k)
    BY <1>1, <2>2 DEF At
  <2>4. ASSUME NEW j \in At(r, k) PROVE j <= Len(s) + i
    <3>1. j \in Nat
      BY <1>1 DEF At
    <3>2. CASE j > Len(s)
      <4>1. j - Len(s) <= i
        BY <1>2, <2>1, <3>2
      <4> QED
        BY <1>1, <2>2, <3>1, <4>1
    <3> QED
      BY <1>1, <2>2, <3>1, <3>2
  <2>5. LastOf(r, k) = r[Len(s) + i]
    BY <1>1, <2>3, <2>4, LastIs
  <2> QED
    BY <1>4, <2>1, <2>2, <2>5 DEF r
<1> QED
  BY <1>3, <1>4

(* The last elements of s are those of u.                                  *)
EndsWith(s, u) ==
  /\ Len(u) <= Len(s)
  /\ \A i \in 1 .. Len(u) : s[Len(s) - Len(u) + i] = u[i]

(* Then s and u agree on the keys that u has.                              *)
LEMMA LastSuffix ==
  ASSUME NEW s \in Seq(Tuple), NEW u \in Seq(Tuple), NEW k, EndsWith(s, u), At(u, k) # {}
  PROVE  LastOf(s, k) = LastOf(u, k)
<1> DEFINE m == Len(s) - Len(u)
<1>1. /\ Len(s) \in Nat /\ Len(u) \in Nat /\ m \in Nat /\ Len(s) = m + Len(u)
      /\ DOMAIN s = 1 .. Len(s) /\ DOMAIN u = 1 .. Len(u)
      /\ \A i \in 1 .. Len(u) : s[m + i] = u[i]
  BY DEF EndsWith
<1> HIDE DEF m
<1>2. PICK i \in At(u, k) : LastOf(u, k) = u[i] /\ \A j \in At(u, k) : j <= i
  BY LastExists
<1>3. i \in 1 .. Len(u) /\ u[i].key = k
  BY <1>1 DEF At
<1>4. m + i \in DOMAIN s /\ s[m + i] = u[i]
  BY <1>1, <1>3
<1>5. m + i \in At(s, k)
  BY <1>3, <1>4 DEF At
<1>6. ASSUME NEW j \in At(s, k) PROVE j <= m + i
  <2>1. j \in 1 .. Len(s) /\ s[j].key = k
    BY <1>1 DEF At
  <2>2. CASE j > m
    <3>1. j - m \in 1 .. Len(u) /\ m + (j - m) = j
      BY <1>1, <2>1, <2>2
    <3>2. u[j - m] = s[j]
      BY <1>1, <3>1
    <3>3. j - m \in At(u, k)
      BY <1>1, <2>1, <3>1, <3>2 DEF At
    <3> QED
      BY <1>1, <1>2, <1>3, <2>1, <3>3
  <2> QED
    BY <1>1, <1>3, <2>1, <2>2
<1>7. LastOf(s, k) = s[m + i]
  BY <1>5, <1>6, LastIs
<1> QED
  BY <1>2, <1>4, <1>7

(* e is d with more at the end, of which u has all the keys.               *)
Extends(e, d, u) ==
  /\ Len(d) <= Len(e)
  /\ \A i \in 1 .. Len(d) : e[i] = d[i]
  /\ \A i \in DOMAIN e : i > Len(d) => At(u, e[i].key) # {}

(* Then d and u, one after the other, yield the same as e and u.           *)
LEMMA LastExtended ==
  ASSUME NEW d \in Seq(Tuple), NEW e \in Seq(Tuple),
         NEW u \in Seq(Tuple), NEW k, Extends(e, d, u)
  PROVE  LastOf(e \o u, k) = LastOf(d \o u, k)
<1>1. CASE At(u, k) # {}
  <2>1. LastOf(e \o u, k) = LastOf(u, k) /\ LastOf(d \o u, k) = LastOf(u, k)
    BY <1>1, LastConcat
  <2> QED
    BY <2>1
<1>2. CASE At(u, k) = {}
  <2>1. /\ Len(d) \in Nat /\ Len(e) \in Nat
        /\ DOMAIN d = 1 .. Len(d) /\ DOMAIN e = 1 .. Len(e)
    OBVIOUS
  <2>2. \A i \in At(e, k) : i \in 1 .. Len(d)
    BY <1>2, <2>1 DEF At, Extends
  <2>3. \A i \in At(d, k) : e[i] = d[i] /\ i \in DOMAIN e
    BY <2>1 DEF At, Extends
  <2>4. At(e, k) = At(d, k)
    BY <2>1, <2>2, <2>3 DEF At, Extends
  <2>5. LastOf(e, k) = LastOf(d, k)
    BY <2>3, <2>4, LastAgrees
  <2>6. LastOf(e \o u, k) = LastOf(e, k) /\ LastOf(d \o u, k) = LastOf(d, k)
    BY <1>2, LastConcat
  <2> QED
    BY <2>5, <2>6
<1> QED
  BY <1>1, <1>2
===============================================================================
