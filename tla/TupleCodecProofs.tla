--------------------------- MODULE TupleCodecProofs ---------------------------
(***************************************************************************)
(* Proofs about TupleCodec: values that are shorter than a field come back *)
(* from the tuple as they were, for any number and size of fields, any     *)
(* characters and any order of the pairs.                                  *)
(***************************************************************************)
EXTENDS TupleCodec, TLAPS

Positions == 0 .. (kFieldSize - 1)
Size == kNumOfFields * kFieldSize

(* The value s of field i as it lies in the tuple, with zeros behind.      *)
Holds(i, s) ==
  \A p \in Positions : tuple[Start(i) + p] = IF p < Len(s) THEN s[p + 1] ELSE NUL

Given(i, s) == \E n \in DOMAIN values : values[n] = << FieldName(i), s >>

ValuesOK ==
  /\ \E S : values \in Seq(S)
  /\ \A n \in DOMAIN values : \E i \in Fields, s \in Values : values[n] = << FieldName(i), s >>
  /\ \A m, n \in DOMAIN values : values[m][1] = values[n][1] => m = n

(* Every field holds the value that was given for it, or nothing.          *)
IInv ==
  /\ ValuesOK
  /\ tuple \in [0 .. (Size - 1) -> Chars \cup {NUL}]
  /\ \A i \in Fields :
       /\ \A s \in Values : Given(i, s) => Holds(i, s)
       /\ (\A s \in Values : ~Given(i, s)) => Holds(i, << >>)

-------------------------------------------------------------------------------
(* Where the fields are.                                                   *)

(* Products of naturals.                                                   *)
LEMMA Products ==
  ASSUME NEW a \in Nat, NEW b \in Nat, NEW c \in Nat
  PROVE  /\ a * c \in Nat /\ (a + 1) * c = a * c + c
         /\ a <= b => a * c <= b * c
<1>1. a * c \in Nat /\ b * c \in Nat /\ (a + 1) * c = a * c + c
  OBVIOUS
<1>2. CASE a <= b
  <2>1. (b - a) * c = b * c - a * c
    OBVIOUS
  <2>2. b - a \in Nat
    BY <1>2
  <2>3. \A x \in Nat : x * c \in Nat
    OBVIOUS
  <2>4. (b - a) * c \in Nat
    BY ONLY <2>2, <2>3
  <2>5. b * c - a * c \in Nat
    BY ONLY <2>1, <2>4
  <2> QED
    BY ONLY <1>1, <2>5
<1> QED
  BY <1>1, <1>2

(* A field starts where the one before it ends.                            *)
LEMMA Places ==
  ASSUME CodecAssumption, NEW i \in Fields
  PROVE  /\ Start(i) \in Nat /\ Size \in Nat /\ Start(i) + kFieldSize <= Size
         /\ \A j \in Fields : i < j => Start(i) + kFieldSize <= Start(j)
<1>1. i \in Nat /\ kNumOfFields \in Nat /\ kFieldSize \in Nat /\ i + 1 <= kNumOfFields
  BY DEF Fields, CodecAssumption
<1>2. Start(i) \in Nat /\ (i + 1) * kFieldSize = Start(i) + kFieldSize
  BY <1>1, Products DEF Start
<1>3. Size \in Nat /\ (i + 1) * kFieldSize <= Size
  BY <1>1, Products DEF Size
<1>4. \A j \in Fields : i < j => Start(i) + kFieldSize <= Start(j)
  <2> SUFFICES ASSUME NEW j \in Fields, i < j
               PROVE  Start(i) + kFieldSize <= Start(j)
    OBVIOUS
  <2>1. j \in Nat /\ i + 1 <= j
    BY <1>1 DEF Fields
  <2>2. (i + 1) * kFieldSize <= Start(j)
    BY <1>1, <2>1, Products DEF Start
  <2> QED
    BY <1>2, <2>2
<1> QED
  BY <1>2, <1>3, <1>4

(* A position of a field is one of the tuple, and of no other field.       *)
LEMMA Apart ==
  ASSUME CodecAssumption, NEW i \in Fields, NEW p \in Positions
  PROVE  /\ Start(i) + p \in 0 .. (Size - 1)
         /\ \A j \in Fields : j # i => ~(Start(i) + p \in Start(j) .. (Start(j) + kFieldSize - 1))
<1>1. p \in Nat /\ p < kFieldSize /\ kFieldSize \in Nat
  BY DEF Positions, CodecAssumption
<1>2. \A j \in Fields : Start(j) \in Nat
  BY Places
<1>3. Start(i) + kFieldSize <= Size /\ Size \in Nat
  BY Places
<1>4. ASSUME NEW j \in Fields, j # i
      PROVE  ~(Start(i) + p \in Start(j) .. (Start(j) + kFieldSize - 1))
  <2>1. Start(i) + kFieldSize <= Start(j) \/ Start(j) + kFieldSize <= Start(i)
    <3>1. i < j \/ j < i
      BY <1>4 DEF Fields, CodecAssumption
    <3> QED
      BY <3>1, Places
  <2> QED
    BY <1>1, <1>2, <2>1
<1> QED
  BY <1>1, <1>2, <1>3, <1>4

(* A value, and the empty one.                                             *)
LEMMA ValueParts ==
  ASSUME CodecAssumption, NEW s \in Values
  PROVE  /\ s \in Seq(Chars) /\ DOMAIN s = 1 .. Len(s)
         /\ Len(s) \in Nat /\ Len(s) <= MaxValueSize /\ Len(s) <= kFieldSize
<1>1. PICK n \in 0 .. MaxValueSize : s \in [1 .. n -> Chars]
  BY DEF Values
<1>2. n \in Nat /\ s \in Seq(Chars) /\ Len(s) = n /\ DOMAIN s = 1 .. n
  BY <1>1 DEF CodecAssumption
<1> QED
  BY <1>1, <1>2 DEF CodecAssumption

-------------------------------------------------------------------------------
(* The loop of DBToRaw.                                                    *)

(* strncpy puts a value into an empty field and leaves the others alone.   *)
LEMMA StrncpyHolds ==
  ASSUME CodecAssumption, NEW i \in Fields, NEW s \in Values, tuple' = Strncpy(i, s),
         tuple \in [0 .. (Size - 1) -> Chars \cup {NUL}]
  PROVE  /\ tuple' \in [0 .. (Size - 1) -> Chars \cup {NUL}]
         /\ Holds(i, << >>) => Holds(i, s)'
         /\ \A j \in Fields \ {i} : \A t : Holds(j, t) => Holds(j, t)'
<1>1. s \in Seq(Chars) /\ DOMAIN s = 1 .. Len(s) /\ Len(s) \in Nat /\ Len(s) <= kFieldSize /\ kFieldSize \in Nat
  BY ValueParts DEF CodecAssumption
<1>2. \A j \in Fields : Start(j) \in Nat
  BY Places
<1>3. \A a \in 0 .. (Size - 1) :
        tuple'[a] = IF a \in Start(i) .. (Start(i) + Len(s) - 1) THEN s[a - Start(i) + 1] ELSE tuple[a]
  BY DEF Strncpy
<1>4. tuple' \in [0 .. (Size - 1) -> Chars \cup {NUL}]
  <2>1. \A a \in Start(i) .. (Start(i) + Len(s) - 1) : a - Start(i) + 1 \in DOMAIN s
    BY <1>1, <1>2
  <2>2. \A n \in DOMAIN s : s[n] \in Chars
    BY <1>1
  <2>3. \A a \in 0 .. (Size - 1) : tuple'[a] \in Chars \cup {NUL}
    BY <1>3, <2>1, <2>2
  <2>4. DOMAIN tuple' = 0 .. (Size - 1) /\ tuple' = [a \in 0 .. (Size - 1) |-> tuple'[a]]
    BY DEF Strncpy
  <2> QED
    BY <2>3, <2>4
<1>5. ASSUME Holds(i, << >>), NEW p \in Positions
      PROVE  tuple'[Start(i) + p] = IF p < Len(s) THEN s[p + 1] ELSE NUL
  <2>1. tuple[Start(i) + p] = NUL
    BY <1>5 DEF Holds, Positions
  <2>2. p \in Nat /\ Start(i) + p \in 0 .. (Size - 1)
    BY Apart DEF Positions
  <2>3. CASE p < Len(s)
    <3>1. Start(i) + p \in Start(i) .. (Start(i) + Len(s) - 1) /\ (Start(i) + p) - Start(i) + 1 = p + 1
      BY <1>1, <1>2, <2>2, <2>3
    <3> QED
      BY <1>3, <2>2, <2>3, <3>1
  <2>4. CASE ~(p < Len(s))
    <3>1. ~(Start(i) + p \in Start(i) .. (Start(i) + Len(s) - 1))
      BY <1>1, <1>2, <2>2, <2>4
    <3> QED
      BY <1>3, <2>1, <2>2, <2>4, <3>1
  <2> QED
    BY <2>3, <2>4
<1>6. ASSUME NEW j \in Fields \ {i}, NEW p \in Positions
      PROVE  tuple'[Start(j) + p] = tuple[Start(j) + p]
  <2>1. /\ Start(j) + p \in 0 .. (Size - 1)
        /\ ~(Start(j) + p \in Start(i) .. (Start(i) + kFieldSize - 1))
    BY Apart
  <2>2. ~(Start(j) + p \in Start(i) .. (Start(i) + Len(s) - 1))
    BY <1>1, <1>2, <2>1 DEF Positions
  <2> QED
    BY <1>3, <2>1, <2>2
<1> QED
  BY <1>4, <1>5, <1>6 DEF Holds

(* The initial state.                                                      *)
LEMMA InitInv == ASSUME CodecAssumption PROVE Init => IInv
<1> SUFFICES ASSUME Init PROVE IInv
  OBVIOUS
<1>1. values = << >> /\ DOMAIN values = {} /\ values \in Seq({})
  BY DEF Init
<1>2. ValuesOK
  BY <1>1 DEF ValuesOK
<1>3. tuple \in [0 .. (Size - 1) -> Chars \cup {NUL}] /\ \A a \in 0 .. (Size - 1) : tuple[a] = NUL
  BY DEF Init, Size
<1>4. ASSUME NEW i \in Fields PROVE Holds(i, << >>)
  BY <1>3, Apart DEF Holds, Positions
<1>5. \A i, s : ~Given(i, s)
  BY <1>1 DEF Given
<1> QED
  BY <1>2, <1>3, <1>4, <1>5 DEF IInv

(* A turn of the loop.                                                     *)
LEMMA NextInv == ASSUME CodecAssumption PROVE IInv /\ Next => IInv'
<1> SUFFICES ASSUME IInv, NEW i \in Fields, NEW s \in Values, DBToRaw(FieldName(i), s)
             PROVE  IInv'
  BY DEF Next
<1> DEFINE x == << FieldName(i), s >>
<1>1. /\ \A n \in DOMAIN values : values[n][1] # FieldName(i)
      /\ values' = Append(values, x) /\ tuple' = Strncpy(i, s)
  BY DEF DBToRaw, FieldIndex, FieldName
<1>2. PICK S : values \in Seq(S)
  BY DEF IInv, ValuesOK
<1>3. x[1] = FieldName(i) /\ x = << FieldName(i), s >>
  OBVIOUS
<1> HIDE DEF x
<1>4. /\ values' \in Seq(S \cup {x}) /\ Len(values) + 1 \in DOMAIN values'
      /\ DOMAIN values' = DOMAIN values \cup {Len(values) + 1}
      /\ values'[Len(values) + 1] = x
      /\ \A n \in DOMAIN values : values'[n] = values[n]
  <2>1. values \in Seq(S \cup {x}) /\ x \in S \cup {x}
    BY <1>2
  <2> QED
    BY <1>1, <2>1
<1>5. ValuesOK'
  <2>1. \A n \in DOMAIN values' : \E j \in Fields, t \in Values : values'[n] = << FieldName(j), t >>
    BY <1>3, <1>4 DEF IInv, ValuesOK
  <2>2. \A m, n \in DOMAIN values' : values'[m][1] = values'[n][1] => m = n
    BY <1>1, <1>3, <1>4 DEF IInv, ValuesOK
  <2> QED
    BY <1>4, <2>1, <2>2 DEF ValuesOK
<1>6. \A j \in Fields, t \in Values : Given(j, t)' <=> Given(j, t) \/ (j = i /\ t = s)
  <2> SUFFICES ASSUME NEW j \in Fields, NEW t \in Values
               PROVE  Given(j, t)' <=> Given(j, t) \/ (j = i /\ t = s)
    OBVIOUS
  <2>1. x = << FieldName(j), t >> <=> j = i /\ t = s
    BY <1>3 DEF FieldName
  <2>2. Given(j, t)' <=> \E n \in DOMAIN values' : values'[n] = << FieldName(j), t >>
    BY DEF Given, FieldName
  <2> QED
    BY <1>4, <2>1, <2>2 DEF Given
<1>7. \A t \in Values : ~Given(i, t)
  BY <1>1 DEF Given
<1>8. /\ tuple' \in [0 .. (Size - 1) -> Chars \cup {NUL}]
      /\ Holds(i, s)' /\ \A j \in Fields \ {i} : \A t : Holds(j, t) => Holds(j, t)'
  BY <1>1, <1>7, StrncpyHolds DEF IInv
<1>9. \A j \in Fields : /\ \A t \in Values : Given(j, t)' => Holds(j, t)'
                        /\ (\A t \in Values : ~Given(j, t)') => Holds(j, << >>)'
  BY <1>6, <1>7, <1>8 DEF IInv
<1> QED
  BY <1>5, <1>8, <1>9 DEF IInv

(* A step that changes no variable keeps the invariant.                    *)
LEMMA StutterInv == IInv /\ UNCHANGED vars => IInv'
<1> SUFFICES ASSUME IInv, values' = values, tuple' = tuple PROVE IInv'
  BY DEF vars
<1>1. ValuesOK'
  BY DEF IInv, ValuesOK
<1>2. \A j, t : (Given(j, t)' <=> Given(j, t)) /\ (Holds(j, t)' <=> Holds(j, t))
  BY DEF Given, Holds
<1> QED
  BY <1>1, <1>2 DEF IInv

(* Every field of the tuple holds its value, at any time.                  *)
THEOREM Invariance == ASSUME CodecAssumption PROVE Spec => []IInv
<1>1. Init => IInv
  BY InitInv
<1>2. IInv /\ [Next]_vars => IInv'
  BY NextInv, StutterInv
<1> QED
  BY <1>1, <1>2, PTL DEF Spec

-------------------------------------------------------------------------------
(* RawToDB.                                                                *)

(* strlen finds the end of a value that is shorter than its field.         *)
LEMMA StrlenIs ==
  ASSUME CodecAssumption, NEW i \in Fields, NEW s \in Seq(Chars), Len(s) < kFieldSize, Holds(i, s),
         NEW c, DOMAIN tuple = 0 .. (Size - 1)
  PROVE  /\ Strlen(Memory(c), Start(i)) = Len(s)
         /\ \A n \in 1 .. Len(s) : Memory(c)[Start(i) + n - 1] = s[n]
<1> DEFINE mem == Memory(c)
           end == Start(i) + Len(s)
           zeros == {a \in DOMAIN mem : a >= Start(i) /\ mem[a] = NUL}
<1>1. Len(s) \in Nat /\ kFieldSize \in Nat /\ Start(i) \in Nat /\ Size \in Nat /\ NUL \notin Chars
  BY Places DEF CodecAssumption
<1>2. /\ DOMAIN mem = 0 .. (Size + 1)
      /\ \A a \in 0 .. (Size - 1) : a \in DOMAIN mem /\ mem[a] = tuple[a]
  BY <1>1 DEF Memory, Size
<1>3. \A p \in 0 .. Len(s) :
        /\ Start(i) + p \in 0 .. (Size - 1)
        /\ mem[Start(i) + p] = IF p < Len(s) THEN s[p + 1] ELSE NUL
  <2> SUFFICES ASSUME NEW p \in 0 .. Len(s)
               PROVE  /\ Start(i) + p \in 0 .. (Size - 1)
                      /\ mem[Start(i) + p] = IF p < Len(s) THEN s[p + 1] ELSE NUL
    OBVIOUS
  <2>1. p \in Positions
    BY <1>1 DEF Positions
  <2>2. Start(i) + p \in 0 .. (Size - 1)
    BY <2>1, Apart
  <2> QED
    BY <1>2, <2>1, <2>2 DEF Holds
<1> HIDE DEF mem
<1>4. end \in zeros
  BY <1>1, <1>2, <1>3
<1>5. ASSUME NEW a \in zeros PROVE end <= a
  <2>1. a \in Nat /\ a >= Start(i) /\ mem[a] = NUL
    BY <1>1, <1>2
  <2> SUFFICES ASSUME a < end PROVE FALSE
    BY <1>1, <2>1
  <2> DEFINE p == a - Start(i)
  <2>2. p \in 0 .. Len(s) /\ p < Len(s) /\ Start(i) + p = a /\ p + 1 \in 1 .. Len(s)
    BY <1>1, <2>1
  <2>3. mem[a] = s[p + 1] /\ s[p + 1] \in Chars
    BY <1>3, <2>2
  <2> QED
    BY <1>1, <2>1, <2>3
<1>6. \A a \in zeros : (\A b \in zeros : a <= b) => a = end
  BY <1>1, <1>2, <1>4, <1>5
<1>7. (CHOOSE a \in zeros : \A b \in zeros : a <= b) = end
  BY <1>4, <1>5, <1>6
<1>8. Strlen(mem, Start(i)) = Len(s)
  <2>1. Strlen(mem, Start(i)) = (CHOOSE a \in zeros : \A b \in zeros : a <= b) - Start(i)
    BY DEF Strlen
  <2>2. end - Start(i) = Len(s)
    BY <1>1
  <2> QED
    BY ONLY <1>7, <2>1, <2>2
<1>9. ASSUME NEW n \in 1 .. Len(s)
      PROVE  mem[Start(i) + n - 1] = s[n]
  <2>1. n - 1 \in 0 .. Len(s) /\ n - 1 < Len(s) /\ Start(i) + (n - 1) = Start(i) + n - 1 /\ (n - 1) + 1 = n
    BY <1>1
  <2> QED
    BY <1>3, <2>1
<1> QED
  BY <1>8, <1>9 DEF mem

(* What RawToDB makes of the field.                                        *)
LEMMA StringIs ==
  ASSUME CodecAssumption, NEW i \in Fields, NEW s \in Seq(Chars), Len(s) < kFieldSize, Holds(i, s),
         NEW c, DOMAIN tuple = 0 .. (Size - 1)
  PROVE  /\ Strlen(Memory(c), Start(i)) = Len(s)
         /\ [n \in 1 .. Strlen(Memory(c), Start(i)) |-> Memory(c)[Start(i) + n - 1]] = s
BY StrlenIs

(* A value that is shorter than a field comes back as it was, whatever the *)
(* other fields hold and whatever lies behind the tuple: what DBToRaw      *)
(* copies without a terminator is ended by a zero that was there, and by   *)
(* none before.                                                            *)
THEOREM RoundTripHolds ==
  ASSUME CodecAssumption, MaxValueSize < kFieldSize
  PROVE  Spec => []RoundTrip
<1>1. IInv => RoundTrip
  <2> SUFFICES ASSUME IInv, NEW c \in Chars \cup {NUL}
               PROVE  RawToDB(Memory(c)) = {values[n] : n \in {m \in DOMAIN values : values[m][2] # << >>}}
    BY DEF RoundTrip
  <2> DEFINE len(i) == Strlen(Memory(c), Start(i))
             str(i) == [n \in 1 .. len(i) |-> Memory(c)[Start(i) + n - 1]]
             Out == {values[n] : n \in {m \in DOMAIN values : values[m][2] # << >>}}
  <2>1. DOMAIN tuple = 0 .. (Size - 1)
    BY DEF IInv
  <2>2. ASSUME NEW i \in Fields, NEW s \in Values, Given(i, s)
        PROVE  len(i) = Len(s) /\ str(i) = s
    <3>1. Holds(i, s) /\ s \in Seq(Chars) /\ Len(s) < kFieldSize
      BY <2>2, ValueParts DEF IInv, CodecAssumption
    <3> QED
      BY <2>1, <3>1, StringIs
  <2>3. ASSUME NEW i \in Fields, \A s \in Values : ~Given(i, s)
        PROVE  len(i) = 0
    <3>1. Holds(i, << >>) /\ << >> \in Seq(Chars) /\ Len(<< >>) < kFieldSize /\ Len(<< >>) = 0
      BY <2>3 DEF IInv, CodecAssumption
    <3> QED
      BY <2>1, <3>1, StringIs
  <2>4. RawToDB(Memory(c)) = {<< FieldName(i), str(i) >> : i \in {j \in Fields : len(j) > 0}}
    BY DEF RawToDB
  <2> HIDE DEF len, str
  <2>5. ASSUME NEW i \in Fields, len(i) > 0
        PROVE  << FieldName(i), str(i) >> \in Out
    <3>1. PICK s \in Values : Given(i, s)
      BY <2>3, <2>5
    <3>2. len(i) = Len(s) /\ str(i) = s
      BY <2>2, <3>1
    <3>3. s # << >>
      BY <2>5, <3>2
    <3>4. PICK n \in DOMAIN values : values[n] = << FieldName(i), s >>
      BY <3>1 DEF Given
    <3>5. values[n][2] = s
      BY <3>4
    <3> QED
      BY <3>2, <3>3, <3>4, <3>5
  <2>6. ASSUME NEW n \in DOMAIN values, values[n][2] # << >>
        PROVE  \E i \in Fields : len(i) > 0 /\ values[n] = << FieldName(i), str(i) >>
    <3>1. PICK i \in Fields, s \in Values : values[n] = << FieldName(i), s >>
      BY DEF IInv, ValuesOK
    <3>2. s # << >> /\ Given(i, s)
      BY <2>6, <3>1 DEF Given
    <3>3. len(i) = Len(s) /\ str(i) = s
      BY <2>2, <3>2
    <3>4. Len(s) > 0
      BY <3>2, ValueParts
    <3> QED
      BY <3>1, <3>3, <3>4
  <2> QED
    BY <2>4, <2>5, <2>6
<1> QED
  BY <1>1, Invariance, PTL
===============================================================================
