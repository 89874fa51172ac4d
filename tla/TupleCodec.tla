------------------------------ MODULE TupleCodec ------------------------------
(***************************************************************************)
(* The codec between the database's field/value pairs and the fixed-size   *)
(* tuple the engines store: DBToRaw and RawToDB of recovery_defs.cc.       *)
(*                                                                         *)
(* The fields of a Tuple are packed: one array of kNumOfFields times       *)
(* kFieldSize characters, at the end of the structure.  DBToRaw copies the *)
(* characters of each value without a terminator; RawToDB takes a value to *)
(* end at the first zero.  What lies behind the tuple in memory is         *)
(* arbitrary, and strlen reads it when it finds no zero before.            *)
(***************************************************************************)
EXTENDS Naturals, Sequences

CONSTANTS
  Chars,         \* the characters of values
  NUL,           \* '\0'
  kNumOfFields,
  kFieldSize,
  MaxValueSize   \* the workload's field length

(* What the constants are: a hypothesis of what is proved.                 *)
CodecAssumption ==
  /\ NUL \notin Chars
  /\ kNumOfFields \in Nat \ {0}
  /\ kFieldSize \in Nat \ {0}
  /\ MaxValueSize \in 0 .. kFieldSize

Fields == 0 .. (kNumOfFields - 1)
Values == UNION {[1 .. n -> Chars] : n \in 0 .. MaxValueSize}

VARIABLES
  values,  \* the pairs DBToRaw has gone through, in order
  tuple    \* the characters of tuple.fields

vars == <<values, tuple>>

(* Field names are "field" followed by the decimal number of the field.    *)
FieldName(i) == <<"field", i>>

(* std::stoi(value.first.substr(kDefautFieldName.size(), ...)).            *)
FieldIndex(name) == name[2]

Start(i) == i * kFieldSize

(* Tuple tuple;                                                            *)
Init ==
  /\ values = << >>
  /\ tuple = [a \in 0 .. (kNumOfFields * kFieldSize - 1) |-> NUL]

(* strncpy(tuple.fields[i].str, s, s.size()): s has no zero in it, so      *)
(* exactly its characters are copied.                                      *)
Strncpy(i, s) ==
  [a \in DOMAIN tuple |->
     IF a \in Start(i) .. (Start(i) + Len(s) - 1) THEN s[a - Start(i) + 1] ELSE tuple[a]]

(* One turn of the loop of DBToRaw.  The records of the workload have each *)
(* field once at most.                                                     *)
DBToRaw(name, s) ==
  /\ \A n \in DOMAIN values : values[n][1] # name
  /\ values' = Append(values, <<name, s>>)
  /\ tuple' = Strncpy(FieldIndex(name), s)

Next == \E i \in Fields, s \in Values : DBToRaw(FieldName(i), s)

Spec == Init /\ [][Next]_vars

-------------------------------------------------------------------------------
(* The memory strlen sees: the fields, and then some character before a    *)
(* zero, or a zero at once.                                                *)
Memory(c) ==
  [a \in 0 .. (kNumOfFields * kFieldSize + 1) |->
     IF a \in DOMAIN tuple THEN tuple[a]
     ELSE IF a = kNumOfFields * kFieldSize THEN c ELSE NUL]

Strlen(mem, p) ==
  LET zeros == {a \in DOMAIN mem : a >= p /\ mem[a] = NUL}
  IN  (CHOOSE a \in zeros : \A b \in zeros : a <= b) - p

(* The pairs RawToDB returns: the fields whose string is not empty.        *)
RawToDB(mem) ==
  {<<FieldName(i), [n \in 1 .. Strlen(mem, Start(i)) |-> mem[Start(i) + n - 1]]>> :
     i \in {j \in Fields : Strlen(mem, Start(j)) > 0}}

(* Decoding what was encoded gives back every value that is not empty,     *)
(* whatever follows the tuple in memory: no field runs into the next, and  *)
(* none is cut short.                                                      *)
RoundTrip ==
  \A c \in Chars \cup {NUL} :
    RawToDB(Memory(c)) = {values[n] : n \in {m \in DOMAIN values : values[m][2] # << >>}}
===============================================================================
