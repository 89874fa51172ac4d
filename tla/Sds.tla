--------------------------------- MODULE Sds ---------------------------------
(***************************************************************************)
(* The dynamic strings of redis/hiredis/sds.c that the reply reader and    *)
(* the output buffer are made of: the bytes and the room left after them.  *)
(* A byte is a model character; allocation failures are the caller's       *)
(* choice.                                                                 *)
(***************************************************************************)
EXTENDS Integers, Sequences

CONSTANT SDS_MAX_PREALLOC  \* strings shorter than this double when they grow

sdsnewlen(bytes) == [s |-> bytes, free |-> 0]
sdsempty == sdsnewlen(<< >>)
sdslen(x) == Len(x.s)
sdsavail(x) == x.free

sdsMakeRoomFor(x, addlen) ==
  LET newlen == sdslen(x) + addlen
      total == IF newlen < SDS_MAX_PREALLOC THEN 2 * newlen ELSE newlen + SDS_MAX_PREALLOC
  IN IF x.free >= addlen THEN x ELSE [x EXCEPT !.free = total - sdslen(x)]

sdscatlen(x, bytes) ==
  [s |-> x.s \o bytes, free |-> sdsMakeRoomFor(x, Len(bytes)).free - Len(bytes)]

(* Mutant: the first byte kept is the last one consumed.                   *)
Bugsdsrange(x, start, end) ==
  LET kept == SubSeq(x.s, start, Len(x.s))
  IN [s |-> kept, free |-> x.free + Len(x.s) - Len(kept)]

(* Keep the bytes from start to end, counted from zero; a negative index   *)
(* counts from the end.                                                    *)
sdsrange(x, start, end) ==
  LET len == sdslen(x)
      FromEnd(i) == IF i >= 0 THEN i ELSE IF len + i < 0 THEN 0 ELSE len + i
      kept == SubSeq(x.s, FromEnd(start) + 1, FromEnd(end) + 1)
      last == SubSeq(x.s, FromEnd(start) + 1, len)
      bytes == IF FromEnd(end) >= len THEN last ELSE kept
  IN IF len = 0 THEN x ELSE [s |-> bytes, free |-> x.free + len - Len(bytes)]

(* sdsll2str and sdsull2str: the decimal digits of v, for v >= 0.          *)
sdsull2str(v) ==
  LET digits == CHOOSE n \in 1 .. 20 : 10 ^ n > v /\ (n = 1 \/ 10 ^ (n - 1) <= v)
  IN [i \in 1 .. digits |->
       << "0", "1", "2", "3", "4", "5", "6", "7", "8", "9" >>[((v \div 10 ^ (digits - i)) % 10) + 1]]

(* sdscatfmt for the two formats the library has: one character, a number  *)
(* and a line end.  Room is made as the characters come.                   *)
sdscatfmt(x, char, number) ==
  LET room(y) == IF y.free = 0 THEN sdsMakeRoomFor(y, 1) ELSE y
      one(y, b) == [s |-> Append(y.s, b), free |-> room(y).free - 1]
  IN one(one(sdscatlen(room(one(x, char)), sdsull2str(number)), "CR"), "LF")
===============================================================================
