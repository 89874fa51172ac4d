----------------------------- MODULE RedisReader -----------------------------
(***************************************************************************)
(* The reply parser of redis/hiredis/read.c with the reply objects of      *)
(* hiredis.c.  A reader is a record: the buffer and its cursor, the stack  *)
(* of read tasks, the reply under construction and the heap its objects    *)
(* live in.  redisReaderGetReply is one operator: it runs processItem      *)
(* until a reply is complete, the bytes run out or an error is set.        *)
(***************************************************************************)
EXTENDS Sds, FiniteSets

CONSTANTS
  REDIS_READER_MAX_BUF,  \* an empty buffer with more room than this is dropped
  DiscardFrom,           \* consumed bytes are discarded from this many on
  MaxDepth               \* the last index of rstack

NULL == 0
Min2(S) == CHOOSE x \in S : \A y \in S : x <= y

(* A task of rstack; ridx is Len(stack) - 1 and the parent of a task is    *)
(* the one below it.                                                       *)
Task(i) == [type |-> "none", elements |-> -1, idx |-> i, obj |-> NULL]

redisReaderCreate ==
  [err |-> "none", buf |-> sdsempty, pos |-> 0, len |-> 0,
   stack |-> << >>, reply |-> NULL, heap |-> << >>, mem |-> 0]

Unread(r) == SubSeq(r.buf.s, r.pos + 1, r.len)

-------------------------------------------------------------------------------
(* Reply objects.                                                          *)

RECURSIVE Reach(_, _)
Reach(heap, id) ==
  IF id = NULL THEN {}
  ELSE {id} \cup UNION {Reach(heap, heap[id].element[i]) : i \in DOMAIN heap[id].element}

(* An object and all below it.                                             *)
freeReplyObject(heap, id) == [o \in DOMAIN heap \ Reach(heap, id) |-> heap[o]]

(* A count as a size_t, of SizeBits bits: a negative one is huge.          *)
SizeBits == 16
AsSize(n) == n % 2 ^ SizeBits

Object(type, v, n) == [type |-> type, value |-> v, element |-> [i \in 1 .. n |-> NULL]]
createString(type, bytes) == Object(type, bytes, 0)
createArray(n) == Object("ARRAY", AsSize(n), n)
createInteger(v) == Object("INTEGER", v, 0)
createNil == Object("NIL", NULL, 0)

(* A new object is stored in its parent's element, or is the reply when    *)
(* its task is the root; the current task remembers it.                    *)
Attach(r, o) ==
  LET id == Min2((1 .. Cardinality(DOMAIN r.heap) + 1) \ DOMAIN r.heap)
      depth == Len(r.stack)
      heap == [x \in DOMAIN r.heap \cup {id} |-> IF x = id THEN o ELSE r.heap[x]]
  IN [r EXCEPT !.heap = IF depth = 1 THEN heap
                        ELSE [heap EXCEPT ![r.stack[depth - 1].obj]
                                            .element[r.stack[depth].idx + 1] = id],
               !.reply = IF depth = 1 THEN id ELSE @,
               !.stack[depth].obj = id, !.mem = @ - 1]

-------------------------------------------------------------------------------
(* Parsing.                                                                *)

(* Mutant: the partial reply is forgotten instead of freed.                *)
BugSetError(r, type) ==
  [r EXCEPT !.err = type, !.reply = NULL, !.buf = sdsempty, !.pos = 0, !.len = 0, !.stack = << >>]

(* __redisReaderSetError; buf is NULL from then on, shown as empty.        *)
SetError(r, type) ==
  [r EXCEPT !.err = type, !.heap = freeReplyObject(@, r.reply), !.reply = NULL,
            !.buf = sdsempty, !.pos = 0, !.len = 0, !.stack = << >>]

(* Where the first \r\n of s is, 0 when there is none.                     *)
seekNewline(s) ==
  LET ends == {i \in 1 .. Len(s) - 1 : s[i] = "CR" /\ s[i + 1] = "LF"}
  IN IF ends = {} THEN 0 ELSE Min2(ends)

Digit == [c \in {"0", "1", "2", "3", "4", "5", "6", "7", "8", "9"} |->
           CHOOSE d \in 0 .. 9 : sdsull2str(d) = << c >>]

(* The number up to the next \r; -1 for anything unexpected.               *)
readLongLong(s) ==
  LET sign == IF s[1] \in {"-", "+"} THEN 1 ELSE 0
      digits == SubSeq(s, sign + 1, Min2({i \in DOMAIN s : s[i] = "CR"}) - 1)
      v[i \in 0 .. Len(digits)] == IF i = 0 THEN 0 ELSE 10 * v[i - 1] + Digit[digits[i]]
  IN IF \E i \in DOMAIN digits : digits[i] \notin DOMAIN Digit THEN -1
     ELSE IF s[1] = "-" THEN -v[Len(digits)] ELSE v[Len(digits)]

(* Leave every task whose parent is complete; the next item can be         *)
(* anything.                                                               *)
RECURSIVE moveToNextTask(_)
moveToNextTask(r) ==
  LET n == Len(r.stack)
      below == [r EXCEPT !.stack = SubSeq(@, 1, n - 1)]
  IN IF n = 1 THEN below
     ELSE IF r.stack[n].idx = r.stack[n - 1].elements - 1 THEN moveToNextTask(below)
     ELSE [r EXCEPT !.stack[n] = Task(r.stack[n].idx + 1)]

(* What processItem returns: the reader and whether to go on.              *)
OK(r) == [r |-> r, ok |-> TRUE]
ERR(r) == [r |-> r, ok |-> FALSE]
Created(r, o) ==
  IF r.mem = 0 THEN ERR(SetError(r, "OOM")) ELSE OK(moveToNextTask(Attach(r, o)))
Skip(r, n) == [r EXCEPT !.pos = @ + n]
Current(r) == r.stack[Len(r.stack)]

processLineItem(r) ==
  LET s == Unread(r)
      nl == seekNewline(s)
      type == Current(r).type
  IN IF nl = 0 THEN ERR(r)
     ELSE Created(Skip(r, nl + 1),
                  IF type = "INTEGER" THEN createInteger(readLongLong(s))
                  ELSE createString(type, SubSeq(s, 1, nl - 1)))

(* The bytes of a string are taken when all of them have come.             *)
processBulkItem(r) ==
  LET s == Unread(r)
      nl == seekNewline(s)
      len == readLongLong(s)
  IN IF nl = 0 THEN ERR(r)
     ELSE IF len < 0 THEN Created(Skip(r, nl + 1), createNil)
     ELSE IF nl + 1 + len + 2 > Len(s) THEN ERR(r)
     ELSE Created(Skip(r, nl + 1 + len + 2),
                  createString("STRING", SubSeq(s, nl + 2, nl + 1 + len)))

(* An array with elements stays on the stack while they are read; one with *)
(* a count below -1 is left with that count and no elements.               *)
processMultiBulkItem(r) ==
  LET s == Unread(r)
      nl == seekNewline(s)
      n == readLongLong(s)
      line == Skip(r, nl + 1)
      array == Attach(line, createArray(n))
  IN IF Len(r.stack) - 1 = MaxDepth THEN ERR(SetError(r, "PROTOCOL"))
     ELSE IF nl = 0 THEN ERR(r)
     ELSE IF n <= 0 \/ r.mem = 0
     THEN Created(line, IF n = -1 THEN createNil ELSE createArray(n))
     ELSE OK([array EXCEPT !.stack = Append([@ EXCEPT ![Len(@)].elements = n], Task(0))])

TypeByte ==
  [c \in {"-", "+", ":", "$", "*"} |->
    CASE c = "-" -> "ERROR" [] c = "+" -> "STATUS" [] c = ":" -> "INTEGER"
      [] c = "$" -> "STRING" [] c = "*" -> "ARRAY"]

Typed(r) ==
  CASE Current(r).type \in {"ERROR", "STATUS", "INTEGER"} -> processLineItem(r)
    [] Current(r).type = "STRING" -> processBulkItem(r)
    [] Current(r).type = "ARRAY" -> processMultiBulkItem(r)

processItem(r) ==
  IF Current(r).type # "none" THEN Typed(r)
  ELSE IF Unread(r) = << >> THEN ERR(r)
  ELSE IF Unread(r)[1] \notin DOMAIN TypeByte THEN ERR(SetError(Skip(r, 1), "PROTOCOL"))
  ELSE Typed([Skip(r, 1) EXCEPT !.stack[Len(r.stack)].type = TypeByte[Unread(r)[1]]])

RECURSIVE Items(_)
Items(r) ==
  IF r.stack = << >> THEN r
  ELSE LET p == processItem(r) IN IF p.ok THEN Items(p.r) ELSE p.r

-------------------------------------------------------------------------------
(* The interface.                                                          *)

redisReaderFeed(r, bytes, oom) ==
  LET buf == IF r.len = 0 /\ sdsavail(r.buf) > REDIS_READER_MAX_BUF
             THEN [r EXCEPT !.buf = sdsempty, !.pos = 0] ELSE r
  IN IF r.err # "none" THEN r
     ELSE IF oom THEN SetError(buf, "OOM")
     ELSE [buf EXCEPT !.buf = sdscatlen(@, bytes), !.len = sdslen(buf.buf) + Len(bytes)]

(* Mutant: the cursor is left where it was.                                *)
BugDiscard(r) ==
  IF r.pos < DiscardFrom THEN r
  ELSE [r EXCEPT !.buf = sdsrange(@, r.pos, -1), !.len = sdslen(sdsrange(r.buf, r.pos, -1))]

Discard(r) ==
  IF r.pos < DiscardFrom THEN r
  ELSE [r EXCEPT !.buf = sdsrange(@, r.pos, -1), !.pos = 0,
                 !.len = sdslen(sdsrange(r.buf, r.pos, -1))]

(* The reader afterwards and the reply, NULL for none.  The objects of the *)
(* reply now belong to the caller, who has to free them.  mem is how many  *)
(* objects can be allocated before malloc fails.                           *)
redisReaderGetReply(r, mem) ==
  LET start == [r EXCEPT !.mem = mem, !.stack = IF @ = << >> THEN << Task(-1) >> ELSE @]
      read == [Items(start) EXCEPT !.mem = 0]
      left == Discard(read)
  IN IF r.err # "none" \/ r.len = 0 THEN [r |-> r, reply |-> NULL]
     ELSE IF read.err # "none" THEN [r |-> read, reply |-> NULL]
     ELSE IF left.stack = << >> THEN [r |-> [left EXCEPT !.reply = NULL], reply |-> left.reply]
     ELSE [r |-> left, reply |-> NULL]
===============================================================================
