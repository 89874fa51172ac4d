------------------------------- MODULE RedisDB -------------------------------
(***************************************************************************)
(* The Redis driver: RedisDB (db/redis_db.cc) on RedisClient               *)
(* (redis/redis_client.h) on a blocking redisContext (hiredis.c), and the  *)
(* server it talks to.  A step of a client ends where the code makes a     *)
(* system call: the server runs in between, write(2) may take and read(2)  *)
(* may return any part of the bytes there are.                             *)
(***************************************************************************)
EXTENDS RedisFormat, RedisNet
LOCAL INSTANCE SequencesExt

CONSTANTS
  Clients,    \* threads that share the RedisDB object
  Keys, Fields, Values,   \* byte strings without a space and without %
  FieldLists, \* lists of fields a call can be about
  ShortSizes, \* how many bytes a short read or write moves
  Slaves,     \* values slaves_ is constructed with
  MaxCalls,   \* bound: calls of the database
  MaxFaults   \* bound: failures of the system or the server

VARIABLES
  context,    \* context_: err, obuf and reader
  conn,       \* what connecting left in it (RedisNet)
  process,    \* "starting", "running", or how the process ended
  slaves,     \* slaves_
  pc, call,   \* where a client is, and in which call with how many replies to come
  up, down,   \* bytes on their way to and from the server
  store,      \* the server's hashes
  closed,     \* the server has closed the connection
  calls, faults,         \* counters for the bounds
  issued, executed,      \* history: commands appended, commands run
  seen, result           \* history: records a key had during a read; what the read returned

vars == << context, conn, process, slaves, pc, call, up, down, store, closed,
           calls, faults, issued, executed, seen, result >>
history == << issued, executed, seen, result >>
wire == << up, down, store, closed >>

NoCall == [op |-> "none"]
NoResult == [op |-> "none"]

redisContextInit == [err |-> "none", obuf |-> sdsempty, reader |-> redisReaderCreate]

Init ==
  /\ context = redisContextInit
  /\ conn = Unconnected
  /\ process = "starting"
  /\ slaves \in Slaves
  /\ pc = [t \in Clients |-> "idle"]
  /\ call = [t \in Clients |-> NoCall]
  /\ up = << >> /\ down = << >> /\ closed = FALSE
  /\ store = [k \in Keys |-> << >>]
  /\ calls = 0 /\ faults = 0
  /\ issued = << >> /\ executed = << >>
  /\ seen = [t \in Clients |-> {}]
  /\ result = [t \in Clients |-> NoResult]

Fault == faults < MaxFaults /\ faults' = faults + 1

(* redisFree closes a descriptor above zero.                               *)
redisFree(o) == IF o.fd > 0 THEN [o EXCEPT !.open = @ \ {o.fd}] ELSE o

(* Mutant: the constructor looks only at the pointer.                      *)
BugRedisClient ==
  /\ process = "starting"
  /\ \E o \in redisContextConnectTcp(conn, TRUE, FALSE, FALSE) : conn' = o
  /\ process' = "running"
  /\ UNCHANGED << context, slaves, pc, call, wire, calls, faults, history >>

(* RedisClient::RedisClient: redisConnect, and exit(1) when it fails.      *)
RedisClient ==
  /\ process = "starting"
  /\ \E o \in redisContextConnectTcp(conn, TRUE, FALSE, FALSE) :
       /\ conn' = IF o.err = "none" THEN o ELSE redisFree(o)
       /\ process' = IF o.err = "none" THEN "running" ELSE "exit1"
       /\ context' = [context EXCEPT !.err = o.err]
  /\ UNCHANGED << slaves, pc, call, wire, calls, faults, history >>

-------------------------------------------------------------------------------
(* The commands of the database.                                           *)

(* The arguments a call means to send.                                     *)
Meant(x) ==
  CASE x.op = "HMGET" -> << << "HMGET" >>, x.key >> \o x.fields
    [] x.op = "HGETALL" -> << << "HGETALL" >>, x.key >>
    [] x.op = "DEL" -> << << "DEL" >>, x.key >>
    [] x.op = "HMSET" ->
         << << "HMSET" >>, x.key >>
         \o [i \in 1 .. 2 * Len(x.pairs) |-> x.pairs[(i + 1) \div 2][IF i % 2 = 1 THEN 1 ELSE 2]]

(* Update: HMSET, the key, every field and value, one space before each.   *)
Text(argv) ==
  LET from[i \in 1 .. Len(argv)] == IF i = 1 THEN argv[1] ELSE from[i - 1] \o << " " >> \o argv[i]
  IN from[Len(argv)]

(* The bytes each call appends.  Read goes through redisCommandArgv or a   *)
(* format with %s; Update, Insert and Delete hand their text over as the   *)
(* format.                                                                 *)
Command(x) ==
  CASE x.op = "HMGET" -> redisFormatSdsCommandArgv(Meant(x)).s
    [] x.op = "HGETALL" ->
         Protocol(redisvFormatCommand(<< "HGETALL", " ", "%", "s" >>, << x.key >>))
    [] OTHER -> Protocol(redisvFormatCommand(Text(Meant(x)), << >>))

Wait == Protocol(redisvFormatCommand(<< "WAIT", " ", "%", "d", " ", "%", "d" >>, << slaves, 0 >>))
WaitArgv == << << "WAIT" >>, sdsull2str(slaves), sdsull2str(0) >>

(* The calls the database offers; Insert is Update, Scan throws.           *)
Pairs == {[i \in DOMAIN fs |-> << fs[i], v >>] : fs \in FieldLists, v \in Values}
Calls ==
  [op : {"HMGET"}, key : Keys, fields : FieldLists]
  \cup [op : {"HGETALL", "DEL"}, key : Keys]
  \cup [op : {"HMSET"}, key : Keys, pairs : Pairs]

IsRead(x) == x.op \in {"HMGET", "HGETALL"}

(* __redisAppendCommand.                                                   *)
AppendCommand(c, command) == [c EXCEPT !.obuf = sdscatlen(@, command.bytes)]

(* The commands of a call: with slaves a second one follows a change.      *)
HasWait(x) == slaves > 0 /\ ~IsRead(x)
Commands(x) ==
  << [argv |-> Meant(x), bytes |-> Command(x)] >>
  \o (IF HasWait(x) THEN << [argv |-> WaitArgv, bytes |-> Wait] >> ELSE << >>)

CanEnter(t) == process = "running" /\ pc[t] = "idle" /\ calls < MaxCalls

(* Entry of call x, which appends the commands q and gets as far as the    *)
(* error of the context says.                                              *)
Enter(t, x, q, err) ==
  /\ calls' = calls + 1
  /\ LET from[i \in 0 .. Len(q)] == IF i = 0 THEN context ELSE AppendCommand(from[i - 1], q[i])
     IN context' = [from[Len(q)] EXCEPT !.err = err]
  /\ issued' = issued \o [i \in DOMAIN q |-> q[i].argv]
  /\ call' = [call EXCEPT ![t] = [x |-> x, replies |-> IF HasWait(x) THEN 2 ELSE 1]]
  /\ result' = [result EXCEPT ![t] = NoResult]
  /\ UNCHANGED << conn, process, slaves, wire, executed >>

(* Read, Update, Insert, Delete up to the first redisGetReply.             *)
Begin(t, x) ==
  /\ CanEnter(t)
  /\ \E q \in {Commands(x)} : Enter(t, x, q, context.err)
  /\ pc' = [pc EXCEPT ![t] = "get"]
  /\ seen' = [seen EXCEPT ![t] = IF IsRead(x) THEN {store[x.key]} ELSE {}]
  /\ UNCHANGED faults

(* A command cannot be formatted or appended: a read gives up and reports  *)
(* success, Command ignores it, appends the other one and goes on to       *)
(* redisGetReply.                                                          *)
BeginNoMemory(t, x) ==
  /\ CanEnter(t) /\ Fault
  /\ \E q \in {Commands(x)} : \E lost \in DOMAIN q : Enter(t, x, RemoveAt(q, lost), "OOM")
  /\ pc' = [pc EXCEPT ![t] = IF IsRead(x) THEN "idle" ELSE "get"]
  /\ UNCHANGED seen

-------------------------------------------------------------------------------
(* redisGetReply.                                                          *)

(* Mutant: fields and values are taken for neighbours.                     *)
BugReadResult(x, heap, id) ==
  LET object(i) == heap[heap[id].element[i]]
      e(i) == IF object(i).type = "NIL" THEN << >> ELSE object(i).value
      n == Len(heap[id].element)
  IN IF x.op = "HMGET" THEN [i \in 1 .. n |-> << x.fields[i], e(i) >>]
     ELSE [i \in 1 .. n \div 2 |-> << e(i), e(i + 1) >>]

(* What Read makes of the reply: a missing field is an empty string.       *)
ReadResult(x, heap, id) ==
  LET object(i) == heap[heap[id].element[i]]
      e(i) == IF object(i).type = "NIL" THEN << >> ELSE object(i).value
      n == Len(heap[id].element)
  IN IF x.op = "HMGET" THEN [i \in 1 .. n |-> << x.fields[i], e(i) >>]
     ELSE [i \in 1 .. n \div 2 |-> << e(2 * i - 1), e(2 * i) >>]

(* What Read asserts: an array, with an element for each field it asked    *)
(* for.                                                                    *)
Expected(x, o) == o.type = "ARRAY" /\ (x.op = "HMGET" => o.value = Len(x.fields))

(* The caller uses the reply and frees it.  Command looks at nothing, an   *)
(* error included, and gets the reply of WAIT next.                        *)
Deliver(t, r, id) ==
  LET x == call[t].x
      last == call[t].replies = 1
      fails == IsRead(x) /\ ~Expected(x, r.heap[id])
  IN /\ context' = [context EXCEPT !.reader = [r EXCEPT !.heap = freeReplyObject(@, id)]]
     /\ process' = IF fails THEN "assertion" ELSE process
     /\ UNCHANGED conn
     /\ pc' = [pc EXCEPT ![t] = IF last THEN "idle" ELSE "get"]
     /\ call' = [call EXCEPT ![t].replies = @ - 1]
     /\ result' = IF IsRead(x) /\ ~fails
                  THEN [result EXCEPT ![t] = [op |-> x.op, pairs |-> ReadResult(x, r.heap, id)]]
                  ELSE result

(* HandleError frees a reply that was never set or is already freed, which *)
(* may crash, then the context, and exits.                                 *)
HandleError ==
  \/ process' = "crash" /\ UNCHANGED conn
  \/ process' = "exit2" /\ conn' = redisFree(conn)

(* The call fails: Read reports success without a result, Command calls    *)
(* HandleError.                                                            *)
Fail(t, err, r) ==
  /\ context' = [context EXCEPT !.err = err, !.reader = r]
  /\ pc' = [pc EXCEPT ![t] = "idle"]
  /\ IF IsRead(call[t].x) THEN UNCHANGED << process, conn >> ELSE HandleError
  /\ UNCHANGED << call, result >>

(* redisGetReplyFromReader; mem objects can be allocated.                  *)
FromReader(t, r, mem, otherwise) ==
  \E got \in {redisReaderGetReply(r, mem)} :
     IF got.r.err # "none" THEN Fail(t, got.r.err, got.r)
     ELSE IF got.reply # NULL THEN Deliver(t, got.r, got.reply)
     ELSE /\ context' = [context EXCEPT !.reader = got.r]
          /\ pc' = [pc EXCEPT ![t] = otherwise]
          /\ UNCHANGED << process, conn, call, result >>

Plenty == 1000

(* A reply may be there already.                                           *)
GetReply(t) ==
  /\ process = "running" /\ pc[t] = "get"
  /\ \/ FromReader(t, context.reader, Plenty, "write") /\ UNCHANGED faults
     \/ \E mem \in 0 .. 2 : Fault /\ FromReader(t, context.reader, mem, "write")
  /\ UNCHANGED << slaves, wire, calls, issued, executed, seen >>

(* How many of len bytes a system call can move.                           *)
Moved(len) == {len} \cup {n \in ShortSizes : n < len}

(* redisBufferWrite after write(2) took n bytes.                           *)
Written(obuf, n) == IF n = sdslen(obuf) THEN sdsempty ELSE sdsrange(obuf, n, -1)

(* Mutant: redisGetReply writes once, not until done.                      *)
BugBufferWrite(t) ==
  /\ process = "running" /\ pc[t] = "write"
  /\ context.err = "none"
  /\ \E n \in {0} \cup Moved(sdslen(context.obuf)) :
       /\ up' = up \o SubSeq(context.obuf.s, 1, n)
       /\ context' = [context EXCEPT !.obuf = Written(@, n)]
       /\ pc' = [pc EXCEPT ![t] = "read"]
  /\ UNCHANGED << conn, process, slaves, call, down, store, closed, calls, faults, history >>

BufferWrite(t) ==
  /\ process = "running" /\ pc[t] = "write"
  /\ context.err = "none"
  /\ IF sdslen(context.obuf) = 0
     THEN pc' = [pc EXCEPT ![t] = "read"] /\ UNCHANGED << context, up >>
     ELSE \E n \in Moved(sdslen(context.obuf)) :
            /\ up' = up \o SubSeq(context.obuf.s, 1, n)
            /\ context' = [context EXCEPT !.obuf = Written(@, n)]
            /\ pc' = [pc EXCEPT ![t] = IF n = sdslen(context.obuf) THEN "read" ELSE "write"]
  /\ UNCHANGED << conn, process, slaves, call, down, store, closed, calls, faults, history >>

BufferRead(t) ==
  /\ process = "running" /\ pc[t] = "read"
  /\ context.err = "none" /\ down # << >>
  /\ \E n \in Moved(Len(down)) :
       \E fed \in {redisReaderFeed(context.reader, SubSeq(down, 1, n), FALSE)} :
         /\ down' = SubSeq(down, n + 1, Len(down))
         /\ \/ FromReader(t, fed, Plenty, "read") /\ UNCHANGED faults
            \/ \E mem \in 0 .. 2 : Fault /\ FromReader(t, fed, mem, "read")
  /\ UNCHANGED << slaves, up, store, closed, calls, issued, executed, seen >>

(* The reader's buffer cannot grow.                                        *)
BufferReadNoMemory(t) ==
  /\ process = "running" /\ pc[t] = "read"
  /\ context.err = "none" /\ down # << >>
  /\ Fault
  /\ down' = << >>
  /\ LET fed == redisReaderFeed(context.reader, down, TRUE) IN Fail(t, fed.err, fed)
  /\ UNCHANGED << slaves, up, store, closed, calls, issued, executed, seen >>

(* An earlier error of the context, an error of the system call, a server  *)
(* that has closed the connection.                                         *)
BufferFails(t) ==
  /\ process = "running" /\ pc[t] \in {"write", "read"}
  /\ \/ context.err # "none" /\ Fail(t, context.err, context.reader) /\ UNCHANGED faults
     \/ context.err = "none" /\ Fault /\ Fail(t, "IO", context.reader)
     \/ context.err = "none" /\ closed /\ pc[t] = "read" /\ down = << >>
        /\ Fail(t, "EOF", context.reader) /\ UNCHANGED faults
  /\ UNCHANGED << slaves, wire, calls, issued, executed, seen >>

(* RedisClient::~RedisClient.                                              *)
Destroy ==
  /\ process = "running" /\ calls = MaxCalls
  /\ \A t \in Clients : pc[t] = "idle"
  /\ process' = "exit0"
  /\ conn' = redisFree(conn)
  /\ UNCHANGED << context, slaves, pc, call, wire, calls, faults, history >>

-------------------------------------------------------------------------------
(* The server.                                                             *)

(* A reply on the wire.                                                    *)
Bulk(v) == << "$" >> \o sdsull2str(Len(v)) \o CRLF \o v \o CRLF
NilBulk == << "$", "-", "1" >> \o CRLF
Array(q) ==
  LET from[i \in 0 .. Len(q)] == IF i = 0 THEN << >> ELSE from[i - 1] \o q[i]
  IN << "*" >> \o sdsull2str(Len(q)) \o CRLF \o from[Len(q)]

(* The command that is complete in the bytes received, and their number.   *)
Received ==
  LET r == Items([redisReaderCreate EXCEPT
                    !.buf = sdsnewlen(up), !.len = Len(up), !.stack = << Task(-1) >>, !.mem = Plenty])
  IN IF up = << >> \/ r.stack # << >> THEN [argv |-> << >>, n |-> 0]
     ELSE [argv |-> [i \in DOMAIN r.heap[r.reply].element |->
                      r.heap[r.heap[r.reply].element[i]].value],
           n |-> r.pos]

Hash(k, argv) ==  \* after HMSET
  [f \in DOMAIN store[k] \cup {argv[i] : i \in {j \in 3 .. Len(argv) : j % 2 = 1}} |->
    IF \E i \in 3 .. Len(argv) : i % 2 = 1 /\ argv[i] = f
    THEN argv[(CHOOSE i \in 3 .. Len(argv) : i % 2 = 1 /\ argv[i] = f) + 1]
    ELSE store[k][f]]

Run(argv) ==
  LET k == argv[2]
      fs == SetToSeq(DOMAIN store[k])
      Field(f) == IF f \in DOMAIN store[k] THEN Bulk(store[k][f]) ELSE NilBulk
  IN CASE argv[1] = << "HMSET" >> ->
            store' = [store EXCEPT ![k] = Hash(k, argv)] /\ down' = down \o << "+", "OK" >> \o CRLF
       [] argv[1] = << "DEL" >> ->
            store' = [store EXCEPT ![k] = << >>] /\ down' = down \o << ":", "1" >> \o CRLF
       [] argv[1] = << "WAIT" >> -> down' = down \o << ":", "0" >> \o CRLF /\ UNCHANGED store
       [] argv[1] = << "HMGET" >> ->
            down' = down \o Array([i \in 1 .. Len(argv) - 2 |-> Field(argv[i + 2])]) /\ UNCHANGED store
       [] argv[1] = << "HGETALL" >> ->
            /\ down' = down \o Array([i \in 1 .. 2 * Len(fs) |->
                                IF i % 2 = 1 THEN Bulk(fs[(i + 1) \div 2]) ELSE Field(fs[i \div 2])])
            /\ UNCHANGED store

Server ==
  /\ ~closed
  /\ \E command \in {Received} :
       /\ command.n > 0
       /\ \/ Run(command.argv) /\ UNCHANGED faults
          \/ Fault /\ down' = down \o << "-", "ERR" >> \o CRLF /\ UNCHANGED store
       /\ up' = SubSeq(up, command.n + 1, Len(up))
       /\ executed' = Append(executed, command.argv)
  /\ seen' = [t \in Clients |-> IF pc[t] # "idle" /\ IsRead(call[t].x)
                                THEN seen[t] \cup {store'[call[t].x.key]} ELSE seen[t]]
  /\ UNCHANGED << context, conn, process, slaves, pc, call, closed, calls, issued, result >>

Close ==
  /\ process = "running" /\ ~closed /\ Fault
  /\ closed' = TRUE
  /\ UNCHANGED << context, conn, process, slaves, pc, call, up, down, store, calls, history >>

-------------------------------------------------------------------------------
Client(t) ==
  GetReply(t) \/ BufferWrite(t) \/ BufferRead(t) \/ BufferReadNoMemory(t) \/ BufferFails(t)

Done == process \notin {"starting", "running"} /\ UNCHANGED vars

Next ==
  \/ RedisClient
  \/ \E t \in Clients : Client(t) \/ \E x \in Calls : Begin(t, x) \/ BeginNoMemory(t, x)
  \/ Destroy
  \/ Server
  \/ Close
  \/ Done

(* When the server, and a client, can go on, and that they do: only the    *)
(* server runs commands, only clients touch the context.                   *)
ServerReady == ~closed /\ Received.n > 0
Serves == executed' # executed
ClientReady(t) ==
  /\ process = "running" /\ pc[t] # "idle"
  /\ pc[t] = "read" => down # << >> \/ closed \/ context.err # "none"
Acts(t) == pc[t] # "idle" /\ << context, pc[t] >>' # << context, pc[t] >>

(* Threads are scheduled, system calls are not interrupted for ever, and   *)
(* the server answers or closes: weak fairness of both, with the enabling  *)
(* conditions written out.                                                 *)
Fairness ==
  /\ []<>(~ServerReady) \/ []<><<Serves>>_vars
  /\ \A t \in Clients : []<>(~ClientReady(t)) \/ []<><<Acts(t)>>_vars

Spec == Init /\ [][Next]_vars /\ Fairness

-------------------------------------------------------------------------------
(* The bytes of every command reach the server once and in order, whatever *)
(* write(2) takes at a time: what the server ran, what is on its way and   *)
(* what is still in the output buffer are together the commands the        *)
(* database meant to send.                                                 *)
CommandsIntact ==
  /\ Len(executed) <= Len(issued)
  /\ executed = SubSeq(issued, 1, Len(executed))
  /\ LET rest == SubSeq(issued, Len(executed) + 1, Len(issued))
         from[i \in 0 .. Len(rest)] == IF i = 0 THEN << >> ELSE from[i - 1] \o Protocol(rest[i])
     IN up \o context.obuf.s = from[Len(rest)]

(* A read returns the record its key had at the server at some moment      *)
(* of the call, however the reply was cut into pieces and whatever replies *)
(* came before it.                                                         *)
ReadsStored ==
  \A t \in Clients :
    result[t] # NoResult =>
      \E rec \in seen[t] :
        LET value(f) == IF f \in DOMAIN rec THEN rec[f] ELSE << >>
        IN result[t].pairs =
             IF result[t].op = "HMGET"
             THEN [i \in 1 .. Len(call[t].x.fields) |->
                    << call[t].x.fields[i], value(call[t].x.fields[i]) >>]
             ELSE [i \in 1 .. Cardinality(DOMAIN rec) |->
                    << SetToSeq(DOMAIN rec)[i], value(SetToSeq(DOMAIN rec)[i]) >>]

(* Every object of the reader's heap is part of the reply it is reading:   *)
(* nothing leaks when an allocation or the protocol fails half way.        *)
NoOrphans ==
  DOMAIN context.reader.heap = Reach(context.reader.heap, context.reader.reply)

(* Between calls nothing is under way: the next reply is the next call's.  *)
InStep ==
  (process = "running" /\ context.err = "none" /\ \A t \in Clients : pc[t] = "idle") =>
    up = << >> /\ down = << >> /\ sdslen(context.obuf) = 0 /\ Unread(context.reader) = << >>

(* A context without an error is connected and has the only descriptor;    *)
(* a process that ends through redisFree leaves none.                      *)
ConnectReports ==
  /\ process = "running" => conn.connected /\ conn.open = {conn.fd}
  /\ process \in {"exit0", "exit1", "exit2"} => conn.open = {}

(* Every call returns or ends the process.                                 *)
CallReturns == \A t \in Clients : (pc[t] # "idle") ~> (pc[t] = "idle" \/ process # "running")
===============================================================================
