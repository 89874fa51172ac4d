------------------------------ MODULE RedisAsync -----------------------------
(***************************************************************************)
(* The asynchronous context of redis/hiredis/async.c under an event loop,  *)
(* with the application that uses it and the server.  Everything on the    *)
(* client's side happens in one thread; the server runs at any time.       *)
(*                                                                         *)
(* redisProcessCallbacks is a step for every reply and one for the end of  *)
(* its loop, so that the application may act in each callback.  Messages   *)
(* and commands are whole here: RedisReader and RedisFormat are about      *)
(* their bytes.  A command's callback is the number of the command.        *)
(***************************************************************************)
EXTENDS Dict, RedisNet

CONSTANTS
  Channels, Patterns,  \* names that can be subscribed to
  NameLists,           \* lists of channels, or of patterns, given in one command
  Disciplined,         \* whether the application keeps to what Sensible says
  MaxCommands,         \* bound: commands accepted
  MaxMessages,         \* bound: messages published
  MaxFaults            \* bound: failures of the connection

VARIABLES
  ac,        \* the context
  conn,      \* its descriptor (RedisNet)
  pc,        \* where the client's thread is: "events", or "loop" in redisProcessCallbacks
  inbox,     \* replies that have been read and not been processed
  cb,        \* the local variable cb of redisProcessCallbacks, 0 for a NULL function
  up, down,  \* commands on their way to the server, replies on their way back
  subs,      \* names the server has this client subscribed to, Monitor among them
  closed,    \* the server has closed the connection
  published, faults,  \* counters for the bounds
  issued,    \* history: the commands accepted
  runs,      \* history: what each callback was run with
  reported   \* history: calls of onConnect and onDisconnect

vars == << ac, conn, pc, inbox, cb, up, down, subs, closed,
           published, faults, issued, runs, reported >>
server == << up, down, subs, closed >>

Names == Channels \cup Patterns
Monitor == "MONITOR"

ASSUME AsyncAssumption ==
  /\ MaxCommands \in Nat /\ MaxMessages \in Nat /\ MaxFaults \in Nat
  /\ Disciplined \in BOOLEAN
  /\ IsFiniteSet(Names) /\ Channels \cap Patterns = {} /\ {"", Monitor} \cap Names = {}
  /\ \A q \in NameLists : q # << >> /\ (q \in Seq(Channels) \/ q \in Seq(Patterns))
  /\ DictHash \in [Names -> Nat]

Elements(q) == {q[i] : i \in DOMAIN q}
Distinct(q) == \A i, j \in DOMAIN q : q[i] = q[j] => i = j
Message(type, name, count, id) == [type |-> type, name |-> name, count |-> count, id |-> id]
Null == Message("null", "", 0, 0)

(* redisAsyncInitialize.                                                   *)
NoContext ==
  [state |-> "none", err |-> "none", connected |-> FALSE, disconnecting |-> FALSE,
   freeing |-> FALSE, subscribed |-> FALSE, monitoring |-> FALSE,
   replies |-> << >>, invalid |-> << >>, channels |-> dictCreate, patterns |-> dictCreate,
   obuf |-> << >>, reading |-> FALSE, writing |-> FALSE]

Init ==
  /\ ac = NoContext /\ conn = Unconnected
  /\ pc = "events" /\ inbox = << >> /\ cb = 0
  /\ up = << >> /\ down = << >> /\ subs = {} /\ closed = FALSE
  /\ published = 0 /\ faults = 0 /\ issued = << >>
  /\ runs = [i \in 1 .. MaxCommands |-> << >>]
  /\ reported = << >>

Fault == faults < MaxFaults /\ faults' = faults + 1
Alive == ac.state = "alive"

(* redisAsyncConnect, redisAsyncConnectBind or redisAsyncConnectUnix, an   *)
(* event library attached, redisAsyncSetConnectCallback, which waits for   *)
(* the first write event, and redisAsyncSetDisconnectCallback.             *)
Connect ==
  /\ ac.state = "none"
  /\ \E o \in redisContextConnectTcp(conn, FALSE, FALSE, TRUE)
              \cup redisContextConnectUnix(conn, FALSE) :
       /\ conn' = o
       /\ ac' = [ac EXCEPT !.state = "alive", !.err = o.err, !.writing = (o.err = "none")]
  /\ UNCHANGED << pc, inbox, cb, server, published, faults, issued, runs, reported >>

-------------------------------------------------------------------------------
(* The end of a context.                                                   *)

(* How often callback i is kept in a list.                                 *)
Times(cbs, i) == Cardinality({j \in DOMAIN cbs : cbs[j] = i})

Subscriptions(a) == dictEntries(a.channels) \cup dictEntries(a.patterns)

(* Mutant: the callbacks for invalid commands are dropped.                 *)
BugPending(a, i) ==
  Times(a.replies, i) + Cardinality({e \in Subscriptions(a) : e.val = i})

(* How often __redisAsyncFree runs callback i with a NULL reply.           *)
Pending(a, i) ==
  Times(a.replies, i) + Times(a.invalid, i) + Cardinality({e \in Subscriptions(a) : e.val = i})

(* All that are pending are run: what they got is added to the history.    *)
RunAll(r, a, reply) ==
  [i \in DOMAIN r |-> r[i] \o [j \in 1 .. Pending(a, i) |-> reply]]

(* __redisAsyncFree.  None of the callbacks it runs can add a command: the *)
(* context is disconnecting or being freed.                                *)
AsyncFree(a, r, rep) ==
  /\ ac' = [NoContext EXCEPT !.state = "freed"]
  /\ runs' = RunAll(r, a, Null)
  /\ reported' = IF a.connected THEN Append(rep, "disconnected") ELSE rep
  /\ conn' = IF conn.fd > 0 THEN [conn EXCEPT !.open = @ \ {conn.fd}] ELSE conn
  /\ pc' = "events" /\ inbox' = << >> /\ cb' = 0

(* __redisAsyncDisconnect asserts that a clean disconnect leaves nobody    *)
(* waiting.                                                                *)
AsyncDisconnect(a, r, rep) ==
  IF a.err = "none" /\ a.replies # << >>
  THEN ac' = [a EXCEPT !.state = "assertion"] /\ UNCHANGED << runs, reported, conn, pc, inbox, cb >>
  ELSE AsyncFree([a EXCEPT !.disconnecting = TRUE], r, rep)

-------------------------------------------------------------------------------
(* Commands.                                                               *)

Command(k, names, scope) == [kind |-> k, names |-> names, scope |-> scope]

(* What the application may issue; an UNSUBSCRIBE without names is for all *)
(* the channels or, as PUNSUBSCRIBE, for all the patterns.                 *)
CommandSet ==
  {Command(k, << >>, {}) : k \in {"GET", Monitor}}
  \cup {Command(k, q, Elements(q)) : k \in {"SUBSCRIBE", "UNSUBSCRIBE"}, q \in NameLists}
  \cup {Command("UNSUBSCRIBE", << >>, S) : S \in {Channels, Patterns}}

AllNames(a) == {e.key : e \in Subscriptions(a)}

(* The commands an application has a use for: it ends only subscriptions it*)
(* has and names each of them once, it monitors when it is not subscribed, *)
(* and it only listens then.                                               *)
Useful(a, x) ==
  /\ a.err = "none" /\ ~a.monitoring
  /\ x.kind = "UNSUBSCRIBE" => IF x.names = << >> THEN x.scope \cap AllNames(a) # {}
                               ELSE x.scope \subseteq AllNames(a) /\ Distinct(x.names)
  /\ x.kind = Monitor => ~a.subscribed

(* A discipline that the library neither documents nor checks: nothing is  *)
(* issued while the answer to an UNSUBSCRIBE is due, and MONITOR only from *)
(* outside of callbacks, when nothing is due.                              *)
Sensible(a, x) ==
  /\ \A m \in Elements(a.obuf \o up) : m.kind # "UNSUBSCRIBE"
  /\ \A m \in Elements(down \o inbox') : m.type # "unsubscribe"
  /\ x.kind = Monitor => pc = "events" /\ a.replies = << >>

(* Early returns of __redisAsyncCommand.                                   *)
Accepted(a, x) ==
  /\ ~a.disconnecting /\ ~a.freeing
  /\ x.kind = "UNSUBSCRIBE" => a.subscribed

(* The application issues command x, and it is accepted.                   *)
Issues(a, x) == Useful(a, x) /\ (Disciplined => Sensible(a, x)) /\ Accepted(a, x)

Replace(ht, names, S, id) ==
  LET from[i \in 0 .. Len(names)] ==
        IF i = 0 THEN ht
        ELSE IF names[i] \in S THEN dictReplace(from[i - 1], names[i], id) ELSE from[i - 1]
  IN from[Len(names)]

(* Mutant: a command issued while subscribed waits with the regular ones.  *)
BugRegister(a, x, id) ==
  CASE x.kind = "SUBSCRIBE" ->
         [a EXCEPT !.subscribed = TRUE,
                   !.channels = Replace(@, x.names, Channels, id),
                   !.patterns = Replace(@, x.names, Patterns, id)]
    [] x.kind = "UNSUBSCRIBE" -> a
    [] x.kind = Monitor -> [a EXCEPT !.monitoring = TRUE, !.replies = Append(@, id)]
    [] OTHER -> [a EXCEPT !.replies = Append(@, id)]

(* Where the callback of command id is kept.                               *)
Register(a, x, id) ==
  CASE x.kind = "SUBSCRIBE" ->
         [a EXCEPT !.subscribed = TRUE,
                   !.channels = Replace(@, x.names, Channels, id),
                   !.patterns = Replace(@, x.names, Patterns, id)]
    [] x.kind = "UNSUBSCRIBE" -> a
    [] x.kind = Monitor -> [a EXCEPT !.monitoring = TRUE, !.replies = Append(@, id)]
    [] x.kind = "GET" /\ a.subscribed -> [a EXCEPT !.invalid = Append(@, id)]
    [] x.kind = "GET" /\ ~a.subscribed -> [a EXCEPT !.replies = Append(@, id)]

(* __redisAsyncCommand.                                                    *)
AsyncCommand(a, x, id) ==
  [Register(a, x, id) EXCEPT !.obuf = Append(@, [kind |-> x.kind, names |-> x.names, scope |-> x.scope, id |-> id]),
                             !.writing = TRUE]

(* Issued from the event loop, not from a callback.                        *)
Issue ==
  /\ Alive /\ pc = "events" /\ Len(issued) < MaxCommands
  /\ UNCHANGED << conn, pc, inbox, cb, server, published, faults, runs, reported >>
  /\ \E x \in CommandSet :
       /\ Issues(ac, x)
       /\ issued' = Append(issued, x)
       /\ ac' = AsyncCommand(ac, x, Len(issued'))

(* redisAsyncDisconnect: at once when nothing is pending.                  *)
Disconnect ==
  /\ Alive /\ pc = "events" /\ ac.err = "none" /\ ~ac.disconnecting
  /\ LET a == [ac EXCEPT !.disconnecting = TRUE]
     IN IF a.replies = << >> THEN AsyncDisconnect(a, runs, reported)
        ELSE ac' = a /\ UNCHANGED << conn, pc, inbox, cb, runs, reported >>
  /\ UNCHANGED << server, published, faults, issued >>

(* redisAsyncFree, also when connecting has failed at once.                *)
Free ==
  /\ Alive /\ pc = "events"
  /\ AsyncFree([ac EXCEPT !.freeing = TRUE], runs, reported)
  /\ UNCHANGED << server, published, faults, issued >>

-------------------------------------------------------------------------------
(* Events.                                                                 *)

(* The first write event finds out, in __redisAsyncHandleConnect, whether  *)
(* the connection is there.                                                *)
ConnectFails ==
  /\ Alive /\ pc = "events" /\ ac.writing /\ ~ac.connected /\ Fault
  /\ AsyncDisconnect([ac EXCEPT !.err = "IO"], runs, Append(reported, "refused"))
  /\ UNCHANGED << server, published, issued >>

(* redisAsyncHandleWrite: the socket takes the first n commands; one that  *)
(* it takes a part of stays in obuf.                                       *)
HandleWrite(n) ==
  /\ Alive /\ pc = "events" /\ ac.writing /\ n <= Len(ac.obuf)
  /\ ac' = [ac EXCEPT !.connected = TRUE, !.reading = TRUE,
                      !.obuf = SubSeq(@, n + 1, Len(@)), !.writing = (n < Len(ac.obuf))]
  /\ up' = up \o SubSeq(ac.obuf, 1, n)
  /\ reported' = IF ac.connected THEN reported ELSE Append(reported, "connected")
  /\ UNCHANGED << conn, pc, inbox, cb, down, subs, closed, published, faults, issued, runs >>

(* The write or the read of an event fails; a write that is due fails when *)
(* the server has closed, a read when nothing is left to read.             *)
EventFails ==
  /\ Alive /\ pc = "events" /\ ac.connected
  /\ \/ closed /\ (down = << >> \/ ac.writing) /\ UNCHANGED faults
     \/ Fault
  /\ AsyncDisconnect([ac EXCEPT !.err = "IO"], runs, reported)
  /\ UNCHANGED << server, published, issued >>

(* redisAsyncHandleRead reads the first n messages whole, and calls        *)
(* redisProcessCallbacks; n is 0 when a part of a message comes, which is  *)
(* bounded because each one adds a callback in monitor mode.  Reads are    *)
(* registered after a write event only, so the context is connected.       *)
HandleRead(n) ==
  /\ Alive /\ pc = "events" /\ ac.reading /\ down # << >> /\ n <= Len(down)
  /\ n = 0 => Len(ac.replies) <= MaxCommands
  /\ pc' = "loop" /\ cb' = 0
  /\ inbox' = SubSeq(down, 1, n) /\ down' = SubSeq(down, n + 1, Len(down))
  /\ UNCHANGED << ac, conn, up, subs, closed, published, faults, issued, runs, reported >>

-------------------------------------------------------------------------------
(* redisProcessCallbacks.                                                  *)

(* Mutant: every unsubscription ends the subscribed mode.                  *)
BugSubscribeCallback(a, m, c) ==
  LET which == IF m.name \in Patterns THEN "patterns" ELSE "channels"
      found == dictFind(a[which], m.name)
      removed == [a EXCEPT ![which] = dictDelete(@, m.name), !.subscribed = FALSE]
  IN IF m.type \in {"reply", "error"}
     THEN << [a EXCEPT !.invalid = IF @ = << >> THEN @ ELSE Tail(@)],
             IF a.invalid = << >> THEN c ELSE Head(a.invalid) >>
     ELSE IF found = {} THEN << a, c >>
     ELSE << IF m.type = "unsubscribe" THEN removed ELSE a, (CHOOSE e \in found : TRUE).val >>

(* __redisGetSubscribeCallback: the context and the callback after it.  A  *)
(* name that is not found leaves the callback of the reply before.         *)
SubscribeCallback(a, m, c) ==
  LET which == IF m.name \in Patterns THEN "patterns" ELSE "channels"
      found == dictFind(a[which], m.name)
      removed == [a EXCEPT ![which] = dictDelete(@, m.name),
                           !.subscribed = (m.count # 0)]
  IN IF m.type \in {"reply", "error"}
     THEN << [a EXCEPT !.invalid = IF @ = << >> THEN @ ELSE Tail(@)],
             IF a.invalid = << >> THEN c ELSE Head(a.invalid) >>
     ELSE IF found = {} THEN << a, c >>
     ELSE << IF m.type = "unsubscribe" THEN removed ELSE a, (CHOOSE e \in found : TRUE).val >>

(* The context and the callback for a reply: the oldest regular one, or a  *)
(* subscription's.                                                         *)
Shift(a, m, c) ==
  CASE a.replies # << >> -> << [a EXCEPT !.replies = Tail(@)], Head(a.replies) >>
    [] a.replies = << >> /\ a.subscribed -> SubscribeCallback(a, m, c)
    [] OTHER -> << a, c >>

(* No regular callback waits and a reply comes that is no error: the       *)
(* context must be subscribed or monitoring, and a reply for a subscription*)
(* must have a name.                                                       *)
Unexpected(a, m) ==
  /\ a.replies = << >> /\ m.type # "error"
  /\ IF a.subscribed THEN m.type = "unsubscribe" /\ m.name = "" ELSE ~a.monitoring

(* What the application does in a callback.                                *)
InCallback(a, r) ==
  \/ ac' = a /\ runs' = r /\ UNCHANGED << conn, pc, issued, reported >>
  \/ /\ Len(issued) < MaxCommands
     /\ \E x \in CommandSet :
          /\ Issues(a, x)
          /\ issued' = Append(issued, x)
          /\ ac' = AsyncCommand(a, x, Len(issued'))
     /\ runs' = r /\ UNCHANGED << conn, pc, reported >>
  \/ /\ ~a.disconnecting /\ ac' = [a EXCEPT !.disconnecting = TRUE]
     /\ runs' = r /\ UNCHANGED << conn, pc, issued, reported >>

(* One reply, up to the end of its callback.                               *)
ProcessReply ==
  /\ Alive /\ pc = "loop" /\ inbox # << >>
  /\ UNCHANGED << server, published, faults >>
  /\ LET m == Head(inbox) IN
     CASE ac.replies = << >> /\ m.type = "error" ->
            AsyncDisconnect([ac EXCEPT !.err = "OTHER"], runs, reported) /\ UNCHANGED issued
       [] Unexpected(ac, m) ->
            /\ ac' = [ac EXCEPT !.state = "assertion"]
            /\ UNCHANGED << conn, pc, inbox, cb, issued, runs, reported >>
       [] OTHER ->
            \E s \in {Shift(ac, m, cb)} :
              /\ inbox' = Tail(inbox) /\ cb' = s[2]
              /\ IF s[2] = 0
                 THEN ac' = s[1] /\ UNCHANGED << conn, pc, issued, runs, reported >>
                 ELSE InCallback(s[1], [runs EXCEPT ![s[2]] = Append(@, m)])

(* The application frees the context in the callback of a reply, and       *)
(* __redisAsyncFree is called after it.                                    *)
FreeInCallback ==
  /\ Alive /\ pc = "loop" /\ inbox # << >>
  /\ LET m == Head(inbox) IN
     /\ m.type = "error" => ac.replies # << >>
     /\ ~Unexpected(ac, m)
     /\ \E s \in {Shift(ac, m, cb)} :
          /\ s[2] # 0
          /\ AsyncFree([s[1] EXCEPT !.freeing = TRUE], [runs EXCEPT ![s[2]] = Append(@, m)], reported)
  /\ UNCHANGED << server, published, faults, issued >>

(* redisGetReply fails: the rest of what was read is no reply, or there is *)
(* no memory for it.                                                       *)
LoopFails ==
  /\ Alive /\ pc = "loop" /\ Fault
  /\ AsyncDisconnect([ac EXCEPT !.err = "PROTOCOL"], runs, reported)
  /\ UNCHANGED << server, published, issued >>

(* Mutant: a disconnecting context waits for the next reply.               *)
BugProcessEnd ==
  /\ Alive /\ pc = "loop" /\ inbox = << >>
  /\ pc' = "events" /\ cb' = 0
  /\ ac' = IF ac.monitoring THEN [ac EXCEPT !.replies = Append(@, cb)] ELSE ac
  /\ UNCHANGED << conn, inbox, runs, reported >>
  /\ UNCHANGED << server, published, faults, issued >>

(* No reply is left: disconnect if that is due, else wait for an event.    *)
(* In monitor mode the callback goes back to the list.                     *)
ProcessEnd ==
  /\ Alive /\ pc = "loop" /\ inbox = << >>
  /\ IF ac.disconnecting /\ ac.obuf = << >> /\ ac.replies = << >>
     THEN AsyncDisconnect(ac, runs, reported)
     ELSE /\ pc' = "events" /\ cb' = 0
          /\ ac' = IF ac.monitoring THEN [ac EXCEPT !.replies = Append(@, cb)] ELSE ac
          /\ UNCHANGED << conn, inbox, runs, reported >>
  /\ UNCHANGED << server, published, faults, issued >>

-------------------------------------------------------------------------------
(* The server.  What it does once the context is gone does not matter.     *)

Serving == Alive /\ ac.err = "none" /\ ~closed

(* The messages that confirm the changes of subscriptions, and how many    *)
(* subscriptions are left after each.                                      *)
Confirm(type, q, after) ==
  [i \in DOMAIN q |-> Message(type, q[i], Cardinality(after[i] \ {Monitor}), 0)]

Orders(S) == {q \in [1 .. Cardinality(S) -> S] : Elements(q) = S /\ Distinct(q)}

(* The names an UNSUBSCRIBE ends, in any order when it gives none; if there*)
(* are none the confirmation has no name.                                  *)
Ended(x) ==
  CASE x.names # << >> -> {x.names}
    [] x.names = << >> /\ x.scope \cap subs # {} -> Orders(x.scope \cap subs)
    [] OTHER -> {<< "" >>}

Serve ==
  /\ Serving /\ up # << >>
  /\ up' = Tail(up)
  /\ LET x == Head(up)
         refused == subs \ {Monitor} # {}
         joined == [i \in DOMAIN x.names |-> subs \cup Elements(SubSeq(x.names, 1, i))]
     IN CASE x.kind = "GET" ->
               /\ down' = Append(down, Message(IF refused THEN "error" ELSE "reply", "", 0, x.id))
               /\ UNCHANGED subs
          [] x.kind = Monitor ->
               /\ down' = Append(down, Message("reply", "", 0, x.id))
               /\ subs' = subs \cup {Monitor}
          [] x.kind = "SUBSCRIBE" ->
               /\ down' = down \o Confirm("subscribe", x.names, joined)
               /\ subs' = subs \cup Elements(x.names)
          [] x.kind = "UNSUBSCRIBE" ->
               \E q \in Ended(x) :
                 /\ down' = down \o Confirm("unsubscribe", q,
                                            [i \in DOMAIN q |-> subs \ Elements(SubSeq(q, 1, i))])
                 /\ subs' = subs \ Elements(q)
  /\ UNCHANGED << ac, conn, pc, inbox, cb, closed, published, faults, issued, runs, reported >>

(* A message for a name, or a line for a client that monitors.             *)
Publish ==
  /\ Serving /\ published < MaxMessages
  /\ \E n \in subs : down' = Append(down, Message("message", n, 0, 0))
  /\ published' = published + 1
  /\ UNCHANGED << ac, conn, pc, inbox, cb, up, subs, closed, faults, issued, runs, reported >>

(* Too many clients: an error that answers no command, and the end.        *)
Rejection == Message("error", "", 0, 0)

Reject ==
  /\ Serving /\ Fault
  /\ subs = {} /\ down \o inbox = << >> /\ \A i \in DOMAIN runs : runs[i] = << >>
  /\ down' = << Rejection >> /\ closed' = TRUE
  /\ UNCHANGED << ac, conn, pc, inbox, cb, up, subs, published, issued, runs, reported >>

CloseConnection ==
  /\ Serving /\ Fault
  /\ closed' = TRUE
  /\ UNCHANGED << ac, conn, pc, inbox, cb, up, down, subs, published, issued, runs, reported >>

-------------------------------------------------------------------------------
Next ==
  \/ Connect \/ Issue \/ Disconnect \/ Free
  \/ ConnectFails \/ EventFails
  \/ \E n \in 0 .. Len(ac.obuf) : HandleWrite(n)
  \/ \E n \in 0 .. Len(down) : HandleRead(n)
  \/ ProcessReply \/ FreeInCallback \/ LoopFails \/ ProcessEnd
  \/ Serve \/ Publish \/ Reject \/ CloseConnection

(* The event loop serves every descriptor that is ready, again and again:  *)
(* a read or a write takes at least a byte, so a whole message gets        *)
(* through after finitely many.  The fairness of an action is written out  *)
(* with the condition under which it can be taken.                         *)
WriteReady == Alive /\ pc = "events" /\ ac.writing /\ ac.obuf # << >>
ReadReady == Alive /\ pc = "events" /\ ac.reading /\ down # << >>
EndReady == Alive /\ pc = "events" /\ ac.connected /\ closed /\ down = << >>
LoopReady == Alive /\ pc = "loop"
ServeReady == Serving /\ up # << >>

Write == \E n \in 1 .. Len(ac.obuf) : HandleWrite(n)
Read == \E n \in 1 .. Len(down) : HandleRead(n)
Process == ProcessReply \/ FreeInCallback \/ ProcessEnd

Fairness ==
  /\ []<>WriteReady => []<><< Write >>_vars
  /\ []<>ReadReady => []<><< Read >>_vars
  /\ []<>EndReady => []<><< EventFails >>_vars
  /\ []<>LoopReady => []<><< Process >>_vars
  /\ []<>ServeReady => []<><< Serve >>_vars

Spec == Init /\ [][Next]_vars /\ Fairness

-------------------------------------------------------------------------------
(* Properties.                                                             *)

(* The asserts of async.c hold however the commands of a disciplined       *)
(* application, its callbacks and the server's messages interleave: a reply*)
(* that no regular callback waits for comes in subscribed or monitor mode  *)
(* only, and nobody waits when a clean disconnect completes.  Without the  *)
(* discipline the first one fails.                                         *)
AssertionsHold == ac.state # "assertion"

(* A regular command's callback runs at most once, with the reply to that  *)
(* very command, the server's rejection or NULL; a subscription's callback *)
(* is run for the names of its command only, and after NULL with nothing   *)
(* but NULL; and UNSUBSCRIBE's callback is never run.  A GET issued while  *)
(* subscribed gets NULL too: see RefusalDelivered.                         *)
OwnReply ==
  \A i \in DOMAIN issued :
    LET x == issued[i]
        own == {Null, Rejection, Message("reply", "", 0, i)}
    IN CASE x.kind = "GET" -> Len(runs[i]) <= 1 /\ Elements(runs[i]) \subseteq own
         [] x.kind = Monitor ->
              \A j \in DOMAIN runs[i] :
                \/ runs[i][j] \in own /\ (j = 1 \/ runs[i][j] = Null)
                \/ runs[i][j].name = Monitor /\ j > 1
         [] x.kind = "SUBSCRIBE" ->
              \A j \in DOMAIN runs[i] :
                \/ runs[i][j] = Null /\ \A k \in j .. Len(runs[i]) : runs[i][k] = Null
                \/ runs[i][j].name \in x.scope
         [] x.kind = "UNSUBSCRIBE" -> runs[i] = << >>

(* "This will likely result in an error reply, but it needs to be received *)
(* and passed to the callback", says __redisAsyncCommand of a command that *)
(* is issued in subscribed mode: the error reply to a command goes to its  *)
(* callback.                                                               *)
RefusalDelivered ==
  [][ProcessReply /\ Head(inbox).type = "error" /\ Head(inbox).id # 0 =>
       Head(inbox) \in Elements(runs'[Head(inbox).id])]_vars

(* However a context ends (a clean or a forced disconnect, a free from a   *)
(* callback, an error in any event, a refused connection), each callback   *)
(* of a command that waits for a reply has been run by then, a subscription*)
(* that was still there has been told, onDisconnect was called exactly if  *)
(* onConnect reported success, and the descriptor is closed.               *)
Finished ==
  ac.state = "freed" =>
    /\ \A i \in DOMAIN issued : issued[i].kind \in {"GET", Monitor} => runs[i] # << >>
    /\ reported \in {<< >>, << "refused" >>, << "connected", "disconnected" >>}
    /\ conn.open = {}

(* When nothing is on its way, the tables of callbacks hold exactly the    *)
(* names the server has this client subscribed to, a lookup finds each of  *)
(* them, and the context is in subscribed mode exactly if there are any.   *)
SubscriptionsAgree ==
  Alive /\ pc = "events" /\ ac.obuf \o up = << >> /\ down = << >> /\ ~closed =>
    /\ AllNames(ac) = subs \ {Monitor}
    /\ \A n \in AllNames(ac) :
         dictFind(IF n \in Patterns THEN ac.patterns ELSE ac.channels, n) # {}
    /\ ac.subscribed <=> AllNames(ac) # {}

(* A clean disconnect ends: the replies that are due arrive, their         *)
(* callbacks run and the context is freed, unless it monitors.             *)
DisconnectEnds == (Alive /\ ac.disconnecting /\ ~ac.monitoring) ~> ac.state = "freed"
===============================================================================
