------------------------------ MODULE RedisNet -------------------------------
(***************************************************************************)
(* How redis/hiredis/net.c connects a context: every outcome the system    *)
(* calls can produce.  An outcome is what the call leaves in the context   *)
(* and which descriptors are open.  A step of the connection takes an      *)
(* outcome to the set of outcomes that can follow.                         *)
(***************************************************************************)
EXTENDS Integers, FiniteSets

CONSTANTS
  Addresses,              \* how many addresses getaddrinfo can return at most
  REDIS_CONNECT_RETRIES   \* sockets tried when the source address is taken

ASSUME NetAssumption == Addresses \in Nat /\ REDIS_CONNECT_RETRIES \in Nat

(* A context before it is connected: calloc leaves 0 in fd.                *)
Unconnected == [fd |-> 0, err |-> "none", connected |-> FALSE, rv |-> TRUE, open |-> {}]

Error(o, type) == [o EXCEPT !.err = type, !.rv = FALSE]
Failed(o) == [o EXCEPT !.rv = FALSE]

redisContextCloseFd(o) ==
  IF o.fd >= 0 THEN [o EXCEPT !.open = @ \ {o.fd}, !.fd = -1] ELSE o

socket(o) ==
  LET s == Cardinality(o.open) + 1 IN [o EXCEPT !.fd = s, !.open = @ \cup {s}]

(* redisSetBlocking, redisSetTcpNoDelay: a system call and its error path. *)
SetOption(o) == {o, redisContextCloseFd(Error(o, "IO"))}

(* Wait for the connection: poll fails, times out, or the connection has   *)
(* failed meanwhile, and then the descriptor is left to redisFree.         *)
redisContextWaitReady(o) == {o, redisContextCloseFd(Error(o, "IO")), Error(o, "IO")}

(* The outcomes in which F follows those that went well so far.            *)
Then(S, F(_)) == UNION {IF o.rv THEN F(o) ELSE {o} : o \in S}

(* bind(2) to the source address, after SO_REUSEADDR.                      *)
Bind(o, reuseaddr) ==
  {o, Error(o, "OTHER")} \cup (IF reuseaddr THEN {Failed(o)} ELSE {})

Connected(o, blocking) ==
  Then(IF blocking THEN SetOption(o) ELSE {o},
       LAMBDA x : {[x EXCEPT !.connected = TRUE], redisContextCloseFd(Error(x, "IO"))})

(* A socket for the next address, and what connect(2) is called with.      *)
Ready(o, reuseaddr, source) ==
  Then(SetOption(socket(o)), LAMBDA x : IF source THEN Bind(x, reuseaddr) ELSE {x})

(* An attempt is a context, how many addresses are left and how often the  *)
(* source address was taken.  The attempts that can follow t: no socket, a *)
(* host that cannot be reached, a source address that is taken.            *)
Retries(t, reuseaddr, source) ==
  LET opened == {x \in Ready(t.o, reuseaddr, source) : x.rv}
  IN IF t.left = 0 THEN {}
     ELSE {[t EXCEPT !.left = @ - 1]}
          \cup {[t EXCEPT !.o = redisContextCloseFd(x), !.left = @ - 1] : x \in opened}
          \cup (IF reuseaddr /\ t.reuses + 1 < REDIS_CONNECT_RETRIES
                THEN {[t EXCEPT !.o = x, !.reuses = @ + 1] : x \in opened} ELSE {})

(* What connect(2) on x and what follows it can end the loop with.         *)
Outcome(x, reuses, blocking, reuseaddr) ==
  Connected(x, blocking)
  \cup (IF reuseaddr /\ reuses + 1 >= REDIS_CONNECT_RETRIES THEN {Failed(x)} ELSE {})
  \cup Then(redisContextWaitReady(x), LAMBDA y : Connected(y, blocking))

(* How the loop can end with attempt t.                                    *)
Ends(t, blocking, reuseaddr, source) ==
  IF t.left = 0 THEN {Error(t.o, "OTHER")}
  ELSE Then(Ready(t.o, reuseaddr, source), LAMBDA x : Outcome(x, t.reuses, blocking, reuseaddr))

Round(S, reuseaddr, source) == UNION {Retries(t, reuseaddr, source) : t \in S}

(* The loop over n addresses, each attempt of which takes an address or    *)
(* counts a reuse.                                                         *)
TryAddresses(o, n, blocking, reuseaddr, source) ==
  LET attempts[i \in 0 .. (n + REDIS_CONNECT_RETRIES)] ==
        IF i = 0 THEN {[o |-> o, left |-> n, reuses |-> 0]}
        ELSE Round(attempts[i - 1], reuseaddr, source)
  IN UNION {Ends(t, blocking, reuseaddr, source) :
              t \in UNION {attempts[i] : i \in 0 .. (n + REDIS_CONNECT_RETRIES)}}

(* A name that cannot be resolved, or up to Addresses addresses.           *)
redisContextConnectTcp(o, blocking, reuseaddr, source) ==
  {Error(o, "OTHER")}
  \cup UNION {TryAddresses(o, n, blocking, reuseaddr, source) : n \in 1 .. Addresses}

redisContextConnectUnix(o, blocking) ==
  {Error(o, "IO")}
  \cup Then(Then(SetOption(socket(o)), LAMBDA x : {x} \cup redisContextWaitReady(x)),
            LAMBDA x : Then(IF blocking THEN SetOption(x) ELSE {x},
                            LAMBDA y : {[y EXCEPT !.connected = TRUE]}))
===============================================================================
