----------------------------- MODULE DurableStore -----------------------------
(***************************************************************************)
(* What a recovery engine promises (recovery/recovery_engine.h): a map     *)
(* from keys to the last tuple persisted for them.  A call of              *)
(* PersistUpdate or PersistDelete brings a tuple; when it returns kSuccess *)
(* that tuple has replaced the one of its key, and when it returns kFail,  *)
(* throws, or dies with its process nothing has changed.  There is one     *)
(* call at a time.  Whatever else the engine does is no step of this       *)
(* module: it changes nothing.                                             *)
(***************************************************************************)
CONSTANTS Keys, Tuple, NoTuple

VARIABLES
  stored,  \* the tuple of each key
  req      \* the tuple of the call under way, or NoTuple

Init ==
  /\ stored = [k \in Keys |-> NoTuple]
  /\ req = NoTuple

Begin(t) ==
  /\ req = NoTuple
  /\ req' = t
  /\ UNCHANGED stored

Succeed ==
  /\ req # NoTuple
  /\ stored' = [stored EXCEPT ![req.key] = req]
  /\ req' = NoTuple

Fail ==
  /\ req # NoTuple
  /\ req' = NoTuple
  /\ UNCHANGED stored

Next ==
  \/ \E t \in Tuple : Begin(t)
  \/ Succeed
  \/ Fail

Spec == Init /\ [][Next]_<<stored, req>>
===============================================================================
