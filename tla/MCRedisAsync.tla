----------------------------- MODULE MCRedisAsync ----------------------------
(***************************************************************************)
(* RedisAsync with two channels, which need a second slot of the table of  *)
(* callbacks, and one pattern.                                             *)
(***************************************************************************)
EXTENDS RedisAsync

MCChannels == {"c1", "c2"}
MCPatterns == {"p1"}
MCNameLists == {<< "c1", "c2" >>, << "p1" >>}
MCDictHash == [n \in MCChannels \cup MCPatterns |-> IF n = "c1" THEN 1 ELSE 0]
===============================================================================
