------------------------------ MODULE MCRedisDB ------------------------------
(* RedisDB for TLC: keys and fields of one byte, a value of two made of      *)
(* characters that also mean something in the protocol.                     *)
EXTENDS RedisDB

MCKeys == {<< "k1" >>}
MCFields == {<< "f1" >>, << "f2" >>}
MCValues == {<< "*", "*" >>}
MCFieldLists == {<< << "f1" >> >>, << << "f2" >>, << "f1" >> >>}
===============================================================================
