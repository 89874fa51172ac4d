---------------------------- MODULE MCHashtableDB ----------------------------
(***************************************************************************)
(* HashtableDB with two records of two fields.  An update writes the       *)
(* second field only, which leaves a record it makes incomplete.           *)
(***************************************************************************)
EXTENDS HashtableDB

MCKeys == {"k1", "k2"}
MCFields == {"f1", "f2"}
MCKeyOrder == << "k1", "k2" >>
MCAllFields == << "f1", "f2" >>
MCFieldLists == {<< "f2" >>}
===============================================================================
