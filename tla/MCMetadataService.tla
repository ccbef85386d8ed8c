------------------------- MODULE MCMetadataService -------------------------
(***************************************************************************)
(* An instance of MetadataService for TLC.  The calls are about the file   *)
(* /a, with and without a trailing slash, and the directory /d.            *)
(***************************************************************************)
EXTENDS MetadataService

Plain(op, path, fields) ==
  [op |-> op, path |-> path, wellFormed |-> TRUE, large |-> FALSE, fields |-> fields, recursive |-> TRUE]

MCRequests ==
  [c \in Calls |->
     {Plain("create", <<"a">>, [size |-> 1])} \union
     IF c = "c1" THEN {Plain("update", <<"a", "">>, [size |-> 2, mime_type |-> 2])}
     ELSE {Plain("delete", <<"a">>, <<>>), Plain("get", <<"a">>, <<>>), Plain("mkdir", <<"d">>, <<>>),
           Plain("rmdir", <<"d">>, <<>>)}]

MCMaxRetries == [c \in Calls |-> IF c = "c1" THEN 1 ELSE 0]
MCClientIP == [c \in Calls |-> "ip"]
=============================================================================
