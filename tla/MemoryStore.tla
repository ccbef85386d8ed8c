---------------------------- MODULE MemoryStore ----------------------------
(***************************************************************************)
(* The metadata store of the server (internal/metaserver/server/store.go). *)
(* Every method holds the store's mutex from its first to its last         *)
(* statement, so each is an operator from a store and its arguments to the *)
(* store it leaves and the error code it returns; MetadataService has the  *)
(* steps around them.                                                      *)
(*                                                                         *)
(* A key of the two maps is the sequence of the names between the slashes  *)
(* of the string: "/a" is <<"a">>, "/a/" is <<"a", "">> and "/" is <<"">>. *)
(* A file is a function from its fields to numbers, 0 being the zero value.*)
(* Names and timestamps are left out; a value of TLA+ is its own deep copy,*)
(* which is what the clone functions are for.                              *)
(***************************************************************************)
EXTENDS Integers, Sequences, SequencesExt, FiniteSets, FiniteSetsExt

Root == <<"">>

-----------------------------------------------------------------------------
(***************************************************************************)
(* Go's path and strings packages on such keys.                            *)
(***************************************************************************)
Clean(p) == IF Last(p) = "" /\ p # Root THEN Front(p) ELSE p

\* Everything before the last slash, cleaned: Dir("/a/") is "/a".
Dir(k) == IF Len(k) = 1 THEN Root ELSE Front(k)

WithSlash(k) == IF k = Root THEN Root ELSE Append(k, "")

\* dir ends with a slash.
HasPrefix(k, dir) == Len(k) >= Len(dir) /\ IsPrefix(Front(dir), k)

-----------------------------------------------------------------------------
NewMemoryStore == [initialized |-> FALSE, files |-> <<>>, directories |-> {}]

\* An early return: the error code if the condition holds.
Check(condition, code) == IF condition THEN code ELSE "OK"

\* The answer of a method that returns on the first check that fails and
\* leaves the store `new' otherwise.
Answer(st, checks, new) ==
  LET failed == {i \in DOMAIN checks : checks[i] # "OK"}
  IN  IF failed = {} THEN [store |-> new, code |-> "OK"]
      ELSE [store |-> st, code |-> checks[Min(failed)]]

Uninitialized(st) == Check(~st.initialized, "Internal")

\* A map after m[k] = v, and one overridden by another.
Put(m, k, v)   == [x \in DOMAIN m \union {k} |-> IF x = k THEN v ELSE m[x]]
Override(m, u) == [x \in DOMAIN m \union DOMAIN u |-> IF x \in DOMAIN u THEN u[x] ELSE m[x]]

Initialize(st) ==
  Answer(st, <<Check(st.initialized, "AlreadyExists")>>,
         [st EXCEPT !.directories = @ \union {Root}, !.initialized = TRUE])

Close(st) == IF st.initialized THEN NewMemoryStore ELSE st

-----------------------------------------------------------------------------
GetFileInfo(st, p) ==
  Answer(st, <<Uninitialized(st), Check(Clean(p) \notin DOMAIN st.files, "NotFound")>>, st)

\* Faulty variant: an existing file is replaced.
CreateFile_Overwrites(st, p, file) ==
  LET k == Clean(p)
  IN  Answer(st, <<Uninitialized(st), Check(Dir(k) # Root /\ Dir(k) \notin st.directories, "NotFound")>>,
             [st EXCEPT !.files = Put(@, k, file)])

CreateFile(st, p, file) ==
  LET k == Clean(p)
  IN  Answer(st, <<Uninitialized(st),
                   Check(k \in DOMAIN st.files, "AlreadyExists"),
                   Check(Dir(k) # Root /\ Dir(k) \notin st.directories, "NotFound")>>,
             [st EXCEPT !.files = Put(@, k, file)])

\* The types the fields of a stored file have.
GoType == [size |-> "int64", chunks |-> "[]metadata.ChunkInfo",
           mime_type |-> "string", metadata |-> "map[string]string"]

\* Faulty variant: a file that does not exist is created.
UpdateFile_Upserts(st, p, updates) ==
  LET k == Clean(p)
  IN  Answer(st, <<Uninitialized(st)>>,
             [st EXCEPT !.files = Put(@, k, [f \in DOMAIN updates |-> updates[f].value])])

\* updates maps field names to typed values; one of another type is skipped.
UpdateFile(st, p, updates) ==
  LET k == Clean(p)
      fitting == {f \in DOMAIN GoType \cap DOMAIN updates : updates[f].type = GoType[f]}
  IN  Answer(st, <<Uninitialized(st), Check(k \notin DOMAIN st.files, "NotFound")>>,
             [st EXCEPT !.files[k] = Override(@, [f \in fitting |-> updates[f].value])])

DeleteFile(st, p) ==
  LET k == Clean(p)
  IN  Answer(st, <<Uninitialized(st), Check(k \notin DOMAIN st.files, "NotFound")>>,
             [st EXCEPT !.files = [f \in DOMAIN @ \ {k} |-> @[f]]])

-----------------------------------------------------------------------------
\* The entries that a listing contains are left out.
ListDirectory(st, p) ==
  LET d == WithSlash(Clean(p))
  IN  Answer(st, <<Uninitialized(st), Check(d \notin st.directories /\ d # Root, "NotFound")>>, st)

\* Dir of a key that ends with a slash is that key without it: the parent
\* looked up is the directory to be created.
CreateDirectory(st, p) ==
  LET d      == WithSlash(Clean(p))
      parent == WithSlash(Dir(d))
  IN  Answer(st, <<Uninitialized(st),
                   Check(d \in st.directories, "AlreadyExists"),
                   Check(parent \notin st.directories /\ parent # Root, "NotFound")>>,
             [st EXCEPT !.directories = @ \union {d}])

DeleteDirectory(st, p, recursive) ==
  LET d       == WithSlash(Clean(p))
      subdirs == {s \in st.directories : s # d /\ HasPrefix(s, d)}
      inside  == {f \in DOMAIN st.files : HasPrefix(WithSlash(Dir(f)), d)}
  IN  Answer(st, <<Uninitialized(st),
                   Check(d = Root, "PermissionDenied"),
                   Check(d \notin st.directories, "NotFound"),
                   Check(~recursive /\ subdirs \union inside # {}, "PermissionDenied")>>,
             [st EXCEPT !.directories = @ \ (subdirs \union {d}),
                        !.files = [f \in DOMAIN @ \ inside |-> @[f]]])
=============================================================================
