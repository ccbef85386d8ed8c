---------------------------- MODULE FileService ----------------------------
(***************************************************************************)
(* What the metadata service provides to the callers of its HTTP client:   *)
(* each call c takes effect at most MaxEffects[c] times, each atomically   *)
(* and possibly after the caller was given an answer; the answer is the    *)
(* outcome of one of the call's own effects, or says nothing at all.  The  *)
(* files are volatile: they may be lost, but only all at once.  There is   *)
(* one directory, the root, and no way to make or to remove another; an    *)
(* update sets some of the fields of a file and ignores the others.        *)
(***************************************************************************)
EXTENDS Integers, Sequences, SequencesExt, FiniteSets

CONSTANTS Calls,      \* the calls; each is issued at most once
          Requests,   \* per call: records [op, path, file], file being the fields given
          MaxEffects, \* how often each call may take effect
          Applied     \* the fields an update sets

VARIABLES files,      \* partial function from paths to files
          request,    \* the request of each issued call
          effects,    \* how often each issued call took effect
          outcomes,   \* the outcomes of those effects
          answer      \* what the caller of each issued call was told

vars == <<files, request, effects, outcomes, answer>>

Outcomes == {"done", "exists", "missing", "rejected"}
Issued == DOMAIN request

Root == <<"">>
Parent(p) == IF Len(p) = 1 THEN Root ELSE Front(p)

Init ==
  /\ files = <<>>
  /\ request = <<>> /\ effects = <<>> /\ outcomes = <<>> /\ answer = <<>>

\* The partial function f with the value v at x, and f overridden by g.
At(f, x, v)    == [y \in DOMAIN f \union {x} |-> IF y = x THEN v ELSE f[y]]
Override(f, g) == [y \in DOMAIN f \union DOMAIN g |-> IF y \in DOMAIN g THEN g[y] ELSE f[y]]

Issue(c, r) ==
  /\ c \notin Issued
  /\ request'  = At(request, c, r)
  /\ effects'  = At(effects, c, 0)
  /\ outcomes' = At(outcomes, c, {})
  /\ answer'   = At(answer, c, "none yet")
  /\ UNCHANGED files

\* A success changes exactly the file of the request.
Done(r) ==
  \/ r.op = "get" /\ r.path \in DOMAIN files /\ UNCHANGED files
  \/ /\ r.op = "update" /\ r.path \in DOMAIN files
     /\ files' = [files EXCEPT ![r.path] =
                    Override(@, [f \in DOMAIN r.file \cap Applied |-> r.file[f]])]
  \/ /\ r.op = "delete" /\ r.path \in DOMAIN files
     /\ files' = [p \in DOMAIN files \ {r.path} |-> files[p]]
  \/ /\ r.op = "create" /\ r.path \notin DOMAIN files /\ Parent(r.path) = Root
     /\ files' = At(files, r.path, r.file)
  \/ r.op = "list" /\ r.path = Root /\ UNCHANGED files

\* A failure changes nothing, and says why truthfully.
Failed(r, outcome) ==
  /\ UNCHANGED files
  /\ \/ /\ outcome = "exists"
        /\ \/ r.op = "create" /\ r.path \in DOMAIN files
           \/ r.op = "mkdir" /\ r.path = Root
     \/ /\ outcome = "missing"
        /\ \/ r.op \in {"get", "update", "delete"} /\ r.path \notin DOMAIN files
           \/ r.op = "create" /\ Parent(r.path) # Root
           \/ r.op \in {"list", "mkdir", "rmdir"} /\ r.path # Root
     \/ outcome = "rejected"

Effect(c, outcome) ==
  /\ c \in Issued
  /\ effects[c] < MaxEffects[c]
  /\ effects'  = [effects EXCEPT ![c] = @ + 1]
  /\ outcomes' = [outcomes EXCEPT ![c] = @ \union {outcome}]
  /\ \/ outcome = "done" /\ Done(request[c])
     \/ Failed(request[c], outcome)
  /\ UNCHANGED <<request, answer>>

Return(c) ==
  /\ c \in Issued
  /\ answer[c] = "none yet"
  /\ \E a \in outcomes[c] \union {"unknown"} : answer' = [answer EXCEPT ![c] = a]
  /\ UNCHANGED <<files, request, effects, outcomes>>

Lose ==
  /\ files' = <<>>
  /\ UNCHANGED <<request, effects, outcomes, answer>>

Next ==
  \/ \E c \in Calls : \E r \in Requests[c] : Issue(c, r)
  \/ \E c \in Calls, o \in Outcomes : Effect(c, o)
  \/ \E c \in Calls : Return(c)
  \/ Lose

Spec == Init /\ [][Next]_vars
=============================================================================
