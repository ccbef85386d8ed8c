-------------------------- MODULE MetadataService --------------------------
(***************************************************************************)
(* The file and directory service from the caller of the HTTP client       *)
(* (common/network/http/client.go) to the store: retries, a network that   *)
(* loses and delays, the rate limiter (server/middleware/rate_limit.go),   *)
(* the handlers (server/api/v1/files.go, directories.go), MemoryStore, and *)
(* the life cycle of the server (server/server.go) with crashes.           *)
(*                                                                         *)
(* Every call c makes up to MaxRetries[c] + 1 attempts.  An attempt that   *)
(* its caller has given up may still reach the server and be handled.      *)
(***************************************************************************)
EXTENDS Integers, Sequences, FiniteSets, FiniteSetsExt

CONSTANTS Calls,       \* the calls; each is issued at most once
          ClientIP,    \* what getClientIP returns for the requests of a call
          Requests,    \* per call the requests it may make, as Request below
          MaxRetries,  \* per call, of its client's RetryPolicy
          Limit,       \* requests a client may make in a window
          Window,      \* the rate limiter's window, in clock ticks
          MaxCrashes   \* bound on the crashes of the server process

Store == INSTANCE MemoryStore

Attempts(c) == 0..MaxRetries[c]
IPs == {ClientIP[c] : c \in Calls}

\* A path parameter as the names between its slashes, without any if it is
\* empty; two slashes never follow each other, because the router redirects
\* such a request to the cleaned path.
Path == {p \in Seq(STRING) : \A i \in 1..(Len(p) - 1) : p[i] # ""}

\* A request: its path parameter, whether its body and query parse, whether
\* the body is too large, the fields of a file it carries, and the recursive
\* parameter.
Request(r) ==
  /\ r.op \in {"get", "create", "update", "delete", "list", "mkdir", "rmdir"}
  /\ r.path \in Path
  /\ {r.wellFormed, r.large, r.recursive} \subseteq BOOLEAN
  /\ DOMAIN r.fields \subseteq DOMAIN Store!GoType /\ r.fields \in [DOMAIN r.fields -> Int]

ASSUME ServiceAssumption ==
  /\ \A c \in Calls : \A r \in Requests[c] : Request(r)
  /\ MaxRetries \in [Calls -> Nat] /\ Limit \in Nat /\ Window \in Nat \ {0} /\ MaxCrashes \in Nat

VARIABLES
  store,     \* the MemoryStore
  server,    \* MetadataServer: new, running, stopping, stopped
  http,      \* its HTTP server: none, pending (goroutine started), listening, closed
  crashes,   \* number of crashes so far
  recent,    \* rate limiter: per client the attempts it recorded, with their ages
  admitted,  \* history: per client the attempts let pass within the last window
  call,      \* per call: phase, request, attempt and answer (0: an error)
  net        \* per call and attempt: where it is, and the status of its answer

vars == <<store, server, http, crashes, recent, admitted, call, net>>

-----------------------------------------------------------------------------
(***************************************************************************)
(* Handlers: from a store and a request to a store and an HTTP status.     *)
(***************************************************************************)
HandleAPIError(code) ==
  CASE code = "NotFound"         -> 404
    [] code = "PermissionDenied" -> 403
    [] code = "AlreadyExists"    -> 409
    [] code = "Internal"         -> 500

\* An early return with an error status.
Check(condition, status) == IF condition THEN status ELSE 0

\* The answer to a request that passes the checks: what the store says.
Respond(st, checks, result, success) ==
  LET failed == {i \in DOMAIN checks : checks[i] # 0}
  IN  IF failed # {} THEN [store |-> st, status |-> checks[Min(failed)]]
      ELSE [store |-> result.store,
            status |-> IF result.code = "OK" THEN success ELSE HandleAPIError(result.code)]

\* A parameter is given, and what ExtractPath makes of it.
NoPath(r) == Check(r.path = <<>>, 400)
ExtractPath(r) == Store!Clean(r.path)
Malformed(r) == Check(~r.wellFormed, 400)

GetFileInfo(st, r) ==
  Respond(st, <<NoPath(r)>>, Store!GetFileInfo(st, ExtractPath(r)), 200)

NewFile(r) == [f \in {"size", "mime_type"} |-> IF f \in DOMAIN r.fields THEN r.fields[f] ELSE 0]

CreateFile(st, r) ==
  Respond(st, <<NoPath(r), Check(r.large, 413), Malformed(r), Check(NewFile(r).size < 0, 400)>>,
          Store!CreateFile(st, ExtractPath(r), NewFile(r)), 201)

\* The types encoding/json decodes into an interface{}.
JSONType == [size |-> "float64", chunks |-> "[]interface{}",
             mime_type |-> "string", metadata |-> "map[string]interface{}"]

UpdateFile(st, r) ==
  LET updates == [f \in DOMAIN r.fields |-> [type |-> JSONType[f], value |-> r.fields[f]]]
  IN  Respond(st, <<NoPath(r), Malformed(r)>>, Store!UpdateFile(st, ExtractPath(r), updates), 200)

DeleteFile(st, r) ==
  Respond(st, <<NoPath(r)>>, Store!DeleteFile(st, ExtractPath(r)), 200)

ListDirectory(st, r) ==
  Respond(st, <<NoPath(r), Malformed(r)>>, Store!ListDirectory(st, ExtractPath(r)), 200)

CreateDirectory(st, r) ==
  Respond(st, <<NoPath(r), Malformed(r)>>, Store!CreateDirectory(st, ExtractPath(r)), 200)

DeleteDirectory(st, r) ==
  Respond(st, <<NoPath(r), Malformed(r)>>,
          Store!DeleteDirectory(st, ExtractPath(r), r.recursive), 200)

\* The routes.
Serve(st, r) ==
  CASE r.op = "get"    -> GetFileInfo(st, r)
    [] r.op = "create" -> CreateFile(st, r)
    [] r.op = "update" -> UpdateFile(st, r)
    [] r.op = "delete" -> DeleteFile(st, r)
    [] r.op = "list"   -> ListDirectory(st, r)
    [] r.op = "mkdir"  -> CreateDirectory(st, r)
    [] r.op = "rmdir"  -> DeleteDirectory(st, r)

-----------------------------------------------------------------------------
Init ==
  /\ store = Store!NewMemoryStore
  /\ server = "new" /\ http = "none" /\ crashes = 0
  /\ recent = [ip \in IPs |-> {}] /\ admitted = [ip \in IPs |-> {}]
  /\ call = [c \in Calls |-> [phase |-> "unissued"]]
  /\ net = [c \in Calls |-> [a \in Attempts(c) |-> [at |-> "nowhere", status |-> 0]]]

serverVars == <<store, server, http, crashes>>
limiterVars == <<recent, admitted>>
clientVars == <<call, net>>

(***************************************************************************)
(* The server.  Start returns before the goroutine that runs the HTTP      *)
(* server listens; Stop may therefore find no HTTP server to shut down.    *)
(* The cluster's own Start and Stop, which cannot fail, are in             *)
(* ClusterEvents.  A process is not started again after Stop.              *)
(***************************************************************************)
Start ==
  /\ server = "new"
  /\ store' = Store!Initialize(store).store
  /\ server' = "running" /\ http' = "pending"
  /\ UNCHANGED <<crashes, limiterVars, clientVars>>

\* A listen that fails, the address being taken, is one that never happens.
HTTPStart ==
  /\ http = "pending"
  /\ http' = "listening"
  /\ UNCHANGED <<store, server, crashes, limiterVars, clientVars>>

\* Shutdown closes the listener; handlers that run are waited for, at most
\* ten seconds.
StopShutdown ==
  /\ server = "running"
  /\ server' = "stopping"
  /\ http' = IF http = "listening" THEN "closed" ELSE http
  /\ UNCHANGED <<store, crashes, limiterVars, clientVars>>

StopClose ==
  /\ server = "stopping"
  /\ server' = "stopped"
  /\ store' = Store!Close(store)
  /\ UNCHANGED <<http, crashes, limiterVars, clientVars>>

\* The process dies, and with it its memory and connections; a new one is
\* started from nothing.
Crash ==
  /\ server # "new" /\ crashes < MaxCrashes
  /\ crashes' = crashes + 1
  /\ store' = Store!NewMemoryStore /\ server' = "new" /\ http' = "none"
  /\ recent' = [ip \in IPs |-> {}] /\ admitted' = [ip \in IPs |-> {}]
  /\ net' = [c \in Calls |-> [a \in Attempts(c) |->
               IF net[c][a].at \in {"sent", "admitted"} THEN [net[c][a] EXCEPT !.at = "nowhere"] ELSE net[c][a]]]
  /\ UNCHANGED call

(***************************************************************************)
(* The rate limiter.  Ages replace the times of the recorded attempts; an  *)
(* age of Window stands for any that is at least the window.  An attempt   *)
(* is recorded at most once in the life of a server.                       *)
(***************************************************************************)
Older(q) == [q EXCEPT !.age = IF q.age < Window THEN q.age + 1 ELSE q.age]

Tick ==
  /\ recent' = [ip \in IPs |-> {Older(q) : q \in recent[ip]}]
  /\ admitted' = [ip \in IPs |-> {q \in {Older(p) : p \in admitted[ip]} : q.age < Window}]
  /\ UNCHANGED <<serverVars, clientVars>>

Active(ip) == {q \in recent[ip] : q.age < Window}

Cleanup ==
  /\ recent' = [ip \in IPs |-> Active(ip)]
  /\ UNCHANGED <<admitted, serverVars, clientVars>>

\* Faulty variant: the limit itself is let pass.
Exceeded_OffByOne(ip) == Cardinality(Active(ip)) > Limit

Exceeded(ip) == Cardinality(Active(ip)) >= Limit

\* An attempt whose connection was accepted reaches the middleware.
RateLimit(c, a) ==
  LET ip  == ClientIP[c]
      new == [by |-> <<c, a>>, age |-> 0]
  IN  /\ net[c][a].at = "sent"
      /\ \/ /\ Exceeded(ip)
            /\ net' = [net EXCEPT ![c][a] = [at |-> "answered", status |-> 429]]
            /\ UNCHANGED limiterVars
         \/ /\ ~Exceeded(ip)
            /\ recent' = [recent EXCEPT ![ip] = Active(ip) \union {new}]
            /\ admitted' = [admitted EXCEPT ![ip] = @ \union {new}]
            /\ net' = [net EXCEPT ![c][a].at = "admitted"]
      /\ UNCHANGED <<call, serverVars>>

Handle(c, a) ==
  LET r == Serve(store, call[c].req)
  IN  /\ net[c][a].at = "admitted"
      /\ store' = r.store
      /\ net' = [net EXCEPT ![c][a] = [at |-> "answered", status |-> r.status]]
      /\ UNCHANGED <<server, http, crashes, call, limiterVars>>

(***************************************************************************)
(* The client.                                                             *)
(***************************************************************************)
Issue(c, r) ==
  /\ call[c].phase = "unissued"
  /\ call' = [call EXCEPT ![c] = [phase |-> "sending", req |-> r, attempt |-> 0, answer |-> 0]]
  /\ UNCHANGED <<net, serverVars, limiterVars>>

\* Faulty variant: the last attempt is retried as well.
doWithRetry_Forever(c, status) ==
  IF status = 0 \/ status >= 500 THEN [call[c] EXCEPT !.phase = "sending", !.attempt = Min({@ + 1, MaxRetries[c]})]
  ELSE [call[c] EXCEPT !.phase = "returned", !.answer = status]

\* The retry loop on the outcome of an attempt; status 0 is an error.
doWithRetry(c, status) ==
  IF (status = 0 \/ status >= 500) /\ call[c].attempt < MaxRetries[c]
  THEN [call[c] EXCEPT !.phase = "sending", !.attempt = @ + 1]
  ELSE [call[c] EXCEPT !.phase = "returned", !.answer = IF status >= 500 THEN 0 ELSE status]

\* The connection is made, or refused; before a retry the client sleeps.
Send(c) ==
  /\ call[c].phase = "sending"
  /\ \/ /\ http = "listening"
        /\ net' = [net EXCEPT ![c][call[c].attempt].at = "sent"]
        /\ call' = [call EXCEPT ![c].phase = "waiting"]
     \/ /\ http # "listening"
        /\ call' = [call EXCEPT ![c] = doWithRetry(c, 0)]
        /\ UNCHANGED net
  /\ UNCHANGED <<serverVars, limiterVars>>

Receive(c) ==
  /\ call[c].phase = "waiting"
  /\ net[c][call[c].attempt].at = "answered"
  /\ call' = [call EXCEPT ![c] = doWithRetry(c, net[c][call[c].attempt].status)]
  /\ UNCHANGED <<net, serverVars, limiterVars>>

\* The client's timeout, or a connection that breaks.
GiveUp(c) ==
  /\ call[c].phase = "waiting"
  /\ call' = [call EXCEPT ![c] = doWithRetry(c, 0)]
  /\ UNCHANGED <<net, serverVars, limiterVars>>

ClientStep(c) == Send(c) \/ Receive(c) \/ GiveUp(c)

Next ==
  \/ Start \/ HTTPStart \/ StopShutdown \/ StopClose \/ Crash
  \/ Tick \/ Cleanup
  \/ \E c \in Calls : \E a \in Attempts(c) : RateLimit(c, a) \/ Handle(c, a)
  \/ \E c \in Calls : \E r \in Requests[c] : Issue(c, r)
  \/ \E c \in Calls : ClientStep(c)

Spec == Init /\ [][Next]_vars

\* Only the client's own steps are fair: the sleep ends, the connection is
\* made or refused, and the client's timeout ends the wait for an answer.
FairSpec == Spec /\ \A c \in Calls : WF_vars(ClientStep(c))

-----------------------------------------------------------------------------
Issued == {c \in Calls : call[c].phase # "unissued"}

Outcome(status) ==
  CASE status < 400 -> "done" [] status = 409 -> "exists" [] status = 404 -> "missing" [] OTHER -> "rejected"

Answered(c) == {a \in Attempts(c) : net[c][a].at = "answered"}

\* The requests as FileService knows them.
Abstract ==
  [r \in UNION {Requests[c] : c \in Calls} |->
     [op |-> r.op, path |-> IF r.path = <<>> THEN <<>> ELSE Store!Clean(r.path),
      file |-> IF r.op = "create" THEN NewFile(r) ELSE r.fields]]
AbstractRequests == [c \in Calls |-> {Abstract[r] : r \in Requests[c]}]
AbstractEffects == [c \in Calls |-> MaxRetries[c] + 1]

\* The fields whose JSON type is the type the store looks for.
AppliedFields == {f \in DOMAIN Store!GoType : JSONType[f] = Store!GoType[f]}

Files == INSTANCE FileService WITH
  Requests   <- AbstractRequests,
  MaxEffects <- AbstractEffects,
  Applied    <- AppliedFields,
  files      <- store.files,
  request    <- [c \in Issued |-> Abstract[call[c].req]],
  effects    <- [c \in Issued |-> Cardinality(Answered(c))],
  outcomes   <- [c \in Issued |-> {Outcome(net[c][a].status) : a \in Answered(c)}],
  answer     <- [c \in Issued |-> IF call[c].phase # "returned" THEN "none yet"
                                  ELSE IF call[c].answer = 0 THEN "unknown" ELSE Outcome(call[c].answer)]

\* The service with its retries, its lossy network and its crashes provides
\* FileService: no attempt has more than one effect, no failure changes a file
\* or lies about its reason, a success has exactly its effect, and no answer is
\* invented.  FileService is what the code does: that it neither applies a
\* size nor makes directories is UpdateApplied's subject and the README's.
RefinesFileService == Files!Spec

\* What the tests expect of UpdateFile: a PUT that is answered with 200 has set
\* every field of the file it was given.
UpdateApplied ==
  [][\A c \in Issued : \A a \in Attempts(c) :
       call[c].req.op = "update" /\ net[c][a].at = "admitted" /\ net'[c][a].status = 200
         => \A f \in DOMAIN call[c].req.fields :
              store'.files[Store!Clean(call[c].req.path)][f] = call[c].req.fields[f]]_vars

\* The attempts answered with a status to requests op on the key k.
Handlings == UNION {{c} \X Answered(c) : c \in Issued}
Handled(k, op, status) ==
  {h \in Handlings :
     LET req == call[h[1]].req
     IN  /\ req.op = op /\ req.path # <<>> /\ Store!Clean(req.path) = k
         /\ net[h[1]][h[2]].status = status}

\* A file is created once: more 201 answers for a path than one per store and
\* one per successful DELETE of it never exist, however often POSTs are
\* repeated and however late they arrive.
CreatedOnce ==
  \A k \in {Store!Clean(call[c].req.path) : c \in {d \in Issued : call[d].req.path # <<>>}} :
    Cardinality(Handled(k, "create", 201)) <= 1 + crashes + Cardinality(Handled(k, "delete", 200))

\* In no window does a client get more than Limit requests past the limiter of
\* one server process, whatever the cleanup goroutine removes meanwhile.  (A
\* restarted process has forgotten the window, and so has the history.)
RateWindow == \A ip \in IPs : Cardinality(admitted[ip]) <= Limit

\* Every call of the client returns, whether or not the server answers.
CallReturns == \A c \in Calls : c \in Issued ~> call[c].phase = "returned"
=============================================================================
