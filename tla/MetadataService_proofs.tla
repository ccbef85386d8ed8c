----------------------- MODULE MetadataService_proofs -----------------------
(***************************************************************************)
(* Proofs about MetadataService, for any calls, requests, clients, limits  *)
(* and number of retries and crashes.                                      *)
(*                                                                         *)
(* The limiter: what it has recorded within the window is what it let pass *)
(* (LimiterInv), because the two sets age together and the cleanup removes *)
(* only what is out of the window.                                         *)
(*                                                                         *)
(* The refinement of FileService needs to know where an attempt can be     *)
(* when its client acts (AttemptInv) and what the store can contain        *)
(* (StoreInv): no directory but the root is ever created, because          *)
(* CreateDirectory looks for the directory itself as the parent.  A step   *)
(* of the service then either answers no attempt (Quiet) and is at most an *)
(* issue, a return or a loss of all files, or answers one attempt          *)
(* (Answers) and is one effect of its call.                                *)
(*                                                                         *)
(* That creations are paid for is a count over all answered attempts       *)
(* (CountInv): an answer adds one attempt to one of the two sides, and the *)
(* side of the file's existence makes up for it.                           *)
(***************************************************************************)
EXTENDS MetadataService, FiniteSetTheorems, SequenceTheorems, TLAPS

-----------------------------------------------------------------------------
\* What the limiter records within the window is what it let pass.
LimiterInv ==
  /\ DOMAIN recent = IPs /\ DOMAIN admitted = IPs
  /\ \A ip \in IPs :
       /\ \A q \in recent[ip] : q \in [by : Calls \X Nat, age : Nat]
       /\ admitted[ip] = Active(ip)
       /\ IsFiniteSet(admitted[ip]) /\ Cardinality(admitted[ip]) <= Limit

Statuses == {200, 201, 400, 403, 404, 409, 413, 429, 500}

\* Attempts are made one after the other: those to come are nowhere, and an
\* answer has the status of a handler or of the limiter.
CallOK(c) ==
  \/ call[c] = [phase |-> "unissued"]
  \/ call[c] \in [phase : {"sending", "waiting", "returned"}, req : Requests[c],
                  attempt : Attempts(c), answer : Statuses \union {0}]

NetOK(c) ==
  /\ net[c] \in [Attempts(c) -> [at : {"nowhere", "sent", "admitted", "answered"},
                                 status : Statuses \union {0}]]
  /\ \A a \in Attempts(c) :
       /\ net[c][a].at = "answered" => net[c][a].status \in Statuses
       /\ call[c].phase = "unissued" => net[c][a].at = "nowhere"
       /\ call[c].phase # "unissued" /\ a > call[c].attempt => net[c][a].at = "nowhere"
       /\ call[c].phase = "sending" /\ a = call[c].attempt => net[c][a].at = "nowhere"

AttemptInv ==
  /\ DOMAIN call = Calls /\ DOMAIN net = Calls
  /\ \A c \in Calls : CallOK(c) /\ NetOK(c)

\* The store holds the root directory and no other, and nothing before the
\* server starts and after it has stopped.
StoreInv ==
  /\ store \in [initialized : BOOLEAN, files : {store.files}, directories : SUBSET {Store!Root}]
  /\ ~store.initialized => DOMAIN store.files = {}
  /\ store.initialized => store.directories = {Store!Root}
  /\ server \in {"new", "stopped"} => ~store.initialized

ServiceInv == AttemptInv /\ StoreInv

-----------------------------------------------------------------------------
(***************************************************************************)
(* The rate limiter.                                                       *)
(***************************************************************************)
LEMMA Bounds == Limit \in Nat /\ Window \in Nat /\ Window > 0 /\ MaxRetries \in [Calls -> Nat]
BY ServiceAssumption

LEMMA OlderAge ==
  ASSUME NEW q \in [by : Calls \X Nat, age : Nat]
  PROVE  /\ Older(q) \in [by : Calls \X Nat, age : Nat]
         /\ Older(q).age < Window => q.age < Window
BY Bounds DEF Older

\* Ageing records does not make them more.
LEMMA OlderCount ==
  ASSUME NEW S, IsFiniteSet(S), NEW T \in SUBSET {Older(q) : q \in S}
  PROVE  IsFiniteSet(T) /\ Cardinality(T) <= Cardinality(S)
<1> DEFINE D == {q \in S : Older(q) \in T}
           f == [q \in D |-> Older(q)]
<1>1. D \in SUBSET S
  OBVIOUS
<1>2. IsFiniteSet(D) /\ Cardinality(D) <= Cardinality(S)
  BY <1>1, FS_Subset
<1>3. f \in Surjection(D, T)
  BY DEF Surjection
<1>4. IsFiniteSet(T) /\ Cardinality(T) <= Cardinality(D)
  BY <1>2, <1>3, FS_Surjection
<1>5. Cardinality(T) \in Nat /\ Cardinality(D) \in Nat /\ Cardinality(S) \in Nat
  BY <1>2, <1>4, FS_CardinalityType
<1> QED BY <1>2, <1>4, <1>5

LEMMA LimiterInit == Init => LimiterInv
BY FS_EmptySet, Bounds DEF Init, LimiterInv, Active

LEMMA LimiterTick == ASSUME LimiterInv, Tick PROVE LimiterInv'
<1> SUFFICES ASSUME NEW ip \in IPs
             PROVE  /\ \A q \in recent'[ip] : q \in [by : Calls \X Nat, age : Nat]
                    /\ admitted'[ip] = {q \in recent'[ip] : q.age < Window}
                    /\ IsFiniteSet(admitted'[ip]) /\ Cardinality(admitted'[ip]) <= Limit
  BY DEF LimiterInv, Tick, Active
<1>1. /\ recent'[ip] = {Older(q) : q \in recent[ip]}
      /\ admitted'[ip] = {q \in {Older(p) : p \in admitted[ip]} : q.age < Window}
  BY DEF Tick
<1>2. /\ \A q \in recent[ip] : q \in [by : Calls \X Nat, age : Nat]
      /\ admitted[ip] = {q \in recent[ip] : q.age < Window}
      /\ IsFiniteSet(admitted[ip]) /\ Cardinality(admitted[ip]) <= Limit
  BY DEF LimiterInv, Active
<1>3. \A q \in recent[ip] :
        /\ Older(q) \in [by : Calls \X Nat, age : Nat]
        /\ Older(q).age < Window => q.age < Window
  BY <1>2, OlderAge
<1>4. admitted'[ip] = {q \in recent'[ip] : q.age < Window}
  <2>1. ASSUME NEW q \in admitted'[ip] PROVE q \in recent'[ip] /\ q.age < Window
    BY <1>1, <1>2, <2>1
  <2>2. ASSUME NEW q \in recent'[ip], q.age < Window PROVE q \in admitted'[ip]
    <3>1. PICK p \in recent[ip] : q = Older(p)
      BY <1>1
    <3>2. p.age < Window
      BY <1>3, <2>2, <3>1
    <3>3. p \in admitted[ip]
      BY <1>2, <3>2
    <3> QED BY <1>1, <2>2, <3>1, <3>3
  <2> QED BY <2>1, <2>2
<1>5. IsFiniteSet(admitted'[ip]) /\ Cardinality(admitted'[ip]) <= Cardinality(admitted[ip])
  BY <1>1, <1>2, OlderCount
<1>6. Cardinality(admitted'[ip]) \in Nat /\ Cardinality(admitted[ip]) \in Nat
  BY <1>2, <1>5, FS_CardinalityType
<1>7. Cardinality(admitted'[ip]) <= Limit
  BY <1>2, <1>5, <1>6, Bounds
<1>8. \A q \in recent'[ip] : q \in [by : Calls \X Nat, age : Nat]
  BY <1>1, <1>3
<1> QED BY <1>4, <1>5, <1>7, <1>8

LEMMA LimiterAdmits ==
  ASSUME LimiterInv, NEW c \in Calls, NEW a \in Attempts(c), RateLimit(c, a)
  PROVE  LimiterInv'
<1> DEFINE ip  == ClientIP[c]
           new == [by |-> <<c, a>>, age |-> 0]
<1>1. CASE UNCHANGED <<recent, admitted>>
  BY <1>1 DEF LimiterInv, Active
<1>2. CASE /\ ~Exceeded(ip)
           /\ recent' = [recent EXCEPT ![ip] = Active(ip) \union {new}]
           /\ admitted' = [admitted EXCEPT ![ip] = @ \union {new}]
  <2>1. ip \in IPs
    BY DEF IPs
  <2>2. new \in [by : Calls \X Nat, age : Nat] /\ new.age < Window
    BY Bounds DEF Attempts
  <2> HIDE DEF new, ip
  <2>3. /\ recent'[ip] = Active(ip) \union {new} /\ admitted'[ip] = admitted[ip] \union {new}
        /\ \A i \in IPs \ {ip} : recent'[i] = recent[i] /\ admitted'[i] = admitted[i]
        /\ DOMAIN recent' = IPs /\ DOMAIN admitted' = IPs
    BY <1>2, <2>1 DEF LimiterInv
  <2>4. admitted[ip] = Active(ip) /\ IsFiniteSet(admitted[ip]) /\ Cardinality(admitted[ip]) < Limit
    <3>1. admitted[ip] = Active(ip) /\ IsFiniteSet(admitted[ip]) /\ Cardinality(admitted[ip]) \in Nat
      BY <2>1, FS_CardinalityType DEF LimiterInv
    <3> QED BY <1>2, <3>1, Bounds DEF Exceeded
  <2>5. IsFiniteSet(admitted'[ip]) /\ Cardinality(admitted'[ip]) <= Limit
    <3>1. Cardinality(admitted[ip]) \in Nat
      BY <2>4, FS_CardinalityType
    <3>2. /\ IsFiniteSet(admitted[ip] \union {new})
          /\ Cardinality(admitted[ip] \union {new}) \in {Cardinality(admitted[ip]), Cardinality(admitted[ip]) + 1}
      BY <2>4, FS_AddElement
    <3> QED BY <2>3, <2>4, <3>1, <3>2, Bounds
  <2>6. admitted'[ip] = Active(ip)'
    BY <2>2, <2>3, <2>4 DEF Active
  <2>7. \A q \in recent'[ip] : q \in [by : Calls \X Nat, age : Nat]
    BY <2>1, <2>2, <2>3 DEF LimiterInv, Active
  <2>8. \A i \in IPs \ {ip} : Active(i)' = Active(i)
    BY <2>3 DEF Active
  <2> QED BY <2>3, <2>5, <2>6, <2>7, <2>8 DEF LimiterInv
<1> QED BY <1>1, <1>2 DEF RateLimit, limiterVars

LEMMA LimiterStep == ASSUME LimiterInv, [Next]_vars PROVE LimiterInv'
<1>1. CASE UNCHANGED <<recent, admitted>>
  BY <1>1 DEF LimiterInv, Active
<1>2. CASE Crash
  BY <1>2, FS_EmptySet, Bounds DEF Crash, LimiterInv, Active
<1>3. CASE Cleanup
  BY <1>3 DEF Cleanup, LimiterInv, Active
<1>4. CASE UNCHANGED vars \/ Start \/ HTTPStart \/ StopShutdown \/ StopClose
  BY <1>1, <1>4 DEF vars, Start, HTTPStart, StopShutdown, StopClose, limiterVars
<1>5. ASSUME NEW c \in Calls, NEW a \in Attempts(c), Handle(c, a) PROVE LimiterInv'
  BY <1>1, <1>5 DEF Handle, limiterVars
<1>6. ASSUME NEW c \in Calls, NEW r \in Requests[c], Issue(c, r) PROVE LimiterInv'
  BY <1>1, <1>6 DEF Issue, limiterVars
<1>7. ASSUME NEW c \in Calls, ClientStep(c) PROVE LimiterInv'
  BY <1>1, <1>7 DEF ClientStep, Send, Receive, GiveUp, limiterVars
<1> QED BY <1>2, <1>3, <1>4, <1>5, <1>6, <1>7, LimiterTick, LimiterAdmits DEF Next

\* In every window the limiter lets at most Limit requests of a client pass,
\* for any limit, window, clients and interleaving with its cleanup goroutine.
THEOREM LimitHolds == Spec => []RateWindow
<1>1. LimiterInv => RateWindow
  BY DEF LimiterInv, RateWindow
<1> QED BY <1>1, LimiterInit, LimiterStep, PTL DEF Spec

-----------------------------------------------------------------------------
(***************************************************************************)
(* The store.  Answer and Respond are early returns.                       *)
(***************************************************************************)
Key(r) == Store!Clean(r.path)

LEMMA AnswerOf2 ==
  ASSUME NEW st, NEW a, NEW b, NEW new, NEW s,
         s = Store!Answer(st, <<a, b>>, new)
  PROVE  \/ a # "OK" /\ s = [store |-> st, code |-> a]
         \/ a = "OK" /\ b # "OK" /\ s = [store |-> st, code |-> b]
         \/ a = "OK" /\ b = "OK" /\ s = [store |-> new, code |-> "OK"]
BY DEF Store!Answer, Store!Min

LEMMA AnswerOf3 ==
  ASSUME NEW st, NEW a, NEW b, NEW c, NEW new, NEW s,
         s = Store!Answer(st, <<a, b, c>>, new)
  PROVE  \/ a # "OK" /\ s = [store |-> st, code |-> a]
         \/ a = "OK" /\ b # "OK" /\ s = [store |-> st, code |-> b]
         \/ a = "OK" /\ b = "OK" /\ c # "OK" /\ s = [store |-> st, code |-> c]
         \/ a = "OK" /\ b = "OK" /\ c = "OK" /\ s = [store |-> new, code |-> "OK"]
BY DEF Store!Answer, Store!Min

LEMMA AnswerOf4 ==
  ASSUME NEW st, NEW a, NEW b, NEW c, NEW d, NEW new, NEW s,
         s = Store!Answer(st, <<a, b, c, d>>, new)
  PROVE  \/ a # "OK" /\ s = [store |-> st, code |-> a]
         \/ a = "OK" /\ b # "OK" /\ s = [store |-> st, code |-> b]
         \/ a = "OK" /\ b = "OK" /\ c # "OK" /\ s = [store |-> st, code |-> c]
         \/ a = "OK" /\ b = "OK" /\ c = "OK" /\ d # "OK" /\ s = [store |-> st, code |-> d]
         \/ a = "OK" /\ b = "OK" /\ c = "OK" /\ d = "OK" /\ s = [store |-> new, code |-> "OK"]
BY DEF Store!Answer, Store!Min

\* The answer with what the store says.
Said(result, success) ==
  [store |-> result.store,
   status |-> IF result.code = "OK" THEN success ELSE HandleAPIError(result.code)]

\* A handler refuses a request itself, or answers what the store says.
LEMMA Checked1 ==
  ASSUME NEW st, NEW r, NEW result, NEW success, NEW s, s = Respond(st, <<NoPath(r)>>, result, success)
  PROVE  \/ s = [store |-> st, status |-> 400]
         \/ r.path # <<>> /\ s = Said(result, success)
<1> DEFINE n == NoPath(r)
<1>1. (r.path = <<>> /\ n = 400) \/ (r.path # <<>> /\ n = 0)
  BY DEF NoPath, Check
<1> HIDE DEF n
<1>2. s = Respond(st, <<n>>, result, success)
  BY DEF n
<1>3. CASE r.path = <<>> /\ n = 400
  BY <1>2, <1>3 DEF Respond, Said, Min
<1>4. CASE r.path # <<>> /\ n = 0
  BY <1>2, <1>4 DEF Respond, Said, Min
<1> QED BY <1>1, <1>3, <1>4

LEMMA Checked2 ==
  ASSUME NEW st, NEW r, NEW result, NEW success, NEW s,
         s = Respond(st, <<NoPath(r), Malformed(r)>>, result, success)
  PROVE  \/ s = [store |-> st, status |-> 400]
         \/ r.path # <<>> /\ s = Said(result, success)
<1> DEFINE n == NoPath(r)
           m == Malformed(r)
<1>1. (r.path = <<>> /\ n = 400) \/ (r.path # <<>> /\ n = 0)
  BY DEF NoPath, Check
<1>2. m = 400 \/ m = 0
  BY DEF Malformed, Check
<1> HIDE DEF n, m
<1>3. s = Respond(st, <<n, m>>, result, success)
  BY DEF n, m
<1>4. CASE n = 400
  BY <1>3, <1>4 DEF Respond, Said, Min
<1>5. CASE n = 0 /\ m = 400
  BY <1>3, <1>5, SMTT(30) DEF Respond, Said, Min
<1>6. CASE r.path # <<>> /\ n = 0 /\ m = 0
  BY <1>3, <1>6, SMTT(30) DEF Respond, Said, Min
<1> QED BY <1>1, <1>2, <1>4, <1>5, <1>6

LEMMA Checked4 ==
  ASSUME NEW st, NEW r, NEW result, NEW success, NEW s, NEW large, NEW negative,
         s = Respond(st, <<NoPath(r), Check(large, 413), Malformed(r), Check(negative, 400)>>, result, success)
  PROVE  \/ s = [store |-> st, status |-> 400] \/ s = [store |-> st, status |-> 413]
         \/ r.path # <<>> /\ s = Said(result, success)
<1> DEFINE n == NoPath(r)
           l == Check(large, 413)
           m == Malformed(r)
           v == Check(negative, 400)
<1>1. (r.path = <<>> /\ n = 400) \/ (r.path # <<>> /\ n = 0)
  BY DEF NoPath, Check
<1>2. (l = 413 \/ l = 0) /\ (m = 400 \/ m = 0) /\ (v = 400 \/ v = 0)
  BY DEF Malformed, Check
<1> HIDE DEF n, l, m, v
<1>3. s = Respond(st, <<n, l, m, v>>, result, success)
  BY DEF n, l, m, v
<1>4. CASE n = 400
  <2> DEFINE checks == <<n, l, m, v>>
             failed == {i \in DOMAIN checks : checks[i] # 0}
  <2>1. 1 \in failed /\ failed \subseteq 1..4 /\ checks[1] = 400
    BY <1>4
  <2>2. s = IF failed # {} THEN [store |-> st, status |-> checks[Min(failed)]] ELSE Said(result, success)
    BY <1>3 DEF Respond, Said
  <2> HIDE DEF failed, checks
  <2>3. Min(failed) = 1
    <3>1. \A x \in failed : 1 <= x /\ x \in Int
      BY <2>1
    <3>2. \A x \in failed : (\A y \in failed : x <= y) <=> x = 1
      BY <2>1, <3>1
    <3>3. Min(failed) \in failed /\ \A y \in failed : Min(failed) <= y
      <4>1. \E x \in failed : \A y \in failed : x <= y
        BY <2>1, <3>1
      <4> QED BY <4>1, Zenon DEF Min
    <3> QED BY <3>2, <3>3
  <2> QED BY <2>1, <2>2, <2>3
<1>5. CASE n = 0 /\ l = 413
  BY <1>3, <1>5, SMTT(30) DEF Respond, Said, Min
<1>6. CASE n = 0 /\ l = 0 /\ m = 400
  BY <1>3, <1>6, SMTT(30) DEF Respond, Said, Min
<1>7. CASE n = 0 /\ l = 0 /\ m = 0 /\ v = 400
  BY <1>3, <1>7, SMTT(30) DEF Respond, Said, Min
<1>8. CASE r.path # <<>> /\ n = 0 /\ l = 0 /\ m = 0 /\ v = 0
  BY <1>3, <1>8, SMTT(30) DEF Respond, Said, Min
<1> QED BY <1>1, <1>2, <1>4, <1>5, <1>6, <1>7, <1>8

\* Sequences of names.
LEMMA Singleton ==
  ASSUME NEW S, NEW p \in Seq(S), NEW x \in S, Len(p) = 1, p[1] = x
  PROVE  p = <<x>>
<1> DEFINE q == <<x>>
<1>1. q \in Seq(S)
  OBVIOUS
<1>2. Len(q) = 1 /\ q[1] = x
  OBVIOUS
<1> HIDE DEF q
<1>3. Len(p) = Len(q) /\ \A i \in 1..Len(p) : p[i] = q[i]
  BY <1>2
<1>4. p = q
  BY <1>1, <1>3, SeqEqual
<1> QED BY <1>4 DEF q

LEMMA FrontOf ==
  ASSUME NEW S, NEW p \in Seq(S), Len(p) # 0
  PROVE  /\ Store!Front(p) \in Seq(S) /\ Len(Store!Front(p)) = Len(p) - 1
         /\ \A i \in 1..(Len(p) - 1) : Store!Front(p)[i] = p[i]
<1> DEFINE n == Len(p) - 1
<1>1. n \in Nat /\ n <= Len(p)
  OBVIOUS
<1>2. Store!Front(p) = SubSeq(p, 1, n)
  BY DEF Store!Front
<1> HIDE DEF n
<1>3. SubSeq(p, 1, n) \in Seq(S) /\ Len(SubSeq(p, 1, n)) = n
  BY <1>1
<1>4. \A i \in 1..n : SubSeq(p, 1, n)[i] = p[i]
  BY <1>1
<1> QED BY <1>2, <1>3, <1>4 DEF n

\* Cleaning a path a second time, as the store does after the handler, changes
\* nothing.
Names == STRING \union {""}

LEMMA CleanTwice ==
  ASSUME NEW p \in Path, p # <<>>
  PROVE  /\ Store!Clean(Store!Clean(p)) = Store!Clean(p)
         /\ Store!Clean(p) \in Seq(Names) /\ Len(Store!Clean(p)) # 0
<1> DEFINE n == Len(p)
<1>1. p \in Seq(STRING) /\ \A i \in 1..(n - 1) : p[i] # ""
  BY DEF Path
<1>2. p \in Seq(Names) /\ "" \in Names /\ n # 0 /\ n \in Nat
  <2>1. STRING \subseteq Names /\ "" \in Names
    BY DEF Names
  <2>2. n # 0 /\ n \in Nat
    BY <1>1, EmptySeq, LenProperties
  <2> QED BY <1>1, <2>1, <2>2, SeqMonotonic
<1>3. CASE Store!Last(p) = "" /\ p # Store!Root
  <2>1. n # 1
    BY <1>2, <1>3, Singleton, ZenonT(30) DEF Store!Last, Store!Root
  <2> DEFINE q == Store!Front(p)
  <2>2. q \in Seq(Names) /\ Len(q) = n - 1 /\ \A i \in 1..(n - 1) : q[i] = p[i]
    BY <1>2, FrontOf
  <2>3. Store!Clean(p) = q
    BY <1>3 DEF Store!Clean
  <2> HIDE DEF q, n
  <2>4. n - 1 \in 1..(n - 1)
    <3>1. \A k \in Nat : k # 0 /\ k # 1 => k - 1 \in 1..(k - 1)
      OBVIOUS
    <3> QED BY <1>2, <2>1, <3>1
  <2>5. Store!Last(q) # ""
    BY <1>1, <2>2, <2>4 DEF Store!Last
  <2>6. Len(q) # 0
    BY <2>2, <2>4
  <2> QED BY <2>2, <2>3, <2>5, <2>6 DEF Store!Clean
<1>4. CASE ~(Store!Last(p) = "" /\ p # Store!Root)
  BY <1>2, <1>4 DEF Store!Clean, n
<1> QED BY <1>3, <1>4

\* A refused request changes nothing, and its status is true of the store.
Refused(st, r, s) ==
  /\ s.store = st
  /\ \/ s.status \in {400, 403, 413, 500}
     \/ /\ s.status = 404 /\ r.path # <<>>
        /\ r.op \in {"get", "update", "delete"} => Key(r) \notin DOMAIN st.files
        /\ r.op = "create" => Store!Dir(Key(r)) # Store!Root
        /\ r.op \in {"list", "mkdir", "rmdir"} => Key(r) # Store!Root
     \/ /\ s.status = 409 /\ r.path # <<>>
        /\ \/ r.op = "create" /\ Key(r) \in DOMAIN st.files
           \/ r.op = "mkdir" /\ Key(r) = Store!Root

\* The fields of an update that are applied.
Fitting(r) == DOMAIN r.fields \cap AppliedFields

\* A request that is carried out changes the file it is about, if any.
CarriedOut(st, r, s) ==
  /\ r.path # <<>> /\ st.initialized
  /\ \/ r.op = "get" /\ s.status = 200 /\ s.store = st /\ Key(r) \in DOMAIN st.files
     \/ /\ r.op = "create" /\ s.status = 201 /\ Key(r) \notin DOMAIN st.files
        /\ Store!Dir(Key(r)) = Store!Root
        /\ s.store = [st EXCEPT !.files = Store!Put(@, Key(r), NewFile(r))]
     \/ /\ r.op = "update" /\ s.status = 200 /\ Key(r) \in DOMAIN st.files
        /\ s.store = [st EXCEPT !.files[Key(r)] = Store!Override(@, [f \in Fitting(r) |-> r.fields[f]])]
     \/ /\ r.op = "delete" /\ s.status = 200 /\ Key(r) \in DOMAIN st.files
        /\ s.store = [st EXCEPT !.files = [f \in DOMAIN @ \ {Key(r)} |-> @[f]]]
     \/ r.op = "list" /\ s.status = 200 /\ s.store = st /\ Key(r) = Store!Root

\* The directories of a store: the root, once it is initialized.
RootOnly(st) == st.directories \subseteq {Store!Root} /\ (st.initialized => st.directories = {Store!Root})

LEMMA ServeGet ==
  ASSUME NEW st, NEW r, Request(r), r.op = "get"
  PROVE  Refused(st, r, Serve(st, r)) \/ CarriedOut(st, r, Serve(st, r))
<1> DEFINE k      == Key(r)
           result == Store!GetFileInfo(st, k)
<1>1. Serve(st, r) = Respond(st, <<NoPath(r)>>, result, 200)
  BY DEF Serve, GetFileInfo, ExtractPath, Key
<1>2. \/ Serve(st, r) = [store |-> st, status |-> 400]
      \/ r.path # <<>> /\ Serve(st, r) = Said(result, 200)
  <2> HIDE DEF result
  <2> QED BY <1>1, Checked1
<1>3. ASSUME r.path # <<>>
      PROVE  \/ result = [store |-> st, code |-> "Internal"]
             \/ result = [store |-> st, code |-> "NotFound"] /\ k \notin DOMAIN st.files
             \/ result = [store |-> st, code |-> "OK"] /\ k \in DOMAIN st.files /\ st.initialized
  <2>1. Store!Clean(k) = k
    BY <1>3, CleanTwice DEF Key, Request
  <2> DEFINE a == Store!Uninitialized(st)
             b == Store!Check(k \notin DOMAIN st.files, "NotFound")
  <2>2. result = Store!Answer(st, <<a, b>>, st)
    BY <2>1 DEF Store!GetFileInfo
  <2>3. (~st.initialized /\ a = "Internal") \/ (st.initialized /\ a = "OK")
    BY DEF Store!Uninitialized, Store!Check
  <2>4. (k \notin DOMAIN st.files /\ b = "NotFound") \/ (k \in DOMAIN st.files /\ b = "OK")
    BY DEF Store!Check
  <2> HIDE DEF k, result, a, b
  <2> QED BY <2>2, <2>3, <2>4, AnswerOf2
<1> HIDE DEF k, result
<1> QED BY <1>2, <1>3 DEF k, Said, HandleAPIError, Refused, CarriedOut

LEMMA ServeCreate ==
  ASSUME NEW st, NEW r, Request(r), r.op = "create", RootOnly(st)
  PROVE  Refused(st, r, Serve(st, r)) \/ CarriedOut(st, r, Serve(st, r))
<1> DEFINE k      == Key(r)
           new    == [st EXCEPT !.files = Store!Put(@, k, NewFile(r))]
           result == Store!CreateFile(st, k, NewFile(r))
<1>1. Serve(st, r) = Respond(st, <<NoPath(r), Check(r.large, 413), Malformed(r), Check(NewFile(r).size < 0, 400)>>,
                             result, 201)
  BY DEF Serve, CreateFile, ExtractPath, Key
<1>2. \/ Serve(st, r) = [store |-> st, status |-> 400]
      \/ Serve(st, r) = [store |-> st, status |-> 413]
      \/ r.path # <<>> /\ Serve(st, r) = Said(result, 201)
  <2> HIDE DEF result
  <2> QED BY <1>1, Checked4
<1>3. ASSUME r.path # <<>>
      PROVE  \/ result = [store |-> st, code |-> "Internal"]
             \/ result = [store |-> st, code |-> "AlreadyExists"] /\ k \in DOMAIN st.files
             \/ result = [store |-> st, code |-> "NotFound"] /\ Store!Dir(k) # Store!Root
             \/ /\ result = [store |-> new, code |-> "OK"] /\ k \notin DOMAIN st.files
                /\ st.initialized /\ Store!Dir(k) = Store!Root
  <2>1. Store!Clean(k) = k
    BY <1>3, CleanTwice DEF Key, Request
  <2> DEFINE a == Store!Uninitialized(st)
             b == Store!Check(k \in DOMAIN st.files, "AlreadyExists")
             c == Store!Check(Store!Dir(k) # Store!Root /\ Store!Dir(k) \notin st.directories, "NotFound")
  <2>2. result = Store!Answer(st, <<a, b, c>>, new)
    BY <2>1 DEF Store!CreateFile
  <2>3. (~st.initialized /\ a = "Internal") \/ (st.initialized /\ a = "OK")
    BY DEF Store!Uninitialized, Store!Check
  <2>4. (k \in DOMAIN st.files /\ b = "AlreadyExists") \/ (k \notin DOMAIN st.files /\ b = "OK")
    BY DEF Store!Check
  <2>5. (c = "NotFound" /\ Store!Dir(k) # Store!Root) \/ (c = "OK" /\ Store!Dir(k) = Store!Root)
    <3> HIDE DEF k
    <3> QED BY DEF Store!Check, RootOnly
  <2> HIDE DEF k, result, new, a, b, c
  <2> QED BY <2>2, <2>3, <2>4, <2>5, AnswerOf3
<1> HIDE DEF k, result, new
<1> QED BY <1>2, <1>3 DEF k, new, Said, HandleAPIError, Refused, CarriedOut

LEMMA ServeUpdate ==
  ASSUME NEW st, NEW r, Request(r), r.op = "update"
  PROVE  Refused(st, r, Serve(st, r)) \/ CarriedOut(st, r, Serve(st, r))
<1> DEFINE k       == Key(r)
           updates == [f \in DOMAIN r.fields |-> [type |-> JSONType[f], value |-> r.fields[f]]]
           fitting == {f \in DOMAIN Store!GoType \cap DOMAIN updates : updates[f].type = Store!GoType[f]}
           new     == [st EXCEPT !.files[k] = Store!Override(@, [f \in fitting |-> updates[f].value])]
           result  == Store!UpdateFile(st, k, updates)
<1>1. Serve(st, r) = Respond(st, <<NoPath(r), Malformed(r)>>, result, 200)
  BY DEF Serve, UpdateFile, ExtractPath, Key
<1>2. \/ Serve(st, r) = [store |-> st, status |-> 400]
      \/ r.path # <<>> /\ Serve(st, r) = Said(result, 200)
  <2> HIDE DEF result
  <2> QED BY <1>1, Checked2
<1>3. ASSUME r.path # <<>>
      PROVE  \/ result = [store |-> st, code |-> "Internal"]
             \/ result = [store |-> st, code |-> "NotFound"] /\ k \notin DOMAIN st.files
             \/ result = [store |-> new, code |-> "OK"] /\ k \in DOMAIN st.files /\ st.initialized
  <2>1. Store!Clean(k) = k
    BY <1>3, CleanTwice DEF Key, Request
  <2> DEFINE a == Store!Uninitialized(st)
             b == Store!Check(k \notin DOMAIN st.files, "NotFound")
  <2>2. result = Store!Answer(st, <<a, b>>, new)
    <3> HIDE DEF k, updates
    <3> QED BY <2>1 DEF Store!UpdateFile
  <2>3. (~st.initialized /\ a = "Internal") \/ (st.initialized /\ a = "OK")
    BY DEF Store!Uninitialized, Store!Check
  <2>4. (k \notin DOMAIN st.files /\ b = "NotFound") \/ (k \in DOMAIN st.files /\ b = "OK")
    BY DEF Store!Check
  <2> HIDE DEF k, result, new, a, b
  <2> QED BY <2>2, <2>3, <2>4, AnswerOf2
<1>4. fitting = Fitting(r)
  <2>1. \A f \in DOMAIN r.fields : updates[f].type = JSONType[f]
    OBVIOUS
  <2>2. DOMAIN updates = DOMAIN r.fields
    OBVIOUS
  <2> HIDE DEF updates
  <2> QED BY <2>1, <2>2 DEF Fitting, AppliedFields
<1>5. [f \in fitting |-> updates[f].value] = [f \in Fitting(r) |-> r.fields[f]]
  <2>1. \A f \in Fitting(r) : updates[f].value = r.fields[f]
    BY DEF Fitting
  <2> HIDE DEF fitting, updates
  <2> QED BY <1>4, <2>1
<1>6. new = [st EXCEPT !.files[k] = Store!Override(@, [f \in Fitting(r) |-> r.fields[f]])]
  <2> HIDE DEF k, fitting, updates
  <2> QED BY <1>5
<1> HIDE DEF k, result, new, fitting, updates
<1>7. CASE r.path # <<>> /\ Serve(st, r) = Said(result, 200) /\ result.code = "OK"
  <2>1. Serve(st, r).status = 200 /\ Serve(st, r).store = new /\ k \in DOMAIN st.files /\ st.initialized
    BY <1>3, <1>7 DEF Said
  <2>2. Serve(st, r).store = [st EXCEPT !.files[k] = Store!Override(@, [f \in Fitting(r) |-> r.fields[f]])]
    BY <1>6, <2>1
  <2> QED BY <1>7, <2>1, <2>2, Zenon DEF k, CarriedOut
<1>8. CASE r.path # <<>> /\ Serve(st, r) = Said(result, 200) /\ result.code # "OK"
  BY <1>3, <1>8 DEF k, Said, HandleAPIError, Refused
<1> QED BY <1>2, <1>7, <1>8 DEF Refused

LEMMA ServeDelete ==
  ASSUME NEW st, NEW r, Request(r), r.op = "delete"
  PROVE  Refused(st, r, Serve(st, r)) \/ CarriedOut(st, r, Serve(st, r))
<1> DEFINE k      == Key(r)
           new    == [st EXCEPT !.files = [f \in DOMAIN @ \ {k} |-> @[f]]]
           result == Store!DeleteFile(st, k)
<1>1. Serve(st, r) = Respond(st, <<NoPath(r)>>, result, 200)
  BY DEF Serve, DeleteFile, ExtractPath, Key
<1>2. \/ Serve(st, r) = [store |-> st, status |-> 400]
      \/ r.path # <<>> /\ Serve(st, r) = Said(result, 200)
  <2> HIDE DEF result
  <2> QED BY <1>1, Checked1
<1>3. ASSUME r.path # <<>>
      PROVE  \/ result = [store |-> st, code |-> "Internal"]
             \/ result = [store |-> st, code |-> "NotFound"] /\ k \notin DOMAIN st.files
             \/ result = [store |-> new, code |-> "OK"] /\ k \in DOMAIN st.files /\ st.initialized
  <2>1. Store!Clean(k) = k
    BY <1>3, CleanTwice DEF Key, Request
  <2> DEFINE a == Store!Uninitialized(st)
             b == Store!Check(k \notin DOMAIN st.files, "NotFound")
  <2>2. result = Store!Answer(st, <<a, b>>, new)
    BY <2>1 DEF Store!DeleteFile
  <2>3. (~st.initialized /\ a = "Internal") \/ (st.initialized /\ a = "OK")
    BY DEF Store!Uninitialized, Store!Check
  <2>4. (k \notin DOMAIN st.files /\ b = "NotFound") \/ (k \in DOMAIN st.files /\ b = "OK")
    BY DEF Store!Check
  <2> HIDE DEF k, result, new, a, b
  <2> QED BY <2>2, <2>3, <2>4, AnswerOf2
<1> HIDE DEF k, result, new
<1> QED BY <1>2, <1>3 DEF k, new, Said, HandleAPIError, Refused, CarriedOut

\* Dir of a directory's key is that directory without its slash.
LEMMA DirectoryKey ==
  ASSUME NEW k \in Seq(Names), Len(k) # 0, k # Store!Root, NEW d, d = Store!WithSlash(k)
  PROVE  d # Store!Root /\ Store!Dir(d) = k /\ Store!WithSlash(Store!Dir(d)) = d
<1>1. d = Append(k, "")
  BY DEF Store!WithSlash
<1>2. "" \in Names
  BY DEF Names
<1>3. /\ d \in Seq(Names) /\ Len(d) = Len(k) + 1 /\ Len(k) \in Nat
      /\ \A i \in 1..Len(k) : d[i] = k[i]
  <2>1. /\ Append(k, "") \in Seq(Names) /\ Len(Append(k, "")) = Len(k) + 1
        /\ \A i \in 1..Len(k) : Append(k, "")[i] = k[i]
    BY <1>2, AppendProperties, ZenonT(30)
  <2>2. Len(k) \in Nat
    BY LenProperties
  <2> QED BY <1>1, <2>1, <2>2
<1>4. Len(d) # 1 /\ Len(d) # 0
  BY <1>3
<1>5. d # Store!Root
  BY <1>4 DEF Store!Root
<1>6. Store!Dir(d) = Store!Front(d)
  BY <1>4 DEF Store!Dir
<1>7. /\ Store!Front(d) \in Seq(Names) /\ Len(Store!Front(d)) = Len(k)
      /\ \A i \in 1..Len(k) : Store!Front(d)[i] = k[i]
  <2>1. /\ Store!Front(d) \in Seq(Names) /\ Len(Store!Front(d)) = Len(d) - 1
        /\ \A i \in 1..(Len(d) - 1) : Store!Front(d)[i] = d[i]
    BY <1>3, <1>4, FrontOf
  <2>2. Len(d) - 1 = Len(k)
    BY <1>3
  <2> QED BY <1>3, <2>1, <2>2
<1>8. Store!Front(d) = k
  BY <1>7, SeqEqual
<1> QED BY <1>5, <1>6, <1>8

LEMMA ServeList ==
  ASSUME NEW st, NEW r, Request(r), r.op = "list", RootOnly(st)
  PROVE  Refused(st, r, Serve(st, r)) \/ CarriedOut(st, r, Serve(st, r))
<1> DEFINE k      == Key(r)
           result == Store!ListDirectory(st, k)
<1>1. Serve(st, r) = Respond(st, <<NoPath(r), Malformed(r)>>, result, 200)
  BY DEF Serve, ListDirectory, ExtractPath, Key
<1>2. \/ Serve(st, r) = [store |-> st, status |-> 400]
      \/ r.path # <<>> /\ Serve(st, r) = Said(result, 200)
  <2> HIDE DEF result
  <2> QED BY <1>1, Checked2
<1>3. ASSUME r.path # <<>>
      PROVE  \/ result = [store |-> st, code |-> "Internal"]
             \/ result = [store |-> st, code |-> "NotFound"] /\ k # Store!Root
             \/ result = [store |-> st, code |-> "OK"] /\ st.initialized /\ k = Store!Root
  <2>0. Store!Clean(k) = k /\ k \in Seq(Names) /\ Len(k) # 0
    BY <1>3, CleanTwice DEF Key, Request
  <2> DEFINE d == Store!WithSlash(k)
             a == Store!Uninitialized(st)
             b == Store!Check(d \notin st.directories /\ d # Store!Root, "NotFound")
  <2>1. result = Store!Answer(st, <<a, b>>, st)
    BY <2>0 DEF Store!ListDirectory
  <2>2. (~st.initialized /\ a = "Internal") \/ (st.initialized /\ a = "OK")
    BY DEF Store!Uninitialized, Store!Check
  <2>3. (b = "NotFound" /\ k # Store!Root) \/ (b = "OK" /\ k = Store!Root)
    <3>1. d = Store!Root <=> k = Store!Root
      BY <2>0, DirectoryKey DEF Store!WithSlash
    <3> HIDE DEF k, d
    <3> QED BY <3>1 DEF Store!Check, RootOnly
  <2> HIDE DEF k, result, a, b
  <2> QED BY <2>1, <2>2, <2>3, AnswerOf2
<1> HIDE DEF k, result
<1> QED BY <1>2, <1>3 DEF k, Said, HandleAPIError, Refused, CarriedOut

\* The root exists, and the parent of any other directory is looked for under
\* that directory's own name.
LEMMA ServeMkdir ==
  ASSUME NEW st, NEW r, Request(r), r.op = "mkdir", RootOnly(st)
  PROVE  Refused(st, r, Serve(st, r))
<1> DEFINE k      == Key(r)
           d      == Store!WithSlash(k)
           parent == Store!WithSlash(Store!Dir(d))
           new    == [st EXCEPT !.directories = @ \union {d}]
           result == Store!CreateDirectory(st, k)
<1>1. Serve(st, r) = Respond(st, <<NoPath(r), Malformed(r)>>, result, 200)
  BY DEF Serve, CreateDirectory, ExtractPath, Key
<1>2. \/ Serve(st, r) = [store |-> st, status |-> 400]
      \/ r.path # <<>> /\ Serve(st, r) = Said(result, 200)
  <2> HIDE DEF result
  <2> QED BY <1>1, Checked2
<1>3. ASSUME r.path # <<>>
      PROVE  \/ result = [store |-> st, code |-> "Internal"]
             \/ result = [store |-> st, code |-> "AlreadyExists"] /\ k = Store!Root
             \/ result = [store |-> st, code |-> "NotFound"] /\ k # Store!Root
  <2>1. Store!Clean(k) = k /\ k \in Seq(Names) /\ Len(k) # 0
    BY <1>3, CleanTwice DEF Key, Request
  <2> DEFINE a == Store!Uninitialized(st)
             b == Store!Check(d \in st.directories, "AlreadyExists")
             c == Store!Check(parent \notin st.directories /\ parent # Store!Root, "NotFound")
  <2>2. result = Store!Answer(st, <<a, b, c>>, new)
    BY <2>1 DEF Store!CreateDirectory
  <2>3. (~st.initialized /\ a = "Internal") \/ (st.initialized /\ a = "OK")
    BY DEF Store!Uninitialized, Store!Check
  <2>4. CASE k = Store!Root
    <3>1. d = Store!Root
      BY <2>4 DEF Store!WithSlash
    <3>2. st.initialized => b = "AlreadyExists"
      <4> HIDE DEF d
      <4> QED BY <3>1 DEF Store!Check, RootOnly
    <3> HIDE DEF k, d, parent, result, new, a, b, c
    <3> QED BY <2>2, <2>3, <2>4, <3>2, AnswerOf3
  <2>5. CASE k # Store!Root
    <3>1. d # Store!Root /\ parent = d
      BY <2>1, <2>5, DirectoryKey
    <3>2. b = "OK" /\ c = "NotFound"
      <4> HIDE DEF d, parent
      <4> QED BY <3>1 DEF Store!Check, RootOnly
    <3> HIDE DEF k, d, parent, result, new, a, b, c
    <3> QED BY <2>2, <2>3, <2>5, <3>2, AnswerOf3
  <2> QED BY <2>4, <2>5
<1> HIDE DEF k, d, parent, result, new
<1> QED BY <1>2, <1>3 DEF k, Said, HandleAPIError, Refused

\* The root is not deleted, and there is no other directory.
LEMMA ServeRmdir ==
  ASSUME NEW st, NEW r, Request(r), r.op = "rmdir", RootOnly(st)
  PROVE  Refused(st, r, Serve(st, r))
<1> DEFINE k       == Key(r)
           d       == Store!WithSlash(k)
           subdirs == {s \in st.directories : s # d /\ Store!HasPrefix(s, d)}
           inside  == {f \in DOMAIN st.files : Store!HasPrefix(Store!WithSlash(Store!Dir(f)), d)}
           new     == [st EXCEPT !.directories = @ \ (subdirs \union {d}),
                                 !.files = [f \in DOMAIN @ \ inside |-> @[f]]]
           result  == Store!DeleteDirectory(st, k, r.recursive)
<1>1. Serve(st, r) = Respond(st, <<NoPath(r), Malformed(r)>>, result, 200)
  BY DEF Serve, DeleteDirectory, ExtractPath, Key
<1>2. \/ Serve(st, r) = [store |-> st, status |-> 400]
      \/ r.path # <<>> /\ Serve(st, r) = Said(result, 200)
  <2> HIDE DEF result
  <2> QED BY <1>1, Checked2
<1>3. ASSUME r.path # <<>>
      PROVE  \/ result = [store |-> st, code |-> "Internal"]
             \/ result = [store |-> st, code |-> "PermissionDenied"]
             \/ result = [store |-> st, code |-> "NotFound"] /\ k # Store!Root
  <2>0. Store!Clean(k) = k
    BY <1>3, CleanTwice DEF Key, Request
  <2> DEFINE a  == Store!Uninitialized(st)
             b  == Store!Check(d = Store!Root, "PermissionDenied")
             c  == Store!Check(d \notin st.directories, "NotFound")
             dd == Store!Check(~r.recursive /\ subdirs \union inside # {}, "PermissionDenied")
  <2>1. result = Store!Answer(st, <<a, b, c, dd>>, new)
    BY <2>0 DEF Store!DeleteDirectory
  <2>2. a = "Internal" \/ a = "OK"
    BY DEF Store!Uninitialized, Store!Check
  <2>3. b = "PermissionDenied" \/ (b = "OK" /\ c = "NotFound" /\ k # Store!Root)
    <3>1. k = Store!Root => d = Store!Root
      BY DEF Store!WithSlash
    <3> HIDE DEF d, k
    <3> QED BY <3>1 DEF Store!Check, RootOnly
  <2> HIDE DEF k, d, result, new, a, b, c, dd
  <2> QED BY <2>1, <2>2, <2>3, AnswerOf4
<1> HIDE DEF k, d, result, new
<1> QED BY <1>2, <1>3 DEF k, Said, HandleAPIError, Refused

LEMMA Served ==
  ASSUME NEW st, NEW r, Request(r), RootOnly(st)
  PROVE  Refused(st, r, Serve(st, r)) \/ CarriedOut(st, r, Serve(st, r))
<1>1. r.op \in {"get", "create", "update", "delete", "list", "mkdir", "rmdir"}
  BY DEF Request
<1> QED BY <1>1, ServeGet, ServeCreate, ServeUpdate, ServeDelete, ServeList, ServeMkdir, ServeRmdir

-----------------------------------------------------------------------------
(***************************************************************************)
(* The invariants.                                                         *)
(***************************************************************************)
LEMMA StatusesAre == ASSUME NEW s \in Statuses \union {0} PROVE s \in Int /\ (s \in Statuses => s # 0)
BY DEF Statuses

\* What the retry loop makes of an attempt's outcome.
LEMMA Retried ==
  ASSUME AttemptInv, NEW c \in Calls, call[c].phase # "unissued", NEW s \in Statuses \union {0}
  PROVE  LET new == doWithRetry(c, s)
         IN  /\ new \in [phase : {"sending", "returned"}, req : Requests[c],
                         attempt : Attempts(c), answer : Statuses \union {0}]
             /\ new.req = call[c].req
             /\ \/ new.phase = "sending" /\ new.attempt = call[c].attempt + 1
                \/ /\ new.phase = "returned" /\ new.attempt = call[c].attempt
                   /\ new.answer = 0 \/ new.answer = s
<1>1. call[c] \in [phase : {"sending", "waiting", "returned"}, req : Requests[c],
                   attempt : Attempts(c), answer : Statuses \union {0}]
  BY DEF AttemptInv, CallOK
<1>2. s \in Int /\ MaxRetries[c] \in Nat
  BY StatusesAre, Bounds
<1>3. CASE (s = 0 \/ s >= 500) /\ call[c].attempt < MaxRetries[c]
  <2>1. doWithRetry(c, s) = [call[c] EXCEPT !.phase = "sending", !.attempt = @ + 1]
    BY <1>3 DEF doWithRetry
  <2>2. call[c].attempt + 1 \in Attempts(c)
    BY <1>1, <1>2, <1>3 DEF Attempts
  <2> QED BY <1>1, <2>1, <2>2
<1>4. CASE ~((s = 0 \/ s >= 500) /\ call[c].attempt < MaxRetries[c])
  <2>1. doWithRetry(c, s) = [call[c] EXCEPT !.phase = "returned", !.answer = IF s >= 500 THEN 0 ELSE s]
    BY <1>4 DEF doWithRetry
  <2> QED BY <1>1, <1>2, <2>1, ZenonT(30)
<1> QED BY <1>3, <1>4

AttemptStates == [at : {"nowhere", "sent", "admitted", "answered"}, status : Statuses \union {0}]

\* An attempt on its way belongs to a call that was issued and has reached it.
LEMMA OnItsWay ==
  ASSUME AttemptInv, NEW c \in Calls, NEW a \in Attempts(c), net[c][a].at # "nowhere"
  PROVE  /\ call[c] \in [phase : {"sending", "waiting", "returned"}, req : Requests[c],
                         attempt : Attempts(c), answer : Statuses \union {0}]
         /\ a <= call[c].attempt /\ (call[c].phase = "sending" => a # call[c].attempt)
         /\ net[c][a] \in AttemptStates
<1>1. CallOK(c) /\ NetOK(c)
  BY DEF AttemptInv
<1>2. call[c].phase # "unissued"
  BY <1>1 DEF NetOK
<1>3. call[c] \in [phase : {"sending", "waiting", "returned"}, req : Requests[c],
                   attempt : Attempts(c), answer : Statuses \union {0}]
  BY <1>1, <1>2 DEF CallOK
<1>4. ~(a > call[c].attempt) /\ (call[c].phase = "sending" => a # call[c].attempt)
  BY <1>1, <1>2 DEF NetOK
<1>5. a \in Int /\ call[c].attempt \in Int
  BY <1>3 DEF Attempts
<1>6. net[c][a] \in AttemptStates
  BY <1>1 DEF NetOK, AttemptStates
<1> QED BY <1>3, <1>4, <1>5, <1>6

\* An attempt moves on, through the limiter or a handler.
LEMMA AttemptMoves ==
  ASSUME AttemptInv, NEW c \in Calls, NEW a \in Attempts(c), net[c][a].at # "nowhere",
         NEW new \in AttemptStates, new.at = "answered" => new.status \in Statuses,
         net' = [net EXCEPT ![c][a] = new], call' = call
  PROVE  AttemptInv'
<1>1. /\ DOMAIN net' = Calls /\ DOMAIN call' = Calls
      /\ \A d \in Calls \ {c} : net'[d] = net[d]
      /\ net'[c] = [net[c] EXCEPT ![a] = new]
  BY DEF AttemptInv
<1>2. \A d \in Calls \ {c} : CallOK(d)' /\ NetOK(d)'
  BY <1>1 DEF AttemptInv, CallOK, NetOK
<1>3. CallOK(c)'
  BY DEF AttemptInv, CallOK
<1>4. /\ call[c].phase # "unissued" /\ a <= call[c].attempt /\ call[c].attempt \in Int /\ a \in Int
      /\ call[c].phase = "sending" => a # call[c].attempt
  BY OnItsWay DEF Attempts
<1>5. /\ net[c] \in [Attempts(c) -> AttemptStates]
      /\ \A b \in Attempts(c) :
           /\ net[c][b].at = "answered" => net[c][b].status \in Statuses
           /\ b > call[c].attempt => net[c][b].at = "nowhere"
           /\ call[c].phase = "sending" /\ b = call[c].attempt => net[c][b].at = "nowhere"
  BY <1>4 DEF AttemptInv, NetOK, AttemptStates
<1>6. /\ net'[c] \in [Attempts(c) -> AttemptStates]
      /\ net'[c][a] = new
      /\ \A b \in Attempts(c) \ {a} : net'[c][b] = net[c][b]
  BY <1>1, <1>5
<1>7. ASSUME NEW b \in Attempts(c)
      PROVE  /\ net'[c][b].at = "answered" => net'[c][b].status \in Statuses
             /\ b > call[c].attempt => net'[c][b].at = "nowhere"
             /\ call[c].phase = "sending" /\ b = call[c].attempt => net'[c][b].at = "nowhere"
  BY <1>4, <1>5, <1>6
<1>8. NetOK(c)'
  BY <1>4, <1>6, <1>7 DEF NetOK, AttemptStates
<1> QED BY <1>1, <1>2, <1>3, <1>8 DEF AttemptInv

\* The retry loop goes on or returns.
LEMMA CallMoves ==
  ASSUME AttemptInv, NEW c \in Calls, call[c].phase # "unissued", NEW s \in Statuses \union {0},
         call' = [call EXCEPT ![c] = doWithRetry(c, s)], net' = net
  PROVE  AttemptInv'
<1> DEFINE new == doWithRetry(c, s)
<1>1. /\ new \in [phase : {"sending", "returned"}, req : Requests[c],
                  attempt : Attempts(c), answer : Statuses \union {0}]
      /\ \/ new.phase = "sending" /\ new.attempt = call[c].attempt + 1
         \/ new.phase = "returned" /\ new.attempt = call[c].attempt
  BY Retried
<1> HIDE DEF new
<1>2. /\ DOMAIN call' = Calls /\ DOMAIN net' = Calls
      /\ call'[c] = new /\ \A d \in Calls \ {c} : call'[d] = call[d]
  BY DEF AttemptInv, new
<1>3. \A d \in Calls \ {c} : CallOK(d)' /\ NetOK(d)'
  BY <1>2 DEF AttemptInv, CallOK, NetOK
<1>4. CallOK(c)'
  BY <1>1, <1>2 DEF CallOK
<1>5. call[c].attempt \in Int
  BY DEF AttemptInv, CallOK, Attempts
<1>6. ASSUME NEW b \in Attempts(c)
      PROVE  /\ net[c][b].at = "answered" => net[c][b].status \in Statuses
             /\ b > new.attempt => net[c][b].at = "nowhere"
             /\ new.phase = "sending" /\ b = new.attempt => net[c][b].at = "nowhere"
  <2>1. b \in Int
    BY DEF Attempts
  <2>2. /\ net[c][b].at = "answered" => net[c][b].status \in Statuses
        /\ b > call[c].attempt => net[c][b].at = "nowhere"
    BY DEF AttemptInv, NetOK
  <2> QED BY <1>1, <1>5, <2>1, <2>2
<1>7. NetOK(c)'
  BY <1>1, <1>2, <1>6 DEF AttemptInv, NetOK
<1> QED BY <1>2, <1>3, <1>4, <1>7 DEF AttemptInv

LEMMA AttemptIssue ==
  ASSUME AttemptInv, NEW c \in Calls, NEW r \in Requests[c], Issue(c, r)
  PROVE  AttemptInv'
<1> DEFINE new == [phase |-> "sending", req |-> r, attempt |-> 0, answer |-> 0]
<1>1. /\ DOMAIN call' = Calls /\ net' = net
      /\ call'[c] = new /\ \A d \in Calls \ {c} : call'[d] = call[d]
  BY DEF AttemptInv, Issue
<1>2. \A d \in Calls \ {c} : CallOK(d)' /\ NetOK(d)'
  BY <1>1 DEF AttemptInv, CallOK, NetOK
<1>3. MaxRetries[c] \in Nat
  BY Bounds
<1>4. CallOK(c)'
  BY <1>1, <1>3 DEF CallOK, Attempts
<1>5. NetOK(c)'
  <2>1. /\ net[c] \in [Attempts(c) -> AttemptStates]
        /\ \A a \in Attempts(c) : net[c][a].at = "nowhere"
    BY DEF AttemptInv, NetOK, Issue, AttemptStates
  <2> QED BY <1>1, <2>1 DEF NetOK, AttemptStates
<1> QED BY <1>1, <1>2, <1>4, <1>5 DEF AttemptInv

LEMMA AttemptSent ==
  ASSUME AttemptInv, NEW c \in Calls, call[c].phase = "sending",
         net' = [net EXCEPT ![c][call[c].attempt].at = "sent"],
         call' = [call EXCEPT ![c].phase = "waiting"]
  PROVE  AttemptInv'
<1> DEFINE a == call[c].attempt
<1>1. call[c] \in [phase : {"sending", "waiting", "returned"}, req : Requests[c],
                   attempt : Attempts(c), answer : Statuses \union {0}]
  BY DEF AttemptInv, CallOK
<1>2. /\ net[c] \in [Attempts(c) -> AttemptStates]
      /\ \A b \in Attempts(c) :
           /\ net[c][b].at = "answered" => net[c][b].status \in Statuses
           /\ b > a => net[c][b].at = "nowhere"
  BY DEF AttemptInv, NetOK, AttemptStates
<1>3. /\ DOMAIN call' = Calls /\ DOMAIN net' = Calls
      /\ \A d \in Calls \ {c} : call'[d] = call[d] /\ net'[d] = net[d]
      /\ call'[c] = [call[c] EXCEPT !.phase = "waiting"]
      /\ net'[c] = [net[c] EXCEPT ![a] = [net[c][a] EXCEPT !.at = "sent"]]
  BY DEF AttemptInv
<1>4. /\ call'[c] \in [phase : {"waiting"}, req : Requests[c], attempt : Attempts(c), answer : Statuses \union {0}]
      /\ call'[c].attempt = a
  BY <1>1, <1>3
<1>5. /\ net'[c] \in [Attempts(c) -> AttemptStates] /\ net'[c][a].at = "sent"
      /\ \A b \in Attempts(c) \ {a} : net'[c][b] = net[c][b]
  <2>1. a \in Attempts(c) /\ [net[c][a] EXCEPT !.at = "sent"] \in AttemptStates
    BY <1>1, <1>2 DEF AttemptStates
  <2> QED BY <1>2, <1>3, <2>1
<1>6. \A d \in Calls \ {c} : CallOK(d)' /\ NetOK(d)'
  BY <1>3 DEF AttemptInv, CallOK, NetOK
<1>7. CallOK(c)'
  BY <1>4 DEF CallOK
<1>8. ASSUME NEW b \in Attempts(c)
      PROVE  /\ net'[c][b].at = "answered" => net'[c][b].status \in Statuses
             /\ b > a => net'[c][b].at = "nowhere"
  <2>1. a \in Int /\ b \in Int
    BY <1>1 DEF Attempts
  <2> QED BY <1>2, <1>5, <2>1
<1>9. NetOK(c)'
  <2> HIDE DEF a
  <2> QED BY <1>4, <1>5, <1>8 DEF NetOK, AttemptStates
<1> QED BY <1>3, <1>6, <1>7, <1>9 DEF AttemptInv

LEMMA AttemptCrash == ASSUME AttemptInv, Crash PROVE AttemptInv'
<1>1. DOMAIN net' = Calls /\ call' = call
  BY DEF Crash
<1>2. ASSUME NEW c \in Calls PROVE CallOK(c)' /\ NetOK(c)'
  <2>1. NetOK(c) /\ CallOK(c)
    BY DEF AttemptInv
  <2>2. net'[c] = [a \in Attempts(c) |->
                     IF net[c][a].at \in {"sent", "admitted"} THEN [net[c][a] EXCEPT !.at = "nowhere"] ELSE net[c][a]]
    BY DEF Crash
  <2>3. ASSUME NEW a \in Attempts(c)
        PROVE  /\ net'[c][a] \in AttemptStates
               /\ net'[c][a] = net[c][a] \/ net'[c][a].at = "nowhere"
    <3>1. net[c][a] \in AttemptStates
      BY <2>1 DEF NetOK, AttemptStates
    <3> QED BY <2>2, <3>1 DEF AttemptStates
  <2>4. net'[c] \in [Attempts(c) -> AttemptStates]
    BY <2>2, <2>3
  <2>5. CallOK(c)'
    BY <1>1, <2>1 DEF CallOK
  <2> QED BY <1>1, <2>1, <2>3, <2>4, <2>5 DEF NetOK, AttemptStates
<1> QED BY <1>1, <1>2 DEF AttemptInv

LEMMA RequestOf ==
  ASSUME AttemptInv, NEW c \in Calls, call[c].phase # "unissued"
  PROVE  call[c].req \in Requests[c] /\ Request(call[c].req)
BY ServiceAssumption DEF AttemptInv, CallOK

\* A handler's answer.
LEMMA HandlerAnswers ==
  ASSUME AttemptInv, StoreInv, NEW c \in Calls, NEW a \in Attempts(c), Handle(c, a)
  PROVE  LET r == call[c].req
             s == Serve(store, r)
         IN  /\ Refused(store, r, s) \/ CarriedOut(store, r, s)
             /\ s.status \in Statuses
<1> DEFINE r == call[c].req
           s == Serve(store, r)
<1>1. Request(r)
  BY OnItsWay, RequestOf DEF Handle
<1>2. Refused(store, r, s) \/ CarriedOut(store, r, s)
  BY <1>1, Served DEF StoreInv, RootOnly
<1> HIDE DEF s
<1>3. s.status \in Statuses
  BY <1>2 DEF Refused, CarriedOut, Statuses
<1> QED BY <1>2, <1>3 DEF s

LEMMA AttemptStep == ASSUME AttemptInv, StoreInv, [Next]_vars PROVE AttemptInv'
<1>1. CASE UNCHANGED clientVars
  BY <1>1 DEF clientVars, AttemptInv, CallOK, NetOK
<1>2. CASE UNCHANGED vars \/ Start \/ HTTPStart \/ StopShutdown \/ StopClose \/ Tick \/ Cleanup
  BY <1>1, <1>2 DEF vars, Start, HTTPStart, StopShutdown, StopClose, Tick, Cleanup, clientVars
<1>3. ASSUME NEW c \in Calls, NEW a \in Attempts(c), RateLimit(c, a) PROVE AttemptInv'
  <2>1. net[c][a].at # "nowhere" /\ call' = call /\ net[c][a] \in AttemptStates
    BY <1>3, OnItsWay DEF RateLimit
  <2>2. CASE net' = [net EXCEPT ![c][a] = [at |-> "answered", status |-> 429]]
    <3> DEFINE new == [at |-> "answered", status |-> 429]
    <3>1. new \in AttemptStates /\ new.status \in Statuses
      BY DEF AttemptStates, Statuses
    <3> QED BY <2>1, <2>2, <3>1, AttemptMoves, ZenonT(30)
  <2>3. CASE net' = [net EXCEPT ![c][a].at = "admitted"]
    <3> DEFINE new == [net[c][a] EXCEPT !.at = "admitted"]
    <3>1. new \in AttemptStates /\ new.at = "admitted"
      BY <2>1 DEF AttemptStates
    <3>2. net' = [net EXCEPT ![c][a] = new]
      BY <2>3
    <3> HIDE DEF new
    <3> QED BY <2>1, <3>1, <3>2, AttemptMoves
  <2> QED BY <1>3, <2>2, <2>3 DEF RateLimit
<1>4. ASSUME NEW c \in Calls, NEW a \in Attempts(c), Handle(c, a) PROVE AttemptInv'
  <2> DEFINE s   == Serve(store, call[c].req)
             new == [at |-> "answered", status |-> s.status]
  <2>1. /\ net' = [net EXCEPT ![c][a] = new] /\ call' = call /\ net[c][a].at # "nowhere"
    BY <1>4 DEF Handle
  <2>2. s.status \in Statuses
    BY <1>4, HandlerAnswers
  <2> HIDE DEF s
  <2>3. new \in AttemptStates /\ new.status \in Statuses
    BY <2>2 DEF AttemptStates
  <2> HIDE DEF new
  <2> QED BY <2>1, <2>3, AttemptMoves
<1>5. ASSUME NEW c \in Calls, ClientStep(c) PROVE AttemptInv'
  <2>1. CASE Receive(c)
    <3> DEFINE a == call[c].attempt
    <3>1. /\ call[c].phase = "waiting" /\ net[c][a].at = "answered" /\ net' = net
          /\ call' = [call EXCEPT ![c] = doWithRetry(c, net[c][a].status)]
      BY <2>1 DEF Receive
    <3>2. a \in Attempts(c)
      BY <3>1 DEF AttemptInv, CallOK
    <3>3. net[c][a].status \in Statuses
      BY <3>1, <3>2 DEF AttemptInv, NetOK
    <3> QED BY <3>1, <3>3, CallMoves
  <2>2. CASE GiveUp(c)
    BY <2>2, CallMoves DEF GiveUp
  <2>3. CASE Send(c)
    BY <2>3, CallMoves, AttemptSent DEF Send
  <2> QED BY <1>5, <2>1, <2>2, <2>3 DEF ClientStep
<1> QED BY <1>2, <1>3, <1>4, <1>5, AttemptIssue, AttemptCrash DEF Next

LEMMA StoreHandle ==
  ASSUME AttemptInv, StoreInv, NEW c \in Calls, NEW a \in Attempts(c), Handle(c, a)
  PROVE  /\ StoreInv'
         /\ store'.initialized = store.initialized /\ server' = server
<1> DEFINE r == call[c].req
           s == Serve(store, r)
<1>1. Refused(store, r, s) \/ CarriedOut(store, r, s)
  BY HandlerAnswers
<1>2. store' = s.store /\ server' = server
  BY DEF Handle
<1> HIDE DEF s
<1>3. CASE store' = store
  BY <1>2, <1>3 DEF StoreInv
<1>4. CASE CarriedOut(store, r, s)
  <2>1. store.initialized /\ store \in [initialized : BOOLEAN, files : {store.files}, directories : SUBSET {Store!Root}]
    BY <1>4 DEF CarriedOut, StoreInv
  <2>2. \/ store' = store
        \/ \E f : store' = [store EXCEPT !.files = f]
    <3>1. CASE r.op = "update"
      <4>1. PICK f : s.store = [store EXCEPT !.files[Key(r)] = f]
        BY <1>4, <3>1 DEF CarriedOut
      <4>2. s.store = [store EXCEPT !.files = [store.files EXCEPT ![Key(r)] = f]]
        BY <2>1, <4>1
      <4> QED BY <1>2, <4>2
    <3>2. CASE r.op # "update"
      BY <1>2, <1>4, <3>2 DEF CarriedOut
    <3> QED BY <3>1, <3>2
  <2>3. store' \in [initialized : BOOLEAN, files : {store'.files}, directories : SUBSET {Store!Root}]
    BY <2>1, <2>2
  <2>4. store'.initialized /\ store'.directories = store.directories
    BY <2>1, <2>2
  <2> QED BY <1>2, <2>1, <2>3, <2>4 DEF StoreInv
<1> QED BY <1>1, <1>2, <1>3, <1>4 DEF Refused

LEMMA StoreStep == ASSUME AttemptInv, StoreInv, [Next]_vars PROVE StoreInv'
<1>1. CASE UNCHANGED <<store, server>>
  BY <1>1 DEF StoreInv
<1>2. CASE UNCHANGED vars \/ HTTPStart \/ Tick \/ Cleanup
  BY <1>1, <1>2 DEF vars, HTTPStart, Tick, Cleanup, serverVars
<1>3. CASE Start
  <2>1. ~store.initialized
    BY <1>3 DEF Start, StoreInv
  <2>2. Store!Check(store.initialized, "AlreadyExists") = "OK"
    BY <2>1 DEF Store!Check
  <2>3. store' = [store EXCEPT !.directories = @ \union {Store!Root}, !.initialized = TRUE]
    BY <1>3, <2>2 DEF Start, Store!Initialize, Store!Answer
  <2>4. server' = "running"
    BY <1>3 DEF Start
  <2> QED BY <2>3, <2>4 DEF StoreInv
<1>4. CASE StopShutdown
  BY <1>4 DEF StopShutdown, StoreInv
<1>5. CASE StopClose
  <2>1. store' = (IF store.initialized THEN Store!NewMemoryStore ELSE store) /\ server' = "stopped"
    BY <1>5 DEF StopClose, Store!Close
  <2>2. CASE ~store.initialized
    BY <2>1, <2>2 DEF StoreInv
  <2>3. CASE store.initialized
    BY <2>1, <2>3 DEF StoreInv, Store!NewMemoryStore
  <2> QED BY <2>2, <2>3
<1>6. CASE Crash
  BY <1>6 DEF Crash, StoreInv, Store!NewMemoryStore
<1>7. ASSUME NEW c \in Calls, NEW a \in Attempts(c), RateLimit(c, a) PROVE StoreInv'
  BY <1>1, <1>7 DEF RateLimit, serverVars
<1>8. ASSUME NEW c \in Calls, NEW r \in Requests[c], Issue(c, r) PROVE StoreInv'
  BY <1>1, <1>8 DEF Issue, serverVars
<1>9. ASSUME NEW c \in Calls, ClientStep(c) PROVE StoreInv'
  BY <1>1, <1>9 DEF ClientStep, Send, Receive, GiveUp, serverVars
<1> QED BY <1>2, <1>3, <1>4, <1>5, <1>6, <1>7, <1>8, <1>9, StoreHandle DEF Next

LEMMA ServiceInit == Init => ServiceInv
<1> SUFFICES ASSUME Init PROVE ServiceInv
  OBVIOUS
<1>1. StoreInv
  BY DEF Init, StoreInv, Store!NewMemoryStore
<1>2. ASSUME NEW c \in Calls PROVE CallOK(c) /\ NetOK(c)
  BY DEF Init, CallOK, NetOK
<1> QED BY <1>1, <1>2 DEF Init, ServiceInv, AttemptInv

\* Where the attempts of a call are, and what the store is, in every state.
LEMMA ServiceHolds == Spec => []ServiceInv
<1>1. ServiceInv /\ [Next]_vars => ServiceInv'
  BY AttemptStep, StoreStep DEF ServiceInv
<1> QED BY <1>1, ServiceInit, PTL DEF Spec

-----------------------------------------------------------------------------
(***************************************************************************)
(* A step answers no attempt, or one.                                      *)
(***************************************************************************)
Quiet ==
  \A c \in Calls :
    /\ call[c].phase # "unissued" => call'[c].phase # "unissued" /\ call'[c].req = call[c].req
    /\ \A a \in Attempts(c) :
         /\ net'[c][a].at = "answered" <=> net[c][a].at = "answered"
         /\ net[c][a].at = "answered" => net'[c][a] = net[c][a]

Answers(c, a, status) ==
  /\ net[c][a].at \in {"sent", "admitted"}
  /\ net' = [net EXCEPT ![c][a] = [at |-> "answered", status |-> status]]
  /\ call' = call

LEMMA QuietMoves ==
  ASSUME AttemptInv, NEW c \in Calls, NEW a \in Attempts(c), NEW new,
         net[c][a].at # "answered", new.at # "answered",
         net' = [net EXCEPT ![c][a] = new], call' = call
  PROVE  Quiet
<1>1. /\ \A d \in Calls \ {c} : net'[d] = net[d]
      /\ net'[c] = [net[c] EXCEPT ![a] = new]
      /\ DOMAIN net[c] = Attempts(c)
  BY DEF AttemptInv, NetOK
<1>2. net'[c][a] = new /\ \A b \in Attempts(c) \ {a} : net'[c][b] = net[c][b]
  BY <1>1
<1> QED BY <1>1, <1>2 DEF Quiet

LEMMA QuietCalls ==
  ASSUME AttemptInv, NEW c \in Calls, call[c].phase # "unissued", NEW s \in Statuses \union {0},
         call' = [call EXCEPT ![c] = doWithRetry(c, s)], net' = net
  PROVE  Quiet
<1> DEFINE new == doWithRetry(c, s)
<1>1. new.phase # "unissued" /\ new.req = call[c].req
  BY Retried
<1> HIDE DEF new
<1>2. call'[c] = new /\ \A d \in Calls \ {c} : call'[d] = call[d]
  BY DEF AttemptInv, new
<1> QED BY <1>1, <1>2 DEF Quiet

LEMMA QuietSend ==
  ASSUME AttemptInv, NEW c \in Calls, call[c].phase = "sending",
         net' = [net EXCEPT ![c][call[c].attempt].at = "sent"],
         call' = [call EXCEPT ![c].phase = "waiting"]
  PROVE  Quiet
<1> DEFINE a   == call[c].attempt
           new == [net[c][a] EXCEPT !.at = "sent"]
<1>1. /\ call[c] \in [phase : {"sending", "waiting", "returned"}, req : Requests[c],
                      attempt : Attempts(c), answer : Statuses \union {0}]
      /\ net[c] \in [Attempts(c) -> AttemptStates]
      /\ net[c][a].at = "nowhere"
  BY DEF AttemptInv, CallOK, NetOK, AttemptStates
<1>2. /\ \A d \in Calls \ {c} : net'[d] = net[d] /\ call'[d] = call[d]
      /\ net'[c] = [net[c] EXCEPT ![a] = new]
      /\ call'[c].phase = "waiting" /\ call'[c].req = call[c].req
  BY <1>1 DEF AttemptInv
<1>3. new.at = "sent"
  BY <1>1 DEF AttemptStates
<1>4. a \in Attempts(c)
  BY <1>1
<1>5. net'[c][a].at = "sent" /\ \A b \in Attempts(c) \ {a} : net'[c][b] = net[c][b]
  <2> HIDE DEF a, new
  <2> QED BY <1>1, <1>2, <1>3, <1>4
<1> HIDE DEF a, new
<1> QED BY <1>1, <1>2, <1>5 DEF Quiet, a

LEMMA QuietCrash == ASSUME AttemptInv, Crash PROVE Quiet
<1> SUFFICES ASSUME NEW c \in Calls, NEW a \in Attempts(c)
             PROVE  /\ net'[c][a].at = "answered" <=> net[c][a].at = "answered"
                    /\ net[c][a].at = "answered" => net'[c][a] = net[c][a]
  BY DEF Crash, Quiet
<1>1. net'[c][a] = IF net[c][a].at \in {"sent", "admitted"} THEN [net[c][a] EXCEPT !.at = "nowhere"] ELSE net[c][a]
  BY DEF Crash
<1>2. net[c][a] \in AttemptStates
  BY DEF AttemptInv, NetOK, AttemptStates
<1> QED BY <1>1, <1>2 DEF AttemptStates

LEMMA QuietIssue ==
  ASSUME AttemptInv, NEW c \in Calls, NEW r \in Requests[c], Issue(c, r)
  PROVE  Quiet
<1>1. \A d \in Calls \ {c} : call'[d] = call[d]
  BY DEF AttemptInv, Issue
<1> QED BY <1>1 DEF Issue, Quiet

LEMMA QuietClient ==
  ASSUME AttemptInv, NEW c \in Calls, ClientStep(c)
  PROVE  Quiet
<1>1. CASE Receive(c)
  <2> DEFINE a == call[c].attempt
  <2>1. /\ call[c].phase = "waiting" /\ net[c][a].at = "answered" /\ net' = net
        /\ call' = [call EXCEPT ![c] = doWithRetry(c, net[c][a].status)]
    BY <1>1 DEF Receive
  <2>2. a \in Attempts(c)
    BY <2>1 DEF AttemptInv, CallOK
  <2>3. net[c][a].status \in Statuses
    BY <2>1, <2>2 DEF AttemptInv, NetOK
  <2> QED BY <2>1, <2>3, QuietCalls
<1>2. CASE GiveUp(c)
  BY <1>2, QuietCalls DEF GiveUp
<1>3. CASE Send(c)
  BY <1>3, QuietCalls, QuietSend DEF Send
<1> QED BY <1>1, <1>2, <1>3 DEF ClientStep

LEMMA LimiterAnswers ==
  ASSUME AttemptInv, NEW c \in Calls, NEW a \in Attempts(c), RateLimit(c, a)
  PROVE  Quiet \/ Answers(c, a, 429)
<1>1. net[c][a].at = "sent" /\ call' = call /\ net[c][a] \in AttemptStates
  BY OnItsWay DEF RateLimit
<1>2. CASE net' = [net EXCEPT ![c][a].at = "admitted"]
  <2> DEFINE new == [net[c][a] EXCEPT !.at = "admitted"]
  <2>1. new.at = "admitted"
    BY <1>1 DEF AttemptStates
  <2>2. net' = [net EXCEPT ![c][a] = new]
    BY <1>2
  <2> HIDE DEF new
  <2> QED BY <1>1, <2>1, <2>2, QuietMoves
<1>3. CASE net' = [net EXCEPT ![c][a] = [at |-> "answered", status |-> 429]]
  BY <1>1, <1>3 DEF Answers
<1> QED BY <1>2, <1>3 DEF RateLimit

\* Every attempt but the one answered stays as it is.
LEMMA AnsweredOne ==
  ASSUME AttemptInv, NEW c \in Calls, NEW a \in Attempts(c), NEW status, Answers(c, a, status)
  PROVE  /\ net[c][a].at # "answered" /\ call' = call
         /\ net'[c][a] = [at |-> "answered", status |-> status]
         /\ \A d \in Calls : \A b \in Attempts(d) : <<d, b>> # <<c, a>> => net'[d][b] = net[d][b]
<1>1. /\ \A d \in Calls \ {c} : net'[d] = net[d]
      /\ net'[c] = [net[c] EXCEPT ![a] = [at |-> "answered", status |-> status]]
      /\ DOMAIN net[c] = Attempts(c)
  BY DEF AttemptInv, NetOK, Answers
<1>2. /\ net'[c][a] = [at |-> "answered", status |-> status]
      /\ \A b \in Attempts(c) \ {a} : net'[c][b] = net[c][b]
  BY <1>1
<1> QED BY <1>1, <1>2 DEF Answers

-----------------------------------------------------------------------------
(***************************************************************************)
(* Files are created once.  The creations of a key are paid for by crashes *)
(* and deletions, except for the file that is there now; a store that was  *)
(* closed may have had one.                                                *)
(***************************************************************************)
Balanced(k) ==
  Cardinality(Handled(k, "create", 201)) <=
    crashes + Cardinality(Handled(k, "delete", 200))
            + (IF k \in DOMAIN store.files \/ server = "stopped" THEN 1 ELSE 0)

CountInv == crashes \in Nat /\ IsFiniteSet(Handlings) /\ \A k : Balanced(k)

\* Handlings are the attempts answered.
HandlingsExact ==
  \A h : h \in Handlings <=>
           \E c \in Calls : \E a \in Attempts(c) : h = <<c, a>> /\ net[c][a].at = "answered"

LEMMA HandlingsAre == AttemptInv => HandlingsExact
<1> SUFFICES ASSUME AttemptInv PROVE HandlingsExact
  OBVIOUS
<1>1. ASSUME NEW c \in Calls, NEW a \in Attempts(c), net[c][a].at = "answered"
      PROVE  c \in Issued
  BY <1>1, OnItsWay DEF Issued
<1>2. \A h : h \in Handlings <=> \E c \in Issued : h \in {c} \X Answered(c)
  BY DEF Handlings
<1>3. \A c \in Issued : c \in Calls
  BY DEF Issued
<1>4. \A h, c : h \in {c} \X Answered(c) <=> \E a \in Attempts(c) : h = <<c, a>> /\ net[c][a].at = "answered"
  BY DEF Answered
<1> QED BY <1>1, <1>2, <1>3, <1>4 DEF HandlingsExact

LEMMA HandlingsNext == ASSUME AttemptInv' PROVE HandlingsExact'
BY HandlingsAre, PTL

\* What Handled says of an attempt.
Match(h, k, op, status) ==
  /\ call[h[1]].req.op = op /\ call[h[1]].req.path # <<>> /\ Store!Clean(call[h[1]].req.path) = k
  /\ net[h[1]][h[2]].status = status

LEMMA HandledAre ==
  \A k, op, status : Handled(k, op, status) = {h \in Handlings : Match(h, k, op, status)}
BY DEF Handled, Match

LEMMA HandledNext ==
  \A k, op, status : Handled(k, op, status)' = {h \in Handlings' : Match(h, k, op, status)'}
BY DEF Handled, Match

LEMMA HandlingsQuiet ==
  ASSUME AttemptInv, AttemptInv', Quiet
  PROVE  /\ Handlings' = Handlings
         /\ \A k, op, status : Handled(k, op, status)' = Handled(k, op, status)
<1>1. \A h : h \in Handlings <=>
               \E c \in Calls : \E a \in Attempts(c) : h = <<c, a>> /\ net[c][a].at = "answered"
  BY HandlingsAre DEF HandlingsExact
<1>2. \A h : h \in Handlings' <=>
               \E c \in Calls : \E a \in Attempts(c) : h = <<c, a>> /\ net'[c][a].at = "answered"
  BY HandlingsNext DEF HandlingsExact, Attempts
<1>3. \A c \in Calls : \A a \in Attempts(c) : net'[c][a].at = "answered" <=> net[c][a].at = "answered"
  BY DEF Quiet
<1>4. Handlings' = Handlings
  BY <1>1, <1>2, <1>3
<1>5. ASSUME NEW h \in Handlings, NEW k, NEW op, NEW status
      PROVE  Match(h, k, op, status)' <=> Match(h, k, op, status)
  <2>0. PICK c \in Calls : \E a \in Attempts(c) : h = <<c, a>> /\ net[c][a].at = "answered"
    BY <1>1
  <2>1. PICK a \in Attempts(c) : h = <<c, a>> /\ net[c][a].at = "answered"
    BY <2>0
  <2>2. call[c].phase # "unissued"
    BY <2>1, OnItsWay
  <2>3. call'[c].req = call[c].req /\ net'[c][a] = net[c][a]
    BY <2>1, <2>2 DEF Quiet
  <2> QED BY <2>1, <2>3 DEF Match
<1> QED BY <1>4, <1>5, HandledAre, HandledNext

LEMMA HandlingsAnswer ==
  ASSUME AttemptInv, AttemptInv', NEW c \in Calls, NEW a \in Attempts(c), NEW s, Answers(c, a, s)
  PROVE  /\ Handlings' = Handlings \union {<<c, a>>} /\ <<c, a>> \notin Handlings
         /\ \A k, op, status :
              LET r == call[c].req
              IN  Handled(k, op, status)' =
                    IF r.op = op /\ r.path # <<>> /\ Key(r) = k /\ s = status
                    THEN Handled(k, op, status) \union {<<c, a>>} ELSE Handled(k, op, status)
<1>1. \A h : h \in Handlings <=>
               \E d \in Calls : \E b \in Attempts(d) : h = <<d, b>> /\ net[d][b].at = "answered"
  BY HandlingsAre DEF HandlingsExact
<1>2. \A h : h \in Handlings' <=>
               \E d \in Calls : \E b \in Attempts(d) : h = <<d, b>> /\ net'[d][b].at = "answered"
  BY HandlingsNext DEF HandlingsExact, Attempts
<1>3. /\ net[c][a].at # "answered" /\ call' = call
      /\ net'[c][a] = [at |-> "answered", status |-> s]
      /\ \A d \in Calls : \A b \in Attempts(d) : <<d, b>> # <<c, a>> => net'[d][b] = net[d][b]
  BY AnsweredOne
<1>4. net'[c][a].at = "answered" /\ net'[c][a].status = s
  BY <1>3
<1>5. <<c, a>> \notin Handlings
  BY <1>1, <1>3
<1>6. Handlings' = Handlings \union {<<c, a>>}
  BY <1>1, <1>2, <1>3, <1>4
<1>7. ASSUME NEW h \in Handlings, NEW k, NEW op, NEW status
      PROVE  Match(h, k, op, status)' <=> Match(h, k, op, status)
  <2>0. PICK d \in Calls : \E b \in Attempts(d) : h = <<d, b>> /\ net[d][b].at = "answered"
    BY <1>1
  <2>1. PICK b \in Attempts(d) : h = <<d, b>> /\ net[d][b].at = "answered"
    BY <2>0
  <2>2. net'[d][b] = net[d][b]
    BY <1>3, <2>1
  <2> QED BY <1>3, <2>1, <2>2 DEF Match
<1>8. ASSUME NEW k, NEW op, NEW status
      PROVE  Match(<<c, a>>, k, op, status)' <=>
               call[c].req.op = op /\ call[c].req.path # <<>> /\ Key(call[c].req) = k /\ s = status
  BY <1>3, <1>4 DEF Match, Key
<1>9. ASSUME NEW k, NEW op, NEW status
      PROVE  LET r == call[c].req
             IN  Handled(k, op, status)' =
                   IF r.op = op /\ r.path # <<>> /\ Key(r) = k /\ s = status
                   THEN Handled(k, op, status) \union {<<c, a>>} ELSE Handled(k, op, status)
  <2> DEFINE p == <<c, a>>
  <2>1. Handled(k, op, status)' = {h \in Handlings \union {p} : Match(h, k, op, status)'}
    BY <1>6, HandledNext
  <2>2. Handled(k, op, status) = {h \in Handlings : Match(h, k, op, status)}
    BY HandledAre
  <2> HIDE DEF p
  <2>3. Handled(k, op, status)' = Handled(k, op, status) \union {h \in {p} : Match(h, k, op, status)'}
    BY <1>7, <2>1, <2>2
  <2> QED BY <1>8, <2>3 DEF p
<1> QED BY <1>5, <1>6, <1>9

LEMMA CountOf ==
  ASSUME IsFiniteSet(Handlings)
  PROVE  \A k, op, status : IsFiniteSet(Handled(k, op, status)) /\ Cardinality(Handled(k, op, status)) \in Nat
<1> SUFFICES ASSUME NEW k, NEW op, NEW status
             PROVE  IsFiniteSet(Handled(k, op, status)) /\ Cardinality(Handled(k, op, status)) \in Nat
  OBVIOUS
<1>1. Handled(k, op, status) \in SUBSET Handlings
  BY DEF Handled
<1>2. IsFiniteSet(Handled(k, op, status))
  BY <1>1, FS_Subset
<1> QED BY <1>2, FS_CardinalityType

\* A step that answers no attempt: files go only with the store.
LEMMA CountQuiet ==
  ASSUME CountInv, AttemptInv, AttemptInv', Quiet,
         \/ crashes' = crashes /\ store'.files = store.files /\ (server = "stopped" => server' = "stopped")
         \/ crashes' = crashes /\ server' = "stopped"
         \/ crashes' = crashes + 1
  PROVE  CountInv'
<1>1. /\ Handlings' = Handlings
      /\ \A k, op, status : Handled(k, op, status)' = Handled(k, op, status)
  BY HandlingsQuiet
<1>2. crashes \in Nat /\ IsFiniteSet(Handlings)
  BY DEF CountInv
<1>3. ASSUME NEW k PROVE Balanced(k)'
  <2> DEFINE C == Cardinality(Handled(k, "create", 201))
             D == Cardinality(Handled(k, "delete", 200))
  <2>1. C \in Nat /\ D \in Nat
    BY <1>2, CountOf
  <2>2. Handled(k, "create", 201)' = Handled(k, "create", 201) /\ Handled(k, "delete", 200)' = Handled(k, "delete", 200)
    BY <1>1
  <2>3. /\ Balanced(k) <=> C <= crashes + D + (IF k \in DOMAIN store.files \/ server = "stopped" THEN 1 ELSE 0)
        /\ Balanced(k)' <=> C <= crashes' + D + (IF k \in DOMAIN store'.files \/ server' = "stopped" THEN 1 ELSE 0)
    BY <2>2 DEF Balanced
  <2>4. Balanced(k)
    BY DEF CountInv
  <2> HIDE DEF C, D
  <2> QED BY <1>2, <2>1, <2>3, <2>4
<1> QED BY <1>1, <1>2, <1>3 DEF CountInv

LEMMA CountAnswer ==
  ASSUME CountInv, AttemptInv, AttemptInv', StoreInv, NEW c \in Calls, NEW a \in Attempts(c), NEW s,
         Answers(c, a, s), crashes' = crashes, server' = server,
         \/ store'.files = store.files /\ ~(call[c].req.op = "create" /\ s = 201)
                                       /\ ~(call[c].req.op = "delete" /\ s = 200)
         \/ /\ call[c].req.op = "create" /\ s = 201 /\ server # "stopped"
            /\ Key(call[c].req) \notin DOMAIN store.files
            /\ DOMAIN store'.files = DOMAIN store.files \union {Key(call[c].req)}
         \/ /\ call[c].req.op = "delete" /\ s = 200 /\ call[c].req.path # <<>>
            /\ DOMAIN store'.files = DOMAIN store.files \ {Key(call[c].req)}
         \/ call[c].req.op = "update" /\ DOMAIN store'.files = DOMAIN store.files
  PROVE  CountInv'
<1> DEFINE r == call[c].req
<1>1. /\ Handlings' = Handlings \union {<<c, a>>} /\ <<c, a>> \notin Handlings
      /\ \A k, op, status :
           Handled(k, op, status)' =
             IF r.op = op /\ r.path # <<>> /\ Key(r) = k /\ s = status
             THEN Handled(k, op, status) \union {<<c, a>>} ELSE Handled(k, op, status)
  BY HandlingsAnswer
<1>2. crashes \in Nat /\ IsFiniteSet(Handlings)
  BY DEF CountInv
<1>3. IsFiniteSet(Handlings')
  BY <1>1, <1>2, FS_AddElement
<1>4. ASSUME NEW k PROVE Balanced(k)'
  <2> DEFINE H == Handled(k, "create", 201)
             E == Handled(k, "delete", 200)
             C == Cardinality(H)
             D == Cardinality(E)
             p == <<c, a>>
  <2>1. IsFiniteSet(H) /\ IsFiniteSet(E) /\ C \in Nat /\ D \in Nat
    BY <1>2, CountOf
  <2>2. p \notin H /\ p \notin E
    BY <1>1 DEF Handled
  <2>3. Cardinality(H \union {p}) = C + 1 /\ Cardinality(E \union {p}) = D + 1
    BY <2>1, <2>2, FS_AddElement, ZenonT(30)
  <2>4. H' = (IF r.op = "create" /\ r.path # <<>> /\ Key(r) = k /\ s = 201 THEN H \union {p} ELSE H)
    BY <1>1
  <2>5. E' = (IF r.op = "delete" /\ r.path # <<>> /\ Key(r) = k /\ s = 200 THEN E \union {p} ELSE E)
    BY <1>1
  <2>6. C <= crashes + D + (IF k \in DOMAIN store.files \/ server = "stopped" THEN 1 ELSE 0)
    BY DEF CountInv, Balanced
  <2>7. Balanced(k)' <=> Cardinality(H') <= crashes + Cardinality(E')
                           + (IF k \in DOMAIN store'.files \/ server = "stopped" THEN 1 ELSE 0)
    BY DEF Balanced
  <2> HIDE DEF H, E, C, D, p
  <2>8. CASE r.op = "create" /\ r.path # <<>> /\ Key(r) = k /\ s = 201
    <3>1. H' = H \union {p} /\ E' = E
      BY <2>4, <2>5, <2>8
    <3>2. /\ C <= crashes + D /\ k \in DOMAIN store'.files
      BY <1>2, <2>1, <2>6, <2>8
    <3> QED BY <1>2, <2>1, <2>3, <2>7, <3>1, <3>2 DEF D
  <2>9. CASE r.op = "delete" /\ r.path # <<>> /\ Key(r) = k /\ s = 200
    <3>1. H' = H /\ E' = E \union {p}
      BY <2>4, <2>5, <2>9
    <3> QED BY <1>2, <2>1, <2>3, <2>6, <2>7, <3>1 DEF C
  <2>10. CASE /\ ~(r.op = "create" /\ r.path # <<>> /\ Key(r) = k /\ s = 201)
              /\ ~(r.op = "delete" /\ r.path # <<>> /\ Key(r) = k /\ s = 200)
    <3>1. H' = H /\ E' = E
      BY <2>4, <2>5, <2>10
    <3>2. k \in DOMAIN store.files => k \in DOMAIN store'.files
      BY <2>10
    <3> QED BY <1>2, <2>1, <2>6, <2>7, <3>1, <3>2 DEF C, D
  <2> QED BY <2>8, <2>9, <2>10
<1> QED BY <1>2, <1>3, <1>4 DEF CountInv

LEMMA CountHandle ==
  ASSUME CountInv, AttemptInv, AttemptInv', StoreInv, NEW c \in Calls, NEW a \in Attempts(c), Handle(c, a)
  PROVE  CountInv'
<1> DEFINE r == call[c].req
           s == Serve(store, r)
<1>1. Refused(store, r, s) \/ CarriedOut(store, r, s)
  BY HandlerAnswers
<1>2. store' = s.store /\ server' = server /\ crashes' = crashes
  BY DEF Handle
<1>3. Answers(c, a, s.status)
  BY DEF Handle, Answers
<1> HIDE DEF s
<1>4. CASE Refused(store, r, s)
  <2>1. store' = store /\ s.status # 200 /\ s.status # 201
    BY <1>2, <1>4 DEF Refused
  <2> QED BY <1>2, <1>3, <2>1, CountAnswer
<1>5. CASE CarriedOut(store, r, s)
  <2>1. /\ store \in [initialized : BOOLEAN, files : {store.files}, directories : SUBSET {Store!Root}]
        /\ r.path # <<>> /\ store.initialized
    BY <1>5 DEF StoreInv, CarriedOut
  <2>2. CASE r.op \in {"get", "list"}
    <3>1. store'.files = store.files
      BY <1>2, <1>5, <2>1, <2>2 DEF CarriedOut
    <3> QED BY <1>2, <1>3, <2>2, <3>1, CountAnswer
  <2>3. CASE r.op = "create"
    <3>1. /\ s.status = 201 /\ Key(r) \notin DOMAIN store.files
          /\ store'.files = Store!Put(store.files, Key(r), NewFile(r))
      BY <1>2, <1>5, <2>1, <2>3 DEF CarriedOut
    <3>2. DOMAIN store'.files = DOMAIN store.files \union {Key(r)}
      BY <3>1 DEF Store!Put
    <3>3. server # "stopped"
      BY <2>1 DEF StoreInv
    <3> QED BY <1>2, <1>3, <2>3, <3>1, <3>2, <3>3, CountAnswer
  <2>4. CASE r.op = "update"
    <3>1. PICK f : s.store = [store EXCEPT !.files[Key(r)] = f]
      BY <1>5, <2>4 DEF CarriedOut
    <3>2. DOMAIN store'.files = DOMAIN store.files
      BY <1>2, <2>1, <3>1
    <3> QED BY <1>2, <1>3, <2>4, <3>2, CountAnswer
  <2>5. CASE r.op = "delete"
    <3>1. /\ s.status = 200
          /\ store'.files = [f \in DOMAIN store.files \ {Key(r)} |-> store.files[f]]
      BY <1>2, <1>5, <2>1, <2>5 DEF CarriedOut
    <3> QED BY <1>2, <1>3, <2>1, <2>5, <3>1, CountAnswer
  <2> QED BY <1>5, <2>2, <2>3, <2>4, <2>5 DEF CarriedOut
<1> QED BY <1>1, <1>4, <1>5

LEMMA StartFiles ==
  ASSUME StoreInv, Start
  PROVE  store'.files = store.files
<1>1. ~store.initialized /\ store' = Store!Initialize(store).store
  BY DEF Start, StoreInv
<1>2. Store!Check(store.initialized, "AlreadyExists") = "OK"
  BY <1>1 DEF Store!Check
<1>3. store' = [store EXCEPT !.directories = @ \union {Store!Root}, !.initialized = TRUE]
  BY <1>1, <1>2 DEF Store!Initialize, Store!Answer
<1> QED BY <1>3 DEF StoreInv

LEMMA CountStep ==
  ASSUME CountInv, AttemptInv, AttemptInv', StoreInv, [Next]_vars
  PROVE  CountInv'
<1>1. UNCHANGED clientVars => Quiet
  BY DEF clientVars, Quiet
<1>2. CASE UNCHANGED vars \/ HTTPStart \/ Tick \/ Cleanup \/ StopShutdown \/ StopClose
  <2>1. /\ UNCHANGED clientVars /\ crashes' = crashes
        /\ (store' = store /\ (server = "stopped" => server' = "stopped")) \/ server' = "stopped"
    BY <1>2 DEF vars, HTTPStart, Tick, Cleanup, StopShutdown, StopClose, serverVars, clientVars
  <2> QED BY <1>1, <2>1, CountQuiet
<1>3. CASE Start
  <2>1. UNCHANGED clientVars /\ crashes' = crashes /\ server # "stopped"
    BY <1>3 DEF Start
  <2> QED BY <1>1, <1>3, <2>1, StartFiles, CountQuiet
<1>4. CASE Crash
  BY <1>4, QuietCrash, CountQuiet DEF Crash
<1>5. ASSUME NEW c \in Calls, NEW a \in Attempts(c), RateLimit(c, a) PROVE CountInv'
  <2>1. UNCHANGED serverVars
    BY <1>5 DEF RateLimit
  <2>2. CASE Quiet
    BY <2>1, <2>2, CountQuiet DEF serverVars
  <2>3. CASE Answers(c, a, 429)
    BY <2>1, <2>3, CountAnswer DEF serverVars
  <2> QED BY <1>5, <2>2, <2>3, LimiterAnswers
<1>6. ASSUME NEW c \in Calls, NEW r \in Requests[c], Issue(c, r) PROVE CountInv'
  BY <1>6, QuietIssue, CountQuiet DEF Issue, serverVars
<1>7. ASSUME NEW c \in Calls, ClientStep(c) PROVE CountInv'
  <2>1. UNCHANGED serverVars
    BY <1>7 DEF ClientStep, Send, Receive, GiveUp
  <2> QED BY <1>7, <2>1, QuietClient, CountQuiet DEF serverVars
<1> QED BY <1>2, <1>3, <1>4, <1>5, <1>6, <1>7, CountHandle DEF Next

LEMMA CountInit == Init => CountInv
<1> SUFFICES ASSUME Init PROVE CountInv
  OBVIOUS
<1>1. Handlings = {}
  BY DEF Init, Handlings, Issued
<1>2. \A k, op, status : Handled(k, op, status) = {}
  BY <1>1 DEF Handled
<1>3. IsFiniteSet({}) /\ Cardinality({}) = 0 /\ crashes = 0
  BY FS_EmptySet DEF Init
<1>4. ASSUME NEW k PROVE Balanced(k)
  <2>1. Balanced(k) <=> 0 <= 0 + 0 + (IF k \in DOMAIN store.files \/ server = "stopped" THEN 1 ELSE 0)
    BY <1>2, <1>3 DEF Balanced
  <2> QED BY <2>1
<1> QED BY <1>1, <1>3, <1>4 DEF CountInv

\* However often a client repeats a POST, and however late a repetition is
\* handled, a file is created at most once per store and once more per
\* successful DELETE, for any number of clients, retries and crashes.
THEOREM CreationsPaidFor == Spec => []CreatedOnce
<1>1. ServiceInv /\ CountInv /\ ServiceInv' /\ [Next]_vars => CountInv'
  BY CountStep DEF ServiceInv
<1>2. CountInv => CreatedOnce
  <2> SUFFICES ASSUME CountInv, NEW k
               PROVE  Cardinality(Handled(k, "create", 201)) <= 1 + crashes + Cardinality(Handled(k, "delete", 200))
    BY DEF CreatedOnce
  <2> DEFINE C == Cardinality(Handled(k, "create", 201))
             D == Cardinality(Handled(k, "delete", 200))
  <2>1. C \in Nat /\ D \in Nat /\ crashes \in Nat
    BY CountOf DEF CountInv
  <2>2. C <= crashes + D + (IF k \in DOMAIN store.files \/ server = "stopped" THEN 1 ELSE 0)
    BY DEF CountInv, Balanced
  <2> HIDE DEF C, D
  <2>3. C <= 1 + crashes + D
    BY <2>1, <2>2
  <2> QED BY <2>3 DEF C, D
<1> QED BY <1>1, <1>2, CountInit, ServiceHolds, PTL DEF Spec

-----------------------------------------------------------------------------
(***************************************************************************)
(* The refinement.  The variables of FileService, as MetadataService gives *)
(* them.                                                                   *)
(***************************************************************************)
RequestOfCall == [c \in Issued |-> Abstract[call[c].req]]
EffectsOfCall == [c \in Issued |-> Cardinality(Answered(c))]
OutcomesOfCall == [c \in Issued |-> {Outcome(net[c][a].status) : a \in Answered(c)}]
Told(c) == IF call[c].phase # "returned" THEN "none yet"
           ELSE IF call[c].answer = 0 THEN "unknown" ELSE Outcome(call[c].answer)
AnswerOfCall == [c \in Issued |-> Told(c)]

LEMMA Mapped ==
  /\ Files!vars = <<store.files, RequestOfCall, EffectsOfCall, OutcomesOfCall, AnswerOfCall>>
  /\ Files!Issued = Issued
BY DEF Files!vars, Files!Issued, RequestOfCall, EffectsOfCall, OutcomesOfCall, AnswerOfCall, Told

\* A step that leaves the five alone.
LEMMA MapStutter ==
  ASSUME store'.files = store.files, RequestOfCall' = RequestOfCall, EffectsOfCall' = EffectsOfCall,
         OutcomesOfCall' = OutcomesOfCall, AnswerOfCall' = AnswerOfCall
  PROVE  UNCHANGED Files!vars
<1>1. Files!vars' = <<store'.files, RequestOfCall', EffectsOfCall', OutcomesOfCall', AnswerOfCall'>>
  BY DEF Files!vars, RequestOfCall, EffectsOfCall, OutcomesOfCall, AnswerOfCall, Told
<1> QED BY <1>1, Mapped

\* The answer of a call whose record is unchanged.
LEMMA ToldSame == ASSUME NEW c, call'[c] = call[c] PROVE Told(c)' = Told(c)
BY DEF Told, Outcome

LEMMA MapInit == Init => Files!Init
<1> SUFFICES ASSUME Init PROVE Files!Init
  OBVIOUS
<1>1. Issued = {}
  BY DEF Init, Issued
<1>2. store.files = <<>>
  BY DEF Init, Store!NewMemoryStore
<1> QED BY <1>1, <1>2 DEF Files!Init

LEMMA AnsweredQuiet ==
  ASSUME Quiet, NEW c \in Calls
  PROVE  /\ Answered(c)' = Answered(c)
         /\ {Outcome(net[c][a].status) : a \in Answered(c)}' = {Outcome(net[c][a].status) : a \in Answered(c)}
<1>1. Answered(c)' = {a \in Attempts(c) : net'[c][a].at = "answered"}
  BY DEF Answered, Attempts
<1>2. Answered(c)' = Answered(c)
  BY <1>1 DEF Answered, Quiet
<1>3. \A a \in Answered(c) : net'[c][a] = net[c][a]
  BY DEF Answered, Quiet
<1> QED BY <1>2, <1>3 DEF Outcome

\* Where no attempt is answered, only the caller's answer may change.
LEMMA MapQuiet ==
  ASSUME Quiet, Issued' = Issued
  PROVE  /\ RequestOfCall' = RequestOfCall /\ EffectsOfCall' = EffectsOfCall
         /\ OutcomesOfCall' = OutcomesOfCall
<1>1. \A c \in Issued : c \in Calls /\ call'[c].req = call[c].req
  BY DEF Issued, Quiet
<1>2. RequestOfCall' = RequestOfCall
  BY <1>1 DEF RequestOfCall, Abstract
<1>3. EffectsOfCall' = EffectsOfCall
  BY <1>1, AnsweredQuiet DEF EffectsOfCall
<1>4. OutcomesOfCall' = OutcomesOfCall
  BY <1>1, AnsweredQuiet DEF OutcomesOfCall
<1> QED BY <1>2, <1>3, <1>4

LEMMA MapLoses ==
  ASSUME Quiet, call' = call
  PROVE  /\ store'.files = store.files => UNCHANGED Files!vars
         /\ store'.files = <<>> => Files!Lose
<1>1. Issued' = Issued
  BY DEF Issued
<1>2. /\ RequestOfCall' = RequestOfCall /\ EffectsOfCall' = EffectsOfCall
      /\ OutcomesOfCall' = OutcomesOfCall
  BY <1>1, MapQuiet
<1>3. AnswerOfCall' = AnswerOfCall
  BY <1>1, ToldSame DEF AnswerOfCall
<1>4. store'.files = store.files => UNCHANGED Files!vars
  BY <1>2, <1>3, MapStutter
<1>5. store'.files = <<>> => Files!Lose
  BY <1>2, <1>3 DEF Files!Lose, RequestOfCall, EffectsOfCall, OutcomesOfCall, AnswerOfCall, Told
<1> QED BY <1>4, <1>5

LEMMA MapIssue ==
  ASSUME AttemptInv, NEW c \in Calls, NEW r \in Requests[c], Issue(c, r)
  PROVE  Files!Issue(c, Abstract[r]) /\ Abstract[r] \in AbstractRequests[c]
<1>1. /\ call[c].phase = "unissued" /\ net' = net /\ store' = store
      /\ call'[c] = [phase |-> "sending", req |-> r, attempt |-> 0, answer |-> 0]
      /\ \A d \in Calls \ {c} : call'[d] = call[d]
  BY DEF AttemptInv, Issue, serverVars
<1>2. c \notin Issued /\ Issued' = Issued \union {c}
  BY <1>1 DEF Issued
<1>3. Answered(c) = {} /\ \A d \in Calls : Answered(d)' = Answered(d)
  BY <1>1 DEF AttemptInv, NetOK, Answered, Attempts
<1>4. RequestOfCall' = Files!At(RequestOfCall, c, Abstract[r])
  BY <1>1, <1>2 DEF RequestOfCall, Files!At, Issued, Abstract
<1>5. EffectsOfCall' = Files!At(EffectsOfCall, c, 0)
  BY <1>2, <1>3, FS_EmptySet DEF EffectsOfCall, Files!At, Issued
<1>6. OutcomesOfCall' = Files!At(OutcomesOfCall, c, {})
  BY <1>1, <1>2, <1>3 DEF OutcomesOfCall, Files!At, Issued, Outcome
<1>7. AnswerOfCall' = Files!At(AnswerOfCall, c, "none yet")
  <2>1. Told(c)' = "none yet"
    BY <1>1 DEF Told
  <2>2. \A d \in Issued : d \in Calls \ {c}
    BY <1>2 DEF Issued
  <2>3. \A d \in Issued : Told(d)' = Told(d)
    BY <1>1, <2>2, ToldSame
  <2> QED BY <1>2, <2>1, <2>3 DEF AnswerOfCall, Files!At
<1>8. Abstract[r] \in AbstractRequests[c]
  BY DEF AbstractRequests
<1>9. Files!Issue(c, Abstract[r])
  BY <1>1, <1>2, <1>4, <1>5, <1>6, <1>7, Mapped
  DEF Files!Issue, RequestOfCall, EffectsOfCall, OutcomesOfCall, AnswerOfCall, Told
<1> QED BY <1>8, <1>9

\* The retry loop gives the caller the outcome of the attempt, or an error.
LEMMA MapReturn ==
  ASSUME AttemptInv, NEW c \in Calls, call[c].phase \in {"sending", "waiting"}, NEW s \in Statuses \union {0},
         call' = [call EXCEPT ![c] = doWithRetry(c, s)], net' = net, store' = store,
         s # 0 => Outcome(s) \in {Outcome(net[c][a].status) : a \in Answered(c)}
  PROVE  UNCHANGED Files!vars \/ Files!Return(c)
<1> DEFINE new == doWithRetry(c, s)
<1>1. /\ new.phase \in {"sending", "returned"}
      /\ new.phase = "returned" => new.answer = 0 \/ new.answer = s
  BY Retried
<1> HIDE DEF new
<1>2. call'[c] = new /\ \A d \in Calls \ {c} : call'[d] = call[d]
  BY DEF AttemptInv, new
<1>3. c \in Issued /\ Issued' = Issued
  BY <1>1, <1>2 DEF Issued
<1>4. Quiet
  BY QuietCalls
<1>5. /\ RequestOfCall' = RequestOfCall /\ EffectsOfCall' = EffectsOfCall
      /\ OutcomesOfCall' = OutcomesOfCall
  BY <1>3, <1>4, MapQuiet
<1>6. \A d \in Issued \ {c} : Told(d)' = Told(d)
  <2>1. \A d \in Issued \ {c} : call'[d] = call[d]
    BY <1>2 DEF Issued
  <2> QED BY <2>1, ToldSame
<1>7. CASE new.phase = "sending"
  <2>1. Told(c)' = "none yet" /\ Told(c) = "none yet"
    BY <1>2, <1>7 DEF Told
  <2>2. AnswerOfCall' = AnswerOfCall
    BY <1>3, <1>6, <2>1 DEF AnswerOfCall
  <2> QED BY <1>5, <2>2, MapStutter
<1>8. CASE new.phase = "returned"
  <2> DEFINE told == IF new.answer = 0 THEN "unknown" ELSE Outcome(new.answer)
  <2>1. Told(c)' = told
    <3>1. Told(c)' = IF call'[c].phase # "returned" THEN "none yet"
                     ELSE IF call'[c].answer = 0 THEN "unknown" ELSE Outcome(call'[c].answer)
      BY DEF Told, Outcome
    <3> QED BY <1>2, <1>8, <3>1
  <2>2. AnswerOfCall' = [AnswerOfCall EXCEPT ![c] = told]
    <3> HIDE DEF told
    <3> QED BY <1>3, <1>6, <2>1 DEF AnswerOfCall
  <2>3. AnswerOfCall[c] = "none yet"
    BY <1>3 DEF AnswerOfCall, Told
  <2>4. told \in OutcomesOfCall[c] \union {"unknown"}
    BY <1>1, <1>3, <1>8 DEF OutcomesOfCall
  <2> HIDE DEF told
  <2> QED BY <1>3, <1>5, <2>2, <2>3, <2>4, Mapped
      DEF Files!Return, RequestOfCall, EffectsOfCall, OutcomesOfCall, AnswerOfCall, Told
<1> QED BY <1>1, <1>7, <1>8

\* The effect of an attempt that is answered.
LEMMA MapAnswers ==
  ASSUME AttemptInv, NEW c \in Calls, NEW a \in Attempts(c), NEW s, Answers(c, a, s)
  PROVE  /\ c \in Issued
         /\ EffectsOfCall[c] < AbstractEffects[c]
         /\ EffectsOfCall' = [EffectsOfCall EXCEPT ![c] = @ + 1]
         /\ OutcomesOfCall' = [OutcomesOfCall EXCEPT ![c] = @ \union {Outcome(s)}]
         /\ RequestOfCall' = RequestOfCall /\ AnswerOfCall' = AnswerOfCall
<1>1. /\ net[c][a].at # "answered" /\ call' = call
      /\ net'[c][a] = [at |-> "answered", status |-> s]
      /\ \A d \in Calls : \A b \in Attempts(d) : <<d, b>> # <<c, a>> => net'[d][b] = net[d][b]
  BY AnsweredOne
<1>2. c \in Issued /\ Issued' = Issued /\ Issued \subseteq Calls
  BY <1>1, OnItsWay DEF Issued, Answers
<1>3. net'[c][a].at = "answered" /\ net'[c][a].status = s
  BY <1>1
<1>4. a \notin Answered(c) /\ Answered(c)' = Answered(c) \union {a}
  BY <1>1, <1>3 DEF Answered, Attempts
<1>5. \A d \in Calls \ {c} : Answered(d)' = Answered(d)
  BY <1>1 DEF Answered, Attempts
<1>6. IsFiniteSet(Answered(c)) /\ Cardinality(Answered(c)) < MaxRetries[c] + 1
  <2>1. MaxRetries[c] \in Nat
    BY Bounds
  <2>2. IsFiniteSet(Attempts(c)) /\ Cardinality(Attempts(c)) = MaxRetries[c] + 1
    <3>1. \A m \in Nat : IsFiniteSet(0..m) /\ Cardinality(0..m) = m + 1
      <4> SUFFICES ASSUME NEW m \in Nat PROVE IsFiniteSet(0..m) /\ Cardinality(0..m) = m + 1
        OBVIOUS
      <4>1. IsFiniteSet(0..m) /\ Cardinality(0..m) = IF 0 > m THEN 0 ELSE m - 0 + 1
        BY FS_Interval
      <4> QED BY <4>1
    <3> QED BY <2>1, <3>1 DEF Attempts
  <2>3. Answered(c) \in SUBSET Attempts(c) /\ Answered(c) # Attempts(c)
    BY <1>4 DEF Answered
  <2>4. IsFiniteSet(Answered(c)) /\ Cardinality(Answered(c)) <= Cardinality(Attempts(c))
        /\ Cardinality(Attempts(c)) # Cardinality(Answered(c))
    BY <2>2, <2>3, FS_Subset
  <2>5. Cardinality(Answered(c)) \in Nat
    BY <2>4, FS_CardinalityType
  <2> QED BY <2>1, <2>2, <2>4, <2>5
<1>7. EffectsOfCall[c] < AbstractEffects[c]
  BY <1>2, <1>6 DEF EffectsOfCall, AbstractEffects
<1>8. EffectsOfCall' = [EffectsOfCall EXCEPT ![c] = @ + 1]
  <2>1. Cardinality(Answered(c) \union {a}) = Cardinality(Answered(c)) + 1
    BY <1>4, <1>6, FS_AddElement
  <2>2. EffectsOfCall' = [d \in Issued |-> Cardinality(Answered(d)')]
    BY <1>2 DEF EffectsOfCall
  <2>3. \A d \in Issued : Answered(d)' = IF d = c THEN Answered(c) \union {a} ELSE Answered(d)
    BY <1>2, <1>4, <1>5
  <2> QED BY <1>2, <2>1, <2>2, <2>3 DEF EffectsOfCall
<1>9. OutcomesOfCall' = [OutcomesOfCall EXCEPT ![c] = @ \union {Outcome(s)}]
  <2> DEFINE O(d) == {Outcome(net[d][b].status) : b \in Answered(d)}
  <2>1. OutcomesOfCall' = [d \in Issued |-> {Outcome(net'[d][b].status) : b \in Answered(d)'}]
    BY <1>2 DEF OutcomesOfCall, Outcome
  <2>2. {Outcome(net'[c][b].status) : b \in Answered(c)'} = O(c) \union {Outcome(s)}
    <3>1. \A b \in Answered(c) : net'[c][b] = net[c][b]
      BY <1>1, <1>4 DEF Answered
    <3> QED BY <1>3, <1>4, <3>1
  <2>3. \A d \in Issued \ {c} : {Outcome(net'[d][b].status) : b \in Answered(d)'} = O(d)
    <3>1. \A d \in Issued \ {c} : \A b \in Answered(d) : net'[d][b] = net[d][b]
      BY <1>1, <1>2 DEF Answered
    <3> QED BY <1>2, <1>5, <3>1
  <2>4. OutcomesOfCall = [d \in Issued |-> O(d)]
    BY DEF OutcomesOfCall
  <2> HIDE DEF O
  <2> QED BY <1>2, <2>1, <2>2, <2>3, <2>4
<1>10. RequestOfCall' = RequestOfCall
  BY <1>1, <1>2 DEF RequestOfCall, Abstract
<1>11. AnswerOfCall' = AnswerOfCall
  BY <1>1, <1>2, ToldSame DEF AnswerOfCall
<1> QED BY <1>2, <1>7, <1>8, <1>9, <1>10, <1>11

LEMMA MapEffect ==
  ASSUME AttemptInv, NEW c \in Calls, NEW a \in Attempts(c), NEW s, Answers(c, a, s),
         (Outcome(s) = "done" /\ Files!Done(RequestOfCall[c])) \/ Files!Failed(RequestOfCall[c], Outcome(s))
  PROVE  Files!Effect(c, Outcome(s))
<1> DEFINE o == Outcome(s)
<1>1. /\ c \in Issued
      /\ EffectsOfCall[c] < AbstractEffects[c]
      /\ EffectsOfCall' = [EffectsOfCall EXCEPT ![c] = @ + 1]
      /\ OutcomesOfCall' = [OutcomesOfCall EXCEPT ![c] = @ \union {o}]
      /\ RequestOfCall' = RequestOfCall /\ AnswerOfCall' = AnswerOfCall
  BY MapAnswers
<1>2. (o = "done" /\ Files!Done(RequestOfCall[c])) \/ Files!Failed(RequestOfCall[c], o)
  OBVIOUS
<1> HIDE DEF o
<1>3. Files!Effect(c, o)
  BY <1>1, <1>2, Mapped DEF Files!Effect, RequestOfCall, EffectsOfCall, OutcomesOfCall, AnswerOfCall, Told
<1> QED BY <1>3 DEF o

\* FileService's directories are the store's.
LEMMA SameParent ==
  /\ Files!Root = Store!Root
  /\ \A p : Files!Parent(p) = Store!Dir(p)
BY DEF Files!Root, Files!Parent, Files!Front, Store!Root, Store!Dir, Store!Front

\* What a handler does is one of the outcomes FileService allows.
LEMMA MapHandle ==
  ASSUME AttemptInv, StoreInv, NEW c \in Calls, NEW a \in Attempts(c), Handle(c, a)
  PROVE  \E o \in Files!Outcomes : Files!Effect(c, o)
<1> DEFINE r == call[c].req
           s == Serve(store, r)
           q == RequestOfCall[c]
           o == Outcome(s.status)
<1>1. Refused(store, r, s) \/ CarriedOut(store, r, s)
  BY HandlerAnswers
<1>2. store' = s.store
  BY DEF Handle
<1>3. Answers(c, a, s.status)
  BY DEF Handle, Answers
<1>4. c \in Issued /\ r \in Requests[c]
  BY OnItsWay DEF Handle, Issued
<1>5. q = [op |-> r.op, path |-> IF r.path = <<>> THEN <<>> ELSE Key(r),
           file |-> IF r.op = "create" THEN NewFile(r) ELSE r.fields]
  <2>1. r \in UNION {Requests[d] : d \in Calls}
    BY <1>4
  <2>2. q = Abstract[r]
    BY <1>4 DEF RequestOfCall
  <2> QED BY <2>1, <2>2 DEF Abstract, Key
<1> HIDE DEF s, q
<1>6. CASE Refused(store, r, s)
  <2>1. store'.files = store.files
    BY <1>2, <1>6 DEF Refused
  <2>2. Files!Failed(q, o) /\ o \in Files!Outcomes
    <3>1. CASE s.status \in {400, 403, 413, 500}
      <4>1. o = "rejected"
        BY <3>1 DEF Outcome
      <4> QED BY <2>1, <4>1 DEF Files!Failed, Files!Outcomes
    <3>2. CASE s.status = 404
      <4>1. o = "missing"
        BY <3>2 DEF Outcome
      <4>2. /\ r.path # <<>>
            /\ r.op \in {"get", "update", "delete"} => Key(r) \notin DOMAIN store.files
            /\ r.op = "create" => Store!Dir(Key(r)) # Store!Root
            /\ r.op \in {"list", "mkdir", "rmdir"} => Key(r) # Store!Root
        BY <1>6, <3>2 DEF Refused
      <4>3. q.op = r.op /\ q.path = Key(r)
        BY <1>5, <4>2
      <4>4. r.op \in {"get", "create", "update", "delete", "list", "mkdir", "rmdir"}
        BY <1>4, ServiceAssumption DEF Request
      <4> QED BY <2>1, <4>1, <4>2, <4>3, <4>4, SameParent DEF Files!Failed, Files!Outcomes
    <3>3. CASE s.status = 409
      <4>1. o = "exists"
        BY <3>3 DEF Outcome
      <4>2. /\ r.path # <<>>
            /\ \/ r.op = "create" /\ Key(r) \in DOMAIN store.files
               \/ r.op = "mkdir" /\ Key(r) = Store!Root
        BY <1>6, <3>3 DEF Refused
      <4>3. q.op = r.op /\ q.path = Key(r)
        BY <1>5, <4>2
      <4> QED BY <2>1, <4>1, <4>2, <4>3, SameParent DEF Files!Failed, Files!Outcomes
    <3> QED BY <1>6, <3>1, <3>2, <3>3 DEF Refused
  <2>3. Files!Effect(c, o)
    BY <1>3, <2>2, MapEffect DEF q
  <2> QED BY <2>2, <2>3
<1>7. CASE CarriedOut(store, r, s)
  <2>1. /\ store \in [initialized : BOOLEAN, files : {store.files}, directories : SUBSET {Store!Root}]
        /\ r.path # <<>> /\ s.status \in {200, 201}
    BY <1>7 DEF StoreInv, CarriedOut
  <2>2. o = "done"
    BY <2>1 DEF Outcome
  <2>3. q.op = r.op /\ q.path = Key(r) /\ q.file = IF r.op = "create" THEN NewFile(r) ELSE r.fields
    BY <1>5, <2>1
  <2>4. Files!Done(q)
    <3>1. CASE r.op \in {"get", "list"}
      <4>1. /\ store'.files = store.files /\ (r.op = "get" => Key(r) \in DOMAIN store.files)
            /\ r.op = "list" => Key(r) = Store!Root
        BY <1>2, <1>7, <2>1, <3>1 DEF CarriedOut
      <4> QED BY <2>3, <3>1, <4>1, SameParent DEF Files!Done
    <3>2. CASE r.op = "create"
      <4>1. /\ Key(r) \notin DOMAIN store.files /\ Store!Dir(Key(r)) = Store!Root
            /\ store'.files = Store!Put(store.files, Key(r), NewFile(r))
        BY <1>2, <1>7, <2>1, <3>2 DEF CarriedOut
      <4>2. store'.files = Files!At(store.files, Key(r), NewFile(r))
        BY <4>1 DEF Store!Put, Files!At
      <4> QED BY <2>3, <3>2, <4>1, <4>2, SameParent DEF Files!Done
    <3>3. CASE r.op = "update"
      <4>1. /\ s.store = [store EXCEPT !.files[Key(r)] = Store!Override(@, [f \in Fitting(r) |-> r.fields[f]])]
            /\ Key(r) \in DOMAIN store.files
        BY <1>7, <3>3 DEF CarriedOut
      <4>2. store'.files = [store.files EXCEPT ![Key(r)] = Store!Override(@, [f \in Fitting(r) |-> r.fields[f]])]
        BY <1>2, <2>1, <4>1
      <4>3. store'.files = [store.files EXCEPT ![Key(r)] = Files!Override(@, [f \in Fitting(r) |-> r.fields[f]])]
        BY <4>2 DEF Store!Override, Files!Override
      <4>4. q.file = r.fields /\ q.op = "update" /\ q.path = Key(r)
        BY <2>3, <3>3
      <4>5. store'.files = [store.files EXCEPT ![q.path] =
                              Files!Override(@, [f \in DOMAIN q.file \cap AppliedFields |-> q.file[f]])]
        BY <4>3, <4>4 DEF Fitting
      <4>6. q.path \in DOMAIN store.files
        BY <4>1, <4>4
      <4> QED BY <4>4, <4>5, <4>6, Zenon DEF Files!Done
    <3>4. CASE r.op = "delete"
      <4>1. /\ Key(r) \in DOMAIN store.files
            /\ store'.files = [f \in DOMAIN store.files \ {Key(r)} |-> store.files[f]]
        BY <1>2, <1>7, <2>1, <3>4 DEF CarriedOut
      <4> QED BY <2>3, <3>4, <4>1 DEF Files!Done
    <3> QED BY <1>7, <3>1, <3>2, <3>3, <3>4 DEF CarriedOut
  <2>5. Files!Effect(c, o)
    BY <1>3, <2>2, <2>4, MapEffect DEF q
  <2> QED BY <2>2, <2>5 DEF Files!Outcomes
<1> QED BY <1>1, <1>6, <1>7

LEMMA MapStep == ASSUME ServiceInv, [Next]_vars PROVE [Files!Next]_(Files!vars)
<1>1. AttemptInv /\ StoreInv
  BY DEF ServiceInv
<1>2. UNCHANGED clientVars => Quiet /\ call' = call
  BY DEF clientVars, Quiet
<1>3. Files!Lose => Files!Next
  BY DEF Files!Next
<1>4. CASE UNCHANGED vars \/ HTTPStart \/ Tick \/ Cleanup \/ StopShutdown
  <2>1. UNCHANGED clientVars /\ store' = store
    BY <1>4 DEF vars, HTTPStart, Tick, Cleanup, StopShutdown, serverVars, clientVars
  <2> QED BY <1>2, <2>1, MapLoses
<1>5. CASE Start
  <2>1. UNCHANGED clientVars
    BY <1>5 DEF Start
  <2> QED BY <1>1, <1>2, <1>5, <2>1, StartFiles, MapLoses
<1>6. CASE StopClose
  <2>1. UNCHANGED clientVars /\ (store' = store \/ store' = Store!NewMemoryStore)
    BY <1>6 DEF StopClose, Store!Close
  <2>2. store'.files = store.files \/ store'.files = <<>>
    BY <2>1 DEF Store!NewMemoryStore
  <2> QED BY <1>2, <1>3, <2>1, <2>2, MapLoses
<1>7. CASE Crash
  <2>1. call' = call /\ store'.files = <<>>
    BY <1>7 DEF Crash, Store!NewMemoryStore
  <2> QED BY <1>1, <1>3, <1>7, <2>1, QuietCrash, MapLoses
<1>8. ASSUME NEW c \in Calls, NEW a \in Attempts(c), RateLimit(c, a) PROVE [Files!Next]_(Files!vars)
  <2>1. call' = call /\ store' = store
    BY <1>8 DEF RateLimit, serverVars
  <2>2. CASE Quiet
    BY <2>1, <2>2, MapLoses
  <2>3. CASE Answers(c, a, 429)
    <3>1. Outcome(429) = "rejected"
      BY DEF Outcome
    <3>2. Files!Failed(RequestOfCall[c], Outcome(429))
      BY <2>1, <3>1 DEF Files!Failed
    <3>3. Files!Effect(c, "rejected")
      BY <1>1, <2>3, <3>1, <3>2, MapEffect
    <3> QED BY <3>3 DEF Files!Next, Files!Outcomes
  <2> QED BY <1>1, <1>8, <2>2, <2>3, LimiterAnswers
<1>9. ASSUME NEW c \in Calls, NEW a \in Attempts(c), Handle(c, a) PROVE [Files!Next]_(Files!vars)
  BY <1>1, <1>9, MapHandle DEF Files!Next
<1>10. ASSUME NEW c \in Calls, NEW r \in Requests[c], Issue(c, r) PROVE [Files!Next]_(Files!vars)
  BY <1>1, <1>10, MapIssue DEF Files!Next
<1>11. ASSUME NEW c \in Calls, ClientStep(c) PROVE [Files!Next]_(Files!vars)
  <2>1. store' = store
    BY <1>11 DEF ClientStep, Send, Receive, GiveUp, serverVars
  <2>2. Files!Return(c) => Files!Next
    BY DEF Files!Next
  <2>3. CASE Receive(c)
    <3> DEFINE a == call[c].attempt
               s == net[c][a].status
    <3>1. /\ call[c].phase = "waiting" /\ net[c][a].at = "answered" /\ net' = net
          /\ call' = [call EXCEPT ![c] = doWithRetry(c, s)]
      BY <2>3 DEF Receive
    <3>2. a \in Attempts(c)
      BY <1>1, <3>1 DEF AttemptInv, CallOK
    <3>3. s \in Statuses
      BY <1>1, <3>1, <3>2 DEF AttemptInv, NetOK
    <3>4. a \in Answered(c)
      BY <3>1, <3>2 DEF Answered
    <3>5. Outcome(s) \in {Outcome(net[c][b].status) : b \in Answered(c)}
      BY <3>4
    <3> HIDE DEF s
    <3> QED BY <1>1, <2>1, <2>2, <3>1, <3>3, <3>5, MapReturn
  <2>4. CASE GiveUp(c)
    BY <1>1, <2>1, <2>2, <2>4, MapReturn DEF GiveUp
  <2>5. CASE Send(c) /\ http # "listening"
    BY <1>1, <2>1, <2>2, <2>5, MapReturn DEF Send
  <2>6. CASE Send(c) /\ http = "listening"
    <3>1. /\ call[c].phase = "sending" /\ net' = [net EXCEPT ![c][call[c].attempt].at = "sent"]
          /\ call' = [call EXCEPT ![c].phase = "waiting"]
      BY <2>6 DEF Send
    <3>2. Quiet
      BY <1>1, <3>1, QuietSend
    <3>3. \A d \in Calls \ {c} : call'[d] = call[d]
      BY <1>1, <3>1 DEF AttemptInv
    <3>4. call'[c].phase = "waiting"
      BY <1>1, <3>1 DEF AttemptInv, CallOK
    <3>5. Issued' = Issued
      BY <3>1, <3>3, <3>4 DEF Issued
    <3>6. \A d \in Issued : Told(d)' = Told(d)
      <4>1. Told(c)' = Told(c)
        BY <3>1, <3>4 DEF Told
      <4>2. \A d \in Issued \ {c} : call'[d] = call[d]
        BY <3>3 DEF Issued
      <4> QED BY <4>1, <4>2, ToldSame
    <3>7. AnswerOfCall' = AnswerOfCall
      BY <3>5, <3>6 DEF AnswerOfCall
    <3> QED BY <2>1, <3>2, <3>5, <3>7, MapQuiet, MapStutter
  <2> QED BY <1>11, <2>3, <2>4, <2>5, <2>6 DEF ClientStep
<1> QED BY <1>4, <1>5, <1>6, <1>7, <1>8, <1>9, <1>10, <1>11 DEF Next

\* The service with its retries, its lossy network and its crashes implements
\* FileService: the handlers' outcomes are true and atomic, no attempt takes
\* effect twice, and a caller is told the outcome of one of its own attempts,
\* for any calls, requests, clients, limits and numbers of retries.
THEOREM ImplementsFileService == Spec => RefinesFileService
<1>1. ServiceInv /\ [Next]_vars => [Files!Next]_(Files!vars)
  BY MapStep
<1> QED BY <1>1, MapInit, ServiceHolds, PTL DEF Spec, RefinesFileService, Files!Spec
=============================================================================
