---------------------------- MODULE LockService ----------------------------
(***************************************************************************)
(* What a path lock manager promises its clients ("distributed read-write  *)
(* lock", lock/README.md), without clock, owner strings, retries or        *)
(* cleanup: a path is granted for writing when it is free and for reading  *)
(* when nobody writes; it stays with the clients it was granted to until   *)
(* each has given it back, and becomes free some time after the last one.  *)
(* When a path is kept beyond lockTimeout it lapses, and nothing is        *)
(* promised about it until it has recovered.                               *)
(***************************************************************************)
CONSTANTS Clients, Paths

VARIABLES holders,  \* for each path the clients that believe to hold it
          writers,  \* for each path those that hold it for more than reading
          kept,     \* paths that are held or on their way back
          lapsed    \* paths that were kept too long and have not recovered

vars == <<holders, writers, kept, lapsed>>

Init ==
  /\ holders = [p \in Paths |-> {}]
  /\ writers = [p \in Paths |-> {}]
  /\ kept = {}
  /\ lapsed = {}

\* Readers share, but not with a writer and not with a path on its way back.
GrantRead(c, p) ==
  /\ p \notin lapsed
  /\ writers[p] = {}
  /\ p \in kept => holders[p] # {}
  /\ holders' = [holders EXCEPT ![p] = @ \union {c}]
  /\ kept' = kept \union {p}
  /\ UNCHANGED <<writers, lapsed>>

GrantWrite(c, p) ==
  /\ p \notin kept \union lapsed
  /\ holders' = [holders EXCEPT ![p] = {c}]
  /\ writers' = [writers EXCEPT ![p] = {c}]
  /\ kept' = kept \union {p}
  /\ UNCHANGED lapsed

GiveBack(c, p) ==
  /\ c \in holders[p]
  /\ holders' = [holders EXCEPT ![p] = @ \ {c}]
  /\ writers' = [writers EXCEPT ![p] = @ \ {c}]
  /\ UNCHANGED <<kept, lapsed>>

Free(p) ==
  /\ p \in kept
  /\ holders[p] = {}
  /\ kept' = kept \ {p}
  /\ UNCHANGED <<holders, writers, lapsed>>

\* Time may pass for several paths at once.
Lapse(late) ==
  /\ late # {}
  /\ late \subseteq kept
  /\ holders' = [p \in Paths |-> IF p \in late THEN {} ELSE holders[p]]
  /\ writers' = [p \in Paths |-> IF p \in late THEN {} ELSE writers[p]]
  /\ kept' = kept \ late
  /\ lapsed' = lapsed \union late

Recover(p) ==
  /\ p \in lapsed
  /\ lapsed' = lapsed \ {p}
  /\ UNCHANGED <<holders, writers, kept>>

Next ==
  \/ \E c \in Clients, p \in Paths :
       GrantRead(c, p) \/ GrantWrite(c, p) \/ GiveBack(c, p)
  \/ \E p \in Paths : Free(p) \/ Recover(p)
  \/ \E late \in SUBSET Paths : Lapse(late)

Spec == Init /\ [][Next]_vars
=============================================================================
