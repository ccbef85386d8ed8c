------------------------------ MODULE RaftNode ------------------------------
(***************************************************************************)
(* The Raft node of the metadata server: the loop that handles the Ready   *)
(* batches of the etcd library, the storage it keeps for the library and   *)
(* the proposal queue (common/consensus/raft/node.go), with the election   *)
(* manager that consumes applied entries and proposes membership changes   *)
(* (internal/metaserver/core/cluster/election/manager.go).                 *)
(*                                                                         *)
(* The library is external.  It keeps new log entries and a received       *)
(* snapshot as "unstable" until a Ready has been handled, and reads every  *)
(* other entry back from the storage.  It hands out one Ready at a time,   *)
(* and goes on appending while it is being handled.  Its log starts with   *)
(* one committed configuration change for each member it is given.         *)
(*                                                                         *)
(* hardState and confState are written and never read after the start, and *)
(* the election manager does nothing with an applied entry but log it.     *)
(* leaderCh is never made, so monitorRaftState never hears of a leader.    *)
(***************************************************************************)
EXTENDS Integers, Sequences, FiniteSets

CONSTANTS MaxIndex,   \* bound on the log
          MaxTerm,    \* bound on the term
          Members,    \* number of members in config.Peers
          ApplyCap,   \* ApplyBufferSize (1024 in the code)
          ProposeCap, \* SendBufferSize (1024 in the code)
          Callers     \* goroutines that call AddPeer and RemovePeer

NoCaller == "nobody"

ASSUME RaftAssumption ==
  /\ MaxIndex \in Nat /\ MaxTerm \in Nat \ {0} /\ Members \in 1..MaxIndex
  /\ ApplyCap \in Nat \ {0} /\ ProposeCap \in Nat
  /\ NoCaller \notin Callers

VARIABLES entries,   \* MemoryStorage.entries
          snapshot,  \* MemoryStorage.snapshot: index and term, 0 when empty
          unstable,  \* library: entries and snapshot not yet handed over, from offset on
          commit,    \* library: index of the last committed entry
          applied,   \* library: index of the last entry handed out as committed
          role,      \* library: leader, follower, or none (no leader known)
          isLeader,
          node,      \* run: select, applying, panicked, done
          ready,     \* the Ready being handled
          toApply,   \* what handleReady has still to send to applyCh
          applyCh,
          monitor,   \* monitorRaftState: on, done
          proposals, \* number of entries of proposeC
          server,    \* serveProposals: select, proposing, done
          mu,        \* holder of the election manager's mutex
          stopped,   \* done is closed and the election manager's context cancelled
          handed,    \* history: the log and snapshot the Ready batches add up to
          sent       \* history: what went to applyCh

storageVars == <<entries, snapshot, handed>>
libVars     == <<unstable, commit, applied, role>>
loopVars    == <<isLeader, node, ready, toApply, applyCh, monitor, sent>>
callVars    == <<proposals, server, mu>>
vars        == <<storageVars, libVars, loopVars, callVars, stopped>>

Entry    == [Index : 1..MaxIndex, Term : 1..MaxTerm, empty : BOOLEAN]
Snapshot == [Index : 0..MaxIndex, Term : 0..MaxTerm]
NoSnap   == [Index |-> 0, Term |-> 0]
NoReady  == [Entries |-> <<>>, Snapshot |-> NoSnap, Applied |-> 0, leader |-> FALSE]

Last(s) == s[Len(s)]

(***************************************************************************)
(* What the library reads from MemoryStorage.                              *)
(***************************************************************************)
FirstIndex == IF entries = <<>> THEN snapshot.Index + 1 ELSE entries[1].Index

LastIndex == IF entries = <<>> THEN snapshot.Index ELSE Last(entries).Index

\* Entries(lo, hi, maxSize) without the size limit, which cuts an answer at 1 MiB
\* (the commands of this program are a few bytes).  hi is clamped to the end of
\* the log; ErrUnavailable and ErrCompacted are an answer without entries.
Entries(lo, hi) ==
  LET end == FirstIndex + Len(entries)
  IN IF entries = <<>> \/ lo < FirstIndex THEN <<>>
     ELSE SubSeq(entries, lo - FirstIndex + 1, (IF hi > end THEN end ELSE hi) - FirstIndex)

\* Term answers 0 where the code answers ErrCompacted or ErrUnavailable; the
\* library does the same when it compares terms.
Term(i) ==
  CASE entries = <<>> /\ i = snapshot.Index -> snapshot.Term
    [] entries # <<>> /\ i \in FirstIndex..LastIndex -> entries[i - FirstIndex + 1].Term
    [] OTHER -> 0

(***************************************************************************)
(* External: the etcd library.                                             *)
(***************************************************************************)
LibLast ==
  IF unstable.Entries # <<>> THEN Last(unstable.Entries).Index
  ELSE IF unstable.Snapshot # NoSnap THEN unstable.Snapshot.Index
  ELSE LastIndex

UnstableEnd == unstable.offset + Len(unstable.Entries)

\* The term of the log at i, 0 before the log.
LibTerm(i) ==
  CASE i \in unstable.offset..(UnstableEnd - 1) ->
         unstable.Entries[i - unstable.offset + 1].Term
    [] i < unstable.offset /\ i = unstable.Snapshot.Index -> unstable.Snapshot.Term
    [] i < unstable.offset /\ i # unstable.Snapshot.Index /\ i = snapshot.Index -> snapshot.Term
    [] OTHER -> Term(i)

\* Whether the library gets to know it: storage answers ErrCompacted at the
\* snapshot's index as soon as entries follow the snapshot.
TermKnown(i) ==
  i >= unstable.offset \/ i = unstable.Snapshot.Index \/ Term(i) # 0

LibEntries(lo, hi) ==
  LET cut == IF hi < unstable.offset THEN hi + 1 ELSE unstable.offset
      lo2 == IF lo > unstable.offset THEN lo ELSE unstable.offset
  IN (IF lo < cut THEN Entries(lo, cut) ELSE <<>>)
       \o SubSeq(unstable.Entries, lo2 - unstable.offset + 1, hi - unstable.offset + 1)

\* The library appends an entry at its end, or a new leader overwrites what
\* follows the committed entries, provided the library knows the term before
\* the new entry.  A leader begins its term with an empty entry.
LibAppend(i, t) ==
  /\ i \in (commit + 1)..(LibLast + 1) /\ i <= UnstableEnd
  /\ TermKnown(i - 1) /\ t >= LibTerm(i - 1)
  /\ i <= LibLast => t # LibTerm(i)
  /\ LET e == [Index |-> i, Term |-> t, empty |-> t # LibTerm(i - 1)]
     IN unstable' =
          IF i <= unstable.offset
            THEN [unstable EXCEPT !.offset = i, !.Entries = <<e>>]
            ELSE [unstable EXCEPT !.Entries = Append(SubSeq(@, 1, i - unstable.offset), e)]
  /\ UNCHANGED <<commit, applied, role>>

LibCommit(i) ==
  /\ i \in (commit + 1)..LibLast /\ i < UnstableEnd
  /\ commit' = i
  /\ UNCHANGED <<unstable, applied, role>>

\* A leader's snapshot replaces the whole log.
LibSnapshot(s) ==
  /\ s.Index > commit /\ s.Term > 0
  /\ s.Index <= LibLast => s.Term # LibTerm(s.Index)
  /\ s.Term >= LibTerm(commit)
  /\ unstable' = [offset |-> s.Index + 1, Entries |-> <<>>, Snapshot |-> s]
  /\ commit' = s.Index
  /\ UNCHANGED <<applied, role>>

LibRole(r) ==
  /\ r # role
  /\ role' = r
  /\ UNCHANGED <<unstable, commit, applied>>

\* The storage answers LastIndex with an index that the library never handed
\* over: its next append or commit there is out of its bounds.
LibPanic ==
  /\ node \in {"select", "applying"}
  /\ LibLast >= UnstableEnd
  /\ node' = "panicked" /\ ready' = NoReady /\ toApply' = <<>>
  /\ UNCHANGED <<storageVars, libVars, isLeader, applyCh, monitor, sent, callVars, stopped>>

Library ==
  /\ node \in {"select", "applying"}
  /\ \/ \E i \in 1..MaxIndex, t \in 1..MaxTerm : LibAppend(i, t)
     \/ \E i \in 1..MaxIndex : LibCommit(i)
     \/ \E s \in Snapshot : LibSnapshot(s)
     \/ \E r \in {"leader", "follower", "none"} : LibRole(r)
  /\ UNCHANGED <<storageVars, loopVars, callVars, stopped>>

\* The entries of the next Ready that are committed and were not handed out.
Committed ==
  LET from == IF unstable.Snapshot.Index > applied THEN unstable.Snapshot.Index + 1
              ELSE applied + 1
  IN IF commit < from THEN <<>> ELSE LibEntries(from, commit)

NextReady == [Entries  |-> unstable.Entries,
              Snapshot |-> unstable.Snapshot,
              Applied  |-> commit,
              leader   |-> role = "leader"]

SomethingReady ==
  \/ unstable.Entries # <<>> \/ unstable.Snapshot # NoSnap
  \/ commit > applied \/ (role = "leader") # isLeader

(***************************************************************************)
(* handleReady.                                                            *)
(***************************************************************************)
Offset(new) == new[1].Index - entries[1].Index

Gap(new) == new # <<>> /\ entries # <<>> /\ Offset(new) > Len(entries)

\* Faulty variant: overlapping entries are not cut off.
Appended_NoTruncate(new) ==
  IF new = <<>> THEN entries ELSE entries \o new

\* Step 1: overlapping entries are replaced, earlier ones kept.
Appended(new) ==
  IF new = <<>> THEN entries
  ELSE IF entries = <<>> \/ Offset(new) < 0 THEN new
  ELSE SubSeq(entries, 1, Offset(new)) \o new

\* Step 2: what follows the snapshot's index is kept.  The indexes of a log
\* are consecutive, so that the loop drops a prefix.
Compacted(log, s) ==
  IF s = NoSnap \/ log = <<>> \/ log[1].Index > s.Index THEN log
  ELSE SubSeq(log, s.Index - log[1].Index + 2, Len(log))

\* Configuration changes like commands.  The branch for a change that cannot be
\* unmarshalled is never taken: the only ones are those the library itself
\* marshals for the first members, everything proposed is an ordinary command.
Commands(ents) ==
  [k \in 1..Len(ents) |-> [kind |-> IF ents[k].empty THEN "empty" ELSE "command",
                           Index |-> ents[k].Index]]

SnapshotMsg(s) == IF s = NoSnap THEN <<>> ELSE <<[kind |-> "snapshot", Index |-> s.Index]>>

\* Faulty variant: the snapshot is announced after the entries.
Messages_SnapshotLast(s, ents) == Commands(ents) \o SnapshotMsg(s)

\* Steps 2 and 4: the snapshot, then the committed entries.
Messages(s, ents) == SnapshotMsg(s) \o Commands(ents)

\* What the Ready batches add up to: a snapshot replaces the log, and entries
\* replace everything from their first index on.
HandOver(rd) ==
  LET base == IF rd.Snapshot = NoSnap THEN handed ELSE {}
      new  == {rd.Entries[k] : k \in 1..Len(rd.Entries)}
  IN IF new = {} THEN base
     ELSE {e \in base : e.Index < rd.Entries[1].Index} \union new

ReceiveReady ==
  /\ node = "select"
  /\ SomethingReady
  /\ IF Gap(unstable.Entries)
       THEN node' = "panicked" /\ UNCHANGED <<storageVars, ready, toApply>>
       ELSE /\ node' = "applying"
            /\ ready' = NextReady
            /\ entries' = Compacted(Appended(unstable.Entries), unstable.Snapshot)
            /\ snapshot' = IF unstable.Snapshot = NoSnap THEN snapshot ELSE unstable.Snapshot
            /\ handed' = HandOver(NextReady)
            /\ toApply' = Messages(unstable.Snapshot, Committed)
  /\ UNCHANGED <<libVars, isLeader, applyCh, monitor, sent, callVars, stopped>>

\* Faulty variant: a message is dropped when applyCh is full.
SendApply_Drop ==
  /\ node = "applying" /\ toApply # <<>>
  /\ toApply' = Tail(toApply)
  /\ IF Head(toApply).kind # "empty" /\ Len(applyCh) < ApplyCap
       THEN applyCh' = Append(applyCh, Head(toApply)) /\ sent' = Append(sent, Head(toApply))
       ELSE UNCHANGED <<applyCh, sent>>
  /\ UNCHANGED <<storageVars, libVars, isLeader, node, ready, monitor, callVars, stopped>>

\* The next of toApply goes to applyCh when there is room; an entry without
\* contents is passed over.
SendApply ==
  /\ node = "applying" /\ toApply # <<>>
  /\ toApply' = Tail(toApply)
  /\ \/ Head(toApply).kind = "empty" /\ UNCHANGED <<applyCh, sent>>
     \/ /\ Head(toApply).kind # "empty" /\ Len(applyCh) < ApplyCap
        /\ applyCh' = Append(applyCh, Head(toApply))
        /\ sent' = Append(sent, Head(toApply))
  /\ UNCHANGED <<storageVars, libVars, isLeader, node, ready, monitor, callVars, stopped>>

\* What Advance lets the library forget: entries it still has unchanged, and
\* the snapshot if no newer one has come.
Stabilised ==
  LET last == Last(ready.Entries)
      kept == ready.Entries # <<>> /\ last.Index >= unstable.offset /\ last.Index <= LibLast
                /\ LibTerm(last.Index) = last.Term
  IN [offset   |-> IF kept THEN last.Index + 1 ELSE unstable.offset,
      Entries  |-> IF kept THEN SubSeq(unstable.Entries, last.Index - unstable.offset + 2,
                                       Len(unstable.Entries))
                   ELSE unstable.Entries,
      Snapshot |-> IF ready.Snapshot = unstable.Snapshot THEN NoSnap ELSE unstable.Snapshot]

\* Faulty variant: handleReady advances without waiting for applyCh.
Advance_BeforeSends ==
  /\ node = "applying"
  /\ isLeader' = ready.leader
  /\ unstable' = Stabilised
  /\ applied' = ready.Applied
  /\ node' = "select"
  /\ ready' = NoReady
  /\ UNCHANGED <<storageVars, commit, role, toApply, applyCh, monitor, sent, callVars, stopped>>

\* Faulty variant: Advance is only called for a Ready with new entries, and
\* the library hands out no other.
Advance_OnlyWithEntries ==
  /\ ready.Entries # <<>>
  /\ toApply = <<>>
  /\ Advance_BeforeSends

\* Steps 5 and 6.
Advance ==
  /\ node = "applying" /\ toApply = <<>>
  /\ isLeader' = ready.leader
  /\ unstable' = Stabilised
  /\ applied' = ready.Applied
  /\ node' = "select"
  /\ ready' = NoReady
  /\ UNCHANGED <<storageVars, commit, role, toApply, applyCh, monitor, sent, callVars, stopped>>

RunExit ==
  /\ node = "select" /\ stopped
  /\ node' = "done"
  /\ UNCHANGED <<storageVars, libVars, isLeader, ready, toApply, applyCh, monitor, sent,
                 callVars, stopped>>

(***************************************************************************)
(* monitorRaftState, the proposal queue, AddPeer and RemovePeer, Stop.     *)
(***************************************************************************)
MonitorApply ==
  /\ monitor = "on" /\ applyCh # <<>>
  /\ applyCh' = Tail(applyCh)
  /\ UNCHANGED <<storageVars, libVars, isLeader, node, ready, toApply, monitor, sent,
                 callVars, stopped>>

MonitorExit ==
  /\ monitor = "on" /\ stopped
  /\ monitor' = "done"
  /\ UNCHANGED <<storageVars, libVars, isLeader, node, ready, toApply, applyCh, sent,
                 callVars, stopped>>

callerFree == UNCHANGED <<storageVars, libVars, loopVars, stopped>>

\* AddPeer or RemovePeer with an identifier that parses: Propose is called
\* with the mutex held.
PeerCall(c) ==
  /\ mu = NoCaller
  /\ mu' = c
  /\ UNCHANGED <<proposals, server>> /\ callerFree

\* Faulty variant: Propose does not look at done.
ProposeReturns_NoDone ==
  /\ mu # NoCaller
  /\ proposals < ProposeCap /\ proposals' = proposals + 1
  /\ mu' = NoCaller
  /\ UNCHANGED server /\ callerFree

\* Propose: the queue takes the command, or the node has been stopped.
ProposeReturns ==
  /\ mu # NoCaller
  /\ \/ proposals < ProposeCap /\ proposals' = proposals + 1
     \/ stopped /\ UNCHANGED proposals
  /\ mu' = NoCaller
  /\ UNCHANGED server /\ callerFree

ServeTake ==
  /\ server = "select" /\ proposals > 0
  /\ proposals' = proposals - 1
  /\ server' = "proposing"
  /\ UNCHANGED mu /\ callerFree

\* The library's Propose waits until a leader is known or the node stops; what
\* becomes of the entry is up to the library.
ServeProposed ==
  /\ server = "proposing"
  /\ role # "none" \/ node = "done"
  /\ server' = "select"
  /\ UNCHANGED <<proposals, mu>> /\ callerFree

ServeExit ==
  /\ server = "select" /\ stopped
  /\ server' = "done"
  /\ UNCHANGED <<proposals, mu>> /\ callerFree

Stop ==
  /\ ~stopped
  /\ stopped' = TRUE
  /\ UNCHANGED <<storageVars, libVars, loopVars, callVars>>

Init ==
  /\ entries = <<>> /\ snapshot = NoSnap
  /\ unstable = [offset   |-> 1,
                 Entries  |-> [k \in 1..Members |-> [Index |-> k, Term |-> 1, empty |-> FALSE]],
                 Snapshot |-> NoSnap]
  /\ commit = Members /\ applied = 0 /\ role = "none"
  /\ isLeader = FALSE /\ node = "select" /\ ready = NoReady /\ toApply = <<>>
  /\ applyCh = <<>> /\ monitor = "on"
  /\ proposals = 0 /\ server = "select" /\ mu = NoCaller
  /\ stopped = FALSE /\ handed = {} /\ sent = <<>>

Run == ReceiveReady \/ SendApply \/ Advance \/ RunExit

Serve == ServeTake \/ ServeProposed \/ ServeExit

\* A panic in the run loop or in the library ends the process.
Next ==
  \/ Library \/ LibPanic
  \/ Run
  \/ /\ node # "panicked"
     /\ \/ MonitorApply \/ MonitorExit \/ Serve \/ ProposeReturns \/ Stop
        \/ \E c \in Callers : PeerCall(c)

Spec == Init /\ [][Next]_vars

(***************************************************************************)
(* Fairness: the goroutines are scheduled.  Nothing is assumed of the      *)
(* library: it need not append, commit or elect.                           *)
(***************************************************************************)
Fairness ==
  /\ WF_vars(ReceiveReady) /\ WF_vars(SendApply) /\ WF_vars(Advance)
  /\ WF_vars(node # "panicked" /\ MonitorApply)
  /\ WF_vars(node # "panicked" /\ ProposeReturns)

FairSpec == Spec /\ Fairness

-----------------------------------------------------------------------------
\* The shape of the state; a Ready is kept exactly while it is handled.
TypeOK ==
  /\ entries \in Seq(Entry) /\ snapshot \in Snapshot
  /\ unstable \in [offset : 1..(MaxIndex + 1), Entries : Seq(Entry), Snapshot : Snapshot]
  /\ commit \in 0..MaxIndex /\ applied \in 0..commit
  /\ role \in {"leader", "follower", "none"} /\ isLeader \in BOOLEAN
  /\ node \in {"select", "applying", "panicked", "done"}
  /\ node # "applying" => toApply = <<>> /\ ready = NoReady
  /\ Len(applyCh) <= ApplyCap
  /\ monitor \in {"on", "done"} /\ server \in {"select", "proposing", "done"}
  /\ proposals \in 0..ProposeCap /\ mu \in Callers \union {NoCaller}
  /\ stopped \in BOOLEAN /\ handed \subseteq Entry

\* Nothing the library was told is stable gets lost: every entry handed over,
\* and not replaced since, is read back from the storage at its index, however
\* batches overlap, overwrite each other or follow a snapshot.
HandedIsStored ==
  \A e \in handed :
    e.Index \in FirstIndex..LastIndex /\ Entries(e.Index, e.Index + 1) = <<e>>

\* The state machine gets what was committed in log order: indexes only grow,
\* also across snapshots and while the library appends and commits on.
AppliedInOrder ==
  \A j, k \in 1..Len(sent) : j < k => sent[j].Index < sent[k].Index

\* Once a Ready is dealt with, everything committed up to it went to applyCh
\* or is covered by a snapshot that did, except for empty entries.
AppliedIsComplete ==
  node = "select" =>
    \A e \in handed :
      e.Index <= applied /\ ~e.empty
        => \E k \in 1..Len(sent) : sent[k] = [kind |-> "command", Index |-> e.Index]

\* Propose cannot keep the election manager's mutex after Stop, whether or not
\* the queue is full and whatever serveProposals waits for.
StopFreesMutex ==
  \A c \in Callers : (stopped /\ mu = c) ~> (mu # c \/ node = "panicked")

\* What is committed is handed out in the end while the manager runs.
CommittedIsApplied ==
  \A i \in 1..MaxIndex :
    (commit = i) ~> (applied >= i \/ stopped \/ node = "panicked")
=============================================================================
