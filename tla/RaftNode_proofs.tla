--------------------------- MODULE RaftNode_proofs ---------------------------
(***************************************************************************)
(* Proofs about RaftNode, for any bounds on log and term, any number of    *)
(* members and callers and any capacity of the channels.                   *)
(*                                                                         *)
(* That the storage keeps what was handed over rests on the indexes of     *)
(* both logs, the storage's and the library's unstable one, being          *)
(* consecutive (StorageInv, UnstableInv).  What is sent in a batch comes   *)
(* partly from the storage and partly from the unstable log; that it has   *)
(* the right indexes needs that the storage has everything below the       *)
(* unstable log that is still to be applied (Readable, and ReadyStored     *)
(* while the library goes on appending during a batch).  Order and         *)
(* completeness then follow from where the batch begins and ends           *)
(* (BatchInv).                                                             *)
(***************************************************************************)
EXTENDS RaftNode, SequenceTheorems, TLAPS

Message == [kind : {"snapshot", "command", "empty"}, Index : 0..MaxIndex]
Batch   == [Entries : Seq(Entry), Snapshot : Snapshot, Applied : 0..MaxIndex, leader : BOOLEAN]

Command(i) == [kind |-> "command", Index |-> i]

\* What a log holds, and the indexes it has.
Holds(log, e) == \E k \in 1..Len(log) : log[k] = e
Has(log, i)   == \E k \in 1..Len(log) : log[k].Index = i

Consecutive(log) == \A k \in 1..Len(log) : log[k].Index = log[1].Index + k - 1

\* What the other variables do not show of a Ready and its messages.
MessageType ==
  /\ ready \in Batch
  /\ toApply \in Seq(Message) /\ sent \in Seq(Message) /\ applyCh \in Seq(Message)

\* The unstable log starts at its offset, behind its snapshot, and holds or
\* follows whatever is committed.
UnstableInv ==
  /\ \A k \in 1..Len(unstable.Entries) : unstable.Entries[k].Index = unstable.offset + k - 1
  /\ unstable.Snapshot.Index < unstable.offset
  /\ unstable.Snapshot.Index <= commit
  /\ commit < UnstableEnd

StorageInv == Consecutive(entries) /\ \A e \in handed : Holds(entries, e)

\* The storage has what is still to be applied below the unstable log.
Readable ==
  \A i \in Nat :
    applied < i /\ unstable.Snapshot.Index < i /\ i < unstable.offset => Has(entries, i)

\* It also has the batch, which the library will call stable.
ReadyStored ==
  node = "applying" /\ ready.Entries # <<>> =>
    \A i \in Nat :
      applied < i /\ ready.Snapshot.Index < i /\ i <= Last(ready.Entries).Index
        => Has(entries, i)

\* A batch reaches from what was applied to what is committed, and a snapshot
\* that comes while it is handled lies beyond it.
BatchInv ==
  /\ node = "applying" =>
       /\ applied <= ready.Applied /\ ready.Applied <= commit
       /\ ready.Snapshot.Index <= ready.Applied
       /\ unstable.Snapshot = ready.Snapshot \/ unstable.Snapshot.Index > ready.Applied
  /\ node = "select" => unstable.Snapshot = NoSnap \/ unstable.Snapshot.Index > applied

\* What is sent and to be sent is in order and does not exceed the batch.
OrderInv ==
  /\ AppliedInOrder
  /\ \A j, k \in 1..Len(toApply) : j < k => toApply[j].Index < toApply[k].Index
  /\ \A j \in 1..Len(sent), k \in 1..Len(toApply) : sent[j].Index < toApply[k].Index
  /\ \A k \in 1..Len(toApply) : toApply[k].Index <= ready.Applied
  /\ node = "select" => \A k \in 1..Len(sent) : sent[k].Index <= applied
  /\ node = "applying" => \A k \in 1..Len(sent) : sent[k].Index <= ready.Applied

\* An entry the library knows of: handed over, or still unstable.
Known(e) == e \in handed \/ Holds(unstable.Entries, e)

Sent(i)    == \E k \in 1..Len(sent) : sent[k] = Command(i)
Pending(i) == \E k \in 1..Len(toApply) : toApply[k] = Command(i)

\* Every entry with contents up to the end of the batch is sent or about to be.
CompleteInv ==
  \A e \in Entry :
    Known(e) /\ ~e.empty =>
      /\ node = "select" /\ e.Index <= applied => Sent(e.Index)
      /\ node = "applying" /\ e.Index <= ready.Applied => Sent(e.Index) \/ Pending(e.Index)

LogInv     == TypeOK /\ MessageType /\ UnstableInv /\ StorageInv
BatchesInv == Readable /\ ReadyStored /\ BatchInv /\ OrderInv /\ CompleteInv
RaftInv    == LogInv /\ BatchesInv

-----------------------------------------------------------------------------
(***************************************************************************)
(* Logs with consecutive indexes.                                          *)
(***************************************************************************)
LEMMA EntryIndex == \A e \in Entry : e.Index \in Int /\ e.Index >= 1 /\ e.Index <= MaxIndex
BY RaftAssumption DEF Entry

\* A part of a consecutive log.
LEMMA PartOf ==
  ASSUME NEW log \in Seq(Entry), Consecutive(log),
         NEW m \in Int, NEW n \in Int, m >= 1, n <= Len(log),
         NEW part, part = SubSeq(log, m, n)
  PROVE  /\ part \in Seq(Entry)
         /\ m <= n + 1 => Len(part) = n - m + 1
         /\ m > n => Len(part) = 0
         /\ \A k \in 1..Len(part) : part[k] = log[m + k - 1]
         /\ \A k \in 1..Len(part) : part[k].Index = log[1].Index + m + k - 2
         /\ Consecutive(part)
<1>1. Len(log) \in Nat /\ \A k \in 1..Len(log) : log[k] \in Entry
  BY LenProperties, ElementOfSeq
<1>2. \A i \in m..n : log[i] \in Entry
  BY <1>1
<1>3. /\ part \in Seq(Entry)
      /\ Len(part) = IF m <= n THEN n - m + 1 ELSE 0
      /\ \A i \in 1..(n - m + 1) : part[i] = log[m + i - 1]
  BY <1>2, SubSeqProperties
<1>4. \A k \in 1..Len(part) : k \in 1..(n - m + 1) /\ m + k - 1 \in 1..Len(log)
  BY <1>1, <1>3
<1>5. ASSUME NEW k \in 1..Len(part)
      PROVE  part[k] = log[m + k - 1] /\ part[k].Index = log[1].Index + m + k - 2
  <2>1. part[k] = log[m + k - 1] /\ k \in Int /\ m + k - 1 \in 1..Len(log)
    BY <1>1, <1>3, <1>4
  <2>2. log[m + k - 1].Index = log[1].Index + (m + k - 1) - 1
    BY <2>1 DEF Consecutive
  <2>3. log[1].Index \in Int
    <3>1. 1 \in 1..Len(log)
      BY <1>1, <2>1
    <3> QED BY <3>1, <1>1, EntryIndex
  <2>4. part[k].Index = log[1].Index + (m + k - 1) - 1
    BY <2>1, <2>2
  <2> DEFINE a == part[k].Index
             b == log[1].Index
  <2>5. b \in Int /\ k \in Int /\ a = b + (m + k - 1) - 1
    BY <2>1, <2>3, <2>4
  <2> HIDE DEF a, b
  <2>6. a = b + m + k - 2
    BY <2>5
  <2>7. part[k].Index = log[1].Index + m + k - 2
    BY <2>6, Zenon DEF a, b
  <2> QED BY <2>1, <2>7, Zenon
<1>6. Consecutive(part)
  <2> SUFFICES ASSUME NEW k \in 1..Len(part) PROVE part[k].Index = part[1].Index + k - 1
    BY DEF Consecutive
  <2>1. 1 \in 1..Len(part) /\ k \in Int /\ 1 \in 1..Len(log)
    BY <1>1, <1>3, <1>4
  <2>2. part[1].Index = log[1].Index + m + 1 - 2
    BY <2>1, <1>5
  <2>3. part[k].Index = log[1].Index + m + k - 2
    BY <1>5
  <2>4. log[1].Index \in Int
    BY <2>1, <1>1, EntryIndex
  <2> DEFINE a == part[k].Index
             b == log[1].Index
             c == part[1].Index
  <2>5. b \in Int /\ k \in Int /\ c = b + m + 1 - 2 /\ a = b + m + k - 2
    BY <2>1, <2>2, <2>3, <2>4, Zenon
  <2> HIDE DEF a, b, c
  <2>6. a = c + k - 1
    BY <2>5
  <2> QED BY <2>6, Zenon DEF a, c
<1>7. (m <= n + 1 => Len(part) = n - m + 1) /\ (m > n => Len(part) = 0)
  BY <1>3
<1> QED BY <1>3, <1>5, <1>6, <1>7

\* A log continued by another one.
LEMMA Joined ==
  ASSUME NEW p \in Seq(Entry), NEW q \in Seq(Entry), Consecutive(p), Consecutive(q),
         p # <<>> /\ q # <<>> => q[1].Index = p[1].Index + Len(p),
         NEW log, log = p \o q
  PROVE  /\ log \in Seq(Entry) /\ Consecutive(log) /\ Len(log) = Len(p) + Len(q)
         /\ \A e : Holds(log, e) <=> Holds(p, e) \/ Holds(q, e)
<1>1. Len(p) \in Nat /\ Len(q) \in Nat /\ (p # <<>> <=> Len(p) > 0) /\ (q # <<>> <=> Len(q) > 0)
  BY LenProperties, EmptySeq
<1>2. \A k \in 1..Len(p) : p[k] \in Entry
  BY ElementOfSeq
<1>3. \A k \in 1..Len(q) : q[k] \in Entry
  BY ElementOfSeq
<1>4. /\ log \in Seq(Entry)
      /\ Len(log) = Len(p) + Len(q)
      /\ \A i \in 1..(Len(p) + Len(q)) : log[i] = IF i <= Len(p) THEN p[i] ELSE q[i - Len(p)]
  BY ConcatProperties
<1>5. ASSUME NEW k \in 1..Len(log) PROVE log[k].Index = log[1].Index + k - 1
  <2>1. CASE Len(p) = 0
    BY <2>1, <1>1, <1>4 DEF Consecutive
  <2>2. CASE Len(p) > 0 /\ k <= Len(p)
    BY <2>2, <1>1, <1>4 DEF Consecutive
  <2>3. CASE Len(p) > 0 /\ k > Len(p)
    <3>1. k - Len(p) \in 1..Len(q) /\ log[k] = q[k - Len(p)] /\ log[1] = p[1]
      BY <2>3, <1>1, <1>4
    <3>2. q[k - Len(p)].Index = q[1].Index + (k - Len(p)) - 1
      BY <3>1 DEF Consecutive
    <3>3. p[1].Index \in Int /\ q[1].Index = p[1].Index + Len(p)
      BY <2>3, <3>1, <1>1, <1>2, EntryIndex
    <3> DEFINE f == p[1].Index
               a == q[1].Index
               n == Len(p)
    <3>4. f \in Int /\ n \in Int /\ k \in Int /\ a = f + n
      BY <3>3, <1>1, <1>4
    <3> HIDE DEF f, a, n
    <3>5. a + (k - n) - 1 = f + k - 1
      BY <3>4
    <3>6. q[1].Index + (k - Len(p)) - 1 = p[1].Index + k - 1
      BY <3>5, Zenon DEF f, a, n
    <3> QED BY <3>1, <3>2, <3>6, Zenon
  <2> QED BY <1>1, <2>1, <2>2, <2>3
<1>6. Consecutive(log)
  BY <1>5 DEF Consecutive
<1>7. ASSUME NEW e, Holds(log, e) PROVE Holds(p, e) \/ Holds(q, e)
  <2>1. PICK k \in 1..Len(log) : log[k] = e
    BY <1>7 DEF Holds
  <2>2. CASE k <= Len(p)
    BY <2>1, <2>2, <1>1, <1>4 DEF Holds
  <2>3. CASE k > Len(p)
    <3>1. k - Len(p) \in 1..Len(q) /\ q[k - Len(p)] = e
      BY <2>1, <2>3, <1>1, <1>4
    <3> QED BY <3>1 DEF Holds
  <2> QED BY <2>2, <2>3, <1>1
<1>8. ASSUME NEW e, Holds(p, e) PROVE Holds(log, e)
  <2>1. PICK k \in 1..Len(p) : p[k] = e
    BY <1>8 DEF Holds
  <2>2. k \in 1..Len(log) /\ log[k] = e
    BY <2>1, <1>1, <1>4
  <2> QED BY <2>2 DEF Holds
<1>9. ASSUME NEW e, Holds(q, e) PROVE Holds(log, e)
  <2>1. PICK k \in 1..Len(q) : q[k] = e
    BY <1>9 DEF Holds
  <2>2. Len(p) + k \in 1..Len(log) /\ log[Len(p) + k] = e
    BY <2>1, <1>1, <1>4
  <2> QED BY <2>2 DEF Holds
<1> QED BY <1>4, <1>6, <1>7, <1>8, <1>9

\* An index of a consecutive log, and the entry there.
LEMMA Position ==
  ASSUME NEW log \in Seq(Entry), Consecutive(log), NEW k \in 1..Len(log)
  PROVE  /\ Len(log) \in Nat /\ k \in Int
         /\ log[k] \in Entry /\ log[1] \in Entry
         /\ log[1].Index \in Int /\ log[k].Index \in Int
         /\ log[k].Index = log[1].Index + k - 1
<1>1. Len(log) \in Nat /\ k \in Int /\ 1 \in 1..Len(log)
  BY LenProperties
<1>2. log[k] \in Entry /\ log[1] \in Entry
  BY <1>1, ElementOfSeq
<1> QED BY <1>1, <1>2, EntryIndex DEF Consecutive

LEMMA HasHolds ==
  ASSUME NEW log, NEW i
  PROVE  Has(log, i) <=> \E e : Holds(log, e) /\ e.Index = i
BY DEF Has, Holds

-----------------------------------------------------------------------------
(***************************************************************************)
(* What storing a batch does to the storage.                               *)
(***************************************************************************)
LEMMA AppendedLog ==
  ASSUME entries \in Seq(Entry), Consecutive(entries),
         NEW new \in Seq(Entry), Consecutive(new), ~Gap(new),
         NEW log, log = Appended(new)
  PROVE  /\ log \in Seq(Entry) /\ Consecutive(log)
         /\ \A e : Holds(new, e) => Holds(log, e)
         /\ \A e : Holds(entries, e) /\ (new # <<>> => e.Index < new[1].Index) => Holds(log, e)
<1>1. CASE new = <<>>
  <2>1. log = entries /\ Len(new) = 0
    BY <1>1, EmptySeq DEF Appended
  <2> QED BY <2>1 DEF Holds
<1>2. CASE new # <<>> /\ entries = <<>>
  <2>1. log = new /\ Len(entries) = 0
    BY <1>2, EmptySeq DEF Appended
  <2> QED BY <2>1 DEF Holds
<1>3. CASE new # <<>> /\ entries # <<>>
  <2>1. 1 \in 1..Len(new) /\ 1 \in 1..Len(entries) /\ Len(entries) \in Nat
    BY <1>3, EmptySeq
  <2>2. entries[1].Index \in Int /\ new[1].Index \in Int
    BY <2>1, Position
  <2> DEFINE off == new[1].Index - entries[1].Index
  <2>3. off \in Int /\ off <= Len(entries) /\ Offset(new) = off
    BY <1>3, <2>1, <2>2 DEF Gap, Offset
  <2>4. CASE off < 0
    <3>1. log = new
      BY <1>3, <2>3, <2>4 DEF Appended
    <3>2. ASSUME NEW e, Holds(entries, e) PROVE ~(e.Index < new[1].Index)
      <4>1. PICK k \in 1..Len(entries) : entries[k] = e
        BY <3>2 DEF Holds
      <4>2. e.Index = entries[1].Index + k - 1 /\ k \in Int /\ k >= 1
        BY <4>1, Position
      <4> QED BY <4>2, <2>2, <2>4
    <3> QED BY <1>3, <3>1, <3>2
  <2>5. CASE off >= 0
    <3> DEFINE p == SubSeq(entries, 1, off)
    <3>1. log = p \o new
      BY <1>3, <2>3, <2>5 DEF Appended
    <3>2. /\ p \in Seq(Entry) /\ Consecutive(p) /\ Len(p) = off
          /\ \A k \in 1..Len(p) : p[k] = entries[1 + k - 1]
      <4>1. p = SubSeq(entries, 1, off) /\ 1 \in Int /\ 1 >= 1 /\ off \in Int /\ off <= Len(entries)
        BY <2>3
      <4> HIDE DEF p, off
      <4>2. p \in Seq(Entry) /\ Consecutive(p)
        BY <4>1, PartOf
      <4>3. 1 <= off + 1 => Len(p) = off - 1 + 1
        BY <4>1, PartOf
      <4>4. \A k \in 1..Len(p) : p[k] = entries[1 + k - 1]
        BY <4>1, PartOf
      <4> QED BY <4>1, <4>2, <4>3, <4>4, <2>5 DEF off
    <3> HIDE DEF p
    <3>3. \A k \in 1..Len(p) : p[k] = entries[k]
      BY <3>2, <2>3, <2>5
    <3>4. p # <<>> => new[1].Index = p[1].Index + Len(p)
      <4>1. SUFFICES ASSUME p # <<>> PROVE new[1].Index = p[1].Index + Len(p)
        OBVIOUS
      <4>2. 1 \in 1..Len(p)
        BY <3>2, <4>1, EmptySeq
      <4>3. p[1] = entries[1]
        BY <3>3, <4>2
      <4> QED BY <4>3, <3>2, <2>2
    <3>5. /\ log \in Seq(Entry) /\ Consecutive(log)
          /\ \A e : Holds(log, e) <=> Holds(p, e) \/ Holds(new, e)
      BY <3>1, <3>2, <3>4, Joined
    <3>6. ASSUME NEW e, Holds(entries, e), e.Index < new[1].Index PROVE Holds(p, e)
      <4>1. PICK k \in 1..Len(entries) : entries[k] = e
        BY <3>6 DEF Holds
      <4>2. e.Index = entries[1].Index + k - 1 /\ k \in Int /\ k >= 1
        BY <4>1, Position
      <4>3. k \in 1..Len(p)
        BY <4>2, <3>6, <3>2, <2>2, <2>3
      <4> QED BY <4>1, <4>3, <3>3 DEF Holds
    <3> QED BY <1>3, <3>5, <3>6
  <2> QED BY <2>3, <2>4, <2>5
<1> QED BY <1>1, <1>2, <1>3

LEMMA CompactedLog ==
  ASSUME NEW log \in Seq(Entry), Consecutive(log), NEW s \in Snapshot,
         NEW c, c = Compacted(log, s)
  PROVE  /\ c \in Seq(Entry) /\ Consecutive(c)
         /\ \A e : Holds(log, e) /\ (s # NoSnap => s.Index < e.Index) => Holds(c, e)
<1>1. CASE s = NoSnap \/ log = <<>> \/ log[1].Index > s.Index
  BY <1>1 DEF Compacted
<1>2. CASE s # NoSnap /\ log # <<>> /\ ~(log[1].Index > s.Index)
  <2>1. 1 \in 1..Len(log) /\ Len(log) \in Nat
    BY <1>2, EmptySeq
  <2>2. log[1].Index \in Int /\ s.Index \in Int
    BY <2>1, Position, RaftAssumption DEF Snapshot
  <2> DEFINE m == s.Index - log[1].Index + 2
  <2>3. m \in Int /\ m >= 2 /\ c = SubSeq(log, m, Len(log))
    <3>1. m \in Int /\ m >= 2
      BY <1>2, <2>2
    <3>2. c = SubSeq(log, m, Len(log))
      BY <1>2, Zenon DEF Compacted
    <3> QED BY <3>1, <3>2
  <2>4. /\ c \in Seq(Entry) /\ Consecutive(c)
        /\ m <= Len(log) + 1 => Len(c) = Len(log) - m + 1
        /\ \A k \in 1..Len(c) : c[k] = log[m + k - 1]
    <3>1. m \in Int /\ m >= 1 /\ Len(log) \in Int /\ Len(log) <= Len(log) /\ c = SubSeq(log, m, Len(log))
      BY <2>1, <2>3
    <3> HIDE DEF m
    <3>2. c \in Seq(Entry) /\ Consecutive(c)
      BY <3>1, PartOf
    <3>3. m <= Len(log) + 1 => Len(c) = Len(log) - m + 1
      BY <3>1, PartOf
    <3>4. \A k \in 1..Len(c) : c[k] = log[m + k - 1]
      BY <3>1, PartOf
    <3> QED BY <3>2, <3>3, <3>4
  <2>5. ASSUME NEW e, Holds(log, e), s.Index < e.Index PROVE Holds(c, e)
    <3>1. PICK k \in 1..Len(log) : log[k] = e
      BY <2>5 DEF Holds
    <3>2. e.Index = log[1].Index + k - 1 /\ k \in Int /\ k >= 1
      BY <3>1, Position
    <3>3. m <= k /\ k <= Len(log)
      BY <3>2, <2>2, <2>5, <2>1
    <3> DEFINE j == k - m + 1
    <3>4. j \in 1..Len(c) /\ m + j - 1 = k
      BY <3>2, <3>3, <2>1, <2>3, <2>4
    <3> HIDE DEF j, m
    <3>5. c[j] = e
      BY <3>1, <3>4, <2>4
    <3> QED BY <3>4, <3>5 DEF Holds
  <2> QED BY <1>2, <2>4, <2>5
<1> QED BY <1>1, <1>2

LEMMA StoredIsRead ==
  ASSUME entries \in Seq(Entry), Consecutive(entries), NEW e, Holds(entries, e)
  PROVE  e.Index \in FirstIndex..LastIndex /\ Entries(e.Index, e.Index + 1) = <<e>>
<1>1. PICK k \in 1..Len(entries) : entries[k] = e
  BY DEF Holds
<1>2. /\ Len(entries) \in Nat /\ k \in Int /\ e \in Entry
      /\ entries[1].Index \in Int /\ e.Index = entries[1].Index + k - 1
  BY <1>1, Position
<1>3. entries # <<>> /\ Len(entries) \in 1..Len(entries)
  BY <1>1, <1>2, EmptySeq
<1>4. FirstIndex = entries[1].Index /\ LastIndex = entries[1].Index + Len(entries) - 1
  <2>1. Last(entries).Index = entries[1].Index + Len(entries) - 1
    BY <1>3, Position DEF Last
  <2> QED BY <1>3, <2>1 DEF FirstIndex, LastIndex
<1>5. e.Index \in FirstIndex..LastIndex
  BY <1>2, <1>4
<1>6. e.Index - FirstIndex + 1 = k /\ (e.Index + 1) - FirstIndex = k
  BY <1>2, <1>4
<1> DEFINE one == SubSeq(entries, k, k)
<1>7. one \in Seq(Entry) /\ Len(one) = 1 /\ one[1] = entries[k]
  <2>1. \A i \in k..k : entries[i] \in Entry
    BY <1>1, <1>2
  <2>2. /\ one \in Seq(Entry)
        /\ Len(one) = IF k <= k THEN k - k + 1 ELSE 0
        /\ \A i \in 1..(k - k + 1) : one[i] = entries[k + i - 1]
    BY <1>2, <2>1, SubSeqProperties
  <2> QED BY <1>2, <2>2
<1>8. one = <<e>>
  <2>1. <<e>> \in Seq(Entry) /\ Len(<<e>>) = 1 /\ <<e>>[1] = e
    BY <1>2
  <2> HIDE DEF one
  <2>2. \A i \in 1..Len(one) : one[i] = <<e>>[i]
    BY <1>1, <1>7, <2>1
  <2> QED BY <1>7, <2>1, <2>2, SeqEqual
<1>9. ~(e.Index < FirstIndex) /\ ~(e.Index + 1 > FirstIndex + Len(entries))
  BY <1>2, <1>4
<1> QED BY <1>3, <1>5, <1>6, <1>8, <1>9 DEF Entries

-----------------------------------------------------------------------------
(***************************************************************************)
(* The committed entries of a batch: their indexes are those from the      *)
(* first to be applied to the last committed, and they are read from where *)
(* the library keeps them.                                                 *)
(***************************************************************************)
First == IF unstable.Snapshot.Index > applied THEN unstable.Snapshot.Index + 1 ELSE applied + 1

LEMMA CommittedLog ==
  ASSUME LogInv, Readable, NEW ents, ents = Committed
  PROVE  /\ ents \in Seq(Entry)
         /\ \A k \in 1..Len(ents) : ents[k].Index = First + k - 1
         /\ commit < First => Len(ents) = 0
         /\ commit >= First => Len(ents) = commit - First + 1
         /\ \A k \in 1..Len(ents) :
              IF First + k - 1 < unstable.offset THEN Holds(entries, ents[k])
                                                 ELSE Holds(unstable.Entries, ents[k])
<1> DEFINE U == unstable.Entries
           off == unstable.offset
<1>1. /\ entries \in Seq(Entry) /\ Consecutive(entries) /\ U \in Seq(Entry)
      /\ off \in Int /\ off >= 1 /\ commit \in Int /\ applied \in Int /\ First \in Int /\ First >= 1
      /\ Len(U) \in Nat /\ commit < off + Len(U) /\ Len(entries) \in Nat
  <2>1. entries \in Seq(Entry) /\ Consecutive(entries) /\ U \in Seq(Entry)
    BY DEF LogInv, TypeOK, StorageInv
  <2>2. /\ off \in Int /\ off >= 1 /\ commit \in Int /\ applied \in Int /\ applied >= 0
        /\ unstable.Snapshot.Index \in Int /\ unstable.Snapshot.Index >= 0
    BY RaftAssumption DEF LogInv, TypeOK, Snapshot
  <2>3. First \in Int /\ First >= 1
    BY <2>2 DEF First
  <2>4. Len(U) \in Nat /\ commit < off + Len(U) /\ Len(entries) \in Nat
    BY <2>1, LenProperties DEF LogInv, UnstableInv, UnstableEnd
  <2> QED BY <2>1, <2>2, <2>3, <2>4
<1>2. \A k \in 1..Len(U) : U[k].Index = off + k - 1 /\ U[k] \in Entry
  BY <1>1, ElementOfSeq DEF LogInv, UnstableInv
<1>3. \A i \in Int : First <= i /\ i < off => Has(entries, i)
  BY RaftAssumption, SMTT(20) DEF First, Readable, LogInv, TypeOK, Snapshot
<1> HIDE DEF U, off
<1>4. CASE commit < First
  <2>1. ents = <<>>
    BY <1>4 DEF Committed, First
  <2> QED BY <1>1, <1>4, <2>1, EmptySeq
<1>5. CASE commit >= First
  <2> DEFINE cut == IF commit < off THEN commit + 1 ELSE off
             lo2 == IF First > off THEN First ELSE off
             A == IF First < cut THEN Entries(First, cut) ELSE <<>>
             B == SubSeq(U, lo2 - off + 1, commit - off + 1)
  <2>1. ents = A \o B
    <3>1. ents = LibEntries(First, commit)
      BY <1>1, <1>5 DEF Committed, First
    <3>2. LibEntries(First, commit) = A \o B
      BY Zenon DEF LibEntries, U, off
    <3> QED BY <3>1, <3>2, Zenon
  <2>2. cut \in Int /\ lo2 \in Int /\ cut <= off /\ lo2 >= off /\ lo2 >= First /\ cut <= commit + 1
    BY <1>1
  <2>3. /\ A \in Seq(Entry) /\ Len(A) \in Nat
        /\ First < cut => Len(A) = cut - First
        /\ First >= cut => Len(A) = 0
        /\ \A k \in 1..Len(A) : A[k].Index = First + k - 1 /\ Holds(entries, A[k])
    <3>1. CASE First >= cut
      <4>1. A = <<>>
        BY <3>1, <1>1, <2>2
      <4> HIDE DEF A
      <4> QED BY <3>1, <4>1, <1>1, <2>2, EmptySeq
    <3>2. CASE First < cut
      <4>1. Has(entries, First) /\ Has(entries, cut - 1)
        BY <3>2, <1>1, <1>3, <2>2
      <4>2. PICK j \in 1..Len(entries) : entries[j].Index = First
        BY <4>1 DEF Has
      <4>3. PICK h \in 1..Len(entries) : entries[h].Index = cut - 1
        BY <4>1 DEF Has
      <4> DEFINE f == entries[1].Index
      <4> HIDE DEF cut
      <4>4. /\ f \in Int /\ j \in Int /\ h \in Int /\ First = f + j - 1 /\ cut - 1 = f + h - 1
            /\ j <= h /\ j >= 1 /\ h <= Len(entries)
        <5>1. f \in Int /\ j \in Int /\ entries[j].Index = f + j - 1
          BY <1>1, Position
        <5>2. h \in Int /\ entries[h].Index = f + h - 1
          BY <1>1, Position
        <5> HIDE DEF f
        <5> QED BY <5>1, <5>2, <4>2, <4>3, <3>2, <2>2, <1>1
      <4>5. FirstIndex = f
        BY <4>2, <1>1, EmptySeq DEF FirstIndex
      <4>6. A = SubSeq(entries, j, h)
        <5> HIDE DEF f
        <5>1. First - FirstIndex + 1 = j /\ cut - FirstIndex = h
          BY <4>4, <4>5, <2>2, <1>1
        <5>2. entries # <<>> /\ ~(First < FirstIndex) /\ ~(cut > FirstIndex + Len(entries))
          BY <4>2, <4>4, <4>5, <2>2, <1>1, EmptySeq
        <5> QED BY <5>1, <5>2, <3>2 DEF Entries
      <4> HIDE DEF A, f, cut
      <4>7. A \in Seq(Entry)
        BY <4>4, <4>6, <1>1, PartOf
      <4>8. j <= h + 1 => Len(A) = h - j + 1
        BY <4>4, <4>6, <1>1, PartOf
      <4>9. \A k \in 1..Len(A) : A[k] = entries[j + k - 1]
        BY <4>4, <4>6, <1>1, PartOf
      <4>10. Len(A) = cut - First
        BY <4>4, <4>8, <2>2, <1>1
      <4>11. ASSUME NEW k \in 1..Len(A) PROVE A[k].Index = First + k - 1 /\ Holds(entries, A[k])
        <5>1. k \in Int /\ j + k - 1 \in 1..Len(entries)
          BY <4>4, <4>8, <4>10, <2>2, <1>1
        <5>2. A[k] = entries[j + k - 1]
          BY <4>9
        <5>3. entries[j + k - 1].Index = f + (j + k - 1) - 1
          BY <5>1, <1>1, Position DEF f
        <5>4. Holds(entries, A[k])
          BY <5>1, <5>2 DEF Holds
        <5>5. A[k].Index = f + (j + k - 1) - 1
          BY <5>2, <5>3, Zenon
        <5>6. f + (j + k - 1) - 1 = First + k - 1
          BY <5>1, <4>4
        <5> QED BY <5>4, <5>5, <5>6, Zenon
      <4> QED BY <3>2, <4>7, <4>10, <4>11, <2>2, <1>1
    <3> QED BY <3>1, <3>2, <2>2, <1>1
  <2>4. /\ B \in Seq(Entry) /\ Len(B) \in Nat
        /\ commit >= lo2 => Len(B) = commit - lo2 + 1
        /\ commit < lo2 => Len(B) = 0
        /\ \A k \in 1..Len(B) : B[k].Index = lo2 + k - 1 /\ Holds(U, B[k])
    <3> DEFINE m == lo2 - off + 1
               n == commit - off + 1
    <3>1. m \in Int /\ n \in Int /\ m >= 1 /\ n <= Len(U)
      BY <1>1, <2>2
    <3>2. \A i \in m..n : U[i] \in Entry
      BY <3>1, <1>2
    <3>3. /\ B \in Seq(Entry)
          /\ Len(B) = IF m <= n THEN n - m + 1 ELSE 0
          /\ \A i \in 1..(n - m + 1) : B[i] = U[m + i - 1]
      <4> HIDE DEF m, n, U
      <4>1. B = SubSeq(U, m, n)
        BY DEF m, n
      <4> HIDE DEF B
      <4> QED BY <3>1, <3>2, <4>1, SubSeqProperties
    <3>4. /\ commit >= lo2 => Len(B) = commit - lo2 + 1
          /\ commit < lo2 => Len(B) = 0
      <4> HIDE DEF B, lo2, U
      <4> QED BY <3>3, <1>1, <2>2
    <3>5. ASSUME NEW k \in 1..Len(B) PROVE B[k].Index = lo2 + k - 1 /\ Holds(U, B[k])
      <4> HIDE DEF B, lo2, U
      <4>1. k \in Int /\ k \in 1..(n - m + 1) /\ m + k - 1 \in 1..Len(U)
        BY <3>1, <3>3
      <4>2. B[k] = U[m + k - 1] /\ U[m + k - 1].Index = off + (m + k - 1) - 1
        BY <4>1, <3>3, <1>2
      <4>3. off + (m + k - 1) - 1 = lo2 + k - 1
        BY <4>1, <1>1, <2>2
      <4> QED BY <4>1, <4>2, <4>3 DEF Holds
    <3> HIDE DEF B, lo2, U
    <3> QED BY <3>3, <3>4, <3>5, <1>1, <2>2
  <2> HIDE DEF A, B
  <2> DEFINE a == Len(A)
             b == Len(B)
  <2>l. /\ a \in Int /\ (First < cut => a = cut - First) /\ (First >= cut => a = 0)
        /\ b \in Int /\ (commit >= lo2 => b = commit - lo2 + 1) /\ (commit < lo2 => b = 0)
    BY <2>3, <2>4
  <2> HIDE DEF a, b
  <2>5. /\ ents \in Seq(Entry) /\ Len(ents) = Len(A) + Len(B)
        /\ \A k \in 1..(Len(A) + Len(B)) : ents[k] = IF k <= Len(A) THEN A[k] ELSE B[k - Len(A)]
    BY <2>1, <2>3, <2>4, ConcatProperties
  <2>6. Len(ents) = commit - First + 1
    <3>1. CASE commit < off
      <4>1. cut = commit + 1 /\ lo2 >= off
        BY <3>1, <2>2
      <4> HIDE DEF cut, lo2
      <4>2. a + b = commit - First + 1
        BY <3>1, <4>1, <2>2, <2>l, <1>1, <1>5
      <4> QED BY <4>2, <2>5 DEF a, b
    <3>2. CASE commit >= off
      <4>1. cut = off /\ lo2 = (IF First > off THEN First ELSE off)
        BY <3>2, <1>1
      <4> HIDE DEF cut, lo2
      <4>2. a + b = commit - First + 1
        BY <3>2, <4>1, <2>2, <2>l, <1>1, <1>5
      <4> QED BY <4>2, <2>5 DEF a, b
    <3> QED BY <3>1, <3>2, <1>1
  <2>7. ASSUME NEW k \in 1..Len(ents)
        PROVE  /\ ents[k].Index = First + k - 1
               /\ First + k - 1 < off => Holds(entries, ents[k])
               /\ ~(First + k - 1 < off) => Holds(U, ents[k])
    <3>1. k \in Int /\ k >= 1 /\ k <= Len(A) + Len(B)
      BY <2>3, <2>4, <2>5
    <3>2. CASE k <= Len(A)
      <4>1. ents[k] = A[k] /\ k \in 1..Len(A)
        BY <3>1, <3>2, <2>3, <2>4, <2>5
      <4>2. First + k - 1 < off
        BY <3>1, <3>2, <2>2, <2>3, <1>1
      <4> QED BY <4>1, <4>2, <2>3
    <3>3. CASE k > Len(A)
      <4>1. ents[k] = B[k - Len(A)] /\ k - Len(A) \in 1..Len(B)
        BY <3>1, <3>3, <2>3, <2>4, <2>5
      <4>2. lo2 + (k - Len(A)) - 1 = First + k - 1 /\ First + k - 1 >= off
        <5>1. commit >= lo2
          BY <4>1, <2>2, <2>4, <1>1
        <5>2. commit >= off /\ cut = off
          BY <5>1, <2>2, <1>1
        <5>3. lo2 = (IF First > off THEN First ELSE off)
          OBVIOUS
        <5> HIDE DEF cut, lo2
        <5>4. lo2 + (k - a) - 1 = First + k - 1 /\ First + k - 1 >= off
          <6>1. k > a
            BY <3>3 DEF a
          <6> QED BY <6>1, <5>2, <5>3, <3>1, <2>2, <2>l, <1>1
        <5> QED BY <5>4 DEF a
      <4>3. B[k - Len(A)].Index = lo2 + (k - Len(A)) - 1 /\ Holds(U, B[k - Len(A)])
        BY <4>1, <2>4
      <4> QED BY <3>1, <4>1, <4>2, <4>3, <1>1
    <3> QED BY <3>1, <3>2, <3>3, <2>3
  <2>8. \A k \in 1..Len(ents) : IF First + k - 1 < off THEN Holds(entries, ents[k]) ELSE Holds(U, ents[k])
    BY <2>7
  <2>9. (commit < First => Len(ents) = 0) /\ (commit >= First => Len(ents) = commit - First + 1)
    BY <1>1, <1>5, <2>6
  <2> QED BY <2>5, <2>7, <2>8, <2>9 DEF U, off
<1> QED BY <1>1, <1>4, <1>5

LEMMA CommandsOf ==
  ASSUME NEW ents \in Seq(Entry), NEW c, c = Commands(ents)
  PROVE  /\ c \in Seq(Message) /\ Len(c) = Len(ents)
         /\ \A k \in 1..Len(ents) : c[k].Index = ents[k].Index /\ c[k].kind \in {"command", "empty"}
         /\ \A k \in 1..Len(ents) : ~ents[k].empty => c[k] = Command(ents[k].Index)
<1>1. Len(ents) \in Nat /\ \A k \in 1..Len(ents) : ents[k] \in Entry
  BY LenProperties, ElementOfSeq
<1>2. ASSUME NEW k \in 1..Len(ents)
      PROVE  /\ c[k] \in Message /\ c[k].Index = ents[k].Index /\ c[k].kind \in {"command", "empty"}
             /\ ~ents[k].empty => c[k] = Command(ents[k].Index)
  <2>1. c[k] = [kind |-> IF ents[k].empty THEN "empty" ELSE "command", Index |-> ents[k].Index]
    BY DEF Commands
  <2>2. ents[k].Index \in 0..MaxIndex
    BY <1>1, EntryIndex, RaftAssumption
  <2>3. CASE ents[k].empty
    BY <2>1, <2>2, <2>3 DEF Message, Command
  <2>4. CASE ~ents[k].empty
    BY <2>1, <2>2, <2>4 DEF Message, Command
  <2> QED BY <2>3, <2>4
<1>3. DOMAIN c = 1..Len(ents)
  BY DEF Commands
<1>4. c \in [1..Len(ents) -> Message]
  <2>1. c = [k \in 1..Len(ents) |-> c[k]]
    BY DEF Commands
  <2> QED BY <2>1, <1>2
<1>5. c \in Seq(Message)
  BY <1>1, <1>4, SeqDef
<1>6. Len(c) = Len(ents)
  BY <1>1, <1>3, <1>5, LenProperties
<1> QED BY <1>2, <1>5, <1>6

LEMMA MessagesOf ==
  ASSUME NEW s \in Snapshot, NEW ents \in Seq(Entry), NEW from \in Int,
         \A k \in 1..Len(ents) : ents[k].Index = from + k - 1,
         s # NoSnap => s.Index < from,
         NEW m, m = Messages(s, ents)
  PROVE  /\ m \in Seq(Message)
         /\ \A j, k \in 1..Len(m) : j < k => m[j].Index < m[k].Index
         /\ \A k \in 1..Len(m) : \/ s # NoSnap /\ m[k].Index = s.Index
                                 \/ m[k].Index >= from /\ Has(ents, m[k].Index)
         /\ \A e : Holds(ents, e) /\ ~e.empty => \E k \in 1..Len(m) : m[k] = Command(e.Index)
<1> DEFINE p == SnapshotMsg(s)
           q == Commands(ents)
<1>1. /\ q \in Seq(Message) /\ Len(q) = Len(ents) /\ Len(ents) \in Nat
      /\ \A k \in 1..Len(ents) : q[k].Index = ents[k].Index
      /\ \A k \in 1..Len(ents) : ~ents[k].empty => q[k] = Command(ents[k].Index)
  BY CommandsOf, LenProperties
<1>2. s.Index \in Int /\ s.Index \in 0..MaxIndex
  BY RaftAssumption DEF Snapshot
<1>3. /\ p \in Seq(Message) /\ Len(p) \in {0, 1} /\ (Len(p) = 1 => s # NoSnap /\ p[1].Index = s.Index)
  <2>1. CASE s = NoSnap
    <3>1. p = <<>>
      BY <2>1 DEF SnapshotMsg
    <3> HIDE DEF p
    <3> QED BY <3>1, EmptySeq
  <2>2. CASE s # NoSnap
    <3>1. p = <<[kind |-> "snapshot", Index |-> s.Index]>>
      BY <2>2 DEF SnapshotMsg
    <3>2. [kind |-> "snapshot", Index |-> s.Index] \in Message
      BY <1>2 DEF Message
    <3> HIDE DEF p
    <3> QED BY <2>2, <3>1, <3>2
  <2> QED BY <2>1, <2>2
<1>4. m = p \o q
  BY DEF Messages
<1> HIDE DEF p, q
<1>5. /\ m \in Seq(Message) /\ Len(m) = Len(p) + Len(q)
      /\ \A k \in 1..(Len(p) + Len(q)) : m[k] = IF k <= Len(p) THEN p[k] ELSE q[k - Len(p)]
  <2>1. p \in Seq(Message) /\ q \in Seq(Message)
    BY <1>1, <1>3
  <2> QED BY <2>1, <1>4, ConcatProperties
<1>6. ASSUME NEW k \in 1..Len(m)
      PROVE  \/ /\ k = 1 /\ Len(p) = 1 /\ s # NoSnap /\ m[k].Index = s.Index
             \/ /\ k > Len(p) /\ k - Len(p) \in 1..Len(ents)
                /\ m[k] = q[k - Len(p)] /\ m[k].Index = from + (k - Len(p)) - 1
                /\ Has(ents, m[k].Index)
  <2>1. k \in Int /\ k >= 1 /\ k <= Len(p) + Len(q)
    BY <1>1, <1>3, <1>5
  <2>2. CASE k <= Len(p)
    BY <2>1, <2>2, <1>3, <1>5
  <2>3. CASE k > Len(p)
    <3> DEFINE i == k - Len(p)
    <3>1. i \in 1..Len(ents) /\ m[k] = q[i]
      BY <2>1, <2>3, <1>1, <1>3, <1>5
    <3> HIDE DEF i
    <3>2. m[k].Index = ents[i].Index /\ ents[i].Index = from + i - 1
      BY <3>1, <1>1
    <3>3. Has(ents, m[k].Index)
      BY <3>1, <3>2 DEF Has
    <3> QED BY <2>3, <3>1, <3>2, <3>3 DEF i
  <2> QED BY <2>1, <2>2, <2>3, <1>3
<1>7. ASSUME NEW j \in 1..Len(m), NEW k \in 1..Len(m), j < k PROVE m[j].Index < m[k].Index
  <2>1. k \in Int /\ j \in Int /\ j >= 1
    BY <1>1, <1>3, <1>5
  <2>2. k # 1
    BY <2>1, <1>7
  <2>3. m[k].Index = from + (k - Len(p)) - 1 /\ k > Len(p)
    BY <2>2, <1>6, Zenon
  <2>4. CASE j = 1 /\ Len(p) = 1 /\ s # NoSnap /\ m[j].Index = s.Index
    BY <2>1, <2>3, <2>4, <1>2
  <2>5. CASE m[j].Index = from + (j - Len(p)) - 1
    BY <2>1, <2>3, <2>5, <1>3, <1>7
  <2> QED BY <2>4, <2>5, <1>6
<1>8. ASSUME NEW k \in 1..Len(m)
      PROVE  \/ s # NoSnap /\ m[k].Index = s.Index
             \/ m[k].Index >= from /\ Has(ents, m[k].Index)
  <2>1. k \in Int /\ Len(p) \in Int
    BY <1>1, <1>3, <1>5
  <2> QED BY <2>1, <1>6
<1>9. ASSUME NEW e, Holds(ents, e), ~e.empty PROVE \E k \in 1..Len(m) : m[k] = Command(e.Index)
  <2>1. PICK i \in 1..Len(ents) : ents[i] = e
    BY <1>9 DEF Holds
  <2> DEFINE k == Len(p) + i
  <2>2. k \in 1..(Len(p) + Len(q)) /\ ~(k <= Len(p)) /\ k - Len(p) = i
    BY <2>1, <1>1, <1>3
  <2> HIDE DEF k
  <2>3. k \in 1..Len(m) /\ m[k] = q[i]
    BY <2>2, <1>5
  <2>4. q[i] = Command(e.Index)
    BY <2>1, <1>1, <1>9
  <2> QED BY <2>3, <2>4
<1> QED BY <1>5, <1>7, <1>8, <1>9

-----------------------------------------------------------------------------
(***************************************************************************)
(* Steps that leave the logs and the batch alone.                          *)
(***************************************************************************)
batchVars == <<storageVars, unstable, commit, applied, node, ready, toApply, sent>>

LEMMA Numbers ==
  ASSUME TypeOK
  PROVE  /\ MaxIndex \in Nat /\ commit \in Int /\ applied \in Int
         /\ applied >= 0 /\ applied <= commit /\ commit <= MaxIndex
         /\ unstable.offset \in Int /\ unstable.offset >= 1 /\ unstable.offset <= MaxIndex + 1
         /\ unstable.Entries \in Seq(Entry) /\ Len(unstable.Entries) \in Nat
         /\ unstable.Snapshot \in Snapshot
         /\ unstable.Snapshot.Index \in Int /\ unstable.Snapshot.Index >= 0
         /\ entries \in Seq(Entry) /\ Len(entries) \in Nat
         /\ snapshot \in Snapshot
<1>1. unstable.Entries \in Seq(Entry) /\ entries \in Seq(Entry)
  BY DEF TypeOK
<1>2. Len(unstable.Entries) \in Nat /\ Len(entries) \in Nat
  BY <1>1, LenProperties
<1> QED BY <1>1, <1>2, RaftAssumption DEF TypeOK, Snapshot

LEMMA ReadyNumbers ==
  ASSUME MessageType
  PROVE  /\ ready.Entries \in Seq(Entry) /\ Len(ready.Entries) \in Nat
         /\ ready.Snapshot \in Snapshot /\ ready.Snapshot.Index \in Int /\ ready.Snapshot.Index >= 0
         /\ ready.Applied \in Int /\ ready.Applied >= 0 /\ ready.Applied <= MaxIndex
         /\ ready.Entries # <<>> =>
              Last(ready.Entries) \in Entry /\ Last(ready.Entries).Index \in Int
                /\ Last(ready.Entries).Index >= 1 /\ Last(ready.Entries).Index <= MaxIndex
<1>1. ready.Entries \in Seq(Entry) /\ ready.Snapshot \in Snapshot /\ ready.Applied \in 0..MaxIndex
  BY DEF MessageType, Batch
<1>2. Len(ready.Entries) \in Nat
  BY <1>1, LenProperties
<1>3. ASSUME ready.Entries # <<>> PROVE Last(ready.Entries) \in Entry
  <2>1. Len(ready.Entries) \in 1..Len(ready.Entries)
    BY <1>1, <1>3, EmptySeq
  <2> QED BY <1>1, <2>1, ElementOfSeq DEF Last
<1> QED BY <1>1, <1>2, <1>3, EntryIndex, RaftAssumption DEF Snapshot

LEMMA QuietKeeps ==
  ASSUME UnstableInv, StorageInv, BatchesInv, UNCHANGED batchVars
  PROVE  UnstableInv' /\ StorageInv' /\ BatchesInv'
<1> USE DEF batchVars, storageVars
<1>1. UnstableInv'
  BY DEF UnstableInv, UnstableEnd
<1>2. StorageInv'
  BY DEF StorageInv, Consecutive, Holds
<1>3. Readable' /\ ReadyStored'
  BY DEF BatchesInv, Readable, ReadyStored, Has, Last
<1>4. BatchInv' /\ OrderInv'
  BY DEF BatchesInv, BatchInv, OrderInv, AppliedInOrder
<1>5. CompleteInv'
  BY DEF BatchesInv, CompleteInv, Known, Holds, Sent, Pending
<1> QED BY <1>1, <1>2, <1>3, <1>4, <1>5 DEF BatchesInv

\* The run loop has ended.
LEMMA EndKeeps ==
  ASSUME TypeOK, UnstableInv, StorageInv, BatchesInv,
         UNCHANGED <<storageVars, unstable, commit, applied, sent>>,
         node' \in {"panicked", "done"}, toApply' = <<>>
  PROVE  UnstableInv' /\ StorageInv' /\ BatchesInv'
<1> USE DEF storageVars
<1>1. UnstableInv'
  BY DEF UnstableInv, UnstableEnd
<1>2. StorageInv'
  BY DEF StorageInv, Consecutive, Holds
<1>3. Readable' /\ ReadyStored'
  BY DEF BatchesInv, Readable, ReadyStored, Has
<1>4. BatchInv'
  BY DEF BatchInv
<1>5. OrderInv'
  <2>1. Len(toApply') = 0
    BY EmptySeq
  <2>2. AppliedInOrder'
    BY DEF BatchesInv, OrderInv, AppliedInOrder
  <2> QED BY <2>1, <2>2 DEF OrderInv
<1>6. CompleteInv'
  BY DEF CompleteInv
<1> QED BY <1>1, <1>2, <1>3, <1>4, <1>5, <1>6 DEF BatchesInv

-----------------------------------------------------------------------------
(***************************************************************************)
(* The library's steps: they concern only what is not committed.           *)
(***************************************************************************)
LEMMA LibraryKeeps ==
  ASSUME RaftInv,
         UNCHANGED <<storageVars, applied, node, ready, toApply, sent>>,
         commit' \in Int, commit' >= commit, UnstableInv', TypeOK',
         \/ /\ unstable'.Snapshot = unstable.Snapshot
            /\ unstable'.offset <= unstable.offset
         \/ /\ unstable'.Snapshot.Index > commit
            /\ unstable'.offset = unstable'.Snapshot.Index + 1,
         \A x \in Entry : Holds(unstable.Entries, x)' => Holds(unstable.Entries, x) \/ x.Index > commit
  PROVE  UnstableInv' /\ StorageInv' /\ BatchesInv'
<1> USE DEF storageVars
<1> TypeOK /\ MessageType /\ BatchesInv /\ StorageInv
  BY DEF RaftInv, LogInv
<1>n. /\ commit \in Int /\ applied \in Int /\ applied <= commit /\ ready.Applied \in Int
      /\ unstable.offset \in Int /\ unstable.Snapshot.Index \in Int
      /\ unstable'.offset \in Int /\ unstable'.Snapshot.Index \in Int
  <2>1. TypeOK => unstable.offset \in Int /\ unstable.Snapshot.Index \in Int
    BY Numbers
  <2>2. unstable'.offset \in Int /\ unstable'.Snapshot.Index \in Int
    BY <2>1, RaftAssumption DEF TypeOK, Snapshot
  <2> QED BY <2>2, Numbers, ReadyNumbers
<1>2. StorageInv'
  BY DEF StorageInv, Consecutive, Holds
<1>3. Readable'
  <2> SUFFICES ASSUME NEW i \in Nat, applied' < i, unstable'.Snapshot.Index < i, i < unstable'.offset
               PROVE  Has(entries, i)'
    BY DEF Readable
  <2>1. applied < i /\ unstable.Snapshot.Index < i /\ i < unstable.offset
    BY <1>n
  <2>2. Has(entries, i)
    BY <2>1 DEF Readable, BatchesInv
  <2> QED BY <2>2 DEF Has
<1>4. ReadyStored'
  BY DEF BatchesInv, ReadyStored, Has, Last
<1>5. BatchInv'
  BY <1>n DEF BatchesInv, BatchInv
<1>6. OrderInv'
  BY DEF BatchesInv, OrderInv, AppliedInOrder
<1>7. CompleteInv'
  <2> SUFFICES ASSUME NEW e \in Entry, Known(e)', ~e.empty
               PROVE  /\ node' = "select" /\ e.Index <= applied' => Sent(e.Index)'
                      /\ node' = "applying" /\ e.Index <= ready'.Applied => (Sent(e.Index) \/ Pending(e.Index))'
    BY DEF CompleteInv
  <2>0. e.Index \in Int
    BY EntryIndex
  <2>1. CASE e.Index > commit
    <3>1. node' = "applying" => ready'.Applied <= commit
      BY DEF BatchesInv, BatchInv
    <3> QED BY <2>0, <2>1, <3>1, <1>n
  <2>2. CASE Known(e)
    BY <2>2 DEF BatchesInv, CompleteInv, Sent, Pending
  <2>3. Known(e) \/ e.Index > commit
    BY DEF Known
  <2> QED BY <2>1, <2>2, <2>3
<1> QED BY <1>2, <1>3, <1>4, <1>5, <1>6, <1>7 DEF BatchesInv

\* The unstable log after LibAppend: its end is the new entry.
LEMMA AppendUnstable ==
  ASSUME TypeOK, UnstableInv, NEW i \in 1..MaxIndex, NEW t \in 1..MaxTerm, LibAppend(i, t)
  PROVE  /\ i > commit
         /\ unstable' \in [offset : 1..(MaxIndex + 1), Entries : Seq(Entry), Snapshot : Snapshot]
         /\ unstable'.Snapshot = unstable.Snapshot
         /\ unstable'.offset <= unstable.offset /\ unstable'.offset <= i
         /\ unstable'.offset = unstable.offset \/ unstable'.offset = i
         /\ unstable'.offset + Len(unstable'.Entries) = i + 1
         /\ \A k \in 1..Len(unstable'.Entries) : unstable'.Entries[k].Index = unstable'.offset + k - 1
         /\ \A x \in Entry : Holds(unstable.Entries, x)' => Holds(unstable.Entries, x) \/ x.Index = i
<1> DEFINE U == unstable.Entries
           off == unstable.offset
           e == [Index |-> i, Term |-> t, empty |-> t # LibTerm(i - 1)]
<1>1. /\ i \in Int /\ commit \in Int /\ off \in Int /\ off >= 1 /\ off <= MaxIndex + 1 /\ MaxIndex \in Nat
      /\ U \in Seq(Entry) /\ Len(U) \in Nat /\ i <= off + Len(U) /\ i > commit
  <2>1. i \in (commit + 1)..(LibLast + 1) /\ i <= UnstableEnd
    BY DEF LibAppend
  <2> QED BY <2>1, Numbers DEF UnstableEnd
<1>2. e \in Entry /\ e.Index = i
  BY DEF Entry
<1>3. unstable' = IF i <= off THEN [unstable EXCEPT !.offset = i, !.Entries = <<e>>]
                  ELSE [unstable EXCEPT !.Entries = Append(SubSeq(@, 1, i - off), e)]
  BY DEF LibAppend
<1>4. unstable \in [offset : 1..(MaxIndex + 1), Entries : Seq(Entry), Snapshot : Snapshot]
  BY DEF TypeOK
<1> HIDE DEF e
<1>5. CASE i <= off
  <2>1. <<e>> \in Seq(Entry) /\ Len(<<e>>) = 1 /\ <<e>>[1] = e
    BY <1>2
  <2>2. unstable' = [unstable EXCEPT !.offset = i, !.Entries = <<e>>]
    BY <1>3, <1>5
  <2>3. /\ unstable' \in [offset : 1..(MaxIndex + 1), Entries : Seq(Entry), Snapshot : Snapshot]
        /\ unstable'.offset = i /\ unstable'.Entries = <<e>> /\ unstable'.Snapshot = unstable.Snapshot
    <3>1. i \in 1..(MaxIndex + 1)
      BY <1>1
    <3>2. \A x \in Seq(Entry) :
            LET u == [unstable EXCEPT !.offset = i, !.Entries = x]
            IN  /\ u \in [offset : 1..(MaxIndex + 1), Entries : Seq(Entry), Snapshot : Snapshot]
                /\ u.offset = i /\ u.Entries = x /\ u.Snapshot = unstable.Snapshot
      BY <3>1, <1>4
    <3> QED BY <3>2, <2>1, <2>2
  <2>4. \A k \in 1..Len(unstable'.Entries) : unstable'.Entries[k].Index = unstable'.offset + k - 1
    BY <2>1, <2>3, <1>1, <1>2
  <2>5. \A x \in Entry : Holds(unstable.Entries, x)' => x.Index = i
    BY <2>1, <2>3, <1>2 DEF Holds
  <2> QED BY <2>1, <2>3, <2>4, <2>5, <1>1, <1>5
<1>6. CASE i > off
  <2> DEFINE p == SubSeq(U, 1, i - off)
             q == Append(p, e)
  <2>1. \A k \in 1..(i - off) : U[k] \in Entry
    BY <1>1, ElementOfSeq
  <2>2. p \in Seq(Entry) /\ Len(p) = i - off /\ \A k \in 1..(i - off) : p[k] = U[k]
    <3> DEFINE n == i - off
    <3>1. n \in Int /\ n >= 1 /\ 1 \in Int /\ \A k \in 1..n : U[k] \in Entry
      BY <2>1, <1>1, <1>6
    <3>2. p = SubSeq(U, 1, n)
      OBVIOUS
    <3> HIDE DEF n, p, U
    <3>3. /\ p \in Seq(Entry)
          /\ Len(p) = IF 1 <= n THEN n - 1 + 1 ELSE 0
          /\ \A k \in 1..(n - 1 + 1) : p[k] = U[1 + k - 1]
      BY <3>1, <3>2, SubSeqProperties
    <3>4. Len(p) = n /\ \A k \in 1..n : p[k] = U[k]
      BY <3>1, <3>3
    <3> QED BY <3>3, <3>4 DEF n
  <2> HIDE DEF p
  <2>3. /\ q \in Seq(Entry) /\ Len(q) = i - off + 1
        /\ \A k \in 1..(i - off) : q[k] = U[k]
        /\ q[i - off + 1] = e
    <3>1. /\ q \in Seq(Entry) /\ Len(q) = Len(p) + 1
          /\ \A k \in 1..Len(p) : q[k] = p[k]
          /\ q[Len(p) + 1] = e
      BY <2>2, <1>2, AppendProperties
    <3> HIDE DEF q
    <3> QED BY <2>2, <3>1
  <2>4. unstable' = [unstable EXCEPT !.Entries = q]
    BY <1>1, <1>3, <1>6 DEF p
  <2> HIDE DEF q
  <2>5. /\ unstable' \in [offset : 1..(MaxIndex + 1), Entries : Seq(Entry), Snapshot : Snapshot]
        /\ unstable'.offset = off /\ unstable'.Entries = q /\ unstable'.Snapshot = unstable.Snapshot
    BY <2>3, <2>4, <1>4
  <2>6. ASSUME NEW k \in 1..Len(q) PROVE q[k].Index = off + k - 1 /\ (k = i - off + 1 \/ Holds(U, q[k]))
    <3>1. CASE k = i - off + 1
      BY <3>1, <2>3, <1>1, <1>2
    <3>2. CASE k # i - off + 1
      <4>1. k \in 1..(i - off) /\ k \in 1..Len(U)
        <5>1. k \in 1..(i - off + 1)
          BY <2>3
        <5>2. i \in Int /\ off \in Int /\ Len(U) \in Nat /\ i - off <= Len(U)
          BY <1>1
        <5> HIDE DEF U, off
        <5> QED BY <5>1, <5>2, <3>2
      <4>2. q[k] = U[k] /\ U[k].Index = off + k - 1
        BY <4>1, <2>3 DEF UnstableInv
      <4> QED BY <4>1, <4>2 DEF Holds
    <3> QED BY <3>1, <3>2
  <2>7. \A k \in 1..Len(unstable'.Entries) : unstable'.Entries[k].Index = unstable'.offset + k - 1
    BY <2>5, <2>6
  <2>8. \A x \in Entry : Holds(unstable.Entries, x)' => Holds(unstable.Entries, x) \/ x.Index = i
    <3> SUFFICES ASSUME NEW x \in Entry, Holds(unstable.Entries, x)'
                 PROVE  Holds(U, x) \/ x.Index = i
      OBVIOUS
    <3>1. PICK k \in 1..Len(q) : q[k] = x
      BY <2>5 DEF Holds
    <3> QED BY <3>1, <2>6, <2>3, <1>2
  <2>9. unstable'.offset + Len(unstable'.Entries) = i + 1
    BY <2>3, <2>5, <1>1
  <2> QED BY <2>5, <2>7, <2>8, <2>9, <1>1, <1>6
<1> QED BY <1>1, <1>5, <1>6

LEMMA LibAppendKeeps ==
  ASSUME RaftInv, NEW i \in 1..MaxIndex, NEW t \in 1..MaxTerm, LibAppend(i, t),
         UNCHANGED <<storageVars, loopVars, callVars, stopped>>
  PROVE  RaftInv'
<1> TypeOK /\ UnstableInv /\ MessageType
  BY DEF RaftInv, LogInv
<1>1. commit' = commit /\ applied' = applied /\ role' = role
  BY DEF LibAppend
<1>2. TypeOK' /\ MessageType'
  BY <1>1, AppendUnstable DEF TypeOK, MessageType, storageVars, loopVars, callVars
<1>3. UnstableInv'
  <2>1. /\ i > commit /\ unstable'.Snapshot = unstable.Snapshot
        /\ unstable'.offset = unstable.offset \/ unstable'.offset = i
        /\ unstable'.offset + Len(unstable'.Entries) = i + 1
        /\ \A k \in 1..Len(unstable'.Entries) : unstable'.Entries[k].Index = unstable'.offset + k - 1
    BY AppendUnstable
  <2>2. /\ unstable.Snapshot.Index < unstable.offset /\ unstable.Snapshot.Index <= commit
        /\ unstable.Snapshot.Index \in Int /\ commit \in Int /\ i \in Int
    BY Numbers DEF UnstableInv
  <2>3. /\ unstable'.Snapshot.Index < unstable'.offset /\ unstable'.Snapshot.Index <= commit'
        /\ commit' < unstable'.offset + Len(unstable'.Entries)
    BY <1>1, <2>1, <2>2
  <2> QED BY <2>1, <2>3 DEF UnstableInv, UnstableEnd
<1>4. \A x \in Entry : Holds(unstable.Entries, x)' => Holds(unstable.Entries, x) \/ x.Index > commit
  BY AppendUnstable, Numbers
<1>5. commit' \in Int /\ commit' >= commit
  BY <1>1, Numbers
<1>6. UnstableInv' /\ StorageInv' /\ BatchesInv'
  BY <1>1, <1>2, <1>3, <1>4, <1>5, AppendUnstable, LibraryKeeps DEF loopVars
<1> QED BY <1>2, <1>6 DEF RaftInv, LogInv

LEMMA LibCommitKeeps ==
  ASSUME RaftInv, NEW i \in 1..MaxIndex, LibCommit(i),
         UNCHANGED <<storageVars, loopVars, callVars, stopped>>
  PROVE  RaftInv'
<1> TypeOK /\ UnstableInv /\ MessageType
  BY DEF RaftInv, LogInv
<1>1. /\ unstable' = unstable /\ applied' = applied /\ role' = role
      /\ commit' = i /\ i > commit /\ i < UnstableEnd /\ i \in Int /\ i \in 0..MaxIndex
  BY Numbers DEF LibCommit
<1>2. TypeOK' /\ MessageType'
  <2>1. applied' \in 0..commit'
    BY <1>1, Numbers
  <2> QED BY <1>1, <2>1 DEF TypeOK, MessageType, storageVars, loopVars, callVars
<1>3. UnstableInv'
  <2>1. /\ unstable.Snapshot.Index <= commit /\ unstable.Snapshot.Index < unstable.offset
        /\ unstable.Snapshot.Index \in Int /\ commit \in Int
    BY Numbers DEF UnstableInv
  <2>2. unstable.Snapshot.Index <= i
    BY <2>1, <1>1
  <2>3. i < unstable.offset + Len(unstable.Entries)
    BY <1>1 DEF UnstableEnd
  <2> QED BY <2>1, <2>2, <2>3, <1>1 DEF UnstableInv, UnstableEnd
<1>4. \A x \in Entry : Holds(unstable.Entries, x)' => Holds(unstable.Entries, x) \/ x.Index > commit
  BY <1>1 DEF Holds
<1>5. commit' \in Int /\ commit' >= commit /\ unstable'.Snapshot = unstable.Snapshot
        /\ unstable'.offset <= unstable.offset
  BY <1>1, Numbers
<1>6. UnstableInv' /\ StorageInv' /\ BatchesInv'
  BY <1>1, <1>2, <1>3, <1>4, <1>5, LibraryKeeps DEF loopVars
<1> QED BY <1>2, <1>6 DEF RaftInv, LogInv

LEMMA LibSnapshotKeeps ==
  ASSUME RaftInv, NEW s \in Snapshot, LibSnapshot(s),
         UNCHANGED <<storageVars, loopVars, callVars, stopped>>
  PROVE  RaftInv'
<1> TypeOK /\ UnstableInv /\ MessageType
  BY DEF RaftInv, LogInv
<1>1. /\ unstable' = [offset |-> s.Index + 1, Entries |-> <<>>, Snapshot |-> s]
      /\ commit' = s.Index /\ applied' = applied /\ role' = role
      /\ s.Index > commit /\ s.Index \in Int /\ s.Index \in 0..MaxIndex
  BY Numbers DEF LibSnapshot, Snapshot
<1>2. TypeOK' /\ MessageType'
  <2>1. applied' \in 0..commit' /\ s.Index + 1 \in 1..(MaxIndex + 1) /\ <<>> \in Seq(Entry)
    BY <1>1, Numbers
  <2>2. unstable' \in [offset : 1..(MaxIndex + 1), Entries : Seq(Entry), Snapshot : Snapshot]
    BY <1>1, <2>1
  <2> QED BY <1>1, <2>1, <2>2 DEF TypeOK, MessageType, storageVars, loopVars, callVars
<1>3. unstable'.Entries = <<>> /\ unstable'.offset = s.Index + 1 /\ unstable'.Snapshot = s
        /\ Len(unstable'.Entries) = 0
  BY <1>1
<1>4. UnstableInv'
  BY <1>1, <1>3 DEF UnstableInv, UnstableEnd
<1>5. \A x \in Entry : Holds(unstable.Entries, x)' => Holds(unstable.Entries, x) \/ x.Index > commit
  BY <1>3 DEF Holds
<1>6. commit' \in Int /\ commit' >= commit
  BY <1>1, Numbers
<1>7. UnstableInv' /\ StorageInv' /\ BatchesInv'
  BY <1>1, <1>2, <1>3, <1>4, <1>5, <1>6, LibraryKeeps DEF loopVars
<1> QED BY <1>2, <1>7 DEF RaftInv, LogInv

-----------------------------------------------------------------------------
(***************************************************************************)
(* The steps of handleReady.                                               *)
(***************************************************************************)
LEMMA SendApplyKeeps == ASSUME RaftInv, SendApply PROVE RaftInv'
<1> TypeOK /\ MessageType /\ UnstableInv /\ StorageInv /\ BatchesInv
  BY DEF RaftInv, LogInv
<1> DEFINE h == toApply[1]
<1>1. /\ node = "applying" /\ toApply # <<>> /\ toApply' = Tail(toApply)
      /\ UNCHANGED <<storageVars, libVars, isLeader, node, ready, monitor, callVars, stopped>>
  BY DEF SendApply
<1>2. /\ toApply \in Seq(Message) /\ sent \in Seq(Message) /\ applyCh \in Seq(Message)
      /\ Len(toApply) \in Nat /\ Len(toApply) > 0 /\ Len(sent) \in Nat
  BY <1>1, EmptySeq, LenProperties DEF MessageType
<1>3. /\ h \in Message /\ h = Head(toApply) /\ toApply' \in Seq(Message)
      /\ Len(toApply') = Len(toApply) - 1
      /\ \A k \in 1..Len(toApply') : toApply'[k] = toApply[k + 1]
  <2>1. h \in Message /\ h = Head(toApply)
    BY <1>2, ElementOfSeq
  <2> HIDE DEF h
  <2> QED BY <2>1, <1>1, <1>2, HeadTailProperties
<1>4. \/ h.kind = "empty" /\ applyCh' = applyCh /\ sent' = sent
      \/ /\ h.kind # "empty" /\ Len(applyCh) < ApplyCap
         /\ applyCh' = Append(applyCh, h) /\ sent' = Append(sent, h)
  BY <1>3 DEF SendApply
<1> HIDE DEF h
<1>5. /\ sent' \in Seq(Message) /\ Len(sent') \in Nat
      /\ applyCh' \in Seq(Message) /\ Len(applyCh') <= ApplyCap
  <2>1. CASE applyCh' = applyCh /\ sent' = sent
    BY <2>1, <1>2 DEF TypeOK
  <2>2. CASE Len(applyCh) < ApplyCap /\ applyCh' = Append(applyCh, h) /\ sent' = Append(sent, h)
    <3>1. Len(applyCh') = Len(applyCh) + 1 /\ applyCh' \in Seq(Message) /\ sent' \in Seq(Message)
      BY <2>2, <1>2, <1>3, AppendProperties
    <3>2. Len(applyCh) \in Nat /\ Len(sent') \in Nat /\ ApplyCap \in Nat
      BY <3>1, <1>2, LenProperties, RaftAssumption
    <3> QED BY <2>2, <3>1, <3>2
  <2> QED BY <1>4, <2>1, <2>2
<1>6. TypeOK' /\ MessageType'
  BY <1>1, <1>3, <1>5 DEF TypeOK, MessageType, storageVars, libVars, callVars
<1>7. UnstableInv' /\ StorageInv' /\ Readable' /\ ReadyStored' /\ BatchInv'
  <2> USE DEF storageVars, libVars
  <2>1. UnstableInv'
    BY <1>1 DEF UnstableInv, UnstableEnd
  <2>2. StorageInv'
    BY <1>1 DEF StorageInv, Consecutive, Holds
  <2>3. Readable'
    BY <1>1 DEF BatchesInv, Readable, Has
  <2>4. ReadyStored'
    BY <1>1 DEF BatchesInv, ReadyStored, Has, Last
  <2>5. BatchInv'
    BY <1>1 DEF BatchesInv, BatchInv
  <2> QED BY <2>1, <2>2, <2>3, <2>4, <2>5
\* What has been sent is what had been, and possibly h.
<1>8. \A k \in 1..Len(sent') :
        \/ k \in 1..Len(sent) /\ sent'[k] = sent[k]
        \/ k = Len(sent) + 1 /\ sent'[k] = h
  <2>1. CASE sent' = sent
    BY <2>1
  <2>2. CASE sent' = Append(sent, h)
    <3>1. /\ Len(sent') = Len(sent) + 1 /\ sent'[Len(sent) + 1] = h
          /\ \A k \in 1..Len(sent) : sent'[k] = sent[k]
      BY <2>2, <1>2, <1>3, AppendProperties
    <3> QED BY <3>1, <1>2
  <2> QED BY <1>4, <2>1, <2>2
<1>9. \A k \in 1..Len(sent) : k \in 1..Len(sent') /\ sent'[k] = sent[k]
  <2>1. CASE sent' = sent
    BY <2>1
  <2>2. CASE sent' = Append(sent, h)
    <3>1. /\ Len(sent') = Len(sent) + 1
          /\ \A k \in 1..Len(sent) : sent'[k] = sent[k]
      BY <2>2, <1>2, <1>3, AppendProperties
    <3> QED BY <3>1, <1>2
  <2> QED BY <1>4, <2>1, <2>2
<1>10. \A k \in 1..Len(toApply') : k \in Int /\ k + 1 \in 1..Len(toApply) /\ k + 1 > 1
  BY <1>2, <1>3
<1>11. 1 \in 1..Len(toApply)
  BY <1>2
<1>12. \A k \in 1..Len(toApply) : toApply[k].Index \in Int
  <2>1. \A k \in 1..Len(toApply) : toApply[k] \in Message
    BY <1>2, ElementOfSeq
  <2> QED BY <2>1, RaftAssumption DEF Message
<1>13. OrderInv'
  <2>0. OrderInv
    BY DEF BatchesInv
  <2>1. AppliedInOrder'
    <3> SUFFICES ASSUME NEW j \in 1..Len(sent'), NEW k \in 1..Len(sent'), j < k
                 PROVE  sent'[j].Index < sent'[k].Index
      BY DEF AppliedInOrder
    <3>1. j \in Int /\ k \in Int
      BY <1>5
    <3>2. j \in 1..Len(sent) /\ sent'[j] = sent[j]
      <4>1. k \in 1..Len(sent) \/ k = Len(sent) + 1
        BY <1>8
      <4>2. j # Len(sent) + 1
        BY <4>1, <3>1, <1>2
      <4> QED BY <4>2, <1>8, Zenon
    <3>3. CASE k \in 1..Len(sent) /\ sent'[k] = sent[k]
      BY <3>2, <3>3, <2>0 DEF OrderInv, AppliedInOrder
    <3>4. CASE sent'[k] = h
      BY <3>2, <3>4, <1>11, <2>0 DEF OrderInv, h
    <3> QED BY <3>3, <3>4, <1>8
  <2>2. \A j, k \in 1..Len(toApply') : j < k => toApply'[j].Index < toApply'[k].Index
    BY <2>0, <1>3, <1>10 DEF OrderInv
  <2>3. \A j \in 1..Len(sent'), k \in 1..Len(toApply') : sent'[j].Index < toApply'[k].Index
    <3> SUFFICES ASSUME NEW j \in 1..Len(sent'), NEW k \in 1..Len(toApply')
                 PROVE  sent'[j].Index < toApply'[k].Index
      OBVIOUS
    <3>1. toApply'[k] = toApply[k + 1] /\ k + 1 \in 1..Len(toApply) /\ 1 < k + 1
      BY <1>3, <1>10
    <3>2. CASE j \in 1..Len(sent) /\ sent'[j] = sent[j]
      BY <3>1, <3>2, <2>0 DEF OrderInv
    <3>3. CASE sent'[j] = h
      BY <3>1, <3>3, <1>11, <2>0 DEF OrderInv, h
    <3> QED BY <3>2, <3>3, <1>8
  <2>4. \A k \in 1..Len(toApply') : toApply'[k].Index <= ready'.Applied
    BY <2>0, <1>1, <1>3, <1>10 DEF OrderInv
  <2>5. \A k \in 1..Len(sent') : sent'[k].Index <= ready'.Applied
    <3> SUFFICES ASSUME NEW k \in 1..Len(sent') PROVE sent'[k].Index <= ready'.Applied
      OBVIOUS
    <3>1. CASE k \in 1..Len(sent) /\ sent'[k] = sent[k]
      BY <3>1, <2>0, <1>1 DEF OrderInv
    <3>2. CASE sent'[k] = h
      BY <3>2, <1>11, <2>0, <1>1 DEF OrderInv, h
    <3> QED BY <3>1, <3>2, <1>8
  <2> QED BY <1>1, <2>1, <2>2, <2>3, <2>4, <2>5 DEF OrderInv
<1>14. CompleteInv'
  <2> SUFFICES ASSUME NEW e \in Entry, Known(e)', ~e.empty, e.Index <= ready'.Applied
               PROVE  (Sent(e.Index) \/ Pending(e.Index))'
    BY <1>1 DEF CompleteInv
  <2>1. Known(e)
    BY <1>1 DEF Known, Holds, storageVars, libVars
  <2>2. Sent(e.Index) \/ Pending(e.Index)
    BY <2>1, <1>1 DEF BatchesInv, CompleteInv
  <2>3. CASE Sent(e.Index)
    BY <2>3, <1>9 DEF Sent
  <2>4. CASE Pending(e.Index)
    <3>1. PICK k \in 1..Len(toApply) : toApply[k] = Command(e.Index)
      BY <2>4 DEF Pending
    <3>2. CASE k = 1
      <4>1. h = Command(e.Index) /\ h.kind # "empty"
        BY <3>1, <3>2 DEF Command, h
      <4>2. sent' = Append(sent, h)
        BY <4>1, <1>4
      <4>3. Len(sent) + 1 \in 1..Len(sent') /\ sent'[Len(sent) + 1] = h
        BY <4>2, <1>2, <1>3, AppendProperties
      <4> QED BY <4>1, <4>3 DEF Sent
    <3>3. CASE k # 1
      <4> DEFINE j == k - 1
      <4>1. j \in 1..Len(toApply') /\ j + 1 = k
        BY <3>3, <1>2, <1>3
      <4> HIDE DEF j
      <4>2. toApply'[j] = Command(e.Index)
        BY <4>1, <3>1, <1>3
      <4> QED BY <4>1, <4>2 DEF Pending
    <3> QED BY <3>2, <3>3
  <2> QED BY <2>2, <2>3, <2>4
<1> QED BY <1>6, <1>7, <1>13, <1>14 DEF RaftInv, LogInv, BatchesInv

\* The unstable log after Advance: a batch that is still part of it is cut
\* off, and so is its snapshot.
LEMMA StabilisedLog ==
  ASSUME TypeOK, MessageType, UnstableInv, NEW u, u = Stabilised
  PROVE  /\ u \in [offset : 1..(MaxIndex + 1), Entries : Seq(Entry), Snapshot : Snapshot]
         /\ u.offset = unstable.offset \/ /\ ready.Entries # <<>> /\ u.offset > unstable.offset
                                          /\ u.offset = Last(ready.Entries).Index + 1
         /\ unstable.offset + Len(unstable.Entries) <= u.offset + Len(u.Entries)
         /\ \A k \in 1..Len(u.Entries) : u.Entries[k].Index = u.offset + k - 1
         /\ \A x : Holds(u.Entries, x) => Holds(unstable.Entries, x)
         /\ \/ u.Snapshot = NoSnap /\ unstable.Snapshot = ready.Snapshot
            \/ u.Snapshot = unstable.Snapshot /\ unstable.Snapshot # ready.Snapshot
<1> DEFINE U == unstable.Entries
           off == unstable.offset
           l == Last(ready.Entries)
           li == l.Index
           kept == ready.Entries # <<>> /\ l.Index >= off /\ l.Index <= LibLast /\ LibTerm(l.Index) = l.Term
           snap == IF ready.Snapshot = unstable.Snapshot THEN NoSnap ELSE unstable.Snapshot
           part == SubSeq(U, li - off + 2, Len(U))
<1>1. /\ off \in Int /\ off >= 1 /\ off <= MaxIndex + 1 /\ MaxIndex \in Nat
      /\ U \in Seq(Entry) /\ Len(U) \in Nat /\ unstable.Snapshot \in Snapshot
  BY Numbers
<1>2. snap \in Snapshot /\ \/ snap = NoSnap /\ unstable.Snapshot = ready.Snapshot
                           \/ snap = unstable.Snapshot /\ unstable.Snapshot # ready.Snapshot
  <2>1. NoSnap \in Snapshot
    BY RaftAssumption DEF Snapshot, NoSnap
  <2> QED BY <1>1, <2>1
<1>3. CASE ~kept
  <2>1. u = [offset |-> off, Entries |-> U, Snapshot |-> snap]
    BY <1>3, Zenon DEF Stabilised
  <2> HIDE DEF snap, kept
  <2>2. u.offset = off /\ u.Entries = U /\ u.Snapshot = snap
        /\ u \in [offset : 1..(MaxIndex + 1), Entries : Seq(Entry), Snapshot : Snapshot]
    BY <2>1, <1>1, <1>2
  <2> QED BY <2>2, <1>1, <1>2 DEF UnstableInv
<1>4. CASE kept
  <2>1. u = [offset |-> li + 1, Entries |-> part, Snapshot |-> snap]
    BY <1>4, Zenon DEF Stabilised
  <2>2. li \in Int /\ li >= off /\ li <= MaxIndex /\ ready.Entries # <<>>
    BY <1>4, ReadyNumbers
  <2> HIDE DEF snap, kept
  <2> DEFINE m == li - off + 2
  <2>3. m \in Int /\ m >= 2 /\ part = SubSeq(U, m, Len(U)) /\ Len(U) \in Int
    BY <2>2, <1>1
  <2>4. \A i \in m..Len(U) : U[i] \in Entry
    BY <2>3, <1>1, ElementOfSeq
  <2>5. /\ part \in Seq(Entry)
        /\ Len(part) = IF m <= Len(U) THEN Len(U) - m + 1 ELSE 0
        /\ \A i \in 1..(Len(U) - m + 1) : part[i] = U[m + i - 1]
    <3> HIDE DEF part, m, U
    <3> QED BY <2>3, <2>4, SubSeqProperties
  <2>6. u.offset = li + 1 /\ u.Entries = part /\ u.Snapshot = snap
        /\ u \in [offset : 1..(MaxIndex + 1), Entries : Seq(Entry), Snapshot : Snapshot]
    <3>1. li + 1 \in 1..(MaxIndex + 1)
      BY <2>2, <1>1
    <3> HIDE DEF part, li
    <3> QED BY <3>1, <2>1, <2>5, <1>2
  <2>7. ASSUME NEW k \in 1..Len(part) PROVE part[k].Index = li + 1 + k - 1 /\ Holds(U, part[k])
    <3> HIDE DEF part, li, U, off
    <3>1. k \in Int /\ k \in 1..(Len(U) - m + 1) /\ m + k - 1 \in 1..Len(U)
      BY <2>3, <2>5, <1>1
    <3>2. part[k] = U[m + k - 1] /\ U[m + k - 1].Index = off + (m + k - 1) - 1
      BY <3>1, <2>5 DEF UnstableInv, U, off
    <3>3. off + (m + k - 1) - 1 = li + 1 + k - 1
      BY <3>1, <2>2, <1>1
    <3> QED BY <3>1, <3>2, <3>3 DEF Holds
  <2>8. off + Len(U) <= li + 1 + Len(part)
    <3> DEFINE a == Len(part)
               b == Len(U)
    <3>1. /\ a = (IF m <= b THEN b - m + 1 ELSE 0) /\ b \in Int /\ off \in Int /\ li \in Int
          /\ m = li - off + 2
      BY <2>2, <2>5, <1>1
    <3> HIDE DEF a, b, m, li, off
    <3>2. off + b <= li + 1 + a
      BY <3>1
    <3> QED BY <3>2 DEF a, b
  <2>9. \A x : Holds(part, x) => Holds(U, x)
    <3> HIDE DEF part, U, li
    <3> QED BY <2>7 DEF Holds
  <2>10. \A k \in 1..Len(u.Entries) : u.Entries[k].Index = u.offset + k - 1
    <3> HIDE DEF part, U, li
    <3> QED BY <2>6, <2>7
  <2>11. u.offset > off /\ u.offset = Last(ready.Entries).Index + 1
    BY <2>2, <2>6, <1>1
  <2> HIDE DEF part, li
  <2> QED BY <2>2, <2>6, <2>8, <2>9, <2>10, <2>11, <1>2
<1> QED BY <1>3, <1>4

LEMMA AdvanceKeeps == ASSUME RaftInv, Advance PROVE RaftInv'
<1> TypeOK /\ MessageType /\ UnstableInv /\ StorageInv /\ BatchesInv
  BY DEF RaftInv, LogInv
<1> DEFINE u == Stabilised
<1>1. /\ node = "applying" /\ toApply = <<>> /\ Len(toApply) = 0
      /\ isLeader' = ready.leader /\ unstable' = u /\ applied' = ready.Applied
      /\ node' = "select" /\ ready' = NoReady
      /\ UNCHANGED <<storageVars, commit, role, toApply, applyCh, monitor, sent, callVars, stopped>>
  BY EmptySeq DEF Advance
<1>2. /\ u \in [offset : 1..(MaxIndex + 1), Entries : Seq(Entry), Snapshot : Snapshot]
      /\ u.offset = unstable.offset \/ /\ ready.Entries # <<>> /\ u.offset > unstable.offset
                                       /\ u.offset = Last(ready.Entries).Index + 1
      /\ unstable.offset + Len(unstable.Entries) <= u.offset + Len(u.Entries)
      /\ \A k \in 1..Len(u.Entries) : u.Entries[k].Index = u.offset + k - 1
      /\ \A x : Holds(u.Entries, x) => Holds(unstable.Entries, x)
      /\ \/ u.Snapshot = NoSnap /\ unstable.Snapshot = ready.Snapshot
         \/ u.Snapshot = unstable.Snapshot /\ unstable.Snapshot # ready.Snapshot
  BY StabilisedLog
<1> HIDE DEF u
<1>3. /\ commit \in Int /\ unstable.offset \in Int /\ unstable.offset >= 1 /\ unstable.Snapshot.Index \in Int
      /\ applied \in Int /\ applied >= 0 /\ Len(unstable.Entries) \in Nat /\ MaxIndex \in Nat
  BY Numbers
<1>4. /\ applied <= ready.Applied /\ ready.Applied <= commit /\ ready.Snapshot.Index <= ready.Applied
      /\ unstable.Snapshot = ready.Snapshot \/ unstable.Snapshot.Index > ready.Applied
      /\ ready.Applied \in Int /\ ready.Applied >= 0 /\ ready.Snapshot.Index \in Int
  BY <1>1, ReadyNumbers DEF BatchesInv, BatchInv
<1>5. NoReady \in Batch /\ ready.leader \in BOOLEAN /\ NoSnap.Index = 0
  <2>1. NoSnap \in Snapshot /\ 0 \in 0..MaxIndex /\ <<>> \in Seq(Entry)
    BY <1>3, RaftAssumption DEF NoSnap, Snapshot
  <2> QED BY <2>1 DEF NoReady, Batch, MessageType, NoSnap
<1>6. TypeOK' /\ MessageType'
  <2>1. applied' \in 0..commit'
    BY <1>1, <1>3, <1>4
  <2> QED BY <1>1, <1>2, <1>5, <2>1 DEF TypeOK, MessageType, storageVars, callVars
<1>7. /\ u.offset \in Int /\ u.offset >= 1 /\ u.offset >= unstable.offset /\ u.Snapshot.Index \in Int
      /\ Len(u.Entries) \in Nat /\ u.Entries \in Seq(Entry)
  <2>1. u.Entries \in Seq(Entry) /\ u.offset \in 1..(MaxIndex + 1)
    BY <1>2
  <2> QED BY <2>1, <1>2, <1>3, <1>5, LenProperties
<1>8. UnstableInv'
  <2>1. u.Snapshot.Index < u.offset /\ u.Snapshot.Index <= commit /\ commit < u.offset + Len(u.Entries)
    <3>1. commit < unstable.offset + Len(unstable.Entries) /\ unstable.Snapshot.Index < unstable.offset
            /\ unstable.Snapshot.Index <= commit
      BY DEF UnstableInv, UnstableEnd
    <3>2. commit < u.offset + Len(u.Entries)
      <4>1. unstable.offset + Len(unstable.Entries) <= u.offset + Len(u.Entries)
        BY <1>2
      <4> QED BY <4>1, <3>1, <1>3, <1>7
    <3>3. CASE u.Snapshot = NoSnap
      <4>1. u.Snapshot.Index = 0 /\ 0 <= commit
        BY <3>3, <1>3, <1>4, <1>5
      <4> QED BY <4>1, <3>2, <1>7
    <3>4. CASE u.Snapshot = unstable.Snapshot
      BY <3>1, <3>2, <3>4, <1>3, <1>7
    <3> QED BY <3>3, <3>4, <1>2
  <2> QED BY <2>1, <1>1, <1>2 DEF UnstableInv, UnstableEnd
<1>9. StorageInv'
  BY <1>1 DEF StorageInv, Consecutive, Holds, storageVars
<1>10. Readable'
  <2> SUFFICES ASSUME NEW i \in Nat, ready.Applied < i, u.Snapshot.Index < i, i < u.offset
               PROVE  Has(entries, i)'
    BY <1>1 DEF Readable
  <2>1. Has(entries, i)
    <3>1. CASE i < unstable.offset
      <4>1. applied < i /\ ready.Snapshot.Index < i
        BY <1>3, <1>4
      <4>2. unstable.Snapshot = ready.Snapshot \/ u.Snapshot = unstable.Snapshot
        BY <1>2
      <4>3. unstable.Snapshot.Index < i
        BY <4>1, <4>2
      <4> QED BY <3>1, <4>1, <4>3 DEF BatchesInv, Readable
    <3>2. CASE i >= unstable.offset
      <4>1. ready.Entries # <<>> /\ u.offset = Last(ready.Entries).Index + 1
        <5>1. \/ u.offset = unstable.offset
              \/ ready.Entries # <<>> /\ u.offset = Last(ready.Entries).Index + 1
          BY <1>2
        <5>2. u.offset # unstable.offset
          BY <3>2, <1>3, <1>7
        <5> QED BY <5>1, <5>2, Zenon
      <4>2. applied < i /\ ready.Snapshot.Index < i /\ i <= Last(ready.Entries).Index
        BY <4>1, <1>3, <1>4, <1>7, ReadyNumbers
      <4> QED BY <4>1, <4>2, <1>1 DEF BatchesInv, ReadyStored
    <3> QED BY <3>1, <3>2, <1>3
  <2> QED BY <2>1, <1>1 DEF Has, storageVars
<1>11. ReadyStored' /\ BatchInv'
  <2>1. u.Snapshot = NoSnap \/ u.Snapshot.Index > ready.Applied
    BY <1>2, <1>4
  <2> QED BY <2>1, <1>1 DEF ReadyStored, BatchInv
<1>12. OrderInv'
  <2>1. \A k \in 1..Len(sent) : sent[k].Index <= ready.Applied
    BY <1>1 DEF BatchesInv, OrderInv
  <2>2. AppliedInOrder'
    BY <1>1 DEF BatchesInv, OrderInv, AppliedInOrder
  <2> QED BY <2>1, <2>2, <1>1 DEF OrderInv
<1>13. CompleteInv'
  <2> SUFFICES ASSUME NEW e \in Entry, Known(e)', ~e.empty, e.Index <= ready.Applied
               PROVE  Sent(e.Index)'
    BY <1>1 DEF CompleteInv
  <2>1. Known(e)
    BY <1>1, <1>2 DEF Known, Holds, storageVars
  <2>2. Sent(e.Index) \/ Pending(e.Index)
    BY <2>1, <1>1 DEF BatchesInv, CompleteInv
  <2>3. ~Pending(e.Index)
    BY <1>1 DEF Pending
  <2> QED BY <2>2, <2>3, <1>1 DEF Sent
<1> QED BY <1>6, <1>8, <1>9, <1>10, <1>11, <1>12, <1>13 DEF RaftInv, LogInv, BatchesInv

LEMMA SameEntry ==
  ASSUME NEW log \in Seq(Entry), Consecutive(log), NEW x, NEW y,
         Holds(log, x), Holds(log, y), x.Index = y.Index
  PROVE  x = y
<1>1. PICK j \in 1..Len(log) : log[j] = x
  BY DEF Holds
<1>2. PICK k \in 1..Len(log) : log[k] = y
  BY DEF Holds
<1>3. j \in Int /\ x.Index = log[1].Index + j - 1 /\ log[1].Index \in Int
  BY <1>1, Position
<1>4. k \in Int /\ y.Index = log[1].Index + k - 1
  BY <1>2, Position
<1> DEFINE f == log[1].Index
           ix == x.Index
<1>5. f \in Int /\ j \in Int /\ k \in Int /\ ix = f + j - 1 /\ ix = f + k - 1
  BY <1>3, <1>4
<1> HIDE DEF f, ix
<1>6. j = k
  BY <1>5
<1> QED BY <1>1, <1>2, <1>6

LEMMA UnstableLog ==
  ASSUME TypeOK, UnstableInv
  PROVE  /\ Consecutive(unstable.Entries)
         /\ unstable.Entries # <<>> => unstable.Entries[1].Index = unstable.offset
         /\ \A x : Holds(unstable.Entries, x) => x \in Entry /\ x.Index \in Int /\ x.Index >= unstable.offset
<1>1. /\ unstable.Entries \in Seq(Entry) /\ Len(unstable.Entries) \in Nat
      /\ unstable.offset \in Int
  BY Numbers
<1>2. \A k \in 1..Len(unstable.Entries) : unstable.Entries[k].Index = unstable.offset + k - 1
  BY DEF UnstableInv
<1>3. ASSUME NEW k \in 1..Len(unstable.Entries)
      PROVE  /\ 1 \in 1..Len(unstable.Entries) /\ k \in Int /\ k >= 1
             /\ unstable.Entries[1].Index = unstable.offset
  BY <1>1, <1>2
<1>4. Consecutive(unstable.Entries)
  BY <1>1, <1>2, <1>3 DEF Consecutive
<1>5. unstable.Entries # <<>> => unstable.Entries[1].Index = unstable.offset
  <2> SUFFICES ASSUME unstable.Entries # <<>> PROVE unstable.Entries[1].Index = unstable.offset
    OBVIOUS
  <2>1. 1 \in 1..Len(unstable.Entries)
    BY <1>1, EmptySeq
  <2> QED BY <2>1, <1>3
<1>6. ASSUME NEW x, Holds(unstable.Entries, x) PROVE x \in Entry /\ x.Index \in Int /\ x.Index >= unstable.offset
  <2>1. PICK k \in 1..Len(unstable.Entries) : unstable.Entries[k] = x
    BY <1>6 DEF Holds
  <2>2. x \in Entry
    BY <2>1, <1>1, ElementOfSeq
  <2> QED BY <2>1, <2>2, <1>1, <1>2, <1>3, EntryIndex
<1> QED BY <1>4, <1>5, <1>6

\* What a batch adds up to is in the batch, or was there before and is not
\* replaced by it.
LEMMA HandedOver ==
  ASSUME TypeOK, NEW e, e \in HandOver(NextReady)
  PROVE  \/ Holds(unstable.Entries, e)
         \/ /\ e \in handed /\ unstable.Snapshot = NoSnap
            /\ unstable.Entries # <<>> => e.Index < unstable.Entries[1].Index
<1> DEFINE U == unstable.Entries
           base == IF unstable.Snapshot = NoSnap THEN handed ELSE {}
           new == {U[k] : k \in 1..Len(U)}
<1>1. U = <<>> \/ new # {}
  <2>1. U # <<>> => 1 \in 1..Len(U)
    BY Numbers, EmptySeq
  <2> QED BY <2>1
<1>2. NextReady.Entries = U /\ NextReady.Snapshot = unstable.Snapshot
  BY DEF NextReady
<1>3. HandOver(NextReady) = IF new = {} THEN base
                            ELSE {x \in base : x.Index < U[1].Index} \union new
  BY <1>2, Zenon DEF HandOver
<1>4. CASE new = {}
  BY <1>1, <1>3, <1>4
<1>5. CASE new # {}
  <2>1. e \in new \/ (e \in base /\ e.Index < U[1].Index)
    BY <1>3, <1>5
  <2> QED BY <2>1 DEF Holds
<1> QED BY <1>4, <1>5

LEMMA ReceiveKeeps ==
  ASSUME RaftInv, ReceiveReady, ~Gap(unstable.Entries) PROVE RaftInv'
<1> TypeOK /\ MessageType /\ UnstableInv /\ StorageInv /\ BatchesInv
  BY DEF RaftInv, LogInv
<1> DEFINE U == unstable.Entries
           off == unstable.offset
           snap == unstable.Snapshot
           log == Appended(U)
           c == Compacted(log, snap)
           ents == Committed
           m == Messages(snap, ents)
<1>1. /\ node = "select" /\ node' = "applying" /\ ready' = NextReady
      /\ entries' = c /\ snapshot' = (IF snap = NoSnap THEN snapshot ELSE snap)
      /\ handed' = HandOver(NextReady) /\ toApply' = m
      /\ UNCHANGED <<libVars, isLeader, applyCh, monitor, sent, callVars, stopped>>
  BY DEF ReceiveReady
<1>2. /\ MaxIndex \in Nat /\ commit \in Int /\ applied \in Int /\ applied >= 0 /\ applied <= commit
      /\ commit <= MaxIndex /\ off \in Int /\ off >= 1
      /\ U \in Seq(Entry) /\ Len(U) \in Nat /\ snap \in Snapshot /\ snapshot \in Snapshot
      /\ snap.Index \in Int /\ snap.Index >= 0 /\ entries \in Seq(Entry) /\ Len(entries) \in Nat
  BY Numbers
<1>3. /\ snap.Index < off /\ snap.Index <= commit /\ commit < off + Len(U)
      /\ \A k \in 1..Len(U) : U[k].Index = off + k - 1
  BY DEF UnstableInv, UnstableEnd
<1>4. /\ Consecutive(U) /\ (U # <<>> => U[1].Index = off)
      /\ \A x : Holds(U, x) => x \in Entry /\ x.Index \in Int /\ x.Index >= off
  BY UnstableLog
<1>5. Consecutive(entries) /\ \A e \in handed : Holds(entries, e)
  BY DEF StorageInv
<1>6. NextReady.Entries = U /\ NextReady.Snapshot = snap /\ NextReady.Applied = commit
        /\ NextReady \in Batch
  <2>1. commit \in 0..MaxIndex /\ (role = "leader") \in BOOLEAN
    BY <1>2
  <2> QED BY <2>1, <1>2 DEF NextReady, Batch
<1>7. /\ log \in Seq(Entry) /\ Consecutive(log)
      /\ \A e : Holds(U, e) => Holds(log, e)
      /\ \A e : Holds(entries, e) /\ (U # <<>> => e.Index < U[1].Index) => Holds(log, e)
  <2> HIDE DEF U
  <2> QED BY <1>2, <1>4, <1>5, AppendedLog DEF U
<1> HIDE DEF log
<1>8. /\ c \in Seq(Entry) /\ Consecutive(c)
      /\ \A e : Holds(log, e) /\ (snap # NoSnap => snap.Index < e.Index) => Holds(c, e)
  <2> HIDE DEF snap
  <2> QED BY <1>2, <1>7, CompactedLog DEF snap
<1> HIDE DEF c
\* What reaches the storage.
<1>9. \A e : Holds(U, e) => Holds(c, e)
  BY <1>2, <1>3, <1>4, <1>7, <1>8
<1>10. \A e : Holds(entries, e) /\ (snap # NoSnap => snap.Index < e.Index) /\ (U # <<>> => e.Index < off)
                => Holds(c, e)
  BY <1>4, <1>7, <1>8
<1>11. ASSUME NEW e \in handed'
       PROVE  \/ Holds(U, e)
              \/ e \in handed /\ Holds(entries, e) /\ snap = NoSnap /\ (U # <<>> => e.Index < off)
  BY <1>1, <1>4, <1>5, HandedOver
<1>12. StorageInv'
  <2>1. \A e \in handed' : Holds(c, e)
    BY <1>9, <1>10, <1>11
  <2> QED BY <2>1, <1>1, <1>8 DEF StorageInv, Consecutive, Holds
<1>13. handed' \subseteq Entry
  BY <1>4, <1>11 DEF TypeOK
\* What is to be sent.
<1>14. /\ ents \in Seq(Entry)
       /\ \A k \in 1..Len(ents) : ents[k].Index = First + k - 1
       /\ commit < First => Len(ents) = 0
       /\ commit >= First => Len(ents) = commit - First + 1
       /\ \A k \in 1..Len(ents) :
            IF First + k - 1 < off THEN Holds(entries, ents[k]) ELSE Holds(U, ents[k])
  BY CommittedLog DEF RaftInv, BatchesInv
<1>15. First \in Int /\ First > applied /\ First > snap.Index
         /\ \A i \in Int : i > applied /\ i > snap.Index => i >= First
  BY <1>2 DEF First
<1> HIDE DEF ents
<1>16. /\ m \in Seq(Message)
       /\ \A j, k \in 1..Len(m) : j < k => m[j].Index < m[k].Index
       /\ \A k \in 1..Len(m) : \/ snap # NoSnap /\ m[k].Index = snap.Index
                               \/ m[k].Index >= First /\ Has(ents, m[k].Index)
       /\ \A e : Holds(ents, e) /\ ~e.empty => \E k \in 1..Len(m) : m[k] = Command(e.Index)
  <2> HIDE DEF snap
  <2> QED BY <1>2, <1>14, <1>15, MessagesOf, SMTT(30)
<1> HIDE DEF m
<1>17. TypeOK' /\ MessageType'
  <2>1. snapshot' \in Snapshot
    BY <1>1, <1>2
  <2>2. entries' \in Seq(Entry)
    BY <1>1, <1>8
  <2>3. TypeOK'
    BY <1>1, <1>13, <2>1, <2>2 DEF TypeOK, libVars, callVars
  <2>4. MessageType'
    BY <1>1, <1>6, <1>16 DEF MessageType
  <2> QED BY <2>3, <2>4
<1>18. UnstableInv'
  BY <1>1 DEF UnstableInv, UnstableEnd, libVars
<1>19. ASSUME NEW i \in Nat, applied < i, snap.Index < i, i < off PROVE Has(c, i)
  <2>1. Has(entries, i)
    BY <1>19 DEF BatchesInv, Readable
  <2>2. PICK k \in 1..Len(entries) : entries[k].Index = i
    BY <2>1 DEF Has
  <2>3. Holds(entries, entries[k])
    BY DEF Holds
  <2>4. Holds(c, entries[k])
    BY <2>2, <2>3, <1>10, <1>19
  <2> QED BY <2>2, <2>4 DEF Has, Holds
<1>20. Readable'
  BY <1>1, <1>19 DEF Readable, Has, libVars
<1>21. ReadyStored'
  <2> SUFFICES ASSUME U # <<>>, NEW i \in Nat, applied < i, snap.Index < i, i <= Last(U).Index
               PROVE  Has(c, i)
    BY <1>1, <1>6 DEF ReadyStored, Has, libVars
  <2>1. CASE i < off
    BY <2>1, <1>19
  <2>2. CASE i >= off
    <3>1. Len(U) \in 1..Len(U)
      BY <1>2, EmptySeq
    <3>2. Last(U).Index = off + Len(U) - 1
      BY <3>1, <1>3 DEF Last
    <3> DEFINE k == i - off + 1
    <3>3. k \in 1..Len(U) /\ off + k - 1 = i
      BY <2>2, <3>2, <1>2
    <3> HIDE DEF k
    <3>4. Holds(U, U[k]) /\ U[k].Index = i
      BY <3>3, <1>3 DEF Holds
    <3>5. Holds(c, U[k])
      BY <3>4, <1>9
    <3> QED BY <3>4, <3>5 DEF Has, Holds
  <2> QED BY <2>1, <2>2, <1>2
<1>22. BatchInv'
  BY <1>1, <1>2, <1>3, <1>6 DEF BatchInv, libVars
<1>23. ASSUME NEW k \in 1..Len(m) PROVE m[k].Index > applied /\ m[k].Index <= commit
  <2>1. CASE snap # NoSnap /\ m[k].Index = snap.Index
    BY <2>1, <1>1, <1>3 DEF BatchesInv, BatchInv
  <2>2. CASE m[k].Index >= First /\ Has(ents, m[k].Index)
    <3>1. PICK j \in 1..Len(ents) : ents[j].Index = m[k].Index
      BY <2>2 DEF Has
    <3>2. m[k].Index = First + j - 1 /\ j \in Int /\ j >= 1
      BY <3>1, <1>14, LenProperties
    <3>3. commit >= First /\ j <= commit - First + 1
      <4>1. Len(ents) \in Nat /\ j <= Len(ents)
        BY <3>1, <3>2, <1>14, LenProperties
      <4>2. commit >= First
        BY <4>1, <3>2, <1>2, <1>14, <1>15
      <4>3. Len(ents) = commit - First + 1
        BY <4>2, <1>14
      <4> QED BY <4>1, <4>2, <4>3
    <3>4. First \in Int /\ commit \in Int /\ First > applied /\ applied \in Int
      BY <1>2, <1>15
    <3> QED BY <3>2, <3>3, <3>4
  <2> QED BY <2>1, <2>2, <1>16
<1>24. OrderInv'
  <2>1. \A k \in 1..Len(sent) : sent[k].Index <= applied /\ sent[k].Index \in Int
    <3>1. \A k \in 1..Len(sent) : sent[k] \in Message
      BY ElementOfSeq DEF MessageType
    <3> QED BY <3>1, <1>1, RaftAssumption DEF BatchesInv, OrderInv, Message
  <2>2. \A k \in 1..Len(m) : m[k].Index \in Int
    <3>1. \A k \in 1..Len(m) : m[k] \in Message
      BY <1>16, ElementOfSeq
    <3> QED BY <3>1, RaftAssumption DEF Message
  <2>3. AppliedInOrder'
    BY <1>1 DEF BatchesInv, OrderInv, AppliedInOrder
  <2>4. \A j \in 1..Len(sent), k \in 1..Len(m) : sent[j].Index < m[k].Index
    BY <2>1, <2>2, <1>2, <1>23
  <2>5. \A k \in 1..Len(sent) : sent[k].Index <= commit
    BY <2>1, <1>2
  <2> QED BY <2>3, <2>4, <2>5, <1>1, <1>6, <1>16, <1>23 DEF OrderInv
<1>25. CompleteInv'
  <2> SUFFICES ASSUME NEW e \in Entry, Known(e)', ~e.empty, e.Index <= commit
               PROVE  (Sent(e.Index) \/ Pending(e.Index))'
    BY <1>1, <1>6 DEF CompleteInv
  <2>0. e.Index \in Int
    BY EntryIndex
  <2>1. \/ Holds(U, e)
        \/ e \in handed /\ Holds(entries, e) /\ snap = NoSnap /\ (U # <<>> => e.Index < off)
    BY <1>1, <1>11 DEF Known, Holds, libVars
  <2>2. Known(e)
    BY <2>1 DEF Known
  <2>3. CASE e.Index <= applied
    BY <2>2, <2>3, <1>1 DEF BatchesInv, CompleteInv, Sent
  <2>4. CASE e.Index > applied
    <3>1. e.Index > snap.Index
      <4>1. CASE Holds(U, e)
        BY <4>1, <2>0, <1>2, <1>3, <1>4
      <4>2. CASE snap = NoSnap
        BY <4>2, <2>0, <2>4, <1>2 DEF NoSnap
      <4> QED BY <2>1, <4>1, <4>2
    <3>2. e.Index >= First /\ commit >= First
      BY <3>1, <2>0, <2>4, <1>2, <1>15
    <3> DEFINE k == e.Index - First + 1
    <3>3. k \in 1..Len(ents) /\ First + k - 1 = e.Index
      <4>1. Len(ents) = commit - First + 1
        BY <3>2, <1>14
      <4>2. First \in Int /\ commit \in Int
        BY <1>2, <1>15
      <4> QED BY <4>1, <4>2, <3>2, <2>0
    <3> HIDE DEF k
    <3>4. ents[k].Index = e.Index
      BY <3>3, <1>14
    <3>5. ASSUME Holds(U, e) PROVE Holds(ents, e)
      <4>1. ~(e.Index < off)
        BY <3>5, <2>0, <1>2, <1>4
      <4>2. Holds(U, ents[k])
        BY <4>1, <3>3, <1>14
      <4>3. ents[k] = e
        BY <4>2, <3>4, <3>5, <1>2, <1>4, SameEntry
      <4> QED BY <3>3, <4>3 DEF Holds
    <3>6. ASSUME Holds(entries, e), U # <<>> => e.Index < off PROVE Holds(ents, e)
      <4>1. e.Index < off
        <5>1. CASE U = <<>>
          <6>1. Len(U) = 0
            BY <5>1
          <6> QED BY <6>1, <2>0, <1>2, <1>3
        <5> QED BY <5>1, <3>6
      <4>2. Holds(entries, ents[k])
        BY <4>1, <3>3, <1>14
      <4>3. ents[k] = e
        BY <4>2, <3>4, <3>6, <1>2, <1>5, SameEntry
      <4> QED BY <3>3, <4>3 DEF Holds
    <3>7. Holds(ents, e)
      <4>1. CASE Holds(U, e)
        BY <4>1, <3>5
      <4>2. CASE Holds(entries, e) /\ (U # <<>> => e.Index < off)
        BY <4>2, <3>6
      <4> QED BY <2>1, <4>1, <4>2
    <3>8. \E j \in 1..Len(m) : m[j] = Command(e.Index)
      BY <3>7, <1>16
    <3> QED BY <3>8, <1>1 DEF Pending
  <2> QED BY <2>0, <2>3, <2>4, <1>2
<1> QED BY <1>12, <1>17, <1>18, <1>20, <1>21, <1>22, <1>24, <1>25 DEF RaftInv, LogInv, BatchesInv

-----------------------------------------------------------------------------
(***************************************************************************)
(* The invariant and what follows from it.                                 *)
(***************************************************************************)
LEMMA RaftInit == Init => RaftInv
<1> SUFFICES ASSUME Init PROVE RaftInv
  OBVIOUS
<1> DEFINE first == [k \in 1..Members |-> [Index |-> k, Term |-> 1, empty |-> FALSE]]
<1>1. /\ entries = <<>> /\ snapshot = NoSnap
      /\ unstable = [offset |-> 1, Entries |-> first, Snapshot |-> NoSnap]
      /\ commit = Members /\ applied = 0 /\ node = "select" /\ ready = NoReady
      /\ toApply = <<>> /\ applyCh = <<>> /\ handed = {} /\ sent = <<>>
  BY DEF Init
<1>2. Members \in Nat /\ Members >= 1 /\ Members <= MaxIndex /\ MaxIndex \in Nat
  BY RaftAssumption
<1>3. \A k \in 1..Members : [Index |-> k, Term |-> 1, empty |-> FALSE] \in Entry
  BY <1>2, RaftAssumption DEF Entry
<1>4. first \in Seq(Entry) /\ Len(first) = Members
  <2>1. first \in [1..Members -> Entry]
    BY <1>3
  <2> HIDE DEF first
  <2>2. first \in Seq(Entry)
    BY <2>1, <1>2, SeqDef
  <2> QED BY <2>1, <2>2, <1>2, LenProperties
<1>5. \A k \in 1..Members : first[k].Index = k
  OBVIOUS
<1> HIDE DEF first
<1>6. NoSnap \in Snapshot /\ NoSnap.Index = 0 /\ NoReady \in Batch
  BY <1>2, RaftAssumption, EmptySeq DEF NoSnap, Snapshot, NoReady, Batch
<1>7. TypeOK
  <2>1. unstable \in [offset : 1..(MaxIndex + 1), Entries : Seq(Entry), Snapshot : Snapshot]
    BY <1>1, <1>2, <1>4, <1>6
  <2>2. entries \in Seq(Entry) /\ Len(applyCh) = 0 /\ 0 <= ApplyCap
    BY <1>1, EmptySeq, RaftAssumption
  <2>3. commit \in 0..MaxIndex /\ applied \in 0..commit
    BY <1>1, <1>2
  <2>4. /\ role \in {"leader", "follower", "none"} /\ isLeader \in BOOLEAN
        /\ monitor \in {"on", "done"} /\ server \in {"select", "proposing", "done"}
        /\ stopped \in BOOLEAN /\ mu \in Callers \union {NoCaller}
    BY DEF Init
  <2>5. proposals \in 0..ProposeCap
    BY RaftAssumption DEF Init
  <2>6. Len(applyCh) <= ApplyCap
    BY <2>2
  <2> QED BY <2>1, <2>2, <2>3, <2>4, <2>5, <2>6, <1>1, <1>6 DEF TypeOK
<1>8. MessageType
  BY <1>1, <1>6, EmptySeq DEF MessageType
<1>9. UnstableInv
  BY <1>1, <1>2, <1>4, <1>5, <1>6 DEF UnstableInv, UnstableEnd
<1>10. /\ \A k : k \notin 1..Len(entries)
       /\ \A k : k \notin 1..Len(toApply)
       /\ \A k : k \notin 1..Len(sent)
  BY <1>1, EmptySeq
<1>11. StorageInv
  BY <1>1, <1>10 DEF StorageInv, Consecutive
<1>12. Readable /\ ReadyStored /\ BatchInv
  BY <1>1, <1>6 DEF Readable, ReadyStored, BatchInv
<1>13. OrderInv
  BY <1>10 DEF OrderInv, AppliedInOrder
<1>14. CompleteInv
  BY <1>1, EntryIndex DEF CompleteInv
<1> QED BY <1>7, <1>8, <1>9, <1>11, <1>12, <1>13, <1>14 DEF RaftInv, LogInv, BatchesInv

LEMMA RaftStep == RaftInv /\ [Next]_vars => RaftInv'
<1> SUFFICES ASSUME RaftInv, [Next]_vars PROVE RaftInv'
  OBVIOUS
<1> TypeOK /\ MessageType /\ UnstableInv /\ StorageInv /\ BatchesInv
  BY DEF RaftInv, LogInv
<1> USE DEF storageVars, libVars, loopVars, callVars
\* A step that only moves what the invariant does not depend on.
<1>0. ASSUME TypeOK', MessageType', UNCHANGED batchVars PROVE RaftInv'
  BY <1>0, QuietKeeps DEF RaftInv, LogInv
\* A step that ends the run loop.
<1>e. ASSUME TypeOK', MessageType', UNCHANGED <<storageVars, unstable, commit, applied, sent>>,
             node' \in {"panicked", "done"}, toApply' = <<>>
      PROVE  RaftInv'
  BY <1>e, EndKeeps DEF RaftInv, LogInv
<1>1. CASE Library
  <2>1. CASE \E i \in 1..MaxIndex, t \in 1..MaxTerm : LibAppend(i, t)
    BY <1>1, <2>1, LibAppendKeeps DEF Library
  <2>2. CASE \E i \in 1..MaxIndex : LibCommit(i)
    BY <1>1, <2>2, LibCommitKeeps DEF Library
  <2>3. CASE \E s \in Snapshot : LibSnapshot(s)
    BY <1>1, <2>3, LibSnapshotKeeps DEF Library
  <2>4. CASE \E r \in {"leader", "follower", "none"} : LibRole(r)
    <3>1. TypeOK' /\ MessageType' /\ UNCHANGED batchVars
      BY <1>1, <2>4 DEF Library, LibRole, TypeOK, MessageType, batchVars
    <3> QED BY <3>1, <1>0
  <2> QED BY <1>1, <2>1, <2>2, <2>3, <2>4 DEF Library
<1>2. CASE LibPanic
  <2>1. NoReady \in Batch /\ <<>> \in Seq(Message)
    BY EmptySeq, RaftAssumption DEF NoReady, Batch, NoSnap, Snapshot
  <2>2. TypeOK' /\ MessageType'
    BY <1>2, <2>1 DEF LibPanic, TypeOK, MessageType
  <2> QED BY <1>2, <2>2, <1>e DEF LibPanic
<1>3. CASE ReceiveReady
  <2>1. CASE Gap(unstable.Entries)
    <3>1. TypeOK' /\ MessageType' /\ node' = "panicked" /\ toApply' = <<>>
      BY <1>3, <2>1 DEF ReceiveReady, TypeOK, MessageType
    <3> QED BY <1>3, <2>1, <3>1, <1>e DEF ReceiveReady
  <2>2. CASE ~Gap(unstable.Entries)
    BY <1>3, <2>2, ReceiveKeeps
  <2> QED BY <2>1, <2>2
<1>4. CASE SendApply
  BY <1>4, SendApplyKeeps
<1>5. CASE Advance
  BY <1>5, AdvanceKeeps
<1>6. CASE RunExit
  <2>1. TypeOK' /\ MessageType' /\ toApply' = <<>>
    BY <1>6 DEF RunExit, TypeOK, MessageType
  <2> QED BY <1>6, <2>1, <1>e DEF RunExit
<1>7. CASE MonitorApply
  <2>1. applyCh \in Seq(Message) /\ applyCh # <<>> /\ applyCh' = Tail(applyCh)
    BY <1>7 DEF MonitorApply, MessageType
  <2>2. applyCh' \in Seq(Message) /\ Len(applyCh') = Len(applyCh) - 1 /\ Len(applyCh) \in Nat
    BY <2>1, HeadTailProperties, LenProperties
  <2>3. Len(applyCh') <= ApplyCap
    BY <2>2, RaftAssumption DEF TypeOK
  <2>4. TypeOK' /\ MessageType' /\ UNCHANGED batchVars
    BY <1>7, <2>2, <2>3 DEF MonitorApply, TypeOK, MessageType, batchVars
  <2> QED BY <2>4, <1>0
<1>8. CASE MonitorExit \/ Stop
  <2>1. TypeOK' /\ MessageType' /\ UNCHANGED batchVars
    BY <1>8 DEF MonitorExit, Stop, TypeOK, MessageType, batchVars
  <2> QED BY <2>1, <1>0
<1>9. CASE Serve \/ ProposeReturns \/ \E c \in Callers : PeerCall(c)
  <2>1. UNCHANGED <<storageVars, libVars, loopVars, stopped>>
    BY <1>9 DEF Serve, ServeTake, ServeProposed, ServeExit, ProposeReturns, PeerCall, callerFree
  <2>2. /\ proposals' \in 0..ProposeCap /\ mu' \in Callers \union {NoCaller}
        /\ server' \in {"select", "proposing", "done"}
    BY <1>9, RaftAssumption
       DEF Serve, ServeTake, ServeProposed, ServeExit, ProposeReturns, PeerCall, TypeOK
  <2>3. TypeOK' /\ MessageType' /\ UNCHANGED batchVars
    BY <2>1, <2>2 DEF TypeOK, MessageType, batchVars
  <2> QED BY <2>3, <1>0
<1>10. CASE UNCHANGED vars
  <2>1. TypeOK' /\ MessageType' /\ UNCHANGED batchVars
    BY <1>10 DEF vars, TypeOK, MessageType, batchVars
  <2> QED BY <2>1, <1>0
<1> QED BY <1>1, <1>2, <1>3, <1>4, <1>5, <1>6, <1>7, <1>8, <1>9, <1>10 DEF Next, Run

LEMMA RaftInvariance == Spec => []RaftInv
BY RaftInit, RaftStep, PTL DEF Spec

\* Type correctness of the node: a Ready and its messages exist only while it
\* is handled, the channels never exceed their buffers, and the library never
\* counts an entry as applied that is not committed.
THEOREM TypeCorrect == Spec => []TypeOK
<1>1. RaftInv => TypeOK
  BY DEF RaftInv, LogInv
<1> QED BY <1>1, RaftInvariance, PTL

\* MemoryStorage loses nothing that handleReady gave it: every entry of a
\* Ready that no later one replaced is read back at its index.
THEOREM HandedStaysStored == Spec => []HandedIsStored
<1>1. RaftInv => HandedIsStored
  <2> SUFFICES ASSUME RaftInv, NEW e \in handed
               PROVE  e.Index \in FirstIndex..LastIndex /\ Entries(e.Index, e.Index + 1) = <<e>>
    BY DEF HandedIsStored
  <2> QED BY StoredIsRead DEF RaftInv, LogInv, StorageInv, TypeOK
<1> QED BY <1>1, RaftInvariance, PTL

\* What handleReady sends to applyCh has growing indexes, over all batches and
\* snapshots and whatever the library does while one is handled.
THEOREM AppliedOrdered == Spec => []AppliedInOrder
<1>1. RaftInv => AppliedInOrder
  BY DEF RaftInv, BatchesInv, OrderInv
<1> QED BY <1>1, RaftInvariance, PTL

\* Whenever the run loop is back at its select, each entry with contents that
\* it was handed and that counts as applied has gone to applyCh.
THEOREM AppliedAll == Spec => []AppliedIsComplete
<1>1. RaftInv => AppliedIsComplete
  <2> SUFFICES ASSUME RaftInv, node = "select",
                      NEW e \in handed, e.Index <= applied, ~e.empty
               PROVE  \E k \in 1..Len(sent) : sent[k] = [kind |-> "command", Index |-> e.Index]
    BY DEF AppliedIsComplete
  <2>1. e \in Entry /\ Known(e)
    BY DEF RaftInv, LogInv, TypeOK, Known
  <2>2. Sent(e.Index)
    BY <2>1 DEF RaftInv, BatchesInv, CompleteInv
  <2> QED BY <2>2 DEF Sent, Command
<1> QED BY <1>1, RaftInvariance, PTL

=============================================================================
