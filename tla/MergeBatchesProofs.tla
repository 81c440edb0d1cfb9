------------------------- MODULE MergeBatchesProofs -------------------------
(* Proofs about MergeBatches: what holds for any number of readers, any      *)
(* timestamps and any length of the streams.                                 *)
EXTENDS MergeBatches, FiniteSetTheorems, SequenceTheorems, WellFoundedInduction, TLAPS

\* A nonempty set of natural numbers has a least element: the segments 0 .. d
\* are well founded under strict inclusion.
LEMMA LeastNatural ==
  ASSUME NEW D \in SUBSET Nat, D # {}
  PROVE  \E d \in D : \A e \in D : d <= e
<1> DEFINE Segments == { 0 .. d : d \in D }
<1>1. Segments \subseteq FiniteSubsetsOf(Nat) /\ Segments # {}
  <2>1. ASSUME NEW d \in D PROVE 0 .. d \in FiniteSubsetsOf(Nat)
    <3>1. d \in Nat
      OBVIOUS
    <3>2. IsFiniteSet(0 .. d)
      BY <3>1, FS_Interval
    <3>3. 0 .. d \in SUBSET Nat
      BY <3>1
    <3>4. QED
      BY <3>2, <3>3 DEF FiniteSubsetsOf
  <2>2. QED
    BY <2>1
<1> HIDE DEF Segments
<1>2. PICK x \in Segments : \A y \in Segments : ~ (<<y, x>> \in StrictSubsetOrdering(Nat))
  BY <1>1, FS_StrictSubsetOrderingWellFounded, WFMin
<1>3. PICK d \in D : x = 0 .. d
  BY DEF Segments
<1>4. ASSUME NEW e \in D, e < d PROVE FALSE
  <2>1. d \in Nat /\ e \in Nat
    OBVIOUS
  <2>2. 0 .. e \subseteq 0 .. d /\ d \in 0 .. d /\ d \notin 0 .. e
    BY <2>1, <1>4
  <2>3. 0 .. e \in SUBSET Nat /\ 0 .. d \in SUBSET Nat
    BY <2>1
  <2>4. <<0 .. e, 0 .. d>> \in StrictSubsetOrdering(Nat)
    BY <2>2, <2>3, Zenon DEF StrictSubsetOrdering
  <2>5. 0 .. e \in Segments
    BY DEF Segments
  <2>6. QED
    BY <2>4, <2>5, <1>2, <1>3
<1>5. QED
  BY <1>4

LEMMA TimeIsInt == Time \subseteq Int
BY MergeAssumption DEF Time

\* A nonempty batch has a least timestamp, which pull uses as the new bound.
LEMMA LeastOfBatch ==
  ASSUME NEW batch \in Seq(Int), batch # << >>,
         \A g \in 1 .. Len(batch) : batch[g] \in Time
  PROVE  /\ Least(batch) \in Time
         /\ \E g \in 1 .. Len(batch) : batch[g] = Least(batch)
         /\ \A g \in 1 .. Len(batch) : Least(batch) <= batch[g]
<1> DEFINE S == Range(batch)
           D == { t - MinTime : t \in S }
<1>1. S \subseteq Time /\ S # {}
  BY DEF Range
<1>2. \A t \in S : t \in Int /\ MinTime \in Int /\ t - MinTime \in Nat
  BY <1>1, MergeAssumption DEF Time
<1>3. D \in SUBSET Nat /\ D # {}
  BY <1>1, <1>2
<1>4. PICK d \in D : \A e \in D : d <= e
  BY <1>3, LeastNatural
<1>5. PICK t \in S : d = t - MinTime
  OBVIOUS
<1>6. ASSUME NEW u \in S PROVE t <= u
  <2>1. u - MinTime \in D
    OBVIOUS
  <2>2. d <= u - MinTime
    BY <1>4, <2>1
  <2>3. QED
    BY <1>5, <2>2, <1>2
<1>7. Least(batch) \in S /\ \A u \in S : Least(batch) <= u
  BY <1>6 DEF Least, Min
<1>8. QED
  BY <1>7, <1>1 DEF Range

-----------------------------------------------------------------------------
\* What the streams hold is well typed.
LEMMA BatchType ==
  ASSUME NEW s \in Inputs, NEW r \in Readers, NEW b \in 1 .. Len(s[r])
  PROVE  /\ s[r][b] \in Seq(Int) /\ s[r][b] # << >> /\ Len(s[r][b]) \in Nat
         /\ \A g \in 1 .. Len(s[r][b]) : s[r][b][g] \in Time
         /\ Least(s[r][b]) \in Time
         /\ BatchPackets(s, r, b) \subseteq Packet
<1>1. s \in [Readers -> Seq(Seq(Int) \ {<< >>})]
  BY MergeAssumption
<1>2. s[r] \in Seq(Seq(Int) \ {<< >>}) /\ Len(s[r]) \in Nat
  BY <1>1
<1>3. s[r][b] \in Seq(Int) /\ s[r][b] # << >> /\ Len(s[r][b]) \in Nat
  BY <1>2
<1>4. \A g \in 1 .. Len(s[r][b]) : s[r][b][g] \in Time
  BY MergeAssumption
<1>5. Least(s[r][b]) \in Time
  BY <1>3, <1>4, LeastOfBatch
<1>6. BatchPackets(s, r, b) \subseteq Packet
  <2>1. b \in Nat
    BY <1>2
  <2>2. ASSUME NEW g \in 1 .. Len(s[r][b])
        PROVE  [reader |-> r, batch |-> b, group |-> g, timestamp |-> s[r][b][g]] \in Packet
    <3>1. g \in Nat
      BY <1>3
    <3>2. s[r][b][g] \in Time
      BY <1>4
    <3> QED
      BY <2>1, <3>1, <3>2 DEF Packet
  <2> QED
    BY <2>2 DEF BatchPackets
<1>7. QED
  BY <1>3, <1>4, <1>5, <1>6

LEMMA StreamType ==
  ASSUME NEW s \in Inputs, NEW r \in Readers
  PROVE  Len(s[r]) \in Nat
BY MergeAssumption

LEMMA InitType == Init => TypeOK
<1> SUFFICES ASSUME Init PROVE TypeOK
  OBVIOUS
<1>1. MinTime \in Time /\ ReaderCount \in Nat
  BY MergeAssumption DEF Time
<1>2. \A r \in Readers : 0 <= Len(streams[r])
  BY StreamType DEF Init
<1>3. /\ read \in [Readers -> Nat] /\ \A r \in Readers : read[r] <= Len(streams[r])
      /\ in_flight \in [Readers -> Int] /\ lower_bound \in [Readers -> Time]
  BY <1>1, <1>2 DEF Init
<1>4. emitted \in Seq(Packet) /\ index \in 0 .. ReaderCount
  BY <1>1 DEF Init
<1>5. QED
  BY <1>3, <1>4 DEF Init, TypeOK

LEMMA StepType == TypeOK /\ [Next]_vars => TypeOK'
<1> SUFFICES ASSUME TypeOK, [Next]_vars PROVE TypeOK'
  OBVIOUS
<1> USE DEF TypeOK
<1>0. 0 \in 0 .. ReaderCount
  BY MergeAssumption
<1>1. CASE Pop
  <2>1. PICK e \in Top(heap) : /\ heap' = heap \ {e} /\ entry' = e
                              /\ in_flight' = [in_flight EXCEPT ![e.reader] = @ - 1]
    BY <1>1 DEF Pop
  <2>2. e \in Packet /\ e # NoEntry /\ e.reader \in Readers
    BY <2>1, NoEntryAssumption DEF Top, Packet
  <2>3. in_flight' \in [Readers -> Int]
    BY <2>1, <2>2
  <2>4. QED
    BY <1>0, <1>1, <2>1, <2>2, <2>3 DEF Pop, StartSweep
<1>2. CASE PopNothing
  BY <1>0, <1>2 DEF PopNothing, StartSweep
<1>3. CASE Pull
  <2>1. index \in Readers /\ index + 1 \in 0 .. ReaderCount
    BY <1>3, MergeAssumption DEF Pull, Readers
  <2>2. CASE PullBatch(index)
    <3> DEFINE b == read[index] + 1
    <3>1. b \in 1 .. Len(streams[index]) /\ b \in Nat
      BY <2>1, <2>2, StreamType DEF PullBatch
    <3>2. /\ Len(streams[index][b]) \in Nat
          /\ Least(streams[index][b]) \in Time
          /\ BatchPackets(streams, index, b) \subseteq Packet
      BY <2>1, <3>1, BatchType
    <3>3. /\ read' = [read EXCEPT ![index] = b]
          /\ lower_bound' = [lower_bound EXCEPT ![index] = Least(streams[index][b])]
          /\ in_flight' = [in_flight EXCEPT ![index] = @ + Len(streams[index][b])]
          /\ heap' = heap \cup BatchPackets(streams, index, b)
      BY <2>2 DEF PullBatch
    <3>4. UNCHANGED << streams, entry, emitted, pc >> /\ index' \in 0 .. ReaderCount /\ pulled' = TRUE
      BY <1>3, <2>1 DEF Pull
    <3> HIDE DEF b
    <3>5. read' \in [Readers -> Nat] /\ lower_bound' \in [Readers -> Time]
      BY <3>1, <3>2, <3>3
    <3>5a. in_flight[index] + Len(streams[index][b]) \in Int
      BY <2>1, <3>2
    <3>5b. in_flight' \in [Readers -> Int]
      BY <3>3, <3>5a
    <3>5c. heap' \subseteq Packet
      BY <3>2, <3>3
    <3>6. \A r \in Readers : read'[r] <= Len(streams[r])
      <4>1. \A r \in Readers : read'[r] = IF r = index THEN b ELSE read[r]
        BY <3>3
      <4>2. b <= Len(streams[index])
        BY <2>1, <3>1, StreamType
      <4>3. QED
        BY <4>1, <4>2
    <3>7. QED
      BY <3>4, <3>5, <3>5b, <3>5c, <3>6
  <2>3. CASE PullFinished(index)
    <3>1. MaxTime \in Time
      BY MergeAssumption DEF Time
    <3>2. lower_bound' = [lower_bound EXCEPT ![index] = MaxTime]
      BY <2>3 DEF PullFinished
    <3>3. UNCHANGED << read, in_flight, heap >>
      BY <2>3 DEF PullFinished
    <3>4. lower_bound' \in [Readers -> Time]
      BY <3>1, <3>2
    <3>5. QED
      BY <1>3, <2>1, <3>3, <3>4 DEF Pull
  <2>4. QED
    BY <1>3, <2>2, <2>3 DEF Pull
<1>4. CASE Skip
  BY <1>4, MergeAssumption DEF Skip
<1>5. CASE Drained
  BY <1>0, <1>5 DEF Drained
<1>6. CASE SweepAgain
  BY <1>0, <1>6 DEF SweepAgain, StartSweep
<1>7. CASE PutBack
  <2>1. entry \in Packet /\ entry.reader \in Readers
    BY <1>7 DEF PutBack, Settled, Packet
  <2>2. in_flight' \in [Readers -> Int] /\ heap' \subseteq Packet
    BY <1>7, <2>1 DEF PutBack
  <2>3. QED
    BY <1>0, <1>7, <2>2 DEF PutBack, NextTurn
<1>8. CASE Emit
  <2>1. entry \in Packet
    BY <1>8 DEF Emit, Settled
  <2>2. emitted' \in Seq(Packet)
    BY <1>8, <2>1 DEF Emit
  <2>3. QED
    BY <1>0, <1>8, <2>2 DEF Emit, NextTurn
<1>9. CASE EmitFails
  BY <1>9 DEF EmitFails, Settled
<1>10. CASE UNCHANGED vars
  BY <1>10 DEF vars
<1>11. QED
  BY <1>1, <1>2, <1>3, <1>4, <1>5, <1>6, <1>7, <1>8, <1>9, <1>10
     DEF Next, Step, Returned

\* The merge loop keeps every variable in its type, for any inputs.
THEOREM TypeCorrect == Spec => []TypeOK
BY InitType, StepType, PTL DEF Spec

-----------------------------------------------------------------------------
(* Order of the output.  The invariant says why the loop may emit: the bound *)
(* of a reader is below everything it still holds, a sweep that pulled       *)
(* nothing has seen every bound reach the popped entry, and so nothing that  *)
(* is still to come precedes what is already written.                        *)

BoundSound ==
  \A r \in Readers : \A p \in Unread(r) : lower_bound[r] <= p.timestamp

SweptSound ==
  pc = "refill" /\ ~ pulled =>
    \A r \in Readers : r < index => entry.timestamp <= lower_bound[r]

WrittenFirst ==
  \A j \in DOMAIN emitted : \A p \in Remaining : emitted[j].timestamp <= p.timestamp

OrderInv ==
  TypeOK /\ BoundSound /\ SweptSound /\ WrittenFirst /\ OutputSorted

\* A pull moves exactly the next batch of its reader out of the unread packets.
LEMMA UnreadAfterPull ==
  ASSUME TypeOK, NEW r \in Readers, PullBatch(r), UNCHANGED streams
  PROVE  /\ Unread(r) = BatchPackets(streams, r, read[r] + 1) \cup Unread(r)'
         /\ \A q \in Readers : q # r => Unread(q)' = Unread(q)
<1>1. read' = [read EXCEPT ![r] = read[r] + 1] /\ read[r] + 1 <= Len(streams[r])
  BY DEF PullBatch
<1>2. read \in [Readers -> Nat] /\ Len(streams[r]) \in Nat
  BY StreamType DEF TypeOK
<1>3. read'[r] = read[r] + 1 /\ \A q \in Readers : q # r => read'[q] = read[q]
  BY <1>1, <1>2
<1>4. read[r] + 1 .. Len(streams[r]) = {read[r] + 1} \cup (read'[r] + 1 .. Len(streams[r]))
  BY <1>1, <1>2, <1>3
<1>5. Unread(r) = BatchPackets(streams, r, read[r] + 1) \cup Unread(r)'
  <2>1. Unread(r) = UNION { BatchPackets(streams, r, b) : b \in read[r] + 1 .. Len(streams[r]) }
    BY DEF Unread
  <2>2. Unread(r)' = UNION { BatchPackets(streams, r, b) : b \in read'[r] + 1 .. Len(streams[r]) }
    BY DEF Unread, BatchPackets
  <2>3. QED
    BY <1>4, <2>1, <2>2, Zenon
<1>6. \A q \in Readers : q # r => Unread(q)' = Unread(q)
  BY <1>3 DEF Unread, BatchPackets
<1>7. QED
  BY <1>5, <1>6

\* A step that takes nothing from a reader leaves its unread packets alone.
LEMMA UnreadUnchanged ==
  ASSUME UNCHANGED << streams, read >>, NEW r \in Readers
  PROVE  Unread(r)' = Unread(r)
BY DEF Unread, BatchPackets

LEMMA AllUnreadUnchanged ==
  ASSUME UNCHANGED << streams, read >>
  PROVE  AllUnread' = AllUnread
BY UnreadUnchanged DEF AllUnread

\* Until it is written, a packet moves between the streams, the heap and the
\* loop's hand, and is never dropped on the way.
LEMMA RemainingKept ==
  ASSUME TypeOK, [Next]_vars, ~ Emit
  PROVE  Remaining' = Remaining
<1> USE DEF Remaining
<1>1. CASE Pop
  <2>1. PICK e \in heap : heap' = heap \ {e} /\ entry' = e /\ e # NoEntry
    BY <1>1, NoEntryAssumption DEF Pop, Top, TypeOK
  <2>2. InHand' = {e} /\ InHand = {}
    BY <1>1, <2>1 DEF InHand, Pop, TypeOK
  <2>3. AllUnread' = AllUnread
    BY <1>1, AllUnreadUnchanged DEF Pop
  <2>4. QED
    BY <2>1, <2>2, <2>3
<1>2. CASE Pull
  <2>1. PICK i \in Readers : index = i /\ UNCHANGED streams /\ UNCHANGED entry
    BY <1>2, MergeAssumption DEF Pull, Readers, TypeOK
  <2>2. InHand' = InHand
    BY <2>1 DEF InHand
  <2>3. CASE PullBatch(i)
    <3> DEFINE B == BatchPackets(streams, i, read[i] + 1)
    <3>1. heap' = heap \cup B
      BY <2>3 DEF PullBatch
    <3>2. Unread(i) = B \cup Unread(i)' /\ \A q \in Readers : q # i => Unread(q)' = Unread(q)
      BY <2>1, <2>3, UnreadAfterPull
    <3> HIDE DEF B
    <3>3. AllUnread = B \cup AllUnread'
      BY <3>2 DEF AllUnread
    <3>4. QED
      BY <2>2, <3>1, <3>3
  <2>4. CASE PullFinished(i)
    <3>1. AllUnread' = AllUnread
      BY <2>1, <2>4, AllUnreadUnchanged DEF PullFinished
    <3>2. QED
      BY <2>2, <2>4, <3>1 DEF PullFinished
  <2>5. QED
    BY <1>2, <2>1, <2>3, <2>4 DEF Pull
<1>3. CASE PutBack
  <2>1. entry # NoEntry /\ heap' = heap \cup {entry} /\ InHand' = {}
    BY <1>3 DEF PutBack, Settled, NextTurn, InHand, TypeOK
  <2>2. AllUnread' = AllUnread
    BY <1>3, AllUnreadUnchanged DEF PutBack
  <2>3. QED
    BY <2>1, <2>2 DEF InHand
<1>4. CASE PopNothing \/ Skip \/ Drained \/ SweepAgain \/ EmitFails \/ UNCHANGED vars
  <2>1. UNCHANGED << streams, read, heap, entry >>
    BY <1>4 DEF PopNothing, Skip, Drained, SweepAgain, EmitFails, vars
  <2>2. AllUnread' = AllUnread
    BY <2>1, AllUnreadUnchanged
  <2>3. QED
    BY <2>1, <2>2 DEF InHand
<1>5. QED
  BY <1>1, <1>2, <1>3, <1>4 DEF Next, Step, Returned

\* Emit takes the popped entry out of what remains.
LEMMA RemainingAfterEmit ==
  ASSUME TypeOK, Emit
  PROVE  Remaining = Remaining' \cup {entry}
<1>1. heap' = heap /\ InHand' = {} /\ InHand = {entry}
  BY DEF Emit, Settled, NextTurn, InHand, TypeOK
<1>2. AllUnread' = AllUnread
  BY AllUnreadUnchanged DEF Emit
<1>3. QED
  BY <1>1, <1>2 DEF Remaining

\* The bound of a reader stays below what the reader still has.
LEMMA BoundStep ==
  ASSUME TypeOK, BoundSound, [Next]_vars, BaseSorted(streams)
  PROVE  BoundSound'
<1>1. CASE Pull
  <2>1. PICK i \in Readers : index = i /\ UNCHANGED streams
    BY <1>1, MergeAssumption DEF Pull, Readers, TypeOK
  <2>2. CASE PullBatch(i)
    <3> DEFINE b == read[i] + 1
    <3>1. lower_bound' = [lower_bound EXCEPT ![i] = Least(streams[i][b])]
      BY <2>2 DEF PullBatch
    <3>2. read'[i] = b /\ b \in 1 .. Len(streams[i]) /\ b \in Nat
      BY <2>1, <2>2, StreamType DEF PullBatch, TypeOK
    <3> HIDE DEF b
    <3>3. ASSUME NEW p \in Unread(i)' PROVE lower_bound'[i] <= p.timestamp
      <4>1. PICK c \in b + 1 .. Len(streams[i]) : p \in BatchPackets(streams, i, c)
        BY <2>1, <3>2, <3>3 DEF Unread
      <4>2. PICK g \in 1 .. Len(streams[i][c]) : p.timestamp = streams[i][c][g]
        BY <4>1 DEF BatchPackets
      <4>3. c \in 1 .. Len(streams[i]) /\ b < c
        BY <3>2, <4>1, <2>1, StreamType DEF TypeOK
      <4>4. DOMAIN streams[i] = 1 .. Len(streams[i])
            /\ DOMAIN streams[i][c] = 1 .. Len(streams[i][c])
        BY <2>1, <4>3, MergeAssumption, BatchType, SMTT(60) DEF TypeOK
      <4>5. p.timestamp \in Range(streams[i][c])
        BY <4>2, <4>4 DEF Range
      <4>6. Least(streams[i][b]) <= p.timestamp
        <5>1. b \in DOMAIN streams[i] /\ c \in DOMAIN streams[i]
          BY <3>2, <4>3, <4>4
        <5> QED
          BY <2>1, <4>3, <4>5, <5>1 DEF BaseSorted
      <4>7. lower_bound'[i] = Least(streams[i][b])
        BY <2>1, <3>1 DEF TypeOK
      <4>8. QED
        BY <4>6, <4>7
    <3>4. ASSUME NEW q \in Readers, q # i
          PROVE  Unread(q)' = Unread(q) /\ lower_bound'[q] = lower_bound[q]
      BY <2>1, <2>2, <3>1, <3>4, UnreadAfterPull DEF TypeOK
    <3>5. QED
      BY <3>3, <3>4 DEF BoundSound
  <2>3. CASE PullFinished(i)
    <3>1. Unread(i)' = {}
      <4>1. read'[i] = Len(streams[i]) /\ Len(streams[i]) \in Nat
        BY <2>1, <2>3, StreamType DEF PullFinished, TypeOK
      <4>2. read'[i] + 1 .. Len(streams[i]) = {}
        BY <4>1
      <4>3. QED
        BY <2>1, <4>2 DEF Unread
    <3>2. ASSUME NEW q \in Readers, q # i
          PROVE  Unread(q)' = Unread(q) /\ lower_bound'[q] = lower_bound[q]
      BY <2>1, <2>3, <3>2, UnreadUnchanged DEF PullFinished, TypeOK
    <3>3. QED
      BY <3>1, <3>2 DEF BoundSound
  <2>4. QED
    BY <1>1, <2>1, <2>2, <2>3 DEF Pull
<1>2. CASE ~ Pull
  <2>1. UNCHANGED << streams, read, lower_bound >>
    BY <1>2 DEF Next, Step, Returned, Pop, PopNothing, Skip, Drained, SweepAgain, PutBack,
                Emit, EmitFails, vars
  <2>2. \A r \in Readers : Unread(r)' = Unread(r)
    BY <2>1, UnreadUnchanged
  <2>3. QED
    BY <2>1, <2>2 DEF BoundSound
<1>3. QED
  BY <1>1, <1>2

\* The sweep that pulls nothing has checked each reader it passed.
LEMMA SweptStep ==
  ASSUME TypeOK, SweptSound, [Next]_vars
  PROVE  SweptSound'
<1> SUFFICES ASSUME pc' = "refill", ~ pulled', NEW r \in Readers, r < index'
             PROVE  entry'.timestamp <= lower_bound'[r]
  BY DEF SweptSound
<1>1. CASE Pop \/ SweepAgain
  <2>1. index' = 0 /\ 0 <= r
    BY <1>1, MergeAssumption DEF Pop, SweepAgain, StartSweep, Readers
  <2>2. QED
    BY <2>1, MergeAssumption DEF Readers
<1>2. CASE Skip
  <2>1. /\ pc = "refill" /\ ~ pulled /\ UNCHANGED << entry, lower_bound >>
        /\ index' = index + 1 /\ index < ReaderCount /\ ~ Wanted(index)
    BY <1>2 DEF Skip
  <2>2. CASE r < index
    BY <2>1, <2>2 DEF SweptSound
  <2>3. CASE r = index
    <3>1. ~ (lower_bound[r] < entry.timestamp)
      BY <2>1, <2>3 DEF Wanted
    <3>2. lower_bound[r] \in Int /\ entry.timestamp \in Int
      BY <2>1, TimeIsInt DEF TypeOK, Packet
    <3>3. QED
      BY <2>1, <3>1, <3>2
  <2>4. QED
    BY <2>1, <2>2, <2>3, MergeAssumption DEF Readers, TypeOK
<1>3. CASE UNCHANGED vars
  BY <1>3 DEF vars, SweptSound
<1>4. CASE PopNothing \/ Pull \/ Drained \/ PutBack \/ Emit \/ EmitFails
  BY <1>4 DEF PopNothing, StartSweep, Pull, Drained, PutBack, Emit, NextTurn, EmitFails
<1>5. QED
  BY <1>1, <1>2, <1>3, <1>4 DEF Next, Step, Returned

\* When the loop emits, nothing that remains is earlier.
LEMMA EmitIsEarliest ==
  ASSUME TypeOK, BoundSound, SweptSound, Settled, ~ Earlier
  PROVE  \A p \in Remaining : entry.timestamp <= p.timestamp
<1>1. entry \in Packet /\ entry.timestamp \in Int
  BY TimeIsInt DEF TypeOK, Settled, Packet
<1>2. ASSUME NEW p \in heap PROVE entry.timestamp <= p.timestamp
  <2>1. p.timestamp \in Int
    BY TimeIsInt DEF TypeOK, Packet
  <2>2. QED
    BY <1>1, <2>1 DEF Earlier
<1>3. ASSUME NEW p \in AllUnread PROVE entry.timestamp <= p.timestamp
  <2>0. PICK r \in Readers : p \in Unread(r)
    BY DEF AllUnread
  <2>1. entry.timestamp <= lower_bound[r]
    BY MergeAssumption DEF SweptSound, Settled, Readers
  <2>2. lower_bound[r] <= p.timestamp
    BY <2>0 DEF BoundSound
  <2>3. lower_bound[r] \in Int
    BY TimeIsInt DEF TypeOK
  <2>4. p.timestamp \in Int
    <3>1. PICK b \in read[r] + 1 .. Len(streams[r]) : p \in BatchPackets(streams, r, b)
      BY <2>0 DEF Unread
    <3>2. b \in 1 .. Len(streams[r])
      BY <3>1, StreamType DEF TypeOK
    <3>3. p \in Packet
      BY <3>1, <3>2, BatchType DEF TypeOK
    <3>4. QED
      BY <3>3, TimeIsInt DEF Packet
  <2>5. QED
    BY <1>1, <2>1, <2>2, <2>3, <2>4
<1>4. QED
  BY <1>1, <1>2, <1>3 DEF Remaining, InHand

LEMMA OrderStep ==
  ASSUME OrderInv, [Next]_vars, BaseSorted(streams)
  PROVE  OrderInv'
<1> USE DEF OrderInv
<1>1. TypeOK' /\ BoundSound' /\ SweptSound' /\ Remaining' \subseteq Remaining
  BY StepType, BoundStep, SweptStep, RemainingKept, RemainingAfterEmit
<1>2. CASE Emit
  <2>1. entry \in Packet /\ emitted' = Append(emitted, entry) /\ emitted \in Seq(Packet)
    BY <1>2 DEF Emit, Settled, TypeOK
  <2>2. /\ DOMAIN emitted' = 1 .. Len(emitted) + 1 /\ DOMAIN emitted = 1 .. Len(emitted)
        /\ Len(emitted) \in Nat
        /\ \A j \in 1 .. Len(emitted) : emitted'[j] = emitted[j]
        /\ emitted'[Len(emitted) + 1] = entry
    BY <2>1
  <2>3. \A p \in Remaining : entry.timestamp <= p.timestamp
    BY <1>2, EmitIsEarliest DEF Emit
  <2>4. WrittenFirst'
    <3>1. ASSUME NEW j \in DOMAIN emitted', NEW p \in Remaining'
          PROVE  emitted'[j].timestamp <= p.timestamp
      <4>1. p \in Remaining
        BY <1>1
      <4>2. CASE j = Len(emitted) + 1
        BY <2>2, <2>3, <4>1, <4>2
      <4>3. CASE j \in 1 .. Len(emitted)
        BY <2>2, <4>1, <4>3 DEF WrittenFirst
      <4>4. QED
        BY <2>2, <4>2, <4>3
    <3>2. QED
      BY <3>1 DEF WrittenFirst
  <2>5. entry \in Remaining
    BY <1>2 DEF Emit, Settled, TypeOK, Remaining, InHand
  <2>6. OutputSorted'
    <3>1. ASSUME NEW j \in DOMAIN emitted', NEW k \in DOMAIN emitted', j < k
          PROVE  emitted'[j].timestamp <= emitted'[k].timestamp
      <4>1. j \in 1 .. Len(emitted)
        BY <2>2, <3>1
      <4>2. CASE k = Len(emitted) + 1
        BY <2>2, <2>5, <4>1, <4>2 DEF WrittenFirst
      <4>3. CASE k \in 1 .. Len(emitted)
        BY <2>2, <3>1, <4>1, <4>3 DEF OutputSorted
      <4>4. QED
        BY <2>2, <4>2, <4>3
    <3>2. QED
      BY <3>1 DEF OutputSorted
  <2>7. QED
    BY <1>1, <2>4, <2>6
<1>3. CASE ~ Emit
  <2>1. UNCHANGED emitted
    BY <1>3 DEF Next, Step, Returned, Pop, PopNothing, Pull, Skip, Drained, SweepAgain, PutBack,
                EmitFails, vars
  <2>2. WrittenFirst' /\ OutputSorted'
    BY <1>1, <2>1 DEF WrittenFirst, OutputSorted
  <2>3. QED
    BY <1>1, <2>2
<1>4. QED
  BY <1>2, <1>3

LEMMA OrderInit == Init => OrderInv
<1> SUFFICES ASSUME Init PROVE OrderInv
  OBVIOUS
<1>1. TypeOK
  BY InitType
<1>2. BoundSound
  <2>1. ASSUME NEW r \in Readers, NEW p \in Unread(r) PROVE lower_bound[r] <= p.timestamp
    <3>1. PICK b \in 1 .. Len(streams[r]) : p \in BatchPackets(streams, r, b)
      BY DEF Unread, Init
    <3>2. p \in Packet
      BY <3>1, BatchType DEF Init
    <3>3. QED
      BY <3>2, MergeAssumption DEF Packet, Time, Init
  <2>2. QED
    BY <2>1 DEF BoundSound
<1>3. QED
  BY <1>1, <1>2 DEF Init, OrderInv, SweptSound, WrittenFirst, OutputSorted

\* Whatever the number of readers, their packets and the jitter, merge_batches
\* hands the packets to `emit` in non-decreasing timestamp order, provided each
\* stream is base sorted.
THEOREM OutputInOrder ==
  ASSUME \A s \in Inputs : BaseSorted(s)
  PROVE  Spec => []OutputSorted
<1>1. OrderInv => BaseSorted(streams)
  BY DEF OrderInv, TypeOK
<1>2. OrderInv /\ [Next]_vars => OrderInv'
  BY <1>1, OrderStep
<1>3. OrderInv => OutputSorted
  BY DEF OrderInv
<1>4. QED
  BY OrderInit, <1>2, <1>3, PTL DEF Spec

-----------------------------------------------------------------------------
(* Nothing is lost.  Packets are told apart by their position in the input,  *)
(* so a pulled batch meets none of the packets pulled before it.             *)

\* The packets pulled so far come from batches the reader has passed.
LEMMA PulledBatches ==
  ASSUME TypeOK, NEW r \in Readers
  PROVE  /\ Pulled(r) \subseteq Packet
         /\ \A p \in Pulled(r) : p.reader = r /\ p.batch \in Nat /\ p.batch <= read[r]
<1> SUFFICES ASSUME NEW p \in Pulled(r)
             PROVE  p \in Packet /\ p.reader = r /\ p.batch \in Nat /\ p.batch <= read[r]
  OBVIOUS
<1>1. PICK b \in 1 .. read[r] : p \in BatchPackets(streams, r, b)
  BY DEF Pulled
<1>2. b \in 1 .. Len(streams[r]) /\ b \in Nat /\ b <= read[r]
  BY <1>1, StreamType DEF TypeOK
<1>3. p \in Packet
  BY <1>1, <1>2, BatchType DEF TypeOK
<1>4. p.reader = r /\ p.batch = b
  BY <1>1 DEF BatchPackets
<1>5. QED
  BY <1>2, <1>3, <1>4

LEMMA PulledAfterPull ==
  ASSUME TypeOK, NEW r \in Readers, PullBatch(r), UNCHANGED streams
  PROVE  /\ Pulled(r)' = Pulled(r) \cup BatchPackets(streams, r, read[r] + 1)
         /\ \A q \in Readers : q # r => Pulled(q)' = Pulled(q)
         /\ BatchPackets(streams, r, read[r] + 1) \cap UNION { Pulled(q) : q \in Readers } = {}
<1>1. read' = [read EXCEPT ![r] = read[r] + 1] /\ read[r] + 1 <= Len(streams[r])
  BY DEF PullBatch
<1>2. read \in [Readers -> Nat] /\ Len(streams[r]) \in Nat
  BY StreamType DEF TypeOK
<1>3. read'[r] = read[r] + 1 /\ \A q \in Readers : q # r => read'[q] = read[q]
  BY <1>1, <1>2
<1>4. 1 .. read'[r] = (1 .. read[r]) \cup {read[r] + 1}
  BY <1>2, <1>3
<1>5. Pulled(r)' = Pulled(r) \cup BatchPackets(streams, r, read[r] + 1)
  <2>1. Pulled(r) = UNION { BatchPackets(streams, r, b) : b \in 1 .. read[r] }
    BY DEF Pulled
  <2>2. Pulled(r)' = UNION { BatchPackets(streams, r, b) : b \in 1 .. read'[r] }
    BY DEF Pulled, BatchPackets
  <2>3. QED
    BY <1>4, <2>1, <2>2, Zenon
<1>6. \A q \in Readers : q # r => Pulled(q)' = Pulled(q)
  BY <1>3 DEF Pulled, BatchPackets
<1>7. ASSUME NEW p \in BatchPackets(streams, r, read[r] + 1), NEW q \in Readers
      PROVE  p \notin Pulled(q)
  <2>1. p.reader = r /\ p.batch = read[r] + 1
    BY DEF BatchPackets
  <2>2. p \in Pulled(q) => p.reader = q /\ p.batch <= read[q]
    BY PulledBatches
  <2>3. QED
    BY <1>2, <2>1, <2>2
<1>8. QED
  BY <1>5, <1>6, <1>7

\* What is unread has not been pulled.
LEMMA UnreadNotPulled ==
  ASSUME TypeOK, NEW r \in Readers, NEW q \in Readers
  PROVE  Unread(r) \cap Pulled(q) = {}
<1> SUFFICES ASSUME NEW p \in Unread(r), p \in Pulled(q) PROVE FALSE
  OBVIOUS
<1>1. PICK b \in read[r] + 1 .. Len(streams[r]) : p \in BatchPackets(streams, r, b)
  BY DEF Unread
<1>2. p.reader = r /\ p.batch = b
  BY <1>1 DEF BatchPackets
<1>3. p.reader = q /\ p.batch <= read[q]
  BY PulledBatches
<1>4. read[r] \in Nat /\ Len(streams[r]) \in Nat
  BY StreamType DEF TypeOK
<1>5. QED
  BY <1>1, <1>2, <1>3, <1>4

LEMMA PulledUnchanged ==
  ASSUME UNCHANGED << streams, read >>, NEW r \in Readers
  PROVE  Pulled(r)' = Pulled(r)
BY DEF Pulled, BatchPackets

LEMMA ConservedStep ==
  ASSUME TypeOK, Conserved, [Next]_vars
  PROVE  Conserved'
<1>1. CASE Pop
  <2>1. PICK e \in heap : heap' = heap \ {e} /\ entry' = e /\ e # NoEntry
    BY <1>1, NoEntryAssumption DEF Pop, Top, TypeOK
  <2>2. InHand' = {e} /\ InHand = {}
    BY <1>1, <2>1 DEF InHand, Pop, TypeOK
  <2>3. AllPulled' = AllPulled /\ UNCHANGED emitted
    BY <1>1, PulledUnchanged DEF Pop, AllPulled
  <2>4. QED
    BY <2>1, <2>2, <2>3 DEF Conserved, AllPulled, Written
<1>2. CASE Pull
  <2>1. PICK i \in Readers : /\ index = i /\ UNCHANGED streams /\ UNCHANGED entry
                             /\ UNCHANGED emitted
    BY <1>2, MergeAssumption DEF Pull, Readers, TypeOK
  <2>2. InHand' = InHand /\ Written' = Written
    BY <2>1 DEF InHand, Written
  <2>3. CASE PullBatch(i)
    <3> DEFINE B == BatchPackets(streams, i, read[i] + 1)
    <3>1. heap' = heap \cup B
      BY <2>3 DEF PullBatch
    <3>2. /\ Pulled(i)' = Pulled(i) \cup B
          /\ \A q \in Readers : q # i => Pulled(q)' = Pulled(q)
          /\ B \cap AllPulled = {}
      BY <2>1, <2>3, PulledAfterPull DEF AllPulled
    <3> HIDE DEF B
    <3>3. AllPulled' = AllPulled \cup B
      BY <3>2 DEF AllPulled
    <3>4. Written \cup heap \cup InHand = AllPulled
      BY DEF Conserved, AllPulled
    <3>5. /\ Written' \cup heap' \cup InHand' = AllPulled'
          /\ Written' \cap (heap' \cup InHand') = {} /\ heap' \cap InHand' = {}
      BY <2>2, <3>1, <3>2, <3>3, <3>4 DEF Conserved
    <3>6. QED
      BY <2>1, <3>5 DEF Conserved, AllPulled
  <2>4. CASE PullFinished(i)
    <3>1. AllPulled' = AllPulled
      BY <2>1, <2>4, PulledUnchanged DEF PullFinished, AllPulled
    <3>2. QED
      BY <2>1, <2>2, <2>4, <3>1 DEF PullFinished, Conserved, AllPulled
  <2>5. QED
    BY <1>2, <2>1, <2>3, <2>4 DEF Pull
<1>3. CASE PutBack
  <2>1. entry # NoEntry /\ heap' = heap \cup {entry} /\ InHand' = {}
    BY <1>3 DEF PutBack, Settled, NextTurn, InHand, TypeOK
  <2>2. AllPulled' = AllPulled /\ UNCHANGED emitted /\ InHand = {entry}
    BY <1>3, <2>1, PulledUnchanged DEF PutBack, AllPulled, InHand
  <2>3. QED
    BY <2>1, <2>2 DEF Conserved, AllPulled, Written
<1>4. CASE Emit
  <2>1. /\ entry \in Packet /\ heap' = heap /\ InHand' = {} /\ InHand = {entry}
        /\ emitted' = Append(emitted, entry) /\ emitted \in Seq(Packet)
    BY <1>4 DEF Emit, Settled, NextTurn, InHand, TypeOK
  <2>2. AllPulled' = AllPulled
    BY <1>4, PulledUnchanged DEF Emit, AllPulled
  <2>3. /\ DOMAIN emitted' = 1 .. Len(emitted) + 1 /\ DOMAIN emitted = 1 .. Len(emitted)
        /\ Len(emitted) \in Nat
        /\ \A j \in 1 .. Len(emitted) : emitted'[j] = emitted[j]
        /\ emitted'[Len(emitted) + 1] = entry
    BY <2>1
  <2>4. Written' = Written \cup {entry}
    BY <2>3 DEF Written, Range
  <2>5. entry \notin Written /\ entry \notin heap
    BY <2>1 DEF Conserved
  <2>6. \A j \in DOMAIN emitted : emitted[j] # entry
    BY <2>5 DEF Written, Range
  <2>7. ASSUME NEW j \in DOMAIN emitted', NEW k \in DOMAIN emitted', emitted'[j] = emitted'[k]
        PROVE  j = k
    BY <2>3, <2>6, <2>7 DEF Conserved
  <2>8. Written \cup heap \cup InHand = AllPulled /\ Written \cap heap = {}
    BY DEF Conserved, AllPulled
  <2>9. Written' \cup heap' \cup InHand' = AllPulled'
    BY <2>1, <2>2, <2>4, <2>8
  <2>10. Written' \cap (heap' \cup InHand') = {} /\ heap' \cap InHand' = {}
    BY <2>1, <2>4, <2>5, <2>8
  <2>11. QED
    BY <2>7, <2>9, <2>10 DEF Conserved, AllPulled
<1>5. CASE PopNothing \/ Skip \/ Drained \/ SweepAgain \/ EmitFails \/ UNCHANGED vars
  <2>1. UNCHANGED << streams, read, heap, entry, emitted >>
    BY <1>5 DEF PopNothing, Skip, Drained, SweepAgain, EmitFails, vars
  <2>2. AllPulled' = AllPulled
    BY <2>1, PulledUnchanged DEF AllPulled
  <2>3. QED
    BY <2>1, <2>2 DEF Conserved, InHand, Written, AllPulled
<1>6. QED
  BY <1>1, <1>2, <1>3, <1>4, <1>5 DEF Next, Step, Returned

LEMMA ConservedInit == Init => Conserved
<1> SUFFICES ASSUME Init PROVE Conserved
  OBVIOUS
<1>1. \A r \in Readers : Pulled(r) = {}
  BY DEF Init, Pulled
<1>2. Written = {} /\ heap = {} /\ InHand = {}
  BY DEF Init, Written, Range, InHand
<1>3. QED
  BY <1>1, <1>2 DEF Conserved, AllPulled, Init

\* Every packet of a pulled batch is at any time in exactly one place: the
\* heap, the loop's hand or, once, the output.
THEOREM NothingLostOrDoubled == Spec => []Conserved
<1>1. TypeOK /\ Conserved /\ [Next]_vars => Conserved'
  BY ConservedStep
<1>2. QED
  BY ConservedInit, <1>1, TypeCorrect, PTL DEF Spec

-----------------------------------------------------------------------------
(* The count of packets in flight, and the end of the merge.                 *)

HeapOf(h, r) == { e \in h : e.reader = r }

\* A batch of n timestamps makes n packets.
LEMMA BatchSize ==
  ASSUME NEW s \in Inputs, NEW r \in Readers, NEW b \in 1 .. Len(s[r])
  PROVE  /\ IsFiniteSet(BatchPackets(s, r, b))
         /\ Cardinality(BatchPackets(s, r, b)) = Len(s[r][b])
<1> DEFINE n == Len(s[r][b])
           P(g) == [reader |-> r, batch |-> b, group |-> g, timestamp |-> s[r][b][g]]
           f == [g \in 1 .. n |-> P(g)]
           B == BatchPackets(s, r, b)
<1>1. n \in Nat
  BY BatchType
<1>2. f \in [1 .. n -> B]
  BY DEF BatchPackets
<1>3. \A g, h \in 1 .. n : f[g] = f[h] => g = h
  <2>1. ASSUME NEW g \in 1 .. n, NEW h \in 1 .. n, f[g] = f[h] PROVE g = h
    <3>1. f[g].group = g /\ f[h].group = h
      OBVIOUS
    <3>2. QED
      BY <2>1, <3>1
  <2>2. QED
    BY <2>1
<1>4. \A p \in B : \E g \in 1 .. n : f[g] = p
  BY DEF BatchPackets
<1> HIDE DEF f, B, n
<1>5. f \in Bijection(1 .. n, B)
  BY <1>2, <1>3, <1>4 DEF Bijection, Injection, Surjection, IsInjective
<1>6. IsFiniteSet(1 .. n) /\ Cardinality(1 .. n) = n
  BY <1>1, FS_Interval
<1>7. QED
  BY <1>5, <1>6, FS_Bijection DEF ExistsBijection, n, B

FlightInv == IsFiniteSet(heap) /\ InFlightExact

LEMMA FlightStep ==
  ASSUME TypeOK, Conserved, FlightInv, [Next]_vars
  PROVE  FlightInv'
<1> USE DEF FlightInv
<1>0. \A r \in Readers : /\ IsFiniteSet(HeapOf(heap, r))
                         /\ in_flight[r] = Cardinality(HeapOf(heap, r))
  <2>1. ASSUME NEW r \in Readers PROVE IsFiniteSet(HeapOf(heap, r))
    BY FS_Subset DEF HeapOf
  <2>2. QED
    BY <2>1 DEF InFlightExact, HeapOf
<1>1. CASE Pop
  <2>1. PICK e \in heap : /\ heap' = heap \ {e}
                          /\ in_flight' = [in_flight EXCEPT ![e.reader] = @ - 1]
    BY <1>1 DEF Pop, Top
  <2>2. e.reader \in Readers
    BY DEF TypeOK, Packet
  <2>3. ASSUME NEW r \in Readers PROVE in_flight'[r] = Cardinality(HeapOf(heap', r))
    <3>1. CASE r = e.reader
      <4>1. HeapOf(heap', r) = HeapOf(heap, r) \ {e} /\ e \in HeapOf(heap, r)
        BY <2>1, <3>1 DEF HeapOf
      <4>2. Cardinality(HeapOf(heap', r)) = Cardinality(HeapOf(heap, r)) - 1
        BY <1>0, <4>1, FS_RemoveElement
      <4>3. QED
        BY <1>0, <2>1, <3>1, <4>2 DEF TypeOK
    <3>2. CASE r # e.reader
      <4>1. HeapOf(heap', r) = HeapOf(heap, r)
        BY <2>1, <3>2 DEF HeapOf
      <4>2. QED
        BY <1>0, <2>1, <3>2, <4>1 DEF TypeOK
    <3>3. QED
      BY <3>1, <3>2
  <2>4. QED
    BY <2>1, <2>3, FS_RemoveElement DEF InFlightExact, HeapOf
<1>2. CASE Pull
  <2>1. PICK i \in Readers : index = i /\ UNCHANGED streams
    BY <1>2, MergeAssumption DEF Pull, Readers, TypeOK
  <2>2. CASE PullBatch(i)
    <3> DEFINE b == read[i] + 1
               B == BatchPackets(streams, i, b)
    <3>1. /\ heap' = heap \cup B
          /\ in_flight' = [in_flight EXCEPT ![i] = @ + Len(streams[i][b])]
      BY <2>2 DEF PullBatch
    <3>2. B \cap heap = {}
      BY <2>1, <2>2, PulledAfterPull DEF Conserved, AllPulled
    <3>3. b \in 1 .. Len(streams[i])
      BY <2>2, StreamType DEF PullBatch, TypeOK
    <3>4. IsFiniteSet(B) /\ Cardinality(B) = Len(streams[i][b])
      BY <3>3, BatchSize DEF TypeOK
    <3>5. \A p \in B : p.reader = i
      BY DEF BatchPackets
    <3> HIDE DEF B, b
    <3>6. ASSUME NEW r \in Readers PROVE in_flight'[r] = Cardinality(HeapOf(heap', r))
      <4>1. CASE r = i
        <5>1. HeapOf(heap', r) = HeapOf(heap, r) \cup B /\ HeapOf(heap, r) \cap B = {}
          BY <3>1, <3>2, <3>5, <4>1 DEF HeapOf
        <5>2. Cardinality(HeapOf(heap', r)) = Cardinality(HeapOf(heap, r)) + Cardinality(B) - Cardinality({})
          BY <1>0, <3>4, <5>1, FS_Union
        <5>3. Cardinality({}) = 0 /\ Cardinality(HeapOf(heap, r)) \in Nat
              /\ Cardinality(B) \in Nat
          BY <1>0, <3>4, FS_EmptySet, FS_CardinalityType
        <5>4. in_flight'[r] = in_flight[r] + Len(streams[i][b])
          BY <3>1, <4>1 DEF TypeOK
        <5>5. QED
          BY <1>0, <3>4, <5>2, <5>3, <5>4
      <4>2. CASE r # i
        <5>1. HeapOf(heap', r) = HeapOf(heap, r)
          BY <3>1, <3>5, <4>2 DEF HeapOf
        <5>2. QED
          BY <1>0, <3>1, <4>2, <5>1 DEF TypeOK
      <4>3. QED
        BY <4>1, <4>2
    <3>7. IsFiniteSet(heap')
      BY <3>1, <3>4, FS_Union
    <3>8. QED
      BY <3>6, <3>7 DEF InFlightExact, HeapOf
  <2>3. CASE PullFinished(i)
    BY <2>3 DEF PullFinished, InFlightExact
  <2>4. QED
    BY <1>2, <2>1, <2>2, <2>3 DEF Pull
<1>3. CASE PutBack
  <2>1. /\ entry \in Packet /\ heap' = heap \cup {entry} /\ entry \notin heap
        /\ in_flight' = [in_flight EXCEPT ![entry.reader] = @ + 1]
    BY <1>3 DEF PutBack, Settled, TypeOK, Conserved, InHand
  <2>2. PICK e \in Packet : e = entry
    BY <2>1
  <2>3. e.reader \in Readers
    BY DEF Packet
  <2>4. ASSUME NEW r \in Readers PROVE in_flight'[r] = Cardinality(HeapOf(heap', r))
    <3>1. CASE r = e.reader
      <4>1. HeapOf(heap', r) = HeapOf(heap, r) \cup {e} /\ e \notin HeapOf(heap, r)
        BY <2>1, <2>2, <3>1 DEF HeapOf
      <4>2. Cardinality(HeapOf(heap', r)) = Cardinality(HeapOf(heap, r)) + 1
        BY <1>0, <4>1, FS_AddElement
      <4>3. QED
        BY <1>0, <2>1, <2>2, <3>1, <4>2 DEF TypeOK
    <3>2. CASE r # e.reader
      <4>1. HeapOf(heap', r) = HeapOf(heap, r)
        BY <2>1, <2>2, <3>2 DEF HeapOf
      <4>2. QED
        BY <1>0, <2>1, <2>2, <3>2, <4>1 DEF TypeOK
    <3>3. QED
      BY <3>1, <3>2
  <2>5. QED
    BY <2>1, <2>4, FS_AddElement DEF InFlightExact, HeapOf
<1>4. CASE ~ (Pop \/ Pull \/ PutBack)
  <2>1. UNCHANGED << heap, in_flight >>
    BY <1>4 DEF Next, Step, Returned, PopNothing, Skip, Drained, SweepAgain, Emit, EmitFails, vars
  <2>2. QED
    BY <2>1 DEF InFlightExact
<1>5. QED
  BY <1>1, <1>2, <1>3, <1>4

\* in_flight counts the packets of the reader that are in the heap, so the
\* unsigned decrement of the loop never underflows.
THEOREM InFlightIsExact == Spec => []InFlightExact
<1>1. Init => FlightInv
  <2>1. ASSUME Init, NEW r \in Readers PROVE in_flight[r] = Cardinality(HeapOf(heap, r))
    <3>1. HeapOf(heap, r) = {} /\ in_flight[r] = 0
      BY <2>1 DEF Init, HeapOf
    <3>2. QED
      BY <3>1, FS_EmptySet
  <2>2. QED
    BY <2>1, FS_EmptySet DEF Init, FlightInv, InFlightExact, HeapOf
<1>2. TypeOK /\ Conserved /\ FlightInv /\ [Next]_vars => FlightInv'
  BY FlightStep
<1>3. FlightInv => InFlightExact
  BY DEF FlightInv
<1>4. QED
  BY <1>1, <1>2, <1>3, TypeCorrect, NothingLostOrDoubled, PTL DEF Spec

\* A drain that pulled nothing has found every reader it passed finished, and
\* after Ok all of them are.
DrainInv ==
  /\ pc = "drain" /\ ~ pulled =>
       heap = {} /\ \A r \in Readers : r < index => lower_bound[r] = MaxTime
  /\ pc = "done" => heap = {} /\ \A r \in Readers : lower_bound[r] = MaxTime

LEMMA DrainStep ==
  ASSUME TypeOK, InFlightExact, DrainInv, [Next]_vars
  PROVE  DrainInv'
<1>1. CASE PopNothing
  <2>1. pc' = "drain" /\ heap' = {} /\ index' = 0
    BY <1>1 DEF PopNothing, StartSweep
  <2>2. \A r \in Readers : ~ (r < 0)
    BY MergeAssumption DEF Readers
  <2>3. QED
    BY <2>1, <2>2 DEF DrainInv
<1>2. CASE Skip /\ pc = "drain" /\ ~ pulled
  <2>1. /\ UNCHANGED << heap, lower_bound, pc >> /\ index' = index + 1 /\ ~ Wanted(index)
        /\ index \in Readers
    BY <1>2, MergeAssumption DEF Skip, Readers, TypeOK
  <2>2. PICK i \in Readers : i = index
    BY <2>1
  <2>3. heap = {} /\ \A r \in Readers : r < i => lower_bound[r] = MaxTime
    BY <1>2, <2>2 DEF DrainInv
  <2>4. { e \in heap : e.reader = i } = {}
    BY <2>3
  <2>5. in_flight[i] = 0
    BY <2>4, FS_EmptySet DEF InFlightExact
  <2>6. lower_bound[i] = MaxTime
    BY <1>2, <2>1, <2>2, <2>5 DEF Wanted
  <2>7. \A r \in Readers : r < i + 1 => r < i \/ r = i
    BY MergeAssumption DEF Readers
  <2>8. QED
    BY <1>2, <2>1, <2>2, <2>3, <2>6, <2>7 DEF DrainInv
<1>3. CASE Drained /\ ~ pulled
  <2>1. /\ pc' = "done" /\ UNCHANGED << heap, lower_bound >>
        /\ pc = "drain" /\ index = ReaderCount
    BY <1>3 DEF Drained
  <2>2. \A r \in Readers : r < ReaderCount
    BY MergeAssumption DEF Readers
  <2>3. QED
    BY <1>3, <2>1, <2>2 DEF DrainInv
<1>4. CASE UNCHANGED vars
  BY <1>4 DEF vars, DrainInv
<1>5. CASE Pull \/ (Skip /\ ~ (pc = "drain" /\ ~ pulled))
  <2>1. pc' = pc /\ pc \in {"drain", "refill"} /\ (pc = "drain" => pulled')
    <3>1. CASE Pull
      BY <3>1 DEF Pull
    <3>2. CASE Skip /\ ~ (pc = "drain" /\ ~ pulled)
      BY <3>2 DEF Skip
    <3>3. QED
      BY <1>5, <3>1, <3>2
  <2>2. QED
    BY <2>1 DEF DrainInv
<1>6. CASE Pop \/ (Drained /\ pulled) \/ SweepAgain \/ PutBack \/ Emit \/ EmitFails
  <2>1. pc' \in {"pop", "refill", "failed"}
    BY <1>6 DEF Pop, StartSweep, Drained, SweepAgain, PutBack, Emit, NextTurn, EmitFails
  <2>2. QED
    BY <2>1 DEF DrainInv
<1>7. CASE Skip
  BY <1>2, <1>5, <1>7
<1>8. CASE Drained
  BY <1>3, <1>6, <1>8
<1>9. QED
  BY <1>1, <1>4, <1>5, <1>6, <1>7, <1>8 DEF Next, Step, Returned

\* Everything the loop relies on.
MergeInv == OrderInv /\ Conserved /\ FlightInv /\ DrainInv

LEMMA MergeInvariant ==
  ASSUME \A s \in Inputs : BaseSorted(s)
  PROVE  Spec => []MergeInv
<1>1. Init => MergeInv
  <2>1. Init => DrainInv
    BY DEF Init, DrainInv
  <2>2. Init => FlightInv
    <3>1. ASSUME Init, NEW r \in Readers PROVE in_flight[r] = Cardinality(HeapOf(heap, r))
      BY <3>1, FS_EmptySet DEF Init, HeapOf
    <3>2. QED
      BY <3>1, FS_EmptySet DEF Init, FlightInv, InFlightExact, HeapOf
  <2>3. QED
    BY <2>1, <2>2, OrderInit, ConservedInit DEF MergeInv
<1>2. MergeInv /\ [Next]_vars => MergeInv'
  <2>1. OrderInv => TypeOK /\ BaseSorted(streams)
    BY DEF OrderInv, TypeOK
  <2>2. FlightInv => InFlightExact
    BY DEF FlightInv
  <2>3. QED
    BY <2>1, <2>2, OrderStep, ConservedStep, FlightStep, DrainStep DEF MergeInv
<1>3. QED
  BY <1>1, <1>2, PTL DEF Spec

\* A reader whose bound is the finished mark has only packets stamped with it.
LEMMA FinishedReader ==
  ASSUME TypeOK, BoundSound, NEW r \in Readers, lower_bound[r] = MaxTime
  PROVE  \A p \in Unread(r) : p.timestamp = MaxTime
<1> SUFFICES ASSUME NEW p \in Unread(r) PROVE p.timestamp = MaxTime
  OBVIOUS
<1>1. PICK b \in read[r] + 1 .. Len(streams[r]) : p \in BatchPackets(streams, r, b)
  BY DEF Unread
<1>2. b \in 1 .. Len(streams[r])
  BY StreamType DEF TypeOK
<1>3. p.timestamp \in Time
  BY <1>1, <1>2, BatchType DEF TypeOK, Packet
<1>4. MaxTime <= p.timestamp
  BY DEF BoundSound
<1>5. QED
  BY <1>3, <1>4, MergeAssumption DEF Time

\* merge_batches returns Ok only once everything is written, but for packets
\* stamped i64::MAX.
THEOREM NothingIsLeftBehind ==
  ASSUME \A s \in Inputs : BaseSorted(s)
  PROVE  Spec => []NothingLeftBehind
<1>1. MergeInv => NothingLeftBehind
  BY FinishedReader DEF MergeInv, OrderInv, DrainInv, NothingLeftBehind
<1>2. QED
  BY <1>1, MergeInvariant, PTL

-----------------------------------------------------------------------------
(* Refinement: each turn of the loop is one step of the abstract merge or    *)
(* changes nothing it can see.                                               *)

\* The entry in hand is neither in the heap nor unread.
LEMMA EntryIsAlone ==
  ASSUME TypeOK, Conserved, entry # NoEntry
  PROVE  entry \notin heap /\ \A r \in Readers : entry \notin Unread(r)
<1>1. InHand = {entry}
  BY DEF InHand
<1>2. entry \notin heap /\ \E q \in Readers : entry \in Pulled(q)
  BY <1>1 DEF Conserved, AllPulled
<1>3. QED
  BY <1>2, UnreadNotPulled

LEMMA StepRefines ==
  ASSUME MergeInv, [Next]_vars
  PROVE  [Abstract!Next]_(Abstract!vars)
<1> DEFINE status  == IF pc \in {"done", "failed"} THEN pc ELSE "merging"
<1> USE DEF MergeInv, OrderInv
<1>2. CASE Emit
  <2>1. /\ Settled /\ ~ Earlier /\ pc = "refill" /\ pc' = "pop" /\ entry # NoEntry
        /\ emitted' = Append(emitted, entry) /\ heap' = heap /\ InHand' = {}
        /\ UNCHANGED << streams, read >>
    BY <1>2 DEF Emit, Settled, NextTurn, TypeOK, InHand
  <2>2. \A p \in Remaining : entry.timestamp <= p.timestamp
    BY <2>1, EmitIsEarliest
  <2>3. Remaining = Remaining' \cup {entry}
    BY <1>2, RemainingAfterEmit
  <2>4. entry \notin Remaining'
    <3>1. entry \notin heap /\ entry \notin AllUnread
      BY <2>1, EntryIsAlone DEF AllUnread
    <3>2. AllUnread' = AllUnread
      BY <2>1, AllUnreadUnchanged
    <3>3. QED
      BY <2>1, <3>1, <3>2 DEF Remaining
  <2>5. PICK p : p = entry
    OBVIOUS
  <2>6. p \in Remaining /\ Remaining' = Remaining \ {p}
    BY <2>3, <2>4, <2>5
  <2>7. status = "merging" /\ status' = "merging"
    BY <2>1
  <2>8. \A q \in Remaining : p.timestamp <= q.timestamp
    BY <2>2, <2>5
  <2>9. Abstract!Emit(p)
    BY <2>1, <2>5, <2>6, <2>7, <2>8 DEF Abstract!Emit
  <2>10. QED
    BY <2>6, <2>9 DEF Abstract!Next
<1>3. CASE ~ Emit
  <2>1. Remaining' = Remaining /\ emitted' = emitted
    <3>1. emitted' = emitted
      BY <1>3 DEF Next, Step, Returned, Pop, PopNothing, Pull, Skip, Drained, SweepAgain, PutBack,
                  EmitFails, vars
    <3>2. QED
      BY <1>3, <3>1, RemainingKept
  <2>2. CASE Drained /\ ~ pulled
    <3>1. pc = "drain" /\ pc' = "done" /\ index = ReaderCount /\ entry = NoEntry
      BY <2>2 DEF Drained, TypeOK
    <3>2. heap = {} /\ InHand = {}
      BY <2>2, <3>1 DEF DrainInv, InHand
    <3>3. \A r \in Readers : lower_bound[r] = MaxTime
      BY <2>2, <3>1, MergeAssumption DEF DrainInv, Readers
    <3>4. \A q \in Remaining : q.timestamp = MaxTime
      BY <3>2, <3>3, FinishedReader DEF Remaining, AllUnread
    <3>5. Abstract!Finish
      BY <2>1, <3>1, <3>4 DEF Abstract!Finish
    <3>6. QED
      BY <3>5 DEF Abstract!Next
  <2>3. CASE EmitFails
    <3>1. pc = "refill" /\ pc' = "failed"
      BY <2>3 DEF EmitFails, Settled
    <3>2. Abstract!Fail
      BY <2>1, <3>1 DEF Abstract!Fail
    <3>3. QED
      BY <3>2 DEF Abstract!Next
  <2>4. CASE ~ (Drained /\ ~ pulled) /\ ~ EmitFails
    <3>1. status' = status
      BY <1>3, <2>4 DEF Next, Step, Returned, Pop, PopNothing, StartSweep, Pull, Skip, Drained,
                        SweepAgain, PutBack, NextTurn, Settled, vars
    <3>2. QED
      BY <2>1, <3>1 DEF Abstract!vars
  <2>5. QED
    BY <2>2, <2>3, <2>4
<1>4. QED
  BY <1>2, <1>3

\* merge_batches implements the abstract merge for any base-sorted inputs.
THEOREM MergeImplementsSortedMerge ==
  ASSUME \A s \in Inputs : BaseSorted(s)
  PROVE  Spec => ImplementsSortedMerge
<1>1. Init => Abstract!Init
  BY DEF Init, Abstract!Init
<1>2. MergeInv /\ [Next]_vars => [Abstract!Next]_(Abstract!vars)
  BY StepRefines
<1>3. QED
  BY <1>1, <1>2, MergeInvariant, PTL DEF Spec, ImplementsSortedMerge, Abstract!Spec
=============================================================================
