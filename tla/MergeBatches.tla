---------------------------- MODULE MergeBatches ----------------------------
(***************************************************************************)
(* merge_batches and pull of tools/maja-mergecap/src/main.rs: the k-way    *)
(* merge of the inputs of one pass.                                        *)
(*                                                                         *)
(* A stream yields batches: the packets that every parallel group makes of *)
(* one input packet.  The packets of a batch are spread by the jitter of   *)
(* their group, so a batch may end later than the next one starts; the     *)
(* loop reads ahead until no stream can hold an earlier packet than the    *)
(* one it is about to emit.                                                *)
(*                                                                         *)
(* The heap is std::collections::BinaryHeap, here a set from which pop     *)
(* takes any greatest entry: all its documentation promises (MergeHeap     *)
(* refines it to the real array).                                          *)
(***************************************************************************)
EXTENDS Integers, Sequences, FiniteSets, FiniteSetsExt, Functions

CONSTANTS
  ReaderCount,      \* streams.len()
  MinTime, MaxTime, \* i64::MIN, i64::MAX
  Inputs,           \* what the streams may yield: functions from Readers to
                    \* sequences of batches, a batch a sequence of timestamps
  NoEntry           \* `entry` outside the loop body

Readers == 0 .. ReaderCount - 1
Time    == MinTime .. MaxTime
Batch   == Seq(Time) \ {<< >>}
Packet  == [reader : Readers, batch : Nat, group : Nat, timestamp : Time]

\* `parallel` is at least 1 (InputFile::validate), so no batch is empty.
ASSUME MergeAssumption ==
  /\ ReaderCount \in Nat
  /\ MinTime \in Int /\ MaxTime \in Int /\ MinTime < MaxTime
  /\ \A s \in Inputs : s \in [Readers -> Seq(Seq(Int) \ {<< >>})]
  /\ \A s \in Inputs : \A r \in Readers : \A b \in 1 .. Len(s[r]) :
       \A g \in 1 .. Len(s[r][b]) : s[r][b][g] \in Time

ASSUME NoEntryAssumption == NoEntry \notin Packet

VARIABLES
  streams,          \* the batches each reader yields; never changes
  read,             \* how many of them `pull` has taken
  heap,             \* entries of the BinaryHeap
  in_flight,        \* per reader: packets in the heap
  lower_bound,      \* per reader: bound of what it still has, MaxTime: finished
  entry,            \* the entry popped by this turn of the loop
  emitted,          \* packets handed to `emit`
  pc,               \* "pop", "drain" or "refill" (the two sweeps), "done", "failed"
  index, pulled     \* the sweep's loop variables

vars == << streams, read, heap, in_flight, lower_bound, entry, emitted, pc, index, pulled >>

-----------------------------------------------------------------------------
BatchPackets(s, r, b) ==
  { [reader |-> r, batch |-> b, group |-> g, timestamp |-> s[r][b][g]] :
      g \in 1 .. Len(s[r][b]) }

Unread(r) == UNION { BatchPackets(streams, r, b) : b \in read[r] + 1 .. Len(streams[r]) }
Pulled(r) == UNION { BatchPackets(streams, r, b) : b \in 1 .. read[r] }
Written   == Range(emitted)
InHand    == IF entry = NoEntry THEN {} ELSE {entry}
AllUnread == UNION { Unread(r) : r \in Readers }
AllPulled == UNION { Pulled(r) : r \in Readers }
Remaining == AllUnread \cup heap \cup InHand

\* Ord for HeapEntry, reversed: the entry BinaryHeap pops before another.
Before(e, f) ==
  \/ e.timestamp < f.timestamp
  \/ e.timestamp = f.timestamp /\ e.reader < f.reader

Top(h) == { e \in h : \A f \in h : ~ Before(f, e) }

Least(batch) == Min(Range(batch))

-----------------------------------------------------------------------------
Init ==
  /\ streams \in Inputs
  /\ read        = [r \in Readers |-> 0]
  /\ heap        = {}
  /\ in_flight   = [r \in Readers |-> 0]
  /\ lower_bound = [r \in Readers |-> MinTime]
  /\ entry       = NoEntry
  /\ emitted     = << >>
  /\ pc          = "pop"
  /\ index       = 0
  /\ pulled      = FALSE

StartSweep(which) == pc' = which /\ index' = 0 /\ pulled' = FALSE

\* heap.pop() of the outer loop.
Pop ==
  /\ pc = "pop"
  /\ \E e \in Top(heap) :
       /\ heap'      = heap \ {e}
       /\ entry'     = e
       /\ in_flight' = [in_flight EXCEPT ![e.reader] = @ - 1]
  /\ StartSweep("refill")
  /\ UNCHANGED << streams, read, lower_bound, emitted >>

PopNothing ==
  /\ pc = "pop" /\ heap = {}
  /\ StartSweep("drain")
  /\ UNCHANGED << streams, read, heap, in_flight, lower_bound, entry, emitted >>

\* Mutant: a reader is pulled only once its batch has left the heap.
WantedWhenDrained(r) ==
  \/ pc = "drain"  /\ in_flight[r] = 0 /\ lower_bound[r] # MaxTime
  \/ pc = "refill" /\ in_flight[r] = 0 /\ lower_bound[r] < entry.timestamp

\* Mutant: an empty heap starts the readers but does not continue them.
WantedOnce(r) ==
  \/ pc = "drain"  /\ lower_bound[r] = MinTime
  \/ pc = "refill" /\ lower_bound[r] < entry.timestamp

\* Which reader a sweep pulls: an idle one that is not finished when the heap
\* is empty, else one that may hold an earlier packet than the popped entry.
Wanted(r) ==
  \/ pc = "drain"  /\ in_flight[r] = 0 /\ lower_bound[r] # MaxTime
  \/ pc = "refill" /\ lower_bound[r] < entry.timestamp

\* pull(): the next batch of r into the heap, or the finished mark.
PullBatch(r) ==
  LET b == read[r] + 1 IN
  /\ b <= Len(streams[r])
  /\ read'        = [read EXCEPT ![r] = b]
  /\ lower_bound' = [lower_bound EXCEPT ![r] = Least(streams[r][b])]
  /\ in_flight'   = [in_flight EXCEPT ![r] = @ + Len(streams[r][b])]
  /\ heap'        = heap \cup BatchPackets(streams, r, b)

PullFinished(r) ==
  /\ read[r] = Len(streams[r])
  /\ lower_bound' = [lower_bound EXCEPT ![r] = MaxTime]
  /\ UNCHANGED << read, in_flight, heap >>

Pull ==
  /\ pc \in {"drain", "refill"} /\ index < ReaderCount
  /\ Wanted(index)
  /\ PullBatch(index) \/ PullFinished(index)
  /\ index' = index + 1 /\ pulled' = TRUE
  /\ UNCHANGED << streams, entry, emitted, pc >>

Skip ==
  /\ pc \in {"drain", "refill"} /\ index < ReaderCount
  /\ ~ Wanted(index)
  /\ index' = index + 1
  /\ UNCHANGED << streams, read, heap, in_flight, lower_bound, entry, emitted, pc, pulled >>

\* The end of the sweep over an empty heap: try again, or the merge is over.
Drained ==
  /\ pc = "drain" /\ index = ReaderCount
  /\ pc' = IF pulled THEN "pop" ELSE "done"
  /\ index' = 0 /\ pulled' = FALSE
  /\ UNCHANGED << streams, read, heap, in_flight, lower_bound, entry, emitted >>

\* One more turn of the read-ahead loop.
SweepAgain ==
  /\ pc = "refill" /\ index = ReaderCount /\ pulled
  /\ StartSweep("refill")
  /\ UNCHANGED << streams, read, heap, in_flight, lower_bound, entry, emitted >>

Settled == pc = "refill" /\ index = ReaderCount /\ ~ pulled
\* Mutant: no look at the heap after the refill.
EarlierIgnored == FALSE
\* Mutant: an equal timestamp counts as earlier.
EarlierOrEqual == \E e \in heap : e.timestamp <= entry.timestamp

Earlier == \E e \in heap : e.timestamp < entry.timestamp

NextTurn(state) == pc' = state /\ entry' = NoEntry /\ index' = 0 /\ pulled' = FALSE

\* Mutant: the packet goes back without being counted.
PutBackUncounted ==
  /\ Settled /\ Earlier
  /\ heap' = heap \cup {entry}
  /\ NextTurn("pop")
  /\ UNCHANGED << streams, read, in_flight, lower_bound, emitted >>

\* The refill revealed an earlier packet: the popped one goes back.
PutBack ==
  /\ Settled /\ Earlier
  /\ heap'      = heap \cup {entry}
  /\ in_flight' = [in_flight EXCEPT ![entry.reader] = @ + 1]
  /\ NextTurn("pop")
  /\ UNCHANGED << streams, read, lower_bound, emitted >>

Emit ==
  /\ Settled /\ ~ Earlier
  /\ emitted' = Append(emitted, entry)
  /\ NextTurn("pop")
  /\ UNCHANGED << streams, read, heap, in_flight, lower_bound >>

\* emit(entry.value)? when the output cannot be written.
EmitFails ==
  /\ Settled /\ ~ Earlier
  /\ pc' = "failed"
  /\ UNCHANGED << streams, read, heap, in_flight, lower_bound, entry, emitted, index, pulled >>

Returned == pc \in {"done", "failed"} /\ UNCHANGED vars

Step == Pop \/ PopNothing \/ Pull \/ Skip \/ Drained \/ SweepAgain \/ PutBack \/ Emit \/ EmitFails
Next == Step \/ Returned

Spec     == Init /\ [][Next]_vars
FairSpec == Spec /\ WF_vars(Step)

-----------------------------------------------------------------------------
(* Properties                                                              *)

\* Every variable keeps its type; the popped entry exists during a refill only.
TypeOK ==
  /\ streams \in Inputs
  /\ read \in [Readers -> Nat] /\ \A r \in Readers : read[r] <= Len(streams[r])
  /\ heap \subseteq Packet
  /\ in_flight \in [Readers -> Int]
  /\ lower_bound \in [Readers -> Time]
  /\ entry \in Packet \cup {NoEntry}
  /\ emitted \in Seq(Packet)
  /\ pc \in {"pop", "drain", "refill", "done", "failed"}
  /\ index \in 0 .. ReaderCount /\ pulled \in BOOLEAN
  /\ pc = "refill" => entry # NoEntry
  /\ pc \in {"pop", "drain", "done"} => entry = NoEntry

\* in_flight (a usize the loop decrements) never goes below what the heap
\* holds, so neither `-= 1` underflows nor does an idle reader look busy.
InFlightExact ==
  \A r \in Readers : in_flight[r] = Cardinality({ e \in heap : e.reader = r })

\* No packet is dropped or duplicated on its way from a pulled batch to the
\* output, however often it is put back.
Conserved ==
  /\ Written \cup heap \cup InHand = AllPulled
  /\ Written \cap (heap \cup InHand) = {} /\ heap \cap InHand = {}
  /\ \A j, k \in DOMAIN emitted : emitted[j] = emitted[k] => j = k

\* The output is in timestamp order, jitter across batch boundaries included.
OutputSorted ==
  \A j, k \in DOMAIN emitted : j < k => emitted[j].timestamp <= emitted[k].timestamp

\* The loop returns Ok only with everything written: a stream may be given up
\* early only where i64::MAX stamps its packets, the mark of a finished one.
NothingLeftBehind ==
  pc = "done" => /\ heap = {}
                 /\ \A r \in Readers : \A p \in Unread(r) : p.timestamp = MaxTime

\* merge_batches implements the abstract merge.
Abstract == INSTANCE SortedMerge WITH
  pending <- Remaining,
  output  <- emitted,
  status  <- IF pc \in {"done", "failed"} THEN pc ELSE "merging"

ImplementsSortedMerge == Abstract!Spec

\* The read-ahead and put-back loops always come to an end.
Terminates == <>(pc \in {"done", "failed"})

\* What merge_batches asks of its streams: the least timestamp of a batch is a
\* lower bound of everything the stream yields later.
BaseSorted(s) ==
  \A r \in Readers : \A b, c \in DOMAIN s[r] :
    b < c => \A t \in Range(s[r][c]) : Least(s[r][b]) <= t
=============================================================================
