----------------------------- MODULE MergeHeap -----------------------------
(***************************************************************************)
(* MergeBatches over the array that std::collections::BinaryHeap really    *)
(* keeps.  The comparison sees a timestamp and a reader only, so which of  *)
(* several equal packets leaves first is the array's doing, and that is    *)
(* what this module is about.  The array operations are those of std       *)
(* (push, pop and extend of BinaryHeap), reached from lines 339, 371 and   *)
(* 414 of tools/maja-mergecap/src/main.rs.                                 *)
(***************************************************************************)
EXTENDS MergeBatches, SequencesExt

VARIABLE data       \* the heap's Vec, root first

heapVars == << vars, data >>

-----------------------------------------------------------------------------
(* Positions are 1-based: the children of p are 2p and 2p + 1.             *)
\* Mutant: the comparison is not reversed.
NotAfterForward(e, f) == ~ Before(f, e)

NotAfter(e, f) == ~ Before(e, f)    \* e <= f in the order of the heap

Swap(d, p, q) == [d EXCEPT ![p] = d[q], ![q] = d[p]]

RECURSIVE SiftUp(_, _)
SiftUp(d, p) ==
  IF p = 1 \/ NotAfter(d[p], d[p \div 2]) THEN d
  ELSE SiftUp(Swap(d, p, p \div 2), p \div 2)

\* The greater child of p; the right one if they are equal.
Child(d, p) ==
  IF 2 * p < Len(d) /\ NotAfter(d[2 * p], d[2 * p + 1]) THEN 2 * p + 1 ELSE 2 * p

\* sift_down_to_bottom: to a leaf without comparing, then up again.
RECURSIVE SiftToBottom(_, _)
SiftToBottom(d, p) ==
  IF 2 * p > Len(d) THEN SiftUp(d, p)
  ELSE SiftToBottom(Swap(d, p, Child(d, p)), Child(d, p))

RECURSIVE SiftDown(_, _)
SiftDown(d, p) ==
  IF 2 * p > Len(d) \/ NotAfter(d[Child(d, p)], d[p]) THEN d
  ELSE SiftDown(Swap(d, p, Child(d, p)), Child(d, p))

HeapPop(d) ==
  IF Len(d) = 1 THEN << >>
  ELSE SiftToBottom(<< d[Len(d)] >> \o SubSeq(d, 2, Len(d) - 1), 1)

HeapPush(d, e) == SiftUp(Append(d, e), Len(d) + 1)

\* rebuild: every inner node sifted down, last one first.
Rebuild(d) ==
  FoldLeft(LAMBDA acc, p : SiftDown(acc, p), d, [k \in 1 .. Len(d) \div 2 |-> Len(d) \div 2 + 1 - k])

\* extend: rebuild when the tail outweighs the heap, else sift its elements up.
\* (std also rebuilds for tails long against log2 of the heap; tails here are
\* shorter than that.)
HeapExtend(d, tail) ==
  IF Len(d) < Len(tail) THEN Rebuild(d \o tail) ELSE FoldLeft(HeapPush, d, tail)

-----------------------------------------------------------------------------
BatchSeq(r, b) ==
  [g \in 1 .. Len(streams[r][b]) |->
     [reader |-> r, batch |-> b, group |-> g, timestamp |-> streams[r][b][g]]]

HeapInit == Init /\ data = << >>

HeapPopStep ==
  /\ data # << >>
  /\ Pop /\ entry' = Head(data)
  /\ data' = HeapPop(data)

HeapPull ==
  /\ Pull
  /\ data' = IF read'[index] = read[index] THEN data
             ELSE HeapExtend(data, BatchSeq(index, read'[index]))

HeapPutBack == PutBack /\ data' = HeapPush(data, entry)

HeapStep ==
  \/ HeapPopStep \/ HeapPull \/ HeapPutBack
  \/ (PopNothing \/ Skip \/ Drained \/ SweepAgain \/ Emit \/ EmitFails) /\ UNCHANGED data

HeapNext == HeapStep \/ (Returned /\ UNCHANGED data)

HeapSpec == HeapInit /\ [][HeapNext]_heapVars /\ WF_heapVars(HeapStep)

-----------------------------------------------------------------------------
\* The array holds the entries of the abstract heap, each once, and its root
\* is one BinaryHeap may pop: no entry is smaller in timestamp and reader.
HeapFaithful ==
  /\ Range(data) = heap /\ Len(data) = Cardinality(heap)
  /\ data # << >> => Head(data) \in Top(heap)
=============================================================================
