---------------------------- MODULE SortedMerge ----------------------------
(***************************************************************************)
(* What a merge of capture files promises, whatever reads them: packets    *)
(* leave in non-decreasing timestamp order, each one once, and the merge   *)
(* ends only when nothing is left, unless the output cannot be written.    *)
(*                                                                         *)
(* maja-mergecap keeps i64::MAX as the mark of a finished input            *)
(* (tools/maja-mergecap/src/main.rs), so packets stamped with it are the   *)
(* only ones the promise does not cover: they may be left behind.          *)
(***************************************************************************)
EXTENDS Integers, Sequences

CONSTANT MaxTime    \* i64::MAX

VARIABLES
  pending,          \* packets that have not been written yet
  output,           \* packets written, in order
  status            \* "merging", "done" or "failed"

vars == << pending, output, status >>

Init == output = << >> /\ status = "merging"

Emit(p) ==
  /\ status = "merging"
  /\ p \in pending
  /\ \A q \in pending : p.timestamp <= q.timestamp
  /\ output'  = Append(output, p)
  /\ pending' = pending \ {p}
  /\ UNCHANGED status

Finish ==
  /\ status = "merging"
  /\ \A q \in pending : q.timestamp = MaxTime
  /\ status' = "done"
  /\ UNCHANGED << pending, output >>

Fail ==
  /\ status = "merging"
  /\ status' = "failed"
  /\ UNCHANGED << pending, output >>

Next == (\E p \in pending : Emit(p)) \/ Finish \/ Fail

Spec == Init /\ [][Next]_vars
=============================================================================
