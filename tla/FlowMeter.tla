------------------------------ MODULE FlowMeter ------------------------------
(***************************************************************************)
(* maja-cicflowmeter: the files of a run are processed one after the other *)
(* (main.rs); the packets of a file are grouped into bidirectional flows   *)
(* by a FlowGenerator (flow.rs), which turns a flow into a row when it     *)
(* times out, is closed by TCP, or when the file ends.  Averages and       *)
(* deviations of a row are left as the values they are taken from.         *)
(***************************************************************************)
EXTENDS Integers, Sequences, FiniteSets, Functions

CONSTANTS
  Shapes,           \* packets up to their time: src, dst, protocol, size, flags
  Steps,            \* how far a packet's time stamp is from the one before it
  MaxPackets,       \* packets read in the whole run
  Inputs,           \* the stems of the input files, in order
  FlowTimeout, ActivityTimeout,
  Second,           \* the gap that splits subflows and bulks
  BulkPackets,      \* packets that make a bulk: 4 in the code
  Never             \* an Option<i64> that is None

ASSUME FlowMeterAssumption ==
  /\ \A s \in Shapes : s.src \in Int /\ s.dst \in Int /\ s.size \in Nat
  /\ MaxPackets \in Nat /\ Steps \subseteq Int /\ Never \notin Int
  /\ Inputs \in Seq(Range(Inputs))
  /\ FlowTimeout \in Nat \ {0} /\ ActivityTimeout \in Nat \ {0}
  /\ Second \in Nat \ {0} /\ BulkPackets \in Nat \ {0, 1}

VARIABLES
  phase,            \* opening, reading, done, failed
  file,             \* the input that is opened or read
  overwrite,        \* the option
  existing,         \* the output files of earlier runs
  outputs,          \* what each output file holds
  reported,         \* rows and packets of each input that was completed
  fed,              \* the packets of the current file, in capture order
  flows,            \* FlowGenerator.flows
  rows              \* the rows of the current file

meterVars == << phase, file, overwrite, existing, outputs, reported, fed, flows, rows >>

\* What an output holds: a file of an earlier run, or how many rows of which input.
Old == [input |-> 0, rows |-> 0]
New(input, n) == [input |-> input, rows |-> n]

-----------------------------------------------------------------------------
Sum(seq) ==
  LET total[n \in 0 .. Len(seq)] == IF n = 0 THEN 0 ELSE total[n - 1] + seq[n]
  IN total[Len(seq)]

Greater(a, b) == IF a > b THEN a ELSE b

\* FlowKey: the two endpoints in order, so that both directions meet.
FlowKey(p) ==
  [left |-> IF p.src <= p.dst THEN p.src ELSE p.dst, right |-> Greater(p.src, p.dst),
   protocol |-> p.protocol]

NoBulk == [start |-> Never, last |-> Never, count |-> 0, size |-> 0,
           states |-> 0, packets |-> 0, bytes |-> 0, duration |-> 0]

\* BulkState::add: a packet of the other direction after the start, or a long gap,
\* begins a new bulk; it counts from its BulkPackets-th packet on.
BulkAdd(bulk, p, other_last) ==
  LET fresh == \/ bulk.start = Never
               \/ other_last # Never /\ other_last > bulk.start
               \/ p.ts - bulk.last > Second
      more == [bulk EXCEPT !.count = @ + 1, !.size = @ + p.size, !.last = p.ts]
  IN IF p.size = 0 THEN
       bulk
     ELSE IF fresh THEN
       [bulk EXCEPT !.start = p.ts, !.last = p.ts, !.count = 1, !.size = p.size]
     ELSE IF more.count = BulkPackets THEN
       [more EXCEPT !.states = @ + 1, !.packets = @ + more.count, !.bytes = @ + more.size,
                    !.duration = @ + p.ts - bulk.start]
     ELSE IF more.count > BulkPackets THEN
       [more EXCEPT !.packets = @ + 1, !.bytes = @ + p.size,
                    !.duration = @ + p.ts - bulk.last]
     ELSE more

-----------------------------------------------------------------------------
EmptyFlow(p) ==
  [first |-> p, last |-> p.ts, forward |-> << >>, backward |-> << >>, iat |-> << >>,
   forward_iat |-> << >>, backward_iat |-> << >>, active |-> << >>, idle |-> << >>,
   active_start |-> p.ts, active_end |-> p.ts, subflows |-> 1,
   last_forward |-> Never, last_backward |-> Never,
   forward_bulk |-> NoBulk, backward_bulk |-> NoBulk]

IsForward(f, p) == p.src = f.first.src /\ p.dst = f.first.dst

ActiveSpan(f) ==
  IF f.active_end > f.active_start THEN << f.active_end - f.active_start >> ELSE << >>

\* Mutant: the active period goes on after an idle gap.
GapKeepingStart(f, p) ==
  LET gap == p.ts - f.last
      timed == [f EXCEPT !.iat = Append(@, Greater(gap, 0)),
                         !.subflows = IF gap > Second THEN @ + 1 ELSE @]
  IN IF f.forward = << >> /\ f.backward = << >> THEN f
     ELSE IF gap > ActivityTimeout THEN
       [timed EXCEPT !.active = @ \o ActiveSpan(f), !.idle = Append(@, gap)]
     ELSE timed

\* The first half of Flow::add: the gap to the last packet, unless this is the first;
\* ns_to_micros counts a step back in time as no gap.
Gap(f, p) ==
  LET gap == p.ts - f.last
      timed == [f EXCEPT !.iat = Append(@, Greater(gap, 0)),
                         !.subflows = IF gap > Second THEN @ + 1 ELSE @]
  IN IF f.forward = << >> /\ f.backward = << >> THEN f
     ELSE IF gap > ActivityTimeout THEN
       [timed EXCEPT !.active = @ \o ActiveSpan(f), !.idle = Append(@, gap),
                     !.active_start = p.ts]
     ELSE timed

\* The second half: the packet joins its direction.
Directed(f, p) ==
  LET since(last) == IF last = Never THEN << >> ELSE << Greater(p.ts - last, 0) >>
  IN IF IsForward(f, p) THEN
       [f EXCEPT !.forward = Append(@, p), !.last_forward = p.ts,
                 !.forward_iat = @ \o since(f.last_forward),
                 !.forward_bulk = BulkAdd(@, p, f.last_backward)]
     ELSE
       [f EXCEPT !.backward = Append(@, p), !.last_backward = p.ts,
                 !.backward_iat = @ \o since(f.last_backward),
                 !.backward_bulk = BulkAdd(@, p, f.last_forward)]

FlowAdd(f, p) == Directed([Gap(f, p) EXCEPT !.active_end = p.ts, !.last = p.ts], p)

HasFin(packets) == \E i \in DOMAIN packets : "FIN" \in packets[i].flags
HasBothFin(f) == HasFin(f.forward) /\ HasFin(f.backward)
Several(f) == Len(f.forward) + Len(f.backward) > 1

\* Flow::finish: the last active period is closed.
Finished(f) == [f EXCEPT !.active = @ \o ActiveSpan(f)]
RowsOf(closed) == {Finished(f) : f \in {g \in closed : Several(g)}}

-----------------------------------------------------------------------------
MeterInit ==
  /\ phase = "opening" /\ file = 1 /\ overwrite \in BOOLEAN
  /\ existing \in SUBSET Range(Inputs) /\ outputs = [stem \in existing |-> Old]
  /\ reported = << >> /\ fed = << >> /\ flows = << >> /\ rows = {}

\* Mutant: the output is created whether it exists or not.
OpenAlways ==
  /\ phase = "opening" /\ file \in DOMAIN Inputs
  /\ phase' = "reading"
  /\ outputs' = [stem \in DOMAIN outputs \cup {Inputs[file]} |->
                   IF stem = Inputs[file] THEN New(file, 0) ELSE outputs[stem]]
  /\ UNCHANGED << file, overwrite, existing, reported, fed, flows, rows >>

\* The output is named after the input's stem only; an existing one ends the run.
Open ==
  /\ phase = "opening" /\ file \in DOMAIN Inputs
  /\ IF Inputs[file] \in DOMAIN outputs /\ ~overwrite
     THEN phase' = "failed" /\ UNCHANGED outputs
     ELSE /\ phase' = "reading"
          /\ outputs' = [stem \in DOMAIN outputs \cup {Inputs[file]} |->
                           IF stem = Inputs[file] THEN New(file, 0) ELSE outputs[stem]]
  /\ UNCHANGED << file, overwrite, existing, reported, fed, flows, rows >>

\* The capture cannot be opened, or the output not created: nothing is written.
OpenError ==
  /\ phase = "opening" /\ file \in DOMAIN Inputs
  /\ phase' = "failed"
  /\ UNCHANGED << file, overwrite, existing, outputs, reported, fed, flows, rows >>

PacketsRead == Len(fed) + Sum([i \in DOMAIN reported |-> reported[i].packets])

\* Mutant: a packet exactly at the timeout starts a new flow.
TimedOutEarly(f, p) == p.ts - f.last >= FlowTimeout

TimedOut(f, p) == p.ts - f.last > FlowTimeout

\* FlowGenerator::add.  A flow that timed out becomes a row and the packet starts a new
\* one, which is never closed by its first packet; otherwise RST, or a FIN of each side,
\* closes the flow.
AddPacket(p) ==
  LET key == FlowKey(p)
      others == [k \in DOMAIN flows \ {key} |-> flows[k]]
      With(f) == [k \in DOMAIN others \cup {key} |-> IF k = key THEN f ELSE others[k]]
      known == key \in DOMAIN flows /\ ~TimedOut(flows[key], p)
      grown == FlowAdd(flows[key], p)
  IN \/ /\ ~known
        /\ flows' = With(FlowAdd(EmptyFlow(p), p))
        /\ rows' = rows \cup RowsOf({flows[k] : k \in {key} \cap DOMAIN flows})
     \/ /\ known /\ ("RST" \in p.flags \/ HasBothFin(grown))
        /\ flows' = others
        /\ rows' = rows \cup RowsOf({grown})
     \/ /\ known /\ ~("RST" \in p.flags \/ HasBothFin(grown))
        /\ flows' = With(grown) /\ UNCHANGED rows

\* A record that is TCP or UDP; the others are skipped and change nothing.
Feed(shape, step) ==
  /\ phase = "reading" /\ PacketsRead < MaxPackets
  /\ LET ts == IF fed = << >> THEN 0 ELSE fed[Len(fed)].ts + step
         p == [src |-> shape.src, dst |-> shape.dst, protocol |-> shape.protocol,
               size |-> shape.size, flags |-> shape.flags, ts |-> ts, id |-> Len(fed) + 1]
     IN fed' = Append(fed, p) /\ AddPacket(p)
  /\ UNCHANGED << phase, file, overwrite, existing, outputs, reported >>

\* The end of the file: the open flows become rows, and the output is complete.
FinishFile ==
  /\ phase = "reading"
  /\ LET all == rows \cup RowsOf(Range(flows))
     IN /\ outputs' = [outputs EXCEPT ![Inputs[file]] = New(file, Cardinality(all))]
        /\ reported' = Append(reported, [rows |-> Cardinality(all), packets |-> Len(fed)])
  /\ phase' = "opening" /\ file' = file + 1
  /\ fed' = << >> /\ flows' = << >> /\ rows' = {} /\ UNCHANGED << overwrite, existing >>

\* A capture that cannot be read any further ends the run; only the rows that were
\* already closed are in the output.
ReadError ==
  /\ phase = "reading"
  /\ phase' = "failed" /\ outputs' = [outputs EXCEPT ![Inputs[file]] = New(file, Cardinality(rows))]
  /\ UNCHANGED << file, overwrite, existing, reported, fed, flows, rows >>

AllDone ==
  /\ phase = "opening" /\ file > Len(Inputs)
  /\ phase' = "done"
  /\ UNCHANGED << file, overwrite, existing, outputs, reported, fed, flows, rows >>

MeterNext ==
  \/ Open \/ OpenError \/ FinishFile \/ ReadError \/ AllDone
  \/ \E shape \in Shapes, step \in Steps : Feed(shape, step)

MeterSpec == MeterInit /\ [][MeterNext]_meterVars

-----------------------------------------------------------------------------
Members(f) == {p.id : p \in Range(f.forward) \cup Range(f.backward)}

\* The packet before i of the same connection in a capture, or 0.
Before(c, i) ==
  LET same == {j \in 1 .. i - 1 : FlowKey(c[j]) = FlowKey(c[i])}
  IN IF same = {} THEN 0 ELSE CHOOSE j \in same : \A k \in same : k <= j

Along(c, s, m) == c[m].src = c[s].src /\ c[m].dst = c[s].dst

\* Packet j, not the first of its flow, which began at s, is a reset or completes the two
\* FINs.
Ends(c, s, j) ==
  LET fins == {m \in s .. j : FlowKey(c[m]) = FlowKey(c[j]) /\ "FIN" \in c[m].flags}
  IN /\ j # s
     /\ \/ "RST" \in c[j].flags
        \/ (\E m \in fins : Along(c, s, m)) /\ (\E m \in fins : ~ Along(c, s, m))

\* Packet i does not join the flow that began at s and of which `before` is the last one.
Begins(c, i, before, s) ==
  before = 0 \/ Ends(c, s, before) \/ c[i].ts - c[before].ts > FlowTimeout

\* Where the flow of each packet begins, said of the capture alone: packets of a
\* connection belong together up to a gap longer than the timeout or up to one that ends
\* the flow.
FirstOf(c) ==
  LET first[i \in 0 .. Len(c)] ==
        IF i = 0 THEN 0
        ELSE IF Begins(c, i, Before(c, i), first[Before(c, i)]) THEN i ELSE first[Before(c, i)]
  IN first

Run(c, s) == {i \in 1 .. Len(c) : FirstOf(c)[i] = s}
Runs(c) == {Run(c, FirstOf(c)[i]) : i \in 1 .. Len(c)}

\* Every packet is in exactly the flow it belongs to: the rows and the open flows are
\* whole runs of a connection, and a run that is over is a row unless it is one packet.
RowsAreWholeFlows ==
  phase = "reading" =>
    LET open   == {Members(flows[k]) : k \in DOMAIN flows}
        closed == {Members(f) : f \in rows}
    IN /\ open \cap closed = {}
       /\ open \cup closed = {run \in Runs(fed) : Cardinality(run) > 1 \/ run \in open}

Ordered(f) ==
  \A i, j \in Members(f) : i < j => fed[i].ts <= fed[j].ts

\* What a row says of time adds up: when the packets came in time order, the gaps, and
\* the active and idle periods, each fill the flow's duration; there is one more subflow
\* than there are gaps over a second; and bulks count no packet or byte twice.
TimesAddUp ==
  \A f \in rows :
    /\ Ordered(f) =>
         /\ Sum(f.iat) = f.last - f.first.ts
         /\ Sum(f.active) + Sum(f.idle) = f.last - f.first.ts
         /\ Len(f.forward) > 1 =>
              Sum(f.forward_iat) = f.last_forward - f.forward[1].ts
    /\ f.subflows = 1 + Cardinality({i \in DOMAIN f.iat : f.iat[i] > Second})
    /\ \A d \in {<< f.forward, f.forward_bulk >>, << f.backward, f.backward_bulk >>} :
         LET data == {p \in Range(d[1]) : p.size > 0}
         IN /\ BulkPackets * d[2].states <= d[2].packets /\ d[2].packets <= Cardinality(data)
            /\ d[2].bytes <= Sum([i \in DOMAIN d[1] |-> d[1][i].size])

\* Without --overwrite no file is lost: what an earlier run wrote is still there, and so
\* are the rows of every input that was completed, although outputs are named by stem.
NothingOverwritten ==
  ~overwrite =>
    /\ \A stem \in existing : outputs[stem] = Old
    /\ \A i \in DOMAIN reported : outputs[Inputs[i]] = New(i, reported[i].rows)

=============================================================================
