------------------------------ MODULE CapInfo ------------------------------
(***************************************************************************)
(* The analysis loop of tools/maja-capinfo/src/main.rs: it reads a capture *)
(* to its end with the streaming reader, counts what cannot be read, and   *)
(* keeps running statistics of the packets, for the whole capture and for  *)
(* intervals of time.                                                      *)
(***************************************************************************)
EXTENDS CaptureReaders, Functions

CONSTANTS
  Width,         \* the width of an interval
  NoTime         \* None

ASSUME CapInfoAssumption == Width \in Nat \ {0} /\ NoTime \notin Int

VARIABLES
  stats,         \* Stats: packets, errors, the first and the last time
  buckets        \* IntervalStats: packets by the start of their interval

vars == << readers, stats, buckets >>

CapInfoInit ==
  /\ Init
  /\ stats = [total_packets |-> 0, errors |-> 0, first_timestamp |-> NoTime,
              last_timestamp |-> NoTime, is_ordered |-> TRUE]
  /\ buckets = << >>

-----------------------------------------------------------------------------
Earlier(a, b) == IF a < b THEN a ELSE b
Later(a, b)   == IF a < b THEN b ELSE a

\* Mutant: the last time is the time of the last packet.
LatestIsNewest(last, t) == t

Latest(last, t) == IF last = NoTime THEN t ELSE Later(last, t)

UpdateWithPacket(t) ==
  stats' = [stats EXCEPT
    !.total_packets   = @ + 1,
    !.first_timestamp = IF @ = NoTime THEN t ELSE Earlier(@, t),
    !.last_timestamp  = Latest(@, t),
    !.is_ordered      = @ /\ ~ (stats.last_timestamp # NoTime /\ t < stats.last_timestamp)]

\* Mutant: the start is rounded, not truncated.
NearestInterval(t) == ((t + (Width \div 2)) \div Width) * Width

\* bucket_mut: the interval of a packet starts at a multiple of the width.
IntervalOf(t) == t - (t % Width)

CountInInterval(t) ==
  LET start == IntervalOf(t)
      old   == IF start \in DOMAIN buckets THEN buckets[start] ELSE 0
  IN  buckets' = [s \in DOMAIN buckets \cup {start} |-> IF s = start THEN old + 1 ELSE buckets[s]]

\* A read that delivers, one that fails, and one that only moves on.
AnalyzePacket ==
  /\ ReadStream
  /\ stream'.got # stream.got
  /\ UpdateWithPacket(Last(stream'.got).stamp)
  /\ CountInInterval(Last(stream'.got).stamp)

CountError ==
  /\ ReadStream
  /\ stream.pos \in stream'.failed
  /\ stats' = [stats EXCEPT !.errors = @ + 1]
  /\ UNCHANGED buckets

ReadOn ==
  /\ ReadStream
  /\ stream'.got = stream.got /\ stream.pos \notin stream'.failed
  /\ UNCHANGED << stats, buckets >>

Analyze == AnalyzePacket \/ CountError \/ ReadOn

\* Another reader, over the mapped file, is read by somebody else.
ReadMapped == ReadSlice /\ UNCHANGED << stats, buckets >>

Done == Finished /\ UNCHANGED vars

Next == Analyze \/ ReadMapped \/ Done

Spec == CapInfoInit /\ [][Next]_vars

FairSpec == Spec /\ WF_vars(Analyze)

-----------------------------------------------------------------------------

Packets == DOMAIN stream.got

\* The times of all packets that were delivered, and the interval that starts at s.
Stamps        == {stream.got[k].stamp : k \in Packets}
IntervalAt(s) == s .. s + Width - 1

\* The report is the one of the packets delivered and the blocks that failed:
\* the times are the earliest and the latest of the capture, also when packets
\* run backwards, and none if there is no packet; the capture is ordered if and
\* only if no packet runs backwards.
ReportAgrees ==
  /\ stats.total_packets = Len(stream.got)
  /\ stats.errors = Cardinality(stream.failed)
  /\ stats.first_timestamp = (IF Stamps = {} THEN NoTime ELSE Min(Stamps))
  /\ stats.last_timestamp = (IF Stamps = {} THEN NoTime ELSE Max(Stamps))
  /\ stats.is_ordered <=>
       \A j, k \in Packets : j < k => stream.got[j].stamp <= stream.got[k].stamp

\* Every packet is in exactly one interval: the intervals start at multiples of
\* the width, one of them contains the time of the packet, and each counts the
\* packets whose times it contains.  No interval is empty.
IntervalsPartition ==
  /\ \A t \in Stamps : \E s \in DOMAIN buckets : t \in IntervalAt(s)
  /\ \A s \in DOMAIN buckets :
       /\ s % Width = 0
       /\ buckets[s] = Cardinality({k \in Packets : stream.got[k].stamp \in IntervalAt(s)})
       /\ buckets[s] > 0

\* Whatever the capture is, the analysis gets to its end: no error is read
\* over and over.
AnalysisEnds == <>(stream.status # "reading")
=============================================================================
