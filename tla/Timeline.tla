------------------------------ MODULE Timeline ------------------------------
(***************************************************************************)
(* The timeline an entry of the configuration asks for: where each packet  *)
(* of an input file goes when the file is replayed at several start times, *)
(* repeated in each of them, and copied into parallel groups.  It is       *)
(* stated outright, from the options; PacketReader computes it one packet  *)
(* at a time, from the packet before.                                      *)
(***************************************************************************)
EXTENDS Integers, Sequences, SequencesExt

CONSTANTS
  Second,           \* nanoseconds in a second
  MinTime, MaxTime, \* i64::MIN, i64::MAX
  ReadError,        \* a record the capture reader reports as an error
  Settings          \* what a run may have for an input file

ASSUME TimelineAssumption ==
  /\ Second \in Nat \ {0}
  /\ MinTime \in Int /\ MaxTime \in Int /\ MinTime < 0 /\ 0 < MaxTime
  /\ ReadError \notin Int

(* A setting: what InputFile and MergeArgs say about one input file.       *)
(*   file             what its capture reader yields: timestamps, errors   *)
(*   start_time       in seconds, one entry per group, may be negative     *)
(*   repeat           how often a group replays the file                   *)
(*   repeat_interval  from the last packet of a replay to the next one     *)
(*   jitter           the offset of each parallel group, none for group 1  *)
(*   erase, keep_subsecond   the options of the same name                  *)
Time == MinTime .. MaxTime

InputFile ==
  [file : Seq(Time \cup {ReadError}), start_time : Seq(Int), repeat : Nat,
   repeat_interval : 0 .. MaxTime, jitter : Seq(0 .. MaxTime),
   erase : BOOLEAN, keep_subsecond : BOOLEAN]

\* What InputFile::validate accepts, and what the reader makes of it.  A start time is
\* an i32, whose nanoseconds an i64 holds.
Valid(s) ==
  /\ s \in InputFile
  /\ s.start_time # << >>
  /\ \A g \in DOMAIN s.start_time : s.start_time[g] * Second \in Time
  /\ s.repeat > 0
  /\ s.jitter # << >> /\ s.jitter[1] = 0

ASSUME SettingsAssumption == \A s \in Settings : Valid(s)

Groups(s) == Len(s.start_time)
Passes(s) == Groups(s) * s.repeat

\* saturating_add and saturating_sub, given the exact result.
Saturated(x) == IF x < MinTime THEN MinTime ELSE IF x > MaxTime THEN MaxTime ELSE x

\* `timestamp % 1_000_000_000`: the remainder has the sign of the timestamp.
SubSecond(t) == IF t >= 0 THEN t % Second ELSE -((-t) % Second)

\* Where group `group` (0-based) puts a first packet stamped t.
GroupStart(s, group, t) ==
  LET start == s.start_time[group + 1] * Second IN
  IF ~ s.erase THEN Saturated(t + start)
  ELSE IF s.keep_subsecond THEN Saturated(start + SubSecond(t))
  ELSE start

\* The copies of a packet, one per parallel group.
Spread(s, base) == [g \in DOMAIN s.jitter |-> Saturated(base + s.jitter[g])]

-----------------------------------------------------------------------------
\* What the first k records of a file give, for each k.
ReadUpTo(file) ==
  LET read[k \in 0 .. Len(file)] ==
        IF k = 0 THEN << >>
        ELSE IF file[k] = ReadError THEN read[k - 1]
        ELSE Append(read[k - 1], file[k])
  IN read

Stamps(s) == ReadUpTo(s.file)[Len(s.file)]
SpanOf(s) == Last(Stamps(s)) - Head(Stamps(s))

\* The base of packet j in pass `pass` (0-based), before saturation.
RawBase(s, pass, j) ==
  LET p == Stamps(s) IN
  GroupStart(s, pass \div s.repeat, p[1])
    + (pass % s.repeat) * (SpanOf(s) + s.repeat_interval)
    + (p[j] - p[1])

Base(s, pass, j) == Saturated(RawBase(s, pass, j))

\* The whole timeline: a batch per packet and pass.
Timeline(s) ==
  LET n == Len(Stamps(s)) IN
  [k \in 1 .. Passes(s) * n |-> Spread(s, Base(s, (k - 1) \div n, ((k - 1) % n) + 1))]

-----------------------------------------------------------------------------
InTimeOrder(seq) == \A j, k \in DOMAIN seq : j < k => seq[j] <= seq[k]

\* No packet is further from the first one than a time can say.
DistancesFit(s) == \A j \in DOMAIN Stamps(s) : Stamps(s)[j] - Stamps(s)[1] \in Time

NothingSaturates(s) ==
  \A pass \in 0 .. Passes(s) - 1, j \in DOMAIN Stamps(s) : RawBase(s, pass, j) \in Time

\* Each group starts no earlier than the one before it ends.
Spaced(s) ==
  \A g \in 1 .. Groups(s) - 1 :
    Stamps(s) # << >> =>
      Base(s, g * s.repeat - 1, Len(Stamps(s))) <= Base(s, g * s.repeat, 1)
=============================================================================
