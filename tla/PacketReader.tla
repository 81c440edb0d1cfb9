---------------------------- MODULE PacketReader ----------------------------
(***************************************************************************)
(* PacketReader of tools/maja-mergecap/src/main.rs: the iterator that      *)
(* reads one input file over and over and hands each packet, moved to its  *)
(* place on the configured timeline, to the merge.                         *)
(*                                                                         *)
(* One step is one turn of the loop in next(): a packet, a record that     *)
(* cannot be read, or the end of the file.  A step that yields a batch or  *)
(* stops is the end of a call.                                             *)
(***************************************************************************)
EXTENDS Timeline

CONSTANT NoTime         \* None

ASSUME PacketReaderAssumption == NoTime \notin Int

VARIABLES
  setting,              \* the options and the file; never changes
  reader,               \* what the open capture reader has not read yet
  current,              \* passes over the file that are finished
  original_first_packet_time, first_packet_time, last_packet_time,
  yielded,              \* the batches returned so far
  pc                    \* "reading", "finished" or "aborted"

vars == << setting, reader, current, original_first_packet_time, first_packet_time,
           last_packet_time, yielded, pc >>

-----------------------------------------------------------------------------
Init ==
  /\ setting \in Settings
  /\ reader  = setting.file
  /\ current = 0
  /\ original_first_packet_time = NoTime
  /\ first_packet_time = NoTime
  /\ last_packet_time  = 0
  /\ yielded = << >>
  /\ pc      = "reading"

\* The packet gets its time, and a copy in every parallel group.
Yield(timestamp) ==
  /\ last_packet_time' = timestamp
  /\ yielded' = Append(yielded, Spread(setting, timestamp))
  /\ reader'  = Tail(reader)
  /\ UNCHANGED << setting, current, pc >>

APacket ==
  pc = "reading" /\ reader # << >> /\ Head(reader) # ReadError

FirstOfPass(timestamp) ==
  /\ original_first_packet_time' = Head(reader)
  /\ first_packet_time' = timestamp
  /\ Yield(timestamp)

\* Mutant: every pass starts at the configured time.
EveryPassAGroup == TRUE

\* self.current.is_multiple_of(repeat)
AtGroupStart == current % setting.repeat = 0

\* The first packet of a group goes to the configured start time.
NewGroup ==
  /\ APacket /\ first_packet_time = NoTime
  /\ AtGroupStart
  /\ FirstOfPass(GroupStart(setting, current \div setting.repeat, Head(reader)))

\* The first packet of a repetition follows the last one after the interval.
NextRepeat ==
  /\ APacket /\ first_packet_time = NoTime
  /\ ~ AtGroupStart
  /\ FirstOfPass(Saturated(last_packet_time + setting.repeat_interval))

\* Any other packet keeps its distance to the first one of the pass.
SamePass ==
  /\ APacket /\ first_packet_time # NoTime
  /\ Yield(Saturated(Saturated(Head(reader) - original_first_packet_time) + first_packet_time))
  /\ UNCHANGED << original_first_packet_time, first_packet_time >>

\* A record that cannot be read is logged and passed over.
SkipError ==
  /\ pc = "reading" /\ reader # << >> /\ Head(reader) = ReadError
  /\ reader' = Tail(reader)
  /\ UNCHANGED << setting, current, original_first_packet_time, first_packet_time,
                  last_packet_time, yielded, pc >>

EndOfFile == pc = "reading" /\ reader = << >> /\ current' = current + 1

LastPass == current' = Passes(setting)

Finish ==
  /\ EndOfFile /\ LastPass
  /\ pc' = "finished"
  /\ UNCHANGED << setting, reader, original_first_packet_time, first_packet_time,
                  last_packet_time, yielded >>

\* Mutant: the reopened file still counts as the pass before.
ReopenSamePass ==
  /\ EndOfFile /\ ~ LastPass
  /\ reader' = setting.file
  /\ UNCHANGED << setting, original_first_packet_time, first_packet_time,
                  last_packet_time, yielded, pc >>

Reopen ==
  /\ EndOfFile /\ ~ LastPass
  /\ reader' = setting.file
  /\ first_packet_time' = NoTime
  /\ UNCHANGED << setting, original_first_packet_time, last_packet_time, yielded, pc >>

ReopenFails ==
  /\ EndOfFile /\ ~ LastPass
  /\ pc' = "aborted"
  /\ UNCHANGED << setting, reader, original_first_packet_time, first_packet_time,
                  last_packet_time, yielded >>

\* merge_batches calls next() no more once it has returned None.
Stopped == pc \in {"finished", "aborted"} /\ UNCHANGED vars

Next ==
  \/ NewGroup \/ NextRepeat \/ SamePass \/ SkipError
  \/ Finish \/ Reopen \/ ReopenFails
  \/ Stopped

Spec == Init /\ [][Next]_vars

-----------------------------------------------------------------------------
(* Properties                                                              *)

\* The batches are those of the timeline the options describe, whatever the
\* path through passes, groups and unreadable records; a reader that finishes
\* has delivered all of it.  (A file that is out of order may differ once an
\* addition has saturated, and any file whose times are too far apart.)
FollowsTimeline ==
  DistancesFit(setting) /\ (InTimeOrder(Stamps(setting)) \/ NothingSaturates(setting)) =>
    /\ IsPrefix(yielded, Timeline(setting))
    /\ pc = "finished" => yielded = Timeline(setting)

\* What pull() of the merge takes for granted: the least timestamp of a batch
\* is a lower bound of everything this reader still has.
LowerBound ==
  \A j, k \in DOMAIN yielded : j < k =>
    \A g \in DOMAIN setting.jitter : yielded[j][1] <= yielded[k][g]

LeastFirst == \A j \in DOMAIN yielded : \A g \in DOMAIN setting.jitter :
  yielded[j][1] <= yielded[j][g]

\* It may: for files in time order whose groups do not overlap, passes and
\* jitter never break the bound.
BoundIfSpaced ==
  InTimeOrder(Stamps(setting)) /\ Spaced(setting) => LowerBound /\ LeastFirst
=============================================================================
