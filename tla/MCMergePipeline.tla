--------------------------- MODULE MCMergePipeline ---------------------------
(* The merge with its heap.  Its inputs are the streams of readers that       *)
(* follow Timeline as PacketReader does, for every valid setting of a few     *)
(* option values whose groups are spaced; every pair of base-sorted streams   *)
(* of a bounded number of batches over a few stamps, MaxTime among them; and  *)
(* dense ones that fill the heap with equal packets.                          *)
EXTENDS MergeHeap

CONSTANTS Second, ReadError, Files, Starts, Repeats, Jitters, ShortStamps

\* Its definitions only, for the settings below.
T == INSTANCE Timeline WITH Settings <- {}

MCMinTime == -40
MCFiles   == { << 1 >>, << 1, 6 >> }
MCStarts  == { << 0 >>, << 0, 2 >>, << 0, 0 >> }
MCJitters == { << 0 >>, << 0, 3 >> }

MCSettings ==
  { s \in [file : Files, start_time : Starts, repeat : Repeats, repeat_interval : {1},
           jitter : Jitters, erase : {FALSE}, keep_subsecond : {FALSE}] :
      T!Valid(s) /\ T!Spaced(s) }

MCBaseSorted(batches) ==
  { s \in UNION { [1 .. n -> batches] : n \in 0 .. 2 } :
      \A b, c \in DOMAIN s : b < c => \A t \in Range(s[c]) : Least(s[b]) <= t }

MCPackets(s) == IF s = << >> THEN 0 ELSE Len(FlattenSeq(s))
MCShort == { s \in MCBaseSorted(UNION { [1 .. n -> ShortStamps] : n \in 1 .. 2 }) : MCPackets(s) <= 3 }
MCDense == MCBaseSorted({ << 1, 1, 2 >>, << 1, 2, 1 >>, << 1, 1, 1 >>, << 2, 2, 1 >> })

MCInputs ==
  { [r \in Readers |-> T!Timeline(s[r])] : s \in [Readers -> MCSettings] }
    \cup [Readers -> MCShort] \cup [Readers -> MCDense]
=============================================================================
