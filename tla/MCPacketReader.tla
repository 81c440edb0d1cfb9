--------------------------- MODULE MCPacketReader ---------------------------
(* Instances of PacketReader: short files, in order or not, with and without *)
(* unreadable records, under every combination of a few option values.       *)
EXTENDS PacketReader

CONSTANTS FileStamps, MaxLength, Starts, Repeats, Intervals, Jitters

MCFile == UNION { [1 .. n -> FileStamps \cup {ReadError}] : n \in 0 .. MaxLength }

MCSettings ==
  [file : MCFile, start_time : Starts, repeat : Repeats, repeat_interval : Intervals,
   jitter : Jitters, erase : BOOLEAN, keep_subsecond : BOOLEAN]

MCMinTime == -40
MCStamps  == {-10, 1, 6}
MCStarts  == { << 0 >>, << 0, 2 >>, << -1, 1 >>, << 1, 0 >> }
MCJitters == { << 0 >>, << 0, 3 >> }
=============================================================================
