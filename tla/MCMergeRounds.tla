---------------------------- MODULE MCMergeRounds ----------------------------
(* Instances of MergeRounds: up to five files of one or two packets, so that *)
(* batches of two need three rounds.                                         *)
EXTENDS MergeRounds

CONSTANTS MaxFiles

MCMinTime == -40

MCSetting(file, start, erase, jitter) ==
  [file |-> file, start_time |-> start, repeat |-> 1, repeat_interval |-> 0,
   jitter |-> jitter, erase |-> erase, keep_subsecond |-> FALSE]

MCFiles(erase) ==
  { MCSetting(<< 1, 6 >>, << 0 >>, erase, << 0 >>),
    MCSetting(<< 7 >>, << 1 >>, erase, << 0 >>),
    MCSetting(<< 2, 5 >>, << 0, 2 >>, erase, << 0, 3 >>) }

MCSettings == MCFiles(TRUE) \cup MCFiles(FALSE)

\* The options erase_timestamp and keep_subsecond are those of the whole run.
MCFileSets ==
  UNION { [1 .. n -> MCFiles(erase)] : n \in 0 .. MaxFiles, erase \in BOOLEAN }
=============================================================================
