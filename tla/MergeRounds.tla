----------------------------- MODULE MergeRounds -----------------------------
(***************************************************************************)
(* merge_impl of tools/maja-mergecap/src/main.rs: with more input files    *)
(* than `batch_size`, the files are merged in batches into temporary       *)
(* captures, and those are merged in turn, until one pass is enough.       *)
(*                                                                         *)
(* A pass over a batch is one atomic step with the outcome SortedMerge     *)
(* allows (MergeBatches takes it apart); a capture is the sequence of its  *)
(* timestamps, as PcapWriter rounds them and PcapReader reads them back.   *)
(***************************************************************************)
EXTENDS Timeline

CONSTANTS
  FileSets,             \* the configured inputs a run may have: sequences of settings
  BatchSizes,           \* values of merge_args.batch_size
  Tick,                 \* nanoseconds the output's timestamps count in
  Wrap                  \* 2^32, the number of values of a timestamp field

\* Merging sorts only streams that keep their lower bound (PacketReader's
\* BoundIfSpaced); of other files no pass promises anything.  An i64 counts more
\* nanoseconds than 32 bits of seconds have.
ASSUME MergeRoundsAssumption ==
  /\ FileSets \subseteq Seq(Settings)
  /\ \A f \in FileSets : \A k \in DOMAIN f : InTimeOrder(Stamps(f[k])) /\ Spaced(f[k])
  /\ BatchSizes \subseteq Nat
  /\ Tick \in Nat \ {0} /\ Wrap \in Nat \ {0} /\ Second <= Wrap
  /\ Wrap * Second <= MaxTime

VARIABLES
  input_files,          \* what the user configured; never changes
  batch_size,
  files,                \* what this round merges: settings
  erase_timestamp,      \* the option as this round sees it, per file
  tmp_files,            \* the captures this round has written
  output,               \* the output capture
  outcome               \* "merging", "done", "refused" or "failed"

roundsVars == << input_files, batch_size, files, erase_timestamp, tmp_files, output, outcome >>

-----------------------------------------------------------------------------
\* The timestamp of a packet written by write_packet and read by to_packet:
\* both fields are cut to 32 bits, and so is the product of the second one.
Quotient(t) == IF t >= 0 THEN t \div Second ELSE -((-t) \div Second)
Written(t) ==
  LET sub == (SubSecond(t) % Wrap) \div Tick IN
  ((Quotient(t) % Wrap) * Second) + ((sub * Tick) % Wrap)

\* A timestamp the output can hold.
Representable(t) == 0 <= t /\ t < Wrap * Second

\* The timestamps of all packets a pass over `batch` reads.
StampsOf(batch) == FlattenSeq([k \in DOMAIN batch |-> FlattenSeq(Timeline(batch[k]))])

\* t at its place among ascending timestamps.
Inserted(stamps, t) ==
  [j \in 1 .. Len(stamps) + 1 |->
     IF j <= Len(stamps) /\ stamps[j] <= t THEN stamps[j]
     ELSE IF j = 1 \/ stamps[j - 1] <= t THEN t
     ELSE stamps[j - 1]]

Ascending(seq) ==
  LET upTo[k \in 0 .. Len(seq)] == IF k = 0 THEN << >> ELSE Inserted(upTo[k - 1], seq[k])
  IN  upTo[Len(seq)]

\* One pass: readers, merge_batches, PcapWriter.
OnePass(batch) ==
  LET merged == Ascending(StampsOf(batch)) IN [k \in DOMAIN merged |-> Written(merged[k])]

\* The files of a round as its readers see them.
Seen == [k \in DOMAIN files |-> [files[k] EXCEPT !.erase = erase_timestamp /\ @]]

\* InputFile::default(): one replay at 0, no parallel groups.
TmpFile(capture, s) ==
  [s EXCEPT !.file = capture, !.start_time = << 0 >>, !.repeat = 1, !.jitter = << 0 >>]

\* The batch that comes next: chunks(batch_size) of the files.
First     == Len(tmp_files) * batch_size + 1
NextBatch == SubSeq(Seen, First, IF First + batch_size - 1 < Len(files)
                                 THEN First + batch_size - 1 ELSE Len(files))

-----------------------------------------------------------------------------
RoundsInit ==
  /\ input_files \in FileSets
  /\ batch_size \in BatchSizes
  /\ files = input_files
  /\ erase_timestamp = TRUE
  /\ tmp_files = << >>
  /\ output = << >>
  /\ outcome = "merging"

Fits == Len(files) <= batch_size

MergeAll ==
  /\ outcome = "merging" /\ Fits
  /\ output' = OnePass(Seen)
  /\ outcome' = "done"
  /\ UNCHANGED << input_files, batch_size, files, erase_timestamp, tmp_files >>

\* Mutant: a batch size of 1 is let through.
TooSmallZero == batch_size < 1

TooSmall == batch_size < 2

Refuse ==
  /\ outcome = "merging" /\ ~ Fits /\ TooSmall
  /\ outcome' = "refused"
  /\ UNCHANGED << input_files, batch_size, files, erase_timestamp, tmp_files, output >>

MergeBatch ==
  /\ outcome = "merging" /\ ~ Fits /\ ~ TooSmall
  /\ First <= Len(files)
  /\ tmp_files' = Append(tmp_files, OnePass(NextBatch))
  /\ UNCHANGED << input_files, batch_size, files, erase_timestamp, output, outcome >>

\* Mutant: the final timeline is erased once more.
NextRoundErasing ==
  /\ outcome = "merging" /\ ~ Fits /\ ~ TooSmall
  /\ First > Len(files)
  /\ files' = [k \in DOMAIN tmp_files |-> TmpFile(tmp_files[k], files[k])]
  /\ tmp_files' = << >>
  /\ UNCHANGED << input_files, batch_size, erase_timestamp, output, outcome >>

\* The temporary captures hold the final timeline: the options that shape it
\* are left out of the next round.
NextRound ==
  /\ outcome = "merging" /\ ~ Fits /\ ~ TooSmall
  /\ First > Len(files)
  /\ files' = [k \in DOMAIN tmp_files |-> TmpFile(tmp_files[k], files[k])]
  /\ erase_timestamp' = FALSE
  /\ tmp_files' = << >>
  /\ UNCHANGED << input_files, batch_size, output, outcome >>

\* A capture that cannot be created, opened or written ends the whole merge.
Fail ==
  /\ outcome = "merging"
  /\ outcome' = "failed"
  /\ UNCHANGED << input_files, batch_size, files, erase_timestamp, tmp_files, output >>

Returned == outcome # "merging" /\ UNCHANGED roundsVars

RoundsNext == MergeAll \/ Refuse \/ MergeBatch \/ NextRound \/ Fail \/ Returned

RoundsSpec == RoundsInit /\ [][RoundsNext]_roundsVars

-----------------------------------------------------------------------------
(* Properties                                                              *)

\* Merging in rounds is not to be seen in the output: every timestamp is that
\* of one pass over all the files, as far as the format can hold the timeline.
RoundsDoNotShow ==
  outcome = "done" /\ (\A k \in DOMAIN StampsOf(input_files) : Representable(StampsOf(input_files)[k]))
    => output = OnePass(input_files)

\* A round leaves fewer captures than it started with, but never none, and
\* takes a bounded number of steps: so merge_impl cannot recurse forever.
RoundsShrink ==
  [][ /\ outcome = "merging" /\ tmp_files # << >> /\ tmp_files' = << >>
        => Len(files') < Len(files) /\ files' # << >>
      /\ Len(tmp_files') <= Len(files) ]_roundsVars
=============================================================================
