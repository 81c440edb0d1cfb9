------------------------------ MODULE Reorder ------------------------------
(***************************************************************************)
(* tools/maja-reordercap/src/main.rs: one scan of a mapped capture that    *)
(* notes where its packets are and which of them are out of order, then a  *)
(* sort and a copy of the noted byte ranges, section by section.           *)
(***************************************************************************)
EXTENDS CaptureFormat

CONSTANT None            \* None

(* A byte range is an offset and a length, a section what SectionScan and  *)
(* its Scan hold: the bytes before the first packet, interfaces described  *)
(* later, packets in the order found, the frames out of order, the other   *)
(* blocks.  A current section has no prefix yet, only where that starts    *)
(* and, once it has packets, where it ends.                                *)
ByteRange == Nat \X Nat

Scans ==
  [index         : Seq([stamp : Nat, range : ByteRange]),
   misplaced     : Seq([frame : Nat, latest_frame : Nat]),
   max_timestamp : Int,
   latest_frame  : Nat]

SectionScans ==
  [start : Nat, prefix_end : Nat \cup {None}, late_idbs : Seq(ByteRange),
   suffix : Seq(ByteRange), scan : Scans]

ASSUME ReorderAssumption == None \notin Nat \cup SectionScans

VARIABLES
  options,               \* dry_run, no_output, and whether output is the input
  reader,                \* the slice reader of the scan
  current,               \* the section being scanned
  sections,              \* the sections scanned
  frame,                 \* packets scanned
  output,                \* the byte ranges written so far
  pc                     \* "scanning", "scanned", "writing", "done" or "failed"

reorderVars == << capture, options, reader, current, sections, frame, output, pc >>

-----------------------------------------------------------------------------
FreshScan == [index |-> << >>, misplaced |-> << >>, max_timestamp |-> -1, latest_frame |-> 0]

FreshSection(start) ==
  [start |-> start, prefix_end |-> None, late_idbs |-> << >>, suffix |-> << >>, scan |-> FreshScan]

Misplaced(f, scan) == [frame |-> f, latest_frame |-> scan.latest_frame]

\* Mutant: only a packet before its predecessor is out of order.
MaxOfLast(scan, stamp) == stamp

\* A packet before the latest one does not change which one is the latest.
MaxOf(scan, stamp) == IF stamp < scan.max_timestamp THEN scan.max_timestamp ELSE stamp

Push(scan, stamp, range, f) ==
  [index         |-> Append(scan.index, [stamp |-> stamp, range |-> range]),
   misplaced     |-> IF stamp < scan.max_timestamp
                     THEN Append(scan.misplaced, Misplaced(f, scan)) ELSE scan.misplaced,
   max_timestamp |-> MaxOf(scan, stamp),
   latest_frame  |-> IF stamp < scan.max_timestamp THEN scan.latest_frame ELSE f]

PrefixUntil(section, end) ==
  << section.start, (IF section.prefix_end = None THEN end ELSE section.prefix_end) - section.start >>

Closed(section, end) ==
  [prefix |-> PrefixUntil(section, end), late_idbs |-> section.late_idbs,
   scan |-> section.scan, suffix |-> section.suffix]

ReorderInit ==
  /\ capture \in Captures
  /\ options \in [dry_run : BOOLEAN, no_output : BOOLEAN, same_file : BOOLEAN]
  /\ reader   = Opened
  /\ current  = IF capture.format = "pcap" THEN FreshSection(0) ELSE None
  /\ sections = << >>
  /\ frame    = 0
  /\ output   = << >>
  /\ pc       = "scanning"

-----------------------------------------------------------------------------
(* The scan: a block is read and noted.  Here(reader) is the block.        *)

Reads == pc = "scanning" /\ reader.status = "reading" /\ reader' = Slicing(reader)
Fails == reader.pos \in reader'.failed \/ reader'.status = "panicked"
Found(kind) == ~ Fails /\ reader'.status = "reading" /\ Here(reader).kind = kind
RecordRange == << reader.pos, Here(reader).len >>

\* The first packet ends the prefix.
Packet(section, stamp) ==
  [section EXCEPT !.prefix_end = IF @ = None THEN reader.pos ELSE @,
                  !.scan = Push(@, stamp, RecordRange, frame + 1)]

\* Mutant: a block that is not all there is waited for.
ScanWaits ==
  /\ Reads
  /\ Fails \/ Found("spb")
  /\ pc' = IF reader'.pos = reader.pos THEN pc ELSE "failed"
  /\ UNCHANGED << capture, options, current, sections, frame, output >>

\* `?` and bail!: nothing has been written yet.
ScanFails ==
  /\ Reads
  /\ Fails \/ Found("spb")
  /\ pc' = "failed"
  /\ UNCHANGED << capture, options, current, sections, frame, output >>

ScanRecord ==
  /\ Reads
  /\ Found("rec") \/ Found("epb")
  /\ current' = Packet(current, Last(reader'.got).stamp)
  /\ frame' = frame + 1
  /\ UNCHANGED << capture, options, sections, output, pc >>

\* Mutant: the section before is closed without its other blocks.
CloseWithoutSuffix(end) == Append(sections, [Closed(current, end) EXCEPT !.suffix = << >>])

CloseSection(end) == Append(sections, Closed(current, end))

\* A new section closes the one before it.
ScanSectionHeader ==
  /\ Reads
  /\ Found("shb")
  /\ sections' = IF current = None THEN sections ELSE CloseSection(reader.pos)
  /\ current' = FreshSection(reader.pos)
  /\ UNCHANGED << capture, options, frame, output, pc >>

\* Mutant: an interface described behind packets stays behind them.
LateBehind(section) == [section EXCEPT !.suffix = Append(@, RecordRange)]

LateInterface(section) == [section EXCEPT !.late_idbs = Append(@, RecordRange)]

ScanInterface ==
  /\ Reads
  /\ Found("idb")
  /\ current' = IF current.prefix_end = None THEN current ELSE LateInterface(current)
  /\ UNCHANGED << capture, options, sections, frame, output, pc >>

ScanOther ==
  /\ Reads
  /\ Found("raw")
  /\ current' = IF current.prefix_end = None THEN current
                ELSE [current EXCEPT !.suffix = Append(@, RecordRange)]
  /\ UNCHANGED << capture, options, sections, frame, output, pc >>

\* The prefix of a pcap file is its header, of a section without packets all of it.
ScanEnds ==
  /\ Reads
  /\ reader'.status = "ended"
  /\ sections' = IF capture.format = "pcap"
                 THEN << [Closed(current, 0) EXCEPT !.prefix = << 0, GlobalHeader >>] >>
                 ELSE IF current = None THEN sections ELSE CloseSection(capture.size)
  /\ pc' = "scanned"
  /\ UNCHANGED << capture, options, current, frame, output >>

Scan == ScanFails \/ ScanRecord \/ ScanSectionHeader \/ ScanInterface \/ ScanOther \/ ScanEnds

-----------------------------------------------------------------------------
InOrder == \A s \in DOMAIN sections : sections[s].scan.misplaced = << >>

\* Mutant: packets with equal times may change places.
GoesBeforeUnstably(index, i, j) ==
  index[i].stamp < index[j].stamp \/ (index[i].stamp = index[j].stamp /\ i > j)

\* sort_by_key is stable.
GoesBefore(index, i, j) ==
  index[i].stamp < index[j].stamp \/ (index[i].stamp = index[j].stamp /\ i < j)

\* The entry that as many entries go before as there are places before it.
Sorted(index) ==
  [k \in DOMAIN index |->
     index[CHOOSE i \in DOMAIN index :
             Cardinality({j \in DOMAIN index : GoesBefore(index, j, i)}) = k - 1]]

Refuse ==
  /\ pc = "scanned"
  /\ options.same_file
  /\ pc' = "failed"
  /\ UNCHANGED << capture, options, reader, current, sections, frame, output >>

ReportOnly ==
  /\ pc = "scanned"
  /\ ~ options.same_file
  /\ options.dry_run \/ (InOrder /\ options.no_output)
  /\ pc' = "done"
  /\ UNCHANGED << capture, options, reader, current, sections, frame, output >>

Sort ==
  /\ pc = "scanned"
  /\ ~ options.same_file /\ ~ options.dry_run /\ ~ (InOrder /\ options.no_output)
  /\ sections' = [s \in DOMAIN sections |-> [sections[s] EXCEPT !.scan.index = Sorted(@)]]
  /\ pc' = "writing"
  /\ UNCHANGED << capture, options, reader, current, frame, output >>

Ranges(section) ==
  << section.prefix >> \o section.late_idbs
    \o [k \in DOMAIN section.scan.index |-> section.scan.index[k].range] \o section.suffix

Wanted == FlattenSeq([s \in DOMAIN sections |-> Ranges(sections[s])])

WriteRange ==
  /\ pc = "writing"
  /\ Len(output) < Len(Wanted)
  /\ output' = Append(output, Wanted[Len(output) + 1])
  /\ UNCHANGED << capture, options, reader, current, sections, frame, pc >>

\* The disk is full, or the file cannot be created: what is written stays.
WriteFails ==
  /\ pc = "writing"
  /\ pc' = "failed"
  /\ UNCHANGED << capture, options, reader, current, sections, frame, output >>

Flush ==
  /\ pc = "writing"
  /\ Len(output) = Len(Wanted)
  /\ pc' = "done"
  /\ UNCHANGED << capture, options, reader, current, sections, frame, output >>

Write == WriteRange \/ WriteFails \/ Flush

Terminated == pc \in {"done", "failed"} /\ UNCHANGED reorderVars

ReorderNext == Scan \/ Refuse \/ ReportOnly \/ Sort \/ Write \/ Terminated

ReorderSpec == ReorderInit /\ [][ReorderNext]_reorderVars

FairReorderSpec == ReorderSpec /\ WF_reorderVars(ReorderNext)

-----------------------------------------------------------------------------
(* The output, as a file of bytes and blocks.                              *)

Written == pc = "done" /\ output # << >>

Bytes(range) == range[1] .. range[1] + range[2] - 1

\* Byte a is somewhere before byte b in what these ranges copy.
Ahead(ranges, a, b) ==
  \E j, k \in DOMAIN ranges :
    a \in Bytes(ranges[j]) /\ b \in Bytes(ranges[k]) /\ (j < k \/ (j = k /\ a < b))

\* The ranges copy every byte from one place to another once, and no other.
Tile(ranges, from, to) ==
  /\ \A b \in from .. to - 1 : \E k \in DOMAIN ranges : b \in Bytes(ranges[k])
  /\ \A k \in DOMAIN ranges : Bytes(ranges[k]) \subseteq from .. to - 1
  /\ \A j, k \in DOMAIN ranges : j # k => Bytes(ranges[j]) \cap Bytes(ranges[k]) = {}

\* The output is made of the bytes of the input: none is lost, none is doubled.
EveryByteOnce == Written => Tile(output, 0, capture.size)

Interfaces == {o \in DOMAIN capture.at : capture.at[o].kind = "idb"}

\* The blocks the capture was written with follow each other without a gap.
EndToEnd ==
  LET ends == DOMAIN capture.at \cup {capture.size} IN
  /\ Opened.pos \in ends
  /\ \A o \in DOMAIN capture.at :
       LET end == o + capture.at[o].len IN
       Opened.pos <= o /\ end \in ends /\ \A i \in DOMAIN capture.at : o < i => end <= i

\* Frame f and frame g, as the reader delivers them.
Offset(f) == reader.got[f].at
Stamp(f)  == reader.got[f].stamp
SameSection(f, g) == \A s \in SectionStarts : s < Offset(f) <=> s < Offset(g)

\* Reading the output, every packet finds behind as many interfaces the one that its
\* time is counted with, and it is in its section, although interfaces have moved.
ReadBackTheSame ==
  Written /\ EndToEnd =>
    \A f \in DOMAIN reader.got :
      LET block == capture.at[Offset(f)] IN
      /\ \A s \in SectionStarts : Ahead(output, s, Offset(f)) <=> s < Offset(f)
      /\ block.kind = "epb" =>
           \E d \in Interfaces :
             /\ Ahead(output, d, Offset(f)) /\ Stamp(f) = block.ticks * capture.at[d].unit
             /\ Cardinality({e \in Interfaces : Ahead(output, e, d)}) = block.iface

\* In the output the packets of a section are in order, and packets with the
\* same time in the order of the input.
OutputOrdered ==
  Written /\ EndToEnd =>
    \A f, g \in DOMAIN reader.got :
      /\ SameSection(f, g)
      /\ Stamp(f) < Stamp(g) \/ (Stamp(f) = Stamp(g) /\ f < g)
      => Ahead(output, Offset(f), Offset(g))

\* The frames reported are those with a later packet before them in their
\* section, and the latest of those is named: no output means no disorder.
ReportsDisorder ==
  pc \in {"scanned", "writing", "done"} /\ EndToEnd =>
    LET Late(f)  == {g \in 1 .. f - 1 : SameSection(f, g) /\ Stamp(g) > Stamp(f)}
        reported == UNION {ToSet(sections[s].scan.misplaced) : s \in DOMAIN sections}
    IN  /\ {m.frame : m \in reported} = {f \in DOMAIN reader.got : Late(f) # {}}
        /\ \A m \in reported :
             m.latest_frame \in Late(m.frame)
               /\ \A g \in Late(m.frame) : Stamp(m.latest_frame) >= Stamp(g)

\* Whatever the file looks like, the tool comes to an end.
Terminates == <>(pc \in {"done", "failed"})
=============================================================================
