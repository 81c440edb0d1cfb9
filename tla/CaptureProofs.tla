---------------------------- MODULE CaptureProofs ----------------------------
(***************************************************************************)
(* What is read from captures and written from them, proved for any        *)
(* captures, damaged or cut off in any way.                                *)
(*                                                                         *)
(* The readers and capinfo: a read does one of a few things to a reader    *)
(* (ParsedCases, StreamCases, SliceCases); what follows is inductive in    *)
(* these.                                                                  *)
(*                                                                         *)
(* Reordercap: what is scanned is cut into sections, and a section is a    *)
(* range of bytes cut into the ranges it has noted (SectionIs); so is what *)
(* is written of it, rearranged (Rearranged, Tile).  In a file whose       *)
(* blocks follow each other without a gap the ranges are blocks, and in    *)
(* front of a section's packets are its header and all its interfaces, in  *)
(* their order (Fronted).  ReorderInv says this of the sections closed and *)
(* of the one being scanned, and how far the output is.                    *)
(***************************************************************************)
EXTENDS CapInfo, Reorder, SequenceLemmas

Entries == [at : Nat, stamp : Nat]

Readers ==
  [pos : Nat, section : BOOLEAN, interfaces : Seq(Nat), got : Seq(Entries),
   failed : SUBSET Nat, status : {"reading", "ended", "panicked"}]

-----------------------------------------------------------------------------
(* Where a read leaves a reader                                            *)

\* What a reader finds is a block.
LEMMA HereIsBlock ==
  ASSUME capture \in Captures, NEW r
  PROVE  /\ Here(r) \in Block
         /\ capture.format \in {"pcap", "pcapng"}
         /\ capture.size \in Nat
         /\ capture.format = "pcap" => Here(r).len >= 16 /\ capture.size >= 24
         /\ DOMAIN capture.at \subseteq Nat
BY CaptureReadersAssumption DEF IsCapture, Here

LEMMA ReaderNumbers ==
  ASSUME capture \in Captures, NEW r \in Readers
  PROVE  /\ capture.format \in {"pcap", "pcapng"} /\ capture.size \in Nat /\ r.pos \in Nat
         /\ Left(r) \in Int /\ Left(r) = capture.size - r.pos
         /\ Here(r).len \in Nat
<1>1. capture.format \in {"pcap", "pcapng"} /\ capture.size \in Nat /\ Here(r) \in Block
  BY HereIsBlock
<1>2. r.pos \in Nat
  BY DEF Readers
<1>3. Here(r).len \in Nat
  BY <1>1 DEF Block
<1> QED  BY <1>1, <1>2, <1>3 DEF Left

LEMMA BlockFields ==
  ASSUME NEW b \in Block
  PROVE  /\ b.len \in Nat /\ b.iface \in Nat /\ b.ticks \in Nat /\ b.unit \in Nat
         /\ b.ticks * b.unit \in Nat
<1>1. b.len \in Nat /\ b.iface \in Nat /\ b.ticks \in Nat /\ b.unit \in Nat
  BY DEF Block
<1>2. \A x, y \in Nat : x * y \in Nat
  OBVIOUS
<1> QED  BY <1>1, <1>2

\* The fields of the outcomes of a read.
LEMMA FailingFields ==
  ASSUME NEW r \in Readers, NEW to \in Nat
  PROVE  /\ Failing(r, to) \in Readers
         /\ Failing(r, to).pos = to /\ Failing(r, to).failed = r.failed \cup {r.pos}
         /\ Failing(r, to).section = r.section /\ Failing(r, to).interfaces = r.interfaces
         /\ Failing(r, to).got = r.got /\ Failing(r, to).status = r.status
BY DEF Failing, Readers

LEMMA SkippingFields ==
  ASSUME capture \in Captures, NEW r \in Readers
  PROVE  /\ Past(r) \in Nat /\ Past(r) >= r.pos
         /\ Skipping(r) \in Readers
         /\ Skipping(r).pos = Past(r) /\ Skipping(r).failed = r.failed
         /\ Skipping(r).section = r.section /\ Skipping(r).interfaces = r.interfaces
         /\ Skipping(r).got = r.got /\ Skipping(r).status = r.status
<1>1. Past(r) \in Nat /\ Past(r) >= r.pos
  BY HereIsBlock, BlockFields DEF Past, Readers
<1> QED  BY <1>1 DEF Skipping, Readers

EnteringSection(r) == [Skipping(r) EXCEPT !.section = TRUE]

LEMMA SectionFields ==
  ASSUME capture \in Captures, NEW r \in Readers
  PROVE  /\ EnteringSection(r) \in Readers
         /\ EnteringSection(r).pos = Past(r) /\ EnteringSection(r).failed = r.failed
         /\ EnteringSection(r).section = TRUE /\ EnteringSection(r).interfaces = r.interfaces
         /\ EnteringSection(r).got = r.got /\ EnteringSection(r).status = r.status
<1> DEFINE k == Skipping(r)
<1>1. /\ k \in Readers /\ k.pos = Past(r) /\ k.failed = r.failed /\ k.interfaces = r.interfaces
      /\ k.got = r.got /\ k.status = r.status
  BY SkippingFields
<1>2. EnteringSection(r) = [k EXCEPT !.section = TRUE]
  BY DEF EnteringSection
<1> HIDE DEF k
<1> QED  BY ONLY <1>1, <1>2 DEF Readers

LEMMA DescribingFields ==
  ASSUME capture \in Captures, NEW r \in Readers
  PROVE  /\ Describing(r) \in Readers
         /\ Describing(r).pos = Past(r) /\ Describing(r).failed = r.failed
         /\ Describing(r).section = r.section
         /\ Describing(r).interfaces = Append(r.interfaces, Here(r).unit)
         /\ Describing(r).got = r.got /\ Describing(r).status = r.status
<1>1. Here(r).unit \in Nat
  BY HereIsBlock, BlockFields
<1>2. r.interfaces \in Seq(Nat)
  BY DEF Readers
<1>3. Append(r.interfaces, Here(r).unit) \in Seq(Nat)
  BY <1>1, <1>2, AppendProperties
<1> QED  BY <1>3, SkippingFields DEF Describing, Readers

LEMMA DeliveringFields ==
  ASSUME capture \in Captures, NEW r \in Readers, NEW stamp \in Nat
  PROVE  LET q == Delivering(r, stamp) IN
         /\ q \in Readers
         /\ q.pos = Past(r) /\ q.failed = r.failed
         /\ q.section = r.section /\ q.interfaces = r.interfaces
         /\ q.got = Append(r.got, [at |-> r.pos, stamp |-> stamp]) /\ q.status = r.status
<1>1. [at |-> r.pos, stamp |-> stamp] \in Entries /\ r.got \in Seq(Entries)
  BY DEF Readers, Entries
<1>2. Append(r.got, [at |-> r.pos, stamp |-> stamp]) \in Seq(Entries)
  BY <1>1, AppendProperties
<1> QED  BY <1>2, SkippingFields DEF Delivering, Readers

LEMMA EndingFields ==
  ASSUME capture \in Captures, NEW r \in Readers
  PROVE  /\ Ending(r) \in Readers
         /\ Ending(r).failed = r.failed /\ Ending(r).interfaces = r.interfaces
         /\ Ending(r).got = r.got /\ Ending(r).status = "ended"
         /\ Panicking(r) \in Readers
         /\ Panicking(r).failed = r.failed /\ Panicking(r).interfaces = r.interfaces
         /\ Panicking(r).got = r.got /\ Panicking(r).status = "panicked"
BY HereIsBlock, SkippingFields DEF Ending, Panicking, Readers

\* The number a packet block names and the time it is delivered with.
Timed(r, stamp) ==
  Here(r).kind = "epb" => /\ Here(r).iface + 1 \in DOMAIN r.interfaces
                          /\ stamp = Here(r).ticks * r.interfaces[Here(r).iface + 1]

\* What becomes of a block that is all there.
LEMMA ParsedCases ==
  ASSUME capture \in Captures, NEW r \in Readers
  PROVE  LET q == Parsed(r)  kind == Here(r).kind IN
         \/ q = Failing(r, Past(r)) /\ (kind \in {"shb", "idb"} => ~ Parses(Here(r)))
         \/ q = EnteringSection(r) /\ kind = "shb"
         \/ q = Describing(r) /\ kind = "idb"
         \/ \E stamp \in Nat : q = Delivering(r, stamp) /\ kind \in {"spb", "epb"} /\ Timed(r, stamp)
         \/ q = Panicking(r) /\ kind = "epb"
         \/ q = Skipping(r) /\ kind \in {"raw", "rec"}
<1> DEFINE b == Here(r)
<1>1. b \in Block /\ b.kind \in Kinds
  BY HereIsBlock DEF Block
<1>2. CASE ~ Parses(b)
  <2>1. Parsed(r) = Failing(r, Past(r))
    BY <1>2 DEF Parsed
  <2> QED  BY <1>2, <2>1
<1>3. CASE Parses(b) /\ b.kind = "shb"
  BY <1>3 DEF Parsed, EnteringSection
<1>4. CASE Parses(b) /\ b.kind = "idb"
  BY <1>4 DEF Parsed
<1>5. CASE Parses(b) /\ b.kind = "spb"
  <2>1. Parsed(r) = IF r.interfaces = << >> THEN Failing(r, Past(r)) ELSE Delivering(r, 0)
    BY <1>5 DEF Parsed
  <2>2. Timed(r, 0)
    BY <1>5 DEF Timed
  <2> QED  BY <1>5, <2>1, <2>2
<1>6. CASE Parses(b) /\ b.kind = "epb"
  <2>1. Parsed(r) = Enhanced(r, b)
    BY <1>6 DEF Parsed
  <2>2. CASE b.iface + 1 \notin DOMAIN r.interfaces
    <3>1. Enhanced(r, b) = Failing(r, Past(r))
      BY <2>2 DEF Enhanced
    <3> QED  BY <1>6, <2>1, <3>1
  <2>3. CASE b.iface + 1 \in DOMAIN r.interfaces
    <3> DEFINE stamp == b.ticks * r.interfaces[b.iface + 1]
    <3>1. r.interfaces \in Seq(Nat) /\ DOMAIN r.interfaces = 1 .. Len(r.interfaces)
      BY DEF Readers
    <3>2. r.interfaces[b.iface + 1] \in Nat /\ b.ticks \in Nat
      BY <1>1, <2>3, <3>1, BlockFields
    <3>3. stamp \in Nat
      <4>1. \A x, y \in Nat : x * y \in Nat
        OBVIOUS
      <4> QED  BY <3>2, <4>1
    <3>4. Timed(r, stamp)
      BY <2>3 DEF Timed
    <3>5. Enhanced(r, b) = IF stamp > MaxTime THEN Panicking(r) ELSE Delivering(r, stamp)
      BY <2>3 DEF Enhanced
    <3> HIDE DEF stamp
    <3> QED  BY <1>6, <2>1, <3>3, <3>4, <3>5
  <2> QED  BY <2>2, <2>3
<1>7. CASE Parses(b) /\ b.kind \in {"raw", "rec"}
  <2>1. Parsed(r) = Skipping(r)
    BY <1>7 DEF Parsed
  <2> QED  BY <1>7, <2>1
<1> QED  BY <1>1, <1>2, <1>3, <1>4, <1>5, <1>6, <1>7 DEF Kinds

\* A streaming reader.
Streaming(r) == IF capture.format = "pcap" THEN StreamingPcap(r) ELSE StreamingPcapng(r)

LEMMA StreamCases ==
  ASSUME capture \in Captures, NEW r \in Readers
  PROVE  \/ Streaming(r) = Ending(r)
         \/ \E to \in Nat : /\ Streaming(r) = Failing(r, to) /\ to \in r.pos + 1 .. capture.size
                            /\ \/ to = capture.size
                               \/ capture.format = "pcapng" /\ Left(r) >= 8 /\ NoSection(r)
                               \/ capture.format = "pcapng" /\ TooShort(r) /\ to = r.pos + Fixed(r)
         \/ /\ capture.format = "pcapng" /\ Streaming(r) = Parsed(r)
            /\ ~ NoSection(r) /\ Here(r).len >= 8 /\ ~ CutOff(r)
         \/ /\ capture.format = "pcap" /\ ~ CutOff(r)
            /\ \E stamp \in Nat : Streaming(r) = Delivering(r, stamp)
<1>1. /\ Here(r) \in Block /\ Here(r).len \in Nat /\ Here(r).ticks * Here(r).unit \in Nat
      /\ capture.format \in {"pcap", "pcapng"} /\ capture.size \in Nat /\ r.pos \in Nat
      /\ capture.format = "pcap" => Here(r).len >= 16
  BY HereIsBlock, BlockFields DEF Readers
<1>2. CASE capture.format = "pcap"
  <2>1. Streaming(r) = StreamingPcap(r)
    BY <1>2 DEF Streaming
  <2>2. CASE Left(r) < RecordHeader
    <3>1. StreamingPcap(r) = Ending(r)
      BY <1>1, <2>2 DEF StreamingPcap, Left, RecordHeader
    <3> QED  BY <2>1, <3>1
  <2>3. CASE Left(r) >= RecordHeader /\ CutOff(r)
    <3>1. StreamingPcap(r) = Failing(r, capture.size)
      BY <1>1, <2>3 DEF StreamingPcap, Left, RecordHeader
    <3>2. capture.size \in r.pos + 1 .. capture.size
      BY <1>1, <2>3 DEF Left, RecordHeader
    <3> QED  BY <1>1, <2>1, <3>1, <3>2
  <2>4. CASE Left(r) >= RecordHeader /\ ~ CutOff(r)
    <3>1. StreamingPcap(r) = Delivering(r, Here(r).ticks * Here(r).unit)
      BY <1>1, <2>4 DEF StreamingPcap, Left, RecordHeader
    <3> QED  BY <1>1, <1>2, <2>1, <2>4, <3>1
  <2> QED  BY <1>1, <2>2, <2>3, <2>4 DEF Left, RecordHeader
<1>3. CASE capture.format = "pcapng"
  <2>1. Streaming(r) = StreamingPcapng(r)
    BY <1>3 DEF Streaming
  <2>2. Left(r) \in Int /\ Left(r) = capture.size - r.pos /\ Fixed(r) \in {8, 12}
    BY <1>1 DEF Left, Fixed
  <2>3. CASE Left(r) < 4
    <3>1. StreamingPcapng(r) = Ending(r)
      BY <2>2, <2>3 DEF StreamingPcapng
    <3> QED  BY <2>1, <3>1
  <2>4. CASE Left(r) \in 4 .. 7
    <3>1. StreamingPcapng(r) = Failing(r, capture.size)
      BY <2>2, <2>4 DEF StreamingPcapng
    <3> QED  BY <1>1, <2>1, <2>2, <2>4, <3>1
  <2>5. CASE Left(r) >= 8 /\ NoSection(r)
    <3>1. StreamingPcapng(r) = Failing(r, r.pos + 8)
      BY <2>2, <2>5 DEF StreamingPcapng
    <3>2. r.pos + 8 \in Nat /\ r.pos + 8 \in r.pos + 1 .. capture.size
      BY <1>1, <2>2, <2>5
    <3> QED  BY <1>3, <2>1, <2>5, <3>1, <3>2
  <2>6. CASE Left(r) >= 8 /\ ~ NoSection(r) /\ Left(r) < Fixed(r)
    <3>1. StreamingPcapng(r) = Failing(r, capture.size)
      BY <2>2, <2>6 DEF StreamingPcapng
    <3> QED  BY <1>1, <2>1, <2>2, <2>6, <3>1
  <2>7. CASE Left(r) >= 8 /\ ~ NoSection(r) /\ ~ (Left(r) < Fixed(r))
    <3>1. StreamingPcapng(r) = IF TooShort(r) THEN Failing(r, r.pos + Fixed(r))
                               ELSE IF CutOff(r) THEN Failing(r, capture.size)
                               ELSE Parsed(r)
      BY <2>2, <2>7 DEF StreamingPcapng
    <3>2. CASE TooShort(r)
      <4>1. r.pos + Fixed(r) \in Nat /\ r.pos + Fixed(r) \in r.pos + 1 .. capture.size
        BY <1>1, <2>2, <2>7
      <4> QED  BY <1>3, <2>1, <3>1, <3>2, <4>1
    <3>3. CASE ~ TooShort(r) /\ CutOff(r)
      BY <1>1, <2>1, <2>2, <2>7, <3>1, <3>3
    <3>4. CASE ~ TooShort(r) /\ ~ CutOff(r)
      <4>1. Here(r).len >= 8
        BY <1>1, <2>2, <3>4 DEF TooShort
      <4> QED  BY <1>3, <2>1, <2>7, <3>1, <3>4, <4>1
    <3> QED  BY <3>2, <3>3, <3>4
  <2> QED  BY <2>2, <2>3, <2>4, <2>5, <2>6, <2>7
<1> QED  BY <1>1, <1>2, <1>3

\* A read by a slice reader.
LEMMA SliceCases ==
  ASSUME capture \in Captures, NEW r \in Readers, r.pos <= capture.size
  PROVE  \/ Slicing(r) = Ending(r) /\ Left(r) = 0
         \/ Slicing(r) = Failing(r, r.pos)
         \/ /\ capture.format = "pcapng" /\ Slicing(r) = Parsed(r)
            /\ ~ NoSection(r) /\ Here(r).len >= 12 /\ ~ CutOff(r)
         \/ /\ capture.format = "pcap" /\ ~ CutOff(r)
            /\ \E stamp \in Nat : Slicing(r) = Delivering(r, stamp)
<1>1. /\ Here(r).len \in Nat /\ Here(r).ticks * Here(r).unit \in Nat
      /\ capture.format \in {"pcap", "pcapng"} /\ Left(r) \in Nat
  <2>1. /\ Here(r) \in Block /\ capture.format \in {"pcap", "pcapng"}
        /\ capture.size \in Nat /\ r.pos \in Nat
    BY HereIsBlock DEF Readers
  <2>2. Left(r) \in Nat
    BY <2>1 DEF Left
  <2> QED  BY <2>1, <2>2, BlockFields
<1>2. CASE capture.format = "pcap"
  <2>1. Slicing(r) = SlicingPcap(r)
    BY <1>2 DEF Slicing
  <2>2. \/ SlicingPcap(r) = Ending(r) /\ Left(r) = 0
        \/ SlicingPcap(r) = Failing(r, r.pos)
        \/ SlicingPcap(r) = Delivering(r, Here(r).ticks * Here(r).unit) /\ ~ CutOff(r)
    BY <1>1 DEF SlicingPcap
  <2> QED  BY <1>1, <1>2, <2>1, <2>2
<1>3. CASE capture.format = "pcapng"
  <2>1. Slicing(r) = SlicingPcapng(r)
    BY <1>3 DEF Slicing
  <2>2. \/ SlicingPcapng(r) = Ending(r) /\ Left(r) = 0
        \/ SlicingPcapng(r) = Failing(r, r.pos)
        \/ SlicingPcapng(r) = Parsed(r) /\ ~ Refused(r)
    BY <1>1 DEF SlicingPcapng, SlicedBlock
  <2>3. ~ Refused(r) => ~ NoSection(r) /\ Here(r).len >= 12 /\ ~ CutOff(r)
    BY <1>1 DEF Refused
  <2> QED  BY <1>1, <1>3, <2>1, <2>2, <2>3
<1> QED  BY <1>1, <1>2, <1>3

-----------------------------------------------------------------------------
(* A read moves a reader on, and does one thing only.                      *)

\* What a read adds to the record of a reader.
Adds(r, q) ==
  \/ q.got = r.got /\ q.failed = r.failed
  \/ q.got = r.got /\ q.failed = r.failed \cup {r.pos}
  \/ /\ q.failed = r.failed /\ q.status = r.status
     /\ \E stamp \in Nat : q.got = Append(r.got, [at |-> r.pos, stamp |-> stamp])

LEMMA OutcomesAdd ==
  ASSUME capture \in Captures, NEW r \in Readers
  PROVE  /\ Adds(r, Ending(r)) /\ Adds(r, Skipping(r)) /\ Adds(r, EnteringSection(r))
         /\ Adds(r, Describing(r)) /\ Adds(r, Panicking(r))
         /\ \A to \in Nat : Adds(r, Failing(r, to))
         /\ \A stamp \in Nat : Adds(r, Delivering(r, stamp))
<1>1. Adds(r, Ending(r)) /\ Adds(r, Panicking(r))
  BY EndingFields DEF Adds
<1>2. Adds(r, Skipping(r))
  BY SkippingFields DEF Adds
<1>3. Adds(r, EnteringSection(r))
  BY SectionFields DEF Adds
<1>4. Adds(r, Describing(r))
  BY DescribingFields DEF Adds
<1>5. ASSUME NEW to \in Nat PROVE Adds(r, Failing(r, to))
  BY FailingFields DEF Adds
<1>6. ASSUME NEW stamp \in Nat PROVE Adds(r, Delivering(r, stamp))
  BY DeliveringFields DEF Adds
<1> QED  BY <1>1, <1>2, <1>3, <1>4, <1>5, <1>6

LEMMA ParsedMoves ==
  ASSUME capture \in Captures, NEW r \in Readers, ~ CutOff(r)
  PROVE  /\ Parsed(r) \in Readers /\ Parsed(r).pos = Past(r) /\ Past(r) <= capture.size
         /\ Adds(r, Parsed(r))
<1>1. Past(r) \in Nat /\ Past(r) <= capture.size
  <2>1. /\ Here(r).len \in Nat /\ capture.size \in Nat /\ r.pos \in Nat
    BY HereIsBlock, BlockFields DEF Readers
  <2> QED  BY <2>1 DEF CutOff, Left, Past
<1>2. CASE Parsed(r) = Failing(r, Past(r))
  BY <1>1, <1>2, FailingFields, OutcomesAdd
<1>3. CASE Parsed(r) = EnteringSection(r)
  BY <1>1, <1>3, SectionFields, OutcomesAdd
<1>4. CASE Parsed(r) = Describing(r)
  BY <1>1, <1>4, DescribingFields, OutcomesAdd
<1>5. CASE \E stamp \in Nat : Parsed(r) = Delivering(r, stamp)
  BY <1>1, <1>5, DeliveringFields, OutcomesAdd
<1>6. CASE Parsed(r) = Panicking(r)
  <2>1. Panicking(r).pos = Past(r)
    BY DEF Panicking, Readers
  <2> QED  BY <1>1, <1>6, <2>1, EndingFields, OutcomesAdd
<1>7. CASE Parsed(r) = Skipping(r)
  BY <1>1, <1>7, SkippingFields, OutcomesAdd
<1> QED  BY <1>2, <1>3, <1>4, <1>5, <1>6, <1>7, ParsedCases

\* A stream that is still read is behind everything it has read.
LEMMA StreamMoves ==
  ASSUME capture \in Captures, NEW r \in Readers
  PROVE  LET q == Streaming(r) IN
         /\ q \in Readers /\ q.pos <= capture.size
         /\ Adds(r, q)
         /\ q.status = "reading" => q.pos > r.pos
<1>1. /\ Here(r).len \in Nat /\ capture.size \in Nat /\ r.pos \in Nat
      /\ capture.format = "pcap" => Here(r).len >= 16
  BY HereIsBlock, BlockFields DEF Readers
<1>2. CASE Streaming(r) = Ending(r)
  <2>1. Ending(r).pos = capture.size
    BY DEF Ending, Readers
  <2> QED  BY <1>1, <1>2, <2>1, EndingFields, OutcomesAdd
<1>3. ASSUME NEW to \in Nat, Streaming(r) = Failing(r, to), to \in r.pos + 1 .. capture.size
      PROVE  LET q == Streaming(r) IN
             /\ q \in Readers /\ q.pos <= capture.size
             /\ Adds(r, q)
             /\ q.status = "reading" => q.pos > r.pos
  <2>1. Failing(r, to) \in Readers /\ Failing(r, to).pos = to
    BY FailingFields
  <2>2. Adds(r, Failing(r, to))
    BY OutcomesAdd
  <2>3. to > r.pos /\ to <= capture.size
    BY <1>1, <1>3
  <2> QED  BY ONLY <1>3, <2>1, <2>2, <2>3
<1>4. CASE Streaming(r) = Parsed(r) /\ Here(r).len >= 8 /\ ~ CutOff(r)
  <2>1. Past(r) > r.pos
    BY <1>1, <1>4 DEF Past
  <2> QED  BY <1>4, <2>1, ParsedMoves
<1>5. ASSUME capture.format = "pcap", ~ CutOff(r), NEW stamp \in Nat, Streaming(r) = Delivering(r, stamp)
      PROVE  LET q == Streaming(r) IN
             /\ q \in Readers /\ q.pos <= capture.size
             /\ Adds(r, q)
             /\ q.status = "reading" => q.pos > r.pos
  <2>1. Past(r) > r.pos /\ Past(r) <= capture.size
    BY <1>1, <1>5 DEF Past, CutOff, Left
  <2>2. Delivering(r, stamp) \in Readers /\ Delivering(r, stamp).pos = Past(r)
    BY DeliveringFields
  <2>3. Adds(r, Delivering(r, stamp))
    BY OutcomesAdd
  <2> QED  BY ONLY <1>5, <2>1, <2>2, <2>3
<1> QED  BY <1>2, <1>3, <1>4, <1>5, StreamCases

LEMMA SliceMoves ==
  ASSUME capture \in Captures, NEW r \in Readers, r.pos <= capture.size
  PROVE  /\ Slicing(r) \in Readers /\ Slicing(r).pos <= capture.size
         /\ Adds(r, Slicing(r))
<1>1. /\ Here(r).len \in Nat /\ capture.size \in Nat /\ r.pos \in Nat
  BY HereIsBlock, BlockFields DEF Readers
<1>2. CASE Slicing(r) = Ending(r)
  <2>1. Ending(r).pos = capture.size
    BY DEF Ending, Readers
  <2> QED  BY <1>1, <1>2, <2>1, EndingFields, OutcomesAdd
<1>3. CASE Slicing(r) = Failing(r, r.pos)
  <2>1. Failing(r, r.pos) \in Readers /\ Failing(r, r.pos).pos = r.pos
    BY <1>1, FailingFields
  <2>2. Adds(r, Failing(r, r.pos))
    BY <1>1, OutcomesAdd
  <2> QED  BY ONLY <1>3, <2>1, <2>2, r.pos <= capture.size
<1>4. CASE Slicing(r) = Parsed(r) /\ ~ CutOff(r)
  BY <1>4, ParsedMoves
<1>5. ASSUME ~ CutOff(r), NEW stamp \in Nat, Slicing(r) = Delivering(r, stamp)
      PROVE  /\ Slicing(r) \in Readers /\ Slicing(r).pos <= capture.size
             /\ Adds(r, Slicing(r))
  <2>1. Past(r) <= capture.size
    BY <1>1, <1>5 DEF Past, CutOff, Left
  <2>2. Delivering(r, stamp) \in Readers /\ Delivering(r, stamp).pos = Past(r)
    BY DeliveringFields
  <2>3. Adds(r, Delivering(r, stamp))
    BY OutcomesAdd
  <2> QED  BY ONLY <1>5, <2>1, <2>2, <2>3
<1> QED  BY <1>2, <1>3, <1>4, <1>5, SliceCases

LEMMA OpenedFields ==
  ASSUME capture \in Captures
  PROVE  /\ Opened \in Readers /\ Opened.pos <= capture.size
         /\ Opened.interfaces = << >> /\ Opened.got = << >> /\ Opened.failed = {}
         /\ Opened.status = "reading" /\ ~ Opened.section
         /\ Opened.pos = IF capture.format = "pcap" THEN GlobalHeader ELSE 0
<1>1. capture.size \in Nat /\ (capture.format = "pcap" => capture.size >= 24)
  BY HereIsBlock
<1>2. << >> \in Seq(Nat) /\ << >> \in Seq(Entries)
  OBVIOUS
<1> QED  BY <1>1, <1>2 DEF Opened, Readers, GlobalHeader

-----------------------------------------------------------------------------
(* The readers of a run                                                    *)

ReadersInv ==
  /\ capture \in Captures
  /\ stream \in Readers /\ stream.pos <= capture.size
  /\ slice \in Readers /\ slice.pos <= capture.size

LEMMA ReadersInit == CapInfoInit => ReadersInv
BY OpenedFields DEF CapInfoInit, Init, ReadersInv

\* Every step is a read of one of the readers, or none.
LEMMA ReadersMove ==
  ASSUME [Next]_vars
  PROVE  /\ capture' = capture
         /\ \/ /\ stream.status = "reading" /\ stream' = Streaming(stream) /\ slice' = slice
            \/ /\ slice.status = "reading" /\ slice' = Slicing(slice) /\ stream' = stream
               /\ UNCHANGED << stats, buckets >>
            \/ UNCHANGED << stream, slice, stats, buckets >>
BY DEF Next, vars, readers, Analyze, AnalyzePacket, CountError, ReadOn, ReadMapped, Done,
       ReadStream, ReadSlice, Streaming

LEMMA ReadersStep ==
  ASSUME ReadersInv, [Next]_vars
  PROVE  ReadersInv'
<1>1. capture' = capture
  BY ReadersMove
<1>2. CASE stream' = Streaming(stream) /\ slice' = slice
  BY <1>1, <1>2, StreamMoves DEF ReadersInv
<1>3. CASE slice' = Slicing(slice) /\ stream' = stream
  BY <1>1, <1>3, SliceMoves DEF ReadersInv
<1>4. CASE UNCHANGED << stream, slice >>
  BY <1>1, <1>4 DEF ReadersInv
<1> QED  BY <1>2, <1>3, <1>4, ReadersMove

-----------------------------------------------------------------------------
(* The report                                                              *)

Stats ==
  [total_packets : Nat, errors : Nat, first_timestamp : Nat \cup {NoTime},
   last_timestamp : Nat \cup {NoTime}, is_ordered : BOOLEAN]

Ordered(got) == \A j, k \in DOMAIN got : j < k => got[j].stamp <= got[k].stamp

\* The report of the packets delivered and the blocks that failed; the first
\* and the last time are those of packets.
Reports(st, got, failed) ==
  /\ st \in Stats
  /\ st.total_packets = Len(got) /\ st.errors = Cardinality(failed)
  /\ got = << >> => st.first_timestamp = NoTime /\ st.last_timestamp = NoTime
  /\ got # << >> =>
       /\ st.first_timestamp \in Nat /\ st.last_timestamp \in Nat
       /\ \A k \in DOMAIN got :
            st.first_timestamp <= got[k].stamp /\ got[k].stamp <= st.last_timestamp
       /\ \E k \in DOMAIN got : got[k].stamp = st.first_timestamp
       /\ \E k \in DOMAIN got : got[k].stamp = st.last_timestamp
  /\ st.is_ordered <=> Ordered(got)

\* A failed position is behind the reader, so that it is counted once.
FailedBefore(r) ==
  /\ IsFiniteSet(r.failed)
  /\ r.status = "reading" => \A f \in r.failed : f < r.pos

ReportInv == Reports(stats, stream.got, stream.failed) /\ FailedBefore(stream)

\* The statistics after one more packet.
Updated(st, t) ==
  [st EXCEPT
    !.total_packets   = @ + 1,
    !.first_timestamp = IF @ = NoTime THEN t ELSE Earlier(@, t),
    !.last_timestamp  = Latest(@, t),
    !.is_ordered      = @ /\ ~ (st.last_timestamp # NoTime /\ t < st.last_timestamp)]

LEMMA UpdatedReports ==
  ASSUME NEW st, NEW got \in Seq(Entries), NEW failed, NEW e \in Entries,
         Reports(st, got, failed)
  PROVE  Reports(Updated(st, e.stamp), Append(got, e), failed)
<1> DEFINE t == e.stamp
           n == Append(got, e)
           u == Updated(st, t)
<1>1. /\ t \in Nat /\ NoTime \notin Int /\ st \in Stats
  BY CapInfoAssumption DEF Entries, Reports
<1>2. /\ Len(got) \in Nat /\ DOMAIN got = 1 .. Len(got)
      /\ n \in Seq(Entries) /\ n # << >> /\ Len(n) = Len(got) + 1 /\ DOMAIN n = 1 .. Len(n)
      /\ \A k \in DOMAIN got : n[k] = got[k] /\ got[k].stamp \in Nat
      /\ n[Len(n)] = e
  <2>1. \A k \in DOMAIN got : got[k] \in Entries
    BY ElementOfSeq
  <2>2. \A k \in DOMAIN got : got[k].stamp \in Nat
    BY <2>1 DEF Entries
  <2> QED  BY <2>2, AppendProperties
<1>3. /\ u.total_packets = st.total_packets + 1 /\ u.errors = st.errors
      /\ u.first_timestamp = IF st.first_timestamp = NoTime THEN t ELSE Earlier(st.first_timestamp, t)
      /\ u.last_timestamp = Latest(st.last_timestamp, t)
      /\ u.is_ordered <=> (st.is_ordered /\ ~ (st.last_timestamp # NoTime /\ t < st.last_timestamp))
  BY <1>1 DEF Updated, Stats
<1>4. u \in Stats
  <2>1. st.total_packets + 1 \in Nat /\ st.errors \in Nat
    BY <1>1 DEF Stats
  <2>2. (IF st.first_timestamp = NoTime THEN t ELSE Earlier(st.first_timestamp, t)) \in Nat \cup {NoTime}
    BY <1>1 DEF Stats, Earlier
  <2>3. Latest(st.last_timestamp, t) \in Nat \cup {NoTime}
    BY <1>1 DEF Stats, Latest, Later
  <2>4. (st.is_ordered /\ ~ (st.last_timestamp # NoTime /\ t < st.last_timestamp)) \in BOOLEAN
    OBVIOUS
  <2> QED  BY <1>1, <2>1, <2>2, <2>3, <2>4 DEF Stats, Updated
<1> HIDE DEF t, n, u
<1>5. CASE got = << >>
  <2>1. u.first_timestamp = t /\ u.last_timestamp = t /\ (u.is_ordered <=> st.is_ordered)
    <3>1. st.first_timestamp = NoTime /\ st.last_timestamp = NoTime
      BY <1>5 DEF Reports
    <3> QED  BY ONLY <1>3, <3>1 DEF Latest
  <2>2. DOMAIN n = {1} /\ n[1] = e
    BY <1>2, <1>5
  <2>3. Ordered(got) /\ Ordered(n)
    BY <1>2, <1>5, <2>2 DEF Ordered
  <2>4. \A k \in DOMAIN n : n[k].stamp = t
    BY <2>2 DEF t
  <2>5. u.total_packets = Len(n) /\ u.errors = Cardinality(failed) /\ (u.is_ordered <=> Ordered(n))
    <3>1. (st.is_ordered <=> Ordered(got)) /\ st.total_packets = Len(got)
          /\ st.errors = Cardinality(failed)
      BY DEF Reports
    <3> QED  BY ONLY <1>2, <1>3, <2>1, <2>3, <3>1
  <2> QED  BY ONLY <1>1, <1>2, <1>4, <2>1, <2>2, <2>4, <2>5 DEF Reports, n, t, u
<1>6. CASE got # << >>
  <2>1. /\ st.first_timestamp \in Nat /\ st.last_timestamp \in Nat
        /\ \A k \in DOMAIN got :
             st.first_timestamp <= got[k].stamp /\ got[k].stamp <= st.last_timestamp
        /\ \E k \in DOMAIN got : got[k].stamp = st.first_timestamp
        /\ \E k \in DOMAIN got : got[k].stamp = st.last_timestamp
        /\ st.is_ordered <=> Ordered(got)
    BY <1>6 DEF Reports
  <2>2. /\ u.first_timestamp \in Nat /\ u.first_timestamp <= t
        /\ u.first_timestamp <= st.first_timestamp
        /\ u.first_timestamp \in {t, st.first_timestamp}
    BY <1>1, <1>3, <2>1 DEF Earlier
  <2>3. /\ u.last_timestamp \in Nat /\ t <= u.last_timestamp
        /\ st.last_timestamp <= u.last_timestamp
        /\ u.last_timestamp \in {t, st.last_timestamp}
    BY <1>1, <1>3, <2>1 DEF Latest, Later
  <2>4. ASSUME NEW k \in DOMAIN n
        PROVE  u.first_timestamp <= n[k].stamp /\ n[k].stamp <= u.last_timestamp
    <3>1. CASE k \in DOMAIN got
      <4>1. n[k].stamp = got[k].stamp /\ got[k].stamp \in Nat
        BY <1>2, <3>1
      <4>2. st.first_timestamp <= got[k].stamp /\ got[k].stamp <= st.last_timestamp
        BY <2>1, <3>1
      <4>3. st.first_timestamp \in Nat /\ st.last_timestamp \in Nat
        BY <2>1
      <4> QED  BY ONLY <2>2, <2>3, <4>1, <4>2, <4>3
    <3>2. CASE k = Len(n)
      BY <1>2, <2>2, <2>3, <3>2 DEF t
    <3> QED  BY <1>2, <3>1, <3>2
  <2>5. /\ \E k \in DOMAIN n : n[k].stamp = u.first_timestamp
        /\ \E k \in DOMAIN n : n[k].stamp = u.last_timestamp
    <3>1. Len(n) \in DOMAIN n /\ n[Len(n)].stamp = t
      BY <1>2 DEF t
    <3>2. \A k \in DOMAIN got : k \in DOMAIN n /\ n[k].stamp = got[k].stamp
      BY <1>2
    <3>3. \A x : (\E k \in DOMAIN got : got[k].stamp = x) => \E k \in DOMAIN n : n[k].stamp = x
      BY <3>2
    <3> QED  BY ONLY <2>1, <2>2, <2>3, <3>1, <3>3
  <2>6. u.is_ordered <=> Ordered(n)
    <3>1. u.is_ordered <=> st.is_ordered /\ st.last_timestamp <= t
      <4>1. /\ st.last_timestamp # NoTime
            /\ (st.last_timestamp <= t) <=> ~ (t < st.last_timestamp)
        BY <1>1, <2>1
      <4> QED  BY ONLY <1>3, <4>1
    <3>2. ASSUME Ordered(got), st.last_timestamp <= t PROVE Ordered(n)
      <4> SUFFICES ASSUME NEW j \in DOMAIN n, NEW k \in DOMAIN n, j < k
                   PROVE  n[j].stamp <= n[k].stamp
        BY DEF Ordered
      <4>1. j \in DOMAIN got /\ n[j].stamp = got[j].stamp /\ got[j].stamp \in Nat
        BY <1>2
      <4>2. CASE k \in DOMAIN got
        BY <1>2, <3>2, <4>1, <4>2 DEF Ordered
      <4>3. CASE k = Len(n)
        <5>1. got[j].stamp <= st.last_timestamp /\ n[k].stamp = t
          BY <1>2, <2>1, <4>1, <4>3 DEF t
        <5> QED  BY <1>1, <2>1, <3>2, <4>1, <5>1
      <4> QED  BY <1>2, <4>2, <4>3
    <3>3. ASSUME Ordered(n) PROVE Ordered(got) /\ st.last_timestamp <= t
      <4>1. Ordered(got)
        BY <1>2, <3>3 DEF Ordered
      <4>2. PICK k \in DOMAIN got : got[k].stamp = st.last_timestamp
        BY <2>1
      <4>3. k \in DOMAIN n /\ Len(n) \in DOMAIN n /\ k < Len(n)
        BY <1>2, <4>2
      <4>4. n[k].stamp <= n[Len(n)].stamp
        BY <3>3, <4>3 DEF Ordered
      <4> QED  BY <1>2, <4>1, <4>2, <4>4 DEF t
    <3> QED  BY <2>1, <3>1, <3>2, <3>3
  <2>7. u.total_packets = Len(n) /\ u.errors = Cardinality(failed)
    BY <1>2, <1>3 DEF Reports
  <2> QED  BY ONLY <1>2, <1>4, <2>2, <2>3, <2>4, <2>5, <2>6, <2>7 DEF Reports, n, t, u
<1> QED  BY <1>5, <1>6

\* What the analysis sees of a read: a packet more, a failed block more that
\* was not among the failed ones, or neither.
LEMMA StreamSteps ==
  ASSUME ReadersInv, FailedBefore(stream), Analyze
  PROVE  /\ FailedBefore(stream')
         /\ \/ /\ AnalyzePacket /\ stream'.failed = stream.failed
               /\ \E e \in Entries : /\ stream'.got = Append(stream.got, e)
                                     /\ Last(stream'.got) = e
            \/ /\ CountError /\ stream'.got = stream.got /\ stream.pos \notin stream.failed
               /\ stream'.failed = stream.failed \cup {stream.pos}
            \/ ReadOn /\ stream'.got = stream.got /\ stream'.failed = stream.failed
<1>1. stream.status = "reading" /\ stream' = Streaming(stream)
  BY DEF Analyze, AnalyzePacket, CountError, ReadOn, ReadStream, Streaming
<1>2. /\ stream \in Readers /\ stream' \in Readers
      /\ Adds(stream, stream')
      /\ stream'.status = "reading" => stream'.pos > stream.pos
  BY <1>1, StreamMoves DEF ReadersInv
<1>3. /\ stream.pos \in Nat /\ stream'.pos \in Nat /\ stream.got \in Seq(Entries)
      /\ stream.failed \in SUBSET Nat
  BY <1>2 DEF Readers
<1>4. IsFiniteSet(stream.failed) /\ \A f \in stream.failed : f < stream.pos
  BY <1>1 DEF FailedBefore
<1>5. stream.pos \notin stream.failed
  BY <1>3, <1>4
<1>6. \A e \in Entries : /\ Append(stream.got, e) # stream.got
                         /\ Last(Append(stream.got, e)) = e
  <2> TAKE e \in Entries
  <2>1. /\ Len(stream.got) \in Nat /\ Len(Append(stream.got, e)) = Len(stream.got) + 1
        /\ Append(stream.got, e)[Len(Append(stream.got, e))] = e
    BY <1>3, AppendProperties
  <2> QED  BY <2>1 DEF Last
<1>7. ASSUME stream'.failed \subseteq stream.failed \cup {stream.pos}
      PROVE  FailedBefore(stream')
  <2>1. IsFiniteSet(stream'.failed)
    BY <1>4, <1>7, FS_AddElement, FS_Subset
  <2>2. ASSUME stream'.status = "reading", NEW f \in stream'.failed PROVE f < stream'.pos
    BY <1>2, <1>3, <1>4, <1>7, <2>2
  <2> QED  BY <2>1, <2>2 DEF FailedBefore
<1>8. CASE stream'.got = stream.got /\ stream'.failed = stream.failed
  <2>1. ~ AnalyzePacket /\ ~ CountError
    BY <1>5, <1>8 DEF AnalyzePacket, CountError
  <2> QED  BY <1>7, <1>8, <2>1 DEF Analyze
<1>9. CASE stream'.got = stream.got /\ stream'.failed = stream.failed \cup {stream.pos}
  <2>1. ~ AnalyzePacket /\ ~ ReadOn
    BY <1>9 DEF AnalyzePacket, ReadOn
  <2> QED  BY <1>5, <1>7, <1>9, <2>1 DEF Analyze
<1>10. ASSUME NEW stamp \in Nat, stream'.failed = stream.failed,
              stream'.got = Append(stream.got, [at |-> stream.pos, stamp |-> stamp])
       PROVE  /\ FailedBefore(stream') /\ AnalyzePacket
              /\ \E e \in Entries : stream'.got = Append(stream.got, e) /\ Last(stream'.got) = e
  <2> DEFINE e == [at |-> stream.pos, stamp |-> stamp]
  <2>1. e \in Entries
    BY <1>3 DEF Entries
  <2>2. stream'.got # stream.got /\ Last(stream'.got) = e
    BY <1>6, <1>10, <2>1
  <2>3. ~ CountError /\ ~ ReadOn
    BY <1>5, <1>10, <2>2 DEF CountError, ReadOn
  <2> QED  BY <1>7, <1>10, <2>1, <2>2, <2>3 DEF Analyze
<1> QED  BY <1>2, <1>8, <1>9, <1>10 DEF Adds

LEMMA ReportInit == CapInfoInit => ReportInv
<1> SUFFICES ASSUME CapInfoInit PROVE ReportInv
  OBVIOUS
<1>1. stream.got = << >> /\ stream.failed = {}
  BY OpenedFields DEF CapInfoInit, Init
<1>2. /\ stats \in Stats
      /\ stats.total_packets = 0 /\ stats.errors = 0 /\ stats.is_ordered
      /\ stats.first_timestamp = NoTime /\ stats.last_timestamp = NoTime
  BY DEF CapInfoInit, Stats
<1>3. Cardinality({}) = 0 /\ IsFiniteSet({}) /\ Len(<< >>) = 0
  BY FS_EmptySet
<1>4. Ordered(<< >>)
  BY DEF Ordered
<1>5. Reports(stats, << >>, {})
  BY <1>2, <1>3, <1>4 DEF Reports
<1>6. FailedBefore(stream)
  BY <1>1, <1>3 DEF FailedBefore
<1> QED  BY <1>1, <1>5, <1>6 DEF ReportInv

LEMMA ReportStep ==
  ASSUME ReadersInv, ReportInv, [Next]_vars
  PROVE  ReportInv'
<1>1. stream \in Readers /\ stream.got \in Seq(Entries) /\ IsFiniteSet(stream.failed)
  BY DEF ReadersInv, ReportInv, FailedBefore, Readers
<1>2. CASE Analyze
  <2>1. ASSUME NEW e \in Entries, AnalyzePacket, stream'.failed = stream.failed,
               stream'.got = Append(stream.got, e), Last(stream'.got) = e
        PROVE  Reports(stats', stream'.got, stream'.failed)
    <3>1. stats' = Updated(stats, e.stamp)
      BY <2>1 DEF AnalyzePacket, UpdateWithPacket, Updated
    <3>2. Reports(Updated(stats, e.stamp), Append(stream.got, e), stream.failed)
      BY <1>1, UpdatedReports DEF ReportInv
    <3> QED  BY <2>1, <3>1, <3>2
  <2>2. ASSUME CountError, stream'.got = stream.got, stream.pos \notin stream.failed,
               stream'.failed = stream.failed \cup {stream.pos}
        PROVE  Reports(stats', stream'.got, stream'.failed)
    <3>1. stats' = [stats EXCEPT !.errors = @ + 1] /\ stats \in Stats
      BY <2>2 DEF CountError, ReportInv, Reports
    <3>2. Cardinality(stream'.failed) = Cardinality(stream.failed) + 1
      BY <1>1, <2>2, FS_AddElement
    <3>3. stats' \in Stats /\ stats'.errors = stats.errors + 1
      BY <3>1 DEF Stats
    <3>4. /\ stats'.total_packets = stats.total_packets
          /\ stats'.first_timestamp = stats.first_timestamp
          /\ stats'.last_timestamp = stats.last_timestamp
          /\ stats'.is_ordered <=> stats.is_ordered
      BY <3>1 DEF Stats
    <3> QED  BY <2>2, <3>2, <3>3, <3>4 DEF ReportInv, Reports
  <2>3. ASSUME ReadOn, stream'.got = stream.got, stream'.failed = stream.failed
        PROVE  Reports(stats', stream'.got, stream'.failed)
    BY <2>3 DEF ReadOn, ReportInv
  <2>4. FailedBefore(stream) /\ FailedBefore(stream')
    BY <1>2, StreamSteps DEF ReportInv
  <2>5. Reports(stats', stream'.got, stream'.failed)
    BY <1>2, <2>1, <2>2, <2>3, <2>4, StreamSteps
  <2> QED  BY <2>4, <2>5 DEF ReportInv
<1>3. CASE UNCHANGED << stream, stats >>
  BY <1>3 DEF ReportInv
<1> QED  BY <1>2, <1>3 DEF Next, vars, readers, ReadMapped, ReadSlice, Done

LEMMA ReportInvariant == Spec => [](ReadersInv /\ ReportInv)
BY ReadersInit, ReportInit, ReadersStep, ReportStep, PTL DEF Spec

\* The least and the greatest of some numbers.
LEMMA Extremes ==
  ASSUME NEW S, S \subseteq Nat, NEW a \in S, NEW z \in S, \A t \in S : a <= t /\ t <= z
  PROVE  Min(S) = a /\ Max(S) = z
<1>1. \A x \in S : x \in Nat
  OBVIOUS
<1>2. \A x \in S : (\A y \in S : x <= y) <=> x = a
  BY <1>1
<1>3. \A x \in S : (\A y \in S : x >= y) <=> x = z
  BY <1>1
<1> QED  BY <1>2, <1>3 DEF Min, Max

\* Stats of capinfo: for any capture, however its packets are ordered and whatever is wrong
\* with its blocks, the counts are those of the packets delivered and of the blocks that
\* failed, the times are the earliest and the latest of the packets, or none without packets,
\* and is_ordered says whether a packet runs backwards.
THEOREM ReportIsRight == Spec => []ReportAgrees
<1>1. ASSUME ReadersInv, ReportInv PROVE ReportAgrees
  <2>1. stream.got \in Seq(Entries) /\ Stamps \subseteq Nat
    <3>1. stream.got \in Seq(Entries)
      BY <1>1 DEF ReadersInv, Readers
    <3>2. \A k \in DOMAIN stream.got : stream.got[k] \in Entries
      BY <3>1, ElementOfSeq
    <3> QED  BY <3>1, <3>2 DEF Entries, Stamps, Packets
  <2>2. Reports(stats, stream.got, stream.failed)
    BY <1>1 DEF ReportInv
  <2>3. /\ stats.first_timestamp = (IF Stamps = {} THEN NoTime ELSE Min(Stamps))
        /\ stats.last_timestamp = (IF Stamps = {} THEN NoTime ELSE Max(Stamps))
    <3>1. CASE stream.got = << >>
      <4>1. Stamps = {}
        BY <3>1 DEF Stamps, Packets
      <4> QED  BY <2>2, <3>1, <4>1 DEF Reports
    <3>2. CASE stream.got # << >>
      <4>1. /\ stats.first_timestamp \in Stamps /\ stats.last_timestamp \in Stamps
            /\ \A t \in Stamps : stats.first_timestamp <= t /\ t <= stats.last_timestamp
        BY <2>2, <3>2 DEF Reports, Stamps, Packets
      <4>2. Stamps # {}
        BY <4>1
      <4>3. Min(Stamps) = stats.first_timestamp /\ Max(Stamps) = stats.last_timestamp
        BY ONLY <2>1, <4>1, Extremes
      <4> QED  BY <4>2, <4>3
    <3> QED  BY <3>1, <3>2
  <2>4. /\ stats.total_packets = Len(stream.got) /\ stats.errors = Cardinality(stream.failed)
        /\ stats.is_ordered <=> Ordered(stream.got)
    BY <2>2 DEF Reports
  <2> QED  BY <2>3, <2>4 DEF ReportAgrees, Packets, Ordered
<1> QED  BY <1>1, ReportInvariant, PTL

-----------------------------------------------------------------------------
(* The intervals                                                           *)

\* The intervals start at the multiples of the width, and each time is in the
\* one that starts at or before it.
LEMMA IntervalContains ==
  ASSUME NEW t \in Nat
  PROVE  /\ IntervalOf(t) \in Nat /\ IntervalOf(t) % Width = 0
         /\ \A s \in Nat : s % Width = 0 => (IntervalOf(t) = s <=> t \in s .. s + Width - 1)
<1> DEFINE n == Width
<1>1. n \in Nat /\ n > 0
  BY CapInfoAssumption
<1> HIDE DEF n
<1>2. \A a \in Nat : a \div n \in Nat /\ a % n \in 0 .. n - 1 /\ a = n * (a \div n) + (a % n)
  BY <1>1
<1>3. \A a \in Nat, q \in Nat, r \in 0 .. n - 1 : a = n * q + r => a % n = r
  BY <1>1
<1> DEFINE k == t \div n
           i == t - (t % n)
<1>4. k \in Nat /\ i = n * k /\ i \in Nat /\ t % n \in 0 .. n - 1 /\ t = i + (t % n)
  <2>1. \A x, y \in Nat : x * y \in Nat
    OBVIOUS
  <2>2. k \in Nat /\ t % n \in 0 .. n - 1 /\ t = n * k + (t % n)
    BY <1>2
  <2>3. n * k \in Nat
    BY <1>1, <2>1, <2>2
  <2> HIDE DEF k
  <2> QED  BY <1>1, <2>2, <2>3
<1>5. i % n = 0
  <2>1. 0 \in 0 .. n - 1 /\ i = n * k + 0
    BY <1>1, <1>4
  <2> QED  BY <1>3, <1>4, <2>1
<1>6. ASSUME NEW s \in Nat, s % n = 0
      PROVE  i = s <=> t \in s .. s + n - 1
  <2>1. s \div n \in Nat /\ s = n * (s \div n)
    <3>1. s \div n \in Nat /\ s = n * (s \div n) + (s % n)
      BY <1>2
    <3>2. \A x, y \in Nat : x * y \in Nat
      OBVIOUS
    <3>3. n * (s \div n) \in Nat
      BY <1>1, <3>1, <3>2
    <3> QED  BY <1>6, <3>1, <3>3
  <2>2. ASSUME t \in s .. s + n - 1 PROVE i = s
    <3>1. t - s \in 0 .. n - 1 /\ t = s + (t - s)
      BY <1>1, <2>2
    <3>2. t % n = t - s
      BY <1>3, <2>1, <3>1
    <3> QED  BY <3>2
  <2>3. i = s => t \in s .. s + n - 1
    BY <1>1, <1>4
  <2> QED  BY <2>2, <2>3
<1> QED  BY <1>4, <1>5, <1>6 DEF n, IntervalOf

InBucket(got, s) == { k \in DOMAIN got : IntervalOf(got[k].stamp) = s }

Counts(table, got) ==
  /\ \A s \in DOMAIN table :
       s \in Nat /\ s % Width = 0 /\ table[s] = Cardinality(InBucket(got, s)) /\ table[s] > 0
  /\ \A k \in DOMAIN got : IntervalOf(got[k].stamp) \in DOMAIN table

BucketInv == Counts(buckets, stream.got)

\* The table after one more packet.
Counted(table, t) ==
  LET start == IntervalOf(t)
      old   == IF start \in DOMAIN table THEN table[start] ELSE 0
  IN  [s \in DOMAIN table \cup {start} |-> IF s = start THEN old + 1 ELSE table[s]]

LEMMA CountedCounts ==
  ASSUME NEW table, NEW got \in Seq(Entries), NEW e \in Entries, Counts(table, got)
  PROVE  Counts(Counted(table, e.stamp), Append(got, e))
<1> DEFINE start == IntervalOf(e.stamp)
           n == Append(got, e)
           c == Counted(table, e.stamp)
<1>1. e.stamp \in Nat /\ start \in Nat /\ start % Width = 0
  <2>1. e.stamp \in Nat
    BY DEF Entries
  <2> QED  BY <2>1, IntervalContains
<1>2. /\ Len(got) \in Nat /\ DOMAIN got = 1 .. Len(got)
      /\ DOMAIN n = DOMAIN got \cup {Len(got) + 1} /\ Len(got) + 1 \notin DOMAIN got
      /\ \A k \in DOMAIN got : n[k] = got[k]
      /\ n[Len(got) + 1] = e
  <2>1. Len(got) \in Nat /\ DOMAIN got = 1 .. Len(got)
    OBVIOUS
  <2>2. /\ n \in Seq(Entries) /\ Len(n) = Len(got) + 1 /\ DOMAIN n = 1 .. Len(got) + 1
        /\ \A k \in 1 .. Len(got) : n[k] = got[k]
        /\ n[Len(got) + 1] = e
    BY AppendProperties
  <2>3. 1 .. Len(got) + 1 = (1 .. Len(got)) \cup {Len(got) + 1} /\ Len(got) + 1 \notin 1 .. Len(got)
    BY <2>1
  <2> QED  BY <2>1, <2>2, <2>3
<1>3. /\ DOMAIN c = DOMAIN table \cup {start}
      /\ c[start] = (IF start \in DOMAIN table THEN table[start] ELSE 0) + 1
      /\ \A s \in DOMAIN table : s # start => c[s] = table[s]
  BY DEF Counted
<1> HIDE DEF c, n
<1>4. ASSUME NEW s, s # start PROVE InBucket(n, s) = InBucket(got, s)
  BY <1>2, <1>4 DEF InBucket
<1>5. /\ InBucket(n, start) = InBucket(got, start) \cup {Len(got) + 1}
      /\ Len(got) + 1 \notin InBucket(got, start)
  BY <1>2 DEF InBucket
<1>6. IsFiniteSet(InBucket(got, start))
  <2>1. IsFiniteSet(1 .. Len(got))
    BY <1>2, FS_Interval
  <2>2. InBucket(got, start) \subseteq 1 .. Len(got)
    BY <1>2 DEF InBucket
  <2> QED  BY <2>1, <2>2, FS_Subset
<1>7. (IF start \in DOMAIN table THEN table[start] ELSE 0) = Cardinality(InBucket(got, start))
  <2>1. CASE start \in DOMAIN table
    BY <2>1 DEF Counts
  <2>2. CASE start \notin DOMAIN table
    <3>1. InBucket(got, start) = {}
      BY <2>2 DEF Counts, InBucket
    <3> QED  BY <2>2, <3>1, FS_EmptySet
  <2> QED  BY <2>1, <2>2
<1>8. ASSUME NEW s \in DOMAIN c
      PROVE  s \in Nat /\ s % Width = 0 /\ c[s] = Cardinality(InBucket(n, s)) /\ c[s] > 0
  <2>1. CASE s = start
    <3>1. /\ Cardinality(InBucket(n, start)) = Cardinality(InBucket(got, start)) + 1
          /\ Cardinality(InBucket(got, start)) \in Nat
      BY <1>5, <1>6, FS_AddElement, FS_CardinalityType
    <3> QED  BY <1>1, <1>3, <1>7, <2>1, <3>1
  <2>2. CASE s # start
    <3>1. s \in DOMAIN table /\ c[s] = table[s]
      BY <1>3, <2>2
    <3>2. s \in Nat /\ s % Width = 0 /\ table[s] = Cardinality(InBucket(got, s)) /\ table[s] > 0
      BY <3>1 DEF Counts
    <3> QED  BY <1>4, <2>2, <3>1, <3>2
  <2> QED  BY <2>1, <2>2
<1>9. ASSUME NEW k \in DOMAIN n PROVE IntervalOf(n[k].stamp) \in DOMAIN c
  BY <1>2, <1>3 DEF Counts
<1> QED  BY <1>8, <1>9 DEF Counts, c, n

LEMMA BucketInit == CapInfoInit => BucketInv
<1> SUFFICES ASSUME CapInfoInit PROVE BucketInv
  OBVIOUS
<1>1. stream.got = << >> /\ buckets = << >>
  BY OpenedFields DEF CapInfoInit, Init
<1> QED  BY <1>1 DEF BucketInv, Counts

LEMMA BucketStep ==
  ASSUME ReadersInv, ReportInv, BucketInv, [Next]_vars
  PROVE  BucketInv'
<1>1. stream.got \in Seq(Entries)
  BY DEF ReadersInv, Readers
<1>2. CASE Analyze
  <2>1. ASSUME NEW e \in Entries, AnalyzePacket,
               stream'.got = Append(stream.got, e), Last(stream'.got) = e
        PROVE  BucketInv'
    <3>1. buckets' = Counted(buckets, e.stamp)
      BY <2>1 DEF AnalyzePacket, CountInInterval, Counted
    <3>2. Counts(Counted(buckets, e.stamp), Append(stream.got, e))
      BY <1>1, CountedCounts DEF BucketInv
    <3> QED  BY <2>1, <3>1, <3>2 DEF BucketInv
  <2>2. ASSUME UNCHANGED buckets, stream'.got = stream.got
        PROVE  BucketInv'
    BY <2>2 DEF BucketInv
  <2> QED  BY <1>2, <2>1, <2>2, StreamSteps DEF ReportInv, CountError, ReadOn
<1>3. CASE UNCHANGED << stream, buckets >>
  BY <1>3 DEF BucketInv
<1> QED  BY <1>2, <1>3 DEF Next, vars, readers, ReadMapped, ReadSlice, Done

\* IntervalStats of capinfo: whatever order the packets come in, the interval that contains
\* the time of a packet is there, starts at a multiple of the width, and counts the packets
\* whose times it contains, for any width.
THEOREM IntervalsAreExact == Spec => []IntervalsPartition
<1>1. ASSUME ReadersInv, BucketInv PROVE IntervalsPartition
  <2>1. \A k \in DOMAIN stream.got : stream.got[k].stamp \in Nat
    <3>1. stream.got \in Seq(Entries)
      BY <1>1 DEF ReadersInv, Readers
    <3>2. \A k \in DOMAIN stream.got : stream.got[k] \in Entries
      BY <3>1, ElementOfSeq
    <3> QED  BY <3>2 DEF Entries
  <2>2. ASSUME NEW k \in DOMAIN stream.got, NEW s \in Nat, s % Width = 0
        PROVE  IntervalOf(stream.got[k].stamp) = s <=> stream.got[k].stamp \in IntervalAt(s)
    BY <2>1, <2>2, IntervalContains DEF IntervalAt
  <2>3. ASSUME NEW k \in DOMAIN stream.got
        PROVE  \E s \in DOMAIN buckets : stream.got[k].stamp \in IntervalAt(s)
    <3> DEFINE s == IntervalOf(stream.got[k].stamp)
    <3>1. s \in DOMAIN buckets /\ s \in Nat /\ s % Width = 0
      BY <1>1 DEF BucketInv, Counts
    <3>2. stream.got[k].stamp \in IntervalAt(s)
      BY <2>2, <3>1
    <3> QED  BY <3>1, <3>2
  <2>4. ASSUME NEW s \in DOMAIN buckets
        PROVE  /\ s % Width = 0 /\ buckets[s] > 0
               /\ buckets[s] = Cardinality({k \in Packets : stream.got[k].stamp \in IntervalAt(s)})
    <3>1. /\ s \in Nat /\ s % Width = 0 /\ buckets[s] > 0
          /\ buckets[s] = Cardinality(InBucket(stream.got, s))
      BY <1>1 DEF BucketInv, Counts
    <3>2. InBucket(stream.got, s) = {k \in Packets : stream.got[k].stamp \in IntervalAt(s)}
      BY <2>2, <3>1 DEF InBucket, Packets
    <3> QED  BY <3>1, <3>2
  <2> QED  BY <2>3, <2>4 DEF IntervalsPartition, Stamps, Packets
<1>2. ReadersInv /\ ReportInv /\ BucketInv /\ [Next]_vars => BucketInv'
  BY BucketStep
<1> QED  BY <1>1, <1>2, BucketInit, ReportInvariant, PTL DEF Spec

-----------------------------------------------------------------------------
(* Interfaces.  The property is about captures with a single section whose *)
(* interface blocks parse and can be reached.                              *)

SingleSection ==
  /\ SectionStarts = {0} /\ capture.other.kind # "idb"
  /\ \A o \in DOMAIN capture.at :
       capture.at[o].kind \in {"shb", "idb"} => Parses(capture.at[o])
  /\ LengthsLeadToInterfaces

Describes(o) == o \in DOMAIN capture.at /\ capture.at[o].kind = "idb"

DescribedBefore(p) == { o \in DOMAIN capture.at : Describes(o) /\ o < p }

\* As long as there are bytes left, a reader has read every interface block it
\* has passed, and stands at a block if there are more of them.
OnTrack(r) ==
  Left(r) > 0 =>
    /\ Cardinality(DescribedBefore(r.pos)) = Len(r.interfaces)
    /\ r.pos # 0 => r.section
    /\ (\E i \in DOMAIN capture.at : Describes(i) /\ i >= r.pos) => r.pos \in DOMAIN capture.at

\* The interfaces of a reader are those of the blocks, by their numbers.
KnowsInterfaces(r) ==
  \A n \in DOMAIN r.interfaces :
    \E o \in DescribedBefore(r.pos) :
      Number(o) = n - 1 /\ r.interfaces[n] = capture.at[o].unit

TrackInv(r) == OnTrack(r) /\ KnowsInterfaces(r) /\ OwnInterfaceOf(r)

LEMMA InOneSection ==
  ASSUME capture \in Captures, SingleSection
  PROVE  /\ capture.format = "pcapng"
         /\ 0 \in DOMAIN capture.at /\ capture.at[0].kind = "shb"
         /\ \A p : InterfacesBefore(p) = DescribedBefore(p)
<1>1. 0 \in DOMAIN capture.at /\ capture.at[0].kind = "shb"
  BY DEF SingleSection, SectionStarts
<1>2. capture.format = "pcapng"
  BY <1>1, CaptureReadersAssumption DEF IsCapture
<1>3. \A o \in DOMAIN capture.at : ~ (o < 0)
  BY HereIsBlock
<1>4. ASSUME NEW p PROVE InterfacesBefore(p) = DescribedBefore(p)
  BY <1>3 DEF InterfacesBefore, DescribedBefore, Describes, SingleSection
<1> QED  BY <1>1, <1>2, <1>4

LEMMA DescribedBeforeFinite ==
  ASSUME capture \in Captures, NEW p \in Nat
  PROVE  IsFiniteSet(DescribedBefore(p))
<1>1. \A o \in DOMAIN capture.at : o \in Nat
  BY HereIsBlock
<1>2. DescribedBefore(p) \subseteq 0 .. p
  BY <1>1 DEF DescribedBefore
<1>3. IsFiniteSet(0 .. p)
  BY FS_Interval
<1> QED  BY <1>2, <1>3, FS_Subset

\* A reader that moves without describing or delivering.
LEMMA KeepsNumbers ==
  ASSUME capture \in Captures, NEW r \in Readers, NEW q \in Readers, r.pos <= q.pos,
         q.interfaces = r.interfaces, KnowsInterfaces(r)
  PROVE  KnowsInterfaces(q)
<1>1. \A o \in DOMAIN capture.at : o \in Nat
  BY HereIsBlock
<1>2. DescribedBefore(r.pos) \subseteq DescribedBefore(q.pos)
  BY <1>1 DEF DescribedBefore, Readers
<1> QED  BY <1>2 DEF KnowsInterfaces

LEMMA KeepsOwnInterface ==
  ASSUME NEW r, NEW q, q.got = r.got, OwnInterfaceOf(r)
  PROVE  OwnInterfaceOf(q)
BY DEF OwnInterfaceOf

\* A block that is all there: the next one is behind it, and no interface block
\* in between.
LEMMA NextBlock ==
  ASSUME capture \in Captures, SingleSection, NEW r \in Readers, OnTrack(r), Left(r) > 0,
         Here(r).len >= 8
  PROVE  /\ \A i \in DOMAIN capture.at : Describes(i) =>
              i < Past(r) <=> i <= r.pos
         /\ (\E i \in DOMAIN capture.at : Describes(i) /\ i >= Past(r))
               => Past(r) \in DOMAIN capture.at
         /\ Here(r).kind = "idb" <=> Describes(r.pos)
<1>1. /\ \A o \in DOMAIN capture.at : o \in Nat
      /\ r.pos \in Nat /\ Here(r).len \in Nat
  BY HereIsBlock, BlockFields DEF Readers
<1>2. Past(r) = r.pos + Here(r).len /\ Past(r) > r.pos
  BY <1>1 DEF Past
<1>3. ASSUME NEW i \in DOMAIN capture.at, Describes(i), i > r.pos
      PROVE  Past(r) <= i /\ Past(r) \in DOMAIN capture.at
  <2>1. i >= r.pos
    BY <1>1, <1>3
  <2>2. r.pos \in DOMAIN capture.at /\ Here(r) = capture.at[r.pos]
    BY <1>3, <2>1 DEF OnTrack, Here
  <2>3. r.pos < i /\ capture.at[i].kind = "idb"
    BY <1>1, <1>3 DEF Describes
  <2> QED  BY <1>2, <2>2, <2>3 DEF SingleSection, LengthsLeadToInterfaces
<1>4. ASSUME NEW i \in DOMAIN capture.at, Describes(i) PROVE i < Past(r) <=> i <= r.pos
  <2>1. i \in Nat /\ Past(r) \in Nat
    BY <1>1, <1>2
  <2>2. i > r.pos => Past(r) <= i
    BY <1>3, <1>4
  <2> QED  BY <1>1, <1>2, <2>1, <2>2
<1>5. ASSUME NEW i \in DOMAIN capture.at, Describes(i), i >= Past(r)
      PROVE  Past(r) \in DOMAIN capture.at
  <2>1. i > r.pos
    BY <1>1, <1>2, <1>5
  <2> QED  BY <1>3, <1>5, <2>1
<1>6. Here(r).kind = "idb" <=> Describes(r.pos)
  BY DEF Here, Describes, SingleSection
<1> QED  BY <1>4, <1>5, <1>6

\* A reader that moves on over a block that describes no interface.
LEMMA TrackOver ==
  ASSUME capture \in Captures, SingleSection, NEW r \in Readers, OnTrack(r), Left(r) > 0,
         Here(r).len >= 8, ~ Describes(r.pos),
         NEW q \in Readers, q.pos = Past(r), q.interfaces = r.interfaces,
         (q.section = r.section /\ r.pos # 0) \/ q.section
  PROVE  OnTrack(q)
<1>1. /\ \A o \in DOMAIN capture.at : o \in Nat
      /\ r.pos \in Nat /\ Here(r).len \in Nat
  BY HereIsBlock, BlockFields DEF Readers
<1>2. DescribedBefore(q.pos) = DescribedBefore(r.pos)
  <2>1. \A i \in DOMAIN capture.at : Describes(i) => (i < Past(r) <=> i <= r.pos)
    BY NextBlock
  <2>2. \A i \in DOMAIN capture.at : Describes(i) => i # r.pos /\ (i <= r.pos <=> i < r.pos)
    BY <1>1
  <2> QED  BY <2>1, <2>2 DEF DescribedBefore
<1>3. Cardinality(DescribedBefore(r.pos)) = Len(r.interfaces) /\ (r.pos # 0 => r.section)
  BY DEF OnTrack
<1>4. q.section
  BY <1>3
<1>5. (\E i \in DOMAIN capture.at : Describes(i) /\ i >= q.pos) => q.pos \in DOMAIN capture.at
  BY NextBlock
<1> QED  BY <1>2, <1>3, <1>4, <1>5 DEF OnTrack

LEMMA TrackDescribing ==
  ASSUME capture \in Captures, SingleSection, NEW r \in Readers, OnTrack(r), KnowsInterfaces(r),
         Left(r) > 0, Here(r).len >= 8, Describes(r.pos)
  PROVE  OnTrack(Describing(r)) /\ KnowsInterfaces(Describing(r))
<1> DEFINE q == Describing(r)
           I == DescribedBefore(r.pos)
<1>1. /\ \A o \in DOMAIN capture.at : o \in Nat
      /\ r.pos \in Nat /\ Here(r).len \in Nat
      /\ r.interfaces \in Seq(Nat) /\ Here(r).unit \in Nat
  BY HereIsBlock, BlockFields DEF Readers
<1>2. /\ q \in Readers /\ q.pos = Past(r) /\ q.section = r.section
      /\ q.interfaces = Append(r.interfaces, Here(r).unit)
  BY DescribingFields
<1> HIDE DEF q
<1>3. DescribedBefore(q.pos) = I \cup {r.pos} /\ r.pos \notin I
  <2>1. \A i \in DOMAIN capture.at : Describes(i) => (i < Past(r) <=> i <= r.pos)
    BY NextBlock
  <2>2. \A i \in DOMAIN capture.at : Describes(i) => (i <= r.pos <=> i < r.pos \/ i = r.pos)
    BY <1>1
  <2>3. r.pos \in DOMAIN capture.at /\ ~ (r.pos < r.pos)
    BY <1>1 DEF Describes
  <2> QED  BY <1>2, <2>1, <2>2, <2>3 DEF DescribedBefore
<1>4. Cardinality(I) = Len(r.interfaces) /\ (r.pos # 0 => r.section)
  BY DEF OnTrack
<1>5. Cardinality(DescribedBefore(q.pos)) = Len(q.interfaces)
  <2>1. IsFiniteSet(I)
    BY <1>1, DescribedBeforeFinite
  <2>2. Len(q.interfaces) = Len(r.interfaces) + 1
    BY <1>1, <1>2, AppendProperties
  <2> HIDE DEF I
  <2>3. Cardinality(I \cup {r.pos}) = Cardinality(I) + 1
    BY <1>3, <2>1, FS_AddElement
  <2> QED  BY ONLY <1>3, <1>4, <2>2, <2>3
<1>6. q.section
  <2>1. capture.at[0].kind # "idb"
    BY InOneSection
  <2>2. r.pos # 0
    BY <2>1 DEF Describes
  <2> QED  BY <1>2, <1>4, <2>2
<1>7. OnTrack(q)
  <2>1. (\E i \in DOMAIN capture.at : Describes(i) /\ i >= q.pos) => q.pos \in DOMAIN capture.at
    BY <1>2, NextBlock
  <2> QED  BY <1>5, <1>6, <2>1 DEF OnTrack
<1>8. KnowsInterfaces(q)
  <2> SUFFICES ASSUME NEW n \in DOMAIN q.interfaces
               PROVE  \E o \in DescribedBefore(q.pos) :
                        Number(o) = n - 1 /\ q.interfaces[n] = capture.at[o].unit
    BY DEF KnowsInterfaces
  <2>1. /\ Len(r.interfaces) \in Nat /\ DOMAIN r.interfaces = 1 .. Len(r.interfaces)
        /\ DOMAIN q.interfaces = 1 .. Len(r.interfaces) + 1
        /\ \A k \in DOMAIN r.interfaces : q.interfaces[k] = r.interfaces[k]
        /\ q.interfaces[Len(r.interfaces) + 1] = Here(r).unit
    BY <1>1, <1>2, AppendProperties
  <2>2. CASE n \in DOMAIN r.interfaces
    BY <1>3, <2>1, <2>2 DEF KnowsInterfaces
  <2>3. CASE n = Len(r.interfaces) + 1
    <3>1. Number(r.pos) = Len(r.interfaces)
      BY <1>4, InOneSection DEF Number
    <3>2. q.interfaces[n] = capture.at[r.pos].unit
      BY <2>1, <2>3 DEF Here, Describes
    <3>3. Number(r.pos) = n - 1
      BY <2>1, <2>3, <3>1
    <3> QED  BY <1>3, <3>2, <3>3
  <2> QED  BY <2>1, <2>2, <2>3
<1> QED  BY <1>7, <1>8 DEF q

\* The packet that is delivered names an interface the reader knows by its number.
LEMMA TrackDelivering ==
  ASSUME capture \in Captures, SingleSection, NEW r \in Readers, KnowsInterfaces(r), OwnInterfaceOf(r),
         NEW stamp \in Nat, Timed(r, stamp)
  PROVE  OwnInterfaceOf(Delivering(r, stamp))
<1> DEFINE q == Delivering(r, stamp)
           e == [at |-> r.pos, stamp |-> stamp]
<1>1. q.got = Append(r.got, e) /\ r.got \in Seq(Entries) /\ e \in Entries
  BY DeliveringFields DEF Readers, Entries
<1>2. /\ DOMAIN q.got = DOMAIN r.got \cup {Len(r.got) + 1}
      /\ \A k \in DOMAIN r.got : q.got[k] = r.got[k]
      /\ q.got[Len(r.got) + 1] = e
  <2>1. Len(r.got) \in Nat /\ DOMAIN r.got = 1 .. Len(r.got)
    BY <1>1
  <2>2. /\ DOMAIN q.got = 1 .. Len(r.got) + 1
        /\ \A k \in 1 .. Len(r.got) : q.got[k] = r.got[k]
        /\ q.got[Len(r.got) + 1] = e
    <3> HIDE DEF q, e
    <3> QED  BY <1>1, AppendProperties
  <2>3. 1 .. Len(r.got) + 1 = (1 .. Len(r.got)) \cup {Len(r.got) + 1}
    BY <2>1
  <2> HIDE DEF q, e
  <2> QED  BY <2>1, <2>2, <2>3
<1>3. ASSUME r.pos \in DOMAIN capture.at, capture.at[r.pos].kind = "epb"
      PROVE  \E o \in InterfacesBefore(r.pos) :
               /\ Number(o) = capture.at[r.pos].iface
               /\ stamp = capture.at[r.pos].ticks * capture.at[o].unit
  <2>1. Here(r) = capture.at[r.pos] /\ Here(r).kind = "epb" /\ Here(r).iface \in Nat
    BY <1>3, HereIsBlock, BlockFields DEF Here
  <2>2. /\ Here(r).iface + 1 \in DOMAIN r.interfaces
        /\ stamp = Here(r).ticks * r.interfaces[Here(r).iface + 1]
    BY <2>1 DEF Timed
  <2> DEFINE n == Here(r).iface + 1
  <2>3. PICK o \in DescribedBefore(r.pos) :
          Number(o) = n - 1 /\ r.interfaces[n] = capture.at[o].unit
    <3>1. n \in DOMAIN r.interfaces
      BY <2>2
    <3> HIDE DEF n
    <3> QED  BY <3>1 DEF KnowsInterfaces
  <2>4. Number(o) = Here(r).iface /\ o \in InterfacesBefore(r.pos)
    BY <2>1, <2>3, InOneSection
  <2> QED  BY <2>1, <2>2, <2>3, <2>4
<1> HIDE DEF q
<1>4. ASSUME NEW k \in DOMAIN q.got,
             q.got[k].at \in DOMAIN capture.at, capture.at[q.got[k].at].kind = "epb"
      PROVE  \E o \in InterfacesBefore(q.got[k].at) :
               /\ Number(o) = capture.at[q.got[k].at].iface
               /\ q.got[k].stamp = capture.at[q.got[k].at].ticks * capture.at[o].unit
  <2>1. CASE k \in DOMAIN r.got
    <3>1. q.got[k] = r.got[k]
      BY <1>2, <2>1
    <3> QED  BY <1>4, <2>1, <3>1 DEF OwnInterfaceOf
  <2>2. CASE k = Len(r.got) + 1
    <3>1. q.got[k].at = r.pos /\ q.got[k].stamp = stamp
      BY <1>2, <2>2
    <3> QED  BY <1>3, <1>4, <3>1
  <2> QED  BY <1>2, <2>1, <2>2
<1> QED  BY <1>4 DEF OwnInterfaceOf, q

LEMMA TrackParsed ==
  ASSUME capture \in Captures, SingleSection, NEW r \in Readers, TrackInv(r),
         ~ CutOff(r), Here(r).len >= 8
  PROVE  TrackInv(Parsed(r))
<1>1. /\ Here(r).len \in Nat /\ capture.size \in Nat /\ r.pos \in Nat
  BY HereIsBlock, BlockFields DEF Readers
<1>2. Left(r) > 0 /\ r.pos <= Past(r)
  BY <1>1 DEF CutOff, Left, Past
<1>3. OnTrack(r) /\ KnowsInterfaces(r) /\ OwnInterfaceOf(r)
  BY DEF TrackInv
<1>4. Describes(r.pos) <=> Here(r).kind = "idb"
  BY <1>2, <1>3, NextBlock
<1>5. r.pos = 0 => Here(r).kind = "shb" /\ Parses(Here(r))
  BY InOneSection DEF Here, SingleSection
<1>6. Describes(r.pos) => Parses(Here(r))
  BY DEF Here, Describes, SingleSection
<1>7. ASSUME NEW q \in Readers, q.pos = Past(r), q.interfaces = r.interfaces,
             q.got = r.got, ~ Describes(r.pos), (q.section = r.section /\ r.pos # 0) \/ q.section
      PROVE  TrackInv(q)
  <2>1. OnTrack(q)
    BY <1>2, <1>3, <1>7, TrackOver
  <2>2. KnowsInterfaces(q) /\ OwnInterfaceOf(q)
    BY <1>2, <1>3, <1>7, KeepsNumbers, KeepsOwnInterface
  <2> QED  BY <2>1, <2>2 DEF TrackInv
<1>8. CASE Parsed(r) = Failing(r, Past(r)) /\ (Here(r).kind \in {"shb", "idb"} => ~ Parses(Here(r)))
  <2>1. Past(r) \in Nat
    BY SkippingFields
  <2>2. ~ Describes(r.pos) /\ r.pos # 0
    BY <1>4, <1>5, <1>6, <1>8
  <2> QED  BY <1>7, <1>8, <2>1, <2>2, FailingFields
<1>9. CASE Parsed(r) = EnteringSection(r) /\ Here(r).kind = "shb"
  BY <1>4, <1>7, <1>9, SectionFields
<1>10. CASE Parsed(r) = Describing(r) /\ Here(r).kind = "idb"
  <2>1. OnTrack(Describing(r)) /\ KnowsInterfaces(Describing(r))
    BY <1>2, <1>3, <1>4, <1>10, TrackDescribing
  <2>2. OwnInterfaceOf(Describing(r))
    BY <1>3, DescribingFields, KeepsOwnInterface
  <2> QED  BY <1>10, <2>1, <2>2 DEF TrackInv
<1>11. ASSUME NEW stamp \in Nat, Parsed(r) = Delivering(r, stamp), Timed(r, stamp),
              Here(r).kind \in {"spb", "epb"}
       PROVE  TrackInv(Parsed(r))
  <2> DEFINE q == Delivering(r, stamp)
  <2>1. q \in Readers /\ q.pos = Past(r) /\ q.interfaces = r.interfaces /\ q.section = r.section
    BY DeliveringFields
  <2> HIDE DEF q
  <2>2. ~ Describes(r.pos) /\ r.pos # 0
    BY <1>4, <1>5, <1>11
  <2>3. OnTrack(q)
    BY <1>2, <1>3, <2>1, <2>2, TrackOver
  <2>4. KnowsInterfaces(q)
    BY <1>2, <1>3, <2>1, KeepsNumbers
  <2>5. OwnInterfaceOf(q)
    BY <1>3, <1>11, TrackDelivering DEF q
  <2> QED  BY <1>11, <2>3, <2>4, <2>5 DEF TrackInv, q
<1>12. CASE Parsed(r) = Panicking(r) /\ Here(r).kind = "epb"
  <2>1. Panicking(r).pos = Past(r) /\ Panicking(r).section = r.section
    BY DEF Panicking, Readers
  <2>2. ~ Describes(r.pos) /\ r.pos # 0
    BY <1>4, <1>5, <1>12
  <2> QED  BY <1>7, <1>12, <2>1, <2>2, EndingFields
<1>13. CASE Parsed(r) = Skipping(r) /\ Here(r).kind \in {"raw", "rec"}
  <2>1. ~ Describes(r.pos) /\ r.pos # 0
    BY <1>4, <1>5, <1>13
  <2> QED  BY <1>7, <1>13, <2>1, SkippingFields
<1> QED  BY <1>8, <1>9, <1>10, <1>11, <1>12, <1>13, ParsedCases

\* A reader that has come to the end of the file, or stays where it is.
LEMMA TrackEnds ==
  ASSUME capture \in Captures, NEW r \in Readers, TrackInv(r), r.pos <= capture.size,
         NEW q \in Readers, q.interfaces = r.interfaces, q.got = r.got,
         q.pos = capture.size \/ (q.pos = r.pos /\ q.section = r.section)
  PROVE  TrackInv(q)
<1>1. r.pos \in Nat /\ capture.size \in Nat /\ r.pos <= q.pos
  BY HereIsBlock DEF Readers
<1>2. OnTrack(q)
  <2>1. CASE q.pos = capture.size
    <3>1. ~ (Left(q) > 0)
      BY <1>1, <2>1 DEF Left
    <3> QED  BY <3>1 DEF OnTrack
  <2>2. CASE q.pos = r.pos /\ q.section = r.section
    BY <2>2 DEF OnTrack, TrackInv, Left
  <2> QED  BY <2>1, <2>2
<1>3. KnowsInterfaces(q) /\ OwnInterfaceOf(q)
  BY <1>1, KeepsNumbers, KeepsOwnInterface DEF TrackInv
<1> QED  BY <1>2, <1>3 DEF TrackInv

LEMMA TrackStream ==
  ASSUME capture \in Captures, SingleSection, NEW r \in Readers, TrackInv(r), r.pos <= capture.size
  PROVE  TrackInv(Streaming(r))
<1>1. /\ Here(r).len \in Nat /\ capture.size \in Nat /\ r.pos \in Nat
      /\ capture.format = "pcapng"
      /\ \A o \in DOMAIN capture.at : o \in Nat
  BY HereIsBlock, BlockFields, InOneSection DEF Readers
<1>2. CASE Streaming(r) = Ending(r)
  <2>1. Ending(r).pos = capture.size
    BY DEF Ending, Readers
  <2> QED  BY <1>2, <2>1, EndingFields, TrackEnds
<1>3. ASSUME NEW to \in Nat, Streaming(r) = Failing(r, to), to \in r.pos + 1 .. capture.size,
             \/ to = capture.size
             \/ Left(r) >= 8 /\ NoSection(r)
             \/ TooShort(r) /\ to = r.pos + Fixed(r)
      PROVE  TrackInv(Streaming(r))
  <2> DEFINE q == Failing(r, to)
  <2>1. /\ q \in Readers /\ q.pos = to /\ q.interfaces = r.interfaces /\ q.got = r.got
        /\ q.section = r.section
    BY FailingFields
  <2> HIDE DEF q
  <2>2. CASE to = capture.size
    BY <1>3, <2>1, <2>2, TrackEnds DEF q
  <2>3. Left(r) > 0 /\ (r.pos # 0 => r.section)
    <3>1. Left(r) > 0
      BY <1>1, <1>3 DEF Left
    <3> QED  BY <3>1 DEF TrackInv, OnTrack
  <2>4. r.pos = 0 => Here(r).kind = "shb" /\ Parses(Here(r))
    BY InOneSection DEF Here, SingleSection
  <2>5. CASE NoSection(r)
    BY <2>3, <2>4, <2>5 DEF NoSection
  <2>6. CASE TooShort(r) /\ to = r.pos + Fixed(r)
    <3>1. Here(r).len < Fixed(r) /\ Fixed(r) \in {8, 12}
      BY <2>6 DEF TooShort, Fixed
    <3>2. r.pos # 0
      BY <1>1, <2>4, <3>1 DEF Parses, SectionHeaderParses
    <3>3. ASSUME NEW i \in DOMAIN capture.at, Describes(i), i >= r.pos PROVE FALSE
      <4>1. r.pos \in DOMAIN capture.at /\ Here(r) = capture.at[r.pos]
        BY <2>3, <3>3 DEF TrackInv, OnTrack, Here
      <4>2. CASE i = r.pos
        <5>1. Here(r).kind = "idb" /\ Parses(Here(r))
          BY <3>3, <4>1, <4>2 DEF Describes, SingleSection
        <5> QED  BY <1>1, <3>1, <5>1 DEF Parses, InterfaceParses
      <4>3. CASE i # r.pos
        <5>1. r.pos < i
          BY <1>1, <3>3, <4>3
        <5>2. Here(r).len >= 12
          BY <3>3, <4>1, <5>1 DEF SingleSection, LengthsLeadToInterfaces, Describes
        <5> QED  BY <1>1, <3>1, <5>2
      <4> QED  BY <4>2, <4>3
    <3>4. to >= r.pos
      BY <1>1, <1>3
    <3>5. DescribedBefore(to) = DescribedBefore(r.pos)
      BY <1>1, <3>3, <3>4 DEF DescribedBefore
    <3>6. OnTrack(q)
      <4>1. ~ \E i \in DOMAIN capture.at : Describes(i) /\ i >= to
        BY <1>1, <3>3, <3>4
      <4>2. Cardinality(DescribedBefore(r.pos)) = Len(r.interfaces)
        BY <2>3 DEF TrackInv, OnTrack
      <4> QED  BY <2>1, <2>3, <3>2, <3>5, <4>1, <4>2 DEF OnTrack
    <3>7. KnowsInterfaces(q) /\ OwnInterfaceOf(q)
      BY <2>1, <3>4, KeepsNumbers, KeepsOwnInterface DEF TrackInv
    <3> QED  BY <1>3, <3>6, <3>7 DEF TrackInv, q
  <2> QED  BY <1>3, <2>2, <2>5, <2>6
<1>4. CASE Streaming(r) = Parsed(r) /\ Here(r).len >= 8 /\ ~ CutOff(r)
  BY <1>4, TrackParsed
<1> QED  BY <1>1, <1>2, <1>3, <1>4, StreamCases

LEMMA TrackSlice ==
  ASSUME capture \in Captures, SingleSection, NEW r \in Readers, TrackInv(r), r.pos <= capture.size
  PROVE  TrackInv(Slicing(r))
<1>1. Here(r).len \in Nat /\ r.pos \in Nat /\ capture.format = "pcapng"
  BY HereIsBlock, BlockFields, InOneSection DEF Readers
<1>2. CASE Slicing(r) = Ending(r)
  <2>1. Ending(r).pos = capture.size
    BY DEF Ending, Readers
  <2> QED  BY <1>2, <2>1, EndingFields, TrackEnds
<1>3. CASE Slicing(r) = Failing(r, r.pos)
  BY <1>1, <1>3, FailingFields, TrackEnds
<1>4. CASE Slicing(r) = Parsed(r) /\ Here(r).len >= 12 /\ ~ CutOff(r)
  BY <1>1, <1>4, TrackParsed
<1> QED  BY <1>1, <1>2, <1>3, <1>4, SliceCases

\* What OwnInterfaceInOneSection rests on.
InterfaceInv == SingleSection => TrackInv(stream) /\ TrackInv(slice)

LEMMA InterfaceInit == CapInfoInit => InterfaceInv
<1> SUFFICES ASSUME CapInfoInit, SingleSection PROVE TrackInv(Opened)
  BY DEF InterfaceInv, CapInfoInit, Init
<1>1. capture \in Captures
  BY DEF CapInfoInit, Init
<1>2. Opened.pos = 0 /\ Opened.interfaces = << >> /\ Opened.got = << >>
  BY <1>1, OpenedFields, InOneSection
<1>3. \A o \in DOMAIN capture.at : o \in Nat
  BY <1>1, HereIsBlock
<1>4. DescribedBefore(0) = {} /\ 0 \in DOMAIN capture.at
  BY <1>1, <1>3, InOneSection DEF DescribedBefore
<1>5. OnTrack(Opened)
  BY <1>2, <1>4, FS_EmptySet DEF OnTrack
<1>6. KnowsInterfaces(Opened) /\ OwnInterfaceOf(Opened)
  BY <1>2 DEF KnowsInterfaces, OwnInterfaceOf
<1> QED  BY <1>5, <1>6 DEF TrackInv

LEMMA SameCapture ==
  ASSUME capture' = capture
  PROVE  /\ SingleSection' <=> SingleSection
         /\ TrackInv(stream') => TrackInv(stream)'
         /\ TrackInv(slice') => TrackInv(slice)'
<1>1. SingleSection' <=> SingleSection
  BY DEF SingleSection, SectionStarts, LengthsLeadToInterfaces, Parses, SectionHeaderParses,
         InterfaceParses, SimplePacketParses, EnhancedPacketParses
<1>2. OnTrack(stream') => OnTrack(stream)'
  BY DEF OnTrack, Left, DescribedBefore, Describes
<1>3. OnTrack(slice') => OnTrack(slice)'
  BY DEF OnTrack, Left, DescribedBefore, Describes
<1>4. KnowsInterfaces(stream') => KnowsInterfaces(stream)'
  BY DEF KnowsInterfaces, DescribedBefore, Describes, Number, InterfacesBefore, SectionStarts
<1>5. KnowsInterfaces(slice') => KnowsInterfaces(slice)'
  BY DEF KnowsInterfaces, DescribedBefore, Describes, Number, InterfacesBefore, SectionStarts
<1>6. OwnInterfaceOf(stream') => OwnInterfaceOf(stream)'
  BY DEF OwnInterfaceOf, Number, InterfacesBefore, SectionStarts
<1>7. OwnInterfaceOf(slice') => OwnInterfaceOf(slice)'
  BY DEF OwnInterfaceOf, Number, InterfacesBefore, SectionStarts
<1> QED  BY <1>1, <1>2, <1>3, <1>4, <1>5, <1>6, <1>7 DEF TrackInv

LEMMA InterfaceStep ==
  ASSUME ReadersInv, InterfaceInv, [Next]_vars
  PROVE  InterfaceInv'
<1>1. capture' = capture /\ capture \in Captures
  BY ReadersMove DEF ReadersInv
<1> SUFFICES ASSUME SingleSection PROVE TrackInv(stream') /\ TrackInv(slice')
  BY <1>1, SameCapture DEF InterfaceInv
<1>2. TrackInv(stream) /\ TrackInv(slice)
  BY DEF InterfaceInv
<1>3. CASE stream' = Streaming(stream) /\ slice' = slice
  <2>1. TrackInv(Streaming(stream))
    BY <1>1, <1>2, TrackStream DEF ReadersInv
  <2> QED  BY <1>2, <1>3, <2>1
<1>4. CASE slice' = Slicing(slice) /\ stream' = stream
  <2>1. TrackInv(Slicing(slice))
    BY <1>1, <1>2, TrackSlice DEF ReadersInv
  <2> QED  BY <1>2, <1>4, <2>1
<1>5. CASE UNCHANGED << stream, slice >>
  BY <1>2, <1>5
<1> QED  BY <1>3, <1>4, <1>5, ReadersMove

LEMMA ReadersInvariant == Spec => []ReadersInv
BY ReadersInit, ReadersStep, PTL DEF Spec

\* PcapngReader and PcapngSliceReader: in a capture with one section whose interface blocks
\* parse and can be reached, every packet is read with the unit of the interface it names,
\* whatever else is damaged, cut off or skipped, for any number of interfaces and blocks.
THEOREM PacketsKeepTheirInterface == Spec => []OwnInterfaceInOneSection
<1>1. ReadersInv /\ InterfaceInv /\ [Next]_vars => InterfaceInv'
  BY InterfaceStep
<1>2. InterfaceInv => OwnInterfaceInOneSection
  BY DEF InterfaceInv, SingleSection, OwnInterfaceInOneSection, TrackInv, OwnInterface
<1> QED  BY <1>1, <1>2, InterfaceInit, ReadersInvariant, PTL DEF Spec

-----------------------------------------------------------------------------
(* Two readers of one capture.  As long as a block is whole, both take the *)
(* same step, whenever each takes it: there is a path of states that both  *)
(* are on.  Where it stops, neither delivers another packet.               *)

Beyond(r) ==
  IF capture.format = "pcap" THEN Delivering(r, Here(r).ticks * Here(r).unit) ELSE Parsed(r)

Whole(r) ==
  /\ r.status = "reading" /\ ~ CutOff(r)
  /\ IF capture.format = "pcap" THEN Left(r) >= RecordHeader
     ELSE Left(r) >= 12 /\ ~ NoSection(r) /\ Here(r).len >= 12

\* The slice reader refuses what the stream may skip.
Refusal(r) ==
  capture.format = "pcapng" /\ Left(r) >= 12 /\ (NoSection(r) \/ Here(r).len < 12)

\* Both readers at a whole block.
LEMMA WholeSteps ==
  ASSUME capture \in Captures, NEW r \in Readers, Whole(r)
  PROVE  Streaming(r) = Beyond(r) /\ Slicing(r) = Beyond(r)
<1>1. /\ Here(r).len \in Nat /\ capture.format \in {"pcap", "pcapng"} /\ Left(r) \in Int
  BY ReaderNumbers
<1>2. CASE capture.format = "pcap"
  <2>1. Left(r) >= RecordHeader /\ ~ CutOff(r) /\ RecordHeader = 16
    BY <1>2 DEF Whole, RecordHeader
  <2>2. Streaming(r) = StreamingPcap(r) /\ Slicing(r) = SlicingPcap(r) /\ Beyond(r) = Delivering(r, Here(r).ticks * Here(r).unit)
    BY <1>2 DEF Streaming, Slicing, Beyond
  <2>3. StreamingPcap(r) = Delivering(r, Here(r).ticks * Here(r).unit)
    BY <1>1, <2>1 DEF StreamingPcap
  <2>4. SlicingPcap(r) = Delivering(r, Here(r).ticks * Here(r).unit)
    BY <1>1, <2>1 DEF SlicingPcap
  <2> QED  BY <2>2, <2>3, <2>4
<1>3. CASE capture.format = "pcapng"
  <2>1. Left(r) >= 12 /\ ~ NoSection(r) /\ Here(r).len >= 12 /\ ~ CutOff(r)
    BY <1>3 DEF Whole
  <2>2. Streaming(r) = StreamingPcapng(r) /\ Slicing(r) = SlicingPcapng(r) /\ Beyond(r) = Parsed(r)
    BY <1>3 DEF Streaming, Slicing, Beyond
  <2>3. Fixed(r) \in {8, 12} /\ ~ TooShort(r)
    BY <1>1, <2>1 DEF Fixed, TooShort
  <2>4. StreamingPcapng(r) = Parsed(r)
    BY <1>1, <2>1, <2>3 DEF StreamingPcapng
  <2>5. ~ Refused(r) /\ Left(r) # 0
    BY <1>1, <2>1 DEF Refused
  <2>6. SlicingPcapng(r) = Parsed(r)
    BY <1>1, <2>5 DEF SlicingPcapng, SlicedBlock
  <2> QED  BY <2>2, <2>4, <2>6
<1> QED  BY <1>1, <1>2, <1>3

\* The slice reader at anything else.
LEMMA SliceStops ==
  ASSUME capture \in Captures, NEW r \in Readers, r.pos <= capture.size,
         r.status = "reading", ~ Whole(r)
  PROVE  \/ Left(r) = 0 /\ Slicing(r) = Ending(r)
         \/ Slicing(r) = Failing(r, r.pos)
<1>1. /\ Here(r).len \in Nat /\ capture.format \in {"pcap", "pcapng"} /\ Left(r) \in Nat
  <2>1. /\ Here(r) \in Block /\ capture.format \in {"pcap", "pcapng"}
        /\ capture.size \in Nat /\ r.pos \in Nat
    BY HereIsBlock DEF Readers
  <2>2. Left(r) \in Nat
    BY <2>1 DEF Left
  <2> QED  BY <2>1, <2>2, BlockFields
<1>2. CASE capture.format = "pcap"
  <2>1. Left(r) < RecordHeader \/ CutOff(r)
    BY <1>1, <1>2 DEF Whole, RecordHeader
  <2>2. Slicing(r) = SlicingPcap(r)
    BY <1>2 DEF Slicing
  <2> QED  BY <1>1, <2>1, <2>2 DEF SlicingPcap
<1>3. CASE capture.format = "pcapng"
  <2>1. Refused(r)
    BY <1>1, <1>3 DEF Whole, Refused
  <2>2. Slicing(r) = SlicingPcapng(r)
    BY <1>3 DEF Slicing
  <2> QED  BY <1>1, <2>1, <2>2 DEF SlicingPcapng
<1> QED  BY <1>1, <1>2, <1>3

\* The stream has no packets left: fewer bytes than the start of a block.
Over(r) == r.status # "reading" \/ Left(r) < 4

\* The stream at anything else that the slice reader does not refuse.
LEMMA StreamStops ==
  ASSUME capture \in Captures, NEW r \in Readers, r.pos <= capture.size,
         r.status = "reading", ~ Whole(r), ~ Refusal(r)
  PROVE  Streaming(r).got = r.got /\ Over(Streaming(r))
<1>1. /\ Here(r).len \in Nat /\ capture.format \in {"pcap", "pcapng"}
      /\ capture.size \in Nat /\ r.pos \in Nat
      /\ Left(r) = capture.size - r.pos /\ Left(r) \in Nat
      /\ Here(r).kind \in Kinds
      /\ capture.format = "pcap" <=> Here(r).kind = "rec"
  <2>1. /\ Here(r) \in Block /\ capture.format \in {"pcap", "pcapng"}
        /\ capture.size \in Nat /\ r.pos \in Nat
    BY HereIsBlock DEF Readers
  <2>2. Left(r) = capture.size - r.pos /\ Left(r) \in Nat
    BY <2>1 DEF Left
  <2>3. capture.format = "pcap" <=> Here(r).kind = "rec"
    BY CaptureReadersAssumption DEF IsCapture, Here
  <2>4. Here(r).kind \in Kinds
    BY <2>1 DEF Block
  <2> QED  BY <2>1, <2>2, <2>3, <2>4, BlockFields
<1>2. Ending(r).got = r.got /\ Over(Ending(r))
  BY EndingFields DEF Over
<1>3. ASSUME NEW to \in Nat, capture.size - to < 4
      PROVE  Failing(r, to).got = r.got /\ Over(Failing(r, to))
  BY <1>3, FailingFields DEF Over, Left
<1>4. capture.size - capture.size < 4
  BY <1>1
<1>5. CASE capture.format = "pcap"
  <2>1. Left(r) < RecordHeader \/ CutOff(r)
    BY <1>1, <1>5 DEF Whole, RecordHeader
  <2>2. Streaming(r) = StreamingPcap(r) /\ RecordHeader = 16
    BY <1>5 DEF Streaming, RecordHeader
  <2>3. StreamingPcap(r) \in {Ending(r), Failing(r, capture.size)}
    BY <1>1, <2>1, <2>2 DEF StreamingPcap
  <2> QED  BY <1>1, <1>2, <1>3, <1>4, <2>2, <2>3
<1>6. CASE capture.format = "pcapng" /\ Left(r) >= 12
  <2>1. ~ NoSection(r) /\ Here(r).len >= 12 /\ CutOff(r)
    BY <1>1, <1>6 DEF Whole, Refusal
  <2>2. Fixed(r) \in {8, 12} /\ ~ TooShort(r)
    BY <1>1, <2>1 DEF Fixed, TooShort
  <2>3. StreamingPcapng(r) = Failing(r, capture.size)
    BY <1>1, <1>6, <2>1, <2>2 DEF StreamingPcapng
  <2>4. Streaming(r) = StreamingPcapng(r)
    BY <1>6 DEF Streaming
  <2> QED  BY <1>1, <1>3, <1>4, <2>3, <2>4
<1>7. CASE capture.format = "pcapng" /\ Left(r) < 8
  <2>1. StreamingPcapng(r) \in {Ending(r), Failing(r, capture.size)}
    BY <1>1, <1>7 DEF StreamingPcapng
  <2>2. Streaming(r) = StreamingPcapng(r)
    BY <1>7 DEF Streaming
  <2> QED  BY <1>1, <1>2, <1>3, <1>4, <2>1, <2>2
<1>8. CASE capture.format = "pcapng" /\ Left(r) \in 8 .. 11
  <2>1. r.pos + 8 \in Nat /\ capture.size - (r.pos + 8) < 4
    BY <1>1, <1>8
  <2>2. Streaming(r) = StreamingPcapng(r)
    BY <1>8 DEF Streaming
  <2>3. CASE NoSection(r)
    <3>1. StreamingPcapng(r) = Failing(r, r.pos + 8)
      BY <1>1, <1>8, <2>3 DEF StreamingPcapng
    <3> QED  BY <1>3, <2>1, <2>2, <3>1
  <2>4. CASE ~ NoSection(r) /\ Here(r).kind = "shb"
    <3>1. Fixed(r) = 12
      BY <2>4 DEF Fixed
    <3>2. StreamingPcapng(r) = Failing(r, capture.size)
      BY <1>1, <1>8, <2>4, <3>1 DEF StreamingPcapng
    <3> QED  BY <1>1, <1>3, <1>4, <2>2, <3>2
  <2>5. CASE ~ NoSection(r) /\ Here(r).kind # "shb"
    <3>1. Fixed(r) = 8
      BY <2>5 DEF Fixed
    <3>2. StreamingPcapng(r) = IF TooShort(r) THEN Failing(r, r.pos + 8)
                               ELSE IF CutOff(r) THEN Failing(r, capture.size)
                               ELSE Parsed(r)
      BY <1>1, <1>8, <2>5, <3>1 DEF StreamingPcapng
    <3>3. CASE TooShort(r)
      BY <1>3, <2>1, <2>2, <3>2, <3>3
    <3>4. CASE ~ TooShort(r) /\ CutOff(r)
      BY <1>1, <1>3, <1>4, <2>2, <3>2, <3>4
    <3>5. CASE ~ TooShort(r) /\ ~ CutOff(r)
      <4>1. Here(r).len >= 8 /\ Here(r).len < 12
        BY <1>1, <1>8, <3>1, <3>5 DEF TooShort, CutOff
      <4>2. Past(r) \in Nat /\ capture.size - Past(r) < 4
        BY <1>1, <1>8, <4>1 DEF Past
      <4>3. CASE ~ Parses(Here(r))
        <5>1. Parsed(r) = Failing(r, Past(r))
          BY <4>3 DEF Parsed
        <5> QED  BY <1>3, <2>2, <3>2, <3>5, <4>2, <5>1
      <4>4. CASE Parses(Here(r))
        <5>1. Here(r).kind = "raw"
          BY <1>1, <1>8, <2>5, <4>1, <4>4 DEF Parses, InterfaceParses, SimplePacketParses,
             EnhancedPacketParses, Kinds
        <5>2. Parsed(r) = Skipping(r)
          BY <4>4, <5>1 DEF Parsed
        <5>3. Skipping(r).got = r.got /\ Over(Skipping(r))
          BY <4>2, SkippingFields DEF Over, Left
        <5> QED  BY <2>2, <3>2, <3>5, <5>2, <5>3
      <4> QED  BY <4>3, <4>4
    <3> QED  BY <3>3, <3>4, <3>5
  <2> QED  BY <2>3, <2>4, <2>5
<1> QED  BY <1>1, <1>5, <1>6, <1>7, <1>8

\* It stays so.
LEMMA StreamStaysOver ==
  ASSUME capture \in Captures, NEW r \in Readers, r.status = "reading", Over(r)
  PROVE  Streaming(r).got = r.got /\ Over(Streaming(r))
<1>1. capture.format \in {"pcap", "pcapng"} /\ Left(r) \in Int /\ Left(r) < 4
  BY ReaderNumbers DEF Over
<1>2. StreamingPcap(r) = Ending(r) /\ StreamingPcapng(r) = Ending(r)
  <2>1. StreamingPcap(r) = Ending(r)
    BY <1>1 DEF StreamingPcap, RecordHeader
  <2>2. StreamingPcapng(r) = Ending(r)
    BY <1>1 DEF StreamingPcapng
  <2> QED  BY <2>1, <2>2
<1> QED  BY <1>2, EndingFields DEF Streaming, Over

\* A path of states, each at a whole block but the last.
Path(path) ==
  /\ path \in Seq(Readers) /\ Len(path) >= 1
  /\ \A k \in 1 .. Len(path) : path[k].pos <= capture.size /\ FailedBefore(path[k])
  /\ \A k \in 1 .. Len(path) : k < Len(path) =>
       Whole(path[k]) /\ path[k + 1] = Beyond(path[k])

Stops(e) == e.status = "reading" /\ ~ Whole(e)

\* The readers are on the path, or off its end.
StreamOn(path, r) ==
  \/ \E k \in 1 .. Len(path) : r = path[k]
  \/ LET e == path[Len(path)] IN
     Stops(e) /\ (Refusal(e) \/ (r.got = e.got /\ Over(r)))

SliceOn(path, r) ==
  \/ \E k \in 1 .. Len(path) : r = path[k]
  \/ LET e == path[Len(path)] IN
     /\ Stops(e) /\ r.got = e.got
     /\ \/ r.status = "reading" /\ r.pos = e.pos /\ r.section = e.section
        \/ r.status # "reading" /\ Left(e) = 0

SamePath(x, y) == \E path : Path(path) /\ StreamOn(path, x) /\ SliceOn(path, y)

LEMMA FailedStays ==
  ASSUME capture \in Captures, NEW r \in Readers, r.status = "reading", FailedBefore(r)
  PROVE  FailedBefore(Streaming(r))
<1> DEFINE q == Streaming(r)
<1>1. /\ q \in Readers /\ Adds(r, q)
      /\ q.status = "reading" => q.pos > r.pos
  BY StreamMoves
<1> HIDE DEF q
<1>2. /\ r.pos \in Nat /\ q.pos \in Nat /\ r.failed \in SUBSET Nat
      /\ q.failed \subseteq r.failed \cup {r.pos}
  BY <1>1 DEF Readers, Adds
<1>3. IsFiniteSet(r.failed) /\ \A f \in r.failed : f < r.pos
  BY DEF FailedBefore
<1>4. IsFiniteSet(q.failed)
  BY <1>2, <1>3, FS_AddElement, FS_Subset
<1>5. ASSUME q.status = "reading", NEW f \in q.failed PROVE f < q.pos
  BY <1>1, <1>2, <1>3, <1>5
<1> QED  BY <1>4, <1>5 DEF FailedBefore, q

\* A path can be extended behind a whole block, and whoever is on it stays on.
LEMMA PathExtends ==
  ASSUME capture \in Captures, NEW path, Path(path), Whole(path[Len(path)]),
         NEW x, StreamOn(path, x), NEW y, SliceOn(path, y)
  PROVE  \E longer : /\ Path(longer) /\ StreamOn(longer, x) /\ SliceOn(longer, y)
                     /\ \E k \in 1 .. Len(longer) : longer[k] = Beyond(path[Len(path)])
<1> DEFINE n == Len(path)
           e == path[n]
           longer == Append(path, Beyond(e))
<1>1. path \in Seq(Readers) /\ n \in Nat /\ n >= 1
  BY DEF Path
<1>2. e \in Readers /\ e.pos <= capture.size /\ FailedBefore(e) /\ e.status = "reading"
  BY <1>1 DEF Path, Whole
<1>3. Beyond(e) = Streaming(e) /\ Beyond(e) \in Readers /\ Beyond(e).pos <= capture.size
      /\ FailedBefore(Beyond(e))
  BY <1>2, WholeSteps, StreamMoves, FailedStays
<1> HIDE DEF e
<1>4. /\ longer \in Seq(Readers) /\ Len(longer) = n + 1
      /\ \A k \in 1 .. n : longer[k] = path[k]
      /\ longer[n + 1] = Beyond(e)
  BY <1>1, <1>3, AppendProperties
<1> HIDE DEF longer
<1>5. Path(longer)
  <2>1. ASSUME NEW k \in 1 .. n + 1 PROVE longer[k].pos <= capture.size /\ FailedBefore(longer[k])
    <3>1. CASE k \in 1 .. n
      BY <1>4, <3>1 DEF Path
    <3>2. CASE k = n + 1
      BY <1>3, <1>4, <3>2
    <3> QED  BY <1>1, <3>1, <3>2
  <2>2. ASSUME NEW k \in 1 .. n + 1, k < n + 1
        PROVE  Whole(longer[k]) /\ longer[k + 1] = Beyond(longer[k])
    <3>1. CASE k < n
      <4>1. k \in 1 .. n /\ k + 1 \in 1 .. n
        BY <1>1, <3>1
      <4> QED  BY <1>4, <3>1, <4>1 DEF Path
    <3>2. CASE k = n
      BY <1>1, <1>4, <3>2 DEF e
    <3> QED  BY <1>1, <2>2, <3>1, <3>2
  <2> QED  BY <1>1, <1>4, <2>1, <2>2 DEF Path
<1>6. ~ Stops(path[Len(path)])
  BY DEF Stops
<1>7. StreamOn(longer, x)
  <2>1. PICK k \in 1 .. n : x = path[k]
    BY <1>6 DEF StreamOn
  <2>2. k \in 1 .. Len(longer) /\ x = longer[k]
    BY <1>1, <1>4, <2>1
  <2> QED  BY <2>2 DEF StreamOn
<1>8. SliceOn(longer, y)
  <2>1. PICK k \in 1 .. n : y = path[k]
    BY <1>6 DEF SliceOn
  <2>2. k \in 1 .. Len(longer) /\ y = longer[k]
    BY <1>1, <1>4, <2>1
  <2> QED  BY <2>2 DEF SliceOn
<1>9. n + 1 \in 1 .. Len(longer) /\ longer[n + 1] = Beyond(path[Len(path)])
  BY <1>1, <1>4 DEF e
<1> QED  BY <1>5, <1>7, <1>8, <1>9

LEMMA TogetherStream ==
  ASSUME capture \in Captures, NEW x \in Readers, x.pos <= capture.size, x.status = "reading",
         NEW y, SamePath(x, y)
  PROVE  SamePath(Streaming(x), y)
<1>1. PICK path : Path(path) /\ StreamOn(path, x) /\ SliceOn(path, y)
  BY DEF SamePath
<1> DEFINE e == path[Len(path)]
<1>2. /\ path \in Seq(Readers) /\ Len(path) \in Nat /\ Len(path) >= 1
      /\ e \in Readers /\ e.pos <= capture.size
  BY <1>1 DEF Path
<1>3. CASE \E k \in 1 .. Len(path) : x = path[k] /\ k < Len(path)
  <2>1. PICK k \in 1 .. Len(path) : x = path[k] /\ k < Len(path)
    BY <1>3
  <2>2. k + 1 \in 1 .. Len(path) /\ path[k + 1] = Beyond(x) /\ Whole(x)
    BY <1>1, <1>2, <2>1 DEF Path
  <2>3. Streaming(x) = path[k + 1]
    BY <2>2, WholeSteps
  <2>4. StreamOn(path, Streaming(x))
    BY <2>2, <2>3 DEF StreamOn
  <2> QED  BY <1>1, <2>4 DEF SamePath
<1>4. CASE x = e /\ Whole(e)
  <2>1. PICK longer : /\ Path(longer) /\ SliceOn(longer, y)
                      /\ \E k \in 1 .. Len(longer) : longer[k] = Beyond(e)
    BY <1>1, <1>4, PathExtends
  <2>2. Streaming(x) = Beyond(e)
    BY <1>2, <1>4, WholeSteps
  <2>3. StreamOn(longer, Streaming(x))
    BY <2>1, <2>2 DEF StreamOn
  <2> QED  BY <2>1, <2>3 DEF SamePath
<1>5. CASE x = e /\ ~ Whole(e)
  <2>1. Stops(e)
    BY <1>5 DEF Stops
  <2>2. Refusal(e) \/ (Streaming(x).got = e.got /\ Over(Streaming(x)))
    BY <1>5, StreamStops
  <2>3. StreamOn(path, Streaming(x))
    BY <2>1, <2>2 DEF StreamOn
  <2> QED  BY <1>1, <2>3 DEF SamePath
<1>6. CASE Stops(e) /\ (Refusal(e) \/ (x.got = e.got /\ Over(x)))
  <2>1. Refusal(e) \/ (Streaming(x).got = e.got /\ Over(Streaming(x)))
    BY <1>6, StreamStaysOver
  <2>2. StreamOn(path, Streaming(x))
    BY <1>6, <2>1 DEF StreamOn
  <2> QED  BY <1>1, <2>2 DEF SamePath
<1>7. \A k \in 1 .. Len(path) : k < Len(path) \/ k = Len(path)
  BY <1>2
<1> QED  BY <1>1, <1>3, <1>4, <1>5, <1>6, <1>7 DEF StreamOn

LEMMA TogetherSlice ==
  ASSUME capture \in Captures, NEW y \in Readers, y.pos <= capture.size, y.status = "reading",
         NEW x, SamePath(x, y)
  PROVE  SamePath(x, Slicing(y))
<1>1. PICK path : Path(path) /\ StreamOn(path, x) /\ SliceOn(path, y)
  BY DEF SamePath
<1> DEFINE e == path[Len(path)]
<1>2. /\ path \in Seq(Readers) /\ Len(path) \in Nat /\ Len(path) >= 1
      /\ e \in Readers /\ e.pos <= capture.size
  BY <1>1 DEF Path
<1>3. CASE \E k \in 1 .. Len(path) : y = path[k] /\ k < Len(path)
  <2>1. PICK k \in 1 .. Len(path) : y = path[k] /\ k < Len(path)
    BY <1>3
  <2>2. k + 1 \in 1 .. Len(path) /\ path[k + 1] = Beyond(y) /\ Whole(y)
    BY <1>1, <1>2, <2>1 DEF Path
  <2>3. Slicing(y) = path[k + 1]
    BY <2>2, WholeSteps
  <2>4. SliceOn(path, Slicing(y))
    BY <2>2, <2>3 DEF SliceOn
  <2> QED  BY <1>1, <2>4 DEF SamePath
<1>4. CASE y = e /\ Whole(e)
  <2>1. PICK longer : /\ Path(longer) /\ StreamOn(longer, x)
                      /\ \E k \in 1 .. Len(longer) : longer[k] = Beyond(e)
    BY <1>1, <1>4, PathExtends
  <2>2. Slicing(y) = Beyond(e)
    BY <1>2, <1>4, WholeSteps
  <2>3. SliceOn(longer, Slicing(y))
    BY <2>1, <2>2 DEF SliceOn
  <2> QED  BY <2>1, <2>3 DEF SamePath
<1>5. CASE Stops(e) /\ y.got = e.got /\ y.pos = e.pos /\ y.section = e.section
  <2>1. Left(y) = Left(e) /\ (Whole(y) <=> Whole(e))
    BY <1>5 DEF Left, Whole, Stops, CutOff, Here, NoSection
  <2>2. \/ Left(y) = 0 /\ Slicing(y) = Ending(y)
        \/ Slicing(y) = Failing(y, y.pos)
    BY <1>5, <2>1, SliceStops DEF Stops
  <2>3. y.pos \in Nat
    BY DEF Readers
  <2>4. CASE Left(y) = 0 /\ Slicing(y) = Ending(y)
    <3>1. Slicing(y).got = e.got /\ Slicing(y).status # "reading" /\ Left(e) = 0
      BY <1>5, <2>1, <2>4, EndingFields
    <3> QED  BY <1>1, <1>5, <3>1 DEF SamePath, SliceOn
  <2>5. CASE Slicing(y) = Failing(y, y.pos)
    <3>1. /\ Slicing(y).got = e.got /\ Slicing(y).status = "reading"
          /\ Slicing(y).pos = e.pos /\ Slicing(y).section = e.section
      <4>1. LET q == Failing(y, y.pos) IN
              /\ q.got = y.got /\ q.status = y.status /\ q.pos = y.pos
              /\ q.section = y.section
        BY <2>3, FailingFields
      <4> QED  BY ONLY <1>5, <2>5, <4>1, y.status = "reading"
    <3> QED  BY <1>1, <1>5, <3>1 DEF SamePath, SliceOn
  <2> QED  BY <2>2, <2>4, <2>5
<1>6. CASE y = e /\ ~ Whole(e)
  BY <1>5, <1>6 DEF Stops
<1>7. \A k \in 1 .. Len(path) : k < Len(path) \/ k = Len(path)
  BY <1>2
<1> QED  BY <1>1, <1>3, <1>4, <1>5, <1>6, <1>7 DEF SliceOn

LEMMA TogetherStart ==
  ASSUME capture \in Captures
  PROVE  SamePath(Opened, Opened)
<1> DEFINE path == << Opened >>
<1>1. Opened \in Readers /\ Opened.pos <= capture.size /\ FailedBefore(Opened)
  BY OpenedFields, FS_EmptySet DEF FailedBefore
<1>2. path \in Seq(Readers) /\ Len(path) = 1 /\ path[1] = Opened
  BY <1>1
<1>3. Path(path)
  BY <1>1, <1>2 DEF Path
<1>4. StreamOn(path, Opened) /\ SliceOn(path, Opened)
  BY <1>2 DEF StreamOn, SliceOn
<1> QED  BY <1>3, <1>4 DEF SamePath

\* The readers of a capture that does not change.
LEMMA SameWalk ==
  ASSUME capture' = capture, SamePath(stream', slice')
  PROVE  SamePath(stream, slice)'
<1>1. /\ \A r : Whole(r)' <=> Whole(r)
      /\ \A r : Left(r)' = Left(r)
      /\ \A r : Refusal(r)' <=> Refusal(r)
  BY DEF Whole, CutOff, Left, NoSection, Here, Refusal
<1>2. \A r : Beyond(r)' = Beyond(r)
  BY DEF Beyond, Delivering, Parsed, Here, Past, Failing, Skipping, Describing, Enhanced, Panicking
<1>3. \A path : Path(path)' <=> Path(path)
  BY <1>1, <1>2 DEF Path
<1>4. PICK path : Path(path) /\ StreamOn(path, stream') /\ SliceOn(path, slice')
  BY DEF SamePath
<1>5. StreamOn(path, stream)'
  BY <1>1, <1>4 DEF StreamOn, Stops, Over, Left
<1>6. SliceOn(path, slice)'
  BY <1>1, <1>4 DEF SliceOn, Stops
<1> QED  BY <1>3, <1>4, <1>5, <1>6 DEF SamePath

\* Both readers have delivered the same packets once they are finished.
LEMMA SameInTheEnd ==
  ASSUME ReadersInv, SamePath(stream, slice)
  PROVE  BothReadTheSame
<1> SUFFICES ASSUME Finished,
                    ~ (Stuck /\ capture.format = "pcapng" /\ Left(slice) >= 12
                             /\ (NoSection(slice) \/ Here(slice).len < 12))
             PROVE  stream.got = slice.got
  BY DEF BothReadTheSame
<1>1. PICK path : Path(path) /\ StreamOn(path, stream) /\ SliceOn(path, slice)
  BY DEF SamePath
<1> DEFINE n == Len(path)
           e == path[n]
<1>2. n \in Nat /\ n >= 1 /\ path \in Seq(Readers)
  BY <1>1 DEF Path
<1>3. stream.status # "reading" /\ (slice.status # "reading" \/ Stuck)
  BY DEF Finished
<1>4. ASSUME NEW k \in 1 .. n, stream = path[k] PROVE k = n
  BY <1>1, <1>2, <1>3, <1>4 DEF Path, Whole
<1>5. ASSUME NEW k \in 1 .. n, slice = path[k] PROVE k = n /\ slice.status # "reading"
  <2>1. FailedBefore(slice) /\ slice.pos \in Nat
    BY <1>1, <1>2, <1>5 DEF Path, ReadersInv, Readers
  <2>2. ~ Stuck
    BY <2>1 DEF FailedBefore, Stuck
  <2> QED  BY <1>1, <1>2, <1>3, <1>5, <2>2 DEF Path, Whole
<1>6. CASE e.status # "reading"
  <2>1. stream = e /\ slice = e
    BY <1>1, <1>4, <1>5, <1>6 DEF StreamOn, SliceOn, Stops
  <2> QED  BY <2>1
<1>7. CASE e.status = "reading"
  <2>1. /\ Refusal(e) \/ stream.got = e.got
        /\ slice.got = e.got
        /\ \/ slice.status = "reading" /\ slice.pos = e.pos /\ slice.section = e.section
           \/ slice.status # "reading" /\ Left(e) = 0
    <3>1. ~ \E k \in 1 .. n : stream = path[k]
      BY <1>3, <1>4, <1>7
    <3>2. ~ \E k \in 1 .. n : slice = path[k]
      BY <1>5, <1>7
    <3> QED  BY <1>1, <3>1, <3>2 DEF StreamOn, SliceOn
  <2>2. ~ Refusal(e)
    <3>1. CASE slice.status = "reading" /\ slice.pos = e.pos /\ slice.section = e.section
      BY <1>3, <3>1 DEF Refusal, Left, NoSection, Here
    <3>2. CASE Left(e) = 0
      BY <3>2 DEF Refusal
    <3> QED  BY <2>1, <3>1, <3>2
  <2> QED  BY <2>1, <2>2
<1> QED  BY <1>6, <1>7

\* PcapngReader and PcapngSliceReader, PcapReader and PcapSliceReader: for any capture, of
\* any length and damaged or cut off in any way, and however the two are read in turns,
\* both deliver the same packets, unless the slice reader refuses a block whose length is
\* damaged or that stands outside of any section.
THEOREM ReadersDeliverTheSame == Spec => []BothReadTheSame
<1>1. CapInfoInit => SamePath(stream, slice)
  BY TogetherStart DEF CapInfoInit, Init
<1>2. ASSUME ReadersInv, SamePath(stream, slice), [Next]_vars
      PROVE  SamePath(stream, slice)'
  <2>1. /\ capture' = capture /\ capture \in Captures
        /\ stream \in Readers /\ stream.pos <= capture.size
        /\ slice \in Readers /\ slice.pos <= capture.size
    BY <1>2, ReadersMove DEF ReadersInv
  <2>2. CASE stream.status = "reading" /\ stream' = Streaming(stream) /\ slice' = slice
    BY <1>2, <2>1, <2>2, TogetherStream, SameWalk
  <2>3. CASE slice.status = "reading" /\ slice' = Slicing(slice) /\ stream' = stream
    BY <1>2, <2>1, <2>3, TogetherSlice, SameWalk
  <2>4. CASE UNCHANGED << stream, slice >>
    BY <1>2, <2>1, <2>4, SameWalk
  <2> QED  BY <1>2, <2>2, <2>3, <2>4, ReadersMove
<1> QED  BY <1>1, <1>2, SameInTheEnd, ReadersInvariant, PTL DEF Spec

-----------------------------------------------------------------------------
(* Reordercap.  Ranges of bytes                                            *)

\* Some range has this byte.
Holds(ranges, b) == \E k \in DOMAIN ranges : b \in Bytes(ranges[k])

LEMMA BytesAre ==
  ASSUME NEW r \in ByteRange
  PROVE  /\ r[1] \in Nat /\ r[2] \in Nat /\ Bytes(r) \subseteq Nat
         /\ \A b : b \in Bytes(r) <=> b \in Nat /\ r[1] <= b /\ b < r[1] + r[2]
<1> DEFINE m == r[1]
           n == r[2]
<1>1. m \in Nat /\ n \in Nat
  BY DEF ByteRange
<1>2. Bytes(r) = m .. m + n - 1
  BY DEF Bytes
<1> HIDE DEF m, n
<1>3. \A b : b \in m .. m + n - 1 <=> b \in Nat /\ m <= b /\ b < m + n
  BY <1>1
<1> QED  BY <1>1, <1>2, <1>3 DEF m, n

LEMMA TileOne ==
  ASSUME NEW r \in ByteRange
  PROVE  Tile(<< r >>, r[1], r[1] + r[2])
<1> DEFINE s == << r >>
           m == r[1]
           n == r[2]
           to == m + n
<1>1. DOMAIN s = {1} /\ s[1] = r /\ Bytes(r) = m .. m + n - 1
  BY DEF Bytes
<1>1a. m \in Nat /\ n \in Nat
  BY BytesAre
<1> HIDE DEF s, m, n
<1>2. m .. m + n - 1 = m .. to - 1
  BY <1>1a
<1> HIDE DEF to
<1>3. /\ \A k \in DOMAIN s : s[k] = r /\ Bytes(r) = m .. to - 1
      /\ 1 \in DOMAIN s /\ \A j, k \in DOMAIN s : j = k
  BY <1>1, <1>2
<1>4. Tile(s, m, to)
  BY <1>3 DEF Tile
<1> QED  BY <1>4 DEF s, m, n, to

LEMMA TileRearranged ==
  ASSUME NEW a \in Seq(ByteRange), NEW b \in Seq(ByteRange), Rearranged(a, b),
         NEW from, NEW to, Tile(a, from, to)
  PROVE  Tile(b, from, to)
<1> DEFINE n == Len(a)
           S == from .. to - 1
<1>1. PICK p, q : Moves(a, b, p, q)
  BY DEF Rearranged
<1>2. n \in Nat /\ DOMAIN a = 1 .. n /\ DOMAIN b = 1 .. n
  BY DEF Rearranged
<1>3. /\ p \in [1 .. n -> 1 .. n] /\ q \in [1 .. n -> 1 .. n]
      /\ \A i \in 1 .. n : q[p[i]] = i /\ p[q[i]] = i /\ a[i] = b[p[i]]
  BY <1>1 DEF Moves
<1>4. /\ \A x \in S : \E k \in 1 .. n : x \in Bytes(a[k])
      /\ \A k \in 1 .. n : Bytes(a[k]) \subseteq S
      /\ \A j, k \in 1 .. n : j # k => Bytes(a[j]) \cap Bytes(a[k]) = {}
  BY <1>2 DEF Tile
<1> HIDE DEF n, S
<1>5. \A k \in 1 .. n : q[k] \in 1 .. n /\ b[k] = a[q[k]]
  BY <1>3
<1>6. \A x \in S : \E k \in 1 .. n : x \in Bytes(b[k])
  <2> TAKE x \in S
  <2>1. PICK i \in 1 .. n : x \in Bytes(a[i])
    BY <1>4
  <2>2. p[i] \in 1 .. n /\ b[p[i]] = a[i]
    BY <1>3
  <2> QED  BY <2>1, <2>2
<1>7. \A k \in 1 .. n : Bytes(b[k]) \subseteq S
  BY <1>4, <1>5
<1>8. \A j, k \in 1 .. n : j # k => Bytes(b[j]) \cap Bytes(b[k]) = {}
  <2> SUFFICES ASSUME NEW j \in 1 .. n, NEW k \in 1 .. n, j # k
               PROVE  Bytes(b[j]) \cap Bytes(b[k]) = {}
    OBVIOUS
  <2>1. q[j] # q[k] /\ q[j] \in 1 .. n /\ q[k] \in 1 .. n
    BY <1>3
  <2>2. Bytes(a[q[j]]) \cap Bytes(a[q[k]]) = {}
    BY <1>4, <2>1
  <2> QED  BY <1>5, <2>2
<1> QED  BY <1>2, <1>6, <1>7, <1>8 DEF Tile, S

LEMMA TileAppend ==
  ASSUME NEW a \in Seq(ByteRange), NEW from \in Nat, NEW r \in ByteRange, from <= r[1],
         Tile(a, from, r[1])
  PROVE  Tile(a \o << r >>, from, r[1] + r[2])
<1> DEFINE m == r[1]
           l == r[2]
           n == Len(a)
           s == a \o << r >>
<1>1. m \in Nat /\ l \in Nat /\ from <= m /\ Bytes(r) = m .. m + l - 1
  BY BytesAre DEF Bytes
<1>2. n \in Nat /\ DOMAIN a = 1 .. n /\ Len(s) = n + 1 /\ DOMAIN s = 1 .. n + 1
  OBVIOUS
<1>3. s[n + 1] = r /\ \A k \in 1 .. n : s[k] = a[k]
  BY <1>2
<1>4. /\ \A x \in from .. m - 1 : \E k \in 1 .. n : x \in Bytes(a[k])
      /\ \A k \in 1 .. n : Bytes(a[k]) \subseteq from .. m - 1
      /\ \A j, k \in 1 .. n : j # k => Bytes(a[j]) \cap Bytes(a[k]) = {}
  BY <1>2 DEF Tile
<1> HIDE DEF m, l, n, s
<1>5. \A x \in from .. m + l - 1 : \E k \in 1 .. n + 1 : x \in Bytes(s[k])
  <2> TAKE x \in from .. m + l - 1
  <2>1. CASE x < m
    <3>1. x \in from .. m - 1
      BY <1>1, <2>1
    <3>2. PICK k \in 1 .. n : x \in Bytes(a[k])
      BY <1>4, <3>1
    <3>3. k \in 1 .. n + 1 /\ s[k] = a[k]
      BY <1>2, <1>3
    <3> QED  BY <3>2, <3>3
  <2>2. CASE ~ (x < m)
    <3>1. x \in Bytes(r)
      BY <1>1, <2>2
    <3>2. n + 1 \in 1 .. n + 1
      BY <1>2
    <3> QED  BY <1>3, <3>1, <3>2
  <2> QED  BY <2>1, <2>2
<1>6. \A k \in 1 .. n + 1 : k \in 1 .. n \/ k = n + 1
  BY <1>2
<1>7. \A k \in 1 .. n + 1 : Bytes(s[k]) \subseteq from .. m + l - 1
  <2>1. from .. m - 1 \subseteq from .. m + l - 1 /\ Bytes(r) \subseteq from .. m + l - 1
    BY <1>1
  <2> QED  BY <1>3, <1>4, <1>6, <2>1
<1>8. \A k \in 1 .. n : Bytes(a[k]) \cap Bytes(r) = {}
  <2>1. (from .. m - 1) \cap (m .. m + l - 1) = {}
    BY <1>1
  <2> QED  BY <1>1, <1>4, <2>1
<1>9. \A j, k \in 1 .. n + 1 : j # k => Bytes(s[j]) \cap Bytes(s[k]) = {}
  BY <1>3, <1>4, <1>6, <1>8
<1> DEFINE to == m + l
<1>10. from .. m + l - 1 = from .. to - 1
  BY <1>1
<1>11. /\ \A x \in from .. to - 1 : \E k \in DOMAIN s : x \in Bytes(s[k])
       /\ \A k \in DOMAIN s : Bytes(s[k]) \subseteq from .. to - 1
       /\ \A j, k \in DOMAIN s : j # k => Bytes(s[j]) \cap Bytes(s[k]) = {}
  BY <1>2, <1>5, <1>7, <1>9, <1>10
<1> HIDE DEF to
<1>12. Tile(s, from, to)
  BY <1>11 DEF Tile
<1> QED  BY <1>12 DEF s, m, l, to

\* A byte is at one place only.
LEMMA AheadOneWay ==
  ASSUME NEW a, NEW from \in Nat, NEW to \in Nat, Tile(a, from, to), NEW x, NEW y, Ahead(a, x, y),
         DOMAIN a \subseteq Int
  PROVE  x \in from .. to - 1 /\ y \in from .. to - 1 /\ x # y /\ ~ Ahead(a, y, x)
<1>1. PICK j, k \in DOMAIN a : x \in Bytes(a[j]) /\ y \in Bytes(a[k]) /\ (j < k \/ (j = k /\ x < y))
  BY DEF Ahead
<1>2. x \in from .. to - 1 /\ y \in from .. to - 1
  BY <1>1 DEF Tile
<1>3. \A i \in DOMAIN a : x \in Bytes(a[i]) => i = j
  BY <1>1 DEF Tile
<1>4. \A i \in DOMAIN a : y \in Bytes(a[i]) => i = k
  BY <1>1 DEF Tile
<1>5. x # y
  BY <1>1, <1>2, <1>3
<1>6. ~ Ahead(a, y, x)
  <2> SUFFICES ASSUME Ahead(a, y, x) PROVE FALSE
    OBVIOUS
  <2>1. PICK u, v \in DOMAIN a : y \in Bytes(a[u]) /\ x \in Bytes(a[v]) /\ (u < v \/ (u = v /\ y < x))
    BY DEF Ahead
  <2>2. u = k /\ v = j
    BY <1>3, <1>4, <2>1
  <2> QED  BY <1>1, <1>2, <2>1, <2>2
<1> QED  BY <1>2, <1>5, <1>6

\* Bytes of a part, and of two parts.
LEMMA AheadConcat ==
  ASSUME NEW a \in Seq(ByteRange), NEW b \in Seq(ByteRange), NEW x, NEW y
  PROVE  /\ Ahead(a, x, y) => Ahead(a \o b, x, y)
         /\ Ahead(b, x, y) => Ahead(a \o b, x, y)
         /\ Holds(a, x) /\ Holds(b, y) => Ahead(a \o b, x, y)
         /\ Holds(a, x) => Holds(a \o b, x)
         /\ Holds(b, x) => Holds(a \o b, x)
<1> DEFINE n == Len(a)
           m == Len(b)
           s == a \o b
<1>1. n \in Nat /\ m \in Nat /\ DOMAIN a = 1 .. n /\ DOMAIN b = 1 .. m /\ DOMAIN s = 1 .. n + m
  OBVIOUS
<1>2. /\ \A k \in 1 .. n : k \in 1 .. n + m /\ s[k] = a[k]
      /\ \A k \in 1 .. m : n + k \in 1 .. n + m /\ s[n + k] = b[k]
  <2>1. \A k \in 1 .. n + m : s[k] = IF k <= n THEN a[k] ELSE b[k - n]
    BY ConcatProperties
  <2> HIDE DEF n, m, s
  <2>2. \A k \in 1 .. n : k \in 1 .. n + m /\ k <= n
    BY <1>1
  <2>3. \A k \in 1 .. m : n + k \in 1 .. n + m /\ ~ (n + k <= n) /\ (n + k) - n = k
    BY <1>1
  <2> QED  BY <2>1, <2>2, <2>3
<1> HIDE DEF n, m, s
<1>3. ASSUME Ahead(a, x, y) PROVE Ahead(s, x, y)
  BY <1>1, <1>2, <1>3 DEF Ahead
<1>4. ASSUME Ahead(b, x, y) PROVE Ahead(s, x, y)
  <2>1. PICK j, k \in 1 .. m : x \in Bytes(b[j]) /\ y \in Bytes(b[k]) /\ (j < k \/ (j = k /\ x < y))
    BY <1>1, <1>4 DEF Ahead
  <2>2. n + j < n + k \/ (n + j = n + k /\ x < y)
    BY <1>1, <2>1
  <2> QED  BY <1>1, <1>2, <2>1, <2>2 DEF Ahead
<1>5. ASSUME Holds(a, x), Holds(b, y) PROVE Ahead(s, x, y)
  <2>1. PICK j \in 1 .. n : x \in Bytes(a[j])
    BY <1>1, <1>5 DEF Holds
  <2>2. PICK k \in 1 .. m : y \in Bytes(b[k])
    BY <1>1, <1>5 DEF Holds
  <2>3. j < n + k
    BY <1>1
  <2> QED  BY <1>1, <1>2, <2>1, <2>2, <2>3 DEF Ahead
<1>6. (Holds(a, x) => Holds(s, x)) /\ (Holds(b, x) => Holds(s, x))
  BY <1>1, <1>2 DEF Holds
<1> QED  BY <1>3, <1>4, <1>5, <1>6 DEF s

-----------------------------------------------------------------------------
(* Parts, each of which tiles its own piece of the file.                   *)

Pieces(parts, B) ==
  /\ B \in [1 .. Len(parts) + 1 -> Nat] /\ B[1] = 0
  /\ \A s \in 1 .. Len(parts) : B[s] < B[s + 1] /\ Tile(parts[s], B[s], B[s + 1])

LEMMA PiecesGrow ==
  ASSUME NEW parts \in Seq(Seq(ByteRange)), NEW B, Pieces(parts, B)
  PROVE  /\ \A s, t \in 1 .. Len(parts) + 1 : s < t => B[s] < B[t]
         /\ \A b \in 0 .. B[Len(parts) + 1] - 1 :
              \E s \in 1 .. Len(parts) : B[s] <= b /\ b < B[s + 1]
<1> DEFINE n == Len(parts)
<1>1. /\ n \in Nat /\ B \in [1 .. n + 1 -> Nat] /\ B[1] = 0
      /\ \A s \in 1 .. n : B[s] < B[s + 1]
  BY DEF Pieces
<1> HIDE DEF n
<1> DEFINE U == {t \in Nat : t \in 1 .. n + 1 =>
                   /\ \A s \in 1 .. n + 1 : s < t => B[s] < B[t]
                   /\ \A b \in 0 .. B[t] - 1 : \E s \in 1 .. n : B[s] <= b /\ b < B[s + 1]}
<1>2. 0 \in U /\ U \in SUBSET Nat
  OBVIOUS
<1>3. ASSUME NEW t \in U  PROVE t + 1 \in U
  <2> SUFFICES ASSUME t + 1 \in 1 .. n + 1
               PROVE  /\ \A s \in 1 .. n + 1 : s < t + 1 => B[s] < B[t + 1]
                      /\ \A b \in 0 .. B[t + 1] - 1 : \E s \in 1 .. n : B[s] <= b /\ b < B[s + 1]
    BY DEF U
  <2>1. CASE t = 0
    <3>1. t + 1 = 1 /\ \A s \in 1 .. n + 1 : ~ (s < 1)
      BY <2>1
    <3>2. B[t + 1] = 0
      BY <1>1, <2>1
    <3> QED  BY <3>1, <3>2
  <2>2. CASE t # 0
    <3> DEFINE a == B[t]
               c == B[t + 1]
    <3>1. t \in 1 .. n /\ t \in 1 .. n + 1
      BY <1>1, <2>2 DEF U
    <3>2. /\ a \in Nat /\ c \in Nat /\ a < c
          /\ \A s \in 1 .. n + 1 : B[s] \in Nat
      BY <1>1, <3>1
    <3>3. /\ \A s \in 1 .. n + 1 : s < t => B[s] < a
          /\ \A b \in 0 .. a - 1 : \E s \in 1 .. n : B[s] <= b /\ b < B[s + 1]
      BY <3>1 DEF U
    <3> HIDE DEF a, c
    <3>4. ASSUME NEW s \in 1 .. n + 1, s < t + 1  PROVE B[s] < c
      <4>1. CASE s < t
        <5>1. B[s] < a /\ B[s] \in Nat
          BY <3>2, <3>3, <4>1
        <5> QED  BY <3>2, <5>1
      <4>2. CASE s = t
        BY <3>2, <4>2 DEF a
      <4> QED  BY <3>1, <3>4, <4>1, <4>2
    <3>5. ASSUME NEW b \in 0 .. c - 1
          PROVE  \E s \in 1 .. n : B[s] <= b /\ b < B[s + 1]
      <4>1. CASE b < a
        <5>1. b \in 0 .. a - 1
          BY <3>2, <4>1
        <5> QED  BY <3>3, <5>1
      <4>2. CASE ~ (b < a)
        <5>1. a <= b /\ b < c
          BY <3>2, <4>2
        <5> QED  BY <3>1, <5>1 DEF a, c
      <4> QED  BY <4>1, <4>2
    <3> QED  BY <3>4, <3>5 DEF c
  <2> QED  BY <2>1, <2>2
<1> HIDE DEF U
<1>4. \A t \in Nat : t \in U
  BY <1>2, <1>3, AllNumbers
<1>5. \A t \in 1 .. n + 1 : \A s \in 1 .. n + 1 : s < t => B[s] < B[t]
  BY <1>4 DEF U
<1>6. n + 1 \in Nat /\ n + 1 \in 1 .. n + 1
  BY <1>1
<1>7. \A b \in 0 .. B[n + 1] - 1 : \E s \in 1 .. n : B[s] <= b /\ b < B[s + 1]
  BY <1>4, <1>6 DEF U
<1> QED  BY <1>5, <1>7 DEF n

\* Together they tile the file, in the order of the pieces.
LEMMA JoinedTiles ==
  ASSUME NEW parts \in Seq(Seq(ByteRange)), NEW B, Pieces(parts, B)
  PROVE  /\ Tile(FlattenSeq(parts), 0, B[Len(parts) + 1])
         /\ \A s \in 1 .. Len(parts) : \A x, y :
              Ahead(parts[s], x, y) => Ahead(FlattenSeq(parts), x, y)
         /\ \A s, t \in 1 .. Len(parts) : s < t =>
              \A x \in B[s] .. B[s + 1] - 1, y \in B[t] .. B[t + 1] - 1 :
                Ahead(FlattenSeq(parts), x, y)
<1> DEFINE n == Len(parts)
           whole == FlattenSeq(parts)
           L(s) == Len(parts[s])
           last == B[n + 1]
<1>1. /\ n \in Nat /\ whole \in Seq(ByteRange) /\ DOMAIN whole = 1 .. Len(whole)
      /\ \A s \in 1 .. n : parts[s] \in Seq(ByteRange) /\ DOMAIN parts[s] = 1 .. L(s) /\ L(s) \in Nat
  BY JoinedIs
<1>2. PICK off : Placed(off, parts, whole)
  BY JoinedPlaces
<1>3. /\ off \in [1 .. n -> Nat]
      /\ \A s \in 1 .. n : \A i \in 1 .. L(s) :
           off[s] + i \in DOMAIN whole /\ whole[off[s] + i] = parts[s][i]
      /\ \A s, t \in 1 .. n : s < t => off[s] + L(s) <= off[t]
      /\ \A m \in DOMAIN whole : \E s \in 1 .. n : \E i \in 1 .. L(s) : m = off[s] + i
  BY <1>1, <1>2 DEF Placed
<1>4. /\ B \in [1 .. n + 1 -> Nat]
      /\ \A s \in 1 .. n : B[s] < B[s + 1] /\ Tile(parts[s], B[s], B[s + 1])
  BY DEF Pieces
<1>5. /\ \A s, t \in 1 .. n + 1 : s < t => B[s] < B[t]
      /\ \A b \in 0 .. last - 1 : \E s \in 1 .. n : B[s] <= b /\ b < B[s + 1]
  BY PiecesGrow
<1>6. \A s \in 1 .. n : /\ B[s] \in Nat /\ B[s + 1] \in Nat /\ last \in Nat
                        /\ B[s + 1] <= last
                        /\ \A t \in 1 .. n : s < t => B[s + 1] <= B[t]
  <2> TAKE s \in 1 .. n
  <2>1. s \in 1 .. n + 1 /\ s + 1 \in 1 .. n + 1 /\ n + 1 \in 1 .. n + 1
    BY <1>1
  <2>2. B[s] \in Nat /\ B[s + 1] \in Nat /\ last \in Nat
    BY <1>4, <2>1
  <2>3. \A t \in 1 .. n + 1 : s < t => B[s + 1] <= B[t]
    <3> SUFFICES ASSUME NEW t \in 1 .. n + 1, s < t  PROVE B[s + 1] <= B[t]
      OBVIOUS
    <3>1. CASE s + 1 = t
      BY <2>2, <3>1
    <3>2. CASE s + 1 # t
      <4>1. s + 1 < t
        BY <1>1, <3>2
      <4>2. B[s + 1] < B[t] /\ B[t] \in Nat
        BY <1>4, <1>5, <2>1, <4>1
      <4> QED  BY <2>2, <4>2
    <3> QED  BY <3>1, <3>2
  <2>4. B[s + 1] <= last
    BY <1>1, <2>1, <2>3
  <2>5. \A t \in 1 .. n : t \in 1 .. n + 1
    BY <1>1
  <2> QED  BY <2>2, <2>3, <2>4, <2>5
<1> HIDE DEF n, whole, L, last
<1>7. \A s \in 1 .. n : \A i \in 1 .. L(s) : Bytes(parts[s][i]) \subseteq B[s] .. B[s + 1] - 1
  BY <1>1, <1>4 DEF Tile
<1>8. \A m \in DOMAIN whole : \E s \in 1 .. n : \E i \in 1 .. L(s) :
        m = off[s] + i /\ whole[m] = parts[s][i] /\ Bytes(whole[m]) \subseteq B[s] .. B[s + 1] - 1
  <2> TAKE m \in DOMAIN whole
  <2>1. PICK s \in 1 .. n : \E i \in 1 .. L(s) : m = off[s] + i
    BY <1>3
  <2>2. PICK i \in 1 .. L(s) : m = off[s] + i
    BY <2>1
  <2>3. whole[m] = parts[s][i]
    BY <1>3, <2>2
  <2> QED  BY <1>7, <2>2, <2>3
<1>9. ASSUME NEW x \in 0 .. last - 1  PROVE \E m \in DOMAIN whole : x \in Bytes(whole[m])
  <2>1. PICK s \in 1 .. n : B[s] <= x /\ x < B[s + 1]
    BY <1>5
  <2>2. x \in B[s] .. B[s + 1] - 1
    BY <1>6, <2>1
  <2>3. PICK i \in 1 .. L(s) : x \in Bytes(parts[s][i])
    BY <1>1, <1>4, <2>2 DEF Tile
  <2> QED  BY <1>3, <2>3
<1>10. ASSUME NEW m \in DOMAIN whole  PROVE Bytes(whole[m]) \subseteq 0 .. last - 1
  <2>1. PICK s \in 1 .. n : Bytes(whole[m]) \subseteq B[s] .. B[s + 1] - 1
    BY <1>8
  <2>2. B[s] .. B[s + 1] - 1 \subseteq 0 .. last - 1
    <3> DEFINE a == B[s]
               b == B[s + 1]
    <3>1. a \in Nat /\ b \in Nat /\ last \in Nat /\ b <= last
      BY <1>6
    <3> HIDE DEF a, b
    <3>2. a .. b - 1 \subseteq 0 .. last - 1
      BY <3>1
    <3> QED  BY <3>2 DEF a, b
  <2> QED  BY <2>1, <2>2
<1>11. \A s, t \in 1 .. n : s < t => (B[s] .. B[s + 1] - 1) \cap (B[t] .. B[t + 1] - 1) = {}
  <2> SUFFICES ASSUME NEW s \in 1 .. n, NEW t \in 1 .. n, s < t
               PROVE  (B[s] .. B[s + 1] - 1) \cap (B[t] .. B[t + 1] - 1) = {}
    OBVIOUS
  <2> DEFINE a == B[s]
             b == B[s + 1]
             c == B[t]
             d == B[t + 1]
  <2>1. a \in Nat /\ b \in Nat /\ c \in Nat /\ d \in Nat /\ b <= c
    BY <1>6
  <2> HIDE DEF a, b, c, d
  <2>2. (a .. b - 1) \cap (c .. d - 1) = {}
    BY <2>1
  <2> QED  BY <2>2 DEF a, b, c, d
<1>12. ASSUME NEW m \in DOMAIN whole, NEW p \in DOMAIN whole, m # p
       PROVE  Bytes(whole[m]) \cap Bytes(whole[p]) = {}
  <2>1. PICK s \in 1 .. n : \E i \in 1 .. L(s) :
          m = off[s] + i /\ whole[m] = parts[s][i] /\ Bytes(whole[m]) \subseteq B[s] .. B[s + 1] - 1
    BY <1>8
  <2>2. PICK i \in 1 .. L(s) : m = off[s] + i /\ whole[m] = parts[s][i]
    BY <2>1
  <2>3. PICK t \in 1 .. n : \E j \in 1 .. L(t) :
          p = off[t] + j /\ whole[p] = parts[t][j] /\ Bytes(whole[p]) \subseteq B[t] .. B[t + 1] - 1
    BY <1>8
  <2>4. PICK j \in 1 .. L(t) : p = off[t] + j /\ whole[p] = parts[t][j]
    BY <2>3
  <2>5. CASE s = t
    <3>1. i # j
      BY <1>12, <2>2, <2>4, <2>5
    <3>2. i \in DOMAIN parts[s] /\ j \in DOMAIN parts[s] /\ Tile(parts[s], B[s], B[s + 1])
      BY <1>1, <1>4, <2>5
    <3>3. Bytes(parts[s][i]) \cap Bytes(parts[s][j]) = {}
      BY <3>1, <3>2 DEF Tile
    <3> QED  BY <2>2, <2>4, <2>5, <3>3
  <2>6. CASE s < t
    BY <1>11, <2>1, <2>3, <2>6
  <2>7. CASE t < s
    BY <1>11, <2>1, <2>3, <2>7
  <2> QED  BY <2>5, <2>6, <2>7
<1>13. Tile(whole, 0, last)
  BY <1>9, <1>10, <1>12 DEF Tile
<1>14. ASSUME NEW s \in 1 .. n, NEW x, NEW y, Ahead(parts[s], x, y)
       PROVE  Ahead(whole, x, y)
  <2>1. PICK j, k \in 1 .. L(s) :
          x \in Bytes(parts[s][j]) /\ y \in Bytes(parts[s][k]) /\ (j < k \/ (j = k /\ x < y))
    BY <1>1, <1>14 DEF Ahead
  <2>2. off[s] \in Nat
    BY <1>3
  <2>3. off[s] + j < off[s] + k \/ (off[s] + j = off[s] + k /\ x < y)
    BY <2>1, <2>2
  <2> QED  BY <1>3, <2>1, <2>3 DEF Ahead
<1>15. ASSUME NEW s \in 1 .. n, NEW t \in 1 .. n, s < t,
              NEW x \in B[s] .. B[s + 1] - 1, NEW y \in B[t] .. B[t + 1] - 1
       PROVE  Ahead(whole, x, y)
  <2>1. PICK i \in 1 .. L(s) : x \in Bytes(parts[s][i])
    BY <1>1, <1>4 DEF Tile
  <2>2. PICK j \in 1 .. L(t) : y \in Bytes(parts[t][j])
    BY <1>1, <1>4 DEF Tile
  <2>3. off[s] + i < off[t] + j
    <3> DEFINE a == off[s]
               b == off[t]
               l == L(s)
    <3>1. a \in Nat /\ b \in Nat /\ l \in Nat /\ a + l <= b /\ i \in 1 .. l
      BY <1>1, <1>3, <1>15
    <3> HIDE DEF a, b, l
    <3>2. a + i < b + j
      BY <3>1
    <3> QED  BY <3>2 DEF a, b
  <2> QED  BY <1>3, <2>1, <2>2, <2>3 DEF Ahead
<1> QED  BY <1>13, <1>14, <1>15 DEF n, whole, last

-----------------------------------------------------------------------------
(* Closed sections and their ranges                                        *)

IndexEntry == [stamp : Nat, range : ByteRange]

ClosedSections ==
  [prefix : ByteRange, late_idbs : Seq(ByteRange), scan : Scans, suffix : Seq(ByteRange)]

\* What is written before and with the packets.
Opening(cs) == << cs.prefix >> \o cs.late_idbs

PacketRanges(index) == [k \in DOMAIN index |-> index[k].range]

LEMMA PacketRangesAre ==
  ASSUME NEW index \in Seq(IndexEntry)
  PROVE  /\ PacketRanges(index) \in Seq(ByteRange) /\ Len(PacketRanges(index)) = Len(index)
         /\ DOMAIN PacketRanges(index) = 1 .. Len(index)
         /\ \A k \in 1 .. Len(index) : PacketRanges(index)[k] = index[k].range
<1> DEFINE n == Len(index)
<1>1. n \in Nat /\ DOMAIN index = 1 .. n /\ \A k \in 1 .. n : index[k] \in IndexEntry
  OBVIOUS
<1>2. \A k \in 1 .. n : index[k].range \in ByteRange
  BY <1>1 DEF IndexEntry
<1> HIDE DEF n
<1>3. PacketRanges(index) = [k \in 1 .. n |-> index[k].range]
  BY <1>1 DEF PacketRanges
<1> QED  BY <1>1, <1>2, <1>3 DEF n

LEMMA ClosedFields ==
  ASSUME NEW cs \in ClosedSections
  PROVE  /\ cs.prefix \in ByteRange /\ cs.late_idbs \in Seq(ByteRange)
         /\ cs.suffix \in Seq(ByteRange) /\ cs.scan \in Scans
         /\ cs.scan.index \in Seq(IndexEntry)
         /\ cs.scan.misplaced \in Seq([frame : Nat, latest_frame : Nat])
         /\ cs.scan.max_timestamp \in Int /\ cs.scan.latest_frame \in Nat
         /\ Opening(cs) \in Seq(ByteRange) /\ PacketRanges(cs.scan.index) \in Seq(ByteRange)
         /\ Ranges(cs) \in Seq(ByteRange)
         /\ Ranges(cs) = (Opening(cs) \o PacketRanges(cs.scan.index)) \o cs.suffix
<1>1. /\ cs.prefix \in ByteRange /\ cs.late_idbs \in Seq(ByteRange)
      /\ cs.suffix \in Seq(ByteRange) /\ cs.scan \in Scans
  BY DEF ClosedSections
<1>2. /\ cs.scan.index \in Seq(IndexEntry)
      /\ cs.scan.misplaced \in Seq([frame : Nat, latest_frame : Nat])
      /\ cs.scan.max_timestamp \in Int /\ cs.scan.latest_frame \in Nat
  BY <1>1 DEF Scans, IndexEntry
<1>3. Opening(cs) \in Seq(ByteRange)
  BY <1>1 DEF Opening
<1>4. PacketRanges(cs.scan.index) \in Seq(ByteRange)
  BY <1>2, PacketRangesAre
<1>5. Ranges(cs) = (Opening(cs) \o PacketRanges(cs.scan.index)) \o cs.suffix
  BY DEF Ranges, Opening, PacketRanges
<1>6. Ranges(cs) \in Seq(ByteRange)
  <2> DEFINE a == Opening(cs)
             b == PacketRanges(cs.scan.index)
             c == cs.suffix
  <2>1. a \in Seq(ByteRange) /\ b \in Seq(ByteRange) /\ c \in Seq(ByteRange)
    BY <1>1, <1>3, <1>4
  <2> HIDE DEF a, b, c
  <2>2. (a \o b) \o c \in Seq(ByteRange)
    BY <2>1
  <2> QED  BY <1>5, <2>2 DEF a, b, c
<1> QED  BY <1>1, <1>2, <1>3, <1>4, <1>5, <1>6

LEMMA ConcatRanges ==
  ASSUME NEW a \in Seq(ByteRange), NEW b \in Seq(ByteRange), NEW c \in Seq(ByteRange)
  PROVE  a \o b \in Seq(ByteRange) /\ (a \o b) \o c = a \o (b \o c)
BY ConcatAssociative, SMTT(60)

LEMMA InsertedRange ==
  ASSUME NEW a \in Seq(ByteRange), NEW b \in Seq(ByteRange), NEW r \in ByteRange
  PROVE  Rearranged((a \o b) \o << r >>, Append(a, r) \o b)
<1> DEFINE e == << r >>
<1>1. e \in Seq(ByteRange) /\ Append(a, r) = a \o e
  BY AppendIsConcat
<1> HIDE DEF e
<1>2. Rearranged(a, a) /\ Rearranged(b \o e, e \o b)
  BY <1>1, RearrangedSelf, RearrangedSwap
<1>3. b \o e \in Seq(ByteRange) /\ e \o b \in Seq(ByteRange)
  BY <1>1, ConcatRanges
<1>4. Rearranged(a \o (b \o e), a \o (e \o b))
  BY <1>2, <1>3, RearrangedConcat
<1>5. (a \o b) \o e = a \o (b \o e) /\ (a \o e) \o b = a \o (e \o b)
  BY <1>1, ConcatRanges
<1> QED  BY <1>1, <1>4, <1>5 DEF e

LEMMA InsertedAnywhere ==
  ASSUME NEW a \in Seq(ByteRange), NEW b \in Seq(ByteRange), NEW c \in Seq(ByteRange),
         NEW r \in ByteRange
  PROVE  /\ Rearranged(((a \o b) \o c) \o << r >>, (Append(a, r) \o b) \o c)
         /\ Rearranged(((a \o b) \o c) \o << r >>, (a \o Append(b, r)) \o c)
         /\ Rearranged(((a \o b) \o c) \o << r >>, (a \o b) \o Append(c, r))
<1> DEFINE e == << r >>
           ab == a \o b
           bc == b \o c
           ar == Append(a, r)
           br == Append(b, r)
           cr == Append(c, r)
<1>1. /\ e \in Seq(ByteRange) /\ ar \in Seq(ByteRange) /\ br \in Seq(ByteRange)
      /\ ab \in Seq(ByteRange) /\ bc \in Seq(ByteRange)
      /\ br = b \o e /\ cr = c \o e
  BY AppendIsConcat, ConcatRanges
<1>2. ab \o c = a \o bc /\ ab \o c \in Seq(ByteRange)
  BY <1>1, ConcatRanges, SMTT(60)
<1>3. (ar \o b) \o c = ar \o bc
  <2> HIDE DEF ar
  <2> QED  BY <1>1, ConcatRanges
<1>4. a \o br = ab \o e
  <2>1. ab \o e = a \o (b \o e)
    BY <1>1, ConcatRanges
  <2> QED  BY <1>1, <2>1
<1>5. Rearranged((a \o bc) \o e, ar \o bc)
  BY <1>1, InsertedRange
<1>6. Rearranged((ab \o c) \o e, Append(ab, r) \o c) /\ Append(ab, r) = ab \o e
  BY <1>1, InsertedRange, AppendIsConcat
<1>7. ab \o cr = (ab \o c) \o e
  <2>1. (ab \o c) \o e = ab \o (c \o e)
    <3> HIDE DEF ab, e
    <3> QED  BY <1>1, ConcatRanges, SMTT(60)
  <2> QED  BY <1>1, <2>1
<1>8. Rearranged((ab \o c) \o e, (ab \o c) \o e)
  <2>1. (ab \o c) \o e \in Seq(ByteRange)
    <3> DEFINE x == ab \o c
    <3>1. x \in Seq(ByteRange)
      BY <1>2
    <3> HIDE DEF x, e
    <3>2. x \o e \in Seq(ByteRange)
      BY <1>1, <3>1, ConcatRanges
    <3> QED  BY <3>2 DEF x
  <2> QED  BY <2>1, RearrangedSelf
<1> HIDE DEF e, ab, bc, ar, br, cr
<1>9. Rearranged((ab \o c) \o e, (ar \o b) \o c)
  BY <1>2, <1>3, <1>5
<1>10. Rearranged((ab \o c) \o e, (a \o br) \o c)
  BY <1>4, <1>6
<1>11. Rearranged((ab \o c) \o e, ab \o cr)
  BY <1>7, <1>8
<1> QED  BY <1>9, <1>10, <1>11 DEF e, ab, ar, br, cr

\* One more range in a section, wherever it goes.
LEMMA RangesAdd ==
  ASSUME NEW cs \in ClosedSections, NEW r \in ByteRange, NEW d \in ClosedSections,
         d.prefix = cs.prefix
  PROVE  /\ /\ d.late_idbs = Append(cs.late_idbs, r)
            /\ d.scan = cs.scan /\ d.suffix = cs.suffix
            => /\ Opening(d) = Append(Opening(cs), r)
               /\ Rearranged(Ranges(cs) \o << r >>, Ranges(d))
         /\ /\ d.suffix = Append(cs.suffix, r)
            /\ d.scan = cs.scan /\ d.late_idbs = cs.late_idbs
            => Rearranged(Ranges(cs) \o << r >>, Ranges(d))
         /\ /\ PacketRanges(d.scan.index) = Append(PacketRanges(cs.scan.index), r)
            /\ d.late_idbs = cs.late_idbs /\ d.suffix = cs.suffix
            => Rearranged(Ranges(cs) \o << r >>, Ranges(d))
<1> DEFINE F == Opening(cs)
           P == PacketRanges(cs.scan.index)
           S == cs.suffix
<1>1. /\ F \in Seq(ByteRange) /\ P \in Seq(ByteRange) /\ S \in Seq(ByteRange)
      /\ Ranges(cs) = (F \o P) \o S
      /\ Ranges(d) = (Opening(d) \o PacketRanges(d.scan.index)) \o d.suffix
  BY ClosedFields
<1>2. d.late_idbs = cs.late_idbs => Opening(d) = F
  BY DEF Opening
<1>3. d.late_idbs = Append(cs.late_idbs, r) => Opening(d) = Append(F, r)
  <2> DEFINE p == << cs.prefix >>
             l == cs.late_idbs
             e == << r >>
  <2>1. /\ p \in Seq(ByteRange) /\ l \in Seq(ByteRange) /\ e \in Seq(ByteRange)
        /\ Append(l, r) = l \o e /\ Append(F, r) = F \o e /\ F = p \o l
    <3>1. cs.prefix \in ByteRange /\ cs.late_idbs \in Seq(ByteRange)
      BY ClosedFields
    <3> QED  BY <1>1, <3>1, AppendIsConcat DEF Opening
  <2>2. d.late_idbs = Append(cs.late_idbs, r) => Opening(d) = p \o Append(l, r)
    BY DEF Opening
  <2> HIDE DEF p, l, e, F
  <2>3. p \o (l \o e) = (p \o l) \o e
    BY <2>1, ConcatRanges
  <2> QED  BY <2>1, <2>2, <2>3 DEF l
<1>4. /\ Rearranged(((F \o P) \o S) \o << r >>, (Append(F, r) \o P) \o S)
      /\ Rearranged(((F \o P) \o S) \o << r >>, (F \o Append(P, r)) \o S)
      /\ Rearranged(((F \o P) \o S) \o << r >>, (F \o P) \o Append(S, r))
  BY <1>1, InsertedAnywhere
<1> QED  BY <1>1, <1>2, <1>3, <1>4

-----------------------------------------------------------------------------
(* The frames of a section: those whose packets are between two offsets.   *)

Within(got, from, to) == {f \in DOMAIN got : from <= got[f].at /\ got[f].at < to}

\* The later packets of the section before a frame.
LaterBefore(got, F, f) == {g \in F : g < f /\ got[g].stamp > got[f].stamp}

\* What was noted about the order is about these frames.
Judged(misplaced, got, F) ==
  /\ {m.frame : m \in ToSet(misplaced)} = {f \in F : LaterBefore(got, F, f) # {}}
  /\ \A m \in ToSet(misplaced) :
       /\ m.latest_frame \in LaterBefore(got, F, m.frame)
       /\ \A g \in LaterBefore(got, F, m.frame) : got[m.latest_frame].stamp >= got[g].stamp

\* The scan knows a latest packet, if there is one.
KnowsLatest(scan, got, F) ==
  /\ F = {} => scan.max_timestamp = -1
  /\ F # {} => /\ scan.latest_frame \in F
               /\ got[scan.latest_frame].stamp = scan.max_timestamp
               /\ \A g \in F : got[g].stamp <= scan.max_timestamp

\* The index has the frames one after the other, from a first one on.
Listed(index, got, F, base) ==
  /\ base \in Nat /\ base + Len(index) <= Len(got)
  /\ F = base + 1 .. base + Len(index)
  /\ \A k \in 1 .. Len(index) :
       index[k].stamp = got[base + k].stamp /\ got[base + k].at \in Bytes(index[k].range)

LEMMA GotMore ==
  ASSUME NEW got \in Seq(Entries), NEW e \in Entries
  PROVE  LET n == Len(got)  more == Append(got, e) IN
         /\ n \in Nat /\ more \in Seq(Entries) /\ Len(more) = n + 1
         /\ DOMAIN got = 1 .. n /\ DOMAIN more = (DOMAIN got) \cup {n + 1} /\ n + 1 \notin DOMAIN got
         /\ more[n + 1] = e /\ \A f \in DOMAIN got : more[f] = got[f]
         /\ \A f \in DOMAIN got : got[f].at \in Nat /\ got[f].stamp \in Nat
         /\ \A f \in DOMAIN more : more[f].at \in Nat /\ more[f].stamp \in Nat
         /\ e.at \in Nat /\ e.stamp \in Nat
<1> DEFINE n == Len(got)
           more == Append(got, e)
<1>1. /\ n \in Nat /\ more \in Seq(Entries) /\ Len(more) = n + 1 /\ DOMAIN got = 1 .. n
      /\ DOMAIN more = 1 .. n + 1 /\ more[n + 1] = e /\ \A f \in 1 .. n : more[f] = got[f]
  BY AppendProperties
<1>2. 1 .. n + 1 = (1 .. n) \cup {n + 1} /\ n + 1 \notin 1 .. n
  BY <1>1
<1>3. \A f \in DOMAIN got : got[f] \in Entries
  BY ElementOfSeq
<1>4. \A f \in DOMAIN more : more[f] \in Entries
  BY <1>1, ElementOfSeq
<1> HIDE DEF n, more
<1>5. \A x \in Entries : x.at \in Nat /\ x.stamp \in Nat
  BY DEF Entries
<1> QED  BY <1>1, <1>2, <1>3, <1>4, <1>5 DEF n, more

LEMMA WithinMore ==
  ASSUME NEW got \in Seq(Entries), NEW e \in Entries, NEW pos \in Nat, e.at = pos,
         \A f \in DOMAIN got : got[f].at < pos, NEW from \in Nat, NEW to \in Nat
  PROVE  /\ to <= pos => Within(Append(got, e), from, to) = Within(got, from, to)
         /\ from <= pos /\ pos < to =>
              Within(Append(got, e), from, to) = Within(got, from, pos) \cup {Len(got) + 1}
         /\ pos <= to => Within(got, from, to) = Within(got, from, pos)
<1> DEFINE n == Len(got)
           more == Append(got, e)
<1>1. /\ n \in Nat
      /\ DOMAIN more = (DOMAIN got) \cup {n + 1} /\ n + 1 \notin DOMAIN got
      /\ more[n + 1] = e /\ \A f \in DOMAIN got : more[f] = got[f]
      /\ \A f \in DOMAIN got : got[f].at \in Nat
  BY GotMore
<1> HIDE DEF n, more
<1>2. ASSUME to <= pos  PROVE Within(more, from, to) = Within(got, from, to)
  <2>1. ~ (more[n + 1].at < to)
    BY <1>1, <1>2
  <2> QED  BY <1>1, <2>1 DEF Within
<1>3. ASSUME pos <= to  PROVE Within(got, from, to) = Within(got, from, pos)
  <2>1. \A f \in DOMAIN got : got[f].at < to
    BY <1>1, <1>3
  <2> QED  BY <2>1 DEF Within
<1>4. ASSUME from <= pos, pos < to
      PROVE  Within(more, from, to) = Within(got, from, pos) \cup {n + 1}
  <2>1. \A f \in DOMAIN got : got[f].at < to
    BY <1>1, <1>4
  <2>2. from <= more[n + 1].at /\ more[n + 1].at < to
    BY <1>1, <1>4
  <2> QED  BY <1>1, <2>1, <2>2 DEF Within
<1> QED  BY <1>2, <1>3, <1>4 DEF n, more

\* Frames of a section that is over stay what they were.
LEMMA FramesStay ==
  ASSUME NEW got \in Seq(Entries), NEW e \in Entries, NEW F \in SUBSET DOMAIN got
  PROVE  /\ \A misplaced : Judged(misplaced, got, F) => Judged(misplaced, Append(got, e), F)
         /\ \A index \in Seq(IndexEntry) : \A base :
              Listed(index, got, F, base) => Listed(index, Append(got, e), F, base)
<1> DEFINE n == Len(got)
           more == Append(got, e)
<1>1. /\ n \in Nat /\ Len(more) = n + 1 /\ DOMAIN got = 1 .. n
      /\ \A f \in DOMAIN got : more[f] = got[f]
  BY GotMore
<1> HIDE DEF n, more
<1>2. \A f \in F : LaterBefore(more, F, f) = LaterBefore(got, F, f)
  BY <1>1 DEF LaterBefore
<1>3. ASSUME NEW misplaced, Judged(misplaced, got, F)  PROVE Judged(misplaced, more, F)
  <2>1. /\ {m.frame : m \in ToSet(misplaced)} = {f \in F : LaterBefore(got, F, f) # {}}
        /\ \A m \in ToSet(misplaced) :
             /\ m.latest_frame \in LaterBefore(got, F, m.frame)
             /\ \A g \in LaterBefore(got, F, m.frame) : got[m.latest_frame].stamp >= got[g].stamp
    BY <1>3 DEF Judged
  <2>2. {f \in F : LaterBefore(got, F, f) # {}} = {f \in F : LaterBefore(more, F, f) # {}}
    BY <1>2
  <2>3. \A m \in ToSet(misplaced) : m.frame \in F
    BY <2>1
  <2>4. \A m \in ToSet(misplaced) : LaterBefore(more, F, m.frame) = LaterBefore(got, F, m.frame)
    BY <1>2, <2>3
  <2>5. \A f : \A g \in LaterBefore(got, F, f) : more[g] = got[g]
    BY <1>1 DEF LaterBefore
  <2> QED  BY <2>1, <2>2, <2>4, <2>5 DEF Judged
<1>4. ASSUME NEW index \in Seq(IndexEntry), NEW base, Listed(index, got, F, base)
      PROVE  Listed(index, more, F, base)
  <2> DEFINE l == Len(index)
  <2>1. /\ l \in Nat /\ base \in Nat /\ base + l <= n /\ F = base + 1 .. base + l
        /\ \A k \in 1 .. l :
             index[k].stamp = got[base + k].stamp /\ got[base + k].at \in Bytes(index[k].range)
    BY <1>4 DEF Listed, n
  <2> HIDE DEF l
  <2>2. base + l <= n + 1
    BY <1>1, <2>1
  <2>3. \A k \in 1 .. l : base + k \in DOMAIN got
    BY <1>1, <2>1
  <2>4. \A k \in 1 .. l : more[base + k] = got[base + k]
    BY <1>1, <2>3
  <2> QED  BY <1>1, <2>1, <2>2, <2>4 DEF Listed, l
<1> QED  BY <1>3, <1>4 DEF more

LEMMA IndexRanges ==
  ASSUME NEW index \in Seq(IndexEntry), NEW stamp \in Nat, NEW range \in ByteRange
  PROVE  PacketRanges(Append(index, [stamp |-> stamp, range |-> range]))
           = Append(PacketRanges(index), range)
<1> DEFINE i == [stamp |-> stamp, range |-> range]
           a == index
           b == Append(a, i)
           l == Len(a)
           p == PacketRanges(a)
           q == PacketRanges(b)
<1>1. /\ l \in Nat /\ Len(b) = l + 1 /\ b[l + 1] = i /\ \A k \in 1 .. l : b[k] = a[k]
      /\ b \in Seq(IndexEntry) /\ a \in Seq(IndexEntry)
  <2>1. i \in IndexEntry
    BY DEF IndexEntry
  <2> QED  BY <2>1, AppendProperties
<1> HIDE DEF a, b, l, p, q
<1>2. /\ p \in Seq(ByteRange) /\ Len(p) = l /\ \A k \in 1 .. l : p[k] = a[k].range
  BY <1>1, PacketRangesAre DEF p, l
<1>3. /\ q \in Seq(ByteRange) /\ Len(q) = l + 1 /\ \A k \in 1 .. l + 1 : q[k] = b[k].range
  BY <1>1, PacketRangesAre DEF q
<1>4. i.range = range
  OBVIOUS
<1> HIDE DEF i
<1> DEFINE r == Append(p, range)
<1>5. r \in Seq(ByteRange) /\ Len(r) = l + 1 /\ r[l + 1] = range /\ \A k \in 1 .. l : r[k] = p[k]
  BY <1>2, AppendProperties
<1> HIDE DEF r
<1>6. \A k \in 1 .. l + 1 : k \in 1 .. l \/ k = l + 1
  BY <1>1
<1>7. \A k \in 1 .. l + 1 : r[k] = q[k]
  BY <1>1, <1>2, <1>3, <1>4, <1>5, <1>6
<1>8. r = q
  BY <1>3, <1>5, <1>7, SeqEqual
<1> QED  BY <1>8 DEF a, b, p, q, r, i

LEMMA PushFields ==
  ASSUME NEW scan \in Scans, NEW stamp \in Nat, NEW range \in ByteRange, NEW f \in Nat
  PROVE  LET more == Push(scan, stamp, range, f) IN
         /\ more \in Scans
         /\ more.index = Append(scan.index, [stamp |-> stamp, range |-> range])
         /\ more.misplaced = IF stamp < scan.max_timestamp
                             THEN Append(scan.misplaced, Misplaced(f, scan)) ELSE scan.misplaced
         /\ more.max_timestamp = MaxOf(scan, stamp)
         /\ more.latest_frame = IF stamp < scan.max_timestamp THEN scan.latest_frame ELSE f
<1> DEFINE i == [stamp |-> stamp, range |-> range]
           more == Push(scan, stamp, range, f)
<1>1. /\ more.index = Append(scan.index, i)
      /\ more.misplaced = IF stamp < scan.max_timestamp
                          THEN Append(scan.misplaced, Misplaced(f, scan)) ELSE scan.misplaced
      /\ more.max_timestamp = MaxOf(scan, stamp)
      /\ more.latest_frame = IF stamp < scan.max_timestamp THEN scan.latest_frame ELSE f
  BY DEF Push
<1>2. /\ scan.index \in Seq(IndexEntry) /\ i \in IndexEntry
      /\ scan.misplaced \in Seq([frame : Nat, latest_frame : Nat])
      /\ scan.max_timestamp \in Int /\ scan.latest_frame \in Nat
      /\ Misplaced(f, scan) \in [frame : Nat, latest_frame : Nat]
  BY DEF Scans, IndexEntry, Misplaced
<1>3. Append(scan.index, i) \in Seq(IndexEntry)
  BY <1>2, AppendProperties
<1>4. (IF stamp < scan.max_timestamp THEN Append(scan.misplaced, Misplaced(f, scan)) ELSE scan.misplaced)
        \in Seq([frame : Nat, latest_frame : Nat])
  BY <1>2, AppendProperties
<1>5. MaxOf(scan, stamp) \in Int
  BY <1>2 DEF MaxOf
<1>6. (IF stamp < scan.max_timestamp THEN scan.latest_frame ELSE f) \in Nat
  BY <1>2
<1>7. more \in Scans
  BY <1>3, <1>4, <1>5, <1>6 DEF Push, Scans, IndexEntry
<1> QED  BY <1>1, <1>7

\* One more packet.
LEMMA FramesMore ==
  ASSUME NEW got \in Seq(Entries), NEW e \in Entries, NEW F \in SUBSET DOMAIN got,
         NEW scan \in Scans, NEW range \in ByteRange, e.at \in Bytes(range), NEW base,
         Judged(scan.misplaced, got, F), KnowsLatest(scan, got, F),
         Listed(scan.index, got, F, base), base + Len(scan.index) = Len(got)
  PROVE  LET n    == Len(got) + 1
             all  == Append(got, e)
             G    == F \cup {n}
             more == Push(scan, e.stamp, range, n)
         IN  /\ Judged(more.misplaced, all, G) /\ KnowsLatest(more, all, G)
             /\ Listed(more.index, all, G, base) /\ base + Len(more.index) = Len(all)
<1> DEFINE n    == Len(got) + 1
           all  == Append(got, e)
           G    == F \cup {n}
           stamp == e.stamp
           more == Push(scan, stamp, range, n)
           max  == scan.max_timestamp
           late == scan.latest_frame
           M    == [frame : Nat, latest_frame : Nat]
<1>1. /\ Len(got) \in Nat /\ n \in Nat /\ all \in Seq(Entries) /\ Len(all) = n
      /\ DOMAIN got = 1 .. Len(got) /\ n \notin DOMAIN got
      /\ all[n] = e /\ \A f \in DOMAIN got : all[f] = got[f] /\ got[f].stamp \in Nat /\ f < n
      /\ stamp \in Nat
  <2>1. \A f \in 1 .. Len(got) : f < n
    OBVIOUS
  <2> QED  BY <2>1, GotMore
<1>2. /\ more.index = Append(scan.index, [stamp |-> stamp, range |-> range])
      /\ more.misplaced = IF stamp < max THEN Append(scan.misplaced, Misplaced(n, scan))
                          ELSE scan.misplaced
      /\ more.max_timestamp = IF stamp < max THEN max ELSE stamp
      /\ more.latest_frame = IF stamp < max THEN late ELSE n
  BY DEF Push, MaxOf
<1>3. max \in Int /\ late \in Nat /\ scan.misplaced \in Seq(M) /\ scan.index \in Seq(IndexEntry)
  BY DEF Scans, IndexEntry
<1>4. /\ F = {} => max = -1
      /\ F # {} => late \in F /\ got[late].stamp = max /\ \A g \in F : got[g].stamp <= max
  BY DEF KnowsLatest
<1> HIDE DEF n, all, more, stamp, max, late
<1>5. stamp < max => F # {}
  BY <1>1, <1>4
<1>6. \A f \in F : LaterBefore(all, G, f) = LaterBefore(got, F, f)
  <2> TAKE f \in F
  <2>1. ~ (n < f) /\ all[f] = got[f]
    BY <1>1
  <2>2. \A g \in F : all[g] = got[g]
    BY <1>1
  <2> QED  BY <2>1, <2>2 DEF LaterBefore
<1>7. LaterBefore(all, G, n) = {g \in F : got[g].stamp > stamp}
  <2>1. ~ (n < n)
    BY <1>1
  <2>2. \A g \in F : all[g] = got[g] /\ g < n
    BY <1>1
  <2> QED  BY <1>1, <2>1, <2>2 DEF LaterBefore, stamp
<1>8. LaterBefore(all, G, n) # {} <=> stamp < max
  <2>1. ASSUME stamp < max  PROVE late \in {g \in F : got[g].stamp > stamp}
    BY <1>3, <1>4, <1>5, <1>1, <2>1
  <2>2. ASSUME NEW g \in F, got[g].stamp > stamp  PROVE stamp < max
    BY <1>1, <1>3, <1>4, <2>2
  <2> QED  BY <1>7, <2>1, <2>2
<1>9. KnowsLatest(more, all, G)
  <2>1. CASE stamp < max
    <3>1. more.latest_frame = late /\ more.max_timestamp = max /\ late \in F
      BY <1>2, <1>4, <1>5, <2>1
    <3>2. all[late] = got[late] /\ \A g \in F : all[g] = got[g]
      BY <1>1, <3>1
    <3>3. \A g \in G : all[g].stamp <= max
      BY <1>1, <1>3, <1>4, <1>5, <2>1, <3>2 DEF stamp
    <3> QED  BY <1>4, <1>5, <2>1, <3>1, <3>2, <3>3 DEF KnowsLatest
  <2>2. CASE ~ (stamp < max)
    <3>1. more.latest_frame = n /\ more.max_timestamp = stamp /\ n \in G
      BY <1>2, <2>2
    <3>2. ASSUME NEW g \in F  PROVE all[g].stamp <= stamp
      BY <1>1, <1>3, <1>4, <2>2, <3>2
    <3>3. all[n].stamp = stamp
      BY <1>1 DEF stamp
    <3>4. \A g \in G : all[g].stamp <= stamp
      BY <1>1, <3>2, <3>3
    <3> QED  BY <3>1, <3>3, <3>4 DEF KnowsLatest
  <2> QED  BY <2>1, <2>2
<1>10. /\ {m.frame : m \in ToSet(scan.misplaced)} = {f \in F : LaterBefore(got, F, f) # {}}
       /\ \A m \in ToSet(scan.misplaced) :
            /\ m.latest_frame \in LaterBefore(got, F, m.frame)
            /\ \A g \in LaterBefore(got, F, m.frame) : got[m.latest_frame].stamp >= got[g].stamp
  BY DEF Judged
<1>11. \A m \in ToSet(scan.misplaced) :
         /\ m.frame \in F /\ m.latest_frame \in LaterBefore(all, G, m.frame)
         /\ \A g \in LaterBefore(all, G, m.frame) : all[m.latest_frame].stamp >= all[g].stamp
  <2> TAKE m \in ToSet(scan.misplaced)
  <2>1. m.frame \in F
    BY <1>10
  <2>2. LaterBefore(all, G, m.frame) = LaterBefore(got, F, m.frame)
    BY <1>6, <2>1
  <2>3. \A g \in LaterBefore(got, F, m.frame) : all[g] = got[g]
    BY <1>1 DEF LaterBefore
  <2> QED  BY <1>10, <2>1, <2>2, <2>3
<1>12. {f \in G : LaterBefore(all, G, f) # {}}
         = {f \in F : LaterBefore(got, F, f) # {}} \cup (IF stamp < max THEN {n} ELSE {})
  BY <1>6, <1>8
<1>13. Judged(more.misplaced, all, G)
  <2>1. CASE stamp < max
    <3> DEFINE x == Misplaced(n, scan)
    <3>1. ToSet(more.misplaced) = ToSet(scan.misplaced) \cup {x}
      <4>1. x \in M
        BY <1>1, <1>3 DEF Misplaced, late
      <4> DEFINE s == scan.misplaced
                 t == Append(s, x)
      <4>2. s \in Seq(M) /\ more.misplaced = t
        BY <1>2, <1>3, <2>1
      <4> HIDE DEF s, x
      <4>3. /\ Len(s) \in Nat /\ DOMAIN s = 1 .. Len(s) /\ DOMAIN t = 1 .. Len(s) + 1
            /\ t[Len(s) + 1] = x /\ \A k \in 1 .. Len(s) : t[k] = s[k]
        BY <4>1, <4>2, AppendProperties
      <4> HIDE DEF t
      <4>4. 1 .. Len(s) + 1 = (1 .. Len(s)) \cup {Len(s) + 1}
        BY <4>3
      <4>5. ToSet(t) = ToSet(s) \cup {x}
        BY <4>3, <4>4 DEF ToSet
      <4> QED  BY <4>2, <4>5 DEF s
    <3>2. x.frame = n /\ x.latest_frame = late
      BY DEF Misplaced, late
    <3> HIDE DEF x
    <3>3. {m.frame : m \in ToSet(more.misplaced)} = {m.frame : m \in ToSet(scan.misplaced)} \cup {n}
      BY <3>1, <3>2
    <3>4. late \in LaterBefore(all, G, n)
      BY <1>1, <1>3, <1>4, <1>5, <1>7, <2>1
    <3>5. \A g \in LaterBefore(all, G, n) : all[late].stamp >= all[g].stamp
      <4>1. late \in F /\ all[late] = got[late] /\ \A g \in F : all[g] = got[g]
        BY <1>1, <1>4, <1>5, <2>1
      <4>2. \A g \in F : all[late].stamp >= all[g].stamp
        BY <1>1, <1>3, <1>4, <1>5, <2>1, <4>1
      <4> QED  BY <1>7, <4>2
    <3>6. {m.frame : m \in ToSet(more.misplaced)} = {f \in G : LaterBefore(all, G, f) # {}}
      BY <1>10, <1>12, <2>1, <3>3
    <3>7. ASSUME NEW m \in ToSet(more.misplaced)
          PROVE  /\ m.latest_frame \in LaterBefore(all, G, m.frame)
                 /\ \A g \in LaterBefore(all, G, m.frame) : all[m.latest_frame].stamp >= all[g].stamp
      <4>1. CASE m \in ToSet(scan.misplaced)
        BY <1>11, <4>1
      <4>2. CASE m = x
        <5>1. m.frame = n /\ m.latest_frame = late
          BY <3>2, <4>2
        <5> QED  BY <3>4, <3>5, <5>1
      <4> QED  BY <3>1, <4>1, <4>2
    <3> QED  BY <3>6, <3>7 DEF Judged
  <2>2. CASE ~ (stamp < max)
    BY <1>2, <1>10, <1>11, <1>12, <2>2 DEF Judged
  <2> QED  BY <2>1, <2>2
<1>14. Listed(more.index, all, G, base) /\ base + Len(more.index) = Len(all)
  <2> DEFINE s == scan.index
             l == Len(s)
             i == [stamp |-> stamp, range |-> range]
             t == Append(s, i)
  <2>1. s \in Seq(IndexEntry) /\ i \in IndexEntry /\ more.index = t
    BY <1>1, <1>2, <1>3 DEF IndexEntry
  <2>2. i.stamp = stamp /\ i.range = range
    OBVIOUS
  <2>2a. /\ base \in Nat /\ base + l = Len(got) /\ F = base + 1 .. base + l
         /\ \A k \in 1 .. l : s[k].stamp = got[base + k].stamp /\ got[base + k].at \in Bytes(s[k].range)
    BY DEF Listed
  <2> HIDE DEF s, i
  <2>3. l \in Nat /\ Len(t) = l + 1 /\ t[l + 1] = i /\ \A k \in 1 .. l : t[k] = s[k]
    BY <2>1, AppendProperties
  <2> HIDE DEF l, t
  <2> DEFINE c == Len(got)
  <2>3a. /\ c \in Nat /\ base \in Nat /\ l \in Nat /\ base + l = c /\ n = c + 1 /\ Len(all) = n
         /\ DOMAIN got = 1 .. c
    BY <1>1, <2>2a, <2>3 DEF n
  <2> HIDE DEF c
  <2>4. n = base + (l + 1) /\ base + (l + 1) <= Len(all) /\ base + (l + 1) = Len(all)
    BY ONLY <2>3a
  <2>5. G = base + 1 .. base + (l + 1)
    <3>1. F = base + 1 .. base + l /\ n = base + (l + 1)
      BY <2>2a, <2>4
    <3>2. base + 1 .. base + (l + 1) = (base + 1 .. base + l) \cup {base + (l + 1)}
      BY ONLY <2>3a
    <3> QED  BY <3>1, <3>2
  <2>6. ASSUME NEW k \in 1 .. l + 1
        PROVE  t[k].stamp = all[base + k].stamp /\ all[base + k].at \in Bytes(t[k].range)
    <3>1. CASE k \in 1 .. l
      <4>1. base + k \in DOMAIN got
        BY ONLY <2>3a, <3>1
      <4>2. all[base + k] = got[base + k] /\ t[k] = s[k]
        BY <1>1, <2>3, <3>1, <4>1
      <4> QED  BY <2>2a, <3>1, <4>2
    <3>2. CASE k = l + 1
      <4>1. t[k] = i /\ all[base + k] = e
        BY <1>1, <2>3, <2>4, <3>2
      <4> QED  BY <2>2, <4>1 DEF stamp
    <3> QED  BY <2>3, <3>1, <3>2
  <2>7. /\ base + Len(t) <= Len(all) /\ base + Len(t) = Len(all) /\ G = base + 1 .. base + Len(t)
        /\ \A k \in 1 .. Len(t) :
             t[k].stamp = all[base + k].stamp /\ all[base + k].at \in Bytes(t[k].range)
    BY <2>3, <2>4, <2>5, <2>6
  <2> QED  BY <2>1, <2>2a, <2>7 DEF Listed
<1> QED  BY <1>9, <1>13, <1>14 DEF n, all, more, stamp

-----------------------------------------------------------------------------
(* What is known of a section that is scanned up to an offset.             *)

\* Its interfaces are where they belong, and it is one section.
Fronted(cs, from, to) ==
  /\ {s \in SectionStarts : from <= s /\ s < to}
       = IF capture.format = "pcapng" THEN {from} ELSE {}
  /\ \A e \in Interfaces : from <= e /\ e < to => Holds(Opening(cs), e)
  /\ \A d, e \in Interfaces : from <= d /\ d < e /\ e < to => Ahead(Opening(cs), d, e)

SectionIs(cs, got, from, to) ==
  /\ cs \in ClosedSections /\ from \in Nat /\ to \in Nat /\ from < to
  /\ cs.prefix[1] = from /\ cs.prefix[2] > 0
  /\ Tile(Ranges(cs), from, to)
  /\ Judged(cs.scan.misplaced, got, Within(got, from, to))
  /\ EndToEnd => Fronted(cs, from, to)

\* The current section.
ScanIs(sec, got, pos, base) ==
  /\ sec \in SectionScans
  /\ SectionIs(Closed(sec, pos), got, sec.start, pos)
  /\ KnowsLatest(sec.scan, got, Within(got, sec.start, pos))
  /\ Listed(sec.scan.index, got, Within(got, sec.start, pos), base)
  /\ base + Len(sec.scan.index) = Len(got)
  /\ sec.prefix_end = None =>
       sec.late_idbs = << >> /\ sec.suffix = << >> /\ sec.scan.index = << >>

\* The block at an offset, if the file is sound.
BlockIs(pos, len, kind) ==
  EndToEnd =>
    /\ pos \in DOMAIN capture.at /\ capture.at[pos].kind = kind
    /\ \A o \in DOMAIN capture.at : o > pos => o >= pos + len

LEMMA OffsetsAre ==
  ASSUME capture \in Captures
  PROVE  /\ DOMAIN capture.at \subseteq Nat /\ Interfaces \subseteq Nat /\ SectionStarts \subseteq Nat
         /\ Interfaces \subseteq DOMAIN capture.at /\ SectionStarts \subseteq DOMAIN capture.at
         /\ \A o \in DOMAIN capture.at : /\ o \in Interfaces <=> capture.at[o].kind = "idb"
                                         /\ o \in SectionStarts <=> capture.at[o].kind = "shb"
         /\ capture.format = "pcap" => Interfaces = {} /\ SectionStarts = {}
<1>1. /\ DOMAIN capture.at \subseteq Nat
      /\ capture.format = "pcap" => \A o \in DOMAIN capture.at : capture.at[o].kind = "rec"
  BY CaptureReadersAssumption DEF IsCapture
<1> QED  BY <1>1 DEF Interfaces, SectionStarts

LEMMA FrontedMore ==
  ASSUME capture \in Captures, EndToEnd, NEW cs \in ClosedSections, NEW d \in ClosedSections,
         NEW from \in Nat, NEW pos \in Nat, NEW len \in Nat, from < pos, len > 0,
         Fronted(cs, from, pos), NEW kind, BlockIs(pos, len, kind), kind # "shb",
         \/ kind # "idb" /\ Opening(d) = Opening(cs)
         \/ Opening(d) = Append(Opening(cs), << pos, len >>)
         \/ Opening(d) = << << from, (pos + len) - from >> >>
  PROVE  Fronted(d, from, pos + len)
<1>1. /\ Interfaces \subseteq Nat /\ SectionStarts \subseteq Nat
      /\ pos \in Interfaces <=> kind = "idb"
      /\ pos \notin SectionStarts
      /\ \A o \in Interfaces : o > pos => o >= pos + len
      /\ \A o \in SectionStarts : o > pos => o >= pos + len
  BY OffsetsAre DEF BlockIs
<1>2. \A o \in Interfaces : o < pos + len => o < pos \/ (o = pos /\ kind = "idb")
  BY <1>1
<1>3. \A o \in SectionStarts : o < pos + len <=> o < pos
  BY <1>1
<1>4. {s \in SectionStarts : from <= s /\ s < pos + len} = {s \in SectionStarts : from <= s /\ s < pos}
  BY <1>3
<1>5. /\ {s \in SectionStarts : from <= s /\ s < pos}
           = IF capture.format = "pcapng" THEN {from} ELSE {}
      /\ \A e \in Interfaces : from <= e /\ e < pos => Holds(Opening(cs), e)
      /\ \A c, e \in Interfaces : from <= c /\ c < e /\ e < pos => Ahead(Opening(cs), c, e)
  BY DEF Fronted
<1>6. CASE kind # "idb" /\ Opening(d) = Opening(cs)
  <2>1. \A e \in Interfaces : e < pos + len => e < pos
    BY <1>2, <1>6
  <2> QED  BY <1>4, <1>5, <1>6, <2>1 DEF Fronted
<1>7. CASE Opening(d) = Append(Opening(cs), << pos, len >>)
  <2> DEFINE a == Opening(cs)
             r == << pos, len >>
             b == << r >>
  <2>0. r \in ByteRange /\ r[1] = pos /\ r[2] = len
    BY DEF ByteRange
  <2>1. a \in Seq(ByteRange) /\ r \in ByteRange /\ b \in Seq(ByteRange) /\ pos \in Bytes(r)
    <3>1. a \in Seq(ByteRange)
      BY ClosedFields
    <3>2. b \in Seq(ByteRange)
      BY <2>0
    <3>3. pos \in Bytes(r)
      <4> HIDE DEF r
      <4> QED  BY <2>0, BytesAre
    <3> QED  BY <2>0, <3>1, <3>2, <3>3
  <2>2. Opening(d) = a \o b
    BY <1>7, <2>1, AppendIsConcat
  <2>3. Holds(b, pos)
    BY <2>1 DEF Holds
  <2> HIDE DEF a, b, r
  <2>4. ASSUME NEW e \in Interfaces, from <= e, e < pos + len  PROVE Holds(a \o b, e)
    <3>1. CASE e < pos
      BY <1>5, <2>1, <2>4, <3>1, AheadConcat DEF a
    <3>2. CASE e = pos
      BY <2>1, <2>3, <3>2, AheadConcat
    <3> QED  BY <1>2, <2>4, <3>1, <3>2
  <2>5. ASSUME NEW c \in Interfaces, NEW e \in Interfaces, from <= c, c < e, e < pos + len
        PROVE  Ahead(a \o b, c, e)
    <3>1. CASE e < pos
      BY <1>5, <2>1, <2>5, <3>1, AheadConcat DEF a
    <3>2. CASE e = pos
      <4>1. Holds(a, c)
        BY <1>5, <2>5, <3>2 DEF a
      <4> QED  BY <2>1, <2>3, <3>2, <4>1, AheadConcat
    <3> QED  BY <1>2, <2>5, <3>1, <3>2
  <2> QED  BY <1>4, <1>5, <2>2, <2>4, <2>5 DEF Fronted
<1>8. CASE Opening(d) = << << from, (pos + len) - from >> >>
  <2> DEFINE r == << from, (pos + len) - from >>
             b == << r >>
  <2>1. DOMAIN b = {1} /\ b[1] = r /\ Opening(d) = b
    BY <1>8
  <2>2. Bytes(r) = from .. pos + len - 1
    BY DEF Bytes
  <2> HIDE DEF b, r
  <2>3. ASSUME NEW e \in Interfaces, from <= e, e < pos + len  PROVE Holds(b, e) /\ e \in Bytes(b[1])
    <3>1. e \in Bytes(r)
      BY <1>1, <2>2, <2>3
    <3> QED  BY <2>1, <3>1 DEF Holds
  <2>4. ASSUME NEW c \in Interfaces, NEW e \in Interfaces, from <= c, c < e, e < pos + len
        PROVE  Ahead(b, c, e)
    <3>1. c < pos + len /\ from <= e
      BY <1>1, <2>4
    <3>2. c \in Bytes(b[1]) /\ e \in Bytes(b[1]) /\ 1 \in DOMAIN b
      BY <2>1, <2>3, <2>4, <3>1
    <3> QED  BY <2>4, <3>2 DEF Ahead
  <2> QED  BY <1>4, <1>5, <2>1, <2>3, <2>4 DEF Fronted
<1> QED  BY <1>6, <1>7, <1>8

\* The section that starts with its header.
LEMMA FrontedFirst ==
  ASSUME capture \in Captures, EndToEnd, NEW d \in ClosedSections, NEW pos \in Nat, NEW len \in Nat,
         len > 0, Opening(d) = << << pos, len >> >>,
         \/ capture.format = "pcapng" /\ BlockIs(pos, len, "shb")
         \/ capture.format = "pcap"
  PROVE  Fronted(d, pos, pos + len)
<1>1. CASE capture.format = "pcap"
  <2>1. Interfaces = {} /\ SectionStarts = {} /\ capture.format # "pcapng"
    BY <1>1, OffsetsAre
  <2> QED  BY <2>1 DEF Fronted
<1>2. CASE capture.format = "pcapng" /\ BlockIs(pos, len, "shb")
  <2>1. /\ Interfaces \subseteq Nat /\ SectionStarts \subseteq Nat
        /\ pos \notin Interfaces /\ pos \in SectionStarts
        /\ \A o \in Interfaces : o > pos => o >= pos + len
        /\ \A o \in SectionStarts : o > pos => o >= pos + len
    BY <1>2, OffsetsAre DEF BlockIs
  <2>2. \A o \in Interfaces : ~ (pos <= o /\ o < pos + len)
    BY <2>1
  <2>3. \A o \in SectionStarts : pos <= o /\ o < pos + len <=> o = pos
    BY <2>1
  <2>4. {s \in SectionStarts : pos <= s /\ s < pos + len} = {pos}
    BY <2>1, <2>3
  <2>5. \A c, e \in Interfaces : pos <= c /\ c < e => pos <= e
    BY <2>1
  <2> QED  BY <1>2, <2>2, <2>4, <2>5 DEF Fronted
<1> QED  BY <1>1, <1>2

-----------------------------------------------------------------------------
(* A section grows by a block.                                             *)

\* The byte range of a block.
LEMMA BlockRange ==
  ASSUME NEW pos \in Nat, NEW len \in Nat
  PROVE  LET r == << pos, len >> IN r \in ByteRange /\ r[1] = pos /\ r[2] = len
BY DEF ByteRange

LEMMA SectionParts ==
  ASSUME NEW cs, NEW got, NEW from, NEW to, SectionIs(cs, got, from, to)
  PROVE  /\ cs \in ClosedSections /\ from \in Nat /\ to \in Nat /\ from < to
         /\ cs.prefix[1] = from /\ cs.prefix[2] > 0
         /\ Tile(Ranges(cs), from, to)
         /\ Judged(cs.scan.misplaced, got, Within(got, from, to))
         /\ EndToEnd => Fronted(cs, from, to)
BY DEF SectionIs

LEMMA TileMore ==
  ASSUME NEW cs \in ClosedSections, NEW d \in ClosedSections, NEW from \in Nat, NEW pos \in Nat,
         NEW len \in Nat, from < pos, Tile(Ranges(cs), from, pos),
         Rearranged(Ranges(cs) \o << << pos, len >> >>, Ranges(d))
  PROVE  Tile(Ranges(d), from, pos + len)
<1> DEFINE r == << pos, len >>
           a == Ranges(cs)
           b == Ranges(d)
<1>1. r \in ByteRange /\ r[1] = pos /\ r[2] = len
  BY BlockRange
<1>2. a \in Seq(ByteRange) /\ b \in Seq(ByteRange) /\ Rearranged(a \o << r >>, b)
  BY ClosedFields
<1>3. Tile(a, from, r[1]) /\ from <= r[1]
  BY <1>1
<1> HIDE DEF r, a, b
<1>4. Tile(a \o << r >>, from, r[1] + r[2])
  BY <1>1, <1>2, <1>3, TileAppend
<1>5. a \o << r >> \in Seq(ByteRange)
  BY <1>1, <1>2
<1>6. Tile(b, from, r[1] + r[2])
  BY <1>2, <1>4, <1>5, TileRearranged
<1> QED  BY <1>1, <1>6 DEF b

\* No packet.
LEMMA SectionGrows ==
  ASSUME capture \in Captures, NEW cs \in ClosedSections, NEW d \in ClosedSections,
         NEW got \in Seq(Entries), NEW from \in Nat, NEW pos \in Nat, NEW len \in Nat, len > 0,
         SectionIs(cs, got, from, pos), \A f \in DOMAIN got : got[f].at < pos,
         NEW kind, kind # "shb", BlockIs(pos, len, kind), d.scan = cs.scan,
         \/ /\ d.prefix = cs.prefix /\ d.suffix = cs.suffix
            /\ d.late_idbs = Append(cs.late_idbs, << pos, len >>)
         \/ /\ kind # "idb" /\ d.prefix = cs.prefix /\ d.late_idbs = cs.late_idbs
            /\ d.suffix = Append(cs.suffix, << pos, len >>)
         \/ /\ cs.late_idbs = << >> /\ cs.suffix = << >> /\ cs.scan.index = << >>
            /\ d.late_idbs = << >> /\ d.suffix = << >>
            /\ d.prefix = << from, (pos + len) - from >>
  PROVE  SectionIs(d, got, from, pos + len)
<1> DEFINE r == << pos, len >>
           p == << from, (pos + len) - from >>
<1>1. r \in ByteRange /\ r[1] = pos /\ r[2] = len
  BY BlockRange
<1>2. /\ from < pos /\ cs.prefix[1] = from /\ cs.prefix[2] > 0 /\ Tile(Ranges(cs), from, pos)
      /\ Judged(cs.scan.misplaced, got, Within(got, from, pos))
      /\ EndToEnd => Fronted(cs, from, pos)
  BY SectionParts
<1>3. Within(got, from, pos + len) = Within(got, from, pos)
  <2>1. \A f \in DOMAIN got : got[f].at \in Nat /\ got[f].at < pos
    <3>1. \A f \in DOMAIN got : got[f] \in Entries
      BY ElementOfSeq
    <3> QED  BY <3>1 DEF Entries
  <2>2. \A f \in DOMAIN got : got[f].at < pos + len
    BY <2>1
  <2> QED  BY <2>1, <2>2 DEF Within
<1>4. Judged(d.scan.misplaced, got, Within(got, from, pos + len))
  BY <1>2, <1>3
<1>5. pos + len \in Nat /\ from < pos + len
  BY <1>2
<1>6. CASE d.prefix = cs.prefix /\ d.suffix = cs.suffix /\ d.late_idbs = Append(cs.late_idbs, r)
  <2>1. Opening(d) = Append(Opening(cs), r) /\ Rearranged(Ranges(cs) \o << r >>, Ranges(d))
    <3> HIDE DEF r
    <3> QED  BY <1>1, <1>6, RangesAdd
  <2>2. Tile(Ranges(d), from, pos + len)
    BY <1>2, <2>1, TileMore
  <2>3. EndToEnd => Fronted(d, from, pos + len)
    BY <1>2, <2>1, FrontedMore
  <2> QED  BY <1>2, <1>4, <1>5, <1>6, <2>2, <2>3 DEF SectionIs
<1>7. CASE /\ kind # "idb" /\ d.prefix = cs.prefix /\ d.late_idbs = cs.late_idbs
           /\ d.suffix = Append(cs.suffix, r)
  <2>1. Opening(d) = Opening(cs) /\ Rearranged(Ranges(cs) \o << r >>, Ranges(d))
    <3> HIDE DEF r
    <3>1. Opening(d) = Opening(cs)
      BY <1>7 DEF Opening
    <3> QED  BY <1>1, <1>7, <3>1, RangesAdd
  <2>2. Tile(Ranges(d), from, pos + len)
    BY <1>2, <2>1, TileMore
  <2>3. EndToEnd => Fronted(d, from, pos + len)
    BY <1>2, <1>7, <2>1, FrontedMore
  <2> QED  BY <1>2, <1>4, <1>5, <1>7, <2>2, <2>3 DEF SectionIs
<1>8. CASE /\ cs.late_idbs = << >> /\ cs.suffix = << >> /\ cs.scan.index = << >>
           /\ d.late_idbs = << >> /\ d.suffix = << >> /\ d.prefix = p
  <2>1. p \in ByteRange /\ p[1] = from /\ p[2] = (pos + len) - from /\ p[2] > 0
    BY <1>2 DEF ByteRange
  <2>2. PacketRanges(<< >>) = << >>
    BY DEF PacketRanges
  <2>3. Ranges(d) = (Opening(d) \o PacketRanges(d.scan.index)) \o d.suffix
    BY ClosedFields
  <2>4. Opening(d) = << p >>
    <3> HIDE DEF p
    <3> QED  BY <1>8, <2>1 DEF Opening
  <2>5. Ranges(d) = << p >>
    <3> DEFINE q == << p >>
    <3>1. q \in Seq(ByteRange)
      BY <2>1
    <3>2. PacketRanges(d.scan.index) = << >>
      BY <1>8, <2>2
    <3> HIDE DEF p
    <3> HIDE DEF q
    <3>3. Ranges(d) = (q \o << >>) \o << >>
      BY <1>8, <2>3, <2>4, <3>2 DEF q
    <3>4. q \o << >> = q
      BY <3>1, ConcatEmptySeq
    <3> QED  BY <3>3, <3>4 DEF q
  <2>6. Tile(Ranges(d), from, pos + len)
    <3>1. p[1] + p[2] = pos + len
      BY <1>2
    <3> HIDE DEF p
    <3>2. Tile(<< p >>, p[1], p[1] + p[2])
      BY <2>1, TileOne
    <3>3. p[1] = from
      BY <2>1
    <3> QED  BY <2>5, <3>1, <3>2, <3>3
  <2>7. EndToEnd => Fronted(d, from, pos + len)
    BY <1>2, <2>4, FrontedMore
  <2> QED  BY <1>4, <1>5, <1>8, <2>1, <2>6, <2>7 DEF SectionIs
<1> QED  BY <1>6, <1>7, <1>8

LEMMA PushedRanges ==
  ASSUME NEW scan \in Scans, NEW stamp \in Nat, NEW range \in ByteRange, NEW f \in Nat
  PROVE  PacketRanges(Push(scan, stamp, range, f).index) = Append(PacketRanges(scan.index), range)
<1> DEFINE i == [stamp |-> stamp, range |-> range]
           more == Push(scan, stamp, range, f)
<1>1. more.index = Append(scan.index, i)
  BY DEF Push
<1>2. scan.index \in Seq(IndexEntry)
  BY DEF Scans, IndexEntry
<1>3. PacketRanges(Append(scan.index, i)) = Append(PacketRanges(scan.index), range)
  BY <1>2, IndexRanges
<1> HIDE DEF i, more
<1>4. PacketRanges(more.index) = Append(PacketRanges(scan.index), range)
  BY <1>1, <1>3
<1> QED  BY <1>4 DEF more

\* A packet.
LEMMA SectionPacket ==
  ASSUME capture \in Captures, NEW cs \in ClosedSections, NEW d \in ClosedSections,
         NEW got \in Seq(Entries), NEW from \in Nat, NEW pos \in Nat, NEW len \in Nat, len > 0,
         SectionIs(cs, got, from, pos), \A f \in DOMAIN got : got[f].at < pos,
         NEW kind, kind \notin {"shb", "idb"}, BlockIs(pos, len, kind),
         NEW e \in Entries, e.at = pos, NEW base,
         KnowsLatest(cs.scan, got, Within(got, from, pos)),
         Listed(cs.scan.index, got, Within(got, from, pos), base),
         base + Len(cs.scan.index) = Len(got),
         d.prefix = cs.prefix, d.late_idbs = cs.late_idbs, d.suffix = cs.suffix,
         d.scan = Push(cs.scan, e.stamp, << pos, len >>, Len(got) + 1)
  PROVE  LET all == Append(got, e) IN
         /\ SectionIs(d, all, from, pos + len)
         /\ KnowsLatest(d.scan, all, Within(all, from, pos + len))
         /\ Listed(d.scan.index, all, Within(all, from, pos + len), base)
         /\ base + Len(d.scan.index) = Len(all)
<1> DEFINE r == << pos, len >>
           all == Append(got, e)
           F == Within(got, from, pos)
           G == Within(all, from, pos + len)
<1>1. r \in ByteRange /\ r[1] = pos /\ r[2] = len
  BY BlockRange
<1>2. /\ from < pos /\ cs.prefix[1] = from /\ cs.prefix[2] > 0 /\ Tile(Ranges(cs), from, pos)
      /\ Judged(cs.scan.misplaced, got, F)
      /\ EndToEnd => Fronted(cs, from, pos)
  BY SectionParts
<1>3. pos \in Bytes(r)
  <2> HIDE DEF r
  <2> QED  BY <1>1, BytesAre
<1>4. G = F \cup {Len(got) + 1} /\ F \in SUBSET DOMAIN got
  <2>1. pos + len \in Nat /\ from <= pos /\ pos < pos + len
    BY <1>2
  <2>2. F \in SUBSET DOMAIN got
    BY DEF Within
  <2>3. got \in Seq(Entries) /\ e \in Entries /\ pos \in Nat /\ from \in Nat /\ e.at = pos
        /\ \A f \in DOMAIN got : got[f].at < pos
    OBVIOUS
  <2> DEFINE to == pos + len
  <2>4. from <= pos /\ pos < to /\ to \in Nat
    BY <2>1
  <2> HIDE DEF to
  <2>5. Within(Append(got, e), from, to) = Within(got, from, pos) \cup {Len(got) + 1}
    BY ONLY <2>3, <2>4, WithinMore
  <2> QED  BY <2>2, <2>5 DEF to
<1>5. e.stamp \in Nat /\ cs.scan \in Scans
  BY ClosedFields DEF Entries
<1>6. /\ Judged(d.scan.misplaced, all, G) /\ KnowsLatest(d.scan, all, G)
      /\ Listed(d.scan.index, all, G, base) /\ base + Len(d.scan.index) = Len(all)
  <2> DEFINE sc == cs.scan
             more == d.scan
  <2>1. /\ e.at \in Bytes(r) /\ sc \in Scans /\ F \in SUBSET DOMAIN got
        /\ Judged(sc.misplaced, got, F) /\ KnowsLatest(sc, got, F)
        /\ Listed(sc.index, got, F, base) /\ base + Len(sc.index) = Len(got)
    BY <1>2, <1>3, <1>4, <1>5
  <2>2. more = Push(sc, e.stamp, r, Len(got) + 1) /\ G = F \cup {Len(got) + 1}
    BY <1>4
  <2> HIDE DEF F, r, sc, more, G
  <2>3. LET n == Len(got) + 1
            p == Push(sc, e.stamp, r, n)
        IN  /\ Judged(p.misplaced, all, F \cup {n}) /\ KnowsLatest(p, all, F \cup {n})
            /\ Listed(p.index, all, F \cup {n}, base) /\ base + Len(p.index) = Len(all)
    BY <1>1, <2>1, FramesMore
  <2>4. /\ Judged(more.misplaced, all, G) /\ KnowsLatest(more, all, G)
        /\ Listed(more.index, all, G, base) /\ base + Len(more.index) = Len(all)
    BY <2>2, <2>3
  <2> QED  BY <2>4 DEF more
<1>7. Opening(d) = Opening(cs) /\ Rearranged(Ranges(cs) \o << r >>, Ranges(d))
  <2>1. PacketRanges(d.scan.index) = Append(PacketRanges(cs.scan.index), r)
    <3> DEFINE sc == cs.scan
               more == d.scan
               n == Len(got) + 1
               st == e.stamp
    <3>1. n \in Nat /\ st \in Nat /\ sc \in Scans /\ more = Push(sc, st, r, n)
      BY <1>5
    <3> HIDE DEF r, sc, more, n, st
    <3>2. PacketRanges(Push(sc, st, r, n).index) = Append(PacketRanges(sc.index), r)
      BY ONLY <1>1, <3>1, PushedRanges
    <3>3. PacketRanges(more.index) = Append(PacketRanges(sc.index), r)
      BY <3>1, <3>2
    <3> QED  BY <3>3 DEF more, sc
  <2>2. Opening(d) = Opening(cs)
    BY DEF Opening
  <2> HIDE DEF r
  <2> QED  BY <1>1, <2>1, <2>2, RangesAdd
<1>8. Tile(Ranges(d), from, pos + len)
  BY <1>2, <1>7, TileMore
<1>9. EndToEnd => Fronted(d, from, pos + len)
  BY <1>2, <1>7, FrontedMore
<1>10. pos + len \in Nat /\ from < pos + len
  BY <1>2
<1> QED  BY <1>2, <1>6, <1>8, <1>9, <1>10 DEF SectionIs

\* The first block of a section.
LEMMA SectionFirst ==
  ASSUME capture \in Captures, NEW d, NEW got \in Seq(Entries), NEW pos \in Nat,
         NEW len \in Nat, len > 0, \A f \in DOMAIN got : got[f].at \notin pos .. pos + len - 1,
         \/ capture.format = "pcapng" /\ BlockIs(pos, len, "shb")
         \/ capture.format = "pcap",
         d = [prefix |-> << pos, len >>, late_idbs |-> << >>, scan |-> FreshScan, suffix |-> << >>]
  PROVE  LET F == Within(got, pos, pos + len) IN
         /\ SectionIs(d, got, pos, pos + len)
         /\ KnowsLatest(FreshScan, got, F)
         /\ Listed(FreshScan.index, got, F, Len(got))
         /\ Len(got) + Len(FreshScan.index) = Len(got)
<1> DEFINE r == << pos, len >>
           F == Within(got, pos, pos + len)
<1>1. r \in ByteRange /\ r[1] = pos /\ r[2] = len
  BY BlockRange
<1>2. F = {}
  <2>1. \A f \in DOMAIN got : got[f].at \in Nat
    <3>1. \A f \in DOMAIN got : got[f] \in Entries
      BY ElementOfSeq
    <3> QED  BY <3>1 DEF Entries
  <2> QED  BY <2>1 DEF Within
<1>3. FreshScan \in Scans
  BY DEF FreshScan, Scans
<1>4. d \in ClosedSections
  <2> HIDE DEF r
  <2> QED  BY <1>1, <1>3 DEF ClosedSections, r
<1>5. Opening(d) = << r >>
  <2>1. d.prefix = r /\ d.late_idbs = << >>
    OBVIOUS
  <2> HIDE DEF r
  <2> QED  BY <1>1, <2>1 DEF Opening
<1>6. Ranges(d) = << r >>
  <2> DEFINE q == << r >>
  <2>1. q \in Seq(ByteRange)
    BY <1>1
  <2>2. PacketRanges(d.scan.index) = << >> /\ d.suffix = << >>
    BY DEF PacketRanges, FreshScan
  <2>3. Ranges(d) = (Opening(d) \o PacketRanges(d.scan.index)) \o d.suffix
    BY <1>4, ClosedFields
  <2>4. Opening(d) = q
    BY <1>5
  <2> HIDE DEF r
  <2> HIDE DEF q
  <2>5. Ranges(d) = (q \o << >>) \o << >>
    BY <2>2, <2>3, <2>4
  <2>6. q \o << >> = q
    BY <2>1, ConcatEmptySeq
  <2> QED  BY <2>5, <2>6 DEF q
<1>7. Tile(Ranges(d), pos, pos + len)
  <2> HIDE DEF r
  <2>1. Tile(<< r >>, r[1], r[1] + r[2])
    BY <1>1, TileOne
  <2> QED  BY <1>1, <1>6, <2>1
<1>8. EndToEnd => Fronted(d, pos, pos + len)
  BY <1>4, <1>5, FrontedFirst
<1>9. Judged(d.scan.misplaced, got, F)
  <2>1. d.scan.misplaced = << >> /\ ToSet(<< >>) = {}
    BY DEF FreshScan, ToSet
  <2> HIDE DEF F
  <2>2. ToSet(d.scan.misplaced) = {}
    BY <2>1
  <2> QED  BY <1>2, <2>2 DEF Judged
<1>10. KnowsLatest(FreshScan, got, F)
  BY <1>2 DEF KnowsLatest, FreshScan
<1>11. Len(FreshScan.index) = 0 /\ Len(got) \in Nat
  BY DEF FreshScan
<1>12. Listed(FreshScan.index, got, F, Len(got))
  <2>1. Len(got) + 1 .. Len(got) + 0 = {} /\ 1 .. 0 = {} /\ Len(got) + 0 <= Len(got)
    BY <1>11
  <2> QED  BY <1>2, <1>11, <2>1 DEF Listed
<1>13. pos + len \in Nat /\ pos < pos + len
  OBVIOUS
<1>14. d.prefix[1] = pos /\ d.prefix[2] > 0
  BY <1>1
<1> QED  BY <1>4, <1>7, <1>8, <1>9, <1>10, <1>11, <1>12, <1>13, <1>14 DEF SectionIs

\* A packet behind a section.
LEMMA SectionPast ==
  ASSUME NEW cs, NEW got \in Seq(Entries), NEW from, NEW to, SectionIs(cs, got, from, to),
         NEW e \in Entries, to <= e.at, \A f \in DOMAIN got : got[f].at < e.at
  PROVE  /\ SectionIs(cs, Append(got, e), from, to)
         /\ \A base : Listed(cs.scan.index, got, Within(got, from, to), base)
              => Listed(cs.scan.index, Append(got, e), Within(Append(got, e), from, to), base)
<1>1. /\ cs \in ClosedSections /\ from \in Nat /\ to \in Nat /\ from < to
      /\ cs.prefix[1] = from /\ cs.prefix[2] > 0
      /\ Tile(Ranges(cs), from, to)
      /\ Judged(cs.scan.misplaced, got, Within(got, from, to))
      /\ EndToEnd => Fronted(cs, from, to)
  BY SectionParts
<1>2. e.at \in Nat
  BY DEF Entries
<1>3. Within(Append(got, e), from, to) = Within(got, from, to)
  <2> DEFINE pos == e.at
  <2>1. pos \in Nat /\ e.at = pos /\ \A f \in DOMAIN got : got[f].at < pos
    BY <1>2
  <2>2. to <= pos
    OBVIOUS
  <2> HIDE DEF pos
  <2> QED  BY <1>1, <2>1, <2>2, WithinMore
<1>4. Within(got, from, to) \in SUBSET DOMAIN got
  BY DEF Within
<1>5. cs.scan.index \in Seq(IndexEntry)
  BY <1>1, ClosedFields
<1>6. Judged(cs.scan.misplaced, Append(got, e), Within(got, from, to))
  BY <1>1, <1>4, FramesStay
<1>7. \A base : Listed(cs.scan.index, got, Within(got, from, to), base)
        => Listed(cs.scan.index, Append(got, e), Within(got, from, to), base)
  BY <1>4, <1>5, FramesStay
<1>8. SectionIs(cs, Append(got, e), from, to)
  BY <1>1, <1>3, <1>6 DEF SectionIs
<1> QED  BY <1>3, <1>7, <1>8

-----------------------------------------------------------------------------
(* A read that succeeds                                                    *)

\* What a reader does with a block that it finds and accepts.
Takes(r, q) ==
  LET kind == Here(r).kind  len == Here(r).len IN
  /\ len \in Nat /\ len >= 12 /\ q.pos = r.pos + len /\ q.pos <= capture.size
  /\ kind \in Kinds /\ (capture.format = "pcap" <=> kind = "rec")
  /\ capture.format = "pcapng" /\ kind # "shb" => r.section
  /\ kind = "shb" => q.section /\ q.interfaces = r.interfaces /\ q.got = r.got
  /\ kind = "idb" => q.interfaces = Append(r.interfaces, Here(r).unit) /\ q.got = r.got
  /\ kind = "raw" => q.interfaces = r.interfaces /\ q.got = r.got
  /\ kind # "shb" => q.section = r.section
  /\ kind \in {"rec", "spb", "epb"} =>
       /\ q.interfaces = r.interfaces
       /\ \E stamp \in Nat :
            q.got = Append(r.got, [at |-> r.pos, stamp |-> stamp]) /\ Timed(r, stamp)

LEMMA KindFits ==
  ASSUME capture \in Captures, NEW r
  PROVE  Here(r).kind \in Kinds /\ (capture.format = "pcap" <=> Here(r).kind = "rec")
<1>1. IsCapture(capture)
  BY CaptureReadersAssumption
<1>2. Here(r) \in {capture.at[o] : o \in DOMAIN capture.at} \cup {capture.other}
  BY DEF Here
<1>3. Here(r) \in Block /\ (capture.format = "pcap" <=> Here(r).kind = "rec")
  BY <1>1, <1>2 DEF IsCapture
<1> QED  BY <1>3 DEF Block

LEMMA TakenIs ==
  ASSUME capture \in Captures, NEW r \in Readers, r.pos <= capture.size, r.status = "reading",
         NEW q, q = Slicing(r), r.pos \notin q.failed, q.status # "panicked"
  PROVE  /\ q \in Readers /\ q.status \in {"reading", "ended"}
         /\ q.status = "ended" => r.pos = capture.size /\ q.got = r.got
         /\ q.status = "reading" => Takes(r, q)
<1> DEFINE kind == Here(r).kind
           len == Here(r).len
<1>1. /\ len \in Nat /\ capture.size \in Nat /\ r.pos \in Nat
      /\ kind \in Kinds /\ (capture.format = "pcap" <=> kind = "rec")
      /\ capture.format \in {"pcap", "pcapng"}
      /\ capture.format = "pcap" => len >= 16
  BY HereIsBlock, BlockFields, KindFits DEF Readers
<1>2. q \in Readers
  BY SliceMoves
<1>3. q # Failing(r, r.pos) /\ q # Failing(r, Past(r)) /\ q # Panicking(r)
  <2>1. ASSUME NEW to \in Nat, q = Failing(r, to)  PROVE FALSE
    <3>1. q.failed = r.failed \cup {r.pos}
      BY <2>1, FailingFields
    <3> QED  BY <3>1
  <2>2. Past(r) \in Nat
    BY SkippingFields
  <2>3. q # Panicking(r)
    BY EndingFields
  <2> QED  BY <1>1, <2>1, <2>2, <2>3
<1>4. CASE q = Ending(r) /\ Left(r) = 0
  <2>1. r.pos = capture.size
    BY <1>1, <1>4 DEF Left
  <2>2. q.got = r.got /\ q.status = "ended"
    BY <1>4, EndingFields
  <2> QED  BY <1>2, <2>1, <2>2
<1>5. ASSUME q.pos = Past(r), ~ CutOff(r), len >= 12
      PROVE  q.pos = r.pos + len /\ q.pos <= capture.size
  <2>1. Past(r) = r.pos + len
    BY DEF Past
  <2>2. ~ (capture.size - r.pos < len)
    BY <1>5 DEF CutOff, Left
  <2> HIDE DEF len
  <2> QED  BY <1>1, <1>5, <2>1, <2>2
<1>6. ASSUME ~ CutOff(r), len >= 12, NEW stamp \in Nat, q = Delivering(r, stamp), Timed(r, stamp),
             kind \in {"rec", "spb", "epb"}, capture.format = "pcapng" => r.section
      PROVE  q.status = "reading" /\ Takes(r, q)
  <2>1. /\ q.pos = Past(r) /\ q.section = r.section /\ q.interfaces = r.interfaces
        /\ q.got = Append(r.got, [at |-> r.pos, stamp |-> stamp]) /\ q.status = r.status
    BY <1>6, DeliveringFields
  <2>2. q.pos = r.pos + len /\ q.pos <= capture.size
    BY <1>5, <1>6, <2>1
  <2> QED  BY <1>1, <1>6, <2>1, <2>2 DEF Takes
<1>7. CASE capture.format = "pcap" /\ ~ CutOff(r) /\ \E stamp \in Nat : q = Delivering(r, stamp)
  <2>1. PICK stamp \in Nat : q = Delivering(r, stamp)
    BY <1>7
  <2>2. len >= 12 /\ kind = "rec" /\ Timed(r, stamp)
    BY <1>1, <1>7 DEF Timed
  <2>3. q.status = "reading" /\ Takes(r, q)
    BY <1>1, <1>6, <1>7, <2>1, <2>2
  <2> QED  BY <1>2, <2>3
<1>8. CASE capture.format = "pcapng" /\ q = Parsed(r) /\ ~ NoSection(r) /\ len >= 12 /\ ~ CutOff(r)
  <2>1. kind # "shb" => r.section
    BY <1>8 DEF NoSection
  <2>2. ASSUME q = EnteringSection(r), kind = "shb"
        PROVE  q.status = "reading" /\ Takes(r, q)
    <3>1. /\ q.pos = Past(r) /\ q.section = TRUE /\ q.interfaces = r.interfaces
          /\ q.got = r.got /\ q.status = r.status
      BY <2>2, SectionFields
    <3>2. q.pos = r.pos + len /\ q.pos <= capture.size
      BY <1>5, <1>8, <3>1
    <3> QED  BY <1>1, <1>8, <2>2, <3>1, <3>2 DEF Takes
  <2>3. ASSUME q = Describing(r), kind = "idb"
        PROVE  q.status = "reading" /\ Takes(r, q)
    <3>1. /\ q.pos = Past(r) /\ q.section = r.section
          /\ q.interfaces = Append(r.interfaces, Here(r).unit)
          /\ q.got = r.got /\ q.status = r.status
      BY <2>3, DescribingFields
    <3>2. q.pos = r.pos + len /\ q.pos <= capture.size
      BY <1>5, <1>8, <3>1
    <3> QED  BY <1>1, <1>8, <2>1, <2>3, <3>1, <3>2 DEF Takes
  <2>4. ASSUME NEW stamp \in Nat, q = Delivering(r, stamp), kind \in {"spb", "epb"}, Timed(r, stamp)
        PROVE  q.status = "reading" /\ Takes(r, q)
    BY <1>6, <1>8, <2>1, <2>4
  <2>5. ASSUME q = Skipping(r), kind \in {"raw", "rec"}
        PROVE  q.status = "reading" /\ Takes(r, q)
    <3>1. kind = "raw"
      BY <1>1, <1>8, <2>5
    <3>2. /\ q.pos = Past(r) /\ q.section = r.section /\ q.interfaces = r.interfaces
          /\ q.got = r.got /\ q.status = r.status
      BY <2>5, SkippingFields
    <3>3. q.pos = r.pos + len /\ q.pos <= capture.size
      BY <1>5, <1>8, <3>2
    <3> QED  BY <1>1, <1>8, <2>1, <3>1, <3>2, <3>3 DEF Takes
  <2>6. q.status = "reading" /\ Takes(r, q)
    <3> HIDE DEF kind
    <3> QED  BY <1>3, <1>8, <2>2, <2>3, <2>4, <2>5, ParsedCases DEF kind
  <2> QED  BY <1>2, <2>6
<1> QED  BY <1>3, <1>4, <1>7, <1>8, SliceCases

-----------------------------------------------------------------------------
(* The section being scanned                                               *)

LEMMA ScanFields ==
  ASSUME NEW sec \in SectionScans
  PROVE  /\ sec.start \in Nat /\ sec.prefix_end \in Nat \cup {None} /\ None \notin Nat
         /\ sec.late_idbs \in Seq(ByteRange) /\ sec.suffix \in Seq(ByteRange) /\ sec.scan \in Scans
         /\ sec # None
BY ReorderAssumption DEF SectionScans

LEMMA ClosedIs ==
  ASSUME NEW sec, NEW end
  PROVE  LET c == Closed(sec, end) IN
         /\ c.prefix = << sec.start, (IF sec.prefix_end = None THEN end ELSE sec.prefix_end) - sec.start >>
         /\ c.late_idbs = sec.late_idbs /\ c.scan = sec.scan /\ c.suffix = sec.suffix
BY DEF Closed, PrefixUntil

LEMMA ClosedIn ==
  ASSUME NEW sec \in SectionScans, NEW end, Closed(sec, end).prefix \in ByteRange
  PROVE  Closed(sec, end) \in ClosedSections
<1>1. PrefixUntil(sec, end) \in ByteRange
  BY DEF Closed
<1> QED  BY <1>1, ScanFields DEF Closed, ClosedSections

LEMMA ScanGrows ==
  ASSUME capture \in Captures, NEW sec, NEW more, NEW got \in Seq(Entries), NEW pos \in Nat,
         NEW len \in Nat, len > 0, NEW base, ScanIs(sec, got, pos, base),
         \A f \in DOMAIN got : got[f].at < pos, NEW kind, kind # "shb", BlockIs(pos, len, kind),
         \/ sec.prefix_end = None /\ more = sec
         \/ /\ sec.prefix_end # None
            /\ more = [sec EXCEPT !.late_idbs = Append(@, << pos, len >>)]
         \/ /\ sec.prefix_end # None /\ kind # "idb"
            /\ more = [sec EXCEPT !.suffix = Append(@, << pos, len >>)]
  PROVE  ScanIs(more, got, pos + len, base)
<1> DEFINE r == << pos, len >>
           cs == Closed(sec, pos)
           d == Closed(more, pos + len)
           from == sec.start
<1>1. /\ sec \in SectionScans /\ SectionIs(cs, got, from, pos)
      /\ KnowsLatest(sec.scan, got, Within(got, from, pos))
      /\ Listed(sec.scan.index, got, Within(got, from, pos), base)
      /\ base + Len(sec.scan.index) = Len(got)
      /\ sec.prefix_end = None =>
           sec.late_idbs = << >> /\ sec.suffix = << >> /\ sec.scan.index = << >>
  BY DEF ScanIs
<1>2. /\ cs \in ClosedSections /\ from \in Nat /\ from < pos
      /\ cs.prefix = << from, (IF sec.prefix_end = None THEN pos ELSE sec.prefix_end) - from >>
      /\ cs.late_idbs = sec.late_idbs /\ cs.scan = sec.scan /\ cs.suffix = sec.suffix
  BY <1>1, SectionParts, ClosedIs
<1>3. r \in ByteRange
  BY BlockRange
<1>4. /\ more \in SectionScans /\ more.start = from /\ more.scan = sec.scan
      /\ more.prefix_end = sec.prefix_end
      /\ more.prefix_end = None => more = sec
  <2>1. /\ Append(sec.late_idbs, r) \in Seq(ByteRange) /\ Append(sec.suffix, r) \in Seq(ByteRange)
    BY <1>1, <1>3, ScanFields, AppendProperties
  <2> HIDE DEF r
  <2>2. \/ sec.prefix_end = None /\ more = sec
        \/ sec.prefix_end # None /\ more = [sec EXCEPT !.late_idbs = Append(@, r)]
        \/ sec.prefix_end # None /\ more = [sec EXCEPT !.suffix = Append(@, r)]
    BY DEF r
  <2> QED  BY ONLY <1>1, <2>1, <2>2 DEF SectionScans
<1>5. /\ d.prefix = << from, (IF sec.prefix_end = None THEN pos + len ELSE sec.prefix_end) - from >>
      /\ d.late_idbs = more.late_idbs /\ d.scan = sec.scan /\ d.suffix = more.suffix
  BY <1>4, ClosedIs
<1>6. Within(got, from, pos + len) = Within(got, from, pos)
  <2>1. \A f \in DOMAIN got : got[f].at \in Nat /\ got[f].at < pos
    <3>1. \A f \in DOMAIN got : got[f] \in Entries
      BY ElementOfSeq
    <3> QED  BY <3>1 DEF Entries
  <2>2. \A f \in DOMAIN got : got[f].at < pos + len
    BY <2>1
  <2> QED  BY <2>1, <2>2 DEF Within
<1>7. CASE sec.prefix_end = None
  <2>1. more = sec
    BY <1>7
  <2>2. d.prefix = << from, (pos + len) - from >> /\ d.late_idbs = << >> /\ d.suffix = << >>
    BY <1>1, <1>5, <1>7, <2>1
  <2>3. d.prefix \in ByteRange
    <3>1. (pos + len) - from \in Nat /\ from \in Nat
      BY <1>2
    <3>2. d.prefix = << from, (pos + len) - from >>
      BY <2>2
    <3> HIDE DEF d, from
    <3> QED  BY ONLY <3>1, <3>2 DEF ByteRange
  <2>4. d \in ClosedSections
    BY <1>4, <2>3, ClosedIn
  <2>5. cs.late_idbs = << >> /\ cs.suffix = << >> /\ cs.scan.index = << >> /\ d.scan = cs.scan
    BY <1>1, <1>2, <1>5, <1>7
  <2> HIDE DEF cs, d, from
  <2>6. SectionIs(d, got, from, pos + len)
    BY <1>1, <1>2, <2>2, <2>4, <2>5, SectionGrows
  <2> QED  BY <1>1, <1>4, <1>6, <2>1, <2>6 DEF ScanIs, d, from
<1>8. CASE sec.prefix_end # None
  <2>1. d.prefix = cs.prefix /\ d.scan = cs.scan
    BY <1>2, <1>5, <1>8
  <2>2. d \in ClosedSections
    <3>1. d.prefix \in ByteRange
      BY <1>2, <2>1, ClosedFields
    <3> QED  BY <1>4, <3>1, ClosedIn
  <2>3. \/ d.late_idbs = Append(cs.late_idbs, r) /\ d.suffix = cs.suffix
        \/ kind # "idb" /\ d.suffix = Append(cs.suffix, r) /\ d.late_idbs = cs.late_idbs
    <3> HIDE DEF r, cs, d
    <3>1. \/ more = [sec EXCEPT !.late_idbs = Append(@, r)]
          \/ kind # "idb" /\ more = [sec EXCEPT !.suffix = Append(@, r)]
      BY <1>8 DEF r
    <3>2. sec \in SectionScans
      BY <1>1
    <3>3. \/ more.late_idbs = Append(sec.late_idbs, r) /\ more.suffix = sec.suffix
          \/ kind # "idb" /\ more.suffix = Append(sec.suffix, r) /\ more.late_idbs = sec.late_idbs
      BY ONLY <3>1, <3>2 DEF SectionScans
    <3>4. /\ cs.late_idbs = sec.late_idbs /\ cs.suffix = sec.suffix
          /\ d.late_idbs = more.late_idbs /\ d.suffix = more.suffix
      BY <1>2, <1>5
    <3> QED  BY ONLY <3>3, <3>4
  <2> HIDE DEF cs, d, from
  <2>4. SectionIs(d, got, from, pos + len)
    BY <1>1, <1>2, <2>1, <2>2, <2>3, SectionGrows
  <2> QED  BY <1>1, <1>4, <1>6, <1>8, <2>4 DEF ScanIs, d, from
<1> QED  BY <1>7, <1>8

LEMMA ScanPacket ==
  ASSUME capture \in Captures, NEW sec, NEW more, NEW got \in Seq(Entries), NEW pos \in Nat,
         NEW len \in Nat, len > 0, NEW base, ScanIs(sec, got, pos, base),
         \A f \in DOMAIN got : got[f].at < pos,
         NEW kind, kind \notin {"shb", "idb"}, BlockIs(pos, len, kind),
         NEW e \in Entries, e.at = pos,
         more = [sec EXCEPT !.prefix_end = IF @ = None THEN pos ELSE @,
                            !.scan = Push(@, e.stamp, << pos, len >>, Len(got) + 1)]
  PROVE  ScanIs(more, Append(got, e), pos + len, base)
<1> DEFINE r == << pos, len >>
           n == Len(got) + 1
           st == e.stamp
           sc == sec.scan
           p == Push(sc, st, r, n)
           cs == Closed(sec, pos)
           d == Closed(more, pos + len)
           from == sec.start
           all == Append(got, e)
<1>1. /\ sec \in SectionScans /\ SectionIs(cs, got, from, pos)
      /\ KnowsLatest(sec.scan, got, Within(got, from, pos))
      /\ Listed(sec.scan.index, got, Within(got, from, pos), base)
      /\ base + Len(sec.scan.index) = Len(got)
  BY DEF ScanIs
<1>2. /\ cs \in ClosedSections /\ from \in Nat /\ from < pos
      /\ cs.prefix = << from, (IF sec.prefix_end = None THEN pos ELSE sec.prefix_end) - from >>
      /\ cs.late_idbs = sec.late_idbs /\ cs.scan = sec.scan /\ cs.suffix = sec.suffix
  BY <1>1, SectionParts, ClosedIs
<1>3. r \in ByteRange /\ n \in Nat /\ st \in Nat /\ sc \in Scans
  BY <1>1, BlockRange, ScanFields DEF Entries
<1>4. p \in Scans
  <2> HIDE DEF r, n, st, sc
  <2> QED  BY <1>3, PushFields
<1>5. /\ more \in SectionScans /\ more.start = from /\ more.scan = p
      /\ more.prefix_end = (IF sec.prefix_end = None THEN pos ELSE sec.prefix_end)
      /\ more.prefix_end \in Nat /\ more.prefix_end # None
      /\ more.late_idbs = sec.late_idbs /\ more.suffix = sec.suffix
  <2> DEFINE end == IF sec.prefix_end = None THEN pos ELSE sec.prefix_end
  <2>1. end \in Nat /\ end # None
    BY <1>1, ScanFields
  <2>2. more = [sec EXCEPT !.prefix_end = end, !.scan = p]
    BY <1>1 DEF SectionScans
  <2> HIDE DEF end, p
  <2> QED  BY <1>1, <1>4, <2>1, <2>2 DEF SectionScans, end
<1>6. /\ d.prefix = cs.prefix /\ d.late_idbs = cs.late_idbs /\ d.suffix = cs.suffix /\ d.scan = p
  <2>1. /\ d.prefix = << more.start, more.prefix_end - more.start >>
        /\ d.late_idbs = more.late_idbs /\ d.scan = more.scan /\ d.suffix = more.suffix
    <3>1. more.prefix_end # None
      BY <1>5
    <3> DEFINE end == pos + len
    <3> HIDE DEF end
    <3>2. LET c == Closed(more, end) IN
          /\ c.prefix = << more.start, (IF more.prefix_end = None THEN end ELSE more.prefix_end) - more.start >>
          /\ c.late_idbs = more.late_idbs /\ c.scan = more.scan /\ c.suffix = more.suffix
      BY ONLY ClosedIs
    <3> QED  BY ONLY <3>1, <3>2 DEF end, d
  <2> QED  BY <1>2, <1>5, <2>1
<1>7. d \in ClosedSections
  <2>1. d.prefix \in ByteRange
    BY <1>2, <1>6, ClosedFields
  <2> QED  BY <1>5, <2>1, ClosedIn
<1>8. d.scan = Push(cs.scan, e.stamp, << pos, len >>, Len(got) + 1)
  BY <1>2, <1>6
<1>9. /\ KnowsLatest(cs.scan, got, Within(got, from, pos))
      /\ Listed(cs.scan.index, got, Within(got, from, pos), base)
      /\ base + Len(cs.scan.index) = Len(got)
  BY <1>1, <1>2
<1>10. /\ SectionIs(d, all, from, pos + len)
       /\ KnowsLatest(d.scan, all, Within(all, from, pos + len))
       /\ Listed(d.scan.index, all, Within(all, from, pos + len), base)
       /\ base + Len(d.scan.index) = Len(all)
  <2>1. d.prefix = cs.prefix /\ d.late_idbs = cs.late_idbs /\ d.suffix = cs.suffix
    BY <1>6
  <2>2. SectionIs(cs, got, from, pos) /\ cs \in ClosedSections /\ from \in Nat
    BY <1>1, <1>2
  <2> HIDE DEF cs, d, from
  <2> QED  BY <1>7, <1>8, <1>9, <2>1, <2>2, SectionPacket
<1>11. more.scan = d.scan
  BY <1>5, <1>6
<1> HIDE DEF all, d, from
<1>12. ScanIs(more, all, pos + len, base)
  BY <1>5, <1>10, <1>11 DEF ScanIs, d
<1> QED  BY <1>12 DEF all

LEMMA ScanStarts ==
  ASSUME capture \in Captures, NEW got \in Seq(Entries), NEW pos \in Nat,
         NEW len \in Nat, len > 0, \A f \in DOMAIN got : got[f].at \notin pos .. pos + len - 1,
         \/ capture.format = "pcapng" /\ BlockIs(pos, len, "shb")
         \/ capture.format = "pcap"
  PROVE  ScanIs(FreshSection(pos), got, pos + len, Len(got))
<1> DEFINE sec == FreshSection(pos)
           d == Closed(sec, pos + len)
<1>1. /\ sec.start = pos /\ sec.scan = FreshScan /\ sec.late_idbs = << >> /\ sec.suffix = << >>
      /\ sec.prefix_end = None
  BY DEF FreshSection
<1>2. sec \in SectionScans
  BY DEF FreshSection, FreshScan, Scans, SectionScans
<1>3. PrefixUntil(sec, pos + len) = << pos, len >>
  <2>1. (pos + len) - pos = len
    OBVIOUS
  <2> QED  BY <1>1, <2>1 DEF PrefixUntil
<1>4. d = [prefix |-> << pos, len >>, late_idbs |-> << >>, scan |-> FreshScan, suffix |-> << >>]
  BY <1>1, <1>3 DEF Closed
<1>5. FreshScan.index = << >>
  BY DEF FreshScan
<1> HIDE DEF sec
<1>6. LET F == Within(got, pos, pos + len) IN
      /\ SectionIs(d, got, pos, pos + len)
      /\ KnowsLatest(FreshScan, got, F)
      /\ Listed(FreshScan.index, got, F, Len(got))
      /\ Len(got) + Len(FreshScan.index) = Len(got)
  <2> HIDE DEF d
  <2> QED  BY <1>4, SectionFirst
<1>7. ScanIs(sec, got, pos + len, Len(got))
  BY <1>1, <1>2, <1>5, <1>6 DEF ScanIs
<1> QED  BY <1>7 DEF sec

-----------------------------------------------------------------------------
(* A sound file: how interfaces are numbered and packets timed.            *)

IdbsBefore(pos) == {d \in Interfaces : d < pos}

\* The interfaces a reader has are those described before its position.
Numbered(interfaces, pos) ==
  /\ Len(interfaces) = Cardinality(IdbsBefore(pos))
  /\ \A n \in 1 .. Len(interfaces) : \E d \in IdbsBefore(pos) :
       Cardinality(IdbsBefore(d)) = n - 1 /\ interfaces[n] = capture.at[d].unit

\* The packet is where a packet was written, and has its time.
SoundEntry(e) ==
  /\ e.at \in DOMAIN capture.at /\ e.at \notin SectionStarts
  /\ capture.at[e.at].kind = "epb" =>
       \E d \in IdbsBefore(e.at) :
         /\ e.stamp = capture.at[e.at].ticks * capture.at[d].unit
         /\ Cardinality(IdbsBefore(d)) = capture.at[e.at].iface

FramesSound(got) == EndToEnd => \A f \in DOMAIN got : SoundEntry(got[f])

ReaderSound(r) ==
  /\ FramesSound(r.got)
  /\ \A f \in DOMAIN r.got : r.got[f].at < r.pos
  /\ EndToEnd => r.pos \in (DOMAIN capture.at) \cup {capture.size} /\ Numbered(r.interfaces, r.pos)

LEMMA IdbsFinite ==
  ASSUME capture \in Captures, NEW pos \in Nat
  PROVE  IsFiniteSet(IdbsBefore(pos)) /\ Cardinality(IdbsBefore(pos)) \in Nat
<1>1. IdbsBefore(pos) \subseteq 0 .. pos
  BY OffsetsAre DEF IdbsBefore
<1>2. IsFiniteSet(0 .. pos)
  BY FS_Interval
<1>3. IsFiniteSet(IdbsBefore(pos))
  BY <1>1, <1>2, FS_Subset
<1> QED  BY <1>3, FS_CardinalityType

\* In a sound file, a reader that accepts a block has found one that was written there.
LEMMA TakenBlock ==
  ASSUME capture \in Captures, NEW r \in Readers, NEW q \in Readers, ReaderSound(r), Takes(r, q)
  PROVE  /\ BlockIs(r.pos, Here(r).len, Here(r).kind)
         /\ EndToEnd => /\ r.pos \in DOMAIN capture.at /\ Here(r) = capture.at[r.pos]
                        /\ q.pos \in (DOMAIN capture.at) \cup {capture.size}
<1> DEFINE len == Here(r).len
<1>1. /\ len \in Nat /\ len >= 12 /\ q.pos = r.pos + len /\ q.pos <= capture.size
  BY DEF Takes
<1>2. capture.size \in Nat /\ r.pos \in Nat /\ DOMAIN capture.at \subseteq Nat
  BY HereIsBlock DEF Readers
<1>3. r.pos < capture.size
  <2> HIDE DEF len
  <2> QED  BY <1>1, <1>2
<1>4. ASSUME EndToEnd
      PROVE  /\ r.pos \in DOMAIN capture.at /\ Here(r) = capture.at[r.pos]
             /\ q.pos \in (DOMAIN capture.at) \cup {capture.size}
             /\ \A o \in DOMAIN capture.at : o > r.pos => o >= r.pos + len
  <2>1. r.pos \in DOMAIN capture.at
    BY <1>2, <1>3, <1>4 DEF ReaderSound
  <2>2. Here(r) = capture.at[r.pos]
    BY <2>1 DEF Here
  <2>3. LET end == r.pos + capture.at[r.pos].len IN
        /\ end \in (DOMAIN capture.at) \cup {capture.size}
        /\ \A i \in DOMAIN capture.at : r.pos < i => end <= i
    BY <1>4, <2>1 DEF EndToEnd
  <2>4. /\ r.pos + len \in (DOMAIN capture.at) \cup {capture.size}
        /\ \A i \in DOMAIN capture.at : r.pos < i => r.pos + len <= i
    BY <2>2, <2>3
  <2>5. \A o \in DOMAIN capture.at : o > r.pos => o >= r.pos + len
    <3> HIDE DEF len
    <3> QED  BY <1>1, <1>2, <2>4
  <2> QED  BY <1>1, <2>1, <2>2, <2>4, <2>5
<1> QED  BY <1>4 DEF BlockIs

LEMMA NumberedStays ==
  ASSUME capture \in Captures, EndToEnd, NEW pos \in Nat, NEW len \in Nat, len > 0, NEW kind,
         BlockIs(pos, len, kind), NEW list \in Seq(Nat), Numbered(list, pos)
  PROVE  /\ kind # "idb" => Numbered(list, pos + len)
         /\ kind = "idb" => Numbered(Append(list, capture.at[pos].unit), pos + len)
<1>1. /\ Interfaces \subseteq Nat /\ (pos \in Interfaces <=> kind = "idb")
      /\ \A o \in Interfaces : o > pos => o >= pos + len
  BY OffsetsAre DEF BlockIs
<1>2. \A d \in Interfaces : d < pos + len <=> d < pos \/ (d = pos /\ kind = "idb")
  BY <1>1
<1>3. CASE kind # "idb"
  <2>1. IdbsBefore(pos + len) = IdbsBefore(pos)
    BY <1>2, <1>3 DEF IdbsBefore
  <2> QED  BY <1>3, <2>1 DEF Numbered
<1>4. CASE kind = "idb"
  <2> DEFINE B == IdbsBefore(pos)
             A == IdbsBefore(pos + len)
             u == capture.at[pos].unit
             more == Append(list, u)
             l == Len(list)
  <2>1. A = B \cup {pos} /\ pos \notin B
    <3>1. pos \in Interfaces /\ \A d \in Interfaces : d < pos + len <=> d < pos \/ d = pos
      BY <1>1, <1>2, <1>4
    <3>2. pos \notin B
      BY DEF IdbsBefore
    <3>3. pos < pos + len
      OBVIOUS
    <3>4. \A d : d \in A <=> d \in Interfaces /\ d < pos + len
      BY DEF IdbsBefore
    <3>5. \A d : d \in B <=> d \in Interfaces /\ d < pos
      BY DEF IdbsBefore
    <3> HIDE DEF A, B
    <3>6. \A d : d \in A <=> d \in B \cup {pos}
      BY ONLY <3>1, <3>3, <3>4, <3>5
    <3> QED  BY <3>2, <3>6
  <2>2. /\ l = Cardinality(B) /\ l \in Nat
        /\ \A n \in 1 .. l : \E d \in B : Cardinality(IdbsBefore(d)) = n - 1 /\ list[n] = capture.at[d].unit
    BY DEF Numbered
  <2>3. IsFiniteSet(B)
    BY IdbsFinite
  <2>4. Cardinality(A) = l + 1
    <3> HIDE DEF A, B
    <3> QED  BY <2>1, <2>2, <2>3, FS_AddElement
  <2>5. u \in Nat
    <3>1. pos \in DOMAIN capture.at
      BY <1>1, <1>4, OffsetsAre
    <3>2. IsCapture(capture)
      BY CaptureReadersAssumption
    <3>3. capture.at[pos] \in Block
      BY <3>1, <3>2 DEF IsCapture
    <3> QED  BY <3>3 DEF Block
  <2>6. Len(more) = l + 1 /\ more[l + 1] = u /\ \A n \in 1 .. l : more[n] = list[n]
    <3> HIDE DEF u
    <3> QED  BY <2>5, AppendProperties
  <2>7. ASSUME NEW n \in 1 .. l + 1
        PROVE  \E d \in A : Cardinality(IdbsBefore(d)) = n - 1 /\ more[n] = capture.at[d].unit
    <3>1. CASE n \in 1 .. l
      <4>1. PICK d \in B : Cardinality(IdbsBefore(d)) = n - 1 /\ list[n] = capture.at[d].unit
        BY <2>2, <3>1
      <4>2. d \in A /\ more[n] = list[n]
        BY <2>1, <2>6, <3>1
      <4> QED  BY <4>1, <4>2
    <3>2. CASE n = l + 1
      <4>1. pos \in A /\ Cardinality(B) = n - 1 /\ more[n] = u
        BY <2>1, <2>2, <2>6, <3>2
      <4> QED  BY <4>1
    <3>3. n \in 1 .. l \/ n = l + 1
      BY <2>2
    <3> QED  BY <3>1, <3>2, <3>3
  <2> HIDE DEF more
  <2>8. Numbered(more, pos + len)
    BY <2>4, <2>6, <2>7 DEF Numbered
  <2> QED  BY <1>4, <2>8 DEF more
<1> QED  BY <1>3, <1>4

\* A reader of a sound file stays in step with it.
LEMMA SoundStays ==
  ASSUME capture \in Captures, NEW r \in Readers, NEW q \in Readers, ReaderSound(r), Takes(r, q)
  PROVE  ReaderSound(q)
<1> DEFINE kind == Here(r).kind
           len == Here(r).len
           pos == r.pos
<1>1. /\ len \in Nat /\ len >= 12 /\ q.pos = pos + len /\ pos \in Nat /\ kind \in Kinds
      /\ r.got \in Seq(Entries) /\ r.interfaces \in Seq(Nat)
  BY DEF Takes, Readers
<1>2. pos < q.pos /\ len > 0
  <2> HIDE DEF len, pos
  <2> QED  BY <1>1
<1>3. BlockIs(pos, len, kind)
  BY TakenBlock
<1>4. \/ q.got = r.got
      \/ /\ kind \in {"rec", "spb", "epb"}
         /\ \E stamp \in Nat : q.got = Append(r.got, [at |-> pos, stamp |-> stamp]) /\ Timed(r, stamp)
  BY <1>1 DEF Takes, Kinds
<1>5. \A f \in DOMAIN r.got : r.got[f].at < q.pos
  <2>1. \A f \in DOMAIN r.got : r.got[f].at \in Nat /\ r.got[f].at < pos
    <3>1. \A f \in DOMAIN r.got : r.got[f] \in Entries
      BY <1>1, ElementOfSeq
    <3> QED  BY <3>1 DEF Entries, ReaderSound
  <2> HIDE DEF len, pos
  <2> QED  BY <1>1, <1>2, <2>1
<1>6. ASSUME EndToEnd
      PROVE  q.pos \in (DOMAIN capture.at) \cup {capture.size} /\ Numbered(q.interfaces, q.pos)
  <2>1. q.pos \in (DOMAIN capture.at) \cup {capture.size} /\ Here(r) = capture.at[pos]
    BY <1>6, TakenBlock
  <2>2. Numbered(r.interfaces, pos)
    BY <1>6 DEF ReaderSound
  <2>3. \/ kind # "idb" /\ q.interfaces = r.interfaces
        \/ kind = "idb" /\ q.interfaces = Append(r.interfaces, capture.at[pos].unit)
    BY <1>1, <2>1 DEF Takes, Kinds
  <2>4. /\ kind # "idb" => Numbered(r.interfaces, pos + len)
        /\ kind = "idb" => Numbered(Append(r.interfaces, capture.at[pos].unit), pos + len)
    <3> HIDE DEF kind, len, pos
    <3> QED  BY <1>1, <1>2, <1>3, <1>6, <2>2, NumberedStays
  <2>5. Numbered(q.interfaces, pos + len)
    BY <2>3, <2>4
  <2> QED  BY <1>1, <2>1, <2>5
<1>7. CASE q.got = r.got
  BY <1>5, <1>6, <1>7 DEF ReaderSound
<1>8. ASSUME NEW stamp \in Nat, kind \in {"rec", "spb", "epb"}, Timed(r, stamp),
             q.got = Append(r.got, [at |-> pos, stamp |-> stamp])
      PROVE  ReaderSound(q)
  <2> DEFINE e == [at |-> pos, stamp |-> stamp]
             n == Len(r.got)
  <2>1. e \in Entries /\ e.at = pos /\ e.stamp = stamp
    BY <1>1 DEF Entries
  <2> HIDE DEF e
  <2>2. /\ DOMAIN q.got = (DOMAIN r.got) \cup {n + 1} /\ q.got[n + 1] = e
        /\ \A f \in DOMAIN r.got : q.got[f] = r.got[f]
    BY <1>1, <1>8, <2>1, GotMore DEF e
  <2>3. \A f \in DOMAIN q.got : q.got[f].at < q.pos
    BY <1>2, <1>5, <2>1, <2>2
  <2>4. ASSUME EndToEnd  PROVE SoundEntry(e)
    <3>1. pos \in DOMAIN capture.at /\ Here(r) = capture.at[pos] /\ Numbered(r.interfaces, pos)
      BY <2>4, TakenBlock DEF ReaderSound
    <3>2. pos \notin SectionStarts
      BY <1>8, <3>1, OffsetsAre
    <3>3. ASSUME kind = "epb"
          PROVE  \E d \in IdbsBefore(pos) :
                   /\ stamp = capture.at[pos].ticks * capture.at[d].unit
                   /\ Cardinality(IdbsBefore(d)) = capture.at[pos].iface
      <4> DEFINE i == capture.at[pos].iface
      <4>1. i \in Nat
        <5>1. Here(r) \in Block
          BY HereIsBlock
        <5> QED  BY <3>1, <5>1 DEF Block
      <4>2. i + 1 \in DOMAIN r.interfaces /\ stamp = capture.at[pos].ticks * r.interfaces[i + 1]
        BY <1>8, <3>1, <3>3 DEF Timed
      <4>3. i + 1 \in 1 .. Len(r.interfaces)
        BY <1>1, <4>2, SMTT(60)
      <4>4. PICK d \in IdbsBefore(pos) :
              Cardinality(IdbsBefore(d)) = (i + 1) - 1 /\ r.interfaces[i + 1] = capture.at[d].unit
        <5> HIDE DEF i
        <5> QED  BY <3>1, <4>3 DEF Numbered
      <4>5. (i + 1) - 1 = i
        <5> HIDE DEF i
        <5> QED  BY <4>1
      <4> QED  BY <4>2, <4>4, <4>5
    <3>4. capture.at[e.at].kind = kind
      BY <2>1, <3>1
    <3> QED  BY <2>1, <3>1, <3>2, <3>3, <3>4 DEF SoundEntry
  <2>5. FramesSound(q.got)
    <3>1. EndToEnd => \A f \in DOMAIN r.got : SoundEntry(r.got[f])
      BY DEF ReaderSound, FramesSound
    <3>2. EndToEnd => \A f \in DOMAIN q.got : SoundEntry(q.got[f])
      BY <2>2, <2>4, <3>1
    <3> QED  BY <3>2 DEF FramesSound
  <2> QED  BY <1>6, <2>3, <2>5 DEF ReaderSound
<1> QED  BY <1>4, <1>7, <1>8

-----------------------------------------------------------------------------
(* All the sections that are closed                                        *)

\* Where a section starts, or the last one ends.
Edge(secs, last, s) == IF s > Len(secs) THEN last ELSE secs[s].prefix[1]

Sectioned(secs, got, last) ==
  /\ secs \in Seq(ClosedSections) /\ last \in Nat
  /\ Edge(secs, last, 1) = 0
  /\ \A s \in 1 .. Len(secs) :
       SectionIs(secs[s], got, Edge(secs, last, s), Edge(secs, last, s + 1))

FramesOf(secs, got, last, s) == Within(got, Edge(secs, last, s), Edge(secs, last, s + 1))

SectionsListed(secs, got, last) ==
  \A s \in 1 .. Len(secs) : \E base : Listed(secs[s].scan.index, got, FramesOf(secs, got, last, s), base)

LEMMA SectionedEmpty ==
  ASSUME NEW got
  PROVE  Sectioned(<< >>, got, 0) /\ SectionsListed(<< >>, got, 0)
<1>1. Len(<< >>) = 0 /\ << >> \in Seq(ClosedSections) /\ 1 .. 0 = {}
  OBVIOUS
<1> QED  BY <1>1 DEF Sectioned, SectionsListed, Edge

LEMMA SectionedAppend ==
  ASSUME NEW secs, NEW got, NEW from, NEW to, Sectioned(secs, got, from),
         SectionsListed(secs, got, from), NEW cs, SectionIs(cs, got, from, to),
         NEW base, Listed(cs.scan.index, got, Within(got, from, to), base)
  PROVE  Sectioned(Append(secs, cs), got, to) /\ SectionsListed(Append(secs, cs), got, to)
<1> DEFINE l == Len(secs)
           more == Append(secs, cs)
<1>1. /\ secs \in Seq(ClosedSections) /\ from \in Nat
      /\ Edge(secs, from, 1) = 0
      /\ \A s \in 1 .. l : SectionIs(secs[s], got, Edge(secs, from, s), Edge(secs, from, s + 1))
      /\ \A s \in 1 .. l : \E b : Listed(secs[s].scan.index, got,
                                         Within(got, Edge(secs, from, s), Edge(secs, from, s + 1)), b)
  BY DEF Sectioned, SectionsListed, FramesOf
<1>2. cs \in ClosedSections /\ to \in Nat /\ cs.prefix[1] = from
  BY SectionParts
<1>3. /\ l \in Nat /\ more \in Seq(ClosedSections) /\ Len(more) = l + 1
      /\ more[l + 1] = cs /\ \A s \in 1 .. l : more[s] = secs[s]
  BY <1>1, <1>2, AppendProperties
<1> HIDE DEF more, l
<1>4. ASSUME NEW s \in 1 .. l + 1  PROVE Edge(more, to, s) = Edge(secs, from, s)
  <2>1. CASE s \in 1 .. l
    <3>1. ~ (s > Len(more)) /\ ~ (s > Len(secs)) /\ more[s] = secs[s]
      BY <1>3, <2>1 DEF l
    <3> QED  BY <3>1 DEF Edge
  <2>2. CASE s = l + 1
    <3>1. ~ (s > Len(more)) /\ s > Len(secs) /\ more[s] = cs
      BY <1>3, <2>2 DEF l
    <3> QED  BY <1>2, <3>1 DEF Edge
  <2> QED  BY <1>3, <2>1, <2>2
<1>5. Edge(more, to, l + 2) = to
  <2>1. l + 2 > Len(more)
    BY <1>3
  <2> QED  BY <2>1 DEF Edge
<1>6. Edge(secs, from, l + 1) = from
  <2>1. l + 1 > Len(secs)
    BY <1>3 DEF l
  <2> QED  BY <2>1 DEF Edge
<1>7. ASSUME NEW s \in 1 .. l + 1
      PROVE  /\ SectionIs(more[s], got, Edge(more, to, s), Edge(more, to, s + 1))
             /\ \E b : Listed(more[s].scan.index, got,
                              Within(got, Edge(more, to, s), Edge(more, to, s + 1)), b)
  <2>1. CASE s \in 1 .. l
    <3>1. s + 1 \in 1 .. l + 1 /\ s \in 1 .. l + 1
      BY <1>3, <2>1
    <3>2. /\ Edge(more, to, s) = Edge(secs, from, s) /\ Edge(more, to, s + 1) = Edge(secs, from, s + 1)
          /\ more[s] = secs[s]
      BY <1>3, <1>4, <2>1, <3>1
    <3> QED  BY <1>1, <2>1, <3>2
  <2>2. CASE s = l + 1
    <3>1. s + 1 = l + 2
      BY <1>3, <2>2
    <3>2. Edge(more, to, s) = from /\ Edge(more, to, s + 1) = to /\ more[s] = cs
      BY <1>3, <1>4, <1>5, <1>6, <2>2, <3>1
    <3> QED  BY <3>2
  <2> QED  BY <1>3, <2>1, <2>2
<1>8. Edge(more, to, 1) = 0
  <2>1. 1 \in 1 .. l + 1
    BY <1>3
  <2> QED  BY <1>1, <1>4, <2>1
<1>9. Sectioned(more, got, to)
  BY <1>2, <1>3, <1>7, <1>8 DEF Sectioned
<1>10. SectionsListed(more, got, to)
  BY <1>3, <1>7 DEF SectionsListed, FramesOf
<1> QED  BY <1>9, <1>10 DEF more

\* The sections are pieces of the file.
LEMMA SectionedPieces ==
  ASSUME NEW secs, NEW got, NEW last, Sectioned(secs, got, last)
  PROVE  LET parts == [s \in DOMAIN secs |-> Ranges(secs[s])]
             B     == [s \in 1 .. Len(secs) + 1 |-> Edge(secs, last, s)]
         IN  /\ parts \in Seq(Seq(ByteRange)) /\ Len(parts) = Len(secs) /\ Len(secs) \in Nat
             /\ \A s \in 1 .. Len(secs) : parts[s] = Ranges(secs[s])
             /\ Pieces(parts, B) /\ B[Len(secs) + 1] = last
             /\ \A s \in 1 .. Len(secs) + 1 : B[s] = Edge(secs, last, s) /\ B[s] \in Nat
<1> DEFINE l == Len(secs)
           parts == [s \in DOMAIN secs |-> Ranges(secs[s])]
           B == [s \in 1 .. l + 1 |-> Edge(secs, last, s)]
<1>1. /\ secs \in Seq(ClosedSections) /\ last \in Nat /\ Edge(secs, last, 1) = 0
      /\ \A s \in 1 .. l : SectionIs(secs[s], got, Edge(secs, last, s), Edge(secs, last, s + 1))
  BY DEF Sectioned
<1>2. l \in Nat /\ DOMAIN secs = 1 .. l /\ \A s \in 1 .. l : secs[s] \in ClosedSections
  BY <1>1, ElementOfSeq
<1>3. \A s \in 1 .. l : Ranges(secs[s]) \in Seq(ByteRange)
  BY <1>2, ClosedFields
<1>4. parts \in Seq(Seq(ByteRange)) /\ Len(parts) = l /\ \A s \in 1 .. l : parts[s] = Ranges(secs[s])
  BY <1>2, <1>3
<1>5. Edge(secs, last, l + 1) = last
  <2>1. l + 1 > Len(secs)
    BY <1>2
  <2> QED  BY <2>1 DEF Edge
<1>6. \A s \in 1 .. l : /\ Edge(secs, last, s) \in Nat
                        /\ Edge(secs, last, s) < Edge(secs, last, s + 1)
                        /\ Tile(Ranges(secs[s]), Edge(secs, last, s), Edge(secs, last, s + 1))
  BY <1>1, SectionParts
<1>7. \A s \in 1 .. l + 1 : B[s] = Edge(secs, last, s)
  OBVIOUS
<1> HIDE DEF parts, B, l
<1>8. \A s \in 1 .. l + 1 : s \in 1 .. l \/ s = l + 1
  BY <1>2
<1>9. \A s \in 1 .. l + 1 : B[s] \in Nat
  BY <1>1, <1>5, <1>6, <1>7, <1>8
<1>10. B \in [1 .. l + 1 -> Nat]
  BY <1>9 DEF B
<1>11. \A s \in 1 .. l : s + 1 \in 1 .. l + 1 /\ s \in 1 .. l + 1
  BY <1>2
<1>12. 1 \in 1 .. l + 1 /\ l + 1 \in 1 .. l + 1
  BY <1>2
<1>13. \A s \in 1 .. l : B[s] < B[s + 1] /\ Tile(parts[s], B[s], B[s + 1])
  BY <1>4, <1>6, <1>7, <1>11
<1>14. Pieces(parts, B)
  BY <1>1, <1>4, <1>7, <1>10, <1>12, <1>13 DEF Pieces
<1>15. B[l + 1] = last
  BY <1>5, <1>7, <1>12
<1> QED  BY <1>2, <1>4, <1>7, <1>9, <1>14, <1>15 DEF parts, B, l

\* A packet behind all of them.
LEMMA SectionedPast ==
  ASSUME NEW secs, NEW got \in Seq(Entries), NEW last, Sectioned(secs, got, last),
         SectionsListed(secs, got, last),
         NEW e \in Entries, last <= e.at, \A f \in DOMAIN got : got[f].at < e.at
  PROVE  Sectioned(secs, Append(got, e), last) /\ SectionsListed(secs, Append(got, e), last)
<1> DEFINE l == Len(secs)
           B == [s \in 1 .. l + 1 |-> Edge(secs, last, s)]
           parts == [s \in DOMAIN secs |-> Ranges(secs[s])]
<1>1. /\ secs \in Seq(ClosedSections) /\ last \in Nat /\ Edge(secs, last, 1) = 0
      /\ \A s \in 1 .. l : SectionIs(secs[s], got, Edge(secs, last, s), Edge(secs, last, s + 1))
      /\ \A s \in 1 .. l : \E b : Listed(secs[s].scan.index, got,
                                         Within(got, Edge(secs, last, s), Edge(secs, last, s + 1)), b)
  BY DEF Sectioned, SectionsListed, FramesOf
<1>2. /\ parts \in Seq(Seq(ByteRange)) /\ Len(parts) = l /\ l \in Nat
      /\ Pieces(parts, B) /\ B[l + 1] = last
      /\ \A s \in 1 .. l + 1 : B[s] = Edge(secs, last, s) /\ B[s] \in Nat
  BY SectionedPieces
<1> HIDE DEF l, B, parts
<1>3. \A s, t \in 1 .. l + 1 : s < t => B[s] < B[t]
  BY <1>2, PiecesGrow
<1>4. ASSUME NEW s \in 1 .. l
      PROVE  Edge(secs, last, s + 1) <= e.at
  <2>1. s + 1 \in 1 .. l + 1 /\ l + 1 \in 1 .. l + 1 /\ (s + 1 = l + 1 \/ s + 1 < l + 1)
    BY <1>2
  <2>2. B[s + 1] <= last
    BY <1>1, <1>2, <1>3, <2>1
  <2>3. B[s + 1] = Edge(secs, last, s + 1) /\ B[s + 1] \in Nat /\ e.at \in Nat
    BY <1>2, <2>1 DEF Entries
  <2>4. B[s + 1] <= e.at
    BY <1>1, <2>2, <2>3
  <2> QED  BY <2>3, <2>4
<1>5. ASSUME NEW s \in 1 .. l
      PROVE  LET from == Edge(secs, last, s)  to == Edge(secs, last, s + 1) IN
             /\ SectionIs(secs[s], Append(got, e), from, to)
             /\ \E b : Listed(secs[s].scan.index, Append(got, e), Within(Append(got, e), from, to), b)
  <2> DEFINE from == Edge(secs, last, s)
             to == Edge(secs, last, s + 1)
             cs == secs[s]
  <2>1. SectionIs(cs, got, from, to) /\ to <= e.at
    BY <1>1, <1>4
  <2>2. PICK b : Listed(cs.scan.index, got, Within(got, from, to), b)
    BY <1>1
  <2> HIDE DEF from, to, cs
  <2>3. /\ SectionIs(cs, Append(got, e), from, to)
        /\ Listed(cs.scan.index, Append(got, e), Within(Append(got, e), from, to), b)
    BY <2>1, <2>2, SectionPast
  <2> QED  BY <2>3 DEF from, to, cs
<1>6. Sectioned(secs, Append(got, e), last)
  BY <1>1, <1>5 DEF Sectioned, l
<1>7. SectionsListed(secs, Append(got, e), last)
  BY <1>5 DEF SectionsListed, FramesOf, l
<1> QED  BY <1>6, <1>7

-----------------------------------------------------------------------------
(* The scan                                                                *)

BeforeSections(r, secs) == capture.format = "pcapng" /\ ~ r.section /\ r.pos = 0 /\ secs = << >>

\* A pcap file is one section, behind its header.
OnlySection(r, cur, secs) ==
  secs = << >> /\ cur.start = 0 /\ (IF cur.prefix_end = None THEN r.pos ELSE cur.prefix_end) = 24

InSection(r, cur, secs) ==
  /\ Sectioned(secs, r.got, cur.start) /\ SectionsListed(secs, r.got, cur.start)
  /\ \E base : ScanIs(cur, r.got, r.pos, base)
  /\ capture.format = "pcap" => OnlySection(r, cur, secs)

ScanningIs(r, cur, secs, n) ==
  /\ r \in Readers /\ r.pos <= capture.size /\ r.status = "reading" /\ ReaderSound(r)
  /\ n = Len(r.got)
  /\ IF cur = None THEN BeforeSections(r, secs) ELSE InSection(r, cur, secs)

ScannedIs(secs, got) ==
  /\ got \in Seq(Entries) /\ FramesSound(got) /\ \A f \in DOMAIN got : got[f].at < capture.size
  /\ Sectioned(secs, got, capture.size)
  /\ capture.format = "pcap" => Len(secs) = 1

\* What is known when a block has been taken.
LEMMA TakenFacts ==
  ASSUME capture \in Captures, NEW r, NEW cur, NEW secs, NEW n, ScanningIs(r, cur, secs, n),
         NEW q \in Readers, Takes(r, q), q.status = "reading"
  PROVE  /\ q.pos = r.pos + Here(r).len /\ Here(r).len \in Nat /\ Here(r).len > 0
         /\ q.pos <= capture.size /\ ReaderSound(q)
         /\ r \in Readers /\ r.pos \in Nat /\ r.got \in Seq(Entries) /\ n = Len(r.got)
         /\ \A f \in DOMAIN r.got : r.got[f].at < r.pos
         /\ BlockIs(r.pos, Here(r).len, Here(r).kind)
         /\ Here(r).kind \in Kinds /\ (capture.format = "pcap" <=> Here(r).kind = "rec")
         /\ Here(r).kind # "shb" => cur # None
         /\ cur = None => BeforeSections(r, secs)
         /\ cur # None => InSection(r, cur, secs)
<1>1. /\ r \in Readers /\ ReaderSound(r) /\ n = Len(r.got)
      /\ cur = None => BeforeSections(r, secs)
      /\ cur # None => InSection(r, cur, secs)
  BY DEF ScanningIs
<1>2. r.pos \in Nat /\ r.got \in Seq(Entries)
  BY <1>1 DEF Readers
<1>3. \A f \in DOMAIN r.got : r.got[f].at < r.pos
  BY <1>1 DEF ReaderSound
<1>4. BlockIs(r.pos, Here(r).len, Here(r).kind)
  BY <1>1, TakenBlock
<1>5. ReaderSound(q)
  BY <1>1, SoundStays
<1>6. /\ q.pos = r.pos + Here(r).len /\ Here(r).len \in Nat /\ Here(r).len > 0
      /\ q.pos <= capture.size
      /\ Here(r).kind \in Kinds /\ (capture.format = "pcap" <=> Here(r).kind = "rec")
      /\ capture.format = "pcapng" /\ Here(r).kind # "shb" => r.section
  BY DEF Takes
<1>7. Here(r).kind # "shb" => cur # None
  BY <1>1, <1>6 DEF BeforeSections
<1> QED  BY <1>1, <1>2, <1>3, <1>4, <1>5, <1>6, <1>7

LEMMA PacketStep ==
  ASSUME capture \in Captures, NEW r, NEW cur, NEW secs, NEW n, ScanningIs(r, cur, secs, n),
         NEW q \in Readers, Takes(r, q), q.status = "reading", Here(r).kind \in {"rec", "epb"},
         NEW more,
         more = [cur EXCEPT !.prefix_end = IF @ = None THEN r.pos ELSE @,
                            !.scan = Push(@, Last(q.got).stamp, << r.pos, Here(r).len >>, n + 1)]
  PROVE  ScanningIs(q, more, secs, n + 1)
<1> DEFINE kind == Here(r).kind
           len == Here(r).len
           pos == r.pos
<1>1. /\ q.pos = pos + len /\ len \in Nat /\ len > 0
      /\ q.pos <= capture.size /\ ReaderSound(q)
      /\ r \in Readers /\ pos \in Nat /\ r.got \in Seq(Entries) /\ n = Len(r.got)
      /\ \A f \in DOMAIN r.got : r.got[f].at < pos
      /\ BlockIs(pos, len, kind)
      /\ cur # None
      /\ InSection(r, cur, secs)
  BY TakenFacts
<1>2. PICK stamp \in Nat : q.got = Append(r.got, [at |-> pos, stamp |-> stamp])
  BY DEF Takes
<1> DEFINE e == [at |-> pos, stamp |-> stamp]
<1>3. e \in Entries /\ e.at = pos /\ e.stamp = stamp
  BY <1>1 DEF Entries
<1> HIDE DEF e, kind, len, pos
<1>4. q.got = Append(r.got, e)
  BY <1>2 DEF e
<1>5. Len(q.got) = n + 1 /\ q.got[n + 1] = e /\ Last(q.got) = e
  <2>1. Len(q.got) = n + 1 /\ q.got[n + 1] = e
    BY <1>1, <1>3, <1>4, AppendProperties
  <2> QED  BY <2>1 DEF Last
<1>6. PICK base : ScanIs(cur, r.got, pos, base)
  BY <1>1 DEF InSection, pos
<1>7. /\ more = [cur EXCEPT !.prefix_end = IF @ = None THEN pos ELSE @,
                            !.scan = Push(@, e.stamp, << pos, len >>, Len(r.got) + 1)]
  BY <1>1, <1>5 DEF pos, len
<1>8. ScanIs(more, q.got, q.pos, base)
  <2>1. kind \notin {"shb", "idb"}
    BY DEF kind
  <2> DEFINE got == r.got
  <2>2. /\ capture \in Captures /\ got \in Seq(Entries) /\ pos \in Nat /\ len \in Nat /\ len > 0
        /\ ScanIs(cur, got, pos, base) /\ \A f \in DOMAIN got : got[f].at < pos
        /\ BlockIs(pos, len, kind) /\ e \in Entries /\ e.at = pos
    BY <1>1, <1>3, <1>6
  <2>3. more = [cur EXCEPT !.prefix_end = IF @ = None THEN pos ELSE @,
                           !.scan = Push(@, e.stamp, << pos, len >>, Len(got) + 1)]
    BY <1>7
  <2> HIDE DEF got
  <2>4. ScanIs(more, Append(got, e), pos + len, base)
    BY ONLY <2>1, <2>2, <2>3, ScanPacket
  <2> QED  BY <1>1, <1>4, <2>4 DEF got
<1>9. more \in SectionScans /\ cur \in SectionScans
  BY <1>6, <1>8 DEF ScanIs
<1>10. more # None /\ more.start = cur.start
       /\ more.prefix_end = (IF cur.prefix_end = None THEN pos ELSE cur.prefix_end)
  <2>1. more # None
    BY <1>9, ScanFields
  <2> DEFINE p == Push(cur.scan, e.stamp, << pos, len >>, Len(r.got) + 1)
  <2>2. more = [cur EXCEPT !.prefix_end = IF @ = None THEN pos ELSE @, !.scan = p]
    BY <1>7
  <2> HIDE DEF p
  <2> QED  BY <1>9, <2>1, <2>2 DEF SectionScans
<1>11. Sectioned(secs, q.got, more.start) /\ SectionsListed(secs, q.got, more.start)
  <2>1. cur.start <= e.at
    <3>1. cur.start \in Nat /\ cur.start < pos
      BY <1>6, SectionParts DEF ScanIs
    <3> QED  BY <1>1, <1>3, <3>1
  <2>2. Sectioned(secs, r.got, cur.start) /\ SectionsListed(secs, r.got, cur.start)
    BY <1>1 DEF InSection
  <2>3. \A f \in DOMAIN r.got : r.got[f].at < e.at
    BY <1>1, <1>3
  <2>4. Sectioned(secs, Append(r.got, e), cur.start) /\ SectionsListed(secs, Append(r.got, e), cur.start)
    BY <1>1, <1>3, <2>1, <2>2, <2>3, SectionedPast
  <2> QED  BY <1>4, <1>10, <2>4
<1>12. capture.format = "pcap" => OnlySection(q, more, secs)
  <2>1. capture.format = "pcap" =>
          secs = << >> /\ cur.start = 0 /\ (IF cur.prefix_end = None THEN pos ELSE cur.prefix_end) = 24
    BY <1>1 DEF InSection, OnlySection, pos
  <2>2. more.prefix_end # None
    BY <1>1, <1>9, <1>10, ScanFields
  <2> QED  BY <1>10, <2>1, <2>2 DEF OnlySection
<1>13. InSection(q, more, secs)
  BY <1>8, <1>11, <1>12 DEF InSection
<1> QED  BY <1>1, <1>5, <1>10, <1>13 DEF ScanningIs

LEMMA OtherStep ==
  ASSUME capture \in Captures, NEW r, NEW cur, NEW secs, NEW n, ScanningIs(r, cur, secs, n),
         NEW q \in Readers, Takes(r, q), q.status = "reading", Here(r).kind \in {"idb", "raw"},
         NEW more,
         \/ cur.prefix_end = None /\ more = cur
         \/ /\ cur.prefix_end # None
            /\ more = [cur EXCEPT !.late_idbs = Append(@, << r.pos, Here(r).len >>)]
         \/ /\ cur.prefix_end # None /\ Here(r).kind # "idb"
            /\ more = [cur EXCEPT !.suffix = Append(@, << r.pos, Here(r).len >>)]
  PROVE  ScanningIs(q, more, secs, n)
<1> DEFINE kind == Here(r).kind
           len == Here(r).len
           pos == r.pos
<1>1. /\ q.pos = pos + len /\ len \in Nat /\ len > 0
      /\ q.pos <= capture.size /\ ReaderSound(q)
      /\ r \in Readers /\ pos \in Nat /\ r.got \in Seq(Entries) /\ n = Len(r.got)
      /\ \A f \in DOMAIN r.got : r.got[f].at < pos
      /\ BlockIs(pos, len, kind)
      /\ cur # None /\ capture.format # "pcap"
      /\ InSection(r, cur, secs)
  BY TakenFacts
<1>2. q.got = r.got
  BY DEF Takes
<1>3. PICK base : ScanIs(cur, r.got, pos, base)
  BY <1>1 DEF InSection
<1>4. kind # "shb"
  OBVIOUS
<1>5. \/ cur.prefix_end = None /\ more = cur
      \/ /\ cur.prefix_end # None
         /\ more = [cur EXCEPT !.late_idbs = Append(@, << pos, len >>)]
      \/ /\ cur.prefix_end # None /\ kind # "idb"
         /\ more = [cur EXCEPT !.suffix = Append(@, << pos, len >>)]
  OBVIOUS
<1> HIDE DEF kind, len, pos
<1>6. ScanIs(more, r.got, pos + len, base)
  BY <1>1, <1>3, <1>4, <1>5, ScanGrows
<1>7. more \in SectionScans /\ cur \in SectionScans
  BY <1>3, <1>6 DEF ScanIs
<1>8. more # None /\ more.start = cur.start
  <2>1. more # None
    BY <1>7, ScanFields
  <2> DEFINE x == Append(cur.late_idbs, << pos, len >>)
             y == Append(cur.suffix, << pos, len >>)
  <2>2. more = cur \/ more = [cur EXCEPT !.late_idbs = x] \/ more = [cur EXCEPT !.suffix = y]
    BY <1>5
  <2> HIDE DEF x, y
  <2> QED  BY <1>7, <2>1, <2>2 DEF SectionScans
<1>9. InSection(q, more, secs)
  BY <1>1, <1>2, <1>6, <1>8 DEF InSection
<1> QED  BY <1>1, <1>2, <1>8, <1>9 DEF ScanningIs

\* The section that is closed where the scan stands.
LEMMA SectionCloses ==
  ASSUME NEW r \in Readers, NEW cur, NEW secs, InSection(r, cur, secs)
  PROVE  LET more == Append(secs, Closed(cur, r.pos)) IN
         Sectioned(more, r.got, r.pos) /\ SectionsListed(more, r.got, r.pos)
<1> DEFINE pos == r.pos
           got == r.got
           cs == Closed(cur, pos)
<1>1. PICK base : ScanIs(cur, got, pos, base)
  BY DEF InSection
<1>2. SectionIs(cs, got, cur.start, pos) /\ Listed(cur.scan.index, got, Within(got, cur.start, pos), base)
  BY <1>1 DEF ScanIs
<1>3. cs.scan = cur.scan
  BY ClosedIs
<1>4. Sectioned(secs, got, cur.start) /\ SectionsListed(secs, got, cur.start)
  BY DEF InSection
<1>5. Listed(cs.scan.index, got, Within(got, cur.start, pos), base)
  BY <1>2, <1>3
<1> HIDE DEF cs, pos, got
<1>6. Sectioned(Append(secs, cs), got, pos) /\ SectionsListed(Append(secs, cs), got, pos)
  BY <1>2, <1>4, <1>5, SectionedAppend
<1> QED  BY <1>6 DEF cs, pos, got

LEMMA HeaderStep ==
  ASSUME capture \in Captures, NEW r, NEW cur, NEW secs, NEW n, ScanningIs(r, cur, secs, n),
         NEW q \in Readers, Takes(r, q), q.status = "reading", Here(r).kind = "shb",
         NEW more, more = IF cur = None THEN secs ELSE Append(secs, Closed(cur, r.pos))
  PROVE  ScanningIs(q, FreshSection(r.pos), more, n)
<1> DEFINE len == Here(r).len
           pos == r.pos
           sec == FreshSection(pos)
<1>1. /\ q.pos = pos + len /\ len \in Nat /\ len > 0
      /\ q.pos <= capture.size /\ ReaderSound(q)
      /\ r \in Readers /\ pos \in Nat /\ r.got \in Seq(Entries) /\ n = Len(r.got)
      /\ \A f \in DOMAIN r.got : r.got[f].at < pos
      /\ BlockIs(pos, len, "shb")
      /\ capture.format # "pcap"
      /\ cur = None => BeforeSections(r, secs)
      /\ cur # None => InSection(r, cur, secs)
  BY TakenFacts
<1>2. q.got = r.got /\ capture.format = "pcapng"
  BY <1>1, HereIsBlock DEF Takes
<1>3. Sectioned(more, r.got, pos) /\ SectionsListed(more, r.got, pos)
  <2>1. CASE cur = None
    <3>1. more = << >> /\ pos = 0
      BY <1>1, <2>1 DEF BeforeSections
    <3> QED  BY <3>1, SectionedEmpty
  <2>2. CASE cur # None
    BY <1>1, <2>2, SectionCloses
  <2> QED  BY <2>1, <2>2
<1>4. \A f \in DOMAIN r.got : r.got[f].at \notin pos .. pos + len - 1
  <2>1. \A f \in DOMAIN r.got : r.got[f] \in Entries
    BY <1>1, ElementOfSeq
  <2>2. \A f \in DOMAIN r.got : r.got[f].at \in Nat /\ r.got[f].at < pos
    BY <1>1, <2>1 DEF Entries
  <2> HIDE DEF pos, len
  <2> QED  BY <1>1, <2>2
<1> HIDE DEF pos, len
<1>5. ScanIs(sec, r.got, pos + len, Len(r.got))
  BY <1>1, <1>2, <1>4, ScanStarts
<1>6. sec.start = pos /\ sec # None
  <2>1. sec \in SectionScans
    BY <1>5 DEF ScanIs
  <2> QED  BY <2>1, ScanFields DEF FreshSection
<1> HIDE DEF sec
<1>7. InSection(q, sec, more)
  BY <1>1, <1>2, <1>3, <1>5, <1>6 DEF InSection
<1>8. ScanningIs(q, sec, more, n)
  BY <1>1, <1>2, <1>6, <1>7 DEF ScanningIs
<1> QED  BY <1>8 DEF sec, pos

LEMMA EndStep ==
  ASSUME capture \in Captures, NEW r, NEW cur, NEW secs, NEW n, ScanningIs(r, cur, secs, n),
         r.pos = capture.size, NEW more,
         more = IF capture.format = "pcap"
                THEN << [Closed(cur, 0) EXCEPT !.prefix = << 0, GlobalHeader >>] >>
                ELSE IF cur = None THEN secs ELSE Append(secs, Closed(cur, capture.size))
  PROVE  ScannedIs(more, r.got) /\ SectionsListed(more, r.got, capture.size)
<1> DEFINE size == capture.size
<1>1. /\ r \in Readers /\ ReaderSound(r) /\ r.got \in Seq(Entries) /\ size \in Nat
      /\ cur = None => BeforeSections(r, secs)
      /\ cur # None => InSection(r, cur, secs)
  BY HereIsBlock DEF ScanningIs, Readers
<1>2. FramesSound(r.got) /\ \A f \in DOMAIN r.got : r.got[f].at < size
  BY <1>1 DEF ReaderSound
<1>3. ASSUME Sectioned(more, r.got, size), SectionsListed(more, r.got, size),
             capture.format = "pcap" => Len(more) = 1
      PROVE  ScannedIs(more, r.got) /\ SectionsListed(more, r.got, capture.size)
  BY <1>1, <1>2, <1>3 DEF ScannedIs
<1>4. CASE capture.format = "pcap"
  <2>1. cur # None /\ OnlySection(r, cur, secs) /\ InSection(r, cur, secs)
    BY <1>1, <1>4 DEF BeforeSections, InSection
  <2>2. secs = << >> /\ cur.start = 0 /\ (IF cur.prefix_end = None THEN r.pos ELSE cur.prefix_end) = 24
    BY <2>1 DEF OnlySection
  <2> DEFINE d == Closed(cur, r.pos)
  <2>3. PrefixUntil(cur, r.pos) = << 0, 24 >>
    BY <2>2 DEF PrefixUntil
  <2>4. [Closed(cur, 0) EXCEPT !.prefix = << 0, GlobalHeader >>] = d
    BY <2>3 DEF Closed, GlobalHeader
  <2>5. more = << d >> /\ << d >> = Append(<< >>, d) /\ Len(<< d >>) = 1
    <3> HIDE DEF d
    <3> QED  BY <1>4, <2>4
  <2>6. more = Append(secs, d) /\ Len(more) = 1
    BY <2>2, <2>5
  <2>7. Sectioned(more, r.got, size) /\ SectionsListed(more, r.got, size)
    BY <1>1, <2>1, <2>6, SectionCloses
  <2> QED  BY <1>3, <2>6, <2>7
<1>5. CASE capture.format # "pcap" /\ cur = None
  <2>1. more = << >> /\ size = 0
    BY <1>1, <1>5 DEF BeforeSections
  <2>2. Sectioned(more, r.got, size) /\ SectionsListed(more, r.got, size)
    BY <2>1, SectionedEmpty
  <2> QED  BY <1>3, <1>5, <2>2
<1>6. CASE capture.format # "pcap" /\ cur # None
  <2>1. more = Append(secs, Closed(cur, r.pos))
    BY <1>6
  <2>2. Sectioned(more, r.got, size) /\ SectionsListed(more, r.got, size)
    BY <1>1, <1>6, <2>1, SectionCloses
  <2> QED  BY <1>3, <1>6, <2>2
<1> QED  BY <1>4, <1>5, <1>6

LEMMA BeginStep ==
  ASSUME capture \in Captures
  PROVE  ScanningIs(Opened, IF capture.format = "pcap" THEN FreshSection(0) ELSE None, << >>, 0)
<1>1. /\ Opened \in Readers /\ Opened.pos <= capture.size
      /\ Opened.interfaces = << >> /\ Opened.got = << >>
      /\ Opened.status = "reading" /\ ~ Opened.section
      /\ Opened.pos = (IF capture.format = "pcap" THEN GlobalHeader ELSE 0)
      /\ capture.format \in {"pcap", "pcapng"}
  BY OpenedFields, HereIsBlock
<1>2. ReaderSound(Opened)
  <2>1. ASSUME EndToEnd
        PROVE  /\ Opened.pos \in (DOMAIN capture.at) \cup {capture.size}
               /\ Numbered(Opened.interfaces, Opened.pos)
    <3>1. /\ Opened.pos \in (DOMAIN capture.at) \cup {capture.size}
          /\ \A o \in DOMAIN capture.at : Opened.pos <= o
      BY <2>1 DEF EndToEnd
    <3>2. IdbsBefore(Opened.pos) = {}
      <4>1. \A o \in Interfaces : Opened.pos <= o /\ o \in Nat
        BY <3>1, OffsetsAre
      <4>2. Opened.pos \in Nat
        BY <1>1 DEF Readers
      <4> QED  BY <4>1, <4>2 DEF IdbsBefore
    <3>3. Len(<< >>) = 0 /\ 1 .. 0 = {} /\ Cardinality({}) = 0
      BY FS_EmptySet
    <3>4. Numbered(<< >>, Opened.pos)
      BY <3>2, <3>3 DEF Numbered
    <3> QED  BY <1>1, <3>1, <3>4
  <2>2. DOMAIN Opened.got = {}
    BY <1>1
  <2> QED  BY <2>1, <2>2 DEF ReaderSound, FramesSound
<1>3. CASE capture.format = "pcap"
  <2> DEFINE sec == FreshSection(0)
             got == Opened.got
  <2>1. got \in Seq(Entries) /\ DOMAIN got = {} /\ Len(got) = 0
    BY <1>1
  <2>2. ScanIs(sec, got, 0 + 24, Len(got))
    <3> HIDE DEF got, sec
    <3>1. \A f \in DOMAIN got : got[f].at \notin 0 .. 0 + 24 - 1
      BY <2>1
    <3>2. ScanIs(FreshSection(0), got, 0 + 24, Len(got))
      <4> DEFINE pos == 0
                 len == 24
      <4>1. pos \in Nat /\ len \in Nat /\ len > 0 /\ \A f \in DOMAIN got : got[f].at \notin pos .. pos + len - 1
        BY <3>1
      <4> HIDE DEF pos, len
      <4>2. ScanIs(FreshSection(pos), got, pos + len, Len(got))
        BY <1>3, <2>1, <4>1, ScanStarts
      <4> QED  BY <4>2 DEF pos, len
    <3> QED  BY <3>2 DEF sec
  <2>3. Opened.pos = 0 + 24 /\ Opened.pos = 24
    BY <1>1, <1>3 DEF GlobalHeader
  <2>4. sec.start = 0 /\ sec.prefix_end = None /\ sec # None
    <3>1. sec \in SectionScans
      BY <2>2 DEF ScanIs
    <3> QED  BY <3>1, ScanFields DEF FreshSection
  <2>5. OnlySection(Opened, sec, << >>)
    BY <2>3, <2>4 DEF OnlySection
  <2>6. Sectioned(<< >>, got, sec.start) /\ SectionsListed(<< >>, got, sec.start)
    BY <2>4, SectionedEmpty
  <2> HIDE DEF sec
  <2>7. InSection(Opened, sec, << >>)
    BY <2>2, <2>3, <2>5, <2>6 DEF InSection
  <2>8. Len(Opened.got) = 0
    BY <1>1
  <2> QED  BY <1>1, <1>2, <1>3, <2>4, <2>7, <2>8 DEF ScanningIs, sec
<1>4. CASE capture.format = "pcapng"
  <2>1. BeforeSections(Opened, << >>)
    BY <1>1, <1>4 DEF BeforeSections
  <2>2. Len(Opened.got) = 0
    BY <1>1
  <2> QED  BY <1>1, <1>2, <1>4, <2>1, <2>2 DEF ScanningIs
<1> QED  BY <1>1, <1>3, <1>4

-----------------------------------------------------------------------------
(* The sort                                                                *)

LEMMA SortedIs ==
  ASSUME NEW index \in Seq(IndexEntry)
  PROVE  LET n == Len(index)  sorted == Sorted(index) IN
         /\ n \in Nat /\ sorted \in Seq(IndexEntry) /\ Len(sorted) = n
         /\ DOMAIN index = 1 .. n /\ DOMAIN sorted = 1 .. n
         /\ \E p, q \in [1 .. n -> 1 .. n] :
              /\ \A i \in 1 .. n : q[p[i]] = i /\ p[q[i]] = i
              /\ \A k \in 1 .. n : sorted[k] = index[q[k]]
              /\ \A k, l \in 1 .. n : k < l => GoesBefore(index, q[k], q[l])
<1> DEFINE n == Len(index)
           sorted == Sorted(index)
           Places == 1 .. n
           before == {x \in Places \X Places : GoesBefore(index, x[1], x[2])}
<1>1. n \in Nat /\ DOMAIN index = Places /\ Places \subseteq Int
  OBVIOUS
<1>2. \A i \in Places : index[i] \in IndexEntry
  BY ElementOfSeq
<1>3. \A i \in Places : index[i].stamp \in Nat
  BY <1>2 DEF IndexEntry
<1>4. \A i, j \in Places : << i, j >> \in before <=> GoesBefore(index, i, j)
  OBVIOUS
<1> HIDE DEF before
<1>5. Ranks(before, n)
  <2>1. \A i, j, k \in Places :
          /\ ~ GoesBefore(index, i, i)
          /\ i = j \/ GoesBefore(index, i, j) \/ GoesBefore(index, j, i)
          /\ GoesBefore(index, i, j) /\ GoesBefore(index, j, k) => GoesBefore(index, i, k)
    <3> SUFFICES ASSUME NEW i \in Places, NEW j \in Places, NEW k \in Places
                 PROVE  /\ ~ GoesBefore(index, i, i)
                        /\ i = j \/ GoesBefore(index, i, j) \/ GoesBefore(index, j, i)
                        /\ GoesBefore(index, i, j) /\ GoesBefore(index, j, k) => GoesBefore(index, i, k)
      OBVIOUS
    <3> DEFINE x == index[i].stamp
               y == index[j].stamp
               z == index[k].stamp
    <3>1. x \in Nat /\ y \in Nat /\ z \in Nat /\ i \in Int /\ j \in Int /\ k \in Int
      BY <1>1, <1>3
    <3>2. /\ GoesBefore(index, i, i) <=> x < x \/ (x = x /\ i < i)
          /\ GoesBefore(index, i, j) <=> x < y \/ (x = y /\ i < j)
          /\ GoesBefore(index, j, i) <=> y < x \/ (y = x /\ j < i)
          /\ GoesBefore(index, j, k) <=> y < z \/ (y = z /\ j < k)
          /\ GoesBefore(index, i, k) <=> x < z \/ (x = z /\ i < k)
      BY DEF GoesBefore
    <3> HIDE DEF x, y, z
    <3> QED  BY ONLY <3>1, <3>2
  <2> QED  BY <1>4, <2>1 DEF Ranks
<1>6. PICK p, q \in [1 .. n -> 1 .. n] :
        /\ \A i \in 1 .. n : q[p[i]] = i /\ p[q[i]] = i
        /\ \A k \in 1 .. n : q[k] = CHOOSE i \in 1 .. n : Rank(before, n, i) = k - 1
        /\ \A k, l \in 1 .. n : k < l => << q[k], q[l] >> \in before
  BY <1>1, <1>5, RankIs
<1>7. \A i \in Places : {j \in 1 .. n : << j, i >> \in before}
                          = {j \in DOMAIN index : GoesBefore(index, j, i)}
  BY <1>1, <1>4
<1>8. \A i \in Places : Rank(before, n, i) = Cardinality({j \in DOMAIN index : GoesBefore(index, j, i)})
  BY <1>7 DEF Rank
<1>9. ASSUME NEW k \in Places  PROVE DOMAIN sorted = Places /\ sorted[k] = index[q[k]]
  <2> DEFINE C == {i \in Places : Rank(before, n, i) = k - 1}
             D == {i \in DOMAIN index :
                     Cardinality({j \in DOMAIN index : GoesBefore(index, j, i)}) = k - 1}
  <2>1. C = D
    BY <1>1, <1>8
  <2>2. (CHOOSE i \in 1 .. n : Rank(before, n, i) = k - 1) = (CHOOSE i : i \in C)
    OBVIOUS
  <2>3. (CHOOSE i \in DOMAIN index :
           Cardinality({j \in DOMAIN index : GoesBefore(index, j, i)}) = k - 1) = (CHOOSE i : i \in D)
    OBVIOUS
  <2>4. DOMAIN sorted = Places /\ sorted[k] = index[CHOOSE i \in DOMAIN index :
           Cardinality({j \in DOMAIN index : GoesBefore(index, j, i)}) = k - 1]
    BY <1>1 DEF Sorted
  <2> QED  BY <1>6, <2>1, <2>2, <2>3, <2>4
<1>10. DOMAIN sorted = Places
  BY <1>1 DEF Sorted
<1> HIDE DEF sorted
<1>11. \A k \in Places : sorted[k] \in IndexEntry /\ sorted[k] = index[q[k]]
  BY <1>2, <1>6, <1>9
<1>12. sorted \in [Places -> IndexEntry]
  <2>1. sorted = [k \in Places |-> sorted[k]]
    BY <1>10 DEF sorted, Sorted
  <2> QED  BY <1>11, <2>1
<1>13. sorted \in Seq(IndexEntry) /\ Len(sorted) = n
  BY <1>1, <1>12
<1>14. \A k, l \in 1 .. n : k < l => GoesBefore(index, q[k], q[l])
  BY <1>4, <1>6
<1> QED  BY <1>1, <1>6, <1>10, <1>11, <1>13, <1>14, ZenonT(60) DEF sorted

LEMMA SortedRanges ==
  ASSUME NEW index \in Seq(IndexEntry)
  PROVE  /\ Sorted(index) \in Seq(IndexEntry)
         /\ Rearranged(PacketRanges(index), PacketRanges(Sorted(index)))
<1> DEFINE n == Len(index)
           sorted == Sorted(index)
           a == PacketRanges(index)
           b == PacketRanges(sorted)
<1>1. /\ n \in Nat /\ sorted \in Seq(IndexEntry) /\ Len(sorted) = n
      /\ \E p, q \in [1 .. n -> 1 .. n] :
           /\ \A i \in 1 .. n : q[p[i]] = i /\ p[q[i]] = i
           /\ \A k \in 1 .. n : sorted[k] = index[q[k]]
           /\ \A k, l \in 1 .. n : k < l => GoesBefore(index, q[k], q[l])
  BY SortedIs
<1> HIDE DEF sorted, n
<1>2. Len(a) = n /\ Len(b) = n /\ \A k \in 1 .. n : a[k] = index[k].range /\ b[k] = sorted[k].range
  BY <1>1, PacketRangesAre DEF n
<1>3. PICK p, q \in [1 .. n -> 1 .. n] :
        /\ \A i \in 1 .. n : q[p[i]] = i /\ p[q[i]] = i
        /\ \A k \in 1 .. n : sorted[k] = index[q[k]]
        /\ \A k, l \in 1 .. n : k < l => GoesBefore(index, q[k], q[l])
  BY <1>1
<1> HIDE DEF a, b
<1>4. \A i \in 1 .. n : p[i] \in 1 .. n
  BY <1>3
<1>5. ASSUME NEW i \in 1 .. n  PROVE a[i] = b[p[i]]
  <2>1. sorted[p[i]] = index[q[p[i]]] /\ q[p[i]] = i
    BY <1>3, <1>4
  <2>2. a[i] = index[i].range /\ b[p[i]] = sorted[p[i]].range
    BY <1>2, <1>4
  <2> QED  BY <2>1, <2>2
<1>6. Moves(a, b, p, q)
  BY <1>2, <1>3, <1>5 DEF Moves
<1> QED  BY <1>1, <1>2, <1>6 DEF Rearranged, a, b, sorted

\* The packets are in order of time, those with the same time in the order of the input.
Arranged(index, got, F) ==
  /\ \A f \in F : Holds(PacketRanges(index), got[f].at)
  /\ \A f, g \in F :
       got[f].stamp < got[g].stamp \/ (got[f].stamp = got[g].stamp /\ f < g)
         => Ahead(PacketRanges(index), got[f].at, got[g].at)

LEMMA SortedArranged ==
  ASSUME NEW index \in Seq(IndexEntry), NEW got, NEW F, NEW base, Listed(index, got, F, base)
  PROVE  Arranged(Sorted(index), got, F)
<1> DEFINE n == Len(index)
           sorted == Sorted(index)
           b == PacketRanges(sorted)
<1>1. /\ n \in Nat /\ sorted \in Seq(IndexEntry) /\ Len(sorted) = n
      /\ \E p, q \in [1 .. n -> 1 .. n] :
           /\ \A i \in 1 .. n : q[p[i]] = i /\ p[q[i]] = i
           /\ \A k \in 1 .. n : sorted[k] = index[q[k]]
           /\ \A k, l \in 1 .. n : k < l => GoesBefore(index, q[k], q[l])
  BY SortedIs
<1> HIDE DEF sorted
<1>2. /\ base \in Nat /\ F = base + 1 .. base + n
      /\ \A k \in 1 .. n : index[k].stamp = got[base + k].stamp /\ got[base + k].at \in Bytes(index[k].range)
  BY DEF Listed
<1> HIDE DEF n
<1>3. PICK p, q \in [1 .. n -> 1 .. n] :
        /\ \A i \in 1 .. n : q[p[i]] = i /\ p[q[i]] = i
        /\ \A k \in 1 .. n : sorted[k] = index[q[k]]
        /\ \A k, l \in 1 .. n : k < l => GoesBefore(index, q[k], q[l])
  BY <1>1
<1>4. DOMAIN b = 1 .. n /\ \A k \in 1 .. n : b[k] = sorted[k].range
  BY <1>1, PacketRangesAre
<1> HIDE DEF b
<1>5. \A i \in 1 .. n : p[i] \in 1 .. n /\ sorted[p[i]] = index[i]
  <2>1. \A i \in 1 .. n : p[i] \in 1 .. n
    BY <1>3
  <2> QED  BY <1>3, <2>1
<1>6. \A i \in 1 .. n : p[i] \in DOMAIN b /\ got[base + i].at \in Bytes(b[p[i]])
  BY <1>2, <1>4, <1>5
<1>7. ASSUME NEW f \in F  PROVE f - base \in 1 .. n /\ base + (f - base) = f
  BY <1>1, <1>2
<1>8. ASSUME NEW f \in F  PROVE Holds(b, got[f].at)
  <2> DEFINE i == f - base
  <2>1. i \in 1 .. n /\ base + i = f
    BY <1>7
  <2> HIDE DEF i
  <2>2. got[base + i].at \in Bytes(b[p[i]]) /\ p[i] \in DOMAIN b
    BY <1>6, <2>1
  <2> QED  BY <2>1, <2>2 DEF Holds
<1>9. ASSUME NEW f \in F, NEW g \in F,
             got[f].stamp < got[g].stamp \/ (got[f].stamp = got[g].stamp /\ f < g)
      PROVE  Ahead(b, got[f].at, got[g].at)
  <2> DEFINE i == f - base
             j == g - base
  <2>1. i \in 1 .. n /\ base + i = f /\ j \in 1 .. n /\ base + j = g /\ (f < g => i < j)
    BY <1>1, <1>2, <1>7
  <2> HIDE DEF i, j
  <2>2. index[i].stamp = got[f].stamp /\ index[j].stamp = got[g].stamp
    BY <1>2, <2>1
  <2>3. GoesBefore(index, i, j)
    BY <1>9, <2>1, <2>2 DEF GoesBefore
  <2>4. ~ GoesBefore(index, j, i) /\ i # j
    <3>1. index[i] \in IndexEntry /\ index[j] \in IndexEntry
      BY <2>1, ElementOfSeq DEF n
    <3> DEFINE x == index[i].stamp
               y == index[j].stamp
    <3>2. x \in Nat /\ y \in Nat /\ i \in Int /\ j \in Int
      <4>1. x \in Nat /\ y \in Nat
        BY <3>1 DEF IndexEntry
      <4>2. i \in Int /\ j \in Int
        BY <1>1, <2>1
      <4> QED  BY <4>1, <4>2
    <3>3. /\ x < y \/ (x = y /\ i < j)
          /\ GoesBefore(index, j, i) <=> y < x \/ (y = x /\ j < i)
      BY <2>3 DEF GoesBefore
    <3>4. i = j => x = y
      OBVIOUS
    <3> HIDE DEF x, y
    <3> QED  BY ONLY <3>2, <3>3, <3>4
  <2>5. p[i] \in 1 .. n /\ p[j] \in 1 .. n /\ q[p[i]] = i /\ q[p[j]] = j
    BY <1>3, <1>5, <2>1
  <2>6. p[i] < p[j]
    <3>1. ~ (p[j] < p[i])
      BY <1>3, <2>4, <2>5
    <3>2. p[i] # p[j]
      BY <2>4, <2>5
    <3> DEFINE u == p[i]
               w == p[j]
    <3>3. u \in 1 .. n /\ w \in 1 .. n
      BY <2>5
    <3>4. ~ (w < u) /\ u # w
      BY <3>1, <3>2
    <3> HIDE DEF u, w
    <3>5. u < w
      BY ONLY <1>1, <3>3, <3>4
    <3> QED  BY <3>5 DEF u, w
  <2>7. /\ p[i] \in DOMAIN b /\ got[f].at \in Bytes(b[p[i]])
        /\ p[j] \in DOMAIN b /\ got[g].at \in Bytes(b[p[j]])
    BY <1>6, <2>1
  <2> QED  BY <2>6, <2>7 DEF Ahead
<1> QED  BY <1>8, <1>9 DEF Arranged, b, sorted

SortedSection(cs) == [cs EXCEPT !.scan.index = Sorted(@)]

LEMMA SectionSorted ==
  ASSUME NEW cs, NEW got, NEW from, NEW to, SectionIs(cs, got, from, to)
  PROVE  /\ SectionIs(SortedSection(cs), got, from, to) /\ SortedSection(cs) \in ClosedSections
         /\ SortedSection(cs).prefix = cs.prefix
         /\ SortedSection(cs).scan.index = Sorted(cs.scan.index)
<1> DEFINE d == SortedSection(cs)
           index == cs.scan.index
           sorted == Sorted(index)
           scan == [cs.scan EXCEPT !.index = sorted]
<1>1. /\ cs \in ClosedSections /\ from \in Nat /\ to \in Nat /\ from < to
      /\ cs.prefix[1] = from /\ cs.prefix[2] > 0
      /\ Tile(Ranges(cs), from, to)
      /\ Judged(cs.scan.misplaced, got, Within(got, from, to))
      /\ EndToEnd => Fronted(cs, from, to)
  BY SectionParts
<1>2. /\ cs.scan \in Scans /\ index \in Seq(IndexEntry)
      /\ Opening(cs) \in Seq(ByteRange) /\ PacketRanges(index) \in Seq(ByteRange)
      /\ cs.suffix \in Seq(ByteRange)
      /\ Ranges(cs) \in Seq(ByteRange)
      /\ Ranges(cs) = (Opening(cs) \o PacketRanges(index)) \o cs.suffix
  BY <1>1, ClosedFields
<1>3. sorted \in Seq(IndexEntry) /\ Rearranged(PacketRanges(index), PacketRanges(sorted))
  BY <1>2, SortedRanges
<1> HIDE DEF sorted
<1>4. scan \in Scans /\ scan.index = sorted /\ scan.misplaced = cs.scan.misplaced
  BY <1>2, <1>3 DEF Scans, IndexEntry
<1>5. d = [cs EXCEPT !.scan = scan]
  BY <1>1, <1>2 DEF sorted, ClosedSections, Scans, SortedSection
<1> HIDE DEF scan, d
<1>6. /\ d \in ClosedSections /\ d.prefix = cs.prefix /\ d.late_idbs = cs.late_idbs
      /\ d.scan = scan /\ d.suffix = cs.suffix
  BY <1>1, <1>4, <1>5 DEF ClosedSections
<1>7. Opening(d) = Opening(cs)
  BY <1>6 DEF Opening
<1>8. Ranges(d) \in Seq(ByteRange) /\ Ranges(d) = (Opening(cs) \o PacketRanges(sorted)) \o cs.suffix
  BY <1>4, <1>6, <1>7, ClosedFields
<1>9. Rearranged(Ranges(cs), Ranges(d))
  <2> DEFINE o == Opening(cs)
             x == PacketRanges(index)
             y == PacketRanges(sorted)
             z == cs.suffix
  <2>1. o \in Seq(ByteRange) /\ x \in Seq(ByteRange) /\ y \in Seq(ByteRange) /\ z \in Seq(ByteRange)
        /\ Rearranged(x, y)
    BY <1>2, <1>3, PacketRangesAre
  <2>2. Ranges(cs) = (o \o x) \o z /\ Ranges(d) = (o \o y) \o z
    BY <1>2, <1>8
  <2> HIDE DEF o, x, y, z
  <2>3. Rearranged(o, o) /\ Rearranged(z, z)
    BY <2>1, RearrangedSelf
  <2>4. Rearranged(o \o x, o \o y) /\ o \o x \in Seq(ByteRange) /\ o \o y \in Seq(ByteRange)
    BY <2>1, <2>3, RearrangedConcat
  <2>5. Rearranged((o \o x) \o z, (o \o y) \o z)
    BY <2>1, <2>3, <2>4, RearrangedConcat
  <2> QED  BY <2>2, <2>5
<1>10. Tile(Ranges(d), from, to)
  BY <1>1, <1>2, <1>8, <1>9, TileRearranged
<1>11. EndToEnd => Fronted(d, from, to)
  BY <1>1, <1>7 DEF Fronted
<1>12. Judged(d.scan.misplaced, got, Within(got, from, to))
  BY <1>1, <1>4, <1>6
<1>13. SectionIs(d, got, from, to)
  BY <1>1, <1>6, <1>10, <1>11, <1>12 DEF SectionIs
<1> QED  BY <1>4, <1>6, <1>13 DEF sorted, d

SectionsArranged(secs, got, last) ==
  \A s \in 1 .. Len(secs) : Arranged(secs[s].scan.index, got, FramesOf(secs, got, last, s))

LEMMA SortStep ==
  ASSUME NEW secs, NEW got, ScannedIs(secs, got), SectionsListed(secs, got, capture.size),
         NEW more, more = [s \in DOMAIN secs |-> [secs[s] EXCEPT !.scan.index = Sorted(@)]]
  PROVE  ScannedIs(more, got) /\ SectionsArranged(more, got, capture.size)
<1> DEFINE l == Len(secs)
           size == capture.size
<1>1. /\ secs \in Seq(ClosedSections) /\ size \in Nat /\ Edge(secs, size, 1) = 0
      /\ \A s \in 1 .. l : SectionIs(secs[s], got, Edge(secs, size, s), Edge(secs, size, s + 1))
      /\ \A s \in 1 .. l : \E b : Listed(secs[s].scan.index, got,
                                         Within(got, Edge(secs, size, s), Edge(secs, size, s + 1)), b)
  BY DEF ScannedIs, Sectioned, SectionsListed, FramesOf
<1>2. l \in Nat /\ DOMAIN secs = 1 .. l
  BY <1>1
<1>3. \A s \in 1 .. l : more[s] = SortedSection(secs[s])
  BY <1>2 DEF SortedSection
<1>4. DOMAIN more = 1 .. l
  BY <1>2
<1> HIDE DEF l, size
<1>5. ASSUME NEW s \in 1 .. l
      PROVE  /\ SectionIs(more[s], got, Edge(secs, size, s), Edge(secs, size, s + 1))
             /\ more[s] \in ClosedSections /\ more[s].prefix = secs[s].prefix
             /\ Arranged(more[s].scan.index, got, Within(got, Edge(secs, size, s), Edge(secs, size, s + 1)))
  <2> DEFINE cs == secs[s]
             d == more[s]
             from == Edge(secs, size, s)
             to == Edge(secs, size, s + 1)
  <2>1. SectionIs(cs, got, from, to) /\ d = SortedSection(cs)
    BY <1>1, <1>3
  <2>2. PICK b : Listed(cs.scan.index, got, Within(got, from, to), b)
    BY <1>1
  <2> HIDE DEF cs, d, from, to
  <2>3. /\ SectionIs(d, got, from, to) /\ d \in ClosedSections
        /\ d.prefix = cs.prefix /\ d.scan.index = Sorted(cs.scan.index)
    BY <2>1, SectionSorted
  <2>4. cs.scan.index \in Seq(IndexEntry)
    BY <2>1, SectionParts, ClosedFields
  <2>5. Arranged(d.scan.index, got, Within(got, from, to))
    BY <2>2, <2>3, <2>4, SortedArranged
  <2> QED  BY <2>3, <2>5 DEF cs, d, from, to
<1>6. more \in Seq(ClosedSections) /\ Len(more) = l
  <2>1. more = [s \in 1 .. l |-> more[s]]
    BY <1>2
  <2>2. more \in [1 .. l -> ClosedSections]
    BY ONLY <1>5, <2>1
  <2> QED  BY <1>2, <2>2
<1>7. \A s \in 1 .. l + 1 : Edge(more, size, s) = Edge(secs, size, s)
  <2> SUFFICES ASSUME NEW s \in 1 .. l + 1  PROVE Edge(more, size, s) = Edge(secs, size, s)
    OBVIOUS
  <2>1. CASE s \in 1 .. l
    <3>1. more[s].prefix = secs[s].prefix
      BY <1>5, <2>1
    <3> QED  BY <1>6, <3>1 DEF Edge, l
  <2>2. CASE s = l + 1
    <3>1. s > Len(more) /\ s > Len(secs)
      BY <1>2, <1>6, <2>2 DEF l
    <3> QED  BY <3>1 DEF Edge
  <2> QED  BY <1>2, <2>1, <2>2
<1>8. \A s \in 1 .. l : s \in 1 .. l + 1 /\ s + 1 \in 1 .. l + 1
  BY <1>2
<1>9. \A s \in 1 .. l : /\ SectionIs(more[s], got, Edge(more, size, s), Edge(more, size, s + 1))
                        /\ Arranged(more[s].scan.index, got, Within(got, Edge(more, size, s), Edge(more, size, s + 1)))
  BY <1>5, <1>7, <1>8
<1>10. Edge(more, size, 1) = 0
  <2>1. 1 \in 1 .. l + 1
    BY <1>2
  <2> QED  BY <1>1, <1>7, <2>1
<1>11. Sectioned(more, got, size)
  BY <1>1, <1>6, <1>9, <1>10 DEF Sectioned
<1>12. SectionsArranged(more, got, size)
  BY <1>6, <1>9 DEF SectionsArranged, FramesOf
<1>13. capture.format = "pcap" => Len(more) = 1
  BY <1>6 DEF ScannedIs, l
<1>14. ScannedIs(more, got)
  BY <1>11, <1>13 DEF ScannedIs, size
<1> QED  BY <1>12, <1>14 DEF size

-----------------------------------------------------------------------------
(* What is written                                                         *)

\* A byte is in a section.
In(secs, last, s, b) == Edge(secs, last, s) <= b /\ b < Edge(secs, last, s + 1)

WrittenFrom(secs) == FlattenSeq([s \in DOMAIN secs |-> Ranges(secs[s])])

LEMMA WrittenIs ==
  ASSUME NEW secs, NEW got, NEW last, Sectioned(secs, got, last),
         NEW out, out = WrittenFrom(secs)
  PROVE  /\ out \in Seq(ByteRange) /\ Tile(out, 0, last)
         /\ \A s \in 1 .. Len(secs) : \A x, y : Ahead(Ranges(secs[s]), x, y) => Ahead(out, x, y)
         /\ \A s, t \in 1 .. Len(secs) : \A x, y \in Nat :
              s < t /\ In(secs, last, s, x) /\ In(secs, last, t, y) => x < y /\ Ahead(out, x, y)
         /\ \A b \in Nat : b < last => \E s \in 1 .. Len(secs) : In(secs, last, s, b)
         /\ \A s \in 1 .. Len(secs) : \A x \in Nat : In(secs, last, s, x) => x < last
<1> DEFINE l == Len(secs)
           parts == [s \in DOMAIN secs |-> Ranges(secs[s])]
           B == [s \in 1 .. l + 1 |-> Edge(secs, last, s)]
<1>1. /\ parts \in Seq(Seq(ByteRange)) /\ Len(parts) = l /\ l \in Nat
      /\ \A s \in 1 .. l : parts[s] = Ranges(secs[s])
      /\ Pieces(parts, B) /\ B[l + 1] = last
      /\ \A s \in 1 .. l + 1 : B[s] = Edge(secs, last, s) /\ B[s] \in Nat
  BY SectionedPieces
<1>2. out = FlattenSeq(parts)
  BY DEF WrittenFrom
<1> HIDE DEF l, parts, B
<1>3. /\ \A s, t \in 1 .. l + 1 : s < t => B[s] < B[t]
      /\ \A b \in 0 .. B[l + 1] - 1 : \E s \in 1 .. l : B[s] <= b /\ b < B[s + 1]
  BY <1>1, PiecesGrow
<1>4. /\ Tile(out, 0, last)
      /\ \A s \in 1 .. l : \A x, y : Ahead(parts[s], x, y) => Ahead(out, x, y)
      /\ \A s, t \in 1 .. l : s < t =>
           \A x \in B[s] .. B[s + 1] - 1, y \in B[t] .. B[t + 1] - 1 : Ahead(out, x, y)
  <2>1. /\ Tile(FlattenSeq(parts), 0, B[Len(parts) + 1])
        /\ \A s \in 1 .. Len(parts) : \A x, y : Ahead(parts[s], x, y) => Ahead(FlattenSeq(parts), x, y)
        /\ \A s, t \in 1 .. Len(parts) : s < t =>
             \A x \in B[s] .. B[s + 1] - 1, y \in B[t] .. B[t + 1] - 1 : Ahead(FlattenSeq(parts), x, y)
    BY <1>1, JoinedTiles
  <2>2. Len(parts) = l /\ B[l + 1] = last
    BY <1>1
  <2> QED  BY ONLY <1>2, <2>1, <2>2
<1>5. \A s \in 1 .. l : /\ s \in 1 .. l + 1 /\ s + 1 \in 1 .. l + 1
                        /\ \A b : In(secs, last, s, b) <=> B[s] <= b /\ b < B[s + 1]
  <2>1. \A s \in 1 .. l : s \in 1 .. l + 1 /\ s + 1 \in 1 .. l + 1
    BY <1>1
  <2> QED  BY <1>1, <2>1 DEF In
<1>6. out \in Seq(ByteRange)
  BY <1>1, <1>2, JoinedIs
<1>7. ASSUME NEW s \in 1 .. l, NEW t \in 1 .. l, NEW x \in Nat, NEW y \in Nat,
             s < t, In(secs, last, s, x), In(secs, last, t, y)
      PROVE  x < y /\ Ahead(out, x, y)
  <2> DEFINE i == B[s]
             j == B[s + 1]
             k == B[t]
             m == B[t + 1]
  <2>1. i \in Nat /\ j \in Nat /\ k \in Nat /\ m \in Nat
    BY <1>1, <1>5
  <2>2. i <= x /\ x < j /\ k <= y /\ y < m
    BY <1>5, <1>7
  <2>3. j <= k
    <3>1. s + 1 = t \/ s + 1 < t
      BY <1>1, <1>7
    <3> QED  BY <1>3, <1>5, <2>1, <3>1
  <2>4. x \in i .. j - 1 /\ y \in k .. m - 1 /\ x < y
    <3> HIDE DEF i, j, k, m
    <3> QED  BY <2>1, <2>2, <2>3
  <2> QED  BY <1>4, <1>7, <2>4
<1>8. ASSUME NEW b \in Nat, b < last  PROVE \E s \in 1 .. l : In(secs, last, s, b)
  <2>1. last \in Nat
    BY DEF Sectioned
  <2>2. b \in 0 .. last - 1
    BY <1>8, <2>1
  <2> QED  BY <1>1, <1>3, <1>5, <2>2
<1>9. ASSUME NEW s \in 1 .. l, NEW x \in Nat, In(secs, last, s, x)  PROVE x < last
  <2> DEFINE j == B[s + 1]
  <2>1. j \in Nat /\ last \in Nat /\ x < j
    BY <1>1, <1>5, <1>9 DEF Sectioned
  <2>2. j <= last
    <3>1. s + 1 = l + 1 \/ s + 1 < l + 1
      BY <1>1
    <3>2. s + 1 \in 1 .. l + 1 /\ l + 1 \in 1 .. l + 1
      BY <1>1
    <3> QED  BY <1>1, <1>3, <2>1, <3>1, <3>2
  <2> HIDE DEF j
  <2> QED  BY <2>1, <2>2
<1>10. \A s \in 1 .. l : \A x, y : Ahead(Ranges(secs[s]), x, y) => Ahead(out, x, y)
  BY <1>1, <1>4
<1> QED  BY <1>4, <1>6, <1>7, <1>8, <1>9, <1>10 DEF l

\* In a sound file the frames of a section are those between its header and the next.
Together(got, f, g) == \A s \in SectionStarts : s < got[f].at <=> s < got[g].at

LEMMA FrameIn ==
  ASSUME capture \in Captures, NEW secs, NEW got, ScannedIs(secs, got), NEW f \in DOMAIN got
  PROVE  /\ got[f].at \in Nat /\ got[f].stamp \in Nat /\ f \in Nat
         /\ \E s \in 1 .. Len(secs) : In(secs, capture.size, s, got[f].at)
         /\ \A s \in 1 .. Len(secs) :
              In(secs, capture.size, s, got[f].at) <=> f \in FramesOf(secs, got, capture.size, s)
<1>1. got \in Seq(Entries) /\ got[f].at < capture.size /\ Sectioned(secs, got, capture.size)
  BY DEF ScannedIs
<1>2. got[f] \in Entries /\ f \in Nat
  BY <1>1, ElementOfSeq
<1>3. got[f].at \in Nat /\ got[f].stamp \in Nat
  BY <1>2 DEF Entries
<1>4. \E s \in 1 .. Len(secs) : In(secs, capture.size, s, got[f].at)
  BY <1>1, <1>3, WrittenIs
<1> QED  BY <1>2, <1>3, <1>4 DEF In, FramesOf, Within

LEMMA SectionAt ==
  ASSUME NEW secs, NEW got, NEW last, Sectioned(secs, got, last), NEW s \in 1 .. Len(secs)
  PROVE  /\ SectionIs(secs[s], got, Edge(secs, last, s), Edge(secs, last, s + 1))
         /\ secs[s] \in ClosedSections
         /\ Edge(secs, last, s) \in Nat /\ Edge(secs, last, s + 1) \in Nat
         /\ Edge(secs, last, s) < Edge(secs, last, s + 1)
         /\ In(secs, last, s, Edge(secs, last, s))
         /\ Judged(secs[s].scan.misplaced, got, FramesOf(secs, got, last, s))
         /\ EndToEnd => Fronted(secs[s], Edge(secs, last, s), Edge(secs, last, s + 1))
<1>1. SectionIs(secs[s], got, Edge(secs, last, s), Edge(secs, last, s + 1))
  BY DEF Sectioned
<1> DEFINE from == Edge(secs, last, s)
           to == Edge(secs, last, s + 1)
<1>2. /\ secs[s] \in ClosedSections /\ from \in Nat /\ to \in Nat /\ from < to
      /\ Judged(secs[s].scan.misplaced, got, Within(got, from, to))
      /\ EndToEnd => Fronted(secs[s], from, to)
  BY <1>1, SectionParts
<1>3. from <= from
  BY <1>2
<1> QED  BY <1>1, <1>2, <1>3 DEF In, FramesOf

LEMMA TogetherIs ==
  ASSUME capture \in Captures, EndToEnd, NEW secs, NEW got, ScannedIs(secs, got),
         NEW f \in DOMAIN got, NEW g \in DOMAIN got,
         NEW s \in 1 .. Len(secs), NEW t \in 1 .. Len(secs),
         In(secs, capture.size, s, got[f].at), In(secs, capture.size, t, got[g].at)
  PROVE  Together(got, f, g) <=> s = t
<1> DEFINE size == capture.size
           x == got[f].at
           y == got[g].at
           out == WrittenFrom(secs)
<1>1. /\ Sectioned(secs, got, size) /\ (capture.format = "pcap" => Len(secs) = 1)
      /\ Len(secs) \in Nat
  BY DEF ScannedIs, Sectioned
<1>2. x \in Nat /\ y \in Nat /\ x \notin SectionStarts /\ y \notin SectionStarts
  BY FrameIn DEF ScannedIs, FramesSound, SoundEntry
<1>3. /\ \A i, j \in 1 .. Len(secs) : \A a, b \in Nat :
           i < j /\ In(secs, size, i, a) /\ In(secs, size, j, b) => a < b
      /\ \A b \in Nat : b < size => \E i \in 1 .. Len(secs) : In(secs, size, i, b)
      /\ \A i \in 1 .. Len(secs) : \A a \in Nat : In(secs, size, i, a) => a < size
  <2> HIDE DEF size
  <2>1. out = WrittenFrom(secs)
    OBVIOUS
  <2> HIDE DEF out
  <2> QED  BY <1>1, <2>1, WrittenIs
<1> HIDE DEF x, y, size, out
<1>4. In(secs, size, s, x) /\ In(secs, size, t, y)
  BY DEF x, y, size
<1>5. Together(got, f, g) <=> \A b \in SectionStarts : b < x <=> b < y
  BY DEF Together, x, y
<1>6. \A i \in 1 .. Len(secs) : \A b \in SectionStarts :
        In(secs, size, i, b) => b = Edge(secs, size, i) /\ capture.format = "pcapng"
  <2> SUFFICES ASSUME NEW i \in 1 .. Len(secs), NEW b \in SectionStarts, In(secs, size, i, b)
               PROVE  b = Edge(secs, size, i) /\ capture.format = "pcapng"
    OBVIOUS
  <2>1. Fronted(secs[i], Edge(secs, size, i), Edge(secs, size, i + 1))
    BY <1>1, SectionAt
  <2>2. b \in {c \in SectionStarts : Edge(secs, size, i) <= c /\ c < Edge(secs, size, i + 1)}
    BY DEF In
  <2>3. b \in IF capture.format = "pcapng" THEN {Edge(secs, size, i)} ELSE {}
    BY <2>1, <2>2 DEF Fronted
  <2> QED  BY <2>3
<1>7. \A i \in 1 .. Len(secs) : capture.format = "pcapng" => Edge(secs, size, i) \in SectionStarts
  <2> SUFFICES ASSUME NEW i \in 1 .. Len(secs), capture.format = "pcapng"
               PROVE  Edge(secs, size, i) \in SectionStarts
    OBVIOUS
  <2>1. Fronted(secs[i], Edge(secs, size, i), Edge(secs, size, i + 1))
    BY <1>1, SectionAt
  <2> QED  BY <2>1 DEF Fronted
<1>8. \A i \in 1 .. Len(secs) : Edge(secs, size, i) \in Nat /\ In(secs, size, i, Edge(secs, size, i))
  BY <1>1, SectionAt
\* Of two frames in different sections, the header of the later one is between them.
<1>9. ASSUME NEW i \in 1 .. Len(secs), NEW j \in 1 .. Len(secs), i < j,
             NEW a \in Nat, NEW b \in Nat, In(secs, size, i, a), In(secs, size, j, b),
             b \notin SectionStarts
      PROVE  \E h \in SectionStarts : h < b /\ ~ (h < a)
  <2> DEFINE h == Edge(secs, size, j)
  <2>1. capture.format = "pcapng"
    <3>1. capture.format \in {"pcap", "pcapng"}
      BY HereIsBlock
    <3>2. Len(secs) # 1
      <4> DEFINE l == Len(secs)
      <4>1. l \in Nat /\ i \in 1 .. l /\ j \in 1 .. l /\ i < j
        BY <1>1, <1>9
      <4> HIDE DEF l
      <4>2. l # 1
        BY ONLY <4>1
      <4> QED  BY <4>2 DEF l
    <3> QED  BY <1>1, <3>1, <3>2
  <2>2. h \in SectionStarts /\ h \in Nat /\ In(secs, size, j, h)
    BY <1>7, <1>8, <2>1
  <2>3. a < h
    BY <1>3, <1>9, <2>2
  <2>4. h <= b /\ h # b
    BY <1>9, <2>2 DEF In
  <2> HIDE DEF h
  <2>5. h < b /\ ~ (h < a)
    BY ONLY <2>2, <2>3, <2>4, a \in Nat, b \in Nat
  <2> QED  BY <2>2, <2>5
<1>10. ASSUME s = t, NEW b \in SectionStarts, NEW u \in Nat, NEW w \in Nat,
              In(secs, size, s, u), In(secs, size, s, w), w \notin SectionStarts, b < u
       PROVE  b < w
  <2>1. b \in Nat /\ b < size
    <3>1. b \in Nat
      BY OffsetsAre
    <3>2. u < size /\ size \in Nat
      BY <1>1, <1>3, <1>10 DEF Sectioned
    <3> QED  BY <1>10, <3>1, <3>2
  <2>2. PICK i \in 1 .. Len(secs) : In(secs, size, i, b)
    BY <1>3, <2>1
  <2>3. CASE i < s
    BY <1>3, <1>10, <2>1, <2>2, <2>3
  <2>4. CASE i = s
    <3>1. b = Edge(secs, size, s)
      BY <1>6, <2>2, <2>4
    <3>2. b <= w /\ b # w
      BY <1>10, <3>1 DEF In
    <3> QED  BY <2>1, <3>2
  <2>5. CASE s < i
    <3>1. u < b
      BY <1>3, <1>10, <2>1, <2>2, <2>5
    <3> QED  BY <1>10, <2>1, <3>1
  <2> QED  BY <1>1, <2>3, <2>4, <2>5
<1>11. s = t => \A b \in SectionStarts : b < x <=> b < y
  BY <1>2, <1>4, <1>10
<1>12. s < t => ~ \A b \in SectionStarts : b < x <=> b < y
  BY <1>2, <1>4, <1>9
<1>13. t < s => ~ \A b \in SectionStarts : b < x <=> b < y
  BY <1>2, <1>4, <1>9
<1>14. s = t \/ s < t \/ t < s
  BY <1>1
<1> QED  BY <1>5, <1>11, <1>12, <1>13, <1>14

-----------------------------------------------------------------------------
(* The file that is written, read again                                    *)

LEMMA WrittenOrdered ==
  ASSUME capture \in Captures, EndToEnd, NEW secs, NEW got, ScannedIs(secs, got),
         SectionsArranged(secs, got, capture.size),
         NEW f \in DOMAIN got, NEW g \in DOMAIN got, Together(got, f, g),
         got[f].stamp < got[g].stamp \/ (got[f].stamp = got[g].stamp /\ f < g)
  PROVE  Ahead(WrittenFrom(secs), got[f].at, got[g].at)
<1> DEFINE size == capture.size
           out == WrittenFrom(secs)
<1>1. Sectioned(secs, got, size)
  BY DEF ScannedIs
<1>2. PICK s \in 1 .. Len(secs) : In(secs, size, s, got[f].at)
  BY FrameIn
<1>3. PICK t \in 1 .. Len(secs) : In(secs, size, t, got[g].at)
  BY FrameIn
<1>4. s = t
  BY <1>2, <1>3, TogetherIs
<1> DEFINE cs == secs[s]
<1>5. f \in FramesOf(secs, got, size, s) /\ g \in FramesOf(secs, got, size, s)
  BY <1>2, <1>3, <1>4, FrameIn
<1>6. Arranged(cs.scan.index, got, FramesOf(secs, got, size, s))
  BY DEF SectionsArranged
<1>7. Ahead(PacketRanges(cs.scan.index), got[f].at, got[g].at)
  BY <1>5, <1>6 DEF Arranged
<1>8. Ahead(Ranges(cs), got[f].at, got[g].at)
  <2>1. cs \in ClosedSections
    BY <1>1, SectionAt
  <2> DEFINE o == Opening(cs)
             p == PacketRanges(cs.scan.index)
             z == cs.suffix
  <2>2. /\ o \in Seq(ByteRange) /\ p \in Seq(ByteRange) /\ z \in Seq(ByteRange)
        /\ Ranges(cs) = (o \o p) \o z /\ Ahead(p, got[f].at, got[g].at)
    BY <1>7, <2>1, ClosedFields
  <2> HIDE DEF o, p, z
  <2>3. Ahead(o \o p, got[f].at, got[g].at) /\ o \o p \in Seq(ByteRange)
    BY <2>2, AheadConcat, ConcatRanges
  <2>4. Ahead((o \o p) \o z, got[f].at, got[g].at)
    BY <2>2, <2>3, AheadConcat
  <2> QED  BY <2>2, <2>4
<1> HIDE DEF cs
<1>9. \A i \in 1 .. Len(secs) : \A x, y : Ahead(Ranges(secs[i]), x, y) => Ahead(out, x, y)
  BY <1>1, WrittenIs
<1> QED  BY <1>8, <1>9 DEF cs

\* Where the bytes of a section are in what is written of it.
LEMMA SectionAhead ==
  ASSUME NEW cs \in ClosedSections, NEW x, NEW y
  PROVE  /\ Ahead(Opening(cs), x, y) => Ahead(Ranges(cs), x, y)
         /\ Holds(Opening(cs), x) /\ Holds(PacketRanges(cs.scan.index), y) => Ahead(Ranges(cs), x, y)
<1> DEFINE o == Opening(cs)
           p == PacketRanges(cs.scan.index)
           z == cs.suffix
<1>1. /\ o \in Seq(ByteRange) /\ p \in Seq(ByteRange) /\ z \in Seq(ByteRange)
      /\ Ranges(cs) = (o \o p) \o z
  BY ClosedFields
<1> HIDE DEF o, p, z
<1>2. o \o p \in Seq(ByteRange)
  BY <1>1, ConcatRanges
<1>3. Ahead(o, x, y) => Ahead(o \o p, x, y)
  BY <1>1, AheadConcat
<1>4. Holds(o, x) /\ Holds(p, y) => Ahead(o \o p, x, y)
  BY <1>1, AheadConcat
<1>5. Ahead(o \o p, x, y) => Ahead((o \o p) \o z, x, y)
  BY <1>1, <1>2, AheadConcat
<1> QED  BY <1>1, <1>3, <1>4, <1>5 DEF o, p, z

\* Interfaces keep their order, in the whole file.
LEMMA InterfacesOrdered ==
  ASSUME capture \in Captures, EndToEnd, NEW secs, NEW got, ScannedIs(secs, got),
         NEW d \in Interfaces, d < capture.size
  PROVE  {e \in Interfaces : Ahead(WrittenFrom(secs), e, d)} = IdbsBefore(d)
<1> DEFINE size == capture.size
           out == WrittenFrom(secs)
<1>1. Sectioned(secs, got, size) /\ size \in Nat /\ Interfaces \subseteq Nat /\ Len(secs) \in Nat
  BY OffsetsAre DEF ScannedIs, Sectioned
<1>2. /\ out \in Seq(ByteRange) /\ Tile(out, 0, size)
      /\ \A s \in 1 .. Len(secs) : \A x, y : Ahead(Ranges(secs[s]), x, y) => Ahead(out, x, y)
      /\ \A s, t \in 1 .. Len(secs) : \A x, y \in Nat :
           s < t /\ In(secs, size, s, x) /\ In(secs, size, t, y) => x < y /\ Ahead(out, x, y)
      /\ \A b \in Nat : b < size => \E s \in 1 .. Len(secs) : In(secs, size, s, b)
  BY <1>1, WrittenIs
<1> HIDE DEF out, size
<1>3. ASSUME NEW a \in Interfaces, NEW b \in Interfaces, a < b, b < size  PROVE Ahead(out, a, b)
  <2>1. a \in Nat /\ b \in Nat /\ a < size
    BY <1>1, <1>3
  <2>2. PICK s \in 1 .. Len(secs) : In(secs, size, s, a)
    BY <1>2, <2>1
  <2>3. PICK t \in 1 .. Len(secs) : In(secs, size, t, b)
    BY <1>2, <1>3, <2>1
  <2>4. CASE s < t
    BY <1>2, <2>1, <2>2, <2>3, <2>4
  <2>5. CASE s = t
    <3>1. Fronted(secs[s], Edge(secs, size, s), Edge(secs, size, s + 1)) /\ secs[s] \in ClosedSections
      BY <1>1, SectionAt
    <3>2. Edge(secs, size, s) <= a /\ b < Edge(secs, size, s + 1)
      BY <2>2, <2>3, <2>5 DEF In
    <3>3. Ahead(Opening(secs[s]), a, b)
      BY <1>3, <3>1, <3>2 DEF Fronted
    <3>4. Ahead(Ranges(secs[s]), a, b)
      BY <3>1, <3>3, SectionAhead
    <3> QED  BY <1>2, <3>4
  <2>6. CASE t < s
    <3>1. b < a
      BY <1>2, <2>1, <2>2, <2>3, <2>6
    <3> QED  BY <1>3, <2>1, <3>1
  <2> QED  BY <1>1, <2>4, <2>5, <2>6
<1>4. ASSUME NEW a, NEW b, Ahead(out, a, b)  PROVE a < size /\ a # b /\ ~ Ahead(out, b, a)
  <2>1. DOMAIN out \subseteq Int
    BY <1>2
  <2>2. a \in 0 .. size - 1 /\ a # b /\ ~ Ahead(out, b, a)
    <3> DEFINE z == 0
    <3>1. z \in Nat /\ Tile(out, z, size)
      BY <1>2
    <3> HIDE DEF z
    <3>2. a \in z .. size - 1 /\ a # b /\ ~ Ahead(out, b, a)
      BY <1>1, <1>4, <2>1, <3>1, AheadOneWay
    <3> QED  BY <3>2 DEF z
  <2> QED  BY <1>1, <2>2
<1>5. d < size
  BY DEF size
<1>6. \A e \in Interfaces : Ahead(out, e, d) <=> e < d
  <2> SUFFICES ASSUME NEW e \in Interfaces  PROVE Ahead(out, e, d) <=> e < d
    OBVIOUS
  <2>1. d \in Nat /\ e \in Nat
    BY <1>1
  <2>2. e < d => Ahead(out, e, d)
    BY <1>3, <1>5
  <2>3. Ahead(out, e, d) => e < size /\ e # d /\ ~ Ahead(out, d, e)
    BY <1>4
  <2>4. d < e /\ e < size => Ahead(out, d, e)
    BY <1>3
  <2>5. e < d \/ e = d \/ d < e
    BY <2>1
  <2> QED  BY <2>2, <2>3, <2>4, <2>5
<1> QED  BY <1>6 DEF IdbsBefore, out

\* The header of its section, and no other later one, is before every packet.
LEMMA HeadersOrdered ==
  ASSUME capture \in Captures, EndToEnd, NEW secs, NEW got, ScannedIs(secs, got),
         SectionsArranged(secs, got, capture.size), NEW f \in DOMAIN got, NEW h \in SectionStarts
  PROVE  Ahead(WrittenFrom(secs), h, got[f].at) <=> h < got[f].at
<1> DEFINE size == capture.size
           out == WrittenFrom(secs)
           x == got[f].at
<1>1. Sectioned(secs, got, size) /\ size \in Nat /\ SectionStarts \subseteq Nat /\ Len(secs) \in Nat
  BY OffsetsAre DEF ScannedIs, Sectioned
<1>2. /\ out \in Seq(ByteRange) /\ Tile(out, 0, size)
      /\ \A s \in 1 .. Len(secs) : \A a, b : Ahead(Ranges(secs[s]), a, b) => Ahead(out, a, b)
      /\ \A s, t \in 1 .. Len(secs) : \A a, b \in Nat :
           s < t /\ In(secs, size, s, a) /\ In(secs, size, t, b) => a < b /\ Ahead(out, a, b)
      /\ \A b \in Nat : b < size => \E s \in 1 .. Len(secs) : In(secs, size, s, b)
  BY <1>1, WrittenIs
<1>3. x \in Nat /\ x < size /\ x \notin SectionStarts
  BY FrameIn DEF ScannedIs, FramesSound, SoundEntry
<1>4. PICK t \in 1 .. Len(secs) : In(secs, size, t, x) /\ f \in FramesOf(secs, got, size, t)
  BY FrameIn
<1>5. Holds(PacketRanges(secs[t].scan.index), x)
  BY <1>4 DEF SectionsArranged, Arranged
<1> HIDE DEF out, size, x
<1>6. h \in Nat /\ h # x
  BY <1>1, <1>3
<1>7. ASSUME NEW a, NEW b, Ahead(out, a, b)  PROVE a < size /\ ~ Ahead(out, b, a)
  <2>1. DOMAIN out \subseteq Int
    BY <1>2
  <2> DEFINE z == 0
  <2>2. z \in Nat /\ Tile(out, z, size)
    BY <1>2
  <2> HIDE DEF z
  <2>3. a \in z .. size - 1 /\ ~ Ahead(out, b, a)
    BY <1>1, <1>7, <2>1, <2>2, AheadOneWay
  <2> QED  BY <1>1, <2>3 DEF z
<1>8. ASSUME h < size  PROVE Ahead(out, h, x) <=> h < x
  <2>1. PICK s \in 1 .. Len(secs) : In(secs, size, s, h)
    BY <1>2, <1>6, <1>8
  <2>2. CASE s < t
    BY <1>2, <1>3, <1>4, <1>6, <2>1, <2>2
  <2>3. CASE t < s
    <3>1. x < h /\ Ahead(out, x, h)
      BY <1>2, <1>3, <1>4, <1>6, <2>1, <2>3
    <3>2. ~ Ahead(out, h, x)
      BY <1>7, <3>1
    <3> QED  BY <1>3, <1>6, <3>1, <3>2
  <2>4. CASE s = t
    <3>1. /\ Fronted(secs[s], Edge(secs, size, s), Edge(secs, size, s + 1))
          /\ secs[s] \in ClosedSections
          /\ SectionIs(secs[s], got, Edge(secs, size, s), Edge(secs, size, s + 1))
      BY <1>1, SectionAt
    <3>2. h \in {c \in SectionStarts : Edge(secs, size, s) <= c /\ c < Edge(secs, size, s + 1)}
      BY <2>1 DEF In
    <3>3. h = Edge(secs, size, s)
      BY <3>1, <3>2 DEF Fronted
    <3>4. h <= x
      BY <1>4, <2>4, <3>3 DEF In
    <3>5. Holds(Opening(secs[s]), h)
      <4> DEFINE p == secs[s].prefix
                 late == secs[s].late_idbs
      <4>1. p \in ByteRange /\ late \in Seq(ByteRange) /\ p[1] = h /\ p[2] > 0
        BY <3>1, <3>3, SectionParts, ClosedFields, ZenonT(60)
      <4>2. Opening(secs[s]) = << p >> \o late
        BY DEF Opening
      <4> HIDE DEF p, late
      <4>3. h \in Bytes(p)
        BY <1>6, <4>1, BytesAre
      <4> DEFINE q == << p >>
      <4>4. q \in Seq(ByteRange) /\ DOMAIN q = {1} /\ q[1] = p
        BY <4>1
      <4> HIDE DEF q
      <4>5. Holds(q, h)
        BY <4>3, <4>4 DEF Holds
      <4>6. Holds(q \o late, h)
        BY <4>1, <4>4, <4>5, AheadConcat
      <4> QED  BY <4>2, <4>6 DEF q
    <3>6. Ahead(Ranges(secs[s]), h, x)
      BY <1>5, <2>4, <3>1, <3>5, SectionAhead
    <3>7. Ahead(out, h, x)
      BY <1>2, <3>6
    <3>8. h < x
      BY <1>3, <1>6, <3>4
    <3> QED  BY <3>7, <3>8
  <2>5. s < t \/ s = t \/ t < s
    BY <1>1
  <2> QED  BY <2>2, <2>3, <2>4, <2>5
<1>9. ASSUME ~ (h < size)  PROVE Ahead(out, h, x) <=> h < x
  <2>1. ~ Ahead(out, h, x)
    BY <1>7, <1>9
  <2>2. ~ (h < x)
    BY <1>1, <1>3, <1>6, <1>9
  <2> QED  BY <2>1, <2>2
<1> QED  BY <1>8, <1>9 DEF out, x

\* Every packet finds the interface that its time was counted with, under its number.
LEMMA TimesReadBack ==
  ASSUME capture \in Captures, EndToEnd, NEW secs, NEW got, ScannedIs(secs, got),
         SectionsArranged(secs, got, capture.size), NEW f \in DOMAIN got,
         capture.at[got[f].at].kind = "epb"
  PROVE  \E d \in Interfaces :
           /\ Ahead(WrittenFrom(secs), d, got[f].at)
           /\ got[f].stamp = capture.at[got[f].at].ticks * capture.at[d].unit
           /\ Cardinality({e \in Interfaces : Ahead(WrittenFrom(secs), e, d)})
                = capture.at[got[f].at].iface
<1> DEFINE size == capture.size
           out == WrittenFrom(secs)
           x == got[f].at
<1>1. /\ Sectioned(secs, got, size) /\ size \in Nat /\ Interfaces \subseteq Nat
      /\ Len(secs) \in Nat
  BY OffsetsAre DEF ScannedIs, Sectioned
<1>2. SoundEntry(got[f]) /\ x \in Nat /\ x < size
  BY FrameIn DEF ScannedIs, FramesSound
<1>3. PICK d \in IdbsBefore(x) : /\ got[f].stamp = capture.at[x].ticks * capture.at[d].unit
                                 /\ Cardinality(IdbsBefore(d)) = capture.at[x].iface
  BY <1>2 DEF SoundEntry
<1>4. d \in Interfaces /\ d \in Nat /\ d < x /\ d < size
  <2>1. d \in Interfaces /\ d < x /\ d \in Nat
    BY <1>1 DEF IdbsBefore
  <2> HIDE DEF size, x
  <2>2. d < size
    BY <1>1, <1>2, <2>1
  <2> QED  BY <2>1, <2>2
<1>5. {e \in Interfaces : Ahead(out, e, d)} = IdbsBefore(d)
  BY <1>4, InterfacesOrdered
<1>6. Ahead(out, d, x)
  <2>1. /\ \A s \in 1 .. Len(secs) : \A a, b : Ahead(Ranges(secs[s]), a, b) => Ahead(out, a, b)
        /\ \A s, t \in 1 .. Len(secs) : \A a, b \in Nat :
             s < t /\ In(secs, size, s, a) /\ In(secs, size, t, b) => a < b /\ Ahead(out, a, b)
        /\ \A b \in Nat : b < size => \E s \in 1 .. Len(secs) : In(secs, size, s, b)
    BY <1>1, WrittenIs
  <2>2. PICK t \in 1 .. Len(secs) : In(secs, size, t, x) /\ f \in FramesOf(secs, got, size, t)
    BY FrameIn
  <2>3. Holds(PacketRanges(secs[t].scan.index), x)
    BY <2>2 DEF SectionsArranged, Arranged
  <2> HIDE DEF out, size, x
  <2>4. PICK s \in 1 .. Len(secs) : In(secs, size, s, d)
    BY <1>4, <2>1
  <2>5. CASE s < t
    BY <1>2, <1>4, <2>1, <2>2, <2>4, <2>5
  <2>6. CASE t < s
    <3>1. x < d
      BY <1>2, <1>4, <2>1, <2>2, <2>4, <2>6
    <3> QED  BY <1>2, <1>4, <3>1
  <2>7. CASE s = t
    <3>1. Fronted(secs[s], Edge(secs, size, s), Edge(secs, size, s + 1)) /\ secs[s] \in ClosedSections
      BY <1>1, SectionAt
    <3>2. Holds(Opening(secs[s]), d)
      BY <1>4, <2>4, <3>1 DEF Fronted, In
    <3>3. Ahead(Ranges(secs[s]), d, x)
      BY <2>3, <2>7, <3>1, <3>2, SectionAhead
    <3> QED  BY <2>1, <3>3
  <2> QED  BY <1>1, <2>5, <2>6, <2>7
<1> QED  BY <1>3, <1>4, <1>5, <1>6

\* The frames reported are those of all sections.
LEMMA DisorderIs ==
  ASSUME capture \in Captures, EndToEnd, NEW secs, NEW got, ScannedIs(secs, got)
  PROVE  LET Late(f) == {g \in 1 .. f - 1 : Together(got, f, g) /\ got[g].stamp > got[f].stamp}
             reported == UNION {ToSet(secs[s].scan.misplaced) : s \in DOMAIN secs}
         IN  /\ {m.frame : m \in reported} = {f \in DOMAIN got : Late(f) # {}}
             /\ \A m \in reported :
                  /\ m.latest_frame \in Late(m.frame)
                  /\ \A g \in Late(m.frame) : got[m.latest_frame].stamp >= got[g].stamp
<1> DEFINE size == capture.size
           Late(f) == {g \in 1 .. f - 1 : Together(got, f, g) /\ got[g].stamp > got[f].stamp}
           reported == UNION {ToSet(secs[s].scan.misplaced) : s \in DOMAIN secs}
           F(s) == FramesOf(secs, got, size, s)
           M(s) == ToSet(secs[s].scan.misplaced)
<1>1. /\ Sectioned(secs, got, size) /\ DOMAIN secs = 1 .. Len(secs)
      /\ Len(got) \in Nat /\ DOMAIN got = 1 .. Len(got)
  BY DEF ScannedIs, Sectioned
<1>2. \A s \in 1 .. Len(secs) : F(s) \subseteq DOMAIN got
  BY DEF FramesOf, Within
<1>3. ASSUME NEW s \in 1 .. Len(secs), NEW f \in F(s)
      PROVE  Late(f) = LaterBefore(got, F(s), f)
  <2>1. f \in DOMAIN got /\ f \in 1 .. Len(got)
    BY <1>1, <1>2
  <2>2. In(secs, size, s, got[f].at)
    BY <2>1, FrameIn
  <2>3. \A g \in DOMAIN got : Together(got, f, g) <=> g \in F(s)
    <3> SUFFICES ASSUME NEW g \in DOMAIN got  PROVE Together(got, f, g) <=> g \in F(s)
      OBVIOUS
    <3>1. PICK t \in 1 .. Len(secs) : In(secs, size, t, got[g].at)
      BY FrameIn
    <3>2. Together(got, f, g) <=> s = t
      BY <2>1, <2>2, <3>1, TogetherIs
    <3>3. g \in F(t)
      BY <3>1, FrameIn
    <3>4. g \in F(s) => In(secs, size, s, got[g].at)
      BY FrameIn
    <3>5. In(secs, size, s, got[g].at) => Together(got, f, g)
      BY <2>1, <2>2, TogetherIs
    <3> QED  BY <3>2, <3>3, <3>4, <3>5
  <2>4. \A g : g \in 1 .. f - 1 <=> g \in DOMAIN got /\ g < f
    BY <1>1, <2>1
  <2>5. \A g : g \in Late(f) <=> g \in LaterBefore(got, F(s), f)
    <3>1. \A g : g \in Late(f) <=> g \in DOMAIN got /\ g < f /\ Together(got, f, g) /\ got[g].stamp > got[f].stamp
      BY <2>4
    <3>2. \A g : g \in LaterBefore(got, F(s), f) <=> g \in F(s) /\ g < f /\ got[g].stamp > got[f].stamp
      BY DEF LaterBefore
    <3> HIDE DEF F, Late
    <3> QED  BY <1>2, <2>3, <3>1, <3>2
  <2> QED  BY <2>5
<1>4. ASSUME NEW s \in 1 .. Len(secs)
      PROVE  /\ {m.frame : m \in M(s)} = {f \in F(s) : LaterBefore(got, F(s), f) # {}}
             /\ \A m \in M(s) :
                  /\ m.latest_frame \in LaterBefore(got, F(s), m.frame)
                  /\ \A g \in LaterBefore(got, F(s), m.frame) : got[m.latest_frame].stamp >= got[g].stamp
  <2>1. Judged(secs[s].scan.misplaced, got, F(s))
    BY <1>1, SectionAt
  <2> HIDE DEF F
  <2> QED  BY <2>1 DEF Judged
<1>5. \A f \in DOMAIN got : \E s \in 1 .. Len(secs) : f \in F(s)
  <2> SUFFICES ASSUME NEW f \in DOMAIN got  PROVE \E s \in 1 .. Len(secs) : f \in F(s)
    OBVIOUS
  <2>1. PICK s \in 1 .. Len(secs) : In(secs, size, s, got[f].at)
    BY FrameIn
  <2>2. f \in F(s)
    BY <2>1, FrameIn
  <2> QED  BY <2>2
<1>6. \A m : m \in reported <=> \E s \in 1 .. Len(secs) : m \in M(s)
  BY <1>1
<1> HIDE DEF F, M, Late, reported
<1>7. ASSUME NEW m \in reported
      PROVE  /\ m.frame \in DOMAIN got /\ Late(m.frame) # {}
             /\ m.latest_frame \in Late(m.frame)
             /\ \A g \in Late(m.frame) : got[m.latest_frame].stamp >= got[g].stamp
  <2>1. PICK s \in 1 .. Len(secs) : m \in M(s)
    BY <1>6
  <2>2. m.frame \in {f \in F(s) : LaterBefore(got, F(s), f) # {}}
    BY <1>4, <2>1
  <2>3. m.frame \in F(s)
    BY <2>2
  <2>4. Late(m.frame) = LaterBefore(got, F(s), m.frame)
    BY <1>3, <2>3
  <2> QED  BY <1>2, <1>4, <2>1, <2>3, <2>4
<1>8. ASSUME NEW f \in DOMAIN got, Late(f) # {}  PROVE f \in {m.frame : m \in reported}
  <2>1. PICK s \in 1 .. Len(secs) : f \in F(s)
    BY <1>5
  <2>2. f \in {g \in F(s) : LaterBefore(got, F(s), g) # {}}
    BY <1>3, <1>8, <2>1
  <2>3. f \in {m.frame : m \in M(s)}
    BY <1>4, <2>2
  <2> QED  BY <1>6, <2>3
<1>9. {m.frame : m \in reported} = {f \in DOMAIN got : Late(f) # {}}
  BY <1>7, <1>8
<1> QED  BY <1>7, <1>9 DEF Late, reported

-----------------------------------------------------------------------------
(* A run of reordercap                                                    *)

\* The file does not change, and what is known of it does not either.
LEMMA SameFile ==
  ASSUME capture' = capture
  PROVE  /\ ScanningIs(reader', current', sections', frame')
              => ScanningIs(reader, current, sections, frame)'
         /\ ScannedIs(sections', reader'.got) => ScannedIs(sections, reader.got)'
<1>1. SectionStarts' = SectionStarts /\ Interfaces' = Interfaces
  BY DEF SectionStarts, Interfaces
<1>2. EndToEnd' <=> EndToEnd
  BY DEF EndToEnd, Opened
<1>3. FramesSound(reader'.got) => FramesSound(reader.got)'
  <2> SUFFICES ASSUME EndToEnd, EndToEnd', NEW f \in DOMAIN reader'.got, SoundEntry(reader'.got[f])
               PROVE  SoundEntry(reader.got[f])'
    BY <1>2 DEF FramesSound
  <2> QED  BY <1>1 DEF SoundEntry, IdbsBefore
<1>4. ReaderSound(reader') => ReaderSound(reader)'
  <2>1. Numbered(reader'.interfaces, reader'.pos) => Numbered(reader.interfaces, reader.pos)'
    BY <1>1 DEF Numbered, IdbsBefore
  <2> QED  BY <1>2, <1>3, <2>1 DEF ReaderSound
<1>5. Sectioned(sections', reader'.got, current'.start) => Sectioned(sections, reader.got, current.start)'
  <2> SUFFICES ASSUME NEW s,
                      SectionIs(sections'[s], reader'.got, Edge(sections', current'.start, s),
                                Edge(sections', current'.start, s + 1))
               PROVE  SectionIs(sections[s], reader.got, Edge(sections, current.start, s),
                                Edge(sections, current.start, s + 1))'
    BY DEF Sectioned
  <2> QED  BY <1>1, <1>2 DEF SectionIs, Fronted
<1>6. Sectioned(sections', reader'.got, capture'.size) => Sectioned(sections, reader.got, capture.size)'
  <2> SUFFICES ASSUME NEW s,
                      SectionIs(sections'[s], reader'.got, Edge(sections', capture'.size, s),
                                Edge(sections', capture'.size, s + 1))
               PROVE  SectionIs(sections[s], reader.got, Edge(sections, capture.size, s),
                                Edge(sections, capture.size, s + 1))'
    BY DEF Sectioned
  <2> QED  BY <1>1, <1>2 DEF SectionIs, Fronted
<1>7. ASSUME NEW base, ScanIs(current', reader'.got, reader'.pos, base)
      PROVE  ScanIs(current, reader.got, reader.pos, base)'
  <2>1. SectionIs(Closed(current', reader'.pos), reader'.got, current'.start, reader'.pos)
          => SectionIs(Closed(current, reader.pos), reader.got, current.start, reader.pos)'
    BY <1>1, <1>2 DEF SectionIs, Fronted
  <2> QED  BY <1>7, <2>1 DEF ScanIs
<1>8. InSection(reader', current', sections') => InSection(reader, current, sections)'
  BY <1>5, <1>7 DEF InSection
<1>9. BeforeSections(reader', sections') => BeforeSections(reader, sections)'
  BY DEF BeforeSections
<1>10. ScanningIs(reader', current', sections', frame') => ScanningIs(reader, current, sections, frame)'
  BY <1>4, <1>8, <1>9 DEF ScanningIs
<1>11. ScannedIs(sections', reader'.got) => ScannedIs(sections, reader.got)'
  BY <1>3, <1>6 DEF ScannedIs
<1> QED  BY <1>10, <1>11

\* The inductive invariant: the sections closed and the one being scanned, then what the
\* scan has found, then how far it is written.
ReorderInv ==
  /\ capture \in Captures
  /\ pc \in {"scanning", "scanned", "writing", "done", "failed"}
  /\ pc = "scanning" => reader.failed = {} /\ ScanningIs(reader, current, sections, frame)
  /\ pc \in {"scanned", "writing", "done"} => ScannedIs(sections, reader.got)
  /\ pc = "scanned" => SectionsListed(sections, reader.got, capture.size)
  /\ pc = "writing" \/ Written => SectionsArranged(sections, reader.got, capture.size)
  /\ pc \in {"scanning", "scanned"} => output = << >>
  /\ pc = "writing" => Len(output) <= Len(Wanted) /\ output = SubSeq(Wanted, 1, Len(output))
  /\ Written => output = Wanted

LEMMA ReorderBegins == ReorderInit => ReorderInv
<1> SUFFICES ASSUME ReorderInit PROVE ReorderInv
  OBVIOUS
<1>1. capture \in Captures /\ reader = Opened /\ sections = << >> /\ frame = 0
      /\ output = << >> /\ pc = "scanning"
      /\ current = IF capture.format = "pcap" THEN FreshSection(0) ELSE None
  BY DEF ReorderInit
<1>2. ScanningIs(reader, current, sections, frame)
  BY <1>1, BeginStep
<1>3. reader.failed = {}
  BY <1>1, OpenedFields
<1> QED  BY <1>1, <1>2, <1>3 DEF ReorderInv, Written

\* The first failure ends the scan: a reader that comes to the end has not failed.
LEMMA EndIsClean ==
  ASSUME capture \in Captures, NEW r \in Readers, r.pos <= capture.size, r.status = "reading",
         r.failed = {}, NEW q, q = Slicing(r)
  PROVE  /\ q.status = "ended" => r.pos \notin q.failed
         /\ r.pos \notin q.failed => q.failed = {}
<1>1. Adds(r, q)
  BY SliceMoves
<1>2. r.pos \notin q.failed => q.failed = {}
  BY <1>1 DEF Adds
<1>3. ASSUME q.status = "ended", r.pos \in q.failed  PROVE FALSE
  <2>1. q # Ending(r)
    BY <1>3, EndingFields
  <2>2. ASSUME NEW to \in Nat, q = Failing(r, to)  PROVE FALSE
    BY <1>3, <2>2, FailingFields
  <2>3. ASSUME NEW stamp \in Nat, q = Delivering(r, stamp)  PROVE FALSE
    <3>1. Delivering(r, stamp).failed = r.failed
      BY <2>3, DeliveringFields
    <3> QED  BY <1>3, <2>3, <3>1
  <2>4. q # EnteringSection(r) /\ q # Describing(r) /\ q # Skipping(r) /\ q # Panicking(r)
    <3>1. /\ EnteringSection(r).failed = r.failed /\ Describing(r).failed = r.failed
          /\ Skipping(r).failed = r.failed /\ Panicking(r).failed = r.failed
      BY SectionFields, DescribingFields, SkippingFields, EndingFields
    <3> QED  BY <1>3, <3>1
  <2>5. r.pos \in Nat /\ Past(r) \in Nat
    BY SkippingFields DEF Readers
  <2>6. q = Parsed(r)
    BY <2>1, <2>2, <2>3, <2>5, SliceCases
  <2> QED  BY <2>2, <2>3, <2>4, <2>5, <2>6, ParsedCases
<1> QED  BY <1>2, <1>3

\* A step of the scan that finds a block or the end.
LEMMA ReadIs ==
  ASSUME ReorderInv, Reads, ~ Fails
  PROVE  /\ ScanningIs(reader, current, sections, frame) /\ capture \in Captures
         /\ reader' \in Readers /\ reader'.status \in {"reading", "ended"} /\ reader'.failed = {}
         /\ reader'.status = "ended" => reader.pos = capture.size /\ reader'.got = reader.got
         /\ reader'.status = "reading" => Takes(reader, reader')
<1> DEFINE q == reader'
<1>1. /\ pc = "scanning" /\ capture \in Captures /\ ScanningIs(reader, current, sections, frame)
      /\ reader.status = "reading" /\ q = Slicing(reader) /\ reader.failed = {}
      /\ reader.pos \notin q.failed /\ q.status # "panicked"
  BY DEF ReorderInv, Reads, Fails
<1>2. reader \in Readers /\ reader.pos <= capture.size
  BY <1>1 DEF ScanningIs
<1> HIDE DEF q
<1>3. /\ q \in Readers /\ q.status \in {"reading", "ended"}
      /\ q.status = "ended" => reader.pos = capture.size /\ q.got = reader.got
      /\ q.status = "reading" => Takes(reader, q)
  BY ONLY <1>1, <1>2, TakenIs
<1>4. q.failed = {}
  BY ONLY <1>1, <1>2, EndIsClean
<1> QED  BY <1>1, <1>3, <1>4 DEF q

\* The scan goes on.
LEMMA GoesOn ==
  ASSUME ReorderInv, capture' = capture, pc' = "scanning", output' = << >>, reader'.failed = {},
         ScanningIs(reader', current', sections', frame')
  PROVE  ReorderInv'
<1>1. capture \in Captures
  BY DEF ReorderInv
<1>2. ScanningIs(reader, current, sections, frame)'
  BY SameFile
<1> QED  BY <1>1, <1>2 DEF ReorderInv, Written

\* Nothing more is claimed of a run that has failed.
LEMMA GivesUp ==
  ASSUME ReorderInv, capture' = capture, pc' = "failed"
  PROVE  ReorderInv'
BY DEF ReorderInv, Written

LEMMA ScanKeeps ==
  ASSUME ReorderInv, Scan
  PROVE  ReorderInv'
<1>1. CASE ScanFails
  BY <1>1, GivesUp DEF ScanFails
<1>2. CASE ScanRecord
  <2>1. /\ Reads /\ ~ Fails /\ reader'.status = "reading" /\ Here(reader).kind \in {"rec", "epb"}
        /\ pc = "scanning" /\ pc' = "scanning" /\ capture' = capture /\ output' = << >>
        /\ sections' = sections /\ frame' = frame + 1
        /\ current' = [current EXCEPT !.prefix_end = IF @ = None THEN reader.pos ELSE @,
                         !.scan = Push(@, Last(reader'.got).stamp, << reader.pos, Here(reader).len >>, frame + 1)]
    BY <1>2 DEF ScanRecord, Found, Reads, ReorderInv, Packet, RecordRange
  <2>2. /\ ScanningIs(reader, current, sections, frame) /\ capture \in Captures
        /\ reader' \in Readers /\ Takes(reader, reader') /\ reader'.failed = {}
    BY <2>1, ReadIs
  <2>3. ScanningIs(reader', current', sections, frame + 1)
    BY ONLY <2>1, <2>2, PacketStep
  <2> QED  BY <2>1, <2>2, <2>3, GoesOn
<1>3. CASE ScanSectionHeader
  <2>1. /\ Reads /\ ~ Fails /\ reader'.status = "reading" /\ Here(reader).kind = "shb"
        /\ pc = "scanning" /\ pc' = "scanning" /\ capture' = capture /\ output' = << >>
        /\ sections' = IF current = None THEN sections ELSE Append(sections, Closed(current, reader.pos))
        /\ frame' = frame /\ current' = FreshSection(reader.pos)
    BY <1>3 DEF ScanSectionHeader, Found, Reads, ReorderInv, CloseSection
  <2>2. /\ ScanningIs(reader, current, sections, frame) /\ capture \in Captures
        /\ reader' \in Readers /\ Takes(reader, reader') /\ reader'.failed = {}
    BY <2>1, ReadIs
  <2>3. ScanningIs(reader', FreshSection(reader.pos), sections', frame)
    BY ONLY <2>1, <2>2, HeaderStep
  <2> QED  BY <2>1, <2>2, <2>3, GoesOn
<1>4. CASE ScanInterface \/ ScanOther
  <2>1. /\ Reads /\ ~ Fails /\ reader'.status = "reading" /\ Here(reader).kind \in {"idb", "raw"}
        /\ pc = "scanning" /\ pc' = "scanning" /\ capture' = capture /\ output' = << >>
        /\ sections' = sections /\ frame' = frame
        /\ \/ current.prefix_end = None /\ current' = current
           \/ /\ current.prefix_end # None
              /\ current' = [current EXCEPT !.late_idbs = Append(@, << reader.pos, Here(reader).len >>)]
           \/ /\ current.prefix_end # None /\ Here(reader).kind # "idb"
              /\ current' = [current EXCEPT !.suffix = Append(@, << reader.pos, Here(reader).len >>)]
    BY <1>4 DEF ScanInterface, ScanOther, LateInterface, RecordRange, Found, Reads, ReorderInv
  <2>2. /\ ScanningIs(reader, current, sections, frame) /\ capture \in Captures
        /\ reader' \in Readers /\ Takes(reader, reader') /\ reader'.failed = {}
    BY <2>1, ReadIs
  <2>3. ScanningIs(reader', current', sections, frame)
    BY ONLY <2>1, <2>2, OtherStep
  <2> QED  BY <2>1, <2>2, <2>3, GoesOn
<1>5. CASE ScanEnds
  <2>1. /\ Reads /\ reader'.status = "ended" /\ pc = "scanning" /\ pc' = "scanned"
        /\ capture' = capture /\ output' = << >>
        /\ sections' = IF capture.format = "pcap"
                       THEN << [Closed(current, 0) EXCEPT !.prefix = << 0, GlobalHeader >>] >>
                       ELSE IF current = None THEN sections
                            ELSE Append(sections, Closed(current, capture.size))
    BY <1>5 DEF ScanEnds, Reads, ReorderInv, CloseSection
  <2>2. /\ capture \in Captures /\ reader \in Readers /\ reader.pos <= capture.size
        /\ reader.status = "reading" /\ reader.failed = {} /\ reader' = Slicing(reader)
    BY <2>1 DEF ReorderInv, Reads, ScanningIs
  <2>3. ~ Fails
    <3> DEFINE q == reader'
    <3>1. q = Slicing(reader) /\ q.status = "ended"
      BY <2>1, <2>2
    <3> HIDE DEF q
    <3>2. reader.pos \notin q.failed
      BY ONLY <2>2, <3>1, EndIsClean
    <3> QED  BY <3>1, <3>2 DEF Fails, q
  <2>4. /\ ScanningIs(reader, current, sections, frame)
        /\ reader.pos = capture.size /\ reader'.got = reader.got
    BY <2>1, <2>3, ReadIs
  <2>5. ScannedIs(sections', reader.got) /\ SectionsListed(sections', reader.got, capture.size)
    BY ONLY <2>1, <2>2, <2>4, EndStep
  <2>6. ScannedIs(sections, reader.got)'
    BY <2>1, <2>4, <2>5, SameFile
  <2>7. SectionsListed(sections, reader.got, capture.size)'
    BY <2>1, <2>4, <2>5
  <2> QED  BY <2>1, <2>2, <2>6, <2>7 DEF ReorderInv, Written
<1> QED  BY <1>1, <1>2, <1>3, <1>4, <1>5 DEF Scan

LEMMA WantedIs ==
  ASSUME ReorderInv, pc \in {"writing", "done"}
  PROVE  /\ Wanted = WrittenFrom(sections) /\ Wanted \in Seq(ByteRange)
         /\ Tile(Wanted, 0, capture.size)
<1>1. Sectioned(sections, reader.got, capture.size)
  BY DEF ReorderInv, ScannedIs
<1>2. Wanted = WrittenFrom(sections)
  BY DEF Wanted, WrittenFrom
<1> QED  BY <1>1, <1>2, WrittenIs

LEMMA SortKeeps ==
  ASSUME ReorderInv, Sort
  PROVE  ReorderInv'
<1>1. /\ capture \in Captures /\ ScannedIs(sections, reader.got)
      /\ SectionsListed(sections, reader.got, capture.size) /\ output = << >>
      /\ sections' = [s \in DOMAIN sections |-> [sections[s] EXCEPT !.scan.index = Sorted(@)]]
      /\ pc' = "writing" /\ capture' = capture /\ reader' = reader /\ output' = output
  BY DEF ReorderInv, Sort
<1>2. ScannedIs(sections', reader.got) /\ SectionsArranged(sections', reader.got, capture.size)
  BY ONLY <1>1, SortStep
<1>3. ScannedIs(sections, reader.got)'
  BY <1>1, <1>2, SameFile
<1>4. SectionsArranged(sections, reader.got, capture.size)'
  BY <1>1, <1>2
<1>5. Wanted' \in Seq(ByteRange)
  <2>1. Wanted' = WrittenFrom(sections')
    BY DEF Wanted, WrittenFrom
  <2>2. Sectioned(sections', reader.got, capture.size)
    BY <1>2 DEF ScannedIs
  <2> QED  BY <2>1, <2>2, WrittenIs
<1>6. Len(output') <= Len(Wanted') /\ output' = SubSeq(Wanted', 1, Len(output'))
  <2> DEFINE all == Wanted'
             l   == Len(all)
             z   == Len(output')
  <2>1. z = 0 /\ output' = << >>
    BY <1>1
  <2>2. l \in Nat /\ all \in Seq(ByteRange)
    BY <1>5, LenProperties
  <2>3. SubSeq(all, 1, 0) = << >>
    <3> HIDE DEF all
    <3> QED  BY <2>2
  <2> QED  BY <2>1, <2>2, <2>3
<1> QED  BY <1>1, <1>3, <1>4, <1>6 DEF ReorderInv, Written

\* What is written is a beginning of what is to be written.
LEMMA Continues ==
  ASSUME NEW T, NEW all \in Seq(T), NEW out, Len(out) < Len(all), out = SubSeq(all, 1, Len(out)),
         Len(out) \in Nat, NEW more, more = Append(out, all[Len(out) + 1])
  PROVE  Len(more) <= Len(all) /\ more = SubSeq(all, 1, Len(more))
<1> DEFINE n == Len(out)
           m == n + 1
           l == Len(all)
<1>1. n \in Nat /\ l \in Nat /\ n < l /\ m \in Nat /\ m <= l /\ 1 <= m /\ out = SubSeq(all, 1, n)
  BY LenProperties
<1> HIDE DEF n
<1>2. out \in Seq(T)
  BY <1>1, SubSeqProperties
<1>3. all[m] \in T
  BY <1>1, ElementOfSeq
<1>4. Len(more) = m /\ more = Append(out, all[m])
  BY <1>2, <1>3, AppendProperties DEF n
<1>5. SubSeq(all, 1, m) = Append(out, all[m])
  BY <1>1
<1> QED  BY <1>1, <1>4, <1>5

LEMMA WriteKeeps ==
  ASSUME ReorderInv, Write
  PROVE  ReorderInv'
<1>1. CASE WriteFails
  BY <1>1, GivesUp DEF WriteFails
<1>2. ASSUME UNCHANGED << capture, reader, sections >>, pc = "writing"
      PROVE  /\ ScannedIs(sections, reader.got)' /\ Wanted' = Wanted
             /\ SectionsArranged(sections, reader.got, capture.size)'
             /\ Wanted \in Seq(ByteRange) /\ Len(Wanted) \in Nat
             /\ Len(output) \in Nat
  <2>1. ScannedIs(sections, reader.got)
    BY <1>2 DEF ReorderInv
  <2>2. ScannedIs(sections, reader.got)'
    BY <1>2, <2>1, SameFile
  <2>3. Wanted' = Wanted
    BY <1>2 DEF Wanted
  <2>4. SectionsArranged(sections, reader.got, capture.size)'
    BY <1>2 DEF ReorderInv
  <2>5. Wanted \in Seq(ByteRange) /\ Len(Wanted) \in Nat
    BY <1>2, WantedIs, LenProperties
  <2>6. Len(output) \in Nat
    <3> DEFINE w == Wanted
               n == Len(output)
    <3>1. output = SubSeq(w, 1, n) /\ n <= Len(w)
      BY <1>2 DEF ReorderInv
    <3>2. w \in Seq(ByteRange) /\ Len(w) \in Nat
      BY <2>5
    <3> HIDE DEF w
    <3> QED  BY <3>1, <3>2
  <2> QED  BY <2>2, <2>3, <2>4, <2>5, <2>6
<1>3. CASE WriteRange
  <2>1. /\ pc = "writing" /\ pc' = "writing" /\ UNCHANGED << capture, reader, sections >>
        /\ Len(output) < Len(Wanted) /\ output' = Append(output, Wanted[Len(output) + 1])
        /\ output = SubSeq(Wanted, 1, Len(output)) /\ capture \in Captures
    BY <1>3 DEF WriteRange, ReorderInv
  <2>2. Len(output') <= Len(Wanted) /\ output' = SubSeq(Wanted, 1, Len(output'))
    BY <1>2, <2>1, Continues
  <2> QED  BY <1>2, <2>1, <2>2 DEF ReorderInv, Written
<1>4. CASE Flush
  <2>1. /\ pc = "writing" /\ pc' = "done" /\ UNCHANGED << capture, reader, sections, output >>
        /\ Len(output) = Len(Wanted) /\ output = SubSeq(Wanted, 1, Len(output)) /\ capture \in Captures
    BY <1>4 DEF Flush, ReorderInv
  <2>2. output = Wanted
    <3> DEFINE w == Wanted
    <3>1. w \in Seq(ByteRange) /\ output = SubSeq(w, 1, Len(w))
      BY <1>2, <2>1
    <3> HIDE DEF w
    <3>2. output = w
      BY <3>1
    <3> QED  BY <3>2 DEF w
  <2> QED  BY <1>2, <2>1, <2>2 DEF ReorderInv, Written
<1> QED  BY <1>1, <1>3, <1>4 DEF Write

LEMMA ReorderKeeps == ReorderInv /\ [ReorderNext]_reorderVars => ReorderInv'
<1> SUFFICES ASSUME ReorderInv, [ReorderNext]_reorderVars  PROVE ReorderInv'
  OBVIOUS
<1>1. CASE UNCHANGED reorderVars
  <2>1. /\ capture' = capture /\ reader' = reader /\ current' = current /\ sections' = sections
        /\ frame' = frame /\ output' = output /\ pc' = pc
    BY <1>1 DEF reorderVars
  <2>2. ScanningIs(reader, current, sections, frame) => ScanningIs(reader, current, sections, frame)'
    BY <2>1, SameFile
  <2>3. ScannedIs(sections, reader.got) => ScannedIs(sections, reader.got)'
    BY <2>1, SameFile
  <2>4. Wanted' = Wanted
    BY <2>1 DEF Wanted
  <2> QED  BY <2>1, <2>2, <2>3, <2>4 DEF ReorderInv, Written
<1>2. CASE ReportOnly
  <2>1. /\ capture' = capture /\ reader' = reader /\ sections' = sections
        /\ output' = << >> /\ pc = "scanned" /\ pc' = "done"
    BY <1>2 DEF ReportOnly, ReorderInv
  <2>2. ScannedIs(sections, reader.got)'
    BY <2>1, SameFile DEF ReorderInv
  <2> QED  BY <2>1, <2>2 DEF ReorderInv, Written
<1>3. CASE Refuse
  BY <1>3, GivesUp DEF Refuse
<1> QED  BY <1>1, <1>2, <1>3, ScanKeeps, SortKeeps, WriteKeeps DEF ReorderNext, Terminated

LEMMA ReorderInvariant == ReorderSpec => []ReorderInv
BY ReorderBegins, ReorderKeeps, PTL DEF ReorderSpec

\* What has been written, and from what.
LEMMA WrittenKnown ==
  ASSUME ReorderInv, Written
  PROVE  /\ output = WrittenFrom(sections) /\ Tile(output, 0, capture.size)
         /\ capture \in Captures /\ ScannedIs(sections, reader.got)
         /\ SectionsArranged(sections, reader.got, capture.size)
BY WantedIs DEF ReorderInv, Written

\* write_sections of maja-reordercap: the prefix, the interfaces described late, the sorted
\* packets and the other blocks of every section, written one behind the other, are the bytes
\* of the input, each once, for any file the scan accepts.
THEOREM CopiesEveryByteOnce == ReorderSpec => []EveryByteOnce
<1>1. ReorderInv => EveryByteOnce
  BY WrittenKnown DEF EveryByteOnce
<1> QED  BY <1>1, ReorderInvariant, PTL

\* sort_by_key of maja-reordercap: in each section the packets of the output are in order of
\* time, those with the same time in the order of the input, however many there are.
THEOREM WritesInOrder == ReorderSpec => []OutputOrdered
<1>1. ASSUME ReorderInv  PROVE OutputOrdered
  <2> SUFFICES ASSUME Written, EndToEnd, NEW f \in DOMAIN reader.got, NEW g \in DOMAIN reader.got,
                      SameSection(f, g),
                      Stamp(f) < Stamp(g) \/ (Stamp(f) = Stamp(g) /\ f < g)
               PROVE  Ahead(output, Offset(f), Offset(g))
    BY DEF OutputOrdered
  <2>1. Together(reader.got, f, g)
    BY DEF Together, SameSection, Offset
  <2>2. reader.got[f].stamp < reader.got[g].stamp
          \/ (reader.got[f].stamp = reader.got[g].stamp /\ f < g)
    BY DEF Stamp
  <2> QED  BY <1>1, <2>1, <2>2, WrittenKnown, WrittenOrdered DEF Offset
<1> QED  BY <1>1, ReorderInvariant, PTL

\* SectionScan of maja-reordercap: interfaces described behind packets are written before them,
\* and still every packet of the output is in its section and finds the interface its time is
\* counted with under the number it names.
THEOREM MeansTheSame == ReorderSpec => []ReadBackTheSame
<1>1. ASSUME ReorderInv  PROVE ReadBackTheSame
  <2> SUFFICES ASSUME Written, EndToEnd, NEW f \in DOMAIN reader.got
               PROVE  LET block == capture.at[Offset(f)] IN
                      /\ \A s \in SectionStarts : Ahead(output, s, Offset(f)) <=> s < Offset(f)
                      /\ block.kind = "epb" =>
                           \E d \in Interfaces :
                             /\ Ahead(output, d, Offset(f)) /\ Stamp(f) = block.ticks * capture.at[d].unit
                             /\ Cardinality({e \in Interfaces : Ahead(output, e, d)}) = block.iface
    BY DEF ReadBackTheSame
  <2>1. /\ output = WrittenFrom(sections) /\ capture \in Captures /\ ScannedIs(sections, reader.got)
        /\ SectionsArranged(sections, reader.got, capture.size)
    BY <1>1, WrittenKnown
  <2>2. \A s \in SectionStarts : Ahead(output, s, Offset(f)) <=> s < Offset(f)
    BY <2>1, HeadersOrdered DEF Offset
  <2>3. ASSUME capture.at[Offset(f)].kind = "epb"
        PROVE  \E d \in Interfaces :
                 /\ Ahead(output, d, Offset(f))
                 /\ Stamp(f) = capture.at[Offset(f)].ticks * capture.at[d].unit
                 /\ Cardinality({e \in Interfaces : Ahead(output, e, d)}) = capture.at[Offset(f)].iface
    BY <2>1, <2>3, TimesReadBack DEF Offset, Stamp
  <2> QED  BY <2>2, <2>3
<1> QED  BY <1>1, ReorderInvariant, PTL

\* Scan::push of maja-reordercap: the frames reported as misplaced are exactly those with a
\* later packet before them in their section, and the frame named with each is the latest.
THEOREM ReportsWhatIsMisplaced == ReorderSpec => []ReportsDisorder
<1>1. ASSUME ReorderInv  PROVE ReportsDisorder
  <2> SUFFICES ASSUME pc \in {"scanned", "writing", "done"}, EndToEnd
               PROVE  LET Late(f)  == {g \in 1 .. f - 1 : SameSection(f, g) /\ Stamp(g) > Stamp(f)}
                          reported == UNION {ToSet(sections[s].scan.misplaced) : s \in DOMAIN sections}
                      IN  /\ {m.frame : m \in reported} = {f \in DOMAIN reader.got : Late(f) # {}}
                          /\ \A m \in reported :
                               m.latest_frame \in Late(m.frame)
                                 /\ \A g \in Late(m.frame) : Stamp(m.latest_frame) >= Stamp(g)
    BY DEF ReportsDisorder
  <2> DEFINE got       == reader.got
             Late(f)   == {g \in 1 .. f - 1 : Together(got, f, g) /\ got[g].stamp > got[f].stamp}
             Behind(f) == {g \in 1 .. f - 1 : SameSection(f, g) /\ Stamp(g) > Stamp(f)}
             reported  == UNION {ToSet(sections[s].scan.misplaced) : s \in DOMAIN sections}
  <2>1. ScannedIs(sections, got) /\ capture \in Captures
    BY <1>1 DEF ReorderInv
  <2>2. /\ {m.frame : m \in reported} = {f \in DOMAIN got : Late(f) # {}}
        /\ \A m \in reported :
             /\ m.latest_frame \in Late(m.frame)
             /\ \A g \in Late(m.frame) : got[m.latest_frame].stamp >= got[g].stamp
    <3> HIDE DEF got
    <3> QED  BY <2>1, DisorderIs
  <2>3. \A f : Late(f) = Behind(f)
    BY DEF Together, SameSection, Offset, Stamp
  <2>4. \A f : Stamp(f) = got[f].stamp
    BY DEF Stamp
  <2> HIDE DEF Late, Behind, reported
  <2>5. /\ {m.frame : m \in reported} = {f \in DOMAIN got : Behind(f) # {}}
        /\ \A m \in reported :
             /\ m.latest_frame \in Behind(m.frame)
             /\ \A g \in Behind(m.frame) : Stamp(m.latest_frame) >= Stamp(g)
    BY <2>2, <2>3, <2>4
  <2> QED  BY <2>5 DEF Behind, reported
<1> QED  BY <1>1, ReorderInvariant, PTL

=============================================================================
