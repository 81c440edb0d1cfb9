--------------------------- MODULE CaptureFormat ---------------------------
(***************************************************************************)
(* What a capture is, and what a read of the readers in src/capture/format *)
(* makes of it: PcapReader and PcapngReader, which consume a stream, and   *)
(* PcapSliceReader and PcapngSliceReader, which walk over a mapped file.   *)
(*                                                                         *)
(* A capture is what a program finds in the bytes of a file at an offset:  *)
(* the blocks that were written there, and something else in between,      *)
(* where a damaged length may lead a reader.  A cut leaves the last block  *)
(* shorter than it says.                                                   *)
(***************************************************************************)
EXTENDS Integers, Sequences, FiniteSets, SequencesExt

CONSTANTS
  Captures,      \* the captures a run may read
  MaxTime        \* i64::MAX

(* A capture:                                                              *)
(*   format   "pcap" or "pcapng"                                           *)
(*   size     the bytes of the file                                        *)
(*   at       the blocks, by the offset at which they start                *)
(*   other    what the bytes look like where no block starts               *)
(* A block:                                                                *)
(*   kind     "shb", "idb", "spb", "epb", any other ("raw"), or "rec", the *)
(*            record of a pcap file                                        *)
(*   len      its bytes, by its own leading length                         *)
(*   ok       its contents parse, and the trailing length is the same      *)
(*   iface    the interface a packet names, from 0                         *)
(*   ticks    the time of a packet, in units                               *)
(*   unit     nanoseconds in a tick of the interface an idb describes, or  *)
(*            of a pcap file                                               *)
Kinds == {"shb", "idb", "spb", "epb", "raw", "rec"}

Block == [kind : Kinds, len : Nat, ok : BOOLEAN, iface : Nat, ticks : Nat, unit : Nat]

IsCapture(c) ==
  /\ c.format \in {"pcap", "pcapng"}
  /\ c.size \in Nat
  /\ c.format = "pcap" => c.size >= 24     \* or it would not open
  /\ DOMAIN c.at \subseteq Nat
  /\ \A b \in {c.at[o] : o \in DOMAIN c.at} \cup {c.other} :
       /\ b \in Block
       /\ c.format = "pcap" <=> b.kind = "rec"
       /\ c.format = "pcap" => b.len >= 16

ASSUME CaptureReadersAssumption ==
  /\ \A c \in Captures : IsCapture(c)
  /\ MaxTime \in Nat

VARIABLE capture    \* the file; never changes

GlobalHeader == 24     \* PcapHeader::LEN
RecordHeader == 16     \* PcapPacketHeader::LEN

Opened ==
  [pos |-> IF capture.format = "pcap" THEN GlobalHeader ELSE 0, section |-> FALSE,
   interfaces |-> << >>, got |-> << >>, failed |-> {}, status |-> "reading"]

-----------------------------------------------------------------------------
Here(r)  == IF r.pos \in DOMAIN capture.at THEN capture.at[r.pos] ELSE capture.other
Left(r)  == capture.size - r.pos
Past(r)  == r.pos + Here(r).len

SectionStarts == {o \in DOMAIN capture.at : capture.at[o].kind = "shb"}

\* What a read comes to, and where it leaves the reader.
Failing(r, to)      == [r EXCEPT !.pos = to, !.failed = @ \cup {r.pos}]
Ending(r)           == [r EXCEPT !.pos = capture.size, !.status = "ended"]
Skipping(r)         == [r EXCEPT !.pos = Past(r)]
Delivering(r, stamp) ==
  [r EXCEPT !.pos = Past(r), !.got = Append(@, [at |-> r.pos, stamp |-> stamp])]
Panicking(r)        == [r EXCEPT !.pos = Past(r), !.status = "panicked"]

\* Mutant: interfaces are numbered from the last one described.
DescribingFirst(r) == [Skipping(r) EXCEPT !.interfaces = << Here(r).unit >> \o @]

Describing(r) == [Skipping(r) EXCEPT !.interfaces = Append(@, Here(r).unit)]

\* A whole block parses if it has the fixed fields of its kind, its options
\* can be read and its trailing length is the leading one.
SectionHeaderParses(b)  == b.len >= 28 /\ b.ok
InterfaceParses(b)      == b.len >= 20 /\ b.ok
SimplePacketParses(b)   == b.len >= 16 /\ b.ok
EnhancedPacketParses(b) == b.len >= 32 /\ b.ok

Parses(b) ==
  CASE b.kind = "shb" -> SectionHeaderParses(b)
    [] b.kind = "idb" -> InterfaceParses(b)
    [] b.kind = "spb" -> SimplePacketParses(b)
    [] b.kind = "epb" -> EnhancedPacketParses(b)
    [] OTHER          -> TRUE

\* calc_timestamp expects that the time fits in 64 bits.
Enhanced(r, b) ==
  IF b.iface + 1 \notin DOMAIN r.interfaces THEN Failing(r, Past(r))
  ELSE LET stamp == b.ticks * r.interfaces[b.iface + 1] IN
       IF stamp > MaxTime THEN Panicking(r) ELSE Delivering(r, stamp)

\* A whole block is in the buffer, and the reader already stands behind it.
\* A section header does not touch the interfaces.
Parsed(r) ==
  LET b == Here(r) IN
  IF ~ Parses(b) THEN Failing(r, Past(r))
  ELSE CASE b.kind = "shb"   -> [Skipping(r) EXCEPT !.section = TRUE]
         [] b.kind = "idb"   -> Describing(r)
         [] b.kind = "spb"   -> IF r.interfaces = << >> THEN Failing(r, Past(r))
                                ELSE Delivering(r, 0)
         [] b.kind = "epb"   -> Enhanced(r, b)
         [] OTHER            -> Skipping(r)

-----------------------------------------------------------------------------
(* The streaming readers.  Whatever read_exact asks for is gone, even if   *)
(* the end of the file comes first.                                        *)

\* The bytes read before the block length is looked at; a section header
\* brings its own byte order.
Fixed(r) == IF Here(r).kind = "shb" THEN 12 ELSE 8

NoSection(r) == Here(r).kind # "shb" /\ ~ r.section

\* Mutant: any length goes, as if the buffer could not shrink.
AnyLength(r) == FALSE

TooShort(r) == Here(r).len < Fixed(r)

CutOff(r) == Left(r) < Here(r).len

StreamingPcapng(r) ==
  CASE Left(r) < 4             -> Ending(r)
    [] Left(r) \in 4 .. 7      -> Failing(r, capture.size)
    [] Left(r) >= 8 /\ NoSection(r)                    -> Failing(r, r.pos + 8)
    [] Left(r) >= 8 /\ ~ NoSection(r) /\ Left(r) < Fixed(r) -> Failing(r, capture.size)
    [] OTHER ->
         IF TooShort(r) THEN Failing(r, r.pos + Fixed(r))
         ELSE IF CutOff(r) THEN Failing(r, capture.size)
         ELSE Parsed(r)

StreamingPcap(r) ==
  CASE Left(r) < RecordHeader  -> Ending(r)
    [] Left(r) >= RecordHeader /\ CutOff(r) -> Failing(r, capture.size)
    [] OTHER                   -> Delivering(r, Here(r).ticks * Here(r).unit)

-----------------------------------------------------------------------------
(* The slice readers.  A block that is not all there is refused where it   *)
(* stands: the next call finds the same bytes.                             *)

Refused(r) ==
  Left(r) < 12 \/ NoSection(r) \/ Here(r).len < 12 \/ CutOff(r)

\* Mutant: the reader moves on after a block has been parsed, not before.
ParsedBeforeMoving(r) ==
  IF ~ Parses(Here(r)) THEN Failing(r, r.pos) ELSE Parsed(r)

SlicedBlock(r) == Parsed(r)

SlicingPcapng(r) ==
  CASE Left(r) = 0             -> Ending(r)
    [] Left(r) > 0 /\ Refused(r) -> Failing(r, r.pos)
    [] OTHER                   -> SlicedBlock(r)

SlicingPcap(r) ==
  CASE Left(r) = 0             -> Ending(r)
    [] Left(r) > 0 /\ (Left(r) < RecordHeader \/ CutOff(r)) -> Failing(r, r.pos)
    [] OTHER                   -> Delivering(r, Here(r).ticks * Here(r).unit)

Slicing(r) == IF capture.format = "pcap" THEN SlicingPcap(r) ELSE SlicingPcapng(r)
=============================================================================
