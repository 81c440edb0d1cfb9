--------------------------- MODULE CaptureReaders ---------------------------
(***************************************************************************)
(* A streaming and a slice reader of src/capture/format read the same      *)
(* capture, block by block, for a caller that goes on after an error.      *)
(***************************************************************************)
EXTENDS CaptureFormat

VARIABLES
  stream,        \* PcapReader or PcapngReader
  slice          \* PcapSliceReader or PcapngSliceReader

readers == << capture, stream, slice >>

Init ==
  /\ capture \in Captures
  /\ stream = Opened
  /\ slice  = Opened

-----------------------------------------------------------------------------
\* One turn of the loop of next_packet, or of the caller's around it.
ReadStream ==
  /\ stream.status = "reading"
  /\ stream' = IF capture.format = "pcap" THEN StreamingPcap(stream) ELSE StreamingPcapng(stream)
  /\ UNCHANGED << capture, slice >>

ReadSlice ==
  /\ slice.status = "reading"
  /\ slice' = Slicing(slice)
  /\ UNCHANGED << capture, stream >>

-----------------------------------------------------------------------------
\* The slice reader has refused the bytes before it and will do so again.
Stuck == slice.status = "reading" /\ slice.pos \in slice.failed

Finished == stream.status # "reading" /\ (slice.status # "reading" \/ Stuck)

\* A block that does not parse costs both readers that block only, and a cut
\* at the end costs neither a packet that is all there, although they fail
\* in different ways: in the end both have delivered the same packets, unless
\* the slice reader stands before a block with a damaged length or outside
\* of any section.
BothReadTheSame ==
  Finished /\ ~ (Stuck /\ capture.format = "pcapng" /\ Left(slice) >= 12
                       /\ (NoSection(slice) \/ Here(slice).len < 12))
    => stream.got = slice.got

-----------------------------------------------------------------------------
(* Interfaces.  A packet names an interface by its number in its section.  *)

InterfacesBefore(packet) ==
  {o \in DOMAIN capture.at :
     /\ capture.at[o].kind = "idb" /\ o < packet
     /\ ~ \E s \in SectionStarts : o < s /\ s < packet}

\* The number of interfaces the section describes before this one.
Number(o) == Cardinality(InterfacesBefore(o))

OwnInterfaceOf(reader) ==
  \A k \in DOMAIN reader.got :
    LET at == reader.got[k].at  b == capture.at[at] IN
    at \in DOMAIN capture.at /\ b.kind = "epb" =>
      \E o \in InterfacesBefore(at) :
        Number(o) = b.iface /\ reader.got[k].stamp = b.ticks * capture.at[o].unit

\* The time of a packet is counted in the unit of the interface it names in
\* its own section, also behind a corrupt block.
OwnInterface == OwnInterfaceOf(stream) /\ OwnInterfaceOf(slice)

\* As long as interface blocks are ahead, a length leads to the next block.
LengthsLeadToInterfaces ==
  \A o, i \in DOMAIN capture.at :
    LET next == o + capture.at[o].len IN
    capture.at[i].kind = "idb" /\ o < i =>
      capture.at[o].len >= 12 /\ next \in DOMAIN capture.at /\ next <= i

\* With a single section whose interface blocks parse and can be reached by
\* the lengths of the blocks before them, packets are read with the interface
\* they name, whatever else is damaged or cut off.
OwnInterfaceInOneSection ==
  /\ SectionStarts = {0} /\ capture.other.kind # "idb"
  /\ \A o \in DOMAIN capture.at :
       capture.at[o].kind \in {"shb", "idb"} => Parses(capture.at[o])
  /\ LengthsLeadToInterfaces
  => OwnInterface
=============================================================================
