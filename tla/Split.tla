------------------------------- MODULE Split --------------------------------
(***************************************************************************)
(* maja-splitcap (main.rs): the packets of a capture are grouped by a flow *)
(* identifier of a chosen granularity (packet/flow.rs), the largest groups *)
(* are selected, and each is written to a file of its own: file after file *)
(* from memory, or, with --two-pass, all files together while the capture  *)
(* is read again, by which time it may have grown.                         *)
(***************************************************************************)
EXTENDS Integers, Sequences, FiniteSets, SequencesExt

CONSTANTS
  Frames,           \* what a packet parses to: its IPv4, TCP and UDP layers
  Granularities,    \* of the option --granularity
  Numbers,          \* of the option --number
  MaxPackets,       \* packets of the capture when it is read first
  MaxGrowth         \* packets appended to it before it is read again

ASSUME SplitAssumption ==
  Numbers \subseteq Nat /\ MaxPackets \in Nat /\ MaxGrowth \in Nat

VARIABLES
  options,          \* granularity, number, two_pass
  phase,            \* first, write, second, flush, done, failed
  capture,          \* the packets of the input
  next,             \* the packet that is read next
  flows,            \* flow identifier -> the packets of the first pass
  selected,         \* the identifiers of the flows to write
  files,            \* flow identifier -> the packets in its file
  writing           \* the flows whose writer is open

splitVars == << options, phase, capture, next, flows, selected, files, writing >>

-----------------------------------------------------------------------------
\* layer_viewer: the innermost layer of a protocol.
Layers(frame, protocols) == SelectSeq(frame, LAMBDA layer : layer.is \in protocols)

\* process_packet: no IPv4 layer, no flow.
Skipped(frame) == Layers(frame, {"ipv4"}) = << >>

Ports(frame) ==
  LET tcp == Layers(frame, {"tcp"})
      udp == Layers(frame, {"udp"})
  IN CASE tcp # << >> -> Last(tcp).ports
       [] tcp = << >> /\ udp # << >> -> Last(udp).ports
       [] OTHER -> << 0, 0 >>

FlowInfo(frame) ==
  LET ipv4 == Last(Layers(frame, {"ipv4"}))
  IN [src |-> ipv4.src, dst |-> ipv4.dst, protocol |-> ipv4.protocol,
      src_port |-> Ports(frame)[1], dst_port |-> Ports(frame)[2]]

\* Addresses, protocols and ports are unsigned numbers.
Infos == [src : Nat, dst : Nat, protocol : Nat, src_port : Nat, dst_port : Nat]

ASSUME FramesAssumption == \A frame \in Frames : ~Skipped(frame) => FlowInfo(frame) \in Infos

-----------------------------------------------------------------------------
Before(a, b) == a[1] < b[1] \/ (a[1] = b[1] /\ a[2] <= b[2])

\* Only the addresses compared, as a shortcut would do it.
OrderedByAddress(src, dst) == IF src[1] < dst[1] THEN << src, dst >> ELSE << dst, src >>

\* FlowId<true>: the endpoints in order; without ports the addresses are compared.
Ordered(src, dst) == IF Before(src, dst) THEN << src, dst >> ELSE << dst, src >>

Tuple(symmetric, src, dst) == IF symmetric THEN Ordered(src, dst) ELSE << src, dst >>

Symmetric(granularity) ==
  granularity \in {"tuple2-sym", "tuple3-sym", "tuple4-sym", "tuple5-sym"}
WithPorts(granularity) ==
  granularity \in {"tuple4", "tuple4-sym", "tuple5", "tuple5-sym"}
WithProtocol(granularity) ==
  granularity \in {"tuple3", "tuple3-sym", "tuple5", "tuple5-sym"}

\* SplitFlowId::from_info; the file name spells out every part of the identifier.
FlowId(granularity, info) ==
  LET port(n) == IF WithPorts(granularity) THEN n ELSE 0
      ends == CASE granularity = "src-ip" -> << << info.src, 0 >> >>
                [] granularity = "dst-ip" -> << << info.dst, 0 >> >>
                [] OTHER -> Tuple(Symmetric(granularity), << info.src, port(info.src_port) >>,
                                  << info.dst, port(info.dst_port) >>)
  IN [ends |-> ends, protocol |-> IF WithProtocol(granularity) THEN info.protocol ELSE 0]

Key(i) == FlowId(options.granularity, FlowInfo(capture[i]))

Entry(map, key) == IF key \in DOMAIN map THEN map[key] ELSE << >>

Add(map, key, i) ==
  [k \in DOMAIN map \cup {key} |-> IF k = key THEN Append(Entry(map, k), i) ELSE map[k]]

\* The n flows that the map lists first.
AnyOf(n) ==
  {keys \in SUBSET DOMAIN flows :
     Cardinality(keys) = (IF n = 0 \/ n > Cardinality(DOMAIN flows)
                          THEN Cardinality(DOMAIN flows) ELSE n)}

\* sort_by_key(Reverse(len)) and truncate: ties fall as the hash map lists them.
Largest(n) ==
  {keys \in SUBSET DOMAIN flows :
     /\ Cardinality(keys) = (IF n = 0 \/ n > Cardinality(DOMAIN flows)
                             THEN Cardinality(DOMAIN flows) ELSE n)
     /\ \A k \in keys, other \in DOMAIN flows \ keys : Len(flows[k]) >= Len(flows[other])}

-----------------------------------------------------------------------------
NoFlows == [k \in {} |-> << >>]

SplitInit ==
  /\ options \in [granularity : Granularities, number : Numbers, two_pass : BOOLEAN]
  /\ phase = "first" /\ capture = << >> /\ next = 1
  /\ flows = NoFlows /\ selected = {} /\ files = NoFlows /\ writing = {}

\* Both modes: one packet of the first pass; the two-pass mode keeps only the number
\* of packets of a flow.
ReadPacket ==
  /\ phase = "first" /\ Len(capture) < MaxPackets
  /\ \E frame \in Frames :
       /\ capture' = Append(capture, frame)
       /\ next' = next + 1
       /\ flows' = IF Skipped(frame) THEN flows
                   ELSE Add(flows, FlowId(options.granularity, FlowInfo(frame)), next)
  /\ UNCHANGED << options, phase, selected, files, writing >>

EndOfFirstPass ==
  /\ phase = "first"
  /\ selected' \in Largest(options.number)
  /\ phase' = IF options.two_pass THEN "second" ELSE "write"
  /\ next' = 1
  /\ UNCHANGED << options, capture, flows, files, writing >>

\* reader.next_packet()? in either pass: writers that are open are dropped.
ReadFails ==
  /\ phase \in {"first", "second"}
  /\ phase' = "failed" /\ writing' = {}
  /\ UNCHANGED << options, capture, next, flows, selected, files >>

-----------------------------------------------------------------------------
(* single_pass_split: the largest remaining flow, its packets, the flush. *)

\* All the files at once.
CreateWriters ==
  /\ phase = "write"
  /\ \E k \in selected \ DOMAIN files :
       /\ files' = [key \in DOMAIN files \cup {k} |-> IF key = k THEN << >> ELSE files[key]]
       /\ writing' = writing \cup {k}
  /\ UNCHANGED << options, phase, capture, next, flows, selected >>

CreateWriter ==
  /\ phase = "write" /\ writing = {}
  /\ \E k \in selected \ DOMAIN files :
       /\ \A other \in selected \ DOMAIN files : Len(flows[k]) >= Len(flows[other])
       /\ files' = [key \in DOMAIN files \cup {k} |-> IF key = k THEN << >> ELSE files[key]]
       /\ writing' = {k}
  /\ UNCHANGED << options, phase, capture, next, flows, selected >>

WritePacket ==
  /\ phase = "write"
  /\ \E k \in writing :
       /\ Len(files[k]) < Len(flows[k])
       /\ files' = [files EXCEPT ![k] = Append(@, flows[k][Len(@) + 1])]
  /\ UNCHANGED << options, phase, capture, next, flows, selected, writing >>

FlushWriter ==
  /\ phase = "write"
  /\ \E k \in writing : Len(files[k]) = Len(flows[k])
  /\ writing' = {}
  /\ UNCHANGED << options, phase, capture, next, flows, selected, files >>

\* Creating a file, writing or flushing fails; the flows after it are not written.
WriteFails ==
  /\ phase = "write" /\ selected # DOMAIN files \ writing
  /\ phase' = "failed" /\ writing' = {}
  /\ UNCHANGED << options, capture, next, flows, selected, files >>

Written ==
  /\ phase = "write" /\ writing = {} /\ selected = DOMAIN files
  /\ phase' = "done"
  /\ UNCHANGED << options, capture, next, flows, selected, files, writing >>

-----------------------------------------------------------------------------
(* two_pass_split: the capture is read again, a selected flow's writer opens with *)
(* its first packet, and all writers stay open until the end.                     *)

Grow ==
  /\ phase = "second" /\ Len(capture) < MaxPackets + MaxGrowth
  /\ next = Len(capture) + 1
  /\ \E frame \in Frames : capture' = Append(capture, frame)
  /\ UNCHANGED << options, phase, next, flows, selected, files, writing >>

RereadPacket ==
  /\ phase = "second" /\ next <= Len(capture)
  /\ next' = next + 1
  /\ IF Skipped(capture[next]) \/ Key(next) \notin selected THEN
       UNCHANGED << files, writing >>
     ELSE
       /\ files' = Add(files, Key(next), next)
       /\ writing' = writing \cup {Key(next)}
  /\ UNCHANGED << options, phase, capture, flows, selected >>

\* create_writer fails or write_packet does: the file may exist without the packet.
RereadFails ==
  /\ phase = "second" /\ next <= Len(capture)
  /\ ~Skipped(capture[next]) /\ Key(next) \in selected
  /\ phase' = "failed" /\ writing' = {}
  /\ files' \in {files, [k \in DOMAIN files \cup {Key(next)} |->
                           IF k \in DOMAIN files THEN files[k] ELSE << >>]}
  /\ UNCHANGED << options, capture, next, flows, selected >>

EndOfSecondPass ==
  /\ phase = "second" /\ next = Len(capture) + 1
  /\ phase' = "flush"
  /\ UNCHANGED << options, capture, next, flows, selected, files, writing >>

FlushOne ==
  /\ phase = "flush"
  /\ \E k \in writing : writing' = writing \ {k}
  /\ UNCHANGED << options, phase, capture, next, flows, selected, files >>

FlushFails ==
  /\ phase = "flush" /\ writing # {}
  /\ phase' = "failed" /\ writing' = {}
  /\ UNCHANGED << options, capture, next, flows, selected, files >>

Flushed ==
  /\ phase = "flush" /\ writing = {}
  /\ phase' = "done"
  /\ UNCHANGED << options, capture, next, flows, selected, files, writing >>

SplitNext ==
  \/ ReadPacket \/ EndOfFirstPass \/ ReadFails
  \/ CreateWriter \/ WritePacket \/ FlushWriter \/ WriteFails \/ Written
  \/ Grow \/ RereadPacket \/ RereadFails \/ EndOfSecondPass
  \/ FlushOne \/ FlushFails \/ Flushed

SplitSpec == SplitInit /\ [][SplitNext]_splitVars

-----------------------------------------------------------------------------
InAFile(i) == \E k \in DOMAIN files : Contains(files[k], i)

\* What the granularity promises of two packets, said without identifiers.
SameEnds(p, q) ==
  CASE options.granularity = "src-ip" -> p.src = q.src
    [] options.granularity = "dst-ip" -> p.dst = q.dst
    [] OTHER -> /\ p.src = q.src /\ p.dst = q.dst
                /\ WithPorts(options.granularity) =>
                     p.src_port = q.src_port /\ p.dst_port = q.dst_port
Reply(p) == [p EXCEPT !.src = p.dst, !.dst = p.src,
                      !.src_port = p.dst_port, !.dst_port = p.src_port]
SameConversation(p, q) ==
  /\ SameEnds(p, q) \/ (Symmetric(options.granularity) /\ SameEnds(p, Reply(q)))
  /\ WithProtocol(options.granularity) => p.protocol = q.protocol

\* Two written packets are in one file exactly when they belong to one conversation
\* of the granularity, whichever direction they go, also when a host talks to itself
\* (the ordering of endpoints in packet/flow.rs, used by create_writer).
SameFileIffSameConversation ==
  \A i, j \in 1..Len(capture) :
    InAFile(i) /\ InAFile(j) =>
      (SameConversation(FlowInfo(capture[i]), FlowInfo(capture[j]))
         <=> \E k \in DOMAIN files : Contains(files[k], i) /\ Contains(files[k], j))

\* The packets of a flow among the first n; `packets` has them in capture order.
Members(k, n) == {i \in 1..n : ~Skipped(capture[i]) /\ Key(i) = k}
Lists(packets, members) ==
  /\ \A i \in members : Contains(packets, i)
  /\ \A a \in DOMAIN packets : packets[a] \in members
  /\ \A a, b \in DOMAIN packets : a < b => packets[a] < packets[b]

\* A run that succeeds wrote every packet of each selected flow, in capture order,
\* those included that were appended before the second pass reached the end; a flow
\* it left out had no more packets in the first pass than one it wrote, and the
\* files are as many as were asked for.
FilesAreFlows ==
  phase = "done" =>
    /\ DOMAIN files = selected
    /\ \A k \in selected : Lists(files[k], Members(k, Len(capture)))
    /\ \A k \in selected, other \in DOMAIN flows \ selected :
         Len(flows[k]) >= Len(flows[other])
    /\ Cardinality(selected) < Cardinality(DOMAIN flows) =>
         Cardinality(selected) = options.number

\* What a run that fails leaves behind: file by file, only the file it was writing is
\* incomplete; reading twice, the files hold all selected packets up to the one it
\* stopped at.  No file ever skips a packet of its flow.
FailureLeavesPrefix ==
  /\ \A k \in DOMAIN files : \E n \in 0..Len(capture) : Lists(files[k], Members(k, n))
  /\ ~options.two_pass =>
       \A j, k \in DOMAIN files : files[j] # flows[j] /\ files[k] # flows[k] => j = k
  /\ options.two_pass =>
       \A i \in 1..(next - 1) :
         selected # {} /\ ~Skipped(capture[i]) /\ Key(i) \in selected => InAFile(i)
=============================================================================
