------------------------------- MODULE Rewrite -------------------------------
(***************************************************************************)
(* Address rewriting of maja-mergecap (map.rs, map/packet.rs, the direct   *)
(* maps of map/entry.rs) on the packets of Craft: a crafted packet is      *)
(* captured, whole or not, read back and given to the Rewriter of its      *)
(* input file.  What the flow map answers is the business of FlowAlloc.    *)
(***************************************************************************)
EXTENDS Craft

CONSTANTS
  Captures,    \* how a packet may end up in a file: whole, cut, padded, offloaded
  Rewriters    \* the configurations of Rewriter::new

VARIABLES
  before,      \* the bytes of the packet as they were read
  outcome      \* what rewrite returned, and the Rewriter's fix_checksum

rewriteVars == << craftVars, before, outcome >>

-----------------------------------------------------------------------------
\* Direct maps: IPv4 addresses and networks are sequences of one to four bytes.

Contains4(net, address) == net = SubSeq(address, 1, Len(net))

\* What one entry answers: `fixed` and `mask` keep the host part, `pool` draws.
Answers(rule, address) ==
  IF rule.shape = "pool" THEN rule.hosts
  ELSE {rule.net \o SubSeq(address, Len(rule.net) + 1, 4)}

\* DirectionMap::target: the rule with the longest `from`, else the merged pool; the
\* empty set leaves the address alone, also when a rule with an empty pool matched.
DirectTargets(map, address) ==
  LET matching == {k \in DOMAIN map.rules : Contains4(map.rules[k].from, address)}
      Precedes(j, k) == \/ Len(map.rules[j].from) > Len(map.rules[k].from)
                        \/ Len(map.rules[j].from) = Len(map.rules[k].from) /\ j <= k
  IN IF matching = {} THEN map.merged
     ELSE Answers(map.rules[CHOOSE j \in matching : \A k \in matching : Precedes(j, k)], address)

-----------------------------------------------------------------------------
\* The packet as the parser knows it: the layers that are there completely.

Parsed(proto, data) ==
  {i \in 1 .. Len(stack) : /\ stack[i].proto = proto
                           /\ Offset(i) + plans[i].layer <= Len(data)}

\* nth_layer(protocol, -1); the one with index 0 is the innermost.
Outermost(layers) == CHOOSE i \in layers : \A j \in layers : i <= j
Innermost(layers) == CHOOSE i \in layers : \A j \in layers : j <= i

Ip(data) == Outermost(Parsed("Ipv4", data))
SrcAt(data) == Offset(Ip(data)) + 12
DstAt(data) == Offset(Ip(data)) + 16
Number(data, at) == 256 * data[at + 1] + data[at + 2]
Address(data, at) == SubSeq(data, at + 1, at + 4)

Fragment(data) ==
  Number(data, Offset(Ip(data)) + 6) % 8192 # 0 \/ (data[Offset(Ip(data)) + 7] \div 32) % 2 = 1

\* outer_transport, and the outermost layer of that protocol.
Transport(data) == data[Offset(Ip(data)) + 10]
TransportLayers(data) ==
  CASE Transport(data) = 6 -> Parsed("Tcp", data)
    [] Transport(data) = 17 -> Parsed("Udp", data)
    [] OTHER -> {}

\* Mutant: the segment reaches to the end of what was captured.
SegmentToTheEnd(data) == Len(data)

\* transport_segment: its end is declared, or the captured end for offloaded packets.
SegmentEnd(data) ==
  LET declared == Number(data, Offset(Ip(data)) + 2) IN
  IF declared <= plans[Ip(data)].layer THEN Len(data) ELSE Offset(Ip(data)) + declared

TransportSum(data, at, src, dst) ==
  LET segment == SubSeq(data, at + 1, SegmentEnd(data))
      value == Checksum(WordSum(src) + WordSum(dst) + Transport(data) + Len(segment), segment,
                        IF Transport(data) = 6 THEN 16 ELSE 6)
  IN IF Transport(data) = 17 /\ value = 0 THEN 65535 ELSE value

Disabled(data, at) == Transport(data) = 17 /\ Number(data, at + 6) = 0
ChecksumField(data, at) == at + (IF Transport(data) = 6 THEN 16 ELSE 6)

-----------------------------------------------------------------------------
\* fix_checksums on IPv4.

FixHeader(data) ==
  LET at == Offset(Ip(data)) IN
  Overlay(data, at + 10, Word(Checksum(0, SubSeq(data, at + 1, at + plans[Ip(data)].layer), 10)))

\* Mutant: the transport of the innermost packet is fixed.
FixInnermost(data) ==
  IF Fragment(data) \/ TransportLayers(data) = {} \/ SegmentEnd(data) > Len(data) THEN data
  ELSE LET at == Offset(Innermost(TransportLayers(data))) IN
       IF Disabled(data, at) THEN data
       ELSE Overlay(data, ChecksumField(data, at),
                    Word(TransportSum(data, at, Address(data, SrcAt(data)), Address(data, DstAt(data)))))

\* A fragment, a cut segment and a disabled UDP checksum are left alone.
FixTransport(data) ==
  IF Fragment(data) \/ TransportLayers(data) = {} \/ SegmentEnd(data) > Len(data) THEN data
  ELSE LET at == Offset(Outermost(TransportLayers(data))) IN
       IF Disabled(data, at) THEN data
       ELSE Overlay(data, ChecksumField(data, at),
                    Word(TransportSum(data, at, Address(data, SrcAt(data)), Address(data, DstAt(data)))))

-----------------------------------------------------------------------------
RewriteInit == CraftInit /\ before = << >> /\ outcome = [changed |-> FALSE, fix |-> FALSE]

\* Craft names a child only behind Ethernet and IPv4, so that the parser finds the outer
\* IPv4 layer and its transport in these stacks; deeper layers are those build recorded.
ReadBack ==
  \/ stack[1].proto = "Ipv4"
  \/ Len(stack) > 1 /\ stack[1].proto = "Eth" /\ stack[2].proto = "Ipv4"

Zeroed(at) == Overlay(bytes, at, << 0, 0 >>)

\* A capture may lack the end of the packet, pad it, or hold it without a total length.
Capture(kind) ==
  /\ phase = "built" /\ ReadBack /\ kind \in Captures
  /\ bytes' = CASE kind = "cut" -> SubSeq(bytes, 1, Len(bytes) - 1)
                [] kind = "padded" -> bytes \o << 1, 2, 3 >>
                [] kind = "offloaded" ->
                     Zeroed(Offset(Outermost(Parsed("Ipv4", bytes))) + 2)
                [] OTHER -> bytes
  /\ phase' = "captured" /\ before' = bytes'
  /\ UNCHANGED << stack, index, plans, failure, outcome >>

SomeOf(targets, address) == IF targets = {} THEN {address} ELSE targets

\* Rewriter::rewrite: the direct maps, then the flow map on what they left, then the
\* checksums if anything answered and they are to be fixed.
RewritePacket(rewriter) ==
  /\ phase = "captured"
  /\ phase' = "rewritten"
  /\ IF Parsed("Ipv4", bytes) = {}
     THEN UNCHANGED bytes /\ outcome' = [changed |-> FALSE, fix |-> rewriter.fix]
     ELSE LET sources == DirectTargets(rewriter.src, Address(bytes, SrcAt(bytes)))
              destinations == DirectTargets(rewriter.dst, Address(bytes, DstAt(bytes)))
          IN \E s \in SomeOf(sources, Address(bytes, SrcAt(bytes))),
                d \in SomeOf(destinations, Address(bytes, DstAt(bytes))),
                flow \in SomeOf(rewriter.flow, [src |-> << >>, dst |-> << >>]) :
               LET direct == Overlay(Overlay(bytes, SrcAt(bytes), s), DstAt(bytes), d)
                   mapped == Overlay(Overlay(direct, SrcAt(bytes), flow.src),
                                     DstAt(bytes), flow.dst)
                   changed == \/ sources # {} \/ destinations # {}
                              \/ flow.src # << >> \/ flow.dst # << >>
               IN /\ bytes' = IF changed /\ rewriter.fix
                              THEN FixTransport(FixHeader(mapped)) ELSE mapped
                  /\ outcome' = [changed |-> changed, fix |-> rewriter.fix]
  /\ UNCHANGED << stack, index, plans, failure, before >>

RewriteNext ==
  \/ CraftNext /\ UNCHANGED << before, outcome >>
  \/ \E kind \in Captures : Capture(kind)
  \/ \E rewriter \in Rewriters : RewritePacket(rewriter)

RewriteSpec == RewriteInit /\ [][RewriteNext]_rewriteVars

-----------------------------------------------------------------------------
Rewritten == phase = "rewritten" /\ Parsed("Ipv4", bytes) # {}

\* A rewritten packet is as good as one sent with its new addresses: the header checksum
\* verifies, and so does the TCP or UDP checksum of the outermost packet over exactly the
\* segment its header declares (fix_checksums), unless no checksum of this packet alone can.
ChecksumsSurviveRewriting ==
  Rewritten /\ outcome.changed /\ outcome.fix =>
    /\ Folded(WordSum(SubSeq(bytes, Offset(Ip(bytes)) + 1,
                             Offset(Ip(bytes)) + plans[Ip(bytes)].layer))) = 65535
    /\ LET i == Ip(bytes) + 1
           declared == IF Number(bytes, Offset(i - 1) + 2) = 0 THEN Len(bytes)
                       ELSE Offset(i - 1) + plans[i - 1].total
           segment == SubSeq(bytes, Offset(i) + 1, declared)
           pseudo == WordSum(Address(bytes, SrcAt(bytes))) + WordSum(Address(bytes, DstAt(bytes)))
                       + Transport(bytes) + Len(segment)
       IN /\ i <= Len(stack) /\ stack[i].proto \in {"Tcp", "Udp"}
          /\ declared <= Len(bytes) /\ stack[i - 1].flags = 0
          /\ Offset(i) + plans[i].layer <= Len(bytes)
          /\ ~(stack[i].proto = "Udp" /\ Number(before, Offset(i) + 6) = 0)
          => Folded(pseudo + WordSum(segment)) = 65535

\* Rewriting touches the two outer addresses and the two checksums that cover them and
\* nothing else: not the inner packet of a tunnel, not its transport, not a fragment's
\* transport checksum, and no checksum of a packet no map had an answer for.
RewriteIsLocal ==
  phase = "rewritten" =>
    LET at == Offset(Ip(bytes))
        transport == Offset(Ip(bytes) + 1) + ChecksumAt(stack[Ip(bytes) + 1])
        allowed ==
          IF Parsed("Ipv4", bytes) = {} \/ ~ outcome.changed THEN {}
          ELSE (at + 12 .. at + 19)
                 \cup (IF ~ outcome.fix THEN {} ELSE {at + 10, at + 11})
                 \cup (IF \/ ~ outcome.fix \/ stack[Ip(bytes)].flags # 0
                          \/ Ip(bytes) = Len(stack)
                          \/ stack[Ip(bytes) + 1].proto \notin {"Tcp", "Udp"}
                       THEN {} ELSE {transport, transport + 1})
    IN /\ Len(bytes) = Len(before)
       /\ \A k \in 1 .. Len(bytes) : bytes[k] = before[k] \/ k - 1 \in allowed

=============================================================================
