----------------------------- MODULE ParseEngine -----------------------------
(***************************************************************************)
(* Parsing of one packet (src/packet.rs: Packet::try_parse, ParseContext)  *)
(* with the parse function of every protocol under src/packet/layer.       *)
(*                                                                         *)
(* The Rust call stack is the variable `stack`, the code about to run is   *)
(* `at`.  The bytes of a packet are the choices a parser makes when it     *)
(* reads a header: the length the header states, the protocol it names,    *)
(* the end of payload it declares.  Sizes are bytes, as in the code.       *)
(***************************************************************************)
EXTENDS Integers, Sequences, FiniteSets

CONSTANTS
  Captures,      \* numbers of captured bytes a packet may have
  MaxDepths,     \* values of max_depth; None is a depth no packet reaches
  Unbounded,     \* declared_end = None: an end behind every captured byte
  Known,         \* the protocols the packets may name
  Registry,      \* the parents under which the caller registered a parser
  Words,         \* values of the 4-bit lengths (ihl, data offset)
  Octets,        \* values of the 8-bit lengths (ext. headers, AH, ARP)
  Lengths,       \* values of the 16-bit lengths (total, payload, TLS record)
  MaxLabels      \* entries of an MPLS label stack

ASSUME ParseEngineAssumption ==
  /\ Captures \subseteq Nat /\ MaxDepths \subseteq Nat /\ Unbounded \in Nat
  /\ Words \subseteq 0 .. 15 /\ Octets \subseteq 0 .. 255 /\ MaxLabels \in Nat
  /\ Lengths \subseteq Nat /\ \A n \in Lengths : n < 65536
  /\ \A c \in Captures : c <= Unbounded

VARIABLES
  captured,      \* bytes.len()
  max_depth,     \* ParseOptions
  fallback,      \* fallback_to_raw_on_child_error
  layers,        \* the layer table
  declared_end,  \* ParseContext::declared_end
  stack,         \* calls under way: parse_child and the bounding of a payload
  at             \* the parser about to run, or the result being returned

options == << captured, max_depth, fallback >>
vars == << captured, max_depth, fallback, layers, declared_end, stack, at >>

Least(a, b) == IF a <= b THEN a ELSE b

-----------------------------------------------------------------------------
\* A layer; `declares` is where the region of its payload ends, when it is an
\* IP header that bounds it.  It is not kept by the code.
Layer(p, o, n, d) == [proto |-> p, offset |-> o, len |-> n, declares |-> d]
Past(l) == l.offset + l.len
IsRaw(l) == l.proto = "Raw"

\* Where a parser stands, and what a call returns.
Parse(p, o) == [op |-> "parse", proto |-> p, offset |-> o, ok |-> TRUE]
Return(b) == [op |-> "return", proto |-> "", offset |-> 0, ok |-> b]
Done(b) == [Return(b) EXCEPT !.op = "done"]

\* parse_child_with remembers the table's length and the child's offset; the IP
\* parsers remember the end outside their payload and the one they declare.
ChildFrame(n, o) == [kind |-> "child", checkpoint |-> n, offset |-> o, outer |-> 0]
BoundFrame(out, end) == [kind |-> "bound", checkpoint |-> 0, offset |-> end, outer |-> out]

RegionEnd(end) == Least(end, captured)
End == RegionEnd(declared_end)
Rest(o) == End - Least(o, End)
Require(o, n) == o + n <= End
CanPush(ls) == Len(ls) < max_depth

PushLayer(ls, l) == IF CanPush(ls) THEN Append(ls, l) ELSE ls

\* parse_raw, in a region that ends at `end`.
ParseRaw(ls, o, end) ==
  LET raw == Layer("Raw", o, end - o, Unbounded) IN
  IF end <= o \/ (ls # << >> /\ ls[Len(ls)] = raw) THEN ls ELSE Append(ls, raw)

-----------------------------------------------------------------------------
Init ==
  /\ captured \in Captures /\ max_depth \in MaxDepths /\ fallback \in BOOLEAN
  /\ layers = << >> /\ declared_end = Unbounded /\ stack = << >>
  /\ at = [op |-> "start", proto |-> "", offset |-> 0, ok |-> TRUE]

\* parse::<P>(0): a root parser beyond the depth returns without a layer.
Root(p) ==
  /\ at.op = "start"
  /\ at' = IF CanPush(layers) THEN Parse(p, 0) ELSE Done(TRUE)
  /\ UNCHANGED << options, layers, declared_end, stack >>

TryParse == \E p \in {"Eth", "Sll", "Ipv4", "Ipv6"} : Root(p)

\* The two link types that have no parser of their own.
RawLink ==
  /\ at.op = "start"
  /\ layers' = ParseRaw(layers, 0, End) /\ at' = Done(TRUE)
  /\ UNCHANGED << options, declared_end, stack >>

UnsupportedLink ==
  /\ at.op = "start" /\ at' = Done(FALSE)
  /\ UNCHANGED << options, layers, declared_end, stack >>

TryParseWithLinkType == TryParse \/ RawLink \/ UnsupportedLink

-----------------------------------------------------------------------------
(* What a parser does next: fail, or go on behind its header.             *)

Parsing(p) == at.op = "parse" /\ at.proto = p

\* parse_child (a protocol), parse_raw ("raw") or a plain return ("none") at `o`,
\* with the layer table `ls`, the pending calls `st` and the region `de`.
Into(next, o, ls, st, de) ==
  /\ declared_end' = de /\ UNCHANGED options
  /\ IF next \notin {"raw", "none"} /\ CanPush(ls)
     THEN /\ layers' = ls /\ stack' = Append(st, ChildFrame(Len(ls), o))
          /\ at' = Parse(next, o)
     ELSE /\ layers' = IF next = "none" THEN ls ELSE ParseRaw(ls, o, RegionEnd(de))
          /\ stack' = st /\ at' = Return(TRUE)

Header(n) == PushLayer(layers, Layer(at.proto, at.offset, n, Unbounded))

\* Mutant: the child is parsed at its parent's own offset.
StepInPlace(n, next) ==
  Require(at.offset, n) /\ Into(next, at.offset, Header(n), stack, declared_end)

\* A header of n bytes, complete, followed by `next`.
Step(n, next) ==
  Require(at.offset, n) /\ Into(next, at.offset + n, Header(n), stack, declared_end)

\* Mutant: a cut off header is dispatched again at its start.
TrustedInPlace(declared, next) ==
  IF declared > Rest(at.offset)
  THEN Into(next, at.offset, layers, stack, declared_end)
  ELSE Step(declared, IF Rest(at.offset + declared) = 0 THEN "raw" ELSE next)

\* Err(_) with the layers `ls` in the table.
Fail(ls) ==
  /\ at' = Return(FALSE) /\ layers' = ls
  /\ UNCHANGED << options, declared_end, stack >>

Truncated(n) == ~Require(at.offset, n) /\ Fail(layers)

\* The protocols a header of `parent` can name: those it dispatches on, a
\* registered one, or something else, which is kept raw.
Named(parent, dispatched) ==
  (dispatched \cap Known) \cup {"raw"} \cup (IF parent \in Registry THEN {"Custom"} ELSE {})

EtherNexts == {"Ipv4", "Arp", "Ipv6", "Mpls"}
ExtHeaders == [Ipv6Hopopt |-> 2, Ipv6DestOpts |-> 2, Ipv6Route |-> 4, Ipv6Mobility |-> 6,
               Ipv6Hip |-> 40, Ipv6Shim6 |-> 6]
Ipv6Nexts == DOMAIN ExtHeaders \cup
  {"Ipv6Frag", "Ah", "Esp", "Tcp", "Udp", "Gre", "Sctp", "Icmpv6", "Ipv4", "Ipv6"}
Ipv4Nexts == {"Icmp", "Igmp", "Gre", "Tcp", "Udp", "Sctp"}

-----------------------------------------------------------------------------
(* Link layers.                                                            *)

ParseEth ==
  /\ Parsing("Eth")
  /\ \/ Truncated(14)
     \/ \E next \in Named("Eth", EtherNexts \cup {"Vlan", "Llc"}) : Step(14, next)

ParseVlan ==
  /\ Parsing("Vlan")
  /\ \/ Truncated(4)
     \/ \E next \in Named("Vlan", EtherNexts \cup {"Llc"}) : Step(4, next)

ParseSll ==
  /\ Parsing("Sll")
  /\ Truncated(16) \/ \E next \in Named("Sll", EtherNexts) : Step(16, next)

\* Only SNAP is decoded; any other LLC header adds nothing to the table.
ParseLlc ==
  /\ Parsing("Llc")
  /\ \/ Truncated(3)
     \/ /\ Require(at.offset, 3)
        /\ \/ Into("none", at.offset, layers, stack, declared_end)
           \/ Truncated(8)
           \/ \E next \in Named("Llc", EtherNexts) : Step(8, next)

\* The first byte behind the stack tells the payload; it is looked for in the
\* captured bytes, not in the region.
ParseMpls ==
  /\ Parsing("Mpls")
  /\ \/ Fail(layers)
     \/ \E k \in 1 .. MaxLabels :
          IF at.offset + 4 * k >= captured THEN Step(4 * k, "none")
          ELSE \E next \in Named("Mpls", {"Ipv4", "Ipv6"}) : Step(4 * k, next)

ParseArp ==
  /\ Parsing("Arp")
  /\ \/ Truncated(8)
     \/ /\ Require(at.offset, 8)
        /\ \E hlen, plen \in Octets :
             LET n == 8 + 2 * hlen + 2 * plen IN Truncated(n) \/ Step(n, "none")

-----------------------------------------------------------------------------
(* IP.  The payload's region ends where the header says, and not behind    *)
(* the region of the header; what lies behind it is recorded raw.          *)

\* Mutant: an inner header's end replaces the outer one.
BoundingAlone(n, end, next) ==
  Into(next, at.offset + n, PushLayer(layers, Layer(at.proto, at.offset, n, end)),
       Append(stack, BoundFrame(declared_end, end)), end)

\* `end` is the declared end, or Unbounded when the length field is zero.
Bounding(n, end, next) ==
  LET inner == Least(declared_end, end)
  IN Into(next, at.offset + n,
          PushLayer(layers, Layer(at.proto, at.offset, n, inner)),
          Append(stack, BoundFrame(declared_end, end)), inner)

DeclaredEnd(o, length) == IF length = 0 THEN Unbounded ELSE o + length

ParseIpv4 ==
  /\ Parsing("Ipv4")
  /\ \/ Truncated(20)
     \/ /\ Require(at.offset, 20)
        /\ \E ihl \in Words : LET n == 4 * ihl IN
             \/ n < 20 /\ Fail(layers)
             \/ n >= 20 /\ Truncated(n)
             \/ /\ n >= 20 /\ Require(at.offset, n)
                /\ \E total \in Lengths :
                     IF total # 0 /\ total < n THEN Fail(Header(n))
                     ELSE \E next \in Named("Ipv4", Ipv4Nexts) :
                            Bounding(n, DeclaredEnd(at.offset, total), next)

ParseIpv6 ==
  /\ Parsing("Ipv6")
  /\ \/ Truncated(40)
     \/ /\ Require(at.offset, 40)
        /\ \E payload \in Lengths, next \in Named("Ipv6", Ipv6Nexts) :
             Bounding(40, DeclaredEnd(at.offset + 40, payload), next)

\* A header that declares more than its region holds takes what is there; the
\* chain ends where the region does.
Trusted(declared, next) ==
  LET n == Least(declared, Rest(at.offset)) IN
  Step(n, IF Rest(at.offset + n) = 0 THEN "raw" ELSE next)

\* Mutant: the declared length does not have to cover the fixed part.
ParseAnyExtHeader ==
  \E p \in DOMAIN ExtHeaders :
    /\ Parsing(p)
    /\ \/ Truncated(2)
       \/ /\ Require(at.offset, 2)
          /\ \E x \in Octets, next \in Named("Ipv6", Ipv6Nexts) : Trusted(8 * (x + 1), next)

ParseExtHeader ==
  \E p \in DOMAIN ExtHeaders :
    /\ Parsing(p)
    /\ \/ Truncated(2)
       \/ /\ Require(at.offset, 2)
          /\ \E x \in Octets, next \in Named("Ipv6", Ipv6Nexts) :
               LET declared == 8 * (x + 1) IN
               IF declared < ExtHeaders[p] THEN Fail(layers) ELSE Trusted(declared, next)

ParseAh ==
  /\ Parsing("Ah")
  /\ \/ Truncated(12)
     \/ /\ Require(at.offset, 12)
        /\ \E x \in Octets, next \in Named("Ipv6", Ipv6Nexts) :
             LET declared == 4 * (x + 2) IN
             IF declared < 12 THEN Fail(layers) ELSE Trusted(declared, next)

\* A fragment behind the first is raw, which Named always allows.
ParseFrag ==
  /\ Parsing("Ipv6Frag")
  /\ Truncated(8) \/ \E next \in Named("Ipv6", Ipv6Nexts) : Step(8, next)

ParseEsp == Parsing("Esp") /\ (Truncated(8) \/ Step(8, "raw"))

-----------------------------------------------------------------------------
(* Tunnels and transports.                                                 *)

\* Checksum, key and sequence number are present or not: four bytes each.
ParseGre ==
  /\ Parsing("Gre")
  /\ \/ Truncated(4)
     \/ /\ Require(at.offset, 4)
        /\ \E present \in 0 .. 3, next \in Named("Gre", {"Ipv4", "Ipv6"}) :
             LET n == 4 + 4 * present IN Truncated(n) \/ Step(n, next)

ParseVxlan == Parsing("Vxlan") /\ (Truncated(8) \/ Step(8, "Eth"))

\* A TLS service port counts only in front of bytes that look like a record.
ParseTcp ==
  /\ Parsing("Tcp")
  /\ \/ Truncated(20)
     \/ /\ Require(at.offset, 20)
        /\ \E offs \in Words : LET n == 4 * offs IN
             \/ n < 20 /\ Fail(layers)
             \/ n >= 20 /\ Truncated(n)
             \/ /\ n >= 20
                /\ \E next \in Named("Tcp", IF Rest(at.offset + n) >= 5 THEN {"Tls"} ELSE {}) :
                     Step(n, next)

ParseUdp ==
  /\ Parsing("Udp")
  /\ \/ Truncated(8)
     \/ \E next \in Named("Udp", {"Dns", "Dhcp", "Ntp", "Vxlan"}) : Step(8, next)

ParseTls ==
  /\ Parsing("Tls")
  /\ \/ Truncated(5)
     \/ \E length \in Lengths : Require(at.offset, 5) /\
          (Truncated(5 + length) \/ Step(5 + length, "none"))

\* Protocols without children that take the rest of the region.
LeafMin == [Sctp |-> 12, Dns |-> 12, Dhcp |-> 240, Ntp |-> 48, Icmp |-> 4, Icmpv6 |-> 4]
ParseLeaf ==
  \E p \in DOMAIN LeafMin :
    /\ Parsing(p)
    /\ \/ Truncated(LeafMin[p])
       \/ Require(at.offset, LeafMin[p]) /\ Step(Rest(at.offset), "none")

ParseIgmp == Parsing("Igmp") /\ (Truncated(8) \/ Step(8, "none"))

\* A registered parser, like the Time protocol of examples/custom_protocol.rs.
ParseCustom ==
  /\ Parsing("Custom")
  /\ Truncated(10) \/ \E next \in {"Ipv4", "none"} : Step(10, next)

-----------------------------------------------------------------------------
(* Returning through the callers.                                          *)

Top == stack[Len(stack)]
Popped == SubSeq(stack, 1, Len(stack) - 1)

\* The end of parse_child_with: an error of the child becomes a raw layer, when
\* the options say so.
ReturnToParent ==
  /\ at.op = "return" /\ stack # << >> /\ Top.kind = "child"
  /\ stack' = Popped
  /\ IF ~at.ok /\ fallback
     THEN /\ layers' = ParseRaw(SubSeq(layers, 1, Top.checkpoint), Top.offset, End)
          /\ at' = Return(TRUE)
     ELSE UNCHANGED << layers, at >>
  /\ UNCHANGED << options, declared_end >>

\* Mutant: the bytes behind a declared end are not recorded.
ReturnWithoutTrailer ==
  /\ at.op = "return" /\ stack # << >> /\ Top.kind = "bound"
  /\ stack' = Popped /\ declared_end' = Top.outer
  /\ UNCHANGED << options, layers, at >>

\* The end of an IP parser: the outer region is restored, an error passed on,
\* and the bytes behind a declared end recorded.
ReturnToIp ==
  /\ at.op = "return" /\ stack # << >> /\ Top.kind = "bound"
  /\ stack' = Popped /\ declared_end' = Top.outer
  /\ layers' = IF at.ok THEN ParseRaw(layers, Top.offset, RegionEnd(Top.outer)) ELSE layers
  /\ UNCHANGED << options, at >>

Finish ==
  /\ at.op = "return" /\ stack = << >> /\ at' = [at EXCEPT !.op = "done"]
  /\ UNCHANGED << options, layers, declared_end, stack >>

ParseLink == ParseEth \/ ParseVlan \/ ParseSll \/ ParseLlc \/ ParseMpls \/ ParseArp
ParseNetwork == ParseIpv4 \/ ParseIpv6 \/ ParseExtHeader \/ ParseAh \/ ParseFrag \/ ParseEsp
ParseTransport == ParseGre \/ ParseVxlan \/ ParseTcp \/ ParseUdp \/ ParseTls \/ ParseLeaf
                  \/ ParseIgmp \/ ParseCustom
\* The caller has its result: a parse that stops anywhere else is a deadlock.
Returned == at.op = "done" /\ UNCHANGED vars

Returns == ReturnToParent \/ ReturnToIp \/ Finish \/ Returned

Next == TryParseWithLinkType \/ ParseLink \/ ParseNetwork \/ ParseTransport \/ Returns

Spec == Init /\ [][Next]_vars

-----------------------------------------------------------------------------
(* Properties.                                                             *)

\* A layer shorter than the fixed part of its extension header.
CutOff(l) == l.proto \in DOMAIN ExtHeaders /\ l.len < ExtHeaders[l.proto]

\* An extension header declares at least its fixed part, so that a layer without
\* all of it is one that was cut off: it ends where the capture or a payload around
\* it does, and it is the last one decoded.
CutHeadersEndTheChain ==
  \A i \in DOMAIN layers : CutOff(layers[i]) =>
    /\ \/ Past(layers[i]) = captured
       \/ \E j \in DOMAIN layers : j < i /\ layers[j].declares = Past(layers[i])
    /\ \A j \in DOMAIN layers : i < j => IsRaw(layers[j])

\* However headers nest, fail and are taken back, the table lists the layers
\* from the outside in, none over another's bytes or past the capture, nothing
\* decoded behind raw bytes or a header that was cut off, and no more of them
\* than max_depth.
LayersInOrder ==
  /\ \A i \in DOMAIN layers : Past(layers[i]) <= captured
  /\ \A i, j \in DOMAIN layers : i < j =>
       /\ Past(layers[i]) <= layers[j].offset
       /\ IsRaw(layers[i]) => IsRaw(layers[j])
  /\ \A i \in DOMAIN layers : ~IsRaw(layers[i]) => i <= max_depth
  /\ CutHeadersEndTheChain

\* What an IP header declares holds for everything decoded behind it: no layer
\* reaches over the end of the payload, and padding is kept apart from it (the
\* end a failing child set does not stay in force for its siblings either).
InsideDeclaredEnds ==
  \A i, j \in DOMAIN layers : i < j =>
    \/ Past(layers[j]) <= layers[i].declares
    \/ IsRaw(layers[j]) /\ layers[j].offset >= layers[i].declares

\* Protocols that decide on their own where they end, without a child.
EndsItself == {"Arp", "Igmp", "Tls", "Custom"}

\* A finished parse accounts for the whole frame: bytes are in no layer only
\* behind a protocol without payload, or where LLC without SNAP leaves
\* everything behind a link header undecoded.
GapsOnlyBehindLeaves ==
  at.op = "done" /\ at.ok /\ layers # << >> =>
    /\ layers[1].offset = 0
    /\ \A i \in DOMAIN layers :
         LET next == IF i = Len(layers) THEN captured ELSE layers[i + 1].offset IN
         \/ Past(layers[i]) = next
         \/ layers[i].proto \in EndsItself
         \/ layers[i].proto \in {"Eth", "Vlan"} /\ "Llc" \in Known

\* Each call of a child parser starts at least four bytes behind the one it is
\* made from: the recursion, which no option bounds by default, is as deep as
\* the packet is long and no deeper.
NestingAdvances ==
  \A i, j \in DOMAIN stack :
    i < j /\ stack[i].kind = "child" /\ stack[j].kind = "child" =>
      stack[i].offset + 4 <= stack[j].offset

=============================================================================
