-------------------------------- MODULE Craft --------------------------------
(***************************************************************************)
(* Packet crafting (src/packet/craft.rs and the craft.rs of each protocol):*)
(* a stack of builders, outermost first, is measured from the innermost    *)
(* layer outwards and then written in the same order into one buffer.      *)
(* Bytes matter where a length, a discriminator or a checksum is; the rest *)
(* of a header is a fixed pattern.                                         *)
(***************************************************************************)
EXTENDS Integers, Sequences

CONSTANTS
  Builders,    \* the builders a caller may push
  MaxLayers,   \* how many of them
  MaxLength    \* what a length field can carry: 65535 in the code

None == -1     \* a builder field that was not set

ASSUME CraftAssumption ==
  /\ MaxLayers \in Nat /\ MaxLength \in 0 .. 65535
  /\ \A b \in Builders : {b.units, b.length, b.checksum} \subseteq Nat \cup {None}

VARIABLES
  stack,       \* the builders pushed
  phase,       \* stacking, measuring, writing, built, failed
  index,       \* the layer measured or written next
  plans,       \* CraftPlan of each measured layer
  bytes,       \* the packet buffer, once allocated
  failure      \* the CraftError, or "none"

craftVars == << stack, phase, index, plans, bytes, failure >>

-----------------------------------------------------------------------------
\* The Internet checksum.

RoundUp4(n) == ((n + 3) \div 4) * 4
Word(n) == << n \div 256, n % 256 >>
Zeros(n) == [k \in 1 .. n |-> 0]
Pattern(n) == [k \in 1 .. n |-> (37 * k) % 256]

Total(n, value(_)) ==
  LET sum[k \in 0 .. n] == IF k = 0 THEN 0 ELSE sum[k-1] + value(k) IN sum[n]

\* Big-endian words; an odd last byte is the high byte of a last word.
WordSum(data) ==
  LET value(k) == IF k % 2 = 1 THEN 256 * data[k] ELSE data[k]
  IN Total(Len(data), value)

\* The end-around carry loop: a sum that is not zero never folds to zero.
Folded(sum) == IF sum = 0 THEN 0 ELSE ((sum - 1) % 65535) + 1

\* The checksum of data whose two bytes from `field` (counted from 0) are taken as zero.
Checksum(pseudo, data, field) ==
  65535 - Folded(pseudo + WordSum([k \in 1 .. Len(data) |->
                                     IF k \in {field + 1, field + 2} THEN 0 ELSE data[k]]))

Src(b) == << 192, 0, 2, b.host >>
Dst(b) == << 198, 51, 100, b.host >>
PseudoSum(b, protocol, length) == WordSum(Src(b)) + WordSum(Dst(b)) + protocol + length

-----------------------------------------------------------------------------
\* Measuring.

\* child_context: the innermost IPv4 builder outside layer i, whatever is in between.
Outer(i) == {j \in 1 .. i - 1 : stack[j].proto = "Ipv4"}
Context(i) == stack[CHOOSE j \in Outer(i) : \A k \in Outer(i) : k <= j]

ChildLen(i) == IF i = Len(stack) THEN 0 ELSE plans[i+1].total
IsChild(i, proto) == i < Len(stack) /\ stack[i+1].proto = proto

\* measure_header_len: the header in units of four bytes, set or counted in one byte.
MinHeaderLen(b) == 20 + RoundUp4(Len(b.options))
HeaderUnits(b) == IF b.units = None THEN (MinHeaderLen(b) \div 4) % 256 ELSE b.units

HeaderLen(b) ==
  CASE b.proto = "Eth" -> 14
    [] b.proto \in {"Ipv4", "Tcp"} -> 4 * HeaderUnits(b)
    [] b.proto \in {"Udp", "Icmp"} -> 8
    [] b.proto = "Raw" -> Len(b.payload)
    [] OTHER -> b.units

\* Only IPv4 and UDP carry their length; a custom layer may plan anything.
PlannedTotal(b, i) ==
  IF b.proto = "Custom" /\ b.length # None THEN b.length ELSE HeaderLen(b) + ChildLen(i)

\* Mutant: a set header length is only checked to be in range.
BadRangeOnly(b) == b.proto \in {"Ipv4", "Tcp"} /\ HeaderUnits(b) \notin 5 .. 15

BadHeader(b) ==
  b.proto \in {"Ipv4", "Tcp"} /\
    (HeaderUnits(b) \notin 5 .. 15 \/ HeaderLen(b) < MinHeaderLen(b))
BadLength(b, i) ==
  b.proto \in {"Ipv4", "Udp"} /\ b.length # None /\ b.length # PlannedTotal(b, i)

LengthOverflow(b, i) ==
  b.proto \in {"Ipv4", "Udp", "Tcp"} /\ PlannedTotal(b, i) > MaxLength

\* validate_plan.
BadPlan(b, i) == PlannedTotal(b, i) < HeaderLen(b) + ChildLen(i)

MeasureError(b, i) ==
  IF b.proto = "Raw" /\ i < Len(stack) THEN "RawMustBeTerminal"
  ELSE IF b.proto = "Icmp" /\ b.units # None THEN "InvalidMessageType"
  ELSE IF BadHeader(b) THEN "BadHeaderLength"
  ELSE IF BadLength(b, i) THEN "BadLength"
  ELSE IF LengthOverflow(b, i) THEN "LengthOverflow"
  ELSE IF BadPlan(b, i) THEN "BadPlan"
  ELSE "none"

-----------------------------------------------------------------------------
\* Writing.

\* set_layer_offsets: a layer starts where the header of the one outside it ends.
Offset(i) == Total(i - 1, LAMBDA j : plans[j].layer)

EthType(i) == IF IsChild(i, "Ipv4") THEN 2048 ELSE 0
IpProtocol(i) ==
  IF IsChild(i, "Icmp") THEN 1 ELSE IF IsChild(i, "Tcp") THEN 6
  ELSE IF IsChild(i, "Udp") THEN 17 ELSE 255

\* A header with its checksum still zero, and options padded with zeros.
Header(i) ==
  LET b == stack[i]
      options == b.options \o Zeros(plans[i].layer - 20 - Len(b.options))
  IN CASE b.proto = "Eth" -> Pattern(12) \o Word(EthType(i))
       [] b.proto = "Ipv4" ->
            << 64 + (plans[i].layer \div 4), 0 >> \o Word(plans[i].total) \o Zeros(2)
              \o Word(8192 * b.flags) \o << 64, IpProtocol(i), 0, 0 >> \o Src(b) \o Dst(b) \o options
       [] b.proto = "Tcp" ->
            Pattern(12) \o << 16 * (plans[i].layer \div 4), 2, 0, 64, 0, 0, 0, 0 >> \o options
       [] b.proto = "Udp" -> Pattern(4) \o Word(plans[i].total) \o << 0, 0 >>
       [] b.proto = "Icmp" -> << 8, 0, 0, 0 >> \o Pattern(4)
       [] b.proto = "Raw" -> b.payload
       [] OTHER -> Pattern(plans[i].layer)

ChecksumAt(b) ==
  CASE b.proto = "Ipv4" -> 10 [] b.proto = "Tcp" -> 16 [] b.proto = "Udp" -> 6
    [] b.proto = "Icmp" -> 2 [] OTHER -> None

\* What a builder computes over the bytes of its slice; TCP and UDP only under IPv4.
Computed(i, slice) ==
  LET b == stack[i]
      transport(n) == Checksum(PseudoSum(Context(i), n, Len(slice)), slice, ChecksumAt(b))
  IN CASE b.proto = "Ipv4" -> Checksum(0, SubSeq(slice, 1, plans[i].layer), ChecksumAt(b))
       [] b.proto = "Icmp" -> Checksum(0, slice, ChecksumAt(b))
       [] b.proto = "Tcp" /\ Outer(i) # {} -> transport(6)
       [] b.proto = "Udp" /\ Outer(i) # {} -> IF transport(17) = 0 THEN 65535 ELSE transport(17)
       [] OTHER -> 0

Overlay(data, first, part) ==
  [k \in 1 .. Len(data) |->
     IF k - first \in 1 .. Len(part) THEN part[k - first] ELSE data[k]]

\* The slice of a layer after its write: the header, then the checksum in it.
Written(i, slice) ==
  LET b == stack[i]
      headed == Overlay(slice, 0, Header(i))
  IN IF ChecksumAt(b) = None THEN headed
     ELSE Overlay(headed, ChecksumAt(b),
                  Word(IF b.checksum # None THEN b.checksum ELSE Computed(i, headed)))

-----------------------------------------------------------------------------
CraftInit ==
  /\ stack = << >> /\ phase = "stacking" /\ index = 0
  /\ plans = << >> /\ bytes = << >> /\ failure = "none"

\* push_layer, or one more `/`.
PushLayer(b) ==
  /\ phase = "stacking" /\ Len(stack) < MaxLayers
  /\ stack' = Append(stack, b)
  /\ UNCHANGED << phase, index, plans, bytes, failure >>

Fail(error) == phase' = "failed" /\ failure' = error

\* build and to_bytes.
Build ==
  /\ phase = "stacking"
  /\ index' = Len(stack)
  /\ IF stack = << >> THEN Fail("EmptyStack") ELSE phase' = "measuring" /\ UNCHANGED failure
  /\ UNCHANGED << stack, plans, bytes >>

MeasureLayer ==
  /\ phase = "measuring" /\ index > 0
  /\ LET b == stack[index] IN
     IF MeasureError(b, index) # "none"
     THEN Fail(MeasureError(b, index)) /\ UNCHANGED << index, plans >>
     ELSE /\ plans' = [i \in index .. Len(stack) |->
                         IF i = index THEN [layer |-> HeaderLen(b), total |-> PlannedTotal(b, i)]
                         ELSE plans[i]]
          /\ index' = index - 1 /\ UNCHANGED << phase, failure >>
  /\ UNCHANGED << stack, bytes >>

Allocate ==
  /\ phase = "measuring" /\ index = 0
  /\ bytes' = Zeros(plans[1].total)
  /\ phase' = "writing" /\ index' = Len(stack)
  /\ UNCHANGED << stack, plans, failure >>

\* Mutant: the layers are written from the outermost inwards.
WriteOuterFirst ==
  /\ phase = "writing" /\ index > 0
  /\ LET i == Len(stack) + 1 - index
         slice == SubSeq(bytes, Offset(i) + 1, Offset(i) + plans[i].total)
     IN bytes' = Overlay(bytes, Offset(i), Written(i, slice))
  /\ index' = index - 1 /\ phase' = IF index = 1 THEN "built" ELSE phase
  /\ UNCHANGED << stack, plans, failure >>

\* write_measured: the innermost layer first, each into its own slice.
WriteLayer ==
  /\ phase = "writing" /\ index > 0
  /\ LET slice == SubSeq(bytes, Offset(index) + 1, Offset(index) + plans[index].total) IN
     IF stack[index].proto \in {"Ipv4", "Udp"} /\ plans[index].total > MaxLength
     THEN Fail("LengthOverflow") /\ UNCHANGED << bytes, index >>
     ELSE /\ bytes' = Overlay(bytes, Offset(index), Written(index, slice))
          /\ index' = index - 1 /\ phase' = IF index = 1 THEN "built" ELSE phase
          /\ UNCHANGED failure
  /\ UNCHANGED << stack, plans >>

CraftNext ==
  (\E b \in Builders : PushLayer(b)) \/ Build \/ MeasureLayer \/ Allocate \/ WriteLayer

-----------------------------------------------------------------------------
ByteAt(i, k) == bytes[Offset(i) + k + 1]
WordAt(i, k) == 256 * ByteAt(i, k) + ByteAt(i, k + 1)

\* A reader of the bytes alone finds the layers of the table: each header says how
\* long it is, the ones with a length field span exactly their child, Ethernet and IPv4
\* name their child, and nothing was written outside a layer's own bytes.
BytesDescribeLayers ==
  phase = "built" =>
    /\ Len(bytes) = plans[1].total
    /\ \A i \in 1 .. Len(stack) :
         /\ Len(Header(i)) = plans[i].layer
         /\ Offset(i) + plans[i].total <= Len(bytes)
         /\ CASE stack[i].proto = "Eth" -> (WordAt(i, 12) = 2048) = IsChild(i, "Ipv4")
              [] stack[i].proto = "Ipv4" ->
                   /\ 4 * (ByteAt(i, 0) % 16) = plans[i].layer
                   /\ WordAt(i, 2) = plans[i].layer + ChildLen(i)
                   /\ \A p \in {<< "Icmp", 1 >>, << "Tcp", 6 >>, << "Udp", 17 >>} :
                        (ByteAt(i, 9) = p[2]) = IsChild(i, p[1])
              [] stack[i].proto = "Tcp" -> 4 * (ByteAt(i, 12) \div 16) = plans[i].layer
              [] stack[i].proto = "Udp" -> WordAt(i, 4) = 8 + ChildLen(i)
              [] stack[i].proto = "Raw" -> \A k \in DOMAIN stack[i].payload :
                                             ByteAt(i, k - 1) = stack[i].payload[k]
              [] OTHER -> TRUE

\* Every checksum that the builders computed satisfies the receiver's rule: the bytes it
\* covers, with the checksum and the pseudo header of the enclosing IPv4 layer, sum to
\* all ones.  Layers written later, around it, do not invalidate it.
ChecksumsVerify ==
  phase = "built" =>
    \A i \in 1 .. Len(stack) :
      LET b == stack[i]
          slice(n) == SubSeq(bytes, Offset(i) + 1, Offset(i) + n)
          pseudo == PseudoSum(Context(i), IF b.proto = "Tcp" THEN 6 ELSE 17, plans[i].total)
      IN b.checksum = None =>
           CASE b.proto = "Ipv4" -> Folded(WordSum(slice(plans[i].layer))) = 65535
             [] b.proto = "Icmp" -> Folded(WordSum(slice(plans[i].total))) = 65535
             [] b.proto \in {"Tcp", "Udp"} /\ Outer(i) # {} ->
                  Folded(pseudo + WordSum(slice(plans[i].total))) = 65535
             [] OTHER -> TRUE

\* Whatever cannot be crafted fails while measuring, before there is a buffer.
FailsBeforeBytes == phase = "failed" => bytes = << >> /\ failure # "none"

CraftSpec == CraftInit /\ [][CraftNext]_craftVars

=============================================================================
