---------------------------- MODULE PacketProofs -----------------------------
(***************************************************************************)
(* What a packet's bytes are read from and written to, proved.  Craft, for *)
(* any builders and any limit: what cannot be crafted fails while it is    *)
(* measured, never with a buffer already there.  HeaderFields, for every   *)
(* viewer: a field reads as what it was set to.  OptionWalk, for every     *)
(* slice: an iterator's items tile it.                                     *)
(***************************************************************************)
EXTENDS Craft, HeaderFields, OptionWalk, SequenceTheorems, TLAPS

-----------------------------------------------------------------------------
\* Craft: what a length field has to carry, of the layers measured so far, fits into it.
MeasuredFits(first) ==
  \A i \in first .. Len(stack) :
    stack[i].proto \in {"Ipv4", "Udp"} => ~ plans[i].total > MaxLength

\* FailsBeforeBytes is not inductive: writing checks the lengths again, with the buffer
\* there, and only what measuring has let through keeps that check from failing.
MeasureInv ==
  /\ phase \in {"stacking", "measuring", "writing", "built", "failed"}
  /\ stack \in Seq(Builders)
  /\ phase \in {"stacking", "measuring", "failed"} => bytes = << >>
  /\ phase = "failed" => failure # "none"
  /\ phase = "measuring" => index \in 0 .. Len(stack) /\ MeasuredFits(index + 1)
  /\ phase = "writing" => index \in 0 .. Len(stack) /\ MeasuredFits(1)

-----------------------------------------------------------------------------
\* A layer that is measured without an error can be written (checked_u16_len).
LEMMA MeasuredWithoutError ==
  ASSUME NEW b, NEW i, MeasureError(b, i) = "none", b.proto \in {"Ipv4", "Udp"}
  PROVE  ~ PlannedTotal(b, i) > MaxLength
<1>1. ~ LengthOverflow(b, i)
  BY DEF MeasureError
<1> QED
  BY <1>1 DEF LengthOverflow

\* PacketStack::new keeps the invariant.
LEMMA MeasureInit == CraftInit => MeasureInv
BY DEF CraftInit, MeasureInv

\* push_layer, build, measure and write keep the invariant.
LEMMA MeasureStep == MeasureInv /\ [CraftNext]_craftVars => MeasureInv'
<1> SUFFICES ASSUME MeasureInv, [CraftNext]_craftVars PROVE MeasureInv'
  OBVIOUS
<1>1. ASSUME NEW b \in Builders, PushLayer(b) PROVE MeasureInv'
  BY <1>1 DEF PushLayer, MeasureInv
<1>2. CASE Build
  <2>1. CASE stack = << >>
    BY <1>2, <2>1 DEF Build, Fail, MeasureInv
  <2>2. CASE stack # << >>
    <3>1. index' = Len(stack) /\ phase' = "measuring" /\ UNCHANGED << stack, plans, bytes, failure >>
          /\ phase = "stacking"
      BY <1>2, <2>2 DEF Build
    <3>2. MeasuredFits(index + 1)'
      BY <3>1 DEF MeasuredFits, MeasureInv
    <3> QED
      BY <3>1, <3>2 DEF MeasureInv
  <2> QED
    BY <2>1, <2>2
<1>3. CASE MeasureLayer
  <2> DEFINE b == stack[index]
  <2>1. index \in 1 .. Len(stack) /\ MeasuredFits(index + 1) /\ bytes = << >> /\ phase = "measuring"
        /\ UNCHANGED << stack, bytes >>
    BY <1>3 DEF MeasureLayer, MeasureInv
  <2>2. CASE MeasureError(b, index) # "none"
    BY <1>3, <2>1, <2>2 DEF MeasureLayer, Fail, MeasureInv
  <2>3. CASE MeasureError(b, index) = "none"
    <3>1. /\ plans' = [i \in index .. Len(stack) |->
                         IF i = index THEN [layer |-> HeaderLen(b), total |-> PlannedTotal(b, i)]
                         ELSE plans[i]]
          /\ index' = index - 1 /\ UNCHANGED << phase, failure >>
      BY <1>3, <2>3 DEF MeasureLayer
    <3>2. plans'[index].total = PlannedTotal(b, index)
      BY <2>1, <3>1
    <3>3. b.proto \in {"Ipv4", "Udp"} => ~ plans'[index].total > MaxLength
      BY <2>3, <3>2, MeasuredWithoutError
    <3>4. \A i \in index + 1 .. Len(stack) : plans'[i] = plans[i]
      BY <2>1, <3>1
    <3>5. \A i \in index .. Len(stack) :
            stack[i].proto \in {"Ipv4", "Udp"} => ~ plans'[i].total > MaxLength
      <4> SUFFICES ASSUME NEW i \in index .. Len(stack), stack[i].proto \in {"Ipv4", "Udp"}
                   PROVE  ~ plans'[i].total > MaxLength
        OBVIOUS
      <4>1. CASE i = index
        BY <3>3, <4>1
      <4>2. CASE i # index
        <5>1. i \in index + 1 .. Len(stack)
          BY <2>1, <4>2 DEF MeasureInv
        <5> QED
          BY <2>1, <3>4, <5>1 DEF MeasuredFits
      <4> QED
        BY <4>1, <4>2
    <3>6. MeasuredFits(index + 1)'
      BY <2>1, <3>1, <3>5 DEF MeasuredFits, MeasureInv
    <3> QED
      BY <2>1, <3>1, <3>6 DEF MeasureInv
  <2> QED
    BY <2>2, <2>3
<1>4. CASE Allocate
  <2>1. phase = "measuring" /\ index = 0 /\ phase' = "writing" /\ index' = Len(stack)
        /\ UNCHANGED << stack, plans, failure >>
    BY <1>4 DEF Allocate
  <2>2. MeasuredFits(1)'
    BY <2>1 DEF MeasuredFits, MeasureInv
  <2> QED
    BY <2>1, <2>2 DEF MeasureInv
<1>5. CASE WriteLayer
  <2>1. phase = "writing" /\ index \in 1 .. Len(stack) /\ MeasuredFits(1) /\ UNCHANGED << stack, plans >>
    BY <1>5 DEF WriteLayer, MeasureInv
  <2>2. ~ (stack[index].proto \in {"Ipv4", "Udp"} /\ plans[index].total > MaxLength)
    BY <2>1 DEF MeasuredFits
  <2>3. /\ index' = index - 1 /\ phase' = IF index = 1 THEN "built" ELSE phase
        /\ UNCHANGED failure
    BY <1>5, <2>2 DEF WriteLayer
  <2>4. MeasuredFits(1)'
    BY <2>1 DEF MeasuredFits
  <2> QED
    BY <2>1, <2>3, <2>4 DEF MeasureInv
<1>6. CASE UNCHANGED craftVars
  BY <1>6 DEF craftVars, MeasureInv, MeasuredFits
<1> QED
  BY <1>1, <1>2, <1>3, <1>4, <1>5, <1>6 DEF CraftNext

\* For any builders and any limit, a stack that cannot be crafted fails with an error
\* and without a packet buffer (PacketStack::to_bytes).
THEOREM FailsEarly == CraftSpec => []FailsBeforeBytes
<1>1. MeasureInv => FailsBeforeBytes
  BY DEF MeasureInv, FailsBeforeBytes
<1> QED
  BY <1>1, MeasureInit, MeasureStep, PTL DEF CraftSpec

-----------------------------------------------------------------------------
\* Where a field's integer ends is a place of a header.
LEMMA LastBitIsInt ==
  ASSUME NEW f, IsFieldSpec(f)
  PROVE  LastBit(f) \in Int
<1>1. f.first \in Nat /\ f.width \in Nat
  BY DEF IsFieldSpec
<1> QED  BY <1>1 DEF LastBit

\* The values fields are set to are values of the field's type (the target of a field_spec).
LEMMA ValuesFit ==
  ASSUME NEW f, IsFieldSpec(f), NEW value \in Values(f)
  PROVE  value \in SUBSET (0 .. f.target - 1) /\ value \in SUBSET Nat
<1> DEFINE t == f.target
<1>1. t \in Nat \ {0}
  BY DEF IsFieldSpec
<1>2. value \in {{}, {0}, 0 .. t - 1}
  BY DEF Values
<1> HIDE DEF t
<1>3. ASSUME NEW x \in value PROVE x \in 0 .. t - 1
  <2>1. CASE value = {}
    BY <1>3, <2>1
  <2>2. CASE value = {0}
    <3>1. x = 0
      BY <1>3, <2>2
    <3> QED  BY <1>1, <3>1
  <2>3. CASE value = 0 .. t - 1
    BY <1>3, <2>3
  <2> QED  BY <1>2, <2>1, <2>2, <2>3
<1>4. ASSUME NEW x \in 0 .. t - 1 PROVE x \in Nat
  BY <1>1, <1>4
<1> QED  BY <1>3, <1>4 DEF t

\* Bit b of the integer read is the bit of the header that lies b before the last
\* one (read_unaligned, from_be).
LEMMA ReadIs ==
  ASSUME NEW f, IsFieldSpec(f), NEW h \in SUBSET Int, NEW b
  PROVE  b \in Read(h, f) <=> b \in 0 .. f.width - 1 /\ LastBit(f) - b \in h
<1> DEFINE last == LastBit(f)
<1>1. f.first \in Nat /\ f.width \in Nat /\ last \in Int
  BY DEF IsFieldSpec, LastBit
<1>2. Read(h, f) = {last - k : k \in {j \in h : 8 * f.first <= j /\ j <= last}}
  BY DEF Read
<1>3. last = 8 * f.first + f.width - 1
  BY DEF LastBit
<1> HIDE DEF last
<1>4. ASSUME b \in Read(h, f) PROVE b \in 0 .. f.width - 1 /\ last - b \in h
  <2>1. PICK k \in h : 8 * f.first <= k /\ k <= last /\ b = last - k
    BY <1>2, <1>4
  <2>2. k \in Int
    OBVIOUS
  <2>3. last - b = k /\ b \in 0 .. f.width - 1
    BY <1>1, <1>3, <2>1, <2>2
  <2> QED  BY <2>1, <2>3
<1>5. ASSUME b \in 0 .. f.width - 1, last - b \in h PROVE b \in Read(h, f)
  <2>1. b \in Int /\ 8 * f.first <= last - b /\ last - b <= last /\ b = last - (last - b)
    BY <1>1, <1>3, <1>5
  <2> QED  BY <1>2, <1>5, <2>1
<1> QED  BY <1>4, <1>5 DEF last

\* Bit b of a value shifted to the left, if the underlay is wide enough.
LEMMA ShlIs ==
  ASSUME NEW f, IsFieldSpec(f), NEW v \in SUBSET Nat, NEW b \in Int
  PROVE  b \in Shl(v, f.shift, f.width) <=> b < f.width /\ b - f.shift \in v
<1>1. f.shift \in Nat /\ f.width \in Nat
  BY DEF IsFieldSpec
<1>2. Shl(v, f.shift, f.width) = {c + f.shift : c \in {d \in v : d + f.shift < f.width}}
  BY DEF Shl
<1>3. ASSUME b \in Shl(v, f.shift, f.width) PROVE b < f.width /\ b - f.shift \in v
  <2>1. PICK c \in v : c + f.shift < f.width /\ b = c + f.shift
    BY <1>2, <1>3
  <2>2. b - f.shift = c
    BY <1>1, <2>1
  <2> QED  BY <2>1, <2>2
<1>4. ASSUME b < f.width, b - f.shift \in v PROVE b \in Shl(v, f.shift, f.width)
  <2>1. b = (b - f.shift) + f.shift
    BY <1>1
  <2> QED  BY <1>2, <1>4, <2>1
<1> QED  BY <1>3, <1>4

\* What setting a field leaves in the header: the bits under the mask are the value's,
\* every other one is what it was (FieldAccessor::set).
LEMMA PutIs ==
  ASSUME NEW f, IsFieldSpec(f), NEW h \in SUBSET Int, NEW v \in SUBSET Nat
  PROVE  /\ Put(h, f, v) \in SUBSET Int
         /\ \A x \in Int :
              x \in Put(h, f, v) <=>
                IF LastBit(f) - x \in f.mask THEN (LastBit(f) - x) - f.shift \in v ELSE x \in h
<1> DEFINE last == LastBit(f)
           bits == (Read(h, f) \ f.mask) \cup (Shl(v, f.shift, f.width) \cap f.mask)
<1>1. /\ f.first \in Nat /\ f.width \in Nat /\ f.shift \in Nat /\ last \in Int
      /\ last = 8 * f.first + f.width - 1
      /\ f.mask \subseteq 0 .. f.width - 1
  BY DEF IsFieldSpec, LastBit
<1>2. Put(h, f, v) = {j \in h : j < 8 * f.first \/ j > last} \cup {last - b : b \in bits}
  BY DEF Put, Write
<1>3. bits \subseteq 0 .. f.width - 1
  BY <1>1, ReadIs
<1>4. Put(h, f, v) \in SUBSET Int
  <2> HIDE DEF bits, last
  <2> SUFFICES ASSUME NEW x \in Put(h, f, v) PROVE x \in Int
    OBVIOUS
  <2>1. x \in h \/ \E b \in bits : x = last - b
    BY <1>2
  <2>2. CASE x \in h
    BY <2>2
  <2>3. ASSUME NEW b \in bits, x = last - b PROVE x \in Int
    <3>1. b \in Int /\ last \in Int
      BY <1>1, <1>3
    <3> QED  BY <2>3, <3>1
  <2> QED  BY <2>1, <2>2, <2>3
<1>5. ASSUME NEW x \in Int
      PROVE  x \in Put(h, f, v) <=>
               IF last - x \in f.mask THEN (last - x) - f.shift \in v ELSE x \in h
  <2>1. last - x \in Int /\ x = last - (last - x)
    BY <1>1
  <2>2. x \in {last - b : b \in bits} <=> last - x \in bits
    <3> HIDE DEF bits, last
    <3>1. ASSUME NEW b \in bits, x = last - b PROVE b = last - x
      BY <1>1, <1>3, <3>1
    <3> QED  BY <2>1, <3>1
  <2>3. CASE last - x \in f.mask
    <3>1. last - x \in 0 .. f.width - 1
      BY <1>1, <2>3
    <3>2. ~(x < 8 * f.first \/ x > last) /\ last - x < f.width
      BY <1>1, <3>1
    <3>3. x \in Put(h, f, v) <=> last - x \in bits
      BY <1>2, <2>2, <3>2
    <3>4. last - x \in bits <=> last - x \in Shl(v, f.shift, f.width)
      BY <2>3
    <3>5. last - x \in Shl(v, f.shift, f.width) <=> (last - x) - f.shift \in v
      BY <2>1, <3>2, ShlIs
    <3> QED  BY <2>3, <3>3, <3>4, <3>5
  <2>4. CASE ~(last - x \in f.mask)
    <3>1. last - x \in bits <=> last - x \in 0 .. f.width - 1 /\ x \in h
      <4>1. last - x \in bits <=> last - x \in Read(h, f)
        BY <2>4
      <4>2. last - x \in Read(h, f) <=> last - x \in 0 .. f.width - 1 /\ last - (last - x) \in h
        BY ReadIs
      <4> QED  BY <2>1, <4>1, <4>2
    <3>2. last - x \in 0 .. f.width - 1 \/ (x < 8 * f.first \/ x > last)
      BY <1>1, <2>1
    <3> HIDE DEF bits, last
    <3> QED  BY <1>2, <2>2, <2>4, <3>1, <3>2
  <2> QED  BY <2>3, <2>4
<1> QED  BY <1>4, <1>5

\* Bit c of the value that reading a field returns (FieldAccessor::get).
LEMMA GetIs ==
  ASSUME NEW f, IsFieldSpec(f), NEW h \in SUBSET Int, NEW c
  PROVE  c \in Get(h, f) <=>
           /\ c \in 0 .. f.target - 1 /\ c + f.shift \in f.mask
           /\ LastBit(f) - (c + f.shift) \in h
<1>1. /\ f.shift \in Nat /\ f.target \in Nat /\ f.width \in Nat
      /\ f.mask \subseteq 0 .. f.width - 1
  BY DEF IsFieldSpec
<1>2. Get(h, f) = {b - f.shift : b \in {d \in Read(h, f) \cap f.mask : d >= f.shift}}
                    \cap (0 .. f.target - 1)
  BY DEF Get, Raw, Shr
<1>3. ASSUME c \in Get(h, f)
      PROVE  /\ c \in 0 .. f.target - 1 /\ c + f.shift \in f.mask
             /\ LastBit(f) - (c + f.shift) \in h
  <2>1. PICK b \in Read(h, f) \cap f.mask : c = b - f.shift
    BY <1>2, <1>3
  <2>2. b \in 0 .. f.width - 1 /\ c + f.shift = b
    BY <1>1, <2>1
  <2>3. LastBit(f) - b \in h
    BY <2>1, ReadIs
  <2> QED  BY <1>2, <1>3, <2>1, <2>2, <2>3
<1>4. ASSUME c \in 0 .. f.target - 1, c + f.shift \in f.mask,
             LastBit(f) - (c + f.shift) \in h
      PROVE  c \in Get(h, f)
  <2>1. c \in Int /\ c + f.shift >= f.shift /\ c = (c + f.shift) - f.shift
        /\ c + f.shift \in 0 .. f.width - 1
    BY <1>1, <1>4
  <2>2. c + f.shift \in Read(h, f)
    BY <1>4, <2>1, ReadIs
  <2> QED  BY <1>2, <1>4, <2>1, <2>2
<1> QED  BY <1>3, <1>4

\* A field reads as what it was set to.
LEMMA PutThenGet ==
  ASSUME NEW f, IsFieldSpec(f), NEW h \in SUBSET Int, NEW v \in SUBSET (0 .. f.target - 1)
  PROVE  Get(Put(h, f, v), f) = Holds(f, v)
<1> DEFINE last == LastBit(f)
<1>1. /\ f.shift \in Nat /\ f.target \in Nat /\ f.width \in Nat /\ f.first \in Nat /\ last \in Int
      /\ f.mask \subseteq 0 .. f.width - 1 /\ v \in SUBSET Nat
  BY DEF IsFieldSpec, LastBit
<1>2. Put(h, f, v) \in SUBSET Int
  BY <1>1, PutIs
<1>3. ASSUME NEW c
      PROVE  c \in Get(Put(h, f, v), f) <=> c \in v /\ c + f.shift \in f.mask
  <2>1. c \in Get(Put(h, f, v), f) <=>
          /\ c \in 0 .. f.target - 1 /\ c + f.shift \in f.mask
          /\ last - (c + f.shift) \in Put(h, f, v)
    BY <1>2, GetIs
  <2>2. ASSUME c \in 0 .. f.target - 1, c + f.shift \in f.mask
        PROVE  last - (c + f.shift) \in Put(h, f, v) <=> c \in v
    <3> DEFINE x == last - (c + f.shift)
    <3>1. x \in Int /\ last - x = c + f.shift /\ (last - x) - f.shift = c
      BY <1>1, <2>2
    <3>2. x \in Put(h, f, v) <=> IF last - x \in f.mask THEN (last - x) - f.shift \in v ELSE x \in h
      BY <1>1, <3>1, PutIs
    <3> QED  BY <2>2, <3>1, <3>2
  <2> QED  BY <2>1, <2>2
<1>4. CASE IsNumber(f)
  <2> DEFINE n == Cardinality(f.mask)
  <2>1. f.mask = f.shift .. f.shift + n - 1 /\ n \in 0 .. f.target
    BY <1>4 DEF IsFieldSpec
  <2>2. Holds(f, v) = v \cap (0 .. n - 1)
    BY <1>4 DEF Holds
  <2> HIDE DEF n
  <2>3. ASSUME NEW c \in v PROVE c + f.shift \in f.mask <=> c \in 0 .. n - 1
    <3>1. c \in Nat
      BY <1>1
    <3> QED  BY <1>1, <2>1, <3>1
  <2> QED  BY <1>3, <2>2, <2>3
<1>5. CASE ~ IsNumber(f)
  <2>1. f.shift = 0 /\ Holds(f, v) = v \cap f.mask
    BY <1>5 DEF IsNumber, Holds
  <2>2. ASSUME NEW c \in v PROVE c + f.shift = c
    BY <1>1, <2>1
  <2>3. ASSUME NEW c PROVE c \in Get(Put(h, f, v), f) <=> c \in v \cap f.mask
    BY <1>3, <2>2
  <2> QED  BY <2>1, <2>3
<1> QED  BY <1>4, <1>5

\* A field's own bits are those its mask names.
LEMMA PlaceIs ==
  ASSUME NEW f, IsFieldSpec(f), NEW b \in Int
  PROVE  LastBit(f) - b \in Place(f) <=> b \in f.mask
<1> DEFINE last == LastBit(f)
<1>1. last \in Int /\ f.mask \subseteq Int
  BY LastBitIsInt DEF IsFieldSpec
<1>2. Place(f) = {last - c : c \in f.mask}
  BY DEF Place
<1> HIDE DEF last
<1>3. ASSUME NEW c \in f.mask, last - b = last - c PROVE b = c
  BY <1>1, <1>3
<1> QED  BY <1>2, <1>3 DEF last

\* A field that shares no bit with it does not see it set.
LEMMA PutElsewhere ==
  ASSUME NEW f, IsFieldSpec(f), NEW g, IsFieldSpec(g), Place(f) \cap Place(g) = {},
         NEW h \in SUBSET Int, NEW v \in SUBSET Nat
  PROVE  Get(Put(h, f, v), g) = Get(h, g)
<1>1. LastBit(f) \in Int
  BY LastBitIsInt
<1>2. LastBit(g) \in Int /\ g.shift \in Nat
  BY LastBitIsInt DEF IsFieldSpec
<1>3. Put(h, f, v) \in SUBSET Int
  BY PutIs
<1>4. ASSUME NEW c PROVE c \in Get(Put(h, f, v), g) <=> c \in Get(h, g)
  <2> DEFINE x == LastBit(g) - (c + g.shift)
  <2>1. c \in Get(Put(h, f, v), g) <=>
          c \in 0 .. g.target - 1 /\ c + g.shift \in g.mask /\ x \in Put(h, f, v)
    BY <1>3, GetIs
  <2>2. c \in Get(h, g) <=>
          c \in 0 .. g.target - 1 /\ c + g.shift \in g.mask /\ x \in h
    BY GetIs
  <2>3. ASSUME c \in 0 .. g.target - 1, c + g.shift \in g.mask
        PROVE  x \in Put(h, f, v) <=> x \in h
    <3>0. c \in Int /\ c + g.shift \in Int
      <4>1. g.target \in Nat
        BY DEF IsFieldSpec
      <4> QED  BY <1>2, <2>3, <4>1
    <3>1. x \in Place(g)
      BY <2>3, <3>0, PlaceIs
    <3>2. x \in Int /\ LastBit(f) - x \in Int
      BY <1>1, <1>2, <3>0
    <3> HIDE DEF x
    <3>3. LastBit(f) - (LastBit(f) - x) = x
      BY <1>1, <3>2
    <3>4. ~(LastBit(f) - x \in f.mask)
      <4>1. LastBit(f) - (LastBit(f) - x) \in Place(f) <=> LastBit(f) - x \in f.mask
        BY <3>2, PlaceIs
      <4> QED  BY <3>1, <3>3, <4>1
    <3> QED  BY <3>2, <3>4, PutIs
  <2> QED  BY <2>1, <2>2, <2>3
<1> QED  BY <1>4

\* FieldsKeepTheirValues, with what a viewer's header and fields are.
FieldsInv ==
  /\ viewer \in Viewers /\ header \in SUBSET Int
  /\ \A name \in DOMAIN written : viewer # "" /\ name \in DOMAIN Layout
  /\ FieldsKeepTheirValues

\* A buffer in which no field was set yet keeps the invariant.
LEMMA FieldsStart == FieldsInit => FieldsInv
<1> SUFFICES ASSUME FieldsInit PROVE FieldsInv
  OBVIOUS
<1>1. viewer \in Viewers
  BY DEF FieldsInit
<1>a. header \in (IF viewer = "" THEN {{}} ELSE {{}, HeaderBits(Layout)})
  BY DEF FieldsInit
<1>b. DOMAIN written = {}
  <2>1. written = << >>
    BY DEF FieldsInit
  <2> QED  BY <2>1
<1>2. ASSUME viewer # "" PROVE HeaderBits(Layout) \in SUBSET Int
  <2> SUFFICES ASSUME NEW x \in HeaderBits(Layout) PROVE x \in Int
    OBVIOUS
  <2>1. PICK name \in DOMAIN Layout : x \in 0 .. 8 * Layout[name].past - 1
    BY DEF HeaderBits
  <2>2. IsFieldSpec(Layout[name])
    BY <1>1, <1>2, <2>1, HeaderFieldsAssumption DEF Layout
  <2>3. Layout[name].past \in Nat
    BY <2>2 DEF IsFieldSpec
  <2> QED  BY <2>1, <2>3
<1>3. header \in SUBSET Int
  BY <1>a, <1>2
<1> QED  BY <1>1, <1>3, <1>b DEF FieldsInv, FieldsKeepTheirValues

\* Setting a field keeps the invariant: the field reads as its value by PutThenGet, a
\* field that does not overlay it reads as before by PutElsewhere, and the values of those
\* that do are forgotten.
LEMMA SetStep ==
  ASSUME FieldsInv, viewer # "", NEW name \in DOMAIN Layout, NEW value \in Values(Layout[name]),
         Set(name, value)
  PROVE  FieldsInv'
<1> DEFINE layout == Layout
<1>1. viewer' = viewer /\ Layout' = layout /\ viewer \in Viewers \ {""}
  BY DEF Set, FieldsInv, Layout
<1>2. header' = Put(header, layout[name], value) /\ header \in SUBSET Int
  BY DEF Set, FieldsInv
<1>3. written' = [n \in {name} \cup {m \in DOMAIN written : {m, name} \notin Overlays} |->
                    IF n = name THEN value ELSE written[n]]
  BY DEF Set
<1>4. ASSUME NEW n \in DOMAIN layout
      PROVE  /\ IsFieldSpec(layout[n])
             /\ \A m \in DOMAIN layout \ {n} :
                  {n, m} \notin Overlays => Place(layout[n]) \cap Place(layout[m]) = {}
  BY <1>1, HeaderFieldsAssumption DEF Layout
<1>5. value \in SUBSET (0 .. layout[name].target - 1) /\ value \in SUBSET Nat
  BY <1>4, ValuesFit
<1>6. \A n \in DOMAIN written : n \in DOMAIN layout /\ Get(header, layout[n]) = Holds(layout[n], written[n])
  BY DEF FieldsInv, FieldsKeepTheirValues
<1> HIDE DEF layout
<1>7. ASSUME NEW n \in DOMAIN written'
      PROVE  n \in DOMAIN layout /\ Get(header', layout[n]) = Holds(layout[n], written'[n])
  <2>1. CASE n = name
    <3>1. n \in DOMAIN layout /\ written'[n] = value
      BY <1>3, <2>1 DEF layout
    <3>2. Get(Put(header, layout[n], value), layout[n]) = Holds(layout[n], value)
      BY <1>2, <1>4, <1>5, <2>1, <3>1, PutThenGet
    <3> QED  BY <1>2, <2>1, <3>1, <3>2
  <2>2. CASE n # name
    <3>1. n \in DOMAIN written /\ {n, name} \notin Overlays /\ written'[n] = written[n]
      BY <1>3, <1>7, <2>2
    <3>2. n \in DOMAIN layout /\ Get(header, layout[n]) = Holds(layout[n], written[n])
      BY <1>6, <3>1
    <3>3. name \in DOMAIN layout \ {n}
      BY <2>2 DEF layout
    <3>4. Place(layout[name]) \cap Place(layout[n]) = {}
      BY <1>4, <3>1, <3>2, <3>3
    <3>5. Get(Put(header, layout[name], value), layout[n]) = Get(header, layout[n])
      <4>1. IsFieldSpec(layout[name])
        BY <1>4, <3>3
      <4>2. IsFieldSpec(layout[n])
        BY <1>4, <3>2
      <4>3. header \in SUBSET Int
        BY <1>2
      <4>4. value \in SUBSET Nat
        BY <1>5
      <4> QED  BY ONLY <3>4, <4>1, <4>2, <4>3, <4>4, PutElsewhere
    <3> QED  BY <1>2, <3>1, <3>2, <3>5
  <2> QED  BY <2>1, <2>2
<1>8. header' \in SUBSET Int
  <2>1. name \in DOMAIN layout
    BY DEF layout
  <2>2. IsFieldSpec(layout[name])
    BY <1>4, <2>1
  <2>3. header \in SUBSET Int /\ value \in SUBSET Nat
    BY <1>2, <1>5
  <2>4. Put(header, layout[name], value) \in SUBSET Int
    BY ONLY <2>2, <2>3, PutIs
  <2> QED  BY <1>2, <2>4
<1> QED  BY <1>1, <1>7, <1>8 DEF FieldsInv, FieldsKeepTheirValues

\* Every step of a header's fields keeps the invariant.
LEMMA FieldsStep == FieldsInv /\ [FieldsNext]_fieldVars => FieldsInv'
<1>1. ASSUME FieldsInv, FieldsNext PROVE FieldsInv'
  BY <1>1, SetStep DEF FieldsNext
<1>2. ASSUME FieldsInv, UNCHANGED fieldVars PROVE FieldsInv'
  BY <1>2 DEF fieldVars, FieldsInv, FieldsKeepTheirValues, Layout
<1> QED  BY <1>1, <1>2

\* For every viewer and however many fields are set, each field reads as the value it was
\* last set to, cut to its size (FieldAccessor::get and set over the field_specs).
THEOREM FieldsAreKept == FieldsSpec => []FieldsKeepTheirValues
<1>1. FieldsInv => FieldsKeepTheirValues
  BY DEF FieldsInv
<1> QED  BY <1>1, FieldsStart, FieldsStep, PTL DEF FieldsSpec

-----------------------------------------------------------------------------
Kinds == {"pad", "end", "option", "malformed", "element"}
Items == [kind : Kinds, first : Nat, past : Nat]

\* Where the items yielded so far end.
Going == ~ done
Reached == IF items = << >> THEN Start(grammar) ELSE items[Len(items)].past
LastIs(kind) == items # << >> /\ items[Len(items)].kind = kind

Tiles ==
  \A i \in DOMAIN items :
    /\ items[i].first = IF i = 1 THEN Start(grammar) ELSE items[i - 1].past
    /\ items[i].first < items[i].past /\ items[i].past <= size
    /\ items[i].kind \in {"end", "malformed"} => i = Len(items)

\* ItemsTile is not inductive: an iterator that goes on has to be where its last item
\* ended, and one that yielded a last item has to have nothing more to yield.
WalkInv ==
  /\ grammar \in DOMAIN Options \cup DOMAIN Elements \cup {""}
  /\ size \in Nat /\ offset \in Nat /\ items \in Seq(Items)
  /\ Tiles
  /\ Going => offset = Reached
  /\ LastIs("end") => ~ Going
  /\ LastIs("malformed") => ~ Going \/ offset >= size
  /\ ~ Going /\ grammar \in DOMAIN Options =>
       items # << >> /\ (LastIs("end") \/ Reached = size)

\* What the option grammars have in common.
LEMMA OptionsAre ==
  ASSUME NEW g \in DOMAIN Options
  PROVE  /\ Options[g].head \in {2, 4} /\ Options[g].align \in {1, 4}
         /\ Start(g) = 0 /\ g \notin DOMAIN Elements
<1>1. g \in {"ipv4", "tcp", "dhcp", "ipv6", "sctp"}
  BY DEF Options
<1> QED  BY <1>1 DEF Options, Elements, Start

\* What the element grammars have in common.
LEMMA ElementsAre ==
  ASSUME NEW g \in DOMAIN Elements
  PROVE  /\ Elements[g].skip \in {0, 1, 4} /\ Elements[g].width \in {4, 8, 16}
         /\ Start(g) = Elements[g].skip /\ g \notin DOMAIN Options
<1>1. g \in {"ipv4_route", "tcp_sack", "ipv6_type0", "ipv6_srh", "mpls"}
  BY DEF Elements
<1> QED  BY <1>1 DEF Options, Elements, Start

\* A new iterator keeps the invariant; of a segment routing header it is given no more
\* than the segment list.
LEMMA WalkStarts == WalkInit => WalkInv
<1> SUFFICES ASSUME WalkInit PROVE WalkInv
  OBVIOUS
<1>1. grammar \in DOMAIN Options \cup DOMAIN Elements \cup {""}
  BY DEF WalkInit
<1>c. offset = Start(grammar)
  BY DEF WalkInit
<1>b. items = << >>
  BY DEF WalkInit
<1>a. Going
  BY DEF WalkInit, Going
<1>2. offset \in Nat
  <2>1. CASE grammar \in DOMAIN Options
    <3>1. Start(grammar) = 0
      BY <2>1, OptionsAre
    <3> QED  BY <1>c, <3>1
  <2>2. CASE grammar \in DOMAIN Elements
    <3>1. Start(grammar) \in {0, 1, 4}
      BY <2>2, ElementsAre
    <3> QED  BY <1>c, <3>1
  <2>3. CASE grammar = ""
    BY <1>c, <2>3 DEF Start, Elements
  <2> QED  BY <1>1, <2>1, <2>2, <2>3
<1>3. size \in Nat
  <2>1. PICK given \in IF grammar \in DOMAIN Elements THEN ListSizes ELSE Sizes,
             last_entry \in Declared :
          /\ Accepts(grammar, given)
          /\ size = IF grammar = "ipv6_srh" THEN 4 + SegmentListLen(given, last_entry) ELSE given
    BY DEF WalkInit
  <2>2. given \in Nat /\ last_entry \in Nat
    BY OptionWalkAssumption
  <2>3. ASSUME grammar = "ipv6_srh" PROVE SegmentListLen(given, last_entry) \in Nat
    <3>1. given >= 4
      BY <2>1, <2>3 DEF Accepts, Elements
    <3> DEFINE available == given - 4
               part == available % 16
    <3>2. available \in Nat /\ part \in Nat /\ part <= available
      BY <2>2, <3>1
    <3> HIDE DEF available, part
    <3>3. available - part \in Nat /\ (last_entry + 1) * 16 \in Nat
      BY <2>2, <3>2
    <3>4. SegmentListLen(given, last_entry) = Lesser((last_entry + 1) * 16, available - part)
      BY DEF SegmentListLen, available, part
    <3> QED  BY <3>3, <3>4 DEF Lesser
  <2> QED  BY <2>1, <2>2, <2>3
<1>4. items \in Seq(Items) /\ DOMAIN items = {}
  <2>1. << >> \in Seq(Items)
    BY EmptySeq
  <2> QED  BY <1>b, <2>1
<1> QED  BY <1>1, <1>2, <1>3, <1>4, <1>a, <1>b, <1>c DEF WalkInv, Tiles, Reached, LastIs

\* One more item joins those yielded so far (Yield).
LEMMA ItemJoins ==
  ASSUME WalkInv, Going, NEW kind \in Kinds, NEW past \in Nat, items' = Yield(kind, past),
         offset < past, past <= size, offset < size, UNCHANGED << grammar, size >>
  PROVE  /\ items' \in Seq(Items) /\ Tiles' /\ Reached' = past
         /\ \A k \in Kinds : LastIs(k)' <=> k = kind
<1> DEFINE x == [kind |-> kind, first |-> offset, past |-> past]
<1>1. /\ items \in Seq(Items) /\ offset \in Nat /\ offset = Reached /\ Tiles
      /\ size \in Nat /\ (LastIs("malformed") => offset >= size)
  BY DEF WalkInv
<1>a. ~ LastIs("end")
  BY DEF WalkInv
<1>b. ~ LastIs("malformed")
  BY <1>1
<1>2. x \in Items /\ x.kind = kind /\ x.first = offset /\ x.past = past
  BY <1>1 DEF Items
<1>3. items' = Append(items, x)
  BY DEF Yield
<1> HIDE DEF x
<1> DEFINE n == Len(items)
<1>4. /\ n \in Nat /\ Len(items') = n + 1 /\ items'[n + 1] = x /\ items' # << >>
      /\ DOMAIN items = 1 .. n /\ DOMAIN items' = 1 .. n + 1
      /\ \A i \in 1 .. n : items'[i] = items[i]
      /\ items' \in Seq(Items) /\ (items = << >> <=> n = 0)
  BY <1>1, <1>2, <1>3
<1> HIDE DEF n
<1>5. Tiles'
  <2> SUFFICES ASSUME NEW i \in 1 .. n + 1
               PROVE  /\ items'[i].first = IF i = 1 THEN Start(grammar) ELSE items'[i - 1].past
                      /\ items'[i].first < items'[i].past /\ items'[i].past <= size
                      /\ items'[i].kind \in {"end", "malformed"} => i = n + 1
    BY <1>4 DEF Tiles
  <2>1. CASE i = n + 1
    <3>1. n = 0 => offset = Start(grammar)
      BY <1>1, <1>4 DEF Reached
    <3>2. n # 0 => offset = items'[n].past /\ (n + 1) - 1 = n
      BY <1>1, <1>4 DEF Reached, n
    <3> QED  BY <1>2, <1>4, <2>1, <3>1, <3>2
  <2>2. CASE i \in 1 .. n
    <3>1. i # 1 => i - 1 \in 1 .. n
      BY <1>4, <2>2
    <3>2. items[i].kind \in {"end", "malformed"} => i = n
      BY <1>1, <1>4, <2>2 DEF Tiles, n
    <3>3. items[n].kind \notin {"end", "malformed"}
      BY <1>1, <1>4, <1>a, <1>b, <2>2 DEF LastIs, n
    <3>4. /\ items[i].first = IF i = 1 THEN Start(grammar) ELSE items[i - 1].past
          /\ items[i].first < items[i].past /\ items[i].past <= size
      BY <1>1, <1>4, <2>2 DEF Tiles
    <3> QED  BY <1>4, <2>2, <3>1, <3>2, <3>3, <3>4
  <2> QED  BY <1>4, <2>1, <2>2
<1>6. Reached' = past /\ \A k \in Kinds : LastIs(k)' <=> k = kind
  BY <1>2, <1>4 DEF Reached, LastIs
<1> QED  BY <1>4, <1>5, <1>6

\* Every call of an iterator keeps the invariant.
LEMMA WalkStep == WalkInv /\ [WalkNext]_walkVars => WalkInv'
<1> SUFFICES ASSUME WalkInv, [WalkNext]_walkVars PROVE WalkInv'
  OBVIOUS
<1>0. size \in Nat /\ offset \in Nat
  BY DEF WalkInv
<1>1. ASSUME grammar \in DOMAIN Options, NextOctet PROVE WalkInv'
  <2>1. offset < size /\ offset' = offset + 1 /\ UNCHANGED << grammar, size >>
    BY <1>1 DEF NextOctet
  <2>2. /\ Going
        /\ \/ items' = Yield("pad", offset + 1) /\ Going'
           \/ items' = Yield("end", offset + 1) /\ ~ Going'
    BY <1>1 DEF NextOctet, Going
  <2>3. offset + 1 \in Nat /\ offset < offset + 1 /\ offset + 1 <= size
    BY <1>0, <2>1
  <2>4. "pad" \in Kinds /\ "end" \in Kinds /\ "malformed" \in Kinds
    BY DEF Kinds
  <2>5. CASE items' = Yield("pad", offset + 1) /\ Going'
    <3>1. /\ items' \in Seq(Items) /\ Tiles' /\ Reached' = offset + 1
          /\ \A k \in Kinds : LastIs(k)' <=> k = "pad"
      BY <2>1, <2>2, <2>3, <2>4, <2>5, ItemJoins
    <3>2. ~ LastIs("end")' /\ ~ LastIs("malformed")'
      BY <2>4, <3>1
    <3> QED  BY <1>0, <2>1, <2>3, <2>5, <3>1, <3>2 DEF WalkInv
  <2>6. CASE items' = Yield("end", offset + 1) /\ ~ Going'
    <3>1. /\ items' \in Seq(Items) /\ Tiles'
          /\ \A k \in Kinds : LastIs(k)' <=> k = "end"
      BY <2>1, <2>2, <2>3, <2>4, <2>6, ItemJoins
    <3>2. LastIs("end")' /\ ~ LastIs("malformed")' /\ items' # << >>
      BY <2>4, <3>1 DEF LastIs
    <3> QED  BY <1>0, <2>1, <2>3, <2>6, <3>1, <3>2 DEF WalkInv
  <2> QED  BY <2>2, <2>5, <2>6
<1>2. ASSUME grammar \in DOMAIN Options, NextMalformed PROVE WalkInv'
  <2>1. /\ offset < size /\ items' = Yield("malformed", size) /\ offset' \in {offset, size}
        /\ UNCHANGED << grammar, size >>
    BY <1>2 DEF NextMalformed
  <2>2. Going /\ (Going' => offset' = size)
    BY <1>2 DEF NextMalformed, Going
  <2>3. "end" \in Kinds /\ "malformed" \in Kinds
    BY DEF Kinds
  <2>4. /\ items' \in Seq(Items) /\ Tiles' /\ Reached' = size
        /\ \A k \in Kinds : LastIs(k)' <=> k = "malformed"
    <3>1. size <= size
      BY <1>0
    <3> QED  BY <1>0, <2>1, <2>2, <2>3, <3>1, ItemJoins
  <2>5. ~ LastIs("end")' /\ LastIs("malformed")'
    BY <2>3, <2>4
  <2>6. items' # << >>
    BY <2>5 DEF LastIs
  <2>7. offset' \in Nat /\ size' \in Nat /\ (Going' => offset' >= size' /\ offset' = Reached')
    BY <1>0, <2>1, <2>2, <2>4
  <2> QED  BY <1>0, <2>1, <2>4, <2>5, <2>6, <2>7 DEF WalkInv
<1>3. ASSUME grammar \in DOMAIN Options, NEW len \in Declared, NextOption(len) PROVE WalkInv'
  <2> DEFINE past == PaddedEnd(grammar, len)
  <2>1. /\ offset + Options[grammar].head <= size /\ Fits(grammar, len)
        /\ offset' = past /\ items' = Yield("option", past)
        /\ UNCHANGED << grammar, size >>
    BY <1>3 DEF NextOption
  <2>a. Going /\ Going'
    BY <1>3 DEF NextOption, Going
  <2>2. Options[grammar].head \in {2, 4} /\ Options[grammar].align \in {1, 4} /\ len \in Nat
    BY <1>3, OptionsAre, OptionWalkAssumption
  <2>3. OptionLength(grammar, len) \in Nat /\ OptionLength(grammar, len) >= 2
    BY <2>1, <2>2 DEF Fits, OptionLength
  <2>4. past \in Nat /\ offset < past /\ past <= size /\ offset < size
    <3> DEFINE l == OptionLength(grammar, len)
               a == Options[grammar].align
               over == (l + a - 1) \div a
    <3>1. over \in Nat /\ over >= 1 /\ a \in {1, 4}
      <4> HIDE DEF l, a
      <4>1. l \in Nat /\ l >= 2 /\ a \in {1, 4}
        BY <2>2, <2>3 DEF l, a
      <4> QED  BY <4>1
    <3> HIDE DEF over, a
    <3>2. over * a \in Nat /\ over * a >= 1
      BY <3>1
    <3>3. past = Lesser(offset + over * a, size)
      BY DEF PaddedEnd, over, a
    <3>4. offset < size
      BY <1>0, <2>1, <2>2
    <3> HIDE DEF past
    <3> QED  BY <1>0, <3>2, <3>3, <3>4 DEF Lesser
  <2> HIDE DEF past
  <2>5. "option" \in Kinds /\ "end" \in Kinds /\ "malformed" \in Kinds
    BY DEF Kinds
  <2>6. /\ items' \in Seq(Items) /\ Tiles' /\ Reached' = past
        /\ \A k \in Kinds : LastIs(k)' <=> k = "option"
    BY <2>1, <2>4, <2>5, <2>a, ItemJoins
  <2>7. ~ LastIs("end")' /\ ~ LastIs("malformed")'
    BY <2>5, <2>6
  <2> QED  BY <1>0, <1>3, <2>1, <2>4, <2>6, <2>7, <2>a DEF WalkInv
<1>4. ASSUME grammar \in DOMAIN Elements, NextElement PROVE WalkInv'
  <2> DEFINE w == Elements[grammar].width
  <2>1. /\ offset + w <= size /\ offset' = offset + w /\ items' = Yield("element", offset + w)
        /\ UNCHANGED << grammar, size >>
    BY <1>4 DEF NextElement
  <2>a. Going
    BY <1>4 DEF NextElement, Going
  <2>2. w \in {4, 8, 16} /\ grammar \notin DOMAIN Options
    BY <1>4, ElementsAre
  <2> HIDE DEF w
  <2>3. offset + w \in Nat /\ offset < offset + w /\ offset < size
    BY <1>0, <2>1, <2>2
  <2>4. "element" \in Kinds /\ "end" \in Kinds /\ "malformed" \in Kinds
    BY DEF Kinds
  <2>5. /\ items' \in Seq(Items) /\ Tiles' /\ Reached' = offset + w
        /\ \A k \in Kinds : LastIs(k)' <=> k = "element"
    BY <2>1, <2>3, <2>4, <2>a, ItemJoins
  <2>6. ~ LastIs("end")' /\ ~ LastIs("malformed")'
    BY <2>4, <2>5
  <2> QED  BY <1>0, <1>4, <2>1, <2>2, <2>3, <2>5, <2>6 DEF WalkInv
<1>5. ASSUME UNCHANGED walkVars PROVE WalkInv'
  <2>1. UNCHANGED << grammar, size, offset, items >> /\ (Going' <=> Going)
    BY <1>5 DEF walkVars, Going
  <2>2. Tiles' /\ Reached' = Reached /\ (LastIs("end")' <=> LastIs("end"))
        /\ (LastIs("malformed")' <=> LastIs("malformed"))
    BY <2>1 DEF Tiles, Reached, LastIs, WalkInv
  <2> QED  BY <2>1, <2>2 DEF WalkInv
<1> QED  BY <1>1, <1>2, <1>3, <1>4, <1>5 DEF WalkNext

\* For every slice and whatever lengths its options declare, an iterator's items follow
\* one another without a gap from its first byte, each takes at least one byte and ends
\* within the slice, and an iterator with nothing more to yield has yielded the whole of
\* it, up to an end option or a rest too short for an element (the next functions of the
\* option and element iterators).
THEOREM ItemsCoverTheSlice == WalkSpec => []ItemsTile
<1>1. ASSUME WalkInv PROVE ItemsTile
  <2>1. /\ size \in Nat /\ offset \in Nat /\ Tiles /\ items \in Seq(Items)
        /\ (Going => offset = Reached)
    BY <1>1 DEF WalkInv
  <2>2. ASSUME grammar \in DOMAIN Options, Exhausted, size > 0
        PROVE  items[Len(items)].kind = "end" \/ items[Len(items)].past = size
    <3>1. Start(grammar) = 0
      BY <2>2, OptionsAre
    <3>2. ~ Going \/ offset >= size
      <4>1. grammar \notin DOMAIN Elements
        BY <2>2, OptionsAre
      <4> QED  BY <2>2, <4>1 DEF Exhausted, Going
    <3>3. CASE ~ Going
      BY <1>1, <2>2, <3>3 DEF WalkInv, LastIs, Reached
    <3>4. CASE Going /\ offset >= size
      <4>1. items # << >> /\ items[Len(items)].past >= size
        BY <2>1, <2>2, <3>1, <3>4 DEF Reached
      <4>2. Len(items) \in DOMAIN items /\ items[Len(items)] \in Items
        BY <2>1, <4>1
      <4>3. items[Len(items)].past <= size /\ items[Len(items)].past \in Nat
        BY <2>1, <4>2 DEF Tiles, Items
      <4> QED  BY <2>1, <4>1, <4>3
    <3> QED  BY <3>2, <3>3, <3>4
  <2>3. ASSUME grammar \in DOMAIN Elements, Exhausted, Going
        PROVE  size - offset < Elements[grammar].width
    <3> DEFINE w == Elements[grammar].width
    <3>1. w \in {4, 8, 16}
      BY <2>3, ElementsAre
    <3>2. offset >= size \/ offset + w > size
      BY <2>3 DEF Exhausted, Going
    <3> HIDE DEF w
    <3>3. size - offset < w
      BY <2>1, <3>1, <3>2
    <3> QED  BY <3>3 DEF w
  <2> QED  BY <2>1, <2>2, <2>3 DEF ItemsTile, Tiles, Going
<1> QED  BY <1>1, WalkStarts, WalkStep, PTL DEF WalkSpec

=============================================================================
