-------------------------- MODULE ParseEngineProofs --------------------------
(***************************************************************************)
(* What a parse leaves behind, proved for every packet length, any option  *)
(* values and all contents of the headers: the layer table stays in order  *)
(* and inside the declared ends, parsers nest only as deep as the packet   *)
(* is long, and no byte is lost between the layers.                        *)
(***************************************************************************)
EXTENDS ParseEngine, SequenceTheorems, TLAPS

Protocols ==
  {"Eth", "Sll", "Vlan", "Llc", "Mpls", "Arp", "Ipv4", "Ipv6", "Ipv6Hopopt", "Ipv6DestOpts",
   "Ipv6Route", "Ipv6Mobility", "Ipv6Hip", "Ipv6Shim6", "Ipv6Frag", "Ah", "Esp", "Gre", "Vxlan",
   "Tcp", "Udp", "Sctp", "Icmp", "Icmpv6", "Igmp", "Tls", "Dns", "Dhcp", "Ntp", "Custom"}

Layers == [proto : Protocols \cup {"Raw"}, offset : Nat, len : Nat, declares : Nat]
Frames == [kind : {"child", "bound"}, checkpoint : Nat, offset : Nat, outer : Nat]

\* The frames of parse_child and of bounded payloads, from the outside in.
Children(st) == {k \in DOMAIN st : st[k].kind = "child"}
Bounds(st) == {k \in DOMAIN st : st[k].kind = "bound"}
FrameEnd(f) == Least(f.outer, f.offset)

-----------------------------------------------------------------------------
(* The inductive invariant, in parts that speak of a table `ls`, pending   *)
(* calls `st` and a region that ends at `de`.                              *)

Types ==
  /\ captured \in Nat /\ captured <= Unbounded /\ max_depth \in Nat
  /\ layers \in Seq(Layers) /\ stack \in Seq(Frames)
  /\ declared_end \in 0 .. Unbounded
  /\ at \in [op : {"start", "parse", "return", "done"}, proto : Protocols \cup {""},
           offset : Nat, ok : BOOLEAN]

\* LayersInOrder, but for cut headers, and InsideDeclaredEnds of a table whose
\* layers end at `end`.
Table(ls, end) ==
  /\ \A i \in DOMAIN ls : Past(ls[i]) <= end
  /\ \A i, j \in DOMAIN ls : i < j =>
       /\ Past(ls[i]) <= ls[j].offset
       /\ IsRaw(ls[i]) => IsRaw(ls[j])
       /\ \/ Past(ls[j]) <= ls[i].declares
          \/ IsRaw(ls[j]) /\ ls[j].offset >= ls[i].declares
  /\ \A i \in DOMAIN ls : ~IsRaw(ls[i]) => i <= max_depth

\* The first n layers are those of headers around `o`, none of them left yet.
Around(ls, n, o, de) ==
  \A i \in 1 .. n : ~IsRaw(ls[i]) /\ Past(ls[i]) <= o /\ de <= ls[i].declares

\* Regions shrink from the outside in, and no layer's declared end falls
\* between the end of a region and that of the one around it.
Regions(ls, st, de) ==
  /\ \A k \in Bounds(st) : st[k].outer <= Unbounded /\ de <= FrameEnd(st[k])
  /\ \A j, k \in Bounds(st) : j < k => st[k].outer <= FrameEnd(st[j])
  /\ \A k \in Bounds(st), i \in DOMAIN ls :
       ls[i].declares <= FrameEnd(st[k]) \/ st[k].outer <= ls[i].declares

\* What a failing child is taken back to is a table its parent can go on with.
Checkpoints(ls, st, de) ==
  /\ \A k \in Children(st) :
       /\ st[k].checkpoint <= Len(ls)
       /\ Around(ls, st[k].checkpoint, st[k].offset, de)
       /\ \A j \in Bounds(st), i \in 1 .. st[k].checkpoint :
            k < j => st[j].outer <= ls[i].declares
  /\ \A j, k \in Children(st) : j < k =>
       /\ st[j].checkpoint <= st[k].checkpoint
       /\ st[j].offset + 4 <= st[k].offset

Calls(ls, st, de) == Regions(ls, st, de) /\ Checkpoints(ls, st, de)

\* A parser runs at `o`, behind all layers and all pending calls.
RunsAt(ls, o, st, de) ==
  /\ o <= RegionEnd(de) /\ Around(ls, Len(ls), o, de)
  /\ \A k \in Children(st) : st[k].offset <= o

ParseInv ==
  /\ Types
  /\ Table(layers, End) /\ Calls(layers, stack, declared_end)
  /\ at.op = "start" => layers = << >> /\ stack = << >> /\ declared_end = Unbounded
  /\ at.op = "parse" => at.proto \in Protocols /\ RunsAt(layers, at.offset, stack, declared_end)

-----------------------------------------------------------------------------
(* Adding a layer to the table.                                            *)

\* The fields of a pending call, and the end of the region it bounds.
LEMMA FrameFields ==
  ASSUME NEW st \in Seq(Frames), NEW k \in DOMAIN st
  PROVE  /\ st[k].checkpoint \in Nat /\ st[k].offset \in Nat /\ st[k].outer \in Nat
         /\ k \in Nat /\ FrameEnd(st[k]) \in Nat
         /\ FrameEnd(st[k]) <= st[k].outer /\ FrameEnd(st[k]) <= st[k].offset
<1>1. st[k] \in Frames /\ k \in Nat
  OBVIOUS
<1> QED
  BY <1>1 DEF Frames, FrameEnd, Least

\* The fields of a layer.
LEMMA LayerFields ==
  ASSUME NEW ls \in Seq(Layers), NEW i \in DOMAIN ls
  PROVE  /\ ls[i].offset \in Nat /\ ls[i].len \in Nat /\ ls[i].declares \in Nat
         /\ Past(ls[i]) \in Nat /\ i \in Nat
<1>1. ls[i] \in Layers /\ i \in Nat
  OBVIOUS
<1> QED
  BY <1>1 DEF Layers, Past

\* push of a layer behind all others: it ends inside the region, and inside the
\* ends declared around it unless it is what lies behind them.
LEMMA AppendToTable ==
  ASSUME NEW ls \in Seq(Layers), NEW l \in Layers, NEW end \in Nat, max_depth \in Nat,
         Table(ls, end), Past(l) <= end, IsRaw(l) \/ CanPush(ls),
         \A i \in DOMAIN ls :
           /\ Past(ls[i]) <= l.offset
           /\ IsRaw(ls[i]) => IsRaw(l)
           /\ Past(l) <= ls[i].declares \/ (IsRaw(l) /\ l.offset >= ls[i].declares)
  PROVE  Append(ls, l) \in Seq(Layers) /\ Table(Append(ls, l), end)
<1> DEFINE more == Append(ls, l)
<1>1. /\ more \in Seq(Layers) /\ DOMAIN more = 1 .. Len(ls) + 1 /\ DOMAIN ls = 1 .. Len(ls)
      /\ Len(ls) \in Nat
      /\ \A i \in 1 .. Len(ls) : more[i] = ls[i]
      /\ more[Len(ls) + 1] = l
  OBVIOUS
<1> HIDE DEF more
<1>2. \A i \in DOMAIN more : Past(more[i]) <= end
  BY <1>1 DEF Table
<1>3. \A i, j \in DOMAIN more : i < j =>
        /\ Past(more[i]) <= more[j].offset
        /\ IsRaw(more[i]) => IsRaw(more[j])
        /\ Past(more[j]) <= more[i].declares \/ (IsRaw(more[j]) /\ more[j].offset >= more[i].declares)
  <2> SUFFICES ASSUME NEW i \in DOMAIN more, NEW j \in DOMAIN more, i < j
               PROVE  /\ Past(more[i]) <= more[j].offset
                      /\ IsRaw(more[i]) => IsRaw(more[j])
                      /\ Past(more[j]) <= more[i].declares \/ (IsRaw(more[j]) /\ more[j].offset >= more[i].declares)
    OBVIOUS
  <2>1. i \in DOMAIN ls /\ more[i] = ls[i]
    BY <1>1
  <2>2. CASE j \in DOMAIN ls
    BY <1>1, <2>1, <2>2 DEF Table
  <2>3. CASE j = Len(ls) + 1
    BY <1>1, <2>1, <2>3
  <2> QED
    BY <1>1, <2>2, <2>3
<1>4. \A i \in DOMAIN more : ~IsRaw(more[i]) => i <= max_depth
  BY <1>1 DEF Table, CanPush
<1> QED
  BY <1>1, <1>2, <1>3, <1>4 DEF Table, more

\* What is pending does not mind a further layer whose declared end is no new one.
LEMMA AppendUnderCalls ==
  ASSUME NEW ls \in Seq(Layers), NEW l \in Layers, NEW st \in Seq(Frames), NEW de \in Nat,
         Calls(ls, st, de),
         \A k \in Bounds(st) : l.declares <= FrameEnd(st[k]) \/ st[k].outer <= l.declares
  PROVE  Calls(Append(ls, l), st, de)
<1> DEFINE more == Append(ls, l)
<1>1. /\ DOMAIN more = 1 .. Len(ls) + 1 /\ Len(ls) \in Nat /\ Len(more) = Len(ls) + 1
      /\ \A i \in 1 .. Len(ls) : more[i] = ls[i]
      /\ more[Len(ls) + 1] = l /\ DOMAIN ls = 1 .. Len(ls)
  OBVIOUS
<1> HIDE DEF more
<1>2. Regions(more, st, de)
  <2>1. \A k \in Bounds(st), i \in DOMAIN more :
          more[i].declares <= FrameEnd(st[k]) \/ st[k].outer <= more[i].declares
    <3> SUFFICES ASSUME NEW k \in Bounds(st), NEW i \in DOMAIN more
                 PROVE  more[i].declares <= FrameEnd(st[k]) \/ st[k].outer <= more[i].declares
      OBVIOUS
    <3>1. CASE i \in DOMAIN ls
      BY <1>1, <3>1 DEF Calls, Regions
    <3>2. CASE i = Len(ls) + 1
      BY <1>1, <3>2
    <3> QED
      BY <1>1, <3>1, <3>2
  <2> QED
    BY <2>1 DEF Calls, Regions
<1>3. Checkpoints(more, st, de)
  <2>1. ASSUME NEW k \in Children(st)
        PROVE  /\ st[k].checkpoint <= Len(more)
               /\ Around(more, st[k].checkpoint, st[k].offset, de)
               /\ \A j \in Bounds(st), i \in 1 .. st[k].checkpoint :
                    k < j => st[j].outer <= more[i].declares
    <3>1. st[k].checkpoint \in Nat /\ st[k].checkpoint <= Len(ls)
      BY FrameFields DEF Calls, Checkpoints, Children
    <3>2. \A i \in 1 .. st[k].checkpoint : more[i] = ls[i]
      BY <1>1, <3>1
    <3>3. Around(ls, st[k].checkpoint, st[k].offset, de)
      BY DEF Calls, Checkpoints
    <3>4. Around(more, st[k].checkpoint, st[k].offset, de)
      BY <3>2, <3>3 DEF Around
    <3>5. \A j \in Bounds(st), i \in 1 .. st[k].checkpoint :
                    k < j => st[j].outer <= more[i].declares
      BY <3>2 DEF Calls, Checkpoints
    <3> QED
      BY <1>1, <3>1, <3>4, <3>5
  <2> QED
    BY <2>1 DEF Calls, Checkpoints
<1> QED
  BY <1>2, <1>3 DEF Calls, more

\* parse_raw behind all layers, in a region that no declared end cuts in two.
LEMMA RawKeeps ==
  ASSUME NEW ls \in Seq(Layers), NEW st \in Seq(Frames), NEW de \in Nat,
         NEW o \in Nat, NEW end \in Nat, max_depth \in Nat, Unbounded \in Nat,
         end <= Unbounded, Table(ls, end), Calls(ls, st, de),
         \A i \in DOMAIN ls : Past(ls[i]) <= o,
         \A i \in DOMAIN ls : end <= ls[i].declares \/ ls[i].declares <= o
  PROVE  /\ ParseRaw(ls, o, end) \in Seq(Layers)
         /\ Table(ParseRaw(ls, o, end), end)
         /\ Calls(ParseRaw(ls, o, end), st, de)
<1> DEFINE raw == Layer("Raw", o, end - o, Unbounded)
<1>1. CASE end <= o \/ (ls # << >> /\ ls[Len(ls)] = raw)
  BY <1>1 DEF ParseRaw
<1>2. CASE ~ (end <= o \/ (ls # << >> /\ ls[Len(ls)] = raw))
  <2>1. ParseRaw(ls, o, end) = Append(ls, raw)
    BY <1>2 DEF ParseRaw
  <2>2. raw \in Layers /\ Past(raw) = end /\ raw.offset = o /\ IsRaw(raw) /\ raw.declares = Unbounded
    <3>1. end - o \in Nat /\ o + (end - o) = end
      BY <1>2
    <3> HIDE DEF raw
    <3>2. raw = Layer("Raw", o, end - o, Unbounded)
      BY DEF raw
    <3>3. raw \in Layers /\ Past(raw) = o + (end - o) /\ raw.offset = o /\ raw.declares = Unbounded /\ IsRaw(raw)
      BY <3>1, <3>2 DEF Layer, Layers, Past, IsRaw
    <3> QED
      BY <3>1, <3>3
  <2> HIDE DEF raw
  <2>3. \A i \in DOMAIN ls :
           /\ Past(ls[i]) <= raw.offset
           /\ IsRaw(ls[i]) => IsRaw(raw)
           /\ Past(raw) <= ls[i].declares \/ (IsRaw(raw) /\ raw.offset >= ls[i].declares)
    <3> SUFFICES ASSUME NEW i \in DOMAIN ls
                 PROVE  Past(raw) <= ls[i].declares \/ (IsRaw(raw) /\ raw.offset >= ls[i].declares)
      BY <2>2
    <3>1. ls[i].declares \in Nat
      BY LayerFields
    <3> QED
      BY <2>2, <3>1
  <2>4. Append(ls, raw) \in Seq(Layers) /\ Table(Append(ls, raw), end)
    BY <2>2, <2>3, AppendToTable
  <2>5. \A k \in Bounds(st) : raw.declares <= FrameEnd(st[k]) \/ st[k].outer <= raw.declares
    BY <2>2 DEF Calls, Regions
  <2>6. Calls(Append(ls, raw), st, de)
    BY <2>2, <2>5, AppendUnderCalls
  <2> QED
    BY <2>1, <2>4, <2>6
<1> QED
  BY <1>1, <1>2

-----------------------------------------------------------------------------
(* Calling: into a child, into the payload of an IP header.                *)

\* parse_child_with behind all layers, at least four bytes behind its parent.
LEMMA CallChild ==
  ASSUME NEW ls \in Seq(Layers), NEW st \in Seq(Frames), NEW de \in Nat, NEW o \in Nat,
         Calls(ls, st, de), Around(ls, Len(ls), o, de),
         \A k \in Children(st) : st[k].offset + 4 <= o
  PROVE  /\ Append(st, ChildFrame(Len(ls), o)) \in Seq(Frames)
         /\ Calls(ls, Append(st, ChildFrame(Len(ls), o)), de)
         /\ \A k \in Children(Append(st, ChildFrame(Len(ls), o))) :
              Append(st, ChildFrame(Len(ls), o))[k].offset <= o
<1> DEFINE f == ChildFrame(Len(ls), o)
           more == Append(st, f)
           n == Len(st) + 1
<1>1. f \in Frames /\ f.kind = "child" /\ f.checkpoint = Len(ls) /\ f.offset = o
  BY DEF ChildFrame, Frames
<1> HIDE DEF f
<1>2. /\ more \in Seq(Frames) /\ DOMAIN more = 1 .. n /\ DOMAIN st = 1 .. Len(st) /\ Len(st) \in Nat
      /\ \A k \in 1 .. Len(st) : more[k] = st[k]
      /\ more[n] = f
  BY <1>1
<1> HIDE DEF more
<1>3. Bounds(more) = Bounds(st) /\ Children(more) = Children(st) \cup {n}
  BY <1>1, <1>2 DEF Bounds, Children
<1>4. \A k \in Bounds(st) : more[k] = st[k] /\ k \in Nat /\ k < n
  BY <1>2 DEF Bounds
<1>5. \A k \in Children(st) : more[k] = st[k] /\ k \in Nat /\ k < n
  BY <1>2 DEF Children
<1>6. Regions(ls, more, de)
  BY <1>3, <1>4 DEF Calls, Regions
<1>7. Checkpoints(ls, more, de)
  <2>1. ASSUME NEW k \in Children(more)
        PROVE  /\ more[k].checkpoint <= Len(ls)
               /\ Around(ls, more[k].checkpoint, more[k].offset, de)
               /\ \A j \in Bounds(more), i \in 1 .. more[k].checkpoint :
                    k < j => more[j].outer <= ls[i].declares
    <3>1. CASE k \in Children(st)
      BY <1>3, <1>4, <1>5, <3>1 DEF Calls, Checkpoints
    <3>2. CASE k = n
      BY <1>1, <1>2, <1>3, <1>4, <3>2
    <3> QED
      BY <1>3, <3>1, <3>2
  <2>2. ASSUME NEW j \in Children(more), NEW k \in Children(more), j < k
        PROVE  /\ more[j].checkpoint <= more[k].checkpoint
               /\ more[j].offset + 4 <= more[k].offset
    <3>1. CASE k \in Children(st)
      <4>1. j \in Children(st)
        BY <1>2, <1>3, <1>5, <2>2, <3>1
      <4> QED
        BY <1>5, <2>2, <3>1, <4>1 DEF Calls, Checkpoints
    <3>2. CASE k = n
      <4>1. j \in Children(st)
        BY <1>2, <1>3, <2>2, <3>2
      <4> QED
        BY <1>1, <1>2, <1>5, <3>2, <4>1 DEF Calls, Checkpoints
    <3> QED
      BY <1>3, <3>1, <3>2
  <2> QED
    BY <2>1, <2>2 DEF Checkpoints
<1>8. \A k \in Children(more) : more[k].offset <= o
  <2>1. ASSUME NEW k \in Children(st) PROVE more[k].offset <= o
    <3>1. st[k].offset \in Nat /\ st[k].offset + 4 <= o
      BY FrameFields DEF Children
    <3> QED
      BY <1>5, <3>1
  <2> QED
    BY <1>1, <1>2, <1>3, <2>1
<1> QED
  BY <1>2, <1>6, <1>7, <1>8 DEF Calls, more, f

\* The pending calls inside of a payload that an IP header bounds.
Bounded(st, de, end) == Append(st, BoundFrame(de, end))

\* An IP header at the end of the table bounds the payload behind it.
LEMMA CallBounded ==
  ASSUME NEW ls \in Seq(Layers), NEW st \in Seq(Frames), NEW de \in Nat, NEW end \in Nat,
         Unbounded \in Nat, de <= Unbounded, Calls(ls, st, de),
         \A i \in DOMAIN ls : de <= ls[i].declares \/ ls[i].declares <= Least(de, end)
  PROVE  /\ Bounded(st, de, end) \in Seq(Frames)
         /\ Calls(ls, Bounded(st, de, end), Least(de, end))
         /\ Children(Bounded(st, de, end)) = Children(st)
         /\ \A k \in Children(st) : Bounded(st, de, end)[k] = st[k]
<1> DEFINE f == BoundFrame(de, end)
           more == Bounded(st, de, end)
           n == Len(st) + 1
           inner == Least(de, end)
<1>1. f \in Frames /\ f.kind = "bound" /\ f.outer = de /\ f.offset = end /\ FrameEnd(f) = inner
  BY DEF BoundFrame, Frames, FrameEnd
<1>2. inner \in Nat /\ inner <= de
  BY DEF Least
<1>0. more = Append(st, f)
  BY DEF Bounded
<1> HIDE DEF f, inner, more
<1>3. /\ more \in Seq(Frames) /\ DOMAIN more = 1 .. n /\ DOMAIN st = 1 .. Len(st) /\ Len(st) \in Nat
      /\ \A k \in 1 .. Len(st) : more[k] = st[k]
      /\ more[n] = f
  BY <1>1, <1>0
<1>4. Children(more) = Children(st) /\ Bounds(more) = Bounds(st) \cup {n}
  BY <1>1, <1>3 DEF Bounds, Children
<1>5. \A k \in Bounds(st) \cup Children(st) : k \in DOMAIN st /\ more[k] = st[k] /\ k \in Nat /\ k < n
  BY <1>3 DEF Bounds, Children
<1>6. Regions(ls, more, inner)
  <2>1. ASSUME NEW k \in Bounds(more)
        PROVE  /\ more[k].outer <= Unbounded /\ inner <= FrameEnd(more[k])
               /\ \A i \in DOMAIN ls :
                    ls[i].declares <= FrameEnd(more[k]) \/ more[k].outer <= ls[i].declares
    <3>1. CASE k \in Bounds(st)
      <4>1. more[k] = st[k] /\ st[k].outer <= Unbounded /\ de <= FrameEnd(st[k]) /\ FrameEnd(st[k]) \in Nat
        BY <1>5, <3>1, FrameFields DEF Calls, Regions
      <4>2. inner <= FrameEnd(st[k])
        BY <1>2, <4>1
      <4> QED
        BY <3>1, <4>1, <4>2 DEF Calls, Regions
    <3>2. CASE k = n
      <4>1. more[k].outer = de /\ FrameEnd(more[k]) = inner
        BY <1>1, <1>3, <3>2
      <4>2. \A i \in DOMAIN ls : ls[i].declares <= inner \/ de <= ls[i].declares
        BY DEF inner
      <4> QED
        BY <1>2, <4>1, <4>2
    <3> QED
      BY <1>4, <3>1, <3>2
  <2>2. ASSUME NEW j \in Bounds(more), NEW k \in Bounds(more), j < k
        PROVE  more[k].outer <= FrameEnd(more[j])
    <3>1. j \in Bounds(st) /\ more[j] = st[j] /\ de <= FrameEnd(st[j])
      BY <1>3, <1>4, <1>5, <2>2 DEF Calls, Regions, Bounds
    <3>2. CASE k \in Bounds(st)
      BY <1>5, <2>2, <3>1, <3>2 DEF Calls, Regions
    <3>3. CASE k = n
      BY <1>1, <1>3, <3>1, <3>3
    <3> QED
      BY <1>4, <3>2, <3>3
  <2> QED
    BY <2>1, <2>2 DEF Regions
<1>7. Checkpoints(ls, more, inner)
  <2>1. ASSUME NEW k \in Children(more)
        PROVE  /\ more[k].checkpoint <= Len(ls)
               /\ Around(ls, more[k].checkpoint, more[k].offset, inner)
               /\ \A j \in Bounds(more), i \in 1 .. more[k].checkpoint :
                    k < j => more[j].outer <= ls[i].declares
    <3>1. k \in Children(st) /\ more[k] = st[k]
      BY <1>4, <1>5
    <3>2. st[k].checkpoint \in Nat /\ st[k].checkpoint <= Len(ls) /\ Around(ls, st[k].checkpoint, st[k].offset, de)
      BY <3>1, FrameFields DEF Calls, Checkpoints, Children
    <3>3. \A i \in 1 .. st[k].checkpoint : ls[i].declares \in Nat /\ de <= ls[i].declares
      BY <3>2, LayerFields DEF Around
    <3>4. Around(ls, st[k].checkpoint, st[k].offset, inner)
      BY <1>2, <3>2, <3>3 DEF Around
    <3>5. ASSUME NEW j \in Bounds(more), NEW i \in 1 .. st[k].checkpoint, k < j
          PROVE  more[j].outer <= ls[i].declares
      <4>1. CASE j \in Bounds(st)
        BY <1>5, <3>1, <3>5, <4>1 DEF Calls, Checkpoints
      <4>2. CASE j = n
        BY <1>1, <1>3, <3>3, <4>2
      <4> QED
        BY <1>4, <4>1, <4>2
    <3> QED
      BY <3>1, <3>2, <3>4, <3>5
  <2>2. \A j, k \in Children(more) : j < k =>
          /\ more[j].checkpoint <= more[k].checkpoint
          /\ more[j].offset + 4 <= more[k].offset
    BY <1>4, <1>5 DEF Calls, Checkpoints
  <2> QED
    BY <2>1, <2>2 DEF Checkpoints
<1> QED
  BY <1>3, <1>4, <1>5, <1>6, <1>7 DEF Calls, more, inner

-----------------------------------------------------------------------------
(* The ways a parser goes on keep the invariant.                           *)

\* The types, one by one.
LEMMA TypesGive ==
  ASSUME Types
  PROVE  /\ captured \in Nat /\ captured <= Unbounded /\ max_depth \in Nat /\ Unbounded \in Nat
         /\ layers \in Seq(Layers) /\ stack \in Seq(Frames)
         /\ declared_end \in 0 .. Unbounded /\ declared_end \in Nat /\ declared_end <= Unbounded
         /\ at.op \in {"start", "parse", "return", "done"} /\ at.proto \in Protocols \cup {""}
         /\ at.offset \in Nat /\ at.ok \in BOOLEAN
<1>1. Unbounded \in Nat
  BY ParseEngineAssumption
<1>2. captured \in Nat /\ captured <= Unbounded /\ max_depth \in Nat /\ declared_end \in 0 .. Unbounded
      /\ layers \in Seq(Layers) /\ stack \in Seq(Frames)
  BY DEF Types
<1>3. declared_end \in Nat /\ declared_end <= Unbounded
  BY <1>1, <1>2
<1>4. at \in [op : {"start", "parse", "return", "done"}, proto : Protocols \cup {""},
              offset : Nat, ok : BOOLEAN]
  BY DEF Types
<1> QED
  BY <1>1, <1>2, <1>3, <1>4

\* parse_child, parse_raw or a plain return, from a table and pending calls that
\* stand behind the header.
LEMMA IntoKeeps ==
  ASSUME Types, NEW ls \in Seq(Layers), NEW st \in Seq(Frames), NEW de \in 0 .. Unbounded,
         NEW o \in Nat, NEW next \in Protocols \cup {"raw", "none"},
         Table(ls, RegionEnd(de)), Calls(ls, st, de), RunsAt(ls, o, st, de),
         next \in Protocols => \A k \in Children(st) : st[k].offset + 4 <= o,
         Into(next, o, ls, st, de)
  PROVE  ParseInv'
<1>1. /\ captured \in Nat /\ captured <= Unbounded /\ max_depth \in Nat /\ Unbounded \in Nat
      /\ de \in Nat /\ de <= Unbounded
  <2>1. captured \in Nat /\ captured <= Unbounded /\ max_depth \in Nat /\ Unbounded \in Nat
    BY TypesGive
  <2> QED
    BY <2>1
<1>2. RegionEnd(de) \in Nat /\ RegionEnd(de) <= Unbounded /\ RegionEnd(de) <= de
  BY <1>1 DEF RegionEnd, Least
<1>3. /\ declared_end' = de /\ captured' = captured /\ max_depth' = max_depth
      /\ de \in 0 .. Unbounded
  BY DEF Into, options
<1>4. End' = RegionEnd(de)
  BY <1>3 DEF End, RegionEnd
<1>5. CASE next \notin {"raw", "none"} /\ CanPush(ls)
  <2>1. next \in Protocols
    BY <1>5
  <2>2. /\ layers' = ls /\ stack' = Append(st, ChildFrame(Len(ls), o)) /\ at' = Parse(next, o)
    BY <1>5 DEF Into
  <2>3. /\ stack' \in Seq(Frames) /\ Calls(layers', stack', de)
        /\ \A k \in Children(stack') : stack'[k].offset <= o
    BY <1>1, <2>1, <2>2, CallChild DEF RunsAt
  <2>4. /\ at'.op = "parse" /\ at'.proto = next /\ at'.offset = o
        /\ at' \in [op : {"start", "parse", "return", "done"}, proto : Protocols \cup {""},
                    offset : Nat, ok : BOOLEAN]
    BY <2>1, <2>2 DEF Parse
  <2>5. Types'
    BY <1>1, <1>3, <2>2, <2>3, <2>4 DEF Types
  <2>6. Table(layers, End)'
    BY <1>3, <1>4, <2>2 DEF Table
  <2>7. RunsAt(layers, at.offset, stack, declared_end)'
    BY <1>3, <2>2, <2>3, <2>4 DEF RunsAt, RegionEnd
  <2> QED
    BY <1>3, <2>1, <2>3, <2>4, <2>5, <2>6, <2>7 DEF ParseInv
<1>6. CASE ~ (next \notin {"raw", "none"} /\ CanPush(ls))
  <2>1. /\ layers' = IF next = "none" THEN ls ELSE ParseRaw(ls, o, RegionEnd(de))
        /\ stack' = st /\ at' = Return(TRUE)
    BY <1>6 DEF Into
  <2>2. /\ \A i \in DOMAIN ls : Past(ls[i]) <= o
        /\ \A i \in DOMAIN ls : RegionEnd(de) <= ls[i].declares \/ ls[i].declares <= o
    <3> SUFFICES ASSUME NEW i \in DOMAIN ls
                 PROVE  Past(ls[i]) <= o /\ RegionEnd(de) <= ls[i].declares
      OBVIOUS
    <3>1. Past(ls[i]) <= o /\ de <= ls[i].declares
      BY DEF RunsAt, Around
    <3>2. ls[i].declares \in Nat
      BY LayerFields
    <3> QED
      BY <1>1, <1>2, <3>1, <3>2
  <2>3. /\ layers' \in Seq(Layers) /\ Calls(layers', st, de)
        /\ Table(layers', RegionEnd(de))
    BY <1>1, <1>2, <2>1, <2>2, RawKeeps
  <2>4. /\ at'.op = "return"
        /\ at' \in [op : {"start", "parse", "return", "done"}, proto : Protocols \cup {""},
                    offset : Nat, ok : BOOLEAN]
    BY <2>1 DEF Return
  <2>5. Types'
    BY <1>1, <1>3, <2>1, <2>3, <2>4 DEF Types
  <2>6. Table(layers, End)'
    BY <1>3, <1>4, <2>3 DEF Table
  <2> QED
    BY <1>3, <2>1, <2>3, <2>4, <2>5, <2>6 DEF ParseInv
<1> QED
  BY <1>5, <1>6

\* A parser that runs has pushed its own header, if the depth allows it.
LEMMA HeaderKeeps ==
  ASSUME ParseInv, at.op = "parse", NEW n \in Nat, Require(at.offset, n),
         NEW d \in Nat, d = Unbounded \/ d <= declared_end, at.offset + n <= d,
         NEW ls, ls = PushLayer(layers, Layer(at.proto, at.offset, n, d))
  PROVE  /\ ls \in Seq(Layers) /\ Table(ls, End) /\ Calls(ls, stack, declared_end)
         /\ at.offset + n \in Nat /\ at.offset + n <= End
         /\ \A i \in DOMAIN ls :
              /\ ~IsRaw(ls[i]) /\ Past(ls[i]) <= at.offset + n
              /\ declared_end <= ls[i].declares \/ ls[i].declares = d
<1> DEFINE l == Layer(at.proto, at.offset, n, d)
           o == at.offset + n
<1>1. /\ Types /\ Table(layers, End) /\ Calls(layers, stack, declared_end)
      /\ at.proto \in Protocols /\ RunsAt(layers, at.offset, stack, declared_end)
  BY DEF ParseInv
<1>2. Unbounded \in Nat
  BY <1>1, TypesGive
<1>3. /\ captured \in Nat /\ max_depth \in Nat /\ at.offset \in Nat
      /\ layers \in Seq(Layers) /\ stack \in Seq(Frames) /\ declared_end \in Nat
      /\ declared_end <= Unbounded
  BY <1>1, TypesGive
<1>4. End \in Nat /\ End <= declared_end /\ o \in Nat /\ o <= End
  BY <1>3 DEF End, RegionEnd, Least, Require
<1>5. /\ l \in Layers /\ Past(l) = o /\ ~IsRaw(l) /\ l.declares = d /\ l.offset = at.offset
  <2>1. at.proto \in Protocols \cup {"Raw"} /\ at.proto # "Raw"
    BY <1>1 DEF Protocols
  <2> QED
    BY <1>3, <2>1 DEF Layer, Layers, Past, IsRaw
<1> HIDE DEF l
<1>6. \A i \in DOMAIN layers :
        /\ ~IsRaw(layers[i]) /\ Past(layers[i]) <= at.offset /\ declared_end <= layers[i].declares
        /\ Past(layers[i]) \in Nat /\ layers[i].declares \in Nat
  BY <1>1, <1>3, LayerFields DEF RunsAt, Around
<1>7. CASE CanPush(layers)
  <2>1. ls = Append(layers, l)
    BY <1>7 DEF PushLayer, l
  <2>2. \A i \in DOMAIN layers :
           /\ Past(layers[i]) <= l.offset
           /\ IsRaw(layers[i]) => IsRaw(l)
           /\ Past(l) <= layers[i].declares \/ (IsRaw(l) /\ l.offset >= layers[i].declares)
    BY <1>3, <1>4, <1>5, <1>6
  <2>3. ls \in Seq(Layers) /\ Table(ls, End)
    BY <1>1, <1>3, <1>4, <1>5, <1>7, <2>1, <2>2, AppendToTable
  <2>4. \A k \in Bounds(stack) : l.declares <= FrameEnd(stack[k]) \/ stack[k].outer <= l.declares
    <3> SUFFICES ASSUME NEW k \in Bounds(stack)
                 PROVE  l.declares <= FrameEnd(stack[k]) \/ stack[k].outer <= l.declares
      OBVIOUS
    <3>1. /\ stack[k].outer \in Nat /\ FrameEnd(stack[k]) \in Nat
          /\ stack[k].outer <= Unbounded /\ declared_end <= FrameEnd(stack[k])
      BY <1>1, <1>3, FrameFields DEF Bounds, Calls, Regions
    <3> QED
      BY <1>2, <1>3, <1>5, <3>1
  <2>5. Calls(ls, stack, declared_end)
    BY <1>1, <1>3, <1>5, <2>1, <2>4, AppendUnderCalls
  <2>6. \A i \in DOMAIN ls : (i \in DOMAIN layers /\ ls[i] = layers[i]) \/ ls[i] = l
    BY <1>3, <2>1
  <2>7. ASSUME NEW i \in DOMAIN ls
        PROVE  /\ ~IsRaw(ls[i]) /\ Past(ls[i]) <= o
               /\ declared_end <= ls[i].declares \/ ls[i].declares = d
    <3>1. CASE i \in DOMAIN layers /\ ls[i] = layers[i]
      <4>1. Past(layers[i]) <= o
        BY <1>3, <1>6, <3>1
      <4> QED
        BY <1>6, <3>1, <4>1
    <3>2. CASE ls[i] = l
      BY <1>4, <1>5, <3>2
    <3> QED
      BY <2>6, <3>1, <3>2
  <2> QED
    BY <1>4, <2>3, <2>5, <2>7
<1>8. CASE ~ CanPush(layers)
  <2>1. ls = layers
    BY <1>8 DEF PushLayer
  <2>2. \A i \in DOMAIN layers : Past(layers[i]) <= o
    BY <1>3, <1>6
  <2> QED
    BY <1>1, <1>3, <1>4, <1>6, <2>1, <2>2
<1> QED
  BY <1>7, <1>8

\* Step: a header of n bytes and what follows it; only headers of at least four
\* bytes call a child.
LEMMA StepKeeps ==
  ASSUME ParseInv, at.op = "parse", NEW n \in Nat, NEW next \in Protocols \cup {"raw", "none"},
         next \in Protocols => n >= 4, Step(n, next)
  PROVE  ParseInv'
<1> DEFINE ls == Header(n)
           o == at.offset + n
<1>1. /\ Types /\ Unbounded \in Nat /\ declared_end \in 0 .. Unbounded /\ stack \in Seq(Frames)
      /\ at.offset \in Nat /\ captured \in Nat
      /\ \A k \in Children(stack) : stack[k].offset <= at.offset
  BY TypesGive DEF ParseInv, RunsAt
<1>2. Require(at.offset, n) /\ Into(next, o, ls, stack, declared_end)
  BY DEF Step
<1>3. at.offset + n <= Unbounded
  BY <1>1, <1>2 DEF Require, End, RegionEnd, Least
<1>4. /\ ls \in Seq(Layers) /\ Table(ls, End) /\ Calls(ls, stack, declared_end)
      /\ o \in Nat /\ o <= End
      /\ \A i \in DOMAIN ls :
           /\ ~IsRaw(ls[i]) /\ Past(ls[i]) <= o
           /\ declared_end <= ls[i].declares \/ ls[i].declares = Unbounded
  BY <1>1, <1>2, <1>3, HeaderKeeps DEF Header
<1> HIDE DEF ls
<1>5. RunsAt(ls, o, stack, declared_end)
  <2>1. \A k \in Children(stack) : stack[k].offset \in Nat
    BY <1>1, FrameFields DEF Children
  <2>2. \A i \in DOMAIN ls : declared_end <= ls[i].declares
    BY <1>1, <1>4
  <2> QED
    BY <1>1, <1>4, <2>1, <2>2 DEF RunsAt, Around, End
<1>6. next \in Protocols => \A k \in Children(stack) : stack[k].offset + 4 <= o
  <2>1. \A k \in Children(stack) : stack[k].offset \in Nat
    BY <1>1, FrameFields DEF Children
  <2> QED
    BY <1>1, <2>1
<1> QED
  BY <1>1, <1>2, <1>4, <1>5, <1>6, IntoKeeps DEF End

\* Err(_), with or without the header in the table.
LEMMA FailKeeps ==
  ASSUME ParseInv, at.op = "parse", NEW ls \in Seq(Layers),
         Table(ls, End), Calls(ls, stack, declared_end), Fail(ls)
  PROVE  ParseInv'
<1>1. Types /\ Unbounded \in Nat
  BY TypesGive DEF ParseInv
<1>2. /\ layers' = ls /\ stack' = stack /\ declared_end' = declared_end /\ captured' = captured
      /\ max_depth' = max_depth /\ at' = Return(FALSE)
  BY DEF Fail, options
<1>3. /\ at'.op = "return"
      /\ at' \in [op : {"start", "parse", "return", "done"}, proto : Protocols \cup {""},
                  offset : Nat, ok : BOOLEAN]
  BY <1>2 DEF Return
<1>4. Types'
  BY <1>1, <1>2, <1>3 DEF Types
<1>5. Table(layers, End)'
  BY <1>2 DEF Table, End, RegionEnd
<1> QED
  BY <1>2, <1>3, <1>4, <1>5 DEF ParseInv

\* ParseContext::require fails before anything is pushed.
LEMMA TruncatedKeeps ==
  ASSUME ParseInv, at.op = "parse", NEW n, Truncated(n)
  PROVE  ParseInv'
BY FailKeeps, TypesGive DEF Truncated, ParseInv

\* An IPv4 total length shorter than the header fails behind the pushed layer.
LEMMA FailBehindKeeps ==
  ASSUME ParseInv, at.op = "parse", NEW n \in Nat, Require(at.offset, n), Fail(Header(n))
  PROVE  ParseInv'
<1>1. /\ Unbounded \in Nat /\ declared_end <= Unbounded /\ at.offset \in Nat /\ captured \in Nat
      /\ declared_end \in Nat
  BY TypesGive DEF ParseInv
<1>2. at.offset + n <= Unbounded
  BY <1>1 DEF Require, End, RegionEnd, Least
<1> QED
  BY <1>1, <1>2, HeaderKeeps, FailKeeps DEF Header

\* The header of an IP packet and the payload it bounds: its declared end is in
\* force in there, together with that of every packet around it.
LEMMA BoundingKeeps ==
  ASSUME ParseInv, at.op = "parse", NEW n \in Nat, NEW end \in Nat,
         NEW next \in Protocols \cup {"raw", "none"},
         n >= 4, Require(at.offset, n), at.offset + n <= end, Bounding(n, end, next)
  PROVE  ParseInv'
<1> DEFINE inner == Least(declared_end, end)
           ls == PushLayer(layers, Layer(at.proto, at.offset, n, inner))
           st == Bounded(stack, declared_end, end)
           o == at.offset + n
<1>1. /\ Types /\ Unbounded \in Nat /\ declared_end \in Nat /\ stack \in Seq(Frames)
      /\ at.offset \in Nat /\ captured \in Nat /\ declared_end <= Unbounded
      /\ \A k \in Children(stack) : stack[k].offset <= at.offset
  BY TypesGive DEF ParseInv, RunsAt
<1>2. Into(next, o, ls, st, inner)
  BY DEF Bounding, Bounded
<1>3. /\ inner \in Nat /\ inner <= declared_end /\ inner \in 0 .. Unbounded /\ o \in Nat
      /\ o <= inner /\ o <= RegionEnd(inner) /\ RegionEnd(inner) \in Nat
  BY <1>1 DEF Require, End, RegionEnd, Least
<1>4. /\ ls \in Seq(Layers) /\ Table(ls, End) /\ Calls(ls, stack, declared_end)
      /\ \A i \in DOMAIN ls :
           /\ ~IsRaw(ls[i]) /\ Past(ls[i]) <= o
           /\ declared_end <= ls[i].declares \/ ls[i].declares = inner
  BY <1>3, HeaderKeeps
<1>5. \A i \in DOMAIN ls :
        /\ ls[i].declares \in Nat /\ Past(ls[i]) \in Nat
        /\ declared_end <= ls[i].declares \/ ls[i].declares <= inner
  <2> HIDE DEF ls, inner
  <2> QED
    BY <1>3, <1>4, LayerFields
<1>6. /\ st \in Seq(Frames) /\ Calls(ls, st, inner) /\ Children(st) = Children(stack)
      /\ \A k \in Children(stack) : st[k] = stack[k]
  <2>1. /\ ls \in Seq(Layers) /\ stack \in Seq(Frames) /\ declared_end \in Nat /\ end \in Nat
        /\ Unbounded \in Nat /\ declared_end <= Unbounded /\ Calls(ls, stack, declared_end)
    BY <1>1, <1>4
  <2>2. \A i \in DOMAIN ls : declared_end <= ls[i].declares \/ ls[i].declares <= inner
    BY <1>5
  <2> HIDE DEF ls
  <2> QED
    BY <2>1, <2>2, CallBounded
<1> HIDE DEF ls, st, inner
<1>7. Table(ls, RegionEnd(inner))
  <2>1. \A i \in DOMAIN ls : Past(ls[i]) <= RegionEnd(inner)
    BY <1>3, <1>4, <1>5
  <2> QED
    BY <1>4, <2>1 DEF Table
<1>8. \A k \in Children(st) : st[k].offset + 4 <= o /\ st[k].offset <= o
  <2>1. \A k \in Children(stack) : stack[k].offset \in Nat
    BY <1>1, FrameFields DEF Children
  <2>2. at.offset \in Nat /\ o \in Nat /\ at.offset + 4 <= o
    BY <1>1
  <2> HIDE DEF o
  <2>3. ASSUME NEW k \in Children(stack) PROVE st[k].offset + 4 <= o /\ st[k].offset <= o
    <3>1. st[k] = stack[k] /\ stack[k].offset \in Nat /\ stack[k].offset <= at.offset
      BY <1>1, <1>6, <2>1
    <3> QED
      BY <2>2, <3>1
  <2>4. Children(st) = Children(stack)
    BY <1>6
  <2> QED
    BY <2>3, <2>4
<1>9. RunsAt(ls, o, st, inner)
  <2>1. \A i \in DOMAIN ls : inner <= ls[i].declares
    BY <1>1, <1>3, <1>4, <1>5
  <2> QED
    BY <1>3, <1>4, <1>8, <2>1 DEF RunsAt, Around
<1> QED
  BY <1>1, <1>2, <1>3, <1>4, <1>6, <1>7, <1>8, <1>9, IntoKeeps

\* A header that is trusted as far as its region reaches.
LEMMA TrustedKeeps ==
  ASSUME ParseInv, at.op = "parse", NEW declared \in Nat, declared >= 4,
         NEW next \in Protocols \cup {"raw"}, Trusted(declared, next)
  PROVE  ParseInv'
<1> DEFINE n == Least(declared, Rest(at.offset))
           then == IF Rest(at.offset + n) = 0 THEN "raw" ELSE next
<1>1. captured \in Nat /\ declared_end \in Nat /\ at.offset \in Nat
  BY TypesGive DEF ParseInv
<1>2. End \in Nat /\ Rest(at.offset) \in Nat
  BY <1>1 DEF End, RegionEnd, Least, Rest
<1>3. n \in Nat
  BY <1>2 DEF Least
<1>4. n >= 4 \/ Rest(at.offset + n) = 0
  BY <1>1, <1>2 DEF Rest, Least
<1>5. then \in Protocols \cup {"raw", "none"} /\ (then \in Protocols => n >= 4)
  BY <1>4 DEF Protocols
<1>6. Step(n, then)
  BY DEF Trusted
<1> QED
  BY <1>3, <1>5, <1>6, StepKeeps

\* The protocols a header can name.
LEMMA NamedProtocols ==
  ASSUME NEW parent, NEW dispatched \in SUBSET Protocols
  PROVE  Named(parent, dispatched) \subseteq Protocols \cup {"raw"}
BY DEF Named, Protocols

\* The values of length fields are numbers.
LEMMA Numbers ==
  /\ MaxLabels \in Nat
  /\ \A x \in Octets : x \in Nat
  /\ \A x \in Words : x \in Nat
  /\ \A x \in Lengths : x \in Nat
BY ParseEngineAssumption

\* The tables of the parsers name protocols only.
LEMMA Dispatched ==
  /\ EtherNexts \subseteq Protocols /\ Ipv6Nexts \subseteq Protocols
  /\ Ipv4Nexts \subseteq Protocols /\ DOMAIN ExtHeaders \subseteq Protocols
BY DEF EtherNexts, Ipv6Nexts, Ipv4Nexts, ExtHeaders, Protocols

-----------------------------------------------------------------------------
(* Every parser, and every return.                                         *)

\* try_parse and the link types without a parser.
LEMMA StartKeeps == ASSUME ParseInv, TryParseWithLinkType PROVE ParseInv'
<1>1. /\ at.op = "start" /\ layers = << >> /\ stack = << >> /\ declared_end = Unbounded
      /\ UNCHANGED << options, declared_end, stack >>
      /\ Types /\ captured \in Nat /\ captured <= Unbounded /\ max_depth \in Nat /\ Unbounded \in Nat
  BY TypesGive DEF ParseInv, TryParseWithLinkType, TryParse, Root, RawLink, UnsupportedLink
<1>2. captured' = captured /\ max_depth' = max_depth /\ End = captured /\ End' = captured
  BY <1>1 DEF options, End, RegionEnd, Least
<1>3. ASSUME layers' = layers,
             \/ at' = Parse(at'.proto, 0) /\ at'.proto \in Protocols
             \/ at' = Done(TRUE)
             \/ at' = Done(FALSE)
      PROVE  ParseInv'
  <2>1. Table(layers, End)' /\ Calls(layers, stack, declared_end)'
    BY <1>1, <1>3 DEF Table, Calls, Regions, Checkpoints, Bounds, Children
  <2>2. /\ at' \in [op : {"start", "parse", "return", "done"}, proto : Protocols \cup {""},
                    offset : Nat, ok : BOOLEAN]
        /\ at'.op # "start" /\ at'.offset = 0 /\ (at'.op = "parse" => at'.proto \in Protocols)
    <3>1. CASE at' = Parse(at'.proto, 0) /\ at'.proto \in Protocols
      <4>1. PICK p \in Protocols : at' = Parse(p, 0)
        BY <3>1
      <4> QED
        BY <4>1 DEF Parse
    <3>2. CASE at' = Done(TRUE) \/ at' = Done(FALSE)
      <4>1. CASE at' = [op |-> "done", proto |-> "", offset |-> 0, ok |-> TRUE]
        BY <4>1
      <4>2. CASE at' = [op |-> "done", proto |-> "", offset |-> 0, ok |-> FALSE]
        BY <4>2
      <4> QED
        BY <3>2, <4>1, <4>2 DEF Done, Return
    <3> QED
      BY <1>3, <3>1, <3>2
  <2>3. Types'
    BY <1>1, <1>2, <1>3, <2>2 DEF Types
  <2>4. RunsAt(layers, at.offset, stack, declared_end)'
    <3>1. Len(layers') = 0 /\ DOMAIN stack' = {} /\ declared_end' = Unbounded
      BY <1>1, <1>3
    <3>2. Around(layers', Len(layers'), at'.offset, declared_end') /\ Children(stack') = {}
      BY <3>1 DEF Around, Children
    <3>3. at'.offset <= RegionEnd(declared_end)'
      <4>1. at'.offset = 0 /\ captured' \in Nat /\ declared_end' \in Nat
        BY <1>1, <1>2, <2>2, <3>1
      <4> QED
        BY <4>1 DEF RegionEnd, Least
    <3> QED
      BY <3>2, <3>3 DEF RunsAt
  <2> QED
    BY <2>1, <2>2, <2>3, <2>4 DEF ParseInv
<1>4. ASSUME NEW p \in {"Eth", "Sll", "Ipv4", "Ipv6"}, Root(p) PROVE ParseInv'
  <2>1. layers' = layers /\ (at' = Parse(p, 0) \/ at' = Done(TRUE))
    BY <1>4 DEF Root
  <2>2. p \in Protocols
    BY DEF Protocols
  <2>3. at' = Parse(p, 0) => at'.proto = p
    BY DEF Parse
  <2> QED
    BY <1>3, <2>1, <2>2, <2>3
<1>5. CASE RawLink
  <2>1. layers' = ParseRaw(layers, 0, End) /\ at' = Done(TRUE)
    BY <1>5 DEF RawLink
  <2>2. /\ layers' \in Seq(Layers) /\ Table(layers', End) /\ Calls(layers', stack, declared_end)
    <3>1. Table(layers, End) /\ Calls(layers, stack, declared_end)
      BY DEF ParseInv
    <3>2. DOMAIN layers = {} /\ layers \in Seq(Layers) /\ stack \in Seq(Frames)
      BY <1>1
    <3> QED
      BY <1>1, <1>2, <2>1, <3>1, <3>2, RawKeeps
  <2>3. /\ at' \in [op : {"start", "parse", "return", "done"}, proto : Protocols \cup {""},
                    offset : Nat, ok : BOOLEAN]
        /\ at'.op = "done"
    BY <2>1 DEF Done, Return
  <2>4. Types'
    BY <1>1, <1>2, <2>2, <2>3 DEF Types
  <2>5. Table(layers, End)'
    BY <1>2, <2>2 DEF Table
  <2> QED
    BY <1>1, <2>2, <2>3, <2>4, <2>5 DEF ParseInv
<1>6. CASE UnsupportedLink
  BY <1>3, <1>6 DEF UnsupportedLink
<1> QED
  BY <1>4, <1>5, <1>6 DEF TryParseWithLinkType, TryParse

\* Link layers.
LEMMA LinkKeeps == ASSUME ParseInv, ParseLink PROVE ParseInv'
<1>1. CASE ParseEth
  <2>1. CASE Truncated(14)
    BY <1>1, <2>1, TruncatedKeeps DEF ParseEth, Parsing
  <2>2. ASSUME NEW next \in Named("Eth", EtherNexts \cup {"Vlan", "Llc"}), Step(14, next) PROVE ParseInv'
    <3>1. next \in Protocols \cup {"raw"}
      <4>1. EtherNexts \cup {"Vlan", "Llc"} \in SUBSET Protocols
        BY Dispatched DEF Protocols
      <4> QED
        BY <4>1, NamedProtocols
    <3> QED
      BY <1>1, <2>2, <3>1, StepKeeps DEF ParseEth, Parsing
  <2> QED
    BY <1>1, <2>1, <2>2 DEF ParseEth
<1>2. CASE ParseVlan
  <2>1. CASE Truncated(4)
    BY <1>2, <2>1, TruncatedKeeps DEF ParseVlan, Parsing
  <2>2. ASSUME NEW next \in Named("Vlan", EtherNexts \cup {"Llc"}), Step(4, next) PROVE ParseInv'
    <3>1. next \in Protocols \cup {"raw"}
      <4>1. EtherNexts \cup {"Llc"} \in SUBSET Protocols
        BY Dispatched DEF Protocols
      <4> QED
        BY <4>1, NamedProtocols
    <3> QED
      BY <1>2, <2>2, <3>1, StepKeeps DEF ParseVlan, Parsing
  <2> QED
    BY <1>2, <2>1, <2>2 DEF ParseVlan
<1>3. CASE ParseSll
  <2>1. CASE Truncated(16)
    BY <1>3, <2>1, TruncatedKeeps DEF ParseSll, Parsing
  <2>2. ASSUME NEW next \in Named("Sll", EtherNexts), Step(16, next) PROVE ParseInv'
    <3>1. next \in Protocols \cup {"raw"}
      BY Dispatched, NamedProtocols
    <3> QED
      BY <1>3, <2>2, <3>1, StepKeeps DEF ParseSll, Parsing
  <2> QED
    BY <1>3, <2>1, <2>2 DEF ParseSll
<1>4. CASE ParseLlc
  <2>1. CASE Truncated(3) \/ Truncated(8)
    BY <1>4, <2>1, TruncatedKeeps DEF ParseLlc, Parsing
  <2>2. CASE Into("none", at.offset, layers, stack, declared_end)
    <3>1. /\ Types /\ Table(layers, RegionEnd(declared_end)) /\ Calls(layers, stack, declared_end)
          /\ RunsAt(layers, at.offset, stack, declared_end)
      BY <1>4 DEF ParseLlc, Parsing, ParseInv, End
    <3>2. "none" \notin Protocols
      BY DEF Protocols
    <3> QED
      BY <2>2, <3>1, <3>2, TypesGive, IntoKeeps
  <2>3. ASSUME NEW next \in Named("Llc", EtherNexts), Step(8, next) PROVE ParseInv'
    <3>1. next \in Protocols \cup {"raw"}
      BY Dispatched, NamedProtocols
    <3> QED
      BY <1>4, <2>3, <3>1, StepKeeps DEF ParseLlc, Parsing
  <2> QED
    BY <1>4, <2>1, <2>2, <2>3 DEF ParseLlc
<1>5. CASE ParseMpls
  <2>1. CASE Fail(layers)
    BY <1>5, <2>1, FailKeeps, TypesGive DEF ParseMpls, Parsing, ParseInv
  <2>2. ASSUME NEW k \in 1 .. MaxLabels,
               Step(4 * k, "none") \/ \E next \in Named("Mpls", {"Ipv4", "Ipv6"}) : Step(4 * k, next)
        PROVE ParseInv'
    <3>1. 4 * k \in Nat /\ 4 * k >= 4
      BY Numbers
    <3>2. PICK next \in Protocols \cup {"raw", "none"} : Step(4 * k, next)
      <4>1. {"Ipv4", "Ipv6"} \in SUBSET Protocols
        BY DEF Protocols
      <4> QED
        BY <2>2, <4>1, NamedProtocols
    <3> QED
      BY <1>5, <3>1, <3>2, StepKeeps DEF ParseMpls, Parsing
  <2> QED
    BY <1>5, <2>1, <2>2 DEF ParseMpls
<1>6. CASE ParseArp
  <2>1. ASSUME NEW n, Truncated(n) PROVE ParseInv'
    BY <1>6, <2>1, TruncatedKeeps DEF ParseArp, Parsing
  <2>2. ASSUME NEW hlen \in Octets, NEW plen \in Octets, Step(8 + 2 * hlen + 2 * plen, "none")
        PROVE ParseInv'
    <3>1. 8 + 2 * hlen + 2 * plen \in Nat
      <4>1. hlen \in Nat /\ plen \in Nat
        BY Numbers
      <4> QED
        BY <4>1
    <3>2. "none" \notin Protocols
      BY DEF Protocols
    <3> QED
      BY <1>6, <2>2, <3>1, <3>2, StepKeeps DEF ParseArp, Parsing
  <2> QED
    BY <1>6, <2>1, <2>2 DEF ParseArp
<1> QED
  BY <1>1, <1>2, <1>3, <1>4, <1>5, <1>6 DEF ParseLink

\* IP, its extension headers and the IPsec headers.
LEMMA NetworkKeeps == ASSUME ParseInv, ParseNetwork PROVE ParseInv'
<1>1. /\ captured \in Nat /\ declared_end \in Nat /\ at.offset \in Nat /\ Unbounded \in Nat
      /\ declared_end <= Unbounded
  BY TypesGive DEF ParseInv
<1>2. Named("Ipv6", Ipv6Nexts) \subseteq Protocols \cup {"raw"}
      /\ Named("Ipv4", Ipv4Nexts) \subseteq Protocols \cup {"raw"}
  BY Dispatched, NamedProtocols
<1>3. ASSUME NEW n \in Nat, NEW length \in Nat, Require(at.offset, n), NEW o \in Nat,
             length = 0 \/ at.offset + n <= o + length
      PROVE  DeclaredEnd(o, length) \in Nat /\ at.offset + n <= DeclaredEnd(o, length)
  BY <1>1, <1>3 DEF DeclaredEnd, Require, End, RegionEnd, Least
<1>4. CASE ParseIpv4
  <2>1. at.op = "parse"
    BY <1>4 DEF ParseIpv4, Parsing
  <2>2. CASE Truncated(20)
    BY <2>1, <2>2, TruncatedKeeps
  <2>3. ASSUME NEW ihl \in Words, NEW n, n = 4 * ihl,
               \/ n < 20 /\ Fail(layers)
               \/ n >= 20 /\ Truncated(n)
               \/ /\ n >= 20 /\ Require(at.offset, n)
                  /\ \E total \in Lengths :
                       IF total # 0 /\ total < n THEN Fail(Header(n))
                       ELSE \E next \in Named("Ipv4", Ipv4Nexts) :
                              Bounding(n, DeclaredEnd(at.offset, total), next)
        PROVE  ParseInv'
    <3>1. n \in Nat
      BY <2>3, Numbers
    <3>2. CASE Fail(layers)
      BY <2>1, <3>2, FailKeeps, TypesGive DEF ParseInv
    <3>3. CASE Truncated(n)
      BY <2>1, <3>3, TruncatedKeeps
    <3>4. ASSUME n >= 20, Require(at.offset, n), NEW total \in Lengths,
                 IF total # 0 /\ total < n THEN Fail(Header(n))
                 ELSE \E next \in Named("Ipv4", Ipv4Nexts) :
                        Bounding(n, DeclaredEnd(at.offset, total), next)
          PROVE  ParseInv'
      <4>1. CASE total # 0 /\ total < n
        BY <2>1, <3>1, <3>4, <4>1, FailBehindKeeps
      <4>2. CASE ~ (total # 0 /\ total < n)
        <5>1. PICK next \in Protocols \cup {"raw"} : Bounding(n, DeclaredEnd(at.offset, total), next)
          BY <1>2, <3>4, <4>2
        <5>2. total \in Nat /\ (total = 0 \/ at.offset + n <= at.offset + total)
          BY <1>1, <3>1, <4>2, Numbers
        <5>3. DeclaredEnd(at.offset, total) \in Nat /\ at.offset + n <= DeclaredEnd(at.offset, total)
          BY <1>1, <1>3, <3>1, <3>4, <5>2
        <5> QED
          BY <2>1, <3>1, <3>4, <5>1, <5>3, BoundingKeeps
      <4> QED
        BY <4>1, <4>2
    <3> QED
      BY <2>3, <3>2, <3>3, <3>4
  <2> QED
    BY <1>4, <2>2, <2>3 DEF ParseIpv4
<1>5. CASE ParseIpv6
  <2>1. at.op = "parse"
    BY <1>5 DEF ParseIpv6, Parsing
  <2>2. CASE Truncated(40)
    BY <2>1, <2>2, TruncatedKeeps
  <2>3. ASSUME Require(at.offset, 40), NEW payload \in Lengths, NEW next \in Named("Ipv6", Ipv6Nexts),
               Bounding(40, DeclaredEnd(at.offset + 40, payload), next)
        PROVE  ParseInv'
    <3>1. payload \in Nat /\ at.offset + 40 \in Nat
          /\ (payload = 0 \/ at.offset + 40 <= (at.offset + 40) + payload)
      BY <1>1, Numbers
    <3>2. DeclaredEnd(at.offset + 40, payload) \in Nat
          /\ at.offset + 40 <= DeclaredEnd(at.offset + 40, payload)
      BY <1>3, <2>3, <3>1
    <3> QED
      BY <1>2, <2>1, <2>3, <3>2, BoundingKeeps
  <2> QED
    BY <1>5, <2>2, <2>3 DEF ParseIpv6
<1>6. CASE ParseExtHeader
  <2>1. PICK p \in DOMAIN ExtHeaders :
          /\ Parsing(p)
          /\ \/ Truncated(2)
             \/ /\ Require(at.offset, 2)
                /\ \E x \in Octets, next \in Named("Ipv6", Ipv6Nexts) :
                     LET declared == 8 * (x + 1) IN
                     IF declared < ExtHeaders[p] THEN Fail(layers) ELSE Trusted(declared, next)
    BY <1>6 DEF ParseExtHeader
  <2>2. at.op = "parse"
    BY <2>1 DEF Parsing
  <2>3. CASE Truncated(2)
    BY <2>2, <2>3, TruncatedKeeps
  <2>4. CASE Fail(layers)
    BY <2>2, <2>4, FailKeeps, TypesGive DEF ParseInv
  <2>5. ASSUME NEW x \in Octets, NEW next \in Named("Ipv6", Ipv6Nexts), Trusted(8 * (x + 1), next)
        PROVE  ParseInv'
    <3>1. 8 * (x + 1) \in Nat /\ 8 * (x + 1) >= 4
      BY Numbers
    <3> QED
      BY <1>2, <2>2, <2>5, <3>1, TrustedKeeps
  <2> QED
    BY <2>1, <2>3, <2>4, <2>5
<1>7. CASE ParseAh
  <2>1. at.op = "parse"
    BY <1>7 DEF ParseAh, Parsing
  <2>2. CASE Truncated(12)
    BY <2>1, <2>2, TruncatedKeeps
  <2>3. CASE Fail(layers)
    BY <2>1, <2>3, FailKeeps, TypesGive DEF ParseInv
  <2>4. ASSUME NEW x \in Octets, NEW next \in Named("Ipv6", Ipv6Nexts), Trusted(4 * (x + 2), next)
        PROVE  ParseInv'
    <3>1. 4 * (x + 2) \in Nat /\ 4 * (x + 2) >= 4
      BY Numbers
    <3> QED
      BY <1>2, <2>1, <2>4, <3>1, TrustedKeeps
  <2> QED
    BY <1>7, <2>2, <2>3, <2>4 DEF ParseAh
<1>8. CASE ParseFrag
  <2>1. at.op = "parse"
    BY <1>8 DEF ParseFrag, Parsing
  <2>2. CASE Truncated(8)
    BY <2>1, <2>2, TruncatedKeeps
  <2>3. ASSUME NEW next \in Named("Ipv6", Ipv6Nexts), Step(8, next) PROVE ParseInv'
    BY <1>2, <2>1, <2>3, StepKeeps
  <2> QED
    BY <1>8, <2>2, <2>3 DEF ParseFrag
<1>9. CASE ParseEsp
  BY <1>9, TruncatedKeeps, StepKeeps DEF ParseEsp, Parsing
<1> QED
  BY <1>4, <1>5, <1>6, <1>7, <1>8, <1>9 DEF ParseNetwork

\* Tunnels, transports, leaves and a registered parser.
LEMMA TransportKeeps == ASSUME ParseInv, ParseTransport PROVE ParseInv'
<1>1. captured \in Nat /\ declared_end \in Nat /\ at.offset \in Nat
  BY TypesGive DEF ParseInv
<1>2. ASSUME at.op = "parse", NEW n, Truncated(n) PROVE ParseInv'
  BY <1>2, TruncatedKeeps
<1>3. ASSUME at.op = "parse", NEW n \in Nat, Step(n, "none") PROVE ParseInv'
  <2>1. "none" \notin Protocols
    BY DEF Protocols
  <2> QED
    BY <1>3, <2>1, StepKeeps
<1>4. ASSUME at.op = "parse", NEW n \in Nat, n >= 4, NEW parent, NEW dispatched \in SUBSET Protocols,
             NEW next \in Named(parent, dispatched), Step(n, next)
      PROVE  ParseInv'
  <2>1. next \in Protocols \cup {"raw", "none"}
    BY <1>4, NamedProtocols
  <2> QED
    BY <1>4, <2>1, StepKeeps
<1>5. CASE ParseGre
  <2>1. at.op = "parse" /\ {"Ipv4", "Ipv6"} \in SUBSET Protocols
    BY <1>5 DEF ParseGre, Parsing, Protocols
  <2>2. ASSUME NEW present \in 0 .. 3, NEW next \in Named("Gre", {"Ipv4", "Ipv6"}),
               Step(4 + 4 * present, next)
        PROVE  ParseInv'
    <3>1. 4 + 4 * present \in Nat /\ 4 + 4 * present >= 4
      OBVIOUS
    <3> QED
      BY <1>4, <2>1, <2>2, <3>1
  <2> QED
    BY <1>2, <1>5, <2>1, <2>2 DEF ParseGre
<1>6. CASE ParseVxlan
  <2>1. at.op = "parse" /\ "Eth" \in Protocols
    BY <1>6 DEF ParseVxlan, Parsing, Protocols
  <2> QED
    BY <1>2, <1>6, <2>1, StepKeeps DEF ParseVxlan
<1>7. CASE ParseTcp
  <2>1. at.op = "parse" /\ {"Tls"} \in SUBSET Protocols /\ {} \in SUBSET Protocols
    BY <1>7 DEF ParseTcp, Parsing, Protocols
  <2>2. CASE Fail(layers)
    BY <2>1, <2>2, FailKeeps, TypesGive DEF ParseInv
  <2>3. ASSUME NEW offs \in Words, NEW n, n = 4 * offs, n >= 20,
               NEW next \in Named("Tcp", IF Rest(at.offset + n) >= 5 THEN {"Tls"} ELSE {}), Step(n, next)
        PROVE  ParseInv'
    <3>1. n \in Nat /\ n >= 4
      BY <2>3, Numbers
    <3> QED
      BY <1>4, <2>1, <2>3, <3>1
  <2> QED
    BY <1>2, <1>7, <2>1, <2>2, <2>3 DEF ParseTcp
<1>8. CASE ParseUdp
  <2>1. at.op = "parse" /\ {"Dns", "Dhcp", "Ntp", "Vxlan"} \in SUBSET Protocols
    BY <1>8 DEF ParseUdp, Parsing, Protocols
  <2> QED
    BY <1>2, <1>4, <1>8, <2>1 DEF ParseUdp
<1>9. CASE ParseTls
  <2>1. at.op = "parse" /\ \A length \in Lengths : 5 + length \in Nat
    BY <1>9, Numbers DEF ParseTls, Parsing
  <2> QED
    BY <1>2, <1>3, <1>9, <2>1 DEF ParseTls
<1>10. CASE ParseLeaf
  <2>1. at.op = "parse"
    BY <1>10 DEF ParseLeaf, Parsing
  <2>2. Rest(at.offset) \in Nat
    BY <1>1 DEF Rest, End, RegionEnd, Least
  <2> QED
    BY <1>2, <1>3, <1>10, <2>1, <2>2 DEF ParseLeaf
<1>11. CASE ParseIgmp
  BY <1>2, <1>3, <1>11 DEF ParseIgmp, Parsing
<1>12. CASE ParseCustom
  <2>1. at.op = "parse" /\ {"Ipv4", "none"} \subseteq Protocols \cup {"raw", "none"}
    BY <1>12 DEF ParseCustom, Parsing, Protocols
  <2> QED
    BY <1>2, <1>12, <2>1, StepKeeps DEF ParseCustom
<1> QED
  BY <1>5, <1>6, <1>7, <1>8, <1>9, <1>10, <1>11, <1>12 DEF ParseTransport

\* The last pending call is over: the others do not notice.
LEMMA Pop ==
  ASSUME NEW st \in Seq(Frames), st # << >>
  PROVE  LET front == SubSeq(st, 1, Len(st) - 1) IN
         /\ front \in Seq(Frames) /\ Len(st) \in DOMAIN st
         /\ \A k \in DOMAIN front : k \in DOMAIN st /\ front[k] = st[k] /\ k < Len(st)
<1>1. Len(st) \in Nat /\ Len(st) >= 1 /\ DOMAIN st = 1 .. Len(st)
  OBVIOUS
<1> QED
  BY <1>1

\* The end of parse_child_with.
LEMMA ReturnToParentKeeps == ASSUME ParseInv, ReturnToParent PROVE ParseInv'
<1> DEFINE n == Len(stack)
<1>1. /\ Types /\ Table(layers, End) /\ Calls(layers, stack, declared_end) /\ at.op = "return"
      /\ stack # << >> /\ stack[n].kind = "child" /\ stack' = Popped
      /\ declared_end' = declared_end /\ captured' = captured /\ max_depth' = max_depth
  BY DEF ParseInv, ReturnToParent, Top, options
<1>2. /\ captured \in Nat /\ captured <= Unbounded /\ max_depth \in Nat /\ Unbounded \in Nat
      /\ layers \in Seq(Layers) /\ stack \in Seq(Frames)
      /\ declared_end \in Nat /\ declared_end <= Unbounded
  BY <1>1, TypesGive
<1>3. End \in Nat /\ End <= declared_end /\ End <= Unbounded /\ End' = End
  BY <1>1, <1>2 DEF End, RegionEnd, Least
<1>4. /\ Popped \in Seq(Frames) /\ n \in DOMAIN stack
      /\ \A k \in DOMAIN Popped : k \in DOMAIN stack /\ Popped[k] = stack[k] /\ k < n
  BY <1>1, <1>2, Pop DEF Popped
<1>5. n \in Children(stack)
  BY <1>1, <1>4 DEF Children
<1>6. /\ \A k \in Children(Popped) : k \in Children(stack) /\ Popped[k] = stack[k] /\ k < n
      /\ \A k \in Bounds(Popped) : k \in Bounds(stack) /\ Popped[k] = stack[k]
  BY <1>4 DEF Children, Bounds
<1>7. ASSUME NEW ls \in Seq(Layers), at' = at \/ at' = Return(TRUE), layers' = ls,
             Table(ls, End), Calls(ls, Popped, declared_end)
      PROVE  ParseInv'
  <2>1. at'.op = "return"
        /\ at' \in [op : {"start", "parse", "return", "done"}, proto : Protocols \cup {""},
                    offset : Nat, ok : BOOLEAN]
    <3>1. CASE at' = at
      BY <1>1, <3>1 DEF Types
    <3>2. CASE at' = Return(TRUE)
      BY <3>2 DEF Return
    <3> QED
      BY <1>7, <3>1, <3>2
  <2>2. Types'
    BY <1>1, <1>2, <1>4, <1>7, <2>1 DEF Types
  <2>3. Table(layers, End)'
    BY <1>1, <1>3, <1>7 DEF Table
  <2> QED
    BY <1>1, <1>7, <2>1, <2>2, <2>3 DEF ParseInv
<1>8. CASE ~at.ok /\ fallback
  <2> DEFINE cp == stack[n].checkpoint
             o == stack[n].offset
             prefix == SubSeq(layers, 1, cp)
  <2>1. layers' = ParseRaw(prefix, o, End) /\ at' = Return(TRUE)
    BY <1>8 DEF ReturnToParent, Top
  <2>2. cp \in Nat /\ o \in Nat /\ cp <= Len(layers) /\ Around(layers, cp, o, declared_end)
    BY <1>1, <1>2, <1>4, <1>5, FrameFields DEF Calls, Checkpoints
  <2>3. /\ prefix \in Seq(Layers) /\ Len(prefix) = cp /\ DOMAIN prefix = 1 .. cp
        /\ \A i \in 1 .. cp : i \in DOMAIN layers /\ prefix[i] = layers[i]
    BY <1>2, <2>2
  <2> HIDE DEF prefix, cp, o
  <2>4. Table(prefix, End)
    BY <1>1, <2>3 DEF Table
  <2>5. Calls(prefix, Popped, declared_end)
    <3>1. Regions(prefix, Popped, declared_end)
      BY <1>1, <1>4, <1>6, <2>3 DEF Calls, Regions, Bounds
    <3>2. ASSUME NEW k \in Children(Popped)
          PROVE  /\ Popped[k].checkpoint <= cp
                 /\ Around(prefix, Popped[k].checkpoint, Popped[k].offset, declared_end)
                 /\ \A j \in Bounds(Popped), i \in 1 .. Popped[k].checkpoint :
                      k < j => Popped[j].outer <= prefix[i].declares
      <4>1. k \in Children(stack) /\ Popped[k] = stack[k] /\ k < n
        BY <1>6
      <4>2. stack[k].checkpoint <= cp /\ stack[k].checkpoint \in Nat
        BY <1>1, <1>2, <1>5, <4>1, FrameFields DEF Calls, Checkpoints, Children, cp
      <4>3. \A i \in 1 .. stack[k].checkpoint : prefix[i] = layers[i]
        BY <2>2, <2>3, <4>2
      <4>4. Around(prefix, stack[k].checkpoint, stack[k].offset, declared_end)
        BY <1>1, <4>1, <4>3 DEF Calls, Checkpoints, Around
      <4>5. \A j \in Bounds(Popped), i \in 1 .. stack[k].checkpoint :
              k < j => Popped[j].outer <= prefix[i].declares
        BY <1>1, <1>6, <4>1, <4>3 DEF Calls, Checkpoints
      <4> QED
        BY <4>1, <4>2, <4>4, <4>5
    <3>3. \A j, k \in Children(Popped) : j < k =>
            /\ Popped[j].checkpoint <= Popped[k].checkpoint
            /\ Popped[j].offset + 4 <= Popped[k].offset
      BY <1>1, <1>6 DEF Calls, Checkpoints
    <3> QED
      BY <2>3, <3>1, <3>2, <3>3 DEF Calls, Checkpoints
  <2>6. /\ \A i \in DOMAIN prefix : Past(prefix[i]) <= o
        /\ \A i \in DOMAIN prefix : End <= prefix[i].declares \/ prefix[i].declares <= o
    <3>1. \A i \in DOMAIN prefix : prefix[i].declares \in Nat /\ declared_end <= prefix[i].declares
      BY <2>2, <2>3, LayerFields DEF Around
    <3> QED
      BY <1>2, <1>3, <2>2, <2>3, <3>1 DEF Around
  <2>7. /\ layers' \in Seq(Layers) /\ Table(layers', End) /\ Calls(layers', Popped, declared_end)
    BY <1>2, <1>3, <1>4, <2>1, <2>2, <2>3, <2>4, <2>5, <2>6, RawKeeps
  <2> QED
    BY <1>7, <2>1, <2>7
<1>9. CASE ~ (~at.ok /\ fallback)
  <2>1. layers' = layers /\ at' = at
    BY <1>9 DEF ReturnToParent
  <2>2. Calls(layers, Popped, declared_end)
    BY <1>1, <1>6 DEF Calls, Regions, Checkpoints
  <2> QED
    BY <1>1, <1>2, <1>7, <2>1, <2>2
<1> QED
  BY <1>8, <1>9

\* The end of an IP parser.
LEMMA ReturnToIpKeeps == ASSUME ParseInv, ReturnToIp PROVE ParseInv'
<1> DEFINE n == Len(stack)
           outer == stack[n].outer
           o == stack[n].offset
<1>1. /\ Types /\ Table(layers, End) /\ Calls(layers, stack, declared_end) /\ at.op = "return"
      /\ stack # << >> /\ stack[n].kind = "bound" /\ stack' = Popped /\ at' = at
      /\ declared_end' = outer /\ captured' = captured /\ max_depth' = max_depth
      /\ layers' = IF at.ok THEN ParseRaw(layers, o, RegionEnd(outer)) ELSE layers
  BY DEF ParseInv, ReturnToIp, Top, options
<1>2. /\ captured \in Nat /\ captured <= Unbounded /\ max_depth \in Nat /\ Unbounded \in Nat
      /\ layers \in Seq(Layers) /\ stack \in Seq(Frames)
      /\ declared_end \in Nat /\ declared_end <= Unbounded
  BY <1>1, TypesGive
<1>3. /\ Popped \in Seq(Frames) /\ n \in DOMAIN stack
      /\ \A k \in DOMAIN Popped : k \in DOMAIN stack /\ Popped[k] = stack[k] /\ k < n
  BY <1>1, <1>2, Pop DEF Popped
<1>4. n \in Bounds(stack)
  BY <1>1, <1>3 DEF Bounds
<1>5. /\ \A k \in Children(Popped) : k \in Children(stack) /\ Popped[k] = stack[k] /\ k < n
      /\ \A k \in Bounds(Popped) : k \in Bounds(stack) /\ Popped[k] = stack[k] /\ k < n
  BY <1>3 DEF Children, Bounds
<1>6. /\ outer \in Nat /\ o \in Nat /\ outer <= Unbounded
      /\ declared_end <= FrameEnd(stack[n]) /\ FrameEnd(stack[n]) \in Nat
      /\ FrameEnd(stack[n]) <= outer /\ FrameEnd(stack[n]) <= o
  BY <1>1, <1>2, <1>3, <1>4, FrameFields DEF Calls, Regions
<1> HIDE DEF outer, o
<1>7. /\ End \in Nat /\ RegionEnd(outer) \in Nat /\ End <= RegionEnd(outer) /\ End <= o
      /\ RegionEnd(outer) <= outer /\ RegionEnd(outer) <= Unbounded /\ End' = RegionEnd(outer)
  BY <1>1, <1>2, <1>6 DEF End, RegionEnd, Least
<1>8. Table(layers, RegionEnd(outer)) /\ \A i \in DOMAIN layers : Past(layers[i]) <= o
  <2>1. \A i \in DOMAIN layers : Past(layers[i]) \in Nat /\ Past(layers[i]) <= End
    BY <1>1, <1>2, LayerFields DEF Table
  <2>2. \A i \in DOMAIN layers : Past(layers[i]) <= RegionEnd(outer) /\ Past(layers[i]) <= o
    BY <1>6, <1>7, <2>1
  <2> QED
    BY <1>1, <2>2 DEF Table
<1>9. Calls(layers, Popped, outer)
  <2>1. Regions(layers, Popped, outer)
    BY <1>1, <1>4, <1>5 DEF Calls, Regions, outer
  <2>2. ASSUME NEW k \in Children(Popped)
        PROVE  Around(layers, Popped[k].checkpoint, Popped[k].offset, outer)
    <3>1. \A i \in 1 .. stack[k].checkpoint : outer <= layers[i].declares
      BY <1>1, <1>4, <1>5 DEF Calls, Checkpoints, outer
    <3> QED
      BY <1>1, <1>5, <3>1 DEF Calls, Checkpoints, Around
  <2> QED
    BY <1>1, <1>5, <2>1, <2>2 DEF Calls, Checkpoints
<1>10. \A i \in DOMAIN layers : RegionEnd(outer) <= layers[i].declares \/ layers[i].declares <= o
  <2> SUFFICES ASSUME NEW i \in DOMAIN layers
               PROVE  RegionEnd(outer) <= layers[i].declares \/ layers[i].declares <= o
    OBVIOUS
  <2>1. layers[i].declares \in Nat
    BY <1>2, LayerFields
  <2>2. layers[i].declares <= FrameEnd(stack[n]) \/ outer <= layers[i].declares
    BY <1>1, <1>4 DEF Calls, Regions, outer
  <2> QED
    BY <1>6, <1>7, <2>1, <2>2
<1>11. /\ layers' \in Seq(Layers) /\ Table(layers', RegionEnd(outer)) /\ Calls(layers', Popped, outer)
  <2>1. CASE at.ok
    BY <1>1, <1>2, <1>3, <1>6, <1>7, <1>8, <1>9, <1>10, <2>1, RawKeeps
  <2>2. CASE ~at.ok
    BY <1>1, <1>2, <1>8, <1>9, <2>2
  <2> QED
    BY <2>1, <2>2
<1>12. Types'
  <2>1. outer \in 0 .. Unbounded
    BY <1>2, <1>6
  <2> QED
    BY <1>1, <1>2, <1>3, <1>11, <2>1 DEF Types
<1>13. Table(layers, End)'
  BY <1>1, <1>7, <1>11 DEF Table
<1> QED
  BY <1>1, <1>11, <1>12, <1>13 DEF ParseInv

-----------------------------------------------------------------------------
(* The theorems.                                                           *)

\* A context before anything is parsed.
LEMMA ParseInit == Init => ParseInv
<1> SUFFICES ASSUME Init PROVE ParseInv
  OBVIOUS
<1>1. /\ captured \in Nat /\ captured <= Unbounded /\ max_depth \in Nat /\ Unbounded \in Nat
  <2>1. captured \in Captures /\ max_depth \in MaxDepths
    BY DEF Init
  <2> QED
    BY <2>1, ParseEngineAssumption
<1>2. /\ layers = << >> /\ stack = << >> /\ declared_end = Unbounded
      /\ at = [op |-> "start", proto |-> "", offset |-> 0, ok |-> TRUE]
  BY DEF Init
<1>3. at.op = "start" /\ at \in [op : {"start", "parse", "return", "done"}, proto : Protocols \cup {""},
                                 offset : Nat, ok : BOOLEAN]
  BY <1>2
<1>4. Types
  <2>1. layers \in Seq(Layers) /\ stack \in Seq(Frames)
    BY <1>2, EmptySeq
  <2>2. declared_end \in 0 .. Unbounded
    <3>1. declared_end = Unbounded /\ Unbounded \in Nat
      BY <1>1, <1>2
    <3> QED
      BY <3>1
  <2> QED
    BY <1>1, <1>3, <2>1, <2>2 DEF Types
<1>5. Table(layers, End) /\ Calls(layers, stack, declared_end)
  <2>1. DOMAIN << >> = {}
    OBVIOUS
  <2>2. Bounds(stack) = {} /\ Children(stack) = {} /\ DOMAIN layers = {}
    BY <1>2, <2>1 DEF Bounds, Children
  <2> QED
    BY <2>2 DEF Table, Calls, Regions, Checkpoints
<1> QED
  BY <1>2, <1>3, <1>4, <1>5 DEF ParseInv

\* The outermost parser has returned, or the caller has its result.
LEMMA FinishKeeps == ASSUME ParseInv, Finish \/ UNCHANGED vars PROVE ParseInv'
<1>1. UNCHANGED << captured, max_depth, layers, declared_end, stack >>
  BY DEF Finish, vars, options
<1>2. Types /\ Table(layers, End) /\ Calls(layers, stack, declared_end)
  BY DEF ParseInv
<1>3. Table(layers, End)' /\ Calls(layers, stack, declared_end)'
  BY <1>1, <1>2 DEF Table, End, RegionEnd
<1>4. CASE UNCHANGED vars
  BY <1>4 DEF vars, ParseInv, Types, Table, End, RegionEnd, RunsAt
<1>5. CASE Finish
  <2>1. at'.op = "done" /\ at' \in [op : {"start", "parse", "return", "done"},
                                   proto : Protocols \cup {""}, offset : Nat, ok : BOOLEAN]
    BY <1>2, <1>5 DEF Finish, Types
  <2>2. Types'
    BY <1>1, <1>2, <2>1 DEF Types
  <2> QED
    BY <1>3, <2>1, <2>2 DEF ParseInv
<1> QED
  BY <1>4, <1>5

\* Every step of a parse keeps the invariant.
LEMMA ParseStep == ParseInv /\ [Next]_vars => ParseInv'
<1> SUFFICES ASSUME ParseInv, [Next]_vars PROVE ParseInv'
  OBVIOUS
<1>1. CASE TryParseWithLinkType
  BY <1>1, StartKeeps
<1>2. CASE ParseLink
  BY <1>2, LinkKeeps
<1>3. CASE ParseNetwork
  BY <1>3, NetworkKeeps
<1>4. CASE ParseTransport
  BY <1>4, TransportKeeps
<1>5. CASE ReturnToParent
  BY <1>5, ReturnToParentKeeps
<1>6. CASE ReturnToIp
  BY <1>6, ReturnToIpKeeps
<1>7. CASE Finish \/ UNCHANGED vars
  BY <1>7, FinishKeeps
<1> QED
  BY <1>1, <1>2, <1>3, <1>4, <1>5, <1>6, <1>7 DEF Next, Returns, Returned

\* try_parse never leaves the invariant, whatever the bytes of the packet are.
THEOREM ParseInvariant == Spec => []ParseInv
BY ParseInit, ParseStep, PTL DEF Spec

\* Every end an IP header declares holds for all that is decoded behind it, and is
\* no longer in force behind its payload (v4.rs and v6.rs, parse).
THEOREM DeclaredEndsHold == Spec => []InsideDeclaredEnds
<1>1. ParseInv => InsideDeclaredEnds
  BY DEF ParseInv, Table, InsideDeclaredEnds
<1> QED
  BY <1>1, ParseInvariant, PTL

\* The recursion of parse_child_with is as deep as the packet is long and no deeper.
THEOREM NestingIsBounded == Spec => []NestingAdvances
<1>1. ParseInv => NestingAdvances
  BY DEF ParseInv, Calls, Checkpoints, Children, NestingAdvances
<1> QED
  BY <1>1, ParseInvariant, PTL

-----------------------------------------------------------------------------
(* No byte is lost: a second invariant, about what the layers cover.       *)

MayLeave(p) == p \in EndsItself \/ (p \in {"Eth", "Vlan"} /\ "Llc" \in Known)

\* The first n layers account for the bytes before `o`, as far as theirs allow.
Reaches(ls, n, o) ==
  \/ n = 0 /\ o = 0
  \/ n \in DOMAIN ls /\ (Past(ls[n]) = o \/ MayLeave(ls[n].proto))

\* Every layer starts where the one before it says.
Contiguous(ls) == \A i \in DOMAIN ls : Reaches(ls, i - 1, ls[i].offset)

\* The ends in force around the pending calls, from the capture's to the current one.
Nested(st, de) ==
  \E ends \in [1 .. Len(st) + 1 -> Nat] :
    /\ ends[1] = Unbounded /\ ends[Len(st) + 1] = de
    /\ \A k \in 1 .. Len(st) :
         /\ st[k].kind = "child" => ends[k + 1] = ends[k]
         /\ st[k].kind = "bound" => ends[k] = st[k].outer /\ ends[k + 1] = FrameEnd(st[k])

\* A failing child is recorded raw right behind what its parent had decoded.
Resumable(ls, st, de) ==
  \A k \in Children(st) :
    /\ st[k].offset <= RegionEnd(de)
    /\ Reaches(ls, st[k].checkpoint, st[k].offset)

CoverInv ==
  /\ Contiguous(layers) /\ Nested(stack, declared_end)
  /\ Resumable(layers, stack, declared_end)
  /\ at.op = "parse" =>
       /\ CanPush(layers) /\ Reaches(layers, Len(layers), at.offset)
       /\ at.proto = "Llc" =>
            layers # << >> /\ MayLeave(layers[Len(layers)].proto)
  /\ at.op = "return" /\ at.ok => Reaches(layers, Len(layers), End)
  /\ at.op = "done" /\ at.ok => layers = << >> \/ Reaches(layers, Len(layers), captured)

\* What a prefix covers does not depend on the layers behind it.
LEMMA ReachesPrefix ==
  ASSUME NEW ls \in Seq(Layers), NEW more \in Seq(Layers), NEW n, NEW o,
         n \in DOMAIN ls => n \in DOMAIN more /\ more[n] = ls[n],
         Reaches(ls, n, o)
  PROVE  Reaches(more, n, o)
BY DEF Reaches

\* A layer at the place that is reached.
LEMMA AppendCovers ==
  ASSUME NEW ls \in Seq(Layers), NEW l \in Layers,
         Contiguous(ls), Reaches(ls, Len(ls), l.offset),
         NEW more, more = Append(ls, l)
  PROVE  /\ more \in Seq(Layers) /\ Contiguous(more) /\ Reaches(more, Len(more), Past(l))
         /\ more[Len(more)] = l /\ more # << >>
         /\ \A n, o : Reaches(ls, n, o) => Reaches(more, n, o)
<1>1. /\ more \in Seq(Layers) /\ DOMAIN more = 1 .. Len(ls) + 1 /\ DOMAIN ls = 1 .. Len(ls)
      /\ Len(ls) \in Nat /\ Len(more) = Len(ls) + 1
      /\ \A i \in 1 .. Len(ls) : more[i] = ls[i]
      /\ more[Len(ls) + 1] = l
  OBVIOUS
<1>2. ASSUME NEW n, NEW o, Reaches(ls, n, o) PROVE Reaches(more, n, o)
  <2>1. n \in DOMAIN ls => n \in DOMAIN more /\ more[n] = ls[n]
    BY <1>1
  <2> QED  BY <1>1, <1>2, <2>1, ReachesPrefix
<1>3. Contiguous(more)
  <2> SUFFICES ASSUME NEW i \in DOMAIN more PROVE Reaches(more, i - 1, more[i].offset)
    BY DEF Contiguous
  <2>1. CASE i \in DOMAIN ls
    BY <1>1, <1>2, <2>1 DEF Contiguous
  <2>2. CASE i = Len(ls) + 1
    <3>1. i - 1 = Len(ls) /\ more[i] = l
      BY <1>1, <2>2
    <3> QED  BY <1>2, <3>1
  <2> QED  BY <1>1, <2>1, <2>2
<1>4. Reaches(more, Len(more), Past(l))
  BY <1>1 DEF Reaches
<1>5. more # << >>
  BY <1>1
<1> QED  BY <1>1, <1>2, <1>3, <1>4, <1>5

\* parse_raw at the place that is reached covers the rest of the region.
LEMMA RawCovers ==
  ASSUME NEW ls \in Seq(Layers), NEW o \in Nat, NEW end \in Nat, o <= end, Unbounded \in Nat,
         Contiguous(ls), Reaches(ls, Len(ls), o),
         NEW more, more = ParseRaw(ls, o, end)
  PROVE  /\ more \in Seq(Layers) /\ Contiguous(more) /\ Reaches(more, Len(more), end)
         /\ \A n, x : Reaches(ls, n, x) => Reaches(more, n, x)
<1> DEFINE raw == Layer("Raw", o, end - o, Unbounded)
<1>1. CASE end <= o
  <2>1. more = ls /\ end = o
    BY <1>1 DEF ParseRaw
  <2> QED  BY <2>1
<1>2. CASE ~(end <= o)
  <2>1. /\ raw \in Layers /\ raw.offset = o /\ Past(raw) = end
    <3>1. end - o \in Nat /\ o + (end - o) = end
      BY <1>2
    <3> QED  BY <3>1 DEF Layer, Layers, Past
  <2>2. CASE ls # << >> /\ ls[Len(ls)] = raw
    <3>1. more = ls
      BY <2>2 DEF ParseRaw
    <3>2. Len(ls) \in DOMAIN ls
      BY <2>2
    <3> HIDE DEF raw
    <3> QED  BY <2>1, <2>2, <3>1, <3>2 DEF Reaches
  <2>3. CASE ~(ls # << >> /\ ls[Len(ls)] = raw)
    <3>1. more = Append(ls, raw)
      BY <1>2, <2>3 DEF ParseRaw
    <3> HIDE DEF raw
    <3>2. Reaches(ls, Len(ls), raw.offset)
      BY <2>1
    <3> QED  BY <2>1, <3>1, <3>2, AppendCovers
  <2> QED  BY <2>2, <2>3
<1> QED  BY <1>1, <1>2

\* The ends around one call more, and one less.
LEMMA NestedAppend ==
  ASSUME NEW st \in Seq(Frames), NEW f \in Frames, NEW de \in Nat, NEW inner \in Nat,
         Nested(st, de),
         f.kind = "child" => inner = de,
         f.kind = "bound" => f.outer = de /\ inner = FrameEnd(f),
         NEW more, more = Append(st, f)
  PROVE  Nested(more, inner)
<1>1. /\ Len(st) \in Nat /\ Len(more) = Len(st) + 1
      /\ \A k \in 1 .. Len(st) : more[k] = st[k]
      /\ more[Len(st) + 1] = f
  OBVIOUS
<1>2. PICK ends \in [1 .. Len(st) + 1 -> Nat] :
        /\ ends[1] = Unbounded /\ ends[Len(st) + 1] = de
        /\ \A k \in 1 .. Len(st) :
             /\ st[k].kind = "child" => ends[k + 1] = ends[k]
             /\ st[k].kind = "bound" => ends[k] = st[k].outer /\ ends[k + 1] = FrameEnd(st[k])
  BY DEF Nested
<1> DEFINE further == [k \in 1 .. Len(more) + 1 |-> IF k = Len(st) + 2 THEN inner ELSE ends[k]]
<1>3. further \in [1 .. Len(more) + 1 -> Nat]
  BY <1>1
<1>4. /\ \A k \in 1 .. Len(st) + 1 : further[k] = ends[k]
      /\ further[Len(st) + 2] = inner
  BY <1>1
<1> HIDE DEF further
<1>5. further[1] = Unbounded /\ further[Len(more) + 1] = inner
  BY <1>1, <1>2, <1>4
<1>6. ASSUME NEW k \in 1 .. Len(more)
      PROVE  /\ more[k].kind = "child" => further[k + 1] = further[k]
             /\ more[k].kind = "bound" => further[k] = more[k].outer /\ further[k + 1] = FrameEnd(more[k])
  <2>1. CASE k \in 1 .. Len(st)
    <3>1. k \in 1 .. Len(st) + 1 /\ k + 1 \in 1 .. Len(st) + 1
      BY <1>1, <2>1
    <3> QED  BY <1>1, <1>2, <1>4, <2>1, <3>1
  <2>2. CASE k = Len(st) + 1
    <3>1. k \in 1 .. Len(st) + 1 /\ k + 1 = Len(st) + 2
      BY <1>1, <2>2
    <3> QED  BY <1>1, <1>2, <1>4, <2>2, <3>1
  <2> QED  BY <1>1, <2>1, <2>2
<1> QED  BY <1>3, <1>5, <1>6 DEF Nested

\* One pending call less: the region is that of its caller.
LEMMA NestedPop ==
  ASSUME NEW st \in Seq(Frames), st # << >>, NEW de \in Nat, Nested(st, de),
         NEW front, front = SubSeq(st, 1, Len(st) - 1),
         NEW f, f = st[Len(st)]
  PROVE  /\ f.kind = "child" => Nested(front, de)
         /\ f.kind = "bound" => de = FrameEnd(f) /\ Nested(front, f.outer)
<1>1. /\ Len(st) \in Nat /\ Len(st) >= 1 /\ Len(front) = Len(st) - 1
      /\ \A k \in 1 .. Len(front) : front[k] = st[k]
  <2>1. Len(st) \in Nat /\ Len(st) >= 1
    OBVIOUS
  <2> DEFINE m == Len(st) - 1
  <2>2. m \in Nat /\ m <= Len(st)
    BY <2>1
  <2> HIDE DEF m
  <2>3. front = SubSeq(st, 1, m)
    BY DEF m
  <2>4. Len(front) = m /\ \A k \in 1 .. m : front[k] = st[k]
    BY <2>2, <2>3
  <2> QED  BY <2>1, <2>4 DEF m
<1>2. PICK ends \in [1 .. Len(st) + 1 -> Nat] :
        /\ ends[1] = Unbounded /\ ends[Len(st) + 1] = de
        /\ \A k \in 1 .. Len(st) :
             /\ st[k].kind = "child" => ends[k + 1] = ends[k]
             /\ st[k].kind = "bound" => ends[k] = st[k].outer /\ ends[k + 1] = FrameEnd(st[k])
  BY DEF Nested
<1>3. Len(st) \in 1 .. Len(st) /\ Len(front) + 1 = Len(st) /\ Len(front) \in Nat
  BY <1>1
<1>4. /\ f.kind = "child" => de = ends[Len(st)]
      /\ f.kind = "bound" => ends[Len(st)] = f.outer /\ de = FrameEnd(f)
  BY <1>2, <1>3
<1> DEFINE fewer == [k \in 1 .. Len(front) + 1 |-> ends[k]]
<1>5. /\ fewer \in [1 .. Len(front) + 1 -> Nat]
      /\ \A k \in 1 .. Len(front) + 1 : fewer[k] = ends[k]
  BY <1>1
<1> HIDE DEF fewer
<1>6. fewer[1] = Unbounded /\ fewer[Len(front) + 1] = ends[Len(st)]
  BY <1>1, <1>2, <1>3, <1>5
<1>7. ASSUME NEW k \in 1 .. Len(front)
      PROVE  /\ front[k].kind = "child" => fewer[k + 1] = fewer[k]
             /\ front[k].kind = "bound" => fewer[k] = front[k].outer /\ fewer[k + 1] = FrameEnd(front[k])
  <2>1. k \in 1 .. Len(st) /\ k \in 1 .. Len(front) + 1 /\ k + 1 \in 1 .. Len(front) + 1
    BY <1>1
  <2> QED  BY <1>1, <1>2, <1>5, <2>1
<1>8. Nested(front, ends[Len(st)])
  BY <1>5, <1>6, <1>7 DEF Nested
<1> QED  BY <1>4, <1>8

\* The payload of an IP header is over: the end around it is in force again.
LEMMA PayloadOver ==
  ASSUME NEW st \in Seq(Frames), st # << >>, NEW de \in Nat, Nested(st, de),
         st[Len(st)].kind = "bound"
  PROVE  /\ de = FrameEnd(st[Len(st)])
         /\ Nested(SubSeq(st, 1, Len(st) - 1), st[Len(st)].outer)
BY NestedPop

\* Without pending calls no end is in force but the capture's.
LEMMA NestedEmpty ==
  ASSUME Unbounded \in Nat
  PROVE  \A de : Nested(<< >>, de) <=> de = Unbounded
<1>1. Len(<< >>) = 0
  OBVIOUS
<1>2. [k \in 1 .. 1 |-> Unbounded] \in [1 .. 1 -> Nat]
  OBVIOUS
<1>3. ASSUME NEW de, Nested(<< >>, de) PROVE de = Unbounded
  BY <1>1, <1>3 DEF Nested
<1>4. Nested(<< >>, Unbounded)
  <2> DEFINE ends == [k \in 1 .. 1 |-> Unbounded]
  <2>1. ends \in [1 .. Len(<< >>) + 1 -> Nat]
    BY <1>1, <1>2
  <2>2. ends[1] = Unbounded /\ ends[Len(<< >>) + 1] = Unbounded
    BY <1>1
  <2>3. 1 .. Len(<< >>) = {}
    BY <1>1
  <2> HIDE DEF ends
  <2> QED  BY <2>1, <2>2, <2>3 DEF Nested
<1> QED  BY <1>3, <1>4

\* A longer table, and the pending calls of a table that goes on.
LEMMA ResumableLonger ==
  ASSUME NEW ls, NEW more, NEW st \in Seq(Frames), NEW de,
         Resumable(ls, st, de), \A n, o : Reaches(ls, n, o) => Reaches(more, n, o)
  PROVE  Resumable(more, st, de)
BY DEF Resumable

\* parse_child, parse_raw or a plain return cover what they should.
LEMMA IntoCovers ==
  ASSUME Types, NEW ls \in Seq(Layers), NEW st \in Seq(Frames), NEW de \in 0 .. Unbounded,
         NEW o \in Nat, NEW next \in Protocols \cup {"raw", "none"},
         Contiguous(ls), Nested(st, de), Resumable(ls, st, de),
         o <= RegionEnd(de), Reaches(ls, Len(ls), o),
         next = "none" => Reaches(ls, Len(ls), RegionEnd(de)),
         next = "Llc" => ls # << >> /\ MayLeave(ls[Len(ls)].proto),
         Into(next, o, ls, st, de)
  PROVE  CoverInv'
<1>1. /\ captured \in Nat /\ Unbounded \in Nat /\ de \in Nat /\ RegionEnd(de) \in Nat
      /\ max_depth \in Nat
  <2>1. captured \in Nat /\ Unbounded \in Nat /\ max_depth \in Nat
    BY TypesGive
  <2> QED  BY <2>1 DEF RegionEnd, Least
<1>2. /\ declared_end' = de /\ captured' = captured /\ max_depth' = max_depth
  BY DEF Into, options
<1>3. End' = RegionEnd(de) /\ \A x : RegionEnd(x)' = RegionEnd(x)
  BY <1>2 DEF End, RegionEnd
<1>4. CASE next \notin {"raw", "none"} /\ CanPush(ls)
  <2>1. /\ layers' = ls /\ stack' = Append(st, ChildFrame(Len(ls), o))
        /\ at' = Parse(next, o)
    BY <1>4 DEF Into
  <2>2. at'.op = "parse" /\ at'.proto = next /\ at'.offset = o
    BY <2>1 DEF Parse
  <2> DEFINE f == ChildFrame(Len(ls), o)
  <2>3. /\ f \in Frames /\ f.kind = "child" /\ f.checkpoint = Len(ls) /\ f.offset = o
    BY DEF ChildFrame, Frames
  <2>4. stack' = Append(st, f)
    BY <2>1
  <2> HIDE DEF f
  <2>5. Nested(stack', de)
    BY <1>1, <2>3, <2>4, NestedAppend
  <2>6. Resumable(ls, stack', de)
    <3>1. /\ DOMAIN stack' = 1 .. Len(st) + 1 /\ DOMAIN st = 1 .. Len(st) /\ Len(st) \in Nat
          /\ \A k \in 1 .. Len(st) : stack'[k] = st[k]
          /\ stack'[Len(st) + 1] = f
      BY <2>3, <2>4
    <3>2. \A k \in Children(stack') : (k \in Children(st) /\ stack'[k] = st[k]) \/ stack'[k] = f
      BY <3>1 DEF Children
    <3> QED  BY <2>3, <3>2 DEF Resumable
  <2>7. CanPush(layers)'
    BY <1>2, <1>4, <2>1 DEF CanPush
  <2>8. Resumable(layers, stack, declared_end)'
    BY <1>2, <1>3, <2>1, <2>6 DEF Resumable
  <2> QED  BY <1>2, <2>1, <2>2, <2>5, <2>7, <2>8 DEF CoverInv
<1>5. CASE ~(next \notin {"raw", "none"} /\ CanPush(ls))
  <2>1. /\ layers' = IF next = "none" THEN ls ELSE ParseRaw(ls, o, RegionEnd(de))
        /\ stack' = st /\ at' = Return(TRUE)
    BY <1>5 DEF Into
  <2>2. at'.op = "return"
    BY <2>1 DEF Return
  <2>3. /\ Contiguous(layers') /\ Reaches(layers', Len(layers'), RegionEnd(de))
        /\ \A n, x : Reaches(ls, n, x) => Reaches(layers', n, x)
    <3>1. CASE next = "none"
      BY <2>1, <3>1
    <3>2. CASE next # "none"
      BY <1>1, <2>1, <3>2, RawCovers
    <3> QED  BY <3>1, <3>2
  <2>4. Resumable(layers, stack, declared_end)'
    BY <1>2, <1>3, <2>1, <2>3 DEF Resumable
  <2> QED  BY <1>2, <1>3, <2>1, <2>2, <2>3, <2>4 DEF CoverInv
<1> QED  BY <1>4, <1>5

\* The header is pushed: the parser was called because the depth allows it.
LEMMA HeaderCovers ==
  ASSUME ParseInv, CoverInv, at.op = "parse", NEW n \in Nat, NEW d \in Nat,
         NEW ls, ls = PushLayer(layers, Layer(at.proto, at.offset, n, d))
  PROVE  /\ ls \in Seq(Layers) /\ Contiguous(ls) /\ Reaches(ls, Len(ls), at.offset + n)
         /\ ls # << >> /\ ls[Len(ls)].proto = at.proto
         /\ MayLeave(at.proto) => \A o : Reaches(ls, Len(ls), o)
         /\ Resumable(ls, stack, declared_end)
<1> DEFINE l == Layer(at.proto, at.offset, n, d)
<1>1. ls = Append(layers, l)
  BY DEF PushLayer, CoverInv
<1>2. /\ l \in Layers /\ Past(l) = at.offset + n /\ l.offset = at.offset /\ l.proto = at.proto
  <2>1. at.proto \in Protocols /\ at.offset \in Nat
    BY TypesGive DEF ParseInv
  <2> QED  BY <2>1 DEF Layer, Layers, Past
<1> HIDE DEF l
<1>3. /\ layers \in Seq(Layers) /\ stack \in Seq(Frames)
      /\ Contiguous(layers) /\ Reaches(layers, Len(layers), l.offset)
      /\ Resumable(layers, stack, declared_end)
  BY <1>2, TypesGive DEF ParseInv, CoverInv
<1>4. /\ ls \in Seq(Layers) /\ Contiguous(ls) /\ Reaches(ls, Len(ls), Past(l))
      /\ ls[Len(ls)] = l /\ ls # << >>
      /\ \A k, o : Reaches(layers, k, o) => Reaches(ls, k, o)
  BY <1>1, <1>2, <1>3, AppendCovers
<1>5. Resumable(ls, stack, declared_end)
  BY <1>3, <1>4, ResumableLonger
<1>6. Len(ls) \in DOMAIN ls
  BY <1>4
<1>7. MayLeave(at.proto) => \A o : Reaches(ls, Len(ls), o)
  BY <1>2, <1>4, <1>6 DEF Reaches
<1> QED  BY <1>2, <1>4, <1>5, <1>7

\* A header and what follows it: a plain return only from a protocol that decides
\* where it ends or at the end of the region, LLC only behind a link header.
LEMMA StepCovers ==
  ASSUME ParseInv, CoverInv, at.op = "parse",
         NEW n \in Nat, NEW next \in Protocols \cup {"raw", "none"}, Step(n, next),
         next = "none" => MayLeave(at.proto) \/ at.offset + n = End,
         next = "Llc" => MayLeave(at.proto)
  PROVE  CoverInv'
<1> DEFINE ls == Header(n)
           o == at.offset + n
<1>1. /\ Types /\ Unbounded \in Nat /\ declared_end \in 0 .. Unbounded /\ stack \in Seq(Frames)
      /\ o \in Nat /\ Nested(stack, declared_end)
  <2>1. Types
    BY DEF ParseInv
  <2>2. Nested(stack, declared_end)
    BY DEF CoverInv
  <2>3. /\ Unbounded \in Nat /\ declared_end \in 0 .. Unbounded /\ stack \in Seq(Frames)
        /\ at.offset \in Nat
    BY <2>1, TypesGive
  <2>4. o \in Nat
    BY <2>3
  <2> QED  BY <2>1, <2>2, <2>3, <2>4
<1>2. o <= RegionEnd(declared_end) /\ Into(next, o, ls, stack, declared_end)
  BY DEF Step, Require, End
<1>3. /\ ls \in Seq(Layers) /\ Contiguous(ls) /\ Reaches(ls, Len(ls), o)
      /\ ls # << >> /\ ls[Len(ls)].proto = at.proto
      /\ MayLeave(at.proto) => \A x : Reaches(ls, Len(ls), x)
      /\ Resumable(ls, stack, declared_end)
  BY <1>1, HeaderCovers DEF Header
<1>4. next = "none" => Reaches(ls, Len(ls), RegionEnd(declared_end))
  BY <1>3 DEF End
<1> HIDE DEF ls, o
<1> QED  BY <1>1, <1>2, <1>3, <1>4, IntoCovers

\* Err(_): what is in the table stays without gaps.
LEMMA FailCovers ==
  ASSUME ParseInv, CoverInv, NEW ls, Contiguous(ls), Resumable(ls, stack, declared_end), Fail(ls)
  PROVE  CoverInv'
<1>1. /\ layers' = ls /\ stack' = stack /\ declared_end' = declared_end /\ captured' = captured
      /\ at' = Return(FALSE)
  BY DEF Fail, options
<1>2. at'.op = "return" /\ ~at'.ok
  BY <1>1 DEF Return
<1>3. Resumable(layers, stack, declared_end)'
  BY <1>1 DEF Resumable, RegionEnd
<1> QED  BY <1>1, <1>2, <1>3 DEF CoverInv

\* A failure before anything is pushed.
LEMMA FailHereCovers ==
  ASSUME ParseInv, CoverInv, Fail(layers)
  PROVE  CoverInv'
BY FailCovers DEF CoverInv

\* ParseContext::require fails before anything is pushed.
LEMMA TruncatedCovers ==
  ASSUME ParseInv, CoverInv, NEW n, Truncated(n)
  PROVE  CoverInv'
BY FailHereCovers DEF Truncated

\* An IP header and the payload it bounds.
LEMMA BoundingCovers ==
  ASSUME ParseInv, CoverInv, at.op = "parse", NEW n \in Nat, NEW end \in Nat,
         NEW next \in Protocols \cup {"raw"}, next # "Llc",
         Require(at.offset, n), at.offset + n <= end, Bounding(n, end, next)
  PROVE  CoverInv'
<1> DEFINE inner == Least(declared_end, end)
           ls == PushLayer(layers, Layer(at.proto, at.offset, n, inner))
           f == BoundFrame(declared_end, end)
           st == Append(stack, f)
           o == at.offset + n
<1>1. /\ Types /\ Unbounded \in Nat /\ declared_end \in Nat /\ stack \in Seq(Frames)
      /\ at.offset \in Nat /\ captured \in Nat /\ declared_end <= Unbounded /\ o \in Nat
      /\ Nested(stack, declared_end)
      /\ \A k \in Children(stack) : stack[k].offset <= at.offset
  <2>1. Types /\ \A k \in Children(stack) : stack[k].offset <= at.offset
    BY DEF ParseInv, RunsAt
  <2>2. Nested(stack, declared_end)
    BY DEF CoverInv
  <2>3. /\ Unbounded \in Nat /\ declared_end \in Nat /\ stack \in Seq(Frames)
        /\ at.offset \in Nat /\ captured \in Nat /\ declared_end <= Unbounded
    BY <2>1, TypesGive
  <2>4. o \in Nat
    BY <2>3
  <2> QED  BY <2>1, <2>2, <2>3, <2>4
<1>2. Into(next, o, ls, st, inner)
  BY DEF Bounding
<1>3. inner \in Nat /\ inner \in 0 .. Unbounded /\ o <= RegionEnd(inner) /\ RegionEnd(inner) \in Nat
  BY <1>1 DEF Require, End, RegionEnd, Least
<1>4. /\ ls \in Seq(Layers) /\ Contiguous(ls) /\ Reaches(ls, Len(ls), o)
      /\ Resumable(ls, stack, declared_end)
  BY <1>3, HeaderCovers
<1>5. /\ f \in Frames /\ f.kind = "bound" /\ f.outer = declared_end /\ inner = FrameEnd(f)
  BY <1>1 DEF BoundFrame, Frames, FrameEnd
<1> HIDE DEF f, inner, ls
<1>6. Nested(st, inner)
  BY <1>1, <1>3, <1>5, NestedAppend
<1>7. st \in Seq(Frames) /\ Resumable(ls, st, inner)
  <2>1. /\ st \in Seq(Frames) /\ DOMAIN st = 1 .. Len(stack) + 1 /\ DOMAIN stack = 1 .. Len(stack)
        /\ \A k \in 1 .. Len(stack) : st[k] = stack[k]
        /\ st[Len(stack) + 1] = f /\ Len(stack) \in Nat
    BY <1>1, <1>5
  <2> HIDE DEF st
  <2>2. \A k \in Children(st) : k \in Children(stack) /\ st[k] = stack[k]
    BY <1>5, <2>1 DEF Children
  <2>3. ASSUME NEW k \in Children(st) PROVE st[k].offset <= RegionEnd(inner)
    <3>1. st[k].offset \in Nat /\ st[k].offset <= at.offset
      BY <1>1, <2>2, FrameFields DEF Children
    <3> QED  BY <1>1, <1>3, <3>1
  <2> QED  BY <1>4, <2>1, <2>2, <2>3 DEF Resumable
<1> HIDE DEF st, o
<1>8. next \in Protocols \cup {"raw", "none"} /\ next # "none"
  BY DEF Protocols
<1> QED  BY <1>1, <1>2, <1>3, <1>4, <1>6, <1>7, <1>8, IntoCovers

\* A header that is trusted as far as its region reaches.
LEMMA TrustedCovers ==
  ASSUME ParseInv, CoverInv, at.op = "parse", NEW declared \in Nat,
         NEW next \in Protocols \cup {"raw"}, next # "Llc", Trusted(declared, next)
  PROVE  CoverInv'
<1> DEFINE n == Least(declared, Rest(at.offset))
           then == IF Rest(at.offset + n) = 0 THEN "raw" ELSE next
<1>1. captured \in Nat /\ declared_end \in Nat /\ at.offset \in Nat
  BY TypesGive DEF ParseInv
<1>2. n \in Nat
  BY <1>1 DEF End, RegionEnd, Least, Rest
<1>3. then \in Protocols \cup {"raw", "none"} /\ then # "none" /\ then # "Llc"
  BY DEF Protocols
<1>4. Step(n, then)
  BY DEF Trusted
<1> HIDE DEF n, then
<1> QED  BY <1>2, <1>3, <1>4, StepCovers

\* Only Ethernet and VLAN headers name LLC, and only when packets do.
LEMMA NamedCovers ==
  ASSUME ParseInv, CoverInv, at.op = "parse", NEW n \in Nat, NEW parent,
         NEW dispatched \in SUBSET Protocols, "Llc" \in dispatched => at.proto \in {"Eth", "Vlan"},
         NEW next \in Named(parent, dispatched), Step(n, next)
  PROVE  CoverInv'
<1>1. /\ next \in Protocols \cup {"raw", "none"} /\ next # "none"
      /\ next = "Llc" => "Llc" \in dispatched \cap Known
  BY DEF Named, Protocols
<1>2. next = "Llc" => MayLeave(at.proto)
  BY <1>1 DEF MayLeave
<1> QED  BY <1>1, <1>2, StepCovers

\* try_parse, and the link types without a parser.
LEMMA StartCovers == ASSUME ParseInv, CoverInv, TryParseWithLinkType PROVE CoverInv'
<1>1. /\ at.op = "start" /\ layers = << >> /\ stack = << >> /\ declared_end = Unbounded
      /\ UNCHANGED << options, declared_end, stack >>
      /\ Types /\ captured \in Nat /\ captured <= Unbounded /\ Unbounded \in Nat
  BY TypesGive DEF ParseInv, TryParseWithLinkType, TryParse, Root, RawLink, UnsupportedLink
<1>2. captured' = captured /\ max_depth' = max_depth /\ End = captured
  BY <1>1 DEF options, End, RegionEnd, Least
<1>3. Contiguous(layers) /\ Reaches(layers, Len(layers), 0) /\ Nested(stack, declared_end)'
  <2>1. Len(layers) = 0
    BY <1>1
  <2> QED  BY <1>1, <2>1 DEF CoverInv, Reaches
<1>4. Resumable(layers, stack, declared_end)'
  <2>1. DOMAIN stack' = {}
    BY <1>1
  <2> QED  BY <2>1 DEF Resumable, Children
<1>5. ASSUME NEW p \in {"Eth", "Sll", "Ipv4", "Ipv6"}, Root(p) PROVE CoverInv'
  <2>1. /\ layers' = layers
        /\ at' = IF CanPush(layers) THEN Parse(p, 0) ELSE Done(TRUE)
    BY <1>5 DEF Root
  <2>2. CASE CanPush(layers)
    <3>1. at'.op = "parse" /\ at'.proto = p /\ at'.offset = 0
      BY <2>1, <2>2 DEF Parse
    <3>2. CanPush(layers)'
      BY <1>2, <2>1, <2>2 DEF CanPush
    <3> QED  BY <1>3, <1>4, <2>1, <3>1, <3>2 DEF CoverInv
  <2>3. CASE ~CanPush(layers)
    <3>1. at'.op = "done" /\ layers' = << >>
      BY <1>1, <2>1, <2>3 DEF Done, Return
    <3> QED  BY <1>3, <1>4, <2>1, <3>1 DEF CoverInv
  <2> QED  BY <2>2, <2>3
<1>6. CASE RawLink
  <2>1. layers' = ParseRaw(layers, 0, captured) /\ at' = Done(TRUE)
    BY <1>2, <1>6 DEF RawLink
  <2>2. at'.op = "done"
    BY <2>1 DEF Done, Return
  <2>3. layers \in Seq(Layers) /\ 0 \in Nat /\ 0 <= captured
    <3>1. layers \in Seq(Layers)
      BY <1>1, EmptySeq
    <3> QED  BY <1>1, <3>1
  <2>4. Contiguous(layers') /\ Reaches(layers', Len(layers'), captured)
    BY <1>1, <1>3, <2>1, <2>3, RawCovers
  <2> QED  BY <1>2, <1>3, <1>4, <2>2, <2>4 DEF CoverInv
<1>7. CASE UnsupportedLink
  <2>1. layers' = layers /\ at'.op = "done" /\ ~at'.ok
    BY <1>7 DEF UnsupportedLink, Done, Return
  <2> QED  BY <1>3, <1>4, <2>1 DEF CoverInv
<1> QED  BY <1>5, <1>6, <1>7 DEF TryParseWithLinkType, TryParse

\* Link layers: LLC without SNAP leaves what is behind the link header.
LEMMA LinkCovers == ASSUME ParseInv, CoverInv, ParseLink PROVE CoverInv'
<1>1. /\ captured \in Nat /\ declared_end \in Nat /\ declared_end \in 0 .. Unbounded
      /\ at.offset \in Nat /\ Types
      /\ layers \in Seq(Layers) /\ stack \in Seq(Frames)
  BY TypesGive DEF ParseInv
<1>2. CASE ParseEth
  <2>1. EtherNexts \cup {"Vlan", "Llc"} \in SUBSET Protocols
    BY Dispatched DEF Protocols
  <2> QED  BY <1>2, <2>1, TruncatedCovers, NamedCovers DEF ParseEth, Parsing
<1>3. CASE ParseVlan
  <2>1. EtherNexts \cup {"Llc"} \in SUBSET Protocols
    BY Dispatched DEF Protocols
  <2> QED  BY <1>3, <2>1, TruncatedCovers, NamedCovers DEF ParseVlan, Parsing
<1>4. EtherNexts \in SUBSET Protocols /\ "Llc" \notin EtherNexts
  BY Dispatched DEF EtherNexts
<1>5. CASE ParseSll
  BY <1>4, <1>5, TruncatedCovers, NamedCovers DEF ParseSll, Parsing
<1>6. CASE ParseLlc
  <2>1. CASE Into("none", at.offset, layers, stack, declared_end)
    <3>1. layers # << >> /\ MayLeave(layers[Len(layers)].proto)
      BY <1>6 DEF ParseLlc, Parsing, CoverInv
    <3>2. Len(layers) \in DOMAIN layers
      BY <1>1, <3>1
    <3>3. \A o : Reaches(layers, Len(layers), o)
      BY <3>1, <3>2 DEF Reaches
    <3>4. at.offset <= RegionEnd(declared_end)
      BY <1>6 DEF ParseLlc, Parsing, ParseInv, RunsAt
    <3>5. Contiguous(layers) /\ Nested(stack, declared_end) /\ Resumable(layers, stack, declared_end)
      BY DEF CoverInv
    <3> QED  BY <1>1, <2>1, <3>1, <3>3, <3>4, <3>5, IntoCovers
  <2> QED  BY <1>4, <1>6, <2>1, TruncatedCovers, NamedCovers DEF ParseLlc, Parsing
<1>7. CASE ParseMpls
  <2>1. at.op = "parse"
    BY <1>7 DEF ParseMpls, Parsing
  <2>2. ASSUME NEW k \in 1 .. MaxLabels, at.offset + 4 * k >= captured, Step(4 * k, "none")
        PROVE  CoverInv'
    <3>1. 4 * k \in Nat
      BY Numbers
    <3>2. at.offset + 4 * k = End
      BY <1>1, <2>2, <3>1 DEF Step, Require, End, RegionEnd, Least
    <3> QED  BY <2>1, <2>2, <3>1, <3>2, StepCovers
  <2>3. ASSUME NEW k \in 1 .. MaxLabels, NEW next \in Named("Mpls", {"Ipv4", "Ipv6"}),
               Step(4 * k, next)
        PROVE  CoverInv'
    <3>1. 4 * k \in Nat
      BY Numbers
    <3>2. {"Ipv4", "Ipv6"} \in SUBSET Protocols /\ "Llc" \notin {"Ipv4", "Ipv6"}
      BY DEF Protocols
    <3> QED  BY <2>1, <2>3, <3>1, <3>2, NamedCovers
  <2> QED  BY <1>7, <2>2, <2>3, FailHereCovers DEF ParseMpls
<1>8. CASE ParseArp
  <2>1. at.op = "parse" /\ MayLeave(at.proto)
    BY <1>8 DEF ParseArp, Parsing, MayLeave, EndsItself
  <2>2. ASSUME NEW hlen \in Octets, NEW plen \in Octets, Step(8 + 2 * hlen + 2 * plen, "none")
        PROVE  CoverInv'
    <3>1. 8 + 2 * hlen + 2 * plen \in Nat
      <4>1. hlen \in Nat /\ plen \in Nat
        BY Numbers
      <4> QED  BY <4>1
    <3> QED  BY <2>1, <2>2, <3>1, StepCovers
  <2> QED  BY <1>8, <2>1, <2>2, TruncatedCovers DEF ParseArp
<1> QED  BY <1>2, <1>3, <1>5, <1>6, <1>7, <1>8 DEF ParseLink

\* IP and its extension headers, none of which returns without a child or raw bytes.
LEMMA NetworkCovers == ASSUME ParseInv, CoverInv, ParseNetwork PROVE CoverInv'
<1>1. /\ captured \in Nat /\ declared_end \in Nat /\ at.offset \in Nat /\ Unbounded \in Nat
      /\ declared_end <= Unbounded
  BY TypesGive DEF ParseInv
<1>2. /\ Ipv4Nexts \in SUBSET Protocols /\ "Llc" \notin Ipv4Nexts
      /\ Ipv6Nexts \in SUBSET Protocols /\ "Llc" \notin Ipv6Nexts
  BY Dispatched DEF Ipv4Nexts, Ipv6Nexts, ExtHeaders
<1>3. /\ \A next \in Named("Ipv6", Ipv6Nexts) : next \in Protocols \cup {"raw"} /\ next # "Llc"
      /\ \A next \in Named("Ipv4", Ipv4Nexts) : next \in Protocols \cup {"raw"} /\ next # "Llc"
  <2>1. "Custom" # "Llc" /\ "raw" # "Llc" /\ "Custom" \in Protocols
    BY DEF Protocols
  <2> QED  BY <1>2, <2>1 DEF Named
<1>4. ASSUME NEW n \in Nat, NEW length \in Nat, Require(at.offset, n), NEW o \in Nat,
             length = 0 \/ at.offset + n <= o + length
      PROVE  DeclaredEnd(o, length) \in Nat /\ at.offset + n <= DeclaredEnd(o, length)
  BY <1>1, <1>4 DEF DeclaredEnd, Require, End, RegionEnd, Least
<1>5. CASE ParseIpv4
  <2>1. at.op = "parse"
    BY <1>5 DEF ParseIpv4, Parsing
  <2>2. ASSUME NEW ihl \in Words, NEW n, n = 4 * ihl, n >= 20, Require(at.offset, n),
               NEW total \in Lengths,
               IF total # 0 /\ total < n THEN Fail(Header(n))
               ELSE \E next \in Named("Ipv4", Ipv4Nexts) :
                      Bounding(n, DeclaredEnd(at.offset, total), next)
        PROVE  CoverInv'
    <3>1. n \in Nat
      BY <2>2, Numbers
    <3>2. CASE total # 0 /\ total < n
      <4>1. Contiguous(Header(n)) /\ Resumable(Header(n), stack, declared_end)
        BY <1>1, <2>1, <3>1, HeaderCovers DEF Header
      <4> QED  BY <2>2, <3>2, <4>1, FailCovers
    <3>3. CASE ~(total # 0 /\ total < n)
      <4>1. PICK next \in Named("Ipv4", Ipv4Nexts) : Bounding(n, DeclaredEnd(at.offset, total), next)
        BY <2>2, <3>3
      <4>2. total \in Nat /\ (total = 0 \/ at.offset + n <= at.offset + total)
        BY <1>1, <3>1, <3>3, Numbers
      <4>3. DeclaredEnd(at.offset, total) \in Nat /\ at.offset + n <= DeclaredEnd(at.offset, total)
        BY <1>1, <1>4, <2>2, <3>1, <4>2
      <4> QED  BY <1>3, <2>1, <2>2, <3>1, <4>1, <4>3, BoundingCovers
    <3> QED  BY <3>2, <3>3
  <2> QED  BY <1>5, <2>2, FailHereCovers, TruncatedCovers DEF ParseIpv4
<1>6. CASE ParseIpv6
  <2>1. at.op = "parse"
    BY <1>6 DEF ParseIpv6, Parsing
  <2>2. ASSUME Require(at.offset, 40), NEW payload \in Lengths, NEW next \in Named("Ipv6", Ipv6Nexts),
               Bounding(40, DeclaredEnd(at.offset + 40, payload), next)
        PROVE  CoverInv'
    <3>1. payload \in Nat /\ at.offset + 40 \in Nat
          /\ (payload = 0 \/ at.offset + 40 <= (at.offset + 40) + payload)
      BY <1>1, Numbers
    <3>2. DeclaredEnd(at.offset + 40, payload) \in Nat
          /\ at.offset + 40 <= DeclaredEnd(at.offset + 40, payload)
      BY <1>4, <2>2, <3>1
    <3> QED  BY <1>3, <2>1, <2>2, <3>2, BoundingCovers
  <2> QED  BY <1>6, <2>2, TruncatedCovers DEF ParseIpv6
<1>7. CASE ParseExtHeader
  <2>1. at.op = "parse"
    BY <1>7 DEF ParseExtHeader, Parsing
  <2>2. ASSUME NEW x \in Octets, NEW next \in Named("Ipv6", Ipv6Nexts), Trusted(8 * (x + 1), next)
        PROVE  CoverInv'
    <3>1. 8 * (x + 1) \in Nat
      BY Numbers
    <3> QED  BY <1>3, <2>1, <2>2, <3>1, TrustedCovers
  <2> QED  BY <1>7, <2>2, FailHereCovers, TruncatedCovers DEF ParseExtHeader
<1>8. CASE ParseAh
  <2>1. at.op = "parse"
    BY <1>8 DEF ParseAh, Parsing
  <2>2. ASSUME NEW x \in Octets, NEW next \in Named("Ipv6", Ipv6Nexts), Trusted(4 * (x + 2), next)
        PROVE  CoverInv'
    <3>1. 4 * (x + 2) \in Nat
      BY Numbers
    <3> QED  BY <1>3, <2>1, <2>2, <3>1, TrustedCovers
  <2> QED  BY <1>8, <2>2, FailHereCovers, TruncatedCovers DEF ParseAh
<1>9. CASE ParseFrag
  BY <1>2, <1>9, TruncatedCovers, NamedCovers DEF ParseFrag, Parsing
<1>10. CASE ParseEsp
  BY <1>10, TruncatedCovers, StepCovers DEF ParseEsp, Parsing
<1> QED  BY <1>5, <1>6, <1>7, <1>8, <1>9, <1>10 DEF ParseNetwork

\* Tunnels, transports, leaves and a registered parser.
LEMMA TransportCovers == ASSUME ParseInv, CoverInv, ParseTransport PROVE CoverInv'
<1>1. /\ captured \in Nat /\ declared_end \in Nat /\ at.offset \in Nat
  BY TypesGive DEF ParseInv
<1>2. ASSUME NEW n, Truncated(n) PROVE CoverInv'
  BY <1>2, TruncatedCovers
<1>3. ASSUME at.op = "parse", NEW n \in Nat, Step(n, "none"),
             MayLeave(at.proto) \/ at.offset + n = End
      PROVE  CoverInv'
  BY <1>3, StepCovers
<1>4. ASSUME at.op = "parse", NEW n \in Nat, NEW parent, NEW dispatched \in SUBSET Protocols,
             "Llc" \notin dispatched, NEW next \in Named(parent, dispatched), Step(n, next)
      PROVE  CoverInv'
  BY <1>4, NamedCovers
<1>5. CASE ParseGre
  <2>1. at.op = "parse" /\ {"Ipv4", "Ipv6"} \in SUBSET Protocols /\ "Llc" \notin {"Ipv4", "Ipv6"}
    BY <1>5 DEF ParseGre, Parsing, Protocols
  <2>2. ASSUME NEW present \in 0 .. 3, NEW next \in Named("Gre", {"Ipv4", "Ipv6"}),
               Step(4 + 4 * present, next)
        PROVE  CoverInv'
    <3>1. 4 + 4 * present \in Nat
      OBVIOUS
    <3> QED  BY <1>4, <2>1, <2>2, <3>1
  <2> QED  BY <1>2, <1>5, <2>2 DEF ParseGre
<1>6. CASE ParseVxlan
  <2>1. at.op = "parse" /\ "Eth" \in Protocols
    BY <1>6 DEF ParseVxlan, Parsing, Protocols
  <2> QED  BY <1>2, <1>6, <2>1, StepCovers DEF ParseVxlan
<1>7. CASE ParseTcp
  <2>1. /\ at.op = "parse" /\ {"Tls"} \in SUBSET Protocols /\ {} \in SUBSET Protocols
        /\ "Llc" \notin {"Tls"}
    BY <1>7 DEF ParseTcp, Parsing, Protocols
  <2>2. ASSUME NEW offs \in Words, NEW n, n = 4 * offs, n >= 20,
               NEW next \in Named("Tcp", IF Rest(at.offset + n) >= 5 THEN {"Tls"} ELSE {}), Step(n, next)
        PROVE  CoverInv'
    <3>1. n \in Nat
      BY <2>2, Numbers
    <3> QED  BY <1>4, <2>1, <2>2, <3>1
  <2> QED  BY <1>2, <1>7, <2>2, FailHereCovers DEF ParseTcp
<1>8. CASE ParseUdp
  <2>1. /\ at.op = "parse" /\ {"Dns", "Dhcp", "Ntp", "Vxlan"} \in SUBSET Protocols
        /\ "Llc" \notin {"Dns", "Dhcp", "Ntp", "Vxlan"}
    BY <1>8 DEF ParseUdp, Parsing, Protocols
  <2> QED  BY <1>2, <1>4, <1>8, <2>1 DEF ParseUdp
<1>9. CASE ParseTls
  <2>1. /\ at.op = "parse" /\ MayLeave(at.proto)
        /\ \A length \in Lengths : 5 + length \in Nat
    BY <1>9, Numbers DEF ParseTls, Parsing, MayLeave, EndsItself
  <2> QED  BY <1>2, <1>3, <1>9, <2>1 DEF ParseTls
<1>10. CASE ParseLeaf
  <2>1. at.op = "parse" /\ at.offset <= End
    BY <1>10 DEF ParseLeaf, Parsing, ParseInv, RunsAt, End
  <2>2. Rest(at.offset) \in Nat /\ at.offset + Rest(at.offset) = End
    BY <1>1, <2>1 DEF Rest, End, RegionEnd, Least
  <2> QED  BY <1>2, <1>3, <1>10, <2>1, <2>2 DEF ParseLeaf
<1>11. CASE ParseIgmp
  <2>1. at.op = "parse" /\ MayLeave(at.proto)
    BY <1>11 DEF ParseIgmp, Parsing, MayLeave, EndsItself
  <2> QED  BY <1>2, <1>3, <1>11, <2>1 DEF ParseIgmp
<1>12. CASE ParseCustom
  <2>1. at.op = "parse" /\ MayLeave(at.proto) /\ "Ipv4" \in Protocols
    BY <1>12 DEF ParseCustom, Parsing, MayLeave, EndsItself, Protocols
  <2> QED  BY <1>2, <1>12, <2>1, StepCovers DEF ParseCustom
<1> QED  BY <1>5, <1>6, <1>7, <1>8, <1>9, <1>10, <1>11, <1>12 DEF ParseTransport

\* The pending calls that are left can be resumed as before.
LEMMA PopResumable ==
  ASSUME NEW st \in Seq(Frames), st # << >>, NEW front, front = SubSeq(st, 1, Len(st) - 1)
  PROVE  /\ front \in Seq(Frames)
         /\ \A k \in Children(front) : k \in Children(st) /\ front[k] = st[k] /\ k < Len(st)
BY Pop DEF Children

\* The end of parse_child_with: the raw layer of a failing child starts where the
\* headers before it ended.
LEMMA ReturnToParentCovers == ASSUME ParseInv, CoverInv, ReturnToParent PROVE CoverInv'
<1> DEFINE n == Len(stack)
           f == stack[n]
<1>1. /\ Types /\ Table(layers, End) /\ Calls(layers, stack, declared_end) /\ at.op = "return"
      /\ stack # << >> /\ f.kind = "child" /\ stack' = Popped
      /\ declared_end' = declared_end /\ captured' = captured
      /\ Contiguous(layers) /\ Nested(stack, declared_end)
      /\ Resumable(layers, stack, declared_end)
      /\ at.ok => Reaches(layers, Len(layers), End)
  BY DEF ParseInv, CoverInv, ReturnToParent, Top, options
<1>2. /\ captured \in Nat /\ Unbounded \in Nat /\ declared_end \in Nat
      /\ layers \in Seq(Layers) /\ stack \in Seq(Frames)
  BY <1>1, TypesGive
<1>3. End \in Nat /\ End' = End /\ End = RegionEnd(declared_end)
  BY <1>1, <1>2 DEF End, RegionEnd, Least
<1>4. /\ Popped \in Seq(Frames) /\ n \in Children(stack)
      /\ \A k \in Children(Popped) : k \in Children(stack) /\ Popped[k] = stack[k] /\ k < n
  <2>1. n \in DOMAIN stack
    BY <1>1, <1>2
  <2> QED  BY <1>1, <1>2, <2>1, PopResumable DEF Popped, Children
<1>5. Nested(Popped, declared_end)
  <2>1. Popped = SubSeq(stack, 1, Len(stack) - 1) /\ f = stack[Len(stack)]
    BY DEF Popped
  <2>2. f.kind = "child" /\ stack # << >> /\ Nested(stack, declared_end)
    BY <1>1
  <2> HIDE DEF f, n
  <2> QED  BY ONLY <1>2, <2>1, <2>2, NestedPop
<1>6. ASSUME NEW ls, Contiguous(ls), layers' = ls, at'.op = "return",
             at'.ok => Reaches(ls, Len(ls), End),
             \A k \in Children(Popped) : Reaches(ls, stack[k].checkpoint, stack[k].offset)
      PROVE  CoverInv'
  <2>1. Resumable(layers, stack, declared_end)'
    BY <1>1, <1>4, <1>6 DEF Resumable, RegionEnd
  <2> QED  BY <1>1, <1>3, <1>5, <1>6, <2>1 DEF CoverInv
<1>7. \A k \in Children(Popped) : Reaches(layers, stack[k].checkpoint, stack[k].offset)
  BY <1>1, <1>4 DEF Resumable
<1>8. CASE ~at.ok /\ fallback
  <2> DEFINE cp == f.checkpoint
             o == f.offset
             prefix == SubSeq(layers, 1, cp)
  <2>1. layers' = ParseRaw(prefix, o, End) /\ at' = Return(TRUE)
    BY <1>8 DEF ReturnToParent, Top
  <2>2. /\ cp \in Nat /\ o \in Nat /\ cp <= Len(layers)
        /\ o <= End /\ Reaches(layers, cp, o)
    BY <1>1, <1>2, <1>3, <1>4, FrameFields DEF Calls, Checkpoints, Children, Resumable
  <2> HIDE DEF cp, o
  <2>3. /\ prefix \in Seq(Layers) /\ Len(prefix) = cp /\ DOMAIN prefix = 1 .. cp
        /\ \A i \in 1 .. cp : i \in DOMAIN layers /\ prefix[i] = layers[i]
    BY <1>2, <2>2
  <2> HIDE DEF prefix
  <2>4. ASSUME NEW m, NEW x, m = 0 \/ m \in DOMAIN prefix, Reaches(layers, m, x)
        PROVE  Reaches(prefix, m, x)
    BY <2>3, <2>4 DEF Reaches
  <2>5. Contiguous(prefix)
    <3> SUFFICES ASSUME NEW i \in DOMAIN prefix PROVE Reaches(prefix, i - 1, prefix[i].offset)
      BY DEF Contiguous
    <3>1. prefix[i] = layers[i] /\ Reaches(layers, i - 1, prefix[i].offset)
      BY <1>1, <2>3 DEF Contiguous
    <3>2. i - 1 = 0 \/ i - 1 \in DOMAIN prefix
      BY <2>2, <2>3
    <3> QED  BY <2>4, <3>1, <3>2
  <2>6. Reaches(prefix, Len(prefix), o)
    <3>1. cp = 0 \/ cp \in DOMAIN prefix
      BY <2>2, <2>3
    <3> QED  BY <2>2, <2>3, <2>4, <3>1
  <2>7. /\ Contiguous(layers') /\ Reaches(layers', Len(layers'), End)
        /\ \A m, x : Reaches(prefix, m, x) => Reaches(layers', m, x)
    BY <1>2, <1>3, <2>1, <2>2, <2>3, <2>5, <2>6, RawCovers
  <2>8. ASSUME NEW k \in Children(Popped)
        PROVE  Reaches(layers', stack[k].checkpoint, stack[k].offset)
    <3>1. stack[k].checkpoint \in Nat /\ stack[k].checkpoint <= cp
      BY <1>1, <1>2, <1>4, FrameFields DEF Calls, Checkpoints, Children, cp
    <3>2. stack[k].checkpoint = 0 \/ stack[k].checkpoint \in DOMAIN prefix
      BY <2>2, <2>3, <3>1
    <3> QED  BY <1>7, <2>4, <2>7, <3>2
  <2>9. at'.op = "return"
    BY <2>1 DEF Return
  <2> QED  BY <1>6, <2>7, <2>8, <2>9
<1>9. CASE ~(~at.ok /\ fallback)
  <2>1. layers' = layers /\ at' = at
    BY <1>9 DEF ReturnToParent
  <2> QED  BY <1>1, <1>6, <1>7, <2>1
<1> QED  BY <1>8, <1>9

\* The end of an IP parser: what is behind the declared end is recorded raw.
LEMMA ReturnToIpCovers == ASSUME ParseInv, CoverInv, ReturnToIp PROVE CoverInv'
<1> DEFINE n == Len(stack)
           f == stack[n]
           outer == f.outer
           o == f.offset
<1>1. /\ Types /\ Calls(layers, stack, declared_end) /\ at.op = "return"
      /\ stack # << >> /\ f.kind = "bound" /\ stack' = Popped /\ at' = at
      /\ declared_end' = outer /\ captured' = captured
      /\ layers' = IF at.ok THEN ParseRaw(layers, o, RegionEnd(outer)) ELSE layers
      /\ Contiguous(layers) /\ Nested(stack, declared_end)
      /\ Resumable(layers, stack, declared_end)
      /\ at.ok => Reaches(layers, Len(layers), End)
  BY DEF ParseInv, CoverInv, ReturnToIp, Top, options
<1>2. /\ captured \in Nat /\ Unbounded \in Nat /\ declared_end \in Nat
      /\ layers \in Seq(Layers) /\ stack \in Seq(Frames)
  BY <1>1, TypesGive
<1>3. n \in DOMAIN stack
  BY <1>1, <1>2
<1>4. /\ Popped \in Seq(Frames)
      /\ \A k \in Children(Popped) : k \in Children(stack) /\ Popped[k] = stack[k] /\ k < n
  BY <1>1, <1>2, PopResumable DEF Popped
<1>5. declared_end = Least(outer, o) /\ Nested(Popped, outer)
  <2>1. stack[Len(stack)].kind = "bound" /\ stack # << >> /\ Nested(stack, declared_end)
    BY <1>1
  <2>2. declared_end \in Nat /\ stack \in Seq(Frames)
    BY <1>2
  <2> HIDE DEF f, n, outer, o
  <2>3. /\ declared_end = FrameEnd(stack[Len(stack)])
        /\ Nested(SubSeq(stack, 1, Len(stack) - 1), stack[Len(stack)].outer)
    BY ONLY <2>1, <2>2, PayloadOver
  <2> QED  BY <2>3 DEF FrameEnd, Popped, f, n, outer, o
<1>6. outer \in Nat /\ o \in Nat
  BY <1>2, <1>3, FrameFields
<1> HIDE DEF f, outer, o
<1>7. /\ End = Least(o, RegionEnd(outer)) /\ End \in Nat /\ RegionEnd(outer) \in Nat
      /\ End <= RegionEnd(outer) /\ End' = RegionEnd(outer)
  BY <1>1, <1>2, <1>5, <1>6 DEF End, RegionEnd, Least
<1>8. /\ Contiguous(layers') /\ \A m, x : Reaches(layers, m, x) => Reaches(layers', m, x)
      /\ at.ok => Reaches(layers', Len(layers'), RegionEnd(outer))
  <2>1. CASE at.ok /\ o <= RegionEnd(outer)
    <3>1. End = o
      BY <1>7, <2>1 DEF Least
    <3> QED  BY <1>1, <1>2, <1>6, <1>7, <2>1, <3>1, RawCovers
  <2>2. CASE at.ok /\ ~(o <= RegionEnd(outer))
    <3>1. End = RegionEnd(outer) /\ RegionEnd(outer) <= o
      BY <1>6, <1>7, <2>2 DEF Least
    <3>2. layers' = layers
      BY <1>1, <2>2, <3>1 DEF ParseRaw
    <3> QED  BY <1>1, <2>2, <3>1, <3>2
  <2>3. CASE ~at.ok
    BY <1>1, <2>3
  <2> QED  BY <2>1, <2>2, <2>3
<1>9. Resumable(layers, stack, declared_end)'
  <2> SUFFICES ASSUME NEW k \in Children(Popped)
               PROVE  /\ Popped[k].offset <= RegionEnd(outer)
                      /\ Reaches(layers', Popped[k].checkpoint, Popped[k].offset)
    BY <1>1 DEF Resumable, RegionEnd
  <2>1. k \in Children(stack) /\ Popped[k] = stack[k] /\ stack[k].offset \in Nat
    BY <1>2, <1>4, FrameFields DEF Children
  <2>2. stack[k].offset <= End /\ Reaches(layers, stack[k].checkpoint, stack[k].offset)
    BY <1>1, <2>1 DEF Resumable, End
  <2>3. Popped[k].offset <= RegionEnd(outer)
    BY <1>7, <2>1, <2>2
  <2> QED  BY <1>8, <2>1, <2>2, <2>3
<1> QED  BY <1>1, <1>5, <1>7, <1>8, <1>9 DEF CoverInv

\* The outermost parser has returned: no end but the capture's is in force.
LEMMA FinishCovers == ASSUME ParseInv, CoverInv, Finish \/ UNCHANGED vars PROVE CoverInv'
<1>1. /\ UNCHANGED << captured, max_depth, layers, declared_end, stack >>
      /\ Contiguous(layers) /\ Nested(stack, declared_end)
      /\ Resumable(layers, stack, declared_end)
  BY DEF Finish, vars, options, CoverInv
<1>2. Resumable(layers, stack, declared_end)'
  BY <1>1 DEF Resumable, RegionEnd
<1>3. CASE UNCHANGED vars
  <2>1. at' = at /\ End' = End /\ (CanPush(layers))' = CanPush(layers)
    BY <1>1, <1>3 DEF vars, End, RegionEnd, CanPush
  <2> QED  BY <1>1, <1>2, <2>1 DEF CoverInv
<1>4. CASE Finish
  <2>1. at'.op = "done" /\ at'.ok = at.ok /\ stack = << >> /\ at.op = "return"
    <3>1. at \in [op : {"start", "parse", "return", "done"}, proto : Protocols \cup {""},
                  offset : Nat, ok : BOOLEAN]
      BY DEF ParseInv, Types
    <3> QED  BY <1>4, <3>1 DEF Finish
  <2>2. End = captured
    <3>1. captured \in Nat /\ captured <= Unbounded /\ Unbounded \in Nat
      BY TypesGive DEF ParseInv
    <3>2. declared_end = Unbounded
      BY <1>1, <2>1, <3>1, NestedEmpty
    <3> QED  BY <3>1, <3>2 DEF End, RegionEnd, Least
  <2> QED  BY <1>1, <1>2, <2>1, <2>2 DEF CoverInv
<1> QED  BY <1>3, <1>4

\* Before anything is parsed nothing is covered.
LEMMA CoverInit == Init => CoverInv
<1> SUFFICES ASSUME Init PROVE CoverInv
  OBVIOUS
<1>1. Unbounded \in Nat /\ layers = << >> /\ stack = << >> /\ declared_end = Unbounded
      /\ at.op = "start"
  <2>1. /\ layers = << >> /\ stack = << >> /\ declared_end = Unbounded
        /\ at = [op |-> "start", proto |-> "", offset |-> 0, ok |-> TRUE]
    BY DEF Init
  <2>2. at.op = "start"
    BY <2>1
  <2>3. Unbounded \in Nat
    BY ParseEngineAssumption
  <2> QED  BY ONLY <2>1, <2>2, <2>3
<1>2. DOMAIN << >> = {}
  OBVIOUS
<1>3. Nested(stack, declared_end)
  BY <1>1, NestedEmpty
<1> QED  BY <1>1, <1>2, <1>3 DEF CoverInv, Contiguous, Resumable, Children

\* Every step of a parse keeps the second invariant.
LEMMA CoverStep == ParseInv /\ CoverInv /\ [Next]_vars => CoverInv'
<1> SUFFICES ASSUME ParseInv, CoverInv, [Next]_vars PROVE CoverInv'
  OBVIOUS
<1> QED
  BY StartCovers, LinkCovers, NetworkCovers, TransportCovers, ReturnToParentCovers,
     ReturnToIpCovers, FinishCovers DEF Next, Returns, Returned

\* A finished parse accounts for every byte (try_parse, parse_child_with, parse_raw
\* and the trailers of v4.rs and v6.rs): bytes are in no layer only behind a
\* protocol that ends itself, and what LLC without SNAP leaves undecoded.
THEOREM NoByteIsLost == Spec => []GapsOnlyBehindLeaves
<1>1. ParseInv /\ CoverInv => GapsOnlyBehindLeaves
  <2> SUFFICES ASSUME ParseInv, CoverInv, at.op = "done", at.ok, layers # << >>
               PROVE  /\ layers[1].offset = 0
                      /\ \A i \in DOMAIN layers :
                           LET next == IF i = Len(layers) THEN captured ELSE layers[i + 1].offset IN
                           \/ Past(layers[i]) = next
                           \/ layers[i].proto \in EndsItself
                           \/ layers[i].proto \in {"Eth", "Vlan"} /\ "Llc" \in Known
    BY DEF GapsOnlyBehindLeaves
  <2>1. /\ layers \in Seq(Layers) /\ DOMAIN layers = 1 .. Len(layers) /\ Len(layers) \in Nat
        /\ Len(layers) >= 1
    <3>1. layers \in Seq(Layers)
      BY TypesGive DEF ParseInv
    <3> QED  BY <3>1
  <2>2. Contiguous(layers) /\ Reaches(layers, Len(layers), captured)
    BY DEF CoverInv
  <2>3. layers[1].offset = 0
    <3>1. Reaches(layers, 1 - 1, layers[1].offset)
      BY <2>1, <2>2 DEF Contiguous
    <3> QED  BY <2>1, <3>1 DEF Reaches
  <2>4. ASSUME NEW i \in DOMAIN layers, i # Len(layers)
        PROVE  Past(layers[i]) = layers[i + 1].offset \/ MayLeave(layers[i].proto)
    <3>1. i + 1 \in DOMAIN layers /\ (i + 1) - 1 = i /\ i # 0
      BY <2>1, <2>4
    <3>2. Reaches(layers, i, layers[i + 1].offset)
      BY <2>2, <3>1 DEF Contiguous
    <3> QED  BY <3>1, <3>2 DEF Reaches
  <2>5. Past(layers[Len(layers)]) = captured \/ MayLeave(layers[Len(layers)].proto)
    BY <2>1, <2>2 DEF Reaches
  <2> QED  BY <2>3, <2>4, <2>5 DEF MayLeave
<1> QED
  BY <1>1, ParseInvariant, CoverInit, CoverStep, PTL DEF Spec

-----------------------------------------------------------------------------
(* A header that was cut off ends the chain: a third invariant.  While     *)
(* parsers run no layer is cut off, and the end in force is a declared one *)
(* of the table; a header that is cut off is followed by returns only.     *)

\* CutHeadersEndTheChain of a table whose capture ends at c.
CutEnds(ls, c) ==
  \A i \in DOMAIN ls : CutOff(ls[i]) =>
    /\ \/ Past(ls[i]) = c
       \/ \E j \in DOMAIN ls : j < i /\ ls[j].declares = Past(ls[i])
    /\ \A j \in DOMAIN ls : i < j => IsRaw(ls[j])

Whole(ls) == \A i \in DOMAIN ls : ~CutOff(ls[i])
Declared(ls, de) == de = Unbounded \/ \E j \in DOMAIN ls : ls[j].declares = de

ChainInv ==
  /\ CutEnds(layers, captured)
  /\ at.op \in {"start", "parse"} => Whole(layers) /\ Declared(layers, declared_end)

\* A raw layer at the end is no header, and may be behind one that was cut off.
LEMMA RawChain ==
  ASSUME NEW ls \in Seq(Layers), NEW o \in Nat, NEW end \in Nat, NEW c, CutEnds(ls, c)
  PROVE  CutEnds(ParseRaw(ls, o, end), c)
<1> DEFINE raw == Layer("Raw", o, end - o, Unbounded)
           more == Append(ls, raw)
<1>1. CASE ParseRaw(ls, o, end) = ls
  BY <1>1
<1>2. CASE ~(end <= o) /\ ParseRaw(ls, o, end) = more
  <2>1. raw \in Layers /\ IsRaw(raw) /\ ~CutOff(raw)
    <3>1. end - o \in Nat /\ Unbounded \in Nat
      BY <1>2, ParseEngineAssumption
    <3>2. raw \in Layers /\ raw.proto = "Raw"
      BY <3>1 DEF Layer, Layers
    <3> QED  BY <3>2 DEF IsRaw, CutOff, ExtHeaders
  <2> HIDE DEF raw
  <2>2. /\ Len(ls) \in Nat /\ DOMAIN ls = 1 .. Len(ls) /\ DOMAIN more = 1 .. Len(ls) + 1
        /\ \A i \in DOMAIN ls : more[i] = ls[i]
        /\ more[Len(ls) + 1] = raw
    BY <2>1
  <2> HIDE DEF more
  <2>3. DOMAIN ls \subseteq DOMAIN more
    BY <2>2
  <2>4. ASSUME NEW i \in DOMAIN more, CutOff(more[i])
        PROVE  /\ \/ Past(more[i]) = c
                  \/ \E j \in DOMAIN more : j < i /\ more[j].declares = Past(more[i])
               /\ \A j \in DOMAIN more : i < j => IsRaw(more[j])
    <3>1. i \in DOMAIN ls /\ more[i] = ls[i]
      BY <2>1, <2>2, <2>4
    <3>2. /\ \/ Past(ls[i]) = c
             \/ \E j \in DOMAIN ls : j < i /\ ls[j].declares = Past(ls[i])
          /\ \A j \in DOMAIN ls : i < j => IsRaw(ls[j])
      BY <2>4, <3>1 DEF CutEnds
    <3>3. \/ Past(more[i]) = c
          \/ \E j \in DOMAIN more : j < i /\ more[j].declares = Past(more[i])
      BY <2>2, <2>3, <3>1, <3>2
    <3>4. ASSUME NEW j \in DOMAIN more, i < j PROVE IsRaw(more[j])
      BY <2>1, <2>2, <3>2, <3>4
    <3> QED  BY <3>3, <3>4
  <2> QED  BY <1>2, <2>4 DEF CutEnds
<1> QED  BY <1>1, <1>2 DEF ParseRaw

\* parse_child, parse_raw or a plain return: a child only behind whole headers.
LEMMA IntoChain ==
  ASSUME captured \in Nat, NEW ls \in Seq(Layers), NEW de \in Nat, NEW o \in Nat, NEW st, NEW next,
         CutEnds(ls, captured),
         next \notin {"raw", "none"} /\ CanPush(ls) => Whole(ls) /\ Declared(ls, de),
         Into(next, o, ls, st, de)
  PROVE  ChainInv'
<1>1. declared_end' = de /\ captured' = captured
  BY DEF Into, options
<1>2. CASE next \notin {"raw", "none"} /\ CanPush(ls)
  <2>1. layers' = ls
    BY <1>2 DEF Into
  <2> QED  BY <1>1, <1>2, <2>1 DEF ChainInv
<1>3. CASE ~(next \notin {"raw", "none"} /\ CanPush(ls))
  <2>1. /\ layers' = IF next = "none" THEN ls ELSE ParseRaw(ls, o, RegionEnd(de))
        /\ at' = Return(TRUE)
    BY <1>3 DEF Into
  <2>2. at'.op = "return"
    BY <2>1 DEF Return
  <2>3. RegionEnd(de) \in Nat
    BY DEF RegionEnd, Least
  <2>4. CutEnds(layers', captured)
    BY <2>1, <2>3, RawChain
  <2> QED  BY <1>1, <2>2, <2>4 DEF ChainInv
<1> QED  BY <1>2, <1>3

\* A header that is pushed, or left out behind the depth limit.
LEMMA HeaderChain ==
  ASSUME ParseInv, ChainInv, at.op = "parse", NEW n \in Nat, NEW d \in Nat,
         NEW l, l = Layer(at.proto, at.offset, n, d), NEW ls, ls = PushLayer(layers, l)
  PROVE  /\ ls \in Seq(Layers) /\ Declared(ls, declared_end)
         /\ CanPush(ls) => Declared(ls, d)
         /\ ~CutOff(l) => Whole(ls) /\ CutEnds(ls, captured)
         /\ Past(l) = End => CutEnds(ls, captured)
<1>1. /\ layers \in Seq(Layers) /\ at.proto \in Protocols /\ at.offset \in Nat
      /\ captured \in Nat /\ captured <= Unbounded /\ Unbounded \in Nat /\ declared_end \in Nat
      /\ declared_end <= Unbounded
  BY TypesGive DEF ParseInv
<1>2. Whole(layers) /\ Declared(layers, declared_end) /\ CutEnds(layers, captured)
  BY DEF ChainInv
<1>3. l \in Layers /\ l.declares = d
  BY <1>1 DEF Layer, Layers
<1>4. CASE ~CanPush(layers)
  <2>1. ls = layers
    BY <1>4 DEF PushLayer
  <2> QED  BY <1>1, <1>2, <1>4, <2>1
<1>5. CASE CanPush(layers)
  <2>1. ls = Append(layers, l)
    BY <1>5 DEF PushLayer
  <2>2. /\ ls \in Seq(Layers)
        /\ Len(layers) \in Nat /\ DOMAIN layers = 1 .. Len(layers) /\ DOMAIN ls = 1 .. Len(layers) + 1
        /\ \A i \in DOMAIN layers : i \in DOMAIN ls /\ ls[i] = layers[i]
        /\ ls[Len(layers) + 1] = l
    BY <1>1, <1>3, <2>1
  <2>3. \A e : Declared(layers, e) => Declared(ls, e)
    BY <2>2 DEF Declared
  <2>4. Declared(ls, d)
    BY <1>3, <2>2 DEF Declared
  <2>5. \A i \in DOMAIN ls : CutOff(ls[i]) => i = Len(layers) + 1 /\ CutOff(l)
    BY <1>2, <2>2 DEF Whole
  <2>6. ASSUME Past(l) = End PROVE CutEnds(ls, captured)
    <3>1. \/ End = captured
          \/ End = declared_end /\ declared_end # Unbounded
      BY <1>1 DEF End, RegionEnd, Least
    <3>2. \/ Past(l) = captured
          \/ \E j \in DOMAIN layers : layers[j].declares = Past(l)
      BY <1>2, <2>6, <3>1 DEF Declared
    <3>3. \/ Past(l) = captured
          \/ \E j \in DOMAIN ls : j < Len(layers) + 1 /\ ls[j].declares = Past(l)
      BY <2>2, <3>2
    <3>4. \A j \in DOMAIN ls : ~(Len(layers) + 1 < j)
      BY <2>2
    <3> QED  BY <2>2, <2>5, <3>3, <3>4 DEF CutEnds
  <2>7. ASSUME ~CutOff(l) PROVE Whole(ls) /\ CutEnds(ls, captured)
    BY <2>5, <2>7 DEF Whole, CutEnds
  <2> QED  BY <1>2, <2>2, <2>3, <2>4, <2>6, <2>7
<1> QED  BY <1>4, <1>5

\* A header and what follows it, which is raw when the header ends with its region.
LEMMA StepChain ==
  ASSUME ParseInv, ChainInv, at.op = "parse", NEW n \in Nat, NEW next, Step(n, next),
         \/ ~CutOff(Layer(at.proto, at.offset, n, Unbounded))
         \/ at.offset + n = End /\ next = "raw"
  PROVE  ChainInv'
<1> DEFINE l == Layer(at.proto, at.offset, n, Unbounded)
           ls == Header(n)
           o == at.offset + n
<1>1. captured \in Nat /\ Unbounded \in Nat /\ declared_end \in Nat /\ at.offset \in Nat
  BY TypesGive DEF ParseInv
<1>2. o \in Nat /\ Into(next, o, ls, stack, declared_end) /\ ls = PushLayer(layers, l)
  BY <1>1 DEF Step, Header
<1>3. Past(l) = o
  BY DEF Past, Layer
<1> HIDE DEF l, ls, o
<1>4. /\ ls \in Seq(Layers) /\ Declared(ls, declared_end)
      /\ ~CutOff(l) => Whole(ls) /\ CutEnds(ls, captured)
      /\ Past(l) = End => CutEnds(ls, captured)
  BY <1>1, <1>2, HeaderChain DEF l
<1>5. CutEnds(ls, captured) /\ (next # "raw" => Whole(ls))
  BY <1>3, <1>4 DEF l, o
<1> QED  BY <1>1, <1>2, <1>4, <1>5, IntoChain

\* Only extension headers are cut off.
LEMMA PlainStepChain ==
  ASSUME ParseInv, ChainInv, at.op = "parse", at.proto \notin DOMAIN ExtHeaders,
         NEW n \in Nat, NEW next, Step(n, next)
  PROVE  ChainInv'
<1>1. ~CutOff(Layer(at.proto, at.offset, n, Unbounded))
  BY DEF CutOff, Layer
<1> QED  BY <1>1, StepChain

\* Err(_), with whole headers in the table.
LEMMA FailChain ==
  ASSUME NEW ls, CutEnds(ls, captured), Fail(ls)
  PROVE  ChainInv'
<1>1. layers' = ls /\ captured' = captured /\ at' = Return(FALSE)
  BY DEF Fail, options
<1>2. at'.op = "return"
  BY <1>1 DEF Return
<1> QED  BY <1>1, <1>2 DEF ChainInv

LEMMA FailHereChain ==
  ASSUME ChainInv, Fail(layers)
  PROVE  ChainInv'
BY FailChain DEF ChainInv

LEMMA TruncatedChain ==
  ASSUME ChainInv, NEW n, Truncated(n)
  PROVE  ChainInv'
BY FailHereChain DEF Truncated

\* An IP header and the payload it bounds: the end in force is the one it declares.
LEMMA BoundingChain ==
  ASSUME ParseInv, ChainInv, at.op = "parse", at.proto \notin DOMAIN ExtHeaders,
         NEW n \in Nat, NEW end \in Nat, NEW next, Bounding(n, end, next)
  PROVE  ChainInv'
<1> DEFINE inner == Least(declared_end, end)
           l == Layer(at.proto, at.offset, n, inner)
           ls == PushLayer(layers, l)
           o == at.offset + n
           st == Append(stack, BoundFrame(declared_end, end))
<1>1. captured \in Nat /\ declared_end \in Nat /\ at.offset \in Nat /\ inner \in Nat
  <2>1. captured \in Nat /\ declared_end \in Nat /\ at.offset \in Nat
    BY TypesGive DEF ParseInv
  <2> QED  BY <2>1 DEF Least
<1>2. o \in Nat /\ Into(next, o, ls, st, inner)
  BY <1>1 DEF Bounding
<1>3. ~CutOff(l)
  BY DEF CutOff, Layer
<1> HIDE DEF inner, o, st
<1>4. /\ ls \in Seq(Layers) /\ Whole(ls) /\ CutEnds(ls, captured)
      /\ CanPush(ls) => Declared(ls, inner)
  BY <1>1, <1>3, HeaderChain
<1> HIDE DEF l, ls
<1> QED  BY <1>1, <1>2, <1>4, IntoChain

\* An extension header that covers its fixed part, as far as its region reaches.
LEMMA TrustedChain ==
  ASSUME ParseInv, ChainInv, at.op = "parse", NEW declared \in Nat, NEW next,
         at.proto \in DOMAIN ExtHeaders => declared >= ExtHeaders[at.proto],
         Trusted(declared, next)
  PROVE  ChainInv'
<1> DEFINE n == Least(declared, Rest(at.offset))
           then == IF Rest(at.offset + n) = 0 THEN "raw" ELSE next
<1>1. captured \in Nat /\ declared_end \in Nat /\ at.offset \in Nat /\ at.offset <= End
  BY TypesGive DEF ParseInv, RunsAt, End
<1>2. /\ End \in Nat /\ Rest(at.offset) = End - at.offset /\ n \in Nat
      /\ n = declared \/ at.offset + n = End
  BY <1>1 DEF End, RegionEnd, Least, Rest
<1>3. Step(n, then)
  BY DEF Trusted
<1>4. CASE n = declared
  <2>1. ~CutOff(Layer(at.proto, at.offset, n, Unbounded))
    <3>1. at.proto \in DOMAIN ExtHeaders => ExtHeaders[at.proto] \in Nat
      BY DEF ExtHeaders
    <3>2. at.proto \in DOMAIN ExtHeaders => ~(n < ExtHeaders[at.proto])
      BY <1>2, <1>4, <3>1
    <3> QED  BY <3>2 DEF CutOff, Layer
  <2> HIDE DEF n, then
  <2> QED  BY <1>2, <1>3, <2>1, StepChain
<1>5. CASE at.offset + n = End
  <2>1. then = "raw"
    BY <1>2, <1>5 DEF Rest, Least
  <2> HIDE DEF n, then
  <2> QED  BY <1>2, <1>3, <1>5, <2>1, StepChain
<1> QED  BY <1>2, <1>4, <1>5

\* try_parse, and the link types without a parser.
LEMMA StartChain == ASSUME ParseInv, ChainInv, TryParseWithLinkType PROVE ChainInv'
<1>1. /\ at.op = "start" /\ captured' = captured /\ declared_end' = declared_end
      /\ captured \in Nat /\ declared_end \in Nat /\ layers \in Seq(Layers)
      /\ CutEnds(layers, captured) /\ Whole(layers) /\ Declared(layers, declared_end)
  BY TypesGive DEF ParseInv, ChainInv, TryParseWithLinkType, TryParse, Root, RawLink,
                   UnsupportedLink, options
<1>2. CASE layers' = layers
  BY <1>1, <1>2 DEF ChainInv
<1>3. CASE RawLink
  <2>1. layers' = ParseRaw(layers, 0, End) /\ at'.op = "done" /\ End \in Nat
    BY <1>1, <1>3 DEF RawLink, Done, Return, End, RegionEnd, Least
  <2>2. CutEnds(layers', captured)
    BY <1>1, <2>1, RawChain
  <2> QED  BY <1>1, <2>1, <2>2 DEF ChainInv
<1> QED  BY <1>2, <1>3 DEF TryParseWithLinkType, TryParse, Root, UnsupportedLink

LEMMA LinkChain == ASSUME ParseInv, ChainInv, ParseLink PROVE ChainInv'
<1>1. at.op = "parse" /\ at.proto \notin DOMAIN ExtHeaders
  BY DEF ParseLink, ParseEth, ParseVlan, ParseSll, ParseLlc, ParseMpls, ParseArp, Parsing, ExtHeaders
<1>2. CASE ParseEth \/ ParseVlan \/ ParseSll
  BY <1>1, <1>2, TruncatedChain, PlainStepChain DEF ParseEth, ParseVlan, ParseSll
<1>3. CASE ParseLlc
  <2>1. CASE Into("none", at.offset, layers, stack, declared_end)
    <3>1. /\ captured \in Nat /\ declared_end \in Nat /\ at.offset \in Nat /\ layers \in Seq(Layers)
          /\ CutEnds(layers, captured)
      BY TypesGive DEF ParseInv, ChainInv
    <3> QED  BY <2>1, <3>1, IntoChain
  <2> QED  BY <1>1, <1>3, <2>1, TruncatedChain, PlainStepChain DEF ParseLlc
<1>4. CASE ParseMpls
  <2>1. \A k \in 1 .. MaxLabels : 4 * k \in Nat
    BY Numbers
  <2> QED  BY <1>1, <1>4, <2>1, FailHereChain, PlainStepChain DEF ParseMpls
<1>5. CASE ParseArp
  <2>1. \A hlen, plen \in Octets : 8 + 2 * hlen + 2 * plen \in Nat
    BY Numbers
  <2> QED  BY <1>1, <1>5, <2>1, TruncatedChain, PlainStepChain DEF ParseArp
<1> QED  BY <1>2, <1>3, <1>4, <1>5 DEF ParseLink

\* IP, and the extension headers.
LEMMA NetworkChain == ASSUME ParseInv, ChainInv, ParseNetwork PROVE ChainInv'
<1>1. at.op = "parse" /\ at.offset \in Nat /\ Unbounded \in Nat
  BY TypesGive DEF ParseInv, ParseNetwork, ParseIpv4, ParseIpv6, ParseExtHeader, ParseAh,
                   ParseFrag, ParseEsp, Parsing
<1>2. \A o \in Nat, length \in Lengths : DeclaredEnd(o, length) \in Nat
  BY <1>1, Numbers DEF DeclaredEnd
<1>3. CASE ParseIpv4
  <2>1. at.proto \notin DOMAIN ExtHeaders
    BY <1>3 DEF ParseIpv4, Parsing, ExtHeaders
  <2>2. ASSUME NEW n \in Nat, Fail(Header(n)) PROVE ChainInv'
    <3>1. ~CutOff(Layer(at.proto, at.offset, n, Unbounded))
      BY <2>1 DEF CutOff, Layer
    <3>2. CutEnds(Header(n), captured)
      BY <1>1, <3>1, HeaderChain DEF Header
    <3> QED  BY <2>2, <3>2, FailChain
  <2>3. ASSUME NEW n \in Nat, NEW total \in Lengths, NEW next,
               Bounding(n, DeclaredEnd(at.offset, total), next)
        PROVE  ChainInv'
    BY <1>1, <1>2, <2>1, <2>3, BoundingChain
  <2>4. \A ihl \in Words : 4 * ihl \in Nat
    BY Numbers
  <2> QED  BY <1>3, <2>2, <2>3, <2>4, FailHereChain, TruncatedChain DEF ParseIpv4
<1>4. CASE ParseIpv6
  <2>1. at.proto \notin DOMAIN ExtHeaders /\ at.offset + 40 \in Nat
    BY <1>1, <1>4 DEF ParseIpv6, Parsing, ExtHeaders
  <2>2. ASSUME NEW payload \in Lengths, NEW next,
               Bounding(40, DeclaredEnd(at.offset + 40, payload), next)
        PROVE  ChainInv'
    BY <1>1, <1>2, <2>1, <2>2, BoundingChain
  <2> QED  BY <1>4, <2>2, TruncatedChain DEF ParseIpv6
<1>5. CASE ParseExtHeader
  <2>1. ASSUME NEW x \in Octets, NEW next, ~(8 * (x + 1) < ExtHeaders[at.proto]),
               at.proto \in DOMAIN ExtHeaders, Trusted(8 * (x + 1), next)
        PROVE  ChainInv'
    <3>1. 8 * (x + 1) \in Nat /\ ExtHeaders[at.proto] \in Nat
      BY <2>1, Numbers DEF ExtHeaders
    <3>2. 8 * (x + 1) >= ExtHeaders[at.proto]
      BY <2>1, <3>1
    <3> QED  BY <1>1, <2>1, <3>1, <3>2, TrustedChain
  <2> QED  BY <1>5, <2>1, FailHereChain, TruncatedChain DEF ParseExtHeader, Parsing
<1>6. CASE ParseAh
  <2>1. at.proto \notin DOMAIN ExtHeaders /\ \A x \in Octets : 4 * (x + 2) \in Nat
    BY <1>6, Numbers DEF ParseAh, Parsing, ExtHeaders
  <2> QED  BY <1>1, <1>6, <2>1, FailHereChain, TruncatedChain, TrustedChain DEF ParseAh
<1>7. CASE ParseFrag \/ ParseEsp
  <2>1. at.proto \notin DOMAIN ExtHeaders
    BY <1>7 DEF ParseFrag, ParseEsp, Parsing, ExtHeaders
  <2> QED  BY <1>1, <1>7, <2>1, TruncatedChain, PlainStepChain DEF ParseFrag, ParseEsp
<1> QED  BY <1>3, <1>4, <1>5, <1>6, <1>7 DEF ParseNetwork

LEMMA TransportChain == ASSUME ParseInv, ChainInv, ParseTransport PROVE ChainInv'
<1>1. at.op = "parse" /\ at.proto \notin DOMAIN ExtHeaders
  BY DEF ParseTransport, ParseGre, ParseVxlan, ParseTcp, ParseUdp, ParseTls, ParseLeaf, ParseIgmp,
         ParseCustom, Parsing, ExtHeaders, LeafMin
<1>2. ASSUME NEW n \in Nat, NEW next, Step(n, next) PROVE ChainInv'
  BY <1>1, <1>2, PlainStepChain
<1>3. CASE ParseGre
  <2>1. \A present \in 0 .. 3 : 4 + 4 * present \in Nat
    OBVIOUS
  <2> QED  BY <1>2, <1>3, <2>1, TruncatedChain DEF ParseGre
<1>4. CASE ParseVxlan \/ ParseUdp \/ ParseIgmp \/ ParseCustom
  BY <1>2, <1>4, TruncatedChain DEF ParseVxlan, ParseUdp, ParseIgmp, ParseCustom
<1>5. CASE ParseTcp
  <2>1. \A offs \in Words : 4 * offs \in Nat
    BY Numbers
  <2> QED  BY <1>2, <1>5, <2>1, FailHereChain, TruncatedChain DEF ParseTcp
<1>6. CASE ParseTls
  <2>1. \A length \in Lengths : 5 + length \in Nat
    BY Numbers
  <2> QED  BY <1>2, <1>6, <2>1, TruncatedChain DEF ParseTls
<1>7. CASE ParseLeaf
  <2>1. Rest(at.offset) \in Nat
    <3>1. captured \in Nat /\ declared_end \in Nat /\ at.offset \in Nat
      BY TypesGive DEF ParseInv
    <3> QED  BY <3>1 DEF Rest, End, RegionEnd, Least
  <2> QED  BY <1>2, <1>7, <2>1, TruncatedChain DEF ParseLeaf
<1> QED  BY <1>3, <1>4, <1>5, <1>6, <1>7 DEF ParseTransport

\* Returns take layers back to a beginning of the table, or add raw ones.
LEMMA ReturnChain == ASSUME ParseInv, ChainInv, ReturnToParent \/ ReturnToIp PROVE ChainInv'
<1>1. /\ captured \in Nat /\ declared_end \in Nat /\ layers \in Seq(Layers) /\ stack \in Seq(Frames)
      /\ at.op = "return" /\ stack # << >> /\ captured' = captured
      /\ CutEnds(layers, captured) /\ Calls(layers, stack, declared_end)
  BY TypesGive DEF ParseInv, ChainInv, ReturnToParent, ReturnToIp, options
<1>2. /\ Len(stack) \in DOMAIN stack
      /\ Top.checkpoint \in Nat /\ Top.offset \in Nat /\ Top.outer \in Nat
  <2>1. Len(stack) \in DOMAIN stack
    BY <1>1
  <2> QED  BY <1>1, <2>1, FrameFields DEF Top
<1>3. /\ at'.op = "return"
      /\ layers' = layers
         \/ \E ls \in Seq(Layers), o, end \in Nat :
              CutEnds(ls, captured) /\ layers' = ParseRaw(ls, o, end)
  <2>1. CASE ReturnToParent /\ ~at.ok /\ fallback
    <3> DEFINE cp == Top.checkpoint
               prefix == SubSeq(layers, 1, cp)
    <3>1. layers' = ParseRaw(prefix, Top.offset, End) /\ at' = Return(TRUE)
      BY <2>1 DEF ReturnToParent
    <3>2. cp \in Nat /\ cp <= Len(layers)
      <4>1. Len(stack) \in Children(stack)
        BY <1>2, <2>1 DEF ReturnToParent, Top, Children
      <4> QED  BY <1>1, <1>2, <4>1 DEF Calls, Checkpoints, Top
    <3> HIDE DEF cp
    <3>3. /\ prefix \in Seq(Layers) /\ DOMAIN prefix = 1 .. cp
          /\ \A i \in 1 .. cp : i \in DOMAIN layers /\ prefix[i] = layers[i]
      BY <1>1, <3>2
    <3> HIDE DEF prefix
    <3>4. CutEnds(prefix, captured)
      <4> SUFFICES ASSUME NEW i \in DOMAIN prefix, CutOff(prefix[i])
                   PROVE  /\ \/ Past(prefix[i]) = captured
                             \/ \E j \in DOMAIN prefix : j < i /\ prefix[j].declares = Past(prefix[i])
                          /\ \A j \in DOMAIN prefix : i < j => IsRaw(prefix[j])
        BY DEF CutEnds
      <4>1. i \in DOMAIN layers /\ layers[i] = prefix[i] /\ i \in 1 .. cp
        BY <3>3
      <4>2. /\ \/ Past(layers[i]) = captured
               \/ \E j \in DOMAIN layers : j < i /\ layers[j].declares = Past(layers[i])
            /\ \A j \in DOMAIN layers : i < j => IsRaw(layers[j])
        BY <1>1, <4>1 DEF CutEnds
      <4>3. \A j \in DOMAIN layers : j < i => j \in DOMAIN prefix /\ prefix[j] = layers[j]
        BY <1>1, <3>2, <3>3, <4>1
      <4> QED  BY <3>3, <4>1, <4>2, <4>3
    <3>5. End \in Nat /\ at'.op = "return"
      BY <1>1, <3>1 DEF End, RegionEnd, Least, Return
    <3> QED  BY <1>2, <3>1, <3>3, <3>4, <3>5
  <2>2. CASE ReturnToParent /\ ~(~at.ok /\ fallback)
    BY <1>1, <2>2 DEF ReturnToParent
  <2>3. CASE ReturnToIp
    <3>1. RegionEnd(Top.outer) \in Nat
      BY <1>1, <1>2 DEF RegionEnd, Least
    <3>2. at' = at /\ layers' = IF at.ok THEN ParseRaw(layers, Top.offset, RegionEnd(Top.outer)) ELSE layers
      BY <2>3 DEF ReturnToIp
    <3> QED  BY <1>1, <1>2, <3>1, <3>2
  <2> QED  BY <2>1, <2>2, <2>3
<1>4. CutEnds(layers', captured)
  BY <1>1, <1>3, RawChain
<1> QED  BY <1>1, <1>3, <1>4 DEF ChainInv

LEMMA FinishChain == ASSUME ParseInv, ChainInv, Finish \/ UNCHANGED vars PROVE ChainInv'
<1>1. UNCHANGED << captured, layers, declared_end >>
  BY DEF Finish, vars, options
<1>2. at' = at \/ at'.op = "done"
  <2>1. at \in [op : {"start", "parse", "return", "done"}, proto : Protocols \cup {""},
                offset : Nat, ok : BOOLEAN]
    BY DEF ParseInv, Types
  <2> QED  BY <2>1 DEF Finish, vars
<1> QED  BY <1>1, <1>2 DEF ChainInv

\* An extension header without all of its fixed part (header.rs, parse_ext_header) ends
\* where the capture or a payload around it does, and nothing is decoded behind it.
THEOREM CutHeadersAreLast == Spec => []CutHeadersEndTheChain
<1>1. Init => ChainInv
  <2> SUFFICES ASSUME Init PROVE ChainInv
    OBVIOUS
  <2>1. layers = << >> /\ declared_end = Unbounded
    BY DEF Init
  <2>2. DOMAIN layers = {}
    BY <2>1
  <2> QED  BY <2>1, <2>2 DEF ChainInv, CutEnds, Whole, Declared
<1>2. ParseInv /\ ChainInv /\ [Next]_vars => ChainInv'
  BY StartChain, LinkChain, NetworkChain, TransportChain, ReturnChain, FinishChain
     DEF Next, Returns, Returned
<1>3. ChainInv => CutHeadersEndTheChain
  BY DEF ChainInv, CutEnds, CutHeadersEndTheChain
<1> QED
  BY <1>1, <1>2, <1>3, ParseInvariant, PTL DEF Spec

\* However headers nest, fail and are taken back (ParseContext::parse_child_with),
\* the table lists layers from the outside in, inside the capture and the depth, and
\* nothing behind a header that was cut off.
THEOREM LayersStayInOrder == Spec => []LayersInOrder
<1>1. ParseInv /\ CutHeadersEndTheChain => LayersInOrder
  <2> SUFFICES ASSUME ParseInv, CutHeadersEndTheChain PROVE LayersInOrder
    OBVIOUS
  <2>1. captured \in Nat /\ declared_end \in Nat /\ layers \in Seq(Layers) /\ Table(layers, End)
    BY TypesGive DEF ParseInv
  <2>2. \A i \in DOMAIN layers : Past(layers[i]) <= captured
    <3> SUFFICES ASSUME NEW i \in DOMAIN layers PROVE Past(layers[i]) <= captured
      OBVIOUS
    <3>1. Past(layers[i]) \in Nat /\ Past(layers[i]) <= End /\ End \in Nat /\ End <= captured
      BY <2>1, LayerFields DEF Table, End, RegionEnd, Least
    <3> QED
      BY <2>1, <3>1
  <2> QED
    BY <2>1, <2>2 DEF LayersInOrder, Table
<1> QED
  BY <1>1, ParseInvariant, CutHeadersAreLast, PTL

=============================================================================
