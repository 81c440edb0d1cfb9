# A TLA+ verification of maja and its capture tools

`maja` is a Rust crate that parses, views and crafts network packets and reads and
writes capture files; the workspace adds command line tools on top of it. This
directory models the parts of it whose correctness depends on the order of many steps
or on many values at once:

- `maja-mergecap`: the k-way merge, the timeline its readers put packets on, its rounds
  over temporary files, the allocation of mapped addresses, the rewriting of packets;
- the capture readers with the loop of `maja-capinfo`, `maja-reordercap`,
  `maja-splitcap` and `maja-cicflowmeter`;
- the packet library: the parse engine with the parsers of all protocols, the fields
  and option lists of their headers, crafting and checksums.

TLC checks the models on small instances. TLAPS proves, for every value of the constants,
the safety of the merge and of the timeline its readers follow, the promises of the flow
map, that the two capture readers agree and that capinfo reports what they deliver, the
output and the report of reordercap, the files of splitcap, the rows of cicflowmeter, the
layer table of the parse engine, the fields and items of headers, and that crafting fails
before it allocates (section 4).

Paths below are relative to the repository's root.

## 1. Inventory of the system

| component | state it keeps | operations | interacts with |
|---|---|---|---|
| k-way merge (`tools/maja-mergecap/src/main.rs`, `pull`, `merge_batches`) | heap, `in_flight`, `lower_bound` per reader | pop, pull, refill sweep, put back, emit | pulls `PacketReader`s, calls `PcapWriter` |
| `PacketReader` (same file) | open reader, finished passes, first and last timestamps of the pass | `next`: packet, read error, end of file, reopen | capture readers, `Rewriter` |
| `merge`, `merge_impl` (same file) | files of the round, temporary captures | one pass, batch, next round | `PacketReader`, merge, pcap writer and reader |
| `flow_map` (`map/flow.rs`, `entry.rs`, `pool.rs`, `packet.rs`) | allocation tables, walks, cache of datagrams | rewrite a packet of a group | shared by the files of a run (`MapRuntime`) |
| `Rewriter`, direct maps, checksums (`map.rs`, `map/entry.rs`, `map/packet.rs`) | a random generator | rewrite addresses, repair checksums | packet layers, `flow_map` |
| configuration (`config.rs`) | none | validation, merging of argument and file settings | all of mergecap |
| `maja-reordercap` | index of the packets, sections | scan, stable sort, write back | slice readers |
| `maja-splitcap` | flow table, open writers | one-pass and two-pass split | readers, parser, writer |
| `maja-cicflowmeter` | flow table, statistics per flow, output per input | add a packet, time out, close, finish | readers, parser |
| `maja-capinfo` | running statistics, interval buckets, hash thread | count packets, report, export | readers, parser |
| pcap and pcapng readers and writer (`src/capture`) | position or stream, section, interfaces | next block, next packet, write packet | files |
| parse engine (`src/packet.rs`) | layers, declared end, depth, Rust call stack | parse, dispatch to a child, fall back to raw | protocol parsers |
| protocol layers (`src/packet/layer`) | none; iterators keep an offset | parse, view and set header fields, walk options | parse engine |
| crafting, checksums (`src/packet/craft.rs`, `src/packet/utils`) | plans, byte buffer, offsets | measure and write a stack of layers | protocol layers |

Behaviours that are hard to test, and what makes each component right:

- *merge*: readers run ahead of each other; a batch spread by jitter overlaps the next
  one. Right: output in time order, every packet written exactly once, no reader
  forgotten, the loop ends.
- *reader*: passes, groups and unreadable records in any mix. Right: the batches are
  those of the timeline the options describe, and the bound the merge takes from a
  batch holds.
- *rounds*: what goes through a temporary file comes back through another reader with
  other options. Right: rounds are not visible in the output, and they end.
- *flow_map*: packets of several files and groups reach shared tables in an order
  nobody chose. Right: a connection, an address, a datagram keeps its target; `unique`
  does not repeat an address while it has another.
- *rewriting*: tunnels, fragments, cut and padded packets, disabled checksums. Right: a
  packet is as valid after it as before, and nothing but addresses and the checksums
  that cover them changes.
- *capture readers*: truncated records, sections with their own interfaces. Right: the
  streaming and the slice reader agree, every error makes progress or stops.
- *reordercap*: blocks that are no packets. Right: output is a permutation of the input,
  stable, interfaces before their packets.
- *splitcap*: two implementations of one split, and a failure at any call. Right: both
  write whole flows, and a failed run leaves prefixes of them.
- *cicflowmeter*: timeouts, TCP closing, time stamps that go back. Right: every packet in
  the flow it belongs to, durations that add up, no output lost.
- *parse engine*: nested failures. Right: layers stay nested inside the declared ends,
  in order, with nothing left of a child that failed.
- *headers*: some two hundred fields that share bytes, iterators over untrusted
  lengths. Right: a field keeps its value whatever is set beside it; iterators cover
  their bytes and end.
- *crafting*: lengths and checksums that depend on layers written earlier. Right: the
  bytes describe the stack that was asked for.

There are no threads in the packet path of any tool: the concurrency is that of many
inputs merged by one loop, and of a capture that another process appends to while
`maja-splitcap` reads it again. `PROJECT.json` lists the hazards line by line, each with
the properties that cover it.

## 2. Modules

| module | models | composes |
|---|---|---|
| `SortedMerge` | abstract: a merge emits a least remaining packet or ends | |
| `MergeBatches` | `pull`, `merge_batches`, `HeapEntry` | implements `SortedMerge` |
| `MergeBatchesProofs` | proofs about `MergeBatches` | |
| `MergeHeap` | the array of `std::collections::BinaryHeap` | extends `MergeBatches` |
| `Timeline` | pure: the batches a file and its options describe | |
| `PacketReader` | `PacketReader::next` and its state | checked against `Timeline` |
| `MergeRounds` | `merge`, `merge_impl`, timestamps through `PcapWriter` | uses `Timeline` |
| `TimelineProofs` | proofs about `PacketReader` and `MergeRounds` | |
| `MCMergePipeline` | | `MergeHeap` fed by `Timeline` |
| `FlowMap` | pure: entries, classification, keys of an allocation | |
| `FlowAlloc` | `FlowState`, `Allocation`, `AllocSlot` | extends `FlowMap` |
| `CaptureFormat` | captures, and one read of the streaming and the slice readers of pcap and pcapng | |
| `CaptureReaders` | a streaming and a slice reader of one capture | extends `CaptureFormat` |
| `CapInfo` | `analyze`, `Stats`, `IntervalStats` | extends `CaptureReaders` |
| `Reorder` | `scan_pcap`, `scan_pcapng`, `main`, `write_reordered` | extends `CaptureFormat` |
| `CaptureProofs` | proofs about `CaptureReaders`, `CapInfo` and `Reorder` | |
| `ParseEngine` | `Packet::try_parse`, `ParseContext`, every protocol's `parse` | |
| `ParseEngineProofs` | proofs about `ParseEngine` | |
| `HeaderLayouts` | pure: the fields of every viewer | |
| `HeaderFields` | `FieldAccessor`: get and set | extends `HeaderLayouts` |
| `OptionWalk` | iterators over options, chunks, addresses, labels | composed in `MCHeaders` |
| `Craft` | `PacketBuilder`, the builders, the Internet checksum | |
| `PacketProofs` | proofs about `Craft`, `HeaderFields` and `OptionWalk` | |
| `Rewrite` | `Rewriter::rewrite`, direct maps, `fix_checksums` on IPv4 | extends `Craft` |
| `FlowMeter` | `FlowGenerator`, `Flow`, `BulkState`, the driver's outputs | |
| `FlowMeterProofs` | proofs about `FlowMeter` | |
| `Split` | flow identifiers, `single_pass_split`, `two_pass_split` | |
| `FlowProofs` | proofs about `FlowAlloc`, `FlowMap` and `Split` | |
| `SequenceLemmas` | induction, concatenations and rearrangements, for `TimelineProofs` and `CaptureProofs` | |

`MC*` modules give the constants their values for TLC; `MCBlocks` builds capture files.
In every module an operator whose comment starts with "Mutant:" is a wrong variant of the
definition that follows it; `PROJECT.json` pairs each property with one that it catches.

### The merge

`MergeBatches` takes the loop of `merge_batches` apart. `pc` says where it is: at
`heap.pop()` (`Pop`, `PopNothing`), in the sweep over the readers when the heap is empty
(`"drain"`) or after a pop (`"refill"`); `index` and `pulled` are the sweep's own
variables. `Pull` is one call of `pull`, `Skip` a reader the sweep passes over,
`SweepAgain` the end of a sweep that pulled something, `Drained` the return. `PutBack`
and `Emit` are the two ends of a turn, `EmitFails` the `?` after `emit`. A packet is
[reader, batch, group, timestamp]: its place in the input, so that packets that look
the same stay apart. The heap is a set from which `Pop` takes any greatest entry, which
is all its documentation promises. `MergeHeap` adds the array (`push`, `pop`,
`extend` as in std) and shows that it holds the same entries.

`Remaining` is what the abstract `pending` stands for: unread packets, the heap and the
packet in hand. A turn that emits is `SortedMerge!Emit`; pulling, putting back and
sweeping are stutters.

### The readers

`Timeline` states what the options mean without state: pass `p` of a file starts at its
group's start time or one interval after the end of the pass before it, and the packets
keep their distance from the first one of the pass. `PacketReader` is the code: one step
per turn of the loop in `next`. `NewGroup`, `NextRepeat` and `SamePass` are the three
ways a packet gets its timestamp, `SkipError` a record that fails, `Reopen`,
`ReopenFails` and `Finish` the end of the file. A file is a sequence of timestamps and
the model value `ReadError`. Additions saturate, as in the code, at `MinTime` and
`MaxTime`; `%` truncates towards zero (`SubSecond`).

### The rounds

`MergeRounds` has one action per branch of `merge_impl`. A pass over a batch is one step
with the outcome the merge promises, and `Written` is what `write_packet` and
`to_packet` make of a timestamp: both fields are cut to 32 bits (`Wrap`), the second one
loses its remainder (`Tick`).

### The flow map

An address is [family, net, host], so a prefix is 0, 1 or 2 deep and pools are sets of
hosts. `Read` hands a packet to the groups of its file; `PassOver`, `Repeat` and
`Rewrite` are the ways through `FlowState::rewrite` and `targets`: a protocol that takes
no part, a datagram in the cache of the group, and the allocation of both endpoints,
source first. A random draw is any address of the pool, a walk any start and any step
`Sequence::new` can return, the hash any fixed function of the key (`HashIndex`).
Files stand for readers the merge may pull in any order.

### The capture readers, capinfo

A capture is a map from offsets to blocks, with real sizes in bytes; between them, where
only a damaged length can lead, the bytes look like `other`. A reader is a record: its
position, the interfaces it knows, what it has delivered and the offsets at which it
has failed. One step is one block. `StreamingPcapng` is `read_next_block`, whose
`read_exact` calls are gone once made; `SlicingPcapng` is `next_block` of the slice reader,
which refuses a block that is not all there without moving. Both hand a whole block to
`Parsed`. Contents are abstracted to whether they parse. `Panicking` is the `expect` in
`calc_timestamp`.

`CapInfo` is the loop of `analyze`, which counts an error and reads on. Its caller never
sees the slice reader; `ReadMapped` lets it run along the same file, for a caller that
also reads on after errors.

### reordercap

`Reorder` scans with the slice reader, one action per kind of block, and keeps what
`SectionScan` and `Scan` keep; after the scan the tool refuses, reports or sorts and
writes one byte range per step. A write may fail at any of them. The stable sort puts an
entry behind as many others as go before it (`GoesBefore`). The output is a sequence of byte
ranges; the properties read it as a file again: `Ahead` says which of two bytes of the input
comes first in it, `Tile` that ranges copy a piece of the input byte by byte. `EndToEnd` is a
file whose blocks follow each other up to its end. Only of such a file is a byte range known
to be a block, so what the properties say of blocks is said of it; that every byte is copied
once holds of any file the scan accepts, one whose lengths lead into the middle of blocks
included.

### The parse engine

The Rust call stack of a parse is the variable `stack`: a `child` frame for a
`parse_child_with` under way (the length of the table to go back to, the child's
offset) and a `bound` frame for an IP parser that has narrowed the region (the end
outside, the end declared). `at` is the parser about to run or the result being
returned; `layers` and `declared_end` are the fields of `ParseContext`. There is one
action per parser, and it is the whole `parse` function up to its call of a child:
`Require`, `PushLayer` (nothing beyond `max_depth`), the dispatch (`Into`).
`ReturnToParent` is the rest of `parse_child_with`, where an error is either passed on or
the table is cut back and the child's bytes become a raw layer; `ReturnToIp` restores
the outer region and records the bytes behind the declared end.

The bytes of a packet are the choices a parser makes while reading: the stated header
length, the next protocol, the declared length. Two layers never read the same bytes, so
a choice made when a header is read stands for any packet with that header. A TCP or UDP
port test may have any outcome. The frames are cut at lengths around those of the
headers.

### Headers and options

`HeaderLayouts` lists for every viewer its fields: first byte, byte past the slice,
width of the integer the accessor reads, mask, shift and target width; `Overlays` are
pairs that name the same bits on purpose, `ReadOnly` fields without a setter.
`HeaderFields` sets up to `MaxSets` fields of a header, one per step, starting from
zeros or ones; a header is the set of its one bits. `OptionWalk` runs one iterator per
behaviour, one item per step, over a slice whose kind and length bytes are chosen.

### Crafting and rewriting

`Craft` builds a stack (`PushLayer`, `Build`), measures it from the innermost layer
outwards (`MeasureLayer`), allocates and writes it in the same order (`WriteLayer`).
Bytes are real: the checksum is the sum of 16-bit words with the end-around carry. A set
header length, length or checksum is a builder's field; `Custom` is a caller's own
`LayerBuilder`, which may plan more or less than it needs.

`Rewrite` captures a built packet whole, cut by a byte, padded, or with a zero total
length (segmentation offload), and hands it to a `Rewriter`: the direct maps (longest
`from` first, otherwise the merged pool), then the flow map on what they left, then
`fix_checksums`. What the flow map answers is chosen; how it chooses is `FlowAlloc`.

### cicflowmeter

`Feed` is one packet of `process_file` with the whole of `FlowGenerator::add`: a flow that
timed out becomes a row and the packet starts another; otherwise `Flow::add` (gaps,
direction, bulks, active and idle periods) and then RST or the second FIN closes.
`Open`, `OpenError`, `ReadError` and `FinishFile` are the driver's, with the output files
named by stem; `OpenError` is a capture that cannot be opened or an output that cannot be
created, before anything is written. Of the sums and extremes a row has for each packet
field one representative is kept.

### splitcap

`ReadPacket` is the first pass of both modes. The one-pass split writes flow after flow
(`CreateWriter`, `WritePacket`, `FlushWriter`), the two-pass split reads again
(`RereadPacket`) while the capture may grow (`Grow`) and flushes at the end. Every call
that returns an error has a failing step. A frame is the sequence of its IPv4, TCP and UDP
layers; a viewer takes the innermost of a protocol, as `layer_viewer` does.

## 3. Runs

| run | instance | states | shows |
|---|---|---|---|
| `merge` | 2 readers: the timelines of files with up to 2 groups, 2 repeats and jitter; every pair of base-sorted streams of up to 2 batches and 3 packets over 3 timestamps, one of them `i64::MAX`; batches of 3 with equal packets | 176 k | the merge and the array of its heap: order end to end, bookkeeping, the refinement, termination |
| `reader` | files of up to 3 records, errors among them, 4 start time lists, 2 repeats, intervals 0 and 3, 2 jitters, both flags | 134 k | `PacketReader` against `Timeline` |
| `rounds` | up to 5 files, batch sizes 0 to 3 | 21 k | rounds give what one pass gives |
| `flow` | 5 flow maps, 2 files, 2 groups, 7 packets, 3 reads | 382 k | targets stay together |
| `capinfo` | pcapng files of up to 4 blocks, good or damaged in 8 ways, or cut at 6 places; pcap files of up to 3 records, whole or cut | 198 k | both readers against each other, and the report |
| `reorder` | pcapng files of up to 6 blocks in up to 5 sections, files that are refused, pcap files; all options | 238 k | the output is the input in order |
| `parse` | frames of 6 lengths up to 130 bytes, any first protocol, any header contents, depth limits 0, 2 and 5, with and without the fallback | 570 k | the layer table |
| `headers` | every viewer, every pair of fields set one after the other; every iterator over slices of 0 to 9 bytes, lists of up to 36 | 16 k | fields and items |
| `craft` | stacks of up to 4 of 17 builders; those that start with IPv4, or Ethernet and IPv4, captured in 4 ways and rewritten under 4 configurations | 542 k | bytes and checksums |
| `cicflow` | up to 4 packets of 5 kinds at 4 distances, backwards too; 2 inputs with the same name | 430 k | rows and output files |
| `split` | up to 3 frames of 8 kinds and one appended, 6 granularities, 2 numbers, both modes, failures everywhere | 1.81 M | files of a split |
| `sections` | pcapng files of two sections, each with an interface of its own, nothing damaged | | must fail, see below |

Properties:

- `InFlightExact`: the `usize` the loop decrements counts exactly what the heap holds.
- `OutputSorted`: timestamps never decrease.
- `NothingLeftBehind`: an `Ok` means everything is written. `i64::MAX` marks a finished
  reader, so packets stamped with it are the one exception.
- `HeapFaithful`: the array has the entries of the heap and a greatest one in front.
- `ImplementsSortedMerge`: the merge is one of the abstract specification.
- `Terminates`: under fairness the loop returns.
- `FollowsTimeline`, `BoundIfSpaced`: the reader yields a prefix of the timeline (all of
  it if it finishes), and for files in order whose groups do not overlap the bound the
  merge relies on is true. `FollowsTimeline` is about files whose distances from the
  first packet fit an `i64` (`DistancesFit`): the reader computes the distance before it
  adds the start time, and cuts both. The stamps -10, 1 and 6 of the instance reach a
  distance that does not fit.
- `RoundsDoNotShow`, `RoundsShrink`: the output of several rounds is that of one pass,
  as far as the format can hold the timestamps; each round has fewer files.
- `UniqueUntilExhausted`, `OnePairPerConnection`, `FragmentsTogether`,
  `MostSpecificWins`: the promises of `flow_map`. The flow maps of the run have
  one catch-all at most and no rule for a `/0`: with them `MostSpecificWins` fails, see the
  divergences below.
- `BothReadTheSame`: damage costs both readers the same packets. The exceptions are
  part of the property: at a block that declares less than 12 bytes, and outside of any
  section, the slice reader stays and the streaming reader goes on.
- `OwnInterfaceInOneSection`: damage does not move a packet to another interface, as
  long as every interface description parses and the lengths of the blocks before one
  lead to it.
- `ReportAgrees`: the times of the report are the minimum and the maximum of the packets
  delivered, and none without packets; its counts and its order flag are theirs too.
- `IntervalsPartition`: the time of every packet is in an interval of the table; intervals
  start at multiples of the width, so it is in one only, and each counts exactly the
  packets whose times it contains, at least one.
- `AnalysisEnds`: no error is read over and over.
- `EveryByteOnce`, `ReadBackTheSame`, `OutputOrdered`: the output of reordercap has every
  byte once; in it every packet is in its section and finds the interface its time is
  counted with under the number it names; packets are in order, equal times in the order
  of the input.
- `ReportsDisorder`: the misplaced packets are exactly those with a later one before them
  in their section, each with the latest of those.
- `Terminates` (reorder): the scan ends, whatever the file looks like.
- `LayersInOrder`: layers are listed from the outside in, none over another or past the
  capture, nothing decoded behind raw bytes, at most `max_depth` of them. Its part
  `CutHeadersEndTheChain`: an IPv6 extension header that is shorter than its fixed part was
  cut off, so it ends where the capture, or the payload of an IP packet around it, does, and
  only raw bytes are behind it.
- `InsideDeclaredEnds`: the end an IP header declares holds for everything decoded
  behind it; padding is kept apart, whatever a failing child left behind.
- `GapsOnlyBehindLeaves`: a finished parse accounts for every byte, except behind ARP,
  IGMP, TLS and a caller's own leaf, and behind LLC without SNAP.
- `NestingAdvances`: each nested parser starts at least four bytes further in, so the
  recursion, unbounded by default, is bounded by the packet.
- `FieldsKeepTheirValues`: a field reads as what it was last set to, cut to its size,
  whatever was set beside it since.
- `ItemsTile`: the items of an iterator are consecutive and not empty and cover the
  slice, whatever the length bytes say.
- `BytesDescribeLayers`, `ChecksumsVerify`: a reader of the bytes finds the stack that
  was asked for, and a receiver accepts every computed checksum.
- `ChecksumsSurviveRewriting`, `RewriteIsLocal`: a rewritten packet verifies with its new
  addresses, and nothing but the outer addresses and the checksums over them changes.
- `RowsAreWholeFlows`: rows and open flows are whole runs of a connection, said of the
  capture alone (gap longer than the timeout, reset, second FIN).
- `TimesAddUp`: gaps, and active and idle periods, each fill a flow's duration; subflows
  and bulks count nothing twice.
- `NothingOverwritten`: without `--overwrite` no rows of an earlier run or of an earlier
  input are lost, although outputs are named by stem only.
- `SameFileIffSameConversation`, `FilesAreFlows`: two packets share a file exactly if the
  granularity says so; the files of a run that succeeds are whole flows, the largest ones.
- `FailureLeavesPrefix`: a run that fails leaves prefixes of flows; in one pass only the
  last file is incomplete, in two passes every packet before the failure is written.

### Bounds

The merge looks at one reader at a time and compares one packet with one other, so two
readers with two batches reach every branch: put-back, second sweep, a reader that is
pulled while it still has packets in the heap, a batch that ends after the next one
starts. Two groups with two repeats reach both ways a pass can start and the return to
the first way. Five files in batches of two need three rounds, the last one with a batch
of one. Pools of two and three addresses are used up by three reads of two endpoints.
Files are symmetric in `FlowAlloc`. Three blocks behind a section header reach every pair
of one damaged block and what a reader finds behind it, a second interface and its
packet; the cuts leave 2, 6 or 10 and more bytes of a block, the three cases
`read_next_block` tells apart. Six blocks let a section follow another one and be out of
order itself, and an interface follow a packet and precede one of its own.

Frames of 130 bytes hold Ethernet, two nested IP headers with a declared end each, an
extension header and a transport; the shorter ones end inside each of these. A label
stack is at most one entry (`MaxLabels`), the other lengths are the least one, one that
fits and one that does not (`Words`, `Octets`, `Lengths`). `Unbounded` stands for
`declared_end = None`. `MaxSets` is 2 because two fields can disturb each other and a
third one adds nothing to a pair. Stacks of four builders hold a tunnel with its
transport.

Some of the program's constants are smaller in the instances, so that the limit is
reached: `MaxLength` is 120 for the 65535 of a length field, `BulkPackets` 3 for 4,
`Second` 1, `FlowTimeout` 5 and `ActivityTimeout` 2 for one, 120 and 5 seconds in
nanoseconds, `Wrap` 8 for 2^32, `MaxTime` 5 to 40 for `i64::MAX`. `MaxPackets` bounds the
packets of `FlowMeter` and `Split`, `MaxGrowth` what is appended to the capture,
`MaxReads` the packets of `FlowAlloc`. The runs `flow`, `craft`, `headers`, `cicflow` and
`split` stop when their program, or their bounded input, has ended, which is why they do
not check for deadlock; `parse` does, with one state for a caller that has its result.

### Fairness

`FairSpec` of the merge and `HeapSpec` ask that its loop keeps taking its own steps: it is
one thread that waits for nothing but its own function calls. No fairness is asked of
the branch it takes. `analyze` and `main` of reordercap are loops of one thread as well,
and the fairness of `CapInfo` and `Reorder` is that of their own steps. The recursion of
the parser and the loops of the iterators need no fairness: `NestingAdvances` and
`ItemsTile` bound their length in every state.

### Where the code and what is said of it differ

One run must fail, `sections`: `tools/maja-reordercap/src/main.rs:15` says that the
interface ids of packet blocks "refer to the interface list of their own section", and the
readers of `src/capture/format/pcapng.rs` keep the list when a section header is read
(`:1063`) and append to it. TLC finds a capture of two sections whose interfaces count
time in different units: the packet of the second section names interface 0 and is
delivered with the unit of the interface 0 of the first. `OwnInterface` is the property
that fails; with one section it holds (`OwnInterfaceInOneSection`).

The following are recorded without a run; a model that reaches one of them behaves as the
code does.

- `tools/maja-mergecap/src/main.rs:318` and `:352` call the streams sorted; start times
  whose groups overlap pass validation (`main.rs:582`) and the output goes back in time.
  `OutputSorted` is checked for spaced groups.
- `main.rs:736` says that packets with the same timestamp are emitted in arrival order;
  `BinaryHeap` promises no order among equals.
- One catch-all per family is accepted, but the first one takes the addresses of both
  (`map/flow.rs:156`, `tools/maja-mergecap/README.md:110`).
- A catch-all ties with a rule for a `/0` network in `sort_entries` (`map/entry.rs:66`,
  against `:63`).
- With IPv6 destination options behind the fragment header, the protocol filter lets the
  first fragment through and not the later ones (`map/flow.rs:419`, `config.rs:290`).
- `fix_checksums` leaves the transport checksum as it was behind an IPv4 authentication
  header, in an atomic IPv6 fragment and in packets cut by the snap length.
- `tools/maja-mergecap/src/map.rs:70` says that a mapping depends only on the merged packet
  stream; a global table is asked when a reader is pulled, which is ahead of the merge.
- Numbers: `src/capture/format/pcap.rs:204` multiplies in 32 bits, `pcapng.rs:827` panics on a time that
  does not fit, `checksum.rs:47` adds in 32 bits.
- Comments of `ip/v4.rs` and `ip/v6.rs` say that the table covers the frame; bytes behind
  ARP, IGMP and TLS, and behind LLC without SNAP, are in no layer.
- An IPv6 extension header that is cut off becomes a layer of the bytes that exist, as
  `ext/header.rs:124` says. The declared length covers the fixed part and the layer may not:
  its accessors slice fields that are not there (`ext/hip.rs:229`, `data`).
- `mpls.rs:71` looks for the bottom of the stack beyond the declared end.
- `src/packet.rs:137` speaks of layers that exist already; parsing a packet twice
  lists its layers twice.
- `Icmp` and `Icmpv6` ask for four bytes and their viewers slice eight; the viewer of ARP
  has addresses of fixed sizes; changing a flag of GRE moves the optional fields.
- `maja-cicflowmeter` sorts rows by their time as text, and a flow that begins with a reset
  stays open.
- `maja-splitcap` pairs the innermost IPv4 layer with the innermost TCP or UDP layer even
  if one is not inside the other, writes packets of several link types into one file and
  takes the snap length of the first interface; in two passes every selected flow has an
  open file (`main.rs:438`).

## 4. Proofs

Eight modules hold proofs, one of them (`SequenceLemmas`) only lemmas. Nothing is assumed but the named assumptions on the constants,
which TLC evaluates in every run, and the hypotheses that are part of a theorem's
statement. No property is inductive as it stands; each section says what had to be added.

### The merge

`MergeBatchesProofs` proves, for any `ReaderCount`, any time range and any finite
streams:

| theorem | property | needs sorted streams |
|---|---|---|
| `TypeCorrect` | `TypeOK` | no |
| `InFlightIsExact` | `InFlightExact` | no |
| `NothingLostOrDoubled` | `Conserved`: every packet is unread, in the heap, in hand or written, once | no |
| `OutputInOrder` | `OutputSorted` | yes |
| `NothingIsLeftBehind` | `NothingLeftBehind` | yes |
| `MergeImplementsSortedMerge` | `ImplementsSortedMerge` | yes |

Assumptions: batches are not empty (validation asks for `parallel >= 1`), timestamps lie
in the range of `i64`. "Sorted" is `BaseSorted`: the least timestamp of a batch is a lower
bound of all later ones, which is what `BoundIfSpaced` says of the readers and `BoundIsKept`
proves.

The argument. `OutputSorted` is not inductive: it says nothing of what comes later.
`OrderInv` adds three facts: `BoundSound` (the bound of a reader is below everything it
has not delivered), `SweptSound` (every reader the refill has passed in a sweep without
a pull has a bound not earlier than the packet in hand) and `WrittenFirst` (what is
written is not later than anything remaining). When a sweep ends without a pull, the
first two put the packet in hand before every unread packet, the test of the heap's top
puts it before the rest, and the third is kept. `InFlightExact` needs `Conserved`: a
pull adds as many entries as the batch has packets because none of them is in the heap
already. The refinement follows from the same invariant.

### The packet reader

`TimelineProofs` proves, for files of any length with read errors anywhere, any number
of groups and repeats, any start times, jitter and range of times:

| theorem | property |
|---|---|
| `TimelineIsFollowed` | `FollowsTimeline` |
| `BoundIsKept` | `BoundIfSpaced` |

Assumptions: `Valid` (what `InputFile::validate` accepts), and a range of times with zero
inside.

The argument. The two properties speak of the batches that were yielded. What the reader
keeps between two calls are three times, and the invariant says of each what it stands
for. `Position` ties the number of batches to the pass and to the place in the file.
`Rising` is for files in order: the last time is that of the last batch, and nothing of
the pass to come is before it; it holds although additions saturate, because saturation
is monotone. `Exact` is for files whose distances fit and of which no addition saturates,
or which are in order: every batch has its place in the timeline. What the reader has
accepted of the first records of a file is a recursive function over the file
(`ReadUpTo`), followed record by record by induction over numbers.

### The rounds

`TimelineProofs` proves as well, for any number of files and any batch size:

| theorem | property |
|---|---|
| `RoundsAreInvisible` | `RoundsDoNotShow` |
| `EveryRoundShrinks` | `RoundsShrink` |

Assumptions: the files are in order and their groups do not overlap (the same condition as in
`BoundIsKept`; of other files a pass promises no order), a tick is at least a nanosecond, and a
field of 32 bits holds a second in nanoseconds.

The argument. A capture does not keep the timestamps but what `Written` leaves of them, so the
invariant `RoundsKept` compares as they would be written: the timestamps in the captures of
this round, followed by those of the files it has not read, are those of the user's files in
another order (`Rearranged`, a bijection of the places). A batch step replaces a part by a
pass over it, and a pass only changes the order (`AscendingIs`, `PartPasses`); the next round
reads each capture as it was written because `TmpFile` leaves nothing to shift and the
option `erase` is off (`TmpTimeline`). `Written` is monotone on what the format can hold and
changes nothing a second time (`WrittenRises`, `WrittenIs`), so the output of the last pass and
that of a single pass are both ascending and the same but for the order, and there is only
one such sequence (`OneOrderOnly`). `EveryRoundShrinks` needs that a round has written a
capture and that all but the last stand for a full batch of at least two files (`Chunks`).

### The flow map

`FlowProofs` proves, for any addresses, packets, files, groups and maps of any length:

| theorem | property | hypothesis |
|---|---|---|
| `MostSpecificEntryWins` | `MostSpecificWins` | `NoRuleForEverything` |
| `ConnectionsKeepTheirPair` | `OnePairPerConnection` | |
| `FragmentsStayTogether` | `FragmentsTogether` | `DatagramsHaveOneProtocol` |
| `UniqueTargetsDiffer` | `UniqueUntilExhausted` | |

The hypotheses are two of the divergences of section 3: a catch-all that ties with a rule
for a `/0`, and destination options behind a fragment header, which let the protocol
filter tell the fragments of one datagram apart. The maps and packets of the run
satisfy both. Assumptions: the maps are accepted by the configuration's validation, and
there are finitely many addresses.

The argument. `SortsBefore` is a strict total order, so sorting is a permutation in which
less specific entries come later, and the first match is a most specific one. The other
three are about packets rewritten at different times. `Remembered` says of each packet
rewritten so far that the tables as they are now would give it the same targets again: the
cache of datagrams has them, or asking a slot has one outcome, the target it gave and the
slot unchanged (`Settled`). Tables and caches only grow, and what is remembered stays so
(`StaysRemembered`); two packets that ask with the same key then have the same targets.
For `unique`, `Walked` gives every key of an entry a turn of its own in the walk: as many
keys as turns, and turns of a walk whose step has no common factor with the size of the
pool reach different addresses as long as there are no more of them than addresses.

### The capture readers and capinfo

`CaptureProofs` proves, for any capture, damaged and cut off in any way:

| theorem | property |
|---|---|
| `ReadersDeliverTheSame` | `BothReadTheSame` |
| `PacketsKeepTheirInterface` | `OwnInterfaceInOneSection` |
| `ReportIsRight` | `ReportAgrees` |
| `IntervalsAreExact` | `IntervalsPartition` |

Assumptions: a capture is a finite map of offsets to blocks with the sizes the formats
have (`IsCapture`), intervals are not empty.

The argument. The two readers run in turns, and either may be any number of blocks ahead.
`SamePath` says that both are on one path, the sequence of readers that a reader which
sees every block whole would pass through, each at a place of its own; the slice reader
may leave it only at a block it refuses, the streaming reader only into the end of the
file. `ReportInv` adds that failed offsets lie behind the reader, which is why each is
counted once, and that the first and the last time are those of packets: a time that bounds
all packets and is one of theirs is their minimum or maximum (`Extremes`), and without it
`is_ordered` would not compare with all of them. `BucketInv` counts the packets of each
interval by their places, and has an interval for each of them. `InterfaceInv` says that a
reader with bytes left has read every interface it has passed and stands where a block
begins if more of them follow (`OnTrack`).

### Reordering

`CaptureProofs` proves as well, for any capture the scan accepts, with any number of sections,
interfaces, packets and other blocks in any order, and under every option:

| theorem | property |
|---|---|
| `CopiesEveryByteOnce` | `EveryByteOnce` |
| `WritesInOrder` | `OutputOrdered` |
| `MeansTheSame` | `ReadBackTheSame` |
| `ReportsWhatIsMisplaced` | `ReportsDisorder` |

Assumptions: those on captures, and that `None` is no offset and no section.

The argument. The four properties speak of a scan that is over. `ReorderInv` says what holds
while it goes on, of the closed sections (`Sectioned`) and of the current one (`ScanIs`,
which is `SectionIs` of the section as if it were closed where the scan stands). Sections are
consecutive pieces of the file (`Edge`). Of each, `SectionIs` has three parts, one for each
kind of property:

- Its ranges, in the order in which they will be written, tile its piece (`Tile`). A block
  is added to one of the four lists in the middle of them; tiling does not depend on the order
  (`TileRearranged`), and neither a block added (`InsertedAnywhere`) nor the sort
  (`SortedRanges`) does more than change it. The output is a concatenation of sections, each
  tiling a piece (`JoinedTiles`).
- The frames it has found misplaced are those `Judged` says, which is inductive only with
  `KnowsLatest`: `max_timestamp` and `latest_frame` are those of the latest packet so far.
- In a sound file its only section header is at its start and every interface is in front
  of its packets, in their order (`Fronted`).

Where the packets are is `Listed`, while they are in the order of the input; the sort turns
this into `Arranged` (`SortedIs`: counting how many entries go before each is a permutation,
because `GoesBefore` is a total order). `ReadBackTheSame` needs a fact about the reader too:
`ReaderSound` says that in a sound file it stands where a block begins, knows the interfaces
described before it and has timed each packet by the one it names (`Numbered`,
`SoundEntry`). Interfaces keep their order in the whole output (`InterfacesOrdered`), so
the number of those before one of them is its number in the input.

### Splitting

`FlowProofs` proves as well, for any frames, numbers and granularities, for captures that grow
between the passes and for a failure at any call:

| theorem | property |
|---|---|
| `FilesAreConversations` | `SameFileIffSameConversation` |
| `DoneFilesAreFlows` | `FilesAreFlows` |
| `FailuresLeavePrefixes` | `FailureLeavesPrefix` |

Assumption: frames that are not skipped have flow information (`FramesAssumption`).

The argument. Files hold packets by number, and `Lists` says that a file has exactly the
members of a flow, in order, up to some packet. `SplitInv` has one conjunct per phase:
what the first pass has collected (`FirstPass`, `Flows`), what the selection is
(`Chosen`), and for each mode how far the files are: one after the other (`OneByOne`) or
all as far as the second reading (`Together`). That two packets share a file exactly if
the granularity says so is a fact about `FlowId`: ordering the endpoints loses the
direction and nothing else (`IdentifiesConversation`).

### cicflowmeter

`FlowMeterProofs` proves, for any packets, time stamps (backwards too), timeouts, inputs and
earlier outputs:

| theorem | property |
|---|---|
| `RowsAreWhole` | `RowsAreWholeFlows` |
| `RowsAddUp` | `TimesAddUp` |
| `OutputsAreKept` | `NothingOverwritten` |

Assumptions: addresses and sizes are numbers, `Never` is no time, the timeouts and the
second are positive, and a bulk has at least two packets (the code's constant is 4).

The argument. `RowsAreWholeFlows` says where a flow begins and ends by a recursive function
over the capture (`FirstOf`); a packet more changes nothing of it for the packets before
(`FirstGrows`), and the new one belongs to the flow of the last packet of its connection
or begins one (`WhereBegins`). The property says which packets the flows have, not which
side they are on nor when the last one came, which is what decides about the next packet.
`RunsInv` adds this (`FlowOf`), and that an open flow has all packets of its connection
since it began (`Whole`): that is why the FINs the flow has seen are those the capture
has. `TimesAddUp` speaks of rows; `TimesInv`, on top of `RunsInv`, says what holds while a
flow is open. The active period that is not closed yet is missing from the sum
(`Timely`), and the packets of a bulk too short to count are missing from the bulk's
(`Pending`), which is why counting all of them at the fourth counts none twice.
`NothingOverwritten` needs that the output being written is neither an earlier run's nor
a completed input's (`OutputInv`).

### The parse engine

`ParseEngineProofs` proves, for captures of any length, any options, registry and header
contents:

| theorem | property |
|---|---|
| `LayersStayInOrder` | `LayersInOrder` |
| `DeclaredEndsHold` | `InsideDeclaredEnds` |
| `NestingIsBounded` | `NestingAdvances` |
| `NoByteIsLost` | `GapsOnlyBehindLeaves` |
| `CutHeadersAreLast` | `CutHeadersEndTheChain`, part of `LayersInOrder` |

Assumptions: lengths are in the range of their fields, and `Unbounded` is not less than any
capture.

The argument. The first three properties speak of the table and the call stack as they are;
they do not say what a parser that runs, fails or returns is going to push. `ParseInv`
has four parts. `Table` is the first two properties, but for the cut headers.
`RunsAt` says where a parser stands: inside the region, behind all layers, none of them raw and none with a declared end
before the region's. `Regions` says that the regions of pending IP parsers shrink, and
that no layer's declared end lies strictly between a region's end and that of the region
around it; without it, the raw layer behind a declared end could reach over the end of
an outer packet. `Checkpoints` says that the prefix of the table a failing child is taken
back to is one its parent can go on with. One lemma covers each way a parser can end
(`StepKeeps`, `TruncatedKeeps`, `FailBehindKeeps`, `BoundingKeeps`, `TrustedKeeps`), so each
protocol is one short step, and two cover the returns.

`NoByteIsLost` has an invariant of its own, `CoverInv`, on top of `ParseInv`. Every layer
starts where the one before it ends, unless that one is of a protocol that may leave
bytes behind (`Contiguous`). The frames of the call stack hold the chain of ends in force
(`Nested`), so a parser that returns is given back exactly the end its caller had, and the
prefix of the table a failing child is taken back to reaches up to where the child began
(`Resumable`), so the raw layer put there leaves no gap.

`CutHeadersAreLast` needs `ChainInv`: while a parser runs, no layer of the table is cut off
and the end in force is one that a layer of the table declares, or none is. A header that is
cut off therefore ends where the capture or one of those layers says; it is followed by raw
bytes and returns only, which take layers back to a beginning of the table or add raw ones.

### Headers, options, crafting

`PacketProofs` proves:

| theorem | property | for |
|---|---|---|
| `FieldsAreKept` | `FieldsKeepTheirValues` | every viewer, any number of fields set |
| `ItemsCoverTheSlice` | `ItemsTile` | every iterator, slices of any size, any declared lengths |
| `FailsEarly` | `FailsBeforeBytes` | any builders and limits |

Fields. A header is the set of its one bits, so what set and get do is a statement about
single bits: `PutIs` says which bits setting a field decides, `GetIs` which ones reading
returns. A field reads as its value (`PutThenGet`), and one that shares no bit with it
reads as before (`PutElsewhere`). What this needs of the two hundred `field_spec`s is
`HeaderFieldsAssumption`: masks inside the integer, targets wide enough, no two fields
on one bit unless they are listed as overlays. TLC evaluates it over every layout.

Iterators. `ItemsTile` says nothing of an iterator that goes on. `WalkInv` adds that its
offset is where its last item ended and that nothing follows an end or an item whose
length is no good.

Crafting. Writing checks lengths once more with the buffer there; `MeasureInv` says that
what has been measured passes that check, so a stack that cannot be crafted fails before
the buffer exists.

### Left to TLC

- Liveness: `Terminates` and `AnalysisEnds`.
- `HeapFaithful`: the model of `BinaryHeap` is recursive, as the code is; the merge is
  proved over what the heap promises, and that it keeps the promise is checked on every
  heap of the bound.
- The bytes of crafting and rewriting (`BytesDescribeLayers`, `ChecksumsVerify`,
  `ChecksumsSurviveRewriting`, `RewriteIsLocal`): ones' complement sums of 16-bit words.

Induction over numbers is within reach where it is stated with a set of numbers
(`AllNumbers`), and so is what a recursive function over a sequence computes; operators
declared RECURSIVE are not.

## 5. Plan

1. `MappedMerge`: `FlowAlloc` asked in the order in which the merge pulls (`map.rs:71`
   numbers the allocations of a global scope in that order).
2. The IPv6 branch of rewriting, with extension header chain and routing header, and the
   builders of IPv6 and its pseudo header.
3. Proofs: that the array of the heap keeps a greatest entry in front, over a model of
   `sift_up` and `sift_down` without recursion.

## 6. Not modelled

- `maja-capinfo`'s reports, metadata export and hashing: formatting and output; the hash
  thread reads the file on its own and is joined before the report.
- Parsing of TOML, JSON and arguments; validation is the assumptions of `Timeline` and
  `FlowMap`.
- The IPv6 branch of `fix_checksums` and `outer_transport`; the shared tables of
  `MapRuntime` are slots of `FlowAlloc`.
- Builders other than those of Ethernet, IPv4, TCP, UDP, ICMP echo and raw bytes: they
  measure and write in the same way.
- `Display`, the slices behind a header, DNS names and records.
- Of the pcap writer only the timestamp it keeps; link types and snap lengths of outputs.
- CSV rows, averages and deviations, progress bars and logging, the quality of random
  numbers and hashes; the examples, except for the custom protocol's parser.
