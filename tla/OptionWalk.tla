----------------------------- MODULE OptionWalk ------------------------------
(***************************************************************************)
(* The iterators over options, chunks, addresses and labels inside a       *)
(* header (src/packet/layer): from an untrusted slice of `size` bytes each *)
(* call of next() yields one item and moves on.  Bytes are only told apart *)
(* by what the iterator reads: the kind of an option and its length field. *)
(***************************************************************************)
EXTENDS Integers, Sequences

CONSTANTS
  Sizes,       \* lengths of the slice of options iterated over
  ListSizes,   \* lengths of the payload a list of elements is in
  Declared     \* values of a length field, and of the SRH's last entry

ASSUME OptionWalkAssumption == Sizes \cup ListSizes \subseteq Nat /\ Declared \subseteq Nat

VARIABLES
  grammar,     \* which iterator; the empty name stands for none
  size,
  offset,
  done,
  items        \* the items yielded: kind, first byte, past the last byte

walkVars == << grammar, size, offset, done, items >>

\* Options that declare a length: the single-octet kinds that pad and the ones that
\* end the list, the bytes in front of the value, whether the length counts those,
\* and what an item is padded to.
Options == [
  ipv4 |-> [pads |-> TRUE, ends |-> TRUE, head |-> 2, counted |-> TRUE, align |-> 1],
  tcp |-> [pads |-> TRUE, ends |-> TRUE, head |-> 2, counted |-> TRUE, align |-> 1],
  dhcp |-> [pads |-> TRUE, ends |-> TRUE, head |-> 2, counted |-> FALSE, align |-> 1],
  ipv6 |-> [pads |-> TRUE, ends |-> FALSE, head |-> 2, counted |-> FALSE, align |-> 1],
  sctp |-> [pads |-> FALSE, ends |-> FALSE, head |-> 4, counted |-> TRUE, align |-> 4]]

\* Lists of elements of one size: what precedes them, whether only whole elements
\* are accepted, and whether an element can be the bottom of the list.
Elements == [
  ipv4_route |-> [skip |-> 1, width |-> 4, exact |-> FALSE, bottom |-> FALSE],
  tcp_sack |-> [skip |-> 0, width |-> 8, exact |-> TRUE, bottom |-> FALSE],
  ipv6_type0 |-> [skip |-> 4, width |-> 16, exact |-> FALSE, bottom |-> FALSE],
  ipv6_srh |-> [skip |-> 4, width |-> 16, exact |-> FALSE, bottom |-> FALSE],
  mpls |-> [skip |-> 0, width |-> 4, exact |-> FALSE, bottom |-> TRUE]]

Lesser(a, b) == IF a < b THEN a ELSE b

\* segment_list_len: what the last entry declares, in whole addresses that are there.
SegmentListLen(bytes, last_entry) ==
  LET available == bytes - 4
  IN Lesser((last_entry + 1) * 16, available - (available % 16))

-----------------------------------------------------------------------------
\* The slice of a list, or none when the payload is too short for its fixed part.
Accepts(g, bytes) ==
  g \in DOMAIN Elements =>
    /\ bytes >= Elements[g].skip
    /\ Elements[g].exact => bytes % Elements[g].width = 0

Start(g) == IF g \in DOMAIN Elements THEN Elements[g].skip ELSE 0

WalkInit ==
  /\ grammar \in DOMAIN Options \cup DOMAIN Elements \cup {""}
  /\ offset = Start(grammar) /\ done = FALSE /\ items = << >>
  /\ \E bytes \in IF grammar \in DOMAIN Elements THEN ListSizes ELSE Sizes, last_entry \in Declared :
       /\ Accepts(grammar, bytes)
       /\ size = IF grammar = "ipv6_srh" THEN 4 + SegmentListLen(bytes, last_entry) ELSE bytes

Yield(kind, past) == Append(items, [kind |-> kind, first |-> offset, past |-> past])

\* A single octet: a pad, or the end of the options.
NextOctet ==
  /\ ~done /\ offset < size
  /\ \/ Options[grammar].pads /\ items' = Yield("pad", offset + 1) /\ UNCHANGED done
     \/ Options[grammar].ends /\ items' = Yield("end", offset + 1) /\ done' = TRUE
  /\ offset' = offset + 1 /\ UNCHANGED << grammar, size >>

OptionLength(g, len) == IF Options[g].counted THEN len ELSE Options[g].head + len

\* Mutant: a length that does not even cover its own header is accepted.
UncheckedFit(g, len) == offset + OptionLength(g, len) <= size

Fits(g, len) ==
  /\ OptionLength(g, len) >= Options[g].head
  /\ offset + OptionLength(g, len) <= size

\* The item ends where its padding does, or where the bytes do.
PaddedEnd(g, len) ==
  LET align == Options[g].align
      over == (OptionLength(g, len) + align - 1) \div align
  IN Lesser(offset + over * align, size)

\* An option whose header is there: `len` is its length field.
NextOption(len) ==
  /\ ~done /\ offset + Options[grammar].head <= size
  /\ Fits(grammar, len)
  /\ offset' = PaddedEnd(grammar, len)
  /\ items' = Yield("option", PaddedEnd(grammar, len))
  /\ UNCHANGED << grammar, size, done >>

\* What is left cannot be an option: it is yielded as it is and the iteration is over.
NextMalformed ==
  /\ ~done /\ offset < size
  /\ \/ offset + Options[grammar].head > size
     \/ \E len \in Declared : ~Fits(grammar, len)
  /\ items' = Yield("malformed", size)
  /\ IF grammar = "ipv6" THEN offset' = size /\ UNCHANGED done
     ELSE done' = TRUE /\ UNCHANGED offset
  /\ UNCHANGED << grammar, size >>

\* An element of a list; an MPLS entry may be the bottom of the stack.
NextElement ==
  /\ ~done /\ offset + Elements[grammar].width <= size
  /\ offset' = offset + Elements[grammar].width
  /\ items' = Yield("element", offset')
  /\ done' \in {FALSE, Elements[grammar].bottom}
  /\ UNCHANGED << grammar, size >>

WalkNext ==
  \/ /\ grammar \in DOMAIN Options
     /\ NextOctet \/ NextMalformed \/ \E len \in Declared : NextOption(len)
  \/ grammar \in DOMAIN Elements /\ NextElement

WalkSpec == WalkInit /\ [][WalkNext]_walkVars

-----------------------------------------------------------------------------
\* The iterator has nothing more to yield.
Exhausted ==
  \/ done \/ offset >= size
  \/ grammar \in DOMAIN Elements /\ offset + Elements[grammar].width > size

\* Whatever the length fields say, the items are pieces of the slice in order, each
\* begins where the one before it ended and none is empty, so the iteration ends; when
\* it has, every byte was yielded, except behind an end marker and a list's remainder.
ItemsTile ==
  /\ \A i \in DOMAIN items :
       /\ items[i].first = IF i = 1 THEN Start(grammar) ELSE items[i-1].past
       /\ items[i].first < items[i].past /\ items[i].past <= size
       /\ items[i].kind \in {"end", "malformed"} => i = Len(items)
  /\ (grammar \in DOMAIN Options /\ Exhausted /\ size > 0) =>
       LET last == items[Len(items)] IN last.kind = "end" \/ last.past = size
  /\ (grammar \in DOMAIN Elements /\ Exhausted /\ ~done) =>
       size - offset < Elements[grammar].width

=============================================================================
