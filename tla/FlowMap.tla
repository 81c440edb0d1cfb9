------------------------------- MODULE FlowMap -------------------------------
(***************************************************************************)
(* The stateless half of maja-mergecap's flow_map: which entry an address  *)
(* belongs to, what an allocation is keyed by, and what the mapping reads  *)
(* off a packet (map/entry.rs, map/pool.rs, map/packet.rs and the          *)
(* configuration part of map/flow.rs under tools/maja-mergecap/src).       *)
(*                                                                         *)
(* An address is a family, a network and a host, so a prefix is 0 (every   *)
(* address of the family), 1 (the network) or 2 (the address).             *)
(***************************************************************************)
EXTENDS Integers, Sequences, FiniteSets, SequencesExt

CONSTANTS
  Addr,             \* every address: records [family, net, host]
  CatchAll,         \* `from` of an entry without one
  NoFragment,       \* the packet is not a fragment
  NoSession,        \* the packet carries no ports
  Unchanged         \* None, for the target of an endpoint

-----------------------------------------------------------------------------
\* A network is [family, net, host, prefix]; a single address has prefix 2.
InNet(n, a) ==
  /\ n.family = a.family
  /\ n.prefix >= 1 => n.net = a.net
  /\ n.prefix >= 2 => n.host = a.host

\* Pool::from_nets of one network: its addresses, in a fixed order.
Pool(to) == SetToSeq({ a \in Addr : InNet(to, a) })

\* mask_map: the network of `to`, the host bits of the address.
MaskMap(to, a) ==
  IF to.family # a.family THEN Unchanged
  ELSE [a EXCEPT !.net  = IF to.prefix >= 1 THEN to.net ELSE @,
                 !.host = IF to.prefix >= 2 THEN to.host ELSE @]

\* An entry is [from, shape, to, policy]; the map's policy is filled in.
PrefixLen(entry) == IF entry.from = CatchAll THEN 0 ELSE entry.from.prefix

\* Mutant: the shortest prefix comes first.
SortsBeforeReversed(entries, i, j) ==
  \/ PrefixLen(entries[i]) < PrefixLen(entries[j])
  \/ PrefixLen(entries[i]) = PrefixLen(entries[j]) /\ i < j

\* sort_entries: a stable sort, longest prefix first.
SortsBefore(entries, i, j) ==
  \/ PrefixLen(entries[i]) > PrefixLen(entries[j])
  \/ PrefixLen(entries[i]) = PrefixLen(entries[j]) /\ i < j

SortEntries(entries) ==
  [k \in DOMAIN entries |->
     entries[CHOOSE i \in DOMAIN entries :
               Cardinality({ j \in DOMAIN entries : SortsBefore(entries, j, i) }) = k - 1]]

Matches(entry, a) == entry.from = CatchAll \/ InNet(entry.from, a)

\* FlowCfg::classify: the first entry that matches, 0 if there is none.
Classify(entries, a) ==
  LET matching == { i \in DOMAIN entries : Matches(entries[i], a) }
  IN IF matching = {} THEN 0 ELSE CHOOSE i \in matching : \A j \in matching : i <= j

-----------------------------------------------------------------------------
(* A packet is [src, dst, transport, sport, dport, options, fragment]:     *)
(* `options` says that a destination options header stands before the      *)
(* transport of an IPv6 packet, `fragment` is NoFragment or [id, first].   *)
LaterFragment(p) == p.fragment # NoFragment /\ ~ p.fragment.first

\* PacketInfo::proto: the header the dissector gets to see last.  Only the
\* first fragment shows what is behind the options header.
Proto(p) == IF p.options /\ LaterFragment(p) THEN "options" ELSE p.transport

HasPorts(p) == p.transport \in {"tcp", "udp"} /\ ~ LaterFragment(p)

\* SessionId::new: the two endpoints without their direction.
Session(p) ==
  IF HasPorts(p)
  THEN [ends |-> { << p.src, p.sport >>, << p.dst, p.dport >> }, proto |-> Proto(p)]
  ELSE NoSession

\* FragKey: the protocol is the one the fragment header (or the IPv4 header)
\* names, the same in every fragment of the datagram.
FragKey(p) ==
  IF p.fragment = NoFragment THEN NoFragment
  ELSE [src |-> p.src, dst |-> p.dst, id |-> p.fragment.id,
        proto |-> IF p.options THEN "options" ELSE p.transport]

\* What an allocation is keyed by: the datagram of a fragment, else the
\* session, else the address alone.
Identity(key, session, fragment) ==
  CASE key = "address"        -> [kind |-> "address"]
    [] key = "session" /\ fragment # NoFragment -> [kind |-> "fragment", fragment |-> fragment]
    [] key = "session" /\ fragment = NoFragment /\ session # NoSession ->
         [kind |-> "session", session |-> session]
    [] OTHER                  -> [kind |-> "address"]

-----------------------------------------------------------------------------
(* A configuration is [key, entries, exclude, protocols, fragments, scope, *)
(* sharing].                                                               *)

\* The values the fields of an entry take.
IsEntry(e) ==
  /\ e.shape \in {"fixed", "mask", "pool"}
  /\ e.policy \in {"random", "hash", "sticky", "unique"}
  /\ PrefixLen(e) \in 0 .. 2

IsConfig(c) ==
  /\ c = [key |-> c.key, entries |-> c.entries, exclude |-> c.exclude,
          protocols |-> c.protocols, fragments |-> c.fragments,
          scope |-> c.scope, sharing |-> c.sharing]
  /\ c.fragments \in BOOLEAN
  /\ Len(c.entries) \in Nat /\ DOMAIN c.entries = 1 .. Len(c.entries)
  /\ \A i \in DOMAIN c.entries : IsEntry(c.entries[i])

\* What check_flow_map and check_entry accept.
Accepted(cfg) ==
  /\ cfg.entries # << >>
  /\ \A family \in {"v4", "v6"} :
       Cardinality({ i \in DOMAIN cfg.entries :
         cfg.entries[i].from = CatchAll /\ cfg.entries[i].to.family = family }) <= 1
  /\ \A i \in DOMAIN cfg.entries : LET e == cfg.entries[i] IN
       /\ e.from # CatchAll => e.from.family = e.to.family
       /\ e.shape = "fixed" => e.to.prefix = 2
       /\ e.shape = "mask"  => e.from # CatchAll

IsPool(entry)   == entry.shape = "pool"
Stateful(entry) == IsPool(entry) /\ entry.policy \in {"sticky", "unique"}

Excluded(cfg, a) == \E n \in cfg.exclude : InNet(n, a)
=============================================================================
