------------------------------ MODULE FlowAlloc ------------------------------
(***************************************************************************)
(* The state of maja-mergecap's flow_map (FlowState, Allocation, AllocSlot *)
(* and MapRuntime in tools/maja-mergecap/src/map.rs and map/flow.rs):      *)
(* allocation tables, the walks through the pools and the cache of         *)
(* fragmented datagrams, over the packets of several files.                *)
(*                                                                         *)
(* The reader of a file rewrites each packet once per parallel group, in   *)
(* order; the merge decides which file is read next.                       *)
(***************************************************************************)
EXTENDS FlowMap, Functions

CONSTANTS
  Configs,          \* flow maps a run may use, the same one in every file
  Packets,          \* what the files may hold
  Files, GroupCount,
  HashIndex(_),     \* hash_index: a key to a number
  MaxReads,         \* bound: packets read from all files
  NoPacket

ASSUME FlowAllocAssumption ==
  /\ \A c \in Configs : IsConfig(c) /\ Accepted(c)
  /\ GroupCount \in Nat \ {0} /\ MaxReads \in Nat
  /\ \A p \in Packets : p.fragment # NoFragment => FragKey(p) # NoFragment
  /\ IsFiniteSet(Addr)

Groups == 1 .. GroupCount

VARIABLES
  cfg,              \* the compiled map: entries sorted; never changes
  walk,             \* per slot and entry: [start, step] of its Sequence; never changes
  slots,            \* per slot: [table, drawn]
  fragments,        \* per file and group: the cached targets of datagrams
  now,              \* the packet being rewritten: [file, packet, group]
  reads,
  mapped            \* history: every rewrite [file, group, packet, src, dst]

vars == << cfg, walk, slots, fragments, now, reads, mapped >>

-----------------------------------------------------------------------------
\* Allocation::slot, and whose allocation it is.
SlotOf(file, group) ==
  << IF cfg.scope = "global" THEN "global" ELSE file,
     IF cfg.sharing = "shared" THEN 1 ELSE group >>

SlotsOf(c) ==
  (IF c.scope = "global" THEN {"global"} ELSE Files)
    \X (IF c.sharing = "shared" THEN {1} ELSE Groups)

Slots == SlotsOf(cfg)

Gcd(a, b) == CHOOSE d \in 1 .. a : /\ a % d = 0 /\ b % d = 0
                                   /\ \A e \in 1 .. a : a % e = 0 /\ b % e = 0 => e <= d

\* Mutant: any step will do.
WalksAnyStep(n) ==
  IF n <= 1 THEN { [start |-> 0, step |-> 1] }
  ELSE { [start |-> s, step |-> t] : s \in 0 .. n - 1, t \in 1 .. n }

\* Sequence::new: any start, any step that is coprime with the pool.
Walks(n) ==
  IF n <= 1 THEN { [start |-> 0, step |-> 1] }
  ELSE { [start |-> s, step |-> t] :
           s \in 0 .. n - 1, t \in { t \in 1 .. n - 1 : Gcd(t, n) = 1 } }

PoolLen(entry) == IF IsPool(entry) THEN Len(Pool(entry.to)) ELSE 0

\* Only the walks of `unique` entries are ever taken.
WalksOf(c) ==
  { w \in [SlotsOf(c) -> [DOMAIN c.entries ->
             UNION { Walks(PoolLen(c.entries[i])) : i \in DOMAIN c.entries }]] :
      \A s \in SlotsOf(c), i \in DOMAIN c.entries :
        LET e == c.entries[i] IN
        w[s][i] \in IF IsPool(e) /\ e.policy = "unique" THEN Walks(PoolLen(e)) ELSE Walks(0) }

Init ==
  /\ \E c \in Configs : cfg = [c EXCEPT !.entries = SortEntries(c.entries)]
  /\ walk  \in WalksOf(cfg)
  /\ slots = [s \in Slots |-> [table |-> << >>, drawn |-> [i \in DOMAIN cfg.entries |-> 0]]]
  /\ fragments = [f \in Files |-> [g \in Groups |-> << >>]]
  /\ now    = NoPacket
  /\ reads  = 0
  /\ mapped = {}

-----------------------------------------------------------------------------
(* The outcomes of target_for: the target and the slot it leaves behind.   *)

Outcome(target, slot) == [target |-> target, slot |-> slot]

\* HashMap::insert
Insert(table, key, value) ==
  [k \in DOMAIN table \cup {key} |-> IF k = key THEN value ELSE table[k]]

Stored(slot, id, target) == [slot EXCEPT !.table = Insert(@, id, target)]

\* Mutant: the drawn address is not remembered.
StickyForgets(slot, id) ==
  { Outcome(a, slot) : a \in ToSet(Pool(cfg.entries[id.entry].to)) }

\* AllocSlot::sticky
Sticky(slot, id) ==
  IF id \in DOMAIN slot.table THEN { Outcome(slot.table[id], slot) }
  ELSE { Outcome(a, Stored(slot, id, a)) : a \in ToSet(Pool(cfg.entries[id.entry].to)) }

NextIndex(w, drawn, n) == (w.start + (drawn % n) * w.step) % n

\* AllocSlot::unique
Unique(s, slot, id) ==
  IF id \in DOMAIN slot.table THEN { Outcome(slot.table[id], slot) }
  ELSE LET pool   == Pool(cfg.entries[id.entry].to)
           target == pool[NextIndex(walk[s][id.entry], slot.drawn[id.entry], Len(pool)) + 1]
       IN { Outcome(target, [Stored(slot, id, target) EXCEPT !.drawn[id.entry] = @ + 1]) }

\* target_for of a pool entry.
Drawn(s, slot, i, a, identity) ==
  LET entry == cfg.entries[i]
      id    == [entry |-> i, identity |-> identity, addr |-> a]
      pool  == Pool(entry.to)
  IN CASE entry.policy = "random" -> { Outcome(b, slot) : b \in ToSet(pool) }
       [] entry.policy = "hash"   -> { Outcome(pool[(HashIndex(id) % Len(pool)) + 1], slot) }
       [] entry.policy = "sticky" -> Sticky(slot, id)
       [] entry.policy = "unique" -> Unique(s, slot, id)

TargetFor(s, slot, a, session, fragment) ==
  LET i == Classify(cfg.entries, a) IN
  IF Excluded(cfg, a) \/ i = 0 THEN { Outcome(Unchanged, slot) }
  ELSE LET entry == cfg.entries[i] IN
    CASE entry.shape = "fixed" ->
           { Outcome(IF entry.to.family = a.family
                     THEN CHOOSE b \in Addr : InNet(entry.to, b) ELSE Unchanged, slot) }
      [] entry.shape = "mask"  -> { Outcome(MaskMap(entry.to, a), slot) }
      [] entry.shape = "pool"  -> Drawn(s, slot, i, a, Identity(cfg.key, session, fragment))

\* FlowCfg::needs_alias: an endpoint that is drawn anew for every packet.
NeedsAlias(p) ==
  \E a \in {p.src, p.dst} :
    LET i == Classify(cfg.entries, a) IN
    i # 0 /\ IsPool(cfg.entries[i]) /\ cfg.entries[i].policy = "random"

-----------------------------------------------------------------------------
\* The reader of file f has packet p for its groups.
Read(f, p) ==
  /\ now = NoPacket /\ reads < MaxReads
  /\ now'   = [file |-> f, packet |-> p, group |-> 1]
  /\ reads' = reads + 1
  /\ UNCHANGED << cfg, walk, slots, fragments, mapped >>

\* The same packet for the next parallel group, then the next packet.
NextGroup ==
  now' = IF now.group = GroupCount THEN NoPacket ELSE [now EXCEPT !.group = @ + 1]

Record(src, dst) ==
  mapped' = mapped \cup { [file |-> now.file, group |-> now.group, packet |-> now.packet,
                           src |-> src, dst |-> dst] }

\* A protocol that takes no part leaves the packet as it is.
PassOver ==
  /\ now # NoPacket /\ Proto(now.packet) \notin cfg.protocols
  /\ Record(Unchanged, Unchanged)
  /\ NextGroup
  /\ UNCHANGED << cfg, walk, slots, fragments, reads >>

TakesPart == now # NoPacket /\ Proto(now.packet) \in cfg.protocols

\* The datagram a packet is grouped by, if fragments are grouped at all.
Datagram == IF cfg.fragments THEN FragKey(now.packet) ELSE NoFragment

Aliased == Datagram # NoFragment /\ NeedsAlias(now.packet)
Cached  == Aliased /\ Datagram \in DOMAIN fragments[now.file][now.group]

\* A fragment of a datagram whose targets are in the cache.
Repeat ==
  /\ TakesPart /\ Cached
  /\ LET targets == fragments[now.file][now.group][Datagram] IN
     Record(targets.src, targets.dst)
  /\ NextGroup
  /\ UNCHANGED << cfg, walk, slots, fragments, reads >>

\* Mutant: the targets of a datagram are not put into the cache.
RewriteUncached ==
  /\ TakesPart /\ ~ Cached
  /\ LET p == now.packet
         s == SlotOf(now.file, now.group) IN
     \E src \in TargetFor(s, slots[s], p.src, Session(p), Datagram) :
     \E dst \in TargetFor(s, src.slot, p.dst, Session(p), Datagram) :
       /\ slots' = [slots EXCEPT ![s] = dst.slot]
       /\ Record(src.target, dst.target)
  /\ NextGroup
  /\ UNCHANGED << cfg, walk, fragments, reads >>

\* FlowState::targets_for: the source first, then the destination.
Rewrite ==
  /\ TakesPart /\ ~ Cached
  /\ LET p == now.packet
         s == SlotOf(now.file, now.group) IN
     \E src \in TargetFor(s, slots[s], p.src, Session(p), Datagram) :
     \E dst \in TargetFor(s, src.slot, p.dst, Session(p), Datagram) :
       /\ slots' = [slots EXCEPT ![s] = dst.slot]
       /\ fragments' = IF ~ Aliased THEN fragments
                       ELSE [fragments EXCEPT ![now.file][now.group] =
                               Insert(@, Datagram, [src |-> src.target, dst |-> dst.target])]
       /\ Record(src.target, dst.target)
  /\ NextGroup
  /\ UNCHANGED << cfg, walk, reads >>

Next ==
  \/ \E f \in Files, p \in Packets : Read(f, p)
  \/ PassOver \/ Repeat \/ Rewrite

Spec == Init /\ [][Next]_vars

-----------------------------------------------------------------------------
(* Properties                                                              *)

AllocIds == [entry : DOMAIN cfg.entries, identity :
  { Identity(cfg.key, Session(p), IF cfg.fragments THEN FragKey(p) ELSE NoFragment) : p \in Packets },
  addr : Addr]

\* `unique` hands out no address twice before the pool is used up, whatever the
\* order in which the keys of several files and groups arrive.
UniqueUntilExhausted ==
  \A s \in Slots, i \in DOMAIN cfg.entries :
    LET table == slots[s].table
        ids   == { id \in DOMAIN table : id.entry = i }
    IN /\ IsPool(cfg.entries[i]) /\ cfg.entries[i].policy = "unique"
       /\ Cardinality(ids) <= PoolLen(cfg.entries[i])
       => \A j, k \in ids : j # k => table[j] # table[k]

SameTable(m, n) ==
  /\ cfg.scope = "global" \/ m.file = n.file
  /\ cfg.sharing = "shared" \/ m.group = n.group

Rewritten == { m \in mapped : Proto(m.packet) \in cfg.protocols }

\* An endpoint keeps its target: it is not drawn anew for every packet.
Kept(a) == ~ \E i \in {Classify(cfg.entries, a)} \ {0} :
  IsPool(cfg.entries[i]) /\ cfg.entries[i].policy = "random"

\* "flow_map remembers the target per key, so both directions of a connection
\* get the same pair": in one table, over all files and groups that share it.
OnePairPerConnection ==
  \A m, n \in { m \in Rewritten : m.packet.fragment = NoFragment /\ HasPorts(m.packet) } :
    /\ SameTable(m, n) /\ m.packet.transport = n.packet.transport
    /\ Kept(m.packet.src) /\ Kept(m.packet.dst)
    => /\ << m.packet.src, m.packet.sport, m.packet.dst, m.packet.dport >>
             = << n.packet.src, n.packet.sport, n.packet.dst, n.packet.dport >>
          => m.src = n.src /\ m.dst = n.dst
       /\ << m.packet.src, m.packet.sport, m.packet.dst, m.packet.dport >>
             = << n.packet.dst, n.packet.dport, n.packet.src, n.packet.sport >>
          => m.src = n.dst /\ m.dst = n.src

\* "give every fragment of a datagram the same target": under every policy,
\* `random` among them, and in whatever order the fragments come.
FragmentsTogether ==
  cfg.fragments =>
    \A m, n \in mapped :
      /\ m.file = n.file /\ m.group = n.group
      /\ m.packet.fragment # NoFragment /\ FragKey(m.packet) = FragKey(n.packet)
      => m.src = n.src /\ m.dst = n.dst

\* The most specific `from` wins; a catch-all gets what no rule matches.
MostSpecificWins ==
  \A a \in Addr : LET i == Classify(cfg.entries, a) IN
    \A j \in DOMAIN cfg.entries : Matches(cfg.entries[j], a) =>
      /\ PrefixLen(cfg.entries[j]) <= PrefixLen(cfg.entries[i])
      /\ cfg.entries[i].from = CatchAll => cfg.entries[j].from = CatchAll

=============================================================================
