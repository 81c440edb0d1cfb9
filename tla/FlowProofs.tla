----------------------------- MODULE FlowProofs -----------------------------
(***************************************************************************)
(* Packets of a flow belong together, in two tools.                        *)
(*                                                                         *)
(* What mergecap's flow_map promises, proved for any configurations,       *)
(* packets, files, groups, pools and hash function: the most specific      *)
(* entry wins, the packets of a connection and the fragments of a datagram *)
(* keep their targets, and `unique` repeats none before its pool is used   *)
(* up.                                                                     *)
(*                                                                         *)
(* Which packets splitcap writes to which file, for every capture, every   *)
(* granularity and every operation that may fail: the invariant says what  *)
(* the flows of the first pass hold, how far each file is, and that one    *)
(* file at a time is incomplete, or that all of them end at one packet.    *)
(***************************************************************************)
EXTENDS FlowAlloc, Split, FiniteSetTheorems, SequenceTheorems, TLAPS

-----------------------------------------------------------------------------
(* Sorting and classification                                              *)

\* The entries a stable sort puts before entry i.
Earlier(entries, i) == { j \in DOMAIN entries : SortsBefore(entries, j, i) }

Sortable(entries) ==
  /\ Len(entries) \in Nat /\ DOMAIN entries = 1 .. Len(entries)
  /\ \A i \in DOMAIN entries : PrefixLen(entries[i]) \in Nat

\* SortsBefore is a strict total order on the entries.
LEMMA SortsBeforeOrders ==
  ASSUME NEW entries, Sortable(entries)
  PROVE  \A i, j, k \in DOMAIN entries :
           /\ ~ SortsBefore(entries, i, i)
           /\ i = j \/ SortsBefore(entries, i, j) \/ SortsBefore(entries, j, i)
           /\ SortsBefore(entries, i, j) /\ SortsBefore(entries, j, k)
              => SortsBefore(entries, i, k)
<1> SUFFICES ASSUME NEW i \in DOMAIN entries, NEW j \in DOMAIN entries, NEW k \in DOMAIN entries
             PROVE  /\ ~ SortsBefore(entries, i, i)
                    /\ i = j \/ SortsBefore(entries, i, j) \/ SortsBefore(entries, j, i)
                    /\ SortsBefore(entries, i, j) /\ SortsBefore(entries, j, k)
                       => SortsBefore(entries, i, k)
  OBVIOUS
<1>1. /\ i \in Int /\ j \in Int /\ k \in Int
      /\ PrefixLen(entries[i]) \in Int /\ PrefixLen(entries[j]) \in Int
      /\ PrefixLen(entries[k]) \in Int
  BY DEF Sortable
<1> QED  BY <1>1 DEF SortsBefore

\* The number of entries before an entry is its position in the sorted map.
LEMMA EarlierCounts ==
  ASSUME NEW entries, Sortable(entries), NEW k \in DOMAIN entries
  PROVE  /\ IsFiniteSet(Earlier(entries, k))
         /\ Cardinality(Earlier(entries, k)) \in 0 .. Len(entries) - 1
<1>1. IsFiniteSet(DOMAIN entries) /\ Cardinality(DOMAIN entries) = Len(entries)
  <2>1. 1 \in Int /\ Len(entries) \in Int /\ Len(entries) \in Nat
    BY DEF Sortable
  <2>2. /\ IsFiniteSet(1 .. Len(entries))
        /\ Cardinality(1 .. Len(entries)) = IF 1 > Len(entries) THEN 0 ELSE Len(entries) - 1 + 1
    BY <2>1, FS_Interval
  <2>3. (IF 1 > Len(entries) THEN 0 ELSE Len(entries) - 1 + 1) = Len(entries)
    BY <2>1
  <2> QED  BY <2>2, <2>3 DEF Sortable
<1>2. k \notin Earlier(entries, k) /\ Earlier(entries, k) \in SUBSET DOMAIN entries
  BY SortsBeforeOrders DEF Earlier
<1>3. /\ IsFiniteSet(Earlier(entries, k))
      /\ Cardinality(Earlier(entries, k)) <= Cardinality(DOMAIN entries)
      /\ Cardinality(DOMAIN entries) = Cardinality(Earlier(entries, k))
         => DOMAIN entries = Earlier(entries, k)
  BY <1>1, <1>2, FS_Subset
<1>4. Cardinality(Earlier(entries, k)) \in Nat
  BY <1>3, FS_CardinalityType
<1> QED  BY <1>1, <1>2, <1>3, <1>4 DEF Sortable

\* What comes first has fewer entries before it.
LEMMA EarlierGrows ==
  ASSUME NEW entries, Sortable(entries),
         NEW i \in DOMAIN entries, NEW j \in DOMAIN entries, SortsBefore(entries, i, j)
  PROVE  Cardinality(Earlier(entries, i)) < Cardinality(Earlier(entries, j))
<1>1. /\ Earlier(entries, i) \in SUBSET Earlier(entries, j)
      /\ i \in Earlier(entries, j) /\ i \notin Earlier(entries, i)
  BY SortsBeforeOrders DEF Earlier
<1>2. /\ IsFiniteSet(Earlier(entries, j))
      /\ Cardinality(Earlier(entries, i)) \in Int /\ Cardinality(Earlier(entries, j)) \in Int
  BY EarlierCounts
<1>3. /\ Cardinality(Earlier(entries, i)) <= Cardinality(Earlier(entries, j))
      /\ Cardinality(Earlier(entries, j)) = Cardinality(Earlier(entries, i))
         => Earlier(entries, j) = Earlier(entries, i)
  BY <1>1, <1>2, FS_Subset
<1> QED  BY <1>1, <1>2, <1>3

\* Each position is taken by the entry that has as many before it.
LEMMA SortedEntry ==
  ASSUME NEW entries, Sortable(entries), NEW k \in DOMAIN entries
  PROVE  \E i \in DOMAIN entries :
           /\ SortEntries(entries)[k] = entries[i]
           /\ Cardinality(Earlier(entries, i)) = k - 1
<1> DEFINE n == Len(entries)
           S == DOMAIN entries
           T == 0 .. n - 1
           rank == [i \in S |-> Cardinality(Earlier(entries, i))]
<1>1. n \in Nat /\ S = 1 .. n
  BY DEF Sortable
<1>2. IsFiniteSet(S) /\ IsFiniteSet(T) /\ Cardinality(S) = n /\ Cardinality(T) = n
  <2>1. 1 \in Int /\ n \in Int /\ 0 \in Int /\ n - 1 \in Int
    BY <1>1
  <2>2. IsFiniteSet(1 .. n) /\ Cardinality(1 .. n) = IF 1 > n THEN 0 ELSE n - 1 + 1
    BY <2>1, FS_Interval
  <2>3. IsFiniteSet(T) /\ Cardinality(T) = IF 0 > n - 1 THEN 0 ELSE n - 1 - 0 + 1
    BY <2>1, FS_Interval
  <2> HIDE DEF n
  <2>4. (IF 1 > n THEN 0 ELSE n - 1 + 1) = n /\ (IF 0 > n - 1 THEN 0 ELSE n - 1 - 0 + 1) = n
    BY <1>1
  <2> QED  BY <1>1, <2>2, <2>3, <2>4
<1>3. rank \in Injection(S, T)
  <2>1. rank \in [S -> T]
    BY EarlierCounts
  <2>2. ASSUME NEW i \in S, NEW j \in S, i # j
        PROVE  rank[i] # rank[j]
    <3>1. SortsBefore(entries, i, j) \/ SortsBefore(entries, j, i)
      BY <2>2, SortsBeforeOrders
    <3>2. Cardinality(Earlier(entries, i)) \in Int /\ Cardinality(Earlier(entries, j)) \in Int
      BY EarlierCounts
    <3>3. Cardinality(Earlier(entries, i)) # Cardinality(Earlier(entries, j))
      BY <3>1, <3>2, EarlierGrows
    <3> QED  BY <3>3
  <2> QED  BY <2>1, <2>2 DEF Injection, IsInjective
<1>4. rank \in Surjection(S, T)
  BY <1>2, <1>3, FS_Injection
<1>5. PICK i \in S : Cardinality(Earlier(entries, i)) = k - 1
  <2>1. k - 1 \in T
    BY <1>1
  <2>2. \E i \in S : rank[i] = k - 1
    BY <1>4, <2>1 DEF Surjection
  <2> QED  BY <2>2
<1>6. \E h \in S : Cardinality({ j \in S : SortsBefore(entries, j, h) }) = k - 1
  BY <1>5 DEF Earlier
<1> QED  BY <1>6 DEF SortEntries, Earlier

\* A sorted map holds the same entries, those with longer prefixes first.
LEMMA SortedMap ==
  ASSUME NEW entries, Sortable(entries)
  PROVE  /\ DOMAIN SortEntries(entries) = DOMAIN entries
         /\ \A k \in DOMAIN entries : \E i \in DOMAIN entries : SortEntries(entries)[k] = entries[i]
         /\ \A k, l \in DOMAIN entries :
              k < l => PrefixLen(SortEntries(entries)[l]) <= PrefixLen(SortEntries(entries)[k])
<1>1. DOMAIN SortEntries(entries) = DOMAIN entries
  BY DEF SortEntries
<1>2. \A k \in DOMAIN entries : \E i \in DOMAIN entries : SortEntries(entries)[k] = entries[i]
  BY SortedEntry
<1>3. ASSUME NEW k \in DOMAIN entries, NEW l \in DOMAIN entries, k < l
      PROVE  PrefixLen(SortEntries(entries)[l]) <= PrefixLen(SortEntries(entries)[k])
  <2>1. PICK i \in DOMAIN entries : /\ SortEntries(entries)[k] = entries[i]
                                    /\ Cardinality(Earlier(entries, i)) = k - 1
    BY SortedEntry
  <2>2. PICK j \in DOMAIN entries : /\ SortEntries(entries)[l] = entries[j]
                                    /\ Cardinality(Earlier(entries, j)) = l - 1
    BY SortedEntry
  <2>3. k \in Int /\ l \in Int
    BY DEF Sortable
  <2>4. i # j /\ ~ SortsBefore(entries, j, i)
    BY <1>3, <2>1, <2>2, <2>3, EarlierGrows
  <2>5. SortsBefore(entries, i, j)
    BY <2>4, SortsBeforeOrders
  <2>6. PrefixLen(entries[i]) \in Int /\ PrefixLen(entries[j]) \in Int
    BY DEF Sortable
  <2> QED  BY <2>1, <2>2, <2>5, <2>6 DEF SortsBefore
<1> QED  BY <1>1, <1>2, <1>3

\* A set of numbers that is not empty has a least one.
LEMMA LeastNumber ==
  ASSUME NEW A \in SUBSET Nat, A # {}
  PROVE  \E m \in A : \A k \in A : m <= k
<1>1. PICK n \in A : TRUE
  OBVIOUS
<1> DEFINE U == 0 .. n
           T == { 0 .. m : m \in { m \in A : m <= n } }
<1>2. IsFiniteSet(U)
  BY <1>1, FS_Interval
<1>3. \A X \in T : X \in SUBSET U
  BY <1>1
<1>4. T \subseteq FiniteSubsetsOf(U) /\ T # {}
  BY <1>1, <1>2, <1>3, FS_FiniteSubsetsOfFinite
<1>5. PICK X \in T : \A Y \in T : << Y, X >> \notin StrictSubsetOrdering(U)
  BY <1>4, FS_StrictSubsetOrderingWellFounded, WFMin
<1>6. PICK m \in A : X = 0 .. m /\ m <= n
  BY <1>5
<1>7. ASSUME NEW k \in A, ~ m <= k
      PROVE  FALSE
  <2>1. m \in Nat /\ k \in Nat /\ n \in Nat /\ k < m
    BY <1>7
  <2>2. 0 .. k \in T
    BY <1>6, <2>1
  <2>3. 0 .. k \subseteq 0 .. m /\ m \in 0 .. m /\ m \notin 0 .. k
    BY <2>1
  <2>4. << 0 .. k, X >> \in StrictSubsetOrdering(U)
    BY <1>3, <1>6, <2>2, <2>3 DEF StrictSubsetOrdering
  <2> QED  BY <1>5, <2>2, <2>4
<1> QED  BY <1>7

\* An address belongs to the first entry that matches it.
LEMMA FirstMatch ==
  ASSUME NEW entries, Sortable(entries), NEW a
  PROVE  \/ /\ Classify(entries, a) = 0
            /\ \A j \in DOMAIN entries : ~ Matches(entries[j], a)
         \/ /\ Classify(entries, a) \in DOMAIN entries
            /\ Matches(entries[Classify(entries, a)], a)
            /\ \A j \in DOMAIN entries : Matches(entries[j], a) => Classify(entries, a) <= j
<1> DEFINE matching == { i \in DOMAIN entries : Matches(entries[i], a) }
<1>1. CASE matching = {}
  BY <1>1 DEF Classify
<1>2. CASE matching # {}
  <2>1. matching \in SUBSET Nat
    BY DEF Sortable
  <2>2. \E m \in matching : \A k \in matching : m <= k
    BY <1>2, <2>1, LeastNumber
  <2>3. Classify(entries, a) = CHOOSE m \in matching : \A k \in matching : m <= k
    BY <1>2 DEF Classify
  <2>4. /\ Classify(entries, a) \in matching
        /\ \A k \in matching : Classify(entries, a) <= k
    BY <2>2, <2>3
  <2> QED  BY <2>4
<1> QED  BY <1>1, <1>2

-----------------------------------------------------------------------------
(* The compiled map                                                        *)

\* The map is one of the configured ones, sorted.
Compiled == \E c \in Configs : cfg = [c EXCEPT !.entries = SortEntries(c.entries)]

\* No map has both a catch-all and a rule for a network that is everything.
NoRuleForEverything ==
  \A c \in Configs : \A i, j \in DOMAIN c.entries :
    c.entries[i].from = CatchAll /\ PrefixLen(c.entries[j]) = 0 => c.entries[j].from = CatchAll

\* What sorting leaves of the configuration.
LEMMA CompiledMap ==
  ASSUME Compiled
  PROVE  /\ Sortable(cfg.entries) /\ cfg.fragments \in BOOLEAN
         /\ \A i \in DOMAIN cfg.entries : IsEntry(cfg.entries[i])
         /\ \A i, j \in DOMAIN cfg.entries :
              i < j => PrefixLen(cfg.entries[j]) <= PrefixLen(cfg.entries[i])
         /\ NoRuleForEverything => \A i, j \in DOMAIN cfg.entries :
              cfg.entries[i].from = CatchAll /\ PrefixLen(cfg.entries[j]) = 0
              => cfg.entries[j].from = CatchAll
<1>1. PICK c \in Configs : cfg = [c EXCEPT !.entries = SortEntries(c.entries)]
  BY DEF Compiled
<1>2. IsConfig(c)
  BY FlowAllocAssumption
<1>3. cfg.entries = SortEntries(c.entries) /\ cfg.fragments = c.fragments
  BY <1>1, <1>2 DEF IsConfig
<1>4. /\ Len(c.entries) \in Nat /\ DOMAIN c.entries = 1 .. Len(c.entries)
      /\ \A i \in DOMAIN c.entries : IsEntry(c.entries[i])
      /\ c.fragments \in BOOLEAN
  BY <1>2 DEF IsConfig
<1>5. Sortable(c.entries)
  BY <1>4 DEF Sortable, IsEntry
<1>6. /\ DOMAIN cfg.entries = DOMAIN c.entries
      /\ \A k \in DOMAIN c.entries : \E i \in DOMAIN c.entries : cfg.entries[k] = c.entries[i]
      /\ \A k, l \in DOMAIN c.entries :
           k < l => PrefixLen(cfg.entries[l]) <= PrefixLen(cfg.entries[k])
  BY <1>3, <1>5, SortedMap
<1>7. \A i \in DOMAIN cfg.entries : IsEntry(cfg.entries[i])
  BY <1>4, <1>6
<1>8. Sortable(cfg.entries)
  <2> DEFINE S == { c.entries[i] : i \in DOMAIN c.entries }
             n == Len(c.entries)
  <2>1. cfg.entries = [k \in 1 .. n |-> cfg.entries[k]]
    BY <1>3, <1>4 DEF SortEntries
  <2>2. \A k \in 1 .. n : cfg.entries[k] \in S
    BY <1>4, <1>6
  <2>3. cfg.entries \in Seq(S)
    BY <1>4, <2>1, <2>2
  <2>4. Len(cfg.entries) \in Nat /\ DOMAIN cfg.entries = 1 .. Len(cfg.entries)
    BY <2>3
  <2> QED  BY <1>7, <2>4 DEF Sortable, IsEntry
<1>9. ASSUME NoRuleForEverything, NEW i \in DOMAIN cfg.entries, NEW j \in DOMAIN cfg.entries,
             cfg.entries[i].from = CatchAll, PrefixLen(cfg.entries[j]) = 0
      PROVE  cfg.entries[j].from = CatchAll
  BY <1>6, <1>9 DEF NoRuleForEverything
<1> QED  BY <1>3, <1>4, <1>6, <1>7, <1>8, <1>9

\* The map never changes.
LEMMA StaysCompiled == Spec => []Compiled
<1>1. Init => Compiled
  BY DEF Init, Compiled
<1>2. Compiled /\ [Next]_vars => Compiled'
  <2>1. [Next]_vars => cfg' = cfg
    BY DEF Next, vars, Read, PassOver, Repeat, Rewrite
  <2> QED  BY <2>1 DEF Compiled
<1> QED  BY <1>1, <1>2, PTL DEF Spec

\* FlowCfg::classify takes the first entry that matches, and sort_entries has put the most
\* specific one first, for maps of any length; a catch-all gets what no rule matches unless
\* a rule is for a network that is everything.
THEOREM MostSpecificEntryWins == NoRuleForEverything => (Spec => []MostSpecificWins)
<1>1. ASSUME NoRuleForEverything, Compiled
      PROVE  MostSpecificWins
  <2> SUFFICES ASSUME NEW a \in Addr, NEW j \in DOMAIN cfg.entries, Matches(cfg.entries[j], a)
               PROVE  LET i == Classify(cfg.entries, a) IN
                        /\ PrefixLen(cfg.entries[j]) <= PrefixLen(cfg.entries[i])
                        /\ cfg.entries[i].from = CatchAll => cfg.entries[j].from = CatchAll
    BY DEF MostSpecificWins
  <2> DEFINE i == Classify(cfg.entries, a)
  <2>1. Sortable(cfg.entries)
    BY <1>1, CompiledMap
  <2>2. i \in DOMAIN cfg.entries /\ i <= j
    BY <2>1, FirstMatch
  <2>3. i \in Int /\ j \in Int
    BY <2>1, <2>2 DEF Sortable
  <2>4. PrefixLen(cfg.entries[j]) \in Nat /\ PrefixLen(cfg.entries[i]) \in Nat
    BY <2>1, <2>2 DEF Sortable
  <2>5. PrefixLen(cfg.entries[j]) <= PrefixLen(cfg.entries[i])
    <3>1. CASE i = j
      BY <2>4, <3>1
    <3>2. CASE i < j
      BY <1>1, <2>2, <3>2, CompiledMap
    <3> QED  BY <2>2, <2>3, <3>1, <3>2
  <2>6. ASSUME cfg.entries[i].from = CatchAll
        PROVE  cfg.entries[j].from = CatchAll
    <3>1. PrefixLen(cfg.entries[i]) = 0
      BY <2>6 DEF PrefixLen
    <3>2. PrefixLen(cfg.entries[j]) = 0
      BY <2>4, <2>5, <3>1
    <3> QED  BY <1>1, <2>2, <2>6, <3>2, CompiledMap
  <2> QED  BY <2>5, <2>6
<1> SUFFICES ASSUME NoRuleForEverything PROVE Spec => []MostSpecificWins
  OBVIOUS
<1> QED  BY <1>1, StaysCompiled, PTL

-----------------------------------------------------------------------------
(* The allocation tables: what a lookup leaves behind                      *)

IsSlot(slot) == slot = [table |-> slot.table, drawn |-> slot.drawn]

\* No entry of a table is lost or overwritten.
Grows(slot, after) ==
  /\ DOMAIN slot.table \subseteq DOMAIN after.table
  /\ \A id \in DOMAIN slot.table : after.table[id] = slot.table[id]

\* Asked again, the slot gives the same target and stays as it is.
Settled(s, slot, a, session, fragment, target) ==
  TargetFor(s, slot, a, session, fragment) = { Outcome(target, slot) }

LEMMA OutcomeFields ==
  ASSUME NEW t, NEW slot
  PROVE  Outcome(t, slot).target = t /\ Outcome(t, slot).slot = slot
BY DEF Outcome

LEMMA GrowsOrder ==
  ASSUME NEW x, NEW y, NEW z
  PROVE  Grows(x, x) /\ (Grows(x, y) /\ Grows(y, z) => Grows(x, z))
BY DEF Grows

\* A table keeps what it holds when a new key is stored.
LEMMA StoredSlot ==
  ASSUME NEW slot, IsSlot(slot), NEW id, NEW t
  PROVE  /\ IsSlot(Stored(slot, id, t))
         /\ Stored(slot, id, t).drawn = slot.drawn
         /\ id \in DOMAIN Stored(slot, id, t).table /\ Stored(slot, id, t).table[id] = t
         /\ id \notin DOMAIN slot.table => Grows(slot, Stored(slot, id, t))
<1>1. Stored(slot, id, t) = [table |-> Insert(slot.table, id, t), drawn |-> slot.drawn]
  BY DEF IsSlot, Stored
<1>2. /\ DOMAIN Insert(slot.table, id, t) = DOMAIN slot.table \cup {id}
      /\ Insert(slot.table, id, t)[id] = t
      /\ \A k \in DOMAIN slot.table : k # id => Insert(slot.table, id, t)[k] = slot.table[k]
  BY DEF Insert
<1> QED  BY <1>1, <1>2 DEF IsSlot, Grows

\* AllocSlot::sticky
LEMMA StickyAnswers ==
  ASSUME NEW slot, IsSlot(slot), NEW id, NEW o \in Sticky(slot, id)
  PROVE  /\ IsSlot(o.slot) /\ Grows(slot, o.slot)
         /\ id \in DOMAIN o.slot.table /\ o.slot.table[id] = o.target
<1>1. CASE id \in DOMAIN slot.table
  <2>1. o = Outcome(slot.table[id], slot)
    BY <1>1 DEF Sticky
  <2> QED  BY <1>1, <2>1, OutcomeFields, GrowsOrder
<1>2. CASE id \notin DOMAIN slot.table
  <2>1. PICK t : o = Outcome(t, Stored(slot, id, t))
    BY <1>2 DEF Sticky
  <2> QED  BY <1>2, <2>1, OutcomeFields, StoredSlot
<1> QED  BY <1>1, <1>2

\* AllocSlot::unique
LEMMA UniqueAnswers ==
  ASSUME NEW s, NEW slot, IsSlot(slot), NEW id, NEW o \in Unique(s, slot, id)
  PROVE  /\ IsSlot(o.slot) /\ Grows(slot, o.slot)
         /\ id \in DOMAIN o.slot.table /\ o.slot.table[id] = o.target
<1>1. CASE id \in DOMAIN slot.table
  <2>1. o = Outcome(slot.table[id], slot)
    BY <1>1 DEF Unique
  <2> QED  BY <1>1, <2>1, OutcomeFields, GrowsOrder
<1>2. CASE id \notin DOMAIN slot.table
  <2>1. PICK t : o = Outcome(t, [Stored(slot, id, t) EXCEPT !.drawn[id.entry] = @ + 1])
    BY <1>2 DEF Unique
  <2>2. /\ o.target = t
        /\ o.slot = [Stored(slot, id, t) EXCEPT !.drawn[id.entry] = @ + 1]
    BY <2>1, OutcomeFields
  <2>3. IsSlot(Stored(slot, id, t))
    BY StoredSlot
  <2>4. IsSlot(o.slot) /\ o.slot.table = Stored(slot, id, t).table
    BY <2>2, <2>3 DEF IsSlot
  <2> QED  BY <1>2, <2>2, <2>4, StoredSlot DEF Grows
<1> QED  BY <1>1, <1>2

\* What sticky and unique answer for a key that is in the table.
LEMMA KnownKey ==
  ASSUME NEW s, NEW slot, NEW id, id \in DOMAIN slot.table
  PROVE  /\ Sticky(slot, id) = { Outcome(slot.table[id], slot) }
         /\ Unique(s, slot, id) = { Outcome(slot.table[id], slot) }
BY DEF Sticky, Unique

\* Only a key that is in the table leaves the slot as it is.
LEMMA UnknownKey ==
  ASSUME NEW s, NEW slot, IsSlot(slot), NEW id, NEW t,
         \/ Sticky(slot, id) = { Outcome(t, slot) }
         \/ Unique(s, slot, id) = { Outcome(t, slot) }
  PROVE  id \in DOMAIN slot.table /\ slot.table[id] = t
<1>1. Outcome(t, slot) \in Sticky(slot, id) \/ Outcome(t, slot) \in Unique(s, slot, id)
  OBVIOUS
<1> QED  BY <1>1, StickyAnswers, UniqueAnswers, OutcomeFields

\* The key target_for looks up for an endpoint of a pool entry.
AllocId(i, a, identity) == [entry |-> i, identity |-> identity, addr |-> a]

LEMMA DrawnByPolicy ==
  ASSUME NEW s, NEW slot, NEW i, NEW a, NEW identity, IsEntry(cfg.entries[i])
  PROVE  LET policy == cfg.entries[i].policy
             pool   == Pool(cfg.entries[i].to)
             id     == AllocId(i, a, identity)
         IN /\ policy \in {"random", "hash", "sticky", "unique"}
            /\ policy = "random" => Drawn(s, slot, i, a, identity) = { Outcome(b, slot) : b \in ToSet(pool) }
            /\ policy = "hash"   => Drawn(s, slot, i, a, identity)
                                     = { Outcome(pool[(HashIndex(id) % Len(pool)) + 1], slot) }
            /\ policy = "sticky" => Drawn(s, slot, i, a, identity) = Sticky(slot, id)
            /\ policy = "unique" => Drawn(s, slot, i, a, identity) = Unique(s, slot, id)
BY DEF Drawn, IsEntry, AllocId

\* An answer out of a pool stays the answer, unless it is drawn for every packet.
LEMMA DrawnAnswers ==
  ASSUME NEW s, NEW slot, IsSlot(slot), NEW i, NEW a, NEW identity, IsEntry(cfg.entries[i]),
         NEW o \in Drawn(s, slot, i, a, identity)
  PROVE  /\ IsSlot(o.slot) /\ Grows(slot, o.slot)
         /\ cfg.entries[i].policy # "random"
            => Drawn(s, o.slot, i, a, identity) = { Outcome(o.target, o.slot) }
<1> DEFINE policy == cfg.entries[i].policy
           pool == Pool(cfg.entries[i].to)
           id == AllocId(i, a, identity)
<1>1. CASE policy = "random"
  <2>1. PICK b : o = Outcome(b, slot)
    BY <1>1, DrawnByPolicy
  <2> QED  BY <1>1, <2>1, OutcomeFields, GrowsOrder
<1>2. CASE policy = "hash"
  <2> DEFINE b == pool[(HashIndex(id) % Len(pool)) + 1]
  <2>1. Drawn(s, slot, i, a, identity) = { Outcome(b, slot) }
    BY <1>2, DrawnByPolicy
  <2> HIDE DEF b
  <2>2. o.slot = slot /\ o.target = b
    BY <2>1, OutcomeFields
  <2> QED  BY <2>1, <2>2, GrowsOrder
<1>3. CASE policy = "sticky"
  <2>1. o \in Sticky(slot, id)
    BY <1>3, DrawnByPolicy
  <2>2. /\ IsSlot(o.slot) /\ Grows(slot, o.slot)
        /\ id \in DOMAIN o.slot.table /\ o.slot.table[id] = o.target
    BY <2>1, StickyAnswers
  <2>3. Drawn(s, o.slot, i, a, identity) = Sticky(o.slot, id)
    BY <1>3, DrawnByPolicy
  <2> QED  BY <2>2, <2>3, KnownKey
<1>4. CASE policy = "unique"
  <2>1. o \in Unique(s, slot, id)
    BY <1>4, DrawnByPolicy
  <2>2. /\ IsSlot(o.slot) /\ Grows(slot, o.slot)
        /\ id \in DOMAIN o.slot.table /\ o.slot.table[id] = o.target
    BY <2>1, UniqueAnswers
  <2>3. Drawn(s, o.slot, i, a, identity) = Unique(s, o.slot, id)
    BY <1>4, DrawnByPolicy
  <2> QED  BY <2>2, <2>3, KnownKey
<1> QED  BY <1>1, <1>2, <1>3, <1>4, DrawnByPolicy

\* A settled answer is the answer of every later state of the table.
LEMMA DrawnAgain ==
  ASSUME NEW s, NEW slot, IsSlot(slot), NEW after, Grows(slot, after),
         NEW i, NEW a, NEW identity, IsEntry(cfg.entries[i]), cfg.entries[i].policy # "random",
         NEW t, Drawn(s, slot, i, a, identity) = { Outcome(t, slot) }
  PROVE  Drawn(s, after, i, a, identity) = { Outcome(t, after) }
<1> DEFINE policy == cfg.entries[i].policy
           pool == Pool(cfg.entries[i].to)
           id == AllocId(i, a, identity)
<1>1. CASE policy = "hash"
  <2> DEFINE b == pool[(HashIndex(id) % Len(pool)) + 1]
  <2>1. /\ Drawn(s, slot, i, a, identity) = { Outcome(b, slot) }
        /\ Drawn(s, after, i, a, identity) = { Outcome(b, after) }
    <3>1. Drawn(s, slot, i, a, identity) = { Outcome(b, slot) }
      BY ONLY <1>1, IsEntry(cfg.entries[i]), DrawnByPolicy
    <3>2. Drawn(s, after, i, a, identity) = { Outcome(b, after) }
      BY ONLY <1>1, IsEntry(cfg.entries[i]), DrawnByPolicy
    <3> QED  BY <3>1, <3>2
  <2>2. Outcome(b, slot) = Outcome(t, slot)
    BY <2>1
  <2>3. b = t
    BY <2>2, OutcomeFields
  <2> QED  BY <2>1, <2>3
<1>2. CASE policy \in {"sticky", "unique"}
  <2>1. \/ Drawn(s, slot, i, a, identity) = Sticky(slot, id)
        \/ Drawn(s, slot, i, a, identity) = Unique(s, slot, id)
    BY <1>2, DrawnByPolicy
  <2>2. id \in DOMAIN slot.table /\ slot.table[id] = t
    BY <2>1, UnknownKey
  <2>3. id \in DOMAIN after.table /\ after.table[id] = t
    BY <2>2 DEF Grows
  <2>4. \/ Drawn(s, after, i, a, identity) = Sticky(after, id)
        \/ Drawn(s, after, i, a, identity) = Unique(s, after, id)
    BY <1>2, DrawnByPolicy
  <2>5. /\ Sticky(after, id) = { Outcome(t, after) }
        /\ Unique(s, after, id) = { Outcome(t, after) }
    BY <2>3, KnownKey
  <2> QED  BY <2>4, <2>5
<1> QED  BY <1>1, <1>2, DrawnByPolicy

\* target_for looks into a table only for an entry with a pool.
LEMMA TargetByEntry ==
  ASSUME Compiled, NEW s, NEW a, NEW session, NEW fragment
  PROVE  \/ \E b : \A slot : TargetFor(s, slot, a, session, fragment) = { Outcome(b, slot) }
         \/ \E i \in DOMAIN cfg.entries :
              /\ i = Classify(cfg.entries, a) /\ i # 0 /\ IsPool(cfg.entries[i])
              /\ \A slot : TargetFor(s, slot, a, session, fragment)
                          = Drawn(s, slot, i, a, Identity(cfg.key, session, fragment))
<1> DEFINE i == Classify(cfg.entries, a)
           entry == cfg.entries[i]
<1>1. CASE Excluded(cfg, a) \/ i = 0
  BY <1>1 DEF TargetFor
<1>2. CASE ~ (Excluded(cfg, a) \/ i = 0)
  <2>1. i \in DOMAIN cfg.entries
    BY <1>2, CompiledMap, FirstMatch
  <2>2. entry.shape \in {"fixed", "mask", "pool"}
    BY <2>1, CompiledMap DEF IsEntry
  <2>3. CASE entry.shape = "fixed"
    <3> DEFINE b == IF entry.to.family = a.family
                    THEN CHOOSE b \in Addr : InNet(entry.to, b) ELSE Unchanged
    <3>1. \A slot : TargetFor(s, slot, a, session, fragment) = { Outcome(b, slot) }
      BY <1>2, <2>3 DEF TargetFor
    <3> QED  BY <3>1
  <2>4. CASE entry.shape = "mask"
    <3>1. \A slot : TargetFor(s, slot, a, session, fragment) = { Outcome(MaskMap(entry.to, a), slot) }
      BY <1>2, <2>4 DEF TargetFor
    <3> QED  BY <3>1
  <2>5. CASE entry.shape = "pool"
    <3>1. \A slot : TargetFor(s, slot, a, session, fragment)
                   = Drawn(s, slot, i, a, Identity(cfg.key, session, fragment))
      BY <1>2, <2>5 DEF TargetFor
    <3> QED  BY <1>2, <2>1, <2>5, <3>1 DEF IsPool
  <2> QED  BY <2>2, <2>3, <2>4, <2>5
<1> QED  BY <1>1, <1>2

\* What target_for answers for an endpoint that is kept, it answers again.
LEMMA TargetAnswers ==
  ASSUME Compiled, NEW s, NEW slot, IsSlot(slot), NEW a, NEW session, NEW fragment,
         NEW o \in TargetFor(s, slot, a, session, fragment)
  PROVE  /\ IsSlot(o.slot) /\ Grows(slot, o.slot)
         /\ Kept(a) => Settled(s, o.slot, a, session, fragment, o.target)
<1>1. CASE \E b : \A x : TargetFor(s, x, a, session, fragment) = { Outcome(b, x) }
  <2>1. PICK b : \A x : TargetFor(s, x, a, session, fragment) = { Outcome(b, x) }
    BY <1>1
  <2>2. o = Outcome(b, slot)
    BY <2>1
  <2> QED  BY <2>1, <2>2, OutcomeFields, GrowsOrder DEF Settled
<1>2. CASE \E i \in DOMAIN cfg.entries :
             /\ i = Classify(cfg.entries, a) /\ i # 0 /\ IsPool(cfg.entries[i])
             /\ \A x : TargetFor(s, x, a, session, fragment)
                      = Drawn(s, x, i, a, Identity(cfg.key, session, fragment))
  <2>1. PICK i \in DOMAIN cfg.entries :
             /\ i = Classify(cfg.entries, a) /\ i # 0 /\ IsPool(cfg.entries[i])
             /\ \A x : TargetFor(s, x, a, session, fragment)
                      = Drawn(s, x, i, a, Identity(cfg.key, session, fragment))
    BY <1>2
  <2>2. IsEntry(cfg.entries[i])
    BY CompiledMap
  <2> DEFINE identity == Identity(cfg.key, session, fragment)
  <2>3. o \in Drawn(s, slot, i, a, identity)
    BY <2>1
  <2> HIDE DEF identity
  <2>4. /\ IsSlot(o.slot) /\ Grows(slot, o.slot)
        /\ cfg.entries[i].policy # "random"
           => Drawn(s, o.slot, i, a, identity) = { Outcome(o.target, o.slot) }
    BY ONLY IsSlot(slot), <2>2, <2>3, DrawnAnswers
  <2>5. Kept(a) => cfg.entries[i].policy # "random"
    BY <2>1 DEF Kept
  <2> QED  BY <2>1, <2>4, <2>5 DEF Settled, identity
<1> QED  BY <1>1, <1>2, TargetByEntry

LEMMA TargetAgain ==
  ASSUME Compiled, NEW s, NEW slot, IsSlot(slot), NEW after, Grows(slot, after),
         NEW a, Kept(a), NEW session, NEW fragment, NEW t,
         Settled(s, slot, a, session, fragment, t)
  PROVE  Settled(s, after, a, session, fragment, t)
<1>1. CASE \E b : \A x : TargetFor(s, x, a, session, fragment) = { Outcome(b, x) }
  <2>1. PICK b : \A x : TargetFor(s, x, a, session, fragment) = { Outcome(b, x) }
    BY <1>1
  <2>2. Outcome(b, slot) = Outcome(t, slot)
    BY <2>1 DEF Settled
  <2>3. b = t
    BY <2>2, OutcomeFields
  <2> QED  BY <2>1, <2>3 DEF Settled
<1>2. CASE \E i \in DOMAIN cfg.entries :
             /\ i = Classify(cfg.entries, a) /\ i # 0 /\ IsPool(cfg.entries[i])
             /\ \A x : TargetFor(s, x, a, session, fragment)
                      = Drawn(s, x, i, a, Identity(cfg.key, session, fragment))
  <2>1. PICK i \in DOMAIN cfg.entries :
             /\ i = Classify(cfg.entries, a) /\ i # 0 /\ IsPool(cfg.entries[i])
             /\ \A x : TargetFor(s, x, a, session, fragment)
                      = Drawn(s, x, i, a, Identity(cfg.key, session, fragment))
    BY <1>2
  <2>2. IsEntry(cfg.entries[i]) /\ cfg.entries[i].policy # "random"
    BY <2>1, CompiledMap DEF Kept
  <2>3. Drawn(s, slot, i, a, Identity(cfg.key, session, fragment)) = { Outcome(t, slot) }
    BY <2>1 DEF Settled
  <2>4. Drawn(s, after, i, a, Identity(cfg.key, session, fragment)) = { Outcome(t, after) }
    BY <2>2, <2>3, DrawnAgain
  <2> QED  BY <2>1, <2>4 DEF Settled
<1> QED  BY <1>1, <1>2, TargetByEntry

-----------------------------------------------------------------------------
(* The inductive invariant: every rewrite is remembered                    *)

IsCache(cache) == \A d \in DOMAIN cache : cache[d] = [src |-> cache[d].src, dst |-> cache[d].dst]

SlotsType == slots = [s \in Slots |-> slots[s]] /\ \A s \in Slots : IsSlot(slots[s])

FragmentsType ==
  /\ fragments = [f \in Files |-> fragments[f]]
  /\ \A f \in Files : fragments[f] = [g \in Groups |-> fragments[f][g]]
  /\ \A f \in Files, g \in Groups : IsCache(fragments[f][g])

AllocType ==
  /\ SlotsType
  /\ FragmentsType
  /\ now = NoPacket \/ now \in [file : Files, packet : Packets, group : Groups]
  /\ \A m \in mapped : m.file \in Files /\ m.group \in Groups /\ m.packet \in Packets

DatagramOf(p) == IF cfg.fragments THEN FragKey(p) ELSE NoFragment

\* A packet that takes no part keeps its addresses.  The targets of any other one are in the
\* cache of datagrams, or else the slot gives them again.
Remembered(m, slot, cache) ==
  LET d == DatagramOf(m.packet)
      s == SlotOf(m.file, m.group)
  IN IF Proto(m.packet) \notin cfg.protocols THEN m.src = Unchanged /\ m.dst = Unchanged
     ELSE IF d # NoFragment /\ NeedsAlias(m.packet)
     THEN d \in DOMAIN cache /\ cache[d] = [src |-> m.src, dst |-> m.dst]
     ELSE /\ Kept(m.packet.src) => Settled(s, slot, m.packet.src, Session(m.packet), d, m.src)
          /\ Kept(m.packet.dst) => Settled(s, slot, m.packet.dst, Session(m.packet), d, m.dst)

AllocInv ==
  /\ Compiled
  /\ AllocType
  /\ \A m \in mapped : \A slot \in {slots[SlotOf(m.file, m.group)]} :
       \A cache \in {fragments[m.file][m.group]} : Remembered(m, slot, cache)

LEMMA SameMap ==
  ASSUME cfg' = cfg, walk' = walk, NEW s, NEW slot, NEW a, NEW session, NEW fragment, NEW t
  PROVE  Settled(s, slot, a, session, fragment, t)' = Settled(s, slot, a, session, fragment, t)
<1>1. \A id, x : Sticky(x, id)' = Sticky(x, id)
  BY DEF Sticky
<1>2. \A id, x : Unique(s, x, id)' = Unique(s, x, id)
  BY DEF Unique
<1>3. \A i, x, identity : Drawn(s, x, i, a, identity)' = Drawn(s, x, i, a, identity)
  BY <1>1, <1>2 DEF Drawn
<1>4. \A x : TargetFor(s, x, a, session, fragment)' = TargetFor(s, x, a, session, fragment)
  BY <1>3 DEF TargetFor
<1> QED  BY <1>4 DEF Settled

\* What is remembered depends on the state through the slot and the cache alone.
LEMMA SameMemory ==
  ASSUME cfg' = cfg, walk' = walk, NEW m, NEW slot, NEW cache
  PROVE  Remembered(m, slot, cache)' = Remembered(m, slot, cache)
<1> DEFINE d == DatagramOf(m.packet)
           s == SlotOf(m.file, m.group)
           x == Session(m.packet)
<1>1. DatagramOf(m.packet)' = DatagramOf(m.packet)
  BY DEF DatagramOf
<1>2. SlotOf(m.file, m.group)' = SlotOf(m.file, m.group)
  BY DEF SlotOf
<1>3. /\ Settled(s, slot, m.packet.src, x, d, m.src)' = Settled(s, slot, m.packet.src, x, d, m.src)
      /\ Settled(s, slot, m.packet.dst, x, d, m.dst)' = Settled(s, slot, m.packet.dst, x, d, m.dst)
  <2>1. \A u, v, a, t : Settled(u, slot, a, x, v, t)' = Settled(u, slot, a, x, v, t)
    BY SameMap
  <2> QED  BY <2>1, <1>1, <1>2
<1>4. NeedsAlias(m.packet)' = NeedsAlias(m.packet)
  BY DEF NeedsAlias
<1>5. Kept(m.packet.src)' = Kept(m.packet.src) /\ Kept(m.packet.dst)' = Kept(m.packet.dst)
  BY DEF Kept
<1> QED  BY <1>1, <1>2, <1>3, <1>4, <1>5 DEF Remembered

CacheGrows(cache, later) ==
  /\ DOMAIN cache \subseteq DOMAIN later
  /\ \A d \in DOMAIN cache : later[d] = cache[d]

\* What is remembered stays so while tables and caches only grow.
LEMMA StaysRemembered ==
  ASSUME Compiled, NEW m, NEW slot, IsSlot(slot), NEW after, Grows(slot, after),
         NEW cache, NEW later, CacheGrows(cache, later), Remembered(m, slot, cache)
  PROVE  Remembered(m, after, later)
<1> DEFINE d == DatagramOf(m.packet)
           s == SlotOf(m.file, m.group)
<1>1. CASE Proto(m.packet) \notin cfg.protocols
  BY <1>1 DEF Remembered
<1>2. CASE Proto(m.packet) \in cfg.protocols /\ d # NoFragment /\ NeedsAlias(m.packet)
  BY <1>2 DEF Remembered, CacheGrows
<1>3. CASE Proto(m.packet) \in cfg.protocols /\ ~ (d # NoFragment /\ NeedsAlias(m.packet))
  <2>1. /\ Kept(m.packet.src) => Settled(s, slot, m.packet.src, Session(m.packet), d, m.src)
        /\ Kept(m.packet.dst) => Settled(s, slot, m.packet.dst, Session(m.packet), d, m.dst)
    BY <1>3 DEF Remembered
  <2>2. /\ Kept(m.packet.src) => Settled(s, after, m.packet.src, Session(m.packet), d, m.src)
        /\ Kept(m.packet.dst) => Settled(s, after, m.packet.dst, Session(m.packet), d, m.dst)
    BY <2>1, TargetAgain
  <2> QED  BY <1>3, <2>2 DEF Remembered
<1> QED  BY <1>1, <1>2, <1>3

LEMMA SlotOfSlots ==
  ASSUME NEW f \in Files, NEW g \in Groups
  PROVE  SlotOf(f, g) \in Slots
BY DEF SlotOf, Slots, SlotsOf

\* A step that only adds to tables and caches, and a rewrite that they remember.
LEMMA AddsRewrite ==
  ASSUME AllocInv, now # NoPacket, cfg' = cfg, walk' = walk,
         SlotsType', \A s \in Slots : Grows(slots[s], slots'[s]),
         FragmentsType', \A f \in Files, g \in Groups : CacheGrows(fragments[f][g], fragments'[f][g]),
         NextGroup, NEW src, NEW dst, Record(src, dst),
         Remembered([file |-> now.file, group |-> now.group, packet |-> now.packet,
                     src |-> src, dst |-> dst],
                    slots'[SlotOf(now.file, now.group)], fragments'[now.file][now.group])
  PROVE  AllocInv'
<1> DEFINE r == [file |-> now.file, group |-> now.group, packet |-> now.packet,
                 src |-> src, dst |-> dst]
<1>1. now \in [file : Files, packet : Packets, group : Groups]
  BY DEF AllocInv, AllocType
<1>2. r.file \in Files /\ r.group \in Groups /\ r.packet \in Packets
  BY <1>1
<1>3. mapped' = mapped \cup {r}
  BY DEF Record
<1>4. now' = NoPacket \/ now' \in [file : Files, packet : Packets, group : Groups]
  <2>1. now.group \in Nat /\ GroupCount \in Nat /\ now.group <= GroupCount
    BY <1>1, FlowAllocAssumption DEF Groups
  <2>2. CASE now.group = GroupCount
    BY <2>2 DEF NextGroup
  <2>3. CASE now.group # GroupCount
    <3>1. now' = [now EXCEPT !.group = now.group + 1]
      BY <2>3 DEF NextGroup
    <3>2. now.group + 1 \in Groups
      BY <2>1, <2>3, <1>1 DEF Groups
    <3> QED  BY <1>1, <3>1, <3>2
  <2> QED  BY <2>2, <2>3
<1>5. \A m \in mapped' : m.file \in Files /\ m.group \in Groups /\ m.packet \in Packets
  BY <1>2, <1>3 DEF AllocInv, AllocType
<1>6. AllocType'
  BY <1>4, <1>5 DEF AllocType
<1>7. Compiled /\ Compiled'
  BY DEF AllocInv, Compiled
<1>8. ASSUME NEW m \in mapped'
      PROVE  Remembered(m, slots'[SlotOf(m.file, m.group)], fragments'[m.file][m.group])
  <2> DEFINE s == SlotOf(m.file, m.group)
  <2>1. CASE m \in mapped
    <3>1. m.file \in Files /\ m.group \in Groups /\ s \in Slots
      BY <2>1, SlotOfSlots DEF AllocInv, AllocType
    <3>2. Remembered(m, slots[s], fragments[m.file][m.group])
      BY <2>1 DEF AllocInv
    <3>3. IsSlot(slots[s]) /\ Grows(slots[s], slots'[s])
      BY <3>1 DEF AllocInv, AllocType, SlotsType
    <3>4. CacheGrows(fragments[m.file][m.group], fragments'[m.file][m.group])
      BY <3>1
    <3> QED  BY <1>7, <3>2, <3>3, <3>4, StaysRemembered
  <2>2. CASE m = r
    BY <2>2
  <2> QED  BY <1>3, <2>1, <2>2
<1>9. ASSUME NEW m \in mapped', NEW slot \in {slots[SlotOf(m.file, m.group)]}',
             NEW cache \in {fragments[m.file][m.group]}'
      PROVE  Remembered(m, slot, cache)'
  <2>1. SlotOf(m.file, m.group)' = SlotOf(m.file, m.group)
    BY DEF SlotOf
  <2>2. slot = slots'[SlotOf(m.file, m.group)] /\ cache = fragments'[m.file][m.group]
    BY <2>1
  <2> QED  BY <1>8, <2>2, SameMemory
<1> QED  BY <1>6, <1>7, <1>9 DEF AllocInv

LEMMA AllocInit == Init => AllocInv
<1> SUFFICES ASSUME Init PROVE AllocInv
  OBVIOUS
<1>1. Compiled
  BY DEF Init, Compiled
<1>2. SlotsType
  BY DEF Init, SlotsType, IsSlot
<1>3. FragmentsType
  BY DEF Init, FragmentsType, IsCache
<1>4. AllocType
  BY <1>2, <1>3 DEF Init, AllocType
<1> QED  BY <1>1, <1>4 DEF Init, AllocInv

LEMMA ReadKeepsAllocInv ==
  ASSUME AllocInv, NEW f \in Files, NEW p \in Packets, Read(f, p)
  PROVE  AllocInv'
<1>1. now' \in [file : Files, packet : Packets, group : Groups]
  <2>1. 1 \in Groups
    BY FlowAllocAssumption DEF Groups
  <2> QED  BY <2>1 DEF Read
<1>2. Compiled' /\ AllocType'
  BY <1>1 DEF AllocInv, AllocType, Read, Compiled, SlotsType, FragmentsType, Slots
<1>3. ASSUME NEW m \in mapped', NEW slot \in {slots[SlotOf(m.file, m.group)]}',
             NEW cache \in {fragments[m.file][m.group]}'
      PROVE  Remembered(m, slot, cache)'
  <2>1. SlotOf(m.file, m.group)' = SlotOf(m.file, m.group)
    BY DEF SlotOf, Read
  <2>2. Remembered(m, slot, cache)
    BY <2>1 DEF AllocInv, Read
  <2> QED  BY <2>2, SameMemory DEF Read
<1> QED  BY <1>2, <1>3 DEF AllocInv

LEMMA PassOverKeepsAllocInv ==
  ASSUME AllocInv, PassOver
  PROVE  AllocInv'
<1>1. /\ now # NoPacket /\ cfg' = cfg /\ walk' = walk /\ slots' = slots /\ fragments' = fragments
      /\ NextGroup /\ Record(Unchanged, Unchanged)
  BY DEF PassOver
<1>2. SlotsType' /\ FragmentsType'
  BY <1>1 DEF AllocInv, AllocType, SlotsType, FragmentsType, Slots
<1>3. /\ \A s \in Slots : Grows(slots[s], slots'[s])
      /\ \A f \in Files, g \in Groups : CacheGrows(fragments[f][g], fragments'[f][g])
  BY <1>1 DEF Grows, CacheGrows
<1>4. Remembered([file |-> now.file, group |-> now.group, packet |-> now.packet,
                  src |-> Unchanged, dst |-> Unchanged],
                 slots'[SlotOf(now.file, now.group)], fragments'[now.file][now.group])
  BY DEF Remembered, PassOver
<1> QED  BY <1>1, <1>2, <1>3, <1>4, AddsRewrite

LEMMA RepeatKeepsAllocInv ==
  ASSUME AllocInv, Repeat
  PROVE  AllocInv'
<1> DEFINE targets == fragments[now.file][now.group][Datagram]
<1>1. /\ now # NoPacket /\ cfg' = cfg /\ walk' = walk /\ slots' = slots /\ fragments' = fragments
      /\ NextGroup /\ Record(targets.src, targets.dst)
  BY DEF Repeat, TakesPart
<1>2. SlotsType' /\ FragmentsType'
  BY <1>1 DEF AllocInv, AllocType, SlotsType, FragmentsType, Slots
<1>3. /\ \A s \in Slots : Grows(slots[s], slots'[s])
      /\ \A f \in Files, g \in Groups : CacheGrows(fragments[f][g], fragments'[f][g])
  BY <1>1 DEF Grows, CacheGrows
<1>4. now.file \in Files /\ now.group \in Groups
  BY <1>1 DEF AllocInv, AllocType
<1>5. /\ Datagram # NoFragment /\ NeedsAlias(now.packet) /\ Datagram = DatagramOf(now.packet)
      /\ Datagram \in DOMAIN fragments[now.file][now.group]
      /\ Proto(now.packet) \in cfg.protocols
  BY DEF Repeat, Cached, Aliased, TakesPart, Datagram, DatagramOf
<1>6. targets = [src |-> targets.src, dst |-> targets.dst]
  BY <1>4, <1>5 DEF AllocInv, AllocType, FragmentsType, IsCache
<1>7. Remembered([file |-> now.file, group |-> now.group, packet |-> now.packet,
                  src |-> targets.src, dst |-> targets.dst],
                 slots'[SlotOf(now.file, now.group)], fragments'[now.file][now.group])
  BY <1>1, <1>5, <1>6 DEF Remembered
<1> QED  BY <1>1, <1>2, <1>3, <1>7, AddsRewrite

LEMMA RewriteKeepsAllocInv ==
  ASSUME AllocInv, Rewrite
  PROVE  AllocInv'
<1> DEFINE p == now.packet
           f == now.file
           g == now.group
           s == SlotOf(f, g)
<1>1. /\ now # NoPacket /\ cfg' = cfg /\ walk' = walk /\ NextGroup
      /\ Proto(p) \in cfg.protocols /\ ~ Cached
  BY DEF Rewrite, TakesPart
<1>2. PICK src \in TargetFor(s, slots[s], p.src, Session(p), Datagram) :
           \E dst \in TargetFor(s, src.slot, p.dst, Session(p), Datagram) :
             /\ slots' = [slots EXCEPT ![s] = dst.slot]
             /\ fragments' = IF ~ Aliased THEN fragments
                             ELSE [fragments EXCEPT ![f][g] =
                                     Insert(@, Datagram, [src |-> src.target, dst |-> dst.target])]
             /\ Record(src.target, dst.target)
  BY DEF Rewrite
<1>3. PICK dst \in TargetFor(s, src.slot, p.dst, Session(p), Datagram) :
             /\ slots' = [slots EXCEPT ![s] = dst.slot]
             /\ fragments' = IF ~ Aliased THEN fragments
                             ELSE [fragments EXCEPT ![f][g] =
                                     Insert(@, Datagram, [src |-> src.target, dst |-> dst.target])]
             /\ Record(src.target, dst.target)
  BY <1>2
<1>4. f \in Files /\ g \in Groups /\ s \in Slots
  BY <1>1, SlotOfSlots DEF AllocInv, AllocType
<1>5. Compiled /\ IsSlot(slots[s])
  BY <1>4 DEF AllocInv, AllocType, SlotsType
<1>6. /\ IsSlot(src.slot) /\ Grows(slots[s], src.slot)
      /\ Kept(p.src) => Settled(s, src.slot, p.src, Session(p), Datagram, src.target)
  BY <1>2, <1>5, TargetAnswers
<1>7. /\ IsSlot(dst.slot) /\ Grows(src.slot, dst.slot)
      /\ Kept(p.dst) => Settled(s, dst.slot, p.dst, Session(p), Datagram, dst.target)
  BY <1>3, <1>5, <1>6, TargetAnswers
<1>8. Kept(p.src) => Settled(s, dst.slot, p.src, Session(p), Datagram, src.target)
  BY <1>5, <1>6, <1>7, TargetAgain
<1>9. /\ SlotsType' /\ \A x \in Slots : Grows(slots[x], slots'[x])
      /\ slots'[s] = dst.slot
  <2>1. Slots' = Slots
    BY <1>1 DEF Slots
  <2>2. slots = [x \in Slots |-> slots[x]] /\ \A x \in Slots : IsSlot(slots[x])
    BY DEF AllocInv, AllocType, SlotsType
  <2>3. \A x \in Slots : slots'[x] = IF x = s THEN dst.slot ELSE slots[x]
    BY <1>3, <2>2
  <2>4. slots' = [x \in Slots |-> slots'[x]]
    BY <1>3, <2>2
  <2>5. Grows(slots[s], dst.slot)
    BY <1>6, <1>7, GrowsOrder
  <2>6. \A x \in Slots : IsSlot(slots'[x]) /\ Grows(slots[x], slots'[x])
    BY <1>7, <2>2, <2>3, <2>5, GrowsOrder
  <2> QED  BY <1>4, <2>1, <2>3, <2>4, <2>6 DEF SlotsType
<1>10. CASE Aliased
  <2> DEFINE cache == fragments[f][g]
             targets == [src |-> src.target, dst |-> dst.target]
             later == Insert(cache, Datagram, targets)
  <2>1. Datagram \notin DOMAIN cache
    BY <1>1, <1>10 DEF Cached
  <2>2. /\ fragments = [x \in Files |-> fragments[x]]
        /\ \A x \in Files : fragments[x] = [y \in Groups |-> fragments[x][y]]
        /\ \A x \in Files, y \in Groups : IsCache(fragments[x][y])
    BY DEF AllocInv, AllocType, FragmentsType
  <2>3. /\ DOMAIN later = DOMAIN cache \cup {Datagram} /\ later[Datagram] = targets
        /\ \A d \in DOMAIN cache : d # Datagram => later[d] = cache[d]
    BY DEF Insert
  <2> HIDE DEF later
  <2>4. IsCache(later) /\ CacheGrows(cache, later)
    <3>1. IsCache(cache)
      BY <1>4, <2>2
    <3>2. CacheGrows(cache, later)
      BY <2>1, <2>3 DEF CacheGrows
    <3>3. targets = [src |-> targets.src, dst |-> targets.dst]
      OBVIOUS
    <3> HIDE DEF targets, cache
    <3> QED  BY <2>3, <3>1, <3>2, <3>3 DEF IsCache
  <2>5. fragments' = [fragments EXCEPT ![f][g] = later]
    BY <1>3, <1>10 DEF later
  <2> HIDE DEF cache
  <2>6. /\ fragments' = [x \in Files |-> fragments'[x]]
        /\ \A x \in Files : fragments'[x] = [y \in Groups |-> fragments'[x][y]]
        /\ \A x \in Files, y \in Groups :
             fragments'[x][y] = IF x = f /\ y = g THEN later ELSE fragments[x][y]
    BY <1>4, <2>2, <2>5
  <2>7. FragmentsType'
    BY <2>2, <2>4, <2>6 DEF FragmentsType
  <2>8. \A x \in Files, y \in Groups : CacheGrows(fragments[x][y], fragments'[x][y])
    BY <2>4, <2>6 DEF CacheGrows, cache
  <2>9. /\ Datagram # NoFragment /\ NeedsAlias(p) /\ Datagram = DatagramOf(p)
        /\ Datagram \in DOMAIN later /\ later[Datagram] = targets /\ fragments'[f][g] = later
    BY <1>4, <1>10, <2>3, <2>6 DEF Aliased, Datagram, DatagramOf, cache
  <2>10. Remembered([file |-> f, group |-> g, packet |-> p, src |-> src.target, dst |-> dst.target],
                    slots'[s], fragments'[f][g])
    BY <1>1, <2>9 DEF Remembered
  <2> QED  BY <1>1, <1>3, <1>9, <2>7, <2>8, <2>10, AddsRewrite
<1>11. CASE ~ Aliased
  <2>1. fragments' = fragments
    BY <1>3, <1>11
  <2>2. FragmentsType' /\ \A x \in Files, y \in Groups : CacheGrows(fragments[x][y], fragments'[x][y])
    BY <2>1 DEF AllocInv, AllocType, FragmentsType, CacheGrows
  <2>3. Datagram = DatagramOf(p) /\ ~ (Datagram # NoFragment /\ NeedsAlias(p))
    BY <1>11 DEF Aliased, Datagram, DatagramOf
  <2>4. Remembered([file |-> f, group |-> g, packet |-> p, src |-> src.target, dst |-> dst.target],
                   slots'[s], fragments'[f][g])
    BY <1>1, <1>7, <1>8, <1>9, <2>3 DEF Remembered
  <2> QED  BY <1>1, <1>3, <1>9, <2>2, <2>4, AddsRewrite
<1> QED  BY <1>10, <1>11

LEMMA AllocStep == AllocInv /\ [Next]_vars => AllocInv'
<1> SUFFICES ASSUME AllocInv, [Next]_vars PROVE AllocInv'
  OBVIOUS
<1>1. CASE UNCHANGED vars
  <2>1. ASSUME NEW m \in mapped', NEW slot \in {slots[SlotOf(m.file, m.group)]}',
               NEW cache \in {fragments[m.file][m.group]}'
        PROVE  Remembered(m, slot, cache)'
    <3>1. SlotOf(m.file, m.group)' = SlotOf(m.file, m.group)
      BY <1>1 DEF SlotOf, vars
    <3>2. Remembered(m, slot, cache)
      BY <1>1, <3>1 DEF AllocInv, vars
    <3> QED  BY <1>1, <3>2, SameMemory DEF vars
  <2>2. Compiled' /\ AllocType'
    BY <1>1 DEF AllocInv, AllocType, vars, Compiled, SlotsType, FragmentsType, Slots
  <2> QED  BY <2>1, <2>2 DEF AllocInv
<1>2. CASE Next
  BY <1>2, ReadKeepsAllocInv, PassOverKeepsAllocInv, RepeatKeepsAllocInv, RewriteKeepsAllocInv
     DEF Next
<1> QED  BY <1>1, <1>2

LEMMA AllocInvariant == Spec => []AllocInv
BY AllocInit, AllocStep, PTL DEF Spec

-----------------------------------------------------------------------------
(* What the invariant gives                                                *)

\* A slot gives one answer.
LEMMA OneAnswer ==
  ASSUME NEW s, NEW slot, NEW a, NEW session, NEW fragment, NEW t, NEW u,
         Settled(s, slot, a, session, fragment, t), Settled(s, slot, a, session, fragment, u)
  PROVE  t = u
<1>1. Outcome(t, slot) = Outcome(u, slot)
  BY DEF Settled
<1> QED  BY <1>1, OutcomeFields

\* "flow_map remembers the target per key, so both directions of a connection get the same
\* pair": over all files and groups that share the table, under every policy but `random`,
\* for any number of packets, addresses, files and groups.
THEOREM ConnectionsKeepTheirPair == Spec => []OnePairPerConnection
<1>1. ASSUME AllocInv
      PROVE  OnePairPerConnection
  <2> SUFFICES ASSUME NEW m \in Rewritten, NEW n \in Rewritten,
                      m.packet.fragment = NoFragment, HasPorts(m.packet),
                      n.packet.fragment = NoFragment, HasPorts(n.packet),
                      SameTable(m, n), m.packet.transport = n.packet.transport,
                      Kept(m.packet.src), Kept(m.packet.dst)
               PROVE  /\ << m.packet.src, m.packet.sport, m.packet.dst, m.packet.dport >>
                            = << n.packet.src, n.packet.sport, n.packet.dst, n.packet.dport >>
                         => m.src = n.src /\ m.dst = n.dst
                      /\ << m.packet.src, m.packet.sport, m.packet.dst, m.packet.dport >>
                            = << n.packet.dst, n.packet.dport, n.packet.src, n.packet.sport >>
                         => m.src = n.dst /\ m.dst = n.src
    BY DEF OnePairPerConnection
  <2> DEFINE p == m.packet
             q == n.packet
             s == SlotOf(m.file, m.group)
             session == Session(p)
  <2>1. /\ m \in mapped /\ Proto(p) \in cfg.protocols
        /\ n \in mapped /\ Proto(q) \in cfg.protocols
    BY DEF Rewritten
  <2>2. SlotOf(n.file, n.group) = s
    BY DEF SameTable, SlotOf
  <2>3. DatagramOf(p) = NoFragment /\ DatagramOf(q) = NoFragment
    BY DEF DatagramOf, FragKey
  <2>4. /\ Settled(s, slots[s], p.src, session, NoFragment, m.src)
        /\ Settled(s, slots[s], p.dst, session, NoFragment, m.dst)
    <3>1. Remembered(m, slots[s], fragments[m.file][m.group])
      BY <1>1, <2>1 DEF AllocInv
    <3> QED  BY <2>1, <2>3, <3>1 DEF Remembered
  <2>5. /\ Kept(q.src) => Settled(s, slots[s], q.src, Session(q), NoFragment, n.src)
        /\ Kept(q.dst) => Settled(s, slots[s], q.dst, Session(q), NoFragment, n.dst)
    <3>1. Remembered(n, slots[s], fragments[n.file][n.group])
      BY <1>1, <2>1, <2>2 DEF AllocInv
    <3> QED  BY <2>1, <2>2, <2>3, <3>1 DEF Remembered
  <2>6. Proto(p) = Proto(q)
    BY DEF Proto, LaterFragment
  <2>7. ASSUME p.src = q.src, p.sport = q.sport, p.dst = q.dst, p.dport = q.dport
        PROVE  m.src = n.src /\ m.dst = n.dst
    <3>1. Session(q) = session
      BY <2>6, <2>7 DEF Session
    <3> QED  BY <2>4, <2>5, <2>7, <3>1, OneAnswer
  <2>8. ASSUME p.src = q.dst, p.sport = q.dport, p.dst = q.src, p.dport = q.sport
        PROVE  m.src = n.dst /\ m.dst = n.src
    <3>1. Session(q) = session
      BY <2>6, <2>8 DEF Session
    <3> QED  BY <2>4, <2>5, <2>8, <3>1, OneAnswer
  <2> QED  BY <2>7, <2>8
<1> QED  BY <1>1, AllocInvariant, PTL

\* The protocol filter treats the fragments of a datagram alike.  Without options behind a
\* fragment header it always does.
DatagramsHaveOneProtocol ==
  \A p, q \in Packets :
    p.fragment # NoFragment /\ q.fragment # NoFragment /\ FragKey(p) = FragKey(q)
    => Proto(p) = Proto(q)

\* The session of a fragment plays no part in what it is keyed by.
LEMMA FragmentIdentity ==
  ASSUME NEW key, NEW x, NEW y, NEW d, d # NoFragment
  PROVE  Identity(key, x, d) = Identity(key, y, d)
BY DEF Identity

\* "give every fragment of a datagram the same target": under every policy, in whatever order
\* the fragments come and whatever is rewritten between them, as long as the protocol filter
\* lets all of them through or none.
THEOREM FragmentsStayTogether == DatagramsHaveOneProtocol => (Spec => []FragmentsTogether)
<1>1. ASSUME DatagramsHaveOneProtocol, AllocInv
      PROVE  FragmentsTogether
  <2> SUFFICES ASSUME cfg.fragments, NEW m \in mapped, NEW n \in mapped,
                      m.file = n.file, m.group = n.group,
                      m.packet.fragment # NoFragment, FragKey(m.packet) = FragKey(n.packet)
               PROVE  m.src = n.src /\ m.dst = n.dst
    BY DEF FragmentsTogether
  <2> DEFINE p == m.packet
             q == n.packet
             s == SlotOf(m.file, m.group)
             d == FragKey(p)
  <2>1. p \in Packets /\ q \in Packets
    BY <1>1 DEF AllocInv, AllocType
  <2>2. d # NoFragment /\ q.fragment # NoFragment
    BY <2>1, FlowAllocAssumption DEF FragKey
  <2>3. p.src = q.src /\ p.dst = q.dst /\ Proto(p) = Proto(q)
    BY <1>1, <2>1, <2>2 DEF FragKey, DatagramsHaveOneProtocol
  <2>4. DatagramOf(p) = d /\ DatagramOf(q) = d /\ NeedsAlias(p) = NeedsAlias(q)
    BY <2>3 DEF DatagramOf, NeedsAlias
  <2>5. /\ Remembered(m, slots[s], fragments[m.file][m.group])
        /\ Remembered(n, slots[s], fragments[m.file][m.group])
    BY <1>1 DEF AllocInv
  <2>6. CASE Proto(p) \notin cfg.protocols
    BY <2>3, <2>5, <2>6 DEF Remembered
  <2>7. CASE Proto(p) \in cfg.protocols /\ NeedsAlias(p)
    <3> DEFINE c == fragments[m.file][m.group][d]
    <3>1. c = [src |-> m.src, dst |-> m.dst] /\ c = [src |-> n.src, dst |-> n.dst]
      BY <2>2, <2>3, <2>4, <2>5, <2>7 DEF Remembered
    <3> QED  BY <3>1
  <2>8. CASE Proto(p) \in cfg.protocols /\ ~ NeedsAlias(p)
    <3>1. Kept(p.src) /\ Kept(p.dst)
      BY <2>8 DEF NeedsAlias, Kept
    <3>2. /\ Settled(s, slots[s], p.src, Session(p), d, m.src)
          /\ Settled(s, slots[s], p.dst, Session(p), d, m.dst)
      BY <2>4, <2>5, <2>8, <3>1 DEF Remembered
    <3>3. /\ Settled(s, slots[s], p.src, Session(q), d, n.src)
          /\ Settled(s, slots[s], p.dst, Session(q), d, n.dst)
      BY <2>3, <2>4, <2>5, <2>8, <3>1 DEF Remembered
    <3>4. \A a, t : Settled(s, slots[s], a, Session(q), d, t)
                  => Settled(s, slots[s], a, Session(p), d, t)
      <4>1. Identity(cfg.key, Session(q), d) = Identity(cfg.key, Session(p), d)
        BY <2>2, FragmentIdentity
      <4> QED  BY <4>1 DEF Settled, TargetFor
    <3> QED  BY <3>2, <3>3, <3>4, OneAnswer
  <2> QED  BY <2>6, <2>7, <2>8
<1> SUFFICES ASSUME DatagramsHaveOneProtocol PROVE Spec => []FragmentsTogether
  OBVIOUS
<1> QED  BY <1>1, AllocInvariant, PTL

-----------------------------------------------------------------------------
(* The walk through a pool                                                 *)

\* Division with remainder.
LEMMA Remainder ==
  ASSUME NEW a \in Nat, NEW n \in Nat, n > 0
  PROVE  /\ a % n \in 0 .. n - 1
         /\ \E q \in Nat : a = n * q + (a % n)
<1>1. a \div n \in Nat /\ a % n \in 0 .. n - 1 /\ a = n * (a \div n) + (a % n)
  OBVIOUS
<1> QED  BY <1>1

LEMMA RemainderUnique ==
  ASSUME NEW n \in Nat, n > 0, NEW q \in Int, NEW r \in 0 .. n - 1, NEW a \in Nat, a = n * q + r
  PROVE  a % n = r
OBVIOUS

LEMMA Multiple ==
  ASSUME NEW n \in Nat, n > 0, NEW q \in Nat
  PROVE  (n * q) % n = 0
<1>1. 0 \in 0 .. n - 1 /\ n * q \in Nat /\ n * q = n * q + 0
  OBVIOUS
<1> QED  BY <1>1, RemainderUnique
\* The greatest common divisor is one only if there is no other.
LEMMA NoOtherDivisor ==
  ASSUME NEW t \in Nat, NEW n \in Nat, Gcd(t, n) = 1,
         NEW e \in 1 .. t, t % e = 0, n % e = 0
  PROVE  e = 1
<1> DEFINE D == { d \in 1 .. t : t % d = 0 /\ n % d = 0 }
           A == { t - d : d \in D }
<1>1. e \in D
  OBVIOUS
<1>2. A \in SUBSET Nat /\ A # {}
  BY <1>1
<1>3. PICK a \in A : \A k \in A : a <= k
  BY <1>2, LeastNumber
<1>4. PICK d \in D : a = t - d
  BY <1>3
<1>5. \A f \in 1 .. t : t % f = 0 /\ n % f = 0 => f <= d
  <2> TAKE f \in 1 .. t
  <2> HAVE t % f = 0 /\ n % f = 0
  <2>1. t - f \in A
    OBVIOUS
  <2>2. t - d <= t - f
    BY <1>3, <1>4, <2>1
  <2> HIDE DEF A, D
  <2>3. d \in Int /\ f \in Int /\ t \in Int
    BY <1>4 DEF D
  <2> QED  BY <2>2, <2>3
<1>6. \E g \in 1 .. t : /\ t % g = 0 /\ n % g = 0
                        /\ \A f \in 1 .. t : t % f = 0 /\ n % f = 0 => f <= g
  BY <1>4, <1>5
<1>7. \A f \in 1 .. t : t % f = 0 /\ n % f = 0 => f <= Gcd(t, n)
  BY <1>6 DEF Gcd
<1>8. e <= 1
  BY <1>7
<1> QED  BY <1>8

\* If n divides t * x and has no divisor in common with t, it divides x.
LEMMA CoprimeFactor ==
  ASSUME NEW n \in Nat, NEW t \in Nat, t > 0, Gcd(t, n) = 1,
         NEW x \in Nat, x > 0, x < n, NEW z \in Nat, t * x = n * z
  PROVE  FALSE
<1> DEFINE A == { y \in Nat : y > 0 /\ \E c \in Nat : t * y = n * c }
<1>1. A \in SUBSET Nat /\ x \in A /\ n \in A
  OBVIOUS
<1>2. PICK m \in A : \A k \in A : m <= k
  BY <1>1, LeastNumber
<1>3. m \in Nat /\ m > 0 /\ m <= x
  BY <1>1, <1>2
<1>4. PICK c \in Nat : t * m = n * c
  BY <1>2
<1>5. PICK e \in Nat : n = m * e + (n % m)
  BY <1>3, Remainder
<1>6. n % m \in 0 .. m - 1
  BY <1>3, Remainder
<1>7. n % m = 0
  <2> DEFINE r == n % m
  <2>1. r \in Nat /\ r < m
    BY <1>3, <1>6
  <2> SUFFICES ASSUME r > 0 PROVE FALSE
    BY <2>1
  <2> HIDE DEF r
  <2>2. n = m * e + r
    BY <1>5 DEF r
  <2>3. t * r = n * (t - c * e)
    <3>1. t * n = t * (m * e) + t * r
      BY <1>3, <2>1, <2>2
    <3>2. t * (m * e) = (t * m) * e
      BY <1>3
    <3>3. (t * m) * e = n * (c * e)
      BY <1>4
    <3>4. t * r = n * t - n * (c * e)
      BY <2>1, <3>1, <3>2, <3>3
    <3> QED  BY <3>4
  <2>4. t * r > 0
    BY <2>1
  <2>5. t - c * e \in Nat
    BY <2>3, <2>4
  <2>6. r \in A
    BY <2>1, <2>3, <2>5
  <2> HIDE DEF A
  <2>7. m <= r
    BY <1>2, <2>6
  <2>8. m \in Int /\ r \in Int /\ r < m
    BY <1>3, <2>1
  <2> QED  BY ONLY <2>7, <2>8
<1>8. n = m * e
  BY <1>3, <1>5, <1>7
<1> HIDE DEF A
<1>9. t = e * c
  <2>1. t * m = (m * e) * c
    BY <1>4, <1>8
  <2>2. m * t = m * (e * c)
    BY <1>3, <2>1
  <2>3. t \in Int /\ e * c \in Int
    OBVIOUS
  <2> QED  BY <1>3, <2>2, <2>3
<1>10. e > 0 /\ c > 0
  BY <1>3, <1>8, <1>9
<1>11. e <= t
  BY <1>9, <1>10
<1>12. t % e = 0
  BY <1>9, <1>10, Multiple
<1>13. n = e * m /\ n % e = 0
  BY <1>3, <1>8, <1>10, Multiple
<1>14. e = 1
  BY <1>10, <1>11, <1>12, <1>13, NoOtherDivisor
<1> QED  BY <1>3, <1>8, <1>14

\* Sequence: a step that is coprime with the pool meets every address once.
LEMMA WalkMeetsOnce ==
  ASSUME NEW n \in Nat, NEW w \in Walks(n), NEW j \in Nat, NEW k \in Nat, j < k, k < n
  PROVE  /\ NextIndex(w, j, n) \in 0 .. n - 1 /\ NextIndex(w, k, n) \in 0 .. n - 1
         /\ NextIndex(w, j, n) # NextIndex(w, k, n)
<1>1. n > 1
  OBVIOUS
<1>2. PICK start \in 0 .. n - 1, step \in 1 .. n - 1 :
        w = [start |-> start, step |-> step] /\ Gcd(step, n) = 1
  BY <1>1 DEF Walks
<1>3. j % n = j /\ k % n = k
  OBVIOUS
<1> DEFINE a == start + j * step
           b == start + k * step
<1>4. NextIndex(w, j, n) = a % n /\ NextIndex(w, k, n) = b % n
  BY <1>2, <1>3 DEF NextIndex
<1>5. a \in Nat /\ b \in Nat /\ n > 0
  BY <1>2
<1>6. b = a + step * (k - j)
  BY <1>2
<1> HIDE DEF a, b
<1>7. a % n \in 0 .. n - 1 /\ b % n \in 0 .. n - 1
  BY <1>5, Remainder
<1>8. ASSUME a % n = b % n
      PROVE  FALSE
  <2>1. PICK p \in Nat : a = n * p + (a % n)
    BY <1>5, Remainder
  <2>2. PICK q \in Nat : b = n * q + (b % n)
    BY <1>5, Remainder
  <2>3. step * (k - j) = n * q - n * p
    BY <1>2, <1>5, <1>6, <1>7, <1>8, <2>1, <2>2
  <2>4. step * (k - j) = n * (q - p)
    BY <2>3
  <2>5. step * (k - j) > 0
    BY <1>2
  <2>6. q - p \in Nat
    BY <2>4, <2>5
  <2>7. k - j \in Nat /\ k - j > 0 /\ k - j < n /\ step \in Nat /\ step > 0
    BY <1>2
  <2> QED  BY <1>2, <2>4, <2>6, <2>7, CoprimeFactor
<1> QED  BY <1>4, <1>7, <1>8

\* A pool lists different addresses.
LEMMA PoolIsInjective ==
  ASSUME NEW to
  PROVE  /\ Len(Pool(to)) \in Nat /\ DOMAIN Pool(to) = 1 .. Len(Pool(to))
         /\ \A j, k \in 1 .. Len(Pool(to)) : Pool(to)[j] = Pool(to)[k] => j = k
<1> DEFINE S == { a \in Addr : InNet(to, a) }
           m == Cardinality(S)
<1>1. IsFiniteSet(S)
  <2>1. S \in SUBSET Addr
    OBVIOUS
  <2> QED  BY <2>1, FlowAllocAssumption, FS_Subset
<1>2. m \in Nat /\ ExistsBijection(1 .. m, S)
  BY <1>1, FS_CardinalityType
<1> HIDE DEF S
<1>3. \E f \in [1 .. m -> S] : IsInjective(f)
  BY <1>2 DEF ExistsBijection, Bijection, Injection
<1>4. Pool(to) \in [1 .. m -> S] /\ IsInjective(Pool(to))
  BY <1>3 DEF Pool, SetToSeq, S
<1>5. Len(Pool(to)) = m
  BY <1>2, <1>4
<1> QED  BY <1>2, <1>4, <1>5 DEF IsInjective

IdsOf(table, i) == { id \in DOMAIN table : id.entry = i }

WalkedEntry(s, slot, i) ==
  LET ids  == IdsOf(slot.table, i)
      pool == Pool(cfg.entries[i].to)
  IN /\ IsFiniteSet(ids) /\ slot.drawn[i] \in Nat /\ Cardinality(ids) = slot.drawn[i]
     /\ \E turn \in [ids -> 0 .. slot.drawn[i] - 1] :
          /\ IsInjective(turn)
          /\ \A id \in ids :
               slot.table[id] = pool[NextIndex(walk[s][i], turn[id], Len(pool)) + 1]

Walking(i) == IsPool(cfg.entries[i]) /\ cfg.entries[i].policy = "unique"

\* Every target a walk has handed out is at a place of its own in the walk.
Walked(s, slot) ==
  /\ slot.drawn = [i \in DOMAIN cfg.entries |-> slot.drawn[i]]
  /\ \A i \in DOMAIN cfg.entries : Walking(i) => WalkedEntry(s, slot, i)

WalkInv ==
  /\ walk \in WalksOf(cfg)
  /\ \A s \in Slots : \A slot \in {slots[s]} : Walked(s, slot)

\* A key of another entry does not show.
LEMMA OtherEntry ==
  ASSUME NEW s, NEW slot, IsSlot(slot), NEW after, IsSlot(after), NEW i, WalkedEntry(s, slot, i),
         IdsOf(after.table, i) = IdsOf(slot.table, i), after.drawn[i] = slot.drawn[i],
         \A id \in IdsOf(slot.table, i) : after.table[id] = slot.table[id]
  PROVE  WalkedEntry(s, after, i)
BY DEF WalkedEntry

\* A new key takes the next turn.
LEMMA NextTurn ==
  ASSUME NEW s, NEW slot, IsSlot(slot), NEW i, WalkedEntry(s, slot, i),
         NEW id, id.entry = i, id \notin DOMAIN slot.table,
         NEW after, IsSlot(after), after.drawn[i] = slot.drawn[i] + 1,
         after.table = Insert(slot.table, id, Pool(cfg.entries[i].to)[
                        NextIndex(walk[s][i], slot.drawn[i], Len(Pool(cfg.entries[i].to))) + 1])
  PROVE  WalkedEntry(s, after, i)
<1> DEFINE ids == IdsOf(slot.table, i)
           later == IdsOf(after.table, i)
           d == slot.drawn[i]
           At(k) == Pool(cfg.entries[i].to)[
                      NextIndex(walk[s][i], k, Len(Pool(cfg.entries[i].to))) + 1]
<1>1. /\ IsFiniteSet(ids) /\ d \in Nat /\ Cardinality(ids) = d
  BY DEF WalkedEntry
<1>2. PICK turn \in [ids -> 0 .. d - 1] :
        IsInjective(turn) /\ \A x \in ids : slot.table[x] = At(turn[x])
  BY DEF WalkedEntry
<1>3. later = ids \cup {id} /\ id \notin ids
  BY DEF Insert, IdsOf
<1>4. after.table[id] = At(d) /\ \A x \in ids : after.table[x] = slot.table[x]
  BY DEF Insert, IdsOf
<1> HIDE DEF At, ids, later
<1>5. IsFiniteSet(later) /\ Cardinality(later) = d + 1
  BY ONLY <1>1, <1>3, FS_AddElement
<1> DEFINE more == [x \in later |-> IF x = id THEN d ELSE turn[x]]
<1>6. \A x \in ids : turn[x] \in 0 .. d - 1
  BY <1>2
<1>7. more \in [later -> 0 .. d]
  BY ONLY <1>1, <1>3, <1>6
<1>8. IsInjective(more)
  <2> SUFFICES ASSUME NEW x \in later, NEW y \in later, more[x] = more[y]
               PROVE  x = y
    BY DEF IsInjective
  <2>1. CASE x \in ids /\ y \in ids
    <3>1. turn[x] = turn[y]
      BY <1>3, <2>1
    <3> QED  BY <1>2, <2>1, <3>1 DEF IsInjective
  <2>2. CASE ~ (x \in ids /\ y \in ids)
    BY ONLY <1>1, <1>3, <1>6, <2>2, more[x] = more[y], x \in later, y \in later DEF more
  <2> QED  BY <2>1, <2>2
<1>9. \A x \in later : after.table[x] = At(more[x])
  BY <1>2, <1>3, <1>4
<1> HIDE DEF more
<1>10. after.drawn[i] = d + 1 /\ d + 1 \in Nat /\ 0 .. d = 0 .. (d + 1) - 1
  BY <1>1
<1>11. \E m \in [later -> 0 .. after.drawn[i] - 1] :
         IsInjective(m) /\ \A x \in later : after.table[x] = At(m[x])
  BY <1>7, <1>8, <1>9, <1>10
<1> QED  BY <1>5, <1>10, <1>11 DEF WalkedEntry, At, later

\* A key stored for entry i does not disturb the walks of the others.
LEMMA OtherWalks ==
  ASSUME NEW s, NEW slot, IsSlot(slot), Walked(s, slot), NEW id, NEW t, NEW after, IsSlot(after),
         after.table = Insert(slot.table, id, t),
         NEW j \in DOMAIN cfg.entries, j # id.entry, Walking(j), after.drawn[j] = slot.drawn[j]
  PROVE  WalkedEntry(s, after, j)
<1>1. IdsOf(after.table, j) = IdsOf(slot.table, j)
  BY DEF IdsOf, Insert
<1>2. \A x \in IdsOf(slot.table, j) : after.table[x] = slot.table[x]
  BY DEF IdsOf, Insert
<1>3. WalkedEntry(s, slot, j)
  BY DEF Walked
<1> QED  BY <1>1, <1>2, <1>3, OtherEntry

LEMMA StickyWalks ==
  ASSUME NEW s, NEW slot, IsSlot(slot), Walked(s, slot), NEW id, ~ Walking(id.entry),
         NEW o \in Sticky(slot, id)
  PROVE  Walked(s, o.slot)
<1>1. CASE id \in DOMAIN slot.table
  <2>1. o = Outcome(slot.table[id], slot)
    BY <1>1 DEF Sticky
  <2> QED  BY <2>1, OutcomeFields
<1>2. CASE id \notin DOMAIN slot.table
  <2>1. PICK t : o = Outcome(t, Stored(slot, id, t))
    BY <1>2 DEF Sticky
  <2> DEFINE after == Stored(slot, id, t)
  <2>2. o.slot = after /\ IsSlot(after) /\ after.drawn = slot.drawn
    BY <2>1, OutcomeFields, StoredSlot
  <2>3. after.table = Insert(slot.table, id, t)
    BY DEF Stored, IsSlot
  <2> HIDE DEF after
  <2>4. \A j \in DOMAIN cfg.entries : Walking(j) => WalkedEntry(s, after, j)
    BY <2>2, <2>3, OtherWalks
  <2> QED  BY <2>2, <2>4 DEF Walked
<1> QED  BY <1>1, <1>2

LEMMA UniqueWalks ==
  ASSUME NEW s, NEW slot, IsSlot(slot), Walked(s, slot), NEW id,
         id.entry \in DOMAIN cfg.entries, Walking(id.entry), NEW o \in Unique(s, slot, id)
  PROVE  Walked(s, o.slot)
<1>1. CASE id \in DOMAIN slot.table
  <2>1. o = Outcome(slot.table[id], slot)
    BY <1>1 DEF Unique
  <2> QED  BY <2>1, OutcomeFields
<1>2. CASE id \notin DOMAIN slot.table
  <2> DEFINE i == id.entry
             t == Pool(cfg.entries[i].to)[
                    NextIndex(walk[s][i], slot.drawn[i], Len(Pool(cfg.entries[i].to))) + 1]
             after == [Stored(slot, id, t) EXCEPT !.drawn[i] = @ + 1]
  <2>1. o = Outcome(t, after)
    BY <1>2 DEF Unique
  <2>2. o.slot = after
    BY <2>1, OutcomeFields
  <2>3. Stored(slot, id, t) = [table |-> Insert(slot.table, id, t), drawn |-> slot.drawn]
    BY DEF Stored, IsSlot
  <2> HIDE DEF t
  <2>4. after = [table |-> Insert(slot.table, id, t), drawn |-> [slot.drawn EXCEPT ![i] = @ + 1]]
    BY <2>3
  <2> HIDE DEF after
  <2>5. /\ IsSlot(after) /\ after.table = Insert(slot.table, id, t)
        /\ after.drawn = [slot.drawn EXCEPT ![i] = @ + 1]
    BY <2>4 DEF IsSlot
  <2>6. slot.drawn = [j \in DOMAIN cfg.entries |-> slot.drawn[j]]
    BY DEF Walked
  <2>7. /\ after.drawn = [j \in DOMAIN cfg.entries |-> after.drawn[j]]
        /\ after.drawn[i] = slot.drawn[i] + 1
        /\ \A j \in DOMAIN cfg.entries : j # i => after.drawn[j] = slot.drawn[j]
    BY <2>5, <2>6
  <2>8. WalkedEntry(s, after, i)
    <3>1. WalkedEntry(s, slot, i)
      BY DEF Walked
    <3> QED  BY <1>2, <2>5, <2>7, <3>1, NextTurn DEF t
  <2>9. ASSUME NEW j \in DOMAIN cfg.entries, j # i, Walking(j)
        PROVE  WalkedEntry(s, after, j)
    <3>1. after.drawn[j] = slot.drawn[j] /\ j # id.entry
      BY <2>7, <2>9
    <3> QED  BY <2>5, <2>9, <3>1, OtherWalks
  <2> QED  BY <2>2, <2>7, <2>8, <2>9 DEF Walked
<1> QED  BY <1>1, <1>2

\* Whatever target_for answers, every walk goes on from where it was.
LEMMA TargetWalks ==
  ASSUME Compiled, NEW s, NEW slot, IsSlot(slot), Walked(s, slot),
         NEW a, NEW session, NEW fragment, NEW o \in TargetFor(s, slot, a, session, fragment)
  PROVE  Walked(s, o.slot)
<1>1. CASE \E b : \A x : TargetFor(s, x, a, session, fragment) = { Outcome(b, x) }
  BY <1>1, OutcomeFields
<1>2. CASE \E i \in DOMAIN cfg.entries :
             /\ i = Classify(cfg.entries, a) /\ i # 0 /\ IsPool(cfg.entries[i])
             /\ \A x : TargetFor(s, x, a, session, fragment)
                      = Drawn(s, x, i, a, Identity(cfg.key, session, fragment))
  <2>1. PICK i \in DOMAIN cfg.entries :
             /\ i = Classify(cfg.entries, a) /\ i # 0 /\ IsPool(cfg.entries[i])
             /\ \A x : TargetFor(s, x, a, session, fragment)
                      = Drawn(s, x, i, a, Identity(cfg.key, session, fragment))
    BY <1>2
  <2> DEFINE identity == Identity(cfg.key, session, fragment)
             id == AllocId(i, a, identity)
             policy == cfg.entries[i].policy
  <2>2. o \in Drawn(s, slot, i, a, identity)
    BY <2>1
  <2> HIDE DEF identity
  <2>3. IsEntry(cfg.entries[i])
    BY CompiledMap
  <2>4. id.entry = i /\ (Walking(i) <=> policy = "unique")
    BY <2>1 DEF AllocId, Walking
  <2>5. CASE policy \in {"random", "hash"}
    <3>1. \E b : o = Outcome(b, slot)
      BY <2>2, <2>3, <2>5, DrawnByPolicy
    <3> QED  BY <3>1, OutcomeFields
  <2>6. CASE policy = "sticky"
    <3>1. o \in Sticky(slot, id)
      BY <2>2, <2>3, <2>6, DrawnByPolicy
    <3> HIDE DEF id
    <3> QED  BY <2>4, <2>6, <3>1, StickyWalks
  <2>7. CASE policy = "unique"
    <3>1. o \in Unique(s, slot, id)
      BY <2>2, <2>3, <2>7, DrawnByPolicy
    <3> HIDE DEF id
    <3> QED  BY <2>4, <2>7, <3>1, UniqueWalks
  <2> QED  BY <2>3, <2>5, <2>6, <2>7 DEF IsEntry
<1> QED  BY <1>1, <1>2, TargetByEntry

LEMMA SameWalk ==
  ASSUME cfg' = cfg, walk' = walk, NEW s, NEW slot
  PROVE  Walked(s, slot)' = Walked(s, slot)
<1>1. \A i : WalkedEntry(s, slot, i)' = WalkedEntry(s, slot, i)
  BY DEF WalkedEntry
<1>2. \A i : Walking(i)' = Walking(i)
  BY DEF Walking
<1> QED  BY <1>1, <1>2 DEF Walked

LEMMA WalkStep == AllocInv /\ WalkInv /\ [Next]_vars => WalkInv'
<1> SUFFICES ASSUME AllocInv, WalkInv, [Next]_vars PROVE WalkInv'
  OBVIOUS
<1>1. cfg' = cfg /\ walk' = walk
  BY DEF Next, vars, Read, PassOver, Repeat, Rewrite
<1>2. \A s \in Slots : Walked(s, slots[s])
  BY DEF WalkInv
<1>3. ASSUME \A s \in Slots : Walked(s, slots'[s])
      PROVE  WalkInv'
  <2>1. (walk \in WalksOf(cfg))'
    BY <1>1 DEF WalkInv, WalksOf
  <2>2. Slots' = Slots
    BY <1>1 DEF Slots
  <2>3. ASSUME NEW s \in Slots', NEW slot \in {slots[s]}'
        PROVE  Walked(s, slot)'
    BY <1>1, <1>3, <2>2, SameWalk
  <2> QED  BY <2>1, <2>3 DEF WalkInv
<1>4. CASE Rewrite
  <2> DEFINE p == now.packet
             x == SlotOf(now.file, now.group)
  <2>1. PICK src \in TargetFor(x, slots[x], p.src, Session(p), Datagram) :
        \E dst \in TargetFor(x, src.slot, p.dst, Session(p), Datagram) :
          slots' = [slots EXCEPT ![x] = dst.slot]
    BY <1>4 DEF Rewrite
  <2>2. PICK dst \in TargetFor(x, src.slot, p.dst, Session(p), Datagram) :
          slots' = [slots EXCEPT ![x] = dst.slot]
    BY <2>1
  <2>3. x \in Slots /\ Compiled /\ IsSlot(slots[x]) /\ Walked(x, slots[x])
    BY <1>2, <1>4, SlotOfSlots DEF AllocInv, AllocType, SlotsType, Rewrite, TakesPart
  <2>4. IsSlot(src.slot) /\ Walked(x, src.slot)
    BY <2>1, <2>3, TargetAnswers, TargetWalks
  <2>5. Walked(x, dst.slot)
    BY <2>2, <2>3, <2>4, TargetWalks
  <2>6. slots = [s \in Slots |-> slots[s]]
    BY DEF AllocInv, AllocType, SlotsType
  <2>7. \A s \in Slots : slots'[s] = IF s = x THEN dst.slot ELSE slots[s]
    BY <2>2, <2>6
  <2> QED  BY <1>2, <1>3, <2>5, <2>7
<1>5. CASE ~ Rewrite
  <2>1. slots' = slots
    BY <1>5 DEF Next, vars, Read, PassOver, Repeat
  <2> QED  BY <1>2, <1>3, <2>1
<1> QED  BY <1>4, <1>5

LEMMA WalkInit == Init => WalkInv
<1> SUFFICES ASSUME Init PROVE WalkInv
  OBVIOUS
<1>1. walk \in WalksOf(cfg)
  BY DEF Init
<1>2. ASSUME NEW s \in Slots
      PROVE  Walked(s, slots[s])
  <2> DEFINE slot == slots[s]
  <2>1. slot.table = << >> /\ slot.drawn = [i \in DOMAIN cfg.entries |-> 0]
    BY DEF Init
  <2>2. \A i : IdsOf(slot.table, i) = {}
    BY <2>1 DEF IdsOf
  <2>3. ASSUME NEW i \in DOMAIN cfg.entries
        PROVE  WalkedEntry(s, slot, i)
    <3> DEFINE ids == IdsOf(slot.table, i)
               none == [x \in ids |-> 0]
    <3> HIDE DEF slot
    <3>1. ids = {} /\ IsFiniteSet(ids) /\ Cardinality(ids) = 0 /\ slot.drawn[i] = 0
      BY <2>1, <2>2, FS_EmptySet
    <3> HIDE DEF ids
    <3>2. none \in [ids -> 0 .. slot.drawn[i] - 1] /\ IsInjective(none)
      BY <3>1 DEF IsInjective
    <3>3. \A id \in ids : FALSE
      BY <3>1
    <3> HIDE DEF none
    <3>4. \E turn \in [ids -> 0 .. slot.drawn[i] - 1] :
            /\ IsInjective(turn)
            /\ \A id \in ids : slot.table[id] = Pool(cfg.entries[i].to)[
                 NextIndex(walk[s][i], turn[id], Len(Pool(cfg.entries[i].to))) + 1]
      BY ONLY <3>2, <3>3
    <3>5. slot.drawn[i] \in Nat /\ Cardinality(ids) = slot.drawn[i]
      BY <3>1
    <3> QED  BY ONLY <3>1, <3>4, <3>5 DEF WalkedEntry, ids
  <2> QED  BY <2>1, <2>3 DEF Walked
<1> QED  BY <1>1, <1>2 DEF WalkInv

\* AllocSlot::unique hands out no address twice before the pool is used up, for pools of any
\* size, any start and any coprime step of the walk, however the keys of several files and
\* groups arrive.
THEOREM UniqueTargetsDiffer == Spec => []UniqueUntilExhausted
<1>1. ASSUME AllocInv, WalkInv
      PROVE  UniqueUntilExhausted
  <2> SUFFICES ASSUME NEW s \in Slots, NEW i \in DOMAIN cfg.entries,
                      IsPool(cfg.entries[i]), cfg.entries[i].policy = "unique",
                      Cardinality(IdsOf(slots[s].table, i)) <= PoolLen(cfg.entries[i]),
                      NEW j \in IdsOf(slots[s].table, i), NEW k \in IdsOf(slots[s].table, i), j # k
               PROVE  slots[s].table[j] # slots[s].table[k]
    BY DEF UniqueUntilExhausted, IdsOf
  <2> DEFINE slot == slots[s]
             ids == IdsOf(slot.table, i)
             pool == Pool(cfg.entries[i].to)
             n == Len(pool)
             w == walk[s][i]
             d == slot.drawn[i]
  <2>1. WalkedEntry(s, slot, i)
    BY <1>1 DEF WalkInv, Walked, Walking
  <2>2. d \in Nat /\ Cardinality(ids) = d
    BY <2>1 DEF WalkedEntry
  <2>3. PICK turn \in [ids -> 0 .. d - 1] :
          /\ IsInjective(turn)
          /\ \A id \in ids : slot.table[id] = pool[NextIndex(w, turn[id], n) + 1]
    BY <2>1 DEF WalkedEntry
  <2>4. n \in Nat /\ d <= n
    BY <2>2, PoolIsInjective DEF PoolLen
  <2>5. w \in Walks(n)
    <3>1. walk[s][i] \in IF IsPool(cfg.entries[i]) /\ cfg.entries[i].policy = "unique"
                         THEN Walks(PoolLen(cfg.entries[i])) ELSE Walks(0)
      BY <1>1 DEF WalkInv, WalksOf, Slots
    <3> QED  BY <3>1 DEF PoolLen
  <2> HIDE DEF ids, n, w, d, pool
  <2>6. /\ turn[j] \in Nat /\ turn[k] \in Nat /\ turn[j] < n /\ turn[k] < n
        /\ turn[j] # turn[k]
    <3>1. j \in ids /\ k \in ids
      BY DEF ids
    <3>2. turn[j] \in 0 .. d - 1 /\ turn[k] \in 0 .. d - 1 /\ turn[j] # turn[k]
      BY <2>3, <3>1 DEF IsInjective
    <3> QED  BY <2>2, <2>4, <3>2
  <2>7. /\ NextIndex(w, turn[j], n) \in 0 .. n - 1 /\ NextIndex(w, turn[k], n) \in 0 .. n - 1
        /\ NextIndex(w, turn[j], n) # NextIndex(w, turn[k], n)
    <3>1. CASE turn[j] < turn[k]
      BY <2>4, <2>5, <2>6, <3>1, WalkMeetsOnce
    <3>2. CASE turn[k] < turn[j]
      BY <2>4, <2>5, <2>6, <3>2, WalkMeetsOnce
    <3> QED  BY <2>6, <3>1, <3>2
  <2>8. pool[NextIndex(w, turn[j], n) + 1] # pool[NextIndex(w, turn[k], n) + 1]
    <3> DEFINE x == NextIndex(w, turn[j], n) + 1
               y == NextIndex(w, turn[k], n) + 1
    <3>1. x \in 1 .. n /\ y \in 1 .. n /\ x # y
      BY <2>4, <2>7
    <3> HIDE DEF x, y
    <3>2. pool[x] # pool[y]
      BY <3>1, PoolIsInjective DEF n, pool
    <3> QED  BY <3>2 DEF x, y
  <2> QED  BY <2>3, <2>8 DEF ids
<1>2. Spec => []WalkInv
  BY AllocInvariant, WalkInit, WalkStep, PTL DEF Spec
<1> QED  BY <1>1, <1>2, AllocInvariant, PTL

-----------------------------------------------------------------------------
(* Splitcap                                                                *)

Options == [granularity : Granularities, number : Numbers, two_pass : BOOLEAN]
Phases == {"first", "write", "second", "flush", "done", "failed"}

Types ==
  /\ options \in Options /\ phase \in Phases
  /\ capture \in Seq(Frames) /\ next \in 1..(Len(capture) + 1)
  /\ \A k \in DOMAIN flows : flows[k] \in Seq(Nat)
  /\ \A k \in DOMAIN files : files[k] \in Seq(Nat)
  /\ IsFiniteSet(DOMAIN flows)

\* The packets read so far are in the flow of their identifier.
FirstPass ==
  phase = "first" =>
    /\ next = Len(capture) + 1 /\ selected = {} /\ DOMAIN files = {}
    /\ \A i \in 1..Len(capture) : ~Skipped(capture[i]) => Key(i) \in DOMAIN flows

\* A flow has packets; they are all of the capture unless it was read twice.
Flows ==
  /\ \A k \in DOMAIN flows : Members(k, Len(capture)) # {}
  /\ phase = "first" \/ ~options.two_pass =>
       \A k \in DOMAIN flows : Lists(flows[k], Members(k, Len(capture)))

\* The selection is the one of EndOfFirstPass.
Chosen ==
  /\ selected \subseteq DOMAIN flows
  /\ DOMAIN files \subseteq selected /\ writing \subseteq DOMAIN files
  /\ phase \notin {"first", "failed"} =>
       /\ \A k \in selected, other \in DOMAIN flows \ selected :
            Len(flows[k]) >= Len(flows[other])
       /\ Cardinality(selected) < Cardinality(DOMAIN flows) =>
            Cardinality(selected) = options.number

\* The one-pass split: what it has written is the beginning of the flow, and only
\* the open file may be incomplete.
OneByOne ==
  ~options.two_pass =>
    /\ phase \notin {"second", "flush"}
    /\ \A j, k \in writing : j = k
    /\ \A k \in DOMAIN files :
         /\ Len(files[k]) <= Len(flows[k])
         /\ files[k] = SubSeq(flows[k], 1, Len(files[k]))
    /\ \A j, k \in DOMAIN files : files[j] # flows[j] /\ files[k] # flows[k] => j = k
    /\ phase \in {"write", "done"} =>
         \A k \in DOMAIN files \ writing : files[k] = flows[k]
    /\ phase = "done" => selected = DOMAIN files /\ writing = {}

\* The two-pass split: all files are as far as the second reading is.
Together ==
  options.two_pass =>
    /\ phase # "write"
    /\ \A k \in DOMAIN files : Lists(files[k], Members(k, next - 1))
    /\ \A i \in 1..(next - 1) :
         ~Skipped(capture[i]) /\ Key(i) \in selected => Key(i) \in DOMAIN files
    /\ phase \in {"flush", "done"} => next = Len(capture) + 1

SplitInv == Types /\ FirstPass /\ Flows /\ Chosen /\ OneByOne /\ Together

-----------------------------------------------------------------------------
(* Lists of packets                                                        *)

LEMMA ListsNothing == Lists(<< >>, {})
BY DEF Lists

\* A packet behind all the others goes to the end of the list.
LEMMA ListsOneMore ==
  ASSUME NEW packets \in Seq(Nat), NEW members, Lists(packets, members),
         NEW i \in Nat, \A m \in members : m < i
  PROVE  Append(packets, i) \in Seq(Nat) /\ Lists(Append(packets, i), members \cup {i})
<1> DEFINE more == Append(packets, i)
<1>1. /\ more \in Seq(Nat) /\ Len(more) = Len(packets) + 1
      /\ DOMAIN more = 1 .. Len(packets) + 1 /\ DOMAIN packets = 1 .. Len(packets)
      /\ Len(packets) \in Nat
      /\ \A a \in 1 .. Len(packets) : more[a] = packets[a]
      /\ more[Len(packets) + 1] = i
  OBVIOUS
<1> HIDE DEF more
<1>2. \A m \in members \cup {i} : Contains(more, m)
  <2>1. ASSUME NEW m \in members PROVE Contains(more, m)
    BY <1>1 DEF Lists, Contains
  <2>2. Contains(more, i)
    BY <1>1 DEF Contains
  <2> QED  BY <2>1, <2>2
<1>3. \A a \in DOMAIN more : more[a] \in members \cup {i}
  BY <1>1 DEF Lists
<1>4. \A a, b \in DOMAIN more : a < b => more[a] < more[b]
  <2> SUFFICES ASSUME NEW a \in DOMAIN more, NEW b \in DOMAIN more, a < b
               PROVE  more[a] < more[b]
    OBVIOUS
  <2>1. a \in DOMAIN packets /\ more[a] = packets[a]
    BY <1>1
  <2>2. CASE b \in DOMAIN packets
    BY <2>1, <2>2, <1>1 DEF Lists
  <2>3. CASE b = Len(packets) + 1
    BY <2>1, <2>3, <1>1 DEF Lists
  <2> QED  BY <2>2, <2>3, <1>1
<1>5. Lists(more, members \cup {i})
  BY <1>2, <1>3, <1>4 DEF Lists
<1> QED  BY <1>1, <1>5 DEF more

\* The flow of a packet, and the packets of a flow, of any capture.
Id(g, cap, i) == FlowId(g, FlowInfo(cap[i]))
Among(g, cap, k, n) == {i \in 1..n : ~Skipped(cap[i]) /\ Id(g, cap, i) = k}

LEMMA MembersAreAmong ==
  /\ \A i : Key(i) = Id(options.granularity, capture, i)
  /\ \A k, n : Members(k, n) = Among(options.granularity, capture, k, n)
BY DEF Id, Among, Key, Members

LEMMA MembersAreAmongNext ==
  /\ \A i : Key(i)' = Id(options'.granularity, capture', i)
  /\ \A k, n : Members(k, n)' = Among(options'.granularity, capture', k, n)
BY DEF Id, Among, Key, Members

\* The members among the first n, and among one more.
LEMMA AmongFields ==
  ASSUME NEW g, NEW cap, NEW k, NEW n \in Nat
  PROVE  /\ Among(g, cap, k, n) \subseteq 1..n
         /\ \A i : i \in Among(g, cap, k, n) <=> i \in 1..n /\ ~Skipped(cap[i]) /\ Id(g, cap, i) = k
         /\ Among(g, cap, k, n + 1) =
              Among(g, cap, k, n) \cup (IF ~Skipped(cap[n + 1]) /\ Id(g, cap, n + 1) = k
                                  THEN {n + 1} ELSE {})
         /\ \A m \in 0..n : Among(g, cap, k, m) = {i \in Among(g, cap, k, n) : i <= m}
BY DEF Among

\* The beginning of a flow's list is the list of its packets up to some packet.
LEMMA BeginningOfList ==
  ASSUME NEW g, NEW cap, NEW k, NEW N \in Nat, NEW packets \in Seq(Nat), Lists(packets, Among(g, cap, k, N)),
         NEW m \in 0..Len(packets)
  PROVE  \E n \in 0..N : Lists(SubSeq(packets, 1, m), Among(g, cap, k, n))
<1> DEFINE n == IF m = 0 THEN 0 ELSE packets[m]
           part == SubSeq(packets, 1, m)
<1>1. /\ DOMAIN packets = 1..Len(packets) /\ Len(packets) \in Nat
      /\ DOMAIN part = 1..m /\ Len(part) = m
      /\ \A a \in 1..m : part[a] = packets[a]
  OBVIOUS
<1>2. n \in 0..N
  <2>1. CASE m = 0
    BY <2>1
  <2>2. CASE m # 0
    <3>1. packets[m] \in Among(g, cap, k, N)
      BY <1>1, <2>2 DEF Lists
    <3> QED  BY <3>1, <2>2, AmongFields
  <2> QED  BY <2>1, <2>2
<1>3. Among(g, cap, k, n) = {i \in Among(g, cap, k, N) : i <= n}
  BY <1>2, AmongFields
<1>4. \A a \in DOMAIN packets : packets[a] \in Among(g, cap, k, N) /\ packets[a] \in 1..N
  BY <1>1, AmongFields DEF Lists
<1>5. ASSUME NEW a \in DOMAIN packets
      PROVE  packets[a] <= n <=> a <= m
  <2>1. CASE m = 0
    BY <2>1, <1>1, <1>4
  <2>2. CASE m # 0
    <3>1. m \in DOMAIN packets /\ n = packets[m] /\ a \in Nat /\ m \in Nat
      BY <2>2, <1>1
    <3>2. packets[a] \in Nat /\ packets[m] \in Nat
      BY <3>1, <1>4
    <3>3. (a < m => packets[a] < packets[m]) /\ (m < a => packets[m] < packets[a])
      BY <3>1 DEF Lists
    <3> QED  BY <3>1, <3>2, <3>3
  <2> QED  BY <2>1, <2>2
<1> HIDE DEF n, part
<1>6. \A i \in Among(g, cap, k, n) : Contains(part, i)
  <2> SUFFICES ASSUME NEW i \in Among(g, cap, k, n) PROVE Contains(part, i)
    OBVIOUS
  <2>1. i \in Among(g, cap, k, N) /\ i <= n
    BY <1>3
  <2>2. PICK a \in DOMAIN packets : packets[a] = i
    BY <2>1, <1>1 DEF Lists, Contains
  <2>3. a <= m /\ a \in 1..m
    BY <2>1, <2>2, <1>5, <1>1
  <2> QED  BY <2>2, <2>3, <1>1 DEF Contains
<1>7. \A a \in DOMAIN part : part[a] \in Among(g, cap, k, n)
  BY <1>1, <1>3, <1>4, <1>5
<1>8. \A a, b \in DOMAIN part : a < b => part[a] < part[b]
  BY <1>1 DEF Lists
<1>9. Lists(part, Among(g, cap, k, n))
  BY <1>6, <1>7, <1>8 DEF Lists
<1> QED  BY <1>2, <1>9 DEF part

LEMMA SameMembers ==
  ASSUME options' = options, capture' = capture
  PROVE  /\ \A k : \A n : Members(k, n)' = Members(k, n)
         /\ \A i : Key(i)' = Key(i)
BY DEF Members, Key

\* Packets that come behind the first n change nothing among these.
GrownBy(g, cap, frame, grown) ==
  /\ grown \in Seq(Frames) /\ Len(grown) = Len(cap) + 1 /\ Len(cap) \in Nat
  /\ grown[Len(cap) + 1] = frame
  /\ \A i \in 1..Len(cap) : grown[i] = cap[i] /\ Id(g, grown, i) = Id(g, cap, i)
  /\ Id(g, grown, Len(cap) + 1) = FlowId(g, FlowInfo(frame))
  /\ \A n \in 0..Len(cap) : \A k : Among(g, grown, k, n) = Among(g, cap, k, n)

LEMMA AmongGrown ==
  ASSUME NEW g, NEW cap \in Seq(Frames), NEW frame \in Frames
  PROVE  GrownBy(g, cap, frame, Append(cap, frame))
<1> DEFINE grown == Append(cap, frame)
<1>1. /\ grown \in Seq(Frames) /\ Len(grown) = Len(cap) + 1
      /\ Len(cap) \in Nat /\ grown[Len(cap) + 1] = frame
      /\ \A i \in 1..Len(cap) : grown[i] = cap[i]
  OBVIOUS
<1> HIDE DEF grown
<1>2. \A i \in 1..Len(cap) : Id(g, grown, i) = Id(g, cap, i)
  BY <1>1 DEF Id
<1>3. Id(g, grown, Len(cap) + 1) = FlowId(g, FlowInfo(frame))
  BY <1>1 DEF Id
<1>4. \A n \in 0..Len(cap) : \A k : Among(g, grown, k, n) = Among(g, cap, k, n)
  BY <1>1, <1>2 DEF Among
<1> QED  BY <1>1, <1>2, <1>3, <1>4 DEF grown, GrownBy

-----------------------------------------------------------------------------
(* The identifier and the conversation                                     *)

\* Ordered keeps the two endpoints and forgets which is the source.
LEMMA OrderedForgetsDirection ==
  ASSUME NEW s \in Nat \X Nat, NEW t \in Nat \X Nat,
         NEW u \in Nat \X Nat, NEW v \in Nat \X Nat
  PROVE  (Ordered(s, t) = Ordered(u, v)) <=> ((s = u /\ t = v) \/ (s = v /\ t = u))
<1>1. \A w, x, y, z : (<< w, x >> = << y, z >>) <=> (w = y /\ x = z)
  OBVIOUS
<1>2. \A x, y \in Nat \X Nat :
        /\ x[1] \in Nat /\ x[2] \in Nat
        /\ (x = y) <=> (x[1] = y[1] /\ x[2] = y[2])
  OBVIOUS
<1>3. /\ Before(s, t) /\ Before(t, s) => s = t
      /\ Before(u, v) /\ Before(v, u) => u = v
      /\ Before(s, t) \/ Before(t, s)
      /\ Before(u, v) \/ Before(v, u)
  BY <1>2 DEF Before
<1>4. /\ Ordered(s, t) = IF Before(s, t) THEN << s, t >> ELSE << t, s >>
      /\ Ordered(u, v) = IF Before(u, v) THEN << u, v >> ELSE << v, u >>
  BY DEF Ordered
<1> QED  BY ONLY <1>1, <1>3, <1>4

\* A packet's identifier is that of another exactly when both are of one
\* conversation.
LEMMA IdentifiesConversation ==
  ASSUME options \in Options, NEW p \in Infos, NEW q \in Infos
  PROVE  (FlowId(options.granularity, p) = FlowId(options.granularity, q))
           <=> SameConversation(p, q)
<1> DEFINE g == options.granularity
           port(n) == IF WithPorts(g) THEN n ELSE 0
           ends(x) == CASE g = "src-ip" -> << << x.src, 0 >> >>
                        [] g = "dst-ip" -> << << x.dst, 0 >> >>
                        [] OTHER -> Tuple(Symmetric(g), << x.src, port(x.src_port) >>,
                                          << x.dst, port(x.dst_port) >>)
           protocol(x) == IF WithProtocol(g) THEN x.protocol ELSE 0
<1>1. \A x \in Infos : /\ x.src \in Nat /\ x.dst \in Nat
                       /\ x.src_port \in Nat /\ x.dst_port \in Nat
                       /\ port(x.src_port) \in Nat /\ port(x.dst_port) \in Nat
  BY DEF Infos
<1>2. /\ Reply(q) = [q EXCEPT !.src = q.dst, !.dst = q.src,
                              !.src_port = q.dst_port, !.dst_port = q.src_port]
      /\ Reply(q).src = q.dst /\ Reply(q).dst = q.src
      /\ Reply(q).src_port = q.dst_port /\ Reply(q).dst_port = q.src_port
  BY DEF Reply, Infos
<1>3. (FlowId(g, p) = FlowId(g, q)) <=> (ends(p) = ends(q) /\ protocol(p) = protocol(q))
  <2>1. /\ FlowId(g, p) = [ends |-> ends(p), protocol |-> protocol(p)]
        /\ FlowId(g, q) = [ends |-> ends(q), protocol |-> protocol(q)]
    BY DEF FlowId
  <2>2. \A w, x, y, z : ([ends |-> w, protocol |-> x] = [ends |-> y, protocol |-> z])
                            <=> (w = y /\ x = z)
    OBVIOUS
  <2> QED  BY ONLY <2>1, <2>2
<1>4. (protocol(p) = protocol(q)) <=> (WithProtocol(g) => p.protocol = q.protocol)
  OBVIOUS
<1>5. (ends(p) = ends(q)) <=> (SameEnds(p, q) \/ (Symmetric(g) /\ SameEnds(p, Reply(q))))
  <2>1. CASE g = "src-ip"
    <3>1. ~Symmetric(g)
      BY <2>1 DEF Symmetric
    <3>2. SameEnds(p, q) <=> p.src = q.src
      BY <2>1 DEF SameEnds
    <3>3. (ends(p) = ends(q)) <=> << << p.src, 0 >> >> = << << q.src, 0 >> >>
      BY <2>1
    <3> QED  BY <3>1, <3>2, <3>3
  <2>2. CASE g = "dst-ip"
    <3>1. ~Symmetric(g)
      BY <2>2 DEF Symmetric
    <3>2. SameEnds(p, q) <=> p.dst = q.dst
      BY <2>2 DEF SameEnds
    <3>3. (ends(p) = ends(q)) <=> << << p.dst, 0 >> >> = << << q.dst, 0 >> >>
      BY <2>2
    <3> QED  BY <3>1, <3>2, <3>3
  <2>3. CASE g # "src-ip" /\ g # "dst-ip"
    <3>1. \A x : ends(x) = Tuple(Symmetric(g), << x.src, port(x.src_port) >>,
                                 << x.dst, port(x.dst_port) >>)
      BY <2>3
    <3>2. \A x, y : SameEnds(x, y) <=>
                      /\ x.src = y.src /\ x.dst = y.dst
                      /\ WithPorts(g) => x.src_port = y.src_port /\ x.dst_port = y.dst_port
      BY <2>3 DEF SameEnds
    <3>3. \A x, y : /\ (port(x.src_port) = port(y.src_port)) <=> (WithPorts(g) => x.src_port = y.src_port)
                    /\ (port(x.dst_port) = port(y.dst_port)) <=> (WithPorts(g) => x.dst_port = y.dst_port)
                    /\ (port(x.src_port) = port(y.dst_port)) <=> (WithPorts(g) => x.src_port = y.dst_port)
                    /\ (port(x.dst_port) = port(y.src_port)) <=> (WithPorts(g) => x.dst_port = y.src_port)
      OBVIOUS
    <3> HIDE DEF ends, port, g
    <3>4. /\ SameEnds(p, q) <=> /\ p.src = q.src /\ port(p.src_port) = port(q.src_port)
                                /\ p.dst = q.dst /\ port(p.dst_port) = port(q.dst_port)
          /\ SameEnds(p, Reply(q)) <=> /\ p.src = q.dst /\ port(p.src_port) = port(q.dst_port)
                                       /\ p.dst = q.src /\ port(p.dst_port) = port(q.src_port)
      BY <1>2, <3>2, <3>3
    <3>5. CASE Symmetric(g)
      <4>1. (ends(p) = ends(q)) <=>
              (Ordered(<< p.src, port(p.src_port) >>, << p.dst, port(p.dst_port) >>)
                 = Ordered(<< q.src, port(q.src_port) >>, << q.dst, port(q.dst_port) >>))
        BY <3>1, <3>5 DEF Tuple
      <4>2. /\ p.src \in Nat /\ p.dst \in Nat /\ q.src \in Nat /\ q.dst \in Nat
            /\ port(p.src_port) \in Nat /\ port(p.dst_port) \in Nat
            /\ port(q.src_port) \in Nat /\ port(q.dst_port) \in Nat
        BY <1>1
      <4> DEFINE from(x) == << x.src, port(x.src_port) >>
                 to(x) == << x.dst, port(x.dst_port) >>
      <4>3. /\ from(p) \in Nat \X Nat /\ to(p) \in Nat \X Nat
            /\ from(q) \in Nat \X Nat /\ to(q) \in Nat \X Nat
        BY <4>2
      <4>4. /\ (from(p) = from(q)) <=> (p.src = q.src /\ port(p.src_port) = port(q.src_port))
            /\ (to(p) = to(q)) <=> (p.dst = q.dst /\ port(p.dst_port) = port(q.dst_port))
            /\ (from(p) = to(q)) <=> (p.src = q.dst /\ port(p.src_port) = port(q.dst_port))
            /\ (to(p) = from(q)) <=> (p.dst = q.src /\ port(p.dst_port) = port(q.src_port))
        OBVIOUS
      <4>5. (ends(p) = ends(q)) <=> (Ordered(from(p), to(p)) = Ordered(from(q), to(q)))
        BY <4>1
      <4> HIDE DEF from, to
      <4>6. (Ordered(from(p), to(p)) = Ordered(from(q), to(q)))
              <=> ((from(p) = from(q) /\ to(p) = to(q)) \/ (from(p) = to(q) /\ to(p) = from(q)))
        BY ONLY <4>3, OrderedForgetsDirection
      <4> QED  BY ONLY <4>4, <4>5, <4>6, <3>4, <3>5
    <3>6. CASE ~Symmetric(g)
      <4>1. (ends(p) = ends(q)) <=>
              (<< << p.src, port(p.src_port) >>, << p.dst, port(p.dst_port) >> >>
                 = << << q.src, port(q.src_port) >>, << q.dst, port(q.dst_port) >> >>)
        BY <3>1, <3>6 DEF Tuple
      <4> QED  BY <4>1, <3>4, <3>6, <1>1
    <3> QED  BY <3>5, <3>6
  <2> QED  BY <2>1, <2>2, <2>3
<1> QED  BY <1>3, <1>4, <1>5 DEF SameConversation
-----------------------------------------------------------------------------
(* The invariant is preserved                                              *)

LEMMA Initially == SplitInit => SplitInv
<1> SUFFICES ASSUME SplitInit PROVE SplitInv
  OBVIOUS
<1> USE DEF SplitInit
<1>1. /\ DOMAIN flows = {} /\ DOMAIN files = {}
  BY DEF NoFlows
<1>2. Types
  BY <1>1, FS_EmptySet DEF Types, Options, Phases
<1>3. FirstPass
  BY <1>1 DEF FirstPass
<1>4. Flows
  BY <1>1 DEF Flows
<1>5. Chosen
  BY <1>1 DEF Chosen
<1>6. OneByOne
  BY <1>1 DEF OneByOne
<1>7. Together
  BY <1>1 DEF Together
<1> QED  BY <1>2, <1>3, <1>4, <1>5, <1>6, <1>7 DEF SplitInv

\* A map with one more packet.
LEMMA AddFields ==
  ASSUME NEW map, NEW key, NEW i \in Nat, \A k \in DOMAIN map : map[k] \in Seq(Nat)
  PROVE  /\ DOMAIN Add(map, key, i) = DOMAIN map \cup {key}
         /\ \A k \in DOMAIN map : k # key => Add(map, key, i)[k] = map[k]
         /\ Add(map, key, i)[key] = Append(Entry(map, key), i)
         /\ Entry(map, key) \in Seq(Nat)
         /\ \A k \in DOMAIN Add(map, key, i) : Add(map, key, i)[k] \in Seq(Nat)
<1>1. DOMAIN Add(map, key, i) = DOMAIN map \cup {key}
  BY DEF Add
<1>2. \A k \in DOMAIN map : k # key => Add(map, key, i)[k] = map[k]
  BY DEF Add
<1>3. Add(map, key, i)[key] = Append(Entry(map, key), i)
  BY DEF Add
<1>4. Entry(map, key) \in Seq(Nat)
  BY DEF Entry
<1>5. Append(Entry(map, key), i) \in Seq(Nat)
  BY <1>4
<1> QED  BY <1>1, <1>2, <1>3, <1>4, <1>5

\* Adding packet n to the map of the lists of all the flows that are kept, each up
\* to the packet before it, gives the lists up to n.
ListsUpTo(g, cap, map, kept, n) ==
  /\ DOMAIN map \subseteq kept
  /\ \A k \in DOMAIN map : map[k] \in Seq(Nat) /\ Lists(map[k], Among(g, cap, k, n))
  /\ \A i \in 1..n : ~Skipped(cap[i]) /\ Id(g, cap, i) \in kept => Id(g, cap, i) \in DOMAIN map

LEMMA ListsGrow ==
  ASSUME NEW g, NEW cap, NEW map, NEW kept, NEW n \in Nat,
         ListsUpTo(g, cap, map, kept, n),
         NEW new, new = IF ~Skipped(cap[n + 1]) /\ Id(g, cap, n + 1) \in kept
                        THEN Add(map, Id(g, cap, n + 1), n + 1) ELSE map
  PROVE  ListsUpTo(g, cap, new, kept, n + 1)
<1> USE DEF ListsUpTo
<1> DEFINE key == Id(g, cap, n + 1)
           added == ~Skipped(cap[n + 1]) /\ key \in kept
<1>1. \A k : /\ Among(g, cap, k, n) \subseteq 1..n
             /\ Among(g, cap, k, n + 1) = Among(g, cap, k, n) \cup (IF ~Skipped(cap[n + 1]) /\ key = k
                                                        THEN {n + 1} ELSE {})
  BY AmongFields
<1>2. CASE ~added
  <2>1. new = map
    BY <1>2
  <2>2. \A k \in kept : Among(g, cap, k, n + 1) = Among(g, cap, k, n)
    BY <1>1, <1>2
  <2>3. \A i \in 1..(n + 1) : i = n + 1 \/ i \in 1..n
    OBVIOUS
  <2> HIDE DEF key
  <2> QED  BY <2>1, <2>2, <2>3, <1>2 DEF key
<1>3. CASE added
  <2>1. new = Add(map, key, n + 1) /\ n + 1 \in Nat
    BY <1>3
  <2>2. /\ DOMAIN new = DOMAIN map \cup {key}
        /\ \A k \in DOMAIN map : k # key => new[k] = map[k]
        /\ new[key] = Append(Entry(map, key), n + 1)
        /\ Entry(map, key) \in Seq(Nat)
        /\ \A k \in DOMAIN new : new[k] \in Seq(Nat)
    <3>1. \A k \in DOMAIN map : map[k] \in Seq(Nat)
      OBVIOUS
    <3> HIDE DEF key
    <3>2. /\ DOMAIN Add(map, key, n + 1) = DOMAIN map \cup {key}
          /\ \A k \in DOMAIN map : k # key => Add(map, key, n + 1)[k] = map[k]
          /\ Add(map, key, n + 1)[key] = Append(Entry(map, key), n + 1)
          /\ Entry(map, key) \in Seq(Nat)
          /\ \A k \in DOMAIN Add(map, key, n + 1) : Add(map, key, n + 1)[k] \in Seq(Nat)
      BY ONLY <2>1, <3>1, AddFields
    <3> QED  BY ONLY <2>1, <3>2
  <2>3. Lists(Entry(map, key), Among(g, cap, key, n))
    <3>1. CASE key \in DOMAIN map
      BY <3>1 DEF Entry
    <3>2. CASE key \notin DOMAIN map
      <4>1. Among(g, cap, key, n) = {}
        BY <3>2, <1>3, AmongFields
      <4> QED  BY <4>1, <3>2, ListsNothing DEF Entry
    <3> QED  BY <3>1, <3>2
  <2>4. Lists(new[key], Among(g, cap, key, n + 1))
    <3>1. \A m \in Among(g, cap, key, n) : m < n + 1
      BY <1>1
    <3>2. Among(g, cap, key, n + 1) = Among(g, cap, key, n) \cup {n + 1}
      BY <1>1, <1>3
    <3>3. Lists(Append(Entry(map, key), n + 1), Among(g, cap, key, n) \cup {n + 1})
      BY <2>2, <2>3, <3>1, <2>1, ListsOneMore
    <3> QED  BY <2>2, <3>2, <3>3
  <2>5. ASSUME NEW k \in DOMAIN new, k # key PROVE Lists(new[k], Among(g, cap, k, n + 1))
    <3>1. Among(g, cap, k, n + 1) = Among(g, cap, k, n)
      BY <2>5, <1>1
    <3> QED  BY <3>1, <2>2, <2>5
  <2>6. \A i \in 1..(n + 1) : i = n + 1 \/ i \in 1..n
    OBVIOUS
  <2> HIDE DEF key
  <2>7. \A i \in 1..(n + 1) : ~Skipped(cap[i]) /\ Id(g, cap, i) \in kept => Id(g, cap, i) \in DOMAIN new
    BY <2>2, <2>6 DEF key
  <2> QED  BY <2>2, <2>4, <2>5, <2>7, <1>3 DEF key
<1> QED  BY <1>2, <1>3
\* What the invariant says, with the flows of the first pass written out.
LEMMA InvFields ==
  ASSUME SplitInv
  PROVE  /\ options \in Options /\ options.granularity \in Granularities /\ options.number \in Numbers
         /\ capture \in Seq(Frames) /\ Len(capture) \in Nat
         /\ next \in Nat /\ 1 <= next /\ next <= Len(capture) + 1 /\ next - 1 \in Nat
BY DEF SplitInv, Types, Options

LEMMA ReadPacketKeeps ==
  ASSUME SplitInv, ReadPacket
  PROVE  SplitInv'
<1> DEFINE g == options.granularity
<1>1. /\ options' = options /\ phase = "first" /\ phase' = phase
      /\ selected' = selected /\ files' = files /\ writing' = writing
      /\ next' = next + 1
  BY DEF ReadPacket
<1>2. PICK frame \in Frames :
        /\ capture' = Append(capture, frame)
        /\ flows' = IF Skipped(frame) THEN flows
                    ELSE Add(flows, FlowId(g, FlowInfo(frame)), next)
  BY DEF ReadPacket
<1>3. /\ next = Len(capture) + 1 /\ selected = {} /\ DOMAIN files = {}
      /\ \A i \in 1..Len(capture) : ~Skipped(capture[i]) => Key(i) \in DOMAIN flows
  BY <1>1 DEF SplitInv, FirstPass
<1>4. /\ capture' \in Seq(Frames) /\ Len(capture') = Len(capture) + 1 /\ Len(capture) \in Nat
      /\ capture'[Len(capture) + 1] = frame
      /\ \A i \in 1..Len(capture) : capture'[i] = capture[i] /\ Id(g, capture', i) = Id(g, capture, i)
      /\ Id(g, capture', Len(capture) + 1) = FlowId(g, FlowInfo(frame))
      /\ \A n \in 0..Len(capture) : \A k : Among(g, capture', k, n) = Among(g, capture, k, n)
  <2>1. GrownBy(g, capture, frame, capture')
    BY <1>2, InvFields, AmongGrown
  <2> QED  BY <2>1 DEF GrownBy
<1>5. /\ \A i : Key(i)' = Id(g, capture', i)
      /\ \A k, n : Members(k, n)' = Among(g, capture', k, n)
      /\ \A i : Key(i) = Id(g, capture, i)
      /\ \A k, n : Members(k, n) = Among(g, capture, k, n)
  BY <1>1, MembersAreAmong, MembersAreAmongNext
<1> DEFINE key == Id(g, capture', next)
           kept == DOMAIN flows \cup {key}
           n == Len(capture)
<1>6. /\ DOMAIN flows' \subseteq kept
      /\ \A k \in DOMAIN flows' : flows'[k] \in Seq(Nat) /\ Lists(flows'[k], Among(g, capture', k, n + 1))
      /\ \A i \in 1..(n + 1) : ~Skipped(capture'[i]) /\ Id(g, capture', i) \in kept
                                 => Id(g, capture', i) \in DOMAIN flows'
  <2>1. \A k \in DOMAIN flows : flows[k] \in Seq(Nat) /\ Lists(flows[k], Among(g, capture', k, n))
    <3>1. \A k \in DOMAIN flows : flows[k] \in Seq(Nat) /\ Lists(flows[k], Members(k, n))
      BY <1>1 DEF SplitInv, Types, Flows
    <3>2. n \in 0..Len(capture)
      BY <1>4
    <3> QED  BY <3>1, <3>2, <1>4, <1>5
  <2>2. \A i \in 1..n : ~Skipped(capture'[i]) /\ Id(g, capture', i) \in kept
                          => Id(g, capture', i) \in DOMAIN flows
    BY <1>3, <1>4, <1>5
  <2>3. flows' = IF ~Skipped(capture'[n + 1]) /\ Id(g, capture', n + 1) \in kept
                 THEN Add(flows, Id(g, capture', n + 1), n + 1) ELSE flows
    BY <1>2, <1>3, <1>4
  <2>4. DOMAIN flows \subseteq kept /\ n \in Nat
    BY <1>4
  <2>5. ListsUpTo(g, capture', flows, kept, n)
    BY <2>1, <2>2, <2>4 DEF ListsUpTo
  <2> HIDE DEF n, kept, key, g
  <2>6. ListsUpTo(g, capture', flows', kept, n + 1)
    BY ONLY <2>3, <2>4, <2>5, ListsGrow
  <2> QED  BY <2>6 DEF ListsUpTo
<1>7. \A i \in 1..(n + 1) : ~Skipped(capture'[i]) => Id(g, capture', i) \in kept
  <2> SUFFICES ASSUME NEW i \in 1..(n + 1), ~Skipped(capture'[i]) PROVE Id(g, capture', i) \in kept
    OBVIOUS
  <2>1. CASE i \in 1..n
    BY <2>1, <1>3, <1>4, <1>5
  <2>2. CASE i = n + 1
    BY <2>2, <1>3
  <2> QED  BY <2>1, <2>2, <1>4
<1>8. Types'
  <2>1. IsFiniteSet(DOMAIN flows')
    <3>1. IsFiniteSet(DOMAIN flows)
      BY DEF SplitInv, Types
    <3>2. IsFiniteSet(kept)
      BY <3>1, FS_AddElement
    <3> QED  BY <3>2, <1>6, FS_Subset
  <2>2. next' \in 1..(Len(capture') + 1)
    BY <1>1, <1>3, <1>4
  <2> HIDE DEF g, key, kept
  <2> QED  BY <2>1, <2>2, <1>1, <1>4, <1>6 DEF SplitInv, Types
<1>9. FirstPass'
  <2>1. \A i \in 1..Len(capture') : ~Skipped(capture'[i]) => Key(i)' \in DOMAIN flows'
    BY <1>4, <1>5, <1>6, <1>7
  <2> HIDE DEF g, key, kept
  <2> QED  BY <2>1, <1>1, <1>3, <1>4 DEF FirstPass
<1>10. Flows'
  <2>1. \A k \in DOMAIN flows' : Lists(flows'[k], Among(g, capture', k, Len(capture')))
    BY <1>4, <1>6
  <2>2. ASSUME NEW k \in DOMAIN flows' PROVE Among(g, capture', k, Len(capture')) # {}
    <3>1. CASE k \in DOMAIN flows
      <4>1. PICK i : i \in Among(g, capture, k, n)
        BY <3>1, <1>5 DEF SplitInv, Flows
      <4>2. i \in Among(g, capture', k, n)
        BY <4>1, <1>4
      <4> QED  BY <4>2, <1>4 DEF Among
    <3>2. CASE k \notin DOMAIN flows
      <4>1. k = key /\ ~Skipped(frame)
        BY <3>2, <1>2, <1>6
      <4>2. n + 1 \in Among(g, capture', k, n + 1)
        BY <4>1, <1>3, <1>4 DEF Among
      <4> QED  BY <4>2, <1>4
    <3> QED  BY <3>1, <3>2
  <2> HIDE DEF g
  <2> QED  BY <2>1, <2>2, <1>5 DEF Flows
<1>11. Chosen'
  BY <1>1, <1>3 DEF SplitInv, Chosen
<1>12. OneByOne'
  BY <1>1, <1>3 DEF SplitInv, OneByOne, Chosen
<1>13. Together'
  BY <1>1, <1>3 DEF Together
<1> QED  BY <1>8, <1>9, <1>10, <1>11, <1>12, <1>13 DEF SplitInv
LEMMA EndOfFirstPassKeeps ==
  ASSUME SplitInv, EndOfFirstPass
  PROVE  SplitInv'
<1>1. /\ options' = options /\ capture' = capture /\ flows' = flows
      /\ files' = files /\ writing' = writing /\ next' = 1
      /\ phase = "first" /\ phase' = IF options.two_pass THEN "second" ELSE "write"
      /\ selected' \in Largest(options.number)
  BY DEF EndOfFirstPass
<1>2. /\ \A k : \A n : Members(k, n)' = Members(k, n)
      /\ \A i : Key(i)' = Key(i)
  BY <1>1, SameMembers
<1>3. DOMAIN files = {} /\ writing = {}
  BY <1>1 DEF SplitInv, FirstPass, Chosen
<1>4. Types'
  BY <1>1, InvFields DEF SplitInv, Types, Phases
<1>5. FirstPass'
  BY <1>1 DEF FirstPass
<1>6. Flows'
  BY <1>1, <1>2 DEF SplitInv, Flows
<1>7. Chosen'
  <2>1. /\ selected' \in SUBSET DOMAIN flows
        /\ Cardinality(selected') = (IF options.number = 0 \/ options.number > Cardinality(DOMAIN flows)
                                     THEN Cardinality(DOMAIN flows) ELSE options.number)
        /\ \A k \in selected', other \in DOMAIN flows \ selected' :
             Len(flows[k]) >= Len(flows[other])
    BY <1>1 DEF Largest
  <2>2. Cardinality(DOMAIN flows) \in Nat
    BY FS_CardinalityType DEF SplitInv, Types
  <2>3. Cardinality(selected') < Cardinality(DOMAIN flows) => Cardinality(selected') = options.number
    BY <2>1, <2>2
  <2> QED  BY <1>1, <1>3, <2>1, <2>3 DEF Chosen
<1>8. OneByOne'
  BY <1>1, <1>3 DEF OneByOne
<1>9. Together'
  BY <1>1, <1>3 DEF Together
<1> QED  BY <1>4, <1>5, <1>6, <1>7, <1>8, <1>9 DEF SplitInv

\* The steps that write nothing: a failure, a flush, the end of a pass.
LEMMA NothingWrittenKeeps ==
  ASSUME SplitInv, phase' \in Phases, writing' \subseteq writing,
         UNCHANGED << options, capture, next, flows, selected, files >>,
         phase' # "first", phase' # "failed" => phase \notin {"first", "failed"},
         ~options.two_pass =>
           /\ phase' \notin {"second", "flush"}
           /\ phase' \in {"write", "done"} =>
                \A k \in DOMAIN files \ writing' : files[k] = flows[k]
           /\ phase' = "done" => selected = DOMAIN files /\ writing = {},
         options.two_pass =>
           /\ phase' # "write"
           /\ phase' \in {"flush", "done"} => next = Len(capture) + 1
  PROVE  SplitInv'
<1>1. /\ \A k : \A n : Members(k, n)' = Members(k, n)
      /\ \A i : Key(i)' = Key(i)
  BY SameMembers
<1>2. Types'
  BY DEF SplitInv, Types
<1>3. FirstPass'
  BY DEF FirstPass
<1>4. Flows'
  BY <1>1 DEF SplitInv, Flows
<1>5. Chosen'
  BY DEF SplitInv, Chosen
<1>6. OneByOne'
  BY DEF SplitInv, OneByOne
<1>7. Together'
  BY <1>1 DEF SplitInv, Together
<1> QED  BY <1>2, <1>3, <1>4, <1>5, <1>6, <1>7 DEF SplitInv

LEMMA NothingWrittenSteps ==
  ASSUME SplitInv,
         \/ ReadFails \/ FlushWriter \/ WriteFails \/ Written
         \/ EndOfSecondPass \/ FlushOne \/ FlushFails \/ Flushed
  PROVE  SplitInv'
<1> USE DEF Phases
<1>1. CASE ReadFails
  BY <1>1, NothingWrittenKeeps DEF ReadFails
<1>2. CASE WriteFails
  BY <1>2, NothingWrittenKeeps DEF WriteFails
<1>3. CASE FlushFails
  BY <1>3, NothingWrittenKeeps DEF FlushFails
<1>4. CASE FlushWriter
  <2>1. /\ phase = "write" /\ ~options.two_pass
        /\ writing' = {} /\ UNCHANGED << options, phase, capture, next, flows, selected, files >>
    BY <1>4 DEF FlushWriter, SplitInv, Together
  <2>2. PICK k \in writing : Len(files[k]) = Len(flows[k])
    BY <1>4 DEF FlushWriter
  <2>3. files[k] = flows[k]
    <3>1. k \in DOMAIN files /\ k \in DOMAIN flows
      BY <2>2 DEF SplitInv, Chosen
    <3>2. files[k] = SubSeq(flows[k], 1, Len(flows[k])) /\ flows[k] \in Seq(Nat)
      BY <2>1, <2>2, <3>1 DEF SplitInv, OneByOne, Types
    <3> QED  BY <3>2
  <2>4. \A j \in DOMAIN files : files[j] = flows[j]
    BY <2>1, <2>2, <2>3 DEF SplitInv, OneByOne
  <2> QED  BY <2>1, <2>4, NothingWrittenKeeps
<1>5. CASE Written
  <2>1. ~options.two_pass
    BY <1>5 DEF Written, SplitInv, Together
  <2>2. \A k \in DOMAIN files : files[k] = flows[k]
    BY <1>5, <2>1 DEF Written, SplitInv, OneByOne
  <2> QED  BY <1>5, <2>1, <2>2, NothingWrittenKeeps DEF Written
<1>6. CASE EndOfSecondPass
  <2>1. options.two_pass
    BY <1>6 DEF EndOfSecondPass, SplitInv, OneByOne
  <2> QED  BY <1>6, <2>1, NothingWrittenKeeps DEF EndOfSecondPass
<1>7. CASE FlushOne
  <2>1. options.two_pass
    BY <1>7 DEF FlushOne, SplitInv, OneByOne
  <2> QED  BY <1>7, <2>1, NothingWrittenKeeps DEF FlushOne, SplitInv, Together
<1>8. CASE Flushed
  <2>1. options.two_pass
    BY <1>8 DEF Flushed, SplitInv, OneByOne
  <2>2. next = Len(capture) + 1
    BY <1>8, <2>1 DEF Flushed, SplitInv, Together
  <2> QED  BY <1>8, <2>1, <2>2, NothingWrittenKeeps DEF Flushed
<1> QED  BY <1>1, <1>2, <1>3, <1>4, <1>5, <1>6, <1>7, <1>8
LEMMA CreateWriterKeeps ==
  ASSUME SplitInv, CreateWriter
  PROVE  SplitInv'
<1>1. /\ UNCHANGED << options, phase, capture, next, flows, selected >>
      /\ phase = "write" /\ writing = {}
  BY DEF CreateWriter
<1>2. PICK k \in selected \ DOMAIN files :
        /\ files' = [key \in DOMAIN files \cup {k} |-> IF key = k THEN << >> ELSE files[key]]
        /\ writing' = {k}
  BY DEF CreateWriter
<1>3. ~options.two_pass
  BY <1>1 DEF SplitInv, Together
<1>4. /\ DOMAIN files' = DOMAIN files \cup {k}
      /\ files'[k] = << >>
      /\ \A key \in DOMAIN files : key # k /\ files'[key] = files[key] /\ files[key] = flows[key]
  BY <1>1, <1>2, <1>3 DEF SplitInv, OneByOne
<1>5. k \in DOMAIN flows /\ flows[k] \in Seq(Nat)
  BY <1>2 DEF SplitInv, Chosen, Types
<1>6. Types'
  <2>1. \A key \in DOMAIN files : files[key] \in Seq(Nat)
    BY DEF SplitInv, Types
  <2>2. files'[k] \in Seq(Nat)
    BY <1>4, EmptySeq
  <2>3. \A key \in DOMAIN files' : files'[key] \in Seq(Nat)
    BY ONLY <1>4, <2>1, <2>2
  <2> QED  BY <1>1, <2>3 DEF SplitInv, Types
<1>7. FirstPass'
  BY <1>1 DEF FirstPass
<1>8. Flows'
  <2>1. \A key : \A n : Members(key, n)' = Members(key, n)
    BY <1>1, SameMembers
  <2> QED  BY <1>1, <2>1 DEF SplitInv, Flows
<1>9. Chosen'
  BY <1>1, <1>2, <1>4 DEF SplitInv, Chosen
<1>10. OneByOne'
  <2>1. \A key \in DOMAIN files' : /\ Len(files'[key]) <= Len(flows[key])
                                   /\ files'[key] = SubSeq(flows[key], 1, Len(files'[key]))
    <3>1. \A key \in DOMAIN files : /\ Len(files[key]) <= Len(flows[key])
                                    /\ files[key] = SubSeq(flows[key], 1, Len(files[key]))
      BY <1>3 DEF SplitInv, OneByOne
    <3>2. /\ Len(files'[k]) <= Len(flows[k])
          /\ files'[k] = SubSeq(flows[k], 1, Len(files'[k]))
      BY <1>4, <1>5
    <3> QED  BY <3>1, <3>2, <1>4
  <2>2. \A key \in DOMAIN files' \ writing' : files'[key] = flows[key]
    BY <1>2, <1>4
  <2> QED  BY <1>1, <1>2, <1>4, <2>1, <2>2 DEF OneByOne
<1>11. Together'
  BY <1>1, <1>3 DEF Together
<1> QED  BY <1>6, <1>7, <1>8, <1>9, <1>10, <1>11 DEF SplitInv

LEMMA WritePacketKeeps ==
  ASSUME SplitInv, WritePacket
  PROVE  SplitInv'
<1>1. /\ UNCHANGED << options, phase, capture, next, flows, selected, writing >>
      /\ phase = "write"
  BY DEF WritePacket
<1>2. PICK k \in writing :
        /\ Len(files[k]) < Len(flows[k])
        /\ files' = [files EXCEPT ![k] = Append(@, flows[k][Len(@) + 1])]
  BY DEF WritePacket
<1>3. ~options.two_pass
  BY <1>1 DEF SplitInv, Together
<1>4. /\ k \in DOMAIN files /\ k \in DOMAIN flows
      /\ files[k] \in Seq(Nat) /\ flows[k] \in Seq(Nat)
      /\ files[k] = SubSeq(flows[k], 1, Len(files[k]))
  BY <1>2, <1>3 DEF SplitInv, Chosen, Types, OneByOne
<1>5. /\ DOMAIN files' = DOMAIN files
      /\ files'[k] = Append(files[k], flows[k][Len(files[k]) + 1])
      /\ \A key \in DOMAIN files : key # k => files'[key] = files[key]
  BY <1>2, <1>4
<1>6. /\ files'[k] \in Seq(Nat)
      /\ Len(files'[k]) <= Len(flows[k])
      /\ files'[k] = SubSeq(flows[k], 1, Len(files'[k]))
  <2> DEFINE n == Len(files[k])
             written == SubSeq(flows[k], 1, n + 1)
  <2>1. n \in Nat /\ n + 1 \in 1..Len(flows[k]) /\ Len(flows[k]) \in Nat
    BY <1>2, <1>4
  <2>2. /\ \A a \in 1..Len(flows[k]) : flows[k][a] \in Nat
        /\ \A a \in 1..n : files[k][a] = flows[k][a]
    BY <1>4, <2>1
  <2>3. files'[k] \in Seq(Nat) /\ Len(files'[k]) = n + 1
    BY <1>4, <1>5, <2>1, <2>2
  <2>4. \A a \in 1..(n + 1) : files'[k][a] = flows[k][a]
    <3>1. \A a \in 1..n : files'[k][a] = files[k][a]
      BY <1>4, <1>5, <2>1
    <3>2. files'[k][n + 1] = flows[k][n + 1]
      BY <1>4, <1>5, <2>1
    <3> QED  BY <3>1, <3>2, <2>1, <2>2
  <2>5. /\ written \in Seq(Nat) /\ Len(written) = n + 1
        /\ \A a \in 1..(n + 1) : written[a] = flows[k][a]
    BY <1>4, <2>1, <2>2
  <2> HIDE DEF n, written
  <2>6. files'[k] = written
    BY <2>3, <2>4, <2>5, SeqEqual
  <2> QED  BY <2>1, <2>3, <2>6 DEF written
<1>7. Types'
  BY <1>1, <1>5, <1>6 DEF SplitInv, Types
<1>8. FirstPass'
  BY <1>1 DEF FirstPass
<1>9. Flows'
  <2>1. \A key : \A n : Members(key, n)' = Members(key, n)
    BY <1>1, SameMembers
  <2> QED  BY <1>1, <2>1 DEF SplitInv, Flows
<1>10. Chosen'
  BY <1>1, <1>5 DEF SplitInv, Chosen
<1>11. OneByOne'
  <2>1. \A key \in DOMAIN files \ writing : files'[key] = flows[key]
    BY <1>1, <1>2, <1>3, <1>5 DEF SplitInv, OneByOne
  <2>2. \A i, j \in DOMAIN files' : files'[i] # flows[i] /\ files'[j] # flows[j] => i = j
    BY <1>1, <1>3, <1>5, <2>1 DEF SplitInv, OneByOne
  <2>3. \A key \in DOMAIN files' : /\ Len(files'[key]) <= Len(flows[key])
                                   /\ files'[key] = SubSeq(flows[key], 1, Len(files'[key]))
    BY <1>3, <1>5, <1>6 DEF SplitInv, OneByOne
  <2> QED  BY <1>1, <1>3, <1>5, <2>1, <2>2, <2>3 DEF SplitInv, OneByOne
<1>12. Together'
  BY <1>1, <1>3 DEF Together
<1> QED  BY <1>7, <1>8, <1>9, <1>10, <1>11, <1>12 DEF SplitInv

LEMMA GrowKeeps ==
  ASSUME SplitInv, Grow
  PROVE  SplitInv'
<1> DEFINE g == options.granularity
<1>1. /\ UNCHANGED << options, phase, next, flows, selected, files, writing >>
      /\ phase = "second" /\ next = Len(capture) + 1
  BY DEF Grow
<1>2. PICK frame \in Frames : capture' = Append(capture, frame)
  BY DEF Grow
<1>3. options.two_pass
  BY <1>1 DEF SplitInv, OneByOne
<1>4. /\ capture' \in Seq(Frames) /\ Len(capture') = Len(capture) + 1 /\ Len(capture) \in Nat
      /\ \A i \in 1..Len(capture) : capture'[i] = capture[i] /\ Key(i)' = Key(i)
      /\ \A n \in 0..Len(capture) : \A k : Among(g, capture', k, n) = Among(g, capture, k, n)
  <2>1. GrownBy(g, capture, frame, capture')
    BY <1>2, InvFields, AmongGrown
  <2> QED  BY <1>1, <2>1, MembersAreAmong, MembersAreAmongNext DEF GrownBy
<1>5. /\ \A k, n : Members(k, n)' = Among(g, capture', k, n)
      /\ \A k, n : Members(k, n) = Among(g, capture, k, n)
  BY <1>1, MembersAreAmong, MembersAreAmongNext
<1>6. Types'
  BY <1>1, <1>4 DEF SplitInv, Types
<1>7. FirstPass'
  BY <1>1 DEF FirstPass
<1>8. Flows'
  <2>1. \A k \in DOMAIN flows : \E i : i \in Among(g, capture, k, Len(capture))
    BY <1>5 DEF SplitInv, Flows
  <2>2. \A k \in DOMAIN flows : \E i : i \in Among(g, capture', k, Len(capture'))
    <3>1. ASSUME NEW k, NEW i \in Among(g, capture, k, Len(capture))
          PROVE  i \in Among(g, capture', k, Len(capture'))
      <4>1. i \in Among(g, capture', k, Len(capture))
        BY <1>4
      <4> QED  BY <4>1, <1>4 DEF Among
    <3> QED  BY <2>1, <3>1
  <2> HIDE DEF g
  <2> QED  BY <1>1, <1>3, <1>5, <2>2 DEF SplitInv, Flows
<1>9. Chosen'
  BY <1>1 DEF SplitInv, Chosen
<1>10. OneByOne'
  BY <1>1, <1>3 DEF OneByOne
<1>11. Together'
  <2>1. \A k \in DOMAIN files : Lists(files[k], Among(g, capture', k, next - 1))
    <3>1. \A k \in DOMAIN files : Lists(files[k], Among(g, capture, k, next - 1))
      BY <1>3, <1>5 DEF SplitInv, Together
    <3>2. next - 1 \in 0..Len(capture)
      BY <1>1, <1>4
    <3> QED  BY <3>1, <3>2, <1>4
  <2>2. \A i \in 1..(next - 1) :
          ~Skipped(capture'[i]) /\ Key(i)' \in selected => Key(i)' \in DOMAIN files
    BY <1>1, <1>3, <1>4 DEF SplitInv, Together
  <2> HIDE DEF g
  <2> QED  BY <1>1, <1>5, <2>1, <2>2 DEF Together
<1> QED  BY <1>6, <1>7, <1>8, <1>9, <1>10, <1>11 DEF SplitInv
\* The writer of the next packet's flow opens if it is selected.
LEMMA RereadPacketKeeps ==
  ASSUME SplitInv, RereadPacket
  PROVE  SplitInv'
<1> DEFINE g == options.granularity
           key == Id(g, capture, next)
           n == next - 1
           added == ~Skipped(capture[next]) /\ key \in selected
<1>1. /\ UNCHANGED << options, phase, capture, flows, selected >>
      /\ phase = "second" /\ next <= Len(capture) /\ next' = next + 1
  BY DEF RereadPacket
<1>2. /\ \A k, m : Members(k, m)' = Among(g, capture, k, m)
      /\ \A k, m : Members(k, m) = Among(g, capture, k, m)
      /\ \A i : Key(i)' = Id(g, capture, i)
      /\ \A i : Key(i) = Id(g, capture, i)
  BY <1>1, MembersAreAmong, MembersAreAmongNext
<1>3. /\ files' = IF added THEN Add(files, key, next) ELSE files
      /\ writing' = IF added THEN writing \cup {key} ELSE writing
  BY <1>2 DEF RereadPacket
<1>4. options.two_pass
  BY <1>1 DEF SplitInv, OneByOne
<1>5. n \in Nat /\ next = n + 1 /\ next' - 1 = n + 1
  BY <1>1, InvFields
<1>6. ListsUpTo(g, capture, files, selected, n)
  <2>1. \A k \in DOMAIN files : files[k] \in Seq(Nat) /\ Lists(files[k], Members(k, n))
    BY <1>4 DEF SplitInv, Types, Together
  <2>2. \A i \in 1..n : ~Skipped(capture[i]) /\ Key(i) \in selected => Key(i) \in DOMAIN files
    BY <1>4 DEF SplitInv, Together
  <2>3. DOMAIN files \subseteq selected
    BY DEF SplitInv, Chosen
  <2> HIDE DEF g, n
  <2> QED  BY <1>2, <2>1, <2>2, <2>3 DEF ListsUpTo
<1>7. ListsUpTo(g, capture, files', selected, n + 1)
  <2>1. files' = IF ~Skipped(capture[n + 1]) /\ Id(g, capture, n + 1) \in selected
                 THEN Add(files, Id(g, capture, n + 1), n + 1) ELSE files
    BY <1>3, <1>5
  <2> HIDE DEF g, n
  <2> QED  BY ONLY <1>5, <1>6, <2>1, ListsGrow
<1>8. writing' \subseteq DOMAIN files'
  <2>1. writing \subseteq DOMAIN files
    BY DEF SplitInv, Chosen
  <2>2. DOMAIN files' = IF added THEN DOMAIN files \cup {key} ELSE DOMAIN files
    BY <1>3 DEF Add
  <2> HIDE DEF key, added
  <2> QED  BY <1>3, <2>1, <2>2
<1> HIDE DEF g, key, n, added
<1>9. Types'
  BY <1>1, <1>7, InvFields DEF SplitInv, Types, ListsUpTo
<1>10. FirstPass'
  BY <1>1 DEF FirstPass
<1>11. Flows'
  BY <1>1, <1>2, <1>4 DEF SplitInv, Flows
<1>12. Chosen'
  BY <1>1, <1>7, <1>8 DEF SplitInv, Chosen, ListsUpTo
<1>13. OneByOne'
  BY <1>1, <1>4 DEF OneByOne
<1>14. Together'
  BY <1>1, <1>2, <1>4, <1>5, <1>7 DEF Together, ListsUpTo
<1> QED  BY <1>9, <1>10, <1>11, <1>12, <1>13, <1>14 DEF SplitInv

\* The file of the packet that could not be written has no packet more than before.
LEMMA RereadFailsKeeps ==
  ASSUME SplitInv, RereadFails
  PROVE  SplitInv'
<1>1. /\ UNCHANGED << options, capture, next, flows, selected >>
      /\ phase = "second" /\ next <= Len(capture) /\ Key(next) \in selected
      /\ phase' = "failed" /\ writing' = {}
      /\ \/ files' = files
         \/ files' = [k \in DOMAIN files \cup {Key(next)} |->
                        IF k \in DOMAIN files THEN files[k] ELSE << >>]
  BY DEF RereadFails
<1>2. /\ \A k : \A n : Members(k, n)' = Members(k, n)
      /\ \A i : Key(i)' = Key(i)
  BY <1>1, SameMembers
<1>3. options.two_pass
  BY <1>1 DEF SplitInv, OneByOne
<1>4. /\ DOMAIN files \subseteq DOMAIN files' /\ DOMAIN files' \subseteq DOMAIN files \cup {Key(next)}
      /\ \A k \in DOMAIN files : files'[k] = files[k]
      /\ \A k \in DOMAIN files' \ DOMAIN files : k = Key(next) /\ files'[k] = << >>
  BY <1>1
<1>5. ASSUME NEW k \in DOMAIN files'
      PROVE  files'[k] \in Seq(Nat) /\ Lists(files'[k], Members(k, next - 1))
  <2>1. CASE k \in DOMAIN files
    BY <2>1, <1>3, <1>4 DEF SplitInv, Types, Together
  <2>2. CASE k \notin DOMAIN files
    <3>1. k = Key(next) /\ files'[k] = << >> /\ k \in selected
      BY <2>2, <1>1, <1>4
    <3>2. Members(k, next - 1) = {}
      BY <2>2, <3>1, <1>3 DEF SplitInv, Together, Members
    <3> QED  BY <3>1, <3>2, ListsNothing
  <2> QED  BY <2>1, <2>2
<1>6. Types'
  BY <1>1, <1>5, InvFields DEF SplitInv, Types, Phases
<1>7. FirstPass'
  BY <1>1 DEF FirstPass
<1>8. Flows'
  BY <1>1, <1>2, <1>3 DEF SplitInv, Flows
<1>9. Chosen'
  BY <1>1, <1>4 DEF SplitInv, Chosen
<1>10. OneByOne'
  BY <1>1, <1>3 DEF OneByOne
<1>11. Together'
  BY <1>1, <1>2, <1>3, <1>4, <1>5 DEF SplitInv, Together
<1> QED  BY <1>6, <1>7, <1>8, <1>9, <1>10, <1>11 DEF SplitInv

LEMMA StutteringKeeps ==
  ASSUME SplitInv, UNCHANGED splitVars
  PROVE  SplitInv'
<1> USE DEF splitVars
<1>1. /\ \A k : \A n : Members(k, n)' = Members(k, n)
      /\ \A i : Key(i)' = Key(i)
  BY SameMembers
<1>2. Types'
  BY DEF SplitInv, Types
<1>3. FirstPass'
  BY <1>1 DEF SplitInv, FirstPass
<1>4. Flows'
  BY <1>1 DEF SplitInv, Flows
<1>5. Chosen'
  BY DEF SplitInv, Chosen
<1>6. OneByOne'
  BY DEF SplitInv, OneByOne
<1>7. Together'
  BY <1>1 DEF SplitInv, Together
<1> QED  BY <1>2, <1>3, <1>4, <1>5, <1>6, <1>7 DEF SplitInv

LEMMA Invariant == SplitSpec => []SplitInv
<1>1. ASSUME SplitInv, [SplitNext]_splitVars PROVE SplitInv'
  <2>1. CASE ReadPacket
    BY <1>1, <2>1, ReadPacketKeeps
  <2>2. CASE EndOfFirstPass
    BY <1>1, <2>2, EndOfFirstPassKeeps
  <2>3. CASE CreateWriter
    BY <1>1, <2>3, CreateWriterKeeps
  <2>4. CASE WritePacket
    BY <1>1, <2>4, WritePacketKeeps
  <2>5. CASE Grow
    BY <1>1, <2>5, GrowKeeps
  <2>6. CASE RereadPacket
    BY <1>1, <2>6, RereadPacketKeeps
  <2>7. CASE RereadFails
    BY <1>1, <2>7, RereadFailsKeeps
  <2>8. CASE \/ ReadFails \/ FlushWriter \/ WriteFails \/ Written
             \/ EndOfSecondPass \/ FlushOne \/ FlushFails \/ Flushed
    BY <1>1, <2>8, NothingWrittenSteps
  <2>9. CASE UNCHANGED splitVars
    BY <1>1, <2>9, StutteringKeeps
  <2> QED  BY <1>1, <2>1, <2>2, <2>3, <2>4, <2>5, <2>6, <2>7, <2>8, <2>9 DEF SplitNext
<1> QED  BY <1>1, Initially, PTL DEF SplitSpec

-----------------------------------------------------------------------------
(* What it implies                                                         *)

\* A file holds only packets of its flow, in the order of the capture.
LEMMA FilesHoldMembers ==
  ASSUME SplitInv, NEW k \in DOMAIN files
  PROVE  /\ files[k] \in Seq(Nat)
         /\ \E n \in 0..Len(capture) : Lists(files[k], Members(k, n))
<1>1. files[k] \in Seq(Nat) /\ Len(files[k]) \in Nat
  BY DEF SplitInv, Types
<1>2. CASE options.two_pass
  <2>1. next - 1 \in 0..Len(capture)
    BY InvFields
  <2> QED  BY <1>1, <1>2, <2>1 DEF SplitInv, Together
<1>3. CASE ~options.two_pass
  <2>1. k \in DOMAIN flows
    BY DEF SplitInv, Chosen
  <2>2. flows[k] \in Seq(Nat) /\ Lists(flows[k], Members(k, Len(capture)))
    BY <1>3, <2>1 DEF SplitInv, Types, Flows
  <2>3. /\ Len(files[k]) \in 0..Len(flows[k])
        /\ files[k] = SubSeq(flows[k], 1, Len(files[k]))
    BY <1>1, <1>3, <2>2 DEF SplitInv, OneByOne
  <2>4. \E n \in 0..Len(capture) : Lists(SubSeq(flows[k], 1, Len(files[k])), Members(k, n))
    BY <2>2, <2>3, InvFields, MembersAreAmong, BeginningOfList
  <2> QED  BY <1>1, <2>3, <2>4
<1> QED  BY <1>2, <1>3

LEMMA InAFileFields ==
  ASSUME SplitInv, NEW k \in DOMAIN files, NEW i, Contains(files[k], i)
  PROVE  i \in 1..Len(capture) /\ ~Skipped(capture[i]) /\ Key(i) = k
<1>1. PICK n \in 0..Len(capture) : Lists(files[k], Members(k, n)) /\ files[k] \in Seq(Nat)
  BY FilesHoldMembers
<1>2. PICK a \in DOMAIN files[k] : files[k][a] = i
  BY <1>1 DEF Contains
<1>3. i \in Members(k, n)
  BY <1>1, <1>2 DEF Lists
<1> QED  BY <1>3, InvFields DEF Members

LEMMA FramesHaveInfos ==
  ASSUME SplitInv, NEW i \in 1..Len(capture), ~Skipped(capture[i])
  PROVE  FlowInfo(capture[i]) \in Infos
<1>1. capture[i] \in Frames
  BY InvFields
<1> QED  BY <1>1, FramesAssumption

\* Two written packets are in one file exactly when they belong to one conversation
\* of the granularity (Ordered and FlowId, used by create_writer).
THEOREM FilesAreConversations == SplitSpec => []SameFileIffSameConversation
<1>1. ASSUME SplitInv PROVE SameFileIffSameConversation
  <2> SUFFICES ASSUME NEW i \in 1..Len(capture), NEW j \in 1..Len(capture),
                      InAFile(i), InAFile(j)
               PROVE  SameConversation(FlowInfo(capture[i]), FlowInfo(capture[j]))
                        <=> \E k \in DOMAIN files : Contains(files[k], i) /\ Contains(files[k], j)
    BY DEF SameFileIffSameConversation
  <2>1. PICK k \in DOMAIN files : Contains(files[k], i)
    BY DEF InAFile
  <2>2. PICK l \in DOMAIN files : Contains(files[l], j)
    BY DEF InAFile
  <2>3. Key(i) = k /\ Key(j) = l /\ ~Skipped(capture[i]) /\ ~Skipped(capture[j])
    BY <1>1, <2>1, <2>2, InAFileFields
  <2>4. (Key(i) = Key(j)) <=> SameConversation(FlowInfo(capture[i]), FlowInfo(capture[j]))
    <3>1. FlowInfo(capture[i]) \in Infos /\ FlowInfo(capture[j]) \in Infos
      BY <1>1, <2>3, FramesHaveInfos
    <3> QED  BY <1>1, <3>1, IdentifiesConversation, InvFields DEF Key
  <2>5. (\E f \in DOMAIN files : Contains(files[f], i) /\ Contains(files[f], j)) <=> k = l
    BY <1>1, <2>1, <2>2, <2>3, InAFileFields
  <2> QED  BY <2>3, <2>4, <2>5
<1> QED  BY <1>1, Invariant, PTL

\* A run that succeeds wrote every packet of each selected flow, and no flow it left
\* out is larger than one it wrote (single_pass_split, two_pass_split).
THEOREM DoneFilesAreFlows == SplitSpec => []FilesAreFlows
<1>1. ASSUME SplitInv PROVE FilesAreFlows
  <2> SUFFICES ASSUME phase = "done" PROVE FilesAreFlows
    BY DEF FilesAreFlows
  <2>1. /\ \A k \in selected, other \in DOMAIN flows \ selected :
             Len(flows[k]) >= Len(flows[other])
        /\ Cardinality(selected) < Cardinality(DOMAIN flows) =>
             Cardinality(selected) = options.number
        /\ selected \subseteq DOMAIN flows /\ DOMAIN files \subseteq selected
        /\ writing \subseteq DOMAIN files
    BY <1>1 DEF SplitInv, Chosen
  <2>2. DOMAIN files = selected /\ \A k \in selected : Lists(files[k], Members(k, Len(capture)))
    <3>1. CASE options.two_pass
      <4>1. next - 1 = Len(capture)
        BY <1>1, <3>1, InvFields DEF SplitInv, Together
      <4>2. \A k \in DOMAIN files : Lists(files[k], Members(k, Len(capture)))
        BY <1>1, <3>1, <4>1 DEF SplitInv, Together
      <4>3. ASSUME NEW k \in selected PROVE k \in DOMAIN files
        <5>1. PICK i : i \in Members(k, Len(capture))
          BY <1>1, <2>1 DEF SplitInv, Flows
        <5>2. i \in 1..(next - 1) /\ ~Skipped(capture[i]) /\ Key(i) = k
          BY <5>1, <4>1 DEF Members
        <5> QED  BY <1>1, <3>1, <5>2 DEF SplitInv, Together
      <4> QED  BY <2>1, <4>2, <4>3
    <3>2. CASE ~options.two_pass
      <4>1. /\ DOMAIN files = selected
            /\ \A k \in DOMAIN files \ writing : files[k] = flows[k]
            /\ \A k \in DOMAIN flows : Lists(flows[k], Members(k, Len(capture)))
        BY <1>1, <3>2 DEF SplitInv, OneByOne, Flows
      <4>2. writing = {}
        BY <1>1, <3>2 DEF SplitInv, OneByOne
      <4> QED  BY <2>1, <4>1, <4>2
    <3> QED  BY <3>1, <3>2
  <2> QED  BY <2>1, <2>2 DEF FilesAreFlows
<1> QED  BY <1>1, Invariant, PTL

\* What is on disk at any time, and after a failure: no file skips a packet of its
\* flow, and at most one is incomplete, or all are as far as the second reading.
THEOREM FailuresLeavePrefixes == SplitSpec => []FailureLeavesPrefix
<1>1. ASSUME SplitInv PROVE FailureLeavesPrefix
  <2>1. \A k \in DOMAIN files : \E n \in 0..Len(capture) : Lists(files[k], Members(k, n))
    BY <1>1, FilesHoldMembers
  <2>2. ~options.two_pass =>
          \A j, k \in DOMAIN files : files[j] # flows[j] /\ files[k] # flows[k] => j = k
    BY <1>1 DEF SplitInv, OneByOne
  <2>3. options.two_pass =>
          \A i \in 1..(next - 1) :
            selected # {} /\ ~Skipped(capture[i]) /\ Key(i) \in selected => InAFile(i)
    <3> SUFFICES ASSUME options.two_pass, NEW i \in 1..(next - 1),
                        ~Skipped(capture[i]), Key(i) \in selected
                 PROVE  InAFile(i)
      OBVIOUS
    <3>1. Key(i) \in DOMAIN files /\ Lists(files[Key(i)], Members(Key(i), next - 1))
      BY <1>1 DEF SplitInv, Together
    <3>2. i \in Members(Key(i), next - 1)
      BY DEF Members
    <3> QED  BY <3>1, <3>2 DEF Lists, InAFile
  <2> QED  BY <2>1, <2>2, <2>3 DEF FailureLeavesPrefix
<1> QED  BY <1>1, Invariant, PTL

=============================================================================
