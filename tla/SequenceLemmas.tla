--------------------------- MODULE SequenceLemmas ---------------------------
(***************************************************************************)
(* Lemmas about numbers and sequences that the proofs of several           *)
(* components need: induction, concatenations, rearrangements.             *)
(***************************************************************************)
EXTENDS Integers, Sequences, FiniteSets, SequencesExt, FiniteSetTheorems,
        SequenceTheorems, WellFoundedInduction, TLAPS

\* Induction, for a set of numbers.
LEMMA AllNumbers ==
  ASSUME NEW S \in SUBSET Nat, 0 \in S, \A n \in S : n + 1 \in S
  PROVE  \A n \in Nat : n \in S
<1> DEFINE R == OpToRel(<, Nat)
           Rest == Nat \ S
<1> SUFFICES ASSUME Rest # {} PROVE FALSE
  OBVIOUS
<1>1. IsWellFoundedOn(R, Nat)
  BY NatLessThanWellFounded
<1>2. \A x, y \in Nat : x < y => << x, y >> \in R
  BY DEF OpToRel
<1> HIDE DEF R
<1>3. PICK m \in Rest : \A y \in Rest : ~(<< y, m >> \in R)
  <2>1. Rest \subseteq Nat
    OBVIOUS
  <2> HIDE DEF Rest
  <2> QED  BY <1>1, <2>1, WFMin
<1>4. m \in Nat /\ m # 0 /\ m - 1 \in Nat /\ m - 1 < m
  OBVIOUS
<1>5. m - 1 \in S
  BY <1>2, <1>3, <1>4
<1>6. (m - 1) + 1 = m
  BY <1>4
<1> QED  BY <1>5, <1>6

-----------------------------------------------------------------------------
(* Sequences of sequences, one after the other.                            *)

Joins(upTo, seqs, n) ==
  /\ upTo[0] = << >>
  /\ \A k \in 1 .. n : upTo[k] = upTo[k - 1] \o seqs[k]

\* FlattenSeq adds one sequence at a time.
LEMMA JoinedSteps ==
  ASSUME NEW T, NEW seqs \in Seq(Seq(T))
  PROVE  \E upTo \in [0 .. Len(seqs) -> Seq(T)] :
           Joins(upTo, seqs, Len(seqs)) /\ FlattenSeq(seqs) = upTo[Len(seqs)]
<1> DEFINE N == Len(seqs)
<1>1. N \in Nat /\ \A k \in 1 .. N : seqs[k] \in Seq(T)
  OBVIOUS
<1> DEFINE S == {n \in Nat : n <= N => \E f \in [0 .. n -> Seq(T)] : Joins(f, seqs, n)}
<1>2. 0 \in S
  <2> DEFINE f == [k \in 0 .. 0 |-> << >>]
  <2>1. f \in [0 .. 0 -> Seq(T)] /\ Joins(f, seqs, 0)
    BY DEF Joins
  <2> QED  BY <2>1
<1>3. ASSUME NEW n \in S  PROVE n + 1 \in S
  <2> SUFFICES ASSUME n + 1 <= N
               PROVE  \E f \in [0 .. n + 1 -> Seq(T)] : Joins(f, seqs, n + 1)
    BY <1>1
  <2>1. n \in Nat /\ n <= N
    BY <1>1
  <2>2. PICK f \in [0 .. n -> Seq(T)] : Joins(f, seqs, n)
    BY <2>1
  <2> DEFINE g == [k \in 0 .. n + 1 |-> IF k = n + 1 THEN f[n] \o seqs[n + 1] ELSE f[k]]
  <2>3. f[n] \in Seq(T) /\ seqs[n + 1] \in Seq(T) /\ (f[n] \o seqs[n + 1]) \in Seq(T)
    BY <1>1, <2>1
  <2>4. g \in [0 .. n + 1 -> Seq(T)]
    BY <2>1, <2>3
  <2>5. g[0] = << >> /\ g[n + 1] = f[n] \o seqs[n + 1] /\ \A k \in 0 .. n : g[k] = f[k]
    BY <2>1, <2>2, SMTT(60) DEF Joins
  <2> HIDE DEF g
  <2>6. ASSUME NEW k \in 1 .. n + 1  PROVE g[k] = g[k - 1] \o seqs[k]
    <3>1. CASE k = n + 1
      <4>1. g[k] = f[n] \o seqs[n + 1] /\ k - 1 = n /\ g[n] = f[n]
        BY <3>1, <2>1, <2>5
      <4> QED  BY <4>1, <3>1
    <3>2. CASE k # n + 1
      <4>1. k \in 1 .. n /\ k - 1 \in 0 .. n /\ k \in 0 .. n
        BY <3>2, <2>1
      <4>2. f[k] = f[k - 1] \o seqs[k]
        BY <4>1, <2>2 DEF Joins
      <4>3. g[k] = f[k] /\ g[k - 1] = f[k - 1]
        BY <4>1, <2>5
      <4> QED  BY <4>2, <4>3
    <3> QED  BY <3>1, <3>2
  <2>7. Joins(g, seqs, n + 1)
    BY <2>5, <2>6 DEF Joins
  <2> QED  BY <2>4, <2>7
<1> HIDE DEF S
<1>4. \A n \in Nat : n \in S
  <2>1. S \in SUBSET Nat
    BY DEF S
  <2> QED  BY <1>2, <1>3, <2>1, AllNumbers
<1>5. PICK f \in [0 .. N -> Seq(T)] : Joins(f, seqs, N)
  BY <1>1, <1>4 DEF S
<1>6. CASE N = 0
  <2>1. seqs = << >> /\ f[0] = << >>
    BY <1>5, <1>6 DEF Joins
  <2> QED  BY <1>5, <1>6, <2>1 DEF FlattenSeq
<1>7. CASE N # 0
  <2> DEFINE Body(h) == [k \in 1 .. N |-> IF k = 1 THEN seqs[k] ELSE h[k - 1] \o seqs[k]]
             d == [k \in 1 .. N |-> f[k]]
             c == CHOOSE h : h = Body(h)
  <2>1. d = Body(d)
    <3>1. ASSUME NEW k \in 1 .. N
          PROVE  f[k] = IF k = 1 THEN seqs[k] ELSE d[k - 1] \o seqs[k]
      <4>1. f[k] = f[k - 1] \o seqs[k] /\ f[0] = << >>
        BY <1>5 DEF Joins
      <4>2. CASE k = 1
        <5>1. seqs[k] \in Seq(T) /\ k - 1 = 0
          BY <1>1, <4>2
        <5> QED  BY <4>1, <4>2, <5>1, ConcatEmptySeq
      <4>3. CASE k # 1
        <5>1. k - 1 \in 1 .. N
          BY <1>1, <4>3
        <5> QED  BY <4>1, <4>3, <5>1
      <4> QED  BY <4>2, <4>3
    <3> QED  BY <3>1
  <2>2. c = Body(c)
    BY <2>1
  <2>3. FlattenSeq(seqs) = c[N]
    BY <1>7 DEF FlattenSeq
  <2> HIDE DEF c
  <2>4. c[1] = seqs[1] /\ \A k \in 2 .. N : c[k] = c[k - 1] \o seqs[k]
    <3>1. \A k \in 1 .. N : c[k] = IF k = 1 THEN seqs[k] ELSE c[k - 1] \o seqs[k]
      BY <2>2
    <3> HIDE DEF Body
    <3>2. 1 \in 1 .. N /\ \A k \in 2 .. N : k \in 1 .. N /\ k # 1
      BY <1>1, <1>7
    <3> HIDE DEF N
    <3> QED  BY <3>1, <3>2
  <2> HIDE DEF Body
  <2> DEFINE U == {n \in Nat : 1 <= n /\ n <= N => c[n] = f[n]}
  <2>5. \A n \in Nat : n \in U
    <3>1. U \in SUBSET Nat /\ 0 \in U
      OBVIOUS
    <3>2. ASSUME NEW n \in U  PROVE n + 1 \in U
      <4> SUFFICES ASSUME n + 1 <= N  PROVE c[n + 1] = f[n + 1]
        OBVIOUS
      <4>1. n \in Nat /\ n + 1 \in 1 .. N /\ (n + 1) - 1 = n
        BY <1>1
      <4>2. f[n + 1] = f[n] \o seqs[n + 1]
        BY <1>5, <4>1 DEF Joins
      <4>3. CASE n = 0
        <5>1. f[n] = << >> /\ seqs[1] \in Seq(T) /\ n + 1 = 1
          BY <1>1, <1>5, <4>1, <4>3 DEF Joins
        <5> QED  BY <2>4, <4>2, <5>1, ConcatEmptySeq
      <4>4. CASE n # 0
        <5>1. n + 1 \in 2 .. N /\ 1 <= n /\ n <= N
          BY <1>1, <4>1, <4>4
        <5> QED  BY <2>4, <4>1, <4>2, <5>1
      <4> QED  BY <4>3, <4>4
    <3> HIDE DEF U
    <3> QED  BY <3>1, <3>2, AllNumbers
  <2>6. c[N] = f[N]
    BY <1>1, <1>7, <2>5, SMTT(60)
  <2> QED  BY <1>5, <2>3, <2>6
<1> QED  BY <1>6, <1>7

LEMMA JoinsAgree ==
  ASSUME NEW n \in Nat, NEW f, NEW g, NEW a, NEW b, Joins(f, a, n), Joins(g, b, n),
         \A k \in 1 .. n : a[k] = b[k]
  PROVE  f[n] = g[n]
<1> DEFINE U == {k \in Nat : k <= n => f[k] = g[k]}
<1>1. U \in SUBSET Nat /\ 0 \in U
  BY DEF Joins
<1>2. ASSUME NEW k \in U  PROVE k + 1 \in U
  <2> SUFFICES ASSUME k + 1 <= n  PROVE f[k + 1] = g[k + 1]
    OBVIOUS
  <2>1. k \in Nat /\ k <= n /\ k + 1 \in 1 .. n /\ (k + 1) - 1 = k /\ f[k] = g[k]
    OBVIOUS
  <2>2. f[k + 1] = f[(k + 1) - 1] \o a[k + 1] /\ g[k + 1] = g[(k + 1) - 1] \o b[k + 1]
    BY <2>1 DEF Joins
  <2> QED  BY <2>1, <2>2
<1> HIDE DEF U
<1>3. \A k \in Nat : k \in U
  BY <1>1, <1>2, AllNumbers
<1> QED  BY <1>3 DEF U

LEMMA JoinedIs ==
  ASSUME NEW T, NEW seqs \in Seq(Seq(T))
  PROVE  FlattenSeq(seqs) \in Seq(T)
BY JoinedSteps

LEMMA JoinedEmpty ==
  FlattenSeq(<< >>) = << >>
<1> DEFINE e == << >>
<1>1. e \in Seq(Seq(Int)) /\ Len(e) = 0
  OBVIOUS
<1> HIDE DEF e
<1>2. PICK f \in [0 .. Len(e) -> Seq(Int)] : Joins(f, e, Len(e)) /\ FlattenSeq(e) = f[Len(e)]
  BY <1>1, JoinedSteps
<1>3. FlattenSeq(e) = << >>
  BY <1>1, <1>2 DEF Joins
<1> QED  BY <1>3 DEF e

LEMMA JoinedAppend ==
  ASSUME NEW T, NEW seqs \in Seq(Seq(T)), NEW x \in Seq(T)
  PROVE  FlattenSeq(Append(seqs, x)) = FlattenSeq(seqs) \o x
<1> DEFINE more == Append(seqs, x)
           n == Len(seqs)
<1>1. /\ more \in Seq(Seq(T)) /\ Len(more) = n + 1 /\ n \in Nat
      /\ more[n + 1] = x /\ \A k \in 1 .. n : more[k] = seqs[k]
  OBVIOUS
<1>2. PICK f \in [0 .. n -> Seq(T)] : Joins(f, seqs, n) /\ FlattenSeq(seqs) = f[n]
  BY JoinedSteps
<1> HIDE DEF more
<1>3. PICK g \in [0 .. n + 1 -> Seq(T)] : Joins(g, more, n + 1) /\ FlattenSeq(more) = g[n + 1]
  BY <1>1, JoinedSteps
<1> HIDE DEF n
<1>4. g[n + 1] = g[n] \o x
  <2>1. n + 1 \in 1 .. n + 1 /\ (n + 1) - 1 = n
    BY <1>1
  <2> QED  BY <1>1, <1>3, <2>1 DEF Joins
<1>5. Joins(g, more, n)
  <2>1. \A k \in 1 .. n : k \in 1 .. n + 1
    BY <1>1
  <2> QED  BY <2>1, <1>3 DEF Joins
<1>6. g[n] = f[n]
  BY <1>1, <1>2, <1>5, JoinsAgree
<1> QED  BY <1>2, <1>3, <1>4, <1>6 DEF more

\* Induction over sequences, for a set of them.
LEMMA AllSequences ==
  ASSUME NEW T, NEW P \in SUBSET Seq(T), << >> \in P,
         \A s \in P, e \in T : Append(s, e) \in P
  PROVE  \A s \in Seq(T) : s \in P
<1> DEFINE U == {n \in Nat : \A s \in Seq(T) : Len(s) = n => s \in P}
<1>1. 0 \in U
  BY EmptySeq
<1>2. ASSUME NEW n \in U  PROVE n + 1 \in U
  <2> SUFFICES ASSUME NEW s \in Seq(T), Len(s) = n + 1  PROVE s \in P
    OBVIOUS
  <2>1. s # << >>
    OBVIOUS
  <2>2. PICK r \in Seq(T), e \in T : s = Append(r, e)
    BY <2>1, SequenceEmptyOrAppend
  <2>3. Len(r) = n
    BY <2>2, AppendProperties
  <2> QED  BY <2>2, <2>3
<1>3. U \in SUBSET Nat
  OBVIOUS
<1>4. \A s \in Seq(T) : Len(s) \in Nat
  OBVIOUS
<1> HIDE DEF U
<1>5. \A n \in Nat : n \in U
  BY <1>1, <1>2, <1>3, AllNumbers
<1> QED  BY <1>4, <1>5 DEF U

LEMMA JoinedConcat ==
  ASSUME NEW T, NEW a \in Seq(Seq(T)), NEW b \in Seq(Seq(T))
  PROVE  FlattenSeq(a \o b) = FlattenSeq(a) \o FlattenSeq(b)
<1> DEFINE P == {s \in Seq(Seq(T)) : FlattenSeq(a \o s) = FlattenSeq(a) \o FlattenSeq(s)}
<1>1. << >> \in P
  <2>1. a \o << >> = a /\ FlattenSeq(a) \o << >> = FlattenSeq(a)
    BY JoinedIs, ConcatEmptySeq
  <2> QED  BY <2>1, JoinedEmpty, EmptySeq
<1>2. ASSUME NEW s \in P, NEW e \in Seq(T)  PROVE Append(s, e) \in P
  <2>1. /\ s \in Seq(Seq(T)) /\ Append(s, e) \in Seq(Seq(T)) /\ a \o s \in Seq(Seq(T))
        /\ FlattenSeq(a \o s) = FlattenSeq(a) \o FlattenSeq(s)
    BY AppendProperties, ConcatProperties
  <2>2. a \o Append(s, e) = Append(a \o s, e)
    BY <2>1
  <2>3. FlattenSeq(Append(a \o s, e)) = FlattenSeq(a \o s) \o e /\ FlattenSeq(Append(s, e)) = FlattenSeq(s) \o e
    BY <2>1, JoinedAppend
  <2>4. FlattenSeq(a) \in Seq(T) /\ FlattenSeq(s) \in Seq(T)
    BY <2>1, JoinedIs
  <2>5. (FlattenSeq(a) \o FlattenSeq(s)) \o e = FlattenSeq(a) \o (FlattenSeq(s) \o e)
    BY <2>4, ConcatAssociative
  <2> QED  BY <2>1, <2>2, <2>3, <2>5
<1>3. P \in SUBSET Seq(Seq(T))
  OBVIOUS
<1> HIDE DEF P
<1>4. \A s \in Seq(Seq(T)) : s \in P
  BY <1>1, <1>2, <1>3, AllSequences
<1> QED  BY <1>4 DEF P

\* Sequences of one element each.
LEMMA JoinedSingles ==
  ASSUME NEW T, NEW c \in Seq(T)
  PROVE  FlattenSeq([k \in 1 .. Len(c) |-> << c[k] >>]) = c
<1> DEFINE Singles(s) == [k \in 1 .. Len(s) |-> << s[k] >>]
           P == {s \in Seq(T) : FlattenSeq(Singles(s)) = s}
<1>1. << >> \in P
  <2>1. Singles(<< >>) = << >>
    OBVIOUS
  <2> HIDE DEF Singles
  <2> QED  BY <2>1, JoinedEmpty, EmptySeq
<1>2. ASSUME NEW s \in P, NEW e \in T  PROVE Append(s, e) \in P
  <2>1. /\ s \in Seq(T) /\ Append(s, e) \in Seq(T) /\ Len(s) \in Nat
        /\ Len(Append(s, e)) = Len(s) + 1 /\ Append(s, e)[Len(s) + 1] = e
        /\ \A k \in 1 .. Len(s) : Append(s, e)[k] = s[k] /\ s[k] \in T
        /\ << e >> \in Seq(T)
    BY AppendProperties
  <2>2. Singles(s) \in Seq(Seq(T)) /\ Len(Singles(s)) = Len(s)
    BY <2>1
  <2>3. Singles(Append(s, e)) = Append(Singles(s), << e >>)
    <3> DEFINE m == Append(s, e)
    <3>1. Len(m) = Len(s) + 1 /\ m[Len(s) + 1] = e /\ \A k \in 1 .. Len(s) : m[k] = s[k]
      BY <2>1
    <3> HIDE DEF m
    <3>2. Singles(m) = [k \in 1 .. Len(s) + 1 |-> << m[k] >>]
      BY <3>1
    <3>3. Append(Singles(s), << e >>)
            = [k \in 1 .. Len(s) + 1 |-> IF k = Len(s) + 1 THEN << e >> ELSE << s[k] >>]
      BY <2>1, <2>2
    <3> QED  BY <3>1, <3>2, <3>3, <2>1 DEF m
  <2> HIDE DEF Singles
  <2>4. FlattenSeq(Append(Singles(s), << e >>)) = FlattenSeq(Singles(s)) \o << e >>
    BY <2>1, <2>2, JoinedAppend
  <2>5. FlattenSeq(Singles(s)) = s
    OBVIOUS
  <2>6. s \o << e >> = Append(s, e)
    BY <2>1, AppendIsConcat
  <2> QED  BY <2>1, <2>3, <2>4, <2>5, <2>6
<1>3. P \in SUBSET Seq(T)
  OBVIOUS
<1> HIDE DEF P, Singles
<1>4. c \in P
  BY <1>1, <1>2, <1>3, AllSequences
<1> QED  BY <1>4 DEF P, Singles

-----------------------------------------------------------------------------
(* The same elements in another order.                                     *)

\* p says where each element goes, q where it comes from.
Moves(a, b, p, q) ==
  /\ p \in [1 .. Len(a) -> 1 .. Len(a)] /\ q \in [1 .. Len(a) -> 1 .. Len(a)]
  /\ \A i \in 1 .. Len(a) : q[p[i]] = i /\ p[q[i]] = i /\ a[i] = b[p[i]]

Rearranged(a, b) == Len(a) = Len(b) /\ \E p, q : Moves(a, b, p, q)

LEMMA RearrangedSelf ==
  ASSUME NEW T, NEW a \in Seq(T)
  PROVE  Rearranged(a, a)
<1> DEFINE p == [i \in 1 .. Len(a) |-> i]
<1>1. Moves(a, a, p, p)
  BY DEF Moves
<1> QED  BY <1>1 DEF Rearranged

LEMMA RearrangedBack ==
  ASSUME NEW T, NEW a \in Seq(T), NEW b \in Seq(T), Rearranged(a, b)
  PROVE  Rearranged(b, a)
<1>1. PICK p, q : Moves(a, b, p, q)
  BY DEF Rearranged
<1>2. Len(a) = Len(b)
  BY DEF Rearranged
<1>3. Moves(b, a, q, p)
  BY <1>1, <1>2 DEF Moves
<1> QED  BY <1>2, <1>3 DEF Rearranged

LEMMA RearrangedTwice ==
  ASSUME NEW T, NEW a \in Seq(T), NEW b \in Seq(T), NEW c \in Seq(T),
         Rearranged(a, b), Rearranged(b, c)
  PROVE  Rearranged(a, c)
<1> DEFINE n == Len(a)
<1>1. PICK p, q : Moves(a, b, p, q)
  BY DEF Rearranged
<1>2. PICK r, s : Moves(b, c, r, s)
  BY DEF Rearranged
<1>3. Len(b) = n /\ Len(c) = n
  BY DEF Rearranged
<1> DEFINE f == [i \in 1 .. n |-> r[p[i]]]
           g == [i \in 1 .. n |-> q[s[i]]]
<1>4. /\ p \in [1 .. n -> 1 .. n] /\ q \in [1 .. n -> 1 .. n]
      /\ r \in [1 .. n -> 1 .. n] /\ s \in [1 .. n -> 1 .. n]
      /\ \A i \in 1 .. n : q[p[i]] = i /\ p[q[i]] = i /\ a[i] = b[p[i]]
      /\ \A i \in 1 .. n : s[r[i]] = i /\ r[s[i]] = i /\ b[i] = c[r[i]]
  BY <1>1, <1>2, <1>3 DEF Moves
<1> HIDE DEF n
<1>5. f \in [1 .. n -> 1 .. n] /\ g \in [1 .. n -> 1 .. n]
  BY <1>4
<1>6. ASSUME NEW i \in 1 .. n  PROVE g[f[i]] = i /\ f[g[i]] = i /\ a[i] = c[f[i]]
  <2>1. p[i] \in 1 .. n /\ s[i] \in 1 .. n /\ r[p[i]] \in 1 .. n /\ q[s[i]] \in 1 .. n
    BY <1>4
  <2>2. f[i] = r[p[i]] /\ g[i] = q[s[i]]
    OBVIOUS
  <2>3. g[r[p[i]]] = q[s[r[p[i]]]] /\ f[q[s[i]]] = r[p[q[s[i]]]]
    BY <2>1
  <2> QED  BY <1>4, <2>1, <2>2, <2>3
<1>7. Moves(a, c, f, g)
  BY <1>5, <1>6 DEF Moves, n
<1> QED  BY <1>3, <1>7 DEF Rearranged, n

LEMMA RearrangedConcat ==
  ASSUME NEW T, NEW a \in Seq(T), NEW b \in Seq(T), NEW c \in Seq(T), NEW d \in Seq(T),
         Rearranged(a, b), Rearranged(c, d)
  PROVE  Rearranged(a \o c, b \o d)
<1> DEFINE n == Len(a)
           m == Len(c)
           x == a \o c
           y == b \o d
<1>1. PICK p, q : Moves(a, b, p, q)
  BY DEF Rearranged
<1>2. PICK r, s : Moves(c, d, r, s)
  BY DEF Rearranged
<1>3. n \in Nat /\ m \in Nat /\ Len(b) = n /\ Len(d) = m /\ Len(x) = n + m /\ Len(y) = n + m
  BY SMTT(60) DEF Rearranged
<1>4. /\ \A i \in 1 .. n + m : x[i] = IF i <= n THEN a[i] ELSE c[i - n]
      /\ \A i \in 1 .. n + m : y[i] = IF i <= n THEN b[i] ELSE d[i - n]
  BY <1>3, ConcatProperties
<1> DEFINE f == [i \in 1 .. n + m |-> IF i <= n THEN p[i] ELSE n + r[i - n]]
           g == [i \in 1 .. n + m |-> IF i <= n THEN q[i] ELSE n + s[i - n]]
<1>5. /\ p \in [1 .. n -> 1 .. n] /\ q \in [1 .. n -> 1 .. n]
      /\ r \in [1 .. m -> 1 .. m] /\ s \in [1 .. m -> 1 .. m]
      /\ \A i \in 1 .. n : q[p[i]] = i /\ p[q[i]] = i /\ a[i] = b[p[i]]
      /\ \A i \in 1 .. m : s[r[i]] = i /\ r[s[i]] = i /\ c[i] = d[r[i]]
  BY <1>1, <1>2, <1>3 DEF Moves
<1> HIDE DEF n, m, x, y
<1>6. ASSUME NEW i \in 1 .. n + m
      PROVE  /\ f[i] \in 1 .. n + m /\ g[i] \in 1 .. n + m
             /\ g[f[i]] = i /\ f[g[i]] = i /\ x[i] = y[f[i]]
  <2>1. CASE i <= n
    <3>1. i \in 1 .. n /\ f[i] = p[i] /\ g[i] = q[i]
      BY <1>3, <2>1
    <3>2. p[i] \in 1 .. n /\ q[i] \in 1 .. n
      BY <1>5, <3>1
    <3>3. /\ p[i] \in 1 .. n + m /\ q[i] \in 1 .. n + m /\ p[i] <= n /\ q[i] <= n
      BY <1>3, <3>2
    <3>4. g[p[i]] = q[p[i]] /\ f[q[i]] = p[q[i]]
      BY <3>3
    <3> QED  BY <1>4, <1>5, <2>1, <3>1, <3>3, <3>4
  <2>2. CASE i > n
    <3> DEFINE k == i - n
    <3>1. k \in 1 .. m /\ i = n + k
      BY <1>3, <2>2
    <3>2. ~ (i <= n)
      BY <1>3, <2>2
    <3>3. f[i] = n + r[k] /\ g[i] = n + s[k]
      BY <3>2
    <3> HIDE DEF k
    <3>4. r[k] \in 1 .. m /\ s[k] \in 1 .. m
      BY <1>5, <3>1
    <3> DEFINE u == r[k]
               v == s[k]
    <3>5. u \in 1 .. m /\ v \in 1 .. m
      BY <3>4
    <3>5a. s[u] = k /\ r[v] = k /\ c[k] = d[u]
      BY <1>5, <3>1
    <3>5b. f[i] = n + u /\ g[i] = n + v
      BY <3>3
    <3> HIDE DEF u, v
    <3>6. /\ n + u \in 1 .. n + m /\ n + v \in 1 .. n + m
          /\ ~ (n + u <= n) /\ ~ (n + v <= n) /\ (n + u) - n = u /\ (n + v) - n = v
      BY <1>3, <3>5
    <3>7. g[n + u] = n + s[u] /\ f[n + v] = n + r[v]
      BY <3>6
    <3>8. x[i] = c[k] /\ y[n + u] = d[u]
      BY <1>4, <3>2, <3>6 DEF k
    <3> QED  BY <3>1, <3>5a, <3>5b, <3>6, <3>7, <3>8
  <2> QED  BY <1>3, <2>1, <2>2
<1>7. f \in [1 .. n + m -> 1 .. n + m] /\ g \in [1 .. n + m -> 1 .. n + m]
  <2>1. /\ \A i \in 1 .. n + m : f[i] \in 1 .. n + m
        /\ \A i \in 1 .. n + m : g[i] \in 1 .. n + m
    BY <1>6
  <2> QED  BY <2>1
<1> HIDE DEF f, g
<1>8. Moves(x, y, f, g)
  BY <1>3, <1>6, <1>7 DEF Moves
<1> QED  BY <1>3, <1>8 DEF Rearranged, x, y

LEMMA RearrangedSwap ==
  ASSUME NEW T, NEW a \in Seq(T), NEW b \in Seq(T)
  PROVE  Rearranged(a \o b, b \o a)
<1> DEFINE n == Len(a)
           m == Len(b)
           x == a \o b
           y == b \o a
<1>1. n \in Nat /\ m \in Nat /\ Len(x) = n + m /\ Len(y) = n + m
  BY ConcatProperties
<1>2. /\ \A i \in 1 .. n + m : x[i] = IF i <= n THEN a[i] ELSE b[i - n]
      /\ \A i \in 1 .. n + m : y[i] = IF i <= m THEN b[i] ELSE a[i - m]
  <2>1. m + n = n + m
    BY <1>1
  <2> QED  BY <2>1, ConcatProperties
<1> DEFINE p == [i \in 1 .. n + m |-> IF i <= n THEN m + i ELSE i - n]
           q == [i \in 1 .. n + m |-> IF i <= m THEN n + i ELSE i - m]
<1> HIDE DEF n, m, x, y
<1>3. p \in [1 .. n + m -> 1 .. n + m] /\ q \in [1 .. n + m -> 1 .. n + m]
  BY <1>1
<1>4. ASSUME NEW i \in 1 .. n + m
      PROVE  q[p[i]] = i /\ p[q[i]] = i /\ x[i] = y[p[i]]
  <2>1. q[p[i]] = i /\ p[q[i]] = i
    BY <1>1
  <2>2. CASE i <= n
    <3>1. p[i] = m + i /\ m + i \in 1 .. n + m /\ ~ (m + i <= m) /\ (m + i) - m = i
      BY <1>1, <2>2
    <3> QED  BY <1>2, <2>1, <2>2, <3>1
  <2>3. CASE ~ (i <= n)
    <3>1. p[i] = i - n /\ i - n \in 1 .. n + m /\ i - n <= m
      BY <1>1, <2>3
    <3> QED  BY <1>2, <2>1, <2>3, <3>1
  <2> QED  BY <2>2, <2>3
<1> HIDE DEF p, q
<1>5. Moves(x, y, p, q)
  BY <1>1, <1>3, <1>4 DEF Moves
<1> QED  BY <1>1, <1>5 DEF Rearranged, x, y

\* If each part is in another order, so is the whole.
LEMMA RearrangedParts ==
  ASSUME NEW T, NEW a \in Seq(Seq(T)), NEW b \in Seq(Seq(T)), Len(a) = Len(b),
         \A k \in 1 .. Len(a) : Rearranged(a[k], b[k])
  PROVE  Rearranged(FlattenSeq(a), FlattenSeq(b))
<1> DEFINE n == Len(a)
<1>1. n \in Nat /\ \A k \in 1 .. n : a[k] \in Seq(T) /\ b[k] \in Seq(T)
  OBVIOUS
<1>2. PICK f \in [0 .. n -> Seq(T)] : Joins(f, a, n) /\ FlattenSeq(a) = f[n]
  BY JoinedSteps
<1>3. PICK g \in [0 .. n -> Seq(T)] : Joins(g, b, n) /\ FlattenSeq(b) = g[n]
  BY JoinedSteps
<1> HIDE DEF n
<1> DEFINE U == {k \in Nat : k <= n => Rearranged(f[k], g[k])}
<1>4. 0 \in U
  <2>1. f[0] = << >> /\ g[0] = << >> /\ f[0] \in Seq(T)
    BY <1>1, <1>2, <1>3 DEF Joins
  <2> QED  BY <2>1, RearrangedSelf
<1>5. ASSUME NEW k \in U  PROVE k + 1 \in U
  <2> SUFFICES ASSUME k + 1 <= n  PROVE Rearranged(f[k + 1], g[k + 1])
    OBVIOUS
  <2>1. k \in 0 .. n /\ k + 1 \in 1 .. n /\ (k + 1) - 1 = k /\ Rearranged(f[k], g[k])
    BY <1>1
  <2>2. f[k + 1] = f[k] \o a[k + 1] /\ g[k + 1] = g[k] \o b[k + 1]
    BY <1>2, <1>3, <2>1 DEF Joins
  <2>3. f[k] \in Seq(T) /\ g[k] \in Seq(T) /\ a[k + 1] \in Seq(T) /\ b[k + 1] \in Seq(T)
    BY <1>1, <2>1
  <2>4. Rearranged(a[k + 1], b[k + 1])
    BY <2>1 DEF n
  <2> QED  BY <2>1, <2>2, <2>3, <2>4, RearrangedConcat
<1>6. \A k \in Nat : k \in U
  <2>1. U \in SUBSET Nat
    OBVIOUS
  <2> HIDE DEF U
  <2> QED  BY <1>4, <1>5, <2>1, AllNumbers
<1>7. Rearranged(f[n], g[n])
  BY <1>1, <1>6
<1> QED  BY <1>2, <1>3, <1>7

-----------------------------------------------------------------------------
(* Sorting by rank: the place of an element is the number of those before. *)

Rank(before, n, i) == Cardinality({j \in 1 .. n : << j, i >> \in before})

Ranks(before, n) ==
  \A i, j, k \in 1 .. n :
    /\ << i, i >> \notin before
    /\ i = j \/ << i, j >> \in before \/ << j, i >> \in before
    /\ << i, j >> \in before /\ << j, k >> \in before => << i, k >> \in before

LEMMA RankGrows ==
  ASSUME NEW n \in Nat, NEW before, Ranks(before, n)
  PROVE  \A i, j \in 1 .. n :
           /\ Rank(before, n, i) \in 0 .. n - 1
           /\ << i, j >> \in before => Rank(before, n, i) < Rank(before, n, j)
<1> DEFINE Before(k) == {l \in 1 .. n : << l, k >> \in before}
<1>1. IsFiniteSet(1 .. n) /\ Cardinality(1 .. n) = n
  <2>1. IsFiniteSet(1 .. n) /\ Cardinality(1 .. n) = IF 1 > n THEN 0 ELSE n - 1 + 1
    BY FS_Interval
  <2>2. (IF 1 > n THEN 0 ELSE n - 1 + 1) = n
    OBVIOUS
  <2> QED  BY <2>1, <2>2
<1>2. ASSUME NEW k \in 1 .. n
      PROVE  IsFiniteSet(Before(k)) /\ Cardinality(Before(k)) \in 0 .. n - 1
  <2> DEFINE c == Cardinality(Before(k))
  <2>1. Before(k) \in SUBSET (1 .. n) /\ k \notin Before(k)
    BY DEF Ranks
  <2>2. IsFiniteSet(Before(k)) /\ c <= n /\ (n = c => 1 .. n = Before(k))
    <3> DEFINE A == 1 .. n
               B == Before(k)
    <3>1. IsFiniteSet(A) /\ Cardinality(A) = n /\ B \in SUBSET A
      BY <1>1, <2>1
    <3> HIDE DEF A, B
    <3>2. IsFiniteSet(B) /\ Cardinality(B) <= n /\ (n = Cardinality(B) => A = B)
      BY <3>1, FS_Subset
    <3> QED  BY <3>2 DEF A, B
  <2>3. c \in Nat
    BY <2>2, FS_CardinalityType
  <2>4. c # n
    BY <2>1, <2>2
  <2> HIDE DEF c
  <2>5. c \in 0 .. n - 1
    BY <2>2, <2>3, <2>4
  <2> QED  BY <2>2, <2>5 DEF c
<1>3. ASSUME NEW i \in 1 .. n, NEW j \in 1 .. n, << i, j >> \in before
      PROVE  Cardinality(Before(i)) < Cardinality(Before(j))
  <2> DEFINE c == Cardinality(Before(i))
             d == Cardinality(Before(j))
  <2>1. Before(i) \in SUBSET Before(j) /\ i \in Before(j) /\ i \notin Before(i)
    BY <1>3 DEF Ranks
  <2>2. IsFiniteSet(Before(j)) /\ c \in 0 .. n - 1 /\ d \in 0 .. n - 1
    BY <1>2
  <2>3. c <= d /\ (d = c => Before(j) = Before(i))
    BY <2>1, <2>2, FS_Subset
  <2>4. d # c
    BY <2>1, <2>3
  <2> HIDE DEF c, d
  <2>5. c < d
    BY <2>2, <2>3, <2>4
  <2> QED  BY <2>5 DEF c, d
<1>4. \A k \in 1 .. n : Rank(before, n, k) = Cardinality(Before(k))
  BY DEF Rank
<1> HIDE DEF Before
<1>5. \A i, j \in 1 .. n : Rank(before, n, i) \in 0 .. n - 1
  BY <1>2, <1>4
<1>6. \A i, j \in 1 .. n : << i, j >> \in before => Rank(before, n, i) < Rank(before, n, j)
  BY <1>3, <1>4
<1> QED  BY <1>5, <1>6

\* What has k - 1 elements before it is the only one, and the k-th.
LEMMA RankIs ==
  ASSUME NEW n \in Nat, NEW before, Ranks(before, n)
  PROVE  \E p, q \in [1 .. n -> 1 .. n] :
           /\ \A i \in 1 .. n : q[p[i]] = i /\ p[q[i]] = i
           /\ \A k \in 1 .. n : q[k] = CHOOSE i \in 1 .. n : Rank(before, n, i) = k - 1
           /\ \A k, l \in 1 .. n : k < l => << q[k], q[l] >> \in before
<1> DEFINE S == 1 .. n
           r == [i \in S |-> Rank(before, n, i)]
           p == [i \in S |-> r[i] + 1]
           q == [k \in S |-> CHOOSE i \in S : Rank(before, n, i) = k - 1]
<1>1. \A i \in S : r[i] = Rank(before, n, i) /\ r[i] \in 0 .. n - 1
  BY RankGrows
<1>2. \A i, j \in S : << i, j >> \in before => r[i] < r[j]
  BY RankGrows
<1>3. \A i, j \in S : i = j \/ << i, j >> \in before \/ << j, i >> \in before
  BY DEF Ranks
<1>4. IsFiniteSet(S) /\ S \subseteq Nat
  BY FS_Interval
<1> HIDE DEF r
<1>5. p \in [S -> S] /\ \A i \in S : p[i] = r[i] + 1
  BY <1>1
<1>6. \A i, j \in S : p[i] = p[j] => i = j
  <2> SUFFICES ASSUME NEW i \in S, NEW j \in S, p[i] = p[j]  PROVE i = j
    OBVIOUS
  <2> DEFINE a == r[i]
             b == r[j]
  <2>1. a \in Int /\ b \in Int /\ a + 1 = b + 1
    BY <1>1, <1>5
  <2>2. (<< i, j >> \in before => a < b) /\ (<< j, i >> \in before => b < a)
    BY <1>2
  <2> HIDE DEF a, b
  <2>3. a = b
    BY <2>1
  <2> QED  BY <1>3, <2>1, <2>2, <2>3
<1>7. \A k \in S : \E i \in S : p[i] = k
  <2> HIDE DEF S, p
  <2>1. p \in Injection(S, S)
    BY <1>5, <1>6 DEF Injection, IsInjective
  <2>2. p \in Surjection(S, S)
    BY <1>4, <2>1, FS_Injection
  <2> QED  BY <2>2 DEF Surjection
<1>8. ASSUME NEW k \in S  PROVE q[k] \in S /\ p[q[k]] = k
  <2>1. PICK i \in S : p[i] = k
    BY <1>7
  <2>2. Rank(before, n, i) = k - 1
    <3>1. r[i] \in Int /\ r[i] + 1 = k
      BY <1>1, <1>5, <2>1
    <3>2. r[i] = k - 1
      BY <3>1
    <3> QED  BY <1>1, <3>2
  <2>3. q[k] \in S /\ Rank(before, n, q[k]) = k - 1
    BY <2>2
  <2> DEFINE x == q[k]
  <2>4. x \in S /\ Rank(before, n, x) = k - 1
    BY <2>3
  <2> HIDE DEF x
  <2>5. r[x] = k - 1 /\ p[x] = r[x] + 1
    BY <1>1, <1>5, <2>4
  <2>6. p[x] = k
    BY <2>5
  <2> QED  BY <2>4, <2>6 DEF x
<1>9. \A k \in S : q[k] = CHOOSE i \in S : Rank(before, n, i) = k - 1
  OBVIOUS
<1>10. q \in [S -> S]
  BY <1>8
<1> HIDE DEF p, q
<1>11. \A i \in S : q[p[i]] = i
  BY <1>5, <1>6, <1>8
<1>12. ASSUME NEW k \in S, NEW l \in S, k < l  PROVE << q[k], q[l] >> \in before
  <2> DEFINE x == q[k]
             y == q[l]
  <2>1. x \in S /\ y \in S /\ p[x] = k /\ p[y] = l
    BY <1>8
  <2> HIDE DEF x, y
  <2> DEFINE a == r[x]
             b == r[y]
  <2>2. a \in Int /\ b \in Int /\ p[x] = a + 1 /\ p[y] = b + 1
    <3>1. \A z \in S : r[z] \in Int
      BY <1>1
    <3> QED  BY <3>1, <1>5, <2>1
  <2>2a. << y, x >> \in before => b < a
    BY <1>2, <2>1
  <2>2b. x = y => a = b
    OBVIOUS
  <2> HIDE DEF a, b
  <2>3. a < b
    BY <1>12, <2>1, <2>2
  <2>4. x # y /\ << y, x >> \notin before
    BY <2>2, <2>2a, <2>2b, <2>3
  <2>5. << x, y >> \in before
    BY <1>3, <2>1, <2>4
  <2> QED  BY <2>5 DEF x, y
<1> QED  BY <1>5, <1>8, <1>9, <1>10, <1>11, <1>12

-----------------------------------------------------------------------------
(* Where the elements of the parts are in the whole.                       *)

Placed(off, seqs, whole) ==
  /\ off \in [1 .. Len(seqs) -> Nat]
  /\ \A k \in 1 .. Len(seqs) : \A i \in 1 .. Len(seqs[k]) :
       off[k] + i \in 1 .. Len(whole) /\ whole[off[k] + i] = seqs[k][i]
  /\ \A j, k \in 1 .. Len(seqs) : j < k => off[j] + Len(seqs[j]) <= off[k]
  /\ \A m \in 1 .. Len(whole) :
       \E k \in 1 .. Len(seqs) : \E i \in 1 .. Len(seqs[k]) : m = off[k] + i

LEMMA JoinedPlaces ==
  ASSUME NEW T, NEW seqs \in Seq(Seq(T))
  PROVE  \E off : Placed(off, seqs, FlattenSeq(seqs))
<1> DEFINE P == {s \in Seq(Seq(T)) :
                   \E off : Placed(off, s, FlattenSeq(s))
                            /\ \A k \in 1 .. Len(s) : off[k] + Len(s[k]) <= Len(FlattenSeq(s))}
<1>1. << >> \in P
  <2> DEFINE e == << >>
             off == [k \in 1 .. 0 |-> 0]
  <2>1. Len(e) = 0 /\ e \in Seq(Seq(T)) /\ FlattenSeq(e) = e
    BY JoinedEmpty
  <2>2. 1 .. 0 = {} /\ off \in [1 .. 0 -> Nat]
    OBVIOUS
  <2> HIDE DEF e, off
  <2>3. Placed(off, e, FlattenSeq(e))
    BY <2>1, <2>2 DEF Placed
  <2> QED  BY <2>1, <2>2, <2>3 DEF e
<1>2. ASSUME NEW s \in P, NEW e \in Seq(T)  PROVE Append(s, e) \in P
  <2> DEFINE n == Len(s)
             f == FlattenSeq(s)
             t == Append(s, e)
             g == FlattenSeq(t)
             l == Len(f)
             m == Len(e)
  <2>1. PICK off : Placed(off, s, f) /\ \A k \in 1 .. n : off[k] + Len(s[k]) <= l
    OBVIOUS
  <2>2. /\ s \in Seq(Seq(T)) /\ t \in Seq(Seq(T)) /\ n \in Nat /\ Len(t) = n + 1
        /\ t[n + 1] = e /\ \A k \in 1 .. n : t[k] = s[k]
    BY AppendProperties
  <2>3. f \in Seq(T) /\ g = f \o e /\ l \in Nat /\ m \in Nat /\ Len(g) = l + m
    BY <2>2, JoinedIs, JoinedAppend
  <2>4. \A i \in 1 .. l + m : g[i] = IF i <= l THEN f[i] ELSE e[i - l]
    BY <2>3, ConcatProperties
  <2>5. \A k \in 1 .. n : Len(s[k]) \in Nat
    BY <2>2
  <2> HIDE DEF n, f, t, g, l, m
  <2> DEFINE o == [k \in 1 .. n + 1 |-> IF k = n + 1 THEN l ELSE off[k]]
  <2>6. /\ off \in [1 .. n -> Nat]
        /\ \A k \in 1 .. n : \A i \in 1 .. Len(s[k]) :
             off[k] + i \in 1 .. l /\ f[off[k] + i] = s[k][i]
        /\ \A j, k \in 1 .. n : j < k => off[j] + Len(s[j]) <= off[k]
        /\ \A x \in 1 .. l : \E k \in 1 .. n : \E i \in 1 .. Len(s[k]) : x = off[k] + i
    BY <2>1 DEF Placed, n, l
  <2>7. o \in [1 .. n + 1 -> Nat] /\ o[n + 1] = l /\ \A k \in 1 .. n : o[k] = off[k]
    BY <2>2, <2>3, <2>6
  <2>7a. \A k \in 1 .. n + 1 : k \in 1 .. n \/ k = n + 1
    BY <2>2
  <2>7b. \A k \in 1 .. n : k \in 1 .. n + 1
    BY <2>2
  <2> HIDE DEF o
  <2>8. ASSUME NEW k \in 1 .. n + 1, NEW i \in 1 .. Len(t[k])
        PROVE  o[k] + i \in 1 .. l + m /\ g[o[k] + i] = t[k][i]
    <3>1. CASE k \in 1 .. n
      <4> DEFINE a == off[k] + i
      <4>1. i \in 1 .. Len(s[k]) /\ a \in 1 .. l /\ f[a] = s[k][i]
        BY <2>2, <2>6, <3>1
      <4>1a. o[k] + i = a /\ t[k][i] = s[k][i]
        BY <2>2, <2>7, <3>1
      <4> HIDE DEF a
      <4>2. a \in 1 .. l + m /\ a <= l
        BY <2>3, <4>1
      <4> QED  BY <2>4, <4>1, <4>1a, <4>2
    <3>2. CASE k = n + 1
      <4>1. t[k] = e /\ o[k] = l /\ i \in 1 .. m
        BY <2>2, <2>7, <3>2 DEF m
      <4>2. l + i \in 1 .. l + m /\ ~ (l + i <= l) /\ (l + i) - l = i
        BY <2>3, <4>1
      <4> QED  BY <2>4, <4>1, <4>2
    <3> QED  BY <2>7a, <3>1, <3>2
  <2>9. ASSUME NEW j \in 1 .. n + 1, NEW k \in 1 .. n + 1, j < k
        PROVE  o[j] + Len(t[j]) <= o[k]
    <3>1. j \in 1 .. n
      BY <2>2, <2>9
    <3>2. o[j] = off[j] /\ t[j] = s[j]
      BY <2>2, <2>7, <3>1
    <3>3. CASE k \in 1 .. n
      <4>1. o[k] = off[k]
        BY <2>7, <3>3
      <4> QED  BY <2>6, <2>9, <3>1, <3>2, <3>3, <4>1
    <3>4. CASE k = n + 1
      BY <2>1, <2>7, <3>1, <3>2, <3>4
    <3> QED  BY <2>7a, <3>3, <3>4
  <2>10. ASSUME NEW x \in 1 .. l + m
         PROVE  \E k \in 1 .. n + 1 : \E i \in 1 .. Len(t[k]) : x = o[k] + i
    <3>1. CASE x <= l
      <4>1. x \in 1 .. l
        BY <2>3, <3>1
      <4>2. PICK k \in 1 .. n : \E i \in 1 .. Len(s[k]) : x = off[k] + i
        BY <2>6, <4>1
      <4>3. t[k] = s[k] /\ o[k] = off[k] /\ k \in 1 .. n + 1
        BY <2>2, <2>7, <2>7b
      <4> QED  BY <4>2, <4>3
    <3>2. CASE ~ (x <= l)
      <4>1. x - l \in 1 .. m /\ x = l + (x - l)
        BY <2>3, <3>2
      <4>2. n + 1 \in 1 .. n + 1 /\ t[n + 1] = e /\ o[n + 1] = l
        BY <2>2, <2>7
      <4> QED  BY <4>1, <4>2 DEF m
    <3> QED  BY <3>1, <3>2
  <2>11. \A k \in 1 .. n + 1 : o[k] + Len(t[k]) <= l + m
    <3> TAKE k \in 1 .. n + 1
    <3>1. CASE k \in 1 .. n
      <4> DEFINE a == off[k]
                 c == Len(s[k])
      <4>1. a \in Nat /\ c \in Nat /\ a + c <= l /\ o[k] = a /\ Len(t[k]) = c
        BY <2>1, <2>2, <2>5, <2>6, <2>7, <3>1
      <4> HIDE DEF a, c
      <4> QED  BY <2>3, <4>1
    <3>2. CASE k = n + 1
      <4>1. o[k] = l /\ Len(t[k]) = m
        BY <2>2, <2>7, <3>2 DEF m
      <4> QED  BY <2>3, <4>1
    <3> QED  BY <2>7a, <3>1, <3>2
  <2>12. Placed(o, t, g)
    <3>1. o \in [1 .. Len(t) -> Nat]
      BY <2>2, <2>7
    <3>2. \A k \in 1 .. Len(t) : \A i \in 1 .. Len(t[k]) :
            o[k] + i \in 1 .. Len(g) /\ g[o[k] + i] = t[k][i]
      BY <2>2, <2>3, <2>8
    <3>3. \A j, k \in 1 .. Len(t) : j < k => o[j] + Len(t[j]) <= o[k]
      BY <2>2, <2>9
    <3>4. \A x \in 1 .. Len(g) :
            \E k \in 1 .. Len(t) : \E i \in 1 .. Len(t[k]) : x = o[k] + i
      <4> TAKE x \in 1 .. Len(g)
      <4>1. x \in 1 .. l + m
        BY <2>3
      <4>2. PICK k \in 1 .. n + 1 : \E i \in 1 .. Len(t[k]) : x = o[k] + i
        BY <2>10, <4>1
      <4>3. k \in 1 .. Len(t)
        BY <2>2
      <4> QED  BY <4>2, <4>3
    <3> QED  BY <3>1, <3>2, <3>3, <3>4 DEF Placed
  <2>13. t \in P
    BY <2>2, <2>3, <2>11, <2>12 DEF g
  <2> QED  BY <2>13 DEF t
<1>3. P \in SUBSET Seq(Seq(T))
  OBVIOUS
<1> HIDE DEF P
<1>4. seqs \in P
  BY <1>1, <1>2, <1>3, AllSequences
<1> QED  BY <1>4 DEF P
=============================================================================
