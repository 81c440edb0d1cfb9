--------------------------- MODULE FlowMeterProofs ---------------------------
(***************************************************************************)
(* What cicflowmeter writes, for every capture, timeout and set of inputs. *)
(* The module builds up from sums over sequences and from flows as they    *)
(* are said of the capture alone (FirstOf) to Flow::add field by field,    *)
(* then to two invariants of FlowGenerator: RunsInv, which packets each    *)
(* open flow and each row has, and on top of it TimesInv, what their       *)
(* times, gaps and bulks add up to.  OutputInv is about main alone.        *)
(***************************************************************************)
EXTENDS FlowMeter, FiniteSetTheorems, WellFoundedInduction, TLAPS

\* Induction, for a set of numbers.
LEMMA AllNumbers ==
  ASSUME NEW S \in SUBSET Nat, 0 \in S, \A n \in S : n + 1 \in S
  PROVE  \A n \in Nat : n \in S
<1> DEFINE R == OpToRel(<, Nat)
           Rest == Nat \ S
<1> SUFFICES ASSUME Rest # {} PROVE FALSE
  OBVIOUS
<1>1. IsWellFoundedOn(R, Nat)
  BY NatLessThanWellFounded
<1>2. \A x, y \in Nat : x < y => << x, y >> \in R
  BY DEF OpToRel
<1> HIDE DEF R
<1>3. PICK m \in Rest : \A y \in Rest : ~(<< y, m >> \in R)
  <2>1. Rest \subseteq Nat
    OBVIOUS
  <2> HIDE DEF Rest
  <2> QED  BY <1>1, <2>1, WFMin
<1>4. m \in Nat /\ m # 0 /\ m - 1 \in Nat /\ m - 1 < m
  OBVIOUS
<1>5. m - 1 \in S
  BY <1>2, <1>3, <1>4
<1>6. (m - 1) + 1 = m
  BY <1>4
<1> QED  BY <1>5, <1>6

\* The least one of a set of numbers.
LEMMA LeastNumber ==
  ASSUME NEW S \in SUBSET Nat, S # {}
  PROVE  \E m \in S : \A k \in S : m <= k
<1> DEFINE R == OpToRel(<, Nat)
<1>1. IsWellFoundedOn(R, Nat)
  BY NatLessThanWellFounded
<1>2. \A x, y \in Nat : x < y => << x, y >> \in R
  BY DEF OpToRel
<1> HIDE DEF R
<1>3. PICK m \in S : \A y \in S : ~(<< y, m >> \in R)
  BY <1>1, WFMin
<1>4. ASSUME NEW k \in S PROVE m <= k
  <2>1. m \in Nat /\ k \in Nat
    OBVIOUS
  <2>2. ~(k < m)
    BY <1>2, <1>3, <2>1
  <2> QED  BY <2>1, <2>2
<1> QED  BY <1>4

-----------------------------------------------------------------------------
(* Sums.                                                                   *)

\* t is the partial sums of seq up to n.
Sums(t, seq, n) ==
  /\ t[0] = 0
  /\ \A k \in 1 .. n : t[k] = t[k - 1] + seq[k]

\* The partial sums of a sequence.
LEMMA SumIs ==
  ASSUME NEW seq \in Seq(Int)
  PROVE  \E t \in [0 .. Len(seq) -> Int] : Sums(t, seq, Len(seq)) /\ Sum(seq) = t[Len(seq)]
<1>1. Len(seq) \in Nat /\ \A k \in 1 .. Len(seq) : seq[k] \in Int
  OBVIOUS
<1> DEFINE S == {n \in Nat : n <= Len(seq) => \E t \in [0 .. n -> Int] : Sums(t, seq, n)}
<1>2. 0 \in S
  <2> DEFINE t == [k \in 0 .. 0 |-> 0]
  <2>1. t \in [0 .. 0 -> Int]
    OBVIOUS
  <2>2. Sums(t, seq, 0)
    BY DEF Sums
  <2> QED  BY <2>1, <2>2
<1>3. ASSUME NEW n \in S PROVE n + 1 \in S
  <2> SUFFICES ASSUME n + 1 <= Len(seq)
               PROVE  \E t \in [0 .. n + 1 -> Int] : Sums(t, seq, n + 1)
    OBVIOUS
  <2>1. PICK t \in [0 .. n -> Int] : Sums(t, seq, n)
    BY <1>1
  <2> DEFINE more == [k \in 0 .. n + 1 |-> IF k = n + 1 THEN t[n] + seq[n + 1] ELSE t[k]]
  <2>2. n \in Nat /\ t[n] + seq[n + 1] \in Int
    BY <1>1
  <2>3. /\ more \in [0 .. n + 1 -> Int] /\ more[n + 1] = t[n] + seq[n + 1]
        /\ \A k \in 0 .. n : more[k] = t[k]
    BY <2>2
  <2> HIDE DEF more
  <2>4. Sums(more, seq, n + 1)
    <3>1. more[0] = 0
      BY <2>1, <2>2, <2>3 DEF Sums
    <3>2. ASSUME NEW k \in 1 .. n + 1 PROVE more[k] = more[k - 1] + seq[k]
      <4>1. CASE k = n + 1
        <5>1. k - 1 = n /\ more[k - 1] = t[n]
          BY <2>2, <2>3, <4>1
        <5> QED  BY <2>3, <4>1, <5>1
      <4>2. CASE k \in 1 .. n
        <5>1. k - 1 \in 0 .. n /\ k \in 0 .. n
          BY <4>2
        <5> QED  BY <2>1, <2>3, <4>2, <5>1 DEF Sums
      <4> QED  BY <2>2, <4>1, <4>2
    <3> QED  BY <3>1, <3>2 DEF Sums
  <2> QED  BY <2>3, <2>4
<1> HIDE DEF S
<1>4. Len(seq) \in S
  <2>1. S \in SUBSET Nat
    BY DEF S
  <2> QED  BY <1>1, <1>2, <1>3, <2>1, AllNumbers
<1>5. PICK t \in [0 .. Len(seq) -> Int] : Sums(t, seq, Len(seq))
  BY <1>1, <1>4 DEF S
<1> DEFINE Body(f) == [k \in 0 .. Len(seq) |-> IF k = 0 THEN 0 ELSE f[k - 1] + seq[k]]
<1>6. t = Body(t)
  <2>1. ASSUME NEW k \in 0 .. Len(seq)
        PROVE  t[k] = IF k = 0 THEN 0 ELSE t[k - 1] + seq[k]
    <3>1. k = 0 \/ k \in 1 .. Len(seq)
      BY <1>1
    <3> QED  BY <1>5, <3>1 DEF Sums
  <2> QED  BY <1>5, <2>1
<1> DEFINE u == CHOOSE f : f = Body(f)
<1>7. Sum(seq) = u[Len(seq)]
  BY DEF Sum
<1>8. u = Body(u)
  BY <1>6
<1> HIDE DEF u
<1>9. Sums(u, seq, Len(seq))
  <2>1. u[0] = 0
    <3>1. 0 \in 0 .. Len(seq)
      BY <1>1
    <3>2. Body(u)[0] = 0
      BY <3>1
    <3> QED  BY <1>8, <3>2
  <2>2. ASSUME NEW k \in 1 .. Len(seq) PROVE u[k] = u[k - 1] + seq[k]
    <3>1. k \in 0 .. Len(seq) /\ k # 0
      BY <1>1
    <3>2. Body(u)[k] = u[k - 1] + seq[k]
      BY <3>1
    <3> HIDE DEF Body
    <3>3. u[k] = Body(u)[k]
      BY <1>8
    <3> QED  BY <3>2, <3>3
  <2> QED  BY <2>1, <2>2 DEF Sums
<1> DEFINE V == {n \in Nat : n <= Len(seq) => u[n] = t[n]}
<1>10. \A n \in Nat : n \in V
  <2>1. 0 \in V
    BY <1>5, <1>9 DEF Sums
  <2>2. ASSUME NEW n \in V PROVE n + 1 \in V
    <3> SUFFICES ASSUME n + 1 <= Len(seq) PROVE u[n + 1] = t[n + 1]
      OBVIOUS
    <3>1. u[n] = t[n] /\ n + 1 \in 1 .. Len(seq) /\ (n + 1) - 1 = n
      BY <1>1
    <3> QED  BY <1>5, <1>9, <3>1 DEF Sums
  <2>3. V \in SUBSET Nat
    OBVIOUS
  <2> HIDE DEF V
  <2> QED  BY <2>1, <2>2, <2>3, AllNumbers
<1>11. u[Len(seq)] = t[Len(seq)]
  BY <1>1, <1>10
<1> QED  BY <1>5, <1>7, <1>11

\* The first n numbers are the same.
SameUpTo(a, b, n) == \A k \in 1 .. n : a[k] = b[k]

\* Partial sums are the same for the same numbers.
LEMMA SumsAgree ==
  ASSUME NEW a, NEW b, NEW n \in Nat, NEW t, NEW u, Sums(t, a, n), Sums(u, b, n),
         SameUpTo(a, b, n)
  PROVE  t[n] = u[n]
<1> DEFINE V == {m \in Nat : m <= n => t[m] = u[m]}
<1>1. 0 \in V
  BY DEF Sums
<1>2. ASSUME NEW m \in V PROVE m + 1 \in V
  <2> SUFFICES ASSUME m + 1 <= n PROVE t[m + 1] = u[m + 1]
    OBVIOUS
  <2>1. t[m] = u[m] /\ m + 1 \in 1 .. n /\ (m + 1) - 1 = m
    OBVIOUS
  <2> QED  BY <2>1 DEF Sums, SameUpTo
<1>3. V \in SUBSET Nat
  OBVIOUS
<1>4. n \in V
  <2> HIDE DEF V
  <2> QED  BY <1>1, <1>2, <1>3, AllNumbers
<1> QED  BY <1>4

\* A sequence with one more number.
LEMMA SumAppend ==
  ASSUME NEW seq \in Seq(Int), NEW x \in Int
  PROVE  /\ Sum(seq) \in Int /\ Sum(Append(seq, x)) = Sum(seq) + x
         /\ Append(seq, x) \in Seq(Int)
<1> DEFINE more == Append(seq, x)
           n == Len(seq)
<1>1. /\ more \in Seq(Int) /\ Len(more) = n + 1 /\ n \in Nat /\ more[n + 1] = x
      /\ \A k \in 1 .. n : more[k] = seq[k]
  OBVIOUS
<1>2. PICK t \in [0 .. n -> Int] : Sums(t, seq, n) /\ Sum(seq) = t[n]
  BY SumIs
<1> HIDE DEF more
<1>3. PICK u \in [0 .. n + 1 -> Int] : Sums(u, more, n + 1) /\ Sum(more) = u[n + 1]
  <2>1. \E w \in [0 .. Len(more) -> Int] : Sums(w, more, Len(more)) /\ Sum(more) = w[Len(more)]
    BY <1>1, SumIs
  <2> QED  BY <1>1, <2>1
<1> HIDE DEF n
<1>4. Sums(u, more, n)
  BY <1>1, <1>3 DEF Sums
<1>5. u[n] = t[n]
  <2>1. n \in Nat /\ SameUpTo(more, seq, n)
    BY <1>1 DEF SameUpTo
  <2>2. Sums(t, seq, n)
    BY <1>2
  <2> QED  BY ONLY <1>4, <2>1, <2>2, SumsAgree
<1>6. u[n + 1] = u[n] + more[n + 1]
  <2>1. n + 1 \in 1 .. n + 1 /\ (n + 1) - 1 = n
    BY <1>1
  <2> QED  BY <1>3, <2>1 DEF Sums
<1>7. n \in 0 .. n /\ t[n] \in Int
  BY <1>1, <1>2
<1> QED  BY <1>1, <1>2, <1>3, <1>5, <1>6, <1>7 DEF more

\* Nothing adds up to nothing.
LEMMA SumEmpty == Sum(<< >>) = 0
<1>1. << >> \in Seq(Int) /\ Len(<< >>) = 0
  OBVIOUS
<1>2. PICK t \in [0 .. 0 -> Int] : Sums(t, << >>, 0) /\ Sum(<< >>) = t[0]
  BY <1>1, SumIs
<1> QED  BY <1>2 DEF Sums

-----------------------------------------------------------------------------
(* Flows, said of the capture alone.                                       *)

\* A packet of FlowGenerator::add, and captures of them.
Packets ==
  [src : Int, dst : Int, protocol : {s.protocol : s \in Shapes}, size : Nat,
   flags : {s.flags : s \in Shapes}, ts : Int, id : Nat]

Captures == Seq(Packets)

\* The last packet of the connection before packet i.
LEMMA BeforeIs ==
  ASSUME NEW c, NEW i \in Nat
  PROVE  /\ Before(c, i) \in Nat /\ (Before(c, i) # 0 => Before(c, i) \in 1 .. i - 1)
         /\ Before(c, i) # 0 => FlowKey(c[Before(c, i)]) = FlowKey(c[i])
         /\ \A k \in 1 .. i - 1 : FlowKey(c[k]) = FlowKey(c[i]) => k <= Before(c, i)
<1> DEFINE same == {j \in 1 .. i - 1 : FlowKey(c[j]) = FlowKey(c[i])}
           IsLast(j) == \A k \in same : k <= j
<1>1. Before(c, i) = IF same = {} THEN 0 ELSE CHOOSE j \in same : IsLast(j)
  BY DEF Before
<1>2. CASE same = {}
  BY <1>1, <1>2
<1>3. CASE same # {}
  <2> DEFINE D == {i - j : j \in same}
  <2>1. D \in SUBSET Nat /\ D # {}
    BY <1>3
  <2>2. PICK d \in D : \A e \in D : d <= e
    <3> HIDE DEF D
    <3> QED  BY <2>1, LeastNumber
  <2>3. PICK j \in same : d = i - j
    BY <2>2
  <2>4. ASSUME NEW k \in same PROVE k <= j
    <3>1. i - k \in D /\ k \in Int /\ j \in Int
      BY <2>3
    <3>2. i - j <= i - k
      BY <2>2, <2>3, <3>1
    <3> QED  BY <3>1, <3>2
  <2>5. \E x \in same : IsLast(x)
    BY <2>3, <2>4
  <2> HIDE DEF IsLast
  <2>6. Before(c, i) \in same /\ IsLast(Before(c, i))
    BY <1>1, <1>3, <2>5
  <2> QED  BY <2>6 DEF IsLast
<1> QED  BY <1>2, <1>3

\* Where packet i begins, if the one before it belongs to the flow that began at s.
Begin(c, i, s) == IF Begins(c, i, Before(c, i), s) THEN i ELSE s

\* f is where the flows of the first n packets begin.
Firsts(f, c, n) ==
  /\ f[0] = 0
  /\ \A i \in 1 .. n : f[i] = Begin(c, i, f[Before(c, i)])

\* FirstOf packet by packet.
LEMMA FirstSteps ==
  ASSUME NEW c, Len(c) \in Nat
  PROVE  Firsts(FirstOf(c), c, Len(c))
<1> DEFINE S == {n \in Nat : n <= Len(c) => \E f \in [0 .. n -> Nat] : Firsts(f, c, n)}
<1>2. 0 \in S
  <2> DEFINE f == [k \in 0 .. 0 |-> 0]
  <2>1. f \in [0 .. 0 -> Nat]
    OBVIOUS
  <2>2. Firsts(f, c, 0)
    BY DEF Firsts
  <2> QED  BY <2>1, <2>2
<1>3. ASSUME NEW n \in S PROVE n + 1 \in S
  <2> SUFFICES ASSUME n + 1 <= Len(c)
               PROVE  \E f \in [0 .. n + 1 -> Nat] : Firsts(f, c, n + 1)
    OBVIOUS
  <2>1. PICK f \in [0 .. n -> Nat] : Firsts(f, c, n)
    OBVIOUS
  <2> DEFINE last == Begin(c, n + 1, f[Before(c, n + 1)])
             more == [k \in 0 .. n + 1 |-> IF k = n + 1 THEN last ELSE f[k]]
  <2>2. n \in Nat
    OBVIOUS
  <2>3. \A k \in 1 .. n + 1 : Before(c, k) \in 0 .. n /\ Before(c, k) < k
    <3> SUFFICES ASSUME NEW k \in 1 .. n + 1 PROVE Before(c, k) \in 0 .. n /\ Before(c, k) < k
      OBVIOUS
    <3>1. k \in Nat
      OBVIOUS
    <3>2. Before(c, k) \in Nat /\ (Before(c, k) # 0 => Before(c, k) \in 1 .. k - 1)
      BY <3>1, BeforeIs
    <3> QED  BY <2>2, <3>2
  <2>4. last \in Nat
    <3>1. n + 1 \in 1 .. n + 1
      BY <2>2
    <3>2. f[Before(c, n + 1)] \in Nat
      BY <2>3, <3>1
    <3> QED  BY <3>2 DEF Begin
  <2> HIDE DEF last
  <2>5. /\ more \in [0 .. n + 1 -> Nat] /\ more[n + 1] = last
        /\ \A k \in 0 .. n : more[k] = f[k]
    BY <2>2, <2>4
  <2> HIDE DEF more
  <2>6. Firsts(more, c, n + 1)
    <3>1. more[0] = 0
      BY <2>1, <2>2, <2>5 DEF Firsts
    <3>2. ASSUME NEW k \in 1 .. n + 1 PROVE more[k] = Begin(c, k, more[Before(c, k)])
      <4>1. more[Before(c, k)] = f[Before(c, k)]
        BY <2>3, <2>5
      <4>2. CASE k = n + 1
        BY <2>5, <4>1, <4>2 DEF last
      <4>3. CASE k \in 1 .. n
        <5>1. k \in 0 .. n
          BY <4>3
        <5> QED  BY <2>1, <2>5, <4>1, <4>3, <5>1 DEF Firsts
      <4> QED  BY <2>2, <4>2, <4>3
    <3> QED  BY <3>1, <3>2 DEF Firsts
  <2> QED  BY <2>5, <2>6
<1> HIDE DEF S
<1>4. Len(c) \in S
  <2>1. S \in SUBSET Nat
    BY DEF S
  <2> QED  BY <1>2, <1>3, <2>1, AllNumbers
<1>5. PICK t \in [0 .. Len(c) -> Nat] : Firsts(t, c, Len(c))
  BY <1>4 DEF S
<1> DEFINE Body(f) == [i \in 0 .. Len(c) |->
                         IF i = 0 THEN 0
                         ELSE IF Begins(c, i, Before(c, i), f[Before(c, i)]) THEN i
                         ELSE f[Before(c, i)]]
<1>6. t = Body(t)
  <2>1. ASSUME NEW i \in 0 .. Len(c)
        PROVE  t[i] = IF i = 0 THEN 0
                      ELSE IF Begins(c, i, Before(c, i), t[Before(c, i)]) THEN i
                      ELSE t[Before(c, i)]
    <3>1. CASE i = 0
      BY <1>5, <3>1 DEF Firsts
    <3>2. CASE i \in 1 .. Len(c)
      <4>1. t[i] = Begin(c, i, t[Before(c, i)]) /\ i # 0
        BY <1>5, <3>2 DEF Firsts
      <4> QED  BY <4>1 DEF Begin
    <3> QED  BY <3>1, <3>2
  <2> QED  BY <1>5, <2>1
<1> DEFINE u == FirstOf(c)
<1>7. u = CHOOSE f : f = Body(f)
  BY DEF FirstOf
<1> HIDE DEF u
<1>8. u = Body(u)
  <2> HIDE DEF Body
  <2> QED  BY <1>6, <1>7
<1>9. u[0] = 0
  <2>1. Body(u)[0] = 0
    OBVIOUS
  <2> HIDE DEF Body
  <2> QED  BY <1>8, <2>1
<1>10. ASSUME NEW i \in 1 .. Len(c) PROVE u[i] = Begin(c, i, u[Before(c, i)])
  <2>1. i \in 0 .. Len(c) /\ i # 0
    OBVIOUS
  <2>2. Body(u)[i] = Begin(c, i, u[Before(c, i)])
    BY <2>1 DEF Begin
  <2> HIDE DEF Body
  <2> QED  BY <1>8, <2>2
<1> QED  BY <1>9, <1>10 DEF Firsts, u

-----------------------------------------------------------------------------
(* Outputs.                                                                *)

\* NothingOverwritten is not inductive: it speaks of the inputs that are complete, and
\* not of the one that is read, whose output must be nobody else's.
Kept(done) ==
  /\ \A stem \in existing : stem \in DOMAIN outputs /\ outputs[stem] = Old
  /\ \A i \in 1 .. done :
       Inputs[i] \in DOMAIN outputs /\ outputs[Inputs[i]] = New(i, reported[i].rows)

\* The output of stem is neither an earlier run's nor a completed input's.
Apart(done, stem) == stem \notin existing /\ \A i \in 1 .. done : Inputs[i] # stem

\* The invariant of main (main.rs) about its outputs.
OutputInv ==
  /\ phase \in {"opening", "reading", "done", "failed"}
  /\ file \in Nat \ {0}
  /\ \E S : reported \in Seq(S)
  /\ Len(reported) = file - 1
  /\ ~ overwrite => Kept(file - 1)
  /\ phase = "reading" => Inputs[file] \in DOMAIN outputs
  /\ ~ overwrite /\ phase = "reading" => Apart(file - 1, Inputs[file])

\* The outputs of earlier runs are as they were.
LEMMA OutputInit == MeterInit => OutputInv
<1> SUFFICES ASSUME MeterInit PROVE OutputInv
  OBVIOUS
<1>1. /\ phase = "opening" /\ file = 1 /\ reported = << >>
      /\ outputs = [stem \in existing |-> Old]
  BY DEF MeterInit
<1>2. reported \in Seq({}) /\ Len(reported) = file - 1
  BY <1>1
<1>3. Kept(file - 1)
  BY <1>1 DEF Kept
<1> QED
  BY <1>1, <1>2, <1>3 DEF OutputInv

\* main keeps the invariant: an output that exists is not opened.
LEMMA OutputStep == OutputInv /\ [MeterNext]_meterVars => OutputInv'
<1> SUFFICES ASSUME OutputInv, [MeterNext]_meterVars PROVE OutputInv'
  OBVIOUS
<1>1. file \in Nat /\ file # 0 /\ Len(reported) = file - 1
  BY DEF OutputInv
<1>2. CASE Open
  <2>1. /\ phase = "opening" /\ file \in DOMAIN Inputs
        /\ UNCHANGED << file, overwrite, existing, reported >>
    BY <1>2 DEF Open
  <2>2. CASE Inputs[file] \in DOMAIN outputs /\ ~ overwrite
    <3>1. phase' = "failed" /\ UNCHANGED outputs
      BY <1>2, <2>2 DEF Open
    <3>2. (~ overwrite => Kept(file - 1))'
      BY <2>1, <3>1 DEF OutputInv, Kept
    <3> QED
      BY <2>1, <3>1, <3>2 DEF OutputInv
  <2>3. CASE ~(Inputs[file] \in DOMAIN outputs /\ ~ overwrite)
    <3>1. /\ phase' = "reading"
          /\ outputs' = [stem \in DOMAIN outputs \cup {Inputs[file]} |->
                           IF stem = Inputs[file] THEN New(file, 0) ELSE outputs[stem]]
      BY <1>2, <2>3 DEF Open
    <3>2. ASSUME ~ overwrite PROVE Kept(file - 1)' /\ Apart(file - 1, Inputs[file])'
      <4>1. Kept(file - 1) /\ Inputs[file] \notin DOMAIN outputs
        BY <2>3, <3>2 DEF OutputInv
      <4>2. \A stem \in DOMAIN outputs : stem \in DOMAIN outputs' /\ outputs'[stem] = outputs[stem]
        BY <3>1, <4>1
      <4> QED
        BY <2>1, <4>1, <4>2 DEF Kept, Apart
    <3> QED
      BY <2>1, <3>1, <3>2 DEF OutputInv
  <2> QED
    BY <2>2, <2>3
<1>3. CASE FinishFile
  <2> DEFINE n == Cardinality(rows \cup RowsOf(Range(flows)))
             row == [rows |-> n, packets |-> Len(fed)]
  <2>1. /\ phase = "reading" /\ phase' = "opening" /\ file' = file + 1
        /\ outputs' = [outputs EXCEPT ![Inputs[file]] = New(file, n)]
        /\ reported' = Append(reported, row) /\ UNCHANGED << overwrite, existing >>
    BY <1>3 DEF FinishFile
  <2>2. row.rows = n
    OBVIOUS
  <2> HIDE DEF n, row
  <2>3. PICK S : reported \in Seq(S)
    BY DEF OutputInv
  <2>4. /\ reported' \in Seq(S \cup {row}) /\ Len(reported') = file' - 1
        /\ reported'[file] = row
        /\ \A i \in 1 .. file - 1 : reported'[i] = reported[i]
    <3>1. reported \in Seq(S \cup {row}) /\ row \in S \cup {row}
      BY <2>3
    <3> QED
      BY <1>1, <2>1, <3>1
  <2>5. file' \in Nat \ {0} /\ file' - 1 = file
    BY <1>1, <2>1
  <2>6. ASSUME ~ overwrite PROVE Kept(file - 1)'
    <3>1. Kept(file - 1) /\ Apart(file - 1, Inputs[file])
      BY <2>1, <2>6 DEF OutputInv
    <3>2. /\ Inputs[file] \in DOMAIN outputs'
          /\ \A stem \in DOMAIN outputs :
               /\ stem \in DOMAIN outputs'
               /\ stem # Inputs[file] => outputs'[stem] = outputs[stem]
          /\ outputs'[Inputs[file]] = New(file, n)
      BY <2>1 DEF OutputInv
    <3>3. \A stem \in existing : stem \in DOMAIN outputs' /\ outputs'[stem] = Old
      BY <3>1, <3>2 DEF Kept, Apart
    <3>4. ASSUME NEW i \in 1 .. file
          PROVE  /\ Inputs[i] \in DOMAIN outputs'
                 /\ outputs'[Inputs[i]] = New(i, reported'[i].rows)
      <4>1. i \in 1 .. file - 1 \/ i = file
        BY <1>1
      <4>2. CASE i \in 1 .. file - 1
        BY <2>4, <3>1, <3>2, <4>2 DEF Kept, Apart
      <4>3. CASE i = file
        BY <2>2, <2>4, <3>2, <4>3
      <4> QED
        BY <4>1, <4>2, <4>3
    <3> QED
      BY <2>1, <2>5, <3>3, <3>4 DEF Kept
  <2> QED
    BY <2>1, <2>4, <2>5, <2>6 DEF OutputInv
<1>4. CASE ReadError
  <2> DEFINE n == Cardinality(rows)
  <2>1. /\ phase = "reading" /\ phase' = "failed"
        /\ outputs' = [outputs EXCEPT ![Inputs[file]] = New(file, n)]
        /\ UNCHANGED << file, overwrite, existing, reported >>
    BY <1>4 DEF ReadError
  <2> HIDE DEF n
  <2>2. ASSUME ~ overwrite PROVE Kept(file - 1)'
    <3>1. Kept(file - 1) /\ Apart(file - 1, Inputs[file])
      BY <2>1, <2>2 DEF OutputInv
    <3> QED
      BY <2>1, <3>1 DEF Kept, Apart
  <2> QED
    BY <2>1, <2>2 DEF OutputInv
<1>5. ASSUME UNCHANGED << file, overwrite, existing, outputs, reported >>,
             phase' = phase \/ phase' \in {"failed", "done"}
      PROVE  OutputInv'
  BY <1>5 DEF OutputInv, Kept, Apart
<1>6. CASE AllDone
  BY <1>5, <1>6 DEF AllDone
<1>7. CASE OpenError
  BY <1>5, <1>7 DEF OpenError
<1>8. CASE \E shape \in Shapes, step \in Steps : Feed(shape, step)
  BY <1>5, <1>8 DEF Feed
<1>9. CASE UNCHANGED meterVars
  BY <1>5, <1>9 DEF meterVars
<1> QED
  BY <1>2, <1>3, <1>4, <1>6, <1>7, <1>8, <1>9 DEF MeterNext

\* NothingOverwritten: without --overwrite, what earlier runs wrote and the rows of every
\* input that was completed are still there (main.rs).
THEOREM OutputsAreKept == MeterSpec => []NothingOverwritten
<1>1. OutputInv => NothingOverwritten
  <2> SUFFICES ASSUME OutputInv, ~ overwrite PROVE NothingOverwritten
    BY DEF NothingOverwritten
  <2>1. PICK S : reported \in Seq(S)
    BY DEF OutputInv
  <2>2. DOMAIN reported = 1 .. file - 1
    BY <2>1 DEF OutputInv
  <2> QED
    BY <2>2 DEF OutputInv, Kept, NothingOverwritten
<1> QED
  BY <1>1, OutputInit, OutputStep, PTL DEF MeterSpec

-----------------------------------------------------------------------------
(* Flow::add, field by field.                                              *)

\* Types of a flow's fields.
Times == Int \cup {Never}

BulkRecords ==
  [start : Times, last : Times, count : Nat, size : Nat, states : Nat, packets : Nat,
   bytes : Nat, duration : Int]

\* A bulk that has begun has a last packet.
Bulks == {bulk \in BulkRecords : bulk.start \in Int => bulk.last \in Int}

FlowRecords ==
  [first : Packets, last : Int, forward : Seq(Packets), backward : Seq(Packets),
   iat : Seq(Int), forward_iat : Seq(Int), backward_iat : Seq(Int), active : Seq(Int),
   idle : Seq(Int), active_start : Int, active_end : Int, subflows : Nat,
   last_forward : Times, last_backward : Times, forward_bulk : Bulks, backward_bulk : Bulks]

\* Types of a packet's fields.
LEMMA PacketTypes == \A p \in Packets : p.ts \in Int /\ p.size \in Nat /\ p.id \in Nat
BY DEF Packets

\* A flow without packets.
Fresh(f) == f.forward = << >> /\ f.backward = << >>

\* The flow with the gap before the packet, which is not in it yet.
Timed(f, p) == [Gap(f, p) EXCEPT !.active_end = p.ts, !.last = p.ts]

\* A packet in a direction after the last one of that direction.
Since(p, last) == IF last = Never THEN << >> ELSE << Greater(p.ts - last, 0) >>

\* What the gap does not change.
SamePackets(f, g) ==
  /\ g.first = f.first
  /\ g.forward = f.forward /\ g.backward = f.backward
  /\ g.forward_iat = f.forward_iat /\ g.backward_iat = f.backward_iat
  /\ g.last_forward = f.last_forward /\ g.last_backward = f.last_backward
  /\ g.forward_bulk = f.forward_bulk /\ g.backward_bulk = f.backward_bulk

\* What a packet does not change.
SameTimes(f, g) ==
  /\ g.first = f.first /\ g.last = f.last
  /\ g.iat = f.iat /\ g.active = f.active /\ g.idle = f.idle
  /\ g.active_start = f.active_start /\ g.active_end = f.active_end
  /\ g.subflows = f.subflows

\* One sequence with one number more, or as it was.
LEMMA SpanIs ==
  ASSUME NEW f \in FlowRecords
  PROVE  ActiveSpan(f) \in Seq(Int) /\ f.active \o ActiveSpan(f) \in Seq(Int)
<1>1. f.active \in Seq(Int) /\ f.active_end - f.active_start \in Int
  BY DEF FlowRecords
<1>2. << f.active_end - f.active_start >> \in Seq(Int) /\ << >> \in Seq(Int)
  BY <1>1
<1>3. ActiveSpan(f) \in Seq(Int)
  BY <1>2 DEF ActiveSpan
<1> QED
  BY <1>1, <1>3

\* The greater of two numbers.
LEMMA GreaterIs ==
  \A a, b \in Int : Greater(a, b) \in Int /\ Greater(a, b) >= a /\ Greater(a, b) >= b
BY DEF Greater

\* The gap before the first packet of a flow.
LEMMA FirstGap ==
  ASSUME NEW f \in FlowRecords, NEW p \in Packets, Fresh(f)
  PROVE  /\ Timed(f, p) \in FlowRecords /\ SamePackets(f, Timed(f, p))
         /\ Timed(f, p).last = p.ts /\ Timed(f, p).active_end = p.ts
         /\ Timed(f, p).iat = f.iat /\ Timed(f, p).active = f.active
         /\ Timed(f, p).idle = f.idle /\ Timed(f, p).subflows = f.subflows
         /\ Timed(f, p).active_start = f.active_start
<1>1. Gap(f, p) = f
  BY DEF Gap, Fresh
<1>2. p.ts \in Int
  BY DEF Packets
<1>3. Timed(f, p) = [f EXCEPT !.active_end = p.ts, !.last = p.ts]
  BY <1>1 DEF Timed
<1> QED
  BY <1>2, <1>3 DEF FlowRecords, SamePackets

\* The gap before any other packet.
LEMMA LaterGap ==
  ASSUME NEW f \in FlowRecords, NEW p \in Packets, ~ Fresh(f)
  PROVE  LET g   == Timed(f, p)
             gap == p.ts - f.last
         IN /\ g \in FlowRecords /\ SamePackets(f, g)
            /\ g.last = p.ts /\ g.active_end = p.ts
            /\ g.iat = Append(f.iat, Greater(gap, 0))
            /\ g.subflows = IF gap > Second THEN f.subflows + 1 ELSE f.subflows
            /\ IF gap > ActivityTimeout
               THEN /\ g.active = f.active \o ActiveSpan(f) /\ g.idle = Append(f.idle, gap)
                    /\ g.active_start = p.ts
               ELSE /\ g.active = f.active /\ g.idle = f.idle
                    /\ g.active_start = f.active_start
<1> DEFINE gap == p.ts - f.last
           it == Append(f.iat, Greater(gap, 0))
           sub == IF gap > Second THEN f.subflows + 1 ELSE f.subflows
           act == f.active \o ActiveSpan(f)
           idle == Append(f.idle, gap)
           timed == [f EXCEPT !.iat = it, !.subflows = sub]
           long == [timed EXCEPT !.active = act, !.idle = idle, !.active_start = p.ts]
<1>1. p.ts \in Int /\ f.last \in Int /\ gap \in Int
  <2>1. f.last \in Int
    BY DEF FlowRecords
  <2>2. p.ts \in Int
    BY PacketTypes
  <2> QED
    BY <2>1, <2>2
<1>2. it \in Seq(Int) /\ sub \in Nat /\ act \in Seq(Int) /\ idle \in Seq(Int)
  <2>1. f.iat \in Seq(Int) /\ f.idle \in Seq(Int) /\ f.subflows \in Nat
    BY DEF FlowRecords
  <2>2. Greater(gap, 0) \in Int
    BY <1>1, GreaterIs
  <2>3. act \in Seq(Int)
    BY SpanIs
  <2> HIDE DEF gap
  <2> QED
    BY <1>1, <2>1, <2>2, <2>3
<1>3. Gap(f, p) = IF gap > ActivityTimeout THEN long ELSE timed
  BY DEF Gap, Fresh
<1> HIDE DEF it, sub, act, idle, gap
<1>4. CASE gap > ActivityTimeout
  <2>1. Timed(f, p) = [long EXCEPT !.active_end = p.ts, !.last = p.ts]
    BY <1>3, <1>4 DEF Timed
  <2>2. Timed(f, p) \in FlowRecords
    <3>1. timed \in FlowRecords
      BY <1>2 DEF FlowRecords
    <3> HIDE DEF timed
    <3>2. long \in FlowRecords
      BY <1>1, <1>2, <3>1 DEF FlowRecords
    <3> HIDE DEF long
    <3> QED
      BY <1>1, <2>1, <3>2 DEF FlowRecords
  <2>3. /\ Timed(f, p).last = p.ts /\ Timed(f, p).active_end = p.ts
        /\ Timed(f, p).iat = it /\ Timed(f, p).subflows = sub
        /\ Timed(f, p).active = act /\ Timed(f, p).idle = idle
        /\ Timed(f, p).active_start = p.ts
    BY <2>1 DEF FlowRecords
  <2>4. SamePackets(f, Timed(f, p))
    BY <2>1 DEF FlowRecords, SamePackets
  <2> QED
    BY <1>4, <2>2, <2>3, <2>4 DEF it, sub, act, idle, gap
<1>5. CASE ~(gap > ActivityTimeout)
  <2>1. Timed(f, p) = [timed EXCEPT !.active_end = p.ts, !.last = p.ts]
    BY <1>3, <1>5 DEF Timed
  <2>2. /\ Timed(f, p).last = p.ts /\ Timed(f, p).active_end = p.ts
        /\ Timed(f, p).iat = it /\ Timed(f, p).subflows = sub
        /\ Timed(f, p).active = f.active /\ Timed(f, p).idle = f.idle
        /\ Timed(f, p).active_start = f.active_start
    BY <2>1 DEF FlowRecords
  <2>3. Timed(f, p) \in FlowRecords
    <3>1. timed \in FlowRecords
      BY <1>2 DEF FlowRecords
    <3> HIDE DEF timed
    <3> QED
      BY <1>1, <2>1, <3>1 DEF FlowRecords
  <2>4. SamePackets(f, Timed(f, p))
    BY <2>1 DEF FlowRecords, SamePackets
  <2> QED
    BY <1>5, <2>2, <2>3, <2>4 DEF it, sub, gap
<1> QED
  BY <1>4, <1>5

\* BulkState::add keeps its type.
LEMMA BulkType ==
  ASSUME NEW bulk \in Bulks, NEW p \in Packets, NEW last \in Times
  PROVE  BulkAdd(bulk, p, last) \in Bulks
<1> DEFINE fresh == \/ bulk.start = Never
                    \/ last # Never /\ last > bulk.start
                    \/ p.ts - bulk.last > Second
           more == [bulk EXCEPT !.count = bulk.count + 1, !.size = bulk.size + p.size,
                                !.last = p.ts]
           begun == [bulk EXCEPT !.start = p.ts, !.last = p.ts, !.count = 1, !.size = p.size]
           full == [more EXCEPT !.states = more.states + 1,
                                !.packets = more.packets + more.count,
                                !.bytes = more.bytes + more.size,
                                !.duration = more.duration + p.ts - bulk.start]
           long == [more EXCEPT !.packets = more.packets + 1, !.bytes = more.bytes + p.size,
                                !.duration = more.duration + p.ts - bulk.last]
<1>0. BulkAdd(bulk, p, last) =
        IF p.size = 0 THEN bulk
        ELSE IF fresh THEN begun
        ELSE IF more.count = BulkPackets THEN full
        ELSE IF more.count > BulkPackets THEN long
        ELSE more
  BY DEF BulkAdd
<1>1. p.ts \in Int /\ p.size \in Nat
  BY PacketTypes
<1>2. bulk \in BulkRecords /\ (bulk.start \in Int => bulk.last \in Int)
  BY DEF Bulks
<1>3. begun \in BulkRecords /\ begun.last \in Int
  BY <1>1, <1>2 DEF BulkRecords, Times
<1>4. CASE ~ fresh
  <2>1. bulk.start \in Int /\ bulk.last \in Int
    BY <1>2, <1>4 DEF BulkRecords, Times
  <2>2. more \in BulkRecords /\ more.last \in Int
    <3>1. bulk.count + 1 \in Nat /\ bulk.size + p.size \in Nat
      BY <1>1, <1>2 DEF BulkRecords
    <3>2. p.ts \in Times
      BY <1>1 DEF Times
    <3> HIDE DEF fresh, begun, full, long
    <3> QED
      BY <1>1, <1>2, <3>1, <3>2 DEF BulkRecords
  <2> HIDE DEF more
  <2>3. /\ more.count \in Nat /\ more.size \in Nat /\ more.states \in Nat /\ more.packets \in Nat
        /\ more.bytes \in Nat /\ more.duration \in Int
    BY <2>2 DEF BulkRecords
  <2>4. /\ more.states + 1 \in Nat /\ more.packets + more.count \in Nat /\ more.packets + 1 \in Nat
        /\ more.bytes + more.size \in Nat /\ more.bytes + p.size \in Nat
        /\ more.duration + p.ts - bulk.start \in Int /\ more.duration + p.ts - bulk.last \in Int
    BY <1>1, <2>1, <2>3
  <2>5. full \in BulkRecords /\ full.last \in Int
    BY <2>2, <2>4 DEF BulkRecords
  <2>6. long \in BulkRecords /\ long.last \in Int
    BY <2>2, <2>4 DEF BulkRecords
  <2> HIDE DEF full, long, fresh, begun
  <2>7. BulkAdd(bulk, p, last) \in {bulk, full, long, more}
    BY <1>0, <1>4
  <2> QED
    BY <1>2, <2>2, <2>5, <2>6, <2>7 DEF Bulks
<1>5. CASE fresh
  <2> HIDE DEF begun, fresh, full, long, more
  <2>1. BulkAdd(bulk, p, last) \in {bulk, begun}
    BY <1>0, <1>5
  <2> QED
    BY <1>2, <1>3, <2>1 DEF Bulks
<1> QED
  BY <1>4, <1>5

\* The packet joins the direction it goes.
LEMMA DirectedIs ==
  ASSUME NEW f \in FlowRecords, NEW p \in Packets
  PROVE  LET g == Directed(f, p)
         IN /\ g \in FlowRecords /\ SameTimes(f, g)
            /\ IF IsForward(f, p)
               THEN /\ g.forward = Append(f.forward, p) /\ g.backward = f.backward
                    /\ g.last_forward = p.ts /\ g.last_backward = f.last_backward
                    /\ g.forward_iat = f.forward_iat \o Since(p, f.last_forward)
                    /\ g.backward_iat = f.backward_iat
                    /\ g.forward_bulk = BulkAdd(f.forward_bulk, p, f.last_backward)
                    /\ g.backward_bulk = f.backward_bulk
               ELSE /\ g.backward = Append(f.backward, p) /\ g.forward = f.forward
                    /\ g.last_backward = p.ts /\ g.last_forward = f.last_forward
                    /\ g.backward_iat = f.backward_iat \o Since(p, f.last_backward)
                    /\ g.forward_iat = f.forward_iat
                    /\ g.backward_bulk = BulkAdd(f.backward_bulk, p, f.last_forward)
                    /\ g.forward_bulk = f.forward_bulk
<1> DEFINE fs == Append(f.forward, p)
           bs == Append(f.backward, p)
           fi == f.forward_iat \o Since(p, f.last_forward)
           bi == f.backward_iat \o Since(p, f.last_backward)
           fb == BulkAdd(f.forward_bulk, p, f.last_backward)
           bb == BulkAdd(f.backward_bulk, p, f.last_forward)
<1>1. p.ts \in Int
  BY PacketTypes
<1>2. /\ f.forward \in Seq(Packets) /\ f.backward \in Seq(Packets)
      /\ f.forward_iat \in Seq(Int) /\ f.backward_iat \in Seq(Int)
      /\ f.last_forward \in Times /\ f.last_backward \in Times
      /\ f.forward_bulk \in Bulks /\ f.backward_bulk \in Bulks
  BY DEF FlowRecords
<1>3. \A last \in Times : Since(p, last) \in Seq(Int)
  <2> SUFFICES ASSUME NEW last \in Times PROVE Since(p, last) \in Seq(Int)
    OBVIOUS
  <2>1. CASE last = Never
    <3>1. Since(p, last) = << >>
      BY <2>1 DEF Since
    <3> QED
      BY <3>1
  <2>2. CASE last # Never
    <3>1. last \in Int
      BY <2>2 DEF Times
    <3>2. Greater(p.ts - last, 0) \in Int
      <4>1. p.ts - last \in Int /\ 0 \in Int
        BY <1>1, <3>1
      <4> QED
        BY <4>1, GreaterIs
    <3> QED
      BY <2>2, <3>2 DEF Since
  <2> QED
    BY <2>1, <2>2
<1>4. /\ fs \in Seq(Packets) /\ bs \in Seq(Packets) /\ fi \in Seq(Int) /\ bi \in Seq(Int)
  BY <1>2, <1>3
<1>5. fb \in Bulks /\ bb \in Bulks
  BY <1>2, BulkType
<1>6. Directed(f, p) =
        IF IsForward(f, p) THEN
          [f EXCEPT !.forward = fs, !.last_forward = p.ts, !.forward_iat = fi,
                    !.forward_bulk = fb]
        ELSE
          [f EXCEPT !.backward = bs, !.last_backward = p.ts, !.backward_iat = bi,
                    !.backward_bulk = bb]
  BY DEF Directed, Since
<1> HIDE DEF fs, bs, fi, bi, fb, bb
<1>7. p.ts \in Times
  BY <1>1 DEF Times
<1>8. CASE IsForward(f, p)
  <2> DEFINE g == [f EXCEPT !.forward = fs, !.last_forward = p.ts, !.forward_iat = fi,
                            !.forward_bulk = fb]
  <2>1. /\ g \in FlowRecords /\ SameTimes(f, g)
        /\ g.forward = fs /\ g.backward = f.backward
        /\ g.last_forward = p.ts /\ g.last_backward = f.last_backward
        /\ g.forward_iat = fi /\ g.backward_iat = f.backward_iat
        /\ g.forward_bulk = fb /\ g.backward_bulk = f.backward_bulk
    BY <1>4, <1>5, <1>7 DEF FlowRecords, SameTimes
  <2>2. Directed(f, p) = g
    BY <1>6, <1>8
  <2> HIDE DEF g
  <2> QED
    BY <1>8, <2>1, <2>2 DEF fs, fi, fb
<1>9. CASE ~ IsForward(f, p)
  <2> DEFINE g == [f EXCEPT !.backward = bs, !.last_backward = p.ts, !.backward_iat = bi,
                            !.backward_bulk = bb]
  <2>1. /\ g \in FlowRecords /\ SameTimes(f, g)
        /\ g.backward = bs /\ g.forward = f.forward
        /\ g.last_backward = p.ts /\ g.last_forward = f.last_forward
        /\ g.backward_iat = bi /\ g.forward_iat = f.forward_iat
        /\ g.backward_bulk = bb /\ g.forward_bulk = f.forward_bulk
    BY <1>4, <1>5, <1>7 DEF FlowRecords, SameTimes
  <2>2. Directed(f, p) = g
    BY <1>6, <1>9
  <2> HIDE DEF g
  <2> QED
    BY <1>9, <2>1, <2>2 DEF bs, bi, bb
<1> QED
  BY <1>8, <1>9

\* Flow::new has its type and no packet.
LEMMA EmptyFlowIs ==
  ASSUME NEW p \in Packets
  PROVE  EmptyFlow(p) \in FlowRecords /\ Fresh(EmptyFlow(p))
<1>1. p.ts \in Int
  BY PacketTypes
<1>2. << >> \in Seq(Int) /\ << >> \in Seq(Packets)
  OBVIOUS
<1>3. NoBulk \in Bulks
  BY FlowMeterAssumption DEF NoBulk, Bulks, BulkRecords, Times
<1> QED
  BY <1>1, <1>2, <1>3 DEF EmptyFlow, FlowRecords, Times, Fresh

\* Flow::add is the gap and then the direction.
LEMMA AddIs == \A f, p : FlowAdd(f, p) = Directed(Timed(f, p), p)
BY DEF FlowAdd, Timed

-----------------------------------------------------------------------------
(* One packet more.                                                        *)

\* A capture and the packet that is appended.
LEMMA Longer ==
  ASSUME NEW c \in Captures, NEW p \in Packets
  PROVE  LET d == Append(c, p)
         IN /\ d \in Captures /\ Len(c) \in Nat /\ Len(d) = Len(c) + 1 /\ d[Len(c) + 1] = p
            /\ \A i \in 1 .. Len(c) : d[i] = c[i] /\ c[i] \in Packets
BY DEF Captures

\* A flow begins at one of the packets up to its own.
LEMMA FirstBound ==
  ASSUME NEW c \in Captures
  PROVE  FirstOf(c)[0] = 0 /\ \A i \in 1 .. Len(c) : FirstOf(c)[i] \in 1 .. i
<1> DEFINE P == FirstOf(c)
           S == {m \in Nat : \A i \in 1 .. m : i <= Len(c) => P[i] \in 1 .. i}
<1>1. Len(c) \in Nat
  BY DEF Captures
<1>2. Firsts(P, c, Len(c))
  BY <1>1, FirstSteps
<1> HIDE DEF P
<1>3. 0 \in S
  OBVIOUS
<1>4. ASSUME NEW m \in S PROVE m + 1 \in S
  <2> SUFFICES ASSUME m + 1 <= Len(c) PROVE P[m + 1] \in 1 .. m + 1
    OBVIOUS
  <2> DEFINE b == Before(c, m + 1)
  <2>1. m + 1 \in 1 .. Len(c) /\ m + 1 \in Nat /\ (m + 1) - 1 = m
    OBVIOUS
  <2>2. b \in Nat /\ (b # 0 => b \in 1 .. m)
    BY <2>1, BeforeIs
  <2>3. P[m + 1] = Begin(c, m + 1, P[b])
    BY <1>2, <2>1 DEF Firsts
  <2> HIDE DEF b
  <2>4. CASE b = 0
    <3>1. P[m + 1] = m + 1
      BY <2>3, <2>4 DEF Begin, Begins, b
    <3> QED
      BY <2>1, <3>1
  <2>5. CASE b # 0
    <3>1. P[b] \in 1 .. b
      BY <2>1, <2>2, <2>5
    <3>2. P[m + 1] \in {m + 1, P[b]}
      BY <2>3 DEF Begin
    <3> QED
      BY <2>1, <2>2, <2>5, <3>1, <3>2
  <2> QED
    BY <2>4, <2>5
<1>5. S \in SUBSET Nat
  OBVIOUS
<1> HIDE DEF S
<1>6. Len(c) \in S
  BY <1>1, <1>3, <1>4, <1>5, AllNumbers
<1>7. P[0] = 0
  BY <1>2 DEF Firsts
<1> QED
  BY <1>1, <1>6, <1>7 DEF S, P

\* The packets before the last one do not depend on it.
LEMMA SameBefore ==
  ASSUME NEW c \in Captures, NEW p \in Packets, NEW i \in 1 .. Len(c)
  PROVE  Before(Append(c, p), i) = Before(c, i)
<1> DEFINE d == Append(c, p)
<1>1. Len(c) \in Nat /\ \A k \in 1 .. Len(c) : d[k] = c[k]
  BY Longer
<1> HIDE DEF d
<1>2. {j \in 1 .. i - 1 : FlowKey(d[j]) = FlowKey(d[i])} =
      {j \in 1 .. i - 1 : FlowKey(c[j]) = FlowKey(c[i])}
  <2>1. d[i] = c[i] /\ \A j \in 1 .. i - 1 : d[j] = c[j]
    BY <1>1
  <2> QED
    BY <2>1
<1> DEFINE Last(T) == IF T = {} THEN 0 ELSE CHOOSE j \in T : \A k \in T : k <= j
<1>3. Before(d, i) = Before(c, i)
  <2>1. /\ Before(d, i) = Last({j \in 1 .. i - 1 : FlowKey(d[j]) = FlowKey(d[i])})
        /\ Before(c, i) = Last({j \in 1 .. i - 1 : FlowKey(c[j]) = FlowKey(c[i])})
    BY DEF Before
  <2> HIDE DEF Last
  <2> QED
    BY <1>2, <2>1
<1> QED
  BY <1>3 DEF d

\* Nor does whether a packet ends its flow.
LEMMA SameEnds ==
  ASSUME NEW c \in Captures, NEW p \in Packets, NEW s \in 1 .. Len(c), NEW j \in 1 .. Len(c)
  PROVE  Ends(Append(c, p), s, j) <=> Ends(c, s, j)
<1> DEFINE d == Append(c, p)
           fins(x) == {m \in s .. j : FlowKey(x[m]) = FlowKey(x[j]) /\ "FIN" \in x[m].flags}
<1>1. Len(c) \in Nat /\ \A k \in 1 .. Len(c) : d[k] = c[k]
  BY Longer
<1> HIDE DEF d
<1>2. d[j] = c[j] /\ d[s] = c[s] /\ \A m \in s .. j : d[m] = c[m]
  BY <1>1
<1>3. fins(d) = fins(c)
  BY <1>2
<1>4. \A m \in fins(c) : Along(d, s, m) <=> Along(c, s, m)
  BY <1>2 DEF Along
<1>5. \A x : Ends(x, s, j) <=>
        /\ j # s
        /\ \/ "RST" \in x[j].flags
           \/ (\E m \in fins(x) : Along(x, s, m)) /\ (\E m \in fins(x) : ~ Along(x, s, m))
  BY DEF Ends
<1> HIDE DEF fins
<1>6. Ends(d, s, j) <=> Ends(c, s, j)
  BY <1>2, <1>3, <1>4, <1>5
<1> QED
  BY <1>6 DEF d

\* Nor do the flows.
LEMMA FirstGrows ==
  ASSUME NEW c \in Captures, NEW p \in Packets
  PROVE  \A i \in 0 .. Len(c) : FirstOf(Append(c, p))[i] = FirstOf(c)[i]
<1> DEFINE d == Append(c, p)
           P == FirstOf(c)
           Q == FirstOf(d)
           n == Len(c)
           S == {m \in Nat : \A i \in 0 .. m : i <= n => Q[i] = P[i]}
<1>1. /\ d \in Captures /\ n \in Nat /\ Len(d) = n + 1
      /\ \A k \in 1 .. n : d[k] = c[k]
  BY Longer
<1>2. Firsts(P, c, n)
  BY <1>1, FirstSteps
<1>3. Firsts(Q, d, n + 1)
  <2>1. Len(d) \in Nat
    BY <1>1
  <2>2. Firsts(Q, d, Len(d))
    BY <2>1, FirstSteps
  <2> QED
    BY <1>1, <2>2
<1>4. \A i \in 1 .. n : P[i] \in 1 .. i
  BY FirstBound
<1>5. \A i \in 1 .. n : Before(d, i) = Before(c, i)
  BY SameBefore
<1>6. \A s, j \in 1 .. n : Ends(d, s, j) <=> Ends(c, s, j)
  BY SameEnds
<1> HIDE DEF d, P, Q, n
<1>7. 0 \in S
  <2>1. P[0] = 0 /\ Q[0] = 0
    BY <1>2, <1>3 DEF Firsts
  <2> QED
    BY <2>1
<1>8. ASSUME NEW m \in S PROVE m + 1 \in S
  <2> SUFFICES ASSUME m + 1 <= n PROVE Q[m + 1] = P[m + 1]
    BY <1>1
  <2> DEFINE i == m + 1
             b == Before(c, m + 1)
  <2>1. i \in 1 .. n /\ i \in 1 .. n + 1 /\ i \in Nat /\ i - 1 = m
    BY <1>1
  <2>2. b \in Nat /\ (b # 0 => b \in 1 .. m)
    BY <2>1, BeforeIs
  <2>3. P[i] = Begin(c, i, P[b]) /\ Q[i] = Begin(d, i, Q[b])
    <3>1. Before(d, i) = b
      BY <1>5, <2>1
    <3> QED
      BY <1>2, <1>3, <2>1, <3>1 DEF Firsts
  <2> HIDE DEF i
  <2>4. Before(d, i) = b /\ Before(c, i) = b
    BY <1>5, <2>1 DEF i
  <2> HIDE DEF b
  <2>5. Q[b] = P[b]
    BY <1>1, <2>1, <2>2
  <2>6. Begins(d, i, b, P[b]) <=> Begins(c, i, b, P[b])
    <3>1. CASE b = 0
      BY <3>1 DEF Begins
    <3>2. CASE b # 0
      <4>1. b \in 1 .. n
        BY <1>1, <2>1, <2>2, <3>2
      <4>2. P[b] \in 1 .. n
        BY <1>1, <1>4, <4>1
      <4>3. d[i] = c[i] /\ d[b] = c[b]
        BY <1>1, <2>1, <4>1
      <4> QED
        BY <1>6, <4>1, <4>2, <4>3 DEF Begins
    <3> QED
      BY <3>1, <3>2
  <2>7. Q[i] = P[i]
    BY <2>3, <2>4, <2>5, <2>6 DEF Begin
  <2> QED
    BY <2>7 DEF i
<1>9. S \in SUBSET Nat
  OBVIOUS
<1> HIDE DEF S
<1>10. n \in S
  BY <1>1, <1>7, <1>8, <1>9, AllNumbers
<1>11. \A i \in 0 .. n : Q[i] = P[i]
  BY <1>1, <1>10 DEF S
<1> QED
  BY <1>11 DEF d, P, Q, n

-----------------------------------------------------------------------------
(* Flows that are open.                                                    *)

\* The packets that are the last ones of their connection so far, and did not end a flow.
Live(c) ==
  {i \in 1 .. Len(c) :
     /\ \A j \in i + 1 .. Len(c) : FlowKey(c[j]) # FlowKey(c[i])
     /\ ~ Ends(c, FirstOf(c)[i], i)}

\* The packets of packet i's flow, and the flows that are open.
Joined(c, i) == Run(c, FirstOf(c)[i])

OpenRuns(c) == {Joined(c, i) : i \in Live(c)}

\* All packets of a connection from s on.
Onwards(c, s, i) == {m \in s .. Len(c) : FlowKey(c[m]) = FlowKey(c[i])}

\* An open flow has all packets of its connection since it began.
Whole(c) == \A i \in Live(c) : Joined(c, i) = Onwards(c, FirstOf(c)[i], i)

\* The last packet of the new packet's connection is no longer the last one.
LEMMA LiveGrows ==
  ASSUME NEW c \in Captures, NEW p \in Packets
  PROVE  LET d == Append(c, p)
             n == Len(c)
             b == Before(d, n + 1)
         IN /\ Live(d) = (Live(c) \ {b}) \cup {i \in {n + 1} : ~ Ends(d, FirstOf(d)[i], i)}
            /\ b # 0 => b \in 1 .. n /\ FlowKey(c[b]) = FlowKey(p)
            /\ \A i \in Live(c) : i = b <=> FlowKey(c[i]) = FlowKey(p)
            /\ \A i \in 1 .. n : FlowKey(c[i]) = FlowKey(p) => i <= b
<1> DEFINE d == Append(c, p)
           n == Len(c)
           b == Before(d, n + 1)
           P == FirstOf(c)
           Q == FirstOf(d)
<1>1. /\ n \in Nat /\ Len(d) = n + 1 /\ d[n + 1] = p /\ \A i \in 1 .. n : d[i] = c[i]
  BY Longer
<1>2. \A i \in 1 .. n : Q[i] = P[i] /\ P[i] \in 1 .. i
  <2>1. \A i \in 0 .. n : Q[i] = P[i]
    BY FirstGrows
  <2>2. \A i \in 1 .. n : P[i] \in 1 .. i
    BY FirstBound
  <2> QED
    BY <1>1, <2>1, <2>2
<1>3. \A s, j \in 1 .. n : Ends(d, s, j) <=> Ends(c, s, j)
  BY SameEnds
<1>4. /\ b \in Nat /\ (b # 0 => b \in 1 .. n /\ FlowKey(d[b]) = FlowKey(d[n + 1]))
      /\ \A k \in 1 .. n : FlowKey(d[k]) = FlowKey(d[n + 1]) => k <= b
  <2>1. n + 1 \in Nat /\ (n + 1) - 1 = n
    BY <1>1
  <2> HIDE DEF d
  <2> QED
    BY <2>1, BeforeIs
<1>5. /\ \A i : i \in Live(c) <=> /\ i \in 1 .. n
                                  /\ \A j \in i + 1 .. n : FlowKey(c[j]) # FlowKey(c[i])
                                  /\ ~ Ends(c, P[i], i)
      /\ \A i : i \in Live(d) <=> /\ i \in 1 .. n + 1
                                  /\ \A j \in i + 1 .. n + 1 : FlowKey(d[j]) # FlowKey(d[i])
                                  /\ ~ Ends(d, Q[i], i)
  BY <1>1 DEF Live
<1> HIDE DEF d, n, b, P, Q
<1>6. b # 0 => b \in 1 .. n /\ FlowKey(c[b]) = FlowKey(p)
  BY <1>1, <1>4
<1>7. \A i \in 1 .. n : FlowKey(c[i]) = FlowKey(p) => i <= b
  BY <1>1, <1>4
<1>8. ASSUME NEW i \in Live(c) PROVE i = b <=> FlowKey(c[i]) = FlowKey(p)
  <2>1. i \in 1 .. n /\ \A j \in i + 1 .. n : FlowKey(c[j]) # FlowKey(c[i])
    BY <1>5
  <2>2. CASE FlowKey(c[i]) = FlowKey(p)
    <3>1. i <= b /\ b # 0 /\ b \in 1 .. n
      BY <1>1, <1>4, <1>6, <1>7, <2>1, <2>2
    <3>2. ~(i < b)
      <4>1. i < b => b \in i + 1 .. n
        BY <1>1, <2>1, <3>1
      <4> QED
        BY <1>6, <2>1, <2>2, <3>1, <4>1
    <3> QED
      BY <2>1, <2>2, <3>1, <3>2
  <2>3. CASE i = b
    BY <1>1, <1>6, <2>1, <2>3
  <2> QED
    BY <2>2, <2>3
<1>9. ASSUME NEW i \in 1 .. n PROVE i \in Live(d) <=> i \in Live(c) \ {b}
  <2>1. Ends(d, Q[i], i) <=> Ends(c, P[i], i)
    <3>1. Q[i] = P[i] /\ P[i] \in 1 .. n
      BY <1>1, <1>2
    <3> QED
      BY <1>3, <3>1
  <2>2. (\A j \in i + 1 .. n + 1 : FlowKey(d[j]) # FlowKey(d[i])) <=>
        (\A j \in i + 1 .. n : FlowKey(c[j]) # FlowKey(c[i])) /\ FlowKey(c[i]) # FlowKey(p)
    <3>1. \A j : j \in i + 1 .. n + 1 <=> j \in i + 1 .. n \/ j = n + 1
      BY <1>1
    <3>2. \A j \in i + 1 .. n : d[j] = c[j]
      BY <1>1
    <3>3. d[i] = c[i] /\ d[n + 1] = p
      BY <1>1
    <3> QED
      BY <3>1, <3>2, <3>3
  <2>3. i \in 1 .. n + 1
    BY <1>1
  <2> QED
    BY <1>5, <1>8, <2>1, <2>2, <2>3
<1>10. n + 1 \in Live(d) <=> ~ Ends(d, Q[n + 1], n + 1)
  <2>1. n + 1 \in 1 .. n + 1 /\ ~ \E j \in (n + 1) + 1 .. n + 1 : TRUE
    BY <1>1
  <2> QED
    BY <1>5, <2>1
<1>11. Live(d) = (Live(c) \ {b}) \cup {i \in {n + 1} : ~ Ends(d, Q[i], i)}
  <2>1. \A i : i \in Live(d) => i \in 1 .. n \/ i = n + 1
    BY <1>1, <1>5
  <2>2. \A i : i \in Live(c) => i \in 1 .. n
    BY <1>5
  <2> QED
    BY <1>9, <1>10, <2>1, <2>2
<1> QED
  BY <1>6, <1>7, <1>8, <1>11 DEF d, n, b, P, Q

\* What Run and Onwards have.
LEMMA RunHas ==
  ASSUME NEW c, NEW s
  PROVE  \A m : m \in Run(c, s) <=> m \in 1 .. Len(c) /\ FirstOf(c)[m] = s
BY DEF Run

\* The new packet begins a flow.
LEMMA NewRun ==
  ASSUME NEW c \in Captures, NEW p \in Packets, Whole(c),
         FirstOf(Append(c, p))[Len(c) + 1] = Len(c) + 1
  PROVE  LET d == Append(c, p)
             n == Len(c)
         IN /\ \A i \in 1 .. n : Joined(d, i) = Joined(c, i)
            /\ Joined(d, n + 1) = {n + 1}
            /\ Runs(d) = Runs(c) \cup {{n + 1}}
            /\ n + 1 \in Live(d)
            /\ Whole(d)
<1> DEFINE d == Append(c, p)
           n == Len(c)
           P == FirstOf(c)
           Q == FirstOf(d)
           b == Before(d, n + 1)
<1>1. /\ n \in Nat /\ Len(d) = n + 1 /\ d[n + 1] = p /\ \A i \in 1 .. n : d[i] = c[i]
  BY Longer
<1>2. \A i \in 1 .. n : Q[i] = P[i] /\ P[i] \in 1 .. i
  <2>1. \A i \in 0 .. n : Q[i] = P[i]
    BY FirstGrows
  <2>2. \A i \in 1 .. n : P[i] \in 1 .. i
    BY FirstBound
  <2> QED
    BY <1>1, <2>1, <2>2
<1>3. /\ Live(d) = (Live(c) \ {b}) \cup {i \in {n + 1} : ~ Ends(d, Q[i], i)}
      /\ \A i \in Live(c) : i = b <=> FlowKey(c[i]) = FlowKey(p)
  BY LiveGrows
<1>4. Q[n + 1] = n + 1
  OBVIOUS
<1>5. Live(c) \subseteq 1 .. n
  BY DEF Live
<1> HIDE DEF d, n, P, Q, b
<1>6. \A s : \A m : m \in Run(d, s) <=> m \in 1 .. n + 1 /\ Q[m] = s
  BY <1>1, RunHas DEF Q
<1>7. \A s : \A m : m \in Run(c, s) <=> m \in 1 .. n /\ P[m] = s
  BY RunHas DEF P, n
<1>8. ASSUME NEW s \in 1 .. n PROVE Run(d, s) = Run(c, s)
  <2>1. ASSUME NEW m PROVE m \in Run(d, s) <=> m \in Run(c, s)
    <3>1. m \in 1 .. n + 1 <=> m \in 1 .. n \/ m = n + 1
      BY <1>1
    <3>2. n + 1 # s /\ n + 1 \notin 1 .. n
      BY <1>1
    <3> QED
      BY <1>2, <1>4, <1>6, <1>7, <3>1, <3>2
  <2> QED
    BY <2>1
<1>9. Run(d, n + 1) = {n + 1}
  <2>1. ASSUME NEW m PROVE m \in Run(d, n + 1) <=> m = n + 1
    <3>1. m \in 1 .. n + 1 <=> m \in 1 .. n \/ m = n + 1
      BY <1>1
    <3>2. \A i \in 1 .. n : Q[i] # n + 1
      BY <1>1, <1>2
    <3> QED
      BY <1>4, <1>6, <3>1, <3>2
  <2> QED
    BY <2>1
<1>10. \A i \in 1 .. n : Joined(d, i) = Joined(c, i)
  <2> SUFFICES ASSUME NEW i \in 1 .. n PROVE Joined(d, i) = Joined(c, i)
    OBVIOUS
  <2>1. Q[i] = P[i] /\ P[i] \in 1 .. n
    BY <1>1, <1>2
  <2> QED
    BY <1>8, <2>1 DEF Joined, P, Q
<1>11. Joined(d, n + 1) = {n + 1}
  BY <1>4, <1>9 DEF Joined, Q
<1>12. Runs(d) = Runs(c) \cup {{n + 1}}
  <2>1. Runs(d) = {Joined(d, i) : i \in 1 .. n + 1} /\ Runs(c) = {Joined(c, i) : i \in 1 .. n}
    BY <1>1 DEF Runs, Joined, n
  <2>2. \A i : i \in 1 .. n + 1 <=> i \in 1 .. n \/ i = n + 1
    BY <1>1
  <2> QED
    BY <1>10, <1>11, <2>1, <2>2
<1>13. n + 1 \in Live(d)
  <2>1. ~ Ends(d, n + 1, n + 1)
    BY DEF Ends
  <2> QED
    BY <1>3, <1>4, <2>1
<1>14. Whole(d)
  <2> SUFFICES ASSUME NEW i \in Live(d) PROVE Joined(d, i) = Onwards(d, Q[i], i)
    BY DEF Whole, Q
  <2>1. CASE i = n + 1
    <3>1. Onwards(d, n + 1, n + 1) = {n + 1}
      <4>1. \A m : m \in n + 1 .. Len(d) <=> m = n + 1
        BY <1>1
      <4> QED
        BY <4>1 DEF Onwards
    <3> QED
      BY <1>4, <1>11, <2>1, <3>1
  <2>2. CASE i # n + 1
    <3>1. i \in Live(c) /\ i \in 1 .. n /\ FlowKey(c[i]) # FlowKey(p)
      BY <1>3, <1>5, <2>2
    <3>2. Joined(c, i) = Onwards(c, P[i], i)
      BY <3>1 DEF Whole, P
    <3>3. ASSUME NEW m PROVE m \in Onwards(d, P[i], i) <=> m \in Onwards(c, P[i], i)
      <4>1. m \in P[i] .. n + 1 <=> m \in P[i] .. n \/ m = n + 1
        BY <1>1, <1>2, <3>1
      <4>2. d[i] = c[i] /\ d[n + 1] = p /\ (m \in P[i] .. n => d[m] = c[m])
        BY <1>1, <1>2, <3>1
      <4> QED
        BY <1>1, <3>1, <4>1, <4>2 DEF Onwards, n
    <3>4. Onwards(d, P[i], i) = Onwards(c, P[i], i)
      <4>1. \A x, s, j, m : m \in Onwards(x, s, j) => m \in s .. Len(x)
        BY DEF Onwards
      <4> QED
        BY <3>3
    <3> QED
      BY <1>2, <1>10, <3>1, <3>2, <3>4
  <2> QED
    BY <2>1, <2>2
<1> QED
  BY <1>10, <1>11, <1>12, <1>13, <1>14 DEF d, n

\* The new packet joins the flow of the last packet of its connection.
LEMMA JoinsRun ==
  ASSUME NEW c \in Captures, NEW p \in Packets, Whole(c), NEW b \in Live(c),
         b = Before(Append(c, p), Len(c) + 1),
         FirstOf(Append(c, p))[Len(c) + 1] = FirstOf(c)[b]
  PROVE  LET d == Append(c, p)
             n == Len(c)
         IN /\ \A i \in 1 .. n : FirstOf(c)[i] # FirstOf(c)[b] => Joined(d, i) = Joined(c, i)
            /\ \A i \in Live(c) \ {b} : FirstOf(c)[i] # FirstOf(c)[b]
            /\ Joined(d, n + 1) = Joined(c, b) \cup {n + 1}
            /\ Joined(d, n + 1) = Onwards(d, FirstOf(c)[b], n + 1)
            /\ Runs(d) = (Runs(c) \ {Joined(c, b)}) \cup {Joined(d, n + 1)}
            /\ Whole(d)
<1> DEFINE d == Append(c, p)
           n == Len(c)
           P == FirstOf(c)
           Q == FirstOf(d)
           s == P[b]
<1>1. /\ n \in Nat /\ Len(d) = n + 1 /\ d[n + 1] = p /\ \A i \in 1 .. n : d[i] = c[i]
  BY Longer
<1>2. \A i \in 1 .. n : Q[i] = P[i] /\ P[i] \in 1 .. i
  <2>1. \A i \in 0 .. n : Q[i] = P[i]
    BY FirstGrows
  <2>2. \A i \in 1 .. n : P[i] \in 1 .. i
    BY FirstBound
  <2> QED
    BY <1>1, <2>1, <2>2
<1>3. /\ Live(d) = (Live(c) \ {b}) \cup {i \in {n + 1} : ~ Ends(d, Q[i], i)}
      /\ \A i \in Live(c) : i = b <=> FlowKey(c[i]) = FlowKey(p)
  BY LiveGrows
<1>4. Q[n + 1] = s
  OBVIOUS
<1>5. Live(c) \subseteq 1 .. n /\ b \in Live(c)
  BY DEF Live
<1>6. Joined(c, b) = Run(c, s) /\ Joined(c, b) = Onwards(c, s, b)
  BY DEF Joined, Whole
<1> HIDE DEF d, n, P, Q, s
<1>7. \A t : \A m : m \in Run(d, t) <=> m \in 1 .. n + 1 /\ Q[m] = t
  BY <1>1, RunHas DEF Q
<1>8. \A t : \A m : m \in Run(c, t) <=> m \in 1 .. n /\ P[m] = t
  BY RunHas DEF P, n
<1>9. b \in 1 .. n /\ s \in 1 .. b /\ FlowKey(c[b]) = FlowKey(p)
  BY <1>2, <1>3, <1>5 DEF s
<1>10. ASSUME NEW t \in 1 .. n, t # s PROVE Run(d, t) = Run(c, t)
  <2>1. ASSUME NEW m PROVE m \in Run(d, t) <=> m \in Run(c, t)
    <3>1. m \in 1 .. n + 1 <=> m \in 1 .. n \/ m = n + 1
      BY <1>1
    <3>2. n + 1 \notin 1 .. n
      BY <1>1
    <3> QED
      BY <1>2, <1>4, <1>7, <1>8, <1>10, <3>1, <3>2
  <2> QED
    BY <2>1
<1>11. Run(d, s) = Run(c, s) \cup {n + 1}
  <2>1. ASSUME NEW m PROVE m \in Run(d, s) <=> m \in Run(c, s) \/ m = n + 1
    <3>1. m \in 1 .. n + 1 <=> m \in 1 .. n \/ m = n + 1
      BY <1>1
    <3> QED
      BY <1>2, <1>4, <1>7, <1>8, <3>1
  <2> QED
    BY <2>1
<1>12. ASSUME NEW i \in 1 .. n, P[i] # s PROVE Joined(d, i) = Joined(c, i)
  <2>1. Q[i] = P[i] /\ P[i] \in 1 .. n
    BY <1>1, <1>2
  <2> QED
    BY <1>10, <1>12, <2>1 DEF Joined, P, Q
<1>13. Joined(d, n + 1) = Joined(c, b) \cup {n + 1}
  BY <1>4, <1>6, <1>11 DEF Joined, Q
<1>14. ASSUME NEW i \in Live(c) \ {b} PROVE P[i] # s
  <2>1. i \in 1 .. n /\ FlowKey(c[i]) # FlowKey(p)
    BY <1>3, <1>5
  <2>2. P[i] = s => i \in Run(c, s)
    BY <1>8, <2>1
  <2>3. i \in Run(c, s) => FlowKey(c[i]) = FlowKey(c[b])
    BY <1>6 DEF Onwards
  <2> QED
    BY <1>9, <2>1, <2>2, <2>3
<1>15. Onwards(d, s, n + 1) = Onwards(c, s, b) \cup {n + 1}
  <2>1. ASSUME NEW m PROVE m \in Onwards(d, s, n + 1) <=> m \in Onwards(c, s, b) \/ m = n + 1
    <3>1. m \in s .. n + 1 <=> m \in s .. n \/ m = n + 1
      BY <1>1, <1>9
    <3>2. m \in s .. n => d[m] = c[m]
      BY <1>1, <1>9
    <3> QED
      BY <1>1, <1>9, <3>1, <3>2 DEF Onwards, n
  <2> QED
    BY <2>1
<1>16. Joined(d, n + 1) = Onwards(d, s, n + 1)
  BY <1>6, <1>13, <1>15
<1>17. Runs(d) = (Runs(c) \ {Joined(c, b)}) \cup {Joined(d, n + 1)}
  <2>1. Runs(d) = {Joined(d, i) : i \in 1 .. n + 1} /\ Runs(c) = {Joined(c, i) : i \in 1 .. n}
    BY <1>1 DEF Runs, Joined, n
  <2>2. \A i : i \in 1 .. n + 1 <=> i \in 1 .. n \/ i = n + 1
    BY <1>1
  <2>3. ASSUME NEW i \in 1 .. n PROVE i \in Joined(c, i)
    BY <1>8 DEF Joined, P
  <2>4. ASSUME NEW i \in 1 .. n, P[i] # s PROVE Joined(c, i) # Joined(c, b)
    <3>1. i \notin Joined(c, b)
      <4>1. i \in Run(c, s) => P[i] = s
        BY <1>8
      <4> QED
        BY <1>6, <2>4, <4>1
    <3> QED
      BY <2>3, <3>1
  <2>5. ASSUME NEW i \in 1 .. n, P[i] = s
        PROVE  Joined(c, i) = Joined(c, b) /\ Joined(d, i) = Joined(d, n + 1)
    BY <1>2, <1>4, <2>5 DEF Joined, P, Q, s
  <2>6. ASSUME NEW R PROVE R \in Runs(d) => R \in (Runs(c) \ {Joined(c, b)}) \cup {Joined(d, n + 1)}
    BY <1>12, <2>1, <2>2, <2>4, <2>5
  <2>7. ASSUME NEW R \in Runs(c), R # Joined(c, b) PROVE R \in Runs(d)
    <3>1. PICK i \in 1 .. n : R = Joined(c, i)
      BY <2>1
    <3>2. P[i] # s
      BY <2>5, <2>7, <3>1
    <3> QED
      BY <1>12, <2>1, <2>2, <3>1, <3>2
  <2>8. Joined(d, n + 1) \in Runs(d)
    BY <2>1, <2>2
  <2> QED
    BY <2>6, <2>7, <2>8
<1>18. Whole(d)
  <2> SUFFICES ASSUME NEW i \in Live(d) PROVE Joined(d, i) = Onwards(d, Q[i], i)
    BY DEF Whole, Q
  <2>1. CASE i = n + 1
    BY <1>4, <1>16, <2>1
  <2>2. CASE i # n + 1
    <3>1. i \in Live(c) \ {b} /\ i \in 1 .. n /\ FlowKey(c[i]) # FlowKey(p)
      BY <1>3, <1>5, <2>2
    <3>2. Joined(c, i) = Onwards(c, P[i], i)
      BY <3>1 DEF Whole, P
    <3>3. ASSUME NEW m PROVE m \in Onwards(d, P[i], i) <=> m \in Onwards(c, P[i], i)
      <4>1. m \in P[i] .. n + 1 <=> m \in P[i] .. n \/ m = n + 1
        BY <1>1, <1>2, <3>1
      <4>2. d[i] = c[i] /\ d[n + 1] = p /\ (m \in P[i] .. n => d[m] = c[m])
        BY <1>1, <1>2, <3>1
      <4> QED
        BY <1>1, <3>1, <4>1, <4>2 DEF Onwards, n
    <3>4. Onwards(d, P[i], i) = Onwards(c, P[i], i)
      <4>1. \A x, t, j, m : m \in Onwards(x, t, j) => m \in t .. Len(x)
        BY DEF Onwards
      <4> QED
        BY <3>3
    <3>5. Q[i] = P[i] /\ P[i] # s
      BY <1>2, <1>14, <3>1
    <3> QED
      BY <1>12, <3>1, <3>2, <3>4, <3>5
  <2> QED
    BY <2>1, <2>2
<1> QED
  BY <1>12, <1>13, <1>14, <1>16, <1>17, <1>18 DEF d, n, P, s

\* Whether the packet that joins ends its flow can be read off the flow's packets.
LEMMA EndsFlow ==
  ASSUME NEW d, NEW s \in Nat, NEW j \in Nat, s < j, j = Len(d), NEW R, R = Onwards(d, s, j)
  PROVE  Ends(d, s, j) <=>
           \/ "RST" \in d[j].flags
           \/ /\ \E m \in R : "FIN" \in d[m].flags /\ Along(d, s, m)
              /\ \E m \in R : "FIN" \in d[m].flags /\ ~ Along(d, s, m)
<1> DEFINE fins == {m \in s .. j : FlowKey(d[m]) = FlowKey(d[j]) /\ "FIN" \in d[m].flags}
<1>1. \A m : m \in fins <=> m \in R /\ "FIN" \in d[m].flags
  BY DEF Onwards
<1>2. Ends(d, s, j) <=>
        /\ j # s
        /\ \/ "RST" \in d[j].flags
           \/ (\E m \in fins : Along(d, s, m)) /\ (\E m \in fins : ~ Along(d, s, m))
  BY DEF Ends
<1> HIDE DEF fins
<1>3. j # s
  OBVIOUS
<1> QED
  BY <1>1, <1>2, <1>3

-----------------------------------------------------------------------------
(* A flow of FlowGenerator.flows and its packets.                          *)

\* The capture with the number of each packet.
Numbered(c) == \A i \in 1 .. Len(c) : c[i].id = i

\* A direction of a flow has the packets M of the capture.
Has(seq, c, M) == Range(seq) = {c[m] : m \in M}

\* The flow that packet i has joined as the last one so far.
FlowOf(f, c, i) ==
  /\ f \in FlowRecords
  /\ f.first = c[FirstOf(c)[i]] /\ f.last = c[i].ts
  /\ Has(f.forward, c, {m \in Joined(c, i) : Along(c, FirstOf(c)[i], m)})
  /\ Has(f.backward, c, {m \in Joined(c, i) : ~ Along(c, FirstOf(c)[i], m)})
  /\ Len(f.forward) + Len(f.backward) = Cardinality(Joined(c, i))

\* The packets of a direction with one packet more, and of one without packets.
LEMMA RangeAppend ==
  ASSUME NEW S, NEW seq \in Seq(S), NEW p \in S
  PROVE  Range(Append(seq, p)) = Range(seq) \cup {p} /\ Len(Append(seq, p)) = Len(seq) + 1
<1>1. /\ DOMAIN Append(seq, p) = 1 .. Len(seq) + 1 /\ DOMAIN seq = 1 .. Len(seq) /\ Len(seq) \in Nat
      /\ Append(seq, p)[Len(seq) + 1] = p
      /\ \A i \in 1 .. Len(seq) : Append(seq, p)[i] = seq[i]
  OBVIOUS
<1> DEFINE more == Append(seq, p)
<1> HIDE DEF more
<1>2. ASSUME NEW x PROVE x \in Range(more) <=> x \in Range(seq) \/ x = p
  <2>1. x \in Range(more) <=> \E i \in 1 .. Len(seq) + 1 : more[i] = x
    BY <1>1 DEF Range, more
  <2>2. x \in Range(seq) <=> \E i \in 1 .. Len(seq) : seq[i] = x
    BY <1>1 DEF Range
  <2>3. \A i : i \in 1 .. Len(seq) + 1 <=> i \in 1 .. Len(seq) \/ i = Len(seq) + 1
    BY <1>1
  <2> QED
    BY <1>1, <2>1, <2>2, <2>3 DEF more
<1>3. Range(more) = Range(seq) \cup {p}
  BY <1>2
<1> QED
  BY <1>3 DEF more

\* A direction without packets.
LEMMA RangeEmpty == Range(<< >>) = {}
BY DEF Range

\* Packets of a flow are finitely many.
LEMMA JoinedFinite ==
  ASSUME NEW c \in Captures, NEW i
  PROVE  /\ Joined(c, i) \subseteq 1 .. Len(c) /\ IsFiniteSet(Joined(c, i))
         /\ Cardinality(Joined(c, i)) \in Nat
<1>1. Len(c) \in Nat
  BY DEF Captures
<1>2. Joined(c, i) \subseteq 1 .. Len(c)
  BY DEF Joined, Run
<1>3. IsFiniteSet(1 .. Len(c))
  BY <1>1, FS_Interval
<1>4. IsFiniteSet(Joined(c, i))
  BY <1>2, <1>3, FS_Subset
<1> QED
  BY <1>2, <1>4, FS_CardinalityType

\* Members of an open flow.
LEMMA MembersOf ==
  ASSUME NEW c \in Captures, Numbered(c), NEW i, NEW f, FlowOf(f, c, i)
  PROVE  Members(f) = Joined(c, i)
<1> DEFINE R == Joined(c, i)
           s == FirstOf(c)[i]
<1>1. /\ Range(f.forward) = {c[m] : m \in {x \in R : Along(c, s, x)}}
      /\ Range(f.backward) = {c[m] : m \in {x \in R : ~ Along(c, s, x)}}
  BY DEF FlowOf, Has
<1>2. \A m \in R : c[m].id = m
  BY JoinedFinite DEF Numbered
<1>3. Members(f) = {q.id : q \in Range(f.forward) \cup Range(f.backward)}
  BY DEF Members
<1> HIDE DEF R, s
<1>4. Range(f.forward) \cup Range(f.backward) = {c[m] : m \in R}
  BY <1>1
<1>5. Members(f) = {q.id : q \in {c[m] : m \in R}}
  BY <1>3, <1>4
<1>6. \A m : m \in Members(f) <=> \E x \in R : m = c[x].id
  BY <1>5
<1>7. Members(f) = R
  BY <1>2, <1>6
<1> QED
  BY <1>7 DEF R

\* The packets of an open flow before the new packet are what they were.
LEMMA FlowStays ==
  ASSUME NEW c \in Captures, NEW p \in Packets, NEW i \in 1 .. Len(c), NEW f, FlowOf(f, c, i),
         Joined(Append(c, p), i) = Joined(c, i)
  PROVE  FlowOf(f, Append(c, p), i)
<1> DEFINE d == Append(c, p)
           R == Joined(c, i)
           s == FirstOf(c)[i]
<1>1. Len(c) \in Nat /\ \A k \in 1 .. Len(c) : d[k] = c[k]
  BY Longer
<1>2. FirstOf(d)[i] = s /\ s \in 1 .. Len(c)
  <2>1. \A k \in 0 .. Len(c) : FirstOf(d)[k] = FirstOf(c)[k]
    BY FirstGrows
  <2>2. s \in 1 .. i
    BY FirstBound
  <2> QED
    BY <1>1, <2>1, <2>2
<1>3. R \subseteq 1 .. Len(c) /\ Joined(d, i) = R
  BY JoinedFinite
<1> HIDE DEF d, R, s
<1>4. \A m \in R : d[m] = c[m] /\ (Along(d, s, m) <=> Along(c, s, m))
  BY <1>1, <1>2, <1>3 DEF Along
<1>5. /\ {d[m] : m \in {x \in R : Along(d, s, x)}} = {c[m] : m \in {x \in R : Along(c, s, x)}}
      /\ {d[m] : m \in {x \in R : ~ Along(d, s, x)}} = {c[m] : m \in {x \in R : ~ Along(c, s, x)}}
  <2>1. /\ {x \in R : Along(d, s, x)} = {x \in R : Along(c, s, x)}
        /\ {x \in R : ~ Along(d, s, x)} = {x \in R : ~ Along(c, s, x)}
    BY <1>4
  <2>2. \A M \in SUBSET R : {d[m] : m \in M} = {c[m] : m \in M}
    BY <1>4
  <2>3. {x \in R : Along(c, s, x)} \in SUBSET R /\ {x \in R : ~ Along(c, s, x)} \in SUBSET R
    OBVIOUS
  <2> QED
    BY <2>1, <2>2, <2>3
<1>6. d[s] = c[s] /\ d[i] = c[i]
  BY <1>1, <1>2
<1>7. /\ f \in FlowRecords /\ f.first = c[s] /\ f.last = c[i].ts
      /\ Range(f.forward) = {c[m] : m \in {x \in R : Along(c, s, x)}}
      /\ Range(f.backward) = {c[m] : m \in {x \in R : ~ Along(c, s, x)}}
      /\ Len(f.forward) + Len(f.backward) = Cardinality(R)
  BY DEF FlowOf, Has, R, s
<1>8. FlowOf(f, d, i)
  BY <1>2, <1>3, <1>5, <1>6, <1>7 DEF FlowOf, Has
<1> QED
  BY <1>8 DEF d

\* What FlowAdd does to the packets of a flow.
LEMMA AddPackets ==
  ASSUME NEW f \in FlowRecords, NEW p \in Packets
  PROVE  LET g == FlowAdd(f, p)
         IN /\ g \in FlowRecords /\ g.first = f.first /\ g.last = p.ts
            /\ IF IsForward(f, p)
               THEN g.forward = Append(f.forward, p) /\ g.backward = f.backward
               ELSE g.backward = Append(f.backward, p) /\ g.forward = f.forward
<1> DEFINE t == Timed(f, p)
           g == Directed(t, p)
<1>1. t \in FlowRecords /\ SamePackets(f, t) /\ t.last = p.ts
  BY FirstGap, LaterGap
<1>2. FlowAdd(f, p) = g
  BY AddIs
<1> HIDE DEF t
<1>3. /\ g \in FlowRecords /\ SameTimes(t, g)
      /\ IF IsForward(t, p)
         THEN g.forward = Append(t.forward, p) /\ g.backward = t.backward
         ELSE g.backward = Append(t.backward, p) /\ g.forward = t.forward
  BY <1>1, DirectedIs
<1> HIDE DEF g
<1>4. IsForward(t, p) <=> IsForward(f, p)
  BY <1>1 DEF IsForward, SamePackets
<1> QED
  BY <1>1, <1>2, <1>3, <1>4 DEF SamePackets, SameTimes

\* The packets of a direction, with the new one.
LEMMA DirectionGrows ==
  ASSUME NEW c \in Captures, NEW p \in Packets, NEW M \in SUBSET (1 .. Len(c)),
         NEW seq \in Seq(Packets), Has(seq, c, M)
  PROVE  /\ Has(seq, Append(c, p), M)
         /\ Has(Append(seq, p), Append(c, p), M \cup {Len(c) + 1})
<1> DEFINE d == Append(c, p)
           n == Len(c)
<1>1. n \in Nat /\ d[n + 1] = p /\ \A k \in 1 .. n : d[k] = c[k]
  BY Longer
<1>2. Range(seq) = {c[m] : m \in M} /\ Range(Append(seq, p)) = Range(seq) \cup {p}
  BY RangeAppend DEF Has
<1> HIDE DEF d, n
<1>3. {d[m] : m \in M} = {c[m] : m \in M}
  BY <1>1 DEF n
<1>4. {d[m] : m \in M \cup {n + 1}} = {d[m] : m \in M} \cup {p}
  BY <1>1
<1>5. Has(seq, d, M) /\ Has(Append(seq, p), d, M \cup {n + 1})
  BY <1>2, <1>3, <1>4 DEF Has
<1> QED
  BY <1>5 DEF d, n

\* A packet that joins an open flow.
LEMMA AddJoins ==
  ASSUME NEW c \in Captures, NEW p \in Packets, NEW b \in 1 .. Len(c), NEW f, FlowOf(f, c, b),
         FirstOf(Append(c, p))[Len(c) + 1] = FirstOf(c)[b],
         Joined(Append(c, p), Len(c) + 1) = Joined(c, b) \cup {Len(c) + 1}
  PROVE  FlowOf(FlowAdd(f, p), Append(c, p), Len(c) + 1)
<1> DEFINE d == Append(c, p)
           n == Len(c)
           R == Joined(c, b)
           s == FirstOf(c)[b]
           g == FlowAdd(f, p)
           along == {m \in R : Along(c, s, m)}
           against == {m \in R : ~ Along(c, s, m)}
<1>1. n \in Nat /\ d[n + 1] = p /\ \A k \in 1 .. n : d[k] = c[k]
  BY Longer
<1>2. s \in 1 .. n
  <2>1. s \in 1 .. b
    BY FirstBound
  <2> QED
    BY <1>1, <2>1
<1>3. R \subseteq 1 .. n /\ IsFiniteSet(R) /\ Cardinality(R) \in Nat
  BY JoinedFinite
<1>4. /\ f \in FlowRecords /\ f.first = c[s]
      /\ Has(f.forward, c, along) /\ Has(f.backward, c, against)
      /\ Len(f.forward) + Len(f.backward) = Cardinality(R)
  BY DEF FlowOf
<1>5. /\ g \in FlowRecords /\ g.first = f.first /\ g.last = p.ts
      /\ IF IsForward(f, p)
         THEN g.forward = Append(f.forward, p) /\ g.backward = f.backward
         ELSE g.backward = Append(f.backward, p) /\ g.forward = f.forward
  BY <1>4, AddPackets
<1>6. f.forward \in Seq(Packets) /\ f.backward \in Seq(Packets)
  BY <1>4 DEF FlowRecords
<1>7. /\ Has(f.forward, d, along) /\ Has(Append(f.forward, p), d, along \cup {n + 1})
      /\ Has(f.backward, d, against) /\ Has(Append(f.backward, p), d, against \cup {n + 1})
  <2>1. along \in SUBSET (1 .. Len(c)) /\ against \in SUBSET (1 .. Len(c))
    BY <1>3
  <2> HIDE DEF along, against
  <2> QED
    BY <1>4, <1>6, <2>1, DirectionGrows
<1>8. FirstOf(d)[n + 1] = s /\ Joined(d, n + 1) = R \cup {n + 1}
  OBVIOUS
<1>9. Cardinality(R \cup {n + 1}) = Cardinality(R) + 1
  <2>1. n + 1 \notin R
    BY <1>1, <1>3
  <2> HIDE DEF R, n
  <2> QED
    BY <1>3, <2>1, FS_AddElement
<1>10. Len(g.forward) + Len(g.backward) = Cardinality(R) + 1
  <2> DEFINE i == Len(f.forward)
             j == Len(f.backward)
             x == Len(g.forward)
             y == Len(g.backward)
  <2>1. i \in Nat /\ j \in Nat /\ i + j = Cardinality(R)
    <3>1. i \in Nat /\ j \in Nat
      BY <1>6
    <3>2. i + j = Cardinality(R)
      BY DEF FlowOf
    <3> QED
      BY <3>1, <3>2
  <2>2. (x = i + 1 /\ y = j) \/ (x = i /\ y = j + 1)
    <3>1. Len(Append(f.forward, p)) = i + 1 /\ Len(Append(f.backward, p)) = j + 1
      BY <1>6
    <3> QED
      BY <1>5, <3>1
  <2> HIDE DEF i, j, x, y, R
  <2>3. x + y = Cardinality(R) + 1
    BY <2>1, <2>2
  <2> QED
    BY <2>3 DEF x, y
<1> HIDE DEF d, n, R, s, g
<1>11. Along(d, s, n + 1) <=> IsForward(f, p)
  <2>1. d[s] = c[s]
    BY <1>1, <1>2
  <2> QED
    BY <1>1, <1>4, <2>1 DEF Along, IsForward
<1>12. \A m \in R : Along(d, s, m) <=> Along(c, s, m)
  BY <1>1, <1>2, <1>3 DEF Along
<1> DEFINE Fwd == {m \in R \cup {n + 1} : Along(d, s, m)}
           Bwd == {m \in R \cup {n + 1} : ~ Along(d, s, m)}
<1>13. Has(g.forward, d, Fwd) /\ Has(g.backward, d, Bwd)
  <2>1. CASE IsForward(f, p)
    <3>1. Fwd = along \cup {n + 1} /\ Bwd = against
      <4>1. n + 1 \notin R
        BY <1>1, <1>3
      <4> QED
        BY <1>11, <1>12, <2>1, <4>1
    <3> HIDE DEF Fwd, Bwd, along, against
    <3> QED
      BY <1>5, <1>7, <2>1, <3>1
  <2>2. CASE ~ IsForward(f, p)
    <3>1. Fwd = along /\ Bwd = against \cup {n + 1}
      <4>1. n + 1 \notin R
        BY <1>1, <1>3
      <4> QED
        BY <1>11, <1>12, <2>2, <4>1
    <3> HIDE DEF Fwd, Bwd, along, against
    <3> QED
      BY <1>5, <1>7, <2>2, <3>1
  <2> QED
    BY <2>1, <2>2
<1>14. g.first = d[s]
  BY <1>1, <1>2, <1>4, <1>5
<1>15. FlowOf(g, d, n + 1)
  BY <1>1, <1>5, <1>8, <1>9, <1>10, <1>13, <1>14 DEF FlowOf
<1> QED
  BY <1>15 DEF d, n, g

\* A packet that begins a flow.
LEMMA AddNew ==
  ASSUME NEW c \in Captures, NEW p \in Packets,
         FirstOf(Append(c, p))[Len(c) + 1] = Len(c) + 1,
         Joined(Append(c, p), Len(c) + 1) = {Len(c) + 1}
  PROVE  FlowOf(FlowAdd(EmptyFlow(p), p), Append(c, p), Len(c) + 1)
<1> DEFINE d == Append(c, p)
           n == Len(c)
           f == EmptyFlow(p)
           g == FlowAdd(f, p)
<1>1. d[n + 1] = p
  BY Longer
<1>2. f \in FlowRecords /\ f.forward = << >> /\ f.backward = << >> /\ f.first = p
  <2>1. f.first = p
    BY DEF EmptyFlow
  <2> QED
    BY <2>1, EmptyFlowIs DEF Fresh
<1> HIDE DEF f
<1>3. IsForward(f, p)
  BY <1>2 DEF IsForward
<1>4. /\ g \in FlowRecords /\ g.first = p /\ g.last = p.ts
      /\ g.forward = Append(<< >>, p) /\ g.backward = << >>
  BY <1>2, <1>3, AddPackets
<1> HIDE DEF g
<1>5. /\ Range(g.forward) = {p} /\ Range(g.backward) = {} /\ Len(g.forward) + Len(g.backward) = 1
  <2> DEFINE e == << >>
  <2>1. e \in Seq(Packets) /\ Len(e) = 0 /\ Range(e) = {}
    BY RangeEmpty
  <2>2. g.forward = Append(e, p) /\ g.backward = e
    BY <1>4
  <2> HIDE DEF e, g
  <2>3. Range(Append(e, p)) = Range(e) \cup {p} /\ Len(Append(e, p)) = Len(e) + 1
    <3>1. p \in Packets
      OBVIOUS
    <3> QED
      BY ONLY <2>1, <3>1, RangeAppend
  <2>4. Range(g.forward) = {p} /\ Range(g.backward) = {}
    BY <2>1, <2>2, <2>3
  <2>5. Len(g.forward) = 1 /\ Len(g.backward) = 0
    BY <2>1, <2>2, <2>3
  <2> QED
    BY <2>4, <2>5
<1>6. FirstOf(d)[n + 1] = n + 1 /\ Joined(d, n + 1) = {n + 1}
  OBVIOUS
<1> HIDE DEF d, n
<1>7. Along(d, n + 1, n + 1)
  BY DEF Along
<1>8. /\ {m \in {n + 1} : Along(d, n + 1, m)} = {n + 1}
      /\ {m \in {n + 1} : ~ Along(d, n + 1, m)} = {}
  BY <1>7
<1>9. {d[m] : m \in {n + 1}} = {p} /\ {d[m] : m \in {}} = {}
  BY <1>1
<1>10. Has(g.forward, d, {n + 1}) /\ Has(g.backward, d, {})
  BY <1>5, <1>9 DEF Has
<1>11. Cardinality({n + 1}) = 1
  BY FS_Singleton
<1>12. FlowOf(g, d, n + 1)
  <2> DEFINE R == Joined(d, n + 1)
             s == FirstOf(d)[n + 1]
  <2>1. /\ Has(g.forward, d, {m \in R : Along(d, s, m)})
        /\ Has(g.backward, d, {m \in R : ~ Along(d, s, m)})
    <3>1. {m \in R : Along(d, s, m)} = {n + 1} /\ {m \in R : ~ Along(d, s, m)} = {}
      BY <1>6, <1>8
    <3> HIDE DEF R, s
    <3> QED
      BY <1>10, <3>1
  <2>2. g.first = d[s] /\ g.last = d[n + 1].ts
    BY <1>1, <1>4, <1>6
  <2>3. Len(g.forward) + Len(g.backward) = Cardinality(R)
    BY <1>5, <1>6, <1>11
  <2> QED
    BY <1>4, <2>1, <2>2, <2>3 DEF FlowOf
<1> QED
  BY <1>12 DEF d, n, g, f

\* A FIN of each side.
LEMMA FinsOf ==
  ASSUME NEW c, NEW i, NEW f, FlowOf(f, c, i)
  PROVE  HasBothFin(f) <=>
           /\ \E m \in Joined(c, i) : "FIN" \in c[m].flags /\ Along(c, FirstOf(c)[i], m)
           /\ \E m \in Joined(c, i) : "FIN" \in c[m].flags /\ ~ Along(c, FirstOf(c)[i], m)
<1>1. /\ Range(f.forward) = {c[m] : m \in {x \in Joined(c, i) : Along(c, FirstOf(c)[i], x)}}
      /\ Range(f.backward) = {c[m] : m \in {x \in Joined(c, i) : ~ Along(c, FirstOf(c)[i], x)}}
  BY DEF FlowOf, Has
<1>2. \A seq : HasFin(seq) <=> \E q \in Range(seq) : "FIN" \in q.flags
  BY DEF HasFin, Range
<1> DEFINE R == Joined(c, i)
           A(m) == Along(c, FirstOf(c)[i], m)
<1> HIDE DEF R, A
<1>3. HasFin(f.forward) <=> \E m \in R : "FIN" \in c[m].flags /\ A(m)
  BY <1>1, <1>2 DEF R, A
<1>4. HasFin(f.backward) <=> \E m \in R : "FIN" \in c[m].flags /\ ~ A(m)
  BY <1>1, <1>2 DEF R, A
<1> QED
  BY <1>3, <1>4 DEF HasBothFin, R, A

-----------------------------------------------------------------------------
(* Rows and open flows, together.                                          *)

\* The flows that are over and are rows.
Over(c) == {run \in Runs(c) : Cardinality(run) > 1 /\ run \notin OpenRuns(c)}

\* The flow the next packet joins.
LEMMA WhereBegins ==
  ASSUME NEW c \in Captures, NEW p \in Packets, NEW b, b = Before(Append(c, p), Len(c) + 1)
  PROVE  FirstOf(Append(c, p))[Len(c) + 1] =
           IF b \in Live(c) /\ ~(p.ts - c[b].ts > FlowTimeout) THEN FirstOf(c)[b] ELSE Len(c) + 1
<1> DEFINE d == Append(c, p)
           n == Len(c)
           P == FirstOf(c)
           Q == FirstOf(d)
<1>1. d \in Captures /\ n \in Nat /\ Len(d) = n + 1 /\ d[n + 1] = p /\ \A i \in 1 .. n : d[i] = c[i]
  BY Longer
<1>2. \A i \in 0 .. n : Q[i] = P[i]
  BY FirstGrows
<1>3. Q[n + 1] = Begin(d, n + 1, Q[b])
  <2>1. Firsts(Q, d, Len(d))
    <3>1. Len(d) \in Nat
      BY <1>1
    <3> HIDE DEF d
    <3> QED
      BY <3>1, FirstSteps
  <2>2. n + 1 \in 1 .. Len(d)
    BY <1>1
  <2> QED
    BY <2>1, <2>2 DEF Firsts
<1>4. /\ b # 0 => b \in 1 .. n /\ FlowKey(c[b]) = FlowKey(p)
      /\ \A i \in 1 .. n : FlowKey(c[i]) = FlowKey(p) => i <= b
  BY LiveGrows
<1>5. b \in Live(c) <=> b # 0 /\ ~ Ends(c, P[b], b)
  <2>1. CASE b = 0
    <3>1. 0 \notin 1 .. n
      BY <1>1
    <3> QED
      BY <2>1, <3>1 DEF Live
  <2>2. CASE b # 0
    <3>1. b \in 1 .. n /\ FlowKey(c[b]) = FlowKey(p)
      BY <1>4, <2>2
    <3>2. \A j \in b + 1 .. n : FlowKey(c[j]) # FlowKey(c[b])
      <4>1. \A j \in b + 1 .. n : j \in 1 .. n /\ ~(j <= b)
        BY <1>1, <3>1
      <4> QED
        BY <1>4, <3>1, <4>1
    <3> QED
      BY <2>2, <3>1, <3>2 DEF Live
  <2> QED
    BY <2>1, <2>2
<1>6. b = 0 \/ b \in 1 .. n
  BY <1>4
<1>7. b # 0 => (Ends(d, P[b], b) <=> Ends(c, P[b], b))
  <2> SUFFICES ASSUME b # 0 PROVE Ends(d, P[b], b) <=> Ends(c, P[b], b)
    OBVIOUS
  <2>1. b \in 1 .. n
    BY <1>6
  <2>2. P[b] \in 1 .. b
    BY <2>1, FirstBound
  <2>3. P[b] \in 1 .. n
    BY <1>1, <2>1, <2>2
  <2> QED
    BY <2>1, <2>3, SameEnds
<1>8. Q[b] = P[b]
  BY <1>1, <1>2, <1>6
<1>9. Before(d, n + 1) = b
  OBVIOUS
<1> HIDE DEF d, n, P, Q
<1>10. Begins(d, n + 1, b, P[b]) <=>
         b = 0 \/ Ends(c, P[b], b) \/ p.ts - c[b].ts > FlowTimeout
  BY <1>1, <1>6, <1>7 DEF Begins
<1>11. Q[n + 1] = IF b \in Live(c) /\ ~(p.ts - c[b].ts > FlowTimeout) THEN P[b] ELSE n + 1
  BY <1>3, <1>5, <1>8, <1>9, <1>10 DEF Begin
<1> QED
  BY <1>11 DEF d, n, P, Q

\* Open flows share no packet, and differ.
LEMMA OpenDiffer ==
  ASSUME NEW c \in Captures, Whole(c), NEW i \in Live(c), NEW j \in Live(c),
         FlowKey(c[i]) = FlowKey(c[j]) \/ Joined(c, i) = Joined(c, j)
  PROVE  i = j
<1>1. /\ i \in 1 .. Len(c) /\ j \in 1 .. Len(c) /\ Len(c) \in Nat
      /\ \A m \in i + 1 .. Len(c) : FlowKey(c[m]) # FlowKey(c[i])
      /\ \A m \in j + 1 .. Len(c) : FlowKey(c[m]) # FlowKey(c[j])
  BY DEF Live, Captures
<1>2. FlowKey(c[i]) = FlowKey(c[j])
  <2> SUFFICES ASSUME Joined(c, i) = Joined(c, j) PROVE FlowKey(c[i]) = FlowKey(c[j])
    OBVIOUS
  <2>1. j \in Joined(c, j)
    BY <1>1 DEF Joined, Run
  <2>2. j \in Onwards(c, FirstOf(c)[i], i)
    BY <2>1 DEF Whole
  <2> QED
    BY <2>2 DEF Onwards
<1>3. ~(i < j) /\ ~(j < i)
  BY <1>1, <1>2
<1> QED
  BY <1>1, <1>3

\* A flow begins: the one before it of its connection is over.
LEMMA NewOver ==
  ASSUME NEW c \in Captures, NEW p \in Packets, Whole(c), NEW b,
         b = Before(Append(c, p), Len(c) + 1),
         FirstOf(Append(c, p))[Len(c) + 1] = Len(c) + 1
  PROVE  LET d == Append(c, p)
             n == Len(c)
         IN /\ Live(d) = (Live(c) \ {b}) \cup {n + 1}
            /\ Over(d) = Over(c) \cup
                 {run \in {Joined(c, i) : i \in Live(c) \cap {b}} : Cardinality(run) > 1}
<1> DEFINE d == Append(c, p)
           n == Len(c)
<1>1. n \in Nat
  BY Longer
<1>2. /\ \A i \in 1 .. n : Joined(d, i) = Joined(c, i)
      /\ Joined(d, n + 1) = {n + 1} /\ Runs(d) = Runs(c) \cup {{n + 1}}
      /\ n + 1 \in Live(d) /\ Whole(d)
  BY NewRun
<1>3. Live(d) = (Live(c) \ {b}) \cup {i \in {n + 1} : ~ Ends(d, FirstOf(d)[i], i)}
  BY LiveGrows
<1>4. Live(c) \subseteq 1 .. n /\ n + 1 \notin 1 .. n
  BY <1>1 DEF Live
<1>5. \A run \in Runs(c) : run \subseteq 1 .. n
  BY JoinedFinite DEF Runs, Joined
<1>6. \A i, j \in Live(c) : Joined(c, i) = Joined(c, j) => i = j
  BY OpenDiffer
<1>7. \A i \in 1 .. n : Joined(c, i) \in Runs(c)
  BY DEF Runs, Joined
<1> HIDE DEF d, n
<1>8. Live(d) = (Live(c) \ {b}) \cup {n + 1}
  BY <1>2, <1>3
<1>9. \A run : run \in OpenRuns(c) <=> \E i \in Live(c) : run = Joined(c, i)
  BY DEF OpenRuns
<1>10. \A run : run \in OpenRuns(d) <=>
         (\E i \in Live(c) \ {b} : run = Joined(c, i)) \/ run = {n + 1}
  <2>1. \A i \in Live(c) \ {b} : Joined(d, i) = Joined(c, i)
    BY <1>2, <1>4
  <2>2. \A run : run \in OpenRuns(d) <=> \E i \in Live(d) : run = Joined(d, i)
    BY DEF OpenRuns
  <2>3. \A run : run \in OpenRuns(d) <=>
          (\E i \in Live(c) \ {b} : run = Joined(d, i)) \/ run = Joined(d, n + 1)
    BY <1>8, <2>2
  <2>4. ASSUME NEW run
        PROVE  (\E i \in Live(c) \ {b} : run = Joined(d, i)) <=>
               (\E i \in Live(c) \ {b} : run = Joined(c, i))
    BY <2>1
  <2> QED
    BY <1>2, <2>3, <2>4
<1>11. Cardinality({n + 1}) = 1
  BY FS_Singleton
<1> DEFINE Closing == {run \in {Joined(c, i) : i \in Live(c) \cap {b}} : Cardinality(run) > 1}
<1>12. ASSUME NEW run PROVE run \in Over(d) <=> run \in Over(c) \/ run \in Closing
  <2>1. run \in Over(d) <=> run \in Runs(d) /\ Cardinality(run) > 1 /\ run \notin OpenRuns(d)
    BY DEF Over
  <2>2. run \in Over(c) <=> run \in Runs(c) /\ Cardinality(run) > 1 /\ run \notin OpenRuns(c)
    BY DEF Over
  <2>3. run \in Closing <=> b \in Live(c) /\ run = Joined(c, b) /\ Cardinality(run) > 1
    OBVIOUS
  <2>4. Cardinality(run) > 1 => run # {n + 1}
    <3>1. ~(Cardinality({n + 1}) > 1)
      BY <1>11
    <3> QED
      BY <3>1
  <2>5. CASE b \in Live(c) /\ run = Joined(c, b)
    <3>1. run \in Runs(c) /\ run \in OpenRuns(c)
      BY <1>4, <1>7, <1>9, <2>5
    <3>2. ~ \E i \in Live(c) \ {b} : run = Joined(c, i)
      BY <1>6, <2>5
    <3>3. run # {n + 1}
      BY <1>4, <1>5, <3>1
    <3>4. run \notin OpenRuns(d)
      BY <1>10, <3>2, <3>3
    <3> HIDE DEF Closing
    <3> QED
      BY <1>2, <2>1, <2>2, <2>3, <2>5, <3>1, <3>4
  <2>6. CASE ~(b \in Live(c) /\ run = Joined(c, b))
    <3> HIDE DEF Closing
    <3>1. run # {n + 1} => (run \in OpenRuns(d) <=> run \in OpenRuns(c))
      BY <1>9, <1>10, <2>6
    <3>2. run # {n + 1} => (run \in Runs(d) <=> run \in Runs(c))
      BY <1>2
    <3> QED
      BY <2>1, <2>2, <2>3, <2>4, <2>6, <3>1, <3>2
  <2> QED
    BY <2>5, <2>6
<1>13. Over(d) = Over(c) \cup Closing
  <2> HIDE DEF Closing
  <2> QED
    BY <1>12
<1> QED
  BY <1>8, <1>13 DEF d, n

\* A packet joins a flow: it is over exactly if the packet ends it.
LEMMA JoinOver ==
  ASSUME NEW c \in Captures, NEW p \in Packets, Whole(c), NEW b \in Live(c),
         b = Before(Append(c, p), Len(c) + 1),
         FirstOf(Append(c, p))[Len(c) + 1] = FirstOf(c)[b]
  PROVE  LET d == Append(c, p)
             n == Len(c)
             ends == Ends(d, FirstOf(c)[b], n + 1)
         IN /\ Live(d) = (Live(c) \ {b}) \cup {i \in {n + 1} : ~ ends}
            /\ Over(d) = Over(c) \cup {run \in {Joined(d, n + 1)} : ends}
            /\ Cardinality(Joined(d, n + 1)) > 1
<1> DEFINE d == Append(c, p)
           n == Len(c)
           R == Joined(c, b)
           R2 == Joined(d, n + 1)
           ends == Ends(d, FirstOf(c)[b], n + 1)
<1>1. n \in Nat
  BY Longer
<1>2. /\ \A i \in 1 .. n : FirstOf(c)[i] # FirstOf(c)[b] => Joined(d, i) = Joined(c, i)
      /\ \A i \in Live(c) \ {b} : FirstOf(c)[i] # FirstOf(c)[b]
      /\ R2 = R \cup {n + 1}
      /\ Runs(d) = (Runs(c) \ {R}) \cup {R2}
  BY JoinsRun
<1>3. Live(d) = (Live(c) \ {b}) \cup {i \in {n + 1} : ~ ends}
  <2>1. Live(d) = (Live(c) \ {b}) \cup {i \in {n + 1} : ~ Ends(d, FirstOf(d)[i], i)}
    BY LiveGrows
  <2>2. {i \in {n + 1} : ~ Ends(d, FirstOf(d)[i], i)} = {i \in {n + 1} : ~ ends}
    OBVIOUS
  <2> QED
    BY <2>1, <2>2
<1>4. Live(c) \subseteq 1 .. n /\ n + 1 \notin 1 .. n
  BY <1>1 DEF Live
<1>5. \A run \in Runs(c) : run \subseteq 1 .. n
  BY JoinedFinite DEF Runs, Joined
<1>6. \A i, j \in Live(c) : Joined(c, i) = Joined(c, j) => i = j
  BY OpenDiffer
<1>7. \A i \in 1 .. n : Joined(c, i) \in Runs(c)
  BY DEF Runs, Joined
<1>8. Cardinality(R2) > 1
  <2>1. IsFiniteSet(R) /\ Cardinality(R) \in Nat /\ R \subseteq 1 .. n
    BY JoinedFinite
  <2>2. b \in R
    BY <1>4 DEF Joined, Run
  <2> HIDE DEF R, R2, n
  <2>3. n + 1 \notin R
    BY <1>4, <2>1
  <2>4. Cardinality(R2) = Cardinality(R) + 1
    BY <1>2, <2>1, <2>3, FS_AddElement
  <2>5. Cardinality(R) # 0
    BY <2>1, <2>2, FS_EmptySet
  <2> QED
    BY <2>1, <2>4, <2>5
<1> HIDE DEF d, n, ends, R, R2
<1>9. \A run : run \in OpenRuns(c) <=> \E i \in Live(c) : run = Joined(c, i)
  BY DEF OpenRuns
<1>10. \A run : run \in OpenRuns(d) <=>
         (\E i \in Live(c) \ {b} : run = Joined(c, i)) \/ (~ ends /\ run = R2)
  <2>1. \A i \in Live(c) \ {b} : Joined(d, i) = Joined(c, i)
    BY <1>2, <1>4
  <2> QED
    BY <1>3, <2>1 DEF OpenRuns, R2
<1>11. R \in OpenRuns(c)
  BY <1>9 DEF R
<1>12. R2 \notin Runs(c) /\ R2 \notin OpenRuns(c)
  <2>1. n + 1 \in R2
    BY <1>2
  <2>2. \A run \in OpenRuns(c) : run \in Runs(c)
    BY <1>4, <1>7, <1>9
  <2> QED
    BY <1>4, <1>5, <2>1, <2>2
<1>13. ASSUME NEW run PROVE run \in Over(d) <=> run \in Over(c) \/ (run = R2 /\ ends)
  <2>1. run \in Over(d) <=> run \in Runs(d) /\ Cardinality(run) > 1 /\ run \notin OpenRuns(d)
    BY DEF Over
  <2>2. run \in Over(c) <=> run \in Runs(c) /\ Cardinality(run) > 1 /\ run \notin OpenRuns(c)
    BY DEF Over
  <2>3. CASE run = R2
    <3>1. ~ \E i \in Live(c) \ {b} : run = Joined(c, i)
      BY <1>9, <1>12, <2>3
    <3>2. run \in Runs(d) /\ run \notin Over(c) /\ Cardinality(run) > 1
      BY <1>2, <1>8, <1>12, <2>2, <2>3
    <3>3. run \in OpenRuns(d) <=> ~ ends
      BY <1>10, <2>3, <3>1
    <3> QED
      BY <2>1, <2>3, <3>2, <3>3
  <2>4. CASE run # R2 /\ run = R
    <3>1. run \notin Over(c)
      BY <1>11, <2>2, <2>4
    <3>2. run \notin Runs(d)
      BY <1>2, <2>4
    <3> QED
      BY <2>1, <2>4, <3>1, <3>2
  <2>5. CASE run # R2 /\ run # R
    <3>1. run \in OpenRuns(d) <=> run \in OpenRuns(c)
      BY <1>9, <1>10, <2>5 DEF R
    <3>2. run \in Runs(d) <=> run \in Runs(c)
      BY <1>2, <2>5
    <3> QED
      BY <2>1, <2>2, <2>5, <3>1, <3>2
  <2> QED
    BY <2>3, <2>4, <2>5
<1>14. Over(d) = Over(c) \cup {run \in {R2} : ends}
  BY <1>13
<1> QED
  BY <1>3, <1>8, <1>14 DEF d, n, R2, ends

-----------------------------------------------------------------------------
(* FlowGenerator.                                                          *)

\* RowsAreWholeFlows says which packets the flows have, not which side they are on, nor
\* when the last one came, which is what decides about the next packet; nor that an open
\* flow is the last one of its connection.
RunsInv ==
  /\ fed \in Captures /\ Numbered(fed) /\ Whole(fed)
  /\ DOMAIN flows = {FlowKey(fed[i]) : i \in Live(fed)}
  /\ \A i \in Live(fed) : FlowOf(flows[FlowKey(fed[i])], fed, i)
  /\ {Members(f) : f \in rows} = Over(fed)

\* Finishing a flow adds no packet.
LEMMA RowsOfOne ==
  ASSUME NEW f \in FlowRecords
  PROVE  {Members(r) : r \in RowsOf({f})} = {m \in {Members(f)} : Several(f)}
<1>1. Finished(f).forward = f.forward /\ Finished(f).backward = f.backward
  BY DEF Finished, FlowRecords
<1>2. Members(Finished(f)) = Members(f)
  BY <1>1 DEF Members
<1>3. \A r : r \in RowsOf({f}) <=> Several(f) /\ r = Finished(f)
  BY DEF RowsOf
<1> QED
  BY <1>2, <1>3

\* No flow, no row.
LEMMA RowsOfNone == RowsOf({}) = {}
BY DEF RowsOf

\* A flow has several packets if the run has.
LEMMA SeveralOf ==
  ASSUME NEW c, NEW i, NEW f, FlowOf(f, c, i)
  PROVE  Several(f) <=> Cardinality(Joined(c, i)) > 1
BY DEF FlowOf, Several

\* What FlowGenerator::add finds for the packet's connection.
LEMMA Found ==
  ASSUME RunsInv, NEW p \in Packets, NEW b, b = Before(Append(fed, p), Len(fed) + 1)
  PROVE  /\ FlowKey(p) \in DOMAIN flows <=> b \in Live(fed)
         /\ b \in Live(fed) =>
              /\ b \in 1 .. Len(fed) /\ FlowKey(fed[b]) = FlowKey(p)
              /\ FlowOf(flows[FlowKey(p)], fed, b)
              /\ TimedOut(flows[FlowKey(p)], p) <=> p.ts - fed[b].ts > FlowTimeout
         /\ \A i \in Live(fed) \ {b} : FlowKey(fed[i]) # FlowKey(p)
<1>1. fed \in Captures
  BY DEF RunsInv
<1>2. /\ b # 0 => b \in 1 .. Len(fed) /\ FlowKey(fed[b]) = FlowKey(p)
      /\ \A i \in Live(fed) : i = b <=> FlowKey(fed[i]) = FlowKey(p)
  BY <1>1, LiveGrows
<1>3. FlowKey(p) \in DOMAIN flows <=> b \in Live(fed)
  BY <1>2 DEF RunsInv
<1>4. ASSUME b \in Live(fed)
      PROVE  /\ b \in 1 .. Len(fed) /\ FlowKey(fed[b]) = FlowKey(p)
             /\ FlowOf(flows[FlowKey(p)], fed, b)
             /\ TimedOut(flows[FlowKey(p)], p) <=> p.ts - fed[b].ts > FlowTimeout
  <2>1. b \in 1 .. Len(fed) /\ FlowKey(fed[b]) = FlowKey(p)
    BY <1>2, <1>4 DEF Live
  <2>2. FlowOf(flows[FlowKey(fed[b])], fed, b)
    BY <1>4 DEF RunsInv
  <2>3. FlowOf(flows[FlowKey(p)], fed, b)
    BY <2>1, <2>2
  <2>4. flows[FlowKey(p)].last = fed[b].ts
    BY <2>3 DEF FlowOf
  <2> QED
    BY <2>1, <2>3, <2>4 DEF TimedOut
<1> QED
  BY <1>2, <1>3, <1>4

\* A flow that is not the packet's is as it was.
LEMMA OthersStay ==
  ASSUME RunsInv, NEW p \in Packets, NEW i \in Live(fed), NEW b,
         b = Before(Append(fed, p), Len(fed) + 1), i # b,
         Joined(Append(fed, p), i) = Joined(fed, i)
  PROVE  FlowOf(flows[FlowKey(fed[i])], Append(fed, p), i)
<1>1. fed \in Captures /\ FlowOf(flows[FlowKey(fed[i])], fed, i) /\ i \in 1 .. Len(fed)
  BY DEF RunsInv, Live
<1> QED
  BY <1>1, FlowStays

\* The state with a flow for the packet's connection, and the other flows as they were.
With(key, f) ==
  [k \in (DOMAIN flows \ {key}) \cup {key} |->
     IF k = key THEN f ELSE [j \in DOMAIN flows \ {key} |-> flows[j]][k]]

\* The state without the packet's connection.
Without(key) == [k \in DOMAIN flows \ {key} |-> flows[k]]

\* FlowGenerator::add, case by case: the packet begins a flow, ends one, or joins one.
LEMMA Cases ==
  ASSUME RunsInv, NEW p \in Packets, AddPacket(p),
         NEW b, b = Before(Append(fed, p), Len(fed) + 1)
  PROVE  LET key   == FlowKey(p)
             d     == Append(fed, p)
             n     == Len(fed)
             grown == FlowAdd(flows[key], p)
             ends  == "RST" \in p.flags \/ HasBothFin(grown)
         IN \/ /\ FirstOf(d)[n + 1] = n + 1
               /\ flows' = With(key, FlowAdd(EmptyFlow(p), p))
               /\ rows' = rows \cup RowsOf({flows[k] : k \in {key} \cap DOMAIN flows})
            \/ /\ b \in Live(fed) /\ FirstOf(d)[n + 1] = FirstOf(fed)[b]
               /\ ends /\ flows' = Without(key) /\ rows' = rows \cup RowsOf({grown})
            \/ /\ b \in Live(fed) /\ FirstOf(d)[n + 1] = FirstOf(fed)[b]
               /\ ~ ends /\ flows' = With(key, grown) /\ rows' = rows
<1> DEFINE key == FlowKey(p)
           d == Append(fed, p)
           n == Len(fed)
           grown == FlowAdd(flows[key], p)
           ends == "RST" \in p.flags \/ HasBothFin(grown)
           known == key \in DOMAIN flows /\ ~ TimedOut(flows[key], p)
<1>1. \/ /\ ~ known
         /\ flows' = With(key, FlowAdd(EmptyFlow(p), p))
         /\ rows' = rows \cup RowsOf({flows[k] : k \in {key} \cap DOMAIN flows})
      \/ known /\ ends /\ flows' = Without(key) /\ rows' = rows \cup RowsOf({grown})
      \/ known /\ ~ ends /\ flows' = With(key, grown) /\ rows' = rows
  BY DEF AddPacket, With, Without
<1>2. FirstOf(d)[n + 1] =
        IF b \in Live(fed) /\ ~(p.ts - fed[b].ts > FlowTimeout) THEN FirstOf(fed)[b] ELSE n + 1
  BY WhereBegins DEF RunsInv
<1>3. known <=> b \in Live(fed) /\ ~(p.ts - fed[b].ts > FlowTimeout)
  BY Found
<1> HIDE DEF key, d, n, grown, ends, known
<1>4. known => b \in Live(fed) /\ FirstOf(d)[n + 1] = FirstOf(fed)[b]
  BY <1>2, <1>3
<1>5. ~ known => FirstOf(d)[n + 1] = n + 1
  BY <1>2, <1>3
<1>6. \/ /\ FirstOf(d)[n + 1] = n + 1
         /\ flows' = With(key, FlowAdd(EmptyFlow(p), p))
         /\ rows' = rows \cup RowsOf({flows[k] : k \in {key} \cap DOMAIN flows})
      \/ /\ b \in Live(fed) /\ FirstOf(d)[n + 1] = FirstOf(fed)[b]
         /\ ends /\ flows' = Without(key) /\ rows' = rows \cup RowsOf({grown})
      \/ /\ b \in Live(fed) /\ FirstOf(d)[n + 1] = FirstOf(fed)[b]
         /\ ~ ends /\ flows' = With(key, grown) /\ rows' = rows
  BY <1>1, <1>4, <1>5
<1> QED
  BY <1>6 DEF key, d, n, grown, ends

\* The other flows are as they were.
LEMMA WithoutIs ==
  ASSUME NEW key
  PROVE  /\ DOMAIN Without(key) = DOMAIN flows \ {key}
         /\ \A k \in DOMAIN flows \ {key} : Without(key)[k] = flows[k]
BY DEF Without

\* A packet more, numbered.
LEMMA NumberedGrows ==
  ASSUME NEW c \in Captures, NEW p \in Packets, Numbered(c), p.id = Len(c) + 1
  PROVE  Numbered(Append(c, p))
<1> DEFINE d == Append(c, p)
<1>1. /\ Len(c) \in Nat /\ Len(d) = Len(c) + 1 /\ d[Len(c) + 1] = p
      /\ \A i \in 1 .. Len(c) : d[i] = c[i]
  BY Longer
<1> HIDE DEF d
<1>2. \A i : i \in 1 .. Len(d) => i \in 1 .. Len(c) \/ i = Len(c) + 1
  BY <1>1
<1>3. Numbered(d)
  BY <1>1, <1>2 DEF Numbered
<1> QED
  BY <1>3 DEF d

\* FlowGenerator::add keeps the invariant.
LEMMA RunsAdd ==
  ASSUME RunsInv, NEW p \in Packets, p.id = Len(fed) + 1, fed' = Append(fed, p), AddPacket(p)
  PROVE  RunsInv'
<1> DEFINE key == FlowKey(p)
           d == Append(fed, p)
           n == Len(fed)
           b == Before(d, n + 1)
           grown == FlowAdd(flows[key], p)
           fresh == FlowAdd(EmptyFlow(p), p)
           ends == "RST" \in p.flags \/ HasBothFin(grown)
<1>1. /\ fed \in Captures /\ Numbered(fed) /\ Whole(fed)
      /\ DOMAIN flows = {FlowKey(fed[i]) : i \in Live(fed)}
      /\ {Members(f) : f \in rows} = Over(fed)
  BY DEF RunsInv
<1>2. /\ d \in Captures /\ n \in Nat /\ Len(d) = n + 1 /\ d[n + 1] = p
      /\ \A i \in 1 .. n : d[i] = fed[i]
  BY <1>1, Longer
<1>3. Numbered(d)
  BY <1>1, NumberedGrows
<1>4. Live(fed) \subseteq 1 .. n
  BY DEF Live
<1>5. /\ key \in DOMAIN flows <=> b \in Live(fed)
      /\ b \in Live(fed) => b \in 1 .. n /\ FlowKey(fed[b]) = key /\ FlowOf(flows[key], fed, b)
      /\ \A i \in Live(fed) \ {b} : FlowKey(fed[i]) # key
  BY Found
<1>6. ASSUME NEW L, Live(d) = (Live(fed) \ {b}) \cup L, L \in SUBSET {n + 1},
             NEW f, L # {} => FlowOf(f, d, n + 1),
             flows' = IF L = {} THEN Without(key) ELSE With(key, f),
             \A i \in Live(fed) \ {b} : Joined(d, i) = Joined(fed, i),
             Whole(d), {Members(r) : r \in rows'} = Over(d)
      PROVE  RunsInv'
  <2>1. /\ DOMAIN flows' = (DOMAIN flows \ {key}) \cup {k \in {key} : L # {}}
        /\ L # {} => flows'[key] = f
        /\ \A k \in DOMAIN flows \ {key} : flows'[k] = flows[k]
    <3>1. CASE L = {}
      BY <1>6, <3>1, WithoutIs
    <3>2. CASE L # {}
      <4>1. flows' = With(key, f)
        BY <1>6, <3>2
      <4> HIDE DEF key
      <4>2. /\ DOMAIN flows' = DOMAIN flows \cup {key} /\ flows'[key] = f
            /\ \A k \in DOMAIN flows \ {key} : flows'[k] = flows[k]
        <5> DEFINE W == With(key, f)
        <5>1. /\ DOMAIN W = DOMAIN flows \cup {key} /\ W[key] = f
              /\ \A k \in DOMAIN flows \ {key} : W[k] = flows[k]
          BY DEF With
        <5>2. flows' = W
          BY <4>1
        <5> HIDE DEF W
        <5> QED
          BY <5>1, <5>2
      <4>3. DOMAIN flows \cup {key} = (DOMAIN flows \ {key}) \cup {k \in {key} : L # {}}
        BY <3>2
      <4> QED
        BY <4>2, <4>3
    <3> QED
      BY <3>1, <3>2
  <2>2. FlowKey(d[n + 1]) = key /\ \A i \in Live(fed) : FlowKey(d[i]) = FlowKey(fed[i])
    BY <1>2, <1>4
  <2>3. \A i : i \in Live(d) <=> (i \in Live(fed) /\ i # b) \/ (L # {} /\ i = n + 1)
    BY <1>6
  <2>4. DOMAIN flows' = {FlowKey(d[i]) : i \in Live(d)}
    <3>1. ASSUME NEW k PROVE k \in DOMAIN flows \ {key} <=> \E i \in Live(fed) \ {b} : k = FlowKey(fed[i])
      <4>1. k \in DOMAIN flows <=> \E i \in Live(fed) : k = FlowKey(fed[i])
        BY <1>1
      <4>2. b \in Live(fed) => FlowKey(fed[b]) = key
        BY <1>5
      <4> HIDE DEF key, b, n, d
      <4> QED
        BY <1>5, <4>1, <4>2
    <3> HIDE DEF key, b, n, d
    <3>2. ASSUME NEW k PROVE k \in DOMAIN flows' <=> \E i \in Live(d) : k = FlowKey(d[i])
      <4>1. k \in DOMAIN flows' <=> k \in DOMAIN flows \ {key} \/ (L # {} /\ k = key)
        BY <2>1
      <4>2. (\E i \in Live(d) : k = FlowKey(d[i])) <=>
              (\E i \in Live(fed) \ {b} : k = FlowKey(fed[i])) \/ (L # {} /\ k = key)
        BY <2>2, <2>3
      <4> QED
        BY <3>1, <4>1, <4>2
    <3> QED
      BY <3>2
  <2>5. ASSUME NEW i \in Live(d) PROVE FlowOf(flows'[FlowKey(d[i])], d, i)
    <3>1. CASE i \in Live(fed) /\ i # b
      <4>1. FlowOf(flows[FlowKey(fed[i])], d, i)
        BY <1>6, <3>1, OthersStay
      <4>2. FlowKey(fed[i]) # key /\ FlowKey(fed[i]) \in DOMAIN flows
        BY <1>1, <1>5, <3>1
      <4>3. FlowKey(d[i]) = FlowKey(fed[i])
        BY <2>2, <3>1
      <4> HIDE DEF key, b, n, d
      <4> QED
        BY <2>1, <4>1, <4>2, <4>3
    <3>2. CASE L # {} /\ i = n + 1
      <4> HIDE DEF key, b, n, d
      <4> QED
        BY <1>6, <2>1, <2>2, <3>2
    <3> QED
      BY <2>3, <3>1, <3>2
  <2>6. fed' = d
    OBVIOUS
  <2> HIDE DEF d
  <2>7. /\ Live(fed)' = Live(d) /\ Over(fed)' = Over(d) /\ Captures' = Captures
    BY <2>6
  <2> QED
    BY <1>2, <1>3, <1>6, <2>4, <2>5, <2>6 DEF RunsInv
<1>7. CASE /\ FirstOf(d)[n + 1] = n + 1 /\ flows' = With(key, fresh)
           /\ rows' = rows \cup RowsOf({flows[k] : k \in {key} \cap DOMAIN flows})
  <2>1. /\ \A i \in 1 .. n : Joined(d, i) = Joined(fed, i)
        /\ Joined(d, n + 1) = {n + 1} /\ Whole(d)
    BY <1>1, <1>7, NewRun
  <2>2. FlowOf(fresh, d, n + 1)
    BY <1>1, <1>7, <2>1, AddNew
  <2>3. /\ Live(d) = (Live(fed) \ {b}) \cup {n + 1}
        /\ Over(d) = Over(fed) \cup
             {run \in {Joined(fed, i) : i \in Live(fed) \cap {b}} : Cardinality(run) > 1}
    BY <1>1, <1>7, NewOver
  <2>4. {Members(r) : r \in RowsOf({flows[k] : k \in {key} \cap DOMAIN flows})} =
          {run \in {Joined(fed, i) : i \in Live(fed) \cap {b}} : Cardinality(run) > 1}
    <3>1. CASE b \in Live(fed)
      <4>1. key \in DOMAIN flows /\ FlowOf(flows[key], fed, b)
        BY <1>5, <3>1
      <4>2. Members(flows[key]) = Joined(fed, b)
        BY <1>1, <4>1, MembersOf
      <4>3. Several(flows[key]) <=> Cardinality(Joined(fed, b)) > 1
        BY <4>1, SeveralOf
      <4>4. {Members(r) : r \in RowsOf({flows[key]})} = {m \in {Members(flows[key])} : Several(flows[key])}
        BY <4>1, RowsOfOne DEF FlowOf
      <4> HIDE DEF key, b, d, n
      <4>5. {flows[k] : k \in {key} \cap DOMAIN flows} = {flows[key]}
        BY <4>1
      <4>6. {Joined(fed, i) : i \in Live(fed) \cap {b}} = {Joined(fed, b)}
        BY <3>1
      <4> QED
        BY <4>2, <4>3, <4>4, <4>5, <4>6
    <3>2. CASE b \notin Live(fed)
      <4>1. key \notin DOMAIN flows
        BY <1>5, <3>2
      <4> HIDE DEF key, b, d, n
      <4>2. {flows[k] : k \in {key} \cap DOMAIN flows} = {}
        BY <4>1
      <4>3. Live(fed) \cap {b} = {}
        BY <3>2
      <4> QED
        BY <4>2, <4>3, RowsOfNone
    <3> QED
      BY <3>1, <3>2
  <2> DEFINE closed == RowsOf({flows[k] : k \in {key} \cap DOMAIN flows})
             closing == {run \in {Joined(fed, i) : i \in Live(fed) \cap {b}} : Cardinality(run) > 1}
  <2>5. {Members(r) : r \in rows'} = Over(d)
    <3>1. rows' = rows \cup closed /\ Over(d) = Over(fed) \cup closing
      BY <1>7, <2>3
    <3>2. {Members(r) : r \in closed} = closing /\ {Members(r) : r \in rows} = Over(fed)
      BY <1>1, <2>4
    <3> HIDE DEF closed, closing, d
    <3> QED
      BY <3>1, <3>2
  <2>6. \A i \in Live(fed) \ {b} : Joined(d, i) = Joined(fed, i)
    BY <1>4, <2>1
  <2>7. {n + 1} \in SUBSET {n + 1} /\ {n + 1} # {}
    OBVIOUS
  <2>8. flows' = IF {n + 1} = {} THEN Without(key) ELSE With(key, fresh)
    BY <1>7, <2>7
  <2> HIDE DEF d, n, b, key, fresh, closed, closing
  <2> QED
    BY <1>6, <2>1, <2>2, <2>3, <2>5, <2>6, <2>7, <2>8
<1>8. ASSUME b \in Live(fed), FirstOf(d)[n + 1] = FirstOf(fed)[b]
      PROVE  /\ \A i \in Live(fed) \ {b} : Joined(d, i) = Joined(fed, i)
             /\ Whole(d) /\ FlowOf(grown, d, n + 1)
             /\ Live(d) = (Live(fed) \ {b}) \cup {i \in {n + 1} : ~ ends}
             /\ Over(d) = Over(fed) \cup {run \in {Joined(d, n + 1)} : ends}
             /\ {Members(r) : r \in RowsOf({grown})} = {Joined(d, n + 1)}
  <2> DEFINE s == FirstOf(fed)[b]
  <2>1. /\ \A i \in 1 .. n : FirstOf(fed)[i] # s => Joined(d, i) = Joined(fed, i)
        /\ \A i \in Live(fed) \ {b} : FirstOf(fed)[i] # s
        /\ Joined(d, n + 1) = Joined(fed, b) \cup {n + 1}
        /\ Joined(d, n + 1) = Onwards(d, s, n + 1)
        /\ Whole(d)
    BY <1>1, <1>8, JoinsRun
  <2>2. b \in 1 .. n /\ FlowOf(flows[key], fed, b)
    BY <1>5, <1>8
  <2>3. FlowOf(grown, d, n + 1)
    BY <1>1, <1>8, <2>1, <2>2, AddJoins
  <2>4. /\ Live(d) = (Live(fed) \ {b}) \cup {i \in {n + 1} : ~ Ends(d, s, n + 1)}
        /\ Over(d) = Over(fed) \cup {run \in {Joined(d, n + 1)} : Ends(d, s, n + 1)}
        /\ Cardinality(Joined(d, n + 1)) > 1
    BY <1>1, <1>8, JoinOver
  <2>5. s \in Nat /\ s < n + 1
    <3>1. s \in 1 .. b
      BY <1>1, <2>2, FirstBound
    <3> HIDE DEF s
    <3> QED
      BY <1>2, <2>2, <3>1
  <2>6. FirstOf(d)[n + 1] = s /\ n + 1 \in Nat /\ n + 1 = Len(d)
    BY <1>2, <1>8
  <2>7. Members(grown) = Joined(d, n + 1)
    BY <1>2, <1>3, <2>3, MembersOf
  <2>8. Several(grown)
    BY <2>3, <2>4, SeveralOf
  <2>9. {Members(r) : r \in RowsOf({grown})} = {m \in {Members(grown)} : Several(grown)}
    BY <2>3, RowsOfOne DEF FlowOf
  <2> HIDE DEF d, n, b, s, key, grown
  <2>10. Ends(d, s, n + 1) <=>
           \/ "RST" \in d[n + 1].flags
           \/ /\ \E m \in Joined(d, n + 1) : "FIN" \in d[m].flags /\ Along(d, s, m)
              /\ \E m \in Joined(d, n + 1) : "FIN" \in d[m].flags /\ ~ Along(d, s, m)
    BY <2>1, <2>5, <2>6, EndsFlow
  <2>11. HasBothFin(grown) <=>
           /\ \E m \in Joined(d, n + 1) : "FIN" \in d[m].flags /\ Along(d, s, m)
           /\ \E m \in Joined(d, n + 1) : "FIN" \in d[m].flags /\ ~ Along(d, s, m)
    <3>1. FirstOf(d)[n + 1] = s
      BY <2>6
    <3> QED
      BY <2>3, <3>1, FinsOf
  <2>12. Ends(d, s, n + 1) <=> ends
    BY <1>2, <2>10, <2>11
  <2>13. \A i \in Live(fed) \ {b} : Joined(d, i) = Joined(fed, i)
    BY <1>4, <2>1
  <2>14. {Members(r) : r \in RowsOf({grown})} = {Joined(d, n + 1)}
    BY <2>7, <2>8, <2>9
  <2> HIDE DEF ends
  <2> QED
    BY <2>1, <2>3, <2>4, <2>12, <2>13, <2>14
<1>9. CASE /\ b \in Live(fed) /\ FirstOf(d)[n + 1] = FirstOf(fed)[b]
           /\ ends /\ flows' = Without(key) /\ rows' = rows \cup RowsOf({grown})
  <2> DEFINE closed == RowsOf({grown})
  <2> HIDE DEF d, n, b, key, grown, fresh, ends, closed
  <2>1. {Members(r) : r \in rows'} = Over(d)
    <3>1. rows' = rows \cup closed /\ {Members(r) : r \in closed} = {Joined(d, n + 1)}
      BY <1>8, <1>9 DEF closed
    <3>2. Over(d) = Over(fed) \cup {Joined(d, n + 1)}
      BY <1>8, <1>9
    <3> QED
      BY <1>1, <3>1, <3>2
  <2>2. Live(d) = (Live(fed) \ {b}) \cup {}
    BY <1>8, <1>9
  <2>3. flows' = IF {} = {} THEN Without(key) ELSE With(key, grown)
    BY <1>9
  <2>4. {} \in SUBSET {n + 1}
    OBVIOUS
  <2>5. {} # {} => FlowOf(grown, d, n + 1)
    OBVIOUS
  <2> QED
    BY <1>6, <1>8, <1>9, <2>1, <2>2, <2>3, <2>4, <2>5
<1>10. CASE /\ b \in Live(fed) /\ FirstOf(d)[n + 1] = FirstOf(fed)[b]
            /\ ~ ends /\ flows' = With(key, grown) /\ rows' = rows
  <2> HIDE DEF d, n, b, key, grown, fresh, ends
  <2>1. {Members(r) : r \in rows'} = Over(d)
    BY <1>1, <1>8, <1>10
  <2>2. Live(d) = (Live(fed) \ {b}) \cup {n + 1}
    BY <1>8, <1>10
  <2>3. flows' = IF {n + 1} = {} THEN Without(key) ELSE With(key, grown)
    BY <1>10
  <2>4. {n + 1} \in SUBSET {n + 1}
    OBVIOUS
  <2>5. {n + 1} # {} => FlowOf(grown, d, n + 1)
    BY <1>8, <1>10
  <2> QED
    BY <1>6, <1>8, <1>10, <2>1, <2>2, <2>3, <2>4, <2>5
<1>11. \/ /\ FirstOf(d)[n + 1] = n + 1
          /\ flows' = With(key, fresh)
          /\ rows' = rows \cup RowsOf({flows[k] : k \in {key} \cap DOMAIN flows})
       \/ /\ b \in Live(fed) /\ FirstOf(d)[n + 1] = FirstOf(fed)[b]
          /\ ends /\ flows' = Without(key) /\ rows' = rows \cup RowsOf({grown})
       \/ /\ b \in Live(fed) /\ FirstOf(d)[n + 1] = FirstOf(fed)[b]
          /\ ~ ends /\ flows' = With(key, grown) /\ rows' = rows
  BY Cases
<1> QED
  BY <1>7, <1>9, <1>10, <1>11

\* The packet a record becomes.
Parsed(shape, step) ==
  [src |-> shape.src, dst |-> shape.dst, protocol |-> shape.protocol, size |-> shape.size,
   flags |-> shape.flags,
   ts |-> IF fed = << >> THEN 0 ELSE fed[Len(fed)].ts + step, id |-> Len(fed) + 1]

\* Feed is FlowGenerator::add of that packet.
LEMMA ParsedIs ==
  ASSUME fed \in Captures, NEW shape \in Shapes, NEW step \in Steps, Feed(shape, step)
  PROVE  /\ Parsed(shape, step) \in Packets /\ Parsed(shape, step).id = Len(fed) + 1
         /\ fed' = Append(fed, Parsed(shape, step)) /\ AddPacket(Parsed(shape, step))
<1>1. shape.src \in Int /\ shape.dst \in Int /\ shape.size \in Nat /\ step \in Int
  BY FlowMeterAssumption
<1> DEFINE ts == IF fed = << >> THEN 0 ELSE fed[Len(fed)].ts + step
<1>2. ts \in Int
  <2>1. CASE fed = << >>
    BY <2>1
  <2>2. CASE fed # << >>
    <3>1. fed[Len(fed)] \in Packets
      BY <2>2 DEF Captures
    <3>2. fed[Len(fed)].ts \in Int
      BY <3>1, PacketTypes
    <3> QED
      BY <1>1, <2>2, <3>2
  <2> QED
    BY <2>1, <2>2
<1>3. Len(fed) + 1 \in Nat
  BY DEF Captures
<1>4. /\ fed' = Append(fed, Parsed(shape, step)) /\ AddPacket(Parsed(shape, step))
      /\ Parsed(shape, step).id = Len(fed) + 1
  BY DEF Feed, Parsed
<1>5. shape.protocol \in {s.protocol : s \in Shapes} /\ shape.flags \in {s.flags : s \in Shapes}
  OBVIOUS
<1> HIDE DEF ts
<1>6. Parsed(shape, step) =
        [src |-> shape.src, dst |-> shape.dst, protocol |-> shape.protocol, size |-> shape.size,
         flags |-> shape.flags, ts |-> ts, id |-> Len(fed) + 1]
  BY DEF Parsed, ts
<1>7. Parsed(shape, step) \in Packets
  BY <1>1, <1>2, <1>3, <1>5, <1>6 DEF Packets
<1> QED
  BY <1>4, <1>7

\* At the beginning of a file.
LEMMA RunsEmpty ==
  /\ << >> \in Captures /\ Numbered(<< >>) /\ Live(<< >>) = {} /\ Whole(<< >>)
  /\ Over(<< >>) = {}
<1> DEFINE e == << >>
<1>1. e \in Captures /\ Len(e) = 0
  BY DEF Captures
<1> HIDE DEF e
<1>2. 1 .. Len(e) = {}
  BY <1>1
<1>3. Live(e) = {} /\ Runs(e) = {}
  BY <1>2 DEF Live, Runs
<1>4. Numbered(e) /\ Whole(e) /\ Over(e) = {}
  BY <1>2, <1>3 DEF Numbered, Whole, Over
<1> QED
  BY <1>1, <1>3, <1>4 DEF e

\* Before the first packet there are no flows and no rows.
LEMMA RunsInit == MeterInit => RunsInv
<1> SUFFICES ASSUME MeterInit PROVE RunsInv
  OBVIOUS
<1>1. fed = << >> /\ flows = << >> /\ rows = {}
  BY DEF MeterInit
<1>2. fed \in Captures /\ Numbered(fed) /\ Whole(fed) /\ Live(fed) = {} /\ Over(fed) = {}
  BY <1>1, RunsEmpty
<1>3. DOMAIN flows = {} /\ {Members(f) : f \in rows} = {}
  BY <1>1
<1> QED
  BY <1>2, <1>3 DEF RunsInv

\* main and FlowGenerator keep the invariant.
LEMMA RunsStep == RunsInv /\ [MeterNext]_meterVars => RunsInv'
<1> SUFFICES ASSUME RunsInv, [MeterNext]_meterVars PROVE RunsInv'
  OBVIOUS
<1>1. ASSUME NEW shape \in Shapes, NEW step \in Steps, Feed(shape, step) PROVE RunsInv'
  <2> DEFINE p == Parsed(shape, step)
  <2>1. p \in Packets /\ p.id = Len(fed) + 1 /\ fed' = Append(fed, p) /\ AddPacket(p)
    BY <1>1, ParsedIs DEF RunsInv
  <2> HIDE DEF p
  <2> QED
    BY <2>1, RunsAdd
<1>2. CASE FinishFile
  <2>1. fed' = << >> /\ flows' = << >> /\ rows' = {}
    BY <1>2 DEF FinishFile
  <2>2. fed' \in Captures /\ Numbered(fed') /\ Whole(fed') /\ Live(fed') = {} /\ Over(fed') = {}
    BY <2>1, RunsEmpty
  <2>3. DOMAIN flows' = {} /\ {Members(f) : f \in rows'} = {}
    BY <2>1
  <2> QED
    BY <2>2, <2>3 DEF RunsInv
<1>3. CASE UNCHANGED << fed, flows, rows >>
  <2>1. fed' = fed /\ flows' = flows /\ rows' = rows
    BY <1>3
  <2> QED
    BY <2>1 DEF RunsInv
<1>4. CASE Open \/ OpenError
  BY <1>3, <1>4 DEF Open, OpenError
<1>5. CASE ReadError
  BY <1>3, <1>5 DEF ReadError
<1>6. CASE AllDone
  BY <1>3, <1>6 DEF AllDone
<1>7. CASE UNCHANGED meterVars
  BY <1>3, <1>7 DEF meterVars
<1> QED
  BY <1>1, <1>2, <1>4, <1>5, <1>6, <1>7 DEF MeterNext

\* RowsAreWholeFlows: every packet is in exactly the flow it belongs to, and a flow that
\* is over is a row unless it is one packet (FlowGenerator::add).
THEOREM RowsAreWhole == MeterSpec => []RowsAreWholeFlows
<1>1. RunsInv => RowsAreWholeFlows
  <2> SUFFICES ASSUME RunsInv PROVE RowsAreWholeFlows
    OBVIOUS
  <2> DEFINE open == {Members(flows[k]) : k \in DOMAIN flows}
             closed == {Members(f) : f \in rows}
  <2>1. /\ DOMAIN flows = {FlowKey(fed[i]) : i \in Live(fed)}
        /\ closed = Over(fed) /\ fed \in Captures /\ Numbered(fed)
        /\ \A i \in Live(fed) : FlowOf(flows[FlowKey(fed[i])], fed, i)
    BY DEF RunsInv
  <2>2. \A i \in Live(fed) : Members(flows[FlowKey(fed[i])]) = Joined(fed, i)
    BY <2>1, MembersOf
  <2>3. open = OpenRuns(fed)
    <3>1. \A m : m \in open <=> \E i \in Live(fed) : m = Members(flows[FlowKey(fed[i])])
      BY <2>1
    <3> HIDE DEF open
    <3>2. \A m : m \in open <=> m \in OpenRuns(fed)
      BY <2>2, <3>1 DEF OpenRuns
    <3> QED
      BY <3>2
  <2>4. OpenRuns(fed) \subseteq Runs(fed)
    BY DEF OpenRuns, Runs, Joined, Live
  <2> HIDE DEF open, closed
  <2>5. /\ open \cap closed = {}
        /\ open \cup closed = {run \in Runs(fed) : Cardinality(run) > 1 \/ run \in open}
    BY <2>1, <2>3, <2>4 DEF Over
  <2> QED
    BY <2>5 DEF RowsAreWholeFlows, open, closed
<1> QED
  BY <1>1, RunsInit, RunsStep, PTL DEF MeterSpec

-----------------------------------------------------------------------------
(* What the times of a flow add up to.                                     *)

\* A sequence that is extended by nothing, or by one number.
LEMMA ConcatOne ==
  ASSUME NEW seq \in Seq(Int)
  PROVE  seq \o << >> = seq /\ \A x \in Int : seq \o << x >> = Append(seq, x)
<1>1. seq \o << >> = seq
  OBVIOUS
<1>2. ASSUME NEW x \in Int PROVE seq \o << x >> = Append(seq, x)
  OBVIOUS
<1> QED
  BY <1>1, <1>2

\* A flow whose packets came in time order, as it is built: the period that is active
\* is not yet in the list.
Timely(f) ==
  /\ Sum(f.iat) = f.last - f.first.ts
  /\ f.active_end = f.last /\ f.active_start <= f.active_end
  /\ Sum(f.active) + Sum(f.idle) + (f.active_end - f.active_start) = f.last - f.first.ts

\* The same, of the forward direction.
ForwardTimely(f) ==
  f.forward # << >> =>
    /\ f.last_forward \in Int /\ f.last_forward <= f.last
    /\ Sum(f.forward_iat) = f.last_forward - f.forward[1].ts

\* A direction without packets has no last one.
NeverBefore(f) ==
  /\ f.forward = << >> <=> f.last_forward = Never
  /\ f.forward = << >> => f.forward_iat = << >>

\* The numbers of a flow that are summed.
LEMMA Numbers ==
  ASSUME NEW f \in FlowRecords
  PROVE  /\ Sum(f.iat) \in Int /\ Sum(f.active) \in Int /\ Sum(f.idle) \in Int
         /\ Sum(f.forward_iat) \in Int
         /\ f.last \in Int /\ f.first.ts \in Int /\ f.active_start \in Int /\ f.active_end \in Int
<1>1. /\ f.iat \in Seq(Int) /\ f.active \in Seq(Int) /\ f.idle \in Seq(Int)
      /\ f.forward_iat \in Seq(Int) /\ f.first \in Packets
      /\ f.last \in Int /\ f.active_start \in Int /\ f.active_end \in Int
  BY DEF FlowRecords
<1>2. \A seq \in Seq(Int) : Sum(seq) \in Int
  <2>1. 0 \in Int
    OBVIOUS
  <2> QED
    BY <2>1, SumAppend
<1> QED
  BY <1>1, <1>2, PacketTypes

\* The active period that is closed.
LEMMA SpanSum ==
  ASSUME NEW f \in FlowRecords, f.active_start <= f.active_end
  PROVE  Sum(f.active \o ActiveSpan(f)) = Sum(f.active) + (f.active_end - f.active_start)
<1>1. f.active \in Seq(Int) /\ f.active_start \in Int /\ f.active_end \in Int
  BY DEF FlowRecords
<1>2. Sum(f.active) \in Int
  BY Numbers
<1> DEFINE x == f.active_end - f.active_start
           a == f.active
<1>3. x \in Int /\ a \in Seq(Int)
  BY <1>1
<1>4. CASE f.active_end > f.active_start
  <2>1. ActiveSpan(f) = << x >>
    BY <1>4 DEF ActiveSpan
  <2> HIDE DEF x, a
  <2>2. a \o << x >> = Append(a, x) /\ Sum(Append(a, x)) = Sum(a) + x
    BY <1>3, ConcatOne, SumAppend
  <2> QED
    BY <2>1, <2>2 DEF x, a
<1>5. CASE ~(f.active_end > f.active_start)
  <2>1. ActiveSpan(f) = << >>
    BY <1>5 DEF ActiveSpan
  <2>2. x = 0
    BY <1>1, <1>5
  <2> HIDE DEF x, a
  <2>3. a \o << >> = a /\ Sum(a) = Sum(a) + x
    <3>1. a \o << >> = a
      BY <1>3, ConcatOne
    <3>2. Sum(a) \in Int
      BY <1>2 DEF a
    <3> QED
      BY <2>2, <3>1, <3>2
  <2> QED
    BY <2>1, <2>3 DEF x, a
<1> QED
  BY <1>4, <1>5

\* The gap before a packet that is not earlier.
LEMMA TimelyGap ==
  ASSUME NEW f \in FlowRecords, NEW p \in Packets, Timely(f), f.last <= p.ts,
         Fresh(f) => f.last = p.ts
  PROVE  Timely(Timed(f, p))
<1> DEFINE g == Timed(f, p)
           gap == p.ts - f.last
<1>1. p.ts \in Int
  BY PacketTypes
<1>2. /\ Sum(f.iat) \in Int /\ Sum(f.active) \in Int /\ Sum(f.idle) \in Int
      /\ f.last \in Int /\ f.first.ts \in Int /\ f.active_start \in Int /\ f.active_end \in Int
  BY Numbers
<1>3. CASE Fresh(f)
  <2>1. /\ g.first = f.first /\ g.last = p.ts /\ g.active_end = p.ts
        /\ g.iat = f.iat /\ g.active = f.active /\ g.idle = f.idle
        /\ g.active_start = f.active_start
    BY <1>3, FirstGap DEF SamePackets
  <2>2. f.last = p.ts
    BY <1>3
  <2> HIDE DEF g
  <2>3. Timely(g)
    BY <2>1, <2>2 DEF Timely
  <2> QED
    BY <2>3 DEF g
<1>4. CASE ~ Fresh(f)
  <2>1. /\ g.first = f.first /\ g.last = p.ts /\ g.active_end = p.ts
        /\ g.iat = Append(f.iat, Greater(gap, 0))
        /\ IF gap > ActivityTimeout
           THEN /\ g.active = f.active \o ActiveSpan(f) /\ g.idle = Append(f.idle, gap)
                /\ g.active_start = p.ts
           ELSE /\ g.active = f.active /\ g.idle = f.idle
                /\ g.active_start = f.active_start
    BY <1>4, LaterGap DEF SamePackets
  <2>2. gap \in Int /\ gap >= 0 /\ gap = p.ts - f.last
    BY <1>1, <1>2
  <2> HIDE DEF gap, g
  <2>3. Greater(gap, 0) = gap
    BY <2>2 DEF Greater
  <2>4. Sum(g.iat) = Sum(f.iat) + gap
    <3>1. f.iat \in Seq(Int)
      BY DEF FlowRecords
    <3> QED
      BY <2>1, <2>2, <2>3, <3>1, SumAppend
  <2>5. Sum(f.iat) = f.last - f.first.ts /\ f.active_end = f.last /\ f.active_start <= f.active_end
        /\ Sum(f.active) + Sum(f.idle) + (f.active_end - f.active_start) = f.last - f.first.ts
    BY DEF Timely
  <2>6. Sum(g.iat) = g.last - g.first.ts
    <3> DEFINE s == Sum(f.iat)
               last == f.last
               first == f.first.ts
               now == p.ts
    <3>1. /\ s \in Int /\ last \in Int /\ first \in Int /\ now \in Int
          /\ s = last - first /\ gap = now - last
      BY <1>1, <1>2, <2>2, <2>5
    <3>2. Sum(g.iat) = s + gap /\ g.last - g.first.ts = now - first
      BY <2>1, <2>4
    <3> HIDE DEF s, last, first, now
    <3>3. s + gap = now - first
      BY <3>1
    <3> QED
      BY <3>2, <3>3
  <2>7. CASE gap > ActivityTimeout
    <3>1. Sum(g.active) = Sum(f.active) + (f.active_end - f.active_start)
      BY <2>1, <2>5, <2>7, SpanSum
    <3>2. Sum(g.idle) = Sum(f.idle) + gap
      <4>1. f.idle \in Seq(Int)
        BY DEF FlowRecords
      <4> QED
        BY <2>1, <2>2, <2>7, <4>1, SumAppend
    <3>3. g.active_start = p.ts /\ g.active_end = p.ts /\ g.last = p.ts /\ g.first.ts = f.first.ts
      BY <2>1, <2>7
    <3>4. Sum(g.active) + Sum(g.idle) + (g.active_end - g.active_start) = g.last - g.first.ts
      <4> DEFINE a == Sum(f.active)
                 i == Sum(f.idle)
                 from == f.active_start
                 last == f.last
                 first == f.first.ts
                 now == p.ts
      <4>1. /\ a \in Int /\ i \in Int /\ from \in Int /\ last \in Int /\ first \in Int /\ now \in Int
            /\ gap = now - last /\ a + i + (last - from) = last - first
        BY <1>1, <1>2, <2>2, <2>5
      <4>2. /\ Sum(g.active) = a + (last - from) /\ Sum(g.idle) = i + gap
            /\ g.active_end - g.active_start = now - now /\ g.last - g.first.ts = now - first
        BY <2>5, <3>1, <3>2, <3>3
      <4> HIDE DEF a, i, from, last, first, now
      <4>3. (a + (last - from)) + (i + gap) + (now - now) = now - first
        BY <4>1
      <4> QED
        BY <4>2, <4>3
    <3> QED
      BY <1>1, <2>6, <3>3, <3>4 DEF Timely, g
  <2>8. CASE ~(gap > ActivityTimeout)
    <3>1. g.active = f.active /\ g.idle = f.idle /\ g.active_start = f.active_start
          /\ g.active_end = p.ts /\ g.last = p.ts /\ g.first.ts = f.first.ts
      BY <2>1, <2>8
    <3>2. Sum(g.active) + Sum(g.idle) + (g.active_end - g.active_start) = g.last - g.first.ts
      BY <1>1, <1>2, <2>5, <3>1
    <3>3. g.active_start <= g.active_end
      BY <1>1, <1>2, <2>2, <2>5, <3>1
    <3> QED
      BY <2>6, <3>1, <3>2, <3>3 DEF Timely, g
  <2> QED
    BY <2>7, <2>8
<1> QED
  BY <1>3, <1>4

\* A packet that is not earlier, in its direction.
LEMMA TimelyAdd ==
  ASSUME NEW f \in FlowRecords, NEW p \in Packets, Timely(f), ForwardTimely(f), NeverBefore(f),
         f.last <= p.ts, Fresh(f) => f.last = p.ts
  PROVE  Timely(FlowAdd(f, p)) /\ ForwardTimely(FlowAdd(f, p))
<1> DEFINE t == Timed(f, p)
           g == Directed(t, p)
<1>1. FlowAdd(f, p) = g
  BY AddIs
<1>2. t \in FlowRecords /\ SamePackets(f, t) /\ t.last = p.ts
  BY FirstGap, LaterGap
<1>3. Timely(t)
  BY TimelyGap
<1> HIDE DEF t
<1>4. /\ g \in FlowRecords /\ SameTimes(t, g)
      /\ IF IsForward(t, p)
         THEN /\ g.forward = Append(t.forward, p) /\ g.last_forward = p.ts
              /\ g.forward_iat = t.forward_iat \o Since(p, t.last_forward)
         ELSE /\ g.forward = t.forward /\ g.last_forward = t.last_forward
              /\ g.forward_iat = t.forward_iat
  BY <1>2, DirectedIs
<1> HIDE DEF g
<1>5. Timely(g)
  BY <1>3, <1>4 DEF Timely, SameTimes
<1>6. p.ts \in Int /\ f.last \in Int
  BY Numbers, PacketTypes
<1>7. g.last = p.ts
  BY <1>2, <1>4 DEF SameTimes
<1>8. t.forward = f.forward /\ t.forward_iat = f.forward_iat /\ t.last_forward = f.last_forward
  BY <1>2 DEF SamePackets
<1>9. f.forward \in Seq(Packets) /\ f.forward_iat \in Seq(Int)
  BY DEF FlowRecords
<1>10. ForwardTimely(g)
  <2>1. CASE ~ IsForward(t, p)
    <3>1. g.forward = f.forward /\ g.last_forward = f.last_forward /\ g.forward_iat = f.forward_iat
      BY <1>4, <1>8, <2>1
    <3>2. f.last_forward \in Int /\ f.last_forward <= f.last => f.last_forward <= p.ts
      BY <1>6
    <3> QED
      BY <1>7, <3>1, <3>2 DEF ForwardTimely
  <2>2. CASE IsForward(t, p) /\ f.forward = << >>
    <3>1. Since(p, f.last_forward) = << >>
      BY <2>2 DEF Since, NeverBefore
    <3>2. g.forward = Append(f.forward, p) /\ g.last_forward = p.ts
          /\ g.forward_iat = f.forward_iat \o << >>
      BY <1>4, <1>8, <2>2, <3>1
    <3>3. f.forward_iat = << >>
      BY <2>2 DEF NeverBefore
    <3>4. g.forward_iat = << >> /\ g.forward[1] = p
      <4>1. f.forward_iat \o << >> = f.forward_iat
        BY <1>9, ConcatOne
      <4>2. Append(f.forward, p)[1] = p
        BY <2>2
      <4> QED
        BY <3>2, <3>3, <4>1, <4>2
    <3>5. Sum(g.forward_iat) = 0
      BY <3>4, SumEmpty
    <3>6. Sum(g.forward_iat) = g.last_forward - g.forward[1].ts
      BY <1>6, <3>2, <3>4, <3>5
    <3> QED
      BY <1>6, <1>7, <3>2, <3>6 DEF ForwardTimely
  <2>3. CASE IsForward(t, p) /\ f.forward # << >>
    <3>1. f.last_forward \in Int /\ f.last_forward <= f.last
          /\ Sum(f.forward_iat) = f.last_forward - f.forward[1].ts
      BY <2>3 DEF ForwardTimely
    <3> DEFINE x == p.ts - f.last_forward
    <3>2. x \in Int /\ x >= 0
      BY <1>6, <3>1
    <3>3. Since(p, f.last_forward) = << x >>
      <4>1. Greater(x, 0) = x
        BY <3>2 DEF Greater
      <4>2. f.last_forward # Never
        BY <3>1, FlowMeterAssumption
      <4> QED
        BY <4>1, <4>2 DEF Since
    <3>4. Sum(g.forward_iat) = Sum(f.forward_iat) + x
      <4>1. g.forward_iat = f.forward_iat \o << x >>
        BY <1>4, <1>8, <2>3, <3>3
      <4> HIDE DEF x
      <4>2. f.forward_iat \o << x >> = Append(f.forward_iat, x)
        BY <1>9, <3>2, ConcatOne
      <4>3. Sum(Append(f.forward_iat, x)) = Sum(f.forward_iat) + x
        BY <1>9, <3>2, SumAppend
      <4> QED
        BY <4>1, <4>2, <4>3
    <3>5. g.forward[1] = f.forward[1] /\ g.last_forward = p.ts
      <4>1. g.forward = Append(f.forward, p)
        BY <1>4, <1>8, <2>3
      <4> QED
        BY <1>4, <1>9, <2>3, <4>1
    <3>6. f.forward[1].ts \in Int
      <4>1. f.forward[1] \in Packets
        BY <1>9, <2>3
      <4> QED
        BY <4>1, PacketTypes
    <3>7. Sum(g.forward_iat) = g.last_forward - g.forward[1].ts
      BY <1>6, <3>1, <3>4, <3>5, <3>6
    <3> QED
      BY <1>6, <1>7, <3>5, <3>7 DEF ForwardTimely
  <2> QED
    BY <2>1, <2>2, <2>3
<1> QED
  BY <1>1, <1>5, <1>10

\* Flow::add sets the last packet of a direction with its first one.
LEMMA NeverAdd ==
  ASSUME NEW f \in FlowRecords, NEW p \in Packets, NeverBefore(f)
  PROVE  NeverBefore(FlowAdd(f, p))
<1> DEFINE t == Timed(f, p)
           g == Directed(t, p)
<1>1. FlowAdd(f, p) = g
  BY AddIs
<1>2. t \in FlowRecords /\ SamePackets(f, t)
  BY FirstGap, LaterGap
<1> HIDE DEF t
<1>3. IF IsForward(t, p)
      THEN g.forward = Append(t.forward, p) /\ g.last_forward = p.ts
      ELSE /\ g.forward = t.forward /\ g.last_forward = t.last_forward
           /\ g.forward_iat = t.forward_iat
  BY <1>2, DirectedIs
<1> HIDE DEF g
<1>4. CASE IsForward(t, p)
  <2>1. f.forward \in Seq(Packets) /\ t.forward = f.forward
    BY <1>2 DEF FlowRecords, SamePackets
  <2>2. g.forward # << >>
    BY <1>3, <1>4, <2>1
  <2>3. g.last_forward # Never
    <3>1. p.ts \in Int
      BY PacketTypes
    <3> QED
      BY <1>3, <1>4, <3>1, FlowMeterAssumption
  <2> QED
    BY <1>1, <2>2, <2>3 DEF NeverBefore
<1>5. CASE ~ IsForward(t, p)
  BY <1>1, <1>2, <1>3, <1>5 DEF NeverBefore, SamePackets
<1> QED
  BY <1>4, <1>5

\* The row of a flow whose packets came in time order.
Fills(f) ==
  /\ Sum(f.iat) = f.last - f.first.ts
  /\ Sum(f.active) + Sum(f.idle) = f.last - f.first.ts
  /\ Len(f.forward) > 1 => Sum(f.forward_iat) = f.last_forward - f.forward[1].ts

\* Flow::finish closes the last active period.
LEMMA FinishFills ==
  ASSUME NEW f \in FlowRecords, Timely(f), ForwardTimely(f)
  PROVE  Fills(Finished(f))
<1> DEFINE g == Finished(f)
<1>1. g = [f EXCEPT !.active = f.active \o ActiveSpan(f)]
  BY DEF Finished
<1>2. /\ g.iat = f.iat /\ g.last = f.last /\ g.first = f.first /\ g.idle = f.idle
      /\ g.forward = f.forward /\ g.forward_iat = f.forward_iat /\ g.last_forward = f.last_forward
      /\ g.active = f.active \o ActiveSpan(f)
  BY <1>1 DEF FlowRecords
<1> HIDE DEF g
<1>3. Sum(g.active) = Sum(f.active) + (f.active_end - f.active_start)
  BY <1>2, SpanSum DEF Timely
<1>4. Sum(g.active) + Sum(g.idle) = g.last - g.first.ts
  <2> DEFINE a == Sum(f.active)
             i == Sum(f.idle)
             span == f.active_end - f.active_start
             whole == f.last - f.first.ts
  <2>1. a \in Int /\ i \in Int /\ span \in Int /\ whole \in Int
    BY Numbers
  <2>2. a + i + span = whole
    BY DEF Timely
  <2>3. Sum(g.active) = a + span /\ Sum(g.idle) = i /\ g.last - g.first.ts = whole
    BY <1>2, <1>3
  <2> HIDE DEF a, i, span, whole
  <2>4. (a + span) + i = whole
    BY <2>1, <2>2
  <2> QED
    BY <2>3, <2>4
<1>5. Sum(g.iat) = g.last - g.first.ts
  BY <1>2 DEF Timely
<1>6. Len(g.forward) > 1 => Sum(g.forward_iat) = g.last_forward - g.forward[1].ts
  <2>1. Len(f.forward) > 1 => f.forward # << >>
    OBVIOUS
  <2> QED
    BY <1>2, <2>1 DEF ForwardTimely
<1>7. Fills(g)
  BY <1>4, <1>5, <1>6 DEF Fills
<1> QED
  BY <1>7 DEF g

\* One more subflow than gaps over a second.
Counted(f) == f.subflows = 1 + Cardinality({i \in DOMAIN f.iat : f.iat[i] > Second})

\* Flow::add counts a subflow exactly when it records a gap over a second.
LEMMA CountedAdd ==
  ASSUME NEW f \in FlowRecords, NEW p \in Packets, Counted(f)
  PROVE  Counted(FlowAdd(f, p))
<1> DEFINE t == Timed(f, p)
           g == Directed(t, p)
           gap == p.ts - f.last
           x == Greater(gap, 0)
           n == Len(f.iat)
<1>1. FlowAdd(f, p) = g
  BY AddIs
<1>2. t \in FlowRecords
  BY FirstGap, LaterGap
<1>3. /\ Fresh(f) => t.iat = f.iat /\ t.subflows = f.subflows
      /\ ~ Fresh(f) => /\ t.iat = Append(f.iat, x)
                       /\ t.subflows = IF gap > Second THEN f.subflows + 1 ELSE f.subflows
  BY FirstGap, LaterGap
<1> HIDE DEF t
<1>4. g.iat = t.iat /\ g.subflows = t.subflows
  BY <1>2, DirectedIs DEF SameTimes
<1> HIDE DEF g
<1>5. CASE Fresh(f)
  BY <1>1, <1>3, <1>4, <1>5 DEF Counted
<1>6. CASE ~ Fresh(f)
  <2>1. gap \in Int
    BY Numbers, PacketTypes
  <2>2. x \in Int /\ (x > Second <=> gap > Second)
    <3> HIDE DEF gap
    <3> QED
      BY <2>1, FlowMeterAssumption DEF Greater
  <2>3. f.iat \in Seq(Int) /\ f.subflows \in Nat
    BY DEF FlowRecords
  <2> DEFINE S == {i \in DOMAIN f.iat : f.iat[i] > Second}
             S2 == {i \in DOMAIN g.iat : g.iat[i] > Second}
             more == Append(f.iat, x)
  <2>4. /\ DOMAIN f.iat = 1 .. n /\ n \in Nat /\ DOMAIN more = 1 .. n + 1 /\ more[n + 1] = x
        /\ \A i \in 1 .. n : more[i] = f.iat[i]
    <3> HIDE DEF x
    <3> QED
      BY <2>2, <2>3
  <2>5. g.iat = more /\ g.subflows = IF gap > Second THEN f.subflows + 1 ELSE f.subflows
    BY <1>3, <1>4, <1>6
  <2> HIDE DEF more, x, gap, n
  <2>6. S2 = S \cup {i \in {n + 1} : gap > Second}
    <3>1. \A i : i \in 1 .. n + 1 <=> i \in 1 .. n \/ i = n + 1
      BY <2>4
    <3>2. \A i : i \in S2 <=> i \in 1 .. n + 1 /\ more[i] > Second
      BY <2>4, <2>5
    <3>3. \A i : i \in S <=> i \in 1 .. n /\ f.iat[i] > Second
      BY <2>4
    <3> HIDE DEF S, S2
    <3>4. \A i : i \in S2 <=> i \in S \/ (i = n + 1 /\ gap > Second)
      BY <2>2, <2>4, <3>1, <3>2, <3>3
    <3> QED
      BY <3>4
  <2>7. IsFiniteSet(S) /\ n + 1 \notin S
    <3>1. S \subseteq 1 .. n
      BY <2>4
    <3>2. IsFiniteSet(1 .. n)
      BY <2>4, FS_Interval
    <3> HIDE DEF S
    <3>3. IsFiniteSet(S)
      BY <3>1, <3>2, FS_Subset
    <3> QED
      BY <2>4, <3>1, <3>3
  <2>8. f.subflows = 1 + Cardinality(S)
    BY DEF Counted
  <2> HIDE DEF S
  <2>9. Cardinality(S) \in Nat
    BY <2>7, FS_CardinalityType
  <2>10. g.subflows = 1 + Cardinality(S2)
    <3> HIDE DEF S2
    <3>1. CASE gap > Second
      <4>1. S2 = S \cup {n + 1}
        BY <2>6, <3>1
      <4>2. Cardinality(S2) = Cardinality(S) + 1
        BY <2>7, <4>1, FS_AddElement
      <4>3. g.subflows = f.subflows + 1
        BY <2>5, <3>1
      <4> QED
        BY <2>8, <2>9, <4>2, <4>3
    <3>2. CASE ~(gap > Second)
      <4>1. S2 = S /\ g.subflows = f.subflows
        BY <2>5, <2>6, <3>2
      <4> QED
        BY <2>8, <4>1
    <3> QED
      BY <3>1, <3>2
  <2> QED
    BY <1>1, <2>10 DEF Counted
<1> QED
  BY <1>5, <1>6

-----------------------------------------------------------------------------
(* Bulks.                                                                  *)

\* The packets of a direction that carry data, and its bytes.
Data(seq) == {p \in Range(seq) : p.size > 0}
Total(seq) == Sum([i \in DOMAIN seq |-> seq[i].size])

\* The packets of a bulk that is too short to count are counted when it is not: until
\* then they are not among those counted.
Pending(seq, bulk) ==
  /\ IsFiniteSet(Data(seq))
  /\ BulkPackets * bulk.states <= bulk.packets
  /\ IF bulk.count < BulkPackets
     THEN bulk.packets + bulk.count <= Cardinality(Data(seq)) /\ bulk.bytes + bulk.size <= Total(seq)
     ELSE bulk.packets <= Cardinality(Data(seq)) /\ bulk.bytes <= Total(seq)

\* Sizes of the packets of a direction.
LEMMA SizesOf ==
  ASSUME NEW seq \in Seq(Packets)
  PROVE  [i \in DOMAIN seq |-> seq[i].size] \in Seq(Int)
<1> DEFINE n == Len(seq)
           a == [i \in DOMAIN seq |-> seq[i].size]
<1>1. n \in Nat /\ DOMAIN seq = 1 .. n /\ \A i \in 1 .. n : seq[i] \in Packets
  OBVIOUS
<1>2. a \in [1 .. n -> Int]
  <2>1. \A q \in Packets : q.size \in Int
    BY PacketTypes
  <2> HIDE DEF n
  <2> QED
    BY <1>1, <2>1
<1> HIDE DEF a, n
<1>3. a \in Seq(Int)
  BY <1>1, <1>2
<1> QED
  BY <1>3 DEF a

\* Bytes of a direction are a number.
LEMMA TotalIs ==
  ASSUME NEW seq \in Seq(Packets)
  PROVE  Total(seq) \in Int
<1> DEFINE a == [i \in DOMAIN seq |-> seq[i].size]
<1>1. a \in Seq(Int)
  BY SizesOf
<1>2. Total(seq) = Sum(a)
  BY DEF Total
<1> HIDE DEF a
<1>3. 0 \in Int
  OBVIOUS
<1> QED
  BY <1>1, <1>2, <1>3, SumAppend

\* Bytes of a direction with one packet more.
LEMMA TotalAppend ==
  ASSUME NEW seq \in Seq(Packets), NEW p \in Packets
  PROVE  Total(seq) \in Int /\ Total(Append(seq, p)) = Total(seq) + p.size
<1> DEFINE more == Append(seq, p)
           n == Len(seq)
           a == [i \in DOMAIN seq |-> seq[i].size]
           b == [i \in DOMAIN more |-> more[i].size]
           c == Append(a, p.size)
<1>1. /\ n \in Nat /\ DOMAIN seq = 1 .. n /\ DOMAIN more = 1 .. n + 1 /\ more[n + 1] = p
      /\ more \in Seq(Packets) /\ Len(more) = n + 1
      /\ \A i \in 1 .. n : more[i] = seq[i]
  OBVIOUS
<1>2. p.size \in Int
  BY PacketTypes
<1>3. a \in Seq(Int) /\ b \in Seq(Int)
  <2> HIDE DEF more
  <2> QED
    BY <1>1, SizesOf
<1>4. Total(seq) = Sum(a) /\ Total(more) = Sum(b)
  BY DEF Total
<1> HIDE DEF more, n
<1>5. DOMAIN a = 1 .. n /\ \A i \in 1 .. n : a[i] = seq[i].size
  BY <1>1
<1>6. DOMAIN b = 1 .. n + 1 /\ \A i \in 1 .. n + 1 : b[i] = more[i].size
  BY <1>1
<1> HIDE DEF a, b
<1>7. Len(a) = n /\ Len(b) = n + 1
  BY <1>1, <1>3, <1>5, <1>6
<1>8. /\ c \in Seq(Int) /\ Len(c) = n + 1 /\ c[n + 1] = p.size
      /\ \A i \in 1 .. n : c[i] = a[i]
  BY <1>1, <1>2, <1>3, <1>7
<1> HIDE DEF c
<1>9. ASSUME NEW i \in 1 .. n + 1 PROVE b[i] = c[i]
  <2>1. CASE i \in 1 .. n
    BY <1>1, <1>5, <1>6, <1>8, <2>1
  <2>2. CASE i = n + 1
    BY <1>1, <1>6, <1>8, <2>2
  <2> QED
    BY <1>1, <2>1, <2>2
<1>10. b = c
  BY <1>3, <1>7, <1>8, <1>9
<1>11. Sum(a) \in Int /\ Sum(c) = Sum(a) + p.size
  BY <1>2, <1>3, SumAppend DEF c
<1> QED
  BY <1>4, <1>10, <1>11 DEF more

\* BulkState::add counts no packet and no byte twice.
LEMMA BulkCounts ==
  ASSUME NEW seq \in Seq(Packets), NEW p \in Packets, p \notin Range(seq),
         NEW bulk \in Bulks, NEW last \in Times, Pending(seq, bulk)
  PROVE  Pending(Append(seq, p), BulkAdd(bulk, p, last))
<1> DEFINE more == Append(seq, p)
           new == BulkAdd(bulk, p, last)
           k == Cardinality(Data(seq))
           total == Total(seq)
<1>1. Range(more) = Range(seq) \cup {p}
  BY RangeAppend
<1>2. total \in Int /\ Total(more) = total + p.size
  BY TotalAppend
<1>3. IsFiniteSet(Data(seq)) /\ k \in Nat
  <2>1. IsFiniteSet(Data(seq))
    BY DEF Pending
  <2> QED
    BY <2>1, FS_CardinalityType
<1>4. p.size \in Nat
  BY PacketTypes
<1>5. /\ bulk.count \in Nat /\ bulk.size \in Nat /\ bulk.states \in Nat /\ bulk.packets \in Nat
      /\ bulk.bytes \in Nat /\ bulk \in BulkRecords
  BY DEF Bulks, BulkRecords
<1>6. BulkPackets \in Nat /\ BulkPackets > 1
  BY FlowMeterAssumption
<1>7. /\ BulkPackets * bulk.states <= bulk.packets
      /\ IF bulk.count < BulkPackets
         THEN bulk.packets + bulk.count <= k /\ bulk.bytes + bulk.size <= total
         ELSE bulk.packets <= k /\ bulk.bytes <= total
  BY DEF Pending
<1> HIDE DEF more, total
<1>8. CASE p.size = 0
  <2>1. new = bulk
    BY <1>8 DEF BulkAdd
  <2>2. Data(more) = Data(seq)
    BY <1>1, <1>8 DEF Data
  <2>3. Total(more) = total
    BY <1>2, <1>8
  <2> HIDE DEF new, k
  <2>4. Pending(more, bulk)
    BY <1>3, <1>7, <2>2, <2>3 DEF Pending, k
  <2> QED
    BY <2>1, <2>4 DEF more, new
<1>9. CASE p.size # 0
  <2>1. IsFiniteSet(Data(more)) /\ Cardinality(Data(more)) = k + 1
    <3>1. Data(more) = Data(seq) \cup {p} /\ p \notin Data(seq)
      BY <1>1, <1>4, <1>9 DEF Data
    <3> QED
      BY <1>3, <3>1, FS_AddElement
  <2>2. \/ new.count = 1 /\ new.size = p.size /\ new.states = bulk.states
           /\ new.packets = bulk.packets /\ new.bytes = bulk.bytes
        \/ /\ new.count = bulk.count + 1 /\ new.size = bulk.size + p.size
           /\ \/ /\ bulk.count + 1 = BulkPackets /\ new.states = bulk.states + 1
                 /\ new.packets = bulk.packets + (bulk.count + 1)
                 /\ new.bytes = bulk.bytes + (bulk.size + p.size)
              \/ /\ bulk.count + 1 > BulkPackets /\ new.states = bulk.states
                 /\ new.packets = bulk.packets + 1 /\ new.bytes = bulk.bytes + p.size
              \/ /\ bulk.count + 1 < BulkPackets /\ new.states = bulk.states
                 /\ new.packets = bulk.packets /\ new.bytes = bulk.bytes
    <3> DEFINE fresh == \/ bulk.start = Never
                        \/ last # Never /\ last > bulk.start
                        \/ p.ts - bulk.last > Second
               grown == [bulk EXCEPT !.count = bulk.count + 1, !.size = bulk.size + p.size,
                                     !.last = p.ts]
               begun == [bulk EXCEPT !.start = p.ts, !.last = p.ts, !.count = 1, !.size = p.size]
               full == [grown EXCEPT !.states = grown.states + 1,
                                     !.packets = grown.packets + grown.count,
                                     !.bytes = grown.bytes + grown.size,
                                     !.duration = grown.duration + p.ts - bulk.start]
               long == [grown EXCEPT !.packets = grown.packets + 1,
                                     !.bytes = grown.bytes + p.size,
                                     !.duration = grown.duration + p.ts - bulk.last]
    <3>1. new = IF fresh THEN begun
                ELSE IF grown.count = BulkPackets THEN full
                ELSE IF grown.count > BulkPackets THEN long
                ELSE grown
      BY <1>9 DEF BulkAdd
    <3> HIDE DEF new, fresh
    <3>2. /\ begun.count = 1 /\ begun.size = p.size /\ begun.states = bulk.states
          /\ begun.packets = bulk.packets /\ begun.bytes = bulk.bytes
      BY <1>5 DEF BulkRecords
    <3>3. /\ grown.count = bulk.count + 1 /\ grown.size = bulk.size + p.size
          /\ grown.states = bulk.states /\ grown.packets = bulk.packets /\ grown.bytes = bulk.bytes
          /\ DOMAIN grown = DOMAIN bulk
          /\ DOMAIN bulk = {"start", "last", "count", "size", "states", "packets", "bytes", "duration"}
      BY <1>5 DEF BulkRecords
    <3> HIDE DEF begun, grown
    <3>4. /\ full.count = grown.count /\ full.size = grown.size /\ full.states = grown.states + 1
          /\ full.packets = grown.packets + grown.count /\ full.bytes = grown.bytes + grown.size
      BY <3>3
    <3>5. /\ long.count = grown.count /\ long.size = grown.size /\ long.states = grown.states
          /\ long.packets = grown.packets + 1 /\ long.bytes = grown.bytes + p.size
      BY <3>3
    <3> HIDE DEF full, long
    <3>6. CASE fresh
      BY <3>1, <3>2, <3>6
    <3>7. CASE ~ fresh /\ grown.count = BulkPackets
      BY <3>1, <3>3, <3>4, <3>7
    <3>8. CASE ~ fresh /\ grown.count # BulkPackets /\ grown.count > BulkPackets
      BY <3>1, <3>3, <3>5, <3>8
    <3>9. CASE ~ fresh /\ grown.count # BulkPackets /\ ~(grown.count > BulkPackets)
      BY <1>5, <1>6, <3>1, <3>3, <3>9
    <3> QED
      BY <3>6, <3>7, <3>8, <3>9
  <2> HIDE DEF new, k
  <2>3. BulkPackets * new.states <= new.packets
    <3>1. BulkPackets * (bulk.states + 1) = BulkPackets * bulk.states + BulkPackets
          /\ BulkPackets * bulk.states \in Nat
      BY <1>5, <1>6
    <3>2. CASE new.states = bulk.states /\ new.packets >= bulk.packets
      <4>1. new.packets \in Int
        BY <1>5, <2>2
      <4> QED
        BY <1>5, <1>7, <3>1, <3>2, <4>1
    <3>3. CASE /\ bulk.count + 1 = BulkPackets /\ new.states = bulk.states + 1
               /\ new.packets = bulk.packets + (bulk.count + 1)
      BY <1>5, <1>6, <1>7, <3>1, <3>3
    <3> QED
      BY <1>5, <2>2, <3>2, <3>3
  <2>4. IF new.count < BulkPackets
        THEN new.packets + new.count <= k + 1 /\ new.bytes + new.size <= total + p.size
        ELSE new.packets <= k + 1 /\ new.bytes <= total + p.size
    <3> DEFINE count == bulk.count
               size == bulk.size
               packets == bulk.packets
               bytes == bulk.bytes
    <3>1. /\ count \in Nat /\ size \in Nat /\ packets \in Nat /\ bytes \in Nat /\ k \in Nat
          /\ total \in Int /\ p.size \in Nat
      BY <1>2, <1>3, <1>4, <1>5
    <3>2. IF count < BulkPackets THEN packets + count <= k /\ bytes + size <= total
          ELSE packets <= k /\ bytes <= total
      BY <1>7
    <3>3. packets <= k /\ bytes <= total
      <4> HIDE DEF count, size, packets, bytes
      <4> QED
        BY <1>6, <3>1, <3>2
    <3>4. CASE new.count = 1 /\ new.size = p.size /\ new.packets = packets /\ new.bytes = bytes
      <4> HIDE DEF count, size, packets, bytes
      <4>1. packets + 1 <= k + 1 /\ bytes + p.size <= total + p.size
        BY <3>1, <3>3
      <4> QED
        BY <1>6, <3>4, <4>1
    <3>5. CASE /\ new.count = count + 1 /\ count + 1 = BulkPackets
               /\ new.packets = packets + (count + 1) /\ new.bytes = bytes + (size + p.size)
      <4> HIDE DEF count, size, packets, bytes
      <4>1. packets + (count + 1) <= k + 1 /\ bytes + (size + p.size) <= total + p.size
        BY <1>6, <3>1, <3>2, <3>5
      <4>2. ~(new.count < BulkPackets)
        BY <1>6, <3>5
      <4> QED
        BY <3>5, <4>1, <4>2
    <3>6. CASE /\ new.count = count + 1 /\ count + 1 > BulkPackets
               /\ new.packets = packets + 1 /\ new.bytes = bytes + p.size
      <4> HIDE DEF count, size, packets, bytes
      <4>1. packets + 1 <= k + 1 /\ bytes + p.size <= total + p.size
        BY <3>1, <3>3
      <4>2. ~(new.count < BulkPackets)
        BY <1>6, <3>1, <3>6
      <4> QED
        BY <3>6, <4>1, <4>2
    <3>7. CASE /\ new.count = count + 1 /\ new.size = size + p.size /\ count + 1 < BulkPackets
               /\ new.packets = packets /\ new.bytes = bytes
      <4> HIDE DEF count, size, packets, bytes
      <4>1. packets + (count + 1) <= k + 1 /\ bytes + (size + p.size) <= total + p.size
        BY <1>6, <3>1, <3>2, <3>7
      <4>2. new.count < BulkPackets
        BY <3>7
      <4> QED
        BY <3>7, <4>1, <4>2
    <3> QED
      BY <2>2, <3>4, <3>5, <3>6, <3>7
  <2>5. Pending(more, new)
    BY <1>2, <2>1, <2>3, <2>4 DEF Pending
  <2> QED
    BY <2>5 DEF more, new
<1> QED
  BY <1>8, <1>9

\* What a row says of the bulks of a direction.
BulkFits(seq, bulk) ==
  /\ BulkPackets * bulk.states <= bulk.packets /\ bulk.packets <= Cardinality(Data(seq))
  /\ bulk.bytes <= Total(seq)

\* What is counted of bulks so far is within the direction's packets and bytes.
LEMMA PendingFits ==
  ASSUME NEW seq \in Seq(Packets), NEW bulk \in Bulks, Pending(seq, bulk)
  PROVE  BulkFits(seq, bulk)
<1>1. /\ bulk.count \in Nat /\ bulk.size \in Nat /\ bulk.packets \in Nat /\ bulk.bytes \in Nat
  BY DEF Bulks, BulkRecords
<1> DEFINE k == Cardinality(Data(seq))
           total == Total(seq)
           count == bulk.count
           size == bulk.size
           packets == bulk.packets
           bytes == bulk.bytes
<1>2. k \in Nat
  BY FS_CardinalityType DEF Pending
<1>3. total \in Int
  BY TotalIs
<1>4. /\ BulkPackets * bulk.states <= packets
      /\ IF count < BulkPackets
         THEN packets + count <= k /\ bytes + size <= total
         ELSE packets <= k /\ bytes <= total
  BY DEF Pending
<1> HIDE DEF k, total, count, size, packets, bytes
<1>5. count \in Nat /\ size \in Nat /\ packets \in Nat /\ bytes \in Nat
  BY <1>1 DEF count, size, packets, bytes
<1>6. packets <= k /\ bytes <= total
  BY <1>2, <1>3, <1>4, <1>5
<1> QED
  BY <1>4, <1>6 DEF BulkFits, k, total, packets, bytes

-----------------------------------------------------------------------------
(* What open flows and rows say of time.                                   *)

\* The packets M came in time order.
InOrder(c, M) == \A i, j \in M : i < j => c[i].ts <= c[j].ts

\* An open flow of the packets M.
AddsUp(f, c, M) ==
  /\ InOrder(c, M) => Timely(f) /\ ForwardTimely(f)
  /\ NeverBefore(f) /\ Counted(f)
  /\ Pending(f.forward, f.forward_bulk) /\ Pending(f.backward, f.backward_bulk)

\* A row.
RowAddsUp(r, c) ==
  /\ Members(r) \subseteq 1 .. Len(c)
  /\ InOrder(c, Members(r)) => Fills(r)
  /\ Counted(r)
  /\ BulkFits(r.forward, r.forward_bulk) /\ BulkFits(r.backward, r.backward_bulk)

\* Flow::add counts no packet and no byte twice.
LEMMA BulksAdd ==
  ASSUME NEW f \in FlowRecords, NEW p \in Packets, p \notin Range(f.forward),
         p \notin Range(f.backward), Pending(f.forward, f.forward_bulk),
         Pending(f.backward, f.backward_bulk)
  PROVE  LET g == FlowAdd(f, p)
         IN Pending(g.forward, g.forward_bulk) /\ Pending(g.backward, g.backward_bulk)
<1> DEFINE t == Timed(f, p)
           g == Directed(t, p)
<1>1. FlowAdd(f, p) = g
  BY AddIs
<1>2. t \in FlowRecords /\ SamePackets(f, t)
  BY FirstGap, LaterGap
<1> HIDE DEF t
<1>3. IF IsForward(t, p)
      THEN /\ g.forward = Append(t.forward, p) /\ g.backward = t.backward
           /\ g.forward_bulk = BulkAdd(t.forward_bulk, p, t.last_backward)
           /\ g.backward_bulk = t.backward_bulk
      ELSE /\ g.backward = Append(t.backward, p) /\ g.forward = t.forward
           /\ g.backward_bulk = BulkAdd(t.backward_bulk, p, t.last_forward)
           /\ g.forward_bulk = t.forward_bulk
  BY <1>2, DirectedIs
<1> HIDE DEF g
<1>4. /\ f.forward \in Seq(Packets) /\ f.backward \in Seq(Packets)
      /\ f.forward_bulk \in Bulks /\ f.backward_bulk \in Bulks
      /\ f.last_forward \in Times /\ f.last_backward \in Times
  BY DEF FlowRecords
<1>5. Pending(Append(f.forward, p), BulkAdd(f.forward_bulk, p, f.last_backward))
  BY <1>4, BulkCounts
<1>6. Pending(Append(f.backward, p), BulkAdd(f.backward_bulk, p, f.last_forward))
  BY <1>4, BulkCounts
<1>7. Pending(g.forward, g.forward_bulk) /\ Pending(g.backward, g.backward_bulk)
  <2>1. CASE IsForward(t, p)
    BY <1>2, <1>3, <1>5, <2>1 DEF SamePackets
  <2>2. CASE ~ IsForward(t, p)
    BY <1>2, <1>3, <1>6, <2>2 DEF SamePackets
  <2> QED
    BY <2>1, <2>2
<1> QED
  BY <1>1, <1>7

\* Flow::add: the flow with one packet more.
LEMMA MoreAddsUp ==
  ASSUME NEW f \in FlowRecords, NEW p \in Packets, NEW c, NEW M, NEW d, NEW K,
         AddsUp(f, c, M), InOrder(d, K) => InOrder(c, M) /\ f.last <= p.ts,
         Fresh(f) => f.last = p.ts, p \notin Range(f.forward), p \notin Range(f.backward)
  PROVE  AddsUp(FlowAdd(f, p), d, K)
<1>1. /\ InOrder(c, M) => Timely(f) /\ ForwardTimely(f)
      /\ NeverBefore(f) /\ Counted(f)
      /\ Pending(f.forward, f.forward_bulk) /\ Pending(f.backward, f.backward_bulk)
  BY DEF AddsUp
<1> DEFINE g == FlowAdd(f, p)
<1>2. InOrder(d, K) => Timely(g) /\ ForwardTimely(g)
  BY <1>1, TimelyAdd
<1>3. NeverBefore(g)
  BY <1>1, NeverAdd
<1>4. Counted(g)
  BY <1>1, CountedAdd
<1>5. Pending(g.forward, g.forward_bulk) /\ Pending(g.backward, g.backward_bulk)
  BY <1>1, BulksAdd
<1> HIDE DEF g
<1>6. AddsUp(g, d, K)
  BY <1>2, <1>3, <1>4, <1>5 DEF AddsUp
<1> QED
  BY <1>6 DEF g

\* A flow that has no packet yet.
LEMMA EmptyAddsUp ==
  ASSUME NEW p \in Packets, NEW c, NEW M
  PROVE  AddsUp(EmptyFlow(p), c, M) /\ EmptyFlow(p).last = p.ts
<1> DEFINE f == EmptyFlow(p)
           e == << >>
<1>1. /\ f.forward = e /\ f.backward = e /\ f.iat = e /\ f.active = e /\ f.idle = e
      /\ f.forward_iat = e /\ f.first = p /\ f.last = p.ts /\ f.active_start = p.ts
      /\ f.active_end = p.ts /\ f.subflows = 1 /\ f.last_forward = Never
      /\ f.forward_bulk = NoBulk /\ f.backward_bulk = NoBulk
  BY DEF EmptyFlow
<1>2. p.ts \in Int
  BY PacketTypes
<1>3. Sum(e) = 0 /\ Len(e) = 0 /\ DOMAIN e = {} /\ e \in Seq(Packets)
  BY SumEmpty
<1>4. Range(e) = {}
  BY RangeEmpty
<1> HIDE DEF f, e
<1>5. Timely(f) /\ ForwardTimely(f)
  <2>1. p.ts - p.ts = 0 /\ 0 + 0 + (p.ts - p.ts) = p.ts - p.ts /\ p.ts <= p.ts
    BY <1>2
  <2> QED
    BY <1>1, <1>3, <2>1 DEF Timely, ForwardTimely
<1>6. NeverBefore(f)
  BY <1>1 DEF NeverBefore, e
<1>7. Counted(f)
  <2>1. {i \in DOMAIN e : e[i] > Second} = {}
    BY <1>3
  <2>2. Cardinality({}) = 0 /\ 1 + 0 = 1
    BY FS_EmptySet
  <2> QED
    BY <1>1, <2>1, <2>2 DEF Counted
<1>8. Pending(e, NoBulk)
  <2>1. Data(e) = {} /\ IsFiniteSet({}) /\ Cardinality({}) = 0
    BY <1>4, FS_EmptySet DEF Data
  <2>2. Total(e) = 0
    <3>1. [i \in DOMAIN e |-> e[i].size] = e
      BY <1>3 DEF e
    <3> QED
      BY <1>3, <3>1 DEF Total
  <2>3. /\ NoBulk.states = 0 /\ NoBulk.packets = 0 /\ NoBulk.count = 0 /\ NoBulk.bytes = 0
        /\ NoBulk.size = 0
    BY DEF NoBulk
  <2>4. BulkPackets * 0 <= 0 /\ 0 < BulkPackets
    BY FlowMeterAssumption
  <2> QED
    BY <2>1, <2>2, <2>3, <2>4 DEF Pending
<1>9. AddsUp(f, c, M)
  BY <1>1, <1>5, <1>6, <1>7, <1>8 DEF AddsUp
<1> QED
  BY <1>1, <1>9 DEF f

\* Flow::finish: what a row says when its flow is over.
LEMMA FinishAddsUp ==
  ASSUME NEW f \in FlowRecords, NEW c, NEW M \in SUBSET (1 .. Len(c)), Members(f) = M,
         AddsUp(f, c, M)
  PROVE  RowAddsUp(Finished(f), c)
<1> DEFINE r == Finished(f)
<1>1. /\ r.forward = f.forward /\ r.backward = f.backward /\ r.iat = f.iat
      /\ r.subflows = f.subflows /\ r.forward_bulk = f.forward_bulk
      /\ r.backward_bulk = f.backward_bulk
  BY DEF Finished, FlowRecords
<1>2. Members(r) = M
  BY <1>1 DEF Members
<1>3. InOrder(c, M) => Fills(r)
  BY FinishFills DEF AddsUp
<1> HIDE DEF r
<1>4. Counted(r)
  BY <1>1 DEF AddsUp, Counted
<1>5. /\ f.forward \in Seq(Packets) /\ f.backward \in Seq(Packets)
      /\ f.forward_bulk \in Bulks /\ f.backward_bulk \in Bulks
  BY DEF FlowRecords
<1>6. BulkFits(f.forward, f.forward_bulk) /\ BulkFits(f.backward, f.backward_bulk)
  BY <1>5, PendingFits DEF AddsUp
<1>7. RowAddsUp(r, c)
  BY <1>1, <1>2, <1>3, <1>4, <1>6 DEF RowAddsUp
<1> QED
  BY <1>7 DEF r

\* Order does not depend on later packets.
LEMMA SameOrder ==
  ASSUME NEW c \in Captures, NEW p \in Packets, NEW M \in SUBSET (1 .. Len(c))
  PROVE  InOrder(Append(c, p), M) <=> InOrder(c, M)
<1> DEFINE d == Append(c, p)
<1>1. \A i \in 1 .. Len(c) : d[i] = c[i]
  BY Longer
<1> HIDE DEF d
<1>2. InOrder(d, M) <=> InOrder(c, M)
  BY <1>1 DEF InOrder
<1> QED
  BY <1>2 DEF d

\* An open flow that the packet does not join.
LEMMA FlowAddsUpStill ==
  ASSUME NEW c \in Captures, NEW p \in Packets, NEW M \in SUBSET (1 .. Len(c)), NEW f,
         AddsUp(f, c, M)
  PROVE  AddsUp(f, Append(c, p), M)
BY SameOrder DEF AddsUp

\* A row stays as it is.
LEMMA RowAddsUpStill ==
  ASSUME NEW c \in Captures, NEW p \in Packets, NEW r, RowAddsUp(r, c)
  PROVE  RowAddsUp(r, Append(c, p))
<1> DEFINE d == Append(c, p)
           M == Members(r)
<1>1. Len(c) \in Nat /\ Len(d) = Len(c) + 1
  BY Longer
<1>2. M \in SUBSET (1 .. Len(c))
  BY DEF RowAddsUp
<1>3. InOrder(d, M) <=> InOrder(c, M)
  BY <1>2, SameOrder
<1> HIDE DEF d, M
<1>4. M \subseteq 1 .. Len(d)
  BY <1>1, <1>2
<1>5. RowAddsUp(r, d)
  BY <1>3, <1>4 DEF RowAddsUp, M
<1> QED
  BY <1>5 DEF d

\* What TimesAddUp needs is that it holds of open flows too, whose last active period
\* and last bulk are not counted yet.
TimesInv ==
  /\ RunsInv
  /\ \A i \in Live(fed) : AddsUp(flows[FlowKey(fed[i])], fed, Joined(fed, i))
  /\ \A r \in rows : RowAddsUp(r, fed)

\* A packet that is read is in no flow yet, and an open flow has packets.
LEMMA NotYet ==
  ASSUME NEW c \in Captures, Numbered(c), NEW p \in Packets, p.id = Len(c) + 1,
         NEW i \in 1 .. Len(c), NEW f, FlowOf(f, c, i)
  PROVE  p \notin Range(f.forward) /\ p \notin Range(f.backward) /\ ~ Fresh(f)
<1> DEFINE R == Joined(c, i)
           s == FirstOf(c)[i]
<1>1. /\ Range(f.forward) = {c[m] : m \in {x \in R : Along(c, s, x)}}
      /\ Range(f.backward) = {c[m] : m \in {x \in R : ~ Along(c, s, x)}}
  BY DEF FlowOf, Has
<1>2. R \subseteq 1 .. Len(c) /\ Len(c) \in Nat
  BY JoinedFinite DEF Captures
<1>3. i \in R
  BY DEF Joined, Run
<1> HIDE DEF R, s
<1>4. \A m \in R : c[m] # p
  <2>1. \A m \in R : c[m].id = m /\ m # Len(c) + 1
    BY <1>2 DEF Numbered
  <2> QED
    BY <2>1
<1>5. c[i] \in Range(f.forward) \/ c[i] \in Range(f.backward)
  BY <1>1, <1>3
<1>6. ~ Fresh(f)
  BY <1>5, RangeEmpty DEF Fresh
<1> QED
  BY <1>1, <1>4, <1>6

\* Packets that are in order with the new one.
LEMMA OrderJoins ==
  ASSUME NEW c \in Captures, NEW p \in Packets, NEW b \in 1 .. Len(c),
         Joined(Append(c, p), Len(c) + 1) = Joined(c, b) \cup {Len(c) + 1},
         InOrder(Append(c, p), Joined(Append(c, p), Len(c) + 1))
  PROVE  InOrder(c, Joined(c, b)) /\ c[b].ts <= p.ts
<1> DEFINE d == Append(c, p)
           n == Len(c)
           R == Joined(c, b)
<1>1. n \in Nat /\ d[n + 1] = p /\ \A i \in 1 .. n : d[i] = c[i]
  BY Longer
<1>2. R \subseteq 1 .. n
  BY JoinedFinite
<1>3. b \in R
  BY DEF Joined, Run
<1>4. InOrder(d, R \cup {n + 1})
  OBVIOUS
<1> HIDE DEF d, n, R
<1>5. InOrder(d, R)
  BY <1>4 DEF InOrder
<1>6. InOrder(c, R)
  BY <1>1, <1>2, <1>5 DEF InOrder
<1>7. d[b].ts <= d[n + 1].ts
  <2>1. b \in R \cup {n + 1} /\ n + 1 \in R \cup {n + 1}
    BY <1>3
  <2>2. b < n + 1
    BY <1>1, <1>2, <1>3
  <2> QED
    BY <1>4, <2>1, <2>2 DEF InOrder
<1>8. c[b].ts <= p.ts
  BY <1>1, <1>2, <1>3, <1>7
<1> QED
  BY <1>6, <1>8 DEF R

\* Rows of flows that add up.
LEMMA ClosedAddsUp ==
  ASSUME NEW f \in FlowRecords, NEW c, NEW M \in SUBSET (1 .. Len(c)), Members(f) = M,
         AddsUp(f, c, M)
  PROVE  \A r \in RowsOf({f}) : RowAddsUp(r, c)
<1>1. \A r : r \in RowsOf({f}) => r = Finished(f)
  BY DEF RowsOf
<1>2. RowAddsUp(Finished(f), c)
  BY FinishAddsUp
<1> QED
  BY <1>1, <1>2

\* FlowGenerator::add keeps the invariant.
LEMMA TimesAdd ==
  ASSUME TimesInv, NEW p \in Packets, p.id = Len(fed) + 1, fed' = Append(fed, p), AddPacket(p)
  PROVE  TimesInv'
<1> DEFINE key == FlowKey(p)
           d == Append(fed, p)
           n == Len(fed)
           b == Before(d, n + 1)
           grown == FlowAdd(flows[key], p)
           fresh == FlowAdd(EmptyFlow(p), p)
           ends == "RST" \in p.flags \/ HasBothFin(grown)
<1>1. /\ RunsInv /\ fed \in Captures /\ Numbered(fed) /\ Whole(fed)
      /\ \A i \in Live(fed) : FlowOf(flows[FlowKey(fed[i])], fed, i)
      /\ \A i \in Live(fed) : AddsUp(flows[FlowKey(fed[i])], fed, Joined(fed, i))
      /\ \A r \in rows : RowAddsUp(r, fed)
  BY DEF TimesInv, RunsInv
<1>2. /\ d \in Captures /\ n \in Nat /\ Len(d) = n + 1 /\ d[n + 1] = p
      /\ \A i \in 1 .. n : d[i] = fed[i]
  BY <1>1, Longer
<1>3. RunsInv'
  BY <1>1, RunsAdd
<1>4. Live(fed) \subseteq 1 .. n
  BY DEF Live
<1>5. /\ key \in DOMAIN flows <=> b \in Live(fed)
      /\ b \in Live(fed) => b \in 1 .. n /\ FlowKey(fed[b]) = key /\ FlowOf(flows[key], fed, b)
      /\ \A i \in Live(fed) \ {b} : FlowKey(fed[i]) # key
  BY <1>1, Found
<1>6. DOMAIN flows = {FlowKey(fed[i]) : i \in Live(fed)}
  BY <1>1 DEF RunsInv
<1>7. \A r \in rows : RowAddsUp(r, d)
  BY <1>1, RowAddsUpStill
<1>8. ASSUME NEW i \in Live(fed) PROVE AddsUp(flows[FlowKey(fed[i])], d, Joined(fed, i))
  <2>1. Joined(fed, i) \in SUBSET (1 .. n)
    BY <1>1, JoinedFinite
  <2> QED
    BY <1>1, <2>1, FlowAddsUpStill
<1>9. ASSUME NEW f, \/ flows' = With(key, f) /\ AddsUp(f, d, Joined(d, n + 1))
                    \/ flows' = Without(key) /\ n + 1 \notin Live(d),
             \A i \in Live(fed) \ {b} : Joined(d, i) = Joined(fed, i),
             Live(d) \subseteq (Live(fed) \ {b}) \cup {n + 1},
             \A r \in rows' : RowAddsUp(r, d)
      PROVE  TimesInv'
  <2>1. /\ \A k \in DOMAIN flows \ {key} : flows'[k] = flows[k]
        /\ flows' = With(key, f) => flows'[key] = f
    <3>1. /\ \A k \in DOMAIN flows \ {key} : With(key, f)[k] = flows[k]
          /\ With(key, f)[key] = f
      BY DEF With
    <3>2. \A k \in DOMAIN flows \ {key} : Without(key)[k] = flows[k]
      BY DEF Without
    <3> QED
      BY <1>9, <3>1, <3>2
  <2>2. ASSUME NEW i \in Live(d) PROVE AddsUp(flows'[FlowKey(d[i])], d, Joined(d, i))
    <3>1. CASE i \in Live(fed) \ {b}
      <4>1. FlowKey(fed[i]) \in DOMAIN flows \ {key}
        BY <1>5, <1>6, <3>1
      <4>2. d[i] = fed[i] /\ Joined(d, i) = Joined(fed, i)
        BY <1>2, <1>4, <1>9, <3>1
      <4>3. AddsUp(flows[FlowKey(fed[i])], d, Joined(fed, i))
        BY <1>8, <3>1
      <4> HIDE DEF d
      <4> QED
        BY <2>1, <4>1, <4>2, <4>3
    <3>2. CASE i = n + 1
      <4>1. FlowKey(d[i]) = key /\ flows' = With(key, f) /\ AddsUp(f, d, Joined(d, n + 1))
        BY <1>2, <1>9, <2>2, <3>2
      <4> HIDE DEF d, key, n
      <4> QED
        BY <2>1, <3>2, <4>1
    <3> QED
      BY <1>9, <3>1, <3>2
  <2>3. fed' = d
    OBVIOUS
  <2> HIDE DEF d
  <2> QED
    BY <1>3, <1>9, <2>2, <2>3 DEF TimesInv
<1>10. CASE /\ FirstOf(d)[n + 1] = n + 1 /\ flows' = With(key, fresh)
            /\ rows' = rows \cup RowsOf({flows[k] : k \in {key} \cap DOMAIN flows})
  <2>1. AddsUp(fresh, d, Joined(d, n + 1))
    <3>1. EmptyFlow(p) \in FlowRecords
      BY EmptyFlowIs
    <3>2. EmptyFlow(p).last = p.ts /\ p.ts <= p.ts
      BY EmptyAddsUp, PacketTypes
    <3>3. AddsUp(EmptyFlow(p), d, Joined(d, n + 1))
      BY EmptyAddsUp
    <3>4. p \notin Range(EmptyFlow(p).forward) /\ p \notin Range(EmptyFlow(p).backward)
      BY EmptyFlowIs, RangeEmpty DEF Fresh
    <3> HIDE DEF d
    <3> QED
      BY <3>1, <3>2, <3>3, <3>4, MoreAddsUp
  <2>2. \A i \in Live(fed) \ {b} : Joined(d, i) = Joined(fed, i)
    BY <1>1, <1>4, <1>10, NewRun
  <2>3. Live(d) = (Live(fed) \ {b}) \cup {n + 1}
    BY <1>1, <1>10, NewOver
  <2>4. \A r \in rows' : RowAddsUp(r, d)
    <3>1. CASE key \in DOMAIN flows
      <4>1. /\ b \in Live(fed) /\ flows[key] \in FlowRecords /\ FlowKey(fed[b]) = key
            /\ FlowOf(flows[key], fed, b)
        BY <1>5, <3>1 DEF FlowOf
      <4>2. Members(flows[key]) = Joined(fed, b)
        BY <1>1, <4>1, MembersOf
      <4>3. Joined(fed, b) \in SUBSET (1 .. Len(d))
        BY <1>1, <1>2, JoinedFinite
      <4>4. AddsUp(flows[key], d, Joined(fed, b))
        BY <1>8, <4>1
      <4>5. \A r \in RowsOf({flows[key]}) : RowAddsUp(r, d)
        BY <4>1, <4>2, <4>3, <4>4, ClosedAddsUp
      <4>6. {flows[k] : k \in {key} \cap DOMAIN flows} = {flows[key]}
        BY <3>1
      <4> QED
        BY <1>7, <1>10, <4>5, <4>6
    <3>2. CASE key \notin DOMAIN flows
      <4>1. {flows[k] : k \in {key} \cap DOMAIN flows} = {}
        BY <3>2
      <4> QED
        BY <1>7, <1>10, <4>1, RowsOfNone
    <3> QED
      BY <3>1, <3>2
  <2> HIDE DEF d, n, b, key, fresh
  <2> QED
    BY <1>9, <1>10, <2>1, <2>2, <2>3, <2>4
<1>11. ASSUME b \in Live(fed), FirstOf(d)[n + 1] = FirstOf(fed)[b]
       PROVE  /\ \A i \in Live(fed) \ {b} : Joined(d, i) = Joined(fed, i)
              /\ Live(d) \subseteq (Live(fed) \ {b}) \cup {n + 1}
              /\ AddsUp(grown, d, Joined(d, n + 1))
              /\ FlowOf(grown, d, n + 1)
  <2>1. /\ \A i \in 1 .. n : FirstOf(fed)[i] # FirstOf(fed)[b] => Joined(d, i) = Joined(fed, i)
        /\ \A i \in Live(fed) \ {b} : FirstOf(fed)[i] # FirstOf(fed)[b]
        /\ Joined(d, n + 1) = Joined(fed, b) \cup {n + 1}
    BY <1>1, <1>11, JoinsRun
  <2>2. Live(d) \subseteq (Live(fed) \ {b}) \cup {n + 1}
    BY <1>1, <1>11, JoinOver
  <2>3. b \in 1 .. n /\ FlowKey(fed[b]) = key /\ FlowOf(flows[key], fed, b)
    BY <1>5, <1>11
  <2>4. FlowOf(grown, d, n + 1)
    BY <1>1, <1>11, <2>1, <2>3, AddJoins
  <2>5. flows[key] \in FlowRecords /\ flows[key].last = fed[b].ts
    BY <2>3 DEF FlowOf
  <2>6. /\ p \notin Range(flows[key].forward) /\ p \notin Range(flows[key].backward)
        /\ ~ Fresh(flows[key])
    BY <1>1, <2>3, NotYet
  <2>7. AddsUp(flows[key], fed, Joined(fed, b))
    BY <1>1, <1>11, <2>3
  <2>8. InOrder(d, Joined(d, n + 1)) => InOrder(fed, Joined(fed, b)) /\ flows[key].last <= p.ts
    BY <1>1, <2>1, <2>3, <2>5, OrderJoins
  <2>9. AddsUp(grown, d, Joined(d, n + 1))
    <3> HIDE DEF d, key
    <3> QED
      BY <2>5, <2>6, <2>7, <2>8, MoreAddsUp
  <2>10. \A i \in Live(fed) \ {b} : Joined(d, i) = Joined(fed, i)
    BY <1>4, <2>1
  <2> QED
    BY <2>2, <2>4, <2>9, <2>10
<1>12. CASE /\ b \in Live(fed) /\ FirstOf(d)[n + 1] = FirstOf(fed)[b]
            /\ ends /\ flows' = Without(key) /\ rows' = rows \cup RowsOf({grown})
  <2>1. n + 1 \notin Live(d)
    <3>1. RunsInv' /\ fed' = d
      BY <1>3
    <3>2. DOMAIN flows' = {FlowKey(d[i]) : i \in Live(d)}
      BY <3>1 DEF RunsInv
    <3>3. DOMAIN flows' = DOMAIN flows \ {key}
      BY <1>12, WithoutIs
    <3> QED
      BY <1>2, <3>2, <3>3
  <2>2. \A r \in rows' : RowAddsUp(r, d)
    <3>1. grown \in FlowRecords
      BY <1>11, <1>12 DEF FlowOf
    <3>2. Numbered(d)
      BY <1>1, NumberedGrows
    <3>3. Members(grown) = Joined(d, n + 1) /\ Joined(d, n + 1) \in SUBSET (1 .. Len(d))
      <4>1. FlowOf(grown, d, n + 1) /\ d \in Captures
        BY <1>2, <1>11, <1>12
      <4> HIDE DEF grown, d, n
      <4> QED
        BY <3>2, <4>1, MembersOf, JoinedFinite
    <3>4. \A r \in RowsOf({grown}) : RowAddsUp(r, d)
      <4> HIDE DEF grown, d
      <4> QED
        BY <1>11, <1>12, <3>1, <3>3, ClosedAddsUp
    <3> QED
      BY <1>7, <1>12, <3>4
  <2> HIDE DEF d, n, b, key, grown
  <2> QED
    BY <1>9, <1>11, <1>12, <2>1, <2>2
<1>13. CASE /\ b \in Live(fed) /\ FirstOf(d)[n + 1] = FirstOf(fed)[b]
            /\ ~ ends /\ flows' = With(key, grown) /\ rows' = rows
  <2> HIDE DEF d, n, b, key, grown
  <2> QED
    BY <1>7, <1>9, <1>11, <1>13
<1>14. \/ /\ FirstOf(d)[n + 1] = n + 1
          /\ flows' = With(key, fresh)
          /\ rows' = rows \cup RowsOf({flows[k] : k \in {key} \cap DOMAIN flows})
       \/ /\ b \in Live(fed) /\ FirstOf(d)[n + 1] = FirstOf(fed)[b]
          /\ ends /\ flows' = Without(key) /\ rows' = rows \cup RowsOf({grown})
       \/ /\ b \in Live(fed) /\ FirstOf(d)[n + 1] = FirstOf(fed)[b]
          /\ ~ ends /\ flows' = With(key, grown) /\ rows' = rows
  BY <1>1, Cases
<1> QED
  BY <1>10, <1>12, <1>13, <1>14

\* Before the first packet there is nothing to add up.
LEMMA TimesInit == MeterInit => TimesInv
<1> SUFFICES ASSUME MeterInit PROVE TimesInv
  OBVIOUS
<1>1. fed = << >> /\ rows = {}
  BY DEF MeterInit
<1>2. Live(fed) = {}
  BY <1>1, RunsEmpty
<1> QED
  BY <1>1, <1>2, RunsInit DEF TimesInv

\* main and FlowGenerator keep the invariant.
LEMMA TimesStep == TimesInv /\ [MeterNext]_meterVars => TimesInv'
<1> SUFFICES ASSUME TimesInv, [MeterNext]_meterVars PROVE TimesInv'
  OBVIOUS
<1>1. RunsInv /\ RunsInv'
  BY RunsStep DEF TimesInv
<1>2. ASSUME NEW shape \in Shapes, NEW step \in Steps, Feed(shape, step) PROVE TimesInv'
  <2>1. /\ Parsed(shape, step) \in Packets /\ Parsed(shape, step).id = Len(fed) + 1
        /\ fed' = Append(fed, Parsed(shape, step)) /\ AddPacket(Parsed(shape, step))
    BY <1>1, <1>2, ParsedIs DEF RunsInv
  <2> QED
    BY <2>1, TimesAdd
<1>3. CASE FinishFile
  <2>1. fed' = << >> /\ rows' = {}
    BY <1>3 DEF FinishFile
  <2>2. Live(fed') = {}
    BY <2>1, RunsEmpty
  <2> QED
    BY <1>1, <2>1, <2>2 DEF TimesInv
<1>4. CASE UNCHANGED << fed, flows, rows >>
  <2>1. fed' = fed /\ flows' = flows /\ rows' = rows
    BY <1>4
  <2> QED
    BY <1>1, <2>1 DEF TimesInv
<1>5. CASE Open \/ OpenError
  BY <1>4, <1>5 DEF Open, OpenError
<1>6. CASE ReadError
  BY <1>4, <1>6 DEF ReadError
<1>7. CASE AllDone
  BY <1>4, <1>7 DEF AllDone
<1>8. CASE UNCHANGED meterVars
  BY <1>4, <1>8 DEF meterVars
<1> QED
  BY <1>2, <1>3, <1>5, <1>6, <1>7, <1>8 DEF MeterNext

\* TimesAddUp: what a row says of gaps, active and idle periods, subflows and bulks adds
\* up to the flow's duration, gaps, packets and bytes (Flow::add, BulkState::add,
\* Flow::finish).
THEOREM RowsAddUp == MeterSpec => []TimesAddUp
<1>1. TimesInv => TimesAddUp
  <2> SUFFICES ASSUME TimesInv, NEW r \in rows
               PROVE  /\ Ordered(r) =>
                           /\ Sum(r.iat) = r.last - r.first.ts
                           /\ Sum(r.active) + Sum(r.idle) = r.last - r.first.ts
                           /\ Len(r.forward) > 1 =>
                                Sum(r.forward_iat) = r.last_forward - r.forward[1].ts
                      /\ r.subflows = 1 + Cardinality({i \in DOMAIN r.iat : r.iat[i] > Second})
                      /\ \A w \in {<< r.forward, r.forward_bulk >>, << r.backward, r.backward_bulk >>} :
                           LET data == {p \in Range(w[1]) : p.size > 0}
                           IN /\ BulkPackets * w[2].states <= w[2].packets
                              /\ w[2].packets <= Cardinality(data)
                              /\ w[2].bytes <= Sum([i \in DOMAIN w[1] |-> w[1][i].size])
    BY DEF TimesAddUp
  <2>1. RowAddsUp(r, fed)
    BY DEF TimesInv
  <2>2. Ordered(r) <=> InOrder(fed, Members(r))
    BY DEF Ordered, InOrder
  <2>3. Ordered(r) => Fills(r)
    BY <2>1, <2>2 DEF RowAddsUp
  <2>4. Counted(r)
    BY <2>1 DEF RowAddsUp
  <2>5. ASSUME NEW w \in {<< r.forward, r.forward_bulk >>, << r.backward, r.backward_bulk >>}
        PROVE  BulkFits(w[1], w[2])
    BY <2>1 DEF RowAddsUp
  <2> QED
    BY <2>3, <2>4, <2>5 DEF Fills, Counted, BulkFits, Data, Total
<1> QED
  BY <1>1, TimesInit, TimesStep, PTL DEF MeterSpec
=============================================================================
