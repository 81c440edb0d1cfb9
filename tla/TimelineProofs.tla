--------------------------- MODULE TimelineProofs ---------------------------
(***************************************************************************)
(* Two things stand between the timeline the options ask for and the one   *)
(* in the output: each reader computes it a packet at a time, and with     *)
(* many files it is merged in rounds, through temporary captures.          *)
(*                                                                         *)
(* PacketReader computes the time of a packet from the packet before; the  *)
(* timeline of the options is a formula.  Proved: they are the same, for   *)
(* every file, number of groups and repeats, start time and jitter, and    *)
(* what the reader yields never goes back when the groups do not overlap.  *)
(* The invariant has three parts: Position, where in the file and in the   *)
(* passes the reader is; Rising, that an early start of a pass stays early *)
(* up to its end; Exact, that each pass starts where the formula says.     *)
(*                                                                         *)
(* MergeRounds reads back what it has written.  Proved: the output is that *)
(* of a single pass, for every list of files and batch size, if the format *)
(* can hold the timeline, and the rounds shrink.  The invariant says that  *)
(* what the round has written and what it has still to read are, as far as *)
(* a capture shows, the timestamps of the first round in another order;    *)
(* there is one ascending order of them, and a pass finds it.              *)
(***************************************************************************)
EXTENDS PacketReader, MergeRounds, SequenceLemmas

-----------------------------------------------------------------------------
(* What is read of a file.                                                 *)

Records == Time \cup {ReadError}

Reads(read, file, n) ==
  /\ read[0] = << >>
  /\ \A k \in 1 .. n :
       read[k] = IF file[k] = ReadError THEN read[k - 1] ELSE Append(read[k - 1], file[k])

\* ReadUpTo gives, record by record, what next() has accepted so far.
LEMMA ReadSteps ==
  ASSUME NEW file \in Seq(Records)
  PROVE  ReadUpTo(file) \in [0 .. Len(file) -> Seq(Time)] /\ Reads(ReadUpTo(file), file, Len(file))
<1>1. Len(file) \in Nat /\ \A k \in 1 .. Len(file) : file[k] \in Records
  OBVIOUS
<1> DEFINE S == {n \in Nat : n <= Len(file) =>
                   \E read \in [0 .. n -> Seq(Time)] : Reads(read, file, n)}
<1>2. 0 \in S
  <2> DEFINE read == [k \in 0 .. 0 |-> << >>]
  <2>1. read \in [0 .. 0 -> Seq(Time)]
    OBVIOUS
  <2>2. Reads(read, file, 0)
    BY DEF Reads
  <2> QED  BY <2>1, <2>2
<1>3. ASSUME NEW n \in S PROVE n + 1 \in S
  <2> SUFFICES ASSUME n + 1 <= Len(file)
               PROVE  \E read \in [0 .. n + 1 -> Seq(Time)] : Reads(read, file, n + 1)
    OBVIOUS
  <2>1. PICK read \in [0 .. n -> Seq(Time)] : Reads(read, file, n)
    BY <1>1
  <2> DEFINE last == IF file[n + 1] = ReadError THEN read[n] ELSE Append(read[n], file[n + 1])
             more == [k \in 0 .. n + 1 |-> IF k = n + 1 THEN last ELSE read[k]]
  <2>2. n \in 0 .. n /\ read[n] \in Seq(Time) /\ file[n + 1] \in Records
    BY <1>1
  <2>3. last \in Seq(Time)
    BY <2>2 DEF Records
  <2> HIDE DEF last
  <2>4. /\ more \in [0 .. n + 1 -> Seq(Time)] /\ more[n + 1] = last
        /\ \A k \in 0 .. n : more[k] = read[k]
    BY <2>3
  <2> HIDE DEF more
  <2>5. Reads(more, file, n + 1)
    <3>1. more[0] = << >>
      BY <2>1, <2>4 DEF Reads
    <3>2. ASSUME NEW k \in 1 .. n + 1
          PROVE  more[k] = IF file[k] = ReadError THEN more[k - 1] ELSE Append(more[k - 1], file[k])
      <4>1. CASE k = n + 1
        <5>1. k - 1 = n /\ more[k - 1] = read[n]
          BY <2>2, <2>4, <4>1
        <5> QED  BY <2>4, <4>1, <5>1 DEF last
      <4>2. CASE k \in 1 .. n
        <5>1. k - 1 \in 0 .. n /\ k \in 0 .. n
          BY <4>2
        <5> QED  BY <2>1, <2>4, <4>2, <5>1 DEF Reads
      <4> QED  BY <4>1, <4>2
    <3> QED  BY <3>1, <3>2 DEF Reads
  <2> QED  BY <2>4, <2>5
<1> HIDE DEF S
<1>4. Len(file) \in S
  <2>1. S \in SUBSET Nat
    BY DEF S
  <2> QED  BY <1>1, <1>2, <1>3, <2>1, AllNumbers
<1>5. PICK read \in [0 .. Len(file) -> Seq(Time)] : Reads(read, file, Len(file))
  BY <1>1, <1>4 DEF S
<1> DEFINE Body(f) == [k \in 0 .. Len(file) |->
                         IF k = 0 THEN << >>
                         ELSE IF file[k] = ReadError THEN f[k - 1]
                         ELSE Append(f[k - 1], file[k])]
<1>6. read = Body(read)
  <2>1. ASSUME NEW k \in 0 .. Len(file)
        PROVE  read[k] = IF k = 0 THEN << >>
                         ELSE IF file[k] = ReadError THEN read[k - 1]
                         ELSE Append(read[k - 1], file[k])
    <3>1. k = 0 \/ k \in 1 .. Len(file)
      BY <1>1
    <3> QED  BY <1>5, <3>1 DEF Reads
  <2> QED  BY <1>5, <2>1
<1>7. ReadUpTo(file) = CHOOSE f : f = Body(f)
  BY DEF ReadUpTo
<1> DEFINE u == ReadUpTo(file)
<1>8. u = Body(u)
  BY <1>6, <1>7
<1> HIDE DEF u
<1>9. Reads(u, file, Len(file))
  <2>1. u[0] = << >>
    <3>1. 0 \in 0 .. Len(file)
      BY <1>1
    <3>2. Body(u)[0] = << >>
      BY <3>1
    <3> QED  BY <1>8, <3>2
  <2>2. ASSUME NEW k \in 1 .. Len(file)
        PROVE  u[k] = IF file[k] = ReadError THEN u[k - 1] ELSE Append(u[k - 1], file[k])
    <3>1. k \in 0 .. Len(file) /\ k # 0
      BY <1>1
    <3>2. Body(u)[k] = IF file[k] = ReadError THEN u[k - 1] ELSE Append(u[k - 1], file[k])
      BY <3>1
    <3> HIDE DEF Body
    <3>3. u[k] = Body(u)[k]
      BY <1>8
    <3> QED  BY <3>2, <3>3
  <2> QED  BY <2>1, <2>2 DEF Reads
<1> DEFINE V == {n \in Nat : n <= Len(file) => u[n] \in Seq(Time)}
<1>10. Len(file) \in Nat /\ \A n \in Nat : n \in V
  <2>1. 0 \in V
    <3>1. u[0] = << >> /\ << >> \in Seq(Time)
      BY <1>9 DEF Reads
    <3> QED  BY <3>1
  <2>2. ASSUME NEW n \in V PROVE n + 1 \in V
    <3> SUFFICES ASSUME n + 1 <= Len(file) PROVE u[n + 1] \in Seq(Time)
      OBVIOUS
    <3>1. u[n] \in Seq(Time) /\ n + 1 \in 1 .. Len(file) /\ (n + 1) - 1 = n
      BY <1>1
    <3>2. u[n + 1] = IF file[n + 1] = ReadError THEN u[n] ELSE Append(u[n], file[n + 1])
      BY <1>9, <3>1 DEF Reads
    <3> QED  BY <1>1, <3>1, <3>2 DEF Records
  <2>3. V \in SUBSET Nat
    OBVIOUS
  <2> HIDE DEF V
  <2> QED  BY <1>1, <2>1, <2>2, <2>3, AllNumbers
<1>11. \A k \in 0 .. Len(file) : u[k] \in Seq(Time)
  BY <1>10
<1> QED  BY <1>8, <1>9, <1>11 DEF u

\* What was read once stays what it was.
LEMMA ReadGrows ==
  ASSUME NEW file \in Seq(Records), NEW i \in 0 .. Len(file), NEW k \in i .. Len(file)
  PROVE  /\ Len(ReadUpTo(file)[i]) <= Len(ReadUpTo(file)[k])
         /\ \A j \in 1 .. Len(ReadUpTo(file)[i]) : ReadUpTo(file)[k][j] = ReadUpTo(file)[i][j]
<1> DEFINE u == ReadUpTo(file)
<1>1. Len(file) \in Nat /\ u \in [0 .. Len(file) -> Seq(Time)] /\ Reads(u, file, Len(file))
      /\ \A x \in 1 .. Len(file) : file[x] \in Records
  BY ReadSteps
<1> HIDE DEF u
<1> DEFINE Extends(x) == /\ Len(u[i]) <= Len(u[x])
                         /\ \A j \in 1 .. Len(u[i]) : u[x][j] = u[i][j]
           S == {n \in Nat : i + n <= Len(file) => Extends(i + n)}
<1>2. 0 \in S
  <2>1. Len(u[i]) \in Nat
    <3>1. u[i] \in Seq(Time)
      BY <1>1
    <3> QED  BY <3>1
  <2>2. Extends(i)
    BY <2>1
  <2>3. i + 0 = i
    BY <1>1
  <2> HIDE DEF Extends
  <2>4. Extends(i + 0)
    BY <2>2, <2>3
  <2> QED  BY <2>4
<1>3. ASSUME NEW n \in S PROVE n + 1 \in S
  <2> SUFFICES ASSUME i + (n + 1) <= Len(file) PROVE Extends(i + (n + 1))
    OBVIOUS
  <2>1. /\ i + n \in 0 .. Len(file) /\ i + (n + 1) \in 1 .. Len(file)
        /\ (i + (n + 1)) - 1 = i + n
    BY <1>1
  <2>2. u[i + n] \in Seq(Time) /\ u[i] \in Seq(Time) /\ Extends(i + n)
    <3>1. u[i + n] \in Seq(Time) /\ u[i] \in Seq(Time)
      BY <1>1, <2>1
    <3>2. i + n <= Len(file)
      BY <2>1
    <3>3. Extends(i + n)
      <4> HIDE DEF Extends
      <4> QED  BY <3>2
    <3> QED  BY <3>1, <3>3
  <2>3. u[i + (n + 1)] = IF file[i + (n + 1)] = ReadError THEN u[i + n]
                         ELSE Append(u[i + n], file[i + (n + 1)])
    BY <1>1, <2>1 DEF Reads
  <2>4. CASE file[i + (n + 1)] = ReadError
    BY <2>2, <2>3, <2>4
  <2>5. CASE file[i + (n + 1)] # ReadError
    <3> DEFINE a == u[i + n]
               t == file[i + (n + 1)]
    <3>1. a \in Seq(Time) /\ u[i + (n + 1)] = Append(a, t)
      BY <2>2, <2>3, <2>5
    <3> HIDE DEF t, a
    <3>2. Len(Append(a, t)) = Len(a) + 1 /\ \A j \in 1 .. Len(a) : Append(a, t)[j] = a[j]
      BY <3>1
    <3>3. Len(u[i]) \in Nat /\ Len(a) \in Nat /\ Len(u[i]) <= Len(a)
          /\ \A j \in 1 .. Len(u[i]) : a[j] = u[i][j]
      BY <2>2, <3>1 DEF a
    <3> QED  BY <3>1, <3>2, <3>3
  <2> QED  BY <2>4, <2>5
<1>4. k - i \in Nat /\ i + (k - i) = k
  BY <1>1
<1>5. k - i \in S
  <2>1. S \in SUBSET Nat
    OBVIOUS
  <2> HIDE DEF S
  <2> QED  BY <1>2, <1>3, <1>4, <2>1, AllNumbers
<1>6. Extends(i + (k - i))
  BY <1>1, <1>4, <1>5
<1> QED  BY <1>4, <1>6 DEF u

-----------------------------------------------------------------------------
(* Quotients and remainders.                                               *)

\* Quotient and remainder.
LEMMA DivisionOf ==
  ASSUME NEW a \in Nat, NEW b \in Nat
  PROVE  b > 0 => /\ a \div b \in Nat /\ a % b \in Nat /\ a % b < b
                  /\ a = (a \div b) * b + (a % b)
OBVIOUS

\* ... and they are the only ones.
LEMMA DivisionIs ==
  ASSUME NEW b \in Nat, b > 0, NEW q \in Nat, NEW r \in Nat, r < b,
         NEW a, a = q * b + r
  PROVE  a \div b = q /\ a % b = r
<1>1. a \in Nat /\ a \div b \in Nat /\ a % b \in Nat /\ a % b < b /\ a = (a \div b) * b + (a % b)
  BY DivisionOf
<1> DEFINE p == a \div b
           t == a % b
<1>2. p \in Nat /\ t \in Nat /\ t < b /\ q * b + r = p * b + t
  BY <1>1
<1> HIDE DEF p, t
<1>3. p = q
  <2>1. CASE p < q
    <3>1. p + 1 <= q /\ (p + 1) * b <= q * b
      BY <1>2, <2>1
    <3> QED  BY <1>2, <3>1
  <2>2. CASE q < p
    <3>1. q + 1 <= p /\ (q + 1) * b <= p * b
      BY <1>2, <2>2
    <3> QED  BY <1>2, <3>1
  <2> QED  BY <1>2, <2>1, <2>2
<1> QED  BY <1>2, <1>3 DEF p, t

\* `self.current.is_multiple_of(repeat)`, one pass later.
LEMMA NextQuotient ==
  ASSUME NEW b \in Nat, b > 0, NEW a \in Nat
  PROVE  \/ /\ (a + 1) % b = 0 /\ (a % b) = b - 1
            /\ (a + 1) \div b = (a \div b) + 1
         \/ /\ (a + 1) % b = (a % b) + 1
            /\ (a + 1) \div b = a \div b
<1> DEFINE q == a \div b
           r == a % b
<1>1. q \in Nat /\ r \in Nat /\ r < b /\ a = q * b + r
  BY DivisionOf
<1> HIDE DEF q, r
<1>2. CASE r = b - 1
  <2>1. a + 1 = (q + 1) * b + 0 /\ q + 1 \in Nat
    BY <1>1, <1>2
  <2>2. (a + 1) \div b = q + 1 /\ (a + 1) % b = 0
    BY <1>1, <2>1, DivisionIs
  <2> QED  BY <1>2, <2>2 DEF q, r
<1>3. CASE r # b - 1
  <2>1. a + 1 = q * b + (r + 1) /\ r + 1 \in Nat /\ r + 1 < b
    BY <1>1, <1>3
  <2>2. (a + 1) \div b = q /\ (a + 1) % b = r + 1
    BY <1>1, <2>1, DivisionIs
  <2> QED  BY <2>2 DEF q, r
<1> QED  BY <1>2, <1>3

-----------------------------------------------------------------------------
(* A setting, and the place of a reader in its file.                       *)

\* What InputFile::validate leaves to rely on.
LEMMA SettingGives ==
  ASSUME NEW s \in Settings
  PROVE  /\ s.file \in Seq(Records) /\ Len(s.file) \in Nat
         /\ Groups(s) \in Nat /\ Groups(s) > 0
         /\ \A g \in 1 .. Groups(s) : s.start_time[g] * Second \in Time
         /\ s.repeat \in Nat /\ s.repeat > 0 /\ Passes(s) \in Nat /\ Passes(s) > 0
         /\ s.repeat_interval \in Nat /\ s.repeat_interval <= MaxTime
         /\ 1 \in DOMAIN s.jitter /\ s.jitter[1] = 0
         /\ \A g \in DOMAIN s.jitter : s.jitter[g] \in Nat
<1>1. Valid(s) /\ MaxTime \in Int /\ s \in InputFile
  BY SettingsAssumption, TimelineAssumption DEF Valid
<1>f. /\ s.file \in Seq(Records) /\ s.start_time \in Seq(Int) /\ s.repeat \in Nat
      /\ s.repeat_interval \in 0 .. MaxTime /\ s.jitter \in Seq(0 .. MaxTime)
  BY <1>1 DEF InputFile, Records
<1>2. s.file \in Seq(Records) /\ Len(s.file) \in Nat
  BY <1>f
<1>3. /\ Groups(s) \in Nat /\ Groups(s) > 0
      /\ \A g \in 1 .. Groups(s) : s.start_time[g] * Second \in Time
  BY <1>1, <1>f DEF Valid, Groups
<1>4. /\ s.repeat \in Nat /\ s.repeat > 0
      /\ s.repeat_interval \in Nat /\ s.repeat_interval <= MaxTime
  BY <1>1, <1>f DEF Valid
<1>5. Passes(s) \in Nat /\ Passes(s) > 0
  <2> DEFINE a == Groups(s)
             b == s.repeat
  <2>1. a \in Nat /\ a > 0 /\ b \in Nat /\ b > 0
    BY <1>3, <1>4
  <2> HIDE DEF a, b
  <2>2. a * b \in Nat /\ a * b >= b
    BY <2>1
  <2> QED  BY <2>1, <2>2 DEF Passes, a, b
<1>6. /\ 1 \in DOMAIN s.jitter /\ s.jitter[1] = 0
      /\ \A g \in DOMAIN s.jitter : s.jitter[g] \in Nat
  BY <1>1, <1>f DEF Valid
<1> QED  BY <1>2, <1>3, <1>4, <1>5, <1>6

Consumed(s, r) == Len(s.file) - Len(r)
Count(s, r) == Len(ReadUpTo(s.file)[Consumed(s, r)])

\* r is what is left of the file of s.
Left(s, r) ==
  /\ r \in Seq(Records) /\ Len(r) <= Len(s.file)
  /\ \A k \in 1 .. Len(r) : r[k] = s.file[Consumed(s, r) + k]

\* The readable records of a file.
LEMMA StampsAre ==
  ASSUME NEW s \in Settings
  PROVE  Stamps(s) \in Seq(Time) /\ Len(Stamps(s)) \in Nat
<1>1. s.file \in Seq(Records) /\ Len(s.file) \in Nat
  BY SettingGives
<1> QED  BY <1>1, ReadSteps DEF Stamps

\* A file that was just opened: nothing of it has been read.
LEMMA WholeFile ==
  ASSUME NEW s \in Settings
  PROVE  Left(s, s.file) /\ Count(s, s.file) = 0
<1>1. s.file \in Seq(Records) /\ Len(s.file) \in Nat
  BY SettingGives
<1>2. Consumed(s, s.file) = 0
  BY <1>1 DEF Consumed
<1>3. ReadUpTo(s.file)[0] = << >>
  BY <1>1, ReadSteps DEF Reads
<1> QED  BY <1>1, <1>2, <1>3 DEF Left, Count

\* The end of a file: every packet of it has been read.
LEMMA NothingLeft ==
  ASSUME NEW s \in Settings
  PROVE  Count(s, << >>) = Len(Stamps(s))
<1>1. Len(s.file) \in Nat
  BY SettingGives
<1>2. Consumed(s, << >>) = Len(s.file)
  BY <1>1 DEF Consumed
<1> QED  BY <1>2 DEF Count, Stamps

\* One record on.
LEMMA OneRecord ==
  ASSUME NEW s \in Settings, NEW r, Left(s, r), r # << >>
  PROVE  /\ Left(s, Tail(r)) /\ Count(s, r) \in Nat
         /\ Head(r) = ReadError => Count(s, Tail(r)) = Count(s, r)
         /\ Head(r) # ReadError =>
              /\ Head(r) \in Time /\ Count(s, Tail(r)) = Count(s, r) + 1
              /\ Count(s, r) + 1 <= Len(Stamps(s)) /\ Stamps(s)[Count(s, r) + 1] = Head(r)
              /\ Stamps(s)[1] \in Time /\ (Count(s, r) = 0 => Stamps(s)[1] = Head(r))
<1> DEFINE f == s.file
           u == ReadUpTo(f)
           i == Consumed(s, r)
           c == Count(s, r)
<1>1. f \in Seq(Records) /\ Len(f) \in Nat
  BY SettingGives
<1>2. /\ Len(r) \in Nat /\ Len(r) >= 1 /\ Len(r) <= Len(f) /\ Head(r) = r[1]
      /\ r \in Seq(Records) /\ Tail(r) \in Seq(Records) /\ Len(Tail(r)) = Len(r) - 1
      /\ \A k \in 1 .. Len(r) - 1 : Tail(r)[k] = r[k + 1]
  BY DEF Left
<1>3. /\ i \in Nat /\ i < Len(f) /\ Consumed(s, Tail(r)) = i + 1 /\ f[i + 1] = Head(r)
      /\ i \in 0 .. Len(f) /\ i + 1 \in 1 .. Len(f) /\ (i + 1) - 1 = i /\ i + 1 \in 0 .. Len(f)
  BY <1>1, <1>2 DEF Consumed, Left
<1>4. /\ u \in [0 .. Len(f) -> Seq(Time)]
      /\ u[i + 1] = IF Head(r) = ReadError THEN u[i] ELSE Append(u[i], Head(r))
  BY <1>1, <1>3, ReadSteps DEF Reads
<1>5. c = Len(u[i]) /\ c \in Nat /\ u[i] \in Seq(Time) /\ Count(s, Tail(r)) = Len(u[i + 1])
  <2>1. c = Len(u[i])
    BY DEF Count
  <2>2. Count(s, Tail(r)) = Len(u[i + 1])
    BY <1>3 DEF Count
  <2> HIDE DEF u, c
  <2>3. u[i] \in Seq(Time)
    BY <1>3, <1>4
  <2>4. Len(u[i]) \in Nat
    BY <2>3
  <2> QED  BY <2>1, <2>2, <2>3, <2>4
<1>6. Left(s, Tail(r))
  <2>1. ASSUME NEW k \in 1 .. Len(Tail(r)) PROVE Tail(r)[k] = f[(i + 1) + k]
    <3>1. k + 1 \in 1 .. Len(r) /\ i + (k + 1) = (i + 1) + k
      BY <1>2, <1>3
    <3> QED  BY <1>2, <3>1 DEF Left
  <2> QED  BY <1>2, <1>3, <2>1 DEF Left
<1>7. Head(r) \in Records
  BY <1>2
<1>8. ASSUME Head(r) # ReadError
      PROVE  /\ Head(r) \in Time /\ Count(s, Tail(r)) = c + 1
             /\ c + 1 <= Len(Stamps(s)) /\ Stamps(s)[c + 1] = Head(r)
  <2> DEFINE a == u[i + 1]
  <2>1. Head(r) \in Time /\ a = Append(u[i], Head(r))
    BY <1>4, <1>7, <1>8 DEF Records
  <2>2. Len(a) = c + 1 /\ a[c + 1] = Head(r)
    BY <1>5, <2>1
  <2>3. Len(f) \in (i + 1) .. Len(f)
    BY <1>1, <1>3
  <2>4. Len(u[i + 1]) <= Len(u[Len(f)]) /\ \A j \in 1 .. Len(u[i + 1]) : u[Len(f)][j] = u[i + 1][j]
    BY <1>1, <1>3, <2>3, ReadGrows
  <2>5. Stamps(s) = u[Len(f)]
    BY DEF Stamps
  <2>6. c + 1 \in 1 .. Len(a)
    BY <1>5, <2>2
  <2> HIDE DEF u
  <2> QED  BY <1>5, <2>1, <2>2, <2>4, <2>5, <2>6
<1>9. Head(r) # ReadError => Stamps(s)[1] \in Time
  <2> SUFFICES ASSUME Head(r) # ReadError PROVE Stamps(s)[1] \in Time
    OBVIOUS
  <2>1. Stamps(s) \in Seq(Time) /\ 1 \in 1 .. Len(Stamps(s))
    BY <1>5, <1>8, StampsAre
  <2> QED  BY <2>1
<1> QED  BY <1>4, <1>5, <1>6, <1>8, <1>9

\* No pass has more packets than the file.
LEMMA CountIs ==
  ASSUME NEW s \in Settings, NEW r, Left(s, r)
  PROVE  Count(s, r) \in 0 .. Len(Stamps(s))
<1> DEFINE f == s.file
           u == ReadUpTo(f)
           i == Consumed(s, r)
<1>1. f \in Seq(Records) /\ Len(f) \in Nat
  BY SettingGives
<1>2. i \in 0 .. Len(f) /\ Len(f) \in i .. Len(f)
  BY <1>1 DEF Consumed, Left
<1>3. u[i] \in Seq(Time) /\ Len(u[i]) <= Len(u[Len(f)])
  BY <1>1, <1>2, ReadSteps, ReadGrows
<1>4. Count(s, r) = Len(u[i]) /\ Stamps(s) = u[Len(f)]
  BY DEF Count, Stamps
<1> HIDE DEF u
<1>5. Len(u[i]) \in Nat
  BY <1>3
<1>6. Len(Stamps(s)) \in Nat
  BY StampsAre
<1> QED  BY <1>3, <1>4, <1>5, <1>6

-----------------------------------------------------------------------------
(* Saturating sums, and the copies of a packet.                            *)

\* saturating_add and saturating_sub stay in i64, and are exact there.
LEMMA Saturates ==
  ASSUME NEW x \in Int
  PROVE  Saturated(x) \in Time /\ (x \in Time => Saturated(x) = x)
BY TimelineAssumption DEF Saturated, Time

\* They keep the order.
LEMMA SaturatedRises ==
  ASSUME NEW x \in Int, NEW y \in Int, x <= y
  PROVE  Saturated(x) <= Saturated(y)
BY TimelineAssumption DEF Saturated

\* A sum that saturated on the way up ends where the exact one does.
LEMMA SaturatedSum ==
  ASSUME NEW x \in Int, NEW d \in Int, (d >= 0 /\ x >= MinTime) \/ (x \in Time /\ d \in Int)
  PROVE  Saturated(Saturated(x) + d) = Saturated(x + d)
BY TimelineAssumption DEF Saturated, Time

\* The first copy is the packet itself, and no other copy is before it.
LEMMA SpreadIs ==
  ASSUME NEW s \in Settings, NEW t \in Time
  PROVE  /\ Spread(s, t) \in [DOMAIN s.jitter -> Time] /\ Spread(s, t)[1] = t
         /\ \A g \in DOMAIN s.jitter : t <= Spread(s, t)[g]
<1>1. /\ 1 \in DOMAIN s.jitter /\ s.jitter[1] = 0 /\ t \in Int
      /\ \A g \in DOMAIN s.jitter : s.jitter[g] \in Nat
  BY SettingGives, TimelineAssumption DEF Time
<1>2. ASSUME NEW g \in DOMAIN s.jitter
      PROVE  Saturated(t + s.jitter[g]) \in Time /\ t <= Saturated(t + s.jitter[g])
  <2> DEFINE d == s.jitter[g]
  <2>1. d \in Nat
    BY <1>1
  <2> HIDE DEF d
  <2>2. t + d \in Int /\ t <= t + d
    BY <1>1, <2>1
  <2>3. Saturated(t) = t /\ Saturated(t) <= Saturated(t + d) /\ Saturated(t + d) \in Time
    BY <1>1, <2>2, Saturates, SaturatedRises
  <2> QED  BY <2>3 DEF d
<1>3. Saturated(t + s.jitter[1]) = t
  BY <1>1, Saturates
<1> QED  BY <1>1, <1>2, <1>3 DEF Spread

\* A start time, with or without the time of the packet, is an i64.
LEMMA GroupStartIs ==
  ASSUME NEW s \in Settings, NEW g \in 0 .. Groups(s) - 1, NEW t \in Time
  PROVE  GroupStart(s, g, t) \in Time
<1> DEFINE start == s.start_time[g + 1] * Second
<1>1. start \in Time /\ start \in Int /\ t \in Int
  <2>1. g + 1 \in 1 .. Groups(s)
    BY SettingGives
  <2>2. start \in Time
    BY <2>1, SettingGives
  <2> HIDE DEF start
  <2> QED  BY <2>2, TimelineAssumption DEF Time
<1> HIDE DEF start
<1>2. SubSecond(t) \in Int
  BY <1>1, TimelineAssumption DEF SubSecond
<1>3. Saturated(t + start) \in Time /\ Saturated(start + SubSecond(t)) \in Time
  BY <1>1, <1>2, Saturates
<1>4. GroupStart(s, g, t) = IF ~ s.erase THEN Saturated(t + start)
                            ELSE IF s.keep_subsecond THEN Saturated(start + SubSecond(t))
                            ELSE start
  BY DEF GroupStart, start
<1> QED  BY <1>1, <1>3, <1>4

-----------------------------------------------------------------------------
(* The timeline, packet by packet.                                         *)

\* The terms of the sum that places packet j in a pass.
LEMMA PlaceIs ==
  ASSUME NEW s \in Settings, NEW pass \in 0 .. Passes(s) - 1, NEW j \in 1 .. Len(Stamps(s))
  PROVE  LET p == Stamps(s)
             n == Len(p)
             group == pass \div s.repeat
             again == pass % s.repeat
             start == GroupStart(s, group, p[1])
         IN /\ group \in 0 .. Groups(s) - 1 /\ again \in Nat /\ again < s.repeat
            /\ pass = group * s.repeat + again
            /\ start \in Time /\ start \in Int /\ 1 \in 1 .. n /\ n \in 1 .. n
            /\ p[1] \in Int /\ p[j] \in Int /\ p[n] \in Int
            /\ RawBase(s, pass, j)
                 = start + again * ((p[n] - p[1]) + s.repeat_interval) + (p[j] - p[1])
            /\ RawBase(s, pass, j) \in Int /\ Base(s, pass, j) \in Time
<1> DEFINE p == Stamps(s)
           n == Len(p)
           b == s.repeat
           group == pass \div b
           again == pass % b
           start == GroupStart(s, group, p[1])
           every == s.repeat_interval
<1>1. /\ p \in Seq(Time) /\ n \in Nat /\ b \in Nat /\ b > 0 /\ Groups(s) \in Nat
      /\ every \in Nat /\ Passes(s) = Groups(s) * b /\ pass \in Nat /\ pass < Passes(s)
  BY StampsAre, SettingGives DEF Passes
<1>2. 1 \in 1 .. n /\ n \in 1 .. n /\ p[1] \in Time /\ p[j] \in Time /\ p[n] \in Time
  BY <1>1
<1>3. p[1] \in Int /\ p[j] \in Int /\ p[n] \in Int
  BY <1>2, TimelineAssumption DEF Time
<1>4. group \in Nat /\ again \in Nat /\ again < b /\ pass = group * b + again
  BY <1>1, DivisionOf
<1>5. group < Groups(s)
  <2> HIDE DEF group, again, b
  <2> DEFINE c == Groups(s)
  <2>1. c \in Nat /\ pass < c * b
    BY <1>1
  <2> HIDE DEF c
  <2> SUFFICES ASSUME ~(group < c) PROVE FALSE
    BY DEF c
  <2>2. c * b <= group * b
    BY <1>1, <1>4, <2>1
  <2>3. c * b \in Nat /\ group * b \in Nat
    BY <1>1, <1>4, <2>1
  <2> QED  BY <1>4, <2>1, <2>2, <2>3
<1>6. start \in Time /\ start \in Int
  <2>1. group \in 0 .. Groups(s) - 1
    BY <1>1, <1>4, <1>5
  <2>2. start \in Time
    BY <1>2, <2>1, GroupStartIs
  <2> HIDE DEF start
  <2> QED  BY <2>2, TimelineAssumption DEF Time
<1>7. RawBase(s, pass, j) = start + again * ((p[n] - p[1]) + every) + (p[j] - p[1])
  <2>1. Last(p) = p[n] /\ Head(p) = p[1]
    BY <1>1, <1>2 DEF Last
  <2> QED  BY <2>1 DEF RawBase, SpanOf
<1>8. RawBase(s, pass, j) \in Int
  <2> DEFINE e == (p[n] - p[1]) + every
             d == p[j] - p[1]
  <2>1. e \in Int /\ d \in Int
    BY <1>1, <1>3
  <2> HIDE DEF e, d, again, start
  <2>2. again * e \in Int
    BY <1>4, <2>1
  <2> QED  BY <1>6, <1>7, <2>1, <2>2 DEF e, d
<1>9. Base(s, pass, j) \in Time
  BY <1>8, Saturates DEF Base
<1> HIDE DEF p, n, b, group, again, start, every
<1>10. group \in 0 .. Groups(s) - 1
  BY <1>1, <1>4, <1>5
<1> QED  BY <1>2, <1>3, <1>4, <1>6, <1>7, <1>8, <1>9, <1>10 DEF p, n, b, group, again, start, every

Tame(s) == InTimeOrder(Stamps(s)) \/ NothingSaturates(s)

\* A later packet of a pass keeps its distance to the first one.
LEMMA PacketInPass ==
  ASSUME NEW s \in Settings, NEW pass \in 0 .. Passes(s) - 1, NEW j \in 1 .. Len(Stamps(s))
  PROVE  LET p == Stamps(s) IN
         /\ p[j] - p[1] \in Int /\ Base(s, pass, 1) \in Time /\ Base(s, pass, j) \in Time
         /\ RawBase(s, pass, 1) \in Int
         /\ RawBase(s, pass, j) = RawBase(s, pass, 1) + (p[j] - p[1])
         /\ InTimeOrder(p) => p[j] - p[1] >= 0 /\ RawBase(s, pass, 1) >= MinTime
<1> DEFINE p == Stamps(s)
           n == Len(p)
           start == GroupStart(s, pass \div s.repeat, p[1])
           m == pass % s.repeat
           e == (p[n] - p[1]) + s.repeat_interval
           d == p[j] - p[1]
<1>1. /\ start \in Time /\ start \in Int /\ m \in Nat /\ 1 \in 1 .. n /\ n \in 1 .. n
      /\ p[1] \in Int /\ p[j] \in Int /\ p[n] \in Int
      /\ RawBase(s, pass, j) = start + m * e + d
      /\ Base(s, pass, j) \in Time
  BY PlaceIs
<1>2. RawBase(s, pass, 1) = start + m * e + (p[1] - p[1]) /\ Base(s, pass, 1) \in Time
  BY <1>1, PlaceIs
<1>3. s.repeat_interval \in Nat
  BY SettingGives
<1>4. e \in Int /\ d \in Int
  BY <1>1, <1>3
<1>5. InTimeOrder(p) => d >= 0 /\ e >= 0
  <2> SUFFICES ASSUME InTimeOrder(p) PROVE d >= 0 /\ e >= 0
    OBVIOUS
  <2>1. DOMAIN p = 1 .. n
    BY StampsAre
  <2>2. n \in Nat
    BY StampsAre
  <2>3. p[1] <= p[j]
    BY <1>1, <2>1, <2>2 DEF InTimeOrder
  <2>4. p[1] <= p[n]
    BY <1>1, <2>1, <2>2 DEF InTimeOrder
  <2> HIDE DEF p, n
  <2> QED  BY <1>1, <1>3, <2>3, <2>4
<1>6. p[1] - p[1] = 0
  BY <1>1
<1>7. MinTime \in Int /\ start >= MinTime
  BY <1>1, TimelineAssumption DEF Time
<1> HIDE DEF start, m, e, d
<1>8. m * e \in Int /\ (e >= 0 => m * e >= 0)
  BY <1>1, <1>4
<1>9. RawBase(s, pass, 1) = start + m * e /\ RawBase(s, pass, 1) \in Int
  BY <1>1, <1>2, <1>6, <1>8
<1>10. InTimeOrder(p) => d >= 0 /\ RawBase(s, pass, 1) >= MinTime
  BY <1>1, <1>5, <1>7, <1>8, <1>9
<1> QED  BY <1>1, <1>2, <1>4, <1>9, <1>10 DEF d

\* The first packet of a group.
LEMMA GroupOpens ==
  ASSUME NEW s \in Settings, NEW pass \in 0 .. Passes(s) - 1, pass % s.repeat = 0,
         Len(Stamps(s)) > 0
  PROVE  Base(s, pass, 1) = GroupStart(s, pass \div s.repeat, Stamps(s)[1])
<1> DEFINE p == Stamps(s)
           n == Len(p)
           start == GroupStart(s, pass \div s.repeat, p[1])
           e == (p[n] - p[1]) + s.repeat_interval
<1>1. 1 \in 1 .. n
  BY StampsAre
<1>2. /\ start \in Time /\ start \in Int /\ n \in 1 .. n
      /\ p[1] \in Int /\ p[n] \in Int
      /\ RawBase(s, pass, 1) = start + 0 * e + (p[1] - p[1])
  BY <1>1, PlaceIs
<1>3. s.repeat_interval \in Nat
  BY SettingGives
<1>4. e \in Int /\ p[1] - p[1] = 0
  BY <1>2, <1>3
<1> HIDE DEF start, e
<1>5. RawBase(s, pass, 1) = start
  BY <1>2, <1>4
<1> QED  BY <1>2, <1>5, Saturates DEF Base, start

\* The first packet of a repetition.
LEMMA PassFollows ==
  ASSUME NEW s \in Settings, NEW pass \in Nat, pass + 1 < Passes(s),
         (pass + 1) % s.repeat # 0, Len(Stamps(s)) > 0, Tame(s)
  PROVE  Base(s, pass + 1, 1)
           = Saturated(Base(s, pass, Len(Stamps(s))) + s.repeat_interval)
<1> DEFINE p == Stamps(s)
           n == Len(p)
           b == s.repeat
           start == GroupStart(s, pass \div b, p[1])
           m == pass % b
           i == s.repeat_interval
           d == p[n] - p[1]
<1>1. b \in Nat /\ b > 0 /\ i \in Nat /\ Passes(s) \in Nat
  BY SettingGives
<1>2. (pass + 1) % b = m + 1 /\ (pass + 1) \div b = pass \div b
  BY <1>1, NextQuotient
<1>3. pass \in 0 .. Passes(s) - 1 /\ pass + 1 \in 0 .. Passes(s) - 1 /\ 1 \in 1 .. n /\ n \in 1 .. n
  BY <1>1, StampsAre
<1>4. /\ start \in Int /\ m \in Nat /\ p[1] \in Int /\ p[n] \in Int
      /\ RawBase(s, pass, n) = start + m * (d + i) + d /\ RawBase(s, pass, n) \in Int
  BY <1>3, PlaceIs
<1>5. RawBase(s, pass + 1, 1) = start + (m + 1) * (d + i) + (p[1] - p[1])
  BY <1>2, <1>3, PlaceIs
<1>6. d \in Int /\ p[1] - p[1] = 0
  BY <1>4
<1>7. RawBase(s, pass + 1, 1) = RawBase(s, pass, n) + i
  <2> HIDE DEF start, m, i, d
  <2>1. d + i \in Int
    BY <1>1, <1>6
  <2>2. m * (d + i) \in Int /\ (m + 1) * (d + i) = m * (d + i) + (d + i)
    BY <1>4, <2>1
  <2> QED  BY <1>1, <1>4, <1>5, <1>6, <2>2
<1>8. (RawBase(s, pass, n) >= MinTime /\ i >= 0) \/ RawBase(s, pass, n) \in Time
  <2>1. CASE InTimeOrder(p)
    <3>1. /\ RawBase(s, pass, n) = RawBase(s, pass, 1) + d /\ d >= 0
          /\ RawBase(s, pass, 1) >= MinTime /\ RawBase(s, pass, 1) \in Int
      BY <1>3, <2>1, PacketInPass
    <3> HIDE DEF d, i
    <3> QED  BY <1>1, <1>6, <3>1, TimelineAssumption
  <2>2. CASE NothingSaturates(s)
    <3>1. DOMAIN p = 1 .. n
      BY StampsAre
    <3> QED  BY <1>3, <2>2, <3>1 DEF NothingSaturates
  <2> QED  BY <2>1, <2>2 DEF Tame
<1>9. i \in Int
  BY <1>1
<1> HIDE DEF i
<1> QED  BY <1>4, <1>7, <1>8, <1>9, SaturatedSum DEF Base, i

Since(s, first, j) == Saturated(Saturated(Stamps(s)[j] - Stamps(s)[1]) + first)

\* What the reader computes for a later packet is its place, ...
LEMMA SinceIsThePlace ==
  ASSUME NEW s \in Settings, NEW pass \in 0 .. Passes(s) - 1, NEW j \in 1 .. Len(Stamps(s)),
         DistancesFit(s), Tame(s)
  PROVE  Since(s, Base(s, pass, 1), j) = Base(s, pass, j)
<1> DEFINE p == Stamps(s)
           d == p[j] - p[1]
           raw == RawBase(s, pass, 1)
<1>1. /\ d \in Int /\ raw \in Int /\ RawBase(s, pass, j) = raw + d
      /\ InTimeOrder(p) => d >= 0 /\ raw >= MinTime
  BY PacketInPass
<1>2. DOMAIN p = 1 .. Len(p) /\ Len(p) \in Nat
  BY StampsAre
<1>3. d \in Time
  BY <1>2 DEF DistancesFit
<1>4. NothingSaturates(s) => raw \in Time
  BY <1>2 DEF NothingSaturates
<1>5. Since(s, Base(s, pass, 1), j) = Saturated(Saturated(d) + Saturated(raw))
  BY DEF Since, Base
<1> HIDE DEF d, raw
<1>6. Saturated(d) = d /\ Saturated(raw) \in Int
  <2>1. Saturated(raw) \in Time
    BY <1>1, Saturates
  <2> QED  BY <1>1, <1>3, <2>1, Saturates, TimelineAssumption DEF Time
<1>7. Saturated(Saturated(raw) + d) = Saturated(raw + d)
  BY <1>1, <1>4, SaturatedSum DEF Tame, p
<1>8. Saturated(d) + Saturated(raw) = Saturated(raw) + d
  BY <1>1, <1>6
<1> QED  BY <1>1, <1>5, <1>7, <1>8 DEF Base

\* ... and no later than it when the pass started early.
LEMMA SinceIsNoLater ==
  ASSUME NEW s \in Settings, NEW pass \in 0 .. Passes(s) - 1, NEW j \in 1 .. Len(Stamps(s)),
         NEW first \in Time, first <= Base(s, pass, 1), InTimeOrder(Stamps(s))
  PROVE  Since(s, first, j) <= Base(s, pass, j)
<1> DEFINE p == Stamps(s)
           d == p[j] - p[1]
           raw == RawBase(s, pass, 1)
<1>1. /\ d \in Int /\ raw \in Int /\ RawBase(s, pass, j) = raw + d
      /\ d >= 0 /\ raw >= MinTime
  BY PacketInPass
<1>2. Since(s, first, j) = Saturated(Saturated(d) + first) /\ first <= Saturated(raw)
  BY DEF Since, Base
<1> HIDE DEF d, raw
<1>3. Saturated(d) \in Int /\ Saturated(d) <= d /\ first \in Int /\ Saturated(raw) \in Int
  BY <1>1, TimelineAssumption DEF Saturated, Time
<1>4. Saturated(d) + first <= Saturated(raw) + d
  BY <1>1, <1>2, <1>3
<1>5. Saturated(Saturated(d) + first) <= Saturated(Saturated(raw) + d)
  BY <1>1, <1>3, <1>4, SaturatedRises
<1>6. Saturated(Saturated(raw) + d) = Saturated(raw + d)
  BY <1>1, SaturatedSum
<1> QED  BY <1>1, <1>2, <1>5, <1>6 DEF Base

\* Later packets of a file are not earlier in a pass.
LEMMA SinceRises ==
  ASSUME NEW s \in Settings, NEW first \in Time, InTimeOrder(Stamps(s)),
         NEW j \in 1 .. Len(Stamps(s)), NEW k \in 1 .. Len(Stamps(s)), j <= k
  PROVE  Since(s, first, j) \in Time /\ Since(s, first, j) <= Since(s, first, k)
         /\ Since(s, first, 1) = first
<1> DEFINE p == Stamps(s)
           x == p[j] - p[1]
           y == p[k] - p[1]
<1>1. p \in Seq(Time) /\ DOMAIN p = 1 .. Len(p) /\ 1 \in 1 .. Len(p)
  BY StampsAre
<1>2. p[j] \in Time /\ p[k] \in Time /\ p[1] \in Time
  BY <1>1
<1>3. p[j] <= p[k]
  <2>1. j = k \/ j < k
    OBVIOUS
  <2>2. p[j] \in Int
    BY <1>2, TimelineAssumption DEF Time
  <2> QED  BY <1>1, <2>1, <2>2 DEF InTimeOrder
<1>4. x \in Int /\ y \in Int /\ x <= y /\ p[1] - p[1] = 0 /\ first \in Int
  <2>1. p[j] \in Int /\ p[k] \in Int /\ p[1] \in Int /\ first \in Int
    BY <1>2, TimelineAssumption DEF Time
  <2> QED  BY <1>3, <2>1
<1> HIDE DEF x, y
<1>5. Saturated(x) \in Int /\ Saturated(y) \in Int /\ Saturated(x) <= Saturated(y)
  BY <1>4, SaturatedRises, TimelineAssumption DEF Saturated
<1>6. Saturated(x) + first \in Int /\ Saturated(y) + first \in Int
      /\ Saturated(x) + first <= Saturated(y) + first
  BY <1>4, <1>5
<1>7. /\ Saturated(Saturated(x) + first) \in Time
      /\ Saturated(Saturated(x) + first) <= Saturated(Saturated(y) + first)
  BY <1>6, Saturates, SaturatedRises
<1>8. Since(s, first, 1) = first
  <2>1. Saturated(0) = 0 /\ 0 + first = first /\ Saturated(first) = first
    BY <1>4, Saturates, TimelineAssumption DEF Saturated
  <2> QED  BY <1>4, <2>1 DEF Since
<1> QED  BY <1>7, <1>8 DEF Since, x, y

-----------------------------------------------------------------------------
(* Where the reader is.                                                    *)

Copies(s) == [DOMAIN s.jitter -> Time]

Position ==
  /\ setting \in Settings /\ Left(setting, reader)
  /\ current \in 0 .. Passes(setting) /\ pc \in {"reading", "finished", "aborted"}
  /\ first_packet_time \in Time \cup {NoTime} /\ last_packet_time \in Time
  /\ yielded \in Seq(Copies(setting))
  /\ \A k \in DOMAIN yielded : yielded[k] = Spread(setting, yielded[k][1])
  /\ pc = "reading" =>
       /\ current < Passes(setting)
       /\ Len(yielded) = current * Len(Stamps(setting)) + Count(setting, reader)
       /\ first_packet_time = NoTime <=> Count(setting, reader) = 0
       /\ first_packet_time # NoTime => original_first_packet_time = Stamps(setting)[1]
  /\ pc # "reading" => Len(yielded) = current * Len(Stamps(setting))
  /\ pc = "finished" => current = Passes(setting)

\* What a packet finds.
LEMMA PacketFinds ==
  ASSUME Position, APacket
  PROVE  /\ setting \in Settings /\ current \in 0 .. Passes(setting) - 1 /\ current \in Nat
         /\ Len(Stamps(setting)) \in Nat /\ Len(Stamps(setting)) > 0
         /\ Count(setting, reader) \in Nat
         /\ Count(setting, reader) + 1 \in 1 .. Len(Stamps(setting))
         /\ Stamps(setting)[Count(setting, reader) + 1] = Head(reader)
         /\ Stamps(setting)[1] \in Time /\ Head(reader) \in Time
         /\ Count(setting, reader) = 0 => Stamps(setting)[1] = Head(reader)
         /\ Len(yielded) = current * Len(Stamps(setting)) + Count(setting, reader)
         /\ Left(setting, Tail(reader))
         /\ Count(setting, Tail(reader)) = Count(setting, reader) + 1
<1>1. /\ setting \in Settings /\ Left(setting, reader) /\ reader # << >> /\ Head(reader) # ReadError
      /\ current \in 0 .. Passes(setting) /\ current < Passes(setting)
      /\ Len(yielded) = current * Len(Stamps(setting)) + Count(setting, reader)
  BY DEF Position, APacket
<1>2. Passes(setting) \in Nat /\ Len(Stamps(setting)) \in Nat
  BY <1>1, SettingGives, StampsAre
<1>3. /\ Left(setting, Tail(reader)) /\ Count(setting, reader) \in Nat
      /\ Head(reader) \in Time /\ Count(setting, Tail(reader)) = Count(setting, reader) + 1
      /\ Count(setting, reader) + 1 <= Len(Stamps(setting))
      /\ Stamps(setting)[Count(setting, reader) + 1] = Head(reader)
      /\ Stamps(setting)[1] \in Time
      /\ (Count(setting, reader) = 0 => Stamps(setting)[1] = Head(reader))
  BY <1>1, OneRecord
<1> QED  BY <1>1, <1>2, <1>3

\* What a batch leaves behind.
LEMMA YieldKeepsPosition ==
  ASSUME Position, APacket, NEW t \in Time, Yield(t), first_packet_time' \in Time,
         original_first_packet_time' = Stamps(setting)[1]
  PROVE  Position'
<1>1. /\ setting \in Settings /\ current \in 0 .. Passes(setting) - 1 /\ current \in Nat
      /\ Len(Stamps(setting)) \in Nat /\ Count(setting, reader) \in Nat
      /\ Len(yielded) = current * Len(Stamps(setting)) + Count(setting, reader)
      /\ Left(setting, Tail(reader))
      /\ Count(setting, Tail(reader)) = Count(setting, reader) + 1
  BY PacketFinds
<1>2. /\ last_packet_time' = t /\ yielded' = Append(yielded, Spread(setting, t))
      /\ reader' = Tail(reader) /\ setting' = setting /\ current' = current /\ pc' = pc
      /\ pc = "reading"
  BY DEF Yield, APacket
<1>3. /\ yielded \in Seq(Copies(setting)) /\ current \in 0 .. Passes(setting)
      /\ \A k \in DOMAIN yielded : yielded[k] = Spread(setting, yielded[k][1])
      /\ current < Passes(setting)
  BY <1>2 DEF Position
<1>4. Spread(setting, t) \in Copies(setting) /\ Spread(setting, t)[1] = t
  BY <1>1, SpreadIs DEF Copies
<1>5. /\ yielded' \in Seq(Copies(setting)) /\ Len(yielded') = Len(yielded) + 1
      /\ yielded'[Len(yielded) + 1] = Spread(setting, t)
      /\ \A k \in DOMAIN yielded : yielded'[k] = yielded[k]
      /\ \A k \in DOMAIN yielded' : k \in DOMAIN yielded \/ k = Len(yielded) + 1
  <2> DEFINE x == Spread(setting, t)
  <2>1. x \in Copies(setting) /\ yielded' = Append(yielded, x)
    BY <1>2, <1>4
  <2> HIDE DEF x
  <2> QED  BY <1>3, <2>1 DEF x
<1>6. \A k \in DOMAIN yielded' : yielded'[k] = Spread(setting, yielded'[k][1])
  BY <1>3, <1>4, <1>5
<1>7. Len(yielded') = current * Len(Stamps(setting)) + Count(setting, Tail(reader))
  <2> DEFINE all == current * Len(Stamps(setting))
             c == Count(setting, reader)
  <2>1. all \in Int /\ c \in Int /\ Len(yielded) = all + c
    BY <1>1
  <2> HIDE DEF all, c
  <2>2. (all + c) + 1 = all + (c + 1)
    BY <2>1
  <2> QED  BY <1>1, <1>5, <2>1, <2>2 DEF all, c
<1>8. first_packet_time' # NoTime /\ Count(setting, Tail(reader)) # 0
  BY <1>1, PacketReaderAssumption, TimelineAssumption DEF Time
<1> QED  BY <1>1, <1>2, <1>3, <1>5, <1>6, <1>7, <1>8 DEF Position

\* Where the steps put a packet.
LEMMA NewGroupPlaces ==
  ASSUME Position, NewGroup
  PROVE  LET t == GroupStart(setting, current \div setting.repeat, Stamps(setting)[1]) IN
         /\ t \in Time /\ Yield(t) /\ first_packet_time' = t
         /\ original_first_packet_time' = Stamps(setting)[1]
         /\ Count(setting, reader) = 0 /\ t = Base(setting, current, 1) /\ APacket
<1>1. APacket /\ first_packet_time = NoTime /\ current % setting.repeat = 0
      /\ FirstOfPass(GroupStart(setting, current \div setting.repeat, Head(reader)))
  BY DEF NewGroup, AtGroupStart
<1>2. Count(setting, reader) = 0
  BY <1>1 DEF Position, APacket
<1>3. /\ setting \in Settings /\ current \in 0 .. Passes(setting) - 1
      /\ Len(Stamps(setting)) \in Nat /\ Len(Stamps(setting)) > 0
      /\ Stamps(setting)[1] = Head(reader)
  BY <1>1, <1>2, PacketFinds
<1>4. Base(setting, current, 1)
        = GroupStart(setting, current \div setting.repeat, Stamps(setting)[1])
  BY <1>1, <1>3, GroupOpens
<1>5. Base(setting, current, 1) \in Time
  <2>1. 1 \in 1 .. Len(Stamps(setting))
    BY <1>3
  <2> QED  BY <1>3, <2>1, PlaceIs
<1> QED  BY <1>1, <1>2, <1>3, <1>4, <1>5 DEF FirstOfPass

\* The first packet of a repetition, as next() places it.
LEMMA NextRepeatPlaces ==
  ASSUME Position, NextRepeat
  PROVE  LET t == Saturated(last_packet_time + setting.repeat_interval) IN
         /\ t \in Time /\ Yield(t) /\ first_packet_time' = t /\ last_packet_time <= t
         /\ original_first_packet_time' = Stamps(setting)[1]
         /\ Count(setting, reader) = 0 /\ current > 0 /\ APacket
         /\ \A x \in Time :
              /\ Tame(setting) /\ x = Base(setting, current - 1, Len(Stamps(setting)))
                   => Base(setting, current, 1) = Saturated(x + setting.repeat_interval)
              /\ last_packet_time <= x => t <= Saturated(x + setting.repeat_interval)
<1> DEFINE i == setting.repeat_interval
           n == Len(Stamps(setting))
<1>1. APacket /\ first_packet_time = NoTime /\ current % setting.repeat # 0
      /\ FirstOfPass(Saturated(last_packet_time + i)) /\ last_packet_time \in Time
  BY DEF NextRepeat, AtGroupStart, Position
<1>2. Count(setting, reader) = 0
  BY <1>1 DEF Position, APacket
<1>3. /\ setting \in Settings /\ current \in 0 .. Passes(setting) - 1 /\ current \in Nat
      /\ n \in Nat /\ n > 0 /\ Stamps(setting)[1] = Head(reader)
  BY <1>1, <1>2, PacketFinds
<1>4. i \in Nat /\ setting.repeat \in Nat /\ setting.repeat > 0 /\ Passes(setting) \in Nat
  BY <1>3, SettingGives
<1>5. current > 0
  <2>1. 0 % setting.repeat = 0
    BY <1>4
  <2> QED  BY <1>1, <1>3, <2>1
<1>6. ASSUME Tame(setting)
      PROVE  Base(setting, current, 1) = Saturated(Base(setting, current - 1, n) + i)
  <2>1. current - 1 \in Nat /\ (current - 1) + 1 = current /\ current < Passes(setting)
    BY <1>3, <1>4, <1>5
  <2>2. ((current - 1) + 1) % setting.repeat # 0 /\ (current - 1) + 1 < Passes(setting)
    BY <1>1, <2>1
  <2>3. Base(setting, (current - 1) + 1, 1) = Saturated(Base(setting, current - 1, n) + i)
    BY <1>3, <1>6, <2>1, <2>2, PassFollows
  <2> QED  BY <2>1, <2>3
<1> HIDE DEF i
<1>7. ASSUME NEW x \in Time
      PROVE  /\ x + i \in Int /\ Saturated(x + i) \in Time /\ x <= Saturated(x + i)
             /\ last_packet_time <= x => Saturated(last_packet_time + i) <= Saturated(x + i)
  <2>1. x \in Int /\ last_packet_time \in Int
    BY <1>1, TimelineAssumption DEF Time
  <2>2. x + i \in Int /\ x <= x + i /\ last_packet_time + i \in Int
        /\ (last_packet_time <= x => last_packet_time + i <= x + i)
    BY <1>4, <2>1
  <2>3. Saturated(x) = x
    BY <2>1, Saturates
  <2> QED  BY <2>1, <2>2, <2>3, Saturates, SaturatedRises
<1>8. /\ Saturated(last_packet_time + i) \in Time
      /\ last_packet_time <= Saturated(last_packet_time + i)
  BY <1>1, <1>7
<1> QED  BY <1>1, <1>2, <1>3, <1>5, <1>6, <1>7, <1>8 DEF FirstOfPass, i

\* Any other packet, as next() places it.
LEMMA SamePassPlaces ==
  ASSUME Position, SamePass
  PROVE  LET t == Since(setting, first_packet_time, Count(setting, reader) + 1) IN
         /\ t \in Time /\ Yield(t)
         /\ first_packet_time' = first_packet_time /\ first_packet_time \in Time
         /\ original_first_packet_time' = Stamps(setting)[1]
         /\ Count(setting, reader) > 0 /\ APacket
<1>1. /\ APacket /\ first_packet_time # NoTime /\ pc = "reading"
      /\ Yield(Saturated(Saturated(Head(reader) - original_first_packet_time)
                           + first_packet_time))
      /\ original_first_packet_time' = original_first_packet_time
      /\ first_packet_time' = first_packet_time
  BY DEF SamePass, APacket
<1>2. /\ original_first_packet_time = Stamps(setting)[1] /\ first_packet_time \in Time
      /\ Count(setting, reader) # 0
  BY <1>1 DEF Position
<1>3. /\ Stamps(setting)[Count(setting, reader) + 1] = Head(reader)
      /\ Stamps(setting)[1] \in Time /\ Head(reader) \in Time
      /\ Count(setting, reader) \in Nat
  BY <1>1, PacketFinds
<1>4. Since(setting, first_packet_time, Count(setting, reader) + 1) \in Time
  <2> DEFINE d == Saturated(Head(reader) - Stamps(setting)[1])
  <2>1. Head(reader) - Stamps(setting)[1] \in Int /\ first_packet_time \in Int
    BY <1>2, <1>3, TimelineAssumption DEF Time
  <2>2. d \in Int
    BY <2>1, Saturates, TimelineAssumption DEF Time
  <2> HIDE DEF d
  <2>3. Saturated(d + first_packet_time) \in Time
    BY <2>1, <2>2, Saturates
  <2> QED  BY <1>3, <2>3 DEF Since, d
<1> QED  BY <1>1, <1>2, <1>3, <1>4 DEF Since

\* At the end of the file a whole pass has been yielded.
LEMMA EndFinds ==
  ASSUME Position, EndOfFile
  PROVE  /\ setting \in Settings /\ current \in 0 .. Passes(setting) - 1 /\ current \in Nat
         /\ current + 1 \in 0 .. Passes(setting) /\ current' = current + 1
         /\ Len(Stamps(setting)) \in Nat /\ Count(setting, reader) = Len(Stamps(setting))
         /\ Len(yielded) = (current + 1) * Len(Stamps(setting))
<1>1. /\ setting \in Settings /\ reader = << >> /\ pc = "reading" /\ current' = current + 1
      /\ current \in 0 .. Passes(setting) /\ current < Passes(setting)
      /\ Len(yielded) = current * Len(Stamps(setting)) + Count(setting, reader)
  BY DEF Position, EndOfFile
<1>2. /\ Count(setting, reader) = Len(Stamps(setting)) /\ Len(Stamps(setting)) \in Nat
      /\ Passes(setting) \in Nat
  BY <1>1, NothingLeft, StampsAre, SettingGives
<1>3. current \in Nat /\ current \in 0 .. Passes(setting) - 1 /\ current + 1 \in 0 .. Passes(setting)
  BY <1>1, <1>2
<1>4. current * Len(Stamps(setting)) + Len(Stamps(setting)) = (current + 1) * Len(Stamps(setting))
  <2> DEFINE n == Len(Stamps(setting))
  <2>1. n \in Nat
    BY <1>2
  <2> HIDE DEF n
  <2>2. current * n + n = (current + 1) * n
    BY <1>3, <2>1
  <2> QED  BY <2>2 DEF n
<1> QED  BY <1>1, <1>2, <1>3, <1>4

\* The first packet has not been read, and nothing has been yielded.
LEMMA PositionStarts ==
  ASSUME Init
  PROVE  Position
<1>1. /\ setting \in Settings /\ reader = setting.file /\ current = 0 /\ first_packet_time = NoTime
      /\ last_packet_time = 0 /\ yielded = << >> /\ pc = "reading"
  BY DEF Init
<1>2. Left(setting, reader) /\ Count(setting, reader) = 0
  BY <1>1, WholeFile
<1>3. Passes(setting) \in Nat /\ Passes(setting) > 0 /\ Len(Stamps(setting)) \in Nat
  BY <1>1, SettingGives, StampsAre
<1>4. 0 \in Time
  BY TimelineAssumption DEF Time
<1>5. yielded \in Seq(Copies(setting)) /\ Len(yielded) = 0 /\ DOMAIN yielded = {}
  BY <1>1
<1>6. 0 * Len(Stamps(setting)) + 0 = 0
  BY <1>3
<1> QED  BY <1>1, <1>2, <1>3, <1>4, <1>5, <1>6 DEF Position

\* Every turn of the loop keeps track of its position.
LEMMA PositionHolds ==
  ASSUME Position, [Next]_vars
  PROVE  Position'
<1>1. ASSUME NewGroup PROVE Position'
  BY <1>1, NewGroupPlaces, YieldKeepsPosition
<1>2. ASSUME NextRepeat PROVE Position'
  BY <1>2, NextRepeatPlaces, YieldKeepsPosition
<1>3. ASSUME SamePass PROVE Position'
  BY <1>3, SamePassPlaces, YieldKeepsPosition
<1>4. ASSUME SkipError PROVE Position'
  <2>1. Left(setting, Tail(reader)) /\ Count(setting, Tail(reader)) = Count(setting, reader)
    BY <1>4, OneRecord DEF SkipError, Position
  <2> QED  BY <1>4, <2>1 DEF SkipError, Position
<1>5. ASSUME Finish PROVE Position'
  <2>1. EndOfFile /\ current' = Passes(setting)
    BY <1>5 DEF Finish, LastPass
  <2> QED  BY <1>5, <2>1, EndFinds DEF Finish, Position
<1>6. ASSUME Reopen PROVE Position'
  <2>1. EndOfFile /\ current' # Passes(setting) /\ pc = "reading"
    BY <1>6 DEF Reopen, LastPass, EndOfFile
  <2>2. /\ setting \in Settings /\ current' = current + 1 /\ current + 1 \in 0 .. Passes(setting)
        /\ Len(Stamps(setting)) \in Nat /\ current \in Nat
        /\ Len(yielded) = (current + 1) * Len(Stamps(setting))
    BY <2>1, EndFinds
  <2>3. Left(setting, setting.file) /\ Count(setting, setting.file) = 0 /\ Passes(setting) \in Nat
    BY <2>2, WholeFile, SettingGives
  <2>4. current' < Passes(setting) /\ current' \in 0 .. Passes(setting)
    BY <2>1, <2>2, <2>3
  <2>5. Len(yielded) = current' * Len(Stamps(setting)) + 0
    <3> DEFINE all == (current + 1) * Len(Stamps(setting))
    <3>1. all \in Int /\ Len(yielded) = all
      BY <2>2
    <3> HIDE DEF all
    <3>2. Len(yielded) = all + 0
      BY <3>1
    <3> QED  BY <2>2, <3>2 DEF all
  <2> QED  BY <1>6, <2>1, <2>2, <2>3, <2>4, <2>5 DEF Reopen, Position
<1>7. ASSUME ReopenFails PROVE Position'
  <2>1. EndOfFile
    BY <1>7 DEF ReopenFails
  <2> QED  BY <1>7, <2>1, EndFinds DEF ReopenFails, Position
<1>8. ASSUME UNCHANGED vars PROVE Position'
  BY <1>8 DEF vars, Position
<1> QED
  BY <1>1, <1>2, <1>3, <1>4, <1>5, <1>6, <1>7, <1>8 DEF Next, Stopped

-----------------------------------------------------------------------------
(* Nothing goes back.                                                      *)

Rising ==
  InTimeOrder(Stamps(setting)) /\ Spaced(setting) =>
    /\ \A j, k \in DOMAIN yielded : j < k => yielded[j][1] <= yielded[k][1]
    /\ pc = "reading" =>
         /\ yielded # << >> => last_packet_time = yielded[Len(yielded)][1]
         /\ Count(setting, reader) > 0 =>
              /\ first_packet_time <= Base(setting, current, 1)
              /\ last_packet_time = Since(setting, first_packet_time, Count(setting, reader))
         /\ Count(setting, reader) = 0 /\ Len(Stamps(setting)) > 0 /\ current > 0 =>
              last_packet_time <= Base(setting, current - 1, Len(Stamps(setting)))

\* A batch that is not before the last one.
LEMMA YieldKeepsRising ==
  ASSUME Position, Rising, APacket, NEW t \in Time, Yield(t),
         InTimeOrder(Stamps(setting)), Spaced(setting),
         yielded # << >> => last_packet_time <= t,
         first_packet_time' <= Base(setting, current, 1),
         t = Since(setting, first_packet_time', Count(setting, reader) + 1)
  PROVE  Rising'
<1>1. /\ setting \in Settings /\ Count(setting, reader) \in Nat
      /\ Count(setting, Tail(reader)) = Count(setting, reader) + 1
  BY PacketFinds
<1>2. /\ last_packet_time' = t /\ yielded' = Append(yielded, Spread(setting, t))
      /\ reader' = Tail(reader) /\ setting' = setting /\ current' = current /\ pc' = pc
      /\ pc = "reading"
  BY DEF Yield, APacket
<1>3. yielded \in Seq(Copies(setting))
  BY DEF Position
<1>4. Spread(setting, t)[1] = t
  BY <1>1, SpreadIs
<1>5. /\ Len(yielded') = Len(yielded) + 1 /\ yielded'[Len(yielded) + 1][1] = t
      /\ \A k \in 1 .. Len(yielded) : yielded'[k] = yielded[k]
      /\ DOMAIN yielded' = 1 .. Len(yielded) + 1
  <2> DEFINE x == Spread(setting, t)
  <2>1. yielded' = Append(yielded, x) /\ x[1] = t
    BY <1>2, <1>4
  <2> HIDE DEF x
  <2> QED  BY <1>3, <2>1
<1>6. Len(yielded) \in Nat /\ DOMAIN yielded = 1 .. Len(yielded)
      /\ \A k \in 1 .. Len(yielded) : yielded[k][1] \in Int
  <2>1. ASSUME NEW k \in 1 .. Len(yielded) PROVE yielded[k][1] \in Int
    <3>1. yielded[k] \in Copies(setting) /\ 1 \in DOMAIN setting.jitter
      BY <1>1, <1>3, SettingGives
    <3> QED  BY <3>1, TimelineAssumption DEF Copies, Time
  <2> QED  BY <1>3, <2>1
<1>7. /\ \A j, k \in 1 .. Len(yielded) : j < k => yielded[j][1] <= yielded[k][1]
      /\ yielded # << >> => last_packet_time = yielded[Len(yielded)][1]
  BY <1>2, <1>6 DEF Rising
<1>8. \A j \in 1 .. Len(yielded) : yielded[j][1] <= t
  <2> DEFINE m == Len(yielded)
             f(k) == yielded[k][1]
  <2>1. m \in Nat /\ (m > 0 => yielded # << >>)
    BY <1>3
  <2>2. /\ \A j \in 1 .. m : f(j) \in Int
        /\ \A j, k \in 1 .. m : j < k => f(j) <= f(k)
        /\ m > 0 => f(m) <= t
    <3>1. yielded # << >> => f(m) <= t
      BY <1>7
    <3> QED  BY <1>6, <1>7, <2>1, <3>1
  <2>3. t \in Int
    BY TimelineAssumption DEF Time
  <2> HIDE DEF m, f
  <2> SUFFICES ASSUME NEW j \in 1 .. m PROVE f(j) <= t
    BY DEF m, f
  <2>4. m \in 1 .. m /\ m > 0 /\ (j = m \/ j < m)
    BY <2>1
  <2>5. f(j) <= f(m) /\ f(m) <= t /\ f(j) \in Int /\ f(m) \in Int
    BY <2>2, <2>4
  <2> QED  BY <2>3, <2>5
<1>9. \A j, k \in DOMAIN yielded' : j < k => yielded'[j][1] <= yielded'[k][1]
  <2> SUFFICES ASSUME NEW j \in DOMAIN yielded', NEW k \in DOMAIN yielded', j < k
               PROVE  yielded'[j][1] <= yielded'[k][1]
    OBVIOUS
  <2>1. j \in 1 .. Len(yielded) /\ (k = Len(yielded) + 1 \/ k \in 1 .. Len(yielded))
    BY <1>5, <1>6
  <2> QED  BY <1>5, <1>7, <1>8, <2>1
<1>10. last_packet_time' = yielded'[Len(yielded')][1]
  BY <1>2, <1>5
<1>11. ~(Count(setting, Tail(reader)) = 0)
  BY <1>1
<1> QED  BY <1>1, <1>2, <1>9, <1>10, <1>11 DEF Rising

\* A group starts where the one before it has ended.
LEMMA GroupAfterGroup ==
  ASSUME NEW s \in Settings, NEW pass \in 0 .. Passes(s) - 1, pass % s.repeat = 0, pass > 0,
         Len(Stamps(s)) > 0, Spaced(s)
  PROVE  Base(s, pass - 1, Len(Stamps(s))) <= Base(s, pass, 1)
<1> DEFINE g == pass \div s.repeat
<1>1. 1 \in 1 .. Len(Stamps(s)) /\ s.repeat \in Nat /\ Groups(s) \in Nat /\ Stamps(s) # << >>
  BY StampsAre, SettingGives
<1>2. g \in 0 .. Groups(s) - 1 /\ pass = g * s.repeat + 0
  BY <1>1, PlaceIs
<1> HIDE DEF g
<1>3. g # 0 /\ pass = g * s.repeat
  BY <1>1, <1>2
<1>4. g \in 1 .. Groups(s) - 1
  BY <1>1, <1>2, <1>3
<1> QED  BY <1>1, <1>3, <1>4 DEF Spaced

\* No turn of the loop goes back in time.
LEMMA RisingHolds ==
  ASSUME Position, Rising, [Next]_vars
  PROVE  Rising'
<1> DEFINE n == Len(Stamps(setting))
           c == Count(setting, reader)
<1>a. /\ setting' = setting /\ setting \in Settings /\ n \in Nat /\ Stamps(setting) \in Seq(Time)
      /\ last_packet_time \in Time
  <2>1. setting' = setting
    BY DEF Next, vars, NewGroup, NextRepeat, SamePass, FirstOfPass, Yield, SkipError, Finish,
           Reopen, ReopenFails, Stopped
  <2>2. setting \in Settings /\ last_packet_time \in Time
    BY DEF Position
  <2> QED  BY <2>1, <2>2, StampsAre
<1> SUFFICES ASSUME InTimeOrder(Stamps(setting)), Spaced(setting)
             PROVE  Rising'
  BY <1>a DEF Rising
<1>b. Tame(setting)
  BY DEF Tame
\* What holds before the first packet of a pass.
<1>c. ASSUME APacket, c = 0
      PROVE  /\ n > 0 /\ 1 \in 1 .. n /\ current \in 0 .. Passes(setting) - 1 /\ current \in Nat
             /\ yielded # << >> => current > 0
             /\ current > 0 => /\ current - 1 \in 0 .. Passes(setting) - 1 /\ n \in 1 .. n
                               /\ Base(setting, current - 1, n) \in Time
                               /\ last_packet_time <= Base(setting, current - 1, n)
             /\ Base(setting, current, 1) \in Time
  <2>1. /\ n > 0 /\ current \in 0 .. Passes(setting) - 1 /\ current \in Nat
        /\ Len(yielded) = current * n + 0
    BY <1>c, PacketFinds
  <2>2. yielded # << >> => current > 0
    <3>1. current = 0 => Len(yielded) = 0
      BY <1>a, <2>1
    <3>2. yielded \in Seq(Copies(setting))
      BY DEF Position
    <3>3. Len(yielded) = 0 => yielded = << >>
      BY <3>2
    <3> QED  BY <2>1, <3>1, <3>3
  <2>3. 1 \in 1 .. n /\ n \in 1 .. n /\ Passes(setting) \in Nat
    BY <1>a, <2>1, SettingGives
  <2>4. Base(setting, current, 1) \in Time
    BY <1>a, <2>1, <2>3, PlaceIs
  <2>5. ASSUME current > 0
        PROVE  /\ current - 1 \in 0 .. Passes(setting) - 1 /\ Base(setting, current - 1, n) \in Time
               /\ last_packet_time <= Base(setting, current - 1, n)
    <3>1. current - 1 \in 0 .. Passes(setting) - 1
      BY <2>1, <2>3, <2>5
    <3>2. Base(setting, current - 1, n) \in Time
      BY <1>a, <2>3, <3>1, PlaceIs
    <3>3. last_packet_time <= Base(setting, current - 1, n)
      BY <1>c, <2>1, <2>5 DEF Rising, APacket
    <3> QED  BY <3>1, <3>2, <3>3
  <2> QED  BY <2>1, <2>2, <2>3, <2>4, <2>5
<1>1. ASSUME NewGroup PROVE Rising'
  <2> DEFINE t == GroupStart(setting, current \div setting.repeat, Stamps(setting)[1])
  <2>1. /\ t \in Time /\ Yield(t) /\ first_packet_time' = t /\ c = 0 /\ APacket
        /\ t = Base(setting, current, 1)
    BY <1>1, NewGroupPlaces
  <2>2. current % setting.repeat = 0
    BY <1>1 DEF NewGroup, AtGroupStart
  <2> HIDE DEF t
  <2>3. yielded # << >> => last_packet_time <= t
    <3> SUFFICES ASSUME yielded # << >> PROVE last_packet_time <= t
      OBVIOUS
    <3>1. /\ current > 0 /\ Base(setting, current - 1, n) \in Time /\ n > 0
          /\ current \in 0 .. Passes(setting) - 1
          /\ last_packet_time <= Base(setting, current - 1, n)
      BY <1>c, <2>1
    <3>2. Base(setting, current - 1, n) <= Base(setting, current, 1)
      BY <1>a, <2>2, <3>1, GroupAfterGroup
    <3>3. last_packet_time \in Int /\ t \in Int /\ Base(setting, current - 1, n) \in Int
      BY <1>a, <2>1, <3>1, TimelineAssumption DEF Time
    <3> QED  BY <2>1, <3>1, <3>2, <3>3
  <2>4. t <= Base(setting, current, 1) /\ t = Since(setting, t, c + 1)
    <3>1. 1 \in 1 .. n /\ 0 + 1 = 1 /\ t \in Int /\ 1 <= 1
      BY <1>c, <2>1, TimelineAssumption DEF Time
    <3>2. Since(setting, t, 1) = t
      BY <1>a, <2>1, <3>1, SinceRises
    <3> QED  BY <2>1, <3>1, <3>2
  <2> QED  BY <2>1, <2>3, <2>4, YieldKeepsRising
<1>2. ASSUME NextRepeat PROVE Rising'
  <2> DEFINE i == setting.repeat_interval
             t == Saturated(last_packet_time + i)
             x == Base(setting, current - 1, n)
  <2>1. /\ t \in Time /\ Yield(t) /\ first_packet_time' = t /\ last_packet_time <= t
        /\ c = 0 /\ current > 0 /\ APacket
        /\ \A y \in Time :
              /\ Tame(setting) /\ y = x => Base(setting, current, 1) = Saturated(y + i)
              /\ last_packet_time <= y => t <= Saturated(y + i)
    BY <1>2, NextRepeatPlaces
  <2> HIDE DEF t, i
  <2>2. x \in Time /\ last_packet_time <= x
    BY <1>c, <2>1
  <2> HIDE DEF x
  <2>3. t <= Base(setting, current, 1)
    BY <1>b, <2>1, <2>2
  <2>4. t = Since(setting, t, c + 1)
    <3>1. 1 \in 1 .. n /\ 0 + 1 = 1 /\ 1 <= 1
      BY <1>c, <2>1
    <3>2. Since(setting, t, 1) = t
      BY <1>a, <2>1, <3>1, SinceRises
    <3> QED  BY <2>1, <3>1, <3>2
  <2> QED  BY <2>1, <2>3, <2>4, YieldKeepsRising
<1>3. ASSUME SamePass PROVE Rising'
  <2> DEFINE t == Since(setting, first_packet_time, c + 1)
  <2>1. /\ t \in Time /\ Yield(t) /\ first_packet_time' = first_packet_time
        /\ first_packet_time \in Time /\ c > 0 /\ APacket
    BY <1>3, SamePassPlaces
  <2>2. c \in Nat /\ c + 1 \in 1 .. n
    BY <2>1, PacketFinds
  <2>3. /\ first_packet_time <= Base(setting, current, 1)
        /\ last_packet_time = Since(setting, first_packet_time, c)
    BY <2>1 DEF Rising, APacket
  <2>4. c \in 1 .. n /\ c <= c + 1
    BY <1>a, <2>1, <2>2
  <2>5. last_packet_time <= t
    BY <1>a, <2>1, <2>2, <2>3, <2>4, SinceRises
  <2> HIDE DEF t
  <2>6. t = Since(setting, first_packet_time', c + 1)
    BY <2>1 DEF t
  <2> QED  BY <2>1, <2>3, <2>5, <2>6, YieldKeepsRising
<1>4. ASSUME SkipError PROVE Rising'
  <2>1. Count(setting, Tail(reader)) = c
    BY <1>4, OneRecord DEF SkipError, Position
  <2> QED  BY <1>4, <2>1 DEF SkipError, Rising
<1>5. ASSUME Finish PROVE Rising'
  BY <1>5 DEF Finish, EndOfFile, Rising
<1>6. ASSUME Reopen PROVE Rising'
  <2>1. EndOfFile /\ reader' = setting.file /\ UNCHANGED << last_packet_time, yielded, pc >>
        /\ pc = "reading"
    BY <1>6 DEF Reopen, EndOfFile
  <2>2. /\ current \in 0 .. Passes(setting) - 1 /\ current \in Nat /\ current' = current + 1
        /\ c = n
    BY <2>1, EndFinds
  <2>3. Count(setting, setting.file) = 0
    BY <1>a, WholeFile
  <2>4. ASSUME n > 0 PROVE last_packet_time <= Base(setting, current' - 1, n)
    <3>1. n \in 1 .. n /\ current' - 1 = current
      BY <1>a, <2>2, <2>4
    <3>2. /\ first_packet_time <= Base(setting, current, 1)
          /\ last_packet_time = Since(setting, first_packet_time, n)
      BY <2>1, <2>2, <2>4 DEF Rising
    <3>3. first_packet_time \in Time
      <4>1. c # 0 /\ pc = "reading"
        BY <2>1, <2>2, <2>4
      <4> QED  BY <4>1 DEF Position
    <3> QED  BY <1>a, <2>2, <3>1, <3>2, <3>3, SinceIsNoLater
  <2> QED  BY <1>a, <2>1, <2>2, <2>3, <2>4 DEF Rising
<1>7. ASSUME ReopenFails PROVE Rising'
  BY <1>7 DEF ReopenFails, EndOfFile, Rising
<1>8. ASSUME UNCHANGED vars PROVE Rising'
  BY <1>8 DEF vars, Rising
<1> QED
  BY <1>1, <1>2, <1>3, <1>4, <1>5, <1>6, <1>7, <1>8 DEF Next, Stopped

-----------------------------------------------------------------------------
(* Every packet is where the timeline has it.                              *)

Exact ==
  DistancesFit(setting) /\ Tame(setting) =>
    /\ \A k \in DOMAIN yielded :
         yielded[k][1] = Base(setting, (k - 1) \div Len(Stamps(setting)),
                                       ((k - 1) % Len(Stamps(setting))) + 1)
    /\ pc = "reading" =>
         /\ Count(setting, reader) > 0 =>
              /\ first_packet_time = Base(setting, current, 1)
              /\ last_packet_time = Base(setting, current, Count(setting, reader))
         /\ Count(setting, reader) = 0 /\ Len(Stamps(setting)) > 0 /\ current > 0 =>
              last_packet_time = Base(setting, current - 1, Len(Stamps(setting)))

\* A batch in its place.
LEMMA YieldKeepsExact ==
  ASSUME Position, Exact, APacket, NEW t \in Time, Yield(t),
         DistancesFit(setting), Tame(setting),
         first_packet_time' = Base(setting, current, 1),
         t = Base(setting, current, Count(setting, reader) + 1)
  PROVE  Exact'
<1> DEFINE n == Len(Stamps(setting))
           c == Count(setting, reader)
<1>1. /\ setting \in Settings /\ c \in Nat /\ c + 1 \in 1 .. n /\ n \in Nat /\ n > 0
      /\ current \in Nat /\ Len(yielded) = current * n + c
      /\ Count(setting, Tail(reader)) = c + 1
  BY PacketFinds
<1>2. /\ last_packet_time' = t /\ yielded' = Append(yielded, Spread(setting, t))
      /\ reader' = Tail(reader) /\ setting' = setting /\ current' = current /\ pc' = pc
      /\ pc = "reading"
  BY DEF Yield, APacket
<1>3. yielded \in Seq(Copies(setting))
  BY DEF Position
<1>4. Spread(setting, t)[1] = t
  BY <1>1, SpreadIs
<1>5. /\ yielded'[Len(yielded) + 1][1] = t
      /\ \A k \in 1 .. Len(yielded) : yielded'[k] = yielded[k]
      /\ DOMAIN yielded' = 1 .. Len(yielded) + 1 /\ DOMAIN yielded = 1 .. Len(yielded)
      /\ Len(yielded) \in Nat
  <2> DEFINE x == Spread(setting, t)
  <2>1. yielded' = Append(yielded, x) /\ x[1] = t
    BY <1>2, <1>4
  <2> HIDE DEF x
  <2> QED  BY <1>3, <2>1
<1> HIDE DEF n, c
<1>6. Len(yielded) \div n = current /\ Len(yielded) % n = c
  <2> DEFINE l == Len(yielded)
  <2>1. n \in Nat /\ n > 0 /\ current \in Nat /\ c \in Nat /\ c < n /\ l = current * n + c
    BY <1>1
  <2> HIDE DEF l
  <2>2. l \div n = current /\ l % n = c
    BY ONLY <2>1, DivisionIs
  <2> QED  BY <2>2 DEF l
<1>7. ASSUME NEW k \in DOMAIN yielded'
      PROVE  yielded'[k][1] = Base(setting, (k - 1) \div n, ((k - 1) % n) + 1)
  <2>1. CASE k = Len(yielded) + 1
    <3>1. k - 1 = Len(yielded)
      BY <1>5, <2>1
    <3> QED  BY <1>5, <1>6, <2>1, <3>1 DEF c
  <2>2. CASE k \in 1 .. Len(yielded)
    <3>1. yielded[k][1] = Base(setting, (k - 1) \div n, ((k - 1) % n) + 1)
      BY <1>5, <2>2 DEF Exact, n
    <3> QED  BY <1>5, <2>2, <3>1
  <2> QED  BY <1>5, <2>1, <2>2
<1>8. ~(Count(setting, Tail(reader)) = 0)
  BY <1>1
<1> QED  BY <1>1, <1>2, <1>7, <1>8 DEF Exact, n, c

\* Every turn of the loop puts its packet in its place.
LEMMA ExactHolds ==
  ASSUME Position, Exact, [Next]_vars
  PROVE  Exact'
<1> DEFINE n == Len(Stamps(setting))
           c == Count(setting, reader)
<1>a. /\ setting' = setting /\ setting \in Settings /\ n \in Nat
  <2>1. setting' = setting
    BY DEF Next, vars, NewGroup, NextRepeat, SamePass, FirstOfPass, Yield, SkipError, Finish,
           Reopen, ReopenFails, Stopped
  <2>2. setting \in Settings
    BY DEF Position
  <2> QED  BY <2>1, <2>2, StampsAre
<1> SUFFICES ASSUME DistancesFit(setting), Tame(setting)
             PROVE  Exact'
  BY <1>a DEF Exact
<1>1. ASSUME NewGroup PROVE Exact'
  <2> DEFINE t == GroupStart(setting, current \div setting.repeat, Stamps(setting)[1])
  <2>1. /\ t \in Time /\ Yield(t) /\ first_packet_time' = t /\ c = 0 /\ APacket
        /\ t = Base(setting, current, 1)
    BY <1>1, NewGroupPlaces
  <2> HIDE DEF t
  <2>2. 0 + 1 = 1
    OBVIOUS
  <2> QED  BY <2>1, <2>2, YieldKeepsExact
<1>2. ASSUME NextRepeat PROVE Exact'
  <2> DEFINE i == setting.repeat_interval
             t == Saturated(last_packet_time + i)
             x == Base(setting, current - 1, n)
  <2>1. /\ t \in Time /\ Yield(t) /\ first_packet_time' = t
        /\ c = 0 /\ current > 0 /\ APacket /\ last_packet_time \in Time
        /\ \A y \in Time : Tame(setting) /\ y = x => Base(setting, current, 1) = Saturated(y + i)
    BY <1>2, NextRepeatPlaces DEF Position
  <2>2. n > 0
    BY <2>1, PacketFinds
  <2>3. last_packet_time = x
    BY <2>1, <2>2 DEF Exact, APacket
  <2> HIDE DEF x
  <2>4. Base(setting, current, 1) = t
    BY <2>1, <2>3
  <2> HIDE DEF t
  <2>5. 0 + 1 = 1
    OBVIOUS
  <2> QED  BY <2>1, <2>4, <2>5, YieldKeepsExact
<1>3. ASSUME SamePass PROVE Exact'
  <2> DEFINE t == Since(setting, first_packet_time, c + 1)
  <2>1. /\ t \in Time /\ Yield(t) /\ first_packet_time' = first_packet_time
        /\ c > 0 /\ APacket
    BY <1>3, SamePassPlaces
  <2>2. c + 1 \in 1 .. n /\ current \in 0 .. Passes(setting) - 1
    BY <2>1, PacketFinds
  <2>3. first_packet_time = Base(setting, current, 1)
    BY <2>1 DEF Exact, APacket
  <2>4. t = Base(setting, current, c + 1)
    BY <1>a, <2>2, <2>3, SinceIsThePlace
  <2> HIDE DEF t
  <2> QED  BY <2>1, <2>3, <2>4, YieldKeepsExact
<1>4. ASSUME SkipError PROVE Exact'
  <2>1. Count(setting, Tail(reader)) = c
    BY <1>4, OneRecord DEF SkipError, Position
  <2> QED  BY <1>4, <2>1 DEF SkipError, Exact
<1>5. ASSUME Finish PROVE Exact'
  BY <1>5 DEF Finish, EndOfFile, Exact
<1>6. ASSUME Reopen PROVE Exact'
  <2>1. EndOfFile /\ reader' = setting.file /\ UNCHANGED << last_packet_time, yielded, pc >>
        /\ pc = "reading"
    BY <1>6 DEF Reopen, EndOfFile
  <2>2. current \in Nat /\ current' = current + 1 /\ c = n
    BY <2>1, EndFinds
  <2>3. Count(setting, setting.file) = 0
    BY <1>a, WholeFile
  <2>4. ASSUME n > 0 PROVE last_packet_time = Base(setting, current' - 1, n)
    <3>1. current' - 1 = current
      BY <2>2
    <3> QED  BY <2>1, <2>2, <2>4, <3>1 DEF Exact
  <2> QED  BY <1>a, <2>1, <2>2, <2>3, <2>4 DEF Exact
<1>7. ASSUME ReopenFails PROVE Exact'
  BY <1>7 DEF ReopenFails, EndOfFile, Exact
<1>8. ASSUME UNCHANGED vars PROVE Exact'
  BY <1>8 DEF vars, Exact
<1> QED
  BY <1>1, <1>2, <1>3, <1>4, <1>5, <1>6, <1>7, <1>8 DEF Next, Stopped

-----------------------------------------------------------------------------
(* The theorems.                                                           *)

\* A new PacketReader.
LEMMA Starts ==
  ASSUME Init
  PROVE  Position /\ Rising /\ Exact
<1>1. /\ setting \in Settings /\ reader = setting.file /\ current = 0 /\ yielded = << >>
      /\ pc = "reading" /\ DOMAIN yielded = {}
  BY DEF Init
<1>2. Count(setting, reader) = 0
  BY <1>1, WholeFile
<1>3. Position
  BY PositionStarts
<1> QED  BY <1>1, <1>2, <1>3 DEF Rising, Exact

\* The invariant.
LEMMA HoldsThroughout == Spec => [](Position /\ Rising /\ Exact)
<1>1. Init => Position /\ Rising /\ Exact
  BY Starts
<1>2. (Position /\ Rising /\ Exact) /\ [Next]_vars => (Position /\ Rising /\ Exact)'
  BY PositionHolds, RisingHolds, ExactHolds
<1> QED  BY <1>1, <1>2, PTL DEF Spec

\* What the merge relies on, from the invariant.
LEMMA BoundFollows ==
  ASSUME Position, Rising
  PROVE  BoundIfSpaced
<1> SUFFICES ASSUME InTimeOrder(Stamps(setting)), Spaced(setting)
             PROVE  LowerBound /\ LeastFirst
  BY DEF BoundIfSpaced
<1>1. ASSUME NEW k \in DOMAIN yielded
      PROVE  /\ yielded[k][1] \in Int
             /\ \A g \in DOMAIN setting.jitter : yielded[k][g] \in Int
                                                  /\ yielded[k][1] <= yielded[k][g]
  <2> DEFINE t == yielded[k][1]
  <2>1. /\ setting \in Settings /\ yielded[k] \in Copies(setting)
        /\ yielded[k] = Spread(setting, t)
    <3>1. yielded \in Seq(Copies(setting)) /\ setting \in Settings
          /\ yielded[k] = Spread(setting, t)
      BY DEF Position
    <3>2. yielded[k] \in Copies(setting)
      BY <3>1
    <3> QED  BY <3>1, <3>2
  <2>2. t \in Time /\ \A g \in DOMAIN setting.jitter : yielded[k][g] \in Time
    BY <2>1, SettingGives DEF Copies
  <2>3. \A g \in DOMAIN setting.jitter : t <= Spread(setting, t)[g]
    BY <2>1, <2>2, SpreadIs
  <2> QED  BY <2>1, <2>2, <2>3, TimelineAssumption DEF Time
<1>2. LeastFirst
  BY <1>1 DEF LeastFirst
<1>3. LowerBound
  <2> SUFFICES ASSUME NEW j \in DOMAIN yielded, NEW k \in DOMAIN yielded, j < k,
                      NEW g \in DOMAIN setting.jitter
               PROVE  yielded[j][1] <= yielded[k][g]
    BY DEF LowerBound
  <2>1. yielded[j][1] <= yielded[k][1]
    BY DEF Rising
  <2> DEFINE a == yielded[j][1]
             b == yielded[k][1]
             e == yielded[k][g]
  <2>2. a <= b /\ b <= e /\ a \in Int /\ b \in Int /\ e \in Int
    BY <1>1, <2>1
  <2> HIDE DEF a, b, e
  <2>3. a <= e
    BY <2>2
  <2> QED  BY <2>3 DEF a, e
<1> QED  BY <1>2, <1>3

\* The timeline, from the invariant.
LEMMA TimelineFollows ==
  ASSUME Position, Exact
  PROVE  FollowsTimeline
<1> DEFINE n == Len(Stamps(setting))
           c == Count(setting, reader)
           all == Passes(setting) * n
           place(k) == Spread(setting, Base(setting, (k - 1) \div n, ((k - 1) % n) + 1))
           T == Timeline(setting)
<1> SUFFICES ASSUME DistancesFit(setting), Tame(setting)
             PROVE  IsPrefix(yielded, T) /\ (pc = "finished" => yielded = T)
  BY DEF FollowsTimeline, Tame
<1>1. /\ setting \in Settings /\ Left(setting, reader) /\ yielded \in Seq(Copies(setting))
      /\ current \in 0 .. Passes(setting)
  BY DEF Position
<1>2. n \in Nat /\ Passes(setting) \in Nat /\ c \in 0 .. n
  BY <1>1, StampsAre, SettingGives, CountIs
<1>3. \A k \in 1 .. Len(yielded) : yielded[k] = place(k)
  <2> SUFFICES ASSUME NEW k \in 1 .. Len(yielded) PROVE yielded[k] = place(k)
    OBVIOUS
  <2>1. k \in DOMAIN yielded
    BY <1>1
  <2>2. yielded[k] = Spread(setting, yielded[k][1])
    BY <2>1 DEF Position
  <2>3. yielded[k][1] = Base(setting, (k - 1) \div n, ((k - 1) % n) + 1)
    BY <2>1 DEF Exact
  <2> QED  BY <2>2, <2>3
<1>4. T = [k \in 1 .. all |-> place(k)]
  BY DEF Timeline
<1>5. Len(yielded) <= all /\ (pc = "finished" => Len(yielded) = all) /\ all \in Nat
  <2>1. /\ pc = "reading" => current < Passes(setting) /\ Len(yielded) = current * n + c
        /\ pc # "reading" => Len(yielded) = current * n
        /\ pc = "finished" => current = Passes(setting)
    BY DEF Position
  <2> DEFINE p == Passes(setting)
  <2>2. p \in Nat /\ current \in Nat /\ current <= p /\ (current < p => current + 1 <= p)
    BY <1>1, <1>2
  <2> HIDE DEF n, c
  <2>3. current * n <= p * n
    <3> HIDE DEF p
    <3> QED  BY <1>2, <2>2
  <2>4. current < p => (current + 1) * n <= p * n
    <3> HIDE DEF p
    <3> QED  BY <1>2, <2>2
  <2>5. (current + 1) * n = current * n + n /\ current * n \in Nat /\ p * n \in Nat
    <3> HIDE DEF p
    <3> QED  BY <1>2, <2>2
  <2> HIDE DEF p
  <2>6. all = p * n
    BY DEF p, n
  <2>7. CASE pc = "reading"
    <3>1. current < p /\ Len(yielded) = current * n + c
      BY <2>1, <2>7 DEF p, n, c
    <3>2. current * n + c <= current * n + n
      BY <1>2, <2>5
    <3> QED  BY <1>2, <2>4, <2>5, <2>6, <2>7, <3>1, <3>2
  <2>8. CASE pc # "reading"
    BY <2>1, <2>3, <2>5, <2>6, <2>8 DEF p, n
  <2> QED  BY <2>7, <2>8
<1> HIDE DEF place, all, T
<1>6. /\ Len(yielded) \in Nat /\ DOMAIN yielded = 1 .. Len(yielded)
      /\ yielded = [k \in 1 .. Len(yielded) |-> yielded[k]]
  BY <1>1
<1>7. Len(T) = all /\ \A k \in 1 .. all : T[k] = place(k)
  BY <1>4, <1>5
<1>8. \A k \in 1 .. Len(yielded) : yielded[k] = T[k]
  BY <1>3, <1>5, <1>6, <1>7
<1>9. IsPrefix(yielded, T)
  <2>1. SubSeq(yielded, 1, Len(yielded)) = SubSeq(T, 1, Len(yielded))
    <3>1. SubSeq(yielded, 1, Len(yielded)) = [k \in 1 .. (1 + Len(yielded) - 1) |-> yielded[k + 1 - 1]]
      BY <1>6
    <3> QED  BY <1>6, <1>8
  <2> QED  BY <1>5, <1>7, <2>1 DEF IsPrefix
<1>10. ASSUME pc = "finished" PROVE yielded = T
  BY <1>3, <1>4, <1>5, <1>6, <1>10
<1> QED  BY <1>9, <1>10

\* The batches are those of the timeline the options describe, and all of them when the
\* reader finishes (PacketReader::next), if distances fit an i64 and either the file is in
\* order or no addition saturates.
THEOREM TimelineIsFollowed == Spec => []FollowsTimeline
BY HoldsThroughout, TimelineFollows, PTL

\* The least time of a batch bounds whatever the reader still has, as pull() of the merge
\* takes for granted, for ordered files and groups that do not overlap.
THEOREM BoundIsKept == Spec => []BoundIfSpaced
BY HoldsThroughout, BoundFollows, PTL

-----------------------------------------------------------------------------
(* One order.                                                              *)

\* Two sequences in time order with the same elements are the same.
LEMMA OneOrder ==
  ASSUME NEW a \in Seq(Int), NEW b \in Seq(Int), Rearranged(a, b), InTimeOrder(a), InTimeOrder(b)
  PROVE  \A k \in 1 .. Len(a) : ~ (a[k] < b[k])
<1> DEFINE n == Len(a)
<1>1. PICK p, q : Moves(a, b, p, q)
  BY DEF Rearranged
<1>2. n \in Nat /\ Len(b) = n
  BY DEF Rearranged
<1>3. /\ p \in [1 .. n -> 1 .. n] /\ \A i \in 1 .. n : q[p[i]] = i /\ a[i] = b[p[i]]
      /\ \A i \in 1 .. n : a[i] \in Int /\ b[i] \in Int
      /\ \A i, j \in 1 .. n : i <= j => a[i] <= a[j] /\ b[i] <= b[j]
  <2>1. p \in [1 .. n -> 1 .. n] /\ \A i \in 1 .. n : q[p[i]] = i /\ a[i] = b[p[i]]
    BY <1>1 DEF Moves
  <2>2. /\ \A i \in 1 .. n : a[i] \in Int /\ b[i] \in Int
        /\ DOMAIN a = 1 .. n /\ DOMAIN b = 1 .. n
    BY <1>2
  <2>3. ASSUME NEW i \in 1 .. n, NEW j \in 1 .. n, i <= j
        PROVE  a[i] <= a[j] /\ b[i] <= b[j]
    <3>1. CASE i = j
      BY <2>2, <3>1
    <3>2. CASE i < j
      BY <2>2, <3>2 DEF InTimeOrder
    <3> QED  BY <1>2, <2>3, <3>1, <3>2
  <2> QED  BY <2>1, <2>2, <2>3
<1> HIDE DEF n
<1>4. SUFFICES ASSUME NEW k \in 1 .. n, a[k] < b[k]  PROVE FALSE
  BY DEF n
<1>5. k \in Nat /\ k > 0 /\ k <= n /\ k - 1 \in Nat
  BY <1>2
<1>6. ASSUME NEW i \in 1 .. k  PROVE i \in 1 .. n /\ p[i] \in 1 .. k - 1
  <2>1. i \in 1 .. n /\ i <= k
    BY <1>2, <1>5
  <2>2. p[i] \in 1 .. n /\ b[p[i]] = a[i] /\ a[i] <= a[k]
    BY <1>3, <2>1
  <2>3. ASSUME k <= p[i]  PROVE FALSE
    <3>1. b[k] <= b[p[i]]
      BY <1>3, <2>2, <2>3
    <3>2. a[i] \in Int /\ a[k] \in Int /\ b[k] \in Int
      BY <1>3, <2>1
    <3> QED  BY <1>4, <2>2, <3>1, <3>2
  <2> QED  BY <1>5, <2>1, <2>2, <2>3
<1> DEFINE f == [i \in 1 .. k |-> p[i]]
<1>7. f \in [1 .. k -> 1 .. k - 1]
  BY <1>6
<1>8. /\ IsFiniteSet(1 .. k) /\ IsFiniteSet(1 .. k - 1)
      /\ Cardinality(1 .. k) = k /\ Cardinality(1 .. k - 1) = k - 1
  BY <1>5, FS_Interval
<1> HIDE DEF f
<1>9. PICK i, j \in 1 .. k : i # j /\ f[i] = f[j]
  <2>1. Cardinality(1 .. k - 1) < Cardinality(1 .. k)
    BY <1>5, <1>8
  <2> QED  BY <1>7, <1>8, <2>1, FS_PigeonHole
<1>10. p[i] = p[j]
  BY <1>9 DEF f
<1> QED  BY <1>3, <1>6, <1>9, <1>10

LEMMA OneOrderOnly ==
  ASSUME NEW a \in Seq(Int), NEW b \in Seq(Int), Rearranged(a, b), InTimeOrder(a), InTimeOrder(b)
  PROVE  a = b
<1>1. Rearranged(b, a) /\ Len(a) = Len(b)
  BY RearrangedBack DEF Rearranged
<1>2. ASSUME NEW k \in 1 .. Len(a)  PROVE a[k] = b[k]
  <2>1. ~ (a[k] < b[k]) /\ ~ (b[k] < a[k])
    BY <1>1, OneOrder
  <2>2. a[k] \in Int /\ b[k] \in Int
    BY <1>1
  <2> QED  BY <2>1, <2>2
<1> QED  BY <1>1, <1>2, SeqEqual

-----------------------------------------------------------------------------
(* A pass puts the timestamps in order.                                    *)

\* The place where t belongs.
LEMMA PlaceToInsert ==
  ASSUME NEW a \in Seq(Int), InTimeOrder(a), NEW t \in Int
  PROVE  \E c \in 1 .. Len(a) + 1 :
           /\ \A j \in 1 .. c - 1 : a[j] <= t
           /\ \A j \in c .. Len(a) : a[j] > t
<1> DEFINE n == Len(a)
           U == {m \in Nat : m <= n =>
                   \E c \in 1 .. m + 1 : /\ \A j \in 1 .. c - 1 : a[j] <= t
                                         /\ \A j \in c .. m : a[j] > t}
<1>1. n \in Nat /\ \A j \in 1 .. n : a[j] \in Int
  OBVIOUS
<1>2. \A i, j \in 1 .. n : i < j => a[i] <= a[j]
  BY DEF InTimeOrder
<1> HIDE DEF n
<1>3. 0 \in U
  OBVIOUS
<1>4. ASSUME NEW m \in U  PROVE m + 1 \in U
  <2> SUFFICES ASSUME m + 1 <= n
               PROVE  \E c \in 1 .. m + 2 : /\ \A j \in 1 .. c - 1 : a[j] <= t
                                            /\ \A j \in c .. m + 1 : a[j] > t
    OBVIOUS
  <2>1. m \in Nat /\ m <= n /\ m + 1 \in 1 .. n
    BY <1>1
  <2>2. CASE a[m + 1] <= t
    <3>1. ASSUME NEW j \in 1 .. (m + 2) - 1  PROVE a[j] <= t
      <4>1. j \in 1 .. n /\ (j = m + 1 \/ j < m + 1)
        BY <1>1, <2>1
      <4>2. a[j] \in Int /\ a[m + 1] \in Int
        BY <1>1, <2>1, <4>1
      <4>3. a[j] <= a[m + 1]
        BY <1>2, <2>1, <4>1, <4>2
      <4> QED  BY <2>2, <4>2, <4>3
    <3>2. m + 2 \in 1 .. m + 2 /\ \A j \in m + 2 .. m + 1 : FALSE
      BY <2>1
    <3> QED  BY <3>1, <3>2
  <2>3. CASE ~ (a[m + 1] <= t)
    <3>1. PICK c \in 1 .. m + 1 : /\ \A j \in 1 .. c - 1 : a[j] <= t
                                  /\ \A j \in c .. m : a[j] > t
      BY <2>1
    <3>2. c \in 1 .. m + 2
      BY <2>1
    <3>3. ASSUME NEW j \in c .. m + 1  PROVE a[j] > t
      <4>1. CASE j = m + 1
        BY <4>1, <2>3, <2>1, <1>1
      <4>2. CASE j # m + 1
        <5>1. j \in c .. m
          BY <4>2, <2>1
        <5> QED  BY <5>1, <3>1
      <4> QED  BY <4>1, <4>2
    <3> QED  BY <3>1, <3>2, <3>3
  <2> QED  BY <2>2, <2>3
<1>5. U \in SUBSET Nat
  OBVIOUS
<1> HIDE DEF U
<1>6. n \in U
  BY <1>1, <1>3, <1>4, <1>5, AllNumbers
<1> QED  BY <1>1, <1>6 DEF U, n

LEMMA InsertedIs ==
  ASSUME NEW a \in Seq(Int), InTimeOrder(a), NEW t \in Int
  PROVE  /\ Inserted(a, t) \in Seq(Int) /\ InTimeOrder(Inserted(a, t))
         /\ Rearranged(Inserted(a, t), Append(a, t))
<1> DEFINE n == Len(a)
           x == Inserted(a, t)
           y == Append(a, t)
<1>1. n \in Nat /\ \A j \in 1 .. n : a[j] \in Int
  OBVIOUS
<1>2. PICK c \in 1 .. n + 1 : /\ \A j \in 1 .. c - 1 : a[j] <= t
                              /\ \A j \in c .. n : a[j] > t
  BY PlaceToInsert
<1>3. \A i, j \in 1 .. n : i < j => a[i] <= a[j]
  BY DEF InTimeOrder
<1>4. y \in Seq(Int) /\ Len(y) = n + 1 /\ y[n + 1] = t /\ \A j \in 1 .. n : y[j] = a[j]
  BY AppendProperties
<1>5. x = [j \in 1 .. n + 1 |-> IF j <= n /\ a[j] <= t THEN a[j]
                                ELSE IF j = 1 \/ a[j - 1] <= t THEN t ELSE a[j - 1]]
  BY DEF Inserted
<1> HIDE DEF n, x, y
<1>6. c \in Nat /\ c >= 1 /\ c <= n + 1
  BY <1>1
<1>7. \A j \in 1 .. n + 1 : j < c => x[j] = a[j] /\ j \in 1 .. n
  <2> SUFFICES ASSUME NEW j \in 1 .. n + 1, j < c  PROVE x[j] = a[j] /\ j \in 1 .. n
    OBVIOUS
  <2>1. j \in 1 .. c - 1 /\ j \in 1 .. n /\ j <= n
    BY <1>1, <1>6
  <2>2. a[j] <= t
    BY <1>2, <2>1
  <2> QED  BY <1>5, <2>1, <2>2
<1>8. x[c] = t
  <2>1. ~ (c <= n /\ a[c] <= t)
    <3> SUFFICES ASSUME c <= n  PROVE ~ (a[c] <= t)
      OBVIOUS
    <3>1. c \in c .. n /\ c \in 1 .. n
      BY <1>1, <1>6
    <3> QED  BY <1>1, <1>2, <3>1
  <2>2. c = 1 \/ a[c - 1] <= t
    <3> SUFFICES ASSUME c # 1  PROVE a[c - 1] <= t
      OBVIOUS
    <3>1. c - 1 \in 1 .. c - 1
      BY <1>6
    <3> QED  BY <1>2, <3>1
  <2> QED  BY <1>5, <2>1, <2>2
<1>9. \A j \in 1 .. n + 1 : j > c => x[j] = a[j - 1] /\ j - 1 \in 1 .. n
  <2> SUFFICES ASSUME NEW j \in 1 .. n + 1, j > c  PROVE x[j] = a[j - 1] /\ j - 1 \in 1 .. n
    OBVIOUS
  <2>1. j - 1 \in c .. n /\ j - 1 \in 1 .. n /\ j # 1
    BY <1>1, <1>6
  <2>2. ~ (j <= n /\ a[j] <= t)
    <3> SUFFICES ASSUME j <= n  PROVE ~ (a[j] <= t)
      OBVIOUS
    <3>1. j \in c .. n /\ j \in 1 .. n
      BY <1>1, <1>6
    <3> QED  BY <1>1, <1>2, <3>1
  <2>3. ~ (a[j - 1] <= t)
    BY <1>1, <1>2, <2>1
  <2> QED  BY <1>5, <2>1, <2>2, <2>3
<1>10. DOMAIN x = 1 .. n + 1 /\ \A j \in 1 .. n + 1 : x[j] \in Int
  <2>1. DOMAIN x = 1 .. n + 1
    BY <1>5
  <2>2. ASSUME NEW j \in 1 .. n + 1  PROVE x[j] \in Int
    <3>1. j < c \/ j = c \/ j > c
      BY <1>6
    <3> QED  BY <1>1, <1>7, <1>8, <1>9, <3>1
  <2> QED  BY <2>1, <2>2
<1>11. x \in Seq(Int) /\ Len(x) = n + 1
  <2>1. x \in [1 .. n + 1 -> Int]
    BY <1>5, <1>10
  <2> QED  BY <1>1, <2>1
<1>12. InTimeOrder(x)
  <2> SUFFICES ASSUME NEW i \in 1 .. n + 1, NEW j \in 1 .. n + 1, i < j  PROVE x[i] <= x[j]
    BY <1>10 DEF InTimeOrder
  <2>1. CASE j < c
    <3>1. x[i] = a[i] /\ x[j] = a[j] /\ i \in 1 .. n /\ j \in 1 .. n
      BY <1>6, <1>7, <2>1
    <3> QED  BY <1>3, <3>1
  <2>2. CASE i < c /\ j = c
    <3>1. x[i] = a[i] /\ i \in 1 .. c - 1
      BY <1>6, <1>7, <2>2
    <3> QED  BY <1>2, <1>8, <2>2, <3>1
  <2>3. CASE i < c /\ j > c
    <3>1. x[i] = a[i] /\ i \in 1 .. n /\ x[j] = a[j - 1] /\ j - 1 \in 1 .. n /\ i < j - 1
      BY <1>6, <1>7, <1>9, <2>3
    <3> QED  BY <1>3, <3>1
  <2>4. CASE i = c
    <3>1. x[j] = a[j - 1] /\ j - 1 \in c .. n
      BY <1>1, <1>6, <1>9, <2>4
    <3>2. a[j - 1] > t /\ a[j - 1] \in Int
      BY <1>1, <1>2, <1>6, <3>1
    <3> QED  BY <1>8, <2>4, <3>1, <3>2
  <2>5. CASE i > c
    <3>1. /\ x[i] = a[i - 1] /\ x[j] = a[j - 1] /\ i - 1 \in 1 .. n /\ j - 1 \in 1 .. n
          /\ i - 1 < j - 1
      BY <1>6, <1>9, <2>5
    <3> QED  BY <1>3, <3>1
  <2>6. \/ j < c \/ (i < c /\ j = c) \/ (i < c /\ j > c) \/ i = c \/ i > c
    BY <1>6
  <2> QED  BY <2>1, <2>2, <2>3, <2>4, <2>5, <2>6
<1>13. Rearranged(x, y)
  <2> DEFINE p == [j \in 1 .. n + 1 |-> IF j < c THEN j ELSE IF j = c THEN n + 1 ELSE j - 1]
             q == [j \in 1 .. n + 1 |-> IF j < c THEN j ELSE IF j = n + 1 THEN c ELSE j + 1]
  <2>1. /\ p \in [1 .. n + 1 -> 1 .. n + 1] /\ q \in [1 .. n + 1 -> 1 .. n + 1]
        /\ \A j \in 1 .. n + 1 : q[p[j]] = j /\ p[q[j]] = j
    BY <1>1, <1>6
  <2>2. ASSUME NEW j \in 1 .. n + 1  PROVE x[j] = y[p[j]]
    <3>1. CASE j < c
      <4>1. p[j] = j /\ j \in 1 .. n
        BY <3>1, <1>7
      <4> QED  BY <1>4, <1>7, <3>1, <4>1
    <3>2. CASE j = c
      <4>1. p[j] = n + 1
        BY <3>2, <1>6
      <4> QED  BY <1>4, <1>8, <3>2, <4>1
    <3>3. CASE j > c
      <4>1. p[j] = j - 1 /\ j - 1 \in 1 .. n
        BY <3>3, <1>6, <1>9
      <4> QED  BY <1>4, <1>9, <3>3, <4>1
    <3> QED  BY <1>6, <3>1, <3>2, <3>3
  <2> HIDE DEF p, q
  <2>3. Moves(x, y, p, q)
    BY <1>11, <2>1, <2>2 DEF Moves
  <2> QED  BY <1>4, <1>11, <2>3 DEF Rearranged
<1> QED  BY <1>11, <1>12, <1>13 DEF x, y

Sorts(upTo, seq, n) ==
  /\ upTo[0] = << >>
  /\ \A k \in 1 .. n : upTo[k] = Inserted(upTo[k - 1], seq[k])

InOrder(a, b) == a \in Seq(Int) /\ InTimeOrder(a) /\ Rearranged(a, b)

\* Ascending inserts one timestamp at a time; what it has so far is sorted.
LEMMA AscendingIs ==
  ASSUME NEW seq \in Seq(Int)
  PROVE  InOrder(Ascending(seq), seq)
<1> DEFINE N == Len(seq)
           Body(f) == [k \in 0 .. N |-> IF k = 0 THEN << >> ELSE Inserted(f[k - 1], seq[k])]
           Done(f, n) == /\ DOMAIN f = 0 .. n
                         /\ \A k \in 0 .. n : InOrder(f[k], SubSeq(seq, 1, k))
           S == {n \in Nat : n <= N => \E f \in [0 .. n -> Seq(Int)] : Sorts(f, seq, n) /\ Done(f, n)}
<1>1. N \in Nat /\ \A k \in 1 .. N : seq[k] \in Int
  OBVIOUS
<1>2. 0 \in S
  <2> DEFINE f == [k \in 0 .. 0 |-> << >>]
  <2>1. f \in [0 .. 0 -> Seq(Int)] /\ DOMAIN f = 0 .. 0 /\ Sorts(f, seq, 0)
    BY DEF Sorts
  <2>2. InOrder(<< >>, << >>)
    <3>1. Rearranged(<< >>, << >>)
      BY RearrangedSelf, EmptySeq
    <3> QED  BY <3>1 DEF InOrder, InTimeOrder
  <2>3. SubSeq(seq, 1, 0) = << >> /\ \A k \in 0 .. 0 : f[k] = << >> /\ k = 0
    BY SubSeqEmpty
  <2> QED  BY <2>1, <2>2, <2>3
<1>3. ASSUME NEW n \in S  PROVE n + 1 \in S
  <2>0. n + 1 \in Nat
    OBVIOUS
  <2> SUFFICES ASSUME n + 1 <= N
               PROVE  \E f \in [0 .. n + 1 -> Seq(Int)] : Sorts(f, seq, n + 1) /\ Done(f, n + 1)
    <3> HIDE DEF Done
    <3> QED  BY <2>0
  <2>1. n \in Nat /\ n <= N /\ n + 1 \in 1 .. N /\ seq[n + 1] \in Int
    BY <1>1
  <2>2. PICK f \in [0 .. n -> Seq(Int)] : Sorts(f, seq, n) /\ Done(f, n)
    BY <2>1
  <2> DEFINE x == Inserted(f[n], seq[n + 1])
             g == [k \in 0 .. n + 1 |-> IF k = n + 1 THEN x ELSE f[k]]
  <2>3. f[n] \in Seq(Int) /\ InTimeOrder(f[n]) /\ Rearranged(f[n], SubSeq(seq, 1, n))
    BY <2>1, <2>2 DEF InOrder
  <2>4. x \in Seq(Int) /\ InTimeOrder(x) /\ Rearranged(x, Append(f[n], seq[n + 1]))
    BY <2>1, <2>3, InsertedIs
  <2>5. InOrder(x, SubSeq(seq, 1, n + 1))
    <3> DEFINE s == SubSeq(seq, 1, n)
               e == << seq[n + 1] >>
    <3>1. s \in Seq(Int) /\ e \in Seq(Int)
      BY <2>1, <1>1, SubSeqProperties
    <3>2. SubSeq(seq, 1, n + 1) = s \o e
      <4>1. 1 \in 1 .. Len(seq) /\ n + 1 \in 1 .. Len(seq) /\ (n + 1) - 1 = n
        BY <2>1
      <4> QED  BY <4>1, SubSeqRecursiveSecond
    <3>3. Append(f[n], seq[n + 1]) = f[n] \o e
      BY <2>1, <2>3, AppendIsConcat
    <3>4. Rearranged(f[n] \o e, s \o e)
      BY <2>3, <3>1, RearrangedSelf, RearrangedConcat
    <3>5. (f[n] \o e) \in Seq(Int) /\ (s \o e) \in Seq(Int)
      BY <2>3, <3>1, ConcatProperties
    <3>6. Rearranged(x, s \o e)
      BY <2>4, <3>3, <3>4, <3>5, RearrangedTwice
    <3> QED  BY <2>4, <3>2, <3>6 DEF InOrder
  <2>6. g \in [0 .. n + 1 -> Seq(Int)] /\ DOMAIN g = 0 .. n + 1
    BY <2>1, <2>4
  <2> HIDE DEF x
  <2>7. g[n + 1] = x /\ \A k \in 0 .. n : g[k] = f[k]
    BY <2>1
  <2> HIDE DEF g
  <2>8. Done(g, n + 1)
    <3> SUFFICES ASSUME NEW k \in 0 .. n + 1  PROVE InOrder(g[k], SubSeq(seq, 1, k))
      BY <2>6
    <3>1. CASE k = n + 1
      BY <2>5, <2>7, <3>1
    <3>2. CASE k # n + 1
      <4>1. k \in 0 .. n
        BY <2>1, <3>2
      <4> QED  BY <2>2, <2>7, <4>1
    <3> QED  BY <3>1, <3>2
  <2>9. ASSUME NEW k \in 1 .. n + 1  PROVE g[k] = Inserted(g[k - 1], seq[k])
    <3>1. CASE k = n + 1
      <4>1. g[k] = Inserted(f[n], seq[n + 1]) /\ k - 1 = n /\ g[n] = f[n]
        BY <3>1, <2>1, <2>7 DEF x
      <4> QED  BY <4>1, <3>1
    <3>2. CASE k # n + 1
      <4>1. k \in 1 .. n /\ k - 1 \in 0 .. n /\ k \in 0 .. n
        BY <3>2, <2>1
      <4>2. f[k] = Inserted(f[k - 1], seq[k])
        BY <4>1, <2>2 DEF Sorts
      <4>3. g[k] = f[k] /\ g[k - 1] = f[k - 1]
        BY <4>1, <2>7
      <4> QED  BY <4>2, <4>3
    <3> QED  BY <3>1, <3>2
  <2>10. g[0] = << >>
    <3>1. 0 \in 0 .. n
      BY <2>1
    <3> QED  BY <3>1, <2>2, <2>7 DEF Sorts
  <2>11. Sorts(g, seq, n + 1)
    BY <2>9, <2>10 DEF Sorts
  <2> QED  BY <2>6, <2>8, <2>11
<1>4. S \in SUBSET Nat
  OBVIOUS
<1> HIDE DEF S
<1>5. N \in S
  BY <1>1, <1>2, <1>3, <1>4, AllNumbers
<1>6. PICK f \in [0 .. N -> Seq(Int)] : Sorts(f, seq, N) /\ Done(f, N)
  BY <1>1, <1>5 DEF S
<1>7. f = Body(f)
  <2>1. ASSUME NEW k \in 0 .. N  PROVE f[k] = Body(f)[k]
    <3>1. CASE k = 0
      BY <3>1, <1>6 DEF Sorts
    <3>2. CASE k # 0
      <4>1. k \in 1 .. N
        BY <1>1, <3>2
      <4>2. f[k] = Inserted(f[k - 1], seq[k])
        BY <4>1, <1>6 DEF Sorts
      <4> QED  BY <4>2, <3>2
    <3> QED  BY <3>1, <3>2
  <2> HIDE DEF N
  <2>2. f = [k \in 0 .. N |-> f[k]]
    BY <1>6
  <2> QED  BY <2>1, <2>2
<1> DEFINE c == CHOOSE g : g = Body(g)
<1>8. c = Body(c)
  BY <1>7
<1>9. Ascending(seq) = c[N]
  BY DEF Ascending
<1> HIDE DEF c
<1>10. c[0] = << >> /\ \A k \in 1 .. N : c[k] = Inserted(c[k - 1], seq[k])
  <2>1. \A k \in 0 .. N : c[k] = IF k = 0 THEN << >> ELSE Inserted(c[k - 1], seq[k])
    BY <1>8
  <2>2. ASSUME NEW k \in 1 .. N  PROVE c[k] = Inserted(c[k - 1], seq[k])
    <3>1. k \in 0 .. N /\ k # 0
      BY <1>1
    <3> HIDE DEF N
    <3> QED  BY <2>1, <3>1
  <2>3. 0 \in 0 .. N
    BY <1>1
  <2> QED  BY <2>1, <2>2, <2>3
<1> HIDE DEF Body
<1> DEFINE U == {n \in Nat : n <= N => c[n] = f[n]}
<1>11. \A n \in Nat : n \in U
  <2>1. U \in SUBSET Nat /\ 0 \in U
    BY <1>6, <1>10 DEF Sorts
  <2>2. ASSUME NEW n \in U  PROVE n + 1 \in U
    <3> SUFFICES ASSUME n + 1 <= N  PROVE c[n + 1] = f[n + 1]
      OBVIOUS
    <3>1. n \in Nat /\ n <= N /\ n + 1 \in 1 .. N /\ (n + 1) - 1 = n /\ c[n] = f[n]
      BY <1>1
    <3>2. /\ c[n + 1] = Inserted(c[(n + 1) - 1], seq[n + 1])
          /\ f[n + 1] = Inserted(f[(n + 1) - 1], seq[n + 1])
      BY <3>1, <1>6, <1>10 DEF Sorts
    <3> QED  BY <3>1, <3>2
  <2> HIDE DEF U
  <2> QED  BY <2>1, <2>2, AllNumbers
<1>12. c[N] = f[N] /\ InOrder(f[N], SubSeq(seq, 1, N))
  BY <1>1, <1>6, <1>11
<1>13. SubSeq(seq, 1, N) = seq
  BY SubSeqFull
<1> QED  BY <1>9, <1>12, <1>13

-----------------------------------------------------------------------------
(* What a capture keeps of a timestamp.                                    *)

\* A timestamp a capture can hold: whole seconds, whole ticks, and what is lost.
Parts(t, q, d, e) ==
  /\ q \in Nat /\ q < Wrap /\ d \in Nat /\ e \in Nat /\ e < Tick
  /\ d * Tick \in Nat /\ (d * Tick) + e < Second /\ q * Second \in Nat
  /\ t = (q * Second) + ((d * Tick) + e)

LEMMA PartsExist ==
  ASSUME NEW t \in Int, Representable(t)
  PROVE  \E q, d, e : Parts(t, q, d, e)
<1> DEFINE q == t \div Second
           r == t % Second
           d == r \div Tick
           e == r % Tick
<1>1. t \in Nat /\ Second \in Nat /\ Second > 0 /\ Wrap \in Nat /\ Tick \in Nat /\ Tick > 0
      /\ t < Wrap * Second
  BY TimelineAssumption, MergeRoundsAssumption DEF Representable
<1>2. q \in Nat /\ r \in Nat /\ r < Second /\ t = (q * Second) + r
  BY <1>1, DivisionOf
<1> HIDE DEF q, r
<1>3. d \in Nat /\ e \in Nat /\ e < Tick /\ r = (d * Tick) + e
  BY <1>1, <1>2, DivisionOf
<1> HIDE DEF d, e
<1>4. q < Wrap
  <2> SUFFICES ASSUME q >= Wrap  PROVE FALSE
    BY <1>1, <1>2
  <2>1. q * Second >= Wrap * Second
    BY <1>1, <1>2
  <2>2. q * Second \in Nat /\ Wrap * Second \in Nat
    BY <1>1, <1>2
  <2> QED  BY <1>1, <1>2, <2>1, <2>2
<1>5. q * Second \in Nat /\ d * Tick \in Nat
  BY <1>1, <1>2, <1>3
<1>6. Parts(t, q, d, e)
  BY <1>2, <1>3, <1>4, <1>5 DEF Parts
<1> QED  BY <1>6

LEMMA SmallRemainder ==
  ASSUME NEW a \in Nat, NEW b \in Nat, a < b
  PROVE  a % b = a
<1>1. b > 0 /\ a = 0 * b + a /\ 0 \in Nat
  OBVIOUS
<1> QED  BY ONLY <1>1, DivisionIs, a \in Nat, b \in Nat, a < b

LEMMA WrittenParts ==
  ASSUME NEW t \in Int, NEW q, NEW d, NEW e, Parts(t, q, d, e)
  PROVE  Written(t) = (q * Second) + (d * Tick)
<1> DEFINE a == d * Tick
           b == q * Second
<1>1. /\ q \in Nat /\ d \in Nat /\ e \in Nat /\ e < Tick /\ q < Wrap
      /\ a \in Nat /\ b \in Nat /\ a + e < Second /\ t = b + (a + e)
  BY DEF Parts
<1>2. /\ Second \in Nat /\ Second > 0 /\ Wrap \in Nat /\ Wrap > 0 /\ Tick \in Nat /\ Tick > 0
      /\ Second <= Wrap
  BY TimelineAssumption, MergeRoundsAssumption
<1>3. t \div Second = q /\ t % Second = a + e
  <2> DEFINE r == a + e
  <2>1. r \in Nat /\ r < Second /\ t = q * Second + r /\ q \in Nat /\ Second \in Nat /\ Second > 0
    BY <1>1, <1>2
  <2> HIDE DEF r
  <2>2. t \div Second = q /\ t % Second = r
    BY ONLY <2>1, DivisionIs
  <2> QED  BY <2>2 DEF r
<1>4. q % Wrap = q
  BY <1>1, <1>2, SmallRemainder
<1>5. (a + e) % Wrap = a + e
  <2> DEFINE r == a + e
  <2>1. r \in Nat /\ r < Wrap
    BY <1>1, <1>2
  <2> HIDE DEF r
  <2>2. r % Wrap = r
    BY <1>2, <2>1, SmallRemainder
  <2> QED  BY <2>2 DEF r
<1>6. (a + e) \div Tick = d
  <2> DEFINE r == a + e
  <2>1. r \in Nat /\ r = d * Tick + e
    BY <1>1
  <2> HIDE DEF r
  <2>2. r \div Tick = d
    BY <1>1, <1>2, <2>1, DivisionIs
  <2> QED  BY <2>2 DEF r
<1>7. a % Wrap = a
  <2>1. a < Wrap /\ a \in Nat
    BY <1>1, <1>2
  <2> HIDE DEF a
  <2> QED  BY <1>2, <2>1, SmallRemainder
<1>8. t >= 0
  BY <1>1
<1>9. Quotient(t) = q /\ SubSecond(t) = a + e
  BY <1>3, <1>8 DEF Quotient, SubSecond
<1>10. Written(t) = ((q % Wrap) * Second) + (((((a + e) % Wrap) \div Tick) * Tick) % Wrap)
  BY <1>9 DEF Written
<1> QED  BY <1>4, <1>5, <1>6, <1>7, <1>10

\* Writing rounds down to whole ticks, keeps the order, and is done once and for all.
LEMMA WrittenIs ==
  ASSUME NEW t \in Int, Representable(t)
  PROVE  /\ Written(t) \in Int /\ Representable(Written(t)) /\ Written(t) \in Time
         /\ Written(Written(t)) = Written(t)
<1>1. PICK q, d, e : Parts(t, q, d, e)
  BY PartsExist
<1> DEFINE w == Written(t)
           a == d * Tick
           b == q * Second
<1>2. w = b + a
  BY <1>1, WrittenParts
<1>3. /\ q \in Nat /\ d \in Nat /\ e \in Nat /\ e < Tick /\ q < Wrap
      /\ a \in Nat /\ b \in Nat /\ a + e < Second /\ t = b + (a + e)
  BY <1>1 DEF Parts
<1>4. Tick \in Nat /\ Tick > 0 /\ Second \in Nat /\ Wrap * Second <= MaxTime
      /\ Wrap \in Nat /\ MinTime \in Int /\ MaxTime \in Int /\ MinTime < 0
  BY TimelineAssumption, MergeRoundsAssumption
<1>5. Parts(w, q, d, 0)
  <2>1. w = b + (a + 0) /\ 0 \in Nat /\ 0 < Tick /\ a + 0 < Second
    BY <1>2, <1>3, <1>4
  <2> QED  BY <1>3, <2>1 DEF Parts
<1>6. w \in Int
  BY <1>2, <1>3
<1> HIDE DEF w
<1>7. Written(w) = b + a
  BY <1>5, <1>6, WrittenParts
<1>8. 0 <= w /\ w <= t
  BY <1>2, <1>3
<1> DEFINE m == Wrap * Second
<1>9. m \in Int /\ t < m /\ m <= MaxTime
  BY <1>4 DEF Representable
<1> HIDE DEF m
<1>10. w < m /\ w \in MinTime .. MaxTime
  BY <1>4, <1>6, <1>8, <1>9
<1>11. Representable(w) /\ w \in Time
  BY <1>8, <1>10 DEF Representable, Time, m
<1> QED  BY <1>2, <1>6, <1>7, <1>11 DEF w

LEMMA WrittenRises ==
  ASSUME NEW t \in Int, NEW u \in Int, Representable(t), Representable(u), t <= u
  PROVE  Written(t) <= Written(u)
<1>1. PICK q, d, e : Parts(t, q, d, e)
  BY PartsExist
<1>2. PICK r, f, g : Parts(u, r, f, g)
  BY PartsExist
<1> DEFINE a == d * Tick
           b == q * Second
           x == f * Tick
           y == r * Second
<1>3. Written(t) = b + a /\ Written(u) = y + x
  BY <1>1, <1>2, WrittenParts
<1>4. /\ q \in Nat /\ d \in Nat /\ e \in Nat /\ e < Tick
      /\ a \in Nat /\ b \in Nat /\ a + e < Second /\ t = b + (a + e)
      /\ r \in Nat /\ f \in Nat /\ g \in Nat /\ g < Tick
      /\ x \in Nat /\ y \in Nat /\ x + g < Second /\ u = y + (x + g)
  BY <1>1, <1>2 DEF Parts
<1>5. Tick \in Nat /\ Second \in Nat
  BY TimelineAssumption, MergeRoundsAssumption
<1>6. CASE q < r
  <2>1. b + Second <= y
    <3>1. (q + 1) * Second <= r * Second
      BY <1>4, <1>5, <1>6
    <3>2. (q + 1) * Second = q * Second + Second
      BY <1>4, <1>5
    <3> QED  BY <3>1, <3>2
  <2> HIDE DEF a, b, x, y
  <2> QED  BY <1>3, <1>4, <1>5, <2>1
<1>7. CASE q = r
  <2>1. b = y
    BY <1>7
  <2>2. a + e <= x + g
    <3> HIDE DEF a, b, x, y
    <3> QED  BY <1>4, <2>1
  <2>3. d <= f
    <3> SUFFICES ASSUME f < d  PROVE FALSE
      BY <1>4
    <3>1. (f + 1) * Tick <= d * Tick
      BY <1>4, <1>5
    <3>2. (f + 1) * Tick = f * Tick + Tick
      BY <1>4, <1>5
    <3>3. x + Tick <= a
      BY <3>1, <3>2
    <3> HIDE DEF a, b, x, y
    <3> QED  BY <1>4, <1>5, <2>2, <3>3
  <2>4. a <= x
    BY <1>4, <1>5, <2>3
  <2> HIDE DEF a, b, x, y
  <2> QED  BY <1>3, <1>4, <2>1, <2>4
<1>8. CASE q > r
  <2>1. y + Second <= b
    <3>1. (r + 1) * Second <= q * Second
      BY <1>4, <1>5, <1>8
    <3>2. (r + 1) * Second = r * Second + Second
      BY <1>4, <1>5
    <3> QED  BY <3>1, <3>2
  <2> HIDE DEF a, b, x, y
  <2> QED  BY <1>4, <1>5, <2>1
<1> QED  BY <1>4, <1>6, <1>7, <1>8

AsWritten(a) == [k \in DOMAIN a |-> Written(a[k])]

\* Timestamps the output can hold.
Held(a) == a \in Seq(Int) /\ \A k \in 1 .. Len(a) : Representable(a[k])

LEMMA HeldConcat ==
  ASSUME NEW a \in Seq(Int), NEW b \in Seq(Int)
  PROVE  Held(a \o b) <=> Held(a) /\ Held(b)
<1> DEFINE n == Len(a)
           m == Len(b)
           x == a \o b
<1>1. n \in Nat /\ m \in Nat /\ Len(x) = n + m /\ x \in Seq(Int)
  BY ConcatProperties
<1>2. \A i \in 1 .. n + m : x[i] = IF i <= n THEN a[i] ELSE b[i - n]
  BY ConcatProperties
<1> HIDE DEF n, m, x
<1>3. ASSUME NEW i \in 1 .. n  PROVE i \in 1 .. n + m /\ x[i] = a[i]
  <2>1. i \in 1 .. n + m /\ i <= n
    BY <1>1
  <2> QED  BY <1>2, <2>1
<1>4. ASSUME NEW i \in 1 .. m  PROVE n + i \in 1 .. n + m /\ x[n + i] = b[i]
  <2>1. n + i \in 1 .. n + m /\ ~ (n + i <= n) /\ (n + i) - n = i
    BY <1>1
  <2> QED  BY <1>2, <2>1
<1>5. ASSUME NEW i \in 1 .. n + m
      PROVE  i \in 1 .. n \/ \E k \in 1 .. m : i = n + k
  <2>1. i \in 1 .. n \/ (i - n \in 1 .. m /\ i = n + (i - n))
    BY <1>1
  <2> QED  BY <2>1
<1>6. Held(x) => Held(a) /\ Held(b)
  BY <1>1, <1>3, <1>4 DEF Held, n, m
<1>7. Held(a) /\ Held(b) => Held(x)
  <2> SUFFICES ASSUME Held(a), Held(b), NEW i \in 1 .. n + m  PROVE Representable(x[i])
    BY <1>1 DEF Held
  <2>1. CASE i \in 1 .. n
    BY <1>3, <2>1 DEF Held, n
  <2>2. ASSUME NEW k \in 1 .. m, i = n + k  PROVE Representable(x[i])
    BY <1>4, <2>2 DEF Held, m
  <2> QED  BY <1>5, <2>1, <2>2
<1> QED  BY <1>6, <1>7 DEF x

LEMMA HeldRearranged ==
  ASSUME NEW a, NEW b \in Seq(Int), Held(a), Rearranged(b, a)
  PROVE  Held(b)
<1>1. PICK p, q : Moves(b, a, p, q)
  BY DEF Rearranged
<1>2. Len(a) = Len(b)
  BY DEF Rearranged
<1>3. ASSUME NEW k \in 1 .. Len(b)  PROVE Representable(b[k])
  <2>1. p[k] \in 1 .. Len(a) /\ b[k] = a[p[k]]
    BY <1>1, <1>2 DEF Moves
  <2> QED  BY <2>1 DEF Held
<1> QED  BY <1>3 DEF Held

LEMMA AsWrittenIs ==
  ASSUME NEW a, Held(a)
  PROVE  /\ AsWritten(a) \in Seq(Int) /\ AsWritten(a) \in Seq(Time) /\ Held(AsWritten(a))
         /\ AsWritten(AsWritten(a)) = AsWritten(a)
         /\ InTimeOrder(a) => InTimeOrder(AsWritten(a))
<1> DEFINE n == Len(a)
           w == AsWritten(a)
<1>1. n \in Nat /\ DOMAIN a = 1 .. n /\ \A k \in 1 .. n : a[k] \in Int /\ Representable(a[k])
  BY DEF Held
<1>2. w = [k \in 1 .. n |-> Written(a[k])]
  BY <1>1 DEF AsWritten
<1> HIDE DEF n, w
<1>3. \A k \in 1 .. n : /\ w[k] = Written(a[k]) /\ w[k] \in Int /\ w[k] \in Time
                        /\ Representable(w[k]) /\ Written(w[k]) = w[k]
  BY <1>1, <1>2, WrittenIs
<1>4. DOMAIN w = 1 .. n
  BY <1>2
<1>5. w \in Seq(Int) /\ w \in Seq(Time) /\ Len(w) = n
  <2>1. w \in [1 .. n -> Int] /\ w \in [1 .. n -> Time]
    BY <1>2, <1>3
  <2> QED  BY <1>1, <2>1
<1>6. Held(w)
  BY <1>3, <1>5 DEF Held
<1>7. AsWritten(w) = w
  <2>1. AsWritten(w) = [k \in 1 .. n |-> Written(w[k])]
    BY <1>4 DEF AsWritten
  <2>2. w = [k \in 1 .. n |-> w[k]]
    BY <1>2
  <2> QED  BY <1>3, <2>1, <2>2
<1>8. InTimeOrder(a) => InTimeOrder(w)
  <2> SUFFICES ASSUME InTimeOrder(a), NEW j \in 1 .. n, NEW k \in 1 .. n, j < k
               PROVE  w[j] <= w[k]
    BY <1>4 DEF InTimeOrder
  <2>1. a[j] <= a[k]
    BY <1>1 DEF InTimeOrder
  <2> QED  BY <1>1, <1>3, <2>1, WrittenRises
<1> QED  BY <1>5, <1>6, <1>7, <1>8 DEF w

LEMMA AsWrittenConcat ==
  ASSUME NEW a \in Seq(Int), NEW b \in Seq(Int)
  PROVE  AsWritten(a \o b) = AsWritten(a) \o AsWritten(b)
<1>1. /\ \A s \in Seq(Int) : Len(s) \in Nat /\ DOMAIN s = 1 .. Len(s)
      /\ Len(a \o b) = Len(a) + Len(b) /\ a \o b \in Seq(Int)
      /\ \A i \in 1 .. Len(a) + Len(b) : (a \o b)[i] = IF i <= Len(a) THEN a[i] ELSE b[i - Len(a)]
  BY ConcatProperties
<1> DEFINE R == {Written(t) : t \in Int}
<1>2. ASSUME NEW s \in Seq(Int)  PROVE AsWritten(s) \in Seq(R) /\ Len(AsWritten(s)) = Len(s)
                                       /\ \A k \in 1 .. Len(s) : AsWritten(s)[k] = Written(s[k])
  <2>1. AsWritten(s) = [k \in 1 .. Len(s) |-> Written(s[k])]
    BY <1>1 DEF AsWritten
  <2>2. \A k \in 1 .. Len(s) : Written(s[k]) \in R
    OBVIOUS
  <2> DEFINE l == Len(s)
             u == AsWritten(s)
  <2>3. l \in Nat /\ u = [k \in 1 .. l |-> Written(s[k])] /\ \A k \in 1 .. l : Written(s[k]) \in R
    BY <1>1, <2>1, <2>2
  <2> HIDE DEF R, l, u
  <2>4. u \in [1 .. l -> R] /\ \A k \in 1 .. l : u[k] = Written(s[k])
    BY <2>3
  <2>5. u \in Seq(R) /\ Len(u) = l
    BY <2>3, <2>4
  <2> QED  BY <2>4, <2>5 DEF l, u
<1> HIDE DEF R
<1> DEFINE u == AsWritten(a)
           v == AsWritten(b)
           w == AsWritten(a \o b)
           n == Len(a)
           m == Len(b)
<1>3. /\ u \in Seq(R) /\ v \in Seq(R) /\ w \in Seq(R) /\ Len(u) = n /\ Len(v) = m /\ Len(w) = n + m
      /\ \A k \in 1 .. n : u[k] = Written(a[k])
      /\ \A k \in 1 .. m : v[k] = Written(b[k])
      /\ \A k \in 1 .. n + m : w[k] = Written((a \o b)[k])
  BY <1>1, <1>2
<1>4. n \in Nat /\ m \in Nat
  OBVIOUS
<1>5. /\ u \o v \in Seq(R) /\ Len(u \o v) = n + m
      /\ \A i \in 1 .. n + m : (u \o v)[i] = IF i <= n THEN u[i] ELSE v[i - n]
  <2> HIDE DEF u, v, w, n, m
  <2> QED  BY <1>3, ConcatProperties
<1>6. ASSUME NEW i \in 1 .. n + m  PROVE w[i] = (u \o v)[i]
  <2>1. CASE i <= n
    <3>1. i \in 1 .. n
      BY <1>4, <2>1
    <3>2. (a \o b)[i] = a[i] /\ (u \o v)[i] = u[i]
      BY <1>1, <1>5, <2>1
    <3> HIDE DEF u, v, w, n, m
    <3> QED  BY <1>3, <3>1, <3>2
  <2>2. CASE ~ (i <= n)
    <3>1. i - n \in 1 .. m
      BY <1>4, <2>2
    <3>2. (a \o b)[i] = b[i - n] /\ (u \o v)[i] = v[i - n]
      BY <1>1, <1>5, <2>2
    <3> HIDE DEF u, v, w, n, m
    <3> QED  BY <1>3, <3>1, <3>2
  <2> QED  BY <2>1, <2>2
<1> HIDE DEF u, v, w, n, m
<1>7. w = u \o v
  BY <1>3, <1>5, <1>6, SeqEqual
<1> QED  BY <1>7 DEF u, v, w

LEMMA AsWrittenRearranged ==
  ASSUME NEW a \in Seq(Int), NEW b \in Seq(Int), Rearranged(a, b)
  PROVE  Rearranged(AsWritten(a), AsWritten(b))
<1>1. PICK p, q : Moves(a, b, p, q)
  BY DEF Rearranged
<1> DEFINE n == Len(a)
<1>2. n \in Nat /\ Len(b) = n /\ DOMAIN a = 1 .. n /\ DOMAIN b = 1 .. n
  BY DEF Rearranged
<1>3. /\ AsWritten(a) = [k \in 1 .. n |-> Written(a[k])]
      /\ AsWritten(b) = [k \in 1 .. n |-> Written(b[k])]
  BY <1>2 DEF AsWritten
<1>4. Len(AsWritten(a)) = n /\ Len(AsWritten(b)) = n
  BY <1>2, <1>3
<1>5. Moves(AsWritten(a), AsWritten(b), p, q)
  <2>1. /\ p \in [1 .. n -> 1 .. n] /\ q \in [1 .. n -> 1 .. n]
        /\ \A i \in 1 .. n : q[p[i]] = i /\ p[q[i]] = i /\ a[i] = b[p[i]]
    BY <1>1 DEF Moves
  <2> HIDE DEF n
  <2>2. ASSUME NEW i \in 1 .. n  PROVE AsWritten(a)[i] = AsWritten(b)[p[i]]
    <3>1. p[i] \in 1 .. n /\ a[i] = b[p[i]]
      BY <2>1
    <3> QED  BY <1>3, <3>1
  <2> QED  BY <1>4, <2>1, <2>2 DEF Moves
<1> QED  BY <1>4, <1>5 DEF Rearranged

-----------------------------------------------------------------------------
(* What a pass reads.                                                      *)

Entries == {r \in InputFile : FlattenSeq(Timeline(r)) \in Seq(Time)}

LEMMA SettingsAreEntries == Settings \subseteq Entries
<1> SUFFICES ASSUME NEW s \in Settings  PROVE s \in InputFile /\ FlattenSeq(Timeline(s)) \in Seq(Time)
  BY DEF Entries
<1>1. s \in InputFile
  BY SettingsAssumption DEF Valid
<1> DEFINE n == Len(Stamps(s))
           m == Passes(s)
           j == s.jitter
           T == Timeline(s)
<1>2. n \in Nat /\ m \in Nat /\ m > 0 /\ DOMAIN j = 1 .. Len(j) /\ Len(j) \in Nat
  <2>1. s.jitter \in Seq(0 .. MaxTime)
    BY <1>1 DEF InputFile
  <2> QED  BY <2>1, StampsAre, SettingGives
<1>3. T = [k \in 1 .. m * n |-> Spread(s, Base(s, (k - 1) \div n, ((k - 1) % n) + 1))]
  BY DEF Timeline
<1>4. ASSUME NEW k \in 1 .. m * n
      PROVE  Spread(s, Base(s, (k - 1) \div n, ((k - 1) % n) + 1)) \in Seq(Time)
  <2> DEFINE q == (k - 1) \div n
             r == (k - 1) % n
             l == m * n
  <2>1. l \in Nat /\ k - 1 \in Nat /\ k - 1 < l
    BY <1>2
  <2>2. n > 0
    <3> SUFFICES ASSUME n = 0  PROVE FALSE
      BY <1>2
    <3>1. l = 0
      BY <1>2
    <3> QED  BY <2>1, <3>1
  <2>3. q \in Nat /\ r \in Nat /\ r < n /\ k - 1 = q * n + r
    BY <1>2, <2>1, <2>2, DivisionOf
  <2> HIDE DEF q, r, n, m
  <2>4. q < m
    <3> SUFFICES ASSUME q >= m  PROVE FALSE
      BY <1>2, <2>3
    <3>1. q * n >= m * n /\ q * n \in Nat
      BY <1>2, <2>2, <2>3
    <3> DEFINE x == q * n
    <3>2. x >= l /\ x \in Nat /\ k - 1 = x + r
      BY <2>3, <3>1
    <3> HIDE DEF x, l
    <3> QED  BY <2>1, <2>3, <3>2
  <2>5. q \in 0 .. m - 1 /\ r + 1 \in 1 .. n
    BY <1>2, <2>3, <2>4
  <2>6. Base(s, q, r + 1) \in Time
    BY <2>5, PacketInPass DEF n, m
  <2>7. Spread(s, Base(s, q, r + 1)) \in [1 .. Len(j) -> Time]
    BY <1>2, <2>6, SpreadIs
  <2>8. Spread(s, Base(s, q, r + 1)) \in Seq(Time)
    BY <1>2, <2>7
  <2> QED  BY <2>8 DEF q, r, n
<1>5. T \in Seq(Seq(Time))
  <2> DEFINE l == m * n
             e(k) == Spread(s, Base(s, (k - 1) \div n, ((k - 1) % n) + 1))
  <2>1. l \in Nat
    BY <1>2
  <2>2. T = [k \in 1 .. l |-> e(k)] /\ \A k \in 1 .. l : e(k) \in Seq(Time)
    BY <1>3, <1>4
  <2> HIDE DEF l, e, T
  <2>3. T \in [1 .. l -> Seq(Time)]
    BY <2>2
  <2> QED  BY <2>1, <2>3
<1> HIDE DEF T
<1>6. FlattenSeq(T) \in Seq(Time)
  BY <1>5, JoinedIs
<1> QED  BY <1>1, <1>6 DEF T

Reads1(batch) == [k \in DOMAIN batch |-> FlattenSeq(Timeline(batch[k]))]

LEMMA ReadsIs ==
  ASSUME NEW batch \in Seq(Entries)
  PROVE  /\ StampsOf(batch) = FlattenSeq(Reads1(batch)) /\ Reads1(batch) \in Seq(Seq(Time))
         /\ Len(Reads1(batch)) = Len(batch)
         /\ \A k \in 1 .. Len(batch) : Reads1(batch)[k] = FlattenSeq(Timeline(batch[k]))
         /\ StampsOf(batch) \in Seq(Time) /\ StampsOf(batch) \in Seq(Int)
<1> DEFINE n == Len(batch)
           R == Reads1(batch)
<1>1. n \in Nat /\ R = [k \in 1 .. n |-> FlattenSeq(Timeline(batch[k]))]
      /\ \A k \in 1 .. n : FlattenSeq(Timeline(batch[k])) \in Seq(Time)
  BY DEF Reads1, Entries
<1>2. StampsOf(batch) = FlattenSeq(R)
  BY DEF StampsOf, Reads1
<1> HIDE DEF n, R
<1>3. R \in [1 .. n -> Seq(Time)] /\ \A k \in 1 .. n : R[k] = FlattenSeq(Timeline(batch[k]))
  BY <1>1
<1>4. R \in Seq(Seq(Time)) /\ Len(R) = n
  BY <1>1, <1>3
<1>5. FlattenSeq(R) \in Seq(Time)
  BY <1>4, JoinedIs
<1>6. Time \subseteq Int
  BY TimelineAssumption DEF Time
<1>7. FlattenSeq(R) \in Seq(Int)
  BY <1>5, <1>6, SeqMonotonic
<1> QED  BY <1>2, <1>3, <1>4, <1>5, <1>7 DEF n, R

LEMMA StampsOfConcat ==
  ASSUME NEW a \in Seq(Entries), NEW b \in Seq(Entries)
  PROVE  StampsOf(a \o b) = StampsOf(a) \o StampsOf(b)
<1> DEFINE n == Len(a)
           m == Len(b)
           c == a \o b
<1>1. /\ n \in Nat /\ m \in Nat /\ c \in Seq(Entries) /\ Len(c) = n + m
      /\ \A i \in 1 .. n + m : c[i] = IF i <= n THEN a[i] ELSE b[i - n]
  BY ConcatProperties
<1> DEFINE u == Reads1(a)
           v == Reads1(b)
           w == Reads1(c)
<1> HIDE DEF c
<1>2. /\ u \in Seq(Seq(Time)) /\ v \in Seq(Seq(Time)) /\ w \in Seq(Seq(Time))
      /\ Len(u) = n /\ Len(v) = m /\ Len(w) = n + m
      /\ \A k \in 1 .. n : u[k] = FlattenSeq(Timeline(a[k]))
      /\ \A k \in 1 .. m : v[k] = FlattenSeq(Timeline(b[k]))
      /\ \A k \in 1 .. n + m : w[k] = FlattenSeq(Timeline(c[k]))
      /\ StampsOf(a) = FlattenSeq(u) /\ StampsOf(b) = FlattenSeq(v) /\ StampsOf(c) = FlattenSeq(w)
  BY <1>1, ReadsIs
<1> HIDE DEF u, v, w, n, m
<1>3. /\ u \o v \in Seq(Seq(Time)) /\ Len(u \o v) = n + m
      /\ \A i \in 1 .. n + m : (u \o v)[i] = IF i <= n THEN u[i] ELSE v[i - n]
  BY <1>2, ConcatProperties
<1>4. ASSUME NEW i \in 1 .. n + m  PROVE w[i] = (u \o v)[i]
  <2>1. CASE i <= n
    <3>1. i \in 1 .. n
      BY <1>1, <2>1
    <3>2. c[i] = a[i] /\ (u \o v)[i] = u[i]
      BY <1>1, <1>3, <2>1
    <3> QED  BY <1>2, <3>1, <3>2
  <2>2. CASE ~ (i <= n)
    <3>1. i - n \in 1 .. m
      BY <1>1, <2>2
    <3>2. c[i] = b[i - n] /\ (u \o v)[i] = v[i - n]
      BY <1>1, <1>3, <2>2
    <3> QED  BY <1>2, <3>1, <3>2
  <2> QED  BY <2>1, <2>2
<1>5. w = u \o v
  BY <1>2, <1>3, <1>4, SeqEqual
<1>6. FlattenSeq(u \o v) = FlattenSeq(u) \o FlattenSeq(v)
  BY <1>2, JoinedConcat
<1> QED  BY <1>2, <1>5, <1>6 DEF c

LEMMA StampsOfNone == StampsOf(<< >>) = << >>
<1>1. Reads1(<< >>) = << >>
  BY DEF Reads1
<1>2. StampsOf(<< >>) = FlattenSeq(Reads1(<< >>))
  BY DEF StampsOf, Reads1
<1> QED  BY <1>1, <1>2, JoinedEmpty

\* A pass loses and adds nothing, except what a capture cannot hold.
LEMMA PassKeeps ==
  ASSUME NEW batch \in Seq(Entries), Held(StampsOf(batch))
  PROVE  /\ OnePass(batch) \in Seq(Time) /\ OnePass(batch) \in Seq(Int) /\ Held(OnePass(batch))
         /\ InTimeOrder(OnePass(batch)) /\ AsWritten(OnePass(batch)) = OnePass(batch)
         /\ Rearranged(OnePass(batch), AsWritten(StampsOf(batch)))
<1> DEFINE s == StampsOf(batch)
           a == Ascending(s)
<1>1. s \in Seq(Int)
  BY ReadsIs
<1>2. a \in Seq(Int) /\ InTimeOrder(a) /\ Rearranged(a, s)
  BY <1>1, AscendingIs DEF InOrder
<1>3. OnePass(batch) = AsWritten(a)
  BY DEF OnePass, AsWritten
<1> HIDE DEF a
<1>4. Held(a)
  BY <1>1, <1>2, HeldRearranged
<1>5. Rearranged(AsWritten(a), AsWritten(s))
  BY <1>1, <1>2, AsWrittenRearranged
<1> QED  BY <1>2, <1>3, <1>4, <1>5, AsWrittenIs

-----------------------------------------------------------------------------
(* A capture that is read again gives the timestamps that are in it.       *)

LEMMA ReadBack ==
  ASSUME NEW c \in Seq(Time)
  PROVE  ReadUpTo(c)[Len(c)] = c
<1> DEFINE u == ReadUpTo(c)
           n == Len(c)
<1>1. c \in Seq(Records) /\ n \in Nat /\ \A k \in 1 .. n : c[k] \in Time /\ c[k] # ReadError
  BY TimelineAssumption DEF Records, Time
<1>2. /\ u[0] = << >>
      /\ \A k \in 1 .. n : u[k] = IF c[k] = ReadError THEN u[k - 1] ELSE Append(u[k - 1], c[k])
  BY <1>1, ReadSteps DEF Reads
<1> DEFINE U == {k \in Nat : k <= n => u[k] = SubSeq(c, 1, k)}
<1> HIDE DEF u, n
<1>3. 0 \in U
  <2>1. SubSeq(c, 1, 0) = << >>
    BY SubSeqEmpty
  <2> QED  BY <1>2, <2>1
<1>4. ASSUME NEW k \in U  PROVE k + 1 \in U
  <2> SUFFICES ASSUME k + 1 <= n  PROVE u[k + 1] = SubSeq(c, 1, k + 1)
    OBVIOUS
  <2>1. k \in Nat /\ k <= n /\ k + 1 \in 1 .. n /\ (k + 1) - 1 = k /\ u[k] = SubSeq(c, 1, k)
    BY <1>1
  <2>2. u[k + 1] = Append(u[k], c[k + 1])
    BY <1>1, <1>2, <2>1
  <2>3. SubSeq(c, 1, k + 1) = SubSeq(c, 1, k) \o << c[k + 1] >>
    <3>1. 1 \in 1 .. Len(c) /\ k + 1 \in 1 .. Len(c)
      BY <2>1 DEF n
    <3> QED  BY <2>1, <3>1, SubSeqRecursiveSecond
  <2>4. SubSeq(c, 1, k) \in Seq(Time) /\ c[k + 1] \in Time
    <3>1. \A i \in 1 .. k : c[i] \in Time
      BY <1>1, <2>1
    <3> QED  BY <1>1, <2>1, <3>1, SubSeqProperties
  <2>5. Append(SubSeq(c, 1, k), c[k + 1]) = SubSeq(c, 1, k) \o << c[k + 1] >>
    BY <2>4, AppendIsConcat
  <2> QED  BY <2>1, <2>2, <2>3, <2>5
<1>5. U \in SUBSET Nat
  OBVIOUS
<1> HIDE DEF U
<1>6. n \in U
  BY <1>1, <1>3, <1>4, <1>5, AllNumbers
<1>7. SubSeq(c, 1, n) = c
  BY SubSeqFull DEF n
<1> QED  BY <1>1, <1>6, <1>7 DEF U, u, n

IsTmp(r) ==
  /\ r \in InputFile /\ r.file \in Seq(Time)
  /\ r.start_time = << 0 >> /\ r.repeat = 1 /\ r.jitter = << 0 >>

\* A temporary capture is read as it was written: once, at 0, in one group.
LEMMA TmpTimeline ==
  ASSUME NEW r, IsTmp(r), ~ r.erase
  PROVE  FlattenSeq(Timeline(r)) = r.file /\ r \in Entries
<1> DEFINE c == r.file
           n == Len(c)
           p == Stamps(r)
           i == r.repeat_interval
           z == << 0 >>
<1>1. /\ c \in Seq(Time) /\ r.start_time = z /\ r.repeat = 1 /\ r.jitter = z /\ r \in InputFile
      /\ n \in Nat
  BY DEF IsTmp
<1>2. p = c
  BY <1>1, ReadBack DEF Stamps
<1>3. i \in Int /\ Second \in Nat
  BY <1>1, TimelineAssumption DEF InputFile
<1>4. Len(z) = 1 /\ z[1] = 0 /\ DOMAIN z = {1}
  OBVIOUS
<1>5. Groups(r) = 1 /\ Passes(r) = 1
  <2>1. Groups(r) = 1
    BY <1>1, <1>4 DEF Groups
  <2> QED  BY <1>1, <2>1 DEF Passes
<1>6. ASSUME NEW k \in 1 .. n
      PROVE  Spread(r, Base(r, (k - 1) \div n, ((k - 1) % n) + 1)) = << c[k] >>
  <2>1. k - 1 \in Nat /\ k - 1 < n /\ n > 0 /\ 1 \in 1 .. n /\ n \in 1 .. n
    BY <1>1
  <2>2. (k - 1) \div n = 0 /\ (k - 1) % n = k - 1
    <3> DEFINE m == k - 1
    <3>1. m \in Nat /\ m < n /\ n \in Nat /\ n > 0 /\ 0 \in Nat /\ m = 0 * n + m
      BY <1>1, <2>1
    <3> HIDE DEF m, n
    <3>2. m \div n = 0 /\ m % n = m
      BY ONLY <3>1, DivisionIs
    <3> QED  BY <3>2 DEF m
  <2>3. c[k] \in Time /\ c[1] \in Time /\ c[n] \in Time
    BY <1>1, <2>1
  <2>4. c[k] \in Int /\ c[1] \in Int /\ c[n] \in Int
    BY <2>3, TimelineAssumption DEF Time
  <2>5. 0 \div 1 = 0 /\ 0 % 1 = 0
    OBVIOUS
  <2>6. GroupStart(r, 0, c[1]) = c[1]
    <3>1. r.start_time[0 + 1] * Second = 0
      BY <1>1, <1>3, <1>4
    <3>2. GroupStart(r, 0, c[1]) = Saturated(c[1] + 0)
      BY <3>1 DEF GroupStart
    <3>3. c[1] + 0 = c[1]
      BY <2>4
    <3> QED  BY <2>3, <2>4, <3>2, <3>3, Saturates
  <2>7. RawBase(r, 0, k) = c[k]
    <3>1. SpanOf(r) = c[n] - c[1]
      <4>1. c # << >> /\ Last(c) = c[n] /\ Head(c) = c[1]
        BY <2>1 DEF Last
      <4> QED  BY <1>2, <4>1 DEF SpanOf
    <3> DEFINE s == SpanOf(r) + i
               x == c[1]
               y == c[k]
    <3>2. s \in Int /\ x \in Int /\ y \in Int
      BY <1>3, <2>4, <3>1
    <3>3. RawBase(r, 0, k) = GroupStart(r, 0, x) + 0 * s + (y - x)
      BY <1>1, <1>2, <2>5 DEF RawBase
    <3>4. GroupStart(r, 0, x) = x
      BY <2>6
    <3> HIDE DEF s, x, y
    <3>5. x + 0 * s + (y - x) = y
      BY <3>2
    <3>6. RawBase(r, 0, k) = y
      BY <3>3, <3>4, <3>5
    <3> QED  BY <3>6 DEF y
  <2>8. Base(r, 0, k) = c[k]
    BY <2>3, <2>4, <2>7, Saturates DEF Base
  <2>9. Spread(r, c[k]) = << c[k] >>
    <3>1. Spread(r, c[k]) = [g \in DOMAIN z |-> Saturated(c[k] + z[g])]
      BY <1>1 DEF Spread
    <3>2. c[k] + 0 = c[k] /\ Saturated(c[k]) = c[k]
      BY <2>3, <2>4, Saturates
    <3> HIDE DEF z
    <3>3. [g \in DOMAIN z |-> Saturated(c[k] + z[g])] = [g \in {1} |-> c[k]]
      BY <1>4, <3>2
    <3>4. [g \in {1} |-> c[k]] = << c[k] >>
      OBVIOUS
    <3> QED  BY <3>1, <3>3, <3>4
  <2>10. (k - 1) + 1 = k
    OBVIOUS
  <2> QED  BY <2>2, <2>8, <2>9, <2>10
<1>7. Timeline(r) = [k \in 1 .. n |-> << c[k] >>]
  <2>1. Timeline(r) = [k \in 1 .. Passes(r) * Len(p) |->
                         Spread(r, Base(r, (k - 1) \div Len(p), ((k - 1) % Len(p)) + 1))]
    BY DEF Timeline
  <2>2. Len(p) = n /\ Passes(r) * Len(p) = n
    BY <1>1, <1>2, <1>5
  <2>3. Timeline(r) = [k \in 1 .. n |-> Spread(r, Base(r, (k - 1) \div n, ((k - 1) % n) + 1))]
    BY <2>1, <2>2
  <2> QED  BY <1>6, <2>3
<1>8. FlattenSeq(Timeline(r)) = c
  BY <1>1, <1>7, JoinedSingles
<1> QED  BY <1>1, <1>8 DEF Entries

-----------------------------------------------------------------------------
(* How many files a round has.                                             *)

IsASequence(s) == \E T : s \in Seq(T)

\* The batches of a round that are written started within the files.
Chunks ==
  Len(files) > batch_size /\ batch_size >= 2 /\ (Len(tmp_files) - 1) * batch_size < Len(files)

RoundsType ==
  /\ IsASequence(files) /\ IsASequence(tmp_files) /\ batch_size \in Nat
  /\ tmp_files # << >> => Chunks

LEMMA SequenceIs ==
  ASSUME NEW s, IsASequence(s)
  PROVE  /\ Len(s) \in Nat /\ DOMAIN s = 1 .. Len(s) /\ s # << >> <=> Len(s) > 0
         /\ \A x : IsASequence(Append(s, x)) /\ Len(Append(s, x)) = Len(s) + 1
                   /\ Append(s, x) # << >>
<1>1. PICK T : s \in Seq(T)
  BY DEF IsASequence
<1>2. Len(s) \in Nat /\ DOMAIN s = 1 .. Len(s) /\ (s # << >> <=> Len(s) > 0)
  BY <1>1
<1>3. ASSUME NEW x
      PROVE  IsASequence(Append(s, x)) /\ Len(Append(s, x)) = Len(s) + 1 /\ Append(s, x) # << >>
  <2>1. s \in Seq(T \cup {x}) /\ x \in T \cup {x}
    BY <1>1, SeqMonotonic
  <2>2. /\ Append(s, x) \in Seq(T \cup {x}) /\ Len(Append(s, x)) = Len(s) + 1
        /\ Append(s, x) # << >>
    BY <2>1, AppendProperties
  <2> QED  BY <2>2 DEF IsASequence
<1> QED  BY <1>2, <1>3

LEMMA EmptyIsASequence == IsASequence(<< >>)
<1>1. << >> \in Seq({})
  OBVIOUS
<1> QED  BY <1>1 DEF IsASequence

\* A round never writes as many captures as it has files.
LEMMA FewerThanFiles ==
  ASSUME NEW l \in Nat, NEW b \in Nat, NEW n \in Nat, l > 0, b >= 2, n > b, (l - 1) * b < n
  PROVE  l < n
<1> DEFINE x == (l - 1) * b
<1>1. x \in Nat /\ x < n /\ l - 1 \in Nat
  OBVIOUS
<1>2. x >= (l - 1) * 2
  BY <1>1
<1>3. (l - 1) * 2 = (l - 1) + (l - 1)
  BY <1>1
<1> HIDE DEF x
<1> QED  BY <1>1, <1>2, <1>3

LEMMA NextRoundIs ==
  ASSUME RoundsType, NextRound
  PROVE  /\ tmp_files # << >> /\ IsASequence(files') /\ files' # << >>
         /\ Len(files') = Len(tmp_files) /\ Len(files') < Len(files) /\ tmp_files' = << >>
         /\ DOMAIN tmp_files = 1 .. Len(tmp_files) /\ DOMAIN files' = 1 .. Len(tmp_files)
         /\ Len(tmp_files) \in Nat
<1> DEFINE l == Len(tmp_files)
           n == Len(files)
           b == batch_size
           f == files'
           g == [k \in DOMAIN tmp_files |-> TmpFile(tmp_files[k], files[k])]
<1>1. /\ f = g /\ tmp_files' = << >> /\ ~ (n <= b) /\ ~ (b < 2)
      /\ l * b + 1 > n
  BY DEF NextRound, First, Fits, TooSmall
<1>2. /\ l \in Nat /\ n \in Nat /\ b \in Nat /\ DOMAIN tmp_files = 1 .. l
      /\ tmp_files # << >> <=> l > 0
  BY SequenceIs DEF RoundsType
<1>3. l # 0
  <2> SUFFICES ASSUME l = 0  PROVE FALSE
    OBVIOUS
  <2>1. l * b = 0
    BY <1>2
  <2> QED  BY <1>1, <1>2, <2>1
<1>4. (l - 1) * b < n
  BY <1>2, <1>3 DEF RoundsType, Chunks
<1>5. l < n
  <2>1. l > 0 /\ b >= 2 /\ n > b
    BY <1>1, <1>2, <1>3
  <2> HIDE DEF l, b, n
  <2> QED  BY <1>2, <1>4, <2>1, FewerThanFiles
<1>6. f \in Seq({f[k] : k \in 1 .. l}) /\ Len(f) = l /\ DOMAIN f = 1 .. l
  <2>1. DOMAIN f = 1 .. l /\ f = [k \in 1 .. l |-> f[k]]
    BY <1>1, <1>2
  <2> HIDE DEF f, l
  <2>2. f \in [1 .. l -> {f[k] : k \in 1 .. l}]
    BY <2>1
  <2> QED  BY <1>2, <2>1, <2>2
<1>7. f # << >>
  <2> HIDE DEF f, l
  <2> QED  BY <1>2, <1>3, <1>6
<1>8. IsASequence(f)
  BY <1>6 DEF IsASequence
<1> QED  BY <1>1, <1>2, <1>3, <1>5, <1>6, <1>7, <1>8

LEMMA MergeBatchIs ==
  ASSUME RoundsType, MergeBatch
  PROVE  /\ IsASequence(tmp_files') /\ Chunks' /\ tmp_files' # << >>
         /\ Len(tmp_files') <= Len(files) /\ Len(tmp_files') = Len(tmp_files) + 1
<1> DEFINE l == Len(tmp_files)
           n == Len(files)
           b == batch_size
<1>1. /\ tmp_files' = Append(tmp_files, OnePass(NextBatch)) /\ ~ (n <= b) /\ ~ (b < 2)
      /\ l * b + 1 <= n /\ files' = files /\ batch_size' = b
  BY DEF MergeBatch, First, Fits, TooSmall
<1>2. /\ l \in Nat /\ n \in Nat /\ b \in Nat /\ IsASequence(tmp_files)
  BY SequenceIs DEF RoundsType
<1>3. IsASequence(tmp_files') /\ Len(tmp_files') = l + 1 /\ tmp_files' # << >>
  BY <1>1, <1>2, SequenceIs
<1>4. Len(files') = n /\ b >= 2 /\ n > b
  BY <1>1, <1>2
<1> HIDE DEF l, n, b
<1> DEFINE x == l * b
<1>5. x \in Nat /\ x + 1 <= n
  BY <1>1, <1>2
<1>6. (l + 1) - 1 = l
  BY <1>2
<1> HIDE DEF x
<1>7. x < n
  BY <1>2, <1>5
<1>8. (Len(tmp_files') - 1) * b < n
  BY <1>3, <1>6, <1>7 DEF x
<1>9. Chunks'
  BY <1>1, <1>4, <1>8 DEF Chunks
<1>10. l + 1 <= n
  <2>1. l + 1 > 0 /\ l + 1 \in Nat /\ ((l + 1) - 1) * b < n
    BY <1>2, <1>6, <1>7 DEF x
  <2>2. l + 1 < n
    BY <1>2, <1>4, <2>1, FewerThanFiles
  <2> QED  BY <1>2, <2>2
<1> QED  BY <1>3, <1>9, <1>10 DEF l, n

LEMMA RoundsTypeStarts ==
  ASSUME RoundsInit
  PROVE  RoundsType
<1>1. files \in Seq(Settings) /\ batch_size \in Nat /\ tmp_files = << >>
  BY MergeRoundsAssumption DEF RoundsInit
<1> QED  BY <1>1, EmptyIsASequence DEF RoundsType, IsASequence

LEMMA RoundsTypeHolds ==
  ASSUME RoundsType, [RoundsNext]_roundsVars
  PROVE  RoundsType'
<1>1. CASE MergeBatch
  <2>1. files' = files /\ batch_size' = batch_size
    BY <1>1 DEF MergeBatch
  <2> QED  BY <1>1, <2>1, MergeBatchIs DEF RoundsType
<1>2. CASE NextRound
  <2>1. batch_size' = batch_size
    BY <1>2 DEF NextRound
  <2> QED  BY <1>2, <2>1, NextRoundIs, EmptyIsASequence DEF RoundsType
<1>3. CASE MergeAll \/ Refuse \/ Fail \/ Returned \/ UNCHANGED roundsVars
  <2>1. files' = files /\ batch_size' = batch_size /\ tmp_files' = tmp_files
    BY <1>3 DEF MergeAll, Refuse, Fail, Returned, roundsVars
  <2> QED  BY <2>1 DEF RoundsType, Chunks
<1> QED  BY <1>1, <1>2, <1>3 DEF RoundsNext

LEMMA RoundsTypeKept == RoundsSpec => []RoundsType
<1>1. RoundsInit => RoundsType
  BY RoundsTypeStarts
<1>2. RoundsType /\ [RoundsNext]_roundsVars => RoundsType'
  BY RoundsTypeHolds
<1> QED  BY <1>1, <1>2, PTL DEF RoundsSpec

\* A round of merge_impl that opens the captures it wrote has fewer files than the round
\* before and at least one, and no round writes more captures than it has files: the
\* recursion ends, whatever the files and the batch size are.
THEOREM EveryRoundShrinks == RoundsSpec => RoundsShrink
<1> DEFINE Shrinks ==
      /\ outcome = "merging" /\ tmp_files # << >> /\ tmp_files' = << >>
           => Len(files') < Len(files) /\ files' # << >>
      /\ Len(tmp_files') <= Len(files)
<1>1. ASSUME RoundsType, [RoundsNext]_roundsVars  PROVE [Shrinks]_roundsVars
  <2>1. CASE MergeBatch
    BY <1>1, <2>1, MergeBatchIs
  <2>2. CASE NextRound
    <3>1. Len(<< >>) = 0 /\ Len(files) \in Nat
      BY <1>1, SequenceIs DEF RoundsType
    <3> QED  BY <1>1, <2>2, <3>1, NextRoundIs
  <2>3. CASE MergeAll \/ Refuse \/ Fail \/ Returned
    <3>1. tmp_files' = tmp_files
      BY <2>3 DEF MergeAll, Refuse, Fail, Returned, roundsVars
    <3>2. Len(tmp_files) <= Len(files)
      <4> DEFINE l == Len(tmp_files)
                 n == Len(files)
                 b == batch_size
      <4>1. l \in Nat /\ n \in Nat /\ b \in Nat /\ (tmp_files # << >> <=> l > 0)
        BY <1>1, SequenceIs DEF RoundsType
      <4>2. l > 0 => b >= 2 /\ n > b /\ (l - 1) * b < n
        BY <1>1, <4>1 DEF RoundsType, Chunks
      <4> HIDE DEF l, n, b
      <4>3. l > 0 => l < n
        BY <4>1, <4>2, FewerThanFiles
      <4>4. l <= n
        BY <4>1, <4>3
      <4> QED  BY <4>4 DEF l, n
    <3> QED  BY <3>1, <3>2
  <2>4. CASE UNCHANGED roundsVars
    BY <2>4
  <2> QED  BY <1>1, <2>1, <2>2, <2>3, <2>4 DEF RoundsNext
<1>2. RoundsType /\ [RoundsNext]_roundsVars => [Shrinks]_roundsVars
  BY <1>1
<1>3. RoundsShrink <=> [][Shrinks]_roundsVars
  BY PTL DEF RoundsShrink
<1> HIDE DEF Shrinks
<1> QED  BY <1>2, <1>3, RoundsTypeKept, PTL DEF RoundsSpec

-----------------------------------------------------------------------------
(* What the rounds keep.                                                   *)

\* The files of the first round, or captures an earlier one has written.
RoundsKind ==
  \/ erase_timestamp = TRUE /\ files \in Seq(Settings)
  \/ erase_timestamp = FALSE /\ \A k \in DOMAIN files : IsTmp(files[k])

\* The timeline of the user's files can be written.
Fitting == Held(StampsOf(input_files))

\* The batches still to come, and all timestamps of the round.
Rest  == SubSeq(Seen, First, Len(files))
Whole == FlattenSeq(tmp_files) \o StampsOf(Rest)

RoundsKept ==
  /\ input_files \in Seq(Settings)
  /\ Fitting =>
       /\ RoundsKind /\ tmp_files \in Seq(Seq(Time)) /\ Held(Whole)
       /\ Rearranged(AsWritten(Whole), AsWritten(StampsOf(input_files)))
       /\ outcome = "done" => output = OnePass(input_files)

LEMMA SeenIs ==
  ASSUME IsASequence(files), RoundsKind
  PROVE  /\ Seen \in Seq(Entries) /\ Len(Seen) = Len(files) /\ Len(files) \in Nat
         /\ erase_timestamp = TRUE => Seen = files
         /\ erase_timestamp = FALSE =>
              \A k \in 1 .. Len(files) : FlattenSeq(Timeline(Seen[k])) = files[k].file
<1> DEFINE n == Len(files)
           e == erase_timestamp
<1>1. n \in Nat /\ DOMAIN files = 1 .. n
  BY SequenceIs
<1>2. Seen = [k \in 1 .. n |-> [files[k] EXCEPT !.erase = e /\ @]]
  BY <1>1 DEF Seen
<1>3. CASE e = TRUE /\ files \in Seq(Settings)
  <2>1. ASSUME NEW k \in 1 .. n
        PROVE  [files[k] EXCEPT !.erase = e /\ @] = files[k] /\ files[k] \in Entries
    <3>1. files[k] \in Settings
      BY <1>1, <1>3
    <3>2. files[k] \in Entries /\ files[k] \in InputFile
      BY <3>1, SettingsAreEntries DEF Entries
    <3> DEFINE r == files[k]
    <3>3. r \in InputFile /\ (e /\ r.erase) = r.erase
      BY <1>3, <3>2 DEF InputFile
    <3> HIDE DEF r
    <3>4. [r EXCEPT !.erase = e /\ @] = [r EXCEPT !.erase = r.erase]
      BY <3>3
    <3>5. [r EXCEPT !.erase = r.erase] = r
      BY <3>3 DEF InputFile
    <3> QED  BY <3>2, <3>4, <3>5 DEF r
  <2>2. Seen = [k \in 1 .. n |-> files[k]] /\ files = [k \in 1 .. n |-> files[k]]
    <3>1. files = [k \in 1 .. n |-> files[k]]
      BY <1>3
    <3> HIDE DEF n, e
    <3> QED  BY <1>2, <2>1, <3>1
  <2>3. Seen = files
    BY <2>2
  <2>4. files \in Seq(Entries)
    BY <1>3, SettingsAreEntries, SeqMonotonic
  <2> QED  BY <1>1, <1>3, <2>3, <2>4
<1>4. CASE e = FALSE /\ \A k \in DOMAIN files : IsTmp(files[k])
  <2>1. ASSUME NEW k \in 1 .. n
        PROVE  Seen[k] \in Entries /\ FlattenSeq(Timeline(Seen[k])) = files[k].file
    <3> DEFINE r == files[k]
               t == Seen[k]
    <3>1. IsTmp(r) /\ t = [r EXCEPT !.erase = e /\ @]
      BY <1>1, <1>2, <1>4
    <3> HIDE DEF r, t
    <3>2. t = [r EXCEPT !.erase = FALSE] /\ r \in InputFile
      BY <1>4, <3>1 DEF IsTmp
    <3>3. /\ t \in InputFile /\ t.file = r.file /\ t.start_time = r.start_time
          /\ t.repeat = r.repeat /\ t.jitter = r.jitter /\ t.erase = FALSE
      BY <3>2 DEF InputFile
    <3>4. IsTmp(t) /\ ~ t.erase
      BY <3>1, <3>3 DEF IsTmp
    <3>5. FlattenSeq(Timeline(t)) = t.file /\ t \in Entries
      BY <3>4, TmpTimeline
    <3> QED  BY <3>3, <3>5 DEF r, t
  <2>2. Seen \in [1 .. n -> Entries]
    <3>1. DOMAIN Seen = 1 .. n /\ Seen = [k \in 1 .. n |-> Seen[k]]
      BY <1>2
    <3> HIDE DEF n
    <3> QED  BY <2>1, <3>1
  <2>3. Seen \in Seq(Entries) /\ Len(Seen) = n
    BY <1>1, <2>2
  <2> QED  BY <1>1, <1>4, <2>1, <2>3
<1> QED  BY <1>3, <1>4 DEF RoundsKind

\* The whole of a round, as a sequence of timestamps.
LEMMA WholeIs ==
  ASSUME RoundsType, RoundsKind, tmp_files \in Seq(Seq(Time))
  PROVE  /\ Rest \in Seq(Entries) /\ StampsOf(Rest) \in Seq(Int) /\ FlattenSeq(tmp_files) \in Seq(Int)
         /\ FlattenSeq(tmp_files) \in Seq(Time) /\ Whole \in Seq(Int)
         /\ First > Len(files) => Whole = FlattenSeq(tmp_files)
         /\ tmp_files = << >> => Rest = Seen /\ Whole = StampsOf(Seen)
<1>1. Seen \in Seq(Entries) /\ Len(Seen) = Len(files) /\ Len(files) \in Nat
  BY SeenIs DEF RoundsType
<1>2. First \in Nat /\ First >= 1 /\ (tmp_files = << >> => First = 1)
  <2> DEFINE l == Len(tmp_files)
             b == batch_size
  <2>1. l \in Nat /\ b \in Nat /\ (tmp_files = << >> => l = 0)
    BY SequenceIs DEF RoundsType
  <2>2. l * b \in Nat /\ (l = 0 => l * b = 0)
    BY <2>1
  <2> QED  BY <2>1, <2>2 DEF First
<1>3. Rest \in Seq(Entries)
  <2>1. \A i \in First .. Len(files) : Seen[i] \in Entries
    BY <1>1, <1>2
  <2> QED  BY <1>1, <1>2, <2>1, SubSeqProperties DEF Rest
<1>4. StampsOf(Rest) \in Seq(Int) /\ StampsOf(Rest) \in Seq(Time)
  BY <1>3, ReadsIs
<1>5. FlattenSeq(tmp_files) \in Seq(Time)
  BY JoinedIs
<1>6. Time \subseteq Int
  BY TimelineAssumption DEF Time
<1>7. FlattenSeq(tmp_files) \in Seq(Int)
  BY <1>5, <1>6, SeqMonotonic
<1>8. Whole \in Seq(Int)
  BY <1>4, <1>7, ConcatProperties DEF Whole
<1>9. First > Len(files) => Whole = FlattenSeq(tmp_files)
  <2> SUFFICES ASSUME First > Len(files)  PROVE Whole = FlattenSeq(tmp_files)
    OBVIOUS
  <2>1. Rest = << >>
    BY <1>1, <1>2, SubSeqEmpty DEF Rest
  <2>2. Whole = FlattenSeq(tmp_files) \o << >>
    BY <2>1, StampsOfNone DEF Whole
  <2> QED  BY <1>7, <2>2, ConcatEmptySeq
<1>10. tmp_files = << >> => Rest = Seen /\ Whole = StampsOf(Seen)
  <2> SUFFICES ASSUME tmp_files = << >>  PROVE Rest = Seen /\ Whole = StampsOf(Seen)
    OBVIOUS
  <2>1. Rest = Seen
    BY <1>1, <1>2, SubSeqFull DEF Rest
  <2>2. FlattenSeq(tmp_files) = << >>
    BY JoinedEmpty
  <2>3. << >> \o StampsOf(Rest) = StampsOf(Rest)
    BY <1>4, ConcatEmptySeq
  <2> QED  BY <2>1, <2>2, <2>3 DEF Whole
<1> QED  BY <1>3, <1>4, <1>5, <1>7, <1>8, <1>9, <1>10

\* The next batch is the first part of what is still to come.
LEMMA RestIs ==
  ASSUME RoundsType, RoundsKind, MergeBatch
  PROVE  /\ NextBatch \in Seq(Entries) /\ Rest' \in Seq(Entries)
         /\ Rest = NextBatch \o Rest'
<1> DEFINE n == Len(files)
           b == batch_size
           m == First
           e == IF m + b - 1 < n THEN m + b - 1 ELSE n
           l == Len(tmp_files)
<1>1. /\ files' = files /\ batch_size' = batch_size /\ erase_timestamp' = erase_timestamp
      /\ m <= n /\ ~ (n <= b) /\ ~ (b < 2)
  BY DEF MergeBatch, Fits, TooSmall
<1>2. Seen' = Seen
  BY <1>1 DEF Seen
<1>3. Seen \in Seq(Entries) /\ Len(Seen) = n /\ n \in Nat
  BY SeenIs DEF RoundsType
<1>4. b \in Nat /\ l \in Nat /\ Len(tmp_files') = l + 1
  BY MergeBatchIs, SequenceIs DEF RoundsType
<1>5. m \in Nat /\ m >= 1 /\ First' = m + b
  <2> DEFINE x == l * b
  <2>1. x \in Nat /\ m = x + 1
    BY <1>4 DEF First
  <2>2. First' = (l + 1) * b + 1
    BY <1>1, <1>4 DEF First
  <2>3. (l + 1) * b = x + b
    BY <1>4
  <2> HIDE DEF x, m
  <2> QED  BY <1>4, <2>1, <2>2, <2>3
<1>6. NextBatch = SubSeq(Seen, m, e) /\ Rest = SubSeq(Seen, m, n) /\ Rest' = SubSeq(Seen, m + b, n)
  BY <1>1, <1>2, <1>5 DEF NextBatch, Rest
<1> HIDE DEF n, b, m, l
<1>7. m \in 1 .. n + 1 /\ e \in m - 1 .. n /\ n \in e .. n /\ e \in Int
  BY <1>1, <1>3, <1>4, <1>5
<1>8. SubSeq(Seen, m, e) \o SubSeq(Seen, e + 1, n) = SubSeq(Seen, m, n)
  <2> HIDE DEF e
  <2> QED  BY <1>3, <1>7, ConcatAdjacentSubSeq
<1>9. SubSeq(Seen, e + 1, n) = SubSeq(Seen, m + b, n)
  <2>1. CASE m + b - 1 < n
    <3>1. e + 1 = m + b
      BY <1>4, <1>5, <2>1
    <3> QED  BY <3>1
  <2>2. CASE ~ (m + b - 1 < n)
    <3>1. e + 1 = n + 1 /\ n < e + 1 /\ n < m + b /\ e + 1 \in Int /\ m + b \in Int
      BY <1>3, <1>4, <1>5, <2>2
    <3> HIDE DEF e
    <3>2. SubSeq(Seen, e + 1, n) = << >> /\ SubSeq(Seen, m + b, n) = << >>
      BY <1>3, <3>1, SubSeqEmpty
    <3> QED  BY <3>2
  <2> QED  BY <2>1, <2>2
<1>10. NextBatch \in Seq(Entries)
  <2>1. \A i \in m .. e : Seen[i] \in Entries
    BY <1>3, <1>7
  <2> HIDE DEF e
  <2> QED  BY <1>5, <1>6, <1>7, <2>1, SubSeqProperties
<1>11. Rest' \in Seq(Entries)
  <2>1. \A i \in m + b .. n : Seen[i] \in Entries
    BY <1>3, <1>4, <1>5
  <2>2. m + b \in Int /\ n \in Int
    BY <1>3, <1>4, <1>5
  <2> QED  BY <1>6, <2>1, <2>2, SubSeqProperties
<1> QED  BY <1>6, <1>8, <1>9, <1>10, <1>11

\* A pass over a part changes only the order, as far as a capture shows.
LEMMA PartPasses ==
  ASSUME NEW j \in Seq(Int), NEW x \in Seq(Int), NEW r \in Seq(Int), NEW y \in Seq(Int),
         Held(j \o (x \o r)), Held(y), AsWritten(y) = y, Rearranged(y, AsWritten(x))
  PROVE  /\ Held((j \o y) \o r)
         /\ Rearranged(AsWritten((j \o y) \o r), AsWritten(j \o (x \o r)))
<1>1. /\ x \o r \in Seq(Int) /\ j \o y \in Seq(Int) /\ j \o (x \o r) \in Seq(Int)
      /\ (j \o y) \o r \in Seq(Int) /\ j \o x \in Seq(Int)
  BY ConcatProperties
<1>2. Held(j) /\ Held(x \o r) /\ Held(x) /\ Held(r)
  BY <1>1, HeldConcat
<1>3. Held(j \o y) /\ Held((j \o y) \o r)
  BY <1>1, <1>2, HeldConcat
<1> DEFINE a == AsWritten(j)
           b == AsWritten(x)
           c == AsWritten(r)
<1>4. a \in Seq(Int) /\ b \in Seq(Int) /\ c \in Seq(Int)
  BY <1>2, AsWrittenIs
<1>5. j \o (x \o r) = (j \o x) \o r
  BY ConcatAssociative, SMTT(30)
<1>6. AsWritten((j \o x) \o r) = (a \o b) \o c
  <2>1. AsWritten((j \o x) \o r) = AsWritten(j \o x) \o c
    BY <1>1, AsWrittenConcat
  <2>2. AsWritten(j \o x) = a \o b
    BY AsWrittenConcat
  <2> QED  BY <2>1, <2>2
<1>7. AsWritten((j \o y) \o r) = (a \o y) \o c
  <2>1. AsWritten((j \o y) \o r) = AsWritten(j \o y) \o c
    BY <1>1, AsWrittenConcat
  <2>2. AsWritten(j \o y) = a \o AsWritten(y)
    BY AsWrittenConcat
  <2> QED  BY <2>1, <2>2
<1> HIDE DEF a, b, c
<1>8. Rearranged(a \o y, a \o b)
  BY <1>4, RearrangedSelf, RearrangedConcat DEF b
<1>9. a \o y \in Seq(Int) /\ a \o b \in Seq(Int)
  BY <1>4, ConcatProperties
<1>10. Rearranged((a \o y) \o c, (a \o b) \o c)
  BY <1>4, <1>8, <1>9, RearrangedSelf, RearrangedConcat
<1> QED  BY <1>3, <1>5, <1>6, <1>7, <1>10

LEMMA MergeBatchKeeps ==
  ASSUME RoundsType, RoundsKept, MergeBatch
  PROVE  RoundsKept'
<1>1. /\ input_files' = input_files /\ files' = files /\ erase_timestamp' = erase_timestamp
      /\ outcome' = outcome /\ outcome = "merging"
      /\ tmp_files' = Append(tmp_files, OnePass(NextBatch))
  BY DEF MergeBatch
<1>2. input_files' \in Seq(Settings)
  BY <1>1 DEF RoundsKept
<1> SUFFICES ASSUME Fitting
             PROVE  /\ RoundsKind' /\ tmp_files' \in Seq(Seq(Time)) /\ Held(Whole')
                    /\ Rearranged(AsWritten(Whole'), AsWritten(StampsOf(input_files)))
  BY <1>1, <1>2 DEF RoundsKept, Fitting
<1>3. /\ RoundsKind /\ tmp_files \in Seq(Seq(Time)) /\ Held(Whole)
      /\ Rearranged(AsWritten(Whole), AsWritten(StampsOf(input_files)))
      /\ input_files \in Seq(Settings)
  BY DEF RoundsKept
<1>4. RoundsKind'
  BY <1>1, <1>3 DEF RoundsKind
<1> DEFINE j == FlattenSeq(tmp_files)
           x == StampsOf(NextBatch)
           r == StampsOf(Rest')
           y == OnePass(NextBatch)
<1>5. NextBatch \in Seq(Entries) /\ Rest' \in Seq(Entries) /\ Rest = NextBatch \o Rest'
  BY <1>3, RestIs
<1>6. x \in Seq(Int) /\ r \in Seq(Int) /\ j \in Seq(Int) /\ Whole \in Seq(Int)
  BY <1>3, <1>5, ReadsIs, WholeIs
<1>7. Whole = j \o (x \o r)
  BY <1>5, StampsOfConcat DEF Whole
<1>8. Held(x)
  <2>1. x \o r \in Seq(Int)
    BY <1>6, ConcatProperties
  <2> HIDE DEF j, x, r
  <2> QED  BY <1>3, <1>6, <1>7, <2>1, HeldConcat
<1>9. /\ y \in Seq(Time) /\ y \in Seq(Int) /\ Held(y) /\ AsWritten(y) = y
      /\ Rearranged(y, AsWritten(x))
  BY <1>5, <1>8, PassKeeps
<1>10. tmp_files' \in Seq(Seq(Time)) /\ FlattenSeq(tmp_files') = j \o y
  BY <1>1, <1>3, <1>9, AppendProperties, JoinedAppend
<1>11. Whole' = (j \o y) \o r
  BY <1>10 DEF Whole
<1> DEFINE w == Whole
           v == Whole'
<1> HIDE DEF j, x, r, y, w, v
<1>12. Held(v) /\ Rearranged(AsWritten(v), AsWritten(w))
  <2>1. w = j \o (x \o r) /\ v = (j \o y) \o r /\ Held(w)
    BY <1>3, <1>7, <1>11 DEF w, v
  <2> QED  BY <1>6, <1>9, <2>1, PartPasses
<1>13. Held(w) /\ Held(StampsOf(input_files))
  BY <1>3 DEF Fitting, w
<1>14. /\ AsWritten(v) \in Seq(Int) /\ AsWritten(w) \in Seq(Int)
       /\ AsWritten(StampsOf(input_files)) \in Seq(Int)
  BY <1>12, <1>13, AsWrittenIs
<1>15. Rearranged(AsWritten(w), AsWritten(StampsOf(input_files)))
  BY <1>3 DEF w
<1>16. Rearranged(AsWritten(v), AsWritten(StampsOf(input_files)))
  BY <1>12, <1>14, <1>15, RearrangedTwice
<1> QED  BY <1>4, <1>10, <1>12, <1>16 DEF v

\* The capture a round has written, as the next round opens it.
LEMMA TmpFileIs ==
  ASSUME NEW s \in InputFile, NEW c \in Seq(Time)
  PROVE  IsTmp(TmpFile(c, s)) /\ TmpFile(c, s).file = c
<1> DEFINE z == << 0 >>
           t == TmpFile(c, s)
<1>1. z \in Seq(Int) /\ z \in Seq(0 .. MaxTime) /\ c \in Seq(Time \cup {ReadError})
  <2>1. 0 \in 0 .. MaxTime
    BY TimelineAssumption
  <2>2. c \in Seq(Time \cup {ReadError})
    BY SeqMonotonic
  <2> QED  BY <2>1, <2>2
<1>2. t = [s EXCEPT !.file = c, !.start_time = z, !.repeat = 1, !.jitter = z]
  BY DEF TmpFile
<1> HIDE DEF z, t
<1>3. /\ t \in InputFile
      /\ t.file = c /\ t.start_time = z /\ t.repeat = 1 /\ t.jitter = z
  BY <1>1, <1>2 DEF InputFile
<1>4. IsTmp(t) /\ t.file = c
  BY <1>3 DEF IsTmp, z
<1> QED  BY <1>4 DEF t

\* It is read as it was written.
LEMMA TmpIsRead ==
  ASSUME NEW r, IsTmp(r), NEW t, t = [r EXCEPT !.erase = FALSE /\ @]
  PROVE  t \in Entries /\ FlattenSeq(Timeline(t)) = r.file
<1>1. t = [r EXCEPT !.erase = FALSE] /\ r \in InputFile
  BY DEF IsTmp
<1>2. /\ t \in InputFile /\ t.file = r.file /\ t.start_time = r.start_time
      /\ t.repeat = r.repeat /\ t.jitter = r.jitter /\ t.erase = FALSE
  BY <1>1 DEF InputFile
<1>3. IsTmp(t) /\ ~ t.erase
  BY <1>2 DEF IsTmp
<1> QED  BY <1>2, <1>3, TmpTimeline

LEMMA NextRoundKeeps ==
  ASSUME RoundsType, RoundsKept, NextRound
  PROVE  RoundsKept'
<1>1. /\ input_files' = input_files /\ erase_timestamp' = FALSE /\ tmp_files' = << >>
      /\ outcome' = outcome /\ outcome = "merging" /\ First > Len(files)
      /\ files' = [k \in DOMAIN tmp_files |-> TmpFile(tmp_files[k], files[k])]
  BY DEF NextRound
<1>2. input_files' \in Seq(Settings)
  BY <1>1 DEF RoundsKept
<1> SUFFICES ASSUME Fitting
             PROVE  RoundsKind' /\ tmp_files' \in Seq(Seq(Time)) /\ Whole' = Whole
  BY <1>1, <1>2 DEF RoundsKept, Fitting
<1>3. RoundsKind /\ tmp_files \in Seq(Seq(Time))
  BY DEF RoundsKept
<1> DEFINE l == Len(tmp_files)
           n == Len(files)
<1>4. /\ IsASequence(files') /\ Len(files') = l /\ l < n /\ l \in Nat
      /\ DOMAIN tmp_files = 1 .. l /\ DOMAIN files' = 1 .. l
  BY NextRoundIs
<1>5. /\ n \in Nat /\ DOMAIN files = 1 .. n
  BY SequenceIs DEF RoundsType
<1>6. \A k \in 1 .. n : files[k] \in InputFile
  <2>1. CASE files \in Seq(Settings)
    <3>1. \A k \in 1 .. n : files[k] \in Settings
      BY <2>1
    <3> QED  BY <3>1, SettingsAssumption DEF Valid
  <2>2. CASE \A k \in DOMAIN files : IsTmp(files[k])
    BY <1>5, <2>2 DEF IsTmp
  <2> QED  BY <1>3, <2>1, <2>2 DEF RoundsKind
<1>7. ASSUME NEW k \in 1 .. l  PROVE IsTmp(files'[k]) /\ files'[k].file = tmp_files[k]
  <2> DEFINE s == files[k]
             c == tmp_files[k]
  <2>1. k \in 1 .. n
    BY <1>4, <1>5
  <2>2. s \in InputFile
    BY <1>6, <2>1
  <2>3. c \in Seq(Time)
    BY <1>3
  <2>4. files'[k] = TmpFile(c, s)
    BY <1>1, <1>4
  <2> HIDE DEF s, c
  <2> QED  BY <2>2, <2>3, <2>4, TmpFileIs DEF c
<1>8. RoundsKind'
  BY <1>1, <1>4, <1>7 DEF RoundsKind
<1>9. tmp_files' \in Seq(Seq(Time))
  BY <1>1
<1>10. Whole = FlattenSeq(tmp_files)
  BY <1>1, <1>3, WholeIs
<1> DEFINE b == Seen'
<1>11. /\ b = [k \in 1 .. l |-> [files'[k] EXCEPT !.erase = FALSE /\ @]]
       /\ Rest' = SubSeq(b, 1, l)
  <2>1. First' = 1
    <3>1. Len(tmp_files') = 0
      BY <1>1, SequenceIs, EmptyIsASequence
    <3> DEFINE m == batch_size'
    <3>2. m \in Nat /\ First' = Len(tmp_files') * m + 1
      BY DEF RoundsType, NextRound, First
    <3> HIDE DEF m
    <3>3. First' = 0 * m + 1 /\ 0 * m = 0
      BY <3>1, <3>2
    <3> QED  BY <3>3
  <2> QED  BY <1>1, <1>4, <2>1 DEF Seen, Rest
<1>12. ASSUME NEW k \in 1 .. l
       PROVE  b[k] \in Entries /\ FlattenSeq(Timeline(b[k])) = tmp_files[k]
  <2> DEFINE r == files'[k]
             t == b[k]
  <2>1. IsTmp(r) /\ r.file = tmp_files[k] /\ t = [r EXCEPT !.erase = FALSE /\ @]
    BY <1>7, <1>11
  <2> HIDE DEF r, t
  <2> QED  BY <2>1, TmpIsRead DEF t
<1> HIDE DEF b, l
<1>13. b \in Seq(Entries) /\ Len(b) = l /\ Rest' = b
  <2>1. b \in [1 .. l -> Entries]
    <3>1. b = [k \in 1 .. l |-> b[k]]
      BY <1>11
    <3> QED  BY <1>12, <3>1
  <2>2. b \in Seq(Entries) /\ Len(b) = l
    BY <1>4, <2>1
  <2> QED  BY <1>11, <2>2, SubSeqFull
<1>14. StampsOf(b) = FlattenSeq(tmp_files) /\ StampsOf(b) \in Seq(Int)
  <2>1. /\ StampsOf(b) = FlattenSeq(Reads1(b)) /\ Reads1(b) \in Seq(Seq(Time)) /\ Len(Reads1(b)) = l
        /\ \A k \in 1 .. l : Reads1(b)[k] = tmp_files[k]
    BY <1>12, <1>13, ReadsIs
  <2>2. Reads1(b) = tmp_files
    BY <1>3, <2>1, SeqEqual DEF l
  <2> QED  BY <1>13, <2>1, <2>2, ReadsIs
<1>15. Whole' = StampsOf(b)
  <2>1. Whole' = FlattenSeq(<< >>) \o StampsOf(b)
    BY <1>1, <1>13 DEF Whole
  <2> QED  BY <1>14, <2>1, JoinedEmpty, ConcatEmptySeq
<1> QED  BY <1>8, <1>9, <1>10, <1>14, <1>15

\* The pass that writes the output.
LEMMA MergeAllKeeps ==
  ASSUME RoundsType, RoundsKept, MergeAll
  PROVE  RoundsKept'
<1>1. /\ input_files' = input_files /\ files' = files /\ erase_timestamp' = erase_timestamp
      /\ tmp_files' = tmp_files /\ batch_size' = batch_size /\ output' = OnePass(Seen)
      /\ Fits
  BY DEF MergeAll
<1>2. input_files' \in Seq(Settings)
  BY <1>1 DEF RoundsKept
<1>3. Seen' = Seen /\ First' = First
  BY <1>1 DEF Seen, First
<1>4. Rest' = Rest
  BY <1>1, <1>3 DEF Rest
<1>5. Whole' = Whole
  BY <1>1, <1>4 DEF Whole
<1>6. RoundsKind' <=> RoundsKind
  BY <1>1 DEF RoundsKind
<1> SUFFICES ASSUME Fitting
             PROVE  OnePass(Seen) = OnePass(input_files)
  BY <1>1, <1>2, <1>5, <1>6 DEF RoundsKept, Fitting
<1>7. /\ RoundsKind /\ tmp_files \in Seq(Seq(Time)) /\ Held(Whole)
      /\ Rearranged(AsWritten(Whole), AsWritten(StampsOf(input_files)))
      /\ input_files \in Seq(Settings)
  BY DEF RoundsKept
<1>8. tmp_files = << >>
  BY <1>1 DEF RoundsType, Chunks, Fits
<1>9. Seen \in Seq(Entries) /\ Whole = StampsOf(Seen)
  BY <1>7, <1>8, SeenIs, WholeIs DEF RoundsType
<1>10. input_files \in Seq(Entries)
  BY <1>7, SettingsAreEntries, SeqMonotonic
<1> DEFINE a == OnePass(Seen)
           b == OnePass(input_files)
           u == AsWritten(StampsOf(Seen))
           v == AsWritten(StampsOf(input_files))
<1>11. a \in Seq(Int) /\ InTimeOrder(a) /\ Rearranged(a, u)
  BY <1>7, <1>9, PassKeeps
<1>12. b \in Seq(Int) /\ InTimeOrder(b) /\ Rearranged(b, v)
  BY <1>10, PassKeeps DEF Fitting
<1>13. u \in Seq(Int) /\ v \in Seq(Int)
  BY <1>7, <1>9, AsWrittenIs DEF Fitting
<1>14. Rearranged(u, v)
  BY <1>7, <1>9
<1> HIDE DEF a, b, u, v
<1>15. Rearranged(a, v) /\ Rearranged(v, b)
  BY <1>11, <1>12, <1>13, <1>14, RearrangedTwice, RearrangedBack
<1>16. Rearranged(a, b)
  BY <1>11, <1>12, <1>13, <1>15, RearrangedTwice
<1> QED  BY <1>11, <1>12, <1>16, OneOrderOnly DEF a, b

LEMMA RoundsStart == RoundsInit => RoundsKept
<1> SUFFICES ASSUME RoundsInit  PROVE RoundsKept
  OBVIOUS
<1>1. /\ input_files \in Seq(Settings) /\ files = input_files /\ erase_timestamp = TRUE
      /\ tmp_files = << >> /\ outcome = "merging"
  BY MergeRoundsAssumption DEF RoundsInit
<1>2. RoundsKind /\ tmp_files \in Seq(Seq(Time))
  BY <1>1 DEF RoundsKind
<1>3. RoundsType
  BY RoundsTypeStarts
<1>4. Whole = StampsOf(input_files)
  BY <1>1, <1>2, <1>3, SeenIs, WholeIs DEF RoundsType
<1> SUFFICES ASSUME Fitting
             PROVE  /\ Held(Whole)
                    /\ Rearranged(AsWritten(Whole), AsWritten(StampsOf(input_files)))
  BY <1>1, <1>2 DEF RoundsKept
<1>5. Held(Whole)
  BY <1>4 DEF Fitting
<1>6. AsWritten(Whole) \in Seq(Int)
  BY <1>5, AsWrittenIs
<1> QED  BY <1>4, <1>5, <1>6, RearrangedSelf

LEMMA RoundsKeep ==
  ASSUME RoundsType, RoundsKept, [RoundsNext]_roundsVars
  PROVE  RoundsKept'
<1>1. CASE Refuse \/ Fail \/ Returned \/ UNCHANGED roundsVars
  <2>1. /\ input_files' = input_files /\ files' = files /\ erase_timestamp' = erase_timestamp
        /\ tmp_files' = tmp_files /\ batch_size' = batch_size /\ output' = output
        /\ outcome' = "done" => outcome = "done"
    BY <1>1 DEF Refuse, Fail, Returned, roundsVars
  <2>2. Seen' = Seen /\ First' = First
    BY <2>1 DEF Seen, First
  <2>3. Rest' = Rest
    BY <2>1, <2>2 DEF Rest
  <2>4. Whole' = Whole /\ (RoundsKind' <=> RoundsKind)
    BY <2>1, <2>3 DEF Whole, RoundsKind
  <2> QED  BY <2>1, <2>4 DEF RoundsKept, Fitting
<1> QED  BY <1>1, MergeAllKeeps, MergeBatchKeeps, NextRoundKeeps DEF RoundsNext

\* Merging in rounds is not to be seen in the output.  A timeline the output cannot
\* hold is the exception the property makes: timestamps are cut where they are written.
THEOREM RoundsAreInvisible == RoundsSpec => []RoundsDoNotShow
<1>1. RoundsKept => RoundsDoNotShow
  <2> SUFFICES ASSUME RoundsKept, outcome = "done",
                      \A k \in DOMAIN StampsOf(input_files) : Representable(StampsOf(input_files)[k])
               PROVE  output = OnePass(input_files)
    BY DEF RoundsDoNotShow
  <2>1. input_files \in Seq(Entries)
    BY SettingsAreEntries, SeqMonotonic DEF RoundsKept
  <2> DEFINE a == StampsOf(input_files)
  <2>2. a \in Seq(Int)
    BY <2>1, ReadsIs
  <2>3. \A k \in DOMAIN a : Representable(a[k])
    OBVIOUS
  <2> HIDE DEF a
  <2>4. Held(a)
    BY <2>2, <2>3 DEF Held
  <2>5. Fitting
    BY <2>4 DEF Fitting, a
  <2> QED  BY <2>5 DEF RoundsKept
<1>2. RoundsInit => RoundsType
  BY RoundsTypeStarts
<1> QED  BY <1>1, RoundsStart, RoundsKeep, RoundsTypeKept, PTL DEF RoundsSpec
=============================================================================
