------------------------ MODULE DailyEvidence_proofs ------------------------
(***************************************************************************)
(* Proofs about DailyEvidence, for any history, window and bounds: what    *)
(* the walk over a window's scrapes finds was shown, what it does not find *)
(* cannot have been longer than the missed scrapes hide, and the traffic   *)
(* attributed to a window was carried in it.                               *)
(*                                                                         *)
(* The walk and the sum are recursive functions, whose values are shown    *)
(* by induction over sets of numbers (SetInduction).                       *)
(***************************************************************************)
EXTENDS MC_OpsEvidence, LogCollector_proofs, DailyReports_proofs, NaturalsInduction

-----------------------------------------------------------------------------
(* Numbers.                                                                 *)

\* A set of numbers that is not empty has a least one.
LEMMA LeastNumber ==
  ASSUME NEW T \in SUBSET Nat, T # {}
  PROVE  \E m \in T : \A k \in T : m <= k
<1>1. PICK R : R = OpToRel(<, Nat)
  OBVIOUS
<1>2. IsWellFoundedOn(R, Nat)
  BY <1>1, NatLessThanWellFounded
<1>3. \A a, b \in Nat : <<a, b>> \in R <=> a < b
  BY <1>1 DEF OpToRel
<1>4. PICK m \in T : \A k \in T : <<k, m>> \notin R
  BY <1>2, WFMin
<1>5. ASSUME NEW k \in T PROVE m <= k
  <2>1. k \in Nat /\ m \in Nat /\ <<k, m>> \notin R
    BY <1>4
  <2>2. ~(k < m)
    BY ONLY <2>1, <1>3
  <2> QED BY ONLY <2>1, <2>2
<1> QED BY <1>5

\* A set of numbers that has the first and with each the next has all.
LEMMA SetInduction ==
  ASSUME NEW S, 0 \in S, \A n \in Nat : n \in S => n + 1 \in S
  PROVE  Nat \subseteq S
<1>1. SUFFICES ASSUME Nat \ S # {} PROVE FALSE
  OBVIOUS
<1>2. PICK m \in Nat \ S : \A k \in Nat \ S : m <= k
  BY <1>1, LeastNumber
<1>3. m - 1 \in Nat /\ ~(m <= m - 1) /\ m = (m - 1) + 1
  BY <1>2
<1>4. m - 1 \in S
  BY <1>2, <1>3
<1> QED BY <1>2, <1>3, <1>4

\* And a greatest one, if it is bounded.
LEMMA GreatestNumber ==
  ASSUME NEW n \in Nat, NEW T \in SUBSET (0 .. n), T # {}
  PROVE  \E m \in T : \A k \in T : k <= m
<1>1. PICK U : U = {n - k : k \in T}
  OBVIOUS
<1>2. U \in SUBSET Nat /\ U # {}
  <2>1. \A k \in T : n - k \in Nat
    OBVIOUS
  <2>2. PICK t \in T : TRUE
    OBVIOUS
  <2>3. n - t \in U
    BY <1>1, <2>2
  <2> QED BY ONLY <1>1, <2>1, <2>3
<1>3. PICK u \in U : \A v \in U : u <= v
  BY ONLY <1>2, LeastNumber
<1>4. PICK m \in T : u = n - m
  BY <1>1, <1>3
<1>5. ASSUME NEW k \in T PROVE k <= m
  <2>1. n - k \in U
    BY <1>1
  <2>2. n - m <= n - k
    BY <1>3, <1>4, <2>1
  <2>3. k \in Int /\ m \in Int
    OBVIOUS
  <2> QED BY ONLY <2>2, <2>3, n \in Nat
<1> QED BY <1>5

-----------------------------------------------------------------------------
(* The walk over the scrapes.                                               *)

Nothing == [done |-> <<>>, open |-> <<>>]

\* The function that Walk defines exists, and its values are the steps.
LEMMA WalkSteps ==
  ASSUME NEW start \in Int, NEW end \in Int, start <= end
  PROVE  /\ Walk(start, end)[start - 1] = Nothing
         /\ \A i \in start .. end - 1 :
              Walk(start, end)[i] =
                IF i \notin Running(start, end) THEN Walk(start, end)[i - 1]
                ELSE Extend(Walk(start, end)[i - 1], i, Low(i))
<1> DEFINE Step(w, i) == IF i < start THEN Nothing
                         ELSE IF i \notin Running(start, end) THEN w[i - 1]
                         ELSE Extend(w[i - 1], i, Low(i))
           S == {n \in Nat : \E w : w = [i \in start - 1 .. start - 1 + n |-> Step(w, i)]}
<1>1. 0 \in S
  <2> DEFINE w == [i \in start - 1 .. start - 1 + 0 |-> Nothing]
  <2>1. \A i \in start - 1 .. start - 1 + 0 : Nothing = Step(w, i)
    <3> HIDE DEF Nothing
    <3> QED OBVIOUS
  <2>2. w = [i \in start - 1 .. start - 1 + 0 |-> Step(w, i)]
    <3> HIDE DEF Step, Nothing
    <3> QED BY <2>1
  <2> QED BY <2>2
<1>2. ASSUME NEW n \in Nat, n \in S PROVE n + 1 \in S
  <2>1. PICK v : v = [i \in start - 1 .. start - 1 + n |-> Step(v, i)]
    BY <1>2
  <2> DEFINE w == [i \in start - 1 .. start - 1 + (n + 1) |->
                     IF i <= start - 1 + n THEN v[i] ELSE Step(v, i)]
  <2>2. ASSUME NEW i \in start - 1 .. start - 1 + (n + 1) PROVE w[i] = Step(w, i)
    <3>1. Step(w, i) = Step(v, i)
      <4>1. CASE i < start
        BY <4>1
      <4>2. CASE i >= start
        <5>1. i - 1 \in start - 1 .. start - 1 + (n + 1) /\ i - 1 <= start - 1 + n
          BY <4>2
        <5>2. w[i - 1] = v[i - 1]
          <6> HIDE DEF Step
          <6> QED BY <5>1
        <5> HIDE DEF w
        <5> QED BY <5>2
      <4> QED BY <4>1, <4>2
    <3>2. w[i] = Step(v, i)
      <4> HIDE DEF Step
      <4>1. CASE i <= start - 1 + n
        <5>1. i \in start - 1 .. start - 1 + n
          BY <4>1
        <5>2. v[i] = Step(v, i)
          BY ONLY <5>1, <2>1
        <5> QED BY <4>1, <5>2
      <4> QED BY <4>1
    <3> HIDE DEF Step, w
    <3> QED BY <3>1, <3>2
  <2>3. w = [i \in start - 1 .. start - 1 + (n + 1) |-> Step(w, i)]
    <3>1. w = [i \in start - 1 .. start - 1 + (n + 1) |-> w[i]]
      <4> HIDE DEF Step
      <4> QED OBVIOUS
    <3> HIDE DEF w, Step
    <3> QED BY <2>2, <3>1
  <2> HIDE DEF w, Step
  <2> QED BY <2>3
<1>3. end - start \in S
  <2> HIDE DEF S
  <2>1. Nat \subseteq S
    BY <1>1, <1>2, SetInduction
  <2> QED BY <2>1
<1>4. \E w : w = [i \in start - 1 .. end - 1 |-> Step(w, i)]
  <2>1. PICK w : w = [i \in start - 1 .. start - 1 + (end - start) |-> Step(w, i)]
    BY <1>3
  <2>2. start - 1 + (end - start) = end - 1
    OBVIOUS
  <2> HIDE DEF Step
  <2> QED BY <2>1, <2>2
<1>5. Walk(start, end) = CHOOSE w : w = [i \in start - 1 .. end - 1 |-> Step(w, i)]
  BY DEF Walk, Nothing
<1>6. Walk(start, end) = [i \in start - 1 .. end - 1 |-> Step(Walk(start, end), i)]
  <2> HIDE DEF Step
  <2> QED BY <1>4, <1>5
<1>7. PICK w : w = Walk(start, end)
  OBVIOUS
<1>8. w = [i \in start - 1 .. end - 1 |-> Step(w, i)]
  <2> HIDE DEF Step
  <2> QED BY <1>6, <1>7
<1>9. \A i \in start - 1 .. end - 1 : w[i] = Step(w, i)
  <2> HIDE DEF Step
  <2> QED BY ONLY <1>8
<1>10. start - 1 \in start - 1 .. end - 1 /\ start - 1 < start
  OBVIOUS
<1>11. w[start - 1] = Nothing
  BY <1>9, <1>10
<1>12. ASSUME NEW i \in start .. end - 1
       PROVE  w[i] = IF i \notin Running(start, end) THEN w[i - 1]
                     ELSE Extend(w[i - 1], i, Low(i))
  <2>1. i \in start - 1 .. end - 1 /\ ~(i < start)
    OBVIOUS
  <2>2. w[i] = Step(w, i)
    BY <1>9, <2>1
  <2> QED BY ONLY <2>1, <2>2
<1> HIDE DEF Nothing
<1> QED BY ONLY <1>7, <1>11, <1>12

\* The points seen at which the metric was 0.
Bad(start, end) == {i \in Running(start, end) : Low(i)}

\* Points one after the other, all of B, and what the walk holds of them.
Stretch(B) == {s \in Seq(Int) : \A k \in DOMAIN s : s[k] = s[1] + k - 1 /\ s[k] \in B}
Runs(B) == [done : Seq({s \in Stretch(B) : Len(s) >= 2}), open : Stretch(B)]

Ends(w, i) == w.open # <<>> /\ w.open[Len(w.open)] = i
EndsBy(w, i) == w.open # <<>> => w.open[Len(w.open)] <= i

\* The walk has an interval to return.
Found(w) == w.done # <<>> \/ Len(w.open) >= 2

\* A stretch is a sequence of ticks in a row, all of them bad.
LEMMA StretchTyped ==
  ASSUME NEW B, NEW s \in Stretch(B)
  PROVE  /\ s \in Seq(Int) /\ Len(s) \in Nat /\ DOMAIN s = 1 .. Len(s)
         /\ \A k \in 1 .. Len(s) : s[k] \in Int /\ s[k] = s[1] + k - 1 /\ s[k] \in B
<1>1. s \in Seq(Int) /\ \A k \in DOMAIN s : s[k] = s[1] + k - 1 /\ s[k] \in B
  BY DEF Stretch
<1>2. Len(s) \in Nat /\ DOMAIN s = 1 .. Len(s)
  BY <1>1
<1> QED BY <1>1, <1>2

\* A point after the last one either lengthens the open stretch, or ends it.
LEMMA StretchGrows ==
  ASSUME NEW B \in SUBSET Int, NEW s \in Stretch(B), NEW i \in B,
         s # <<>> => s[Len(s)] = i - 1
  PROVE  Append(s, i) \in Stretch(B)
<1>1. /\ s \in Seq(Int) /\ Len(s) \in Nat
      /\ \A k \in 1 .. Len(s) : s[k] \in Int /\ s[k] = s[1] + k - 1 /\ s[k] \in B
  BY StretchTyped
<1>2. PICK t : t = Append(s, i)
  OBVIOUS
<1>3. /\ t \in Seq(Int) /\ Len(t) = Len(s) + 1 /\ t[Len(t)] = i
      /\ \A k \in 1 .. Len(s) : t[k] = s[k]
  BY <1>1, <1>2
<1>4. i \in Int
  OBVIOUS
<1>5. CASE Len(s) = 0
  <2>1. \A k \in 1 .. Len(t) : k = 1 /\ t[k] = t[1] + k - 1 /\ t[k] \in B
    BY <1>3, <1>4, <1>5
  <2>2. DOMAIN t = 1 .. Len(t)
    BY <1>3
  <2> QED BY ONLY <1>2, <1>3, <2>1, <2>2 DEF Stretch
<1>6. CASE Len(s) # 0
  <2>1. s # <<>> /\ s[Len(s)] = i - 1 /\ Len(s) \in 1 .. Len(s) /\ 1 \in 1 .. Len(s)
    BY <1>1, <1>6
  <2>2. i = s[1] + Len(t) - 1 /\ s[1] \in Int
    <3>1. s[Len(s)] = s[1] + Len(s) - 1 /\ s[1] \in Int
      BY ONLY <1>1, <2>1
    <3>2. PICK a \in Int, z \in Int : a = s[1] /\ z = s[Len(s)]
      BY ONLY <1>1, <2>1, <3>1
    <3>3. PICK n \in Nat : n = Len(s)
      BY <1>1
    <3>4. z = i - 1 /\ z = a + n - 1 /\ Len(t) = n + 1
      BY ONLY <1>3, <2>1, <3>1, <3>2, <3>3
    <3>5. i = a + (n + 1) - 1
      BY ONLY <3>4, <1>4, a \in Int, n \in Nat, z \in Int
    <3> QED BY ONLY <3>2, <3>4, <3>5
  <2>3. t[1] = s[1]
    BY ONLY <1>3, <2>1
  <2>4. ASSUME NEW k \in 1 .. Len(t) PROVE t[k] = t[1] + k - 1 /\ t[k] \in B
    <3>1. CASE k = Len(t)
      BY ONLY <1>3, <2>2, <2>3, <3>1, i \in B
    <3>2. CASE k # Len(t)
      <4>1. k \in 1 .. Len(s)
        BY ONLY <1>1, <1>3, <3>2, k \in 1 .. Len(t)
      <4> QED BY ONLY <4>1, <1>1, <1>3, <2>3
    <3> QED BY <3>1, <3>2
  <2>5. DOMAIN t = 1 .. Len(t)
    BY <1>3
  <2> QED BY ONLY <1>2, <1>3, <2>4, <2>5 DEF Stretch
<1> QED BY <1>1, <1>5, <1>6

\* One step of the walk: what it holds stays stretches of bad ticks.
LEMMA ExtendHolds ==
  ASSUME NEW B \in SUBSET Int, NEW w \in Runs(B), NEW i \in Int, EndsBy(w, i - 1),
         NEW bad \in BOOLEAN, bad => i \in B
  PROVE  LET v == Extend(w, i, bad)
         IN /\ v \in Runs(B) /\ EndsBy(v, i)
            /\ bad => Ends(v, i)
            /\ Found(w) => Found(v)
            /\ bad /\ Ends(w, i - 1) => Found(v)
<1> DEFINE Long == {s \in Stretch(B) : Len(s) >= 2}
<1>1. PICK done \in Seq(Long), open \in Stretch(B) : w = [done |-> done, open |-> open]
  BY DEF Runs
<1>2. /\ open \in Seq(Int) /\ Len(open) \in Nat
      /\ \A k \in 1 .. Len(open) : open[k] \in Int
  BY StretchTyped
<1>3. PICK v : v = Extend(w, i, bad)
  OBVIOUS
<1>4. PICK kept : kept = IF Len(open) >= 2 THEN Append(done, open) ELSE done
  OBVIOUS
<1>5. kept \in Seq(Long) /\ (Found(w) => kept # <<>>)
  <2>1. CASE Len(open) >= 2
    <3>1. open \in Long /\ kept = Append(done, open)
      BY <1>4, <2>1
    <3> HIDE DEF Long
    <3> QED BY ONLY <3>1, done \in Seq(Long)
  <2>2. CASE ~(Len(open) >= 2)
    <3> HIDE DEF Long
    <3> QED BY <1>1, <1>4, <2>2 DEF Found
  <2> QED BY <2>1, <2>2
<1> HIDE DEF Long
<1>6. CASE bad /\ (open = <<>> \/ i - open[Len(open)] <= 1)
  <2>1. v = [done |-> done, open |-> Append(open, i)]
    BY <1>1, <1>3, <1>6 DEF Extend
  <2>2. open # <<>> => open[Len(open)] = i - 1
    <3>1. SUFFICES ASSUME open # <<>> PROVE open[Len(open)] = i - 1
      OBVIOUS
    <3>2. open[Len(open)] <= i - 1 /\ i - open[Len(open)] <= 1
      BY <1>1, <1>6, <3>1 DEF EndsBy
    <3>3. open[Len(open)] \in Int
      BY <1>2, <3>1
    <3> QED BY ONLY <3>2, <3>3, i \in Int
  <2>3. Append(open, i) \in Stretch(B)
    BY <2>2, <1>6, StretchGrows
  <2>4. /\ Append(open, i) # <<>> /\ Len(Append(open, i)) = Len(open) + 1
        /\ Append(open, i)[Len(open) + 1] = i
    BY ONLY <1>2, i \in Int
  <2>5. v \in Runs(B)
    BY <2>1, <2>3 DEF Runs, Long
  <2>6. Ends(v, i) /\ EndsBy(v, i)
    BY <2>1, <2>4 DEF Ends, EndsBy
  <2>7. Found(w) => Found(v)
    BY <1>1, <1>2, <2>1, <2>4 DEF Found
  <2>8. Ends(w, i - 1) => Found(v)
    BY <1>1, <1>2, <2>1, <2>4 DEF Ends, Found
  <2> QED BY <1>3, <2>5, <2>6, <2>7, <2>8
<1>7. CASE bad /\ ~(open = <<>> \/ i - open[Len(open)] <= 1)
  <2>1. v = [done |-> kept, open |-> <<i>>]
    BY <1>1, <1>3, <1>4, <1>7 DEF Extend
  <2>2. <<i>> \in Stretch(B)
    BY <1>7 DEF Stretch
  <2>3. v \in Runs(B)
    BY <2>1, <2>2, <1>5 DEF Runs, Long
  <2>4. Ends(v, i) /\ EndsBy(v, i)
    BY <2>1 DEF Ends, EndsBy
  <2>5. Found(w) => Found(v)
    BY <2>1, <1>5 DEF Found
  <2>6. ~Ends(w, i - 1)
    BY <1>1, <1>2, <1>7 DEF Ends
  <2> QED BY <1>3, <2>3, <2>4, <2>5, <2>6
<1>8. CASE ~bad
  <2>1. v = [done |-> kept, open |-> <<>>]
    BY <1>1, <1>3, <1>4, <1>8 DEF Extend
  <2>2. <<>> \in Stretch(B)
    BY DEF Stretch
  <2>3. v \in Runs(B)
    BY <2>1, <2>2, <1>5 DEF Runs, Long
  <2>4. EndsBy(v, i)
    BY <2>1 DEF EndsBy
  <2>5. Found(w) => Found(v)
    BY <2>1, <1>5 DEF Found
  <2> QED BY <1>3, <1>8, <2>3, <2>4, <2>5
<1> QED BY <1>6, <1>7, <1>8

\* What the walk holds after each point: stretches of bad points, the open one
\* up to the point when that is bad, and one to return once two bad points
\* have followed each other.
LEMMA WalkHolds ==
  ASSUME NEW start \in Int, NEW end \in Int, start <= end, ticks \in Seq(Scrapes)
  PROVE  \A i \in start - 1 .. end - 1 :
           /\ Walk(start, end)[i] \in Runs(Bad(start, end))
           /\ \A j \in Bad(start, end) :
                j + 1 \in Bad(start, end) /\ j + 1 <= i => Found(Walk(start, end)[i])
<1>1. PICK B : B = Bad(start, end)
  OBVIOUS
<1>2. B \in SUBSET Int /\ \A i \in B : i >= start
  BY <1>1 DEF Bad, Running, Stamps
<1>3. PICK w : w = Walk(start, end)
  OBVIOUS
<1>4. /\ w[start - 1] = Nothing
      /\ \A i \in start .. end - 1 :
           w[i] = IF i \notin Running(start, end) THEN w[i - 1]
                  ELSE Extend(w[i - 1], i, Low(i))
  BY ONLY WalkSteps, <1>3, start \in Int, end \in Int, start <= end
<1>5. ASSUME NEW i \in Running(start, end) PROVE Low(i) \in BOOLEAN /\ (Low(i) <=> i \in B)
  BY <1>1 DEF Bad, Low, Stopped
<1>6. \A i \in B : i \in Running(start, end)
  BY <1>1 DEF Bad
<1> DEFINE P(i) == /\ w[i] \in Runs(B)
                   /\ EndsBy(w[i], i)
                   /\ i \in B => Ends(w[i], i)
                   /\ \A j \in B : j + 1 \in B /\ j + 1 <= i => Found(w[i])
           S == {n \in Nat : n <= end - start => P(start - 1 + n)}
<1>7. 0 \in S
  <2>1. start - 1 + 0 = start - 1 /\ start - 1 \notin B
    BY <1>2
  <2>2. Nothing \in Runs(B)
    BY DEF Nothing, Runs, Stretch
  <2>3. EndsBy(Nothing, start - 1)
    BY DEF Nothing, EndsBy
  <2>4. \A j \in B : ~(j + 1 <= start - 1)
    BY <1>2
  <2>5. P(start - 1)
    BY <1>4, <2>1, <2>2, <2>3, <2>4
  <2> HIDE DEF P
  <2> QED BY <2>1, <2>5
<1>8. ASSUME NEW n \in Nat, n \in S PROVE n + 1 \in S
  <2>1. SUFFICES ASSUME n + 1 <= end - start PROVE P(start - 1 + (n + 1))
    <3> HIDE DEF P
    <3> QED OBVIOUS
  <2>2. PICK i \in Int : i = start - 1 + (n + 1)
    OBVIOUS
  <2>3. i \in start .. end - 1 /\ i - 1 = start - 1 + n /\ n <= end - start
    BY <2>1, <2>2
  <2>4. P(i - 1)
    <3> HIDE DEF P
    <3> QED BY <1>8, <2>3
  <2>5. PICK v : v = w[i - 1]
    OBVIOUS
  <2>6. /\ v \in Runs(B) /\ EndsBy(v, i - 1) /\ (i - 1 \in B => Ends(v, i - 1))
        /\ \A j \in B : j + 1 \in B /\ j + 1 <= i - 1 => Found(v)
    BY <2>4, <2>5
  <2>7. CASE i \notin Running(start, end)
    <3>1. w[i] = v /\ i \notin B
      BY <1>4, <1>6, <2>3, <2>5, <2>7
    <3>2. EndsBy(v, i)
      <4>1. SUFFICES ASSUME v.open # <<>> PROVE v.open[Len(v.open)] <= i
        BY DEF EndsBy
      <4>2. PICK s \in Stretch(B) : s = v.open
        BY <2>6 DEF Runs
      <4>3. s \in Seq(Int) /\ Len(s) \in 1 .. Len(s)
        BY <4>1, <4>2, StretchTyped
      <4>4. s[Len(s)] <= i - 1 /\ s[Len(s)] \in Int
        BY <2>6, <4>1, <4>2, <4>3 DEF EndsBy
      <4>5. s[Len(s)] <= i
        BY ONLY <4>4, i \in Int
      <4> QED BY <4>2, <4>5
    <3>3. \A j \in B : j + 1 \in B /\ j + 1 <= i => j + 1 <= i - 1
      BY <1>2, <3>1
    <3>4. P(i)
      BY <2>6, <3>1, <3>2, <3>3
    <3> HIDE DEF P
    <3> QED BY <2>2, <3>4
  <2>8. CASE i \in Running(start, end)
    <3>1. PICK bad \in BOOLEAN : bad = Low(i) /\ (bad <=> i \in B)
      BY <1>5, <2>8
    <3>2. PICK u : u = Extend(v, i, bad)
      OBVIOUS
    <3>3. w[i] = u
      BY <1>4, <2>3, <2>5, <2>8, <3>1, <3>2
    <3>4. /\ u \in Runs(B) /\ EndsBy(u, i) /\ (bad => Ends(u, i))
          /\ (Found(v) => Found(u)) /\ (bad /\ Ends(v, i - 1) => Found(u))
      BY ONLY ExtendHolds, <1>2, <2>6, <3>1, <3>2, i \in Int
    <3>5. ASSUME NEW j \in B, j + 1 \in B, j + 1 <= i PROVE Found(u)
      <4>1. CASE j + 1 <= i - 1
        BY <2>6, <3>4, <3>5, <4>1
      <4>2. CASE ~(j + 1 <= i - 1)
        <5>1. j = i - 1 /\ j + 1 = i
          BY <1>2, <3>5, <4>2
        <5> QED BY <2>6, <3>1, <3>4, <3>5, <5>1
      <4> QED BY <4>1, <4>2
    <3>6. P(i)
      BY <3>1, <3>3, <3>4, <3>5
    <3> HIDE DEF P
    <3> QED BY <2>2, <3>6
  <2> QED BY <2>7, <2>8
<1>9. Nat \subseteq S
  <2> HIDE DEF S
  <2> QED BY <1>7, <1>8, SetInduction
<1>10. ASSUME NEW i \in start - 1 .. end - 1 PROVE P(i)
  <2>1. i - (start - 1) \in Nat /\ i - (start - 1) <= end - start /\ start - 1 + (i - (start - 1)) = i
    OBVIOUS
  <2>2. i - (start - 1) \in S
    BY <1>9, <2>1
  <2> HIDE DEF P
  <2> QED BY <2>1, <2>2
<1> QED BY <1>1, <1>3, <1>10

\* The intervals that are returned: stretches of bad points; some, when two bad
\* points follow each other.
LEMMA DowntimeHolds ==
  ASSUME NEW start \in Int, NEW end \in Int, start <= end, ticks \in Seq(Scrapes)
  PROVE  /\ \A d \in Downtime(start, end) :
              \E s \in Stretch(Bad(start, end)) :
                Len(s) >= 2 /\ d = [first |-> s[1], last |-> s[Len(s)], samples |-> Len(s)]
         /\ \A j \in Bad(start, end) :
              j + 1 \in Bad(start, end) => Downtime(start, end) # {}
<1>1. PICK B : B = Bad(start, end)
  OBVIOUS
<1>2. PICK w : w = Walk(start, end)[end - 1]
  OBVIOUS
<1>3. w \in Runs(B) /\ \A j \in B : j + 1 \in B => Found(w)
  <2>1. end - 1 \in start - 1 .. end - 1
    OBVIOUS
  <2>2. \A j \in B : j \in Int /\ j <= end - 1
    BY <1>1 DEF Bad, Running, Stamps
  <2> QED BY <1>1, <1>2, <2>1, <2>2, WalkHolds
<1> DEFINE Long == {s \in Stretch(B) : Len(s) >= 2}
<1>4. PICK done \in Seq(Long), open \in Stretch(B) : w = [done |-> done, open |-> open]
  BY <1>3 DEF Runs
<1>5. PICK all : all = IF Len(open) >= 2 THEN Append(done, open) ELSE done
  OBVIOUS
<1>6. Downtime(start, end) = {[first |-> all[n][1], last |-> all[n][Len(all[n])],
                               samples |-> Len(all[n])] : n \in DOMAIN all}
  BY <1>2, <1>4, <1>5 DEF Downtime
<1>7. all \in Seq(Long) /\ (Found(w) => all # <<>>)
  <2>1. CASE Len(open) >= 2
    <3>1. open \in Long /\ all = Append(done, open)
      BY <1>5, <2>1
    <3> HIDE DEF Long
    <3> QED BY ONLY <3>1, done \in Seq(Long)
  <2>2. CASE ~(Len(open) >= 2)
    <3> HIDE DEF Long
    <3> QED BY <1>4, <1>5, <2>2 DEF Found
  <2> QED BY <2>1, <2>2
<1>8. ASSUME NEW d \in Downtime(start, end)
      PROVE  \E s \in Stretch(B) :
               Len(s) >= 2 /\ d = [first |-> s[1], last |-> s[Len(s)], samples |-> Len(s)]
  <2>1. PICK n \in DOMAIN all : d = [first |-> all[n][1], last |-> all[n][Len(all[n])],
                                     samples |-> Len(all[n])]
    BY <1>6
  <2>2. PICK s : s = all[n]
    OBVIOUS
  <2>3. s \in Long
    <3> HIDE DEF Long
    <3> QED BY <1>7, <2>2
  <2> QED BY <2>1, <2>2, <2>3
<1>9. ASSUME NEW j \in B, j + 1 \in B PROVE Downtime(start, end) # {}
  <2>1. all # <<>>
    BY <1>3, <1>7, <1>9
  <2>2. 1 \in DOMAIN all
    <3> HIDE DEF Long
    <3> QED BY <1>7, <2>1
  <2> QED BY ONLY <1>6, <2>2
<1> QED BY <1>1, <1>8, <1>9

\* An answer that is shown again was asked for one scrape before.
AnswersRecent ==
    \A i \in DOMAIN ticks : ticks[i].told = "cached" => i > 1 /\ ticks[i - 1].told # "cached"

\* DowntimeIsMeasured follows from the history alone.
LEMMA DowntimesAreMeasured ==
  ASSUME ticks \in Seq(Scrapes), AnswersRecent
  PROVE  DowntimeIsMeasured
<1>1. Clock \in Nat /\ DOMAIN ticks = 1 .. Clock
  BY DEF Clock
<1>2. ASSUME NEW start \in 1 .. Clock, NEW d \in Downtime(start, Clock + 1)
      PROVE  /\ d.samples = d.last - d.first + 1
             /\ \A i \in d.first .. d.last :
                  /\ ticks[i].panel
                  /\ ticks[AskedAt(i)].told # "cached"
                  /\ ticks[AskedAt(i)].told = "fresh" => ticks[AskedAt(i)].down
  <2>1. PICK s \in Stretch(Bad(start, Clock + 1)) :
          Len(s) >= 2 /\ d = [first |-> s[1], last |-> s[Len(s)], samples |-> Len(s)]
    <3>1. start \in Int /\ Clock + 1 \in Int /\ start <= Clock + 1
      BY <1>1
    <3> QED BY <3>1, DowntimeHolds
  <2>2. /\ Len(s) \in Nat
        /\ \A k \in 1 .. Len(s) :
             s[k] \in Int /\ s[k] = s[1] + k - 1 /\ s[k] \in Bad(start, Clock + 1)
    BY StretchTyped
  <2>3. PICK n \in Nat : n = Len(s)
    BY <2>2
  <2>4. n >= 2 /\ d = [first |-> s[1], last |-> s[n], samples |-> n]
    BY <2>1, <2>3
  <2>5. 1 \in 1 .. n /\ n \in 1 .. n
    BY <2>4
  <2>6. PICK a \in Int, z \in Int : a = s[1] /\ z = s[n]
    BY <2>2, <2>3, <2>5
  <2>7. z = a + n - 1
    BY ONLY <2>2, <2>3, <2>5, <2>6
  <2>8. d.first = a /\ d.last = z /\ d.samples = n
    BY <2>4, <2>6
  <2>9. ASSUME NEW i \in a .. z
        PROVE  /\ ticks[i].panel
               /\ ticks[AskedAt(i)].told # "cached"
               /\ ticks[AskedAt(i)].told = "fresh" => ticks[AskedAt(i)].down
    <3>1. i - a + 1 \in 1 .. n /\ a + (i - a + 1) - 1 = i
      BY <2>7
    <3>2. s[i - a + 1] = i /\ s[i - a + 1] \in Bad(start, Clock + 1)
      BY ONLY <2>2, <2>3, <2>6, <3>1
    <3>3. Low(i) /\ ticks[i].panel /\ i \in DOMAIN ticks
      BY <3>2 DEF Bad, Running, Stamps
    <3>4. ticks[AskedAt(i)].told # "cached"
      BY <3>3 DEF AskedAt, AnswersRecent
    <3> QED BY <3>3, <3>4 DEF Low, Stopped
  <2> QED BY <2>7, <2>8, <2>9
<1> QED BY <1>2 DEF DowntimeIsMeasured

\* Points of which no two neighbours are in B: one of each pair is missing.
LEMMA PairsMissing ==
  ASSUME NEW m \in Nat, NEW i \in Int, NEW B \in SUBSET Int, NEW U, IsFiniteSet(U),
         \A j \in i .. i + 2 * m + 1 : j \in B \/ j \in U,
         \A j \in B : j + 1 \notin B
  PROVE  m + 1 <= Cardinality(U)
<1>1. PICK n \in Nat : n = Cardinality(U)
  BY FS_CardinalityType
<1>2. SUFFICES ASSUME n < m + 1 PROVE FALSE
  BY <1>1
<1> DEFINE f == [k \in 0 .. m |-> IF i + 2 * k \in U THEN i + 2 * k ELSE i + 2 * k + 1]
<1>3. ASSUME NEW k \in 0 .. m PROVE f[k] \in U /\ f[k] \in Int /\ f[k] >= i + 2 * k /\ f[k] <= i + 2 * k + 1
  <2>1. PICK a \in Int : a = i + 2 * k
    OBVIOUS
  <2>2. a \in i .. i + 2 * m + 1 /\ a + 1 \in i .. i + 2 * m + 1
    BY <2>1
  <2>3. a \in U \/ a + 1 \in U
    BY ONLY <2>2, \A j \in i .. i + 2 * m + 1 : j \in B \/ j \in U, \A j \in B : j + 1 \notin B
  <2>4. f[k] = IF a \in U THEN a ELSE a + 1
    BY <2>1
  <2> HIDE DEF f
  <2> QED BY ONLY <2>1, <2>3, <2>4, a \in Int
<1>4. f \in [0 .. m -> U]
  <2>1. f = [k \in 0 .. m |-> f[k]]
    OBVIOUS
  <2> HIDE DEF f
  <2> QED BY ONLY <1>3, <2>1
<1>5. IsFiniteSet(0 .. m) /\ Cardinality(0 .. m) = m + 1
  BY FS_Interval
<1> HIDE DEF f
<1>6. PICK x \in 0 .. m, y \in 0 .. m : x # y /\ f[x] = f[y]
  <2>1. PICK g : g = f
    OBVIOUS
  <2>2. Cardinality(U) < Cardinality(0 .. m)
    BY <1>1, <1>2, <1>5
  <2>3. g \in [0 .. m -> U]
    BY <1>4, <2>1
  <2>4. \E x, y \in 0 .. m : x # y /\ g[x] = g[y]
    BY ONLY <1>5, <2>2, <2>3, IsFiniteSet(U), FS_PigeonHole
  <2> QED BY <2>1, <2>4
<1>7. PICK v \in Int : v = f[x] /\ v = f[y] /\ v >= i + 2 * x /\ v <= i + 2 * x + 1
                       /\ v >= i + 2 * y /\ v <= i + 2 * y + 1
  BY <1>3, <1>6
<1> QED BY <1>6, <1>7

\* So does NormalMeansWatched.
LEMMA NormalIsWatched ==
  ASSUME ticks \in Seq(Scrapes)
  PROVE  NormalMeansWatched
<1>1. Clock \in Nat /\ DOMAIN ticks = 1 .. Clock
  BY DEF Clock
<1>2. SUFFICES ASSUME NEW start \in 1 .. Clock,
                      "normal" \in {Classify("normal", start, Clock + 1),
                                   Classify("ai", start, Clock + 1), Overall(start, Clock + 1)},
                      NEW m, m = (Clock + 1 - start) \div 10,
                      NEW h \in start .. Clock - 2 * m - 2,
                      \A j \in h .. h + 2 * m + 2 : ticks[j].down
               PROVE  FALSE
  BY DEF NormalMeansWatched
<1>3. PICK end \in Int : end = Clock + 1
  BY <1>1
<1>4. \E r \in {"normal", "ai"} : Classify(r, start, end) = "normal"
  <2>1. \A r \in {"normal", "ai"} : Classify(r, start, end) \in {"fault", "unknown", "normal"}
    BY DEF Classify
  <2>2. CASE \E r \in {"normal", "ai"} : Classify(r, start, end) = "normal"
    BY <2>2
  <2>3. CASE Overall(start, end) = "normal"
    <3>1. /\ "fault" \notin {Classify(r, start, end) : r \in {"normal", "ai"}}
          /\ "unknown" \notin {Classify(r, start, end) : r \in {"normal", "ai"}}
      BY <2>3 DEF Overall
    <3>2. Classify("ai", start, end) \notin {"fault", "unknown"}
      BY <3>1
    <3> QED BY <2>1, <3>2
  <2> QED BY <1>2, <1>3, <2>2, <2>3
<1>5. Downtime(start, end) = {} /\ ~Sparse(Running(start, end), start, end)
  <2>1. PICK r \in {"normal", "ai"} : Classify(r, start, end) = "normal"
    BY <1>4
  <2>2. Downtime(start, end) = {} /\ Missing(start, end) = {}
    BY <2>1 DEF Classify
  <2>3. (IF Sparse(Running(start, end), start, end) THEN {"running"} ELSE {}) = {}
    BY <2>2 DEF Missing
  <2> QED BY <2>2, <2>3
<1>6. PICK R : R = Running(start, end)
  OBVIOUS
<1>7. R \subseteq start .. Clock /\ R \subseteq DOMAIN ticks
  BY <1>1, <1>3, <1>6 DEF Running, Stamps
<1>8. PICK U : U = (start .. Clock) \ R
  OBVIOUS
<1>9. start \in Nat /\ start <= Clock
  BY <1>1
<1>10. PICK n \in Nat : n = Clock + 1 - start
  BY <1>1, <1>9
<1>11. IsFiniteSet(start .. Clock) /\ Cardinality(start .. Clock) = n
  <2>1. start \in Int /\ Clock \in Int /\ ~(start > Clock)
    BY <1>1, <1>9
  <2>2. Cardinality(start .. Clock) = Clock - start + 1 /\ IsFiniteSet(start .. Clock)
    BY <2>1, FS_Interval
  <2> QED BY <1>1, <1>9, <1>10, <2>2
<1>12. IsFiniteSet(R) /\ IsFiniteSet(U)
  BY <1>7, <1>8, <1>11, FS_Subset
<1>13. PICK r \in Nat : r = Cardinality(R)
  BY <1>12, FS_CardinalityType
<1>14. Cardinality(U) = n - r
  <2>1. (start .. Clock) \cap R = R
    BY <1>7
  <2>2. Cardinality(U) = Cardinality(start .. Clock) - Cardinality((start .. Clock) \cap R)
    BY <1>8, <1>11, FS_Difference
  <2> QED BY <1>11, <1>13, <2>1, <2>2
<1>15. ~(10 * r < 9 * n)
  <2>1. end - start = n
    BY <1>1, <1>3, <1>9, <1>10
  <2> QED BY <1>5, <1>6, <1>13, <2>1 DEF Sparse
<1>16. m = n \div 10 /\ m \in Nat
  BY <1>2, <1>10
<1>17. n - r <= m
  BY ONLY <1>15, <1>16, n \in Nat, r \in Nat
<1>18. PICK B : B = Bad(start, end)
  OBVIOUS
<1>19. B \in SUBSET Int /\ \A j \in B : j + 1 \notin B
  <2>1. start \in Int /\ start <= end
    BY <1>1, <1>3, <1>9
  <2>2. \A j \in B : j + 1 \notin B
    BY ONLY <1>5, <1>18, <2>1, end \in Int, ticks \in Seq(Scrapes), DowntimeHolds
  <2> QED BY <1>6, <1>7, <1>18, <2>2 DEF Bad
<1>23. PICK i \in Int : i = h + 1
  BY <1>1, <1>9, <1>16
<1>20. ASSUME NEW j \in i .. i + 2 * m + 1 PROVE j \in B \/ j \in U
  <2>1. j \in start .. Clock /\ j \in h .. h + 2 * m + 2 /\ j - 1 \in h .. h + 2 * m + 2
    BY <1>1, <1>9, <1>16, <1>23
  <2>2. ticks[j].down /\ ticks[j - 1].down
    BY <1>2, <2>1
  <2>3. Low(j)
    BY <2>2 DEF Low, Stopped, AskedAt
  <2> QED BY <1>6, <1>8, <1>18, <2>1, <2>3 DEF Bad
<1>21. i \in Int
  OBVIOUS
<1>22. m + 1 <= Cardinality(U)
  BY ONLY <1>12, <1>16, <1>19, <1>20, <1>21, PairsMissing
<1> QED BY ONLY <1>14, <1>16, <1>17, <1>22, n \in Nat, r \in Nat

-----------------------------------------------------------------------------
(* The readings in their order, and what is summed over them.               *)

\* How many of the set come before s by their numbers.
RankOf(s, I, f) == Cardinality({t \in I : f[t] < f[s]})

\* A finite set whose members have different numbers can be listed by them.
LEMMA Ranks ==
  ASSUME NEW I, IsFiniteSet(I), NEW f \in [I -> Nat], \A s, t \in I : f[s] = f[t] => s = t
  PROVE  \A k \in Nat : k < Cardinality(I) =>
           \E s \in I : RankOf(s, I, f) = k
<1> DEFINE Below(s) == {t \in I : f[t] < f[s]}
           S == {k \in Nat : k < Cardinality(I) => \E s \in I : Cardinality(Below(s)) = k}
<1>1. PICK N \in Nat : N = Cardinality(I)
  BY FS_CardinalityType
<1>2. ASSUME NEW U \in SUBSET I, U # {} PROVE \E u \in U : \A t \in U : f[u] <= f[t]
  <2>1. PICK V : V = {f[t] : t \in U}
    OBVIOUS
  <2>2. V \in SUBSET Nat /\ V # {}
    <3>1. PICK t \in U : TRUE
      BY <1>2
    <3> QED BY <2>1, <3>1
  <2>3. PICK v \in V : \A k \in V : v <= k
    BY ONLY <2>2, LeastNumber
  <2>4. PICK u \in U : v = f[u]
    BY <2>1
  <2> QED BY <2>1, <2>3, <2>4
<1>3. 0 \in S
  <2>1. SUFFICES ASSUME 0 < N PROVE \E s \in I : Cardinality(Below(s)) = 0
    BY <1>1
  <2>2. I # {}
    BY <1>1, <2>1, FS_EmptySet
  <2>3. PICK s \in I : \A t \in I : f[s] <= f[t]
    BY <1>2, <2>2
  <2>4. Below(s) = {}
    <3>1. ASSUME NEW t \in I PROVE ~(f[t] < f[s])
      <4>1. f[t] \in Nat /\ f[s] \in Nat /\ f[s] <= f[t]
        BY <2>3
      <4> QED BY ONLY <4>1
    <3> QED BY <3>1
  <2> HIDE DEF Below
  <2> QED BY <2>4, FS_EmptySet
<1>4. ASSUME NEW k \in Nat, k \in S PROVE k + 1 \in S
  <2>1. SUFFICES ASSUME k + 1 < N PROVE \E s \in I : Cardinality(Below(s)) = k + 1
    BY <1>1
  <2>2. PICK s \in I : Cardinality(Below(s)) = k
    BY <1>1, <1>4, <2>1
  <2>3. IsFiniteSet(Below(s))
    BY FS_Subset
  <2>4. PICK L : L = Below(s) \cup {s}
    OBVIOUS
  <2>5. IsFiniteSet(L) /\ Cardinality(L) = k + 1
    <3>1. s \notin Below(s)
      OBVIOUS
    <3> HIDE DEF Below
    <3> QED BY ONLY <2>2, <2>3, <2>4, <3>1, FS_AddElement
  <2>6. I \ L # {}
    <3>1. SUFFICES ASSUME I \subseteq L PROVE FALSE
      OBVIOUS
    <3>2. L = I
      BY <2>4, <3>1
    <3> QED BY <1>1, <2>1, <2>5, <3>2
  <2>7. PICK u \in I \ L : \A t \in I \ L : f[u] <= f[t]
    BY <1>2, <2>6
  <2>8. u \in I /\ f[s] < f[u]
    <3>1. f[u] \in Nat /\ f[s] \in Nat /\ ~(f[u] < f[s]) /\ f[u] # f[s]
      BY <2>4, <2>7
    <3> QED BY <3>1
  <2>9. Below(u) = L
    <3>1. ASSUME NEW t \in I PROVE f[t] < f[u] <=> t \in L
      <4>1. f[t] \in Nat /\ f[u] \in Nat /\ f[s] \in Nat
        BY <2>8
      <4>2. CASE t \in L
        <5>1. t = s \/ f[t] < f[s]
          BY <2>4, <4>2
        <5>2. CASE t = s
          BY ONLY <5>2, <2>8, <4>2
        <5>3. CASE f[t] < f[s]
          BY ONLY <5>3, <2>8, <4>1, <4>2
        <5> QED BY <5>1, <5>2, <5>3
      <4>3. CASE t \notin L
        <5>1. f[u] <= f[t]
          BY <2>7, <4>3
        <5> QED BY ONLY <5>1, <4>1, <4>3
      <4> QED BY <4>2, <4>3
    <3>2. L \subseteq I
      BY <2>4
    <3> QED BY <3>1, <3>2
  <2> HIDE DEF Below
  <2> QED BY ONLY <2>5, <2>8, <2>9
<1>5. Nat \subseteq S
  <2> HIDE DEF S
  <2> QED BY <1>3, <1>4, SetInduction
<1>6. \A s \in I : RankOf(s, I, f) = Cardinality(Below(s))
  BY DEF RankOf
<1> HIDE DEF Below
<1> QED BY <1>5, <1>6

\* The sums of what the selected points add, up to each of the N points.
Sums(sum, q, selected, N) ==
  /\ sum[0] = 0
  /\ \A n \in 1 .. N :
       sum[n] = sum[n - 1] + (IF n \in selected THEN GrownAt(q, selected, n) ELSE 0)

\* The function that CounterIncrease defines exists.
LEMMA SumSteps ==
  ASSUME NEW q, NEW selected, NEW N \in Nat, Len(q) = N
  PROVE  \E sum : Sums(sum, q, selected, N) /\ CounterIncrease(q, selected) = sum[N]
<1> DEFINE G(n) == GrownAt(q, selected, n)
           Step(w, n) == IF n = 0 THEN 0
                         ELSE w[n - 1] + (IF n \in selected THEN G(n) ELSE 0)
           S == {k \in Nat : \E w : w = [n \in 0 .. k |-> Step(w, n)]}
<1> HIDE DEF G
<1>1. 0 \in S
  <2> DEFINE w == [n \in 0 .. 0 |-> 0]
  <2>1. \A n \in 0 .. 0 : 0 = Step(w, n)
    OBVIOUS
  <2>2. w = [n \in 0 .. 0 |-> Step(w, n)]
    <3> HIDE DEF Step
    <3> QED BY <2>1
  <2> QED BY <2>2
<1>2. ASSUME NEW k \in Nat, k \in S PROVE k + 1 \in S
  <2>1. PICK v : v = [n \in 0 .. k |-> Step(v, n)]
    BY <1>2
  <2> DEFINE w == [n \in 0 .. k + 1 |-> IF n <= k THEN v[n] ELSE Step(v, n)]
  <2>2. ASSUME NEW n \in 0 .. k + 1 PROVE w[n] = Step(w, n)
    <3>1. Step(w, n) = Step(v, n)
      <4>1. CASE n = 0
        BY <4>1
      <4>2. CASE n # 0
        <5>1. n - 1 \in 0 .. k + 1 /\ n - 1 <= k
          BY <4>2
        <5>2. w[n - 1] = v[n - 1]
          <6> HIDE DEF Step
          <6> QED BY <5>1
        <5> HIDE DEF w
        <5> QED BY <5>2
      <4> QED BY <4>1, <4>2
    <3>2. w[n] = Step(v, n)
      <4> HIDE DEF Step
      <4>1. CASE n <= k
        <5>1. n \in 0 .. k
          BY <4>1
        <5>2. v[n] = Step(v, n)
          BY ONLY <5>1, <2>1
        <5> QED BY <4>1, <5>2
      <4> QED BY <4>1
    <3> HIDE DEF Step, w
    <3> QED BY <3>1, <3>2
  <2>3. w = [n \in 0 .. k + 1 |-> Step(w, n)]
    <3>1. w = [n \in 0 .. k + 1 |-> w[n]]
      <4> HIDE DEF Step
      <4> QED OBVIOUS
    <3> HIDE DEF w, Step
    <3> QED BY <2>2, <3>1
  <2> HIDE DEF w, Step
  <2> QED BY <2>3
<1>3. N \in S
  <2> HIDE DEF S
  <2> QED BY <1>1, <1>2, SetInduction
<1>4. PICK w : w = CHOOSE u : u = [n \in 0 .. N |-> Step(u, n)]
  OBVIOUS
<1>5. w = [n \in 0 .. N |-> Step(w, n)]
  <2> HIDE DEF Step
  <2> QED BY <1>3, <1>4
<1>6. CounterIncrease(q, selected) = w[N]
  <2>1. CounterIncrease(q, selected) = (CHOOSE u : u = [n \in 0 .. N |-> Step(u, n)])[N]
    BY DEF CounterIncrease, G
  <2> HIDE DEF Step
  <2> QED BY <1>4, <2>1
<1>7. \A n \in 0 .. N : w[n] = Step(w, n)
  <2> HIDE DEF Step
  <2> QED BY ONLY <1>5
<1>8. w[0] = 0
  BY <1>7
<1>9. \A n \in 1 .. N : w[n] = w[n - 1] + (IF n \in selected THEN G(n) ELSE 0)
  <2>1. ASSUME NEW n \in 1 .. N PROVE n \in 0 .. N /\ n # 0
    OBVIOUS
  <2> QED BY <1>7, <2>1
<1> QED BY ONLY <1>6, <1>8, <1>9 DEF G, Sums

\* What is summed is no more than what was carried from the first to the last
\* selected, and is that if exact.
Spans(q, c, selected, exact) ==
  \E first, last \in selected :
    /\ \A k \in selected : first <= k /\ k <= last
    /\ CounterIncrease(q, selected) <= c[last] - c[first]
    /\ exact => CounterIncrease(q, selected) = c[last] - c[first]

\* Of N readings each has carried what the counter shows to have grown, or more.
Carrying(v, c, N, exact) ==
  \A m, n \in 1 .. N : m < n =>
    /\ c[m] <= c[n] /\ Grown(v[m], v[n]) <= c[n] - c[m]
    /\ exact => Grown(v[m], v[n]) = c[n] - c[m]

\* Between readings of which each has carried what the counter shows to have
\* grown, or more, the sum telescopes to what was carried from the first to the
\* last selected.
LEMMA Telescopes ==
  ASSUME NEW N \in Nat, NEW q, Len(q) = N, NEW v \in [1 .. N -> Nat], NEW c \in [1 .. N -> Nat],
         \A n \in 1 .. N : q[n].value = v[n],
         NEW exact \in BOOLEAN, Carrying(v, c, N, exact),
         NEW selected \in SUBSET (1 .. N), selected # {}
  PROVE  Spans(q, c, selected, exact)
<1>c. \A m, n \in 1 .. N : m < n =>
        /\ c[m] <= c[n] /\ Grown(v[m], v[n]) <= c[n] - c[m]
        /\ exact => Grown(v[m], v[n]) = c[n] - c[m]
  BY DEF Carrying
<1>1. PICK first \in selected : \A k \in selected : first <= k
  <2>1. selected \in SUBSET Nat
    OBVIOUS
  <2> QED BY ONLY <2>1, selected # {}, LeastNumber
<1>2. PICK last \in selected : \A k \in selected : k <= last
  <2>1. selected \in SUBSET (0 .. N)
    OBVIOUS
  <2> QED BY ONLY <2>1, selected # {}, N \in Nat, GreatestNumber
<1>s. PICK sum : Sums(sum, q, selected, N) /\ CounterIncrease(q, selected) = sum[N]
  BY ONLY SumSteps, N \in Nat, Len(q) = N
<1>3. /\ sum[0] = 0
      /\ \A n \in 1 .. N :
           sum[n] = sum[n - 1] + (IF n \in selected THEN GrownAt(q, selected, n) ELSE 0)
  BY ONLY <1>s DEF Sums
<1>4. \A n \in 1 .. N : v[n] \in Nat /\ c[n] \in Nat
  OBVIOUS
<1>5. first \in 1 .. N /\ last \in 1 .. N
  OBVIOUS
<1>6. \A m, n \in 1 .. N : Grown(v[m], v[n]) \in Int
  BY <1>4 DEF Grown
<1> DEFINE Prior(n) == selected \cap 1 .. n
           P(n) == /\ sum[n] \in Int
                   /\ Prior(n) = {} => sum[n] = 0
                   /\ \A l \in Prior(n) : (\A k \in Prior(n) : k <= l) =>
                        /\ sum[n] <= c[l] - c[first]
                        /\ exact => sum[n] = c[l] - c[first]
           S == {n \in Nat : n <= N => P(n)}
<1>7. 0 \in S
  BY <1>3
<1>8. ASSUME NEW n \in Nat, n \in S PROVE n + 1 \in S
  <2>1. SUFFICES ASSUME n + 1 <= N PROVE P(n + 1)
    <3> HIDE DEF P
    <3> QED OBVIOUS
  <2>2. PICK j \in 1 .. N : j = n + 1 /\ j - 1 = n
    BY <2>1
  <2>3. P(n)
    <3> HIDE DEF P
    <3> QED BY <1>8, <2>1
  <2>4. sum[j] = sum[n] + (IF j \in selected THEN GrownAt(q, selected, j) ELSE 0)
    BY <1>3, <2>2
  <2>5. PICK s \in Int : s = sum[n]
    BY <2>3
  <2>k. /\ 1 .. j = (1 .. n) \cup {j} /\ 1 .. j - 1 = 1 .. n
        /\ \A k \in 1 .. n : k \in Nat /\ k < j
    <3>1. 1 .. n + 1 = (1 .. n) \cup {n + 1}
      <4>1. \A k \in 1 .. n + 1 : k \in 1 .. n \/ k = n + 1
        BY ONLY n \in Nat
      <4>2. \A k \in 1 .. n : k \in 1 .. n + 1
        BY ONLY n \in Nat
      <4>3. n + 1 \in 1 .. n + 1
        BY ONLY n \in Nat
      <4> QED BY ONLY <4>1, <4>2, <4>3, Zenon
    <3>2. \A k \in 1 .. n : k \in Nat /\ k < n + 1
      BY ONLY n \in Nat
    <3> QED BY ONLY <2>2, <3>1, <3>2, Zenon
  <2>6. CASE j \notin selected
    <3>1. Prior(j) = Prior(n)
      BY ONLY <2>k, <2>6, Zenon
    <3>2. sum[j] = sum[n]
      BY <2>4, <2>5, <2>6
    <3>3. P(j)
      <4> HIDE DEF Prior
      <4> QED BY <2>3, <3>1, <3>2
    <3> HIDE DEF P
    <3> QED BY <2>2, <3>3
  <2>7. CASE j \in selected
    <3>1. /\ Prior(j) = Prior(n) \cup {j} /\ selected \cap 1 .. j - 1 = Prior(n)
          /\ \A k \in Prior(n) : k \in Nat /\ k < j
      <4>1. selected \cap ((1 .. n) \cup {j}) = (selected \cap 1 .. n) \cup {j}
        BY ONLY <2>7, Zenon
      <4> QED BY ONLY <2>k, <4>1
    <3>2. \A l \in Prior(j) : (\A k \in Prior(j) : k <= l) => l = j
      <4> HIDE DEF Prior
      <4>1. j \in Nat
        OBVIOUS
      <4>2. ASSUME NEW l \in Prior(j), \A k \in Prior(j) : k <= l PROVE l = j
        <5>1. j <= l /\ (l = j \/ (l \in Nat /\ l < j))
          BY <3>1, <4>2
        <5> QED BY ONLY <4>1, <5>1
      <4> QED BY <4>2
    <3>3. SUFFICES /\ sum[j] \in Int
                   /\ sum[j] <= c[j] - c[first]
                   /\ exact => sum[j] = c[j] - c[first]
      <4>1. j \in Prior(j)
        BY <2>7
      <4>2. ASSUME /\ sum[j] \in Int
                   /\ sum[j] <= c[j] - c[first]
                   /\ exact => sum[j] = c[j] - c[first]
            PROVE  P(j)
        <5> HIDE DEF Prior
        <5> QED BY <3>2, <4>1, <4>2
      <4> HIDE DEF P
      <4> QED BY <2>2, <4>2
    <3>4. CASE Prior(n) = {}
      <4>1. GrownAt(q, selected, j) = 0
        BY <3>1, <3>4 DEF GrownAt
      <4>2. sum[j] = 0
        <5>1. sum[n] = 0
          <6> HIDE DEF Prior
          <6> QED BY ONLY <2>3, <3>4
        <5> QED BY ONLY <2>4, <2>7, <4>1, <5>1
      <4>3. first = j
        <5>1. first \notin 1 .. n
          BY <3>4
        <5>2. first <= j /\ first \in Nat
          BY <1>1, <2>7
        <5> QED BY <1>5, <2>2, <5>1, <5>2
      <4> QED BY <1>4, <4>2, <4>3
    <3>5. CASE Prior(n) # {}
      <4>1. PICK l : l = CHOOSE m \in Prior(n) : \A k \in Prior(n) : k <= m
        OBVIOUS
      <4>2. l \in Prior(n) /\ \A k \in Prior(n) : k <= l
        <5>1. Prior(n) \in SUBSET (0 .. n)
          OBVIOUS
        <5>2. \E m \in Prior(n) : \A k \in Prior(n) : k <= m
          <6> HIDE DEF Prior
          <6> QED BY ONLY <3>5, <5>1, n \in Nat, GreatestNumber
        <5> HIDE DEF Prior
        <5> QED BY <4>1, <5>2
      <4>3. l \in 1 .. N /\ l < j
        BY <2>2, <4>2
      <4>4. GrownAt(q, selected, j) = Grown(v[l], v[j])
        <5>1. GrownAt(q, selected, j) = Grown(q[l].value, q[j].value)
          <6> HIDE DEF Prior
          <6> QED BY <3>1, <3>5, <4>1 DEF GrownAt
        <5> QED BY <4>3, <5>1
      <4>5. PICK g \in Int : g = Grown(v[l], v[j])
        BY <1>6, <4>3
      <4>6. PICK a \in Nat, b \in Nat, z \in Nat : a = c[first] /\ b = c[l] /\ z = c[j]
        BY <1>4, <1>5, <4>3
      <4>7. g <= z - b /\ (exact => g = z - b)
        BY <1>c, <4>3, <4>5, <4>6
      <4>8. s <= b - a /\ (exact => s = b - a)
        <5> HIDE DEF Prior
        <5> QED BY <2>3, <2>5, <4>2, <4>6
      <4>9. sum[j] = s + g
        BY <2>4, <2>5, <2>7, <4>4, <4>5
      <4>10. s + g \in Int /\ s + g <= z - a /\ (exact => s + g = z - a)
        BY ONLY <4>7, <4>8, s \in Int, g \in Int, a \in Nat, b \in Nat, z \in Nat
      <4> QED BY ONLY <4>6, <4>9, <4>10
    <3> QED BY <3>4, <3>5
  <2> QED BY <2>6, <2>7
<1>9. P(N)
  <2>1. N \in S
    <3> HIDE DEF S
    <3> QED BY <1>7, <1>8, SetInduction
  <2> HIDE DEF P
  <2> QED BY <2>1
<1>10. last \in Prior(N) /\ \A k \in Prior(N) : k <= last
  BY <1>2
<1>11. sum[N] <= c[last] - c[first] /\ (exact => sum[N] = c[last] - c[first])
  <2> HIDE DEF Prior
  <2> QED BY <1>9, <1>10
<1> QED BY <1>1, <1>2, <1>s, <1>11 DEF Spans

-----------------------------------------------------------------------------
(* The samples.                                                             *)

Sample == [at : Nat, nth : Nat, value : Nat, carried : Nat]

EvidenceShapes ==
  /\ ticks \in Seq(Scrapes)
  /\ xray \in [value : Nat, carried : Nat] /\ xray.value <= xray.carried
  /\ asked \in Nat /\ crossed \in BOOLEAN
  /\ sampler \in [Samplers -> [pc : {"wait", "ask"}, at : Nat, nth : Nat]]
  /\ samples \in SUBSET Sample /\ IsFiniteSet(samples)

\* A reading that is to be stored has a number no other has.
Numbered ==
  /\ \A s \in samples : s.at <= Clock /\ 1 <= s.nth /\ s.nth <= asked
  /\ \A s, t \in samples : s.nth = t.nth => s = t
  /\ \A p \in Samplers : sampler[p].pc = "ask" =>
       /\ sampler[p].at <= Clock /\ 1 <= sampler[p].nth /\ sampler[p].nth <= asked
       /\ \A s \in samples : s.nth # sampler[p].nth
       /\ \A o \in Samplers \ {p} : sampler[o].pc = "ask" => sampler[o].nth # sampler[p].nth

\* Since it was read the counter has grown by what was carried, or Xray was
\* restarted and it shows no more than that.
DrawnFrom(s) ==
  /\ s.value <= s.carried /\ s.carried <= xray.carried
  /\ \/ xray.value <= xray.carried - s.carried
     \/ xray.value - s.value = xray.carried - s.carried
  /\ xray.value = xray.carried => s.value = s.carried
Drawn == \A s \in samples : DrawnFrom(s)

\* From a reading to one asked for later, unless they crossed, the counter
\* shows no more growth than was carried.
Follows(s, t) == s.carried <= t.carried /\ Grown(s.value, t.value) <= t.carried - s.carried
InOrder == crossed \/ \A s, t \in samples : s.nth < t.nth => Follows(s, t)

Sampling == EvidenceShapes /\ AnswersRecent /\ Numbered /\ Drawn /\ InOrder

\* Before the first tick nothing is sampled.
LEMMA SamplingInit ==
  EvidenceInit => Sampling
<1> SUFFICES ASSUME EvidenceInit PROVE Sampling
  OBVIOUS
<1>1. EvidenceShapes
  <2>1. IsFiniteSet({}) /\ <<>> \in Seq(Scrapes)
    BY FS_EmptySet
  <2>2. Waiting \in [pc : {"wait", "ask"}, at : Nat, nth : Nat]
    BY DEF Waiting
  <2>3. /\ ticks = <<>> /\ xray = [value |-> 0, carried |-> 0] /\ asked = 0
        /\ sampler = [p \in Samplers |-> Waiting] /\ samples = {} /\ crossed = FALSE
    BY DEF EvidenceInit
  <2>4. xray \in [value : Nat, carried : Nat] /\ xray.value <= xray.carried
    BY ONLY <2>3
  <2>5. sampler \in [Samplers -> [pc : {"wait", "ask"}, at : Nat, nth : Nat]]
    BY ONLY <2>2, <2>3
  <2>6. ticks \in Seq(Scrapes) /\ asked \in Nat /\ crossed \in BOOLEAN
    BY ONLY <2>1, <2>3
  <2>7. samples \in SUBSET Sample /\ IsFiniteSet(samples)
    BY ONLY <2>1, <2>3
  <2> QED BY <2>4, <2>5, <2>6, <2>7 DEF EvidenceShapes
<1>2. AnswersRecent /\ Numbered /\ Drawn /\ InOrder
  BY DEF EvidenceInit, AnswersRecent, Numbered, Drawn, InOrder, Waiting
<1> QED BY <1>1, <1>2 DEF Sampling

\* The fields of a stored reading, of Xray and of a sampler.
LEMMA SampleTyped ==
  ASSUME EvidenceShapes
  PROVE  /\ \A s \in samples : s.at \in Nat /\ s.nth \in Nat /\ s.value \in Nat /\ s.carried \in Nat
         /\ xray.value \in Nat /\ xray.carried \in Nat /\ Clock \in Nat
         /\ \A p \in Samplers : sampler[p].at \in Nat /\ sampler[p].nth \in Nat
                                /\ sampler[p] \in [pc : {"wait", "ask"}, at : Nat, nth : Nat]
<1>1. \A s \in samples : s.at \in Nat /\ s.nth \in Nat /\ s.value \in Nat /\ s.carried \in Nat
  BY DEF EvidenceShapes, Sample
<1>2. xray.value \in Nat /\ xray.carried \in Nat
  BY DEF EvidenceShapes
<1>3. Clock \in Nat
  BY DEF EvidenceShapes, Clock
<1>4. \A p \in Samplers : sampler[p] \in [pc : {"wait", "ask"}, at : Nat, nth : Nat]
  BY DEF EvidenceShapes
<1> QED BY <1>1, <1>2, <1>3, <1>4

\* A tick leaves the counters and the readings alone.
LEMMA TickKeeps ==
  ASSUME Sampling, NEW now \in Scrapes, Tick(now)
  PROVE  Sampling'
<1>1. /\ ticks' = Append(ticks, now) /\ xray' = xray /\ asked' = asked
      /\ sampler' = sampler /\ samples' = samples /\ crossed' = crossed
  BY DEF Tick
<1>2. EvidenceShapes /\ Numbered /\ Drawn /\ InOrder
  BY DEF Sampling
<1>3. ticks \in Seq(Scrapes)
  BY <1>2 DEF EvidenceShapes
<1>4. ticks' \in Seq(Scrapes) /\ Clock' = Clock + 1
  BY <1>1, <1>3 DEF Clock
<1>5. EvidenceShapes'
  BY <1>1, <1>2, <1>4 DEF EvidenceShapes
<1>6. \A k \in Nat : k <= Clock => k <= Clock'
  BY <1>2, <1>4, SampleTyped
<1>7. Numbered'
  <2>1. \A s \in samples : s.at <= Clock'
    BY <1>2, <1>6, SampleTyped DEF Numbered
  <2>2. \A p \in Samplers : sampler[p].pc = "ask" => sampler[p].at <= Clock'
    BY <1>2, <1>6, SampleTyped DEF Numbered
  <2> QED BY ONLY <1>1, <1>2, <2>1, <2>2 DEF Numbered
<1>8. Drawn'
  BY <1>1, <1>2 DEF Drawn, DrawnFrom
<1>9. InOrder'
  BY <1>1, <1>2 DEF InOrder
<1>10. AnswersRecent'
  <2>1. PICK n \in Nat : n = Clock
    BY <1>3 DEF Clock
  <2>2. now.told = "cached" => n > 0 /\ ticks[n].told # "cached"
    BY <2>1 DEF Tick
  <2>3. /\ DOMAIN ticks = 1 .. n /\ DOMAIN ticks' = 1 .. n + 1 /\ ticks'[n + 1] = now
        /\ \A i \in 1 .. n : ticks'[i] = ticks[i]
    BY <1>1, <1>3, <2>1 DEF Clock
  <2>4. \A i \in 1 .. n : ticks[i].told = "cached" => i > 1 /\ ticks[i - 1].told # "cached"
    BY <2>3 DEF Sampling, AnswersRecent
  <2>5. ASSUME NEW i \in 1 .. n + 1, ticks'[i].told = "cached"
        PROVE  i > 1 /\ ticks'[i - 1].told # "cached"
    <3>1. CASE i = n + 1
      BY <2>2, <2>3, <2>5, <3>1
    <3>2. CASE i # n + 1
      <4>1. i \in 1 .. n
        BY <3>2
      <4>2. i > 1 /\ ticks[i - 1].told # "cached"
        BY <2>3, <2>4, <2>5, <4>1
      <4>3. i - 1 \in 1 .. n
        BY <4>1, <4>2
      <4> QED BY <2>3, <4>2, <4>3
    <3> QED BY <3>1, <3>2
  <2> QED BY ONLY <2>3, <2>5 DEF AnswersRecent
<1> QED BY <1>5, <1>7, <1>8, <1>9, <1>10 DEF Sampling

\* What Xray does to its counter.
LEMMA CounterKeeps ==
  ASSUME Sampling, Carry \/ XrayRestarts
  PROVE  Sampling'
<1>1. /\ ticks' = ticks /\ asked' = asked
      /\ sampler' = sampler /\ samples' = samples /\ crossed' = crossed
  BY DEF Carry, XrayRestarts
<1>2. EvidenceShapes /\ Numbered /\ Drawn /\ InOrder
  BY DEF Sampling
<1>3. PICK v \in Nat, c \in Nat : v = xray.value /\ c = xray.carried /\ v <= c
  BY <1>2 DEF EvidenceShapes
<1>4. \/ xray' = [value |-> v + 1, carried |-> c + 1]
      \/ xray' = [value |-> 0, carried |-> c]
  <2>1. CASE Carry
    BY <1>3, <2>1 DEF Carry
  <2>2. CASE XrayRestarts
    <3>1. xray \in [value : Nat, carried : Nat]
      BY <1>2 DEF EvidenceShapes
    <3> QED BY <1>3, <2>2, <3>1 DEF XrayRestarts
  <2> QED BY <2>1, <2>2
<1>5. PICK w \in Nat, d \in Nat :
        /\ xray' = [value |-> w, carried |-> d]
        /\ (w = v + 1 /\ d = c + 1) \/ (w = 0 /\ d = c)
  BY <1>4
<1>6. xray'.value = w /\ xray'.carried = d /\ w <= d
  BY <1>3, <1>5
<1>7. EvidenceShapes'
  BY <1>1, <1>2, <1>5, <1>6 DEF EvidenceShapes
<1>8. Numbered' /\ InOrder'
  BY <1>1, <1>2 DEF Numbered, InOrder, Clock
<1>9. ASSUME NEW s \in samples PROVE DrawnFrom(s)'
  <2>1. PICK a \in Nat, b \in Nat : a = s.value /\ b = s.carried
    BY <1>2, SampleTyped
  <2>2. /\ a <= b /\ b <= c
        /\ v <= c - b \/ v - a = c - b
        /\ v = c => a = b
    BY <1>2, <1>3, <2>1 DEF Drawn, DrawnFrom
  <2>3. /\ a <= b /\ b <= d
        /\ w <= d - b \/ w - a = d - b
        /\ w = d => a = b
    BY ONLY <1>3, <1>5, <2>2, a \in Nat, b \in Nat, v \in Nat, c \in Nat, w \in Nat, d \in Nat
  <2> QED BY ONLY <1>6, <2>1, <2>3 DEF DrawnFrom
<1>10. Drawn'
  BY <1>1, <1>9 DEF Drawn
<1>11. AnswersRecent'
  BY <1>1 DEF Sampling, AnswersRecent
<1> QED BY <1>7, <1>8, <1>10, <1>11 DEF Sampling

\* A reading gets a number that none has.
LEMMA ObserveKeeps ==
  ASSUME Sampling, NEW p \in Samplers, Observe(p)
  PROVE  Sampling'
<1>1. /\ ticks' = ticks /\ xray' = xray /\ samples' = samples /\ crossed' = crossed
      /\ asked' = asked + 1
      /\ sampler' = [sampler EXCEPT ![p] = [pc |-> "ask", at |-> Clock, nth |-> asked + 1]]
  BY DEF Observe
<1>2. EvidenceShapes /\ Numbered /\ Drawn /\ InOrder
  BY DEF Sampling
<1>3. PICK a \in Nat, b \in Nat : a = asked /\ b = Clock
  BY <1>2, SampleTyped DEF EvidenceShapes
<1>4. PICK r : r = [pc |-> "ask", at |-> b, nth |-> a + 1]
  OBVIOUS
<1>5. /\ r \in [pc : {"wait", "ask"}, at : Nat, nth : Nat]
      /\ r.pc = "ask" /\ r.at = b /\ r.nth = a + 1
  BY <1>4
<1>6. sampler \in [Samplers -> [pc : {"wait", "ask"}, at : Nat, nth : Nat]]
  BY <1>2 DEF EvidenceShapes
<1>7. /\ sampler' \in [Samplers -> [pc : {"wait", "ask"}, at : Nat, nth : Nat]]
      /\ sampler'[p] = r /\ \A o \in Samplers \ {p} : sampler'[o] = sampler[o]
  BY ONLY <1>1, <1>3, <1>4, <1>5, <1>6, p \in Samplers
<1>8. EvidenceShapes'
  BY <1>1, <1>2, <1>3, <1>7 DEF EvidenceShapes
<1>9. \A k \in Nat : k <= a => k <= a + 1 /\ k # a + 1
  BY ONLY a \in Nat
<1>10. Clock' = b /\ asked' = a + 1
  BY <1>1, <1>3 DEF Clock
<1>11. /\ \A s \in samples : s.at <= b /\ 1 <= s.nth /\ s.nth <= a + 1 /\ s.nth # a + 1
       /\ \A o \in Samplers : sampler[o].pc = "ask" =>
            /\ sampler[o].at <= b /\ 1 <= sampler[o].nth
            /\ sampler[o].nth <= a + 1 /\ sampler[o].nth # a + 1
  BY <1>2, <1>3, <1>9, SampleTyped DEF Numbered
<1>12. \A o \in Samplers : sampler[o].pc = "ask" =>
         /\ \A s \in samples : s.nth # sampler[o].nth
         /\ \A u \in Samplers \ {o} : sampler[u].pc = "ask" => sampler[u].nth # sampler[o].nth
  BY <1>2 DEF Numbered
<1>13. ASSUME NEW o \in Samplers, sampler'[o].pc = "ask"
       PROVE  /\ sampler'[o].at <= b /\ 1 <= sampler'[o].nth /\ sampler'[o].nth <= a + 1
              /\ \A s \in samples : s.nth # sampler'[o].nth
              /\ \A u \in Samplers \ {o} :
                   sampler'[u].pc = "ask" => sampler'[u].nth # sampler'[o].nth
  <2>1. CASE o = p
    <3>1. b <= b /\ 1 <= a + 1 /\ a + 1 <= a + 1
      BY ONLY a \in Nat, b \in Nat
    <3> QED BY ONLY <1>5, <1>7, <1>11, <2>1, <3>1
  <2>2. CASE o # p
    <3>1. sampler'[o] = sampler[o]
      BY <1>7, <2>2
    <3>2. ASSUME NEW u \in Samplers \ {o}, sampler'[u].pc = "ask"
          PROVE  sampler'[u].nth # sampler'[o].nth
      <4>1. CASE u = p
        BY ONLY <4>1, <3>1, <1>5, <1>7, <1>11, <1>13, o \in Samplers
      <4>2. CASE u # p
        <5>1. sampler'[u] = sampler[u]
          BY <1>7, <4>2
        <5> QED BY ONLY <3>1, <3>2, <5>1, <1>12, <1>13, o \in Samplers, u \in Samplers \ {o}
      <4> QED BY <4>1, <4>2
    <3> QED BY ONLY <1>11, <1>12, <1>13, <3>1, <3>2, o \in Samplers
  <2> QED BY <2>1, <2>2
<1>14. Numbered'
  <2>1. \A s, t \in samples : s.nth = t.nth => s = t
    BY <1>2 DEF Numbered
  <2> QED BY ONLY <1>1, <1>10, <1>11, <1>13, <2>1 DEF Numbered
<1>15. Drawn' /\ InOrder'
  BY <1>1, <1>2 DEF Drawn, DrawnFrom, InOrder
<1>16. AnswersRecent'
  BY <1>1 DEF Sampling, AnswersRecent
<1> QED BY <1>8, <1>14, <1>15, <1>16 DEF Sampling

\* A sampling process that waits again.
LEMMA WaitingKeeps ==
  ASSUME EvidenceShapes, NEW p \in Samplers, sampler' = [sampler EXCEPT ![p] = Waiting]
  PROVE  /\ sampler' \in [Samplers -> [pc : {"wait", "ask"}, at : Nat, nth : Nat]]
         /\ \A o \in Samplers : sampler'[o].pc = "ask" => o # p /\ sampler'[o] = sampler[o]
<1>1. sampler \in [Samplers -> [pc : {"wait", "ask"}, at : Nat, nth : Nat]]
  BY DEF EvidenceShapes
<1>2. Waiting \in [pc : {"wait", "ask"}, at : Nat, nth : Nat] /\ Waiting.pc # "ask"
  BY DEF Waiting
<1>3. sampler'[p] = Waiting /\ \A o \in Samplers \ {p} : sampler'[o] = sampler[o]
  BY <1>1
<1> QED BY <1>1, <1>2, <1>3

\* A reading that fails is not stored.
LEMMA SampleFailsKeeps ==
  ASSUME Sampling, NEW p \in Samplers, SampleFails(p)
  PROVE  Sampling'
<1>1. /\ ticks' = ticks /\ xray' = xray /\ samples' = samples /\ crossed' = crossed
      /\ asked' = asked /\ sampler' = [sampler EXCEPT ![p] = Waiting]
  BY DEF SampleFails
<1>2. EvidenceShapes /\ Numbered /\ Drawn /\ InOrder
  BY DEF Sampling
<1>3. /\ sampler' \in [Samplers -> [pc : {"wait", "ask"}, at : Nat, nth : Nat]]
      /\ \A o \in Samplers : sampler'[o].pc = "ask" => o # p /\ sampler'[o] = sampler[o]
  BY <1>1, <1>2, WaitingKeeps
<1>4. EvidenceShapes'
  BY <1>1, <1>2, <1>3 DEF EvidenceShapes
<1>5. Clock' = Clock
  BY <1>1 DEF Clock
<1>6. Numbered'
  BY ONLY <1>1, <1>2, <1>3, <1>5 DEF Numbered
<1>7. Drawn' /\ InOrder'
  BY <1>1, <1>2 DEF Drawn, DrawnFrom, InOrder
<1>8. AnswersRecent'
  BY <1>1 DEF Sampling, AnswersRecent
<1> QED BY <1>4, <1>6, <1>7, <1>8 DEF Sampling

\* A reading is stored: it shows the counter as it is, and follows all earlier ones.
LEMMA StoreKeeps ==
  ASSUME Sampling, NEW p \in Samplers, Store(p)
  PROVE  Sampling'
<1>1. EvidenceShapes /\ Numbered /\ Drawn /\ InOrder
  BY DEF Sampling
<1>2. PICK n \in Nat, i \in Nat : n = sampler[p].nth /\ i = sampler[p].at
  BY <1>1, SampleTyped
<1>3. PICK v \in Nat, c \in Nat : v = xray.value /\ c = xray.carried /\ v <= c
  BY <1>1 DEF EvidenceShapes
<1>4. PICK r : r = [at |-> i, nth |-> n, value |-> v, carried |-> c]
  OBVIOUS
<1>5. r \in Sample /\ r.at = i /\ r.nth = n /\ r.value = v /\ r.carried = c
  BY <1>4 DEF Sample
<1>6. /\ ticks' = ticks /\ xray' = xray /\ asked' = asked /\ sampler[p].pc = "ask"
      /\ samples' = samples \cup {r}
      /\ crossed' = (crossed \/ \E s \in samples : s.nth > n)
      /\ sampler' = [sampler EXCEPT ![p] = Waiting]
  BY <1>2, <1>3, <1>4 DEF Store
<1>7. /\ sampler' \in [Samplers -> [pc : {"wait", "ask"}, at : Nat, nth : Nat]]
      /\ \A o \in Samplers : sampler'[o].pc = "ask" => o # p /\ sampler'[o] = sampler[o]
  BY <1>1, <1>6, WaitingKeeps
<1>8. EvidenceShapes'
  <2>1. IsFiniteSet(samples') /\ samples' \in SUBSET Sample
    BY <1>1, <1>5, <1>6, FS_AddElement DEF EvidenceShapes
  <2>2. crossed' \in BOOLEAN
    BY <1>6
  <2> QED BY ONLY <1>1, <1>6, <1>7, <2>1, <2>2 DEF EvidenceShapes
<1>9. Clock' = Clock
  BY <1>6 DEF Clock
<1>10. /\ i <= Clock /\ 1 <= n /\ n <= asked
       /\ \A s \in samples : s.nth # n
       /\ \A o \in Samplers \ {p} : sampler[o].pc = "ask" => sampler[o].nth # n
  BY ONLY <1>1, <1>2, <1>6, p \in Samplers DEF Numbered
<1>11. Numbered'
  <2>1. \A s \in samples' : s.at <= Clock /\ 1 <= s.nth /\ s.nth <= asked
    BY ONLY <1>1, <1>5, <1>6, <1>10 DEF Numbered
  <2>2. \A s, t \in samples' : s.nth = t.nth => s = t
    BY ONLY <1>1, <1>5, <1>6, <1>10 DEF Numbered
  <2>3. ASSUME NEW o \in Samplers, sampler'[o].pc = "ask"
        PROVE  /\ sampler'[o].at <= Clock /\ 1 <= sampler'[o].nth /\ sampler'[o].nth <= asked
               /\ \A s \in samples' : s.nth # sampler'[o].nth
               /\ \A u \in Samplers \ {o} :
                    sampler'[u].pc = "ask" => sampler'[u].nth # sampler'[o].nth
    <3>1. o # p /\ sampler'[o] = sampler[o] /\ sampler[o].pc = "ask"
      BY <1>7, <2>3
    <3>2. /\ sampler[o].at <= Clock /\ 1 <= sampler[o].nth /\ sampler[o].nth <= asked
          /\ \A s \in samples : s.nth # sampler[o].nth
          /\ \A u \in Samplers \ {o} : sampler[u].pc = "ask" => sampler[u].nth # sampler[o].nth
      BY ONLY <1>1, <3>1, o \in Samplers DEF Numbered
    <3>3. \A s \in samples' : s.nth # sampler[o].nth
      BY ONLY <1>5, <1>6, <1>10, <3>1, <3>2, o \in Samplers
    <3> QED BY ONLY <1>7, <3>1, <3>2, <3>3
  <2> QED BY ONLY <1>6, <1>9, <2>1, <2>2, <2>3 DEF Numbered
<1>12. ASSUME NEW s \in samples' PROVE DrawnFrom(s)'
  <2>1. CASE s \in samples
    BY ONLY <1>1, <1>6, <2>1 DEF Drawn, DrawnFrom
  <2>2. CASE s = r
    <3>1. /\ v <= c /\ c <= c /\ v - v = c - c
      BY ONLY <1>3, v \in Nat, c \in Nat
    <3> QED BY ONLY <1>3, <1>5, <1>6, <2>2, <3>1 DEF DrawnFrom
  <2> QED BY <1>6, <2>1, <2>2
<1>13. Drawn'
  BY <1>12 DEF Drawn
<1>14. \A s \in samples : Follows(s, r)
  <2>1. ASSUME NEW s \in samples PROVE Follows(s, r)
    <3>1. PICK a \in Nat, b \in Nat : a = s.value /\ b = s.carried
      BY <1>1, SampleTyped
    <3>2. b <= c /\ (v <= c - b \/ v - a = c - b)
      BY <1>1, <1>3, <3>1 DEF Drawn, DrawnFrom
    <3>3. (IF v >= a THEN v - a ELSE v) <= c - b
      BY ONLY <3>2, a \in Nat, b \in Nat, v \in Nat, c \in Nat
    <3> QED BY ONLY <1>5, <3>1, <3>2, <3>3 DEF Follows, Grown
  <2> QED BY <2>1
<1>15. InOrder'
  <2>1. CASE crossed \/ \E s \in samples : s.nth > n
    BY <1>6, <2>1 DEF InOrder
  <2>2. CASE ~crossed /\ ~\E s \in samples : s.nth > n
    <3>1. ASSUME NEW s \in samples', NEW t \in samples', s.nth < t.nth
          PROVE  Follows(s, t)
      <4>1. CASE t = r
        <5>1. s # r
          BY ONLY <1>5, <3>1, <4>1, n \in Nat
        <5> QED BY <1>6, <1>14, <4>1, <5>1
      <4>2. CASE t # r /\ s = r
        <5>1. t \in samples /\ n < t.nth /\ t.nth \in Nat
          BY <1>1, <1>5, <1>6, <3>1, <4>2, SampleTyped
        <5>2. t.nth > n
          BY ONLY <5>1, n \in Nat
        <5> QED BY <2>2, <5>1, <5>2
      <4>3. CASE t # r /\ s # r
        BY <1>1, <1>6, <2>2, <3>1, <4>3 DEF InOrder
      <4> QED BY <4>1, <4>2, <4>3
    <3>2. \A s, t \in samples' : s.nth < t.nth => Follows(s, t)
      BY <3>1
    <3>3. \A s, t : Follows(s, t)' <=> Follows(s, t)
      BY DEF Follows, Grown
    <3> QED BY ONLY <3>2 DEF InOrder, Follows, Grown
  <2> QED BY <2>1, <2>2
<1>16. AnswersRecent'
  BY <1>6 DEF Sampling, AnswersRecent
<1> QED BY <1>8, <1>11, <1>13, <1>15, <1>16 DEF Sampling

\* Each step of the ticks, the counter and the sampling processes keeps it.
LEMMA SamplingStep == Sampling /\ [EvidenceNext]_evidenceVars => Sampling'
<1> SUFFICES ASSUME Sampling, [EvidenceNext]_evidenceVars PROVE Sampling'
  OBVIOUS
<1>1. CASE UNCHANGED evidenceVars
  BY <1>1 DEF evidenceVars, Sampling, EvidenceShapes, AnswersRecent, Numbered, Drawn, DrawnFrom, InOrder, Clock
<1>2. CASE \E now \in Scrapes : Tick(now)
  BY <1>2, TickKeeps
<1>3. CASE Carry \/ XrayRestarts
  BY <1>3, CounterKeeps
<1>4. CASE \E p \in Samplers : Observe(p) \/ Store(p) \/ SampleFails(p)
  BY <1>4, ObserveKeeps, StoreKeeps, SampleFailsKeeps
<1> QED BY <1>1, <1>2, <1>3, <1>4 DEF EvidenceNext

\* The queried readings are samples, in the order of their numbers.
LEMMA QueriedInOrder ==
  ASSUME Sampling, NEW start, NEW end
  PROVE  \E N \in Nat :
           /\ Queried(start, end) \in [1 .. N -> samples] /\ Len(Queried(start, end)) = N
           /\ \A m, n \in 1 .. N :
                m < n => Queried(start, end)[m].nth < Queried(start, end)[n].nth
<1>1. EvidenceShapes /\ Numbered
  BY DEF Sampling
<1>2. PICK in : in = {s \in samples : start - Padding <= s.at /\ s.at <= end + Padding}
  OBVIOUS
<1>3. in \subseteq samples /\ IsFiniteSet(in)
  <2>1. in \in SUBSET samples
    BY <1>2
  <2>2. IsFiniteSet(samples)
    BY <1>1 DEF EvidenceShapes
  <2> QED BY ONLY <2>1, <2>2, FS_Subset
<1>4. PICK N \in Nat : N = Cardinality(in)
  BY <1>3, FS_CardinalityType
<1>5. PICK f : f = [s \in in |-> s.nth]
  OBVIOUS
<1>6. f \in [in -> Nat] /\ \A s \in in : f[s] = s.nth
  BY <1>1, <1>3, <1>5, SampleTyped
<1>7. \A s, t \in in : f[s] = f[t] => s = t
  BY <1>1, <1>3, <1>6 DEF Numbered
<1> DEFINE Below(s) == {t \in in : t.nth < s.nth}
<1>8. \A k \in Nat : k < N => \E s \in in : Cardinality(Below(s)) = k
  <2>1. \A k \in Nat : k < Cardinality(in) => \E s \in in : RankOf(s, in, f) = k
    BY ONLY <1>3, <1>6, <1>7, Ranks
  <2>2. ASSUME NEW s \in in PROVE RankOf(s, in, f) = Cardinality(Below(s))
    <3>1. {t \in in : f[t] < f[s]} = Below(s)
      BY <1>6
    <3> HIDE DEF Below
    <3> QED BY ONLY <3>1 DEF RankOf
  <2> HIDE DEF Below
  <2> QED BY ONLY <1>4, <2>1, <2>2
<1>9. PICK q : q = Queried(start, end)
  OBVIOUS
<1>10. q = [n \in 1 .. N |-> CHOOSE s \in in : Cardinality(Below(s)) = n - 1]
  BY <1>2, <1>4, <1>9 DEF Queried
<1>11. ASSUME NEW n \in 1 .. N
       PROVE  q[n] \in in /\ Cardinality(Below(q[n])) = n - 1
  <2>1. n - 1 \in Nat /\ n - 1 < N
    OBVIOUS
  <2>2. \E s \in in : Cardinality(Below(s)) = n - 1
    <3> HIDE DEF Below
    <3> QED BY <1>8, <2>1
  <2>3. q[n] = CHOOSE s \in in : Cardinality(Below(s)) = n - 1
    <3> HIDE DEF Below
    <3> QED BY <1>10
  <2> HIDE DEF Below
  <2> QED BY <2>2, <2>3
<1>12. q \in [1 .. N -> samples] /\ Len(q) = N
  <2>1. q = [n \in 1 .. N |-> q[n]]
    <3> HIDE DEF Below
    <3> QED BY <1>10
  <2>2. \A n \in 1 .. N : q[n] \in samples
    BY <1>3, <1>11
  <2>3. q \in [1 .. N -> samples]
    BY ONLY <2>1, <2>2
  <2> QED BY <2>3
<1>13. ASSUME NEW m \in 1 .. N, NEW n \in 1 .. N, m < n
       PROVE  q[m].nth < q[n].nth
  <2>1. PICK a \in Nat, b \in Nat : a = q[m].nth /\ b = q[n].nth
    BY <1>1, <1>12, SampleTyped
  <2>2. SUFFICES ASSUME b <= a PROVE FALSE
    BY <2>1
  <2>3. ASSUME NEW t \in Below(q[n]) PROVE t \in Below(q[m])
    <3>1. t \in in /\ t.nth < b /\ t.nth \in Nat
      BY <1>1, <1>3, <2>1, SampleTyped
    <3>2. t.nth < a
      BY ONLY <2>2, <3>1, a \in Nat, b \in Nat
    <3> QED BY <2>1, <3>1, <3>2
  <2>4. IsFiniteSet(Below(q[m])) /\ Below(q[n]) \in SUBSET Below(q[m])
    <3>1. Below(q[m]) \in SUBSET in
      OBVIOUS
    <3>2. IsFiniteSet(Below(q[m]))
      <4> HIDE DEF Below
      <4> QED BY ONLY <1>3, <3>1, FS_Subset
    <3> HIDE DEF Below
    <3> QED BY <2>3, <3>2
  <2>5. Cardinality(Below(q[n])) <= Cardinality(Below(q[m]))
    <3> HIDE DEF Below
    <3> QED BY ONLY <2>4, FS_Subset
  <2>6. n - 1 <= m - 1
    <3> HIDE DEF Below
    <3> QED BY <1>11, <2>5
  <2> QED BY <1>13, <2>6
<1> QED BY ONLY <1>9, <1>12, <1>13, N \in Nat

\* AttributionSound, of the readings that the query returns.
LEMMA AttributionIsSound ==
  ASSUME Sampling
  PROVE  AttributionSound
<1>1. EvidenceShapes /\ Numbered /\ Drawn /\ InOrder
  BY DEF Sampling
<1>2. SUFFICES ASSUME NEW start \in 0 .. Clock, NEW end \in start + 1 .. Clock,
                      Selected(start, end) # {}, ~crossed
               PROVE  LET q == Queried(start, end)
                          chosen == Selected(start, end)
                          Between == {q[n].carried - q[m].carried : m, n \in chosen}
                      IN /\ \E bytes \in Between : Attributed(start, end) <= bytes
                         /\ xray.value = xray.carried =>
                              /\ Attributed(start, end) \in Between
                              /\ \A bytes \in Between : bytes <= Attributed(start, end)
  BY DEF AttributionSound
<1>3. PICK q : q = Queried(start, end)
  OBVIOUS
<1>4. PICK N \in Nat :
        /\ q \in [1 .. N -> samples] /\ Len(q) = N
        /\ \A m, n \in 1 .. N : m < n => q[m].nth < q[n].nth
  BY <1>3, QueriedInOrder
<1>5. PICK chosen : chosen = Selected(start, end)
  OBVIOUS
<1>6. chosen \in SUBSET (1 .. N) /\ chosen # {}
  <2>1. chosen \subseteq DOMAIN q
    BY <1>3, <1>5 DEF Selected
  <2>2. DOMAIN q = 1 .. N
    BY <1>4
  <2> QED BY <1>2, <1>5, <2>1, <2>2
<1>7. PICK v, c : v = [n \in 1 .. N |-> q[n].value] /\ c = [n \in 1 .. N |-> q[n].carried]
  OBVIOUS
<1>8. \A n \in 1 .. N : q[n] \in samples
  BY <1>4
<1>9. \A n \in 1 .. N : /\ q[n].value \in Nat /\ q[n].carried \in Nat
                        /\ v[n] = q[n].value /\ c[n] = q[n].carried
  BY <1>1, <1>7, <1>8, SampleTyped
<1>10. v \in [1 .. N -> Nat] /\ c \in [1 .. N -> Nat]
  BY <1>7, <1>9
<1>11. \A m, n \in 1 .. N : m < n => c[m] <= c[n] /\ Grown(v[m], v[n]) <= c[n] - c[m]
  <2>1. \A s, t \in samples : s.nth < t.nth => Follows(s, t)
    BY <1>1, <1>2 DEF InOrder
  <2> QED BY ONLY <1>4, <1>8, <1>9, <2>1 DEF Follows
<1>12. PICK exact \in BOOLEAN : exact <=> xray.value = xray.carried
  OBVIOUS
<1>13. exact => \A m, n \in 1 .. N : m < n => Grown(v[m], v[n]) = c[n] - c[m]
  <2>1. SUFFICES ASSUME exact, NEW m \in 1 .. N, NEW n \in 1 .. N, m < n
                 PROVE  Grown(v[m], v[n]) = c[n] - c[m]
    OBVIOUS
  <2>2. v[m] = c[m] /\ v[n] = c[n]
    BY <1>1, <1>8, <1>9, <1>12, <2>1 DEF Drawn, DrawnFrom
  <2>3. c[m] <= c[n] /\ c[m] \in Nat /\ c[n] \in Nat
    BY <1>9, <1>11, <2>1
  <2> QED BY ONLY <2>2, <2>3 DEF Grown
<1>14. PICK first \in chosen, last \in chosen :
         /\ \A k \in chosen : first <= k /\ k <= last
         /\ CounterIncrease(q, chosen) <= c[last] - c[first]
         /\ exact => CounterIncrease(q, chosen) = c[last] - c[first]
  <2>1. Len(q) = N /\ \A n \in 1 .. N : q[n].value = v[n]
    BY <1>4, <1>9
  <2>2. Carrying(v, c, N, exact)
    BY ONLY <1>11, <1>13 DEF Carrying
  <2>3. Spans(q, c, chosen, exact)
    BY ONLY <1>6, <1>10, <2>1, <2>2, N \in Nat, exact \in BOOLEAN, Telescopes
  <2> QED BY ONLY <2>3 DEF Spans
<1>15. Attributed(start, end) = CounterIncrease(q, chosen)
  BY <1>3, <1>5 DEF Attributed
<1> DEFINE Between == {q[n].carried - q[m].carried : m, n \in chosen}
<1>17. c[last] - c[first] \in Between
  <2>1. c[last] = q[last].carried /\ c[first] = q[first].carried
    BY <1>6, <1>9
  <2> QED BY ONLY <2>1, first \in chosen, last \in chosen
<1>18. ASSUME NEW bytes \in Between PROVE bytes <= c[last] - c[first]
  <2>1. PICK m \in chosen, n \in chosen : bytes = q[n].carried - q[m].carried
    OBVIOUS
  <2>2. \A k, l \in 1 .. N : k <= l => c[k] <= c[l]
    <3>1. \A k, l \in 1 .. N : k <= l => k = l \/ k < l
      OBVIOUS
    <3>2. \A k \in 1 .. N : c[k] <= c[k]
      BY <1>9
    <3> QED BY ONLY <1>11, <3>1, <3>2
  <2>3. m \in 1 .. N /\ n \in 1 .. N /\ first \in 1 .. N /\ last \in 1 .. N
    BY ONLY <1>6, m \in chosen, n \in chosen, first \in chosen, last \in chosen
  <2>4. c[first] <= c[m] /\ c[n] <= c[last]
    BY ONLY <1>14, <2>2, <2>3, m \in chosen, n \in chosen
  <2>5. PICK a \in Nat, b \in Nat, d \in Nat, e \in Nat :
          a = c[first] /\ b = c[m] /\ d = c[n] /\ e = c[last]
    <3>1. c[first] \in Nat /\ c[m] \in Nat /\ c[n] \in Nat /\ c[last] \in Nat
      BY ONLY <1>10, <2>3
    <3> QED BY ONLY <3>1
  <2>6. bytes = d - b
    BY <1>9, <2>1, <2>3, <2>5
  <2>7. d - b <= e - a
    BY ONLY <2>4, <2>5, a \in Nat, b \in Nat, d \in Nat, e \in Nat
  <2> QED BY ONLY <2>5, <2>6, <2>7
<1>19. /\ \E bytes \in Between : Attributed(start, end) <= bytes
       /\ xray.value = xray.carried =>
            /\ Attributed(start, end) \in Between
            /\ \A bytes \in Between : bytes <= Attributed(start, end)
  <2> HIDE DEF Between
  <2> QED BY ONLY <1>12, <1>14, <1>15, <1>17, <1>18
<1> QED BY <1>3, <1>5, <1>19

-----------------------------------------------------------------------------
(* The theorems.                                                            *)

\* The inductive invariant of the samples holds: the numbers of the readings,
\* stored or under way, are different; the counter has grown since each stored
\* one by what was carried, or was reset; and from one to a later one it shows
\* no more growth than that, unless they crossed.
THEOREM SamplingHolds == EvidenceSpec => []Sampling
<1> QED BY SamplingInit, SamplingStep, PTL DEF EvidenceSpec

\* The evidence's state is type-correct; a reading has one number and was made
\* no later than now.
THEOREM EvidenceTyped == EvidenceSpec => []EvidenceTypeOK
<1>1. Sampling => EvidenceTypeOK
  <2> SUFFICES ASSUME Sampling PROVE EvidenceTypeOK
    OBVIOUS
  <2>1. EvidenceShapes /\ Numbered /\ Drawn
    BY DEF Sampling
  <2>2. ticks \in Seq(Scrapes) /\ xray.carried \in Nat /\ xray.value \in 0 .. xray.carried
    BY <2>1 DEF EvidenceShapes
  <2>3. asked \in Nat
    BY <2>1 DEF EvidenceShapes
  <2>4. ASSUME NEW s \in samples
        PROVE  s.at \in 0 .. Clock /\ s.nth \in 1 .. asked /\ s.value \in 0 .. s.carried
    <3>1. s.at <= Clock /\ 1 <= s.nth /\ s.nth <= asked /\ s.value <= s.carried
      BY <2>1 DEF Numbered, Drawn, DrawnFrom
    <3>2. s.at \in Nat /\ s.nth \in Nat /\ s.value \in Nat /\ s.carried \in Nat /\ Clock \in Nat
      BY <2>1, SampleTyped
    <3> QED BY ONLY <2>3, <3>1, <3>2
  <2>5. ASSUME NEW p \in Samplers, sampler[p].pc = "ask" PROVE sampler[p].nth \in 1 .. asked
    <3>1. sampler[p].nth \in Nat /\ 1 <= sampler[p].nth /\ sampler[p].nth <= asked
      BY <2>1, <2>5, SampleTyped DEF Numbered
    <3> QED BY ONLY <2>3, <3>1
  <2> QED BY <2>1, <2>2, <2>4, <2>5 DEF EvidenceTypeOK, Numbered
<1> QED BY <1>1, SamplingHolds, PTL

\* Every downtime that _intervals finds in a window was measured, for any window
\* and any scrapes missed: at each tick of it the panel was scraped, and showed a
\* node that was down or could not be asked, then or one scrape before.
THEOREM DowntimesMeasured == EvidenceSpec => []DowntimeIsMeasured
<1>1. Sampling => DowntimeIsMeasured
  BY DowntimesAreMeasured DEF Sampling, EvidenceShapes
<1> QED BY <1>1, SamplingHolds, PTL

\* "normal" is never said of an outage longer than what the missed scrapes that
\* the coverage allows can hide, for any window: each pair of two neighbours
\* that the walk does not find costs a missed one.
THEOREM NormalsWatched == EvidenceSpec => []NormalMeansWatched
<1>1. Sampling => NormalMeansWatched
  BY NormalIsWatched DEF Sampling, EvidenceShapes
<1> QED BY <1>1, SamplingHolds, PTL

\* The traffic attributed to a window was carried in it, over restarts of Xray,
\* and is all of it without one, for any samplers whose readings do not cross.
THEOREM AttributionsSound == EvidenceSpec => []AttributionSound
<1>1. Sampling => AttributionSound
  BY AttributionIsSound
<1> QED BY <1>1, SamplingHolds, PTL

-----------------------------------------------------------------------------
(* The ops components side by side. *)

\* What the collector, the reporter and the evidence do together is what each of
\* them does: all that is proved of one holds beside the others.
THEOREM OpsAreTheirParts == Spec => CollectSpec /\ ReportsSpec /\ EvidenceSpec
<1>1. Init => CollectInit /\ ReportsInit /\ EvidenceInit
  BY DEF Init
<1>2. [Next]_vars => [CollectNext]_collectVars /\ [ReportsNext]_reportVars
                       /\ [EvidenceNext]_evidenceVars
  <2> USE DEF vars
  <2>1. CASE CollectNext /\ UNCHANGED <<part, reportVars, evidenceVars>>
    BY <2>1
  <2>2. CASE ReportsNext /\ UNCHANGED <<part, collectVars, evidenceVars>>
    BY <2>2
  <2>3. CASE EvidenceNext /\ UNCHANGED <<part, collectVars, reportVars>>
    BY <2>3
  <2>4. CASE UNCHANGED vars
    BY <2>4
  <2> QED
    BY <2>1, <2>2, <2>3, <2>4 DEF Next
<1> QED
  BY <1>1, <1>2, PTL DEF Spec, CollectSpec, ReportsSpec, EvidenceSpec

\* The state of each part is what its declarations say it is, and in it no row is
\* dangling, no generation is listed twice, and exactly the run that is under way
\* holds the reporter's lock.
THEOREM OpsTyped == Spec => []OpsTypeOK
BY OpsAreTheirParts, CollectTyped, ReportsTyped, EvidenceTyped, PTL DEF OpsTypeOK
=============================================================================
