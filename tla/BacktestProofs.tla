---------------------------- MODULE BacktestProofs ----------------------------
(***************************************************************************)
(* Whatever the pivots, the prices and the parameters, a signal stands up: *)
(* its stop is beyond the invalidation, the invalidation beyond the entry  *)
(* and the target ahead of it.                                             *)
(*                                                                         *)
(* It follows from the pivots alternating, from the rules R1 and R3 and    *)
(* from the price being inside the zone; neither the noise nor the fee     *)
(* filter of build_plan is needed.                                         *)
(*                                                                         *)
(* Nor does a booking on the bars flatter it: a bar touches what one of    *)
(* its minutes touches (MadeTouches), so the first bar to touch a barrier  *)
(* holds the first minute to do so; a profit is booked only if that bar    *)
(* keeps clear of the stop, and then so does the minute.                   *)
(***************************************************************************)
EXTENDS Backtest, SequenceTheorems, WellFoundedInduction, TLAPS

(* One signal of SignalsStandUp. *)
StandsUp(h, price, a) ==
  /\ h.s * Stop(h, price, a) < h.s * Fine(Invalidation(h))
  /\ h.s * Fine(Invalidation(h)) < h.s * Fine(price)
  /\ h.s * Fine(price) < h.s * Target(h)

(* A count with k vertices: the turns alternate, from a low if it rises. *)
Zigzags(h, k) ==
  /\ h.s \in {1, -1}
  /\ h.points \in [1..k -> Nat \ {0}]
  /\ \A j \in {1, 3, 5} : j < k =>
       IF h.s = 1 THEN h.points[j] < h.points[j + 1] ELSE h.points[j] > h.points[j + 1]
  /\ \A j \in {2, 4} : j < k =>
       IF h.s = 1 THEN h.points[j] > h.points[j + 1] ELSE h.points[j] < h.points[j + 1]

-----------------------------------------------------------------------------
(***************************************************************************)
(* The plan.                                                               *)
(***************************************************************************)
LEMMA BufferPositive ==
  ASSUME NEW price \in Nat \ {0}, NEW a \in Nat
  PROVE  Buffer(price, a) \in Nat \ {0}
BY TickAssumption DEF Buffer, Larger

(* A count in its second wave. *)
LEMMA SecondWaveStandsUp ==
  ASSUME NEW h, Len(h.points) = 3, Zigzags(h, 3), R1(h),
         NEW price \in Nat \ {0}, NEW a \in Nat, InZone(h, price)
  PROVE  StandsUp(h, price, a)
<1> DEFINE p1 == h.points[1]
           p2 == h.points[2]
           p3 == h.points[3]
           b == Buffer(price, a)
<1>1. b \in Nat \ {0} BY BufferPositive
<1>2. /\ p1 \in Nat \ {0} /\ p2 \in Nat \ {0} /\ p3 \in Nat \ {0} /\ h.s \in {1, -1}
      /\ h.s = 1 => p1 < p2 /\ p3 > p1
      /\ h.s = -1 => p1 > p2 /\ p3 < p1
  BY DEF Zigzags, R1
<1>3. Archetype(h) = "w2" BY DEF Archetype
<1>4. /\ Invalidation(h) = p1
      /\ Target(h) = 10000 * p3 + 16180 * (p2 - p1)
      /\ Stop(h, price, a) = 10000 * p1 - h.s * b
  BY <1>3 DEF Invalidation, Target, Stop, Fine
<1> DEFINE x == 10000 * p2 - (p2 - p1) * 5000
           y == 10000 * p2 - (p2 - p1) * 7860
<1>5. Zone(h) = [lo |-> Smaller(x, y), hi |-> Larger(x, y)]
  BY <1>3 DEF Zone, FibZone, Retraced, Fine
<1>6. Smaller(x, y) <= 10000 * price /\ 10000 * price <= Larger(x, y)
  BY <1>5 DEF InZone, Fine
<1> HIDE DEF p1, p2, p3, b
<1>7. CASE h.s = 1
  BY <1>1, <1>2, <1>4, <1>6, <1>7 DEF StandsUp, Fine, Smaller, Larger
<1>8. CASE h.s = -1
  BY <1>1, <1>2, <1>4, <1>6, <1>8 DEF StandsUp, Fine, Smaller, Larger
<1> QED BY <1>2, <1>7, <1>8

(* A count in its fourth wave. *)
LEMMA FourthWaveStandsUp ==
  ASSUME NEW h, Len(h.points) = 5, Zigzags(h, 5), R3(h),
         NEW price \in Nat \ {0}, NEW a \in Nat, InZone(h, price)
  PROVE  StandsUp(h, price, a)
<1> DEFINE p1 == h.points[1]
           p2 == h.points[2]
           p3 == h.points[3]
           p4 == h.points[4]
           p5 == h.points[5]
           b == Buffer(price, a)
<1>1. b \in Nat \ {0} BY BufferPositive
<1>2. /\ p1 \in Nat \ {0} /\ p2 \in Nat \ {0} /\ p3 \in Nat \ {0}
      /\ p4 \in Nat \ {0} /\ p5 \in Nat \ {0} /\ h.s \in {1, -1}
      /\ h.s = 1 => p1 < p2 /\ p3 < p2 /\ p3 < p4 /\ p5 > p2
      /\ h.s = -1 => p1 > p2 /\ p3 > p2 /\ p3 > p4 /\ p5 < p2
  BY DEF Zigzags, R3
<1>3. Archetype(h) = "w4" BY DEF Archetype
<1>4. /\ Invalidation(h) = p2
      /\ Target(h) = 10000 * p5 + 6180 * (p4 - p1)
      /\ Stop(h, price, a) = 10000 * p2 - h.s * b
  BY <1>3 DEF Invalidation, Target, Stop, Fine
<1> DEFINE x == 10000 * p4 - (p4 - p3) * 3820
           y == 10000 * p4 - (p4 - p3) * 5000
<1>5. /\ h.s = 1 => Zone(h) = [lo |-> Larger(Smaller(x, y), 10005 * p2), hi |-> Larger(x, y)]
      /\ h.s # 1 => Zone(h) = [lo |-> Smaller(x, y), hi |-> Smaller(Larger(x, y), 9995 * p2)]
  BY <1>3 DEF Zone, FibZone, Retraced, Fine
<1>6. /\ h.s = 1 => /\ Larger(Smaller(x, y), 10005 * p2) <= 10000 * price
                    /\ 10000 * price <= Larger(x, y)
      /\ h.s # 1 => /\ Smaller(x, y) <= 10000 * price
                    /\ 10000 * price <= Smaller(Larger(x, y), 9995 * p2)
  BY <1>5 DEF InZone, Fine
<1> HIDE DEF p1, p2, p3, p4, p5, b
<1>7. CASE h.s = 1
  BY <1>1, <1>2, <1>4, <1>6, <1>7 DEF StandsUp, Fine, Smaller, Larger
<1>8. CASE h.s = -1
  BY <1>1, <1>2, <1>4, <1>6, <1>8 DEF StandsUp, Fine, Smaller, Larger
<1> QED BY <1>2, <1>7, <1>8

(* The two that are entered. *)
LEMMA PlanStandsUp ==
  ASSUME NEW h, NEW k \in 3..6, Zigzags(h, k), Valid(h),
         NEW price \in Nat \ {0}, NEW a \in Nat, Viable(h, price, a), InZone(h, price)
  PROVE  StandsUp(h, price, a)
<1>1. Len(h.points) = k BY DEF Zigzags
<1>2. k \in {3, 5} BY <1>1 DEF Viable, Entered, Archetype
<1>3. CASE k = 3 BY <1>1, <1>3, SecondWaveStandsUp DEF Valid
<1>4. CASE k = 5 BY <1>1, <1>4, FourthWaveStandsUp DEF Valid, R3
<1> QED BY <1>2, <1>3, <1>4

-----------------------------------------------------------------------------
(***************************************************************************)
(* The counts.                                                             *)
(***************************************************************************)
LEMMA TurnsAlternate ==
  ASSUME NEW k \in 3..6, NEW f \in [1..k -> {"LOW", "HIGH"}], NEW P \in [1..k -> Nat],
         \A j \in 1..(k - 1) :
           \/ f[j] = "LOW" /\ f[j + 1] = "HIGH" /\ P[j] < P[j + 1]
           \/ f[j] = "HIGH" /\ f[j + 1] = "LOW" /\ P[j] > P[j + 1]
  PROVE  /\ \A j \in {1, 3, 5} : j < k =>
              IF f[1] = "LOW" THEN P[j] < P[j + 1] ELSE P[j] > P[j + 1]
         /\ \A j \in {2, 4} : j < k =>
              IF f[1] = "LOW" THEN P[j] > P[j + 1] ELSE P[j] < P[j + 1]
<1> DEFINE Turn(j) == \/ f[j] = "LOW" /\ f[j + 1] = "HIGH" /\ P[j] < P[j + 1]
                      \/ f[j] = "HIGH" /\ f[j + 1] = "LOW" /\ P[j] > P[j + 1]
<1>1. Turn(1) /\ Turn(2) OBVIOUS
<1>2. 3 < k => Turn(3) OBVIOUS
<1>3. 4 < k => Turn(4) OBVIOUS
<1>4. 5 < k => Turn(5) OBVIOUS
<1>5. /\ f[1] = "LOW" => f[2] = "HIGH" /\ f[3] = "LOW"
      /\ f[1] # "LOW" => f[2] = "LOW" /\ f[3] = "HIGH"
  BY <1>1
<1>6. 3 < k => IF f[1] = "LOW" THEN f[4] = "HIGH" ELSE f[4] = "LOW" BY <1>2, <1>5
<1>7. 4 < k => IF f[1] = "LOW" THEN f[5] = "LOW" ELSE f[5] = "HIGH" BY <1>3, <1>6
<1>8. IF f[1] = "LOW" THEN P[1] < P[2] /\ P[2] > P[3] ELSE P[1] > P[2] /\ P[2] < P[3]
  BY <1>1, <1>5
<1>9. 3 < k => IF f[1] = "LOW" THEN P[3] < P[4] ELSE P[3] > P[4] BY <1>2, <1>5
<1>10. 4 < k => IF f[1] = "LOW" THEN P[4] > P[5] ELSE P[4] < P[5] BY <1>3, <1>6
<1>11. 5 < k => IF f[1] = "LOW" THEN P[5] < P[6] ELSE P[5] > P[6] BY <1>4, <1>7
<1> QED BY <1>8, <1>9, <1>10, <1>11

(* A reading of pivots that alternate is a zigzag. *)
LEMMA ReadingZigzags ==
  ASSUME NEW pivots \in Seq(Pivots),
         \A j \in 1..(Len(pivots) - 1) : Alternate(pivots[j], pivots[j + 1]),
         NEW k \in 3..6, NEW end \in k..Len(pivots)
  PROVE  Zigzags(Reading(pivots, k, end), k)
<1> DEFINE h == Reading(pivots, k, end)
           q == end - k
<1>1. q \in Nat /\ \A j \in 1..k : q + j \in 1..Len(pivots) OBVIOUS
<1>2. \A j \in 1..k : pivots[q + j].kind \in {"LOW", "HIGH"} /\ pivots[q + j].price \in Nat \ {0}
  <2>1. \A i \in 1..Len(pivots) : pivots[i] \in Pivots OBVIOUS
  <2>2. \A j \in 1..k : pivots[q + j] \in Pivots BY <1>1, <2>1
  <2> QED BY <2>2 DEF Pivots
<1>3. \A j \in 1..k : h.points[j] = pivots[q + j].price BY DEF Reading
<1>4. h.points \in [1..k -> Nat \ {0}] BY <1>2 DEF Reading
<1>5. h.s \in {1, -1} /\ (h.s = 1 <=> pivots[q + 1].kind = "LOW") BY DEF Reading
<1>6. \A j \in 1..(k - 1) : Alternate(pivots[q + j], pivots[(q + j) + 1])
  BY <1>1
<1>7. \A j \in 1..(k - 1) : (q + j) + 1 = q + (j + 1) /\ j \in 1..k /\ j + 1 \in 1..k
  BY <1>1
<1> DEFINE f == [j \in 1..k |-> pivots[q + j].kind]
<1> HIDE DEF h, q
<1>8. f \in [1..k -> {"LOW", "HIGH"}] BY <1>2
<1>9. \A j \in 1..(k - 1) :
        \/ f[j] = "LOW" /\ f[j + 1] = "HIGH" /\ h.points[j] < h.points[j + 1]
        \/ f[j] = "HIGH" /\ f[j + 1] = "LOW" /\ h.points[j] > h.points[j + 1]
  <2> TAKE j \in 1..(k - 1)
  <2>1. Alternate(pivots[q + j], pivots[q + (j + 1)]) BY <1>6, <1>7
  <2>2. /\ h.points[j] = pivots[q + j].price /\ h.points[j + 1] = pivots[q + (j + 1)].price
        /\ f[j] = pivots[q + j].kind /\ f[j + 1] = pivots[q + (j + 1)].kind
    BY <1>3, <1>7
  <2> HIDE DEF f
  <2> QED BY <2>1, <2>2 DEF Alternate
<1>10. f[1] = "LOW" <=> h.s = 1 BY <1>5
<1> HIDE DEF f
<1>11. h.points \in [1..k -> Nat] BY <1>4
<1>12. /\ \A j \in {1, 3, 5} : j < k =>
            IF f[1] = "LOW" THEN h.points[j] < h.points[j + 1] ELSE h.points[j] > h.points[j + 1]
       /\ \A j \in {2, 4} : j < k =>
            IF f[1] = "LOW" THEN h.points[j] > h.points[j + 1] ELSE h.points[j] < h.points[j + 1]
  BY <1>8, <1>9, <1>11, TurnsAlternate
<1>13. Zigzags(h, k) BY <1>4, <1>5, <1>10, <1>12 DEF Zigzags
<1> QED BY <1>13 DEF h

(* So is every count that is matched. *)
LEMMA MatchesZigzag ==
  ASSUME NEW pivots \in Seq(Pivots),
         \A j \in 1..(Len(pivots) - 1) : Alternate(pivots[j], pivots[j + 1]),
         NEW h \in match_impulses(pivots)
  PROVE  Valid(h) /\ \E k \in 3..6 : Zigzags(h, k)
<1>1. h \in Readings(pivots) /\ Valid(h) BY DEF match_impulses, Counts
<1>2. PICK k \in 3..6, end \in 1..Len(pivots) : k <= end /\ h = Reading(pivots, k, end)
  BY <1>1 DEF Readings
<1>3. end \in k..Len(pivots) BY <1>2
<1> QED BY <1>1, <1>2, <1>3, ReadingZigzags

-----------------------------------------------------------------------------
(***************************************************************************)
(* The bookings.                                                           *)
(***************************************************************************)
(* Every set of naturals has a least element. *)
LEMMA HasLeast ==
  ASSUME NEW S \in SUBSET Nat, S # {}
  PROVE  Min(S) \in S /\ \A y \in S : Min(S) <= y
<1> DEFINE R == OpToRel(<, Nat)
<1>1. IsWellFoundedOn(R, Nat) BY NatLessThanWellFounded
<1>2. \A a, b \in Nat : a < b => <<a, b>> \in R BY DEF OpToRel
<1> HIDE DEF R
<1>3. PICK x \in S : \A y \in S : ~(<<y, x>> \in R) BY <1>1, WFMin, Zenon
<1>4. \A y \in S : ~(y < x) BY <1>2, <1>3, Zenon
<1>5. \E z \in S : \A y \in S : z <= y BY <1>4
<1> QED BY <1>5 DEF Min

(* Min of two numbers. *)
LEMMA SmallerOfTwo ==
  ASSUME NEW a \in Int, NEW b \in Int
  PROVE  Min({a, b}) = IF a <= b THEN a ELSE b
BY DEF Min

(* The extremes of a sequence of numbers are among them: the first length   *)
(* at which they were not would be one more than a length at which they     *)
(* are.                                                                     *)
LEMMA Extremes ==
  ASSUME NEW M \in Nat \ {0}, NEW f \in [1..M -> Int]
  PROVE  /\ \E r \in 1..M : Max({f[m] : m \in 1..M}) = f[r]
         /\ \A r \in 1..M : f[r] <= Max({f[m] : m \in 1..M})
         /\ \E r \in 1..M : Min({f[m] : m \in 1..M}) = f[r]
         /\ \A r \in 1..M : Min({f[m] : m \in 1..M}) <= f[r]
<1> DEFINE Tops(k) == \E r \in 1..k : \A m \in 1..k : f[m] <= f[r]
           Lows(k) == \E r \in 1..k : \A m \in 1..k : f[r] <= f[m]
           Bad == {k \in 1..M : ~(Tops(k) /\ Lows(k))}
<1>1. Bad = {}
  <2> SUFFICES ASSUME Bad # {} PROVE FALSE OBVIOUS
  <2>1. Bad \in SUBSET Nat OBVIOUS
  <2>2. PICK k \in Bad : \A y \in Bad : k <= y BY <2>1, HasLeast
  <2>3. k \in 1..M /\ ~(Tops(k) /\ Lows(k)) BY <2>2
  <2>4. ASSUME k - 1 \in 1..M PROVE Tops(k - 1) /\ Lows(k - 1)
    <3>1. k - 1 \notin Bad
      <4> HIDE DEF Bad
      <4> QED BY <2>2, <2>3
    <3> QED BY <2>4, <3>1
  <2> HIDE DEF Bad
  <2>5. k # 1
    <3>1. Tops(1) /\ Lows(1) OBVIOUS
    <3> QED BY <2>3, <3>1
  <2>6. k - 1 \in 1..M /\ 1..k = 1..(k - 1) \cup {k} BY <2>3, <2>5
  <2>7. Tops(k)
    <3>1. PICK r \in 1..(k - 1) : \A m \in 1..(k - 1) : f[m] <= f[r] BY <2>4, <2>6
    <3>2. \A m \in 1..k : f[m] \in Int BY <2>3
    <3>3. CASE f[k] <= f[r] BY <2>6, <3>1, <3>2, <3>3
    <3>4. CASE ~(f[k] <= f[r])
      <4>1. \A m \in 1..k : f[m] <= f[k] BY <2>6, <3>1, <3>2, <3>4
      <4> QED BY <2>3, <4>1
    <3> QED BY <3>3, <3>4
  <2>8. Lows(k)
    <3>1. PICK r \in 1..(k - 1) : \A m \in 1..(k - 1) : f[r] <= f[m] BY <2>4, <2>6
    <3>2. \A m \in 1..k : f[m] \in Int BY <2>3
    <3>3. CASE f[r] <= f[k] BY <2>6, <3>1, <3>2, <3>3
    <3>4. CASE ~(f[r] <= f[k])
      <4>1. f[k] <= f[r] BY <2>3, <2>6, <3>2, <3>4
      <4>2. \A m \in 1..(k - 1) : f[k] <= f[m] BY <2>3, <2>6, <3>1, <3>2, <4>1
      <4> QED BY <2>3, <2>6, <3>2, <4>2
    <3> QED BY <3>3, <3>4
  <2> QED BY <2>3, <2>7, <2>8
<1>2. Tops(M) /\ Lows(M)
  <2> HIDE DEF Tops, Lows
  <2>1. M \in 1..M /\ M \notin Bad
    <3> HIDE DEF Bad
    <3> QED BY <1>1
  <2> QED BY <2>1
<1> DEFINE S == {f[m] : m \in 1..M}
<1>3. \E x \in S : \A y \in S : x >= y BY <1>2
<1>4. Max(S) \in S /\ \A y \in S : Max(S) >= y BY <1>3 DEF Max
<1>5. \E x \in S : \A y \in S : x <= y BY <1>2
<1>6. Min(S) \in S /\ \A y \in S : Min(S) <= y BY <1>5 DEF Min
<1>7. S \subseteq Int OBVIOUS
<1>8. \A y \in S : y <= Max(S) BY <1>4, <1>7
<1> QED BY <1>4, <1>6, <1>8

(* The r-th of the minutes of bar j, and what comes before it.              *)
Place(M, j, r) == M * (j - 1) + r
BarAt(M, m) == (m - 1) \div M
MinuteAt(M, m) == (m - 1) % M

(* From its place a minute tells its bar, and which of it it is. *)
LEMMA PlaceIs ==
  ASSUME NEW M \in Nat \ {0}, NEW n \in Nat, NEW j \in 1..n, NEW r \in 1..M
  PROVE  /\ Place(M, j, r) \in Nat \ {0}
         /\ BarAt(M, Place(M, j, r)) = j - 1
         /\ MinuteAt(M, Place(M, j, r)) = r - 1
<1> DEFINE x == Place(M, j, r) - 1
           q == x \div M
           z == x % M
           a == j - 1
           b == r - 1
<1>1. a \in Nat /\ b \in 0..(M - 1) OBVIOUS
<1>2. x = M * a + b BY DEF Place
<1>3. M * a \in Nat BY <1>1
<1>4. x \in Nat BY <1>1, <1>2, <1>3
<1>5. q \in Int /\ z \in 0..(M - 1) /\ x = M * q + z
  <2> HIDE DEF x
  <2> QED BY <1>4
<1>6. Place(M, j, r) = x + 1 /\ Place(M, j, r) \in Int BY <1>1, <1>2, <1>3 DEF Place
<1> HIDE DEF x, q, z, a, b
<1>7. q = a
  <2>1. M * (q - a) = M * q - M * a /\ M * (a - q) = M * a - M * q BY <1>1, <1>5
  <2>2. M * q \in Int BY <1>5
  <2>3. CASE q > a
    <3>1. M * (q - a) >= M BY <1>1, <1>5, <2>3
    <3> QED BY <1>1, <1>2, <1>3, <1>5, <2>1, <2>2, <3>1
  <2>4. CASE a > q
    <3>1. M * (a - q) >= M BY <1>1, <1>5, <2>4
    <3> QED BY <1>1, <1>2, <1>3, <1>5, <2>1, <2>2, <3>1
  <2> QED BY <1>1, <1>5, <2>3, <2>4
<1>8. z = b BY <1>1, <1>2, <1>3, <1>5, <1>7
<1> QED BY <1>4, <1>6, <1>7, <1>8 DEF q, z, x, a, b, BarAt, MinuteAt

(* Bars follow one another, and so do their minutes.                        *)
LEMMA PlacesInOrder ==
  ASSUME NEW M \in Nat \ {0}, NEW n \in Nat
  PROVE  /\ M * n \in Nat
         /\ \A j \in 1..n, r \in 1..M : Place(M, j, r) \in 1..(M * n)
         /\ \A m \in 1..(M * n) : \E j \in 1..n, r \in 1..M : m = Place(M, j, r)
         /\ \A j, k \in 1..n, r, s \in 1..M : j < k => Place(M, j, r) < Place(M, k, s)
<1>1. M * n \in Nat OBVIOUS
<1>2. ASSUME NEW j \in 1..n, NEW r \in 1..M PROVE Place(M, j, r) \in 1..(M * n)
  <2>1. M * (n - j) >= 0 /\ M * (n - j) = M * n - M * j /\ M * (j - 1) = M * j - M OBVIOUS
  <2>2. M * (j - 1) >= 0 /\ M * j \in Int OBVIOUS
  <2> QED BY <1>1, <2>1, <2>2 DEF Place
<1>3. ASSUME NEW m \in 1..(M * n) PROVE \E j \in 1..n, r \in 1..M : m = Place(M, j, r)
  <2> DEFINE q == (m - 1) \div M
             z == (m - 1) % M
  <2>1. q \in Int /\ z \in 0..(M - 1) /\ m - 1 = M * q + z BY <1>1
  <2>2. m \in Int /\ m >= 1 /\ m <= M * n BY <1>1
  <2> HIDE DEF q, z
  <2>3. q >= 0
    <3> SUFFICES ASSUME q <= -1 PROVE FALSE BY <2>1
    <3>1. M * (-1 - q) >= 0 /\ M * (-1 - q) = -M - M * q /\ M * q \in Int BY <2>1
    <3> QED BY <2>1, <2>2, <3>1
  <2>4. q < n
    <3> SUFFICES ASSUME q >= n PROVE FALSE BY <2>1
    <3>1. M * (q - n) >= 0 /\ M * (q - n) = M * q - M * n /\ M * q \in Int BY <2>1
    <3> QED BY <1>1, <2>1, <2>2, <3>1
  <2>5. q + 1 \in 1..n /\ z + 1 \in 1..M BY <2>1, <2>3, <2>4
  <2>6. m = Place(M, q + 1, z + 1)
    <3>1. (q + 1) - 1 = q BY <2>1
    <3>2. M * q \in Int BY <2>1
    <3> QED BY <2>1, <2>2, <3>1, <3>2 DEF Place
  <2> QED BY <2>5, <2>6
<1>4. ASSUME NEW j \in 1..n, NEW k \in 1..n, NEW r \in 1..M, NEW s \in 1..M, j < k
      PROVE  Place(M, j, r) < Place(M, k, s)
  <2>1. M * ((k - 1) - j) >= 0 /\ M * ((k - 1) - j) = M * (k - 1) - M * j BY <1>4
  <2>2. M * (j - 1) = M * j - M /\ M * j \in Int /\ M * (k - 1) \in Int OBVIOUS
  <2> QED BY <2>1, <2>2 DEF Place
<1> QED BY <1>1, <1>2, <1>3, <1>4

Prices == [high : Int, low : Int, close : Int]
Trades == [entry : Int, stop : Int, target : Int, s : {1, -1}]

(* The bars looked at, what is booked when no bar is told by smaller ones,  *)
(* and what a bar that is touched is worth.                                 *)
Span(l, H) == IF l <= H THEN l ELSE H
Booked(t, path, l, H) == Resolve(t, path, [j \in 1..l |-> << >>], H).gain
Worth(t, b) ==
  IF Touched(t, b) = "tp" THEN Distance(t.target, t.entry) ELSE -Distance(t.entry, t.stop)

(* The resolution, read as a span of bars and the first that touches. *)
LEMMA ResolveIs ==
  ASSUME NEW l \in Nat, NEW path \in [1..l -> Prices], NEW H \in Nat, NEW t
  PROVE  /\ Touches(t, path, Span(l, H)) = {} =>
              Booked(t, path, l, H) =
                IF Span(l, H) = 0 THEN 0 ELSE t.s * (path[Span(l, H)].close - t.entry)
         /\ Touches(t, path, Span(l, H)) # {} =>
              \E i \in Touches(t, path, Span(l, H)) :
                /\ \A k \in Touches(t, path, Span(l, H)) : i <= k
                /\ Booked(t, path, l, H) = Worth(t, path[i])
<1> DEFINE n == Span(l, H)
           hits == Touches(t, path, n)
           inside == [j \in 1..l |-> << >>]
           i == Min(hits)
           first == IF Touched(t, path[i]) # "both" THEN Touched(t, path[i])
                    ELSE BreakTie(t, inside[i])
           barrier == Undecided(first)
           booked == IF barrier = "tp" THEN Distance(t.target, t.entry)
                     ELSE -Distance(t.entry, t.stop)
<1>1. Len(path) = l /\ Min({Len(path), H}) = n /\ n \in 0..l
  <2>1. Len(path) = l OBVIOUS
  <2>2. Min({l, H}) = n BY SmallerOfTwo DEF Span
  <2>3. n \in 0..l BY DEF Span
  <2> QED BY <2>1, <2>2, <2>3
<1>2. Resolve(t, path, inside, H) =
        IF hits = {}
        THEN [barrier |-> "vertical", bars |-> n, ambiguous |-> FALSE,
              gain |-> IF n = 0 THEN 0 ELSE t.s * (path[n].close - t.entry)]
        ELSE [barrier |-> barrier, bars |-> i, ambiguous |-> first = "both", gain |-> booked]
  BY <1>1 DEF Resolve
<1>3. hits \subseteq 1..n BY DEF Touches
<1>4. ASSUME hits # {}
      PROVE  i \in hits /\ (\A k \in hits : i <= k) /\ i \in 1..l
  <2>1. hits \in SUBSET Nat BY <1>1, <1>3
  <2> HIDE DEF hits
  <2>2. i \in hits /\ \A k \in hits : i <= k BY <1>4, <2>1, HasLeast
  <2>3. hits \subseteq 1..l
    <3> HIDE DEF n
    <3> QED BY <1>1, <1>3
  <2> HIDE DEF i
  <2> QED BY <2>2, <2>3
<1>5. ASSUME hits # {} PROVE barrier = IF Touched(t, path[i]) = "tp" THEN "tp" ELSE "sl"
  <2>1. inside[i] = << >> BY <1>4, <1>5
  <2>2. BreakTie(t, << >>) = "both"
    <3>1. Len(<< >>) = 0 /\ Touches(t, << >>, 0) = {} BY DEF Touches
    <3> QED BY <3>1 DEF BreakTie
  <2>3. Touched(t, path[i]) \in {"both", "tp", "sl"} BY DEF Touched
  <2> HIDE DEF inside, i
  <2> QED BY <2>1, <2>2, <2>3 DEF Undecided
<1> HIDE DEF hits, inside, i, first, barrier
<1>6. hits = {} => Resolve(t, path, inside, H).gain
                     = IF n = 0 THEN 0 ELSE t.s * (path[n].close - t.entry)
  BY <1>2
<1>7. hits # {} => Resolve(t, path, inside, H).gain = booked BY <1>2
<1>8. hits # {} => booked = Worth(t, path[i]) BY <1>5 DEF Worth
<1>9. Booked(t, path, l, H) = Resolve(t, path, inside, H).gain BY DEF Booked, inside
<1> QED BY <1>4, <1>6, <1>7, <1>8, <1>9 DEF hits

(* A bar made of minutes touches what one of its minutes touches.           *)
Made(bar, minute, M) ==
  /\ \A r \in 1..M : minute[r].high <= bar.high /\ bar.low <= minute[r].low
  /\ \E r \in 1..M : minute[r].high = bar.high
  /\ \E r \in 1..M : minute[r].low = bar.low
  /\ bar.close = minute[M].close

(* The bar reaches a price if and only if one of the minutes does. *)
LEMMA MadeTouches ==
  ASSUME NEW M \in Nat \ {0}, NEW bar \in Prices, NEW minute \in [1..M -> Prices],
         Made(bar, minute, M), NEW t \in Trades
  PROVE  /\ HitsTarget(t, bar) <=> \E r \in 1..M : HitsTarget(t, minute[r])
         /\ HitsStop(t, bar) <=> \E r \in 1..M : HitsStop(t, minute[r])
<1>1. bar.high \in Int /\ bar.low \in Int /\ t.target \in Int /\ t.stop \in Int
  BY DEF Prices, Trades
<1>2. \A r \in 1..M : minute[r].high \in Int /\ minute[r].low \in Int BY DEF Prices
<1>3. ASSUME NEW c \in Int
      PROVE  /\ bar.high >= c <=> \E r \in 1..M : minute[r].high >= c
             /\ bar.low <= c <=> \E r \in 1..M : minute[r].low <= c
  BY <1>1, <1>2 DEF Made
<1> QED BY <1>1, <1>3 DEF HitsTarget, HitsStop

(* What is booked on the bars is at most what their minutes would give.     *)
LEMMA CoarseNeverFlatters ==
  ASSUME NEW M \in Nat \ {0}, NEW l \in Nat, NEW H \in Nat, NEW t \in Trades,
         NEW path \in [1..l -> Prices], NEW fine \in [1..(M * l) -> Prices],
         \A j \in 1..l : Made(path[j], [r \in 1..M |-> fine[Place(M, j, r)]], M)
  PROVE  Booked(t, path, l, H) <= Booked(t, fine, M * l, H * M)
<1> DEFINE n == Span(l, H)
           hits == Touches(t, path, n)
           finer == Touches(t, fine, M * n)
           booked == Booked(t, path, l, H)
           minutely == Booked(t, fine, M * l, H * M)
<1>1. n \in 0..l /\ n \in Nat /\ M * l \in Nat /\ H * M \in Nat /\ M * n \in Nat BY DEF Span
<1>2. M * n = Span(M * l, H * M) /\ (n = 0 <=> M * n = 0)
  <2>1. M * (l - H) = M * l - M * H /\ H * M = M * H /\ M * l \in Int /\ M * H \in Int OBVIOUS
  <2>2. l <= H <=> M * (l - H) <= 0 OBVIOUS
  <2>3. n # 0 => M * n >= M BY <1>1
  <2>4. l <= H <=> M * l <= H * M BY <2>1, <2>2
  <2>5. M * n = Span(M * l, H * M) BY <2>1, <2>4 DEF Span
  <2>6. n = 0 => M * n = 0 OBVIOUS
  <2> QED BY <1>1, <2>3, <2>5, <2>6
<1>3. /\ hits = {} => booked = IF n = 0 THEN 0 ELSE t.s * (path[n].close - t.entry)
      /\ hits # {} =>
           \E i \in hits : (\A k \in hits : i <= k) /\ booked = Worth(t, path[i])
  BY ResolveIs
<1>4. /\ finer = {} => minutely = IF M * n = 0 THEN 0 ELSE t.s * (fine[M * n].close - t.entry)
      /\ finer # {} =>
           \E i \in finer : (\A k \in finer : i <= k) /\ minutely = Worth(t, fine[i])
  <2> DEFINE l2 == M * l
             H2 == H * M
             n2 == Span(l2, H2)
             hits2 == Touches(t, fine, n2)
  <2>1. l2 \in Nat /\ H2 \in Nat /\ fine \in [1..l2 -> Prices] BY <1>1
  <2>2. minutely = Booked(t, fine, l2, H2) /\ n2 = M * n BY <1>2
  <2> HIDE DEF l2, H2
  <2>3. /\ hits2 = {} =>
             Booked(t, fine, l2, H2) = IF n2 = 0 THEN 0 ELSE t.s * (fine[n2].close - t.entry)
        /\ hits2 # {} =>
             \E i \in hits2 : (\A k \in hits2 : i <= k) /\ Booked(t, fine, l2, H2) = Worth(t, fine[i])
    BY <2>1, ResolveIs
  <2> HIDE DEF n, n2, minutely
  <2> QED BY <2>2, <2>3
<1>5. /\ \A j \in 1..l, r \in 1..M : Place(M, j, r) \in 1..(M * l)
      /\ \A j \in 1..n, r \in 1..M : Place(M, j, r) \in 1..(M * n)
      /\ \A m \in 1..(M * n) : \E j \in 1..n, r \in 1..M : m = Place(M, j, r)
      /\ \A j, k \in 1..n, r, s \in 1..M : j < k => Place(M, j, r) < Place(M, k, s)
  BY <1>1, PlacesInOrder
<1>6. ASSUME NEW j \in 1..n
      PROVE  /\ HitsTarget(t, path[j]) <=> \E r \in 1..M : HitsTarget(t, fine[Place(M, j, r)])
             /\ HitsStop(t, path[j]) <=> \E r \in 1..M : HitsStop(t, fine[Place(M, j, r)])
             /\ path[j].close = fine[Place(M, j, M)].close
  <2> DEFINE minute == [r \in 1..M |-> fine[Place(M, j, r)]]
             bar == path[j]
  <2>1. j \in 1..l /\ M \in 1..M BY <1>1
  <2>2. minute \in [1..M -> Prices] /\ bar \in Prices BY <1>5, <2>1
  <2>3. Made(bar, minute, M) BY <2>1
  <2>4. \A r \in 1..M : minute[r] = fine[Place(M, j, r)] OBVIOUS
  <2> HIDE DEF minute, bar
  <2>5. /\ HitsTarget(t, bar) <=> \E r \in 1..M : HitsTarget(t, minute[r])
        /\ HitsStop(t, bar) <=> \E r \in 1..M : HitsStop(t, minute[r])
    BY <2>2, <2>3, MadeTouches
  <2>6. bar.close = minute[M].close BY <2>3 DEF Made
  <2> QED BY <2>1, <2>4, <2>5, <2>6 DEF bar
<1>7. \A j \in 1..n : j \in hits <=> \E r \in 1..M : Place(M, j, r) \in finer
  BY <1>5, <1>6 DEF Touches
<1>8. hits \subseteq 1..n /\ finer \subseteq 1..(M * n) BY DEF Touches
<1>9. Distance(t.target, t.entry) \in Nat /\ Distance(t.entry, t.stop) \in Nat
  BY DEF Trades, Distance
<1>10. Place(M, n, M) = M * n
  <2>1. M * (n - 1) = M * n - M /\ M * n \in Int BY <1>1
  <2> QED BY <2>1 DEF Place
<1> SUFFICES booked <= minutely OBVIOUS
<1>13. \A f \in finer : f \in Int /\ (HitsTarget(t, fine[f]) \/ HitsStop(t, fine[f]))
  BY <1>1 DEF Touches
<1> HIDE DEF hits, finer, booked, minutely, n
<1>11. CASE hits = {}
  <2>1. finer = {} BY <1>5, <1>7, <1>8, <1>11
  <2>2. CASE n = 0 BY <1>2, <1>3, <1>4, <1>11, <2>1, <2>2
  <2>3. CASE n # 0
    <3>1. n \in 1..n BY <1>1, <2>3
    <3>2. path[n].close = fine[M * n].close BY <1>6, <1>10, <3>1
    <3>3. path[n] \in Prices BY <1>1, <3>1
    <3>4. t.s * (path[n].close - t.entry) \in Int BY <3>3 DEF Prices, Trades
    <3> QED BY <1>2, <1>3, <1>4, <1>11, <2>1, <2>3, <3>2, <3>4
  <2> QED BY <2>2, <2>3
<1>12. CASE hits # {}
  <2>1. PICK i \in hits : (\A k \in hits : i <= k) /\ booked = Worth(t, path[i])
    BY <1>3, <1>12
  <2>2. finer # {} BY <1>7, <1>8, <1>12
  <2>3. PICK f \in finer : (\A k \in finer : f <= k) /\ minutely = Worth(t, fine[f])
    BY <1>4, <2>2
  <2>4. CASE Touched(t, path[i]) = "tp"
    <3>1. ~HitsStop(t, path[i]) BY <2>4 DEF Touched
    <3>2. PICK j \in 1..n, r \in 1..M : f = Place(M, j, r) BY <1>5, <1>8, <2>3
    <3>3. j \in hits BY <1>7, <2>3, <3>2
    <3>4. i = j
      <4>1. i \in 1..n /\ i <= j /\ i \in Int /\ j \in Int BY <1>1, <1>8, <2>1, <3>3
      <4>2. PICK q \in 1..M : Place(M, i, q) \in finer BY <1>7, <2>1, <4>1
      <4>3. ~(i < j)
        <5> SUFFICES ASSUME i < j PROVE FALSE OBVIOUS
        <5>1. Place(M, i, q) < f BY <1>5, <3>2, <4>1, <4>2
        <5>2. f <= Place(M, i, q) BY <2>3, <4>2
        <5>3. f \in Int /\ Place(M, i, q) \in Int BY <1>13, <2>3, <4>2
        <5> QED BY <5>1, <5>2, <5>3
      <4> QED BY <4>1, <4>3
    <3>5. ~HitsStop(t, fine[f]) BY <1>6, <3>1, <3>2, <3>4
    <3>6. HitsTarget(t, fine[f]) BY <1>13, <2>3, <3>5
    <3>7. Touched(t, fine[f]) = "tp" BY <3>5, <3>6 DEF Touched
    <3> QED BY <1>9, <2>1, <2>3, <2>4, <3>7 DEF Worth
  <2>5. CASE Touched(t, path[i]) # "tp"
    BY <1>9, <2>1, <2>3, <2>5 DEF Worth
  <2> QED BY <2>4, <2>5
<1> QED BY <1>11, <1>12

(* A bar of the replay is made of its minutes.                              *)
LEMMA BarIsMade ==
  ASSUME BacktestAssumption, NEW path \in Minutes
  PROVE  /\ Scaled(Bar(path)) \in Prices
         /\ [r \in 1..MinutesPerBar |-> Scaled(path[r])] \in [1..MinutesPerBar -> Prices]
         /\ Made(Scaled(Bar(path)), [r \in 1..MinutesPerBar |-> Scaled(path[r])], MinutesPerBar)
<1> DEFINE M == MinutesPerBar
           minute == [r \in 1..M |-> Scaled(path[r])]
           high == [r \in 1..M |-> path[r].high]
           low == [r \in 1..M |-> path[r].low]
           top == Max({high[r] : r \in 1..M})
           bottom == Min({low[r] : r \in 1..M})
<1>1. path \in [1..M -> Candles] /\ M \in Nat \ {0} BY DEF BacktestAssumption
<1>2. Len(path) = M /\ DOMAIN path = 1..M /\ M \in 1..M BY <1>1
<1>3. \A r \in 1..M : path[r].high \in Nat /\ path[r].low \in Nat /\ path[r].close \in Nat
  BY <1>1 DEF Candles
<1>4. high \in [1..M -> Int] /\ low \in [1..M -> Int] BY <1>3
<1>5. /\ \E r \in 1..M : top = high[r]
      /\ \A r \in 1..M : high[r] <= top
      /\ \E r \in 1..M : bottom = low[r]
      /\ \A r \in 1..M : bottom <= low[r]
  <2> HIDE DEF high, low, M
  <2> QED BY <1>1, <1>4, Extremes
<1>6. Bar(path) = [high |-> top, low |-> bottom, close |-> path[M].close]
  <2>1. {path[m].high : m \in DOMAIN path} = {high[r] : r \in 1..M} BY <1>2
  <2>2. {path[m].low : m \in DOMAIN path} = {low[r] : r \in 1..M} BY <1>2
  <2> QED BY <1>2, <2>1, <2>2 DEF Bar
<1>7. top \in Nat /\ bottom \in Nat BY <1>3, <1>5
<1> HIDE DEF top, bottom
<1>8. \A a, b, c : Scaled([high |-> a, low |-> b, close |-> c])
                     = [high |-> 10000 * a, low |-> 10000 * b, close |-> 10000 * c]
  BY DEF Scaled, Fine
<1>9. LET bar == Scaled(Bar(path))
      IN  bar = [high |-> 10000 * top, low |-> 10000 * bottom, close |-> 10000 * path[M].close]
  BY <1>6, <1>8
<1>10. /\ \E r \in 1..M : top = path[r].high
       /\ \A r \in 1..M : path[r].high <= top
       /\ \E r \in 1..M : bottom = path[r].low
       /\ \A r \in 1..M : bottom <= path[r].low
  BY <1>5
<1>11. \A r \in 1..M : /\ Scaled(path[r]) \in Prices
                       /\ Scaled(path[r]).high = 10000 * path[r].high
                       /\ Scaled(path[r]).low = 10000 * path[r].low
                       /\ Scaled(path[r]).close = 10000 * path[r].close
  BY <1>3 DEF Scaled, Fine, Prices
<1>12. Scaled(Bar(path)) \in Prices BY <1>2, <1>3, <1>7, <1>9 DEF Prices
<1>13. Made(Scaled(Bar(path)), minute, M)
  <2> DEFINE bar == Scaled(Bar(path))
  <2>1. /\ bar.high = 10000 * top /\ bar.low = 10000 * bottom
        /\ bar.close = 10000 * path[M].close
    BY <1>9
  <2>2. \A r \in 1..M : /\ minute[r].high = 10000 * path[r].high
                        /\ minute[r].low = 10000 * path[r].low
                        /\ minute[r].close = 10000 * path[r].close
    BY <1>11
  <2> HIDE DEF bar, minute, M
  <2>3. ASSUME NEW r \in 1..M PROVE minute[r].high <= bar.high /\ bar.low <= minute[r].low
    <3>1. path[r].high <= top /\ bottom <= path[r].low BY <1>10
    <3>2. path[r].high \in Nat /\ path[r].low \in Nat BY <1>3
    <3>3. 10000 * path[r].high <= 10000 * top /\ 10000 * bottom <= 10000 * path[r].low
      <4>1. \A a, b \in Nat : a <= b => 10000 * a <= 10000 * b OBVIOUS
      <4>2. path[r].high \in Nat /\ top \in Nat /\ path[r].high <= top BY <1>7, <3>1, <3>2
      <4>3. bottom \in Nat /\ path[r].low \in Nat /\ bottom <= path[r].low BY <1>7, <3>1, <3>2
      <4>4. 10000 * path[r].high <= 10000 * top BY <4>1, <4>2
      <4>5. 10000 * bottom <= 10000 * path[r].low BY <4>1, <4>3
      <4> QED BY <4>4, <4>5
    <3>4. minute[r].high = 10000 * path[r].high /\ minute[r].low = 10000 * path[r].low BY <2>2
    <3> QED BY <2>1, <3>3, <3>4
  <2>4. \E r \in 1..M : minute[r].high = bar.high BY <1>10, <2>1, <2>2
  <2>5. \E r \in 1..M : minute[r].low = bar.low BY <1>10, <2>1, <2>2
  <2>6. bar.close = minute[M].close BY <1>2, <2>1, <2>2
  <2> QED BY <2>3, <2>4, <2>5, <2>6 DEF Made, bar
<1> QED BY <1>11, <1>12, <1>13

(* What is booked for a trade entered on bar i.                             *)
LEMMA OutcomeNeverFlatters ==
  ASSUME BacktestAssumption, bars \in Seq(Minutes), NEW i \in 1..Len(bars), NEW t \in Trades
  PROVE  Outcome(t, i).gain
           <= Resolve(t, MinutesAfter(i), [m \in 1..Len(MinutesAfter(i)) |-> << >>],
                      MaxBarsHold * MinutesPerBar).gain
<1> DEFINE M == MinutesPerBar
           l == Len(bars) - i
           path == After(i)
           fine == MinutesAfter(i)
<1>1. M \in Nat \ {0} /\ MaxBarsHold \in Nat /\ Len(bars) \in Nat /\ l \in Nat
  BY DEF BacktestAssumption
<1>2. M * l \in Nat BY <1>1
<1>3. Len(fine) = M * l BY <1>2 DEF MinutesAfter
<1>4. \A j \in 1..l : i + j \in 1..Len(bars) /\ bars[i + j] \in Minutes BY <1>1
<1>5. path = [j \in 1..l |-> Scaled(Bar(bars[i + j]))] BY DEF After
<1>6. \A j \in 1..l : path[j] \in Prices BY <1>4, <1>5, BarIsMade
<1>7. path \in [1..l -> Prices] BY <1>5, <1>6
<1>8. /\ \A j \in 1..l, r \in 1..M : Place(M, j, r) \in 1..(M * l)
      /\ \A m \in 1..(M * l) : \E j \in 1..l, r \in 1..M : m = Place(M, j, r)
  BY <1>1, PlacesInOrder
<1>9. ASSUME NEW j \in 1..l, NEW r \in 1..M
      PROVE  fine[Place(M, j, r)] = Scaled(bars[i + j][r])
  <2> DEFINE m == Place(M, j, r)
  <2>1. m \in 1..(M * l) BY <1>8
  <2>2. BarAt(M, m) = j - 1 /\ MinuteAt(M, m) = r - 1
    <3> HIDE DEF M, l
    <3> QED BY <1>1, PlaceIs
  <2> HIDE DEF m
  <2>3. fine[m] = Scaled(bars[i + 1 + BarAt(M, m)][1 + MinuteAt(M, m)])
    BY <2>1 DEF MinutesAfter, BarAt, MinuteAt
  <2>4. i + 1 + (j - 1) = i + j /\ 1 + (r - 1) = r BY <1>1
  <2> QED BY <2>2, <2>3, <2>4 DEF m
<1>10. \A j \in 1..l, r \in 1..M : fine[Place(M, j, r)] \in Prices
  <2> TAKE j \in 1..l, r \in 1..M
  <2> DEFINE minute == [q \in 1..M |-> Scaled(bars[i + j][q])]
  <2>1. minute \in [1..M -> Prices] BY <1>4, BarIsMade
  <2> QED BY <1>9, <2>1
<1>11. fine \in [1..(M * l) -> Prices]
  <2>1. \A m \in 1..(M * l) : fine[m] \in Prices BY <1>8, <1>10
  <2>2. fine = [m \in 1..(M * l) |-> fine[m]] BY DEF MinutesAfter
  <2> HIDE DEF fine
  <2> QED BY <2>1, <2>2
<1>12. \A j \in 1..l : Made(path[j], [r \in 1..M |-> fine[Place(M, j, r)]], M)
  <2> TAKE j \in 1..l
  <2>1. [r \in 1..M |-> fine[Place(M, j, r)]] = [r \in 1..M |-> Scaled(bars[i + j][r])]
    BY <1>9
  <2>2. Made(Scaled(Bar(bars[i + j])), [r \in 1..M |-> Scaled(bars[i + j][r])], M)
    BY <1>4, BarIsMade
  <2> QED BY <1>5, <2>1, <2>2
<1>13. Outcome(t, i).gain = Booked(t, path, l, MaxBarsHold) BY DEF Outcome, Booked
<1> HIDE DEF path, fine, l, M
<1>14. Booked(t, path, l, MaxBarsHold) <= Booked(t, fine, M * l, MaxBarsHold * M)
  BY <1>1, <1>7, <1>11, <1>12, CoarseNeverFlatters
<1> QED BY <1>3, <1>13, <1>14 DEF Booked, fine, M

(* A plan is in numbers, and so is the trade that is made of it.            *)
LEMMA PlanIsTrade ==
  ASSUME NEW h, NEW k \in 3..6, Zigzags(h, k),
         NEW price \in Nat \ {0}, NEW a \in Nat, Viable(h, price, a)
  PROVE  [entry |-> Fine(price), stop |-> Stop(h, price, a), target |-> Target(h), s |-> h.s]
           \in Trades
<1>1. Len(h.points) = k /\ \A j \in 1..k : h.points[j] \in Nat BY DEF Zigzags
<1>2. k \in {3, 5} BY <1>1 DEF Viable, Entered, Archetype
<1>3. h.s \in {1, -1} /\ Buffer(price, a) \in Nat BY BufferPositive DEF Zigzags
<1>4. Invalidation(h) \in Int /\ Target(h) \in Int
  <2> DEFINE p1 == h.points[1]
             p2 == h.points[2]
             p3 == h.points[3]
             p4 == h.points[4]
             p5 == h.points[5]
  <2>1. CASE k = 3
    <3>1. p1 \in Nat /\ p2 \in Nat /\ p3 \in Nat BY <1>1, <2>1
    <3>2. Invalidation(h) = p1 /\ Target(h) = 10000 * p3 + 16180 * (p2 - p1)
      BY <1>1, <2>1 DEF Invalidation, Target, Fine, Archetype
    <3> HIDE DEF p1, p2, p3
    <3> QED BY <3>1, <3>2
  <2>2. CASE k = 5
    <3>1. p1 \in Nat /\ p2 \in Nat /\ p4 \in Nat /\ p5 \in Nat BY <1>1, <2>2
    <3>2. Invalidation(h) = p2 /\ Target(h) = 10000 * p5 + 6180 * (p4 - p1)
      BY <1>1, <2>2 DEF Invalidation, Target, Fine, Archetype
    <3> HIDE DEF p1, p2, p4, p5
    <3> QED BY <3>1, <3>2
  <2> QED BY <1>2, <2>1, <2>2
<1>5. Stop(h, price, a) \in Int BY <1>3, <1>4 DEF Stop, Fine
<1>6. Fine(price) \in Int BY DEF Fine
<1> QED BY <1>3, <1>4, <1>5, <1>6 DEF Trades

-----------------------------------------------------------------------------
(***************************************************************************)
(* The signals.                                                            *)
(***************************************************************************)
LEMMA ClosePrice ==
  ASSUME BacktestAssumption, NEW path \in Minutes
  PROVE  Bar(path).close \in Nat \ {0}
<1>1. path \in [1..MinutesPerBar -> Candles] /\ MinutesPerBar \in Nat \ {0}
  BY DEF BacktestAssumption
<1>2. Len(path) = MinutesPerBar BY <1>1
<1>3. path[Len(path)] \in Candles BY <1>1, <1>2
<1> QED BY <1>3 DEF Bar, Candles

(* The pivots known so far alternate too. *)
LEMMA PrefixAlternates ==
  ASSUME NEW x \in Seq(Pivots), \A j \in 1..(Len(x) - 1) : Alternate(x[j], x[j + 1]),
         NEW n \in 0..Len(x)
  PROVE  /\ SubSeq(x, 1, n) \in Seq(Pivots)
         /\ \A j \in 1..(Len(SubSeq(x, 1, n)) - 1) :
              Alternate(SubSeq(x, 1, n)[j], SubSeq(x, 1, n)[j + 1])
<1>1. Len(SubSeq(x, 1, n)) = n BY SubSeqProperties
<1>2. \A j \in 1..n : SubSeq(x, 1, n)[j] = x[j] BY SubSeqProperties
<1>3. SubSeq(x, 1, n) \in Seq(Pivots) BY SubSeqProperties
<1>4. ASSUME NEW j \in 1..(n - 1)
      PROVE  Alternate(SubSeq(x, 1, n)[j], SubSeq(x, 1, n)[j + 1])
  <2>1. j \in 1..n /\ j + 1 \in 1..n /\ j \in 1..(Len(x) - 1) OBVIOUS
  <2> QED BY <1>2, <2>1
<1> QED BY <1>1, <1>3, <1>4

(* Whatever is entered stands up, and is a trade. *)
LEMMA EntriesStandUp ==
  ASSUME BacktestAssumption, NEW x \in Scripts, NEW n \in 0..Len(x),
         NEW price \in Nat \ {0}, NEW a \in Nat,
         NEW h \in Entries(SubSeq(x, 1, n), price, a)
  PROVE  /\ StandsUp(h, price, a)
         /\ [entry |-> Fine(price), stop |-> Stop(h, price, a), target |-> Target(h), s |-> h.s]
              \in Trades
<1>1. x \in Seq(Pivots) /\ \A j \in 1..(Len(x) - 1) : Alternate(x[j], x[j + 1])
  BY DEF BacktestAssumption
<1> DEFINE pivots == SubSeq(x, 1, n)
<1>2. /\ pivots \in Seq(Pivots)
      /\ \A j \in 1..(Len(pivots) - 1) : Alternate(pivots[j], pivots[j + 1])
  BY <1>1, PrefixAlternates
<1>3. h \in match_impulses(pivots) /\ Viable(h, price, a) /\ InZone(h, price) BY DEF Entries
<1> HIDE DEF pivots
<1>4. Valid(h) /\ \E k \in 3..6 : Zigzags(h, k) BY <1>2, <1>3, MatchesZigzag
<1> QED BY <1>3, <1>4, PlanStandsUp, PlanIsTrade

-----------------------------------------------------------------------------
(***************************************************************************)
(* Every step.                                                             *)
(***************************************************************************)
BacktestInv ==
  /\ script \in Scripts /\ atr \in Nat
  /\ known \in 0..Len(script)
  /\ bars \in Seq(Minutes)
  /\ \A x \in signals : x.at \in 1..Len(bars) /\ TradeOf(x) \in Trades
  /\ SignalsStandUp
  /\ BooksNeverFlatter

(* A bar closes, and perhaps there is a signal. *)
LEMMA BarClosesKeeps ==
  ASSUME BacktestAssumption, BacktestInv, BarCloses
  PROVE  BacktestInv'
<1>1. PICK path \in Minutes : bars' = Append(bars, path)
  <2>1. Quiet \subseteq Minutes BY DEF BacktestAssumption
  <2> QED BY <2>1 DEF BarCloses
<1>2. bars \in Seq(Minutes) /\ known \in 0..Len(script) /\ script \in Scripts /\ atr \in Nat
  BY DEF BacktestInv
<1>3. script \in Seq(Pivots) BY <1>2 DEF BacktestAssumption
<1>4. script' = script /\ atr' = atr BY DEF BarCloses
<1>5. known' \in 0..Len(script) BY <1>2, <1>3 DEF BarCloses
<1>6. bars' \in Seq(Minutes) /\ bars'[Len(bars')] = path BY <1>1, <1>2
<1> DEFINE at == Len(bars')
           price == Bar(bars'[at]).close
           entries == Entries(SubSeq(script, 1, known'), price, atr)
           taken == IF at < AtrPeriod THEN {} ELSE Taken(entries, at)
<1>7. price \in Nat \ {0} BY <1>6, ClosePrice
<1>8. signals' = signals \cup {[at |-> at, h |-> h, price |-> price] : h \in taken}
  BY DEF BarCloses
<1>9. taken \subseteq entries BY DEF Taken
<1>10. \A h \in entries : /\ StandsUp(h, price, atr)
                          /\ [entry |-> Fine(price), stop |-> Stop(h, price, atr),
                              target |-> Target(h), s |-> h.s] \in Trades
  BY <1>2, <1>5, <1>7, EntriesStandUp
<1>11. \A y \in signals : StandsUp(y.h, y.price, atr)
  BY DEF BacktestInv, SignalsStandUp, StandsUp
<1>12. at \in 1..Len(bars') /\ Len(bars) \in Nat /\ Len(bars') = Len(bars) + 1
  BY <1>1, <1>2
<1> HIDE DEF at, price, entries, taken
<1>13. \A y \in signals' : StandsUp(y.h, y.price, atr)
  <2>1. \A h \in taken : StandsUp(h, price, atr) BY <1>9, <1>10
  <2> QED BY <1>8, <1>11, <2>1
<1>14. SignalsStandUp' BY <1>4, <1>13 DEF SignalsStandUp, StandsUp, Stop, Buffer
<1>15. \A y \in signals' : y.at \in 1..Len(bars') /\ TradeOf(y)' \in Trades
  <2>1. \A y : TradeOf(y)' = TradeOf(y) BY <1>4 DEF TradeOf, Stop, Buffer
  <2>2. \A y \in signals : y.at \in 1..Len(bars') /\ TradeOf(y) \in Trades
    BY <1>12 DEF BacktestInv
  <2>3. ASSUME NEW h \in taken
        PROVE  TradeOf([at |-> at, h |-> h, price |-> price]) \in Trades
    BY <1>9, <1>10 DEF TradeOf
  <2> QED BY <1>8, <1>12, <2>1, <2>2, <2>3
<1>16. BooksNeverFlatter' BY DEF BarCloses, NoResults, BooksNeverFlatter
<1> QED BY <1>2, <1>4, <1>5, <1>6, <1>14, <1>15, <1>16 DEF BacktestInv

(* At the end every signal is booked, and its twin.                         *)
LEMMA EndsKeeps ==
  ASSUME BacktestAssumption, BacktestInv, Ends
  PROVE  BacktestInv'
<1>1. UNCHANGED <<script, atr, known, bars, last, signals>> BY DEF Ends
<1>2. PICK delay \in [Resolved -> 1..TwinReach] :
        results' = [x \in Resolved |-> Resolution(x, delay[x])]
  BY DEF Ends
<1>3. bars \in Seq(Minutes) /\ \A x \in signals : x.at \in 1..Len(bars) /\ TradeOf(x) \in Trades
  BY DEF BacktestInv
<1>4. ASSUME NEW x \in Resolved
      PROVE  LET minute(t, i) == Resolve(t, MinutesAfter(i),
                                         [m \in 1..Len(MinutesAfter(i)) |-> << >>],
                                         MaxBarsHold * MinutesPerBar)
                 r == Resolution(x, delay[x])
             IN  /\ r.outcome.gain <= minute(r.trade, r.at).gain
                 /\ r.twinOutcome.gain <= minute(r.twin, r.twinAt).gain
  <2> DEFINE t == TradeOf(x)
             j == TwinBar(x.at, delay[x])
             price == Fine(Bar(bars[j]).close)
             twin == TwinOf(t, price)
  <2>1. x \in signals /\ x.at < Len(bars) /\ Len(bars) \in Nat BY <1>3 DEF Resolved
  <2>2. x.at \in 1..Len(bars) /\ t \in Trades BY <1>3, <2>1
  <2>3. j \in 1..Len(bars)
    <3> DEFINE d == delay[x]
    <3>1. d \in 1..TwinReach /\ TwinReach \in Nat BY DEF BacktestAssumption
    <3> HIDE DEF d
    <3>2. Len(bars) - 1 \in Int /\ x.at + d \in Int BY <2>1, <2>2, <3>1
    <3>3. Min({Len(bars) - 1, x.at + d}) =
            IF Len(bars) - 1 <= x.at + d THEN Len(bars) - 1 ELSE x.at + d
      BY <3>2, SmallerOfTwo
    <3> QED BY <2>1, <2>2, <3>1, <3>3 DEF TwinBar, d
  <2>4. twin \in Trades
    <3>1. bars[j] \in Minutes BY <1>3, <2>3
    <3>2. price \in Int BY <3>1, ClosePrice DEF Fine
    <3> HIDE DEF t, price, j
    <3>3. /\ t.entry \in Int /\ t.stop \in Int /\ t.target \in Int /\ t.s \in {1, -1}
      BY <2>2 DEF Trades
    <3>4. Distance(t.entry, t.stop) \in Int /\ Distance(t.target, t.entry) \in Int
      <4>1. \A a, b \in Int : Distance(a, b) \in Int BY DEF Distance
      <4> QED BY <3>3, <4>1
    <3>5. /\ price - t.s * Distance(t.entry, t.stop) \in Int
          /\ price + t.s * Distance(t.target, t.entry) \in Int
      BY <3>2, <3>3, <3>4
    <3> QED BY <3>2, <3>3, <3>5 DEF TwinOf, Trades
  <2>5. Resolution(x, delay[x]) =
          [trade |-> t, at |-> x.at, outcome |-> Outcome(t, x.at),
           twin |-> twin, twinAt |-> j, twinOutcome |-> Outcome(twin, j)]
    BY DEF Resolution
  <2> DEFINE minute(trade, i) == Resolve(trade, MinutesAfter(i),
                                         [m \in 1..Len(MinutesAfter(i)) |-> << >>],
                                         MaxBarsHold * MinutesPerBar)
  <2> HIDE DEF t, j, twin
  <2>6. \A trade \in Trades, i \in 1..Len(bars) : Outcome(trade, i).gain <= minute(trade, i).gain
    BY <1>3, OutcomeNeverFlatters
  <2> HIDE DEF minute
  <2>7. /\ Outcome(t, x.at).gain <= minute(t, x.at).gain
        /\ Outcome(twin, j).gain <= minute(twin, j).gain
    BY <2>2, <2>3, <2>4, <2>6
  <2>8. /\ Resolution(x, delay[x]).outcome.gain
             <= minute(Resolution(x, delay[x]).trade, Resolution(x, delay[x]).at).gain
        /\ Resolution(x, delay[x]).twinOutcome.gain
             <= minute(Resolution(x, delay[x]).twin, Resolution(x, delay[x]).twinAt).gain
    BY <2>5, <2>7
  <2> QED BY <2>8 DEF minute
<1>5. DOMAIN results' = Resolved /\ \A x \in Resolved : results'[x] = Resolution(x, delay[x])
  BY <1>2
<1>6. \A i : MinutesAfter(i)' = MinutesAfter(i) BY <1>1 DEF MinutesAfter
<1>7. BooksNeverFlatter' BY <1>4, <1>5, <1>6 DEF BooksNeverFlatter
<1>8. SignalsStandUp' /\ \A x \in signals' : x.at \in 1..Len(bars') /\ TradeOf(x)' \in Trades
  BY <1>1 DEF BacktestInv, SignalsStandUp, TradeOf
<1> QED BY <1>1, <1>7, <1>8 DEF BacktestInv

(* The invariant under every step.                                         *)
LEMMA BacktestSteps ==
  ASSUME BacktestAssumption, BacktestInv, [Next]_vars
  PROVE  BacktestInv'
<1>1. CASE BarCloses BY <1>1, BarClosesKeeps
<1>2. CASE Ends BY <1>2, EndsKeeps
<1>3. CASE UNCHANGED vars
  BY <1>3 DEF vars, BacktestInv, SignalsStandUp, TradeOf, BooksNeverFlatter, MinutesAfter
<1> QED BY <1>1, <1>2, <1>3 DEF Next

(* Of every history the script, the range and the pivots confirmed are     *)
(* what the program meets, every signal stands up and is a trade, and no   *)
(* booking flatters it (backtest/run.py).                                  *)
THEOREM BacktestInvariant == Spec => []BacktestInv
<1>1. Init => BacktestInv
  <2> SUFFICES ASSUME Init PROVE BacktestInv OBVIOUS
  <2>1. script \in Seq(Pivots) /\ atr \in Nat BY BacktestAssumption DEF Init, BacktestAssumption
  <2>2. known \in 0..Len(script) BY <2>1 DEF Init
  <2>3. BooksNeverFlatter BY DEF Init, NoResults, BooksNeverFlatter
  <2> QED BY <2>1, <2>2, <2>3 DEF Init, BacktestInv, SignalsStandUp
<1>2. BacktestInv /\ [Next]_vars => BacktestInv' BY BacktestAssumption, BacktestSteps
<1> QED BY <1>1, <1>2, PTL DEF Spec

(* The stop of every signal lies beyond its invalidation, the invalidation *)
(* beyond its entry, and the target ahead (waves/projection.py).           *)
THEOREM SignalsHold == Spec => []SignalsStandUp
<1>1. BacktestInv => SignalsStandUp BY DEF BacktestInv
<1> QED BY <1>1, BacktestInvariant, PTL

(* What is booked on the bars for a signal or its twin is never more than  *)
(* what the minutes the bars are made of would have given                  *)
(* (labeling/barriers.py).                                                 *)
THEOREM BookingsNeverFlatter == Spec => []BooksNeverFlatter
<1>1. BacktestInv => BooksNeverFlatter BY DEF BacktestInv
<1> QED BY <1>1, BacktestInvariant, PTL

=============================================================================
