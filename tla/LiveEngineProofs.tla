-------------------------- MODULE LiveEngineProofs --------------------------
(***************************************************************************)
(* Whatever minutes arrive, with whatever holes and repetitions, for any   *)
(* capacity and any timeframes that fit in it: the detectors were given    *)
(* the resampled tape, and every ring is the end of its series.            *)
(*                                                                         *)
(* Neither property is inductive.  What a new bar is made of depends on    *)
(* the 1m ring, and its flags on the bar before it in the ring of its      *)
(* timeframe, so the invariant says slot by slot what every ring holds     *)
(* (Holds).  And a ring of the last Capacity minutes has all of a period   *)
(* because minutes k places apart are at least k minutes apart             *)
(* (Enumerated).                                                           *)
(***************************************************************************)
EXTENDS LiveEngine, SequenceTheorems, FiniteSetTheorems, TLAPS

(* A bar of the ring. *)
Bars == [ts : Nat, src : SUBSET Nat, gap : BOOLEAN]

(* The bar at k of a series, with a gap when it does not follow its       *)
(* predecessor.                                                            *)
Flagged(s, k, step) ==
  [s[k] EXCEPT !.gap = @ \/ (k > 1 /\ s[k].ts - s[k - 1].ts # step)]

(* The ring r holds the end of the series s. *)
Holds(r, s, step) ==
  /\ r.n = Len(s)
  /\ r.slots \in [0..(Capacity - 1) -> Bars]
  /\ \A k \in 1..Len(s) :
       k > Len(s) - Capacity => r.slots[(k - 1) % Capacity] = Flagged(s, k, step)

-----------------------------------------------------------------------------
(* Remainders. *)

(* Quotient and remainder. *)
LEMMA Divides ==
  ASSUME NEW c \in Nat \ {0}, NEW x \in Int
  PROVE  x % c \in 0..(c - 1) /\ x = c * (x \div c) + (x % c) /\ (x \div c) \in Int
  OBVIOUS

(* The remainder is the only one. *)
LEMMA Remainder ==
  ASSUME NEW c \in Nat \ {0}, NEW q \in Int, NEW r \in 0..(c - 1)
  PROVE  (c * q + r) % c = r
  OBVIOUS

(* Multiples of c are at least c apart. *)
LEMMA Multiple ==
  ASSUME NEW c \in Nat \ {0}, NEW p \in Int, NEW q \in Int
  PROVE  /\ p > q => c * p - c * q >= c
         /\ p <= q => c * p <= c * q
         /\ c * p \in Int
<1>1. c * (p - q) = c * p - c * q OBVIOUS
<1>2. p - q > 0 => c * (p - q) >= c OBVIOUS
<1>3. p - q <= 0 => c * (p - q) <= 0 OBVIOUS
<1>4. c * p \in Int /\ c * q \in Int OBVIOUS
<1> QED BY <1>1, <1>2, <1>3, <1>4

(* Two places less than a capacity apart are not the same slot. *)
LEMMA SlotsDiffer ==
  ASSUME NEW c \in Nat \ {0}, NEW a \in Int, NEW b \in Int, a < b, b - a < c
  PROVE  a % c # b % c
<1> SUFFICES ASSUME a % c = b % c PROVE FALSE OBVIOUS
<1> DEFINE p == a \div c
           q == b \div c
           r == a % c
<1>1. p \in Int /\ q \in Int /\ r \in Int /\ a = c * p + r /\ b = c * q + r BY Divides
<1> HIDE DEF p, q, r
<1>2. /\ q > p => c * q - c * p >= c
      /\ q <= p => c * q <= c * p
  BY <1>1, Multiple
<1>3. c * q \in Int /\ c * p \in Int BY <1>1, Multiple
<1> QED BY <1>1, <1>2, <1>3

(* The last minute of a period. *)
LEMMA LastOfPeriod ==
  ASSUME NEW c \in Nat \ {0}, NEW x \in Int, (x + 1) % c = 0
  PROVE  x % c = c - 1
<1> DEFINE q == x \div c
           r == x % c
<1>1. q \in Int /\ r \in 0..(c - 1) /\ x = c * q + r BY Divides
<1> HIDE DEF q, r
<1>2. CASE r < c - 1
  <2>1. c * q \in Int BY <1>1, Multiple
  <2>2. x + 1 = c * q + (r + 1) BY <1>1, <2>1
  <2>3. r + 1 \in 0..(c - 1) BY <1>1, <1>2
  <2>4. (x + 1) % c = r + 1 BY <1>1, <2>2, <2>3, Remainder
  <2> QED BY <2>4, <1>1
<1> QED BY <1>1, <1>2 DEF r

(* A floor, and the floor of the next period, are on the grid. *)
LEMMA EndsOnGrid ==
  ASSUME NEW c \in Nat \ {0}, NEW x \in Int
  PROVE  ((x - (x % c)) + c) % c = 0 /\ (x - (x % c)) % c = 0
<1> DEFINE q == x \div c
           r == x % c
<1>1. q \in Int /\ r \in 0..(c - 1) /\ x = c * q + r BY Divides
<1> HIDE DEF q, r
<1>2. c * q \in Int /\ c * (q + 1) = c * q + c BY <1>1
<1>3. x - r = c * q + 0 /\ (x - r) + c = c * (q + 1) + 0 BY <1>1, <1>2
<1>4. (c * q + 0) % c = 0 /\ (c * (q + 1) + 0) % c = 0 BY <1>1, Remainder
<1> QED BY <1>3, <1>4 DEF r

(* The first period is not before minute 0. *)
LEMMA PeriodFits ==
  ASSUME NEW c \in Nat \ {0}, NEW x \in Nat, (x + 1) % c = 0
  PROVE  (x + 1) - c \in Nat
<1>1. x + 1 >= c OBVIOUS
<1> QED BY <1>1

-----------------------------------------------------------------------------
(* The ring. *)

(* Flagging changes the gap only. *)
LEMMA FlaggedType ==
  ASSUME NEW s \in Seq(Bars), NEW k \in 1..Len(s), NEW step \in Int
  PROVE  /\ Flagged(s, k, step) \in Bars
         /\ Flagged(s, k, step).ts = s[k].ts
         /\ Flagged(s, k, step).src = s[k].src
         /\ Flagged(s, k, step).gap = (s[k].gap \/ (k > 1 /\ s[k].ts - s[k - 1].ts # step))
<1>1. s[k] \in Bars BY ElementOfSeq
<1> QED BY <1>1 DEF Flagged, Bars

(* What is appended flags no earlier bar. *)
LEMMA FlaggedAppend ==
  ASSUME NEW s \in Seq(Bars), NEW b \in Bars, NEW k \in 1..Len(s), NEW step \in Int
  PROVE  Flagged(Append(s, b), k, step) = Flagged(s, k, step)
<1>1. Append(s, b)[k] = s[k] BY AppendProperties
<1>2. k > 1 => Append(s, b)[k - 1] = s[k - 1]
  <2> HAVE k > 1
  <2>1. k - 1 \in 1..Len(s) BY LenProperties
  <2> QED BY <2>1, AppendProperties
<1> QED BY <1>1, <1>2 DEF Flagged

(* The last bar written is the last of the series. *)
LEMMA LastHeld ==
  ASSUME NEW s \in Seq(Bars), NEW r, NEW step \in Int, Holds(r, s, step)
  PROVE  /\ Len(s) = 0 => LastTs(r) = None
         /\ Len(s) # 0 => r.n # 0 /\ Len(s) \in 1..Len(s) /\ LastTs(r) = s[Len(s)].ts
<1>1. r.n = Len(s) BY DEF Holds
<1>2. CASE Len(s) = 0 BY <1>1, <1>2 DEF LastTs
<1>3. CASE Len(s) # 0
  <2>1. Len(s) \in Nat \ {0} BY <1>3, LenProperties
  <2>2. Len(s) \in 1..Len(s) /\ Len(s) > Len(s) - Capacity BY <2>1, CapacityAssumption
  <2>3. r.slots[(Len(s) - 1) % Capacity] = Flagged(s, Len(s), step) BY <2>2 DEF Holds
  <2>4. Flagged(s, Len(s), step).ts = s[Len(s)].ts BY <2>2, FlaggedType
  <2> QED BY <1>1, <1>3, <2>1, <2>2, <2>3, <2>4 DEF LastTs
<1> QED BY <1>2, <1>3

(* append() puts the flagged bar at the end. *)
LEMMA AppendedHolds ==
  ASSUME NEW s \in Seq(Bars), NEW r, NEW step \in Int, Holds(r, s, step), NEW b \in Bars
  PROVE  Holds(Appended(r, b, step), Append(s, b), step)
<1> DEFINE n == Len(s)
           t == Append(s, b)
           c == [b EXCEPT !.gap = @ \/ Discontinuous(r, b, step)]
           u == Appended(r, b, step)
<1>1. n \in Nat /\ r.n = n /\ r.slots \in [0..(Capacity - 1) -> Bars]
  BY LenProperties DEF Holds
<1>2. t \in Seq(Bars) /\ Len(t) = n + 1 /\ t[n + 1] = b
      /\ \A k \in 1..n : t[k] = s[k]
  BY AppendProperties
<1>3. c \in Bars
  BY DEF Bars, Discontinuous
<1>4. c = Flagged(t, n + 1, step)
  <2>1. Discontinuous(r, b, step) = ((n + 1) > 1 /\ t[n + 1].ts - t[(n + 1) - 1].ts # step)
    <3>1. CASE n = 0 BY <1>1, <3>1 DEF Discontinuous
    <3>2. CASE n # 0
      <4>2. LastTs(r) = s[n].ts /\ n \in 1..n BY <3>2, LastHeld
      <4>3. t[n] = s[n] /\ (n + 1) - 1 = n /\ n > 0 /\ n + 1 > 1 BY <1>1, <1>2, <4>2
      <4> QED BY <1>1, <1>2, <4>2, <4>3 DEF Discontinuous
    <3> QED BY <3>1, <3>2
  <2> QED BY <1>2, <2>1 DEF Flagged
<1>5. n % Capacity \in 0..(Capacity - 1) BY <1>1, Divides, CapacityAssumption
<1>6. u.n = n + 1 /\ u.slots = [r.slots EXCEPT ![n % Capacity] = c]
  BY <1>1 DEF Appended
<1>7. u.slots \in [0..(Capacity - 1) -> Bars]
  BY <1>1, <1>3, <1>6
<1>8. ASSUME NEW k \in 1..(n + 1), k > (n + 1) - Capacity
      PROVE  u.slots[(k - 1) % Capacity] = Flagged(t, k, step)
  <2>1. CASE k = n + 1
    <3>1. (k - 1) = n BY <1>1, <2>1
    <3> QED BY <1>1, <1>4, <1>5, <1>6, <2>1, <3>1
  <2>2. CASE k # n + 1
    <3>1. k \in 1..n /\ k > n - Capacity /\ k - 1 \in Int /\ k - 1 < n /\ n - (k - 1) < Capacity
      BY <1>1, <1>8, <2>2, CapacityAssumption
    <3>2. (k - 1) % Capacity # n % Capacity
      <4> DEFINE a == k - 1
      <4>1. Capacity \in Nat \ {0} /\ a \in Int /\ n \in Int /\ a < n /\ n - a < Capacity
        BY <1>1, <3>1, CapacityAssumption
      <4> HIDE DEF a, n
      <4>2. a % Capacity # n % Capacity BY <4>1, SlotsDiffer
      <4> QED BY <4>2 DEF a
    <3>3. (k - 1) % Capacity \in 0..(Capacity - 1) BY <3>1, Divides, CapacityAssumption
    <3>4. r.slots[(k - 1) % Capacity] = Flagged(s, k, step) BY <3>1 DEF Holds
    <3>5. Flagged(t, k, step) = Flagged(s, k, step) BY <3>1, FlaggedAppend
    <3>6. u.slots[(k - 1) % Capacity] = r.slots[(k - 1) % Capacity]
      BY <1>1, <1>6, <3>2, <3>3
    <3> QED BY <3>4, <3>5, <3>6
  <2> QED BY <2>1, <2>2
<1> HIDE DEF t, u, n
<1> QED BY <1>2, <1>6, <1>7, <1>8 DEF Holds, t, u

(* The last k bars of a ring that holds s are the last bars of s. *)
LEMMA TakeHolds ==
  ASSUME NEW s \in Seq(Bars), NEW r, NEW step \in Int, Holds(r, s, step), NEW k \in Nat
  PROVE  LET size == IF k < Size(r) THEN k ELSE Size(r)
         IN  /\ size \in 0..Len(s) /\ size <= Capacity
             /\ Take(r, k) = [j \in 1..size |-> Flagged(s, (Len(s) - size) + j, step)]
<1> DEFINE n == Len(s)
           size == IF k < Size(r) THEN k ELSE Size(r)
<1>1. n \in Nat /\ r.n = n BY LenProperties DEF Holds
<1>2. size \in 0..n /\ size <= Capacity
  BY <1>1, CapacityAssumption DEF Size
<1>3. ASSUME NEW j \in 1..size
      PROVE  r.slots[((r.n - size) + (j - 1)) % Capacity] = Flagged(s, (n - size) + j, step)
  <2> DEFINE i == (n - size) + j
  <2>1. size \in Int /\ j \in Int BY <1>2
  <2>2. i \in 1..n /\ i > n - Capacity /\ (r.n - size) + (j - 1) = i - 1
    <3> HIDE DEF size
    <3> QED BY <1>1, <1>2, <2>1, CapacityAssumption
  <2>3. r.slots[(i - 1) % Capacity] = Flagged(s, i, step) BY <2>2 DEF Holds
  <2> QED BY <2>2, <2>3
<1>4. Take(r, k) = [j \in 1..size |-> r.slots[((r.n - size) + (j - 1)) % Capacity]]
  BY DEF Take
<1>5. Take(r, k) = [j \in 1..size |-> Flagged(s, (n - size) + j, step)]
  <2> HIDE DEF size
  <2> QED BY <1>3, <1>4
<1> QED BY <1>2, <1>5

-----------------------------------------------------------------------------
(* The tape. *)

(* The place of a minute in a set. *)
Rank(S, x) == Cardinality({y \in S : y <= x})

(* The tape in order: every minute of it once, each place one more than the *)
(* minutes before it, and k places apart are at least k minutes apart.      *)
Enumerated(S) ==
  LET s == InOrder(S)
      n == Cardinality(S)
  IN  /\ \A k \in 1..n : s[k] \in S /\ Rank(S, s[k]) = k
      /\ \A m \in S : \E k \in 1..n : s[k] = m
      /\ \A j, k \in 1..n : j <= k => s[k] - s[j] >= k - j

(* What a tape is. *)
IsTape(S) == IsFiniteSet(S) /\ S \subseteq Nat /\ Enumerated(S)

(* The 1m bars of a sequence of minutes. *)
Ticks(minutes) == [k \in DOMAIN minutes |-> Bar(minutes[k], {minutes[k]}, FALSE)]

(* Two minutes of a set have different ranks. *)
LEMMA RankUnique ==
  ASSUME NEW S, IsFiniteSet(S), S \subseteq Int, NEW x \in S, NEW y \in S,
         Rank(S, x) = Rank(S, y)
  PROVE  x = y
<1>1. ASSUME NEW a \in S, NEW b \in S, a < b PROVE Rank(S, a) # Rank(S, b)
  <2> DEFINE A == {z \in S : z <= a}
             B == {z \in S : z <= b}
  <2>1. IsFiniteSet(B) BY FS_Subset
  <2>0. S \subseteq Int /\ a \in Int /\ b \in Int OBVIOUS
  <2>2. A \subseteq B /\ b \in B /\ b \notin A
    <3>1. \A z \in S : z <= a => z <= b BY <1>1, <2>0
    <3>2. b <= b /\ ~(b <= a) BY <1>1, <2>0
    <3> QED BY <3>1, <3>2
  <2>3. A # B BY <2>2
  <2> HIDE DEF A, B
  <2>4. A \in SUBSET B BY <2>2
  <2>5. Cardinality(A) # Cardinality(B) BY <2>1, <2>3, <2>4, FS_Subset
  <2> QED BY <2>5 DEF Rank, A, B
<1>2. x \in Int /\ y \in Int OBVIOUS
<1>3. ~(x < y) /\ ~(y < x) BY <1>1
<1> QED BY <1>2, <1>3

(* What is at a place of an enumerated set. *)
LEMMA PlaceIs ==
  ASSUME NEW S, IsFiniteSet(S), S \subseteq Int, NEW m \in S, NEW k \in 1..Cardinality(S),
         Rank(S, m) = k
  PROVE  InOrder(S)[k] = m
<1> DEFINE c == CHOOSE x \in S : Cardinality({y \in S : y <= x}) = k
<1>1. \E x \in S : Cardinality({y \in S : y <= x}) = k BY DEF Rank
<1>2. c \in S /\ Cardinality({y \in S : y <= c}) = k BY <1>1
<1>3. InOrder(S)[k] = c BY DEF InOrder
<1> HIDE DEF c
<1>4. Rank(S, c) = k BY <1>2 DEF Rank
<1> QED BY <1>2, <1>3, <1>4, RankUnique

(* A function is what it is at each place. *)
LEMMA InOrderIs ==
  ASSUME NEW S
  PROVE  InOrder(S) = [k \in 1..Cardinality(S) |-> InOrder(S)[k]]
  BY DEF InOrder

(* An enumerated set is a sequence of its minutes. *)
LEMMA InOrderType ==
  ASSUME NEW S, IsFiniteSet(S), S \subseteq Nat, Enumerated(S)
  PROVE  /\ Cardinality(S) \in Nat
         /\ InOrder(S) \in Seq(Nat) /\ Len(InOrder(S)) = Cardinality(S)
         /\ DOMAIN InOrder(S) = 1..Cardinality(S)
         /\ \A k \in 1..Cardinality(S) : InOrder(S)[k] \in S
<1> DEFINE n == Cardinality(S)
           s == InOrder(S)
<1>1. n \in Nat BY FS_CardinalityType
<1>2. DOMAIN s = 1..n /\ s = [k \in 1..n |-> s[k]] BY DEF InOrder
<1>3. \A k \in 1..n : s[k] \in S BY DEF Enumerated
<1> HIDE DEF n, s
<1>4. s \in [1..n -> Nat] BY <1>2, <1>3
<1>5. s \in Seq(Nat) BY <1>1, <1>4
<1>6. Len(s) = n BY <1>1, <1>2, <1>5, LenProperties
<1> QED BY <1>1, <1>2, <1>3, <1>5, <1>6 DEF n, s

(* A minute after all the others is the last. *)
LEMMA InOrderAppends ==
  ASSUME NEW S, IsFiniteSet(S), S \subseteq Nat, Enumerated(S),
         NEW m \in Nat, \A x \in S : x < m
  PROVE  /\ Cardinality(S \cup {m}) = Cardinality(S) + 1 /\ IsFiniteSet(S \cup {m})
         /\ InOrder(S \cup {m}) = Append(InOrder(S), m)
         /\ Enumerated(S \cup {m})
<1> DEFINE n == Cardinality(S)
           s == InOrder(S)
           T == S \cup {m}
           t == InOrder(T)
<1>1. m \notin S BY S \subseteq Int
<1>2. IsFiniteSet(T) /\ Cardinality(T) = n + 1 /\ n \in Nat
  BY <1>1, FS_AddElement, FS_CardinalityType
<1>3. /\ n \in Nat /\ s \in Seq(Nat) /\ Len(s) = n
      /\ \A k \in 1..n : s[k] \in S
  BY InOrderType
<1>4. T \subseteq Int OBVIOUS
<1>5. \A k \in 1..n : s[k] \in T /\ Rank(T, s[k]) = k
  <2> TAKE k \in 1..n
  <2>1. s[k] \in S /\ Rank(S, s[k]) = k BY DEF Enumerated
  <2>2. {y \in T : y <= s[k]} = {y \in S : y <= s[k]}
    <3>1. \A x \in S : ~(m <= x) OBVIOUS
    <3>2. ~(m <= s[k]) BY <2>1, <3>1
    <3> QED BY <3>2
  <2> QED BY <2>1, <2>2 DEF Rank
<1>6. Rank(T, m) = n + 1
  <2>1. \A y \in T : y <= m
    <3>1. \A y \in S : y <= m BY S \subseteq Int
    <3> QED BY <3>1
  <2>2. {y \in T : y <= m} = T BY <2>1
  <2> QED BY <1>2, <2>2 DEF Rank
<1>7. \A k \in 1..n : t[k] = s[k]
  <2> TAKE k \in 1..n
  <2>1. k \in 1..Cardinality(T) BY <1>2
  <2> HIDE DEF T, s, t
  <2> QED BY <1>2, <1>4, <1>5, <2>1, PlaceIs DEF t
<1>8. t[n + 1] = m
  <2>1. n + 1 \in 1..Cardinality(T) /\ m \in T BY <1>2
  <2> HIDE DEF T, t
  <2> QED BY <1>2, <1>4, <1>6, <2>1, PlaceIs DEF t
<1>9. DOMAIN t = 1..(n + 1) BY <1>2 DEF InOrder
<1>10. t = Append(s, m)
  <2> DEFINE u == Append(s, m)
  <2>1. u \in Seq(Nat) /\ Len(u) = n + 1 /\ u[n + 1] = m /\ \A k \in 1..n : u[k] = s[k]
    BY <1>3, AppendProperties
  <2>2. DOMAIN u = 1..(n + 1) /\ u = [k \in 1..(n + 1) |-> u[k]] BY <2>1, LenProperties
  <2>3. t = [k \in 1..(n + 1) |-> t[k]]
    <3>1. InOrder(T) = [k \in 1..Cardinality(T) |-> InOrder(T)[k]] BY InOrderIs
    <3> HIDE DEF T
    <3> QED BY <3>1, <1>2
  <2>4. ASSUME NEW k \in 1..(n + 1) PROVE t[k] = u[k]
    <3>1. k \in 1..n \/ k = n + 1 BY <1>3
    <3> QED BY <3>1, <2>1, <1>7, <1>8
  <2> HIDE DEF t, u
  <2> QED BY <2>2, <2>3, <2>4 DEF u
<1>11. \A k \in 1..(n + 1) : t[k] \in T /\ Rank(T, t[k]) = k
  <2> TAKE k \in 1..(n + 1)
  <2>1. k \in 1..n \/ k = n + 1 BY <1>3
  <2>2. m \in T OBVIOUS
  <2> HIDE DEF t, s, T
  <2> QED BY <2>1, <2>2, <1>5, <1>6, <1>7, <1>8
<1>12. \A x \in T : \E k \in 1..(n + 1) : t[k] = x
  <2> TAKE x \in T
  <2>1. CASE x = m BY <1>3, <1>8, <2>1
  <2>2. CASE x \in S
    <3>1. PICK k \in 1..n : s[k] = x BY <2>2 DEF Enumerated
    <3>2. k \in 1..(n + 1) BY <1>3
    <3> QED BY <3>1, <3>2, <1>7
  <2> QED BY <2>1, <2>2
<1>13. \A j, k \in 1..(n + 1) : j <= k => t[k] - t[j] >= k - j
  <2> SUFFICES ASSUME NEW j \in 1..(n + 1), NEW k \in 1..(n + 1), j <= k
               PROVE  t[k] - t[j] >= k - j
    OBVIOUS
  <2>0. \A a, b \in 1..n : a <= b => s[b] - s[a] >= b - a BY DEF Enumerated
  <2>1. \A a \in 1..n : s[a] \in Nat /\ s[a] < m BY <1>3
  <2> HIDE DEF s, t, T
  <2>2. CASE k \in 1..n
    <3>1. j \in 1..n BY <2>2, <1>3, j <= k
    <3> QED BY <3>1, <2>2, <2>0, <1>7
  <2>3. CASE k = n + 1 /\ j \in 1..n
    <3>1. n \in 1..n BY <2>3, <1>3
    <3>2. s[n] - s[j] >= n - j BY <3>1, <2>3, <2>0
    <3>3. t[k] = m /\ t[j] = s[j] BY <2>3, <1>7, <1>8
    <3>4. s[n] \in Nat /\ s[j] \in Nat /\ s[n] < m BY <3>1, <2>1, <2>3
    <3>5. k = n + 1 /\ j \in Int /\ n \in Int BY <2>3, <1>3
    <3> DEFINE x == s[n]
               y == s[j]
    <3>6. x - y >= n - j /\ x \in Int /\ y \in Int /\ x < m BY <3>2, <3>4
    <3>7. t[k] - t[j] = m - y BY <3>3
    <3> HIDE DEF x, y
    <3>8. m - y >= k - j BY <3>5, <3>6
    <3> QED BY <3>7, <3>8
  <2>4. CASE k = n + 1 /\ j = n + 1 BY <2>4, <1>8, <1>3
  <2>5. (k \in 1..n \/ k = n + 1) /\ (j \in 1..n \/ j = n + 1) BY <1>3
  <2> QED BY <2>2, <2>3, <2>4, <2>5
<1>14. Enumerated(T)
  <2> HIDE DEF T
  <2> QED BY <1>2, <1>11, <1>12, <1>13 DEF Enumerated, t
<1> QED BY <1>2, <1>10, <1>14

(* One more minute is one more bar. *)
LEMMA TicksAppend ==
  ASSUME NEW s \in Seq(Nat), NEW m \in Nat
  PROVE  /\ Ticks(s) \in Seq(Bars) /\ Len(Ticks(s)) = Len(s)
         /\ Bar(m, {m}, FALSE) \in Bars
         /\ Ticks(Append(s, m)) = Append(Ticks(s), Bar(m, {m}, FALSE))
<1> DEFINE n == Len(s)
           b == Bar(m, {m}, FALSE)
           t == Append(s, m)
<1>0. \A x \in Nat : Bar(x, {x}, FALSE) \in Bars BY DEF Bar, Bars
<1>1. n \in Nat /\ DOMAIN s = 1..n /\ \A k \in 1..n : s[k] \in Nat
  BY LenProperties, ElementOfSeq
<1>2. Ticks(s) = [k \in 1..n |-> Bar(s[k], {s[k]}, FALSE)] BY <1>1 DEF Ticks
<1>3. \A k \in 1..n : Bar(s[k], {s[k]}, FALSE) \in Bars BY <1>0, <1>1
<1>4. Ticks(s) \in Seq(Bars) /\ Len(Ticks(s)) = n
  <2> HIDE DEF n
  <2>1. Ticks(s) \in [1..n -> Bars] BY <1>2, <1>3
  <2>2. Ticks(s) \in Seq(Bars) BY <1>1, <2>1
  <2>3. DOMAIN Ticks(s) = 1..n BY <1>2
  <2> QED BY <1>1, <2>2, <2>3, LenProperties
<1>5. t \in Seq(Nat) /\ Len(t) = n + 1 /\ t[n + 1] = m /\ (\A k \in 1..n : t[k] = s[k])
      /\ DOMAIN t = 1..(n + 1)
  <2>1. t \in Seq(Nat) /\ Len(t) = n + 1 /\ t[n + 1] = m /\ \A k \in 1..n : t[k] = s[k]
    BY AppendProperties
  <2> QED BY <2>1, LenProperties
<1>6. b \in Bars BY <1>0
<1> DEFINE u == Append(Ticks(s), b)
<1>7. u \in Seq(Bars) /\ Len(u) = n + 1 /\ u[n + 1] = b
      /\ (\A k \in 1..n : u[k] = Ticks(s)[k]) /\ u = [k \in 1..(n + 1) |-> u[k]]
  <2> HIDE DEF n, b
  <2>1. u \in Seq(Bars) /\ Len(u) = n + 1 /\ u[n + 1] = b
        /\ \A k \in 1..n : u[k] = Ticks(s)[k]
    BY <1>4, <1>6, AppendProperties
  <2>2. u \in [1..(n + 1) -> Bars] BY <2>1, LenProperties
  <2> QED BY <2>1, <2>2
<1>8. Ticks(t) = [k \in 1..(n + 1) |-> Bar(t[k], {t[k]}, FALSE)] BY <1>5 DEF Ticks
<1>9. ASSUME NEW k \in 1..(n + 1) PROVE Bar(t[k], {t[k]}, FALSE) = u[k]
  <2>1. k \in 1..n \/ k = n + 1 BY <1>1
  <2>2. CASE k \in 1..n BY <2>2, <1>2, <1>5, <1>7
  <2>3. CASE k = n + 1 BY <2>3, <1>5, <1>7
  <2> QED BY <2>1, <2>2, <2>3
<1>10. Ticks(t) = u
  <2> HIDE DEF u, t, n
  <2> QED BY <1>7, <1>8, <1>9
<1> QED BY <1>4, <1>6, <1>10

(* window() is the end of the series, flags included. *)
LEMMA WindowHolds ==
  ASSUME NEW s \in Seq(Bars), NEW r, NEW step \in Int, Holds(r, s, step), NEW k \in Nat
  PROVE  LET size == IF k < Size(r) THEN k ELSE Size(r)
         IN  /\ size \in 0..Len(s)
             /\ size = Len(s) \/ size >= Capacity \/ size = k
             /\ Window(r, k, step) = [j \in 1..size |-> Flagged(s, (Len(s) - size) + j, step)]
<1> DEFINE n == Len(s)
           size == IF k < Size(r) THEN k ELSE Size(r)
           w == Take(r, k)
           F(j) == Flagged(s, (n - size) + j, step)
<1>1. size \in 0..n /\ w = [j \in 1..size |-> F(j)] BY TakeHolds
<1>2. n \in Nat /\ r.n = n BY LenProperties DEF Holds
<1>3. size = n \/ size >= Capacity \/ size = k BY <1>2, CapacityAssumption DEF Size
<1>4. ASSUME NEW j \in 1..size
      PROVE  [w[j] EXCEPT !.gap = @ \/ (j > 1 /\ w[j].ts - w[j - 1].ts # step)] = F(j)
  <2> DEFINE i == (n - size) + j
  <2> HIDE DEF size
  <2>1. i \in 1..n /\ j \in Int BY <1>1, <1>2
  <2>2. w[j] = F(j) /\ F(j) = Flagged(s, i, step) BY <1>1
  <2>3. /\ F(j) \in Bars
        /\ F(j).ts = s[i].ts
        /\ F(j).gap = (s[i].gap \/ (i > 1 /\ s[i].ts - s[i - 1].ts # step))
    BY <2>1, FlaggedType
  <2>4. j > 1 => i > 1 /\ w[j - 1].ts = s[i - 1].ts
    <3> HAVE j > 1
    <3>1. j - 1 \in 1..size /\ (n - size) + (j - 1) = i - 1 /\ i - 1 \in 1..n /\ i > 1
      BY <1>1, <1>2, <2>1
    <3>2. w[j - 1] = Flagged(s, i - 1, step) BY <1>1, <3>1
    <3>3. Flagged(s, i - 1, step).ts = s[i - 1].ts BY <3>1, FlaggedType
    <3> QED BY <3>1, <3>2, <3>3
  <2> DEFINE g == (j > 1 /\ w[j].ts - w[j - 1].ts # step)
             b == F(j)
  <2>5. g => b.gap BY <2>2, <2>3, <2>4
  <2>6. b \in Bars BY <2>3
  <2>7. w[j] = b BY <2>2
  <2> HIDE DEF b, g, F, w
  <2>8. (b.gap \/ g) = b.gap BY <2>5, <2>6 DEF Bars
  <2>9. [b EXCEPT !.gap = @ \/ g] = b BY <2>6, <2>8 DEF Bars
  <2> QED BY <2>7, <2>9 DEF g, b
<1>5. DOMAIN w = 1..size BY <1>1
<1>6. Window(r, k, step) =
        [j \in 1..size |-> [w[j] EXCEPT !.gap = @ \/ (j > 1 /\ w[j].ts - w[j - 1].ts # step)]]
  BY <1>5 DEF Window
<1>7. Window(r, k, step) = [j \in 1..size |-> F(j)]
  <2> HIDE DEF size, w, F
  <2> QED BY <1>4, <1>6
<1> QED BY <1>1, <1>3, <1>7

(* The last minute of an enumerated set. *)
LEMMA LastIsMost ==
  ASSUME NEW S, IsFiniteSet(S), S \subseteq Nat, Enumerated(S)
  PROVE  /\ S = {} => InOrder(S) = << >>
         /\ S # {} => /\ Cardinality(S) \in 1..Cardinality(S)
                      /\ InOrder(S)[Cardinality(S)] \in S
                      /\ \A x \in S : x <= InOrder(S)[Cardinality(S)]
<1> DEFINE n == Cardinality(S)
           s == InOrder(S)
<1>1. n \in Nat /\ s \in Seq(Nat) /\ Len(s) = n /\ \A k \in 1..n : s[k] \in S BY InOrderType
<1>2. CASE S = {}
  <2>1. n = 0 BY <1>2, FS_EmptySet
  <2> QED BY <1>1, <1>2, <2>1, EmptySeq
<1>3. CASE S # {}
  <2>1. n # 0 BY <1>3, FS_EmptySet
  <2>2. n \in 1..n BY <1>1, <2>1
  <2>3. \A x \in S : x <= s[n]
    <3> TAKE x \in S
    <3>1. PICK i \in 1..n : s[i] = x BY DEF Enumerated
    <3>2. i <= n BY <1>1
    <3>3. s[n] - s[i] >= n - i BY <2>2, <3>2 DEF Enumerated
    <3>4. s[n] \in Nat /\ s[i] \in Nat BY <1>1, <2>2
    <3> HIDE DEF s, n
    <3> QED BY <1>1, <3>1, <3>2, <3>3, <3>4
  <2> QED BY <1>1, <1>3, <2>2, <2>3
<1> QED BY <1>2, <1>3

(* A ring of the last Capacity minutes has every minute of the period that *)
(* ends with the last one: a period is at most Capacity minutes long.       *)
LEMMA SourcesAre ==
  ASSUME NEW S, IsTape(S), NEW r, Holds(r, Ticks(InOrder(S)), 1), NEW tf \in Tfs,
         NEW open \in Int, open + tf - 1 \in S, \A x \in S : x <= open + tf - 1
  PROVE  Sources(r, open, tf) = S \cap Period(open, tf)
<1> DEFINE n == Cardinality(S)
           s == InOrder(S)
           t == Ticks(s)
           k == tf + Margin
           size == IF k < Size(r) THEN k ELSE Size(r)
           w == Window(r, k, 1)
           m == open + tf - 1
<1>0. IsFiniteSet(S) /\ S \subseteq Nat /\ Enumerated(S) BY DEF IsTape
<1>1. n \in Nat /\ s \in Seq(Nat) /\ Len(s) = n /\ DOMAIN s = 1..n
      /\ (\A i \in 1..n : s[i] \in S)
  BY <1>0, InOrderType
<1>2. t \in Seq(Bars) /\ Len(t) = n BY <1>1, TicksAppend
<1>3. tf \in Nat /\ tf >= 1 /\ Margin \in Nat /\ tf <= Capacity /\ m \in Nat
      /\ open = (m + 1) - tf /\ m \in S /\ \A x \in S : x <= m
  BY <1>0, TfsAssumption
<1>4. k \in Nat BY <1>3
<1>5. /\ size \in 0..n
      /\ size = n \/ size >= Capacity \/ size = k
      /\ w = [j \in 1..size |-> Flagged(t, (n - size) + j, 1)]
  <2> HIDE DEF t, k, w
  <2>1. Holds(r, t, 1) BY DEF t
  <2>2. w = Window(r, k, 1) BY DEF w
  <2>3. Len(t) = n BY <1>2
  <2> HIDE DEF n
  <2> QED BY <1>2, <1>4, <2>1, <2>2, <2>3, WindowHolds
<1>6. \A i \in 1..n : t[i].ts = s[i] BY <1>1 DEF Ticks, Bar
<1> HIDE DEF size, m
<1>7. ASSUME NEW j \in 1..size PROVE (n - size) + j \in 1..n /\ w[j].ts = s[(n - size) + j]
  <2> DEFINE i == (n - size) + j
  <2>1. i \in 1..n BY <1>1, <1>5
  <2>2. w[j] = Flagged(t, i, 1) BY <1>5
  <2>3. Flagged(t, i, 1).ts = t[i].ts BY <1>2, <2>1, FlaggedType
  <2> QED BY <1>6, <2>1, <2>2, <2>3
<1>8. DOMAIN w = 1..size BY <1>5
<1>9. ASSUME NEW x \in {b.ts : b \in ToSet(w)} PROVE x \in S
  <2>1. PICK j \in 1..size : x = w[j].ts BY <1>8 DEF ToSet
  <2> QED BY <1>1, <1>7, <2>1
<1>10. ASSUME NEW x \in S, x \in Period(open, tf) PROVE x \in {b.ts : b \in ToSet(w)}
  <2>1. PICK i \in 1..n : s[i] = x BY <1>0 DEF Enumerated
  <2>2. n \in 1..n /\ s[n] \in S /\ m <= s[n] BY <1>0, <1>3, LastIsMost
  <2>3. s[n] = m /\ i <= n /\ x \in Nat BY <1>0, <1>1, <1>3, <2>2
  <2>4. s[n] - s[i] >= n - i BY <1>0, <2>2, <2>3 DEF Enumerated
  <2>5. x >= (m + 1) - tf BY <1>3, <1>10, <2>3 DEF Period
  <2>6. n - i <= tf - 1
    <3>1. m - x >= n - i BY <2>1, <2>3, <2>4
    <3> QED BY <1>1, <1>3, <2>3, <2>5, <3>1
  <2> DEFINE j == i - (n - size)
  <2>7. size = n \/ size >= tf
    <3>1. size \in Int /\ k >= tf BY <1>1, <1>3, <1>5
    <3> HIDE DEF k, n
    <3> QED BY <1>3, <1>5, <3>1, CapacityAssumption
  <2>8. size \in Nat /\ size <= n /\ i \in Int /\ i >= 1 BY <1>1, <1>5
  <2>9. j \in 1..size /\ (n - size) + j = i
    <3> HIDE DEF n
    <3> QED BY <1>1, <1>3, <2>3, <2>6, <2>7, <2>8
  <2>10. w[j].ts = x BY <1>7, <2>1, <2>9
  <2> HIDE DEF j, w
  <2>11. w[j] \in ToSet(w) BY <1>8, <2>9 DEF ToSet
  <2> QED BY <2>10, <2>11
<1> HIDE DEF w, k
<1>11. Sources(r, open, tf) = {b.ts : b \in ToSet(w)} \cap Period(open, tf)
  BY DEF Sources, w, k
<1> QED BY <1>9, <1>10, <1>11

-----------------------------------------------------------------------------
(* Resampling. *)

(* The bar of the period that ends with minute x. *)
PeriodBar(T, x, tf) ==
  LET src == T \cap Period(x + 1 - tf, tf) IN Bar(x + 1 - tf, src, Thin(src, tf))

(* The resampled bars whose last minute is there. *)
ClosedBars(T, tf) == {b \in Resampled(T, tf) : b.ts + tf - 1 \in T}

(* The bar of a period is a bar, and opens on the grid. *)
LEMMA PeriodBarType ==
  ASSUME NEW T, T \subseteq Nat, NEW tf \in Tfs, NEW x \in Nat, (x + 1) % tf = 0
  PROVE  /\ PeriodBar(T, x, tf) \in Bars
         /\ PeriodBar(T, x, tf).ts = x + 1 - tf
         /\ x + 1 - tf \in Nat /\ (x + 1 - tf) % tf = 0
<1>1. tf \in Nat \ {0} BY TfsAssumption
<1>2. (x + 1) - tf \in Nat BY <1>1, PeriodFits
<1>3. x + 1 - tf = (x + 1) - tf BY <1>1
<1> DEFINE src == T \cap Period(x + 1 - tf, tf)
<1>4. src \in SUBSET Nat OBVIOUS
<1>5. Thin(src, tf) \in BOOLEAN BY DEF Thin
<1>6. PeriodBar(T, x, tf) = Bar(x + 1 - tf, src, Thin(src, tf)) BY DEF PeriodBar
<1>7. (x + 1 - tf) % tf = 0
  <2>0. x \in Int OBVIOUS
  <2>1. x % tf = tf - 1 BY <1>1, <2>0, LastOfPeriod
  <2>2. (x - (x % tf)) % tf = 0 BY <1>1, EndsOnGrid
  <2>3. x - (x % tf) = x + 1 - tf BY <1>1, <2>1
  <2> QED BY <2>2, <2>3
<1> HIDE DEF src
<1> QED BY <1>2, <1>3, <1>4, <1>5, <1>6, <1>7 DEF Bar, Bars

(* They are the bars of the periods whose last minute is there. *)
LEMMA ClosedAre ==
  ASSUME NEW T, T \subseteq Nat, NEW tf \in Tfs
  PROVE  ClosedBars(T, tf) = {PeriodBar(T, x, tf) : x \in {y \in T : (y + 1) % tf = 0}}
<1> DEFINE E == {y \in T : (y + 1) % tf = 0}
           R(open) == [ts |-> open, src |-> T \cap Period(open, tf),
                       gap |-> Thin(T \cap Period(open, tf), tf)]
<1>1. tf \in Nat \ {0} BY TfsAssumption
<1>2. Resampled(T, tf) = {R(open) : open \in {FloorOf(y, tf) : y \in T}} BY DEF Resampled
<1>3. \A open : R(open).ts = open OBVIOUS
<1>4. ASSUME NEW x \in Int PROVE PeriodBar(T, x, tf) = R(x + 1 - tf)
  BY DEF PeriodBar, Bar
<1>5. ASSUME NEW b \in ClosedBars(T, tf) PROVE \E x \in E : b = PeriodBar(T, x, tf)
  <2>1. PICK y \in T : b = R(FloorOf(y, tf)) BY <1>2 DEF ClosedBars
  <2> DEFINE x == FloorOf(y, tf) + tf - 1
  <2>2. b.ts = FloorOf(y, tf) /\ b.ts + tf - 1 \in T BY <1>3, <2>1 DEF ClosedBars
  <2>3. x \in T BY <2>2
  <2>4. y \in Int /\ y % tf \in Int BY <1>1, Divides
  <2>5. FloorOf(y, tf) \in Int /\ x + 1 = (y - (y % tf)) + tf /\ x + 1 - tf = FloorOf(y, tf)
    BY <1>1, <2>4 DEF FloorOf
  <2>6. (x + 1) % tf = 0 BY <1>1, <2>4, <2>5, EndsOnGrid
  <2> HIDE DEF R
  <2>7. x \in E /\ x \in Int
    <3> HIDE DEF x
    <3> QED BY <2>3, <2>6
  <2>8. PeriodBar(T, x, tf) = R(x + 1 - tf) BY <1>4, <2>7
  <2> HIDE DEF x, E
  <2> QED BY <2>1, <2>5, <2>7, <2>8
<1>6. ASSUME NEW x \in E PROVE PeriodBar(T, x, tf) \in ClosedBars(T, tf)
  <2>1. x \in T /\ x \in Nat /\ (x + 1) % tf = 0 BY Zenon
  <2>2. x % tf = tf - 1 BY <1>1, <2>1, LastOfPeriod
  <2>3. FloorOf(x, tf) = x + 1 - tf BY <1>1, <2>1, <2>2 DEF FloorOf
  <2>4. PeriodBar(T, x, tf) = R(x + 1 - tf) BY <1>4, <2>1
  <2>5. (x + 1 - tf) + tf - 1 = x BY <1>1, <2>1
  <2> DEFINE o == x + 1 - tf
  <2>6. R(o) \in Resampled(T, tf)
    <3> HIDE DEF R
    <3> QED BY <1>2, <2>1, <2>3
  <2>7. R(o).ts = o BY <1>3
  <2> HIDE DEF R
  <2> QED BY <2>1, <2>4, <2>5, <2>6, <2>7 DEF ClosedBars
<1> HIDE DEF E
<1> QED BY <1>5, <1>6 DEF E

(* A later minute leaves the closed periods alone. *)
LEMMA PeriodBarKept ==
  ASSUME NEW T, T \subseteq Nat, NEW tf \in Tfs, NEW m \in Nat, NEW x \in Nat, x < m
  PROVE  PeriodBar(T \cup {m}, x, tf) = PeriodBar(T, x, tf)
<1>1. tf \in Nat BY TfsAssumption
<1>2. m \notin Period(x + 1 - tf, tf) BY <1>1 DEF Period
<1>3. (T \cup {m}) \cap Period(x + 1 - tf, tf) = T \cap Period(x + 1 - tf, tf) BY <1>2
<1> QED BY <1>3 DEF PeriodBar

(* Minute m closes its period, or none. *)
LEMMA ClosedGrows ==
  ASSUME NEW T, T \subseteq Nat, NEW tf \in Tfs, NEW m \in Nat, \A x \in T : x < m
  PROVE  /\ (m + 1) % tf = 0 =>
              ClosedBars(T \cup {m}, tf) = ClosedBars(T, tf) \cup {PeriodBar(T \cup {m}, m, tf)}
         /\ (m + 1) % tf # 0 => ClosedBars(T \cup {m}, tf) = ClosedBars(T, tf)
<1> DEFINE U == T \cup {m}
           E == {y \in T : (y + 1) % tf = 0}
           F == {y \in U : (y + 1) % tf = 0}
<1>1. U \subseteq Nat OBVIOUS
<1>2. ClosedBars(T, tf) = {PeriodBar(T, x, tf) : x \in E} BY ClosedAre
<1>3. ClosedBars(U, tf) = {PeriodBar(U, x, tf) : x \in F}
  <2> HIDE DEF U
  <2> QED BY <1>1, ClosedAre
<1>4. \A x \in E : PeriodBar(U, x, tf) = PeriodBar(T, x, tf)
  <2> TAKE x \in E
  <2>1. x \in Nat /\ x < m OBVIOUS
  <2> QED BY <2>1, PeriodBarKept
<1>5. (m + 1) % tf = 0 => F = E \cup {m} OBVIOUS
<1>6. (m + 1) % tf # 0 => F = E OBVIOUS
<1> HIDE DEF U, E, F
<1>7. ASSUME (m + 1) % tf = 0
      PROVE  ClosedBars(U, tf) = ClosedBars(T, tf) \cup {PeriodBar(U, m, tf)}
  <2>1. F = E \cup {m} BY <1>5, <1>7
  <2> QED BY <1>2, <1>3, <1>4, <2>1
<1>8. ASSUME (m + 1) % tf # 0 PROVE ClosedBars(U, tf) = ClosedBars(T, tf)
  <2>1. F = E BY <1>6, <1>8
  <2> QED BY <1>2, <1>3, <1>4, <2>1
<1> QED BY <1>7, <1>8 DEF U

(* What a detector is given of a timeframe: the closed bars, in order. *)
FedInOrder(s, T, tf) ==
  /\ ToSet(s) = ClosedBars(T, tf)
  /\ \A j, k \in DOMAIN s : j < k => s[j].ts < s[k].ts

(* What is fed ended before a later minute. *)
LEMMA FedBefore ==
  ASSUME NEW T, T \subseteq Nat, NEW tf \in Tfs, NEW s \in Seq(Bars),
         ToSet(s) = ClosedBars(T, tf),
         NEW m \in Nat, \A x \in T : x < m, NEW k \in 1..Len(s)
  PROVE  s[k].ts < m + 1 - tf /\ s[k].ts \in Nat
<1>1. tf \in Nat BY TfsAssumption
<1>2. s[k] \in Bars BY ElementOfSeq
<1>3. s[k] \in ToSet(s) BY LenProperties DEF ToSet
<1>4. s[k].ts + tf - 1 \in T BY <1>3 DEF ClosedBars
<1>5. s[k].ts \in Nat BY <1>2 DEF Bars
<1>6. s[k].ts + tf - 1 < m BY <1>4
<1> QED BY <1>1, <1>5, <1>6

(* A later minute keeps the order, and adds the bar it closes. *)
LEMMA FedGrows ==
  ASSUME NEW T, T \subseteq Nat, NEW tf \in Tfs, NEW s \in Seq(Bars), FedInOrder(s, T, tf),
         NEW m \in Nat, \A x \in T : x < m
  PROVE  LET b == PeriodBar(T \cup {m}, m, tf) IN
         /\ (m + 1) % tf = 0 => FedInOrder(Append(s, b), T \cup {m}, tf)
         /\ (m + 1) % tf # 0 => FedInOrder(s, T \cup {m}, tf)
<1> DEFINE U == T \cup {m}
           b == PeriodBar(U, m, tf)
           t == Append(s, b)
           n == Len(s)
<1>0. ToSet(s) = ClosedBars(T, tf) /\ \A j, k \in DOMAIN s : j < k => s[j].ts < s[k].ts
  BY DEF FedInOrder
<1>1. ASSUME (m + 1) % tf # 0 PROVE FedInOrder(s, U, tf)
  <2>1. ClosedBars(U, tf) = ClosedBars(T, tf) BY <1>1, ClosedGrows
  <2> QED BY <1>0, <2>1 DEF FedInOrder
<1>2. ASSUME (m + 1) % tf = 0 PROVE FedInOrder(t, U, tf)
  <2>1. ClosedBars(U, tf) = ClosedBars(T, tf) \cup {b} BY <1>2, ClosedGrows
  <2>2. U \subseteq Nat OBVIOUS
  <2> HIDE DEF U
  <2>3. b \in Bars /\ b.ts = m + 1 - tf BY <1>2, <2>2, PeriodBarType
  <2> HIDE DEF b
  <2>4. t \in Seq(Bars) /\ Len(t) = n + 1 /\ t[n + 1] = b /\ n \in Nat
        /\ \A k \in 1..n : t[k] = s[k]
    BY <2>3, AppendProperties, LenProperties
  <2>5. DOMAIN t = 1..(n + 1) /\ DOMAIN s = 1..n BY <2>4, LenProperties
  <2> HIDE DEF t, n
  <2>6. ToSet(t) = ToSet(s) \cup {b}
    <3>1. ASSUME NEW k \in 1..(n + 1) PROVE t[k] \in ToSet(s) \cup {b}
      <4>1. k \in 1..n \/ k = n + 1 BY <2>4
      <4> QED BY <4>1, <2>4, <2>5 DEF ToSet
    <3>2. ASSUME NEW k \in 1..n PROVE s[k] \in ToSet(t)
      <4>1. k \in 1..(n + 1) BY <2>4
      <4> QED BY <4>1, <2>4, <2>5 DEF ToSet
    <3>3. n + 1 \in 1..(n + 1) BY <2>4
    <3>4. b \in ToSet(t) BY <2>4, <2>5, <3>3 DEF ToSet
    <3> QED BY <2>5, <3>1, <3>2, <3>4 DEF ToSet
  <2>7. ASSUME NEW j \in 1..(n + 1), NEW k \in 1..(n + 1), j < k
        PROVE  t[j].ts < t[k].ts
    <3>1. j \in 1..n BY <2>4, <2>7
    <3>2. k \in 1..n \/ k = n + 1 BY <2>4
    <3>3. CASE k \in 1..n BY <3>1, <3>3, <2>4, <2>5, <2>7, <1>0
    <3>4. CASE k = n + 1
      <4>1. s[j].ts < m + 1 - tf BY <3>1, <1>0, FedBefore DEF n
      <4> QED BY <4>1, <3>1, <3>4, <2>3, <2>4
    <3> QED BY <3>2, <3>3, <3>4
  <2> QED BY <1>0, <2>1, <2>5, <2>6, <2>7 DEF FedInOrder
<1> QED BY <1>1, <1>2

-----------------------------------------------------------------------------
(* The invariant. *)

(* The clock, the mode and the bar in flight. *)
ClockType ==
  /\ now \in 0..MaxNow /\ lastWall \in 0..MaxNow
  /\ warming \in BOOLEAN /\ mode \in Mode
  /\ provisional \in {None} \cup 0..MaxNow

(* The rings, the tape and what was fed. *)
DataInv ==
  /\ tape \subseteq 0..now
  /\ Enumerated(tape)
  /\ DOMAIN rings = Tfs \cup {1} /\ DOMAIN fed = Tfs
  /\ Holds(rings[1], Ticks(InOrder(tape)), 1)
  /\ \A tf \in Tfs : /\ fed[tf] \in Seq(Bars)
                     /\ Holds(rings[tf], fed[tf], tf)
                     /\ FedInOrder(fed[tf], tape, tf)

EngineInv == ClockType /\ DataInv

(* The tape is a finite set of minutes. *)
LEMMA TapeType ==
  ASSUME ClockType, DataInv
  PROVE  tape \subseteq Nat /\ IsFiniteSet(tape) /\ now \in Nat
<1>1. now \in Nat BY DEF ClockType
<1>2. IsFiniteSet(0..now) BY <1>1, FS_Interval
<1>3. tape \in SUBSET (0..now) BY DEF DataInv
<1>4. IsFiniteSet(tape) BY <1>2, <1>3, FS_Subset
<1> QED BY <1>1, <1>3, <1>4

(* What is not a duplicate is later than all that was taken. *)
LEMMA NotDuplicateIsLater ==
  ASSUME ClockType, DataInv, NEW m \in Nat, ~Duplicate(m)
  PROVE  \A x \in tape : x < m
<1> SUFFICES ASSUME NEW x \in tape PROVE x < m OBVIOUS
<1> DEFINE n == Cardinality(tape)
           s == InOrder(tape)
           t == Ticks(s)
<1>1. tape \subseteq Nat /\ IsFiniteSet(tape) /\ Enumerated(tape) BY TapeType DEF DataInv
<1>2. n \in 1..n /\ s[n] \in tape /\ x <= s[n] BY <1>1, LastIsMost
<1>3. s \in Seq(Nat) /\ Len(s) = n /\ DOMAIN s = 1..n BY <1>1, InOrderType
<1>4. t \in Seq(Bars) /\ Len(t) = n BY <1>3, TicksAppend
<1>5. Len(t) # 0 BY <1>2, <1>4
<1>6. Holds(rings[1], t, 1) BY DEF DataInv
<1>7. LastTs(rings[1]) = t[n].ts
  <2> HIDE DEF t
  <2>1. LastTs(rings[1]) = t[Len(t)].ts BY <1>4, <1>5, <1>6, LastHeld
  <2> QED BY <2>1, <1>4
<1>8. t[n].ts = s[n] BY <1>2, <1>3 DEF Ticks, Bar
<1>9. ~(m <= s[n]) BY <1>7, <1>8 DEF Duplicate, LastClosed
<1>10. s[n] \in Nat /\ x \in Nat BY <1>1, <1>2
<1> HIDE DEF s, n
<1> QED BY <1>2, <1>9, <1>10

(* A later minute goes to every ring and every detector as it should. *)
LEMMA TakesMinute ==
  ASSUME ClockType, DataInv, NEW m \in Nat, m <= now, \A x \in tape : x < m,
         TakeMinute(m), now' = now
  PROVE  DataInv'
<1> DEFINE s == InOrder(tape)
           T == tape \cup {m}
           r1 == Appended(rings[1], Bar(m, {m}, FALSE), 1)
           Closing == {tf \in Tfs : Closes(r1, rings[tf], m, tf)}
<1>1. tape \subseteq Nat /\ IsFiniteSet(tape) /\ Enumerated(tape) /\ now \in Nat
  BY TapeType DEF DataInv
<1>2. IsFiniteSet(T) /\ InOrder(T) = Append(s, m) /\ Enumerated(T) BY <1>1, InOrderAppends
<1>3. s \in Seq(Nat) BY <1>1, InOrderType
<1>4. T \subseteq Nat /\ m \in T /\ \A x \in T : x <= m
  <2>1. \A x \in tape : x <= m BY <1>1
  <2> QED BY <1>1, <2>1
<1>5. Holds(r1, Ticks(InOrder(T)), 1)
  <2> DEFINE t == Ticks(s)
             b == Bar(m, {m}, FALSE)
  <2>1. t \in Seq(Bars) /\ b \in Bars /\ Ticks(Append(s, m)) = Append(t, b)
    BY <1>3, TicksAppend
  <2>2. Holds(rings[1], t, 1) BY DEF DataInv
  <2> HIDE DEF t, b
  <2>3. Holds(Appended(rings[1], b, 1), Append(t, b), 1) BY <2>1, <2>2, AppendedHolds
  <2> QED BY <1>2, <2>1, <2>3 DEF b
<1> HIDE DEF r1, s
<1>6. ASSUME NEW tf \in Tfs
      PROVE  /\ Sources(r1, m + 1 - tf, tf) = T \cap Period(m + 1 - tf, tf)
             /\ CloseHtf(r1, m + 1 - tf, tf) = PeriodBar(T, m, tf)
  <2> HIDE DEF T
  <2>1. Sources(r1, m + 1 - tf, tf) = T \cap Period(m + 1 - tf, tf)
    <3>1. IsTape(T) /\ m \in T /\ Holds(r1, Ticks(InOrder(T)), 1) /\ \A x \in T : x <= m
      BY <1>2, <1>4, <1>5 DEF IsTape
    <3> DEFINE open == m + 1 - tf
    <3>2. open \in Int /\ open + tf - 1 = m BY TfsAssumption
    <3> HIDE DEF open
    <3>3. open + tf - 1 \in T /\ \A x \in T : x <= open + tf - 1 BY <3>1, <3>2
    <3>4. Sources(r1, open, tf) = T \cap Period(open, tf) BY <3>1, <3>2, <3>3, SourcesAre
    <3> QED BY <3>4 DEF open
  <2> QED BY <2>1 DEF CloseHtf, PeriodBar
<1>7. ASSUME NEW tf \in Tfs
      PROVE  tf \in Closing <=> (m + 1) % tf = 0
  <2>1. tf \in Nat \ {0} BY TfsAssumption
  <2>2. ASSUME (m + 1) % tf = 0 PROVE Closes(r1, rings[tf], m, tf)
    <3>1. m \in Period(m + 1 - tf, tf) BY <2>1 DEF Period
    <3>2. Sources(r1, m + 1 - tf, tf) # {} BY <1>6, <3>1
    <3>3. m + 1 - tf \in Nat BY <1>4, <2>2, PeriodBarType
    <3> DEFINE f == fed[tf]
    <3>4. f \in Seq(Bars) /\ Holds(rings[tf], f, tf) /\ FedInOrder(f, tape, tf)
      BY DEF DataInv
    <3>5. m + 1 - tf > LastTs(rings[tf])
      <4>1. CASE Len(f) = 0
        <5> DEFINE r == rings[tf]
        <5>0. tf \in Int /\ f \in Seq(Bars) /\ Holds(r, f, tf) /\ Len(f) = 0
          BY <2>1, <3>4, <4>1
        <5> HIDE DEF f, r
        <5>1. LastTs(r) = None BY Zenon, <5>0, LastHeld
        <5> QED BY <3>3, <5>1 DEF None, r
      <4>2. CASE Len(f) # 0
        <5> HIDE DEF f
        <5>1. Len(f) \in 1..Len(f) /\ LastTs(rings[tf]) = f[Len(f)].ts
          BY <2>1, <3>4, <4>2, LastHeld
        <5>2. f[Len(f)].ts < m + 1 - tf /\ f[Len(f)].ts \in Nat
          BY <1>1, <3>4, <5>1, FedBefore DEF FedInOrder
        <5> QED BY <3>3, <5>1, <5>2
      <4> QED BY <4>1, <4>2
    <3> QED BY <2>2, <3>2, <3>5 DEF Closes
  <2>3. ASSUME Closes(r1, rings[tf], m, tf) PROVE (m + 1) % tf = 0
    BY <2>3 DEF Closes
  <2> QED BY <2>2, <2>3
<1>8. /\ rings' = [tf \in DOMAIN rings |->
                     IF tf = 1 THEN r1
                     ELSE IF tf \in Closing
                     THEN Appended(rings[tf], CloseHtf(r1, m + 1 - tf, tf), tf)
                     ELSE rings[tf]]
      /\ fed' = [tf \in Tfs |->
                   IF tf \in Closing THEN Append(fed[tf], CloseHtf(r1, m + 1 - tf, tf))
                   ELSE fed[tf]]
      /\ tape' = T
  BY Zenon DEF TakeMinute, r1
<1> HIDE DEF Closing
<1>9. DOMAIN rings = Tfs \cup {1} /\ DOMAIN fed = Tfs /\ 1 \notin Tfs
  BY TfsAssumption DEF DataInv
<1>10. DOMAIN rings' = Tfs \cup {1} /\ DOMAIN fed' = Tfs /\ rings'[1] = r1
  BY <1>8, <1>9
<1>11. ASSUME NEW tf \in Tfs
       PROVE  /\ fed'[tf] \in Seq(Bars)
              /\ Holds(rings'[tf], fed'[tf], tf)
              /\ FedInOrder(fed'[tf], T, tf)
  <2> DEFINE b == PeriodBar(T, m, tf)
             f == fed[tf]
  <2>1. tf \in Int /\ tf # 1 /\ tf \in DOMAIN rings BY <1>9, TfsAssumption
  <2>2. f \in Seq(Bars) /\ Holds(rings[tf], f, tf) /\ FedInOrder(f, tape, tf)
    BY DEF DataInv
  <2>3. CASE (m + 1) % tf = 0
    <3>1. fed'[tf] = Append(f, b) /\ rings'[tf] = Appended(rings[tf], b, tf)
      BY <1>6, <1>7, <1>8, <2>1, <2>3
    <3>2. b \in Bars
      <4> HIDE DEF T
      <4> QED BY <1>4, <2>3, PeriodBarType
    <3>3. FedInOrder(Append(f, b), T, tf)
      <4> HIDE DEF f
      <4> QED BY <1>1, <2>2, <2>3, FedGrows
    <3> HIDE DEF b, f
    <3>4. Holds(Appended(rings[tf], b, tf), Append(f, b), tf)
      BY <2>1, <2>2, <3>2, AppendedHolds
    <3>5. Append(f, b) \in Seq(Bars) BY <2>2, <3>2, AppendProperties
    <3> QED BY <3>1, <3>3, <3>4, <3>5
  <2>4. CASE (m + 1) % tf # 0
    <3>1. fed'[tf] = f /\ rings'[tf] = rings[tf] BY <1>7, <1>8, <2>1, <2>4
    <3>2. FedInOrder(f, T, tf)
      <4> HIDE DEF f
      <4> QED BY <1>1, <2>2, <2>4, FedGrows
    <3> QED BY <2>2, <3>1, <3>2
  <2> QED BY <2>3, <2>4
<1>12. T \subseteq 0..now' BY <1>1 DEF DataInv
<1> HIDE DEF T
<1> QED BY <1>2, <1>5, <1>8, <1>10, <1>11, <1>12 DEF DataInv

(* Empty rings hold empty series. *)
LEMMA InitHolds == Init => EngineInv
<1> SUFFICES ASSUME Init PROVE EngineInv OBVIOUS
<1> USE DEF Init
<1>1. ClockType BY TfsAssumption DEF ClockType, Mode
<1>2. Cardinality(tape) = 0 BY FS_EmptySet
<1>3. Enumerated(tape) BY <1>2 DEF Enumerated
<1>4. InOrder(tape) = << >>
  <2>1. IsFiniteSet(tape) /\ tape \subseteq Nat BY FS_EmptySet
  <2>2. tape = {} OBVIOUS
  <2> QED BY <1>3, <2>1, <2>2, LastIsMost
<1>5. \A tf \in Int : Holds(EmptyRing, << >>, tf)
  BY CapacityAssumption DEF Holds, EmptyRing, Bar, Bars
<1>6. 1 \notin Tfs /\ Tfs \subseteq Int BY TfsAssumption
<1>7. Ticks(<< >>) = << >> BY DEF Ticks
<1>8. rings[1] = EmptyRing /\ \A tf \in Tfs : rings[tf] = EmptyRing /\ fed[tf] = << >>
  OBVIOUS
<1>9. \A tf \in Tfs : FedInOrder(<< >>, {}, tf)
  BY DEF FedInOrder, ClosedBars, Resampled, ToSet
<1>10. DataInv
  <2>1. Holds(rings[1], Ticks(InOrder(tape)), 1) BY <1>4, <1>5, <1>7, <1>8
  <2>2. tape = {} /\ DOMAIN rings = Tfs \cup {1} /\ DOMAIN fed = Tfs OBVIOUS
  <2>3. \A tf \in Tfs : fed[tf] \in Seq(Bars) BY <1>8
  <2> QED BY <1>3, <1>5, <1>6, <1>8, <1>9, <2>1, <2>2, <2>3 DEF DataInv
<1> QED BY <1>1, <1>10 DEF EngineInv

(* on_bar_1m keeps the invariant, whoever calls it. *)
LEMMA ClosedHolds ==
  ASSUME EngineInv, NEW m \in 0..now, OnClosed(m), now' = now
  PROVE  DataInv' /\ provisional' \in {None} \cup 0..MaxNow
<1>1. ClockType /\ DataInv BY DEF EngineInv
<1>2. now \in Nat BY <1>1 DEF ClockType
<1>3. CASE Duplicate(m)
  <2>1. UNCHANGED data BY <1>3 DEF OnClosed
  <2> QED BY <1>1, <2>1 DEF data, DataInv, ClockType
<1>4. CASE ~Duplicate(m)
  <2>1. TakeMinute(m) BY <1>4 DEF OnClosed
  <2>2. m \in Nat /\ m <= now BY <1>2
  <2>3. \A x \in tape : x < m BY <1>1, <1>4, <2>2, NotDuplicateIsLater
  <2>4. DataInv' BY <1>1, <2>1, <2>2, <2>3, TakesMinute
  <2>5. provisional' = None BY <2>1 DEF TakeMinute
  <2> QED BY <2>4, <2>5
<1> QED BY <1>3, <1>4

(* Every step does. *)
LEMMA NextHolds == EngineInv /\ [Next]_vars => EngineInv'
<1> SUFFICES ASSUME EngineInv, [Next]_vars PROVE EngineInv' OBVIOUS
<1>1. ClockType /\ DataInv BY DEF EngineInv
<1>2. MaxNow \in Nat /\ now \in 0..MaxNow BY <1>1, TfsAssumption DEF ClockType
<1>3. ASSUME UNCHANGED data, now' \in 0..MaxNow, now <= now' PROVE DataInv'
  <2>1. 0..now \subseteq 0..now' BY <1>2, <1>3
  <2> QED BY <1>1, <1>3, <2>1 DEF DataInv, data
<1>4. CASE Pass
  <2>1. now' \in 0..MaxNow /\ now <= now' BY <1>2, <1>4 DEF Pass
  <2>2. UNCHANGED data BY <1>4 DEF Pass
  <2> QED BY <1>1, <1>3, <1>4, <2>1, <2>2 DEF EngineInv, ClockType, Pass, data
<1>5. ASSUME NEW m \in 0..now, Replay(m) PROVE EngineInv'
  <2>1. OnClosed(m) /\ UNCHANGED <<now, lastWall, warming, mode>> BY <1>5 DEF Replay
  <2>2. DataInv' /\ provisional' \in {None} \cup 0..MaxNow BY <2>1, ClosedHolds
  <2> QED BY <1>1, <2>1, <2>2 DEF EngineInv, ClockType
<1>6. ASSUME NEW m \in 0..now, Receive(m) PROVE EngineInv'
  <2>1. OnClosed(m) /\ CheckClock /\ UNCHANGED <<now, warming>> BY <1>6 DEF Receive
  <2>2. DataInv' /\ provisional' \in {None} \cup 0..MaxNow BY <2>1, ClosedHolds
  <2>3. mode' \in Mode BY <1>1, <2>1 DEF CheckClock, ClockType, Mode
  <2>4. lastWall' = now BY <2>1 DEF CheckClock
  <2> QED BY <1>1, <2>1, <2>2, <2>3, <2>4 DEF EngineInv, ClockType
<1>7. CASE WarmupEnds
  <2>1. DataInv' BY <1>2, <1>3, <1>7 DEF WarmupEnds
  <2> QED BY <1>1, <1>7, <2>1 DEF EngineInv, ClockType, WarmupEnds, data
<1>8. CASE ReceiveForming
  <2>1. DataInv' BY <1>1, <1>8 DEF ReceiveForming, DataInv
  <2>2. mode' \in Mode BY <1>1, <1>8 DEF ReceiveForming, CheckClock, ClockType, Mode
  <2> QED BY <1>1, <1>8, <2>1, <2>2 DEF EngineInv, ClockType, ReceiveForming, CheckClock
<1>9. CASE UpdateHealth
  <2>1. DataInv' BY <1>2, <1>3, <1>9 DEF UpdateHealth
  <2>2. mode' \in Mode BY <1>1, <1>9 DEF UpdateHealth, ClockType, Mode
  <2> QED BY <1>1, <1>9, <2>1, <2>2 DEF EngineInv, ClockType, UpdateHealth, data
<1>10. CASE UNCHANGED vars
  <2>1. UNCHANGED data /\ now' = now BY <1>10 DEF vars, data
  <2>2. DataInv' BY <1>2, <1>3, <2>1
  <2> QED BY <1>1, <1>10, <2>2 DEF EngineInv, ClockType, vars
<1> QED BY <1>4, <1>5, <1>6, <1>7, <1>8, <1>9, <1>10 DEF Next

(* The invariant of engine/live.py's on_bar_1m and of core/ring.py's append. *)
THEOREM EngineKeepsIt == Spec => []EngineInv
<1> QED BY InitHolds, NextHolds, PTL DEF Spec

-----------------------------------------------------------------------------
(* What the invariant says of the properties. *)

(* The bars fed open on their grid because their last minute ends it. *)
LEMMA InvGivesTypes == EngineInv => TypeOK
<1> SUFFICES ASSUME EngineInv PROVE TypeOK OBVIOUS
<1>1. ClockType /\ DataInv BY DEF EngineInv
<1>2. MaxNow \in Nat /\ now \in 0..MaxNow BY <1>1, TfsAssumption DEF ClockType
<1>3. tape \subseteq 0..now /\ tape \subseteq Nat BY <1>1, <1>2 DEF DataInv
<1>4. tape \subseteq 0..MaxNow BY <1>2, <1>3
<1>5. ASSUME NEW tf \in Tfs, NEW k \in DOMAIN fed[tf]
      PROVE  LET b == fed[tf][k] IN b.ts \in 0..MaxNow /\ b.ts % tf = 0 /\ b.gap \in BOOLEAN
  <2> DEFINE b == fed[tf][k]
  <2>1. fed[tf] \in Seq(Bars) /\ ToSet(fed[tf]) = ClosedBars(tape, tf)
    BY <1>1 DEF DataInv, FedInOrder
  <2>2. b \in ClosedBars(tape, tf) BY <2>1 DEF ToSet
  <2> HIDE DEF b
  <2>3. ClosedBars(tape, tf) = {PeriodBar(tape, x, tf) : x \in {y \in tape : (y + 1) % tf = 0}}
    BY <1>3, ClosedAre
  <2>4. PICK x \in tape : (x + 1) % tf = 0 /\ b = PeriodBar(tape, x, tf) BY <2>2, <2>3
  <2>5. x \in Nat /\ x <= MaxNow BY <1>2, <1>3
  <2>6. b \in Bars /\ b.ts = x + 1 - tf /\ x + 1 - tf \in Nat /\ (x + 1 - tf) % tf = 0
    BY <1>3, <2>4, <2>5, PeriodBarType
  <2>7. tf \in Nat /\ tf >= 1 BY TfsAssumption
  <2>8. x + 1 - tf <= MaxNow BY <1>2, <2>5, <2>7
  <2>9. b.ts \in 0..MaxNow /\ b.ts % tf = 0 BY <1>2, <2>6, <2>8
  <2>10. b.gap \in BOOLEAN BY <2>6 DEF Bars
  <2> QED BY <2>9, <2>10 DEF b
<1>6. DOMAIN rings = Tfs \cup {1} /\ DOMAIN fed = Tfs BY <1>1 DEF DataInv
<1> QED BY <1>1, <1>4, <1>5, <1>6 DEF TypeOK, ClockType

(* FedInOrder is FedIsResample of one timeframe. *)
LEMMA InvGivesFed == EngineInv => FedIsResample
<1> SUFFICES ASSUME EngineInv, NEW tf \in Tfs PROVE FedInOrder(fed[tf], tape, tf)
  BY DEF FedInOrder, ClosedBars, FedIsResample
<1> QED BY DEF EngineInv, DataInv

(* A ring that holds a series shows the end of it. *)
LEMMA HoldsIsTail ==
  ASSUME NEW s \in Seq(Bars), NEW r, NEW step \in Int, Holds(r, s, step)
  PROVE  Window(r, Capacity, step) = Newest([k \in DOMAIN s |-> Flagged(s, k, step)], Size(r))
<1> DEFINE n == Len(s)
           size == Size(r)
           F == [k \in DOMAIN s |-> Flagged(s, k, step)]
           w == Window(r, Capacity, step)
           o == (n - size) + 1
           v == SubSeq(F, o, n)
<1>1. n \in Nat /\ r.n = n /\ DOMAIN s = 1..n BY LenProperties DEF Holds
<1>2. (IF Capacity < size THEN Capacity ELSE size) = size
  BY <1>1, CapacityAssumption DEF Size
<1>3. size \in 0..n /\ w = [j \in 1..size |-> Flagged(s, (n - size) + j, step)]
  <2> HIDE DEF w, size
  <2>1. w = Window(r, Capacity, step) /\ size = Size(r) BY DEF w, size
  <2>2. Capacity \in Nat BY CapacityAssumption
  <2> QED BY <1>2, <2>1, <2>2, WindowHolds
<1>4. \A k \in 1..n : F[k] = Flagged(s, k, step) /\ F[k] \in Bars BY <1>1, FlaggedType
<1> HIDE DEF size, F
<1>5. F \in Seq(Bars) /\ Len(F) = n
  <2>1. DOMAIN F = 1..n /\ F = [k \in 1..n |-> F[k]] BY <1>1 DEF F
  <2> HIDE DEF n
  <2>2. F \in [1..n -> Bars] BY <1>4, <2>1
  <2>3. F \in Seq(Bars) BY <1>1, <2>2
  <2> QED BY <1>1, <2>1, <2>3, LenProperties
<1>6. o \in Int /\ n \in Int /\ \A i \in o..n : F[i] \in Bars BY <1>1, <1>3, <1>4
<1>7. v \in Seq(Bars) /\ Len(v) = (IF o <= n THEN (n - o) + 1 ELSE 0)
      /\ \A i \in 1..((n - o) + 1) : v[i] = F[o + i - 1]
  <2> HIDE DEF o, n
  <2> QED BY <1>6, SubSeqProperties
<1>8. (n - o) + 1 = size /\ Len(v) = size
  <2>1. n \in Int /\ size \in Int /\ size >= 0 BY <1>1, <1>3
  <2>2. o = (n - size) + 1 OBVIOUS
  <2>3. (n - o) + 1 = size /\ (o <= n <=> size >= 1) BY <2>1
  <2> HIDE DEF o, n, v
  <2> QED BY <1>7, <2>1, <2>3
<1>9. ASSUME NEW j \in 1..size PROVE v[j] = Flagged(s, (n - size) + j, step)
  <2>1. v[j] = F[o + j - 1] BY <1>7, <1>8
  <2>2. o + j - 1 = (n - size) + j /\ (n - size) + j \in 1..n BY <1>1, <1>3
  <2> QED BY <1>4, <2>1, <2>2
<1>10. v = [j \in 1..size |-> v[j]]
  <2> HIDE DEF v
  <2> QED BY <1>7, <1>8, LenProperties
<1>11. v = w
  <2> HIDE DEF v, n, w
  <2> QED BY <1>3, <1>9, <1>10
<1>12. Newest(F, size) = v BY <1>5 DEF Newest
<1> QED BY <1>11, <1>12 DEF F, size

(* And Holds gives the tail of every ring. *)
LEMMA InvGivesTails == EngineInv => RingsAreTails
<1> SUFFICES ASSUME EngineInv, NEW tf \in DOMAIN rings
             PROVE  Window(rings[tf], Capacity, tf) = Newest(Series(tf), Size(rings[tf]))
  BY DEF RingsAreTails
<1>1. ClockType /\ DataInv BY DEF EngineInv
<1>2. tape \subseteq Nat /\ IsFiniteSet(tape) /\ Enumerated(tape)
  BY <1>1, TapeType DEF DataInv
<1> DEFINE s == IF tf = 1 THEN Ticks(InOrder(tape)) ELSE fed[tf]
<1>3. s \in Seq(Bars) /\ Holds(rings[tf], s, tf) /\ tf \in Int
  <2>1. CASE tf = 1
    <3>1. InOrder(tape) \in Seq(Nat) BY <1>2, InOrderType
    <3>2. Ticks(InOrder(tape)) \in Seq(Bars) BY <3>1, TicksAppend
    <3> QED BY <1>1, <2>1, <3>2 DEF DataInv
  <2>2. CASE tf # 1
    <3>1. tf \in Tfs /\ tf \in Int BY <1>1, <2>2, TfsAssumption DEF DataInv
    <3> QED BY <1>1, <2>2, <3>1 DEF DataInv
  <2> QED BY <2>1, <2>2
<1>4. Series(tf) = [k \in DOMAIN s |-> Flagged(s, k, tf)]
  BY DEF Series, Ticks, Flagged
<1> HIDE DEF s
<1>5. Window(rings[tf], Capacity, tf)
        = Newest([k \in DOMAIN s |-> Flagged(s, k, tf)], Size(rings[tf]))
  BY <1>3, HoldsIsTail
<1> QED BY <1>4, <1>5

(* Every bar handed to a detector opens on the grid of its timeframe, at a
   minute of the past. *)
THEOREM EngineTypes == Spec => []TypeOK
<1> QED BY EngineKeepsIt, InvGivesTypes, PTL

(* What _close_htf hands to the detectors is the offline resampling of the
   whole tape, for any tape: no hole, duplicate or late start makes a bar of
   other minutes or with another coverage flag. *)
THEOREM FedAreResampled == Spec => []FedIsResample
<1> QED BY EngineKeepsIt, InvGivesFed, PTL

(* window() of a ring that overwrites its oldest bars is the end of the series
   as if nothing had ever been overwritten, the gap of its first bar included. *)
THEOREM RingsShowTheTail == Spec => []RingsAreTails
<1> QED BY EngineKeepsIt, InvGivesTails, PTL
=============================================================================
