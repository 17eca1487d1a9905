---------------------------- MODULE AssayProofs ----------------------------
(***************************************************************************)
(* What holds of the assay for every history, every strategy and every     *)
(* value of the constants.                                                 *)
(*                                                                         *)
(* The length of it is the catalogue's: that no strategy goes back on what *)
(* it said is a property of each of them, so there is a lemma for each     *)
(* kind.  A rule that reads a bar, or some bars before it, reads the same  *)
(* when one arrives.  A rule that loops over the bars carries the same from*)
(* bar to bar, by induction on them; a lemma says first that the loop, a   *)
(* recursive function, has a result.  The user's rules are evaluated       *)
(* operands first, by induction on the places.  The sections at the end    *)
(* prove the theorems: the history, positions that persist, the scan of    *)
(* effective_n, and the signals that stand.                                *)
(***************************************************************************)
EXTENDS Assay, FiniteSetTheorems, SequenceTheorems, WellFoundedInduction, TLAPS

(* A set of naturals has a least one. *)
LEMMA HasLeast ==
  ASSUME NEW S \in SUBSET Nat, S # {}
  PROVE  Min(S) \in S /\ \A y \in S : Min(S) <= y
<1> DEFINE R == OpToRel(<, Nat)
<1>1. IsWellFoundedOn(R, Nat) BY NatLessThanWellFounded
<1>2. \A a, b \in Nat : a < b => <<a, b>> \in R BY DEF OpToRel
<1> HIDE DEF R
<1>3. PICK x \in S : \A y \in S : ~(<<y, x>> \in R) BY <1>1, WFMin, Zenon
<1>4. \A y \in S : ~(y < x) BY <1>2, <1>3, Zenon
<1>5. \E z \in S : \A y \in S : z <= y BY <1>4
<1> QED BY <1>5 DEF Min

(* A bounded one has a greatest: the least seen from above. *)
LEMMA HasGreatest ==
  ASSUME NEW n \in Nat, NEW S \in SUBSET (0..n), S # {}
  PROVE  Max(S) \in S /\ \A y \in S : y <= Max(S)
<1> DEFINE T == {n - x : x \in S}
<1>1. \A x \in S : x \in Int /\ n - x \in Nat OBVIOUS
<1>2. PICK x \in S : \A z \in T : n - x <= z
  <2>1. T \in SUBSET Nat /\ T # {} BY <1>1
  <2>2. Min(T) \in T /\ \A z \in T : Min(T) <= z
    <3> HIDE DEF T
    <3> QED BY <2>1, HasLeast
  <2>3. PICK x \in S : Min(T) = n - x BY <2>2
  <2> QED BY <2>2, <2>3
<1>3. ASSUME NEW y \in S PROVE y <= x
  <2>1. n - x <= n - y BY <1>2
  <2> QED BY <1>1, <2>1
<1> QED BY <1>3 DEF Max

(* The last place of a set of places, 0 when there is none. *)
LEMMA LastPlace ==
  ASSUME NEW n \in Nat, NEW S \in SUBSET (1..n)
  PROVE  /\ Max({0} \cup S) \in {0} \cup S
         /\ \A y \in S : y <= Max({0} \cup S)
<1>1. {0} \cup S \in SUBSET (0..n) /\ {0} \cup S # {} OBVIOUS
<1> DEFINE Z == {0} \cup S
<1>2. Z \in SUBSET (0..n) /\ Z # {} BY <1>1
<1> HIDE DEF Z
<1>3. Max(Z) \in Z /\ \A y \in Z : y <= Max(Z) BY <1>2, HasGreatest
<1> QED BY <1>3 DEF Z

-----------------------------------------------------------------------------
(* The series g goes on from the series f, which has n bars, by one bar. *)
Stands(n, f, g) ==
    /\ DOMAIN f = 1..n /\ DOMAIN g = 1..(n + 1)
    /\ \A i \in 1..n : g[i] = f[i]

(* The history t is the history r and one bar more. *)
Grown(r, t) ==
    /\ Len(r) \in Nat /\ Len(t) = Len(r) + 1
    /\ Stands(Len(r), r, t)

(* A bar of the shorter history is the same bar of the longer one.         *)
LEMMA Same ==
  ASSUME NEW r, NEW t, Grown(r, t), NEW i \in DOMAIN r
  PROVE  /\ i \in DOMAIN t /\ t[i] = r[i]
         /\ i \in Nat /\ 1 <= i /\ i <= Len(r) /\ Len(r) \in Nat
BY DEF Grown, Stands

(* Nor do the bars before it change. *)
LEMMA SameBefore ==
  ASSUME NEW r, NEW t, Grown(r, t), NEW i \in DOMAIN r, NEW j \in 1..i
  PROVE  j \in DOMAIN r /\ j \in DOMAIN t /\ t[j] = r[j]
BY DEF Grown, Stands

(* A time in bars of the program is a number of bars of the model.         *)
LEMMA SpanIsNat ==
  ASSUME NEW k \in Nat
  PROVE  Span(k) \in Nat /\ (k > 0 => Span(k) > 0)
BY LengthsAssumption DEF Span

(* Nor does a reading some bars back (trend.py, _lag).                     *)
LEMMA SameLag ==
  ASSUME NEW r, NEW t, Grown(r, t), NEW i \in DOMAIN r, NEW k \in Nat, NEW c
  PROVE  Lag(t, c, k, i) = Lag(r, c, k, i)
<1>1. Span(k) \in Nat BY SpanIsNat
<1>2. i \in 1..Len(r) /\ Len(r) \in Nat BY DEF Grown, Stands
<1>3. CASE i > Span(k)
  <2>1. i - Span(k) \in 1..Len(r) BY <1>1, <1>2, <1>3
  <2>2. t[i - Span(k)] = r[i - Span(k)] BY <2>1 DEF Grown, Stands
  <2> QED BY <2>2, <1>3 DEF Lag
<1>4. CASE ~(i > Span(k)) BY <1>4 DEF Lag
<1> QED BY <1>3, <1>4

(* More bars of the model, no fewer of the program's: by a difference.     *)
LEMMA TimesGrows ==
  ASSUME NEW a \in Nat, NEW d \in Nat, NEW b \in Nat
  PROVE  a * b \in Nat /\ a * b <= (a + d) * b
<1>1. (a + d) * b = a * b + d * b OBVIOUS
<1>2. a * b \in Nat /\ d * b \in Nat OBVIOUS
<1> QED BY <1>1, <1>2

(* More bars, more of the program's. *)
LEMMA TimesMonotone ==
  ASSUME NEW a \in Nat, NEW c \in Nat, a <= c, NEW b \in Nat
  PROVE  a * b \in Nat /\ c * b \in Nat /\ a * b <= c * b
<1>1. PICK d \in Nat : c = a + d
  <2>1. c - a \in Nat /\ c = a + (c - a) OBVIOUS
  <2> QED BY <2>1
<1> QED BY <1>1, TimesGrows

(* A bar is masked by the warm-up, or neither history is refused.          *)
LEMMA MaskedOrLong ==
  ASSUME NEW r, NEW t, Grown(r, t), NEW i \in DOMAIN r,
         NEW bars \in Nat, NEW warm \in Nat, bars <= warm
  PROVE  \/ i * BarsPerStep <= warm
         \/ ~Shorter(r, bars) /\ ~Shorter(t, bars)
<1>1. i \in Nat /\ Len(r) \in Nat /\ i <= Len(r) /\ Len(t) = Len(r) + 1 /\ Len(t) \in Nat
  BY DEF Grown, Stands
<1>2. BarsPerStep \in Nat BY LengthsAssumption
<1>3. /\ i * BarsPerStep \in Nat /\ Len(r) * BarsPerStep \in Nat
      /\ i * BarsPerStep <= Len(r) * BarsPerStep
  BY <1>1, <1>2, TimesMonotone
<1>4. Len(t) * BarsPerStep \in Nat /\ Len(r) * BarsPerStep <= Len(t) * BarsPerStep
  BY <1>1, <1>2, TimesMonotone
<1> QED BY <1>3, <1>4 DEF Shorter

(* flow.py, _hold: events held for so many bars stand when the events do.  *)
LEMMA HoldForStands ==
  ASSUME NEW n \in Nat, NEW f, NEW g, NEW bars, Stands(n, f, g)
  PROVE  Stands(n, HoldFor(f, bars), HoldFor(g, bars))
<1>1. DOMAIN HoldFor(f, bars) = 1..n /\ DOMAIN HoldFor(g, bars) = 1..(n + 1)
  BY DEF HoldFor, Stands
<1>2. ASSUME NEW i \in 1..n PROVE HoldFor(g, bars)[i] = HoldFor(f, bars)[i]
  <2> DEFINE F == {j \in 1..i : f[j] # 0}
             G == {j \in 1..i : g[j] # 0}
  <2>1. F = G BY DEF Stands
  <2>2. F \in SUBSET (1..i) OBVIOUS
  <2>3. i \in DOMAIN f /\ i \in DOMAIN g BY DEF Stands
  <2>4. HoldFor(f, bars)[i] = IF Max({0} \cup F) = 0 \/ i - Max({0} \cup F) >= Span(bars)
                              THEN 0 ELSE f[Max({0} \cup F)]
    BY <2>3, Zenon DEF HoldFor, LastWhere
  <2>5. HoldFor(g, bars)[i] = IF Max({0} \cup G) = 0 \/ i - Max({0} \cup G) >= Span(bars)
                              THEN 0 ELSE g[Max({0} \cup G)]
    BY <2>3, Zenon DEF HoldFor, LastWhere
  <2> HIDE DEF F, G
  <2>6. i \in Nat /\ Max({0} \cup F) \in {0} \cup F
    <3>1. i \in Nat BY <1>2
    <3> QED BY <2>2, <3>1, LastPlace
  <2>7. Max({0} \cup F) # 0 => g[Max({0} \cup F)] = f[Max({0} \cup F)]
    <3> DEFINE m == Max({0} \cup F)
    <3>1. m # 0 => m \in 1..i BY <2>2, <2>6
    <3> HIDE DEF m
    <3>2. m # 0 => g[m] = f[m] BY <1>2, <2>6, <3>1 DEF Stands
    <3> QED BY <3>2 DEF m
  <2> QED BY <2>1, <2>4, <2>5, <2>7
<1> QED BY <1>1, <1>2 DEF Stands

(* structure.py, _hold: events held on until the next stand when the events*)
(* do.                                                                     *)
LEMMA HoldOnStands ==
  ASSUME NEW n \in Nat, NEW f, NEW g, Stands(n, f, g)
  PROVE  Stands(n, HoldOn(f), HoldOn(g))
<1>1. DOMAIN HoldOn(f) = 1..n /\ DOMAIN HoldOn(g) = 1..(n + 1) BY DEF HoldOn, Stands
<1>2. ASSUME NEW i \in 1..n PROVE HoldOn(g)[i] = HoldOn(f)[i]
  <2> DEFINE F == {j \in 1..i : f[j] # 0}
             G == {j \in 1..i : g[j] # 0}
  <2>1. F = G BY DEF Stands
  <2>2. F \in SUBSET (1..i) OBVIOUS
  <2>3. i \in DOMAIN f /\ i \in DOMAIN g BY DEF Stands
  <2>4. HoldOn(f)[i] = IF Max({0} \cup F) = 0 THEN 0 ELSE f[Max({0} \cup F)]
    BY <2>3, Zenon DEF HoldOn, LastWhere
  <2>5. HoldOn(g)[i] = IF Max({0} \cup G) = 0 THEN 0 ELSE g[Max({0} \cup G)]
    BY <2>3, Zenon DEF HoldOn, LastWhere
  <2> HIDE DEF F, G
  <2>6. i \in Nat /\ Max({0} \cup F) \in {0} \cup F
    <3>1. i \in Nat BY <1>2
    <3> QED BY <2>2, <3>1, LastPlace
  <2>7. Max({0} \cup F) # 0 => g[Max({0} \cup F)] = f[Max({0} \cup F)]
    <3> DEFINE m == Max({0} \cup F)
    <3>1. m # 0 => m \in 1..i BY <2>2, <2>6
    <3> HIDE DEF m
    <3>2. m # 0 => g[m] = f[m] BY <1>2, <2>6, <3>1 DEF Stands
    <3> QED BY <3>2 DEF m
  <2> QED BY <2>1, <2>4, <2>5, <2>7
<1> QED BY <1>1, <1>2 DEF Stands

(* What holds up to a bar holds there whether or not bars follow: the      *)
(* rules that hold their events.                                           *)
LEMMA HeldRule ==
  ASSUME NEW r, NEW t, Grown(r, t), NEW i \in DOMAIN r,
         NEW bars \in Nat, NEW warm \in Nat, bars <= warm, NEW f, NEW g,
         ~Shorter(r, bars) /\ ~Shorter(t, bars) => Stands(Len(r), f, g)
  PROVE  Warm(warm, IfLong(t, bars, g))[i] = Warm(warm, IfLong(r, bars, f))[i]
<1>1. i \in DOMAIN r /\ i \in DOMAIN t /\ i \in 1..Len(r) BY Same
<1>2. CASE i * BarsPerStep <= warm BY <1>1, <1>2, Zenon DEF Warm, IfLong
<1>3. CASE ~Shorter(r, bars) /\ ~Shorter(t, bars)
  <2>1. g[i] = f[i] BY <1>1, <1>3 DEF Stands
  <2> QED BY <1>1, <2>1, <1>3, Zenon DEF Warm, IfLong
<1> QED BY <1>2, <1>3, MaskedOrLong

(* The same for a rule that holds its events for so many bars.             *)
LEMMA HeldForRule ==
  ASSUME NEW r, NEW t, Grown(r, t), NEW i \in DOMAIN r, NEW k,
         NEW bars \in Nat, NEW warm \in Nat, bars <= warm, NEW f, NEW g,
         ~Shorter(r, bars) /\ ~Shorter(t, bars) => Stands(Len(r), f, g)
  PROVE  Warm(warm, IfLong(t, bars, HoldFor(g, k)))[i]
           = Warm(warm, IfLong(r, bars, HoldFor(f, k)))[i]
<1>1. Len(r) \in Nat BY DEF Grown
<1>2. ~Shorter(r, bars) /\ ~Shorter(t, bars) => Stands(Len(r), HoldFor(f, k), HoldFor(g, k))
  BY <1>1, HoldForStands
<1> DEFINE a == HoldFor(f, k)
           b == HoldFor(g, k)
<1>3. ~Shorter(r, bars) /\ ~Shorter(t, bars) => Stands(Len(r), a, b) BY <1>2
<1> HIDE DEF a, b
<1>4. Warm(warm, IfLong(t, bars, b))[i] = Warm(warm, IfLong(r, bars, a))[i] BY <1>3, HeldRule, SMTT(40)
<1> QED BY <1>4, Zenon DEF a, b

(* The same for a rule that holds its events on until the next.            *)
LEMMA HeldOnRule ==
  ASSUME NEW r, NEW t, Grown(r, t), NEW i \in DOMAIN r,
         NEW bars \in Nat, NEW warm \in Nat, bars <= warm, NEW f, NEW g,
         ~Shorter(r, bars) /\ ~Shorter(t, bars) => Stands(Len(r), f, g)
  PROVE  Warm(warm, IfLong(t, bars, HoldOn(g)))[i] = Warm(warm, IfLong(r, bars, HoldOn(f)))[i]
<1>1. Len(r) \in Nat BY DEF Grown
<1>2. ~Shorter(r, bars) /\ ~Shorter(t, bars) => Stands(Len(r), HoldOn(f), HoldOn(g))
  BY <1>1, HoldOnStands
<1> QED BY <1>2, HeldRule

(* A history long enough for one guard is long enough for a weaker one.    *)
LEMMA LongEnough ==
  ASSUME NEW r, NEW t, Grown(r, t), NEW bars \in Nat, ~Shorter(r, bars),
         NEW fewer \in Nat, fewer <= bars
  PROVE  ~Shorter(r, fewer) /\ ~Shorter(t, fewer)
<1>1. Len(r) \in Nat /\ Len(t) \in Nat /\ Len(r) <= Len(t) BY DEF Grown
<1>2. BarsPerStep \in Nat BY LengthsAssumption
<1>3. /\ Len(r) * BarsPerStep \in Nat /\ Len(t) * BarsPerStep \in Nat
      /\ Len(r) * BarsPerStep <= Len(t) * BarsPerStep
  BY <1>1, <1>2, TimesMonotone
<1> QED BY <1>3 DEF Shorter

-----------------------------------------------------------------------------
(* trend.py: the rules that compare columns of one bar, or of a bar some   *)
(* way back, say what they said.                                           *)
LEMMA TrendRules ==
  ASSUME NEW r, NEW t, Grown(r, t), NEW i \in DOMAIN r
  PROVE  /\ EmaCross(t)[i] = EmaCross(r)[i]
         /\ EmaStack(t)[i] = EmaStack(r)[i]
         /\ Ema200Filter(t)[i] = Ema200Filter(r)[i]
         /\ Macd(t)[i] = Macd(r)[i]
         /\ AdxDmi(t)[i] = AdxDmi(r)[i]
         /\ Psar(t)[i] = Psar(r)[i]
         /\ LinregSlope(t)[i] = LinregSlope(r)[i]
         /\ Ichimoku(t)[i] = Ichimoku(r)[i]
         /\ Aroon(t)[i] = Aroon(r)[i]
         /\ Tsmom365(t)[i] = Tsmom365(r)[i]
<1>0. i \in DOMAIN r /\ i \in DOMAIN t /\ t[i] = r[i] BY Same
<1> USE <1>0, Zenon DEF Warm, Mark
<1>1. EmaCross(t)[i] = EmaCross(r)[i] BY DEF EmaCross, Versus, Always
<1>2. EmaStack(t)[i] = EmaStack(r)[i] BY DEF EmaStack
<1>3. Ema200Filter(t)[i] = Ema200Filter(r)[i] BY DEF Ema200Filter, Versus, Always
<1>4. Macd(t)[i] = Macd(r)[i] BY DEF Macd, Versus, Always
<1>5. AdxDmi(t)[i] = AdxDmi(r)[i] BY DEF AdxDmi, Versus
<1>6. Psar(t)[i] = Psar(r)[i] BY DEF Psar, Versus, Always
<1>7. LinregSlope(t)[i] = LinregSlope(r)[i] BY DEF LinregSlope
<1>8. Lag(t, 4, 26, i) = Lag(r, 4, 26, i) /\ Lag(t, 5, 26, i) = Lag(r, 5, 26, i)
  BY SameLag, SMT
<1>9. Ichimoku(t)[i] = Ichimoku(r)[i] BY <1>8 DEF Ichimoku
<1>10. Aroon(t)[i] = Aroon(r)[i] BY DEF Aroon
<1>11. Lag(t, 1, 365, i) = Lag(r, 1, 365, i) BY SameLag, SMT
<1>12. Tsmom365(t)[i] = Tsmom365(r)[i] BY <1>11, ZenonT(40) DEF Tsmom365
<1> QED BY <1>1, <1>2, <1>3, <1>4, <1>5, <1>6, <1>7, <1>9, <1>10, <1>12

-----------------------------------------------------------------------------
(* momentum.py: so do its rules on rates of change, slopes and efficiency. *)
LEMMA MomentumRules ==
  ASSUME NEW r, NEW t, Grown(r, t), NEW i \in DOMAIN r
  PROVE  /\ Tsmom12m1(t)[i] = Tsmom12m1(r)[i]
         /\ TsmomConsensus(t)[i] = TsmomConsensus(r)[i]
         /\ RocShort(t)[i] = RocShort(r)[i]
         /\ RocTermStructure(t)[i] = RocTermStructure(r)[i]
         /\ AoSign(t)[i] = AoSign(r)[i]
         /\ LinregAcceleration(t)[i] = LinregAcceleration(r)[i]
         /\ SignPersistence(t)[i] = SignPersistence(r)[i]
         /\ ErFiltered(t)[i] = ErFiltered(r)[i]
         /\ KamaCross(t)[i] = KamaCross(r)[i]
         /\ MomentumWithVolume(t)[i] = MomentumWithVolume(r)[i]
<1>1. i \in DOMAIN r /\ i \in DOMAIN t /\ t[i] = r[i] BY Same
<1>2. \A bars \in {11, 12, 21, 22, 35, 42} :
        i * BarsPerStep <= 200 \/ (~Shorter(r, bars) /\ ~Shorter(t, bars))
  BY MaskedOrLong, SMT
<1>3. i * BarsPerStep <= 240 \/ (~Shorter(r, 181) /\ ~Shorter(t, 181)) BY MaskedOrLong, SMT
<1>4. i * BarsPerStep <= 420 \/ (~Shorter(r, 391) /\ ~Shorter(t, 391)) BY MaskedOrLong, SMT
<1>5. /\ Lag(t, 1, 30, i) = Lag(r, 1, 30, i) /\ Lag(t, 1, 360, i) = Lag(r, 1, 360, i)
      /\ Lag(t, 1, 20, i) = Lag(r, 1, 20, i)
  BY SameLag, SMT
<1> USE <1>1, Zenon DEF Warm, IfLong, Mark, Sign, Versus, Always
<1>6. Tsmom12m1(t)[i] = Tsmom12m1(r)[i] BY <1>4, <1>5, ZenonT(40) DEF Tsmom12m1
<1>7. TsmomConsensus(t)[i] = TsmomConsensus(r)[i] BY <1>3 DEF TsmomConsensus
<1>8. RocShort(t)[i] = RocShort(r)[i] BY <1>2 DEF RocShort
<1>9. RocTermStructure(t)[i] = RocTermStructure(r)[i] BY <1>2 DEF RocTermStructure
<1>10. AoSign(t)[i] = AoSign(r)[i] BY <1>2 DEF AoSign
<1>11. LinregAcceleration(t)[i] = LinregAcceleration(r)[i]
  BY <1>2, <1>5 DEF LinregAcceleration
<1>12. SignPersistence(t)[i] = SignPersistence(r)[i] BY <1>2 DEF SignPersistence
<1>13. ErFiltered(t)[i] = ErFiltered(r)[i] BY <1>2 DEF ErFiltered
<1>14. KamaCross(t)[i] = KamaCross(r)[i] BY <1>2 DEF KamaCross
<1>15. MomentumWithVolume(t)[i] = MomentumWithVolume(r)[i] BY <1>2 DEF MomentumWithVolume
<1> QED BY <1>6, <1>7, <1>8, <1>9, <1>10, <1>11, <1>12, <1>13, <1>14, <1>15

-----------------------------------------------------------------------------
(* mean_reversion.py: so do the fades of bands, oscillators and streaks.   *)
LEMMA ReversionRules ==
  ASSUME NEW r, NEW t, Grown(r, t), NEW i \in DOMAIN r
  PROVE  /\ BbFade(t)[i] = BbFade(r)[i]
         /\ BbRangeAdx(t)[i] = BbRangeAdx(r)[i]
         /\ KeltnerFade(t)[i] = KeltnerFade(r)[i]
         /\ RsiFixed(t)[i] = RsiFixed(r)[i]
         /\ RsiCardwell(t)[i] = RsiCardwell(r)[i]
         /\ WillrFade(t)[i] = WillrFade(r)[i]
         /\ CciFade(t)[i] = CciFade(r)[i]
         /\ StretchEma200(t)[i] = StretchEma200(r)[i]
         /\ BbVolumeClimax(t)[i] = BbVolumeClimax(r)[i]
         /\ SweepRejection(t)[i] = SweepRejection(r)[i]
         /\ Streak3(t)[i] = Streak3(r)[i]
<1>1. i \in DOMAIN r /\ i \in DOMAIN t /\ t[i] = r[i] BY Same
<1>2. Lag(t, 3, 1, i) = Lag(r, 3, 1, i) /\ Lag(t, 4, 1, i) = Lag(r, 4, 1, i) BY SameLag, SMT
<1>3. ASSUME NEW k \in 0..3
      PROVE  (IF i > k THEN t[i - k][1] ELSE NaN) = (IF i > k THEN r[i - k][1] ELSE NaN)
  <2>1. i \in Nat /\ i \in DOMAIN r BY Same
  <2>2. i > k => i - k \in 1..i BY <2>1
  <2> QED BY <2>1, <2>2, SameBefore
<1>4. \A k \in 0..2 :
        /\ (IF i > k THEN t[i - k][1] ELSE NaN) = (IF i > k THEN r[i - k][1] ELSE NaN)
        /\ (IF i > k + 1 THEN t[i - (k + 1)][1] ELSE NaN)
             = (IF i > k + 1 THEN r[i - (k + 1)][1] ELSE NaN)
  BY <1>3
<1> USE <1>1, Zenon DEF Warm, Mark, Outside, Extremes, Always
<1>5. BbFade(t)[i] = BbFade(r)[i] BY DEF BbFade
<1>6. BbRangeAdx(t)[i] = BbRangeAdx(r)[i] BY DEF BbRangeAdx
<1>7. KeltnerFade(t)[i] = KeltnerFade(r)[i] BY DEF KeltnerFade
<1>8. RsiFixed(t)[i] = RsiFixed(r)[i] BY DEF RsiFixed
<1>9. RsiCardwell(t)[i] = RsiCardwell(r)[i] BY DEF RsiCardwell
<1>10. WillrFade(t)[i] = WillrFade(r)[i] BY DEF WillrFade
<1>11. CciFade(t)[i] = CciFade(r)[i] BY DEF CciFade
<1>12. StretchEma200(t)[i] = StretchEma200(r)[i] BY DEF StretchEma200
<1>13. BbVolumeClimax(t)[i] = BbVolumeClimax(r)[i] BY DEF BbVolumeClimax
<1>14. SweepRejection(t)[i] = SweepRejection(r)[i] BY <1>2 DEF SweepRejection
<1>15. Streak3(t)[i] = Streak3(r)[i] BY <1>4 DEF Streak3
<1> QED BY <1>5, <1>6, <1>7, <1>8, <1>9, <1>10, <1>11, <1>12, <1>13, <1>14, <1>15

-----------------------------------------------------------------------------
(* volatility.py, _rolling_rank: the rank of a bar among those before it   *)
(* stays.                                                                  *)
LEMMA SameRank ==
  ASSUME NEW r, NEW t, Grown(r, t), NEW i \in DOMAIN r, NEW bars \in Nat \ {0}, NEW k
  PROVE  Rank(t, k, bars, i) = Rank(r, k, bars, i)
<1>1. Span(bars) \in Nat \ {0} BY SpanIsNat
<1>2. i \in Nat /\ i \in DOMAIN r BY Same
<1> DEFINE window == (i - Span(bars) + 1)..i
<1>3. CASE i < Span(bars) BY <1>3, Zenon DEF Rank
<1>4. CASE ~(i < Span(bars))
  <2>1. \A j \in window : t[j] = r[j]
    <3>1. \A j \in window : j \in 1..i BY <1>1, <1>2, <1>4
    <3> QED BY <3>1, SameBefore
  <2>2. i \in window BY <1>1, <1>2, <1>4
  <2> HIDE DEF window
  <2>3. {j \in window : t[j][k] < t[i][k]} = {j \in window : r[j][k] < r[i][k]}
    BY <2>1, <2>2, Zenon
  <2>4. (\E j \in window : ~Defined(t[j][k])) <=> (\E j \in window : ~Defined(r[j][k]))
    BY <2>1, Zenon
  <2> QED BY <2>3, <2>4, Zenon DEF Rank, window
<1> QED BY <1>3, <1>4

(* volatility.py: so do its states of range and volatility, and its        *)
(* breakouts.                                                              *)
LEMMA VolatilityRules ==
  ASSUME NEW r, NEW t, Grown(r, t), NEW i \in DOMAIN r
  PROVE  /\ RsLowCarry(t)[i] = RsLowCarry(r)[i]
         /\ BbwLowCarry(t)[i] = BbwLowCarry(r)[i]
         /\ RsHighFade(t)[i] = RsHighFade(r)[i]
         /\ RsHighCarry(t)[i] = RsHighCarry(r)[i]
         /\ Nr7Breakout(t)[i] = Nr7Breakout(r)[i]
         /\ InsideBarBreakout(t)[i] = InsideBarBreakout(r)[i]
         /\ WideRangeThrust(t)[i] = WideRangeThrust(r)[i]
         /\ NatrLow(t)[i] = NatrLow(r)[i]
         /\ NatrHigh(t)[i] = NatrHigh(r)[i]
         /\ Ema55Side(t)[i] = Ema55Side(r)[i]
<1>1. i \in DOMAIN r /\ i \in DOMAIN t /\ t[i] = r[i] BY Same
<1>2. Rank(t, 2, 252, i) = Rank(r, 2, 252, i) /\ Rank(t, 3, 252, i) = Rank(r, 3, 252, i)
  BY SameRank, SMT
<1>3. /\ Lag(t, 1, 3, i) = Lag(r, 1, 3, i)
      /\ \A c \in 2..4 : \A k \in 1..2 : Lag(t, c, k, i) = Lag(r, c, k, i)
  BY SameLag, SMT
<1>4. /\ Lag(t, 2, 1, i) = Lag(r, 2, 1, i) /\ Lag(t, 2, 2, i) = Lag(r, 2, 2, i)
      /\ Lag(t, 3, 1, i) = Lag(r, 3, 1, i) /\ Lag(t, 3, 2, i) = Lag(r, 3, 2, i)
      /\ Lag(t, 4, 1, i) = Lag(r, 4, 1, i)
  BY <1>3
<1>5. i > 1 => Rank(t, 5, 100, i - 1) = Rank(r, 5, 100, i - 1)
  <2>1. i \in Nat /\ Len(r) \in Nat /\ DOMAIN r = 1..Len(r) BY Same DEF Grown, Stands
  <2>2. i > 1 => i - 1 \in DOMAIN r BY <2>1
  <2> QED BY <2>2, SameRank
<1>ranks. \A num, den : RankBelow(t, 3, 252, i, num, den) <=> RankBelow(r, 3, 252, i, num, den)
  BY <1>2, Zenon DEF RankBelow
<1>above. \A num, den : RankAbove(t, 2, 252, i, num, den) <=> RankAbove(r, 2, 252, i, num, den)
  BY <1>2, Zenon DEF RankAbove
<1> USE <1>1, ZenonT(40) DEF Warm, Mark, Versus, Always
<1>6. RsLowCarry(t)[i] = RsLowCarry(r)[i] BY <1>ranks DEF RsLowCarry
<1>7. BbwLowCarry(t)[i] = BbwLowCarry(r)[i] BY <1>ranks DEF BbwLowCarry
<1>high. ASSUME NEW v
         PROVE  /\ i \in DOMAIN RsHigh(t, v) /\ i \in DOMAIN RsHigh(r, v)
                /\ RsHigh(t, v)[i] = RsHigh(r, v)[i]
  BY <1>above, <1>3 DEF RsHigh
<1>8. RsHighFade(t)[i] = RsHighFade(r)[i] BY <1>high DEF RsHighFade
<1>9. RsHighCarry(t)[i] = RsHighCarry(r)[i] BY <1>high DEF RsHighCarry
<1>10. Nr7Breakout(t)[i] = Nr7Breakout(r)[i] BY <1>4 DEF Nr7Breakout
<1>11. InsideBarBreakout(t)[i] = InsideBarBreakout(r)[i] BY <1>4 DEF InsideBarBreakout
<1>12. WideRangeThrust(t)[i] = WideRangeThrust(r)[i] BY <1>4, <1>5 DEF WideRangeThrust, RankBelow, RankAbove
<1>13. NatrLow(t)[i] = NatrLow(r)[i] BY <1>ranks DEF NatrLow
<1>14. NatrHigh(t)[i] = NatrHigh(r)[i] BY <1>2, <1>ranks DEF NatrHigh
<1>15. Ema55Side(t)[i] = Ema55Side(r)[i] BY DEF Ema55Side
<1> QED BY <1>6, <1>7, <1>8, <1>9, <1>10, <1>11, <1>12, <1>13, <1>14, <1>15

-----------------------------------------------------------------------------
(* flow.py: so do the rules that read volume on one bar.                   *)
LEMMA FlowRules ==
  ASSUME NEW r, NEW t, Grown(r, t), NEW i \in DOMAIN r
  PROVE  /\ ObvEma(t)[i] = ObvEma(r)[i]
         /\ Mfi(t)[i] = Mfi(r)[i]
         /\ Chaikin(t)[i] = Chaikin(r)[i]
         /\ TrendWithParticipation(t)[i] = TrendWithParticipation(r)[i]
         /\ MoveWithoutVolume(t)[i] = MoveWithoutVolume(r)[i]
         /\ NviFosback(t)[i] = NviFosback(r)[i]
         /\ Roc20Unfiltered(t)[i] = Roc20Unfiltered(r)[i]
<1>1. i \in DOMAIN r /\ i \in DOMAIN t /\ t[i] = r[i] BY Same
<1>2. \A bars \in {40, 60, 140} :
        i * BarsPerStep <= 200 \/ (~Shorter(r, bars) /\ ~Shorter(t, bars))
  BY MaskedOrLong, SMT
<1>3. i * BarsPerStep <= 600 \/ (~Shorter(r, 400) /\ ~Shorter(t, 400)) BY MaskedOrLong, SMT
<1> USE <1>1, <1>2, Zenon DEF Warm, IfLong, Mark, Versus, Sign, Extremes, Always
<1>4. ObvEma(t)[i] = ObvEma(r)[i] BY DEF ObvEma
<1>5. Mfi(t)[i] = Mfi(r)[i] BY DEF Mfi
<1>6. Chaikin(t)[i] = Chaikin(r)[i] BY DEF Chaikin
<1>7. TrendWithParticipation(t)[i] = TrendWithParticipation(r)[i] BY DEF TrendWithParticipation
<1>8. MoveWithoutVolume(t)[i] = MoveWithoutVolume(r)[i] BY DEF MoveWithoutVolume
<1>9. NviFosback(t)[i] = NviFosback(r)[i] BY <1>3 DEF NviFosback
<1>10. Roc20Unfiltered(t)[i] = Roc20Unfiltered(r)[i] BY DEF Roc20Unfiltered
<1> QED BY <1>4, <1>5, <1>6, <1>7, <1>8, <1>9, <1>10

(* flow.py: and the ones that hold a divergence, a thrust or a climax for  *)
(* some bars.                                                              *)
LEMMA FlowHeld ==
  ASSUME NEW r, NEW t, Grown(r, t), NEW i \in DOMAIN r
  PROVE  /\ ObvDivergence(t)[i] = ObvDivergence(r)[i]
         /\ ObvLeads(t)[i] = ObvLeads(r)[i]
         /\ VolumeThrust(t)[i] = VolumeThrust(r)[i]
         /\ VolumeClimax(t)[i] = VolumeClimax(r)[i]
         /\ Absorption(t)[i] = Absorption(r)[i]
<1>1. \A j \in DOMAIN r : j \in DOMAIN t /\ t[j] = r[j] BY Same
<1>2. Len(r) \in Nat /\ DOMAIN r = 1..Len(r) /\ DOMAIN t = 1..(Len(r) + 1) BY DEF Grown, Stands
<1>3. ObvDivergence(t)[i] = ObvDivergence(r)[i]
  <2> DEFINE ok(z, j) == Defined(z[j][1]) /\ Defined(z[j][2])
             ev(z) == Mark(z, -1, LAMBDA j : ok(z, j) /\ AtHigh(z[j][1]) /\ ~AtHigh(z[j][2]),
                                  LAMBDA j : ok(z, j) /\ AtLow(z[j][1]) /\ ~AtLow(z[j][2]))
  <2>1. Stands(Len(r), ev(r), ev(t)) BY <1>1, <1>2, Zenon DEF Stands, Mark
  <2> HIDE DEF ev
  <2>2. Warm(200, IfLong(t, 60, HoldFor(ev(t), 5)))[i]
          = Warm(200, IfLong(r, 60, HoldFor(ev(r), 5)))[i]
    BY <2>1, HeldForRule
  <2> QED BY <2>2, Zenon DEF ObvDivergence, ev
<1>4. ObvLeads(t)[i] = ObvLeads(r)[i]
  <2> DEFINE ok(z, j) == Defined(z[j][1]) /\ Defined(z[j][2])
             ev(z) == Mark(z, 1, LAMBDA j : ok(z, j) /\ AtHigh(z[j][2]) /\ ~AtHigh(z[j][1]),
                                 LAMBDA j : ok(z, j) /\ AtLow(z[j][2]) /\ ~AtLow(z[j][1]))
  <2>1. Stands(Len(r), ev(r), ev(t)) BY <1>1, <1>2, Zenon DEF Stands, Mark
  <2> HIDE DEF ev
  <2>2. Warm(200, IfLong(t, 60, HoldFor(ev(t), 5)))[i]
          = Warm(200, IfLong(r, 60, HoldFor(ev(r), 5)))[i]
    BY <2>1, HeldForRule
  <2> QED BY <2>2, Zenon DEF ObvLeads, ev
<1>5. VolumeThrust(t)[i] = VolumeThrust(r)[i]
  <2> DEFINE strong(z, j) == Gt(z[j][1], 0) /\ Gt(z[j][2], 0)
             ev(z) == Mark(z, 1, LAMBDA j : strong(z, j) /\ Gt(z[j][3], 1),
                                 LAMBDA j : strong(z, j) /\ Lt(z[j][3], -1))
  <2>1. Stands(Len(r), ev(r), ev(t)) BY <1>1, <1>2, Zenon DEF Stands, Mark
  <2> HIDE DEF ev
  <2>2. Warm(200, IfLong(t, 60, HoldFor(ev(t), 5)))[i]
          = Warm(200, IfLong(r, 60, HoldFor(ev(r), 5)))[i]
    BY <2>1, HeldForRule
  <2> QED BY <2>2, Zenon DEF VolumeThrust, ev
<1>6. VolumeClimax(t)[i] = VolumeClimax(r)[i]
  <2> DEFINE extreme(z, j) == Defined(z[j][1]) /\ Gt(z[j][2], 0)
             ev(z) == Mark(z, -1, LAMBDA j : extreme(z, j) /\ AtHigh(z[j][1]),
                                  LAMBDA j : extreme(z, j) /\ AtLow(z[j][1]))
  <2>1. Stands(Len(r), ev(r), ev(t)) BY <1>1, <1>2, Zenon DEF Stands, Mark
  <2> HIDE DEF ev
  <2>2. Warm(200, IfLong(t, 140, HoldFor(ev(t), 5)))[i]
          = Warm(200, IfLong(r, 140, HoldFor(ev(r), 5)))[i]
    BY <2>1, HeldForRule
  <2> QED BY <2>2, Zenon DEF VolumeClimax, ev
<1>7. Absorption(t)[i] = Absorption(r)[i]
  <2> DEFINE absorbing(z, j) == Gt(z[j][1], 0) /\ Lt(z[j][2], 0)
             ev(z) == Mark(z, 1, LAMBDA j : absorbing(z, j) /\ Gt(z[j][3], 0),
                                 LAMBDA j : absorbing(z, j) /\ Lt(z[j][3], 0))
  <2>1. Stands(Len(r), ev(r), ev(t)) BY <1>1, <1>2, Zenon DEF Stands, Mark
  <2> HIDE DEF ev
  <2>2. Warm(200, IfLong(t, 60, HoldFor(ev(t), 5)))[i]
          = Warm(200, IfLong(r, 60, HoldFor(ev(r), 5)))[i]
    BY <2>1, HeldForRule
  <2> QED BY <2>2, Zenon DEF Absorption, ev
<1> QED BY <1>3, <1>4, <1>5, <1>6, <1>7

(* The first bar of a bar's day is no later than it, and the arrival of a  *)
(* bar does not change it.                                                 *)
LEMMA SameDayStart ==
  ASSUME NEW r, NEW t, Grown(r, t), NEW i \in DOMAIN r
  PROVE  /\ DayStart(t, i) = DayStart(r, i)
         /\ DayStart(r, i) \in 1..i
<1> DEFINE R == {j \in 1..i : j = 1 \/ Day(r, j) # Day(r, j - 1)}
           T == {j \in 1..i : j = 1 \/ Day(t, j) # Day(t, j - 1)}
<1>1. i \in Nat /\ 1 <= i BY Same
<1>2. R = T
  <2>1. ASSUME NEW j \in 1..i, j # 1 PROVE t[j] = r[j] /\ t[j - 1] = r[j - 1]
    <3>1. j - 1 \in 1..i BY <1>1, <2>1
    <3> QED BY <2>1, <3>1, SameBefore
  <2>2. \A j \in 1..i : j # 1 => Day(t, j) = Day(r, j) /\ Day(t, j - 1) = Day(r, j - 1)
    BY <2>1, Zenon DEF Day
  <2> QED BY <2>2
<1>3. R \in SUBSET (1..i) /\ 1 \in R BY <1>1
<1>4. DayStart(t, i) = Max({0} \cup T) /\ DayStart(r, i) = Max({0} \cup R)
  BY Zenon DEF DayStart, LastWhere
<1> HIDE DEF R, T
<1>5. Max({0} \cup R) \in {0} \cup R /\ \A y \in R : y <= Max({0} \cup R)
  BY <1>1, <1>3, LastPlace
<1>6. Max({0} \cup R) \in 1..i
  <2> DEFINE m == Max({0} \cup R)
  <2>1. m \in {0} \cup R /\ 1 <= m BY <1>3, <1>5
  <2> HIDE DEF m
  <2>2. m \in 1..i BY <1>3, <2>1
  <2> QED BY <2>2 DEF m
<1> QED BY <1>2, <1>4, <1>6

(* The session's price so far is a sum over the same bars.                 *)
LEMMA SameVwap ==
  ASSUME NEW r, NEW t, Grown(r, t), NEW i \in DOMAIN r
  PROVE  SessionVwap(t, i) = SessionVwap(r, i)
<1> DEFINE D == DayStart(r, i)..i
<1>1. DayStart(t, i) = DayStart(r, i) /\ DayStart(r, i) \in 1..i BY SameDayStart
<1>2. \A j \in D : t[j] = r[j]
  <2>1. i \in Nat BY Same
  <2>2. \A j \in D : j \in 1..i BY <1>1, <2>1
  <2> QED BY <2>2, SameBefore
<1>3. \A j \in D : Volume(t, j) = Volume(r, j) BY <1>2, Zenon DEF Volume
<1> HIDE DEF D
<1>4. /\ [j \in D |-> Volume(t, j)] = [j \in D |-> Volume(r, j)]
      /\ [j \in D |-> t[j][2] * Volume(t, j)] = [j \in D |-> r[j][2] * Volume(r, j)]
      /\ [j \in D |-> t[j][2] * t[j][2] * Volume(t, j)]
           = [j \in D |-> r[j][2] * r[j][2] * Volume(r, j)]
  BY <1>2, <1>3, Zenon
<1>5. (\E j \in D : ~Defined(t[j][2]) \/ ~Defined(t[j][3]))
        <=> (\E j \in D : ~Defined(r[j][2]) \/ ~Defined(r[j][3]))
  BY <1>2, Zenon
<1> QED BY <1>1, <1>4, <1>5, Zenon DEF SessionVwap, D

(* flow.py: the rules on the side of the session's price stand.            *)
LEMMA VwapRules ==
  ASSUME NEW r, NEW t, Grown(r, t), NEW i \in DOMAIN r
  PROVE  VwapSide(t)[i] = VwapSide(r)[i] /\ VwapBand(t)[i] = VwapBand(r)[i]
<1>1. i \in DOMAIN r /\ i \in DOMAIN t /\ t[i] = r[i] BY Same
<1>2. SessionVwap(t, i) = SessionVwap(r, i) /\ DayStart(t, i) = DayStart(r, i)
  BY SameVwap, SameDayStart
<1>3. /\ i * BarsPerStep <= 200 \/ (~Shorter(r, 10) /\ ~Shorter(t, 10))
      /\ i * BarsPerStep <= 200 \/ (~Shorter(r, 40) /\ ~Shorter(t, 40))
  BY MaskedOrLong, SMT
<1>4. VwapSide(t)[i] = VwapSide(r)[i]
  BY <1>1, <1>2, <1>3, Zenon DEF VwapSide, Warm, IfLong, Mark
<1>5. VwapBand(t)[i] = VwapBand(r)[i]
  BY <1>1, <1>2, <1>3, Zenon DEF VwapBand, Warm, IfLong, Mark
<1> QED BY <1>4, <1>5

-----------------------------------------------------------------------------
(* Both histories are long enough for a fractal. *)
Long(r, t) == ~Shorter(r, 6) /\ ~Shorter(t, 6)

(* structure.py: the last confirmed fractal of a bar stays, for its bars on*)
(* both sides were there when it was confirmed.                            *)
LEMMA SameFractal ==
  ASSUME NEW r, NEW t, Grown(r, t), Long(r, t), NEW i \in DOMAIN r, NEW c, NEW v
  PROVE  /\ Fractal(t, c, v, i) = Fractal(r, c, v, i)
         /\ Fractal(r, c, v, i) > 0 => Fractal(r, c, v, i) \in 1..i
<1> DEFINE W == (i - 2 * FractalK)..i
           top == i - FractalK
<1>1. i \in Nat /\ FractalK \in Nat \ {0} BY Same, LengthsAssumption
<1>2. CASE i > 2 * FractalK
  <2>1. top \in W /\ top \in 1..i /\ \A j \in W : j \in 1..i BY <1>1, <1>2
  <2>2. \A j \in W : t[j] = r[j] BY <2>1, SameBefore
  <2>3. t[top] = r[top] BY <2>1, <2>2
  <2> HIDE DEF W, top
  <2>4. (\A j \in W : Defined(t[j][c]) /\ ~Beyond(v, t[j][c], t[top][c]))
          <=> (\A j \in W : Defined(r[j][c]) /\ ~Beyond(v, r[j][c], r[top][c]))
    BY <2>2, <2>3, Zenon
  <2>5. Fractal(t, c, v, i) = Fractal(r, c, v, i)
    BY <1>2, <2>4, Zenon DEF Fractal, Long, W, top
  <2>6. Fractal(r, c, v, i) = top \/ Fractal(r, c, v, i) = 0 BY Zenon DEF Fractal, top
  <2> QED BY <2>1, <2>5, <2>6
<1>3. CASE ~(i > 2 * FractalK)
  <2>1. Fractal(t, c, v, i) = 0 /\ Fractal(r, c, v, i) = 0 BY <1>3, Zenon DEF Fractal
  <2> QED BY <2>1
<1> QED BY <1>2, <1>3

(* The level it broke at stays too.                                        *)
LEMMA SameLevel ==
  ASSUME NEW r, NEW t, Grown(r, t), Long(r, t), NEW i \in DOMAIN r, NEW c, NEW v
  PROVE  Level(t, c, v, i) = Level(r, c, v, i)
<1> DEFINE R == {j \in 1..i : Fractal(r, c, v, j) > 0}
           T == {j \in 1..i : Fractal(t, c, v, j) > 0}
           q == Max({0} \cup R)
<1>1. i \in Nat BY Same
<1>2. \A j \in 1..i : j \in DOMAIN r BY SameBefore
<1>3. R = T BY <1>2, SameFractal
<1>4. R \in SUBSET (1..i) OBVIOUS
<1>5. Level(r, c, v, i) = IF q = 0 THEN NaN ELSE r[Fractal(r, c, v, q)][c]
  BY Zenon DEF Level, LastWhere
<1>6. Level(t, c, v, i) = IF q = 0 THEN NaN ELSE t[Fractal(t, c, v, q)][c]
  BY <1>3, Zenon DEF Level, LastWhere
<1>7. q \in {0} \cup R
  <2> HIDE DEF R
  <2> QED BY <1>1, <1>4, LastPlace
<1> HIDE DEF q
<1>8. CASE q # 0
  <2>1. q \in DOMAIN r /\ Fractal(r, c, v, q) > 0 /\ q \in 1..i BY <1>2, <1>7, <1>8
  <2>2. Fractal(t, c, v, q) = Fractal(r, c, v, q) /\ Fractal(r, c, v, q) \in 1..q
    BY <2>1, SameFractal
  <2>3. t[Fractal(r, c, v, q)] = r[Fractal(r, c, v, q)] BY <2>1, <2>2, SameBefore
  <2> QED BY <1>5, <1>6, <2>2, <2>3
<1> QED BY <1>5, <1>6, <1>8

(* And the one before it.                                                  *)
LEMMA SameLevelBefore ==
  ASSUME NEW r, NEW t, Grown(r, t), Long(r, t), NEW i \in DOMAIN r, NEW c, NEW v
  PROVE  LevelBefore(t, c, v, i) = LevelBefore(r, c, v, i)
<1> DEFINE R == {j \in 1..i : j > 1 /\ Fractal(r, c, v, j) > 0 /\ Defined(Level(r, c, v, j - 1))}
           T == {j \in 1..i : j > 1 /\ Fractal(t, c, v, j) > 0 /\ Defined(Level(t, c, v, j - 1))}
           q == Max({0} \cup R)
<1>1. i \in Nat BY Same
<1>2. \A j \in 1..i : j \in DOMAIN r BY SameBefore
<1>3. \A j \in 1..i : Fractal(t, c, v, j) = Fractal(r, c, v, j) BY <1>2, SameFractal
<1>4. \A j \in 1..i : j > 1 => Level(t, c, v, j - 1) = Level(r, c, v, j - 1)
  <2>1. \A j \in 1..i : j > 1 => j - 1 \in 1..i BY <1>1
  <2> QED BY <1>2, <2>1, SameLevel
<1>5. R = T BY <1>3, <1>4, Zenon
<1>6. R \in SUBSET (1..i) OBVIOUS
<1>7. LevelBefore(r, c, v, i) = IF q = 0 THEN NaN ELSE Level(r, c, v, q - 1)
  BY Zenon DEF LevelBefore, LastWhere
<1>8. LevelBefore(t, c, v, i) = IF q = 0 THEN NaN ELSE Level(t, c, v, q - 1)
  BY <1>5, Zenon DEF LevelBefore, LastWhere
<1>9. q \in {0} \cup R
  <2> HIDE DEF R
  <2> QED BY <1>1, <1>6, LastPlace
<1> HIDE DEF q
<1> QED BY <1>4, <1>7, <1>8, <1>9

(* So the rises, falls and breaks that a bar sees against its pivots stay. *)
LEMMA SamePivots ==
  ASSUME NEW r, NEW t, Grown(r, t), Long(r, t), NEW i \in DOMAIN r
  PROVE  /\ Rising(t, i) <=> Rising(r, i)
         /\ Falling(t, i) <=> Falling(r, i)
         /\ OverPivot(t, i) <=> OverPivot(r, i)
         /\ UnderPivot(t, i) <=> UnderPivot(r, i)
<1>1. t[i] = r[i] BY Same
<1>2. Level(t, 2, 1, i) = Level(r, 2, 1, i) /\ Level(t, 3, -1, i) = Level(r, 3, -1, i)
  BY SameLevel
<1>3. /\ LevelBefore(t, 2, 1, i) = LevelBefore(r, 2, 1, i)
      /\ LevelBefore(t, 3, -1, i) = LevelBefore(r, 3, -1, i)
  BY SameLevelBefore
<1> QED BY <1>1, <1>2, <1>3, Zenon DEF Rising, Falling, OverPivot, UnderPivot

(* So do the breaks of a channel.                                          *)
LEMMA SameBreaks ==
  ASSUME NEW r, NEW t, Grown(r, t), NEW i \in DOMAIN r, NEW c
  PROVE  /\ Above(t, c, i) <=> Above(r, c, i)
         /\ Below(t, c, i) <=> Below(r, c, i)
<1>1. t[i] = r[i] BY Same
<1>2. Lag(t, c, 1, i) = Lag(r, c, 1, i) BY SameLag, SMT
<1> QED BY <1>1, <1>2, Zenon DEF Above, Below

(* A fade of swings stands when the bars it is allowed on do.              *)
LEMMA FadeStands ==
  ASSUME NEW r, NEW t, Grown(r, t), Long(r, t), NEW a, NEW b,
         \A j \in DOMAIN r : j \in a <=> j \in b
  PROVE  Stands(Len(r), SwingFade(r, a), SwingFade(t, b))
<1> DEFINE under(z) == Fresh({j \in DOMAIN z : UnderPivot(z, j)})
           over(z) == Fresh({j \in DOMAIN z : OverPivot(z, j)})
           ev(z, allowed) == Events(z, LAMBDA j : j \in allowed \cap under(z),
                                       LAMBDA j : j \in allowed \cap over(z))
<1>1. Len(r) \in Nat /\ DOMAIN r = 1..Len(r) /\ DOMAIN t = 1..(Len(r) + 1) BY DEF Grown, Stands
<1>2. \A j \in DOMAIN r : /\ UnderPivot(t, j) <=> UnderPivot(r, j)
                          /\ OverPivot(t, j) <=> OverPivot(r, j)
  BY SamePivots
<1>3. ASSUME NEW j \in DOMAIN r
      PROVE  j \in DOMAIN t /\ (j - 1 \in DOMAIN t <=> j - 1 \in DOMAIN r)
  BY <1>1
<1>4. ASSUME NEW j \in DOMAIN r
      PROVE  /\ j \in under(t) <=> j \in under(r)
             /\ j \in over(t) <=> j \in over(r)
  BY <1>2, <1>3, <1>4, Zenon DEF Fresh
<1> HIDE DEF under, over
<1>5. Stands(Len(r), ev(r, a), ev(t, b)) BY <1>1, <1>3, <1>4, Zenon DEF Stands, Events
<1> HIDE DEF ev
<1>6. Stands(Len(r), HoldFor(ev(r, a), 10), HoldFor(ev(t, b), 10)) BY <1>1, <1>5, HoldForStands
<1> QED BY <1>6, Zenon DEF SwingFade, ev, under, over

(* structure.py: the rules about pivots say what they said.                *)
LEMMA PivotRules ==
  ASSUME NEW r, NEW t, Grown(r, t), NEW i \in DOMAIN r
  PROVE  /\ BosSwing(t)[i] = BosSwing(r)[i]
         /\ Choch(t)[i] = Choch(r)[i]
         /\ SwingTrendState(t)[i] = SwingTrendState(r)[i]
         /\ RangeFadeSwing(t)[i] = RangeFadeSwing(r)[i]
         /\ SwingFadeUnfiltered(t)[i] = SwingFadeUnfiltered(r)[i]
<1>1. Len(r) \in Nat /\ DOMAIN r = 1..Len(r) /\ DOMAIN t = 1..(Len(r) + 1) BY DEF Grown, Stands
<1>2. \A j \in DOMAIN r : j \in DOMAIN t BY Same
<1>3. ~Shorter(r, 200) /\ ~Shorter(t, 200) => Long(r, t) BY LongEnough, SMT DEF Long
<1>4. Long(r, t) => \A j \in DOMAIN r :
        /\ Rising(t, j) <=> Rising(r, j)
        /\ Falling(t, j) <=> Falling(r, j)
        /\ OverPivot(t, j) <=> OverPivot(r, j)
        /\ UnderPivot(t, j) <=> UnderPivot(r, j)
  BY SamePivots
<1>5. BosSwing(t)[i] = BosSwing(r)[i]
  <2> DEFINE ev(z) == Events(z, LAMBDA j : OverPivot(z, j), LAMBDA j : UnderPivot(z, j))
  <2>1. Long(r, t) => Stands(Len(r), ev(r), ev(t))
    BY <1>1, <1>2, <1>4, Zenon DEF Stands, Events
  <2> HIDE DEF ev
  <2>2. Warm(200, IfLong(t, 200, HoldOn(ev(t))))[i] = Warm(200, IfLong(r, 200, HoldOn(ev(r))))[i]
    BY <1>3, <2>1, HeldOnRule
  <2> QED BY <2>2, Zenon DEF BosSwing, Rule, ev
<1>6. Choch(t)[i] = Choch(r)[i]
  <2> DEFINE ev(z) == Events(z, LAMBDA j : Falling(z, j) /\ OverPivot(z, j),
                                LAMBDA j : Rising(z, j) /\ UnderPivot(z, j))
  <2>1. Long(r, t) => Stands(Len(r), ev(r), ev(t))
    BY <1>1, <1>2, <1>4, Zenon DEF Stands, Events
  <2> HIDE DEF ev
  <2>2. Warm(200, IfLong(t, 200, HoldOn(ev(t))))[i] = Warm(200, IfLong(r, 200, HoldOn(ev(r))))[i]
    BY <1>3, <2>1, HeldOnRule
  <2> QED BY <2>2, Zenon DEF Choch, Rule, ev
<1>7. SwingTrendState(t)[i] = SwingTrendState(r)[i]
  <2> DEFINE ev(z) == Mark(z, 1, LAMBDA j : Rising(z, j), LAMBDA j : Falling(z, j))
  <2>1. Long(r, t) => Stands(Len(r), ev(r), ev(t))
    BY <1>1, <1>2, <1>4, Zenon DEF Stands, Mark
  <2> HIDE DEF ev
  <2>2. Warm(200, IfLong(t, 200, ev(t)))[i] = Warm(200, IfLong(r, 200, ev(r)))[i]
    BY <1>3, <2>1, HeldRule
  <2> QED BY <2>2, Zenon DEF SwingTrendState, Rule, ev
<1>8. RangeFadeSwing(t)[i] = RangeFadeSwing(r)[i]
  <2> DEFINE range(z) == {j \in DOMAIN z : ~Rising(z, j) /\ ~Falling(z, j)}
  <2>1. Long(r, t) => \A j \in DOMAIN r : j \in range(r) <=> j \in range(t)
    BY <1>2, <1>4, Zenon
  <2> HIDE DEF range
  <2>2. Long(r, t) => Stands(Len(r), SwingFade(r, range(r)), SwingFade(t, range(t)))
    BY <2>1, FadeStands
  <2>3. Warm(200, IfLong(t, 200, SwingFade(t, range(t))))[i]
          = Warm(200, IfLong(r, 200, SwingFade(r, range(r))))[i]
    BY <1>3, <2>2, HeldRule
  <2> QED BY <2>3, Zenon DEF RangeFadeSwing, Rule, range
<1>9. SwingFadeUnfiltered(t)[i] = SwingFadeUnfiltered(r)[i]
  <2>1. Long(r, t) => Stands(Len(r), SwingFade(r, DOMAIN r), SwingFade(t, DOMAIN t))
    BY <1>2, FadeStands
  <2>2. Warm(200, IfLong(t, 200, SwingFade(t, DOMAIN t)))[i]
          = Warm(200, IfLong(r, 200, SwingFade(r, DOMAIN r)))[i]
    BY <1>3, <2>1, HeldRule
  <2> QED BY <2>2, Zenon DEF SwingFadeUnfiltered, Rule
<1> QED BY <1>5, <1>6, <1>7, <1>8, <1>9

(* structure.py: so do the ones about channels, compression and sweeps.    *)
LEMMA ChannelRules ==
  ASSUME NEW r, NEW t, Grown(r, t), NEW i \in DOMAIN r
  PROVE  /\ DonchianBreak20(t)[i] = DonchianBreak20(r)[i]
         /\ SweepReversal20(t)[i] = SweepReversal20(r)[i]
         /\ CompressionBreak(t)[i] = CompressionBreak(r)[i]
         /\ VolumeConfirmedBreak(t)[i] = VolumeConfirmedBreak(r)[i]
         /\ AtrBufferedBreak(t)[i] = AtrBufferedBreak(r)[i]
<1>1. Len(r) \in Nat /\ DOMAIN r = 1..Len(r) /\ DOMAIN t = 1..(Len(r) + 1) BY DEF Grown, Stands
<1>2. \A j \in DOMAIN r : j \in DOMAIN t /\ t[j] = r[j] BY Same
<1>3. \A j \in DOMAIN r : /\ Above(t, 2, j) <=> Above(r, 2, j)
                          /\ Below(t, 2, j) <=> Below(r, 2, j)
                          /\ Above(t, 3, j) <=> Above(r, 3, j)
                          /\ Below(t, 3, j) <=> Below(r, 3, j)
  BY SameBreaks
<1>4. \A j \in DOMAIN r : /\ Lag(t, 2, 1, j) = Lag(r, 2, 1, j)
                          /\ Lag(t, 3, 1, j) = Lag(r, 3, 1, j)
  BY SameLag, SMT
<1>5. DonchianBreak20(t)[i] = DonchianBreak20(r)[i]
  <2> DEFINE ev(z) == Events(z, LAMBDA j : Above(z, 2, j), LAMBDA j : Below(z, 3, j))
  <2>1. Stands(Len(r), ev(r), ev(t)) BY <1>1, <1>2, <1>3, Zenon DEF Stands, Events
  <2> HIDE DEF ev
  <2>2. Warm(200, IfLong(t, 200, HoldOn(ev(t))))[i] = Warm(200, IfLong(r, 200, HoldOn(ev(r))))[i]
    BY <2>1, HeldOnRule
  <2> QED BY <2>2, Zenon DEF DonchianBreak20, Rule, ev
<1>6. SweepReversal20(t)[i] = SweepReversal20(r)[i]
  <2> DEFINE ev(z) == Events(z, LAMBDA j : Lt(z[j][5], Lag(z, 3, 1, j)) /\ Above(z, 3, j),
                                LAMBDA j : Gt(z[j][4], Lag(z, 2, 1, j)) /\ Below(z, 2, j))
  <2>1. Stands(Len(r), ev(r), ev(t)) BY <1>1, <1>2, <1>3, <1>4, Zenon DEF Stands, Events
  <2> HIDE DEF ev
  <2>2. Warm(200, IfLong(t, 200, HoldFor(ev(t), 10)))[i]
          = Warm(200, IfLong(r, 200, HoldFor(ev(r), 10)))[i]
    BY <2>1, HeldForRule
  <2> QED BY <2>2, Zenon DEF SweepReversal20, Rule, ev
<1>7. CompressionBreak(t)[i] = CompressionBreak(r)[i]
  <2> DEFINE hasWidth(z, j) == Defined(Lag(z, 2, 1, j)) /\ Defined(Lag(z, 3, 1, j))
             width(z, j) == Lag(z, 2, 1, j) - Lag(z, 3, 1, j)
             narrow(z, j) == /\ hasWidth(z, j) /\ j >= Span(60)
                             /\ \A m \in (j - Span(60) + 1)..j :
                                  hasWidth(z, m) => width(z, j) <= width(z, m)
             ev(z) == Events(z, LAMBDA j : narrow(z, j) /\ Above(z, 2, j),
                                LAMBDA j : narrow(z, j) /\ Below(z, 3, j))
  <2>1. \A j \in DOMAIN r : (hasWidth(t, j) <=> hasWidth(r, j)) /\ width(t, j) = width(r, j)
    BY <1>4, Zenon
  <2>2. ASSUME NEW j \in DOMAIN r, j >= Span(60), NEW m \in (j - Span(60) + 1)..j
        PROVE  m \in DOMAIN r
    <3>1. Span(60) \in Nat /\ j \in Nat /\ j <= Len(r) BY SpanIsNat, Same
    <3> QED BY <1>1, <2>2, <3>1
  <2> HIDE DEF hasWidth, width
  <2>3. \A j \in DOMAIN r : narrow(t, j) <=> narrow(r, j) BY <2>1, <2>2, Zenon
  <2> HIDE DEF narrow
  <2>4. Stands(Len(r), ev(r), ev(t)) BY <1>1, <1>2, <1>3, <2>3, Zenon DEF Stands, Events
  <2> HIDE DEF ev
  <2>5. Warm(200, IfLong(t, 200, HoldOn(ev(t))))[i] = Warm(200, IfLong(r, 200, HoldOn(ev(r))))[i]
    BY <2>4, HeldOnRule
  <2> QED BY <2>5, Zenon DEF CompressionBreak, Rule, ev, narrow, width, hasWidth
<1>8. VolumeConfirmedBreak(t)[i] = VolumeConfirmedBreak(r)[i]
  <2> DEFINE strong(z, j) == Gt(z[j][4], z[j][5])
             ev(z) == Events(z, LAMBDA j : strong(z, j) /\ Above(z, 2, j),
                                LAMBDA j : strong(z, j) /\ Below(z, 3, j))
  <2>1. Stands(Len(r), ev(r), ev(t)) BY <1>1, <1>2, <1>3, Zenon DEF Stands, Events
  <2> HIDE DEF ev
  <2>2. Warm(200, IfLong(t, 200, HoldOn(ev(t))))[i] = Warm(200, IfLong(r, 200, HoldOn(ev(r))))[i]
    BY <2>1, HeldOnRule
  <2> QED BY <2>2, Zenon DEF VolumeConfirmedBreak, Rule, ev
<1>9. AtrBufferedBreak(t)[i] = AtrBufferedBreak(r)[i]
  <2> DEFINE ev(z) == Events(z, LAMBDA j : Gt(z[j][1], Plus(Lag(z, 2, 1, j), z[j][4])),
                                LAMBDA j : Lt(z[j][1], Plus(Lag(z, 3, 1, j), z[j][5])))
  <2>1. Stands(Len(r), ev(r), ev(t)) BY <1>1, <1>2, <1>4, Zenon DEF Stands, Events
  <2> HIDE DEF ev
  <2>2. Warm(200, IfLong(t, 200, HoldOn(ev(t))))[i] = Warm(200, IfLong(r, 200, HoldOn(ev(r))))[i]
    BY <2>1, HeldOnRule
  <2> QED BY <2>2, Zenon DEF AtrBufferedBreak, Rule, ev
<1> QED BY <1>5, <1>6, <1>7, <1>8, <1>9

-----------------------------------------------------------------------------
(* Every reading of a bar, its opening time too, is a number.              *)
Readings(r) == \A i \in DOMAIN r : \A c \in 1..6 : r[i][c] \in Int

(* A longer time is not fewer bars. *)
LEMMA SpanMonotone ==
  ASSUME NEW k \in Nat, NEW m \in Nat, k > 2, k <= m
  PROVE  Span(k) <= Span(m)
<1> DEFINE c == BarsPerStep
           p == k \div c
           q == m \div c
<1>1. c \in Nat \ {0} BY LengthsAssumption
<1>2. /\ p \in Int /\ k % c \in 0..(c - 1) /\ k = c * p + (k % c)
      /\ q \in Int /\ m % c \in 0..(c - 1) /\ m = c * q + (m % c)
  BY <1>1
<1>3. p <= q
  <2> DEFINE x == k % c
             y == m % c
  <2>1. /\ p \in Int /\ x \in 0..(c - 1) /\ k = c * p + x
        /\ q \in Int /\ y \in 0..(c - 1) /\ m = c * q + y
    BY <1>2
  <2> HIDE DEF p, q, x, y, c
  <2> SUFFICES ASSUME p > q PROVE FALSE BY <2>1
  <2>2. c * (p - q) = c * p - c * q BY <1>1, <2>1
  <2>3. c * (p - q) >= c BY <1>1, <2>1
  <2>4. c * p \in Int /\ c * q \in Int BY <1>1, <2>1
  <2> QED BY <1>1, <2>1, <2>2, <2>3, <2>4
<1>4. Span(k) = 2 + p /\ Span(m) = 2 + q BY DEF Span
<1> QED BY <1>2, <1>3, <1>4

(* Of finitely many numbers one is the greatest, and one the least. *)
LEMMA HasPeak ==
  ASSUME NEW a \in Nat, NEW b \in Nat, a <= b, NEW f, \A k \in a..b : f[k] \in Int
  PROVE  /\ \E j \in a..b : \A k \in a..b : f[k] <= f[j]
         /\ \E j \in a..b : \A k \in a..b : f[j] <= f[k]
<1> DEFINE Tops(n) == \E j \in a..n : \A k \in a..n : f[k] <= f[j]
           Lows(n) == \E j \in a..n : \A k \in a..n : f[j] <= f[k]
           Bad == {n \in a..b : ~(Tops(n) /\ Lows(n))}
<1>1. Bad = {}
  <2> SUFFICES ASSUME Bad # {} PROVE FALSE OBVIOUS
  <2>1. Bad \in SUBSET Nat OBVIOUS
  <2> DEFINE n == Min(Bad)
  <2>2. n \in Bad /\ \A y \in Bad : n <= y
    <3> HIDE DEF Bad
    <3> QED BY <2>1, HasLeast
  <2> HIDE DEF n
  <2>3. n \in a..b /\ ~(Tops(n) /\ Lows(n)) BY <2>2
  <2>4. ASSUME n # a PROVE n - 1 \in a..b /\ Tops(n - 1) /\ Lows(n - 1)
    <3>1. n - 1 \in a..b BY <2>3, <2>4
    <3>2. n - 1 \notin Bad
      <4> HIDE DEF Bad
      <4> QED BY <2>2, <2>3
    <3> QED BY <3>1, <3>2
  <2> HIDE DEF Bad
  <2>5. n # a
    <3>1. \A k \in a..a : k = a OBVIOUS
    <3>2. Tops(a) /\ Lows(a) BY <3>1
    <3> QED BY <2>3, <3>2
  <2>6. n - 1 \in a..b /\ a..n = a..(n - 1) \cup {n} /\ n \in a..n BY <2>3, <2>5
  <2>7. Tops(n)
    <3>1. PICK j \in a..(n - 1) : \A k \in a..(n - 1) : f[k] <= f[j] BY <2>4, <2>5
    <3>2. f[j] \in Int /\ f[n] \in Int /\ \A k \in a..(n - 1) : f[k] \in Int BY <2>3, <2>6
    <3> QED BY <2>6, <3>1, <3>2
  <2>8. Lows(n)
    <3>1. PICK j \in a..(n - 1) : \A k \in a..(n - 1) : f[j] <= f[k] BY <2>4, <2>5
    <3>2. f[j] \in Int /\ f[n] \in Int /\ \A k \in a..(n - 1) : f[k] \in Int BY <2>3, <2>6
    <3> QED BY <2>6, <3>1, <3>2
  <2> QED BY <2>3, <2>7, <2>8
<1>2. b \notin Bad /\ b \in a..b
  <2> HIDE DEF Bad
  <2> QED BY <1>1
<1> QED BY <1>2

(* momentum.py, the extreme a divergence is measured against: the same bar,*)
(* at or before this one.                                                  *)
LEMMA SamePrior ==
  ASSUME NEW r, NEW t, Grown(r, t), Readings(r), ~Shorter(r, 101), ~Shorter(t, 101),
         NEW i \in DOMAIN r, NEW v
  PROVE  /\ PriorExtreme(t, v, i) = PriorExtreme(r, v, i)
         /\ PriorExtreme(r, v, i) > 0 => PriorExtreme(r, v, i) \in 1..i
<1> DEFINE a == i - Span(100)
           b == i - Span(10)
           R == {j \in a..b : \A k \in a..b : ~Beyond(v, r[k][1], r[j][1])}
           T == {j \in a..b : \A k \in a..b : ~Beyond(v, t[k][1], t[j][1])}
<1>1. i \in Nat /\ Span(10) \in Nat /\ Span(100) \in Nat /\ Span(10) <= Span(100)
  <2>1. i \in Nat BY Same
  <2>2. Span(10) \in Nat /\ Span(100) \in Nat BY SpanIsNat, SMT
  <2>3. Span(10) <= Span(100) BY SpanMonotone, SMT
  <2> QED BY <2>1, <2>2, <2>3
<1>2. CASE ~(i <= Span(100))
  <2>1. a \in Nat /\ b \in Nat /\ a <= b /\ \A j \in a..b : j \in 1..i BY <1>1, <1>2
  <2>2. \A j \in a..b : j \in DOMAIN r /\ t[j] = r[j] BY <2>1, SameBefore
  <2>3. \A j \in a..b : r[j][1] \in Int BY <2>2 DEF Readings
  <2>4. PriorExtreme(r, v, i) = Min(R) /\ PriorExtreme(t, v, i) = Min(T)
    BY <1>2, Zenon DEF PriorExtreme
  <2> HIDE DEF a, b
  <2>5. R = T BY <2>2, Zenon
  <2>6. \E j \in a..b : \A k \in a..b : ~Beyond(v, r[k][1], r[j][1])
    <3> DEFINE f == [k \in a..b |-> r[k][1]]
    <3>1. \A k \in a..b : f[k] = r[k][1] /\ f[k] \in Int BY <2>3
    <3> HIDE DEF f
    <3>2. /\ \E j \in a..b : \A k \in a..b : f[k] <= f[j]
          /\ \E j \in a..b : \A k \in a..b : f[j] <= f[k]
      BY <2>1, <3>1, HasPeak
    <3> QED BY <2>3, <3>1, <3>2 DEF Beyond, Gt, Lt
  <2>7. R \in SUBSET Nat /\ R # {} BY <2>1, <2>6
  <2>8. \A j \in R : j \in 1..i BY <2>1
  <2> HIDE DEF R, T
  <2>9. Min(R) \in R BY <2>7, HasLeast
  <2> QED BY <2>4, <2>5, <2>8, <2>9
<1>3. CASE i <= Span(100)
  <2>1. PriorExtreme(r, v, i) = 0 /\ PriorExtreme(t, v, i) = 0
    BY <1>3, Zenon DEF PriorExtreme
  <2> QED BY <2>1
<1> QED BY <1>2, <1>3

(* momentum.py: the rules that confirm or diverge from it say what they    *)
(* said.                                                                   *)
LEMMA ExtremeRules ==
  ASSUME NEW r, NEW t, Grown(r, t), Readings(r), NEW i \in DOMAIN r
  PROVE  /\ AoConfirms(t)[i] = AoConfirms(r)[i]
         /\ AoDivergence(t)[i] = AoDivergence(r)[i]
<1> DEFINE top == PriorExtreme(r, 1, i)
           low == PriorExtreme(r, -1, i)
<1>1. i \in DOMAIN r /\ i \in DOMAIN t /\ t[i] = r[i] BY Same
<1>2. CASE i * BarsPerStep <= 200
  BY <1>1, <1>2, Zenon DEF AoConfirms, AoDivergence, Warm, IfLong, Mark
<1>3. CASE ~Shorter(r, 135) /\ ~Shorter(t, 135)
  <2>1. ~Shorter(r, 101) /\ ~Shorter(t, 101) BY <1>3, LongEnough, SMT
  <2>2. PriorExtreme(t, 1, i) = top /\ PriorExtreme(t, -1, i) = low BY <2>1, SamePrior
  <2>3. (top > 0 => t[top] = r[top]) /\ (low > 0 => t[low] = r[low])
    <3>1. (top > 0 => top \in 1..i) /\ (low > 0 => low \in 1..i) BY <2>1, SamePrior
    <3> HIDE DEF top, low
    <3> QED BY <3>1, SameBefore
  <2>4. PriorExtreme(r, 1, i) = top /\ PriorExtreme(r, -1, i) = low OBVIOUS
  <2> HIDE DEF top, low
  <2>5. AoConfirms(t)[i] = AoConfirms(r)[i]
    BY <1>1, <1>3, <2>2, <2>3, <2>4, ZenonT(60) DEF AoConfirms, Warm, IfLong, Mark
  <2>6. AoDivergence(t)[i] = AoDivergence(r)[i]
    BY <1>1, <1>3, <2>2, <2>3, <2>4, ZenonT(60) DEF AoDivergence, Warm, IfLong, Mark
  <2> QED BY <2>5, <2>6
<1> QED BY <1>2, <1>3, MaskedOrLong, SMT

-----------------------------------------------------------------------------
(* A forward loop that starts from v and goes on by the table g, and never *)
(* leaves V, has a result: f records what it carries from bar to bar.      *)
Closed(n, V, g) == \A i \in 1..n : \A x \in V : g[i][x] \in V
Carries(n, V, v, g, f) ==
    /\ f = [i \in 0..n |-> IF i = 0 THEN v ELSE g[i][f[i - 1]]]
    /\ \A i \in 0..n : f[i] \in V

(* By induction on the bars, without the library's scheme: were there bars *)
(* without a result there would be a first one.                            *)
LEMMA LoopEnds ==
  ASSUME NEW n \in Nat, NEW V, NEW v \in V, NEW g, Closed(n, V, g)
  PROVE  \E f : Carries(n, V, v, g, f)
<1> DEFINE Bad == {m \in 0..n : ~\E f : Carries(m, V, v, g, f)}
<1>1. Bad = {}
  <2> SUFFICES ASSUME Bad # {} PROVE FALSE OBVIOUS
  <2>1. Bad \in SUBSET Nat OBVIOUS
  <2> DEFINE m == Min(Bad)
  <2>2. m \in Bad /\ \A y \in Bad : m <= y
    <3> HIDE DEF Bad
    <3> QED BY <2>1, HasLeast
  <2> HIDE DEF m
  <2>3. m \in 0..n /\ ~\E f : Carries(m, V, v, g, f) BY <2>2
  <2>4. m # 0
    <3> DEFINE f == [j \in 0..0 |-> v]
    <3>1. \A j \in 0..0 : j = 0 /\ f[j] = v OBVIOUS
    <3>2. f = [j \in 0..0 |-> IF j = 0 THEN v ELSE g[j][f[j - 1]]] BY <3>1, Zenon
    <3> HIDE DEF f
    <3>3. Carries(0, V, v, g, f) BY <3>1, <3>2 DEF Carries
    <3> QED BY <2>3, <3>3
  <2>5. m - 1 \in 0..n /\ m - 1 \notin Bad
    <3> HIDE DEF Bad
    <3> QED BY <2>2, <2>3, <2>4
  <2>6. PICK f : Carries(m - 1, V, v, g, f) BY <2>5
  <2> HIDE DEF Bad
  <2>7. /\ \A j \in 0..(m - 1) : f[j] \in V
        /\ f[0] = v
        /\ \A j \in 1..(m - 1) : f[j] = g[j][f[j - 1]]
    <3>1. m - 1 \in Nat /\ \A j \in 1..(m - 1) : j # 0 /\ j \in 0..(m - 1) BY <2>3, <2>4
    <3>2. 0 \in 0..(m - 1) BY <3>1
    <3> QED BY <2>6, <3>1, <3>2, Zenon DEF Carries
  <2> DEFINE z == [j \in 0..m |-> IF j = m THEN g[m][f[m - 1]] ELSE f[j]]
  <2>8. m \in 1..n /\ m - 1 \in 0..(m - 1) BY <2>3, <2>4
  <2>9. f[m - 1] \in V /\ g[m][f[m - 1]] \in V BY <2>7, <2>8 DEF Closed
  <2>10. \A j \in 0..m : j # m => j \in 0..(m - 1) BY <2>3
  <2>11. \A j \in 0..m : z[j] \in V BY <2>7, <2>9, <2>10
  <2>12. ASSUME NEW j \in 0..m PROVE z[j] = IF j = 0 THEN v ELSE g[j][z[j - 1]]
    <3>1. CASE j = 0 BY <2>4, <2>7, <3>1
    <3>2. CASE j # 0 /\ j # m
      <4>1. j \in 1..(m - 1) /\ j - 1 \in 0..m /\ j - 1 # m BY <2>3, <3>2
      <4>2. z[j] = f[j] /\ z[j - 1] = f[j - 1] BY <3>2, <4>1
      <4> HIDE DEF z
      <4> QED BY <2>7, <3>2, <4>1, <4>2
    <3>3. CASE j # 0 /\ j = m
      <4>1. j - 1 \in 0..m /\ j - 1 # m BY <2>3, <3>3
      <4>2. z[j] = g[j][f[j - 1]] /\ z[j - 1] = f[j - 1] BY <3>3, <4>1
      <4> HIDE DEF z
      <4> QED BY <3>3, <4>2
    <3> QED BY <3>1, <3>2, <3>3
  <2>13. z = [j \in 0..m |-> IF j = 0 THEN v ELSE g[j][z[j - 1]]]
    <3>1. \A j \in 0..m : z[j] = IF j = 0 THEN v ELSE g[j][z[j - 1]] BY <2>12
    <3> QED BY <3>1, Zenon
  <2> HIDE DEF z
  <2>14. Carries(m, V, v, g, z) BY <2>11, <2>13 DEF Carries
  <2> QED BY <2>3, <2>14
<1>2. n \notin Bad /\ n \in 0..n
  <2> HIDE DEF Bad
  <2> QED BY <1>1
<1> QED BY <1>2

(* Two loops that agree on how to start and on every step agree.           *)
LEMMA LoopsAgree ==
  ASSUME NEW n \in Nat, NEW p, NEW q, q[0] = p[0],
         \A i \in 1..n : q[i - 1] = p[i - 1] => q[i] = p[i]
  PROVE  \A i \in 0..n : q[i] = p[i]
<1> DEFINE Bad == {i \in 0..n : q[i] # p[i]}
<1> SUFFICES ASSUME Bad # {} PROVE FALSE OBVIOUS
<1>1. Bad \in SUBSET Nat OBVIOUS
<1> DEFINE m == Min(Bad)
<1>2. m \in Bad /\ \A y \in Bad : m <= y
  <2> HIDE DEF Bad
  <2> QED BY <1>1, HasLeast
<1> HIDE DEF m
<1>3. m \in 1..n BY <1>2
<1>4. m - 1 \in 0..n /\ m - 1 \notin Bad
  <2> HIDE DEF Bad
  <2> QED BY <1>2, <1>3
<1> QED BY <1>2, <1>3, <1>4

(* donchian_turtle: a bar of the loop, and what it carries.                *)
TurtleStep(z, j, p) ==
    IF ~(Defined(z[j][1]) /\ \A k \in 2..5 : Defined(Lag(z, k, 1, j))) THEN 0
    ELSE CASE p = 0 -> IF Gt(z[j][1], Lag(z, 2, 1, j)) THEN 1
                       ELSE IF Lt(z[j][1], Lag(z, 3, 1, j)) THEN -1 ELSE 0
           [] p = 1 -> IF ~Lt(z[j][1], Lag(z, 5, 1, j)) THEN 1
                       ELSE IF Lt(z[j][1], Lag(z, 3, 1, j)) THEN -1 ELSE 0
           [] OTHER -> IF ~Gt(z[j][1], Lag(z, 4, 1, j)) THEN -1
                       ELSE IF Gt(z[j][1], Lag(z, 2, 1, j)) THEN 1 ELSE 0

(* What the loop carries from bar to bar.                                  *)
Turtle(z) == CHOOSE f : f = [j \in 0..Len(z) |-> IF j = 0 THEN 0 ELSE TurtleStep(z, j, f[j - 1])]

(* The loop has a result, so what it is said to carry is what it computes. *)
LEMMA TurtleLoop ==
  ASSUME NEW z, Len(z) \in Nat
  PROVE  Turtle(z) = [j \in 0..Len(z) |-> IF j = 0 THEN 0 ELSE TurtleStep(z, j, Turtle(z)[j - 1])]
<1> DEFINE V == {-1, 0, 1}
           n == Len(z)
           g == [j \in 1..n |-> [p \in V |-> TurtleStep(z, j, p)]]
<1>1. \A j \in 1..n : \A p \in V : g[j][p] = TurtleStep(z, j, p) /\ g[j][p] \in V
  BY Zenon DEF TurtleStep
<1>2. n \in Nat /\ 0 \in V OBVIOUS
<1> HIDE DEF V, g, n
<1>3. PICK f : Carries(n, V, 0, g, f)
  <2>1. Closed(n, V, g) BY <1>1 DEF Closed
  <2> QED BY <1>2, <2>1, LoopEnds
<1>4. ASSUME NEW j \in 0..n, j # 0 PROVE j \in 1..n /\ j - 1 \in 0..n BY <1>2, <1>4
<1>5. f = [j \in 0..n |-> IF j = 0 THEN 0 ELSE TurtleStep(z, j, f[j - 1])]
  BY <1>1, <1>3, <1>4, Zenon DEF Carries
<1> QED BY <1>5, Zenon DEF Turtle, n

(* trend.py: donchian_turtle says what it said.                            *)
LEMMA TurtleRule ==
  ASSUME NEW r, NEW t, Grown(r, t), NEW i \in DOMAIN r
  PROVE  DonchianTurtle(t)[i] = DonchianTurtle(r)[i]
<1>1. i \in DOMAIN r /\ i \in DOMAIN t /\ i \in 1..Len(r) BY Same
<1>2. Len(r) \in Nat /\ Len(t) \in Nat /\ DOMAIN r = 1..Len(r) /\ Len(t) = Len(r) + 1
  BY DEF Grown, Stands
<1>3. \A z : DonchianTurtle(z) = Warm(250, [j \in DOMAIN z |-> Turtle(z)[j]])
  BY DEF DonchianTurtle, Turtle, TurtleStep
<1>4. ASSUME NEW j \in 1..Len(r), NEW p PROVE TurtleStep(t, j, p) = TurtleStep(r, j, p)
  <2>1. t[j] = r[j] BY <1>2, Same
  <2>2. \A k : Lag(t, k, 1, j) = Lag(r, k, 1, j) BY <1>2, SameLag, SMT
  <2>3. (\A k \in 2..5 : Defined(Lag(t, k, 1, j))) <=> (\A k \in 2..5 : Defined(Lag(r, k, 1, j)))
    BY <2>2
  <2>4. /\ Lag(t, 2, 1, j) = Lag(r, 2, 1, j) /\ Lag(t, 3, 1, j) = Lag(r, 3, 1, j)
        /\ Lag(t, 4, 1, j) = Lag(r, 4, 1, j) /\ Lag(t, 5, 1, j) = Lag(r, 5, 1, j)
    BY <2>2
  <2>5. TurtleStep(t, j, p) = TurtleStep(r, j, p)
    <3> DEFINE okt == Defined(t[j][1]) /\ \A k \in 2..5 : Defined(Lag(t, k, 1, j))
               okr == Defined(r[j][1]) /\ \A k \in 2..5 : Defined(Lag(r, k, 1, j))
    <3>1. okt <=> okr BY <2>1, <2>3
    <3> HIDE DEF okt, okr
    <3> QED BY <2>1, <2>4, <3>1, SMT DEF TurtleStep, okt, okr
  <2> QED BY <2>5
<1>5. Turtle(r) = [j \in 0..Len(r) |-> IF j = 0 THEN 0 ELSE TurtleStep(r, j, Turtle(r)[j - 1])]
  BY <1>2, TurtleLoop
<1>6. Turtle(t) = [j \in 0..Len(t) |-> IF j = 0 THEN 0 ELSE TurtleStep(t, j, Turtle(t)[j - 1])]
  BY <1>2, TurtleLoop
<1>7. \A j \in 0..Len(r) : Turtle(t)[j] = Turtle(r)[j]
  <2> DEFINE p == Turtle(r)
             q == Turtle(t)
  <2>1. p[0] = 0 /\ \A j \in 1..Len(r) : p[j] = TurtleStep(r, j, p[j - 1]) BY <1>2, <1>5
  <2>2. q[0] = 0 /\ \A j \in 1..Len(r) : q[j] = TurtleStep(t, j, q[j - 1]) BY <1>2, <1>6
  <2> HIDE DEF p, q
  <2>3. q[0] = p[0] /\ \A j \in 1..Len(r) : q[j - 1] = p[j - 1] => q[j] = p[j]
    BY <1>4, <2>1, <2>2
  <2>4. Len(r) \in Nat BY <1>2
  <2>5. \A j \in 0..Len(r) : q[j] = p[j] BY <2>3, <2>4, LoopsAgree
  <2> QED BY <2>5 DEF p, q
<1>8. Turtle(t)[i] = Turtle(r)[i] BY <1>1, <1>2, <1>7
<1> QED BY <1>1, <1>3, <1>8, Zenon DEF Warm

(* bb_reentry likewise. *)
ReentryStep(z, j, p) ==
    IF ~(/\ j > 1
         /\ \A k \in 2..4 : Defined(z[j][k])
         /\ \A k \in 2..3 : Defined(z[j - 1][k])) THEN 0
    ELSE IF p = 0 \/ ((p = 1 /\ Ge(z[j][1], z[j][4])) \/ (p = -1 /\ Le(z[j][1], z[j][4])))
         THEN IF Lt(z[j - 1][1], z[j - 1][3]) /\ Ge(z[j][1], z[j][3]) THEN 1
              ELSE IF Gt(z[j - 1][1], z[j - 1][2]) /\ Le(z[j][1], z[j][2]) THEN -1 ELSE 0
         ELSE p

(* What the loop carries from bar to bar.                                  *)
Reentry(z) == CHOOSE f : f = [j \in 0..Len(z) |-> IF j = 0 THEN 0 ELSE ReentryStep(z, j, f[j - 1])]

(* The loop has a result.                                                  *)
LEMMA ReentryLoop ==
  ASSUME NEW z, Len(z) \in Nat
  PROVE  Reentry(z) =
             [j \in 0..Len(z) |-> IF j = 0 THEN 0 ELSE ReentryStep(z, j, Reentry(z)[j - 1])]
<1> DEFINE V == {-1, 0, 1}
           n == Len(z)
           g == [j \in 1..n |-> [p \in V |-> ReentryStep(z, j, p)]]
<1>1. \A j \in 1..n : \A p \in V : g[j][p] = ReentryStep(z, j, p) /\ g[j][p] \in V
  BY Zenon DEF ReentryStep
<1>2. n \in Nat /\ 0 \in V OBVIOUS
<1> HIDE DEF V, g, n
<1>3. PICK f : Carries(n, V, 0, g, f)
  <2>1. Closed(n, V, g) BY <1>1 DEF Closed
  <2> QED BY <1>2, <2>1, LoopEnds
<1>4. ASSUME NEW j \in 0..n, j # 0 PROVE j \in 1..n /\ j - 1 \in 0..n BY <1>2, <1>4
<1>5. f = [j \in 0..n |-> IF j = 0 THEN 0 ELSE ReentryStep(z, j, f[j - 1])]
  BY <1>1, <1>3, <1>4, Zenon DEF Carries
<1> QED BY <1>5, Zenon DEF Reentry, n

(* mean_reversion.py: bb_reentry says what it said.                        *)
LEMMA ReentryRule ==
  ASSUME NEW r, NEW t, Grown(r, t), NEW i \in DOMAIN r
  PROVE  BbReentry(t)[i] = BbReentry(r)[i]
<1>1. i \in DOMAIN r /\ i \in DOMAIN t /\ i \in 1..Len(r) BY Same
<1>2. Len(r) \in Nat /\ Len(t) \in Nat /\ DOMAIN r = 1..Len(r) /\ Len(t) = Len(r) + 1
  BY DEF Grown, Stands
<1>3. \A z : BbReentry(z) = Warm(200, [j \in DOMAIN z |-> Reentry(z)[j]])
  BY DEF BbReentry, Reentry, ReentryStep
<1>4. ASSUME NEW j \in 1..Len(r), NEW p PROVE ReentryStep(t, j, p) = ReentryStep(r, j, p)
  <2>1. t[j] = r[j] /\ (j > 1 => t[j - 1] = r[j - 1])
    <3>1. j \in DOMAIN r /\ (j > 1 => j - 1 \in DOMAIN r) BY <1>2
    <3> QED BY <3>1, Same
  <2> QED BY <2>1, Zenon DEF ReentryStep
<1>5. Reentry(r) = [j \in 0..Len(r) |-> IF j = 0 THEN 0 ELSE ReentryStep(r, j, Reentry(r)[j - 1])]
  BY <1>2, ReentryLoop
<1>6. Reentry(t) = [j \in 0..Len(t) |-> IF j = 0 THEN 0 ELSE ReentryStep(t, j, Reentry(t)[j - 1])]
  BY <1>2, ReentryLoop
<1>7. \A j \in 0..Len(r) : Reentry(t)[j] = Reentry(r)[j]
  <2> DEFINE p == Reentry(r)
             q == Reentry(t)
  <2>1. p[0] = 0 /\ \A j \in 1..Len(r) : p[j] = ReentryStep(r, j, p[j - 1]) BY <1>2, <1>5
  <2>2. q[0] = 0 /\ \A j \in 1..Len(r) : q[j] = ReentryStep(t, j, q[j - 1]) BY <1>2, <1>6
  <2> HIDE DEF p, q
  <2>3. q[0] = p[0] /\ \A j \in 1..Len(r) : q[j - 1] = p[j - 1] => q[j] = p[j]
    BY <1>4, <2>1, <2>2
  <2>4. Len(r) \in Nat BY <1>2
  <2>5. \A j \in 0..Len(r) : q[j] = p[j] BY <2>3, <2>4, LoopsAgree
  <2> QED BY <2>5 DEF p, q
<1>8. Reentry(t)[i] = Reentry(r)[i] BY <1>1, <1>2, <1>7
<1> QED BY <1>1, <1>3, <1>8, Zenon DEF Warm

(* donchian_55_exit_20. *)
ChannelStep(z, j, p) ==
    CASE p = 0 -> IF Above(z, 2, j) THEN 1 ELSE IF Below(z, 3, j) THEN -1 ELSE 0
      [] p = 1 -> IF Below(z, 5, j) THEN 0 ELSE 1
      [] OTHER -> IF Above(z, 4, j) THEN 0 ELSE -1

(* What the loop carries from bar to bar.                                  *)
Channel(z) == CHOOSE f : f = [j \in 0..Len(z) |-> IF j = 0 THEN 0 ELSE ChannelStep(z, j, f[j - 1])]

(* The loop has a result.                                                  *)
LEMMA ChannelLoop ==
  ASSUME NEW z, Len(z) \in Nat
  PROVE  Channel(z) =
             [j \in 0..Len(z) |-> IF j = 0 THEN 0 ELSE ChannelStep(z, j, Channel(z)[j - 1])]
<1> DEFINE V == {-1, 0, 1}
           n == Len(z)
           g == [j \in 1..n |-> [p \in V |-> ChannelStep(z, j, p)]]
<1>1. \A j \in 1..n : \A p \in V : g[j][p] = ChannelStep(z, j, p) /\ g[j][p] \in V
  BY Zenon DEF ChannelStep
<1>2. n \in Nat /\ 0 \in V OBVIOUS
<1> HIDE DEF V, g, n
<1>3. PICK f : Carries(n, V, 0, g, f)
  <2>1. Closed(n, V, g) BY <1>1 DEF Closed
  <2> QED BY <1>2, <2>1, LoopEnds
<1>4. ASSUME NEW j \in 0..n, j # 0 PROVE j \in 1..n /\ j - 1 \in 0..n BY <1>2, <1>4
<1>5. f = [j \in 0..n |-> IF j = 0 THEN 0 ELSE ChannelStep(z, j, f[j - 1])]
  BY <1>1, <1>3, <1>4, Zenon DEF Carries
<1> QED BY <1>5, Zenon DEF Channel, n

(* structure.py: donchian_55_exit_20 says what it said.                    *)
LEMMA ChannelRule ==
  ASSUME NEW r, NEW t, Grown(r, t), NEW i \in DOMAIN r
  PROVE  Donchian55Exit20(t)[i] = Donchian55Exit20(r)[i]
<1>1. i \in DOMAIN r /\ i \in DOMAIN t /\ i \in 1..Len(r) BY Same
<1>2. Len(r) \in Nat /\ Len(t) \in Nat /\ DOMAIN r = 1..Len(r) /\ Len(t) = Len(r) + 1
      /\ DOMAIN t = 1..Len(t)
  BY DEF Grown, Stands
<1>3. \A z : Donchian55Exit20(z) = Warm(200, IfLong(z, 200, [j \in DOMAIN z |-> Channel(z)[j]]))
  BY DEF Donchian55Exit20, Rule, Channel, ChannelStep
<1>4. ASSUME NEW j \in 1..Len(r), NEW p PROVE ChannelStep(t, j, p) = ChannelStep(r, j, p)
  <2>1. /\ Above(t, 2, j) <=> Above(r, 2, j)
        /\ Above(t, 4, j) <=> Above(r, 4, j)
        /\ Below(t, 3, j) <=> Below(r, 3, j)
        /\ Below(t, 5, j) <=> Below(r, 5, j)
    BY <1>2, SameBreaks
  <2> QED BY <2>1, Zenon DEF ChannelStep
<1>5. Channel(r) = [j \in 0..Len(r) |-> IF j = 0 THEN 0 ELSE ChannelStep(r, j, Channel(r)[j - 1])]
  BY <1>2, ChannelLoop
<1>6. Channel(t) = [j \in 0..Len(t) |-> IF j = 0 THEN 0 ELSE ChannelStep(t, j, Channel(t)[j - 1])]
  BY <1>2, ChannelLoop
<1>7. \A j \in 0..Len(r) : Channel(t)[j] = Channel(r)[j]
  <2> DEFINE p == Channel(r)
             q == Channel(t)
  <2>1. p[0] = 0 /\ \A j \in 1..Len(r) : p[j] = ChannelStep(r, j, p[j - 1]) BY <1>2, <1>5
  <2>2. q[0] = 0 /\ \A j \in 1..Len(r) : q[j] = ChannelStep(t, j, q[j - 1]) BY <1>2, <1>6
  <2> HIDE DEF p, q
  <2>3. q[0] = p[0] /\ \A j \in 1..Len(r) : q[j - 1] = p[j - 1] => q[j] = p[j]
    BY <1>4, <2>1, <2>2
  <2>4. Len(r) \in Nat BY <1>2
  <2>5. \A j \in 0..Len(r) : q[j] = p[j] BY <2>3, <2>4, LoopsAgree
  <2> QED BY <2>5 DEF p, q
<1> DEFINE a(z) == [j \in DOMAIN z |-> Channel(z)[j]]
<1>8. Stands(Len(r), a(r), a(t)) BY <1>2, <1>7 DEF Stands
<1> HIDE DEF a
<1>9. Warm(200, IfLong(t, 200, a(t)))[i] = Warm(200, IfLong(r, 200, a(r)))[i]
  BY <1>8, HeldRule, SMT
<1> QED BY <1>3, <1>9 DEF a

-----------------------------------------------------------------------------
(* squeeze_release: its entries, and a bar of its loop.                    *)
SqueezeEntry(z) ==
    Versus(z, 1, LAMBDA j : j > 1 /\ (j - 1 > 0 /\ z[j - 1][3] = 1) /\ ~(j > 0 /\ z[j][3] = 1)
                            /\ Defined(z[j][3]))

(* A bar of it: an entry, or an exit of what is held.                      *)
SqueezeStep(z, j, p) ==
    IF SqueezeEntry(z)[j] # 0 THEN SqueezeEntry(z)[j]
    ELSE IF \/ j > 0 /\ z[j][3] = 1
            \/ Defined(z[j][3]) /\ (IF p = 1 THEN Lt(z[j][1], z[j][2]) ELSE Gt(z[j][1], z[j][2]))
         THEN 0 ELSE p

(* What the loop carries from bar to bar.                                  *)
Squeeze(z) == CHOOSE f : f = [j \in 0..Len(z) |-> IF j = 0 THEN 0 ELSE SqueezeStep(z, j, f[j - 1])]

(* The loop has a result, and the rule's positions are it.                 *)
LEMMA SqueezeLoop ==
  ASSUME NEW z, Len(z) \in Nat, DOMAIN z = 1..Len(z)
  PROVE  /\ Squeeze(z) =
                [j \in 0..Len(z) |-> IF j = 0 THEN 0 ELSE SqueezeStep(z, j, Squeeze(z)[j - 1])]
         /\ SqueezeRelease(z) = Warm(200, [j \in DOMAIN z |-> Squeeze(z)[j]])
<1> DEFINE V == {-1, 0, 1}
           n == Len(z)
           ev == SqueezeEntry(z)
           g == [j \in 1..n |-> [p \in V |-> SqueezeStep(z, j, p)]]
<1>1. DOMAIN ev = 1..n /\ \A j \in 1..n : ev[j] \in V
  BY Zenon DEF SqueezeEntry, Versus, Mark
<1>2. Len(ev) = n
  <2>1. ev = [j \in 1..n |-> ev[j]] BY Zenon DEF SqueezeEntry, Versus, Mark
  <2> HIDE DEF ev, V
  <2>2. ev \in [1..n -> V] BY <1>1, <2>1
  <2> HIDE DEF n
  <2>3. n \in Nat BY DEF n
  <2> QED BY <2>2, <2>3
<1>3. \A j \in 1..n : \A p \in V : g[j][p] = SqueezeStep(z, j, p) /\ g[j][p] \in V
  <2> HIDE DEF ev
  <2> QED BY <1>1, Zenon DEF SqueezeStep, ev
<1>4. n \in Nat /\ 0 \in V OBVIOUS
<1> HIDE DEF V, g, n, ev
<1>5. PICK f : Carries(n, V, 0, g, f)
  <2>1. Closed(n, V, g) BY <1>3 DEF Closed
  <2> QED BY <1>4, <2>1, LoopEnds
<1>6. ASSUME NEW j \in 0..n, j # 0 PROVE j \in 1..n /\ j - 1 \in 0..n BY <1>4, <1>6
<1>7. f = [j \in 0..n |-> IF j = 0 THEN 0 ELSE SqueezeStep(z, j, f[j - 1])]
  BY <1>3, <1>5, <1>6, Zenon DEF Carries
<1>8. Squeeze(z) = [j \in 0..n |-> IF j = 0 THEN 0 ELSE SqueezeStep(z, j, Squeeze(z)[j - 1])]
  BY <1>7, Zenon DEF Squeeze, n
<1>9. SqueezeRelease(z) = Warm(200, [j \in DOMAIN ev |-> (CHOOSE f1 : f1 = [j1 \in 0..Len(ev) |->
                     IF j1 = 0 THEN 0 ELSE SqueezeStep(z, j1, f1[j1 - 1])])[j]])
  BY DEF SqueezeRelease,  HoldUntil, SqueezeEntry, SqueezeStep, ev
<1> QED BY <1>1, <1>2, <1>8, <1>9, Zenon DEF Squeeze, n

(* volatility.py: squeeze_release says what it said.                       *)
LEMMA SqueezeRule ==
  ASSUME NEW r, NEW t, Grown(r, t), NEW i \in DOMAIN r
  PROVE  SqueezeRelease(t)[i] = SqueezeRelease(r)[i]
<1>1. i \in DOMAIN r /\ i \in DOMAIN t /\ i \in 1..Len(r) BY Same
<1>2. Len(r) \in Nat /\ Len(t) \in Nat /\ DOMAIN r = 1..Len(r) /\ Len(t) = Len(r) + 1
      /\ DOMAIN t = 1..Len(t)
  BY DEF Grown, Stands
<1>3. ASSUME NEW j \in 1..Len(r), NEW p PROVE SqueezeStep(t, j, p) = SqueezeStep(r, j, p)
  <2>1. t[j] = r[j] /\ j \in DOMAIN r /\ j \in DOMAIN t /\ (j > 1 => t[j - 1] = r[j - 1])
    <3>1. j \in DOMAIN r /\ (j > 1 => j - 1 \in DOMAIN r) BY <1>2
    <3> QED BY <3>1, Same
  <2>2. SqueezeEntry(t)[j] = SqueezeEntry(r)[j] BY <2>1, Zenon DEF SqueezeEntry, Versus, Mark
  <2> QED BY <2>1, <2>2, Zenon DEF SqueezeStep
<1>4. /\ Squeeze(r) =
             [j \in 0..Len(r) |-> IF j = 0 THEN 0 ELSE SqueezeStep(r, j, Squeeze(r)[j - 1])]
      /\ SqueezeRelease(r) = Warm(200, [j \in DOMAIN r |-> Squeeze(r)[j]])
  BY <1>2, SqueezeLoop
<1>5. /\ Squeeze(t) =
             [j \in 0..Len(t) |-> IF j = 0 THEN 0 ELSE SqueezeStep(t, j, Squeeze(t)[j - 1])]
      /\ SqueezeRelease(t) = Warm(200, [j \in DOMAIN t |-> Squeeze(t)[j]])
  BY <1>2, SqueezeLoop
<1>6. \A j \in 0..Len(r) : Squeeze(t)[j] = Squeeze(r)[j]
  <2> DEFINE p == Squeeze(r)
             q == Squeeze(t)
  <2>1. p[0] = 0 /\ \A j \in 1..Len(r) : p[j] = SqueezeStep(r, j, p[j - 1])
    <3>1. 0 \in 0..Len(r) /\ \A j \in 1..Len(r) : j \in 0..Len(r) /\ j # 0 BY <1>2
    <3> QED BY <1>4, <3>1, Zenon
  <2>2. q[0] = 0 /\ \A j \in 1..Len(r) : q[j] = SqueezeStep(t, j, q[j - 1])
    <3>1. 0 \in 0..Len(t) /\ \A j \in 1..Len(r) : j \in 0..Len(t) /\ j # 0 BY <1>2
    <3> QED BY <1>5, <3>1, Zenon
  <2> HIDE DEF p, q
  <2>3. q[0] = p[0] /\ \A j \in 1..Len(r) : q[j - 1] = p[j - 1] => q[j] = p[j]
    BY <1>3, <2>1, <2>2
  <2>4. Len(r) \in Nat BY <1>2
  <2>5. \A j \in 0..Len(r) : q[j] = p[j] BY <2>3, <2>4, LoopsAgree
  <2> QED BY <2>5 DEF p, q
<1>7. Squeeze(t)[i] = Squeeze(r)[i] BY <1>1, <1>2, <1>6
<1> QED BY <1>1, <1>4, <1>5, <1>7, Zenon DEF Warm

(* keltner_breakout. *)
KeltnerEntry(z) == Mark(z, 1, LAMBDA j : Gt(z[j][1], z[j][2]), LAMBDA j : Lt(z[j][1], z[j][3]))

(* A bar of it.                                                            *)
KeltnerStep(z, j, p) ==
    IF KeltnerEntry(z)[j] # 0 THEN KeltnerEntry(z)[j]
    ELSE IF IF p = 1 THEN Lt(z[j][1], z[j][4]) ELSE Gt(z[j][1], z[j][4]) THEN 0 ELSE p

(* What the loop carries from bar to bar.                                  *)
Keltner(z) == CHOOSE f : f = [j \in 0..Len(z) |-> IF j = 0 THEN 0 ELSE KeltnerStep(z, j, f[j - 1])]

(* The loop has a result, and the rule's positions are it.                 *)
LEMMA KeltnerLoop ==
  ASSUME NEW z, Len(z) \in Nat, DOMAIN z = 1..Len(z)
  PROVE  /\ Keltner(z) =
                [j \in 0..Len(z) |-> IF j = 0 THEN 0 ELSE KeltnerStep(z, j, Keltner(z)[j - 1])]
         /\ KeltnerBreakout(z) = Warm(200, [j \in DOMAIN z |-> Keltner(z)[j]])
<1> DEFINE V == {-1, 0, 1}
           n == Len(z)
           ev == KeltnerEntry(z)
           g == [j \in 1..n |-> [p \in V |-> KeltnerStep(z, j, p)]]
<1>1. DOMAIN ev = 1..n /\ \A j \in 1..n : ev[j] \in V
  BY Zenon DEF KeltnerEntry, Mark
<1>2. Len(ev) = n
  <2>1. ev = [j \in 1..n |-> ev[j]] BY Zenon DEF KeltnerEntry, Mark
  <2> HIDE DEF ev, V
  <2>2. ev \in [1..n -> V] BY <1>1, <2>1
  <2> HIDE DEF n
  <2>3. n \in Nat BY DEF n
  <2> QED BY <2>2, <2>3
<1>3. \A j \in 1..n : \A p \in V : g[j][p] = KeltnerStep(z, j, p) /\ g[j][p] \in V
  <2> HIDE DEF ev
  <2> QED BY <1>1, Zenon DEF KeltnerStep, ev
<1>4. n \in Nat /\ 0 \in V OBVIOUS
<1> HIDE DEF V, g, n, ev
<1>5. PICK f : Carries(n, V, 0, g, f)
  <2>1. Closed(n, V, g) BY <1>3 DEF Closed
  <2> QED BY <1>4, <2>1, LoopEnds
<1>6. ASSUME NEW j \in 0..n, j # 0 PROVE j \in 1..n /\ j - 1 \in 0..n BY <1>4, <1>6
<1>7. f = [j \in 0..n |-> IF j = 0 THEN 0 ELSE KeltnerStep(z, j, f[j - 1])]
  BY <1>3, <1>5, <1>6, Zenon DEF Carries
<1>8. Keltner(z) = [j \in 0..n |-> IF j = 0 THEN 0 ELSE KeltnerStep(z, j, Keltner(z)[j - 1])]
  BY <1>7, Zenon DEF Keltner, n
<1>9. KeltnerBreakout(z) = Warm(200, [j \in DOMAIN ev |-> (CHOOSE f1 : f1 = [j1 \in 0..Len(ev) |->
                     IF j1 = 0 THEN 0 ELSE KeltnerStep(z, j1, f1[j1 - 1])])[j]])
  BY DEF KeltnerBreakout,  HoldUntil, KeltnerEntry, KeltnerStep, ev
<1> QED BY <1>1, <1>2, <1>8, <1>9, Zenon DEF Keltner, n

(* volatility.py: keltner_breakout says what it said.                      *)
LEMMA KeltnerRule ==
  ASSUME NEW r, NEW t, Grown(r, t), NEW i \in DOMAIN r
  PROVE  KeltnerBreakout(t)[i] = KeltnerBreakout(r)[i]
<1>1. i \in DOMAIN r /\ i \in DOMAIN t /\ i \in 1..Len(r) BY Same
<1>2. Len(r) \in Nat /\ Len(t) \in Nat /\ DOMAIN r = 1..Len(r) /\ Len(t) = Len(r) + 1
      /\ DOMAIN t = 1..Len(t)
  BY DEF Grown, Stands
<1>3. ASSUME NEW j \in 1..Len(r), NEW p PROVE KeltnerStep(t, j, p) = KeltnerStep(r, j, p)
  <2>1. t[j] = r[j] /\ j \in DOMAIN r /\ j \in DOMAIN t BY <1>2, Same
  <2>2. KeltnerEntry(t)[j] = KeltnerEntry(r)[j] BY <2>1, Zenon DEF KeltnerEntry, Mark
  <2> QED BY <2>1, <2>2, Zenon DEF KeltnerStep
<1>4. /\ Keltner(r) =
             [j \in 0..Len(r) |-> IF j = 0 THEN 0 ELSE KeltnerStep(r, j, Keltner(r)[j - 1])]
      /\ KeltnerBreakout(r) = Warm(200, [j \in DOMAIN r |-> Keltner(r)[j]])
  BY <1>2, KeltnerLoop
<1>5. /\ Keltner(t) =
             [j \in 0..Len(t) |-> IF j = 0 THEN 0 ELSE KeltnerStep(t, j, Keltner(t)[j - 1])]
      /\ KeltnerBreakout(t) = Warm(200, [j \in DOMAIN t |-> Keltner(t)[j]])
  BY <1>2, KeltnerLoop
<1>6. \A j \in 0..Len(r) : Keltner(t)[j] = Keltner(r)[j]
  <2> DEFINE p == Keltner(r)
             q == Keltner(t)
  <2>1. p[0] = 0 /\ \A j \in 1..Len(r) : p[j] = KeltnerStep(r, j, p[j - 1])
    <3>1. 0 \in 0..Len(r) /\ \A j \in 1..Len(r) : j \in 0..Len(r) /\ j # 0 BY <1>2
    <3> QED BY <1>4, <3>1, Zenon
  <2>2. q[0] = 0 /\ \A j \in 1..Len(r) : q[j] = KeltnerStep(t, j, q[j - 1])
    <3>1. 0 \in 0..Len(t) /\ \A j \in 1..Len(r) : j \in 0..Len(t) /\ j # 0 BY <1>2
    <3> QED BY <1>5, <3>1, Zenon
  <2> HIDE DEF p, q
  <2>3. q[0] = p[0] /\ \A j \in 1..Len(r) : q[j - 1] = p[j - 1] => q[j] = p[j]
    BY <1>3, <2>1, <2>2
  <2>4. Len(r) \in Nat BY <1>2
  <2>5. \A j \in 0..Len(r) : q[j] = p[j] BY <2>3, <2>4, LoopsAgree
  <2> QED BY <2>5 DEF p, q
<1>7. Keltner(t)[i] = Keltner(r)[i] BY <1>1, <1>2, <1>6
<1> QED BY <1>1, <1>4, <1>5, <1>7, Zenon DEF Warm

(* chandelier_trail and its control. *)
StopEntry(z) == Events(z, LAMBDA j : Gt(z[j][1], z[j][2]), LAMBDA j : Lt(z[j][1], z[j][3]))

(* A bar of it: the stop only turns, nothing takes it out.                 *)
StopStep(z, j, p) ==
    IF StopEntry(z)[j] # 0 THEN StopEntry(z)[j] ELSE IF FALSE THEN 0 ELSE p

(* What the loop carries from bar to bar.                                  *)
Stop(z) == CHOOSE f : f = [j \in 0..Len(z) |-> IF j = 0 THEN 0 ELSE StopStep(z, j, f[j - 1])]

(* The loop has a result, and the rule's positions are it.                 *)
LEMMA StopLoop ==
  ASSUME NEW z, Len(z) \in Nat, DOMAIN z = 1..Len(z)
  PROVE  /\ Stop(z) = [j \in 0..Len(z) |-> IF j = 0 THEN 0 ELSE StopStep(z, j, Stop(z)[j - 1])]
         /\ ChandelierTrail(z) = Warm(200, [j \in DOMAIN z |-> Stop(z)[j]])
<1> DEFINE V == {-1, 0, 1}
           n == Len(z)
           ev == StopEntry(z)
           g == [j \in 1..n |-> [p \in V |-> StopStep(z, j, p)]]
<1>1. DOMAIN ev = 1..n /\ \A j \in 1..n : ev[j] \in V
  BY Zenon DEF StopEntry, Events
<1>2. Len(ev) = n
  <2>1. ev = [j \in 1..n |-> ev[j]] BY Zenon DEF StopEntry, Events
  <2> HIDE DEF ev, V
  <2>2. ev \in [1..n -> V] BY <1>1, <2>1
  <2> HIDE DEF n
  <2>3. n \in Nat BY DEF n
  <2> QED BY <2>2, <2>3
<1>3. \A j \in 1..n : \A p \in V : g[j][p] = StopStep(z, j, p) /\ g[j][p] \in V
  <2> HIDE DEF ev
  <2> QED BY <1>1, Zenon DEF StopStep, ev
<1>4. n \in Nat /\ 0 \in V OBVIOUS
<1> HIDE DEF V, g, n, ev
<1>5. PICK f : Carries(n, V, 0, g, f)
  <2>1. Closed(n, V, g) BY <1>3 DEF Closed
  <2> QED BY <1>4, <2>1, LoopEnds
<1>6. ASSUME NEW j \in 0..n, j # 0 PROVE j \in 1..n /\ j - 1 \in 0..n BY <1>4, <1>6
<1>7. f = [j \in 0..n |-> IF j = 0 THEN 0 ELSE StopStep(z, j, f[j - 1])]
  BY <1>3, <1>5, <1>6, Zenon DEF Carries
<1>8. Stop(z) = [j \in 0..n |-> IF j = 0 THEN 0 ELSE StopStep(z, j, Stop(z)[j - 1])]
  BY <1>7, Zenon DEF Stop, n
<1>9. ChandelierTrail(z) = Warm(200, [j \in DOMAIN ev |-> (CHOOSE f1 : f1 = [j1 \in 0..Len(ev) |->
                     IF j1 = 0 THEN 0 ELSE StopStep(z, j1, f1[j1 - 1])])[j]])
  BY DEF ChandelierTrail, Chandelier,  HoldUntil, StopEntry, StopStep, ev
<1> QED BY <1>1, <1>2, <1>8, <1>9, Zenon DEF Stop, n

(* volatility.py: chandelier_trail says what it said, and its control,     *)
(* which is the same rule.                                                 *)
LEMMA StopRule ==
  ASSUME NEW r, NEW t, Grown(r, t), NEW i \in DOMAIN r
  PROVE  ChandelierTrail(t)[i] = ChandelierTrail(r)[i]
<1>1. i \in DOMAIN r /\ i \in DOMAIN t /\ i \in 1..Len(r) BY Same
<1>2. Len(r) \in Nat /\ Len(t) \in Nat /\ DOMAIN r = 1..Len(r) /\ Len(t) = Len(r) + 1
      /\ DOMAIN t = 1..Len(t)
  BY DEF Grown, Stands
<1>3. ASSUME NEW j \in 1..Len(r), NEW p PROVE StopStep(t, j, p) = StopStep(r, j, p)
  <2>1. t[j] = r[j] /\ j \in DOMAIN r /\ j \in DOMAIN t BY <1>2, Same
  <2>2. StopEntry(t)[j] = StopEntry(r)[j] BY <2>1, Zenon DEF StopEntry, Events
  <2> QED BY <2>1, <2>2, Zenon DEF StopStep
<1>4. /\ Stop(r) = [j \in 0..Len(r) |-> IF j = 0 THEN 0 ELSE StopStep(r, j, Stop(r)[j - 1])]
      /\ ChandelierTrail(r) = Warm(200, [j \in DOMAIN r |-> Stop(r)[j]])
  BY <1>2, StopLoop
<1>5. /\ Stop(t) = [j \in 0..Len(t) |-> IF j = 0 THEN 0 ELSE StopStep(t, j, Stop(t)[j - 1])]
      /\ ChandelierTrail(t) = Warm(200, [j \in DOMAIN t |-> Stop(t)[j]])
  BY <1>2, StopLoop
<1>6. \A j \in 0..Len(r) : Stop(t)[j] = Stop(r)[j]
  <2> DEFINE p == Stop(r)
             q == Stop(t)
  <2>1. p[0] = 0 /\ \A j \in 1..Len(r) : p[j] = StopStep(r, j, p[j - 1])
    <3>1. 0 \in 0..Len(r) /\ \A j \in 1..Len(r) : j \in 0..Len(r) /\ j # 0 BY <1>2
    <3> QED BY <1>4, <3>1, Zenon
  <2>2. q[0] = 0 /\ \A j \in 1..Len(r) : q[j] = StopStep(t, j, q[j - 1])
    <3>1. 0 \in 0..Len(t) /\ \A j \in 1..Len(r) : j \in 0..Len(t) /\ j # 0 BY <1>2
    <3> QED BY <1>5, <3>1, Zenon
  <2> HIDE DEF p, q
  <2>3. q[0] = p[0] /\ \A j \in 1..Len(r) : q[j - 1] = p[j - 1] => q[j] = p[j]
    BY <1>3, <2>1, <2>2
  <2>4. Len(r) \in Nat BY <1>2
  <2>5. \A j \in 0..Len(r) : q[j] = p[j] BY <2>3, <2>4, LoopsAgree
  <2> QED BY <2>5 DEF p, q
<1>7. Stop(t)[i] = Stop(r)[i] BY <1>1, <1>2, <1>6
<1> QED BY <1>1, <1>4, <1>5, <1>7, Zenon DEF Warm

-----------------------------------------------------------------------------
(* supertrend: what its loop carries, and a bar of it. *)
TrendSeed == [up |-> NaN, lo |-> NaN, pos |-> 0, out |-> 0]

(* The states of the loop.                                                 *)
TrendStates == [up : Int, lo : Int, pos : {-1, 0, 1}, out : {-1, 0, 1}]

(* The bands of a bar: they tighten, unless the close before broke them.   *)
TrendBands(z, st, j) ==
    [up |-> IF z[j][2] < st.up \/ Gt(z[j - 1][1], st.up) THEN z[j][2] ELSE st.up,
     lo |-> IF z[j][3] > st.lo \/ Lt(z[j - 1][1], st.lo) THEN z[j][3] ELSE st.lo]

(* A bar of the loop.                                                      *)
TrendStep(z, j, p) ==
    IF \E k \in 1..3 : ~Defined(z[j][k]) THEN [p EXCEPT !.out = 0]
    ELSE IF ~Defined(p.up) THEN [p EXCEPT !.up = z[j][2], !.lo = z[j][3], !.out = 0]
    ELSE LET b == TrendBands(z, p, j)
             side == IF z[j][1] > b.up THEN 1 ELSE IF z[j][1] < b.lo THEN -1 ELSE p.pos
         IN  [up |-> b.up, lo |-> b.lo, pos |-> side, out |-> side]

(* What the loop carries from bar to bar.                                  *)
TrendLoop(z) ==
    CHOOSE f : f = [j \in 0..Len(z) |-> IF j <= 1 THEN TrendSeed ELSE TrendStep(z, j, f[j - 1])]

(* A bar of the loop leads from a state of it to a state of it.            *)
LEMMA TrendStepType ==
  ASSUME NEW z, NEW j, z[j][2] \in Int, z[j][3] \in Int, NEW p \in TrendStates
  PROVE  TrendStep(z, j, p) \in TrendStates
<1> DEFINE b == TrendBands(z, p, j)
<1>1. b.up \in Int /\ b.lo \in Int BY DEF TrendBands, TrendStates
<1>2. TrendSeed \in TrendStates BY SMT DEF TrendSeed, TrendStates, NaN
<1>3. [p EXCEPT !.out = 0] \in TrendStates BY DEF TrendStates
<1>4. [p EXCEPT !.up = z[j][2], !.lo = z[j][3], !.out = 0] \in TrendStates BY DEF TrendStates
<1>5. p.pos \in {-1, 0, 1} BY DEF TrendStates
<1> HIDE DEF b
<1>6. \A x \in {-1, 0, 1} : [up |-> b.up, lo |-> b.lo, pos |-> x, out |-> x] \in TrendStates
  BY <1>1 DEF TrendStates
<1> DEFINE side == IF z[j][1] > b.up THEN 1 ELSE IF z[j][1] < b.lo THEN -1 ELSE p.pos
<1>7. side \in {-1, 0, 1} BY <1>5
<1> HIDE DEF side
<1>8. [up |-> b.up, lo |-> b.lo, pos |-> side, out |-> side] \in TrendStates BY <1>6, <1>7
<1> HIDE DEF TrendStates
<1> QED BY <1>2, <1>3, <1>4, <1>8, Zenon DEF TrendStep, b, side

(* The loop has a result.                                                  *)
LEMMA TrendLoopEnds ==
  ASSUME NEW z, Len(z) \in Nat, DOMAIN z = 1..Len(z), Readings(z)
  PROVE  TrendLoop(z) = [j \in 0..Len(z) |-> IF j <= 1 THEN TrendSeed
                                             ELSE TrendStep(z, j, TrendLoop(z)[j - 1])]
<1> DEFINE V == TrendStates
           n == Len(z)
           g == [j \in 1..n |-> [p \in V |-> IF j <= 1 THEN TrendSeed ELSE TrendStep(z, j, p)]]
<1>1. \A j \in 1..n : z[j][2] \in Int /\ z[j][3] \in Int BY SMT DEF Readings
<1>2. n \in Nat /\ TrendSeed \in V BY SMT DEF TrendSeed, TrendStates, NaN
<1>3. \A j \in 1..n : \A p \in V : /\ g[j][p] = IF j <= 1 THEN TrendSeed ELSE TrendStep(z, j, p)
                                 /\ g[j][p] \in V
  <2>1. \A j \in 1..n : \A p \in V : TrendStep(z, j, p) \in V BY <1>1, TrendStepType
  <2> HIDE DEF V
  <2> QED BY <1>2, <2>1
<1> HIDE DEF V, g, n
<1>4. PICK f : Carries(n, V, TrendSeed, g, f)
  <2>1. Closed(n, V, g) BY <1>3 DEF Closed
  <2> QED BY <1>2, <2>1, LoopEnds
<1>5. ASSUME NEW j \in 0..n, j # 0 PROVE j \in 1..n /\ j - 1 \in 0..n BY <1>2, <1>5
<1>6. f = [j \in 0..n |-> IF j <= 1 THEN TrendSeed ELSE TrendStep(z, j, f[j - 1])]
  <2>1. \A j \in 0..n : j = 0 => j <= 1 OBVIOUS
  <2> QED BY <1>3, <1>4, <1>5, <2>1, Zenon DEF Carries
<1> QED BY <1>6, Zenon DEF TrendLoop, n

(* trend.py: supertrend says what it said.                                 *)
LEMMA SupertrendRule ==
  ASSUME NEW r, NEW t, Grown(r, t), Readings(r), Readings(t), NEW i \in DOMAIN r
  PROVE  Supertrend(t)[i] = Supertrend(r)[i]
<1>1. i \in DOMAIN r /\ i \in DOMAIN t /\ i \in 1..Len(r) BY Same
<1>2. Len(r) \in Nat /\ Len(t) \in Nat /\ DOMAIN r = 1..Len(r) /\ Len(t) = Len(r) + 1
      /\ DOMAIN t = 1..Len(t)
  BY DEF Grown, Stands
<1>3. \A z : Len(z) \in Nat => Supertrend(z) = Warm(250, [j \in DOMAIN z |-> TrendLoop(z)[j].out])
  BY DEF Supertrend, TrendLoop, TrendStep, TrendBands, TrendSeed
<1>4. ASSUME NEW j \in 1..Len(r), NEW p PROVE ~(j <= 1) => TrendStep(t, j, p) = TrendStep(r, j, p)
  <2>1. t[j] = r[j] /\ (~(j <= 1) => t[j - 1] = r[j - 1])
    <3>1. j \in DOMAIN r /\ (~(j <= 1) => j - 1 \in DOMAIN r) BY <1>2
    <3> QED BY <3>1, Same
  <2> QED BY <2>1, Zenon DEF TrendStep, TrendBands
<1>5. TrendLoop(r) = [j \in 0..Len(r) |-> IF j <= 1 THEN TrendSeed
                                          ELSE TrendStep(r, j, TrendLoop(r)[j - 1])]
  BY <1>2, TrendLoopEnds
<1>6. TrendLoop(t) = [j \in 0..Len(t) |-> IF j <= 1 THEN TrendSeed
                                          ELSE TrendStep(t, j, TrendLoop(t)[j - 1])]
  BY <1>2, TrendLoopEnds
<1>7. \A j \in 0..Len(r) : TrendLoop(t)[j] = TrendLoop(r)[j]
  <2> DEFINE p == TrendLoop(r)
             q == TrendLoop(t)
  <2>1. p[0] = TrendSeed /\ \A j \in 1..Len(r) :
          p[j] = IF j <= 1 THEN TrendSeed ELSE TrendStep(r, j, p[j - 1])
    BY <1>2, <1>5
  <2>2. q[0] = TrendSeed /\ \A j \in 1..Len(r) :
          q[j] = IF j <= 1 THEN TrendSeed ELSE TrendStep(t, j, q[j - 1])
    BY <1>2, <1>6
  <2> HIDE DEF p, q
  <2>3. q[0] = p[0] /\ \A j \in 1..Len(r) : q[j - 1] = p[j - 1] => q[j] = p[j]
    BY <1>4, <2>1, <2>2
  <2>4. Len(r) \in Nat BY <1>2
  <2>5. \A j \in 0..Len(r) : q[j] = p[j] BY <2>3, <2>4, LoopsAgree
  <2> QED BY <2>5 DEF p, q
<1>8. TrendLoop(t)[i] = TrendLoop(r)[i] BY <1>1, <1>2, <1>7
<1>9. /\ Supertrend(r) = Warm(250, [j \in DOMAIN r |-> TrendLoop(r)[j].out])
      /\ Supertrend(t) = Warm(250, [j \in DOMAIN t |-> TrendLoop(t)[j].out])
  BY <1>2, <1>3
<1>10. TrendLoop(t)[i].out = TrendLoop(r)[i].out BY <1>8
<1> QED BY <1>1, <1>9, <1>10, SMT DEF Warm

-----------------------------------------------------------------------------
(* retest_hold: what the loop of one side carries, and a bar of it. *)
RetestIdle == [lvl |-> NaN, ttl |-> 0, touched |-> FALSE, event |-> FALSE]

(* The states of the loop.                                                 *)
RetestStates == [lvl : Int, ttl : Int, touched : BOOLEAN, event : BOOLEAN]

(* The level has been touched, on this bar or before.                      *)
RetestTouched(z, touch, v, j, p) == p.touched \/ Within(v, z[j][touch], p.lvl)

(* And the bar closes beyond it: the retest held.                          *)
RetestEvent(z, touch, v, j, p) == RetestTouched(z, touch, v, j, p) /\ Beyond(v, z[j][1], p.lvl)

(* A bar of the loop.                                                      *)
RetestStep(z, ch, touch, v, j, p) ==
    IF Beyond(v, z[j][1], Lag(z, ch, 1, j))
    THEN [RetestIdle EXCEPT !.lvl = Lag(z, ch, 1, j), !.ttl = Span(10)]
    ELSE IF p.ttl = 0 THEN [p EXCEPT !.event = FALSE]
    ELSE [lvl |-> p.lvl, ttl |-> IF RetestEvent(z, touch, v, j, p) THEN 0 ELSE p.ttl - 1,
          touched |-> RetestTouched(z, touch, v, j, p), event |-> RetestEvent(z, touch, v, j, p)]

(* What the loop carries from bar to bar.                                  *)
RetestLoop(z, ch, touch, v) ==
    CHOOSE f : f = [j \in 0..Len(z) |-> IF j = 0 THEN RetestIdle
                                        ELSE RetestStep(z, ch, touch, v, j, f[j - 1])]

(* A bar of the loop leads from a state of it to a state of it.            *)
LEMMA RetestStepType ==
  ASSUME NEW z, NEW ch, NEW touch, NEW v, NEW j, Lag(z, ch, 1, j) \in Int, NEW p \in RetestStates
  PROVE  RetestStep(z, ch, touch, v, j, p) \in RetestStates
<1> DEFINE a == RetestTouched(z, touch, v, j, p)
           e == RetestEvent(z, touch, v, j, p)
<1>1. a \in BOOLEAN /\ e \in BOOLEAN
  <2>1. p.touched \in BOOLEAN BY DEF RetestStates
  <2>2. Within(v, z[j][touch], p.lvl) \in BOOLEAN /\ Beyond(v, z[j][1], p.lvl) \in BOOLEAN
    BY Zenon DEF Within, Beyond, Le, Ge, Gt, Lt
  <2> QED BY <2>1, <2>2, Zenon DEF RetestTouched, RetestEvent
<1> HIDE DEF a, e
<1>2. Span(10) \in Int BY SpanIsNat, SMT
<1>3. [RetestIdle EXCEPT !.lvl = Lag(z, ch, 1, j), !.ttl = Span(10)] \in RetestStates
  BY <1>2 DEF RetestIdle, RetestStates
<1>4. [p EXCEPT !.event = FALSE] \in RetestStates BY DEF RetestStates
<1>5. [lvl |-> p.lvl, ttl |-> IF e THEN 0 ELSE p.ttl - 1, touched |-> a, event |-> e]
        \in RetestStates
  <2> DEFINE x == IF e THEN 0 ELSE p.ttl - 1
  <2>1. p.lvl \in Int /\ p.ttl \in Int BY DEF RetestStates
  <2>2. x \in Int BY <2>1
  <2> HIDE DEF x
  <2>3. [lvl |-> p.lvl, ttl |-> x, touched |-> a, event |-> e] \in RetestStates
    BY <1>1, <2>1, <2>2, Zenon DEF RetestStates
  <2> QED BY <2>3 DEF x
<1> HIDE DEF RetestStates
<1> QED BY <1>3, <1>4, <1>5, Zenon DEF RetestStep, a, e

(* The loop has a result.                                                  *)
LEMMA RetestLoopEnds ==
  ASSUME NEW z, Len(z) \in Nat, DOMAIN z = 1..Len(z), Readings(z),
         NEW ch \in 1..6, NEW touch, NEW v
  PROVE  RetestLoop(z, ch, touch, v)
           = [j \in 0..Len(z) |-> IF j = 0 THEN RetestIdle
                ELSE RetestStep(z, ch, touch, v, j, RetestLoop(z, ch, touch, v)[j - 1])]
<1> DEFINE V == RetestStates
           n == Len(z)
           g == [j \in 1..n |-> [p \in V |-> RetestStep(z, ch, touch, v, j, p)]]
<1>1. ASSUME NEW j \in 1..n PROVE Lag(z, ch, 1, j) \in Int
  <2>1. CASE j > Span(1)
    <3>1. Span(1) \in Nat /\ j - Span(1) \in DOMAIN z
      <4>1. Span(1) \in Nat /\ Span(1) > 0 BY SpanIsNat, SMT
      <4> QED BY <2>1, <4>1
    <3> QED BY <2>1, <3>1 DEF Lag, Readings
  <2>2. CASE ~(j > Span(1)) BY <2>2, SMT DEF Lag, NaN
  <2> QED BY <2>1, <2>2
<1>2. \A j \in 1..n : \A p \in V :
        g[j][p] = RetestStep(z, ch, touch, v, j, p) /\ g[j][p] \in V
  BY <1>1, RetestStepType
<1>3. n \in Nat /\ RetestIdle \in V BY SMT DEF RetestIdle, RetestStates, NaN
<1> HIDE DEF V, g, n
<1>4. PICK f : Carries(n, V, RetestIdle, g, f)
  <2>1. Closed(n, V, g) BY <1>2 DEF Closed
  <2> QED BY <1>3, <2>1, LoopEnds
<1>5. ASSUME NEW j \in 0..n, j # 0 PROVE j \in 1..n /\ j - 1 \in 0..n BY <1>3, <1>5
<1>6. f = [j \in 0..n |-> IF j = 0 THEN RetestIdle ELSE RetestStep(z, ch, touch, v, j, f[j - 1])]
  BY <1>2, <1>4, <1>5, Zenon DEF Carries
<1> QED BY <1>6, Zenon DEF RetestLoop, n

(* The retests of one side of the channel stay.                            *)
LEMMA SameRetests ==
  ASSUME NEW r, NEW t, Grown(r, t), Readings(r), Readings(t), NEW i \in DOMAIN r,
         NEW ch \in 1..6, NEW touch, NEW v
  PROVE  Retests(t, ch, touch, v)[i] = Retests(r, ch, touch, v)[i]
<1> DEFINE step(z, j, p) == RetestStep(z, ch, touch, v, j, p)
           loop(z) == RetestLoop(z, ch, touch, v)
<1>1. i \in DOMAIN r /\ i \in DOMAIN t /\ i \in 1..Len(r) BY Same
<1>2. Len(r) \in Nat /\ Len(t) \in Nat /\ DOMAIN r = 1..Len(r) /\ Len(t) = Len(r) + 1
      /\ DOMAIN t = 1..Len(t)
  BY DEF Grown, Stands
<1>3. \A z : Retests(z, ch, touch, v) = [j \in DOMAIN z |-> loop(z)[j].event]
  BY DEF Retests, RetestLoop, RetestStep, RetestTouched, RetestEvent, RetestIdle
<1>4. ASSUME NEW j \in 1..Len(r), NEW p PROVE step(t, j, p) = step(r, j, p)
  <2>1. t[j] = r[j] BY <1>2, Same
  <2>2. Lag(t, ch, 1, j) = Lag(r, ch, 1, j)
    <3>1. j \in DOMAIN r /\ 1 \in Nat BY <1>2
    <3> QED BY <3>1, SameLag
  <2> QED BY <2>1, <2>2, Zenon DEF RetestStep, RetestTouched, RetestEvent
<1>5. loop(r) = [j \in 0..Len(r) |-> IF j = 0 THEN RetestIdle ELSE step(r, j, loop(r)[j - 1])]
  BY <1>2, RetestLoopEnds
<1>6. loop(t) = [j \in 0..Len(t) |-> IF j = 0 THEN RetestIdle ELSE step(t, j, loop(t)[j - 1])]
  BY <1>2, RetestLoopEnds
<1>7. \A j \in 0..Len(r) : loop(t)[j] = loop(r)[j]
  <2> DEFINE p == loop(r)
             q == loop(t)
  <2> HIDE DEF step
  <2>1. p[0] = RetestIdle /\ \A j \in 1..Len(r) : p[j] = step(r, j, p[j - 1]) BY <1>2, <1>5
  <2>2. q[0] = RetestIdle /\ \A j \in 1..Len(r) : q[j] = step(t, j, q[j - 1]) BY <1>2, <1>6
  <2> HIDE DEF p, q
  <2>3. q[0] = p[0] /\ \A j \in 1..Len(r) : q[j - 1] = p[j - 1] => q[j] = p[j]
    BY <1>4, <2>1, <2>2
  <2>4. Len(r) \in Nat BY <1>2
  <2>5. \A j \in 0..Len(r) : q[j] = p[j] BY <2>3, <2>4, LoopsAgree
  <2> QED BY <2>5 DEF p, q
<1>8. loop(t)[i] = loop(r)[i] BY <1>1, <1>2, <1>7
<1>9. /\ Retests(r, ch, touch, v) = [j \in DOMAIN r |-> loop(r)[j].event]
      /\ Retests(t, ch, touch, v) = [j \in DOMAIN t |-> loop(t)[j].event]
  BY <1>3
<1> QED BY <1>1, <1>8, <1>9

(* structure.py: retest_hold says what it said.                            *)
LEMMA RetestRule ==
  ASSUME NEW r, NEW t, Grown(r, t), Readings(r), Readings(t), NEW i \in DOMAIN r
  PROVE  RetestHold(t)[i] = RetestHold(r)[i]
<1> DEFINE up(z) == Retests(z, 2, 5, 1)
           dn(z) == Retests(z, 3, 4, -1)
           ev(z) == Events(z, LAMBDA j : up(z)[j], LAMBDA j : dn(z)[j])
<1>1. Len(r) \in Nat /\ DOMAIN r = 1..Len(r) /\ DOMAIN t = 1..(Len(r) + 1) BY DEF Grown, Stands
<1>2. \A j \in DOMAIN r : j \in DOMAIN t /\ up(t)[j] = up(r)[j] /\ dn(t)[j] = dn(r)[j]
  BY Same, SameRetests, SMT
<1> HIDE DEF up, dn
<1>3. Stands(Len(r), ev(r), ev(t)) BY <1>1, <1>2, Zenon DEF Stands, Events
<1> HIDE DEF ev
<1>4. Warm(200, IfLong(t, 200, HoldFor(ev(t), 10)))[i]
        = Warm(200, IfLong(r, 200, HoldFor(ev(r), 10)))[i]
  BY <1>3, HeldForRule
<1> QED BY <1>4, Zenon DEF RetestHold, Rule, ev, up, dn

-----------------------------------------------------------------------------
(* candles.py: on a history it answers for, the shapes of a bar or two     *)
(* stay.                                                                   *)
LEMMA CandleRules ==
  ASSUME NEW r, NEW t, Grown(r, t), NEW i \in DOMAIN r, ~Shorter(r, MinBars), ~Shorter(t, MinBars)
  PROVE  /\ EngulfingRaw(t)[i] = EngulfingRaw(r)[i]
         /\ EngulfingTrend(t)[i] = EngulfingTrend(r)[i]
         /\ HammerOversold(t)[i] = HammerOversold(r)[i]
         /\ ShootingStarOverbought(t)[i] = ShootingStarOverbought(r)[i]
         /\ CloseInRange(t)[i] = CloseInRange(r)[i]
         /\ MarubozuContinuation(t)[i] = MarubozuContinuation(r)[i]
         /\ DojiAfterThrust(t)[i] = DojiAfterThrust(r)[i]
         /\ OutsizedWick(t)[i] = OutsizedWick(r)[i]
         /\ InsideBarBreak(t)[i] = InsideBarBreak(r)[i]
         /\ RangeGap(t)[i] = RangeGap(r)[i]
         /\ BodyFlow20(t)[i] = BodyFlow20(r)[i]
<1>1. i \in DOMAIN r /\ i \in DOMAIN t /\ t[i] = r[i] BY Same
<1>2. \A c : Lag(t, c, 1, i) = Lag(r, c, 1, i) /\ Lag(t, c, 2, i) = Lag(r, c, 2, i)
  BY SameLag, SMT
<1> USE <1>1, Zenon DEF Pattern, Warm, IfLong, Mark, Versus, Sign, Share, Always
<1>3. EngulfingRaw(t)[i] = EngulfingRaw(r)[i] BY DEF EngulfingRaw
<1>4. EngulfingTrend(t)[i] = EngulfingTrend(r)[i] BY DEF EngulfingTrend
<1>5. HammerOversold(t)[i] = HammerOversold(r)[i] BY DEF HammerOversold
<1>6. ShootingStarOverbought(t)[i] = ShootingStarOverbought(r)[i] BY DEF ShootingStarOverbought
<1>7. CloseInRange(t)[i] = CloseInRange(r)[i] BY DEF CloseInRange
<1>8. MarubozuContinuation(t)[i] = MarubozuContinuation(r)[i] BY DEF MarubozuContinuation
<1>9. DojiAfterThrust(t)[i] = DojiAfterThrust(r)[i] BY DEF DojiAfterThrust
<1>10. OutsizedWick(t)[i] = OutsizedWick(r)[i] BY DEF OutsizedWick
<1>11. InsideBarBreak(t)[i] = InsideBarBreak(r)[i]
  <2>1. /\ Lag(t, 2, 1, i) = Lag(r, 2, 1, i) /\ Lag(t, 2, 2, i) = Lag(r, 2, 2, i)
        /\ Lag(t, 3, 1, i) = Lag(r, 3, 1, i) /\ Lag(t, 3, 2, i) = Lag(r, 3, 2, i)
    BY <1>2
  <2> QED BY <2>1 DEF InsideBarBreak
<1>12. RangeGap(t)[i] = RangeGap(r)[i]
  <2>1. (\A k \in 1..2 : Defined(t[i][k]) /\ Defined(Lag(t, k, 1, i)))
          <=> (\A k \in 1..2 : Defined(r[i][k]) /\ Defined(Lag(r, k, 1, i)))
    BY <1>2
  <2>2. Lag(t, 1, 1, i) = Lag(r, 1, 1, i) /\ Lag(t, 2, 1, i) = Lag(r, 2, 1, i) BY <1>2
  <2> QED BY <2>1, <2>2 DEF RangeGap
<1>13. BodyFlow20(t)[i] = BodyFlow20(r)[i] BY DEF BodyFlow20
<1> QED BY <1>3, <1>4, <1>5, <1>6, <1>7, <1>8, <1>9, <1>10, <1>11, <1>12, <1>13

(* So do the ones it holds for some bars.                                  *)
LEMMA CandleHeld ==
  ASSUME NEW r, NEW t, Grown(r, t), NEW i \in DOMAIN r, ~Shorter(r, MinBars), ~Shorter(t, MinBars)
  PROVE  /\ RangeExpansion(t)[i] = RangeExpansion(r)[i]
         /\ ThreeDirectionalBars(t)[i] = ThreeDirectionalBars(r)[i]
<1>1. \A j \in DOMAIN r : j \in DOMAIN t /\ t[j] = r[j] BY Same
<1>2. Len(r) \in Nat /\ DOMAIN r = 1..Len(r) /\ DOMAIN t = 1..(Len(r) + 1) BY DEF Grown, Stands
<1>3. \A f, g : Stands(Len(r), f, g) =>
        Warm(200, IfLong(t, MinBars, HoldFor(g, 3)))[i]
          = Warm(200, IfLong(r, MinBars, HoldFor(f, 3)))[i]
  <2> SUFFICES ASSUME NEW f, NEW g, Stands(Len(r), f, g)
               PROVE  Warm(200, IfLong(t, MinBars, HoldFor(g, 3)))[i]
                        = Warm(200, IfLong(r, MinBars, HoldFor(f, 3)))[i]
    OBVIOUS
  <2>1. HoldFor(g, 3)[i] = HoldFor(f, 3)[i] BY <1>2, HoldForStands DEF Stands
  <2> QED BY <1>1, <2>1, Zenon DEF Warm, IfLong
<1>4. RangeExpansion(t)[i] = RangeExpansion(r)[i]
  <2> DEFINE shock(z, j) == Positive(Lag(z, 4, 1, j)) /\ Ge(z[j][3], Lag(z, 4, 1, j))
             ev(z) == Versus(z, 1, LAMBDA j : shock(z, j))
  <2>1. \A j \in DOMAIN r : shock(t, j) <=> shock(r, j)
    <3>1. \A j \in DOMAIN r : Lag(t, 4, 1, j) = Lag(r, 4, 1, j) BY SameLag, SMT
    <3> QED BY <1>1, <3>1, Zenon
  <2> HIDE DEF shock
  <2>2. Stands(Len(r), ev(r), ev(t)) BY <1>1, <1>2, <2>1, Zenon DEF Stands, Versus, Mark
  <2> HIDE DEF ev
  <2>3. Warm(200, IfLong(t, MinBars, HoldFor(ev(t), 3)))[i]
          = Warm(200, IfLong(r, MinBars, HoldFor(ev(r), 3)))[i]
    BY <1>3, <2>2
  <2> QED BY <2>3, Zenon DEF RangeExpansion, Pattern, ev, shock
<1>5. ThreeDirectionalBars(t)[i] = ThreeDirectionalBars(r)[i]
  <2> DEFINE ok(z, j) == Defined(z[j][1]) /\ Defined(z[j][2])
             ev(z) == Mark(z, 1, LAMBDA j : ok(z, j) /\ z[j][1] > 0,
                                 LAMBDA j : ok(z, j) /\ z[j][2] < 0)
  <2>1. Stands(Len(r), ev(r), ev(t)) BY <1>1, <1>2, Zenon DEF Stands, Mark
  <2> HIDE DEF ev
  <2>2. Warm(200, IfLong(t, MinBars, HoldFor(ev(t), 3)))[i]
          = Warm(200, IfLong(r, MinBars, HoldFor(ev(r), 3)))[i]
    BY <1>3, <2>1
  <2> QED BY <2>2, Zenon DEF ThreeDirectionalBars, Pattern, ev
<1> QED BY <1>4, <1>5

(* The bars the candle family answers for are in a long enough history.    *)
LEMMA AnsweredIsLong ==
  ASSUME NEW r, NEW t, Grown(r, t), NEW i \in DOMAIN r, i * BarsPerStep >= MinBars
  PROVE  ~Shorter(r, MinBars) /\ ~Shorter(t, MinBars)
<1>1. i \in Nat /\ Len(r) \in Nat /\ i <= Len(r) BY Same
<1>2. BarsPerStep \in Nat BY LengthsAssumption
<1>3. i * BarsPerStep \in Nat /\ Len(r) * BarsPerStep \in Nat
      /\ i * BarsPerStep <= Len(r) * BarsPerStep
  BY <1>1, <1>2, TimesMonotone
<1>4. ~Shorter(r, MinBars) BY <1>3 DEF Shorter, MinBars
<1>5. MinBars \in Nat /\ MinBars <= MinBars BY SMT DEF MinBars
<1> QED BY <1>4, <1>5, LongEnough

-----------------------------------------------------------------------------
(* seasonality.py: the rules that read nothing but the clock stay.         *)
LEMMA ClockRules ==
  ASSUME NEW r, NEW t, Grown(r, t), NEW i \in DOMAIN r
  PROVE  /\ UsCashHours(t)[i] = UsCashHours(r)[i]
         /\ AsiaHours(t)[i] = AsiaHours(r)[i]
         /\ Weekend(t)[i] = Weekend(r)[i]
         /\ FridayEvening(t)[i] = FridayEvening(r)[i]
         /\ PreFunding(t)[i] = PreFunding(r)[i]
         /\ TurnOfMonth(t)[i] = TurnOfMonth(r)[i]
         /\ PreQuarterlyExpiry(t)[i] = PreQuarterlyExpiry(r)[i]
         /\ PostMonthlyExpiry(t)[i] = PostMonthlyExpiry(r)[i]
         /\ HalvingPhase(t)[i] = HalvingPhase(r)[i]
<1>1. i \in DOMAIN r /\ i \in DOMAIN t /\ t[i] = r[i] BY Same
<1>2. HoldTs(t, i) = HoldTs(r, i) BY <1>1, Zenon DEF HoldTs
<1> USE <1>1, <1>2, Zenon DEF While, Warm, Mark, Sign
<1>3. UsCashHours(t)[i] = UsCashHours(r)[i] BY DEF UsCashHours
<1>4. AsiaHours(t)[i] = AsiaHours(r)[i] BY DEF AsiaHours
<1>5. Weekend(t)[i] = Weekend(r)[i] BY DEF Weekend
<1>6. FridayEvening(t)[i] = FridayEvening(r)[i] BY DEF FridayEvening
<1>7. PreFunding(t)[i] = PreFunding(r)[i] BY DEF PreFunding
<1>8. TurnOfMonth(t)[i] = TurnOfMonth(r)[i] BY DEF TurnOfMonth
<1>9. PreQuarterlyExpiry(t)[i] = PreQuarterlyExpiry(r)[i] BY DEF PreQuarterlyExpiry
<1>10. PostMonthlyExpiry(t)[i] = PostMonthlyExpiry(r)[i] BY DEF PostMonthlyExpiry
<1>11. HalvingPhase(t)[i] = HalvingPhase(r)[i]
  <2> DEFINE past(z, j) == {u \in Halvings : u <= HoldTs(z, j)}
             days(z, j) == (HoldTs(z, j) - Max(past(z, j))) \div 24
             up(z, j) == past(z, j) # {} /\ days(z, j) \in 180..540
             dn(z, j) == past(z, j) # {} /\ days(z, j) \in 541..900
  <2>1. past(t, i) = past(r, i) BY <1>2
  <2> HIDE DEF past
  <2>2. days(t, i) = days(r, i) BY <1>2, <2>1
  <2> HIDE DEF days
  <2>3. (up(t, i) <=> up(r, i)) /\ (dn(t, i) <=> dn(r, i)) BY <2>1, <2>2, SMT
  <2> HIDE DEF up, dn
  <2>4. \A z : HalvingPhase(z) = Warm(200, Mark(z, 1, LAMBDA j : up(z, j), LAMBDA j : dn(z, j)))
    BY DEF HalvingPhase, up, dn, days, past
  <2>5. /\ HalvingPhase(r) = Warm(200, Mark(r, 1, LAMBDA j : up(r, j), LAMBDA j : dn(r, j)))
        /\ HalvingPhase(t) = Warm(200, Mark(t, 1, LAMBDA j : up(t, j), LAMBDA j : dn(t, j)))
    BY <2>4
  <2> QED BY <1>1, <2>3, <2>5, ZenonT(40) DEF Warm, Mark
<1> QED BY <1>3, <1>4, <1>5, <1>6, <1>7, <1>8, <1>9, <1>10, <1>11

(* seasonality.py, _overlap_continuation: the morning a bar looks back to  *)
(* is over, and stays.                                                     *)
LEMMA SameOverlap ==
  ASSUME NEW r, NEW t, Grown(r, t), NEW i \in DOMAIN r
  PROVE  OverlapContinuation(t)[i] = OverlapContinuation(r)[i]
<1> DEFINE day(z, j) == Date(z[j][6])
           R == {j \in 1..i : j = 1 \/ day(r, j) # day(r, j - 1)}
           T == {j \in 1..i : j = 1 \/ day(t, j) # day(t, j - 1)}
           m == Max({0} \cup R)
<1>1. i \in DOMAIN r /\ i \in DOMAIN t /\ t[i] = r[i] /\ i \in Nat /\ 1 <= i BY Same
<1>2. HoldTs(t, i) = HoldTs(r, i) BY <1>1, Zenon DEF HoldTs
<1>3. R = T
  <2>1. ASSUME NEW j \in 1..i, j # 1 PROVE t[j] = r[j] /\ t[j - 1] = r[j - 1]
    <3>1. j - 1 \in 1..i BY <1>1, <2>1
    <3> QED BY <2>1, <3>1, SameBefore
  <2>2. \A j \in 1..i : j # 1 => day(t, j) = day(r, j) /\ day(t, j - 1) = day(r, j - 1)
    BY <2>1, Zenon
  <2> HIDE DEF day
  <2> QED BY <2>2
<1>4. R \in SUBSET (1..i) /\ 1 \in R BY <1>1
<1>5. m \in 1..i
  <2> HIDE DEF R
  <2>1. m \in {0} \cup R /\ \A y \in R : y <= m BY <1>1, <1>4, LastPlace
  <2> HIDE DEF m
  <2>2. 1 <= m BY <1>4, <2>1
  <2> QED BY <1>4, <2>1, <2>2
<1>6. t[m] = r[m] BY <1>5, SameBefore
<1> DEFINE in(z) == Hour(HoldTs(z, i)) \in 13..16
<1>7. OverlapContinuation(r)[i]
        = IF i * BarsPerStep <= 200 THEN 0
          ELSE IF in(r) /\ Lt(r[i][1], r[m][2]) THEN -1
          ELSE IF in(r) /\ Gt(r[i][1], r[m][2]) THEN 1 ELSE 0
  BY <1>1, Zenon DEF OverlapContinuation, Warm, Mark, LastWhere
<1>8. OverlapContinuation(t)[i]
        = IF i * BarsPerStep <= 200 THEN 0
          ELSE IF in(t) /\ Lt(t[i][1], t[m][2]) THEN -1
          ELSE IF in(t) /\ Gt(t[i][1], t[m][2]) THEN 1 ELSE 0
  <2>1. m = Max({0} \cup T) BY <1>3
  <2> HIDE DEF m
  <2> QED BY <1>1, <2>1, Zenon DEF OverlapContinuation, Warm, Mark, LastWhere
<1> HIDE DEF m
<1> QED BY <1>1, <1>2, <1>6, <1>7, <1>8, Zenon

(* seasonality.py, _cme_gap: the Friday close and the Sunday open a bar    *)
(* looks back to are over, and stay.                                       *)
LEMMA SameCmeGap ==
  ASSUME NEW r, NEW t, Grown(r, t), NEW i \in DOMAIN r
  PROVE  CmeGap(t)[i] = CmeGap(r)[i]
<1> DEFINE close(z, j) == Weekday(z[j][6]) = 4 /\ Hour(z[j][6]) = 21
           R == {j \in 1..i : close(r, j)}
           T == {j \in 1..i : close(t, j)}
           m == Max({0} \cup R)
<1>1. i \in DOMAIN r /\ i \in DOMAIN t /\ t[i] = r[i] /\ i \in Nat /\ 1 <= i BY Same
<1>2. HoldTs(t, i) = HoldTs(r, i) BY <1>1, Zenon DEF HoldTs
<1>3. R = T
  <2>1. \A j \in 1..i : t[j] = r[j] BY SameBefore
  <2>2. \A j \in 1..i : close(t, j) <=> close(r, j) BY <2>1, Zenon
  <2> HIDE DEF close
  <2> QED BY <2>2
<1>4. R \in SUBSET (1..i) OBVIOUS
<1>5. m > 0 => m \in 1..i
  <2> HIDE DEF R
  <2>1. m \in {0} \cup R BY <1>1, <1>4, LastPlace
  <2> HIDE DEF m
  <2> QED BY <1>4, <2>1
<1>6. m > 0 => t[m] = r[m] BY <1>5, SameBefore
<1> DEFINE inWindow(a) == \/ (Weekday(a) = 6 /\ Hour(a) >= 22)
                          \/ (Weekday(a) = 0 /\ Hour(a) <= 11)
           ok(z) == /\ inWindow(HoldTs(z, i)) /\ m > 0 /\ i - m <= Span(96)
                    /\ Defined(z[i][1]) /\ Defined(z[m][1]) /\ Defined(z[i][2])
           gap(z) == z[i][1] - z[m][1]
           says(z) == IF i * BarsPerStep <= 200 THEN 0
                      ELSE IF ok(z) /\ gap(z) < 0 /\ -gap(z) > z[i][2] THEN -(-1)
                      ELSE IF ok(z) /\ gap(z) > 0 /\ gap(z) > z[i][2] THEN -1 ELSE 0
<1>8. CmeGap(r)[i] = says(r)
  BY <1>1, Zenon DEF CmeGap, Warm, Mark, LastWhere
<1>9. CmeGap(t)[i] = says(t)
  <2>1. m = Max({0} \cup T) BY <1>3
  <2> HIDE DEF m
  <2> QED BY <1>1, <2>1, Zenon DEF CmeGap, Warm, Mark, LastWhere
<1> HIDE DEF m
<1>10. m > 0 => says(t) = says(r) BY <1>1, <1>2, <1>6, Zenon
<1>11. ~(m > 0) => says(t) = says(r) BY Zenon
<1> QED BY <1>8, <1>9, <1>10, <1>11

-----------------------------------------------------------------------------
(* expr.py, _Interpreter: the expressions there are.                       *)
Kinds == {"series", "number", "shift", "not", "minus", "gt", "ne", "crosses_above", "and", "or"}

(* What the interpreter makes of an expression at a bar depends on its     *)
(* operands there, the bar before, and where a shift takes it.             *)
Agree(r, t, e, n, x, y, i) ==
    /\ t[i] = r[i]
    /\ \A m \in Operands(e[n]) : y[m][i] = x[m][i] /\ (i > 1 => y[m][i - 1] = x[m][i - 1])
    /\ e[n][1] = "shift" =>
         /\ i - e[n][3] \in DOMAIN t <=> i - e[n][3] \in DOMAIN r
         /\ i - e[n][3] \in DOMAIN r => y[e[n][2]][i - e[n][3]] = x[e[n][2]][i - e[n][3]]

(* Operands that agree there make a value that agrees.                     *)
LEMMA SameVisit ==
  ASSUME NEW r, NEW t, NEW e, NEW n, NEW x, NEW y, NEW i, e[n][1] \in Kinds,
         Agree(r, t, e, n, x, y, i)
  PROVE  VisitAt(t, e, y, n, i) = VisitAt(r, e, x, n, i)
<1> DEFINE k == e[n]
           a(z) == z[k[2]][i]
           b(z) == z[k[3]][i]
           a1(z) == IF i > 1 THEN z[k[2]][i - 1] ELSE NaN
           b1(z) == IF i > 1 THEN z[k[3]][i - 1] ELSE NaN
           a2(z) == z[k[2]][i - k[3]]
           at(s1, z) ==
             CASE k[1] = "series" -> s1[i][k[2]]
               [] k[1] = "number" -> k[2]
               [] k[1] = "minus" -> IF Defined(a(z)) /\ Defined(b(z)) THEN a(z) - b(z) ELSE NaN
               [] k[1] = "shift" -> IF i - k[3] \in DOMAIN s1 THEN a2(z) ELSE NaN
               [] k[1] = "gt" -> Bit(Gt(a(z), b(z)))
               [] k[1] = "ne" -> Bit(~Defined(a(z)) \/ ~Defined(b(z)) \/ a(z) # b(z))
               [] k[1] = "crosses_above" -> Bit(Gt(a(z), b(z)) /\ Le(a1(z), b1(z)))
               [] k[1] = "and" -> Bit(Truth(a(z)) /\ Truth(b(z)))
               [] k[1] = "or" -> Bit(Truth(a(z)) \/ Truth(b(z)))
               [] k[1] = "not" -> Bit(~Truth(a(z)))
<1>1. VisitAt(t, e, y, n, i) = at(t, y) /\ VisitAt(r, e, x, n, i) = at(r, x) BY DEF VisitAt
<1>2. k[1] \in {"shift", "not", "minus", "gt", "ne", "crosses_above", "and", "or"} =>
        a(y) = a(x) /\ a1(y) = a1(x)
  <2>1. k[1] \in {"shift", "not", "minus", "gt", "ne", "crosses_above", "and", "or"} =>
          k[2] \in Operands(k)
    BY SMT DEF Operands
  <2> QED BY <2>1 DEF Agree
<1>3. k[1] \in {"minus", "gt", "ne", "crosses_above", "and", "or"} =>
        b(y) = b(x) /\ b1(y) = b1(x)
  <2>1. k[1] \in {"minus", "gt", "ne", "crosses_above", "and", "or"} => k[3] \in Operands(k)
    BY SMT DEF Operands
  <2> QED BY <2>1 DEF Agree
<1>4. k[1] = "shift" => /\ i - k[3] \in DOMAIN t <=> i - k[3] \in DOMAIN r
                        /\ i - k[3] \in DOMAIN r => a2(y) = a2(x)
  BY DEF Agree
<1>5. k[1] \in Kinds /\ t[i] = r[i] BY DEF Agree
<1> HIDE DEF k, a, b, a1, b1, a2
<1>6. at(t, y) = at(r, x)
  <2>1. CASE k[1] = "series" BY <1>5, <2>1
  <2>2. CASE k[1] = "number" BY <2>2
  <2>3. CASE k[1] = "shift" BY <1>4, <2>3
  <2>4. CASE k[1] = "minus" BY <1>2, <1>3, <2>4
  <2>5. CASE k[1] = "gt" BY <1>2, <1>3, <2>5
  <2>6. CASE k[1] = "ne" BY <1>2, <1>3, <2>6
  <2>7. CASE k[1] = "crosses_above" BY <1>2, <1>3, <2>7
  <2>8. CASE k[1] = "and" BY <1>2, <1>3, <2>8
  <2>9. CASE k[1] = "or" BY <1>2, <1>3, <2>9
  <2>10. CASE k[1] = "not" BY <1>2, <2>10
  <2> HIDE DEF at
  <2> QED BY <1>5, <2>1, <2>2, <2>3, <2>4, <2>5, <2>6, <2>7, <2>8, <2>9, <2>10 DEF Kinds
<1> QED BY <1>1, <1>6

(* The interpreter's table of a parsed rule.                               *)
Table(z, e) == CHOOSE val : val = [n \in DOMAIN e |-> Visit(z, e, val, n)]

(* Operands come before what they are in, so there is a table: by induction*)
(* on the places, from the last prefix without one.                        *)
LEMMA TableExists ==
  ASSUME NEW z, NEW e, Parsed(e)
  PROVE  Table(z, e) = [n \in DOMAIN e |-> Visit(z, e, Table(z, e), n)]
<1> DEFINE N == Len(e)
           Filled(m, f) == f = [n \in 1..m |-> Visit(z, e, f, n)]
           Bad == {m \in 0..N : ~\E f : Filled(m, f)}
<1>1. /\ N \in Nat /\ DOMAIN e = 1..N
      /\ \A n \in 1..N : e[n][1] \in Kinds /\ Operands(e[n]) \subseteq 1..(n - 1)
  BY DEF Parsed, Kinds
<1>2. ASSUME NEW n \in 1..N, NEW x, NEW y, \A m \in 1..(n - 1) : y[m] = x[m]
      PROVE  Visit(z, e, y, n) = Visit(z, e, x, n)
  <2>1. \A m \in Operands(e[n]) : y[m] = x[m] BY <1>1, <1>2
  <2>2. e[n][1] \in Kinds BY <1>1
  <2>3. ASSUME NEW i \in DOMAIN z PROVE VisitAt(z, e, y, n, i) = VisitAt(z, e, x, n, i)
    <3>1. e[n][1] = "shift" => e[n][2] \in Operands(e[n]) BY SMT DEF Operands
    <3>2. e[n][1] = "shift" => y[e[n][2]] = x[e[n][2]] BY <2>1, <3>1
    <3>3. \A m \in Operands(e[n]) :
            y[m][i] = x[m][i] /\ (i > 1 => y[m][i - 1] = x[m][i - 1])
      BY <2>1
    <3>4. Agree(z, z, e, n, x, y, i) BY <3>2, <3>3, Zenon DEF Agree
    <3> QED BY <2>2, <3>4, SameVisit
  <2> QED BY <2>3, Zenon DEF Visit
<1>3. Bad = {}
  <2> SUFFICES ASSUME Bad # {} PROVE FALSE OBVIOUS
  <2>1. Bad \in SUBSET Nat OBVIOUS
  <2> DEFINE m == Min(Bad)
  <2>2. m \in Bad /\ \A q \in Bad : m <= q
    <3> HIDE DEF Bad
    <3> QED BY <2>1, HasLeast
  <2> HIDE DEF m
  <2>3. m \in 0..N /\ ~\E f : Filled(m, f) BY <2>2
  <2>4. m # 0
    <3> DEFINE f == [n \in 1..0 |-> 0]
    <3>1. \A n \in 1..0 : FALSE OBVIOUS
    <3>2. f = [n \in 1..0 |-> Visit(z, e, f, n)] BY <3>1, Zenon
    <3> HIDE DEF f
    <3>3. Filled(0, f) BY <3>2
    <3> QED BY <2>3, <3>3
  <2>5. m - 1 \in 0..N /\ m - 1 \notin Bad
    <3> HIDE DEF Bad
    <3> QED BY <1>1, <2>2, <2>3, <2>4
  <2>6. PICK f : Filled(m - 1, f) BY <2>5
  <2> HIDE DEF Bad
  <2> DEFINE g == [n \in 1..m |-> IF n = m THEN Visit(z, e, f, m) ELSE f[n]]
  <2>7. \A n \in 1..m : n \in 1..N /\ (n # m => n \in 1..(m - 1))
    BY <1>1, <2>3
  <2>8. ASSUME NEW n \in 1..m PROVE g[n] = Visit(z, e, g, n)
    <3>1. \A q \in 1..(n - 1) : q \in 1..m /\ q # m BY <1>1, <2>3
    <3>2. \A q \in 1..(n - 1) : g[q] = f[q] BY <3>1
    <3>3. g[n] = IF n = m THEN Visit(z, e, f, m) ELSE f[n] OBVIOUS
    <3> HIDE DEF g
    <3>4. Visit(z, e, g, n) = Visit(z, e, f, n) BY <1>2, <2>7, <3>2
    <3>5. n # m => f[n] = Visit(z, e, f, n) BY <2>6, <2>7, Zenon
    <3> QED BY <3>3, <3>4, <3>5
  <2>9. Filled(m, g)
    <3>1. \A n \in 1..m : g[n] = Visit(z, e, g, n) BY <2>8
    <3>2. g = [n \in 1..m |-> g[n]] BY Zenon
    <3> HIDE DEF g
    <3> QED BY <3>1, <3>2, Zenon
  <2> HIDE DEF g
  <2> QED BY <2>3, <2>9
<1>4. \E f : Filled(N, f)
  <2>1. N \in 0..N /\ N \notin Bad
    <3> HIDE DEF Bad
    <3> QED BY <1>1, <1>3
  <2> QED BY <2>1
<1> QED BY <1>1, <1>4, Zenon DEF Table

(* Every entry of it agrees on the bars that were there: a shift that is   *)
(* allowed does not look ahead.                                            *)
LEMMA SameTable ==
  ASSUME NEW r, NEW t, Grown(r, t), NEW e, Parsed(e), Allowed(e)
  PROVE  \A n \in DOMAIN e : \A i \in DOMAIN r : Table(t, e)[n][i] = Table(r, e)[n][i]
<1> DEFINE Bad == {n \in DOMAIN e : ~\A i \in DOMAIN r : Table(t, e)[n][i] = Table(r, e)[n][i]}
<1>1. /\ Len(e) \in Nat /\ DOMAIN e = 1..Len(e)
      /\ \A n \in 1..Len(e) : /\ e[n][1] \in Kinds /\ Operands(e[n]) \subseteq 1..(n - 1)
                              /\ e[n][1] = "shift" => e[n][3] \in Nat
  BY DEF Parsed, Kinds, Allowed, ShiftAllowed
<1>2. SUFFICES ASSUME Bad # {} PROVE FALSE OBVIOUS
<1>3. Bad \in SUBSET Nat BY <1>1
<1> DEFINE n == Min(Bad)
<1>4. n \in Bad /\ \A q \in Bad : n <= q
  <2> HIDE DEF Bad
  <2> QED BY <1>2, <1>3, HasLeast
<1> HIDE DEF n
<1>5. n \in 1..Len(e) /\ ~\A i \in DOMAIN r : Table(t, e)[n][i] = Table(r, e)[n][i] BY <1>1, <1>4
<1>6. \A m \in 1..(n - 1) : m \in DOMAIN e /\ m \notin Bad
  <2> HIDE DEF Bad
  <2> QED BY <1>1, <1>4, <1>5
<1>7. \A m \in 1..(n - 1) : \A i \in DOMAIN r : Table(t, e)[m][i] = Table(r, e)[m][i] BY <1>6
<1> HIDE DEF Bad
<1>8. /\ Table(r, e)[n] = Visit(r, e, Table(r, e), n)
      /\ Table(t, e)[n] = Visit(t, e, Table(t, e), n)
  <2>1. Table(r, e) = [m \in DOMAIN e |-> Visit(r, e, Table(r, e), m)] BY TableExists
  <2>2. Table(t, e) = [m \in DOMAIN e |-> Visit(t, e, Table(t, e), m)] BY TableExists
  <2>3. n \in DOMAIN e BY <1>1, <1>5
  <2> QED BY <2>1, <2>2, <2>3, Zenon
<1>9. ASSUME NEW i \in DOMAIN r PROVE Table(t, e)[n][i] = Table(r, e)[n][i]
  <2> DEFINE x == Table(r, e)
             y == Table(t, e)
             k == e[n][3]
  <2>1. /\ i \in DOMAIN r /\ i \in DOMAIN t /\ t[i] = r[i] /\ i \in Nat /\ Len(r) \in Nat
        /\ DOMAIN r = 1..Len(r) /\ DOMAIN t = 1..(Len(r) + 1)
    BY Same DEF Grown, Stands
  <2>2. e[n][1] \in Kinds /\ (e[n][1] = "shift" => k \in Nat /\ e[n][2] \in Operands(e[n]))
    <3>1. e[n][1] = "shift" => e[n][2] \in Operands(e[n]) BY SMT DEF Operands
    <3> QED BY <1>1, <1>5, <3>1
  <2>3. \A m \in Operands(e[n]) : \A j \in DOMAIN r : y[m][j] = x[m][j] BY <1>1, <1>5, <1>7
  <2> HIDE DEF x, y, k
  <2>4. i > 1 => i - 1 \in DOMAIN r BY <2>1
  <2>5. \A m \in Operands(e[n]) : y[m][i] = x[m][i] /\ (i > 1 => y[m][i - 1] = x[m][i - 1])
    BY <2>3, <2>4
  <2>6. k \in Nat => (i - k \in DOMAIN t <=> i - k \in DOMAIN r) BY <2>1
  <2>7. e[n][1] = "shift" => /\ i - e[n][3] \in DOMAIN t <=> i - e[n][3] \in DOMAIN r
                             /\ i - e[n][3] \in DOMAIN r
                                  => y[e[n][2]][i - e[n][3]] = x[e[n][2]][i - e[n][3]]
    BY <2>2, <2>3, <2>6 DEF k
  <2>8. Agree(r, t, e, n, x, y, i) BY <2>1, <2>5, <2>7, Zenon DEF Agree
  <2>9. VisitAt(t, e, y, n, i) = VisitAt(r, e, x, n, i) BY <2>2, <2>8, SameVisit
  <2> QED BY <1>8, <2>1, <2>9 DEF Visit, x, y
<1> QED BY <1>5, <1>9

(* So does the value of the rule.                                          *)
LEMMA SameEval ==
  ASSUME NEW r, NEW t, Grown(r, t), NEW e, Parsed(e), Allowed(e), NEW i \in DOMAIN r
  PROVE  Eval(t, e)[i] = Eval(r, e)[i]
<1>1. \A z : Eval(z, e) = IF Len(e) = 0 THEN Flat(z) ELSE Table(z, e)[Len(e)]
  BY DEF Eval, Table
<1>2. CASE Len(e) = 0
  <2>1. i \in DOMAIN r /\ i \in DOMAIN t BY Same
  <2> QED BY <1>1, <1>2, <2>1 DEF Flat
<1>3. CASE Len(e) # 0
  <2>1. Len(e) \in DOMAIN e BY <1>3 DEF Parsed
  <2> QED BY <1>1, <1>3, <2>1, SameTable
<1> QED BY <1>2, <1>3

(* expr.py, evaluate_rule: the user's rules say what they said.            *)
LEMMA SameRule ==
  ASSUME NEW r, NEW t, Grown(r, t), NEW rule, Parsed(rule.long), Parsed(rule.short),
         NEW i \in DOMAIN r
  PROVE  RuleSignals(t, rule)[i] = RuleSignals(r, rule)[i]
<1>1. i \in DOMAIN r /\ i \in DOMAIN t BY Same
<1>2. CASE Allowed(rule.long) /\ Allowed(rule.short)
  <2>1. Eval(t, rule.long)[i] = Eval(r, rule.long)[i] BY <1>2, SameEval
  <2>2. Eval(t, rule.short)[i] = Eval(r, rule.short)[i] BY <1>2, SameEval
  <2> QED BY <1>1, <1>2, <2>1, <2>2, Zenon DEF RuleSignals, Events
<1>3. CASE ~(Allowed(rule.long) /\ Allowed(rule.short))
  BY <1>1, <1>3, Zenon DEF RuleSignals, Flat
<1> QED BY <1>2, <1>3

(* A file of positions: what was carried forward stays. *)
LEMMA SameFile ==
  ASSUME NEW r, NEW t, Grown(r, t), NEW i \in DOMAIN r
  PROVE  AlignToBars(t)[i] = AlignToBars(r)[i]
<1> DEFINE R == {j \in 1..i : Defined(r[j][2])}
           T == {j \in 1..i : Defined(t[j][2])}
           m == Max({0} \cup R)
<1>1. i \in DOMAIN r /\ i \in DOMAIN t /\ i \in Nat BY Same
<1>2. \A j \in 1..i : t[j] = r[j] BY SameBefore
<1>3. R = T BY <1>2, Zenon
<1>4. m = 0 \/ m \in 1..i
  <2>1. R \in SUBSET (1..i) OBVIOUS
  <2> HIDE DEF R
  <2>2. m \in {0} \cup R BY <1>1, <2>1, LastPlace
  <2> QED BY <2>1, <2>2
<1>5. AlignToBars(r)[i] = IF m = 0 THEN 0 ELSE r[m][2]
  BY <1>1, Zenon DEF AlignToBars, LastWhere
<1>6. AlignToBars(t)[i] = IF m = 0 THEN 0 ELSE t[m][2]
  BY <1>1, <1>3, Zenon DEF AlignToBars, LastWhere
<1> HIDE DEF m
<1> QED BY <1>2, <1>4, <1>5, <1>6

-----------------------------------------------------------------------------
(* trend.py: every rule of the family.                                     *)
LEMMA TrendSettled ==
  ASSUME NEW r, NEW t, Grown(r, t), Readings(r), Readings(t), NEW i \in DOMAIN r,
         NEW name \in TrendNames
  PROVE  TrendSignals(name, t)[i] = TrendSignals(name, r)[i]
BY TrendRules, TurtleRule, SupertrendRule, SMT DEF TrendNames, TrendSignals

(* momentum.py: every rule of the family.                                  *)
LEMMA MomentumSettled ==
  ASSUME NEW r, NEW t, Grown(r, t), Readings(r), NEW i \in DOMAIN r, NEW name \in MomentumNames
  PROVE  MomentumSignals(name, t)[i] = MomentumSignals(name, r)[i]
BY MomentumRules, ExtremeRules, SMT DEF MomentumNames, MomentumSignals

(* mean_reversion.py: every rule of the family.                            *)
LEMMA ReversionSettled ==
  ASSUME NEW r, NEW t, Grown(r, t), NEW i \in DOMAIN r, NEW name \in ReversionNames
  PROVE  ReversionSignals(name, t)[i] = ReversionSignals(name, r)[i]
BY ReversionRules, ReentryRule, SMT DEF ReversionNames, ReversionSignals

(* volatility.py: every rule of the family.                                *)
LEMMA VolatilitySettled ==
  ASSUME NEW r, NEW t, Grown(r, t), NEW i \in DOMAIN r, NEW name \in VolatilityNames
  PROVE  VolatilitySignals(name, t)[i] = VolatilitySignals(name, r)[i]
<1>1. ChandelierFixed(t)[i] = ChandelierFixed(r)[i]
  BY StopRule DEF ChandelierFixed, ChandelierTrail
<1> QED BY <1>1, VolatilityRules, SqueezeRule, KeltnerRule, StopRule, SMT
        DEF VolatilityNames, VolatilitySignals

(* flow.py: every rule of the family.                                      *)
LEMMA FlowSettled ==
  ASSUME NEW r, NEW t, Grown(r, t), NEW i \in DOMAIN r, NEW name \in FlowNames
  PROVE  FlowSignals(name, t)[i] = FlowSignals(name, r)[i]
BY FlowRules, FlowHeld, VwapRules, SMT DEF FlowNames, FlowSignals

(* structure.py: every rule of the family.                                 *)
LEMMA StructureSettled ==
  ASSUME NEW r, NEW t, Grown(r, t), Readings(r), Readings(t), NEW i \in DOMAIN r,
         NEW name \in StructureNames
  PROVE  StructureSignals(name, t)[i] = StructureSignals(name, r)[i]
BY PivotRules, ChannelRules, ChannelRule, RetestRule, SMT DEF StructureNames, StructureSignals

(* candles.py: every rule of the family, on the bars it answers for.       *)
LEMMA CandlesSettled ==
  ASSUME NEW r, NEW t, Grown(r, t), NEW i \in DOMAIN r, i * BarsPerStep >= MinBars,
         NEW name \in CandleNames
  PROVE  CandleSignals(name, t)[i] = CandleSignals(name, r)[i]
<1>1. ~Shorter(r, MinBars) /\ ~Shorter(t, MinBars) BY AnsweredIsLong
<1> QED BY <1>1, CandleRules, CandleHeld, SMT DEF CandleNames, CandleSignals

(* seasonality.py: every rule of the family.                               *)
LEMMA SeasonsSettled ==
  ASSUME NEW r, NEW t, Grown(r, t), NEW i \in DOMAIN r, NEW name \in SeasonalityNames
  PROVE  SeasonalitySignals(name, t)[i] = SeasonalitySignals(name, r)[i]
BY ClockRules, SameOverlap, SameCmeGap, SMT DEF SeasonalityNames, SeasonalitySignals

-----------------------------------------------------------------------------
(* A hypothesis is registered in one family, and under a name of its own.  *)
LEMMA Families ==
  ASSUME NEW name
  PROVE  /\ name \in Registry => name \notin DOMAIN RuleBook /\ name # "file"
         /\ name \in TrendNames =>
              name \notin MomentumNames \cup ReversionNames \cup VolatilityNames
                           \cup FlowNames \cup StructureNames \cup CandleNames
                           \cup SeasonalityNames
         /\ name \in MomentumNames =>
              name \notin ReversionNames \cup VolatilityNames \cup FlowNames
                           \cup StructureNames \cup CandleNames \cup SeasonalityNames
         /\ name \in ReversionNames =>
              name \notin VolatilityNames \cup FlowNames \cup StructureNames
                           \cup CandleNames \cup SeasonalityNames
         /\ name \in VolatilityNames =>
              name \notin FlowNames \cup StructureNames \cup CandleNames
                           \cup SeasonalityNames
         /\ name \in FlowNames =>
              name \notin StructureNames \cup CandleNames \cup SeasonalityNames
         /\ name \in StructureNames =>
              name \notin CandleNames \cup SeasonalityNames
         /\ name \in CandleNames => name \notin SeasonalityNames
<1>1. name \in Registry => name \notin DOMAIN RuleBook /\ name # "file"
  <2>1. name \in Registry => name \notin DOMAIN RuleBook BY RulesAssumption
  <2>2. name \in Registry => name # "file"
    BY SMT DEF Registry, TrendNames, MomentumNames, ReversionNames, VolatilityNames,
               FlowNames, StructureNames, CandleNames, SeasonalityNames
  <2> QED BY <2>1, <2>2
<1>2. name \in TrendNames =>
        name \notin MomentumNames \cup ReversionNames \cup VolatilityNames \cup FlowNames
                     \cup StructureNames \cup CandleNames \cup SeasonalityNames
  BY SMT DEF TrendNames, MomentumNames, ReversionNames, VolatilityNames, FlowNames,
             StructureNames, CandleNames, SeasonalityNames
<1>3. name \in MomentumNames =>
        name \notin ReversionNames \cup VolatilityNames \cup FlowNames \cup StructureNames
                     \cup CandleNames \cup SeasonalityNames
  BY SMT DEF MomentumNames, ReversionNames, VolatilityNames, FlowNames, StructureNames,
             CandleNames, SeasonalityNames
<1>4. name \in ReversionNames =>
        name \notin VolatilityNames \cup FlowNames \cup StructureNames \cup CandleNames
                     \cup SeasonalityNames
  BY SMT DEF ReversionNames, VolatilityNames, FlowNames, StructureNames, CandleNames,
             SeasonalityNames
<1>5. name \in VolatilityNames =>
        name \notin FlowNames \cup StructureNames \cup CandleNames \cup SeasonalityNames
  BY SMT DEF VolatilityNames, FlowNames, StructureNames, CandleNames, SeasonalityNames
<1>6. name \in FlowNames =>
        name \notin StructureNames \cup CandleNames \cup SeasonalityNames
  BY SMT DEF FlowNames, StructureNames, CandleNames, SeasonalityNames
<1>7. name \in StructureNames =>
        name \notin CandleNames \cup SeasonalityNames
  BY SMT DEF StructureNames, CandleNames, SeasonalityNames
<1>8. name \in CandleNames => name \notin SeasonalityNames
  BY SMT DEF CandleNames, SeasonalityNames
<1> QED BY <1>1, <1>2, <1>3, <1>4, <1>5, <1>6, <1>7, <1>8

(* Whatever the strategy, of the catalogue or the user's, what it says     *)
(* about a bar does not change when a bar arrives.                         *)
LEMMA SignalsSettled ==
  ASSUME NEW r, NEW t, Grown(r, t), Readings(r), Readings(t), NEW i \in DOMAIN r,
         NEW name \in Strategies, name \in CandleNames => i * BarsPerStep >= MinBars
  PROVE  Signals(name, t)[i] = Signals(name, r)[i]
<1>1. /\ name \in Registry <=> \/ name \in TrendNames \/ name \in MomentumNames
                               \/ name \in ReversionNames \/ name \in VolatilityNames
                               \/ name \in FlowNames \/ name \in StructureNames
                               \/ name \in CandleNames \/ name \in SeasonalityNames
      /\ name \in Registry \/ name \in DOMAIN RuleBook \/ name = "file"
      /\ name \in DOMAIN RuleBook => name # "file"
  BY RulesAssumption DEF Registry, Strategies
<1>2. CASE name \in TrendNames
  <2>1. \A z : Signals(name, z) = TrendSignals(name, z)
    BY <1>1, <1>2, Families, SMT DEF Signals
  <2> QED BY <1>2, <2>1, TrendSettled
<1>3. CASE name \in MomentumNames
  <2>1. \A z : Signals(name, z) = MomentumSignals(name, z)
    BY <1>1, <1>3, Families, SMT DEF Signals
  <2> QED BY <1>3, <2>1, MomentumSettled
<1>4. CASE name \in ReversionNames
  <2>1. \A z : Signals(name, z) = ReversionSignals(name, z)
    BY <1>1, <1>4, Families, SMT DEF Signals
  <2> QED BY <1>4, <2>1, ReversionSettled
<1>5. CASE name \in VolatilityNames
  <2>1. \A z : Signals(name, z) = VolatilitySignals(name, z)
    BY <1>1, <1>5, Families, SMT DEF Signals
  <2> QED BY <1>5, <2>1, VolatilitySettled
<1>6. CASE name \in FlowNames
  <2>1. \A z : Signals(name, z) = FlowSignals(name, z)
    BY <1>1, <1>6, Families, SMT DEF Signals
  <2> QED BY <1>6, <2>1, FlowSettled
<1>7. CASE name \in StructureNames
  <2>1. \A z : Signals(name, z) = StructureSignals(name, z)
    BY <1>1, <1>7, Families, SMT DEF Signals
  <2> QED BY <1>7, <2>1, StructureSettled
<1>8. CASE name \in CandleNames
  <2>1. \A z : Signals(name, z) = CandleSignals(name, z)
    BY <1>1, <1>8, Families, SMT DEF Signals
  <2> QED BY <1>8, <2>1, CandlesSettled
<1>9. CASE name \in SeasonalityNames
  <2>1. \A z : Signals(name, z) = SeasonalitySignals(name, z)
    BY <1>1, <1>9, Families, SMT DEF Signals
  <2> QED BY <1>9, <2>1, SeasonsSettled
<1>10. CASE name \in DOMAIN RuleBook
  <2>1. \A z : Signals(name, z) = RuleSignals(z, RuleBook[name])
    BY <1>1, <1>10, Families, SMT DEF Signals
  <2> QED BY <1>10, <2>1, SameRule, RulesAssumption
<1>11. CASE name = "file"
  <2>1. \A z : Signals(name, z) = AlignToBars(z) BY <1>1, <1>11, Families, SMT DEF Signals
  <2> QED BY <2>1, SameFile
<1> QED BY <1>1, <1>2, <1>3, <1>4, <1>5, <1>6, <1>7, <1>8, <1>9, <1>10, <1>11

-----------------------------------------------------------------------------
(* The history, as the run keeps it: a sequence of bars of six numbers, in *)
(* the order of their times.                                               *)
History ==
    /\ h \in Strategies
    /\ luck \in BOOLEAN
    /\ s \in Seq({bar \in Seq(Int) : Len(bar) = 6})
    /\ \A i, j \in DOMAIN s : i <= j => s[i][6] <= s[j][6]

(* It starts so.                                                           *)
LEMMA HistoryInit == Init => History
<1> SUFFICES ASSUME Init PROVE History OBVIOUS
<1>1. s = << >> /\ h \in Strategies /\ luck \in BOOLEAN BY DEF Init
<1> QED BY <1>1 DEF History

(* And stays so when a bar arrives.                                        *)
LEMMA HistoryStep == History /\ [Next]_vars => History'
<1> DEFINE Bars == {bar \in Seq(Int) : Len(bar) = 6}
<1> SUFFICES ASSUME History, [Next]_vars PROVE History' OBVIOUS
<1>1. s \in Seq(Bars) /\ h \in Strategies /\ luck \in BOOLEAN BY DEF History
<1>2. CASE UNCHANGED vars BY <1>1, <1>2 DEF History, vars
<1>3. CASE Arrive
  <2>1. PICK row \in IF (Len(s) + 3) * BarsPerStep <= WarmUp(h) THEN {Early} ELSE Rows(h),
             t \in IF s = << >> THEN Starts ELSE {s[Len(s)][6] + dt : dt \in Ticks(h)} :
          s' = Append(s, row \o <<t>>)
    BY <1>3 DEF Arrive
  <2>2. row \in Seq(Int) /\ Len(row) = 5 BY <1>1, RowsAssumption
  <2>3. t \in Int
    <3>1. CASE s = << >> BY <2>1, <3>1, RowsAssumption
    <3>2. CASE s # << >>
      <4>1. s[Len(s)] \in Bars BY <1>1, <3>2
      <4>2. s[Len(s)][6] \in Int BY <4>1
      <4>3. \A dt \in Ticks(h) : dt \in Int BY <1>1, RowsAssumption
      <4> QED BY <2>1, <3>2, <4>2, <4>3
    <3> QED BY <3>1, <3>2
  <2>4. row \o <<t>> \in Bars
    <3>1. <<t>> \in Seq(Int) /\ Len(<<t>>) = 1 BY <2>3
    <3>2. row \o <<t>> \in Seq(Int) /\ Len(row \o <<t>>) = Len(row) + Len(<<t>>)
      BY <2>2, <3>1, ConcatProperties
    <3>3. Len(row \o <<t>>) = 6 BY <2>2, <3>1, <3>2
    <3> QED BY <3>2, <3>3, Zenon
  <2> DEFINE bar == row \o <<t>>
  <2>7. bar[6] = t
    <3>1. <<t>> \in Seq(Int) /\ Len(<<t>>) = 1 /\ <<t>>[1] = t BY <2>3
    <3>2. PICK one \in Seq(Int) : one = <<t>> BY <3>1
    <3>3. Len(one) = 1 /\ one[1] = t BY <3>1, <3>2
    <3>4. \A i \in 1..Len(row) + Len(one) :
            (row \o one)[i] = IF i <= Len(row) THEN row[i] ELSE one[i - Len(row)]
      BY <2>2, ConcatProperties
    <3>5. (row \o one)[6] = one[1]
      <4>1. 6 \in 1..Len(row) + Len(one) /\ ~(6 <= Len(row)) /\ 6 - Len(row) = 1 BY <2>2, <3>3
      <4> HIDE DEF bar
      <4> QED BY <3>4, <4>1, Zenon
    <3> QED BY <3>2, <3>3, <3>5
  <2>8. s' = Append(s, bar) /\ bar \in Bars BY <2>1, <2>4
  <2> HIDE DEF Bars, bar
  <2>5. s' \in Seq(Bars) BY <1>1, <2>8
  <2>6. h' = h /\ luck' = luck BY <1>3 DEF Arrive
  <2>9. \A i, j \in DOMAIN s' : i <= j => s'[i][6] <= s'[j][6]
    <3>1. /\ Len(s) \in Nat /\ DOMAIN s = 1..Len(s) /\ DOMAIN s' = 1..(Len(s) + 1)
          /\ s'[Len(s) + 1] = bar /\ \A i \in 1..Len(s) : s'[i] = s[i]
      BY <1>1, <2>8
    <3>2. \A i \in 1..Len(s) : s[i][6] \in Int
      <4> SUFFICES ASSUME NEW i \in 1..Len(s) PROVE s[i][6] \in Int OBVIOUS
      <4>1. s[i] \in Bars BY <1>1
      <4> QED BY <4>1 DEF Bars
    <3>3. \A i, j \in 1..Len(s) : i <= j => s[i][6] <= s[j][6] BY <3>1 DEF History
    <3>4. \A i \in 1..Len(s) : s[i][6] <= t
      <4> SUFFICES ASSUME NEW i \in 1..Len(s) PROVE s[i][6] <= t OBVIOUS
      <4>1. s # << >> /\ Len(s) \in 1..Len(s) /\ i <= Len(s) BY <1>1, <3>1
      <4>2. PICK dt \in Ticks(h) : t = s[Len(s)][6] + dt BY <2>1, <4>1
      <4>3. dt \in Nat BY <1>1, RowsAssumption
      <4>4. s[i][6] <= s[Len(s)][6] BY <3>3, <4>1
      <4>5. s[i][6] \in Int /\ s[Len(s)][6] \in Int BY <3>2, <4>1
      <4> QED BY <4>2, <4>3, <4>4, <4>5
    <3> SUFFICES ASSUME NEW i \in 1..(Len(s) + 1), NEW j \in 1..(Len(s) + 1), i <= j
                 PROVE  s'[i][6] <= s'[j][6]
      BY <3>1
    <3>5. CASE j \in 1..Len(s)
      <4>1. i \in 1..Len(s) BY <3>1, <3>5
      <4> QED BY <3>1, <3>3, <3>5, <4>1
    <3>6. CASE j = Len(s) + 1 /\ i \in 1..Len(s) BY <2>7, <3>1, <3>4, <3>6
    <3>7. CASE j = Len(s) + 1 /\ i = Len(s) + 1 BY <2>3, <2>7, <3>1, <3>7
    <3> QED BY <3>1, <3>5, <3>6, <3>7
  <2> QED BY <1>1, <2>5, <2>6, <2>9 DEF History, Bars
<1> QED BY <1>2, <1>3 DEF Next

(* The state of the assay is one of a strategy and a history of whole bars *)
(* (server/app.py): the invariant the theorems below rest on.              *)
THEOREM HistoryTyped == Spec => []History
BY HistoryInit, HistoryStep, PTL DEF Spec

(* Its places are counted from 1.                                          *)
LEMMA Lengths ==
  ASSUME History
  PROVE  Len(s) \in Nat /\ DOMAIN s = 1..Len(s)
BY DEF History

(* The last row that hit a bar is the last row of the file, unless one has *)
(* fallen between bars since.                                              *)
LEMMA Persist == History => PositionsPersist
<1> SUFFICES ASSUME History, h = "file", NEW i \in DOMAIN s,
                    \A j \in (LastWhere(LAMBDA m : Defined(s[m][2]), i) + 1)..i : ~Defined(s[j][3])
             PROVE  AlignToBars(s)[i] = Intended(s, i)
  BY DEF PositionsPersist
<1> DEFINE R == {j \in 1..i : Defined(s[j][2])}
           W == {j \in 1..i : Defined(s[j][2]) \/ Defined(s[j][3])}
           hit == Max({0} \cup R)
           last == Max({0} \cup W)
<1>1. i \in Nat /\ i \in DOMAIN s BY Lengths
<1>2. \A j \in (hit + 1)..i : ~Defined(s[j][3]) BY Zenon DEF LastWhere
<1>3. AlignToBars(s)[i] = IF hit = 0 THEN 0 ELSE s[hit][2]
  BY <1>1, Zenon DEF AlignToBars, LastWhere
<1>4. Intended(s, i) =
        IF last = 0 THEN 0 ELSE IF Defined(s[last][2]) THEN s[last][2] ELSE s[last][3]
  BY Zenon DEF Intended, LastWhere
<1>5. R \in SUBSET (1..i) /\ W \in SUBSET (1..i) /\ R \subseteq W OBVIOUS
<1>6. \A j \in W : j \notin R => Defined(s[j][3]) OBVIOUS
<1>7. \A j \in R : Defined(s[j][2]) OBVIOUS
<1> HIDE DEF R, W
<1>8. hit \in {0} \cup R /\ \A j \in R : j <= hit BY <1>1, <1>5, LastPlace
<1>9. last \in {0} \cup W /\ \A j \in W : j <= last BY <1>1, <1>5, LastPlace
<1> HIDE DEF hit, last
<1>10. last = hit
  <2>1. hit \in Nat /\ last \in Nat /\ hit <= last
    <3>1. hit \in Nat /\ last \in Nat BY <1>1, <1>5, <1>8, <1>9
    <3>2. hit # 0 => hit \in W BY <1>5, <1>8
    <3> QED BY <1>9, <3>1, <3>2
  <2> SUFFICES ASSUME last > hit PROVE FALSE BY <2>1
  <2>2. last \in W BY <1>9, <2>1
  <2>3. last \notin R BY <1>8, <2>1
  <2>4. last \in (hit + 1)..i BY <1>1, <1>5, <2>1, <2>2
  <2> QED BY <1>2, <1>6, <2>2, <2>3, <2>4
<1> QED BY <1>3, <1>4, <1>7, <1>8, <1>10

(* csv_import.py, align_to_bars: "a position PERSISTS until the user       *)
(* changes it", on every history on which no row has fallen between bars   *)
(* since the last that hit one.                                            *)
THEOREM PositionsStay == Spec => []PositionsPersist
BY HistoryTyped, Persist, PTL

-----------------------------------------------------------------------------
(* Times in the order of the bars.                                         *)
InOrder(at, N) ==
    (\A i \in 1..N : at[i] \in Int) /\ \A i, j \in 1..N : i <= j => at[i] <= at[j]

(* Bars no two of which share a window.                                    *)
Apart(at, T, window) == \A a, b \in T : a < b => at[b] - at[a] >= window

(* The bars up to one.                                                     *)
Seen(times, j) == {u \in times : u <= j}

(* What the scan has, after bar j: st counts as many observations as       *)
(* can be had among those seen, and as few as can be had before the last.  *)
Greedy(at, times, window, j, st) ==
    /\ st \in [n : Nat, last : Nat] /\ st.last <= j
    /\ st.n = 0 => Seen(times, j) = {}
    /\ st.n # 0 => st.last \in times
    /\ \E G \in SUBSET Seen(times, j) :
          Apart(at, G, window) /\ Cardinality(G) = st.n /\ \A u \in G : u <= st.last
    /\ \A T \in SUBSET Seen(times, j) : Apart(at, T, window) => Cardinality(T) <= st.n
    /\ \A T \in SUBSET Seen(times, j) :
          Apart(at, T, window) /\ st.n > 0 /\ (\A u \in T : u < st.last) => Cardinality(T) <= st.n - 1

(* There are finitely many.                                                *)
LEMMA SeenFinite ==
  ASSUME NEW times \in SUBSET (Nat \ {0}), NEW j \in Nat, NEW T \in SUBSET Seen(times, j)
  PROVE  IsFiniteSet(T) /\ Cardinality(T) \in Nat
<1>1. T \in SUBSET (1..j) BY DEF Seen
<1>2. IsFiniteSet(1..j) BY FS_Interval
<1>3. IsFiniteSet(T) BY <1>1, <1>2, FS_Subset
<1> QED BY <1>3, FS_CardinalityType

(* So before the first bar.                                                *)
LEMMA GreedyStart ==
  ASSUME NEW at, NEW times \in SUBSET (Nat \ {0}), NEW window \in Int
  PROVE  Greedy(at, times, window, 0, [n |-> 0, last |-> 0])
<1>1. Seen(times, 0) = {}
  <2>1. \A u \in times : u \in Nat /\ u # 0 OBVIOUS
  <2> SUFFICES ASSUME NEW u \in Seen(times, 0) PROVE FALSE OBVIOUS
  <2>2. u \in times /\ u <= 0 BY DEF Seen
  <2> QED BY <2>1, <2>2
<1>2. Cardinality({}) = 0 BY FS_EmptySet
<1>3. \A T \in SUBSET Seen(times, 0) : T = {} BY <1>1
<1>4. {} \in SUBSET Seen(times, 0) /\ Apart(at, {}, window) BY DEF Apart
<1> DEFINE st == [n |-> 0, last |-> 0]
<1>5. st \in [n : Nat, last : Nat] /\ st.n = 0 /\ st.last = 0 OBVIOUS
<1> HIDE DEF st
<1>6. Greedy(at, times, window, 0, st) BY <1>1, <1>2, <1>3, <1>4, <1>5 DEF Greedy
<1> QED BY <1>6 DEF st

(* And from a bar to the next: an observation a window after the last      *)
(* one counted adds one to any set of the ones before; one nearer adds     *)
(* none, for a set that ends with it has one less before the last counted. *)
LEMMA GreedyStep ==
  ASSUME NEW at, NEW N \in Nat, InOrder(at, N), NEW times \in SUBSET (1..N),
         NEW window \in Int, NEW j \in 1..N, NEW st,
         Greedy(at, times, window, j - 1, st)
  PROVE  Greedy(at, times, window, j,
           IF j \in times /\ (st.n = 0 \/ at[j] - at[st.last] >= window)
           THEN [n |-> st.n + 1, last |-> j] ELSE st)
<1> DEFINE U == Seen(times, j - 1)
<1>1. /\ st.n \in Nat /\ st.last \in Nat /\ st.last <= j - 1 /\ st \in [n : Nat, last : Nat]
      /\ (st.n = 0 => U = {}) /\ (st.n # 0 => st.last \in times)
      /\ j \in Nat \ {0} /\ j - 1 \in Nat
  BY DEF Greedy
<1>2. PICK G \in SUBSET U : Apart(at, G, window) /\ Cardinality(G) = st.n /\ \A u \in G : u <= st.last
  BY DEF Greedy
<1>3. \A T \in SUBSET U : Apart(at, T, window) => Cardinality(T) <= st.n BY DEF Greedy
<1>4. \A T \in SUBSET U : Apart(at, T, window) /\ st.n > 0 /\ (\A u \in T : u < st.last)
                            => Cardinality(T) <= st.n - 1
  BY DEF Greedy
<1>5. U \subseteq times /\ (\A u \in U : u \in Nat /\ u <= j - 1) BY DEF Seen
<1>6. Seen(times, j) = (IF j \in times THEN U \cup {j} ELSE U)
  <2>1. \A u \in times : u \in Nat OBVIOUS
  <2>2. \A u \in times : u <= j <=> u <= j - 1 \/ u = j BY <2>1
  <2>3. \A u : u \in Seen(times, j) <=> u \in times /\ u <= j BY DEF Seen
  <2>4. \A u : u \in U <=> u \in times /\ u <= j - 1 BY DEF Seen
  <2> HIDE DEF U
  <2>5. \A u : u \in Seen(times, j) <=> u \in U \/ (u = j /\ j \in times)
    BY <2>2, <2>3, <2>4
  <2>6. CASE j \in times BY <2>5, <2>6
  <2>7. CASE j \notin times BY <2>5, <2>7
  <2> QED BY <2>6, <2>7
<1>7. \A T \in SUBSET Seen(times, j) : IsFiniteSet(T) /\ Cardinality(T) \in Nat
  <2>1. times \in SUBSET (Nat \ {0}) OBVIOUS
  <2> QED BY <1>1, <2>1, SeenFinite
<1>11. /\ \A u \in times : u \in 1..N /\ at[u] \in Int
       /\ \A u, v \in times : u <= v => at[u] <= at[v]
       /\ at[j] \in Int
  BY DEF InOrder
<1> HIDE DEF U
<1>8. ASSUME NEW T \in SUBSET Seen(times, j), Apart(at, T, window)
      PROVE  /\ T \ {j} \in SUBSET U /\ Apart(at, T \ {j}, window)
             /\ Cardinality(T) <= Cardinality(T \ {j}) + 1
             /\ j \notin T => T \in SUBSET U
  <2>1. T \ {j} \in SUBSET U /\ (j \notin T => T \in SUBSET U) BY <1>6
  <2>2. Apart(at, T \ {j}, window) BY <1>8 DEF Apart
  <2>3. IsFiniteSet(T) /\ Cardinality(T) \in Nat BY <1>7
  <2>4. Cardinality(T \ {j}) = IF j \in T THEN Cardinality(T) - 1 ELSE Cardinality(T)
    BY <2>3, FS_RemoveElement
  <2> QED BY <2>1, <2>2, <2>3, <2>4
<1>9. CASE j \in times /\ (st.n = 0 \/ at[j] - at[st.last] >= window)
  <2> DEFINE new == [n |-> st.n + 1, last |-> j]
  <2>1. new \in [n : Nat, last : Nat] /\ new.n = st.n + 1 /\ new.last = j BY <1>1
  <2> HIDE DEF new
  <2>2. ASSUME TRUE
        PROVE \E F \in SUBSET Seen(times, j) :
                Apart(at, F, window) /\ Cardinality(F) = new.n /\ \A u \in F : u <= new.last
    <3> DEFINE F == G \cup {j}
    <3>1. F \in SUBSET Seen(times, j) BY <1>6, <1>9
    <3>2. \A u \in G : u \in Nat /\ u <= j - 1 BY <1>5
    <3>3. \A u \in G : at[j] - at[u] >= window
      <4>1. CASE st.n = 0 BY <1>1, <4>1
      <4>2. CASE st.n # 0 /\ at[j] - at[st.last] >= window
        <5> SUFFICES ASSUME NEW u \in G PROVE at[j] - at[u] >= window OBVIOUS
        <5>1. u \in times /\ st.last \in times /\ u <= st.last BY <1>1, <1>2, <1>5, <4>2
        <5>2. at[u] <= at[st.last] /\ at[u] \in Int /\ at[st.last] \in Int BY <1>11, <5>1
        <5> QED BY <1>11, <4>2, <5>2
      <4> QED BY <1>9, <4>1, <4>2
    <3>4. Apart(at, F, window) BY <1>2, <3>2, <3>3 DEF Apart
    <3>5. j \notin G BY <3>2
    <3>6. IsFiniteSet(G) BY <1>6, <1>7
    <3>7. Cardinality(F) = st.n + 1 BY <1>2, <3>5, <3>6, FS_AddElement
    <3>8. \A u \in F : u <= j BY <3>2
    <3> QED BY <2>1, <3>1, <3>4, <3>7, <3>8
  <2>3. \A T \in SUBSET Seen(times, j) : Apart(at, T, window) => Cardinality(T) <= new.n
    <3> SUFFICES ASSUME NEW T \in SUBSET Seen(times, j), Apart(at, T, window)
                 PROVE  Cardinality(T) <= new.n
      OBVIOUS
    <3>1. Cardinality(T \ {j}) <= st.n BY <1>3, <1>8
    <3>2. Cardinality(T) \in Nat /\ Cardinality(T \ {j}) \in Nat BY <1>7
    <3> QED BY <1>1, <1>8, <2>1, <3>1, <3>2
  <2>4. \A T \in SUBSET Seen(times, j) :
          Apart(at, T, window) /\ new.n > 0 /\ (\A u \in T : u < new.last)
            => Cardinality(T) <= new.n - 1
    <3> SUFFICES ASSUME NEW T \in SUBSET Seen(times, j), Apart(at, T, window), \A u \in T : u < j
                 PROVE  Cardinality(T) <= st.n
      BY <1>1, <2>1
    <3>1. j \notin T OBVIOUS
    <3> QED BY <1>3, <1>8, <3>1
  <2>5. Greedy(at, times, window, j, new) BY <1>1, <1>9, <2>1, <2>2, <2>3, <2>4 DEF Greedy
  <2> QED BY <1>9, <2>5 DEF new
<1>10. CASE ~(j \in times /\ (st.n = 0 \/ at[j] - at[st.last] >= window))
  <2>1. U \subseteq Seen(times, j) BY <1>6
  <2>2. st.n = 0 => Seen(times, j) = {} BY <1>1, <1>6, <1>10
  <2>3. \A T \in SUBSET Seen(times, j) : Apart(at, T, window) => Cardinality(T) <= st.n
    <3> SUFFICES ASSUME NEW T \in SUBSET Seen(times, j), Apart(at, T, window)
                 PROVE  Cardinality(T) <= st.n
      OBVIOUS
    <3>1. CASE j \notin T BY <1>3, <1>8, <3>1
    <3>2. CASE j \in T
      <4>1. j \in times /\ st.n > 0 /\ ~(at[j] - at[st.last] >= window)
        <5>1. j \in times BY <1>5, <1>6, <3>2
        <5> QED BY <1>1, <1>10, <5>1
      <4>2. ASSUME NEW u \in T \ {j} PROVE u < st.last
        <5>1. u \in Nat /\ u <= j - 1 /\ u \in times BY <1>5, <1>8
        <5>2. u < j BY <1>1, <5>1
        <5>3. at[j] - at[u] >= window BY <3>2, <5>2 DEF Apart
        <5>4. st.last \in times /\ at[u] \in Int /\ at[st.last] \in Int BY <1>1, <1>11, <4>1, <5>1
        <5>5. at[u] < at[st.last] BY <1>11, <4>1, <5>3, <5>4
        <5>6. ~(st.last <= u)
          <6> SUFFICES ASSUME st.last <= u PROVE FALSE OBVIOUS
          <6>1. at[st.last] <= at[u] BY <1>11, <5>1, <5>4
          <6> QED BY <5>4, <5>5, <6>1
        <5> QED BY <1>1, <5>1, <5>6
      <4>3. Cardinality(T \ {j}) <= st.n - 1 BY <1>4, <1>8, <4>1, <4>2
      <4>4. Cardinality(T) \in Nat /\ Cardinality(T \ {j}) \in Nat BY <1>7
      <4> QED BY <1>1, <1>8, <4>3, <4>4
    <3> QED BY <3>1, <3>2
  <2>4. \A T \in SUBSET Seen(times, j) :
          Apart(at, T, window) /\ st.n > 0 /\ (\A u \in T : u < st.last) => Cardinality(T) <= st.n - 1
    <3> SUFFICES ASSUME NEW T \in SUBSET Seen(times, j), Apart(at, T, window), st.n > 0,
                        \A u \in T : u < st.last
                 PROVE  Cardinality(T) <= st.n - 1
      OBVIOUS
    <3>1. j \notin T BY <1>1
    <3> QED BY <1>4, <1>8, <3>1
  <2>5. st.last <= j BY <1>1
  <2>6. Greedy(at, times, window, j, st) BY <1>1, <1>2, <2>1, <2>2, <2>3, <2>4, <2>5 DEF Greedy
  <2> QED BY <1>10, <2>6
<1> QED BY <1>9, <1>10

-----------------------------------------------------------------------------
(* effective_n: a bar of the scan, and what the scan carries.              *)
ScanStep(at, times, window, t, p) ==
    IF t \in times /\ (p.n = 0 \/ at[t] - at[p.last] >= window)
    THEN [n |-> p.n + 1, last |-> t]
    ELSE p

(* f is the records of a scan, and the scan of the code.                   *)
Scans(at, times, window, f) ==
    f = [t \in 0..Max({0} \cup times) |->
           IF t = 0 THEN [n |-> 0, last |-> 0] ELSE ScanStep(at, times, window, t, f[t - 1])]
Scan(at, times, window) == CHOOSE f : Scans(at, times, window, f)

(* The scan has a result, and effective_n is what it counts at the last    *)
(* bar.                                                                    *)
LEMMA ScanLoop ==
  ASSUME NEW at, NEW times, NEW window, Max({0} \cup times) \in Nat
  PROVE  /\ Scans(at, times, window, Scan(at, times, window))
         /\ EffectiveN(at, times, window) = Scan(at, times, window)[Max({0} \cup times)].n
<1> DEFINE V == [n : Nat, last : Nat]
           m == Max({0} \cup times)
           v == [n |-> 0, last |-> 0]
           g == [j \in 1..m |-> [p \in V |-> ScanStep(at, times, window, j, p)]]
<1>1. \A j \in 1..m : \A p \in V : g[j][p] = ScanStep(at, times, window, j, p)
  OBVIOUS
<1>2. \A j \in 1..m : \A p \in V : ScanStep(at, times, window, j, p) \in V
  BY DEF ScanStep
<1>3. m \in Nat /\ v \in V OBVIOUS
<1> HIDE DEF V, g, m, v
<1>4. PICK f : Carries(m, V, v, g, f)
  <2>1. Closed(m, V, g) BY <1>1, <1>2, Zenon DEF Closed
  <2> QED BY <1>3, <2>1, LoopEnds
<1>5. ASSUME NEW j \in 0..m, j # 0 PROVE j \in 1..m /\ j - 1 \in 0..m BY <1>3, <1>5
<1>6. f = [j \in 0..m |-> IF j = 0 THEN v ELSE ScanStep(at, times, window, j, f[j - 1])]
  BY <1>1, <1>4, <1>5, Zenon DEF Carries
<1>7. Scans(at, times, window, Scan(at, times, window))
  <2>1. Scans(at, times, window, f) BY <1>6, Zenon DEF Scans, m, v
  <2> QED BY <2>1, Zenon DEF Scan
<1>8. EffectiveN(at, times, window) = Scan(at, times, window)[Max({0} \cup times)].n
  BY Zenon DEF EffectiveN, Scan, Scans, ScanStep
<1> QED BY <1>7, <1>8

(* Which is as many as can be had: by induction on the bars.               *)
LEMMA ScanIsGreedy ==
  ASSUME NEW at, NEW N \in Nat, InOrder(at, N), NEW times \in SUBSET (1..N),
         NEW window \in Int
  PROVE  Greedy(at, times, window, Max({0} \cup times),
                Scan(at, times, window)[Max({0} \cup times)])
<1> DEFINE m == Max({0} \cup times)
           f == Scan(at, times, window)
           v == [n |-> 0, last |-> 0]
           Bad == {j \in 0..m : ~Greedy(at, times, window, j, f[j])}
<1> HIDE DEF m, f
<1>1. m \in Nat /\ times \in SUBSET (Nat \ {0}) /\ m <= N
  <2>1. m \in {0} \cup times BY LastPlace DEF m
  <2>2. \A u \in times : u \in Nat \ {0} /\ u <= N OBVIOUS
  <2> QED BY <2>1, <2>2
<1>2. f = [t \in 0..m |-> IF t = 0 THEN v ELSE ScanStep(at, times, window, t, f[t - 1])]
  <2>1. Max({0} \cup times) \in Nat BY <1>1 DEF m
  <2>2. Scans(at, times, window, Scan(at, times, window)) BY <2>1, ScanLoop
  <2> QED BY <2>2, Zenon DEF Scans, m, f
<1>3. Bad = {}
  <2> SUFFICES ASSUME Bad # {} PROVE FALSE OBVIOUS
  <2>1. Bad \in SUBSET Nat OBVIOUS
  <2> DEFINE k == Min(Bad)
  <2>2. k \in Bad /\ \A y \in Bad : k <= y
    <3> HIDE DEF Bad
    <3> QED BY <2>1, HasLeast
  <2> HIDE DEF k
  <2>3. k \in 0..m /\ ~Greedy(at, times, window, k, f[k]) BY <2>2
  <2>4. CASE k = 0
    <3>1. f[0] = v BY <1>1, <1>2
    <3> QED BY <1>1, <2>3, <2>4, <3>1, GreedyStart
  <2>5. CASE k # 0
    <3>1. k \in Nat \ {0} /\ k - 1 \in 0..m /\ k - 1 < k BY <1>1, <2>3, <2>5
    <3>2. k - 1 \notin Bad
      <4> HIDE DEF Bad
      <4> QED BY <2>1, <2>2, <3>1
    <3>3. Greedy(at, times, window, k - 1, f[k - 1]) BY <3>1, <3>2
    <3>4. f[k] = ScanStep(at, times, window, k, f[k - 1])
      <4> HIDE DEF Bad
      <4> QED BY <1>2, <2>3, <2>5
    <3>5. Greedy(at, times, window, k, ScanStep(at, times, window, k, f[k - 1]))
      <4> HIDE DEF Bad
      <4>1. k \in 1..N BY <1>1, <2>3, <3>1
      <4> QED BY <3>3, <4>1, GreedyStep DEF ScanStep
    <3> QED BY <2>3, <3>4, <3>5
  <2> QED BY <2>4, <2>5
<1>4. m \in 0..m /\ m \notin Bad
  <2> HIDE DEF Bad
  <2> QED BY <1>1, <1>3
<1>5. Greedy(at, times, window, m, f[m]) BY <1>4
<1> QED BY <1>5 DEF m, f

(* So effective_n is the size of a largest set of observations no two of   *)
(* which share a window, on any set of places and with any window.         *)
LEMMA ScanIsLargest ==
  ASSUME NEW at, NEW N \in Nat, InOrder(at, N), NEW times \in SUBSET (1..N),
         NEW window \in Int
  PROVE  EffectiveN(at, times, window) =
           Max({Cardinality(T) : T \in {T \in SUBSET times : Apart(at, T, window)}})
<1> DEFINE m == Max({0} \cup times)
           st == Scan(at, times, window)[m]
           C == {Cardinality(T) : T \in {T \in SUBSET times : Apart(at, T, window)}}
<1>1. m \in Nat /\ \A u \in times : u \in Nat /\ u <= m /\ u # 0
  <2>1. m \in {0} \cup times /\ \A u \in times : u <= m BY LastPlace
  <2> HIDE DEF m
  <2>2. \A u \in times : u \in Nat \ {0} OBVIOUS
  <2> QED BY <2>1, <2>2
<1>2. EffectiveN(at, times, window) = st.n BY <1>1, ScanLoop
<1>3. Greedy(at, times, window, m, st) BY ScanIsGreedy
<1> HIDE DEF m, st
<1>4. Seen(times, m) = times BY <1>1 DEF Seen
<1>5. st.n \in Nat BY <1>3 DEF Greedy
<1>6. PICK G \in SUBSET times : Apart(at, G, window) /\ Cardinality(G) = st.n
  BY <1>3, <1>4 DEF Greedy
<1>7. \A T \in SUBSET times : Apart(at, T, window) => Cardinality(T) <= st.n
  BY <1>3, <1>4 DEF Greedy
<1>8. \A T \in SUBSET times : Cardinality(T) \in Nat
  <2>1. times \in SUBSET (Nat \ {0}) BY <1>1
  <2> QED BY <1>1, <1>4, <2>1, SeenFinite
<1>9. st.n \in C BY <1>6
<1>10. \A c \in C : c \in Nat /\ c <= st.n BY <1>7, <1>8
<1> HIDE DEF C
<1>11. Max(C) = st.n
  <2>1. \A y \in C : st.n >= y BY <1>5, <1>10
  <2>2. Max(C) \in C /\ \A y \in C : Max(C) >= y BY <1>9, <2>1 DEF Max
  <2> QED BY <1>5, <1>9, <1>10, <2>2
<1> QED BY <1>2, <1>11 DEF C

(* The window is a whole number of bars.                                   *)
LEMMA MeanIsInt ==
  ASSUME NEW n \in Nat, NEW w, DOMAIN w = 1..n
  PROVE  MeanDuration(w) \in Int
<1> DEFINE runs == Max({1, Cardinality(Flips(w))})
           bars == Cardinality(Held(w))
           half == 2 * (bars % runs)
           up == half > runs \/ (half = runs /\ (bars \div runs) % 2 = 1)
           mean == bars \div runs + (IF up THEN 1 ELSE 0)
<1>1. IsFiniteSet(1..n) BY FS_Interval
<1>2. bars \in Nat
  <2>1. Held(w) \in SUBSET (1..n) BY DEF Held
  <2> QED BY <1>1, <2>1, FS_Subset, FS_CardinalityType
<1>3. Cardinality(Flips(w)) \in Nat
  <2>1. Flips(w) \in SUBSET (1..n) BY DEF Flips
  <2> QED BY <1>1, <2>1, FS_Subset, FS_CardinalityType
<1>4. \A a, b \in Nat : Max({a, b}) \in {a, b} /\ Max({a, b}) >= a
  <2> SUFFICES ASSUME NEW a \in Nat, NEW b \in Nat
               PROVE  Max({a, b}) \in {a, b} /\ Max({a, b}) >= a
    OBVIOUS
  <2>1. \E x \in {a, b} : \A y \in {a, b} : x >= y
    <3>1. CASE a >= b BY <3>1
    <3>2. CASE b >= a BY <3>2
    <3> QED BY <3>1, <3>2
  <2>2. Max({a, b}) \in {a, b} /\ \A y \in {a, b} : Max({a, b}) >= y BY <2>1 DEF Max
  <2> QED BY <2>2
<1>5. runs \in Nat \ {0} BY <1>3, <1>4
<1> HIDE DEF runs, bars
<1>6. bars \div runs \in Nat BY <1>2, <1>5
<1> HIDE DEF up
<1>7. mean \in Nat BY <1>6
<1>8. MeanDuration(w) = Max({Horizon, mean})
  BY Zenon DEF MeanDuration, runs, bars, up
<1> HIDE DEF mean
<1>9. Horizon \in Nat BY BatteryAssumption
<1> QED BY <1>4, <1>7, <1>8, <1>9

(* Whatever positions the file holds.                                      *)
LEMMA AreMaximal == History => EpisodesAreMaximal
<1> SUFFICES ASSUME History PROVE EpisodesAreMaximal OBVIOUS
<1> DEFINE w == AlignToBars(s)
           times == Held(w)
           mean == MeanDuration(w)
           window == mean * BarHours
           at == Opens
<1>1. Len(s) \in Nat /\ DOMAIN w = 1..Len(s) BY Lengths DEF AlignToBars
<1> HIDE DEF w
<1>2. times \in SUBSET (1..Len(s)) BY <1>1 DEF Held
<1>3. mean \in Int BY <1>1, MeanIsInt
<1> HIDE DEF times, mean
<1>4. window \in Int
  <2>1. BarHours \in Int BY BarHoursAssumption
  <2> QED BY <1>3, <2>1
<1> HIDE DEF window
<1>5. InOrder(at, Len(s))
  <2>1. DOMAIN s = 1..Len(s) BY Lengths
  <2>2. \A i \in 1..Len(s) : at[i] = s[i][6] BY <2>1 DEF Opens
  <2>3. \A i \in 1..Len(s) : s[i][6] \in Int
    <3> SUFFICES ASSUME NEW i \in 1..Len(s) PROVE s[i][6] \in Int OBVIOUS
    <3>1. s[i] \in Seq(Int) /\ Len(s[i]) = 6 BY DEF History
    <3> QED BY <3>1
  <2>4. \A i, j \in 1..Len(s) : i <= j => s[i][6] <= s[j][6] BY <2>1 DEF History
  <2> HIDE DEF at
  <2> QED BY <2>2, <2>3, <2>4 DEF InOrder
<1> HIDE DEF at
<1>6. EffectiveN(at, times, window) =
        Max({Cardinality(T) : T \in {T \in SUBSET times : Apart(at, T, window)}})
  BY <1>1, <1>2, <1>4, <1>5, ScanIsLargest
<1>7. \A T \in SUBSET times :
        Apart(at, T, window) <=> \A i, j \in T : i < j => s[j][6] - s[i][6] >= window
  <2> SUFFICES ASSUME NEW T \in SUBSET times
               PROVE  Apart(at, T, window) <=>
                        \A i, j \in T : i < j => s[j][6] - s[i][6] >= window
    OBVIOUS
  <2>1. \A i \in T : at[i] = s[i][6] BY <1>2, Lengths DEF Opens, at
  <2> QED BY <2>1, Zenon DEF Apart
<1>8. {T \in SUBSET times : Apart(at, T, window)} =
        {T \in SUBSET times : \A i, j \in T : i < j => s[j][6] - s[i][6] >= window}
  BY <1>7, Zenon
<1> QED BY <1>6, <1>8, Zenon DEF EpisodesAreMaximal, times, window, mean, w, at

(* reality_check.py, effective_n: although it scans once and greedily, it  *)
(* counts a largest set of observations no two of which share a window, on *)
(* every history.                                                          *)
THEOREM EpisodesCounted == Spec => []EpisodesAreMaximal
BY HistoryTyped, AreMaximal, PTL

-----------------------------------------------------------------------------
(* A history of whole bars has a number at every place.                    *)
LEMMA HistoryReads ==
  ASSUME NEW z \in Seq({bar \in Seq(Int) : Len(bar) = 6})
  PROVE  Readings(z)
<1>1. \A i \in DOMAIN z : z[i] \in Seq(Int) /\ Len(z[i]) = 6 OBVIOUS
<1> QED BY <1>1 DEF Readings

(* A bar that arrives leaves the ones before it as they are.               *)
LEMMA ArriveGrows ==
  ASSUME History, Arrive
  PROVE  Grown(s, s') /\ h' = h
<1>1. PICK bar : s' = Append(s, bar) BY DEF Arrive
<1>2. Len(s') = Len(s) + 1 /\ DOMAIN s' = 1..(Len(s) + 1) /\ \A i \in 1..Len(s) : s'[i] = s[i]
  BY <1>1 DEF History
<1> QED BY <1>2, Lengths DEF Grown, Stands, Arrive

(* So it changes nothing of what was said about them.                      *)
LEMMA StepSettles ==
  ASSUME History, History', [Next]_vars
  PROVE  [\A i \in DOMAIN s : Answered(i) => Signals(h, s')[i] = Signals(h, s)[i]]_s
<1>1. CASE UNCHANGED vars BY <1>1 DEF vars
<1>2. CASE Arrive
  <2>1. Grown(s, s') BY <1>2, ArriveGrows
  <2>2. Readings(s) /\ Readings(s') BY HistoryReads DEF History
  <2>3. h \in Strategies BY DEF History
  <2>4. ASSUME NEW i \in DOMAIN s, Answered(i) PROVE Signals(h, s')[i] = Signals(h, s)[i]
    BY <2>1, <2>2, <2>3, <2>4, SignalsSettled DEF Answered
  <2> QED BY <2>4
<1> QED BY <1>1, <1>2 DEF Next

(* base.py, Hypothesis.signals: "position i may only depend on data up to  *)
(* and including i".  Every strategy of the catalogue, every rule of the   *)
(* user's that parses and every file keeps what it said about the bars     *)
(* there are when one arrives, whatever the bars read.                     *)
THEOREM SignalsStand == Spec => SettledSignalsStand
<1>1. History /\ History' /\ [Next]_vars
        => [\A i \in DOMAIN s : Answered(i) => Signals(h, s')[i] = Signals(h, s)[i]]_s
  BY StepSettles
<1> QED BY <1>1, HistoryTyped, PTL DEF Spec, SettledSignalsStand

=============================================================================
