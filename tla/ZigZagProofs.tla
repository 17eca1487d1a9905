---------------------------- MODULE ZigZagProofs ----------------------------
(***************************************************************************)
(* Proofs about the pivot detector, for every candle set, ATR period,      *)
(* confirmation mode and number of bars.                                   *)
(*                                                                         *)
(* The inductive invariant is IInv.  The properties of the confirmed       *)
(* pivots are not inductive alone: what makes a confirmed pivot the true   *)
(* extreme of its leg is what the RUNNING extreme already satisfied before *)
(* it was confirmed (Running), and where the running extreme may start is  *)
(* decided by the previous pivot's own first passage.                      *)
(***************************************************************************)
EXTENDS ZigZag, SequenceTheorems, WellFoundedInduction, TLAPS

(* Counters agree with the history; detection starts at bar AtrPeriod. *)
Counting ==
  /\ Len(bars) = i + 1 /\ Len(shown) = i + 1
  /\ atrN = IF i = -1 THEN 0 ELSE IF i < AtrPeriod THEN i ELSE AtrPeriod
  /\ dir = "none" <=> i < AtrPeriod
  /\ dir = "none" => confirmed = << >>

Ordered == \A a, b \in 1..Len(bars) : a < b => bars[a].ts < bars[b].ts

(* The running extreme was read off its own bar, has not been retraced by its
   threshold since, and nothing in its leg goes beyond it. *)
Running ==
  dir # "none" =>
    /\ AtrPeriod <= ext.i /\ ext.i <= i
    /\ ext.ts = BarAt(ext.i).ts /\ ext.thr = BarAt(ext.i).thr
    /\ ext.px = LeadPx(KindOf(dir), BarAt(ext.i))
    /\ \A j \in (ext.i + 1)..i : Retrace(KindOf(dir), ext.px, BarAt(j)) < ext.thr
    /\ \A j \in LegStart(Len(confirmed) + 1)..i :
         ~Beyond(KindOf(dir), LeadPx(KindOf(dir), BarAt(j)), ext.px)
    /\ confirmed # << >> =>
         /\ confirmed[Len(confirmed)].kind = Opposite(KindOf(dir))
         /\ confirmed[Len(confirmed)].confirmed_idx <= ext.i

(* A confirmed pivot carries the times of the bars it points at; it alternates
   with the previous one and precedes the confirmation of none before it. *)
IsLocated(k) ==
  /\ AtrPeriod <= confirmed[k].idx
  /\ confirmed[k].ts = BarAt(confirmed[k].idx).ts
  /\ confirmed[k].confirmed_idx \in 0..i
  /\ confirmed[k].confirmed_ts = BarAt(confirmed[k].confirmed_idx).ts

IsChained(k) ==
  /\ k > 1 => confirmed[k].kind = Opposite(confirmed[k - 1].kind)
  /\ \A a \in 1..(k - 1) : confirmed[a].confirmed_idx <= confirmed[k].idx

(* Everything that stays true of the pivot at position k. *)
Settled(k) == /\ IsLocated(k) /\ IsChained(k)
              /\ IsFirstPassage(confirmed[k]) /\ IsLegExtreme(k)

(* What is published is the running extreme, and it has been the one published
   with every bar since it was set. *)
Published ==
  IF dir = "none" THEN provisional = NoPivot
  ELSE /\ provisional = Pivot(ext.i, ext.ts, ext.px, KindOf(dir), ext.thr)
       /\ \A k \in (ext.i + 1)..Len(shown) : shown[k] = provisional

IInv == /\ TypeOK /\ Counting /\ Ordered /\ Running /\ Published /\ ~raised
        /\ \A k \in 1..Len(confirmed) : Settled(k)

-----------------------------------------------------------------------------
(***************************************************************************)
(* What feeding a bar does to the history, whichever branch is taken.      *)
(***************************************************************************)
(* A bar the source may deliver next: well formed and later than the rest. *)
Later(b) == b \in BarType /\ \A k \in 1..Len(bars) : bars[k].ts < b.ts

(* A bar of the feed is later than the last one. *)
LEMMA NextBarIsLater ==
  ASSUME TypeOK, Ordered, NEW c \in Candles, NEW d \in Steps
  PROVE  Later(Stamped(c, LastTs + d))
<1> DEFINE b == Stamped(c, LastTs + d)
<1>0. /\ bars \in Seq(BarType)
      /\ \A k \in 1..Len(bars) : bars[k] \in BarType /\ bars[k].ts \in Nat
  <2>1. bars \in Seq(BarType)
    BY DEF TypeOK
  <2>2. ASSUME NEW k \in 1..Len(bars) PROVE bars[k] \in BarType
    BY <2>1
  <2> QED BY <2>1, <2>2 DEF BarType
<1>1. LastTs \in Nat /\ d \in Nat \ {0}
  <2>1. d \in Nat \ {0}
    BY ZigZagAssumption
  <2>2. CASE bars = << >>
    BY <2>1, <2>2 DEF LastTs
  <2>3. CASE bars # << >>
    BY <2>1, <2>3, <1>0 DEF LastTs
  <2> QED BY <2>2, <2>3
<1>2. b \in BarType /\ b.ts = LastTs + d
  BY <1>1, ZigZagAssumption DEF Stamped, BarType
<1>3. ASSUME NEW k \in 1..Len(bars) PROVE bars[k].ts < b.ts
  <2>1. bars # << >> /\ k <= Len(bars) /\ Len(bars) \in 1..Len(bars)
    BY <1>0
  <2>2. bars[k].ts \in Nat /\ bars[Len(bars)].ts \in Nat
    BY <1>0, <2>1
  <2>3. bars[k].ts <= bars[Len(bars)].ts
    <3>1. CASE k = Len(bars) BY <3>1, <2>2
    <3>2. CASE k < Len(bars) BY <3>2, <2>1, <2>2 DEF Ordered
    <3> QED BY <2>1, <3>1, <3>2
  <2> QED BY <2>1, <2>2, <2>3, <1>1, <1>2 DEF LastTs
<1> QED BY <1>2, <1>3 DEF Later

(* What every bar does before its direction is looked at. *)
LEMMA FeedFacts ==
  ASSUME IInv, NEW b, Later(b), Feed(b)
  PROVE  /\ i \in Int /\ i >= -1 /\ i' = i + 1 /\ i' \in Nat
         /\ bars' \in Seq(BarType) /\ Len(bars') = i' + 1
         /\ atrN' \in 0..AtrPeriod
         /\ atrN' = IF i' < AtrPeriod THEN i' ELSE AtrPeriod
         /\ \A j \in 0..i : BarAt(j)' = BarAt(j)
         /\ BarAt(i)' = b
         /\ Ordered'
<1>1. /\ i \in Int /\ i >= -1 /\ i' = i + 1 /\ i' \in Nat
      /\ Len(bars) = i + 1 /\ bars \in Seq(BarType) /\ b \in BarType
  BY DEF IInv, TypeOK, Counting, Feed, Later
<1>2. bars' = Append(bars, b) /\ bars' \in Seq(BarType) /\ Len(bars') = i' + 1
  BY <1>1 DEF Feed
<1>3. \A k \in 1..Len(bars) : bars'[k] = bars[k]
  BY <1>1, <1>2
<1>4. bars'[i' + 1] = b
  BY <1>1, <1>2
<1>5. \A j \in 0..i : BarAt(j)' = BarAt(j)
  BY <1>1, <1>3 DEF BarAt
<1>6. BarAt(i)' = b
  BY <1>4 DEF BarAt
<1>7. Ordered'
  <2> SUFFICES ASSUME NEW x \in 1..Len(bars'), NEW y \in 1..Len(bars'), x < y
               PROVE  bars'[x].ts < bars'[y].ts
    BY DEF Ordered
  <2>1. x \in 1..Len(bars)
    BY <1>1, <1>2
  <2>2. CASE y \in 1..Len(bars)
    BY <2>1, <2>2, <1>3 DEF IInv, Ordered
  <2>3. CASE y = i' + 1
    BY <2>1, <2>3, <1>3, <1>4 DEF Later
  <2> QED BY <2>2, <2>3, <1>1, <1>2
<1>8. atrN' \in 0..AtrPeriod /\ atrN' = IF i' < AtrPeriod THEN i' ELSE AtrPeriod
  BY <1>1, ZigZagAssumption DEF IInv, TypeOK, Counting, Feed, NextAtrN
<1> QED BY <1>1, <1>2, <1>5, <1>6, <1>7, <1>8

(* A pivot already in the history stays settled when bars and pivots are only
   added behind it. *)
LEMMA SettledStays ==
  ASSUME IInv, NEW b, Later(b), Feed(b),
         confirmed' \in Seq(PivotType), Len(confirmed') >= Len(confirmed),
         \A k \in 1..Len(confirmed) : confirmed'[k] = confirmed[k],
         NEW k \in 1..Len(confirmed)
  PROVE  Settled(k)'
<1> DEFINE p == confirmed[k]
<1>1. /\ i \in Int /\ i' = i + 1 /\ p \in PivotType /\ Settled(k)
      /\ confirmed \in Seq(PivotType) /\ confirmed'[k] = p
      /\ \A j \in 0..i : BarAt(j)' = BarAt(j)
  BY FeedFacts DEF IInv, TypeOK
<1>2. k > 1 => confirmed'[k - 1] = confirmed[k - 1] /\ k - 1 \in 1..Len(confirmed)
  BY <1>1
<1>3. /\ p.idx \in 0..i /\ p.confirmed_idx \in 0..i
      /\ p.idx < p.confirmed_idx
  <2>1. p.idx \in Nat
    BY <1>1 DEF PivotType
  <2>2. p.confirmed_idx \in 0..i /\ p.idx < p.confirmed_idx
    BY <1>1 DEF Settled, IsLocated, IsFirstPassage
  <2> QED BY <2>1, <2>2, <1>1
<1>4. IsLocated(k)'
  BY <1>1, <1>3 DEF Settled, IsLocated
<1>5. IsChained(k)'
  <2>1. IsChained(k) BY <1>1 DEF Settled
  <2>2. \A a \in 1..(k - 1) : a \in 1..Len(confirmed) /\ confirmed'[a] = confirmed[a]
    BY <1>1
  <2> QED BY <2>1, <2>2, <1>1, <1>2 DEF IsChained
<1>6. IsFirstPassage(confirmed[k])'
  <2>1. \A j \in (p.idx + 1)..(p.confirmed_idx - 1) : BarAt(j)' = BarAt(j)
    BY <1>1, <1>3
  <2> QED BY <2>1, <1>1, <1>3 DEF Settled, IsFirstPassage
<1>7. IsLegExtreme(k)'
  <2>1. LegStart(k)' = LegStart(k) /\ LegStart(k) \in Nat
    <3>1. CASE k = 1 BY <3>1, ZigZagAssumption DEF LegStart
    <3>2. CASE k > 1
      <4>1. confirmed[k - 1] \in PivotType
        BY <3>2, <1>1, <1>2
      <4>2. confirmed[k - 1].idx \in Nat
        BY <4>1 DEF PivotType
      <4> QED BY <4>2, <3>2, <1>2 DEF LegStart
    <3> QED BY <3>1, <3>2, <1>1
  <2>2. \A j \in LegStart(k)..p.confirmed_idx : BarAt(j)' = BarAt(j)
    BY <2>1, <1>1, <1>3
  <2> QED BY <2>1, <2>2, <1>1, <1>3 DEF Settled, IsLegExtreme
<1> QED BY <1>4, <1>5, <1>6, <1>7 DEF Settled

(* The prices compared are numbers. *)
LEMMA PricesAreInt ==
  ASSUME NEW b \in BarType, NEW kind \in PivotKind
  PROVE  UpPx(b) \in Int /\ DownPx(b) \in Int /\ LeadPx(kind, b) \in Int
BY DEF BarType, UpPx, DownPx, LeadPx

(* A leg starts at a bar. *)
LEMMA LegStartIsNat ==
  ASSUME IInv PROVE LegStart(Len(confirmed) + 1) \in Nat
<1>1. CASE confirmed = << >>
  BY <1>1, ZigZagAssumption DEF LegStart
<1>2. CASE confirmed # << >>
  <2>1. Len(confirmed) \in 1..Len(confirmed) /\ confirmed \in Seq(PivotType)
    BY <1>2 DEF IInv, TypeOK
  <2>2. confirmed[Len(confirmed)] \in PivotType
    BY <2>1
  <2>3. confirmed[Len(confirmed)].idx \in Nat
    BY <2>2 DEF PivotType
  <2> QED BY <2>1, <2>3 DEF LegStart
<1> QED BY <1>1, <1>2

(* The running extreme is set by b itself or left as it was, and published. *)
Republished(b) ==
  /\ dir' \in {"up", "down"}
  /\ ext' \in [i : Nat, ts : Nat, px : Int, thr : Nat]
  /\ ext'.i = i' \/ (ext' = ext /\ dir' = dir)
  /\ PublishProvisional

(* The provisional pivot of a bar is published with it. *)
LEMMA PublishedNext ==
  ASSUME IInv, NEW b, Later(b), Feed(b), Republished(b)
  PROVE  /\ provisional' \in PivotType
         /\ shown' \in Seq(PivotType \cup {NoPivot})
         /\ Len(shown') = i' + 1
         /\ Published'
<1> DEFINE p == Pivot(ext'.i, ext'.ts, ext'.px, KindOf(dir'), ext'.thr)
<1>1. p \in PivotType
  BY DEF Republished, Pivot, PivotType, KindOf, PivotKind, None
<1>2. provisional' = p /\ shown' = Append(shown, p)
  BY DEF Republished, PublishProvisional, set_provisional
<1>3. /\ shown \in Seq(PivotType \cup {NoPivot}) /\ Len(shown) = i + 1
      /\ i \in Int /\ i >= -1 /\ i' = i + 1
  BY FeedFacts DEF IInv, TypeOK, Counting
<1>4. /\ shown' \in Seq(PivotType \cup {NoPivot}) /\ Len(shown') = i' + 1
      /\ shown'[i + 2] = p /\ \A k \in 1..(i + 1) : shown'[k] = shown[k]
  BY <1>1, <1>2, <1>3
<1>5. ASSUME NEW k \in (ext'.i + 1)..Len(shown') PROVE shown'[k] = p
  <2>1. CASE ext'.i = i'
    BY <2>1, <1>3, <1>4
  <2>2. CASE ext' = ext /\ dir' = dir
    <3>1. dir # "none" /\ ext.i \in Nat
      BY <2>2 DEF Republished
    <3>2. /\ provisional = p
          /\ \A n \in (ext.i + 1)..Len(shown) : shown[n] = provisional
      BY <2>2, <3>1 DEF IInv, Published
    <3>3. k \in (ext.i + 1)..(i + 1) \/ k = i + 2
      BY <2>2, <3>1, <1>3, <1>4
    <3> QED BY <3>2, <3>3, <3>1, <1>3, <1>4
  <2> QED BY <2>1, <2>2 DEF Republished
<1>6. dir' # "none"
  BY DEF Republished
<1> QED BY <1>1, <1>2, <1>4, <1>5, <1>6 DEF Published

(* What an action must still show once the bar is fed and published. *)
LEMMA StepInv ==
  ASSUME IInv, NEW b, Later(b), Feed(b), Republished(b), raised' = raised,
         confirmed' \in Seq(PivotType), AtrPeriod <= i',
         \A k \in 1..Len(confirmed') : Settled(k)', Running'
  PROVE  IInv'
<1>1. /\ i' \in Nat /\ bars' \in Seq(BarType) /\ Len(bars') = i' + 1
      /\ atrN' \in 0..AtrPeriod
      /\ atrN' = IF i' < AtrPeriod THEN i' ELSE AtrPeriod
      /\ Ordered'
  BY FeedFacts
<1>2. /\ provisional' \in PivotType /\ Len(shown') = i' + 1
      /\ shown' \in Seq(PivotType \cup {NoPivot})
      /\ Published'
  BY PublishedNext
<1>3. /\ dir' \in {"up", "down"}
      /\ ext' \in [i : Nat, ts : Nat, px : Int, thr : Nat]
  BY DEF Republished
<1>4. TypeOK'
  BY <1>1, <1>2, <1>3 DEF TypeOK, IInv
<1>5. Counting'
  BY <1>1, <1>2, <1>3, ZigZagAssumption DEF Counting
<1> QED BY <1>1, <1>2, <1>4, <1>5 DEF IInv

-----------------------------------------------------------------------------
(***************************************************************************)
(* The invariant is preserved, action by action.                           *)
(***************************************************************************)
LEMMA WarmingInv ==
  ASSUME IInv, NEW b, Later(b), Warming(b)
  PROVE  IInv'
<1>1. /\ i' \in Nat /\ i \in Int /\ i' = i + 1 /\ i >= -1
      /\ bars' \in Seq(BarType) /\ Len(bars') = i' + 1
      /\ atrN' \in 0..AtrPeriod
      /\ atrN' = IF i' < AtrPeriod THEN i' ELSE AtrPeriod
      /\ Ordered'
  BY FeedFacts DEF Warming
<1>2. i' < AtrPeriod /\ AtrPeriod \in Nat
  BY <1>1, ZigZagAssumption DEF Warming, Feed
<1>3. dir = "none" /\ dir' = "none" /\ confirmed = << >> /\ confirmed' = << >>
  BY <1>1, <1>2 DEF Warming, IInv, Counting
<1>4. /\ shown' \in Seq(PivotType \cup {NoPivot}) /\ Len(shown') = i' + 1
      /\ provisional' = NoPivot
  BY <1>1, <1>3 DEF Warming, IInv, TypeOK, Counting, Published
<1>5. TypeOK'
  BY <1>1, <1>3, <1>4 DEF Warming, IInv, TypeOK
<1>6. Counting'
  BY <1>1, <1>2, <1>3, <1>4 DEF Counting
<1>7. Running' /\ Published' /\ ~raised'
  BY <1>3, <1>4 DEF Running, Published, Warming, IInv
<1> QED BY <1>1, <1>3, <1>5, <1>6, <1>7 DEF IInv

(* The first bar. *)
LEMMA StartInv ==
  ASSUME IInv, NEW b, Later(b), Start(b)
  PROVE  IInv'
<1>1. /\ i' \in Nat /\ i \in Int /\ i' = i + 1 /\ BarAt(i)' = b
      /\ atrN' = IF i' < AtrPeriod THEN i' ELSE AtrPeriod
      /\ Feed(b) /\ b \in BarType
  BY FeedFacts DEF Start, Later
<1>2. dir = "none" /\ dir' = "up" /\ confirmed = << >> /\ confirmed' = << >>
      /\ i < AtrPeriod /\ atrN' = AtrPeriod /\ AtrPeriod \in Nat
  BY <1>1, ZigZagAssumption DEF Start, Feed, IInv, Counting
<1>3. i' = AtrPeriod
  BY <1>1, <1>2
<1>4. ext' = [i |-> i', ts |-> b.ts, px |-> UpPx(b), thr |-> b.thr]
  BY DEF Start, SetExtreme
<1>5. ext' \in [i : Nat, ts : Nat, px : Int, thr : Nat]
  BY <1>1, <1>4, PricesAreInt DEF BarType, PivotKind
<1>6. Republished(b)
  BY <1>2, <1>4, <1>5 DEF Republished, Start
<1>7. Running'
  <2>1. LeadPx("HIGH", b) = UpPx(b) /\ UpPx(b) \in Int
    BY <1>1, PricesAreInt DEF LeadPx, PivotKind
  <2>2. LegStart(Len(confirmed) + 1)' = i'
    BY <1>2, <1>3 DEF LegStart
  <2>3. ~Beyond("HIGH", UpPx(b), UpPx(b))
    BY <2>1 DEF Beyond
  <2>4. KindOf(dir') = "HIGH"
    BY <1>2 DEF KindOf
  <2> QED BY <2>1, <2>2, <2>3, <2>4, <1>1, <1>2, <1>3, <1>4 DEF Running
<1>8. raised' = raised /\ confirmed' \in Seq(PivotType)
  BY <1>2 DEF Start, IInv, TypeOK
<1> QED BY <1>1, <1>2, <1>3, <1>6, <1>7, <1>8, StepInv

(* A bar that goes further. *)
LEMMA ExtendInv ==
  ASSUME IInv, NEW b, Later(b), Extend(b)
  PROVE  IInv'
<1> DEFINE kind == KindOf(dir)
           px   == LeadPx(kind, b)
<1>1. /\ i' \in Nat /\ i \in Int /\ i' = i + 1 /\ BarAt(i)' = b
      /\ \A j \in 0..i : BarAt(j)' = BarAt(j)
      /\ Feed(b) /\ b \in BarType
  BY FeedFacts DEF Extend, Later
<1>2. /\ dir' = dir /\ dir \in {"up", "down"} /\ confirmed' = confirmed
      /\ kind \in PivotKind /\ raised' = raised
  BY DEF Extend, IInv, TypeOK, KindOf, PivotKind
<1>3. AtrPeriod <= i /\ AtrPeriod \in Nat
  BY <1>1, <1>2, ZigZagAssumption DEF IInv, Counting
<1>4. ext' = [i |-> i', ts |-> b.ts, px |-> px, thr |-> b.thr]
  BY DEF Extend, SetExtreme
<1>5. px \in Int /\ ext' \in [i : Nat, ts : Nat, px : Int, thr : Nat]
  BY <1>1, <1>2, <1>4, PricesAreInt DEF BarType
<1>6. Republished(b)
  BY <1>2, <1>4, <1>5 DEF Republished, Extend
<1>8. LegStart(Len(confirmed) + 1)' = LegStart(Len(confirmed) + 1)
  BY <1>2 DEF LegStart
<1>9. LegStart(Len(confirmed) + 1) \in Nat
  BY LegStartIsNat
<1>10. ASSUME NEW j \in LegStart(Len(confirmed) + 1)..i'
       PROVE  ~Beyond(kind, LeadPx(kind, BarAt(j)'), px)
  <2>1. Beyond(kind, px, ext.px) /\ ext.px \in Int
    BY DEF Extend, Extends, IInv, TypeOK
  <2>2. CASE j = i'
    BY <2>2, <1>1, <1>5 DEF Beyond
  <2>3. CASE j \in 0..i
    <3>1. ~Beyond(kind, LeadPx(kind, BarAt(j)), ext.px)
      BY <2>3, <1>1, <1>2 DEF IInv, Running
    <3>2. BarAt(j) \in BarType
      BY <2>3, <1>1 DEF BarAt, IInv, TypeOK, Counting
    <3>3. LeadPx(kind, BarAt(j)) \in Int
      BY <3>2, <1>2, PricesAreInt
    <3> QED BY <3>1, <3>3, <2>1, <2>3, <1>1, <1>5 DEF Beyond
  <2> QED BY <2>2, <2>3, <1>1, <1>9
<1>11. Running'
  <2>1. confirmed # << >> =>
          /\ confirmed[Len(confirmed)].kind = Opposite(kind)
          /\ confirmed[Len(confirmed)].confirmed_idx \in 0..i
    <3>1. CASE confirmed # << >>
      <4>1. Len(confirmed) \in 1..Len(confirmed)
        BY <1>1, <3>1 DEF IInv, TypeOK
      <4>2. confirmed[Len(confirmed)].confirmed_idx \in 0..i
        BY <1>1, <4>1 DEF IInv, Settled, IsLocated
      <4> QED BY <1>1, <1>2, <3>1, <4>2 DEF IInv, Running
    <3> QED BY <3>1
  <2>2. /\ AtrPeriod <= ext'.i /\ ext'.i <= i'
        /\ ext'.ts = BarAt(ext.i)'.ts /\ ext'.thr = BarAt(ext.i)'.thr
        /\ ext'.px = LeadPx(KindOf(dir), BarAt(ext.i))'
    BY <1>1, <1>2, <1>3, <1>4 DEF BarAt
  <2>3. \A j \in (ext'.i + 1)..i' :
          Retrace(KindOf(dir'), ext'.px, BarAt(j)') < ext'.thr
    BY <1>1, <1>4
  <2>4. \A j \in LegStart(Len(confirmed) + 1)'..i' :
          ~Beyond(KindOf(dir'), LeadPx(KindOf(dir'), BarAt(j)'), ext'.px)
    BY <1>2, <1>4, <1>8, <1>10
  <2>5. confirmed' # << >> =>
          /\ confirmed'[Len(confirmed')].kind = Opposite(KindOf(dir'))
          /\ confirmed'[Len(confirmed')].confirmed_idx <= ext'.i
    BY <2>1, <1>1, <1>2, <1>4
  <2> QED BY <2>2, <2>3, <2>4, <2>5, <1>2 DEF Running
<1>12. \A k \in 1..Len(confirmed') : Settled(k)'
  BY <1>1, <1>2, SettledStays DEF IInv, TypeOK
<1> QED BY <1>1, <1>2, <1>3, <1>6, <1>11, <1>12, StepInv DEF IInv, TypeOK

(* A bar that does neither. *)
LEMMA HoldInv ==
  ASSUME IInv, NEW b, Later(b), Hold(b)
  PROVE  IInv'
<1> DEFINE kind == KindOf(dir)
<1>1. /\ i' \in Nat /\ i \in Int /\ i' = i + 1 /\ BarAt(i)' = b
      /\ \A j \in 0..i : BarAt(j)' = BarAt(j)
      /\ Feed(b) /\ b \in BarType
  BY FeedFacts DEF Hold, Later
<1>2. /\ dir' = dir /\ dir \in {"up", "down"} /\ confirmed' = confirmed
      /\ ext' = ext /\ kind \in PivotKind /\ raised' = raised
      /\ ext \in [i : Nat, ts : Nat, px : Int, thr : Nat]
  BY DEF Hold, IInv, TypeOK, KindOf, PivotKind
<1>3. AtrPeriod <= i /\ AtrPeriod \in Nat
  BY <1>1, <1>2, ZigZagAssumption DEF IInv, Counting
<1>4. Republished(b)
  BY <1>2 DEF Republished, Hold
<1>5. /\ ~Beyond(kind, LeadPx(kind, b), ext.px)
      /\ Retrace(kind, ext.px, b) < ext.thr
  <2>1. Retrace(kind, ext.px, b) \in Int
    BY <1>1, <1>2, PricesAreInt DEF Retrace
  <2> QED BY <2>1, <1>2 DEF Hold, Extends, Reverses
<1>6. Running
  BY DEF IInv
<1>7. ext.i \in 0..i
  BY <1>1, <1>2, <1>6 DEF Running
<1>8. /\ AtrPeriod <= ext'.i /\ ext'.i <= i'
      /\ ext'.ts = BarAt(ext.i)'.ts /\ ext'.thr = BarAt(ext.i)'.thr
      /\ ext'.px = LeadPx(KindOf(dir), BarAt(ext.i))'
  BY <1>1, <1>2, <1>6, <1>7 DEF Running, BarAt
<1>9. ASSUME NEW j \in (ext.i + 1)..i'
      PROVE  Retrace(kind, ext.px, BarAt(j)') < ext.thr
  <2>1. CASE j = i' BY <2>1, <1>1, <1>5
  <2>2. CASE j \in (ext.i + 1)..i
    BY <2>2, <1>1, <1>2, <1>6, <1>7 DEF Running
  <2> QED BY <2>1, <2>2, <1>1, <1>7
<1>10. LegStart(Len(confirmed) + 1)' = LegStart(Len(confirmed) + 1)
  BY <1>2 DEF LegStart
<1>11. LegStart(Len(confirmed) + 1) \in Nat
  BY LegStartIsNat
<1>12. ASSUME NEW j \in LegStart(Len(confirmed) + 1)..i'
       PROVE  ~Beyond(kind, LeadPx(kind, BarAt(j)'), ext.px)
  <2>1. CASE j = i' BY <2>1, <1>1, <1>5
  <2>2. CASE j \in 0..i
    BY <2>2, <1>1, <1>2, <1>6 DEF Running
  <2> QED BY <2>1, <2>2, <1>1, <1>11
<1>13. confirmed' # << >> =>
         /\ confirmed'[Len(confirmed')].kind = Opposite(KindOf(dir'))
         /\ confirmed'[Len(confirmed')].confirmed_idx <= ext'.i
  BY <1>2, <1>6 DEF Running
<1>14. Running'
  BY <1>2, <1>8, <1>9, <1>10, <1>12, <1>13 DEF Running
<1>15. \A k \in 1..Len(confirmed') : Settled(k)'
  BY <1>1, <1>2, SettledStays DEF IInv, TypeOK
<1> QED BY <1>1, <1>2, <1>3, <1>4, <1>14, <1>15, StepInv DEF IInv, TypeOK

(* The pivot that a reversal confirms, and why the store accepts it. *)
LEMMA ConfirmationAccepted ==
  ASSUME IInv, NEW b, Later(b), Feed(b), dir # "none"
  PROVE  /\ Confirmation(b) \in PivotType
         /\ ~AppendRefused(Confirmation(b))
<1> DEFINE p == Confirmation(b)
           last == confirmed[Len(confirmed)]
<1>1. /\ i \in Int /\ i + 1 \in Nat /\ b \in BarType /\ Running
      /\ ext \in [i : Nat, ts : Nat, px : Int, thr : Nat]
      /\ confirmed \in Seq(PivotType)
  BY FeedFacts DEF Later, IInv, TypeOK
<1>2. KindOf(dir) \in PivotKind
  BY DEF KindOf, PivotKind
<1>3. p = [idx |-> ext.i, ts |-> ext.ts, price |-> ext.px, kind |-> KindOf(dir),
           thr |-> ext.thr, confirmed_idx |-> i + 1, confirmed_ts |-> b.ts]
  BY DEF Confirmation, ConfirmedAt, Pivot
<1>4. p \in PivotType
  BY <1>1, <1>2, <1>3 DEF PivotType, BarType
<1>5. IsConfirmed(p)
  BY <1>1, <1>3 DEF IsConfirmed, None
<1>6. CASE confirmed = << >>
  BY <1>4, <1>5, <1>6 DEF AppendRefused
<1>7. CASE confirmed # << >>
  <2>1. Len(confirmed) \in 1..Len(confirmed) /\ last \in PivotType
    BY <1>1, <1>7
  <2>2. /\ last.confirmed_idx \in 0..i /\ last.idx < last.confirmed_idx
        /\ last.confirmed_ts = BarAt(last.confirmed_idx).ts
        /\ last.confirmed_idx <= ext.i
    BY <1>1, <1>7, <2>1 DEF IInv, Settled, IsLocated, IsFirstPassage, Running
  <2>3. last.confirmed_ts < b.ts
    BY <2>2, <1>1 DEF BarAt, Later, IInv, Counting
  <2>4. /\ last.idx \in Nat /\ last.confirmed_ts \in Nat \cup {None}
        /\ b.ts \in Nat /\ ext.i \in Nat
    BY <2>1, <1>1 DEF PivotType, BarType
  <2>5. p.confirmed_ts = b.ts /\ p.idx = ext.i
    BY <1>3
  <2>6. ~(p.confirmed_ts < last.confirmed_ts) /\ ~(p.idx <= last.idx)
    BY <2>2, <2>3, <2>4, <2>5 DEF None
  <2> QED BY <2>6, <1>4, <1>5 DEF AppendRefused
<1> QED BY <1>6, <1>7

(* A bar that turns and confirms a pivot. *)
LEMMA ConfirmInv ==
  ASSUME IInv, NEW b, Later(b), Confirm(b)
  PROVE  IInv'
<1> DEFINE kind == KindOf(dir)
           new  == KindOf(dir')
           p    == Confirmation(b)
           px   == LeadPx(new, b)
<1>0. PICK n \in Nat \ {0} : n = Len(confirmed) + 1
  BY DEF IInv, TypeOK
<1>1. /\ i' \in Nat /\ i \in Int /\ i' = i + 1 /\ BarAt(i)' = b
      /\ \A j \in 0..i : BarAt(j)' = BarAt(j)
      /\ Feed(b) /\ b \in BarType /\ Running
      /\ ext \in [i : Nat, ts : Nat, px : Int, thr : Nat]
      /\ confirmed \in Seq(PivotType)
      /\ dir \in {"up", "down"}
  BY FeedFacts DEF Confirm, Later, IInv, TypeOK
<1>2. /\ dir' \in {"up", "down"} /\ raised' = raised
      /\ kind \in PivotKind /\ new \in PivotKind
      /\ new = Opposite(kind) /\ kind = Opposite(new)
  BY <1>1 DEF Confirm, KindOf, PivotKind, Opposite
<1>3. AtrPeriod <= i /\ AtrPeriod \in Nat
  BY <1>1, ZigZagAssumption DEF IInv, Counting
<1>4. px \in Int /\ ext' = [i |-> i', ts |-> b.ts, px |-> px, thr |-> b.thr]
      /\ ext' \in [i : Nat, ts : Nat, px : Int, thr : Nat]
  BY <1>1, <1>2, PricesAreInt DEF Confirm, SetExtreme, BarType
<1>5. Republished(b)
  BY <1>2, <1>4 DEF Republished, Confirm
<1>6. /\ p \in PivotType
      /\ p = [idx |-> ext.i, ts |-> ext.ts, price |-> ext.px, kind |-> kind,
              thr |-> ext.thr, confirmed_idx |-> i + 1, confirmed_ts |-> b.ts]
  BY <1>1, ConfirmationAccepted DEF Confirmation, ConfirmedAt, Pivot
<1>7. /\ confirmed' = Append(confirmed, p) /\ confirmed' \in Seq(PivotType)
      /\ Len(confirmed') = n /\ n \in Nat \ {0} /\ confirmed'[n] = p
      /\ \A k \in 1..Len(confirmed) : confirmed'[k] = confirmed[k]
  BY <1>0, <1>1, <1>6 DEF Confirm, append_confirmed
<1>8. \A k \in 1..Len(confirmed) : Settled(k)'
  BY <1>1, <1>7, SettledStays
<1>9. /\ ~Beyond(kind, LeadPx(kind, b), ext.px)
      /\ Retrace(kind, ext.px, b) >= ext.thr
  BY DEF Confirm, Extends, Reverses
<1>10. /\ AtrPeriod <= ext.i /\ ext.i \in 0..i
       /\ BarAt(ext.i).thr = ext.thr /\ ext.px = LeadPx(kind, BarAt(ext.i))
       /\ BarAt(ext.i).ts = ext.ts
       /\ \A j \in (ext.i + 1)..i : Retrace(kind, ext.px, BarAt(j)) < ext.thr
       /\ \A j \in LegStart(n)..i :
            ~Beyond(kind, LeadPx(kind, BarAt(j)), ext.px)
  BY <1>0, <1>1 DEF Running
<1>11. Settled(n)'
  <2>1. IsLocated(n)'
    BY <1>1, <1>6, <1>7, <1>10 DEF IsLocated
  <2>2. IsChained(n)'
    <3> DEFINE last == confirmed[Len(confirmed)]
    <3>1. ASSUME n > 1
          PROVE  confirmed'[n].kind = Opposite(confirmed'[n - 1].kind)
      <4>1. confirmed # << >> /\ n - 1 = Len(confirmed) /\ n - 1 \in 1..Len(confirmed)
        BY <3>1, <1>0, <1>1
      <4>2. last.kind = Opposite(kind) /\ confirmed'[n - 1] = last
        BY <4>1, <1>1, <1>7 DEF Running
      <4>3. Opposite(Opposite(kind)) = kind
        BY <1>2 DEF PivotKind, Opposite
      <4> QED BY <4>2, <4>3, <1>6, <1>7
    <3>2. ASSUME NEW a \in 1..(n - 1)
          PROVE  confirmed[a].confirmed_idx <= ext.i
      <4>1. /\ a \in 1..Len(confirmed) /\ Len(confirmed) \in 1..Len(confirmed)
            /\ confirmed # << >>
        BY <3>2, <1>0, <1>1
      <4>2. CASE a = Len(confirmed)
        BY <4>1, <4>2, <1>1 DEF Running
      <4>3. CASE a < Len(confirmed)
        <5>1. /\ Settled(Len(confirmed)) /\ Settled(a)
              /\ last.confirmed_idx <= ext.i
          BY <4>1, <1>1 DEF IInv, Running
        <5>2. /\ confirmed[a].confirmed_idx <= last.idx
              /\ last.idx < last.confirmed_idx
              /\ confirmed[a].confirmed_idx \in 0..i /\ last.confirmed_idx \in 0..i
          BY <5>1, <4>1, <4>3
             DEF Settled, IsChained, IsLocated, IsFirstPassage
        <5>3. last \in PivotType
          BY <4>1, <1>1
        <5>4. last.idx \in Nat
          BY <5>3 DEF PivotType
        <5>5. ext.i \in Int
          BY <1>1, <1>10
        <5> QED BY <5>1, <5>2, <5>4, <5>5
      <4> QED BY <4>1, <4>2, <4>3, <1>0, <1>1
    <3>3. \A a \in 1..(n - 1) : confirmed'[a] = confirmed[a]
      BY <1>0, <1>1, <1>7
    <3>4. \A a \in 1..(n - 1) : confirmed'[a].confirmed_idx <= confirmed'[n].idx
      BY <3>2, <3>3, <1>6, <1>7
    <3> QED BY <3>1, <3>4 DEF IsChained
  <2>3. IsFirstPassage(confirmed[n])'
    <3>1. \A j \in (ext.i + 1)..i : Retrace(kind, ext.px, BarAt(j)') < ext.thr
      BY <1>1, <1>10
    <3> QED BY <3>1, <1>1, <1>6, <1>7, <1>9, <1>10 DEF IsFirstPassage
  <2>4. LegStart(n)' = LegStart(n)
    BY <1>0, <1>1, <1>7 DEF LegStart
  <2>5. IsLegExtreme(n)'
    <3>1. LegStart(n) \in Nat
      BY <1>0, LegStartIsNat
    <3>2. ASSUME NEW j \in LegStart(n)..i'
          PROVE  ~Beyond(kind, LeadPx(kind, BarAt(j)'), ext.px)
      <4>1. CASE j = i' BY <4>1, <1>1, <1>9
      <4>2. CASE j \in 0..i BY <4>2, <1>1, <1>10
      <4> QED BY <4>1, <4>2, <3>1, <1>1
    <3> QED BY <3>2, <2>4, <1>1, <1>6, <1>7, <1>10 DEF IsLegExtreme
  <2> QED BY <2>1, <2>2, <2>3, <2>5 DEF Settled
<1>12. Running'
  <2>1. /\ AtrPeriod <= ext'.i /\ ext'.i <= i'
        /\ ext'.ts = BarAt(ext.i)'.ts /\ ext'.thr = BarAt(ext.i)'.thr
        /\ ext'.px = LeadPx(KindOf(dir), BarAt(ext.i))'
    BY <1>1, <1>3, <1>4 DEF BarAt
  <2>2. \A j \in (ext'.i + 1)..i' :
          Retrace(KindOf(dir'), ext'.px, BarAt(j)') < ext'.thr
    BY <1>1, <1>4
  <2>3. LegStart(Len(confirmed) + 1)' = ext.i + 1
    BY <1>0, <1>6, <1>7 DEF LegStart
  <2>4. ASSUME NEW j \in (ext.i + 1)..i'
        PROVE  ~Beyond(new, LeadPx(new, BarAt(j)'), px)
    <3>1. CASE j = i' BY <3>1, <1>1, <1>4 DEF Beyond
    <3>2. CASE j \in (ext.i + 1)..i
      <4>1. BarAt(j)' = BarAt(j) /\ Retrace(kind, ext.px, BarAt(j)) < ext.thr
        BY <3>2, <1>1, <1>10
      <4>2. BarAt(j) \in BarType
        BY <3>2, <1>1 DEF BarAt, IInv, TypeOK, Counting
      <4>3. /\ UpPx(BarAt(j)) \in Int /\ DownPx(BarAt(j)) \in Int
            /\ UpPx(b) \in Int /\ DownPx(b) \in Int
        BY <4>2, <1>1, <1>2, PricesAreInt
      <4> QED BY <4>1, <4>3, <1>1, <1>2, <1>9
              DEF Beyond, LeadPx, Retrace, Opposite, PivotKind
    <3> QED BY <3>1, <3>2, <1>1, <1>10
  <2>5. \A j \in LegStart(Len(confirmed) + 1)'..i' :
          ~Beyond(KindOf(dir'), LeadPx(KindOf(dir'), BarAt(j)'), ext'.px)
    BY <2>3, <2>4, <1>4
  <2>6. /\ confirmed'[Len(confirmed')].kind = Opposite(KindOf(dir'))
        /\ confirmed'[Len(confirmed')].confirmed_idx <= ext'.i
    BY <1>1, <1>2, <1>4, <1>6, <1>7
  <2> QED BY <2>1, <2>2, <2>5, <2>6 DEF Running
<1>13. \A k \in 1..Len(confirmed') : Settled(k)'
  <2>1. 1..Len(confirmed') = 1..Len(confirmed) \cup {n}
    BY <1>0, <1>1, <1>7
  <2> QED BY <2>1, <1>7, <1>8, <1>11
<1> QED BY <1>1, <1>2, <1>3, <1>5, <1>7, <1>12, <1>13, StepInv

-----------------------------------------------------------------------------
(***************************************************************************)
(* Theorems about the specification.                                       *)
(***************************************************************************)
LEMMA InitInv == Init => IInv
<1> SUFFICES ASSUME Init PROVE IInv
  OBVIOUS
<1>1. /\ confirmed = << >> /\ bars = << >> /\ shown = << >> /\ provisional = NoPivot
      /\ i = -1 /\ atrN = 0 /\ dir = "none" /\ raised = FALSE
      /\ ext = [i |-> 0, ts |-> 0, px |-> 0, thr |-> 0]
      /\ AtrPeriod \in Nat \ {0}
  BY ZigZagAssumption DEF Init, StoreInit
<1>2. TypeOK
  <2>1. /\ confirmed \in Seq(PivotType) /\ bars \in Seq(BarType)
        /\ shown \in Seq(PivotType \cup {NoPivot})
    BY <1>1
  <2>2. /\ i \in Nat \cup {-1} /\ atrN \in 0..AtrPeriod
        /\ ext \in [i : Nat, ts : Nat, px : Int, thr : Nat]
    BY <1>1
  <2> QED BY <1>1, <2>1, <2>2 DEF TypeOK
<1>3. Counting
  BY <1>1 DEF Counting
<1> QED BY <1>1, <1>2, <1>3 DEF IInv, Ordered, Running, Published

(* The invariant under every step. *)
LEMMA StepKeepsInv == IInv /\ [Next]_vars => IInv'
<1> SUFFICES ASSUME IInv, [Next]_vars PROVE IInv'
  OBVIOUS
<1>1. CASE Next
  <2>1. PICK c \in Candles, d \in Steps :
          update(Stamped(c, LastTs + d))
    BY <1>1 DEF Next
  <2> DEFINE b == Stamped(c, LastTs + d)
  <2>2. Later(b)
    BY NextBarIsLater DEF IInv
  <2> HIDE DEF b
  <2>3. CASE Warming(b) BY <2>2, <2>3, WarmingInv
  <2>4. CASE Start(b)   BY <2>2, <2>4, StartInv
  <2>5. CASE Extend(b)  BY <2>2, <2>5, ExtendInv
  <2>6. CASE Hold(b)    BY <2>2, <2>6, HoldInv
  <2>7. CASE Confirm(b) BY <2>2, <2>7, ConfirmInv
  <2>8. CASE ConfirmRaises(b)
    BY <2>2, <2>8, ConfirmationAccepted DEF ConfirmRaises
  <2> QED BY <2>1, <2>3, <2>4, <2>5, <2>6, <2>7, <2>8 DEF update, Reverse, b
<1>2. CASE UNCHANGED vars
  <2>1. /\ \A j : BarAt(j)' = BarAt(j)
        /\ confirmed' = confirmed /\ i' = i
    BY <1>2 DEF vars, BarAt
  <2>2. ASSUME NEW k \in 1..Len(confirmed) PROVE Settled(k)'
    <3>1. Settled(k)
      BY DEF IInv
    <3> QED BY <3>1, <1>2 DEF vars, Settled, IsLocated, IsChained, IsFirstPassage,
                             IsLegExtreme, LegStart, BarAt
  <2>3. Running'
    BY <1>2 DEF vars, IInv, Running, BarAt, LegStart
  <2>4. TypeOK' /\ Counting' /\ Ordered' /\ Published' /\ ~raised'
    BY <1>2 DEF vars, IInv, TypeOK, Counting, Ordered, Published
  <2> QED BY <2>1, <2>2, <2>3, <2>4 DEF IInv
<1> QED BY <1>1, <1>2

(* The invariant of the detector holds in every reachable state
   (waves/pivots.py). *)
THEOREM InvariantHolds == Spec => []IInv
BY InitInv, StepKeepsInv, PTL DEF Spec

(* The detector, its store and its histories stay well typed. *)
THEOREM TypeCorrect == Spec => []TypeOK
<1>1. IInv => TypeOK BY DEF IInv
<1> QED BY <1>1, InvariantHolds, PTL

(* Every confirmed pivot is the first passage of its latched threshold. *)
THEOREM PivotsAreFirstPassages == Spec => []FirstPassage
<1>1. IInv => FirstPassage BY DEF IInv, Settled, FirstPassage
<1> QED BY <1>1, InvariantHolds, PTL

(* Every confirmed pivot is the extreme of its whole leg. *)
THEOREM PivotsAreLegExtremes == Spec => []TrueExtreme
<1>1. IInv => TrueExtreme BY DEF IInv, Settled, TrueExtreme
<1> QED BY <1>1, InvariantHolds, PTL

(* None of the errors the store can raise is ever raised by the detector. *)
THEOREM StoreIsNeverAbused == Spec => []StoreNeverRaises
<1>1. IInv => StoreNeverRaises BY DEF IInv, StoreNeverRaises
<1> QED BY <1>1, InvariantHolds, PTL

(* The provisional pivot read for a past bar is hidden or is the one that was
   published with that bar. *)
THEOREM ProvisionalHasNoHindsight == Spec => []ProvisionalNoHindsight
<1>1. ASSUME IInv PROVE ProvisionalNoHindsight
  <2> SUFFICES ASSUME NEW k \in 1..Len(shown)
               PROVE  ProvisionalAsOf(provisional, bars[k].ts) \in {NoPivot, shown[k]}
    BY DEF ProvisionalNoHindsight
  <2>1. /\ Len(shown) = Len(bars) /\ i \in Int /\ Len(bars) = i + 1
        /\ ext.i \in Nat /\ \A n \in 1..Len(bars) : bars[n].ts \in Nat
    <3>1. bars \in Seq(BarType) BY <1>1 DEF IInv, TypeOK
    <3>2. \A n \in 1..Len(bars) : bars[n] \in BarType BY <3>1
    <3>3. \A n \in 1..Len(bars) : bars[n].ts \in Nat BY <3>2 DEF BarType
    <3> QED BY <3>3, <1>1 DEF IInv, TypeOK, Counting
  <2>2. CASE dir = "none"
    BY <2>2, <1>1 DEF IInv, Published, ProvisionalAsOf
  <2>3. CASE dir # "none" /\ k \in (ext.i + 1)..Len(shown)
    BY <2>3, <1>1 DEF IInv, Published, ProvisionalAsOf
  <2>4. CASE dir # "none" /\ k <= ext.i
    <3>1. provisional.ts = bars[ext.i + 1].ts /\ ext.i + 1 \in 1..Len(bars)
      BY <2>1, <2>4, <1>1 DEF IInv, Published, Running, BarAt, Pivot
    <3>2. bars[k].ts < provisional.ts
      BY <2>1, <2>4, <3>1, <1>1 DEF IInv, Ordered
    <3> QED BY <2>1, <3>1, <3>2 DEF ProvisionalAsOf
  <2> QED BY <2>1, <2>2, <2>3, <2>4
<1> QED BY <1>1, InvariantHolds, PTL

-----------------------------------------------------------------------------
(***************************************************************************)
(* The snapshot of a past bar never changes.  as_of depends on a cut of    *)
(* the history existing; that it does at the time of every bar seen is an  *)
(* invariant of its own, kept because a new pivot is dated with the newest *)
(* bar.                                                                    *)
(***************************************************************************)
Readable == \A k \in 1..Len(bars) : Cuts(confirmed, bars[k].ts) # {}

(* A pivot confirmed after `now' adds no cut and removes none. *)
LEMMA LaterPivotKeepsCuts ==
  ASSUME NEW h \in Seq(PivotType), NEW p \in PivotType, NEW now \in Nat,
         p.confirmed_ts > now
  PROVE  Cuts(Append(h, p), now) = Cuts(h, now)
<1> DEFINE g == Append(h, p)
<1>1. /\ Len(g) = Len(h) + 1 /\ Len(h) \in Nat /\ g[Len(h) + 1] = p
      /\ \A j \in 1..Len(h) : g[j] = h[j]
  OBVIOUS
<1>2. ~(p.confirmed_ts <= now)
  <2>1. p.confirmed_ts \in Nat \cup {None}
    BY DEF PivotType
  <2> QED BY <2>1 DEF None
<1>3. ASSUME NEW k \in Cuts(g, now) PROVE k \in Cuts(h, now)
  <2>1. k # Len(h) + 1
    BY <1>1, <1>2, <1>3 DEF Cuts
  <2>2. k \in 0..Len(h)
    BY <2>1, <1>1, <1>3 DEF Cuts
  <2> QED BY <2>2, <1>1, <1>3 DEF Cuts
<1>4. ASSUME NEW k \in Cuts(h, now) PROVE k \in Cuts(g, now)
  <2>1. k \in 0..Len(h)
    BY <1>4 DEF Cuts
  <2>2. \A j \in (k + 1)..Len(g) : g[j].confirmed_ts > now
    <3> SUFFICES ASSUME NEW j \in (k + 1)..Len(g) PROVE g[j].confirmed_ts > now
      OBVIOUS
    <3>1. CASE j = Len(h) + 1 BY <3>1, <1>1
    <3>2. CASE j \in (k + 1)..Len(h) BY <3>2, <2>1, <1>1, <1>4 DEF Cuts
    <3> QED BY <3>1, <3>2, <2>1, <1>1
  <2> QED BY <2>1, <2>2, <1>1, <1>4 DEF Cuts
<1> QED BY <1>3, <1>4

(* A pivot confirmed later does not change what was known. *)
LEMMA LaterPivotKeepsAsOf ==
  ASSUME NEW h \in Seq(PivotType), NEW p \in PivotType, NEW now \in Nat,
         p.confirmed_ts > now, Cuts(h, now) # {}
  PROVE  AsOf(Append(h, p), now) = AsOf(h, now)
<1>1. NAsOf(Append(h, p), now) = NAsOf(h, now)
  BY LaterPivotKeepsCuts DEF NAsOf
<1>2. NAsOf(h, now) \in 0..Len(h)
  BY DEF NAsOf, Cuts
<1>3. SubSeq(Append(h, p), 1, NAsOf(h, now)) = SubSeq(h, 1, NAsOf(h, now))
  BY <1>2
<1> QED BY <1>1, <1>3 DEF AsOf

(* All a bar can do to the history a reader sees. *)
Grows(b) ==
  /\ Later(b) /\ bars' = Append(bars, b)
  /\ \/ confirmed' = confirmed
     \/ \E p \in PivotType : p.confirmed_ts = b.ts /\ confirmed' = Append(confirmed, p)

(* A step leaves the bars and the pivots alone, or adds to them. *)
LEMMA StepShape ==
  ASSUME IInv, [Next]_vars
  PROVE  UNCHANGED <<bars, confirmed>> \/ \E b : Grows(b)
<1>1. CASE Next
  <2>1. PICK c \in Candles, d \in Steps :
          update(Stamped(c, LastTs + d))
    BY <1>1 DEF Next
  <2> DEFINE b == Stamped(c, LastTs + d)
  <2>2. Later(b)
    BY NextBarIsLater DEF IInv
  <2> HIDE DEF b
  <2>3. CASE Confirm(b)
    <3>1. /\ bars' = Append(bars, b) /\ confirmed' = Append(confirmed, Confirmation(b))
          /\ Confirmation(b) \in PivotType
      BY <2>2, <2>3, ConfirmationAccepted DEF Confirm, Feed, append_confirmed
    <3>2. Confirmation(b).confirmed_ts = b.ts
      BY DEF Confirmation, ConfirmedAt
    <3> QED BY <2>2, <3>1, <3>2 DEF Grows
  <2>4. CASE Warming(b) \/ Start(b) \/ Extend(b) \/ Hold(b) \/ ConfirmRaises(b)
    BY <2>2, <2>4 DEF Grows, Warming, Start, Extend, Hold, ConfirmRaises, Feed
  <2> QED BY <2>1, <2>3, <2>4 DEF update, Reverse, b
<1>2. CASE UNCHANGED vars BY <1>2 DEF vars
<1> QED BY <1>1, <1>2

(* Bars have times. *)
LEMMA BarTimes == ASSUME IInv PROVE \A k \in 1..Len(bars) : bars[k].ts \in Nat
<1>1. bars \in Seq(BarType) BY DEF IInv, TypeOK
<1>2. \A k \in 1..Len(bars) : bars[k] \in BarType BY <1>1
<1> QED BY <1>2 DEF BarType

(* What was known at a bar is known after a step. *)
LEMMA SnapshotStep ==
  ASSUME IInv, Readable, [Next]_vars
  PROVE  \A k \in 1..Len(bars) :
           /\ Cuts(confirmed', bars[k].ts) # {}
           /\ AsOf(confirmed', bars[k].ts) = AsOf(confirmed, bars[k].ts)
<1> SUFFICES ASSUME NEW k \in 1..Len(bars)
             PROVE  /\ Cuts(confirmed', bars[k].ts) # {}
                    /\ AsOf(confirmed', bars[k].ts) = AsOf(confirmed, bars[k].ts)
  OBVIOUS
<1>1. CASE confirmed' = confirmed
  BY <1>1 DEF Readable
<1>2. CASE \E b : Grows(b) /\ confirmed' # confirmed
  <2>0. PICK b : Grows(b) /\ confirmed' # confirmed
    BY <1>2
  <2>1. PICK p \in PivotType :
          /\ Later(b) /\ p.confirmed_ts = b.ts /\ confirmed' = Append(confirmed, p)
    BY <2>0 DEF Grows
  <2>2. /\ b.ts \in Nat /\ bars[k].ts \in Nat /\ bars[k].ts < b.ts
        /\ Cuts(confirmed, bars[k].ts) # {} /\ confirmed \in Seq(PivotType)
    BY <2>1, BarTimes DEF Later, BarType, Readable, IInv, TypeOK
  <2>3. p.confirmed_ts > bars[k].ts
    BY <2>1, <2>2
  <2> QED BY <2>1, <2>2, <2>3, LaterPivotKeepsCuts, LaterPivotKeepsAsOf
<1> QED BY <1>1, <1>2, StepShape

(* What can be read can be read after a step. *)
LEMMA ReadableStep ==
  ASSUME IInv, Readable, [Next]_vars, IInv'
  PROVE  Readable'
<1>1. CASE UNCHANGED <<bars, confirmed>>
  BY <1>1 DEF Readable
<1>2. CASE \E b : Grows(b)
  <2>1. PICK b : Later(b) /\ bars' = Append(bars, b)
    BY <1>2 DEF Grows
  <2>2. /\ bars \in Seq(BarType) /\ Len(bars') = Len(bars) + 1 /\ Len(bars) \in Nat
        /\ bars'[Len(bars')] = b /\ \A k \in 1..Len(bars) : bars'[k] = bars[k]
    BY <2>1 DEF IInv, TypeOK
  <2>3. Cuts(confirmed', b.ts) # {}
    <3>1. /\ confirmed' \in Seq(PivotType) /\ bars' \in Seq(BarType)
          /\ i' \in Int /\ Len(bars') = i' + 1 /\ Ordered'
      BY DEF IInv, TypeOK, Counting
    <3>2. ASSUME NEW j \in 1..Len(confirmed')
          PROVE  confirmed'[j].confirmed_ts <= b.ts
      <4>1. Settled(j)'
        BY DEF IInv
      <4> DEFINE n == confirmed'[j].confirmed_idx + 1
      <4>2. n \in 1..Len(bars') /\ confirmed'[j].confirmed_ts = bars'[n].ts
        <5>1. IsLocated(j)'
          BY <4>1 DEF Settled
        <5>2. /\ confirmed'[j].confirmed_idx \in 0..i'
              /\ confirmed'[j].confirmed_ts = bars'[n].ts
          BY <5>1 DEF IsLocated, BarAt
        <5> QED BY <5>2, <3>1
      <4> HIDE DEF n
      <4>3. bars'[n].ts \in Nat /\ b.ts \in Nat
        <5>1. bars'[n] \in BarType
          <6>1. bars' \in Seq(BarType) BY <3>1
          <6>2. \A m \in 1..Len(bars') : bars'[m] \in BarType BY <6>1
          <6> QED BY <6>2, <4>2
        <5>2. b \in BarType BY <2>1 DEF Later
        <5> QED BY <5>1, <5>2 DEF BarType
      <4>4. CASE n = Len(bars') BY <4>2, <4>3, <4>4, <2>2
      <4>5. CASE n < Len(bars')
        BY <4>2, <4>3, <4>5, <2>2, <3>1 DEF Ordered
      <4> QED BY <4>2, <4>4, <4>5, <2>2
    <3>3. Len(confirmed') \in Cuts(confirmed', b.ts)
      BY <3>1, <3>2 DEF Cuts
    <3> QED BY <3>3
  <2>4. \A k \in 1..Len(bars) : Cuts(confirmed', bars[k].ts) # {}
    BY SnapshotStep
  <2>5. ASSUME NEW k \in 1..Len(bars') PROVE Cuts(confirmed', bars'[k].ts) # {}
    <3>1. CASE k = Len(bars') BY <3>1, <2>2, <2>3
    <3>2. CASE k \in 1..Len(bars) BY <3>2, <2>2, <2>4
    <3> QED BY <3>1, <3>2, <2>2
  <2> QED BY <2>5 DEF Readable
<1> QED BY <1>1, <1>2, StepShape

(* Whatever as_of answers for the time of a bar already seen, it answers the
   same after every later bar. *)
THEOREM SnapshotsNeverChange == Spec => SnapshotStable
<1>1. Init => Readable
  BY DEF Init, Readable
<1>2. IInv /\ Readable /\ [Next]_vars /\ IInv' => Readable'
  BY ReadableStep
<1>3. IInv /\ Readable /\ [Next]_vars =>
        [\A k \in 1..Len(bars) :
           AsOf(confirmed', bars[k].ts) = AsOf(confirmed, bars[k].ts)]_vars
  BY SnapshotStep
<1> QED BY <1>1, <1>2, <1>3, InvariantHolds, PTL DEF Spec, SnapshotStable

-----------------------------------------------------------------------------
(***************************************************************************)
(* The chart.  A read shows consecutive confirmed pivots, and the          *)
(* provisional one behind them only if no confirmation is still hidden.    *)
(***************************************************************************)
(* Every set of naturals has a least element. *)
LEMMA HasLeast ==
  ASSUME NEW S \in SUBSET Nat, S # {}
  PROVE  \E x \in S : \A y \in S : x <= y
<1> DEFINE R == OpToRel(<, Nat)
<1>1. IsWellFoundedOn(R, Nat) BY NatLessThanWellFounded
<1>2. \A a, b \in Nat : a < b => <<a, b>> \in R BY DEF OpToRel
<1> HIDE DEF R
<1>3. PICK x \in S : \A y \in S : ~(<<y, x>> \in R) BY <1>1, WFMin, Zenon
<1>4. \A y \in S : ~(y < x) BY <1>2, <1>3, Zenon
<1> QED BY <1>4

(* Neighbours in the history alternate and run forward in time. *)
LEMMA NeighboursAlternate ==
  ASSUME IInv, NEW k \in 2..Len(confirmed)
  PROVE  /\ confirmed[k - 1].ts < confirmed[k].ts
         /\ confirmed[k].kind = Opposite(confirmed[k - 1].kind)
<1> DEFINE p == confirmed[k - 1]
           q == confirmed[k]
<1>1. /\ k \in 1..Len(confirmed) /\ k - 1 \in 1..Len(confirmed) /\ k > 1
      /\ k - 1 \in 1..(k - 1) /\ confirmed \in Seq(PivotType)
  BY DEF IInv, TypeOK
<1>2. Settled(k) /\ Settled(k - 1) /\ p \in PivotType /\ q \in PivotType BY <1>1 DEF IInv
<1>3. /\ p.ts = bars[p.idx + 1].ts /\ q.ts = bars[q.idx + 1].ts
      /\ p.idx < p.confirmed_idx /\ q.idx < q.confirmed_idx
      /\ p.confirmed_idx <= q.idx /\ q.confirmed_idx \in 0..i
      /\ q.kind = Opposite(p.kind) /\ p.confirmed_idx \in 0..i
  BY <1>1, <1>2 DEF Settled, IsLocated, IsChained, IsFirstPassage, BarAt
<1>4. p.idx \in Nat /\ q.idx \in Nat BY <1>2 DEF PivotType
<1>5. /\ p.idx + 1 \in 1..Len(bars) /\ q.idx + 1 \in 1..Len(bars)
      /\ p.idx + 1 < q.idx + 1
  <2> HIDE DEF p, q
  <2>1. i \in Int /\ Len(bars) = i + 1 BY DEF IInv, TypeOK, Counting
  <2>2. p.idx < q.idx /\ q.idx < i /\ p.confirmed_idx \in Int BY <1>3, <1>4, <2>1
  <2> QED BY <1>4, <2>1, <2>2
<1> HIDE DEF p, q
<1>6. p.ts < q.ts BY <1>3, <1>5 DEF IInv, Ordered
<1> QED BY <1>3, <1>6 DEF p, q

(* What a reader sees of the history: consecutive pivots, up to the cut. *)
LEMMA VisibleIsConsecutive ==
  ASSUME IInv, NEW now \in Nat, Cuts(confirmed, now) # {}, NEW since \in Nat
  PROVE  \E a \in Nat \ {0}, last \in Cuts(confirmed, now) :
           /\ last \in 0..Len(confirmed)
           /\ Visible(now, since) = SubSeq(confirmed, a, last)
<1> DEFINE last == NAsOf(confirmed, now)
           known == AsOf(confirmed, now)
           late == {j \in 1..Len(known) : known[j].ts >= since}
           first == IF late = {} THEN Len(known) + 1
                    ELSE CHOOSE j \in late : \A k \in late : j <= k
           a == IF first > 1 THEN first - 1 ELSE 1
<1>1. last \in Cuts(confirmed, now) BY DEF NAsOf
<1>2. confirmed \in Seq(PivotType) /\ last \in 0..Len(confirmed)
  BY <1>1 DEF IInv, TypeOK, Cuts
<1>3. known = SubSeq(confirmed, 1, last) BY DEF AsOf
<1> HIDE DEF last
<1>4. known \in Seq(PivotType) /\ Len(known) = last /\ \A j \in 1..last : known[j] = confirmed[j]
  BY <1>2, <1>3
<1>5. first \in 1..(last + 1)
  <2>1. CASE late = {} BY <1>2, <1>4, <2>1
  <2>2. CASE late # {}
    <3>1. late \in SUBSET Nat BY <1>2, <1>4
    <3>2. \E j \in late : \A k \in late : j <= k BY <2>2, <3>1, HasLeast
    <3>3. first \in late BY <2>2, <3>2
    <3>4. first \in 1..last BY <1>4, <3>3
    <3> HIDE DEF first
    <3> QED BY <1>2, <3>4
  <2> QED BY <2>1, <2>2
<1>6. Visible(now, since) = SubSeq(known, a, Len(known)) BY DEF Visible
<1> HIDE DEF known, first
<1>7. a \in Nat \ {0} /\ a <= last + 1 BY <1>2, <1>5
<1> HIDE DEF a
<1>8. SubSeq(known, a, last) = SubSeq(confirmed, a, last)
  <2>1. \A j \in 1..(last - a + 1) : (a + j) - 1 \in 1..last BY <1>2, <1>7
  <2>2. /\ SubSeq(known, a, last) \in Seq(PivotType) /\ SubSeq(confirmed, a, last) \in Seq(PivotType)
        /\ Len(SubSeq(known, a, last)) = last - a + 1
        /\ Len(SubSeq(confirmed, a, last)) = last - a + 1
    BY <1>2, <1>4, <1>7
  <2>3. \A j \in 1..(last - a + 1) : SubSeq(known, a, last)[j] = SubSeq(confirmed, a, last)[j]
    BY <1>2, <1>4, <1>7, <2>1
  <2> QED BY <2>2, <2>3, SeqEqual
<1> QED BY <1>1, <1>2, <1>4, <1>6, <1>7, <1>8

(* A provisional pivot that is visible comes behind the whole history, on the
   other side of its last pivot: none that was confirmed is hidden. *)
LEMMA ProvisionalIsNext ==
  ASSUME IInv, NEW now \in Nat, NEW last \in Cuts(confirmed, now),
         ProvisionalAsOf(provisional, now) # NoPivot
  PROVE  /\ ProvisionalAsOf(provisional, now) = provisional
         /\ last = Len(confirmed)
         /\ confirmed # << >> =>
              provisional.kind = Opposite(confirmed[Len(confirmed)].kind)
<1>1. provisional # NoPivot /\ ~(provisional.ts > now) /\ ProvisionalAsOf(provisional, now) = provisional
  BY DEF ProvisionalAsOf
<1>2. /\ dir # "none" /\ dir \in {"up", "down"} /\ Running
      /\ provisional.ts = ext.ts /\ provisional.kind = KindOf(dir)
  BY <1>1 DEF IInv, Published, Pivot, TypeOK
<1>3. last \in 0..Len(confirmed) /\ confirmed \in Seq(PivotType) BY DEF Cuts, IInv, TypeOK
<1>4. CASE confirmed = << >> BY <1>1, <1>3, <1>4
<1>5. CASE confirmed # << >>
  <2> DEFINE n == Len(confirmed)
             c == confirmed[n]
  <2>1. n \in 1..n /\ c \in PivotType /\ Settled(n) BY <1>3, <1>5 DEF IInv
  <2>2. c.kind = Opposite(KindOf(dir)) /\ c.confirmed_idx <= ext.i BY <1>2, <1>5 DEF Running
  <2>3. provisional.kind = Opposite(c.kind) BY <1>2, <2>2 DEF Opposite, KindOf
  <2>4. c.confirmed_ts <= ext.ts
    <3>1. /\ c.confirmed_idx \in 0..i /\ c.confirmed_ts = bars[c.confirmed_idx + 1].ts
          /\ ext.i <= i /\ ext.i \in Nat /\ ext.ts = bars[ext.i + 1].ts
      BY <1>2, <2>1 DEF Settled, IsLocated, Running, BarAt, IInv, TypeOK
    <3>2. /\ c.confirmed_idx + 1 \in 1..Len(bars) /\ ext.i + 1 \in 1..Len(bars)
          /\ c.confirmed_idx + 1 <= ext.i + 1
      <4>1. i \in Int /\ Len(bars) = i + 1 BY DEF IInv, TypeOK, Counting
      <4> HIDE DEF c
      <4> QED BY <2>2, <3>1, <4>1
    <3>3. bars[ext.i + 1].ts \in Nat BY <3>2, BarTimes
    <3>4. CASE c.confirmed_idx = ext.i BY <3>1, <3>3, <3>4
    <3>5. CASE c.confirmed_idx + 1 < ext.i + 1
      <4>1. bars[c.confirmed_idx + 1].ts < bars[ext.i + 1].ts BY <3>2, <3>5 DEF IInv, Ordered
      <4>2. bars[c.confirmed_idx + 1].ts \in Nat BY <3>2, BarTimes
      <4> QED BY <3>1, <3>3, <4>1, <4>2
    <3> QED BY <3>1, <3>2, <3>4, <3>5
  <2>5. c.confirmed_ts \in Nat \cup {None} /\ ext.ts \in Nat
    BY <2>1 DEF PivotType, IInv, TypeOK
  <2>6. ~(c.confirmed_ts > now) BY <1>1, <1>2, <2>4, <2>5 DEF None
  <2>7. last = n
    <3> SUFFICES ASSUME last # n PROVE FALSE OBVIOUS
    <3>1. n \in (last + 1)..n BY <1>3, <2>1
    <3> QED BY <2>6, <3>1 DEF Cuts
  <2> QED BY <1>1, <2>3, <2>7
<1> QED BY <1>4, <1>5

(* The legs drawn for any bar and any start run forward in time and alternate
   between highs and lows (legs_as_of, waves/pivots.py). *)
THEOREM LegsAreAZigzag == Spec => []LegsAlternate
<1>1. ASSUME IInv, Readable PROVE LegsAlternate
  <2> SUFFICES ASSUME NEW m \in 1..Len(bars),
                      NEW s \in {0} \cup {bars[k].ts : k \in 1..Len(bars)},
                      NEW k \in 2..Len(LegsAsOf(bars[m].ts, s))
               PROVE  LET legs == LegsAsOf(bars[m].ts, s)
                      IN  /\ legs[k - 1].ts < legs[k].ts
                          /\ legs[k].kind = Opposite(legs[k - 1].kind)
    BY DEF LegsAlternate
  <2> DEFINE now == bars[m].ts
             solid == Visible(now, s)
             prov == ProvisionalAsOf(provisional, now)
             drawn == prov # NoPivot /\ (solid = << >> \/ prov.ts > solid[Len(solid)].ts)
             legs == LegsAsOf(now, s)
  <2>1. now \in Nat /\ s \in Nat /\ Cuts(confirmed, now) # {} BY <1>1, BarTimes DEF Readable
  <2>2. PICK a \in Nat \ {0}, last \in Cuts(confirmed, now) :
          last \in 0..Len(confirmed) /\ solid = SubSeq(confirmed, a, last)
    BY <1>1, <2>1, VisibleIsConsecutive
  <2>3. legs = IF drawn THEN Append(solid, prov) ELSE solid BY DEF LegsAsOf
  <2>4. confirmed \in Seq(PivotType) BY <1>1 DEF IInv, TypeOK
  <2> HIDE DEF now, legs
  <2>5. /\ solid \in Seq(PivotType) /\ Len(solid) \in Nat
        /\ Len(solid) = IF a <= last THEN last - a + 1 ELSE 0
        /\ \A j \in 1..Len(solid) : solid[j] = confirmed[(a + j) - 1]
    BY <2>2, <2>4
  <2> HIDE DEF solid
  <2>6. ASSUME NEW j \in 2..Len(solid)
        PROVE  /\ solid[j - 1].ts < solid[j].ts
               /\ solid[j].kind = Opposite(solid[j - 1].kind)
    <3>1. /\ (a + j) - 1 \in 2..Len(confirmed) /\ j \in 1..Len(solid) /\ j - 1 \in 1..Len(solid)
          /\ ((a + j) - 1) - 1 = (a + (j - 1)) - 1
      BY <2>2, <2>5
    <3>2. solid[j] = confirmed[(a + j) - 1] /\ solid[j - 1] = confirmed[((a + j) - 1) - 1]
      BY <2>5, <3>1
    <3> QED BY <1>1, <3>1, <3>2, NeighboursAlternate
  <2>7. CASE ~drawn BY <2>3, <2>6, <2>7 DEF legs, now
  <2>8. CASE drawn /\ k <= Len(solid)
    <3>1. legs[k] = solid[k] /\ legs[k - 1] = solid[k - 1] /\ k \in 2..Len(solid)
      BY <2>3, <2>5, <2>8
    <3> QED BY <2>6, <3>1 DEF legs, now
  <2>9. CASE drawn /\ ~(k <= Len(solid))
    <3>1. Len(legs) = Len(solid) + 1 /\ k \in 2..Len(legs) BY <2>3, <2>5, <2>9 DEF legs, now
    <3>2. /\ k = Len(solid) + 1 /\ Len(solid) \in 1..Len(solid) /\ solid # << >>
          /\ legs[k] = prov /\ legs[k - 1] = solid[Len(solid)]
      BY <2>3, <2>5, <2>9, <3>1
    <3>3. /\ prov = provisional /\ last = Len(confirmed)
          /\ confirmed # << >> => provisional.kind = Opposite(confirmed[Len(confirmed)].kind)
      BY <1>1, <2>1, <2>9, ProvisionalIsNext
    <3>4. solid[Len(solid)] = confirmed[Len(confirmed)] /\ confirmed # << >>
      BY <2>2, <2>4, <2>5, <3>2, <3>3
    <3>5. /\ prov.ts \in Nat /\ solid[Len(solid)].ts \in Nat
      <4>1. solid[Len(solid)] \in PivotType BY <2>5, <3>2
      <4>2. provisional \in PivotType BY <1>1, <2>9, <3>3 DEF IInv, TypeOK
      <4> QED BY <3>3, <4>1, <4>2 DEF PivotType
    <3>6. solid[Len(solid)].ts < prov.ts BY <2>9, <3>2, <3>5
    <3> QED BY <3>2, <3>3, <3>4, <3>6 DEF legs, now
  <2> QED BY <2>7, <2>8, <2>9
<1>2. Init => Readable BY DEF Init, Readable
<1>3. IInv /\ Readable /\ [Next]_vars /\ IInv' => Readable' BY ReadableStep
<1> QED BY <1>1, <1>2, <1>3, InvariantHolds, PTL DEF Spec

-----------------------------------------------------------------------------
(***************************************************************************)
(* Refinement: seen through Entry, the detector's history is a ledger.     *)
(***************************************************************************)
(* Every step of the detector is a step of PivotLedger or leaves it alone: the
   history only grows, alternates, and dates each entry with the bar being
   processed. *)
THEOREM DetectorImplementsLedger == Spec => ImplementsLedger
<1> DEFINE led == [k \in 1..Len(confirmed) |-> Entry(confirmed[k])]
<1>1. Init => Ledger!Init
  BY DEF Init, StoreInit, Ledger!Init
<1>2. IInv /\ [Next]_vars => [Ledger!Next]_<<i, led>>
  <2> SUFFICES ASSUME IInv, [Next]_vars PROVE Ledger!Next \/ UNCHANGED <<i, led>>
    OBVIOUS
  <2>1. CASE UNCHANGED vars BY <2>1 DEF vars
  <2>2. CASE Next
    <3>1. PICK c \in Candles, d \in Steps :
            update(Stamped(c, LastTs + d))
      BY <2>2 DEF Next
    <3> DEFINE b == Stamped(c, LastTs + d)
    <3>2. Later(b)
      BY NextBarIsLater DEF IInv
    <3> HIDE DEF b
    <3>3. CASE Warming(b) \/ Start(b) \/ Extend(b) \/ Hold(b)
      <4>1. i' = i + 1 /\ confirmed' = confirmed
        BY <3>3 DEF Warming, Start, Extend, Hold, Feed
      <4> QED BY <4>1 DEF Ledger!Next, Ledger!Tick
    <3>4. CASE ConfirmRaises(b)
      BY <3>2, <3>4, ConfirmationAccepted DEF ConfirmRaises
    <3>5. CASE Confirm(b)
      <4> DEFINE p == Confirmation(b)
      <4>1. /\ i \in Int /\ i' = i + 1 /\ confirmed \in Seq(PivotType)
            /\ ext.i \in 0..i /\ p \in PivotType
            /\ p.idx = ext.i /\ p.kind = KindOf(dir) /\ p.confirmed_idx = i + 1
            /\ confirmed' = Append(confirmed, p) /\ dir \in {"up", "down"}
        BY <3>2, <3>5, ConfirmationAccepted
           DEF Confirm, Feed, append_confirmed, Confirmation, ConfirmedAt, Pivot,
               IInv, TypeOK, Running
      <4>2. led' = Append(led, Entry(p))
        BY <4>1
      <4>3. Entry(p) = [kind |-> KindOf(dir), at |-> ext.i, known |-> i + 1]
        BY <4>1 DEF Entry
      <4>4. KindOf(dir) \in {"LOW", "HIGH"}
        BY DEF KindOf
      <4>5. led # << >> => /\ KindOf(dir) # led[Len(led)].kind
                           /\ ext.i >= led[Len(led)].known
        BY <4>1, <3>5 DEF IInv, Running, Entry, Opposite, KindOf
      <4>6. Ledger!Write(KindOf(dir), ext.i)
        BY <4>1, <4>2, <4>3, <4>5 DEF Ledger!Write
      <4> QED BY <4>1, <4>4, <4>6 DEF Ledger!Next
    <3> QED BY <3>1, <3>3, <3>4, <3>5 DEF update, Reverse, b
  <2> QED BY <2>1, <2>2
<1> QED BY <1>1, <1>2, InvariantHolds, PTL DEF Spec, ImplementsLedger, Ledger!Spec
=============================================================================
