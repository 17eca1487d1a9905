------------------------------- MODULE ZigZag -------------------------------
(***************************************************************************)
(* The incremental pivot detector of waves/pivots.py.  It is fed closed    *)
(* bars one at a time.  Nothing is detected until the ATR is ready; from   *)
(* then on it carries one running extreme, whose reversal threshold is     *)
(* latched on the bar that set it, and confirms that extreme as a pivot on *)
(* the first bar that retraces by at least the latched threshold.          *)
(*                                                                         *)
(* Prices are integers (ticks).  The volatility threshold that _thr would  *)
(* compute on a bar, max(k_atr * ATR, min_pct * close), is an input of the *)
(* bar: any positive value.  It is positive in the code because min_pct    *)
(* and close are.  Only WHICH bar's threshold is used matters here.        *)
(***************************************************************************)
EXTENDS PivotStore

CONSTANTS AtrPeriod, \* ZigZagConfig.atr_period
          OnClose,   \* ZigZagConfig.on_close
          Candles,   \* the bars the source may deliver: high, low, close, thr
          Steps,     \* distances between the open times of successive bars
          MaxBars    \* bound: bars fed

ASSUME ZigZagAssumption ==
  /\ AtrPeriod \in Nat \ {0}
  /\ OnClose \in BOOLEAN
  /\ Candles \subseteq [high : Int, low : Int, close : Int, thr : Nat \ {0}]
  /\ \A c \in Candles : c.low <= c.close /\ c.close <= c.high
  /\ Steps \subseteq Nat \ {0}
  /\ MaxBars \in Nat

VARIABLES i,      \* ZigZag._i, index of the last bar fed; -1 before the first
          atrN,   \* WilderATR._n, true ranges accumulated; ready at AtrPeriod
          dir,    \* ZigZag._up: "none" (None), "up" (True) or "down" (False)
          ext,    \* the running extreme: _ext_i, _ext_ts, _ext_px, _ext_thr
          raised, \* a ValueError has escaped update
          bars,   \* history: every bar fed, bar j at position j + 1
          shown   \* history: the provisional pivot published with each bar

vars == <<confirmed, provisional, i, atrN, dir, ext, raised, bars, shown>>

BarType == [high : Int, low : Int, close : Int, thr : Nat \ {0}, ts : Nat]

(***************************************************************************)
(* Reading a bar in the direction of a pivot kind.  A HIGH leads with the  *)
(* top of the bar and is retraced by its bottom; a LOW the other way.      *)
(***************************************************************************)
UpPx(b) == IF OnClose THEN b.close ELSE b.high

DownPx(b) == IF OnClose THEN b.close ELSE b.low

LeadPx(kind, b) == IF kind = "HIGH" THEN UpPx(b) ELSE DownPx(b)

Beyond(kind, px, ref) == IF kind = "HIGH" THEN px > ref ELSE px < ref

(* How far bar b has come back from an extreme at px. *)
Retrace(kind, px, b) ==
  IF kind = "HIGH" THEN px - DownPx(b) ELSE UpPx(b) - px

KindOf(d) == IF d = "up" THEN "HIGH" ELSE "LOW"

BarAt(j) == bars[j + 1]

LastTs == IF bars = << >> THEN 0 ELSE bars[Len(bars)].ts

(***************************************************************************)
(* The operation: update(ts, high, low, close).                            *)
(***************************************************************************)
Init ==
  /\ StoreInit
  /\ i = -1 /\ atrN = 0 /\ dir = "none" /\ raised = FALSE
  /\ ext = [i |-> 0, ts |-> 0, px |-> 0, thr |-> 0]
  /\ bars = << >> /\ shown = << >>

(* Mutant: the accumulation is not closed by the first ATR. *)
NextAtrNRunsOn == IF i = -1 THEN atrN ELSE atrN + 1

(* WilderATR.update.  The first bar only sets prev_close, which is set
   exactly when some bar has been fed. *)
NextAtrN == IF i = -1 \/ atrN = AtrPeriod THEN atrN ELSE atrN + 1

Feed(b) ==
  /\ ~raised
  /\ i' = i + 1
  /\ atrN' = NextAtrN
  /\ bars' = Append(bars, b)

SetExtreme(b, px) == ext' = [i |-> i', ts |-> b.ts, px |-> px, thr |-> b.thr]

PublishProvisional ==
  LET p == Pivot(ext'.i, ext'.ts, ext'.px, KindOf(dir'), ext'.thr)
  IN  set_provisional(p) /\ shown' = Append(shown, p)

(* The ATR is not ready: nothing is detected. *)
Warming(b) ==
  /\ Feed(b)
  /\ NextAtrN < AtrPeriod
  /\ shown' = Append(shown, NoPivot)
  /\ UNCHANGED <<confirmed, provisional, dir, ext, raised>>

(* First bar with an ATR: the search starts upwards, from its top. *)
Start(b) ==
  /\ Feed(b)
  /\ NextAtrN = AtrPeriod /\ dir = "none"
  /\ dir' = "up"
  /\ SetExtreme(b, UpPx(b))
  /\ PublishProvisional
  /\ UNCHANGED <<confirmed, raised>>

(* Mutant: the reversal is tested before the new extreme. *)
ExtendsUnlessReversed(b) ==
  /\ Beyond(KindOf(dir), LeadPx(KindOf(dir), b), ext.px)
  /\ Retrace(KindOf(dir), ext.px, b) < ext.thr

Extends(b) == Beyond(KindOf(dir), LeadPx(KindOf(dir), b), ext.px)

Reverses(b) == ~Extends(b) /\ Retrace(KindOf(dir), ext.px, b) >= ext.thr

(* A new extreme: the pivot to be moves along and its threshold is latched
   again, on this bar. *)
Extend(b) ==
  /\ Feed(b)
  /\ dir # "none" /\ Extends(b)
  /\ SetExtreme(b, LeadPx(KindOf(dir), b))
  /\ UNCHANGED dir
  /\ PublishProvisional
  /\ UNCHANGED <<confirmed, raised>>

(* Mutant: the threshold follows today's volatility instead of staying latched. *)
HoldRelatches(b) ==
  /\ Feed(b)
  /\ dir # "none" /\ ~Extends(b) /\ ~Reverses(b)
  /\ ext' = [ext EXCEPT !.thr = b.thr]
  /\ UNCHANGED dir
  /\ PublishProvisional
  /\ UNCHANGED <<confirmed, raised>>

(* Neither a new extreme nor a reversal. *)
Hold(b) ==
  /\ Feed(b)
  /\ dir # "none" /\ ~Extends(b) /\ ~Reverses(b)
  /\ UNCHANGED <<dir, ext>>
  /\ PublishProvisional
  /\ UNCHANGED <<confirmed, raised>>

(* The pivot that bar b confirms. *)
Confirmation(b) ==
  ConfirmedAt(Pivot(ext.i, ext.ts, ext.px, KindOf(dir), ext.thr), i + 1, b.ts)

(* Mutant: the search is not restarted from this bar. *)
ConfirmKeepsExtreme(b) ==
  /\ Feed(b)
  /\ dir # "none" /\ Reverses(b)
  /\ ~AppendRefused(Confirmation(b))
  /\ append_confirmed(Confirmation(b))
  /\ dir' = IF dir = "up" THEN "down" ELSE "up"
  /\ UNCHANGED ext
  /\ PublishProvisional
  /\ UNCHANGED raised

(* Mutant: the direction does not turn. *)
ConfirmKeepsDirection(b) ==
  /\ Feed(b)
  /\ dir # "none" /\ Reverses(b)
  /\ ~AppendRefused(Confirmation(b))
  /\ append_confirmed(Confirmation(b))
  /\ UNCHANGED dir
  /\ SetExtreme(b, LeadPx(Opposite(KindOf(dir)), b))
  /\ PublishProvisional
  /\ UNCHANGED raised

(* The extreme becomes a confirmed pivot, the direction turns and the search
   restarts from the other side of this bar. *)
Confirm(b) ==
  /\ Feed(b)
  /\ dir # "none" /\ Reverses(b)
  /\ ~AppendRefused(Confirmation(b))
  /\ append_confirmed(Confirmation(b))
  /\ dir' = IF dir = "up" THEN "down" ELSE "up"
  /\ SetExtreme(b, LeadPx(Opposite(KindOf(dir)), b))
  /\ PublishProvisional
  /\ UNCHANGED raised

(* The store refuses the confirmation: the exception leaves update half way. *)
ConfirmRaises(b) ==
  /\ Feed(b)
  /\ dir # "none" /\ Reverses(b)
  /\ AppendRefused(Confirmation(b))
  /\ raised' = TRUE
  /\ UNCHANGED <<confirmed, provisional, dir, ext, shown>>

Reverse(b) ==
  IF AppendRefused(Confirmation(b)) THEN ConfirmRaises(b) ELSE Confirm(b)

Stamped(c, ts) ==
  [high |-> c.high, low |-> c.low, close |-> c.close, thr |-> c.thr, ts |-> ts]

update(b) == Warming(b) \/ Start(b) \/ Extend(b) \/ Hold(b) \/ Reverse(b)

(* Bars arrive in time order: the live engine drops the others. *)
Next ==
  /\ Len(bars) < MaxBars
  /\ \E c \in Candles, d \in Steps : update(Stamped(c, LastTs + d))

Spec == Init /\ [][Next]_vars

(***************************************************************************)
(* The read: legs_as_of(now, since).  Confirmed legs from one before the   *)
(* first visible one, then the provisional leg when it lies after them.    *)
(***************************************************************************)
Visible(now, since) ==
  LET known == AsOf(confirmed, now)
      late  == {j \in 1..Len(known) : known[j].ts >= since}
      first == IF late = {} THEN Len(known) + 1
               ELSE CHOOSE j \in late : \A k \in late : j <= k
  IN  SubSeq(known, IF first > 1 THEN first - 1 ELSE 1, Len(known))

LegsAsOf(now, since) ==
  LET solid == Visible(now, since)
      prov  == ProvisionalAsOf(provisional, now)
      drawn == prov # NoPivot /\ (solid = << >> \/ prov.ts > solid[Len(solid)].ts)
  IN  IF drawn THEN Append(solid, prov) ELSE solid

-----------------------------------------------------------------------------
(***************************************************************************)
(* Properties.                                                             *)
(***************************************************************************)
(* Types of the detector, of its store and of the two histories. *)
TypeOK ==
  /\ confirmed \in Seq(PivotType)
  /\ provisional \in PivotType \cup {NoPivot}
  /\ i \in Nat \cup {-1}
  /\ atrN \in 0..AtrPeriod
  /\ dir \in {"none", "up", "down"}
  /\ ext \in [i : Nat, ts : Nat, px : Int, thr : Nat]
  /\ raised \in BOOLEAN
  /\ bars \in Seq(BarType)
  /\ shown \in Seq(PivotType \cup {NoPivot})

(* Confirmation is a first passage with a latched threshold (module header of
   waves/pivots.py): a pivot confirmed at c was at least the threshold OF ITS
   OWN BAR away at c, and at no earlier bar after the extreme. *)
IsFirstPassage(p) ==
  /\ p.idx < p.confirmed_idx /\ p.confirmed_idx <= i
  /\ p.thr = BarAt(p.idx).thr
  /\ Retrace(p.kind, p.price, BarAt(p.confirmed_idx)) >= p.thr
  /\ \A j \in (p.idx + 1)..(p.confirmed_idx - 1) :
       Retrace(p.kind, p.price, BarAt(j)) < p.thr

FirstPassage == \A k \in 1..Len(confirmed) : IsFirstPassage(confirmed[k])

(* Where the search for the pivot at position k began. *)
LegStart(k) == IF k = 1 THEN AtrPeriod ELSE confirmed[k - 1].idx + 1

(* No bar between the previous pivot and the confirmation went beyond the
   pivot: a pivot is the extreme of its WHOLE leg, although the code looks at
   one side of one bar at a time and never looks back. *)
IsLegExtreme(k) ==
  /\ confirmed[k].price = LeadPx(confirmed[k].kind, BarAt(confirmed[k].idx))
  /\ \A j \in LegStart(k)..confirmed[k].confirmed_idx :
       ~Beyond(confirmed[k].kind, LeadPx(confirmed[k].kind, BarAt(j)),
               confirmed[k].price)

TrueExtreme == \A k \in 1..Len(confirmed) : IsLegExtreme(k)

(* append_confirmed and confirmed_at raise on a history that would go out of
   order; the detector never provokes it. *)
StoreNeverRaises == ~raised

(* The "as it stood at bar t" snapshot is free: what as_of answers for the
   time of any bar already seen never changes again. *)
SnapshotStable ==
  [][\A k \in 1..Len(bars) :
       AsOf(confirmed', bars[k].ts) = AsOf(confirmed, bars[k].ts)]_vars

(* The provisional pivot read for a past instant is either hidden or exactly
   what was published at that instant: the dashed leg has no hindsight. *)
ProvisionalNoHindsight ==
  \A k \in 1..Len(shown) :
    ProvisionalAsOf(provisional, bars[k].ts) \in {NoPivot, shown[k]}

(* The chart is a zigzag: at every instant, and wherever the visible range
   starts, legs run forward in time and alternate between highs and lows. *)
LegsAlternate ==
  \A n \in 1..Len(bars), s \in {0} \cup {bars[k].ts : k \in 1..Len(bars)} :
    LET legs == LegsAsOf(bars[n].ts, s)
    IN  \A k \in 2..Len(legs) : /\ legs[k - 1].ts < legs[k].ts
                                /\ legs[k].kind = Opposite(legs[k - 1].kind)

(* The abstract ledger of turning points that the detector implements. *)
Entry(p) == [kind |-> p.kind, at |-> p.idx, known |-> p.confirmed_idx]

Ledger == INSTANCE PivotLedger WITH
            clock <- i,
            ledger <- [k \in 1..Len(confirmed) |-> Entry(confirmed[k])]

(* waves/store.py: "confirmed pivots never change, so the history can only
   GROW", in alternation and in positional order, each entry dated with the
   bar on which it became known. *)
ImplementsLedger == Ledger!Spec
=============================================================================
