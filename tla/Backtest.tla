------------------------------ MODULE Backtest ------------------------------
(***************************************************************************)
(* The replay that measures the decisions (backtest/run.py).  Each bar of  *)
(* the trigger timeframe goes through the engine, whose detector may       *)
(* confirm a pivot on it, and is decided on with LiveEngine.decide; what   *)
(* is viable and in its zone becomes a signal, unless one of its archetype *)
(* did lately.  At the end each signal is resolved on the bars after it,   *)
(* and so is a twin entered at random a little later.                      *)
(*                                                                         *)
(* The detector is taken at its word (PivotLedger): pivots that alternate, *)
(* confirmed once.  A script is the pivots it is going to confirm.  Bars   *)
(* are made of minutes, which the replay does not look at.                 *)
(***************************************************************************)
EXTENDS WavePlan, Barriers

CONSTANTS
    Scripts,     \* sequences of pivots
    Minutes,     \* the minutes a bar may consist of: [high, low, close] of each
    Quiet,       \* those of the bars before there is a structure
    MinutesPerBar,
    Atrs,        \* the ATR of a history
    AtrPeriod,   \* bars before there is one
    Cooldown,    \* cooldown_bars: 6
    MaxBarsHold, \* max_bars_hold: 48
    TwinReach,   \* the twin enters at most this many bars later: 20
    MaxBars      \* bound: bars of the trigger timeframe

Pivots == [kind : {"LOW", "HIGH"}, price : Nat \ {0}]
Candles == [high : Nat \ {0}, low : Nat \ {0}, close : Nat \ {0}]

(* Two pivots in a row differ in kind, and the low one is below.           *)
Alternate(p, q) ==
    \/ p.kind = "LOW" /\ q.kind = "HIGH" /\ p.price < q.price
    \/ p.kind = "HIGH" /\ q.kind = "LOW" /\ p.price > q.price

ASSUME BacktestAssumption ==
    /\ Scripts \subseteq Seq(Pivots)
    /\ \A x \in Scripts : \A j \in 1..(Len(x) - 1) : Alternate(x[j], x[j + 1])
    /\ Quiet \subseteq Minutes /\ Minutes \subseteq [1..MinutesPerBar -> Candles]
    /\ \A path \in Minutes : \A m \in DOMAIN path :
            path[m].low <= path[m].close /\ path[m].close <= path[m].high
    /\ MinutesPerBar \in Nat \ {0} /\ Cooldown \in Nat \ {0}
    /\ Atrs \subseteq Nat
    /\ {AtrPeriod, MaxBarsHold, TwinReach, MaxBars} \subseteq Nat

VARIABLES
    script, atr, \* of this history
    known,       \* pivots confirmed
    bars,        \* the bars so far, each as its minutes
    last,        \* last_idx_by_archetype; 0: never
    signals,     \* the signals: [at, h, price]
    results      \* after the end, for each signal that has one its outcome
                 \* and its twin

vars == <<script, atr, known, bars, last, signals, results>>

NoResults == << >>

Init ==
    /\ script \in Scripts /\ atr \in Atrs
    /\ known = 0 /\ bars = << >>
    /\ last = [a \in {"w2", "w4"} |-> 0]
    /\ signals = {} /\ results = NoResults

(* _close_htf. *)
Bar(path) ==
    [high |-> Max({path[m].high : m \in DOMAIN path}),
     low |-> Min({path[m].low : m \in DOMAIN path}),
     close |-> path[Len(path)].close]

(* decide: the hypotheses whose plan is viable with the price in the zone. *)
Entries(pivots, price, a) ==
    {h \in match_impulses(pivots) : Viable(h, price, a) /\ InZone(h, price)}

(* The first in rank of an archetype, if it is not too soon. *)
Taken(entries, at) ==
    {h \in entries :
        /\ last[Archetype(h)] = 0 \/ at - last[Archetype(h)] >= Cooldown
        /\ \A g \in entries : Archetype(g) = Archetype(h) => ~Better(g, h)}

(* A bar closes; the detector sees it first. *)
BarCloses ==
    /\ results = NoResults /\ Len(bars) < MaxBars
    /\ known' \in {known, known + 1} /\ known' <= Len(script)
    /\ \E path \in IF known' < 3 THEN Quiet ELSE Minutes : bars' = Append(bars, path)
    /\ LET at == Len(bars')
           price == Bar(bars'[at]).close
           taken == IF at < AtrPeriod THEN {}
                    ELSE Taken(Entries(SubSeq(script, 1, known'), price, atr), at)
       IN  /\ signals' = signals \cup {[at |-> at, h |-> h, price |-> price] : h \in taken}
           /\ last' = [a \in DOMAIN last |-> IF \E h \in taken : Archetype(h) = a THEN at ELSE last[a]]
    /\ UNCHANGED <<script, atr, results>>

-----------------------------------------------------------------------------
(***************************************************************************)
(* The resolution.                                                         *)
(***************************************************************************)
Resolved == {x \in signals : x.at < Len(bars)}

TradeOf(x) ==
    [entry |-> Fine(x.price), stop |-> Stop(x.h, x.price, atr), target |-> Target(x.h), s |-> x.h.s]

Scaled(b) == [high |-> Fine(b.high), low |-> Fine(b.low), close |-> Fine(b.close)]
After(i) == [j \in 1..(Len(bars) - i) |-> Scaled(Bar(bars[i + j]))]
Outcome(t, i) == Resolve(t, After(i), [j \in 1..(Len(bars) - i) |-> << >>], MaxBarsHold)

(* The bar the twin enters at: d bars later, or the last but one. *)
TwinBar(at, d) == Min({Len(bars) - 1, at + d})

(* The same distances from another price. *)
TwinOf(t, price) ==
    [entry |-> price, s |-> t.s, stop |-> price - t.s * Distance(t.entry, t.stop),
     target |-> price + t.s * Distance(t.target, t.entry)]

Resolution(x, d) ==
    LET t == TradeOf(x)
        j == TwinBar(x.at, d)
        twin == TwinOf(t, Fine(Bar(bars[j]).close))
    IN  [trade |-> t, at |-> x.at, outcome |-> Outcome(t, x.at),
         twin |-> twin, twinAt |-> j, twinOutcome |-> Outcome(twin, j)]

Ends ==
    /\ results = NoResults /\ Resolved # {}
    /\ \E delay \in [Resolved -> 1..TwinReach] :
        results' = [x \in Resolved |-> Resolution(x, delay[x])]
    /\ UNCHANGED <<script, atr, known, bars, last, signals>>

Next == BarCloses \/ Ends

Spec == Init /\ [][Next]_vars

-----------------------------------------------------------------------------
(* Whatever is entered stands up: the stop lies beyond the price at which  *)
(* the count is false, that price beyond the entry, and the target on the  *)
(* other side of it (projection.py: "the zone midpoint is on the correct   *)
(* side of the stop by construction").                                     *)
SignalsStandUp ==
    \A x \in signals :
        LET s == x.h.s
        IN  /\ s * Stop(x.h, x.price, atr) < s * Fine(Invalidation(x.h))
            /\ s * Fine(Invalidation(x.h)) < s * Fine(x.price)
            /\ s * Fine(x.price) < s * Target(x.h)

(* What happens minute by minute after a bar.                              *)
MinutesAfter(i) ==
    [m \in 1..(MinutesPerBar * (Len(bars) - i)) |->
        Scaled(bars[i + 1 + ((m - 1) \div MinutesPerBar)][1 + ((m - 1) % MinutesPerBar)])]

(* barriers.py: "Assuming the profit would inflate every statistic".  What *)
(* is booked on the bars is never more than what the minutes they are made *)
(* of would have given, for the signals and for their twins.               *)
BooksNeverFlatter ==
    \A x \in DOMAIN results :
        LET minute(t, i) == Resolve(t, MinutesAfter(i), [m \in 1..Len(MinutesAfter(i)) |-> << >>],
                                    MaxBarsHold * MinutesPerBar)
        IN  /\ results[x].outcome.gain <= minute(results[x].trade, results[x].at).gain
            /\ results[x].twinOutcome.gain <= minute(results[x].twin, results[x].twinAt).gain

(* tests/test_live_engine.py: `assert s.null_ts_ms > s.ts_ms'.  The twin   *)
(* enters after its signal.                                                *)
TwinsEnterLater == \A x \in DOMAIN results : results[x].twinAt > results[x].at

=============================================================================
