----------------------------- MODULE HypSeries -----------------------------
(***************************************************************************)
(* The contract of a hypothesis (hypotheses/base.py) and the array helpers *)
(* its eight families share.  A series is a sequence of bars; a bar is a   *)
(* tuple of readings: the prices, the TA-Lib indicators one hypothesis     *)
(* looks at, and the columns it derives from them in Python (rolling       *)
(* means, running products, stops), in the order its definition names      *)
(* them.  A reading is a free small integer, placed relative to the        *)
(* threshold it is compared with, NaN during the indicator's warm-up, and  *)
(* it never changes afterwards: that the columns do not look ahead is      *)
(* assumed of TA-Lib and of that Python.  What is modelled is what a rule  *)
(* does with them.  A volume or a range is counted from Least, which       *)
(* stands for zero.  The last column of a bar is its opening time in hours *)
(* since the epoch.  A hypothesis maps a series to one signal per bar, +1  *)
(* long, -1 short, 0 flat.                                                 *)
(*                                                                         *)
(* Lengths are written with the code's numbers.  One bar of the model      *)
(* stands for BarsPerStep bars of the program (1 is the program itself),   *)
(* and FractalK for the half-width of a fractal.                           *)
(***************************************************************************)
EXTENDS Integers, Sequences, FiniteSetsExt

CONSTANTS BarsPerStep, FractalK

ASSUME LengthsAssumption ==
    /\ BarsPerStep \in Nat \ {0}
    /\ FractalK \in Nat \ {0}

NaN == 99
Least == -3

(* Comparisons as numpy makes them: false when a side is NaN.              *)
Gt(x, y) == x # NaN /\ y # NaN /\ x > y
Lt(x, y) == Gt(y, x)
Ge(x, y) == x # NaN /\ y # NaN /\ x >= y
Le(x, y) == Ge(y, x)
Defined(x) == x # NaN

(* A rule and its mirror image share a definition: v = 1 looks up, and     *)
(* v = -1 down.                                                            *)
Beyond(v, x, y) == IF v = 1 THEN Gt(x, y) ELSE Lt(x, y)
Within(v, x, y) == IF v = 1 THEN Le(x, y) ELSE Ge(x, y)
Positive(x) == Gt(x, Least)

(* The guard of the families that refuse a short history.                  *)
Shorter(s, bars) == Len(s) * BarsPerStep < bars

Flat(s) == [i \in DOMAIN s |-> 0]
IfLong(s, bars, sig) == [i \in DOMAIN s |-> IF Shorter(s, bars) THEN 0 ELSE sig[i]]

(* A number of bars of the program in bars of the model.                   *)
Span(bars) == IF bars <= 2 THEN bars ELSE 2 + bars \div BarsPerStep

(* _lag, _back, _prev, _shift: the reading of column c, k bars ago.        *)
Lag(s, c, k, i) == IF i > Span(k) THEN s[i - Span(k)][c] ELSE NaN

(* Hypothesis.signals: whatever fn computed, the warm-up stays flat.       *)
Warm(bars, sig) == [i \in DOMAIN sig |-> IF i * BarsPerStep <= bars THEN 0 ELSE sig[i]]

(* Two masked assignments to a zeroed array; the second one wins.          *)
Mark(s, v, First(_), Second(_)) ==
    [i \in DOMAIN s |-> IF Second(i) THEN -v ELSE IF First(i) THEN v ELSE 0]

(* The commonest forms: column 1 against column 2, or against zero, where  *)
(* Gate holds.  v = 1 sides with the move, v = -1 fades it.                *)
Always(i) == TRUE
Versus(s, v, Gate(_)) ==
    Mark(s, v, LAMBDA i : Gate(i) /\ Gt(s[i][1], s[i][2]),
               LAMBDA i : Gate(i) /\ Lt(s[i][1], s[i][2]))
Sign(s, v, Gate(_)) ==
    Mark(s, v, LAMBDA i : Gate(i) /\ Gt(s[i][1], 0),
               LAMBDA i : Gate(i) /\ Lt(s[i][1], 0))

(* Column 1 against an upper (column 2) and a lower (column 3) line:       *)
(* below the lower is bought, above the upper is sold.                     *)
Outside(s, Gate(_)) ==
    Mark(s, 1, LAMBDA i : Gate(i) /\ Lt(s[i][1], s[i][3]),
               LAMBDA i : Gate(i) /\ Gt(s[i][1], s[i][2]))

(* An oscillator, column 1, against its low (-1) and high (1) thresholds.  *)
Extremes(s) == Mark(s, 1, LAMBDA i : Lt(s[i][1], -1), LAMBDA i : Gt(s[i][1], 1))

(* Where column k of bar i stands in the window of the last bars readings: *)
(* how many of them are below it, NaN while the window is not whole.       *)
Rank(s, k, bars, i) ==
    LET window == (i - Span(bars) + 1)..i
    IN  IF i < Span(bars) \/ \E j \in window : ~Defined(s[j][k]) THEN NaN
        ELSE Cardinality({j \in window : s[j][k] < s[i][k]})

(* The last bar up to i where P held, 0 if there is none (a prefix         *)
(* operation: np.maximum.accumulate over indices).                         *)
LastWhere(P(_), i) == Max({0} \cup {j \in 1..i : P(j)})

(* The last event, for bars candles and then flat.                         *)
HoldFor(ev, bars) ==
    [i \in DOMAIN ev |->
        LET last == LastWhere(LAMBDA j : ev[j] # 0, i)
        IN  IF last = 0 \/ i - last >= Span(bars) THEN 0 ELSE ev[last]]

(* The last event, until the opposite one.                                 *)
HoldOn(ev) ==
    [i \in DOMAIN ev |->
        LET last == LastWhere(LAMBDA j : ev[j] # 0, i) IN IF last = 0 THEN 0 ELSE ev[last]]

(* The position carried by a forward loop: Exit closes it, then an entry   *)
(* that bar replaces it.                                                   *)
HoldUntil(ev, Exit(_, _)) ==
    LET pos[i \in 0..Len(ev)] ==
            IF i = 0 THEN 0
            ELSE IF ev[i] # 0 THEN ev[i]
            ELSE IF Exit(pos[i - 1], i) THEN 0 ELSE pos[i - 1]
    IN  [i \in DOMAIN ev |-> pos[i]]

(* Events of two conditions; both at once say nothing.                     *)
Events(s, Up(_), Dn(_)) ==
    [i \in DOMAIN s |-> IF Up(i) /\ ~Dn(i) THEN 1 ELSE IF Dn(i) /\ ~Up(i) THEN -1 ELSE 0]

=============================================================================
