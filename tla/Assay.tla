------------------------------- MODULE Assay -------------------------------
(***************************************************************************)
(* A strategy under study while its history grows.  The engine, the assay  *)
(* and the browser hand a strategy the bars there are so far and keep what *)
(* it said about the earlier ones; the routes of the server                *)
(* (server/app.py, /api/validate, validate_rule and validate_csv) put it   *)
(* through the battery on demand.  The state is the strategy, its history  *)
(* and whether it beat its random filters; the one action is the arrival   *)
(* of a bar.                                                               *)
(***************************************************************************)
EXTENDS Library, Battery

CONSTANTS
    Rows(_),    \* what the first five columns of a bar may read, for each strategy
    Ticks(_),   \* hours from one bar to the next: a bar, or a hole in the data
    Early,      \* what the oldest bars of a long warm-up read
    Starts,     \* opening hours of the first bar
    MinHeld,    \* 30: bars with a position asked of the user's own strategy
    Live(_)     \* bars to look at after the warm-up

(* Bars are of numbers; an undefined reading is one too (NaN).             *)
ASSUME RowsAssumption ==
    /\ \A name \in Strategies : \A row \in Rows(name) : row \in Seq(Int) /\ Len(row) = 5
    /\ Early \in Seq(Int) /\ Len(Early) = 5
    /\ Starts \subseteq Int
    /\ \A name \in Strategies : Ticks(name) \subseteq Nat \ {0}

VARIABLES h, s, luck

vars == <<h, s, luck>>

Init ==
    /\ h \in Strategies
    /\ luck \in IF h = "file" THEN BOOLEAN ELSE {TRUE}
    /\ s = << >>

(* An indicator is undefined at the head of a history only.                *)
Arrive ==
    /\ (Len(s) + 1) * BarsPerStep <= WarmUp(h) + Live(h) * BarsPerStep
    /\ \E row \in IF (Len(s) + 3) * BarsPerStep <= WarmUp(h) THEN {Early} ELSE Rows(h),
          t \in IF s = << >> THEN Starts ELSE {s[Len(s)][6] + dt : dt \in Ticks(h)} :
          /\ row[1] = NaN => \A j \in DOMAIN s : s[j][1] = NaN
          /\ s' = Append(s, row \o <<t>>)
    /\ UNCHANGED <<h, luck>>

Next == Arrive

(* When the bars open.                                                     *)
Opens == [i \in DOMAIN s |-> s[i][6]]

(* What the server answers: nothing on less than 400 bars, nor for a       *)
(* strategy of the user's that hardly ever holds a position.               *)
Answer ==
    LET sig == Signals(h, s)
    IN  IF Shorter(s, 400) THEN "not enough data"
        ELSE IF h \notin Registry /\ Cardinality(Held(sig)) < MinHeld THEN "too few"
        ELSE Verdict([i \in DOMAIN s |-> s[i][1]], Opens, BarHours, sig, luck)

Spec == Init /\ [][Next]_vars

-----------------------------------------------------------------------------
(* A signal, once given, stands: the arrival of a bar never changes what a *)
(* strategy said about an earlier one (base.py, Hypothesis.signals:        *)
(* position i may only depend on data up to and including i), given that   *)
(* it does not change the readings of the earlier bars.  The bars          *)
(* the candle family does not answer for yet are left out: it refuses a    *)
(* history of less than 320 bars, and answers for them later.              *)
Answered(i) == h \in CandleNames => i * BarsPerStep >= MinBars
SettledSignalsStand ==
    [][\A i \in DOMAIN s : Answered(i) => Signals(h, s')[i] = Signals(h, s)[i]]_s

(* align_to_bars: "a position PERSISTS until the user changes it".  So it  *)
(* does on every bar, as long as no row of the file has fallen where there *)
(* is no bar since the last one that hit one.                              *)
PositionsPersist ==
    h = "file" => \A i \in DOMAIN s :
        LET hit == LastWhere(LAMBDA j : Defined(s[j][2]), i)
        IN  (\A j \in (hit + 1)..i : ~Defined(s[j][3])) => AlignToBars(s)[i] = Intended(s, i)

(* effective_n counts a largest set of observations of which no two share  *)
(* a window, although it scans greedily and only once, and whatever holes  *)
(* there are between the bars.                                             *)
EpisodesAreMaximal ==
    h = "file" =>
        LET held == Held(AlignToBars(s))
            window == MeanDuration(AlignToBars(s)) * BarHours
            apart == {T \in SUBSET held : \A i, j \in T : i < j => s[j][6] - s[i][6] >= window}
        IN  EffectiveN(Opens, held, window) = Max({Cardinality(T) : T \in apart})

(* The bars on which a position is entered, turned round included.         *)
Bets(w) == Flips(w) \cap Held(w)

(* battery.py:239, "those 40 bars are ONE bet, not forty": how long a      *)
(* position lasts is measured, exits counted as entries are and halves     *)
(* rounded, and the episodes counted with it are, on bars without a hole,  *)
(* never more than three for each bet.                                     *)
EpisodesPerBet ==
    h = "file" /\ (\A i \in 2..Len(s) : s[i][6] = s[i - 1][6] + BarHours) =>
        LET w == AlignToBars(s)
        IN  Episodes(Opens, BarHours, w) <= 3 * Cardinality(Bets(w))

(* battery.py: "A real effect gives up a little; an information leak       *)
(* COLLAPSES" when it is executed a bar late.                              *)
LeaksCollapse ==
    h = "file" /\ Answer = "lookahead" =>
        LET r == Returns([i \in DOMAIN s |-> s[i][1]])
            w == [i \in DOMAIN r |-> AlignToBars(s)[i]]
        IN  Yield(r, Delayed(w), DOMAIN r) < Yield(r, w, DOMAIN r)

=============================================================================
