--------------------------- MODULE HypSeasonality ---------------------------
(***************************************************************************)
(* hypotheses/seasonality.py: eleven rules about the clock and the         *)
(* calendar.  A position decided on a bar is held during the next one, so  *)
(* the hour that counts is the bar's opening hour (column 6) plus its      *)
(* length.  Every arithmetic is on hours since the epoch, as the code's is *)
(* on milliseconds; the civil calendar is numpy's.                         *)
(***************************************************************************)
EXTENDS HypSeries

CONSTANT BarHours        \* _TF_MS: the length of a bar, in hours

ASSUME BarHoursAssumption == BarHours \in Nat \ {0}

HoldTs(s, i) == s[i][6] + BarHours
Hour(t) == t % 24
Date(t) == t \div 24
Weekday(t) == (Date(t) + 3) % 7                  \* 0 is Monday: day 0 was a Thursday

(* The Gregorian calendar: the first day of a month counted from January   *)
(* 1970, and the month a day is in.                                        *)
FirstDay(m) ==
    LET y == 1970 + m \div 12
        past == y - 1
        leap == (y % 4 = 0 /\ y % 100 # 0) \/ y % 400 = 0
        cum == <<0, 31, 59, 90, 120, 151, 181, 212, 243, 273, 304, 334>>
    IN  365 * (y - 1970) + past \div 4 - past \div 100 + past \div 400 - 477
        + cum[(m % 12) + 1] + (IF leap /\ (m % 12) > 1 THEN 1 ELSE 0)
Month(day) == CHOOSE m \in (day \div 31)..(day \div 28) : FirstDay(m) <= day /\ day < FirstDay(m + 1)

LastFriday(m) == LET last == FirstDay(m + 1) - 1 IN last - ((((last + 3) % 7) - 4) % 7)

(* Where P holds on the bar that will be held, the side v.                 *)
While(s, v, P(_)) == Warm(200, Mark(s, v, LAMBDA i : P(HoldTs(s, i)), LAMBDA i : FALSE))

UsCashHours(s) == While(s, 1, LAMBDA t : Hour(t) \in 13..20)
AsiaHours(s) == While(s, -1, LAMBDA t : Hour(t) \in 0..7)
Weekend(s) == While(s, -1, LAMBDA t : Weekday(t) >= 5)
FridayEvening(s) == While(s, -1, LAMBDA t : Weekday(t) = 4 /\ Hour(t) >= 18)

(* close, open: the day's direction so far, in the London-New York overlap *)
OverlapContinuation(s) ==
    LET day(i) == Date(s[i][6])
        first(i) == LastWhere(LAMBDA j : j = 1 \/ day(j) # day(j - 1), i)
        inWindow(i) == Hour(HoldTs(s, i)) \in 13..16
    IN  Warm(200, Mark(s, 1, LAMBDA i : inWindow(i) /\ Gt(s[i][1], s[first(i)][2]),
                             LAMBDA i : inWindow(i) /\ Lt(s[i][1], s[first(i)][2])))

(* close, ATR: towards the close of the last Friday's 21:00 candle, if it  *)
(* is at most 96 bars old                                                  *)
CmeGap(s) ==
    LET ref(i) == LastWhere(LAMBDA j : Weekday(s[j][6]) = 4 /\ Hour(s[j][6]) = 21, i)
        inWindow(t) == (Weekday(t) = 6 /\ Hour(t) >= 22) \/ (Weekday(t) = 0 /\ Hour(t) <= 11)
        ok(i) == /\ inWindow(HoldTs(s, i)) /\ ref(i) > 0 /\ i - ref(i) <= Span(96)
                 /\ Defined(s[i][1]) /\ Defined(s[ref(i)][1]) /\ Defined(s[i][2])
        gap(i) == s[i][1] - s[ref(i)][1]
    IN  Warm(200, Mark(s, -1, LAMBDA i : ok(i) /\ gap(i) > 0 /\ gap(i) > s[i][2],
                              LAMBDA i : ok(i) /\ gap(i) < 0 /\ -gap(i) > s[i][2]))

(* ROC 8: faded in the hour before a funding stamp *)
PreFunding(s) == Warm(200, Sign(s, -1, LAMBDA i : Hour(HoldTs(s, i)) \in {7, 15, 23}))

TurnOfMonth(s) ==
    While(s, 1, LAMBDA t : LET m == Month(Date(t)) IN \/ Date(t) - FirstDay(m) < 3
                                                      \/ Date(t) = FirstDay(m + 1) - 1)
PreQuarterlyExpiry(s) ==
    While(s, -1, LAMBDA t : LET m == Month(Date(t)) IN /\ (m % 12) \in {2, 5, 8, 11}
                                                       /\ LastFriday(m) - Date(t) \in 1..7)
(* The expiry in force is this month's, or until it has happened the last. *)
PostMonthlyExpiry(s) ==
    While(s, 1, LAMBDA t : LET m == Month(Date(t))
                               expiry == IF Date(t) >= LastFriday(m) THEN LastFriday(m)
                                         ELSE LastFriday(m - 1)
                           IN  Date(t) - expiry \in 1..3)

(* Days since the last halving that is not later than the bar held; the    *)
(* dates are in whole hours, rounded up.                                   *)
Halvings == {15672 * 24 + 16, 16991 * 24 + 17, 18393 * 24 + 20, 19833 * 24 + 1}
HalvingPhase(s) ==
    LET past(i) == {t \in Halvings : t <= HoldTs(s, i)}
        days(i) == (HoldTs(s, i) - Max(past(i))) \div 24
    IN  Warm(200, Mark(s, 1, LAMBDA i : past(i) # {} /\ days(i) \in 180..540,
                             LAMBDA i : past(i) # {} /\ days(i) \in 541..900))

SeasonalityNames == {"us_cash_hours_long", "asia_hours_short", "overlap_day_trend",
                     "weekend_short", "friday_derisk_short", "cme_gap_monday",
                     "pre_funding_fade", "turn_of_month_long", "pre_quarterly_expiry_short",
                     "post_monthly_expiry_long", "halving_cycle_phase"}

SeasonalitySignals(h, s) ==
    CASE h = "us_cash_hours_long" -> UsCashHours(s)
      [] h = "asia_hours_short" -> AsiaHours(s)
      [] h = "overlap_day_trend" -> OverlapContinuation(s)
      [] h = "weekend_short" -> Weekend(s)
      [] h = "friday_derisk_short" -> FridayEvening(s)
      [] h = "cme_gap_monday" -> CmeGap(s)
      [] h = "pre_funding_fade" -> PreFunding(s)
      [] h = "turn_of_month_long" -> TurnOfMonth(s)
      [] h = "pre_quarterly_expiry_short" -> PreQuarterlyExpiry(s)
      [] h = "post_monthly_expiry_long" -> PostMonthlyExpiry(s)
      [] h = "halving_cycle_phase" -> HalvingPhase(s)

=============================================================================
