----------------------------- MODULE LiveEngine -----------------------------
(***************************************************************************)
(* engine/live.py: the 1m bars, the bars of every higher timeframe built   *)
(* from them, and the mode shown to the user.                              *)
(*                                                                         *)
(* Time is counted in minutes; `now' is the wall clock.  The warm-up feeds *)
(* history to the same on_bar_1m, before the feed and the health task of   *)
(* the server start; afterwards run_feed looks at the clock before every   *)
(* bar it hands over (server/app.py:186-188).                              *)
(***************************************************************************)
EXTENDS Ring, Timeframes, FiniteSetsExt, SequencesExt

CONSTANTS Tfs,     \* the higher timeframes, by their length in minutes
          Trigger, \* the trigger timeframe
          Margin,  \* extra bars _close_htf looks back: 5
          MaxNow   \* bound: the wall clock

ASSUME TfsAssumption ==
  /\ IsFiniteSet(Tfs) /\ Tfs \subseteq Nat \ {0, 1}
  /\ Trigger \in Tfs
  /\ \A tf \in Tfs : tf <= Capacity
  /\ Margin \in Nat /\ MaxNow \in Nat

VARIABLES now,         \* time.time()
          lastWall,    \* _last_wall
          warming,     \* the warm-up has not finished
          mode,        \* health.mode
          rings,       \* state.rings; the 1m ring is rings[1]
          provisional, \* the minute of the bar in flight, in state and ring
          tape,        \* history: the minutes taken, never forgotten
          fed          \* history: the bars each detector was given

vars == <<now, lastWall, warming, mode, rings, provisional, tape, fed>>

data == <<rings, provisional, tape, fed>>

LastClosed == LastTs(rings[1])

Lag == now - LastClosed

-----------------------------------------------------------------------------
(***************************************************************************)
(* on_bar_1m.                                                              *)
(***************************************************************************)
(* Mutant: the minutes before `open' too. *)
SourcesUnbounded(r1, open, tf) ==
  {b.ts : b \in ToSet(Window(r1, tf + Margin, 1))}

(* The minutes of the period that are in the tail of the 1m ring. *)
Sources(r1, open, tf) ==
  {b.ts : b \in ToSet(Window(r1, tf + Margin, 1))} \cap Period(open, tf)

(* _close_htf. *)
CloseHtf(r1, open, tf) ==
  LET src == Sources(r1, open, tf) IN Bar(open, src, Thin(src, tf))

(* Minute m, the last one of r1, ends a bar of tf that ring r does not have. *)
Closes(r1, r, m, tf) ==
  /\ (m + 1) % tf = 0
  /\ Sources(r1, m + 1 - tf, tf) # {}
  /\ m + 1 - tf > LastTs(r)

(* "Duplicate from gap healing." *)
Duplicate(m) == m <= LastClosed

TakeMinute(m) ==
  LET r1 == Appended(rings[1], Bar(m, {m}, FALSE), 1)
      Closing == {tf \in Tfs : Closes(r1, rings[tf], m, tf)}
  IN  /\ rings' = [tf \in DOMAIN rings |->
                     IF tf = 1 THEN r1
                     ELSE IF tf \in Closing
                     THEN Appended(rings[tf], CloseHtf(r1, m + 1 - tf, tf), tf)
                     ELSE rings[tf]]
      /\ fed' = [tf \in Tfs |->
                   IF tf \in Closing THEN Append(fed[tf], CloseHtf(r1, m + 1 - tf, tf))
                   ELSE fed[tf]]
      /\ provisional' = None
      /\ tape' = tape \cup {m}

OnClosed(m) == IF Duplicate(m) THEN UNCHANGED data ELSE TakeMinute(m)

(***************************************************************************)
(* The clock and the mode.                                                 *)
(***************************************************************************)
(* check_clock, on every bar that run_feed receives. *)
CheckClock ==
  /\ lastWall' = now
  /\ mode' = IF mode # "WARMUP" /\ now - lastWall > 2 * Trigger
             THEN "CATCH_UP" ELSE mode

CaughtUp == tape # {} /\ Lag <= Trigger

(* Mutant: the branch for WARMUP is missing. *)
UpdateHealthOnce ==
  /\ ~warming
  /\ mode' = IF mode = "CATCH_UP" /\ CaughtUp THEN "LIVE" ELSE mode
  /\ UNCHANGED <<now, lastWall, warming, data>>

(* update_health, every five seconds. *)
UpdateHealth ==
  /\ ~warming
  /\ mode' = IF mode = "LIVE" \/ tape = {} THEN mode
             ELSE IF CaughtUp THEN "LIVE"
             ELSE "CATCH_UP"
  /\ UNCHANGED <<now, lastWall, warming, data>>

-----------------------------------------------------------------------------
(***************************************************************************)
(* The operations.                                                         *)
(***************************************************************************)
Init ==
  /\ now = 0 /\ lastWall = 0
  /\ warming = TRUE /\ mode = "WARMUP"
  /\ rings = [tf \in Tfs \cup {1} |-> EmptyRing]
  /\ fed = [tf \in Tfs |-> << >>]
  /\ provisional = None /\ tape = {}

Pass == now < MaxNow /\ now' = now + 1 /\ UNCHANGED <<lastWall, warming, mode, data>>

(* warmup(): a minute of history. *)
Replay(m) ==
  /\ warming
  /\ OnClosed(m)
  /\ UNCHANGED <<now, lastWall, warming, mode>>

WarmupEnds ==
  /\ warming
  /\ warming' = FALSE
  /\ UNCHANGED <<now, lastWall, mode, data>>

(* A closed minute from the feed: the next one, a later one after a hole nobody
   could fill, or an old one once more. *)
Receive(m) ==
  /\ ~warming
  /\ CheckClock
  /\ OnClosed(m)
  /\ UNCHANGED <<now, warming>>

(* The minute in flight. *)
ReceiveForming ==
  /\ ~warming
  /\ CheckClock
  /\ provisional' = now
  /\ UNCHANGED <<now, warming, rings, tape, fed>>

Next ==
  \/ Pass
  \/ \E m \in 0..now : Replay(m) \/ Receive(m)
  \/ WarmupEnds \/ ReceiveForming \/ UpdateHealth

(* run_health sleeps five seconds and looks again, for ever. *)
Spec == Init /\ [][Next]_vars /\ WF_vars(UpdateHealth)

-----------------------------------------------------------------------------
(***************************************************************************)
(* Properties.                                                             *)
(***************************************************************************)
Mode == {"WARMUP", "CATCH_UP", "LIVE"}

(* Types; every bar of a timeframe opens on its grid. *)
TypeOK ==
  /\ now \in 0..MaxNow /\ lastWall \in 0..MaxNow
  /\ warming \in BOOLEAN /\ mode \in Mode
  /\ provisional \in {None} \cup 0..MaxNow
  /\ tape \subseteq 0..MaxNow
  /\ DOMAIN rings = Tfs \cup {1} /\ DOMAIN fed = Tfs
  /\ \A tf \in Tfs : \A k \in DOMAIN fed[tf] :
       LET b == fed[tf][k] IN b.ts \in 0..MaxNow /\ b.ts % tf = 0 /\ b.gap \in BOOLEAN

(* What the detectors were given, bar by bar and in order, is what resampling
   the whole tape offline gives, restricted to the periods whose last minute
   arrived: no hole, duplicate or late start makes a bar of the wrong minutes
   or with the wrong coverage flag.  (A period that lost its last minute is
   never closed at all, though resample_from_1m has a bar for it.) *)
FedIsResample ==
  \A tf \in Tfs :
    /\ ToSet(fed[tf]) = {b \in Resampled(tape, tf) : b.ts + tf - 1 \in tape}
    /\ \A j, k \in DOMAIN fed[tf] : j < k => fed[tf][j].ts < fed[tf][k].ts

(* The last k elements of a sequence. *)
Newest(s, k) == SubSeq(s, Len(s) - k + 1, Len(s))

(* A set of minutes, in order. *)
InOrder(s) ==
  [k \in 1..Cardinality(s) |->
     CHOOSE m \in s : Cardinality({x \in s : x <= m}) = k]

(* The whole series of a timeframe as if nothing were ever overwritten, with a
   gap wherever a bar is thin or does not follow its predecessor. *)
Series(tf) ==
  LET minutes == InOrder(tape)
      s == IF tf = 1 THEN [k \in DOMAIN minutes |-> Bar(minutes[k], {minutes[k]}, FALSE)]
           ELSE fed[tf]
  IN  [k \in DOMAIN s |->
         [s[k] EXCEPT !.gap = @ \/ (k > 1 /\ s[k].ts - s[k - 1].ts # tf)]]

(* A full window of a ring is the end of the series, its gap mask included: of
   its first bar too, whose predecessor may have been overwritten. *)
RingsAreTails ==
  \A tf \in DOMAIN rings :
    Window(rings[tf], Capacity, tf) = Newest(Series(tf), Size(rings[tf]))

(* Once the data is back within a trigger bar the badge says LIVE, or the data
   falls behind again: neither CATCH_UP nor WARMUP is for ever. *)
BackToLive == (~warming /\ CaughtUp) ~> (mode = "LIVE" \/ ~CaughtUp)
=============================================================================
