--------------------------- MODULE RecordersProofs ---------------------------
(***************************************************************************)
(* Whatever the sources, the days and the faults, a line that arrived is   *)
(* in the file of its day, or its own write failed, or that file could     *)
(* never be opened.                                                        *)
(*                                                                         *)
(* The property is not inductive: that a recorder without an open handle   *)
(* loses the lines of one day only is in HandleInv.                        *)
(*                                                                         *)
(* The second half is about the poller: a row is missing only where the    *)
(* circuit opened, the machine was off, the file was torn or mishaps       *)
(* filled the overlap.  LastInv counts: the last row that is stored is one *)
(* pause and what the mishaps since then cost old, or else its successor   *)
(* is explained already.                                                   *)
(***************************************************************************)
EXTENDS Recorders, FiniteSetTheorems, TLAPS

(* What the recorders keep. *)
RecorderType ==
  /\ today \in 1..Days
  /\ day \in [Sources -> 0..Days]
  /\ fh \in [Sources -> {"none", "open", "closed"}]
  /\ buffer \in [Sources -> SUBSET Nat]
  /\ lines \in [Sources -> [1..Days -> SUBSET Nat]]
  /\ came \in [Sources -> Seq(1..Days)]
  /\ spoilt \in [Sources -> SUBSET Nat]
  /\ stuck \in [Sources -> SUBSET (1..Days)]

(* A handle that is open is that of a day; a recorder that believes it is  *)
(* on today's file and has no handle could not open it.                    *)
HandleInv ==
  \A s \in Sources :
    /\ fh[s] = "open" => day[s] # 0
    /\ fh[s] # "open" /\ day[s] = today => today \in stuck[s]
    /\ day[s] <= today

RecordersInv == RecorderType /\ HandleInv /\ EveryLineHasItsDay

-----------------------------------------------------------------------------
(* What a step does to the record of a source: nothing in it is lost, and  *)
(* at most one line comes, which is accounted for.                         *)
Accounts(s) ==
  /\ \A d \in 1..Days : lines[s][d] \subseteq lines'[s][d]
  /\ spoilt[s] \subseteq spoilt'[s] /\ stuck[s] \subseteq stuck'[s]
  /\ \/ came'[s] = came[s]
     \/ /\ came'[s] = Append(came[s], today)
        /\ Line(s) \in lines'[s][today] \/ Line(s) \in spoilt'[s] \/ today \in stuck'[s]

(* It is enough that every source accounts for its lines. *)
LEMMA AccountsSuffice ==
  ASSUME RecorderType, EveryLineHasItsDay, \A s \in Sources : Accounts(s)
  PROVE  EveryLineHasItsDay'
<1> DEFINE Has(s, n) == \/ n \in lines'[s][came'[s][n]]
                        \/ n \in spoilt'[s]
                        \/ came'[s][n] \in stuck'[s]
<1> SUFFICES ASSUME NEW s \in Sources, NEW n \in DOMAIN came'[s] PROVE Has(s, n)
  BY DEF EveryLineHasItsDay
<1>1. came[s] \in Seq(1..Days) /\ today \in 1..Days BY DEF RecorderType
<1>2. ASSUME n \in DOMAIN came[s], came'[s][n] = came[s][n] PROVE Has(s, n)
  <2>1. came[s][n] \in 1..Days
    <3> DEFINE S == 1..Days
    <3>1. n \in 1..Len(came[s]) BY <1>1, <1>2
    <3>2. came[s] \in Seq(S) BY <1>1
    <3> HIDE DEF S
    <3>3. came[s][n] \in S BY <3>1, <3>2
    <3> QED BY <3>3 DEF S
  <2>2. n \in lines[s][came[s][n]] \/ n \in spoilt[s] \/ came[s][n] \in stuck[s]
    BY <1>2 DEF EveryLineHasItsDay
  <2> QED BY <1>2, <2>1, <2>2 DEF Accounts
<1>3. CASE came'[s] = came[s] BY <1>2, <1>3
<1>4. CASE /\ came'[s] = Append(came[s], today)
           /\ Line(s) \in lines'[s][today] \/ Line(s) \in spoilt'[s] \/ today \in stuck'[s]
  <2>1. n \in DOMAIN came[s] \/ n = Line(s) BY <1>1, <1>4 DEF Line
  <2>2. CASE n \in DOMAIN came[s]
    <3>1. came'[s][n] = came[s][n] BY <1>1, <1>4, <2>2
    <3> QED BY <1>2, <2>2, <3>1
  <2>3. CASE n = Line(s)
    <3>1. came'[s][n] = today BY <1>1, <1>4, <2>3 DEF Line
    <3> QED BY <1>4, <2>3, <3>1
  <2> QED BY <2>1, <2>2, <2>3
<1> QED BY <1>3, <1>4 DEF Accounts

(* The lines once the handle of a source is closed. *)
LEMMA ClosedGrows ==
  ASSUME RecorderType, HandleInv, NEW s \in Sources
  PROVE  /\ Closed(s) \in [Sources -> [1..Days -> SUBSET Nat]]
         /\ \A r \in Sources : \A d \in 1..Days : lines[r][d] \subseteq Closed(s)[r][d]
<1>1. CASE fh[s] # "open" BY <1>1 DEF RecorderType, Closed
<1>2. CASE fh[s] = "open"
  <2> DEFINE new == [lines[s] EXCEPT ![day[s]] = @ \cup buffer[s]]
  <2>1. day[s] \in 1..Days /\ buffer[s] \in SUBSET Nat /\ lines[s] \in [1..Days -> SUBSET Nat]
    BY <1>2 DEF RecorderType, HandleInv
  <2>2. new \in [1..Days -> SUBSET Nat] /\ \A d \in 1..Days : lines[s][d] \subseteq new[d]
    BY <2>1
  <2>3. Closed(s) = [lines EXCEPT ![s] = new] BY <1>2 DEF Closed
  <2> HIDE DEF new
  <2> QED BY <2>2, <2>3 DEF RecorderType
<1> QED BY <1>1, <1>2

-----------------------------------------------------------------------------
(***************************************************************************)
(* The steps of a recorder.                                                *)
(***************************************************************************)
LEMMA ComesType ==
  ASSUME RecorderType, NEW s \in Sources, Comes(s)
  PROVE  /\ came' \in [Sources -> Seq(1..Days)] /\ Line(s) \in Nat
         /\ came'[s] = Append(came[s], today)
         /\ \A r \in Sources \ {s} : came'[r] = came[r]
BY DEF RecorderType, Comes, Line

(* A line is written. *)
LEMMA WritesKeeps ==
  ASSUME RecordersInv, NEW s \in Sources, Writes(s)
  PROVE  RecordersInv'
<1>1. RecorderType /\ HandleInv /\ EveryLineHasItsDay BY DEF RecordersInv
<1>2. /\ came' \in [Sources -> Seq(1..Days)] /\ Line(s) \in Nat
      /\ came'[s] = Append(came[s], today) /\ \A r \in Sources \ {s} : came'[r] = came[r]
  BY <1>1, ComesType DEF Writes
<1>3. buffer' \in [Sources -> SUBSET Nat] /\ UNCHANGED <<today, spoilt, stuck>>
  BY <1>1 DEF Writes, RecorderType
<1>4. CASE Rotates(s)
  <2>1. /\ day' = [day EXCEPT ![s] = today] /\ fh' = [fh EXCEPT ![s] = "open"]
        /\ lines' = [Closed(s) EXCEPT ![s][today] = @ \cup {Line(s)}]
    BY <1>4 DEF Writes
  <2>2. /\ lines' \in [Sources -> [1..Days -> SUBSET Nat]]
        /\ \A r \in Sources : \A d \in 1..Days : lines[r][d] \subseteq lines'[r][d]
        /\ Line(s) \in lines'[s][today]
    BY <1>1, <1>2, <2>1, ClosedGrows DEF RecorderType
  <2>3. RecorderType' BY <1>1, <1>2, <1>3, <2>1, <2>2 DEF RecorderType
  <2>4. HandleInv' BY <1>1, <1>3, <2>1 DEF HandleInv, RecorderType
  <2>5. \A r \in Sources : Accounts(r) BY <1>2, <1>3, <2>2 DEF Accounts
  <2> QED BY <1>1, <2>3, <2>4, <2>5, AccountsSuffice DEF RecordersInv
<1>5. CASE ~Rotates(s)
  <2>1. /\ UNCHANGED <<day, fh>> /\ fh[s] = "open" /\ day[s] = today
        /\ lines' = [lines EXCEPT ![s][day[s]] = @ \cup buffer[s] \cup {Line(s)}]
    BY <1>5 DEF Writes, Rotates
  <2>2. /\ lines' \in [Sources -> [1..Days -> SUBSET Nat]]
        /\ \A r \in Sources : \A d \in 1..Days : lines[r][d] \subseteq lines'[r][d]
        /\ Line(s) \in lines'[s][today]
    BY <1>1, <1>2, <2>1 DEF RecorderType
  <2>3. RecorderType' BY <1>1, <1>2, <1>3, <2>1, <2>2 DEF RecorderType
  <2>4. HandleInv' BY <1>1, <1>3, <2>1 DEF HandleInv, RecorderType
  <2>5. \A r \in Sources : Accounts(r) BY <1>2, <1>3, <2>2 DEF Accounts
  <2> QED BY <1>1, <2>3, <2>4, <2>5, AccountsSuffice DEF RecordersInv
<1> QED BY <1>4, <1>5

(* Closing the day that ended raises. *)
LEMMA CloseRaisesKeeps ==
  ASSUME RecordersInv, NEW s \in Sources, CloseRaises(s)
  PROVE  RecordersInv'
<1>1. RecorderType /\ HandleInv /\ EveryLineHasItsDay BY DEF RecordersInv
<1>2. /\ came' \in [Sources -> Seq(1..Days)] /\ Line(s) \in Nat
      /\ came'[s] = Append(came[s], today) /\ \A r \in Sources \ {s} : came'[r] = came[r]
  BY <1>1, ComesType DEF CloseRaises
<1>3. RecorderType' BY <1>1, <1>2 DEF RecorderType, CloseRaises
<1>4. HandleInv' BY <1>1 DEF HandleInv, RecorderType, CloseRaises, Rotates
<1>5. \A r \in Sources : Accounts(r) BY <1>1, <1>2 DEF Accounts, CloseRaises, RecorderType
<1> QED BY <1>1, <1>3, <1>4, <1>5, AccountsSuffice DEF RecordersInv

(* Opening the new day raises. *)
LEMMA OpenRaisesKeeps ==
  ASSUME RecordersInv, NEW s \in Sources, OpenRaises(s)
  PROVE  RecordersInv'
<1>1. RecorderType /\ HandleInv /\ EveryLineHasItsDay BY DEF RecordersInv
<1>2. /\ came' \in [Sources -> Seq(1..Days)] /\ Line(s) \in Nat
      /\ came'[s] = Append(came[s], today) /\ \A r \in Sources \ {s} : came'[r] = came[r]
  BY <1>1, ComesType DEF OpenRaises
<1>3. /\ lines' \in [Sources -> [1..Days -> SUBSET Nat]]
      /\ \A r \in Sources : \A d \in 1..Days : lines[r][d] \subseteq lines'[r][d]
  BY <1>1, ClosedGrows DEF OpenRaises
<1>4. RecorderType' BY <1>1, <1>2, <1>3 DEF RecorderType, OpenRaises
<1>5. HandleInv' BY <1>1 DEF HandleInv, RecorderType, OpenRaises
<1>6. \A r \in Sources : Accounts(r) BY <1>1, <1>2, <1>3 DEF Accounts, OpenRaises, RecorderType
<1> QED BY <1>1, <1>4, <1>5, <1>6, AccountsSuffice DEF RecordersInv

(* There is no file to write to. *)
LEMMA NoHandleKeeps ==
  ASSUME RecordersInv, NEW s \in Sources, NoHandle(s)
  PROVE  RecordersInv'
<1>1. RecorderType /\ HandleInv /\ EveryLineHasItsDay BY DEF RecordersInv
<1>2. /\ came' \in [Sources -> Seq(1..Days)] /\ Line(s) \in Nat
      /\ came'[s] = Append(came[s], today) /\ \A r \in Sources \ {s} : came'[r] = came[r]
  BY <1>1, ComesType DEF NoHandle
<1>3. today \in stuck[s] BY <1>1 DEF HandleInv, NoHandle, Rotates
<1>4. RecorderType' BY <1>1, <1>2 DEF RecorderType, NoHandle
<1>5. HandleInv' BY <1>1 DEF HandleInv, NoHandle
<1>6. \A r \in Sources : Accounts(r) BY <1>2, <1>3 DEF Accounts, NoHandle
<1> QED BY <1>1, <1>4, <1>5, <1>6, AccountsSuffice DEF RecordersInv

(* Writing a line raises. *)
LEMMA WriteRaisesKeeps ==
  ASSUME RecordersInv, NEW s \in Sources, WriteRaises(s)
  PROVE  RecordersInv'
<1>1. RecorderType /\ HandleInv /\ EveryLineHasItsDay BY DEF RecordersInv
<1>2. /\ came' \in [Sources -> Seq(1..Days)] /\ Line(s) \in Nat
      /\ came'[s] = Append(came[s], today) /\ \A r \in Sources \ {s} : came'[r] = came[r]
  BY <1>1, ComesType DEF WriteRaises
<1>3. RecorderType' BY <1>1, <1>2 DEF RecorderType, WriteRaises
<1>4. HandleInv' BY <1>1 DEF HandleInv, WriteRaises
<1>5. \A r \in Sources : Accounts(r) BY <1>1, <1>2 DEF Accounts, WriteRaises, RecorderType
<1> QED BY <1>1, <1>3, <1>4, <1>5, AccountsSuffice DEF RecordersInv

-----------------------------------------------------------------------------
(***************************************************************************)
(* The steps of the process and of the calendar.                           *)
(***************************************************************************)
LEMMA MidnightKeeps ==
  ASSUME RecordersAssumption, RecordersInv, Midnight
  PROVE  RecordersInv'
<1>1. RecorderType /\ HandleInv /\ EveryLineHasItsDay BY DEF RecordersInv
<1>2. Days \in Nat BY DEF RecordersAssumption
<1>3. RecorderType' BY <1>1, <1>2 DEF RecorderType, Midnight
<1>4. HandleInv' BY <1>1, <1>2 DEF HandleInv, Midnight, RecorderType
<1>5. EveryLineHasItsDay' BY <1>1 DEF EveryLineHasItsDay, Midnight
<1> QED BY <1>3, <1>4, <1>5 DEF RecordersInv

(* A new process has no handle and no date. *)
LEMMA FreshHandles ==
  ASSUME RecordersAssumption, RecorderType, HandleInv, Fresh, today' = today
  PROVE  /\ day' \in [Sources -> 0..Days]
         /\ fh' \in [Sources -> {"none", "open", "closed"}]
         /\ buffer' \in [Sources -> SUBSET Nat]
         /\ HandleInv'
<1>1. today \in 1..Days /\ Days \in Nat BY DEF RecorderType, RecordersAssumption
<1>2. /\ day' \in [Sources -> 0..Days]
      /\ fh' \in [Sources -> {"none", "open", "closed"}]
      /\ buffer' \in [Sources -> SUBSET Nat]
  BY <1>1 DEF Fresh
<1> QED BY <1>1, <1>2 DEF Fresh, HandleInv

(* The collector is stopped. *)
LEMMA StopsKeeps ==
  ASSUME RecordersAssumption, RecordersInv, Stops
  PROVE  RecordersInv'
<1>1. RecorderType /\ HandleInv /\ EveryLineHasItsDay BY DEF RecordersInv
<1>2. /\ lines' = [s \in Sources |-> Closed(s)[s]]
      /\ UNCHANGED <<today, came, spoilt, stuck>> /\ Fresh
  BY DEF Stops
<1>3. \A s \in Sources : /\ lines'[s] = Closed(s)[s]
                         /\ Closed(s)[s] \in [1..Days -> SUBSET Nat]
                         /\ \A d \in 1..Days : lines[s][d] \subseteq Closed(s)[s][d]
  BY <1>1, <1>2, ClosedGrows
<1>4. RecorderType' BY <1>1, <1>2, <1>3, FreshHandles DEF RecorderType
<1>5. HandleInv' BY <1>1, <1>2, FreshHandles
<1>6. \A s \in Sources : Accounts(s) BY <1>2, <1>3 DEF Accounts
<1> QED BY <1>1, <1>4, <1>5, <1>6, AccountsSuffice DEF RecordersInv

(* The collector is killed. *)
LEMMA KilledKeeps ==
  ASSUME RecordersAssumption, RecordersInv, Killed
  PROVE  RecordersInv'
<1>1. RecorderType /\ HandleInv /\ EveryLineHasItsDay BY DEF RecordersInv
<1>2. UNCHANGED <<today, lines, came, spoilt, stuck>> /\ Fresh BY DEF Killed
<1>3. RecorderType' BY <1>1, <1>2, FreshHandles DEF RecorderType
<1>4. HandleInv' BY <1>1, <1>2, FreshHandles
<1>5. EveryLineHasItsDay' BY <1>1, <1>2 DEF EveryLineHasItsDay
<1> QED BY <1>3, <1>4, <1>5 DEF RecordersInv

(* The invariant under every step. *)
LEMMA RecordersSteps ==
  ASSUME RecordersAssumption, RecordersInv, [Next]_vars
  PROVE  RecordersInv'
<1>1. CASE Midnight BY <1>1, MidnightKeeps
<1>2. ASSUME NEW s \in Sources, Recorder(s) PROVE RecordersInv'
  <2>1. CASE Connects(s) \/ Loses(s)
    BY <2>1 DEF Connects, Loses, RecordersInv, RecorderType, HandleInv, EveryLineHasItsDay
  <2> QED BY <1>2, <2>1, WritesKeeps, CloseRaisesKeeps, OpenRaisesKeeps, NoHandleKeeps,
            WriteRaisesKeeps DEF Recorder
<1>3. CASE Stops BY <1>3, StopsKeeps
<1>4. CASE Killed BY <1>4, KilledKeeps
<1>5. CASE UNCHANGED recorder
  BY <1>5 DEF recorder, RecordersInv, RecorderType, HandleInv, EveryLineHasItsDay
<1> QED BY <1>1, <1>2, <1>3, <1>4, <1>5
  DEF Next, vars, Polls, PollFails, AppendRaises, GivesUp, Wakes, MonthEnds

(* What the recorders keep is always what liquidations.py may keep, and no *)
(* line of a day it could open is lost.                                    *)
THEOREM RecordersInvariant == Spec => []RecordersInv
<1>1. Init => RecordersInv
  BY RecordersAssumption
  DEF Init, RecordersAssumption, RecordersInv, RecorderType, HandleInv, EveryLineHasItsDay
<1>2. RecordersInv /\ [Next]_vars => RecordersInv' BY RecordersAssumption, RecordersSteps
<1> QED BY <1>1, <1>2, PTL DEF Spec

(* "Append-only: this is NEVER deleted or rewritten" (liquidations.py:61). *)
THEOREM LinesAreKept == Spec => []EveryLineHasItsDay
<1>1. RecordersInv => EveryLineHasItsDay BY DEF RecordersInv
<1> QED BY <1>1, RecordersInvariant, PTL

-----------------------------------------------------------------------------
(***************************************************************************)
(* The poller.                                                             *)
(***************************************************************************)
(* Minutes of rows in one answer; what the mishaps since the row p cost.   *)
Span(k) == Limit[k] * Point[k]
Lost(k, p) == Longest * Cardinality(Hits(k, p))

PollerType ==
  /\ now \in Nat /\ wake \in Nat /\ next \in 0..Len(Series)
  /\ stored \in [DOMAIN Series -> SUBSET Int]
  /\ mishaps \in Seq(Nat)
  /\ dark \in SUBSET Nat /\ tears \in [DOMAIN Series -> SUBSET Nat]
  /\ next = 0 => now <= wake

(* x is the time of a row of k. *)
OnPoint(k, x) == \E i \in Int : x = Point[k] * i

(* Nothing is stored that has not happened. *)
StoredInv ==
  \A k \in DOMAIN Series : \A p \in stored[k] : OnPoint(k, p) /\ p <= now

(* p is the last row of k that can be read back. *)
Last(k, p) == p \in stored[k] /\ \A q \in stored[k] : q <= p

(* The poll that brought p is one pause and the mishaps ago; no pause if   *)
(* this poll has asked for k already.                                      *)
Recent(k, p) ==
  IF next = 0 THEN wake < p + Point[k] + Lost(k, p) + Every
  ELSE IF next <= k THEN now < p + Point[k] + Lost(k, p) + Every
                    ELSE now < p + Point[k] + Lost(k, p)

LastInv ==
  \A k \in DOMAIN Series : \A p \in Int : Last(k, p) =>
    Explained(k, p) \/ (k \notin torn /\ Recent(k, p))

PollerInv == PollerType /\ StoredInv /\ LastInv /\ GapsAreOutages

-----------------------------------------------------------------------------
(* The constants of a series. *)
LEMMA SeriesAre ==
  ASSUME NEW k \in DOMAIN Series
  PROVE  /\ Point[k] \in Nat \ {0} /\ Limit[k] \in Nat \ {0} /\ Span(k) \in Nat
         /\ Point[k] <= Span(k) /\ k \in 1..Len(Series) /\ k \in Nat \ {0}
<1>1. Point[k] \in Nat \ {0} /\ Limit[k] \in Nat \ {0}
  BY RecordersAssumption DEF RecordersAssumption
<1>2. k \in 1..Len(Series) /\ Len(Series) \in Nat BY RecordersAssumption DEF RecordersAssumption
<1>3. \A a, b \in Nat \ {0} : a * b \in Nat /\ b <= a * b OBVIOUS
<1> QED BY <1>1, <1>2, <1>3 DEF Span

(* What a mishap costs at most. *)
LEMMA CostIs ==
  /\ Longest \in Nat /\ Every \in Nat /\ ErrorPause \in Nat /\ CircuitPause \in Nat
  /\ \A d \in Delays : d \in Nat /\ d <= Longest /\ d + ErrorPause + Every <= Longest
  /\ \A d \in Outages : d \in Nat
<1>1. /\ Every \in Nat /\ ErrorPause \in Nat /\ CircuitPause \in Nat
      /\ Delays \in SUBSET Nat /\ Outages \in SUBSET Nat
  BY RecordersAssumption DEF RecordersAssumption
<1>2. Max(Delays) \in Delays /\ \A d \in Delays : d <= Max(Delays)
  <2>1. PICK w \in Delays : \A d \in Delays : d <= w
    BY RecordersAssumption DEF RecordersAssumption
  <2>2. \A d \in Delays : w >= d BY <1>1, <2>1
  <2>3. /\ Max(Delays) \in Delays /\ \A d \in Delays : Max(Delays) >= d BY <2>2 DEF Max
  <2> QED BY <1>1, <2>3
<1>3. Max(Delays) \in Nat BY <1>1, <1>2
<1> DEFINE m == Max(Delays)
<1>4. m \in Nat /\ (\A d \in Delays : d \in Nat /\ d <= m) /\ Longest = m + ErrorPause + Every
  BY <1>1, <1>2, <1>3 DEF Longest
<1> HIDE DEF m
<1> QED BY <1>1, <1>4

(* Multiples of c are at least c apart. *)
LEMMA Multiples ==
  ASSUME NEW c \in Nat \ {0}, NEW p \in Int, NEW q \in Int
  PROVE  /\ p > q => c * p - c * q >= c
         /\ p <= q => c * p <= c * q
         /\ c * p \in Int
<1>1. c * (p - q) = c * p - c * q OBVIOUS
<1>2. p - q > 0 => c * (p - q) >= c OBVIOUS
<1>3. p - q <= 0 => c * (p - q) <= 0 OBVIOUS
<1>4. c * p \in Int /\ c * q \in Int OBVIOUS
<1> QED BY <1>1, <1>2, <1>3, <1>4

(* Of two rows the later one is at least the next. *)
LEMMA NextRow ==
  ASSUME NEW k \in DOMAIN Series, NEW p \in Int, NEW q \in Int, OnPoint(k, p), OnPoint(k, q)
  PROVE  OnPoint(k, p + Point[k]) /\ (p < q => p + Point[k] <= q)
<1> DEFINE c == Point[k]
<1>1. c \in Nat \ {0} BY SeriesAre
<1>2. PICK i \in Int : p = c * i BY DEF OnPoint
<1>3. PICK j \in Int : q = c * j BY DEF OnPoint
<1>4. p + c = c * (i + 1) /\ i + 1 \in Int BY <1>1, <1>2
<1>5. p < q => j > i BY <1>1, <1>2, <1>3, Multiples
<1>6. j > i => c * j - c * i >= c BY <1>1, Multiples
<1> QED BY <1>1, <1>2, <1>3, <1>4, <1>5, <1>6 DEF OnPoint

(* The rows of an answer: all there are of the last Span(k) minutes, and   *)
(* the last of them is not a row old.                                      *)
LEMMA RowsAre ==
  ASSUME NEW k \in DOMAIN Series, NEW t \in Nat
  PROVE  /\ \A x \in Int : x \in Rows(k, t) <=> OnPoint(k, x) /\ t - Span(k) < x /\ x <= t
         /\ Rows(k, t) \in SUBSET Int
         /\ \E x \in Rows(k, t) : t < x + Point[k]
<1> DEFINE c == Point[k]
           l == Limit[k]
           q == t \div c
<1>1. c \in Nat \ {0} /\ l \in Nat \ {0} /\ Span(k) \in Nat /\ c <= Span(k) /\ Span(k) = c * l
  <2>1. c \in Nat \ {0} /\ l \in Nat \ {0} /\ Span(k) \in Nat /\ c <= Span(k) BY SeriesAre
  <2> QED BY <2>1 DEF Span
<1>2. q \in Int /\ c * q <= t /\ t < c * q + c /\ c * q \in Int
  <2>1. t % c \in 0..(c - 1) /\ t = c * q + (t % c) /\ q \in Int
    <3> HIDE DEF c
    <3> QED BY <1>1
  <2>2. c * q \in Int BY <1>1, <2>1
  <2> HIDE DEF c, q
  <2> QED BY <1>1, <2>1, <2>2
<1>3. Rows(k, t) = {p \in {c * i : i \in (-l)..q} : p > t - Span(k)} BY DEF Rows, Span
<1> HIDE DEF c, l, q
<1>4. ASSUME NEW i \in Int, c * i <= t, t - Span(k) < c * i PROVE i \in (-l)..q
  <2>1. i <= q
    <3> SUFFICES ASSUME i > q PROVE FALSE BY <1>2
    <3>1. c * i - c * q >= c BY <1>1, <1>2, Multiples
    <3>2. c * i \in Int BY <1>1
    <3> QED BY <1>1, <1>2, <1>4, <3>1, <3>2
  <2>2. i >= -l
    <3> SUFFICES ASSUME -l > i PROVE FALSE BY <1>1
    <3>1. c * (-l) - c * i >= c BY <1>1, Multiples
    <3>2. c * (-l) = -(c * l) /\ c * i \in Int /\ c * l \in Int BY <1>1
    <3> QED BY <1>1, <1>4, <3>1, <3>2
  <2> QED BY <1>1, <1>2, <2>1, <2>2
<1>5. \A i \in (-l)..q : i \in Int /\ c * i \in Int /\ c * i <= t
  <2> SUFFICES ASSUME NEW i \in (-l)..q PROVE i \in Int /\ c * i \in Int /\ c * i <= t OBVIOUS
  <2>1. i \in Int /\ i <= q BY <1>1, <1>2
  <2>2. c * i <= c * q /\ c * i \in Int BY <1>1, <1>2, <2>1, Multiples
  <2> QED BY <1>2, <2>1, <2>2
<1>6. ASSUME NEW x \in Int
      PROVE  x \in Rows(k, t) <=> OnPoint(k, x) /\ t - Span(k) < x /\ x <= t
  <2>1. ASSUME x \in Rows(k, t) PROVE OnPoint(k, x) /\ t - Span(k) < x /\ x <= t
    <3>1. PICK i \in (-l)..q : x = c * i BY <1>3, <2>1
    <3>2. x > t - Span(k) BY <1>3, <2>1
    <3>3. i \in Int /\ c * i <= t BY <1>5
    <3> QED BY <1>1, <3>1, <3>2, <3>3 DEF OnPoint, c
  <2>2. ASSUME OnPoint(k, x), t - Span(k) < x, x <= t PROVE x \in Rows(k, t)
    <3>1. PICK i \in Int : x = c * i BY <2>2 DEF OnPoint, c
    <3>2. i \in (-l)..q BY <1>4, <2>2, <3>1
    <3>3. x > t - Span(k) BY <1>1, <2>2
    <3> QED BY <1>3, <3>1, <3>2, <3>3
  <2> QED BY <2>1, <2>2
<1>7. Rows(k, t) \in SUBSET Int BY <1>3, <1>5
<1>8. \E x \in Rows(k, t) : t < x + Point[k]
  <2>1. OnPoint(k, c * q) BY <1>2 DEF OnPoint, c
  <2>2. t - Span(k) < c * q BY <1>1, <1>2
  <2>3. c * q \in Rows(k, t) BY <1>2, <1>6, <2>1, <2>2
  <2> QED BY <1>2, <2>3 DEF c
<1> QED BY <1>6, <1>7, <1>8

-----------------------------------------------------------------------------
(* How many mishaps there were since a row is a number. *)
LEMMA LostIs ==
  ASSUME PollerType, NEW k \in DOMAIN Series, NEW p \in Int
  PROVE  /\ IsFiniteSet(Hits(k, p)) /\ Cardinality(Hits(k, p)) \in Nat
         /\ Lost(k, p) \in Nat
<1>1. Hits(k, p) \in SUBSET (1..Len(mishaps)) /\ Len(mishaps) \in Nat
  BY DEF PollerType, Hits
<1>2. IsFiniteSet(Hits(k, p))
  <2>1. IsFiniteSet(1..Len(mishaps)) BY <1>1, FS_Interval
  <2> QED BY <1>1, <2>1, FS_Subset
<1>3. Cardinality(Hits(k, p)) \in Nat BY <1>2, FS_CardinalityType
<1>4. \A a, b \in Nat : a * b \in Nat OBVIOUS
<1> QED BY <1>2, <1>3, <1>4, CostIs DEF Lost

(* A mishap in the time that matters is one more. *)
LEMMA MishapCosts ==
  ASSUME PollerType, NEW t \in Nat, Mishap(t), NEW k \in DOMAIN Series, NEW p \in Int
  PROVE  Lost(k, p)' = IF Reaches(k, p, t) THEN Lost(k, p) + Longest ELSE Lost(k, p)
<1> DEFINE n == Len(mishaps)
<1>1. mishaps' = Append(mishaps, t) /\ mishaps \in Seq(Nat) /\ n \in Nat
  BY DEF PollerType, Mishap
<1>2. /\ DOMAIN mishaps' = 1..(n + 1) /\ DOMAIN mishaps = 1..n
      /\ mishaps'[n + 1] = t /\ \A i \in 1..n : mishaps'[i] = mishaps[i]
  BY <1>1
<1> HIDE DEF n
<1>3. 1..(n + 1) = (1..n) \cup {n + 1} /\ n + 1 \notin 1..n BY <1>1
<1>4. Hits(k, p)' = {i \in 1..(n + 1) : Reaches(k, p, mishaps'[i])} BY <1>2 DEF Hits, Reaches
<1>5. Hits(k, p) = {i \in 1..n : Reaches(k, p, mishaps[i])} BY <1>2 DEF Hits
<1>6. IsFiniteSet(Hits(k, p)) /\ Cardinality(Hits(k, p)) \in Nat BY LostIs
<1>7. CASE Reaches(k, p, t)
  <2>1. Hits(k, p)' = Hits(k, p) \cup {n + 1} BY <1>2, <1>3, <1>4, <1>5, <1>7
  <2>2. n + 1 \notin Hits(k, p) BY <1>3, <1>5
  <2>3. Cardinality(Hits(k, p)') = Cardinality(Hits(k, p)) + 1
    BY <1>6, <2>1, <2>2, FS_AddElement
  <2>4. \A a, b \in Nat : a * (b + 1) = a * b + a OBVIOUS
  <2>5. Lost(k, p)' = Longest * (Cardinality(Hits(k, p)) + 1) BY <2>3 DEF Lost, Longest
  <2> QED BY <1>6, <1>7, <2>4, <2>5, CostIs DEF Lost
<1>8. CASE ~Reaches(k, p, t)
  <2>1. Hits(k, p)' = Hits(k, p) BY <1>2, <1>3, <1>4, <1>5, <1>8
  <2> QED BY <1>8, <2>1 DEF Lost, Longest
<1> QED BY <1>7, <1>8

(* What a step may do to the histories. *)
Unforgotten ==
  /\ UNCHANGED mishaps \/ \E t \in Nat : Mishap(t)
  /\ dark \subseteq dark' /\ \A k \in DOMAIN Series : tears[k] \subseteq tears'[k]

(* What is explained stays explained. *)
LEMMA ExplainedStays ==
  ASSUME PollerType, Unforgotten, NEW k \in DOMAIN Series, NEW p \in Int, Explained(k, p)
  PROVE  Explained(k, p)'
<1>1. CASE \E t \in dark \cup tears[k] : Reaches(k, p, t)
  BY <1>1 DEF Explained, Unforgotten, Reaches
<1>2. CASE Every + Lost(k, p) > Span(k)
  <2>1. Lost(k, p) \in Nat /\ Longest \in Nat /\ Every \in Nat /\ Span(k) \in Nat
    BY LostIs, CostIs, SeriesAre
  <2>2. CASE UNCHANGED mishaps
    <3>1. Lost(k, p)' = Lost(k, p) BY <2>2 DEF Lost, Hits, Reaches, Longest
    <3> QED BY <1>2, <3>1 DEF Explained, Lost, Longest, Span
  <2>3. CASE \E t \in Nat : Mishap(t)
    <3>1. PICK t \in Nat : Mishap(t) BY <2>3
    <3>2. Lost(k, p)' = Lost(k, p) + Longest \/ Lost(k, p)' = Lost(k, p) BY <3>1, MishapCosts
    <3>3. Every + Lost(k, p)' > Span(k) BY <1>2, <2>1, <3>2
    <3> QED BY <3>3 DEF Explained, Lost, Longest, Span
  <2> QED BY <2>2, <2>3 DEF Unforgotten
<1> QED BY <1>1, <1>2 DEF Explained, Lost, Span

(* What the mishaps cost more than the overlap explains. *)
LEMMA LostExplains ==
  ASSUME NEW k, NEW p, Every + Lost(k, p) > Span(k)
  PROVE  Explained(k, p)
BY DEF Explained, Lost, Span

(* The row p is recent: what happens before the poller wakes up happens in *)
(* time to explain why the next one is missing, or that is explained.      *)
LEMMA InTime ==
  ASSUME PollerType, StoredInv, NEW k \in DOMAIN Series, NEW p \in Int, Last(k, p),
         Recent(k, p), NEW t \in Moments
  PROVE  /\ t \in Nat /\ t < p + Point[k] + Lost(k, p) + Every
         /\ Reaches(k, p, t) \/ Explained(k, p)
<1>1. now \in Nat /\ wake \in Nat /\ Every \in Nat /\ Lost(k, p) \in Nat
  BY LostIs, CostIs DEF PollerType
<1>2. Point[k] \in Nat /\ Span(k) \in Nat BY SeriesAre
<1>3. t \in Nat /\ now <= t /\ (IF next = 0 THEN t <= wake ELSE t = now)
  BY <1>1 DEF Moments
<1>4. p <= now BY DEF StoredInv, Last
<1>5. t < p + Point[k] + Lost(k, p) + Every
  <2> DEFINE x == Lost(k, p)
  <2>1. x \in Nat BY <1>1
  <2>2. IF next = 0 THEN wake < p + Point[k] + x + Every
        ELSE now < p + Point[k] + x + Every \/ now < p + Point[k] + x
    BY DEF Recent
  <2> HIDE DEF x
  <2>3. t < p + Point[k] + x + Every BY <1>1, <1>2, <1>3, <2>1, <2>2
  <2> QED BY <2>3 DEF x
<1>6. CASE t < p + Point[k] + Span(k) BY <1>1, <1>3, <1>4, <1>5, <1>6 DEF Reaches, Span
<1>7. CASE ~(t < p + Point[k] + Span(k))
  <2>1. Every + Lost(k, p) > Span(k) BY <1>1, <1>2, <1>3, <1>5, <1>7
  <2> QED BY <1>3, <1>5, <2>1, LostExplains
<1> QED BY <1>6, <1>7

(* A mishap costs no more than Longest, or the next row is explained. *)
LEMMA MishapKeeps ==
  ASSUME PollerType, StoredInv, NEW k \in DOMAIN Series, NEW p \in Int, Last(k, p),
         Recent(k, p), NEW t \in Moments, Mishap(t), Unforgotten
  PROVE  \/ Explained(k, p)'
         \/ /\ Reaches(k, p, t) /\ Lost(k, p)' = Lost(k, p) + Longest
            /\ t + Longest < p + Point[k] + Lost(k, p)' + Every
<1>1. t \in Nat /\ t < p + Point[k] + Lost(k, p) + Every
  BY InTime
<1>2. CASE Explained(k, p) BY <1>2, ExplainedStays
<1>3. CASE Reaches(k, p, t)
  <2>1. Lost(k, p)' = Lost(k, p) + Longest BY <1>1, <1>3, MishapCosts
  <2>2. Lost(k, p) \in Nat /\ Longest \in Nat /\ Every \in Nat /\ Point[k] \in Nat
    BY LostIs, CostIs, SeriesAre
  <2>3. t + Longest < p + Point[k] + (Lost(k, p) + Longest) + Every BY <1>1, <2>2
  <2> QED BY <1>3, <2>1, <2>3
<1> QED BY <1>2, <1>3, InTime

-----------------------------------------------------------------------------
(* Nothing is stored: it is enough that a row that was recent still is, or *)
(* is now explained.                                                       *)
LEMMA NothingStored ==
  ASSUME PollerInv, PollerType', stored' = stored, now <= now', Unforgotten,
         \A k \in DOMAIN Series : \A p \in Int :
           Last(k, p) /\ k \notin torn /\ Recent(k, p) =>
             Explained(k, p)' \/ (k \notin torn' /\ Recent(k, p)')
  PROVE  PollerInv'
<1>1. PollerType /\ StoredInv /\ LastInv /\ GapsAreOutages BY DEF PollerInv
<1>2. now \in Nat /\ now' \in Nat /\ stored \in [DOMAIN Series -> SUBSET Int]
  BY <1>1 DEF PollerType
<1>3. StoredInv' BY <1>1, <1>2 DEF StoredInv, OnPoint
<1>4. \A k \in DOMAIN Series : \A p \in Int : Explained(k, p) => Explained(k, p)'
  BY <1>1, ExplainedStays
<1>5. LastInv'
  <2> SUFFICES ASSUME NEW k \in DOMAIN Series, NEW p \in Int, Last(k, p)'
               PROVE  Explained(k, p)' \/ (k \notin torn' /\ Recent(k, p)')
    BY DEF LastInv
  <2>1. Last(k, p) BY DEF Last
  <2>2. Explained(k, p) \/ (k \notin torn /\ Recent(k, p)) BY <1>1, <2>1 DEF LastInv
  <2> QED BY <1>4, <2>1, <2>2
<1>6. GapsAreOutages'
  <2> SUFFICES ASSUME NEW k \in DOMAIN Series, NEW p \in stored[k], NEW q \in stored[k],
                      p + Point[k] < q, p + Point[k] \notin stored[k]
               PROVE  Explained(k, p)'
    BY DEF GapsAreOutages
  <2>1. Explained(k, p) /\ p \in Int BY <1>1, <1>2 DEF GapsAreOutages
  <2> QED BY <1>4, <2>1
<1> QED BY <1>3, <1>5, <1>6 DEF PollerInv

(* The poll is abandoned, perhaps with half a member behind it. *)
LEMMA GivesUpKeeps ==
  ASSUME PollerInv, NEW cause \in {"circuit", "error"}, GivesUp(cause),
         NEW half \in SUBSET ({next} \ {0}), Tears(half)
  PROVE  PollerInv'
<1>1. PollerType /\ StoredInv BY DEF PollerInv
<1>2. PICK d \in Delays : now' = now + d /\ wake' = now' + Pause(cause) + Every
  BY DEF GivesUp
<1>3. /\ next # 0 /\ next' = 0 /\ Mishap(now) /\ stored' = stored
      /\ dark' = IF cause = "circuit" THEN dark \cup {now} ELSE dark
  BY DEF GivesUp, Awake
<1>4. /\ now \in Nat /\ d \in Nat /\ Every \in Nat /\ ErrorPause \in Nat /\ CircuitPause \in Nat
      /\ d + ErrorPause + Every <= Longest /\ Longest \in Nat
  BY <1>1, CostIs DEF PollerType
<1>5. Pause(cause) \in Nat BY <1>4 DEF Pause
<1>6. tears' \in [DOMAIN Series -> SUBSET Nat]
  BY <1>1, <1>4 DEF PollerType, Tears
<1>7. PollerType'
  <2>1. now' \in Nat /\ wake' \in Nat /\ now' <= wake' /\ now <= now' BY <1>2, <1>4, <1>5
  <2>2. dark' \in SUBSET Nat /\ mishaps' \in Seq(Nat)
    BY <1>1, <1>3, <1>4 DEF PollerType, Mishap
  <2>3. next' \in 0..Len(Series) BY <1>3, RecordersAssumption DEF RecordersAssumption
  <2> QED BY <1>1, <1>3, <1>6, <2>1, <2>2, <2>3 DEF PollerType
<1>8. Unforgotten
  <2>1. \A k \in DOMAIN Series : tears[k] \subseteq tears'[k] BY DEF Tears
  <2> QED BY <1>3, <1>4, <2>1 DEF Unforgotten
<1>9. now \in Moments BY <1>3 DEF Moments
<1>10. ASSUME NEW k \in DOMAIN Series, NEW p \in Int, Last(k, p), k \notin torn, Recent(k, p)
       PROVE  Explained(k, p)' \/ (k \notin torn' /\ Recent(k, p)')
  <2> SUFFICES ASSUME ~Explained(k, p)' PROVE k \notin torn' /\ Recent(k, p)' OBVIOUS
  <2>1. /\ Reaches(k, p, now) /\ now + Longest < p + Point[k] + Lost(k, p)' + Every
    BY <1>1, <1>3, <1>8, <1>9, <1>10, MishapKeeps
  <2>2. now \notin dark' \cup tears'[k] BY <2>1 DEF Explained, Reaches
  <2>3. cause = "error" BY <1>3, <2>2
  <2>4. k \notin half BY <2>2 DEF Tears
  <2>5. k \notin torn' BY <1>10, <2>4 DEF Tears
  <2>6. wake' <= now + Longest BY <1>2, <1>4, <2>3 DEF Pause
  <2>7. wake' < p + Point[k] + Lost(k, p)' + Every
    <3>1. /\ Lost(k, p)' \in Nat /\ Point[k] \in Nat /\ wake' \in Nat
      <4>1. Lost(k, p) \in Nat BY <1>1, LostIs
      <4>2. Lost(k, p)' = Lost(k, p) \/ Lost(k, p)' = Lost(k, p) + Longest
        BY <1>1, <1>3, <1>4, MishapCosts
      <4> QED BY <1>4, <1>7, <4>1, <4>2, SeriesAre DEF PollerType
    <3> QED BY <1>4, <2>1, <2>6, <3>1
  <2> QED BY <1>3, <2>5, <2>7 DEF Recent
<1>11. now <= now' BY <1>2, <1>4
<1> QED BY <1>3, <1>7, <1>8, <1>10, <1>11, NothingStored

(* The poller wakes up. *)
LEMMA WakesKeeps ==
  ASSUME PollerInv, Wakes
  PROVE  PollerInv'
<1>1. PollerType BY DEF PollerInv
<1>2. /\ next = 0 /\ now' = wake /\ next' = 1
      /\ UNCHANGED <<wake, stored, torn, mishaps, dark, tears>>
  BY DEF Wakes
<1>3. now <= wake /\ now \in Nat /\ wake \in Nat BY <1>1, <1>2 DEF PollerType
<1>4. 1 \in 0..Len(Series) BY RecordersAssumption DEF RecordersAssumption
<1>5. PollerType' BY <1>1, <1>2, <1>3, <1>4 DEF PollerType
<1>6. ASSUME NEW k \in DOMAIN Series, NEW p \in Int, Last(k, p), k \notin torn, Recent(k, p)
      PROVE  Explained(k, p)' \/ (k \notin torn' /\ Recent(k, p)')
  <2>1. 1 <= k BY SeriesAre
  <2>2. Lost(k, p)' = Lost(k, p) BY <1>2 DEF Lost, Hits, Reaches, Longest
  <2> QED BY <1>2, <1>6, <2>1, <2>2 DEF Recent
<1>7. Unforgotten BY <1>2 DEF Unforgotten
<1> QED BY <1>2, <1>3, <1>5, <1>6, <1>7, NothingStored

(* A new month, or a step of a recorder. *)
LEMMA ElsewhereKeeps ==
  ASSUME PollerInv, UNCHANGED <<now, next, wake, stored, mishaps, dark, tears>>,
         torn' \subseteq torn
  PROVE  PollerInv'
<1>1. PollerType BY DEF PollerInv
<1>2. PollerType' BY <1>1 DEF PollerType
<1>3. ASSUME NEW k \in DOMAIN Series, NEW p \in Int, Last(k, p), k \notin torn, Recent(k, p)
      PROVE  Explained(k, p)' \/ (k \notin torn' /\ Recent(k, p)')
  <2>1. Lost(k, p)' = Lost(k, p) BY DEF Lost, Hits, Reaches, Longest
  <2> QED BY <1>3, <2>1 DEF Recent
<1>4. now <= now' BY <1>1 DEF PollerType
<1>5. Unforgotten BY DEF Unforgotten
<1> QED BY <1>2, <1>3, <1>4, <1>5, NothingStored

(* The process starts again, perhaps with half a member behind it. *)
LEMMA RestartKeeps ==
  ASSUME PollerInv, Fresh, stored' = stored,
         NEW half \in SUBSET ({next} \ {0}), Tears(half)
  PROVE  PollerInv'
<1>1. PollerType /\ StoredInv BY DEF PollerInv
<1>2. PICK t \in Moments : \E d \in Delays \cup Outages :
         /\ now' = t + d /\ Mishap(t)
         /\ dark' = IF d \in Delays THEN dark ELSE dark \cup {t}
  BY DEF Fresh
<1>3. PICK d \in Delays \cup Outages :
         /\ now' = t + d /\ Mishap(t)
         /\ dark' = IF d \in Delays THEN dark ELSE dark \cup {t}
  BY <1>2
<1>4. next' = 1 /\ wake' = 0 BY DEF Fresh
<1>5. /\ now \in Nat /\ wake \in Nat /\ d \in Nat /\ Every \in Nat /\ Longest \in Nat
      /\ d \in Delays => d <= Longest
  BY <1>1, CostIs DEF PollerType
<1>6. t \in Nat /\ now <= t /\ (next # 0 => t = now) BY <1>1, <1>5 DEF Moments, PollerType
<1>7. tears' \in [DOMAIN Series -> SUBSET Nat] BY <1>1, <1>5 DEF PollerType, Tears
<1>8. PollerType'
  <2>1. now' \in Nat /\ wake' \in Nat BY <1>3, <1>4, <1>5, <1>6
  <2>2. dark' \in SUBSET Nat /\ mishaps' \in Seq(Nat)
    BY <1>1, <1>3, <1>6 DEF PollerType, Mishap
  <2>3. next' \in 0..Len(Series) /\ next' # 0
    BY <1>4, RecordersAssumption DEF RecordersAssumption
  <2> QED BY <1>1, <1>7, <2>1, <2>2, <2>3 DEF PollerType
<1>9. Unforgotten
  <2>1. \A k \in DOMAIN Series : tears[k] \subseteq tears'[k] BY DEF Tears
  <2> QED BY <1>3, <1>6, <2>1 DEF Unforgotten
<1>10. ASSUME NEW k \in DOMAIN Series, NEW p \in Int, Last(k, p), k \notin torn, Recent(k, p)
       PROVE  Explained(k, p)' \/ (k \notin torn' /\ Recent(k, p)')
  <2> SUFFICES ASSUME ~Explained(k, p)' PROVE k \notin torn' /\ Recent(k, p)' OBVIOUS
  <2>1. /\ Reaches(k, p, t) /\ t + Longest < p + Point[k] + Lost(k, p)' + Every
    BY <1>1, <1>3, <1>9, <1>10, MishapKeeps
  <2>2. t \notin dark' \cup tears'[k] BY <2>1 DEF Explained, Reaches
  <2>3. d \in Delays BY <1>3, <2>2
  <2>4. k \notin half
    <3> SUFFICES ASSUME k \in half PROVE FALSE OBVIOUS
    <3>1. t = now BY <1>6
    <3> QED BY <2>2, <3>1 DEF Tears
  <2>5. k \notin torn' BY <1>10, <2>4 DEF Tears
  <2>6. now' < p + Point[k] + Lost(k, p)' + Every
    <3>1. Lost(k, p)' \in Nat /\ Point[k] \in Nat
      <4>1. Lost(k, p) \in Nat BY <1>1, LostIs
      <4>2. Lost(k, p)' = Lost(k, p) \/ Lost(k, p)' = Lost(k, p) + Longest
        BY <1>1, <1>3, <1>6, MishapCosts
      <4> QED BY <1>5, <4>1, <4>2, SeriesAre
    <3> QED BY <1>3, <1>5, <1>6, <2>1, <2>3, <3>1
  <2>7. 1 <= k BY SeriesAre
  <2> QED BY <1>4, <2>5, <2>6, <2>7 DEF Recent
<1>11. now <= now' BY <1>3, <1>5, <1>6
<1> QED BY <1>8, <1>9, <1>10, <1>11, NothingStored

(* A row that was recent before the request still is after it. *)
LEMMA StaysRecent ==
  ASSUME PollerType, StoredInv, PollerType', Unforgotten, next # 0, NEW d \in Delays,
         now' = now + d,
         IF d = 0 THEN UNCHANGED mishaps ELSE Mishap(now),
         IF next = Len(Series) THEN next' = 0 /\ wake' = now' + Every ELSE next' = next + 1,
         NEW k \in DOMAIN Series, k # next, NEW p \in Int, Last(k, p), Recent(k, p)
  PROVE  Explained(k, p)' \/ Recent(k, p)'
<1>1. now \in Nat /\ now' \in Nat /\ next \in 0..Len(Series) BY DEF PollerType
<1>2. d \in Nat /\ d <= Longest /\ Longest \in Nat /\ Every \in Nat BY CostIs
<1>3. Point[k] \in Nat /\ k \in 1..Len(Series) BY SeriesAre
<1>4. Len(Series) \in Nat BY RecordersAssumption DEF RecordersAssumption
<1> SUFFICES ASSUME ~Explained(k, p)' PROVE Recent(k, p)' OBVIOUS
<1>5. Lost(k, p) \in Nat /\ Lost(k, p)' \in Nat /\ Lost(k, p) + d <= Lost(k, p)'
  <2>1. Lost(k, p) \in Nat BY LostIs
  <2>2. CASE d # 0
    <3>1. Mishap(now) /\ now \in Moments BY <2>2 DEF Moments
    <3>2. Lost(k, p)' = Lost(k, p) + Longest BY <3>1, MishapKeeps
    <3> QED BY <1>2, <2>1, <3>2
  <2>3. CASE d = 0
    <3>1. Lost(k, p)' = Lost(k, p) BY <2>3 DEF Lost, Hits, Reaches, Longest
    <3> QED BY <2>1, <2>3, <3>1
  <2> QED BY <2>2, <2>3
<1> DEFINE x == Lost(k, p)
           y == Lost(k, p)'
           c == Point[k]
<1>0. x \in Nat /\ y \in Nat /\ x + d <= y /\ c \in Nat BY <1>3, <1>5
<1> HIDE DEF x, y, c
<1>6. CASE next <= k
  <2>1. now < p + c + x + Every BY <1>6 DEF Recent, x, c
  <2>2. now' < p + c + y + Every BY <1>0, <1>1, <1>2, <2>1
  <2>3. next' = next + 1 /\ next' <= k /\ next' # 0 BY <1>1, <1>3, <1>4, <1>6
  <2> QED BY <2>2, <2>3 DEF Recent, y, c
<1>7. CASE k < next
  <2>1. now < p + c + x BY <1>1, <1>3, <1>7 DEF Recent, x, c
  <2>2. now' < p + c + y BY <1>0, <1>1, <1>2, <2>1
  <2>3. CASE next = Len(Series)
    <3>1. wake' < p + c + y + Every BY <1>0, <1>1, <1>2, <2>2, <2>3
    <3> QED BY <2>3, <3>1 DEF Recent, y, c
  <2>4. CASE next # Len(Series)
    <3>1. next' # 0 /\ ~(next' <= k) BY <1>1, <1>3, <1>7, <2>4
    <3> QED BY <2>2, <3>1 DEF Recent, y, c
  <2> QED BY <2>3, <2>4
<1> QED BY <1>1, <1>3, <1>6, <1>7

(* The rows of an answer join what is stored of the series. *)
LEMMA RowsJoin ==
  ASSUME StoredInv, LastInv, GapsAreOutages, NEW k \in DOMAIN Series, now \in Nat, now' \in Nat,
         now <= now', stored[k] \in SUBSET Int, stored'[k] = stored[k] \cup Rows(k, now'),
         k \notin torn, \A p \in Int : Explained(k, p) => Explained(k, p)',
         \A p \in Int : Last(k, p) /\ Recent(k, p) =>
           Explained(k, p)' \/ now' < p + Point[k] + Span(k)
  PROVE  /\ \A p \in stored'[k] : OnPoint(k, p) /\ p <= now'
         /\ \A p \in Int : Last(k, p)' => now' < p + Point[k]
         /\ \A p \in stored'[k], q \in stored'[k] :
              p + Point[k] < q /\ p + Point[k] \notin stored'[k] => Explained(k, p)'
<1> DEFINE c == Point[k]
<1>1. /\ \A x \in Int : x \in Rows(k, now') <=> OnPoint(k, x) /\ now' - Span(k) < x /\ x <= now'
      /\ Rows(k, now') \in SUBSET Int
      /\ \E x \in Rows(k, now') : now' < x + c
  BY RowsAre
<1>2. c \in Nat \ {0} /\ Span(k) \in Nat BY SeriesAre
<1>3. \A p \in stored'[k] : p \in Int /\ OnPoint(k, p) /\ p <= now'
  BY <1>1 DEF StoredInv
<1> HIDE DEF c
<1>4. ASSUME NEW p \in Int, Last(k, p)' PROVE now' < p + c
  <2>1. PICK x \in Rows(k, now') : now' < x + c BY <1>1
  <2>2. x <= p /\ x \in Int BY <1>1, <1>4, <2>1 DEF Last
  <2> QED BY <1>2, <2>1, <2>2
<1>5. ASSUME NEW p \in stored'[k], NEW q \in stored'[k], p + c < q, p + c \notin stored'[k]
      PROVE  Explained(k, p)'
  <2>1. p \in Int /\ q \in Int /\ OnPoint(k, p) /\ OnPoint(k, q) /\ q <= now' BY <1>3
  <2>2. OnPoint(k, p + c) /\ p + c \in Int /\ p + c <= now'
    BY <1>2, <1>5, <2>1, NextRow DEF c
  <2>3. ~(now' - Span(k) < p + c) BY <1>1, <1>5, <2>2
  <2>4. p \in stored[k]
    <3> SUFFICES ASSUME p \in Rows(k, now') PROVE FALSE OBVIOUS
    <3>1. now' - Span(k) < p BY <1>1, <2>1
    <3> QED BY <1>2, <2>1, <2>3, <3>1
  <2>5. CASE \E r \in stored[k] : p < r
    <3>1. PICK r \in stored[k] : p < r BY <2>5
    <3>2. r \in Int /\ OnPoint(k, r) /\ r # p + c BY <1>5, <3>1 DEF StoredInv
    <3>3. p + c <= r BY <2>1, <3>1, <3>2, NextRow DEF c
    <3>4. p + c < r BY <1>2, <2>1, <3>2, <3>3
    <3>5. p + c \notin stored[k] BY <1>5
    <3> QED BY <2>1, <2>4, <3>1, <3>4, <3>5 DEF GapsAreOutages, c
  <2>6. CASE ~\E r \in stored[k] : p < r
    <3>1. Last(k, p) BY <2>1, <2>4, <2>6 DEF Last
    <3>2. ~(now' < p + c + Span(k)) BY <1>2, <2>1, <2>3
    <3> QED BY <2>1, <3>1, <3>2 DEF LastInv, c
  <2> QED BY <2>5, <2>6
<1> QED BY <1>3, <1>4, <1>5 DEF c

(* A request is answered. *)
LEMMA PollsKeeps ==
  ASSUME PollerInv, Polls
  PROVE  PollerInv'
<1> DEFINE n == next
<1>1. PollerType /\ StoredInv /\ LastInv /\ GapsAreOutages BY DEF PollerInv
<1>2. PICK d \in Delays :
        /\ IF d = 0 THEN UNCHANGED <<mishaps, faults>> ELSE Mishap(now)
        /\ now' = now + d
        /\ stored' = IF next \in torn THEN stored
                     ELSE [stored EXCEPT ![next] = @ \cup Rows(next, now')]
  BY DEF Polls
<1>3. /\ next # 0 /\ UNCHANGED <<torn, dark, tears>>
      /\ IF next = Len(Series) THEN next' = 0 /\ wake' = now' + Every
                               ELSE next' = next + 1 /\ UNCHANGED wake
  BY DEF Polls, Awake
<1>4. /\ now \in Nat /\ d \in Nat /\ d <= Longest /\ Longest \in Nat /\ Every \in Nat
      /\ now' \in Nat /\ now <= now' /\ wake \in Nat
      /\ stored \in [DOMAIN Series -> SUBSET Int]
  <2>1. /\ now \in Nat /\ wake \in Nat /\ stored \in [DOMAIN Series -> SUBSET Int]
    BY <1>1 DEF PollerType
  <2>2. d \in Nat /\ d <= Longest /\ Longest \in Nat /\ Every \in Nat BY CostIs
  <2> QED BY <1>2, <2>1, <2>2
<1>5. next \in DOMAIN Series /\ next \in 1..Len(Series) /\ Len(Series) \in Nat
  BY <1>1, <1>3, RecordersAssumption DEF PollerType, RecordersAssumption
<1>6. Unforgotten BY <1>2, <1>3, <1>4 DEF Unforgotten
<1>7. PollerType'
  <2>1. /\ wake' \in Nat /\ next' \in 0..Len(Series) /\ (next' = 0 => now' <= wake')
    BY <1>3, <1>4, <1>5
  <2>2. stored' \in [DOMAIN Series -> SUBSET Int]
    <3>1. Rows(next, now') \in SUBSET Int BY <1>4, <1>5, RowsAre
    <3> QED BY <1>2, <1>4, <1>5, <3>1
  <2>3. mishaps' \in Seq(Nat)
    <3>1. mishaps \in Seq(Nat) BY <1>1 DEF PollerType
    <3>2. mishaps' = mishaps \/ mishaps' = Append(mishaps, now) BY <1>2 DEF Mishap
    <3> QED BY <1>4, <3>1, <3>2
  <2>4. dark' \in SUBSET Nat /\ tears' \in [DOMAIN Series -> SUBSET Nat]
    BY <1>1, <1>3 DEF PollerType
  <2> QED BY <1>4, <2>1, <2>2, <2>3, <2>4 DEF PollerType
<1>8. \A k \in DOMAIN Series : \A p \in Int : Explained(k, p) => Explained(k, p)'
  BY <1>1, <1>6, ExplainedStays
(* The series that were not asked for. *)
<1>9. ASSUME NEW k \in DOMAIN Series, stored'[k] = stored[k], k # next \/ k \in torn
      PROVE  /\ \A p \in stored'[k] : OnPoint(k, p) /\ p <= now'
             /\ \A p \in Int : Last(k, p)' =>
                  Explained(k, p)' \/ (k \notin torn' /\ Recent(k, p)')
             /\ \A p \in stored'[k], q \in stored'[k] :
                  p + Point[k] < q /\ p + Point[k] \notin stored'[k] => Explained(k, p)'
  <2>1. \A p \in stored'[k] : OnPoint(k, p) /\ p <= now'
    <3> SUFFICES ASSUME NEW p \in stored[k] PROVE OnPoint(k, p) /\ p <= now' BY <1>9
    <3>1. OnPoint(k, p) /\ p <= now /\ p \in Int BY <1>1, <1>4 DEF StoredInv
    <3> QED BY <1>4, <3>1
  <2>2. ASSUME NEW p \in Int, Last(k, p)'
        PROVE  Explained(k, p)' \/ (k \notin torn' /\ Recent(k, p)')
    <3>1. Last(k, p) BY <1>9, <2>2 DEF Last
    <3>2. Explained(k, p) \/ (k \notin torn /\ Recent(k, p)) BY <1>1, <3>1 DEF LastInv
    <3>3. ASSUME k \notin torn, Recent(k, p) PROVE Explained(k, p)' \/ Recent(k, p)'
      <4>1. k # next BY <1>9, <3>3
      <4>2. IF d = 0 THEN UNCHANGED mishaps ELSE Mishap(now) BY <1>2
      <4>3. IF next = Len(Series) THEN next' = 0 /\ wake' = now' + Every ELSE next' = next + 1
        BY <1>3
      <4> QED BY <1>1, <1>2, <1>3, <1>6, <1>7, <3>1, <3>3, <4>1, <4>2, <4>3, StaysRecent
    <3> QED BY <1>3, <1>8, <3>2, <3>3
  <2>3. \A p \in stored[k], q \in stored[k] :
           p + Point[k] < q /\ p + Point[k] \notin stored[k] => Explained(k, p) /\ p \in Int
    BY <1>1, <1>4 DEF GapsAreOutages
  <2> QED BY <1>8, <1>9, <2>1, <2>2, <2>3
(* The one that was. *)
<1>10. ASSUME NEW k \in DOMAIN Series, k = next, k \notin torn
      PROVE  /\ \A p \in stored'[k] : OnPoint(k, p) /\ p <= now'
             /\ \A p \in Int : Last(k, p)' =>
                  Explained(k, p)' \/ (k \notin torn' /\ Recent(k, p)')
             /\ \A p \in stored'[k], q \in stored'[k] :
                  p + Point[k] < q /\ p + Point[k] \notin stored'[k] => Explained(k, p)'
  <2>1. stored'[k] = stored[k] \cup Rows(k, now') /\ stored[k] \in SUBSET Int
    BY <1>2, <1>4, <1>10
  <2>2. Point[k] \in Nat \ {0} /\ Span(k) \in Nat BY SeriesAre
  <2>3. ASSUME NEW p \in Int, Last(k, p), Recent(k, p)
        PROVE  Explained(k, p)' \/ now' < p + Point[k] + Span(k)
    <3>1. now \in Moments BY <1>3 DEF Moments
    <3>2. CASE d = 0
      <4>1. Reaches(k, p, now) \/ Explained(k, p) BY <1>1, <2>3, <3>1, InTime
      <4> QED BY <1>2, <1>4, <1>8, <3>2, <4>1 DEF Reaches, Span
    <3>3. CASE d # 0
      <4>1. Mishap(now) BY <1>2, <3>3
      <4> SUFFICES ASSUME ~Explained(k, p)' PROVE now' < p + Point[k] + Span(k) OBVIOUS
      <4>2. /\ Lost(k, p)' = Lost(k, p) + Longest
            /\ now + Longest < p + Point[k] + Lost(k, p)' + Every
        BY <1>1, <1>6, <2>3, <3>1, <4>1, MishapKeeps
      <4>3. ~(Every + Lost(k, p)' > Span(k)) BY DEF Explained, Lost, Longest, Span
      <4>4. Lost(k, p) \in Nat BY <1>1, LostIs
      <4> DEFINE y == Lost(k, p)'
      <4>5. y \in Nat /\ now + Longest < p + Point[k] + y + Every /\ ~(Every + y > Span(k))
        BY <1>4, <4>2, <4>3, <4>4
      <4> HIDE DEF y
      <4> QED BY <1>2, <1>4, <2>2, <4>5
    <3> QED BY <3>2, <3>3
  <2>4. /\ \A p \in stored'[k] : OnPoint(k, p) /\ p <= now'
        /\ \A p \in Int : Last(k, p)' => now' < p + Point[k]
        /\ \A p \in stored'[k], q \in stored'[k] :
             p + Point[k] < q /\ p + Point[k] \notin stored'[k] => Explained(k, p)'
    BY <1>1, <1>4, <1>8, <1>10, <2>1, <2>3, RowsJoin
  <2>5. ASSUME NEW p \in Int, Last(k, p)' PROVE k \notin torn' /\ Recent(k, p)'
    <3> DEFINE y == Lost(k, p)'
    <3>1. now' < p + Point[k] BY <2>4, <2>5
    <3>2. y \in Nat
      <4>1. Lost(k, p) \in Nat BY <1>1, LostIs
      <4>2. CASE d = 0
        <5>1. Lost(k, p)' = Lost(k, p) BY <1>2, <4>2 DEF Lost, Hits, Reaches, Longest
        <5> QED BY <4>1, <5>1
      <4>3. CASE d # 0
        <5>1. Lost(k, p)' = Lost(k, p) \/ Lost(k, p)' = Lost(k, p) + Longest
          BY <1>1, <1>2, <1>4, <4>3, MishapCosts
        <5> QED BY <1>4, <4>1, <5>1
      <4> QED BY <4>2, <4>3
    <3> HIDE DEF y
    <3>3. CASE next = Len(Series)
      <4>1. wake' = now' + Every BY <1>3, <3>3
      <4>2. wake' < p + Point[k] + y + Every BY <1>4, <2>2, <3>1, <3>2, <4>1
      <4> QED BY <1>3, <1>10, <3>3, <4>2 DEF Recent, y
    <3>4. CASE next # Len(Series)
      <4>1. next' # 0 /\ ~(next' <= k) BY <1>3, <1>5, <1>10, <3>4
      <4>2. now' < p + Point[k] + y BY <1>4, <2>2, <3>1, <3>2
      <4> QED BY <1>3, <1>10, <4>1, <4>2 DEF Recent, y
    <3> QED BY <3>3, <3>4
  <2> QED BY <2>4, <2>5
<1>11. \A k \in DOMAIN Series :
          (stored'[k] = stored[k] /\ (k # next \/ k \in torn)) \/ (k = next /\ k \notin torn)
  BY <1>2, <1>4
<1>12. StoredInv' BY <1>9, <1>10, <1>11 DEF StoredInv, OnPoint
<1>13. LastInv' BY <1>9, <1>10, <1>11 DEF LastInv
<1>14. GapsAreOutages'
  <2> SUFFICES ASSUME NEW k \in DOMAIN Series, NEW p \in stored'[k], NEW q \in stored'[k],
                      p + Point[k] < q, p + Point[k] \notin stored'[k]
               PROVE  Explained(k, p)'
    BY DEF GapsAreOutages
  <2> QED BY <1>9, <1>10, <1>11
<1> QED BY <1>7, <1>12, <1>13, <1>14 DEF PollerInv

(* The invariant under every step. *)
LEMMA PollerSteps ==
  ASSUME PollerInv, [Next]_vars
  PROVE  PollerInv'
<1>1. CASE Polls BY <1>1, PollsKeeps
<1>2. CASE PollFails
  <2>1. PICK cause \in {"circuit", "error"} : GivesUp(cause) BY <1>2 DEF PollFails
  <2>2. Tears({})
    <3>1. tears = [k \in DOMAIN Series |-> tears[k]] BY DEF PollerInv, PollerType
    <3> QED BY <1>2, <3>1 DEF PollFails, Tears
  <2> QED BY <2>1, <2>2, GivesUpKeeps
<1>3. CASE AppendRaises
  <2>1. GivesUp("error") /\ Tears({next}) /\ next # 0 BY <1>3 DEF AppendRaises, GivesUp, Awake
  <2> QED BY <2>1, GivesUpKeeps
<1>4. CASE Wakes BY <1>4, WakesKeeps
<1>5. CASE MonthEnds BY <1>5, ElsewhereKeeps DEF MonthEnds
<1>6. CASE Stops
  <2>1. Fresh /\ UNCHANGED <<stored, torn, tears>> BY <1>6 DEF Stops
  <2>2. Tears({})
    <3>1. tears = [k \in DOMAIN Series |-> tears[k]] BY DEF PollerInv, PollerType
    <3> QED BY <2>1, <3>1 DEF Tears
  <2> QED BY <2>1, <2>2, RestartKeeps
<1>7. CASE Killed BY <1>7, RestartKeeps DEF Killed
<1>8. CASE Midnight BY <1>8, ElsewhereKeeps DEF Midnight, poller
<1>9. ASSUME NEW s \in Sources, Recorder(s) PROVE PollerInv'
  <2>1. UNCHANGED <<now, next, wake, stored, mishaps, dark, tears>> /\ torn' = torn
    BY <1>9 DEF Recorder, Connects, Loses, Writes, CloseRaises, OpenRaises, NoHandle,
                WriteRaises, poller
  <2> QED BY <2>1, ElsewhereKeeps
<1>10. CASE UNCHANGED vars BY <1>10, ElsewhereKeeps DEF vars, poller
<1> QED BY <1>1, <1>2, <1>3, <1>4, <1>5, <1>6, <1>7, <1>8, <1>9, <1>10 DEF Next

(* What the poller keeps is always what binance_derivs.py may keep. *)
THEOREM PollerInvariant == Spec => []PollerInv
<1>1. Init => PollerInv
  <2> SUFFICES ASSUME Init PROVE PollerInv OBVIOUS
  <2>1. PollerType
    BY CostIs, RecordersAssumption DEF Init, PollerType, RecordersAssumption
  <2>2. StoredInv /\ GapsAreOutages BY DEF Init, StoredInv, GapsAreOutages
  <2>3. LastInv BY DEF Init, LastInv, Last
  <2> QED BY <2>1, <2>2, <2>3 DEF PollerInv
<1>2. PollerInv /\ [Next]_vars => PollerInv' BY PollerSteps
<1> QED BY <1>1, <1>2, PTL DEF Spec

(* A row is missing only where the circuit opened, the machine was off or  *)
(* the file was torn, or where slow answers, errors and restarts filled    *)
(* the overlap of the polls (binance_derivs.py:87-123), however many there *)
(* were before and after.                                                  *)
THEOREM OnlyOutagesCostRows == Spec => []GapsAreOutages
<1>1. PollerInv => GapsAreOutages BY DEF PollerInv
<1> QED BY <1>1, PollerInvariant, PTL

=============================================================================
