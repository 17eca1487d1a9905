------------------------------ MODULE Recorders ------------------------------
(***************************************************************************)
(* The shadow recorders, `python -m wavelab.collect': for each source a    *)
(* LiquidationRecorder (feeds/liquidations.py), which appends what its     *)
(* WebSocket brings to one file a day, and the DerivativesPoller           *)
(* (feeds/binance_derivs.py), which asks the exchange every five minutes   *)
(* for the latest rows of a few series.  systemd restarts the process.     *)
(*                                                                         *)
(* The clock counts minutes and belongs to the poller.  The pause before a *)
(* recorder reconnects, of at most a minute, is not timed.  Lines are      *)
(* numbered; the rows of a series are the times they are about.            *)
(***************************************************************************)
EXTENDS Integers, Sequences, FiniteSetsExt

CONSTANTS Sources,     \* SOURCES: okx, bybit
          Days,        \* bound: the days, from 1
          MaxLines,    \* bound: lines each source sends
          Series,      \* what the poller asks for, in its order
          Point, Limit, \* minutes between the rows of a series; rows asked for
          Every,       \* every_s: 5 minutes
          ErrorPause,  \* 1 minute
          CircuitPause, \* 60 minutes
          Delays,      \* minutes a request takes, its retries and the governor's
                       \* brake included, or a restart
          Outages,     \* minutes the machine may be off
          MaxNow,      \* bound: the clock
          MaxFaults    \* bound: slow or failed requests, failed opens and writes, restarts

ASSUME RecordersAssumption ==
  /\ Days \in Nat \ {0} /\ {MaxLines, Every, MaxNow, MaxFaults} \subseteq Nat
  /\ Point \in [DOMAIN Series -> Nat \ {0}] /\ Limit \in [DOMAIN Series -> Nat \ {0}]
  /\ Delays \subseteq Nat /\ 0 \in Delays /\ Outages \subseteq Nat
  /\ \E d \in Delays : \A e \in Delays : e <= d
  /\ {ErrorPause, CircuitPause} \subseteq Nat
  /\ Series \in Seq(STRING) /\ Series # <<>>

VARIABLES today,   \* the UTC date
          up,      \* the sources connected
          day, fh, \* for each source _day (0: None) and the state of _fh
          buffer,  \* lines written to the handle and not yet to the disk
          lines,   \* the lines in the file of each day
          came,    \* history: for each source the day each line came, in order
          spoilt,  \* history: lines whose own write, or the close after it, failed
          stuck,   \* history: days on which opening the file failed
          now,     \* the poller's clock
          next,    \* the series it asks for next; 0: asleep
          wake,    \* when it wakes up
          stored,  \* for each series the rows that can be read back
          torn,    \* the series whose file of the month ends in half a gzip member
          mishaps, \* history: when a request was slow or a poll failed, or the
                   \* process was restarted, in order
          dark,    \* history: when a 418 opened the circuit or the machine went off
          tears,   \* history: for each series when its file was torn
          faults   \* faults so far

recorder == <<today, up, day, fh, buffer, lines, came, spoilt, stuck>>
poller == <<now, next, wake, stored, torn, mishaps, dark, tears>>
vars == <<recorder, poller, faults>>

Fault == faults < MaxFaults /\ faults' = faults + 1

Init ==
  /\ today = 1 /\ up = {}
  /\ day = [s \in Sources |-> 0] /\ fh = [s \in Sources |-> "none"]
  /\ buffer = [s \in Sources |-> {}]
  /\ lines = [s \in Sources |-> [d \in 1..Days |-> {}]]
  /\ came = [s \in Sources |-> <<>>] /\ spoilt = [s \in Sources |-> {}]
  /\ stuck = [s \in Sources |-> {}]
  /\ now = 0 /\ next = 1 /\ wake = 0
  /\ stored = [k \in DOMAIN Series |-> {}] /\ torn = {}
  /\ mishaps = <<>> /\ dark = {}
  /\ tears = [k \in DOMAIN Series |-> {}]
  /\ faults = 0

-----------------------------------------------------------------------------
(***************************************************************************)
(* LiquidationRecorder.run, _file.                                         *)
(***************************************************************************)
Midnight ==
  /\ today < Days /\ today' = today + 1
  /\ UNCHANGED <<up, day, fh, buffer, lines, came, spoilt, stuck, poller, faults>>

(* The subscription is sent and attempt goes back to 0. *)
Connects(s) ==
  /\ s \notin up /\ up' = up \cup {s}
  /\ UNCHANGED <<today, day, fh, buffer, lines, came, spoilt, stuck, poller, faults>>

(* The connection is lost, or brings nothing for an hour. *)
Loses(s) ==
  /\ s \in up /\ Fault
  /\ up' = up \ {s}
  /\ UNCHANGED <<today, day, fh, buffer, lines, came, spoilt, stuck, poller>>

(* Mutant: the file is opened once. *)
RotatesOnce(s) == day[s] = 0

(* _file: a new date closes the file of the last one and opens its own. *)
Rotates(s) == today # day[s]

Line(s) == Len(came[s]) + 1
Comes(s) ==
  /\ s \in up /\ Line(s) <= MaxLines
  /\ came' = [came EXCEPT ![s] = Append(@, today)]

(* Closing writes what is left in the buffer. *)
Closed(s) ==
  IF fh[s] = "open" THEN [lines EXCEPT ![s][day[s]] = @ \cup buffer[s]] ELSE lines

(* The line goes to the file of the day, with what an earlier failed write
   left in the buffer. *)
Writes(s) ==
  /\ Comes(s)
  /\ IF Rotates(s)
     THEN /\ day' = [day EXCEPT ![s] = today] /\ fh' = [fh EXCEPT ![s] = "open"]
          /\ lines' = [Closed(s) EXCEPT ![s][today] = @ \cup {Line(s)}]
     ELSE /\ fh[s] = "open"
          /\ lines' = [lines EXCEPT ![s][day[s]] = @ \cup buffer[s] \cup {Line(s)}]
          /\ UNCHANGED <<day, fh>>
  /\ buffer' = [buffer EXCEPT ![s] = {}]
  /\ UNCHANGED <<today, up, spoilt, stuck, poller, faults>>

(* Closing the file of the last day raises: _day keeps its date, and the
   buffer is gone with the handle. *)
CloseRaises(s) ==
  /\ Comes(s) /\ Rotates(s) /\ fh[s] = "open" /\ buffer[s] # {} /\ Fault
  /\ fh' = [fh EXCEPT ![s] = "closed"] /\ buffer' = [buffer EXCEPT ![s] = {}]
  /\ spoilt' = [spoilt EXCEPT ![s] = @ \cup buffer[s] \cup {Line(s)}]
  /\ up' = up \ {s}
  /\ UNCHANGED <<today, day, lines, stuck, poller>>

(* Opening the file of the day raises, with _day already set: the handle is
   the closed one, or none, until the date changes. *)
OpenRaises(s) ==
  /\ Comes(s) /\ Rotates(s) /\ Fault
  /\ day' = [day EXCEPT ![s] = today]
  /\ fh' = [fh EXCEPT ![s] = IF @ = "none" THEN "none" ELSE "closed"]
  /\ lines' = Closed(s) /\ buffer' = [buffer EXCEPT ![s] = {}]
  /\ stuck' = [stuck EXCEPT ![s] = @ \cup {today}]
  /\ up' = up \ {s}
  /\ UNCHANGED <<today, spoilt, poller>>

(* Writing to it raises, once for every line that comes. *)
NoHandle(s) ==
  /\ Comes(s) /\ ~Rotates(s) /\ fh[s] # "open"
  /\ up' = up \ {s}
  /\ UNCHANGED <<today, day, fh, buffer, lines, spoilt, stuck, poller, faults>>

(* write() or flush() raises: the disk is full.  The line stays in the
   buffer. *)
WriteRaises(s) ==
  /\ Comes(s) /\ ~Rotates(s) /\ fh[s] = "open" /\ Fault
  /\ buffer' = [buffer EXCEPT ![s] = @ \cup {Line(s)}]
  /\ spoilt' = [spoilt EXCEPT ![s] = @ \cup {Line(s)}]
  /\ up' = up \ {s}
  /\ UNCHANGED <<today, day, fh, lines, stuck, poller>>

Recorder(s) ==
  \/ Connects(s) \/ Loses(s) \/ Writes(s)
  \/ CloseRaises(s) \/ OpenRaises(s) \/ NoHandle(s) \/ WriteRaises(s)

-----------------------------------------------------------------------------
(***************************************************************************)
(* DerivativesPoller.run, _append.                                         *)
(***************************************************************************)
Awake == next # 0 /\ now <= MaxNow

(* The last rows of a series at a time. *)
Rows(k, t) == {p \in {Point[k] * i : i \in -Limit[k]..(t \div Point[k])} :
                  p > t - Limit[k] * Point[k]}

(* Something goes wrong at the time t. *)
Mishap(t) == Fault /\ mishaps' = Append(mishaps, t)

(* A request is answered and its rows are appended, before the next one is
   made; a pause follows the last.  What is appended after half a member
   cannot be read. *)
Polls ==
  /\ Awake
  /\ \E d \in Delays :
       /\ IF d = 0 THEN UNCHANGED <<mishaps, faults>> ELSE Mishap(now)
       /\ now' = now + d
       /\ stored' = IF next \in torn THEN stored
                    ELSE [stored EXCEPT ![next] = @ \cup Rows(next, now')]
  /\ IF next = Len(Series) THEN next' = 0 /\ wake' = now' + Every
                           ELSE next' = next + 1 /\ UNCHANGED wake
  /\ UNCHANGED <<recorder, torn, dark, tears>>

(* Mutant: whatever went wrong, an hour. *)
PauseLong(cause) == CircuitPause

(* How long each of the two handlers waits. *)
Pause(cause) == IF cause = "circuit" THEN CircuitPause ELSE ErrorPause

(* Either handler leaves out the rest of the poll. *)
GivesUp(cause) ==
  /\ Awake /\ Mishap(now)
  /\ \E d \in Delays : now' = now + d /\ wake' = now' + Pause(cause) + Every
  /\ dark' = IF cause = "circuit" THEN dark \cup {now} ELSE dark
  /\ next' = 0
  /\ UNCHANGED <<recorder, stored>>

(* RateLimitCircuitOpen, or an exception before anything is written. *)
PollFails ==
  /\ GivesUp("circuit") \/ GivesUp("error")
  /\ UNCHANGED <<torn, tears>>

(* The file of the series of `half', if any, now ends in half a member. *)
Tears(half) ==
  /\ torn' = torn \cup half
  /\ tears' = [k \in DOMAIN Series |-> IF k \in half THEN tears[k] \cup {now} ELSE tears[k]]

(* _append raises, the disk being full: half a member may have reached it. *)
AppendRaises ==
  /\ GivesUp("error")
  /\ Tears({next})

Wakes ==
  /\ next = 0
  /\ now' = wake /\ next' = 1
  /\ UNCHANGED <<recorder, wake, stored, torn, mishaps, dark, tears, faults>>

(* The file of the next month is another one. *)
MonthEnds ==
  /\ torn # {} /\ torn' = {}
  /\ UNCHANGED <<recorder, now, next, wake, stored, mishaps, dark, tears, faults>>

-----------------------------------------------------------------------------
(***************************************************************************)
(* collect.main.                                                           *)
(***************************************************************************)
(* When the process may go: asleep it does so any time before it wakes. *)
Moments == IF next = 0 THEN now..wake ELSE {now}

(* A new process, after a moment or after the machine was off. *)
Fresh ==
  /\ day' = [s \in Sources |-> 0] /\ fh' = [s \in Sources |-> "none"]
  /\ up' = {} /\ buffer' = [s \in Sources |-> {}]
  /\ next' = 1 /\ wake' = 0
  /\ \E t \in Moments : \E d \in Delays \cup Outages :
       /\ now' = t + d /\ Mishap(t)
       /\ dark' = IF d \in Delays THEN dark ELSE dark \cup {t}

(* SIGTERM: every task is cancelled where it awaits, so none is inside a
   write; the interpreter closes the files on its way out, and systemd
   starts the process again. *)
Stops ==
  /\ Fresh
  /\ lines' = [s \in Sources |-> Closed(s)[s]]
  /\ UNCHANGED <<today, came, spoilt, stuck, stored, torn, tears>>

(* It is killed: out of memory, or a reboot; perhaps inside _append. *)
Killed ==
  /\ Fresh
  /\ \E half \in SUBSET ({next} \ {0}) : Tears(half)
  /\ UNCHANGED <<today, lines, came, spoilt, stuck, stored>>

Next ==
  \/ Midnight
  \/ \E s \in Sources : Recorder(s)
  \/ Polls \/ PollFails \/ AppendRaises \/ Wakes \/ MonthEnds
  \/ Stops \/ Killed

Spec == Init /\ [][Next]_vars

-----------------------------------------------------------------------------
(***************************************************************************)
(* Properties.                                                             *)
(***************************************************************************)
(* "Append-only: this is NEVER deleted or rewritten" (liquidations.py:61).
   Whatever reconnections, midnights and restarts come between, a line that
   arrived is in the file of the day it arrived, unless its own write failed
   or the file of that day could not be opened. *)
EveryLineHasItsDay ==
  \A s \in Sources : \A n \in DOMAIN came[s] :
    \/ n \in lines[s][came[s][n]]
    \/ n \in spoilt[s]
    \/ came[s][n] \in stuck[s]

(* t falls between the row p of k and the last answer that could bring the
   next one. *)
Reaches(k, p, t) == p <= t /\ t < p + Point[k] + Limit[k] * Point[k]

(* What one mishap costs at most: a request, the pause after it, and that
   of the poll. *)
Longest == Max(Delays) + ErrorPause + Every

(* The mishaps in that time. *)
Hits(k, p) == {i \in DOMAIN mishaps : Reaches(k, p, mishaps[i])}

(* Why the row after p may be missing. *)
Explained(k, p) ==
  \/ \E t \in dark \cup tears[k] : Reaches(k, p, t)
  \/ Every + Longest * Cardinality(Hits(k, p)) > Limit[k] * Point[k]

(* Consecutive polls overlap (12 rows of five minutes, every five minutes).
   A row that is missing between two that are stored could have been asked
   for until its place in the answer was another's.  In that time the
   circuit opened, whose pause is as long as the overlap, or the machine
   went off, or the file was torn; or so many requests were slow or failed,
   or the process was restarted so often, that this fills the overlap. *)
GapsAreOutages ==
  \A k \in DOMAIN Series : \A p \in stored[k], q \in stored[k] :
    p + Point[k] < q /\ p + Point[k] \notin stored[k] => Explained(k, p)

=============================================================================
