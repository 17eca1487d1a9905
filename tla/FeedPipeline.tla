---------------------------- MODULE FeedPipeline ----------------------------
(***************************************************************************)
(* How 1m bars reach the engine and the disk: Binance's kline stream, the  *)
(* reconnecting reader (binance_ws.py), KlineFeed.stream with its healing  *)
(* over REST (binance_klines.py, binance_rest.py), App.run_feed, _flush    *)
(* and supervise_feed (server/app.py), and the deaths and restarts of the  *)
(* process.                                                                *)
(*                                                                         *)
(* Time is counted in minutes: cur is the one being traded.  A bar is a    *)
(* minute, the `closed' flag the code looks at, and `final', which only    *)
(* the exchange knows: FALSE if the values were read while the minute was  *)
(* still trading.  Prices are abstracted to that bit.                      *)
(*                                                                         *)
(* One event loop runs the server, so a step is what happens between two   *)
(* awaits: a bar leaves the feed, enters the engine and the pending list   *)
(* and is flushed in one step; a cancellation can only come between steps. *)
(***************************************************************************)
EXTENDS Integers, Sequences, FiniteSetsExt, SequencesExt

CONSTANTS FlushAt,    \* pending bars that start a flush: 5
          MaxSilence, \* minutes without a message that make the feed mute: 5
          MaxMinute,  \* bound: the last minute of the model
          QueueBound, \* bound: messages received and not yet read
          MaxFaults   \* bound: failures of network, exchange, disk and process

ASSUME FeedAssumption ==
  /\ {FlushAt, MaxMinute} \subseteq Nat \ {0}
  /\ {MaxSilence, QueueBound, MaxFaults} \subseteq Nat

VARIABLES cur,         \* the minute being traded
          wsUp,        \* the WebSocket is open
          queue,       \* messages received on it and not yet read
          ban,         \* the exchange's view of our address
          faults,      \* failures so far
          feedPc,      \* where the feed task stands
          healPending, \* the event `heal_pending'
          healEnd,     \* end of the heal in flight
          feedLast,    \* KlineFeed.last_closed_ms
          lastMsg,     \* KlineFeed.last_msg_ms
          todo,        \* bars the generator still has to yield
          seen,        \* bars the engine's 1m ring has taken
          pending,     \* App._pending
          store        \* the Parquet store

exchange == <<cur, wsUp, queue, ban>>
feed == <<feedPc, healPending, healEnd, feedLast, lastMsg, todo>>
bars == <<seen, pending, store>>
vars == <<exchange, faults, feed, bars>>

None == -1

(* Mutant: _to_bar does not look at the flag x of the kline. *)
BarAlwaysClosed(m, closed, final) == [m |-> m, closed |-> TRUE, final |-> final]

(* _to_bar, and the constructor in fetch_klines. *)
Bar(m, closed, final) == [m |-> m, closed |-> closed, final |-> final]

(* off: no process; dead: no feed task, the supervisor sleeps; reading: the
   generator runs or waits for a message; healing: awaits the REST answer. *)
Stage == {"off", "dead", "reading", "healing"}

Alive == feedPc \in {"reading", "healing"}

(* A record of minutes: each with whether its values are final. *)
LastOf(rec) == IF DOMAIN rec = {} THEN None ELSE Max(DOMAIN rec)

(* The anti-join of BarStore.ingest: what is there stays, the first of two
   equal minutes wins. *)
Merge(rec, q) ==
  [m \in DOMAIN rec \cup {b.m : b \in ToSet(q)} |->
     IF m \in DOMAIN rec THEN rec[m]
     ELSE q[Min({k \in DOMAIN q : q[k].m = m})].final]

Fault == faults < MaxFaults /\ faults' = faults + 1

-----------------------------------------------------------------------------
(***************************************************************************)
(* The exchange and the network.                                           *)
(***************************************************************************)
Room == Len(queue) < QueueBound

Pushed(b) == IF wsUp THEN Append(queue, b) ELSE queue

(* The minute ends; its closed kline goes out to whoever is connected. *)
MinuteCloses ==
  /\ cur < MaxMinute /\ (wsUp => Room)
  /\ queue' = Pushed(Bar(cur, TRUE, TRUE))
  /\ cur' = cur + 1
  /\ UNCHANGED <<wsUp, ban, faults, feed, bars>>

(* An update of the forming kline. *)
Tick ==
  /\ wsUp /\ Room
  /\ queue' = Pushed(Bar(cur, FALSE, FALSE))
  /\ UNCHANGED <<cur, wsUp, ban, faults, feed, bars>>

(* The connection is lost, or rotated after 23 h 30: any number of messages
   that were in flight are lost with it. *)
Drop ==
  /\ wsUp /\ Fault
  /\ wsUp' = FALSE
  /\ \E k \in 0..Len(queue) : queue' = SubSeq(queue, 1, k)
  /\ UNCHANGED <<cur, ban, feed, bars>>

(* The exchange bans the address; it answers 418 from now on. *)
Ban ==
  /\ ban = "none" /\ Fault
  /\ ban' = "banned"
  /\ UNCHANGED <<cur, wsUp, queue, feed, bars>>

BanLifts ==
  /\ ban # "none"
  /\ ban' = "none"
  /\ UNCHANGED <<cur, wsUp, queue, faults, feed, bars>>

-----------------------------------------------------------------------------
(***************************************************************************)
(* The feed task.                                                          *)
(***************************************************************************)
(* Mutant: only the first connection heals. *)
ConnectUnhealed ==
  /\ feedPc = "reading" /\ todo = << >> /\ ~wsUp /\ queue = << >>
  /\ wsUp' = TRUE
  /\ UNCHANGED <<cur, queue, ban, faults, feed, bars>>

(* stream_json is back from its backoff; on_connect asks for a heal. *)
Connect ==
  /\ feedPc = "reading" /\ todo = << >> /\ ~wsUp /\ queue = << >>
  /\ wsUp' = TRUE
  /\ healPending' = TRUE
  /\ UNCHANGED <<cur, queue, ban, faults, feedPc, healEnd, feedLast, lastMsg,
                 todo, bars>>

(* The next message.  If a heal is due and there is something to heal from,
   the message waits behind it. *)
Recv ==
  /\ feedPc = "reading" /\ todo = << >> /\ queue # << >>
  /\ queue' = Tail(queue)
  /\ todo' = <<Head(queue)>>
  /\ lastMsg' = cur
  /\ healPending' = FALSE
  /\ IF healPending /\ feedLast # None
     THEN feedPc' = "healing" /\ healEnd' = cur
     ELSE UNCHANGED <<feedPc, healEnd>>
  /\ UNCHANGED <<cur, wsUp, ban, faults, feedLast, bars>>

(* The klines the exchange answers with, feedLast - 1 .. hi, of which the feed
   keeps those after feedLast.  fetch_klines marks all of them closed, and the
   last one may still be trading. *)
Healed(hi) == [k \in 1..(hi - feedLast) |-> Bar(feedLast + k, TRUE, feedLast + k < cur)]

HealAnswer ==
  /\ feedPc = "healing" /\ ban = "none"
  /\ feedPc' = "reading"
  /\ healEnd' = None
  /\ \E hi \in {healEnd - 1, healEnd} : todo' = Healed(hi) \o todo
  /\ UNCHANGED <<exchange, faults, healPending, feedLast, lastMsg, bars>>

(* Mutant: the request outlives its task. *)
TaskGoneLeavesHeal ==
  /\ wsUp' = FALSE /\ queue' = << >>
  /\ todo' = << >> /\ healPending' = FALSE
  /\ feedLast' = None /\ lastMsg' = None
  /\ UNCHANGED healEnd

(* A task that is gone takes its generator and its connection with it.  What
   it left in the KlineFeed is overwritten before anyone reads it. *)
TaskGone ==
  /\ wsUp' = FALSE /\ queue' = << >>
  /\ todo' = << >> /\ healEnd' = None /\ healPending' = FALSE
  /\ feedLast' = None /\ lastMsg' = None

Ends == feedPc' = "dead" /\ TaskGone

(* Mutant: a heal that fails is logged, and the message goes on. *)
HealFailsQuietly ==
  /\ feedPc = "healing" /\ Fault
  /\ feedPc' = "reading" /\ healEnd' = None
  /\ UNCHANGED <<exchange, healPending, feedLast, lastMsg, todo, bars>>

(* A timeout, retries exhausted, a malformed answer: heal() raises. *)
HealFails ==
  /\ feedPc = "healing" /\ Fault
  /\ Ends
  /\ UNCHANGED <<cur, ban, bars>>

(* 418: RateLimitCircuitOpen.  The governor that learns of the ban is the
   heal's own, so the next heal asks again whether the ban lasts or not. *)
HealBanned ==
  /\ feedPc = "healing" /\ ban # "none"
  /\ Ends
  /\ UNCHANGED <<cur, ban, faults, bars>>

(* "We already had it from the healing." *)
Known(b) == b.m <= feedLast

(* The bar changes no record: an update of the forming minute, which only
   replaces the provisional bar, or a minute the heal already brought. *)
PassOver(b) ==
  /\ ~b.closed \/ Known(b)
  /\ UNCHANGED <<wsUp, queue, faults, feedPc, healPending, healEnd, feedLast,
                 lastMsg, bars>>
  /\ todo' = Tail(todo)

(* Mutant: a flush is due at exactly FlushAt bars. *)
FlushDueOnce(q) == Len(q) = FlushAt

FlushDue(q) == Len(q) >= FlushAt

(* on_bar_1m: the engine ignores a minute it has. *)
Taken(b) == IF b.m <= LastOf(seen) THEN seen ELSE Merge(seen, <<b>>)

(* Mutant: _flush empties the list whatever ingest() did. *)
SaveFailsCleared(q) ==
  /\ Fault
  /\ pending' = << >>
  /\ \E k \in 0..(Len(q) - 1) : store' = Merge(store, SubSeq(q, 1, k))
  /\ Ends

(* ingest() raises: the months before the failing one are written, and the
   exception ends the task with the bars still pending. *)
SaveFails(q) ==
  /\ Fault
  /\ pending' = q
  /\ \E k \in 0..(Len(q) - 1) : store' = Merge(store, SubSeq(q, 1, k))
  /\ Ends

(* A closed bar goes through run_feed: engine, pending list, flush. *)
Record(b) ==
  /\ b.closed /\ ~Known(b)
  /\ seen' = Taken(b)
  /\ LET q == Append(pending, b) IN
       \/ /\ IF FlushDue(q)
             THEN store' = Merge(store, q) /\ pending' = << >>
             ELSE pending' = q /\ UNCHANGED store
          /\ todo' = Tail(todo)
          /\ feedLast' = b.m
          /\ UNCHANGED <<wsUp, queue, faults, feedPc, healPending, healEnd, lastMsg>>
       \/ FlushDue(q) /\ SaveFails(q)

Deliver ==
  /\ feedPc = "reading" /\ todo # << >>
  /\ PassOver(Head(todo)) \/ Record(Head(todo))
  /\ UNCHANGED <<cur, ban>>

-----------------------------------------------------------------------------
(***************************************************************************)
(* The supervisor and the process.                                         *)
(***************************************************************************)
(* silent_seconds > MAX_SILENCE, or no message yet at the first look. *)
Silent == lastMsg = None \/ cur - lastMsg >= MaxSilence

(* The supervisor cancels the task, whatever it is awaiting. *)
Mute ==
  /\ Alive /\ Silent /\ Fault
  /\ Ends
  /\ UNCHANGED <<cur, ban, bars>>

(* A new run_feed, from the engine's last minute. *)
Begins ==
  /\ feedPc' = "reading"
  /\ healPending' = TRUE
  /\ feedLast' = LastOf(seen)

Restart ==
  /\ feedPc = "dead"
  /\ Begins
  /\ UNCHANGED <<exchange, faults, healEnd, lastMsg, todo, bars>>

(* What the process held is gone: a new one will read the store. *)
ProcessGone ==
  /\ feedPc # "off" /\ Fault
  /\ feedPc' = "off" /\ TaskGone
  /\ pending' = << >>
  /\ seen' = store'
  /\ UNCHANGED <<cur, ban>>

Crash == UNCHANGED store /\ ProcessGone

(* A shutdown: lifespan flushes first, and the flush may fail half-way. *)
Stop ==
  /\ \E k \in 0..Len(pending) : store' = Merge(store, SubSeq(pending, 1, k))
  /\ ProcessGone

(* systemd starts the server; warmup() replays the store, then the supervisor
   creates the task. *)
Start ==
  /\ feedPc = "off"
  /\ Begins
  /\ UNCHANGED <<exchange, faults, healEnd, lastMsg, todo, bars>>

(* The store is empty or hydrated up to the minute before. *)
Init ==
  /\ cur = 1 /\ wsUp = FALSE /\ queue = << >> /\ ban = "none" /\ faults = 0
  /\ feedPc = "off" /\ healPending = FALSE /\ healEnd = None
  /\ feedLast = None /\ lastMsg = None /\ todo = << >>
  /\ store \in {<< >>, [m \in {0} |-> TRUE]}
  /\ seen = store /\ pending = << >>

Next ==
  \/ MinuteCloses \/ Tick \/ Drop \/ Ban \/ BanLifts
  \/ Connect \/ Recv \/ HealAnswer \/ HealFails \/ HealBanned \/ Deliver
  \/ Mute \/ Restart
  \/ Crash \/ Stop \/ Start

(* The event loop runs what is ready; stream_json and the supervisor retry for
   ever and systemd restarts the process; the exchange answers, keeps sending
   updates on an open connection, and bans do not last. *)
Fairness ==
  /\ WF_vars(Connect) /\ WF_vars(Recv) /\ WF_vars(Deliver)
  /\ WF_vars(Restart) /\ WF_vars(Start)
  /\ WF_vars(HealAnswer) /\ WF_vars(Tick) /\ WF_vars(BanLifts)

Spec == Init /\ [][Next]_vars /\ Fairness

-----------------------------------------------------------------------------
(***************************************************************************)
(* Properties.                                                             *)
(***************************************************************************)
Minutes == 0..MaxMinute

BarRecord == [m : Minutes, closed : BOOLEAN, final : BOOLEAN]

TypeOK ==
  /\ cur \in Minutes \cup {1} /\ wsUp \in BOOLEAN
  /\ queue \in Seq(BarRecord) /\ todo \in Seq(BarRecord)
  /\ ban \in {"none", "banned"} /\ faults \in 0..MaxFaults
  /\ feedPc \in Stage /\ healPending \in BOOLEAN
  /\ {healEnd, feedLast, lastMsg} \subseteq Minutes \cup {None}
  /\ (feedPc = "healing") = (healEnd # None)
  /\ DOMAIN seen \subseteq Minutes /\ DOMAIN store \subseteq Minutes
  /\ \A m \in DOMAIN seen : seen[m] \in BOOLEAN
  /\ pending \in Seq(BarRecord)

(* What the engine has taken is what the disk has plus what is pending, value
   for value, and nothing is pending twice: replaying the store after the next
   flush gives the state the live engine has (App.warmup's promise), through
   heals that overlap, flushes that fail half-way and tasks that are cancelled
   between two bars. *)
LedgerAgrees ==
  /\ seen = Merge(store, pending)
  /\ IsInjective([k \in DOMAIN pending |-> pending[k].m])

(* The tape has no hole, ever: "gap healing runs on EVERY reconnect"
   (binance_klines.py), because a hole raises no error.  And a crash takes it
   back to a prefix, which the next heal continues. *)
Tape == INSTANCE MinuteTape WITH live <- DOMAIN seen, saved <- DOMAIN store

ImplementsTape == Tape!Spec

(* Whatever fails, a minute after the first one recorded reaches the engine
   once the failures end: no dead task, missed reconnect or muted connection
   is left for good (supervise_feed). *)
CaughtUp ==
  \A m \in Minutes :
    (m < cur /\ \E k \in DOMAIN store : k <= m) ~> m \in DOMAIN seen

(* Values read while a minute was trading enter the record with a heal and no
   other way, so a run has at most one such minute for its first connection
   and one more for each failure. *)
PartialsPerFault ==
  Cardinality({m \in DOMAIN seen : ~seen[m]}) <= 1 + faults

(* A crash loses less than FlushAt minutes, plus one for each flush that
   failed: a failed flush is retried at the next bar and not FlushAt later. *)
CrashLosesFew == Len(pending) < FlushAt + faults

(* core/ring.py: "Append a CLOSED bar.  Rejects in-flight ... bars." *)
OnlyFinalBars == \A m \in DOMAIN seen : seen[m]
=============================================================================
