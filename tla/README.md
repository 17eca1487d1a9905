# TLA+ verification of wavelab

wavelab watches a futures pair on Binance, keeps the 1m bars, builds the higher
timeframes, finds the swing pivots, counts Elliott waves on them, and answers a browser
with a "decision card" and with verdicts on trading hypotheses. This directory models
the parts of it that keep state over time, run concurrently or decide on time series;
TLC checks them on small instances and TLAPS proves the most important results for
every value of the constants. Paths are relative to `src/wavelab/` unless they say
otherwise.

1. [The system](#1-the-system)
2. [Modules and how they correspond to the code](#2-modules-and-how-they-correspond-to-the-code)
3. [Runs](#3-runs)
4. [Fairness](#4-fairness)
5. [Proofs](#5-proofs)
6. [Where the code and its documentation disagree](#6-where-the-code-and-its-documentation-disagree)
7. [Behaviours](#7-behaviours)
8. [What is not modelled](#8-what-is-not-modelled)
9. [What is left](#9-what-is-left)

## 1. The system

One server process (`server/app.py`) runs one asyncio event loop. Its tasks are the
feed (`run_feed`), the supervisor of the feed (`supervise_feed`), the health task
(`run_health`), and one task per HTTP request or WebSocket client. `warmup()` runs
once, in a worker thread, before the feed starts. `python -m wavelab.store.hydrate`
(the archive), `python -m wavelab.collect` (the shadow recorders) and the backtest are
other processes that share files with it.

| Component | State | Operations | Makes it correct |
|---|---|---|---|
| Pivot detector `waves/pivots.py` | index, Wilder ATR, direction, running extreme with its latched threshold | `update`, `legs_as_of` | a pivot is an extreme of its leg, confirmed on the first bar that comes back by its own bar's threshold |
| Pivot store `waves/store.py` | confirmed list, confirmation times, one provisional | `append_confirmed`, `set_provisional`, `as_of` | history only grows; a read for a past instant never changes |
| Rate limiter `server/limits.py` | deques per address, an asyncio semaphore | `slot` (enter, time out, leave) | quotas over every window, no permit lost or doubled, nobody waits for ever |
| Kline feed `feeds/binance_klines.py`, `binance_ws.py`, `binance_rest.py` | last closed minute, last message, heal flag, the connection | `stream`, `heal`, reconnect | every minute once, in order, without holes |
| Feed loop and flush `server/app.py` | pending bars | `run_feed`, `_flush` | engine and disk agree; a crash loses little |
| Server tasks `server/app.py` | the tasks, the hub's clients, `ready`, `startup_error` | `_start`, `supervise_feed`, `run_health`, `Hub.send`, the WebSocket route, `lifespan` | one feed at a time; no browser skipped; whoever asks learns; the exit ends |
| 1m store `store/bars.py` | one Parquet file per month | `ingest` (read, anti-join, atomic rename), `read` | first writer of a minute wins; no half file |
| Hydration `store/hydrate.py` | none of its own | list, download, ingest, report | what is missing afterwards is explained |
| Ring `core/ring.py` | slots, count, gap flags, one provisional | `append`, `window` | a window is the end of the series, gaps marked |
| Timeframes `core/timeframes.py` | none | grid, coverage, `resample_from_1m` | |
| Live engine `engine/live.py` | a ring and a detector per timeframe, mode, wall clock | `on_bar_1m`, `_close_htf`, `check_clock`, `update_health`, `decide` | live bars equal offline bars; the mode tells the truth |
| Rules, matcher, projection `waves/` | none | pure functions of pivots, price, ATR | a plan has stop, invalidation, entry and target in order |
| Barriers and backtest `labeling/`, `backtest/` | a replay: debounce, signals | `resolve_triple_barrier`, `run` | what is booked is never better than what happened |
| Hypotheses `hypotheses/` | none | about a hundred functions from series to signals | a signal at a bar depends on bars up to it |
| Validation `validation/` | none | battery, segments, effective size, rule editor, CSV alignment | segments, honest counts |
| Collectors `collect.py`, `feeds/liquidations.py`, `feeds/binance_derivs.py` | open file, date, ring of rows, the governor | recording, polling | a line or row is missing only for a recorded reason |
| Trial log, configuration, clock, causality guard, browser client, deployment scripts | | | see section 8 |

How they interact:

    Binance --kline stream--> KlineFeed --bars--> run_feed --on_bar_1m--> LiveEngine
       ^                         |                   |                      | rings
       +------ REST heal --------+                   +-> _pending           | detectors
                                                     |     | every 5 bars   v
    supervise_feed -- restarts / cancels --> run_feed|     +-> BarStore   PivotStore
                                                     +-> Hub --> browsers   |
    warmup() (thread, at start) <-- BarStore <-- hydrate                    v
    /api/decide, /api/legs, backtest <---- plan <---- matcher <---- as_of(pivots)
    /api/validate <-- battery <-- signals <-- hypothesis | rule | CSV <-- rings
    python -m wavelab.collect --> daily and monthly files, nothing reads them yet

What is hard in it: the feed task can be cancelled at any await and can die in the
middle of a heal or of a flush; the process can die between two flushes; messages queue
up during a heal and overlap what it brings; bars arrive late, repeated or never; two
processes rewrite the same month; a broadcast walks over a set of browsers that come and
go; a thread fills the rings that routes read; the detector and about a hundred
hypotheses must not look ahead although they work on whole arrays; timeouts of the
limiter race the grants of its semaphore. The full list, each at its line and with the
properties that cover it, is `hazards` in `PROJECT.json`.

## 2. Modules and how they correspond to the code

`map` in `PROJECT.json` gives the lines of every definition. Definitions whose comment
starts with "Mutant:" are not part of the model: each is a plausible bug of the
definition that follows it, and shows that a property notices. The definition of a
hypothesis maps its function, and also its `register(...)` block when that block sets a
`min_warmup` other than the usual 200, because the definition then translates the number. The
helpers of `HypSeries` and `HypSeasonality` that take an operator as a parameter (`Mark`, `Versus`,
`Sign`, `Outside`, `Events`, `LastWhere`, `HoldUntil`, `While`) have no entry of their own: they
are idioms of numpy that the mapped functions repeat.

**`PivotStore`, `ZigZag`, `PivotLedger`.** `PivotStore` is `waves/store.py` and the
`Pivot` type. `ZigZag` is the detector: one action per branch of `update` (`Warming`,
`Start`, `Extend`, `Hold`, `Reverse`, the last of which is `Confirm`, or
`ConfirmRaises` when the store refuses). Each includes publishing the provisional
pivot, as the code does at the end of every `update`. Prices are integers. The value
of the volatility threshold is an input of the bar, any positive number: the
properties only depend on *which bar's* threshold is compared. `bars` and `shown` are
histories, so that properties can look back. `PivotLedger` says what readers are
promised: an append-only list of alternating turning points, each dated with the bar
on which it became known. `ZigZag` implements it.

**`RateLimiter`.** `_check_ip` is `Refuse`/`Charge`; the slot is `Enter`, `Park`,
`Resume`, `TimeOut` (`GiveUp` before the permit was granted, `GiveBack` after) and
`Release`. The semaphore is CPython 3.13's, which the project requires: a permit is
handed to the first waiter by completing its future, and until the event loop runs
that waiter its timeout can still fire. `starts` is the history of every charge.
A timeout may fire at any moment, which covers every value of `acquire_timeout_s`.

**`FeedPipeline`, `MinuteTape`.** The whole way from the exchange to the disk, in one
module because one step of the code crosses all of it: between two awaits a bar leaves
the generator, enters the engine and the pending list and may be flushed. A bar is a
minute with the flag `is_closed` the code sees and a bit `final` that only the exchange
knows. A minute is the unit of time; the milliseconds inside it appear as the
nondeterminism of which minute is last in a REST answer. `feedPc` says where the feed
task stands; everything that ends the task (`HealFails`, `HealBanned`, a failed flush,
`Mute`) leads to `dead`, from where the supervisor's `Restart` makes a new task that
starts from the engine's last minute. The process can end with a last flush (`Stop`) or
without (`Crash`) and starts again from the store. `MinuteTape` is what that path
promises: consecutive minutes, of which a prefix is saved. `FeedPipeline` implements it.

**`Ring`, `Timeframes`, `LiveEngine`.** `Ring` is the circular buffer with the gap rule
of `window`; `Timeframes` the grid, the 0.9 coverage with its truncation, and the
offline `resample_from_1m`. `LiveEngine` feeds minutes in any order, with holes and
repeats, through `on_bar_1m` (`Replay` during the warm-up, `Receive` after it), and
models `check_clock` and `update_health` over the same wall clock. A bar is the set of
minutes it was made of, which determines its prices. `fed` is the history of what each
detector was given.

**`ServerLife`.** The tasks of the server and what is between two of their awaits:
`WarmMonth`, `WarmReturns`, `WarmRaises` are the thread, and the only steps that run in
parallel with the loop; `StartupReady`/`StartupFails` the task of `_start`, which on
success makes the supervisor and the health task; `SupMute`, `SupReap`, `SupAgain` the
supervisor's three awaits; `FeedBar`, `FeedDies`, `FeedUnwinds` the feed as the others see
it (what is inside it is `FeedPipeline`); `SendTo`, `SendRaises`, `SendEnds` one
`Hub.send` client by client over the snapshot taken at its start, for each of the senders;
`WsJoins`, `WsGreeted`, `WsGreetFails`, `WsLeaves` the WebSocket route, whose first send is
outside the `try` that discards the client; `Exit` and `Gathered` the end of `lifespan`.
Reads of the routes have no await and are therefore part of the thread's steps: `torn`
records which kind of route could have been reading while the rings moved.

**`BarFiles`.** `ingest` as both writing processes run it, in the steps another process can see:
read the month, write the temporary file half, write it whole, rename; each can fail, and the
server can die in any. The server flushes what its engine has; the hydration lists what is
present (with `--quick` or not), downloads months in batches of `Concurrency`, then the days of
the current month, ingests each, and reports. Time and rows are counted in days, the unit of the
daily archive, so that "yesterday's file is not there yet" and "the monthly file is not
published yet" can happen.

**`HypSeries`, `HypTrend`, `HypMomentum`, `HypReversion`, `HypVolatility`, `HypFlow`,
`HypStructure`, `HypCandles`, `HypSeasonality`, `UserStrategy`, `Library`.** Every registered
hypothesis as a function from a series of bars to signals, in the file of its family. A bar is a
tuple of readings, each a free small integer or NaN placed relative to the threshold it is compared
with: the TA-Lib indicators, which are external, and columns the code works out from them in Python
(section 8 lists these). What the code does with the readings is kept:
comparisons that are false on NaN, crossings, positions held until an exit, pulses stretched
over several candles, fractals known `k` bars late, running sums, calendar rules over hours
since the epoch. `HypSeries` has the helpers the families share; `UserStrategy` the evaluator of
the editor's rules (with its refusal of negative shifts) and the alignment of a CSV of
positions; `Library` the registry and the warm-ups. A rule is the sequence of its expressions in
the order the interpreter of `expr.py` comes back from them, operands first (`Parsed`), and `Eval`
the table of their values. The table is a recursive function, where the code has a recursive
method, so that theorems can be proved about it.

**`Battery`, `Assay`.** `Battery` is `validation/battery.py` with the segments of
`evaluate.py` and the count of independent episodes of `reality_check.py`. Prices are logarithms, so
that returns add; the tests compare annual growth (`_stats`), which is the parameter `Rate` of
a yield and a number of bars. `EffectiveN` works on the times of the bars, which may have holes. `Assay` composes it with the whole library: the state is one strategy
and a growing history, the action the arrival of a bar, and `Answer` what the route
would say.

**`WaveCount`, `WavePlan`, `Barriers`, `Backtest`.** `WaveCount` is the four rules, the
search over consecutive pivots with its score and order; `WavePlan` is `build_plan`:
zone, stop, target, and every refusal; `Barriers` the triple barrier. `Backtest`
composes them: `BarCloses` confirms a pivot perhaps, decides and debounces; `Ends`
resolves every signal and its random twin. It takes the detector at the word of
`PivotLedger`: alternating pivots, each confirmed once. A bar is made of minutes the
replay does not look at, so that a property can compare what is booked with what
happened. The guidelines are scored with tents where the code has gaussians, which
order candidates by distance from the ideal ratio as well.

**`Recorders`.** For each source the liquidation recorder with its open handle, its date
and the buffer between a write and the disk; the derivatives poller: the time a request
takes, the pause after an error, the open circuit and the gzip member per append, of which an
error inside `_append` (`AppendRaises`) or a kill can leave half; and the process around them,
which systemd restarts (`Stops`) or the machine kills (`Killed`), after a moment or after the
machine was off. `mishaps`, `dark` and `tears` are histories of what went wrong and when.

Abstractions shared by the modules: prices that no property compares are not there;
logging, metrics and formatting are left out; `Ring.append`'s `ValueError`s are not
modelled because its callers in `engine/live.py` test for them first; fields of a
`KlineFeed` that ended are reset at once, since nobody reads them before they are
overwritten.

## 3. Runs

| Run | Shows | Bounds |
|---|---|---|
| `zigzag` | over every sequence of candles: pivots are first passages over the latched threshold and extremes of their legs, the store never raises, snapshots never change, the provisional leg has no hindsight, the chart alternates, the ledger is implemented | 3 price levels, thresholds 1 and 2, 5 bars, ATR ready after 1 true range |
| `rate_limiter` | permits are conserved, no wake-up is lost, both quotas hold over every sliding window, every parked request is answered | 3 callers, 2 addresses, 2 permits, 2 per minute and 3 per hour, a clock of 3 |
| `feed` | engine and disk agree, at most one unfinished minute per fault, a crash loses few bars, the tape has no hole, every minute arrives once the faults end | 4 minutes, flush at 2, 3 faults of any kind, 2 messages in flight |
| `engine` | higher bars equal the offline resampling, ring windows equal the end of the series, the badge comes back | bars of 2 and 4 minutes, rings of 4, a clock of 10 |
| `server` | validations never read half-filled rings, one feed task at a time, no broadcast skips a browser that stays, browsers that left are forgotten, a probe learns the outcome, the exit ends | 2 browsers that may stop reading (once) or leave, 1 month to warm up, private mode |
| `files` | no half file, a row is lost only to an overlap of the two writers, what is missing at the report has one of six causes | 3 months of 2 days, one download at a time, `--quick` back one month, 2 runs, 1 failure |
| `recorders` | a line is in the file of its day and a row is stored unless a recorded failure explains it | 1 source, 2 days, 3 lines; 2 series, an overlap and a circuit's pause of 6 minutes, a clock of 10, 2 failures |
| `backtest` | whatever is entered has stop, invalidation, entry and target in order; no trade and no twin is booked better than its minutes would have given | a rising and a falling impulse, 6 bars of 2 minutes, ATR of 4 or 20 |
| `assay` | no strategy changes what it said about an earlier bar; positions of a file persist; independent episodes are counted in full, and a bet counts as three of them at most | all registered hypotheses, 3 rules, every small file; 3 segments, horizon 1 |
| `feed_final` | a bar that was still trading enters the record (section 6) | as `feed`, 3 minutes, 1 fault |
| `null_twin` | a control enters on the bar of its signal (section 6) | as `backtest` |
| `delay_verdict` | a losing strategy is told it reads the future (section 6) | as `assay` |

Why the bounds are enough to be interesting.

- *Detector*: five bars are one to warm up and four to make two confirmations and a third
  leg, and a single bar can both extend and reverse, because its range covers all three
  levels. The close stays at the low: in the wick mode of the run (`OnClose = FALSE`) only
  the threshold reads it, and that is an input. The mode on closes, which the live server
  uses, is the same algorithm on candles whose high and low coincide, which are among the
  run's candles. The proofs cover both modes.
- *Limiter*: three callers for two permits is the smallest case in which a timeout, a
  grant and a release compete; a clock of 3 with an hour of 2 lets an entry expire and an
  address be pruned.
- *Feed*: two bars are a flush, so four minutes hold a flush, a failed flush, a pending
  bar and a bar still trading; three faults allow a heal that fails after a reconnect,
  and a crash on top.
- *Engine*: a ring of 4 wraps around, both for minutes and for bars of two minutes over a
  clock of ten, and the higher bar of four minutes can be complete, thin (fewer than
  `int(0.9 * 4) = 3` minutes) or never closed.
- *Server*: two browsers are one in the middle of a broadcast and another that joins,
  blocks or leaves during it; each may come before the end of the warm-up. Skipping needs
  one to fail while the other waits its turn. `Public = FALSE` has more routes than `TRUE`.
- *Files*: three months are one that has its monthly file, one that waits for it and the
  current one; two days are yesterday and another. Two runs let the second meet what the
  first left. The archive may lack a day of the second month.
- *Recorders*: two days have a midnight between them, with a line before, at and after.
  One source suffices: the recorders of two sources share nothing but the process. The overlap of
  consecutive polls (12 rows of 5 minutes) and the pause of an open circuit (60 minutes) are equal,
  as in the code, and are 6 minutes here. Two failures make a gap happen in each way there is: one
  trip of the circuit or one outage, one half member and what it costs, or two slow or failed
  requests and restarts that fill the overlap between them. One such mishap alone costs no row.
- *Backtest*: six bars confirm the five pivots of a script and leave bars to resolve on;
  the bars include one whose close lies in a zone, one between zone and stop, one beyond
  the stop, and bars that touch target and stop in the same minute, in either order of
  minutes, or only one of them.
- *Assay*: one bar of the model stands for `BarsPerStep = 100` of the program, so that
  warm-ups of 200 to 600 bars are a few steps, and `FractalK` is 1 (2 in the code). The rows
  `MCRows` gives each hypothesis put its columns on either side of each other and of their
  thresholds, with NaN at the head only, as TA-Lib has it. Calendar rules start on Friday 29 March
  2024 at 19:00, the last Friday of a quarter, so that steps of 1, 7, 24 and 4800 hours cross the
  hours of a day, a weekend, an expiry, the end of a month and the seasons.

Deadlock is checked in `rate_limiter`, `feed`, `feed_final` and `engine`. The others turn it off
because they do stop: `zigzag`, `assay` and `backtest` when their bars have been fed, `files`
and `recorders` when the clock and the bound on failures are used up, `server` when it has
stopped.

What each property is about is in the comment above it. Every property of a passing run
is broken by the mutant listed for it in `PROJECT.json`.

## 4. Fairness

- `RateLimiter`: `Resume` and `TimeOut` are weakly fair per caller, as the event loop runs
  ready tasks and every `acquire` is under `wait_for`. `Release` is not: the slot is held
  while the body of the request is awaited, and nothing bounds that.
- `FeedPipeline`: `Connect`, `Recv`, `Deliver`: the loop runs what is ready and
  `stream_json` reconnects for ever. `Restart`: `supervise_feed` is a `while True`.
  `Start`: systemd restarts the service. `HealAnswer`, `Tick`, `BanLifts`: the exchange
  answers when it is not failing, sends updates of the forming minute continuously, and
  bans are temporary. Faults are unfair and bounded (`MaxFaults`): `CaughtUp` says that
  the feed recovers once the failures end, and nothing about a world in which they do
  not. Minutes need not pass.
- `LiveEngine`: `UpdateHealth`, which `run_health` calls every five seconds.
- `ServerLife`: the thread runs (`WarmMonth`, `WarmReturns`) and the loop runs what is ready; sleeps
  end; a cancelled feed unwinds; a closing handshake has a timeout; a peer that stopped reading reads
  again or is dropped by uvicorn's ping (`PeerSettles`). Failures (`WarmRaises`, `FeedDies`, `SupMute`),
  bars, visitors and the wish to exit need not happen. Nothing is assumed about a supervisor caught
  as section 7 describes: `StopEnds` excludes it by `caught`.
- The other modules state safety only and assume no fairness.

## 5. Proofs

Eight modules hold theorems, checked by TLAPS for every value of the constants under the
assumptions the modules name (`ZigZagAssumption`, `NoPivotAssumption`, `LimitsAssumption`,
`FeedAssumption`, `TfsAssumption`, `CapacityAssumption`, `ServerAssumption`, `FilesAssumption`,
`RecordersAssumption`, `MatcherAssumption`, `TickAssumption`,
`BacktestAssumption`, `LengthsAssumption`, `BatteryAssumption`, `RulesAssumption`,
`RowsAssumption`), which TLC evaluates on the runs too. Most say that a size is a natural
number. Four say more: `LimitsAssumption`, that a minute is no longer than an hour and an hour than
the idle time; `RecordersAssumption`, that there is a longest time a request or a restart takes;
`RulesAssumption`, that the user's rules are what a parser makes, operands before what they are in,
and are not named like a hypothesis; `RowsAssumption`, that a bar is five numbers and a time, later
than the bar before. Every safety property and every action property of the passing runs but
`EpisodesPerBet` is proved. Almost none is inductive as it stands.

*Detector* (`ZigZagProofs`). To know that a reversal confirms a first passage one must know
that no bar since the extreme had already retraced that far, and that the extreme carries its
own bar's threshold. `IInv` adds exactly this about the leg in progress (`Running`), that the
settled pivots stay settled (`Settled`), that indices and times are ordered, how the ATR count
follows the bars (`Counting`), and what was published with each bar (`Published`). Each action
preserves it (`WarmingInv` ... `ConfirmInv`); from it follow `TypeCorrect`,
`PivotsAreFirstPassages`, `PivotsAreLegExtremes`, `StoreIsNeverAbused`,
`ProvisionalHasNoHindsight`, `SnapshotsNeverChange` (the cut of a sorted history is unmoved by
a later pivot), `LegsAreAZigzag` (a cut of an alternating history alternates, and the provisional
shown with the bar continues it) and `DetectorImplementsLedger`.

*Limiter* (`RateLimiterProofs`). Two separate invariants. The quota invariant `IQuota` says the
deque of an address is the end of its history of charges, that what was evicted is out of the
hour, and that an address the table has forgotten has no charge inside the hour; this needs
`Minute <= Hour <= Idle`, true of 60, 3600 and 7200. The slot invariant relates the queue, the
callers' stages and the permits. From them follow `LimiterTypeCorrect`, `PermitsAreConserved`,
`NoWakeupIsLost`, `MinuteQuotaHolds` and `HourQuotaHolds`, for any number of callers.

*Feed* (`FeedProofs`). That the engine's minutes are the saved ones and then the pending ones
does not survive a step alone: a delivery may append to both only because the minute the feed
takes for its last is the engine's (`InStep`). With it the invariant (`LedgerInvariant`) is
inductive; what remains is the algebra of the anti-join: adding a bar to the pending list and
merging is merging and then adding it (`Continues`), and merging again what a failed flush had
already written changes nothing (`Repeats`). From it follow `FeedTypes`, `LedgerHolds` and,
counting the failed flushes, `CrashesLoseFew`. That the tape has no hole needs to look at what is
still on the way: every closed bar of what the generator has still to yield and of what has been
received follows one before it, or what is known once the heal in flight is answered, and while
the socket is up they reach the current minute (`Flow`). With that and the pending minutes in
order after the saved ones (`TapeInv`), each step is a step or a stutter of `MinuteTape`:
`FeedImplementsTape`. `PartialsAreFew` counts: the unfinished minutes recorded, the one in the
answer being delivered, and the heals that can still bring one without a further failure, are
at most one more than the failures (`Budget`).

*Live engine* (`LiveEngineProofs`). What a higher bar is made of depends on the 1m ring, and its
gap flag on the bar before it, so the invariant says slot by slot what each ring holds: the end of
its series, modulo the capacity (`Holds`). A ring of the last `Capacity` minutes has all of a
period because minutes `k` places apart are at least `k` minutes apart (`Enumerated`); so the
bar that is closed is the one `resample_from_1m` makes of the whole tape, and no later minute can
belong to it (`FedInOrder`). `FedAreResampled`, `RingsShowTheTail` and `EngineTypes` follow, for any
capacity and any timeframes that fit in it, and for minutes in any order.

*Server* (`ServerProofs`, first half). `NobodyIsSkipped` rests on `HubInv`: every browser still due a
message is in the queue of the sender (`DueAreQueued`), whoever was found dead has gone
(`DeadAreGone`), and whoever is connected is held by the hub (`Held`). `ReapedInv` says that a
supervisor in its pause holds a feed task that has ended, so that a new one starts only after the
old one (`FeedTasksDoNotOverlap`). `ValidationsReadWhole` needs that `ready` is only set when the
thread has returned (`WarmInv`). All hold for any number of browsers and months.

*Files* (`ServerProofs`, second half). `DiskInv` relates a
writer's copy of a month to the file: busy writers are inside a month (`Busy`), what a finished
temporary file holds is what was read and what is new (`Exact`), a copy is stale only if the
two processes were inside that month at once (`Fresh`), and two processes in a month at once have been noticed
(`Noticed`). With it `NoFileIsHalf` and `RowsAreKept` follow for any number of months, runs and
failures. `MissingIsAccountedFor` needs the story of how the files were filled (`Story`). The current
month is filled from its first day on, whoever writes it (`Prefix`): what a process is about to
bring closes up with what is settled before it (`Owed`), in the server because it has
what came up to its last day (`Had`), in the hydration because it takes the days in order
(`Ahead`). Of the other months, one that was listed was kept, waits, or has all its rows on disk or
in the ingest under way (`Listed`).

*Recorders* (`RecordersProofs`). `LinesAreKept` needs to know that a recorder whose date is today
and whose handle is not open has failed to open today's file, and that its date is never ahead
(`HandleInv`). `OnlyOutagesCostRows` counts minutes: the last row stored of a series is at most one pause
old, and for each mishap since then the longest one costs (`Longest`) besides, or the row after it is
explained already; so the next answer, unless the mishaps of that time fill what it reaches back,
continues what is stored. It bounds nothing about the mishaps of the run as a whole, only counts those
that fall between a row and the last answer that could bring the next. With the numbers of the code, a
quick request that fails costs six minutes and a slow one more: about ten errors in a row, or fewer
with the governor's brake, are an hour, and a row is lost without any 418.

*Backtest* (`BacktestProofs`). `SignalsHold`: alternation of the pivots gives the signs of the
waves; the rules then order the vertices; the zone is an interval between two of them, the stop
lies beyond the invalidation by a positive cushion, and the target beyond the zone. Neither the
noise nor the fee filter of `build_plan` is needed for it. `BookingsNeverFlatter`: a bar touches
what one of its minutes touches, and what touches both barriers is booked as the stop; so the
replay on bars resolves no later than in the bar of the minute at which the replay on minutes does,
and books no more there.

*Assay* (`AssayProofs`). The invariant is small (`HistoryTyped`: a strategy, and a history of whole
bars); the work is in the operators. `SignalsStand` says for every history, whatever the bars read, what the
run looks for on small ones: no strategy goes back on what it said. It rests on one relation, `Grown`: the
longer history is the shorter one and a bar more. From it, for each kind of rule, a lemma:

- a rule that reads a bar, or some bars back, reads the same (`SameLag`, `TrendRules`, `MomentumRules`,
  `FlowRules`, `ClockRules`, ...); one that refuses short histories has masked the bars it refused them for
  (`MaskedOrLong`), which needs every warm-up to be no shorter than what the rule asks for: this is where a
  `min_warmup` too small would fail. The candle family does refuse bars it answers for later, so the property
  leaves those out (`AnsweredIsLong`);
- one that looks for an extreme before a bar finds the same (`SamePrior`, `SameRank`), and one about pivots
  looks only at fractals whose bars on both sides were there (`SameFractal`);
- one that loops carries the same from bar to bar: `LoopEnds` says that the loop, a recursive function,
  has a result and what it is, `LoopsAgree` that two loops that agree on every step agree
  (`TurtleRule`, `ReentryRule`, `SqueezeRule`, `KeltnerRule`, `StopRule`, `SupertrendRule`, `RetestRule`,
  `ChannelRule`);
- a rule of the user's, whatever it is made of, by induction on the places of its expressions:
  each agrees if its operands do, and a shift that is allowed does not look ahead (`SameVisit`, `SameTable`).

`PositionsStay`: the last row that hit a bar is the last row of the file. `EpisodesCounted`: the greedy
scan is as good as any choice, because of all the largest choices it has the one that ends first
(`Greedy`, `GreedyStep`); this holds for any set of bars, any window and any holes between the bars
(`ScanIsLargest`). Inductions, over bars, places or instants, are done by the least
counterexample (`HasLeast`, from the well-foundedness of the natural numbers), since the library's
induction schemes cannot be instantiated here.

Only model-checked: the liveness properties `Answered`, `CaughtUp`, `BackToLive`, `GoneAreForgotten`,
`StopEnds` and `ProbeLearns`, because liveness and `ENABLED` are out of the installed provers' reach;
`EpisodesPerBet`, whose rounded mean of the lengths of positions has no proof yet; and the three counterexamples of section 6, which are TLC's traces.

## 6. Where the code and its documentation disagree

- **A heal records the minute that is still trading** (`feed_final`). `fetch_klines`
  marks every kline as closed, and the heal asks up to the time of the message that waits
  behind it. The unfinished minute enters ring and store, and its real close is dropped as
  already known. `core/ring.py:127` says in-flight bars are rejected. `PartialsPerFault`
  bounds the damage: one minute for the first connection and one for each failure.
- **A losing strategy "reads the future"** (`delay_verdict`). The delay test divides the excess
  after a delay by the excess before it. When both are negative, a strategy that loses *less*
  when delayed keeps less than half of its loss and is called a leak.
  `validation/battery.py:8-9` describes a gain that collapses. The out-of-sample test next to
  it guards the sign (`battery.py:214-219`).
- **A control overlaps its signal** (`null_twin`). The random delay of the null arm is clamped at
  the last bar but one, which for a signal on that bar is the signal's own bar.
  `tests/test_live_engine.py:1617` asserts that the twin is later.

## 7. Behaviours

Not runs of their own, but not obvious either. The models have them as the code does,
unless a line says that it is outside the model.

*Feed and engine*
- A 418 ends the feed task; the supervisor restarts it and the next heal has a new governor that
  knows of no ban (`binance_klines.py:58`), although `binance_rest.py:9-10` says a ban is not
  retried because that extends it.
- Outside the model: `decide` (`live.py:178-187`) looks at neither the mode nor the gap flag, so
  cards are served while catching up and on thin bars, against `live.py:6-7` and
  `core/timeframes.py:42`; `emitting` has no caller. `docs/TEST_COVERAGE.md` knows of the first.
- A higher bar is closed by the arrival of its *last* minute. If that minute is missing the bar
  is never emitted, although `resample_from_1m` has one; `FedIsResample` states the exact
  relation.
- `int(0.9 * n)` rounds down: 13 minutes of 15 (86.7%) count as covered (`live.py:135`).
- `silent_seconds` is infinite until the first message, and a heal does not refresh it: a
  connection that takes longer than the supervisor's look, or a heal longer than five minutes,
  is cancelled each time. The bound on faults excludes doing so for ever.
- `LIVE` is never demoted by lag alone, only by a jump of the clock between two bars
  (`live.py:302`).
- After a minute entered through a heal while trading, updates of it can leave a provisional bar
  that is not later than the last closed one.
- The live server detects on closes (`server/app.py`), the backtest by default on wicks.

*Server*
- A supervisor cancelled while it awaits a feed it has cancelled suppresses its own
  cancellation (`app.py:247`) and starts another feed; `gather` in `lifespan` never returns. Only a
  second signal, or systemd's timeout, ends the process.
- Validations wait for `ready`; `/api/decide` and `/api/history` do not, and read rings that the
  warm-up thread is filling. `torn` tells the two kinds apart.
- A caller told `TooBusy` has been charged, and keeps its charge (`limits.py:80`).
- A slot is held while the body of the request is awaited (`app.py:414` under `:405`, `:482` under
  `:473`), and nothing bounds that: two clients that never finish sending keep both slots. `Answered`
  says only that the others are told.
- `Hub` says that it "Never blocks the producer: one slow browser must not be able to stall the
  consumer" (`app.py:77-78`), but `send` awaits its clients one after the other (`:88-92`), and
  `run_feed` awaits `send`: a browser that stops reading holds the broadcast, and the feed with it,
  until its connection drains or is dropped. In `ServerLife` this is a sender waiting in `SendTo`.

*Files*
- A hydration that runs after the end of a month and before its monthly file is published asks
  for no day of that month but yesterday (`hydrate.py:133`). The rest is
  filled by a later run only as long as that month is the newest one stored (`hydrate.py:101-102`).
- A hole inside a stored month is never filled (`hydrate.py:163-164`); neither is a month whose
  file the server's flushes began once a newer one exists.
- The server and the hydration overlap without a lock; each writes its own temporary name, so
  files are whole, but the later rename drops the other's rows.

*Recorders*
- `_day` is set before the file is opened (`liquidations.py:82-83`). If opening fails, the
  handle of yesterday, closed, serves for the rest of the day and every line of it is lost.
- The heartbeat looks at `last_msg_ms`, which is set before the write (`:110`): a recorder whose
  writes fail looks alive.
- A circuit that opens pauses 3600 s, to which the 300 s of the loop are added, longer than the
  60 minutes two consecutive polls share: an open circuit is a gap.
- A kill inside `_append` truncates a gzip member, and nothing appended to that month's file
  afterwards can be read. So does an exception there, on a full disk, although it is caught
  (`binance_derivs.py:100-103`, `:120`) and the poller goes on as after any error.
- Errors add up: the overlap of two polls absorbs the pause of one error, and not an hour of them.
  An outage of the exchange or of the machine that is longer than the overlap costs rows.

*Waves and backtest*
- A count whose invalidation price has been passed is still offered while its last pivot is
  within `max_from_edge` of the edge; the matcher never looks at the price.
- A plan whose target the price has passed quotes a positive `rr_t2`, because of an `abs`
  (`projection.py:211`).
- Cutting the zone of wave 4 at the end of wave 1 changes no signal: the noise and fee gates
  refuse those plans anyway.
- The debounce is keyed by archetype alone, so the same count is entered again after six bars.

*Hypotheses and validation*
- The candle family refuses histories under `_MIN_BARS = 320` although its `min_warmup` is 200 or
  300: signals of the bars between change when bar 320 arrives, against the docstring
  `base.py:62-64`. `SettledSignalsStand` leaves those bars out.
- The forward return of `base_rate` begins one bar late.
- The purge at the border of a segment is `horizon_bars` long, and the routes pass 1 (`app.py:353`,
  `:383`, `:544`); positions last "far" longer, as `battery.py:237-239` knows and allows for in the next
  test. A position held across a border therefore counts on both sides, against
  `battery.py:225-226` and `evaluate.py:65-66` ("no open trade can cross"). No run states it: the
  segment's slice decides it alone.
- The mean duration divides the bars held by the flips, and an exit is a flip (`battery.py:240-242`): forty
  bars held and left are two runs of twenty, so that "those 40 bars are ONE bet" becomes two
  episodes. `EpisodesPerBet` bounds it: three for each bet, on bars without a hole.
- A position of a CSV that is set before the first bar, or in a hole of the data, disappears
  without a word (`csv_import.py:209`); `PositionsPersist` holds up to such a row.
- On a window without volume `flow.obv_leads` sees both sides at once; the short one wins.
- In a rule of the editor, `!=` and `not` are true on NaN, so a rule can hold positions during
  the warm-up of its indicators; rules have no `min_warmup`.

## 8. What is not modelled

- *REST client*: weights and the back-off after a 429 inside one request. Seen from the feed
  they are a slow answer or a failure, which `FeedPipeline` has.
- *Server*: JSON, static files, the size limits of bodies.
- *Live engine*: the wording of the card and its decision log. *Ring*: `provisional_window` and
  `require_complete`, which no live code calls.
- *Backtest*: excursions (mae, mfe), statistics over the trades, loading of history.
  *Projection*: the size factor, the secondary targets, the histogram of rejections.
- *Validation*: the random filters and the bootstrap of `reality_check.py`, which are statistics
  of pseudo-random draws; `evaluate_all` and `replay.py`; the parsers of rules and files, and
  strategies that bring their own prices.
- *Collectors*: `binance_derivs.LiquidationRecorder` has no caller. `binance_archive` is seen
  only through what `BarFiles` lets it publish; the HTML listing and the zip format are not
  there.
- *Hypotheses*: what a column is worked out from. Besides the TA-Lib indicators these are the columns
  the code computes in Python: the negative volume index (`flow.py:669-676`), the squeeze flag, the
  Rogers-Satchell volatility and the chandelier stops (`volatility.py:143-148`, `:106-116`,
  `:545-546`), the masked logarithm before a regression, the counts of rises and falls and the
  efficiency ratio (`momentum.py:406-411`, `:450-454`, `:492-496`), the place of the close in its bar
  (`mean_reversion.py:543-549`) and the lines of the Ichimoku cloud before their lag
  (`trend.py:479-483`). `SettledSignalsStand` assumes that none of these looks ahead.
- *Causality guard, configuration, clock*: sequential code without state over time.
- *Trial log*: one `INSERT OR REPLACE`; that SQLite treats NULL keys as different is a fact
  about one statement and not about a sequence of them.
- *Browser client, deployment scripts* (`web/`, `scripts/` at the top of the repository):
  rendering, and one-shot shell.

## 9. What is left

Everything of the plan that runs over time is modelled, and its safety is proved. What would add
most next: that the verdicts of the battery agree with what they are named for (`DelayTest` does
not, section 6), on models of prices with more than a return per bar; and `decide` with its mode
and gap flag, if the code comes to look at them.
