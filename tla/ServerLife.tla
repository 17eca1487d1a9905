----------------------------- MODULE ServerLife -----------------------------
(***************************************************************************)
(* The life of the server process (server/app.py): the warm-up in a worker *)
(* thread and _start, which waits for it; supervise_feed and the feed task *)
(* it restarts; run_health; the Hub and its WebSocket clients; the routes  *)
(* that read the engine; and lifespan, which stops everything.             *)
(*                                                                         *)
(* One event loop runs all of it except the warm-up, so a step is what     *)
(* happens between two awaits.  A route reads the engine without an await, *)
(* so nothing else in the loop comes between, but the thread can.          *)
(***************************************************************************)
EXTENDS Integers, Sequences, SequencesExt

CONSTANTS Clients,  \* browsers; one that comes back is another client
          Public,   \* WAVELAB_PUBLIC: no /ws, no decide, no history
          Months,   \* bound: months in the store
          MaxSlow   \* bound: times a client stops reading

ASSUME ServerAssumption ==
  /\ Public \in BOOLEAN
  /\ {Months, MaxSlow} \subseteq Nat
  /\ IsFiniteSet(Clients)

VARIABLES life,     \* where lifespan stands
          caught,   \* the exit found the supervisor waiting for a cancelled feed
          thread,   \* the worker thread that runs warmup()
          loaded,   \* App._warm_n: months it has begun
          startup,  \* the task of _start; "done" is App.ready, "failed" is startup_error
          sup,      \* the task of supervise_feed
          feed,     \* the feed task it holds, App._feed_task
          health,   \* the task of run_health
          clients,  \* Hub.clients
          conn,     \* where the WebSocket handler of each client stands
          peer,     \* the other end of each connection
          slows,    \* times a peer has stopped reading
          send,     \* for each sender: sends left, clients left, clients found dead
          due,      \* browsers still to receive the broadcast the feed is sending
          missed,   \* browsers that did not receive one the feed completed
          torn      \* kinds of routes under whose reads the rings have moved

tasks == <<thread, loaded, startup, sup, feed, health>>
sockets == <<clients, conn, peer, slows>>
hub == <<send, due, missed>>
serverVars == <<life, caught, tasks, sockets, hub, torn>>

Senders == {"feed", "health"}
Idle == [todo |-> 0, queue |-> <<>>, dead |-> {}]

TypeOK ==
  /\ life \in {"serving", "exiting", "stopped"} /\ caught \in BOOLEAN
  /\ thread \in {"running", "returned", "raised"} /\ loaded \in 0..Months
  /\ startup \in {"warming", "done", "failed", "cancelled"}
  /\ sup \in {"none", "look", "await", "delay", "ended"}
  /\ feed \in {"none", "recv", "send", "unwinding", "done"}
  /\ health \in {"none", "sleep", "send", "ended"}
  /\ clients \subseteq Clients
  /\ conn \in [Clients -> {"out", "greeting", "open", "left"}]
  /\ peer \in [Clients -> {"up", "slow", "gone"}] /\ slows \in 0..MaxSlow
  /\ \A s \in Senders : /\ send[s].todo \in 0..3
                        /\ ToSet(send[s].queue) \subseteq Clients
                        /\ send[s].dead \subseteq Clients
  /\ due \subseteq Clients /\ missed \subseteq Clients
  /\ torn \subseteq {"gated", "open"}

(* lifespan has created the task of _start, which has handed warmup() to the
   thread. *)
ServerInit ==
  /\ life = "serving" /\ caught = FALSE
  /\ thread = "running" /\ loaded = 0 /\ startup = "warming"
  /\ sup = "none" /\ feed = "none" /\ health = "none"
  /\ clients = {} /\ conn = [c \in Clients |-> "out"]
  /\ peer = [c \in Clients |-> "up"] /\ slows = 0
  /\ send = [s \in Senders |-> Idle]
  /\ due = {} /\ missed = {}
  /\ torn = {}

Ready == startup = "done"
Failed == startup = "failed"

-----------------------------------------------------------------------------
(***************************************************************************)
(* Routes that read the rings, without an await: a read is part of one     *)
(* step of the loop.                                                       *)
(***************************************************************************)
(* Mutant: no 503 while the history is loading. *)
ValidateServesAlways == TRUE

(* _validate_csv, _validate_rule, _validate_catalog: 503 until ready, then
   ring.window and the battery over it. *)
ValidateServes == Ready

(* GET /api/decide and GET /api/history do not ask. *)
ShowServes == ~Public

Reading == {k \in {"gated", "open"} : /\ life = "serving"
                                      /\ IF k = "gated" THEN ValidateServes ELSE ShowServes}

-----------------------------------------------------------------------------
(***************************************************************************)
(* The warm-up.  warmup() and _iter_bars feed the engine's rings from the  *)
(* store month by month, in the thread, whatever the loop is doing: also   *)
(* in the middle of a route's read.                                        *)
(***************************************************************************)
WarmMonth ==
  /\ thread = "running" /\ loaded < Months
  /\ loaded' = loaded + 1
  /\ \/ UNCHANGED torn
     \/ \E kind \in Reading : torn' = torn \cup {kind}
  /\ UNCHANGED <<life, caught, thread, startup, sup, feed, health, sockets, hub>>

(* The store is read to its end, or was empty. *)
WarmReturns ==
  /\ thread = "running" /\ loaded = Months
  /\ thread' = "returned"
  /\ UNCHANGED <<life, caught, loaded, startup, sup, feed, health, sockets, hub, torn>>

(* A month that cannot be read, for one. *)
WarmRaises ==
  /\ thread = "running"
  /\ thread' = "raised"
  /\ UNCHANGED <<life, caught, loaded, startup, sup, feed, health, sockets, hub, torn>>

(* _start resumes with the result: ready, and the background tasks begin.
   The first thing the supervisor does is to create the feed task. *)
StartupReady ==
  /\ startup = "warming" /\ thread = "returned"
  /\ startup' = "done"
  /\ sup' = "look" /\ feed' = "recv" /\ health' = "sleep"
  /\ UNCHANGED <<life, caught, thread, loaded, sockets, hub, torn>>

(* Mutant: an exception of the warm-up ends the task of _start, as it did. *)
StartupFailsSilently ==
  /\ startup = "warming" /\ thread = "raised"
  /\ startup' = "cancelled"
  /\ UNCHANGED <<life, caught, thread, loaded, sup, feed, health, sockets, hub, torn>>

(* The exception is recorded as startup_error; no background task begins. *)
StartupFails ==
  /\ startup = "warming" /\ thread = "raised"
  /\ startup' = "failed"
  /\ UNCHANGED <<life, caught, thread, loaded, sup, feed, health, sockets, hub, torn>>

-----------------------------------------------------------------------------
(***************************************************************************)
(* The supervisor and the feed task.                                       *)
(***************************************************************************)
(* What a cancellation leaves of a broadcast: nothing, not even the list of
   dead clients.  The generator's connection is closed before the task ends. *)
CancelFeed ==
  /\ feed' = "unwinding"
  /\ send' = [send EXCEPT !["feed"] = Idle]
  /\ due' = {}

(* Mutant: the supervisor does not wait for the task it cancelled. *)
SupMuteUnawaited ==
  /\ sup = "look" /\ feed \in {"recv", "send"}
  /\ sup' = "delay" /\ CancelFeed
  /\ UNCHANGED <<life, caught, thread, loaded, startup, health, sockets, missed, torn>>

(* silent_seconds > MAX_SILENCE: infinite before the first message, and it
   grows while the feed waits for a message, for a heal or for a client. *)
SupMute ==
  /\ sup = "look" /\ feed \in {"recv", "send"}
  /\ sup' = "await" /\ CancelFeed
  /\ UNCHANGED <<life, caught, thread, loaded, startup, health, sockets, missed, torn>>

(* The task is done: looking, or awaiting the task it cancelled, the
   supervisor goes on to the delay. *)
SupReap ==
  /\ sup \in {"look", "await"} /\ feed = "done"
  /\ sup' = "delay"
  /\ UNCHANGED <<life, caught, thread, loaded, startup, feed, health, sockets, hub, torn>>

(* The top of the loop: create_task(run_feed()). *)
SupAgain ==
  /\ sup = "delay"
  /\ sup' = "look" /\ feed' = "recv"
  /\ UNCHANGED <<life, caught, thread, loaded, startup, health, sockets, hub, torn>>

FeedUnwinds ==
  /\ feed = "unwinding"
  /\ feed' = "done"
  /\ UNCHANGED <<life, caught, thread, loaded, startup, sup, health, sockets, hub, torn>>

(* A heal or a flush that raises ends the task. *)
FeedDies ==
  /\ feed = "recv"
  /\ feed' = "done"
  /\ UNCHANGED <<life, caught, thread, loaded, startup, sup, health, sockets, hub, torn>>

-----------------------------------------------------------------------------
(***************************************************************************)
(* Hub.send: a snapshot of the clients in any order, one await for each,   *)
(* the dead ones discarded at the end.  run_feed sends a bar, and two more *)
(* messages for each higher bar it closed; run_health sends one.           *)
(***************************************************************************)
Snapshot(s, todo, to) ==
  \E order \in SetToSeqs(to) :
    send' = [send EXCEPT ![s] = [todo |-> todo, queue |-> order, dead |-> {}]]

Connected == {c \in Clients : conn[c] \in {"greeting", "open"}}

Task(s) == IF s = "feed" THEN feed ELSE health
Sending(s) == Task(s) = "send"

FeedBar ==
  /\ feed = "recv"
  /\ \E k \in {1, 3} : Snapshot("feed", k, clients)
  /\ feed' = "send" /\ due' = Connected
  /\ UNCHANGED <<life, caught, thread, loaded, startup, sup, health, sockets, missed, torn>>

(* update_health, every five seconds. *)
HealthTick ==
  /\ health = "sleep"
  /\ health' = "send" /\ Snapshot("health", 1, clients)
  /\ UNCHANGED <<life, caught, thread, loaded, startup, sup, feed, sockets, due, missed, torn>>

Next1(s) == Head(send[s].queue)
Told(s) == [send EXCEPT ![s].queue = Tail(@)]

(* send_text returns.  To a peer that went away without our knowing it may. *)
SendTo(s) ==
  /\ Sending(s) /\ send[s].queue # <<>>
  /\ conn[Next1(s)] # "left" /\ peer[Next1(s)] # "slow"
  /\ send' = Told(s)
  /\ due' = IF s = "feed" THEN due \ {Next1(s)} ELSE due
  /\ UNCHANGED <<life, caught, tasks, sockets, missed, torn>>

(* Mutant: the first client that fails ends the broadcast. *)
SendRaisesToAll(s) ==
  /\ Sending(s) /\ send[s].queue # <<>> /\ peer[Next1(s)] = "gone"
  /\ send' = [send EXCEPT ![s].queue = <<>>, ![s].dead = @ \cup {Next1(s)}]
  /\ UNCHANGED <<life, caught, tasks, sockets, due, missed, torn>>

(* send_text raises: noted, and on to the next client. *)
SendRaises(s) ==
  /\ Sending(s) /\ send[s].queue # <<>> /\ peer[Next1(s)] = "gone"
  /\ send' = [Told(s) EXCEPT ![s].dead = @ \cup {Next1(s)}]
  /\ UNCHANGED <<life, caught, tasks, sockets, due, missed, torn>>

Back(s) == /\ feed' = IF s = "feed" THEN "recv" ELSE feed
           /\ health' = IF s = "health" THEN "sleep" ELSE health

(* Mutant: clients found dead stay in the hub. *)
KeptAll(s) == clients

(* The dead ones are discarded. *)
Kept(s) == clients \ send[s].dead

SendEnds(s) ==
  /\ Sending(s) /\ send[s].queue = <<>>
  /\ clients' = Kept(s)
  /\ \/ /\ send[s].todo > 1
        /\ Snapshot(s, send[s].todo - 1, clients')
        /\ due' = IF s = "feed" THEN Connected ELSE due
        /\ UNCHANGED <<feed, health>>
     \/ /\ send[s].todo = 1
        /\ send' = [send EXCEPT ![s] = Idle]
        /\ Back(s)
        /\ due' = IF s = "feed" THEN {} ELSE due
  /\ missed' = IF s = "feed" THEN missed \cup due ELSE missed
  /\ UNCHANGED <<life, caught, thread, loaded, startup, sup, conn, peer, slows, torn>>

-----------------------------------------------------------------------------
(***************************************************************************)
(* The WebSocket route, and the other end of its connections.              *)
(***************************************************************************)
(* Accepted, in the hub, and the first health message on its way. *)
WsJoins(c) ==
  /\ life = "serving" /\ ~Public
  /\ conn[c] = "out" /\ conn' = [conn EXCEPT ![c] = "greeting"]
  /\ clients' = clients \cup {c}
  /\ UNCHANGED <<life, caught, tasks, peer, slows, hub, torn>>

WsGreeted(c) ==
  /\ conn[c] = "greeting" /\ peer[c] # "slow"
  /\ conn' = [conn EXCEPT ![c] = "open"]
  /\ UNCHANGED <<life, caught, tasks, clients, peer, slows, hub, torn>>

(* The first send raises outside the try: the hub keeps the client. *)
WsGreetFails(c) ==
  /\ conn[c] = "greeting" /\ peer[c] = "gone"
  /\ conn' = [conn EXCEPT ![c] = "left"]
  /\ UNCHANGED <<life, caught, tasks, clients, peer, slows, hub, torn>>

(* receive_text raises WebSocketDisconnect; the finally discards the client. *)
WsLeaves(c) ==
  /\ conn[c] = "open" /\ peer[c] = "gone"
  /\ conn' = [conn EXCEPT ![c] = "left"]
  /\ clients' = clients \ {c}
  /\ UNCHANGED <<life, caught, tasks, peer, slows, hub, torn>>

(* The browser stops reading and the buffers are full. *)
PeerSlow(c) ==
  /\ conn[c] \in {"greeting", "open"} /\ peer[c] = "up" /\ slows < MaxSlow
  /\ peer' = [peer EXCEPT ![c] = "slow"] /\ slows' = slows + 1
  /\ UNCHANGED <<life, caught, tasks, clients, conn, hub, torn>>

(* It reads again, or uvicorn's ping finds that it does not answer. *)
PeerSettles(c) ==
  /\ peer[c] = "slow"
  /\ \E p \in {"up", "gone"} : peer' = [peer EXCEPT ![c] = p]
  /\ UNCHANGED <<life, caught, tasks, clients, conn, slows, hub, torn>>

PeerGone(c) ==
  /\ conn[c] \in {"greeting", "open"} /\ peer[c] = "up"
  /\ peer' = [peer EXCEPT ![c] = "gone"]
  /\ UNCHANGED <<life, caught, tasks, clients, conn, slows, hub, torn>>

-----------------------------------------------------------------------------
(***************************************************************************)
(* The end: uvicorn has closed the connections and the handlers are gone;  *)
(* lifespan flushes, cancels the tasks it knows and gathers them.  The     *)
(* feed task is not one of them.  A supervisor cancelled while it awaits   *)
(* the feed passes the cancellation on to it, and suppresses it.           *)
(***************************************************************************)
Quit(task) == IF task = "none" THEN "none" ELSE "ended"

(* Mutant: only the task of _start is cancelled. *)
ExitForgetsTasks ==
  /\ life = "serving" /\ \A c \in Clients : conn[c] \in {"out", "left"}
  /\ life' = "exiting" /\ caught' = (sup = "await")
  /\ startup' = IF startup = "warming" THEN "cancelled" ELSE startup
  /\ UNCHANGED <<thread, loaded, feed, sup, health, sockets, hub, torn>>

Exit ==
  /\ life = "serving" /\ \A c \in Clients : conn[c] \in {"out", "left"}
  /\ life' = "exiting" /\ caught' = (sup = "await")
  /\ startup' = IF startup = "warming" THEN "cancelled" ELSE startup
  /\ sup' = IF sup = "await" THEN sup ELSE Quit(sup)
  /\ health' = Quit(health)
  /\ send' = [send EXCEPT !["health"] = Idle]
  /\ UNCHANGED <<thread, loaded, feed, sockets, due, missed, torn>>

(* gather returns; asyncio.run cancels what is left, the feed task too. *)
Gathered ==
  /\ life = "exiting"
  /\ startup # "warming" /\ sup \in {"none", "ended"} /\ health \in {"none", "ended"}
  /\ life' = "stopped"
  /\ feed' = IF feed = "none" THEN "none" ELSE "done"
  /\ send' = [send EXCEPT !["feed"] = Idle] /\ due' = {}
  /\ UNCHANGED <<caught, thread, loaded, startup, sup, health, sockets, missed, torn>>

-----------------------------------------------------------------------------
Thread == WarmMonth \/ WarmReturns \/ WarmRaises

(* What the event loop runs between two awaits. *)
Loop(A) == life # "stopped" /\ A

Supervise == SupMute \/ SupReap \/ SupAgain
Fan(s) == SendTo(s) \/ SendRaises(s) \/ SendEnds(s)
Socket(c) == WsGreeted(c) \/ WsGreetFails(c) \/ WsLeaves(c)

ServerNext ==
  \/ Thread
  \/ Loop(StartupReady) \/ Loop(StartupFails)
  \/ Loop(SupMute) \/ Loop(SupReap) \/ Loop(SupAgain)
  \/ Loop(FeedUnwinds) \/ Loop(FeedDies) \/ Loop(FeedBar) \/ Loop(HealthTick)
  \/ \E s \in Senders : Loop(SendTo(s)) \/ Loop(SendRaises(s)) \/ Loop(SendEnds(s))
  \/ \E c \in Clients : Loop(WsJoins(c)) \/ Loop(Socket(c))
  \/ \E c \in Clients : PeerSlow(c) \/ PeerSettles(c) \/ PeerGone(c)
  \/ Loop(Exit) \/ Loop(Gathered)

(* The thread runs and the loop runs what is ready; sleeps end; a closing
   handshake has a timeout; a peer that stopped reads again or is dropped by
   uvicorn's ping.  Failures, bars, visitors and the exit need not happen. *)
Fairness ==
  /\ WF_serverVars(WarmMonth \/ WarmReturns)
  /\ WF_serverVars(Loop(StartupReady \/ StartupFails))
  /\ WF_serverVars(Loop(SupReap \/ SupAgain))
  /\ WF_serverVars(Loop(FeedUnwinds)) /\ WF_serverVars(Loop(HealthTick)) /\ WF_serverVars(Loop(Gathered))
  /\ \A s \in Senders : WF_serverVars(Loop(Fan(s)))
  /\ \A c \in Clients : WF_serverVars(Loop(Socket(c))) /\ WF_serverVars(PeerSettles(c))

ServerSpec == ServerInit /\ [][ServerNext]_serverVars /\ Fairness

-----------------------------------------------------------------------------
(***************************************************************************)
(* Properties.                                                             *)
(***************************************************************************)
(* A new feed task begins only when the one before it has ended, however it
   ended: two of them would share one KlineFeed and one list of pending bars
   (app.py:238-259). *)
OneFeedTask == [][sup = "delay" /\ sup' = "look" => feed = "done"]_serverVars

(* The rings never move under a validation: they are read in the loop, and
   only when the thread that also writes them has ended (app.py:420, 485, 533). *)
GatedReadsAreWhole == "gated" \notin torn

(* A browser that stays connected receives every message whose broadcast the
   feed completes, from the first one that begins after it joined, whatever
   other browsers come, stop reading or fail meanwhile (app.py:83-94). *)
NoMessageSkipped == \A c \in missed : peer[c] = "gone"

(* The hub forgets a browser that went away, also when its first message
   failed outside the try (app.py:609): the next broadcast finds it dead,
   provided the warm-up ended well. *)
GoneAreForgotten ==
  \A c \in Clients :
    (Ready /\ conn[c] = "left" /\ c \in clients) ~> (c \notin clients \/ life # "serving")

(* Once asked to stop the server stops, even while a broadcast hangs or the
   warm-up runs, unless the supervisor was waiting for a feed it had
   cancelled: then it suppresses its own cancellation and starts over
   (app.py:247), and gather never returns. *)
StopEnds == (life = "exiting" /\ ~caught) ~> (life = "stopped")

(* A probe of /api/status learns in the end, and for good, whether the
   service became ready or never will (app.py:291-307, 627-630). *)
ProbeLearns == <>[](Ready \/ Failed \/ life # "serving")
=============================================================================
