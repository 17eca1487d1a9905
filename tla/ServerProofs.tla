----------------------------- MODULE ServerProofs -----------------------------
(***************************************************************************)
(* The server: its life (ServerLife) and the files of bars it shares with  *)
(* the hydration process (BarFiles).                                       *)
(***************************************************************************)
EXTENDS ServerLife, BarFiles, FiniteSetTheorems, SequenceTheorems, WellFoundedInduction, TLAPS

-----------------------------------------------------------------------------
(***************************************************************************)
(* For any number of browsers and any length of the warm-up: no validation *)
(* reads rings that move under it, no feed task begins before the one      *)
(* before it has ended, and no broadcast the feed completes skips a        *)
(* browser that stayed.                                                    *)
(*                                                                         *)
(* The last needs the most: that the hub holds every open connection       *)
(* (Held), that only connections whose other end is gone are found dead    *)
(* (DeadAreGone), and that whoever is still to receive the message is      *)
(* still in the queue of the broadcast (DueAreQueued).                     *)
(***************************************************************************)

(* One broadcast. *)
Broadcasts == [todo : 0..3, queue : Seq(Clients), dead : SUBSET Clients]

HubType ==
  /\ clients \subseteq Clients
  /\ conn \in [Clients -> {"out", "greeting", "open", "left"}]
  /\ peer \in [Clients -> {"up", "slow", "gone"}]
  /\ send \in [Senders -> Broadcasts]
  /\ due \subseteq Clients /\ missed \subseteq Clients

Held == \A c \in Clients : conn[c] \in {"greeting", "open"} => c \in clients \/ peer[c] = "gone"
DeadAreGone == \A s \in Senders : \A c \in send[s].dead : peer[c] = "gone"
DueAreQueued == \A c \in due : c \in ToSet(send["feed"].queue) \/ peer[c] = "gone"

HubInv == HubType /\ Held /\ DeadAreGone /\ DueAreQueued /\ NoMessageSkipped

-----------------------------------------------------------------------------
(***************************************************************************)
(* The warm-up and the validations.                                        *)
(***************************************************************************)
WarmInv == (Ready => thread # "running") /\ GatedReadsAreWhole

(* No step that leaves the thread alone can tear a read. *)
LEMMA WarmSteps ==
  ASSUME WarmInv, [ServerNext]_serverVars
  PROVE  WarmInv'
<1> USE DEF WarmInv, Ready, GatedReadsAreWhole
<1>1. CASE WarmMonth BY <1>1 DEF WarmMonth, Reading, ValidateServes
<1>2. CASE WarmReturns \/ WarmRaises BY <1>2 DEF WarmReturns, WarmRaises
<1>3. CASE StartupReady \/ StartupFails BY <1>3 DEF StartupReady, StartupFails
<1>4. CASE Exit BY <1>4 DEF Exit
<1>5. CASE UNCHANGED <<thread, startup, torn>> BY <1>5
<1> QED
  BY <1>1, <1>2, <1>3, <1>4, <1>5
  DEF ServerNext, Thread, Loop, Socket, serverVars, tasks, SupMute, SupReap, SupAgain, FeedUnwinds, FeedDies,
      FeedBar, HealthTick, SendTo, SendRaises, SendEnds, WsJoins, WsGreeted, WsGreetFails,
      WsLeaves, PeerSlow, PeerSettles, PeerGone, Gathered

(* The rings never move under a validation (server/app.py:418, 484, 531).  *)
THEOREM ValidationsReadWhole == ServerSpec => []GatedReadsAreWhole
<1>1. ServerInit => WarmInv BY DEF ServerInit, WarmInv, Ready, GatedReadsAreWhole
<1>2. WarmInv /\ [ServerNext]_serverVars => WarmInv' BY WarmSteps
<1>3. WarmInv => GatedReadsAreWhole BY DEF WarmInv
<1> QED BY <1>1, <1>2, <1>3, PTL DEF ServerSpec

-----------------------------------------------------------------------------
(***************************************************************************)
(* The feed task.                                                          *)
(***************************************************************************)
(* The supervisor sleeps only after a task that has ended. *)
ReapedInv == sup = "delay" => feed = "done"

(* Every action, as far as the dead are concerned. *)
LEMMA ReapedSteps ==
  ASSUME ReapedInv, [ServerNext]_serverVars
  PROVE  ReapedInv'
<1> USE DEF ReapedInv
<1>1. CASE StartupReady BY <1>1 DEF StartupReady
<1>2. CASE SupMute \/ SupReap \/ SupAgain BY <1>2 DEF SupMute, SupReap, SupAgain
<1>3. CASE FeedUnwinds \/ FeedDies \/ FeedBar BY <1>3 DEF FeedUnwinds, FeedDies, FeedBar
<1>4. ASSUME NEW s \in Senders, SendEnds(s) PROVE ReapedInv'
  BY <1>4 DEF SendEnds, Back, Sending, Task, Senders
<1>5. CASE Exit BY <1>5 DEF Exit, Quit
<1>6. CASE Gathered BY <1>6 DEF Gathered
<1>7. CASE UNCHANGED <<sup, feed>> BY <1>7
<1> QED
  BY <1>1, <1>2, <1>3, <1>4, <1>5, <1>6, <1>7
  DEF ServerNext, Thread, Loop, Socket, serverVars, tasks, WarmMonth, WarmReturns, WarmRaises, StartupFails,
      HealthTick, SendTo, SendRaises, WsJoins, WsGreeted, WsGreetFails, WsLeaves,
      PeerSlow, PeerSettles, PeerGone

(* Two feed tasks never share the engine (server/app.py:238-259).          *)
THEOREM FeedTasksDoNotOverlap == ServerSpec => OneFeedTask
<1>1. ServerInit => ReapedInv BY DEF ServerInit, ReapedInv
<1>2. ReapedInv /\ [ServerNext]_serverVars => ReapedInv' BY ReapedSteps
<1>3. ReapedInv => [sup = "delay" /\ sup' = "look" => feed = "done"]_serverVars BY DEF ReapedInv
<1> QED BY <1>1, <1>2, <1>3, PTL DEF ServerSpec, OneFeedTask
-----------------------------------------------------------------------------
(***************************************************************************)
(* The broadcasts.                                                         *)
(***************************************************************************)
(* A snapshot of the hub holds each of its clients.                        *)
LEMMA SnapshotHoldsAll ==
  ASSUME ServerAssumption, NEW to \in SUBSET Clients, NEW order \in SetToSeqs(to)
  PROVE  order \in Seq(Clients) /\ ToSet(order) = to
<1> DEFINE n == Cardinality(to)
<1>1. IsFiniteSet(to) BY FS_Subset DEF ServerAssumption
<1>2. n \in Nat BY <1>1, FS_CardinalityType
<1>3. order \in [1..n -> to] /\ \A i, j \in 1..n : i # j => order[i] # order[j]
  BY DEF SetToSeqs
<1>4. order \in Seq(to) /\ DOMAIN order = 1..n BY <1>2, <1>3
<1>5. ToSet(order) \subseteq to BY <1>3 DEF ToSet
<1>6. ASSUME NEW x \in to, x \notin ToSet(order) PROVE FALSE
  <2>1. IsFiniteSet(to \ {x}) /\ Cardinality(to \ {x}) = n - 1 BY <1>1, FS_RemoveElement
  <2>2. IsFiniteSet(1..n) /\ Cardinality(1..n) = n
    <3>1. 1 \in Int /\ n \in Int BY <1>2
    <3>2. IsFiniteSet(1..n) /\ Cardinality(1..n) = IF 1 > n THEN 0 ELSE n - 1 + 1
      BY <3>1, FS_Interval
    <3> QED BY <1>2, <3>2
  <2>3. order \in [1..n -> to \ {x}] BY <1>3, <1>4, <1>6 DEF ToSet
  <2>4. Cardinality(to \ {x}) < Cardinality(1..n) BY <1>2, <2>1, <2>2
  <2>5. \E i, j \in 1..n : i # j /\ order[i] = order[j]
    <3> DEFINE N == 1..n
               T == to \ {x}
    <3>1. IsFiniteSet(N) /\ IsFiniteSet(T) /\ Cardinality(T) < Cardinality(N) /\ order \in [N -> T]
      BY <2>1, <2>2, <2>3, <2>4
    <3> HIDE DEF N, T
    <3>2. \E i, j \in N : i # j /\ order[i] = order[j] BY <3>1, FS_PigeonHole
    <3> QED BY <3>2 DEF N
  <2> QED BY <1>3, <2>5
<1>7. order \in Seq(Clients) BY <1>4
<1> QED BY <1>5, <1>6, <1>7

(* The queue less the one who was told. *)
LEMMA QueueTail ==
  ASSUME NEW q \in Seq(Clients), q # << >>
  PROVE  /\ Head(q) \in Clients /\ Tail(q) \in Seq(Clients)
         /\ \A c \in ToSet(q) : c = Head(q) \/ c \in ToSet(Tail(q))
<1>1. Head(q) \in Clients /\ Tail(q) \in Seq(Clients) OBVIOUS
<1>2. ASSUME NEW i \in 1..Len(q) PROVE q[i] = Head(q) \/ q[i] \in ToSet(Tail(q))
  <2>1. CASE i = 1 BY <2>1
  <2>2. CASE i # 1
    <3>1. i - 1 \in 1..Len(Tail(q)) /\ Tail(q)[i - 1] = q[i] BY <2>2
    <3>2. i - 1 \in DOMAIN Tail(q) BY <1>1, <3>1
    <3> QED BY <3>1, <3>2 DEF ToSet
  <2> QED BY <2>1, <2>2
<1>3. DOMAIN q = 1..Len(q) OBVIOUS
<1> QED BY <1>1, <1>2, <1>3 DEF ToSet

(* A bar is fed. *)
LEMMA FeedBarKeeps ==
  ASSUME ServerAssumption, HubInv, FeedBar
  PROVE  HubInv'
<1> USE DEF HubInv
<1>1. PICK k \in {1, 3}, order \in SetToSeqs(clients) :
        send' = [send EXCEPT !["feed"] = [todo |-> k, queue |-> order, dead |-> {}]]
  BY DEF FeedBar, Snapshot
<1>2. order \in Seq(Clients) /\ ToSet(order) = clients
  BY <1>1, SnapshotHoldsAll DEF HubType
<1>3. UNCHANGED sockets /\ missed' = missed /\ due' = Connected BY DEF FeedBar
<1>4. [todo |-> k, queue |-> order, dead |-> {}] \in Broadcasts BY <1>2 DEF Broadcasts
<1>5. HubType' BY <1>1, <1>3, <1>4 DEF HubType, sockets, Connected, Senders
<1>6. Held' /\ NoMessageSkipped' BY <1>3 DEF Held, NoMessageSkipped, sockets
<1>7. DeadAreGone' BY <1>1, <1>3 DEF DeadAreGone, HubType, sockets, Senders
<1>8. send'["feed"].queue = order BY <1>1 DEF HubType, Senders
<1>9. DueAreQueued' BY <1>2, <1>3, <1>8 DEF DueAreQueued, Held, Connected, sockets
<1> QED BY <1>5, <1>6, <1>7, <1>9

(* The health of the feed is sent round. *)
LEMMA HealthTickKeeps ==
  ASSUME ServerAssumption, HubInv, HealthTick
  PROVE  HubInv'
<1> USE DEF HubInv
<1>1. PICK order \in SetToSeqs(clients) :
        send' = [send EXCEPT !["health"] = [todo |-> 1, queue |-> order, dead |-> {}]]
  BY DEF HealthTick, Snapshot
<1>2. order \in Seq(Clients) BY <1>1, SnapshotHoldsAll DEF HubType
<1>3. UNCHANGED <<sockets, missed, due>> BY DEF HealthTick
<1>4. [todo |-> 1, queue |-> order, dead |-> {}] \in Broadcasts BY <1>2 DEF Broadcasts
<1>5. HubType' BY <1>1, <1>3, <1>4 DEF HubType, sockets, Senders
<1>6. Held' /\ NoMessageSkipped' BY <1>3 DEF Held, NoMessageSkipped, sockets
<1>7. DeadAreGone' BY <1>1, <1>3 DEF DeadAreGone, HubType, sockets, Senders
<1>8. send'["feed"] = send["feed"] BY <1>1 DEF HubType, Senders
<1>9. DueAreQueued' BY <1>3, <1>8 DEF DueAreQueued, sockets
<1> QED BY <1>5, <1>6, <1>7, <1>9

(* A message is sent to one socket. *)
LEMMA SendToKeeps ==
  ASSUME HubInv, NEW s \in Senders, SendTo(s)
  PROVE  HubInv'
<1> USE DEF HubInv
<1> DEFINE q == send[s].queue
<1>1. send[s] \in Broadcasts /\ q \in Seq(Clients) /\ q # << >>
  BY DEF HubType, SendTo, Broadcasts
<1>2. /\ Head(q) \in Clients /\ Tail(q) \in Seq(Clients)
      /\ \A c \in ToSet(q) : c = Head(q) \/ c \in ToSet(Tail(q))
  BY <1>1, QueueTail
<1>3. /\ UNCHANGED <<sockets, missed>> /\ send' = [send EXCEPT ![s].queue = Tail(q)]
      /\ due' = IF s = "feed" THEN due \ {Head(q)} ELSE due
  BY DEF SendTo, Told, Next1
<1>4. send'[s] = [send[s] EXCEPT !.queue = Tail(q)] /\ \A r \in Senders \ {s} : send'[r] = send[r]
  BY <1>3 DEF HubType
<1>5. send'[s] \in Broadcasts /\ send'[s].queue = Tail(q) /\ send'[s].dead = send[s].dead
  BY <1>1, <1>2, <1>4 DEF Broadcasts
<1>6. HubType' BY <1>3, <1>5 DEF HubType, sockets
<1>7. Held' /\ NoMessageSkipped' BY <1>3 DEF Held, NoMessageSkipped, sockets
<1>8. DeadAreGone' BY <1>3, <1>4, <1>5 DEF DeadAreGone, sockets
<1>9. DueAreQueued'
  <2>1. CASE s = "feed" BY <1>2, <1>3, <1>5, <2>1 DEF DueAreQueued, sockets
  <2>2. CASE s # "feed"
    <3>1. "feed" \in Senders BY DEF Senders
    <3> QED BY <1>3, <1>4, <2>2, <3>1 DEF DueAreQueued, sockets
  <2> QED BY <2>1, <2>2
<1> QED BY <1>6, <1>7, <1>8, <1>9

(* A send raises. *)
LEMMA SendRaisesKeeps ==
  ASSUME HubInv, NEW s \in Senders, SendRaises(s)
  PROVE  HubInv'
<1> USE DEF HubInv
<1> DEFINE q == send[s].queue
           dead == send[s].dead \cup {Head(q)}
<1>1. send[s] \in Broadcasts /\ q \in Seq(Clients) /\ q # << >>
  BY DEF HubType, SendRaises, Broadcasts
<1>2. /\ Head(q) \in Clients /\ Tail(q) \in Seq(Clients)
      /\ \A c \in ToSet(q) : c = Head(q) \/ c \in ToSet(Tail(q))
  BY <1>1, QueueTail
<1>3. /\ UNCHANGED <<sockets, missed, due>> /\ peer[Head(q)] = "gone"
      /\ send' = [[send EXCEPT ![s].queue = Tail(q)] EXCEPT ![s].dead = @ \cup {Head(q)}]
  BY DEF SendRaises, Told, Next1
<1>4. /\ send'[s] = [send[s] EXCEPT !.queue = Tail(q), !.dead = dead]
      /\ \A r \in Senders \ {s} : send'[r] = send[r]
  BY <1>1, <1>3 DEF HubType, Broadcasts
<1>5. send'[s] \in Broadcasts /\ send'[s].queue = Tail(q) /\ send'[s].dead = dead
  BY <1>1, <1>2, <1>4 DEF Broadcasts
<1>6. HubType' BY <1>3, <1>5 DEF HubType, sockets
<1>7. Held' /\ NoMessageSkipped' BY <1>3 DEF Held, NoMessageSkipped, sockets
<1>8. DeadAreGone' BY <1>3, <1>4, <1>5 DEF DeadAreGone, sockets
<1>9. DueAreQueued'
  <2>1. CASE s = "feed" BY <1>2, <1>3, <1>5, <2>1 DEF DueAreQueued, sockets
  <2>2. CASE s # "feed"
    <3>1. "feed" \in Senders BY DEF Senders
    <3> QED BY <1>3, <1>4, <2>2, <3>1 DEF DueAreQueued, sockets
  <2> QED BY <2>1, <2>2
<1> QED BY <1>6, <1>7, <1>8, <1>9

(* The last send has returned. *)
LEMMA SendEndsKeeps ==
  ASSUME ServerAssumption, HubInv, NEW s \in Senders, SendEnds(s)
  PROVE  HubInv'
<1> USE DEF HubInv
<1>1. /\ UNCHANGED <<conn, peer>> /\ clients' = clients \ send[s].dead
      /\ send[s].queue = << >> /\ send[s].dead \subseteq Clients /\ send[s].todo \in 0..3
      /\ missed' = IF s = "feed" THEN missed \cup due ELSE missed
  BY DEF SendEnds, Kept, HubType, Broadcasts
<1>2. Held' /\ clients' \subseteq Clients BY <1>1 DEF Held, DeadAreGone, HubType
<1>3. s = "feed" => \A c \in due : peer[c] = "gone" BY <1>1 DEF DueAreQueued, ToSet
<1>4. NoMessageSkipped' /\ missed' \subseteq Clients BY <1>1, <1>3 DEF NoMessageSkipped, HubType
<1>5. PICK new : /\ send' = [send EXCEPT ![s] = new] /\ new \in Broadcasts /\ new.dead = {}
                 /\ \/ ToSet(new.queue) = clients' /\ due' = IF s = "feed" THEN Connected ELSE due
                    \/ due' = IF s = "feed" THEN {} ELSE due
  <2>1. CASE /\ send[s].todo > 1
             /\ Snapshot(s, send[s].todo - 1, clients')
             /\ due' = IF s = "feed" THEN Connected ELSE due
    <3>1. PICK order \in SetToSeqs(clients') :
            send' = [send EXCEPT ![s] = [todo |-> send[s].todo - 1, queue |-> order, dead |-> {}]]
      BY <2>1 DEF Snapshot
    <3>2. order \in Seq(Clients) /\ ToSet(order) = clients'
      BY <1>2, <3>1, SnapshotHoldsAll
    <3> DEFINE new == [todo |-> send[s].todo - 1, queue |-> order, dead |-> {}]
    <3>3. new \in Broadcasts /\ new.dead = {} /\ ToSet(new.queue) = clients'
      BY <1>1, <2>1, <3>2 DEF Broadcasts
    <3>4. send' = [send EXCEPT ![s] = new] BY <3>1
    <3> HIDE DEF new
    <3> QED BY <2>1, <3>3, <3>4
  <2>2. CASE send' = [send EXCEPT ![s] = Idle] /\ due' = IF s = "feed" THEN {} ELSE due
    <3>1. Idle \in Broadcasts /\ Idle.dead = {} BY DEF Idle, Broadcasts
    <3> QED BY <2>2, <3>1
  <2> QED BY <2>1, <2>2 DEF SendEnds
<1>6. HubType' BY <1>1, <1>2, <1>4, <1>5 DEF HubType, Connected
<1>7. send'[s] = new /\ \A r \in Senders \ {s} : send'[r] = send[r] BY <1>5 DEF HubType
<1>8. DeadAreGone' BY <1>1, <1>5, <1>7 DEF DeadAreGone
<1>9. DueAreQueued'
  <2>1. CASE s = "feed"
    <3>1. \A c \in Connected : c \in clients' \/ peer'[c] = "gone"
      BY <1>1, <1>2 DEF Held, Connected
    <3> QED BY <1>5, <1>7, <2>1, <3>1 DEF DueAreQueued
  <2>2. CASE s # "feed"
    <3>1. "feed" \in Senders BY DEF Senders
    <3> QED BY <1>1, <1>5, <1>7, <2>2, <3>1 DEF DueAreQueued
  <2> QED BY <2>1, <2>2
<1> QED BY <1>2, <1>4, <1>6, <1>8, <1>9

(* A broadcast that is dropped owes nothing to anybody. *)
LEMMA DropKeeps ==
  ASSUME HubInv, NEW s \in Senders, send' = [send EXCEPT ![s] = Idle],
         UNCHANGED <<sockets, missed>>, due' = IF s = "feed" THEN {} ELSE due
  PROVE  HubInv'
<1> USE DEF HubInv
<1>1. Idle \in Broadcasts /\ Idle.dead = {} BY DEF Idle, Broadcasts
<1>2. send'[s] = Idle /\ \A r \in Senders \ {s} : send'[r] = send[r] BY DEF HubType
<1>3. HubType' BY <1>1 DEF HubType, sockets
<1>4. Held' /\ NoMessageSkipped' BY DEF Held, NoMessageSkipped, sockets
<1>5. DeadAreGone' BY <1>1, <1>2 DEF DeadAreGone, sockets
<1>6. DueAreQueued' BY <1>2 DEF DueAreQueued, sockets, Senders
<1> QED BY <1>3, <1>4, <1>5, <1>6

(* The handler of one connection, or its other end. *)
LEMMA SocketKeeps ==
  ASSUME HubInv, NEW c \in Clients,
         WsJoins(c) \/ Socket(c) \/ PeerSlow(c) \/ PeerSettles(c) \/ PeerGone(c)
  PROVE  HubInv'
<1> USE DEF HubInv
<1>1. UNCHANGED hub
  BY DEF Socket, WsJoins, WsGreeted, WsGreetFails, WsLeaves, PeerSlow, PeerSettles, PeerGone
<1>2. \A d \in Clients : peer[d] = "gone" => peer'[d] = "gone"
  BY DEF HubType, Socket, WsJoins, WsGreeted, WsGreetFails, WsLeaves, PeerSlow, PeerSettles, PeerGone
<1>3. HubType'
  BY <1>1 DEF HubType, hub, Socket, WsJoins, WsGreeted, WsGreetFails, WsLeaves,
              PeerSlow, PeerSettles, PeerGone
<1>4. Held'
  BY DEF HubType, Held, Socket, WsJoins, WsGreeted, WsGreetFails, WsLeaves,
         PeerSlow, PeerSettles, PeerGone
<1>5. DeadAreGone' BY <1>1, <1>2 DEF DeadAreGone, hub, HubType, Broadcasts
<1>6. DueAreQueued' BY <1>1, <1>2 DEF DueAreQueued, hub, HubType
<1>7. NoMessageSkipped' BY <1>1, <1>2 DEF NoMessageSkipped, hub, HubType
<1> QED BY <1>3, <1>4, <1>5, <1>6, <1>7

(* The invariant under every step. *)
LEMMA HubSteps ==
  ASSUME ServerAssumption, HubInv, [ServerNext]_serverVars
  PROVE  HubInv'
<1>1. "feed" \in Senders /\ "health" \in Senders BY DEF Senders
<1>2. CASE FeedBar BY <1>2, FeedBarKeeps
<1>3. CASE HealthTick BY <1>3, HealthTickKeeps
<1>4. ASSUME NEW s \in Senders, SendTo(s) \/ SendRaises(s) \/ SendEnds(s) PROVE HubInv'
  BY <1>4, SendToKeeps, SendRaisesKeeps, SendEndsKeeps
<1>5. CASE SupMute BY <1>1, <1>5, DropKeeps DEF SupMute, CancelFeed
<1>6. CASE Exit BY <1>1, <1>6, DropKeeps DEF Exit
<1>7. CASE Gathered BY <1>1, <1>7, DropKeeps DEF Gathered
<1>8. ASSUME NEW c \in Clients,
             WsJoins(c) \/ Socket(c) \/ PeerSlow(c) \/ PeerSettles(c) \/ PeerGone(c)
      PROVE  HubInv'
  BY <1>8, SocketKeeps
<1>9. CASE UNCHANGED <<sockets, hub>>
  BY <1>9 DEF sockets, hub, HubInv, HubType, Held, DeadAreGone, DueAreQueued, NoMessageSkipped
<1> QED
  BY <1>2, <1>3, <1>4, <1>5, <1>6, <1>7, <1>8, <1>9
  DEF ServerNext, Thread, Loop, serverVars, WarmMonth, WarmReturns, WarmRaises, StartupReady, StartupFails,
      SupReap, SupAgain, FeedUnwinds, FeedDies

(* The hub and the broadcasts are in order (server/app.py:83-94).          *)
THEOREM HubInvariant == ServerSpec => []HubInv
<1>1. ServerInit => HubInv
  BY DEF ServerInit, HubInv, HubType, Held, DeadAreGone, DueAreQueued, NoMessageSkipped, Idle, Broadcasts
<1>2. HubInv /\ [ServerNext]_serverVars => HubInv' BY ServerAssumption, HubSteps
<1> QED BY <1>1, <1>2, PTL DEF ServerSpec

(* No broadcast the feed completes skips a browser that stayed.            *)
THEOREM NobodyIsSkipped == ServerSpec => []NoMessageSkipped
<1>1. HubInv => NoMessageSkipped BY DEF HubInv
<1> QED BY <1>1, HubInvariant, PTL

-----------------------------------------------------------------------------
(***************************************************************************)
(* For any number and length of months, of runs and of failures: no file   *)
(* is ever half of one, a row an ingest returned with is lost only to an   *)
(* overlap of the two processes in its month, and what is missing when the *)
(* hydration reports is accounted for.                                     *)
(*                                                                         *)
(* The argument: what a process is about to replace a file with is the     *)
(* file it read and its own rows (Exact), and that file is still the one   *)
(* on disk unless the other process was inside the same month (Fresh).     *)
(* For what is missing, two things are followed.  This month is filled     *)
(* from its first day on, whoever writes it (Prefix): the days a process   *)
(* is about to bring close up with what is settled before them (Owed), the *)
(* server's because it has what came up to its last day (Had), the         *)
(* hydration's because it takes the days in order (Ahead).  Of the other   *)
(* months, one that was listed was kept, waits, or has all its rows on     *)
(* disk or in the ingest under way (Listed).                               *)
(***************************************************************************)

(* The state of one ingest. *)
Ingests == [at : {"next", "open", "fill", "replace"}, todo : SUBSET Day, base : SUBSET Day]

ClockType == now \in 1..(NMonths * MonthLen) /\ last \in Day \cup {-1}

(* The hydration is a record, of which only its days matter here. *)
RunType ==
  h \in [at : {h.at}, pending : {h.pending}, days : SUBSET Day, listed : {h.listed}, kept : {h.kept}]

DiskType ==
  /\ w \in [Writers -> Ingests]
  /\ tmp \in [Writers -> [state : {"none", "half", "whole"}, rows : SUBSET Day]]
  /\ file \in [Month -> SUBSET Day]
  /\ acked \subseteq Day

(* An ingest that has begun a month has rows for it. *)
Busy == \A p \in Writers : w[p].at # "next" => w[p].todo # {}

(* The file about to be renamed is complete. *)
Exact == \A p \in Writers :
  w[p].at = "replace" => tmp[p].state = "whole" /\ tmp[p].rows = Merged(p)

(* The file of the month a process is inside of is the one it read. *)
Fresh == \A p \in Writers :
  w[p].at # "next" => \/ file[Chunk(p).month] = w[p].base
                      \/ Chunk(p).month \in overlapped

(* Two processes inside the same month are noticed. *)
Noticed == \A p, q \in Writers :
  p # q /\ w[p].at # "next" /\ w[q].at # "next" /\ Chunk(p).month = Chunk(q).month
    => Chunk(p).month \in overlapped

DiskInv == DiskType /\ Busy /\ Exact /\ Fresh /\ Noticed /\ NoHalfFile /\ OnlyOverlapLoses
FilesInv == ClockType /\ RunType /\ DiskInv

-----------------------------------------------------------------------------
(* Arithmetic. *)
LEMMA QuotientInRange ==
  ASSUME NEW M \in Nat \ {0}, NEW N \in Nat \ {0}, NEW d \in 0..(N * M - 1)
  PROVE  d \div M \in 0..(N - 1)
<1> DEFINE q == d \div M
<1>1. q \in Int /\ d % M \in 0..(M - 1) /\ d = M * q + (d % M) OBVIOUS
<1>2. q >= 0 BY <1>1, d >= 0
<1>3. q <= N - 1
  <2> SUFFICES ASSUME q >= N PROVE FALSE BY <1>1
  <2>1. M * q >= M * N BY <1>1
  <2>2. M * N = N * M OBVIOUS
  <2> QED BY <2>1, <2>2, <1>1
<1> QED BY <1>1, <1>2, <1>3

(* Every set of naturals has a least element. *)
LEMMA HasLeast ==
  ASSUME NEW S \in SUBSET Nat, S # {}
  PROVE  \E x \in S : \A y \in S : x <= y
<1> DEFINE R == OpToRel(<, Nat)
<1>1. IsWellFoundedOn(R, Nat) BY NatLessThanWellFounded
<1>2. \A a, b \in Nat : a < b => <<a, b>> \in R BY DEF OpToRel
<1> HIDE DEF R
<1>3. PICK x \in S : \A y \in S : ~(<<y, x>> \in R) BY <1>1, WFMin, Zenon
<1>4. \A y \in S : ~(y < x) BY <1>2, <1>3, Zenon
<1> QED BY <1>4

(* Every bounded one has a greatest: the least seen from above. *)
LEMMA MaxIsMember ==
  ASSUME NEW K \in Nat, NEW S \in SUBSET ((-1)..K), S # {}
  PROVE  Max(S) \in S /\ \A y \in S : Max(S) >= y
<1> DEFINE T == {K - x : x \in S}
<1>1. \A x \in S : x \in Int /\ K - x \in Nat OBVIOUS
<1>2. PICK x \in S : \A t \in T : K - x <= t
  <2>1. T \in SUBSET Nat /\ T # {} BY <1>1
  <2> QED BY <2>1, HasLeast
<1>3. ASSUME NEW y \in S PROVE x >= y
  <2>1. K - x <= K - y BY <1>2
  <2> QED BY <1>1, <2>1
<1> QED BY <1>3 DEF Max

(* Min is the least of them. *)
LEMMA MinIsMember ==
  ASSUME NEW S \in SUBSET Nat, S # {}
  PROVE  Min(S) \in S /\ \A y \in S : Min(S) <= y
BY HasLeast DEF Min

(* Every day has its month. *)
LEMMA MonthsOfDays ==
  ASSUME NEW d \in Day
  PROVE  MonthOf(d) \in Month
BY FilesAssumption, QuotientInRange DEF Day, Month, MonthOf

(* A month's chunk holds rows of a month there is. *)
LEMMA ChunkType ==
  ASSUME DiskType, NEW p \in Writers, w[p].todo # {}
  PROVE  /\ Chunk(p).month \in Month
         /\ Chunk(p).rows \subseteq Day
         /\ \A d \in Chunk(p).rows : MonthOf(d) = Chunk(p).month
<1>1. w[p].todo \in SUBSET Day BY DEF DiskType, Ingests
<1>2. Day \subseteq Nat BY FilesAssumption DEF Day
<1>3. Min(w[p].todo) \in w[p].todo BY <1>1, <1>2, MinIsMember
<1>4. MonthOf(Min(w[p].todo)) \in Month BY <1>1, <1>3, MonthsOfDays
<1> QED BY <1>1, <1>4 DEF Chunk, DaysOf

-----------------------------------------------------------------------------
(***************************************************************************)
(* The disk, step by step.                                                 *)
(***************************************************************************)
(* What no step of an ingest touches leaves the invariant of the disk. *)
LEMMA DiskUntouched ==
  ASSUME DiskInv, UNCHANGED disk
  PROVE  DiskInv'
BY DEF DiskInv, disk, DiskType, Busy, Exact, Fresh, Noticed, NoHalfFile, OnlyOverlapLoses,
       Chunk, Merged

(* A process that lets go of its ingest, or begins one, is outside. *)
LEMMA DiskOutside ==
  ASSUME DiskInv, NEW p \in Writers, NEW rows \in SUBSET Day,
         w' = [w EXCEPT ![p] = [NoIngest EXCEPT !.todo = rows]],
         tmp' \in {tmp, [tmp EXCEPT ![p] = NoFile]},
         UNCHANGED <<file, half, acked, overlapped>>
  PROVE  DiskInv'
<1>1. DiskType'
  <2>1. [NoIngest EXCEPT !.todo = rows] \in Ingests BY DEF NoIngest, Ingests
  <2>2. w' \in [Writers -> Ingests] BY <2>1 DEF DiskInv, DiskType
  <2>3. NoFile \in [state : {"none", "half", "whole"}, rows : SUBSET Day] BY DEF NoFile
  <2>4. tmp' \in [Writers -> [state : {"none", "half", "whole"}, rows : SUBSET Day]]
    BY <2>3 DEF DiskInv, DiskType
  <2> QED BY <2>2, <2>4 DEF DiskInv, DiskType
<1>2. w'[p].at = "next" /\ \A q \in Writers \ {p} : w'[q] = w[q] /\ tmp'[q] = tmp[q]
  BY DEF DiskInv, DiskType, NoIngest
<1>3. Busy' BY <1>2 DEF DiskInv, Busy
<1>4. Exact' BY <1>2 DEF DiskInv, Exact, Merged, Chunk
<1>5. Fresh' BY <1>2 DEF DiskInv, Fresh, Chunk
<1>6. Noticed' BY <1>2 DEF DiskInv, Noticed, Chunk
<1>7. NoHalfFile' /\ OnlyOverlapLoses' BY DEF DiskInv, NoHalfFile, OnlyOverlapLoses
<1> QED BY <1>1, <1>3, <1>4, <1>5, <1>6, <1>7 DEF DiskInv

(* ingest: the month's file is read, or has all the rows already. *)
LEMMA DiskRead ==
  ASSUME DiskInv, NEW p \in Writers, IngestReads(p)
  PROVE  DiskInv'
<1> DEFINE k == Chunk(p).month
<1>1. w[p].todo # {} /\ w[p].at = "next" BY DEF IngestReads, Done
<1>2. k \in Month BY <1>1, ChunkType DEF DiskInv
<1>3. file[k] \in SUBSET Day BY <1>2 DEF DiskInv, DiskType
<1>4. UNCHANGED <<file, half, tmp, acked>> BY DEF IngestReads
<1>5. CASE UNCHANGED overlapped /\ w' = [w EXCEPT ![p].todo = Others(p)]
  <2>1. Others(p) \in SUBSET Day BY DEF DiskInv, DiskType, Ingests, Others
  <2>2. DiskType' BY <1>4, <1>5, <2>1 DEF DiskInv, DiskType, Ingests
  <2>3. w'[p].at = "next" /\ \A q \in Writers \ {p} : w'[q] = w[q]
    BY <1>1, <1>5 DEF DiskInv, DiskType, Ingests
  <2>4. Busy' BY <2>3 DEF DiskInv, Busy
  <2>5. Exact' BY <1>4, <2>3 DEF DiskInv, Exact, Merged, Chunk
  <2>6. Fresh' BY <1>4, <1>5, <2>3 DEF DiskInv, Fresh, Chunk
  <2>7. Noticed' BY <1>5, <2>3 DEF DiskInv, Noticed, Chunk
  <2>8. NoHalfFile' /\ OnlyOverlapLoses'
    BY <1>4, <1>5 DEF DiskInv, NoHalfFile, OnlyOverlapLoses
  <2> QED BY <2>2, <2>4, <2>5, <2>6, <2>7, <2>8 DEF DiskInv
<1>6. CASE /\ w' = [w EXCEPT ![p].at = "open", ![p].base = file[k]]
           /\ overlapped' = IF \E q \in Writers \ {p} : k \in Inside(q)
                            THEN overlapped \cup {k} ELSE overlapped
  <2>1. DiskType' BY <1>3, <1>4, <1>6 DEF DiskInv, DiskType, Ingests
  <2>2. /\ w'[p] = [at |-> "open", todo |-> w[p].todo, base |-> file[k]]
        /\ \A q \in Writers \ {p} : w'[q] = w[q]
    BY <1>6 DEF DiskInv, DiskType, Ingests
  <2>3. \A q \in Writers : Chunk(q)' = Chunk(q) BY <2>2 DEF Chunk
  <2>4. overlapped \subseteq overlapped' BY <1>6
  <2>5. Busy' BY <1>1, <2>2 DEF DiskInv, Busy
  <2>6. Exact' BY <1>4, <2>2, <2>3 DEF DiskInv, Exact, Merged
  <2>7. Fresh' BY <1>4, <2>2, <2>3, <2>4 DEF DiskInv, Fresh
  <2>8. \A q \in Writers \ {p} : w[q].at # "next" /\ Chunk(q).month = k => k \in overlapped'
    BY <1>6 DEF Inside
  <2>9. Noticed' BY <2>2, <2>3, <2>4, <2>8 DEF DiskInv, Noticed
  <2>10. NoHalfFile' /\ OnlyOverlapLoses'
    BY <1>4, <2>4 DEF DiskInv, NoHalfFile, OnlyOverlapLoses
  <2> QED BY <2>1, <2>5, <2>6, <2>7, <2>9, <2>10 DEF DiskInv
<1> QED BY <1>5, <1>6 DEF IngestReads

(* The temporary file is opened, and filled. *)
LEMMA DiskFilled ==
  ASSUME DiskInv, NEW p \in Writers, IngestOpens(p) \/ IngestFills(p)
  PROVE  DiskInv'
<1> DEFINE Files == [state : {"none", "half", "whole"}, rows : SUBSET Day]
<1>1. w[p].at \in {"open", "fill"} BY DEF IngestOpens, IngestFills
<1>2. w[p].todo # {} BY <1>1 DEF DiskInv, Busy
<1>3. Merged(p) \in SUBSET Day BY <1>2, ChunkType DEF DiskInv, DiskType, Ingests, Merged
<1>4. UNCHANGED <<file, half, acked, overlapped>> BY DEF IngestOpens, IngestFills
<1>5. \/ /\ tmp' = [tmp EXCEPT ![p] = [state |-> "half", rows |-> {}]]
         /\ w' = [w EXCEPT ![p].at = "fill"]
      \/ /\ tmp' = [tmp EXCEPT ![p] = [state |-> "whole", rows |-> Merged(p)]]
         /\ w' = [w EXCEPT ![p].at = "replace"]
  BY DEF IngestOpens, IngestFills, Tmp
<1>6. \E at \in {"fill", "replace"}, t \in Files :
        /\ w' = [w EXCEPT ![p].at = at] /\ tmp' = [tmp EXCEPT ![p] = t]
        /\ at = "replace" => t.state = "whole" /\ t.rows = Merged(p)
  <2>1. CASE /\ tmp' = [tmp EXCEPT ![p] = [state |-> "half", rows |-> {}]]
             /\ w' = [w EXCEPT ![p].at = "fill"]
    <3> WITNESS "fill" \in {"fill", "replace"}, [state |-> "half", rows |-> {}] \in Files
    <3> QED BY <2>1
  <2>2. CASE /\ tmp' = [tmp EXCEPT ![p] = [state |-> "whole", rows |-> Merged(p)]]
             /\ w' = [w EXCEPT ![p].at = "replace"]
    <3>1. [state |-> "whole", rows |-> Merged(p)] \in Files BY <1>3
    <3> WITNESS "replace" \in {"fill", "replace"}, [state |-> "whole", rows |-> Merged(p)] \in Files
    <3> QED BY <2>2
  <2> QED BY <1>5, <2>1, <2>2
<1>7. PICK at \in {"fill", "replace"}, t \in Files :
        /\ w' = [w EXCEPT ![p].at = at] /\ tmp' = [tmp EXCEPT ![p] = t]
        /\ at = "replace" => t.state = "whole" /\ t.rows = Merged(p)
  BY <1>6
<1>8. DiskType' BY <1>4, <1>7 DEF DiskInv, DiskType, Ingests
<1>9. /\ w'[p] = [at |-> at, todo |-> w[p].todo, base |-> w[p].base] /\ tmp'[p] = t
      /\ \A q \in Writers \ {p} : w'[q] = w[q] /\ tmp'[q] = tmp[q]
  BY <1>7 DEF DiskInv, DiskType, Ingests
<1>10. \A q \in Writers : Chunk(q)' = Chunk(q) /\ Merged(q)' = Merged(q)
  BY <1>9 DEF Chunk, Merged
<1>11. Busy' BY <1>2, <1>9 DEF DiskInv, Busy
<1>12. Exact' BY <1>7, <1>9, <1>10 DEF DiskInv, Exact
<1>13. Fresh' BY <1>1, <1>4, <1>9, <1>10 DEF DiskInv, Fresh
<1>14. Noticed' BY <1>1, <1>4, <1>9, <1>10 DEF DiskInv, Noticed
<1>15. NoHalfFile' /\ OnlyOverlapLoses' BY <1>4 DEF DiskInv, NoHalfFile, OnlyOverlapLoses
<1> QED BY <1>8, <1>11, <1>12, <1>13, <1>14, <1>15 DEF DiskInv

(* The month's file is replaced. *)
LEMMA DiskReplaced ==
  ASSUME DiskInv, NEW p \in Writers, IngestReplaces(p)
  PROVE  DiskInv'
<1> DEFINE k == Chunk(p).month
<1>1. w[p].at = "replace" BY DEF IngestReplaces
<1>2. /\ w[p].todo # {} /\ tmp[p].state = "whole" /\ tmp[p].rows = Merged(p)
      /\ file[k] = w[p].base \/ k \in overlapped
  BY <1>1 DEF DiskInv, Busy, Exact, Fresh
<1>3. /\ k \in Month /\ Chunk(p).rows \subseteq Day
      /\ \A d \in Chunk(p).rows : MonthOf(d) = k
  BY <1>2, ChunkType DEF DiskInv
<1>4. Merged(p) = w[p].base \cup Chunk(p).rows /\ Merged(p) \in SUBSET Day
  BY <1>3 DEF Merged, DiskInv, DiskType, Ingests
<1>5. /\ file' = [file EXCEPT ![k] = Merged(p)] /\ half' = half \ {k}
      /\ tmp' = [tmp EXCEPT ![p] = NoFile]
      /\ acked' = acked \cup Chunk(p).rows
      /\ w' = [w EXCEPT ![p] = [NoIngest EXCEPT !.todo = Others(p)]]
      /\ UNCHANGED overlapped
  BY <1>2 DEF IngestReplaces, Tmp
<1>6. Others(p) \in SUBSET Day BY DEF DiskInv, DiskType, Ingests, Others
<1>7. DiskType'
  <2>1. [NoIngest EXCEPT !.todo = Others(p)] \in Ingests BY <1>6 DEF NoIngest, Ingests
  <2>2. NoFile \in [state : {"none", "half", "whole"}, rows : SUBSET Day] BY DEF NoFile
  <2> QED BY <1>3, <1>4, <1>5, <2>1, <2>2 DEF DiskInv, DiskType
<1>8. w'[p].at = "next" /\ \A q \in Writers \ {p} : w'[q] = w[q] /\ tmp'[q] = tmp[q]
  BY <1>5 DEF DiskInv, DiskType, NoIngest
<1>9. \A q \in Writers \ {p} : Chunk(q)' = Chunk(q) /\ Merged(q)' = Merged(q)
  BY <1>8 DEF Chunk, Merged
<1>10. Busy' BY <1>8 DEF DiskInv, Busy
<1>11. Exact' BY <1>8, <1>9 DEF DiskInv, Exact
<1>12. Fresh'
  <2> SUFFICES ASSUME NEW q \in Writers, w'[q].at # "next"
               PROVE  file'[Chunk(q).month] = w[q].base \/ Chunk(q).month \in overlapped
    BY <1>5, <1>8, <1>9 DEF Fresh
  <2>1. q # p /\ w[q].at # "next" BY <1>8
  <2>2. CASE Chunk(q).month = k
    BY <1>1, <2>1, <2>2 DEF DiskInv, Noticed
  <2>3. CASE Chunk(q).month # k
    <3>1. w[q].todo # {} BY <2>1 DEF DiskInv, Busy
    <3>2. Chunk(q).month \in Month BY <3>1, ChunkType DEF DiskInv
    <3>3. file'[Chunk(q).month] = file[Chunk(q).month]
      BY <1>5, <2>3, <3>2 DEF DiskInv, DiskType
    <3> QED BY <2>1, <3>3 DEF DiskInv, Fresh
  <2> QED BY <2>2, <2>3
<1>13. Noticed' BY <1>5, <1>8, <1>9 DEF DiskInv, Noticed
<1>14. NoHalfFile' BY <1>5 DEF DiskInv, NoHalfFile
<1>15. OnlyOverlapLoses'
  <2> SUFFICES ASSUME NEW d \in acked', MonthOf(d) \notin overlapped
               PROVE  d \in file'[MonthOf(d)]
    BY <1>5 DEF OnlyOverlapLoses
  <2>1. d \in Day BY <1>3, <1>5 DEF DiskInv, DiskType
  <2>2. MonthOf(d) \in Month BY <2>1, MonthsOfDays
  <2>3. CASE MonthOf(d) = k
    <3>1. file'[k] = w[p].base \cup Chunk(p).rows BY <1>3, <1>4, <1>5 DEF DiskInv, DiskType
    <3>2. file[k] = w[p].base BY <1>2, <2>3
    <3>3. d \in acked => d \in file[k] BY <2>3 DEF DiskInv, OnlyOverlapLoses
    <3> QED BY <1>5, <2>3, <3>1, <3>2, <3>3
  <2>4. CASE MonthOf(d) # k
    <3>1. d \in acked BY <1>3, <1>5, <2>4
    <3>2. file'[MonthOf(d)] = file[MonthOf(d)] BY <1>5, <2>2, <2>4 DEF DiskInv, DiskType
    <3> QED BY <3>1, <3>2 DEF DiskInv, OnlyOverlapLoses
  <2> QED BY <2>3, <2>4
<1> QED BY <1>7, <1>10, <1>11, <1>12, <1>13, <1>14, <1>15 DEF DiskInv

-----------------------------------------------------------------------------
(***************************************************************************)
(* The processes.                                                          *)
(***************************************************************************)
LEMMA DaysAreBounded ==
  /\ NMonths * MonthLen \in Nat \ {0} /\ MonthLen \in 1..(NMonths * MonthLen)
  /\ Day = 0..(NMonths * MonthLen - 1)
<1>1. NMonths \in Nat \ {0} /\ MonthLen \in Nat \ {0} BY FilesAssumption
<1>2. ASSUME NEW a \in Nat \ {0}, NEW b \in Nat \ {0} PROVE a * b >= b /\ a * b \in Nat
  <2>1. (a - 1) * b >= 0 /\ (a - 1) * b = a * b - b BY <1>2
  <2> QED BY <2>1
<1> QED BY <1>1, <1>2 DEF Day

(* Before anything is written. *)
LEMMA InitEstablishes ==
  ASSUME Init
  PROVE  FilesInv
<1>1. ClockType BY DaysAreBounded DEF Init, ClockType
<1>2. DiskType
  <2>1. NoIngest \in Ingests BY DEF NoIngest, Ingests
  <2>2. NoFile \in [state : {"none", "half", "whole"}, rows : SUBSET Day] BY DEF NoFile
  <2> QED BY <2>1, <2>2 DEF Init, DiskType
<1>3. \A p \in Writers : w[p].at = "next" BY DEF Init, NoIngest
<1>4. Busy /\ Exact /\ Fresh /\ Noticed BY <1>3 DEF Busy, Exact, Fresh, Noticed
<1>5. NoHalfFile /\ OnlyOverlapLoses BY DEF Init, NoHalfFile, OnlyOverlapLoses
<1>6. RunType BY DEF Init, NoRun, RunType
<1> QED BY <1>1, <1>2, <1>4, <1>5, <1>6 DEF FilesInv, DiskInv

(* An ingest that raises takes its temporary file with it. *)
LEMMA DiskRaised ==
  ASSUME DiskInv, NEW p \in Writers, IngestRaises(p)
  PROVE  DiskInv'
<1>1. NoIngest = [NoIngest EXCEPT !.todo = {}] BY DEF NoIngest
<1>2. w' = [w EXCEPT ![p] = [NoIngest EXCEPT !.todo = {}]] BY <1>1 DEF IngestRaises
<1>3. tmp' = [tmp EXCEPT ![p] = NoFile] /\ UNCHANGED <<file, half, acked, overlapped>>
  BY DEF IngestRaises, Tmp
<1>4. {} \in SUBSET Day OBVIOUS
<1> QED BY <1>2, <1>3, <1>4, DiskOutside

(* An ingest begins. *)
LEMMA DiskBegun ==
  ASSUME DiskInv, NEW p \in Writers, NEW rows \in SUBSET Day, Begin(p, rows),
         UNCHANGED <<file, half, tmp, acked, overlapped>>
  PROVE  DiskInv'
BY DiskOutside DEF Begin

(* The newest row there is. *)
LEMMA LastIsDay ==
  ASSUME FilesInv
  PROVE  /\ Stored # {} => /\ Max(Stored) \in Stored /\ Max(Stored) \in Day
                           /\ \A e \in Stored : e <= Max(Stored)
         /\ Max({last} \cup acked) \in {last} \cup acked
         /\ Max({last} \cup acked) \in Day \cup {-1}
<1> DEFINE K == NMonths * MonthLen - 1
<1>1. K \in Nat /\ Day = 0..K BY DaysAreBounded
<1>2. Stored \subseteq Day /\ acked \subseteq Day /\ last \in Day \cup {-1}
  BY DEF FilesInv, DiskInv, DiskType, ClockType, Stored
<1>3. Stored \in SUBSET ((-1)..K) /\ {last} \cup acked \in SUBSET ((-1)..K)
  BY <1>1, <1>2
<1>4. Stored # {} => Max(Stored) \in Stored /\ \A e \in Stored : Max(Stored) >= e
  BY <1>1, <1>3, MaxIsMember
<1>5. Max({last} \cup acked) \in {last} \cup acked BY <1>1, <1>3, MaxIsMember
<1>6. Stored \subseteq Int BY <1>1, <1>2
<1>7. Stored # {} => \A e \in Stored : e <= Max(Stored) BY <1>4, <1>6
<1> QED BY <1>2, <1>4, <1>5, <1>7

(* What the hydration remembers of its days is days. *)
LEMMA RunKept ==
  ASSUME FilesInv, [Next]_vars
  PROVE  RunType'
<1> USE DEF FilesInv
<1>1. CASE UNCHANGED h BY <1>1 DEF RunType
<1>2. CASE HydrateLists
  <2>1. PICK x, y, z : h' = [at |-> "months", pending |-> x, days |-> {}, listed |-> y, kept |-> z]
    BY <1>2 DEF HydrateLists
  <2> QED BY <2>1 DEF RunType
<1>3. CASE HydrateDownloads BY <1>3 DEF HydrateDownloads, RunType
<1>4. CASE HydrateDays
  <2>1. now - 1 \in Day BY DaysAreBounded DEF ClockType
  <2>2. DaysWanted \in SUBSET Day BY <2>1 DEF DaysWanted, DaysOf
  <2> QED BY <1>4, <2>2 DEF HydrateDays, RunType
<1>5. CASE HydrateDay BY <1>5 DEF HydrateDay, RunType
<1>6. CASE HydrateReports BY <1>6 DEF HydrateReports, RunType
<1>7. CASE h' = NoRun BY <1>7 DEF NoRun, RunType
<1> QED
  BY <1>1, <1>2, <1>3, <1>4, <1>5, <1>6, <1>7
  DEF Next, vars, hydration, Tick, Publish, Ingest, ServerStarts, ServerFlushes, ServerFlushed,
      ServerRaises, ServerDies, HydrateExits, HydrateFails, HydrateRaises

(* Every action of the two processes. *)
LEMMA NextPreserves ==
  ASSUME FilesInv, [Next]_vars
  PROVE  FilesInv'
<1> USE DEF FilesInv
<1>0. SUFFICES ClockType' /\ DiskInv' BY RunKept
<1>1. CASE Tick
  BY <1>1, DiskUntouched, DaysAreBounded DEF Tick, ClockType, disk, server
<1>2. CASE Publish
  BY <1>2, DiskUntouched DEF Publish, ClockType, disk, server
<1>3. ASSUME NEW p \in Writers, Ingest(p) PROVE ClockType' /\ DiskInv'
  BY <1>3, DiskRead, DiskFilled, DiskReplaced DEF Ingest, ClockType, world, server
<1>4. CASE ServerStarts
  <2>1. now - 1 \in Day BY DaysAreBounded DEF ClockType
  <2>2. ClockType' BY <1>4, <2>1, LastIsDay DEF ServerStarts, ClockType, world
  <2> QED BY <1>4, <2>2, DiskUntouched DEF ServerStarts, disk
<1>5. CASE ServerFlushes
  <2>1. (last + 1)..(now - 1) \in SUBSET Day BY DaysAreBounded DEF ClockType
  <2> QED BY <1>5, <2>1, DiskBegun DEF ServerFlushes, ClockType, world, Writers
<1>6. CASE ServerFlushed
  BY <1>6, DiskUntouched, LastIsDay DEF ServerFlushed, ClockType, world, disk
<1>7. CASE ServerRaises
  BY <1>7, DiskRaised DEF ServerRaises, ClockType, world, Writers
<1>8. CASE ServerDies
  <2>1. NoIngest = [NoIngest EXCEPT !.todo = {}] BY DEF NoIngest
  <2>2. w' = [w EXCEPT !["server"] = [NoIngest EXCEPT !.todo = {}]]
    BY <1>8, <2>1 DEF ServerDies
  <2>3. {} \in SUBSET Day /\ "server" \in Writers BY DEF Writers
  <2> QED BY <1>8, <2>2, <2>3, DiskOutside DEF ServerDies, ClockType, world
<1>9. CASE HydrateLists \/ HydrateDays \/ HydrateReports \/ HydrateExits \/ HydrateFails
  <2>1. ClockType' /\ UNCHANGED disk
    BY <1>9 DEF HydrateLists, HydrateDays, HydrateReports, HydrateExits, HydrateFails,
                ClockType, world, disk, server
  <2> QED BY <2>1, DiskUntouched
<1>10. CASE HydrateDownloads
  <2>1. UNION {DaysOf(m) \ holes : m \in Batch} \in SUBSET Day BY DEF DaysOf
  <2> QED BY <1>10, <2>1, DiskBegun DEF HydrateDownloads, ClockType, world, server, Writers
<1>11. CASE HydrateDay
  <2>1. h.days \in SUBSET Day BY DEF RunType
  <2>2. ClockType' BY <1>11 DEF HydrateDay, ClockType, world, server
  <2>3. h.days # {} BY <1>11 DEF HydrateDay
  <2>4. Min(h.days) \in Day BY <2>1, <2>3, DaysAreBounded, MinIsMember
  <2>5. {Min(h.days)} \in SUBSET Day /\ "hydrate" \in Writers BY <2>4 DEF Writers
  <2>6. CASE Begin("hydrate", {Min(h.days)})
    BY <1>11, <2>2, <2>5, <2>6, DiskBegun DEF HydrateDay
  <2>7. CASE UNCHANGED w
    <3>1. UNCHANGED disk BY <1>11, <2>7 DEF HydrateDay, disk
    <3> QED BY <2>2, <3>1, DiskUntouched
  <2> QED BY <1>11, <2>6, <2>7 DEF HydrateDay
<1>12. CASE HydrateRaises
  BY <1>12, DiskRaised DEF HydrateRaises, ClockType, world, server, Writers
<1>13. CASE UNCHANGED vars
  BY <1>13, DiskUntouched DEF vars, world, disk, server, ClockType
<1> QED
  BY <1>1, <1>2, <1>3, <1>4, <1>5, <1>6, <1>7, <1>8, <1>9, <1>10, <1>11, <1>12, <1>13 DEF Next

-----------------------------------------------------------------------------
(* The state of the files and of both ingests is consistent in every
   reachable state of the store (bars.py:94-144). *)
THEOREM FilesInvariant == Spec => []FilesInv
BY InitEstablishes, NextPreserves, PTL DEF Spec

(* Whatever the two processes do and however they fail, no month's file is
   half of one (bars.py:127-140). *)
THEOREM NoFileIsHalf == Spec => []NoHalfFile
<1>1. FilesInv => NoHalfFile BY DEF FilesInv, DiskInv
<1> QED BY <1>1, FilesInvariant, PTL

(* A row an ingest returned with stays on disk, unless both processes were
   inside its month at once (bars.py:133). *)
THEOREM RowsAreKept == Spec => []OnlyOverlapLoses
<1>1. FilesInv => OnlyOverlapLoses BY DEF FilesInv, DiskInv
<1> QED BY <1>1, FilesInvariant, PTL

-----------------------------------------------------------------------------
(***************************************************************************)
(* What is missing.                                                        *)
(***************************************************************************)
(* The days that are over, and the months. *)
Gone == {d \in Day : d < now}
Over == {m \in Month : m < MonthOf(now)}
ThisMonth == DaysOf(MonthOf(now))

(* A day that is there, or that nobody promised. *)
Settled(d) == d \in file[MonthOf(d)] \cup holes \/ MonthOf(d) \in overlapped

(* The days a process has still to bring. *)
Toll(p) == IF p = "server" THEN w[p].todo ELSE w[p].todo \cup h.days

(* Nothing is of today or later, and every row is in the file of its month. *)
Past ==
  /\ \A m \in Month : file[m] \subseteq DaysOf(m) \cap Gone
  /\ acked \subseteq Gone /\ last < now /\ h.days \subseteq Gone
  /\ \A p \in Writers :
       /\ w[p].todo \subseteq Gone
       /\ w[p].at # "next" => w[p].base \subseteq DaysOf(Chunk(p).month) \cap Gone
  /\ published \subseteq Over /\ h.pending \subseteq h.listed /\ h.listed \subseteq published

(* What each process is at. *)
Shape ==
  /\ srv # "flushing" => w["server"].todo = {}
  /\ h.at \in {"idle", "report"} => w["hydrate"].todo = {}
  /\ h.at # "days" => h.days = {}
  /\ h.at # "months" => h.pending = {}

(* This month is filled from its first day on: by what is stored, up to the
   last day the server has, and up to whatever is about to be brought. *)
Prefix == blind \/ \A d \in ThisMonth, e \in Stored : d < e => Settled(d)
Had == blind \/ srv = "off" \/ \A d \in ThisMonth : d <= last => Settled(d)
Owed == \A p \in Writers :
  \/ p = "server" /\ blind
  \/ \A d \in ThisMonth, e \in Toll(p) : d < e => Settled(d) \/ d \in Toll(p)
Ahead == \A x \in w["hydrate"].todo, y \in h.days : x < y

(* A month of the list was there, waits its turn, or has been brought. *)
Listed == h.at # "idle" =>
  \A m \in h.listed : \/ m \in h.kept \cup h.pending \cup overlapped
                      \/ DaysOf(m) \ holes \subseteq file[m] \cup w["hydrate"].todo

Story == Past /\ Shape /\ Prefix /\ Had /\ Owed /\ Ahead /\ Listed

-----------------------------------------------------------------------------
(* Months follow one another. *)
LEMMA MonthsInOrder ==
  ASSUME NEW a \in Nat, NEW b \in Nat, a <= b
  PROVE  MonthOf(a) <= MonthOf(b) /\ MonthOf(a) \in Int /\ MonthOf(b) \in Int
<1> DEFINE c == MonthLen
           p == a \div c
           q == b \div c
<1>1. c \in Nat \ {0} BY FilesAssumption
<1>2. /\ p \in Int /\ a % c \in 0..(c - 1) /\ a = c * p + (a % c)
      /\ q \in Int /\ b % c \in 0..(c - 1) /\ b = c * q + (b % c)
  BY <1>1
<1>3. p <= q
  <2> DEFINE x == a % c
             y == b % c
  <2>1. /\ p \in Int /\ x \in 0..(c - 1) /\ a = c * p + x
        /\ q \in Int /\ y \in 0..(c - 1) /\ b = c * q + y
    BY <1>2
  <2> HIDE DEF p, q, x, y, c
  <2> SUFFICES ASSUME p > q PROVE FALSE BY <2>1
  <2>2. c * (p - q) = c * p - c * q BY <1>1, <2>1
  <2>3. c * (p - q) >= c BY <1>1, <2>1
  <2>4. c * p \in Int /\ c * q \in Int BY <1>1, <2>1
  <2> QED BY <1>1, <2>1, <2>2, <2>3, <2>4
<1> QED BY <1>2, <1>3 DEF MonthOf

(* Of two days with this month between them, the later one is of it too. *)
LEMMA SameMonth ==
  ASSUME ClockType, NEW d \in ThisMonth, NEW e \in Gone, d < e
  PROVE  MonthOf(e) = MonthOf(now) /\ MonthOf(d) = MonthOf(now)
<1>1. d \in Nat /\ e \in Nat /\ now \in Nat /\ d <= e /\ e <= now
  BY DaysAreBounded DEF ClockType, ThisMonth, Gone, DaysOf
<1>2. MonthOf(d) <= MonthOf(e) /\ MonthOf(e) <= MonthOf(now)
  BY <1>1, MonthsInOrder
<1>3. MonthOf(d) \in Int /\ MonthOf(e) \in Int /\ MonthOf(now) \in Int
  BY <1>1, MonthsInOrder
<1>4. MonthOf(d) = MonthOf(now) BY DEF ThisMonth, DaysOf
<1> QED BY <1>2, <1>3, <1>4

(* The rows R of the ingest of p are done with. *)
Ingested(p, R) ==
  /\ R \subseteq w[p].todo /\ w'[p].todo = w[p].todo \ R
  /\ \A q \in Writers \ {p} : w'[q] = w[q]
  /\ \A d \in R, e \in w[p].todo : MonthOf(e) = MonthOf(d) => e \in R
  /\ overlapped \subseteq overlapped'
  /\ \A m \in Month : /\ m \in overlapped \/ file[m] \subseteq file'[m]
                      /\ m \in overlapped \/ file'[m] \subseteq file[m] \cup R
                      /\ file'[m] \subseteq DaysOf(m) \cap Gone
  /\ \A d \in R : d \in file'[MonthOf(d)]
  /\ acked' \subseteq acked \cup R
  /\ w'[p].at # "next" => w'[p].base \subseteq DaysOf(Chunk(p)'.month) \cap Gone

(* Every step of an ingest is done with some rows, perhaps none. *)
LEMMA IngestDoes ==
  ASSUME DiskInv, Past, NEW p \in Writers,
         IngestReads(p) \/ IngestOpens(p) \/ IngestFills(p) \/ IngestReplaces(p)
  PROVE  \E R : Ingested(p, R)
<1> DEFINE k == Chunk(p).month
           C == Chunk(p).rows
<1>0. w \in [Writers -> Ingests] /\ file \in [Month -> SUBSET Day] BY DEF DiskInv, DiskType
<1>1. /\ \A m \in Month : file[m] \subseteq DaysOf(m) \cap Gone
      /\ w[p].todo \subseteq Gone
      /\ w[p].at # "next" => w[p].base \subseteq DaysOf(k) \cap Gone
  BY DEF Past
<1>2. w[p].todo # {}
  BY DEF DiskInv, Busy, IngestReads, IngestOpens, IngestFills, IngestReplaces, Done
<1>3. k \in Month /\ C \subseteq w[p].todo /\ C = w[p].todo \cap DaysOf(k)
      /\ \A d \in C : MonthOf(d) = k
  BY <1>2, ChunkType DEF DiskInv, Chunk
<1>4. \A d \in C, e \in w[p].todo : MonthOf(e) = MonthOf(d) => e \in C
  BY <1>1, <1>3 DEF Gone, DaysOf
<1>5. Others(p) = w[p].todo \ C BY DEF Others
<1> HIDE DEF k, C
<1>6. CASE IngestReads(p)
  <2>1. CASE /\ C \subseteq file[k]
             /\ w' = [w EXCEPT ![p].todo = Others(p)] /\ UNCHANGED overlapped
    <3>1. /\ w'[p].todo = w[p].todo \ C /\ \A q \in Writers \ {p} : w'[q] = w[q]
          /\ w'[p].at = "next"
      BY <1>0, <1>5, <1>6, <2>1 DEF Ingests, IngestReads
    <3>2. UNCHANGED <<file, acked>> BY <1>6 DEF IngestReads
    <3>3. Ingested(p, C)
      BY <1>1, <1>3, <1>4, <2>1, <3>1, <3>2 DEF Ingested
    <3> QED BY <3>3
  <2>2. CASE /\ w' = [w EXCEPT ![p].at = "open", ![p].base = file[k]]
             /\ overlapped \subseteq overlapped'
    <3>1. /\ w'[p].todo = w[p].todo /\ \A q \in Writers \ {p} : w'[q] = w[q]
          /\ w'[p].base = file[k]
      BY <1>0, <2>2 DEF Ingests
    <3>2. UNCHANGED <<file, acked>> BY <1>6 DEF IngestReads
    <3>3. Chunk(p)' = Chunk(p) BY <3>1 DEF Chunk
    <3>4. w'[p].base \subseteq DaysOf(Chunk(p)'.month) \cap Gone
      BY <1>1, <1>3, <3>1, <3>3 DEF k
    <3>5. Ingested(p, {}) BY <1>1, <2>2, <3>1, <3>2, <3>4 DEF Ingested
    <3> QED BY <3>5
  <2> QED BY <1>6, <2>1, <2>2 DEF IngestReads, k, C
<1>7. CASE IngestOpens(p) \/ IngestFills(p)
  <2>1. /\ w[p].at # "next"
        /\ UNCHANGED <<file, acked, overlapped>>
        /\ \E at \in {"fill", "replace"} : w' = [w EXCEPT ![p].at = at]
    BY <1>7 DEF IngestOpens, IngestFills
  <2>2. PICK at \in {"fill", "replace"} : w' = [w EXCEPT ![p].at = at] BY <2>1
  <2>3. /\ w'[p].todo = w[p].todo /\ \A q \in Writers \ {p} : w'[q] = w[q]
        /\ w'[p].base = w[p].base
    BY <1>0, <2>2 DEF Ingests
  <2>4. Chunk(p)' = Chunk(p) BY <2>3 DEF Chunk
  <2>5. w'[p].base \subseteq DaysOf(Chunk(p)'.month) \cap Gone BY <1>1, <2>1, <2>3, <2>4 DEF k
  <2>6. Ingested(p, {}) BY <1>1, <2>1, <2>3, <2>5 DEF Ingested
  <2> QED BY <2>6
<1>8. CASE IngestReplaces(p)
  <2>1. w[p].at = "replace" BY <1>8 DEF IngestReplaces
  <2>2. /\ tmp[p].rows = w[p].base \cup C
        /\ file[k] = w[p].base \/ k \in overlapped
    BY <2>1 DEF DiskInv, Exact, Fresh, Merged, k, C
  <2>3. /\ file' = [file EXCEPT ![k] = w[p].base \cup C]
        /\ w' = [w EXCEPT ![p] = [NoIngest EXCEPT !.todo = w[p].todo \ C]]
        /\ acked' = acked \cup C /\ UNCHANGED overlapped
    BY <1>5, <1>8, <2>2 DEF IngestReplaces, Tmp, k, C
  <2>4. /\ w'[p].todo = w[p].todo \ C /\ \A q \in Writers \ {p} : w'[q] = w[q]
        /\ w'[p].at = "next"
    BY <1>0, <2>3 DEF NoIngest
  <2>5. file'[k] = w[p].base \cup C /\ \A m \in Month \ {k} : file'[m] = file[m]
    BY <1>0, <1>3, <2>3
  <2>6. w[p].base \cup C \subseteq DaysOf(k) \cap Gone BY <1>1, <1>3, <2>1
  <2>7. ASSUME NEW m \in Month
        PROVE  /\ m \in overlapped \/ file[m] \subseteq file'[m]
               /\ m \in overlapped \/ file'[m] \subseteq file[m] \cup C
               /\ file'[m] \subseteq DaysOf(m) \cap Gone
    BY <1>1, <2>2, <2>5, <2>6
  <2>8. \A d \in C : d \in file'[MonthOf(d)] BY <1>3, <2>5
  <2>9. Ingested(p, C) BY <1>3, <1>4, <2>3, <2>4, <2>7, <2>8 DEF Ingested
  <2> QED BY <2>9
<1> QED BY <1>6, <1>7, <1>8

(* Only an ingest writes. *)
LEMMA OnlyIngestWrites ==
  ASSUME [Next]_vars
  PROVE  /\ holes' = holes
         /\ UNCHANGED <<file, overlapped, acked>> \/ \E p \in Writers : Ingest(p)
BY DEF Next, vars, world, disk, Tick, Publish, Ingest, ServerStarts, ServerFlushes,
       ServerFlushed, ServerRaises, ServerDies, HydrateLists, HydrateDownloads, HydrateDays,
       HydrateDay, HydrateReports, HydrateExits, HydrateFails, HydrateRaises, IngestRaises

(* An ingest leaves all but the disk alone. *)
LEMMA IngestIs ==
  ASSUME FilesInv, Past, NEW p \in Writers, Ingest(p)
  PROVE  /\ \E R : Ingested(p, R)
         /\ UNCHANGED <<now, published, holes, srv, last, blind, h, runs>>
<1>1. DiskInv BY DEF FilesInv
<1>2. IngestReads(p) \/ IngestOpens(p) \/ IngestFills(p) \/ IngestReplaces(p) BY DEF Ingest
<1> QED BY <1>1, <1>2, IngestDoes DEF Ingest, world, server, hydration

(* A settled day stays settled. *)
LEMMA SettledStays ==
  ASSUME FilesInv, Past, [Next]_vars, NEW d \in Day, Settled(d)
  PROVE  Settled(d)'
<1>1. CASE UNCHANGED <<file, overlapped>> BY <1>1, OnlyIngestWrites DEF Settled
<1>2. ASSUME NEW p \in Writers, Ingest(p) PROVE Settled(d)'
  <2>1. PICK R : Ingested(p, R) BY <1>2, IngestIs
  <2>2. /\ overlapped \subseteq overlapped'
        /\ \A m \in Month : m \in overlapped \/ file[m] \subseteq file'[m]
    BY <2>1 DEF Ingested
  <2>3. MonthOf(d) \in Month BY MonthsOfDays
  <2> QED BY <2>2, <2>3, OnlyIngestWrites DEF Settled
<1> QED BY <1>1, <1>2, OnlyIngestWrites

(* The clock and the archive only go on. *)
LEMMA PastKept ==
  ASSUME FilesInv, Past, Shape, [Next]_vars
  PROVE  Past'
<1> DEFINE FilesPast == \A m \in Month : file[m] \subseteq DaysOf(m) \cap Gone
           ServerPast == acked \subseteq Gone /\ last < now
           IngestPast(p) ==
             /\ w[p].todo \subseteq Gone
             /\ w[p].at # "next" => w[p].base \subseteq DaysOf(Chunk(p).month) \cap Gone
           RunPast ==
             /\ h.days \subseteq Gone
             /\ published \subseteq Over /\ h.pending \subseteq h.listed
             /\ h.listed \subseteq published
<1>0. /\ FilesPast /\ ServerPast /\ RunPast /\ (\A p \in Writers : IngestPast(p))
      /\ now \in 1..(NMonths * MonthLen) /\ last \in Day \cup {-1}
      /\ w \in [Writers -> Ingests]
  BY DEF Past, FilesInv, ClockType, DiskInv, DiskType
<1>a. ASSUME FilesPast', ServerPast', RunPast', \A p \in Writers : IngestPast(p)' PROVE Past'
  BY <1>a DEF Past
<1>b. ASSUME now' = now, UNCHANGED <<file, acked>>
      PROVE  Gone' = Gone /\ Over' = Over /\ FilesPast' /\ (last' = last => ServerPast')
  BY <1>0, <1>b DEF Gone, Over
<1>c. ASSUME NEW p \in Writers, w'[p] = w[p], Gone' = Gone PROVE IngestPast(p)'
  BY <1>0, <1>c DEF Chunk
<1>d. ASSUME NEW p \in Writers, NEW rows \in SUBSET Gone, Gone' = Gone,
             w' = [w EXCEPT ![p] = [NoIngest EXCEPT !.todo = rows]]
      PROVE  \A q \in Writers : IngestPast(q)'
  <2>1. w'[p].todo = rows /\ w'[p].at = "next" /\ \A q \in Writers \ {p} : w'[q] = w[q]
    BY <1>0, <1>d DEF NoIngest
  <2> QED BY <1>c, <1>d, <2>1
<1>1. CASE Tick
  <2>1. now' = now + 1 /\ UNCHANGED <<published, file, w, acked, last, h>>
    BY <1>1 DEF Tick, disk, server, hydration
  <2>2. Gone \subseteq Gone' BY <1>0, <2>1, DaysAreBounded DEF Gone
  <2>3. MonthOf(now) <= MonthOf(now') /\ MonthOf(now) \in Int /\ MonthOf(now') \in Int
    BY <1>0, <2>1, MonthsInOrder
  <2>4. Over \subseteq Over' BY <2>3 DEF Over, Month
  <2>5. FilesPast' /\ RunPast' BY <1>0, <2>1, <2>2, <2>4
  <2>7. ServerPast'
    <3>1. last < now + 1 BY <1>0, DaysAreBounded
    <3> QED BY <1>0, <2>1, <2>2, <3>1
  <2>6. \A p \in Writers : IngestPast(p)' BY <1>0, <2>1, <2>2 DEF Chunk
  <2> QED BY <1>a, <2>5, <2>6, <2>7
<1>2. CASE Publish
  <2>1. /\ UNCHANGED <<now, file, w, acked, last, h>>
        /\ \E m \in Over : published' = published \cup {m}
    BY <1>2 DEF Publish, disk, server, hydration, Over
  <2>2. RunPast' BY <1>0, <1>b, <2>1
  <2> QED BY <1>a, <1>b, <1>c, <2>1, <2>2
<1>3. ASSUME NEW p \in Writers, Ingest(p) PROVE Past'
  <2>1. UNCHANGED <<now, published, last, h>> BY <1>3, IngestIs
  <2>2. PICK R : Ingested(p, R) BY <1>3, IngestIs
  <2>3. Gone' = Gone /\ Over' = Over BY <2>1 DEF Gone, Over
  <2>4. FilesPast' BY <2>2, <2>3 DEF Ingested
  <2>5. acked' \subseteq Gone BY <1>0, <2>2 DEF Ingested
  <2>6. IngestPast(p)' BY <1>0, <2>2, <2>3 DEF Ingested
  <2>7. \A q \in Writers \ {p} : IngestPast(q)' BY <1>c, <2>2, <2>3 DEF Ingested
  <2>8. RunPast' /\ ServerPast' BY <1>0, <2>1, <2>3, <2>5
  <2> QED BY <1>a, <2>4, <2>6, <2>7, <2>8
<1>4. CASE ServerStarts
  <2>1. /\ UNCHANGED <<now, published, file, w, acked, h>>
        /\ last' = IF Stored = {} THEN now - 1 ELSE Max(Stored)
    BY <1>4 DEF ServerStarts, world, disk, hydration
  <2>2. Stored \subseteq Gone BY <1>0 DEF Stored
  <2>4. Stored # {} => Max(Stored) \in Stored BY LastIsDay
  <2>5. last' < now BY <1>0, <2>1, <2>2, <2>4 DEF Gone
  <2>6. ServerPast' /\ RunPast' BY <1>0, <1>b, <2>1, <2>5
  <2> QED BY <1>a, <1>b, <1>c, <2>1, <2>6
<1>5. CASE ServerFlushes
  <2> DEFINE rows == (last + 1)..(now - 1)
  <2>1. /\ UNCHANGED <<now, published, file, acked, last, h>>
        /\ w' = [w EXCEPT !["server"] = [NoIngest EXCEPT !.todo = rows]]
    BY <1>5 DEF ServerFlushes, world, hydration, Begin
  <2>2. rows \in SUBSET Gone BY <1>0, DaysAreBounded DEF Gone
  <2>3. RunPast' /\ ServerPast' BY <1>0, <1>b, <2>1
  <2>4. "server" \in Writers BY DEF Writers
  <2> HIDE DEF rows
  <2>5. \A q \in Writers : IngestPast(q)' BY <1>b, <1>d, <2>1, <2>2, <2>4
  <2> QED BY <1>a, <1>b, <2>1, <2>3, <2>5
<1>6. CASE ServerFlushed
  <2>1. UNCHANGED <<now, published, file, w, acked, h>> /\ last' = Max({last} \cup acked)
    BY <1>6 DEF ServerFlushed, world, disk, hydration
  <2>3. last' \in {last} \cup acked BY <2>1, LastIsDay
  <2>4. last' < now BY <1>0, <2>3 DEF Gone
  <2>5. ServerPast' /\ RunPast' BY <1>0, <1>b, <2>1, <2>4
  <2> QED BY <1>a, <1>b, <1>c, <2>1, <2>5
<1>7. CASE ServerRaises \/ ServerDies
  <2>1. /\ UNCHANGED <<now, published, file, acked, last, h>>
        /\ w' = [w EXCEPT !["server"] = NoIngest]
    BY <1>7 DEF ServerRaises, ServerDies, IngestRaises, world, hydration
  <2>2. NoIngest = [NoIngest EXCEPT !.todo = {}] BY DEF NoIngest
  <2>3. w' = [w EXCEPT !["server"] = [NoIngest EXCEPT !.todo = {}]] BY <2>1, <2>2
  <2>4. "server" \in Writers /\ {} \in SUBSET Gone BY DEF Writers
  <2>5. \A q \in Writers : IngestPast(q)' BY <1>b, <1>d, <2>1, <2>3, <2>4
  <2>6. RunPast' /\ ServerPast' BY <1>0, <1>b, <2>1
  <2> QED BY <1>a, <1>b, <2>1, <2>5, <2>6
<1>8. CASE HydrateLists
  <2>1. /\ UNCHANGED <<now, published, file, w, acked, last>>
        /\ h'.days = {} /\ h'.pending \subseteq h'.listed /\ h'.listed \subseteq published
    BY <1>8 DEF HydrateLists, world, disk, server
  <2>2. RunPast' BY <1>0, <1>b, <2>1
  <2> QED BY <1>a, <1>b, <1>c, <2>1, <2>2
<1>9. CASE HydrateDownloads
  <2> DEFINE rows == UNION {DaysOf(m) \ holes : m \in Batch}
  <2>1. /\ UNCHANGED <<now, published, file, acked, last>>
        /\ h' = [h EXCEPT !.pending = @ \ Batch]
        /\ w' = [w EXCEPT !["hydrate"] = [NoIngest EXCEPT !.todo = rows]]
    BY <1>9 DEF HydrateDownloads, world, server, Begin
  <2>2. h'.days = h.days /\ h'.listed = h.listed /\ h'.pending = h.pending \ Batch
    BY <2>1 DEF FilesInv, RunType
  <2>3. RunPast' /\ ServerPast' BY <1>0, <1>b, <2>1, <2>2
  <2>4. rows \in SUBSET Gone
    <3>1. Batch \subseteq Over BY <1>0 DEF Batch
    <3>2. ASSUME NEW m \in Over, NEW d \in DaysOf(m) PROVE d \in Gone
      <4>1. d \in Nat /\ now \in Nat /\ d \in Day BY <1>0, DaysAreBounded DEF DaysOf
      <4>2. MonthOf(d) = m /\ m < MonthOf(now) BY DEF DaysOf, Over
      <4>3. MonthOf(d) \in Int /\ MonthOf(now) \in Int BY <4>1, MonthsInOrder
      <4>4. ~(now <= d) BY <4>1, <4>2, <4>3, MonthsInOrder
      <4> QED BY <4>1, <4>4 DEF Gone
    <3> QED BY <3>1, <3>2
  <2>5. "hydrate" \in Writers BY DEF Writers
  <2> HIDE DEF rows
  <2>6. \A q \in Writers : IngestPast(q)' BY <1>b, <1>d, <2>1, <2>4, <2>5
  <2> QED BY <1>a, <1>b, <2>1, <2>3, <2>6
<1>10. CASE HydrateDays
  <2>1. /\ UNCHANGED <<now, published, file, w, acked, last>>
        /\ h' = [h EXCEPT !.at = "days", !.days = DaysWanted]
    BY <1>10 DEF HydrateDays, world, disk, server
  <2>2. h'.days = DaysWanted /\ h'.listed = h.listed /\ h'.pending = h.pending
    BY <2>1 DEF FilesInv, RunType
  <2>3. DaysWanted \subseteq Gone
    <3>1. now - 1 \in Gone BY <1>0, DaysAreBounded DEF Gone
    <3> QED BY <3>1 DEF DaysWanted, DaysOf, Gone
  <2>4. RunPast' BY <1>0, <1>b, <2>1, <2>2, <2>3
  <2> QED BY <1>a, <1>b, <1>c, <2>1, <2>4
<1>11. CASE HydrateDay
  <2>1. /\ UNCHANGED <<now, published, file, acked, last>>
        /\ h' = [h EXCEPT !.days = @ \ {Min(h.days)}]
        /\ h.days # {}
        /\ Begin("hydrate", {Min(h.days)}) \/ UNCHANGED w
    BY <1>11 DEF HydrateDay, world, server
  <2>2. h'.days \subseteq h.days /\ h'.listed = h.listed /\ h'.pending = h.pending
    BY <2>1 DEF FilesInv, RunType
  <2>3. RunPast' /\ ServerPast' BY <1>0, <1>b, <2>1, <2>2
  <2>4. Gone \subseteq Nat BY DaysAreBounded DEF Gone
  <2>5. {Min(h.days)} \in SUBSET Gone BY <1>0, <2>1, <2>4, MinIsMember
  <2>6. "hydrate" \in Writers BY DEF Writers
  <2>7. CASE Begin("hydrate", {Min(h.days)})
    <3>1. \A q \in Writers : IngestPast(q)'
      BY <1>b, <1>d, <2>1, <2>5, <2>6, <2>7 DEF Begin
    <3> QED BY <1>a, <1>b, <2>1, <2>3, <3>1
  <2>8. CASE UNCHANGED w BY <1>a, <1>b, <1>c, <2>1, <2>3, <2>8
  <2> QED BY <2>1, <2>7, <2>8
<1>12. CASE HydrateReports
  <2>1. /\ UNCHANGED <<now, published, file, w, acked, last>>
        /\ h' = [h EXCEPT !.at = "report"]
    BY <1>12 DEF HydrateReports, world, disk, server
  <2>2. h'.days = h.days /\ h'.listed = h.listed /\ h'.pending = h.pending
    BY <2>1 DEF FilesInv, RunType
  <2>3. RunPast' BY <1>0, <1>b, <2>1, <2>2
  <2> QED BY <1>a, <1>b, <1>c, <2>1, <2>3
<1>13. CASE HydrateExits \/ HydrateFails \/ HydrateRaises
  <2>1. /\ UNCHANGED <<now, published, file, acked, last>>
        /\ h' = NoRun /\ w' \in {w, [w EXCEPT !["hydrate"] = NoIngest]}
    BY <1>13 DEF HydrateExits, HydrateFails, HydrateRaises, IngestRaises, world, disk, server
  <2>2. RunPast' /\ ServerPast' BY <1>0, <1>b, <2>1 DEF NoRun
  <2>3. CASE UNCHANGED w BY <1>a, <1>b, <1>c, <2>1, <2>2, <2>3
  <2>4. CASE w' = [w EXCEPT !["hydrate"] = NoIngest]
    <3>1. NoIngest = [NoIngest EXCEPT !.todo = {}] BY DEF NoIngest
    <3>2. w' = [w EXCEPT !["hydrate"] = [NoIngest EXCEPT !.todo = {}]] BY <2>4, <3>1
    <3>3. "hydrate" \in Writers /\ {} \in SUBSET Gone BY DEF Writers
    <3>4. \A q \in Writers : IngestPast(q)' BY <1>b, <1>d, <2>1, <3>2, <3>3
    <3> QED BY <1>a, <1>b, <2>1, <2>2, <3>4
  <2> QED BY <2>1, <2>3, <2>4
<1>14. CASE UNCHANGED vars
  <2>1. UNCHANGED <<now, published, file, w, acked, last, h>>
    BY <1>14 DEF vars, world, disk, server, hydration
  <2>2. RunPast' BY <1>0, <1>b, <2>1
  <2> QED BY <1>a, <1>b, <1>c, <2>1, <2>2
<1> QED
  BY <1>1, <1>2, <1>3, <1>4, <1>5, <1>6, <1>7, <1>8, <1>9, <1>10, <1>11, <1>12, <1>13, <1>14
  DEF Next

(* A process between its ingests has nothing left to write. *)
LEMMA ShapeKept ==
  ASSUME FilesInv, Past, Shape, [Next]_vars
  PROVE  Shape'
<1>0. w \in [Writers -> Ingests] /\ Writers = {"server", "hydrate"}
  BY DEF FilesInv, DiskInv, DiskType, Writers
<1>1. ASSUME NEW p \in Writers, Ingest(p) PROVE Shape'
  <2>1. UNCHANGED <<srv, h>> BY <1>1, IngestIs
  <2>2. PICK R : Ingested(p, R) BY <1>1, IngestIs
  <2>3. \A q \in Writers : w[q].todo = {} => w'[q].todo = {} BY <2>2 DEF Ingested
  <2>4. "server" \in Writers /\ "hydrate" \in Writers BY <1>0
  <2> QED BY <2>1, <2>3, <2>4 DEF Shape
<1>2. CASE UNCHANGED <<srv, w, h>> BY <1>2 DEF Shape
<1>3. CASE ServerStarts BY <1>3 DEF ServerStarts, Shape, disk, hydration
<1>4. CASE ServerFlushes
  <2>1. srv' = "flushing" /\ UNCHANGED h /\ w'["hydrate"] = w["hydrate"]
    BY <1>0, <1>4 DEF ServerFlushes, Begin, hydration
  <2> QED BY <2>1 DEF Shape
<1>5. CASE ServerFlushed BY <1>5 DEF ServerFlushed, Done, Shape, disk, hydration
<1>6. CASE ServerRaises \/ ServerDies
  <2>1. w' = [w EXCEPT !["server"] = NoIngest] /\ UNCHANGED h
    BY <1>6 DEF ServerRaises, ServerDies, IngestRaises, hydration
  <2>2. w'["server"].todo = {} /\ w'["hydrate"] = w["hydrate"] BY <1>0, <2>1 DEF NoIngest
  <2> QED BY <2>1, <2>2 DEF Shape
<1>7. CASE HydrateLists
  <2>1. UNCHANGED <<srv, w>> /\ h'.at = "months" /\ h'.days = {}
    BY <1>7 DEF HydrateLists, disk, server
  <2> QED BY <2>1 DEF Shape
<1>8. CASE HydrateDownloads
  <2>1. /\ UNCHANGED srv /\ w'["server"] = w["server"] /\ h.at = "months"
        /\ h' = [h EXCEPT !.pending = @ \ Batch]
    BY <1>0, <1>8 DEF HydrateDownloads, Begin, server
  <2>2. h'.at = "months" /\ h'.days = h.days BY <2>1 DEF FilesInv, RunType
  <2> QED BY <2>1, <2>2 DEF Shape
<1>9. CASE HydrateDays
  <2>1. /\ UNCHANGED <<srv, w>> /\ h.pending = {} /\ h' = [h EXCEPT !.at = "days", !.days = DaysWanted]
    BY <1>9 DEF HydrateDays, disk, server
  <2>2. h'.at = "days" /\ h'.pending = {} BY <2>1 DEF FilesInv, RunType
  <2> QED BY <2>1, <2>2 DEF Shape
<1>10. CASE HydrateDay
  <2>1. /\ UNCHANGED srv /\ h.at = "days" /\ h' = [h EXCEPT !.days = @ \ {Min(h.days)}]
        /\ w'["server"] = w["server"]
    BY <1>0, <1>10 DEF HydrateDay, Begin, server
  <2>2. h'.at = "days" /\ h'.pending = h.pending BY <2>1 DEF FilesInv, RunType
  <2> QED BY <2>1, <2>2 DEF Shape
<1>11. CASE HydrateReports
  <2>1. /\ UNCHANGED <<srv, w>> /\ h.at = "days" /\ h.days = {} /\ Done("hydrate")
        /\ h' = [h EXCEPT !.at = "report"]
    BY <1>11 DEF HydrateReports, disk, server
  <2>2. h'.at = "report" /\ h'.days = {} /\ h'.pending = h.pending
    BY <2>1 DEF FilesInv, RunType
  <2> QED BY <2>1, <2>2 DEF Shape, Done
<1>12. CASE HydrateExits \/ HydrateFails \/ HydrateRaises
  <2>1. /\ UNCHANGED srv /\ h' = NoRun /\ w'["server"] = w["server"]
        /\ w'["hydrate"].todo = {}
    BY <1>0, <1>12 DEF HydrateExits, HydrateFails, HydrateRaises, IngestRaises, Done, Shape,
                       NoIngest, disk, server
  <2>2. h'.days = {} /\ h'.pending = {} BY <2>1 DEF NoRun
  <2> QED BY <2>1, <2>2 DEF Shape
<1> QED
  BY <1>1, <1>2, <1>3, <1>4, <1>5, <1>6, <1>7, <1>8, <1>9, <1>10, <1>11, <1>12
  DEF Next, vars, Tick, Publish, disk, server, hydration

(* A new month begins after everything that is over. *)
LEMMA NewMonth ==
  ASSUME ClockType, Tick
  PROVE  ThisMonth' = ThisMonth \/ \A d \in ThisMonth' : now < d
<1>1. now \in Nat /\ now' = now + 1 BY DaysAreBounded DEF ClockType, Tick
<1>2. MonthOf(now) <= MonthOf(now') /\ MonthOf(now) \in Int /\ MonthOf(now') \in Int
  BY <1>1, MonthsInOrder
<1>3. CASE MonthOf(now') = MonthOf(now) BY <1>3 DEF ThisMonth, DaysOf
<1>4. CASE MonthOf(now) < MonthOf(now')
  <2> SUFFICES ASSUME NEW d \in ThisMonth' PROVE now < d OBVIOUS
  <2>1. d \in Nat /\ MonthOf(d) = MonthOf(now') BY DaysAreBounded DEF ThisMonth, DaysOf
  <2>2. MonthOf(d) \in Int BY <2>1, MonthsInOrder
  <2>3. ~(d <= now) BY <1>1, <1>2, <1>4, <2>1, <2>2, MonthsInOrder
  <2> QED BY <1>1, <2>1, <2>3
<1> QED BY <1>2, <1>3, <1>4

(* Who touches what. *)
LEMMA Touches ==
  ASSUME [Next]_vars
  PROVE  /\ now' = now \/ Tick
         /\ blind => blind'
         /\ blind' = blind \/ ServerStarts
         /\ \/ UNCHANGED <<srv, last>> \/ srv' = "off"
            \/ ServerStarts \/ ServerFlushes \/ ServerFlushed \/ ServerRaises
<1>1. CASE UNCHANGED vars BY <1>1 DEF vars, world, server
<1>2. CASE Tick BY <1>2 DEF Tick, server
<1>3. CASE Publish BY <1>3 DEF Publish, server
<1>4. ASSUME NEW p \in Writers, Ingest(p)
      PROVE  UNCHANGED <<now, srv, last, blind>>
  BY <1>4 DEF Ingest, world, server
<1>5. CASE ServerStarts BY <1>5 DEF ServerStarts, world
<1>6. CASE ServerFlushes BY <1>6 DEF ServerFlushes, world
<1>7. CASE ServerFlushed BY <1>7 DEF ServerFlushed, world
<1>8. CASE ServerRaises BY <1>8 DEF ServerRaises, world
<1>9. CASE ServerDies BY <1>9 DEF ServerDies, world
<1>10. CASE \/ HydrateLists \/ HydrateDownloads \/ HydrateDays \/ HydrateDay
            \/ HydrateReports \/ HydrateExits \/ HydrateFails \/ HydrateRaises
  <2>1. UNCHANGED <<now, srv, last, blind>>
    BY <1>10 DEF world, server, HydrateLists, HydrateDownloads, HydrateDays, HydrateDay,
                 HydrateReports, HydrateExits, HydrateFails, HydrateRaises
  <2> QED BY <2>1
<1> QED BY <1>1, <1>2, <1>3, <1>4, <1>5, <1>6, <1>7, <1>8, <1>9, <1>10 DEF Next

(* A row on disk is settled, and over. *)
LEMMA StoredIsSettled ==
  ASSUME FilesInv, Past, NEW d \in Stored
  PROVE  d \in Gone /\ d \in file[MonthOf(d)]
<1>1. PICK m \in Month : d \in file[m] BY DEF Stored
<1> QED BY <1>1 DEF Past, DaysOf

(* What comes to this month closes up with what is there. *)
LEMMA PrefixKept ==
  ASSUME FilesInv, Story, [Next]_vars
  PROVE  Prefix'
<1>0. ClockType /\ Past /\ Prefix /\ Owed /\ Ahead BY DEF FilesInv, Story
<1> SUFFICES ASSUME ~blind', NEW d \in ThisMonth', NEW e \in Stored', d < e
             PROVE  Settled(d)'
  BY DEF Prefix
<1>1. ~blind BY Touches
<1>2. ThisMonth \subseteq Day BY DEF ThisMonth, DaysOf
<1>3. ASSUME d \in ThisMonth, e \in Stored PROVE Settled(d)'
  BY <1>0, <1>1, <1>2, <1>3, SettledStays DEF Prefix
<1>4. CASE Tick
  <2>1. Stored' = Stored BY <1>4 DEF Tick, disk, Stored
  <2>2. e \in Gone BY <1>0, <2>1, StoredIsSettled
  <2>3. ~(now < d)
    <3>1. e < now /\ e \in Int /\ now \in Int /\ d \in Int
      BY <1>0, <2>2, DaysAreBounded DEF Gone, ClockType, ThisMonth, DaysOf
    <3> QED BY <3>1
  <2> QED BY <1>0, <1>3, <1>4, <2>1, <2>3, NewMonth
<1>5. ASSUME NEW p \in Writers, Ingest(p) PROVE Settled(d)'
  <2>1. now' = now BY <1>0, <1>5, IngestIs
  <2>2. PICK R : Ingested(p, R) BY <1>0, <1>5, IngestIs
  <2>3. d \in ThisMonth BY <2>1 DEF ThisMonth
  <2>4. PICK m \in Month : e \in file'[m] BY DEF Stored
  <2>5. e \in DaysOf(m) \cap Gone BY <2>2, <2>4 DEF Ingested
  <2>6. MonthOf(e) = MonthOf(now) /\ MonthOf(d) = MonthOf(now) BY <1>0, <2>3, <2>5, SameMonth
  <2>7. m = MonthOf(d) BY <2>5, <2>6 DEF DaysOf
  <2>8. CASE m \in overlapped
    <3>1. m \in overlapped' BY <2>2, <2>8 DEF Ingested
    <3> QED BY <2>7, <3>1 DEF Settled
  <2>9. CASE e \in file[m]
    <3>1. e \in Stored BY <2>9 DEF Stored
    <3> QED BY <1>3, <2>3, <3>1
  <2>10. CASE e \in R
    <3>1. e \in w[p].todo BY <2>2, <2>10 DEF Ingested
    <3>2. e \in Toll(p) BY <3>1 DEF Toll
    <3>3. Settled(d) \/ d \in Toll(p) BY <1>0, <1>1, <2>3, <3>2 DEF Owed
    <3>4. CASE d \in w[p].todo
      <4>1. d \in R BY <2>2, <2>6, <2>10, <3>4 DEF Ingested
      <4> QED BY <2>2, <4>1 DEF Ingested, Settled
    <3>5. CASE p # "server" /\ d \in h.days
      <4>1. p = "hydrate" BY <3>5 DEF Writers
      <4>2. e < d /\ e \in Int /\ d \in Int
        BY <1>0, <2>3, <2>5, <3>1, <3>5, <4>1, DaysAreBounded DEF Ahead, Gone, ThisMonth, DaysOf
      <4> QED BY <4>2
    <3>6. CASE Settled(d) BY <1>0, <1>2, <2>3, <3>6, SettledStays
    <3> QED BY <3>3, <3>4, <3>5, <3>6 DEF Toll
  <2> QED BY <2>2, <2>4, <2>8, <2>9, <2>10 DEF Ingested
<1>6. CASE now' = now /\ UNCHANGED file
  <2>1. d \in ThisMonth /\ e \in Stored BY <1>6 DEF ThisMonth, Stored
  <2> QED BY <1>3, <2>1
<1> QED BY <1>4, <1>5, <1>6, Touches, OnlyIngestWrites

(* The last day the server has is never ahead of what it wrote. *)
LEMMA HadKept ==
  ASSUME FilesInv, Story, [Next]_vars
  PROVE  Had'
<1>0. ClockType /\ Past /\ Prefix /\ Had BY DEF FilesInv, Story
<1> SUFFICES ASSUME ~blind', srv' # "off", NEW d \in ThisMonth', d <= last' PROVE Settled(d)'
  BY DEF Had
<1>1. ~blind BY Touches
<1>2. ThisMonth \subseteq Day BY DEF ThisMonth, DaysOf
<1>3. now' = now => d \in ThisMonth BY DEF ThisMonth
<1>4. ASSUME Settled(d), d \in ThisMonth PROVE Settled(d)' BY <1>0, <1>2, <1>4, SettledStays
<1>5. CASE ServerStarts
  <2>1. now' = now /\ last' = IF Stored = {} THEN now - 1 ELSE Max(Stored)
    BY <1>5 DEF ServerStarts, world
  <2>2. Stored # {} BY <1>5 DEF ServerStarts
  <2>3. Max(Stored) \in Stored /\ last' = Max(Stored) /\ Max(Stored) \in Int /\ d \in Int
    <3>1. Day \subseteq Int BY DaysAreBounded
    <3> QED BY <1>2, <1>3, <2>1, <2>2, <3>1, LastIsDay
  <2>4. CASE d < Max(Stored) BY <1>0, <1>1, <1>3, <1>4, <2>1, <2>3, <2>4 DEF Prefix
  <2>5. CASE d = Max(Stored)
    <3>1. d \in file[MonthOf(d)] BY <1>0, <2>3, <2>5, StoredIsSettled
    <3> QED BY <1>3, <1>4, <2>1, <3>1 DEF Settled
  <2> QED BY <2>3, <2>4, <2>5
<1>6. CASE ServerFlushed
  <2>1. now' = now /\ srv = "flushing" /\ last' = Max({last} \cup acked)
    BY <1>6 DEF ServerFlushed, world
  <2>2. last' \in {last} \cup acked BY <2>1, LastIsDay
  <2>3. CASE last' = last BY <1>0, <1>1, <1>3, <1>4, <2>1, <2>3 DEF Had
  <2>4. CASE last' \in acked
    <3> DEFINE a == last'
    <3>1. a \in Gone /\ a \in Day BY <1>0, <2>4 DEF Past, Gone
    <3>2. d \in ThisMonth /\ d \in Int /\ a \in Int
      <4>1. Day \subseteq Int BY DaysAreBounded
      <4> QED BY <1>2, <1>3, <2>1, <3>1, <4>1
    <3>3. a \in file[MonthOf(a)] \/ MonthOf(a) \in overlapped
      BY <2>4 DEF FilesInv, DiskInv, OnlyOverlapLoses
    <3> HIDE DEF a
    <3>4. CASE d = a BY <1>4, <3>2, <3>3, <3>4 DEF Settled
    <3>5. CASE d < a
      <4>1. MonthOf(a) = MonthOf(d) BY <1>0, <3>1, <3>2, <3>5, SameMonth
      <4>2. CASE MonthOf(a) \in overlapped BY <1>4, <3>2, <4>1, <4>2 DEF Settled
      <4>3. CASE a \in file[MonthOf(a)]
        <5>1. MonthOf(a) \in Month BY <3>1, MonthsOfDays
        <5>2. a \in Stored BY <4>3, <5>1 DEF Stored
        <5> QED BY <1>0, <1>1, <1>4, <3>2, <3>5, <5>2 DEF Prefix
      <4> QED BY <3>3, <4>2, <4>3
    <3>6. d <= a BY DEF a
    <3> QED BY <3>2, <3>4, <3>5, <3>6
  <2> QED BY <2>2, <2>3, <2>4
<1>7. CASE UNCHANGED <<srv, last>> \/ ServerFlushes \/ ServerRaises
  <2>1. srv # "off" /\ last' = last BY <1>7 DEF ServerFlushes, ServerRaises
  <2>2. ASSUME d \in ThisMonth PROVE Settled(d)'
    BY <1>0, <1>1, <1>4, <2>1, <2>2 DEF Had
  <2>3. CASE Tick
    <3>1. ~(now < d)
      <4>1. last < now /\ last \in Int /\ now \in Int /\ d \in Int
        BY <1>0, DaysAreBounded DEF Past, ClockType, ThisMonth, DaysOf
      <4> QED BY <2>1, <4>1
    <3> QED BY <1>0, <2>2, <2>3, <3>1, NewMonth
  <2> QED BY <1>3, <2>2, <2>3, Touches
<1> QED BY <1>5, <1>6, <1>7, Touches

(* What a process is about to bring, with what is settled before it, is all of
   this month up to there. *)
LEMMA OwedKept ==
  ASSUME FilesInv, Story, [Next]_vars
  PROVE  Owed'
<1>0. ClockType /\ RunType /\ Past /\ Shape /\ Had /\ Owed BY DEF FilesInv, Story
<1>a. w \in [Writers -> Ingests] /\ Writers = {"server", "hydrate"}
  BY DEF FilesInv, DiskInv, DiskType, Writers
<1> SUFFICES ASSUME NEW p \in Writers, ~(p = "server" /\ blind'),
                    NEW d \in ThisMonth', NEW e \in Toll(p)', d < e
             PROVE  Settled(d)' \/ d \in Toll(p)'
  BY DEF Owed
<1>1. ~(p = "server" /\ blind) BY Touches
<1>2. ThisMonth \subseteq Day BY DEF ThisMonth, DaysOf
<1>3. ASSUME d \in ThisMonth, e \in Toll(p) PROVE Settled(d)' \/ d \in Toll(p)
  <2>1. Settled(d) \/ d \in Toll(p) BY <1>0, <1>1, <1>3 DEF Owed
  <2> QED BY <1>0, <1>2, <1>3, <2>1, SettledStays
<1>4. ASSUME now' = now PROVE d \in ThisMonth BY <1>4 DEF ThisMonth
<1>5. ASSUME now' = now, Toll(p)' = Toll(p) PROVE Settled(d)' \/ d \in Toll(p)'
  BY <1>3, <1>4, <1>5
<1>6. Toll(p) \subseteq Gone BY <1>0 DEF Past, Toll
<1>7. CASE Tick
  <2>1. Toll(p)' = Toll(p) BY <1>7 DEF Tick, disk, hydration, Toll
  <2>2. ~(now < d)
    <3>1. e < now /\ e \in Int /\ now \in Int /\ d \in Int
      BY <1>0, <1>6, <2>1, DaysAreBounded DEF Gone, ClockType, ThisMonth, DaysOf
    <3> QED BY <3>1
  <2>3. d \in ThisMonth BY <1>0, <1>7, <2>2, NewMonth
  <2>4. e \in Toll(p) BY <2>1
  <2> QED BY <1>3, <2>1, <2>3, <2>4
<1>8. ASSUME NEW q \in Writers, Ingest(q) PROVE Settled(d)' \/ d \in Toll(p)'
  <2>1. UNCHANGED <<now, h>> BY <1>0, <1>8, IngestIs
  <2>2. PICK R : Ingested(q, R) BY <1>0, <1>8, IngestIs
  <2>3. CASE p # q
    <3>1. w'[p] = w[p] BY <2>2, <2>3 DEF Ingested
    <3> QED BY <1>5, <2>1, <3>1 DEF Toll
  <2>4. CASE p = q
    <3>1. w'[p].todo = w[p].todo \ R BY <2>2, <2>4 DEF Ingested
    <3>2. e \in Toll(p) BY <2>1, <3>1 DEF Toll
    <3>3. Settled(d)' \/ d \in Toll(p) BY <1>3, <1>4, <2>1, <3>2
    <3>4. d \in R => Settled(d)' BY <2>2 DEF Ingested, Settled
    <3> QED BY <2>1, <3>1, <3>3, <3>4 DEF Toll
  <2> QED BY <2>3, <2>4
<1>9. CASE ServerFlushes
  <2>1. /\ now' = now /\ UNCHANGED h /\ srv = "on" /\ blind' = blind
        /\ w' = [w EXCEPT !["server"] = [NoIngest EXCEPT !.todo = (last + 1)..(now - 1)]]
    BY <1>9 DEF ServerFlushes, world, hydration, Begin
  <2>2. CASE p = "hydrate"
    <3>1. w'[p] = w[p] /\ h' = h BY <1>a, <2>1, <2>2
    <3>2. Toll(p)' = Toll(p) BY <2>2, <3>1 DEF Toll
    <3> QED BY <1>5, <2>1, <3>2
  <2>3. CASE p = "server"
    <3>1. Toll(p)' = (last + 1)..(now - 1) BY <1>a, <2>1, <2>3 DEF Toll, NoIngest
    <3>2. d \in Int /\ last \in Int /\ now \in Int
      BY <1>0, DaysAreBounded DEF ClockType, ThisMonth, DaysOf
    <3>3. CASE d <= last
      <4>1. Settled(d) BY <1>0, <1>1, <1>4, <2>1, <2>3, <3>3 DEF Had
      <4> QED BY <1>0, <1>2, <1>4, <2>1, <4>1, SettledStays
    <3>4. CASE ~(d <= last) BY <3>1, <3>2, <3>4
    <3> QED BY <3>3, <3>4
  <2> QED BY <1>a, <2>2, <2>3
<1>10. CASE ServerRaises \/ ServerDies
  <2>1. now' = now /\ w' = [w EXCEPT !["server"] = NoIngest] /\ UNCHANGED h
    BY <1>10 DEF ServerRaises, ServerDies, IngestRaises, world, hydration
  <2>2. p = "server" => Toll(p)' = {} BY <1>a, <2>1 DEF Toll, NoIngest
  <2>3. p = "hydrate" => Toll(p)' = Toll(p) BY <1>a, <2>1 DEF Toll
  <2> QED BY <1>a, <1>5, <2>1, <2>2, <2>3
<1>11. CASE HydrateLists
  <2>1. now' = now /\ UNCHANGED w /\ h.at = "idle" /\ h'.days = {}
    BY <1>11 DEF HydrateLists, world, disk
  <2>2. h.days = {} BY <1>0, <2>1 DEF Shape
  <2> QED BY <1>5, <2>1, <2>2 DEF Toll
<1>12. CASE HydrateDownloads
  <2>1. /\ now' = now /\ h.at = "months" /\ h' = [h EXCEPT !.pending = @ \ Batch]
        /\ w' = [w EXCEPT !["hydrate"] =
                  [NoIngest EXCEPT !.todo = UNION {DaysOf(m) \ holes : m \in Batch}]]
    BY <1>12 DEF HydrateDownloads, Begin, world
  <2>2. h'.days = {} /\ h.days = {}
    BY <1>0, <2>1 DEF Shape, RunType
  <2>3. CASE p = "server"
    <3>1. Toll(p)' = Toll(p) BY <1>a, <2>1, <2>3 DEF Toll
    <3> QED BY <1>5, <2>1, <3>1
  <2>4. CASE p = "hydrate"
    <3>1. w'[p].todo = UNION {DaysOf(m) \ holes : m \in Batch} BY <1>a, <2>1, <2>4 DEF NoIngest
    <3>2. PICK m \in Batch : e \in DaysOf(m) BY <2>2, <2>4, <3>1 DEF Toll
    <3>3. m \in Over BY <1>0 DEF Past, Batch
    <3>4. MonthOf(e) = m /\ m < MonthOf(now) /\ e \in Day /\ m \in Month
      BY <3>2, <3>3 DEF DaysOf, Over
    <3>5. e \in Nat /\ now \in Nat BY <1>0, <3>4, DaysAreBounded DEF ClockType
    <3>6. MonthOf(e) \in Int /\ MonthOf(now) \in Int BY <3>5, MonthsInOrder
    <3>7. e < now BY <3>4, <3>5, <3>6, MonthsInOrder
    <3>8. MonthOf(e) = MonthOf(now) BY <1>0, <1>4, <2>1, <3>4, <3>7, SameMonth DEF Gone
    <3> QED BY <3>4, <3>6, <3>8
  <2> QED BY <1>a, <2>3, <2>4
<1>13. CASE HydrateDays
  <2>1. /\ now' = now /\ UNCHANGED w /\ w["hydrate"].todo = {}
        /\ h' = [h EXCEPT !.at = "days", !.days = DaysWanted]
    BY <1>13 DEF HydrateDays, Done, world, disk
  <2>2. h'.days = DaysWanted BY <1>0, <2>1 DEF RunType
  <2>3. CASE p = "server"
    <3>1. Toll(p)' = Toll(p) BY <2>1, <2>3 DEF Toll
    <3> QED BY <1>5, <2>1, <3>1
  <2>4. CASE p = "hydrate"
    <3> DEFINE days == {x \in DaysOf(MonthOf(now)) : x < now}
    <3>1. Toll(p)' = DaysWanted BY <2>1, <2>2, <2>4 DEF Toll
    <3>2. e < now
      <4>1. now - 1 < now BY <1>0, DaysAreBounded DEF ClockType
      <4> QED BY <3>1, <4>1 DEF DaysWanted
    <3>3. d < now
      <4>1. e \in Day
        <5>1. now - 1 \in Day BY <1>0, DaysAreBounded DEF ClockType
        <5> QED BY <3>1, <5>1 DEF DaysWanted, DaysOf
      <4>2. d \in Int /\ e \in Int /\ now \in Int
        BY <1>0, <4>1, DaysAreBounded DEF ClockType, ThisMonth, DaysOf
      <4> QED BY <3>2, <4>2
    <3>4. d \in days BY <1>4, <2>1, <3>3 DEF ThisMonth
    <3> QED BY <3>1, <3>4 DEF DaysWanted
  <2> QED BY <1>a, <2>3, <2>4
<1>14. CASE HydrateDay
  <2> DEFINE x == Min(h.days)
  <2>1. /\ now' = now /\ w["hydrate"].todo = {} /\ h.days # {}
        /\ h' = [h EXCEPT !.days = @ \ {x}]
        /\ \/ w' = [w EXCEPT !["hydrate"] = [NoIngest EXCEPT !.todo = {x}]]
           \/ x \in holes \cup {Max(h.days)} /\ UNCHANGED w
    BY <1>14 DEF HydrateDay, Begin, Done, world
  <2>2. h'.days = h.days \ {x} BY <1>0, <2>1 DEF RunType
  <2>3. x \in h.days /\ \A y \in h.days : Max(h.days) >= y
    <3>1. h.days \subseteq Day BY <1>0 DEF RunType
    <3>2. Day \subseteq Nat BY DaysAreBounded
    <3> DEFINE K == NMonths * MonthLen - 1
    <3>3. K \in Nat /\ Day = 0..K BY DaysAreBounded
    <3> HIDE DEF K
    <3>4. h.days \in SUBSET ((-1)..K) BY <3>1, <3>3
    <3>5. \A y \in h.days : Max(h.days) >= y BY <2>1, <3>3, <3>4, MaxIsMember
    <3>6. Min(h.days) \in h.days BY <2>1, <3>1, <3>2, MinIsMember
    <3> QED BY <3>5, <3>6
  <2> HIDE DEF x
  <2>4. CASE p = "server"
    <3>1. Toll(p)' = Toll(p) BY <1>a, <2>1, <2>4 DEF Toll
    <3> QED BY <1>5, <2>1, <3>1
  <2>5. CASE p = "hydrate" /\ w' = [w EXCEPT !["hydrate"] = [NoIngest EXCEPT !.todo = {x}]]
    <3>1. w'[p].todo = {x} BY <1>a, <2>5 DEF NoIngest
    <3>2. Toll(p)' = Toll(p) BY <2>1, <2>2, <2>3, <2>5, <3>1 DEF Toll
    <3> QED BY <1>5, <2>1, <3>2
  <2>6. CASE p = "hydrate" /\ x \in holes \cup {Max(h.days)} /\ UNCHANGED w
    <3>1. Toll(p) = h.days /\ Toll(p)' = h.days \ {x} BY <2>1, <2>2, <2>6 DEF Toll
    <3>2. Settled(d)' \/ d \in h.days BY <1>3, <1>4, <2>1, <3>1
    <3>3. CASE x \in holes
      <4>1. d \in holes => Settled(d)' BY OnlyIngestWrites DEF Settled
      <4> QED BY <3>1, <3>2, <3>3, <4>1
    <3>4. CASE x = Max(h.days)
      <4>1. x >= e BY <2>3, <3>1, <3>4
      <4>2. x \in Int /\ e \in Int /\ d \in Int
        BY <1>0, <1>2, <1>4, <2>1, <2>3, <3>1, DaysAreBounded DEF RunType
      <4>3. d # x BY <4>1, <4>2
      <4> QED BY <3>1, <3>2, <4>3
    <3> QED BY <2>6, <3>3, <3>4
  <2> QED BY <1>a, <2>1, <2>4, <2>5, <2>6
<1>15. CASE HydrateReports
  <2>1. now' = now /\ UNCHANGED w /\ h' = [h EXCEPT !.at = "report"]
    BY <1>15 DEF HydrateReports, world, disk
  <2>2. h'.days = h.days BY <1>0, <2>1 DEF RunType
  <2> QED BY <1>5, <2>1, <2>2 DEF Toll
<1>16. CASE HydrateExits \/ HydrateFails \/ HydrateRaises
  <2>1. now' = now /\ h'.days = {} /\ w'["server"] = w["server"] /\ w'["hydrate"].todo = {}
    BY <1>0, <1>a, <1>16
    DEF HydrateExits, HydrateFails, HydrateRaises, IngestRaises, Done, Shape, NoRun, NoIngest,
        world, disk
  <2>2. p = "server" => Toll(p)' = Toll(p) BY <2>1 DEF Toll
  <2>3. p = "hydrate" => Toll(p)' = {} BY <2>1 DEF Toll
  <2> QED BY <1>a, <1>5, <2>1, <2>2, <2>3
<1>17. CASE Publish \/ ServerStarts \/ ServerFlushed \/ UNCHANGED vars
  <2>1. UNCHANGED <<now, w, h>>
    BY <1>17 DEF Publish, ServerStarts, ServerFlushed, vars, world, disk, hydration
  <2> QED BY <1>5, <2>1 DEF Toll
<1> QED
  BY <1>7, <1>8, <1>9, <1>10, <1>11, <1>12, <1>13, <1>14, <1>15, <1>16, <1>17 DEF Next

(* The days still to be read come after the one being written. *)
LEMMA AheadKept ==
  ASSUME FilesInv, Story, [Next]_vars
  PROVE  Ahead'
<1>0. ClockType /\ RunType /\ Past /\ Shape /\ Ahead BY DEF FilesInv, Story
<1>a. w \in [Writers -> Ingests] /\ Writers = {"server", "hydrate"}
  BY DEF FilesInv, DiskInv, DiskType, Writers
<1>b. ASSUME w'["hydrate"].todo \subseteq w["hydrate"].todo, h'.days \subseteq h.days
      PROVE  Ahead'
  BY <1>0, <1>b DEF Ahead
<1>1. ASSUME NEW q \in Writers, Ingest(q) PROVE Ahead'
  <2>1. UNCHANGED h BY <1>0, <1>1, IngestIs
  <2>2. PICK R : Ingested(q, R) BY <1>0, <1>1, IngestIs
  <2>3. \A p \in Writers : w'[p].todo \subseteq w[p].todo BY <2>2 DEF Ingested
  <2> QED BY <1>a, <1>b, <2>1, <2>3
<1>2. CASE ServerFlushes \/ ServerRaises \/ ServerDies
  <2>1. UNCHANGED h /\ \E x : w' = [w EXCEPT !["server"] = x]
    BY <1>2 DEF ServerFlushes, Begin, ServerRaises, ServerDies, IngestRaises, hydration
  <2>2. w'["hydrate"] = w["hydrate"] BY <1>a, <2>1
  <2> QED BY <1>b, <2>1, <2>2
<1>3. CASE HydrateLists
  <2>1. h'.days = {} BY <1>3 DEF HydrateLists
  <2> QED BY <2>1 DEF Ahead
<1>4. CASE HydrateDownloads
  <2>1. h.at = "months" /\ h' = [h EXCEPT !.pending = @ \ Batch] BY <1>4 DEF HydrateDownloads
  <2>2. h'.days = {} BY <1>0, <2>1 DEF Shape, RunType
  <2> QED BY <2>2 DEF Ahead
<1>5. CASE HydrateDays
  <2>1. w'["hydrate"].todo = {} BY <1>5 DEF HydrateDays, Done, disk
  <2> QED BY <2>1 DEF Ahead
<1>6. CASE HydrateDay
  <2>1. /\ h.days # {} /\ w["hydrate"].todo = {}
        /\ h' = [h EXCEPT !.days = @ \ {Min(h.days)}]
        /\ \/ w' = [w EXCEPT !["hydrate"] = [NoIngest EXCEPT !.todo = {Min(h.days)}]]
           \/ UNCHANGED w
    BY <1>6 DEF HydrateDay, Begin, Done
  <2>2. h'.days = h.days \ {Min(h.days)} BY <1>0, <2>1 DEF RunType
  <2>3. w'["hydrate"].todo \subseteq {Min(h.days)} BY <1>a, <2>1 DEF NoIngest
  <2>4. h.days \subseteq Nat BY <1>0, DaysAreBounded DEF RunType
  <2>5. Min(h.days) \in h.days /\ \A y \in h.days : Min(h.days) <= y
    BY <2>1, <2>4, MinIsMember
  <2>6. \A y \in h.days \ {Min(h.days)} : Min(h.days) < y BY <2>4, <2>5
  <2> QED BY <2>2, <2>3, <2>6 DEF Ahead
<1>7. CASE HydrateReports
  <2>1. UNCHANGED w /\ h' = [h EXCEPT !.at = "report"] BY <1>7 DEF HydrateReports, disk
  <2>2. h'.days = h.days BY <1>0, <2>1 DEF RunType
  <2> QED BY <1>b, <2>1, <2>2
<1>8. CASE HydrateExits \/ HydrateFails \/ HydrateRaises
  <2>1. h'.days = {} BY <1>8 DEF HydrateExits, HydrateFails, HydrateRaises, NoRun
  <2> QED BY <2>1 DEF Ahead
<1>9. CASE Tick \/ Publish \/ ServerStarts \/ ServerFlushed \/ UNCHANGED vars
  <2>1. UNCHANGED <<w, h>>
    BY <1>9 DEF Tick, Publish, ServerStarts, ServerFlushed, vars, disk, hydration
  <2> QED BY <1>b, <2>1
<1> QED BY <1>1, <1>2, <1>3, <1>4, <1>5, <1>6, <1>7, <1>8, <1>9 DEF Next

(* A month leaves the list of those to download when its rows are about to be
   written, and they are out of it when they are there. *)
LEMMA ListedKept ==
  ASSUME FilesInv, Story, [Next]_vars
  PROVE  Listed'
<1>0. RunType /\ Past /\ Shape /\ Listed BY DEF FilesInv, Story
<1>a. w \in [Writers -> Ingests] /\ Writers = {"server", "hydrate"}
  BY DEF FilesInv, DiskInv, DiskType, Writers
<1> SUFFICES ASSUME h'.at # "idle", NEW m \in h'.listed,
                    m \notin h'.kept, m \notin h'.pending, m \notin overlapped'
             PROVE  DaysOf(m) \ holes' \subseteq file'[m] \cup w'["hydrate"].todo
  BY DEF Listed
<1>1. holes' = holes BY OnlyIngestWrites
<1>2. ASSUME h.at # "idle", m \in h.listed, m \notin h.kept, m \notin h.pending,
             m \notin overlapped
      PROVE  DaysOf(m) \ holes \subseteq file[m] \cup w["hydrate"].todo
  BY <1>0, <1>2 DEF Listed
<1>3. ASSUME UNCHANGED <<file, overlapped>>, w'["hydrate"].todo = w["hydrate"].todo,
             h.at # "idle", h'.listed = h.listed, h'.kept = h.kept, h'.pending = h.pending
      PROVE  DaysOf(m) \ holes' \subseteq file'[m] \cup w'["hydrate"].todo
  BY <1>1, <1>2, <1>3
<1>4. ASSUME NEW q \in Writers, Ingest(q)
      PROVE  DaysOf(m) \ holes' \subseteq file'[m] \cup w'["hydrate"].todo
  <2>1. UNCHANGED <<h>> BY <1>0, <1>4, IngestIs
  <2>2. PICK R : Ingested(q, R) BY <1>0, <1>4, IngestIs
  <2>3. m \in Month BY <1>0, <2>1 DEF Past, Over
  <2>4. m \notin overlapped /\ file[m] \subseteq file'[m] BY <2>2, <2>3 DEF Ingested
  <2>5. DaysOf(m) \ holes \subseteq file[m] \cup w["hydrate"].todo
    BY <1>2, <2>1, <2>4
  <2>6. CASE q = "server"
    <3>1. w'["hydrate"] = w["hydrate"] BY <1>a, <2>2, <2>6 DEF Ingested
    <3> QED BY <1>1, <2>4, <2>5, <3>1
  <2>7. CASE q = "hydrate"
    <3>1. w'["hydrate"].todo = w["hydrate"].todo \ R /\ \A x \in R : x \in file'[MonthOf(x)]
      BY <2>2, <2>7 DEF Ingested
    <3>2. \A x \in DaysOf(m) : MonthOf(x) = m BY DEF DaysOf
    <3> QED BY <1>1, <2>4, <2>5, <3>1, <3>2
  <2> QED BY <1>a, <2>6, <2>7
<1>5. CASE ServerFlushes \/ ServerRaises \/ ServerDies
  <2>1. /\ UNCHANGED <<h, file, overlapped>>
        /\ \E x : w' = [w EXCEPT !["server"] = x]
    BY <1>5 DEF ServerFlushes, Begin, ServerRaises, ServerDies, IngestRaises, hydration
  <2>2. w'["hydrate"] = w["hydrate"] BY <1>a, <2>1
  <2> QED BY <1>3, <2>1, <2>2
<1>6. CASE HydrateLists
  <2>1. PICK from \in {0, Max({0, MonthOf(now) - QuickSpan})} :
          LET listed == {x \in published : x >= from}
              pending == {x \in listed : Wanted(x, StoredMonths)}
          IN h' = [at |-> "months", pending |-> pending, days |-> {}, listed |-> listed,
                   kept |-> {x \in StoredMonths : x # Max(StoredMonths)}]
    BY <1>6 DEF HydrateLists
  <2>2. /\ h'.listed = {x \in published : x >= from}
        /\ h'.pending = {x \in h'.listed : Wanted(x, StoredMonths)}
        /\ h'.kept = {x \in StoredMonths : x # Max(StoredMonths)}
    BY <2>1
  <2>3. ~Wanted(m, StoredMonths) BY <2>2
  <2>4. m \in StoredMonths /\ m # Max(StoredMonths) BY <2>3 DEF Wanted
  <2> QED BY <2>2, <2>4
<1>7. CASE HydrateDownloads
  <2> DEFINE rows == UNION {DaysOf(x) \ holes : x \in Batch}
  <2>1. /\ UNCHANGED <<file, overlapped>> /\ h.at = "months" /\ w["hydrate"].todo = {}
        /\ h' = [h EXCEPT !.pending = @ \ Batch]
        /\ w' = [w EXCEPT !["hydrate"] = [NoIngest EXCEPT !.todo = rows]]
    BY <1>7 DEF HydrateDownloads, Begin, Done
  <2>2. h'.listed = h.listed /\ h'.kept = h.kept /\ h'.pending = h.pending \ Batch
    BY <1>0, <2>1 DEF RunType
  <2>3. w'["hydrate"].todo = rows BY <1>a, <2>1 DEF NoIngest
  <2>4. CASE m \in Batch BY <1>1, <2>3, <2>4
  <2>5. CASE m \notin Batch
    <3>1. DaysOf(m) \ holes \subseteq file[m] BY <1>2, <2>1, <2>2, <2>5
    <3> QED BY <1>1, <2>1, <3>1
  <2> QED BY <2>4, <2>5
<1>8. CASE HydrateDays
  <2>1. /\ UNCHANGED <<file, overlapped, w>> /\ h.at = "months"
        /\ h' = [h EXCEPT !.at = "days", !.days = DaysWanted]
    BY <1>8 DEF HydrateDays, disk
  <2>2. h'.listed = h.listed /\ h'.kept = h.kept /\ h'.pending = h.pending
    BY <1>0, <2>1 DEF RunType
  <2> QED BY <1>3, <2>1, <2>2
<1>9. CASE HydrateDay
  <2>1. /\ UNCHANGED <<file, overlapped>> /\ h.at = "days" /\ w["hydrate"].todo = {}
        /\ h' = [h EXCEPT !.days = @ \ {Min(h.days)}]
    BY <1>9 DEF HydrateDay, Done
  <2>2. h'.listed = h.listed /\ h'.kept = h.kept /\ h'.pending = h.pending
    BY <1>0, <2>1 DEF RunType
  <2>3. DaysOf(m) \ holes \subseteq file[m] BY <1>2, <2>1, <2>2
  <2> QED BY <1>1, <2>1, <2>3
<1>10. CASE HydrateReports
  <2>1. /\ UNCHANGED <<file, overlapped, w>> /\ h.at = "days"
        /\ h' = [h EXCEPT !.at = "report"]
    BY <1>10 DEF HydrateReports, disk
  <2>2. h'.listed = h.listed /\ h'.kept = h.kept /\ h'.pending = h.pending
    BY <1>0, <2>1 DEF RunType
  <2> QED BY <1>3, <2>1, <2>2
<1>11. CASE HydrateExits \/ HydrateFails \/ HydrateRaises
  BY <1>11 DEF HydrateExits, HydrateFails, HydrateRaises, NoRun
<1>12. CASE Tick \/ Publish \/ ServerStarts \/ ServerFlushed \/ UNCHANGED vars
  <2>1. UNCHANGED <<file, overlapped, w, h>>
    BY <1>12 DEF Tick, Publish, ServerStarts, ServerFlushed, vars, disk, hydration
  <2> QED BY <1>3, <2>1
<1> QED BY <1>4, <1>5, <1>6, <1>7, <1>8, <1>9, <1>10, <1>11, <1>12 DEF Next

-----------------------------------------------------------------------------
(* An empty disk tells no story yet. *)
LEMMA StoryBegins ==
  ASSUME Init
  PROVE  Story
<1>1. /\ Stored = {} /\ last = -1 /\ now \in Nat \ {0} /\ srv = "off"
      /\ \A p \in Writers : w[p].todo = {} /\ w[p].at = "next"
  BY FilesAssumption DEF Init, Stored, NoIngest
<1>2. /\ h.at = "idle" /\ h.days = {} /\ h.pending = {} /\ h.listed = {}
  BY DEF Init, NoRun
<1>3. Past BY <1>1, <1>2 DEF Init, Past
<1>4. Shape BY <1>1, <1>2 DEF Shape, Writers
<1>5. Prefix /\ Had BY <1>1 DEF Prefix, Had
<1>6. Owed BY <1>1, <1>2 DEF Owed, Toll, Writers
<1>7. Ahead /\ Listed BY <1>2 DEF Ahead, Listed
<1> QED BY <1>3, <1>4, <1>5, <1>6, <1>7 DEF Story

(* Every step keeps it. *)
LEMMA StoryGoesOn ==
  ASSUME FilesInv, Story, [Next]_vars
  PROVE  Story'
<1>1. Past /\ Shape BY DEF Story
<1> QED
  BY <1>1, PastKept, ShapeKept, PrefixKept, HadKept, OwedKept, AheadKept, ListedKept DEF Story

(* In every reachable state of the files this month is filled from its first
   day on, and what the hydration listed is there, on its way or excused
   (bars.py:94-144, hydrate.py:90-137). *)
THEOREM StoryHolds == Spec => [](FilesInv /\ Story)
<1>1. Init => FilesInv /\ Story BY InitEstablishes, StoryBegins
<1>2. FilesInv /\ Story /\ [Next]_vars => (FilesInv /\ Story)'
  BY NextPreserves, StoryGoesOn
<1> QED BY <1>1, <1>2, PTL DEF Spec

(* What the invariant leaves of the days that are missing. *)
LEMMA StoryExplains ==
  ASSUME FilesInv, Story
  PROVE  MissingIsExplained
<1>0. ClockType /\ Past /\ Shape /\ Prefix /\ Listed BY DEF FilesInv, Story
<1> SUFFICES ASSUME h.at = "report", NEW d \in Missing,
                    d \notin holes, MonthOf(d) \notin h.kept \cup overlapped, ~blind
             PROVE  MonthOf(d) \notin h.listed /\ MonthOf(d) < MonthOf(now)
  BY DEF MissingIsExplained
<1>1. Stored # {} /\ d \in Min(Stored)..Max(Stored) /\ d \notin Stored BY DEF Missing, Grid
<1>2. Max(Stored) \in Stored /\ Max(Stored) \in Gone BY <1>0, <1>1, LastIsDay, StoredIsSettled
<1>3. Stored \subseteq Day /\ Day \subseteq Nat
  BY DaysAreBounded DEF FilesInv, DiskInv, DiskType, Stored
<1>4. Min(Stored) \in Nat BY <1>1, <1>3, MinIsMember
<1>5. d \in Day /\ d < Max(Stored) /\ d < now
  <2>1. Max(Stored) \in Day /\ Max(Stored) < now /\ now \in Int
    BY <1>0, <1>2, DaysAreBounded DEF Gone, ClockType
  <2>2. d \in Int /\ Min(Stored) <= d /\ d <= Max(Stored) /\ d # Max(Stored)
    BY <1>1, <1>2, <1>3, <1>4
  <2> QED BY <1>3, <1>4, <2>1, <2>2, DaysAreBounded
<1>6. MonthOf(d) \in Month BY <1>5, MonthsOfDays
<1>7. d \notin file[MonthOf(d)] BY <1>1, <1>6 DEF Stored
<1>8. MonthOf(d) \notin h.listed
  <2> SUFFICES ASSUME MonthOf(d) \in h.listed PROVE FALSE OBVIOUS
  <2>1. w["hydrate"].todo = {} /\ h.pending = {} BY <1>0 DEF Shape
  <2>2. d \in DaysOf(MonthOf(d)) BY <1>5 DEF DaysOf
  <2> QED BY <1>0, <1>7, <2>1, <2>2 DEF Listed
<1>9. MonthOf(d) < MonthOf(now)
  <2>1. d \in Nat /\ now \in Nat /\ d <= now BY <1>0, <1>3, <1>5, DaysAreBounded DEF ClockType
  <2>2. /\ MonthOf(d) <= MonthOf(now) /\ MonthOf(d) \in Int /\ MonthOf(now) \in Int
    BY <2>1, MonthsInOrder
  <2> SUFFICES ASSUME MonthOf(d) = MonthOf(now) PROVE FALSE BY <2>2
  <2>3. d \in ThisMonth BY <1>5 DEF ThisMonth, DaysOf
  <2>4. Settled(d) BY <1>0, <1>2, <1>5, <2>3 DEF Prefix
  <2> QED BY <1>7, <2>4 DEF Settled
<1> QED BY <1>8, <1>9

(* When the hydration reports, every day missing between the first row and the
   last is a day the archive lacks, of a month it found stored or did not list
   or that was lost to an overlap, or of a server that started on an empty
   store (hydrate.py:90-137). *)
THEOREM MissingIsAccountedFor == Spec => []MissingIsExplained
BY StoryHolds, StoryExplains, PTL

=============================================================================
