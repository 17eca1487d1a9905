----------------------------- MODULE RateLimiter ----------------------------
(***************************************************************************)
(* The usage limits of server/limits.py: every validation request goes     *)
(* through `async with LIMITS.slot(ip)'.  Entering the slot first charges  *)
(* the caller's address in two sliding windows, then acquires one of       *)
(* MaxConcurrent permits, queueing for at most acquire_timeout_s.          *)
(*                                                                         *)
(* The permits are an asyncio.Semaphore.  It is modelled from CPython 3.13 *)
(* (the project's requires-python): a permit is handed to the first waiter *)
(* by completing its future, and the waiter takes it when the event loop   *)
(* next runs it; in between, its timeout may still fire.                   *)
(*                                                                         *)
(* Everything runs on one event loop, so a step is what happens between    *)
(* two awaits.  Time is an integer clock; `wait_for' may give up at any    *)
(* time, because nothing bounds how late a permit comes.                   *)
(***************************************************************************)
EXTENDS Integers, Sequences, FiniteSets

CONSTANTS Clients,       \* callers, each with one request in flight at most
          Ips, IpOf,     \* addresses, and the address of each caller
          MaxConcurrent, \* max_concurrent
          PerHour,       \* per_hour
          PerMinute,     \* per_minute
          Minute, Hour,  \* lengths of the two windows: 60 s and 3600 s
          Idle,          \* silence after which an address is forgotten: 7200 s
          PruneAt,       \* number of addresses that starts the pruning: 5000
          MaxNow         \* bound: the clock

ASSUME LimitsAssumption ==
  /\ IsFiniteSet(Clients)
  /\ IpOf \in [Clients -> Ips]
  /\ {MaxConcurrent, PerHour, PerMinute} \subseteq Nat \ {0}
  /\ {Minute, Hour, Idle, PruneAt, MaxNow} \subseteq Nat
  /\ Minute <= Hour /\ Hour <= Idle

VARIABLES now,   \* time.monotonic()
          hist,  \* RateLimiter._hist, a deque of start times per known address
          pc,    \* where each caller stands
          value, \* Semaphore._value
          queue, \* Semaphore._waiters that have not been completed
          starts \* history: every charge of every address, never evicted

vars == <<now, hist, pc, value, queue, starts>>

(* idle: no request; waiting: parked in acquire(); granted: its future is
   completed, it has not run yet; holding: inside the slot. *)
Stage == {"idle", "waiting", "granted", "holding"}

At(stage) == {c \in Clients : pc[c] = stage}

-----------------------------------------------------------------------------
(***************************************************************************)
(* The quota: _check_ip.                                                   *)
(***************************************************************************)
Deque(ip) == IF ip \in DOMAIN hist THEN hist[ip] ELSE << >>

(* Mutant: an entry leaves the window one tick early. *)
ExpiredEarly(t) == now - t >= Hour

Expired(t) == now - t > Hour

(* The number of entries popleft removes: the leading expired ones. *)
Evictable(q) == {k \in 0..Len(q) : /\ \A j \in 1..k : Expired(q[j])
                                   /\ k < Len(q) => ~Expired(q[k + 1])}

Recent(q) == {k \in 1..Len(q) : now - q[k] < Minute}

(* Mutant: one start too many per minute. *)
RefusesLate(q) == Len(q) >= PerHour \/ Cardinality(Recent(q)) > PerMinute

Refuses(q) == Len(q) >= PerHour \/ Cardinality(Recent(q)) >= PerMinute

(* setdefault: the address has a deque from now on, whatever the answer. *)
WithDeque(ip, q) ==
  [a \in DOMAIN hist \cup {ip} |-> IF a = ip THEN q ELSE hist[a]]

Remembered(h) == {a \in DOMAIN h : h[a] # << >> /\ now - h[a][Len(h[a])] <= Idle}

(* Addresses silent for longer than Idle are dropped, once there are many. *)
Pruned(h) ==
  IF Cardinality(DOMAIN h) > PruneAt THEN [a \in Remembered(h) |-> h[a]] ELSE h

(***************************************************************************)
(* The semaphore.                                                          *)
(***************************************************************************)
locked == value = 0 \/ queue # << >> \/ At("granted") # {}

Front(q, k) == {q[j] : j \in 1..k}

(* `while _value > 0: _wake_up_next()' over v permits and waiters q: the
   first waiters are granted; caller c moves to its own next stage. *)
WakeAll(v, q, c, stage) ==
  LET k == IF v < Len(q) THEN v ELSE Len(q)
  IN  /\ value' = v - k
      /\ queue' = SubSeq(q, k + 1, Len(q))
      /\ pc' = [d \in Clients |-> IF d \in Front(q, k) THEN "granted"
                                  ELSE IF d = c THEN stage ELSE pc[d]]

(* q without its k-th element: deque.remove. *)
RemoveNth(q, k) == [j \in 1..(Len(q) - 1) |-> IF j < k THEN q[j] ELSE q[j + 1]]

-----------------------------------------------------------------------------
(***************************************************************************)
(* The operations.                                                         *)
(***************************************************************************)
Init ==
  /\ now = 0 /\ hist = << >> /\ queue = << >>
  /\ pc = [c \in Clients |-> "idle"]
  /\ value = MaxConcurrent
  /\ starts = [a \in Ips |-> << >>]

Tick == now < MaxNow /\ now' = now + 1 /\ UNCHANGED <<hist, pc, value, queue, starts>>

(* __aenter__, TooMany: nothing is charged, but old entries are gone. *)
Refuse(c) ==
  /\ pc[c] = "idle"
  /\ \E k \in Evictable(Deque(IpOf[c])) :
       LET q == SubSeq(Deque(IpOf[c]), k + 1, Len(Deque(IpOf[c])))
       IN  Refuses(q) /\ hist' = WithDeque(IpOf[c], q)
  /\ UNCHANGED <<now, pc, value, queue, starts>>

Charge(c) ==
  /\ pc[c] = "idle"
  /\ \E k \in Evictable(Deque(IpOf[c])) :
       LET q == SubSeq(Deque(IpOf[c]), k + 1, Len(Deque(IpOf[c])))
       IN  ~Refuses(q) /\ hist' = Pruned(WithDeque(IpOf[c], Append(q, now)))
  /\ starts' = [starts EXCEPT ![IpOf[c]] = Append(@, now)]
  /\ UNCHANGED now

(* __aenter__ with a permit at hand. *)
Enter(c) ==
  /\ Charge(c)
  /\ ~locked
  /\ value' = value - 1
  /\ pc' = [pc EXCEPT ![c] = "holding"]
  /\ UNCHANGED queue

(* __aenter__ that has to queue.  The charge has been made all the same. *)
Park(c) ==
  /\ Charge(c)
  /\ locked
  /\ queue' = Append(queue, c)
  /\ pc' = [pc EXCEPT ![c] = "waiting"]
  /\ UNCHANGED value

(* A granted waiter runs; on its way in it wakes whoever queued meanwhile. *)
Resume(c) ==
  /\ pc[c] = "granted"
  /\ WakeAll(value, queue, c, "holding")
  /\ UNCHANGED <<now, hist, starts>>

(* Mutant: a permit comes back from every timeout, granted or not. *)
GiveUpReturns(c) ==
  /\ pc[c] = "waiting"
  /\ \E k \in 1..Len(queue) :
       queue[k] = c /\ WakeAll(value + 1, RemoveNth(queue, k), c, "idle")
  /\ UNCHANGED <<now, hist, starts>>

(* Mutant: acquire() without wait_for. *)
GiveUpNever(c) == FALSE

(* TooBusy: the caller leaves the queue. *)
GiveUp(c) ==
  /\ pc[c] = "waiting"
  /\ \E k \in 1..Len(queue) :
       queue[k] = c /\ WakeAll(value, RemoveNth(queue, k), c, "idle")
  /\ UNCHANGED <<now, hist, starts>>

(* Mutant: the timeout forgets that the permit had been granted. *)
GiveBackNothing(c) ==
  /\ pc[c] = "granted"
  /\ WakeAll(value, queue, c, "idle")
  /\ UNCHANGED <<now, hist, starts>>

(* TooBusy as well: the timeout fires after the permit was granted and before
   the waiter ran.  acquire() puts the permit back. *)
GiveBack(c) ==
  /\ pc[c] = "granted"
  /\ WakeAll(value + 1, queue, c, "idle")
  /\ UNCHANGED <<now, hist, starts>>

TimeOut(c) == GiveUp(c) \/ GiveBack(c)

(* Mutant: the permit is put back and nobody is told. *)
ReleaseUntold(c) ==
  /\ pc[c] = "holding"
  /\ value' = value + 1
  /\ pc' = [pc EXCEPT ![c] = "idle"]
  /\ UNCHANGED <<now, hist, starts, queue>>

(* __aexit__: release() wakes one waiter. *)
Release(c) ==
  /\ pc[c] = "holding"
  /\ IF queue = << >>
     THEN /\ value' = value + 1
          /\ pc' = [pc EXCEPT ![c] = "idle"]
          /\ UNCHANGED queue
     ELSE /\ pc' = [pc EXCEPT ![c] = "idle", ![Head(queue)] = "granted"]
          /\ queue' = Tail(queue)
          /\ UNCHANGED value
  /\ UNCHANGED <<now, hist, starts>>

Next ==
  \/ Tick
  \/ \E c \in Clients :
       Refuse(c) \/ Enter(c) \/ Park(c) \/ Resume(c) \/ TimeOut(c) \/ Release(c)

(* The event loop runs every ready task, and every wait_for has a deadline.
   Nothing makes a holder release: a body that never arrives keeps its slot. *)
Spec ==
  /\ Init /\ [][Next]_vars
  /\ \A c \in Clients : WF_vars(Resume(c)) /\ WF_vars(TimeOut(c))

-----------------------------------------------------------------------------
(***************************************************************************)
(* Properties.                                                             *)
(***************************************************************************)
TypeOK ==
  /\ now \in Nat
  /\ DOMAIN hist \subseteq Ips
  /\ \A a \in DOMAIN hist : hist[a] \in Seq(Nat)
  /\ pc \in [Clients -> Stage]
  /\ value \in 0..MaxConcurrent
  /\ queue \in Seq(Clients)
  /\ starts \in [Ips -> Seq(Nat)]

(* "At most N validations at a time" (limits.py), and never fewer for good: a
   permit is free, on its way to a waiter, or held.  A timeout that races a
   grant neither loses nor duplicates one. *)
PermitsConserved ==
  value + Cardinality(At("granted")) + Cardinality(At("holding")) = MaxConcurrent

(* No permit lies idle while somebody queues, unless a granted waiter is about
   to run and look again. *)
NoLostWakeup == value > 0 /\ queue # << >> => At("granted") # {}

(* "at most per_minute validations per minute", over EVERY window of a minute
   and not just the calendar ones, whatever was evicted, pruned or refused. *)
MinuteQuota ==
  \A a \in Ips : \A k \in (PerMinute + 1)..Len(starts[a]) :
    starts[a][k] - starts[a][k - PerMinute] >= Minute

(* The same for the hour, which is what the eviction must not break. *)
HourQuota ==
  \A a \in Ips : \A k \in (PerHour + 1)..Len(starts[a]) :
    starts[a][k] - starts[a][k - PerHour] > Hour

(* Nobody queues for ever: every parked request ends up in the slot or gets
   TooBusy, even if the holders never leave. *)
Answered == \A c \in Clients : pc[c] = "waiting" ~> pc[c] \in {"holding", "idle"}
=============================================================================
