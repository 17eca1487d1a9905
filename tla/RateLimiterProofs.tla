-------------------------- MODULE RateLimiterProofs --------------------------
(***************************************************************************)
(* Proofs about the usage limits, for any callers, addresses, limits and   *)
(* window lengths.                                                         *)
(*                                                                         *)
(* Two inductive invariants that do not need each other.                   *)
(*   - The quota (IQuota): the deque of an address is the END of its       *)
(*     history of starts, and whatever eviction and pruning removed is     *)
(*     already out of both windows.                                        *)
(*   - The permits (IPermits): the queue holds each waiting caller once,   *)
(*     and every permit is free, granted or held.                          *)
(***************************************************************************)
EXTENDS RateLimiter, TLAPS, FiniteSetTheorems, FunctionTheorems

-----------------------------------------------------------------------------
(***************************************************************************)
(* The quota.                                                              *)
(***************************************************************************)
QuotaType ==
  /\ now \in Nat
  /\ DOMAIN hist \subseteq Ips
  /\ \A a \in DOMAIN hist : hist[a] \in Seq(Nat)
  /\ starts \in [Ips -> Seq(Nat)]

Sorted(s) == \A j, k \in 1..Len(s) : j <= k => s[j] <= s[k]

(* How many entries of the history of address a its deque has lost. *)
Lost(a) == Len(starts[a]) - Len(Deque(a))

(* q is the end of the history s; what comes before it has expired. *)
IsTail(q, s) ==
  /\ Len(q) <= Len(s)
  /\ \A j \in 1..Len(q) : q[j] = s[Len(s) - Len(q) + j]
  /\ \A j \in 1..(Len(s) - Len(q)) : Expired(s[j])

History(a) ==
  /\ Sorted(starts[a])
  /\ \A j \in 1..Len(starts[a]) : starts[a][j] <= now
  /\ IsTail(Deque(a), starts[a])

IQuota == /\ QuotaType
          /\ \A a \in Ips : History(a)
          /\ MinuteQuota /\ HourQuota

(* The assumptions on the limits, one by one. *)
LEMMA Limits ==
  /\ IsFiniteSet(Clients) /\ IpOf \in [Clients -> Ips]
  /\ MaxConcurrent \in Nat \ {0} /\ PerHour \in Nat \ {0} /\ PerMinute \in Nat \ {0}
  /\ Minute \in Nat /\ Hour \in Nat /\ Idle \in Nat /\ PruneAt \in Nat
  /\ Minute <= Hour /\ Hour <= Idle
BY LimitsAssumption

(* A start no later than one the pruning calls idle is out of the hour. *)
LEMMA IdleIsExpired ==
  ASSUME now \in Nat, NEW t \in Nat, NEW u \in Nat, t <= u, ~(now - u <= Idle)
  PROVE  Expired(t)
BY Limits DEF Expired

(* A sequence with one more at the end. *)
LEMMA AppendFacts ==
  ASSUME NEW S, NEW s \in Seq(S), NEW x \in S
  PROVE  /\ Append(s, x) \in Seq(S)
         /\ Len(s) \in Nat /\ Len(Append(s, x)) = Len(s) + 1
         /\ \A j \in 1..Len(s) : Append(s, x)[j] = s[j] /\ s[j] \in S
         /\ Append(s, x)[Len(s) + 1] = x
OBVIOUS

(* A sequence without its first ones. *)
LEMMA SuffixFacts ==
  ASSUME NEW S, NEW q \in Seq(S), NEW k \in 0..Len(q)
  PROVE  /\ SubSeq(q, k + 1, Len(q)) \in Seq(S)
         /\ Len(SubSeq(q, k + 1, Len(q))) = Len(q) - k
         /\ \A j \in 1..(Len(q) - k) : SubSeq(q, k + 1, Len(q))[j] = q[k + j]
<1>1. Len(q) \in Nat /\ k \in Nat /\ k <= Len(q)
  OBVIOUS
<1>2. Len(SubSeq(q, k + 1, Len(q))) = Len(q) - k
  BY <1>1
<1>3. ASSUME NEW j \in 1..(Len(q) - k) PROVE SubSeq(q, k + 1, Len(q))[j] = q[k + j]
  BY <1>1, <1>3
<1>4. SubSeq(q, k + 1, Len(q)) \in Seq(S)
  BY <1>1
<1> QED BY <1>2, <1>3, <1>4

(* A deque holds instants. *)
LEMMA DequeType ==
  ASSUME QuotaType, NEW a
  PROVE  Deque(a) \in Seq(Nat)
<1>1. << >> \in Seq(Nat)
  OBVIOUS
<1> QED BY <1>1 DEF QuotaType, Deque

(* No connection has been counted yet. *)
LEMMA QuotaInit == Init => IQuota
<1> SUFFICES ASSUME Init PROVE IQuota
  OBVIOUS
<1>1. << >> \in Seq(Nat) /\ Len(<< >>) = 0 /\ DOMAIN << >> = {}
  OBVIOUS
<1>2. \A a \in Ips : starts[a] = << >> /\ Deque(a) = << >>
  BY <1>1 DEF Init, Deque
<1>3. QuotaType
  BY <1>1 DEF Init, QuotaType
<1>4. ASSUME NEW a \in Ips PROVE History(a)
  BY <1>1, <1>2 DEF History, Sorted, IsTail
<1>5. MinuteQuota /\ HourQuota
  BY <1>1, <1>2, Limits DEF MinuteQuota, HourQuota
<1> QED BY <1>3, <1>4, <1>5 DEF IQuota

(* Time only takes entries out of the windows. *)
LEMMA QuotaTick ==
  ASSUME IQuota, Tick
  PROVE  IQuota'
<1>1. now \in Nat /\ now' = now + 1 /\ hist' = hist /\ starts' = starts
  BY DEF IQuota, QuotaType, Tick
<1>2. QuotaType'
  BY <1>1 DEF IQuota, QuotaType
<1>3. \A a : Deque(a)' = Deque(a)
  BY <1>1 DEF Deque
<1>4. ASSUME NEW a \in Ips PROVE History(a)'
  <2>1. History(a) /\ starts[a] \in Seq(Nat) /\ Deque(a) \in Seq(Nat)
    BY DequeType DEF IQuota, QuotaType
  <2>2. \A j \in 1..Len(starts[a]) : starts[a][j] \in Nat
    BY <2>1
  <2>3. Len(starts[a]) \in Nat /\ Len(Deque(a)) \in Nat
    BY <2>1
  <2>4. \A j \in 1..(Len(starts[a]) - Len(Deque(a))) : Expired(starts[a][j])'
    <3> SUFFICES ASSUME NEW j \in 1..(Len(starts[a]) - Len(Deque(a)))
                 PROVE  Expired(starts[a][j])'
      OBVIOUS
    <3>1. IsTail(Deque(a), starts[a])
      BY <2>1 DEF History
    <3>2. Expired(starts[a][j])
      BY <3>1 DEF IsTail
    <3>3. starts[a][j] \in Nat
      BY <2>2, <2>3
    <3> QED BY <3>2, <3>3, <1>1, Limits DEF Expired
  <2>5. \A j \in 1..Len(starts[a]) : starts[a][j] <= now'
    BY <2>1, <2>2, <1>1 DEF History
  <2> QED BY <2>1, <2>4, <2>5, <1>1, <1>3 DEF History, IsTail
<1>5. (MinuteQuota /\ HourQuota)'
  BY <1>1 DEF IQuota, MinuteQuota, HourQuota
<1> QED BY <1>2, <1>4, <1>5 DEF IQuota

(* Eviction keeps the deque an end of the history. *)
LEMMA EvictionKeepsTail ==
  ASSUME NEW s \in Seq(Nat), NEW q \in Seq(Nat), IsTail(q, s),
         NEW k \in Evictable(q)
  PROVE  /\ SubSeq(q, k + 1, Len(q)) \in Seq(Nat)
         /\ IsTail(SubSeq(q, k + 1, Len(q)), s)
<1> DEFINE r == SubSeq(q, k + 1, Len(q))
<1>1. k \in 0..Len(q) /\ \A j \in 1..k : Expired(q[j])
  BY DEF Evictable
<1>2. /\ r \in Seq(Nat) /\ Len(r) = Len(q) - k
      /\ \A j \in 1..Len(r) : r[j] = q[k + j]
  BY <1>1, SuffixFacts
<1> HIDE DEF r
<1>3. ASSUME NEW j \in 1..Len(r) PROVE r[j] = s[Len(s) - Len(r) + j]
  <2>1. k + j \in 1..Len(q)
    BY <1>1, <1>2
  <2>2. q[k + j] = s[Len(s) - Len(q) + (k + j)]
    BY <2>1 DEF IsTail
  <2>3. Len(s) - Len(q) + (k + j) = Len(s) - Len(r) + j
    <3>1. Len(s) \in Int /\ Len(q) \in Int /\ k \in Int /\ j \in Int
      BY <1>1, <2>1
    <3>2. Len(r) = Len(q) - k
      BY <1>2
    <3> QED BY <3>1, <3>2
  <2> QED BY <2>2, <2>3, <1>2
<1>4. ASSUME NEW j \in 1..(Len(s) - Len(r)) PROVE Expired(s[j])
  <2>1. CASE j <= Len(s) - Len(q)
    BY <2>1, <1>1, <1>2 DEF IsTail
  <2>2. CASE j > Len(s) - Len(q)
    <3> DEFINE m == j - (Len(s) - Len(q))
    <3>1. m \in 1..k /\ m \in 1..Len(q)
      BY <2>2, <1>1, <1>2
    <3>2. Expired(q[m]) /\ q[m] = s[Len(s) - Len(q) + m]
      BY <3>1, <1>1 DEF IsTail
    <3>3. Len(s) - Len(q) + m = j
      BY <1>1
    <3> QED BY <3>2, <3>3
  <2> QED BY <2>1, <2>2, <1>1, <1>2
<1>5. Len(r) <= Len(s)
  BY <1>1, <1>2 DEF IsTail
<1> QED BY <1>2, <1>3, <1>4, <1>5 DEF IsTail, r

(* What a refused caller leaves: a shorter deque, nothing else. *)
LEMMA QuotaRefuse ==
  ASSUME IQuota, NEW c \in Clients, Refuse(c)
  PROVE  IQuota'
<1> DEFINE ip == IpOf[c]
           q == Deque(ip)
<1>1. ip \in Ips /\ q \in Seq(Nat)
  BY Limits, DequeType DEF IQuota
<1>2. now' = now /\ starts' = starts
  BY DEF Refuse
<1>3. PICK k \in Evictable(q) : hist' = WithDeque(ip, SubSeq(q, k + 1, Len(q)))
  BY DEF Refuse
<1> DEFINE r == SubSeq(q, k + 1, Len(q))
<1>4. starts[ip] \in Seq(Nat) /\ IsTail(q, starts[ip])
  BY <1>1 DEF IQuota, QuotaType, History
<1>5. r \in Seq(Nat) /\ IsTail(r, starts[ip])
  BY <1>1, <1>3, <1>4, EvictionKeepsTail
<1>6. /\ DOMAIN hist' = DOMAIN hist \cup {ip}
      /\ \A a \in DOMAIN hist' : hist'[a] = IF a = ip THEN r ELSE hist[a]
  BY <1>3 DEF WithDeque
<1>7. QuotaType'
  BY <1>1, <1>2, <1>5, <1>6 DEF IQuota, QuotaType
<1>8. \A a \in Ips : Deque(a)' = IF a = ip THEN r ELSE Deque(a)
  BY <1>6 DEF Deque
<1>9. ASSUME NEW a \in Ips PROVE History(a)'
  <2>1. History(a)
    BY DEF IQuota
  <2>2. IsTail(Deque(a)', starts[a])
    BY <2>1, <1>5, <1>8 DEF History
  <2> QED BY <2>1, <2>2, <1>2 DEF History, IsTail, Expired
<1>10. (MinuteQuota /\ HourQuota)'
  BY <1>2 DEF IQuota, MinuteQuota, HourQuota
<1> QED BY <1>7, <1>9, <1>10 DEF IQuota

(* Fewer than n recent entries at the end of a sorted deque: the n-th from the
   end is out of the window. *)
LEMMA RecentAreLast ==
  ASSUME NEW q \in Seq(Nat), Sorted(q), now \in Nat,
         NEW n \in Nat \ {0}, Cardinality(Recent(q)) < n, n <= Len(q)
  PROVE  now - q[Len(q) - n + 1] >= Minute
<1> DEFINE first == Len(q) - n + 1
<1>1. first \in 1..Len(q) /\ Len(q) \in Nat
  OBVIOUS
<1>2. \A j \in 1..Len(q) : q[j] \in Nat
  OBVIOUS
<1>3. IsFiniteSet(Recent(q))
  <2>1. IsFiniteSet(1..Len(q)) /\ Recent(q) \in SUBSET (1..Len(q))
    BY <1>1, FS_Interval DEF Recent
  <2> QED BY <2>1, FS_Subset
<1>4. ASSUME now - q[first] < Minute PROVE FALSE
  <2>1. first..Len(q) \in SUBSET Recent(q)
    <3> SUFFICES ASSUME NEW j \in first..Len(q) PROVE j \in Recent(q)
      OBVIOUS
    <3>1. j \in 1..Len(q) /\ first <= j
      BY <1>1
    <3>2. q[first] <= q[j] /\ q[first] \in Nat /\ q[j] \in Nat
      BY <3>1, <1>1, <1>2 DEF Sorted
    <3>3. now - q[j] < Minute
      BY <3>2, <1>4, Limits
    <3> QED BY <3>1, <3>3 DEF Recent
  <2>2. Cardinality(first..Len(q)) = n
    BY <1>1, FS_Interval
  <2>3. Cardinality(first..Len(q)) <= Cardinality(Recent(q))
    BY <2>1, <1>3, FS_Subset
  <2>4. Cardinality(Recent(q)) \in Nat
    BY <1>3, FS_CardinalityType
  <2> QED BY <2>2, <2>3, <2>4
<1>5. q[first] \in Nat
  BY <1>1, <1>2
<1> QED BY <1>4, <1>5, Limits

(* Charging an address: its deque and its history grow together, and the
   pruning drops only addresses whose history is out of both windows. *)
LEMMA QuotaCharge ==
  ASSUME IQuota, NEW c \in Clients, Charge(c)
  PROVE  IQuota'
<1> DEFINE ip == IpOf[c]
           q == Deque(ip)
           s == starts[ip]
<1>1. ip \in Ips /\ q \in Seq(Nat) /\ now \in Nat
  BY Limits, DequeType DEF IQuota, QuotaType
<1>2. s \in Seq(Nat) /\ IsTail(q, s) /\ Sorted(s) /\ \A j \in 1..Len(s) : s[j] <= now
  BY <1>1 DEF IQuota, QuotaType, History
<1>3. now' = now /\ starts' = [starts EXCEPT ![ip] = Append(s, now)]
  BY DEF Charge
<1>4. PICK k \in Evictable(q) :
        /\ ~Refuses(SubSeq(q, k + 1, Len(q)))
        /\ hist' = Pruned(WithDeque(ip, Append(SubSeq(q, k + 1, Len(q)), now)))
  BY DEF Charge
<1> DEFINE r == SubSeq(q, k + 1, Len(q))
           h == WithDeque(ip, Append(r, now))
<1>5. r \in Seq(Nat) /\ IsTail(r, s)
  BY <1>1, <1>2, <1>4, EvictionKeepsTail
<1>r. ~Refuses(r)
  BY <1>4
<1> HIDE DEF r
<1> DEFINE r1 == Append(r, now)
           s1 == Append(s, now)
<1>6. /\ r1 \in Seq(Nat) /\ s1 \in Seq(Nat)
      /\ Len(r) \in Nat /\ Len(s) \in Nat
      /\ Len(r1) = Len(r) + 1 /\ Len(s1) = Len(s) + 1
      /\ \A x \in 1..Len(r) : r1[x] = r[x] /\ r[x] \in Nat
      /\ \A x \in 1..Len(s) : s1[x] = s[x] /\ s[x] \in Nat
      /\ r1[Len(r) + 1] = now /\ s1[Len(s) + 1] = now
  <2>1. /\ r1 \in Seq(Nat) /\ Len(r) \in Nat /\ Len(r1) = Len(r) + 1
        /\ \A x \in 1..Len(r) : r1[x] = r[x] /\ r[x] \in Nat
        /\ r1[Len(r) + 1] = now
    <3> HIDE DEF q, s
    <3> QED BY <1>1, <1>5, AppendFacts
  <2>2. /\ s1 \in Seq(Nat) /\ Len(s) \in Nat /\ Len(s1) = Len(s) + 1
        /\ \A x \in 1..Len(s) : s1[x] = s[x] /\ s[x] \in Nat
        /\ s1[Len(s) + 1] = now
    <3> HIDE DEF q, s
    <3> QED BY <1>1, <1>2, AppendFacts
  <2> QED BY <2>1, <2>2
<1>h. h = WithDeque(ip, r1) /\ starts' = [starts EXCEPT ![ip] = s1]
  BY <1>3
<1> HIDE DEF r1, s1, s
<1>7. /\ DOMAIN h = DOMAIN hist \cup {ip}
      /\ \A a \in DOMAIN h : h[a] = IF a = ip THEN r1 ELSE hist[a]
  BY <1>h DEF WithDeque
<1>8. /\ DOMAIN hist' \subseteq DOMAIN h
      /\ \A a \in DOMAIN hist' : hist'[a] = h[a]
      /\ \A a \in DOMAIN h \ DOMAIN hist' : a \notin Remembered(h)
  <2>1. hist' = Pruned(h)
    BY <1>4 DEF r
  <2> QED BY <2>1 DEF Pruned, Remembered
<1> HIDE DEF h
<1>9. QuotaType'
  <2>1. starts' \in [Ips -> Seq(Nat)]
    BY <1>h, <1>6 DEF IQuota, QuotaType
  <2>2. DOMAIN hist' \subseteq Ips
    BY <1>1, <1>7, <1>8 DEF IQuota, QuotaType
  <2>3. \A a \in DOMAIN hist' : hist'[a] \in Seq(Nat)
    BY <1>6, <1>7, <1>8 DEF IQuota, QuotaType
  <2> QED BY <2>1, <2>2, <2>3, <1>1, <1>3 DEF QuotaType
<1>10. starts'[ip] = s1 /\ \A a \in Ips \ {ip} : starts'[a] = starts[a]
  BY <1>1, <1>h DEF IQuota, QuotaType
<1>11. \A t : Expired(t)' <=> Expired(t)
  BY <1>3 DEF Expired
<1>12. ip \in DOMAIN hist' /\ Deque(ip)' = r1
  <2>1. h[ip] = r1 /\ ip \in DOMAIN h
    BY <1>7
  <2>2. ip \in Remembered(h)
    <3>1. h[ip] # << >> /\ h[ip][Len(h[ip])] = now
      BY <2>1, <1>6
    <3> QED BY <2>1, <3>1, <1>1, Limits DEF Remembered
  <2> QED BY <2>1, <2>2, <1>8 DEF Deque
<1>13. History(ip)'
  <2>1. Sorted(s1)
    <3> SUFFICES ASSUME NEW x \in 1..(Len(s) + 1), NEW y \in 1..(Len(s) + 1), x <= y
                 PROVE  s1[x] <= s1[y]
      BY <1>6 DEF Sorted
    <3>1. CASE y \in 1..Len(s)
      <4>1. x \in 1..Len(s)
        BY <3>1, <1>6
      <4>2. s[x] <= s[y]
        BY <3>1, <4>1, <1>2 DEF Sorted
      <4> QED BY <3>1, <4>1, <4>2, <1>6
    <3>2. CASE y = Len(s) + 1
      <4>1. s1[y] = now
        BY <3>2, <1>6
      <4>2. CASE x \in 1..Len(s)
        <5>1. s[x] <= now /\ s1[x] = s[x]
          BY <4>2, <1>2, <1>6
        <5> QED BY <4>1, <5>1
      <4>3. CASE x = y
        BY <4>1, <4>3, <1>1
      <4> QED BY <3>2, <4>2, <4>3, <1>6
    <3> QED BY <3>1, <3>2, <1>6
  <2>2. ASSUME NEW j \in 1..(Len(s) + 1) PROVE s1[j] <= now
    <3>1. CASE j \in 1..Len(s)
      <4>1. s[j] <= now /\ s1[j] = s[j]
        BY <3>1, <1>2, <1>6
      <4> QED BY <4>1
    <3>2. CASE j = Len(s) + 1
      <4>1. s1[j] = now
        BY <3>2, <1>6
      <4> QED BY <4>1, <1>1
    <3> QED BY <3>1, <3>2, <1>6
  <2>3. IsTail(r1, s1)
    <3>1. Len(r) + 1 <= Len(s) + 1
      BY <1>5, <1>6 DEF IsTail
    <3>2. (Len(s) + 1) - (Len(r) + 1) = Len(s) - Len(r)
      BY <1>6
    <3>3. ASSUME NEW j \in 1..(Len(r) + 1)
          PROVE  r1[j] = s1[Len(s) - Len(r) + j]
      <4>1. CASE j \in 1..Len(r)
        <5>1. Len(s) - Len(r) + j \in 1..Len(s)
          BY <4>1, <1>5, <1>6 DEF IsTail
        <5> QED BY <4>1, <5>1, <1>5, <1>6 DEF IsTail
      <4>2. CASE j = Len(r) + 1
        BY <4>2, <1>6
      <4> QED BY <4>1, <4>2, <1>6
    <3>4. ASSUME NEW j \in 1..(Len(s) - Len(r)) PROVE Expired(s1[j])
      <4>1. j \in 1..Len(s)
        BY <1>6
      <4> QED BY <4>1, <1>5, <1>6 DEF IsTail
    <3> QED BY <3>1, <3>2, <3>3, <3>4, <1>6 DEF IsTail
  <2> QED BY <2>1, <2>2, <2>3, <1>3, <1>6, <1>10, <1>11, <1>12 DEF History, IsTail, Sorted
<1>14. ASSUME NEW a \in Ips \ {ip} PROVE History(a)'
  <2>1. History(a) /\ starts[a] \in Seq(Nat) /\ Deque(a) \in Seq(Nat)
    BY DequeType DEF IQuota, QuotaType
  <2>2. CASE Deque(a)' = Deque(a)
    BY <2>1, <2>2, <1>3, <1>10, <1>11 DEF History, IsTail
  <2>3. CASE Deque(a)' # Deque(a)
    (* Only pruning changes another address. *)
    <3>1. a \in DOMAIN hist /\ a \notin DOMAIN hist' /\ Deque(a)' = << >>
          /\ Deque(a) = hist[a] /\ a \in DOMAIN h /\ h[a] = hist[a]
      BY <2>3, <1>7, <1>8 DEF Deque
    <3>2. hist[a] = << >> \/ ~(now - hist[a][Len(hist[a])] <= Idle)
      BY <3>1, <1>8 DEF Remembered
    <3>3. \A j \in 1..Len(starts[a]) : Expired(starts[a][j])
      <4> DEFINE n == Len(starts[a])
                 m == Len(Deque(a))
      <4>1. n \in Nat /\ m \in Nat /\ m <= n /\ IsTail(Deque(a), starts[a])
        BY <2>1 DEF History, IsTail
      <4>2. CASE m = 0
        BY <4>1, <4>2 DEF IsTail
      <4>3. CASE m > 0
        <5>1. Deque(a) # << >> /\ m \in 1..m /\ n \in 1..n
          BY <4>1, <4>3, <2>1
        <5>2. Deque(a)[m] = starts[a][n - m + m] /\ n - m + m = n
          BY <4>1, <5>1 DEF IsTail
        <5>3. starts[a][n] \in Nat /\ ~(now - starts[a][n] <= Idle)
          BY <2>1, <3>1, <3>2, <5>1, <5>2
        <5>4. ASSUME NEW j \in 1..n PROVE Expired(starts[a][j])
          <6>1. starts[a][j] <= starts[a][n] /\ starts[a][j] \in Nat
            BY <2>1, <5>1 DEF History, Sorted
          <6> QED BY <6>1, <5>3, <1>1, IdleIsExpired
        <5> QED BY <5>4
      <4> QED BY <4>1, <4>2, <4>3
    <3>4. IsTail(<< >>, starts[a])
      <4>1. Len(<< >>) = 0 /\ Len(starts[a]) \in Nat
        BY <2>1
      <4> QED BY <4>1, <3>3 DEF IsTail
    <3> QED BY <2>1, <3>1, <3>4, <1>3, <1>10, <1>11 DEF History, IsTail
  <2> QED BY <2>2, <2>3
<1>15. HourQuota'
  <2> SUFFICES ASSUME NEW a \in Ips, NEW n \in (PerHour + 1)..Len(starts'[a])
               PROVE  starts'[a][n] - starts'[a][n - PerHour] > Hour
    BY DEF HourQuota
  <2>0. PerHour \in Nat \ {0}
    BY Limits
  <2>1. CASE a # ip
    BY <2>1, <1>10 DEF IQuota, HourQuota
  <2>2. CASE a = ip /\ n \in 1..Len(s)
    <3>1. n \in (PerHour + 1)..Len(s) /\ n - PerHour \in 1..Len(s)
      BY <2>0, <2>2, <1>6
    <3>2. s[n] - s[n - PerHour] > Hour
      BY <3>1, <1>1 DEF IQuota, HourQuota, s
    <3> QED BY <2>2, <3>1, <3>2, <1>6, <1>10
  <2>3. CASE a = ip /\ n = Len(s) + 1
    <3> DEFINE x == Len(s) + 1 - PerHour
    <3>1. Len(r) < PerHour
      BY <1>r, <1>6, <2>0 DEF Refuses
    <3>2. x \in 1..(Len(s) - Len(r)) /\ x \in 1..Len(s)
      BY <2>0, <2>3, <3>1, <1>6, <1>10
    <3>3. Expired(s[x]) /\ s1[x] = s[x]
      BY <3>2, <1>5, <1>6 DEF IsTail
    <3>4. starts'[a][n] = now /\ starts'[a][n - PerHour] = s[x]
      <4>1. starts'[a] = s1 /\ n - PerHour = x
        BY <2>0, <2>3, <1>6, <1>10
      <4> QED BY <4>1, <2>3, <3>3, <1>6
    <3> QED BY <3>3, <3>4 DEF Expired
  <2>4. Len(starts'[a]) = Len(s) + 1 \/ a # ip
    BY <1>6, <1>10
  <2> QED BY <2>0, <2>1, <2>2, <2>3, <2>4, <1>6
<1>16. MinuteQuota'
  <2> SUFFICES ASSUME NEW a \in Ips, NEW n \in (PerMinute + 1)..Len(starts'[a])
               PROVE  starts'[a][n] - starts'[a][n - PerMinute] >= Minute
    BY DEF MinuteQuota
  <2>0. PerMinute \in Nat \ {0}
    BY Limits
  <2>1. CASE a # ip
    BY <2>1, <1>10 DEF IQuota, MinuteQuota
  <2>2. CASE a = ip /\ n \in 1..Len(s)
    <3>1. n \in (PerMinute + 1)..Len(s) /\ n - PerMinute \in 1..Len(s)
      BY <2>0, <2>2, <1>6
    <3>2. s[n] - s[n - PerMinute] >= Minute
      BY <3>1, <1>1 DEF IQuota, MinuteQuota, s
    <3> QED BY <2>2, <3>1, <3>2, <1>6, <1>10
  <2>3. CASE a = ip /\ n = Len(s) + 1
    <3> DEFINE x == Len(s) + 1 - PerMinute
    <3>1. x \in 1..Len(s)
      BY <2>0, <2>3, <1>6, <1>10
    <3>2. s1[x] = s[x] /\ s[x] \in Nat
      BY <3>1, <1>6
    <3>t. starts'[a][n] = now /\ starts'[a][n - PerMinute] = s[x]
      <4>1. starts'[a] = s1 /\ n - PerMinute = x
        BY <2>0, <2>3, <1>6, <1>10
      <4> QED BY <4>1, <2>3, <3>2, <1>6
    <3>3. CASE x <= Len(s) - Len(r)
      <4>1. Expired(s[x])
        BY <3>1, <3>3, <1>5, <1>6 DEF IsTail
      <4> QED BY <4>1, <3>t, <3>2, <1>1, Limits DEF Expired
    <3>4. CASE x > Len(s) - Len(r)
      <4>1. PerMinute <= Len(r)
        BY <3>4, <2>0, <1>6
      <4>2. Cardinality(Recent(r)) < PerMinute
        <5>1. IsFiniteSet(Recent(r))
          <6>1. IsFiniteSet(1..Len(r)) /\ Recent(r) \in SUBSET (1..Len(r))
            BY <1>6, FS_Interval DEF Recent
          <6> QED BY <6>1, FS_Subset
        <5>2. Cardinality(Recent(r)) \in Nat
          BY <5>1, FS_CardinalityType
        <5> QED BY <5>2, <1>r, <2>0 DEF Refuses
      <4>3. Sorted(r)
        <5> SUFFICES ASSUME NEW y \in 1..Len(r), NEW z \in 1..Len(r), y <= z
                     PROVE  r[y] <= r[z]
          BY DEF Sorted
        <5> DEFINE m == Len(s) - Len(r)
        <5>1. /\ m \in Nat /\ y \in Int /\ z \in Int /\ m + Len(r) = Len(s)
              /\ Len(r) \in Int /\ Len(s) \in Int
              /\ 1 <= y /\ y <= Len(r) /\ 1 <= z /\ z <= Len(r) /\ y <= z
          BY <1>5, <1>6 DEF IsTail
        <5> HIDE DEF m
        <5>2. m + y \in 1..Len(s) /\ m + z \in 1..Len(s) /\ m + y <= m + z
          BY <5>1
        <5>3. r[y] = s[m + y] /\ r[z] = s[m + z]
          BY <1>5 DEF IsTail, m
        <5>4. s[m + y] <= s[m + z]
          BY <5>2, <1>2 DEF Sorted
        <5> QED BY <5>3, <5>4
      <4>4. now - r[Len(r) - PerMinute + 1] >= Minute
        BY <4>1, <4>2, <4>3, <1>1, <1>5, <2>0, RecentAreLast
      <4>5. r[Len(r) - PerMinute + 1] = s[x]
        <5>1. Len(r) - PerMinute + 1 \in 1..Len(r)
          BY <4>1, <2>0, <1>6
        <5>2. Len(s) - Len(r) + (Len(r) - PerMinute + 1) = x
          BY <2>0, <1>6
        <5> QED BY <5>1, <5>2, <1>5 DEF IsTail
      <4> QED BY <4>4, <4>5, <3>t
    <3> QED BY <3>1, <3>3, <3>4, <1>6
  <2>4. Len(starts'[a]) = Len(s) + 1 \/ a # ip
    BY <1>6, <1>10
  <2> QED BY <2>0, <2>1, <2>2, <2>3, <2>4, <1>6
<1> QED BY <1>9, <1>13, <1>14, <1>15, <1>16 DEF IQuota

(* A step that counts no connection. *)
LEMMA QuotaOther ==
  ASSUME IQuota, UNCHANGED <<now, hist, starts>>
  PROVE  IQuota'
<1>1. now' = now /\ hist' = hist /\ starts' = starts
  OBVIOUS
<1>2. \A a : Deque(a)' = Deque(a)
  BY <1>1 DEF Deque
<1>3. QuotaType'
  BY <1>1 DEF IQuota, QuotaType
<1>4. \A a \in Ips : History(a)'
  BY <1>1, <1>2 DEF IQuota, History, IsTail, Expired
<1>5. MinuteQuota' /\ HourQuota'
  BY <1>1 DEF IQuota, MinuteQuota, HourQuota
<1> QED BY <1>3, <1>4, <1>5 DEF IQuota

(* Every action, as far as the quota is concerned. *)
LEMMA QuotaStep == IQuota /\ [Next]_vars => IQuota'
<1> SUFFICES ASSUME IQuota, [Next]_vars PROVE IQuota'
  OBVIOUS
<1>1. CASE UNCHANGED vars
  BY <1>1, QuotaOther DEF vars
<1>2. CASE Tick
  BY <1>2, QuotaTick
<1>3. ASSUME NEW c \in Clients, Refuse(c) PROVE IQuota'
  BY <1>3, QuotaRefuse
<1>4. ASSUME NEW c \in Clients, Enter(c) \/ Park(c) PROVE IQuota'
  BY <1>4, QuotaCharge DEF Enter, Park
<1>5. ASSUME NEW c \in Clients, Resume(c) \/ TimeOut(c) \/ Release(c) PROVE IQuota'
  BY <1>5, QuotaOther DEF Resume, TimeOut, GiveUp, GiveBack, Release
<1> QED BY <1>1, <1>2, <1>3, <1>4, <1>5 DEF Next

(* No address starts more than per_minute validations within any minute,
   whatever is evicted, pruned, refused or timed out (_check_ip). *)
THEOREM MinuteQuotaHolds == Spec => []MinuteQuota
<1>1. IQuota => MinuteQuota
  BY DEF IQuota
<1> QED BY <1>1, QuotaInit, QuotaStep, PTL DEF Spec

(* No address starts more than per_hour validations within any hour: what
   eviction and pruning forget is out of the window (_check_ip). *)
THEOREM HourQuotaHolds == Spec => []HourQuota
<1>1. IQuota => HourQuota
  BY DEF IQuota
<1> QED BY <1>1, QuotaInit, QuotaStep, PTL DEF Spec

-----------------------------------------------------------------------------
(***************************************************************************)
(* The permits.                                                            *)
(***************************************************************************)
Distinct(q) == \A j, k \in 1..Len(q) : q[j] = q[k] => j = k

InQueue(d, q) == \E j \in 1..Len(q) : q[j] = d

PermitType == /\ pc \in [Clients -> Stage]
              /\ value \in Nat
              /\ queue \in Seq(Clients)

IPermits == /\ PermitType
            /\ Distinct(queue)
            /\ \A d \in Clients : pc[d] = "waiting" <=> InQueue(d, queue)
            /\ PermitsConserved
            /\ NoLostWakeup

(* The callers of a stage can be counted. *)
LEMMA StagesAreFinite ==
  ASSUME NEW stage
  PROVE  /\ IsFiniteSet(At(stage)) /\ Cardinality(At(stage)) \in Nat
         /\ IsFiniteSet(At(stage)') /\ Cardinality(At(stage)') \in Nat
<1>1. At(stage) \in SUBSET Clients /\ At(stage)' \in SUBSET Clients
  BY DEF At
<1>2. IsFiniteSet(At(stage)) /\ IsFiniteSet(At(stage)')
  BY <1>1, Limits, FS_Subset
<1> QED BY <1>2, FS_CardinalityType

(* A caller leaves a stage. *)
LEMMA OneLess ==
  ASSUME NEW stage, NEW c \in At(stage)
  PROVE  Cardinality(At(stage) \ {c}) = Cardinality(At(stage)) - 1
<1>1. IsFiniteSet(At(stage))
  BY StagesAreFinite
<1> QED BY <1>1, FS_RemoveElement

(* The two stages that hold a permit. *)
LEMMA Sizes ==
  /\ Cardinality(At("granted")) \in Nat /\ Cardinality(At("holding")) \in Nat
  /\ Cardinality(At("granted")') \in Nat /\ Cardinality(At("holding")') \in Nat
BY StagesAreFinite

(* The first k waiters of a queue without repetitions are k callers. *)
LEMMA FrontCardinality ==
  ASSUME NEW q \in Seq(Clients), Distinct(q), NEW k \in 0..Len(q)
  PROVE  /\ Front(q, k) \subseteq Clients
         /\ IsFiniteSet(Front(q, k)) /\ Cardinality(Front(q, k)) = k
<1> DEFINE f == [j \in 1..k |-> q[j]]
<1>1. k \in Nat /\ 1..k \subseteq 1..Len(q)
  OBVIOUS
<1>2. \A j \in 1..k : q[j] \in Clients /\ q[j] \in Front(q, k)
  BY <1>1 DEF Front
<1>3. Front(q, k) \subseteq Clients
  BY <1>2 DEF Front
<1>4. f \in [1..k -> Front(q, k)]
  BY <1>2
<1>5. f \in Surjection(1..k, Front(q, k))
  BY <1>4 DEF Surjection, Front
<1>6. f \in Injection(1..k, Front(q, k))
  BY <1>1, <1>4 DEF Injection, IsInjective, Distinct
<1>7. IsFiniteSet(1..k) /\ Cardinality(1..k) = k
  BY <1>1, FS_Interval
<1> QED BY <1>3, <1>5, <1>6, <1>7, FS_Surjection

(* All permits are free. *)
LEMMA PermitsInit == Init => IPermits
<1> SUFFICES ASSUME Init PROVE IPermits
  OBVIOUS
<1>1. PermitType /\ queue = << >> /\ Len(queue) = 0
  BY Limits DEF Init, PermitType, Stage
<1>2. Distinct(queue) /\ \A d \in Clients : pc[d] = "waiting" <=> InQueue(d, queue)
  BY <1>1 DEF Distinct, InQueue, Init
<1>3. At("granted") = {} /\ At("holding") = {}
  BY DEF Init, At
<1>4. PermitsConserved
  <2>1. Cardinality(At("granted")) = 0 /\ Cardinality(At("holding")) = 0
    BY <1>3, FS_EmptySet
  <2>2. value = MaxConcurrent
    BY DEF Init
  <2> QED BY <2>1, <2>2, Limits DEF PermitsConserved
<1> QED BY <1>1, <1>2, <1>4 DEF IPermits, NoLostWakeup

(* The wake-up loop: v permits over queue q, when caller c leaves for stage.
   The accounts balance afterwards if they balance before, c left aside. *)
LEMMA WakeAllKeepsPermits ==
  ASSUME pc \in [Clients -> Stage], NEW v \in Nat, NEW q \in Seq(Clients),
         Distinct(q), NEW c \in Clients, ~InQueue(c, q),
         NEW stage \in {"idle", "holding"},
         \A d \in Clients \ {c} : pc[d] = "waiting" <=> InQueue(d, q),
         v + Cardinality(At("granted") \ {c}) + Cardinality(At("holding") \ {c})
           + (IF stage = "holding" THEN 1 ELSE 0) = MaxConcurrent,
         WakeAll(v, q, c, stage)
  PROVE  IPermits'
<1> DEFINE k == IF v < Len(q) THEN v ELSE Len(q)
           F == Front(q, k)
           G == At("granted") \ {c}
           H == At("holding") \ {c}
<1>1. k \in 0..Len(q) /\ k \in Nat /\ Len(q) \in Nat /\ v - k \in Nat
  OBVIOUS
<1>2. /\ value' = v - k /\ queue' = SubSeq(q, k + 1, Len(q))
      /\ pc' = [d \in Clients |-> IF d \in F THEN "granted"
                                 ELSE IF d = c THEN stage ELSE pc[d]]
  BY DEF WakeAll
<1>3. F \subseteq Clients /\ IsFiniteSet(F) /\ Cardinality(F) = k
  BY <1>1, FrontCardinality
<1>4. c \notin F
  BY <1>1 DEF Front, InQueue
<1>5. \A d \in F : pc[d] = "waiting" /\ d # c
  BY <1>1, <1>3, <1>4 DEF Front, InQueue
<1>6. ASSUME NEW j \in 1..(Len(q) - k) PROVE q[k + j] \notin F
  <2>1. k + j \in 1..Len(q)
    BY <1>1
  <2>2. ASSUME NEW m \in 1..k PROVE q[m] # q[k + j]
    BY <1>1, <2>1 DEF Distinct
  <2> QED BY <2>2 DEF Front
<1> HIDE DEF F
<1>7. /\ queue' \in Seq(Clients) /\ Len(queue') = Len(q) - k
      /\ \A j \in 1..Len(queue') : queue'[j] = q[k + j]
  BY <1>1, <1>2, SuffixFacts
<1> HIDE DEF k
<1>8. PermitType'
  <2>1. pc' \in [Clients -> Stage]
    BY <1>2 DEF Stage
  <2> QED BY <2>1, <1>1, <1>2, <1>7 DEF PermitType
<1>9. Distinct(queue)'
  <2> SUFFICES ASSUME NEW x \in 1..Len(queue'), NEW y \in 1..Len(queue'),
                      queue'[x] = queue'[y]
               PROVE  x = y
    BY DEF Distinct
  <2>1. k + x \in 1..Len(q) /\ k + y \in 1..Len(q) /\ q[k + x] = q[k + y]
    BY <1>1, <1>7
  <2>2. k + x = k + y
    BY <2>1 DEF Distinct
  <2> QED BY <2>2, <1>1, <1>7
<1>10. ASSUME NEW d \in Clients PROVE pc'[d] = "waiting" <=> InQueue(d, queue')
  <2>1. ASSUME InQueue(d, queue') PROVE pc'[d] = "waiting"
    <3>1. PICK j \in 1..Len(queue') : queue'[j] = d
      BY <2>1 DEF InQueue
    <3>2. k + j \in 1..Len(q) /\ q[k + j] = d
      BY <3>1, <1>1, <1>7
    <3>3. InQueue(d, q) /\ d \notin F
      BY <3>1, <3>2, <1>6, <1>7 DEF InQueue
    <3> QED BY <3>3, <1>2
  <2>2. ASSUME pc'[d] = "waiting" PROVE InQueue(d, queue')
    <3>1. d \notin F /\ d # c /\ pc[d] = "waiting"
      BY <2>2, <1>2
    <3>2. PICK j \in 1..Len(q) : q[j] = d
      BY <3>1 DEF InQueue
    <3>3. j > k
      BY <3>1, <3>2, <1>1 DEF F, Front
    <3>4. j - k \in 1..Len(queue') /\ queue'[j - k] = q[k + (j - k)] /\ k + (j - k) = j
      BY <3>3, <1>1, <1>7
    <3> QED BY <3>2, <3>4 DEF InQueue
  <2> QED BY <2>1, <2>2
<1>11. At("granted")' = G \cup F
  BY <1>2, <1>3, <1>4 DEF At
<1>12. At("holding")' = IF stage = "holding" THEN H \cup {c} ELSE H
  BY <1>2, <1>4, <1>5 DEF At
<1>13. Cardinality(G \cup F) = Cardinality(G) + k
  <2>1. IsFiniteSet(G)
    BY StagesAreFinite, FS_RemoveElement
  <2>2. G \cap F = {}
    BY <1>5 DEF At
  <2>3. Cardinality(G \cup F) = Cardinality(G) + Cardinality(F) - Cardinality(G \cap F)
    BY <2>1, <1>3, FS_Union
  <2>4. Cardinality(G \cap F) = 0
    BY <2>2, FS_EmptySet
  <2> QED BY <2>1, <2>3, <2>4, <1>1, <1>3, FS_CardinalityType
<1>14. /\ Cardinality(H) \in Nat /\ Cardinality(G) \in Nat
       /\ Cardinality(At("holding")') = Cardinality(H) + IF stage = "holding" THEN 1 ELSE 0
  <2>1. IsFiniteSet(H) /\ IsFiniteSet(G)
    BY StagesAreFinite, FS_RemoveElement
  <2>2. Cardinality(H \cup {c}) = Cardinality(H) + 1
    BY <2>1, FS_AddElement
  <2>3. Cardinality(H) \in Nat /\ Cardinality(G) \in Nat
    BY <2>1, FS_CardinalityType
  <2>4. CASE stage = "holding"
    BY <2>2, <2>3, <2>4, <1>12
  <2>5. CASE stage = "idle"
    <3>1. At("holding")' = H
      BY <2>5, <1>12
    <3>2. stage # "holding"
      BY <2>5
    <3>3. Cardinality(At("holding")') = Cardinality(H)
      BY <3>1
    <3> QED BY <3>2, <3>3, <2>3
  <2> QED BY <2>3, <2>4, <2>5
<1>15. PermitsConserved'
  <2> DEFINE g == Cardinality(G)
             n == Cardinality(H)
             e == IF stage = "holding" THEN 1 ELSE 0
  <2>1. v + g + n + e = MaxConcurrent
    OBVIOUS
  <2>2. value' = v - k /\ Cardinality(At("granted")') = g + k /\ Cardinality(At("holding")') = n + e
    BY <1>2, <1>11, <1>13, <1>14
  <2>3. g \in Nat /\ n \in Nat /\ e \in Nat
    BY <1>14
  <2> HIDE DEF g, n, e
  <2>4. value' + Cardinality(At("granted")') + Cardinality(At("holding")') = MaxConcurrent
    BY <2>1, <2>2, <2>3, <1>1
  <2> QED BY <2>4 DEF PermitsConserved
<1>16. NoLostWakeup'
  <2>1. CASE v - k > 0
    <3>1. k = Len(q)
      BY <2>1 DEF k
    <3>2. queue' = << >>
      BY <3>1, <1>1, <1>7
    <3> QED BY <3>2 DEF NoLostWakeup
  <2>2. CASE ~(v - k > 0)
    BY <2>2, <1>2 DEF NoLostWakeup
  <2> QED BY <2>1, <2>2
<1> QED BY <1>8, <1>9, <1>10, <1>15, <1>16 DEF IPermits

(* A caller that was handed a permit goes on. *)
LEMMA PermitsResume ==
  ASSUME IPermits, NEW c \in Clients, Resume(c)
  PROVE  IPermits'
<1>1. pc[c] = "granted" /\ ~InQueue(c, queue)
  BY DEF Resume, IPermits
<1>2. /\ Cardinality(At("granted") \ {c}) = Cardinality(At("granted")) - 1
      /\ At("holding") \ {c} = At("holding")
  <2>1. c \in At("granted") /\ c \notin At("holding")
    BY <1>1 DEF At
  <2>2. At("holding") \ {c} = At("holding")
    BY <2>1
  <2> QED BY <2>1, <2>2, OneLess
<1>3. value + Cardinality(At("granted") \ {c}) + Cardinality(At("holding") \ {c})
        + (IF "holding" = "holding" THEN 1 ELSE 0) = MaxConcurrent
  <2> DEFINE g == Cardinality(At("granted"))
             h == Cardinality(At("holding"))
  <2>1. value + g + h = MaxConcurrent /\ g \in Nat /\ h \in Nat /\ value \in Nat
    BY Sizes DEF IPermits, PermitsConserved, PermitType
  <2>2. Cardinality(At("granted") \ {c}) = g - 1 /\ Cardinality(At("holding") \ {c}) = h
    BY <1>2
  <2> HIDE DEF g, h
  <2> QED BY <2>1, <2>2
<1> QED BY <1>1, <1>3, WakeAllKeepsPermits DEF IPermits, PermitType, Resume

(* A caller that timed out with a permit puts it back. *)
LEMMA PermitsGiveBack ==
  ASSUME IPermits, NEW c \in Clients, GiveBack(c)
  PROVE  IPermits'
<1>1. pc[c] = "granted" /\ ~InQueue(c, queue)
  BY DEF GiveBack, IPermits
<1>2. /\ Cardinality(At("granted") \ {c}) = Cardinality(At("granted")) - 1
      /\ At("holding") \ {c} = At("holding")
  <2>1. c \in At("granted") /\ c \notin At("holding")
    BY <1>1 DEF At
  <2>2. At("holding") \ {c} = At("holding")
    BY <2>1
  <2> QED BY <2>1, <2>2, OneLess
<1>3. (value + 1) + Cardinality(At("granted") \ {c}) + Cardinality(At("holding") \ {c})
        + (IF "idle" = "holding" THEN 1 ELSE 0) = MaxConcurrent
  <2> DEFINE g == Cardinality(At("granted"))
             h == Cardinality(At("holding"))
  <2>1. value + g + h = MaxConcurrent /\ g \in Nat /\ h \in Nat /\ value \in Nat
    BY Sizes DEF IPermits, PermitsConserved, PermitType
  <2>2. Cardinality(At("granted") \ {c}) = g - 1 /\ Cardinality(At("holding") \ {c}) = h
    BY <1>2
  <2> HIDE DEF g, h
  <2> QED BY <2>1, <2>2
<1>4. value + 1 \in Nat
  BY DEF IPermits, PermitType
<1> QED BY <1>1, <1>3, <1>4, WakeAllKeepsPermits DEF IPermits, PermitType, GiveBack

(* Taking one waiter out leaves the others, once each. *)
LEMMA RemoveNthFacts ==
  ASSUME NEW q \in Seq(Clients), Distinct(q), NEW k \in 1..Len(q)
  PROVE  /\ RemoveNth(q, k) \in Seq(Clients) /\ Distinct(RemoveNth(q, k))
         /\ \A d : InQueue(d, RemoveNth(q, k)) <=> InQueue(d, q) /\ d # q[k]
<1> DEFINE r == RemoveNth(q, k)
<1>1. Len(q) \in Nat \ {0} /\ k \in Nat /\ \A j \in 1..Len(q) : q[j] \in Clients
  OBVIOUS
<1>2. /\ r \in Seq(Clients) /\ Len(r) = Len(q) - 1
      /\ \A j \in 1..(Len(q) - 1) : r[j] = IF j < k THEN q[j] ELSE q[j + 1]
  <2>1. r = [j \in 1..(Len(q) - 1) |-> IF j < k THEN q[j] ELSE q[j + 1]]
    BY DEF RemoveNth
  <2>2. Len(q) - 1 \in Nat
    BY <1>1
  <2>3. \A j \in 1..(Len(q) - 1) : (IF j < k THEN q[j] ELSE q[j + 1]) \in Clients
    BY <1>1
  <2> QED BY <2>1, <2>2, <2>3
<1> HIDE DEF r
<1>3. Distinct(r)
  <2> SUFFICES ASSUME NEW x \in 1..Len(r), NEW y \in 1..Len(r), r[x] = r[y]
               PROVE  x = y
    BY DEF Distinct
  <2> DEFINE X == IF x < k THEN x ELSE x + 1
             Y == IF y < k THEN y ELSE y + 1
  <2>1. X \in 1..Len(q) /\ Y \in 1..Len(q) /\ r[x] = q[X] /\ r[y] = q[Y]
    BY <1>1, <1>2
  <2>2. X = Y
    BY <2>1 DEF Distinct
  <2> QED BY <2>2, <1>1, <1>2
<1>4. ASSUME NEW d, InQueue(d, r) PROVE InQueue(d, q) /\ d # q[k]
  <2>1. PICK j \in 1..Len(r) : r[j] = d
    BY <1>4 DEF InQueue
  <2> DEFINE J == IF j < k THEN j ELSE j + 1
  <2>2. J \in 1..Len(q) /\ q[J] = d /\ J # k
    BY <2>1, <1>1, <1>2
  <2> HIDE DEF J
  <2> QED BY <2>2 DEF InQueue, Distinct
<1>5. ASSUME NEW d, InQueue(d, q), d # q[k] PROVE InQueue(d, r)
  <2>1. PICK j \in 1..Len(q) : q[j] = d
    BY <1>5 DEF InQueue
  <2>2. j # k
    BY <2>1, <1>5
  <2>3. CASE j < k
    <3>1. j \in 1..Len(r) /\ r[j] = d
      BY <2>1, <2>3, <1>1, <1>2
    <3> QED BY <3>1 DEF InQueue
  <2>4. CASE j > k
    <3>1. j - 1 \in 1..Len(r) /\ ~(j - 1 < k) /\ (j - 1) + 1 = j
      BY <2>1, <2>4, <1>1, <1>2
    <3>2. r[j - 1] = d
      BY <3>1, <2>1, <1>2
    <3> QED BY <3>1, <3>2 DEF InQueue
  <2> QED BY <2>2, <2>3, <2>4, <1>1
<1> QED BY <1>2, <1>3, <1>4, <1>5 DEF r

(* A waiting caller times out. *)
LEMMA PermitsGiveUp ==
  ASSUME IPermits, NEW c \in Clients, GiveUp(c)
  PROVE  IPermits'
<1>1. PICK k \in 1..Len(queue) :
        queue[k] = c /\ WakeAll(value, RemoveNth(queue, k), c, "idle")
  BY DEF GiveUp
<1> DEFINE q == RemoveNth(queue, k)
<1>2. /\ q \in Seq(Clients) /\ Distinct(q)
      /\ \A d : InQueue(d, q) <=> InQueue(d, queue) /\ d # c
  BY <1>1, RemoveNthFacts DEF IPermits, PermitType
<1> HIDE DEF q
<1>3. At("granted") \ {c} = At("granted") /\ At("holding") \ {c} = At("holding")
  BY DEF GiveUp, At
<1>4. value + Cardinality(At("granted") \ {c}) + Cardinality(At("holding") \ {c})
        + (IF "idle" = "holding" THEN 1 ELSE 0) = MaxConcurrent
  <2> DEFINE g == Cardinality(At("granted"))
             h == Cardinality(At("holding"))
  <2>1. value + g + h = MaxConcurrent /\ g \in Nat /\ h \in Nat /\ value \in Nat
    BY Sizes DEF IPermits, PermitsConserved, PermitType
  <2>2. Cardinality(At("granted") \ {c}) = g /\ Cardinality(At("holding") \ {c}) = h
    BY <1>3
  <2> HIDE DEF g, h
  <2> QED BY <2>1, <2>2
<1>5. WakeAll(value, q, c, "idle")
  BY <1>1 DEF q
<1>6. \A d \in Clients \ {c} : pc[d] = "waiting" <=> InQueue(d, q)
  BY <1>2 DEF IPermits
<1> QED BY <1>2, <1>4, <1>5, <1>6, WakeAllKeepsPermits DEF IPermits, PermitType

(* A caller finds a permit. *)
LEMMA PermitsEnter ==
  ASSUME IPermits, NEW c \in Clients, Enter(c)
  PROVE  IPermits'
<1>1. /\ value > 0 /\ value' = value - 1 /\ queue = << >> /\ queue' = queue
      /\ pc[c] = "idle" /\ pc' = [pc EXCEPT ![c] = "holding"]
  BY DEF Enter, Charge, locked, IPermits, PermitType
<1>2. PermitType'
  BY <1>1 DEF IPermits, PermitType, Stage
<1>3. At("granted")' = At("granted") /\ At("holding")' = At("holding") \cup {c}
      /\ c \notin At("holding")
  BY <1>1 DEF At, IPermits, PermitType
<1>4. Cardinality(At("holding")') = Cardinality(At("holding")) + 1
  BY <1>3, StagesAreFinite, FS_AddElement
<1>5. PermitsConserved'
  BY <1>1, <1>3, <1>4, StagesAreFinite DEF IPermits, PermitType, PermitsConserved
<1>6. ASSUME NEW d \in Clients PROVE pc'[d] = "waiting" <=> InQueue(d, queue')
  BY <1>1 DEF IPermits, PermitType
<1> QED BY <1>1, <1>2, <1>5, <1>6 DEF IPermits, NoLostWakeup

(* A caller finds none and waits. *)
LEMMA PermitsPark ==
  ASSUME IPermits, NEW c \in Clients, Park(c)
  PROVE  IPermits'
<1>1. /\ locked /\ value' = value /\ queue' = Append(queue, c)
      /\ pc[c] = "idle" /\ pc' = [pc EXCEPT ![c] = "waiting"]
      /\ queue \in Seq(Clients) /\ ~InQueue(c, queue)
  BY DEF Park, Charge, IPermits, PermitType
<1>2. /\ queue' \in Seq(Clients) /\ Len(queue) \in Nat /\ Len(queue') = Len(queue) + 1
      /\ \A j \in 1..Len(queue) : queue'[j] = queue[j]
      /\ queue'[Len(queue) + 1] = c
  BY <1>1, AppendFacts
<1>3. PermitType'
  BY <1>1, <1>2 DEF IPermits, PermitType, Stage
<1>4. Distinct(queue)'
  <2> SUFFICES ASSUME NEW x \in 1..Len(queue'), NEW y \in 1..Len(queue'),
                      queue'[x] = queue'[y]
               PROVE  x = y
    BY DEF Distinct
  <2>1. CASE x \in 1..Len(queue) /\ y \in 1..Len(queue)
    BY <2>1, <1>2 DEF IPermits, Distinct
  <2>2. CASE x = Len(queue) + 1 /\ y \in 1..Len(queue)
    BY <2>2, <1>1, <1>2 DEF InQueue
  <2>3. CASE y = Len(queue) + 1 /\ x \in 1..Len(queue)
    BY <2>3, <1>1, <1>2 DEF InQueue
  <2> QED BY <2>1, <2>2, <2>3, <1>2
<1>5. ASSUME NEW d \in Clients PROVE pc'[d] = "waiting" <=> InQueue(d, queue')
  <2>1. InQueue(d, queue') <=> InQueue(d, queue) \/ d = c
    <3>1. Len(queue') \in 1..Len(queue')
      BY <1>2
    <3>2. \A j \in 1..Len(queue') : j \in 1..Len(queue) \/ j = Len(queue) + 1
      BY <1>2
    <3>3. \A j \in 1..Len(queue) : j \in 1..Len(queue')
      BY <1>2
    <3> QED BY <3>1, <3>2, <3>3, <1>2 DEF InQueue
  <2> QED BY <2>1, <1>1 DEF IPermits, PermitType
<1>6. At("granted")' = At("granted") /\ At("holding")' = At("holding")
  BY <1>1 DEF At, IPermits, PermitType
<1>7. PermitsConserved'
  BY <1>1, <1>6 DEF IPermits, PermitsConserved
<1>8. NoLostWakeup'
  BY <1>1, <1>6 DEF IPermits, NoLostWakeup, locked
<1> QED BY <1>3, <1>4, <1>5, <1>7, <1>8 DEF IPermits

(* A permit is released. *)
LEMMA PermitsRelease ==
  ASSUME IPermits, NEW c \in Clients, Release(c)
  PROVE  IPermits'
<1>1. pc[c] = "holding" /\ pc \in [Clients -> Stage] /\ queue \in Seq(Clients) /\ value \in Nat
  BY DEF Release, IPermits, PermitType
<1>2. Cardinality(At("holding") \ {c}) = Cardinality(At("holding")) - 1
  <2>1. c \in At("holding")
    BY <1>1 DEF At
  <2> QED BY <2>1, OneLess
<1>3. CASE queue = << >>
  <2>1. value' = value + 1 /\ pc' = [pc EXCEPT ![c] = "idle"] /\ queue' = queue
    BY <1>3 DEF Release
  <2>2. At("granted")' = At("granted") /\ At("holding")' = At("holding") \ {c}
    BY <1>1, <2>1 DEF At
  <2>3. PermitType'
    BY <1>1, <2>1 DEF PermitType, Stage
  <2>4. ASSUME NEW d \in Clients PROVE pc'[d] = "waiting" <=> InQueue(d, queue')
    BY <1>1, <2>1 DEF IPermits
  <2>5. PermitsConserved'
    <3> DEFINE g == Cardinality(At("granted"))
               h == Cardinality(At("holding"))
    <3>1. value + g + h = MaxConcurrent /\ g \in Nat /\ h \in Nat /\ value \in Nat
      BY Sizes DEF IPermits, PermitsConserved, PermitType
    <3>2. Cardinality(At("granted")') = g /\ Cardinality(At("holding")') = h - 1
      BY <1>2, <2>2
    <3> HIDE DEF g, h
    <3>3. value' + Cardinality(At("granted")') + Cardinality(At("holding")') = MaxConcurrent
      BY <3>1, <3>2, <2>1
    <3> QED BY <3>3 DEF PermitsConserved
  <2> QED BY <1>3, <2>1, <2>3, <2>4, <2>5 DEF IPermits, NoLostWakeup
<1>4. CASE queue # << >>
  <2> DEFINE w == Head(queue)
  <2>1. value' = value /\ pc' = [pc EXCEPT ![c] = "idle", ![w] = "granted"] /\ queue' = Tail(queue)
    BY <1>4 DEF Release
  <2>2. /\ Len(queue) \in Nat \ {0} /\ w = queue[1] /\ w \in Clients
        /\ queue' \in Seq(Clients) /\ Len(queue') = Len(queue) - 1
        /\ \A j \in 1..(Len(queue) - 1) : queue'[j] = queue[j + 1]
    BY <1>1, <1>4, <2>1
  <2> HIDE DEF w
  <2>3. InQueue(w, queue) /\ pc[w] = "waiting" /\ w # c
    BY <1>1, <2>2 DEF IPermits, InQueue
  <2>4. PermitType'
    BY <1>1, <2>1, <2>2 DEF PermitType, Stage
  <2>5. Distinct(queue)'
    <3> SUFFICES ASSUME NEW x \in 1..Len(queue'), NEW y \in 1..Len(queue'),
                        queue'[x] = queue'[y]
                 PROVE  x = y
      BY DEF Distinct
    <3>1. x + 1 \in 1..Len(queue) /\ y + 1 \in 1..Len(queue) /\ queue[x + 1] = queue[y + 1]
      BY <2>2
    <3>2. x + 1 = y + 1
      BY <3>1 DEF IPermits, Distinct
    <3> QED BY <3>2, <2>2
  <2>6. ASSUME NEW d \in Clients PROVE pc'[d] = "waiting" <=> InQueue(d, queue')
    <3>1. InQueue(d, queue') <=> InQueue(d, queue) /\ d # w
      <4>1. ASSUME InQueue(d, queue') PROVE InQueue(d, queue) /\ d # w
        <5>1. PICK j \in 1..Len(queue') : queue'[j] = d
          BY <4>1 DEF InQueue
        <5>2. j + 1 \in 1..Len(queue) /\ queue[j + 1] = d /\ 1 \in 1..Len(queue) /\ j + 1 # 1
          BY <5>1, <2>2
        <5> QED BY <5>2, <2>2 DEF IPermits, InQueue, Distinct
      <4>2. ASSUME InQueue(d, queue), d # w PROVE InQueue(d, queue')
        <5>1. PICK j \in 1..Len(queue) : queue[j] = d
          BY <4>2 DEF InQueue
        <5>2. j - 1 \in 1..Len(queue') /\ (j - 1) + 1 = j
          BY <5>1, <4>2, <2>2
        <5>3. queue'[j - 1] = d
          BY <5>1, <5>2, <2>2
        <5> QED BY <5>2, <5>3 DEF InQueue
      <4> QED BY <4>1, <4>2
    <3> QED BY <3>1, <2>1, <2>3, <1>1 DEF IPermits
  <2>7. At("granted")' = At("granted") \cup {w} /\ w \notin At("granted")
        /\ At("holding")' = At("holding") \ {c}
    BY <1>1, <2>1, <2>2, <2>3 DEF At
  <2>8. Cardinality(At("granted")') = Cardinality(At("granted")) + 1
    BY <2>7, StagesAreFinite, FS_AddElement
  <2>9. PermitsConserved'
    <3> DEFINE g == Cardinality(At("granted"))
               h == Cardinality(At("holding"))
    <3>1. value + g + h = MaxConcurrent /\ g \in Nat /\ h \in Nat /\ value \in Nat
      BY Sizes DEF IPermits, PermitsConserved, PermitType
    <3>2. Cardinality(At("granted")') = g + 1 /\ Cardinality(At("holding")') = h - 1
      BY <1>2, <2>7, <2>8
    <3> HIDE DEF g, h
    <3>3. value' + Cardinality(At("granted")') + Cardinality(At("holding")') = MaxConcurrent
      BY <3>1, <3>2, <2>1
    <3> QED BY <3>3 DEF PermitsConserved
  <2>10. NoLostWakeup'
    BY <2>7 DEF NoLostWakeup
  <2> QED BY <2>4, <2>5, <2>6, <2>9, <2>10 DEF IPermits
<1> QED BY <1>3, <1>4

(* Every action, as far as the permits are concerned. *)
LEMMA PermitsStep == IPermits /\ [Next]_vars => IPermits'
<1> SUFFICES ASSUME IPermits, [Next]_vars PROVE IPermits'
  OBVIOUS
<1>1. ASSUME UNCHANGED <<pc, value, queue>> PROVE IPermits'
  <2>1. \A stage : At(stage)' = At(stage)
    BY <1>1 DEF At
  <2> QED BY <1>1, <2>1 DEF IPermits, PermitType, Distinct, InQueue, PermitsConserved, NoLostWakeup
<1>2. CASE UNCHANGED vars \/ Tick \/ \E c \in Clients : Refuse(c)
  BY <1>1, <1>2 DEF vars, Tick, Refuse
<1>3. ASSUME NEW c \in Clients,
             Enter(c) \/ Park(c) \/ Resume(c) \/ TimeOut(c) \/ Release(c)
      PROVE  IPermits'
  BY <1>3, PermitsEnter, PermitsPark, PermitsResume, PermitsGiveUp, PermitsGiveBack,
     PermitsRelease DEF TimeOut
<1> QED BY <1>2, <1>3 DEF Next

(* Every permit is free, granted or held, whichever way grants, timeouts and
   releases interleave; so at most max_concurrent validations run at a time
   (RateLimiter._Ctx over asyncio.Semaphore). *)
THEOREM PermitsAreConserved == Spec => []PermitsConserved
<1>1. IPermits => PermitsConserved
  BY DEF IPermits
<1> QED BY <1>1, PermitsInit, PermitsStep, PTL DEF Spec

(* A free permit is never left lying while somebody queues (acquire's loop). *)
THEOREM NoWakeupIsLost == Spec => []NoLostWakeup
<1>1. IPermits => NoLostWakeup
  BY DEF IPermits
<1> QED BY <1>1, PermitsInit, PermitsStep, PTL DEF Spec

(* The types of the limiter; the counter stays within 0..max_concurrent. *)
THEOREM LimiterTypeCorrect == Spec => []TypeOK
<1>1. IQuota /\ IPermits => TypeOK
  <2> SUFFICES ASSUME IQuota, IPermits PROVE TypeOK
    OBVIOUS
  <2>1. value \in 0..MaxConcurrent
    BY StagesAreFinite, Limits DEF IPermits, PermitType, PermitsConserved
  <2> QED BY <2>1 DEF IQuota, QuotaType, IPermits, PermitType, TypeOK
<1> QED BY <1>1, QuotaInit, QuotaStep, PermitsInit, PermitsStep, PTL DEF Spec

=============================================================================
