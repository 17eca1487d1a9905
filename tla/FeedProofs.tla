------------------------------ MODULE FeedProofs ------------------------------
(***************************************************************************)
(* For any size of the flush, any silence and any number of minutes and    *)
(* failures: what the engine has taken is what the disk has plus what is   *)
(* pending; a crash loses less than a flush and a minute for each flush    *)
(* that failed; the tape has no hole, ever; and few of its minutes hold    *)
(* values read too early.                                                  *)
(*                                                                         *)
(* The first needs that the feed never hands the engine a minute it has:   *)
(* while it lives, the last minute it knows is the engine's (InStep).  The *)
(* third, that each closed bar of the stream follows the one before it or  *)
(* what is known once the heal in flight is answered (Flow), and that the  *)
(* pending minutes come after the saved ones, in order.  The last counts   *)
(* the heals that may still bring such a minute (Budget).                  *)
(***************************************************************************)
EXTENDS FeedPipeline, SequenceTheorems, FiniteSetTheorems, WellFoundedInduction, TLAPS

(* Bars whose minutes are in M and whose values are judged in V. *)
BarsOf(M, V) == [m : M, closed : BOOLEAN, final : V]
Past == BarsOf(0..cur, BOOLEAN)
AnyBar == BarsOf(Nat, BOOLEAN)

FeedType ==
  /\ cur \in 1..MaxMinute
  /\ wsUp \in BOOLEAN /\ ban \in {"none", "banned"} /\ faults \in 0..MaxFaults
  /\ feedPc \in Stage /\ healPending \in BOOLEAN
  /\ {healEnd, feedLast, lastMsg} \subseteq (0..cur) \cup {None}
  /\ feedPc = "healing" <=> healEnd # None
  /\ queue \in Seq(Past) /\ todo \in Seq(Past) /\ pending \in Seq(Past)
  /\ DOMAIN seen \subseteq 0..cur /\ seen \in [DOMAIN seen -> BOOLEAN]
  /\ DOMAIN store \subseteq 0..cur /\ store \in [DOMAIN store -> BOOLEAN]

InStep == Alive => feedLast = LastOf(seen)

LedgerInv == FeedType /\ InStep /\ LedgerAgrees

(* The minutes of a sequence of bars, one each. *)
Once(q) == \A j, k \in 1..Len(q) : q[j].m = q[k].m => j = k
MinutesOf(q) == {q[k].m : k \in 1..Len(q)}

(* f is what is in rec, and of q what is not. *)
Joins(f, rec, q, D, V) ==
  /\ f \in [D \cup MinutesOf(q) -> V]
  /\ \A m \in D : f[m] = rec[m]
  /\ \A k \in 1..Len(q) : q[k].m \notin D => f[q[k].m] = q[k].final

(* Adding a bar to what is pending, and merging a second time what was     *)
(* merged in part.                                                         *)
Continues(rec, q, b) ==
  /\ Once(Append(q, b)) /\ MinutesOf(Append(q, b)) = MinutesOf(q) \cup {b.m}
  /\ Merge(Merge(rec, q), <<b>>) = Merge(rec, Append(q, b))
Repeats(rec, q, n, V) ==
  /\ SubSeq(q, 1, n) \in Seq(BarsOf(Nat, V)) /\ Once(SubSeq(q, 1, n))
  /\ MinutesOf(SubSeq(q, 1, n)) \subseteq MinutesOf(q)
  /\ Merge(Merge(rec, SubSeq(q, 1, n)), q) = Merge(rec, q)

-----------------------------------------------------------------------------
(***************************************************************************)
(* The anti-join.                                                          *)
(***************************************************************************)
LEMMA Merged ==
  ASSUME NEW V, NEW D, NEW rec \in [D -> V], NEW q \in Seq(BarsOf(Nat, V)), Once(q)
  PROVE  Joins(Merge(rec, q), rec, q, D, V)
<1>1. DOMAIN q = 1..Len(q) /\ \A k \in 1..Len(q) : q[k] \in BarsOf(Nat, V) OBVIOUS
<1>2. {b.m : b \in ToSet(q)} = MinutesOf(q) BY <1>1 DEF ToSet, MinutesOf
<1>3. DOMAIN rec = D OBVIOUS
<1> DEFINE Value(m) == IF m \in D THEN rec[m] ELSE q[Min({k \in DOMAIN q : q[k].m = m})].final
<1>4. Merge(rec, q) = [m \in D \cup MinutesOf(q) |-> Value(m)] BY <1>2, <1>3 DEF Merge
<1>5. ASSUME NEW k \in 1..Len(q) PROVE Min({j \in DOMAIN q : q[j].m = q[k].m}) = k
  <2>1. {j \in DOMAIN q : q[j].m = q[k].m} = {k} BY <1>1 DEF Once
  <2>2. Min({k}) = k BY DEF Min
  <2> QED BY <2>1, <2>2
<1>6. \A k \in 1..Len(q) : q[k].m \notin D => Value(q[k].m) = q[k].final BY <1>5
<1>7. \A m \in D : Value(m) = rec[m] OBVIOUS
<1>8. \A k \in 1..Len(q) : q[k].final \in V BY <1>1 DEF BarsOf
<1>9. \A m \in D \cup MinutesOf(q) : Value(m) \in V BY <1>6, <1>7, <1>8 DEF MinutesOf
<1> HIDE DEF Value
<1> QED BY <1>4, <1>6, <1>7, <1>9 DEF MinutesOf, Joins

(* Nothing merged into a record leaves it. *)
LEMMA MergeNothing ==
  ASSUME NEW V, NEW D, NEW rec \in [D -> V]
  PROVE  Merge(rec, << >>) = rec
<1>1. << >> \in Seq(BarsOf(Nat, V)) /\ Once(<< >>) /\ MinutesOf(<< >>) = {}
  BY DEF Once, MinutesOf
<1>2. Joins(Merge(rec, << >>), rec, << >>, D, V) BY <1>1, Merged
<1> QED BY <1>1, <1>2 DEF Joins

(* A minute later than all of a ledger is added to both sides. *)
LEMMA MergeAppend ==
  ASSUME NEW V, NEW D, NEW rec \in [D -> V], NEW q \in Seq(BarsOf(Nat, V)), Once(q),
         NEW b \in BarsOf(Nat, V), b.m \notin MinutesOf(q)
  PROVE  Continues(rec, q, b)
<1> DEFINE p == Append(q, b)
           one == Merge(Merge(rec, q), <<b>>)
           two == Merge(rec, p)
<1>1. /\ p \in Seq(BarsOf(Nat, V)) /\ Len(p) = Len(q) + 1 /\ Len(q) \in Nat
      /\ p[Len(q) + 1] = b /\ \A k \in 1..Len(q) : p[k] = q[k]
  OBVIOUS
<1>2. \A k \in 1..Len(q) : q[k].m # b.m BY DEF MinutesOf
<1>3. Once(p) BY <1>1, <1>2 DEF Once
<1>4. MinutesOf(p) = MinutesOf(q) \cup {b.m}
  <2>1. \A k \in 1..Len(p) : k \in 1..Len(q) \/ k = Len(q) + 1 BY <1>1
  <2>2. \A k \in 1..Len(q) : k \in 1..Len(p) BY <1>1
  <2>3. Len(q) + 1 \in 1..Len(p) BY <1>1
  <2> QED BY <1>1, <2>1, <2>2, <2>3 DEF MinutesOf
<1>5. Joins(Merge(rec, q), rec, q, D, V) BY Merged
<1>6. /\ <<b>> \in Seq(BarsOf(Nat, V)) /\ Once(<<b>>) /\ MinutesOf(<<b>>) = {b.m}
      /\ Len(<<b>>) = 1 /\ <<b>>[1] = b
  BY DEF Once, MinutesOf
<1> DEFINE E == D \cup MinutesOf(q)
           base == Merge(rec, q)
<1>7. /\ one \in [E \cup {b.m} -> V] /\ \A m \in E : one[m] = base[m]
      /\ b.m \notin E => one[b.m] = b.final
  <2>1. base \in [E -> V] BY <1>5 DEF Joins
  <2> HIDE DEF base, E
  <2>2. Joins(Merge(base, <<b>>), base, <<b>>, E, V) BY <1>6, <2>1, Merged
  <2>3. b.m \notin E => Merge(base, <<b>>)[b.m] = b.final BY <1>6, <2>2 DEF Joins
  <2> QED BY <1>6, <2>2, <2>3 DEF base, Joins
<1>8. Joins(two, rec, p, D, V)
  <2> HIDE DEF p
  <2> QED BY <1>1, <1>3, Merged
<1>9. \A m \in E \cup {b.m} : one[m] = two[m]
  <2>1. \A m \in D : one[m] = two[m] BY <1>5, <1>7, <1>8 DEF Joins
  <2>2. \A k \in 1..Len(q) : q[k].m \notin D => one[q[k].m] = two[q[k].m]
    <3> TAKE k \in 1..Len(q)
    <3> HAVE q[k].m \notin D
    <3>1. q[k].m \in E BY DEF MinutesOf
    <3>2. k \in 1..Len(p) /\ p[k] = q[k] BY <1>1
    <3>3. two[q[k].m] = q[k].final BY <1>8, <3>2 DEF Joins
    <3>4. base[q[k].m] = q[k].final BY <1>5 DEF Joins
    <3> QED BY <1>7, <3>1, <3>3, <3>4
  <2>3. b.m \notin E => one[b.m] = two[b.m]
    <3> HAVE b.m \notin E
    <3>1. Len(q) + 1 \in 1..Len(p) /\ p[Len(q) + 1] = b BY <1>1
    <3>2. two[b.m] = b.final BY <1>8, <3>1 DEF Joins
    <3> QED BY <1>7, <3>2
  <2> QED BY <2>1, <2>2, <2>3 DEF MinutesOf
<1>10. D \cup MinutesOf(p) = E \cup {b.m} BY <1>4
<1> HIDE DEF one, two
<1>11. one = two
  <2>1. one \in [E \cup {b.m} -> V] /\ two \in [E \cup {b.m} -> V] BY <1>7, <1>8, <1>10 DEF Joins
  <2> HIDE DEF E
  <2> QED BY <1>9, <2>1
<1> QED BY <1>3, <1>4, <1>11 DEF one, two, Continues

(* A flush that failed half-way leaves nothing behind for the next. *)
LEMMA MergePrefix ==
  ASSUME NEW V, NEW D, NEW rec \in [D -> V], NEW q \in Seq(BarsOf(Nat, V)), Once(q),
         NEW n \in 0..Len(q)
  PROVE  Repeats(rec, q, n, V)
<1> DEFINE p == SubSeq(q, 1, n)
           base == Merge(rec, p)
           E == D \cup MinutesOf(p)
           one == Merge(base, q)
           two == Merge(rec, q)
<1>1. p \in Seq(BarsOf(Nat, V)) /\ Len(p) = n /\ \A k \in 1..n : p[k] = q[k] /\ k \in 1..Len(q)
  OBVIOUS
<1>2. Once(p) BY <1>1 DEF Once
<1>3. MinutesOf(p) \subseteq MinutesOf(q) BY <1>1 DEF MinutesOf
<1>4. Joins(base, rec, p, D, V)
  <2> HIDE DEF p
  <2> QED BY <1>1, <1>2, Merged
<1>5. Joins(two, rec, q, D, V) BY Merged
<1>6. Joins(one, base, q, E, V)
  <2>1. base \in [E -> V] BY <1>4 DEF Joins
  <2> HIDE DEF base, E
  <2> QED BY <2>1, Merged
<1>7. E \cup MinutesOf(q) = D \cup MinutesOf(q) BY <1>3
<1>8. \A m \in D : one[m] = two[m] BY <1>4, <1>5, <1>6 DEF Joins
<1>9. \A k \in 1..Len(q) : q[k].m \notin D => one[q[k].m] = two[q[k].m]
  <2> TAKE k \in 1..Len(q)
  <2> HAVE q[k].m \notin D
  <2>1. two[q[k].m] = q[k].final BY <1>5 DEF Joins
  <2>2. CASE q[k].m \notin E BY <1>6, <2>1, <2>2 DEF Joins
  <2>3. CASE q[k].m \in E
    <3>1. PICK j \in 1..n : p[j].m = q[k].m BY <1>1, <2>3 DEF MinutesOf
    <3>2. j = k BY <1>1, <3>1 DEF Once
    <3>3. base[q[k].m] = q[k].final BY <1>1, <1>4, <3>1, <3>2 DEF Joins
    <3> QED BY <1>6, <2>1, <2>3, <3>3 DEF Joins
  <2> QED BY <2>2, <2>3
<1>10. \A m \in D \cup MinutesOf(q) : one[m] = two[m] BY <1>8, <1>9 DEF MinutesOf
<1> HIDE DEF one, two
<1>11. one = two BY <1>5, <1>6, <1>7, <1>10 DEF Joins
<1> QED BY <1>1, <1>2, <1>3, <1>11 DEF one, two, base, Repeats
-----------------------------------------------------------------------------
(***************************************************************************)
(* The last minute of a record.                                            *)
(***************************************************************************)
(* Every set of naturals has a least element. *)
LEMMA HasLeast ==
  ASSUME NEW S \in SUBSET Nat, S # {}
  PROVE  \E x \in S : \A y \in S : x <= y
<1> DEFINE R == OpToRel(<, Nat)
<1>1. IsWellFoundedOn(R, Nat) BY NatLessThanWellFounded
<1>2. \A a, b \in Nat : a < b => <<a, b>> \in R BY DEF OpToRel
<1> HIDE DEF R
<1>3. PICK x \in S : \A y \in S : ~(<<y, x>> \in R) BY <1>1, WFMin, Zenon
<1>4. \A y \in S : ~(y < x) BY <1>2, <1>3, Zenon
<1> QED BY <1>4

(* Every bounded one has a greatest: the least seen from above. *)
LEMMA MaxIsMember ==
  ASSUME NEW K \in Nat, NEW S \in SUBSET ((-1)..K), S # {}
  PROVE  Max(S) \in S /\ \A y \in S : Max(S) >= y
<1> DEFINE T == {K - x : x \in S}
<1>1. \A x \in S : x \in Int /\ K - x \in Nat OBVIOUS
<1>2. PICK x \in S : \A t \in T : K - x <= t
  <2>1. T \in SUBSET Nat /\ T # {} BY <1>1
  <2> QED BY <2>1, HasLeast
<1>3. ASSUME NEW y \in S PROVE x >= y
  <2>1. K - x <= K - y BY <1>2
  <2> QED BY <1>1, <2>1
<1> QED BY <1>3 DEF Max

(* No minute of a record is later than its last. *)
LEMMA LastIsGreatest ==
  ASSUME NEW K \in Nat, NEW rec, DOMAIN rec \subseteq 0..K
  PROVE  /\ LastOf(rec) \in (0..K) \cup {None}
         /\ \A m \in DOMAIN rec : m <= LastOf(rec)
<1>1. CASE DOMAIN rec = {} BY <1>1 DEF LastOf
<1>2. CASE DOMAIN rec # {}
  <2> DEFINE S == DOMAIN rec
  <2>1. S \in SUBSET ((-1)..K) /\ S # {} BY <1>2
  <2> HIDE DEF S
  <2>2. Max(S) \in S /\ \A y \in S : Max(S) >= y BY <2>1, MaxIsMember
  <2> QED BY <1>2, <2>1, <2>2 DEF LastOf, S
<1> QED BY <1>1, <1>2

(* A later minute becomes the last. *)
LEMMA LastOfExtended ==
  ASSUME NEW K \in Nat, NEW rec, DOMAIN rec \subseteq 0..K, NEW m \in 0..K,
         m > LastOf(rec), NEW new, DOMAIN new = DOMAIN rec \cup {m}
  PROVE  LastOf(new) = m
<1>1. \A x \in DOMAIN rec : x <= LastOf(rec) /\ x \in Int BY LastIsGreatest
<1>2. LastOf(rec) \in Int BY LastIsGreatest DEF None
<1>3. \A x \in DOMAIN new : x <= m /\ x \in Int BY <1>1, <1>2
<1>4. m \in DOMAIN new OBVIOUS
<1>5. Max(DOMAIN new) = m BY <1>3, <1>4 DEF Max
<1> QED BY <1>4, <1>5 DEF LastOf

(* Minutes that occur once, as the spec says it. *)
LEMMA OnceIsInjective ==
  ASSUME NEW M, NEW V, NEW q \in Seq(BarsOf(M, V))
  PROVE  IsInjective([k \in DOMAIN q |-> q[k].m]) <=> Once(q)
<1>1. DOMAIN q = 1..Len(q) OBVIOUS
<1> QED BY <1>1 DEF IsInjective, Once

(* A sequence that grows keeps its type. *)
LEMMA AppendStays ==
  ASSUME NEW S, NEW q \in Seq(S), NEW x \in S
  PROVE  Append(q, x) \in Seq(S)
OBVIOUS

(* Bars of an earlier present are bars of a later one. *)
LEMMA LaterBars ==
  ASSUME NEW K \in Nat, NEW L \in Nat, K <= L, NEW V
  PROVE  /\ BarsOf(0..K, V) \subseteq BarsOf(0..L, V)
         /\ BarsOf(0..K, V) \subseteq BarsOf(Nat, V)
         /\ Seq(BarsOf(0..K, V)) \subseteq Seq(BarsOf(0..L, V))
         /\ Seq(BarsOf(0..K, V)) \subseteq Seq(BarsOf(Nat, V))
<1> DEFINE A == BarsOf(0..K, V)
           B == BarsOf(0..L, V)
           C == BarsOf(Nat, V)
<1>1. A \subseteq B /\ A \subseteq C BY DEF BarsOf
<1> HIDE DEF A, B, C
<1>2. Seq(A) \subseteq Seq(B) /\ Seq(A) \subseteq Seq(C) BY <1>1
<1> QED BY <1>1, <1>2 DEF A, B, C

(* A task that ends leaves the clock and whatever was recorded.            *)
LEMMA EndIsTyped ==
  ASSUME FeedType, UNCHANGED <<cur, ban>>, TaskGone, feedPc' \in {"dead", "off"},
         faults' \in 0..MaxFaults, pending' \in Seq(Past),
         DOMAIN seen' \subseteq 0..cur, seen' \in [DOMAIN seen' -> BOOLEAN],
         DOMAIN store' \subseteq 0..cur, store' \in [DOMAIN store' -> BOOLEAN]
  PROVE  FeedType' /\ InStep'
<1>1. Past' = Past /\ cur \in 1..MaxMinute BY DEF Past, FeedType
<1>2. << >> \in Seq(Past) OBVIOUS
<1>3. cur' \in 1..MaxMinute /\ ban' \in {"none", "banned"} /\ faults' \in 0..MaxFaults
  BY DEF FeedType
<1>4. /\ wsUp' \in BOOLEAN /\ feedPc' \in Stage /\ healPending' \in BOOLEAN
      /\ {healEnd', feedLast', lastMsg'} \subseteq (0..cur') \cup {None}
      /\ feedPc' = "healing" <=> healEnd' # None
  BY DEF TaskGone, Stage
<1>5. queue' \in Seq(Past') /\ todo' \in Seq(Past') /\ pending' \in Seq(Past')
  BY <1>1, <1>2 DEF TaskGone
<1>6. FeedType' BY <1>3, <1>4, <1>5 DEF FeedType
<1> QED BY <1>6 DEF InStep, Alive

-----------------------------------------------------------------------------
(***************************************************************************)
(* The feed hands a minute over.                                           *)
(***************************************************************************)
(* What the engine, the pending list and the feed know of the minute.      *)
LEMMA RecordExtends ==
  ASSUME FeedAssumption, LedgerInv, Deliver, Record(Head(todo))
  PROVE  LET b == Head(todo)
             q == Append(pending, b)
         IN  /\ b \in AnyBar /\ b.m \in 0..cur /\ Tail(todo) \in Seq(Past)
             /\ q \in Seq(Past) /\ {pending, q} \subseteq Seq(AnyBar) /\ Once(q)
             /\ MinutesOf(q) = MinutesOf(pending) \cup {b.m}
             /\ \A m \in DOMAIN seen : m \in Nat /\ m < b.m
             /\ DOMAIN seen = DOMAIN store \cup MinutesOf(pending)
             /\ seen' = Merge(store, q) /\ seen' = Merge(seen, <<b>>)
             /\ seen' \in [DOMAIN seen' -> BOOLEAN]
             /\ DOMAIN seen' = DOMAIN seen \cup {b.m} /\ DOMAIN seen' \subseteq 0..cur
             /\ LastOf(seen') = b.m
<1> DEFINE b == Head(todo)
           q == Append(pending, b)
           D == DOMAIN store
<1>1. FeedType /\ InStep /\ LedgerAgrees BY DEF LedgerInv
<1>2. /\ cur \in Nat /\ cur' = cur /\ ban' = ban /\ feedPc = "reading" /\ todo # << >>
      /\ b.closed /\ ~Known(b) /\ seen' = Taken(b)
      /\ feedLast = LastOf(seen)
  BY <1>1 DEF Deliver, Record, FeedType, InStep, Alive
<1>3. b \in Past /\ Tail(todo) \in Seq(Past) BY <1>1, <1>2 DEF FeedType
<1>4. q \in Seq(Past) BY <1>1, <1>3 DEF FeedType
<1>5. /\ b \in AnyBar /\ pending \in Seq(AnyBar) /\ q \in Seq(AnyBar) /\ b.m \in 0..cur
  <2>1. Past \subseteq AnyBar /\ Seq(Past) \subseteq Seq(AnyBar)
    BY <1>2, LaterBars DEF Past, AnyBar
  <2>2. b.m \in 0..cur BY <1>3 DEF Past, BarsOf
  <2> HIDE DEF AnyBar, b, q
  <2> QED BY <1>1, <1>3, <1>4, <2>1, <2>2 DEF FeedType
<1>6. Once(pending) BY <1>1, OnceIsInjective DEF LedgerAgrees, FeedType, Past
<1>7. store \in [D -> BOOLEAN] /\ D \subseteq 0..cur BY <1>1 DEF FeedType
<1>8. /\ seen = Merge(store, pending) /\ Joins(seen, store, pending, D, BOOLEAN)
      /\ DOMAIN seen = D \cup MinutesOf(pending)
  <2> HIDE DEF D
  <2>1. seen = Merge(store, pending) BY <1>1 DEF LedgerAgrees
  <2>2. Joins(seen, store, pending, D, BOOLEAN) BY <1>5, <1>6, <1>7, <2>1, Merged DEF AnyBar
  <2> QED BY <2>1, <2>2 DEF Joins
<1>9. /\ LastOf(seen) \in (0..cur) \cup {None} /\ \A m \in DOMAIN seen : m <= LastOf(seen)
      /\ DOMAIN seen \subseteq 0..cur
  BY <1>1, <1>2, LastIsGreatest DEF FeedType
<1>10. b.m > LastOf(seen) /\ b.m \notin DOMAIN seen BY <1>2, <1>5, <1>9 DEF Known, None
<1>11. seen' = Merge(seen, <<b>>) BY <1>2, <1>5, <1>9, <1>10 DEF Taken, None
<1>12. b.m \notin MinutesOf(pending) BY <1>8, <1>10
<1>13. /\ Once(q) /\ MinutesOf(q) = MinutesOf(pending) \cup {b.m}
       /\ seen' = Merge(store, q)
  <2> HIDE DEF b, D
  <2>1. Continues(store, pending, b) BY <1>5, <1>6, <1>7, <1>12, MergeAppend DEF AnyBar
  <2> QED BY <1>8, <1>11, <2>1 DEF Continues
<1>14. Joins(seen', store, q, D, BOOLEAN) BY <1>5, <1>7, <1>13, Merged DEF AnyBar
<1>15. /\ seen' \in [DOMAIN seen' -> BOOLEAN] /\ DOMAIN seen' = DOMAIN seen \cup {b.m}
       /\ DOMAIN seen' \subseteq 0..cur
  BY <1>5, <1>8, <1>9, <1>13, <1>14 DEF Joins
<1>16. LastOf(seen') = b.m BY <1>2, <1>5, <1>9, <1>10, <1>15, LastOfExtended
<1>17. \A m \in DOMAIN seen : m \in Nat /\ m < b.m BY <1>2, <1>5, <1>9, <1>10 DEF None
<1> HIDE DEF b, q, D
<1>18. {pending, q} \subseteq Seq(AnyBar) BY <1>5
<1> QED BY <1>3, <1>4, <1>5, <1>8, <1>11, <1>13, <1>15, <1>16, <1>17, <1>18 DEF b, q, D

(* The minute at the head of the batch is recorded. *)
LEMMA RecordKeeps ==
  ASSUME FeedAssumption, LedgerInv, Deliver, Record(Head(todo))
  PROVE  LedgerInv'
<1> DEFINE b == Head(todo)
           q == Append(pending, b)
           D == DOMAIN store
<1>1. FeedType /\ InStep /\ LedgerAgrees BY DEF LedgerInv
<1>2. /\ cur \in Nat /\ cur' = cur /\ ban' = ban /\ feedPc = "reading" /\ Past' = Past
  BY <1>1 DEF Deliver, FeedType, Past
<1>3. /\ b.m \in 0..cur /\ Tail(todo) \in Seq(Past)
      /\ q \in Seq(Past) /\ q \in Seq(AnyBar) /\ Once(q)
      /\ seen' = Merge(store, q) /\ seen' \in [DOMAIN seen' -> BOOLEAN]
      /\ DOMAIN seen' = D \cup MinutesOf(q) /\ DOMAIN seen' \subseteq 0..cur
      /\ LastOf(seen') = b.m
  BY RecordExtends
<1>4. store \in [D -> BOOLEAN] BY <1>1 DEF FeedType
<1> HIDE DEF b, q, D
<1>5. CASE /\ IF FlushDue(q) THEN store' = Merge(store, q) /\ pending' = << >>
                             ELSE pending' = q /\ UNCHANGED store
           /\ todo' = Tail(todo) /\ feedLast' = b.m
           /\ UNCHANGED <<wsUp, queue, faults, feedPc, healPending, healEnd, lastMsg>>
  <2>1. InStep' BY <1>3, <1>5 DEF InStep
  <2>2. CASE FlushDue(q)
    <3>1. store' = seen' /\ pending' = << >> BY <1>3, <1>5, <2>2
    <3>2. FeedType' BY <1>1, <1>2, <1>3, <1>5, <3>1 DEF FeedType
    <3>3. seen' = Merge(store', pending') BY <1>3, <3>1, MergeNothing
    <3>4. pending' \in Seq(Past) /\ Once(pending') BY <3>1 DEF Once
    <3>5. LedgerAgrees' BY <3>3, <3>4, OnceIsInjective DEF LedgerAgrees, Past
    <3> QED BY <2>1, <3>2, <3>5 DEF LedgerInv
  <2>3. CASE ~FlushDue(q)
    <3>1. store' = store /\ pending' = q BY <1>5, <2>3
    <3>2. FeedType' BY <1>1, <1>2, <1>3, <1>5, <3>1 DEF FeedType
    <3>3. LedgerAgrees' BY <1>3, <3>1, OnceIsInjective DEF LedgerAgrees, Past
    <3> QED BY <2>1, <3>2, <3>3 DEF LedgerInv
  <2> QED BY <2>2, <2>3
<1>6. CASE FlushDue(q) /\ SaveFails(q)
  <2>1. PICK n \in 0..(Len(q) - 1) : store' = Merge(store, SubSeq(q, 1, n))
    BY <1>6 DEF SaveFails
  <2>2. n \in 0..Len(q) BY <1>3
  <2>3. /\ SubSeq(q, 1, n) \in Seq(AnyBar) /\ Once(SubSeq(q, 1, n))
        /\ MinutesOf(SubSeq(q, 1, n)) \subseteq MinutesOf(q)
        /\ Merge(Merge(store, SubSeq(q, 1, n)), q) = Merge(store, q)
    <3> HIDE DEF q, D
    <3>1. Repeats(store, q, n, BOOLEAN) BY <1>3, <1>4, <2>2, MergePrefix DEF AnyBar
    <3> QED BY <3>1 DEF Repeats, AnyBar
  <2>4. seen' = Merge(store', q) /\ pending' = q BY <1>3, <1>6, <2>1, <2>3 DEF SaveFails
  <2>5. Joins(store', store, SubSeq(q, 1, n), D, BOOLEAN)
    <3> HIDE DEF q, D
    <3> QED BY <1>4, <2>1, <2>3, Merged DEF AnyBar
  <2>6. store' \in [DOMAIN store' -> BOOLEAN] /\ DOMAIN store' \subseteq 0..cur
    BY <1>3, <2>3, <2>5 DEF Joins
  <2>7. FeedType' /\ InStep'
    <3>1. TaskGone /\ feedPc' = "dead" /\ faults' \in 0..MaxFaults
      BY <1>1, <1>6, FeedAssumption DEF FeedType, SaveFails, Ends, Fault, FeedAssumption
    <3>2. pending' \in Seq(Past) BY <1>3, <2>4
    <3> HIDE DEF q
    <3> QED BY <1>1, <1>2, <1>3, <2>6, <3>1, <3>2, EndIsTyped
  <2>8. LedgerAgrees' BY <1>3, <2>4, OnceIsInjective DEF LedgerAgrees, Past
  <2> QED BY <2>7, <2>8 DEF LedgerInv
<1> QED BY <1>5, <1>6 DEF Record, b, q
-----------------------------------------------------------------------------
(***************************************************************************)
(* The other steps.                                                        *)
(***************************************************************************)
LEMMA MinuteClosesKeeps ==
  ASSUME FeedAssumption, LedgerInv, MinuteCloses
  PROVE  LedgerInv'
<1>1. FeedType /\ InStep /\ LedgerAgrees BY DEF LedgerInv
<1>2. /\ cur \in 1..MaxMinute /\ cur' = cur + 1 /\ cur' \in 1..MaxMinute /\ MaxMinute \in Nat
      /\ UNCHANGED <<wsUp, ban, faults, feed, bars>>
  BY <1>1, FeedAssumption DEF MinuteCloses, FeedType, FeedAssumption
<1>3. Seq(Past) \subseteq Seq(Past') BY <1>2, LaterBars DEF Past
<1>4. queue' \in Seq(Past')
  <2>1. Bar(cur, TRUE, TRUE) \in Past' BY <1>2 DEF Bar, Past, BarsOf
  <2>2. queue \in Seq(Past') BY <1>1, <1>3 DEF FeedType
  <2>3. queue' = queue \/ queue' = Append(queue, Bar(cur, TRUE, TRUE)) BY DEF MinuteCloses, Pushed
  <2> QED BY <2>1, <2>2, <2>3, AppendStays
<1>5. todo' \in Seq(Past') /\ pending' \in Seq(Past')
  BY <1>1, <1>2, <1>3 DEF FeedType, feed, bars
<1>6. 0..cur \subseteq 0..cur' BY <1>2
<1>7. {healEnd', feedLast', lastMsg'} \subseteq (0..cur') \cup {None}
  BY <1>1, <1>2, <1>6 DEF FeedType, feed
<1>8. DOMAIN seen' \subseteq 0..cur' /\ DOMAIN store' \subseteq 0..cur'
  BY <1>1, <1>2, <1>6 DEF FeedType, bars
<1>9. FeedType' BY <1>1, <1>2, <1>4, <1>5, <1>7, <1>8 DEF FeedType, feed, bars
<1>10. InStep' /\ LedgerAgrees'
  BY <1>1, <1>2 DEF InStep, LedgerAgrees, feed, bars, Alive
<1> QED BY <1>9, <1>10 DEF LedgerInv

(* A step that leaves the bars and what the feed knows of them alone is in *)
(* order if what it queues is of the past.                                 *)
LEMMA OtherKeeps ==
  ASSUME LedgerInv, UNCHANGED <<cur, bars>>,
         wsUp' \in BOOLEAN, ban' \in {"none", "banned"}, faults' \in 0..MaxFaults,
         feedPc' \in Stage, healPending' \in BOOLEAN,
         {healEnd', feedLast', lastMsg'} \subseteq (0..cur) \cup {None},
         feedPc' = "healing" <=> healEnd' # None,
         queue' \in Seq(Past), todo' \in Seq(Past), InStep'
  PROVE  LedgerInv'
<1>1. FeedType /\ LedgerAgrees BY DEF LedgerInv
<1>2. Past' = Past BY DEF Past
<1>3. pending' \in Seq(Past') /\ queue' \in Seq(Past') /\ todo' \in Seq(Past')
  BY <1>1, <1>2 DEF FeedType, bars
<1>4. FeedType' BY <1>1, <1>3 DEF FeedType, bars
<1>5. LedgerAgrees' BY <1>1 DEF LedgerAgrees, bars
<1> QED BY <1>4, <1>5 DEF LedgerInv

(* What the exchange does. *)
LEMMA ExchangeKeeps ==
  ASSUME FeedAssumption, LedgerInv, Tick \/ Drop \/ Ban \/ BanLifts
  PROVE  LedgerInv'
<1>1. FeedType /\ InStep BY DEF LedgerInv
<1>2. UNCHANGED <<cur, feed, bars>> BY DEF Tick, Drop, Ban, BanLifts
<1>3. wsUp' \in BOOLEAN /\ ban' \in {"none", "banned"}
  BY <1>1 DEF FeedType, Tick, Drop, Ban, BanLifts
<1>4. faults' \in 0..MaxFaults
  <2>1. faults' = faults \/ Fault BY DEF Tick, Drop, Ban, BanLifts
  <2> QED BY <1>1, <2>1, FeedAssumption DEF FeedAssumption, FeedType, Fault
<1>5. queue' \in Seq(Past)
  <2>1. CASE Tick
    <3>1. Bar(cur, FALSE, FALSE) \in Past BY <1>1 DEF Bar, Past, BarsOf, FeedType
    <3>2. queue \in Seq(Past) BY <1>1 DEF FeedType
    <3>3. queue' = queue \/ queue' = Append(queue, Bar(cur, FALSE, FALSE)) BY <2>1 DEF Tick, Pushed
    <3> QED BY <3>1, <3>2, <3>3, AppendStays
  <2>2. CASE Drop
    <3>1. queue \in Seq(Past) BY <1>1 DEF FeedType
    <3>2. PICK k \in 0..Len(queue) : queue' = SubSeq(queue, 1, k) BY <2>2 DEF Drop
    <3> HIDE DEF Past
    <3> QED BY <3>1, <3>2
  <2>3. CASE Ban \/ BanLifts BY <1>1, <2>3 DEF FeedType, Ban, BanLifts
  <2> QED BY <2>1, <2>2, <2>3
<1>6. /\ feedPc' \in Stage /\ healPending' \in BOOLEAN /\ todo' \in Seq(Past)
      /\ {healEnd', feedLast', lastMsg'} \subseteq (0..cur) \cup {None}
      /\ feedPc' = "healing" <=> healEnd' # None
  BY <1>1, <1>2 DEF FeedType, feed
<1>7. InStep' BY <1>1, <1>2 DEF InStep, Alive, feed, bars
<1> QED BY <1>2, <1>3, <1>4, <1>5, <1>6, <1>7, OtherKeeps

(* What the feed does. *)
LEMMA FeedTaskKeeps ==
  ASSUME FeedAssumption, LedgerInv,
         Connect \/ Recv \/ HealAnswer \/ (Deliver /\ PassOver(Head(todo)))
  PROVE  LedgerInv'
<1>1. FeedType /\ InStep BY DEF LedgerInv
<1>2. UNCHANGED <<cur, ban, faults, bars, feedLast>> /\ Alive /\ Alive'
  <2>1. CASE Connect BY <2>1 DEF Connect, Alive
  <2>2. CASE Recv BY <2>2 DEF Recv, Alive
  <2>3. CASE HealAnswer BY <2>3 DEF HealAnswer, exchange, Alive
  <2>4. CASE Deliver /\ PassOver(Head(todo)) BY <2>4 DEF Deliver, PassOver, Alive
  <2> QED BY <2>1, <2>2, <2>3, <2>4
<1>3. wsUp' \in BOOLEAN /\ ban' \in {"none", "banned"} /\ faults' \in 0..MaxFaults
  BY <1>1, <1>2 DEF FeedType, Connect, Recv, HealAnswer, Deliver, PassOver, exchange
<1>4. feedPc' \in Stage /\ healPending' \in BOOLEAN
  BY <1>1 DEF FeedType, Stage, Connect, Recv, HealAnswer, Deliver, PassOver
<1>5. {healEnd', feedLast', lastMsg'} \subseteq (0..cur) \cup {None}
  BY <1>1 DEF FeedType, Connect, Recv, HealAnswer, Deliver, PassOver
<1>6. feedPc' = "healing" <=> healEnd' # None
  BY <1>1 DEF FeedType, None, Connect, Recv, HealAnswer, Deliver, PassOver
<1>7. queue \in Seq(Past) /\ todo \in Seq(Past) BY <1>1 DEF FeedType
<1>8. queue' \in Seq(Past) /\ todo' \in Seq(Past)
  <2>1. CASE Connect BY <1>7, <2>1 DEF Connect
  <2>2. CASE Recv
    <3>1. queue # << >> /\ queue' = Tail(queue) /\ todo' = <<Head(queue)>> BY <2>2 DEF Recv
    <3> HIDE DEF Past
    <3> QED BY <1>7, <3>1
  <2>3. CASE HealAnswer
    <3>1. PICK hi \in {healEnd - 1, healEnd} : todo' = Healed(hi) \o todo
      BY <2>3 DEF HealAnswer
    <3>2. queue' = queue BY <2>3 DEF HealAnswer, exchange
    <3>3. /\ cur \in Nat /\ feedLast \in (0..cur) \cup {None} /\ healEnd \in 0..cur
          /\ hi - feedLast \in Int /\ hi <= cur
      BY <1>1, <2>3 DEF FeedType, HealAnswer, None
    <3>4. \A k \in 1..(hi - feedLast) : Bar(feedLast + k, TRUE, feedLast + k < cur) \in Past
      BY <3>3 DEF Bar, Past, BarsOf, None
    <3>5. Healed(hi) \in Seq(Past)
      <4> DEFINE n == IF hi - feedLast >= 0 THEN hi - feedLast ELSE 0
      <4>1. n \in Nat /\ 1..n = 1..(hi - feedLast) BY <3>3
      <4>2. Healed(hi) = [k \in 1..n |-> Bar(feedLast + k, TRUE, feedLast + k < cur)]
        BY <4>1 DEF Healed
      <4>3. \A k \in 1..n : Bar(feedLast + k, TRUE, feedLast + k < cur) \in Past BY <3>4, <4>1
      <4> DEFINE f == [k \in 1..n |-> Bar(feedLast + k, TRUE, feedLast + k < cur)]
      <4>4. f \in [1..n -> Past] BY <4>3
      <4>5. n \in Nat BY <4>1
      <4> HIDE DEF n, f, Past
      <4>6. f \in Seq(Past) BY <4>4, <4>5
      <4> QED BY <4>2, <4>6 DEF f
    <3> HIDE DEF Past
    <3> QED BY <1>7, <3>1, <3>2, <3>5
  <2>4. CASE Deliver /\ PassOver(Head(todo))
    <3>1. todo # << >> /\ todo' = Tail(todo) /\ queue' = queue BY <2>4 DEF Deliver, PassOver
    <3> HIDE DEF Past
    <3> QED BY <1>7, <3>1
  <2> QED BY <2>1, <2>2, <2>3, <2>4
<1>9. InStep' BY <1>1, <1>2 DEF InStep, bars
<1> QED BY <1>2, <1>3, <1>4, <1>5, <1>6, <1>8, <1>9, OtherKeeps

(* A task that ends and records nothing, and one that begins. *)
LEMMA TaskKeeps ==
  ASSUME FeedAssumption, LedgerInv, HealFails \/ HealBanned \/ Mute \/ Restart \/ Start
  PROVE  LedgerInv'
<1>1. FeedType /\ LedgerAgrees BY DEF LedgerInv
<1>2. CASE HealFails \/ HealBanned \/ Mute
  <2>1. UNCHANGED <<cur, ban, bars>> /\ TaskGone /\ feedPc' = "dead"
    BY <1>2 DEF HealFails, HealBanned, Mute, Ends
  <2>2. faults' \in 0..MaxFaults
    BY <1>1, <1>2, FeedAssumption DEF FeedAssumption, FeedType, Fault, HealFails, HealBanned, Mute
  <2>3. /\ pending' \in Seq(Past)
        /\ DOMAIN seen' \subseteq 0..cur /\ seen' \in [DOMAIN seen' -> BOOLEAN]
        /\ DOMAIN store' \subseteq 0..cur /\ store' \in [DOMAIN store' -> BOOLEAN]
    BY <1>1, <2>1 DEF FeedType, bars
  <2>4. FeedType' /\ InStep' BY <1>1, <2>1, <2>2, <2>3, EndIsTyped
  <2>5. LedgerAgrees' BY <1>1, <2>1 DEF LedgerAgrees, bars
  <2> QED BY <2>4, <2>5 DEF LedgerInv
<1>3. CASE Restart \/ Start
  <2>1. /\ UNCHANGED <<exchange, faults, healEnd, lastMsg, todo, bars>>
        /\ feedPc' = "reading" /\ healPending' = TRUE /\ feedLast' = LastOf(seen)
        /\ feedPc \in {"dead", "off"}
    BY <1>3 DEF Restart, Start, Begins
  <2>2. feedLast' \in (0..cur) \cup {None}
    <3>1. cur \in Nat /\ DOMAIN seen \subseteq 0..cur BY <1>1 DEF FeedType
    <3> QED BY <2>1, <3>1, LastIsGreatest
  <2>3. healEnd' = None BY <1>1, <2>1 DEF FeedType
  <2>4. InStep' BY <2>1 DEF InStep, bars
  <2> QED BY <1>1, <2>1, <2>2, <2>3, <2>4, OtherKeeps DEF FeedType, exchange, Stage
<1> QED BY <1>2, <1>3

(* What the process does. *)
LEMMA ProcessKeeps ==
  ASSUME FeedAssumption, LedgerInv, Crash \/ Stop
  PROVE  LedgerInv'
<1> DEFINE D == DOMAIN store
<1>1. FeedType /\ LedgerAgrees BY DEF LedgerInv
<1>2. /\ UNCHANGED <<cur, ban>> /\ TaskGone /\ feedPc' = "off"
      /\ pending' = << >> /\ seen' = store' /\ faults' \in 0..MaxFaults
  BY <1>1, FeedAssumption DEF FeedAssumption, FeedType, Crash, Stop, ProcessGone, Fault
<1>3. store \in [D -> BOOLEAN] /\ D \subseteq 0..cur /\ pending \in Seq(Past) /\ cur \in Nat
  BY <1>1 DEF FeedType
<1>4. pending \in Seq(AnyBar) /\ Once(pending)
  BY <1>1, <1>3, LaterBars, OnceIsInjective DEF LedgerAgrees, Past, AnyBar
<1>5. store' \in [DOMAIN store' -> BOOLEAN] /\ DOMAIN store' \subseteq 0..cur
  <2>1. CASE Crash BY <1>3, <2>1 DEF Crash
  <2>2. CASE Stop
    <3>1. PICK n \in 0..Len(pending) : store' = Merge(store, SubSeq(pending, 1, n))
      BY <2>2 DEF Stop
    <3>2. Repeats(store, pending, n, BOOLEAN)
      <4> HIDE DEF D
      <4> QED BY <1>3, <1>4, MergePrefix DEF AnyBar
    <3>3. Joins(store', store, SubSeq(pending, 1, n), D, BOOLEAN)
      <4> HIDE DEF D
      <4> QED BY <1>3, <3>1, <3>2, Merged DEF Repeats, AnyBar
    <3>4. MinutesOf(pending) \subseteq 0..cur
      <4>1. \A k \in 1..Len(pending) : pending[k] \in Past BY <1>3
      <4> QED BY <4>1 DEF MinutesOf, Past, BarsOf
    <3> QED BY <1>3, <3>2, <3>3, <3>4 DEF Joins, Repeats
  <2> QED BY <2>1, <2>2
<1>6. pending' \in Seq(Past) BY <1>2
<1>7. FeedType' /\ InStep' BY <1>1, <1>2, <1>5, <1>6, EndIsTyped
<1>8. seen' = Merge(store', pending') BY <1>2, <1>5, MergeNothing
<1>9. Once(pending') BY <1>2 DEF Once
<1>10. LedgerAgrees' BY <1>6, <1>8, <1>9, OnceIsInjective DEF LedgerAgrees, Past
<1> QED BY <1>7, <1>10 DEF LedgerInv

(* The invariant under every step. *)
LEMMA LedgerSteps ==
  ASSUME FeedAssumption, LedgerInv, [Next]_vars
  PROVE  LedgerInv'
<1>1. CASE UNCHANGED vars
  BY <1>1 DEF vars, exchange, feed, bars, LedgerInv, FeedType, Past, InStep, Alive, LedgerAgrees
<1>2. CASE MinuteCloses BY <1>2, MinuteClosesKeeps
<1>3. CASE Tick \/ Drop \/ Ban \/ BanLifts BY <1>3, ExchangeKeeps
<1>4. CASE Connect \/ Recv \/ HealAnswer BY <1>4, FeedTaskKeeps
<1>5. CASE Deliver BY <1>5, RecordKeeps, FeedTaskKeeps DEF Deliver
<1>6. CASE HealFails \/ HealBanned \/ Mute \/ Restart \/ Start BY <1>6, TaskKeeps
<1>7. CASE Crash \/ Stop BY <1>7, ProcessKeeps
<1> QED BY <1>1, <1>2, <1>3, <1>4, <1>5, <1>6, <1>7 DEF Next

(* Before the first bar. *)
LEMMA LedgerStarts ==
  ASSUME FeedAssumption, Init
  PROVE  LedgerInv
<1>1. /\ cur = 1 /\ faults = 0 /\ healEnd = None /\ feedPc = "off"
      /\ queue = << >> /\ todo = << >> /\ pending = << >> /\ seen = store
  BY DEF Init
<1>2. store \in [DOMAIN store -> BOOLEAN] /\ DOMAIN store \subseteq 0..1
  <2>1. CASE store = << >> BY <2>1
  <2>2. CASE store = [m \in {0} |-> TRUE] BY <2>2
  <2> QED BY <2>1, <2>2 DEF Init
<1>3. Once(pending) /\ << >> \in Seq(Past) BY <1>1 DEF Once
<1>4. LedgerAgrees
  <2>1. pending \in Seq(BarsOf(0..cur, BOOLEAN)) BY <1>1
  <2>2. IsInjective([k \in DOMAIN pending |-> pending[k].m]) BY <1>3, <2>1, OnceIsInjective
  <2>3. Merge(store, << >>) = store BY <1>2, MergeNothing
  <2> QED BY <1>1, <2>2, <2>3 DEF LedgerAgrees
<1>5. FeedType
  <2>1. /\ wsUp \in BOOLEAN /\ ban \in {"none", "banned"}
        /\ feedPc \in Stage /\ healPending \in BOOLEAN
    BY DEF Init, Stage
  <2>2. MaxMinute \in Nat \ {0} /\ MaxFaults \in Nat BY FeedAssumption DEF FeedAssumption
  <2>3. cur \in 1..MaxMinute /\ faults \in 0..MaxFaults BY <1>1, <2>2
  <2>4. /\ {healEnd, feedLast, lastMsg} \subseteq (0..cur) \cup {None}
        /\ feedPc = "healing" <=> healEnd # None
    BY DEF Init
  <2>5. queue \in Seq(Past) /\ todo \in Seq(Past) /\ pending \in Seq(Past) BY <1>1, <1>3
  <2>6. /\ DOMAIN seen \subseteq 0..cur /\ seen \in [DOMAIN seen -> BOOLEAN]
        /\ DOMAIN store \subseteq 0..cur /\ store \in [DOMAIN store -> BOOLEAN]
    BY <1>1, <1>2
  <2> QED BY <2>1, <2>3, <2>4, <2>5, <2>6 DEF FeedType
<1> QED BY <1>1, <1>4, <1>5 DEF LedgerInv, InStep, Alive

(* The record of the engine, the store, the pending list and the feed are  *)
(* of one mind (server/app.py, run_feed and _flush).                       *)
THEOREM LedgerInvariant == Spec => []LedgerInv
<1>1. Init => LedgerInv BY FeedAssumption, LedgerStarts
<1>2. LedgerInv /\ [Next]_vars => LedgerInv' BY FeedAssumption, LedgerSteps
<1> QED BY <1>1, <1>2, PTL DEF Spec

(* What the engine has taken is what the disk has plus what is pending.    *)
THEOREM LedgerHolds == Spec => []LedgerAgrees
<1>1. LedgerInv => LedgerAgrees BY DEF LedgerInv
<1> QED BY <1>1, LedgerInvariant, PTL

(* The types the code keeps.                                               *)
THEOREM FeedTypes == Spec => []TypeOK
<1>1. LedgerInv => TypeOK
  <2> SUFFICES ASSUME LedgerInv PROVE TypeOK OBVIOUS
  <2>1. FeedType BY DEF LedgerInv
  <2>2. 0..cur \subseteq Minutes /\ cur \in Minutes
    BY <2>1, FeedAssumption DEF FeedType, FeedAssumption, Minutes
  <2>3. Seq(Past) \subseteq Seq(BarRecord)
    <3>1. Past \subseteq BarRecord BY <2>2 DEF Past, BarsOf, BarRecord
    <3> HIDE DEF Past, BarRecord
    <3> QED BY <3>1
  <2>4. (feedPc = "healing") = (healEnd # None) BY <2>1, Zenon DEF FeedType
  <2>5. queue \in Seq(BarRecord) /\ todo \in Seq(BarRecord) /\ pending \in Seq(BarRecord)
    BY <2>1, <2>3 DEF FeedType
  <2>6. \A m \in DOMAIN seen : seen[m] \in BOOLEAN BY <2>1 DEF FeedType
  <2> QED BY <2>1, <2>2, <2>4, <2>5, <2>6 DEF FeedType, TypeOK
<1> QED BY <1>1, LedgerInvariant, PTL

(* A crash loses less than a flush, and a minute for each failed one.      *)
THEOREM CrashesLoseFew == Spec => []CrashLosesFew
<1>1. Init => CrashLosesFew BY FeedAssumption DEF Init, FeedAssumption, CrashLosesFew
<1>2. LedgerInv /\ CrashLosesFew /\ [Next]_vars => CrashLosesFew'
  <2> SUFFICES ASSUME LedgerInv, CrashLosesFew, [Next]_vars PROVE CrashLosesFew' OBVIOUS
  <2>1. pending \in Seq(Past) /\ faults \in Nat /\ FlushAt \in Nat \ {0}
    BY FeedAssumption DEF LedgerInv, FeedType, FeedAssumption
  <2>2. Len(pending) \in Nat BY <2>1
  <2>3. CASE pending' = pending /\ faults' \in {faults, faults + 1}
    BY <2>1, <2>2, <2>3 DEF CrashLosesFew
  <2>4. CASE pending' = << >> /\ faults' \in {faults, faults + 1}
    <3>1. Len(pending') = 0 BY <2>4
    <3>2. faults \in Nat /\ FlushAt \in Nat /\ FlushAt > 0 BY <2>1
    <3>3. faults' = faults \/ faults' = faults + 1 BY <2>4
    <3>4. 0 < FlushAt + faults' BY <3>2, <3>3
    <3> QED BY <3>1, <3>4 DEF CrashLosesFew
  <2>5. ASSUME Deliver, Record(Head(todo)) PROVE CrashLosesFew'
    <3> DEFINE q == Append(pending, Head(todo))
    <3>1. Len(q) = Len(pending) + 1 BY <2>1
    <3>2. CASE FlushDue(q) /\ SaveFails(q)
      BY <2>1, <2>2, <3>1, <3>2 DEF SaveFails, Fault, CrashLosesFew
    <3>3. CASE pending' = q /\ ~FlushDue(q) /\ faults' = faults
      BY <2>1, <2>2, <3>1, <3>3 DEF FlushDue, CrashLosesFew
    <3>4. CASE pending' = << >> /\ faults' = faults BY <2>4, <3>4
    <3> QED BY <2>5, <3>2, <3>3, <3>4 DEF Record
  <2> QED
    BY <2>3, <2>4, <2>5
    DEF Next, vars, exchange, feed, bars, MinuteCloses, Tick, Drop, Ban, BanLifts, Connect, Recv,
        HealAnswer, HealFails, HealBanned, Deliver, PassOver, Mute, Restart, Crash, Stop, Start,
        ProcessGone, Fault
<1>3. Spec => []LedgerInv BY LedgerInvariant
<1> QED BY <1>1, <1>2, <1>3, PTL DEF Spec

-----------------------------------------------------------------------------
(***************************************************************************)
(* The stream: what the generator still has to yield, and then what has    *)
(* been received.                                                          *)
(***************************************************************************)
(* A closed bar of a stream follows one before it, or what is known: every *)
(* minute up to base, or nothing yet.                                      *)
Precedes(s, k) == \E j \in 1..(k - 1) : s[j].closed /\ s[j].m = s[k].m - 1
First(s, k) == \A j \in 1..(k - 1) : ~s[j].closed
Chained(s, base) ==
  \A k \in 1..Len(s) :
    s[k].closed => Precedes(s, k) \/ IF base = None THEN First(s, k) ELSE s[k].m <= base + 1

(* The stream ends with the minute before `end'.                           *)
Current(s, base, end) ==
  \/ \E k \in 1..Len(s) : s[k].closed /\ s[k].m = end - 1
  \/ IF base = None THEN \A k \in 1..Len(s) : ~s[k].closed ELSE end - 1 <= base

Base == IF feedPc = "healing" THEN healEnd - 1 ELSE feedLast

Streamed ==
  /\ Chained(todo \o queue, Base)
  /\ wsUp => Current(todo \o queue, Base, cur)

Flow ==
  /\ \A k \in 1..Len(queue) : queue[k].closed => queue[k].m < cur
  /\ ~Alive => ~wsUp /\ queue = << >> /\ todo = << >> /\ ~healPending
  /\ healPending => todo = << >> /\ feedPc = "reading"
  /\ feedPc = "healing" => feedLast # None /\ healEnd >= 1
  /\ ~healPending \/ feedLast = None => Streamed

(* The last minute known once b is delivered. *)
KnownAfter(b, base) == IF b.closed /\ ~(b.m <= base) THEN b.m ELSE base

(* The length and the elements of a sequence of bars. *)
LEMMA BarsAreTyped ==
  ASSUME NEW s \in Seq(AnyBar)
  PROVE  /\ Len(s) \in Nat
         /\ \A k \in 1..Len(s) : s[k].m \in Nat /\ s[k].closed \in BOOLEAN
<1>1. Len(s) \in Nat /\ \A k \in 1..Len(s) : s[k] \in AnyBar OBVIOUS
<1> QED BY <1>1 DEF AnyBar, BarsOf

(* Delivering the first bar of a stream: it is the next minute, or known, and
   what is left follows from it. *)
LEMMA HeadLeaves ==
  ASSUME NEW s \in Seq(AnyBar), s # << >>, NEW base \in Nat \cup {None}, Chained(s, base)
  PROVE  LET b == Head(s) IN
         /\ b.closed /\ ~(b.m <= base) /\ base # None => b.m = base + 1
         /\ Chained(Tail(s), KnownAfter(b, base))
         /\ \A end \in Nat : Current(s, base, end) => Current(Tail(s), KnownAfter(b, base), end)
<1> DEFINE b == Head(s)
           t == Tail(s)
           next == KnownAfter(b, base)
<1>1. /\ Len(s) \in Nat \ {0} /\ Len(t) = Len(s) - 1 /\ b = s[1]
      /\ \A k \in 1..Len(t) : t[k] = s[k + 1] /\ k + 1 \in 1..Len(s)
      /\ \A k \in 1..Len(s) : s[k].m \in Nat /\ s[k].closed \in BOOLEAN
  <2>1. Len(s) \in Nat /\ \A k \in 1..Len(s) : s[k].m \in Nat /\ s[k].closed \in BOOLEAN
    BY BarsAreTyped
  <2> QED BY <2>1
<1> HIDE DEF b, t
<1>2. b.closed /\ ~(b.m <= base) /\ base # None => b.m = base + 1
  BY <1>1 DEF Chained, Precedes, None
<1>3. Chained(t, next)
  <2> SUFFICES ASSUME NEW k \in 1..Len(t), t[k].closed,
                      ~Precedes(t, k)
               PROVE  IF next = None THEN First(t, k) ELSE t[k].m <= next + 1
    BY DEF Chained
  <2>1. s[k + 1] = t[k] /\ k + 1 \in 1..Len(s) BY <1>1
  <2>2. ASSUME NEW j \in 1..k, j # 1 PROVE j - 1 \in 1..(k - 1) /\ t[j - 1] = s[j]
    <3>1. j - 1 \in 1..(k - 1) /\ j - 1 \in 1..Len(t) /\ (j - 1) + 1 = j BY <1>1, <2>2
    <3> QED BY <1>1, <3>1
  <2>3. CASE Precedes(s, k + 1)
    <3>1. PICK j \in 1..k : s[j].closed /\ s[j].m = s[k + 1].m - 1 BY <2>3 DEF Precedes
    <3>2. j = 1 BY <2>1, <2>2, <3>1 DEF Precedes
    <3> QED BY <1>1, <2>1, <3>1, <3>2 DEF KnownAfter, None
  <2>4. CASE base # None /\ s[k + 1].m <= base + 1 BY <1>1, <2>1, <2>4 DEF KnownAfter, None
  <2>5. CASE base = None /\ First(s, k + 1)
    <3>1. ~b.closed BY <1>1, <2>5 DEF First
    <3>2. First(t, k) BY <1>1, <2>5 DEF First
    <3> QED BY <2>5, <3>1, <3>2 DEF KnownAfter
  <2> QED BY <2>1, <2>3, <2>4, <2>5 DEF Chained
<1>4. ASSUME NEW end \in Nat, Current(s, base, end) PROVE Current(t, next, end)
  <2>1. CASE \E k \in 1..Len(s) : s[k].closed /\ s[k].m = end - 1
    <3>1. PICK k \in 1..Len(s) : s[k].closed /\ s[k].m = end - 1 BY <2>1
    <3>2. CASE k = 1 BY <1>1, <3>1, <3>2 DEF Current, KnownAfter, None
    <3>3. CASE k # 1
      <4>1. k - 1 \in 1..Len(t) /\ t[k - 1] = s[k] BY <1>1, <3>3
      <4> QED BY <3>1, <4>1 DEF Current
    <3> QED BY <3>2, <3>3
  <2>2. CASE base = None /\ \A k \in 1..Len(s) : ~s[k].closed
    BY <1>1, <2>2 DEF Current, KnownAfter
  <2>3. CASE base # None /\ end - 1 <= base BY <1>1, <2>3 DEF Current, KnownAfter, None
  <2> QED BY <1>4, <2>1, <2>2, <2>3 DEF Current
<1> QED BY <1>2, <1>3, <1>4 DEF b, t

(* What was lost at the end of a stream leaves the rest in order.          *)
LEMMA PrefixIsChained ==
  ASSUME NEW s \in Seq(AnyBar), NEW t \in Seq(AnyBar), Len(t) <= Len(s),
         \A k \in 1..Len(t) : t[k] = s[k], NEW base, Chained(s, base)
  PROVE  Chained(t, base)
<1>1. /\ Len(s) \in Nat /\ Len(t) \in Nat
      /\ \A k \in 1..Len(t) : k \in 1..Len(s)
      /\ \A k \in 1..Len(t) : \A j \in 1..(k - 1) : j \in 1..Len(t)
  OBVIOUS
<1> QED BY <1>1 DEF Chained, Precedes, First

(* The next minute, or an update of the one in flight, is added.           *)
LEMMA NextIsChained ==
  ASSUME NEW s \in Seq(AnyBar), NEW b \in AnyBar, NEW base \in Nat \cup {None}, Chained(s, base),
         b.closed => Current(s, base, b.m)
  PROVE  /\ Chained(Append(s, b), base)
         /\ b.closed => Current(Append(s, b), base, b.m + 1)
         /\ ~b.closed => \A end \in Nat : Current(s, base, end) => Current(Append(s, b), base, end)
<1> DEFINE t == Append(s, b)
           n == Len(s) + 1
<1>1. /\ Len(s) \in Nat /\ Len(t) = n /\ t[n] = b /\ \A k \in 1..Len(s) : t[k] = s[k]
      /\ \A k \in 1..n : k = n \/ k \in 1..Len(s)
      /\ b.m \in Nat /\ b.closed \in BOOLEAN /\ \A k \in 1..Len(s) : s[k].m \in Nat
  <2>1. b.m \in Nat /\ b.closed \in BOOLEAN BY DEF AnyBar, BarsOf
  <2> QED BY <2>1, BarsAreTyped
<1> HIDE DEF t
<1>2. ASSUME NEW k \in 1..Len(s), t[k].closed
      PROVE  Precedes(t, k) \/ IF base = None THEN First(t, k) ELSE t[k].m <= base + 1
  <2>1. \A j \in 1..k : j \in 1..Len(s) BY <1>1
  <2> QED BY <1>1, <1>2, <2>1 DEF Chained, Precedes, First
<1>3. ASSUME b.closed
      PROVE  Precedes(t, n) \/ IF base = None THEN First(t, n) ELSE t[n].m <= base + 1
  BY <1>1, <1>3 DEF Current, Precedes, First, None
<1>4. Chained(t, base) BY <1>1, <1>2, <1>3 DEF Chained
<1>5. b.closed => Current(t, base, b.m + 1) BY <1>1 DEF Current
<1>6. ~b.closed => \A end \in Nat : Current(s, base, end) => Current(t, base, end)
  BY <1>1 DEF Current
<1> QED BY <1>4, <1>5, <1>6 DEF t

(* The bars of a heal. *)
LEMMA HealIsTyped ==
  ASSUME FeedType, feedPc = "healing", feedLast # None,
         NEW hi \in {healEnd - 1, healEnd}
  PROVE  LET n == IF hi - feedLast >= 0 THEN hi - feedLast ELSE 0 IN
         /\ Healed(hi) \in Seq(AnyBar) /\ Len(Healed(hi)) = n
         /\ \A k \in 1..n : Healed(hi)[k] = Bar(feedLast + k, TRUE, feedLast + k < cur)
<1> DEFINE n == IF hi - feedLast >= 0 THEN hi - feedLast ELSE 0
           f == [k \in 1..n |-> Bar(feedLast + k, TRUE, feedLast + k < cur)]
<1>1. feedLast \in Nat /\ healEnd \in Nat /\ hi \in Int BY DEF FeedType, None
<1>2. n \in Nat /\ 1..n = 1..(hi - feedLast) BY <1>1
<1>3. Healed(hi) = f BY <1>2 DEF Healed
<1>4. \A k \in 1..n : f[k] \in AnyBar BY <1>1, <1>2 DEF Bar, AnyBar, BarsOf
<1>5. f \in [1..n -> AnyBar] BY <1>4
<1>6. \A k \in 1..n : f[k] = Bar(feedLast + k, TRUE, feedLast + k < cur) OBVIOUS
<1> HIDE DEF n, f, AnyBar
<1>7. f \in Seq(AnyBar) /\ Len(f) = n BY <1>2, <1>5
<1> QED BY <1>3, <1>6, <1>7 DEF n

(* The heal goes before the message that waited for it.                    *)
LEMMA HealIsChained ==
  ASSUME FeedType, feedPc = "healing", feedLast # None, healEnd >= 1,
         NEW s \in Seq(AnyBar), Chained(s, healEnd - 1),
         NEW hi \in {healEnd - 1, healEnd}
  PROVE  /\ Chained(Healed(hi) \o s, feedLast)
         /\ Current(s, healEnd - 1, cur) => Current(Healed(hi) \o s, feedLast, cur)
<1> DEFINE h == Healed(hi)
           n == IF hi - feedLast >= 0 THEN hi - feedLast ELSE 0
           t == h \o s
<1>1. feedLast \in Nat /\ healEnd \in Nat \ {0} /\ hi \in Int /\ cur \in Nat
  BY DEF FeedType, None
<1>2. /\ h \in Seq(AnyBar) /\ Len(h) = n
      /\ \A k \in 1..n : h[k].m = feedLast + k /\ h[k].closed
  <2>1. /\ h \in Seq(AnyBar) /\ Len(h) = n
        /\ \A k \in 1..n : h[k] = Bar(feedLast + k, TRUE, feedLast + k < cur)
    BY HealIsTyped
  <2> HIDE DEF h, n, AnyBar
  <2> QED BY <2>1 DEF Bar
<1>3. /\ n \in Nat /\ n >= hi - feedLast /\ Len(s) \in Nat /\ Len(t) = n + Len(s)
      /\ \A k \in 1..n : t[k] = h[k]
      /\ \A k \in 1..Len(s) : t[n + k] = s[k] /\ n + k \in 1..Len(t)
      /\ \A k \in 1..Len(t) : k \in 1..n \/ (k - n \in 1..Len(s) /\ k = n + (k - n))
      /\ \A k \in 1..Len(s) : s[k].m \in Nat
  <2>1. n \in Nat /\ n >= hi - feedLast BY <1>1
  <2>2. Len(s) \in Nat /\ \A k \in 1..Len(s) : s[k].m \in Nat BY BarsAreTyped
  <2> HIDE DEF AnyBar, h, n
  <2>3. /\ Len(t) = n + Len(s)
        /\ \A k \in 1..(n + Len(s)) : t[k] = IF k <= n THEN h[k] ELSE s[k - n]
    BY <1>2, ConcatProperties
  <2> HIDE DEF t
  <2>4. \A k \in 1..Len(s) : n + k \in 1..(n + Len(s)) /\ ~(n + k <= n) /\ (n + k) - n = k
    BY <2>1, <2>2
  <2> QED BY <2>1, <2>2, <2>3, <2>4
<1> HIDE DEF t, h, n
<1>4. ASSUME NEW m \in Nat, feedLast < m, m <= hi
      PROVE  m - feedLast \in 1..n /\ t[m - feedLast].m = m /\ t[m - feedLast].closed
  <2>1. m - feedLast \in 1..n /\ feedLast + (m - feedLast) = m BY <1>1, <1>3, <1>4 DEF n
  <2> QED BY <1>2, <1>3, <2>1
<1>5. ASSUME NEW k \in 1..n, ~Precedes(t, k) PROVE t[k].m <= feedLast + 1
  <2>1. t[k].m = feedLast + k BY <1>2, <1>3
  <2>2. CASE k # 1
    <3>1. k - 1 \in 1..n /\ k - 1 \in 1..(k - 1) BY <1>3, <2>2
    <3>2. t[k - 1].m = feedLast + (k - 1) /\ t[k - 1].closed BY <1>2, <1>3, <3>1
    <3>3. t[k - 1].m = t[k].m - 1 BY <1>1, <2>1, <3>2
    <3> QED BY <1>5, <3>1, <3>2, <3>3 DEF Precedes
  <2> QED BY <1>1, <2>1, <2>2
<1>6. ASSUME NEW k \in 1..Len(s), s[k].closed, ~Precedes(t, n + k)
      PROVE  t[n + k].m <= feedLast + 1
  <2>1. t[n + k] = s[k] /\ s[k].m \in Nat BY <1>3
  <2>2. CASE Precedes(s, k)
    <3>1. PICK j \in 1..(k - 1) : s[j].closed /\ s[j].m = s[k].m - 1 BY <2>2 DEF Precedes
    <3>2. n + j \in 1..((n + k) - 1) /\ t[n + j] = s[j] BY <1>3, <3>1
    <3>3. t[n + j].closed /\ t[n + j].m = t[n + k].m - 1 BY <2>1, <3>1, <3>2
    <3>4. Precedes(t, n + k) BY <3>2, <3>3 DEF Precedes
    <3> QED BY <1>6, <3>4
  <2>3. CASE s[k].m <= (healEnd - 1) + 1 /\ s[k].m > feedLast + 1
    <3>1. s[k].m - 1 \in Nat /\ feedLast < s[k].m - 1 /\ s[k].m - 1 <= hi BY <1>1, <2>1, <2>3
    <3> DEFINE j == (s[k].m - 1) - feedLast
    <3>2. j \in 1..n /\ t[j].m = s[k].m - 1 /\ t[j].closed BY <1>4, <3>1
    <3>3. j \in 1..((n + k) - 1) BY <1>3, <3>2
    <3> HIDE DEF j
    <3>4. t[j].m = t[n + k].m - 1 BY <2>1, <3>2
    <3>5. Precedes(t, n + k) BY <3>2, <3>3, <3>4 DEF Precedes
    <3> QED BY <1>6, <3>5
  <2>4. s[k].m <= (healEnd - 1) + 1 \/ Precedes(s, k)
    <3>1. healEnd - 1 # None BY <1>1 DEF None
    <3> QED BY <1>6, <3>1 DEF Chained
  <2> QED BY <1>1, <2>1, <2>2, <2>3, <2>4
<1>7. Chained(t, feedLast)
  <2> SUFFICES ASSUME NEW k \in 1..Len(t), t[k].closed, ~Precedes(t, k)
               PROVE  t[k].m <= feedLast + 1
    BY <1>1 DEF Chained, None
  <2>1. CASE k \in 1..n BY <1>5, <2>1
  <2>2. CASE k \notin 1..n
    <3>1. PICK j \in 1..Len(s) : k = n + j BY <1>3, <2>2
    <3>2. s[j].closed BY <1>3, <3>1
    <3> QED BY <1>6, <3>1, <3>2
  <2> QED BY <2>1, <2>2
<1>8. ASSUME Current(s, healEnd - 1, cur) PROVE Current(t, feedLast, cur)
  <2>1. CASE \E k \in 1..Len(s) : s[k].closed /\ s[k].m = cur - 1
    BY <1>3, <2>1 DEF Current
  <2>2. CASE cur - 1 <= healEnd - 1 /\ feedLast < cur - 1
    <3>1. cur - 1 \in Nat /\ cur - 1 <= hi BY <1>1, <2>2
    <3>2. (cur - 1) - feedLast \in 1..Len(t) BY <1>3, <1>4, <2>2, <3>1
    <3> QED BY <1>4, <2>2, <3>1, <3>2 DEF Current
  <2>3. CASE cur - 1 <= feedLast BY <2>3 DEF Current, None
  <2> QED BY <1>1, <1>8, <2>1, <2>2, <2>3 DEF Current, None
<1> QED BY <1>7, <1>8 DEF t, h

(* What the feed holds is a sequence of bars. *)
LEMMA StreamIsTyped ==
  ASSUME FeedType, Flow
  PROVE  /\ queue \in Seq(AnyBar) /\ todo \in Seq(AnyBar) /\ todo \o queue \in Seq(AnyBar)
         /\ Base \in Nat \cup {None} /\ cur \in Nat \ {0}
<1>1. cur \in Nat \ {0} BY DEF FeedType
<1>2. Seq(Past) \subseteq Seq(AnyBar) BY <1>1, LaterBars DEF Past, AnyBar
<1>3. queue \in Seq(AnyBar) /\ todo \in Seq(AnyBar) BY <1>2 DEF FeedType
<1>4. todo \o queue \in Seq(AnyBar) BY <1>3, ConcatProperties
<1>5. Base \in Nat \cup {None} BY DEF FeedType, Flow, Base, None
<1> QED BY <1>1, <1>3, <1>4, <1>5

(* An empty stream. *)
LEMMA NothingIsChained ==
  /\ \A base : Chained(<< >> \o << >>, base)
  /\ \A end : Current(<< >> \o << >>, None, end)
<1>1. << >> \o << >> = << >> /\ Len(<< >>) = 0 OBVIOUS
<1> QED BY <1>1 DEF Chained, Current

(* A task that ends takes its stream with it. *)
LEMMA EndFlows ==
  ASSUME TaskGone, feedPc' \in {"dead", "off"}
  PROVE  Flow'
<1>1. /\ queue' = << >> /\ todo' = << >> /\ Base' = None /\ ~wsUp' /\ ~healPending'
      /\ feedPc' # "healing" /\ Len(queue') = 0
  BY DEF TaskGone, Base
<1>2. Streamed' BY <1>1, NothingIsChained DEF Streamed
<1> QED BY <1>1, <1>2 DEF Flow

(* A step of the exchange or the network. *)
LEMMA ExchangeFlows ==
  ASSUME FeedType, Flow, MinuteCloses \/ Tick \/ Drop \/ Ban \/ BanLifts
  PROVE  Flow'
<1> DEFINE s == todo \o queue
<1>1. /\ queue \in Seq(AnyBar) /\ todo \in Seq(AnyBar) /\ s \in Seq(AnyBar)
      /\ Base \in Nat \cup {None} /\ cur \in Nat \ {0}
  BY StreamIsTyped
<1>2. UNCHANGED feed BY DEF MinuteCloses, Tick, Drop, Ban, BanLifts
<1>3. UNCHANGED <<feedPc, healPending, healEnd, feedLast, todo>> /\ Base' = Base /\ Alive' = Alive
  BY <1>2 DEF feed, Base, Alive
<1> HIDE DEF AnyBar
<1>4. ASSUME NEW b \in AnyBar, wsUp, wsUp' = wsUp, queue' = Append(queue, b), cur' \in Nat,
             b.closed => b.m = cur /\ cur' = cur + 1, ~b.closed => cur' = cur
      PROVE  Flow'
  <2>1. ~healPending \/ feedLast = None => Streamed'
    <3> HAVE ~healPending \/ feedLast = None
    <3>1. Chained(s, Base) /\ Current(s, Base, cur) BY <1>4 DEF Flow, Streamed
    <3>2. todo' \o queue' = Append(s, b)
      <4>1. Append(queue, b) = queue \o <<b>> /\ Append(s, b) = s \o <<b>>
        BY <1>1, <1>4, AppendIsConcat
      <4>2. <<b>> \in Seq(AnyBar) BY <1>4
      <4> QED BY <1>1, <1>3, <1>4, <4>1, <4>2, ConcatAssociative
    <3> HIDE DEF s
    <3>3. Chained(Append(s, b), Base) /\ Current(Append(s, b), Base, cur')
      BY <1>1, <1>4, <3>1, NextIsChained
    <3> QED BY <1>3, <3>2, <3>3 DEF Streamed
  <2>2. \A k \in 1..Len(queue') : queue'[k].closed => queue'[k].m < cur'
    <3>1. \A k \in 1..Len(queue) : queue[k].m \in Nat BY <1>1, BarsAreTyped
    <3>2. \A k \in 1..Len(queue') : (k \in 1..Len(queue) /\ queue'[k] = queue[k]) \/ queue'[k] = b
      BY <1>1, <1>4
    <3>3. cur' >= cur BY <1>1, <1>4
    <3> QED BY <1>1, <1>4, <3>1, <3>2, <3>3 DEF Flow
  <2> QED BY <1>3, <1>4, <2>1, <2>2 DEF Flow
<1>5. CASE MinuteCloses /\ wsUp
  <2>1. Bar(cur, TRUE, TRUE) \in AnyBar BY <1>1 DEF Bar, AnyBar, BarsOf
  <2> QED BY <1>1, <1>4, <1>5, <2>1 DEF MinuteCloses, Pushed, Bar
<1>6. CASE Tick
  <2>1. Bar(cur, FALSE, FALSE) \in AnyBar BY <1>1 DEF Bar, AnyBar, BarsOf
  <2> QED BY <1>1, <1>4, <1>6, <2>1 DEF Tick, Pushed, Bar
<1>7. CASE MinuteCloses /\ ~wsUp
  <2>1. queue' = queue /\ cur' = cur + 1 /\ ~wsUp' BY <1>7 DEF MinuteCloses, Pushed
  <2>2. \A k \in 1..Len(queue) : queue[k].m \in Nat BY <1>1, BarsAreTyped
  <2>3. \A k \in 1..Len(queue) : queue[k].closed => queue[k].m < cur' BY <1>1, <2>1, <2>2 DEF Flow
  <2>4. Streamed => Streamed' BY <1>3, <2>1 DEF Streamed
  <2> QED BY <1>3, <1>7, <2>1, <2>3, <2>4 DEF Flow
<1>8. CASE Drop
  <2>1. PICK n \in 0..Len(queue) : queue' = SubSeq(queue, 1, n) BY <1>8 DEF Drop
  <2>2. /\ queue' \in Seq(AnyBar) /\ Len(queue') = n
        /\ \A k \in 1..n : queue'[k] = queue[k] /\ k \in 1..Len(queue)
    BY <1>1, <2>1
  <2>3. cur' = cur /\ ~wsUp' BY <1>8 DEF Drop
  <2>4. ~healPending \/ feedLast = None => Streamed'
    <3> HAVE ~healPending \/ feedLast = None
    <3> DEFINE t == todo \o queue'
    <3>1. Chained(s, Base) BY DEF Flow, Streamed
    <3>2. /\ t \in Seq(AnyBar) /\ Len(t) = Len(todo) + n
          /\ \A k \in 1..Len(t) : t[k] = IF k <= Len(todo) THEN todo[k] ELSE queue'[k - Len(todo)]
          /\ Len(s) = Len(todo) + Len(queue)
          /\ \A k \in 1..Len(s) : s[k] = IF k <= Len(todo) THEN todo[k] ELSE queue[k - Len(todo)]
      <4>1. /\ t \in Seq(AnyBar) /\ Len(t) = Len(todo) + n
            /\ \A k \in 1..Len(todo) + n : t[k] = IF k <= Len(todo) THEN todo[k] ELSE queue'[k - Len(todo)]
        BY <1>1, <2>2, ConcatProperties
      <4>2. /\ Len(s) = Len(todo) + Len(queue)
            /\ \A k \in 1..Len(todo) + Len(queue) :
                 s[k] = IF k <= Len(todo) THEN todo[k] ELSE queue[k - Len(todo)]
        BY <1>1, ConcatProperties
      <4> HIDE DEF s, t
      <4> QED BY <4>1, <4>2
    <3>3. Len(todo) \in Nat /\ Len(queue) \in Nat BY <1>1
    <3> HIDE DEF s, t
    <3>4. Len(t) <= Len(s) BY <3>2, <3>3
    <3>5. \A k \in 1..Len(t) : k \in 1..Len(s) /\ (k > Len(todo) => k - Len(todo) \in 1..n)
      BY <3>2, <3>3, <3>4
    <3>6. ASSUME NEW k \in 1..Len(t) PROVE t[k] = s[k]
      <4>1. CASE k <= Len(todo) BY <3>2, <3>5, <4>1
      <4>2. CASE ~(k <= Len(todo))
        <5>1. k - Len(todo) \in 1..n BY <3>2, <3>3, <3>5, <4>2
        <5>2. t[k] = queue'[k - Len(todo)] /\ s[k] = queue[k - Len(todo)] BY <3>2, <3>5, <4>2
        <5> QED BY <2>2, <5>1, <5>2
      <4> QED BY <4>1, <4>2
    <3>7. Chained(t, Base) BY <1>1, <3>1, <3>2, <3>4, <3>6, PrefixIsChained
    <3> QED BY <1>3, <2>3, <3>7 DEF Streamed, t
  <2>5. queue = << >> => queue' = << >> BY <1>1, <2>2
  <2> QED BY <1>3, <1>8, <2>2, <2>3, <2>4, <2>5 DEF Flow, Drop
<1>9. CASE Ban \/ BanLifts
  <2>1. UNCHANGED <<cur, wsUp, queue>> BY <1>9 DEF Ban, BanLifts
  <2> QED BY <1>3, <2>1 DEF Flow, Streamed
<1> QED BY <1>5, <1>6, <1>7, <1>8, <1>9

(* A step of the feed task. *)
LEMMA FeedFlows ==
  ASSUME FeedType, Flow,
         Connect \/ Recv \/ HealAnswer \/ Deliver
  PROVE  Flow'
<1> DEFINE s == todo \o queue
<1>1. /\ queue \in Seq(AnyBar) /\ todo \in Seq(AnyBar) /\ s \in Seq(AnyBar)
      /\ Base \in Nat \cup {None} /\ cur \in Nat \ {0}
  BY StreamIsTyped
<1> HIDE DEF AnyBar
<1>2. CASE Connect
  <2>1. /\ queue = << >> /\ todo = << >> /\ healPending' /\ feedPc = "reading"
        /\ UNCHANGED <<cur, queue, todo, feedPc, feedLast, healEnd>>
    BY <1>2 DEF Connect
  <2>2. Base' = feedLast' BY <2>1 DEF Base
  <2>3. feedLast' = None => Streamed' BY <2>1, <2>2, NothingIsChained DEF Streamed
  <2> QED BY <2>1, <2>3 DEF Flow, Alive
<1>3. CASE Recv
  <2>1. /\ todo = << >> /\ queue # << >> /\ feedPc = "reading" /\ ~healPending'
        /\ queue' = Tail(queue) /\ todo' = <<Head(queue)>> /\ UNCHANGED <<cur, wsUp, feedLast>>
    BY <1>3 DEF Recv
  <2>2. s = queue /\ todo' \o queue' = queue
    <3>1. s = queue BY <1>1, <2>1, ConcatEmptySeq
    <3>2. /\ Head(queue) \in AnyBar /\ Tail(queue) \in Seq(AnyBar) /\ Len(queue) \in Nat \ {0}
          /\ Len(Tail(queue)) = Len(queue) - 1 /\ Head(queue) = queue[1]
          /\ \A k \in 1..Len(Tail(queue)) : Tail(queue)[k] = queue[k + 1]
      BY <1>1, <2>1
    <3>3. <<Head(queue)>> \in Seq(AnyBar) /\ Len(<<Head(queue)>>) = 1
          /\ <<Head(queue)>>[1] = queue[1]
      BY <3>2
    <3> DEFINE t == todo' \o queue'
    <3>4. /\ t \in Seq(AnyBar) /\ Len(t) = Len(queue)
          /\ \A k \in 1..Len(t) : t[k] = IF k <= 1 THEN queue[1] ELSE Tail(queue)[k - 1]
      BY <2>1, <3>2, <3>3, ConcatProperties
    <3> HIDE DEF t
    <3>5. \A k \in 1..Len(t) : t[k] = queue[k]
      <4> TAKE k \in 1..Len(t)
      <4>1. CASE k <= 1 BY <3>2, <3>4, <4>1
      <4>2. CASE ~(k <= 1)
        <5>1. k - 1 \in 1..Len(Tail(queue)) /\ (k - 1) + 1 = k BY <3>2, <3>4, <4>2
        <5> QED BY <3>2, <3>4, <4>2, <5>1
      <4> QED BY <4>1, <4>2
    <3>6. t = queue BY <1>1, <3>4, <3>5, SeqEqual
    <3> QED BY <3>1, <3>6 DEF t
  <2>3. \A k \in 1..Len(queue) : queue[k].closed => queue[k].m < cur BY DEF Flow
  <2>4. Streamed'
    <3>1. CASE healPending /\ feedLast # None
      <4>1. Base' = cur - 1 BY <1>3, <2>1, <3>1 DEF Recv, Base
      <4>2. \A k \in 1..Len(queue) : queue[k].m \in Nat BY <1>1, BarsAreTyped
      <4>3. \A k \in 1..Len(queue) : queue[k].closed => queue[k].m <= (cur - 1) + 1
        BY <1>1, <2>3, <4>2
      <4>4. cur - 1 # None /\ cur - 1 <= cur - 1 BY <1>1 DEF None
      <4>5. Chained(queue, cur - 1) BY <4>3, <4>4 DEF Chained
      <4>6. Current(queue, cur - 1, cur) BY <4>4 DEF Current
      <4> QED BY <2>1, <2>2, <4>1, <4>5, <4>6 DEF Streamed
    <3>2. CASE ~healPending \/ feedLast = None
      <4>1. Base' = feedLast /\ Base = feedLast BY <1>3, <2>1, <3>2 DEF Recv, Base
      <4> QED BY <2>1, <2>2, <3>2, <4>1 DEF Flow, Streamed
    <3> QED BY <3>1, <3>2
  <2>5. \A k \in 1..Len(queue') : queue'[k].closed => queue'[k].m < cur'
    <3>1. \A k \in 1..Len(queue') : queue'[k] = queue[k + 1] /\ k + 1 \in 1..Len(queue)
      BY <1>1, <2>1
    <3> QED BY <2>1, <2>3, <3>1
  <2>6. feedPc' = "healing" => feedLast' # None /\ healEnd' >= 1
    BY <1>1, <1>3, <2>1 DEF Recv
  <2>7. Alive' BY <1>3, <2>1 DEF Recv, Alive
  <2> QED BY <2>1, <2>4, <2>5, <2>6, <2>7 DEF Flow
<1>4. CASE HealAnswer
  <2>1. /\ feedPc = "healing" /\ feedPc' = "reading" /\ feedLast # None /\ healEnd >= 1
        /\ ~healPending /\ UNCHANGED <<cur, wsUp, queue, healPending, feedLast>>
    BY <1>4 DEF HealAnswer, exchange, Flow
  <2>2. PICK hi \in {healEnd - 1, healEnd} : todo' = Healed(hi) \o todo BY <1>4 DEF HealAnswer
  <2>3. Base = healEnd - 1 /\ Base' = feedLast BY <2>1 DEF Base
  <2>4. Chained(s, healEnd - 1) /\ (wsUp => Current(s, healEnd - 1, cur))
    BY <2>1, <2>3 DEF Flow, Streamed
  <2>5. todo' \o queue' = Healed(hi) \o s
    <3>1. Healed(hi) \in Seq(AnyBar) BY <2>1, HealIsTyped
    <3> QED BY <1>1, <2>1, <2>2, <3>1, ConcatAssociative
  <2>6. Streamed'
    <3> HIDE DEF s
    <3>1. /\ Chained(Healed(hi) \o s, feedLast)
          /\ Current(s, healEnd - 1, cur) => Current(Healed(hi) \o s, feedLast, cur)
      BY <1>1, <2>1, <2>4, HealIsChained
    <3> QED BY <2>1, <2>3, <2>4, <2>5, <3>1 DEF Streamed
  <2> QED BY <2>1, <2>6 DEF Flow, Alive
<1>5. CASE Deliver
  <2> DEFINE b == Head(todo)
  <2>1. /\ feedPc = "reading" /\ todo # << >> /\ ~healPending /\ cur' = cur
        /\ Base = feedLast
    BY <1>5 DEF Deliver, Flow, Base
  <2>2. CASE TaskGone /\ feedPc' = "dead" BY <2>2, EndFlows
  <2>3. CASE /\ todo' = Tail(todo) /\ feedLast' = KnownAfter(b, feedLast)
             /\ UNCHANGED <<wsUp, queue, feedPc, healPending, healEnd>>
    <3>1. Base' = KnownAfter(b, feedLast) BY <2>1, <2>3 DEF Base
    <3>2. Head(s) = b /\ todo' \o queue' = Tail(s) /\ s # << >> BY <1>1, <2>1, <2>3
    <3>3. Chained(s, Base) /\ (wsUp => Current(s, Base, cur)) BY <2>1 DEF Flow, Streamed
    <3>4. /\ Chained(Tail(s), KnownAfter(b, Base))
          /\ \A end \in Nat : Current(s, Base, end) => Current(Tail(s), KnownAfter(b, Base), end)
      <4> HIDE DEF s, b
      <4> QED BY <1>1, <3>2, <3>3, HeadLeaves
    <3>5. Streamed' BY <1>1, <2>1, <2>3, <3>1, <3>2, <3>3, <3>4 DEF Streamed
    <3> QED BY <2>1, <2>3, <3>5 DEF Flow, Alive
  <2>4. CASE PassOver(b)
    <3>1. feedLast' = KnownAfter(b, feedLast) BY <2>4 DEF PassOver, Known, KnownAfter
    <3> QED BY <2>3, <2>4, <3>1 DEF PassOver
  <2>5. CASE Record(b) BY <2>2, <2>3, <2>5 DEF Record, Known, KnownAfter, SaveFails, Ends
  <2> QED BY <1>5, <2>4, <2>5 DEF Deliver
<1> QED BY <1>2, <1>3, <1>4, <1>5

(* The initial states. *)
LEMMA FlowStarts ==
  ASSUME Init
  PROVE  Flow
<1>1. /\ ~wsUp /\ queue = << >> /\ todo = << >> /\ feedPc = "off" /\ ~healPending
      /\ feedLast = None
  BY DEF Init
<1>2. Streamed BY <1>1, NothingIsChained DEF Streamed, Base
<1> QED BY <1>1, <1>2 DEF Flow

(* Flow is inductive, given the types. *)
LEMMA FlowSteps ==
  ASSUME FeedType, Flow, [Next]_vars
  PROVE  Flow'
<1>1. CASE UNCHANGED vars BY <1>1 DEF vars, exchange, feed, Flow, Alive, Streamed, Base
<1>2. CASE MinuteCloses \/ Tick \/ Drop \/ Ban \/ BanLifts BY <1>2, ExchangeFlows
<1>3. CASE Connect \/ Recv \/ HealAnswer \/ Deliver BY <1>3, FeedFlows
<1>4. CASE HealFails \/ HealBanned \/ Mute \/ Crash \/ Stop
  BY <1>4, EndFlows DEF HealFails, HealBanned, Mute, Crash, Stop, Ends, ProcessGone
<1>5. CASE Restart \/ Start
  <2>1. /\ ~wsUp /\ queue = << >> /\ todo = << >> /\ healPending' /\ feedPc' = "reading"
        /\ UNCHANGED <<cur, wsUp, queue, todo>>
    BY <1>5 DEF Restart, Start, Begins, Flow, Alive, exchange
  <2>2. Streamed' BY <2>1, NothingIsChained DEF Streamed
  <2> QED BY <2>1, <2>2 DEF Flow, Alive
<1> QED BY <1>1, <1>2, <1>3, <1>4, <1>5 DEF Next
-----------------------------------------------------------------------------
(***************************************************************************)
(* The tape.                                                               *)
(***************************************************************************)
InOrder == \A j, k \in 1..Len(pending) : j < k => pending[j].m < pending[k].m
SavedFirst == Tape!Prefix(DOMAIN store, DOMAIN seen)

TapeInv == LedgerInv /\ Flow /\ InOrder /\ SavedFirst

(* What is on the disk and the beginning of what is pending come before    *)
(* the rest.                                                               *)
LEMMA FlushIsPrefix ==
  ASSUME NEW D, D \subseteq Nat, NEW q \in Seq(AnyBar), NEW n \in 0..Len(q),
         \A j, k \in 1..Len(q) : j < k => q[j].m < q[k].m,
         Tape!Prefix(D, D \cup MinutesOf(q))
  PROVE  Tape!Prefix(D \cup MinutesOf(SubSeq(q, 1, n)), D \cup MinutesOf(q))
<1> DEFINE p == SubSeq(q, 1, n)
<1>1. /\ Len(q) \in Nat /\ \A k \in 1..Len(q) : q[k].m \in Nat
  BY BarsAreTyped
<1>2. Len(p) = n /\ \A k \in 1..n : p[k] = q[k] /\ k \in 1..Len(q)
  OBVIOUS
<1> HIDE DEF p
<1>3. MinutesOf(p) \subseteq MinutesOf(q) BY <1>2 DEF MinutesOf
<1>4. ASSUME NEW a \in D \cup MinutesOf(p), NEW b \in D \cup MinutesOf(q), b < a, b \notin D
      PROVE  b \in MinutesOf(p)
  <2>1. a \notin D BY <1>4 DEF Tape!Prefix
  <2>2. PICK k \in 1..n : a = q[k].m BY <1>2, <2>1 DEF MinutesOf
  <2>3. PICK j \in 1..Len(q) : b = q[j].m BY <1>4 DEF MinutesOf
  <2>4. ~(k < j) /\ k # j BY <1>1, <1>2, <1>4, <2>2, <2>3
  <2>5. j \in 1..n BY <1>1, <2>4
  <2> QED BY <1>2, <2>3, <2>5 DEF MinutesOf
<1> QED BY <1>3, <1>4 DEF Tape!Prefix, p

(* The last minute of a record is one of its minutes, and no minute is after it. *)
LEMMA LastIsIn ==
  ASSUME NEW K \in Nat, NEW rec, DOMAIN rec \subseteq 0..K, DOMAIN rec # {}
  PROVE  LastOf(rec) \in DOMAIN rec
<1> DEFINE S == DOMAIN rec
<1>1. S \in SUBSET ((-1)..K) /\ S # {} OBVIOUS
<1> HIDE DEF S
<1>2. Max(S) \in S BY <1>1, MaxIsMember
<1> QED BY <1>1, <1>2 DEF LastOf, S

(* The minutes of a merged record. *)
LEMMA MergeDomain ==
  ASSUME NEW rec, NEW q \in Seq(AnyBar)
  PROVE  DOMAIN Merge(rec, q) = DOMAIN rec \cup MinutesOf(q)
<1>1. DOMAIN q = 1..Len(q) OBVIOUS
<1>2. {b.m : b \in ToSet(q)} = MinutesOf(q) BY <1>1 DEF ToSet, MinutesOf
<1> QED BY <1>2 DEF Merge

(* A recorded bar is the next minute of the tape, and what is written is a
   prefix of it. *)
LEMMA RecordGrows ==
  ASSUME FeedAssumption, TapeInv, Deliver, Record(Head(todo))
  PROVE  (\E m \in DOMAIN seen' : Tape!Extend(m)) /\ InOrder' /\ SavedFirst'
<1> DEFINE b == Head(todo)
           q == Append(pending, b)
           D == DOMAIN store
<1>1. FeedType /\ InStep /\ LedgerAgrees /\ Flow /\ InOrder /\ SavedFirst
  BY DEF TapeInv, LedgerInv
<1>2. /\ b \in AnyBar /\ pending \in Seq(AnyBar) /\ q \in Seq(AnyBar)
      /\ \A m \in DOMAIN seen : m \in Nat /\ m < b.m
      /\ DOMAIN seen = D \cup MinutesOf(pending)
      /\ DOMAIN seen' = DOMAIN seen \cup {b.m}
      /\ MinutesOf(q) = MinutesOf(pending) \cup {b.m}
  <2>1. LedgerInv BY DEF TapeInv
  <2>2. {pending, q} \subseteq Seq(AnyBar) BY <2>1, RecordExtends
  <2> QED BY <2>1, <2>2, RecordExtends
<1>3. b.m \in Nat /\ b.m \notin DOMAIN seen BY <1>2 DEF AnyBar, BarsOf
<1>4. DOMAIN seen # {} => b.m - 1 \in DOMAIN seen
  <2> HAVE DOMAIN seen # {}
  <2> DEFINE s == todo \o queue
  <2>1. /\ queue \in Seq(AnyBar) /\ todo \in Seq(AnyBar) /\ s \in Seq(AnyBar)
        /\ Base \in Nat \cup {None}
    BY <1>1, StreamIsTyped
  <2>2. feedPc = "reading" /\ todo # << >> /\ b.closed /\ ~(b.m <= feedLast)
    BY DEF Deliver, Record, Known
  <2>3. Base = feedLast /\ Chained(s, Base) BY <1>1, <2>2 DEF Base, Flow, Streamed
  <2>4. feedLast \in DOMAIN seen
    <3>1. cur \in Nat /\ DOMAIN seen \subseteq 0..cur BY <1>1 DEF FeedType
    <3>2. feedLast = LastOf(seen) BY <1>1, <2>2 DEF InStep, Alive
    <3> QED BY <3>1, <3>2, LastIsIn
  <2>5. feedLast # None BY <1>2, <2>4 DEF None
  <2>6. s # << >> /\ Head(s) = b BY <2>1, <2>2
  <2>7. b.m = feedLast + 1
    <3> HIDE DEF s, b
    <3> QED BY <2>1, <2>2, <2>3, <2>5, <2>6, HeadLeaves
  <2> QED BY <1>2, <2>4, <2>7
<1>5. \A j, k \in 1..Len(q) : j < k => q[j].m < q[k].m
  <2>1. /\ Len(pending) \in Nat /\ Len(q) = Len(pending) + 1 /\ q[Len(pending) + 1] = b
        /\ \A k \in 1..Len(pending) : q[k] = pending[k]
    BY <1>2
  <2>2. \A k \in 1..Len(pending) : q[k].m \in DOMAIN seen BY <1>2, <2>1 DEF MinutesOf
  <2> HIDE DEF q, b
  <2> TAKE j, k \in 1..Len(q)
  <2> HAVE j < k
  <2>3. j \in 1..Len(pending) BY <2>1
  <2>4. CASE k \in 1..Len(pending) BY <1>1, <2>1, <2>3, <2>4 DEF InOrder
  <2>5. CASE k = Len(pending) + 1 BY <1>2, <2>1, <2>2, <2>3, <2>5
  <2> QED BY <2>1, <2>4, <2>5
<1>6. D \subseteq Nat /\ D \cup MinutesOf(q) = DOMAIN seen' BY <1>2
<1>7. Tape!Prefix(D, DOMAIN seen')
  <2>1. Tape!Prefix(D, DOMAIN seen) BY <1>1 DEF SavedFirst
  <2>2. ASSUME NEW a \in D, NEW c \in DOMAIN seen', c < a PROVE c \in D
    <3>1. a \in Nat /\ a < b.m BY <1>2
    <3>2. c # b.m BY <1>3, <2>2, <3>1
    <3> QED BY <1>2, <2>1, <2>2, <3>2 DEF Tape!Prefix
  <2> QED BY <1>2, <2>1, <2>2 DEF Tape!Prefix
<1> HIDE DEF q
<1>8. \/ store' = store
      \/ store' = Merge(store, q)
      \/ \E n \in 0..(Len(q) - 1) : store' = Merge(store, SubSeq(q, 1, n))
  BY DEF Record, SaveFails, q
<1>9. pending' = << >> \/ pending' = q BY DEF Record, SaveFails, q
<1>10. D \subseteq DOMAIN store' /\ Tape!Prefix(DOMAIN store', DOMAIN seen')
  <2>1. CASE store' = store BY <1>7, <2>1
  <2>2. CASE store' = Merge(store, q)
    <3>1. DOMAIN store' = DOMAIN seen' BY <1>2, <1>6, <2>2, MergeDomain
    <3> QED BY <1>6, <3>1 DEF Tape!Prefix
  <2>3. CASE \E n \in 0..(Len(q) - 1) : store' = Merge(store, SubSeq(q, 1, n))
    <3>1. PICK n \in 0..(Len(q) - 1) : store' = Merge(store, SubSeq(q, 1, n)) BY <2>3
    <3>2. n \in 0..Len(q) /\ SubSeq(q, 1, n) \in Seq(AnyBar) BY <1>2
    <3>3. DOMAIN store' = D \cup MinutesOf(SubSeq(q, 1, n)) BY <3>1, <3>2, MergeDomain
    <3>4. Tape!Prefix(DOMAIN store', DOMAIN seen')
      <4> HIDE DEF D
      <4> QED BY <1>2, <1>5, <1>6, <1>7, <3>2, <3>3, FlushIsPrefix
    <3> QED BY <3>3, <3>4
  <2> QED BY <1>8, <2>1, <2>2, <2>3
<1>11. Tape!Extend(b.m) BY <1>2, <1>3, <1>4, <1>10 DEF Tape!Extend, Tape!Save
<1>12. InOrder' BY <1>5, <1>9 DEF InOrder
<1> QED BY <1>2, <1>10, <1>11, <1>12 DEF SavedFirst

(* A process that ends takes the tape back to what is on the disk. *)
LEMMA ProcessRewinds ==
  ASSUME FeedAssumption, TapeInv, Crash \/ Stop
  PROVE  Tape!Rewind /\ InOrder' /\ SavedFirst'
<1> DEFINE D == DOMAIN store
<1>1. FeedType /\ LedgerAgrees /\ InOrder /\ SavedFirst BY DEF TapeInv, LedgerInv
<1>2. seen' = store' /\ pending' = << >> BY DEF Crash, Stop, ProcessGone
<1>3. pending \in Seq(AnyBar) /\ D \subseteq Nat
  <2>1. cur \in Nat /\ pending \in Seq(Past) /\ D \subseteq 0..cur BY <1>1 DEF FeedType
  <2>2. Seq(Past) \subseteq Seq(AnyBar) BY <2>1, LaterBars DEF Past, AnyBar
  <2> QED BY <2>1, <2>2
<1>4. DOMAIN seen = D \cup MinutesOf(pending) BY <1>1, <1>3, MergeDomain DEF LedgerAgrees
<1>5. Tape!Save(DOMAIN seen)
  <2>1. CASE store' = store BY <1>1, <2>1 DEF SavedFirst, Tape!Save, Tape!Prefix
  <2>2. CASE Stop
    <3>1. PICK n \in 0..Len(pending) : store' = Merge(store, SubSeq(pending, 1, n))
      BY <2>2 DEF Stop
    <3>2. SubSeq(pending, 1, n) \in Seq(AnyBar) BY <1>3
    <3>3. DOMAIN store' = D \cup MinutesOf(SubSeq(pending, 1, n)) BY <3>1, <3>2, MergeDomain
    <3>4. Tape!Prefix(DOMAIN store', DOMAIN seen)
      <4>1. Tape!Prefix(D, D \cup MinutesOf(pending)) BY <1>1, <1>4 DEF SavedFirst
      <4> HIDE DEF D
      <4> QED BY <1>1, <1>3, <1>4, <3>3, <4>1, FlushIsPrefix DEF InOrder
    <3> QED BY <3>3, <3>4 DEF Tape!Save
  <2> QED BY <2>1, <2>2 DEF Crash
<1>6. Tape!Rewind BY <1>2, <1>5 DEF Tape!Rewind
<1>7. SavedFirst' BY <1>2 DEF SavedFirst, Tape!Prefix
<1>8. InOrder' BY <1>2 DEF InOrder
<1> QED BY <1>6, <1>7, <1>8

(* Every step keeps TapeInv and is a step of MinuteTape or leaves it alone. *)
LEMMA TapeSteps ==
  ASSUME FeedAssumption, TapeInv, [Next]_vars
  PROVE  TapeInv' /\ [Tape!Next]_<<DOMAIN seen, DOMAIN store>>
<1>1. LedgerInv /\ Flow /\ InOrder /\ SavedFirst BY DEF TapeInv
<1>2. LedgerInv' BY <1>1, LedgerSteps
<1>3. Flow' BY <1>1, FlowSteps DEF LedgerInv
<1>4. InOrder' /\ SavedFirst' /\ [Tape!Next]_<<DOMAIN seen, DOMAIN store>>
  <2>1. CASE UNCHANGED bars BY <1>1, <2>1 DEF InOrder, SavedFirst, bars
  <2>2. CASE Deliver /\ Record(Head(todo)) BY <2>2, RecordGrows DEF Tape!Next
  <2>3. CASE Crash \/ Stop BY <2>3, ProcessRewinds DEF Tape!Next
  <2>4. \/ UNCHANGED bars \/ Crash \/ Stop
        \/ Deliver /\ Record(Head(todo))
    BY DEF Next, vars, MinuteCloses, Tick, Drop, Ban, BanLifts, Connect, Recv, HealAnswer,
           HealFails, HealBanned, Deliver, PassOver, Mute, Restart, Start
  <2> QED BY <2>1, <2>2, <2>3, <2>4
<1> QED BY <1>2, <1>3, <1>4 DEF TapeInv

(* The feed and the store implement the tape of minutes: whatever is dropped,
   banned, cancelled, half-written or killed, every step adds the next minute
   to what the engine has taken and extends what is saved to a prefix of it,
   or rewinds the tape to what is saved.  No hole, since every reconnect heals
   from the last minute known (KlineFeed.stream, binance_klines.py) and every
   start from the store (App.run_feed). *)
THEOREM FeedImplementsTape == Spec => ImplementsTape
<1>1. Init => TapeInv /\ Tape!Init
  <2> SUFFICES ASSUME Init PROVE TapeInv /\ Tape!Init OBVIOUS
  <2>1. LedgerInv BY FeedAssumption, LedgerStarts
  <2>2. /\ cur = 1 /\ ~wsUp /\ queue = << >> /\ todo = << >> /\ pending = << >>
        /\ feedPc = "off" /\ ~healPending /\ feedLast = None /\ seen = store
        /\ store \in {<< >>, [m \in {0} |-> TRUE]}
    BY DEF Init
  <2>3. Flow BY FlowStarts
  <2>4. InOrder /\ SavedFirst BY <2>2 DEF InOrder, SavedFirst, Tape!Prefix
  <2>5. DOMAIN store = {} \/ DOMAIN store = {0} BY <2>2
  <2>6. Tape!Init BY <2>2, <2>5 DEF Tape!Init, Tape!Consecutive
  <2> QED BY <2>1, <2>3, <2>4, <2>6 DEF TapeInv
<1>2. TapeInv /\ [Next]_vars => TapeInv' /\ [Tape!Next]_<<DOMAIN seen, DOMAIN store>>
  BY FeedAssumption, TapeSteps
<1> QED BY <1>1, <1>2, PTL DEF Spec, ImplementsTape, Tape!Spec
-----------------------------------------------------------------------------
(***************************************************************************)
(* Values of a minute that was still trading.                              *)
(***************************************************************************)
Partial(b) == b.closed /\ ~b.final
Whole(s) == \A k \in 1..Len(s) : ~Partial(s[k])
Hollow(rec) == {m \in DOMAIN rec : ~rec[m]}

(* The heals that can still bring such a minute without a further failure. *)
HealDue == feedPc = "healing" \/ (healPending /\ (wsUp \/ queue # << >>))
Owed ==
  IF ~Alive THEN 1
  ELSE IF HealDue THEN IF wsUp THEN 1 ELSE 2
  ELSE IF wsUp THEN 0 ELSE 1
InTodo == IF Whole(todo) THEN 0 ELSE 1

Budget ==
  /\ Whole(queue)
  /\ feedPc = "healing" => Whole(todo)
  /\ \A j, k \in 1..Len(todo) : Partial(todo[j]) /\ Partial(todo[k]) => j = k
  /\ Cardinality(Hollow(seen)) + InTodo + Owed <= 1 + faults

PartialInv == LedgerInv /\ Flow /\ Budget

(* The minutes of a record that hold values read too early are finitely many. *)
LEMMA HollowIsFinite ==
  ASSUME NEW K \in Nat, NEW rec, DOMAIN rec \subseteq 0..K
  PROVE  IsFiniteSet(Hollow(rec)) /\ Cardinality(Hollow(rec)) \in Nat
<1>1. IsFiniteSet(0..K) BY FS_Interval
<1>2. Hollow(rec) \in SUBSET (0..K) BY DEF Hollow
<1>3. IsFiniteSet(Hollow(rec)) BY <1>1, <1>2, FS_Subset
<1> QED BY <1>3, FS_CardinalityType

(* The record after a step holds no more such minutes than before it.      *)
LEMMA FewerHollow ==
  ASSUME NEW K \in Nat, NEW rec, DOMAIN rec \subseteq 0..K,
         NEW new, DOMAIN new \subseteq DOMAIN rec, \A m \in DOMAIN new : new[m] = rec[m]
  PROVE  Cardinality(Hollow(new)) <= Cardinality(Hollow(rec))
<1>1. Hollow(new) \in SUBSET Hollow(rec) BY DEF Hollow
<1> QED BY <1>1, HollowIsFinite, FS_Subset

(* The ranges of the two debts, before and after a step. *)
LEMMA DebtsAreTyped ==
  /\ Owed \in {0, 1, 2} /\ InTodo \in {0, 1}
  /\ Owed' \in {0, 1, 2} /\ InTodo' \in {0, 1}
<1>1. Owed \in {0, 1, 2} /\ InTodo \in {0, 1} BY DEF Owed, InTodo
<1>2. Owed' \in {0, 1, 2} BY DEF Owed
<1>3. InTodo' \in {0, 1} BY DEF InTodo
<1> QED BY <1>1, <1>2, <1>3

(* What makes a healed bar partial. *)
LEMMA PartialIsNotFinal ==
  ASSUME NEW m, NEW final \in BOOLEAN
  PROVE  Partial(Bar(m, TRUE, final)) <=> ~final
BY DEF Partial, Bar

(* The sum of Budget before and after a step. *)
LEMMA SumKept ==
  ASSUME NEW h \in Nat, NEW h2 \in Nat, NEW t \in {0, 1}, NEW t2 \in {0, 1},
         NEW o \in {0, 1, 2}, NEW o2 \in {0, 1, 2}, NEW f \in Nat, NEW f2 \in Nat,
         h + t + o <= 1 + f, h2 + t2 <= h + t,
         (f2 = f /\ o2 <= o) \/ (f2 = f + 1 /\ o2 <= o + 1)
  PROVE  h2 + t2 + o2 <= 1 + f2
OBVIOUS

(* A task that ends by a failure pays for the heal of the next one. *)
LEMMA EndsInBudget ==
  ASSUME PartialInv, TaskGone, feedPc' \in {"dead", "off"}, faults' = faults + 1,
         Cardinality(Hollow(seen')) \in Nat,
         Cardinality(Hollow(seen')) <= Cardinality(Hollow(seen)) + InTodo
  PROVE  Budget'
<1>1. /\ Cardinality(Hollow(seen)) \in Nat /\ faults \in Nat
  <2>1. cur \in Nat /\ DOMAIN seen \subseteq 0..cur /\ faults \in Nat
    BY DEF PartialInv, LedgerInv, FeedType
  <2> QED BY <2>1, HollowIsFinite
<1>2. queue' = << >> /\ todo' = << >> /\ Whole(<< >>) BY DEF TaskGone, Whole
<1>3. Owed' = 1 /\ InTodo' = 0 BY <1>2 DEF Owed, HealDue, InTodo, Alive
<1>4. Owed \in {0, 1, 2} /\ InTodo \in {0, 1} BY DebtsAreTyped
<1>5. Cardinality(Hollow(seen)) + InTodo + Owed <= 1 + faults BY DEF PartialInv, Budget
<1>6. Cardinality(Hollow(seen')) + InTodo' + Owed' <= 1 + faults' BY <1>1, <1>3, <1>4, <1>5
<1> QED BY <1>2, <1>6 DEF Budget

(* A step of the exchange or the network: only a lost connection adds a heal,
   and it is a failure. *)
LEMMA ExchangeInBudget ==
  ASSUME PartialInv, MinuteCloses \/ Tick \/ Drop \/ Ban \/ BanLifts
  PROVE  Budget'
<1>1. /\ FeedType /\ Flow /\ Budget /\ queue \in Seq(AnyBar)
  BY StreamIsTyped DEF PartialInv, LedgerInv
<1>2. UNCHANGED <<feed, bars>> BY DEF MinuteCloses, Tick, Drop, Ban, BanLifts
<1>3. Whole(queue') /\ (queue' # << >> => queue # << >> \/ wsUp)
  <2> HIDE DEF AnyBar
  <2>1. ASSUME NEW b \in {Bar(cur, TRUE, TRUE), Bar(cur, FALSE, FALSE)},
               queue' = Append(queue, b)
        PROVE  Whole(queue')
    <3>1. ~Partial(b) BY DEF Bar, Partial
    <3>2. \A k \in 1..Len(queue') : (k \in 1..Len(queue) /\ queue'[k] = queue[k]) \/ queue'[k] = b
      BY <1>1, <2>1
    <3> QED BY <1>1, <3>1, <3>2 DEF Budget, Whole
  <2>2. CASE MinuteCloses \/ Tick
    BY <1>1, <2>1, <2>2 DEF MinuteCloses, Tick, Pushed, Budget
  <2>3. CASE Drop
    <3>1. PICK n \in 0..Len(queue) : queue' = SubSeq(queue, 1, n) BY <2>3 DEF Drop
    <3>2. \A k \in 1..Len(queue') : queue'[k] = queue[k] /\ k \in 1..Len(queue) BY <1>1, <3>1
    <3>3. Whole(queue') BY <1>1, <3>2 DEF Budget, Whole
    <3>4. wsUp BY <2>3 DEF Drop
    <3> QED BY <3>3, <3>4
  <2>4. CASE Ban \/ BanLifts BY <1>1, <2>4 DEF Ban, BanLifts, Budget
  <2> QED BY <2>2, <2>3, <2>4
<1>4. /\ faults \in Nat /\ Cardinality(Hollow(seen)) \in Nat
  <2>1. cur \in Nat /\ DOMAIN seen \subseteq 0..cur /\ faults \in Nat BY <1>1 DEF FeedType
  <2> QED BY <2>1, HollowIsFinite
<1>5. UNCHANGED <<feedPc, healPending, todo, seen>> /\ InTodo' = InTodo /\ Alive' = Alive
  BY <1>2 DEF feed, bars, InTodo, Alive
<1>6. (faults' = faults /\ Owed' <= Owed) \/ (faults' = faults + 1 /\ Owed' <= Owed + 1)
  <2>1. CASE MinuteCloses \/ Tick \/ Ban \/ BanLifts
    <3>1. wsUp' = wsUp /\ (faults' = faults \/ faults' = faults + 1)
      BY <2>1 DEF MinuteCloses, Tick, Ban, BanLifts, Fault
    <3>2. HealDue' => HealDue BY <1>3, <1>5, <3>1 DEF HealDue
    <3>3. Owed' <= Owed BY <1>5, <3>1, <3>2 DEF Owed
    <3>4. Owed' <= Owed + 1 BY <3>3, DebtsAreTyped
    <3> QED BY <3>1, <3>3, <3>4
  <2>2. CASE Drop
    <3>1. wsUp /\ ~wsUp' /\ faults' = faults + 1 BY <2>2 DEF Drop, Fault
    <3>2. HealDue' => HealDue BY <1>5, <3>1 DEF HealDue
    <3>3. Owed' <= Owed + 1
      <4>1. CASE ~Alive BY <1>5, <4>1 DEF Owed
      <4>2. CASE Alive /\ HealDue BY <1>5, <3>1, <4>2, DebtsAreTyped DEF Owed
      <4>3. CASE Alive /\ ~HealDue BY <1>5, <3>1, <3>2, <4>3 DEF Owed
      <4> QED BY <4>1, <4>2, <4>3
    <3> QED BY <3>1, <3>3
  <2> QED BY <2>1, <2>2
<1>7. Cardinality(Hollow(seen)) + InTodo + Owed <= 1 + faults BY <1>1 DEF Budget
<1>8. Cardinality(Hollow(seen')) = Cardinality(Hollow(seen)) BY <1>5
<1>9. Cardinality(Hollow(seen')) + InTodo' + Owed' <= 1 + faults'
  BY <1>4, <1>5, <1>6, <1>7, <1>8, SumKept, DebtsAreTyped
<1> QED BY <1>1, <1>3, <1>5, <1>9 DEF Budget

(* A heal that is answered turns from owed to delivered. *)
LEMMA FeedInBudget ==
  ASSUME PartialInv, Connect \/ Recv \/ HealAnswer
  PROVE  Budget'
<1>1. /\ FeedType /\ Flow /\ Budget /\ queue \in Seq(AnyBar) /\ todo \in Seq(AnyBar)
  BY StreamIsTyped DEF PartialInv, LedgerInv
<1>2. /\ faults \in Nat /\ Cardinality(Hollow(seen)) \in Nat
  <2>1. cur \in Nat /\ DOMAIN seen \subseteq 0..cur /\ faults \in Nat BY <1>1 DEF FeedType
  <2> QED BY <2>1, HollowIsFinite
<1>3. UNCHANGED <<seen, faults>> BY DEF Connect, Recv, HealAnswer, bars
<1> HIDE DEF AnyBar
<1>4. CASE Connect
  <2>1. /\ queue = << >> /\ ~wsUp /\ feedPc = "reading" /\ UNCHANGED <<queue, todo, feedPc>>
        /\ wsUp'
    BY <1>4 DEF Connect
  <2>2. InTodo' = InTodo /\ Owed = 1 /\ Owed' <= 1 BY <2>1 DEF InTodo, Owed, HealDue, Alive
  <2> QED BY <1>1, <1>2, <1>3, <2>1, <2>2 DEF Budget, InTodo, Owed
<1>5. CASE Recv
  <2>1. /\ feedPc = "reading" /\ todo = << >> /\ queue # << >> /\ UNCHANGED wsUp
        /\ queue' = Tail(queue) /\ todo' = <<Head(queue)>> /\ ~healPending'
    BY <1>5 DEF Recv
  <2>2. Whole(queue') /\ Whole(todo')
    <3>1. /\ Len(queue) \in Nat \ {0} /\ Head(queue) = queue[1]
          /\ \A k \in 1..Len(queue') : queue'[k] = queue[k + 1] /\ k + 1 \in 1..Len(queue)
      BY <1>1, <2>1
    <3>2. Len(todo') = 1 /\ todo'[1] = queue[1] BY <2>1, <3>1
    <3> QED BY <1>1, <3>1, <3>2 DEF Budget, Whole
  <2>3. InTodo' = 0 /\ InTodo \in {0, 1} BY <2>2 DEF InTodo
  <2>4. Owed' <= Owed
    <3>1. Alive /\ Alive' BY <1>5, <2>1 DEF Alive, Recv
    <3>2. HealDue' => HealDue BY <1>5, <2>1 DEF Recv, HealDue
    <3> QED BY <2>1, <3>1, <3>2 DEF Owed
  <2>5. Cardinality(Hollow(seen)) + InTodo + Owed <= 1 + faults BY <1>1 DEF Budget
  <2>6. Cardinality(Hollow(seen')) + InTodo' <= Cardinality(Hollow(seen)) + InTodo
    BY <1>2, <1>3, <2>3
  <2>7. Cardinality(Hollow(seen')) + InTodo' + Owed' <= 1 + faults'
    BY <1>2, <1>3, <2>4, <2>5, <2>6, SumKept, DebtsAreTyped
  <2> QED BY <2>2, <2>7 DEF Budget, Whole
<1>6. CASE HealAnswer
  <2>1. /\ feedPc = "healing" /\ feedPc' = "reading" /\ UNCHANGED <<wsUp, queue, healPending>>
        /\ feedLast # None /\ ~healPending /\ healEnd <= cur
        /\ feedLast \in Nat /\ cur \in Nat /\ healEnd \in Nat
    BY <1>1, <1>6 DEF HealAnswer, exchange, Flow, FeedType, None
  <2>2. PICK hi \in {healEnd - 1, healEnd} : todo' = Healed(hi) \o todo BY <1>6 DEF HealAnswer
  <2> DEFINE n == IF hi - feedLast >= 0 THEN hi - feedLast ELSE 0
             h == Healed(hi)
  <2>3. /\ h \in Seq(AnyBar) /\ Len(h) = n
        /\ \A k \in 1..n : h[k] = Bar(feedLast + k, TRUE, feedLast + k < cur)
    BY <1>1, <2>1, HealIsTyped
  <2>4. n \in Nat /\ \A k \in 1..n : feedLast + k <= cur BY <2>1
  <2> HIDE DEF n, h
  <2>5. \A k \in 1..Len(todo') : Partial(todo'[k]) => k = cur - feedLast
    <3>1. /\ Len(todo) \in Nat /\ Len(todo') = n + Len(todo)
          /\ \A k \in 1..Len(todo') : todo'[k] = IF k <= n THEN h[k] ELSE todo[k - n]
      BY <1>1, <2>2, <2>3, ConcatProperties DEF h
    <3> TAKE k \in 1..Len(todo')
    <3> HAVE Partial(todo'[k])
    <3>2. CASE k <= n
      <4>1. k \in 1..n BY <2>4, <3>1, <3>2
      <4>2. todo'[k] = Bar(feedLast + k, TRUE, feedLast + k < cur)
        BY <2>3, <3>1, <3>2, <4>1
      <4>3. ~(feedLast + k < cur) BY <4>2, PartialIsNotFinal
      <4> QED BY <2>1, <2>4, <4>1, <4>3
    <3>3. CASE ~(k <= n)
      <4>1. k - n \in 1..Len(todo) /\ todo'[k] = todo[k - n] BY <2>4, <3>1, <3>3
      <4> QED BY <1>1, <2>1, <4>1 DEF Budget, Whole
    <3> QED BY <3>2, <3>3
  <2>6. InTodo = 0 BY <1>1, <2>1 DEF Budget, InTodo
  <2>7. (Owed = 2 /\ Owed' = 1) \/ (Owed = 1 /\ Owed' = 0) BY <2>1 DEF Owed, HealDue, Alive
  <2>8. Cardinality(Hollow(seen')) + InTodo' + Owed' <= 1 + faults'
    <3>1. Cardinality(Hollow(seen)) + InTodo + Owed <= 1 + faults BY <1>1 DEF Budget
    <3>2. Cardinality(Hollow(seen')) = Cardinality(Hollow(seen)) /\ faults' = faults BY <1>3
    <3>3. InTodo' = 0 \/ InTodo' = 1 BY DebtsAreTyped
    <3> QED BY <1>2, <2>6, <2>7, <3>1, <3>2, <3>3
  <2> QED BY <1>1, <2>1, <2>5, <2>8 DEF Budget
<1> QED BY <1>4, <1>5, <1>6

(* A delivered bar turns from the stream into the record, once. *)
LEMMA DeliveryInBudget ==
  ASSUME FeedAssumption, PartialInv, Deliver
  PROVE  Budget'
<1> DEFINE b == Head(todo)
<1>1. /\ FeedType /\ Flow /\ Budget /\ LedgerInv /\ queue \in Seq(AnyBar) /\ todo \in Seq(AnyBar)
  BY StreamIsTyped DEF PartialInv, LedgerInv
<1>2. /\ faults \in Nat /\ Cardinality(Hollow(seen)) \in Nat /\ IsFiniteSet(Hollow(seen))
  <2>1. cur \in Nat /\ DOMAIN seen \subseteq 0..cur /\ faults \in Nat BY <1>1 DEF FeedType
  <2> QED BY <2>1, HollowIsFinite
<1>3. feedPc = "reading" /\ todo # << >> BY DEF Deliver
<1> HIDE DEF AnyBar
<1>4. /\ Len(todo) \in Nat \ {0} /\ b = todo[1] /\ Len(Tail(todo)) = Len(todo) - 1
      /\ \A k \in 1..Len(Tail(todo)) : Tail(todo)[k] = todo[k + 1] /\ k + 1 \in 1..Len(todo)
  BY <1>1, <1>3
<1> HIDE DEF b
<1>5. /\ Partial(b) => Whole(Tail(todo)) /\ ~Whole(todo)
      /\ Whole(todo) => Whole(Tail(todo)) /\ ~Partial(b)
  BY <1>1, <1>4 DEF Budget, Whole
<1>6. \A j, k \in 1..Len(Tail(todo)) : Partial(Tail(todo)[j]) /\ Partial(Tail(todo)[k]) => j = k
  BY <1>1, <1>4 DEF Budget
<1>7. ASSUME todo' = Tail(todo), UNCHANGED <<wsUp, queue, faults, feedPc, healPending>>,
             Cardinality(Hollow(seen')) \in Nat,
             Cardinality(Hollow(seen')) + InTodo' <= Cardinality(Hollow(seen)) + InTodo
      PROVE  Budget'
  <2>1. Owed' = Owed BY <1>7 DEF Owed, HealDue, Alive
  <2>2. Cardinality(Hollow(seen)) + InTodo + Owed <= 1 + faults BY <1>1 DEF Budget
  <2>3. Cardinality(Hollow(seen')) + InTodo' + Owed' <= 1 + faults'
    BY <1>2, <1>7, <2>1, <2>2, SumKept, DebtsAreTyped
  <2> QED BY <1>1, <1>3, <1>6, <1>7, <2>3 DEF Budget
<1>8. CASE PassOver(b)
  <2>1. InTodo \in {0, 1} /\ todo' = Tail(todo) => InTodo' <= InTodo BY <1>5 DEF InTodo
  <2>2. InTodo' \in {0, 1} /\ InTodo \in {0, 1} BY DEF InTodo
  <2> QED BY <1>2, <1>7, <1>8, <2>1, <2>2 DEF PassOver, bars
<1>9. CASE Record(b)
  <2>1. /\ b.m \notin DOMAIN seen /\ DOMAIN seen' = DOMAIN seen \cup {b.m}
        /\ seen' = Merge(seen, <<b>>) /\ b.closed
        /\ b.m \in Nat /\ cur \in Nat /\ DOMAIN seen' \subseteq 0..cur
    <3>1. /\ b \in AnyBar /\ \A m \in DOMAIN seen : m \in Nat /\ m < b.m
          /\ DOMAIN seen' = DOMAIN seen \cup {b.m} /\ DOMAIN seen' \subseteq 0..cur
          /\ seen' = Merge(seen, <<b>>)
      BY <1>1, <1>9, RecordExtends DEF b
    <3>2. b.m \in Nat BY <3>1 DEF AnyBar, BarsOf
    <3> QED BY <1>1, <1>9, <3>1, <3>2 DEF Record, FeedType
  <2>2. seen'[b.m] = b.final /\ \A m \in DOMAIN seen : seen'[m] = seen[m]
    <3>1. /\ <<b>> \in Seq(AnyBar) /\ Once(<<b>>) /\ Len(<<b>>) = 1 /\ <<b>>[1] = b
      BY <1>1, <1>3 DEF b, Once
    <3>2. seen \in [DOMAIN seen -> BOOLEAN] BY <1>1 DEF FeedType
    <3>3. Joins(seen', seen, <<b>>, DOMAIN seen, BOOLEAN)
      BY <2>1, <3>1, <3>2, Merged DEF AnyBar
    <3> QED BY <2>1, <3>1, <3>3 DEF Joins
  <2>3. Cardinality(Hollow(seen')) \in Nat BY <2>1, HollowIsFinite
  <2>4. CASE Partial(b)
    <3>1. Hollow(seen') = Hollow(seen) \cup {b.m} BY <2>1, <2>2, <2>4 DEF Hollow, Partial
    <3>2. Cardinality(Hollow(seen')) <= Cardinality(Hollow(seen)) + 1
      <4>1. b.m \notin Hollow(seen) BY <2>1 DEF Hollow
      <4>2. Cardinality(Hollow(seen')) = Cardinality(Hollow(seen)) + 1
        BY <1>2, <3>1, <4>1, FS_AddElement
      <4> QED BY <1>2, <4>2
    <3>3. todo' = Tail(todo) => InTodo' = 0
      <4>1. Whole(Tail(todo)) BY <1>5, <2>4
      <4> QED BY <4>1 DEF InTodo
    <3>4. InTodo = 1 BY <1>5, <2>4 DEF InTodo
    <3>5. CASE todo' = Tail(todo) /\ UNCHANGED <<wsUp, queue, faults, feedPc, healPending>>
      BY <1>2, <1>7, <2>3, <3>2, <3>3, <3>4, <3>5
    <3>6. CASE SaveFails(Append(pending, b))
      BY <1>2, <2>3, <3>2, <3>4, <3>6, EndsInBudget DEF SaveFails, Ends, Fault
    <3> QED BY <1>9, <3>5, <3>6 DEF Record
  <2>5. CASE ~Partial(b)
    <3>1. Hollow(seen') = Hollow(seen) BY <2>1, <2>2, <2>5 DEF Hollow, Partial
    <3>2. InTodo \in {0, 1} /\ InTodo' \in {0, 1} BY DEF InTodo
    <3>3. CASE todo' = Tail(todo) /\ UNCHANGED <<wsUp, queue, faults, feedPc, healPending>>
      <4>1. InTodo' <= InTodo BY <1>5, <3>3 DEF InTodo
      <4> QED BY <1>2, <1>7, <3>1, <3>2, <3>3, <4>1
    <3>4. CASE SaveFails(Append(pending, b))
      BY <1>2, <3>1, <3>2, <3>4, EndsInBudget DEF SaveFails, Ends, Fault
    <3> QED BY <1>9, <3>3, <3>4 DEF Record
  <2> QED BY <2>4, <2>5
<1> QED BY <1>8, <1>9 DEF Deliver, b

(* A process that ends keeps what the disk has. *)
LEMMA ProcessInBudget ==
  ASSUME FeedAssumption, PartialInv, Crash \/ Stop
  PROVE  Budget'
<1> DEFINE D == DOMAIN store
<1>1. FeedType /\ LedgerAgrees /\ LedgerInv BY DEF PartialInv, LedgerInv
<1>2. /\ TaskGone /\ feedPc' = "off" /\ seen' = store' /\ faults' = faults + 1 /\ cur' = cur
  BY DEF Crash, Stop, ProcessGone, Fault
<1>3. store \in [D -> BOOLEAN] /\ pending \in Seq(Past) /\ cur \in Nat /\ DOMAIN seen \subseteq 0..cur
  BY <1>1 DEF FeedType
<1>4. pending \in Seq(AnyBar) /\ Once(pending)
  BY <1>1, <1>3, LaterBars, OnceIsInjective DEF LedgerAgrees, Past, AnyBar
<1>5. DOMAIN seen' \subseteq DOMAIN seen /\ \A m \in DOMAIN seen' : seen'[m] = seen[m]
  <2>1. Joins(seen, store, pending, D, BOOLEAN)
    <3> HIDE DEF D
    <3> QED BY <1>1, <1>3, <1>4, Merged DEF LedgerAgrees, AnyBar
  <2>2. CASE Crash BY <1>2, <1>3, <2>1, <2>2 DEF Crash, Joins
  <2>3. CASE Stop
    <3>1. PICK n \in 0..Len(pending) : store' = Merge(store, SubSeq(pending, 1, n))
      BY <2>3 DEF Stop
    <3> DEFINE p == SubSeq(pending, 1, n)
               E == D \cup MinutesOf(p)
    <3>2. Repeats(store, pending, n, BOOLEAN)
      <4> HIDE DEF D
      <4> QED BY <1>3, <1>4, MergePrefix DEF AnyBar
    <3> HIDE DEF p
    <3>3. /\ p \in Seq(AnyBar) /\ Once(p) /\ MinutesOf(p) \subseteq MinutesOf(pending)
          /\ Merge(Merge(store, p), pending) = Merge(store, pending)
      BY <3>2 DEF Repeats, p, AnyBar
    <3>4. Joins(store', store, p, D, BOOLEAN)
      <4> HIDE DEF D
      <4> QED BY <1>3, <3>1, <3>3, Merged DEF p, AnyBar
    <3>5. store' \in [E -> BOOLEAN] BY <3>4 DEF Joins
    <3>6. seen = Merge(store', pending) BY <1>1, <3>1, <3>3 DEF LedgerAgrees, p
    <3>7. Joins(seen, store', pending, E, BOOLEAN)
      <4> HIDE DEF E
      <4> QED BY <1>4, <3>5, <3>6, Merged DEF AnyBar
    <3> HIDE DEF E
    <3> QED BY <1>2, <3>5, <3>7 DEF Joins
  <2> QED BY <2>2, <2>3
<1>6. Cardinality(Hollow(seen')) <= Cardinality(Hollow(seen)) BY <1>3, <1>5, FewerHollow
<1>7. Cardinality(Hollow(seen')) \in Nat /\ Cardinality(Hollow(seen)) \in Nat
  <2>1. DOMAIN seen' \subseteq 0..cur BY <1>3, <1>5
  <2> QED BY <1>3, <2>1, HollowIsFinite
<1>8. Cardinality(Hollow(seen')) <= Cardinality(Hollow(seen)) + InTodo
  <2>1. InTodo = 0 \/ InTodo = 1 BY DEF InTodo
  <2> QED BY <1>6, <1>7, <2>1
<1> QED BY <1>2, <1>7, <1>8, EndsInBudget

(* Budget is inductive, given the types and the order of the stream. *)
LEMMA BudgetSteps ==
  ASSUME FeedAssumption, PartialInv, [Next]_vars
  PROVE  Budget'
<1>1. FeedType /\ Flow /\ Budget BY DEF PartialInv, LedgerInv
<1>2. CASE UNCHANGED vars
  <2>1. UNCHANGED <<wsUp, queue, faults, feedPc, healPending, todo, seen>>
    BY <1>2 DEF vars, exchange, feed, bars
  <2>2. Owed' = Owed /\ InTodo' = InTodo BY <2>1 DEF Owed, InTodo, HealDue, Alive
  <2> QED BY <1>1, <2>1, <2>2 DEF Budget
<1>3. CASE MinuteCloses \/ Tick \/ Drop \/ Ban \/ BanLifts BY <1>3, ExchangeInBudget
<1>4. CASE Connect \/ Recv \/ HealAnswer BY <1>4, FeedInBudget
<1>5. CASE Deliver BY <1>5, DeliveryInBudget
<1>6. CASE Crash \/ Stop BY <1>6, ProcessInBudget
<1>7. faults \in Nat /\ Cardinality(Hollow(seen)) \in Nat
  <2>1. cur \in Nat /\ DOMAIN seen \subseteq 0..cur /\ faults \in Nat BY <1>1 DEF FeedType
  <2> QED BY <2>1, HollowIsFinite
<1>8. Cardinality(Hollow(seen)) + InTodo + Owed <= 1 + faults BY <1>1 DEF Budget
<1>9. CASE HealFails \/ Mute
  <2>1. TaskGone /\ feedPc' = "dead" /\ faults' = faults + 1 /\ seen' = seen
    BY <1>9 DEF HealFails, Mute, Ends, Fault, bars
  <2>2. Cardinality(Hollow(seen')) <= Cardinality(Hollow(seen)) + InTodo
    <3>1. InTodo = 0 \/ InTodo = 1 BY DEF InTodo
    <3> QED BY <1>7, <2>1, <3>1
  <2> QED BY <1>7, <2>1, <2>2, EndsInBudget
<1>10. CASE HealBanned
  <2>1. TaskGone /\ feedPc = "healing" /\ feedPc' = "dead" /\ UNCHANGED <<seen, faults>>
    BY <1>10 DEF HealBanned, Ends, bars
  <2>2. queue' = << >> /\ todo' = << >> /\ Whole(<< >>) BY <2>1 DEF TaskGone, Whole
  <2>3. Owed' = 1 /\ InTodo' = 0 BY <2>1, <2>2 DEF Owed, HealDue, InTodo, Alive
  <2>4. Owed = 1 \/ Owed = 2 BY <2>1 DEF Owed, HealDue, Alive
  <2>5. Cardinality(Hollow(seen')) + InTodo' + Owed' <= 1 + faults'
    <3>1. InTodo = 0 \/ InTodo = 1 BY DEF InTodo
    <3> QED BY <1>7, <1>8, <2>1, <2>3, <2>4, <3>1
  <2> QED BY <2>2, <2>5 DEF Budget
<1>11. CASE Restart \/ Start
  <2>1. /\ ~Alive /\ ~wsUp /\ queue = << >> /\ todo = << >> /\ feedPc' = "reading"
        /\ UNCHANGED <<wsUp, queue, todo, seen, faults>>
    BY <1>1, <1>11 DEF Restart, Start, Begins, Flow, Alive, exchange, bars
  <2>2. Owed = 1 /\ Owed' = 1 /\ InTodo' = InTodo BY <2>1 DEF Owed, HealDue, InTodo, Alive
  <2> QED BY <1>1, <2>1, <2>2 DEF Budget
<1> QED BY <1>2, <1>3, <1>4, <1>5, <1>6, <1>9, <1>10, <1>11 DEF Next

(* Of the minutes the engine has taken at most one, plus one for each failure,
   holds values read while it was trading: only a heal brings them
   (fetch_klines marks every bar closed), one at most, and a heal is due to the
   first connection or to a failure. *)
THEOREM PartialsAreFew == Spec => []PartialsPerFault
<1>1. Init => PartialInv
  <2> SUFFICES ASSUME Init PROVE PartialInv OBVIOUS
  <2>1. LedgerInv BY FeedAssumption, LedgerStarts
  <2>2. Flow BY FlowStarts
  <2>3. /\ queue = << >> /\ todo = << >> /\ feedPc = "off" /\ faults = 0 /\ seen = store
        /\ store \in {<< >>, [m \in {0} |-> TRUE]}
    BY DEF Init
  <2>4. Hollow(seen) = {} BY <2>3 DEF Hollow
  <2>5. Cardinality(Hollow(seen)) = 0 BY <2>4, FS_EmptySet
  <2>6. Whole(<< >>) BY DEF Whole
  <2>7. InTodo = 0 /\ Owed = 1 BY <2>3, <2>6 DEF InTodo, Owed, HealDue, Alive
  <2> QED BY <2>1, <2>2, <2>3, <2>5, <2>6, <2>7 DEF PartialInv, Budget
<1>2. PartialInv /\ [Next]_vars => PartialInv'
  BY FeedAssumption, LedgerSteps, FlowSteps, BudgetSteps DEF PartialInv, LedgerInv
<1>3. PartialInv => PartialsPerFault
  <2> SUFFICES ASSUME PartialInv PROVE PartialsPerFault OBVIOUS
  <2>1. cur \in Nat /\ DOMAIN seen \subseteq 0..cur /\ faults \in Nat
    BY DEF PartialInv, LedgerInv, FeedType
  <2>2. Cardinality(Hollow(seen)) \in Nat BY <2>1, HollowIsFinite
  <2>3. Cardinality(Hollow(seen)) + InTodo + Owed <= 1 + faults BY DEF PartialInv, Budget
  <2>4. InTodo \in {0, 1} /\ Owed \in {0, 1, 2} BY DEF InTodo, Owed
  <2>5. Cardinality(Hollow(seen)) <= 1 + faults BY <2>1, <2>2, <2>3, <2>4
  <2> QED BY <2>5 DEF PartialsPerFault, Hollow
<1> QED BY <1>1, <1>2, <1>3, PTL DEF Spec
=============================================================================
