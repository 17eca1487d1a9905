---------------------------- MODULE PivotLedger ----------------------------
(***************************************************************************)
(* What the pivot history promises its readers, whatever detects pivots: a *)
(* ledger of turning points that only grows.  An entry says which side it  *)
(* turned, the bar where it happened and the bar on which it became known, *)
(* which is the bar being processed when it is written.                    *)
(***************************************************************************)
EXTENDS Integers, Sequences

VARIABLES clock,  \* index of the bar being processed
          ledger  \* turning points known so far

Init == clock = -1 /\ ledger = << >>

(* A bar that changes nothing. *)
Tick == clock' = clock + 1 /\ UNCHANGED ledger

(* A bar that makes one turning point known, the one at bar `at'.  Turning
   points alternate, and the new one lies no earlier than the bar on which the
   previous one became known: what is known is settled before it turns again. *)
Write(kind, at) ==
  /\ ledger # << >> => /\ kind # ledger[Len(ledger)].kind
                       /\ at >= ledger[Len(ledger)].known
  /\ ledger' = Append(ledger, [kind |-> kind, at |-> at, known |-> clock + 1])
  /\ clock' = clock + 1

Next == Tick \/ \E kind \in {"LOW", "HIGH"}, at \in 0..clock : Write(kind, at)

Spec == Init /\ [][Next]_<<clock, ledger>>
=============================================================================
