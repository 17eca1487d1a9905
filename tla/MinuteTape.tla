----------------------------- MODULE MinuteTape -----------------------------
(***************************************************************************)
(* What the whole ingestion path promises to the detectors and to a later  *)
(* replay: a tape of consecutive minutes.  It grows by the next minute,    *)
(* never by a later one, and what has been saved of it is a prefix.  A     *)
(* restart takes the tape back to what was saved, and no further.          *)
(***************************************************************************)
EXTENDS Integers

VARIABLES live,  \* minutes the engine has been fed
          saved  \* minutes a new process would read back

Consecutive(s) == \A a, b \in s : \A m \in a..b : m \in s

Prefix(s, t) == s \subseteq t /\ \A a \in s, b \in t : b < a => b \in s

Init == Consecutive(saved) /\ live = saved

(* More of tape t is saved, or nothing more. *)
Save(t) == saved \subseteq saved' /\ Prefix(saved', t)

(* The next minute, saved at once or not. *)
Extend(m) ==
  /\ m \notin live /\ (live # {} => m - 1 \in live)
  /\ live' = live \cup {m}
  /\ Save(live')

Persist == live' = live /\ Save(live)

(* A restart, with a last save before it or without. *)
Rewind == Save(live) /\ live' = saved'

Next == (\E m \in live' : Extend(m)) \/ Persist \/ Rewind

Spec == Init /\ [][Next]_<<live, saved>>
=============================================================================
