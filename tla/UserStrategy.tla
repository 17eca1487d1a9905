---------------------------- MODULE UserStrategy ----------------------------
(***************************************************************************)
(* The strategies the user brings: a rule written in the editor            *)
(* (validation/expr.py) and a file of positions (validation/csv_import.py).*)
(***************************************************************************)
EXTENDS HypSeries

(***************************************************************************)
(* A rule is its expressions in the order the interpreter evaluates them,  *)
(* the whole rule last; each names its operands by their places before it: *)
(* <<"series", c>> a column, <<"number", k>>, <<"minus", a, b>>,           *)
(* <<"shift", a, n>>, <<"gt", a, b>>, <<"ne", a, b>>,                      *)
(* <<"crosses_above", a, b>>, <<"and", a, b>>, <<"or", a, b>> and          *)
(* <<"not", a>>.  << >> is an empty rule.  An expression is a whole series,*)
(* worked out bar by bar; a comparison yields 0 or 1.  The indicators the  *)
(* editor offers are columns.                                              *)
(***************************************************************************)
Truth(v) == v # NaN /\ v # 0
Bit(p) == IF p THEN 1 ELSE 0

(* shift() refuses to bring the future.                                    *)
ShiftAllowed(n) == n >= 0
Allowed(e) == \A n \in DOMAIN e : e[n][1] = "shift" => ShiftAllowed(e[n][3])

(* _Interpreter.visit: expression n of e, val being the ones before it, at *)
(* bar i; and all along.                                                   *)
VisitAt(s, e, val, n, i) ==
    LET a == val[e[n][2]]
        b == val[e[n][3]]
        was(x) == IF i > 1 THEN x[i - 1] ELSE NaN
    IN  CASE e[n][1] = "series" -> s[i][e[n][2]]
          [] e[n][1] = "number" -> e[n][2]
          [] e[n][1] = "minus" -> IF Defined(a[i]) /\ Defined(b[i]) THEN a[i] - b[i] ELSE NaN
          [] e[n][1] = "shift" -> IF i - e[n][3] \in DOMAIN s THEN a[i - e[n][3]] ELSE NaN
          [] e[n][1] = "gt" -> Bit(Gt(a[i], b[i]))
          [] e[n][1] = "ne" -> Bit(~Defined(a[i]) \/ ~Defined(b[i]) \/ a[i] # b[i])
          [] e[n][1] = "crosses_above" -> Bit(Gt(a[i], b[i]) /\ Le(was(a), was(b)))
          [] e[n][1] = "and" -> Bit(Truth(a[i]) /\ Truth(b[i]))
          [] e[n][1] = "or" -> Bit(Truth(a[i]) \/ Truth(b[i]))
          [] e[n][1] = "not" -> Bit(~Truth(a[i]))
Visit(s, e, val, n) == [i \in DOMAIN s |-> VisitAt(s, e, val, n, i)]
Eval(s, e) ==
    LET val[n \in DOMAIN e] == Visit(s, e, val, n)
    IN  IF Len(e) = 0 THEN Flat(s) ELSE val[Len(e)]

(* evaluate_rule: a bar on which both sides hold is flat.  A rule that is  *)
(* refused gives no signal at all.                                         *)
RuleSignals(s, rule) ==
    IF Allowed(rule.long) /\ Allowed(rule.short)
    THEN LET long == Eval(s, rule.long)
             short == Eval(s, rule.short)
         IN  Events(s, LAMBDA i : Truth(long[i]), LAMBDA i : Truth(short[i]))
    ELSE Flat(s)

(* Mutant: a position is held only on the bars the file lists. *)
AlignListedOnly(s) == [i \in DOMAIN s |-> IF Defined(s[i][2]) THEN s[i][2] ELSE 0]

(***************************************************************************)
(* A file of positions, read against the bars: column 2 is the last of the *)
(* file's rows that fall in the bar's interval, column 3 the last one that *)
(* falls before it where there is no bar; NaN when there is none.          *)
(* align_to_bars: the rows are taken to the grid, the ones that hit no bar *)
(* disappear in the reindexing, and the rest are carried forward.          *)
(***************************************************************************)
AlignToBars(s) ==
    [i \in DOMAIN s |-> LET last == LastWhere(LAMBDA j : Defined(s[j][2]), i)
                        IN  IF last = 0 THEN 0 ELSE s[last][2]]

(* What the file says: the last row at or before the end of the bar.       *)
Intended(s, i) ==
    LET last == LastWhere(LAMBDA j : Defined(s[j][2]) \/ Defined(s[j][3]), i)
    IN  IF last = 0 THEN 0 ELSE IF Defined(s[last][2]) THEN s[last][2] ELSE s[last][3]

=============================================================================
