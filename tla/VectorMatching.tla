----------------------------- MODULE VectorMatching -----------------------------
(***************************************************************************)
(* Vectors of the evaluator (promql/engine.ts), how binary operators match *)
(* the series of two of them, and the set operators.                       *)
(*                                                                         *)
(* A vector is a sequence of series [labels, values] with one value per    *)
(* step; NaN marks a step without one.                                     *)
(***************************************************************************)
EXTENDS PromqlAst, Ranks, Sequences, Functions

Vector(series) == [kind |-> "vector", series |-> series]

IsPresent(series) == \E n \in DOMAIN series.values : series.values[n] # NaN

(* the series of a vector that have a value *)
Kept(vector) == ElementsAt(vector, {i \in DOMAIN vector : IsPresent(vector[i])})

(* Mutant of MatchSignature: the metric name takes part *)
MatchSignatureAndName(matching, labels) ==
  IF matching.on THEN Restrict(labels, DOMAIN labels \cap matching.labels)
  ELSE Restrict(labels, DOMAIN labels \ matching.labels)

MatchSignature(matching, labels) ==
  IF matching.on THEN Restrict(labels, DOMAIN labels \cap matching.labels)
  ELSE Restrict(labels, DOMAIN labels \ ({NameLabel} \cup matching.labels))

(* the values of a vector at the steps where another vector has, or has    *)
(* not, a value of the same signature                                      *)
Filtered(matching, vector, against, wantPresent) ==
  LET sig(s) == MatchSignature(matching, s.labels)
      present(key, n) == \E i \in DOMAIN against :
        sig(against[i]) = key /\ n \in DOMAIN against[i].values /\ against[i].values[n] # NaN
      valueAt(s, n) == IF present(sig(s), n) = wantPresent THEN s.values[n] ELSE NaN
  IN Kept([i \in DOMAIN vector |->
       [labels |-> vector[i].labels,
        values |-> [n \in DOMAIN vector[i].values |-> valueAt(vector[i], n)]]])

EvalSetOp(expr, lhs, rhs) ==
  Vector(CASE expr.op = "and" -> Filtered(expr.matching, lhs, rhs, TRUE)
           [] expr.op = "unless" -> Filtered(expr.matching, lhs, rhs, FALSE)
           [] expr.op = "or" -> lhs \o Filtered(expr.matching, rhs, lhs, FALSE))

-----------------------------------------------------------------------------
(* What the set operators are for: the samples of a vector, one by one.    *)

Cells(vector) ==
  UNION {{[labels |-> vector[i].labels, step |-> n, value |-> vector[i].values[n]] :
           n \in {m \in DOMAIN vector[i].values : vector[i].values[m] # NaN}} : i \in DOMAIN vector}

(* the labels two samples are matched by *)
Shared(matching, labels) ==
  {<<name, labels[name]>> : name \in
     IF matching.on THEN matching.labels \cap DOMAIN labels
     ELSE DOMAIN labels \ (matching.labels \cup {NameLabel})}

Meets(matching, cell, others) ==
  \E other \in others :
    other.step = cell.step /\ Shared(matching, other.labels) = Shared(matching, cell.labels)

BySample(expr, left, right) ==
  CASE expr.op = "and" -> {c \in left : Meets(expr.matching, c, right)}
    [] expr.op = "unless" -> {c \in left : ~Meets(expr.matching, c, right)}
    [] expr.op = "or" -> left \cup {d \in right : ~Meets(expr.matching, d, left)}

=================================================================================
