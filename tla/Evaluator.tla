------------------------------- MODULE Evaluator -------------------------------
(***************************************************************************)
(* The evaluator of the PromQL engine (promql/engine.ts): what a question  *)
(* is answered over the data Prefetch has fetched for it.                  *)
(*                                                                         *)
(* A value is a vector, one number per step, a string or an error.         *)
(* Numbers are exact fractions <<n, d>> in lowest terms; <<1, 0>>,         *)
(* <<-1, 0>> and <<0, 0>> are the infinities and NaN.  Rounding, the sign  *)
(* of zero and the functions without a fraction for a value (sqrt, exp,    *)
(* the logarithms, stddev, powers with broken exponents) are left out, and *)
(* so are the order of result rows and number formats.                     *)
(***************************************************************************)
EXTENDS Prefetch, VectorMatching, FiniteSets, SequencesExt

CONSTANTS
  PartsOf(_),  \* an expression with all inside it
  Second,      \* a second, in the parts times are counted in
  BoundOf      \* the number each value of the label "le" stands for

(* the expressions an expression is evaluated from *)
Operands(expr) ==
  CASE expr.kind = "call" -> Members(expr.args)
    [] expr.kind = "agg" -> {expr.expr, expr.param}
    [] expr.kind = "binary" -> {expr.lhs, expr.rhs}
    [] expr.kind = "unary" -> {expr.expr}
    [] OTHER -> {}

(* What the parser returns is a finite tree, and collectSelectors finds    *)
(* every selector in it.                                                   *)
ASSUME ExpressionTrees ==
  \A q \in Questions :
    q.expr # Wrong =>
      /\ q.expr \in PartsOf(q.expr)
      /\ \A expr \in PartsOf(q.expr) :
           /\ expr \in PartsOf(expr) /\ IsFiniteSet(PartsOf(expr))
           /\ expr.kind = "selector" => expr \in Members(SelectorsOf(q.expr))
           /\ expr.kind = "call" => IsSequence(expr.args)
           /\ \A operand \in Operands(expr) :
                /\ operand \in PartsOf(q.expr)
                /\ PartsOf(operand) \subseteq PartsOf(expr) \ {expr}

ASSUME SecondsPass == Second \in Nat \ {0}

-----------------------------------------------------------------------------
(* Numbers *)

Gcd(m, n) ==
  LET gcd[pair \in Nat \X Nat] ==
        IF pair[2] = 0 THEN pair[1] ELSE gcd[<<pair[2], pair[1] % pair[2]>>]
  IN gcd[<<m, n>>]

Magnitude(n) == IF n < 0 THEN -n ELSE n
SignOf(n) == IF n = 0 THEN 0 ELSE IF n < 0 THEN -1 ELSE 1

Reduced(n, d, g) == <<n \div g, d \div g>>
Ratio(n, d) ==
  IF d = 0 THEN <<SignOf(n), 0>>
  ELSE Reduced(SignOf(d) * n, Magnitude(d), Gcd(Magnitude(n), Magnitude(d)))

Num(n) == <<n, 1>>
InSeconds(time) == Ratio(time, Second)
NegInf == <<-1, 0>>

Negated(a) == <<-a[1], a[2]>>
Plus(a, b) ==
  IF a[2] = 0 /\ b[2] = 0 THEN IF a = b THEN a ELSE NaN
  ELSE Ratio(a[1] * b[2] + b[1] * a[2], a[2] * b[2])
Minus(a, b) == Plus(a, Negated(b))
Times(a, b) == Ratio(a[1] * b[1], a[2] * b[2])
Over(a, b) == Times(a, Ratio(b[2], b[1]))

Same(a, b) == a = b /\ a # NaN
Less(a, b) ==
  /\ a # NaN /\ b # NaN
  /\ IF a[2] = 0 /\ b[2] = 0 THEN a[1] < b[1] ELSE a[1] * b[2] < b[1] * a[2]
AtMost(a, b) == Less(a, b) \/ Same(a, b)
Lesser(a, b) == IF a = NaN \/ b = NaN THEN NaN ELSE IF Less(b, a) THEN b ELSE a
Greater(a, b) == IF a = NaN \/ b = NaN THEN NaN ELSE IF Less(a, b) THEN b ELSE a

Floor(a) == IF a[2] = 0 THEN a ELSE Num(a[1] \div a[2])
Ceiling(a) == Negated(Floor(Negated(a)))
Truncated(a) == IF a[1] < 0 THEN Ceiling(a) ELSE Floor(a)
Rounded(a) == Floor(Plus(a, <<1, 2>>))
Remainder(a, b) ==
  IF a[2] = 0 \/ b[1] = 0 THEN NaN
  ELSE IF b[2] = 0 THEN a ELSE Minus(a, Times(b, Truncated(Over(a, b))))
Power(a, b) ==
  LET raised[i \in Nat] == IF i = 0 THEN Num(1) ELSE Times(raised[i - 1], a)
  IN IF b[1] < 0 THEN Over(Num(1), raised[-b[1]]) ELSE raised[b[1]]

(* Op over all values, from the left *)
Gathered(Op(_, _), start, values) ==
  LET upTo[i \in 0..Len(values)] == IF i = 0 THEN start ELSE Op(upTo[i - 1], values[i])
  IN upTo[Len(values)]

SumOf(values) == Gathered(Plus, Num(0), values)
LeastOf(values) == Gathered(Lesser, Inf, values)
GreatestOf(values) == Gathered(Greater, NegInf, values)
MeanOf(values) == Over(SumOf(values), Num(Len(values)))
Squared(a) == Times(a, a)
SquaresFrom(mean, values) == [i \in DOMAIN values |-> Squared(Minus(values[i], mean))]
VarianceOf(values) == MeanOf(SquaresFrom(MeanOf(values), values))

(* quantile(): the phi-quantile of unordered values *)
Weighted(lower, upper, weight) ==
  Plus(Times(lower, Minus(Num(1), weight)), Times(upper, weight))

AtPosition(rank, sorted) ==
  Weighted(sorted[Floor(rank)[1] + 1], sorted[Ceiling(rank)[1] + 1], Minus(rank, Floor(rank)))

Quantile(phi, values) ==
  IF values = <<>> \/ phi = NaN THEN NaN
  ELSE IF Less(phi, Num(0)) THEN NegInf
  ELSE IF Less(Num(1), phi) THEN Inf
  ELSE AtPosition(Times(phi, Num(Len(values) - 1)), SortSeq(values, Less))

-----------------------------------------------------------------------------
(* Evaluation values *)

WithoutName(labels) == Restrict(labels, DOMAIN labels \ {NameLabel})

Scalar(values) == [kind |-> "scalar", values |-> values]
Thrown == [kind |-> "error"]

(* a function of the values alone drops the metric name *)
MapValues(vector, Op(_, _)) ==
  Vector([i \in DOMAIN vector |->
    [labels |-> WithoutName(vector[i].labels),
     values |-> [n \in DOMAIN vector[i].values |->
                   IF vector[i].values[n] = NaN THEN NaN ELSE Op(vector[i].values[n], n)]]])

(* the values a vector has at one step *)
ValuesAt(vector, n) ==
  LET present == SelectSeq(vector, LAMBDA s : s.values[n] # NaN)
  IN [i \in DOMAIN present |-> present[i].values[n]]

-----------------------------------------------------------------------------
(* Selectors *)

EvalInstantSelector(selector, raw, times) ==
  Vector(Kept([i \in DOMAIN raw |->
    [labels |-> raw[i].labels, values |-> LatestOf(selector, raw[i].points, times)]]))

(* evalRangeFunc: Fn(window, its start, its end, the step) *)
EvalRangeFunc(selector, raw, times, Fn(_, _, _, _)) ==
  LET values(points) ==
        LET windows == WindowsOf(selector, points, times)
        IN [n \in DOMAIN times |->
              Fn(windows[n], WindowStart(selector, times[n]), WindowEnd(selector, times[n]), n)]
  IN Vector(Kept([i \in DOMAIN raw |->
       [labels |-> WithoutName(raw[i].labels), values |-> values(raw[i].points)]]))

-----------------------------------------------------------------------------
(* Range functions *)

WindowValues(window) == [i \in DOMAIN window |-> window[i].v]

(* Mutant of LostInResets: a reset counts as a fall *)
LostInNoReset(window) == Num(0)

(* what a counter lost in its resets *)
LostInResets(window) ==
  SumOf([i \in 1..Len(window) - 1 |->
           IF Less(window[i + 1].v, window[i].v) THEN window[i].v ELSE Num(0)])

(* how far the slope goes on past the sample next to an edge of the window *)
Extended(gap, average) ==
  IF Less(gap, Times(average, <<11, 10>>)) THEN gap ELSE Over(average, Num(2))

(* a counter is not extrapolated to before it was zero *)
GapToStart(first, from, result, sampled, isCounter) ==
  LET gap == InSeconds(first.t - from)
      capped == isCounter /\ Less(Num(0), result) /\ AtMost(Num(0), first.v)
  IN IF capped THEN Lesser(gap, Times(sampled, Over(first.v, result))) ELSE gap

Extrapolated(result, sampled, average, toStart, toEnd) ==
  LET covered == Plus(sampled, Plus(Extended(toStart, average), Extended(toEnd, average)))
  IN Times(result, Over(covered, sampled))

ChangeOf(window, isCounter) ==
  LET change == Minus(Last(window).v, Head(window).v)
  IN IF isCounter THEN Plus(change, LostInResets(window)) ELSE change

IncreaseOf(window, from, to, result, isCounter) ==
  LET sampled == InSeconds(Last(window).t - Head(window).t)
  IN Extrapolated(result, sampled, Over(sampled, Num(Len(window) - 1)),
       GapToStart(Head(window), from, result, sampled, isCounter), InSeconds(to - Last(window).t))

ExtrapolatedRate(window, from, to, isCounter, isRate) ==
  LET increase == IncreaseOf(window, from, to, ChangeOf(window, isCounter), isCounter)
  IN IF Len(window) < 2 THEN NaN
     ELSE IF isRate THEN Over(increase, InSeconds(to - from)) ELSE increase

InstantDelta(window, isRate) ==
  LET last == Last(window)
      prev == window[Len(window) - 1]
      change == Minus(last.v, prev.v)
      delta == IF Less(change, Num(0)) THEN last.v ELSE change
  IN IF Len(window) < 2 THEN NaN
     ELSE IF isRate THEN Over(delta, InSeconds(last.t - prev.t)) ELSE change

ExtrapolatingFuncs == {"rate", "increase", "delta"}
InstantDeltaFuncs == {"irate", "idelta"}
OverTimeFuncs == {"sum_over_time", "avg_over_time", "min_over_time", "max_over_time",
  "count_over_time", "last_over_time", "present_over_time", "stdvar_over_time", "changes", "resets"}
RangeFuncs == ExtrapolatingFuncs \cup InstantDeltaFuncs \cup OverTimeFuncs

OverTime(func, values) ==
  LET Count(Test(_, _)) == Num(Cardinality({i \in 2..Len(values) : Test(values[i - 1], values[i])}))
  IN CASE func = "sum_over_time" -> SumOf(values)
       [] func = "avg_over_time" -> MeanOf(values)
       [] func = "min_over_time" -> LeastOf(values)
       [] func = "max_over_time" -> GreatestOf(values)
       [] func = "count_over_time" -> Num(Len(values))
       [] func = "last_over_time" -> Last(values)
       [] func = "present_over_time" -> Num(1)
       [] func = "stdvar_over_time" -> VarianceOf(values)
       [] func = "changes" -> Count(LAMBDA a, b : a # b)
       [] func = "resets" -> Count(LAMBDA a, b : Less(b, a))

RangeFunc(func, window, from, to) ==
  IF func \in ExtrapolatingFuncs
  THEN ExtrapolatedRate(window, from, to, func # "delta", func = "rate")
  ELSE IF func \in InstantDeltaFuncs THEN InstantDelta(window, func = "irate")
  ELSE IF window = <<>> THEN NaN ELSE OverTime(func, WindowValues(window))

-----------------------------------------------------------------------------
(* Calls.  args are the evaluated arguments; one that is a range selector  *)
(* evaluates to an error, which only range functions do not look at.       *)

MathFuncs == {"abs", "ceil", "floor", "sgn"}
MathOf(func, v) ==
  CASE func = "abs" -> <<Magnitude(v[1]), v[2]>>
    [] func = "ceil" -> Ceiling(v)
    [] func = "floor" -> Floor(v)
    [] func = "sgn" -> Num(SignOf(v[1]))

ScalarOf(vector, times) ==
  Scalar([n \in DOMAIN times |->
    LET found == ValuesAt(vector, n) IN IF Len(found) = 1 THEN found[1] ELSE NaN])

Clamped(func, v, first, second) ==
  CASE func = "clamp" -> Lesser(Greater(v, first), second)
    [] func = "clamp_min" -> Greater(v, first)
    [] func = "clamp_max" -> Lesser(v, first)

(* absent() takes the labels of the equality matchers of a plain selector *)
AbsentLabels(expr) ==
  LET equal == IF expr.kind # "selector" THEN {}
               ELSE {m \in expr.matchers : m.op = "=" /\ m.name # NameLabel}
  IN [name \in {m.name : m \in equal} |->
        CHOOSE v \in UNION {m.values : m \in equal} :
          \E m \in equal : m.name = name /\ v \in m.values]

AbsentOf(expr, vector, times) ==
  Vector(Kept(<<[labels |-> AbsentLabels(expr),
                 values |-> [n \in DOMAIN times |->
                               IF ValuesAt(vector, n) = <<>> THEN Num(1) ELSE NaN]]>>))

(* bucketQuantile over [le, count] in the order of le: the counts are made *)
(* to rise, and the rank is interpolated inside the bucket that reaches it *)
RisingCounts(buckets) ==
  [b \in DOMAIN buckets |-> GreatestOf(<<Num(0)>> \o [i \in 1..b |-> buckets[i].count])]

InBucket(b, rank, buckets, counts) ==
  LET upper == buckets[b].le
      lower == IF b = 1 THEN Lesser(Num(0), upper) ELSE buckets[b - 1].le
      below == IF b = 1 THEN Num(0) ELSE counts[b - 1]
      inside == Minus(counts[b], below)
  IN IF AtMost(inside, Num(0)) THEN upper
     ELSE Plus(lower, Times(Minus(upper, lower), Over(Minus(rank, below), inside)))

AtRank(rank, buckets, counts) ==
  LET finite == Len(buckets) - 1
      reached == SelectInSeq(SubSeq(counts, 1, finite), LAMBDA c : ~Less(c, rank))
  IN IF Last(counts) = Num(0) THEN NaN
     ELSE IF reached = 0 THEN buckets[finite].le
     ELSE InBucket(reached, rank, buckets, counts)

RankOf(phi, buckets, counts) == AtRank(Times(phi, Last(counts)), buckets, counts)

BucketQuantile(phi, buckets) ==
  IF phi = NaN \/ Len(buckets) < 2 THEN NaN
  ELSE IF Last(buckets).le # Inf THEN NaN
  ELSE IF Less(phi, Num(0)) THEN NegInf
  ELSE IF Less(Num(1), phi) THEN Inf
  ELSE RankOf(phi, buckets, RisingCounts(buckets))

HistogramQuantile(phis, vector, times) ==
  LET bound(s) == BoundOf[s.labels["le"]]
      IsUsable(s) == "le" \in DOMAIN s.labels /\ bound(s) # NaN
      usable == ElementsAt(vector, {i \in DOMAIN vector : IsUsable(vector[i])})
      group(s) == Restrict(s.labels, DOMAIN s.labels \ {"le", NameLabel})
      groups == Distinct([i \in DOMAIN usable |-> group(usable[i])])
      counts(key, n) ==
        LET members == SelectSeq(usable, LAMBDA s : group(s) = key /\ s.values[n] # NaN)
        IN SortSeq([i \in DOMAIN members |-> [le |-> bound(members[i]), count |-> members[i].values[n]]],
                   LAMBDA a, b : Less(a.le, b.le))
  IN Vector(Kept([g \in DOMAIN groups |->
       [labels |-> groups[g],
        values |-> [n \in DOMAIN times |-> BucketQuantile(phis[n], counts(groups[g], n))]]]))

OrThrow(allowed, value) == IF allowed THEN value ELSE Thrown
TakesScalars(args, from) == \A i \in from..Len(args) : args[i].kind = "scalar"
TakesVector(args, count) == Len(args) = count /\ args[1].kind = "vector"

RangeCall(func, exprs, data, times) ==
  OrThrow(Len(exprs) = 1 /\ IsBareRange(exprs[1]),
    EvalRangeFunc(exprs[1], data[RequestOf(exprs[1], times)], times,
      LAMBDA window, from, to, n : RangeFunc(func, window, from, to)))

QuantileOverTime(exprs, args, data, times) ==
  OrThrow(Len(exprs) = 2 /\ args[1].kind = "scalar" /\ IsBareRange(exprs[2]),
    EvalRangeFunc(exprs[2], data[RequestOf(exprs[2], times)], times,
      LAMBDA window, from, to, n : Quantile(args[1].values[n], WindowValues(window))))

MathCall(func, args) ==
  OrThrow(TakesVector(args, 1), MapValues(args[1].series, LAMBDA v, n : MathOf(func, v)))

RoundCall(args) ==
  LET nearest(n) == IF Len(args) = 2 THEN args[2].values[n] ELSE Num(1)
  IN OrThrow((TakesVector(args, 1) \/ TakesVector(args, 2)) /\ TakesScalars(args, 2),
       MapValues(args[1].series, LAMBDA v, n : Times(Rounded(Over(v, nearest(n))), nearest(n))))

ClampCall(func, args) ==
  OrThrow(TakesVector(args, IF func = "clamp" THEN 3 ELSE 2) /\ TakesScalars(args, 2),
    MapValues(args[1].series,
      LAMBDA v, n : Clamped(func, v, args[2].values[n], Last(args).values[n])))

EvalCall(func, exprs, args, data, times) ==
  CASE func \in RangeFuncs -> RangeCall(func, exprs, data, times)
    [] func = "quantile_over_time" -> QuantileOverTime(exprs, args, data, times)
    [] func \in MathFuncs -> MathCall(func, args)
    [] func = "round" -> RoundCall(args)
    [] func \in {"clamp", "clamp_min", "clamp_max"} -> ClampCall(func, args)
    [] func = "histogram_quantile" ->
         OrThrow(Len(args) = 2 /\ args[1].kind = "scalar" /\ args[2].kind = "vector",
           HistogramQuantile(args[1].values, args[2].series, times))
    [] func = "scalar" -> OrThrow(TakesVector(args, 1), ScalarOf(args[1].series, times))
    [] func = "vector" ->
         OrThrow(Len(args) = 1 /\ TakesScalars(args, 1),
           Vector(<<[labels |-> <<>>, values |-> args[1].values]>>))
    [] func = "time" -> OrThrow(Len(args) = 0, Scalar([n \in DOMAIN times |-> InSeconds(times[n])]))
    [] func = "absent" -> OrThrow(TakesVector(args, 1), AbsentOf(exprs[1], args[1].series, times))
    [] func \in {"sort", "sort_desc"} -> OrThrow(TakesVector(args, 1), args[1])
    [] OTHER -> Thrown

-----------------------------------------------------------------------------
(* Aggregations *)

GroupLabels(agg, labels) ==
  IF agg.without THEN Restrict(labels, DOMAIN labels \ ({NameLabel} \cup agg.grouping))
  ELSE Restrict(labels, DOMAIN labels \cap agg.grouping)

(* topk and bottomk keep the series that fewer than k others come before; *)
(* the sort is stable, so of equal values the earlier series comes first   *)
TopK(agg, vector, ks) ==
  LET comesBefore(i, j, n) ==
        LET a == vector[i].values[n] b == vector[j].values[n]
        IN \/ IF agg.op = "topk" THEN Less(b, a) ELSE Less(a, b)
           \/ a = b /\ i < j
      rivals(j, n) == {i \in DOMAIN vector :
        /\ vector[i].values[n] # NaN
        /\ GroupLabels(agg, vector[i].labels) = GroupLabels(agg, vector[j].labels)
        /\ comesBefore(i, j, n)}
      keeps(j, n) == vector[j].values[n] # NaN /\ Less(Num(Cardinality(rivals(j, n))), Truncated(ks[n]))
  IN Vector(Kept([j \in DOMAIN vector |->
       [labels |-> vector[j].labels,
        values |-> [n \in DOMAIN vector[j].values |->
                      IF keeps(j, n) THEN vector[j].values[n] ELSE NaN]]]))

Aggregate(op, values, phi) ==
  CASE op = "sum" -> SumOf(values)
    [] op = "avg" -> MeanOf(values)
    [] op = "min" -> LeastOf(values)
    [] op = "max" -> GreatestOf(values)
    [] op = "count" -> Num(Len(values))
    [] op = "stdvar" -> VarianceOf(values)
    [] op = "quantile" -> Quantile(phi, values)

Grouped(agg, vector, param, times) ==
  LET groups == Distinct([i \in DOMAIN vector |-> GroupLabels(agg, vector[i].labels)])
      members(g) == SelectSeq(vector, LAMBDA s : GroupLabels(agg, s.labels) = groups[g])
      valueAt(g, n) ==
        LET values == ValuesAt(members(g), n)
        IN IF values = <<>> THEN NaN
           ELSE Aggregate(agg.op, values, IF agg.op = "quantile" THEN param.values[n] ELSE NaN)
  IN Vector(Kept([g \in DOMAIN groups |->
       [labels |-> groups[g], values |-> [n \in DOMAIN times |-> valueAt(g, n)]]]))

EvalAggregation(agg, input, param, times) ==
  LET vector == input.series
      needsParam == agg.op \in {"topk", "bottomk"} \/ (agg.op = "quantile" /\ Kept(vector) # <<>>)
      given == agg.param.kind # "none"
  IN IF input.kind # "vector" THEN Thrown
     ELSE IF (given /\ param.kind # "scalar") \/ (needsParam /\ ~given) THEN Thrown
     ELSE IF agg.op \in {"topk", "bottomk"} THEN TopK(agg, vector, param.values)
     ELSE Grouped(agg, vector, param, times)

-----------------------------------------------------------------------------
(* Binary operations *)

Compares(op, a, b) ==
  CASE op = "==" -> Same(a, b)
    [] op = "!=" -> ~Same(a, b)
    [] op = ">" -> Less(b, a)
    [] op = "<" -> Less(a, b)
    [] op = ">=" -> AtMost(b, a)
    [] op = "<=" -> AtMost(a, b)

Arithmetic(op, a, b) ==
  CASE op = "+" -> Plus(a, b)
    [] op = "-" -> Minus(a, b)
    [] op = "*" -> Times(a, b)
    [] op = "/" -> Over(a, b)
    [] op = "%" -> Remainder(a, b)
    [] op = "^" -> Power(a, b)

(* the value of one step; a comparison without bool keeps the vector's own *)
Combined(expr, a, b, own) ==
  IF expr.op \notin Comparisons THEN Arithmetic(expr.op, a, b)
  ELSE IF expr.bool THEN IF Compares(expr.op, a, b) THEN Num(1) ELSE Num(0)
  ELSE IF Compares(expr.op, a, b) THEN own ELSE NaN

ResultLabels(expr, labels) ==
  IF expr.op \in Comparisons /\ ~expr.bool THEN labels ELSE WithoutName(labels)

(* The result of an operation on a vector, given for each series the steps *)
(* that have a value, and that value.  "any" is set by every one of them   *)
(* but those a comparison filters out.                                     *)
Computed(expr, vector, values) ==
  LET filters == expr.op \in Comparisons /\ ~expr.bool
      any(i) == \E n \in DOMAIN values[i] : filters => values[i][n] # NaN
      valueAt(i, n) == IF n \in DOMAIN values[i] THEN values[i][n] ELSE NaN
      kept == InOrder({i \in DOMAIN vector : any(i)})
  IN Vector([k \in DOMAIN kept |->
       [labels |-> ResultLabels(expr, vector[kept[k]].labels),
        values |-> [n \in DOMAIN vector[kept[k]].values |-> valueAt(kept[k], n)]]])

StepsWith(series) == {n \in DOMAIN series.values : series.values[n] # NaN}

VectorScalarOp(expr, vector, scalar, scalarIsLhs) ==
  LET combined(v, n) == IF scalarIsLhs THEN Combined(expr, scalar[n], v, v)
                        ELSE Combined(expr, v, scalar[n], v)
  IN Computed(expr, vector,
       [i \in DOMAIN vector |-> [n \in StepsWith(vector[i]) |-> combined(vector[i].values[n], n)]])

VectorVectorOp(expr, lhs, rhs) ==
  LET sigs(vector) == [i \in DOMAIN vector |-> MatchSignature(expr.matching, vector[i].labels)]
      other(i) == SelectInSeq(sigs(rhs), LAMBDA key : key = sigs(lhs)[i])
      both(i) == IF other(i) = 0 THEN {} ELSE StepsWith(lhs[i]) \cap StepsWith(rhs[other(i)])
      combined(i, n) == Combined(expr, lhs[i].values[n], rhs[other(i)].values[n], lhs[i].values[n])
  IN IF ~IsInjective(sigs(lhs)) \/ ~IsInjective(sigs(rhs)) THEN Thrown
     ELSE Computed(expr, lhs, [i \in DOMAIN lhs |-> [n \in both(i) |-> combined(i, n)]])

EvalBinary(expr, lhs, rhs) ==
  LET kinds == <<lhs.kind, rhs.kind>>
      isComparison == expr.op \in Comparisons
  IN CASE kinds = <<"vector", "vector">> ->
            IF expr.op \in SetOperators THEN EvalSetOp(expr, lhs.series, rhs.series)
            ELSE VectorVectorOp(expr, lhs.series, rhs.series)
       [] kinds = <<"scalar", "scalar">> ->
            IF expr.op \in SetOperators \/ (isComparison /\ ~expr.bool) THEN Thrown
            ELSE Scalar([n \in DOMAIN lhs.values |->
                   Combined(expr, lhs.values[n], rhs.values[n], NaN)])
       [] kinds = <<"vector", "scalar">> ->
            IF expr.op \in SetOperators THEN Thrown
            ELSE VectorScalarOp(expr, lhs.series, rhs.values, FALSE)
       [] kinds = <<"scalar", "vector">> ->
            IF expr.op \in SetOperators THEN Thrown
            ELSE VectorScalarOp(expr, rhs.series, lhs.values, TRUE)
       [] OTHER -> Thrown

EvalUnary(op, value) ==
  CASE op = "+" \/ value.kind = "error" -> value
    [] op = "-" /\ value.kind = "scalar" ->
         Scalar([n \in DOMAIN value.values |-> Negated(value.values[n])])
    [] op = "-" /\ value.kind = "vector" -> MapValues(value.series, LAMBDA v, n : Negated(v))
    [] OTHER -> Thrown

(* Evaluator.eval: the value of an expression, given those of its parts *)
ValueOf(expr, value, data, times) ==
  CASE expr.kind = "number" -> Scalar([n \in DOMAIN times |-> expr.number])
    [] expr.kind = "string" -> [kind |-> "string"]
    [] expr.kind = "selector" ->
         IF expr.range # NoRange THEN Thrown
         ELSE EvalInstantSelector(expr, data[RequestOf(expr, times)], times)
    [] expr.kind = "call" ->
         EvalCall(expr.func, expr.args, [i \in DOMAIN expr.args |-> value[expr.args[i]]], data, times)
    [] expr.kind = "agg" -> EvalAggregation(expr, value[expr.expr], value[expr.param], times)
    [] expr.kind = "binary" -> EvalBinary(expr, value[expr.lhs], value[expr.rhs])
    [] expr.kind = "unary" -> EvalUnary(expr.op, value[expr.expr])
    [] OTHER -> Thrown

Values(root, data, times) ==
  LET value[expr \in PartsOf(root)] == ValueOf(expr, value, data, times) IN value

Eval(expr, data, times) == Values(expr, data, times)[expr]

-----------------------------------------------------------------------------
(* The answers to the engine's two questions; a bare range selector is     *)
(* answered with the raw samples.                                          *)

RowOf(series, times) ==
  LET steps == SelectSeq([n \in DOMAIN times |-> n], LAMBDA n : series.values[n] # NaN)
  IN [metric |-> series.labels,
      values |-> [k \in DOMAIN steps |-> <<times[steps[k]], series.values[steps[k]]>>]]

RowsOf(vector, times) ==
  LET kept == Kept(vector) IN [i \in DOMAIN kept |-> RowOf(kept[i], times)]

(* the samples of a bare range selector, in (end - range, end] *)
RawAnswer(q, data) ==
  LET request == Requests(q)[1]
      after(points) == SelectSeq(points, LAMBDA p : p.t > request.start)
      raw == SelectSeq(data[request], LAMBDA s : after(s.points) # <<>>)
      row(s) == [metric |-> s.labels,
                 values |-> [i \in DOMAIN after(s.points) |-> <<after(s.points)[i].t, after(s.points)[i].v>>]]
  IN Answer("matrix", [i \in DOMAIN raw |-> row(raw[i])])

ScalarRows(values, times) ==
  <<[metric |-> <<>>, values |-> [n \in DOMAIN times |-> <<times[n], values[n]>>]]>>

InstantResult(value, times) ==
  CASE value.kind = "error" -> ErrorAnswer
    [] value.kind = "string" -> Answer("string", <<>>)
    [] value.kind = "scalar" -> Answer("scalar", ScalarRows(value.values, times))
    [] value.kind = "vector" -> Answer("vector", RowsOf(value.series, times))

InstantAnswer(q, data) ==
  IF IsBareRange(q.expr) THEN RawAnswer(q, data)
  ELSE InstantResult(Eval(q.expr, data, TimesOf(q)), TimesOf(q))

RangeResult(value, times) ==
  CASE value.kind \in {"error", "string"} -> ErrorAnswer
    [] value.kind = "scalar" -> Answer("matrix", ScalarRows(value.values, times))
    [] value.kind = "vector" -> Answer("matrix", RowsOf(value.series, times))

RangeAnswer(q, data) == RangeResult(Eval(q.expr, data, TimesOf(q)), TimesOf(q))

AnswerTo(q, data) ==
  IF IsInstant(q) THEN InstantAnswer(q, data) ELSE RangeAnswer(q, data)

-----------------------------------------------------------------------------
(* Properties *)

RowsAt(rows, time) ==
  LET at(row) == SelectSeq(row.values, LAMBDA v : v[1] = time)
      here == SelectSeq(rows, LAMBDA row : at(row) # <<>>)
  IN [i \in DOMAIN here |-> [metric |-> here[i].metric, values |-> at(here[i])]]

SameAt(rows, alone, time) ==
  alone.type # "error" /\ ToBag(RowsAt(rows, time)) = ToBag(alone.rows)

(* A range query is the instant queries of its steps: evaluating all steps *)
(* at once, with pointers, groups and buckets shared between them, gives   *)
(* at each step what asking at that time would.  A range query may fail    *)
(* where instants do not (series that never meet still collide in a        *)
(* vector match), never the other way round.  Its steps are whole          *)
(* milliseconds apart, from any start.                                     *)
RangeIsInstants ==
  (asked # NotAsked /\ answer.type = "matrix" /\ ~IsInstant(asked) /\ WholeSteps(asked)) =>
    \A n \in DOMAIN Steps :
      LET instant == [asked EXCEPT !.kind = "instant", !.start = Steps[n], !.end = Steps[n]]
          data == [r \in Members(Requests(instant)) |-> Fetch(asOf, r)]
      IN SameAt(answer.rows, InstantAnswer(instant, data), Steps[n])

(* and, unless and or work sample by sample, on the labels they match by   *)
(* and never on the metric name: "and" and "unless" divide the left side,  *)
(* "or" adds what the left side lacks, at each step anew.                  *)
SetOperatorsWorkBySample ==
  (HasFetched /\ Expression.kind = "binary" /\ Expression.op \in SetOperators) =>
    LET value == Values(Expression, fetched, Steps)
        cells(e) == Cells(value[e].series)
    IN value[Expression].kind = "vector" =>
         cells(Expression) = BySample(Expression, cells(Expression.lhs), cells(Expression.rhs))

Phis == <<Num(0), <<1, 4>>, <<1, 2>>, <<9, 10>>, Num(1)>>
Rises(values) == \A i \in 2..Len(values) : AtMost(values[i - 1], values[i])

(* what a counter counted between two samples, resets included *)
CountedIn(window) ==
  SumOf([i \in 1..Len(window) - 1 |->
           IF Less(window[i + 1].v, window[i].v) THEN window[i + 1].v
           ELSE Minus(window[i + 1].v, window[i].v)])

(* An extrapolated increase is at least what the samples counted, at most  *)
(* that slope over the whole window, and never claims more before the      *)
(* first sample than that sample holds; quantiles rise with their rank     *)
(* and stay between the values they are taken from, or below the highest   *)
(* finite bucket.                                                          *)
IncreaseStaysInside(window, from, to) ==
  LET counted == CountedIn(window)
      increase == ExtrapolatedRate(window, from, to, TRUE, FALSE)
      slope == Over(counted, InSeconds(Last(window).t - Head(window).t))
  IN /\ AtMost(counted, increase)
     /\ AtMost(increase, Times(slope, InSeconds(to - from)))
     /\ AtMost(increase, Plus(Plus(Head(window).v, counted), Times(slope, InSeconds(to - Last(window).t))))

QuantilesStayInside(values) ==
  LET quantiles == [k \in DOMAIN Phis |-> Quantile(Phis[k], values)]
  IN Rises(<<LeastOf(values)>> \o quantiles \o <<GreatestOf(values)>>)

BucketQuantilesStayInside(buckets) ==
  LET quantiles == [k \in DOMAIN Phis |-> BucketQuantile(Phis[k], buckets)]
  IN Head(quantiles) # NaN => Rises(<<Num(0)>> \o quantiles \o <<buckets[Len(buckets) - 1].le>>)

BucketsAt(vector, n) ==
  LET present == SelectSeq(vector, LAMBDA s : s.values[n] # NaN)
  IN SortSeq([i \in DOMAIN present |->
                [le |-> BoundOf[present[i].labels["le"]], count |-> present[i].values[n]]],
             LAMBDA a, b : Less(a.le, b.le))

EstimatesStayInside ==
  HasFetched =>
    \A selector \in Members(SelectorsOf(Expression)) :
      LET data == fetched[RequestOf(selector, Steps)]
          vector == EvalInstantSelector(selector, data, Steps).series
          isHistogram == Len(data) > 1 /\ \A i \in DOMAIN data : "le" \in DOMAIN data[i].labels
      IN \A n \in DOMAIN Steps :
           /\ selector.range # NoRange =>
                \A i \in DOMAIN data :
                  LET window == WindowsOf(selector, data[i].points, Steps)[n]
                  IN /\ Len(window) > 1 =>
                          IncreaseStaysInside(window, WindowStart(selector, Steps[n]),
                                                      WindowEnd(selector, Steps[n]))
                     /\ window # <<>> => QuantilesStayInside(WindowValues(window))
           /\ (selector.range = NoRange /\ isHistogram) =>
                BucketQuantilesStayInside(BucketsAt(vector, n))

=================================================================================
