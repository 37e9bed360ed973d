------------------------------- MODULE MCQuery -------------------------------
(* Two counters x with a reset, one gauge y, and the buckets of one         *)
(* histogram h, over the milliseconds 0 to 8; asked instantly and at        *)
(* ranges, at times between the milliseconds too.  Other texts are only     *)
(* read.  A millisecond has two parts; a second is as long here, so that    *)
(* rates stay small numbers.                                                *)
EXTENDS Query

Ms(n) == n * Millisecond

MCSeries == <<
  [__name__ |-> "x", job |-> "a"], [__name__ |-> "x", job |-> "b"],
  [__name__ |-> "y", job |-> "a"], 
  [__name__ |-> "h", le |-> "1"], [__name__ |-> "h", le |-> "2"], [__name__ |-> "h", le |-> "+Inf"]>>

MCRecorded == <<
  (Ms(1) :> Num(1) @@ Ms(2) :> Num(4) @@ Ms(3) :> Num(2) @@ Ms(6) :> Num(5)),
  (Ms(2) :> Num(3) @@ Ms(5) :> Num(3)),
  (Ms(3) :> Num(2) @@ Ms(4) :> Num(0) @@ Ms(7) :> Num(6)),
  (Ms(4) :> Num(1)), (Ms(4) :> Num(3)), (Ms(4) :> Num(4))>>

MCArrivals == {[series |-> 1, t |-> Ms(4), v |-> Num(1)], [series |-> 2, t |-> Ms(5), v |-> Num(8)],
               [series |-> 5, t |-> Ms(5), v |-> Num(0)]}

MCBoundOf == ("1" :> Num(1)) @@ ("2" :> Num(2)) @@ ("+Inf" :> Inf)

Named(name) == {[name |-> "__name__", op |-> "=", values |-> {name}]}
Job(op, jobs) == {[name |-> "job", op |-> op, values |-> jobs]}
Pick(matchers, range, offset) ==
  [kind |-> "selector", matchers |-> matchers, range |-> range, offset |-> offset]
X == Pick(Named("x"), NoRange, 0)
Y == Pick(Named("y"), NoRange, 0)
Lit(n) == [kind |-> "number", number |-> n]
Nothing == [kind |-> "none"]
CallTo(func, args) == [kind |-> "call", func |-> func, args |-> args]
Agg(op, expr, param, without, grouping) ==
  [kind |-> "agg", op |-> op, expr |-> expr, param |-> param, without |-> without, grouping |-> grouping]
Bin(op, lhs, rhs) == [kind |-> "binary", op |-> op, lhs |-> lhs, rhs |-> rhs, bool |-> FALSE,
                      matching |-> [on |-> FALSE, labels |-> {}]]
BoolBin(op, lhs, rhs) == [Bin(op, lhs, rhs) EXCEPT !.bool = TRUE]
On(expr, labels) == [expr EXCEPT !.matching = [on |-> TRUE, labels |-> labels]]
Ignoring(expr, labels) == [expr EXCEPT !.matching = [on |-> FALSE, labels |-> labels]]
Unary(op, expr) == [kind |-> "unary", op |-> op, expr |-> expr]
Window(func) == CallTo(func, <<Pick(Named("x"), Ms(4), 0)>>)

Expressions ==
  << X, Pick(Job("!=", {"b"}), NoRange, Ms(1)), Pick(Job("=~", {"a", "b"}), NoRange, 0),
     Pick(Job("!~", {"", "b"}), NoRange, 0), Bin("-", X, X), Bin("-", X, Pick(Named("x"), NoRange, Ms(2))),
     Window("rate"), Window("increase"), Window("delta"), Window("irate"), Window("idelta"),
     Window("sum_over_time"), Window("avg_over_time"), Window("changes"), Window("resets"),
     Bin("and", Window("min_over_time"), Y), Bin("-", Window("max_over_time"), Window("stdvar_over_time")),
     Bin("or", Window("count_over_time"), Window("present_over_time")), Window("last_over_time"),
     CallTo("quantile_over_time", <<Lit(<<1, 2>>), Pick(Named("x"), Ms(4), Ms(1))>>),
     CallTo("abs", <<Unary("-", X)>>), CallTo("ceil", <<Bin("/", X, Lit(Num(2)))>>),
     CallTo("floor", <<Bin("/", Y, X)>>), CallTo("sgn", <<Bin("-", X, Lit(Num(3)))>>),
     CallTo("round", <<X, CallTo("scalar", <<Y>>)>>), CallTo("round", <<Bin("%", X, Lit(Num(2)))>>),
     CallTo("clamp", <<X, Lit(Num(2)), CallTo("scalar", <<Y>>)>>),
     CallTo("clamp_min", <<X, Lit(Num(2))>>), CallTo("clamp_max", <<X, Lit(Num(2))>>),
     CallTo("histogram_quantile", <<Lit(<<9, 10>>), Pick(Named("h"), NoRange, 0)>>),
     CallTo("histogram_quantile", <<CallTo("scalar", <<Y>>), Pick(Named("h"), NoRange, 0)>>),
     CallTo("vector", <<CallTo("scalar", <<Y>>)>>), CallTo("time", <<>>),
     CallTo("absent", <<Pick(Named("y") \cup Job("=", {"a"}), NoRange, 0)>>),
     CallTo("sort", <<X>>), CallTo("rate", <<X>>), CallTo("nosuch", <<>>),
     Agg("sum", X, Nothing, FALSE, {}), Agg("avg", X, Nothing, FALSE, {"job"}),
     Agg("min", X, Nothing, TRUE, {"job"}), Agg("max", X, Nothing, TRUE, {}),
     Agg("count", X, Nothing, FALSE, {}), Agg("stdvar", X, Nothing, FALSE, {}),
     Agg("quantile", X, Lit(<<1, 2>>), FALSE, {}),
     Agg("topk", X, CallTo("scalar", <<Y>>), FALSE, {}), Agg("bottomk", X, Lit(Num(1)), FALSE, {}),
     Bin(">", X, Lit(Num(2))), BoolBin("<=", Lit(Num(3)), X), Bin("==", X, Y),
     BoolBin("!=", X, Y), On(Bin("+", X, Y), {}), Bin("*", X, Unary("-", Y)),
     Bin("and", X, Y), On(Bin("and", Y, X), {}), Bin("unless", X, Y), Bin("or", X, Y), Bin("or", Y, X),
     Ignoring(Bin("unless", X, Y), {"job"}),
     BoolBin(">=", CallTo("time", <<>>), Lit(Num(4))), Bin("<", Lit(Num(1)), Lit(Num(2))),
     Bin("^", Lit(Num(2)), CallTo("time", <<>>)), Bin("and", X, Lit(Num(1))),
     Unary("+", Y), [kind |-> "string"], Unary("-", [kind |-> "string"]) >>

-----------------------------------------------------------------------------
(* Texts: how an expression is written *)

Word(text) == [type |-> "ident", text |-> text]
Mark(type) == [type |-> type]
Op(op) == IF op \in SetOperators THEN Word(op) ELSE [type |-> "op", text |-> op]
Value(values) == [type |-> "string", values |-> values]
Duration(length) == [type |-> "duration", length |-> length, seconds |-> InSeconds(length)]
Constant(n) == [type |-> "number", value |-> n]

Listed(parts) ==
  FoldLeft(LAMBDA text, part : IF text = <<>> THEN part ELSE text \o <<Mark("comma")>> \o part, <<>>, parts)
InParens(text) == <<Mark("lparen")>> \o text \o <<Mark("rparen")>>
LabelList(labels) == InParens(Listed([i \in DOMAIN SetToSeq(labels) |-> <<Word(SetToSeq(labels)[i])>>]))

Tightest == 7
Level(expr) == IF expr.kind = "binary" THEN Precedence[expr.op] ELSE Tightest

RECURSIVE Written(_)
Inside(expr, level) == IF Level(expr) < level THEN InParens(Written(expr)) ELSE Written(expr)

WrittenSelector(expr) ==
  LET names == {m \in expr.matchers : m.name = NameLabel /\ m.op = "="}
      others == SetToSeq(expr.matchers \ names)
      matcher(m) == <<Word(m.name), [type |-> "op", text |-> m.op], Value(m.values)>>
  IN (IF names = {} THEN <<>> ELSE <<Word(CHOOSE n \in (CHOOSE m \in names : TRUE).values : TRUE)>>)
       \o (IF others = <<>> THEN <<>>
           ELSE <<Mark("lbrace")>> \o Listed([i \in DOMAIN others |-> matcher(others[i])]) \o <<Mark("rbrace")>>)
       \o (IF expr.range = NoRange THEN <<>> ELSE <<Mark("lbracket"), Duration(expr.range), Mark("rbracket")>>)
       \o (IF expr.offset = 0 THEN <<>> ELSE <<Word("offset"), Duration(expr.offset)>>)

WrittenMatching(matching) ==
  IF ~matching.on /\ matching.labels = {} THEN <<>>
  ELSE <<Word(IF matching.on THEN "on" ELSE "ignoring")>> \o LabelList(matching.labels)

WrittenGrouping(expr) ==
  IF ~expr.without /\ expr.grouping = {} THEN <<>>
  ELSE <<Word(IF expr.without THEN "without" ELSE "by")>> \o LabelList(expr.grouping)

Written(expr) ==
  CASE expr.kind = "number" -> <<IF expr.number = Inf THEN Word("Inf") ELSE Constant(expr.number)>>
    [] expr.kind = "string" -> <<Value({})>>
    [] expr.kind = "selector" -> WrittenSelector(expr)
    [] expr.kind = "call" ->
         <<Word(expr.func)>> \o InParens(Listed([i \in DOMAIN expr.args |-> Written(expr.args[i])]))
    [] expr.kind = "agg" ->
         LET args == IF expr.param = Nothing THEN <<expr.expr>> ELSE <<expr.param, expr.expr>>
         IN <<Word(expr.op)>> \o WrittenGrouping(expr)
              \o InParens(Listed([i \in DOMAIN args |-> Written(args[i])]))
    [] expr.kind = "unary" -> <<Op(expr.op)>> \o Inside(expr.expr, Tightest)
    [] expr.kind = "binary" ->
         LET level == Precedence[expr.op]
             toTheRight == expr.op = "^"
         IN Inside(expr.lhs, IF toTheRight THEN level + 1 ELSE level)
              \o <<Op(expr.op)>> \o (IF expr.bool THEN <<Word("bool")>> ELSE <<>>)
              \o WrittenMatching(expr.matching)
              \o Inside(expr.rhs, IF toTheRight THEN level ELSE level + 1)

(* two operators of every level in both trees, and signs inside and around them *)
Nested ==
  LET ops == <<"or", "and", "unless", "==", "-", "*", "^">>
      nestings(a, b) == <<Bin(a, X, Bin(b, X, X)), Bin(a, Bin(b, X, X), X)>>
      signs(a) == <<Unary("-", Bin(a, X, X)), Bin(a, Unary("-", X), Unary("+", X)),
                    On(BoolBin("==", Bin(a, X, X), X), {"job", "le"})>>
  IN FlattenSeq([i \in DOMAIN ops |-> FlattenSeq([j \in DOMAIN ops |-> nestings(ops[i], ops[j])])])
       \o FlattenSeq([i \in DOMAIN ops |-> signs(ops[i])])

(* texts nobody would write for an expression, with what they mean *)
Unusual ==
  LET x == <<Word("x")>>
      job == <<Word("job"), Op("="), Value({"a"})>>
      braces(text) == <<Mark("lbrace")>> \o text \o <<Mark("rbrace")>>
      by == <<Word("by")>> \o LabelList({"job"})
      window == <<Mark("lbracket"), Duration(Ms(4)), Mark("rbracket")>>
      Means(text, meant) == [text |-> text, meant |-> meant]
      MeansNothing(text) == Means(text, Wrong)
  IN << Means(braces(job \o job), Pick(Job("=", {"a"}), NoRange, 0)),
        Means(x \o braces(job \o <<Mark("comma")>>), Pick(Named("x") \cup Job("=", {"a"}), NoRange, 0)),
        Means(x \o braces(<<>>), X),
        Means(<<Word("sum")>> \o InParens(x) \o by, Agg("sum", X, Nothing, FALSE, {"job"})),
        Means(x \o <<Word("offset"), Duration(Ms(1))>> \o window, Pick(Named("x"), Ms(4), Ms(1))),
        Means(<<Duration(Ms(4))>>, Lit(Num(4))), Means(<<Word("nan")>>, Lit(NaN)),
        MeansNothing(<<>>), MeansNothing(braces(<<>>)), MeansNothing(x \o x), MeansNothing(x \o <<Mark("rparen")>>),
        MeansNothing(<<Mark("lparen")>> \o x), MeansNothing(x \o braces(<<Word("job")>>)),
        MeansNothing(x \o <<Mark("lbrace")>> \o job), MeansNothing(x \o window \o window),
        MeansNothing(InParens(x \o <<Op("+")>> \o x) \o window),
        MeansNothing(x \o <<Mark("lbracket"), Duration(Ms(4)), Mark("colon"), Duration(Ms(1)), Mark("rbracket")>>),
        MeansNothing(<<Constant(Num(2)), Word("offset"), Duration(Ms(1))>>),
        MeansNothing(<<Word("sum")>> \o by \o InParens(x) \o by),
        MeansNothing(<<Word("sum")>> \o InParens(x \o <<Mark("comma")>> \o x)),
        MeansNothing(<<Word("topk")>> \o InParens(x)), MeansNothing(<<Word("sum")>> \o x),
        MeansNothing(<<Word("rate")>> \o InParens(x \o <<Mark("comma")>>)),
        MeansNothing(x \o <<Op("+"), Word("bool")>> \o x),
        MeansNothing(x \o <<Op("+"), Word("on")>> \o LabelList({"job"}) \o <<Word("group_left")>> \o x),
        MeansNothing(x \o <<Op("+"), Word("on"), Mark("lparen"), Value({"a"}), Mark("rparen")>> \o x) >>

-----------------------------------------------------------------------------
AsQuestion(text, meant, start, end, step, kind) ==
  [kind |-> kind, text |-> text \o <<Mark("eof")>>, meant |-> meant, start |-> start, end |-> end, step |-> step]
InstantOf(expr) == AsQuestion(Written(expr), expr, Ms(5), Ms(5), Ms(1), "instant")
RangeOf(expr, step) == AsQuestion(Written(expr), expr, Ms(2), Ms(8), step, "range")

(* a range without a step is refused once it is read *)
ReadOnly(text, meant) == AsQuestion(text, meant, Ms(2), Ms(8), 0, "range")

(* between the milliseconds: times that do, and steps that do as well *)
Part == 1
OffsetX == Pick(Named("x"), NoRange, Ms(1))
PartsLater(q) == [q EXCEPT !.start = @ + Part, !.end = @ + Part]
BetweenMilliseconds ==
  <<PartsLater(InstantOf(X)), PartsLater(InstantOf(Pick(Named("x"), Ms(3), Ms(1)))),
    PartsLater(RangeOf(X, Ms(1))), PartsLater(RangeOf(OffsetX, Ms(2))),
    PartsLater(RangeOf(Window("rate"), Ms(2))), RangeOf(Window("increase"), Ms(2) + Part),
    RangeOf(Bin("or", X, Y), Ms(2) + Part), RangeOf(Bin("-", X, OffsetX), Part)>>

MCTexts ==
  [i \in DOMAIN Expressions |-> InstantOf(Expressions[i])]
    \o [i \in DOMAIN Expressions |-> RangeOf(Expressions[i], Ms(2))]
    \o [i \in DOMAIN Nested |-> ReadOnly(Written(Nested[i]), Nested[i])]
    \o [i \in DOMAIN Unusual |-> ReadOnly(Unusual[i].text, Unusual[i].meant)]
    \o <<RangeOf(X, Ms(1)), RangeOf(X, Ms(5)), InstantOf(Pick(Named("x"), Ms(3), Ms(1))),
         RangeOf(CallTo("last_over_time", <<Pick(Named("x"), 0, Ms(1))>>), Ms(1)),
         RangeOf(Pick(Named("x"), Ms(3), 0), Ms(1)),
         [RangeOf(X, Ms(1)) EXCEPT !.end = Ms(1)], [RangeOf(X, Ms(1)) EXCEPT !.end = Ms(20)]>>
    \o BetweenMilliseconds

(* A step of three and a half milliseconds: the evaluator's are at 0, 3.5   *)
(* and 7, the store's at 0, 3, 6 and, past the end, 9.                      *)
MCBrokenSteps == <<[RangeOf(Y, Ms(3) + Part) EXCEPT !.start = 0]>>
=============================================================================
