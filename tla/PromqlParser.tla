----------------------------- MODULE PromqlParser -----------------------------
(***************************************************************************)
(* The parser of src/promql/parser.ts, by recursive descent and operator   *)
(* precedence.  A text is the sequence of its tokens, the last one "eof";  *)
(* the lexer is outside.  A token has its type and its text; the token of  *)
(* a number has its value, that of a duration its length, in the unit of   *)
(* times and in seconds, and that of a string the set of label values it   *)
(* stands for.                                                             *)
(*                                                                         *)
(* A function of the parser takes the tokens that are left and returns     *)
(* what it read with the tokens left then, or fails: the messages of its   *)
(* PromQLErrors are left out.                                              *)
(***************************************************************************)
EXTENDS PromqlAst, Integers, Sequences, TLC

MatchOperators == {"=", "!=", "=~", "!~"}
AggOperators == {"sum", "avg", "min", "max", "count", "stddev", "stdvar", "quantile", "topk", "bottomk"}
AggOperatorsWithParam == {"quantile", "topk", "bottomk"}

Precedence ==
  [op \in {"or"} |-> 1] @@ [op \in {"and", "unless"} |-> 2] @@ [op \in Comparisons |-> 3]
    @@ [op \in {"+", "-"} |-> 4] @@ [op \in {"*", "/", "%"} |-> 5] @@ [op \in {"^"} |-> 6]

Is(ts, type) == Head(ts).type = type
IsWord(ts, words) == Is(ts, "ident") /\ Head(ts).text \in words
IsOperator(ts, ops) == Is(ts, "op") /\ Head(ts).text \in ops

Read(value, ts) == [ok |-> TRUE, value |-> value, left |-> ts]
Failure == [ok |-> FALSE]
Then(step, Go(_)) == IF step.ok THEN Go(step) ELSE Failure

Expect(ts, type) == IF Is(ts, type) THEN Read(Head(ts), Tail(ts)) ELSE Failure

NotAnOperator == ""
BinaryOpFor(ts) ==
  IF IsOperator(ts, DOMAIN Precedence) \/ IsWord(ts, SetOperators) THEN Head(ts).text ELSE NotAnOperator

(* Mutant of NextLevel: operators of one level group to the right *)
SameLevel(op) == Precedence[op]

(* how strong the operators inside a right operand are at least: those of  *)
(* one level group to the left, except for powers                          *)
NextLevel(op) == IF op = "^" THEN Precedence[op] ELSE Precedence[op] + 1

RECURSIVE ParseExpression(_, _), ParseOperators(_, _, _), ParseUnary(_), ParsePostfix(_, _),
          ParseArgs(_), ParseLabels(_), ParseMatchers(_, _)

-----------------------------------------------------------------------------
(* Lists *)

(* the label names after "(", at least one *)
ParseLabels(ts) ==
  Then(Expect(ts, "ident"), LAMBDA label :
    IF Is(label.left, "comma")
    THEN Then(ParseLabels(Tail(label.left)), LAMBDA more :
           Read({label.value.text} \cup more.value, more.left))
    ELSE Read({label.value.text}, label.left))

ParseLabelList(ts) ==
  Then(Expect(ts, "lparen"), LAMBDA open :
    LET labels == IF Is(open.left, "rparen") THEN Read({}, open.left) ELSE ParseLabels(open.left)
    IN Then(labels, LAMBDA l :
         Then(Expect(l.left, "rparen"), LAMBDA close : Read(l.value, close.left))))

(* the arguments after "(", at least one *)
ParseArgs(ts) ==
  Then(ParseExpression(ts, 1), LAMBDA arg :
    IF Is(arg.left, "comma")
    THEN Then(ParseArgs(Tail(arg.left)), LAMBDA more : Read(<<arg.value>> \o more.value, more.left))
    ELSE Read(<<arg.value>>, arg.left))

(* the matchers after "{"; the commas between them may be missing *)
ParseMatchers(matchers, ts) ==
  IF Is(ts, "rbrace") THEN Read(matchers, Tail(ts))
  ELSE Then(Expect(ts, "ident"), LAMBDA label :
    IF ~IsOperator(label.left, MatchOperators) THEN Failure
    ELSE Then(Expect(Tail(label.left), "string"), LAMBDA value :
      LET m == [name |-> label.value.text, op |-> Head(label.left).text, values |-> value.value.values]
      IN ParseMatchers(matchers \cup {m},
           IF Is(value.left, "comma") THEN Tail(value.left) ELSE value.left)))

-----------------------------------------------------------------------------
(* Primaries *)

(* the body of a selector, whose name gave the first matcher *)
ParseSelector(matchers, ts) ==
  LET body == IF Is(ts, "lbrace") THEN ParseMatchers(matchers, Tail(ts)) ELSE Read(matchers, ts)
  IN Then(body, LAMBDA b :
       IF b.value = {} THEN Failure
       ELSE Read([kind |-> "selector", matchers |-> b.value, range |-> NoRange, offset |-> 0], b.left))

ParseCallArgs(func, ts) ==
  Then(Expect(ts, "lparen"), LAMBDA open :
    LET args == IF Is(open.left, "rparen") THEN Read(<<>>, open.left) ELSE ParseArgs(open.left)
    IN Then(args, LAMBDA a :
         Then(Expect(a.left, "rparen"), LAMBDA close :
           Read([kind |-> "call", func |-> func, args |-> a.value], close.left))))

NoGrouping == [given |-> FALSE, without |-> FALSE, labels |-> {}]

(* a grouping clause may stand before or after the arguments, not at both *)
ReadGrouping(ts, sofar) ==
  IF ~IsWord(ts, {"by", "without"}) THEN Read(sofar, ts)
  ELSE IF sofar.given THEN Failure
  ELSE Then(ParseLabelList(Tail(ts)), LAMBDA labels :
         Read([given |-> TRUE, without |-> Head(ts).text = "without", labels |-> labels.value],
              labels.left))

ParseAggregation(ts) ==
  LET op == Head(ts).text
      params == IF op \in AggOperatorsWithParam THEN 1 ELSE 0
      agg(args, grouping) ==
        [kind |-> "agg", op |-> op, expr |-> args[params + 1],
         param |-> IF params = 1 THEN args[1] ELSE [kind |-> "none"],
         without |-> grouping.without, grouping |-> grouping.labels]
  IN Then(ReadGrouping(Tail(ts), NoGrouping), LAMBDA before :
       Then(Expect(before.left, "lparen"), LAMBDA open :
         Then(ParseArgs(open.left), LAMBDA args :
           Then(Expect(args.left, "rparen"), LAMBDA close :
             Then(ReadGrouping(close.left, before.value), LAMBDA after :
               IF Len(args.value) # params + 1 THEN Failure
               ELSE Read(agg(args.value, after.value), after.left))))))

Number(value) == [kind |-> "number", number |-> value]

(* words are compared without regard to case for the two special numbers *)
ParseWord(ts) ==
  LET word == Head(ts).text
  IN IF word \in {"inf", "Inf"} THEN Read(Number(Inf), Tail(ts))
     ELSE IF word \in {"nan", "NaN"} THEN Read(Number(NaN), Tail(ts))
     ELSE IF word \in AggOperators THEN ParseAggregation(ts)
     ELSE IF Is(Tail(ts), "lparen") THEN ParseCallArgs(word, Tail(ts))
     ELSE ParseSelector({[name |-> NameLabel, op |-> "=", values |-> {word}]}, Tail(ts))

ParsePrimary(ts) ==
  CASE Is(ts, "number") -> Read(Number(Head(ts).value), Tail(ts))
    [] Is(ts, "duration") -> Read(Number(Head(ts).seconds), Tail(ts))
    [] Is(ts, "string") -> Read([kind |-> "string"], Tail(ts))
    [] Is(ts, "lparen") ->
         Then(ParseExpression(Tail(ts), 1), LAMBDA inner :
           Then(Expect(inner.left, "rparen"), LAMBDA close : Read(inner.value, close.left)))
    [] Is(ts, "lbrace") -> ParseSelector({}, ts)
    [] Is(ts, "ident") -> ParseWord(ts)
    [] OTHER -> Failure

-----------------------------------------------------------------------------
(* Postfixes, signs and operators *)

(* [5m]: a colon instead of the closing bracket would be a subquery *)
ParseRange(expr, ts) ==
  Then(Expect(ts, "duration"), LAMBDA duration :
    Then(Expect(duration.left, "rbracket"), LAMBDA close :
      IF expr.kind # "selector" THEN Failure
      ELSE IF expr.range # NoRange THEN Failure
      ELSE Read([expr EXCEPT !.range = duration.value.length], close.left)))

ParseOffset(expr, ts) ==
  Then(Expect(ts, "duration"), LAMBDA duration :
    IF expr.kind # "selector" THEN Failure
    ELSE Read([expr EXCEPT !.offset = duration.value.length], duration.left))

ParsePostfix(expr, ts) ==
  LET again(step) == Then(step, LAMBDA s : ParsePostfix(s.value, s.left))
  IN IF Is(ts, "lbracket") THEN again(ParseRange(expr, Tail(ts)))
     ELSE IF IsWord(ts, {"offset"}) THEN again(ParseOffset(expr, Tail(ts)))
     ELSE Read(expr, ts)

(* a sign binds more tightly than any operator, powers included *)
ParseUnary(ts) ==
  IF IsOperator(ts, {"-", "+"})
  THEN Then(ParseUnary(Tail(ts)), LAMBDA operand :
         Read([kind |-> "unary", op |-> Head(ts).text, expr |-> operand.value], operand.left))
  ELSE Then(ParsePrimary(ts), LAMBDA primary : ParsePostfix(primary.value, primary.left))

(* bool, for comparisons only *)
ReadBool(op, ts) ==
  IF ~IsWord(ts, {"bool"}) THEN Read(FALSE, ts)
  ELSE IF op \in Comparisons THEN Read(TRUE, Tail(ts)) ELSE Failure

(* on (...) or ignoring (...); without either, matching ignores no label *)
ReadMatching(ts) ==
  IF ~IsWord(ts, {"on", "ignoring"}) THEN Read([on |-> FALSE, labels |-> {}], ts)
  ELSE Then(ParseLabelList(Tail(ts)), LAMBDA labels :
         IF IsWord(labels.left, {"group_left", "group_right"}) THEN Failure
         ELSE Read([on |-> Head(ts).text = "on", labels |-> labels.value], labels.left))

(* the operators of at least a precedence that follow a left operand *)
ParseOperators(lhs, ts, minPrec) ==
  LET op == BinaryOpFor(ts)
  IN IF op = NotAnOperator THEN Read(lhs, ts)
     ELSE IF Precedence[op] < minPrec THEN Read(lhs, ts)
     ELSE Then(ReadBool(op, Tail(ts)), LAMBDA bool :
            Then(ReadMatching(bool.left), LAMBDA matching :
              Then(ParseExpression(matching.left, NextLevel(op)), LAMBDA rhs :
                ParseOperators([kind |-> "binary", op |-> op, lhs |-> lhs, rhs |-> rhs.value,
                                bool |-> bool.value, matching |-> matching.value],
                               rhs.left, minPrec))))

ParseExpression(ts, minPrec) ==
  Then(ParseUnary(ts), LAMBDA lhs : ParseOperators(lhs.value, lhs.left, minPrec))

Parse(tokens) ==
  LET whole == Then(ParseExpression(tokens, 1), LAMBDA expr :
                 Then(Expect(expr.left, "eof"), LAMBDA eof : expr))
  IN IF whole.ok THEN whole.value ELSE Wrong

=============================================================================
