--------------------------------- MODULE Query ---------------------------------
(***************************************************************************)
(* A question is asked as a text, which PromqlParser reads, and answered   *)
(* by Evaluator.  What the text means is kept beside it for the            *)
(* properties.                                                             *)
(***************************************************************************)
EXTENDS PromqlParser, Evaluator

CONSTANT Texts       \* what may be asked, [kind, text, meant, start, end, step]

(* a question once its text is parsed; meant is for the properties *)
AsAsked(q) ==
  [kind |-> q.kind, expr |-> Parse(q.text), meant |-> q.meant,
   start |-> q.start, end |-> q.end, step |-> q.step]

ParsedTexts == LET texts == Texts IN [i \in DOMAIN texts |-> AsAsked(texts[i])]

(* the selectors of an expression, in the order of collectSelectors *)
RECURSIVE CollectSelectors(_)
CollectSelectors(expr) ==
  CASE expr.kind = "selector" -> <<expr>>
    [] expr.kind = "call" -> FlattenSeq([i \in DOMAIN expr.args |-> CollectSelectors(expr.args[i])])
    [] expr.kind = "agg" -> CollectSelectors(expr.expr) \o CollectSelectors(expr.param)
    [] expr.kind = "binary" -> CollectSelectors(expr.lhs) \o CollectSelectors(expr.rhs)
    [] expr.kind = "unary" -> CollectSelectors(expr.expr)
    [] OTHER -> <<>>

(* an expression and all inside it *)
RECURSIVE SubExpressions(_)
SubExpressions(expr) == {expr} \cup UNION {SubExpressions(operand) : operand \in Operands(expr)}

-----------------------------------------------------------------------------
(* Properties *)

(* A text is read as it is meant: an expression written with no more       *)
(* parentheses than the levels of the operators ask for is read as itself  *)
(* again, and a text that means nothing is refused.                        *)
ReadsAsMeant == asked # NotAsked => Expression = asked.meant

=================================================================================
