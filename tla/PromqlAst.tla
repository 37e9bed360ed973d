------------------------------- MODULE PromqlAst --------------------------------
(***************************************************************************)
(* What the parser, the engine and the store say to each other             *)
(* (promql/ast.ts): an expression is a record with its kind, a selector    *)
(* among them [kind, matchers, range, offset], and a number an exact       *)
(* fraction <<n, d>> in lowest terms, <<1, 0>> and <<0, 0>> being infinity *)
(* and NaN.                                                                *)
(***************************************************************************)
EXTENDS Integers

NameLabel == "__name__"

(* the range of an instant selector *)
NoRange == -1

Inf == <<1, 0>>
NaN == <<0, 0>>

Wrong == [kind |-> "error"]

Comparisons == {"==", "!=", ">", "<", ">=", "<="}
SetOperators == {"and", "or", "unless"}

IsBareRange(expr) == expr.kind = "selector" /\ expr.range # NoRange
=================================================================================
