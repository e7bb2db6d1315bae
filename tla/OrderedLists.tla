----------------------------- MODULE OrderedLists -----------------------------
(***************************************************************************)
(* Lists, and the places of a list in their order.                         *)
(***************************************************************************)
EXTENDS Integers, Sequences, FiniteSets, SequencesExt

IsList(s) == s \in Seq(ToSet(s))

\* some numbers in their order: the nth is the one with n - 1 before it
InOrder(numbers) ==
  [n \in 1..Cardinality(numbers) |-> CHOOSE i \in numbers : Cardinality({j \in numbers : j < i}) = n - 1]

\* the items at some places of a list, in order
Picked(items, places) == LET order == InOrder(places) IN [n \in DOMAIN order |-> items[order[n]]]
=============================================================================
