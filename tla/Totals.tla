------------------------------- MODULE Totals -------------------------------
(***************************************************************************)
(* SELECT COALESCE(SUM(column), 0): the total of a column over the rows of *)
(* a table, as the number of units in all its values.  (A count, and not a *)
(* recursion over the rows, so that facts about totals can be proved.)     *)
(***************************************************************************)
EXTENDS Naturals, FiniteSets

\* The units of row x.
Units(column, x) == {x} \X (1..column[x])

Total(column) == Cardinality(UNION {Units(column, x) : x \in DOMAIN column})
=============================================================================
