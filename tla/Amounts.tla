------------------------------ MODULE Amounts ------------------------------
(***************************************************************************)
(* Sums of amounts.  An amount is counted as a set of units: f[x] units    *)
(* for each x of S.  The sum of f over S is the number of these units, so  *)
(* that what is known of finite sets (FiniteSetTheorems) is known of sums. *)
(***************************************************************************)
EXTENDS Naturals, FiniteSets

Units(f, S) == UNION {{x} \X (1 .. f[x]) : x \in S}

\* The sum of f[x] over the finite set S, for a function f into Nat.
Total(f, S) == Cardinality(Units(f, S))
=============================================================================
