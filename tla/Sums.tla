-------------------------------- MODULE Sums --------------------------------
(***************************************************************************)
(* Sums of natural numbers over the rows of a table, as SQL's SUM would    *)
(* compute them.  Total(f, S) is f[x] added up over the x of S.  It counts *)
(* the units that make up the sum instead of folding over S, because the   *)
(* size of a finite set has a theory the prover can use (module            *)
(* FiniteSetTheorems) where a recursive definition would need induction.   *)
(* Module TableTheorems proves the laws the other proofs use.              *)
(***************************************************************************)
EXTENDS Integers, FiniteSets

\* One element <<x, k>> for each of the f[x] units that x contributes.
Units(f, S) == UNION { {x} \X (1 .. f[x]) : x \in S }

Total(f, S) == Cardinality(Units(f, S))
=============================================================================
