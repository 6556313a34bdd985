------------------------ MODULE MCDefiniteAssignment ------------------------
(* Instances of DefiniteAssignment for TLC. *)
EXTENDS DefiniteAssignment, FiniteSets

\* A constant prefix of indices selects half of the elements, as in [[T; 2]; 2].
MCSlice == {s \in SUBSET Elem : 2 * Cardinality(s) = Cardinality(Elem)}

\* The walk goes on after a diagnostic, but the program is never run: nothing
\* is left to check.
Accepted == ~rejected

\* Bound: a function declares two scalars or one array.
AcceptedAndSmall == Accepted /\ (arrays # {} => nextBindingId <= 2)
=============================================================================
