--------------------------- MODULE MCSuggestions ---------------------------
(***************************************************************************)
(* Instances of Suggestions for TLC: rows, customers and coroutine slots   *)
(* are interchangeable.                                                    *)
(***************************************************************************)
EXTENDS Suggestions, TLC

Symmetry == Permutations(Suggs) \cup Permutations(Customers) \cup Permutations(Tasks)
=============================================================================
