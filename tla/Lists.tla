--------------------------------- MODULE Lists ---------------------------------
(***************************************************************************)
(* Sorting and filtering of sequences, as SetToSortSeq and SelectSeq do    *)
(* it, but said with sets and functions, so that it can be proved what     *)
(* they return (Lists_proofs).                                             *)
(***************************************************************************)
EXTENDS Naturals, Sequences, FiniteSets

\* How many elements of a set of numbers come up to this one.
Rank(I, i) == Cardinality({j \in I : j =< i})

\* The elements of a finite set of numbers in ascending order.
Ascending(I) == [k \in 1..Cardinality(I) |-> CHOOSE i \in I : Rank(I, i) = k]

\* The same in descending order.
Descending(I) == [k \in 1..Cardinality(I) |-> Ascending(I)[Cardinality(I) + 1 - k]]

\* What is left of a sequence when only these of its indices are kept.
Only(s, I) == [k \in 1..Cardinality(I) |-> s[Ascending(I)[k]]]
===============================================================================
