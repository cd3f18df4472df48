------------------------------- MODULE Arranged -------------------------------
(***************************************************************************)
(* Sequences in order, and parts of sequences.  Where an element goes is   *)
(* found by counting what comes before it, not by recursion, so that       *)
(* proofs can speak of it.                                                 *)
(*                                                                         *)
(* An order is a relation: <<j, i>> is in it when j comes before i.        *)
(***************************************************************************)
EXTENDS Naturals, Sequences, FiniteSets

Ahead(I, order, i) == {j \in I : <<j, i>> \in order}

\* The k-th of I.
Place(I, order, k) == CHOOSE i \in I : Cardinality(Ahead(I, order, i)) = k - 1

\* The elements of s at the places I, in that order of the places.
Arrange(s, I, order) == [k \in 1..Cardinality(I) |-> s[Place(I, order, k)]]

Upward(I) == {p \in I \X I : p[1] < p[2]}

\* A set of numbers as a sequence, the smallest first.
InOrder(I) == [k \in 1..Cardinality(I) |-> Place(I, Upward(I), k)]

\* The elements of s at the places I, in the order they have in s (Iterator::filter).
Kept(s, I) == Arrange(s, I, Upward(I))

\* s by the relation less on its places; equal elements keep their order (Vec::sort).
Stable(I, less) == {p \in I \X I : \/ p \in less
                                   \/ <<p[2], p[1]>> \notin less /\ p[1] < p[2]}
Sorted(s, less) == Arrange(s, DOMAIN s, Stable(DOMAIN s, less))
================================================================================
