------------------------------ MODULE Selection ------------------------------
(***************************************************************************)
(* What the code's filters keep of an array.  SelectSeq walks a sequence   *)
(* recursively, which only TLC can follow; here the positions that are kept*)
(* are numbered instead, so that what a filter returns can be proved.      *)
(***************************************************************************)
EXTENDS Naturals, Sequences, FiniteSets

First(positions) == CHOOSE i \in positions : \A j \in positions : i <= j

\* The position of rank n among the positions kept.
Rank(kept, i) == Cardinality({j \in kept : j <= i})
Nth(kept, n) == CHOOSE i \in kept : Rank(kept, i) = n

\* The elements of s at the positions kept, in their order.
Picked(s, kept) == [n \in 1..Cardinality(kept) |-> s[Nth(kept, n)]]

\* s.filter(P)
Where(s, P(_)) == Picked(s, {i \in DOMAIN s : P(s[i])})

\* The known values of s, each at its first occurrence.
Distinct(s, known) ==
  Picked(s, {i \in DOMAIN s : s[i] \in known /\ \A j \in 1..i-1 : s[j] # s[i]})
=============================================================================
