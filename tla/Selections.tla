----------------------------- MODULE Selections -----------------------------
(***************************************************************************)
(* Parts of a sequence, without recursion: the elements at chosen places,  *)
(* as they come or in another order.                                       *)
(***************************************************************************)
EXTENDS Integers, Sequences, FiniteSets

\* How many of the places kept come before i, where order is a set of pairs.
Rank(order, kept, i) == Cardinality({j \in kept : <<j, i>> \in order})

\* The elements of seq at the places kept, in the given order of the places.
Arrange(seq, kept, order) ==
  [k \in 1 .. Cardinality(kept) |->
     seq[CHOOSE i \in kept : Rank(order, kept, i) = k - 1]]

\* The same as they come.
AsTheyCome(kept) == {pair \in kept \X kept : pair[1] < pair[2]}
Keep(seq, kept) == Arrange(seq, kept, AsTheyCome(kept))
=============================================================================
