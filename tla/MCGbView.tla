------------------------------ MODULE MCGbView ------------------------------
EXTENDS GbView, TLC

CONSTANTS sys, dl, w1, w2, d1, d2, d3, b1, b2

\* The tables installed with GBonds leave months out that a download brings.
MCMonthsOf == sys :> {2, 3, 5} @@ dl :> {4}
MCPaysFrom == b1 :> 1 @@ b2 :> 4

Symmetry == Permutations({w1, w2}) \cup Permutations({d1, d2, d3})
=============================================================================
