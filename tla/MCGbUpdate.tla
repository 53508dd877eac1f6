----------------------------- MODULE MCGbUpdate -----------------------------
(* GbUpdate with one installed table and two more on the site. *)
EXTENDS GbUpdate

CONSTANTS t1, t2, t3

MCMonthsOf ==
  [t \in Table |-> CASE t = t1 -> {1} [] t = t2 -> {2, 3} [] t = t3 -> {4}]
=============================================================================
