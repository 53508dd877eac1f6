------------------------------ MODULE MCGbEdit ------------------------------
(* GbEdit on three plain bonds, and on bonds the clipboard changes (one of a *)
(* thousand dollars, one without a serial number).  Another GBonds holds a   *)
(* bond with the serial number of one of them.                               *)
EXTENDS GbEdit, TLC

CONSTANTS v1, v2, p1, p2, p3, p4, p5

Bond(sn, series, denom) == [sn |-> sn, series |-> series, denom |-> denom]

PlainContent == {Bond("A", "EE", 500), Bond("B", "I", 100), Bond("C", "E", 25)}
MixedContent == {Bond("A", "EE", 500), Bond("B", "E", 1000), Bond(NoSN, "E", 25)}
OtherPlain   == <<Bond("A", "EE", 500)>>

PtrSymmetry == Permutations(Ptr)
=============================================================================
