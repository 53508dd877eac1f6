------------------------------- MODULE MCGbDoc -------------------------------
(* SbwImport, and in it GbDoc, on three bond addresses, two issue months, two
   serial numbers. *)
EXTENDS SbwImport, TLC

CONSTANTS p1, p2, p3, t1, t2

PtrSymmetry == Permutations({p1, p2, p3})

\* t2 is t1 with an ampersand and more behind it.
TitleCut == [t \in Title \cup {NoTitle} |-> IF t = t2 THEN t1 ELSE t]

\* Files with a number or a series missing, of another series, a number twice,
\* cut short, and two with nothing wrong.
Rec(idate, sn, series) == [idate |-> idate, sn |-> sn, series |-> series]
Records == {
  <<Rec(2, 1, "known"), Rec(1, 2, "known")>>,
  <<Rec(1, 1, "known"), Rec(1, Blank, "known")>>,
  <<Rec(1, 2, "other"), Rec(2, Blank, "known")>>,
  <<Rec(1, 2, "known"), Rec(2, 1, Blank)>>,
  <<Rec(2, Blank, Blank), Rec(1, 2, "known")>>,
  <<Rec(1, 2, "other"), Rec(1, 1, "known")>>,
  <<Rec(1, 2, "known"), Rec(2, 2, "known")>>,
  <<Rec(2, 2, "known")>>,
  <<>>}
MCSbwFiles == [version : {2, 4}, n : {2}, records : Records]

\* "C123EE" ended at the length of "EE".
CutShort == [sn \in SN |-> 1]
=============================================================================
