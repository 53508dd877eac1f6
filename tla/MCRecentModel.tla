--------------------------- MODULE MCRecentModel ---------------------------
(* RecentModel for GBonds and one other program of the desktop. *)
EXTENDS RecentModel

CONSTANTS g1, other, u1, u2

MCGroupOf == [p \in Proc |-> IF p = other THEN "other" ELSE "gbonds"]

\* GBonds shows a menu, the other program none.
MCLimit == [p \in Proc |-> IF p = other THEN 0 ELSE 1]
=============================================================================
