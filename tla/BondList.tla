------------------------------ MODULE BondList ------------------------------
(***************************************************************************)
(* The inventory list of a document (doc->list, a GList of gbDocBond) and  *)
(* the operations of src/doc.c on it.  A bond is the object the list       *)
(* points to: ptr is its address, which is how the view and the delete     *)
(* dialog name it; idate is its issue month; sn its serial number, NoSN    *)
(* where the C field is NULL.  Serial numbers are represented by their     *)
(* rank in strcmp order, issue dates by their month number.                *)
(***************************************************************************)
EXTENDS Integers, FiniteSets, SequencesExt

CONSTANTS
  Ptr,     \* addresses a gbDocBond can be allocated at
  Date,    \* issue dates
  SN,      \* serial numbers, ranked as strcmp orders them
  NoSN     \* the NULL serial number of an imported bond

ASSUME DateAssumption == Date \subseteq Int
ASSUME SNAssumption   == SN \subseteq Int /\ NoSN \notin Int

Content == [idate : Date, sn : SN \cup {NoSN}]
Bond    == [ptr : Ptr, idate : Date, sn : SN \cup {NoSN}]

\* g_new0 without the issue date stored (mutant), and the bond made right.
MakeBondNoDate(p, c) == [ptr |-> p, idate |-> 0, sn |-> c.sn]
MakeBond(p, c) == [ptr |-> p, idate |-> c.idate, sn |-> c.sn]
ContentOf(b)   == [idate |-> b.idate, sn |-> b.sn]

Ptrs(l)     == { l[i].ptr : i \in DOMAIN l }
Contents(l) == [i \in DOMAIN l |-> ContentOf(l[i])]

\* The loop at the head of gb_doc_add_bond: bonds without a serial number
\* never clash.
HasDuplicateSN(l, b) ==
  /\ b.sn # NoSN
  /\ \E i \in DOMAIN l : l[i].sn = b.sn

\* Comparisons with the serial numbers the other way round, and without
\* serial numbers (mutants).
InsertBeforeAscending(a, b) ==
  \/ a.idate < b.idate
  \/ /\ a.idate = b.idate
     /\ a.sn # NoSN
     /\ \/ b.sn = NoSN
        \/ a.sn <= b.sn

InsertBeforeByDate(a, b) == a.idate <= b.idate

\* insert_compare_fct (a, b) <= 0, the test g_list_insert_sorted stops at.
InsertBefore(a, b) ==
  \/ a.idate < b.idate
  \/ /\ a.idate = b.idate
     /\ a.sn # NoSN
     /\ \/ b.sn = NoSN
        \/ a.sn >= b.sn

InsertSorted(l, b) ==
  LET before == { i \in DOMAIN l : InsertBefore(b, l[i]) }
  IN  IF before = {} THEN Append(l, b) ELSE InsertAt(l, Min(before), b)

\* g_list_find followed by g_list_remove_link.
RemovePtr(l, p) == RemoveAt(l, CHOOSE i \in DOMAIN l : l[i].ptr = p)

---------------------------------------------------------------------------
\* a may stand somewhere before b: issue dates ascend and, within a month,
\* serial numbers descend with the NULLs last.
InOrder(a, b) ==
  \/ a.idate < b.idate
  \/ /\ a.idate = b.idate
     /\ \/ b.sn = NoSN
        \/ a.sn # NoSN /\ a.sn > b.sn

Ordered(l) == \A i, j \in DOMAIN l : i < j => InOrder(l[i], l[j])

UniqueSNs(l) ==
  \A i, j \in DOMAIN l : l[i].sn = l[j].sn => i = j \/ l[i].sn = NoSN

UniquePtrs(l) == \A i, j \in DOMAIN l : l[i].ptr = l[j].ptr => i = j
=============================================================================
