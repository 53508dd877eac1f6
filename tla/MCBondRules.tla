---------------------------- MODULE MCBondRules ----------------------------
(* BondRules and BondInfo on the months of the tables that come with the program. *)
EXTENDS BondInfo

MCFirstRdate == GB_DATE(5, 1992)
MCLastRdate  == GB_DATE(5, 2011)
MCLastIdate  == GB_DATE(12, 2004)

\* The files of data/ and debian/ cover every month but these six.
MCEntries == (MCFirstRdate .. MCLastRdate) \ (GB_DATE(9, 2001) .. GB_DATE(2, 2002))
=============================================================================
