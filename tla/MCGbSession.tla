---------------------------- MODULE MCGbSession ----------------------------
(* GbSession on a few windows, files and edits. *)
EXTENDS GbSession

CONSTANTS w1, w2, w3, f1, f2, e1, e2, sbw

WinSymmetry == Permutations({w1, w2, w3} \cap Win)
DocSymmetry == Permutations({w1, w2, w3} \cap Win) \cup Permutations({f1, f2} \cap File)
                 \cup Permutations({e1, e2} \cap Edit)
=============================================================================
