--------------------------- MODULE BondListProofs ---------------------------
(***************************************************************************)
(* Lemmas about the inventory list: where gb_doc_add_bond puts a bond,     *)
(* what gb_doc_delete_bond leaves, and that both keep the list in order    *)
(* and its serial numbers and bond objects distinct.                       *)
(***************************************************************************)
EXTENDS BondList, SequenceTheorems, WellFoundedInduction, TLAPS

---------------------------------------------------------------------------
(* The comparison function of the list (doc.c, insert_compare_fct).        *)

\* The fields of a bond that the order looks at.
LEMMA BondFields ==
  ASSUME NEW b \in Bond
  PROVE  /\ b.idate \in Int
         /\ b.sn # NoSN => b.sn \in Int
BY DateAssumption, SNAssumption DEF DateAssumption, SNAssumption, Bond

\* The order of the inventory is transitive.
LEMMA InOrderTransitive ==
  ASSUME NEW a \in Bond, NEW b \in Bond, NEW c \in Bond,
         InOrder(a, b), InOrder(b, c)
  PROVE  InOrder(a, c)
<1>1. /\ a.idate \in Int /\ b.idate \in Int /\ c.idate \in Int
      /\ a.sn # NoSN => a.sn \in Int
      /\ b.sn # NoSN => b.sn \in Int
      /\ c.sn # NoSN => c.sn \in Int
  BY BondFields
<1>2. CASE a.idate < b.idate \/ b.idate < c.idate
  BY <1>1, <1>2 DEF InOrder
<1>3. CASE a.idate = b.idate /\ b.idate = c.idate
  BY <1>1, <1>3 DEF InOrder
<1> QED BY <1>2, <1>3 DEF InOrder

\* A bond is inserted before another exactly when that one may not stand
\* before it.
LEMMA InsertBeforeIsNotInOrder ==
  ASSUME NEW a \in Bond, NEW b \in Bond
  PROVE  InsertBefore(b, a) <=> ~InOrder(a, b)
<1>1. /\ a.idate \in Int /\ b.idate \in Int
      /\ a.sn # NoSN => a.sn \in Int
      /\ b.sn # NoSN => b.sn \in Int
  BY BondFields
<1> QED BY <1>1 DEF InOrder, InsertBefore

\* Bonds with different serial numbers, or none, are inserted in order.
LEMMA InsertBeforeInOrder ==
  ASSUME NEW a \in Bond, NEW b \in Bond,
         InsertBefore(b, a), b.sn = NoSN \/ a.sn # b.sn
  PROVE  InOrder(b, a)
<1>1. /\ a.idate \in Int /\ b.idate \in Int
      /\ a.sn # NoSN => a.sn \in Int
      /\ b.sn # NoSN => b.sn \in Int
  BY BondFields
<1> QED BY <1>1 DEF InOrder, InsertBefore

---------------------------------------------------------------------------
(* Inserting into and removing from a sequence.                            *)

\* What InsertAt returns, position by position.
LEMMA InsertAtProperties ==
  ASSUME NEW S, NEW l \in Seq(S), NEW e \in S, NEW i \in 1 .. Len(l)
  PROVE  /\ InsertAt(l, i, e) \in Seq(S)
         /\ Len(InsertAt(l, i, e)) = Len(l) + 1
         /\ \A k \in 1 .. Len(l) + 1 :
              InsertAt(l, i, e)[k] =
                IF k < i THEN l[k] ELSE IF k = i THEN e ELSE l[k - 1]
<1> DEFINE front == SubSeq(l, 1, i - 1)
           back  == SubSeq(l, i, Len(l))
<1>0. /\ Len(l) \in Nat
      /\ \A k \in 1 .. Len(l) : l[k] \in S
  BY LenProperties, ElementOfSeq
<1>1. /\ front \in Seq(S)
      /\ Len(front) = i - 1
      /\ \A k \in 1 .. i - 1 : front[k] = l[k]
  BY <1>0, SubSeqProperties
<1>2. /\ back \in Seq(S)
      /\ Len(back) = Len(l) - i + 1
      /\ \A k \in 1 .. Len(l) - i + 1 : back[k] = l[i + k - 1]
  BY <1>0, SubSeqProperties
<1>3. <<e>> \in Seq(S) /\ Len(<<e>>) = 1 /\ <<e>>[1] = e
  OBVIOUS
<1> HIDE DEF front, back
<1> DEFINE mid == front \o <<e>>
<1>4. /\ mid \in Seq(S)
      /\ Len(mid) = i
      /\ \A k \in 1 .. i : mid[k] = IF k < i THEN l[k] ELSE e
  <2>1. /\ mid \in Seq(S)
        /\ Len(mid) = Len(front) + Len(<<e>>)
        /\ \A k \in 1 .. Len(front) + Len(<<e>>) :
             mid[k] = IF k <= Len(front) THEN front[k]
                      ELSE <<e>>[k - Len(front)]
    BY <1>1, <1>3, ConcatProperties
  <2> QED BY <2>1, <1>0, <1>1, <1>3
<1>6. InsertAt(l, i, e) = mid \o back
  BY DEF InsertAt, front, back
<1> DEFINE res == mid \o back
<1> HIDE DEF mid
<1>5. /\ res \in Seq(S)
      /\ Len(res) = Len(mid) + Len(back)
      /\ \A k \in 1 .. Len(mid) + Len(back) :
           res[k] = IF k <= Len(mid) THEN mid[k] ELSE back[k - Len(mid)]
  BY <1>4, <1>2, ConcatProperties
<1> HIDE DEF res
<1>7. ASSUME NEW k \in 1 .. Len(l) + 1
      PROVE  res[k] = IF k < i THEN l[k] ELSE IF k = i THEN e ELSE l[k - 1]
  <2>1. CASE k <= i
    BY <2>1, <1>0, <1>2, <1>4, <1>5
  <2>2. CASE k > i
    <3>1. k - i \in 1 .. Len(l) - i + 1 /\ i + (k - i) - 1 = k - 1
      BY <2>2, <1>0
    <3>2. res[k] = back[k - i]
      BY <2>2, <1>0, <1>2, <1>4, <1>5
    <3> QED BY <3>1, <3>2, <2>2, <1>2
  <2> QED BY <2>1, <2>2, <1>0
<1>8. InsertAt(l, i, e) = res
  BY <1>6 DEF res
<1> QED BY <1>0, <1>2, <1>4, <1>5, <1>7, <1>8

\* What RemoveAt returns, position by position.
LEMMA RemoveAtProperties ==
  ASSUME NEW S, NEW l \in Seq(S), NEW i \in 1 .. Len(l)
  PROVE  /\ RemoveAt(l, i) \in Seq(S)
         /\ Len(RemoveAt(l, i)) = Len(l) - 1
         /\ \A k \in 1 .. Len(l) - 1 :
              RemoveAt(l, i)[k] = IF k < i THEN l[k] ELSE l[k + 1]
<1> DEFINE front == SubSeq(l, 1, i - 1)
           back  == SubSeq(l, i + 1, Len(l))
<1>0. /\ Len(l) \in Nat
      /\ \A k \in 1 .. Len(l) : l[k] \in S
  BY LenProperties, ElementOfSeq
<1>1. /\ front \in Seq(S)
      /\ Len(front) = i - 1
      /\ \A k \in 1 .. i - 1 : front[k] = l[k]
  BY <1>0, SubSeqProperties
<1>2. /\ back \in Seq(S)
      /\ Len(back) = Len(l) - i
      /\ \A k \in 1 .. Len(l) - i : back[k] = l[i + k]
  <2>1. /\ back \in Seq(S)
        /\ Len(back) = IF i + 1 <= Len(l) THEN Len(l) - (i + 1) + 1 ELSE 0
        /\ \A k \in 1 .. Len(l) - (i + 1) + 1 : back[k] = l[(i + 1) + k - 1]
    BY <1>0, SubSeqProperties
  <2> QED BY <2>1, <1>0
<1> HIDE DEF front, back
<1>4. RemoveAt(l, i) = front \o back
  BY DEF RemoveAt, front, back
<1> DEFINE res == front \o back
<1>3. /\ res \in Seq(S)
      /\ Len(res) = Len(front) + Len(back)
      /\ \A k \in 1 .. Len(front) + Len(back) :
           res[k] = IF k <= Len(front) THEN front[k]
                    ELSE back[k - Len(front)]
  BY <1>1, <1>2, ConcatProperties
<1>5. RemoveAt(l, i) = res
  BY <1>4
<1> HIDE DEF res
<1>6. Len(res) = Len(l) - 1
  BY <1>0, <1>1, <1>2, <1>3
<1>7. \A k \in 1 .. Len(l) - 1 : res[k] = IF k < i THEN l[k] ELSE l[k + 1]
  <2> SUFFICES ASSUME NEW k \in 1 .. Len(l) - 1
               PROVE  res[k] = IF k < i THEN l[k] ELSE l[k + 1]
    OBVIOUS
  <2>1. k \in 1 .. Len(front) + Len(back)
    BY <1>0, <1>1, <1>2
  <2>2. CASE k < i
    <3>1. res[k] = front[k] /\ k \in 1 .. i - 1
      BY <2>1, <2>2, <1>0, <1>1, <1>3
    <3> QED BY <3>1, <2>2, <1>1
  <2>3. CASE k >= i
    <3>1. /\ k - (i - 1) \in 1 .. Len(l) - i
          /\ i + (k - (i - 1)) = k + 1
      BY <2>3, <1>0
    <3>2. res[k] = back[k - (i - 1)]
      BY <2>1, <2>3, <1>0, <1>1, <1>3
    <3> QED BY <3>1, <3>2, <2>3, <1>2
  <2> QED BY <2>2, <2>3, <1>0
<1> QED BY <1>3, <1>5, <1>6, <1>7

---------------------------------------------------------------------------
(* gb_doc_add_bond: g_list_insert_sorted.                                  *)

\* A set of positions has a least one.
LEMMA MinProperties ==
  ASSUME NEW T, T \subseteq Nat, T # {}
  PROVE  /\ Min(T) \in T
         /\ \A y \in T : Min(T) <= y
<1> DEFINE less == { ss \in Nat \X Nat : ss[1] < ss[2] }
<1>1. IsWellFoundedOn(less, Nat)
  <2>1. OpToRel(<, Nat) = less
    BY Zenon DEF OpToRel
  <2> QED BY <2>1, NatLessThanWellFounded, Zenon
<1>2. PICK x \in T : \A y \in T : <<y, x>> \notin less
  <2> HIDE DEF less
  <2> QED BY <1>1, WFMin
<1>3. \A y \in T : x <= y
  <2> SUFFICES ASSUME NEW y \in T, ~(x <= y)
               PROVE  FALSE
    OBVIOUS
  <2>1. x \in Nat /\ y \in Nat /\ y < x
    OBVIOUS
  <2>2. <<y, x>> \in less
    BY <2>1
  <2> QED BY <1>2, <2>2
<1> QED BY <1>2, <1>3 DEF Min

\* The place where a bond goes: behind every bond it may not precede, before
\* the first one it may.
Place(l, b, i) ==
  /\ InsertSorted(l, b) \in Seq(Bond)
  /\ Len(InsertSorted(l, b)) = Len(l) + 1
  /\ \A k \in 1 .. Len(l) + 1 :
       InsertSorted(l, b)[k] =
         IF k < i THEN l[k] ELSE IF k = i THEN b ELSE l[k - 1]
  /\ \A k \in 1 .. i - 1 : ~InsertBefore(b, l[k])
  /\ i <= Len(l) => InsertBefore(b, l[i])

\* There is such a place.
LEMMA InsertSortedPlace ==
  ASSUME NEW l \in Seq(Bond), NEW b \in Bond
  PROVE  \E i \in 1 .. Len(l) + 1 : Place(l, b, i)
<1> DEFINE before == { i \in DOMAIN l : InsertBefore(b, l[i]) }
<1>0. Len(l) \in Nat /\ DOMAIN l = 1 .. Len(l)
  BY LenProperties
<1>1. CASE before = {}
  <2>1. InsertSorted(l, b) = Append(l, b)
    BY <1>1 DEF InsertSorted
  <2>2. /\ Append(l, b) \in Seq(Bond)
        /\ Len(Append(l, b)) = Len(l) + 1
        /\ \A k \in 1 .. Len(l) : Append(l, b)[k] = l[k]
        /\ Append(l, b)[Len(l) + 1] = b
    BY AppendProperties
  <2>3. Place(l, b, Len(l) + 1)
    BY <1>0, <1>1, <2>1, <2>2 DEF Place
  <2> QED BY <1>0, <2>3
<1>2. CASE before # {}
  <2>1. PICK i \in before : i = Min(before) /\ \A k \in before : i <= k
    <3>1. before \subseteq Nat
      BY <1>0
    <3> HIDE DEF before
    <3> QED BY <3>1, <1>2, MinProperties
  <2>2. InsertSorted(l, b) = InsertAt(l, i, b)
    BY <1>2, <2>1 DEF InsertSorted
  <2>3. i \in 1 .. Len(l) /\ InsertBefore(b, l[i])
    BY <1>0
  <2>6. \A k \in 1 .. i - 1 : ~InsertBefore(b, l[k])
    <3> SUFFICES ASSUME NEW k \in 1 .. i - 1, InsertBefore(b, l[k])
                 PROVE  FALSE
      OBVIOUS
    <3>1. k \in before
      BY <1>0, <2>3
    <3> HIDE DEF before
    <3>2. i <= k
      BY <2>1, <3>1
    <3> QED BY <1>0, <2>3, <3>2
  <2> HIDE DEF before
  <2>4. /\ InsertAt(l, i, b) \in Seq(Bond)
        /\ Len(InsertAt(l, i, b)) = Len(l) + 1
        /\ \A k \in 1 .. Len(l) + 1 :
             InsertAt(l, i, b)[k] =
               IF k < i THEN l[k] ELSE IF k = i THEN b ELSE l[k - 1]
    BY <2>3, InsertAtProperties
  <2>5. Place(l, b, i)
    BY <2>2, <2>3, <2>4, <2>6 DEF Place
  <2> QED BY <1>0, <2>3, <2>5
<1> QED BY <1>1, <1>2

\* A bond without a duplicate goes where it keeps the inventory in order.
LEMMA InsertSortedOrdered ==
  ASSUME NEW l \in Seq(Bond), NEW b \in Bond,
         Ordered(l), ~HasDuplicateSN(l, b)
  PROVE  Ordered(InsertSorted(l, b))
<1> DEFINE r == InsertSorted(l, b)
<1>1. PICK i \in 1 .. Len(l) + 1 : Place(l, b, i)
  BY InsertSortedPlace
<1>0. /\ Len(l) \in Nat /\ DOMAIN l = 1 .. Len(l)
      /\ \A k \in 1 .. Len(l) : l[k] \in Bond
  BY LenProperties, ElementOfSeq
<1>2. /\ r \in Seq(Bond)
      /\ Len(r) = Len(l) + 1
      /\ \A k \in 1 .. Len(l) + 1 :
           r[k] = IF k < i THEN l[k] ELSE IF k = i THEN b ELSE l[k - 1]
  BY <1>1 DEF Place
<1>3. DOMAIN r = 1 .. Len(l) + 1
  BY <1>2, LenProperties
<1> HIDE DEF r
<1>4. \A k \in 1 .. i - 1 : InOrder(l[k], b)
  BY <1>0, <1>1, InsertBeforeIsNotInOrder DEF Place
<1>5. \A k \in i .. Len(l) : InOrder(b, l[k])
  <2> SUFFICES ASSUME NEW k \in i .. Len(l)
               PROVE  InOrder(b, l[k])
    OBVIOUS
  <2>1. i \in 1 .. Len(l) /\ k \in 1 .. Len(l)
    BY <1>0
  <2>2. b.sn = NoSN \/ l[i].sn # b.sn
    BY <1>0, <2>1 DEF HasDuplicateSN
  <2>3. InOrder(b, l[i])
    BY <1>0, <1>1, <2>1, <2>2, InsertBeforeInOrder DEF Place
  <2>4. CASE k = i
    BY <2>3, <2>4
  <2>5. CASE i < k
    <3>1. InOrder(l[i], l[k])
      BY <1>0, <2>1, <2>5 DEF Ordered
    <3> QED BY <1>0, <2>1, <2>3, <3>1, InOrderTransitive
  <2> QED BY <2>4, <2>5, <1>0
<1>6. ASSUME NEW j \in DOMAIN r, NEW k \in DOMAIN r, j < k
      PROVE  InOrder(r[j], r[k])
  <2>0. j \in 1 .. Len(l) + 1 /\ k \in 1 .. Len(l) + 1
    BY <1>3
  <2>1. CASE k < i
    <3>1. r[j] = l[j] /\ r[k] = l[k]
      BY <1>0, <1>2, <1>6, <2>0, <2>1
    <3> QED BY <1>0, <1>6, <2>0, <2>1, <3>1 DEF Ordered
  <2>2. CASE k = i
    <3>1. r[j] = l[j] /\ r[k] = b
      BY <1>0, <1>2, <1>6, <2>0, <2>2
    <3> QED BY <1>0, <1>4, <1>6, <2>0, <2>2, <3>1
  <2>3. CASE i < k /\ j = i
    <3>1. r[j] = b /\ r[k] = l[k - 1] /\ k - 1 \in i .. Len(l)
      BY <1>0, <1>2, <2>0, <2>3
    <3> QED BY <1>5, <3>1
  <2>4. CASE i < k /\ j < i
    <3>1. r[j] = l[j] /\ r[k] = l[k - 1] /\ j < k - 1
      BY <1>0, <1>2, <2>0, <2>4
    <3> QED BY <1>0, <2>0, <2>4, <3>1 DEF Ordered
  <2>5. CASE i < k /\ i < j
    <3>1. r[j] = l[j - 1] /\ r[k] = l[k - 1]
      BY <1>0, <1>2, <2>0, <2>5
    <3> QED BY <1>0, <1>6, <2>0, <2>5, <3>1 DEF Ordered
  <2> QED BY <1>0, <2>0, <2>1, <2>2, <2>3, <2>4, <2>5
<1> QED BY <1>6 DEF Ordered, r

\* A bond without a duplicate leaves the serial numbers distinct.
LEMMA InsertSortedUniqueSNs ==
  ASSUME NEW l \in Seq(Bond), NEW b \in Bond,
         UniqueSNs(l), ~HasDuplicateSN(l, b)
  PROVE  UniqueSNs(InsertSorted(l, b))
<1> DEFINE r == InsertSorted(l, b)
<1>1. PICK i \in 1 .. Len(l) + 1 : Place(l, b, i)
  BY InsertSortedPlace
<1>0. Len(l) \in Nat /\ DOMAIN l = 1 .. Len(l)
  BY LenProperties
<1>2. /\ r \in Seq(Bond)
      /\ Len(r) = Len(l) + 1
      /\ \A k \in 1 .. Len(l) + 1 :
           r[k] = IF k < i THEN l[k] ELSE IF k = i THEN b ELSE l[k - 1]
  BY <1>1 DEF Place
<1>3. DOMAIN r = 1 .. Len(l) + 1
  BY <1>2, LenProperties
<1> HIDE DEF r
<1>4. ASSUME NEW j \in DOMAIN r, NEW k \in DOMAIN r,
             r[j].sn = r[k].sn, r[j].sn # NoSN
      PROVE  j = k
  <2>0. j \in 1 .. Len(l) + 1 /\ k \in 1 .. Len(l) + 1
    BY <1>3
  <2>1. \A n \in 1 .. Len(l) : b.sn # NoSN => l[n].sn # b.sn
    BY <1>0 DEF HasDuplicateSN
  <2>2. \A m, n \in 1 .. Len(l) : l[m].sn = l[n].sn => m = n \/ l[m].sn = NoSN
    BY <1>0 DEF UniqueSNs
  <2>3. \A n \in 1 .. Len(l) + 1 :
          \/ n < i /\ r[n] = l[n] /\ n \in 1 .. Len(l)
          \/ n = i /\ r[n] = b
          \/ i < n /\ r[n] = l[n - 1] /\ n - 1 \in 1 .. Len(l)
    BY <1>0, <1>2
  <2>4. CASE j = i \/ k = i
    BY <1>0, <1>4, <2>0, <2>1, <2>3, <2>4
  <2>5. CASE j < i /\ k < i
    BY <1>0, <1>4, <2>0, <2>2, <2>3, <2>5
  <2>6. CASE i < j /\ i < k
    BY <1>0, <1>4, <2>0, <2>2, <2>3, <2>6
  <2>7. CASE (j < i /\ i < k) \/ (k < i /\ i < j)
    BY <1>0, <1>4, <2>0, <2>2, <2>3, <2>7
  <2> QED BY <1>0, <2>0, <2>4, <2>5, <2>6, <2>7
<1> QED BY <1>4 DEF UniqueSNs, r

\* The bond objects of the list after the insertion are those before it and
\* the new one, and they stay distinct.
LEMMA InsertSortedPtrs ==
  ASSUME NEW l \in Seq(Bond), NEW b \in Bond,
         UniquePtrs(l), b.ptr \notin Ptrs(l)
  PROVE  /\ UniquePtrs(InsertSorted(l, b))
         /\ Ptrs(InsertSorted(l, b)) = Ptrs(l) \cup {b.ptr}
<1> DEFINE r == InsertSorted(l, b)
<1>1. PICK i \in 1 .. Len(l) + 1 : Place(l, b, i)
  BY InsertSortedPlace
<1>0. Len(l) \in Nat /\ DOMAIN l = 1 .. Len(l)
  BY LenProperties
<1>2. /\ r \in Seq(Bond)
      /\ Len(r) = Len(l) + 1
      /\ \A k \in 1 .. Len(l) + 1 :
           r[k] = IF k < i THEN l[k] ELSE IF k = i THEN b ELSE l[k - 1]
  BY <1>1 DEF Place
<1>3. DOMAIN r = 1 .. Len(l) + 1
  BY <1>2, LenProperties
<1> HIDE DEF r
<1>4. \A n \in 1 .. Len(l) + 1 :
        \/ n < i /\ r[n] = l[n] /\ n \in 1 .. Len(l)
        \/ n = i /\ r[n] = b
        \/ i < n /\ r[n] = l[n - 1] /\ n - 1 \in 1 .. Len(l)
  BY <1>0, <1>2
<1>5. \A n \in 1 .. Len(l) : l[n].ptr # b.ptr
  BY <1>0 DEF Ptrs
<1>6. ASSUME NEW j \in DOMAIN r, NEW k \in DOMAIN r, r[j].ptr = r[k].ptr
      PROVE  j = k
  <2>0. j \in 1 .. Len(l) + 1 /\ k \in 1 .. Len(l) + 1
    BY <1>3
  <2>2. \A m, n \in 1 .. Len(l) : l[m].ptr = l[n].ptr => m = n
    BY <1>0 DEF UniquePtrs
  <2>4. CASE j = i \/ k = i
    BY <1>0, <1>6, <2>0, <1>5, <1>4, <2>4
  <2>5. CASE j < i /\ k < i
    BY <1>0, <1>6, <2>0, <2>2, <1>4, <2>5
  <2>6. CASE i < j /\ i < k
    BY <1>0, <1>6, <2>0, <2>2, <1>4, <2>6
  <2>7. CASE (j < i /\ i < k) \/ (k < i /\ i < j)
    BY <1>0, <1>6, <2>0, <2>2, <1>4, <2>7
  <2> QED BY <1>0, <2>0, <2>4, <2>5, <2>6, <2>7
<1>7. Ptrs(r) \subseteq Ptrs(l) \cup {b.ptr}
  BY <1>0, <1>3, <1>4 DEF Ptrs
<1>8. ASSUME NEW n \in 1 .. Len(l)
      PROVE  l[n].ptr \in Ptrs(r)
  <2>1. CASE n < i
    <3>1. n \in DOMAIN r /\ r[n] = l[n]
      BY <1>0, <1>2, <1>3, <2>1
    <3> QED BY <3>1 DEF Ptrs
  <2>2. CASE n >= i
    <3>1. n + 1 \in DOMAIN r /\ (n + 1) - 1 = n /\ r[n + 1] = l[(n + 1) - 1]
      BY <1>0, <1>2, <1>3, <2>2
    <3> QED BY <3>1 DEF Ptrs
  <2> QED BY <1>0, <2>1, <2>2
<1>9. b.ptr \in Ptrs(r)
  <2>1. i \in DOMAIN r /\ r[i] = b
    BY <1>0, <1>2, <1>3
  <2> QED BY <2>1 DEF Ptrs
<1>10. Ptrs(r) = Ptrs(l) \cup {b.ptr}
  BY <1>0, <1>7, <1>8, <1>9 DEF Ptrs
<1> QED BY <1>6, <1>10 DEF UniquePtrs, r

\* A bond that may stand behind the whole list goes to its end: reading a
\* list that was written in order rebuilds it.
LEMMA InsertSortedAtEnd ==
  ASSUME NEW l \in Seq(Bond), NEW b \in Bond,
         \A k \in DOMAIN l : InOrder(l[k], b)
  PROVE  InsertSorted(l, b) = Append(l, b)
<1>1. \A k \in DOMAIN l : l[k] \in Bond
  BY LenProperties, ElementOfSeq
<1>2. \A k \in DOMAIN l : ~InsertBefore(b, l[k])
  BY <1>1, InsertBeforeIsNotInOrder
<1> QED BY <1>2 DEF InsertSorted

---------------------------------------------------------------------------
(* gb_doc_delete_bond: g_list_find and g_list_remove_link.                 *)

\* The list without one of its bonds: the others keep their places.
LEMMA RemovePtrPlace ==
  ASSUME NEW l \in Seq(Bond), NEW p \in Ptrs(l)
  PROVE  \E i \in 1 .. Len(l) :
           /\ l[i].ptr = p
           /\ RemovePtr(l, p) \in Seq(Bond)
           /\ Len(RemovePtr(l, p)) = Len(l) - 1
           /\ \A k \in 1 .. Len(l) - 1 :
                RemovePtr(l, p)[k] = IF k < i THEN l[k] ELSE l[k + 1]
<1>0. Len(l) \in Nat /\ DOMAIN l = 1 .. Len(l)
  BY LenProperties
<1>1. PICK i \in DOMAIN l :
        i = (CHOOSE j \in DOMAIN l : l[j].ptr = p) /\ l[i].ptr = p
  BY DEF Ptrs
<1>2. RemovePtr(l, p) = RemoveAt(l, i)
  BY <1>1 DEF RemovePtr
<1>3. i \in 1 .. Len(l)
  BY <1>0
<1>4. /\ RemoveAt(l, i) \in Seq(Bond)
      /\ Len(RemoveAt(l, i)) = Len(l) - 1
      /\ \A k \in 1 .. Len(l) - 1 :
           RemoveAt(l, i)[k] = IF k < i THEN l[k] ELSE l[k + 1]
  BY <1>3, RemoveAtProperties
<1> QED BY <1>1, <1>2, <1>3, <1>4

\* A deletion keeps the inventory a list of bonds, in order, its serial
\* numbers and its bond objects distinct.
LEMMA RemovePtrKeeps ==
  ASSUME NEW l \in Seq(Bond), NEW p \in Ptrs(l)
  PROVE  /\ RemovePtr(l, p) \in Seq(Bond)
         /\ Ordered(l) => Ordered(RemovePtr(l, p))
         /\ UniqueSNs(l) => UniqueSNs(RemovePtr(l, p))
         /\ UniquePtrs(l) => UniquePtrs(RemovePtr(l, p))
<1> DEFINE r == RemovePtr(l, p)
           old(k, i) == IF k < i THEN k ELSE k + 1
<1>0. Len(l) \in Nat /\ DOMAIN l = 1 .. Len(l)
  BY LenProperties
<1>1. PICK i \in 1 .. Len(l) :
        /\ r \in Seq(Bond)
        /\ Len(r) = Len(l) - 1
        /\ \A k \in 1 .. Len(l) - 1 : r[k] = IF k < i THEN l[k] ELSE l[k + 1]
  BY RemovePtrPlace
<1>2. DOMAIN r = 1 .. Len(l) - 1
  BY <1>0, <1>1, LenProperties
<1> HIDE DEF r
<1>3. \A k \in DOMAIN r : old(k, i) \in DOMAIN l /\ r[k] = l[old(k, i)]
  BY <1>0, <1>1, <1>2
<1>4. \A j, k \in DOMAIN r : j < k => old(j, i) < old(k, i)
  BY <1>0, <1>2
<1>5. \A j, k \in DOMAIN r : old(j, i) = old(k, i) => j = k
  BY <1>0, <1>2
<1> HIDE DEF old
<1>6. Ordered(l) => Ordered(r)
  BY <1>3, <1>4 DEF Ordered
<1>7. UniqueSNs(l) => UniqueSNs(r)
  BY <1>3, <1>5 DEF UniqueSNs
<1>8. UniquePtrs(l) => UniquePtrs(r)
  BY <1>3, <1>5 DEF UniquePtrs
<1> QED BY <1>1, <1>6, <1>7, <1>8 DEF r

---------------------------------------------------------------------------
(* What a file keeps of a list, and reading it back (doc-xml.c).           *)

\* A bond made from a record of a file is a bond with that record's content.
LEMMA MakeBondProperties ==
  ASSUME NEW p \in Ptr, NEW c \in Content
  PROVE  /\ MakeBond(p, c) \in Bond
         /\ MakeBond(p, c).ptr = p
         /\ MakeBond(p, c).idate = c.idate
         /\ MakeBond(p, c).sn = c.sn
         /\ ContentOf(MakeBond(p, c)) = c
<1>1. c = [idate |-> c.idate, sn |-> c.sn]
  BY DEF Content
<1>2. c.idate \in Date /\ c.sn \in SN \cup {NoSN}
  BY DEF Content
<1> QED BY <1>1, <1>2 DEF MakeBond, ContentOf, Bond

\* The contents of a list are a list of records, in the same order.
LEMMA ContentsProperties ==
  ASSUME NEW l \in Seq(Bond)
  PROVE  /\ Contents(l) \in Seq(Content)
         /\ Len(Contents(l)) = Len(l)
         /\ DOMAIN Contents(l) = DOMAIN l
         /\ \A k \in DOMAIN l : /\ Contents(l)[k] = ContentOf(l[k])
                                /\ Contents(l)[k].idate = l[k].idate
                                /\ Contents(l)[k].sn = l[k].sn
<1>0. /\ Len(l) \in Nat /\ DOMAIN l = 1 .. Len(l)
      /\ \A k \in 1 .. Len(l) : l[k] \in Bond
  BY LenProperties, ElementOfSeq
<1>1. \A k \in 1 .. Len(l) : ContentOf(l[k]) \in Content
  BY <1>0 DEF ContentOf, Content, Bond
<1>2. Contents(l) = [k \in 1 .. Len(l) |-> ContentOf(l[k])]
  BY <1>0 DEF Contents
<1>3. Contents(l) \in Seq(Content)
  <2>1. Contents(l) \in [1 .. Len(l) -> Content]
    BY <1>1, <1>2
  <2> QED BY <1>0, <2>1
<1>4. Len(Contents(l)) = Len(l)
  BY <1>0, <1>2, <1>3, LenProperties
<1> QED BY <1>0, <1>2, <1>3, <1>4 DEF ContentOf

\* Being in order and having distinct serial numbers are matters of the
\* contents alone.
LEMMA ContentsOrdered ==
  ASSUME NEW l \in Seq(Bond)
  PROVE  /\ Ordered(l) => Ordered(Contents(l))
         /\ UniqueSNs(l) => UniqueSNs(Contents(l))
BY ContentsProperties DEF Ordered, InOrder, UniqueSNs

\* The reading loop at a record of a file that holds an ordered inventory:
\* the record is no duplicate, its bond goes to the end of the list, and
\* list and rest of the file together are still what the file holds.
LEMMA ReadBack ==
  ASSUME NEW l \in Seq(Bond), NEW q \in Seq(Content), q # <<>>, NEW p \in Ptr,
         Ordered(Contents(l) \o q), UniqueSNs(Contents(l) \o q)
  PROVE  /\ ~HasDuplicateSN(l, MakeBond(p, Head(q)))
         /\ InsertSorted(l, MakeBond(p, Head(q))) = Append(l, MakeBond(p, Head(q)))
         /\ Contents(InsertSorted(l, MakeBond(p, Head(q)))) \o Tail(q)
              = Contents(l) \o q
<1> DEFINE b == MakeBond(p, Head(q))
           c == Contents(l)
           d == c \o q
           n == Len(l) + 1
<1>0. Len(l) \in Nat /\ DOMAIN l = 1 .. Len(l) /\ Len(q) \in Nat \ {0}
  BY LenProperties, EmptySeq
<1>1. /\ c \in Seq(Content) /\ Len(c) = Len(l)
      /\ \A k \in 1 .. Len(l) : c[k].idate = l[k].idate /\ c[k].sn = l[k].sn
  BY <1>0, ContentsProperties
<1>2. /\ Head(q) \in Content /\ Head(q) = q[1]
      /\ Tail(q) \in Seq(Content)
  BY HeadTailProperties
<1>3. /\ b \in Bond /\ b.idate = Head(q).idate /\ b.sn = Head(q).sn
      /\ ContentOf(b) = Head(q)
  BY <1>2, MakeBondProperties
<1> HIDE DEF b, c
<1>4. /\ DOMAIN d = 1 .. Len(l) + Len(q)
      /\ d[n] = Head(q)
      /\ \A k \in 1 .. Len(l) : d[k] = c[k]
  <2>1. /\ d \in Seq(Content) /\ Len(d) = Len(c) + Len(q)
        /\ \A k \in 1 .. Len(c) + Len(q) :
             d[k] = IF k <= Len(c) THEN c[k] ELSE q[k - Len(c)]
    BY <1>1, ConcatProperties
  <2>2. DOMAIN d = 1 .. Len(d)
    BY <2>1, LenProperties
  <2> HIDE DEF d
  <2>3. d[n] = q[1]
    BY <1>0, <1>1, <2>1
  <2> QED BY <1>0, <1>1, <1>2, <2>1, <2>2, <2>3
<1>5. Ordered(d) /\ UniqueSNs(d)
  BY DEF c
<1> HIDE DEF d
<1>6. n \in DOMAIN d /\ \A k \in DOMAIN l : k \in DOMAIN d /\ k < n
  BY <1>0, <1>4
<1>7. \A k \in DOMAIN l : InOrder(l[k], b)
  <2>1. \A k \in DOMAIN l : InOrder(d[k], d[n])
    BY <1>5, <1>6 DEF Ordered
  <2> QED BY <1>0, <1>1, <1>3, <1>4, <2>1 DEF InOrder
<1>8. ~HasDuplicateSN(l, b)
  <2>1. \A k \in DOMAIN l : d[k].sn = d[n].sn => d[k].sn = NoSN
    BY <1>0, <1>5, <1>6 DEF UniqueSNs
  <2> QED BY <1>0, <1>1, <1>3, <1>4, <2>1 DEF HasDuplicateSN
<1>9. InsertSorted(l, b) = Append(l, b)
  BY <1>3, <1>7, InsertSortedAtEnd
<1>10. Contents(Append(l, b)) = Append(c, Head(q))
  <2>1. /\ Append(l, b) \in Seq(Bond)
        /\ Len(Append(l, b)) = Len(l) + 1
        /\ \A k \in 1 .. Len(l) : Append(l, b)[k] = l[k]
        /\ Append(l, b)[Len(l) + 1] = b
    BY <1>3, AppendProperties
  <2>2. /\ Contents(Append(l, b)) \in Seq(Content)
        /\ Len(Contents(Append(l, b))) = Len(l) + 1
        /\ \A k \in 1 .. Len(l) + 1 :
             Contents(Append(l, b))[k] = ContentOf(Append(l, b)[k])
    BY <2>1, <1>0, ContentsProperties, LenProperties
  <2>3. /\ Append(c, Head(q)) \in Seq(Content)
        /\ Len(Append(c, Head(q))) = Len(l) + 1
        /\ \A k \in 1 .. Len(l) : Append(c, Head(q))[k] = c[k]
        /\ Append(c, Head(q))[Len(l) + 1] = Head(q)
    BY <1>1, <1>2, AppendProperties
  <2>4. \A k \in 1 .. Len(l) : c[k] = ContentOf(l[k])
    BY <1>0, ContentsProperties DEF c
  <2>5. ASSUME NEW k \in 1 .. Len(l) + 1
        PROVE  Contents(Append(l, b))[k] = Append(c, Head(q))[k]
    <3>1. CASE k \in 1 .. Len(l)
      BY <2>1, <2>2, <2>3, <2>4, <3>1
    <3>2. CASE k = Len(l) + 1
      BY <1>3, <2>1, <2>2, <2>3, <3>2
    <3>3. k \in 1 .. Len(l) \/ k = Len(l) + 1
      BY <1>0
    <3> QED BY <3>1, <3>2, <3>3, Zenon
  <2> QED BY <2>2, <2>3, <2>5, SeqEqual
<1>11. Append(c, Head(q)) \o Tail(q) = d
  <2>1. Append(c, Head(q)) = c \o <<Head(q)>>
    BY <1>1, <1>2, AppendIsConcat
  <2>2. <<Head(q)>> \in Seq(Content)
    BY <1>2
  <2>3. (c \o <<Head(q)>>) \o Tail(q) = c \o (<<Head(q)>> \o Tail(q))
    BY <1>1, <1>2, <2>2, ConcatAssociative
  <2>4. <<Head(q)>> \o Tail(q) = q
    <3>1. <<Head(q)>> \o Tail(q) \in Seq(Content)
      BY <1>2, <2>2, ConcatProperties
    <3> QED BY <1>0, <1>2, <2>2, <3>1, HeadTailProperties, ConcatProperties, SeqEqual
  <2> QED BY <2>1, <2>3, <2>4 DEF d
<1> QED BY <1>8, <1>9, <1>10, <1>11 DEF b, c, d
=============================================================================
