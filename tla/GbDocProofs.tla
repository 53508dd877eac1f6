---------------------------- MODULE GbDocProofs ----------------------------
(***************************************************************************)
(* What the document promises, proved for every set of addresses, dates,   *)
(* serial numbers and titles: its type, the order of its list, the         *)
(* distinctness of its serial numbers, that its own file reads back, that  *)
(* a clean document's file is not stale; that the document implements      *)
(* Inventory; and that all of it holds with imports read from the files of *)
(* the Savings Bond Wizard.                                                *)
(***************************************************************************)
EXTENDS SbwImport, BondListProofs, FiniteSetTheorems

\* The file holds an inventory as some list once held it.
FileOrdered ==
  Readable(disk) => Ordered(disk.bonds) /\ UniqueSNs(disk.bonds)

\* Part of the file is in the list, the rest is still to be read.
ReadingOwnFile ==
  phase = "reading" /\ titled
    => /\ Readable(disk)
       /\ disk.title = title
       /\ disk.bonds = Contents(list) \o pending

\* Without a document there is nothing of one left.
ClosedIsEmpty ==
  /\ phase = "closed" => list = <<>> /\ title = NoTitle /\ ~titled /\ ~modified_flag
  /\ phase # "reading" => pending = <<>>

\* The inductive invariant.
DocInv ==
  /\ TypeOK
  /\ ListOrdered
  /\ SerialNumbersUnique
  /\ FileOrdered
  /\ ReadingOwnFile
  /\ ClosedIsEmpty
  /\ CleanNeverStale

---------------------------------------------------------------------------
\* The program starts with nothing in hand.
LEMMA InitDocInv == Init => DocInv
<1> SUFFICES ASSUME Init
             PROVE  DocInv
  OBVIOUS
<1>1. TypeOK
  BY EmptySeq DEF Init, TypeOK
<1>2. ~Readable(disk)
  BY DEF Init, Readable
<1>3. ListOrdered /\ SerialNumbersUnique
  BY DEF Init, ListOrdered, SerialNumbersUnique, Ordered, UniqueSNs, UniquePtrs
<1> QED BY <1>1, <1>2, <1>3 DEF Init, DocInv, FileOrdered, ReadingOwnFile,
                                ClosedIsEmpty, CleanNeverStale

\* Adding a bond keeps the list what it should be, whether the bond is taken
\* or rejected.
LEMMA AddBondList ==
  ASSUME NEW b \in Bond, AddBond(b), list \in Seq(Bond),
         ListOrdered, SerialNumbersUnique
  PROVE  /\ list' \in Seq(Bond)
         /\ ListOrdered'
         /\ SerialNumbersUnique'
<1>1. CASE list' = list
  BY <1>1 DEF ListOrdered, SerialNumbersUnique
<1>2. CASE ~HasDuplicateSN(list, b) /\ list' = InsertSorted(list, b)
  <2>1. list' \in Seq(Bond)
    BY <1>2, InsertSortedPlace DEF Place
  <2>2. Ordered(list')
    BY <1>2, InsertSortedOrdered DEF ListOrdered
  <2>3. UniqueSNs(list')
    BY <1>2, InsertSortedUniqueSNs DEF SerialNumbersUnique
  <2>4. UniquePtrs(list')
    BY <1>2, InsertSortedPtrs DEF SerialNumbersUnique, AddBond
  <2> QED BY <2>1, <2>2, <2>3, <2>4 DEF ListOrdered, SerialNumbersUnique
<1> QED BY <1>1, <1>2 DEF AddBond

\* The records of a readable file.
LEMMA DiskRecord ==
  ASSUME TypeOK, Readable(disk)
  PROVE  /\ disk.title \in Title \cup {NoTitle}
         /\ disk.bonds \in Seq(Content)
BY DEF TypeOK, Readable, InventoryFile

\* What is written is an inventory file, and one that opens.
LEMMA DocToXmlType ==
  ASSUME TypeOK
  PROVE  /\ DocToXml \in InventoryFile
         /\ DocToXml.bonds = Contents(list)
         /\ Readable(DocToXml)
<1>1. DocToXml \in InventoryFile
  BY TitleAssumption, ContentsProperties
     DEF TitleAssumption, TypeOK, DocToXml, InventoryFile
<1> QED BY <1>1, FileAssumption DEF FileAssumption, DocToXml, Readable

\* Every action of the document, and none, preserves the invariant.
LEMMA NextDocInv == DocInv /\ [Next]_docVars => DocInv'
<1> SUFFICES ASSUME DocInv, [Next]_docVars
             PROVE  DocInv'
  OBVIOUS
<1> USE DEF DocInv
<1> DEFINE Conclusion == DocInv'
<1>1. CASE NewDoc
  <2>1. TypeOK'
    BY <1>1 DEF NewDoc, TypeOK
  <2> QED BY <1>1, <2>1 DEF NewDoc, ListOrdered, SerialNumbersUnique,
             FileOrdered, ReadingOwnFile, ClosedIsEmpty, CleanNeverStale
<1>2. ASSUME NEW b \in Bond, EditAddBond(b)
      PROVE  Conclusion
  <2>1. list' \in Seq(Bond) /\ ListOrdered' /\ SerialNumbersUnique'
    BY <1>2, AddBondList DEF EditAddBond, TypeOK
  <2>2. TypeOK'
    BY <1>2, <2>1 DEF EditAddBond, AddBond, TypeOK
  <2>3. CleanNeverStale'
    BY <1>2 DEF EditAddBond, AddBond, CleanNeverStale
  <2> QED BY <1>2, <2>1, <2>2, <2>3
          DEF EditAddBond, FileOrdered, ReadingOwnFile, ClosedIsEmpty
<1>3. ASSUME NEW p \in Ptr, DeleteBond(p)
      PROVE  Conclusion
  <2>1. list' \in Seq(Bond) /\ ListOrdered' /\ SerialNumbersUnique'
    <3>1. CASE p \in Ptrs(list)
      BY <1>3, <3>1, RemovePtrKeeps
         DEF DeleteBond, TypeOK, ListOrdered, SerialNumbersUnique
    <3>2. CASE p \notin Ptrs(list)
      BY <1>3, <3>2 DEF DeleteBond, TypeOK, ListOrdered, SerialNumbersUnique
    <3> QED BY <3>1, <3>2
  <2>2. TypeOK'
    BY <1>3, <2>1 DEF DeleteBond, TypeOK
  <2>3. CleanNeverStale'
    BY <1>3 DEF DeleteBond, CleanNeverStale
  <2> QED BY <1>3, <2>1, <2>2, <2>3
          DEF DeleteBond, FileOrdered, ReadingOwnFile, ClosedIsEmpty
<1>4. ASSUME NEW t \in Title, SetTitle(t)
      PROVE  Conclusion
  <2>1. TypeOK'
    BY <1>4 DEF SetTitle, TypeOK
  <2> QED BY <1>4, <2>1 DEF SetTitle, ListOrdered, SerialNumbersUnique,
             FileOrdered, ReadingOwnFile, ClosedIsEmpty, CleanNeverStale
<1>5. CASE XmlSave
  <2>1. TypeOK'
    BY <1>5, DocToXmlType DEF XmlSave, TypeOK
  <2>2. FileOrdered'
    <3>1. Ordered(Contents(list)) /\ UniqueSNs(Contents(list))
      BY ContentsOrdered DEF TypeOK, ListOrdered, SerialNumbersUnique
    <3> QED BY <1>5, <3>1, DocToXmlType DEF XmlSave, FileOrdered
  <2>3. CleanNeverStale'
    BY <1>5, DocToXmlType DEF XmlSave, CleanNeverStale, Readable
  <2> QED BY <1>5, <2>1, <2>2, <2>3 DEF XmlSave, ListOrdered,
             SerialNumbersUnique, ReadingOwnFile, ClosedIsEmpty
<1>6. CASE XmlSaveFail
  <2>1. TypeOK'
    BY <1>6 DEF XmlSaveFail, TypeOK
  <2>2. FileOrdered'
    BY <1>6 DEF XmlSaveFail, FileOrdered, Readable
  <2>3. CleanNeverStale'
    BY <1>6, FileAssumption DEF FileAssumption, XmlSaveFail, CleanNeverStale
  <2> QED BY <1>6, <2>1, <2>2, <2>3 DEF XmlSaveFail, ListOrdered,
             SerialNumbersUnique, ReadingOwnFile, ClosedIsEmpty
<1>7. CASE XmlOpen
  <2>1. /\ disk.title \in Title \cup {NoTitle}
        /\ disk.bonds \in Seq(Content)
    BY <1>7, DiskRecord DEF XmlOpen
  <2>2. TypeOK'
    BY <1>7, <2>1 DEF XmlOpen, TypeOK
  <2>3. ReadingOwnFile'
    <3>1. Contents(list) \o disk.bonds = disk.bonds
      <4>1. Contents(list) \in Seq(Content) /\ Len(Contents(list)) = 0
        BY <1>7, ContentsProperties, EmptySeq DEF XmlOpen, ClosedIsEmpty, TypeOK
      <4>2. Contents(list) = <<>>
        BY <4>1, EmptySeq
      <4> QED BY <2>1, <4>2, ConcatEmptySeq
    <3> QED BY <1>7, <3>1 DEF XmlOpen, ReadingOwnFile, Readable
  <2> QED BY <1>7, <2>2, <2>3 DEF XmlOpen, ListOrdered,
             SerialNumbersUnique, FileOrdered, ClosedIsEmpty, CleanNeverStale
<1>8. CASE XmlOpenFail
  <2>1. TypeOK'
    BY <1>8 DEF XmlOpenFail, TypeOK
  <2> QED BY <1>8, <2>1 DEF XmlOpenFail, ListOrdered, SerialNumbersUnique,
             FileOrdered, ReadingOwnFile, ClosedIsEmpty, CleanNeverStale
<1>9. ASSUME NEW n \in 0 .. MaxImport, NEW records \in [1 .. n -> Content],
             NEW t \in Title, SbwOpen(records, t)
      PROVE  Conclusion
  <2>1. records \in Seq(Content)
    BY ImportAssumption DEF ImportAssumption
  <2>2. TypeOK'
    BY <1>9, <2>1 DEF SbwOpen, TypeOK
  <2> QED BY <1>9, <2>2 DEF SbwOpen, ListOrdered, SerialNumbersUnique,
             FileOrdered, ReadingOwnFile, ClosedIsEmpty, CleanNeverStale
<1>10. ASSUME NEW p \in Ptr, ReadBond(p)
       PROVE  Conclusion
  <2> DEFINE b == MakeBond(p, Head(pending))
  <2>0. phase = "reading" /\ pending # <<>> /\ UNCHANGED disk
    BY <1>10 DEF ReadBond
  <2>1. /\ Head(pending) \in Content /\ Tail(pending) \in Seq(Content)
        /\ b \in Bond
    BY <2>0, HeadTailProperties, MakeBondProperties DEF TypeOK
  <2>2. CASE HasDuplicateSN(list, b)
    <3>1. /\ phase' = "closed" /\ list' = <<>> /\ pending' = <<>>
          /\ title' = NoTitle /\ modified_flag' = FALSE /\ titled' = FALSE
          /\ status' = "DUPLICATE_SN"
      BY <1>10, <2>2 DEF ReadBond
    <3>2. TypeOK'
      BY <2>0, <3>1, EmptySeq DEF TypeOK
    <3>3. ListOrdered' /\ SerialNumbersUnique'
      BY <3>1 DEF ListOrdered, SerialNumbersUnique, Ordered, UniqueSNs, UniquePtrs
    <3> QED BY <2>0, <3>1, <3>2, <3>3 DEF FileOrdered, ReadingOwnFile,
               ClosedIsEmpty, CleanNeverStale
  <2>3. CASE ~HasDuplicateSN(list, b)
    <3>1. AddBond(b) /\ pending' = Tail(pending) /\ UNCHANGED <<title, titled, phase>>
      BY <1>10, <2>3 DEF ReadBond
    <3>2. list' \in Seq(Bond) /\ ListOrdered' /\ SerialNumbersUnique'
      BY <2>1, <3>1, AddBondList DEF TypeOK
    <3>3. TypeOK'
      BY <2>0, <2>1, <3>1, <3>2 DEF AddBond, TypeOK
    <3>4. ReadingOwnFile'
      <4> SUFFICES ASSUME titled
                   PROVE  /\ Readable(disk)
                          /\ disk.title = title
                          /\ disk.bonds = Contents(list') \o pending'
        BY <2>0, <3>1 DEF ReadingOwnFile
      <4>1. Readable(disk) /\ disk.title = title /\ disk.bonds = Contents(list) \o pending
        BY <2>0 DEF ReadingOwnFile
      <4>2. Ordered(disk.bonds) /\ UniqueSNs(disk.bonds)
        BY <4>1 DEF FileOrdered
      <4>3. Contents(InsertSorted(list, b)) \o Tail(pending) = disk.bonds
        BY <2>0, <4>1, <4>2, ReadBack DEF TypeOK
      <4>4. list' = InsertSorted(list, b)
        BY <2>3, <3>1 DEF AddBond
      <4> QED BY <3>1, <4>1, <4>3, <4>4
    <3> QED BY <2>0, <3>1, <3>2, <3>3, <3>4 DEF FileOrdered, ClosedIsEmpty,
               CleanNeverStale
  <2> QED BY <2>2, <2>3
<1>11. CASE ReadDone
  <2>1. TypeOK'
    BY <1>11 DEF ReadDone, TypeOK
  <2>2. CleanNeverStale'
    <3> SUFFICES ASSUME titled
                 PROVE  disk # NoFile /\ disk.bonds = Contents(list)
      BY <1>11 DEF ReadDone, CleanNeverStale, Contents
    <3>1. Readable(disk) /\ disk.bonds = Contents(list) \o <<>>
      BY <1>11 DEF ReadDone, ReadingOwnFile
    <3>2. Contents(list) \in Seq(Content)
      BY ContentsProperties DEF TypeOK
    <3> QED BY <3>1, <3>2, ConcatEmptySeq DEF Readable
  <2> QED BY <1>11, <2>1, <2>2 DEF ReadDone, ListOrdered,
             SerialNumbersUnique, FileOrdered, ReadingOwnFile, ClosedIsEmpty
<1>12. CASE DropDoc
  <2>1. TypeOK'
    BY <1>12, EmptySeq DEF DropDoc, TypeOK
  <2>2. ListOrdered' /\ SerialNumbersUnique'
    BY <1>12 DEF DropDoc, ListOrdered, SerialNumbersUnique, Ordered,
                 UniqueSNs, UniquePtrs
  <2> QED BY <1>12, <2>1, <2>2 DEF DropDoc, FileOrdered, ReadingOwnFile,
             ClosedIsEmpty, CleanNeverStale
<1>13. CASE UNCHANGED docVars
  BY <1>13 DEF docVars, TypeOK, ListOrdered, SerialNumbersUnique,
               FileOrdered, ReadingOwnFile, ClosedIsEmpty, CleanNeverStale
<1> HIDE DEF DocInv
<1> QED
  BY <1>1, <1>2, <1>3, <1>4, <1>5, <1>6, <1>7, <1>8, <1>9, <1>10, <1>11,
     <1>12, <1>13 DEF Next

---------------------------------------------------------------------------
(* The theorems about the document.                                        *)

\* Every behaviour of the document keeps the inductive invariant.
THEOREM DocInvariant == Spec => []DocInv
BY InitDocInv, NextDocInv, PTL DEF Spec

\* Type correctness of doc.c's state.
THEOREM TypeCorrect == Spec => []TypeOK
<1>1. DocInv => TypeOK
  BY DEF DocInv
<1> QED BY <1>1, DocInvariant, PTL

\* The list is in inventory order in every state: after any additions,
\* deletions, imports and openings (insert_compare_fct).
THEOREM AlwaysOrdered == Spec => []ListOrdered
<1>1. DocInv => ListOrdered
  BY DEF DocInv
<1> QED BY <1>1, DocInvariant, PTL

\* No serial number and no bond object is in the list twice
\* (gb_doc_add_bond).
THEOREM AlwaysUnique == Spec => []SerialNumbersUnique
<1>1. DocInv => SerialNumbersUnique
  BY DEF DocInv
<1> QED BY <1>1, DocInvariant, PTL

\* No bond of its own file is refused while a document reads it.
LEMMA ReadsBack == DocInv => OwnFileReadsBack
<1> SUFFICES ASSUME DocInv, phase = "reading", titled
             PROVE  /\ disk.bonds = Contents(list) \o pending
                    /\ pending # <<>> => ~HasDuplicateSN(list, Head(pending))
  BY DEF OwnFileReadsBack
<1>1. Readable(disk) /\ disk.bonds = Contents(list) \o pending
  BY DEF DocInv, ReadingOwnFile
<1>2. Ordered(disk.bonds) /\ UniqueSNs(disk.bonds)
  BY <1>1 DEF DocInv, FileOrdered
<1>3. list \in Seq(Bond) /\ pending \in Seq(Content)
  BY DEF DocInv, TypeOK
<1>4. ASSUME pending # <<>>
      PROVE  ~HasDuplicateSN(list, Head(pending))
  <2>1. Head(pending) \in Content
    BY <1>3, <1>4, HeadTailProperties
  <2>2. CASE Ptr = {}
    <3>1. \A i \in DOMAIN list : list[i].ptr \in Ptr
      <4>1. \A i \in DOMAIN list : list[i] \in Bond
        BY <1>3, LenProperties, ElementOfSeq
      <4> QED BY <4>1 DEF Bond
    <3> QED BY <2>2, <3>1 DEF HasDuplicateSN
  <2>3. CASE Ptr # {}
    <3>1. PICK p \in Ptr : TRUE
      BY <2>3
    <3>2. ~HasDuplicateSN(list, MakeBond(p, Head(pending)))
      BY <1>1, <1>2, <1>3, <1>4, ReadBack
    <3> QED BY <2>1, <3>2, MakeBondProperties DEF HasDuplicateSN
  <2> QED BY <2>2, <2>3
<1> QED BY <1>1, <1>4

\* Whatever gb_doc_xml_save wrote, xml_parse_doc reads back: no bond of it is
\* refused, and the list it rebuilds is the one that was saved.
THEOREM OwnFileAlwaysReadsBack == Spec => []OwnFileReadsBack
  BY ReadsBack, DocInvariant, PTL

\* The file of a document that says it is unmodified either does not open or
\* holds exactly its bonds (the modified flag of doc.c and doc-xml.c).
THEOREM NeverStale == Spec => []CleanNeverStale
<1>1. DocInv => CleanNeverStale
  BY DEF DocInv
<1> QED BY <1>1, DocInvariant, PTL

---------------------------------------------------------------------------
(* The document implements Inventory.                                      *)

\* How often x stands in a list.
Count(s, x) == Cardinality({k \in DOMAIN s : s[k] = x})

\* The bonds of a list without their order: how often each occurs.
LEMMA ToBagCounts ==
  ASSUME NEW S, NEW s \in Seq(S)
  PROVE  /\ \A x : IsFiniteSet({i \in DOMAIN s : s[i] = x})
         /\ DOMAIN ToBag(s) = {s[i] : i \in DOMAIN s}
         /\ \A x \in DOMAIN ToBag(s) :
              /\ ToBag(s)[x] = Count(s, x)
              /\ ToBag(s)[x] \in Nat \ {0}
<1>1. DOMAIN s = 1 .. Len(s) /\ Len(s) \in Nat
  BY LenProperties
<1>2. ASSUME NEW x
      PROVE  IsFiniteSet({i \in DOMAIN s : s[i] = x})
  <2>1. IsFiniteSet(1 .. Len(s))
    BY <1>1, FS_Interval
  <2>2. {i \in DOMAIN s : s[i] = x} \subseteq 1 .. Len(s)
    BY <1>1
  <2> QED BY <2>1, <2>2, FS_Subset
<1>3. DOMAIN ToBag(s) = {s[i] : i \in DOMAIN s}
  BY DEF ToBag, Range
<1>4. \A x \in DOMAIN ToBag(s) : ToBag(s)[x] = Count(s, x)
  BY DEF ToBag, Count
<1>5. ASSUME NEW x \in DOMAIN ToBag(s)
      PROVE  Count(s, x) \in Nat \ {0}
  <2>1. {i \in DOMAIN s : s[i] = x} # {}
    BY <1>3
  <2> QED BY <1>2, <2>1, FS_CardinalityType, FS_EmptySet DEF Count
<1> QED BY <1>2, <1>3, <1>4, <1>5

\* t is s with e put in at place i.
Inserted(s, t, i, e) ==
  /\ i \in 1 .. Len(s) + 1
  /\ Len(t) = Len(s) + 1
  /\ \A k \in 1 .. Len(s) + 1 :
       t[k] = IF k < i THEN s[k] ELSE IF k = i THEN e ELSE s[k - 1]

\* Putting an element in adds one to how often it occurs and leaves the others.
LEMMA InsertedCounts ==
  ASSUME NEW S, NEW s \in Seq(S), NEW t \in Seq(S), NEW i, NEW e, Inserted(s, t, i, e),
         NEW x
  PROVE  Count(t, x) = Count(s, x) + (IF x = e THEN 1 ELSE 0)
<1> DEFINE Sx == {k \in DOMAIN s : s[k] = x}
           Tx == {k \in DOMAIN t : t[k] = x}
           new(k) == IF k < i THEN k ELSE k + 1
           f == [k \in Sx |-> new(k)]
<1>1. /\ DOMAIN s = 1 .. Len(s) /\ DOMAIN t = 1 .. Len(s) + 1
      /\ Len(s) \in Nat /\ i \in 1 .. Len(s) + 1
  BY LenProperties DEF Inserted
<1>2. \A k \in 1 .. Len(s) + 1 :
        t[k] = IF k < i THEN s[k] ELSE IF k = i THEN e ELSE s[k - 1]
  BY DEF Inserted
<1>3. IsFiniteSet(Sx) /\ IsFiniteSet(Tx)
  <2>1. \A y : IsFiniteSet({k \in DOMAIN s : s[k] = y})
    BY ToBagCounts, ZenonT(30)
  <2>2. \A y : IsFiniteSet({k \in DOMAIN t : t[k] = y})
    BY ToBagCounts, ZenonT(30)
  <2> QED BY <2>1, <2>2, Zenon
<1>4. ASSUME NEW k \in Sx
      PROVE  new(k) \in Tx \ {i}
  <2>1. k \in 1 .. Len(s) /\ s[k] = x
    BY <1>1
  <2>2. CASE k < i
    BY <1>1, <1>2, <2>1, <2>2
  <2>3. CASE ~(k < i)
    <3>1. /\ k + 1 \in 1 .. Len(s) + 1
          /\ ~(k + 1 < i) /\ k + 1 # i /\ (k + 1) - 1 = k
      BY <1>1, <2>1, <2>3
    <3>2. t[k + 1] = s[k]
      BY <1>2, <3>1
    <3> QED BY <1>1, <2>1, <2>3, <3>1, <3>2
  <2> QED BY <2>2, <2>3
<1>5. \A k, h \in Sx : new(k) = new(h) => k = h
  BY <1>1
<1>6. \A h \in Tx \ {i} : \E k \in Sx : new(k) = h
  <2> SUFFICES ASSUME NEW h \in Tx \ {i}
               PROVE  \E k \in Sx : new(k) = h
    OBVIOUS
  <2>1. h \in 1 .. Len(s) + 1 /\ h # i /\ t[h] = x
    BY <1>1
  <2>2. CASE h < i
    BY <1>1, <1>2, <2>1, <2>2
  <2>3. CASE h > i
    <3>1. h - 1 \in Sx
      BY <1>1, <1>2, <2>1, <2>3
    <3>2. new(h - 1) = h
      BY <1>1, <2>1, <2>3
    <3> QED BY <3>1, <3>2
  <2> QED BY <1>1, <2>1, <2>2, <2>3
<1> HIDE DEF new, Sx, Tx
<1>7. f \in Bijection(Sx, Tx \ {i})
  BY <1>4, <1>5, <1>6 DEF Bijection, Injection, Surjection, IsInjective
<1>8. Cardinality(Tx \ {i}) = Cardinality(Sx) /\ Cardinality(Sx) \in Nat
  BY <1>3, <1>7, FS_Bijection, FS_CardinalityType DEF ExistsBijection
<1>9. Cardinality(Tx \ {i}) = IF i \in Tx THEN Cardinality(Tx) - 1 ELSE Cardinality(Tx)
  BY <1>3, FS_RemoveElement
<1>10. i \in Tx <=> x = e
  BY <1>1, <1>2 DEF Tx
<1>11. Cardinality(Tx) \in Nat
  BY <1>3, FS_CardinalityType
<1> QED BY <1>8, <1>9, <1>10, <1>11 DEF Count, Sx, Tx

---------------------------------------------------------------------------
\* The bag of a list gains one element with the list.
LEMMA InsertedBag ==
  ASSUME NEW S, NEW s \in Seq(S), NEW t \in Seq(S), NEW i, NEW e, Inserted(s, t, i, e)
  PROVE  ToBag(t) = ToBag(s) (+) SetToBag({e})
<1> DEFINE sum == ToBag(s) (+) SetToBag({e})
<1>1. /\ DOMAIN ToBag(s) = {s[k] : k \in DOMAIN s}
      /\ \A x \in DOMAIN ToBag(s) : ToBag(s)[x] = Count(s, x) /\ Count(s, x) \in Nat \ {0}
  <2>1. /\ DOMAIN ToBag(s) = {s[k] : k \in DOMAIN s}
        /\ \A x \in DOMAIN ToBag(s) :
             /\ ToBag(s)[x] = Count(s, x)
             /\ ToBag(s)[x] \in Nat \ {0}
    BY ToBagCounts, ZenonT(30)
  <2> QED BY <2>1
<1>2. /\ DOMAIN ToBag(t) = {t[k] : k \in DOMAIN t}
      /\ \A x \in DOMAIN ToBag(t) : ToBag(t)[x] = Count(t, x) /\ Count(t, x) \in Nat \ {0}
  <2>1. /\ DOMAIN ToBag(t) = {t[k] : k \in DOMAIN t}
        /\ \A x \in DOMAIN ToBag(t) :
             /\ ToBag(t)[x] = Count(t, x)
             /\ ToBag(t)[x] \in Nat \ {0}
    BY ToBagCounts, ZenonT(30)
  <2> QED BY <2>1
<1>3. \A x : Count(t, x) = Count(s, x) + (IF x = e THEN 1 ELSE 0)
  BY InsertedCounts
<1>4. \A x : x \notin DOMAIN ToBag(s) => Count(s, x) = 0
  <2> SUFFICES ASSUME NEW x, x \notin DOMAIN ToBag(s)
               PROVE  Count(s, x) = 0
    OBVIOUS
  <2>1. {k \in DOMAIN s : s[k] = x} = {}
    BY <1>1
  <2> QED BY <2>1, FS_EmptySet DEF Count
<1>5. DOMAIN ToBag(t) = DOMAIN ToBag(s) \cup {e}
  <2>1. /\ DOMAIN s = 1 .. Len(s) /\ DOMAIN t = 1 .. Len(s) + 1
        /\ Len(s) \in Nat /\ i \in 1 .. Len(s) + 1
    BY LenProperties DEF Inserted
  <2>2. \A k \in 1 .. Len(s) + 1 :
          t[k] = IF k < i THEN s[k] ELSE IF k = i THEN e ELSE s[k - 1]
    BY DEF Inserted
  <2>3. \A k \in DOMAIN t : t[k] \in {s[h] : h \in DOMAIN s} \cup {e}
    BY <2>1, <2>2
  <2>4. t[i] = e
    BY <2>1, <2>2
  <2>5. ASSUME NEW h \in DOMAIN s
        PROVE  s[h] \in {t[k] : k \in DOMAIN t}
    <3>1. CASE h < i
      BY <2>1, <2>2, <3>1
    <3>2. CASE ~(h < i)
      <4>1. h + 1 \in 1 .. Len(s) + 1 /\ ~(h + 1 < i) /\ h + 1 # i /\ (h + 1) - 1 = h
        BY <2>1, <3>2
      <4>2. t[h + 1] = s[h]
        BY <2>2, <4>1
      <4> QED BY <2>1, <4>1, <4>2
    <3> QED BY <3>1, <3>2
  <2> QED BY <1>1, <1>2, <2>1, <2>3, <2>4, <2>5
<1>6. /\ DOMAIN SetToBag({e}) = {e}
      /\ SetToBag({e})[e] = 1
  BY DEF SetToBag
<1>7. sum = [x \in DOMAIN ToBag(s) \cup {e} |->
               (IF x \in DOMAIN ToBag(s) THEN ToBag(s)[x] ELSE 0)
               + (IF x \in {e} THEN SetToBag({e})[x] ELSE 0)]
  BY <1>6 DEF (+)
<1>8. \A x \in DOMAIN ToBag(t) : ToBag(t)[x] = sum[x]
  <2> SUFFICES ASSUME NEW x \in DOMAIN ToBag(t)
               PROVE  ToBag(t)[x] = sum[x]
    OBVIOUS
  <2>1. Count(s, x) = IF x \in DOMAIN ToBag(s) THEN ToBag(s)[x] ELSE 0
    BY <1>1, <1>4
  <2>2. (IF x \in {e} THEN SetToBag({e})[x] ELSE 0) = IF x = e THEN 1 ELSE 0
    BY <1>6
  <2>3. ToBag(t)[x] = Count(s, x) + (IF x = e THEN 1 ELSE 0)
    <3>1. Count(s, x) \in Nat
      BY <1>1, <2>1
    <3> QED BY <1>2, <1>3, <3>1
  <2> QED BY <1>5, <1>7, <2>1, <2>2, <2>3
<1> HIDE DEF sum
<1>9. ToBag(t) = [x \in DOMAIN ToBag(t) |-> ToBag(t)[x]]
  BY DEF ToBag
<1>10. sum = [x \in DOMAIN ToBag(t) |-> sum[x]]
  BY <1>5, <1>7
<1> QED BY <1>8, <1>9, <1>10 DEF sum

\* And taking it out again leaves the bag there was.
LEMMA InsertedBagBack ==
  ASSUME NEW S, NEW s \in Seq(S), NEW t \in Seq(S), NEW i, NEW e, Inserted(s, t, i, e)
  PROVE  /\ e \in DOMAIN ToBag(t)
         /\ ToBag(s) = ToBag(t) (-) SetToBag({e})
<1> DEFINE A == ToBag(s)
           B == ToBag(t)
           C == [x \in DOMAIN B |-> IF x \in {e} THEN B[x] - 1 ELSE B[x]]
<1>1. B = A (+) SetToBag({e})
  BY InsertedBag
<1>2. /\ DOMAIN SetToBag({e}) = {e}
      /\ \A x \in {e} : SetToBag({e})[x] = 1
  BY DEF SetToBag
<1>3. \A x \in DOMAIN A : A[x] \in Nat \ {0}
  BY ToBagCounts
<1>4. A = [x \in DOMAIN A |-> A[x]]
  BY DEF ToBag
<1> HIDE DEF A, B
<1>5. /\ DOMAIN B = DOMAIN A \cup {e}
      /\ \A x \in DOMAIN B : B[x] = (IF x \in DOMAIN A THEN A[x] ELSE 0)
                                    + (IF x \in {e} THEN 1 ELSE 0)
  BY <1>1, <1>2 DEF (+)
<1>6. B (-) SetToBag({e}) = [x \in {d \in DOMAIN C : C[d] > 0} |-> C[x]]
  BY <1>2 DEF (-)
<1>7. \A x \in DOMAIN B : C[x] = IF x \in DOMAIN A THEN A[x] ELSE 0
  BY <1>3, <1>5
<1>8. {d \in DOMAIN C : C[d] > 0} = DOMAIN A
  <2>1. DOMAIN C = DOMAIN B
    OBVIOUS
  <2> HIDE DEF C
  <2>2. \A d \in DOMAIN B : C[d] > 0 <=> d \in DOMAIN A
    BY <1>3, <1>7
  <2>3. DOMAIN A \subseteq DOMAIN B
    BY <1>5
  <2> QED BY <2>1, <2>2, <2>3
<1>9. A = [x \in {d \in DOMAIN C : C[d] > 0} |-> C[x]]
  <2>1. \A x \in DOMAIN A : x \in DOMAIN B /\ C[x] = A[x]
    BY <1>5, <1>7
  <2> HIDE DEF C
  <2> QED BY <1>4, <1>8, <2>1
<1>10. e \in DOMAIN B
  BY <1>5
<1>11. A = B (-) SetToBag({e})
  BY <1>6, <1>9, Zenon
<1> QED BY <1>10, <1>11 DEF A, B

---------------------------------------------------------------------------
\* The bag of an empty list, and of any list of bonds.
LEMMA EmptyToBag == ToBag(Contents(<<>>)) = EmptyBag
<1>1. DOMAIN Contents(<<>>) = {}
  BY DEF Contents
<1> QED BY <1>1 DEF ToBag, Range, EmptyBag, SetToBag

LEMMA ToBagType ==
  ASSUME NEW s \in Seq(Content)
  PROVE  ToBag(s) \in UNION {[B -> Nat \ {0}] : B \in SUBSET Content}
<1>1. /\ DOMAIN ToBag(s) = {s[i] : i \in DOMAIN s}
      /\ \A x \in DOMAIN ToBag(s) : ToBag(s)[x] \in Nat \ {0}
  BY ToBagCounts
<1>2. DOMAIN ToBag(s) \subseteq Content
  BY <1>1, ElementOfSeq, LenProperties
<1>3. ToBag(s) = [x \in DOMAIN ToBag(s) |-> ToBag(s)[x]]
  BY DEF ToBag
<1>4. ToBag(s) \in [DOMAIN ToBag(s) -> Nat \ {0}]
  BY <1>1, <1>3
<1> QED BY <1>2, <1>4

\* A list without a serial number twice is a bag without one twice.
LEMMA ToBagDistinct ==
  ASSUME NEW s \in Seq(Content), UniqueSNs(s)
  PROVE  Promised!Distinct(ToBag(s))
<1>1. /\ DOMAIN ToBag(s) = {s[i] : i \in DOMAIN s}
      /\ \A x \in DOMAIN ToBag(s) : ToBag(s)[x] = Count(s, x)
  BY ToBagCounts
<1>2. ASSUME NEW c \in DOMAIN ToBag(s), c.sn # NoSN
      PROVE  ToBag(s)[c] = 1
  <2>1. PICK i \in DOMAIN s : s[i] = c
    BY <1>1
  <2>2. {k \in DOMAIN s : s[k] = c} = {i}
    BY <1>2, <2>1 DEF UniqueSNs
  <2> QED BY <1>1, <2>2, FS_Singleton DEF Count
<1>3. ASSUME NEW c \in DOMAIN ToBag(s), NEW d \in DOMAIN ToBag(s),
             c.sn = d.sn, c.sn # NoSN
      PROVE  c = d
  <2>1. PICK i \in DOMAIN s, j \in DOMAIN s : s[i] = c /\ s[j] = d
    BY <1>1
  <2> QED BY <1>3, <2>1 DEF UniqueSNs
<1> QED BY <1>2, <1>3 DEF Promised!Distinct

\* gb_doc_add_bond adds one bond to the bag, gb_doc_delete_bond takes one out.
LEMMA AddedToBag ==
  ASSUME NEW l \in Seq(Bond), NEW b \in Bond
  PROVE  /\ ToBag(Contents(InsertSorted(l, b))) =
              ToBag(Contents(l)) (+) SetToBag({ContentOf(b)})
         /\ ContentOf(b) \in DOMAIN ToBag(Contents(InsertSorted(l, b)))
<1> DEFINE s == Contents(l)
           t == Contents(InsertSorted(l, b))
           e == ContentOf(b)
<1>1. PICK i \in 1 .. Len(l) + 1 : Place(l, b, i)
  BY InsertSortedPlace
<1>2. /\ InsertSorted(l, b) \in Seq(Bond)
      /\ Len(InsertSorted(l, b)) = Len(l) + 1
      /\ \A k \in 1 .. Len(l) + 1 :
           InsertSorted(l, b)[k] =
             IF k < i THEN l[k] ELSE IF k = i THEN b ELSE l[k - 1]
  BY <1>1 DEF Place
<1>3. /\ DOMAIN l = 1 .. Len(l) /\ Len(l) \in Nat
      /\ DOMAIN InsertSorted(l, b) = 1 .. Len(l) + 1
  BY <1>2, LenProperties
<1>4. /\ s \in Seq(Content) /\ Len(s) = Len(l)
      /\ \A k \in DOMAIN l : s[k] = ContentOf(l[k])
  BY ContentsProperties
<1>5. /\ t \in Seq(Content) /\ Len(t) = Len(l) + 1
      /\ \A k \in 1 .. Len(l) + 1 : t[k] = ContentOf(InsertSorted(l, b)[k])
  BY <1>2, <1>3, ContentsProperties
<1> HIDE DEF s, t, e
<1>6. Inserted(s, t, i, e)
  <2> SUFFICES ASSUME NEW k \in 1 .. Len(l) + 1
               PROVE  t[k] = IF k < i THEN s[k] ELSE IF k = i THEN e ELSE s[k - 1]
    BY <1>4, <1>5 DEF Inserted
  <2>1. CASE k < i
    <3>1. k \in DOMAIN l
      BY <1>3, <2>1
    <3> QED BY <1>2, <1>4, <1>5, <2>1, <3>1
  <2>2. CASE k = i
    BY <1>2, <1>5, <2>2 DEF e
  <2>3. CASE k > i
    <3>1. k - 1 \in DOMAIN l /\ ~(k < i) /\ k # i
      BY <1>3, <2>3
    <3>2. InsertSorted(l, b)[k] = l[k - 1]
      BY <1>2, <3>1
    <3> QED BY <1>4, <1>5, <3>1, <3>2
  <2> QED BY <1>3, <2>1, <2>2, <2>3
<1>7. ToBag(t) = ToBag(s) (+) SetToBag({e})
  BY <1>4, <1>5, <1>6, InsertedBag
<1>8. e \in DOMAIN ToBag(t)
  BY <1>4, <1>5, <1>6, InsertedBagBack
<1> QED BY <1>7, <1>8 DEF s, t, e

LEMMA TakenFromBag ==
  ASSUME NEW l \in Seq(Bond), NEW p \in Ptrs(l)
  PROVE  \E c \in DOMAIN ToBag(Contents(l)) :
           ToBag(Contents(RemovePtr(l, p))) = ToBag(Contents(l)) (-) SetToBag({c})
<1> DEFINE r == RemovePtr(l, p)
           s == Contents(r)
           t == Contents(l)
<1>1. PICK i \in 1 .. Len(l) :
        /\ r \in Seq(Bond)
        /\ Len(r) = Len(l) - 1
        /\ \A k \in 1 .. Len(l) - 1 : r[k] = IF k < i THEN l[k] ELSE l[k + 1]
  BY RemovePtrPlace
<1>2. /\ DOMAIN l = 1 .. Len(l) /\ Len(l) \in Nat
      /\ DOMAIN r = 1 .. Len(l) - 1
  BY <1>1, LenProperties
<1>3. /\ t \in Seq(Content) /\ Len(t) = Len(l)
      /\ \A k \in DOMAIN l : t[k] = ContentOf(l[k])
  BY ContentsProperties
<1>4. /\ s \in Seq(Content) /\ Len(s) = Len(l) - 1
      /\ \A k \in DOMAIN r : s[k] = ContentOf(r[k])
  BY <1>1, ContentsProperties
<1> HIDE DEF r, s, t
<1>5. Inserted(s, t, i, t[i])
  <2> SUFFICES ASSUME NEW k \in 1 .. Len(l)
               PROVE  t[k] = IF k < i THEN s[k] ELSE IF k = i THEN t[i] ELSE s[k - 1]
    BY <1>2, <1>3, <1>4 DEF Inserted
  <2>1. CASE k < i
    <3>1. k \in 1 .. Len(l) - 1
      BY <1>2, <2>1
    <3>2. r[k] = l[k]
      BY <1>1, <2>1, <3>1
    <3> QED BY <1>2, <1>3, <1>4, <2>1, <3>1, <3>2
  <2>2. CASE k > i
    <3>1. /\ k - 1 \in 1 .. Len(l) - 1 /\ ~(k - 1 < i) /\ (k - 1) + 1 = k
          /\ ~(k < i) /\ k # i
      BY <1>2, <2>2
    <3>2. r[k - 1] = l[k]
      BY <1>1, <3>1
    <3> QED BY <1>2, <1>3, <1>4, <3>1, <3>2
  <2> QED BY <1>2, <2>1, <2>2
<1>6. t[i] \in DOMAIN ToBag(t) /\ ToBag(s) = ToBag(t) (-) SetToBag({t[i]})
  BY <1>3, <1>4, <1>5, InsertedBagBack
<1> QED BY <1>6 DEF r, s, t

\* How many copies a bag has of x, and what a sum of bags has.
Copies(x, B) == IF x \in DOMAIN B THEN B[x] ELSE 0
Counts(B) == \A x \in DOMAIN B : B[x] \in Nat

LEMMA SumCopies ==
  ASSUME NEW A, NEW B
  PROVE  A (+) B = [x \in DOMAIN A \cup DOMAIN B |-> Copies(x, A) + Copies(x, B)]
  BY DEF (+), Copies

\* One element goes from one bag to the other.
Moves(A, B, e) == (A (+) SetToBag({e})) (+) B = A (+) (B (+) SetToBag({e}))

LEMMA BagSumMoves ==
  ASSUME NEW A, NEW B, NEW e, Counts(A), Counts(B)
  PROVE  Moves(A, B, e)
<1> DEFINE E   == SetToBag({e})
           AE  == A (+) E
           BE  == B (+) E
           all == DOMAIN A \cup DOMAIN B \cup {e}
<1>1. DOMAIN E = {e} /\ E[e] = 1
  BY DEF SetToBag
<1>2. /\ DOMAIN AE = DOMAIN A \cup {e}
      /\ \A x \in DOMAIN A \cup {e} : AE[x] = Copies(x, A) + Copies(x, E)
  BY <1>1, SumCopies
<1>3. /\ DOMAIN BE = DOMAIN B \cup {e}
      /\ \A x \in DOMAIN B \cup {e} : BE[x] = Copies(x, B) + Copies(x, E)
  BY <1>1, SumCopies
<1>4. AE (+) B = [x \in DOMAIN AE \cup DOMAIN B |-> Copies(x, AE) + Copies(x, B)]
  BY SumCopies
<1>5. A (+) BE = [x \in DOMAIN A \cup DOMAIN BE |-> Copies(x, A) + Copies(x, BE)]
  BY SumCopies
<1> HIDE DEF E, AE, BE
<1>6. \A x : Copies(x, A) \in Nat /\ Copies(x, B) \in Nat /\ Copies(x, E) \in Nat
  BY <1>1 DEF Copies, Counts
<1>7. ASSUME NEW x
      PROVE  /\ Copies(x, AE) = Copies(x, A) + Copies(x, E)
             /\ Copies(x, BE) = Copies(x, B) + Copies(x, E)
  <2>1. Copies(x, AE) = Copies(x, A) + Copies(x, E)
    <3>1. CASE x \in DOMAIN A \cup {e}
      BY <1>2, <3>1 DEF Copies
    <3>2. CASE x \notin DOMAIN A \cup {e}
      BY <1>1, <1>2, <3>2 DEF Copies
    <3> QED BY <3>1, <3>2
  <2>2. Copies(x, BE) = Copies(x, B) + Copies(x, E)
    <3>1. CASE x \in DOMAIN B \cup {e}
      BY <1>3, <3>1 DEF Copies
    <3>2. CASE x \notin DOMAIN B \cup {e}
      BY <1>1, <1>3, <3>2 DEF Copies
    <3> QED BY <3>1, <3>2
  <2> QED BY <2>1, <2>2
<1>8. ASSUME NEW x
      PROVE  Copies(x, AE) + Copies(x, B) = Copies(x, A) + Copies(x, BE)
  BY <1>6, <1>7
<1>9. /\ AE (+) B = [x \in all |-> Copies(x, AE) + Copies(x, B)]
      /\ A (+) BE = [x \in all |-> Copies(x, A) + Copies(x, BE)]
  <2>1. DOMAIN AE \cup DOMAIN B = all /\ DOMAIN A \cup DOMAIN BE = all
    BY <1>2, <1>3
  <2> QED BY <1>4, <1>5, <2>1
<1>10. AE (+) B = A (+) BE
  <2> HIDE DEF all
  <2> QED BY <1>8, <1>9, Zenon
<1> QED BY <1>10 DEF AE, BE, E, Moves

LEMMA EmptyBagSum ==
  ASSUME NEW S, NEW s \in Seq(S)
  PROVE  EmptyBag (+) ToBag(s) = ToBag(s) /\ ToBag(s) (+) EmptyBag = ToBag(s)
<1>1. DOMAIN EmptyBag = {}
  BY DEF EmptyBag, SetToBag
<1>2. \A x \in DOMAIN ToBag(s) : ToBag(s)[x] \in Nat
  <2>1. \A x \in DOMAIN ToBag(s) : ToBag(s)[x] \in Nat \ {0}
    BY ToBagCounts, ZenonT(30)
  <2> QED BY <2>1
<1>3. ToBag(s) = [x \in DOMAIN ToBag(s) |-> ToBag(s)[x]]
  BY DEF ToBag
<1>4. /\ EmptyBag (+) ToBag(s) =
           [x \in DOMAIN EmptyBag \cup DOMAIN ToBag(s) |->
              Copies(x, EmptyBag) + Copies(x, ToBag(s))]
      /\ ToBag(s) (+) EmptyBag =
           [x \in DOMAIN ToBag(s) \cup DOMAIN EmptyBag |->
              Copies(x, ToBag(s)) + Copies(x, EmptyBag)]
  BY SumCopies
<1>5. \A x \in DOMAIN ToBag(s) :
        /\ Copies(x, EmptyBag) + Copies(x, ToBag(s)) = ToBag(s)[x]
        /\ Copies(x, ToBag(s)) + Copies(x, EmptyBag) = ToBag(s)[x]
  BY <1>1, <1>2 DEF Copies
<1> QED BY <1>1, <1>3, <1>4, <1>5

\* The first record still to come goes into the list.
LEMMA FirstMoves ==
  ASSUME NEW l \in Seq(Bond), NEW b \in Bond, NEW s \in Seq(Content), s # <<>>,
         ContentOf(b) = Head(s)
  PROVE  ToBag(Contents(InsertSorted(l, b))) (+) ToBag(Tail(s)) =
           ToBag(Contents(l)) (+) ToBag(s)
<1> DEFINE held == ToBag(Contents(l))
           rest == ToBag(Tail(s))
           first == Head(s)
<1>1. first \in Content /\ Tail(s) \in Seq(Content)
  BY HeadTailProperties
<1>2. ToBag(Contents(InsertSorted(l, b))) = held (+) SetToBag({first})
  BY AddedToBag
<1>3. ToBag(s) = rest (+) SetToBag({first})
  <2>1. /\ Len(s) = Len(Tail(s)) + 1 /\ Len(Tail(s)) \in Nat
        /\ \A k \in 1 .. Len(Tail(s)) : Tail(s)[k] = s[k + 1]
        /\ s[1] = Head(s)
    BY HeadTailProperties
  <2>2. ASSUME NEW k \in 1 .. Len(Tail(s)) + 1, k # 1
        PROVE  s[k] = Tail(s)[k - 1]
    BY <2>1, <2>2
  <2>3. Inserted(Tail(s), s, 1, first)
    BY <2>1, <2>2 DEF Inserted
  <2> QED BY <1>1, <2>3, InsertedBag
<1>4. Counts(held) /\ Counts(rest)
  <2>1. Contents(l) \in Seq(Content)
    BY ContentsProperties
  <2>2. \A x \in DOMAIN held : held[x] \in Nat \ {0}
    BY <2>1, ToBagCounts, Zenon
  <2>3. \A x \in DOMAIN rest : rest[x] \in Nat \ {0}
    BY <1>1, ToBagCounts, Zenon
  <2> QED BY <2>2, <2>3 DEF Counts
<1> HIDE DEF held, rest, first
<1>5. Moves(held, rest, first)
  BY <1>4, BagSumMoves
<1> QED BY <1>2, <1>3, <1>5 DEF held, rest, Moves

\* A turn of the reading loop that adds its bond.
LEMMA RecordRead ==
  ASSUME DocInv, NEW p \in Ptr, ReadBond(p),
         ~HasDuplicateSN(list, MakeBond(p, Head(pending)))
  PROVE  ToBag(Contents(list')) (+) ToBag(pending') =
           ToBag(Contents(list)) (+) ToBag(pending)
<1> DEFINE b == MakeBond(p, Head(pending))
<1>1. /\ pending \in Seq(Content) /\ pending # <<>> /\ list \in Seq(Bond)
      /\ pending' = Tail(pending) /\ list' = InsertSorted(list, b)
  BY DEF DocInv, TypeOK, ReadBond, AddBond
<1>2. Head(pending) \in Content
  BY <1>1, HeadTailProperties
<1>3. b \in Bond /\ ContentOf(b) = Head(pending)
  BY <1>2 DEF MakeBond, Bond, Content, ContentOf
<1>4. ToBag(Contents(InsertSorted(list, b))) (+) ToBag(Tail(pending)) =
        ToBag(Contents(list)) (+) ToBag(pending)
  <2> HIDE DEF b
  <2> QED BY <1>1, <1>3, FirstMoves
<1> QED BY <1>1, <1>4

\* A refused record has a serial number that stands twice in what comes in.
LEMMA RecordRefused ==
  ASSUME DocInv, NEW p \in Ptr, ReadBond(p),
         HasDuplicateSN(list, MakeBond(p, Head(pending)))
  PROVE  ~Promised!Distinct(ToBag(Contents(list)) (+) ToBag(pending))
<1> DEFINE held == ToBag(Contents(list))
           rest == ToBag(pending)
           all  == held (+) rest
           b    == MakeBond(p, Head(pending))
           c    == Head(pending)
<1>1. /\ list \in Seq(Bond) /\ pending \in Seq(Content) /\ pending # <<>>
  BY DEF DocInv, TypeOK, ReadBond
<1>2. PICK i \in DOMAIN list : list[i].sn = c.sn /\ c.sn # NoSN
  BY DEF HasDuplicateSN, MakeBond
<1>3. /\ Contents(list) \in Seq(Content) /\ i \in DOMAIN Contents(list)
      /\ Contents(list)[i].sn = c.sn
  <2>1. /\ Contents(list) \in Seq(Content)
        /\ DOMAIN Contents(list) = DOMAIN list
        /\ Contents(list)[i] = ContentOf(list[i])
    BY <1>1, ContentsProperties DEF Contents
  <2> QED BY <1>2, <2>1 DEF ContentOf
<1> DEFINE d == Contents(list)[i]
<1>4. d \in DOMAIN held /\ held[d] \in Nat \ {0}
  BY <1>3, ToBagCounts, Zenon
<1>5. c \in DOMAIN rest /\ rest[c] \in Nat \ {0}
  <2>1. 1 \in DOMAIN pending /\ pending[1] = c
    BY <1>1, HeadTailProperties, LenProperties
  <2> QED BY <1>1, <2>1, ToBagCounts, Zenon
<1> HIDE DEF held, rest, b, c, d
<1>6. all = [x \in DOMAIN held \cup DOMAIN rest |-> Copies(x, held) + Copies(x, rest)]
  BY SumCopies
<1>7. c \in DOMAIN all /\ d \in DOMAIN all /\ c.sn = d.sn /\ c.sn # NoSN
  BY <1>2, <1>3, <1>4, <1>5, <1>6 DEF c, d
<1>8. c = d => all[c] # 1
  BY <1>4, <1>5, <1>6, <1>7 DEF Copies
<1> QED BY <1>7, <1>8 DEF Promised!Distinct, held, rest

---------------------------------------------------------------------------
\* The abstract inventory begins empty, closed and without a file.
LEMMA PromisedInit == Init => Promised!Init
<1> SUFFICES ASSUME Init
             PROVE  Promised!Init
  OBVIOUS
<1>1. phase = "closed" /\ disk = NoFile /\ ~Readable(disk)
  BY DEF Init, Readable
<1>2. EmptyBag = Promised!EmptyBag
  BY DEF EmptyBag, SetToBag, Promised!EmptyBag, Promised!SetToBag
<1> QED BY <1>1, <1>2 DEF Promised!Init

\* A readable file is a stored inventory, and the other two are none.
LEMMA StoredFile ==
  ASSUME NEW d \in InventoryFile
  PROVE  /\ [name |-> d.title, bonds |-> ToBag(d.bonds)] \in StoredInventory
         /\ [name |-> d.title, bonds |-> ToBag(d.bonds)] \notin {NoFile, Truncated}
         /\ Readable(d)
<1>1. d.title \in Title \cup {NoTitle} /\ d.bonds \in Seq(Content)
  BY DEF InventoryFile
<1>2. ToBag(d.bonds) \in UNION {[B -> Nat \ {0}] : B \in SUBSET Content}
  BY <1>1, ToBagType
<1>3. [name |-> d.title, bonds |-> ToBag(d.bonds)] \in StoredInventory
  BY <1>1, <1>2 DEF StoredInventory
<1> QED BY <1>3, StoredAssumption, FileAssumption
        DEF StoredAssumption, FileAssumption, Readable

\* Nothing happens to the inventory when what it is made of stays.
LEMMA StatusStutter ==
  ASSUME UNCHANGED <<list, title, modified_flag, titled, disk, phase, pending>>
  PROVE  UNCHANGED Promised!vars
BY DEF Promised!vars

\* The operators on bags are the same in both modules.
LEMMA SameBags ==
  /\ \A x, y : Promised!(+)(x, y) = x (+) y
  /\ \A x, y : Promised!(-)(x, y) = x (-) y
  /\ \A x : Promised!SetToBag(x) = SetToBag(x)
  /\ Promised!EmptyBag = EmptyBag
BY DEF Promised!(+), (+), Promised!(-), (-), Promised!SetToBag, SetToBag,
       Promised!EmptyBag, EmptyBag

\* One bond more or less in the window is one bond more or less in the bag.
LEMMA ChangeStep ==
  ASSUME phase = "open", UNCHANGED <<title, titled, disk, phase, pending>>,
         modified_flag' = TRUE, list' \in Seq(Bond), UniqueSNs(list'),
         \/ \E c \in DOMAIN ToBag(Contents(list')) :
              ToBag(Contents(list')) = ToBag(Contents(list)) (+) SetToBag({c})
         \/ \E c \in DOMAIN ToBag(Contents(list)) :
              ToBag(Contents(list')) = ToBag(Contents(list)) (-) SetToBag({c})
  PROVE  Promised!Change
<1> DEFINE B == ToBag(Contents(list))
           C == ToBag(Contents(list'))
<1>1. phase' = "open"
  OBVIOUS
<1>2. Promised!Distinct(C)
  <2>1. Contents(list') \in Seq(Content)
    BY ContentsProperties
  <2>2. UniqueSNs(Contents(list'))
    BY ContentsOrdered
  <2> QED BY <2>1, <2>2, ToBagDistinct
<1>3. \/ \E c \in DOMAIN C : C = Promised!(+)(B, Promised!SetToBag({c}))
      \/ \E c \in DOMAIN B : C = Promised!(-)(B, Promised!SetToBag({c}))
  BY SameBags, Zenon
<1>4. /\ (IF phase = "open" THEN B ELSE EmptyBag) = B
      /\ (IF phase = "open" THEN B ELSE EmptyBag)' = C
  BY <1>1
<1>5. (phase = "open" /\ modified_flag)' = TRUE
  BY <1>1
<1> QED BY <1>1, <1>2, <1>3, <1>4, <1>5 DEF Promised!Change, Readable

\* Every step of the document is one of the abstract inventory, or none.
LEMMA PromisedStep ==
  DocInv /\ DocInv' /\ [Next]_docVars => [Promised!Next]_(Promised!vars)
<1> SUFFICES ASSUME DocInv, DocInv', [Next]_docVars
             PROVE  Promised!Next \/ UNCHANGED Promised!vars
  BY Zenon
<1>0. /\ TypeOK /\ TypeOK'
      /\ UniqueSNs(list) /\ UniqueSNs(list')
      /\ ReadingOwnFile /\ ClosedIsEmpty /\ ClosedIsEmpty'
  BY DEF DocInv, SerialNumbersUnique
<1>1. CASE NewDoc
  <2>1. /\ list = <<>> /\ list' = <<>> /\ title = NoTitle /\ title' = NoTitle
        /\ ~modified_flag /\ ~modified_flag'
        /\ phase = "closed" /\ phase' = "open"
        /\ disk' = disk
    BY <1>0, <1>1 DEF NewDoc, ClosedIsEmpty
  <2>2. Promised!Create
    BY <2>1, EmptyToBag DEF Promised!Create, Readable
  <2> QED BY <2>2 DEF Promised!Next
<1>2. ASSUME NEW b \in Bond, EditAddBond(b)
      PROVE  Promised!Next \/ UNCHANGED Promised!vars
  <2>1. CASE HasDuplicateSN(list, b)
    BY <1>2, <2>1, StatusStutter DEF EditAddBond, AddBond
  <2>2. CASE ~HasDuplicateSN(list, b)
    <3>1. /\ phase = "open" /\ UNCHANGED <<title, titled, disk, phase, pending>>
          /\ list' = InsertSorted(list, b) /\ modified_flag' = TRUE
      BY <1>2, <2>2 DEF EditAddBond, AddBond
    <3>2. \E c \in DOMAIN ToBag(Contents(list')) :
            ToBag(Contents(list')) = ToBag(Contents(list)) (+) SetToBag({c})
      BY <1>0, <3>1, AddedToBag, Zenon DEF TypeOK
    <3>3. list' \in Seq(Bond)
      BY <1>0 DEF TypeOK
    <3>4. Promised!Change
      BY <1>0, <3>1, <3>2, <3>3, ChangeStep
    <3> QED BY <3>4 DEF Promised!Next
  <2> QED BY <2>1, <2>2
<1>3. ASSUME NEW p \in Ptr, DeleteBond(p)
      PROVE  Promised!Next \/ UNCHANGED Promised!vars
  <2>1. CASE p \notin Ptrs(list)
    BY <1>3, <2>1, StatusStutter DEF DeleteBond
  <2>2. CASE p \in Ptrs(list)
    <3>1. /\ phase = "open" /\ UNCHANGED <<title, titled, disk, phase, pending>>
          /\ list' = RemovePtr(list, p) /\ modified_flag' = TRUE
      BY <1>3, <2>2 DEF DeleteBond
    <3>2. \E c \in DOMAIN ToBag(Contents(list)) :
            ToBag(Contents(list')) = ToBag(Contents(list)) (-) SetToBag({c})
      BY <1>0, <2>2, <3>1, TakenFromBag, Zenon DEF TypeOK
    <3>3. list' \in Seq(Bond)
      BY <1>0 DEF TypeOK
    <3>4. Promised!Change
      BY <1>0, <3>1, <3>2, <3>3, ChangeStep
    <3> QED BY <3>4 DEF Promised!Next
  <2> QED BY <2>1, <2>2
<1>4. ASSUME NEW t \in Title, SetTitle(t)
      PROVE  Promised!Next \/ UNCHANGED Promised!vars
  <2>1. /\ phase = "open" /\ phase' = "open" /\ modified_flag' = TRUE
        /\ list' = list /\ disk' = disk
    BY <1>4 DEF SetTitle
  <2>2. Promised!Rename
    BY <2>1 DEF Promised!Rename, Readable
  <2> QED BY <2>2 DEF Promised!Next
<1>5. CASE XmlSave
  <2>1. /\ phase = "open" /\ phase' = "open" /\ modified_flag' = FALSE
        /\ list' = list /\ title' = title /\ disk' = DocToXml
    BY <1>5 DEF XmlSave
  <2> DEFINE stored == [name |-> DocToXml.title, bonds |-> ToBag(DocToXml.bonds)]
  <2>2. /\ DocToXml \in InventoryFile
        /\ DocToXml.bonds = Contents(list)
        /\ Readable(DocToXml)
    BY <1>0, DocToXmlType
  <2>3. stored \notin {NoFile, Truncated}
    BY <2>2, StoredFile
  <2>4. /\ Readable(disk)'
        /\ (IF Readable(disk) THEN [name |-> disk.title, bonds |-> ToBag(disk.bonds)]
            ELSE disk)' = stored
    BY <2>1, <2>2 DEF Readable
  <2>5. stored = [name |-> stored.name, bonds |-> ToBag(Contents(list))]
    BY <2>2
  <2> HIDE DEF stored
  <2>6. Promised!Store
    BY <2>1, <2>3, <2>4, <2>5 DEF Promised!Store
  <2> QED BY <2>6 DEF Promised!Next
<1>6. CASE XmlSaveFail
  <2>1. /\ phase = "open" /\ disk' \in {disk, Truncated}
        /\ UNCHANGED <<list, title, modified_flag, phase>>
    BY <1>6 DEF XmlSaveFail
  <2>2. Promised!StoreFail
    BY <2>1 DEF Promised!StoreFail, Readable
  <2> QED BY <2>2 DEF Promised!Next
<1>7. CASE XmlOpen
  <2>1. /\ phase = "closed" /\ phase' = "reading" /\ titled'
        /\ Readable(disk) /\ UNCHANGED <<list, disk>>
    BY <1>7 DEF XmlOpen
  <2>2. disk \in InventoryFile
    BY <1>0, <2>1 DEF TypeOK, Readable
  <2>3. [name |-> disk.title, bonds |-> ToBag(disk.bonds)] \notin {NoFile, Truncated}
    BY <2>2, StoredFile
  <2>4. Promised!BeginLoad
    BY <2>1, <2>3 DEF Promised!BeginLoad, Readable
  <2> QED BY <2>4 DEF Promised!Next
<1>8. CASE XmlOpenFail
  BY <1>8, StatusStutter DEF XmlOpenFail
<1>9. ASSUME NEW n \in 0 .. MaxImport, NEW records \in [1 .. n -> Content],
             NEW t \in Title, SbwOpen(records, t)
      PROVE  Promised!Next
  <2>1. /\ phase = "closed" /\ phase' = "reading" /\ ~titled' /\ UNCHANGED <<list, disk>>
    BY <1>9 DEF SbwOpen
  <2>2. Promised!BeginImport
    BY <2>1 DEF Promised!BeginImport, Readable
  <2> QED BY <2>2 DEF Promised!Next
<1>10. ASSUME NEW p \in Ptr, ReadBond(p)
       PROVE  Promised!Next \/ UNCHANGED Promised!vars
  <2>1. phase = "reading" /\ pending # <<>> /\ disk' = disk
    BY <1>10 DEF ReadBond
  <2>2. CASE ~HasDuplicateSN(list, MakeBond(p, Head(pending)))
    <3>1. /\ phase' = "reading" /\ titled' = titled
      BY <1>10, <2>1, <2>2 DEF ReadBond
    <3>2. ToBag(Contents(list')) (+) ToBag(pending') =
            ToBag(Contents(list)) (+) ToBag(pending)
      BY <1>10, <2>2, RecordRead
    <3>3. UNCHANGED Promised!vars
      BY <2>1, <3>1, <3>2 DEF Promised!vars, Readable
    <3> QED BY <3>3
  <2>3. CASE HasDuplicateSN(list, MakeBond(p, Head(pending)))
    <3>1. phase' = "closed"
      BY <1>10, <2>3 DEF ReadBond
    <3>2. ~titled
      <4>1. ~HasDuplicateSN(list, Head(pending)) \/ ~titled
        BY <2>1, ReadsBack DEF OwnFileReadsBack
      <4>2. MakeBond(p, Head(pending)).sn = Head(pending).sn
        BY DEF MakeBond
      <4> QED BY <2>3, <4>1, <4>2 DEF HasDuplicateSN
    <3>3. ~Promised!Distinct(ToBag(Contents(list)) (+) ToBag(pending))
      BY <1>10, <2>3, RecordRefused
    <3>4. Promised!Refuse
      BY <2>1, <3>1, <3>2, <3>3, SameBags DEF Promised!Refuse, Readable
    <3> QED BY <3>4 DEF Promised!Next
  <2> QED BY <2>2, <2>3
<1>11. CASE ReadDone
  <2>1. /\ phase = "reading" /\ phase' = "open" /\ pending = <<>>
        /\ modified_flag' = FALSE /\ UNCHANGED <<list, title, titled, disk, pending>>
    BY <1>11 DEF ReadDone
  <2>2. Contents(list) \in Seq(Content)
    BY <1>0, ContentsProperties DEF TypeOK
  <2>3. CASE titled
    <3>1. Readable(disk) /\ disk.title = title /\ disk.bonds = Contents(list)
      BY <1>0, <2>1, <2>2, <2>3, ConcatEmptySeq DEF ReadingOwnFile
    <3>2. Promised!Load
      BY <2>1, <2>3, <3>1 DEF Promised!Load
    <3> QED BY <3>2 DEF Promised!Next
  <2>4. CASE ~titled
    <3>1. UniqueSNs(Contents(list))
      BY <1>0, ContentsOrdered DEF TypeOK
    <3>2. Promised!Distinct(ToBag(Contents(list)))
      BY <2>2, <3>1, ToBagDistinct
    <3>3. ToBag(Contents(list)) (+) ToBag(pending) = ToBag(Contents(list))
      <4>1. ToBag(<<>>) = EmptyBag
        BY EmptyToBag DEF Contents
      <4> QED BY <2>1, <2>2, <4>1, EmptyBagSum
    <3>4. Promised!Import
      BY <2>1, <2>4, <3>2, <3>3, SameBags DEF Promised!Import, Readable
    <3> QED BY <3>4 DEF Promised!Next
  <2> QED BY <2>3, <2>4
<1>12. CASE DropDoc
  <2>1. phase = "open" /\ phase' = "closed" /\ disk' = disk /\ ~titled'
    BY <1>12 DEF DropDoc
  <2>2. Promised!Drop
    BY <2>1, SameBags DEF Promised!Drop, Readable
  <2> QED BY <2>2 DEF Promised!Next
<1>13. CASE UNCHANGED docVars
  BY <1>13, StatusStutter DEF docVars
<1> QED
  BY <1>1, <1>2, <1>3, <1>4, <1>5, <1>6, <1>7, <1>8, <1>9, <1>10, <1>11,
     <1>12, <1>13 DEF Next

\* The document of doc.c and doc-xml.c, with its list, its objects and its
\* reading loop, keeps what an inventory promises: a file that is opened gives
\* back exactly what was stored in it, and is never refused.
THEOREM DocKeepsPromise == Spec => KeepsPromise
<1> QED BY PromisedInit, PromisedStep, DocInvariant, PTL
        DEF KeepsPromise, Spec, Promised!Spec

---------------------------------------------------------------------------
(* Reading the files of the Savings Bond Wizard is one way of importing    *)
(* records.                                                                *)

\* Whatever the buffers held, the document sees records and a title.
LEMMA ImportIsSbwOpen ==
  ASSUME NEW records, NEW t \in Title, NEW f, Import(records, t, f)
  PROVE  Next
<1>1. PICK n \in 0 .. MaxImport : records \in [1 .. n -> Content]
  BY DEF Import
<1>2. SbwOpen(records, t)
  BY DEF Import
<1> QED BY <1>1, <1>2 DEF Next

LEMMA SbwStep == [SbwNext]_sbwVars => [Next]_docVars
<1> SUFFICES ASSUME [SbwNext]_sbwVars PROVE [Next]_docVars
  OBVIOUS
<1>1. CASE DocStep
  BY <1>1 DEF DocStep, Next
<1>2. ASSUME NEW f \in SbwFiles, SbwOpen4(f) PROVE Next
  <2>1. PICK idate \in Date, sn \in SN, series \in SbwSeries, t \in Title :
          Import(ReadSbw4(f, [idate |-> idate, sn |-> sn, series |-> series,
                              n_bytes |-> 0]), t, f)
    BY <1>2 DEF SbwOpen4
  <2> QED BY <2>1, ImportIsSbwOpen
<1>3. ASSUME NEW f \in SbwFiles, SbwOpen2(f) PROVE Next
  <2>1. PICK t \in Title : Import(ReadSbw2(f), t, f)
    BY <1>3 DEF SbwOpen2
  <2> QED BY <2>1, ImportIsSbwOpen
<1>4. CASE UNCHANGED sbwVars
  BY <1>4 DEF sbwVars
<1> QED BY <1>1, <1>2, <1>3, <1>4 DEF SbwNext

\* A document with its imports read from files is a document (doc-sbw.c calls
\* gb_doc_set_title and gb_doc_add_bond, and nothing else of doc.c).
THEOREM ImportImplements == SbwSpec => Spec
<1>1. SbwInit => Init
  BY DEF SbwInit
<1> QED BY <1>1, SbwStep, PTL DEF SbwSpec, Spec

\* Whatever files are imported, in whatever state they are, the list stays in
\* inventory order.
THEOREM ImportKeepsOrder == SbwSpec => []ListOrdered
  BY ImportImplements, AlwaysOrdered, PTL

\* No serial number and no bond object stands twice after any import.
THEOREM ImportKeepsUnique == SbwSpec => []SerialNumbersUnique
  BY ImportImplements, AlwaysUnique, PTL

\* An imported inventory that was saved reads back bond for bond.
THEOREM ImportReadsBack == SbwSpec => []OwnFileReadsBack
  BY ImportImplements, OwnFileAlwaysReadsBack, PTL

\* A document that imports keeps the promises of an inventory: however many
\* records are read, what came in becomes the inventory, or a serial number was
\* in it twice and nothing does.
THEOREM ImportKeepsPromise == SbwSpec => KeepsPromise
  BY ImportImplements, DocKeepsPromise, PTL

---------------------------------------------------------------------------
(* What is imported of a file with nothing wrong with it.                  *)

\* One turn of the loop of read_sbw4.
Turn(records, uninitialized, loop, i) ==
  IF i = 0 THEN [buffer |-> uninitialized, bonds |-> <<>>]
  ELSE [buffer |-> ReadRecord(records, i, loop[i - 1].buffer),
        bonds  |-> AddRecord(loop[i - 1].bonds,
                             ReadRecord(records, i, loop[i - 1].buffer))]

\* Induction up to m, on the set of the numbers for which something holds.
LEMMA UpTo ==
  ASSUME NEW m \in Nat, NEW S, 0 \in S,
         \A n \in 1 .. m : n - 1 \in S => n \in S
  PROVE  \A n \in 0 .. m : n \in S
<1> DEFINE T == {n \in 0 .. m : n \notin S}
<1>1. ASSUME T # {} PROVE FALSE
  <2>1. T \subseteq Nat
    OBVIOUS
  <2>2. Min(T) \in T /\ \A y \in T : Min(T) <= y
    <3> HIDE DEF T
    <3> QED BY <1>1, <2>1, MinProperties
  <2>3. PICK x \in T : \A y \in T : x <= y
    BY <2>2
  <2>4. x \in 1 .. m
    BY <2>3
  <2>5. x - 1 \in S
    BY <2>3, <2>4
  <2> QED BY <2>3, <2>4, <2>5
<1> QED BY <1>1

\* The recursion defines something.
LEMMA LoopDefined ==
  ASSUME NEW records, NEW u, NEW m \in Nat
  PROVE  \E loop : loop = [i \in 0 .. m |-> Turn(records, u, loop, i)]
<1> DEFINE S == {n \in 0 .. m : \E loop :
                   loop = [i \in 0 .. n |-> Turn(records, u, loop, i)]}
<1>1. 0 \in S
  <2> DEFINE loop == [i \in 0 .. 0 |-> [buffer |-> u, bonds |-> <<>>]]
  <2>1. \A i \in 0 .. 0 : Turn(records, u, loop, i) = [buffer |-> u, bonds |-> <<>>]
    BY DEF Turn
  <2>2. loop = [i \in 0 .. 0 |-> Turn(records, u, loop, i)]
    <3> HIDE DEF Turn
    <3> QED BY <2>1
  <2> HIDE DEF loop
  <2> QED BY <2>2
<1>2. ASSUME NEW n \in 1 .. m, n - 1 \in S PROVE n \in S
  <2>1. PICK loop : loop = [i \in 0 .. n - 1 |-> Turn(records, u, loop, i)]
    BY <1>2
  <2> DEFINE longer == [i \in 0 .. n |->
                          IF i < n THEN loop[i] ELSE Turn(records, u, loop, n)]
  <2>2. ASSUME NEW i \in 0 .. n PROVE longer[i] = Turn(records, u, longer, i)
    <3>1. i # 0 => i - 1 \in 0 .. n - 1 /\ i - 1 < n
      BY <2>2
    <3>2. i # 0 => longer[i - 1] = loop[i - 1]
      BY <3>1
    <3>3. Turn(records, u, longer, i) = Turn(records, u, loop, i)
      <4> HIDE DEF longer
      <4> QED BY <3>2 DEF Turn
    <3>4. i < n => loop[i] = Turn(records, u, loop, i)
      BY <2>1, <2>2
    <3> QED BY <2>2, <3>3, <3>4
  <2>3. longer = [i \in 0 .. n |-> longer[i]]
    OBVIOUS
  <2> HIDE DEF longer
  <2>4. longer = [i \in 0 .. n |-> Turn(records, u, longer, i)]
    BY <2>2, <2>3, Zenon
  <2> QED BY <2>4
<1> HIDE DEF S
<1>3. m \in S
  BY <1>1, <1>2, UpTo
<1> QED BY <1>3 DEF S

LEMMA LoopTurns ==
  ASSUME NEW f, f.n \in Nat, NEW u
  PROVE  \A i \in 0 .. f.n : Loop4(f, u)[i] = Turn(f.records, u, Loop4(f, u), i)
<1> DEFINE loop == CHOOSE loop : loop = [i \in 0 .. f.n |-> Turn(f.records, u, loop, i)]
<1>1. loop = [i \in 0 .. f.n |-> Turn(f.records, u, loop, i)]
  BY LoopDefined
<1>2. Loop4(f, u) = loop
  BY DEF Loop4, Turn
<1> HIDE DEF loop
<1>3. \A i \in 0 .. f.n : loop[i] = Turn(f.records, u, loop, i)
  BY <1>1, Zenon
<1> QED BY <1>2, <1>3

\* Where among the first n records of a file c is said.
SaidAt(f, n, c) ==
  {i \in 1 .. n : f.records[i].series = "known" /\ BondIn(f.records[i]) = c}

LEMMA NextSaid ==
  ASSUME NEW f, NEW n \in Nat \ {0}, NEW c
  PROVE  /\ Cardinality(SaidAt(f, n, c)) \in Nat
         /\ Cardinality(SaidAt(f, n - 1, c)) \in Nat
         /\ Cardinality(SaidAt(f, n, c)) =
              Cardinality(SaidAt(f, n - 1, c)) +
              (IF f.records[n].series = "known" /\ BondIn(f.records[n]) = c THEN 1 ELSE 0)
<1>1. IsFiniteSet(1 .. n) /\ IsFiniteSet(1 .. n - 1)
  BY FS_Interval
<1>2. IsFiniteSet(SaidAt(f, n, c)) /\ IsFiniteSet(SaidAt(f, n - 1, c))
  BY <1>1, FS_Subset DEF SaidAt
<1>3. CASE f.records[n].series = "known" /\ BondIn(f.records[n]) = c
  <2>1. SaidAt(f, n, c) = SaidAt(f, n - 1, c) \cup {n}
    BY <1>3 DEF SaidAt
  <2>2. n \notin SaidAt(f, n - 1, c)
    BY DEF SaidAt
  <2> QED BY <1>2, <1>3, <2>1, <2>2, FS_AddElement, FS_CardinalityType
<1>4. CASE ~(f.records[n].series = "known" /\ BondIn(f.records[n]) = c)
  <2>1. SaidAt(f, n, c) = SaidAt(f, n - 1, c)
    BY <1>4 DEF SaidAt
  <2>2. Cardinality(SaidAt(f, n - 1, c)) \in Nat
    BY <1>2, FS_CardinalityType
  <2> QED BY <1>4, <2>1, <2>2
<1> QED BY <1>3, <1>4

\* A list that has each bond as often as the file says is what the file says.
LEMMA CountsAreSaid ==
  ASSUME NEW f \in SbwFile, Said(f) # NotWhole, NEW s \in Seq(Content),
         \A c : Count(s, c) = Cardinality(SaidAt(f, f.n, c))
  PROVE  ToBag(s) = Said(f)
<1> DEFINE known == {i \in DOMAIN f.records : f.records[i].series = "known"}
           said  == {BondIn(f.records[i]) : i \in known}
<1>1. DOMAIN f.records = 1 .. f.n /\ f.n \in Nat
  <2>1. f.n \in Nat /\ Len(f.records) = f.n
    BY ImportAssumption DEF SbwFile, Said, Complete
  <2>2. PICK n \in 0 .. MaxImport : f.records \in [1 .. n -> SbwRecord]
    BY DEF SbwFile
  <2>3. n \in Nat
    BY ImportAssumption
  <2> QED BY <2>1, <2>2, <2>3
<1>2. Said(f) = [c \in said |-> Cardinality({i \in known : BondIn(f.records[i]) = c})]
  BY DEF Said
<1>3. \A c : {i \in known : BondIn(f.records[i]) = c} = SaidAt(f, f.n, c)
  BY <1>1 DEF SaidAt
<1>4. /\ DOMAIN ToBag(s) = {s[i] : i \in DOMAIN s}
      /\ \A c : IsFiniteSet({i \in DOMAIN s : s[i] = c})
      /\ ToBag(s) = [c \in DOMAIN ToBag(s) |-> Count(s, c)]
  <2>1. /\ DOMAIN ToBag(s) = {s[i] : i \in DOMAIN s}
        /\ \A c : IsFiniteSet({i \in DOMAIN s : s[i] = c})
    BY ToBagCounts, ZenonT(30)
  <2>2. ToBag(s) = [c \in DOMAIN ToBag(s) |-> Count(s, c)]
    BY DEF ToBag, Count
  <2> QED BY <2>1, <2>2
<1>5. ASSUME NEW c PROVE c \in DOMAIN ToBag(s) <=> c \in said
  <2>1. c \in DOMAIN ToBag(s) <=> {i \in DOMAIN s : s[i] = c} # {}
    BY <1>4
  <2>2. c \in DOMAIN ToBag(s) <=> Count(s, c) # 0
    BY <1>4, <2>1, FS_EmptySet DEF Count
  <2>3. IsFiniteSet(SaidAt(f, f.n, c))
    <3>1. SaidAt(f, f.n, c) \in SUBSET (1 .. f.n) /\ IsFiniteSet(1 .. f.n)
      BY <1>1, FS_Interval DEF SaidAt
    <3> QED BY <3>1, FS_Subset
  <2>4. c \in said <=> SaidAt(f, f.n, c) # {}
    <3>1. c \in said <=> {i \in known : BondIn(f.records[i]) = c} # {}
      OBVIOUS
    <3> QED BY <1>3, <3>1
  <2> QED BY <2>2, <2>3, <2>4, FS_EmptySet
<1>6. \A c : Count(s, c) = Cardinality({i \in known : BondIn(f.records[i]) = c})
  BY <1>3
<1> HIDE DEF known, said
<1>7. DOMAIN ToBag(s) = said
  BY <1>5
<1> QED BY <1>2, <1>4, <1>6, <1>7

\* The records of a file with nothing wrong with it.
LEMMA WholeFile ==
  ASSUME NEW f \in SbwFile, Said(f) # NotWhole
  PROVE  /\ f.n \in Nat
         /\ Len(f.records) = f.n
         /\ \A i \in 1 .. f.n :
              /\ f.records[i] \in SbwRecord
              /\ BondIn(f.records[i]) \in Content
              /\ f.version = 4 => f.records[i].sn # Blank /\ f.records[i].series # Blank
<1>1. Complete(f) /\ (f.version = 4 => \A i \in DOMAIN f.records :
                         Blank \notin {f.records[i].sn, f.records[i].series})
  BY DEF Said
<1>2. PICK n \in 0 .. MaxImport : f.records \in [1 .. n -> SbwRecord]
  BY DEF SbwFile
<1>3. n \in Nat /\ f.n \in Nat /\ f.n = n
  BY <1>1, <1>2, ImportAssumption DEF SbwFile, Complete
<1>4. \A i \in 1 .. f.n : f.records[i] \in SbwRecord
  BY <1>2, <1>3
<1>5. \A x \in SbwRecord : BondIn(x) \in Content
  BY DEF SbwRecord, BondIn, Content
<1> QED BY <1>1, <1>2, <1>3, <1>4, <1>5 DEF Complete

LEMMA AppendCounts ==
  ASSUME NEW S, NEW s \in Seq(S), NEW e \in S, NEW x
  PROVE  /\ Append(s, e) \in Seq(S)
         /\ Count(Append(s, e), x) = Count(s, x) + (IF x = e THEN 1 ELSE 0)
<1> DEFINE t == Append(s, e)
<1>1. /\ t \in Seq(S) /\ Len(t) = Len(s) + 1 /\ Len(s) \in Nat
      /\ \A k \in 1 .. Len(s) : t[k] = s[k]
      /\ t[Len(s) + 1] = e
  BY AppendProperties
<1> HIDE DEF t
<1>2. Inserted(s, t, Len(s) + 1, e)
  <2>1. \A k \in 1 .. Len(s) + 1 : k < Len(s) + 1 \/ k = Len(s) + 1
    BY <1>1
  <2>2. \A k \in 1 .. Len(s) + 1 : k < Len(s) + 1 => k \in 1 .. Len(s)
    BY <1>1
  <2> QED BY <1>1, <2>1, <2>2 DEF Inserted
<1>3. Count(t, x) = Count(s, x) + (IF x = e THEN 1 ELSE 0)
  BY <1>1, <1>2, InsertedCounts
<1> QED BY <1>1, <1>3 DEF t

\* read_sbw4, whatever its buffers hold at first.
LEMMA WholeFile4 ==
  ASSUME NEW f \in SbwFile, f.version = 4, Said(f) # NotWhole, NEW u
  PROVE  ToBag(ReadSbw4(f, u)) = Said(f)
<1> DEFINE bonds(n) == Loop4(f, u)[n].bonds
           Good(n) == /\ bonds(n) \in Seq(Content)
                      /\ \A c : Count(bonds(n), c) = Cardinality(SaidAt(f, n, c))
           S == {n \in 0 .. f.n : Good(n)}
<1>0. f.n \in Nat /\ Len(f.records) = f.n
  BY WholeFile
<1>1. \A n \in 0 .. f.n : Loop4(f, u)[n] = Turn(f.records, u, Loop4(f, u), n)
  BY <1>0, LoopTurns
<1>2. Good(0)
  <2>1. bonds(0) = <<>>
    <3>1. Loop4(f, u)[0] = Turn(f.records, u, Loop4(f, u), 0)
      BY <1>0, <1>1
    <3>2. Turn(f.records, u, Loop4(f, u), 0) = [buffer |-> u, bonds |-> <<>>]
      BY DEF Turn
    <3> QED BY <3>1, <3>2
  <2>2. <<>> \in Seq(Content) /\ \A c : {k \in DOMAIN <<>> : <<>>[k] = c} = {}
    OBVIOUS
  <2>3. \A c : SaidAt(f, 0, c) = {}
    BY DEF SaidAt
  <2> QED BY <2>1, <2>2, <2>3 DEF Count
<1>3. ASSUME NEW n \in 1 .. f.n, Good(n - 1) PROVE Good(n)
  <2> DEFINE r == f.records[n]
             last == Loop4(f, u)[n - 1]
             buffer == ReadRecord(f.records, n, last.buffer)
  <2>1. /\ r \in SbwRecord /\ r.sn # Blank /\ r.series # Blank
        /\ BondIn(r) \in Content
    BY WholeFile
  <2>2. n \in 0 .. f.n /\ n # 0 /\ n \in Nat \ {0} /\ n <= Len(f.records)
    BY <1>0
  <2>3. bonds(n) = AddRecord(bonds(n - 1), buffer)
    <3>1. Loop4(f, u)[n] = Turn(f.records, u, Loop4(f, u), n)
      BY <1>1, <2>2
    <3>2. Turn(f.records, u, Loop4(f, u), n) =
            [buffer |-> buffer, bonds |-> AddRecord(bonds(n - 1), buffer)]
      BY <2>2 DEF Turn
    <3> QED BY <3>1, <3>2
  <2>4. buffer.series = r.series /\ [idate |-> buffer.idate, sn |-> buffer.sn] = BondIn(r)
    BY <2>1, <2>2 DEF ReadRecord, BondIn
  <2> HIDE DEF buffer, last, bonds
  <2>5. bonds(n) = IF r.series = "known" THEN Append(bonds(n - 1), BondIn(r))
                   ELSE bonds(n - 1)
    BY <2>3, <2>4 DEF AddRecord
  <2>6. ASSUME NEW c
        PROVE  Cardinality(SaidAt(f, n, c)) =
                 Cardinality(SaidAt(f, n - 1, c)) +
                 (IF r.series = "known" /\ BondIn(r) = c THEN 1 ELSE 0)
               /\ Cardinality(SaidAt(f, n - 1, c)) \in Nat
    BY <2>2, NextSaid
  <2> HIDE DEF r
  <2>7. CASE r.series = "known"
    <3>1. /\ Append(bonds(n - 1), BondIn(r)) \in Seq(Content)
          /\ \A c : Count(Append(bonds(n - 1), BondIn(r)), c) =
                      Count(bonds(n - 1), c) + (IF c = BondIn(r) THEN 1 ELSE 0)
      BY <1>3, <2>1, AppendCounts
    <3> QED BY <1>3, <2>5, <2>6, <2>7, <3>1
  <2>8. CASE r.series # "known"
    BY <1>3, <2>5, <2>6, <2>8
  <2> QED BY <2>7, <2>8
<1>4. Good(f.n)
  <2> HIDE DEF Good
  <2>1. 0 \in S
    BY <1>0, <1>2
  <2>2. ASSUME NEW n \in 1 .. f.n, n - 1 \in S PROVE n \in S
    BY <1>0, <1>3, <2>2
  <2> HIDE DEF S
  <2>3. \A n \in 0 .. f.n : n \in S
    BY <1>0, <2>1, <2>2, UpTo
  <2> QED BY <1>0, <2>3 DEF S
<1> QED BY <1>4, CountsAreSaid DEF ReadSbw4

\* read_sbw2.
LEMMA WholeFile2 ==
  ASSUME NEW f \in SbwFile, Said(f) # NotWhole,
         \A i \in DOMAIN f.records : f.records[i].series = "known"
  PROVE  ToBag(ReadSbw2(f)) = Said(f)
<1> DEFINE s == ReadSbw2(f)
<1>1. /\ f.n \in Nat /\ Len(f.records) = f.n
      /\ \A i \in 1 .. f.n : BondIn(f.records[i]) \in Content
  BY WholeFile
<1>2. s = [i \in 1 .. f.n |-> s[i]] /\ \A i \in 1 .. f.n : s[i] = BondIn(f.records[i])
  BY <1>1 DEF ReadSbw2
<1>3. \A i \in 1 .. f.n : f.records[i].series = "known"
  <2>1. PICK n \in 0 .. MaxImport : f.records \in [1 .. n -> SbwRecord]
    BY DEF SbwFile
  <2>2. n \in Nat /\ n = f.n
    BY <1>1, <2>1, ImportAssumption
  <2> QED BY <2>1, <2>2
<1> HIDE DEF s
<1>4. s \in Seq(Content) /\ DOMAIN s = 1 .. f.n
  <2>1. s \in [1 .. f.n -> Content]
    BY <1>1, <1>2
  <2> QED BY <1>1, <2>1
<1>5. ASSUME NEW c PROVE {k \in DOMAIN s : s[k] = c} = SaidAt(f, f.n, c)
  BY <1>2, <1>3, <1>4 DEF SaidAt
<1>6. \A c : Count(s, c) = Cardinality(SaidAt(f, f.n, c))
  BY <1>5 DEF Count
<1>7. ToBag(s) = Said(f)
  BY <1>4, <1>6, CountsAreSaid
<1> QED BY <1>7 DEF s

\* An import begins with all of the file still to come.
LEMMA ImportBegins ==
  ASSUME DocInv, NEW records, NEW t, NEW f, Import(records, t, f),
         Said(f) # NotWhole => ToBag(records) = Said(f)
  PROVE  ImportWhole'
<1>1. /\ records \in Seq(Content) /\ pending' = records /\ whole' = Said(f)
  <2>1. PICK n \in 0 .. MaxImport : records \in [1 .. n -> Content]
    BY DEF Import
  <2>2. n \in Nat
    BY ImportAssumption
  <2> QED BY <2>1, <2>2 DEF Import, SbwOpen
<1>2. list' = <<>>
  BY DEF Import, SbwOpen, DocInv, ClosedIsEmpty
<1>3. EmptyBag (+) ToBag(records) = ToBag(records)
  BY <1>1, EmptyBagSum
<1> QED BY <1>1, <1>2, <1>3, EmptyToBag DEF ImportWhole

LEMMA NextImportWhole ==
  DocInv /\ ImportWhole /\ [SbwNext]_sbwVars => ImportWhole'
<1> SUFFICES ASSUME DocInv, ImportWhole, [SbwNext]_sbwVars
             PROVE  ImportWhole'
  OBVIOUS
<1>1. ASSUME NEW f \in SbwFiles, SbwOpen4(f) PROVE ImportWhole'
  <2>1. f \in SbwFile /\ f.version = 4
    BY <1>1, SbwAssumption DEF SbwOpen4
  <2>2. PICK idate \in Date, sn \in SN, series \in SbwSeries, t \in Title :
          Import(ReadSbw4(f, [idate |-> idate, sn |-> sn, series |-> series,
                              n_bytes |-> 0]), t, f)
    BY <1>1 DEF SbwOpen4
  <2> DEFINE u == [idate |-> idate, sn |-> sn, series |-> series, n_bytes |-> 0]
  <2> HIDE DEF u
  <2>3. Said(f) # NotWhole => ToBag(ReadSbw4(f, u)) = Said(f)
    BY <2>1, WholeFile4
  <2>4. Import(ReadSbw4(f, u), t, f)
    BY <2>2 DEF u
  <2> QED BY <2>3, <2>4, ImportBegins
<1>2. ASSUME NEW f \in SbwFiles, SbwOpen2(f) PROVE ImportWhole'
  <2>1. f \in SbwFile /\ \A i \in DOMAIN f.records : f.records[i].series = "known"
    BY <1>2, SbwAssumption DEF SbwOpen2
  <2>2. PICK t \in Title : Import(ReadSbw2(f), t, f)
    BY <1>2 DEF SbwOpen2
  <2>3. Said(f) # NotWhole => ToBag(ReadSbw2(f)) = Said(f)
    BY <2>1, WholeFile2
  <2> QED BY <2>2, <2>3, ImportBegins
<1>3. CASE DocStep /\ whole' = IF phase' = "reading" THEN whole ELSE NotWhole
  <2>1. ASSUME NEW p \in Ptr, ReadBond(p) PROVE ImportWhole'
    <3>1. CASE HasDuplicateSN(list, MakeBond(p, Head(pending)))
      BY <2>1, <3>1 DEF ReadBond, ImportWhole
    <3>2. CASE ~HasDuplicateSN(list, MakeBond(p, Head(pending)))
      <4>1. ToBag(Contents(list')) (+) ToBag(pending') =
              ToBag(Contents(list)) (+) ToBag(pending)
        BY <2>1, <3>2, RecordRead
      <4>2. phase = "reading" /\ phase' = "reading" /\ titled' = titled
        BY <2>1, <3>2 DEF ReadBond
      <4>3. whole' = whole
        BY <1>3, <4>2
      <4> QED BY <4>1, <4>2, <4>3 DEF ImportWhole
    <3> QED BY <3>1, <3>2
  <2>2. ASSUME phase' # "reading" \/ titled' PROVE ImportWhole'
    BY <2>2 DEF ImportWhole
  <2>3. CASE NewDoc
    BY <2>2, <2>3 DEF NewDoc
  <2>4. CASE \E b \in Bond : EditAddBond(b)
    BY <2>2, <2>4 DEF EditAddBond
  <2>5. CASE \E p \in Ptr : DeleteBond(p)
    BY <2>2, <2>5 DEF DeleteBond
  <2>6. CASE \E t \in Title : SetTitle(t)
    BY <2>2, <2>6 DEF SetTitle
  <2>7. CASE XmlSave
    BY <2>2, <2>7 DEF XmlSave
  <2>8. CASE XmlSaveFail
    BY <2>2, <2>8 DEF XmlSaveFail
  <2>9. CASE XmlOpen
    BY <2>2, <2>9 DEF XmlOpen
  <2>10. CASE XmlOpenFail
    BY <2>2, <2>10 DEF XmlOpenFail
  <2>11. CASE ReadDone
    BY <2>2, <2>11 DEF ReadDone
  <2>12. CASE DropDoc
    BY <2>2, <2>12 DEF DropDoc
  <2> QED BY <1>3, <2>1, <2>3, <2>4, <2>5, <2>6, <2>7, <2>8, <2>9, <2>10, <2>11, <2>12
          DEF DocStep
<1>4. CASE UNCHANGED sbwVars
  BY <1>4 DEF sbwVars, docVars, ImportWhole
<1> QED BY <1>1, <1>2, <1>3, <1>4 DEF SbwNext

\* While an inventory of the Savings Bond Wizard comes in, nothing of a file that
\* is complete and leaves nothing blank is lost, made up or mixed up, whatever the
\* buffers of read_sbw4 held first (doc-sbw.c).
THEOREM ImportAlwaysWhole == SbwSpec => []ImportWhole
<1>1. SbwInit => ImportWhole
  BY DEF SbwInit, Init, ImportWhole
<1>2. SbwSpec => []DocInv
  BY ImportImplements, DocInvariant, PTL
<1> QED BY <1>1, <1>2, NextImportWhole, PTL DEF SbwSpec
=============================================================================
