---------------------------- MODULE GbEditProofs ----------------------------
(***************************************************************************)
(* What cutting, copying, deleting and pasting keep, proved for every      *)
(* number of views, every finite set of addresses and every bonds: who     *)
(* owns a bond object, that the delete loop meets no freed one and deletes *)
(* none it was not to, the distinctness of the serial numbers, and that    *)
(* what was copied is there to paste.                                      *)
(***************************************************************************)
EXTENDS GbEdit, FiniteSetTheorems, TLAPS

\* No bond object is in two documents, and the addresses in use are those in
\* a document and those of refused bonds, which are in none.
Separate == \A v, w \in View : v # w => docs[v] \cap docs[w] = {}

Filled ==
  /\ \A p \in Ptr : bond[p] # Nil <=> p \in refused \/ \E v \in View : p \in docs[v]
  /\ \A v \in View : docs[v] \cap refused = {}

\* The delete loop asks about a bond once.
QueueDistinct ==
  dialog # Nil =>
    \A i, j \in DOMAIN dialog.queue : dialog.queue[i] = dialog.queue[j] => i = j

\* What the loop is still to ask about is not what it was told to spare.
SparedApart ==
  dialog # Nil => spared[dialog.view] \cap Range(dialog.queue) = {}

\* The part of the invariant that is about bond objects.
ObjectInv == Separate /\ Filled /\ PasteKeepsUnique

\* The part about the delete loop.
LoopInv == QueueAlive /\ QueueDistinct /\ SparedStay /\ SparedApart

\* The inductive invariant.
EditInv == TypeOK /\ ObjectInv /\ LoopInv /\ CopyAvailable

---------------------------------------------------------------------------
\* A line read back is a line.
LEMMA RereadType ==
  ASSUME NEW c \in Line
  PROVE  Reread(c) \in Line
<1>1. c.denom \in Nat \ {0} /\ c.sn \in SerialNumber /\ c.series \in {"E", "EE", "S", "I"}
  BY DEF Line
<1>2. NullText \in SerialNumber
  BY DEF SerialNumber
<1>3. (IF c.denom >= 1000 THEN c.denom \div 1000 ELSE c.denom) \in Nat \ {0}
  BY <1>1
<1> QED BY <1>1, <1>2, <1>3 DEF Reread, Line

\* The lines a paste accepts have serial numbers the inventory and the other
\* ones have not.
LEMMA AcceptedDistinct ==
  ASSUME NEW v \in View, NEW lines \in Seq(Line),
         NEW i \in Accepted(v, lines), NEW j \in Accepted(v, lines)
  PROVE  /\ i \in Made(lines)
         /\ i \in DOMAIN lines
         /\ Reread(lines[i]).sn \notin SNs(v)
         /\ Reread(lines[i]).sn = Reread(lines[j]).sn => i = j
<1> DEFINE sn(k) == Reread(lines[k]).sn
<1>1. \A k \in Accepted(v, lines) :
        /\ k \in Made(lines)
        /\ sn(k) \notin SNs(v)
        /\ \A h \in Made(lines) : h < k => sn(h) # sn(k)
  BY DEF Accepted
<1>2. \A k \in Made(lines) : k \in DOMAIN lines /\ k \in 1 .. Len(lines)
  BY DEF Made
<1> HIDE DEF sn
<1>3. sn(i) = sn(j) => i = j
  <2>1. i < j \/ j < i \/ i = j
    BY <1>1, <1>2
  <2> QED BY <1>1, <2>1
<1> QED BY <1>1, <1>2, <1>3 DEF sn

\* Deleting bonds of one document frees them and no others.
LEMMA DeleteObjects ==
  ASSUME TypeOK, ObjectInv, NEW v \in View, NEW gone, Delete(v, gone)
  PROVE  /\ docs' \in [View -> SUBSET Ptr]
         /\ bond' \in [Ptr -> Line \cup {Nil}]
         /\ selected' \in [View -> SUBSET Ptr]
         /\ \A w \in View : selected'[w] \subseteq docs'[w]
         /\ refused' \subseteq Ptr
         /\ ObjectInv'
<1>1. docs' = [docs EXCEPT ![v] = @ \ gone]
  BY DEF Delete
<1>2. docs' \in [View -> SUBSET Ptr]
  BY <1>1 DEF TypeOK
<1>3. \A w \in View : docs'[w] = IF w = v THEN docs[w] \ gone ELSE docs[w]
  BY <1>1 DEF TypeOK
<1>4. \A p \in Ptr : bond'[p] = IF p \in docs[v] \cap gone THEN Nil ELSE bond[p]
  BY DEF Delete
<1>5. bond' \in [Ptr -> Line \cup {Nil}]
  BY DEF Delete, TypeOK
<1>6. /\ selected' \in [View -> SUBSET Ptr]
      /\ \A w \in View : selected'[w] = IF w = v THEN selected[w] \ gone ELSE selected[w]
  BY DEF Delete, TypeOK
<1>7. \A w \in View : selected'[w] \subseteq docs'[w]
  BY <1>3, <1>6 DEF TypeOK
<1>8. Separate'
  BY <1>3 DEF ObjectInv, Separate
<1>9. Filled'
  <2>1. refused' = refused
    BY DEF Delete
  <2>2. \A w \in View : docs'[w] \cap refused' = {}
    BY <1>3, <2>1 DEF ObjectInv, Filled
  <2>3. ASSUME NEW p \in Ptr
        PROVE  bond'[p] # Nil <=> p \in refused' \/ \E w \in View : p \in docs'[w]
    <3>1. CASE p \in docs[v] \cap gone
      <4>1. bond'[p] = Nil /\ p \notin docs'[v]
        BY <1>3, <1>4, <3>1
      <4>2. \A w \in View : w # v => p \notin docs'[w]
        BY <1>3, <3>1 DEF ObjectInv, Separate
      <4>3. p \notin refused'
        BY <2>1, <3>1 DEF ObjectInv, Filled
      <4> QED BY <4>1, <4>2, <4>3
    <3>2. CASE p \notin docs[v] \cap gone
      BY <1>3, <1>4, <2>1, <3>2 DEF ObjectInv, Filled
    <3> QED BY <3>1, <3>2
  <2> QED BY <2>2, <2>3 DEF Filled
<1>10. PasteKeepsUnique'
  <2> SUFFICES ASSUME NEW w \in View, NEW p \in docs'[w], NEW q \in docs'[w],
                      bond'[p].sn = bond'[q].sn
               PROVE  p = q \/ bond'[p].sn = NoSN
    BY DEF PasteKeepsUnique
  <2>1. p \in docs[w] /\ q \in docs[w] /\ p \in Ptr /\ q \in Ptr
    BY <1>3 DEF TypeOK
  <2>2. p \notin docs[v] \cap gone /\ q \notin docs[v] \cap gone
    BY <1>3, <2>1 DEF ObjectInv, Separate
  <2>3. bond'[p] = bond[p] /\ bond'[q] = bond[q]
    BY <1>4, <2>1, <2>2
  <2> QED BY <2>1, <2>3 DEF ObjectInv, PasteKeepsUnique
<1>11. refused' \subseteq Ptr
  BY DEF Delete, TypeOK
<1> QED BY <1>2, <1>5, <1>6, <1>7, <1>8, <1>9, <1>10, <1>11 DEF ObjectInv

\* A paste puts its bonds at free addresses and touches no other bond.
LEMMA ReceiveObjects ==
  ASSUME TypeOK, ObjectInv, NEW v \in View, NEW lines \in Seq(Line) \cup {Nil},
         Receive(v, lines)
  PROVE  /\ docs' \in [View -> SUBSET Ptr]
         /\ bond' \in [Ptr -> Line \cup {Nil}]
         /\ selected' \in [View -> SUBSET Ptr]
         /\ \A w \in View : selected'[w] \subseteq docs'[w]
         /\ \A w \in View : docs[w] \subseteq docs'[w]
         /\ refused' \subseteq Ptr
         /\ ObjectInv'
<1>1. CASE lines = Nil
  BY <1>1 DEF Receive, TypeOK, ObjectInv, Separate, Filled, PasteKeepsUnique
<1>2. CASE lines # Nil
  <2>1. lines \in Seq(Line)
    BY <1>2
  <2> DEFINE made == Made(lines)
             new == Accepted(v, lines)
             free == {p \in Ptr : bond[p] = Nil}
  <2>2. PICK at \in Injection(made, free) :
          /\ docs' = [docs EXCEPT ![v] = @ \cup {at[i] : i \in new}]
          /\ bond' = [p \in Ptr |->
                        IF p \in Range(at)
                        THEN Reread(lines[CHOOSE i \in made : at[i] = p])
                        ELSE bond[p]]
          /\ refused' = refused \cup {at[i] : i \in made \ new}
          /\ selected' = [selected EXCEPT ![v] = {}]
    BY <1>2 DEF Receive
  <2> DEFINE line(i) == Reread(lines[i])
             in == {at[i] : i \in new}
             out == {at[i] : i \in made \ new}
  <2>3. /\ at \in [made -> free]
        /\ \A i, j \in made : at[i] = at[j] => i = j
    BY DEF Injection, IsInjective
  <2>4. Range(at) = {at[i] : i \in made}
    BY <2>3 DEF Range
  <2>5. \A i \in new : /\ i \in made
                       /\ line(i).sn \notin SNs(v)
                       /\ \A j \in new : line(i).sn = line(j).sn => i = j
    BY <2>1, AcceptedDistinct
  <2>6. \A i \in made : at[i] \in Ptr /\ bond[at[i]] = Nil /\ bond'[at[i]] = line(i)
    <3> SUFFICES ASSUME NEW i \in made
                 PROVE  at[i] \in Ptr /\ bond[at[i]] = Nil /\ bond'[at[i]] = line(i)
      OBVIOUS
    <3>1. at[i] \in Ptr /\ bond[at[i]] = Nil /\ at[i] \in Range(at)
      BY <2>3, <2>4
    <3>2. (CHOOSE j \in made : at[j] = at[i]) = i
      BY <2>3
    <3> QED BY <2>2, <3>1, <3>2
  <2>7. \A p \in Ptr \ Range(at) : bond'[p] = bond[p]
    BY <2>2
  <2>8. \A w \in View : docs'[w] = IF w = v THEN docs[w] \cup in ELSE docs[w]
    BY <2>2 DEF TypeOK
  <2>9. /\ Range(at) \subseteq Ptr
        /\ Range(at) = in \cup out
        /\ in \cap out = {}
    <3>1. in \cup out = {at[i] : i \in made}
      BY <2>5
    <3>2. in \cap out = {}
      BY <2>3, <2>5
    <3> QED BY <2>4, <2>6, <3>1, <3>2
  <2>10. (\A w \in View : docs[w] \cap Range(at) = {}) /\ refused \cap Range(at) = {}
    <3>1. \A p \in Range(at) : p \in Ptr /\ bond[p] = Nil
      BY <2>4, <2>6
    <3> QED BY <3>1 DEF ObjectInv, Filled
  <2>11. \A i \in made : line(i) \in Line
    <3> SUFFICES ASSUME NEW i \in made PROVE line(i) \in Line
      OBVIOUS
    <3>1. lines[i] \in Line
      BY <2>1 DEF Made
    <3> QED BY <3>1, RereadType
  <2>12. refused' = refused \cup out
    BY <2>2
  <2> HIDE DEF made, new, free, line, in, out
  <2>13. docs' \in [View -> SUBSET Ptr] /\ refused' \subseteq Ptr
    <3>1. in \subseteq Ptr /\ out \subseteq Ptr
      BY <2>9
    <3>2. docs' = [docs EXCEPT ![v] = @ \cup in]
      BY <2>2 DEF in, new
    <3> QED BY <2>12, <3>1, <3>2 DEF TypeOK
  <2>14. bond' \in [Ptr -> Line \cup {Nil}]
    <3>1. \A p \in Ptr : bond'[p] \in Line \cup {Nil}
      BY <2>4, <2>6, <2>7, <2>11 DEF TypeOK
    <3> QED BY <2>2, <3>1
  <2>15. /\ selected' \in [View -> SUBSET Ptr]
         /\ \A w \in View : selected'[w] \subseteq docs'[w]
    BY <2>2, <2>8 DEF TypeOK
  <2>16. Separate'
    BY <2>8, <2>9, <2>10 DEF ObjectInv, Separate
  <2>17. Filled'
    <3>1. ASSUME NEW p \in Ptr
          PROVE  bond'[p] # Nil <=> p \in refused' \/ \E w \in View : p \in docs'[w]
      <4>1. CASE p \in Range(at)
        <5>1. bond'[p] \in Line
          BY <2>4, <2>6, <2>11, <4>1
        <5>2. bond'[p] # Nil
          BY <5>1, LineAssumption DEF LineAssumption
        <5>3. p \in docs'[v] \/ p \in refused'
          BY <2>8, <2>9, <2>12, <4>1
        <5> QED BY <5>2, <5>3
      <4>2. CASE p \notin Range(at)
        BY <2>7, <2>8, <2>9, <2>12, <4>2 DEF ObjectInv, Filled
      <4> QED BY <4>1, <4>2
    <3>2. \A w \in View : docs'[w] \cap refused' = {}
      BY <2>8, <2>9, <2>10, <2>12 DEF ObjectInv, Filled
    <3> QED BY <3>1, <3>2 DEF Filled
  <2>18. PasteKeepsUnique'
    <3> SUFFICES ASSUME NEW w \in View, NEW p \in docs'[w], NEW q \in docs'[w],
                        bond'[p].sn = bond'[q].sn
                 PROVE  p = q \/ bond'[p].sn = NoSN
      BY DEF PasteKeepsUnique
    <3>1. \A r \in docs'[w] \ in : r \in docs[w] /\ bond'[r] = bond[r]
      <4> SUFFICES ASSUME NEW r \in docs'[w] \ in
                   PROVE  r \in docs[w] /\ bond'[r] = bond[r]
        OBVIOUS
      <4>1. r \in docs[w]
        BY <2>8
      <4>2. r \in Ptr \ Range(at)
        BY <2>10, <4>1 DEF TypeOK
      <4> QED BY <2>7, <4>1, <4>2
    <3>2. \A s \in in : \E i \in new : s = at[i] /\ bond'[s] = line(i)
      BY <2>5, <2>6 DEF in
    <3>3. ASSUME NEW r \in docs'[w] \ in, NEW s \in in, w = v
          PROVE  bond'[r].sn # bond'[s].sn
      BY <2>5, <3>1, <3>2, <3>3 DEF SNs
    <3>4. \A r \in docs'[w] \cap in : w = v
      BY <2>8, <2>9, <2>10
    <3>5. CASE p \in in /\ q \in in
      BY <2>5, <3>2, <3>5
    <3>6. CASE p \notin in /\ q \notin in
      BY <3>1, <3>6 DEF ObjectInv, PasteKeepsUnique
    <3> QED BY <3>3, <3>4, <3>5, <3>6
  <2> QED BY <2>8, <2>13, <2>14, <2>15, <2>16, <2>17, <2>18 DEF ObjectInv
<1> QED BY <1>1, <1>2

---------------------------------------------------------------------------
\* The selected rows as a list: some, each once.
LEMMA SelectionsList ==
  ASSUME TypeOK, NEW v \in View, selected[v] # {}, NEW rows \in Selections(v)
  PROVE  /\ rows \in Seq(Ptr) \ {<<>>}
         /\ Range(rows) \subseteq selected[v]
         /\ \A i, j \in DOMAIN rows : rows[i] = rows[j] => i = j
<1> DEFINE n == Cardinality(selected[v])
<1>1. selected[v] \subseteq Ptr
  BY DEF TypeOK
<1>2. IsFiniteSet(selected[v])
  BY <1>1, EditAssumption, FS_Subset DEF EditAssumption
<1>3. n \in Nat \ {0}
  BY <1>2, FS_CardinalityType, FS_EmptySet
<1>4. /\ rows \in [1 .. n -> selected[v]]
      /\ \A i, j \in 1 .. n : i # j => rows[i] # rows[j]
  BY DEF Selections, SetToSeqs
<1> HIDE DEF n
<1>5. rows \in Seq(Ptr) /\ rows # <<>>
  BY <1>1, <1>3, <1>4
<1>6. Range(rows) \subseteq selected[v]
  BY <1>4 DEF Range
<1> QED BY <1>4, <1>5, <1>6

\* What gb_view_copy takes stands in selection_data, and the view owns every
\* selection.
LEMMA TakeSelectionsCopies ==
  ASSUME TypeOK, ObjectInv, NEW v \in View, selected[v] # {}, TakeSelections(v)
  PROVE  /\ selection_data' \in [View -> (Seq(Line) \ {<<>>}) \cup {Nil}]
         /\ owner' \in [Atom -> View \cup {Other, Nil}]
         /\ held' \in Seq(Line) \cup {Nil}
         /\ CopyAvailable'
<1>1. PICK rows \in Selections(v) :
        /\ selection_data' = [w \in View |-> IF w = v THEN Contents(rows)
                                             ELSE Cleared(w, Owned(w, v))]
        /\ held' = Contents(rows)
        /\ owner' = [a \in Atom |-> v]
  BY DEF TakeSelections
<1>2. /\ rows \in Seq(Ptr) \ {<<>>}
      /\ Range(rows) \subseteq selected[v]
  BY <1>1, SelectionsList
<1>3. \A i \in 1 .. Len(rows) : bond[rows[i]] \in Line
  <2> SUFFICES ASSUME NEW i \in 1 .. Len(rows)
               PROVE  bond[rows[i]] \in Line
    OBVIOUS
  <2>1. rows[i] \in Ptr /\ rows[i] \in docs[v]
    BY <1>2 DEF Range, TypeOK
  <2>2. bond[rows[i]] # Nil
    BY <2>1 DEF ObjectInv, Filled
  <2> QED BY <2>1, <2>2 DEF TypeOK
<1>4. Contents(rows) = [i \in 1 .. Len(rows) |-> bond[rows[i]]]
  BY <1>2 DEF Contents
<1>5. Contents(rows) \in Seq(Line) /\ Contents(rows) # <<>>
  BY <1>2, <1>3, <1>4
<1>6. \A w \in View : Cleared(w, Owned(w, v)) \in (Seq(Line) \ {<<>>}) \cup {Nil}
  BY DEF Cleared, TypeOK
<1>7. Contents(rows) # Nil
  BY <1>5, LineAssumption DEF LineAssumption
<1>8. CopyAvailable'
  <2> SUFFICES ASSUME NEW w \in View, owner'["CLIPBOARD"] = w
               PROVE  held' # Nil /\ selection_data'[w] = held'
    BY DEF CopyAvailable
  <2>1. w = v
    BY <1>1 DEF Atom
  <2> QED BY <1>1, <1>7, <2>1
<1> QED BY <1>1, <1>5, <1>6, <1>8

---------------------------------------------------------------------------
\* Two inventories as they were opened.
LEMMA InitEditInv == Init => EditInv
<1> SUFFICES ASSUME Init
             PROVE  EditInv
  OBVIOUS
<1>1. PICK at \in Injection(Content, Ptr) :
        bond = [p \in Ptr |-> IF p \in Range(at) THEN CHOOSE c \in Content : at[c] = p
                              ELSE Nil]
  BY DEF Init
<1>2. \A p \in Range(at) : \E c \in Content : at[c] = p
  BY DEF Injection, Range
<1>3. bond \in [Ptr -> Line \cup {Nil}]
  <2>1. \A p \in Ptr : p \in Range(at) => (CHOOSE c \in Content : at[c] = p) \in Line
    BY <1>2, LineAssumption DEF LineAssumption
  <2> QED BY <1>1, <2>1
<1>4. docs \in [View -> SUBSET Ptr]
  BY DEF Init
<1>5. TypeOK
  BY <1>3, <1>4 DEF Init, TypeOK
<1>6. Separate
  BY DEF Init, Separate
<1>7. Filled
  <2>1. UNION Range(docs) = {p \in Ptr : bond[p] # Nil}
    BY DEF Init
  <2>2. \A p : p \in UNION Range(docs) <=> \E v \in View : p \in docs[v]
    BY <1>4 DEF Range
  <2>3. refused = {}
    BY DEF Init
  <2> QED BY <2>1, <2>2, <2>3 DEF Filled
<1>8. PasteKeepsUnique
  BY DEF Init, PasteKeepsUnique
<1>9. LoopInv
  BY DEF Init, LoopInv, QueueAlive, QueueDistinct, SparedStay, SparedApart
<1>10. CopyAvailable
  <2>1. owner["CLIPBOARD"] = Nil
    BY DEF Init, Atom
  <2> QED BY <2>1, EditAssumption DEF EditAssumption, CopyAvailable
<1> QED BY <1>5, <1>6, <1>7, <1>8, <1>9, <1>10 DEF EditInv, ObjectInv

---------------------------------------------------------------------------
\* The next turn of the loop has the bonds but the one just asked about.
LEMMA AdvanceQueue ==
  ASSUME TypeOK, QueueDistinct, dialog # Nil, Advance
  PROVE  /\ dialog' \in [view : View, queue : Seq(Ptr) \ {<<>>}] \cup {Nil}
         /\ dialog' # Nil =>
              /\ dialog'.view = dialog.view
              /\ Range(dialog'.queue) \subseteq Range(dialog.queue) \ {Head(dialog.queue)}
         /\ QueueDistinct'
         /\ Head(dialog.queue) \in Range(dialog.queue)
<1> DEFINE q == dialog.queue
           t == Tail(q)
<1>1. /\ dialog \in [view : View, queue : Seq(Ptr) \ {<<>>}]
      /\ q \in Seq(Ptr) /\ q # <<>>
  BY DEF TypeOK
<1>2. \A i, j \in 1 .. Len(q) : q[i] = q[j] => i = j
  BY <1>1 DEF QueueDistinct
<1>3. /\ t \in Seq(Ptr)
      /\ Len(t) = Len(q) - 1
      /\ \A i \in 1 .. Len(t) : t[i] = q[i + 1]
      /\ Head(q) = q[1]
  BY <1>1
<1>4. dialog' = Nil \/ (dialog' = [view |-> dialog.view, queue |-> t] /\ Len(q) # 1)
  BY <1>1 DEF Advance
<1> HIDE DEF q, t
<1>5. Len(q) \in Nat \ {0}
  BY <1>1
<1>6. Head(q) \in Range(q)
  BY <1>1, <1>3, <1>5 DEF Range
<1>7. CASE dialog' = Nil
  BY <1>6, <1>7 DEF QueueDistinct, q
<1>8. CASE dialog' = [view |-> dialog.view, queue |-> t] /\ Len(q) # 1
  <2>1. t # <<>>
    BY <1>3, <1>5, <1>8
  <2>2. dialog' \in [view : View, queue : Seq(Ptr) \ {<<>>}]
    BY <1>1, <1>3, <1>8, <2>1
  <2>3. \A i \in 1 .. Len(t) : t[i] \in Range(q) \ {Head(q)}
    <3> SUFFICES ASSUME NEW i \in 1 .. Len(t)
                 PROVE  t[i] \in Range(q) \ {Head(q)}
      OBVIOUS
    <3>1. i + 1 \in 1 .. Len(q) /\ 1 \in 1 .. Len(q) /\ i + 1 # 1
      BY <1>3, <1>5
    <3>2. q[i + 1] # q[1]
      BY <1>2, <3>1
    <3>3. q[i + 1] \in Range(q)
      BY <1>1, <3>1 DEF Range
    <3> QED BY <1>3, <3>2, <3>3
  <2>4. Range(t) \subseteq Range(q) \ {Head(q)}
    BY <1>3, <2>3 DEF Range
  <2>5. \A i, j \in DOMAIN t : t[i] = t[j] => i = j
    <3> SUFFICES ASSUME NEW i \in 1 .. Len(t), NEW j \in 1 .. Len(t), t[i] = t[j]
                 PROVE  i = j
      BY <1>3
    <3>1. q[i + 1] = q[j + 1] /\ i + 1 \in 1 .. Len(q) /\ j + 1 \in 1 .. Len(q)
      BY <1>3, <1>5
    <3> QED BY <1>2, <3>1
  <2>6. dialog'.view = dialog.view /\ dialog'.queue = t
    BY <1>8
  <2> QED BY <1>6, <2>2, <2>4, <2>5, <2>6 DEF QueueDistinct, q
<1> QED BY <1>4, <1>7, <1>8

\* Copying and what does not touch a selection keep what there is to paste.
LEMMA OwnersUnchanged ==
  ASSUME EditInv, UNCHANGED <<selection_data, owner, held>>
  PROVE  /\ selection_data' \in [View -> (Seq(Line) \ {<<>>}) \cup {Nil}]
         /\ owner' \in [Atom -> View \cup {Other, Nil}]
         /\ held' \in Seq(Line) \cup {Nil}
         /\ CopyAvailable'
<1>1. TypeOK /\ CopyAvailable
  BY DEF EditInv
<1> QED BY <1>1 DEF TypeOK, CopyAvailable

\* Steps that leave the documents alone.
LEMMA ObjectsUnchanged ==
  ASSUME EditInv, UNCHANGED <<docs, bond, refused>>
  PROVE  /\ docs' \in [View -> SUBSET Ptr]
         /\ bond' \in [Ptr -> Line \cup {Nil}]
         /\ ObjectInv'
BY DEF EditInv, TypeOK, ObjectInv, Separate, Filled, PasteKeepsUnique

\* An answer deletes bonds of the view the question is about, of those in
\* the loop.
LEMMA AnswerDeletes ==
  ASSUME EditInv, dialog # Nil, NEW gone \in SUBSET Range(dialog.queue),
         Delete(dialog.view, gone), UNCHANGED spared
  PROVE  /\ \A w \in View : docs'[w] = IF w = dialog.view THEN docs[w] \ gone ELSE docs[w]
         /\ SparedStay'
<1>1. TypeOK /\ SparedStay /\ spared[dialog.view] \cap Range(dialog.queue) = {}
  BY DEF EditInv, LoopInv, SparedApart
<1>2. \A w \in View : docs'[w] = IF w = dialog.view THEN docs[w] \ gone ELSE docs[w]
  BY <1>1 DEF Delete, TypeOK
<1> QED BY <1>1, <1>2 DEF SparedStay

\* An answer of a paste adds bonds, which the loop does not mind.
LEMMA GrowthKeepsLoop ==
  ASSUME EditInv, \A w \in View : docs[w] \subseteq docs'[w],
         UNCHANGED <<dialog, spared>>
  PROVE  LoopInv'
<1>1. TypeOK /\ LoopInv
  BY DEF EditInv
<1>2. dialog # Nil => dialog.view \in View
  BY <1>1 DEF TypeOK
<1> QED BY <1>1, <1>2 DEF LoopInv, QueueAlive, QueueDistinct, SparedStay, SparedApart

---------------------------------------------------------------------------
\* Every step of the user, of another process and none preserves the invariant.
LEMMA NextEditInv == EditInv /\ [Next]_vars => EditInv'
<1> SUFFICES ASSUME EditInv, [Next]_vars
             PROVE  EditInv'
  OBVIOUS
<1>1. TypeOK /\ ObjectInv /\ LoopInv /\ CopyAvailable
  BY DEF EditInv
<1>2. dialog # Nil => /\ dialog.view \in View
                      /\ dialog.queue \in Seq(Ptr)
                      /\ Head(dialog.queue) \in Range(dialog.queue)
                      /\ dialog \in [view : View, queue : Seq(Ptr) \ {<<>>}]
  <2> SUFFICES ASSUME dialog # Nil
               PROVE  /\ dialog.view \in View
                      /\ dialog.queue \in Seq(Ptr)
                      /\ Head(dialog.queue) \in Range(dialog.queue)
                      /\ dialog \in [view : View, queue : Seq(Ptr) \ {<<>>}]
    OBVIOUS
  <2>1. dialog \in [view : View, queue : Seq(Ptr) \ {<<>>}]
    BY <1>1 DEF TypeOK
  <2>2. Head(dialog.queue) = dialog.queue[1] /\ 1 \in DOMAIN dialog.queue
    BY <2>1
  <2> QED BY <2>1, <2>2 DEF Range
<1>3. ASSUME NEW v \in View, NEW rows \in SUBSET docs[v], Select(v, rows)
      PROVE  EditInv'
  <2>1. ObjectInv' /\ CopyAvailable'
    BY <1>3, ObjectsUnchanged, OwnersUnchanged DEF Select
  <2>2. LoopInv'
    BY <1>3, GrowthKeepsLoop DEF Select
  <2>3. TypeOK'
    BY <1>1, <1>3 DEF Select, TypeOK
  <2> QED BY <2>1, <2>2, <2>3 DEF EditInv
<1>4. ASSUME NEW v \in View, StartDelete(v)
      PROVE  EditInv'
  <2>1. PICK queue \in Selections(v) : dialog' = [view |-> v, queue |-> queue]
    BY <1>4 DEF StartDelete
  <2>2. /\ queue \in Seq(Ptr) \ {<<>>}
        /\ Range(queue) \subseteq selected[v]
        /\ \A i, j \in DOMAIN queue : queue[i] = queue[j] => i = j
    BY <1>1, <1>4, SelectionsList DEF StartDelete
  <2>3. ObjectInv' /\ CopyAvailable'
    BY <1>4, ObjectsUnchanged, OwnersUnchanged DEF StartDelete
  <2>4. TypeOK'
    BY <1>1, <1>4, <2>1, <2>2 DEF StartDelete, TypeOK
  <2>5. \A w \in View : spared'[w] = IF w = v THEN docs[v] \ selected[v] ELSE spared[w]
    BY <1>1, <1>4 DEF StartDelete, TypeOK
  <2>6. LoopInv'
    BY <1>1, <1>4, <2>1, <2>2, <2>5
       DEF StartDelete, TypeOK, LoopInv, QueueAlive, QueueDistinct, SparedStay, SparedApart
  <2> QED BY <2>3, <2>4, <2>6 DEF EditInv
<1>5. ASSUME NEW v \in View, Copy(v)
      PROVE  EditInv'
  <2>1. ObjectInv' /\ LoopInv'
    BY <1>5, ObjectsUnchanged, GrowthKeepsLoop DEF Copy
  <2>2. /\ selection_data' \in [View -> (Seq(Line) \ {<<>>}) \cup {Nil}]
        /\ owner' \in [Atom -> View \cup {Other, Nil}]
        /\ held' \in Seq(Line) \cup {Nil}
        /\ CopyAvailable'
    BY <1>1, <1>5, TakeSelectionsCopies DEF Copy
  <2>3. TypeOK'
    BY <1>1, <1>5, <2>2 DEF Copy, TypeOK
  <2> QED BY <2>1, <2>2, <2>3 DEF EditInv
<1>6. ASSUME NEW v \in View, Cut(v)
      PROVE  EditInv'
  <2>1. /\ selection_data' \in [View -> (Seq(Line) \ {<<>>}) \cup {Nil}]
        /\ owner' \in [Atom -> View \cup {Other, Nil}]
        /\ held' \in Seq(Line) \cup {Nil}
        /\ CopyAvailable'
    BY <1>1, <1>6, TakeSelectionsCopies DEF Cut
  <2>2. /\ docs' \in [View -> SUBSET Ptr]
        /\ bond' \in [Ptr -> Line \cup {Nil}]
        /\ selected' \in [View -> SUBSET Ptr]
        /\ \A w \in View : selected'[w] \subseteq docs'[w]
        /\ refused' \subseteq Ptr
        /\ ObjectInv'
    BY <1>1, <1>6, DeleteObjects DEF Cut
  <2>3. TypeOK'
    BY <1>1, <1>6, <2>1, <2>2 DEF Cut, TypeOK
  <2>4. \A w \in View : w # v => docs'[w] = docs[w] /\ spared'[w] = spared[w]
    BY <1>1, <1>6 DEF Cut, Delete, TypeOK
  <2>5. spared'[v] = {}
    BY <1>1, <1>6 DEF Cut, TypeOK
  <2>6. dialog = Nil /\ dialog' = Nil
    BY <1>6 DEF Cut
  <2>7. LoopInv'
    BY <1>1, <2>4, <2>5, <2>6
       DEF LoopInv, QueueAlive, QueueDistinct, SparedStay, SparedApart
  <2> QED BY <2>1, <2>2, <2>3, <2>7 DEF EditInv
<1>7. ASSUME NEW v \in View, NEW lines \in Seq(Line) \cup {Nil}, Receive(v, lines),
             UNCHANGED <<selection_data, owner, dialog, held, spared>>,
             pasting' \subseteq View
      PROVE  EditInv'
  <2>1. /\ docs' \in [View -> SUBSET Ptr]
        /\ bond' \in [Ptr -> Line \cup {Nil}]
        /\ selected' \in [View -> SUBSET Ptr]
        /\ \A w \in View : selected'[w] \subseteq docs'[w]
        /\ \A w \in View : docs[w] \subseteq docs'[w]
        /\ refused' \subseteq Ptr
        /\ ObjectInv'
    BY <1>1, <1>7, ReceiveObjects
  <2>2. CopyAvailable'
    BY <1>7, OwnersUnchanged
  <2>3. LoopInv'
    BY <1>7, <2>1, GrowthKeepsLoop
  <2>4. TypeOK'
    BY <1>1, <1>7, <2>1 DEF TypeOK
  <2> QED BY <2>1, <2>2, <2>3, <2>4 DEF EditInv
<1>8. ASSUME NEW v \in View, Paste(v)
      PROVE  EditInv'
  <2>1. CASE owner["GBONDS_CLIPBOARD"] = Other
    <3>1. UNCHANGED <<docs, bond, refused, selected, selection_data, owner, dialog, held, spared>>
          /\ pasting' = pasting \cup {v}
      BY <1>8, <2>1 DEF Paste
    <3>2. ObjectInv' /\ LoopInv' /\ CopyAvailable'
      BY <3>1, ObjectsUnchanged, OwnersUnchanged, GrowthKeepsLoop
    <3>3. TypeOK'
      BY <1>1, <3>1 DEF TypeOK
    <3> QED BY <3>2, <3>3 DEF EditInv
  <2>2. CASE owner["GBONDS_CLIPBOARD"] # Other
    <3> DEFINE w == owner["GBONDS_CLIPBOARD"]
               lines == IF w = Nil THEN Nil ELSE selection_data[w]
    <3>1. w \in View \cup {Nil}
      BY <1>1, <2>2 DEF TypeOK, Atom
    <3>2. lines \in Seq(Line) \cup {Nil}
      BY <1>1, <3>1 DEF TypeOK
    <3>3. Receive(v, lines) /\ pasting' = pasting
          /\ UNCHANGED <<selection_data, owner, dialog, held, spared>>
      BY <1>8, <2>2 DEF Paste
    <3>4. pasting' \subseteq View
      BY <1>1, <3>3 DEF TypeOK
    <3> QED BY <1>7, <3>2, <3>3, <3>4
  <2> QED BY <2>1, <2>2
<1>9. ASSUME NEW v \in View, PasteAnswered(v)
      PROVE  EditInv'
  <2>1. PICK lines \in {OtherData, Nil} : Receive(v, lines)
    BY <1>9 DEF PasteAnswered
  <2>2. lines \in Seq(Line) \cup {Nil}
    BY LineAssumption DEF LineAssumption
  <2>3. pasting' \subseteq View
        /\ UNCHANGED <<selection_data, owner, dialog, held, spared>>
    BY <1>1, <1>9 DEF PasteAnswered, TypeOK
  <2> QED BY <1>7, <2>1, <2>2, <2>3
<1>10. CASE AnswerYes
  <2> DEFINE d == dialog.view
             asked == Head(dialog.queue)
  <2>1. /\ dialog # Nil
        /\ Delete(d, {asked})
        /\ Advance
        /\ UNCHANGED <<selection_data, owner, pasting, held, spared>>
    BY <1>10 DEF AnswerYes
  <2>2. /\ dialog' \in [view : View, queue : Seq(Ptr) \ {<<>>}] \cup {Nil}
        /\ dialog' # Nil =>
             /\ dialog'.view = d
             /\ Range(dialog'.queue) \subseteq Range(dialog.queue) \ {asked}
        /\ QueueDistinct'
    BY <1>1, <2>1, AdvanceQueue DEF LoopInv
  <2>3. /\ docs' \in [View -> SUBSET Ptr]
        /\ bond' \in [Ptr -> Line \cup {Nil}]
        /\ selected' \in [View -> SUBSET Ptr]
        /\ \A w \in View : selected'[w] \subseteq docs'[w]
        /\ refused' \subseteq Ptr
        /\ ObjectInv'
    BY <1>1, <1>2, <2>1, DeleteObjects
  <2>4. /\ \A w \in View : docs'[w] = IF w = d THEN docs[w] \ {asked} ELSE docs[w]
        /\ SparedStay'
    BY <1>2, <2>1, AnswerDeletes
  <2>5. CopyAvailable'
    BY <2>1, OwnersUnchanged
  <2>6. TypeOK'
    BY <1>1, <2>1, <2>2, <2>3 DEF TypeOK
  <2>7. QueueAlive'
    BY <1>1, <1>2, <2>1, <2>2, <2>4 DEF LoopInv, QueueAlive
  <2>8. SparedApart'
    BY <1>1, <2>1, <2>2 DEF LoopInv, SparedApart
  <2> QED BY <2>2, <2>3, <2>4, <2>5, <2>6, <2>7, <2>8 DEF EditInv, LoopInv
<1>11. CASE AnswerNo
  <2> DEFINE d == dialog.view
             asked == Head(dialog.queue)
  <2>1. /\ dialog # Nil
        /\ Advance
        /\ spared' = [spared EXCEPT ![d] = @ \cup {asked}]
        /\ UNCHANGED <<docs, bond, refused, selected, selection_data, owner, pasting, held>>
    BY <1>11 DEF AnswerNo
  <2>2. /\ dialog' \in [view : View, queue : Seq(Ptr) \ {<<>>}] \cup {Nil}
        /\ dialog' # Nil =>
             /\ dialog'.view = d
             /\ Range(dialog'.queue) \subseteq Range(dialog.queue) \ {asked}
        /\ QueueDistinct'
    BY <1>1, <2>1, AdvanceQueue DEF LoopInv
  <2>3. ObjectInv' /\ CopyAvailable'
    BY <2>1, ObjectsUnchanged, OwnersUnchanged
  <2>4. asked \in docs[d]
    BY <1>1, <1>2, <2>1 DEF LoopInv, QueueAlive
  <2>5. \A w \in View : spared'[w] = IF w = d THEN spared[w] \cup {asked} ELSE spared[w]
    BY <1>1, <2>1 DEF TypeOK
  <2>6. SparedStay'
    BY <1>1, <2>1, <2>4, <2>5 DEF LoopInv, SparedStay
  <2>7. spared' \in [View -> SUBSET Ptr]
    BY <1>1, <1>2, <2>1, <2>4 DEF TypeOK
  <2>8. TypeOK'
    BY <1>1, <2>1, <2>2, <2>7 DEF TypeOK
  <2>9. QueueAlive'
    BY <1>1, <2>1, <2>2 DEF LoopInv, QueueAlive
  <2>10. SparedApart'
    BY <1>1, <1>2, <2>1, <2>2, <2>5 DEF LoopInv, SparedApart
  <2> QED BY <2>2, <2>3, <2>6, <2>8, <2>9, <2>10 DEF EditInv, LoopInv
<1>12. CASE AnswerYesToAll
  <2> DEFINE d == dialog.view
             rest == Range(dialog.queue)
  <2>1. /\ dialog # Nil
        /\ Delete(d, rest)
        /\ dialog' = Nil
        /\ UNCHANGED <<selection_data, owner, pasting, held, spared>>
    BY <1>12 DEF AnswerYesToAll
  <2>2. /\ docs' \in [View -> SUBSET Ptr]
        /\ bond' \in [Ptr -> Line \cup {Nil}]
        /\ selected' \in [View -> SUBSET Ptr]
        /\ \A w \in View : selected'[w] \subseteq docs'[w]
        /\ refused' \subseteq Ptr
        /\ ObjectInv'
    BY <1>1, <1>2, <2>1, DeleteObjects
  <2>3. SparedStay'
    BY <2>1, AnswerDeletes
  <2>4. CopyAvailable'
    BY <2>1, OwnersUnchanged
  <2>5. TypeOK'
    BY <1>1, <2>1, <2>2 DEF TypeOK
  <2> QED BY <2>1, <2>2, <2>3, <2>4, <2>5
          DEF EditInv, LoopInv, QueueAlive, QueueDistinct, SparedApart
<1>13. CASE AnswerCancel
  <2> DEFINE d == dialog.view
             rest == Range(dialog.queue)
  <2>1. /\ dialog # Nil
        /\ dialog' = Nil
        /\ spared' = [spared EXCEPT ![d] = @ \cup rest]
        /\ UNCHANGED <<docs, bond, refused, selected, selection_data, owner, pasting, held>>
    BY <1>13 DEF AnswerCancel
  <2>2. ObjectInv' /\ CopyAvailable'
    BY <2>1, ObjectsUnchanged, OwnersUnchanged
  <2>3. rest \subseteq docs[d]
    BY <1>1, <2>1 DEF LoopInv, QueueAlive
  <2>4. SparedStay' /\ TypeOK'
    BY <1>1, <1>2, <2>1, <2>3 DEF LoopInv, SparedStay, TypeOK
  <2> QED BY <2>1, <2>2, <2>4
          DEF EditInv, LoopInv, QueueAlive, QueueDistinct, SparedApart
<1>14. ASSUME NEW a \in Atom, OtherTakes(a)
       PROVE  EditInv'
  <2>1. /\ owner' = [owner EXCEPT ![a] = Other]
        /\ selection_data' = [w \in View |-> IF owner[a] = w THEN Cleared(w, {a})
                                             ELSE selection_data[w]]
        /\ UNCHANGED <<docs, bond, refused, selected, pasting, dialog, held, spared>>
    BY <1>14 DEF OtherTakes
  <2>2. ObjectInv' /\ LoopInv'
    BY <2>1, ObjectsUnchanged, GrowthKeepsLoop
  <2>3. TypeOK'
    <3>1. \A w \in View : selection_data'[w] \in (Seq(Line) \ {<<>>}) \cup {Nil}
      BY <1>1, <2>1 DEF TypeOK, Cleared
    <3>2. selection_data' \in [View -> (Seq(Line) \ {<<>>}) \cup {Nil}]
      BY <2>1, <3>1
    <3> QED BY <1>1, <2>1, <3>2 DEF TypeOK
  <2>4. CopyAvailable'
    <3> SUFFICES ASSUME NEW w \in View, owner'["CLIPBOARD"] = w,
                        owner'["GBONDS_CLIPBOARD"] = w
                 PROVE  held' # Nil /\ selection_data'[w] = held'
      BY DEF CopyAvailable
    <3>1. /\ w # Other
          /\ a \in {"CLIPBOARD", "PRIMARY", "GBONDS_CLIPBOARD"}
      BY EditAssumption DEF EditAssumption, Atom
    <3>2. /\ a = "PRIMARY"
          /\ owner["CLIPBOARD"] = w
          /\ owner["GBONDS_CLIPBOARD"] = w
      BY <1>1, <2>1, <3>1 DEF TypeOK, Atom
    <3>3. selection_data'[w] = selection_data[w]
      BY <2>1, <3>2 DEF Cleared
    <3> QED BY <1>1, <2>1, <3>2, <3>3 DEF CopyAvailable
  <2> QED BY <2>2, <2>3, <2>4 DEF EditInv
<1>15. CASE UNCHANGED vars
  <2>1. UNCHANGED <<docs, bond, refused, selected, selection_data, owner, pasting,
                    dialog, held, spared>>
    BY <1>15 DEF vars
  <2>2. ObjectInv' /\ LoopInv' /\ CopyAvailable'
    BY <2>1, ObjectsUnchanged, OwnersUnchanged, GrowthKeepsLoop
  <2>3. TypeOK'
    BY <1>1, <2>1 DEF TypeOK
  <2> QED BY <2>2, <2>3 DEF EditInv
<1> QED BY <1>3, <1>4, <1>5, <1>6, <1>8, <1>9, <1>10, <1>11, <1>12, <1>13, <1>14, <1>15
        DEF Next

\* The invariant holds throughout.
LEMMA EditInvariant == Spec => []EditInv
<1> QED BY InitEditInv, NextEditInv, PTL DEF Spec

---------------------------------------------------------------------------
\* Every variable of the clipboard and the delete loop has its type: views,
\* addresses and lines (view.c, edit.c).
THEOREM EditTypeCorrect == Spec => []TypeOK
<1>1. EditInv => TypeOK
  BY DEF EditInv
<1> QED BY <1>1, EditInvariant, PTL

\* A bond object is in exactly one document, or free to be used again, or was
\* refused as a duplicate and is in no document ever (gb_doc_bond_new allocates,
\* gb_doc_delete_bond frees, gb_doc_add_bond refuses and does not free).
THEOREM AlwaysOwnedOnce == Spec => []OwnedOnce
<1>1. EditInv => OwnedOnce
  <2> SUFFICES ASSUME EditInv
               PROVE  OwnedOnce
    OBVIOUS
  <2>1. \A v \in View : \A p \in docs[v] : bond[p] # Nil
    BY DEF EditInv, TypeOK, ObjectInv, Filled
  <2>2. ASSUME NEW p \in refused
        PROVE  Cardinality({v \in View : p \in docs[v]}) = 0
    <3>1. {v \in View : p \in docs[v]} = {}
      BY DEF EditInv, ObjectInv, Filled
    <3> QED BY <3>1, FS_EmptySet
  <2>3. ASSUME NEW p \in Ptr, bond[p] # Nil, p \notin refused
        PROVE  Cardinality({v \in View : p \in docs[v]}) = 1
    <3>1. PICK v \in View : p \in docs[v]
      BY <2>3 DEF EditInv, ObjectInv, Filled
    <3>2. {w \in View : p \in docs[w]} = {v}
      BY <3>1 DEF EditInv, ObjectInv, Separate
    <3> QED BY <3>2, FS_Singleton
  <2> QED BY <2>1, <2>2, <2>3 DEF OwnedOnce
<1> QED BY <1>1, EditInvariant, PTL

\* The delete loop never comes to a freed bond, whatever pastes are answered
\* while it asks (gb_edit_delete_bonds).
THEOREM QueueAlwaysAlive == Spec => []QueueAlive
<1>1. EditInv => QueueAlive
  BY DEF EditInv, LoopInv
<1> QED BY <1>1, EditInvariant, PTL

\* A deletion spares what was not selected and what the user said No to
\* (gb_edit_delete_bonds).
THEOREM SparedAlwaysStay == Spec => []SparedStay
<1>1. EditInv => SparedStay
  BY DEF EditInv, LoopInv
<1> QED BY <1>1, EditInvariant, PTL

\* No paste puts a serial number twice into an inventory, for any lines
\* another process answers with (selection_received_cb).
THEOREM PasteAlwaysKeepsUnique == Spec => []PasteKeepsUnique
<1>1. EditInv => PasteKeepsUnique
  BY DEF EditInv, ObjectInv
<1> QED BY <1>1, EditInvariant, PTL

\* What was copied last is there to paste as long as the clipboard is ours
\* (selection_clear_cb).
THEOREM CopyAlwaysAvailable == Spec => []CopyAvailable
<1>1. EditInv => CopyAvailable
  BY DEF EditInv
<1> QED BY <1>1, EditInvariant, PTL

---------------------------------------------------------------------------
(* Which bonds a copy and a paste keep.                                    *)

\* A bond that its line says exactly: with a serial number, a denomination
\* without a comma, and one its series has.
Plain(c) == c.sn # NoSN /\ c.denom < 1000 /\ TestSeriesDenom(c)

\* Lines that a paste reads as they were copied.
Copied(lines) ==
  /\ \A i \in DOMAIN lines : Plain(lines[i])
  /\ \A i, j \in DOMAIN lines : lines[i].sn = lines[j].sn => i = j

PlainBonds == \A p \in Ptr : bond[p] # Nil => Plain(bond[p])
PlainCopies ==
  \A v \in View : selection_data[v] # Nil => Copied(selection_data[v])

LEMMA PlainReread ==
  ASSUME NEW c \in Line, Plain(c)
  PROVE  Reread(c) = c
<1>1. c = [sn |-> c.sn, series |-> c.series, denom |-> c.denom] /\ c.denom \in Nat
  BY DEF Line
<1>2. ~(c.denom >= 1000)
  BY <1>1 DEF Plain
<1> QED BY <1>1, <1>2 DEF Plain, Reread

\* What a paste does to the bonds, and where the accepted ones are after it.
LEMMA ReceivedBonds ==
  ASSUME TypeOK, ObjectInv, NEW v \in View, NEW lines \in Seq(Line),
         lines # Nil, Receive(v, lines)
  PROVE  /\ \A i \in Accepted(v, lines) :
              \E p \in docs'[v] : bond'[p] = Reread(lines[i])
         /\ \A p \in Ptr : \/ bond'[p] = bond[p]
                           \/ \E i \in Made(lines) : bond'[p] = Reread(lines[i])
         /\ \A p \in docs[v] : p \in docs'[v] /\ bond'[p] = bond[p]
<1> DEFINE made == Made(lines)
           new == Accepted(v, lines)
           free == {p \in Ptr : bond[p] = Nil}
<1>1. PICK at \in Injection(made, free) :
        /\ docs' = [docs EXCEPT ![v] = @ \cup {at[i] : i \in new}]
        /\ bond' = [p \in Ptr |->
                      IF p \in Range(at)
                      THEN Reread(lines[CHOOSE i \in made : at[i] = p])
                      ELSE bond[p]]
  BY DEF Receive
<1>2. /\ at \in [made -> free]
      /\ \A i, j \in made : at[i] = at[j] => i = j
      /\ Range(at) = {at[i] : i \in made}
  BY DEF Injection, IsInjective, Range
<1>3. docs'[v] = docs[v] \cup {at[i] : i \in new}
  BY <1>1 DEF TypeOK
<1>4. \A p \in docs[v] : p \in Ptr /\ p \notin Range(at)
  <2> SUFFICES ASSUME NEW p \in docs[v] PROVE p \in Ptr /\ p \notin Range(at)
    OBVIOUS
  <2>1. p \in Ptr /\ bond[p] # Nil
    BY DEF TypeOK, ObjectInv, Filled
  <2> QED BY <1>2, <2>1
<1>5. ASSUME NEW i \in made PROVE bond'[at[i]] = Reread(lines[i])
  <2>1. at[i] \in Ptr /\ at[i] \in Range(at)
    BY <1>2
  <2>2. (CHOOSE j \in made : at[j] = at[i]) = i
    BY <1>2
  <2> QED BY <1>1, <2>1, <2>2
<1>6. ASSUME NEW p \in Ptr
      PROVE  bond'[p] = bond[p] \/ \E i \in made : bond'[p] = Reread(lines[i])
  <2>1. CASE p \in Range(at)
    BY <1>2, <1>5, <2>1
  <2>2. CASE p \notin Range(at)
    BY <1>1, <2>2
  <2> QED BY <2>1, <2>2
<1>7. new \subseteq made
  BY DEF Accepted
<1> HIDE DEF made, new, free
<1>8. \A p \in docs[v] : p \in docs'[v] /\ bond'[p] = bond[p]
  BY <1>1, <1>3, <1>4
<1>9. \A i \in new : \E p \in docs'[v] : bond'[p] = Reread(lines[i])
  BY <1>3, <1>5, <1>7
<1> QED BY <1>6, <1>8, <1>9 DEF new, made

\* Lines read as they were copied arrive, each with its bond.
LEMMA CopiedArrive ==
  ASSUME TypeOK, ObjectInv, NEW v \in View, NEW lines \in Seq(Line),
         lines # Nil, Receive(v, lines), Copied(lines)
  PROVE  Arrive(v, lines)
<1> SUFFICES ASSUME NEW i \in DOMAIN lines
             PROVE  \E p \in docs'[v] : /\ bond'[p].sn = lines[i].sn
                                        /\ p \in docs[v] \/ bond'[p] = lines[i]
  BY DEF Arrive
<1>1. \A j \in DOMAIN lines : /\ lines[j] \in Line /\ Reread(lines[j]) = lines[j]
                              /\ TestSeriesDenom(lines[j])
  BY PlainReread DEF Copied, Plain
<1>2. CASE lines[i].sn \in SNs(v)
  <2>1. PICK p \in docs[v] : bond[p].sn = lines[i].sn
    BY <1>2 DEF SNs
  <2> QED BY <2>1, ReceivedBonds
<1>3. CASE lines[i].sn \notin SNs(v)
  <2>1. \A j \in Made(lines) : j < i => j \in DOMAIN lines /\ j # i
    BY DEF Made
  <2>2. \A j \in Made(lines) : j < i => Reread(lines[j]).sn # lines[i].sn
    BY <1>1, <2>1 DEF Copied
  <2>3. Reread(lines[i]).sn = lines[i].sn /\ i \in Made(lines)
    BY <1>1 DEF Made
  <2>4. i \in Accepted(v, lines)
    BY <1>3, <2>2, <2>3 DEF Accepted
  <2>5. PICK p \in docs'[v] : bond'[p] = Reread(lines[i])
    BY <2>4, ReceivedBonds
  <2> QED BY <1>1, <2>5
<1> QED BY <1>2, <1>3

LEMMA ReceiveKeepsPlain ==
  ASSUME TypeOK, ObjectInv, PlainBonds, NEW v \in View,
         NEW lines \in Seq(Line) \cup {Nil}, Receive(v, lines),
         lines # Nil => \A i \in DOMAIN lines : Plain(lines[i])
  PROVE  PlainBonds'
<1>1. CASE lines = Nil
  BY <1>1 DEF Receive, PlainBonds
<1>2. CASE lines # Nil
  <2>1. \A i \in Made(lines) : i \in DOMAIN lines
    BY DEF Made
  <2>2. ASSUME NEW i \in Made(lines) PROVE Plain(Reread(lines[i]))
    <3>1. lines[i] \in Line /\ Plain(lines[i])
      BY <1>2, <2>1
    <3> QED BY <3>1, PlainReread
  <2> QED BY <1>2, <2>2, ReceivedBonds DEF PlainBonds
<1> QED BY <1>1, <1>2

\* The bonds of one document, taken in some order, are apart.
LEMMA TakenAreCopied ==
  ASSUME TypeOK, ObjectInv, PlainBonds, PlainCopies, NEW v \in View,
         selected[v] # {}, TakeSelections(v)
  PROVE  PlainCopies'
<1>1. PICK rows \in Selections(v) :
        selection_data' = [w \in View |-> IF w = v THEN Contents(rows)
                                          ELSE Cleared(w, Owned(w, v))]
  BY DEF TakeSelections
<1>2. /\ rows \in Seq(Ptr)
      /\ Range(rows) \subseteq selected[v]
      /\ \A i, j \in DOMAIN rows : rows[i] = rows[j] => i = j
  BY SelectionsList
<1>3. \A i \in DOMAIN rows : rows[i] \in Ptr /\ rows[i] \in docs[v] /\ bond[rows[i]] # Nil
  <2> SUFFICES ASSUME NEW i \in DOMAIN rows
               PROVE  rows[i] \in Ptr /\ rows[i] \in docs[v] /\ bond[rows[i]] # Nil
    OBVIOUS
  <2>1. rows[i] \in Ptr /\ rows[i] \in docs[v]
    BY <1>2 DEF Range, TypeOK
  <2> QED BY <2>1 DEF ObjectInv, Filled
<1>4. DOMAIN Contents(rows) = DOMAIN rows
      /\ \A i \in DOMAIN rows : Contents(rows)[i] = bond[rows[i]]
  BY DEF Contents
<1>5. \A i \in DOMAIN rows : Plain(bond[rows[i]])
  BY <1>3 DEF PlainBonds
<1>6. \A i, j \in DOMAIN rows : bond[rows[i]].sn = bond[rows[j]].sn => i = j
  BY <1>2, <1>3, <1>5 DEF ObjectInv, PasteKeepsUnique, Plain
<1>7. Copied(Contents(rows))
  BY <1>4, <1>5, <1>6 DEF Copied
<1> QED BY <1>1, <1>7 DEF PlainCopies, Cleared

LEMMA NextPlain ==
  ASSUME \A c \in Content \cup Range(OtherData) : Plain(c),
         EditInv, PlainBonds, PlainCopies, [Next]_vars
  PROVE  PlainBonds' /\ PlainCopies'
<1> USE DEF EditInv
<1>1. \A v \in View : \A gone : Delete(v, gone) => PlainBonds'
  BY DEF Delete, PlainBonds
<1>2. ASSUME NEW v \in View, NEW rows \in SUBSET docs[v], Select(v, rows)
      PROVE  PlainBonds' /\ PlainCopies'
  BY <1>2 DEF Select, PlainBonds, PlainCopies
<1>3. ASSUME NEW v \in View, StartDelete(v) PROVE PlainBonds' /\ PlainCopies'
  BY <1>3 DEF StartDelete, PlainBonds, PlainCopies
<1>4. ASSUME NEW v \in View, Copy(v) PROVE PlainBonds' /\ PlainCopies'
  BY <1>4, TakenAreCopied DEF Copy, PlainBonds
<1>5. ASSUME NEW v \in View, Cut(v) PROVE PlainBonds' /\ PlainCopies'
  BY <1>1, <1>5, TakenAreCopied DEF Cut
<1>6. ASSUME NEW v \in View, Paste(v) PROVE PlainBonds' /\ PlainCopies'
  <2>1. PlainCopies'
    BY <1>6 DEF Paste, PlainCopies
  <2> DEFINE w == owner["GBONDS_CLIPBOARD"]
  <2>2. CASE w = Other
    BY <1>6, <2>1, <2>2 DEF Paste, PlainBonds
  <2>3. CASE w # Other
    <3> DEFINE lines == IF w = Nil THEN Nil ELSE selection_data[w]
    <3>1. Receive(v, lines)
      BY <1>6, <2>3 DEF Paste
    <3>2. w = Nil \/ w \in View
      BY <2>3 DEF TypeOK, Atom
    <3>3. lines \in Seq(Line) \cup {Nil}
      BY <3>2 DEF TypeOK
    <3>4. lines # Nil => \A i \in DOMAIN lines : Plain(lines[i])
      BY <3>2 DEF PlainCopies, Copied
    <3> HIDE DEF lines
    <3>5. PlainBonds'
      BY <3>1, <3>3, <3>4, ReceiveKeepsPlain
    <3> QED BY <2>1, <3>5
  <2> QED BY <2>2, <2>3
<1>7. ASSUME NEW v \in View, PasteAnswered(v) PROVE PlainBonds' /\ PlainCopies'
  <2>1. PICK lines \in {OtherData, Nil} : Receive(v, lines)
    BY <1>7 DEF PasteAnswered
  <2>2. OtherData \in Seq(Line) /\ \A i \in DOMAIN OtherData : Plain(OtherData[i])
    BY LineAssumption DEF LineAssumption, Range
  <2>3. PlainBonds'
    BY <2>1, <2>2, ReceiveKeepsPlain
  <2> QED BY <1>7, <2>3 DEF PasteAnswered, PlainCopies
<1>8. CASE AnswerYes \/ AnswerNo \/ AnswerYesToAll \/ AnswerCancel
  <2>1. dialog # Nil => dialog.view \in View
    BY DEF TypeOK
  <2>2. CASE AnswerYes
    BY <1>1, <2>1, <2>2 DEF AnswerYes, PlainCopies
  <2>3. CASE AnswerNo
    BY <2>3 DEF AnswerNo, PlainBonds, PlainCopies
  <2>4. CASE AnswerYesToAll
    BY <1>1, <2>1, <2>4 DEF AnswerYesToAll, PlainCopies
  <2>5. CASE AnswerCancel
    BY <2>5 DEF AnswerCancel, PlainBonds, PlainCopies
  <2> QED BY <1>8, <2>2, <2>3, <2>4, <2>5
<1>9. ASSUME NEW a \in Atom, OtherTakes(a) PROVE PlainBonds' /\ PlainCopies'
  BY <1>9 DEF OtherTakes, Cleared, PlainBonds, PlainCopies
<1>10. CASE UNCHANGED vars
  BY <1>10 DEF vars, PlainBonds, PlainCopies
<1> QED BY <1>2, <1>3, <1>4, <1>5, <1>6, <1>7, <1>8, <1>9, <1>10 DEF Next

\* Where every bond has a serial number, costs less than a thousand dollars and
\* has a denomination of its series, a copy and a paste in this process keep all
\* bonds (gb_view_copy, selection_received_cb): the commas that gb_value_fmt
\* prints and the NULL serial numbers of imports are all that can go wrong.
THEOREM PlainAlwaysPasted ==
  ASSUME \A c \in Content \cup Range(OtherData) : Plain(c)
  PROVE  Spec => PasteKeepsBonds
<1>1. Init => PlainBonds /\ PlainCopies
  <2> SUFFICES ASSUME Init PROVE PlainBonds /\ PlainCopies
    OBVIOUS
  <2>1. PICK at \in Injection(Content, Ptr) :
          bond = [p \in Ptr |-> IF p \in Range(at) THEN CHOOSE c \in Content : at[c] = p
                                ELSE Nil]
    BY DEF Init
  <2>2. \A p \in Range(at) : \E c \in Content : at[c] = p
    BY DEF Injection, Range
  <2> QED BY <2>1, <2>2 DEF Init, PlainBonds, PlainCopies
<1>2. EditInv /\ PlainBonds /\ PlainCopies /\ [Next]_vars => PlainBonds' /\ PlainCopies'
  BY NextPlain
<1>3. EditInv /\ PlainBonds /\ PlainCopies /\ [Next]_vars
        => [\A v \in View :
              Paste(v) /\ owner["CLIPBOARD"] = owner["GBONDS_CLIPBOARD"]
                       /\ owner["GBONDS_CLIPBOARD"] \in View
                => Arrive(v, held)]_vars
  <2> SUFFICES ASSUME EditInv, PlainCopies, NEW v \in View, Paste(v),
                      owner["CLIPBOARD"] = owner["GBONDS_CLIPBOARD"],
                      owner["GBONDS_CLIPBOARD"] \in View
               PROVE  Arrive(v, held)
    OBVIOUS
  <2> DEFINE w == owner["GBONDS_CLIPBOARD"]
  <2>1. selection_data[w] = held /\ held # Nil
    BY DEF EditInv, CopyAvailable
  <2>2. w # Other /\ w # Nil
    BY EditAssumption DEF EditAssumption
  <2>3. Receive(v, held)
    BY <2>1, <2>2 DEF Paste
  <2>4. held \in Seq(Line) /\ Copied(held)
    BY <2>1 DEF EditInv, TypeOK, PlainCopies
  <2> QED BY <2>1, <2>3, <2>4, CopiedArrive DEF EditInv
<1> QED BY <1>1, <1>2, <1>3, EditInvariant, PTL DEF Spec, PasteKeepsBonds
=============================================================================
