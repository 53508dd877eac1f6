------------------------- MODULE RecentModelProofs -------------------------
(***************************************************************************)
(* For any number of programs, files, tries and deaths: no two programs    *)
(* are between reading and unlocking ~/.recently-used, what they do to the *)
(* file implements RecentList, every variable keeps its type, and no       *)
(* change of the file is missed.                                           *)
(***************************************************************************)
EXTENDS RecentModel, SequenceTheorems, FiniteSetTheorems, TLAPS

Places == {"off", "idle", "open", "create", "lock", "read", "write", "flush",
           "tail", "unlock"}

\* Whoever is in the file holds the lock.
LockHeld == \A p \in Proc : InFile(p) => locker = p

LockInv == pc \in [Proc -> Places] /\ LockHeld

LEMMA LockInit == Init => LockInv
  BY DEF Init, LockInv, LockHeld, InFile, Places

\* A call sends its program to a place outside the file, and no other.
LEMMA CallStaysOut ==
  ASSUME pc \in [Proc -> Places], NEW p \in Proc, NEW kind, NEW uri,
         Call(p, kind, uri)
  PROVE  /\ pc' \in [Proc -> Places]
         /\ ~InFile(p)'
         /\ \A q \in Proc : q # p => pc'[q] = pc[q]
  BY DEF Call, InFile, Places

LEMMA LockStep == LockInv /\ [Next]_vars => LockInv'
<1> SUFFICES ASSUME LockInv, [Next]_vars PROVE LockInv'
  OBVIOUS
<1> USE DEF LockInv, LockHeld, InFile
<1>1. ASSUME NEW p \in Proc, NEW uri, Add(p, uri) PROVE LockInv'
  BY <1>1, CallStaysOut DEF Add, fileVars
<1>2. ASSUME NEW p \in Proc, NEW kind, NEW uri, Delete(p, kind, uri) PROVE LockInv'
  BY <1>2, CallStaysOut DEF Delete, fileVars
<1>3. ASSUME NEW p \in Proc, Start(p) PROVE LockInv'
  BY <1>3, CallStaysOut DEF Start, fileVars
<1>4. ASSUME NEW p \in Proc, Step(p) PROVE LockInv'
  <2>1. CASE OpenFile(p)
    BY <1>4, <2>1 DEF OpenFile, Opened, Places, fileVars
  <2>2. CASE CreateFile(p)
    BY <1>4, <2>2 DEF CreateFile, Opened, Places
  <2>3. CASE LockFile(p)
    \* The lock was free, so that nobody was in the file.
    <3>1. CASE locker = Nil
      <4>1. \A q \in Proc : ~InFile(q)
        BY <3>1, RecentAssumption DEF RecentAssumption
      <4>2. locker' = p /\ pc' = [pc EXCEPT ![p] = "read"]
        BY <2>3, <3>1 DEF LockFile
      <4> QED BY <4>1, <4>2 DEF Places
    <3>2. CASE locker # Nil
      <4>1. UNCHANGED locker /\ (pc' = pc \/ pc' = [pc EXCEPT ![p] = "idle"])
        BY <2>3, <3>2 DEF LockFile
      <4> QED BY <4>1 DEF Places
    <3> QED BY <3>1, <3>2
  <2>4. CASE ReadFile(p)
    <3>1. /\ pc[p] = "read"
          /\ UNCHANGED locker
          /\ \/ pc' = [pc EXCEPT ![p] = "unlock"]
             \/ pc' = [pc EXCEPT ![p] = "write"]
      BY <2>4 DEF ReadFile, fileVars
    <3> QED BY <3>1 DEF Places
  <2>5. CASE ClearFile(p)
    BY <1>4, <2>5 DEF ClearFile, Places
  <2>6. CASE CutFile(p)
    <3>1. pc[p] = "write" /\ UNCHANGED locker /\ pc' = [pc EXCEPT ![p] = "flush"]
      BY <2>6 DEF CutFile
    <3> QED BY <3>1 DEF Places
  <2>7. CASE WriteFile(p) \/ WriteHead(p) \/ WriteTail(p)
    <3>1. /\ pc[p] \in {"flush", "tail"} /\ UNCHANGED locker
          /\ \/ pc' = [pc EXCEPT ![p] = "tail"]
             \/ pc' = [pc EXCEPT ![p] = "unlock"]
      BY <2>7 DEF WriteFile, WriteHead, WriteTail, Write
    <3> QED BY <3>1 DEF Places
  <2>8. CASE Unlock(p)
    <3>1. \A q \in Proc : q # p => ~InFile(q)
      BY <2>8, RecentAssumption DEF Unlock, RecentAssumption
    <3>2. \/ Call(p, "changed", Nil)
          \/ pc' = [pc EXCEPT ![p] = "idle"]
      BY <2>8 DEF Unlock
    <3>3. \A q \in Proc : ~InFile(q)'
      BY <3>1, <3>2, CallStaysOut DEF Places
    <3>4. pc' \in [Proc -> Places]
      BY <3>2, CallStaysOut DEF Places
    <3> QED BY <3>3, <3>4
  <2> QED BY <1>4, <2>1, <2>2, <2>3, <2>4, <2>5, <2>6, <2>7, <2>8 DEF Step
<1>5. ASSUME NEW p \in Proc, MonitorEvent(p) PROVE LockInv'
  BY <1>5 DEF MonitorEvent, fileVars
<1>6. ASSUME NEW p \in Proc, Timeout(p) PROVE LockInv'
  BY <1>6, CallStaysOut DEF Timeout, fileVars
<1>7. ASSUME NEW p \in Proc, Crash(p) PROVE LockInv'
  <2>1. /\ pc' = [pc EXCEPT ![p] = "off"]
        /\ locker' = IF locker = p THEN Nil ELSE locker
    BY <1>7 DEF Crash
  <2> QED BY <2>1 DEF Places
<1>8. CASE Tick
  BY <1>8 DEF Tick, fileVars
<1>9. CASE UNCHANGED vars
  BY <1>9 DEF vars
<1> QED
  BY <1>1, <1>2, <1>3, <1>4, <1>5, <1>6, <1>7, <1>8, <1>9 DEF Next, Event, OpenRecent

\* Of all the programs that use the file at most one is between reading and
\* unlocking it, however many there are and wherever they die: lockf and the
\* order of egg_recent_model_unlock_file after the last flush see to it.
THEOREM AlwaysOneInFile == Spec => []OneInFile
<1>1. LockInv => OneInFile
  BY DEF LockInv, LockHeld, OneInFile
<1> QED BY LockInit, LockStep, <1>1, PTL DEF Spec

---------------------------------------------------------------------------
(* Parts of a sequence.                                                    *)

\* An order in which any two of the places kept can be compared.
Orders(order, kept) ==
  /\ \A i \in kept : <<i, i>> \notin order
  /\ \A i, j \in kept : i # j => <<i, j>> \in order \/ <<j, i>> \in order
  /\ \A i, j, k \in kept :
       <<i, j>> \in order /\ <<j, k>> \in order => <<i, k>> \in order

\* Each rank up to the number of places kept is that of one of them.
LEMMA RanksOnce ==
  ASSUME NEW n \in Nat, NEW kept \in SUBSET (1 .. n), NEW order, Orders(order, kept)
  PROVE  /\ Cardinality(kept) \in Nat
         /\ \A k \in 1 .. Cardinality(kept) : \E i \in kept : Rank(order, kept, i) = k - 1
<1> DEFINE first(i) == {j \in kept : <<j, i>> \in order}
           place == [i \in kept |-> 1 + Rank(order, kept, i)]
<1>1. IsFiniteSet(1 .. n)
  BY FS_Interval
<1>2. IsFiniteSet(kept) /\ Cardinality(kept) \in Nat
  BY <1>1, FS_Subset, FS_CardinalityType
<1>3. \A i \in kept : /\ IsFiniteSet(first(i))
                      /\ Cardinality(first(i)) \in Nat
                      /\ Cardinality(first(i)) < Cardinality(kept)
  <2> SUFFICES ASSUME NEW i \in kept
               PROVE  /\ IsFiniteSet(first(i))
                      /\ Cardinality(first(i)) \in Nat
                      /\ Cardinality(first(i)) < Cardinality(kept)
    OBVIOUS
  <2>1. first(i) \in SUBSET kept /\ first(i) # kept
    BY DEF Orders
  <2> HIDE DEF first
  <2>2. /\ IsFiniteSet(first(i)) /\ Cardinality(first(i)) <= Cardinality(kept)
        /\ Cardinality(first(i)) # Cardinality(kept)
    BY <1>2, <2>1, FS_Subset
  <2> QED BY <1>2, <2>2, FS_CardinalityType
<1>4. ASSUME NEW i \in kept, NEW j \in kept, <<i, j>> \in order
      PROVE  Cardinality(first(i)) < Cardinality(first(j))
  <2>1. first(i) \in SUBSET first(j) /\ first(i) # first(j)
    BY <1>4 DEF Orders
  <2> HIDE DEF first
  <2>2. Cardinality(first(i)) <= Cardinality(first(j))
        /\ Cardinality(first(i)) # Cardinality(first(j))
    BY <1>3, <2>1, FS_Subset
  <2> QED BY <1>3, <2>2
<1>5. \A i \in kept : place[i] = 1 + Cardinality(first(i))
  BY DEF Rank
<1>6. \A i, j \in kept : place[i] = place[j] => i = j
  <2> SUFFICES ASSUME NEW i \in kept, NEW j \in kept, place[i] = place[j], i # j
               PROVE  FALSE
    OBVIOUS
  <2>1. Cardinality(first(i)) = Cardinality(first(j))
    <3> HIDE DEF first, place
    <3> QED BY <1>3, <1>5
  <2>2. <<i, j>> \in order \/ <<j, i>> \in order
    BY DEF Orders
  <2> HIDE DEF first, place
  <2> QED BY <1>3, <1>4, <2>1, <2>2
<1>7. place \in Injection(kept, 1 .. Cardinality(kept))
  <2>1. \A i \in kept : place[i] \in 1 .. Cardinality(kept)
    <3> HIDE DEF first, place
    <3> QED BY <1>2, <1>3, <1>5
  <2>2. place \in [kept -> 1 .. Cardinality(kept)]
    <3>1. place = [i \in kept |-> place[i]]
      OBVIOUS
    <3> HIDE DEF place
    <3> QED BY <2>1, <3>1
  <2> HIDE DEF place
  <2> QED BY <1>6, <2>2 DEF Injection, IsInjective
<1>8. place \in Surjection(kept, 1 .. Cardinality(kept))
  <2>1. /\ IsFiniteSet(1 .. Cardinality(kept))
        /\ Cardinality(1 .. Cardinality(kept)) = Cardinality(kept)
    BY <1>2, FS_Interval
  <2> HIDE DEF place
  <2> QED BY <1>7, <2>1, FS_Injection
<1>9. \A k \in 1 .. Cardinality(kept) : \E i \in kept : place[i] = k
  <2> HIDE DEF place
  <2> QED BY <1>8 DEF Surjection
<1>10. ASSUME NEW k \in 1 .. Cardinality(kept)
       PROVE  \E i \in kept : Rank(order, kept, i) = k - 1
  <2>1. PICK i \in kept : place[i] = k
    BY <1>9
  <2>2. Rank(order, kept, i) \in Nat /\ place[i] = 1 + Rank(order, kept, i)
    BY <1>3 DEF Rank
  <2> HIDE DEF place
  <2> QED BY <1>2, <2>1, <2>2
<1> QED BY <1>2, <1>10

\* Elements put into an order are elements still, as many as were kept.
LEMMA ArrangeProperties ==
  ASSUME NEW S, NEW seq \in Seq(S), NEW kept \in SUBSET (1 .. Len(seq)), NEW order,
         Orders(order, kept)
  PROVE  Arrange(seq, kept, order) \in Seq(S)
<1> DEFINE At(k) == CHOOSE i \in kept : Rank(order, kept, i) = k - 1
           n == Cardinality(kept)
           arranged == Arrange(seq, kept, order)
<1>1. Len(seq) \in Nat
  OBVIOUS
<1>2. n \in Nat /\ \A k \in 1 .. n : \E i \in kept : Rank(order, kept, i) = k - 1
  BY <1>1, RanksOnce, ZenonT(30)
<1>3. \A k \in 1 .. n : At(k) \in kept
  BY <1>2
<1>4. arranged = [k \in 1 .. n |-> seq[At(k)]]
  BY DEF Arrange
<1> HIDE DEF At, n, arranged
<1>5. ASSUME NEW k \in 1 .. n PROVE seq[At(k)] \in S
  <2>1. At(k) \in 1 .. Len(seq)
    BY <1>3
  <2> QED BY <2>1, ElementOfSeq
<1>6. arranged \in [1 .. n -> S]
  BY <1>4, <1>5
<1> QED BY <1>2, <1>6 DEF arranged

LEMMA KeepProperties ==
  ASSUME NEW S, NEW seq \in Seq(S), NEW kept \in SUBSET (1 .. Len(seq))
  PROVE  Keep(seq, kept) \in Seq(S)
<1>1. Orders(AsTheyCome(kept), kept)
  <2>1. kept \subseteq Int
    OBVIOUS
  <2>2. \A i, j \in kept : <<i, j>> \in AsTheyCome(kept) <=> i < j
    BY DEF AsTheyCome
  <2> QED BY <2>1, <2>2 DEF Orders
<1> QED BY <1>1, ArrangeProperties DEF Keep

\* A set of numbers that has with each of them all smaller ones is an interval.
LEMMA BeginningIsInterval ==
  ASSUME NEW n \in Nat, NEW kept \in SUBSET (1 .. n),
         \A i \in kept : 1 .. i \subseteq kept
  PROVE  Cardinality(kept) \in 0 .. n /\ kept = 1 .. Cardinality(kept)
<1> DEFINE k == Cardinality(kept)
<1>1. IsFiniteSet(1 .. n) /\ Cardinality(1 .. n) = n
  BY FS_Interval
<1>2. IsFiniteSet(kept) /\ k \in Nat /\ k <= n
  <2>1. IsFiniteSet(kept) /\ Cardinality(kept) <= Cardinality(1 .. n)
    BY <1>1, FS_Subset, ZenonT(30)
  <2>2. k \in Nat
    BY <2>1, FS_CardinalityType
  <2> QED BY <1>1, <2>1, <2>2
<1>3. IsFiniteSet(1 .. k) /\ Cardinality(1 .. k) = k
  BY <1>2, FS_Interval
<1>4. ASSUME NEW i \in kept PROVE i \in 1 .. k
  <2>1. Cardinality(1 .. i) = i
    BY FS_Interval
  <2>2. Cardinality(1 .. i) <= k
    BY <1>2, FS_Subset
  <2> HIDE DEF k
  <2> QED BY <1>2, <2>1, <2>2
<1>5. kept = 1 .. k
  <2>1. kept \in SUBSET (1 .. k) /\ Cardinality(kept) = Cardinality(1 .. k)
    BY <1>3, <1>4
  <2> HIDE DEF k
  <2> QED BY <1>3, <2>1, FS_Subset
<1> QED BY <1>2, <1>5

---------------------------------------------------------------------------
(* What is read and written.                                               *)

Texts == Seq(Piece)

LEMMA NoPieces == <<>> \in Texts /\ <<>> # Absent /\ NoOp \in Op /\ Absent \notin Texts
<1>1. NoOp \in Op
  <2>1. 0 \in Time /\ 0 \in 0 .. Tries
    BY RecentAssumption DEF RecentAssumption, Time
  <2> QED BY <2>1 DEF NoOp, Op
<1>2. <<>> \in Texts
  BY DEF Texts
<1> QED BY <1>1, <1>2, RecentAssumption DEF RecentAssumption, Texts

LEMMA ItemsAreTexts == Seq(Item) \subseteq Texts
<1>1. Item \subseteq Piece
  BY DEF Piece
<1> QED BY <1>1, SeqMonotonic DEF Texts

LEMMA SliceIsText ==
  ASSUME NEW text \in Texts, NEW i \in Nat \ {0}, NEW j \in 0 .. Len(text)
  PROVE  SubSeq(text, i, j) \in Texts
<1>1. Len(text) \in Nat /\ \A k \in i .. j : text[k] \in Piece
  BY DEF Texts
<1> QED BY <1>1, SubSeqProperties DEF Texts

\* The parser gives items.
LEMMA ParsedProperties ==
  ASSUME NEW text \in Texts \cup {Absent}
  PROVE  Parsed(text) \in Seq(Item)
<1>1. CASE text = Absent
  BY <1>1 DEF Parsed
<1>2. CASE text # Absent
  <2> DEFINE kept == {i \in DOMAIN text : \A j \in 1 .. i : text[j] # Broken}
             k == Cardinality(kept)
  <2>1. text \in Seq(Piece) /\ Len(text) \in Nat /\ DOMAIN text = 1 .. Len(text)
    BY <1>2, LenProperties DEF Texts
  <2>2. kept \in SUBSET (1 .. Len(text)) /\ \A i \in kept : 1 .. i \subseteq kept
    BY <2>1
  <2>3. k \in 0 .. Len(text) /\ kept = 1 .. k
    <3> HIDE DEF kept
    <3> QED BY <2>1, <2>2, BeginningIsInterval
  <2>4. \A i \in 1 .. k : text[i] \in Item
    <3>1. \A i \in kept : i \in 1 .. Len(text) /\ text[i] # Broken
      BY <2>1
    <3> HIDE DEF kept, k
    <3> QED BY <2>1, <2>3, <3>1 DEF Piece
  <2>5. Parsed(text) = SubSeq(text, 1, k)
    BY <1>2 DEF Parsed
  <2> HIDE DEF k
  <2> QED BY <2>1, <2>3, <2>4, <2>5, SubSeqProperties
<1> QED BY <1>1, <1>2

\* The three ways a list is rewritten.
LEMMA UpdateProperties ==
  ASSUME NEW items \in Seq(Item), NEW uri, NEW time \in Time, NEW groups \in SUBSET Group
  PROVE  UpdateItem(items, uri, time, groups) \in Seq(Item)
<1> DEFINE new == UpdateItem(items, uri, time, groups)
<1>1. Len(items) \in Nat /\ DOMAIN items = 1 .. Len(items)
  BY LenProperties
<1>2. ASSUME NEW i \in 1 .. Len(items) PROVE new[i] \in Item
  <2>1. items[i] \in Item
    BY <1>1
  <2> DEFINE updated == [items[i] EXCEPT !.time = time, !.groups = @ \cup groups]
  <2>2. updated \in Item
    <3>1. items[i].groups \cup groups \in SUBSET Group
      BY <2>1 DEF Item
    <3> QED BY <2>1, <3>1 DEF Item
  <2>3. new[i] = IF First(items, uri, i) THEN updated ELSE items[i]
    <3>1. i \in DOMAIN items
      BY <1>1
    <3> QED BY <3>1, Zenon DEF UpdateItem
  <2> HIDE DEF new, updated
  <2> QED BY <2>1, <2>2, <2>3
<1>3. new \in [1 .. Len(items) -> Item]
  <2>1. new = [i \in 1 .. Len(items) |-> new[i]]
    BY <1>1 DEF UpdateItem
  <2> HIDE DEF new
  <2> QED BY <1>2, <2>1
<1> HIDE DEF new
<1> QED BY <1>1, <1>3 DEF new

LEMMA LimitProperties ==
  ASSUME NEW items \in Seq(Item), NEW limit \in Nat
  PROVE  /\ EnforceLimit(items, limit) \in Seq(Item)
         /\ limit > 0 => Len(EnforceLimit(items, limit)) <= limit
<1>1. Len(items) \in Nat
  OBVIOUS
<1>2. CASE limit > 0 /\ Len(items) > limit
  <2>1. EnforceLimit(items, limit) = SubSeq(items, 1, limit)
    BY <1>2 DEF EnforceLimit
  <2>2. \A i \in 1 .. limit : items[i] \in Item
    BY <1>1, <1>2
  <2> QED BY <1>2, <2>1, <2>2, SubSeqProperties
<1>3. CASE ~(limit > 0 /\ Len(items) > limit)
  BY <1>1, <1>3 DEF EnforceLimit
<1> QED BY <1>2, <1>3

LEMMA DeleteProperties ==
  ASSUME NEW items \in Seq(Item), NEW uri
  PROVE  DeleteFromList(items, uri) \in Seq(Item)
<1> DEFINE kept == {i \in DOMAIN items : items[i].uri # uri}
<1>1. kept \in SUBSET (1 .. Len(items))
  OBVIOUS
<1>2. DeleteFromList(items, uri) = Keep(items, kept)
  BY DEF DeleteFromList
<1> HIDE DEF kept
<1> QED BY <1>1, <1>2, KeepProperties

\* The item add_full puts into the list.
LEMMA NewItemType ==
  ASSUME NEW p \in Proc, NEW uri \in Uri, NEW time \in Time
  PROVE  NewItem(p, uri, time) \in Item
  BY DEF NewItem, Item, Group

---------------------------------------------------------------------------
(* The invariant.                                                          *)

TypeInv ==
  /\ file \in Texts \cup {Absent}
  /\ clock \in Time
  /\ op \in [Proc -> Op]
  /\ read \in [Proc -> Texts]

\* Whoever has opened the file finds it there.
FileInv == \A p \in Proc : pc[p] = "lock" \/ InFile(p) => file # Absent

OpInv ==
  \A p \in Proc :
    /\ op[p].kind = "none" <=> pc[p] \in {"off", "idle"}
    /\ op[p].kind = "none" => op[p].uri = Nil
    /\ op[p].kind = "add" => op[p].uri \in Uri

\* What is in the file while a program writes: a beginning of what it read, or
\* some of both texts, unless the file was created once more.
Beginning(text, whole) == \E n \in 0 .. Len(whole) : text = SubSeq(whole, 1, n)
Mixed(p) == file = <<>> \/ L!Torn(file, NewList(p), read[p])

WriteInv ==
  \A p \in Proc :
    /\ InWrite(p) => op[p].kind \in {"add", "delete"}
    /\ pc[p] \in {"write", "flush"} => Beginning(file, read[p])
    /\ pc[p] = "tail" => Mixed(p)

RecentInv == LockInv /\ TypeInv /\ FileInv /\ OpInv /\ WriteInv

\* What a program writes back is a list of items.
LEMMA NewListProperties ==
  ASSUME TypeInv, OpInv, NEW p \in Proc, op[p].kind \in {"add", "delete"}
  PROVE  NewList(p) \in Seq(Item) /\ NewList(p) \in Texts
<1> DEFINE items == Parsed(read[p])
<1>1. read[p] \in Texts /\ op[p] \in Op
  BY DEF TypeInv
<1>2. items \in Seq(Item) /\ op[p].time \in Time
  BY <1>1, ParsedProperties DEF Op
<1>3. CASE op[p].kind = "add" /\ Holds(items, op[p].uri)
  <2>1. NewList(p) = UpdateItem(items, op[p].uri, op[p].time, {GroupOf[p]})
    BY <1>3 DEF NewList
  <2>2. {GroupOf[p]} \in SUBSET Group
    BY DEF Group
  <2> HIDE DEF items
  <2> QED BY <1>2, <2>1, <2>2, UpdateProperties, ItemsAreTexts
<1>4. CASE op[p].kind = "add" /\ ~Holds(items, op[p].uri)
  <2> DEFINE item == NewItem(p, op[p].uri, op[p].time)
  <2>1. NewList(p) = EnforceLimit(<<item>> \o items, MaxItems)
    BY <1>4 DEF NewList
  <2>2. item \in Item
    BY <1>2, <1>4, NewItemType DEF OpInv
  <2> HIDE DEF item, items
  <2>3. <<item>> \o items \in Seq(Item)
    BY <1>2, <2>2
  <2>4. MaxItems \in Nat
    BY RecentAssumption DEF RecentAssumption
  <2> QED BY <2>1, <2>3, <2>4, LimitProperties, ItemsAreTexts
<1>5. CASE op[p].kind = "delete"
  <2>1. NewList(p) = DeleteFromList(items, op[p].uri)
    BY <1>5 DEF NewList
  <2> HIDE DEF items
  <2> QED BY <1>2, <2>1, DeleteProperties, ItemsAreTexts
<1> QED BY <1>3, <1>4, <1>5

LEMMA RecentInit == Init => RecentInv
<1> SUFFICES ASSUME Init PROVE RecentInv
  OBVIOUS
<1>1. ASSUME file # Absent PROVE file \in Texts
  <2>1. PICK uri \in Uri, p \in Proc : file = <<NewItem(p, uri, 0)>>
    BY <1>1 DEF Init
  <2>2. NewItem(p, uri, 0) \in Item
    BY NewItemType, RecentAssumption DEF RecentAssumption, Time
  <2>3. file \in Seq(Item)
    BY <2>1, <2>2
  <2> QED BY <2>3, ItemsAreTexts
<1>2. TypeInv
  BY <1>1, NoPieces, RecentAssumption DEF Init, TypeInv, Time, RecentAssumption
<1>3. FileInv
  BY DEF Init, FileInv, InFile
<1>4. OpInv
  BY DEF Init, OpInv, NoOp
<1>5. WriteInv
  BY DEF Init, WriteInv, InWrite
<1> QED BY LockInit, <1>2, <1>3, <1>4, <1>5 DEF RecentInv

\* A step of p leaves the other programs where they are.
Others(p) ==
  \A q \in Proc \ {p} : pc'[q] = pc[q] /\ op'[q] = op[q] /\ read'[q] = read[q]

\* What a step of p has to see to.
LEMMA StepKeeps ==
  ASSUME RecentInv, LockInv', NEW p \in Proc, Others(p),
         clock' \in Time, op' \in [Proc -> Op], read' \in [Proc -> Texts],
         \/ file' = file
         \/ /\ file' \in Texts
            /\ \A q \in Proc \ {p} : InWrite(q) => file' = <<>>,
         op'[p].kind = "none" <=> pc'[p] \in {"off", "idle"},
         op'[p].kind = "none" => op'[p].uri = Nil,
         op'[p].kind = "add" => op'[p].uri \in Uri,
         pc'[p] \in {"lock", "read", "write", "flush", "tail", "unlock"}
           => file' # Absent,
         pc'[p] \in {"write", "flush", "tail"} => op'[p].kind \in {"add", "delete"},
         pc'[p] \in {"write", "flush"} => Beginning(file', read'[p]),
         pc'[p] = "tail" => Mixed(p)'
  PROVE  RecentInv'
<1>1. TypeInv'
  BY DEF RecentInv, TypeInv
<1>2. FileInv'
  <2> SUFFICES ASSUME NEW q \in Proc, pc'[q] = "lock" \/ InFile(q)'
               PROVE  file' # Absent
    BY DEF FileInv
  <2>1. CASE q = p
    BY <2>1 DEF InFile
  <2>2. CASE q # p
    BY <2>2, NoPieces DEF RecentInv, FileInv, InFile, Others
  <2> QED BY <2>1, <2>2
<1>3. OpInv'
  BY DEF RecentInv, OpInv, Others
<1>4. WriteInv'
  <2> SUFFICES ASSUME NEW q \in Proc
               PROVE  /\ InWrite(q)' => op'[q].kind \in {"add", "delete"}
                      /\ pc'[q] \in {"write", "flush"} => Beginning(file', read'[q])
                      /\ pc'[q] = "tail" => Mixed(q)'
    BY DEF WriteInv
  <2>1. CASE q = p
    BY <2>1 DEF InWrite
  <2>2. CASE q # p
    <3>1. pc'[q] = pc[q] /\ op'[q] = op[q] /\ read'[q] = read[q]
      BY <2>2 DEF Others
    <3>2. InWrite(q)' => op'[q].kind \in {"add", "delete"}
      BY <3>1 DEF RecentInv, WriteInv, InWrite
    <3>3. ASSUME InWrite(q) PROVE file' = file \/ file' = <<>>
      BY <2>2, <3>3
    <3>4. ASSUME pc[q] \in {"write", "flush"} PROVE Beginning(file', read'[q])
      <4>1. Beginning(file, read[q])
        BY <3>4 DEF RecentInv, WriteInv
      <4>2. Beginning(<<>>, read[q])
        <5>1. read[q] \in Texts
          BY DEF RecentInv, TypeInv
        <5>2. 0 \in 0 .. Len(read[q])
          BY <5>1 DEF Texts
        <5>3. SubSeq(read[q], 1, 0) = <<>>
          BY SubSeqEmpty
        <5> QED BY <5>2, <5>3 DEF Beginning
      <4> QED BY <3>1, <3>3, <3>4, <4>1, <4>2 DEF InWrite
    <3>5. ASSUME pc[q] = "tail" PROVE Mixed(q)'
      <4>1. NewList(q)' = NewList(q)
        BY <3>1 DEF NewList, UpdateItem, EnforceLimit, DeleteFromList, Holds, First,
           NewItem, Parsed
      <4>2. CASE file' = <<>>
        BY <4>2 DEF Mixed
      <4>3. CASE file' = file
        <5>1. Mixed(q)
          BY <3>5 DEF RecentInv, WriteInv
        <5> QED BY <3>1, <4>1, <4>3, <5>1 DEF Mixed, L!Torn
      <4> QED BY <3>3, <3>5, <4>2, <4>3 DEF InWrite
    <3> QED BY <3>1, <3>2, <3>4, <3>5
  <2> QED BY <2>1, <2>2
<1> QED BY <1>1, <1>2, <1>3, <1>4 DEF RecentInv

\* A call sends its program to its first step, or back at once.
LEMMA CallProperties ==
  ASSUME RecentInv, NEW p \in Proc, NEW kind \in {"add", "delete", "clear", "changed"},
         NEW uri \in Uri \cup {Nil}, kind = "add" => uri \in Uri,
         Call(p, kind, uri)
  PROVE  /\ op' \in [Proc -> Op]
         /\ pc'[p] \in {"idle", "open"}
         /\ op'[p].kind = "none" <=> pc'[p] \in {"off", "idle"}
         /\ op'[p].kind = "none" => op'[p].uri = Nil
         /\ op'[p].kind = "add" => op'[p].uri \in Uri
         /\ op'[p].kind \in {"none", kind} /\ (kind # "changed" => op'[p].uri = uri)
         /\ \A q \in Proc \ {p} : pc'[q] = pc[q] /\ op'[q] = op[q]
<1>0. pc \in [Proc -> Places] /\ op \in [Proc -> Op]
  BY DEF RecentInv, LockInv, TypeInv
<1>1. CASE kind = "changed" /\ Limit[p] = 0
  <2>1. pc' = [pc EXCEPT ![p] = "idle"] /\ op' = [op EXCEPT ![p] = NoOp]
    BY <1>1 DEF Call
  <2>2. NoOp.kind = "none" /\ NoOp.uri = Nil
    BY DEF NoOp
  <2> QED BY <1>0, <1>1, <2>1, <2>2, NoPieces
<1>2. CASE ~(kind = "changed" /\ Limit[p] = 0)
  <2> DEFINE new == [NoOp EXCEPT !.kind = kind, !.uri = uri]
  <2>1. pc' = [pc EXCEPT ![p] = "open"] /\ op' = [op EXCEPT ![p] = new]
    BY <1>2 DEF Call
  <2>2. new \in Op /\ new.kind = kind /\ new.uri = uri
    BY NoPieces DEF NoOp, Op
  <2> HIDE DEF new
  <2> QED BY <1>0, <2>1, <2>2
<1> QED BY <1>1, <1>2

\* Steps that only call.
LEMMA CallKeeps ==
  ASSUME RecentInv, LockInv', NEW p \in Proc,
         NEW kind \in {"add", "delete", "clear", "changed"},
         NEW uri \in Uri \cup {Nil}, kind = "add" => uri \in Uri,
         Call(p, kind, uri), UNCHANGED <<file, clock, read>>
  PROVE  RecentInv' /\ Others(p)
<1>1. read' \in [Proc -> Texts] /\ clock' \in Time
  BY DEF RecentInv, TypeInv
<1>2. Others(p)
  BY CallProperties DEF Others
<1> QED BY <1>1, <1>2, CallProperties, StepKeeps

\* Steps that leave file, calls and places alone.
LEMMA IdleKeeps ==
  ASSUME RecentInv, clock' \in Time, UNCHANGED <<file, locker, pc, op, read>>
  PROVE  RecentInv'
<1>1. \A p \in Proc : NewList(p)' = NewList(p)
  BY DEF NewList, UpdateItem, EnforceLimit, DeleteFromList, Holds, First, NewItem, Parsed
<1>2. ASSUME NEW p \in Proc PROVE Mixed(p)' <=> Mixed(p)
  <2>1. NewList(p)' = NewList(p) /\ file' = file /\ read' = read
    BY <1>1
  <2> QED BY <2>1, Zenon DEF Mixed, L!Torn
<1>3. WriteInv'
  BY <1>2 DEF RecentInv, WriteInv, InWrite, Beginning
<1> QED BY <1>3 DEF RecentInv, LockInv, LockHeld, InFile, TypeInv, FileInv, OpInv

LEMMA OpenedProperties ==
  ASSUME RecentInv, NEW p \in Proc, Opened(p)
  PROVE  /\ op' \in [Proc -> Op]
         /\ pc'[p] = "lock"
         /\ op'[p].kind = op[p].kind /\ op'[p].uri = op[p].uri
         /\ \A q \in Proc \ {p} : pc'[q] = pc[q] /\ op'[q] = op[q]
<1>0. pc \in [Proc -> Places] /\ op \in [Proc -> Op] /\ clock \in Time
  BY DEF RecentInv, LockInv, TypeInv
<1> DEFINE time == IF op[p].kind = "add" THEN clock ELSE 0
           new  == [op[p] EXCEPT !.tries = Tries, !.time = time]
<1>1. op[p] \in Op /\ time \in Time /\ Tries \in 0 .. Tries
  BY <1>0, RecentAssumption DEF RecentAssumption, Time
<1>2. pc' = [pc EXCEPT ![p] = "lock"] /\ op' = [op EXCEPT ![p] = new]
  BY DEF Opened
<1>3. new \in Op /\ new.kind = op[p].kind /\ new.uri = op[p].uri
  <2> HIDE DEF time
  <2> QED BY <1>1 DEF Op
<1> HIDE DEF new
<1> QED BY <1>0, <1>2, <1>3

\* What is known of p in a step that it takes while it is busy.
LEMMA Busy ==
  ASSUME RecentInv, NEW p \in Proc, pc[p] \notin {"off", "idle"}
  PROVE  /\ pc \in [Proc -> Places] /\ op \in [Proc -> Op] /\ read \in [Proc -> Texts]
         /\ clock \in Time /\ op[p] \in Op /\ op[p].kind # "none"
         /\ op[p].kind = "add" => op[p].uri \in Uri
         /\ pc[p] = "lock" \/ InFile(p) => file # Absent /\ file \in Texts
         /\ InWrite(p) => op[p].kind \in {"add", "delete"}
  BY DEF RecentInv, LockInv, TypeInv, OpInv, FileInv, WriteInv

LEMMA OpenKeeps ==
  ASSUME RecentInv, LockInv', NEW p \in Proc, OpenFile(p)
  PROVE  RecentInv' /\ Others(p)
<1>0. /\ pc \in [Proc -> Places] /\ op \in [Proc -> Op] /\ read \in [Proc -> Texts]
      /\ clock \in Time /\ op[p].kind # "none"
      /\ op[p].kind = "add" => op[p].uri \in Uri
      /\ UNCHANGED <<file, clock, read>>
  BY Busy DEF OpenFile, fileVars
<1>1. CASE file = Absent
  <2>1. pc' = [pc EXCEPT ![p] = "create"] /\ UNCHANGED op
    BY <1>1 DEF OpenFile
  <2>2. Others(p) /\ pc'[p] = "create"
    BY <1>0, <2>1 DEF Others
  <2> QED BY <1>0, <2>1, <2>2, StepKeeps
<1>2. CASE file # Absent
  <2>1. Opened(p)
    BY <1>2 DEF OpenFile
  <2>2. Others(p)
    BY <1>0, <2>1, OpenedProperties DEF Others
  <2> QED BY <1>0, <1>2, <2>1, <2>2, OpenedProperties, StepKeeps
<1> QED BY <1>1, <1>2

LEMMA CreateKeeps ==
  ASSUME RecentInv, LockInv', NEW p \in Proc, CreateFile(p)
  PROVE  RecentInv' /\ Others(p)
<1>0. /\ pc \in [Proc -> Places] /\ op \in [Proc -> Op] /\ read \in [Proc -> Texts]
      /\ clock \in Time /\ op[p].kind # "none"
      /\ op[p].kind = "add" => op[p].uri \in Uri
      /\ UNCHANGED <<clock, read>> /\ file' = <<>> /\ Opened(p)
  BY Busy DEF CreateFile
<1>1. Others(p)
  BY <1>0, OpenedProperties DEF Others
<1> QED BY <1>0, <1>1, NoPieces, OpenedProperties, StepKeeps

LEMMA LockKeeps ==
  ASSUME RecentInv, LockInv', NEW p \in Proc, LockFile(p)
  PROVE  /\ RecentInv' /\ Others(p) /\ pc'[p] \in {"read", "lock", "idle"}
         /\ op'[p].kind \in {op[p].kind, "none"}
         /\ pc'[p] # "idle" => op'[p].kind = op[p].kind /\ op'[p].uri = op[p].uri
<1>0. /\ pc \in [Proc -> Places] /\ op \in [Proc -> Op] /\ read \in [Proc -> Texts]
      /\ clock \in Time /\ op[p] \in Op /\ op[p].kind # "none"
      /\ op[p].kind = "add" => op[p].uri \in Uri
      /\ pc[p] = "lock" /\ file # Absent
      /\ UNCHANGED <<file, clock, read>>
  BY Busy DEF LockFile
<1>1. Tries \in Nat
  BY RecentAssumption DEF RecentAssumption
<1>2. ASSUME NEW n \in 0 .. Tries, op' = [op EXCEPT ![p].tries = n]
      PROVE  /\ op' \in [Proc -> Op]
             /\ op'[p].kind = op[p].kind /\ op'[p].uri = op[p].uri
             /\ \A q \in Proc \ {p} : op'[q] = op[q]
  <2> DEFINE new == [op[p] EXCEPT !.tries = n]
  <2>1. new \in Op /\ new.kind = op[p].kind /\ new.uri = op[p].uri
    BY <1>0 DEF Op
  <2>2. op' = [op EXCEPT ![p] = new]
    BY <1>2
  <2> HIDE DEF new
  <2> QED BY <1>0, <2>1, <2>2
<1>3. CASE locker = Nil
  <2>1. pc' = [pc EXCEPT ![p] = "read"] /\ op' = [op EXCEPT ![p].tries = 0]
    BY <1>3 DEF LockFile
  <2>2. 0 \in 0 .. Tries
    BY <1>1
  <2>3. /\ op' \in [Proc -> Op]
        /\ op'[p].kind = op[p].kind /\ op'[p].uri = op[p].uri
        /\ \A q \in Proc \ {p} : op'[q] = op[q]
    BY <1>2, <2>1, <2>2
  <2>4. Others(p) /\ pc'[p] = "read"
    BY <1>0, <2>1, <2>3 DEF Others
  <2> QED BY <1>0, <2>3, <2>4, StepKeeps
<1>4. CASE locker # Nil /\ op[p].tries > 1
  <2> DEFINE n == op[p].tries - 1
  <2>1. UNCHANGED pc /\ op' = [op EXCEPT ![p].tries = n]
    BY <1>4 DEF LockFile
  <2>2. n \in 0 .. Tries
    BY <1>0, <1>1, <1>4 DEF Op
  <2> HIDE DEF n
  <2>3. /\ op' \in [Proc -> Op]
        /\ op'[p].kind = op[p].kind /\ op'[p].uri = op[p].uri
        /\ \A q \in Proc \ {p} : op'[q] = op[q]
    BY <1>2, <2>1, <2>2
  <2>4. Others(p) /\ pc'[p] = "lock"
    BY <1>0, <2>1, <2>3 DEF Others
  <2> QED BY <1>0, <2>3, <2>4, StepKeeps
<1>5. CASE locker # Nil /\ ~(op[p].tries > 1)
  <2>1. pc' = [pc EXCEPT ![p] = "idle"] /\ op' = [op EXCEPT ![p] = NoOp]
    BY <1>5 DEF LockFile
  <2>2. op' \in [Proc -> Op] /\ op'[p] = NoOp /\ NoOp.kind = "none" /\ NoOp.uri = Nil
    BY <1>0, <2>1, NoPieces DEF NoOp
  <2>3. Others(p) /\ pc'[p] = "idle"
    BY <1>0, <2>1 DEF Others
  <2> QED BY <1>0, <2>2, <2>3, StepKeeps
<1> QED BY <1>3, <1>4, <1>5

LEMMA ReadKeeps ==
  ASSUME RecentInv, LockInv', NEW p \in Proc, ReadFile(p)
  PROVE  RecentInv' /\ Others(p) /\ read'[p] = file /\ pc'[p] \in {"unlock", "write"}
         /\ op'[p].kind = op[p].kind /\ op'[p].uri = op[p].uri
<1>0. /\ pc \in [Proc -> Places] /\ op \in [Proc -> Op] /\ read \in [Proc -> Texts]
      /\ clock \in Time /\ op[p] \in Op /\ op[p].kind \notin {"none", "clear"}
      /\ op[p].kind = "add" => op[p].uri \in Uri
      /\ pc[p] = "read" /\ file # Absent /\ file \in Texts
      /\ UNCHANGED <<file, clock>>
      /\ read' = [read EXCEPT ![p] = file]
  BY Busy DEF ReadFile, fileVars, InFile
<1> DEFINE time == IF op[p].kind = "add" /\ Holds(Parsed(file), op[p].uri)
                   THEN clock ELSE op[p].time
           new  == [op[p] EXCEPT !.time = time]
<1>3. op' = [op EXCEPT ![p] = new]
  BY DEF ReadFile
<1>4. new \in Op /\ new.kind = op[p].kind /\ new.uri = op[p].uri
  <2>1. time \in Time
    BY <1>0 DEF Op
  <2> HIDE DEF time
  <2> QED BY <1>0, <2>1 DEF Op
<1> HIDE DEF new
<1>5. pc' = [pc EXCEPT ![p] =
               IF \/ op[p].kind = "changed"
                  \/ op[p].kind = "delete" /\ ~Holds(Parsed(file), op[p].uri)
               THEN "unlock" ELSE "write"]
  BY DEF ReadFile
<1>6. /\ pc'[p] \in {"unlock", "write"}
      /\ pc'[p] = "write" => op[p].kind # "changed"
      /\ \A q \in Proc \ {p} : pc'[q] = pc[q]
  BY <1>0, <1>5
<1>7. /\ op' \in [Proc -> Op] /\ op'[p] = new
      /\ read' \in [Proc -> Texts] /\ read'[p] = file
      /\ Others(p)
  BY <1>0, <1>3, <1>4, <1>6 DEF Others
<1>8. op[p].kind \in {"none", "add", "delete", "clear", "changed"}
  <2>1. op[p] \in Op
    BY <1>0, ZenonT(30)
  <2> QED BY <2>1 DEF Op
<1>9. Beginning(file, file)
  <2>1. Len(file) \in 0 .. Len(file) /\ SubSeq(file, 1, Len(file)) = file
    BY <1>0, SubSeqFull DEF Texts
  <2> QED BY <2>1 DEF Beginning
<1> QED BY <1>0, <1>4, <1>6, <1>7, <1>8, <1>9, StepKeeps

\* A program in the file is the only one in it.
LEMMA Alone ==
  ASSUME RecentInv, NEW p \in Proc, InFile(p)
  PROVE  \A q \in Proc \ {p} : ~InFile(q) /\ ~InWrite(q)
  BY DEF RecentInv, LockInv, LockHeld, InFile, InWrite

LEMMA ClearKeeps ==
  ASSUME RecentInv, LockInv', NEW p \in Proc, ClearFile(p)
  PROVE  RecentInv' /\ Others(p) /\ pc'[p] = "unlock"
<1>0. /\ pc \in [Proc -> Places] /\ op \in [Proc -> Op] /\ read \in [Proc -> Texts]
      /\ clock \in Time /\ pc[p] = "read" /\ op[p].kind = "clear"
      /\ UNCHANGED <<op, read, clock>>
      /\ file' = <<>> /\ pc' = [pc EXCEPT ![p] = "unlock"]
  BY Busy DEF ClearFile
<1>1. Others(p) /\ pc'[p] = "unlock"
  BY <1>0 DEF Others
<1> QED BY <1>0, <1>1, NoPieces, StepKeeps

LEMMA CutKeeps ==
  ASSUME RecentInv, LockInv', NEW p \in Proc, CutFile(p)
  PROVE  RecentInv' /\ Others(p) /\ pc'[p] = "flush"
<1>0. /\ pc \in [Proc -> Places] /\ op \in [Proc -> Op] /\ read \in [Proc -> Texts]
      /\ clock \in Time /\ pc[p] = "write" /\ op[p].kind \in {"add", "delete"}
      /\ op[p].kind = "add" => op[p].uri \in Uri
      /\ UNCHANGED <<op, read, clock>>
      /\ pc' = [pc EXCEPT ![p] = "flush"]
      /\ file \in Texts
  BY Busy DEF CutFile, InFile, InWrite
<1>1. Others(p) /\ pc'[p] = "flush"
  BY <1>0 DEF Others
<1>2. \A q \in Proc \ {p} : ~InWrite(q)
  BY <1>0, Alone DEF InFile
<1>3. PICK n \in 0 .. Len(read[p]) : file = SubSeq(read[p], 1, n)
  BY <1>0 DEF RecentInv, WriteInv, Beginning
<1>4. file' \in Texts /\ Beginning(file', read[p])
  <2>1. CASE file' = file
    BY <1>0, <1>3, <2>1 DEF Beginning
  <2>2. CASE \E m \in 0 .. Len(file) : file' = SubSeq(file, 1, m)
    <3>1. PICK m \in 0 .. Len(file) : file' = SubSeq(file, 1, m)
      BY <2>2
    <3>2. read[p] \in Seq(Piece) /\ Len(read[p]) \in Nat
      BY <1>0 DEF Texts
    <3>3. file \in Seq(Piece) /\ Len(file) = n /\ \A i \in 1 .. n : file[i] = read[p][i]
      BY <1>0, <1>3, <3>2, SubSeqProperties DEF Texts
    <3>4. SubSeq(file, 1, m) = SubSeq(read[p], 1, m)
      BY <3>1, <3>2, <3>3
    <3>5. m \in 0 .. Len(read[p])
      BY <3>1, <3>2, <3>3
    <3> QED BY <1>0, <3>1, <3>4, <3>5, SliceIsText DEF Beginning
  <2> QED BY <2>1, <2>2 DEF CutFile
<1> QED BY <1>0, <1>1, <1>2, <1>4, NoPieces, StepKeeps

\* A step that writes, with all there is to know before it.
LEMMA WriteProperties ==
  ASSUME RecentInv, NEW p \in Proc, NEW from \in {"flush", "tail"},
         NEW to \in {"tail", "unlock"}, Write(p, from, to)
  PROVE  /\ op \in [Proc -> Op] /\ read \in [Proc -> Texts] /\ clock \in Time
         /\ op[p].kind \in {"add", "delete"}
         /\ op[p].kind = "add" => op[p].uri \in Uri
         /\ UNCHANGED <<op, read, clock, deaths>> /\ pc[p] = from /\ pc'[p] = to
         /\ Others(p)
         /\ \A q \in Proc \ {p} : ~InWrite(q)
         /\ file \in Texts /\ NewList(p) \in Texts
         /\ NewList(p)' = NewList(p)
<1>1. /\ pc \in [Proc -> Places] /\ op \in [Proc -> Op] /\ read \in [Proc -> Texts]
      /\ clock \in Time /\ op[p].kind \in {"add", "delete"}
      /\ op[p].kind = "add" => op[p].uri \in Uri
      /\ UNCHANGED <<op, read, clock, deaths>>
      /\ pc[p] = from /\ pc' = [pc EXCEPT ![p] = to]
      /\ file \in Texts
  BY Busy DEF Write, InFile, InWrite
<1>2. \A q \in Proc \ {p} : ~InWrite(q)
  BY <1>1, Alone DEF InFile
<1>3. NewList(p) \in Texts
  BY <1>1, NewListProperties DEF RecentInv
<1>4. NewList(p)' = NewList(p)
  BY <1>1 DEF NewList, UpdateItem, EnforceLimit, DeleteFromList, Holds, First, NewItem, Parsed
<1> QED BY <1>1, <1>2, <1>3, <1>4 DEF Others

LEMMA WriteKeeps ==
  ASSUME RecentInv, LockInv', NEW p \in Proc, WriteFile(p)
  PROVE  RecentInv'
<1>1. Write(p, "flush", "unlock") /\ file' = NewList(p)
  BY DEF WriteFile
<1> QED BY <1>1, WriteProperties, NoPieces, StepKeeps

\* The end of a text is one, and of a beginning a part of the whole.
LEMMA EndProperties ==
  ASSUME NEW text \in Texts, NEW end \in Ends(text)
  PROVE  /\ end \in Texts
         /\ \A whole \in Texts :
              Beginning(text, whole) =>
                \E j \in 1 .. Len(whole) + 2, k \in 0 .. Len(whole) :
                  end = SubSeq(whole, j, k)
<1>1. PICK j \in 2 .. Len(text) + 2 : end = SubSeq(text, j, Len(text))
  BY DEF Ends
<1>2. text \in Seq(Piece) /\ Len(text) \in Nat
  BY DEF Texts
<1>3. end \in Texts
  BY <1>1, <1>2, SliceIsText
<1>4. ASSUME NEW whole \in Texts, Beginning(text, whole)
      PROVE  \E i \in 1 .. Len(whole) + 2, k \in 0 .. Len(whole) :
               end = SubSeq(whole, i, k)
  <2>1. PICK n \in 0 .. Len(whole) : text = SubSeq(whole, 1, n)
    BY <1>4 DEF Beginning
  <2>2. whole \in Seq(Piece) /\ Len(whole) \in Nat
    BY DEF Texts
  <2>3. Len(text) = n /\ \A i \in 1 .. n : text[i] = whole[i]
    BY <2>1, <2>2, SubSeqProperties
  <2>4. SubSeq(text, j, n) = SubSeq(whole, j, n)
    <3>1. j \in Nat /\ n \in Nat /\ \A i \in j .. n : i \in 1 .. n
      BY <1>1, <1>2, <2>2
    <3> QED BY <2>3, <3>1
  <2>5. j \in 1 .. Len(whole) + 2
    BY <1>1, <2>2, <2>3
  <2> QED BY <1>1, <2>3, <2>4, <2>5
<1> QED BY <1>3, <1>4

LEMMA HeadKeeps ==
  ASSUME RecentInv, LockInv', NEW p \in Proc, WriteHead(p)
  PROVE  RecentInv' /\ file' # <<>>
<1> DEFINE new == NewList(p)
<1>1. Write(p, "flush", "tail")
  BY DEF WriteHead
<1>2. PICK i \in 0 .. Len(new), end \in Ends(file),
           mid \in {<<>>, <<Broken>>} \cup {<<item>> : item \in Mixtures} :
             i + Len(mid) > 0 /\ file' = SubSeq(new, 1, i) \o mid \o end
  BY DEF WriteHead
<1>3. new \in Texts /\ file \in Texts /\ read[p] \in Texts /\ pc[p] = "flush"
  BY <1>1, WriteProperties
<1>4. Beginning(file, read[p])
  BY <1>3 DEF RecentInv, WriteInv
<1>5. end \in Texts
      /\ \E j \in 1 .. Len(read[p]) + 2, k \in 0 .. Len(read[p]) :
           end = SubSeq(read[p], j, k)
  BY <1>3, <1>4, EndProperties
<1>6. L!Torn(file', new, read[p])
  <2> HIDE DEF new
  <2> QED BY <1>2, <1>5 DEF L!Torn
<1>7. file' \in Texts /\ file' # <<>>
  <2>1. mid \in Seq(Piece) /\ Len(mid) \in {0, 1}
    <3>1. Broken \in Piece /\ \A item \in Mixtures : item \in Piece
      BY RecentAssumption DEF Piece, RecentAssumption
    <3>2. CASE mid = <<>>
      BY <3>2
    <3>3. CASE mid = <<Broken>>
      BY <3>1, <3>3
    <3>4. ASSUME NEW item \in Mixtures, mid = <<item>> PROVE mid \in Seq(Piece) /\ Len(mid) = 1
      BY <3>1, <3>4
    <3> QED BY <3>2, <3>3, <3>4
  <2>2. SubSeq(new, 1, i) \in Seq(Piece) /\ Len(SubSeq(new, 1, i)) = i /\ i \in Nat
    <3>1. new \in Seq(Piece) /\ Len(new) \in Nat
      BY <1>3 DEF Texts
    <3> HIDE DEF new
    <3>2. \A k \in 1 .. i : new[k] \in Piece
      BY <3>1
    <3> QED BY <3>1, <3>2, SubSeqProperties
  <2>3. end \in Seq(Piece) /\ Len(end) \in Nat
    BY <1>5 DEF Texts
  <2> DEFINE head == SubSeq(new, 1, i)
  <2> HIDE DEF head, new
  <2>4. head \in Seq(Piece) /\ Len(head) = i
    BY <2>2 DEF head, new
  <2>5. file' = head \o mid \o end
    BY <1>2 DEF head, new
  <2>6. head \o mid \in Seq(Piece) /\ Len(head \o mid) = i + Len(mid)
    BY <2>1, <2>4, ConcatProperties
  <2>7. file' \in Seq(Piece) /\ Len(file') = i + Len(mid) + Len(end)
    <3> DEFINE front == head \o mid
    <3>1. front \in Seq(Piece) /\ Len(front) = i + Len(mid) /\ file' = front \o end
      BY <2>5, <2>6
    <3>2. Len(front \o end) = Len(front) + Len(end) /\ front \o end \in Seq(Piece)
      <4> HIDE DEF front
      <4> QED BY <2>3, <3>1, ConcatProperties
    <3> HIDE DEF front
    <3> QED BY <3>1, <3>2
  <2>8. Len(file') > 0
    BY <1>2, <2>1, <2>2, <2>3, <2>7
  <2> QED BY <2>7, <2>8 DEF Texts
<1>8. Mixed(p)'
  BY <1>1, <1>6, WriteProperties DEF Mixed, L!Torn
<1> HIDE DEF new
<1> QED BY <1>1, <1>7, <1>8, WriteProperties, NoPieces, StepKeeps

LEMMA TailProperties ==
  ASSUME RecentInv, NEW p \in Proc, WriteTail(p)
  PROVE  /\ Write(p, "tail", "unlock")
         /\ file' \in Texts
         /\ file = <<>> => file' # <<>> /\ file'[1] = Broken
         /\ file # <<>> => file' = NewList(p)
<1>1. Write(p, "tail", "unlock")
  BY DEF WriteTail
<1>2. NewList(p) \in Texts
  BY <1>1, WriteProperties
<1>3. CASE file = <<>>
  <2>1. PICK end \in Ends(NewList(p)) : file' = <<Broken>> \o end
    BY <1>3 DEF WriteTail
  <2>2. end \in Seq(Piece)
    BY <1>2, EndProperties DEF Texts
  <2>3. <<Broken>> \in Seq(Piece)
    BY DEF Piece
  <2>4. file' \in Seq(Piece) /\ Len(file') = 1 + Len(end) /\ file'[1] = Broken
    BY <2>1, <2>2, <2>3
  <2>5. Len(file') > 0
    BY <2>2, <2>4
  <2> QED BY <1>1, <1>3, <2>4, <2>5 DEF Texts
<1>4. CASE file # <<>>
  BY <1>1, <1>2, <1>4 DEF WriteTail
<1> QED BY <1>3, <1>4

LEMMA TailKeeps ==
  ASSUME RecentInv, LockInv', NEW p \in Proc, WriteTail(p)
  PROVE  RecentInv'
  BY TailProperties, WriteProperties, NoPieces, StepKeeps

LEMMA UnlockKeeps ==
  ASSUME RecentInv, LockInv', NEW p \in Proc, Unlock(p)
  PROVE  RecentInv' /\ Others(p) /\ pc'[p] \in {"idle", "open"}
         /\ op'[p].kind \in {"none", "changed"}
<1>0. /\ pc \in [Proc -> Places] /\ op \in [Proc -> Op] /\ read \in [Proc -> Texts]
      /\ clock \in Time /\ UNCHANGED <<file, clock>>
      /\ read' = [read EXCEPT ![p] = <<>>]
  BY Busy DEF Unlock
<1>1. /\ read' \in [Proc -> Texts] /\ read'[p] = <<>>
      /\ \A q \in Proc \ {p} : read'[q] = read[q]
  BY <1>0, NoPieces
<1>2. CASE Call(p, "changed", Nil)
  <2>1. Others(p) /\ op' \in [Proc -> Op] /\ pc'[p] \in {"idle", "open"}
        /\ (op'[p].kind = "none" <=> pc'[p] \in {"off", "idle"})
        /\ (op'[p].kind = "none" => op'[p].uri = Nil)
        /\ op'[p].kind \in {"none", "changed"}
    BY <1>1, <1>2, CallProperties DEF Others
  <2> QED BY <1>0, <1>1, <2>1, NoPieces, StepKeeps
<1>3. CASE pc' = [pc EXCEPT ![p] = "idle"] /\ op' = [op EXCEPT ![p] = NoOp]
  <2>1. op' \in [Proc -> Op] /\ op'[p] = NoOp /\ NoOp.kind = "none" /\ NoOp.uri = Nil
    BY <1>0, <1>3, NoPieces DEF NoOp
  <2>2. Others(p) /\ pc'[p] = "idle"
    BY <1>0, <1>1, <1>3 DEF Others
  <2> QED BY <1>0, <1>1, <2>1, <2>2, NoPieces, StepKeeps
<1> QED BY <1>2, <1>3 DEF Unlock

LEMMA CrashKeeps ==
  ASSUME RecentInv, LockInv', NEW p \in Proc, Crash(p)
  PROVE  RecentInv' /\ Others(p) /\ pc'[p] = "off" /\ op'[p] = NoOp
<1>0. /\ pc \in [Proc -> Places] /\ op \in [Proc -> Op] /\ read \in [Proc -> Texts]
      /\ clock \in Time /\ UNCHANGED <<file, clock>>
      /\ read' = [read EXCEPT ![p] = <<>>]
      /\ pc' = [pc EXCEPT ![p] = "off"] /\ op' = [op EXCEPT ![p] = NoOp]
  BY DEF RecentInv, LockInv, TypeInv, Crash
<1>1. /\ op' \in [Proc -> Op] /\ op'[p] = NoOp /\ NoOp.kind = "none" /\ NoOp.uri = Nil
      /\ read' \in [Proc -> Texts] /\ read'[p] = <<>>
  BY <1>0, NoPieces DEF NoOp
<1>2. Others(p) /\ pc'[p] = "off"
  BY <1>0 DEF Others
<1> QED BY <1>0, <1>1, <1>2, NoPieces, StepKeeps

LEMMA RecentStep == RecentInv /\ [Next]_vars => RecentInv'
<1> SUFFICES ASSUME RecentInv, [Next]_vars PROVE RecentInv'
  OBVIOUS
<1>0. LockInv'
  BY LockStep DEF RecentInv
<1>1. ASSUME NEW p \in Proc, NEW uri \in Uri, Add(p, uri) PROVE RecentInv'
  BY <1>0, <1>1, CallKeeps DEF Add, fileVars
<1>2. ASSUME NEW p \in Proc, NEW uri \in Uri, Delete(p, "delete", uri) PROVE RecentInv'
  BY <1>0, <1>2, CallKeeps DEF Delete, fileVars
<1>3. ASSUME NEW p \in Proc, Delete(p, "clear", Nil) PROVE RecentInv'
  BY <1>0, <1>3, CallKeeps DEF Delete, fileVars
<1>4. ASSUME NEW p \in Proc, NEW i, OpenRecent(p, i) PROVE RecentInv'
  <2>1. menu[p][i] \in Uri /\ Add(p, menu[p][i])
    BY <1>4, RecentAssumption DEF OpenRecent, Add, RecentAssumption
  <2> QED BY <1>1, <2>1
<1>5. ASSUME NEW p \in Proc, Start(p) PROVE RecentInv'
  BY <1>0, <1>5, CallKeeps DEF Start, fileVars
<1>6. ASSUME NEW p \in Proc, Step(p) PROVE RecentInv'
  <2>1. CASE OpenFile(p) \/ CreateFile(p) \/ LockFile(p)
    BY <1>0, <2>1, OpenKeeps, CreateKeeps, LockKeeps
  <2>2. CASE ReadFile(p) \/ ClearFile(p) \/ CutFile(p)
    BY <1>0, <2>2, ReadKeeps, ClearKeeps, CutKeeps
  <2>3. CASE WriteFile(p) \/ WriteHead(p)
    BY <1>0, <2>3, WriteKeeps, HeadKeeps
  <2>4. CASE WriteTail(p) \/ Unlock(p)
    BY <1>0, <2>4, TailKeeps, UnlockKeeps
  <2> QED BY <1>6, <2>1, <2>2, <2>3, <2>4 DEF Step
<1>7. ASSUME NEW p \in Proc, MonitorEvent(p) PROVE RecentInv'
  BY <1>7, IdleKeeps DEF MonitorEvent, fileVars, RecentInv, TypeInv
<1>8. ASSUME NEW p \in Proc, Timeout(p) PROVE RecentInv'
  BY <1>0, <1>8, CallKeeps DEF Timeout, fileVars
<1>9. ASSUME NEW p \in Proc, Crash(p) PROVE RecentInv'
  BY <1>0, <1>9, CrashKeeps
<1>10. CASE Tick
  <2>1. clock' \in Time
    BY <1>10, RecentAssumption DEF Tick, RecentInv, TypeInv, Time, RecentAssumption
  <2> QED BY <1>10, <2>1, IdleKeeps DEF Tick, fileVars
<1>11. CASE UNCHANGED vars
  BY <1>11, IdleKeeps DEF vars, RecentInv, TypeInv
<1> QED
  BY <1>1, <1>2, <1>3, <1>4, <1>5, <1>6, <1>7, <1>8, <1>9, <1>10, <1>11 DEF Next, Event

---------------------------------------------------------------------------
(* The file and what is under way make the list RecentList promises.       *)

Late == {p \in Proc : pc[p] = "create"}

LEMMA ListProperties ==
  ASSUME RecentInv
  PROVE  /\ \A p \in Proc : InWrite(p) /\ ~Emptied(p) => List = read[p]
         /\ \A p \in Proc : Emptied(p) => List = file
         /\ (\A p \in Proc : ~InWrite(p)) => List = file
<1>1. ASSUME NEW p \in Proc, InWrite(p) PROVE \A q \in Proc : InWrite(q) => q = p
  BY <1>1, Alone DEF InFile, InWrite
<1>2. ASSUME NEW p \in Proc, InWrite(p), ~Emptied(p) PROVE List = read[p]
  <2>1. (CHOOSE q \in Proc : InWrite(q)) = p
    BY <1>1, <1>2
  <2> QED BY <1>2, <2>1 DEF List
<1>3. ASSUME NEW p \in Proc, Emptied(p) PROVE List = file
  <2>1. InWrite(p)
    BY <1>3 DEF Emptied, InWrite
  <2>2. ~ \E q \in Proc : InWrite(q) /\ ~Emptied(q)
    BY <1>1, <1>3, <2>1
  <2> QED BY <2>2 DEF List
<1>4. (\A p \in Proc : ~InWrite(p)) => List = file
  BY DEF List
<1> QED BY <1>2, <1>3, <1>4

LEMMA NextListProperties ==
  ASSUME RecentInv'
  PROVE  /\ \A p \in Proc : InWrite(p)' /\ ~Emptied(p)' => List' = read'[p]
         /\ \A p \in Proc : Emptied(p)' => List' = file'
         /\ (\A p \in Proc : ~InWrite(p)') => List' = file'
<1>0. \A p, q \in Proc : InWrite(p)' /\ InWrite(q)' => p = q
  BY DEF RecentInv, LockInv, LockHeld, InFile, InWrite
<1>1. ASSUME NEW p \in Proc, InWrite(p)', ~Emptied(p)' PROVE List' = read'[p]
  <2>1. (CHOOSE q \in Proc : InWrite(q)') = p
    BY <1>0, <1>1
  <2> QED BY <1>1, <2>1 DEF List
<1>2. ASSUME NEW p \in Proc, Emptied(p)' PROVE List' = file'
  <2>1. InWrite(p)'
    BY <1>2 DEF Emptied, InWrite
  <2>2. ~ \E q \in Proc : InWrite(q)' /\ ~Emptied(q)'
    BY <1>0, <1>2, <2>1
  <2> QED BY <2>2 DEF List
<1>3. (\A p \in Proc : ~InWrite(p)') => List' = file'
  BY DEF List
<1> QED BY <1>1, <1>2, <1>3

\* A step that neither changes the file nor comes to or goes from a write.
LEMMA SameList ==
  ASSUME RecentInv, RecentInv', NEW p \in Proc, Others(p), file' = file,
         ~InWrite(p), ~InWrite(p)'
  PROVE  List' = List
<1>1. \A q \in Proc : (InWrite(q)' <=> InWrite(q)) /\ (Emptied(q)' <=> Emptied(q))
  <2>1. ~Emptied(p) /\ ~Emptied(p)'
    BY DEF Emptied, InWrite
  <2> QED BY <2>1 DEF InWrite, Emptied, Others
<1>2. \A q \in Proc : InWrite(q) => read'[q] = read[q]
  BY DEF Others
<1>3. CASE \A q \in Proc : ~InWrite(q)
  BY <1>1, <1>3, ListProperties, NextListProperties
<1>4. CASE \E q \in Proc : InWrite(q)
  BY <1>1, <1>2, <1>4, ListProperties, NextListProperties
<1> QED BY <1>3, <1>4

\* A job ends with the write; a menu that is made again is none.
LEMMA JobProperties ==
  ASSUME RecentInv, NEW p \in Proc
  PROVE  /\ op[p].kind \in {"none", "changed"} \/ pc[p] = "unlock" => Todo[p] = L!NoJob
         /\ op[p].kind \notin {"none", "changed"} /\ pc[p] # "unlock"
              => /\ Todo[p].kind = op[p].kind /\ Todo[p].uri = op[p].uri
                 /\ Todo[p] # L!NoJob
<1>1. op[p].kind = "none" => op[p].uri = Nil
  BY DEF RecentInv, OpInv
<1>2. Todo[p] = IF op[p].kind = "changed" \/ pc[p] = "unlock"
                THEN [kind |-> "none", uri |-> Nil]
                ELSE [kind |-> op[p].kind, uri |-> op[p].uri]
  BY DEF Todo
<1> QED BY <1>1, <1>2 DEF L!NoJob

LEMMA NextJobProperties ==
  ASSUME RecentInv', NEW p \in Proc, Others(p)
  PROVE  /\ op'[p].kind \in {"none", "changed"} \/ pc'[p] = "unlock"
              => Todo' = [Todo EXCEPT ![p] = L!NoJob]
         /\ op'[p].kind \notin {"none", "changed"} /\ pc'[p] # "unlock"
              => Todo' = [Todo EXCEPT ![p] = [kind |-> op'[p].kind, uri |-> op'[p].uri]]
         /\ Todo'[p] = Todo[p] => Todo' = Todo
<1>1. op'[p].kind = "none" => op'[p].uri = Nil
  BY DEF RecentInv, OpInv
<1>2. Todo'[p] = IF op'[p].kind = "changed" \/ pc'[p] = "unlock"
                 THEN [kind |-> "none", uri |-> Nil]
                 ELSE [kind |-> op'[p].kind, uri |-> op'[p].uri]
  BY DEF Todo
<1>3. \A q \in Proc \ {p} : Todo'[q] = Todo[q]
  BY DEF Todo, Others
<1>4. Todo' = [Todo EXCEPT ![p] = Todo'[p]]
  <2>1. DOMAIN Todo = Proc /\ Todo = [q \in Proc |-> Todo[q]] /\ Todo' = [q \in Proc |-> Todo'[q]]
    BY DEF Todo
  <2> QED BY <1>3, <2>1
<1>5. Todo'[p] = Todo[p] => Todo' = Todo
  BY <1>4 DEF Todo
<1> QED BY <1>1, <1>2, <1>4, <1>5 DEF L!NoJob

LEMMA LateProperties ==
  ASSUME NEW p \in Proc, Others(p)
  PROVE  /\ (pc'[p] = "create" <=> pc[p] = "create") => Late' = Late
         /\ pc'[p] # "create" => Late' = Late \ {p}
         /\ pc'[p] = "create" => Late' = Late \cup {p}
  BY DEF Late, Others

\* A step that goes on with the same operation.
LEMMA SameJob ==
  ASSUME RecentInv, RecentInv', NEW p \in Proc, Others(p),
         op'[p].kind = op[p].kind, op'[p].uri = op[p].uri,
         pc[p] # "unlock", pc'[p] # "unlock"
  PROVE  Todo' = Todo
<1>1. Todo'[p] = Todo[p]
  BY DEF Todo
<1> QED BY <1>1, NextJobProperties

\* A step that ends the operation without a change, or the making of a menu.
LEMMA EndsJob ==
  ASSUME RecentInv, RecentInv', NEW p \in Proc, Others(p), List' = List, Late' = Late,
         op'[p].kind \in {"none", "changed"} \/ pc'[p] = "unlock", UNCHANGED deaths
  PROVE  [L!GiveUp(p)]_(L!lvars)
<1>1. Todo' = [Todo EXCEPT ![p] = L!NoJob]
  BY NextJobProperties
<1>2. CASE Todo[p] = L!NoJob
  BY <1>1, <1>2 DEF Todo, L!lvars, Late
<1>3. CASE Todo[p] # L!NoJob
  BY <1>1, <1>3 DEF L!GiveUp, L!Finish, Late
<1> QED BY <1>2, <1>3

\* What a program writes is what its job makes of the list.
LEMMA NewListIsDone ==
  ASSUME RecentInv, NEW p \in Proc, InWrite(p), List = read[p]
  PROVE  /\ NewList(p) = L!Done(p, op[p].time)
         /\ op[p].time \in Time /\ List # Absent
         /\ Todo[p].kind \in L!Writing /\ Todo[p] # L!NoJob
<1>1. op[p].kind \in {"add", "delete"} /\ op[p] \in Op /\ read[p] \in Texts
  BY DEF RecentInv, WriteInv, TypeInv
<1>2. Todo[p].kind = op[p].kind /\ Todo[p].uri = op[p].uri /\ Todo[p] # L!NoJob
  BY <1>1, JobProperties DEF InWrite
<1>3. read[p] # Absent
  BY <1>1, NoPieces
<1>4. L!Readable(List) = Parsed(read[p])
  <2>1. L!Readable(read[p]) = Parsed(read[p])
    <3>1. \A S : L!Cardinality(S) = Cardinality(S)
      BY Zenon DEF L!Cardinality, Cardinality
    <3> QED BY <1>3, <3>1, Zenon DEF L!Readable, Parsed
  <2> QED BY <2>1
<1> DEFINE items == Parsed(read[p])
           uri == op[p].uri
           time == op[p].time
<1>5. ASSUME op[p].kind = "add" PROVE NewList(p) = L!Done(p, time)
  <2>1. L!Done(p, time) = L!Updated(items, uri, time, GroupOf[p])
    BY <1>2, <1>4, <1>5 DEF L!Done
  <2>2. CASE Holds(items, uri)
    <3>1. NewList(p) = UpdateItem(items, uri, time, {GroupOf[p]})
      BY <1>5, <2>2 DEF NewList
    <3> HIDE DEF items, uri, time
    <3>2. UpdateItem(items, uri, time, {GroupOf[p]}) = L!Updated(items, uri, time, GroupOf[p])
      BY <2>2, Zenon DEF L!Updated, UpdateItem, Holds, First
    <3> QED BY <2>1, <3>1, <3>2
  <2>3. CASE ~Holds(items, uri)
    <3>1. NewList(p) = EnforceLimit(<<NewItem(p, uri, time)>> \o items, MaxItems)
      BY <1>5, <2>3 DEF NewList
    <3>2. MaxItems > 0
      BY RecentAssumption DEF RecentAssumption
    <3> HIDE DEF items, uri, time
    <3> QED BY <2>1, <2>3, <3>1, <3>2 DEF L!Updated, EnforceLimit, NewItem, Holds
  <2> QED BY <2>2, <2>3
<1>6. ASSUME op[p].kind = "delete" PROVE NewList(p) = L!Done(p, time)
  <2>1. L!Done(p, time) = L!Without(items, uri)
    BY <1>2, <1>4, <1>6 DEF L!Done
  <2>2. NewList(p) = DeleteFromList(items, uri)
    BY <1>6 DEF NewList
  <2> HIDE DEF items, uri, time
  <2>3. DeleteFromList(items, uri) = L!Without(items, uri)
    BY Zenon DEF L!Without, DeleteFromList, L!Keep, Keep, L!Arrange, Arrange,
       L!Rank, Rank, L!AsTheyCome, AsTheyCome, L!Cardinality, Cardinality
  <2> QED BY <2>1, <2>2, <2>3
<1>7. op[p].time \in Time
  BY <1>1 DEF Op
<1> QED BY <1>1, <1>2, <1>3, <1>5, <1>6, <1>7 DEF L!Writing

---------------------------------------------------------------------------
(* Each step does to the list what RecentList allows.                      *)

\* Steps that begin an operation.
LEMMA CallStep ==
  ASSUME RecentInv, RecentInv', NEW p \in Proc, pc[p] \in {"off", "idle"},
         NEW kind \in {"add", "delete", "clear", "changed"},
         NEW uri \in Uri \cup {Nil}, kind = "add" => uri \in Uri,
         Call(p, kind, uri), UNCHANGED <<file, clock, read, deaths>>
  PROVE  [L!Ask(p)]_(L!lvars)
<1>1. Others(p) /\ pc'[p] \in {"idle", "open"}
      /\ op'[p].kind \in {"none", kind} /\ (kind # "changed" => op'[p].uri = uri)
  BY CallKeeps, CallProperties DEF RecentInv
<1>2. List' = List /\ Late' = Late
  BY <1>1, SameList, LateProperties DEF InWrite
<1>3. Todo[p] = L!NoJob
  BY JobProperties DEF RecentInv, OpInv
<1>4. CASE op'[p].kind \in {"none", "changed"}
  <2>1. Todo' = Todo
    BY <1>1, <1>3, <1>4, NextJobProperties DEF Todo
  <2> QED BY <1>2, <2>1 DEF L!lvars, Late
<1>5. CASE op'[p].kind \notin {"none", "changed"}
  <2> DEFINE job == [kind |-> op'[p].kind, uri |-> op'[p].uri]
  <2>1. Todo' = [Todo EXCEPT ![p] = job]
    BY <1>1, <1>5, NextJobProperties
  <2>2. job \in L!Job
    BY <1>1, <1>5 DEF L!Job, L!Writing
  <2> HIDE DEF job
  <2>3. Todo'[p] = job
    BY <2>1 DEF Todo
  <2> QED BY <1>2, <1>3, <2>1, <2>2, <2>3 DEF L!Ask, Late
<1> QED BY <1>4, <1>5

LEMMA OpenStep ==
  ASSUME RecentInv, RecentInv', NEW p \in Proc, OpenFile(p)
  PROVE  [L!FindNone(p)]_(L!lvars)
<1>1. Others(p) /\ pc[p] = "open" /\ UNCHANGED <<file, deaths, read>>
      /\ pc \in [Proc -> Places]
  BY OpenKeeps DEF OpenFile, fileVars, RecentInv, LockInv
<1>2. CASE file = Absent
  <2>1. pc'[p] = "create" /\ UNCHANGED op
    BY <1>1, <1>2 DEF OpenFile
  <2>2. \A q \in Proc : ~InWrite(q)
    BY <1>2 DEF RecentInv, FileInv, InFile, InWrite
  <2>3. List = Absent /\ List' = List
    BY <1>1, <1>2, <2>1, <2>2, ListProperties, SameList DEF InWrite
  <2>4. Todo' = Todo /\ Late' = Late \cup {p}
    BY <1>1, <2>1, SameJob, LateProperties
  <2> QED BY <1>1, <2>3, <2>4 DEF L!FindNone, Late
<1>3. CASE file # Absent
  <2>1. pc'[p] = "lock" /\ op'[p].kind = op[p].kind /\ op'[p].uri = op[p].uri
    BY <1>3, OpenedProperties DEF OpenFile
  <2>2. List' = List /\ Todo' = Todo /\ Late' = Late
    BY <1>1, <2>1, SameList, SameJob, LateProperties DEF InWrite
  <2> QED BY <1>1, <2>2 DEF L!lvars, Late
<1> QED BY <1>2, <1>3

LEMMA CreateStep ==
  ASSUME RecentInv, RecentInv', NEW p \in Proc, CreateFile(p)
  PROVE  L!CreateLate(p)
<1>1. /\ Others(p) /\ pc[p] = "create" /\ pc'[p] = "lock" /\ file' = <<>>
      /\ op'[p].kind = op[p].kind /\ op'[p].uri = op[p].uri
      /\ UNCHANGED <<deaths, read>>
  BY CreateKeeps, OpenedProperties DEF CreateFile, RecentInv
<1>2. Todo' = Todo /\ Late' = Late \ {p} /\ p \in Late
  BY <1>1, SameJob, LateProperties DEF Late
<1>3. \A q \in Proc : InWrite(q)' <=> InWrite(q)
  BY <1>1 DEF InWrite, Others
<1>4. CASE \A q \in Proc : ~InWrite(q)
  <2>1. List' = <<>>
    BY <1>1, <1>3, <1>4, NextListProperties
  <2> QED BY <1>1, <1>2, <2>1 DEF L!CreateLate, Late
<1>5. ASSUME NEW q \in Proc, pc[q] = "tail" PROVE L!CreateLate(p)
  <2>1. Emptied(q)'
    BY <1>1, <1>5 DEF Emptied, Others
  <2>2. List' = <<>>
    BY <1>1, <2>1, NextListProperties
  <2> QED BY <1>1, <1>2, <2>2 DEF L!CreateLate, Late
<1>6. ASSUME NEW q \in Proc, pc[q] \in {"write", "flush"} PROVE L!CreateLate(p)
  <2>1. InWrite(q) /\ ~Emptied(q) /\ InWrite(q)' /\ ~Emptied(q)' /\ read'[q] = read[q]
    BY <1>1, <1>6 DEF InWrite, Emptied, Others
  <2>2. List = read[q] /\ List' = List
    BY <2>1, ListProperties, NextListProperties
  <2>3. Todo[q].kind \in L!Writing /\ List # Absent
    BY <2>1, <2>2, NewListIsDone
  <2> QED BY <1>1, <1>2, <2>2, <2>3 DEF L!CreateLate, Late
<1> QED BY <1>4, <1>5, <1>6 DEF InWrite

LEMMA LockingStep ==
  ASSUME RecentInv, RecentInv', NEW p \in Proc, LockFile(p)
  PROVE  [L!GiveUp(p)]_(L!lvars)
<1>1. /\ Others(p) /\ pc[p] = "lock" /\ pc'[p] \in {"read", "lock", "idle"}
      /\ UNCHANGED <<file, deaths>>
      /\ pc'[p] # "idle" => op'[p].kind = op[p].kind /\ op'[p].uri = op[p].uri
  BY LockKeeps DEF LockFile, RecentInv
<1>2. List' = List /\ Late' = Late
  BY <1>1, SameList, LateProperties DEF InWrite
<1>3. CASE pc'[p] = "idle"
  <2>1. op'[p].kind = "none"
    BY <1>3 DEF RecentInv, OpInv
  <2> QED BY <1>1, <1>2, <2>1, EndsJob
<1>4. CASE pc'[p] # "idle"
  <2>1. Todo' = Todo
    BY <1>1, <1>4, SameJob
  <2> QED BY <1>1, <1>2, <2>1 DEF L!lvars, Late
<1> QED BY <1>3, <1>4

LEMMA ReadingStep ==
  ASSUME RecentInv, RecentInv', NEW p \in Proc, ReadFile(p)
  PROVE  [L!GiveUp(p)]_(L!lvars)
<1>1. /\ Others(p) /\ pc[p] = "read" /\ pc'[p] \in {"write", "unlock"}
      /\ read'[p] = file /\ UNCHANGED <<file, deaths>>
      /\ op'[p].kind = op[p].kind /\ op'[p].uri = op[p].uri
  BY ReadKeeps DEF ReadFile, fileVars, RecentInv
<1>2. \A q \in Proc : ~InWrite(q) /\ (q # p => ~InWrite(q)')
  BY <1>1, Alone DEF InFile, InWrite, Others
<1>3. List = file /\ List' = file
  <2>1. ~Emptied(p)'
    BY <1>1 DEF Emptied
  <2> QED BY <1>1, <1>2, <2>1, ListProperties, NextListProperties
<1>4. Late' = Late
  BY <1>1, LateProperties
<1>5. CASE pc'[p] = "unlock"
  BY <1>1, <1>3, <1>4, <1>5, EndsJob
<1>6. CASE pc'[p] = "write"
  <2>1. Todo' = Todo
    BY <1>1, <1>6, SameJob
  <2> QED BY <1>1, <1>3, <1>4, <2>1 DEF L!lvars, Late
<1> QED BY <1>1, <1>5, <1>6

LEMMA ClearingStep ==
  ASSUME RecentInv, RecentInv', NEW p \in Proc, ClearFile(p)
  PROVE  L!Apply(p)
<1>1. /\ Others(p) /\ pc[p] = "read" /\ pc'[p] = "unlock" /\ op[p].kind = "clear"
      /\ file' = <<>> /\ UNCHANGED deaths
  BY ClearKeeps DEF ClearFile, RecentInv
<1>2. \A q \in Proc : ~InWrite(q) /\ ~InWrite(q)'
  BY <1>1, Alone DEF InFile, InWrite, Others
<1>3. List # Absent /\ List' = <<>>
  BY <1>1, <1>2, ListProperties, NextListProperties DEF RecentInv, FileInv, InFile
<1>4. Late' = Late /\ Todo' = [Todo EXCEPT ![p] = L!NoJob]
  BY <1>1, LateProperties, NextJobProperties
<1>5. Todo[p].kind = "clear" /\ Todo[p] # L!NoJob
  BY <1>1, JobProperties
<1>6. clock \in Time /\ L!Done(p, clock) = <<>>
  BY <1>5 DEF L!Done, RecentInv, TypeInv
<1> QED BY <1>1, <1>3, <1>4, <1>5, <1>6 DEF L!Apply, L!Finish, Late

\* A file that is cut, or holds the first blocks, is still the list that was read.
LEMMA WritesOn ==
  ASSUME RecentInv, RecentInv', NEW p \in Proc, Others(p), UNCHANGED <<op, read, deaths>>,
         pc[p] \in {"write", "flush"}, pc'[p] \in {"flush", "tail"},
         pc'[p] = "tail" => file' # <<>>
  PROVE  UNCHANGED L!lvars
<1>1. InWrite(p) /\ ~Emptied(p) /\ InWrite(p)' /\ ~Emptied(p)'
  BY DEF InWrite, Emptied
<1>2. List' = List
  BY <1>1, ListProperties, NextListProperties
<1>3. Todo' = Todo /\ Late' = Late
  BY SameJob, LateProperties
<1> QED BY <1>2, <1>3 DEF L!lvars, Late

\* The whole text is there.
LEMMA WritesAll ==
  ASSUME RecentInv, RecentInv', NEW p \in Proc, InWrite(p), ~Emptied(p), Others(p),
         pc'[p] = "unlock", file' = NewList(p), UNCHANGED deaths
  PROVE  L!Apply(p)
<1>1. \A q \in Proc : ~InWrite(q)'
  BY Alone DEF InFile, InWrite, Others
<1>2. List = read[p] /\ List' = NewList(p)
  BY <1>1, ListProperties, NextListProperties
<1>3. Late' = Late /\ Todo' = [Todo EXCEPT ![p] = L!NoJob]
  BY LateProperties, NextJobProperties DEF InWrite
<1>4. /\ NewList(p) = L!Done(p, op[p].time)
      /\ op[p].time \in Time /\ List # Absent /\ Todo[p] # L!NoJob
  BY <1>2, NewListIsDone
<1> QED BY <1>2, <1>3, <1>4 DEF L!Apply, L!Finish, Late

LEMMA TailStep ==
  ASSUME RecentInv, RecentInv', NEW p \in Proc, WriteTail(p)
  PROVE  L!Apply(p) \/ L!Spoil(p)
<1>1. /\ Write(p, "tail", "unlock")
      /\ file = <<>> => file' # <<>> /\ file'[1] = Broken
      /\ file # <<>> => file' = NewList(p)
  BY TailProperties
<1>2. Others(p) /\ pc[p] = "tail" /\ pc'[p] = "unlock" /\ UNCHANGED deaths
      /\ op[p].kind \in {"add", "delete"}
  BY <1>1, WriteProperties
<1>3. CASE file # <<>>
  BY <1>1, <1>2, <1>3, WritesAll DEF InWrite, Emptied
<1>4. CASE file = <<>>
  <2>1. \A q \in Proc : ~InWrite(q)'
    BY <1>2, Alone DEF InFile, InWrite, Others
  <2>2. List = <<>> /\ List' = file'
    BY <1>2, <1>4, <2>1, ListProperties, NextListProperties DEF Emptied
  <2>3. Late' = Late /\ Todo' = [Todo EXCEPT ![p] = L!NoJob]
    BY <1>2, LateProperties, NextJobProperties
  <2>4. Todo[p].kind \in L!Writing /\ Todo[p] # L!NoJob
    BY <1>2, JobProperties DEF L!Writing
  <2> QED BY <1>1, <1>2, <1>4, <2>2, <2>3, <2>4 DEF L!Spoil, L!Finish, Late
<1> QED BY <1>3, <1>4

LEMMA UnlockStep ==
  ASSUME RecentInv, RecentInv', NEW p \in Proc, Unlock(p)
  PROVE  UNCHANGED L!lvars
<1>1. Others(p) /\ pc[p] = "unlock" /\ pc'[p] \in {"idle", "open"}
      /\ op'[p].kind \in {"none", "changed"} /\ UNCHANGED <<file, deaths>>
  BY UnlockKeeps DEF Unlock, RecentInv
<1>2. List' = List /\ Late' = Late
  BY <1>1, SameList, LateProperties DEF InWrite
<1>3. Todo[p] = L!NoJob /\ Todo' = [Todo EXCEPT ![p] = L!NoJob]
  BY <1>1, JobProperties, NextJobProperties
<1>4. Todo' = Todo
  BY <1>3 DEF Todo
<1> QED BY <1>1, <1>2, <1>4 DEF L!lvars, Late

\* A beginning of the old text is none of the new and some of the old.
LEMMA BeginningIsTorn ==
  ASSUME NEW text, NEW new \in Texts, NEW old \in Texts, Beginning(text, old)
  PROVE  L!Torn(text, new, old)
<1>1. PICK k \in 0 .. Len(old) : text = SubSeq(old, 1, k)
  BY DEF Beginning
<1>2. Len(new) \in Nat /\ Len(old) \in Nat /\ new \in Seq(Piece) /\ old \in Seq(Piece)
  BY DEF Texts
<1>3. SubSeq(new, 1, 0) = <<>>
  BY <1>2
<1>4. text \in Seq(Piece)
  BY <1>1, SliceIsText DEF Texts
<1>5. text = SubSeq(new, 1, 0) \o <<>> \o SubSeq(old, 1, k)
  <2>1. <<>> \o <<>> \o text = text
    BY <1>4, ConcatEmptySeq
  <2> QED BY <1>1, <1>3, <2>1
<1>6. 0 \in 0 .. Len(new) /\ 1 \in 1 .. Len(old) + 2
  BY <1>2
<1> QED BY <1>5, <1>6 DEF L!Torn

LEMMA DeathStep ==
  ASSUME RecentInv, RecentInv', NEW p \in Proc, Crash(p)
  PROVE  L!Die(p)
<1>1. Others(p) /\ pc'[p] = "off" /\ op'[p].kind = "none" /\ file' = file
      /\ deaths' = deaths + 1
  <2>1. NoOp.kind = "none"
    BY DEF NoOp
  <2>2. file' = file /\ deaths' = deaths + 1
    BY DEF Crash
  <2> QED BY <2>1, <2>2, CrashKeeps DEF RecentInv
<1>2. Late' = Late \ {p} /\ Todo' = [Todo EXCEPT ![p] = L!NoJob]
  BY <1>1, LateProperties, NextJobProperties
<1>3. CASE ~InWrite(p)
  <2>1. List' = List
    BY <1>1, <1>3, SameList DEF InWrite
  <2> QED BY <1>1, <1>2, <2>1 DEF L!Die, Late
<1>4. ASSUME InWrite(p) PROVE List' = file'
  <2>1. \A q \in Proc : ~InWrite(q)'
    BY <1>1, <1>4, Alone DEF InFile, InWrite, Others
  <2> QED BY <2>1, NextListProperties
<1>5. CASE Emptied(p)
  <2>1. List' = List
    BY <1>1, <1>4, <1>5, ListProperties DEF Emptied, InWrite
  <2> QED BY <1>1, <1>2, <2>1 DEF L!Die, Late
<1>6. CASE InWrite(p) /\ ~Emptied(p)
  <2>1. List = read[p] /\ List' = file
    BY <1>1, <1>4, <1>6, ListProperties
  <2>2. NewList(p) \in Texts /\ read[p] \in Texts
    <3>1. op[p].kind \in {"add", "delete"}
      BY <1>6 DEF RecentInv, WriteInv
    <3> QED BY <3>1, NewListProperties DEF RecentInv, TypeInv
  <2>3. L!Torn(file, NewList(p), read[p])
    <3>1. CASE pc[p] = "tail"
      BY <1>6, <3>1 DEF RecentInv, WriteInv, Mixed, Emptied
    <3>2. CASE pc[p] \in {"write", "flush"}
      BY <2>2, <3>2, BeginningIsTorn DEF RecentInv, WriteInv
    <3> QED BY <1>6, <3>1, <3>2 DEF InWrite
  <2>4. /\ NewList(p) = L!Done(p, op[p].time)
        /\ op[p].time \in Time /\ List # Absent /\ Todo[p].kind \in L!Writing
    BY <1>6, <2>1, NewListIsDone
  <2>5. \E time \in Time : L!Torn(List', L!Done(p, time), List)
    <3>1. L!Torn(List', L!Done(p, op[p].time), List)
      BY <2>1, <2>3, <2>4
    <3> QED BY <2>4, <3>1
  <2> QED BY <1>1, <1>2, <2>4, <2>5 DEF L!Die, Late
<1> QED BY <1>3, <1>5, <1>6

LEMMA StepOfList ==
  ASSUME RecentInv, RecentInv', NEW p \in Proc, Step(p)
  PROVE  [L!ListNext]_(L!lvars)
<1>1. CASE OpenFile(p) \/ CreateFile(p)
  BY <1>1, OpenStep, CreateStep DEF L!ListNext
<1>2. CASE LockFile(p) \/ ReadFile(p)
  BY <1>2, LockingStep, ReadingStep DEF L!ListNext
<1>3. CASE ClearFile(p) \/ WriteTail(p)
  BY <1>3, ClearingStep, TailStep DEF L!ListNext
<1>4. CASE CutFile(p)
  <2>1. Others(p) /\ pc[p] = "write" /\ pc'[p] = "flush" /\ UNCHANGED <<op, read, deaths>>
    BY <1>4, CutKeeps DEF CutFile, RecentInv
  <2> QED BY <2>1, WritesOn
<1>5. CASE WriteHead(p)
  <2>1. Write(p, "flush", "tail") /\ file' # <<>>
    BY <1>5, HeadKeeps DEF WriteHead, RecentInv
  <2>2. Others(p) /\ pc[p] = "flush" /\ pc'[p] = "tail" /\ UNCHANGED <<op, read, deaths>>
    BY <2>1, WriteProperties
  <2> QED BY <2>1, <2>2, WritesOn
<1>6. CASE WriteFile(p)
  <2>1. Write(p, "flush", "unlock") /\ file' = NewList(p)
    BY <1>6 DEF WriteFile
  <2>2. Others(p) /\ pc[p] = "flush" /\ pc'[p] = "unlock" /\ UNCHANGED deaths
    BY <2>1, WriteProperties
  <2>3. L!Apply(p)
    BY <2>1, <2>2, WritesAll DEF InWrite, Emptied
  <2> QED BY <2>3 DEF L!ListNext
<1>7. CASE Unlock(p)
  BY <1>7, UnlockStep
<1> QED BY <1>1, <1>2, <1>3, <1>4, <1>5, <1>6, <1>7 DEF Step

LEMMA IdleStutters ==
  ASSUME UNCHANGED <<file, pc, op, read, deaths>>
  PROVE  UNCHANGED L!lvars
  BY DEF L!lvars, List, Todo, InWrite, Emptied

LEMMA ListInitial == Init => L!ListInit
<1> SUFFICES ASSUME Init PROVE L!ListInit
  OBVIOUS
<1>1. List = file
  BY DEF Init, List, InWrite
<1>2. {p \in Proc : pc[p] = "create"} = {}
  BY DEF Init
<1>3. Todo = [p \in Proc |-> L!NoJob]
  BY DEF Init, Todo, NoOp, L!NoJob
<1>4. List = Absent \/ \E u \in Uri, t \in Time, p \in Proc :
                          List = <<[uri |-> u, time |-> t, groups |-> {GroupOf[p]}]>>
  <2>1. CASE file # Absent
    <3>1. PICK uri \in Uri, p \in Proc : file = <<NewItem(p, uri, 0)>>
      BY <2>1 DEF Init
    <3>2. 0 \in Time
      BY RecentAssumption DEF RecentAssumption, Time
    <3> QED BY <1>1, <3>1, <3>2 DEF NewItem
  <2> QED BY <1>1, <2>1
<1> QED BY <1>2, <1>3, <1>4 DEF Init, L!ListInit

LEMMA ListStep ==
  ASSUME RecentInv, RecentInv', [Next]_vars
  PROVE  [L!ListNext]_(L!lvars)
<1>1. ASSUME NEW p \in Proc, NEW uri \in Uri, Add(p, uri) PROVE [L!Ask(p)]_(L!lvars)
  BY <1>1, CallStep DEF Add, fileVars
<1>2. ASSUME NEW p \in Proc, NEW uri \in Uri, Delete(p, "delete", uri)
      PROVE  [L!Ask(p)]_(L!lvars)
  BY <1>2, CallStep DEF Delete, fileVars
<1>3. ASSUME NEW p \in Proc, Delete(p, "clear", Nil) PROVE [L!Ask(p)]_(L!lvars)
  BY <1>3, CallStep DEF Delete, fileVars
<1>4. ASSUME NEW p \in Proc, NEW i, OpenRecent(p, i) PROVE [L!Ask(p)]_(L!lvars)
  <2>1. menu[p][i] \in Uri /\ Add(p, menu[p][i])
    BY <1>4, RecentAssumption DEF OpenRecent, Add, RecentAssumption
  <2> QED BY <1>1, <2>1
<1>5. ASSUME NEW p \in Proc, Start(p) PROVE [L!Ask(p)]_(L!lvars)
  BY <1>5, CallStep DEF Start, fileVars
<1>6. ASSUME NEW p \in Proc, MonitorEvent(p) PROVE UNCHANGED L!lvars
  BY <1>6, IdleStutters DEF MonitorEvent, fileVars
<1>7. ASSUME NEW p \in Proc, Timeout(p) PROVE [L!Ask(p)]_(L!lvars)
  BY <1>7, CallStep DEF Timeout, fileVars
<1>8. ASSUME NEW p \in Proc, Crash(p) PROVE L!Die(p)
  BY <1>8, DeathStep
<1>9. CASE Tick
  BY <1>9, IdleStutters DEF Tick, fileVars
<1>10. CASE UNCHANGED vars
  BY <1>10, IdleStutters DEF vars
<1> QED
  BY <1>1, <1>2, <1>3, <1>4, <1>5, <1>6, <1>7, <1>8, <1>9, <1>10, StepOfList
  DEF Next, Event, L!ListNext

\* However many programs rewrite ~/.recently-used at once, the text in the file
\* changes by one whole operation that was asked for, and nothing is lost, but for
\* two things: a death between two blocks of a write leaves some of the new text
\* and some of the old, and a program that came too late to create the file
\* empties it, or has what is being written to it begin with a hole
\* (egg-recent-model.c, egg_recent_model_write_raw and egg_recent_model_open_file).
THEOREM AlwaysKeepsList == Spec => KeepsList
<1> QED BY RecentInit, RecentStep, ListInitial, ListStep, PTL
        DEF Spec, KeepsList, L!ListSpec

---------------------------------------------------------------------------
(* The menu, and the types.                                                *)

\* The sorted list has the items kept.
LEMMA SortMruProperties ==
  ASSUME NEW items \in Seq(Item), NEW kept \in SUBSET (1 .. Len(items))
  PROVE  SortMru(items, kept) \in Seq(Item)
<1>1. \A i \in kept : i \in Nat /\ items[i].time \in Nat
  <2>1. \A i \in 1 .. Len(items) : items[i] \in Item
    OBVIOUS
  <2>2. \A x \in Item : x.time \in Nat
    BY DEF Item, Time
  <2> QED BY <2>1, <2>2
<1> DEFINE before(i, j) == Newer(items[i], items[j]) \/ (~Newer(items[j], items[i]) /\ i < j)
<1>2. /\ \A i \in kept : ~before(i, i)
      /\ \A i, j \in kept : i # j => before(i, j) \/ before(j, i)
      /\ \A i, j, k \in kept : before(i, j) /\ before(j, k) => before(i, k)
  <2> DEFINE time(i) == items[i].time
  <2>1. \A i \in kept : i \in Nat /\ time(i) \in Nat
    BY <1>1
  <2>2. \A i, j \in kept : before(i, j) <=> time(i) > time(j) \/ (~(time(j) > time(i)) /\ i < j)
    BY DEF Newer
  <2> HIDE DEF before, time
  <2>3. ASSUME NEW i \in kept PROVE ~before(i, i)
    BY <2>1, <2>2
  <2>4. ASSUME NEW i \in kept, NEW j \in kept, i # j PROVE before(i, j) \/ before(j, i)
    BY <2>1, <2>2, <2>4
  <2>5. ASSUME NEW i \in kept, NEW j \in kept, NEW k \in kept, before(i, j), before(j, k)
        PROVE  before(i, k)
    BY <2>1, <2>2, <2>5
  <2> QED BY <2>3, <2>4, <2>5
<1>3. \A i, j \in kept : <<i, j>> \in Mru(items, kept) <=> before(i, j)
  BY DEF Mru
<1>4. Orders(Mru(items, kept), kept)
  <2> HIDE DEF before
  <2> QED BY <1>2, <1>3 DEF Orders
<1> QED BY <1>4, ArrangeProperties DEF SortMru

MenuOf(p, items) == SetList(GetList(p, items))

\* A menu shows names of files, and no more than its limit.
LEMMA MenuProperties ==
  ASSUME NEW p \in Proc, NEW items \in Seq(Item)
  PROVE  /\ MenuOf(p, items) \in Seq(Uri)
         /\ Limit[p] > 0 => Len(MenuOf(p, items)) <= Limit[p]
<1> DEFINE list == GetList(p, items)
<1>1. Filter(p, items) \in SUBSET (1 .. Len(items))
  BY DEF Filter
<1>2. SortMru(items, Filter(p, items)) \in Seq(Item)
  BY <1>1, SortMruProperties
<1>3. list \in Seq(Item) /\ (Limit[p] > 0 => Len(list) <= Limit[p])
  <2>1. Limit[p] \in Nat
    BY RecentAssumption DEF RecentAssumption
  <2> QED BY <1>2, <2>1, LimitProperties DEF GetList
<1>4. MenuOf(p, items) = [i \in 1 .. Len(list) |-> list[i].uri]
  <2> HIDE DEF list
  <2>1. DOMAIN list = 1 .. Len(list)
    BY <1>3
  <2> QED BY <2>1 DEF MenuOf, SetList, list
<1> HIDE DEF list
<1>5. \A i \in 1 .. Len(list) : list[i].uri \in Uri
  <2>1. \A x \in Item : x.uri \in Uri
    BY DEF Item
  <2> QED BY <1>3, <2>1
<1>6. Len(list) \in Nat
  BY <1>3
<1>7. MenuOf(p, items) \in Seq(Uri) /\ Len(MenuOf(p, items)) = Len(list)
  BY <1>4, <1>5, <1>6
<1> QED BY <1>3, <1>7

MenuInv ==
  /\ menu \in [Proc -> Seq(Uri)]
  /\ \A p \in Proc : Limit[p] > 0 => Len(menu[p]) <= Limit[p]

\* A menu is left alone, cleared, or made of items.
LEMMA MenuStays ==
  ASSUME MenuInv, NEW p \in Proc,
         \/ menu' = menu
         \/ menu' = [menu EXCEPT ![p] = <<>>]
         \/ \E items \in Seq(Item) : menu' = [menu EXCEPT ![p] = MenuOf(p, items)]
  PROVE  MenuInv'
<1>1. menu \in [Proc -> Seq(Uri)] /\ \A q \in Proc : Limit[q] > 0 => Len(menu[q]) <= Limit[q]
  BY DEF MenuInv
<1>2. ASSUME NEW shown \in Seq(Uri), Limit[p] > 0 => Len(shown) <= Limit[p],
             menu' = [menu EXCEPT ![p] = shown]
      PROVE  MenuInv'
  BY <1>1, <1>2 DEF MenuInv
<1>3. CASE menu' = [menu EXCEPT ![p] = <<>>]
  <2>1. <<>> \in Seq(Uri) /\ Len(<<>>) = 0
    OBVIOUS
  <2>2. Limit[p] > 0 => Len(<<>>) <= Limit[p]
    BY <2>1, RecentAssumption DEF RecentAssumption
  <2> QED BY <1>2, <1>3, <2>1, <2>2
<1>4. ASSUME NEW items \in Seq(Item), menu' = [menu EXCEPT ![p] = MenuOf(p, items)]
      PROVE  MenuInv'
  BY <1>2, <1>4, MenuProperties
<1>5. CASE menu' = menu
  BY <1>1, <1>5 DEF MenuInv
<1> QED BY <1>3, <1>4, <1>5

\* The variables RecentInv says nothing of.
RestInv ==
  /\ locker \in Proc \cup {Nil}
  /\ monitor \in [Proc -> BOOLEAN]
  /\ notified \in [Proc -> BOOLEAN]
  /\ changed_timeout \in [Proc -> BOOLEAN]
  /\ MenuInv
  /\ unread \in [Proc -> BOOLEAN]
  /\ ops \in 0 .. MaxOps
  /\ deaths \in 0 .. MaxDeaths

LEMMA RestInit == Init => RestInv
<1> SUFFICES ASSUME Init PROVE RestInv
  OBVIOUS
<1>1. MenuInv
  <2>1. menu \in [Proc -> Seq(Uri)] /\ \A p \in Proc : Len(menu[p]) = 0
    BY DEF Init
  <2> QED BY <2>1, RecentAssumption DEF MenuInv, RecentAssumption
<1>2. ops \in 0 .. MaxOps /\ deaths \in 0 .. MaxDeaths
  BY RecentAssumption DEF RecentAssumption, Init
<1> QED BY <1>1, <1>2 DEF Init, RestInv

LEMMA NotifyKeeps ==
  ASSUME RestInv, Notify \/ UNCHANGED notified PROVE notified' \in [Proc -> BOOLEAN]
  BY DEF Notify, RestInv

\* What a step has to see to.
LEMMA RestStep == RecentInv /\ RestInv /\ [Next]_vars => RestInv'
<1> SUFFICES ASSUME RecentInv, RestInv, [Next]_vars PROVE RestInv'
  OBVIOUS
<1>0. MaxOps \in Nat /\ MaxDeaths \in Nat /\ read \in [Proc -> Texts] /\ MenuInv
  BY RecentAssumption DEF RecentAssumption, RecentInv, TypeInv, RestInv
<1>m. ASSUME menu' = menu PROVE MenuInv'
  BY <1>0, <1>m DEF MenuInv
<1>1. ASSUME NEW p \in Proc, NEW uri, Add(p, uri) PROVE RestInv'
  BY <1>0, <1>m, <1>1 DEF Add, fileVars, menuVars, RestInv
<1>2. ASSUME NEW p \in Proc, NEW kind, NEW uri, Delete(p, kind, uri) PROVE RestInv'
  BY <1>0, <1>m, <1>2 DEF Delete, fileVars, menuVars, RestInv
<1>3. ASSUME NEW p \in Proc, Start(p) PROVE RestInv'
  BY <1>m, <1>3 DEF Start, SetLimit, fileVars, menuVars, RestInv
\* Steps that at most change the file and report it.
<1>n. ASSUME Notify \/ UNCHANGED notified,
             UNCHANGED <<locker, monitor, changed_timeout, menu, unread, ops, deaths>>
      PROVE  RestInv'
  BY <1>m, <1>n, NotifyKeeps DEF RestInv
<1>4. ASSUME NEW p \in Proc, Step(p) PROVE RestInv'
  <2>1. CASE OpenFile(p)
    BY <1>n, <2>1 DEF OpenFile, fileVars, menuVars
  <2>2. CASE CreateFile(p)
    <3>1. Notify \/ UNCHANGED notified
      BY <2>2 DEF CreateFile
    <3> QED BY <1>n, <2>2, <3>1 DEF CreateFile, menuVars
  <2>3. CASE LockFile(p)
    <3>1. /\ locker' \in {locker, p}
          /\ \/ UNCHANGED menuVars
             \/ /\ menu' = [menu EXCEPT ![p] = <<>>]
                /\ unread' = [unread EXCEPT ![p] = TRUE]
          /\ UNCHANGED <<monitor, notified, changed_timeout, ops, deaths>>
      BY <2>3 DEF LockFile
    <3>2. MenuInv'
      BY <1>0, <3>1, MenuStays DEF menuVars
    <3>3. unread' \in [Proc -> BOOLEAN]
      BY <3>1 DEF menuVars, RestInv
    <3> QED BY <3>1, <3>2, <3>3 DEF RestInv
  <2>4. CASE ReadFile(p)
    BY <1>n, <2>4 DEF ReadFile, fileVars, menuVars
  <2>5. CASE ClearFile(p)
    BY <1>n, <2>5 DEF ClearFile, menuVars
  <2>6. CASE CutFile(p)
    <3>1. Notify \/ UNCHANGED notified
      BY <2>6 DEF CutFile
    <3>2. UNCHANGED <<locker, monitor, changed_timeout, menu, unread, ops, deaths>>
      BY <2>6 DEF CutFile, menuVars
    <3> QED BY <1>n, <3>1, <3>2
  <2>7. CASE WriteFile(p) \/ WriteHead(p) \/ WriteTail(p)
    <3>1. \E from, to : Write(p, from, to)
      BY <2>7 DEF WriteFile, WriteHead, WriteTail
    <3> QED BY <1>n, <3>1 DEF Write, menuVars
  <2>8. CASE Unlock(p)
    <3>1. Parsed(read[p]) \in Seq(Item)
      BY <1>0, ParsedProperties
    <3>2. \/ UNCHANGED menuVars
          \/ /\ menu' = [menu EXCEPT ![p] = MenuOf(p, Parsed(read[p]))]
             /\ unread' = [unread EXCEPT ![p] = FALSE]
      BY <2>8 DEF Unlock, MenuOf
    <3>3. MenuInv'
      BY <1>0, <3>1, <3>2, MenuStays DEF menuVars
    <3>4. unread' \in [Proc -> BOOLEAN]
      BY <3>2 DEF menuVars, RestInv
    <3> QED BY <2>8, <3>3, <3>4 DEF Unlock, RestInv
  <2> QED BY <1>4, <2>1, <2>2, <2>3, <2>4, <2>5, <2>6, <2>7, <2>8 DEF Step
<1>5. ASSUME NEW p \in Proc, MonitorEvent(p) PROVE RestInv'
  BY <1>m, <1>5 DEF MonitorEvent, fileVars, menuVars, RestInv
<1>6. ASSUME NEW p \in Proc, Timeout(p) PROVE RestInv'
  BY <1>m, <1>6 DEF Timeout, fileVars, menuVars, RestInv
<1>7. ASSUME NEW p \in Proc, Crash(p) PROVE RestInv'
  <2>1. MenuInv'
    BY <1>0, <1>7, MenuStays DEF Crash
  <2> QED BY <1>0, <1>7, <2>1 DEF Crash, RestInv
<1>8. CASE Tick
  BY <1>m, <1>8 DEF Tick, fileVars, menuVars, RestInv
<1>9. CASE UNCHANGED vars
  BY <1>m, <1>9 DEF vars, fileVars, menuVars, RestInv
<1> QED
  BY <1>1, <1>2, <1>3, <1>4, <1>5, <1>6, <1>7, <1>8, <1>9 DEF Next, Event, OpenRecent

\* Each variable keeps its type: what is in the file and what was read of it stays
\* a sequence of items and broken text, and a menu shows names of files only and
\* no more than its limit (egg-recent-model.c, egg_recent_model_read,
\* egg_recent_model_get_list and egg_recent_model_enforce_limit).
THEOREM RecentWellTyped == Spec => []TypeOK
<1>1. RecentInv /\ RestInv => TypeOK
  BY DEF RecentInv, LockInv, Places, TypeInv, Texts, RestInv, MenuInv, TypeOK
<1> QED BY RecentInit, RecentStep, RestInit, RestStep, <1>1, PTL DEF Spec

---------------------------------------------------------------------------
(* No change of the file is missed: what MenuCatchesUp rests on.           *)

\* What is about to be shown is what is in the file, or has been reported stale.
ReadFresh(p) ==
  Looking(p) /\ pc[p] = "unlock" /\ monitor[p]
    => Parsed(read[p]) = Parsed(file) \/ notified[p]

Noticed(p) == (Settled(p) \/ WillLook(p)) /\ ReadFresh(p)

\* What program p has in its hands.
OwnVars(p) == <<pc[p], op[p], read[p], monitor[p], changed_timeout[p], menu[p], unread[p]>>

\* There is nothing in a file that is missing or empty.
LEMMA NothingParsed == Parsed(Absent) = <<>> /\ Parsed(<<>>) = <<>>
<1>1. Parsed(Absent) = <<>>
  BY DEF Parsed
<1>2. <<>> \in Seq(Piece) /\ Len(<<>>) = 0 /\ <<>> # Absent
  BY NoPieces
<1> DEFINE kept == {i \in DOMAIN <<>> : \A j \in 1 .. i : <<>>[j] # Broken}
<1>3. kept = {}
  OBVIOUS
<1>4. Parsed(<<>>) = SubSeq(<<>>, 1, Cardinality(kept))
  BY <1>2, Zenon DEF Parsed
<1> HIDE DEF kept
<1>5. Parsed(<<>>) = SubSeq(<<>>, 1, 0)
  BY <1>3, <1>4, FS_EmptySet
<1> QED BY <1>1, <1>5

\* A report that waits goes on waiting, and a change of the list is reported.
Heard(p) ==
  /\ notified[p] => notified'[p]
  /\ monitor[p] /\ Parsed(file') # Parsed(file) => notified'[p]

LEMMA HeardOf ==
  ASSUME NEW p \in Proc,
         Notify \/ (UNCHANGED notified /\ Parsed(file') = Parsed(file))
  PROVE  Heard(p)
  BY DEF Heard, Notify

LEMMA NoticedKept ==
  ASSUME NEW p \in Proc, Noticed(p), OwnVars(p)' = OwnVars(p), Heard(p)
  PROVE  Noticed(p)'
<1>1. /\ pc'[p] = pc[p] /\ op'[p] = op[p] /\ read'[p] = read[p]
      /\ monitor'[p] = monitor[p] /\ changed_timeout'[p] = changed_timeout[p]
      /\ menu'[p] = menu[p] /\ unread'[p] = unread[p]
  BY DEF OwnVars
<1>2. (Settled(p) \/ WillLook(p))'
  <2>1. CASE WillLook(p)
    BY <1>1, <2>1 DEF WillLook, Looking, Heard
  <2>2. CASE Settled(p) /\ Parsed(file') = Parsed(file)
    BY <1>1, <2>2 DEF Settled
  <2>3. CASE monitor[p] /\ Parsed(file') # Parsed(file)
    BY <2>3 DEF Heard, WillLook
  <2>4. CASE ~monitor[p]
    BY <1>1, <2>4 DEF Settled
  <2> QED BY <2>1, <2>2, <2>3, <2>4 DEF Noticed
<1>3. ReadFresh(p)'
  BY <1>1 DEF Noticed, ReadFresh, Looking, Heard
<1> QED BY <1>2, <1>3 DEF Noticed

\* The same of a step of p itself that neither ends its look nor shows anything.
LEMMA NoticedOwn ==
  ASSUME NEW p \in Proc, Noticed(p), Heard(p),
         monitor'[p] = monitor[p], changed_timeout'[p] = changed_timeout[p],
         menu'[p] = menu[p], unread'[p] = unread[p],
         pc[p] # "off", pc'[p] # "off", Looking(p) => Looking(p)', ReadFresh(p)'
  PROVE  Noticed(p)'
<1>1. (Settled(p) \/ WillLook(p))'
  <2>1. CASE WillLook(p)
    BY <2>1 DEF WillLook, Heard
  <2>2. CASE Settled(p) /\ Parsed(file') = Parsed(file)
    BY <2>2 DEF Settled
  <2>3. CASE monitor[p] /\ Parsed(file') # Parsed(file)
    BY <2>3 DEF Heard, WillLook
  <2>4. CASE ~monitor[p]
    BY <2>4 DEF Settled
  <2> QED BY <2>1, <2>2, <2>3, <2>4 DEF Noticed
<1> QED BY <1>1 DEF Noticed

\* A call leaves the other programs alone; a look begins with it, where there
\* is a limit.
LEMMA CallLooks ==
  ASSUME RecentInv, NEW q \in Proc, NEW kind, NEW uri, Call(q, kind, uri)
  PROVE  /\ \A p \in Proc \ {q} : pc'[p] = pc[p] /\ op'[p] = op[p]
         /\ pc'[q] # "unlock"
         /\ kind = "changed" /\ Limit[q] # 0 => pc'[q] = "open" /\ op'[q].kind = "changed"
<1>1. pc \in [Proc -> Places] /\ op \in [Proc -> Op]
  BY DEF RecentInv, LockInv, TypeInv
<1>2. /\ pc' \in {[pc EXCEPT ![q] = "idle"], [pc EXCEPT ![q] = "open"]}
      /\ \A p \in Proc \ {q} : op'[p] = op[p]
  BY <1>1 DEF Call
<1>3. CASE kind = "changed" /\ Limit[q] # 0
  <2> DEFINE new == [NoOp EXCEPT !.kind = kind, !.uri = uri]
  <2>1. pc' = [pc EXCEPT ![q] = "open"] /\ op' = [op EXCEPT ![q] = new]
    BY <1>3 DEF Call
  <2>2. new.kind = "changed"
    BY <1>3 DEF NoOp
  <2> HIDE DEF new
  <2> QED BY <1>1, <1>2, <2>1, <2>2
<1> QED BY <1>1, <1>2, <1>3

LEMMA NoticedStep ==
  RecentInv /\ RestInv /\ [Next]_vars /\ (\A p \in Proc : Noticed(p))
    => (\A p \in Proc : Noticed(p))'
<1> SUFFICES ASSUME RecentInv, RestInv, [Next]_vars,
                    \A p \in Proc : Noticed(p), NEW p \in Proc
             PROVE  Noticed(p)'
  OBVIOUS
<1>0. /\ pc \in [Proc -> Places] /\ op \in [Proc -> Op] /\ read \in [Proc -> Texts]
      /\ monitor \in [Proc -> BOOLEAN] /\ notified \in [Proc -> BOOLEAN]
      /\ changed_timeout \in [Proc -> BOOLEAN]
      /\ menu \in [Proc -> Seq(Uri)] /\ unread \in [Proc -> BOOLEAN]
      /\ Noticed(p)
  BY DEF RecentInv, LockInv, TypeInv, RestInv, MenuInv
<1>h. ASSUME UNCHANGED <<file, notified>> PROVE Heard(p)
  BY <1>h, HeardOf
\* A call that is none of "changed" begins.
<1>a. ASSUME NEW q \in Proc, NEW kind, NEW uri, kind # "changed", pc[q] = "idle",
             Call(q, kind, uri),
             UNCHANGED <<file, read, monitor, notified, changed_timeout, menu, unread>>
      PROVE  Noticed(p)'
  <2>1. CASE q # p
    <3>1. OwnVars(p)' = OwnVars(p)
      BY <1>a, <2>1, CallLooks DEF OwnVars
    <3> QED BY <1>0, <1>a, <1>h, <3>1, NoticedKept
  <2>2. CASE q = p
    <3>1. Settled(p) \/ notified[p] \/ changed_timeout[p]
      BY <1>0, <1>a, <2>2 DEF Noticed, WillLook, Looking
    <3>2. (Settled(p) \/ WillLook(p))'
      BY <1>a, <3>1, <2>2 DEF Settled, WillLook
    <3>3. pc'[p] # "unlock"
      BY <1>a, <2>2, CallLooks
    <3> QED BY <3>2, <3>3 DEF Noticed, ReadFresh
  <2> QED BY <2>1, <2>2
<1>1. ASSUME NEW q \in Proc, NEW uri, Add(q, uri) PROVE Noticed(p)'
  BY <1>1, <1>a DEF Add, fileVars, menuVars
<1>2. ASSUME NEW q \in Proc, NEW kind \in {"delete", "clear"}, NEW uri, Delete(q, kind, uri)
      PROVE  Noticed(p)'
  BY <1>2, <1>a DEF Delete, fileVars, menuVars
<1>3. ASSUME NEW q \in Proc, Start(q) PROVE Noticed(p)'
  <2>0. /\ Call(q, "changed", Nil) /\ SetLimit(q)
        /\ UNCHANGED <<file, read, notified, changed_timeout, menu, unread>>
    BY <1>3 DEF Start, fileVars, menuVars
  <2>1. CASE q # p
    <3>1. monitor'[p] = monitor[p]
      BY <1>0, <2>0, <2>1 DEF SetLimit
    <3>2. OwnVars(p)' = OwnVars(p)
      BY <2>0, <2>1, <3>1, CallLooks DEF OwnVars
    <3> QED BY <1>0, <1>h, <2>0, <3>2, NoticedKept
  <2>2. CASE q = p /\ Limit[p] = 0
    <3>1. pc'[p] # "unlock"
      BY <2>0, <2>2, CallLooks
    <3> QED BY <2>2, <3>1 DEF Noticed, Settled, ReadFresh
  <2>3. CASE q = p /\ Limit[p] # 0
    <3>1. pc'[p] = "open" /\ op'[p].kind = "changed"
      BY <2>0, <2>3, CallLooks
    <3> QED BY <3>1 DEF Noticed, WillLook, Looking, ReadFresh
  <2> QED BY <2>1, <2>2, <2>3
<1>4. ASSUME NEW q \in Proc, OpenFile(q) PROVE Noticed(p)'
  <2>0. UNCHANGED <<file, read, monitor, notified, changed_timeout, menu, unread>>
    BY <1>4 DEF OpenFile, fileVars, menuVars
  <2>1. CASE q # p
    <3>1. OwnVars(p)' = OwnVars(p)
      BY <1>0, <1>4, <2>0, <2>1 DEF OpenFile, Opened, OwnVars
    <3> QED BY <1>0, <1>h, <2>0, <3>1, NoticedKept
  <2>2. CASE q = p
    <3>1. pc[p] = "open" /\ pc'[p] \in {"create", "lock"} /\ op'[p].kind = op[p].kind
      BY <1>0, <1>4, <2>2, OpenedProperties DEF OpenFile
    <3> QED BY <1>0, <2>0, <3>1 DEF Noticed, Settled, WillLook, Looking, ReadFresh
  <2> QED BY <2>1, <2>2
<1>5. ASSUME NEW q \in Proc, CreateFile(q) PROVE Noticed(p)'
  <2>0. /\ UNCHANGED <<read, monitor, changed_timeout, menu, unread>>
        /\ Opened(q)
    BY <1>5 DEF CreateFile, menuVars
  <2>h. Heard(p)
    <3>1. file' = <<>> /\ (Notify \/ (file \in {Absent, <<>>} /\ UNCHANGED notified))
      BY <1>5 DEF CreateFile
    <3>2. file \in {Absent, <<>>} => Parsed(file') = Parsed(file)
      BY <3>1, NothingParsed
    <3> QED BY <3>1, <3>2, HeardOf
  <2>1. CASE q # p
    <3>1. OwnVars(p)' = OwnVars(p)
      BY <2>0, <2>1, OpenedProperties DEF OwnVars
    <3> QED BY <1>0, <2>h, <3>1, NoticedKept
  <2>2. CASE q = p
    <3>1. pc[p] = "create" /\ pc'[p] = "lock" /\ op'[p].kind = op[p].kind
      BY <1>5, <2>0, <2>2, OpenedProperties DEF CreateFile
    <3> QED BY <1>0, <2>0, <2>h, <3>1, NoticedOwn DEF Looking, ReadFresh
  <2> QED BY <2>1, <2>2
<1>6. ASSUME NEW q \in Proc, LockFile(q) PROVE Noticed(p)'
  <2>0. pc[q] = "lock" /\ UNCHANGED <<file, read, monitor, notified, changed_timeout>>
    BY <1>6 DEF LockFile
  <2>1. CASE q # p
    <3>1. OwnVars(p)' = OwnVars(p)
      BY <1>0, <1>6, <2>0, <2>1 DEF LockFile, menuVars, OwnVars
    <3> QED BY <1>0, <1>h, <2>0, <3>1, NoticedKept
  <2>2. CASE q = p /\ (locker = Nil \/ op[p].tries > 1)
    <3>1. /\ pc'[p] \in {"read", "lock"} /\ op'[p].kind = op[p].kind
          /\ menu' = menu /\ unread' = unread
      BY <1>0, <1>6, <2>0, <2>2 DEF LockFile, menuVars, Op
    <3> QED BY <1>0, <1>h, <2>0, <2>2, <3>1, NoticedOwn DEF Looking, ReadFresh
  <2>3. CASE q = p /\ ~(locker = Nil \/ op[p].tries > 1)
    <3>1. pc'[p] = "idle"
      BY <1>0, <1>6, <2>3 DEF LockFile
    <3>2. CASE op[p].kind = "changed"
      <4>1. unread'[p]
        BY <1>0, <1>6, <2>3, <3>2 DEF LockFile
      <4> QED BY <3>1, <4>1 DEF Noticed, Settled, ReadFresh, Looking
    <3>3. CASE op[p].kind # "changed"
      <4>1. menu' = menu /\ unread' = unread
        BY <1>6, <2>3, <3>3 DEF LockFile, menuVars
      <4> QED BY <1>0, <1>h, <2>0, <2>3, <3>1, <3>3, <4>1, NoticedOwn DEF Looking, ReadFresh
    <3> QED BY <3>2, <3>3
  <2> QED BY <2>1, <2>2, <2>3
<1>7. ASSUME NEW q \in Proc, ReadFile(q) PROVE Noticed(p)'
  <2>0. pc[q] = "read"
        /\ UNCHANGED <<file, monitor, notified, changed_timeout, menu, unread>>
    BY <1>7 DEF ReadFile, fileVars, menuVars
  <2>1. CASE q # p
    <3>1. OwnVars(p)' = OwnVars(p)
      BY <1>0, <1>7, <2>0, <2>1 DEF ReadFile, OwnVars
    <3> QED BY <1>0, <1>h, <2>0, <3>1, NoticedKept
  <2>2. CASE q = p
    <3>1. /\ pc'[p] \in {"unlock", "write"}
          /\ read'[p] = file
          /\ op'[p].kind = op[p].kind
      BY <1>0, <1>7, <2>2 DEF ReadFile, Op
    <3>2. Parsed(read'[p]) = Parsed(file')
      BY <2>0, <3>1
    <3>3. ReadFresh(p)'
      BY <3>2 DEF ReadFresh
    <3> QED BY <1>0, <1>h, <2>0, <2>2, <3>1, <3>3, NoticedOwn DEF Looking
  <2> QED BY <2>1, <2>2
\* The steps that change the file under the lock, none of them in a look.
<1>b. ASSUME NEW q \in Proc, Notify \/ UNCHANGED <<file, notified>>,
             pc[q] \notin {"off", "idle"}, pc'[q] # "off", op[q].kind # "changed",
             \A x \in Proc \ {q} : pc'[x] = pc[x],
             UNCHANGED <<op, read, monitor, changed_timeout, menu, unread>>
      PROVE  Noticed(p)'
  <2>h. Heard(p)
    BY <1>b, HeardOf
  <2>1. CASE q # p
    <3>1. OwnVars(p)' = OwnVars(p)
      BY <1>b, <2>1 DEF OwnVars
    <3> QED BY <1>0, <2>h, <3>1, NoticedKept
  <2>2. CASE q = p
    BY <1>0, <1>b, <2>h, <2>2, NoticedOwn DEF Looking, ReadFresh
  <2> QED BY <2>1, <2>2
<1>8. ASSUME NEW q \in Proc, ClearFile(q) PROVE Noticed(p)'
  <2>1. /\ Notify /\ pc[q] = "read" /\ op[q].kind = "clear"
        /\ pc' = [pc EXCEPT ![q] = "unlock"]
        /\ UNCHANGED <<op, read, monitor, changed_timeout, menu, unread>>
    BY <1>8 DEF ClearFile, menuVars
  <2> QED BY <1>0, <1>b, <2>1
<1>9. ASSUME NEW q \in Proc, CutFile(q) PROVE Noticed(p)'
  <2>1. /\ Notify \/ UNCHANGED <<file, notified>>
        /\ pc[q] = "write"
        /\ pc' = [pc EXCEPT ![q] = "flush"]
        /\ UNCHANGED <<op, read, monitor, changed_timeout, menu, unread>>
    BY <1>9 DEF CutFile, menuVars
  <2>2. op[q].kind # "changed"
    BY <2>1 DEF RecentInv, WriteInv, InWrite
  <2> QED BY <1>0, <1>b, <2>1, <2>2
<1>10. ASSUME NEW q \in Proc, WriteFile(q) \/ WriteHead(q) \/ WriteTail(q)
       PROVE  Noticed(p)'
  <2>1. \E from \in {"flush", "tail"}, to \in {"tail", "unlock"} : Write(q, from, to)
    BY <1>10 DEF WriteFile, WriteHead, WriteTail
  <2>2. /\ Notify /\ pc[q] \in {"flush", "tail"}
        /\ \E to \in {"tail", "unlock"} : pc' = [pc EXCEPT ![q] = to]
        /\ UNCHANGED <<op, read, monitor, changed_timeout, menu, unread>>
    BY <2>1 DEF Write, menuVars
  <2>3. op[q].kind # "changed"
    BY <2>2 DEF RecentInv, WriteInv, InWrite
  <2> QED BY <1>0, <1>b, <2>2, <2>3
<1>11. ASSUME NEW q \in Proc, Unlock(q) PROVE Noticed(p)'
  <2>0. /\ pc[q] = "unlock" /\ read' = [read EXCEPT ![q] = <<>>]
        /\ UNCHANGED <<file, monitor, notified, changed_timeout>>
    BY <1>11 DEF Unlock
  <2>1. \/ Call(q, "changed", Nil) /\ ~monitor[q]
        \/ pc' = [pc EXCEPT ![q] = "idle"] /\ op' = [op EXCEPT ![q] = NoOp]
    BY <1>11 DEF Unlock
  <2>2. \/ op[q].kind # "changed" /\ menu' = menu /\ unread' = unread
        \/ /\ op[q].kind = "changed"
           /\ menu' = [menu EXCEPT ![q] = SetList(GetList(q, Parsed(read[q])))]
           /\ unread' = [unread EXCEPT ![q] = FALSE]
    BY <1>11 DEF Unlock, menuVars
  <2>3. CASE q # p
    <3>1. pc'[p] = pc[p] /\ op'[p] = op[p]
      BY <1>0, <2>1, <2>3, CallLooks
    <3>2. OwnVars(p)' = OwnVars(p)
      BY <1>0, <2>0, <2>2, <2>3, <3>1 DEF OwnVars
    <3> QED BY <1>0, <1>h, <2>0, <3>2, NoticedKept
  <2>4. CASE q = p
    <3>1. pc'[p] # "unlock"
      BY <1>0, <2>1, <2>4, CallLooks
    <3>2. ReadFresh(p)'
      BY <3>1 DEF ReadFresh
    <3>3. CASE ~monitor[p]
      BY <2>0, <3>2, <3>3 DEF Noticed, Settled
    <3>4. CASE monitor[p] /\ op[p].kind # "changed"
      <4>1. pc'[p] = "idle"
        BY <1>0, <2>1, <2>4, <3>4
      <4> QED BY <1>0, <1>h, <2>0, <2>2, <2>4, <3>2, <3>4, <4>1, NoticedOwn DEF Looking
    <3>5. CASE monitor[p] /\ op[p].kind = "changed"
      <4>1. Parsed(read[p]) = Parsed(file) \/ notified[p]
        BY <1>0, <2>0, <2>4, <3>5 DEF Noticed, ReadFresh, Looking
      <4>2. CASE notified[p]
        BY <2>0, <3>2, <4>2 DEF Noticed, WillLook
      <4>3. CASE Parsed(read[p]) = Parsed(file)
        <5>1. menu'[p] = SetList(GetList(p, Parsed(file)))
          BY <1>0, <2>2, <2>4, <3>5, <4>3
        <5>2. Parsed(file)' = Parsed(file)
          BY <2>0 DEF Parsed
        <5>3. Settled(p)'
          BY <5>1, <5>2 DEF Settled, GetList, SetList, SortMru, Filter
        <5> QED BY <3>2, <5>3 DEF Noticed
      <4> QED BY <4>1, <4>2, <4>3
    <3> QED BY <3>3, <3>4, <3>5
  <2> QED BY <2>3, <2>4
<1>12. ASSUME NEW q \in Proc, MonitorEvent(q) PROVE Noticed(p)'
  <2>0. /\ pc[q] = "idle" /\ notified' = [notified EXCEPT ![q] = FALSE]
        /\ changed_timeout' = [changed_timeout EXCEPT ![q] = TRUE]
        /\ UNCHANGED <<file, pc, op, read, monitor, menu, unread>>
    BY <1>12 DEF MonitorEvent, fileVars, menuVars
  <2>1. CASE q # p
    <3>1. OwnVars(p)' = OwnVars(p) /\ notified'[p] = notified[p]
      BY <1>0, <2>0, <2>1 DEF OwnVars
    <3>2. Heard(p)
      BY <2>0, <3>1 DEF Heard, Parsed
    <3> QED BY <1>0, <3>1, <3>2, NoticedKept
  <2>2. CASE q = p
    BY <1>0, <2>0, <2>2 DEF Noticed, WillLook, ReadFresh, Looking
  <2> QED BY <2>1, <2>2
<1>13. ASSUME NEW q \in Proc, Timeout(q) PROVE Noticed(p)'
  <2>0. /\ Call(q, "changed", Nil)
        /\ changed_timeout' = [changed_timeout EXCEPT ![q] = FALSE]
        /\ UNCHANGED <<file, read, monitor, notified, menu, unread>>
    BY <1>13 DEF Timeout, fileVars, menuVars
  <2>1. CASE q # p
    <3>1. OwnVars(p)' = OwnVars(p)
      BY <1>0, <2>0, <2>1, CallLooks DEF OwnVars
    <3> QED BY <1>0, <1>h, <2>0, <3>1, NoticedKept
  <2>2. CASE q = p /\ Limit[p] = 0
    <3>1. pc'[p] # "unlock"
      BY <2>0, <2>2, CallLooks
    <3> QED BY <2>2, <3>1 DEF Noticed, Settled, ReadFresh
  <2>3. CASE q = p /\ Limit[p] # 0
    <3>1. pc'[p] = "open" /\ op'[p].kind = "changed"
      BY <2>0, <2>3, CallLooks
    <3> QED BY <3>1 DEF Noticed, WillLook, Looking, ReadFresh
  <2> QED BY <2>1, <2>2, <2>3
<1>14. ASSUME NEW q \in Proc, Crash(q) PROVE Noticed(p)'
  <2>0. /\ pc' = [pc EXCEPT ![q] = "off"] /\ op' = [op EXCEPT ![q] = NoOp]
        /\ read' = [read EXCEPT ![q] = <<>>]
        /\ notified' = [notified EXCEPT ![q] = FALSE]
        /\ changed_timeout' = [changed_timeout EXCEPT ![q] = FALSE]
        /\ monitor' = [monitor EXCEPT ![q] = FALSE]
        /\ menu' = [menu EXCEPT ![q] = <<>>]
        /\ unread' = [unread EXCEPT ![q] = FALSE]
        /\ UNCHANGED file
    BY <1>14 DEF Crash
  <2>1. CASE q # p
    <3>1. OwnVars(p)' = OwnVars(p) /\ notified'[p] = notified[p]
      BY <1>0, <2>0, <2>1 DEF OwnVars
    <3>2. Heard(p)
      BY <2>0, <3>1 DEF Heard, Parsed
    <3> QED BY <1>0, <3>1, <3>2, NoticedKept
  <2>2. CASE q = p
    BY <1>0, <2>0, <2>2 DEF Noticed, Settled, ReadFresh, Looking
  <2> QED BY <2>1, <2>2
<1>15. ASSUME UNCHANGED <<file, pc, op, read, monitor, notified, changed_timeout,
                          menu, unread>>
       PROVE  Noticed(p)'
  <2>1. OwnVars(p)' = OwnVars(p)
    BY <1>15 DEF OwnVars
  <2> QED BY <1>0, <1>h, <1>15, <2>1, NoticedKept
<1>16. CASE Tick
  BY <1>15, <1>16 DEF Tick, fileVars, menuVars
<1>17. CASE UNCHANGED vars
  BY <1>15, <1>17 DEF vars
<1> QED
  BY <1>1, <1>2, <1>3, <1>4, <1>5, <1>6, <1>7, <1>8, <1>9, <1>10, <1>11, <1>12,
     <1>13, <1>14, <1>16, <1>17 DEF Next, Step, Event, OpenRecent

\* No program misses a change of the file: while the menu of one that monitors it
\* does not show what is in it, a report waits for the program, its timer runs or
\* it is reading the file, whatever programs write at the same time or die
\* (egg-recent-model.c, egg_recent_model_monitor_cb and its timer).  With the
\* fairness of Event and Step it is why MenuCatchesUp holds.
THEOREM ChangesAlwaysNoticed == Spec => []StaleNoticed
<1>1. Init => \A p \in Proc : Noticed(p)
  BY DEF Init, Noticed, Settled, ReadFresh, Looking
<1>2. (\A p \in Proc : Noticed(p)) => StaleNoticed
  BY DEF Noticed, StaleNoticed
<1> DEFINE All == \A p \in Proc : Noticed(p)
<1>3. RecentInv /\ RestInv /\ [Next]_vars /\ All => All'
  BY NoticedStep
<1> HIDE DEF All
<1>4. Init => All
  BY <1>1 DEF All
<1>5. All => StaleNoticed
  BY <1>2 DEF All
<1> QED BY RecentInit, RecentStep, RestInit, RestStep, <1>3, <1>4, <1>5, PTL DEF Spec
=============================================================================
