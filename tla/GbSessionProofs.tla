--------------------------- MODULE GbSessionProofs ---------------------------
(***************************************************************************)
(* The windows of a session, proved for any number of windows, files,      *)
(* edits, choosers and "die" signals: no window that counts as empty holds *)
(* an edit, every edit is accounted for, exit skips no window, and without *)
(* a "die" the unfinished calls keep their windows.                        *)
(***************************************************************************)
EXTENDS GbSession, SequenceTheorems, FiniteSetTheorems, TLAPS

\* A question, a close and a Save As chooser belong to a window, and while
\* that is there it shows a document.
WindowsInUse ==
  \A i \in DOMAIN stack : stack[i].op # "exit" =>
    /\ stack[i].win \in Win
    /\ stack[i].win \in Windows => docs[stack[i].win] # Nil

\* A close that has to wait waits for the Save As chooser of its window.
SaveAsOverClose ==
  \A i \in DOMAIN stack : i < Len(stack) /\ stack[i].op = "close" =>
    stack[i + 1] = Call("save_as", stack[i].win)

\* What gb_file_close learns from saved_flag is still true when it looks.
SavedIsClean ==
  Calling("close") /\ saved_flag =>
    Last(stack).win \in Windows /\ ~docs[Last(stack).win].modified

CallsInv == WindowsInUse /\ SaveAsOverClose /\ SavedIsClean

\* Without "die" an exit has no exit below it, a question or a close nothing
\* but an exit, and what exit goes on to is another window.
LoneCalls ==
  dies = 0 => \A i, j \in DOMAIN stack : i < j =>
    /\ stack[j].op # "exit"
    /\ stack[j].op \in {"ask", "close"} => stack[i].op = "exit"
    /\ stack[i].op = "exit" => stack[i].win # stack[j].win

\* v comes before w in the list l.
Precedes(l, v, w) == \E a, b \in DOMAIN l : a < b /\ l[a] = v /\ l[b] = w

\* The loop of gb_file_exit that is to go on with n has dealt with v.
Passed(v, n) == n = Nil \/ Precedes(window_list, v, n)

\* A window that an exit has dealt with and that is still there was kept, or
\* its closing is under way.
PassedHandled ==
  Alive => \A i \in DOMAIN stack : stack[i].op = "exit" =>
    \A v \in Windows : Passed(v, stack[i].win) =>
      \/ v \in kept
      \/ \E j \in DOMAIN stack :
           j > i /\ stack[j].op \in {"ask", "close"} /\ stack[j].win = v

TypeInv == TypeOK /\ IsFiniteSet(choosers)

\* The inductive invariant.
SessionInv ==
  /\ TypeInv
  /\ CallsInv
  /\ EmptyHasNoEdits
  /\ EditsAccounted
  /\ CallsHaveWindows /\ LoneCalls
  /\ PassedHandled

---------------------------------------------------------------------------
(* Lists of windows and stacks of calls.                                   *)

\* A list without its last entry.
LEMMA FrontProperties ==
  ASSUME NEW S, NEW s \in Seq(S), s # <<>>
  PROVE  /\ Front(s) \in Seq(S)
         /\ Len(s) \in Nat \ {0}
         /\ Len(Front(s)) = Len(s) - 1
         /\ \A i \in 1 .. Len(s) - 1 : Front(s)[i] = s[i]
         /\ DOMAIN s = 1 .. Len(s)
         /\ DOMAIN Front(s) = 1 .. Len(s) - 1
         /\ Last(s) = s[Len(s)]
         /\ Last(s) \in S
<1>1. /\ Len(s) \in Nat \ {0}
      /\ DOMAIN s = 1 .. Len(s)
      /\ \A i \in 1 .. Len(s) : s[i] \in S
  BY EmptySeq, LenProperties, ElementOfSeq
<1>2. /\ Front(s) \in Seq(S)
      /\ Len(Front(s)) = Len(s) - 1
      /\ \A i \in 1 .. Len(s) - 1 : Front(s)[i] = s[i]
  <2>1. /\ SubSeq(s, 1, Len(s) - 1) \in Seq(S)
        /\ Len(SubSeq(s, 1, Len(s) - 1)) =
             IF 1 <= Len(s) - 1 THEN Len(s) - 1 - 1 + 1 ELSE 0
        /\ \A i \in 1 .. Len(s) - 1 - 1 + 1 : SubSeq(s, 1, Len(s) - 1)[i] = s[1 + i - 1]
    BY <1>1, SubSeqProperties
  <2> QED BY <1>1, <2>1 DEF Front
<1>3. DOMAIN Front(s) = 1 .. Len(s) - 1
  BY <1>2, LenProperties
<1> QED BY <1>1, <1>2, <1>3 DEF Last

\* The first entry of a list.
LEMMA HeadIsFirst ==
  ASSUME NEW S, NEW s \in Seq(S), s # <<>>
  PROVE  Head(s) = s[1]
OBVIOUS

\* The list of windows without one of them: the others are there, once each
\* and in the same order.
LEMMA ListWithout ==
  ASSUME NEW l \in Seq(Win), IsInjective(l), NEW i \in 1 .. Len(l)
  PROVE  /\ RemoveAt(l, i) \in Seq(Win)
         /\ IsInjective(RemoveAt(l, i))
         /\ Range(RemoveAt(l, i)) = Range(l) \ {l[i]}
         /\ \A v, w \in Win : Precedes(RemoveAt(l, i), v, w) => Precedes(l, v, w)
<1> DEFINE front == SubSeq(l, 1, i - 1)
           back  == SubSeq(l, i + 1, Len(l))
           r     == front \o back
<1>n. Len(l) \in Nat
  BY LenProperties
<1>0. /\ Len(l) \in Nat
      /\ DOMAIN l = 1 .. Len(l)
      /\ \A k \in 1 .. Len(l) : l[k] \in Win
      /\ \A a, b \in 1 .. Len(l) : l[a] = l[b] => a = b
  BY LenProperties, ElementOfSeq DEF IsInjective
<1>1. front \in Seq(Win) /\ Len(front) = i - 1 /\ \A k \in 1 .. i - 1 : front[k] = l[k]
  BY <1>0, SubSeqProperties
<1>2. /\ back \in Seq(Win)
      /\ Len(back) = Len(l) - i
      /\ \A k \in 1 .. Len(l) - i : back[k] = l[i + k]
  <2>1. /\ back \in Seq(Win)
        /\ Len(back) = IF i + 1 <= Len(l) THEN Len(l) - (i + 1) + 1 ELSE 0
        /\ \A k \in 1 .. Len(l) - (i + 1) + 1 : back[k] = l[(i + 1) + k - 1]
    BY <1>0, SubSeqProperties
  <2> QED BY <2>1, <1>n
<1>3. RemoveAt(l, i) = r
  BY DEF RemoveAt
<1> HIDE DEF front, back
<1>4. /\ r \in Seq(Win)
      /\ Len(r) = Len(front) + Len(back)
      /\ \A k \in 1 .. Len(front) + Len(back) :
           r[k] = IF k <= Len(front) THEN front[k] ELSE back[k - Len(front)]
  BY <1>1, <1>2, ConcatProperties
<1> HIDE DEF r
<1>5. Len(r) = Len(l) - 1 /\ DOMAIN r = 1 .. Len(l) - 1
  BY <1>0, <1>1, <1>2, <1>4, LenProperties
<1>6. \A k \in 1 .. Len(l) - 1 : r[k] = IF k < i THEN l[k] ELSE l[k + 1]
  <2> SUFFICES ASSUME NEW k \in 1 .. Len(l) - 1
               PROVE  r[k] = IF k < i THEN l[k] ELSE l[k + 1]
    OBVIOUS
  <2>1. k \in 1 .. Len(front) + Len(back)
    BY <1>0, <1>1, <1>2
  <2>2. CASE k < i
    BY <2>1, <2>2, <1>0, <1>1, <1>4
  <2>3. CASE ~(k < i)
    <3>1. k - (i - 1) \in 1 .. Len(l) - i /\ i + (k - (i - 1)) = k + 1
      BY <2>3, <1>0
    <3>2. r[k] = back[k - (i - 1)]
      BY <2>1, <2>3, <1>0, <1>1, <1>4
    <3> QED BY <3>1, <3>2, <2>3, <1>2
  <2> QED BY <2>2, <2>3
<1> DEFINE old(k) == IF k < i THEN k ELSE k + 1
<1>7. \A k \in 1 .. Len(l) - 1 : old(k) \in 1 .. Len(l) /\ old(k) # i /\ r[k] = l[old(k)]
  BY <1>0, <1>6
<1>8. \A a, b \in 1 .. Len(l) - 1 : old(a) = old(b) => a = b
  BY <1>0
<1>9. \A a, b \in 1 .. Len(l) - 1 : a < b => old(a) < old(b)
  BY <1>0
<1>10. \A m \in 1 .. Len(l) : m # i => \E k \in 1 .. Len(l) - 1 : old(k) = m
  <2> SUFFICES ASSUME NEW m \in 1 .. Len(l), m # i
               PROVE  \E k \in 1 .. Len(l) - 1 : old(k) = m
    OBVIOUS
  <2>1. CASE m < i
    BY <2>1, <1>0
  <2>2. CASE m > i
    <3>1. m - 1 \in 1 .. Len(l) - 1 /\ old(m - 1) = m
      BY <2>2, <1>0
    <3> QED BY <3>1
  <2> QED BY <2>1, <2>2, <1>0
<1> HIDE DEF old
<1>11. IsInjective(r)
  BY <1>0, <1>5, <1>7, <1>8 DEF IsInjective
<1>12. Range(r) = Range(l) \ {l[i]}
  <2>1. ASSUME NEW x \in Range(r)
        PROVE  x \in Range(l) \ {l[i]}
    BY <2>1, <1>0, <1>5, <1>7 DEF Range
  <2>2. ASSUME NEW x \in Range(l) \ {l[i]}
        PROVE  x \in Range(r)
    <3>1. PICK m \in 1 .. Len(l) : l[m] = x /\ m # i
      BY <1>0 DEF Range
    <3>2. PICK k \in 1 .. Len(l) - 1 : old(k) = m
      BY <3>1, <1>10
    <3> QED BY <3>1, <3>2, <1>5, <1>7 DEF Range
  <2> QED BY <2>1, <2>2
<1>13. \A v, w \in Win : Precedes(r, v, w) => Precedes(l, v, w)
  <2> SUFFICES ASSUME NEW v \in Win, NEW w \in Win, Precedes(r, v, w)
               PROVE  Precedes(l, v, w)
    OBVIOUS
  <2>1. PICK a \in 1 .. Len(l) - 1, b \in 1 .. Len(l) - 1 : a < b /\ r[a] = v /\ r[b] = w
    BY <1>5 DEF Precedes
  <2>2. old(a) < old(b) /\ l[old(a)] = v /\ l[old(b)] = w
        /\ old(a) \in 1 .. Len(l) /\ old(b) \in 1 .. Len(l)
    BY <2>1, <1>7, <1>9
  <2> QED BY <2>2, <1>0 DEF Precedes
<1> QED BY <1>3, <1>4, <1>11, <1>12, <1>13

---------------------------------------------------------------------------
(* The operations of window.c.                                             *)

\* The position of a window in the list.
LEMMA NodeProperties ==
  ASSUME TypeOK, NEW w \in Windows
  PROVE  /\ Len(window_list) \in Nat
         /\ DOMAIN window_list = 1 .. Len(window_list)
         /\ \A k \in 1 .. Len(window_list) : window_list[k] \in Windows
         /\ Windows \subseteq Win
         /\ Node(w) \in 1 .. Len(window_list)
         /\ window_list[Node(w)] = w
         /\ \A a, b \in 1 .. Len(window_list) : window_list[a] = window_list[b] => a = b
<1>1. /\ Len(window_list) \in Nat
      /\ DOMAIN window_list = 1 .. Len(window_list)
      /\ \A k \in 1 .. Len(window_list) : window_list[k] \in Win
  BY LenProperties, ElementOfSeq DEF TypeOK
<1>2. \E k \in DOMAIN window_list : window_list[k] = w
  BY DEF Windows, Range
<1> QED BY <1>1, <1>2, SMTT(30) DEF Node, Windows, Range, TypeOK, IsInjective

\* A window is destroyed.
LEMMA Destroyed ==
  ASSUME TypeOK, NEW w \in Windows, DestroyWindow(w)
  PROVE  /\ window_list' \in Seq(Win) /\ IsInjective(window_list')
         /\ Windows' = Windows \ {w}
         /\ \A u, v \in Win : Precedes(window_list', u, v) => Precedes(window_list, u, v)
         /\ docs' \in [Win -> Doc \cup {Nil}]
         /\ \A v \in Win \ Windows' : docs'[v] = Nil
         /\ \A v \in Win \ {w} : docs'[v] = docs[v]
         /\ running' = (window_list' # <<>>)
<1>1. Node(w) \in 1 .. Len(window_list) /\ window_list[Node(w)] = w
  BY NodeProperties
<1>2. window_list' = RemoveAt(window_list, Node(w))
  BY DEF DestroyWindow
<1>3. window_list \in Seq(Win) /\ IsInjective(window_list)
  BY DEF TypeOK
<1>4. /\ window_list' \in Seq(Win) /\ IsInjective(window_list')
      /\ Range(window_list') = Range(window_list) \ {w}
      /\ \A u, v \in Win : Precedes(window_list', u, v) => Precedes(window_list, u, v)
  BY <1>1, <1>2, <1>3, ListWithout
<1>5. Windows' = Windows \ {w}
  BY <1>4 DEF Windows
<1>6. /\ docs' = [docs EXCEPT ![w] = Nil]
      /\ running' = (window_list' # <<>>)
  BY DEF DestroyWindow
<1>7. docs \in [Win -> Doc \cup {Nil}] /\ \A v \in Win \ Windows : docs[v] = Nil
  BY DEF TypeOK
<1> QED BY <1>4, <1>5, <1>6, <1>7

\* A document gets a window: one that counts as empty, or a new one.
LEMMA Placed ==
  ASSUME TypeOK, NEW w \in Windows, NEW doc \in Doc, PlaceDoc(w, doc)
  PROVE  /\ window_list' \in Seq(Win) /\ IsInjective(window_list')
         /\ window_list' # <<>>
         /\ Windows \subseteq Windows'
         /\ docs' \in [Win -> Doc \cup {Nil}]
         /\ \A v \in Win \ Windows' : docs'[v] = Nil
         /\ \E u \in Windows' :
              /\ IsEmpty(u)
              /\ docs' = [docs EXCEPT ![u] = [doc EXCEPT !.modified = FALSE]]
<1> DEFINE clean == [doc EXCEPT !.modified = FALSE]
<1>1. clean \in Doc
  BY DEF Doc
<1>2. /\ docs \in [Win -> Doc \cup {Nil}] /\ \A v \in Win \ Windows : docs[v] = Nil
      /\ window_list \in Seq(Win) /\ IsInjective(window_list)
      /\ Windows \subseteq Win /\ window_list # <<>>
  BY NodeProperties, EmptySeq DEF TypeOK
<1>3. CASE IsEmpty(w) /\ docs' = [docs EXCEPT ![w] = clean] /\ UNCHANGED window_list
  BY <1>1, <1>2, <1>3 DEF Windows
<1>4. CASE \E v \in Win \ Windows : /\ window_list' = Append(window_list, v)
                                    /\ docs' = [docs EXCEPT ![v] = clean]
  <2>1. PICK v \in Win \ Windows : /\ window_list' = Append(window_list, v)
                                   /\ docs' = [docs EXCEPT ![v] = clean]
    BY <1>4
  <2>2. /\ window_list' \in Seq(Win) /\ window_list' # <<>>
        /\ Len(window_list') = Len(window_list) + 1
        /\ \A i \in 1 .. Len(window_list) : window_list'[i] = window_list[i]
        /\ window_list'[Len(window_list) + 1] = v
    BY <2>1, <1>2, AppendProperties
  <2>3. DOMAIN window_list' = 1 .. Len(window_list) + 1 /\ Len(window_list) \in Nat
    BY <2>2, <1>2, LenProperties
  <2>4. Windows' = Windows \cup {v}
    BY <2>2, <2>3, NodeProperties DEF Windows, Range
  <2>5. IsInjective(window_list')
    BY <2>1, <2>2, <2>3, NodeProperties DEF IsInjective
  <2>6. IsEmpty(v)
    BY <1>2 DEF IsEmpty
  <2> QED BY <2>1, <2>2, <2>4, <2>5, <2>6, <1>1, <1>2
<1> QED BY <1>3, <1>4 DEF PlaceDoc

\* What the type invariant says of the windows that are open.
PlacedTypes ==
  /\ window_list \in Seq(Win) /\ IsInjective(window_list)
  /\ window_list # <<>>
  /\ docs \in [Win -> Doc \cup {Nil}]
  /\ \A v \in Win \ Windows : docs[v] = Nil

\* A document that gets a window keeps the types of the windows.
LEMMA PlacedType ==
  ASSUME TypeOK, NEW w \in Windows, NEW doc \in Doc, PlaceDoc(w, doc)
  PROVE  PlacedTypes'
BY Placed DEF PlacedTypes

\* A document is saved.
LEMMA Saved ==
  ASSUME TypeOK, NEW w \in Windows, docs[w] # Nil, NEW f \in File,
         NEW cause \in Cause, SaveOk(w, f, cause)
  PROVE  /\ docs' \in [Win -> Doc \cup {Nil}]
         /\ \A v \in Win \ {w} : docs'[v] = docs[v]
         /\ docs[w] \in Doc
         /\ docs'[w] = [docs[w] EXCEPT !.file = f, !.modified = FALSE]
         /\ docs'[w] # Nil
         /\ docs'[w].file = f /\ docs'[w].modified = FALSE
         /\ disk' \in [File -> (SUBSET Token) \cup {Missing, Damaged}]
         /\ disk' = [disk EXCEPT ![f] = docs[w].content]
         /\ Stored(f)' = docs[w].content
         /\ \A g \in File \ {f} : Stored(g)' = Stored(g)
         /\ excused' \subseteq Token \X Cause
         /\ excused \subseteq excused'
         /\ \A e \in Stored(f) \ docs[w].content : <<e, cause>> \in excused'
<1>1. /\ docs \in [Win -> Doc \cup {Nil}] /\ w \in Win
      /\ disk \in [File -> (SUBSET Token) \cup {Missing, Damaged}]
      /\ excused \subseteq Token \X Cause
  BY NodeProperties DEF TypeOK
<1>2. docs[w] \in Doc /\ Nil \notin Doc
  BY <1>1, SessionAssumption
<1>3. docs' = [docs EXCEPT ![w].file = f, ![w].modified = FALSE]
  BY DEF SaveOk
<1>4. docs'[w] = [docs[w] EXCEPT !.file = f, !.modified = FALSE]
  BY <1>1, <1>3
<1>5. docs'[w] \in Doc /\ docs'[w].file = f /\ docs'[w].modified = FALSE
  BY <1>2, <1>4 DEF Doc
<1>6. docs' \in [Win -> Doc \cup {Nil}] /\ \A v \in Win \ {w} : docs'[v] = docs[v]
  BY <1>1, <1>3, <1>5
<1>7. docs[w].content \in SUBSET Token /\ docs[w].content \notin {Missing, Damaged}
  BY <1>2, SessionAssumption DEF Doc
<1>8. /\ disk' = [disk EXCEPT ![f] = docs[w].content]
      /\ excused' = excused \cup ((Stored(f) \ docs[w].content) \X {cause})
  BY DEF SaveOk
<1>9. Stored(f) \subseteq Token
  BY <1>1 DEF Stored
<1>10. /\ disk' \in [File -> (SUBSET Token) \cup {Missing, Damaged}]
       /\ Stored(f)' = docs[w].content
       /\ \A g \in File \ {f} : Stored(g)' = Stored(g)
  BY <1>1, <1>7, <1>8 DEF Stored
<1>11. /\ excused' \subseteq Token \X Cause
       /\ excused \subseteq excused'
       /\ \A e \in Stored(f) \ docs[w].content : <<e, cause>> \in excused'
  BY <1>1, <1>8, <1>9
<1> QED BY <1>2, <1>4, <1>5, <1>6, <1>8, <1>10, <1>11

\* A save that fails.
LEMMA NotSaved ==
  ASSUME TypeOK, NEW w, NEW f \in File, SaveFail(w, f)
  PROVE  /\ docs' = docs
         /\ disk' \in [File -> (SUBSET Token) \cup {Missing, Damaged}]
         /\ excused' \subseteq Token \X Cause
         /\ excused \subseteq excused'
         /\ \A g \in File : \A e \in Stored(g) :
              e \in Stored(g)' \/ <<e, "damaged">> \in excused'
<1>1. /\ disk \in [File -> (SUBSET Token) \cup {Missing, Damaged}]
      /\ excused \subseteq Token \X Cause
  BY DEF TypeOK
<1>2. docs' = docs
  BY DEF SaveFail
<1>3. CASE UNCHANGED <<disk, excused>>
  BY <1>1, <1>2, <1>3 DEF Stored
<1>4. CASE /\ disk' = [disk EXCEPT ![f] = Damaged]
           /\ excused' = excused \cup (Stored(f) \X {"damaged"})
  <2>1. Stored(f) \subseteq Token
    BY <1>1 DEF Stored
  <2>2. excused' \subseteq Token \X Cause /\ excused \subseteq excused'
    BY <1>1, <1>4, <2>1 DEF Cause
  <2>3. disk' \in [File -> (SUBSET Token) \cup {Missing, Damaged}]
    BY <1>1, <1>4
  <2>4. \A g \in File \ {f} : Stored(g)' = Stored(g)
    BY <1>1, <1>4 DEF Stored
  <2>5. \A e \in Stored(f) : <<e, "damaged">> \in excused'
    BY <1>4
  <2> QED BY <1>2, <2>2, <2>3, <2>4, <2>5
<1> QED BY <1>3, <1>4 DEF SaveFail

---------------------------------------------------------------------------
(* The type invariant.                                                     *)

\* Unfinished calls are of their type.
LEMMA CallType ==
  ASSUME NEW w \in Win \cup {Nil}, NEW op \in {"exit", "ask", "close", "save_as"}
  PROVE  Call(op, w) \in Frame
BY DEF Call, Frame

\* A call returns, and what is below it goes on.
LEMMA Returned ==
  ASSUME TypeOK, stack # <<>>
  PROVE  /\ stack \in Seq(Frame) /\ Front(stack) \in Seq(Frame)
         /\ Len(stack) \in Nat \ {0}
         /\ Len(Front(stack)) = Len(stack) - 1
         /\ DOMAIN stack = 1 .. Len(stack)
         /\ DOMAIN Front(stack) = 1 .. Len(stack) - 1
         /\ \A i \in 1 .. Len(stack) - 1 : Front(stack)[i] = stack[i]
         /\ Last(stack) = stack[Len(stack)]
         /\ Last(stack) \in Frame
         /\ Last(stack).win \in Win \cup {Nil}
<1>1. stack \in Seq(Frame)
  BY DEF TypeOK
<1>2. Last(stack) \in Frame
  BY <1>1, FrontProperties
<1>3. Last(stack).win \in Win \cup {Nil}
  BY <1>2 DEF Frame
<1> QED BY <1>1, <1>3, FrontProperties

\* A step of a window's menu keeps the types.
LEMMA WindowType ==
  ASSUME SessionInv, NEW w \in Windows, WindowNext(w)
  PROVE  TypeInv'
<1> USE DEF SessionInv, TypeInv
<1>0. w \in Win
  BY NodeProperties
<1>1. CASE FileNew(w)
  <2> DEFINE blank == [file |-> Nil, modified |-> FALSE, content |-> {}]
  <2>1. blank \in Doc
    BY DEF Doc
  <2>2. PlaceDoc(w, blank)
    BY <1>1 DEF FileNew
  <2> HIDE DEF blank
  <2>3. PlacedTypes'
    BY <2>1, <2>2, PlacedType
  <2> QED BY <1>1, <2>3 DEF FileNew, TypeOK, PlacedTypes, Idle
<1>2. CASE \E kind \in {"open", "import"} : ShowChooser(kind, w)
  <2>1. PICK kind \in {"open", "import"} : ShowChooser(kind, w)
    BY <1>2
  <2> DEFINE c == [kind |-> kind, parent |-> w]
  <2>2. c \in Chooser
    BY <1>0 DEF Chooser
  <2>3. choosers' = choosers \cup {c} /\ Cardinality(choosers) < MaxChooser
    BY <2>1 DEF ShowChooser
  <2> HIDE DEF c
  <2>4. Cardinality(choosers) \in Nat /\ MaxChooser \in Nat
    BY FS_CardinalityType, SessionAssumption
  <2>5. IsFiniteSet(choosers') /\ Cardinality(choosers') <= MaxChooser
    BY <2>3, <2>4, FS_AddElement
  <2> QED BY <2>1, <2>2, <2>3, <2>5 DEF ShowChooser, TypeOK, Windows
<1>3. CASE \E f \in File : OpenRecent(f, w)
  <2>1. PICK f \in File : OpenRecent(f, w)
    BY <1>3
  <2>2. [file |-> f, modified |-> FALSE, content |-> disk[f]] \in Doc
    BY <2>1 DEF OpenRecent, OpenReal, Doc, TypeOK
  <2>3. PlacedTypes'
    BY <2>1, <2>2, PlacedType DEF OpenRecent, OpenReal
  <2> QED BY <2>1, <2>3 DEF OpenRecent, TypeOK, PlacedTypes, Idle
<1>4. CASE \E e \in Edit : EditDoc(w, e)
  <2>1. PICK e \in Edit : EditDoc(w, e)
    BY <1>4
  <2>2. docs[w] \in Doc /\ docs \in [Win -> Doc \cup {Nil}] /\ e \in Token
    BY <1>0, <2>1 DEF EditDoc, TypeOK, Token
  <2>3. docs' = [docs EXCEPT ![w].content = @ \cup {e}, ![w].modified = TRUE]
    BY <2>1 DEF EditDoc
  <2>4. docs'[w] \in Doc
    BY <1>0, <2>2, <2>3 DEF Doc
  <2>5. docs' \in [Win -> Doc \cup {Nil}]
    BY <1>0, <2>2, <2>3, <2>4
  <2>6. \A v \in Win \ Windows : docs'[v] = Nil
    BY <1>0, <2>2, <2>3 DEF TypeOK
  <2> QED BY <2>1, <2>2, <2>5, <2>6 DEF EditDoc, TypeOK, Windows
<1>5. CASE FileSave(w)
  <2>1. stack = <<>> /\ docs[w] # Nil /\ docs[w] \in Doc
    BY <1>0, <1>5 DEF FileSave, Idle, TypeOK
  <2>2. CASE docs[w].file = Nil
    <3>1. Append(stack, Call("save_as", w)) \in Seq(Frame)
      BY <1>0, CallType, AppendProperties DEF TypeOK
    <3> QED BY <1>5, <2>2, <3>1 DEF FileSave, TypeOK, Windows
  <2>3. CASE docs[w].file # Nil
    <3>1. docs[w].file \in File
      BY <2>1, <2>3 DEF Doc
    <3>2. CASE SaveOk(w, docs[w].file, "shared")
      <4>1. "shared" \in Cause
        BY DEF Cause
      <4> QED BY <1>0, <1>5, <2>1, <2>3, <3>1, <3>2, <4>1, Saved, ZenonT(30) DEF FileSave, TypeOK, Windows
    <3>3. CASE SaveFail(w, docs[w].file)
      BY <1>0, <1>5, <2>1, <2>3, <3>1, <3>3, NotSaved DEF FileSave, TypeOK, Windows
    <3> QED BY <1>5, <2>3, <3>2, <3>3 DEF FileSave
  <2> QED BY <2>2, <2>3
<1>6. CASE FileSaveAs(w)
  <2>1. Append(stack, Call("save_as", w)) \in Seq(Frame)
    BY <1>0, CallType, AppendProperties DEF TypeOK
  <2> QED BY <1>6, <2>1 DEF FileSaveAs, TypeOK, Windows
<1>7. CASE FileClose(w)
  <2>1. CASE NeedsAsk(w)
    <3>1. Append(stack, Call("ask", w)) \in Seq(Frame)
      BY <1>0, CallType, AppendProperties DEF TypeOK
    <3> QED BY <1>7, <2>1, <3>1 DEF FileClose, CloseWindow, TypeOK, Windows
  <2>2. CASE ~NeedsAsk(w)
    BY <1>7, <2>2, Destroyed DEF FileClose, CloseWindow, TypeOK
  <2> QED BY <2>1, <2>2
<1> QED BY <1>1, <1>2, <1>3, <1>4, <1>5, <1>6, <1>7 DEF WindowNext

\* The answer to an Open or Import chooser keeps the types.
LEMMA ChooserType ==
  ASSUME SessionInv, NEW c \in choosers, ChooserAccept(c) \/ ChooserCancel(c)
  PROVE  TypeInv'
<1> USE DEF SessionInv, TypeInv
<1>1. /\ IsFiniteSet(choosers \ {c})
      /\ Cardinality(choosers \ {c}) <= MaxChooser
  <2>1. /\ Cardinality(choosers) \in Nat /\ MaxChooser \in Nat
        /\ Cardinality(choosers) <= MaxChooser
    BY FS_CardinalityType, SessionAssumption DEF TypeOK
  <2>2. /\ IsFiniteSet(choosers \ {c})
        /\ Cardinality(choosers \ {c}) = Cardinality(choosers) - 1
    BY FS_RemoveElement
  <2> QED BY <2>1, <2>2
<1>2. CASE ChooserCancel(c)
  BY <1>1, <1>2 DEF ChooserCancel, TypeOK, Windows
<1>3. CASE ChooserAccept(c) /\ c.parent \notin Windows
  BY <1>3 DEF ChooserAccept, TypeOK, Windows
<1>4. CASE ChooserAccept(c) /\ c.parent \in Windows
  <2>1. CASE ImportReal(c.parent) /\ made' = made \cup Foreign
    <3> DEFINE imported == [file |-> Nil, modified |-> TRUE, content |-> Foreign]
    <3>1. imported \in Doc
      BY DEF Doc, Token
    <3>2. PlaceDoc(c.parent, imported)
      BY <2>1 DEF ImportReal
    <3>3. made' \subseteq Token
      BY <2>1 DEF TypeOK, Token
    <3> HIDE DEF imported
    <3>4. PlacedTypes'
      BY <1>4, <3>1, <3>2, PlacedType
    <3> QED BY <1>1, <1>4, <3>3, <3>4 DEF ChooserAccept, TypeOK, PlacedTypes, Idle
  <2>2. CASE (\E f \in File : OpenReal(f, c.parent)) /\ UNCHANGED made
    <3>1. PICK f \in File : OpenReal(f, c.parent)
      BY <2>2
    <3>2. [file |-> f, modified |-> FALSE, content |-> disk[f]] \in Doc
      BY <3>1 DEF OpenReal, Doc, TypeOK
    <3>3. PlacedTypes'
      BY <1>4, <3>1, <3>2, PlacedType DEF OpenReal
    <3> QED BY <1>1, <1>4, <2>2, <3>3 DEF ChooserAccept, TypeOK, PlacedTypes, Idle
  <2> QED BY <1>4, <2>1, <2>2 DEF ChooserAccept
<1> QED BY <1>2, <1>3, <1>4

\* The answer to a Save As chooser keeps the types.
LEMMA SaveAsType ==
  ASSUME SessionInv,
         \/ \E f \in File : \E answer \in {"agreed", "dismissed"} : SaveAsAccept(f, answer)
         \/ SaveAsTooLate
         \/ SaveAsCancel
  PROVE  TypeInv'
<1> USE DEF SessionInv, TypeInv
<1>1. ASSUME NEW f \in File, NEW answer \in {"agreed", "dismissed"}, SaveAsAccept(f, answer)
      PROVE  TypeInv'
  <2> DEFINE w == Last(stack).win
  <2>1. stack # <<>> /\ w \in Windows /\ Last(stack).op = "save_as" /\ answer \in Cause
    BY <1>1 DEF SaveAsAccept, Calling, Cause
  <2>2. docs[w] # Nil
    BY <2>1, Returned DEF CallsInv, WindowsInUse
  <2>3. CASE SaveOk(w, f, answer) /\ saved_flag' = TRUE /\ stack' = Front(stack)
    <3>1. /\ docs' \in [Win -> Doc \cup {Nil}]
          /\ \A v \in Win \ {w} : docs'[v] = docs[v]
          /\ disk' \in [File -> (SUBSET Token) \cup {Missing, Damaged}]
          /\ excused' \subseteq Token \X Cause
      <4> HIDE DEF w
      <4> QED BY <2>1, <2>2, <2>3, Saved
    <3>2. stack' \in Seq(Frame)
      BY <2>1, <2>3, Returned
    <3> QED BY <1>1, <2>1, <2>3, <3>1, <3>2 DEF SaveAsAccept, TypeOK, Windows
  <2>4. CASE SaveFail(w, f) /\ UNCHANGED <<saved_flag, stack>>
    <3> HIDE DEF w
    <3> QED BY <1>1, <2>1, <2>4, NotSaved DEF SaveAsAccept, TypeOK, Windows
  <2> QED BY <1>1, <2>3, <2>4 DEF SaveAsAccept
<1>2. CASE SaveAsTooLate
  BY <1>2 DEF SaveAsTooLate, TypeOK, Windows, Fatal
<1>3. CASE SaveAsCancel
  BY <1>3, Returned DEF SaveAsCancel, Calling, TypeOK, Windows
<1> QED BY <1>1, <1>2, <1>3

\* The answer to the close question, and what follows it, keep the types.
LEMMA AskType ==
  ASSUME SessionInv, AskSave \/ AskDiscard \/ AskCancel \/ CloseAfterSave
  PROVE  TypeInv'
<1> USE DEF SessionInv, TypeInv
<1> DEFINE w == Last(stack).win
<1>0. /\ stack # <<>>
      /\ Last(stack).op # "exit"
      /\ w \in Win
      /\ w \in Windows => docs[w] # Nil
  <2>1. stack # <<>> /\ Last(stack).op # "exit"
    BY DEF AskSave, AskDiscard, AskCancel, CloseAfterSave, Calling
  <2> QED BY <2>1, Returned DEF CallsInv, WindowsInUse
<1>1. CASE AskSave
  <2> DEFINE calls == Append(Front(stack), Call("close", w))
  <2>1. w \in Windows /\ docs[w] # Nil /\ docs[w] \in Doc
    BY <1>0, <1>1 DEF AskSave, TypeOK
  <2>2. calls \in Seq(Frame) /\ Append(calls, Call("save_as", w)) \in Seq(Frame)
    BY <1>0, CallType, Returned, AppendProperties
  <2>3. CASE docs[w].file = Nil
    BY <1>1, <2>2, <2>3 DEF AskSave, TypeOK, Windows
  <2>4. CASE docs[w].file # Nil
    <3>1. docs[w].file \in File /\ "shared" \in Cause
      BY <2>1, <2>4 DEF Doc, Cause
    <3>2. CASE SaveOk(w, docs[w].file, "shared") /\ saved_flag' = TRUE
      BY <1>1, <2>1, <2>2, <2>4, <3>1, <3>2, Saved, ZenonT(30) DEF AskSave, TypeOK, Windows
    <3>3. CASE SaveFail(w, docs[w].file) /\ saved_flag' = FALSE
      BY <1>1, <2>1, <2>2, <2>4, <3>1, <3>3, NotSaved DEF AskSave, TypeOK, Windows
    <3> QED BY <1>1, <2>4, <3>2, <3>3 DEF AskSave
  <2> QED BY <2>3, <2>4
<1>2. CASE AskDiscard
  <2>1. w \in Windows /\ docs[w] \in Doc
    BY <1>0, <1>2 DEF AskDiscard, TypeOK
  <2>2. excused' \subseteq Token \X Cause
    BY <1>2, <2>1 DEF AskDiscard, TypeOK, Doc, Cause
  <2> QED BY <1>0, <1>2, <2>1, <2>2, Destroyed, Returned DEF AskDiscard, TypeOK
<1>3. CASE AskCancel
  BY <1>0, <1>3, Returned DEF AskCancel, Keep, TypeOK, Windows
<1>4. CASE CloseAfterSave
  <2>1. CASE saved_flag
    <3>1. w \in Windows /\ DestroyWindow(w)
      BY <1>4, <2>1 DEF CloseAfterSave, CallsInv, SavedIsClean
    <3> QED BY <1>0, <1>4, <2>1, <3>1, Destroyed, Returned DEF CloseAfterSave, TypeOK
  <2>2. CASE ~saved_flag
    BY <1>0, <1>4, <2>2, Returned DEF CloseAfterSave, Keep, TypeOK, Windows
  <2> QED BY <2>1, <2>2
<1> QED BY <1>1, <1>2, <1>3, <1>4

\* The window after w: another one that is there, or none.
LEMMA NextWindowProperties ==
  ASSUME TypeOK, NEW w \in Windows
  PROVE  /\ NextWindow(w) \in (Windows \ {w}) \cup {Nil}
         /\ NextWindow(w) = Nil => \A v \in Windows \ {w} : Precedes(window_list, v, w)
         /\ NextWindow(w) # Nil => \A v \in Windows \ {w} :
              Precedes(window_list, v, NextWindow(w)) => Precedes(window_list, v, w)
<1> DEFINE k == Node(w)
<1>0. /\ Len(window_list) \in Nat
      /\ DOMAIN window_list = 1 .. Len(window_list)
      /\ \A i \in 1 .. Len(window_list) : window_list[i] \in Windows
      /\ Windows \subseteq Win
      /\ k \in 1 .. Len(window_list)
      /\ window_list[k] = w
      /\ \A a, b \in 1 .. Len(window_list) : window_list[a] = window_list[b] => a = b
  BY NodeProperties
<1>1. Nil \notin Windows
  BY <1>0, SessionAssumption
<1> HIDE DEF k
<1>2. CASE k = Len(window_list)
  <2>1. NextWindow(w) = Nil
    BY <1>2 DEF NextWindow, k
  <2>2. ASSUME NEW v \in Windows \ {w}
        PROVE  Precedes(window_list, v, w)
    <3>1. PICK a \in 1 .. Len(window_list) : window_list[a] = v
      BY <1>0 DEF Windows, Range
    <3>2. a < k
      BY <1>0, <1>2, <3>1
    <3> QED BY <1>0, <3>1, <3>2 DEF Precedes
  <2> QED BY <2>1, <2>2
<1>3. CASE k # Len(window_list)
  <2>1. NextWindow(w) = window_list[k + 1] /\ k + 1 \in 1 .. Len(window_list)
    BY <1>0, <1>3 DEF NextWindow, k
  <2>2. NextWindow(w) \in Windows \ {w}
    BY <1>0, <2>1
  <2>3. ASSUME NEW v \in Windows \ {w}, Precedes(window_list, v, NextWindow(w))
        PROVE  Precedes(window_list, v, w)
    <3>1. PICK a \in 1 .. Len(window_list), b \in 1 .. Len(window_list) :
            a < b /\ window_list[a] = v /\ window_list[b] = NextWindow(w)
      BY <1>0, <2>3 DEF Precedes
    <3>2. b = k + 1
      BY <1>0, <2>1, <3>1
    <3>3. a < k
      BY <1>0, <3>1, <3>2
    <3> QED BY <1>0, <3>1, <3>3 DEF Precedes
  <2> QED BY <1>1, <2>2, <2>3
<1> QED BY <1>2, <1>3

\* The steps of gb_file_exit keep the types.
LEMMA ExitType ==
  ASSUME SessionInv, FileExit \/ ClientDie \/ ExitNext \/ ExitDone
  PROVE  TypeInv'
<1> USE DEF SessionInv, TypeInv
<1>1. ASSUME StartExit
      PROVE  stack' \in Seq(Frame)
  <2> DEFINE first == IF window_list = <<>> THEN Nil ELSE Head(window_list)
  <2>1. first \in Win \cup {Nil}
    <3>1. CASE window_list = <<>>
      BY <3>1
    <3>2. CASE window_list # <<>>
      BY <3>2, HeadTailProperties DEF TypeOK
    <3> QED BY <3>1, <3>2
  <2> HIDE DEF first
  <2>2. stack' = Append(stack, Call("exit", first))
    BY <1>1 DEF StartExit, first
  <2> QED BY <2>1, <2>2, CallType, AppendProperties DEF TypeOK
<1>2. CASE FileExit
  BY <1>1, <1>2 DEF FileExit, StartExit, TypeOK, Windows
<1>3. CASE ClientDie
  <2>1. dies' \in 0 .. MaxDie
    BY <1>3, SessionAssumption DEF ClientDie, TypeOK
  <2> QED BY <1>1, <1>3, <2>1 DEF ClientDie, StartExit, TypeOK, Windows
<1>4. CASE ExitNext
  <2> DEFINE w == Last(stack).win
             calls == Append(Front(stack), Call("exit", NextWindow(w)))
  <2>1. stack # <<>>
    BY <1>4 DEF ExitNext, Calling
  <2>2. CASE w \notin Windows
    BY <1>4, <2>2 DEF ExitNext, TypeOK, Windows, Fatal
  <2>3. CASE w \in Windows
    <3>1. w \in Win /\ NextWindow(w) \in Win \cup {Nil}
      BY <2>3, NodeProperties, NextWindowProperties
    <3>2. calls \in Seq(Frame) /\ Append(calls, Call("ask", w)) \in Seq(Frame)
      BY <2>1, <3>1, CallType, Returned, AppendProperties
    <3>3. CloseWindow(w, calls)
      BY <1>4, <2>3 DEF ExitNext
    <3>4. UNCHANGED <<disk, choosers, saved_flag, dies, kept, made, excused, critical>>
      BY <1>4, <2>3 DEF ExitNext
    <3> HIDE DEF calls, w
    <3>5. CASE NeedsAsk(w)
      BY <3>2, <3>3, <3>4, <3>5 DEF CloseWindow, TypeOK, Windows
    <3>6. CASE ~NeedsAsk(w)
      BY <2>3, <3>2, <3>3, <3>4, <3>6, Destroyed DEF CloseWindow, TypeOK
    <3> QED BY <3>5, <3>6
  <2> QED BY <2>2, <2>3
<1>5. CASE ExitDone
  <2>1. kept' \subseteq Win
    BY <1>5 DEF ExitDone, TypeOK
  <2> QED BY <1>5, <2>1, Returned DEF ExitDone, Calling, TypeOK, Windows
<1> QED BY <1>2, <1>3, <1>4, <1>5

\* Every step keeps the types.
LEMMA TypeStep ==
  ASSUME SessionInv, [Next]_vars
  PROVE  TypeInv'
<1>1. CASE UNCHANGED vars
  BY <1>1 DEF SessionInv, TypeInv, TypeOK, Windows, vars
<1>2. CASE Next
  BY <1>2, WindowType, ChooserType, SaveAsType, AskType, ExitType DEF Next
<1> QED BY <1>1, <1>2

---------------------------------------------------------------------------
(* The unfinished calls.                                                   *)

\* A call on top of a stack.
LEMMA PushProperties ==
  ASSUME NEW s \in Seq(Frame), NEW e \in Frame
  PROVE  /\ Append(s, e) \in Seq(Frame)
         /\ Append(s, e) # <<>>
         /\ Len(s) \in Nat
         /\ DOMAIN s = 1 .. Len(s)
         /\ Len(Append(s, e)) = Len(s) + 1
         /\ DOMAIN Append(s, e) = 1 .. Len(s) + 1
         /\ \A i \in 1 .. Len(s) : Append(s, e)[i] = s[i]
         /\ Append(s, e)[Len(s) + 1] = e
         /\ Last(Append(s, e)) = e
<1>1. /\ Append(s, e) \in Seq(Frame)
      /\ Append(s, e) # <<>>
      /\ Len(Append(s, e)) = Len(s) + 1
      /\ \A i \in 1 .. Len(s) : Append(s, e)[i] = s[i]
      /\ Append(s, e)[Len(s) + 1] = e
  BY AppendProperties
<1>2. Len(s) \in Nat /\ DOMAIN s = 1 .. Len(s)
  BY LenProperties
<1>3. DOMAIN Append(s, e) = 1 .. Len(Append(s, e))
  BY <1>1, LenProperties
<1> QED BY <1>1, <1>2, <1>3 DEF Last

\* A call in the place of the one on top of a stack.
LEMMA SwapProperties ==
  ASSUME NEW s \in Seq(Frame), s # <<>>, NEW e \in Frame
  PROVE  /\ Append(Front(s), e) \in Seq(Frame)
         /\ Append(Front(s), e) # <<>>
         /\ Len(s) \in Nat \ {0}
         /\ DOMAIN s = 1 .. Len(s)
         /\ Len(Append(Front(s), e)) = Len(s)
         /\ DOMAIN Append(Front(s), e) = 1 .. Len(s)
         /\ \A i \in 1 .. Len(s) - 1 : Append(Front(s), e)[i] = s[i]
         /\ Append(Front(s), e)[Len(s)] = e
         /\ Last(Append(Front(s), e)) = e
<1>1. /\ Front(s) \in Seq(Frame)
      /\ Len(s) \in Nat \ {0}
      /\ Len(Front(s)) = Len(s) - 1
      /\ \A i \in 1 .. Len(s) - 1 : Front(s)[i] = s[i]
      /\ DOMAIN s = 1 .. Len(s)
  BY FrontProperties
<1> QED BY <1>1, PushProperties

\* The windows of unfinished calls that are still there keep their documents.
Settled ==
  /\ Windows' \subseteq Windows
  /\ \A v \in Windows' : docs[v] # Nil => docs'[v] # Nil

\* Nothing is known of an empty stack.
LEMMA NoCalls ==
  ASSUME stack' = <<>>
  PROVE  CallsInv' /\ CallsHaveWindows' /\ LoneCalls' /\ PassedHandled'
<1>1. DOMAIN stack' = {}
  OBVIOUS
<1> QED BY <1>1 DEF CallsInv, WindowsInUse, SaveAsOverClose, SavedIsClean, Calling,
                    CallsHaveWindows, LoneCalls, PassedHandled

\* Below anything but a Save As chooser there is no close.
LEMMA BelowOthers ==
  ASSUME TypeOK, SaveAsOverClose, stack # <<>>, Last(stack).op # "save_as"
  PROVE  \A i \in DOMAIN stack : i + 1 = Len(stack) => stack[i].op # "close"
<1>1. \A i \in DOMAIN stack : i + 1 = Len(stack) /\ stack[i].op = "close" =>
        Last(stack) = Call("save_as", stack[i].win)
  BY Returned DEF SaveAsOverClose
<1> QED BY <1>1 DEF Call

\* The innermost call returns.
LEMMA PopCalls ==
  ASSUME SessionInv, Settled, stack # <<>>, stack' = Front(stack),
         Last(stack).op = "save_as" /\ saved_flag' =>
           Last(stack).win \in Windows' /\ ~docs'[Last(stack).win].modified
  PROVE  CallsInv'
<1> USE DEF SessionInv, TypeInv, CallsInv
<1>0. /\ Len(stack) \in Nat \ {0}
      /\ DOMAIN stack = 1 .. Len(stack)
      /\ DOMAIN stack' = 1 .. Len(stack) - 1
      /\ Len(stack') = Len(stack) - 1
      /\ \A i \in 1 .. Len(stack) - 1 : stack'[i] = stack[i]
      /\ Last(stack) = stack[Len(stack)]
  BY Returned
<1>1. WindowsInUse'
  BY <1>0 DEF WindowsInUse, Settled
<1>2. SaveAsOverClose'
  BY <1>0 DEF SaveAsOverClose
<1>3. SavedIsClean'
  <2> SUFFICES ASSUME Calling("close")', saved_flag'
               PROVE  Last(stack').win \in Windows' /\ ~docs'[Last(stack').win].modified
    BY DEF SavedIsClean
  <2> DEFINE i == Len(stack) - 1
  <2>1. i \in 1 .. Len(stack) - 1 /\ Last(stack') = stack[i] /\ stack[i].op = "close"
    <3>1. stack' # <<>> /\ Last(stack').op = "close"
      BY DEF Calling
    <3>2. stack' \in Seq(Frame)
      BY Returned
    <3>3. Len(stack') \in Nat \ {0}
      BY <3>1, <3>2, EmptySeq
    <3> QED BY <1>0, <3>1, <3>3 DEF Last
  <2>2. Last(stack) = Call("save_as", stack[i].win)
    BY <1>0, <2>1 DEF SaveAsOverClose
  <2> QED BY <2>1, <2>2 DEF Call
<1> QED BY <1>1, <1>2, <1>3

\* A new call on top.
LEMMA PushCalls ==
  ASSUME TypeOK, WindowsInUse, SaveAsOverClose, Settled,
         NEW s \in Seq(Frame),
         \A i \in 1 .. Len(s) : s[i].op # "exit" =>
           s[i].win \in Win /\ (s[i].win \in Windows' => docs'[s[i].win] # Nil),
         \A i \in 1 .. Len(s) - 1 : s[i].op = "close" =>
           s[i + 1] = Call("save_as", s[i].win),
         NEW op \in {"exit", "ask", "close", "save_as"}, NEW w \in Win \cup {Nil},
         op # "exit" => w \in Win /\ (w \in Windows' => docs'[w] # Nil),
         op = "close" /\ saved_flag' => w \in Windows' /\ ~docs'[w].modified,
         s # <<>> /\ s[Len(s)].op = "close" => Call(op, w) = Call("save_as", s[Len(s)].win),
         stack' = Append(s, Call(op, w))
  PROVE  CallsInv'
<1> DEFINE e == Call(op, w)
<1>0. /\ Len(s) \in Nat
      /\ DOMAIN stack' = 1 .. Len(s) + 1
      /\ Len(stack') = Len(s) + 1
      /\ \A i \in 1 .. Len(s) : stack'[i] = s[i]
      /\ stack'[Len(s) + 1] = e
      /\ Last(stack') = e
      /\ Len(s) # 0 => s # <<>>
  BY CallType, PushProperties, EmptySeq
<1>1. e.op = op /\ e.win = w
  BY DEF Call
<1>2. s # <<>> /\ s[Len(s)].op = "close" => e = Call("save_as", s[Len(s)].win)
  OBVIOUS
<1> HIDE DEF e
<1>3. WindowsInUse'
  BY <1>0, <1>1 DEF WindowsInUse
<1>4. SaveAsOverClose'
  <2> SUFFICES ASSUME NEW i \in 1 .. Len(s), stack'[i].op = "close"
               PROVE  stack'[i + 1] = Call("save_as", stack'[i].win)
    BY <1>0 DEF SaveAsOverClose
  <2>1. CASE i = Len(s)
    BY <1>0, <1>2, <2>1
  <2>2. CASE i # Len(s)
    <3>1. i \in 1 .. Len(s) - 1 /\ i + 1 \in 1 .. Len(s)
      BY <1>0, <2>2
    <3> QED BY <1>0, <3>1
  <2> QED BY <2>1, <2>2
<1>5. SavedIsClean'
  BY <1>0, <1>1 DEF SavedIsClean, Calling
<1> QED BY <1>3, <1>4, <1>5 DEF CallsInv

\* A call in the place of the innermost one.
LEMMA SwapCalls ==
  ASSUME SessionInv, Settled, stack # <<>>, Last(stack).op # "save_as",
         NEW op \in {"exit", "ask", "close", "save_as"}, NEW w \in Win \cup {Nil},
         op # "exit" => w \in Win /\ (w \in Windows' => docs'[w] # Nil),
         op = "close" /\ saved_flag' => w \in Windows' /\ ~docs'[w].modified,
         stack' = Append(Front(stack), Call(op, w))
  PROVE  CallsInv'
<1> USE DEF SessionInv, TypeInv, CallsInv
<1> DEFINE s == Front(stack)
<1>0. /\ s \in Seq(Frame)
      /\ Len(stack) \in Nat \ {0}
      /\ DOMAIN stack = 1 .. Len(stack)
      /\ Len(s) = Len(stack) - 1
      /\ \A i \in 1 .. Len(s) : s[i] = stack[i]
      /\ s # <<>> => Len(s) \in Nat \ {0}
  BY Returned, EmptySeq
<1>1. stack' = Append(s, Call(op, w))
  OBVIOUS
<1> HIDE DEF s
<1>2. \A i \in 1 .. Len(s) : s[i].op # "exit" =>
        s[i].win \in Win /\ (s[i].win \in Windows' => docs'[s[i].win] # Nil)
  BY <1>0, SMTT(30) DEF WindowsInUse, Settled
<1>3. \A i \in 1 .. Len(s) - 1 : s[i].op = "close" => s[i + 1] = Call("save_as", s[i].win)
  <2>1. \A n \in Nat : \A i \in 1 .. n - 1 : i \in 1 .. n /\ i + 1 \in 1 .. n
    OBVIOUS
  <2>2. Len(s) \in Nat
    BY <1>0
  <2> SUFFICES ASSUME NEW i \in 1 .. Len(s) - 1, s[i].op = "close"
               PROVE  s[i + 1] = Call("save_as", s[i].win)
    OBVIOUS
  <2>3. i \in 1 .. Len(s) /\ i + 1 \in 1 .. Len(s)
    BY <2>1, <2>2
  <2>4. i \in DOMAIN stack /\ i < Len(stack)
    BY <1>0, <2>3
  <2>5. stack[i + 1] = Call("save_as", stack[i].win)
    BY <1>0, <2>3, <2>4 DEF SaveAsOverClose
  <2> QED BY <1>0, <2>3, <2>5
<1>4. s # <<>> => s[Len(s)].op # "close"
  <2> SUFFICES ASSUME s # <<>>
               PROVE  s[Len(s)].op # "close"
    OBVIOUS
  <2>1. Len(s) \in 1 .. Len(s) /\ Len(s) \in DOMAIN stack /\ Len(s) + 1 = Len(stack)
    BY <1>0
  <2>2. stack[Len(s)].op # "close"
    BY <2>1, BelowOthers
  <2> QED BY <1>0, <2>1, <2>2
<1> QED BY <1>0, <1>1, <1>2, <1>3, <1>4, PushCalls

\* The first call of all.
LEMMA FirstCall ==
  ASSUME SessionInv, UNCHANGED <<window_list, docs>>, stack = <<>>,
         NEW op \in {"exit", "ask", "save_as"}, NEW w \in Win \cup {Nil},
         op # "exit" => w \in Win /\ docs[w] # Nil,
         stack' = Append(stack, Call(op, w))
  PROVE  CallsInv'
<1> USE DEF SessionInv, TypeInv, CallsInv
<1>1. stack \in Seq(Frame) /\ Len(stack) = 0
  BY EmptySeq DEF TypeOK
<1>2. Settled /\ docs' = docs
  BY DEF Settled, Windows
<1>3. 1 .. Len(stack) = {} /\ 1 .. Len(stack) - 1 = {}
  BY <1>1
<1>4. op # "close"
  OBVIOUS
<1> DEFINE s == stack
<1>5. /\ s \in Seq(Frame) /\ s = <<>> /\ 1 .. Len(s) = {} /\ 1 .. Len(s) - 1 = {}
      /\ stack' = Append(s, Call(op, w))
  BY <1>1, <1>3
<1> HIDE DEF s
<1> QED BY <1>2, <1>4, <1>5, PushCalls

\* Destroying a window settles the calls of the others.
LEMMA DestroyedSettled ==
  ASSUME TypeOK, NEW w \in Windows, DestroyWindow(w)
  PROVE  Settled
<1>1. Windows \subseteq Win
  BY NodeProperties
<1>2. Windows' = Windows \ {w} /\ \A v \in Win \ {w} : docs'[v] = docs[v]
  BY Destroyed
<1> QED BY <1>1, <1>2 DEF Settled

\* So does saving, or failing to save, its document.
LEMMA SavedSettled ==
  ASSUME TypeOK, NEW w \in Windows, docs[w] # Nil, NEW f \in File,
         UNCHANGED window_list,
         SaveFail(w, f) \/ \E cause \in Cause : SaveOk(w, f, cause)
  PROVE  Settled
<1>1. Windows' = Windows /\ Windows \subseteq Win
  BY NodeProperties DEF Windows
<1>2. CASE SaveFail(w, f)
  BY <1>1, <1>2 DEF SaveFail, Settled
<1>3. CASE \E cause \in Cause : SaveOk(w, f, cause)
  <2>1. docs'[w] # Nil /\ \A v \in Win \ {w} : docs'[v] = docs[v]
    BY <1>3, Saved
  <2> QED BY <1>1, <2>1 DEF Settled
<1> QED BY <1>2, <1>3

\* Answers to the Save As chooser keep what is known of the calls.
LEMMA SaveAsCalls ==
  ASSUME SessionInv,
         \/ \E f \in File : \E answer \in {"agreed", "dismissed"} : SaveAsAccept(f, answer)
         \/ SaveAsTooLate
         \/ SaveAsCancel
  PROVE  CallsInv'
<1> USE DEF SessionInv, TypeInv, CallsInv
<1> DEFINE w == Last(stack).win
<1>0. /\ stack # <<>>
      /\ Last(stack).op = "save_as"
      /\ w \in Win
      /\ w \in Windows => docs[w] # Nil
      /\ UNCHANGED window_list
      /\ Windows' = Windows
  <2>1. stack # <<>> /\ Last(stack).op = "save_as" /\ UNCHANGED window_list
    BY DEF SaveAsAccept, SaveAsTooLate, SaveAsCancel, Calling
  <2> QED BY <2>1, Returned DEF WindowsInUse, Windows
<1>1. ASSUME NEW f \in File, NEW answer \in {"agreed", "dismissed"}, SaveAsAccept(f, answer)
      PROVE  CallsInv'
  <2>1. answer \in Cause /\ w \in Windows
    BY <1>1 DEF SaveAsAccept, Cause
  <2>2. CASE SaveOk(w, f, answer) /\ saved_flag' = TRUE /\ stack' = Front(stack)
    <3> HIDE DEF w
    <3>1. Settled
      BY <1>0, <2>1, <2>2, SavedSettled
    <3>2. w \in Windows' /\ ~docs'[w].modified
      BY <1>0, <2>1, <2>2, Saved
    <3> QED BY <1>0, <2>2, <3>1, <3>2, PopCalls DEF w
  <2>3. CASE SaveFail(w, f) /\ UNCHANGED <<saved_flag, stack>>
    <3>1. docs' = docs
      BY <2>3 DEF SaveFail
    <3> QED BY <1>0, <2>3, <3>1 DEF WindowsInUse, SaveAsOverClose, SavedIsClean, Calling
  <2> QED BY <1>1, <2>2, <2>3 DEF SaveAsAccept
<1>2. CASE SaveAsTooLate
  BY <1>0, <1>2 DEF SaveAsTooLate, WindowsInUse, SaveAsOverClose, SavedIsClean, Calling
<1>3. CASE SaveAsCancel
  <2>1. Settled /\ stack' = Front(stack) /\ saved_flag' = FALSE
    BY <1>0, <1>3 DEF SaveAsCancel, Settled
  <2> QED BY <1>0, <2>1, PopCalls
<1> QED BY <1>1, <1>2, <1>3

\* So do the answers to the close question and what follows it.
LEMMA AskCalls ==
  ASSUME SessionInv, AskSave \/ AskDiscard \/ AskCancel \/ CloseAfterSave
  PROVE  CallsInv'
<1> USE DEF SessionInv, TypeInv, CallsInv
<1> DEFINE w == Last(stack).win
<1>0. /\ stack # <<>>
      /\ Last(stack).op \in {"ask", "close"}
      /\ w \in Win
      /\ w \in Windows => docs[w] # Nil
  <2>1. stack # <<>> /\ Last(stack).op \in {"ask", "close"}
    BY DEF AskSave, AskDiscard, AskCancel, CloseAfterSave, Calling
  <2> QED BY <2>1, Returned DEF WindowsInUse
<1>1. CASE AskSave
  <2> DEFINE calls == Append(Front(stack), Call("close", w))
  <2>0. w \in Windows /\ docs[w] # Nil /\ docs[w] \in Doc /\ UNCHANGED window_list
    BY <1>0, <1>1 DEF AskSave, TypeOK
  <2>1. Windows' = Windows
    BY <2>0 DEF Windows
  <2>2. CASE docs[w].file = Nil
    <3>1. stack' = Append(calls, Call("save_as", w)) /\ docs' = docs /\ saved_flag' = saved_flag
      BY <1>1, <2>2 DEF AskSave
    <3>2. Settled
      BY <2>1, <3>1 DEF Settled
    <3>3. /\ calls \in Seq(Frame)
          /\ Len(calls) = Len(stack)
          /\ Len(stack) \in Nat \ {0}
          /\ DOMAIN stack = 1 .. Len(stack)
          /\ \A i \in 1 .. Len(stack) - 1 : calls[i] = stack[i]
          /\ calls[Len(stack)] = Call("close", w)
          /\ calls # <<>>
      BY <1>0, CallType, SwapProperties DEF TypeOK
    <3> HIDE DEF calls, w
    <3>4. \A i \in 1 .. Len(calls) : calls[i].op # "exit" =>
            calls[i].win \in Win /\ (calls[i].win \in Windows' => docs'[calls[i].win] # Nil)
      <4> SUFFICES ASSUME NEW i \in 1 .. Len(calls), calls[i].op # "exit"
                   PROVE  calls[i].win \in Win /\ (calls[i].win \in Windows' => docs'[calls[i].win] # Nil)
        OBVIOUS
      <4>1. CASE i = Len(calls)
        BY <1>0, <2>0, <3>1, <3>3, <4>1 DEF Call
      <4>2. CASE i # Len(calls)
        <5>1. i \in 1 .. Len(stack) - 1 /\ i \in DOMAIN stack
          BY <3>3, <4>2
        <5>2. calls[i] = stack[i]
          BY <3>3, <5>1
        <5> QED BY <2>1, <3>1, <5>1, <5>2 DEF WindowsInUse
      <4> QED BY <4>1, <4>2
    <3>5. \A i \in 1 .. Len(calls) - 1 : calls[i].op = "close" =>
            calls[i + 1] = Call("save_as", calls[i].win)
      <4> SUFFICES ASSUME NEW i \in 1 .. Len(calls) - 1, calls[i].op = "close"
                   PROVE  calls[i + 1] = Call("save_as", calls[i].win)
        OBVIOUS
      <4>1. i \in 1 .. Len(stack) - 1 /\ i \in DOMAIN stack /\ i < Len(stack)
        BY <3>3
      <4>2. stack[i].op = "close"
        BY <3>3, <4>1
      <4>3. i + 1 # Len(stack)
        BY <1>0, <4>1, <4>2, BelowOthers
      <4>4. i + 1 \in 1 .. Len(stack) - 1
        BY <3>3, <4>1, <4>3
      <4>5. stack[i + 1] = Call("save_as", stack[i].win)
        BY <4>1, <4>2 DEF SaveAsOverClose
      <4> QED BY <3>3, <4>1, <4>4, <4>5
    <3>6. Call("save_as", w) = Call("save_as", calls[Len(calls)].win)
      BY <3>3 DEF Call
    <3> QED BY <1>0, <2>0, <3>1, <3>2, <3>3, <3>4, <3>5, <3>6, PushCalls
  <2>3. CASE docs[w].file # Nil
    <3>1. docs[w].file \in File /\ "shared" \in Cause
      BY <2>0, <2>3 DEF Doc, Cause
    <3>2. stack' = calls
      BY <1>1, <2>3 DEF AskSave
    <3> HIDE DEF w
    <3>3. CASE SaveOk(w, docs[w].file, "shared") /\ saved_flag' = TRUE
      <4>1. Settled
        BY <2>0, <3>1, <3>3, SavedSettled
      <4>2. ~docs'[w].modified /\ docs'[w] # Nil
        BY <2>0, <3>1, <3>3, Saved
      <4> QED BY <1>0, <2>0, <2>1, <3>2, <4>1, <4>2, SwapCalls
    <3>4. CASE SaveFail(w, docs[w].file) /\ saved_flag' = FALSE
      <4>1. Settled
        BY <2>0, <3>1, <3>4, SavedSettled
      <4>2. docs' = docs
        BY <3>4 DEF SaveFail
      <4> QED BY <1>0, <2>0, <2>1, <3>2, <3>4, <4>1, <4>2, SwapCalls
    <3> QED BY <1>1, <2>3, <3>3, <3>4 DEF AskSave, w
  <2> QED BY <2>2, <2>3
<1>2. CASE AskDiscard
  <2>1. w \in Windows /\ DestroyWindow(w) /\ stack' = Front(stack)
    BY <1>2 DEF AskDiscard
  <2> QED BY <1>0, <2>1, DestroyedSettled, PopCalls
<1>3. CASE AskCancel
  <2>1. Settled /\ stack' = Front(stack)
    BY <1>3 DEF AskCancel, Settled, Windows
  <2> QED BY <1>0, <2>1, PopCalls
<1>4. CASE CloseAfterSave
  <2>1. stack' = Front(stack)
    BY <1>4 DEF CloseAfterSave
  <2>2. CASE saved_flag
    <3>1. w \in Windows /\ DestroyWindow(w)
      BY <1>4, <2>2 DEF CloseAfterSave, SavedIsClean
    <3> QED BY <1>0, <2>1, <3>1, DestroyedSettled, PopCalls
  <2>3. CASE ~saved_flag
    <3>1. Settled
      BY <1>4, <2>3 DEF CloseAfterSave, Settled, Windows
    <3> QED BY <1>0, <2>1, <3>1, PopCalls
  <2> QED BY <2>2, <2>3
<1> QED BY <1>1, <1>2, <1>3, <1>4

\* So do the steps of gb_file_exit.
LEMMA ExitCalls ==
  ASSUME SessionInv, FileExit \/ ClientDie \/ ExitNext \/ ExitDone
  PROVE  CallsInv'
<1> USE DEF SessionInv, TypeInv, CallsInv
<1>1. ASSUME StartExit, stack # <<>> => Last(stack).op # "close"
      PROVE  CallsInv'
  <2> DEFINE first == IF window_list = <<>> THEN Nil ELSE Head(window_list)
  <2>1. first \in Win \cup {Nil}
    <3>1. CASE window_list = <<>>
      BY <3>1
    <3>2. CASE window_list # <<>>
      BY <3>2, HeadTailProperties DEF TypeOK
    <3> QED BY <3>1, <3>2
  <2>2. Settled /\ docs' = docs /\ Windows' = Windows /\ stack' = Append(stack, Call("exit", first))
    BY <1>1 DEF StartExit, Settled, Windows
  <2> HIDE DEF first
  <2>3. stack \in Seq(Frame) /\ Len(stack) \in Nat /\ DOMAIN stack = 1 .. Len(stack)
    BY LenProperties DEF TypeOK
  <2> DEFINE s == stack
  <2>4. /\ s \in Seq(Frame)
        /\ \A i \in 1 .. Len(s) : s[i].op # "exit" =>
             s[i].win \in Win /\ (s[i].win \in Windows' => docs'[s[i].win] # Nil)
        /\ stack' = Append(s, Call("exit", first))
    BY <2>2, <2>3 DEF WindowsInUse
  <2>5. \A i \in 1 .. Len(s) - 1 : s[i].op = "close" => s[i + 1] = Call("save_as", s[i].win)
    BY <2>3 DEF SaveAsOverClose
  <2>6. ~(s # <<>> /\ s[Len(s)].op = "close")
    BY <1>1 DEF Last
  <2> HIDE DEF s
  <2> QED BY <2>1, <2>2, <2>4, <2>5, <2>6, PushCalls
<1>2. CASE FileExit
  BY <1>1, <1>2 DEF FileExit, Idle
<1>3. CASE ClientDie
  BY <1>1, <1>3 DEF ClientDie, Idle, Calling
<1>4. CASE ExitNext
  <2> DEFINE w == Last(stack).win
             n == NextWindow(w)
             calls == Append(Front(stack), Call("exit", n))
  <2>0. stack # <<>> /\ Last(stack).op = "exit"
    BY <1>4 DEF ExitNext, Calling
  <2>1. CASE w \notin Windows
    BY <1>4, <2>1 DEF ExitNext, WindowsInUse, SaveAsOverClose, SavedIsClean, Calling, Windows
  <2>2. CASE w \in Windows
    <3>1. w \in Win /\ n \in Win \cup {Nil}
      BY <2>2, NodeProperties, NextWindowProperties
    <3>2. CloseWindow(w, calls)
      BY <1>4, <2>2 DEF ExitNext
    <3> HIDE DEF n
    <3>3. CASE NeedsAsk(w)
      <4>1. stack' = Append(calls, Call("ask", w)) /\ docs' = docs /\ Windows' = Windows
        BY <3>2, <3>3 DEF CloseWindow, Windows
      <4>2. Settled
        BY <4>1 DEF Settled
      <4>3. docs[w] # Nil
        BY <2>2, <3>3 DEF NeedsAsk, IsEmpty
      <4>4. /\ calls \in Seq(Frame)
            /\ Len(calls) = Len(stack)
            /\ Len(stack) \in Nat \ {0}
            /\ DOMAIN stack = 1 .. Len(stack)
            /\ \A i \in 1 .. Len(stack) - 1 : calls[i] = stack[i]
            /\ calls[Len(stack)] = Call("exit", n)
            /\ calls # <<>>
        BY <2>0, <3>1, CallType, SwapProperties, ZenonT(60) DEF TypeOK
      <4>5. Call("exit", n).op = "exit"
        BY DEF Call
      <4> HIDE DEF calls
      <4>6. \A i \in 1 .. Len(calls) : calls[i].op # "exit" =>
              calls[i].win \in Win /\ (calls[i].win \in Windows' => docs'[calls[i].win] # Nil)
        <5> SUFFICES ASSUME NEW i \in 1 .. Len(calls), calls[i].op # "exit"
                     PROVE  calls[i].win \in Win /\ (calls[i].win \in Windows' => docs'[calls[i].win] # Nil)
          OBVIOUS
        <5>1. i \in 1 .. Len(stack) - 1 /\ i \in DOMAIN stack
          BY <4>4, <4>5
        <5>2. calls[i] = stack[i]
          BY <4>4, <5>1
        <5> QED BY <4>1, <5>1, <5>2 DEF WindowsInUse
      <4>7. \A i \in 1 .. Len(calls) - 1 : calls[i].op = "close" =>
              calls[i + 1] = Call("save_as", calls[i].win)
        <5> SUFFICES ASSUME NEW i \in 1 .. Len(calls) - 1, calls[i].op = "close"
                     PROVE  calls[i + 1] = Call("save_as", calls[i].win)
          OBVIOUS
        <5>1. i \in 1 .. Len(stack) - 1 /\ i \in DOMAIN stack /\ i < Len(stack)
          BY <4>4
        <5>2. stack[i].op = "close"
          BY <4>4, <5>1
        <5>3. i + 1 # Len(stack)
          BY <2>0, <5>1, <5>2, BelowOthers
        <5>4. i + 1 \in 1 .. Len(stack) - 1
          BY <4>4, <5>1, <5>3
        <5>5. stack[i + 1] = Call("save_as", stack[i].win)
          BY <5>1, <5>2 DEF SaveAsOverClose
        <5> QED BY <4>4, <5>1, <5>4, <5>5
      <4>8. calls[Len(calls)].op # "close"
        BY <4>4, <4>5
      <4> QED BY <3>1, <4>1, <4>2, <4>3, <4>4, <4>6, <4>7, <4>8, PushCalls
    <3>4. CASE ~NeedsAsk(w)
      <4>1. DestroyWindow(w) /\ stack' = calls
        BY <3>2, <3>4 DEF CloseWindow
      <4>2. Settled
        BY <2>2, <4>1, DestroyedSettled
      <4> QED BY <2>0, <3>1, <4>1, <4>2, SwapCalls
    <3> QED BY <3>3, <3>4
  <2> QED BY <2>1, <2>2
<1>5. CASE ExitDone
  <2>1. Settled /\ stack' = Front(stack) /\ stack # <<>> /\ Last(stack).op = "exit"
    BY <1>5 DEF ExitDone, Settled, Windows, Calling
  <2> QED BY <2>1, PopCalls
<1> QED BY <1>2, <1>3, <1>4, <1>5

\* A step of a window's menu makes the first call, if any.
LEMMA WindowCalls ==
  ASSUME SessionInv, NEW w \in Windows, WindowNext(w)
  PROVE  CallsInv'
<1> USE DEF SessionInv, TypeInv
<1>0. stack = <<>> /\ w \in Win
  BY NodeProperties DEF WindowNext, FileNew, ShowChooser, OpenRecent, EditDoc, FileSave,
                        FileSaveAs, FileClose, Idle
<1>1. CASE stack' = <<>>
  BY <1>1, NoCalls
<1>2. CASE stack' # <<>>
  <2>1. FileSave(w) \/ FileSaveAs(w) \/ FileClose(w)
    BY <1>0, <1>2 DEF WindowNext, FileNew, ShowChooser, OpenRecent, EditDoc
  <2>2. /\ UNCHANGED <<window_list, docs>>
        /\ docs[w] # Nil
        /\ stack' = Append(stack, Call("save_as", w)) \/ stack' = Append(stack, Call("ask", w))
    BY <1>0, <1>2, <2>1 DEF FileSave, FileSaveAs, FileClose, CloseWindow, NeedsAsk, IsEmpty
  <2> QED BY <1>0, <2>2, FirstCall
<1> QED BY <1>1, <1>2

\* Every step keeps what is known of the calls.
LEMMA CallsStep ==
  ASSUME SessionInv, [Next]_vars
  PROVE  CallsInv'
<1>1. CASE UNCHANGED vars
  BY <1>1 DEF SessionInv, CallsInv, WindowsInUse, SaveAsOverClose, SavedIsClean, Calling,
              Windows, vars
<1>2. CASE Next
  <2>1. ASSUME NEW c \in choosers, ChooserAccept(c) \/ ChooserCancel(c)
        PROVE  CallsInv'
    <3>1. stack' = <<>>
      BY <2>1 DEF ChooserAccept, ChooserCancel, Idle
    <3> QED BY <3>1, NoCalls
  <2> QED BY <1>2, <2>1, WindowCalls, SaveAsCalls, AskCalls, ExitCalls DEF Next
<1> QED BY <1>1, <1>2

---------------------------------------------------------------------------
(* Edits.                                                                  *)

\* What both properties look at.
editVars == <<window_list, docs, disk, made, excused>>

EditInv == EmptyHasNoEdits /\ EditsAccounted

\* Nothing they look at changes.
LEMMA SameEdits ==
  ASSUME EditInv, UNCHANGED editVars
  PROVE  EditInv'
BY DEF EditInv, editVars, EmptyHasNoEdits, EditsAccounted, IsEmpty, Safe, Stored, Windows

\* One document changes, or its window opens or goes.
LEMMA OneDocument ==
  ASSUME TypeOK, EmptyHasNoEdits, NEW u \in Win, Windows' \subseteq Win,
         \A v \in Win \ {u} : docs'[v] = docs[v],
         docs'[u] # Nil /\ docs'[u].file = Nil /\ ~docs'[u].modified =>
           docs'[u].content \cap Edit = {}
  PROVE  EmptyHasNoEdits'
<1> SUFFICES ASSUME NEW v \in Windows', docs'[v] # Nil, IsEmpty(v)'
             PROVE  docs'[v].content \cap Edit = {}
  BY DEF EmptyHasNoEdits
<1>1. docs'[v].file = Nil /\ ~docs'[v].modified /\ v \in Win
  BY DEF IsEmpty
<1>2. CASE v = u
  BY <1>1, <1>2
<1>3. CASE v # u
  <2>1. docs'[v] = docs[v] /\ v \in Windows
    BY <1>1, <1>3 DEF TypeOK
  <2> QED BY <1>1, <2>1 DEF EmptyHasNoEdits, IsEmpty
<1> QED BY <1>2, <1>3

\* A document takes the place of one that counts as empty, or a new one: no
\* edit was there to be lost.
LEMMA PlaceEdits ==
  ASSUME TypeOK, EditInv, NEW w \in Windows, NEW doc \in Doc, PlaceDoc(w, doc),
         doc.file = Nil => doc.content \cap Edit = {},
         UNCHANGED <<disk, excused>>, made' \cap Edit = made \cap Edit
  PROVE  EditInv'
<1> DEFINE clean == [doc EXCEPT !.modified = FALSE]
<1>1. PICK u \in Windows' : IsEmpty(u) /\ docs' = [docs EXCEPT ![u] = clean]
  BY Placed
<1>2. Windows \subseteq Windows' /\ window_list' \in Seq(Win) /\ docs \in [Win -> Doc \cup {Nil}]
  BY Placed DEF TypeOK
<1>3. Windows' \subseteq Win
  <2>1. /\ DOMAIN window_list' = 1 .. Len(window_list')
        /\ \A i \in 1 .. Len(window_list') : window_list'[i] \in Win
    BY <1>2, LenProperties, ElementOfSeq
  <2> QED BY <2>1 DEF Windows, Range
<1>4. clean.file = doc.file /\ clean.content = doc.content
  BY DEF Doc
<1> HIDE DEF clean
<1>5. /\ docs'[u] = clean
      /\ \A v \in Win \ {u} : docs'[v] = docs[v]
  BY <1>1, <1>2, <1>3
<1>6. EmptyHasNoEdits'
  BY <1>3, <1>4, <1>5, OneDocument DEF EditInv
<1>7. EditsAccounted'
  <2> SUFFICES ASSUME NEW e \in made \cap Edit, Safe(e)
               PROVE  Safe(e)'
    BY DEF EditInv, EditsAccounted
  <2>1. ASSUME NEW f \in File, e \in Stored(f)
        PROVE  Safe(e)'
    BY <2>1 DEF Stored, Safe
  <2>2. ASSUME NEW v \in Windows, docs[v] # Nil, docs[v].modified, e \in docs[v].content
        PROVE  Safe(e)'
    <3>1. v # u
      BY <1>1, <2>2 DEF IsEmpty
    <3>2. docs'[v] = docs[v] /\ v \in Windows'
      BY <1>2, <1>3, <1>5, <3>1
    <3> QED BY <2>2, <3>2 DEF Safe
  <2> QED BY <2>1, <2>2 DEF Safe
<1> QED BY <1>6, <1>7 DEF EditInv

\* A window goes whose document is stored, or of which the user said so.
LEMMA DestroyEdits ==
  ASSUME TypeOK, EditInv, NEW w \in Windows, DestroyWindow(w),
         UNCHANGED <<disk, made>>, excused \subseteq excused',
         docs[w] # Nil /\ docs[w].modified =>
           \A e \in docs[w].content :
             (\E f \in File : e \in Stored(f)) \/ <<e, "agreed">> \in excused'
  PROVE  EditInv'
<1>1. Windows' = Windows \ {w} /\ \A v \in Win \ {w} : docs'[v] = docs[v]
  BY Destroyed
<1>2. Windows \subseteq Win
  BY NodeProperties
<1>3. docs'[w] = Nil
  BY <1>2 DEF DestroyWindow, TypeOK
<1>4. EmptyHasNoEdits'
  BY <1>1, <1>2, <1>3, OneDocument DEF EditInv
<1>5. EditsAccounted'
  <2> SUFFICES ASSUME NEW e \in made \cap Edit
               PROVE  Safe(e)' \/ \E cause \in Cause : <<e, cause>> \in excused'
    BY DEF EditsAccounted
  <2>1. ASSUME NEW f \in File, e \in Stored(f)
        PROVE  Safe(e)'
    BY <2>1 DEF Stored, Safe
  <2>2. ASSUME NEW v \in Windows, docs[v] # Nil, docs[v].modified, e \in docs[v].content
        PROVE  Safe(e)' \/ <<e, "agreed">> \in excused'
    <3>1. CASE v = w
      BY <2>1, <2>2, <3>1
    <3>2. CASE v # w
      <4>1. docs'[v] = docs[v] /\ v \in Windows'
        BY <1>1, <1>2, <3>2
      <4> QED BY <2>2, <4>1 DEF Safe
    <3> QED BY <3>1, <3>2
  <2>3. Safe(e) \/ \E cause \in Cause : <<e, cause>> \in excused
    BY DEF EditInv, EditsAccounted
  <2> QED BY <2>1, <2>2, <2>3 DEF Safe, Cause
<1> QED BY <1>4, <1>5 DEF EditInv

\* A save: the edits are in the file now, and what only the file held is
\* excused.
LEMMA SaveEdits ==
  ASSUME TypeOK, EditInv, NEW w \in Windows, docs[w] # Nil, NEW f \in File,
         NEW cause \in Cause, SaveOk(w, f, cause), UNCHANGED <<window_list, made>>
  PROVE  EditInv'
<1>1. /\ \A v \in Win \ {w} : docs'[v] = docs[v]
      /\ docs'[w] # Nil /\ docs'[w].file = f
      /\ Stored(f)' = docs[w].content
      /\ \A g \in File \ {f} : Stored(g)' = Stored(g)
      /\ excused \subseteq excused'
      /\ \A e \in Stored(f) \ docs[w].content : <<e, cause>> \in excused'
  BY Saved
<1>2. Windows \subseteq Win /\ Windows' = Windows
  BY NodeProperties DEF Windows
<1>3. f # Nil
  BY SessionAssumption
<1>4. EmptyHasNoEdits'
  BY <1>1, <1>2, <1>3, OneDocument DEF EditInv
<1>5. EditsAccounted'
  <2> SUFFICES ASSUME NEW e \in made \cap Edit
               PROVE  Safe(e)' \/ \E c \in Cause : <<e, c>> \in excused'
    BY DEF EditsAccounted
  <2>1. ASSUME e \in docs[w].content
        PROVE  Safe(e)'
    BY <1>1, <2>1 DEF Safe
  <2>2. ASSUME NEW g \in File, e \in Stored(g)
        PROVE  Safe(e)' \/ <<e, cause>> \in excused'
    <3>1. CASE g = f
      BY <1>1, <2>1, <2>2, <3>1
    <3>2. CASE g # f
      BY <1>1, <2>2, <3>2 DEF Safe
    <3> QED BY <3>1, <3>2
  <2>3. ASSUME NEW v \in Windows, docs[v] # Nil, docs[v].modified, e \in docs[v].content
        PROVE  Safe(e)'
    <3>1. CASE v = w
      BY <2>1, <2>3, <3>1
    <3>2. CASE v # w
      BY <1>1, <1>2, <2>3, <3>2 DEF Safe
    <3> QED BY <3>1, <3>2
  <2>4. Safe(e) \/ \E c \in Cause : <<e, c>> \in excused
    BY DEF EditInv, EditsAccounted
  <2> QED BY <1>1, <2>2, <2>3, <2>4 DEF Safe
<1> QED BY <1>4, <1>5 DEF EditInv

\* A failed save: the document stays modified, and what only the file held is
\* excused.
LEMMA SaveFailEdits ==
  ASSUME TypeOK, EditInv, NEW w, NEW f \in File, SaveFail(w, f),
         UNCHANGED <<window_list, made>>
  PROVE  EditInv'
<1>1. /\ docs' = docs
      /\ excused \subseteq excused'
      /\ \A g \in File : \A e \in Stored(g) : e \in Stored(g)' \/ <<e, "damaged">> \in excused'
  BY NotSaved
<1>2. Windows' = Windows
  BY DEF Windows
<1>3. EmptyHasNoEdits'
  BY <1>1, <1>2 DEF EditInv, EmptyHasNoEdits, IsEmpty
<1>4. EditsAccounted'
  <2> SUFFICES ASSUME NEW e \in made \cap Edit
               PROVE  Safe(e)' \/ \E c \in Cause : <<e, c>> \in excused'
    BY DEF EditsAccounted
  <2>1. Safe(e) \/ \E c \in Cause : <<e, c>> \in excused
    BY DEF EditInv, EditsAccounted
  <2>2. "damaged" \in Cause
    BY DEF Cause
  <2> QED BY <1>1, <1>2, <2>1, <2>2 DEF Safe
<1> QED BY <1>3, <1>4 DEF EditInv

\* Closing without a question.
LEMMA CloseEdits ==
  ASSUME TypeOK, EditInv, NEW w \in Windows, NEW calls, CloseWindow(w, calls),
         UNCHANGED <<disk, made, excused>>
  PROVE  EditInv'
<1>1. CASE NeedsAsk(w)
  BY <1>1, SameEdits DEF CloseWindow, editVars
<1>2. CASE ~NeedsAsk(w)
  BY <1>2, DestroyEdits DEF CloseWindow, NeedsAsk, IsEmpty
<1> QED BY <1>1, <1>2

\* A step of a window's menu keeps edits accounted for.
LEMMA WindowEdits ==
  ASSUME SessionInv, NEW w \in Windows, WindowNext(w)
  PROVE  EditInv'
<1>0. TypeOK /\ EditInv /\ w \in Win
  BY NodeProperties DEF SessionInv, TypeInv, EditInv
<1>1. CASE FileNew(w)
  <2> DEFINE blank == [file |-> Nil, modified |-> FALSE, content |-> {}]
  <2>1. blank \in Doc /\ blank.content \cap Edit = {}
    BY DEF Doc
  <2>2. PlaceDoc(w, blank)
    BY <1>1 DEF FileNew
  <2> HIDE DEF blank
  <2> QED BY <1>0, <1>1, <2>1, <2>2, PlaceEdits DEF FileNew
<1>2. CASE \E kind \in {"open", "import"} : ShowChooser(kind, w)
  BY <1>0, <1>2, SameEdits DEF ShowChooser, editVars
<1>3. CASE \E f \in File : OpenRecent(f, w)
  <2>1. PICK f \in File : OpenRecent(f, w)
    BY <1>3
  <2> DEFINE doc == [file |-> f, modified |-> FALSE, content |-> disk[f]]
  <2>2. doc \in Doc /\ doc.file # Nil
    BY <1>0, <2>1, SessionAssumption DEF OpenRecent, OpenReal, Doc, TypeOK
  <2>3. PlaceDoc(w, doc)
    BY <2>1 DEF OpenRecent, OpenReal
  <2> HIDE DEF doc
  <2> QED BY <1>0, <2>1, <2>2, <2>3, PlaceEdits DEF OpenRecent
<1>4. CASE \E e \in Edit : EditDoc(w, e)
  <2>1. PICK e \in Edit : EditDoc(w, e)
    BY <1>4
  <2>2. docs[w] \in Doc /\ docs \in [Win -> Doc \cup {Nil}] /\ Windows' = Windows
        /\ Windows \subseteq Win
    BY <1>0, <2>1, NodeProperties DEF EditDoc, TypeOK, Windows
  <2>3. docs' = [docs EXCEPT ![w].content = @ \cup {e}, ![w].modified = TRUE]
    BY <2>1 DEF EditDoc
  <2>4. /\ docs'[w] \in Doc /\ docs'[w].modified = TRUE
        /\ docs'[w].content = docs[w].content \cup {e}
        /\ \A v \in Win \ {w} : docs'[v] = docs[v]
    <3>1. docs'[w] = [docs[w] EXCEPT !.content = @ \cup {e}, !.modified = TRUE]
      BY <1>0, <2>2, <2>3
    <3>2. e \in Token
      BY DEF Token
    <3> QED BY <1>0, <2>2, <2>3, <3>1, <3>2 DEF Doc
  <2>5. EmptyHasNoEdits'
    BY <1>0, <2>2, <2>4, OneDocument DEF EditInv
  <2>6. EditsAccounted'
    <3> SUFFICES ASSUME NEW d \in made' \cap Edit
                 PROVE  Safe(d)' \/ \E c \in Cause : <<d, c>> \in excused'
      BY DEF EditsAccounted
    <3>1. docs'[w] # Nil /\ UNCHANGED <<disk, excused>> /\ made' = made \cup {e}
      BY <2>1, <2>4, SessionAssumption DEF EditDoc
    <3>2. CASE d = e
      BY <2>2, <2>4, <3>1, <3>2 DEF Safe
    <3>3. CASE d # e
      <4>1. Safe(d) \/ \E c \in Cause : <<d, c>> \in excused
        BY <1>0, <3>1, <3>3 DEF EditInv, EditsAccounted
      <4>2. ASSUME NEW v \in Windows, docs[v] # Nil, docs[v].modified, d \in docs[v].content
            PROVE  Safe(d)'
        <5>1. docs'[v] # Nil /\ docs'[v].modified /\ d \in docs'[v].content
          BY <2>2, <2>4, <3>1, <4>2
        <5> QED BY <2>2, <5>1 DEF Safe
      <4>3. ASSUME NEW f \in File, d \in Stored(f)
            PROVE  Safe(d)'
        BY <3>1, <4>3 DEF Safe, Stored
      <4> QED BY <3>1, <4>1, <4>2, <4>3 DEF Safe
    <3> QED BY <3>2, <3>3
  <2> QED BY <2>5, <2>6 DEF EditInv
<1>5. CASE FileSave(w)
  <2>1. docs[w] # Nil /\ docs[w] \in Doc
    BY <1>0, <1>5 DEF FileSave, TypeOK
  <2>2. CASE docs[w].file = Nil
    BY <1>0, <1>5, <2>2, SameEdits DEF FileSave, editVars
  <2>3. CASE docs[w].file # Nil
    <3>1. docs[w].file \in File /\ "shared" \in Cause
      BY <2>1, <2>3 DEF Doc, Cause
    <3> QED BY <1>0, <1>5, <2>1, <2>3, <3>1, SaveEdits, SaveFailEdits DEF FileSave
  <2> QED BY <2>2, <2>3
<1>6. CASE FileSaveAs(w)
  BY <1>0, <1>6, SameEdits DEF FileSaveAs, editVars
<1>7. CASE FileClose(w)
  BY <1>0, <1>7, CloseEdits DEF FileClose
<1> QED BY <1>1, <1>2, <1>3, <1>4, <1>5, <1>6, <1>7 DEF WindowNext

\* So does every other step.
LEMMA OtherEdits ==
  ASSUME SessionInv,
         \/ \E c \in choosers : ChooserAccept(c) \/ ChooserCancel(c)
         \/ \E f \in File : \E answer \in {"agreed", "dismissed"} : SaveAsAccept(f, answer)
         \/ SaveAsTooLate \/ SaveAsCancel
         \/ AskSave \/ AskDiscard \/ AskCancel \/ CloseAfterSave
         \/ FileExit \/ ClientDie \/ ExitNext \/ ExitDone
  PROVE  EditInv'
<1>0. TypeOK /\ EditInv
  BY DEF SessionInv, TypeInv, EditInv
<1>w. ASSUME stack # <<>>, Last(stack).op # "exit", Last(stack).win \in Windows
      PROVE  docs[Last(stack).win] # Nil /\ docs[Last(stack).win] \in Doc
  BY <1>0, <1>w, Returned DEF SessionInv, CallsInv, WindowsInUse, TypeOK
<1>1. ASSUME NEW c \in choosers, ChooserAccept(c)
      PROVE  EditInv'
  <2>1. CASE c.parent \notin Windows
    BY <1>0, <1>1, <2>1, SameEdits DEF ChooserAccept, editVars
  <2>2. CASE c.parent \in Windows /\ ImportReal(c.parent) /\ made' = made \cup Foreign
    <3> DEFINE imported == [file |-> Nil, modified |-> TRUE, content |-> Foreign]
    <3>1. imported \in Doc /\ imported.content \cap Edit = {}
      BY SessionAssumption DEF Doc, Token
    <3>2. PlaceDoc(c.parent, imported)
      BY <2>2 DEF ImportReal
    <3>3. made' \cap Edit = made \cap Edit
      BY <2>2, SessionAssumption
    <3> HIDE DEF imported
    <3> QED BY <1>0, <1>1, <2>2, <3>1, <3>2, <3>3, PlaceEdits DEF ChooserAccept
  <2>3. CASE c.parent \in Windows /\ (\E f \in File : OpenReal(f, c.parent)) /\ UNCHANGED made
    <3>1. PICK f \in File : OpenReal(f, c.parent)
      BY <2>3
    <3> DEFINE doc == [file |-> f, modified |-> FALSE, content |-> disk[f]]
    <3>2. doc \in Doc /\ doc.file # Nil
      BY <1>0, <3>1, SessionAssumption DEF OpenReal, Doc, TypeOK
    <3>3. PlaceDoc(c.parent, doc)
      BY <3>1 DEF OpenReal
    <3> HIDE DEF doc
    <3> QED BY <1>0, <1>1, <2>3, <3>2, <3>3, PlaceEdits DEF ChooserAccept
  <2> QED BY <1>1, <2>1, <2>2, <2>3 DEF ChooserAccept
<1>2. CASE \E c \in choosers : ChooserCancel(c)
  BY <1>0, <1>2, SameEdits DEF ChooserCancel, editVars
<1>3. ASSUME NEW f \in File, NEW answer \in {"agreed", "dismissed"}, SaveAsAccept(f, answer)
      PROVE  EditInv'
  <2> DEFINE w == Last(stack).win
  <2>1. w \in Windows /\ docs[w] # Nil /\ answer \in Cause
    BY <1>w, <1>3 DEF SaveAsAccept, Calling, Cause
  <2>2. SaveOk(w, f, answer) \/ SaveFail(w, f)
    BY <1>3 DEF SaveAsAccept
  <2> HIDE DEF w
  <2> QED BY <1>0, <1>3, <2>1, <2>2, SaveEdits, SaveFailEdits DEF SaveAsAccept
<1>4. CASE SaveAsTooLate \/ SaveAsCancel \/ AskCancel \/ ExitDone \/ FileExit \/ ClientDie
  BY <1>0, <1>4, SameEdits
    DEF SaveAsTooLate, SaveAsCancel, AskCancel, ExitDone, FileExit, ClientDie, StartExit, editVars
<1>5. CASE AskSave
  <2> DEFINE w == Last(stack).win
  <2>1. w \in Windows /\ docs[w] # Nil /\ docs[w] \in Doc
    BY <1>w, <1>5 DEF AskSave, Calling
  <2>2. CASE docs[w].file = Nil
    BY <1>0, <1>5, <2>2, SameEdits DEF AskSave, editVars
  <2>3. CASE docs[w].file # Nil
    <3>1. docs[w].file \in File /\ "shared" \in Cause
      BY <2>1, <2>3 DEF Doc, Cause
    <3>2. SaveOk(w, docs[w].file, "shared") \/ SaveFail(w, docs[w].file)
      BY <1>5, <2>3 DEF AskSave
    <3> HIDE DEF w
    <3> QED BY <1>0, <1>5, <2>1, <3>1, <3>2, SaveEdits, SaveFailEdits DEF AskSave
  <2> QED BY <2>2, <2>3
<1>6. CASE AskDiscard
  <2> DEFINE w == Last(stack).win
  <2>1. w \in Windows /\ DestroyWindow(w)
    BY <1>6 DEF AskDiscard
  <2>2. excused' = excused \cup
          ((docs[w].content \ UNION {Stored(f) : f \in File}) \X {"agreed"})
    BY <1>6 DEF AskDiscard
  <2>3. \A e \in docs[w].content :
          (\E f \in File : e \in Stored(f)) \/ <<e, "agreed">> \in excused'
    BY <2>2
  <2>4. UNCHANGED <<disk, made>> /\ excused \subseteq excused'
    BY <1>6, <2>2 DEF AskDiscard
  <2> HIDE DEF w
  <2> QED BY <1>0, <2>1, <2>3, <2>4, DestroyEdits
<1>7. CASE CloseAfterSave
  <2>1. CASE saved_flag
    <3>1. Last(stack).win \in Windows /\ ~docs[Last(stack).win].modified
      BY <1>7, <2>1 DEF CloseAfterSave, SessionInv, CallsInv, SavedIsClean
    <3> QED BY <1>0, <1>7, <2>1, <3>1, DestroyEdits DEF CloseAfterSave
  <2>2. CASE ~saved_flag
    BY <1>0, <1>7, <2>2, SameEdits DEF CloseAfterSave, editVars
  <2> QED BY <2>1, <2>2
<1>8. CASE ExitNext
  BY <1>0, <1>8, CloseEdits, SameEdits DEF ExitNext, editVars
<1> QED BY <1>1, <1>2, <1>3, <1>4, <1>5, <1>6, <1>7, <1>8

\* Every step keeps edits accounted for.
LEMMA EditsStep ==
  ASSUME SessionInv, [Next]_vars
  PROVE  EditInv'
<1>1. CASE UNCHANGED vars
  BY <1>1, SameEdits DEF SessionInv, EditInv, vars, editVars
<1>2. CASE Next
  BY <1>2, WindowEdits, OtherEdits DEF Next
<1> QED BY <1>1, <1>2

---------------------------------------------------------------------------
(* Without "die".                                                          *)

\* What is known of the calls then.
LoneInv == CallsHaveWindows /\ LoneCalls

\* No window goes and the innermost call, at most, returns.
LEMMA LonePop ==
  ASSUME SessionInv, UNCHANGED dies, stack # <<>>, stack' = Front(stack),
         \/ Windows' = Windows
         \/ Last(stack).op \in {"ask", "close"} /\ Windows' = Windows \ {Last(stack).win}
  PROVE  LoneInv'
<1> SUFFICES ASSUME dies = 0
             PROVE  LoneInv'
  BY DEF LoneInv, CallsHaveWindows, LoneCalls
<1>0. /\ Len(stack) \in Nat \ {0}
      /\ DOMAIN stack = 1 .. Len(stack)
      /\ DOMAIN stack' = 1 .. Len(stack) - 1
      /\ \A i \in 1 .. Len(stack) - 1 : stack'[i] = stack[i]
      /\ Last(stack) = stack[Len(stack)]
      /\ Last(stack).win \in Win \cup {Nil}
  BY Returned DEF SessionInv, TypeInv
<1>1. LoneCalls'
  BY <1>0 DEF SessionInv, LoneCalls
<1>2. CallsHaveWindows'
  <2> SUFFICES ASSUME NEW i \in 1 .. Len(stack) - 1
               PROVE  stack[i].win \in Windows' \cup {Nil}
    BY <1>0 DEF CallsHaveWindows
  <2>1. i \in DOMAIN stack /\ Len(stack) \in DOMAIN stack /\ i < Len(stack)
    BY <1>0
  <2>2. stack[i].win \in Windows \cup {Nil}
    BY <2>1 DEF SessionInv, CallsHaveWindows
  <2>3. CASE Windows' = Windows
    BY <2>2, <2>3
  <2>4. CASE Last(stack).op \in {"ask", "close"} /\ Windows' = Windows \ {Last(stack).win}
    <3>1. stack[i].win # Last(stack).win
      BY <1>0, <2>1, <2>4 DEF SessionInv, LoneCalls
    <3> QED BY <2>2, <2>4, <3>1
  <2> QED BY <2>3, <2>4
<1> QED BY <1>1, <1>2 DEF LoneInv

\* The first call of all.
LEMMA LoneFirst ==
  ASSUME SessionInv, Windows' = Windows, stack = <<>>,
         NEW op \in {"exit", "ask", "save_as"}, NEW w \in Windows \cup {Nil},
         stack' = Append(stack, Call(op, w))
  PROVE  LoneInv'
<1>1. stack \in Seq(Frame) /\ Len(stack) = 0 /\ Windows \subseteq Win
  BY EmptySeq, NodeProperties DEF SessionInv, TypeInv, TypeOK
<1>2. Call(op, w) \in Frame /\ Call(op, w).win = w
  BY <1>1 DEF Call, Frame
<1>3. DOMAIN stack' = 1 .. 1 /\ stack'[1] = Call(op, w)
  BY <1>1, <1>2, PushProperties
<1> QED BY <1>2, <1>3 DEF LoneInv, CallsHaveWindows, LoneCalls

\* The answer "save" to the close question.
LEMMA LoneSave ==
  ASSUME SessionInv, AskSave
  PROVE  LoneInv'
<1> DEFINE w == Last(stack).win
           n == Len(stack)
           calls == Append(Front(stack), Call("close", w))
<1> SUFFICES ASSUME dies = 0
             PROVE  LoneInv'
  BY DEF LoneInv, CallsHaveWindows, LoneCalls, AskSave
<1>0. /\ stack # <<>> /\ Last(stack).op = "ask" /\ w \in Windows /\ w \in Win
      /\ Windows' = Windows
      /\ stack' = calls \/ stack' = Append(calls, Call("save_as", w))
  <2>1. /\ stack # <<>> /\ Last(stack).op = "ask" /\ w \in Windows
        /\ UNCHANGED window_list
        /\ stack' = calls \/ stack' = Append(calls, Call("save_as", w))
    BY DEF AskSave, Calling
  <2> QED BY <2>1, NodeProperties DEF SessionInv, TypeInv, Windows
<1>1. /\ stack \in Seq(Frame)
      /\ calls \in Seq(Frame)
      /\ n \in Nat \ {0}
      /\ DOMAIN stack = 1 .. n
      /\ Len(calls) = n
      /\ DOMAIN calls = 1 .. n
      /\ \A i \in 1 .. n - 1 : calls[i] = stack[i]
      /\ calls[n] = Call("close", w)
      /\ stack[n].op = "ask" /\ stack[n].win = w
  BY <1>0, CallType, SwapProperties DEF SessionInv, TypeInv, TypeOK, Last
<1>2. \A i \in 1 .. n - 1 : i \in DOMAIN stack /\ n \in DOMAIN stack /\ i < n
  <2> HIDE DEF n, calls, w
  <2>1. n \in Nat \ {0} /\ DOMAIN stack = 1 .. n
    BY <1>1
  <2>2. \A i \in 1 .. n - 1 : i \in 1 .. n /\ n \in 1 .. n /\ i < n
    BY <2>1
  <2> QED BY <2>1, <2>2
<1>3. /\ \A i \in 1 .. n - 1 : stack[i].op = "exit" /\ stack[i].win # w
      /\ \A i, j \in 1 .. n - 1 : ~(i < j)
  <2>1. \A i \in 1 .. n - 1 : stack[i].op = "exit" /\ stack[i].win # w
    BY <1>1, <1>2, ZenonT(60) DEF SessionInv, LoneCalls
  <2>2. \A i, j \in 1 .. n - 1 : i < j => stack[j].op # "exit"
    BY <1>1, <1>2 DEF SessionInv, LoneCalls
  <2> QED BY <2>1, <2>2, SMTT(30)
<1>4. \A i \in 1 .. n - 1 : stack[i].win \in Windows \cup {Nil}
  BY <1>2 DEF SessionInv, CallsHaveWindows
<1> HIDE DEF calls, w, n
<1>5. /\ Call("close", w).op = "close" /\ Call("close", w).win = w
      /\ Call("save_as", w).op = "save_as" /\ Call("save_as", w).win = w
  BY DEF Call
<1>6. ASSUME NEW m \in {n, n + 1}, DOMAIN stack' = 1 .. m,
             \A i \in 1 .. n : stack'[i] = calls[i],
             m = n + 1 => stack'[m] = Call("save_as", w)
      PROVE  LoneInv'
  <2>1. \A i \in 1 .. m : i \in 1 .. n - 1 \/ i = n \/ (i = n + 1 /\ m = n + 1)
    BY <1>1
  <2>2. n \in 1 .. n /\ \A i \in 1 .. n - 1 : i \in 1 .. n
    BY <1>1
  <2>3. /\ \A i \in 1 .. n - 1 : stack'[i] = stack[i]
        /\ stack'[n] = Call("close", w)
        /\ m = n + 1 => stack'[n + 1] = Call("save_as", w)
    BY <1>1, <1>6, <2>2
  <2>4. CallsHaveWindows'
    <3> SUFFICES ASSUME NEW i \in 1 .. m
                 PROVE  stack'[i].win \in Windows' \cup {Nil}
      BY <1>6 DEF CallsHaveWindows
    <3> QED BY <1>0, <1>4, <1>5, <2>1, <2>3
  <2>5. LoneCalls'
    <3> SUFFICES ASSUME NEW i \in 1 .. m, NEW j \in 1 .. m, i < j
                 PROVE  /\ stack'[j].op # "exit"
                        /\ stack'[j].op \in {"ask", "close"} => stack'[i].op = "exit"
                        /\ stack'[i].op = "exit" => stack'[i].win # stack'[j].win
      BY <1>6 DEF LoneCalls
    <3>1. j \notin 1 .. n - 1
      BY <1>1, <1>3
    <3>2. CASE j = n
      <4>1. i \in 1 .. n - 1
        BY <1>1, <3>2
      <4> QED BY <1>3, <1>5, <2>3, <3>2, <4>1
    <3>3. CASE j = n + 1 /\ m = n + 1
      <4>1. i \in 1 .. n - 1 \/ i = n
        BY <1>1, <3>3
      <4> QED BY <1>3, <1>5, <2>3, <3>3, <4>1
    <3> QED BY <2>1, <3>1, <3>2, <3>3
  <2> QED BY <2>4, <2>5 DEF LoneInv
<1>7. CASE stack' = calls
  BY <1>1, <1>6, <1>7
<1>8. CASE stack' = Append(calls, Call("save_as", w))
  <2>1. Call("save_as", w) \in Frame
    BY <1>0, CallType
  <2>2. /\ DOMAIN stack' = 1 .. n + 1
        /\ \A i \in 1 .. n : stack'[i] = calls[i]
        /\ stack'[n + 1] = Call("save_as", w)
    BY <1>1, <1>8, <2>1, PushProperties
  <2> QED BY <1>6, <2>2
<1> QED BY <1>0, <1>7, <1>8

\* A turn of the loop of gb_file_exit.
LEMMA LoneExit ==
  ASSUME SessionInv, ExitNext
  PROVE  LoneInv'
<1> DEFINE w == Last(stack).win
           n == NextWindow(w)
           calls == Append(Front(stack), Call("exit", n))
<1> SUFFICES ASSUME dies = 0
             PROVE  LoneInv'
  BY DEF LoneInv, CallsHaveWindows, LoneCalls, ExitNext
<1>0. stack # <<>> /\ Last(stack).op = "exit"
  BY DEF ExitNext, Calling
<1>1. CASE w \notin Windows
  <2>1. UNCHANGED <<window_list, stack, dies>>
    BY <1>1 DEF ExitNext
  <2> QED BY <2>1 DEF SessionInv, LoneInv, CallsHaveWindows, LoneCalls, Windows
<1>2. CASE w \in Windows
  <2>1. n \in (Windows \ {w}) \cup {Nil} /\ w \in Win /\ n \in Win \cup {Nil} /\ w # Nil
    BY <1>2, NodeProperties, NextWindowProperties, SessionAssumption DEF SessionInv, TypeInv
  <2>2. /\ calls \in Seq(Frame) /\ Len(calls) = Len(stack) /\ Len(stack) \in Nat \ {0}
        /\ DOMAIN calls = 1 .. Len(stack) /\ DOMAIN stack = 1 .. Len(stack)
        /\ calls[Len(stack)] = Call("exit", n)
        /\ stack[Len(stack)].op = "exit"
    BY <1>0, <2>1, CallType, SwapProperties DEF SessionInv, TypeInv, TypeOK, Last
  <2>3. Len(stack) = 1
    <3>1. \A i, j \in 1 .. Len(stack) : i < j => stack[j].op # "exit"
      BY <2>2 DEF SessionInv, LoneCalls
    <3> QED BY <2>2, <3>1
  <2>4. CloseWindow(w, calls)
    BY <1>2 DEF ExitNext
  <2>5. /\ Call("exit", n).op = "exit" /\ Call("exit", n).win = n
        /\ Call("ask", w).op = "ask" /\ Call("ask", w).win = w
    BY DEF Call
  <2> HIDE DEF calls, n, w
  <2>6. CASE NeedsAsk(w)
    <3>1. stack' = Append(calls, Call("ask", w)) /\ Windows' = Windows
      BY <2>4, <2>6 DEF CloseWindow, Windows
    <3>2. Call("ask", w) \in Frame
      BY <2>1, CallType
    <3>3. /\ DOMAIN stack' = 1 .. 2
          /\ stack'[1] = Call("exit", n) /\ stack'[2] = Call("ask", w)
      <4>1. /\ DOMAIN stack' = 1 .. Len(calls) + 1
            /\ \A i \in 1 .. Len(calls) : stack'[i] = calls[i]
            /\ stack'[Len(calls) + 1] = Call("ask", w)
        BY <2>2, <3>1, <3>2, PushProperties
      <4>2. Len(calls) = 1 /\ calls[1] = Call("exit", n) /\ Len(calls) + 1 = 2 /\ 1 \in 1 .. 1
        BY <2>2, <2>3
      <4> QED BY <4>1, <4>2
    <3>4. \A i \in 1 .. 2 : i = 1 \/ i = 2
      OBVIOUS
    <3>5. CallsHaveWindows'
      BY <1>2, <2>1, <2>5, <3>1, <3>3, <3>4 DEF CallsHaveWindows
    <3>6. LoneCalls'
      <4>1. \A i, j \in 1 .. 2 : i < j => i = 1 /\ j = 2
        OBVIOUS
      <4> QED BY <2>1, <2>5, <3>3, <4>1 DEF LoneCalls
    <3> QED BY <3>5, <3>6 DEF LoneInv
  <2>7. CASE ~NeedsAsk(w)
    <3>1. stack' = calls /\ DestroyWindow(w)
      BY <2>4, <2>7 DEF CloseWindow
    <3>2. Windows' = Windows \ {w}
      BY <1>2, <3>1, Destroyed DEF SessionInv, TypeInv
    <3>3. DOMAIN stack' = 1 .. 1 /\ stack'[1] = Call("exit", n)
      BY <2>2, <2>3, <3>1
    <3> QED BY <2>1, <2>5, <3>2, <3>3 DEF LoneInv, CallsHaveWindows, LoneCalls
  <2> QED BY <2>6, <2>7
<1> QED BY <1>1, <1>2

\* Every step keeps it.
LEMMA LoneStep ==
  ASSUME SessionInv, [Next]_vars
  PROVE  LoneInv'
<1> USE DEF SessionInv, TypeInv
<1>t. Windows \subseteq Win
  BY NodeProperties
<1>1. CASE UNCHANGED vars
  BY <1>1 DEF LoneInv, CallsHaveWindows, LoneCalls, Windows, vars
<1>2. ASSUME NEW w \in Windows, WindowNext(w)
      PROVE  LoneInv'
  <2>0. stack = <<>>
    BY <1>2 DEF WindowNext, FileNew, ShowChooser, OpenRecent, EditDoc, FileSave,
                FileSaveAs, FileClose, Idle
  <2>1. CASE stack' = <<>>
    BY <2>1, NoCalls DEF LoneInv
  <2>2. CASE stack' # <<>>
    <3>1. FileSave(w) \/ FileSaveAs(w) \/ FileClose(w)
      BY <1>2, <2>0, <2>2 DEF WindowNext, FileNew, ShowChooser, OpenRecent, EditDoc
    <3>2. /\ UNCHANGED window_list
          /\ stack' = Append(stack, Call("save_as", w)) \/ stack' = Append(stack, Call("ask", w))
      BY <2>0, <2>2, <3>1 DEF FileSave, FileSaveAs, FileClose, CloseWindow
    <3> QED BY <2>0, <3>2, LoneFirst DEF Windows
  <2> QED BY <2>1, <2>2
<1>3. ASSUME NEW c \in choosers, ChooserAccept(c) \/ ChooserCancel(c)
      PROVE  LoneInv'
  <2>1. stack' = <<>>
    BY <1>3 DEF ChooserAccept, ChooserCancel, Idle
  <2> QED BY <2>1, NoCalls DEF LoneInv
<1>4. ASSUME NEW f \in File, NEW answer \in {"agreed", "dismissed"}, SaveAsAccept(f, answer)
      PROVE  LoneInv'
  <2>1. stack # <<>> /\ UNCHANGED <<window_list, dies>>
    BY <1>4 DEF SaveAsAccept, Calling
  <2>2. Windows' = Windows
    BY <2>1 DEF Windows
  <2>3. CASE stack' = Front(stack)
    BY <2>1, <2>2, <2>3, LonePop
  <2>4. CASE stack' = stack
    BY <2>1, <2>2, <2>4 DEF LoneInv, CallsHaveWindows, LoneCalls
  <2> QED BY <1>4, <2>3, <2>4 DEF SaveAsAccept
<1>5. CASE SaveAsTooLate
  BY <1>5 DEF SaveAsTooLate, LoneInv, CallsHaveWindows, LoneCalls, Windows
<1>6. CASE SaveAsCancel \/ AskCancel \/ ExitDone
  <2>1. stack # <<>> /\ stack' = Front(stack) /\ UNCHANGED <<window_list, dies>>
    BY <1>6 DEF SaveAsCancel, AskCancel, ExitDone, Calling
  <2> QED BY <2>1, LonePop DEF Windows
<1>7. CASE AskSave
  BY <1>7, LoneSave
<1>8. CASE AskDiscard
  <2>1. /\ stack # <<>> /\ Last(stack).op = "ask" /\ Last(stack).win \in Windows
        /\ DestroyWindow(Last(stack).win) /\ stack' = Front(stack) /\ UNCHANGED dies
    BY <1>8 DEF AskDiscard, Calling
  <2>2. Windows' = Windows \ {Last(stack).win}
    BY <2>1, Destroyed
  <2> QED BY <2>1, <2>2, LonePop
<1>9. CASE CloseAfterSave
  <2>1. stack # <<>> /\ Last(stack).op = "close" /\ stack' = Front(stack) /\ UNCHANGED dies
    BY <1>9 DEF CloseAfterSave, Calling
  <2>2. CASE saved_flag
    <3>1. Last(stack).win \in Windows /\ DestroyWindow(Last(stack).win)
      BY <1>9, <2>2 DEF CloseAfterSave, CallsInv, SavedIsClean
    <3>2. Windows' = Windows \ {Last(stack).win}
      BY <3>1, Destroyed
    <3> QED BY <2>1, <3>2, LonePop
  <2>3. CASE ~saved_flag
    <3>1. Windows' = Windows
      BY <1>9, <2>3 DEF CloseAfterSave, Windows
    <3> QED BY <2>1, <3>1, LonePop
  <2> QED BY <2>2, <2>3
<1>10. CASE FileExit
  <2> DEFINE first == IF window_list = <<>> THEN Nil ELSE Head(window_list)
  <2>1. stack = <<>> /\ stack' = Append(stack, Call("exit", first)) /\ UNCHANGED window_list
    BY <1>10 DEF FileExit, StartExit, Idle
  <2>2. first \in Windows \cup {Nil}
    <3>1. CASE window_list # <<>>
      <4>1. window_list \in Seq(Win) /\ Len(window_list) \in Nat \ {0}
        BY <3>1, EmptySeq DEF TypeOK
      <4>2. first = window_list[1] /\ 1 \in 1 .. Len(window_list)
        BY <3>1, <4>1, HeadIsFirst
      <4>3. 1 \in DOMAIN window_list
        BY <4>1, <4>2, LenProperties
      <4> QED BY <4>2, <4>3 DEF Windows, Range
    <3> QED BY <3>1
  <2>3. Windows' = Windows
    BY <2>1 DEF Windows
  <2> HIDE DEF first
  <2> QED BY <2>1, <2>2, <2>3, LoneFirst
<1>11. CASE ClientDie
  <2>1. dies' # 0
    BY <1>11 DEF ClientDie, TypeOK
  <2> QED BY <2>1 DEF LoneInv, CallsHaveWindows, LoneCalls
<1>12. CASE ExitNext
  BY <1>12, LoneExit
<1> QED BY <1>1, <1>2, <1>3, <1>4, <1>5, <1>6, <1>7, <1>8, <1>9, <1>10, <1>11, <1>12 DEF Next

---------------------------------------------------------------------------
(* Exit.                                                                   *)

\* The innermost call returns.  Its window is gone or, in an exit, kept.
LEMMA ExitPop ==
  ASSUME SessionInv, Alive, stack # <<>>, stack' = Front(stack),
         Windows' \subseteq Windows,
         \A u, v \in Win : Precedes(window_list', u, v) => Precedes(window_list, u, v),
         Last(stack).op \in {"ask", "close"} =>
           Last(stack).win \notin Windows' \/ (Exiting => Last(stack).win \in kept'),
         (\E i \in DOMAIN stack' : stack'[i].op = "exit") => kept \subseteq kept',
         window_list' \in Seq(Win)
  PROVE  PassedHandled'
<1>0. /\ Len(stack) \in Nat \ {0}
      /\ DOMAIN stack = 1 .. Len(stack)
      /\ DOMAIN stack' = 1 .. Len(stack) - 1
      /\ \A i \in 1 .. Len(stack) - 1 : stack'[i] = stack[i]
      /\ Last(stack) = stack[Len(stack)]
      /\ Last(stack).win \in Win \cup {Nil}
  BY Returned DEF SessionInv, TypeInv
<1> SUFFICES ASSUME NEW i \in 1 .. Len(stack) - 1, stack'[i].op = "exit",
                    NEW v \in Windows', Passed(v, stack[i].win)'
             PROVE  \/ v \in kept'
                    \/ \E j \in DOMAIN stack' :
                         j > i /\ stack'[j].op \in {"ask", "close"} /\ stack'[j].win = v
  BY <1>0 DEF PassedHandled
<1>1. i \in DOMAIN stack /\ stack[i].op = "exit" /\ stack'[i] = stack[i] /\ v \in Windows
  BY <1>0
<1>2. kept \subseteq kept' /\ Exiting
  BY <1>0, <1>1 DEF Exiting
<1>3. Passed(v, stack[i].win)
  <2>1. CASE stack[i].win = Nil
    BY <2>1 DEF Passed
  <2>2. CASE Precedes(window_list', v, stack[i].win)
    <3>1. v \in Win /\ stack[i].win \in Win
      <4>1. \A k \in DOMAIN window_list' : window_list'[k] \in Win
        BY LenProperties, ElementOfSeq
      <4> QED BY <2>2, <4>1 DEF Precedes
    <3> QED BY <2>2, <3>1 DEF Passed
  <2> QED BY <1>1, <2>1, <2>2 DEF Passed
<1>4. \/ v \in kept
      \/ \E j \in DOMAIN stack : j > i /\ stack[j].op \in {"ask", "close"} /\ stack[j].win = v
  BY <1>1, <1>3 DEF SessionInv, PassedHandled
<1>5. ASSUME NEW j \in DOMAIN stack, j > i, stack[j].op \in {"ask", "close"}, stack[j].win = v
      PROVE  \/ v \in kept'
             \/ \E k \in DOMAIN stack' :
                  k > i /\ stack'[k].op \in {"ask", "close"} /\ stack'[k].win = v
  <2>1. CASE j = Len(stack)
    BY <1>0, <1>2, <1>5, <2>1
  <2>2. CASE j # Len(stack)
    <3>1. j \in 1 .. Len(stack) - 1
      BY <1>0, <2>2
    <3>2. j \in DOMAIN stack' /\ stack'[j] = stack[j]
      BY <1>0, <3>1
    <3> QED BY <1>5, <3>2
  <2> QED BY <2>1, <2>2
<1> QED BY <1>2, <1>4, <1>5

\* The list of windows does not change and the innermost call returns.
LEMMA ExitPopSame ==
  ASSUME SessionInv, Alive, stack # <<>>, stack' = Front(stack), UNCHANGED window_list,
         Last(stack).op \in {"ask", "close"} => (Exiting => Last(stack).win \in kept'),
         (\E i \in DOMAIN stack' : stack'[i].op = "exit") => kept \subseteq kept'
  PROVE  PassedHandled'
<1>1. window_list' \in Seq(Win) /\ Windows' \subseteq Windows
  BY DEF SessionInv, TypeInv, TypeOK, Windows
<1> QED BY <1>1, ExitPop

\* The innermost call returns, and with it goes its window.
LEMMA ExitPopDestroyed ==
  ASSUME SessionInv, Alive, stack # <<>>, stack' = Front(stack),
         Last(stack).win \in Windows, DestroyWindow(Last(stack).win), UNCHANGED kept
  PROVE  PassedHandled'
<1> DEFINE w == Last(stack).win
<1>1. w \in Windows /\ DestroyWindow(w) /\ TypeOK
  BY DEF SessionInv, TypeInv
<1>2. /\ window_list' \in Seq(Win)
      /\ Windows' = Windows \ {w}
      /\ \A u, v \in Win : Precedes(window_list', u, v) => Precedes(window_list, u, v)
  <2> HIDE DEF w
  <2> QED BY <1>1, Destroyed
<1> QED BY <1>2, ExitPop

\* gb_file_exit is called: it has dealt with no window yet.
LEMMA ExitStarts ==
  ASSUME SessionInv, Alive, StartExit
  PROVE  PassedHandled'
<1> DEFINE first == IF window_list = <<>> THEN Nil ELSE Head(window_list)
<1>0. /\ stack' = Append(stack, Call("exit", first)) /\ UNCHANGED <<window_list, kept>>
      /\ Windows' = Windows
      /\ window_list \in Seq(Win) /\ IsInjective(window_list) /\ stack \in Seq(Frame)
  BY DEF StartExit, SessionInv, TypeInv, TypeOK, Windows
<1>1. CASE window_list = <<>>
  <2>1. DOMAIN window_list = {}
    BY <1>1
  <2>2. Windows = {}
    BY <2>1 DEF Windows, Range
  <2> QED BY <1>0, <2>2 DEF PassedHandled
<1>2. CASE window_list # <<>>
  <2>1. Len(window_list) \in Nat \ {0} /\ DOMAIN window_list = 1 .. Len(window_list)
    BY <1>0, <1>2, EmptySeq, LenProperties
  <2>2. first = window_list[1]
    BY <1>0, <1>2, HeadIsFirst
  <2>3. first \in Win /\ first # Nil
    <3>1. window_list[1] \in Win
      BY <1>0, <2>1, ElementOfSeq
    <3> QED BY <2>2, <3>1, SessionAssumption
  <2> HIDE DEF first
  <2>4. \A v \in Windows : ~Passed(v, first)
    <3>1. \A a, b \in DOMAIN window_list : window_list[b] = window_list[1] => ~(a < b)
      BY <1>0, <2>1 DEF IsInjective
    <3> QED BY <2>2, <2>3, <3>1 DEF Passed, Precedes
  <2>5. /\ Len(stack) \in Nat
        /\ DOMAIN stack = 1 .. Len(stack)
        /\ DOMAIN stack' = 1 .. Len(stack) + 1
        /\ \A i \in 1 .. Len(stack) : stack'[i] = stack[i]
        /\ stack'[Len(stack) + 1] = Call("exit", first)
    BY <1>0, <2>3, CallType, PushProperties
  <2> SUFFICES ASSUME NEW i \in 1 .. Len(stack) + 1, stack'[i].op = "exit",
                      NEW v \in Windows, Passed(v, stack[i].win)'
               PROVE  \/ v \in kept'
                      \/ \E j \in DOMAIN stack' :
                           j > i /\ stack'[j].op \in {"ask", "close"} /\ stack'[j].win = v
    BY <1>0, <2>5 DEF PassedHandled
  <2>6. Passed(v, stack'[i].win)
    BY <1>0 DEF Passed
  <2>7. i # Len(stack) + 1
    <3>1. Call("exit", first).win = first
      BY DEF Call
    <3> QED BY <2>4, <2>5, <2>6, <3>1
  <2>8. i \in DOMAIN stack /\ stack'[i] = stack[i]
    BY <2>5, <2>7
  <2>9. \/ v \in kept
        \/ \E j \in DOMAIN stack : j > i /\ stack[j].op \in {"ask", "close"} /\ stack[j].win = v
    BY <2>6, <2>8 DEF SessionInv, PassedHandled
  <2>10. \A j \in DOMAIN stack : j \in DOMAIN stack' /\ stack'[j] = stack[j]
    BY <2>5
  <2> QED BY <1>0, <2>9, <2>10
<1> QED BY <1>1, <1>2

\* The answer "save" to the close question: the close goes on.
LEMMA ExitSaves ==
  ASSUME SessionInv, AskSave
  PROVE  PassedHandled'
<1> DEFINE w == Last(stack).win
           n == Len(stack)
           calls == Append(Front(stack), Call("close", w))
<1>0. /\ stack # <<>> /\ Last(stack).op = "ask" /\ w \in Win /\ Alive
      /\ UNCHANGED <<window_list, kept>>
      /\ stack' = calls \/ stack' = Append(calls, Call("save_as", w))
  <2>1. /\ stack # <<>> /\ Last(stack).op = "ask" /\ w \in Windows /\ Alive
        /\ UNCHANGED <<window_list, kept>>
        /\ stack' = calls \/ stack' = Append(calls, Call("save_as", w))
    BY DEF AskSave, Calling
  <2> QED BY <2>1, NodeProperties DEF SessionInv, TypeInv
<1>1. /\ stack \in Seq(Frame)
      /\ calls \in Seq(Frame)
      /\ n \in Nat \ {0}
      /\ DOMAIN stack = 1 .. n
      /\ Len(calls) = n
      /\ DOMAIN calls = 1 .. n
      /\ \A i \in 1 .. n - 1 : calls[i] = stack[i]
      /\ calls[n] = Call("close", w)
      /\ stack[n].op = "ask" /\ stack[n].win = w
  BY <1>0, CallType, SwapProperties DEF SessionInv, TypeInv, TypeOK, Last
<1> HIDE DEF calls, w, n
<1>2. /\ Call("close", w).op = "close" /\ Call("close", w).win = w
      /\ Call("save_as", w).op = "save_as"
  BY DEF Call
<1>3. /\ \A i \in 1 .. n : i \in DOMAIN stack' /\ stack'[i] = calls[i]
      /\ \A i \in DOMAIN stack' : i \in 1 .. n \/ stack'[i].op = "save_as"
  <2>1. CASE stack' = calls
    BY <1>1, <2>1
  <2>2. CASE stack' = Append(calls, Call("save_as", w))
    <3>1. Call("save_as", w) \in Frame
      BY <1>0, CallType
    <3>2. /\ DOMAIN stack' = 1 .. n + 1
          /\ \A i \in 1 .. n : stack'[i] = calls[i]
          /\ stack'[n + 1] = Call("save_as", w)
      BY <1>1, <2>2, <3>1, PushProperties
    <3>3. \A i \in 1 .. n + 1 : i \in 1 .. n \/ i = n + 1
      BY <1>1
    <3>4. \A i \in 1 .. n : i \in 1 .. n + 1
      BY <1>1
    <3> QED BY <1>2, <3>2, <3>3, <3>4
  <2> QED BY <1>0, <2>1, <2>2
<1> SUFFICES ASSUME NEW i \in DOMAIN stack', stack'[i].op = "exit",
                    NEW v \in Windows', Passed(v, stack[i].win)'
             PROVE  \/ v \in kept'
                    \/ \E j \in DOMAIN stack' :
                         j > i /\ stack'[j].op \in {"ask", "close"} /\ stack'[j].win = v
  BY DEF PassedHandled
<1>4. i \in 1 .. n /\ i # n
  BY <1>1, <1>2, <1>3
<1>5. i \in 1 .. n - 1
  BY <1>1, <1>4
<1>6. stack'[i] = stack[i] /\ i \in DOMAIN stack
  BY <1>1, <1>3, <1>4, <1>5
<1>7. v \in Windows /\ Passed(v, stack[i].win)
  BY <1>0, <1>6 DEF Passed, Windows
<1>8. \/ v \in kept
      \/ \E j \in DOMAIN stack : j > i /\ stack[j].op \in {"ask", "close"} /\ stack[j].win = v
  BY <1>0, <1>6, <1>7 DEF SessionInv, PassedHandled
<1>9. ASSUME NEW j \in DOMAIN stack, j > i, stack[j].op \in {"ask", "close"}, stack[j].win = v
      PROVE  j \in DOMAIN stack' /\ stack'[j].op \in {"ask", "close"} /\ stack'[j].win = v
  <2>1. CASE j = n
    BY <1>1, <1>2, <1>3, <1>9, <2>1
  <2>2. CASE j # n
    <3>1. j \in 1 .. n - 1 /\ j \in 1 .. n
      BY <1>1, <2>2
    <3> QED BY <1>1, <1>3, <1>9, <3>1
  <2> QED BY <2>1, <2>2
<1> QED BY <1>0, <1>8, <1>9

\* A turn of the loop of gb_file_exit: the window it deals with is destroyed
\* or asked about, and those before the next one were dealt with already.
LEMMA ExitTurns ==
  ASSUME SessionInv, ExitNext, Last(stack).win \in Windows
  PROVE  PassedHandled'
<1> DEFINE w == Last(stack).win
           n == NextWindow(w)
           top == Len(stack)
           calls == Append(Front(stack), Call("exit", n))
<1>0. /\ stack # <<>> /\ Last(stack).op = "exit" /\ w \in Windows /\ Alive
      /\ CloseWindow(w, calls) /\ UNCHANGED kept /\ TypeOK
  BY DEF ExitNext, Calling, SessionInv, TypeInv
<1>1. w \in Win /\ Nil \notin Windows /\ Windows \subseteq Win /\ n \in Win \cup {Nil}
  BY <1>0, NodeProperties, NextWindowProperties, SessionAssumption
<1>2. /\ stack \in Seq(Frame)
      /\ calls \in Seq(Frame)
      /\ top \in Nat \ {0}
      /\ DOMAIN stack = 1 .. top
      /\ Len(calls) = top
      /\ DOMAIN calls = 1 .. top
      /\ \A i \in 1 .. top - 1 : calls[i] = stack[i]
      /\ calls[top] = Call("exit", n)
      /\ stack[top].op = "exit" /\ stack[top].win = w
  BY <1>0, <1>1, CallType, SwapProperties DEF TypeOK, Last
<1>3. \A v \in Windows \ {w} : Passed(v, n) => Passed(v, w)
  <2> HIDE DEF w
  <2> QED BY <1>0, NextWindowProperties DEF Passed
<1> HIDE DEF calls, n, w, top
<1>4. /\ Call("exit", n).op = "exit" /\ Call("exit", n).win = n
      /\ Call("ask", w).op = "ask" /\ Call("ask", w).win = w
  BY DEF Call
<1>5. /\ \A i \in 1 .. top : i \in DOMAIN stack' /\ stack'[i] = calls[i]
      /\ \A i \in DOMAIN stack' : i \in 1 .. top \/ stack'[i].op = "ask"
      /\ Windows' \subseteq Windows
      /\ \A u, v \in Win : Precedes(window_list', u, v) => Precedes(window_list, u, v)
      /\ \A i \in DOMAIN window_list' : window_list'[i] \in Win
      /\ \/ w \notin Windows'
         \/ top + 1 \in DOMAIN stack' /\ stack'[top + 1] = Call("ask", w)
  <2>0. \A i \in DOMAIN window_list : window_list[i] \in Win
    BY <1>0, LenProperties, ElementOfSeq DEF TypeOK
  <2>1. CASE NeedsAsk(w)
    <3>0. stack' = Append(calls, Call("ask", w)) /\ UNCHANGED window_list
      BY <1>0, <2>1 DEF CloseWindow
    <3>1. Call("ask", w) \in Frame
      BY <1>1, CallType
    <3>2. /\ DOMAIN stack' = 1 .. top + 1
          /\ \A i \in 1 .. top : stack'[i] = calls[i]
          /\ stack'[top + 1] = Call("ask", w)
      BY <1>2, <3>0, <3>1, PushProperties
    <3>3. /\ \A i \in 1 .. top + 1 : i \in 1 .. top \/ i = top + 1
          /\ \A i \in 1 .. top : i \in 1 .. top + 1
          /\ top + 1 \in 1 .. top + 1
      BY <1>2
    <3> QED BY <1>4, <2>0, <3>0, <3>2, <3>3 DEF Windows
  <2>2. CASE ~NeedsAsk(w)
    <3>0. stack' = calls /\ DestroyWindow(w)
      BY <1>0, <2>2 DEF CloseWindow
    <3>1. /\ window_list' \in Seq(Win)
          /\ Windows' = Windows \ {w}
          /\ \A u, v \in Win : Precedes(window_list', u, v) => Precedes(window_list, u, v)
      BY <1>0, <3>0, Destroyed
    <3>2. \A i \in DOMAIN window_list' : window_list'[i] \in Win
      BY <3>1, LenProperties, ElementOfSeq
    <3> QED BY <1>2, <3>0, <3>1, <3>2
  <2> QED BY <2>1, <2>2
<1> SUFFICES ASSUME NEW i \in DOMAIN stack', stack'[i].op = "exit",
                    NEW v \in Windows', Passed(v, stack[i].win)'
             PROVE  \/ v \in kept'
                    \/ \E j \in DOMAIN stack' :
                         j > i /\ stack'[j].op \in {"ask", "close"} /\ stack'[j].win = v
  BY DEF PassedHandled
<1>6. i \in 1 .. top /\ v \in Windows /\ v \in Win
  BY <1>1, <1>5
<1>7. Passed(v, stack'[i].win)
  <2>1. CASE stack'[i].win = Nil
    BY <2>1 DEF Passed
  <2>2. CASE Precedes(window_list', v, stack'[i].win)
    <3>1. stack'[i].win \in Win
      BY <1>5, <2>2 DEF Precedes
    <3> QED BY <1>5, <1>6, <2>2, <3>1 DEF Passed
  <2> QED BY <2>1, <2>2 DEF Passed
<1>8. CASE i = top
  <2>1. stack'[i].win = n
    BY <1>2, <1>4, <1>5, <1>6, <1>8
  <2>2. CASE v = w
    BY <1>2, <1>4, <1>5, <1>8, <2>2
  <2>3. CASE v # w
    <3>1. Passed(v, w)
      BY <1>3, <1>6, <1>7, <2>1, <2>3
    <3>2. top \in DOMAIN stack /\ ~ \E j \in DOMAIN stack : j > top
      BY <1>2
    <3>3. v \in kept
      BY <1>0, <1>2, <1>6, <3>1, <3>2 DEF SessionInv, PassedHandled
    <3> QED BY <1>0, <3>3
  <2> QED BY <2>2, <2>3
<1>9. CASE i # top
  <2>1. i \in 1 .. top - 1 /\ i \in DOMAIN stack
    BY <1>2, <1>6, <1>9
  <2>2. stack'[i] = stack[i]
    BY <1>2, <1>5, <1>6, <2>1
  <2>3. \/ v \in kept
        \/ \E j \in DOMAIN stack : j > i /\ stack[j].op \in {"ask", "close"} /\ stack[j].win = v
    BY <1>0, <1>6, <1>7, <2>1, <2>2 DEF SessionInv, PassedHandled
  <2>4. ASSUME NEW j \in DOMAIN stack, stack[j].op \in {"ask", "close"}
        PROVE  j \in DOMAIN stack' /\ stack'[j] = stack[j]
    <3>1. j # top
      BY <1>2, <2>4
    <3>2. j \in 1 .. top - 1 /\ j \in 1 .. top
      BY <1>2, <3>1
    <3> QED BY <1>2, <1>5, <3>2
  <2> QED BY <1>0, <2>3, <2>4
<1> QED BY <1>8, <1>9

\* Every step keeps it.
LEMMA ExitStep ==
  ASSUME SessionInv, [Next]_vars
  PROVE  PassedHandled'
<1>s. ASSUME UNCHANGED <<window_list, stack, kept>>, Alive' => Alive
      PROVE  PassedHandled'
  BY <1>s DEF SessionInv, PassedHandled, Passed, Windows
<1>1. CASE UNCHANGED vars
  BY <1>1, <1>s DEF vars, Alive
<1>2. ASSUME NEW w \in Windows, WindowNext(w)
      PROVE  PassedHandled'
  <2>0. stack = <<>> /\ w \in Win
    BY <1>2, NodeProperties
      DEF SessionInv, TypeInv, WindowNext, FileNew, ShowChooser, OpenRecent, EditDoc, FileSave,
          FileSaveAs, FileClose, Idle
  <2>1. CASE stack' = <<>>
    BY <2>1, NoCalls
  <2>2. CASE stack' # <<>>
    <3>1. FileSave(w) \/ FileSaveAs(w) \/ FileClose(w)
      BY <1>2, <2>0, <2>2 DEF WindowNext, FileNew, ShowChooser, OpenRecent, EditDoc
    <3>2. PICK op \in {"save_as", "ask"} : stack' = Append(stack, Call(op, w))
      BY <2>0, <2>2, <3>1 DEF FileSave, FileSaveAs, FileClose, CloseWindow
    <3>3. Call(op, w) \in Frame /\ Call(op, w).op # "exit"
      BY <2>0 DEF Call, Frame
    <3>4. stack \in Seq(Frame) /\ Len(stack) = 0
      BY <2>0, EmptySeq DEF SessionInv, TypeInv, TypeOK
    <3>5. DOMAIN stack' = 1 .. 1 /\ stack'[1] = Call(op, w)
      BY <3>2, <3>3, <3>4, PushProperties
    <3> QED BY <3>3, <3>5 DEF PassedHandled
  <2> QED BY <2>1, <2>2
<1>3. ASSUME NEW c \in choosers, ChooserAccept(c) \/ ChooserCancel(c)
      PROVE  PassedHandled'
  <2>1. stack' = <<>>
    BY <1>3 DEF ChooserAccept, ChooserCancel, Idle
  <2> QED BY <2>1, NoCalls
<1>4. ASSUME NEW f \in File, NEW answer \in {"agreed", "dismissed"}, SaveAsAccept(f, answer)
      PROVE  PassedHandled'
  <2>1. /\ stack # <<>> /\ Last(stack).op = "save_as" /\ Alive
        /\ UNCHANGED <<window_list, kept, critical>>
        /\ stack' = Front(stack) \/ stack' = stack
    BY <1>4 DEF SaveAsAccept, Calling
  <2> QED BY <1>s, <2>1, ExitPopSame
<1>5. CASE SaveAsTooLate
  <2>1. ~Alive'
    BY <1>5 DEF SaveAsTooLate, Alive, Fatal
  <2> QED BY <2>1 DEF PassedHandled
<1>6. CASE SaveAsCancel
  <2>1. /\ stack # <<>> /\ Last(stack).op = "save_as" /\ Alive
        /\ UNCHANGED <<window_list, kept>> /\ stack' = Front(stack)
    BY <1>6 DEF SaveAsCancel, Calling
  <2> QED BY <2>1, ExitPopSame
<1>7. CASE AskSave
  BY <1>7, ExitSaves
<1>8. CASE AskDiscard
  <2>1. /\ stack # <<>> /\ Alive /\ Last(stack).win \in Windows
        /\ DestroyWindow(Last(stack).win) /\ UNCHANGED kept /\ stack' = Front(stack)
    BY <1>8 DEF AskDiscard, Calling
  <2> QED BY <2>1, ExitPopDestroyed
<1>9. ASSUME stack # <<>>, Last(stack).op \in {"ask", "close"}, Keep(Last(stack).win),
             UNCHANGED window_list, stack' = Front(stack), Alive
      PROVE  PassedHandled'
  <2>1. Exiting => Last(stack).win \in kept' /\ kept \subseteq kept'
    BY <1>9 DEF Keep
  <2>2. (\E i \in DOMAIN stack' : stack'[i].op = "exit") => Exiting
    <3>1. /\ Len(stack) \in Nat \ {0}
          /\ DOMAIN stack = 1 .. Len(stack)
          /\ DOMAIN stack' = 1 .. Len(stack) - 1
          /\ \A i \in 1 .. Len(stack) - 1 : stack'[i] = stack[i]
      BY <1>9, Returned DEF SessionInv, TypeInv
    <3> QED BY <3>1 DEF Exiting
  <2> QED BY <1>9, <2>1, <2>2, ExitPopSame
<1>10. CASE AskCancel
  <2>1. /\ stack # <<>> /\ Last(stack).op = "ask" /\ Keep(Last(stack).win) /\ Alive
        /\ UNCHANGED window_list /\ stack' = Front(stack)
    BY <1>10 DEF AskCancel, Calling
  <2> QED BY <1>9, <2>1
<1>11. CASE CloseAfterSave
  <2>1. stack # <<>> /\ Last(stack).op = "close" /\ Alive /\ stack' = Front(stack)
    BY <1>11 DEF CloseAfterSave, Calling
  <2>2. CASE saved_flag
    <3>1. Last(stack).win \in Windows /\ DestroyWindow(Last(stack).win) /\ UNCHANGED kept
      BY <1>11, <2>2 DEF CloseAfterSave, SessionInv, CallsInv, SavedIsClean
    <3> QED BY <2>1, <3>1, ExitPopDestroyed
  <2>3. CASE ~saved_flag
    <3>1. Keep(Last(stack).win) /\ UNCHANGED window_list
      BY <1>11, <2>3 DEF CloseAfterSave
    <3> QED BY <1>9, <2>1, <3>1
  <2> QED BY <2>2, <2>3
<1>12. CASE FileExit \/ ClientDie
  BY <1>12, ExitStarts DEF FileExit, ClientDie, Idle
<1>13. CASE ExitNext
  <2>1. CASE Last(stack).win \in Windows
    BY <1>13, <2>1, ExitTurns
  <2>2. CASE Last(stack).win \notin Windows
    <3>1. ~Alive'
      BY <1>13, <2>2 DEF ExitNext, Alive, Fatal
    <3> QED BY <3>1 DEF PassedHandled
  <2> QED BY <2>1, <2>2
<1>14. CASE ExitDone
  <2>1. /\ stack # <<>> /\ Last(stack).op = "exit" /\ Alive
        /\ UNCHANGED window_list /\ stack' = Front(stack)
        /\ (\E i \in DOMAIN stack' : stack'[i].op = "exit") => kept' = kept
    BY <1>14 DEF ExitDone, Calling
  <2> QED BY <2>1, ExitPopSame
<1> QED BY <1>1, <1>2, <1>3, <1>4, <1>5, <1>6, <1>7, <1>8, <1>10, <1>11, <1>12, <1>13, <1>14
     DEF Next

---------------------------------------------------------------------------
(* The theorems.                                                           *)

\* The session starts in the invariant.
LEMMA SessionStarts ==
  Init => SessionInv
<1> SUFFICES ASSUME Init
             PROVE  SessionInv
  OBVIOUS
<1>1. PICK w \in Win : /\ window_list = <<w>>
                       /\ \E blank \in BOOLEAN :
                            docs = [v \in Win |-> IF v = w /\ blank
                              THEN [file |-> Nil, modified |-> FALSE, content |-> {}] ELSE Nil]
  BY DEF Init
<1>2. window_list \in Seq(Win) /\ Len(window_list) = 1 /\ DOMAIN window_list = 1 .. 1
      /\ window_list[1] = w
  BY <1>1
<1>3. Windows = {w} /\ IsInjective(window_list) /\ window_list # <<>>
  BY <1>1, <1>2 DEF Windows, Range, IsInjective
<1>4. docs \in [Win -> Doc \cup {Nil}] /\ \A v \in Win \ Windows : docs[v] = Nil
  <2>1. [file |-> Nil, modified |-> FALSE, content |-> {}] \in Doc
    BY DEF Doc
  <2> QED BY <1>1, <1>3, <2>1
<1>5. \A v \in Win : docs[v] # Nil => docs[v].content = {}
  BY <1>1
<1>6. stack \in Seq(Frame) /\ DOMAIN stack = {}
  BY DEF Init
<1>7. IsFiniteSet(choosers) /\ Cardinality(choosers) <= MaxChooser
  BY FS_EmptySet, SessionAssumption DEF Init
<1>8. TypeInv
  <2>1. choosers \subseteq Chooser /\ kept \subseteq Win /\ made \subseteq Token
        /\ excused \subseteq Token \X Cause /\ critical \subseteq Fatal \cup {"open_response"}
    BY DEF Init
  <2>2. dies \in 0 .. MaxDie
    BY SessionAssumption DEF Init
  <2>3. disk \in [File -> (SUBSET Token) \cup {Missing, Damaged}]
    BY DEF Init
  <2>4. saved_flag \in BOOLEAN /\ running = (window_list # <<>>)
    BY <1>3 DEF Init
  <2> QED BY <1>2, <1>3, <1>4, <1>6, <1>7, <2>1, <2>2, <2>3, <2>4 DEF TypeInv, TypeOK
<1>9. CallsInv /\ CallsHaveWindows /\ LoneCalls /\ PassedHandled
  BY <1>6 DEF Init, CallsInv, WindowsInUse, SaveAsOverClose, SavedIsClean, Calling,
              CallsHaveWindows, LoneCalls, PassedHandled
<1>10. EmptyHasNoEdits /\ EditsAccounted
  BY <1>3, <1>5 DEF Init, EmptyHasNoEdits, EditsAccounted
<1> QED BY <1>8, <1>9, <1>10 DEF SessionInv

\* The invariant of the session holds at all times.
THEOREM SessionInvariant ==
  Spec => []SessionInv
<1>1. SessionInv /\ [Next]_vars => SessionInv'
  BY TypeStep, CallsStep, EditsStep, LoneStep, ExitStep DEF SessionInv, EditInv, LoneInv
<1> QED BY <1>1, SessionStarts, PTL DEF Spec

\* The variables keep their types, a window is in the list once, and only
\* windows in the list show documents.
THEOREM SessionTypeCorrect ==
  Spec => []TypeOK
<1>1. SessionInv => TypeOK
  BY DEF SessionInv, TypeInv
<1> QED BY <1>1, SessionInvariant, PTL

\* A window that New, Open or Import take over without a question holds no
\* edit.
THEOREM EmptyNeverHasEdits ==
  Spec => []EmptyHasNoEdits
<1>1. SessionInv => EmptyHasNoEdits
  BY DEF SessionInv
<1> QED BY <1>1, SessionInvariant, PTL

\* An edit is in a file or in a document that will be asked about, or its loss
\* has one of the recorded causes.
THEOREM EditsAlwaysAccounted ==
  Spec => []EditsAccounted
<1>1. SessionInv => EditsAccounted
  BY DEF SessionInv
<1> QED BY <1>1, SessionInvariant, PTL

\* Without a "die", what gb_file_close and the exit loop hold on to across a
\* nested main loop is there when they come back to it.
THEOREM CallsAlwaysHaveWindows ==
  Spec => []CallsHaveWindows
<1>1. SessionInv => CallsHaveWindows
  BY DEF SessionInv
<1> QED BY <1>1, SessionInvariant, PTL

\* gb_file_exit skips no window, however many there are and whatever dies
\* arrive while it asks.
THEOREM ExitAlwaysLeavesOnlyKept ==
  Spec => []ExitLeavesOnlyKept
<1>1. SessionInv => ExitLeavesOnlyKept
  <2> SUFFICES ASSUME SessionInv, Alive, Calling("exit"), Last(stack).win = Nil,
                      NEW v \in Windows
               PROVE  v \in kept
    BY DEF ExitLeavesOnlyKept
  <2>1. stack # <<>> /\ Last(stack).op = "exit"
    BY DEF Calling
  <2>2. /\ Len(stack) \in Nat \ {0} /\ DOMAIN stack = 1 .. Len(stack)
        /\ Last(stack) = stack[Len(stack)]
    BY <2>1, Returned DEF SessionInv, TypeInv
  <2>3. Len(stack) \in DOMAIN stack /\ ~ \E j \in DOMAIN stack : j > Len(stack)
    BY <2>2
  <2> QED BY <2>1, <2>2, <2>3 DEF SessionInv, PassedHandled, Passed
<1> QED BY <1>1, SessionInvariant, PTL
=============================================================================
