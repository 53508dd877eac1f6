---------------------------- MODULE GbViewProofs ----------------------------
(***************************************************************************)
(* What the windows show is true for any number of windows, documents,     *)
(* bonds, tables and operations.                                           *)
(***************************************************************************)
EXTENDS GbView, NaturalsInduction, WellFoundedInduction, TLAPS

\* A view has its four fields, and selects rows it has.
IsView(v) ==
  /\ v \in [rows : {v.rows}, rdate : {v.rdate},
            popdown : {v.popdown}, selected : {v.selected}]
  /\ v.selected \subseteq DOMAIN v.rows

\* The rows of a view are those of a list of bonds.
Fits(v, list) ==
  /\ DOMAIN v.rows = IF v.rdate = NoDate THEN {} ELSE list
  /\ \A b \in DOMAIN v.rows : Nopay(b, v.rdate) => v.rows[b].nopay_flag

\* Who shows what: no document is in two windows, and only a document that has
\* been given a view is in any.
ShownInv ==
  /\ open \subseteq Window
  /\ shown \in [Window -> Doc \cup {None}]
  /\ \A w \in Window : shown[w] # None => w \in open /\ shown[w] \in connected
  /\ \A v, w \in Window : shown[v] = shown[w] /\ shown[w] # None => v = w

DataInv ==
  /\ doc \in [Doc -> Document]
  /\ view = [d \in Doc |-> view[d]]
  /\ \A d \in Doc : IsView(view[d])

\* What one window tells of the document it shows.
WindowTrue(w) ==
  /\ window_title[w] = IF shown[w] = None THEN None ELSE TitleOf(shown[w], doc[shown[w]])
  /\ w \in doc_verbs <=> shown[w] # None
  /\ w \in modified_verbs <=> shown[w] # None /\ doc[shown[w]].modified
  /\ w \in selection_verbs <=> shown[w] # None /\ view[shown[w]].selected # {}
  /\ shown[w] # None => Fits(view[shown[w]], doc[shown[w]].list)

WindowsInv ==
  /\ window_title = [w \in Window |-> window_title[w]]
  /\ doc_verbs \subseteq Window
  /\ modified_verbs \subseteq Window
  /\ selection_verbs \subseteq Window
  /\ \A w \in Window : WindowTrue(w)

ViewInv == ShownInv /\ DataInv /\ WindowsInv

---------------------------------------------------------------------------
Row == [value : {"issue price", "table", "nothing"}, nopay_flag : BOOLEAN]

\* The value and the mark of a bond, case by case.
LEMMA ValueCases ==
  ASSUME NEW tables, NEW nopay \in BOOLEAN, NEW rdate
  PROVE  LET row == GetValue(tables, nopay, rdate)
         IN  /\ nopay => row = [value |-> "issue price", nopay_flag |-> TRUE]
             /\ ~nopay /\ rdate \in Months(tables) =>
                  row = [value |-> "table", nopay_flag |-> FALSE]
             /\ ~nopay /\ rdate \notin Months(tables) =>
                  row = [value |-> "nothing", nopay_flag |-> TRUE]
<1>1. CASE nopay
  BY <1>1 DEF GetValue
<1>2. CASE ~nopay /\ rdate \in Months(tables)
  BY <1>2 DEF GetValue
<1>3. CASE ~nopay /\ rdate \notin Months(tables)
  BY <1>3 DEF GetValue
<1> QED BY <1>1, <1>2, <1>3

LEMMA RowMarks ==
  ASSUME NEW b, NEW rdate
  PROVE  LET row == GetValue(table, Nopay(b, rdate), rdate)
         IN  /\ row \in Row
             /\ Nopay(b, rdate) => row.nopay_flag = TRUE
             /\ rdate \notin Months(table) => row.nopay_flag = TRUE
<1> DEFINE nopay == Nopay(b, rdate)
           row == GetValue(table, nopay, rdate)
<1>1. nopay \in BOOLEAN
  BY DEF Nopay
<1>2. /\ nopay => row = [value |-> "issue price", nopay_flag |-> TRUE]
      /\ ~nopay /\ rdate \in Months(table) =>
           row = [value |-> "table", nopay_flag |-> FALSE]
      /\ ~nopay /\ rdate \notin Months(table) =>
           row = [value |-> "nothing", nopay_flag |-> TRUE]
  BY <1>1, ValueCases
<1>3. /\ [value |-> "issue price", nopay_flag |-> TRUE] \in Row
      /\ [value |-> "table", nopay_flag |-> FALSE] \in Row
      /\ [value |-> "nothing", nopay_flag |-> TRUE] \in Row
      /\ [value |-> "issue price", nopay_flag |-> TRUE].nopay_flag = TRUE
      /\ [value |-> "nothing", nopay_flag |-> TRUE].nopay_flag = TRUE
  BY DEF Row
<1> HIDE DEF row, nopay
<1>4. /\ row \in Row
      /\ nopay => row.nopay_flag = TRUE
      /\ rdate \notin Months(table) => row.nopay_flag = TRUE
  BY <1>1, <1>2, <1>3, Zenon
<1> QED BY <1>4 DEF row, nopay

\* update_view makes the rows of the list and leaves the rest of the view.
LEMMA UpdateViewFits ==
  ASSUME NEW v, IsView(v), NEW list \in SUBSET Bond
  PROVE  LET u == UpdateView(v, list)
         IN  IsView(u) /\ Fits(u, list) /\ u.rdate = v.rdate
<1> DEFINE u == UpdateView(v, list)
           rows == RowsOf(list, v.rdate)
<1>1. u = [rows |-> rows, rdate |-> v.rdate, popdown |-> v.popdown,
           selected |-> v.selected \cap DOMAIN rows]
  <2> HIDE DEF rows
  <2>1. u = [v EXCEPT !.rows = rows, !.selected = v.selected \cap DOMAIN rows]
    BY DEF UpdateView, rows
  <2> QED BY <2>1 DEF IsView
<1>2. DOMAIN rows = IF v.rdate = NoDate THEN {} ELSE list
  BY DEF RowsOf
<1>3. \A b \in DOMAIN rows : Nopay(b, v.rdate) => rows[b].nopay_flag
  <2> SUFFICES ASSUME NEW b \in DOMAIN rows, Nopay(b, v.rdate)
               PROVE  rows[b].nopay_flag
    OBVIOUS
  <2>1. rows[b] = GetValue(table, Nopay(b, v.rdate), v.rdate)
    BY DEF RowsOf
  <2>2. rows[b].nopay_flag = TRUE
    <3> HIDE DEF rows
    <3> QED BY <2>1, RowMarks
  <2> QED BY <2>2
<1>4. IsView(u) /\ Fits(u, list) /\ u.rdate = v.rdate
  <2> HIDE DEF rows, u
  <2> QED BY <1>1, <1>2, <1>3 DEF IsView, Fits
<1> QED BY <1>4

\* A window nothing happens to, nor to the document it shows, goes on being true.
LEMMA WindowKept ==
  ASSUME NEW w \in Window, WindowTrue(w),
         shown'[w] = shown[w], window_title'[w] = window_title[w],
         shown[w] # None => /\ doc'[shown[w]] = doc[shown[w]]
                            /\ view'[shown[w]] = view[shown[w]],
         w \in doc_verbs' <=> w \in doc_verbs,
         w \in modified_verbs' <=> w \in modified_verbs,
         w \in selection_verbs' <=> w \in selection_verbs
  PROVE  WindowTrue(w)'
<1>1. CASE shown[w] = None
  BY <1>1 DEF WindowTrue
<1>2. CASE shown[w] # None
  <2>1. TitleOf(shown[w], doc[shown[w]])' = TitleOf(shown[w], doc[shown[w]])
    BY <1>2 DEF TitleOf
  <2>2. Fits(view[shown[w]], doc[shown[w]].list)'
    BY <1>2 DEF WindowTrue, Fits, Nopay
  <2> QED BY <1>2, <2>1, <2>2 DEF WindowTrue
<1> QED BY <1>1, <1>2

LEMMA ViewInit == Init => ViewInv
  BY ViewAssumption
     DEF Init, ViewInv, ShownInv, DataInv, WindowsInv, WindowTrue, NewDoc, NoView,
         Document, IsView

\* A new document in a window: gb_window_set_doc.
LEMMA PlaceKeeps ==
  ASSUME ViewInv, NEW w \in Window, NEW D \in Document, PlaceDoc(w, D)
  PROVE  ViewInv'
<1>1. PICK d \in Doc \ connected, today \in Today,
           v \in IF IsEmpty(w) THEN {w} ELSE Window \ open :
        SetDoc(v, d, D, today) /\ open' = open \cup {v}
  BY DEF PlaceDoc
<1> DEFINE clean == [D EXCEPT !.modified = FALSE]
           old   == shown[v]
           fresh == NewView(clean, today)
<1>2. v \in Window /\ d \in Doc /\ d # None /\ d # old
  BY <1>1, ViewAssumption DEF ViewInv, ShownInv
<1>3. clean \in Document /\ ~clean.modified
  BY DEF Document
<1>4. IsView(fresh) /\ Fits(fresh, clean.list) /\ fresh.selected = {}
  <2> DEFINE bare == [NoView EXCEPT !.rdate = BestRdateToday(table, today),
                                    !.popdown = RdateList(table, rdate_range)]
  <2>1. IsView(bare) /\ bare.selected = {}
    BY DEF NoView, IsView
  <2>2. clean.list \in SUBSET Bond
    BY <1>3 DEF Document
  <2>3. fresh = UpdateView(bare, clean.list)
    BY DEF NewView
  <2>4. fresh.selected \subseteq bare.selected
    <3> HIDE DEF bare, clean, fresh
    <3> QED BY <2>1, <2>3 DEF UpdateView, IsView
  <2> HIDE DEF bare, clean, fresh
  <2> QED BY <2>1, <2>2, <2>3, <2>4, UpdateViewFits
<1>5. /\ shown' = [shown EXCEPT ![v] = d]
      /\ doc'   = [x \in Doc |-> CASE x = d -> clean
                                   [] x # d /\ x = old -> NewDoc
                                   [] x # d /\ x # old -> doc[x]]
      /\ view'  = [x \in Doc |-> CASE x = d -> fresh
                                   [] x # d /\ x = old -> NoView
                                   [] x # d /\ x # old -> view[x]]
      /\ window_title' = [window_title EXCEPT ![v] = TitleOf(d, clean)]
      /\ doc_verbs' = doc_verbs \cup {v}
      /\ modified_verbs' = modified_verbs \ {v}
      /\ selection_verbs' = selection_verbs \ {v}
      /\ connected' = connected \cup {d}
      /\ open' = open \cup {v}
  BY <1>1 DEF SetDoc
<1> HIDE DEF clean, old, fresh
<1>6. ShownInv'
  BY <1>2, <1>5 DEF ViewInv, ShownInv
<1>7. /\ doc'[d] = clean /\ view'[d] = fresh
      /\ \A x \in Doc : x # d /\ x # old => doc'[x] = doc[x] /\ view'[x] = view[x]
      /\ old \in Doc => doc'[old] = NewDoc /\ view'[old] = NoView
  BY <1>2, <1>5
<1>8. NewDoc \in Document /\ IsView(NoView)
  BY DEF NewDoc, NoView, Document, IsView
<1>9. DataInv'
  <2>1. \A x \in Doc : doc'[x] \in Document /\ IsView(view'[x])
    BY <1>3, <1>4, <1>7, <1>8 DEF ViewInv, DataInv
  <2> QED BY <1>5, <2>1 DEF DataInv
<1>10. \A x \in Window : WindowTrue(x)'
  <2> SUFFICES ASSUME NEW x \in Window PROVE WindowTrue(x)'
    OBVIOUS
  <2>1. CASE x = v
    BY <1>2, <1>3, <1>4, <1>5, <1>7, <2>1, ZenonT(60)
       DEF WindowTrue, ViewInv, ShownInv, WindowsInv, Fits, TitleOf, Nopay
  <2>2. CASE x # v
    <3>1. shown'[x] = shown[x] /\ (shown[x] # None => shown[x] # d /\ shown[x] # old)
      BY <1>2, <1>5, <2>2 DEF ViewInv, ShownInv, old
    <3>2. shown[x] # None => doc'[shown[x]] = doc[shown[x]] /\ view'[shown[x]] = view[shown[x]]
      BY <1>7, <3>1 DEF ViewInv, ShownInv
    <3>3. window_title'[x] = window_title[x]
      BY <1>5, <2>2 DEF ViewInv, WindowsInv
    <3> QED BY <1>5, <2>2, <3>1, <3>2, <3>3, WindowKept DEF ViewInv, WindowsInv
  <2> QED BY <2>1, <2>2
<1>11. WindowsInv'
  BY <1>2, <1>5, <1>10 DEF ViewInv, WindowsInv
<1> QED BY <1>6, <1>9, <1>11 DEF ViewInv

---------------------------------------------------------------------------
\* The bars and verbs of the window that shows d, and of no other, follow it.
Follows(w, d) ==
  /\ window_title' = [x \in Window |-> IF x = w THEN TitleOf(d, doc'[d]) ELSE window_title[x]]
  /\ modified_verbs' = {x \in Window : IF x = w THEN doc'[d].modified
                                        ELSE x \in modified_verbs}
  /\ selection_verbs' = {x \in Window : IF x = w THEN view'[d].selected # {}
                                         ELSE x \in selection_verbs}

\* A document changed by its window, with its view and all that follows it.
LEMMA DocumentChanged ==
  ASSUME ViewInv, NEW w \in Window, NEW d \in Doc, shown[w] = d,
         UNCHANGED <<open, shown, doc_verbs, connected>>,
         NEW D \in Document, doc' = [doc EXCEPT ![d] = D],
         NEW V, view' = [view EXCEPT ![d] = V], IsView(V), Fits(V, D.list),
         Follows(w, d)
  PROVE  ViewInv'
<1>1. ShownInv'
  BY DEF ViewInv, ShownInv
<1>2. doc'[d] = D /\ view'[d] = V
  BY DEF ViewInv, DataInv
<1>3. DataInv'
  BY DEF ViewInv, DataInv
<1>4. \A x \in Window : WindowTrue(x)'
  <2> SUFFICES ASSUME NEW x \in Window PROVE WindowTrue(x)'
    OBVIOUS
  <2>1. CASE x = w
    <3>1. d # None
      BY ViewAssumption DEF ViewAssumption
    <3>2. w \in doc_verbs'
      BY <3>1 DEF ViewInv, WindowsInv, WindowTrue
    <3>3. Fits(view[shown[x]], doc[shown[x]].list)'
      BY <1>2, <2>1 DEF Fits, Nopay
    <3> QED BY <1>2, <2>1, <3>1, <3>2, <3>3 DEF WindowTrue, Follows, TitleOf
  <2>2. CASE x # w
    <3>1. shown[x] # None => shown[x] \in Doc /\ shown[x] # d
      BY <2>2 DEF ViewInv, ShownInv
    <3>2. shown[x] # None => doc'[shown[x]] = doc[shown[x]] /\ view'[shown[x]] = view[shown[x]]
      BY <3>1 DEF ViewInv, DataInv
    <3>3. window_title'[x] = window_title[x]
      BY <2>2 DEF Follows
    <3>4. /\ x \in modified_verbs' <=> x \in modified_verbs
          /\ x \in selection_verbs' <=> x \in selection_verbs
      BY <2>2 DEF Follows
    <3> QED BY <3>2, <3>3, <3>4, WindowKept DEF ViewInv, WindowsInv
  <2> QED BY <2>1, <2>2
<1>5. WindowsInv'
  BY <1>4 DEF ViewInv, WindowsInv, Follows
<1> QED BY <1>1, <1>3, <1>5 DEF ViewInv

\* Whoever has a verb that needs a document has a document.
LEMMA VerbHasDocument ==
  ASSUME ViewInv, NEW w \in Window,
         w \in doc_verbs \/ w \in modified_verbs \/ w \in selection_verbs
  PROVE  shown[w] \in Doc
  BY DEF ViewInv, ShownInv, WindowsInv, WindowTrue

\* "name_changed", "modified_changed" and the tree selection's "changed" reach
\* the window, also where modified_changed_cb has nothing to do.
LEMMA SignalsFollow ==
  ASSUME ViewInv, NEW w \in Window, NEW d \in Doc, shown[w] = d,
         \/ NameChanged(d) /\ ModifiedVerbs(d)
         \/ /\ ModifiedChanged(d)
            /\ TitleOf(d, doc'[d]).name = TitleOf(d, doc[d]).name,
         \/ SelectionChanged(d)
         \/ UNCHANGED selection_verbs /\ view'[d] = view[d]
  PROVE  Follows(w, d)
<1>1. d # None /\ \A x \in Window : shown[x] = d <=> x = w
  BY ViewAssumption DEF ViewInv, ShownInv
<1>2. WindowTrue(w) /\ window_title = [x \in Window |-> window_title[x]]
      /\ modified_verbs \subseteq Window /\ selection_verbs \subseteq Window
  BY DEF ViewInv, WindowsInv
<1>3. NameChanged(d) => window_title' =
        [x \in Window |-> IF x = w THEN TitleOf(d, doc'[d]) ELSE window_title[x]]
  BY <1>1 DEF NameChanged
<1>4. ModifiedVerbs(d) => modified_verbs' =
        {x \in Window : IF x = w THEN doc'[d].modified ELSE x \in modified_verbs}
  BY <1>1 DEF ModifiedVerbs
<1>5. ASSUME ModifiedChanged(d), doc'[d].modified = doc[d].modified,
             TitleOf(d, doc'[d]).name = TitleOf(d, doc[d]).name
      PROVE  /\ window_title' = [x \in Window |-> IF x = w THEN TitleOf(d, doc'[d])
                                                   ELSE window_title[x]]
             /\ modified_verbs' = {x \in Window : IF x = w THEN doc'[d].modified
                                                   ELSE x \in modified_verbs}
  <2>1. UNCHANGED <<window_title, modified_verbs>>
    BY <1>5 DEF ModifiedChanged
  <2>2. TitleOf(d, doc'[d]) = TitleOf(d, doc[d])
    BY <1>5 DEF TitleOf
  <2>3. window_title[w] = TitleOf(d, doc[d]) /\ (w \in modified_verbs <=> doc[d].modified)
    BY <1>1, <1>2 DEF WindowTrue
  <2>4. window_title' = [x \in Window |-> IF x = w THEN TitleOf(d, doc'[d])
                                          ELSE window_title[x]]
    BY <1>2, <2>1, <2>2, <2>3, Zenon
  <2>5. modified_verbs' = {x \in Window : IF x = w THEN doc'[d].modified
                                          ELSE x \in modified_verbs}
    BY <1>2, <1>5, <2>1, <2>3
  <2> QED BY <2>4, <2>5
<1>6. /\ window_title' = [x \in Window |-> IF x = w THEN TitleOf(d, doc'[d])
                                            ELSE window_title[x]]
      /\ modified_verbs' = {x \in Window : IF x = w THEN doc'[d].modified
                                            ELSE x \in modified_verbs}
  BY <1>3, <1>4, <1>5 DEF ModifiedChanged
<1>7. selection_verbs' = {x \in Window : IF x = w THEN view'[d].selected # {}
                                         ELSE x \in selection_verbs}
  BY <1>1, <1>2 DEF SelectionChanged, WindowTrue
<1> QED BY <1>6, <1>7 DEF Follows

---------------------------------------------------------------------------
\* gb_doc_add_bond, gb_doc_delete_bond and gb_doc_set_title: a new list or
\* title, the rows of the view anew, and the signals.
LEMMA EditKeeps ==
  ASSUME ViewInv, NEW w \in Window, NEW d \in Doc, shown[w] = d,
         UNCHANGED <<open, shown, doc_verbs, connected>>,
         NEW D \in Document, doc' = [doc EXCEPT ![d] = D],
         view' = [view EXCEPT ![d] = UpdateView(@, doc'[d].list)],
         SelectionChanged(d),
         \/ NameChanged(d) /\ ModifiedVerbs(d)
         \/ ModifiedChanged(d) /\ D.title = doc[d].title /\ D.filename = doc[d].filename
  PROVE  ViewInv'
<1>1. doc'[d] = D /\ IsView(view[d]) /\ view = [x \in Doc |-> view[x]]
  BY DEF ViewInv, DataInv
<1>2. D.list \in SUBSET Bond
  BY DEF Document
<1> DEFINE V == UpdateView(view[d], D.list)
<1>3. IsView(V) /\ Fits(V, D.list)
  BY <1>1, <1>2, UpdateViewFits
<1>4. view' = [view EXCEPT ![d] = V]
  BY <1>1
<1>5. ModifiedChanged(d) /\ D.title = doc[d].title /\ D.filename = doc[d].filename
        => TitleOf(d, doc'[d]).name = TitleOf(d, doc[d]).name
  BY <1>1 DEF TitleOf
<1>6. Follows(w, d)
  BY <1>5, SignalsFollow
<1> HIDE DEF V
<1> QED BY <1>3, <1>4, <1>6, DocumentChanged

LEMMA AddBondKeeps ==
  ASSUME ViewInv, NEW w \in Window, NEW b \in Bond, AddBond(w, b) PROVE ViewInv'
<1> DEFINE d == shown[w]
           D == [doc[d] EXCEPT !.list = @ \cup {b}, !.modified = TRUE]
<1>1. d \in Doc
  BY VerbHasDocument DEF AddBond, Can
<1>2. doc[d] \in Document /\ doc = [x \in Doc |-> doc[x]]
  BY <1>1 DEF ViewInv, DataInv
<1>3. D \in Document /\ D.title = doc[d].title /\ D.filename = doc[d].filename
  BY <1>2 DEF Document
<1>4. doc' = [doc EXCEPT ![d] = D]
  BY <1>1, <1>2 DEF AddBond, Document
<1> HIDE DEF D
<1> QED BY <1>1, <1>3, <1>4, EditKeeps DEF AddBond, Same, Shows

LEMMA DeleteBondKeeps ==
  ASSUME ViewInv, NEW w \in Window, NEW b \in Bond, DeleteBond(w, b) PROVE ViewInv'
<1> DEFINE d == shown[w]
           D == [doc[d] EXCEPT !.list = @ \ {b}, !.modified = TRUE]
<1>1. d \in Doc
  BY VerbHasDocument DEF DeleteBond, Can
<1>2. doc[d] \in Document /\ doc = [x \in Doc |-> doc[x]]
  BY <1>1 DEF ViewInv, DataInv
<1>3. D \in Document /\ D.title = doc[d].title /\ D.filename = doc[d].filename
  BY <1>2 DEF Document
<1>4. doc' = [doc EXCEPT ![d] = D]
  BY <1>1, <1>2 DEF DeleteBond, Document
<1> HIDE DEF D
<1> QED BY <1>1, <1>3, <1>4, EditKeeps DEF DeleteBond, Same, Shows

LEMMA SetTitleKeeps ==
  ASSUME ViewInv, NEW w \in Window, NEW t \in Title, SetTitle(w, t) PROVE ViewInv'
<1> DEFINE d == shown[w]
           D == [doc[d] EXCEPT !.title = t, !.modified = TRUE]
<1>1. d \in Doc
  BY VerbHasDocument DEF SetTitle, Can
<1>2. doc[d] \in Document /\ doc = [x \in Doc |-> doc[x]]
  BY <1>1 DEF ViewInv, DataInv
<1>3. D \in Document
  BY <1>2 DEF Document
<1>4. doc' = [doc EXCEPT ![d] = D]
  BY <1>1, <1>2 DEF SetTitle, Document
<1> HIDE DEF D
<1> QED BY <1>1, <1>3, <1>4, EditKeeps DEF SetTitle, Same, Shows

\* What a window shows fits its document, before anything happens to it.
LEMMA ShownFits ==
  ASSUME ViewInv, NEW w \in Window, NEW d \in Doc, shown[w] = d
  PROVE  IsView(view[d]) /\ Fits(view[d], doc[d].list)
  BY ViewAssumption DEF ViewInv, DataInv, WindowsInv, WindowTrue

\* A view without its selection is the view otherwise.
LEMMA Unselected ==
  ASSUME NEW v, IsView(v)
  PROVE  LET u == [v EXCEPT !.selected = {}]
         IN  /\ IsView(u) /\ u.rows = v.rows /\ u.rdate = v.rdate
             /\ u.popdown = v.popdown /\ u.selected = {}
  BY DEF IsView

\* The answer to a paste, whatever bonds it brings.
LEMMA ReceivedKeeps ==
  ASSUME ViewInv, NEW w \in Window, NEW d \in Doc, shown[w] = d,
         UNCHANGED <<open, shown, doc_verbs, connected>>,
         NEW bonds \in SUBSET Bond, Received(d, bonds)
  PROVE  ViewInv'
<1> DEFINE D == [doc[d] EXCEPT !.list = @ \cup bonds, !.modified = @ \/ bonds # {}]
           T == Taken(view[d], doc[d].list, bonds)
           V == [T EXCEPT !.selected = {}]
<1>1. doc[d] \in Document /\ doc = [x \in Doc |-> doc[x]] /\ view = [x \in Doc |-> view[x]]
  BY DEF ViewInv, DataInv
<1>2. D \in Document /\ D.title = doc[d].title /\ D.filename = doc[d].filename
      /\ D.list = doc[d].list \cup bonds
  BY <1>1 DEF Document
<1>3. doc' = [doc EXCEPT ![d] = D] /\ doc'[d] = D
  BY <1>1 DEF Received, Document
<1>4. view' = [view EXCEPT ![d] = V]
  BY <1>1 DEF Received
<1>5. IsView(view[d]) /\ Fits(view[d], doc[d].list)
  BY ShownFits
<1>6. IsView(T) /\ Fits(T, D.list)
  <2>1. CASE bonds = {}
    BY <1>2, <1>5, <2>1 DEF Taken
  <2>2. CASE bonds # {}
    <3>1. T = UpdateView(view[d], D.list) /\ D.list \in SUBSET Bond
      BY <1>2, <2>2 DEF Taken, Document
    <3> HIDE DEF T
    <3> QED BY <1>5, <3>1, UpdateViewFits
  <2> QED BY <2>1, <2>2
<1>7. IsView(V) /\ Fits(V, D.list)
  <2>1. IsView(V) /\ V.rows = T.rows /\ V.rdate = T.rdate
    <3> HIDE DEF T
    <3> QED BY <1>6, Unselected
  <2> HIDE DEF V, T
  <2> QED BY <1>6, <2>1 DEF Fits
<1>8. TitleOf(d, doc'[d]).name = TitleOf(d, doc[d]).name
  BY <1>2, <1>3 DEF TitleOf
<1>9. Follows(w, d)
  BY <1>8, SignalsFollow DEF Received
<1> HIDE DEF D, V, T
<1> QED BY <1>2, <1>3, <1>4, <1>7, <1>9, DocumentChanged

LEMMA SaveKeeps ==
  ASSUME ViewInv, NEW w \in Window, shown[w] \in Doc,
         NEW f \in File, XmlSave(w, f), Same
  PROVE  ViewInv'
<1> DEFINE d == shown[w]
           D == [doc[d] EXCEPT !.filename = f, !.modified = FALSE]
<1>1. doc[d] \in Document /\ doc = [x \in Doc |-> doc[x]] /\ view = [x \in Doc |-> view[x]]
  BY DEF ViewInv, DataInv
<1>2. D \in Document /\ D.list = doc[d].list
  BY <1>1 DEF Document
<1>3. doc' = [doc EXCEPT ![d] = D]
  BY <1>1 DEF XmlSave, Document
<1>4. view' = [view EXCEPT ![d] = view[d]]
  BY <1>1 DEF XmlSave
<1>5. Follows(w, d)
  BY SignalsFollow DEF XmlSave
<1> HIDE DEF D
<1> QED BY <1>2, <1>3, <1>4, <1>5, ShownFits, DocumentChanged DEF Same, Shows

LEMMA SelectKeeps ==
  ASSUME ViewInv, NEW w \in Window, NEW bonds \in SUBSET Bond, Select(w, bonds)
  PROVE  ViewInv'
<1> DEFINE d == shown[w]
           V == [view[d] EXCEPT !.selected = bonds]
<1>1. d \in Doc
  BY VerbHasDocument DEF Select, Can
<1>2. doc[d] \in Document /\ doc = [x \in Doc |-> doc[x]] /\ view = [x \in Doc |-> view[x]]
  BY <1>1 DEF ViewInv, DataInv
<1>3. IsView(view[d]) /\ Fits(view[d], doc[d].list)
  BY <1>1, ShownFits
<1>4. IsView(V) /\ V.rows = view[d].rows /\ V.rdate = view[d].rdate
  BY <1>3 DEF Select, IsView
<1>5. Fits(V, doc[d].list)
  BY <1>3, <1>4 DEF Fits
<1>6. view' = [view EXCEPT ![d] = V]
  BY <1>1, <1>2 DEF Select
<1>7. doc' = [doc EXCEPT ![d] = doc[d]] /\ doc'[d] = doc[d]
  BY <1>1, <1>2 DEF Select
<1>8. Follows(w, d)
  <2>1. ModifiedChanged(d)
    BY <1>7 DEF Select, ModifiedChanged
  <2> QED BY <1>1, <1>7, <2>1, SignalsFollow DEF Select
<1> HIDE DEF V
<1> QED BY <1>1, <1>2, <1>4, <1>5, <1>6, <1>7, <1>8, DocumentChanged DEF Select, Same, Shows

LEMMA PickRdateKeeps ==
  ASSUME ViewInv, NEW w \in Window, PickRdate(w) PROVE ViewInv'
<1> DEFINE d == shown[w]
<1>1. PICK rdate : view' = [view EXCEPT ![d] = UpdateView([view[d] EXCEPT !.rdate = rdate],
                                                          doc[d].list)]
  BY DEF PickRdate
<1> DEFINE U == [view[d] EXCEPT !.rdate = rdate]
           V == UpdateView(U, doc[d].list)
<1>2. d \in Doc
  BY VerbHasDocument DEF PickRdate, Can
<1>3. doc[d] \in Document /\ doc = [x \in Doc |-> doc[x]]
  BY <1>2 DEF ViewInv, DataInv
<1>4. IsView(view[d])
  BY <1>2, ShownFits
<1>5. IsView(U)
  BY <1>4 DEF IsView
<1>6. doc[d].list \in SUBSET Bond
  BY <1>3 DEF Document
<1>7. IsView(V) /\ Fits(V, doc[d].list)
  <2> HIDE DEF U
  <2> QED BY <1>5, <1>6, UpdateViewFits
<1>8. doc' = [doc EXCEPT ![d] = doc[d]] /\ doc'[d] = doc[d]
  BY <1>2, <1>3 DEF PickRdate
<1>9. Follows(w, d)
  <2>1. ModifiedChanged(d)
    BY <1>8 DEF PickRdate, ModifiedChanged
  <2> QED BY <1>2, <1>8, <2>1, SignalsFollow DEF PickRdate
<1>10. view' = [view EXCEPT ![d] = V]
  BY <1>1
<1> HIDE DEF V
<1> QED BY <1>2, <1>3, <1>7, <1>8, <1>9, <1>10, DocumentChanged DEF PickRdate, Same, Shows

\* gb_window_destroy takes the document and what was shown of it.
LEMMA CloseKeeps ==
  ASSUME ViewInv, NEW w \in open, FileClose(w) PROVE ViewInv'
<1>1. w \in Window
  BY DEF ViewInv, ShownInv
<1>2. ShownInv'
  BY <1>1 DEF FileClose, ViewInv, ShownInv
<1>3. DataInv'
  <2>1. NewDoc \in Document /\ IsView(NoView)
    BY DEF NewDoc, NoView, Document, IsView
  <2>2. \A d \in Doc : doc'[d] \in Document /\ IsView(view'[d])
    BY <2>1 DEF FileClose, ViewInv, DataInv
  <2> QED BY <2>2 DEF FileClose, DataInv
<1>4. \A x \in Window : WindowTrue(x)'
  <2> SUFFICES ASSUME NEW x \in Window PROVE WindowTrue(x)'
    OBVIOUS
  <2>1. CASE x = w
    BY <1>1, <2>1 DEF FileClose, WindowTrue, ViewInv, ShownInv, WindowsInv
  <2>2. CASE x # w
    <3>1. shown'[x] = shown[x] /\ window_title'[x] = window_title[x]
      BY <1>1, <2>2 DEF FileClose, ViewInv, ShownInv, WindowsInv
    <3>2. shown[x] # None => shown[x] \in Doc /\ shown[x] # shown[w]
      BY <1>1, <2>2 DEF ViewInv, ShownInv
    <3>3. shown[x] # None => doc'[shown[x]] = doc[shown[x]] /\ view'[shown[x]] = view[shown[x]]
      BY <3>2 DEF FileClose
    <3> QED BY <2>2, <3>1, <3>3, WindowKept DEF FileClose, ViewInv, WindowsInv
  <2> QED BY <2>1, <2>2
<1>5. WindowsInv'
  BY <1>1, <1>4 DEF FileClose, ViewInv, WindowsInv
<1> QED BY <1>2, <1>3, <1>5 DEF ViewInv

\* The handler of the table model leaves rows, date and selection alone.
LEMMA TablesKeep ==
  ASSUME ViewInv, NEW downloaded, NEW readable, UpdateTables(downloaded, readable)
  PROVE  ViewInv'
<1>1. \A d \in Doc : /\ IsView(view'[d]) /\ view'[d].selected = view[d].selected
                     /\ \A list : Fits(view[d], list) => Fits(view'[d], list)
  <2> SUFFICES ASSUME NEW d \in Doc
               PROVE  /\ IsView(view'[d]) /\ view'[d].selected = view[d].selected
                      /\ \A list : Fits(view[d], list) => Fits(view'[d], list)
    OBVIOUS
  <2>1. IsView(view[d])
    BY DEF ViewInv, DataInv
  <2>2. view'[d] = view[d] \/ \E dates : view'[d] = [view[d] EXCEPT !.popdown = dates]
    BY DEF UpdateTables, TableModelChanged
  <2>3. CASE view'[d] = view[d]
    BY <2>1, <2>3
  <2>4. ASSUME NEW dates, view'[d] = [view[d] EXCEPT !.popdown = dates]
        PROVE  /\ IsView(view'[d]) /\ view'[d].selected = view[d].selected
               /\ view'[d].rows = view[d].rows /\ view'[d].rdate = view[d].rdate
    BY <2>1, <2>4 DEF IsView
  <2>5. CASE \E dates : view'[d] = [view[d] EXCEPT !.popdown = dates]
    BY <2>4, <2>5 DEF Fits
  <2> QED BY <2>2, <2>3, <2>5
<1>2. view' = [d \in Doc |-> view'[d]]
  BY DEF UpdateTables, ViewInv, DataInv
<1>3. ShownInv' /\ DataInv'
  BY <1>1, <1>2 DEF UpdateTables, ViewInv, ShownInv, DataInv
<1>4. \A w \in Window : WindowTrue(w)'
  <2> SUFFICES ASSUME NEW w \in Window PROVE WindowTrue(w)'
    OBVIOUS
  <2>1. UNCHANGED <<shown, doc, window_title, doc_verbs, modified_verbs, selection_verbs>>
    BY DEF UpdateTables
  <2>2. WindowTrue(w) /\ shown[w] \in Doc \cup {None}
    BY DEF ViewInv, ShownInv, WindowsInv
  <2>3. CASE shown[w] = None
    BY <2>1, <2>2, <2>3 DEF WindowTrue
  <2>4. CASE shown[w] # None
    <3>1. Fits(view'[shown[w]], doc[shown[w]].list)
      BY <1>1, <2>2, <2>4 DEF WindowTrue
    <3>2. view'[shown[w]].selected = view[shown[w]].selected
      BY <1>1, <2>2, <2>4
    <3>3. Fits(view[shown[w]], doc[shown[w]].list)'
      BY <2>1, <3>1 DEF Fits, Nopay
    <3>4. TitleOf(shown[w], doc[shown[w]])' = TitleOf(shown[w], doc[shown[w]])
      BY <2>1 DEF TitleOf
    <3> QED BY <2>1, <2>2, <2>4, <3>2, <3>3, <3>4 DEF WindowTrue
  <2> QED BY <2>3, <2>4
<1>5. WindowsInv'
  BY <1>4 DEF UpdateTables, ViewInv, WindowsInv
<1> QED BY <1>3, <1>5 DEF ViewInv

\* What no variable of the windows, documents and views shows does not matter.
LEMMA NothingShown ==
  ASSUME ViewInv, UNCHANGED <<open, shown, doc, view, window_title, doc_verbs,
                              modified_verbs, selection_verbs, connected>>
  PROVE  ViewInv'
  BY ZenonT(30) DEF ViewInv, ShownInv, DataInv, WindowsInv, WindowTrue, IsView, Fits,
                    TitleOf, Nopay

LEMMA ViewStep == ViewInv /\ [Next]_vars => ViewInv'
<1> SUFFICES ASSUME ViewInv, [Next]_vars PROVE ViewInv'
  OBVIOUS
<1>1. ASSUME NEW w \in open, WindowNext(w) PROVE ViewInv'
  <2> w \in Window
    BY DEF ViewInv, ShownInv
  <2>1. CASE FileNew(w)
    <3>1. NewDoc \in Document
      BY DEF NewDoc, Document
    <3> QED BY <2>1, <3>1, PlaceKeeps DEF FileNew
  <2>2. CASE FileOpen(w)
    <3>1. PICK list \in SUBSET Bond, t \in Title \cup {None}, f \in File :
            PlaceDoc(w, [list |-> list, title |-> t, filename |-> f, modified |-> FALSE])
      BY <2>2 DEF FileOpen
    <3>2. [list |-> list, title |-> t, filename |-> f, modified |-> FALSE] \in Document
      BY DEF Document
    <3> QED BY <3>1, <3>2, PlaceKeeps
  <2>3. CASE FileImport(w)
    <3>1. PICK list \in SUBSET Bond, t \in Title :
            PlaceDoc(w, [list |-> list, title |-> t, filename |-> None, modified |-> TRUE])
      BY <2>3 DEF FileImport
    <3>2. [list |-> list, title |-> t, filename |-> None, modified |-> TRUE] \in Document
      BY DEF Document
    <3> QED BY <3>1, <3>2, PlaceKeeps
  <2>4. CASE FileClose(w)
    BY <2>4, CloseKeeps
  <2>5. CASE \E b \in Bond : AddBond(w, b) \/ DeleteBond(w, b)
    BY <2>5, AddBondKeeps, DeleteBondKeeps
  <2>6. CASE \E t \in Title : SetTitle(w, t)
    BY <2>6, SetTitleKeeps
  <2>7. CASE FileSave(w)
    <3>1. shown[w] \in Doc
      BY <2>7, VerbHasDocument DEF FileSave, Can
    <3>2. doc[shown[w]].filename \in File
      BY <2>7, <3>1 DEF FileSave, ViewInv, DataInv, Document
    <3> QED BY <2>7, <3>1, <3>2, SaveKeeps DEF FileSave
  <2>8. CASE \E f \in File : FileSaveAs(w, f)
    <3>1. shown[w] \in Doc
      BY <2>8, VerbHasDocument DEF FileSaveAs, Can
    <3> QED BY <2>8, <3>1, SaveKeeps DEF FileSaveAs
  <2>9. CASE \E bonds \in SUBSET Bond : Select(w, bonds)
    BY <2>9, SelectKeeps
  <2>10. CASE PickRdate(w)
    BY <2>10, PickRdateKeeps
  <2>11. CASE Paste(w)
    BY <2>11, NothingShown DEF Paste, Shows
  <2> QED
    BY <1>1, <2>1, <2>2, <2>3, <2>4, <2>5, <2>6, <2>7, <2>8, <2>9, <2>10, <2>11
       DEF WindowNext
<1>2. ASSUME NEW n, SetRdateRange(n) PROVE ViewInv'
  BY <1>2, NothingShown DEF SetRdateRange
<1>3. ASSUME NEW downloaded, NEW readable, UpdateTables(downloaded, readable)
      PROVE  ViewInv'
  BY <1>3, TablesKeep
<1>4. ASSUME NEW d \in Doc, PasteAnswered(d) PROVE ViewInv'
  <2>1. ASSUME NEW w \in Window, shown[w] = d, NEW bonds \in SUBSET Bond, Received(d, bonds)
        PROVE  ViewInv'
    BY <1>4, <2>1, ReceivedKeeps DEF PasteAnswered, Shows
  <2>2. CASE UNCHANGED <<doc, view, window_title, modified_verbs, selection_verbs>>
    BY <1>4, <2>2, NothingShown DEF PasteAnswered, Shows
  <2> QED BY <1>4, <2>1, <2>2 DEF PasteAnswered
<1>5. CASE UNCHANGED vars
  BY <1>5, NothingShown DEF vars
<1> QED BY <1>1, <1>2, <1>3, <1>4, <1>5 DEF Next

LEMMA ViewInvariant == Spec => []ViewInv
  BY ViewInit, ViewStep, PTL DEF Spec

\* The title bar always names the document shown and its modified flag
\* (window.c, set_window_title).
THEOREM TitleAlwaysTrue == Spec => []TitleTrue
<1>1. ViewInv => TitleTrue
  BY DEF ViewInv, WindowsInv, WindowTrue, TitleTrue
<1> QED BY ViewInvariant, <1>1, PTL

\* The menus always offer what the document shown and the selection in its view
\* can do (ui.c, gb_ui_update_doc_verbs and its kin).
THEOREM VerbsAlwaysTrue == Spec => []VerbsTrue
<1>1. ViewInv => VerbsTrue
  BY ViewAssumption
     DEF ViewInv, ShownInv, WindowsInv, WindowTrue, VerbsTrue
<1> QED BY ViewInvariant, <1>1, PTL

---------------------------------------------------------------------------
(* What becomes of a view in a step.                                       *)
(***************************************************************************)

Shown(d) == \E w \in Window : shown[w] = d

\* Nothing; and tables come only to views that are not shown and stay so.
Kept(d) == view'[d] = view[d] /\ (Shown(d)' => Shown(d) /\ UNCHANGED table)

\* Its window is closed or shows another document.
Gone(d) == view'[d] = NoView /\ ~Shown(d)'

\* gb_view_new.
Fresh(d) ==
  /\ d \notin connected
  /\ UNCHANGED table
  /\ \E today \in Today, list \in SUBSET Bond :
       view'[d] = UpdateView([NoView EXCEPT !.rdate = BestRdateToday(table, today),
                                            !.popdown = RdateList(table, rdate_range)],
                             list)

\* A "changed" of its document.
Relisted(d) ==
  /\ UNCHANGED <<shown, table>>
  /\ \E list \in SUBSET Bond : view'[d] = UpdateView(view[d], list)

\* The user selects rows, or picks a date.
Reselected(d) ==
  /\ UNCHANGED <<shown, doc, table, home, pasting>>
  /\ \E bonds \in SUBSET DOMAIN view[d].rows :
       view'[d] = [view[d] EXCEPT !.selected = bonds]

Redated(d) ==
  /\ UNCHANGED <<shown, doc, table, home>>
  /\ \E rdate \in view[d].popdown, list \in SUBSET Bond :
       view'[d] = UpdateView([view[d] EXCEPT !.rdate = rdate], list)

\* A paste that the view asked for is answered.
Pasted(d) ==
  /\ UNCHANGED <<shown, table>>
  /\ d \in pasting \ pasting'
  /\ \E v \in {view[d]} \cup {UpdateView(view[d], list) : list \in SUBSET Bond} :
       view'[d] = [v EXCEPT !.selected = {}]

\* table_model_changed_cb.
Retabled(d) ==
  /\ UNCHANGED <<shown, rdate_range>>
  /\ view'[d] = TableModelChanged(view[d], RdateList(table', rdate_range))

Change(d) ==
  \/ Kept(d) \/ Gone(d) \/ Fresh(d) \/ Relisted(d) \/ Reselected(d) \/ Redated(d)
  \/ Pasted(d) \/ Retabled(d)

\* A view other than the one a step is about.
LEMMA OthersKept ==
  ASSUME ViewInv, UNCHANGED <<shown, table>>, NEW e, NEW V,
         view' = [view EXCEPT ![e] = V], NEW d \in Doc, d # e
  PROVE  Kept(d)
  BY DEF ViewInv, DataInv, Kept, Shown

LEMMA PlaceChanges ==
  ASSUME ViewInv, NEW w \in Window, NEW D \in Document, PlaceDoc(w, D),
         NEW d \in Doc
  PROVE  Change(d)
<1>1. PICK e \in Doc \ connected, today \in Today,
           v \in IF IsEmpty(w) THEN {w} ELSE Window \ open :
        SetDoc(v, e, D, today)
  BY DEF PlaceDoc
<1> DEFINE clean == [D EXCEPT !.modified = FALSE]
<1>2. v \in Window /\ UNCHANGED table
  BY DEF PlaceDoc, ViewInv, ShownInv
<1>3. shown' = [shown EXCEPT ![v] = e] /\ shown \in [Window -> Doc \cup {None}]
  BY <1>1 DEF SetDoc, ViewInv, ShownInv
<1>4. CASE d = e
  <2>1. view'[d] = NewView(clean, today)
    BY <1>1, <1>4 DEF SetDoc
  <2>2. clean.list \in SUBSET Bond
    BY DEF Document
  <2>3. Fresh(d)
    <3> HIDE DEF clean
    <3> QED BY <1>1, <1>2, <1>4, <2>1, <2>2 DEF Fresh, NewView
  <2> QED BY <2>3 DEF Change
<1>5. CASE d # e /\ d = shown[v]
  <2>1. view'[d] = NoView
    BY <1>1, <1>5 DEF SetDoc
  <2>2. \A x \in Window : shown'[x] # d
    BY <1>2, <1>3, <1>5, ViewAssumption DEF ViewInv, ShownInv
  <2> QED BY <2>1, <2>2 DEF Change, Gone, Shown
<1>6. CASE d # e /\ d # shown[v]
  <2>1. view'[d] = view[d]
    BY <1>1, <1>6 DEF SetDoc
  <2>2. \A x \in Window : shown'[x] = d => shown[x] = d
    BY <1>2, <1>3, <1>6
  <2> QED BY <1>2, <2>1, <2>2 DEF Change, Kept, Shown
<1> QED BY <1>4, <1>5, <1>6

LEMMA CloseChanges ==
  ASSUME ViewInv, NEW w \in open, FileClose(w), NEW d \in Doc
  PROVE  Change(d)
<1>1. /\ w \in Window /\ UNCHANGED table
      /\ shown' = [shown EXCEPT ![w] = None] /\ shown \in [Window -> Doc \cup {None}]
      /\ view'[d] = IF d = shown[w] THEN NoView ELSE view[d]
      /\ d # None
  BY ViewAssumption DEF FileClose, ViewInv, ShownInv
<1>2. CASE d = shown[w]
  <2>1. \A x \in Window : shown'[x] # d
    BY <1>1, <1>2 DEF ViewInv, ShownInv
  <2> QED BY <1>1, <1>2, <2>1 DEF Change, Gone, Shown
<1>3. CASE d # shown[w]
  <2>1. \A x \in Window : shown'[x] = d => shown[x] = d
    BY <1>1
  <2> QED BY <1>1, <1>3, <2>1 DEF Change, Kept, Shown
<1> QED BY <1>2, <1>3

\* gb_doc_add_bond, gb_doc_delete_bond and gb_doc_set_title.
LEMMA EditChanges ==
  ASSUME ViewInv, NEW w \in Window, NEW b, NEW t,
         \/ b \in Bond /\ AddBond(w, b)
         \/ DeleteBond(w, b) \/ SetTitle(w, t), NEW d \in Doc
  PROVE  Change(d)
<1> DEFINE e == shown[w]
<1>1. e \in Doc
  BY VerbHasDocument DEF AddBond, DeleteBond, SetTitle, Can
<1>2. /\ view' = [view EXCEPT ![e] = UpdateView(view[e], doc'[e].list)]
      /\ UNCHANGED <<shown, table>>
  BY DEF AddBond, DeleteBond, SetTitle, Same, Shows
<1>3. CASE d # e
  BY <1>2, <1>3, OthersKept DEF Change
<1>4. CASE d = e
  <2>1. doc[e] \in Document /\ doc = [x \in Doc |-> doc[x]] /\ view = [x \in Doc |-> view[x]]
    BY <1>1 DEF ViewInv, DataInv
  <2>2. doc'[e].list \in SUBSET Bond
    BY <1>1, <2>1 DEF AddBond, DeleteBond, SetTitle, Document
  <2>3. view'[d] = UpdateView(view[d], doc'[e].list)
    BY <1>1, <1>2, <1>4, <2>1
  <2> QED BY <1>2, <2>2, <2>3 DEF Change, Relisted
<1> QED BY <1>3, <1>4

LEMMA PasteChanges ==
  ASSUME ViewInv, NEW e \in Doc, PasteAnswered(e), NEW d \in Doc
  PROVE  Change(d)
<1>1. UNCHANGED <<shown, table>>
  BY DEF PasteAnswered, Shows
<1>2. CASE UNCHANGED view
  BY <1>1, <1>2 DEF Change, Kept, Shown
<1>3. ASSUME NEW bonds \in SUBSET Bond, Received(e, bonds)
      PROVE  Change(d)
  <2> DEFINE V == [Taken(view[e], doc[e].list, bonds) EXCEPT !.selected = {}]
  <2>1. /\ view' = [view EXCEPT ![e] = V] /\ view = [x \in Doc |-> view[x]]
        /\ doc[e].list \in SUBSET Bond
    BY <1>3 DEF Received, ViewInv, DataInv, Document
  <2>2. CASE d # e
    BY <1>1, <2>1, <2>2, OthersKept DEF Change
  <2>3. CASE d = e
    <3>1. view'[d] = V
      BY <2>1, <2>3
    <3>2. Taken(view[e], doc[e].list, bonds)
            \in {view[e]} \cup {UpdateView(view[e], list) : list \in SUBSET Bond}
      BY <2>1 DEF Taken
    <3>3. d \in pasting \ pasting'
      BY <2>3 DEF PasteAnswered
    <3> QED BY <1>1, <2>3, <3>1, <3>2, <3>3 DEF Change, Pasted
  <2> QED BY <2>2, <2>3
<1> QED BY <1>2, <1>3 DEF PasteAnswered

LEMMA SelectChanges ==
  ASSUME ViewInv, NEW w \in Window, NEW bonds \in SUBSET Bond, Select(w, bonds),
         NEW d \in Doc
  PROVE  Change(d)
<1> DEFINE e == shown[w]
<1>1. /\ e \in Doc
      /\ view' = [view EXCEPT ![e].selected = bonds]
      /\ bonds \subseteq DOMAIN view[e].rows
      /\ UNCHANGED <<shown, doc, table, home, pasting>>
  BY VerbHasDocument DEF Select, Can, Same, Shows
<1>2. view = [x \in Doc |-> view[x]]
  BY DEF ViewInv, DataInv
<1>3. CASE d # e
  BY <1>1, <1>2, <1>3 DEF Change, Kept, Shown
<1>4. CASE d = e
  <2>1. view'[d] = [view[d] EXCEPT !.selected = bonds]
    BY <1>1, <1>2, <1>4
  <2> QED BY <1>1, <1>4, <2>1 DEF Change, Reselected
<1> QED BY <1>3, <1>4

LEMMA PickChanges ==
  ASSUME ViewInv, NEW w \in Window, PickRdate(w), NEW d \in Doc
  PROVE  Change(d)
<1> DEFINE e == shown[w]
<1>1. PICK rdate \in view[e].popdown :
        view' = [view EXCEPT ![e] = UpdateView([view[e] EXCEPT !.rdate = rdate],
                                               doc[e].list)]
  BY DEF PickRdate
<1>2. e \in Doc /\ UNCHANGED <<shown, doc, table, home>>
  BY VerbHasDocument DEF PickRdate, Can, Same, Shows
<1>3. CASE d # e
  BY <1>1, <1>2, <1>3, OthersKept DEF Change
<1>4. CASE d = e
  <2>1. view = [x \in Doc |-> view[x]] /\ doc[e].list \in SUBSET Bond
    BY <1>2 DEF ViewInv, DataInv, Document
  <2>2. view'[d] = UpdateView([view[d] EXCEPT !.rdate = rdate], doc[e].list)
    BY <1>1, <1>2, <1>4, <2>1
  <2> QED BY <1>1, <1>2, <1>4, <2>1, <2>2 DEF Change, Redated
<1> QED BY <1>3, <1>4

LEMMA TablesChange ==
  ASSUME ViewInv, NEW downloaded, NEW readable, UpdateTables(downloaded, readable),
         NEW d \in Doc
  PROVE  Change(d)
<1> DEFINE dead == {x \in connected : \A w \in Window : shown[w] # x}
<1>1. UNCHANGED <<shown, rdate_range>>
  BY DEF UpdateTables
<1>2. CASE UNCHANGED <<table, view>>
  BY <1>1, <1>2 DEF Change, Kept, Shown
<1>3. CASE view' = [x \in Doc |->
                 IF x \in connected \ dead
                 THEN TableModelChanged(view[x], RdateList(table', rdate_range))
                 ELSE view[x]]
  <2>1. CASE d \in connected \ dead
    <3> HIDE DEF dead
    <3> QED BY <1>1, <1>3, <2>1 DEF Change, Retabled
  <2>2. CASE d \notin connected \ dead
    <3>1. ~Shown(d)
      BY <2>2, ViewAssumption DEF Shown, ViewInv, ShownInv
    <3> HIDE DEF dead
    <3> QED BY <1>1, <1>3, <2>2, <3>1 DEF Change, Kept, Shown
  <2> QED BY <2>1, <2>2
<1> QED BY <1>2, <1>3 DEF UpdateTables

LEMMA ViewChanges ==
  ASSUME ViewInv, [Next]_vars, NEW d \in Doc
  PROVE  Change(d)
<1>1. CASE UNCHANGED <<shown, view, table>>
  BY <1>1 DEF Change, Kept, Shown
<1>2. ASSUME NEW w \in open, WindowNext(w) PROVE Change(d)
  <2> w \in Window
    BY DEF ViewInv, ShownInv
  <2>1. CASE FileNew(w) \/ FileOpen(w) \/ FileImport(w)
    <3>1. NewDoc \in Document
      BY DEF NewDoc, Document
    <3>2. \A list \in SUBSET Bond, t \in Title \cup {None}, f \in File \cup {None},
             m \in BOOLEAN :
            [list |-> list, title |-> t, filename |-> f, modified |-> m] \in Document
      BY DEF Document
    <3>3. \E D \in Document : PlaceDoc(w, D)
      BY <2>1, <3>1, <3>2 DEF FileNew, FileOpen, FileImport
    <3> QED BY <3>3, PlaceChanges
  <2>2. CASE FileClose(w)
    BY <2>2, CloseChanges
  <2>3. CASE \E b \in Bond : AddBond(w, b) \/ DeleteBond(w, b)
    BY <2>3, EditChanges
  <2>4. CASE \E t \in Title : SetTitle(w, t)
    BY <2>4, EditChanges
  <2>5. CASE FileSave(w) \/ \E f \in File : FileSaveAs(w, f)
    BY <1>1, <2>5 DEF FileSave, FileSaveAs, XmlSave, Same, Shows
  <2>6. CASE \E bonds \in SUBSET Bond : Select(w, bonds)
    BY <2>6, SelectChanges
  <2>7. CASE PickRdate(w)
    BY <2>7, PickChanges
  <2>8. CASE Paste(w)
    BY <1>1, <2>8 DEF Paste, Shows
  <2> QED
    BY <1>2, <2>1, <2>2, <2>3, <2>4, <2>5, <2>6, <2>7, <2>8 DEF WindowNext
<1>3. ASSUME NEW n, SetRdateRange(n) PROVE Change(d)
  BY <1>1, <1>3 DEF SetRdateRange
<1>4. ASSUME NEW downloaded, NEW readable, UpdateTables(downloaded, readable)
      PROVE  Change(d)
  BY <1>4, TablesChange
<1>5. ASSUME NEW e \in Doc, PasteAnswered(e) PROVE Change(d)
  BY <1>5, PasteChanges
<1>6. CASE UNCHANGED vars
  BY <1>1, <1>6 DEF vars
<1> QED BY <1>2, <1>3, <1>4, <1>5, <1>6 DEF Next

---------------------------------------------------------------------------
(* The first and the last month of the tables, and the dates between them. *)
(***************************************************************************)

LEMMA LeastExists ==
  ASSUME NEW S \in SUBSET Nat, S # {}
  PROVE  \E x \in S : \A y \in S : x =< y
<1> DEFINE less == { ss \in Nat \X Nat : ss[1] < ss[2] }
<1>1. IsWellFoundedOn(less, Nat)
  <2>1. OpToRel(<, Nat) = less
    BY Zenon DEF OpToRel
  <2> QED BY <2>1, NatLessThanWellFounded, Zenon
<1>2. PICK x \in S : \A y \in S : <<y, x>> \notin less
  <2> HIDE DEF less
  <2> QED BY <1>1, WFMin
<1>3. ASSUME NEW y \in S PROVE x =< y
  <2>1. x \in Nat /\ y \in Nat /\ <<y, x>> \notin less
    BY <1>2
  <2>2. y < x => <<y, x>> \in less
    BY <2>1
  <2> HIDE DEF less
  <2> QED BY <2>1, <2>2
<1> QED BY <1>3

LEMMA GreatestExists ==
  ASSUME NEW n \in Nat, NEW S \in SUBSET (0 .. n), S # {}
  PROVE  \E x \in S : \A y \in S : x >= y
<1> DEFINE R == {n - x : x \in S}
<1>1. R \in SUBSET Nat /\ R # {}
  <2>1. \A x \in S : n - x \in Nat
    OBVIOUS
  <2>2. R \subseteq Nat
    BY <2>1
  <2>3. PICK x \in S : TRUE
    OBVIOUS
  <2>4. n - x \in R
    BY <2>3
  <2> QED BY <2>2, <2>4
<1>2. PICK r \in R : \A q \in R : r =< q
  BY <1>1, LeastExists
<1>3. PICK x \in S : r = n - x
  OBVIOUS
<1>4. \A y \in S : n - x =< n - y
  BY <1>2, <1>3
<1>5. \A y \in S : x >= y
  BY <1>4
<1> QED BY <1>5

LEMMA FirstAndLast ==
  ASSUME NEW T \in SUBSET Table, T # {}
  PROVE  /\ RdateMin(T) \in Nat /\ RdateMax(T) \in Nat
         /\ RdateMin(T) =< RdateMax(T)
<1>1. Months(T) \in SUBSET (0 .. LastMonth) /\ Months(T) # {} /\ LastMonth \in Nat
  <2>1. LastMonth \in Nat
    BY DEF LastMonth
  <2>2. \A t \in T : MonthsOf[t] \subseteq 0 .. LastMonth /\ MonthsOf[t] # {}
    BY TableAssumption DEF TableAssumption
  <2>3. PICK t \in T : TRUE
    OBVIOUS
  <2>4. PICK m \in MonthsOf[t] : TRUE
    BY <2>2
  <2>5. m \in Months(T) /\ Months(T) \subseteq 0 .. LastMonth
    BY <2>2, <2>3, <2>4 DEF Months
  <2> QED BY <2>1, <2>5
<1>2. RdateMin(T) = Min(Months(T)) /\ RdateMax(T) = Max(Months(T))
  BY DEF RdateMin, RdateMax
<1>3. Min(Months(T)) \in Months(T) /\ \A m \in Months(T) : Min(Months(T)) =< m
  <2>1. \E x \in Months(T) : \A y \in Months(T) : x =< y
    BY <1>1, LeastExists
  <2> QED BY <2>1 DEF Min
<1>4. Max(Months(T)) \in Months(T)
  <2>1. \E x \in Months(T) : \A y \in Months(T) : x >= y
    BY <1>1, GreatestExists
  <2> QED BY <2>1 DEF Max
<1> QED BY <1>1, <1>2, <1>3, <1>4

LEMMA DateLists ==
  ASSUME NEW T \in SUBSET Table, NEW n \in Nat
  PROVE  /\ RdateList(T, n) \subseteq RdateMin(T) .. RdateMax(T)
         /\ RdateList(T, n) \subseteq Nat
         /\ RdateList(T, n) = {} <=> T = {}
<1>1. CASE T = {}
  BY <1>1 DEF RdateList
<1>2. CASE T # {}
  <2> DEFINE limit == RdateMax(T) - n + 1
             lo    == IF n > 0 /\ limit > RdateMin(T) THEN limit ELSE RdateMin(T)
  <2>1. /\ RdateMin(T) \in Nat /\ RdateMax(T) \in Nat
        /\ RdateMin(T) =< RdateMax(T)
    BY <1>2, FirstAndLast
  <2>2. RdateList(T, n) = lo .. RdateMax(T)
    BY <1>2 DEF RdateList
  <2>3. lo \in Nat /\ RdateMin(T) =< lo /\ lo =< RdateMax(T)
    BY <2>1
  <2>4. RdateMax(T) \in lo .. RdateMax(T)
    BY <2>1, <2>3
  <2> HIDE DEF lo
  <2> QED BY <1>2, <2>1, <2>2, <2>3, <2>4
<1> QED BY <1>1, <1>2

LEMMA BestDate ==
  ASSUME NEW T \in SUBSET Table, NEW today \in Today
  PROVE  BestRdateToday(T, today) \in Nat \cup {NoDate}
<1>1. today \in Nat
  BY ViewAssumption DEF ViewAssumption
<1>2. CASE T = {}
  BY <1>1, <1>2 DEF BestRdateToday, RdateMin, RdateMax
<1>3. CASE T # {}
  BY <1>1, <1>3, FirstAndLast DEF BestRdateToday
<1> QED BY <1>2, <1>3

---------------------------------------------------------------------------
(* The types of what is shown.                                             *)
(***************************************************************************)

ViewTyped(v) ==
  /\ DOMAIN v.rows \subseteq Bond
  /\ \A b \in DOMAIN v.rows : v.rows[b] \in Row
  /\ v.rdate \in Nat \cup {NoDate}
  /\ v.popdown \subseteq Nat

PlainTyped ==
  /\ connected \subseteq Doc /\ pasting \subseteq Doc
  /\ table \subseteq System \cup home /\ home \subseteq Table
  /\ rdate_range \in {0, YearDates}
  /\ crashed \in BOOLEAN /\ ops \in 0 .. MaxOps

TypedInv == PlainTyped /\ \A d \in Doc : ViewTyped(view[d])

LEMMA UpdateViewTyped ==
  ASSUME NEW v, IsView(v), NEW list \in SUBSET Bond,
         v.rdate \in Nat \cup {NoDate}, v.popdown \subseteq Nat
  PROVE  LET u == UpdateView(v, list)
         IN  /\ ViewTyped(u) /\ u.popdown = v.popdown
             /\ u.selected = v.selected \cap DOMAIN u.rows
<1> DEFINE u == UpdateView(v, list)
           rows == RowsOf(list, v.rdate)
<1>1. u = [rows |-> rows, rdate |-> v.rdate, popdown |-> v.popdown,
           selected |-> v.selected \cap DOMAIN rows]
  <2> HIDE DEF rows
  <2>1. u = [v EXCEPT !.rows = rows, !.selected = v.selected \cap DOMAIN rows]
    BY DEF UpdateView, rows
  <2> QED BY <2>1 DEF IsView
<1>2. DOMAIN rows \subseteq Bond
  BY DEF RowsOf
<1>3. \A b \in DOMAIN rows : rows[b] \in Row
  <2> SUFFICES ASSUME NEW b \in DOMAIN rows
               PROVE  rows[b] \in Row
    OBVIOUS
  <2>1. rows[b] = GetValue(table, Nopay(b, v.rdate), v.rdate)
    BY DEF RowsOf
  <2>2. GetValue(table, Nopay(b, v.rdate), v.rdate) \in Row
    BY RowMarks, Zenon
  <2> QED BY <2>1, <2>2, Zenon
<1>4. /\ ViewTyped(u) /\ u.popdown = v.popdown
      /\ u.selected = v.selected \cap DOMAIN u.rows
  <2> HIDE DEF rows, u
  <2> QED BY <1>1, <1>2, <1>3 DEF ViewTyped
<1> QED BY <1>4

\* What a paste leaves of a view.
LEMMA PastedView ==
  ASSUME ViewInv, NEW d \in Doc, ViewTyped(view[d]), Pasted(d)
  PROVE  /\ ViewTyped(view'[d]) /\ view'[d].rdate = view[d].rdate
         /\ view'[d].popdown = view[d].popdown
<1>1. IsView(view[d]) /\ view[d].rdate \in Nat \cup {NoDate} /\ view[d].popdown \subseteq Nat
  BY DEF ViewInv, DataInv, ViewTyped
<1>2. PICK v \in {view[d]} \cup {UpdateView(view[d], list) : list \in SUBSET Bond} :
        view'[d] = [v EXCEPT !.selected = {}]
  BY DEF Pasted
<1>3. IsView(v) /\ ViewTyped(v) /\ v.rdate = view[d].rdate /\ v.popdown = view[d].popdown
  <2>1. CASE v = view[d]
    BY <1>1, <2>1
  <2>2. ASSUME NEW list \in SUBSET Bond, v = UpdateView(view[d], list)
        PROVE  IsView(v) /\ ViewTyped(v) /\ v.rdate = view[d].rdate /\ v.popdown = view[d].popdown
    BY <1>1, <2>2, UpdateViewTyped, UpdateViewFits
  <2> QED BY <1>2, <2>1, <2>2
<1>4. /\ view'[d].rows = v.rows /\ view'[d].rdate = v.rdate
      /\ view'[d].popdown = v.popdown
  BY <1>2, <1>3, Unselected
<1> QED BY <1>3, <1>4 DEF ViewTyped

LEMMA TypedInit == Init => TypedInv
<1> SUFFICES ASSUME Init PROVE TypedInv
  OBVIOUS
<1>1. PlainTyped
  <2>1. table \subseteq System \cup home /\ home \subseteq Table
    BY ViewAssumption DEF ViewAssumption, Init, Update
  <2>2. ops \in 0 .. MaxOps
    BY ViewAssumption DEF ViewAssumption, Init
  <2>3. connected \subseteq Doc /\ pasting \subseteq Doc /\ rdate_range \in {0, YearDates} /\ crashed \in BOOLEAN
    BY DEF Init
  <2> QED BY <2>1, <2>2, <2>3 DEF PlainTyped
<1>2. ViewTyped(NoView)
  BY DEF ViewTyped, NoView
<1> QED BY <1>1, <1>2 DEF Init, TypedInv

LEMMA PlainStep ==
  ASSUME ViewInv, PlainTyped, [Next]_vars PROVE PlainTyped'
<1>0. MaxOps \in Nat /\ System \subseteq Table /\ open \subseteq Window
      /\ shown \in [Window -> Doc \cup {None}]
  BY ViewAssumption DEF ViewAssumption, ViewInv, ShownInv
<1>1. Step => ops' \in 0 .. MaxOps
  BY <1>0 DEF Step, PlainTyped
<1>2. CASE UNCHANGED vars
  BY <1>2 DEF vars, PlainTyped
<1>3. ASSUME NEW w \in open, NEW D, PlaceDoc(w, D) PROVE PlainTyped'
  BY <1>1, <1>3, SMTT(30) DEF PlaceDoc, SetDoc, Can, PlainTyped
<1>4. ASSUME NEW w \in open, WindowNext(w) PROVE PlainTyped'
  <2>1. CASE FileNew(w) \/ FileOpen(w) \/ FileImport(w)
    BY <1>3, <2>1 DEF FileNew, FileOpen, FileImport
  <2>2. CASE FileClose(w)
    BY <1>1, <2>2 DEF FileClose, Can, PlainTyped
  <2>3. CASE Step /\ Same
    BY <1>1, <2>3 DEF Same, Shows, PlainTyped
  <2>4. CASE Paste(w)
    <3>1. shown[w] \in Doc
      BY <1>0, <2>4, VerbHasDocument DEF Paste, Can
    <3> QED BY <1>1, <2>4, <3>1 DEF Paste, Can, Shows, PlainTyped
  <2> QED
    BY <1>4, <2>1, <2>2, <2>3, <2>4
       DEF WindowNext, AddBond, DeleteBond, SetTitle, FileSave, FileSaveAs, Select,
           PickRdate, Can
<1>5. ASSUME NEW n \in {0, YearDates}, SetRdateRange(n) PROVE PlainTyped'
  BY <1>1, <1>5 DEF SetRdateRange, PlainTyped
<1>6. ASSUME NEW downloaded \in SUBSET (Table \ System), NEW readable \in BOOLEAN,
             UpdateTables(downloaded, readable)
      PROVE  PlainTyped'
  BY <1>0, <1>1, <1>6 DEF UpdateTables, Update, PlainTyped
<1>7. ASSUME NEW d \in Doc, PasteAnswered(d) PROVE PlainTyped'
  BY <1>1, <1>7 DEF PasteAnswered, Shows, PlainTyped
<1> QED BY <1>2, <1>4, <1>5, <1>6, <1>7 DEF Next

LEMMA TablesTyped == ASSUME PlainTyped PROVE table \in SUBSET Table
  BY ViewAssumption DEF PlainTyped, ViewAssumption

LEMMA ViewTypedKept ==
  ASSUME ViewInv, TypedInv, PlainTyped', [Next]_vars, NEW d \in Doc
  PROVE  ViewTyped(view'[d])
<1>1. IsView(view[d]) /\ ViewTyped(view[d]) /\ rdate_range \in Nat
  BY ViewAssumption DEF ViewAssumption, ViewInv, DataInv, TypedInv, PlainTyped
<1>2. Change(d) /\ table \in SUBSET Table /\ table' \in SUBSET Table
  <2>1. (System \cup home)' \subseteq Table
    BY ViewAssumption DEF ViewAssumption, PlainTyped
  <2> QED BY <2>1, ViewChanges, TablesTyped DEF TypedInv, PlainTyped
<1>3. CASE Kept(d)
  BY <1>1, <1>3 DEF Kept, ViewTyped
<1>4. CASE Gone(d)
  BY <1>4 DEF Gone, NoView, ViewTyped
<1>5. CASE Fresh(d)
  <2>1. PICK today \in Today, list \in SUBSET Bond :
          view'[d] = UpdateView([NoView EXCEPT !.rdate = BestRdateToday(table, today),
                                               !.popdown = RdateList(table, rdate_range)],
                                list)
    BY <1>5 DEF Fresh
  <2> DEFINE bare == [NoView EXCEPT !.rdate = BestRdateToday(table, today),
                                    !.popdown = RdateList(table, rdate_range)]
  <2>2. /\ IsView(bare) /\ bare.rdate = BestRdateToday(table, today)
        /\ bare.popdown = RdateList(table, rdate_range)
    BY DEF NoView, IsView
  <2>3. BestRdateToday(table, today) \in Nat \cup {NoDate}
        /\ RdateList(table, rdate_range) \subseteq Nat
    BY <1>1, <1>2, BestDate, DateLists
  <2>4. view'[d] = UpdateView(bare, list)
    BY <2>1
  <2> HIDE DEF bare
  <2> QED BY <2>2, <2>3, <2>4, UpdateViewTyped
<1>6. CASE Relisted(d)
  <2>1. PICK list \in SUBSET Bond : view'[d] = UpdateView(view[d], list)
    BY <1>6 DEF Relisted
  <2>2. view[d].rdate \in Nat \cup {NoDate} /\ view[d].popdown \subseteq Nat
    BY <1>1 DEF ViewTyped
  <2> QED BY <1>1, <2>1, <2>2, UpdateViewTyped
<1>7. CASE Reselected(d)
  <2>1. PICK bonds : view'[d] = [view[d] EXCEPT !.selected = bonds]
    BY <1>7 DEF Reselected
  <2>2. /\ view'[d].rows = view[d].rows /\ view'[d].rdate = view[d].rdate
        /\ view'[d].popdown = view[d].popdown
    BY <1>1, <2>1 DEF IsView
  <2> QED BY <1>1, <2>2 DEF ViewTyped
<1>8. CASE Redated(d)
  <2>1. PICK rdate \in view[d].popdown, list \in SUBSET Bond :
          view'[d] = UpdateView([view[d] EXCEPT !.rdate = rdate], list)
    BY <1>8 DEF Redated
  <2> DEFINE dated == [view[d] EXCEPT !.rdate = rdate]
  <2>2. /\ IsView(dated) /\ dated.rdate = rdate /\ dated.popdown = view[d].popdown
        /\ rdate \in Nat
    BY <1>1 DEF IsView, ViewTyped
  <2>3. view'[d] = UpdateView(dated, list)
    BY <2>1
  <2>4. view[d].popdown \subseteq Nat
    BY <1>1 DEF ViewTyped
  <2> HIDE DEF dated
  <2> QED BY <2>2, <2>3, <2>4, UpdateViewTyped
<1>9. CASE Retabled(d)
  <2> DEFINE dates == RdateList(table', rdate_range)
  <2>1. dates \subseteq Nat
    BY <1>1, <1>2, DateLists
  <2>2. view'[d] = IF dates = {} THEN view[d] ELSE [view[d] EXCEPT !.popdown = dates]
    BY <1>9 DEF Retabled, TableModelChanged
  <2> HIDE DEF dates
  <2>3. /\ view'[d].rows = view[d].rows /\ view'[d].rdate = view[d].rdate
        /\ view'[d].popdown \in {dates, view[d].popdown}
    BY <1>1, <2>2 DEF IsView
  <2> QED BY <1>1, <2>1, <2>3 DEF ViewTyped
<1>10. CASE Pasted(d)
  BY <1>1, <1>10, PastedView
<1> QED BY <1>2, <1>3, <1>4, <1>5, <1>6, <1>7, <1>8, <1>9, <1>10 DEF Change

LEMMA TypedInvariant == Spec => []TypedInv
<1>1. ViewInv /\ TypedInv /\ [Next]_vars => TypedInv'
  BY PlainStep, ViewTypedKept DEF TypedInv, ViewTyped
<1> QED BY ViewInvariant, TypedInit, <1>1, PTL DEF Spec

\* Each variable keeps its type; a view selects rows it has, and its rows are
\* bonds with a value (view.c, update_view).
THEOREM ViewsWellTyped == Spec => []TypeOK
<1>1. ViewInv /\ TypedInv => TypeOK
  BY TablesTyped
     DEF ViewInv, ShownInv, DataInv, WindowsInv, WindowTrue, IsView,
         TypedInv, PlainTyped, ViewTyped, Row, TypeOK
<1> QED BY ViewInvariant, TypedInvariant, <1>1, PTL

---------------------------------------------------------------------------
(* What the rows say of the bonds.                                         *)
(***************************************************************************)

\* The rows without the mark are of a month that some of the tables has.
MarkedBy(v, tables) ==
  \A b \in DOMAIN v.rows : ~v.rows[b].nopay_flag => v.rdate \in Months(tables)

LEMMA MarksGrow ==
  ASSUME NEW v, NEW S, NEW T, S \subseteq T, MarkedBy(v, S)
  PROVE  MarkedBy(v, T)
  BY DEF MarkedBy, Months

LEMMA UpdateViewMarks ==
  ASSUME NEW v, IsView(v), NEW list
  PROVE  MarkedBy(UpdateView(v, list), table)
<1> DEFINE u == UpdateView(v, list)
           rows == RowsOf(list, v.rdate)
<1>1. u.rows = rows /\ u.rdate = v.rdate
  <2> HIDE DEF rows
  <2>1. u = [v EXCEPT !.rows = rows, !.selected = v.selected \cap DOMAIN rows]
    BY DEF UpdateView, rows
  <2> QED BY <2>1 DEF IsView
<1>2. \A b \in DOMAIN rows : ~rows[b].nopay_flag => v.rdate \in Months(table)
  <2> SUFFICES ASSUME NEW b \in DOMAIN rows, v.rdate \notin Months(table)
               PROVE  rows[b].nopay_flag
    OBVIOUS
  <2>1. rows[b] = GetValue(table, Nopay(b, v.rdate), v.rdate)
    BY DEF RowsOf
  <2>2. rows[b].nopay_flag = TRUE
    <3> HIDE DEF rows
    <3> QED BY <2>1, RowMarks
  <2> QED BY <2>2
<1> HIDE DEF u, rows
<1>3. MarkedBy(u, table)
  BY <1>1, <1>2 DEF MarkedBy
<1> QED BY <1>3 DEF u

MarksInv == \A d \in Doc : MarkedBy(view[d], System \cup home)

\* Tables on the disk stay there.
LEMMA HomeGrows == ASSUME [Next]_vars PROVE home \subseteq home'
<1>1. ASSUME NEW w \in open, WindowNext(w) PROVE home' = home
  <2>1. CASE FileNew(w) \/ FileOpen(w) \/ FileImport(w)
    BY <2>1 DEF FileNew, FileOpen, FileImport, PlaceDoc
  <2>2. CASE FileClose(w)
    BY <2>2 DEF FileClose
  <2>3. CASE Shows
    BY <2>3 DEF Shows
  <2> QED
    BY <1>1, <2>1, <2>2, <2>3
       DEF WindowNext, AddBond, DeleteBond, SetTitle, FileSave, FileSaveAs, Select,
           PickRdate, Paste, Same
<1>2. ASSUME NEW n, SetRdateRange(n) PROVE home' = home
  BY <1>2 DEF SetRdateRange
<1>3. ASSUME NEW d, PasteAnswered(d) PROVE home' = home
  BY <1>3 DEF PasteAnswered, Shows
<1>4. ASSUME NEW downloaded, NEW readable, UpdateTables(downloaded, readable)
      PROVE  home \subseteq home'
  BY <1>4 DEF UpdateTables
<1> QED BY <1>1, <1>2, <1>3, <1>4 DEF Next, vars

LEMMA MarksKept ==
  ASSUME ViewInv, TypedInv, MarksInv, [Next]_vars
  PROVE  MarksInv'
<1> SUFFICES ASSUME NEW d \in Doc PROVE MarkedBy(view'[d], System \cup home')
  BY DEF MarksInv, MarkedBy, Months
<1> DEFINE disk == System \cup home
<1>1. /\ IsView(view[d]) /\ MarkedBy(view[d], disk)
      /\ table \subseteq disk /\ disk \subseteq System \cup home'
  BY HomeGrows DEF ViewInv, DataInv, TypedInv, PlainTyped, MarksInv
<1> HIDE DEF disk
<1>2. SUFFICES MarkedBy(view'[d], disk)
  BY <1>1, MarksGrow
<1>3. ASSUME NEW v, IsView(v), NEW list
      PROVE  MarkedBy(UpdateView(v, list), disk)
  BY <1>1, <1>3, MarksGrow, UpdateViewMarks
<1>4. ASSUME view'[d].rows = view[d].rows, view'[d].rdate = view[d].rdate
      PROVE  MarkedBy(view'[d], disk)
  BY <1>1, <1>4 DEF MarkedBy
<1>5. CASE Kept(d)
  BY <1>4, <1>5 DEF Kept
<1>6. CASE Gone(d)
  BY <1>6 DEF Gone, NoView, MarkedBy
<1>7. CASE Fresh(d)
  <2>1. PICK today \in Today, list \in SUBSET Bond :
          view'[d] = UpdateView([NoView EXCEPT !.rdate = BestRdateToday(table, today),
                                               !.popdown = RdateList(table, rdate_range)],
                                list)
    BY <1>7 DEF Fresh
  <2> DEFINE bare == [NoView EXCEPT !.rdate = BestRdateToday(table, today),
                                    !.popdown = RdateList(table, rdate_range)]
  <2>2. IsView(bare) /\ view'[d] = UpdateView(bare, list)
    BY <2>1 DEF NoView, IsView
  <2> HIDE DEF bare
  <2> QED BY <1>3, <2>2
<1>8. CASE Relisted(d)
  BY <1>1, <1>3, <1>8 DEF Relisted
<1>9. CASE Reselected(d)
  <2>1. PICK bonds : view'[d] = [view[d] EXCEPT !.selected = bonds]
    BY <1>9 DEF Reselected
  <2> QED BY <1>1, <1>4, <2>1 DEF IsView
<1>10. CASE Redated(d)
  <2>1. PICK rdate \in view[d].popdown, list \in SUBSET Bond :
          view'[d] = UpdateView([view[d] EXCEPT !.rdate = rdate], list)
    BY <1>10 DEF Redated
  <2> DEFINE dated == [view[d] EXCEPT !.rdate = rdate]
  <2>2. IsView(dated) /\ view'[d] = UpdateView(dated, list)
    BY <1>1, <2>1 DEF IsView
  <2> HIDE DEF dated
  <2> QED BY <1>3, <2>2
<1>11. CASE Pasted(d)
  <2>1. PICK v \in {view[d]} \cup {UpdateView(view[d], list) : list \in SUBSET Bond} :
          view'[d] = [v EXCEPT !.selected = {}]
    BY <1>11 DEF Pasted
  <2>2. IsView(v) /\ MarkedBy(v, disk)
    <3>1. ASSUME NEW list \in SUBSET Bond PROVE IsView(UpdateView(view[d], list))
      BY <1>1, UpdateViewFits
    <3> QED BY <1>1, <1>3, <2>1, <3>1
  <2> QED BY <2>1, <2>2, Unselected DEF MarkedBy
<1>12. CASE Retabled(d)
  <2> DEFINE dates == RdateList(table', rdate_range)
  <2>1. view'[d] = IF dates = {} THEN view[d] ELSE [view[d] EXCEPT !.popdown = dates]
    BY <1>12 DEF Retabled, TableModelChanged
  <2> HIDE DEF dates
  <2> QED BY <1>1, <1>4, <2>1 DEF IsView
<1>13. Change(d)
  BY ViewChanges
<1> QED BY <1>5, <1>6, <1>7, <1>8, <1>9, <1>10, <1>11, <1>12, <1>13 DEF Change

LEMMA MarksInvariant == Spec => []MarksInv
<1>1. Init => MarksInv
  BY DEF Init, MarksInv, MarkedBy, NoView
<1>2. ViewInv /\ TypedInv /\ MarksInv /\ [Next]_vars => MarksInv'
  BY MarksKept
<1> QED BY ViewInvariant, TypedInvariant, <1>1, <1>2, PTL DEF Spec

\* A view always lists the bonds of its document, marks those that do not pay,
\* and leaves no bond without the mark in a month no table on the disk has
\* (view.c, update_view; table-model.c, gb_table_model_get_value).
THEOREM RowsAlwaysTrue == Spec => []RowsTrue
<1>1. ViewInv /\ MarksInv => RowsTrue
  <2> SUFFICES ASSUME ViewInv, MarksInv, NEW w \in doc_verbs
               PROVE  LET v == view[shown[w]] IN
                      /\ DOMAIN v.rows = IF v.rdate = NoDate THEN {} ELSE doc[shown[w]].list
                      /\ \A b \in DOMAIN v.rows :
                           /\ Nopay(b, v.rdate) => v.rows[b].nopay_flag
                           /\ ~v.rows[b].nopay_flag => v.rdate \in Months(System \cup home)
    BY DEF RowsTrue
  <2>1. w \in Window /\ shown[w] \in Doc /\ shown[w] # None
    BY ViewAssumption DEF ViewAssumption, ViewInv, ShownInv, WindowsInv, WindowTrue
  <2>2. Fits(view[shown[w]], doc[shown[w]].list)
    BY <2>1, ShownFits
  <2>3. MarkedBy(view[shown[w]], System \cup home)
    BY <2>1 DEF MarksInv
  <2> QED BY <2>2, <2>3 DEF Fits, MarkedBy
<1> QED BY ViewInvariant, MarksInvariant, <1>1, PTL

---------------------------------------------------------------------------
(* The dates on offer.                                                     *)
(***************************************************************************)

\* While there are tables, a view on the screen offers dates between the first
\* and the last of them.
DatesInv ==
  \A d \in Doc : Shown(d) /\ table # {}
    => view[d].popdown \subseteq RdateMin(table) .. RdateMax(table)

LEMMA DatesKept ==
  ASSUME ViewInv, TypedInv, DatesInv, PlainTyped', [Next]_vars
  PROVE  DatesInv'
<1> SUFFICES ASSUME NEW d \in Doc, Shown(d)', table' # {}
             PROVE  view'[d].popdown \subseteq RdateMin(table') .. RdateMax(table')
  BY DEF DatesInv
<1>1. /\ IsView(view[d]) /\ ViewTyped(view[d]) /\ rdate_range \in Nat
      /\ table \in SUBSET Table /\ table' \in SUBSET Table
  <2>1. (System \cup home)' \subseteq Table
    BY ViewAssumption DEF ViewAssumption, PlainTyped
  <2> QED
    BY <2>1, ViewAssumption, TablesTyped
       DEF ViewInv, DataInv, TypedInv, PlainTyped, ViewAssumption
<1>2. Change(d)
  BY ViewChanges
<1>3. ASSUME Shown(d), UNCHANGED table, view'[d].popdown = view[d].popdown
      PROVE  view'[d].popdown \subseteq RdateMin(table') .. RdateMax(table')
  BY <1>3 DEF DatesInv
<1>4. CASE Kept(d)
  BY <1>3, <1>4 DEF Kept
<1>5. CASE Gone(d)
  BY <1>5 DEF Gone
<1>6. CASE Fresh(d)
  <2>1. PICK today \in Today, list \in SUBSET Bond :
          view'[d] = UpdateView([NoView EXCEPT !.rdate = BestRdateToday(table, today),
                                               !.popdown = RdateList(table, rdate_range)],
                                list)
    BY <1>6 DEF Fresh
  <2> DEFINE bare == [NoView EXCEPT !.rdate = BestRdateToday(table, today),
                                    !.popdown = RdateList(table, rdate_range)]
  <2>2. /\ IsView(bare) /\ bare.rdate = BestRdateToday(table, today)
        /\ bare.popdown = RdateList(table, rdate_range)
    BY DEF NoView, IsView
  <2>3. BestRdateToday(table, today) \in Nat \cup {NoDate}
        /\ RdateList(table, rdate_range) \subseteq Nat
    BY <1>1, BestDate, DateLists
  <2>4. view'[d].popdown = RdateList(table, rdate_range)
    <3>1. view'[d] = UpdateView(bare, list)
      BY <2>1
    <3> HIDE DEF bare
    <3> QED BY <2>2, <2>3, <3>1, UpdateViewTyped
  <2> QED BY <1>1, <1>6, <2>4, DateLists DEF Fresh
<1>7. CASE Relisted(d)
  <2>1. Shown(d)
    BY <1>7 DEF Relisted, Shown
  <2>2. PICK list \in SUBSET Bond : view'[d] = UpdateView(view[d], list)
    BY <1>7 DEF Relisted
  <2>3. view[d].rdate \in Nat \cup {NoDate} /\ view[d].popdown \subseteq Nat
    BY <1>1 DEF ViewTyped
  <2>4. view'[d].popdown = view[d].popdown
    BY <1>1, <2>2, <2>3, UpdateViewTyped
  <2> QED BY <1>3, <1>7, <2>1, <2>4 DEF Relisted
<1>8. CASE Reselected(d)
  <2>1. PICK bonds : view'[d] = [view[d] EXCEPT !.selected = bonds]
    BY <1>8 DEF Reselected
  <2>2. Shown(d) /\ UNCHANGED table
    BY <1>8 DEF Reselected, Shown
  <2>3. view'[d].popdown = view[d].popdown
    BY <1>1, <2>1 DEF IsView
  <2> QED BY <1>3, <2>2, <2>3
<1>9. CASE Redated(d)
  <2>1. PICK rdate \in view[d].popdown, list \in SUBSET Bond :
          view'[d] = UpdateView([view[d] EXCEPT !.rdate = rdate], list)
    BY <1>9 DEF Redated
  <2> DEFINE dated == [view[d] EXCEPT !.rdate = rdate]
  <2>2. /\ IsView(dated) /\ dated.rdate = rdate /\ dated.popdown = view[d].popdown
        /\ rdate \in Nat
    BY <1>1 DEF IsView, ViewTyped
  <2>3. view'[d].popdown = view[d].popdown
    <3>1. view'[d] = UpdateView(dated, list)
      BY <2>1
    <3>2. view[d].popdown \subseteq Nat
      BY <1>1 DEF ViewTyped
    <3> HIDE DEF dated
    <3> QED BY <2>2, <3>1, <3>2, UpdateViewTyped
  <2>4. Shown(d) /\ UNCHANGED table
    BY <1>9 DEF Redated, Shown
  <2> QED BY <1>3, <2>3, <2>4
<1>10. CASE Retabled(d)
  <2> DEFINE dates == RdateList(table', rdate_range)
  <2>1. dates # {} /\ dates \subseteq RdateMin(table') .. RdateMax(table')
    BY <1>1, DateLists
  <2>2. view'[d] = [view[d] EXCEPT !.popdown = dates]
    BY <1>10, <2>1 DEF Retabled, TableModelChanged
  <2> HIDE DEF dates
  <2>3. view'[d].popdown = dates
    BY <1>1, <2>2 DEF IsView
  <2> QED BY <2>1, <2>3
<1>11. CASE Pasted(d)
  <2>1. Shown(d) /\ UNCHANGED table
    BY <1>11 DEF Pasted, Shown
  <2> QED BY <1>1, <1>3, <1>11, <2>1, PastedView
<1> QED BY <1>2, <1>4, <1>5, <1>6, <1>7, <1>8, <1>9, <1>10, <1>11 DEF Change

LEMMA DatesInvariant == Spec => []DatesInv
<1>1. Init => DatesInv
  BY ViewAssumption DEF ViewAssumption, Init, DatesInv, Shown
<1>2. ViewInv /\ TypedInv /\ TypedInv' /\ DatesInv /\ [Next]_vars => DatesInv'
  BY DatesKept DEF TypedInv
<1> QED BY ViewInvariant, TypedInvariant, <1>1, <1>2, PTL DEF Spec

\* While the tables have no gap between the first month and the last, which the
\* ones that come with the program do have, every date a view offers is priced,
\* whatever tables came since its list was made (view.c, table_model_changed_cb;
\* table-model.c, gb_table_model_get_rdate_list).
THEOREM PicksAlwaysPriced == Spec => []PicksPriced
<1>1. ViewInv /\ DatesInv => PicksPriced
  <2> SUFFICES ASSUME ViewInv, DatesInv,
                      Months(table) = RdateMin(table) .. RdateMax(table),
                      NEW w \in doc_verbs
               PROVE  view[shown[w]].popdown \subseteq Months(table)
    BY DEF PicksPriced
  <2>1. table # {}
    <3>1. Months({}) = {}
      BY DEF Months
    <3>2. NoDate \in RdateMin({}) .. RdateMax({})
      BY DEF RdateMin, RdateMax, NoDate
    <3> QED BY <3>1, <3>2
  <2>2. shown[w] \in Doc /\ Shown(shown[w])
    BY DEF ViewInv, ShownInv, WindowsInv, WindowTrue, Shown
  <2> QED BY <2>1, <2>2 DEF DatesInv
<1> QED BY ViewInvariant, DatesInvariant, <1>1, PTL

---------------------------------------------------------------------------
(* What the user chose.                                                    *)
(***************************************************************************)

LEMMA ChoicesStep ==
  ASSUME ViewInv, TypedInv, [Next]_vars, NEW d \in connected
  PROVE  /\ view'[d].rdate # view[d].rdate =>
              \/ ~Shown(d)'
              \/ view'[d].rdate \in view[d].popdown /\ UNCHANGED <<doc, table, home>>
         /\ ~(view[d].selected \cap DOMAIN view'[d].rows \subseteq view'[d].selected) =>
              \/ ~Shown(d)'
              \/ UNCHANGED <<doc, table, pasting>> /\ view'[d].rows = view[d].rows
              \/ d \in pasting \ pasting'
<1>1. d \in Doc /\ IsView(view[d]) /\ ViewTyped(view[d])
  BY DEF ViewInv, DataInv, TypedInv, PlainTyped
<1>2. Change(d)
  BY <1>1, ViewChanges
<1>3. CASE Kept(d)
  BY <1>3 DEF Kept
<1>4. CASE Gone(d)
  BY <1>4 DEF Gone
<1>5. ~Fresh(d)
  BY DEF Fresh
<1>6. CASE Relisted(d)
  <2>1. PICK list \in SUBSET Bond : view'[d] = UpdateView(view[d], list)
    BY <1>6 DEF Relisted
  <2>2. view[d].rdate \in Nat \cup {NoDate} /\ view[d].popdown \subseteq Nat
    BY <1>1 DEF ViewTyped
  <2>3. /\ view'[d].rdate = view[d].rdate
        /\ view'[d].selected = view[d].selected \cap DOMAIN view'[d].rows
    BY <1>1, <2>1, <2>2, UpdateViewTyped, UpdateViewFits
  <2> QED BY <2>3
<1>7. CASE Reselected(d)
  <2>1. PICK bonds : view'[d] = [view[d] EXCEPT !.selected = bonds]
    BY <1>7 DEF Reselected
  <2>2. view'[d].rows = view[d].rows /\ view'[d].rdate = view[d].rdate
    BY <1>1, <2>1 DEF IsView
  <2> QED BY <1>7, <2>2 DEF Reselected
<1>8. CASE Redated(d)
  <2>1. PICK rdate \in view[d].popdown, list \in SUBSET Bond :
          view'[d] = UpdateView([view[d] EXCEPT !.rdate = rdate], list)
    BY <1>8 DEF Redated
  <2> DEFINE dated == [view[d] EXCEPT !.rdate = rdate]
  <2>2. /\ IsView(dated) /\ dated.rdate = rdate /\ rdate \in Nat
        /\ dated.popdown \subseteq Nat /\ dated.selected = view[d].selected
    BY <1>1 DEF IsView, ViewTyped
  <2>3. view'[d] = UpdateView(dated, list)
    BY <2>1
  <2>4. /\ view'[d].rdate = rdate
        /\ view'[d].selected = view[d].selected \cap DOMAIN view'[d].rows
    <3> HIDE DEF dated
    <3> QED BY <2>2, <2>3, UpdateViewTyped, UpdateViewFits
  <2> QED BY <1>8, <2>4 DEF Redated
<1>9. CASE Retabled(d)
  <2> DEFINE dates == RdateList(table', rdate_range)
  <2>1. view'[d] = IF dates = {} THEN view[d] ELSE [view[d] EXCEPT !.popdown = dates]
    BY <1>9 DEF Retabled, TableModelChanged
  <2> HIDE DEF dates
  <2>2. view'[d].rdate = view[d].rdate /\ view'[d].selected = view[d].selected
    BY <1>1, <2>1 DEF IsView
  <2> QED BY <2>2
<1>10. CASE Pasted(d)
  BY <1>1, <1>10, PastedView DEF Pasted
<1> QED BY <1>2, <1>3, <1>4, <1>5, <1>6, <1>7, <1>8, <1>9, <1>10 DEF Change

\* The redemption date of a view and the selection of rows that stay change
\* only at the user's hand, but for the selection when a paste that the view
\* asked for is answered (view.c, table_model_changed_cb, update_view and
\* selection_received_cb).
THEOREM ChoicesAlwaysKept == Spec => ChoicesKept
<1>1. ViewInv /\ TypedInv /\ [Next]_vars =>
        [\A d \in connected :
           /\ view'[d].rdate # view[d].rdate =>
                \/ \A w \in Window : shown'[w] # d
                \/ view'[d].rdate \in view[d].popdown /\ UNCHANGED <<doc, table, home>>
           /\ ~(view[d].selected \cap DOMAIN view'[d].rows \subseteq view'[d].selected) =>
                \/ \A w \in Window : shown'[w] # d
                \/ UNCHANGED <<doc, table, pasting>> /\ view'[d].rows = view[d].rows
                \/ d \in pasting \ pasting']_vars
  BY ChoicesStep DEF Shown
<1> QED BY ViewInvariant, TypedInvariant, <1>1, PTL DEF Spec, ChoicesKept

=============================================================================
