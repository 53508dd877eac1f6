------------------------------- MODULE GbView -------------------------------
(***************************************************************************)
(* What the windows of GBonds show: the bond list and the redemption date  *)
(* of src/view.c, the title bar of src/window.c, the menu verbs of         *)
(* src/ui.c.  All of it is kept up to date by signals: of the document, of *)
(* the tree selection, and of the redemption tables.                       *)
(*                                                                         *)
(* gb_window_set_doc makes a view for a document it has never shown, so    *)
(* that a document stands for its view too.  A document that is no longer  *)
(* shown may live on without an owner; nothing changes it any more.  Its   *)
(* view is gone, but the table model still has the view's handler, and an  *)
(* answer to a paste still finds it.                                       *)
(*                                                                         *)
(* What closing asks is in module GbSession, what the clipboard holds in   *)
(* module GbEdit: here the answer to a paste is any bonds.                 *)
(***************************************************************************)
EXTENDS TableModel

CONSTANTS
  Window,    \* windows (bound: at most this many at once)
  Doc,       \* documents with their views (bound: as many are ever made)
  Bond,
  PaysFrom,  \* the first date gb_rules_determine_nopay lets each bond pay
  Title,
  File,
  Today,     \* the months the clock may show
  System,    \* the tables in REDEMPTION_DATA_DIR
  YearDates, \* the dates of GB_PREFS_RDATE_RANGE_YEAR, 12 in the code
  MaxOps,    \* operations (bound)
  None       \* NULL

ASSUME ViewAssumption ==
  /\ None \notin Doc \cup Title \cup File
  /\ PaysFrom \in [Bond -> Nat]
  /\ Today \subseteq Nat
  /\ System \subseteq Table /\ System # {}
  /\ YearDates \in Nat /\ MaxOps \in Nat

VARIABLES
  open,            \* window_list
  shown,           \* the document of each window's view, None without a view
  doc,             \* the documents
  view,            \* their views
  window_title,    \* the title bar of each window
  doc_verbs,       \* the windows in which the verbs of each list are sensitive
  modified_verbs,
  selection_verbs,
  connected,       \* the views whose handler the table model has
  pasting,         \* the views that asked for GBONDS_CLIPBOARD and wait
  table,           \* the redemption tables in memory
  home,            \* the tables in ~/.gbonds
  rdate_range,     \* the preference, as the n_dates it stands for; 0 is all
  crashed,         \* a handler ran on a view that was gone
  ops              \* operations so far

vars == <<open, shown, doc, view, window_title, doc_verbs, modified_verbs,
          selection_verbs, connected, pasting, table, home, rdate_range, crashed, ops>>

Document == [list : SUBSET Bond, title : Title \cup {None},
             filename : File \cup {None}, modified : BOOLEAN]
NewDoc   == [list |-> {}, title |-> None, filename |-> None, modified |-> FALSE]
NoView   == [rows |-> <<>>, rdate |-> NoDate, popdown |-> {}, selected |-> {}]

\* gb_rules_determine_nopay.
Nopay(b, rdate) == rdate < PaysFrom[b]

---------------------------------------------------------------------------
(* Titles, rows and signals.                                               *)

\* set_window_title: the title, else the short name; "Untitled n" is told
\* apart by the document it numbers.
TitleOf(d, D) ==
  [name |-> CASE D.title # None -> D.title
              [] D.title = None /\ D.filename # None -> D.filename
              [] D.title = None /\ D.filename = None -> d,
   modified |-> D.modified]

\* The rows update_view makes, with the value and the flag that decides on the
\* colour.  A redemption date that does not parse stops it before the first.
RowsOf(list, rdate) ==
  [b \in IF rdate = NoDate THEN {} ELSE list |->
     GetValue(table, Nopay(b, rdate), rdate)]

\* Rows that are gone stay selected (mutant).
UpdateViewKeepsAll(v, list) == [v EXCEPT !.rows = RowsOf(list, v.rdate)]

\* A view that loses the selection when its rows are made anew (mutant).
UpdateViewUnselects(v, list) ==
  [v EXCEPT !.rows = RowsOf(list, v.rdate), !.selected = {}]

\* update_view: new rows, with the bonds that are still there still selected.
UpdateView(v, list) ==
  LET rows == RowsOf(list, v.rdate)
  IN  [v EXCEPT !.rows = rows, !.selected = @ \cap DOMAIN rows]

\* name_changed_cb, in the window that shows d.
NameChanged(d) ==
  window_title' = [w \in Window |-> IF shown[w] = d THEN TitleOf(d, doc'[d])
                                    ELSE window_title[w]]

\* modified_changed_cb, when the flag has changed.
ModifiedVerbs(d) ==
  modified_verbs' = {w \in Window : IF shown[w] = d THEN doc'[d].modified
                                    ELSE w \in modified_verbs}

\* The signal goes out before the flag is set (mutant).
ModifiedChangedEarly(d) ==
  IF doc'[d].modified # doc[d].modified
  THEN /\ window_title' = [w \in Window |-> IF shown[w] = d THEN TitleOf(d, doc[d])
                                            ELSE window_title[w]]
       /\ ModifiedVerbs(d)
  ELSE UNCHANGED <<window_title, modified_verbs>>

ModifiedChanged(d) ==
  IF doc'[d].modified # doc[d].modified
  THEN NameChanged(d) /\ ModifiedVerbs(d)
  ELSE UNCHANGED <<window_title, modified_verbs>>

\* The verbs only follow what the user selects, not the rows (mutant).
SelectionChangedByUser(d) ==
  selection_verbs' =
    {w \in Window : IF shown[w] = d /\ view'[d].rows = view[d].rows
                    THEN view'[d].selected # {} ELSE w \in selection_verbs}

\* selection_changed_cb: the tree selection tells of every change, those that
\* come of rows removed and rows selected again included.
SelectionChanged(d) ==
  selection_verbs' = {w \in Window : IF shown[w] = d THEN view'[d].selected # {}
                                     ELSE w \in selection_verbs}

\* While the process runs, with a window on the screen.
Step == open # {} /\ ~crashed /\ ops < MaxOps /\ ops' = ops + 1

\* The window is there, and its menu offers the verb.
Can(verbs, w) == Step /\ w \in open \cap verbs

Shows == UNCHANGED <<open, shown, doc_verbs, connected, table, home, rdate_range>>
Same  == Shows /\ UNCHANGED <<pasting, crashed>>

---------------------------------------------------------------------------
(* Windows.                                                                *)

\* gb_view_new at a time today.
NewView(D, today) ==
  UpdateView([NoView EXCEPT !.rdate = BestRdateToday(table, today),
                            !.popdown = RdateList(table, rdate_range)], D.list)

\* gb_window_set_doc.
SetDoc(w, d, D, today) ==
  LET clean == [D EXCEPT !.modified = FALSE]
  IN  /\ shown' = [shown EXCEPT ![w] = d]
      /\ doc'   = [x \in Doc |-> CASE x = d -> clean
                                   [] x # d /\ x = shown[w] -> NewDoc
                                   [] x # d /\ x # shown[w] -> doc[x]]
      /\ view'  = [x \in Doc |-> CASE x = d -> NewView(clean, today)
                                   [] x # d /\ x = shown[w] -> NoView
                                   [] x # d /\ x # shown[w] -> view[x]]
      /\ window_title' = [window_title EXCEPT ![w] = TitleOf(d, clean)]
      /\ doc_verbs' = doc_verbs \cup {w}
      /\ modified_verbs' = modified_verbs \ {w}
      /\ selection_verbs' = selection_verbs \ {w}
      /\ connected' = connected \cup {d}

\* gb_window_is_empty.
IsEmpty(w) ==
  shown[w] # None => /\ doc[shown[w]].filename = None
                     /\ ~doc[shown[w]].modified

\* gb_file_new, gb_file_open_real and import_real: in the window that asked,
\* or in a new one.
PlaceDoc(w, D) ==
  /\ Can(open, w)
  /\ \E d \in Doc \ connected, today \in Today,
        v \in IF IsEmpty(w) THEN {w} ELSE Window \ open :
       /\ SetDoc(v, d, D, today)
       /\ open' = open \cup {v}
  /\ UNCHANGED <<pasting, table, home, rdate_range, crashed>>

FileNew(w) == PlaceDoc(w, NewDoc)

FileOpen(w) ==
  \E list \in SUBSET Bond, t \in Title \cup {None}, f \in File :
    PlaceDoc(w, [list |-> list, title |-> t, filename |-> f, modified |-> FALSE])

FileImport(w) ==
  \E list \in SUBSET Bond, t \in Title :
    PlaceDoc(w, [list |-> list, title |-> t, filename |-> None, modified |-> TRUE])

\* gb_file_close, gone through with: gb_window_destroy.
FileClose(w) ==
  /\ Can(open, w)
  /\ open' = open \ {w}
  /\ shown' = [shown EXCEPT ![w] = None]
  /\ doc'  = [d \in Doc |-> IF d = shown[w] THEN NewDoc ELSE doc[d]]
  /\ view' = [d \in Doc |-> IF d = shown[w] THEN NoView ELSE view[d]]
  /\ window_title' = [window_title EXCEPT ![w] = None]
  /\ doc_verbs' = doc_verbs \ {w}
  /\ modified_verbs' = modified_verbs \ {w}
  /\ selection_verbs' = selection_verbs \ {w}
  /\ UNCHANGED <<connected, pasting, table, home, rdate_range, crashed>>

---------------------------------------------------------------------------
(* The document.                                                           *)

\* gb_doc_add_bond, from the Add dialog.
AddBond(w, b) ==
  /\ Can(doc_verbs, w)
  /\ LET d == shown[w]
     IN  /\ b \notin doc[d].list
         /\ doc' = [doc EXCEPT ![d].list = @ \cup {b}, ![d].modified = TRUE]
         /\ view' = [view EXCEPT ![d] = UpdateView(@, doc'[d].list)]
         /\ SelectionChanged(d)
         /\ ModifiedChanged(d)
  /\ Same

\* "changed" is not emitted for a deletion (mutant).
DeleteBondUnseen(w, b) ==
  /\ Can(selection_verbs, w)
  /\ LET d == shown[w]
     IN  /\ b \in view[d].selected
         /\ doc' = [doc EXCEPT ![d].list = @ \ {b}, ![d].modified = TRUE]
         /\ ModifiedChanged(d)
  /\ UNCHANGED <<view, selection_verbs>>
  /\ Same

\* gb_doc_delete_bond, for one of the selected bonds.
DeleteBond(w, b) ==
  /\ Can(selection_verbs, w)
  /\ LET d == shown[w]
     IN  /\ b \in view[d].selected
         /\ doc' = [doc EXCEPT ![d].list = @ \ {b}, ![d].modified = TRUE]
         /\ view' = [view EXCEPT ![d] = UpdateView(@, doc'[d].list)]
         /\ SelectionChanged(d)
         /\ ModifiedChanged(d)
  /\ Same

\* gb_doc_set_title: "changed", "name_changed", "modified_changed".
SetTitle(w, t) ==
  /\ Can(doc_verbs, w)
  /\ LET d == shown[w]
     IN  /\ doc' = [doc EXCEPT ![d].title = t, ![d].modified = TRUE]
         /\ view' = [view EXCEPT ![d] = UpdateView(@, doc'[d].list)]
         /\ SelectionChanged(d)
         /\ NameChanged(d)
         /\ ModifiedVerbs(d)
  /\ Same

\* gb_doc_xml_save, gone well: gb_doc_set_filename, gb_doc_clear_modified.
XmlSave(w, f) ==
  LET d == shown[w]
  IN  /\ doc' = [doc EXCEPT ![d].filename = f, ![d].modified = FALSE]
      /\ NameChanged(d)
      /\ ModifiedVerbs(d)
      /\ UNCHANGED <<view, selection_verbs>>

FileSave(w)      == /\ Can(modified_verbs, w)
                    /\ doc[shown[w]].filename # None
                    /\ XmlSave(w, doc[shown[w]].filename)
                    /\ Same
FileSaveAs(w, f) == Can(doc_verbs, w) /\ XmlSave(w, f) /\ Same

---------------------------------------------------------------------------
(* A paste.                                                                *)

\* gb_view_paste.
Paste(w) ==
  /\ Can(doc_verbs, w)
  /\ pasting' = pasting \cup {shown[w]}
  /\ UNCHANGED <<doc, view, window_title, modified_verbs, selection_verbs, crashed>>
  /\ Shows

\* A document that takes bonds in: nothing is signalled of none.
Taken(v, list, bonds) == IF bonds = {} THEN v ELSE UpdateView(v, list \cup bonds)

\* selection_received_cb, with the bonds of the answer that are not refused: at
\* the end gb_view_unselect_all, even where there are none.
Received(d, bonds) ==
  /\ doc' = [doc EXCEPT ![d].list = @ \cup bonds,
                        ![d].modified = @ \/ bonds # {}]
  /\ view' = [view EXCEPT ![d] = [Taken(@, doc[d].list, bonds) EXCEPT !.selected = {}]]
  /\ SelectionChanged(d)
  /\ ModifiedChanged(d)

\* The answer: at once when a window of this process has the clipboard, at any
\* later time when another process does.  One without bonds' data changes
\* nothing.  Where the view is gone the handler runs on freed memory, which may
\* end the process.
PasteAnswered(d) ==
  /\ Step
  /\ d \in pasting
  /\ pasting' = pasting \ {d}
  /\ \/ /\ \E w \in Window : shown[w] = d
        /\ \E bonds \in SUBSET (Bond \ doc[d].list) : Received(d, bonds)
        /\ UNCHANGED crashed
     \/ /\ crashed' \in {crashed, \A w \in Window : shown[w] # d}
        /\ UNCHANGED <<doc, view, window_title, modified_verbs, selection_verbs>>
  /\ Shows

---------------------------------------------------------------------------
(* The view.                                                               *)

\* The user's clicks, gb_view_select_all and gb_view_unselect_all.
Select(w, bonds) ==
  /\ Can(doc_verbs, w)
  /\ LET d == shown[w]
     IN  /\ bonds \subseteq DOMAIN view[d].rows
         /\ bonds # view[d].selected
         /\ view' = [view EXCEPT ![d].selected = bonds]
         /\ SelectionChanged(d)
  /\ UNCHANGED <<doc, window_title, modified_verbs>>
  /\ Same

\* rdate_changed_cb, for a date of the popdown list.
PickRdate(w) ==
  /\ Can(doc_verbs, w)
  /\ LET d == shown[w]
     IN  /\ \E rdate \in view[d].popdown \ {view[d].rdate} :
              view' = [view EXCEPT ![d] = UpdateView([@ EXCEPT !.rdate = rdate],
                                                     doc[d].list)]
         /\ SelectionChanged(d)
  /\ UNCHANGED <<doc, window_title, modified_verbs>>
  /\ Same

\* gb_prefs->rdate_range, from the preferences dialog: nothing else hears of it.
SetRdateRange(n) ==
  /\ Step
  /\ n # rdate_range /\ rdate_range' = n
  /\ UNCHANGED <<open, shown, doc, view, window_title, doc_verbs, modified_verbs,
                 selection_verbs, connected, pasting, table, home, crashed>>

---------------------------------------------------------------------------
(* The redemption tables.                                                  *)

\* table_model_changed_cb: the list of dates anew, unless there are no tables,
\* and the entry as it was, with the handler of its own changes blocked.
TableModelChanged(v, dates) ==
  IF dates = {} THEN v ELSE [v EXCEPT !.popdown = dates]

\* gb_table_model_update at the end of a download.  For each view that is gone
\* the handler runs on freed memory, which may end the process.
UpdateTables(downloaded, readable) ==
  /\ Step
  /\ home' = home \cup downloaded
  /\ LET dead == {d \in connected : \A w \in Window : shown[w] # d}
     IN  \/ /\ dead # {}
            /\ crashed' = TRUE
            /\ UNCHANGED <<table, view>>
         \/ /\ table' = Update(System, home', readable)
            /\ view' = [d \in Doc |->
                 IF d \in connected \ dead
                 THEN TableModelChanged(view[d], RdateList(table', rdate_range))
                 ELSE view[d]]
            /\ UNCHANGED crashed
  /\ UNCHANGED <<open, shown, doc, window_title, doc_verbs, modified_verbs,
                 selection_verbs, connected, pasting, rdate_range>>

---------------------------------------------------------------------------
\* The first window, as gb_window_init leaves it: it stays so when the file of
\* the command line cannot be read, or the list of recent files is empty.  main
\* goes no further without tables.
Init ==
  /\ \E w \in Window : open = {w}
  /\ shown = [w \in Window |-> None]
  /\ doc = [d \in Doc |-> NewDoc]
  /\ view = [d \in Doc |-> NoView]
  /\ window_title = [w \in Window |-> None]
  /\ doc_verbs = {} /\ modified_verbs = {} /\ selection_verbs = {}
  /\ connected = {}
  /\ pasting = {}
  /\ home = {}
  /\ table = Update(System, home, TRUE)
  /\ rdate_range = YearDates
  /\ crashed = FALSE
  /\ ops = 0

WindowNext(w) ==
  \/ FileNew(w) \/ FileOpen(w) \/ FileImport(w) \/ FileClose(w)
  \/ \E b \in Bond : AddBond(w, b) \/ DeleteBond(w, b)
  \/ \E t \in Title : SetTitle(w, t)
  \/ FileSave(w)
  \/ \E f \in File : FileSaveAs(w, f)
  \/ \E bonds \in SUBSET Bond : Select(w, bonds)
  \/ PickRdate(w) \/ Paste(w)

Next ==
  \/ \E w \in open : WindowNext(w)
  \/ \E d \in Doc : PasteAnswered(d)
  \/ \E n \in {0, YearDates} : SetRdateRange(n)
  \/ \E downloaded \in SUBSET (Table \ System), readable \in BOOLEAN :
       UpdateTables(downloaded, readable)

Spec == Init /\ [][Next]_vars

---------------------------------------------------------------------------
(* Properties.                                                             *)

\* Each variable has its type, and the rows of a view are bonds with a value.
TypeOK ==
  /\ open \subseteq Window
  /\ shown \in [Window -> Doc \cup {None}]
  /\ doc \in [Doc -> Document]
  /\ \A d \in Doc :
       /\ DOMAIN view[d].rows \subseteq Bond
       /\ \A b \in DOMAIN view[d].rows :
            view[d].rows[b] \in [value : {"issue price", "table", "nothing"},
                                 nopay_flag : BOOLEAN]
       /\ view[d].rdate \in Nat \cup {NoDate}
       /\ view[d].popdown \subseteq Nat
       /\ view[d].selected \subseteq DOMAIN view[d].rows
  /\ doc_verbs \subseteq open
  /\ connected \subseteq Doc /\ pasting \subseteq Doc
  /\ table \subseteq Table /\ home \subseteq Table
  /\ rdate_range \in {0, YearDates}
  /\ crashed \in BOOLEAN /\ ops \in 0 .. MaxOps

\* The title bar of a window names the document it shows and says truly
\* whether it is modified, whichever signals brought it there
\* (set_window_title of window.c).
TitleTrue ==
  \A w \in Window :
    window_title[w] = IF shown[w] = None THEN None ELSE TitleOf(shown[w], doc[shown[w]])

\* The menu of a window offers what its document can do: Save when there is
\* something to save, Cut, Copy, Delete when something is selected, nothing of
\* a document when there is none (ui.c).
VerbsTrue ==
  /\ doc_verbs = {w \in open : shown[w] # None}
  /\ modified_verbs = {w \in doc_verbs : doc[shown[w]].modified}
  /\ selection_verbs = {w \in doc_verbs : view[shown[w]].selected # {}}

\* A view lists exactly the bonds of its document, without a date none; it marks
\* every bond that does not pay at its redemption date, and only goes without the
\* mark in a month some table on the disk has, though the rows may be older than
\* the tables in memory (update_view, gb_table_model_get_value).
RowsTrue ==
  \A w \in doc_verbs : LET v == view[shown[w]] IN
    /\ DOMAIN v.rows = IF v.rdate = NoDate THEN {} ELSE doc[shown[w]].list
    /\ \A b \in DOMAIN v.rows :
         /\ Nopay(b, v.rdate) => v.rows[b].nopay_flag
         /\ ~v.rows[b].nopay_flag => v.rdate \in Months(System \cup home)

\* With no month missing between the first and the last table ("Assume all
\* contiguous dates are present", table-model.c), every date a view offers has
\* redemption values, whatever tables came and whatever preference ruled since
\* its list was made.
PicksPriced ==
  Months(table) = RdateMin(table) .. RdateMax(table)
    => \A w \in doc_verbs : view[shown[w]].popdown \subseteq Months(table)

\* The redemption date of a view, and the selection among bonds that stay,
\* only change at the user's hand: not when tables arrive, not when another
\* bond comes or goes (table_model_changed_cb, update_view).  But a paste that
\* the view asked for takes the selection, whenever its answer comes
\* (selection_received_cb).
ChoicesKept ==
  [][\A d \in connected :
       /\ view'[d].rdate # view[d].rdate =>
            \/ \A w \in Window : shown'[w] # d
            \/ view'[d].rdate \in view[d].popdown /\ UNCHANGED <<doc, table, home>>
       /\ ~(view[d].selected \cap DOMAIN view'[d].rows \subseteq view'[d].selected) =>
            \/ \A w \in Window : shown'[w] # d
            \/ UNCHANGED <<doc, table, pasting>> /\ view'[d].rows = view[d].rows
            \/ d \in pasting \ pasting']_vars
=============================================================================
