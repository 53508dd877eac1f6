----------------------------- MODULE GbSession -----------------------------
(***************************************************************************)
(* The windows of one GBonds process, their documents and the files: the   *)
(* File menu of src/file.c on the windows of src/window.c.                 *)
(*                                                                         *)
(* Open and Import choosers are not modal and outlive the command that     *)
(* showed them.  The close question and the Save As chooser run a main     *)
(* loop of their own inside gb_file_close and gb_file_save_as: stack holds *)
(* those unfinished calls.  While it is not empty, GTK's grab keeps the    *)
(* user to the topmost dialog; only the session manager's "die" still      *)
(* comes through, and runs gb_file_exit on top.                            *)
(*                                                                         *)
(* A document's content is the set of the edits in it; what an edit is     *)
(* does not matter here (module GbDoc).  made, excused, kept and critical  *)
(* are history: the edits ever made, who agreed to the loss of which,      *)
(* which windows were kept during an exit, which assertions failed.        *)
(***************************************************************************)
EXTENDS Integers, SequencesExt

CONSTANTS
  Win,       \* windows (bound: at most this many at once)
  File,      \* inventory files
  Edit,      \* edits, each made once (bound)
  Foreign,   \* what an SBW file holds
  Nil,       \* no window, no file, no view
  Missing,   \* a file that does not exist
  Damaged,   \* a file a failed save cut short
  MaxChooser, \* Open and Import choosers on the screen at once (bound)
  MaxDie     \* "die" signals of the session manager (bound)

Token == Edit \cup Foreign
Doc   == [file : File \cup {Nil}, modified : BOOLEAN, content : SUBSET Token]

ASSUME SessionAssumption ==
  /\ Nil \notin Win \cup File
  /\ Foreign \cap Edit = {}
  /\ Nil \notin Doc
  /\ \A content \in SUBSET Token : content \notin {Missing, Damaged}
  /\ MaxChooser \in Nat
  /\ MaxDie \in Nat

VARIABLES
  window_list,  \* window.c's list, in order of creation
  docs,         \* the document in each window's view, Nil where view is NULL
  disk,         \* what each file holds
  choosers,     \* Open and Import choosers on the screen
  stack,        \* unfinished calls, the innermost last
  saved_flag,   \* what the last gb_file_save returned to gb_file_close
  running,      \* bonobo_main has not been told to quit
  dies,         \* "die" signals so far
  critical,     \* assertions that failed, by their function
  kept,         \* windows whose closing was called off during this exit
  made,         \* edits ever made, and foreign inventories ever imported
  excused       \* <<edit, cause>>: the edit may be lost, and why

vars == <<window_list, docs, disk, choosers, stack, saved_flag, running, dies,
          critical, kept, made, excused>>

Chooser == [kind : {"open", "import"}, parent : Win]
Frame   == [op : {"exit", "ask", "close", "save_as"}, win : Win \cup {Nil}]
Cause   == {"agreed", "dismissed", "shared", "damaged"}

Windows   == Range(window_list)
Stored(f) == IF disk[f] \in {Missing, Damaged} THEN {} ELSE disk[f]
Call(op, w) == [op |-> op, win |-> w]
Calling(op) == stack # <<>> /\ Last(stack).op = op

\* Functions whose failing leaves a freed list node or document in
\* use.  What the process does after that is not modelled.
Fatal == {"gb_file_close", "save_as_response"}
Alive == critical \cap Fatal = {}
Idle  == Alive /\ running /\ stack = <<>>

---------------------------------------------------------------------------
\* gb_window_is_empty.
IsEmpty(w) == docs[w] # Nil => docs[w].file = Nil /\ ~docs[w].modified

\* gb_window_set_doc, in this window or in a new one: gb_file_new,
\* gb_file_open_real and import_real all choose alike.
PlaceDoc(w, doc) ==
  LET clean == [doc EXCEPT !.modified = FALSE]
  IN  \/ /\ IsEmpty(w)
         /\ docs' = [docs EXCEPT ![w] = clean]
         /\ UNCHANGED window_list
      \/ /\ ~IsEmpty(w)
         /\ \E v \in Win \ Windows :
              /\ window_list' = Append(window_list, v)
              /\ docs' = [docs EXCEPT ![v] = clean]

\* gb_file_new.
FileNew(w) ==
  /\ Idle
  /\ PlaceDoc(w, [file |-> Nil, modified |-> FALSE, content |-> {}])
  /\ UNCHANGED <<disk, choosers, stack, saved_flag, running, dies, critical,
                 kept, made, excused>>

\* gb_file_open and gb_file_import only show a chooser.
ShowChooser(kind, w) ==
  /\ Idle
  /\ Cardinality(choosers) < MaxChooser
  /\ choosers' = choosers \cup {[kind |-> kind, parent |-> w]}
  /\ UNCHANGED <<window_list, docs, disk, stack, saved_flag, running, dies,
                 critical, kept, made, excused>>

\* gb_file_open_real on a file that parses, and import_real on a good one.
\* A file that does not parse only shows an alert.
OpenReal(f, w) ==
  /\ disk[f] \notin {Missing, Damaged}
  /\ PlaceDoc(w, [file |-> f, modified |-> FALSE, content |-> disk[f]])

ImportReal(w) ==
  PlaceDoc(w, [file |-> Nil, modified |-> TRUE, content |-> Foreign])

\* open_response and import_response on a file that is there and good.  The
\* window the chooser was shown for must still exist, or the choice is
\* ignored and the chooser stays.
ChooserAccept(c) ==
  /\ Idle
  /\ IF c.parent \in Windows
     THEN /\ \/ /\ c.kind = "open"
                /\ \E f \in File : OpenReal(f, c.parent)
                /\ UNCHANGED made
             \/ /\ c.kind = "import"
                /\ ImportReal(c.parent)
                /\ made' = made \cup Foreign
          /\ choosers' = choosers \ {c}
          /\ UNCHANGED critical
     ELSE /\ critical' = critical \cup {"open_response"}
          /\ UNCHANGED <<window_list, docs, choosers, made>>
  /\ UNCHANGED <<disk, stack, saved_flag, running, dies, kept, excused>>

\* Cancel, or the window manager's close button: that one destroys the
\* chooser even where open_response returned early.
ChooserCancel(c) ==
  /\ Idle
  /\ choosers' = choosers \ {c}
  /\ UNCHANGED <<window_list, docs, disk, stack, saved_flag, running, dies,
                 critical, kept, made, excused>>

\* gb_file_open_recent.
OpenRecent(f, w) ==
  /\ Idle
  /\ OpenReal(f, w)
  /\ UNCHANGED <<disk, choosers, stack, saved_flag, running, dies, critical,
                 kept, made, excused>>

\* The user changes an inventory and the flag goes up (module GbDoc).
EditDoc(w, e) ==
  /\ Idle
  /\ docs[w] # Nil
  /\ e \notin made
  /\ docs' = [docs EXCEPT ![w].content = @ \cup {e}, ![w].modified = TRUE]
  /\ made' = made \cup {e}
  /\ UNCHANGED <<window_list, disk, choosers, stack, saved_flag, running, dies,
                 critical, kept, excused>>

---------------------------------------------------------------------------
\* gb_doc_xml_save of w's document to f.  What only f held goes, and cause
\* says on whose word.
SaveOk(w, f, cause) ==
  /\ disk' = [disk EXCEPT ![f] = docs[w].content]
  /\ docs' = [docs EXCEPT ![w].file = f, ![w].modified = FALSE]
  /\ excused' = excused \cup ((Stored(f) \ docs[w].content) \X {cause})

\* A failed save that counts as one (mutant).
SaveFailClears(w, f) ==
  /\ UNCHANGED <<disk, excused>>
  /\ docs' = [docs EXCEPT ![w].modified = FALSE]

\* The save that fails, and may take the file's old contents with it.
SaveFail(w, f) ==
  /\ \/ UNCHANGED <<disk, excused>>
     \/ /\ disk' = [disk EXCEPT ![f] = Damaged]
        /\ excused' = excused \cup (Stored(f) \X {"damaged"})
  /\ UNCHANGED docs

\* File->Save, sensitive only while the document is modified: gb_file_save.
FileSave(w) ==
  /\ Idle
  /\ docs[w] # Nil
  /\ docs[w].modified
  /\ IF docs[w].file = Nil
     THEN /\ stack' = Append(stack, Call("save_as", w))
          /\ UNCHANGED <<docs, disk, excused>>
     ELSE /\ SaveOk(w, docs[w].file, "shared") \/ SaveFail(w, docs[w].file)
          /\ UNCHANGED stack
  /\ UNCHANGED <<window_list, choosers, saved_flag, running, dies, critical,
                 kept, made>>

\* File->Save As: gb_file_save_as shows its chooser and runs a main loop.
FileSaveAs(w) ==
  /\ Idle
  /\ docs[w] # Nil
  /\ stack' = Append(stack, Call("save_as", w))
  /\ UNCHANGED <<window_list, docs, disk, choosers, saved_flag, running, dies,
                 critical, kept, made, excused>>

\* save_as_response with a file name.  An existing file is asked about; every
\* answer but No overwrites it, also when the question was only dismissed.
SaveAsAccept(f, answer) ==
  /\ Alive
  /\ Calling("save_as")
  /\ Last(stack).win \in Windows
  /\ disk[f] = Missing => answer = "agreed"
  /\ LET w == Last(stack).win
     IN  \/ /\ SaveOk(w, f, answer)
            /\ saved_flag' = TRUE
            /\ stack' = Front(stack)
         \/ /\ SaveFail(w, f)
            /\ UNCHANGED <<saved_flag, stack>>
  /\ UNCHANGED <<window_list, choosers, running, dies, critical, kept, made>>

\* The same when the document went with its window in the meantime.
SaveAsTooLate ==
  /\ Alive
  /\ Calling("save_as")
  /\ Last(stack).win \notin Windows
  /\ critical' = critical \cup {"save_as_response"}
  /\ UNCHANGED <<window_list, docs, disk, choosers, stack, saved_flag, running,
                 dies, kept, made, excused>>

SaveAsCancel ==
  /\ Alive
  /\ Calling("save_as")
  /\ saved_flag' = FALSE
  /\ stack' = Front(stack)
  /\ UNCHANGED <<window_list, docs, disk, choosers, running, dies, critical,
                 kept, made, excused>>

---------------------------------------------------------------------------
\* A question kept for documents that have a file (mutant).
NeedsAskTitled(w) == ~IsEmpty(w) /\ docs[w].modified /\ docs[w].file # Nil

NeedsAsk(w) == ~IsEmpty(w) /\ docs[w].modified

\* A window destroyed without leaving the list of windows (mutant).
DestroyWindowListed(w) ==
  /\ UNCHANGED window_list
  /\ docs' = [docs EXCEPT ![w] = Nil]
  /\ running' = (window_list # <<w>>)

\* A window's node in the list: a window is there once.
Node(w) == CHOOSE i \in DOMAIN window_list : window_list[i] = w

\* gtk_widget_destroy and gb_window_destroy; gb_file_close quits the main
\* loop when no window is left.
DestroyWindow(w) ==
  /\ window_list' = RemoveAt(window_list, Node(w))
  /\ docs' = [docs EXCEPT ![w] = Nil]
  /\ running' = (window_list' # <<>>)

\* gb_file_close up to its question, called with calls as the stack.
CloseWindow(w, calls) ==
  IF NeedsAsk(w)
  THEN /\ stack' = Append(calls, Call("ask", w))
       /\ UNCHANGED <<window_list, docs, running>>
  ELSE /\ DestroyWindow(w)
       /\ stack' = calls

\* The window's delete-event, or File->Close, which is insensitive while the
\* window has no document.
FileClose(w) ==
  /\ Idle
  /\ CloseWindow(w, stack)
  /\ UNCHANGED <<disk, choosers, saved_flag, dies, critical, kept, made,
                 excused>>

\* The closing of w is called off; that matters to an exit under way.
Exiting == \E i \in DOMAIN stack : stack[i].op = "exit"
Keep(w) == kept' = IF Exiting THEN kept \cup {w} ELSE {}

\* The answers to "Save changes before closing?": save, close without saving,
\* and everything else.
AskSave ==
  /\ Alive
  /\ Calling("ask")
  /\ Last(stack).win \in Windows
  /\ LET w     == Last(stack).win
         calls == Append(Front(stack), Call("close", w))
     IN  IF docs[w].file = Nil
         THEN /\ stack' = Append(calls, Call("save_as", w))
              /\ UNCHANGED <<docs, disk, excused, saved_flag>>
         ELSE /\ stack' = calls
              /\ \/ SaveOk(w, docs[w].file, "shared") /\ saved_flag' = TRUE
                 \/ SaveFail(w, docs[w].file) /\ saved_flag' = FALSE
  /\ UNCHANGED <<window_list, choosers, running, dies, critical, kept, made>>

AskDiscard ==
  /\ Alive
  /\ Calling("ask")
  /\ Last(stack).win \in Windows
  /\ excused' = excused \cup
       ((docs[Last(stack).win].content \ UNION {Stored(f) : f \in File}) \X {"agreed"})
  /\ DestroyWindow(Last(stack).win)
  /\ stack' = Front(stack)
  /\ UNCHANGED <<disk, choosers, saved_flag, dies, critical, kept, made>>

\* Cancel; and what gtk_dialog_run returns when the window and with it the
\* dialog went away.
AskCancel ==
  /\ Alive
  /\ Calling("ask")
  /\ stack' = Front(stack)
  /\ Keep(Last(stack).win)
  /\ UNCHANGED <<window_list, docs, disk, choosers, saved_flag, running, dies,
                 critical, made, excused>>

\* The end of gb_file_close, after gb_file_save returned.
CloseAfterSave ==
  /\ Alive
  /\ Calling("close")
  /\ stack' = Front(stack)
  /\ IF saved_flag
     THEN DestroyWindow(Last(stack).win) /\ UNCHANGED kept
     ELSE /\ Keep(Last(stack).win)
          /\ UNCHANGED <<window_list, docs, running>>
  /\ UNCHANGED <<disk, choosers, saved_flag, dies, critical, made, excused>>

---------------------------------------------------------------------------
\* A walk one node too long in its stride (mutant).
NextWindowSkips(w) ==
  IF Node(w) + 1 >= Len(window_list) THEN Nil ELSE window_list[Node(w) + 2]

\* The window whose list node follows w's.
NextWindow(w) ==
  IF Node(w) = Len(window_list) THEN Nil ELSE window_list[Node(w) + 1]

\* gb_file_exit is called: from the menu, or by client_die_cb, which also
\* arrives inside the main loop of a question or a chooser.
StartExit ==
  /\ stack' = Append(stack, Call("exit", IF window_list = <<>> THEN Nil
                                         ELSE Head(window_list)))
  /\ UNCHANGED <<window_list, docs, disk, choosers, saved_flag, running,
                 critical, kept, made, excused>>

FileExit ==
  /\ Idle
  /\ StartExit
  /\ UNCHANGED dies

ClientDie ==
  /\ Idle \/ (Alive /\ (Calling("ask") \/ Calling("save_as")))
  /\ dies < MaxDie
  /\ StartExit
  /\ dies' = dies + 1

\* A walk that reads p->next only after the close (mutant).
ExitNextLate ==
  /\ Alive
  /\ Calling("exit")
  /\ LET w == Last(stack).win
     IN  /\ w # Nil
         /\ IF w \in Windows
            THEN /\ CloseWindow(w, Append(Front(stack), Call("exit", w)))
                 /\ UNCHANGED critical
            ELSE /\ critical' = critical \cup {"gb_file_close"}
                 /\ UNCHANGED <<window_list, docs, stack, running>>
  /\ UNCHANGED <<disk, choosers, saved_flag, dies, kept, made, excused>>

\* One turn of the loop of gb_file_exit: the next node is fetched first, then
\* the window closed.  The node itself may have been freed meanwhile.
ExitNext ==
  /\ Alive
  /\ Calling("exit")
  /\ LET w == Last(stack).win
     IN  /\ w # Nil
         /\ IF w \in Windows
            THEN /\ CloseWindow(w, Append(Front(stack), Call("exit", NextWindow(w))))
                 /\ UNCHANGED critical
            ELSE /\ critical' = critical \cup {"gb_file_close"}
                 /\ UNCHANGED <<window_list, docs, stack, running>>
  /\ UNCHANGED <<disk, choosers, saved_flag, dies, kept, made, excused>>

ExitDone ==
  /\ Alive
  /\ Calling("exit")
  /\ Last(stack).win = Nil
  /\ stack' = Front(stack)
  /\ kept' = IF \E i \in DOMAIN stack' : stack'[i].op = "exit" THEN kept ELSE {}
  /\ UNCHANGED <<window_list, docs, disk, choosers, saved_flag, running, dies,
                 critical, made, excused>>

---------------------------------------------------------------------------
\* main: one window, with an empty document or, when it was to show the most
\* recent inventory and there is none, with no document at all.
Init ==
  /\ \E w \in Win : window_list = <<w>> /\ \E blank \in BOOLEAN :
       docs = [v \in Win |-> IF v = w /\ blank
                THEN [file |-> Nil, modified |-> FALSE, content |-> {}] ELSE Nil]
  /\ disk = [f \in File |-> Missing]
  /\ choosers = {}
  /\ stack = <<>>
  /\ saved_flag = FALSE
  /\ running = TRUE
  /\ dies = 0
  /\ critical = {}
  /\ kept = {}
  /\ made = {}
  /\ excused = {}

WindowNext(w) ==
  \/ FileNew(w)
  \/ \E kind \in {"open", "import"} : ShowChooser(kind, w)
  \/ \E f \in File : OpenRecent(f, w)
  \/ \E e \in Edit : EditDoc(w, e)
  \/ FileSave(w)
  \/ FileSaveAs(w)
  \/ FileClose(w)

Next ==
  \/ \E w \in Windows : WindowNext(w)
  \/ \E c \in choosers : ChooserAccept(c) \/ ChooserCancel(c)
  \/ \E f \in File : \E answer \in {"agreed", "dismissed"} : SaveAsAccept(f, answer)
  \/ SaveAsTooLate
  \/ SaveAsCancel
  \/ AskSave
  \/ AskDiscard
  \/ AskCancel
  \/ CloseAfterSave
  \/ FileExit
  \/ ClientDie
  \/ ExitNext
  \/ ExitDone

Spec == Init /\ [][Next]_vars

---------------------------------------------------------------------------
TypeOK ==
  /\ window_list \in Seq(Win) /\ IsInjective(window_list)
  /\ docs \in [Win -> Doc \cup {Nil}]
  /\ \A w \in Win \ Windows : docs[w] = Nil
  /\ disk \in [File -> (SUBSET Token) \cup {Missing, Damaged}]
  /\ choosers \subseteq Chooser /\ Cardinality(choosers) <= MaxChooser
  /\ stack \in Seq(Frame)
  /\ saved_flag \in BOOLEAN
  /\ running = (window_list # <<>>)
  /\ dies \in 0 .. MaxDie
  /\ critical \subseteq Fatal \cup {"open_response"}
  /\ kept \subseteq Win
  /\ made \subseteq Token
  /\ excused \subseteq Token \X Cause

\* A window the user may have reused under him without a question (New, Open,
\* Open Recent and Import all put their document in an empty window) never
\* holds an edit, whatever saves failed before.
EmptyHasNoEdits ==
  \A w \in Windows :
    docs[w] # Nil /\ IsEmpty(w) => docs[w].content \cap Edit = {}

\* Where an edit is safe: in a file, or in a document that the user will be
\* asked about.
Safe(e) ==
  \/ \E f \in File : e \in Stored(f)
  \/ \E w \in Windows : docs[w] # Nil /\ docs[w].modified /\ e \in docs[w].content

\* However windows are opened, reused, saved, closed and the session ended, an
\* edit is in a file or in a document still to be asked about, unless its loss
\* has one of the four causes recorded in excused.
EditsAccounted ==
  \A e \in made \cap Edit : Safe(e) \/ \E cause \in Cause : <<e, cause>> \in excused

\* When gb_file_exit returns, every window it leaves open is one whose closing
\* the user called off: none was skipped because the list changed under the
\* loop.
ExitLeavesOnlyKept ==
  /\ Alive
  /\ Calling("exit") /\ Last(stack).win = Nil
  /\ \A i \in DOMAIN stack : stack[i].op = "exit" => i = Len(stack)
  => Windows \subseteq kept

\* As long as no "die" arrives, the window of every unfinished call is alive:
\* the next window of the exit loop, the parent of the question and of the Save
\* As chooser.
CallsHaveWindows ==
  dies = 0 => \A i \in DOMAIN stack : stack[i].win \in Windows \cup {Nil}

---------------------------------------------------------------------------
\* "g_return_val_if_fail (window && GB_IS_WINDOW(window), TRUE)": gb_file_exit
\* calls gb_file_close on a window.
ExitClosesWindows == "gb_file_close" \notin critical

\* "Is window empty?": no window counts as empty while it shows an inventory
\* that was imported and stored nowhere, and is then reused or closed without
\* a question.
ImportsAccounted ==
  \A e \in made \cap Foreign : Safe(e) \/ \E cause \in Cause : <<e, cause>> \in excused
=============================================================================
