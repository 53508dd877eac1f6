------------------------------- MODULE GbEdit -------------------------------
(***************************************************************************)
(* Selecting, deleting, cutting, copying and pasting bonds: the Edit menu  *)
(* on the views of the open windows (src/edit.c, src/view.c).              *)
(*                                                                         *)
(* gb_edit_delete_bonds asks about the selected bonds one by one; dialog   *)
(* is that loop, waiting in gtk_dialog_run with the bond objects it has    *)
(* not come to.  The dialog is modal, but an answer to a paste that was    *)
(* asked of another process still comes through.                           *)
(*                                                                         *)
(* A view puts what it copies in selection_data and takes three X          *)
(* selections for it.  GTK asks an owner in the same process directly, and *)
(* another process by a message.                                           *)
(***************************************************************************)
EXTENDS Integers, FiniteSets, SequencesExt

CONSTANTS
  View,     \* views, one in each window
  Ptr,      \* addresses a gbDocBond can be allocated at
  Content,  \* bonds that can be entered: [sn, series, denom]
  NoSN,     \* the NULL serial number of an imported bond
  NullText, \* what printf makes of it
  Other,    \* another program, or another GBonds
  OtherData,\* what the other GBonds has copied
  Nil

ASSUME EditAssumption ==
  /\ {NoSN, NullText} \cap View = {} /\ NoSN # NullText
  /\ Other \notin View
  /\ Nil \notin View /\ Nil \notin Ptr
  /\ IsFiniteSet(Ptr)

\* What gb_doc_bond_new can make of what is entered, copied or pasted here.
SerialNumber == {c.sn : c \in Content \cup Range(OtherData)} \cup {NullText}
Line == [sn : SerialNumber, series : {"E", "EE", "S", "I"}, denom : Nat \ {0}]

ASSUME LineAssumption ==
  /\ Content \subseteq Line
  /\ OtherData \in Seq(Line)
  /\ Nil \notin Line /\ Nil \notin Seq(Line)
  /\ Nil \notin [view : View, queue : Seq(Ptr)]

VARIABLES
  docs,           \* the bond objects in each view's document
  bond,           \* what is at each address, Nil where nothing is
  refused,        \* addresses of the bonds gb_doc_add_bond refused, never freed
  selected,       \* the selected rows of each view
  selection_data, \* what each view has copied, Nil when have_selection is FALSE
  owner,          \* the owner of each X selection, Nil at first
  pasting,        \* views that wait for the other process's answer
  dialog,         \* Nil, or the view and the bonds the delete loop still holds
  held,           \* the bonds last copied or cut in this process
  spared          \* bonds of a view its last deletion was not to touch

vars == <<docs, bond, refused, selected, selection_data, owner, pasting, dialog,
          held, spared>>

Atom == {"CLIPBOARD", "PRIMARY", "GBONDS_CLIPBOARD"}

SNs(v)      == {bond[p].sn : p \in docs[v]}
Selections(v) == SetToSeqs(selected[v])   \* rows stand in any sort order
Contents(ptrs) == [i \in DOMAIN ptrs |-> bond[ptrs[i]]]

---------------------------------------------------------------------------
\* The user changes the selected rows; Select All and Unselect All among them.
Select(v, rows) ==
  /\ dialog = Nil
  /\ rows \subseteq docs[v]
  /\ selected' = [selected EXCEPT ![v] = rows]
  /\ UNCHANGED <<docs, bond, refused, selection_data, owner, pasting, dialog, held, spared>>

\* A deletion that frees every selected bond (mutant).
DeleteFreesSelected(v, gone) ==
  /\ docs' = [docs EXCEPT ![v] = @ \ gone]
  /\ bond' = [p \in Ptr |-> IF p \in selected[v] THEN Nil ELSE bond[p]]
  /\ selected' = [selected EXCEPT ![v] = @ \ gone]
  /\ UNCHANGED refused

\* A deletion that leaves the rows of the view as they were (mutant).
DeleteKeepsRows(v, gone) ==
  /\ docs' = [docs EXCEPT ![v] = @ \ gone]
  /\ bond' = [p \in Ptr |-> IF p \in docs[v] \cap gone THEN Nil ELSE bond[p]]
  /\ UNCHANGED <<refused, selected>>

\* gb_doc_delete_bond on each of gone; update_view keeps what is still there
\* selected.
Delete(v, gone) ==
  /\ docs' = [docs EXCEPT ![v] = @ \ gone]
  /\ bond' = [p \in Ptr |-> IF p \in docs[v] \cap gone THEN Nil ELSE bond[p]]
  /\ selected' = [selected EXCEPT ![v] = @ \ gone]
  /\ UNCHANGED refused

\* Edit->Delete, up to the first question.
StartDelete(v) ==
  /\ dialog = Nil
  /\ selected[v] # {}
  /\ \E queue \in Selections(v) : dialog' = [view |-> v, queue |-> queue]
  /\ spared' = [spared EXCEPT ![v] = docs[v] \ selected[v]]
  /\ UNCHANGED <<docs, bond, refused, selected, selection_data, owner, pasting, held>>

\* The next turn of the loop, or its end.
Advance == dialog' = IF Len(dialog.queue) = 1 THEN Nil
                     ELSE [dialog EXCEPT !.queue = Tail(@)]

AnswerYes ==
  /\ dialog # Nil
  /\ Delete(dialog.view, {Head(dialog.queue)})
  /\ Advance
  /\ UNCHANGED <<selection_data, owner, pasting, held, spared>>

AnswerNo ==
  /\ dialog # Nil
  /\ Advance
  /\ spared' = [spared EXCEPT ![dialog.view] = @ \cup {Head(dialog.queue)}]
  /\ UNCHANGED <<docs, bond, refused, selected, selection_data, owner, pasting, held>>

\* Yes to All that asks the view again what is selected (mutant).
AnswerYesToSelected ==
  /\ dialog # Nil
  /\ Len(dialog.queue) > 1
  /\ Delete(dialog.view, selected[dialog.view])
  /\ dialog' = Nil
  /\ UNCHANGED <<selection_data, owner, pasting, held, spared>>

\* The question about the last bond has no Yes to All and no Cancel; closing
\* it is a No.
AnswerYesToAll ==
  /\ dialog # Nil
  /\ Len(dialog.queue) > 1
  /\ Delete(dialog.view, Range(dialog.queue))
  /\ dialog' = Nil
  /\ UNCHANGED <<selection_data, owner, pasting, held, spared>>

AnswerCancel ==
  /\ dialog # Nil
  /\ Len(dialog.queue) > 1
  /\ dialog' = Nil
  /\ spared' = [spared EXCEPT ![dialog.view] = @ \cup Range(dialog.queue)]
  /\ UNCHANGED <<docs, bond, refused, selected, selection_data, owner, pasting, held>>

---------------------------------------------------------------------------
\* A clear handler that drops the data for any selection (mutant).
ClearedOfAny(v, lost) == IF lost # {} THEN Nil ELSE selection_data[v]

\* selection_clear_cb in view v, for the selections it lost.
Cleared(v, lost) ==
  IF lost \ {"PRIMARY"} # {} THEN Nil ELSE selection_data[v]

Owned(w, v) == {a \in Atom : owner[a] = w /\ w # v}

\* gb_view_copy.  GTK tells a former owner in this process at once.
TakeSelections(v) ==
  \E rows \in Selections(v) :
    /\ selection_data' = [w \in View |-> IF w = v THEN Contents(rows)
                                         ELSE Cleared(w, Owned(w, v))]
    /\ held' = Contents(rows)
    /\ owner' = [a \in Atom |-> v]

Copy(v) ==
  /\ dialog = Nil
  /\ selected[v] # {}
  /\ TakeSelections(v)
  /\ UNCHANGED <<docs, bond, refused, selected, pasting, dialog, spared>>

\* A cut that the modal question does not stop (mutant).
CutAnytime(v) ==
  /\ selected[v] # {}
  /\ TakeSelections(v)
  /\ Delete(v, selected[v])
  /\ spared' = [spared EXCEPT ![v] = {}]
  /\ UNCHANGED <<pasting, dialog>>

\* gb_view_cut: gb_view_copy, then gb_view_delete_selection.
Cut(v) ==
  /\ dialog = Nil
  /\ selected[v] # {}
  /\ TakeSelections(v)
  /\ Delete(v, selected[v])
  /\ spared' = [spared EXCEPT ![v] = {}]
  /\ UNCHANGED <<pasting, dialog>>

\* Another program takes one of the selections.
OtherTakes(a) ==
  /\ owner' = [owner EXCEPT ![a] = Other]
  /\ selection_data' = [w \in View |-> IF owner[a] = w THEN Cleared(w, {a})
                                       ELSE selection_data[w]]
  /\ UNCHANGED <<docs, bond, refused, selected, pasting, dialog, held, spared>>

---------------------------------------------------------------------------
\* A line of the copied text read back: gb_value_fmt prints a denomination of
\* a thousand dollars and more with a comma, where g_strtod stops.
Reread(c) ==
  [sn     |-> IF c.sn = NoSN THEN NullText ELSE c.sn,
   series |-> c.series,
   denom  |-> IF c.denom >= 1000 THEN c.denom \div 1000 ELSE c.denom]

\* gb_rules_test_series_denom.
TestSeriesDenom(c) ==
  CASE c.series = "E" -> c.denom <= 1000
    [] c.series = "S" -> c.denom <= 100
    [] OTHER          -> c.denom >= 50

\* The lines gb_doc_bond_new makes bonds of.
Made(lines) == {i \in DOMAIN lines : TestSeriesDenom(Reread(lines[i]))}

\* A paste that does not look for the serial number (mutant).
AcceptedUnchecked(v, lines) == Made(lines)

\* Of their bonds, those that gb_doc_add_bond accepts, in turn.
Accepted(v, lines) ==
  {i \in Made(lines) :
     LET c == Reread(lines[i])
     IN  /\ c.sn \notin SNs(v)
         /\ \A j \in Made(lines) : j < i => Reread(lines[j]).sn # c.sn}

\* selection_received_cb; Nil is an answer without data.  Each bond made gets
\* an object of its own, which stays where it is when the bond is refused.
Receive(v, lines) ==
  IF lines = Nil
  THEN UNCHANGED <<docs, bond, refused, selected>>
  ELSE LET made == Made(lines)
           accepted == Accepted(v, lines)
           free == {p \in Ptr : bond[p] = Nil}
       IN  \E at \in Injection(made, free) :
             /\ docs' = [docs EXCEPT ![v] = @ \cup {at[i] : i \in accepted}]
             /\ bond' = [p \in Ptr |->
                           IF p \in Range(at)
                           THEN Reread(lines[CHOOSE i \in made : at[i] = p])
                           ELSE bond[p]]
             /\ refused' = refused \cup {at[i] : i \in made \ accepted}
             /\ selected' = [selected EXCEPT ![v] = {}]

\* gb_view_paste.  Without an owner the answer is empty.
Paste(v) ==
  /\ dialog = Nil
  /\ LET w == owner["GBONDS_CLIPBOARD"]
     IN  IF w = Other
         THEN /\ pasting' = pasting \cup {v}
              /\ UNCHANGED <<docs, bond, refused, selected>>
         ELSE /\ Receive(v, IF w = Nil THEN Nil ELSE selection_data[w])
              /\ UNCHANGED pasting
  /\ UNCHANGED <<selection_data, owner, dialog, held, spared>>

\* The other process's answer, or the lack of one, at any later time.
PasteAnswered(v) ==
  /\ v \in pasting
  /\ pasting' = pasting \ {v}
  /\ \E lines \in {OtherData, Nil} : Receive(v, lines)
  /\ UNCHANGED <<selection_data, owner, dialog, held, spared>>

---------------------------------------------------------------------------
\* Two inventories as they were opened: every bond in one of them, no serial
\* number twice in the same.
Init ==
  /\ \E at \in Injection(Content, Ptr) :
       bond = [p \in Ptr |-> IF p \in Range(at) THEN CHOOSE c \in Content : at[c] = p
                             ELSE Nil]
  /\ docs \in [View -> SUBSET {p \in Ptr : bond[p] # Nil}]
  /\ \A v, w \in View : v # w => docs[v] \cap docs[w] = {}
  /\ UNION Range(docs) = {p \in Ptr : bond[p] # Nil}
  /\ \A v \in View : \A p, q \in docs[v] :
       bond[p].sn = bond[q].sn => p = q \/ bond[p].sn = NoSN
  /\ refused = {}
  /\ selected = [v \in View |-> {}]
  /\ selection_data = [v \in View |-> Nil]
  /\ owner = [a \in Atom |-> Nil]
  /\ pasting = {}
  /\ dialog = Nil
  /\ held = Nil
  /\ spared = [v \in View |-> {}]

Next ==
  \/ \E v \in View : \E rows \in SUBSET docs[v] : Select(v, rows)
  \/ \E v \in View : StartDelete(v) \/ Copy(v) \/ Cut(v) \/ Paste(v) \/ PasteAnswered(v)
  \/ AnswerYes
  \/ AnswerNo
  \/ AnswerYesToAll
  \/ AnswerCancel
  \/ \E a \in Atom : OtherTakes(a)

Spec == Init /\ [][Next]_vars

---------------------------------------------------------------------------
TypeOK ==
  /\ docs \in [View -> SUBSET Ptr]
  /\ bond \in [Ptr -> Line \cup {Nil}]
  /\ refused \subseteq Ptr
  /\ selected \in [View -> SUBSET Ptr]
  /\ \A v \in View : selected[v] \subseteq docs[v]
  /\ selection_data \in [View -> (Seq(Line) \ {<<>>}) \cup {Nil}]
  /\ owner \in [Atom -> View \cup {Other, Nil}]
  /\ pasting \subseteq View
  /\ dialog \in [view : View, queue : Seq(Ptr) \ {<<>>}] \cup {Nil}
  /\ held \in Seq(Line) \cup {Nil}
  /\ spared \in [View -> SUBSET Ptr]

\* Whatever bonds were deleted and pasted and whatever addresses were used
\* again, a bond object is in one document and no other, or free; but for those
\* that gb_doc_add_bond refused, which are lost and in no document ever.  A
\* paste of a bond that is there already is all that loses memory.
OwnedOnce ==
  /\ \A v \in View : \A p \in docs[v] : bond[p] # Nil
  /\ \A p \in Ptr : bond[p] # Nil =>
       Cardinality({v \in View : p \in docs[v]}) = IF p \in refused THEN 0 ELSE 1

\* The delete loop never comes to a bond that is gone: while its question
\* waits in gtk_dialog_run, with answers to pastes coming in, nothing frees
\* the bonds its list still points to.
QueueAlive == dialog # Nil => Range(dialog.queue) \subseteq docs[dialog.view]

\* A deletion takes no bond that was not selected when it began, and none
\* that the user answered No or Cancel for, however the selection changes
\* during the questions.
SparedStay == \A v \in View : spared[v] \subseteq docs[v]

\* Pasting never puts a serial number twice into an inventory: not from one
\* paste, not from pastes answered late, not over bonds already there.
PasteKeepsUnique ==
  \A v \in View : \A p, q \in docs[v] :
    bond[p].sn = bond[q].sn => p = q \/ bond[p].sn = NoSN

\* As long as this process owns the clipboard and its private selection, what
\* was last cut or copied is there to paste, whoever took PRIMARY.
CopyAvailable ==
  \A v \in View :
    owner["CLIPBOARD"] = v /\ owner["GBONDS_CLIPBOARD"] = v
      => held # Nil /\ selection_data[v] = held

---------------------------------------------------------------------------
\* The bonds of lines are in v's document after the step: each has an object
\* of its own, but for those whose serial number is there already.  A bond
\* without a serial number has no line to come from.
Arrive(v, lines) ==
  \A i \in DOMAIN lines : lines[i].sn # NoSN =>
    \E p \in docs'[v] : /\ bond'[p].sn = lines[i].sn
                        /\ p \in docs[v] \/ bond'[p] = lines[i]

\* "Copies selected bonds to the clipboard ... available for pasting into
\* another inventory": what is copied here and pasted here is pasted.
PasteKeepsBonds ==
  [][\A v \in View :
       Paste(v) /\ owner["CLIPBOARD"] = owner["GBONDS_CLIPBOARD"]
                /\ owner["GBONDS_CLIPBOARD"] \in View
         => Arrive(v, held)]_vars
=============================================================================
