------------------------------- MODULE GbDoc -------------------------------
(***************************************************************************)
(* One inventory document (src/doc.c) and its file (src/doc-xml.c): opened *)
(* or imported bond by bond, edited through gb_doc_add_bond,               *)
(* gb_doc_delete_bond and gb_doc_set_title, saved, dropped and reopened.   *)
(*                                                                         *)
(* Reading a file is the loop of xml_parse_doc (or read_sbw2, read_sbw4):  *)
(* the records not yet read are in pending and each step adds one through  *)
(* the same gb_doc_add_bond the editor uses.  The document exists but has  *)
(* no window until the loop ends.                                          *)
(***************************************************************************)
EXTENDS BondList, Bags

CONSTANTS
  Title,      \* inventory titles
  NoTitle,    \* the NULL title
  TitleInFile,  \* what xmlNewChild makes of a title: text from an "&" on,
                \* which doc_to_xml does not escape, is lost
  NoFile,     \* no file was ever written
  Truncated,  \* the file a failed xmlSaveFormatFile leaves behind
  MaxImport   \* longest SBW inventory imported (model bound)

ASSUME TitleAssumption ==
  /\ NoTitle \notin Title
  /\ TitleInFile \in [Title \cup {NoTitle} -> Title \cup {NoTitle}]
ASSUME ImportAssumption == MaxImport \in Nat

VARIABLES
  list,           \* doc->list
  title,          \* doc->private->title
  modified_flag,  \* doc->private->modified_flag
  titled,         \* doc->private->filename # NULL
  disk,           \* what the document's file holds
  phase,          \* "closed", "reading" (no window yet) or "open"
  pending,        \* records of the file still to be read
  status          \* what the last doc operation returned

docVars == <<list, title, modified_flag, titled, disk, phase, pending, status>>

InventoryFile == [title : Title \cup {NoTitle}, bonds : Seq(Content)]

ASSUME FileAssumption ==
  /\ NoFile \notin InventoryFile
  /\ Truncated \notin InventoryFile
  /\ NoFile # Truncated

\* What Inventory sees of a file: the title and how often each bond is in it.
StoredInventory ==
  [name : Title \cup {NoTitle}, bonds : UNION {[B -> Nat \ {0}] : B \in SUBSET Content}]

ASSUME StoredAssumption == NoFile \notin StoredInventory /\ Truncated \notin StoredInventory

Readable(d) == d # NoFile /\ d # Truncated

\* doc_to_xml.
DocToXml == [title |-> TitleInFile[title], bonds |-> Contents(list)]

---------------------------------------------------------------------------
\* gb_doc_new, placed in a window.
NewDoc ==
  /\ phase = "closed"
  /\ phase' = "open"
  /\ status' = "OK"
  /\ UNCHANGED <<list, title, modified_flag, titled, disk, pending>>

\* gb_doc_add_bond without its duplicate check (mutant).
AddBondUnchecked(b) ==
  /\ b.ptr \notin Ptrs(list)
  /\ list' = InsertSorted(list, b)
  /\ modified_flag' = TRUE
  /\ status' = "OK"

\* gb_doc_add_bond.  CHANGED and MODIFIED_CHANGED only make windows redraw.
AddBond(b) ==
  /\ b.ptr \notin Ptrs(list)
  /\ IF HasDuplicateSN(list, b)
     THEN /\ status' = "DUPLICATE_SN"
          /\ UNCHANGED <<list, modified_flag>>
     ELSE /\ list' = InsertSorted(list, b)
          /\ modified_flag' = TRUE
          /\ status' = "OK"

\* A dialog or a paste adds a bond that gb_doc_bond_new accepted.
EditAddBond(b) ==
  /\ phase = "open"
  /\ AddBond(b)
  /\ UNCHANGED <<title, titled, disk, phase, pending>>

\* A deletion that forgets the flag (mutant).
DeleteBondKeepsFlag(p) ==
  /\ phase = "open"
  /\ IF p \in Ptrs(list)
     THEN /\ list' = RemovePtr(list, p)
          /\ status' = "OK"
     ELSE /\ status' = "DELETE_BOND_NOT_FOUND"
          /\ UNCHANGED list
  /\ UNCHANGED <<title, modified_flag, titled, disk, phase, pending>>

\* gb_doc_delete_bond.
DeleteBond(p) ==
  /\ phase = "open"
  /\ IF p \in Ptrs(list)
     THEN /\ list' = RemovePtr(list, p)
          /\ modified_flag' = TRUE
          /\ status' = "OK"
     ELSE /\ status' = "DELETE_BOND_NOT_FOUND"
          /\ UNCHANGED <<list, modified_flag>>
  /\ UNCHANGED <<title, titled, disk, phase, pending>>

\* gb_doc_set_title.
SetTitle(t) ==
  /\ phase = "open"
  /\ title' = t
  /\ modified_flag' = TRUE
  /\ status' = "OK"
  /\ UNCHANGED <<list, titled, disk, phase, pending>>

---------------------------------------------------------------------------
\* gb_doc_xml_save: the whole inventory goes to the file, and only then are
\* the file name set and the flag cleared.
XmlSave ==
  /\ phase = "open"
  /\ disk' = DocToXml
  /\ titled' = TRUE
  /\ modified_flag' = FALSE
  /\ status' = "OK"
  /\ UNCHANGED <<list, title, phase, pending>>

\* xmlSaveFormatFile returned -1: it could not open the file, or it stopped
\* part of the way through writing it.
XmlSaveFail ==
  /\ phase = "open"
  /\ disk' \in {disk, Truncated}
  /\ status' = "ERROR_SAVE_FILE"
  /\ UNCHANGED <<list, title, modified_flag, titled, phase, pending>>

\* gb_doc_xml_open on a parsable file: a new document, its title read first.
XmlOpen ==
  /\ phase = "closed"
  /\ Readable(disk)
  /\ phase' = "reading"
  /\ title' = disk.title
  /\ titled' = TRUE
  /\ pending' = disk.bonds
  /\ modified_flag' = (disk.title # NoTitle)
  /\ status' = "OK"
  /\ UNCHANGED <<list, disk>>

\* xmlParseFile gave no document.
XmlOpenFail ==
  /\ phase = "closed"
  /\ ~Readable(disk)
  /\ status' = "ERROR_OPEN_PARSE"
  /\ UNCHANGED <<list, title, modified_flag, titled, disk, phase, pending>>

\* gb_doc_sbw_open on an inventory of the Savings Bond Wizard: a title from
\* the file or a fixed one, set with gb_doc_set_title, then the bonds.
SbwOpen(records, t) ==
  /\ phase = "closed"
  /\ phase' = "reading"
  /\ title' = t
  /\ modified_flag' = TRUE
  /\ titled' = FALSE
  /\ pending' = records
  /\ status' = "OK"
  /\ UNCHANGED <<list, disk>>

\* One turn of the reading loop.  A rejected bond drops the whole document.
ReadBond(p) ==
  /\ phase = "reading"
  /\ pending # <<>>
  /\ LET b == MakeBond(p, Head(pending))
     IN  /\ b.ptr \notin Ptrs(list)
         /\ IF HasDuplicateSN(list, b)
            THEN /\ status' = "DUPLICATE_SN"
                 /\ phase' = "closed"
                 /\ list' = <<>>
                 /\ pending' = <<>>
                 /\ title' = NoTitle
                 /\ modified_flag' = FALSE
                 /\ titled' = FALSE
            ELSE /\ AddBond(b)
                 /\ pending' = Tail(pending)
                 /\ UNCHANGED <<title, titled, phase>>
  /\ UNCHANGED disk

\* A loop that stops before the last record (mutant).
ReadDoneEarly ==
  /\ phase = "reading"
  /\ Len(pending) <= 1
  /\ phase' = "open"
  /\ modified_flag' = FALSE
  /\ status' = "OK"
  /\ pending' = <<>>
  /\ UNCHANGED <<list, title, titled, disk>>

\* The end of the loop: gb_doc_set_filename and gb_doc_clear_modified for an
\* xml file; gb_window_set_doc clears the flag for both.
ReadDone ==
  /\ phase = "reading"
  /\ pending = <<>>
  /\ phase' = "open"
  /\ modified_flag' = FALSE
  /\ status' = "OK"
  /\ UNCHANGED <<list, title, titled, disk, pending>>

\* The document goes away: its window is closed, or the program ends.
DropDoc ==
  /\ phase = "open"
  /\ phase' = "closed"
  /\ list' = <<>>
  /\ title' = NoTitle
  /\ modified_flag' = FALSE
  /\ titled' = FALSE
  /\ status' = "OK"
  /\ UNCHANGED <<disk, pending>>

---------------------------------------------------------------------------
Init ==
  /\ list = <<>>
  /\ title = NoTitle
  /\ modified_flag = FALSE
  /\ titled = FALSE
  /\ disk = NoFile
  /\ phase = "closed"
  /\ pending = <<>>
  /\ status = "OK"

Next ==
  \/ NewDoc
  \/ \E b \in Bond : EditAddBond(b)
  \/ \E p \in Ptr : DeleteBond(p)
  \/ \E t \in Title : SetTitle(t)
  \/ XmlSave
  \/ XmlSaveFail
  \/ XmlOpen
  \/ XmlOpenFail
  \/ \E n \in 0 .. MaxImport : \E records \in [1 .. n -> Content] :
       \E t \in Title : SbwOpen(records, t)
  \/ \E p \in Ptr : ReadBond(p)
  \/ ReadDone
  \/ DropDoc

Spec == Init /\ [][Next]_docVars

---------------------------------------------------------------------------
TypeOK ==
  /\ list \in Seq(Bond)
  /\ title \in Title \cup {NoTitle}
  /\ modified_flag \in BOOLEAN
  /\ titled \in BOOLEAN
  /\ disk \in InventoryFile \cup {NoFile, Truncated}
  /\ phase \in {"closed", "reading", "open"}
  /\ pending \in Seq(Content)
  /\ status \in {"OK", "DUPLICATE_SN", "DELETE_BOND_NOT_FOUND",
                 "ERROR_SAVE_FILE", "ERROR_OPEN_PARSE"}

\* The list stays in inventory order, whatever mix of dialogs, pastes,
\* imports and openings put the bonds there (doc.c, insert_compare_fct).
ListOrdered == Ordered(list)

\* A serial number stands in the list at most once, and a bond object is in
\* it at most once (doc.c, the check at the head of gb_doc_add_bond).
SerialNumbersUnique == UniqueSNs(list) /\ UniquePtrs(list)

\* What the save path writes, the open path reads back bond for bond and in
\* the same order, and no bond of it is rejected as a duplicate (doc-xml.c,
\* xml_parse_doc against doc_to_xml; doc.c, insert_compare_fct).
OwnFileReadsBack ==
  phase = "reading" /\ titled
    => /\ disk.bonds = Contents(list) \o pending
       /\ pending # <<>> => ~HasDuplicateSN(list, Head(pending))

\* An unmodified document with a file name is exactly what the file holds:
\* closing it without a question loses nothing (doc-xml.c, gb_doc_xml_save;
\* doc.c, the modified flag).  A failed Save As over the document's own file
\* breaks this: the flag was clear before and stays clear.
CleanMeansStored ==
  phase = "open" /\ titled /\ ~modified_flag
    => disk = DocToXml

\* What remains true: the file of an unmodified document is never a stale
\* inventory that would open without complaint.
CleanNeverStale ==
  phase = "open" /\ titled /\ ~modified_flag
    => /\ disk # NoFile
       /\ disk # Truncated => disk.bonds = Contents(list)

\* The document keeps the promises of module Inventory, which knows nothing
\* of list order, bond objects or reading loops: opening a saved file ends with
\* exactly what was stored and nothing else, an import with exactly what came in
\* or, if a serial number was in it twice, not at all (doc.c and doc-xml.c).
Promised ==
  INSTANCE Inventory WITH
    bonds  <- IF phase = "open" THEN ToBag(Contents(list)) ELSE EmptyBag,
    name   <- IF phase = "open" THEN title ELSE NoTitle,
    dirty  <- phase = "open" /\ modified_flag,
    isOpen <- phase = "open",
    stored <- IF Readable(disk)
              THEN [name |-> disk.title, bonds |-> ToBag(disk.bonds)]
              ELSE disk,
    task   <- IF phase # "reading" THEN "none" ELSE IF titled THEN "load" ELSE "import",
    coming <- IF phase = "reading" /\ ~titled
              THEN ToBag(Contents(list)) (+) ToBag(pending)
              ELSE EmptyBag

KeepsPromise == Promised!Spec
=============================================================================
