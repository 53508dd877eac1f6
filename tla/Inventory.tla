----------------------------- MODULE Inventory -----------------------------
(***************************************************************************)
(* What an inventory document promises its user, without lists, objects or *)
(* reading loops: a bag of bonds in which no serial number stands twice,   *)
(* a title, and a file that gives back on loading exactly what was stored. *)
(* Loading and importing begin and end in steps of their own: a load that  *)
(* began can only end with what the file holds, and an import only with    *)
(* what was coming in when it began, or with a refusal if a serial number  *)
(* stands in that twice.                                                   *)
(***************************************************************************)
EXTENDS Naturals, Bags

CONSTANTS NoSN, NoTitle, NoFile, Truncated

VARIABLES
  bonds,    \* the bag of bonds (issue date and serial number) held
  name,     \* the inventory title
  dirty,    \* there are changes the user would be asked about
  isOpen,   \* a window shows the inventory
  stored,   \* what the file holds
  task,     \* "load" or "import" while one is under way, else "none"
  coming    \* the bonds of the inventory being imported

vars == <<bonds, name, dirty, isOpen, stored, task, coming>>

Distinct(B) ==
  /\ \A c \in DOMAIN B : c.sn # NoSN => B[c] = 1
  /\ \A c, d \in DOMAIN B : c.sn = d.sn /\ c.sn # NoSN => c = d

Init ==
  /\ bonds = EmptyBag
  /\ name = NoTitle
  /\ dirty = FALSE
  /\ isOpen = FALSE
  /\ stored = NoFile
  /\ task = "none"
  /\ coming = EmptyBag

Create ==
  /\ ~isOpen
  /\ task = "none"
  /\ isOpen' = TRUE
  /\ UNCHANGED <<bonds, name, dirty, stored, task, coming>>

\* One bond more, or one bond less.
Change ==
  /\ isOpen
  /\ \/ \E c \in DOMAIN bonds' : bonds' = bonds (+) SetToBag({c})
     \/ \E c \in DOMAIN bonds : bonds' = bonds (-) SetToBag({c})
  /\ Distinct(bonds')
  /\ dirty' = TRUE
  /\ UNCHANGED <<name, isOpen, stored, task, coming>>

Rename ==
  /\ isOpen
  /\ dirty' = TRUE
  /\ UNCHANGED <<bonds, isOpen, stored, task, coming>>

\* Every bond is stored; the title may be shortened in the file.
Store ==
  /\ isOpen
  /\ stored' \notin {NoFile, Truncated}
  /\ stored' = [name |-> stored'.name, bonds |-> bonds]
  /\ dirty' = FALSE
  /\ UNCHANGED <<bonds, name, isOpen, task, coming>>

\* A failed store may cost the file, never the changes' being known.
StoreFail ==
  /\ isOpen
  /\ stored' \in {stored, Truncated}
  /\ UNCHANGED <<bonds, name, dirty, isOpen, task, coming>>

BeginLoad ==
  /\ ~isOpen
  /\ task = "none"
  /\ stored \notin {NoFile, Truncated}
  /\ task' = "load"
  /\ UNCHANGED <<bonds, name, dirty, isOpen, stored, coming>>

\* There is no other end to a load.
Load ==
  /\ task = "load"
  /\ task' = "none"
  /\ isOpen' = TRUE
  /\ bonds' = stored.bonds
  /\ name' = stored.name
  /\ dirty' = FALSE
  /\ UNCHANGED <<stored, coming>>

\* A foreign inventory: any bag of bonds comes in.
BeginImport ==
  /\ ~isOpen
  /\ task = "none"
  /\ task' = "import"
  /\ UNCHANGED <<bonds, name, dirty, isOpen, stored>>

Import ==
  /\ task = "import"
  /\ Distinct(coming)
  /\ task' = "none"
  /\ coming' = EmptyBag
  /\ isOpen' = TRUE
  /\ bonds' = coming
  /\ dirty' = FALSE
  /\ UNCHANGED stored

\* Only a serial number that stands twice refuses a foreign inventory.
Refuse ==
  /\ task = "import"
  /\ ~Distinct(coming)
  /\ task' = "none"
  /\ coming' = EmptyBag
  /\ UNCHANGED <<bonds, name, dirty, isOpen, stored>>

Drop ==
  /\ isOpen
  /\ isOpen' = FALSE
  /\ bonds' = EmptyBag
  /\ name' = NoTitle
  /\ dirty' = FALSE
  /\ UNCHANGED <<stored, task, coming>>

Next ==
  \/ Create
  \/ Change
  \/ Rename
  \/ Store
  \/ StoreFail
  \/ BeginLoad
  \/ Load
  \/ BeginImport
  \/ Import
  \/ Refuse
  \/ Drop

Spec == Init /\ [][Next]_vars
=============================================================================
