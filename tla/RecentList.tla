---------------------------- MODULE RecentList ----------------------------
(***************************************************************************)
(* What the programs of a desktop that share ~/.recently-used promise each *)
(* other: one list, changed by one whole operation at a time, and only by  *)
(* operations somebody asked for.  What may go wrong, and nothing else:    *)
(* a program that dies in a write leaves a beginning of the new text and   *)
(* some of the old behind it, and one that found no file empties the list  *)
(* another has created meanwhile.                                          *)
(*                                                                         *)
(* A piece of the text is an item, or Broken, where readers give up.       *)
(***************************************************************************)
EXTENDS Integers, Sequences, FiniteSets, Selections

CONSTANTS Proc, Uri, Time,
          GroupOf,  \* the group each program puts its items in
          MaxItems, \* EGG_RECENT_MODEL_MAX_ITEMS
          Mixtures, \* what the text of two items may read like
          Broken,   \* text that is no item
          Absent,   \* the file that does not exist
          Nil       \* no file

VARIABLES list,  \* the pieces of the file, the first as last put there
          todo,  \* what each program was asked to do to it
          late,  \* programs that found no file and are about to create it
          deaths \* programs that have died so far

lvars == <<list, todo, late, deaths>>

Writing == {"add", "delete"}
Job   == [kind : Writing \cup {"clear"}, uri : Uri \cup {Nil}]
NoJob == [kind |-> "none", uri |-> Nil]

\* The items before the first break.
Readable(text) ==
  SubSeq(text, 1, Cardinality({i \in DOMAIN text : \A j \in 1 .. i : text[j] # Broken}))

\* The list with a file added: the first item of a known one is brought up to
\* date in its place, a new one goes to the front and pushes out what exceeds the
\* limit.
Updated(items, uri, time, group) ==
  IF \E i \in DOMAIN items : items[i].uri = uri
  THEN [i \in DOMAIN items |->
          IF items[i].uri = uri /\ \A j \in 1 .. i - 1 : items[j].uri # uri
          THEN [items[i] EXCEPT !.time = time, !.groups = @ \cup {group}]
          ELSE items[i]]
  ELSE LET longer == <<[uri |-> uri, time |-> time, groups |-> {group}]>> \o items
       IN  IF Len(longer) > MaxItems THEN SubSeq(longer, 1, MaxItems) ELSE longer

Without(items, uri) == Keep(items, {i \in DOMAIN items : items[i].uri # uri})

\* The list when p's job is done.
Done(p, time) ==
  CASE todo[p].kind = "add"    -> Updated(Readable(list), todo[p].uri, time, GroupOf[p])
    [] todo[p].kind = "delete" -> Without(Readable(list), todo[p].uri)
    [] todo[p].kind = "clear"  -> <<>>

\* A text of a beginning of new, perhaps a piece made of both, and some of old.
Torn(text, new, old) ==
  \E i \in 0 .. Len(new), j \in 1 .. Len(old) + 2, k \in 0 .. Len(old) :
  \E mid \in {<<>>, <<Broken>>} \cup {<<item>> : item \in Mixtures} :
    text = SubSeq(new, 1, i) \o mid \o SubSeq(old, j, k)

---------------------------------------------------------------------------
ListInit ==
  /\ list = Absent \/ \E u \in Uri, t \in Time, p \in Proc :
                        list = <<[uri |-> u, time |-> t, groups |-> {GroupOf[p]}]>>
  /\ todo = [p \in Proc |-> NoJob]
  /\ late = {}
  /\ deaths = 0

Ask(p) ==
  /\ todo[p] = NoJob
  /\ todo'[p] \in Job
  /\ todo' = [todo EXCEPT ![p] = todo'[p]]
  /\ UNCHANGED <<list, late, deaths>>

Finish(p) ==
  /\ todo[p] # NoJob
  /\ todo' = [todo EXCEPT ![p] = NoJob]
  /\ UNCHANGED <<late, deaths>>

Apply(p) ==
  /\ Finish(p)
  /\ list # Absent
  /\ \E time \in Time : list' = Done(p, time)

\* The lock was not to be had, or there is nothing to delete.
GiveUp(p) == Finish(p) /\ UNCHANGED list

\* The end of a text written to a file that was emptied after its beginning.
Spoil(p) ==
  /\ Finish(p)
  /\ todo[p].kind \in Writing
  /\ list = <<>>
  /\ list' # <<>> /\ list'[1] = Broken

FindNone(p) ==
  /\ list = Absent
  /\ late' = late \cup {p}
  /\ UNCHANGED <<list, todo, deaths>>

\* The emptied list comes back when somebody is about to write all of it.
CreateLate(p) ==
  /\ p \in late
  /\ late' = late \ {p}
  /\ \/ list' = <<>>
     \/ /\ \E q \in Proc : todo[q].kind \in Writing
        /\ list # Absent
        /\ UNCHANGED list
  /\ UNCHANGED <<todo, deaths>>

Die(p) ==
  /\ deaths' = deaths + 1
  /\ late' = late \ {p}
  /\ todo' = [todo EXCEPT ![p] = NoJob]
  /\ \/ UNCHANGED list
     \/ /\ todo[p].kind \in Writing
        /\ list # Absent
        /\ \E time \in Time : Torn(list', Done(p, time), list)

ListNext ==
  \E p \in Proc :
    \/ Ask(p) \/ Apply(p) \/ GiveUp(p) \/ Spoil(p)
    \/ FindNone(p) \/ CreateLate(p)
    \/ Die(p)

ListSpec == ListInit /\ [][ListNext]_lvars
=============================================================================
