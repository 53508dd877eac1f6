---------------------------- MODULE RecentModel ----------------------------
(***************************************************************************)
(* The list of recent files, ~/.recently-used, which every program of the  *)
(* desktop reads and rewrites through a copy of src/recent-files, and the  *)
(* Recent menu GBonds makes of it (src/recent.c, egg-recent-view-bonobo.c).*)
(*                                                                         *)
(* Each operation opens the file, tries a few times to lock it, reads it,  *)
(* writes it back and unlocks it; the program does nothing else meanwhile. *)
(* gnome-vfs reports changes of the file later, and a timer collects the   *)
(* reports.  A program may die at any point and be started again.          *)
(*                                                                         *)
(* The text of the file is a sequence of pieces: an item, or Broken, where *)
(* the parser gives up.  A text that fits in a buffer of stdio is written  *)
(* at once, a longer one in blocks, and a death between two of them leaves *)
(* the beginning of the new text over the old.                             *)
(*                                                                         *)
(* unread is history: the last reading of the file failed.                 *)
(***************************************************************************)
EXTENDS Integers, FiniteSets, Sequences, Selections

CONSTANTS
  Proc,      \* programs
  Uri,       \* files somebody may add
  Local,     \* those with the scheme "file"
  GroupOf,   \* the group each program puts its items in and asks for
  Limit,     \* how long a list each shows; none when it is 0
  Nil,       \* no program
  Absent,    \* the file that does not exist
  Broken,    \* text that is no item
  Mixtures,  \* the items that the text of two others may read like
  MaxItems,  \* EGG_RECENT_MODEL_MAX_ITEMS
  Tries,     \* how often the lock is tried
  MaxTime,   \* seconds the clock may go on (bound)
  MaxOps,    \* additions, deletions and the like (bound)
  MaxDeaths  \* programs that die (bound)

Time  == 0 .. MaxTime
Group == {GroupOf[p] : p \in Proc}
Item  == [uri : Uri, time : Time, groups : SUBSET Group]
Piece == Item \cup {Broken}

ASSUME RecentAssumption ==
  /\ Local \subseteq Uri
  /\ Limit \in [Proc -> Nat]
  /\ Nil \notin Proc
  /\ Broken \notin Item
  /\ Mixtures \subseteq Item
  /\ Absent \notin Seq(Piece)
  /\ MaxItems \in Nat \ {0}
  /\ Tries \in Nat \ {0}
  /\ MaxTime \in Nat
  /\ MaxOps \in Nat
  /\ MaxDeaths \in Nat

VARIABLES
  file,      \* the pieces of the file, or Absent
  locker,    \* who holds the lock
  clock,     \* time(), in seconds
  pc,        \* where each program is
  op,        \* what it is doing: operation, item and tries left
  read,      \* what it read of the file
  monitor,   \* gnome-vfs monitors the file for it
  notified,  \* a CHANGED event is under way to it
  changed_timeout, \* its timer is set
  menu,      \* the files its menu shows
  unread,    \* its menu is empty because the file could not be locked
  ops,       \* operations so far
  deaths     \* programs that have died

fileVars == <<file, locker>>
menuVars == <<menu, unread>>
vars == <<file, locker, clock, pc, op, read, monitor, notified, changed_timeout,
          menu, unread, ops, deaths>>

Op == [kind : {"none", "add", "delete", "clear", "changed"}, uri : Uri \cup {Nil},
       time : Time, tries : 0 .. Tries]
NoOp == [kind |-> "none", uri |-> Nil, time |-> 0, tries |-> 0]

---------------------------------------------------------------------------
\* The parser of egg_recent_model_read keeps every item it saw the end of, and
\* gives up at what is none; a file that begins with a hole is empty to it.
Parsed(f) ==
  IF f = Absent THEN <<>>
  ELSE SubSeq(f, 1, Cardinality({i \in DOMAIN f : \A j \in 1 .. i : f[j] # Broken}))

\* egg_recent_item_new_from_uri and egg_recent_item_add_group.
NewItem(p, uri, time) == [uri |-> uri, time |-> time, groups |-> {GroupOf[p]}]

Holds(items, uri) == \E i \in DOMAIN items : items[i].uri = uri

\* A list that is never cut (mutant).
EnforceLimitNever(items, limit) == items

\* egg_recent_model_enforce_limit; a limit of 0 is none.
EnforceLimit(items, limit) ==
  IF limit > 0 /\ Len(items) > limit THEN SubSeq(items, 1, limit) ELSE items

First(items, uri, i) == items[i].uri = uri /\ \A j \in 1 .. i - 1 : items[j].uri # uri

\* An update that forgets which other programs use the file (mutant).
UpdateItemRegroups(items, uri, time, groups) ==
  [i \in DOMAIN items |->
     IF First(items, uri, i)
     THEN [items[i] EXCEPT !.time = time, !.groups = groups]
     ELSE items[i]]

\* egg_recent_model_update_item: a new time, and the groups it was not in, for
\* the first item of the file.
UpdateItem(items, uri, time, groups) ==
  [i \in DOMAIN items |->
     IF First(items, uri, i)
     THEN [items[i] EXCEPT !.time = time, !.groups = @ \cup groups]
     ELSE items[i]]

\* egg_recent_model_delete_from_list, which goes on after a match.
DeleteFromList(items, uri) == Keep(items, {i \in DOMAIN items : items[i].uri # uri})

\* egg_recent_model_filter, for the filters gb_recent_init sets: the places of
\* the items it keeps.
Filter(p, items) ==
  {i \in DOMAIN items : GroupOf[p] \in items[i].groups /\ items[i].uri \in Local}

\* list_compare_func_mru.
Newer(a, b) == a.time > b.time

\* egg_recent_model_sort, of what the filter keeps; g_list_sort is stable.
Mru(items, kept) ==
  {pair \in kept \X kept :
     LET a == items[pair[1]]  b == items[pair[2]]
     IN  Newer(a, b) \/ (~Newer(b, a) /\ pair[1] < pair[2])}
SortMru(items, kept) == Arrange(items, kept, Mru(items, kept))

\* What egg_recent_model_get_list makes of the file's items.
GetList(p, items) == EnforceLimit(SortMru(items, Filter(p, items)), Limit[p])

\* egg_recent_view_bonobo_set_list, or its clear when there is no list.
SetList(list) == [i \in DOMAIN list |-> list[i].uri]

\* What p writes back: under add_full and delete.
NewList(p) ==
  LET o == op[p]
      items == Parsed(read[p])
  IN  CASE o.kind = "add" ->
             IF Holds(items, o.uri)
             THEN UpdateItem(items, o.uri, o.time, {GroupOf[p]})
             ELSE EnforceLimit(<<NewItem(p, o.uri, o.time)>> \o items, MaxItems)
        [] o.kind = "delete" -> DeleteFromList(items, o.uri)

---------------------------------------------------------------------------
\* An operation is called while the program waits in its main loop.  Without a
\* limit egg_recent_model_changed does nothing.
Call(p, kind, uri) ==
  IF kind = "changed" /\ Limit[p] = 0
  THEN /\ pc' = [pc EXCEPT ![p] = "idle"]
       /\ op' = [op EXCEPT ![p] = NoOp]
  ELSE /\ pc' = [pc EXCEPT ![p] = "open"]
       /\ op' = [op EXCEPT ![p] = [NoOp EXCEPT !.kind = kind, !.uri = uri]]

\* gb_recent_add_uri, when GBonds has opened, saved or imported a file; other
\* programs add files of any scheme.
Add(p, uri) ==
  /\ pc[p] = "idle"
  /\ ops < MaxOps
  /\ GroupOf[p] = "gbonds" => uri \in Local
  /\ Call(p, "add", uri)
  /\ ops' = ops + 1
  /\ UNCHANGED <<fileVars, clock, read, monitor, notified, changed_timeout,
                 menuVars, deaths>>

\* An entry of the menu is chosen: gb_file_open_recent, on a file that is there.
OpenRecent(p, i) == GroupOf[p] = "gbonds" /\ Add(p, menu[p][i])

\* egg_recent_model_delete and egg_recent_model_clear, which other programs use.
Delete(p, kind, uri) ==
  /\ pc[p] = "idle"
  /\ ops < MaxOps
  /\ GroupOf[p] # "gbonds"
  /\ Call(p, kind, uri)
  /\ ops' = ops + 1
  /\ UNCHANGED <<fileVars, clock, read, monitor, notified, changed_timeout,
                 menuVars, deaths>>

\* egg_recent_model_set_limit: a limit starts the monitor, if gnome-vfs can.
SetLimit(p) ==
  \E works \in BOOLEAN : monitor' = [monitor EXCEPT ![p] = works /\ Limit[p] > 0]

\* gb_recent_init, and the first window, whose view asks for the list.
Start(p) ==
  /\ pc[p] = "off"
  /\ SetLimit(p)
  /\ Call(p, "changed", Nil)
  /\ UNCHANGED <<fileVars, clock, read, notified, changed_timeout, menuVars,
                 ops, deaths>>

---------------------------------------------------------------------------
\* egg_recent_model_open_file with "r+", and time() in add_full.
Opened(p) ==
  /\ pc' = [pc EXCEPT ![p] = "lock"]
  /\ op' = [op EXCEPT ![p].tries = Tries,
                      ![p].time = IF op[p].kind = "add" THEN clock ELSE 0]

OpenFile(p) ==
  /\ pc[p] = "open"
  /\ IF file = Absent
     THEN pc' = [pc EXCEPT ![p] = "create"] /\ UNCHANGED op
     ELSE Opened(p)
  /\ UNCHANGED <<fileVars, clock, read, monitor, notified, changed_timeout,
                 menuVars, ops, deaths>>

\* gnome-vfs reports a change of the file to all who monitor it.
Notify == notified' = [p \in Proc |-> notified[p] \/ monitor[p]]

\* Where it failed, "w+" creates the file, or empties the one another program
\* has created since; there is no lock yet.  A file that is only created is not
\* reported as CHANGED.
CreateFile(p) ==
  /\ pc[p] = "create"
  /\ file' = <<>>
  /\ Opened(p)
  /\ IF file \in {Absent, <<>>} THEN UNCHANGED notified ELSE Notify
  /\ UNCHANGED <<locker, clock, read, monitor, changed_timeout, menuVars, ops,
                 deaths>>

\* egg_recent_model_lock_file, and what each caller does without the lock.
LockFile(p) ==
  /\ pc[p] = "lock"
  /\ IF locker = Nil
     THEN /\ locker' = p
          /\ pc' = [pc EXCEPT ![p] = "read"]
          /\ op' = [op EXCEPT ![p].tries = 0]
          /\ UNCHANGED menuVars
     ELSE /\ UNCHANGED locker
          /\ IF op[p].tries > 1
             THEN /\ op' = [op EXCEPT ![p].tries = @ - 1]
                  /\ UNCHANGED <<pc, menuVars>>
             ELSE /\ pc' = [pc EXCEPT ![p] = "idle"]
                  /\ op' = [op EXCEPT ![p] = NoOp]
                  /\ IF op[p].kind = "changed"
                     THEN /\ menu' = [menu EXCEPT ![p] = <<>>]
                          /\ unread' = [unread EXCEPT ![p] = TRUE]
                     ELSE UNCHANGED menuVars
  /\ UNCHANGED <<file, clock, read, monitor, notified, changed_timeout, ops, deaths>>

\* egg_recent_model_read, and for delete the search for something to delete.
\* update_item takes the time of a known item here.
ReadFile(p) ==
  /\ pc[p] = "read"
  /\ op[p].kind # "clear"
  /\ read' = [read EXCEPT ![p] = file]
  /\ pc' = [pc EXCEPT ![p] =
       IF \/ op[p].kind = "changed"
          \/ op[p].kind = "delete" /\ ~Holds(Parsed(file), op[p].uri)
       THEN "unlock" ELSE "write"]
  /\ op' = [op EXCEPT ![p].time =
       IF op[p].kind = "add" /\ Holds(Parsed(file), op[p].uri)
       THEN clock ELSE @]
  /\ UNCHANGED <<fileVars, clock, monitor, notified, changed_timeout, menuVars,
                 ops, deaths>>

\* egg_recent_model_clear.
ClearFile(p) ==
  /\ pc[p] = "read"
  /\ op[p].kind = "clear"
  /\ file' = <<>>
  /\ Notify
  /\ pc' = [pc EXCEPT ![p] = "unlock"]
  /\ UNCHANGED <<locker, clock, op, read, monitor, changed_timeout, menuVars,
                 ops, deaths>>

\* A file left to fclose to write, after the lock is gone (mutant).
CutFileUnlocks(p) ==
  /\ pc[p] = "write"
  /\ pc' = [pc EXCEPT ![p] = "flush"]
  /\ locker' = Nil
  /\ UNCHANGED <<file, notified, clock, op, read, monitor, changed_timeout,
                 menuVars, ops, deaths>>

\* The head of egg_recent_model_write_raw: a file that gets shorter is cut
\* first.  Whether it does, and how many items the cut leaves whole, depends on
\* the lengths of their texts.
CutFile(p) ==
  /\ pc[p] = "write"
  /\ pc' = [pc EXCEPT ![p] = "flush"]
  /\ \/ UNCHANGED <<file, notified>>
     \/ /\ Len(NewList(p)) <= Len(file)
        /\ \E n \in 0 .. Len(file) : file' = SubSeq(file, 1, n)
        /\ Notify
  /\ UNCHANGED <<locker, clock, op, read, monitor, changed_timeout, menuVars,
                 ops, deaths>>

Write(p, from, to) ==
  /\ pc[p] = from
  /\ pc' = [pc EXCEPT ![p] = to]
  /\ Notify
  /\ UNCHANGED <<locker, clock, op, read, monitor, changed_timeout, menuVars,
                 ops, deaths>>

\* The rewind at its end writes stdio's buffer: the whole text, where that fits.
WriteFile(p) ==
  /\ Write(p, "flush", "unlock")
  /\ file' = NewList(p)

\* What is left of a text behind some new one; the beginning is gone.
Ends(text) == {SubSeq(text, j, Len(text)) : j \in 2 .. Len(text) + 2}

\* Otherwise fputs has written whole blocks before, which end anywhere in an item
\* of the new text and in one of the old.
WriteHead(p) ==
  /\ Write(p, "flush", "tail")
  /\ LET new == NewList(p)
     IN  /\ new # <<>>
         /\ \E i \in 0 .. Len(new), end \in Ends(file) :
            \E mid \in {<<>>, <<Broken>>} \cup {<<item>> : item \in Mixtures} :
              /\ i + Len(mid) > 0
              /\ file' = SubSeq(new, 1, i) \o mid \o end

\* The rewind then writes the rest, behind a hole if the file was created once
\* more since.
WriteTail(p) ==
  /\ Write(p, "tail", "unlock")
  /\ IF file = <<>>
     THEN \E end \in Ends(NewList(p)) : file' = <<Broken>> \o end
     ELSE file' = NewList(p)

\* A list shown after the reports that came while it was read are dropped
\* (mutant).
UnlockForgets(p) ==
  /\ pc[p] = "unlock"
  /\ locker' = Nil
  /\ IF op[p].kind = "changed"
     THEN /\ menu' = [menu EXCEPT ![p] = SetList(GetList(p, Parsed(read[p])))]
          /\ unread' = [unread EXCEPT ![p] = FALSE]
     ELSE UNCHANGED menuVars
  /\ notified' = [notified EXCEPT ![p] = FALSE]
  /\ pc' = [pc EXCEPT ![p] = "idle"]
  /\ op' = [op EXCEPT ![p] = NoOp]
  /\ read' = [read EXCEPT ![p] = <<>>]
  /\ UNCHANGED <<file, clock, monitor, changed_timeout, ops, deaths>>

\* egg_recent_model_unlock_file and the rest of each operation: "changed" shows
\* the list, and an addition or deletion without a monitor calls it.
Unlock(p) ==
  /\ pc[p] = "unlock"
  /\ locker' = Nil
  /\ IF op[p].kind = "changed"
     THEN /\ menu' = [menu EXCEPT ![p] = SetList(GetList(p, Parsed(read[p])))]
          /\ unread' = [unread EXCEPT ![p] = FALSE]
     ELSE UNCHANGED menuVars
  /\ IF /\ ~monitor[p]
        /\ \/ op[p].kind = "add"
           \/ op[p].kind = "delete" /\ Holds(Parsed(read[p]), op[p].uri)
     THEN Call(p, "changed", Nil)
     ELSE /\ pc' = [pc EXCEPT ![p] = "idle"]
          /\ op' = [op EXCEPT ![p] = NoOp]
  /\ read' = [read EXCEPT ![p] = <<>>]
  /\ UNCHANGED <<file, clock, monitor, notified, changed_timeout, ops, deaths>>

---------------------------------------------------------------------------
\* A callback that removes the running timer and starts no other (mutant).
MonitorEventStops(p) ==
  /\ pc[p] = "idle"
  /\ notified[p]
  /\ notified' = [notified EXCEPT ![p] = FALSE]
  /\ changed_timeout' = [changed_timeout EXCEPT ![p] = ~@]
  /\ UNCHANGED <<fileVars, clock, pc, op, read, monitor, menuVars, ops, deaths>>

\* egg_recent_model_monitor_cb starts the timer, or starts it again.
MonitorEvent(p) ==
  /\ pc[p] = "idle"
  /\ notified[p]
  /\ notified' = [notified EXCEPT ![p] = FALSE]
  /\ changed_timeout' = [changed_timeout EXCEPT ![p] = TRUE]
  /\ UNCHANGED <<fileVars, clock, pc, op, read, monitor, menuVars, ops, deaths>>

\* egg_recent_model_changed_timeout.
Timeout(p) ==
  /\ pc[p] = "idle"
  /\ changed_timeout[p]
  /\ changed_timeout' = [changed_timeout EXCEPT ![p] = FALSE]
  /\ Call(p, "changed", Nil)
  /\ UNCHANGED <<fileVars, clock, read, monitor, notified, menuVars, ops, deaths>>

\* A program dies in an operation; the system takes its lock back.  It is
\* started again with an empty menu.
Crash(p) ==
  /\ pc[p] \notin {"off", "idle"}
  /\ deaths < MaxDeaths
  /\ deaths' = deaths + 1
  /\ pc' = [pc EXCEPT ![p] = "off"]
  /\ op' = [op EXCEPT ![p] = NoOp]
  /\ read' = [read EXCEPT ![p] = <<>>]
  /\ locker' = IF locker = p THEN Nil ELSE locker
  /\ notified' = [notified EXCEPT ![p] = FALSE]
  /\ changed_timeout' = [changed_timeout EXCEPT ![p] = FALSE]
  /\ monitor' = [monitor EXCEPT ![p] = FALSE]
  /\ menu' = [menu EXCEPT ![p] = <<>>]
  /\ unread' = [unread EXCEPT ![p] = FALSE]
  /\ UNCHANGED <<file, clock, ops>>

Tick ==
  /\ clock < MaxTime
  /\ clock' = clock + 1
  /\ UNCHANGED <<fileVars, pc, op, read, monitor, notified, changed_timeout,
                 menuVars, ops, deaths>>

---------------------------------------------------------------------------
\* The file is missing, or holds an item of some program.
Init ==
  /\ file = Absent \/ \E uri \in Uri, p \in Proc :
       file = <<NewItem(p, uri, 0)>>
  /\ locker = Nil
  /\ clock = 0
  /\ pc = [p \in Proc |-> "off"]
  /\ op = [p \in Proc |-> NoOp]
  /\ read = [p \in Proc |-> <<>>]
  /\ monitor = [p \in Proc |-> FALSE]
  /\ notified = [p \in Proc |-> FALSE]
  /\ changed_timeout = [p \in Proc |-> FALSE]
  /\ menu = [p \in Proc |-> <<>>]
  /\ unread = [p \in Proc |-> FALSE]
  /\ ops = 0
  /\ deaths = 0

\* A call goes on until it returns.
Step(p) ==
  \/ OpenFile(p)
  \/ CreateFile(p)
  \/ LockFile(p)
  \/ ReadFile(p)
  \/ ClearFile(p)
  \/ CutFile(p)
  \/ WriteFile(p) \/ WriteHead(p) \/ WriteTail(p)
  \/ Unlock(p)

Event(p) == MonitorEvent(p) \/ Timeout(p)

Next ==
  \/ \E p \in Proc :
       \/ \E uri \in Uri : Add(p, uri) \/ Delete(p, "delete", uri)
       \/ Delete(p, "clear", Nil)
       \/ \E i \in DOMAIN menu[p] : OpenRecent(p, i)
       \/ Start(p)
       \/ Step(p)
       \/ Event(p)
       \/ Crash(p)
  \/ Tick

\* The system runs every program, and GNOME's main loop delivers events.
Fairness == \A p \in Proc : WF_vars(Step(p)) /\ WF_vars(Event(p))

Spec == Init /\ [][Next]_vars /\ Fairness

---------------------------------------------------------------------------
TypeOK ==
  /\ file \in Seq(Piece) \cup {Absent}
  /\ locker \in Proc \cup {Nil}
  /\ clock \in Time
  /\ pc \in [Proc -> {"off", "idle", "open", "create", "lock", "read", "write",
                      "flush", "tail", "unlock"}]
  /\ op \in [Proc -> Op]
  /\ read \in [Proc -> Seq(Piece)]
  /\ monitor \in [Proc -> BOOLEAN]
  /\ notified \in [Proc -> BOOLEAN]
  /\ changed_timeout \in [Proc -> BOOLEAN]
  /\ menu \in [Proc -> Seq(Uri)]
  /\ \A p \in Proc : Limit[p] > 0 => Len(menu[p]) <= Limit[p]
  /\ unread \in [Proc -> BOOLEAN]
  /\ ops \in 0 .. MaxOps
  /\ deaths \in 0 .. MaxDeaths

\* From reading to unlocking a program has the file to itself, but for one that
\* creates it (egg_recent_model_lock_file).
InFile(p) == pc[p] \in {"read", "write", "flush", "tail", "unlock"}
OneInFile == \A p, q \in Proc : InFile(p) /\ InFile(q) => p = q

\* Whatever the programs do to the file at once, and wherever they die, the text
\* in the file changes by one whole operation that was asked for: no addition
\* undoes another and nothing is lost, but for what RecentList allows to a death
\* between two blocks of a write and to a late creation.
InWrite(p) == pc[p] \in {"write", "flush", "tail"}
Emptied(p) == pc[p] = "tail" /\ file = <<>>
List == IF \E p \in Proc : InWrite(p) /\ ~Emptied(p)
        THEN read[CHOOSE p \in Proc : InWrite(p)]
        ELSE file
Todo == [p \in Proc |-> IF op[p].kind = "changed" \/ pc[p] = "unlock"
                        THEN [kind |-> "none", uri |-> Nil]
                        ELSE [kind |-> op[p].kind, uri |-> op[p].uri]]
L == INSTANCE RecentList WITH list <- List, todo <- Todo,
                              late <- {p \in Proc : pc[p] = "create"}
KeepsList == L!ListSpec

\* When the programs come to rest, the menu of one that monitors the file
\* shows the latest files of its group that are in the file, unless its last
\* try to read the file found it locked.
Settled(p) ==
  \/ pc[p] = "off"
  \/ ~monitor[p]
  \/ Limit[p] = 0
  \/ unread[p]
  \/ menu[p] = SetList(GetList(p, Parsed(file)))
MenuCatchesUp == \A p \in Proc : <>[]Settled(p)

\* p is making its menu again.
Looking(p) == pc[p] \notin {"off", "idle"} /\ op[p].kind = "changed"

\* It is, or will: a report of the monitor waits for it, or its timer runs.
WillLook(p) == notified[p] \/ changed_timeout[p] \/ Looking(p)

\* A menu that does not show what is in the file will be made again: whatever
\* comes between a look and the next report of the monitor, no change of the
\* file is missed (egg_recent_model_monitor_cb, egg_recent_model_changed_timeout).
StaleNoticed == \A p \in Proc : Settled(p) \/ WillLook(p)
=============================================================================
