# A TLA+ verification of GBonds

GBonds (the `src/` tree, version 2.0.3) is a GNOME 2 program that keeps
inventories of United States savings bonds: it lists the bonds of an
inventory, values them from redemption tables of the Treasury, and downloads
new tables when they appear. It is a single-threaded C program, and what makes
it hard is nevertheless concurrency: several windows on several documents and
files, choosers that outlive their windows, main loops run inside calls, X
selections shared with other programs, and a download made of callbacks.

Paths below such as `src/doc.c` are relative to the repository.

## Inventory of the system

| Component | State it keeps | Operations | Talks to | What is hard about it |
|---|---|---|---|---|
| Document, `src/doc.c` | sorted bond list, title, modified flag, file name | add, delete, set title, clear flag | views and windows by signals | order and uniqueness under any mix of callers; the flag must tell the truth |
| XML files, `src/doc-xml.c` | the file | open, save | document | failure in the middle of the only copy |
| SBW import, `src/doc-sbw.c` | none but the document it builds | open | document | fixed buffers used again from record to record |
| Windows, `src/window.c` | the list of windows, the view in each | create, place a document, destroy | document, view, menus | the list changes under those who walk it |
| File menu, `src/file.c`, `src/commands.c` | choosers, unfinished calls on the C stack | New, Open, Recent, Import, Save, Save As, Close, Exit | windows, documents, files | nested main loops; stale pointers; failing saves |
| Program, `src/gbonds.c` | command line, session client | start, save session, die | windows, update druid | die arrives inside a nested loop |
| View, `src/view.c` | selected rows, copied data, redemption date | select, cut, copy, paste | document, X selections, table model | selections are lost piecewise; answers come late; data is reread from display text |
| Edit menu, `src/edit.c` | the bonds a delete loop still holds | add, delete, title | view, document | pointers held over questions |
| Update druid, `src/update.c` | page, list of files, position, cancel flag | list, download, rename, cancel | gnome-vfs, table model | errors, cancel against callback, crash between renames |
| Redemption tables, `src/table-model.c`, `src/table.c` | entries of all tables | reread, look up, list dates | views by signal | directories that cannot be read; gaps |
| Rules, `src/rules.c` | none | issue, maturity, accruals, no-pay, exchange | document | two functions with tables of boundaries that must agree |
| Conversions, `src/types.c` | none | format and parse | everybody | what one formats another must parse |
| Menus, `src/ui.c` | sensitivity of verbs | update all, modified, selection | window | follows signals |
| Recent files, `src/recent.c`, `src/recent-files` | a file all programs share, a menu | add, delete, clear, reread | File menu, other programs, gnome-vfs | a lock taken after the file is created; rewriting in place; change reports |
| Preferences, printing, dialogs, splash, debug | display settings | - | GConf, gnome-print | not core logic, but for the range of dates |

What makes each correct:

* Document and files: the list is ordered and free of duplicates; what is
  saved is what is opened; a document that will not be asked about is the one
  in its file.
* Windows and File menu: no edit disappears unless the user agreed; Exit
  visits every window; no unfinished call is left with a dead window.
* View and Edit menu: a deletion takes only what was selected and confirmed; a
  pointer held over a question stays good; what was copied can be pasted, once.
* Update druid: only whole tables are ever in use; a finished download misses
  nothing; Cancel works; a download ends.
* Display: title, menus and rows tell of the document shown; what the user
  chose stays chosen when tables or bonds come and go.
* Recent files: whatever the programs do at once, one list changed by one
  operation at a time, and a menu that shows it.
* Rules: accruals bracket the date they are asked for, and the next accrual is
  the one that comes; the flags agree with them.
* Conversions: what was entered is accepted again from what an inventory file
  has of it.

`PROJECT.json` lists every component with its status, and the hazards of the
code, each at its line.

## Modules

| Module | Models | Uses |
|---|---|---|
| `BondList` | the operators of `doc.c` on a bond list | |
| `GbDoc` | one document and its file | `BondList`, implements `Inventory` |
| `Inventory` | what a document promises: a bag of bonds, a title, a file | |
| `SbwImport` | the document with its imports read from SBW files | `GbDoc` |
| `GbSession` | windows, documents, files, choosers, nested calls | |
| `GbEdit` | selections, delete loop, clipboard | |
| `TableModel` | the operators of `table-model.c` | |
| `GbUpdate` | the update druid, its files, and the tables in use | `TableModel` |
| `GbView` | what the windows show: rows, date, title, verbs | `TableModel` |
| `Selections` | the elements of a sequence at chosen places, without recursion | |
| `RecentList` | what the programs that share the list of recent files promise | `Selections` |
| `RecentModel` | that list, its lock, its monitor and the Recent menu | `Selections`, implements `RecentList` |
| `BondRules` | dates of `rules.c` | |
| `BondInfo` | the rest of `rules.c`, the conversions, and the making of a bond | `BondRules` |
| `BondListProofs`, `GbDocProofs`, `GbSessionProofs`, `GbEditProofs`, `GbUpdateProofs`, `GbViewProofs`, `RecentModelProofs`, `BondRulesProofs` | lemmas and theorems | |
| `MC...` | small instances for TLC | |

### GbDoc

`list`, `title`, `modified_flag` and `titled` are the fields of `gbDoc`
(`titled` says whether the file name is set). A bond is a record with the
address of its object, its issue month and its serial number. `disk` is the
file. `EditAddBond`, `DeleteBond`, `SetTitle`, `XmlSave`, `XmlOpen` and `SbwOpen`
are the functions of those names. Reading a file takes a step per bond, through
`AddBond`, the operator for `gb_doc_add_bond` that the editor uses too; a
bond that is rejected drops the whole document. A save that fails may leave a
truncated file. The title that reaches the file is `TitleInFile[title]`.

`Inventory` is what the user is promised. A load and an import begin and end in
steps of their own there: `BeginLoad` needs a file that is whole and can only be
followed by `Load`, which gives the bonds and the title `stored` has;
`BeginImport` fixes what comes in (`coming`), which `Import` makes the inventory, and
`Refuse` gives up exactly when a serial number is in it twice. The mapping
(`Promised`) takes a document that is being read for the load when its file name is
set, and for the import otherwise.

Left out: series, denomination and issue price, which the list does not
look at; memory exhaustion.

### SbwImport

A file says how many bonds it has (`n`) and holds that many records or fewer. A
version 2 or 3 file has a line per bond: `fgets` leaves its buffer as it is at
the end of the file, so that the last line is read again. Version 4 has the
fields one after the other, each with its length; `ReadRecord` is a turn of
`read_sbw4` on its buffers, which start as whatever the stack
held, and `Loop4` what all turns make of the file. The bonds that come out go through the reading loop of `GbDoc`. Only
the fields the properties tell apart are there: date, serial number, and
whether the rules know the series. Notes, denominations and the magic number,
with its own error return, are left out.

### GbSession

A document here is its file, its flag and the set of edits in it. `stack`
holds the calls that wait in a main loop of their own: `ask` is `gb_file_close`
in its question, `save_as` is `gb_file_save_as` in `gtk_main`, `close` is
`gb_file_close` waiting for `gb_file_save`, and `exit` is `gb_file_exit` with
the window it goes to next. GTK's grab keeps the user to the topmost one, so
the actions of the other windows need an empty stack; only `ClientDie` does not.
`choosers` are the Open and Import choosers, which have no grab.
`SaveOk(w, f, cause)` writes down in `excused` what the save removes from the
file and on whose word: `agreed` (the user said so), `dismissed` (the question
was closed), `shared` (another document with the same file name), and `damaged`
for a save that failed. These four causes and `made`, `kept`, `critical` are
history variables: no action reads them, but that a call on a freed list node or
document ends the run (`Fatal`).

### GbEdit

`docs` and `bond` are the bond objects of every view's document. `dialog` is
`gb_edit_delete_bonds` waiting for an answer, with the pointers it still
holds. `owner` is the X server's table of selection owners; `selection_data` is
what a view has copied. A paste from a view of the same process is answered at
once, since GTK short-cuts it; a paste from another process is in `pasting`
until `PasteAnswered`. `Reread` is the round trip of a bond through the
copied text: a missing serial number becomes the text printf makes of it, and
a denomination of a thousand dollars or more loses what follows its comma.
`gb_doc_bond_new` allocates before `gb_doc_add_bond` looks for duplicates, so that a
paste takes an address for every line it can read, and those of the bonds refused stay
taken, in no document (`refused`).
History: `held` is what was last copied, `spared` what a deletion must not
touch.

### GbUpdate

`async` names the gnome-vfs operation whose callback is still to come.
Lengths of files are counted in blocks; `temp` is the file under its hashed
name and `home` the one under its real name. `OpenError`, `ListError` and
`ReadError` are the `default:` branches, which log and start nothing. The
renaming loop of `download_done` takes one step per file only so that `Crash`
can come between two; neither Cancel nor a callback can. `PruneFromDir` is
`prune_list_from_dir`, which prunes nothing for a directory it cannot list: the
tables of `~/.gbonds` are then downloaded again.

`TableModel` is the reading of the tables as an operator: `Update` gives the
tables of both directories, or none when `~/.gbonds` cannot be opened. Tables
are taken whole: a table is the set of months it covers.

### GbView

A view is made for one document and never shows another, so `view` is indexed
by document. `shown` is the document in each window; `open`, `window_title` and
the three sets of verbs are what is on the screen. Each change of a document,
of a selection or of a flag is one action with every handler it runs, in the
order of the `g_signal_emit`s: `UpdateView` for the rows, `SelectionChanged`
for what removing rows does to the tree selection, `ModifiedChanged` and
`NameChanged` for title and verbs. `connected` are the views whose handler
the table model still has; as the code never disconnects one, `UpdateTables` may
end the process once such a view is gone (`crashed`).
Opening, importing and closing are taken from where the user has answered
every question; `GbSession` has those. A value is its source only: the
table, the issue price, or nothing. The mark of a row is the `nopay_flag` that
`gb_table_model_get_value` sets: for a bond too young to pay, and for any bond in a
month no table has an entry for. `Paste` is answered at once or, from another
process, later (`pasting`, `PasteAnswered`); either way `selection_received_cb` ends
in `gb_view_unselect_all`.

### RecentList and RecentModel

`pc` is where a program is in an operation: open, create, lock, read, write,
flush, tail, unlock, each a system call another program can come before. `file` is
a sequence of pieces: an item, or `Broken`, where the parser gives up; `Parsed` is
the items before that. A file that gets shorter is cut first, and where a cut falls
depends on the lengths of the texts, so that `CutFile` may leave any beginning of
the list. A text that fits stdio's buffer is written at once, by the `rewind`
that ends `egg_recent_model_write_raw` (`WriteFile`); the list may have 500 items,
and of a longer text `fputs` writes whole blocks first (`WriteHead`) and `rewind` the
rest (`WriteTail`). In between, the file has a beginning of the new text, perhaps a
piece made of both texts, and some of the old one: that piece is broken or, as
every item has the same tags, reads like an item (`Mixtures`). A crash (in an
operation; in its main loop a program has nothing in its hands) gives the lock back and
leaves the file as it is. Only GBonds' own filters, group and order of sorting
are modelled; other programs may delete and clear. The file is created by
`CreateFile` where `fopen (..., "r+")` failed: it empties whatever has appeared
meanwhile, and the rest of a text is then written behind a hole.

`RecentList` is the same without locks and steps: one list, what each program was
asked to do to it (`todo`), and whole operations (`Apply`, or `GiveUp`). An item may
change only by an operation somebody asked for. Its exceptions are those the
code has: a death in a write leaves a beginning of the new text and some of the
old (`Torn`), or changes nothing; a program that found no file (`late`) empties
the list another has created since, or, where that one is about to write all of it, changes
nothing; and where that one has written its first blocks, the list ends
up behind a hole (`Spoil`). A whole addition, deletion or clearing is possible only for
a program that has not done its job yet. The mapping takes what the writer has read while
there is one, and the file's text otherwise and where it was emptied under the
writer (`Emptied`).

### BondRules and BondInfo

Dates are the months of `gbDate`. The state is one bond and a redemption date
that moves on by a month; the properties compare what the rules say in
consecutive months. `BondInfo` adds what is entered and what is shown: serial
numbers, series and dates as texts and back, the checks of `gb_doc_bond_new`
and `gb_doc_bond_new_from_sn_idate` in their order, and the flags and the colour of a row.
`Entries` are the months the tables have entries for: `nopay_flag` is also set in a
month they leave out. A denomination has two texts: `XmlDenom`, plain, in a
file, and `ValueFmt`, with a separator from a thousand on, in the list and on the clipboard;
`Strtod` reads up to the first separator.

## Runs

All passing runs finish in about three minutes or less with two workers.

| Run | Bounds | Shows |
|---|---|---|
| `gbdoc` | 3 addresses, 2 months, 2 serial numbers and none, 2 titles, SBW files of up to 2 bonds | list order and uniqueness, own file reads back, clean documents are stored, imports are whole, `Inventory` is implemented |
| `gbdoc_saveas` | the same | violation: failed Save As over the own file |
| `gbsession` | 3 windows, 2 files, 1 edit, 1 chooser, 1 die | no edit lost without cause, empty windows hold no edits, exit skips no window, calls keep their windows |
| `gbdie` | 2 windows, 1 file, 1 edit, 1 chooser, 1 die | violation, see below |
| `gbimport` | 2 windows, 1 file, 2 edits, 1 import, 1 chooser, 1 die | violation, see below |
| `gbedit` | 2 views, 3 addresses, 3 bonds, 1 bond of another process | unique after paste, copies stay available, the delete loop against late pastes |
| `gbpaste` | 2 views, 5 addresses, 3 bonds | violation: thousand-dollar bonds |
| `gbupdate` | 3 tables, 1 installed, 2 blocks each, 1 error, 2 short transfers, 1 crash, 1 unreadable home | whole tables only, nothing missed, tables in use as on disk, Cancel, and a download comes to its end |
| `gbview` | 2 windows, 3 documents, 2 bonds, 2 tables, 1 title, 1 file, 6 operations | title, verbs and rows true, dates offered are priced where the tables have no gap, choices kept but for pastes |
| `gbrecent` | 2 programs, 2 URIs, 2 items, 2 operations, 2 tries, 1 second, 1 death, no mixtures | one program in the file, `RecentList` is implemented with writes in blocks, no change of the file is missed, the menu catches up |
| `bondrules` | every issue month to 2004, every redemption month from May 1992 to May 2011, with the tables' gap of September 2001 to February 2002; serial numbers of every letter and suffix with 0, 1, 10 or 11 digits | accruals bracket; the next accrual comes; entered bonds read back from a file, and from the clipboard just below $1,000; colours in order |
| `bondrules_i` | the same | violation: Series I |

Why the bounds are enough. The document's operations look at pairs of bonds,
and three bonds give a first, a middle and a last place to insert at; two
months and two serial numbers with the missing one give every outcome of
`insert_compare_fct`. Two windows on two files can share one, swap them, or use
one each; three windows give the exit loop a next window that is not its last.
Three windows with a chooser and a die are the largest
instance of `gbsession` that TLC finishes in the time a run may take; its
one edit is enough as no action looks at two, and `gbimport` has two with a foreign
inventory. Three bonds in the delete loop are
needed for a No that a Yes to All follows; with three addresses a paste takes
addresses that a deletion freed, which is when a stale pointer would do harm.
Two tables to download make a crash fall between their renames. Addresses,
windows, files, edits and tables are model values, and symmetry is used only where no
liveness property is checked; the CHOOSEs left, the place of a window in the
list and the like, have one value they can choose.

`gbdoc` imports a sample of SBW files (`MCSbwFiles`): both versions, two records
announced, and nine contents, among them two whole records, a missing number or
series, a series the program does not know, the same number twice, and a file
cut short. `gbview` counts operations, as the windows
and tables would go round for ever otherwise: six are enough to open a
document in a second window, change it, select, lose and regain tables and
close it; the installed table covers two adjacent months and one after the gap
that the downloaded one fills, and the clock shows a month after them.
In `gbrecent` two operations and a death are enough for
each exception of `RecentList`: both programs find no file, one creates it and writes its
first blocks, the other creates late; or one dies between two blocks, at a
broken piece or between two items, and the other reads what it left. A second
try for the lock, a second for the items to differ in time and a monitor
that works or does not are what the menu needs, whose liveness only TLC
shows. There are no more than two URIs, and so no third item that pushes one
out, and no piece made of two texts that reads like an item: with both, the run does
not end in the time a run may take, and for those `KeepsList` has its proof.

Deadlock is not checked in the runs of `GbSession` (the program ends, or
stops at a fatal call), `GbView` and `RecentModel` (the operations end) and
`BondRules` (the dates end).

Fairness is assumed in `GbUpdate` and `RecentModel`. In `GbUpdate` it is weak
fairness of `Callback`: gnome-vfs answers every operation, if with an error, and
`download_done` goes on. gnome-vfs promises a callback for every asynchronous
call; the program relies on it, having no timeout of its own. In
`RecentModel` it is weak fairness of each program's `Step`, the system calls of
an operation under way, which no user or program can hold up (the
lock is tried, not waited for), and of its `Event`, what its GNOME main loop
delivers. Neither the user nor other programs' operations nor deaths are under
fairness. All other specifications state safety only.

## Disagreements found

Each of these is a run that TLC must find violated, and an entry of
`PROJECT.json` with the line it contradicts.

* A failed Save As over the document's own file leaves a damaged file and an
  unmodified document (`doc-xml.c`; `gbdoc_saveas`).
* A die signal during File->Exit makes the outer loop close a freed window
  (`file.c`; `gbdie`).
* An imported inventory counts as an empty window, and is replaced or closed
  without a question (`window.c`; `gbimport`).
* A bond of $1,000 is pasted as one of $1, or not at all (`view.c`; `gbpaste`).
* The next accrual of a Series I bond is announced five months late (`rules.c`;
  `bondrules_i`).

Also seen while reading, and modelled as the code has it, without a run of
its own:

* a title with an ampersand is cut in the file (`TitleInFile`);
* an Open chooser can be answered after its window is gone, which fails an
  assertion and leaves the chooser up (`ChooserAccept`);
* Escape on the overwrite question overwrites (`SaveAsAccept`, `dismissed`);
* after an error the update druid has no operation under way, and Cancel only
  sets a flag nobody reads (`ListError`, `OpenError`, `ReadError`, `Cancel`;
  `CancelIsSeen` and `DownloadEnds` say so in their premises);
* a closed view keeps its handler on the table model (`UpdateTables`);
* rows keep the values of tables that have been replaced (`TableModelChanged`);
* an SBW file cut short, or with a blank field, gives bonds nobody entered
  (`ReadRecord`; `ImportWhole` is about whole files);
* the tables shipped leave out September 2001 to February 2002, against the
  assumption of `gb_table_model_get_rdate_list` (`PicksPriced` is about tables
  without a gap; offered dates in a gap have no value);
* in a month that no table covers, every row is marked as not paying (`Info`,
  `GetValue`; `ColorsInOrder` is about the months that have entries);
* a bond refused in a paste is never freed (`refused`);
* the list of recent files is emptied by a program that found none while another
  created it (`CreateFile`), or made unreadable if that one was writing more than a block
  (`WriteTail`), and the menu is emptied when the file could not be
  locked (`unread`).

Not modelled: whether the `gnome_vfs_move` that gives a downloaded table its name
succeeds, which `download_done` does not look at; the finish page of the druid counts the tables asked for, also
those thrown away for their size; sorting by value takes `$1,000.00` for 1;
start-up with the most recent inventory passes an `EggRecentItem` where a file
name is expected; `egg_recent_model_add_full` without the lock leaks its file.

## Proofs

The theorems hold for every value of the constants, under the ASSUMEs of
the modules: dates and serial numbers are integers (the rank that `strcmp`
gives a serial number), the special values are distinct from ordinary ones (in
particular, a file that is missing or damaged is none that a save writes), the
redemption tables begin in May 1992 or later and end by the month that the digits
of their names can tell (`LastMonth`), the clock shows a month, the site of the
tables lists finitely many. Symbolic constants are any values with the stated
properties: nothing is assumed of how many there are, but where finiteness is
said.

`BondListProofs` has the lemmas: inserting into an ordered list with
`insert_compare_fct` gives an ordered list; a bond that is not a duplicate keeps
serial numbers unique; removing keeps both; and a bond that belongs at the end
is put there, which is why reading a saved file gives the list that was saved.

`GbDocProofs` proves `DocInv` inductive, a conjunction of the type invariant
with six named parts. `OwnFileReadsBack` is not inductive by itself: that the
next record is accepted and goes to the end follows only if the whole file
is ordered and without duplicates (`FileOrdered`), which holds because it was
written from an ordered list, and if what has been read and what is pending make up the
file (`ReadingOwnFile`). `ClosedIsEmpty` gives the start of a
reading loop. From `DocInvariant` follow `TypeCorrect`, `AlwaysOrdered`,
`AlwaysUnique`, `OwnFileAlwaysReadsBack` and `NeverStale`.

`DocKeepsPromise` is that `GbDoc` implements `Inventory`. The bag of bonds is the
mapping of the list, and the lemmas about it count: an insertion puts one bond
into the bag wherever it goes in the list, a deletion takes one out.
`NewDoc` is then `Create`, an edit `Change`, a save `Store` or `StoreFail`, and giving up
a document `Drop`; the start of a reading loop is `BeginLoad` or `BeginImport`, its
last step `Load` or `Import`, and a rejected record `Refuse`; the records
on the way are stutters. While an import is read, `coming` is the bag of the list and
of what is pending together: each record moves from one to the other, and a
rejected one shows that this bag has a serial number twice, which is what `Refuse`
asks for. A load has no such way out and must give what is stored. That needs the
invariant above, as the loop could otherwise reject a record.

The module also proves that `SbwSpec` implements `Spec` of `GbDoc`: an import step
is `SbwOpen` with some records, every other step a step of the document that
leaves the history of the import aside. The theorems about the document,
`KeepsPromise` among them, then carry over, whatever the files hold and
whatever the buffers repeat.

`ImportAlwaysWhole` is about what comes in, for any whole file. `Loop4` is a
recursive function of the set of turns; by induction on the number of turns
(`UpTo`) it gives record for record what `ReadRecord` makes of the file, as no
field of a whole record is blank and so none is taken from the turn before. From there on the
proof counts bonds: the bag of what is in the list and that of what is still to come
add up to the file, and each turn of the reading loop moves one bond from one to the
other, or rejects it and so ends the loop.

`GbSessionProofs` proves all invariants of `gbsession` from `SessionInv`, for
any number of windows, files, edits and choosers. None of them is inductive:

* `EditsAccounted` breaks when a close that waited for its save destroys a
  document that has been edited since. It has not: `SaveAsOverClose` says that a
  waiting close has the Save As of its own window right above it, or has just been
  told, and `SavedIsClean` that one told of success has a clean document still.
  `WindowsInUse` gives that document's edits to a window.
* `CallsHaveWindows` is false for a call under which another one closes the same
  window; `LoneCalls` says that without a die no window has two
  such calls, and this is what a die breaks (`gbdie`).
* `ExitLeavesOnlyKept` follows from `PassedHandled`: a window that an exit
  has passed is one the user kept, or it has an ask or a close above that
  exit's frame. It is stated of every exit on the stack, as a die can start an exit
  over an exit.

`GbEditProofs` proves `EditInv`: the type invariant and `CopyAvailable`, which are
inductive together, and two groups. `ObjectInv` says of the bond objects that no two
documents share one and that the addresses in use are those in a document and,
apart from them, those of bonds refused in a paste (`Separate`, `Filled`), from which a paste, which allocates only at free
addresses, can neither hit a bond another document or the delete loop holds nor
repeat a serial number. `LoopInv` says of the delete loop that it asks about a bond
once (`QueueDistinct`), so that freeing the one asked about leaves the rest of its list
alive, and that what it still asks about is not among the spared (`SparedApart`).
The proof assumes that there are finitely many addresses.

`PlainAlwaysPasted` says how far `PasteKeepsBonds`, which `gbpaste` refutes, does hold: where
every bond has a serial number, costs less than a thousand dollars and has a
denomination of its series, as in `gbedit`. Its invariant adds to `EditInv` that
the bonds and the copies are such (`PlainBonds`, `PlainCopies`) and that a copy has no
serial number twice; a line is then read as it was written, and rejected only
for a bond that is there already. (That a paste comes to nothing at all, which
changes no variable and which an action property cannot see, is what
`CopyAvailable` rules out.)

`GbUpdateProofs` has one inductive invariant: the types of the variables that
matter, that a file under its real name has the length the site announced, that
an operation under way has the downloading page, and that the tables in use are those on
disk but during the renaming loop. `CompleteInv` adds to it what a download has got
through, stage by stage: while listing, every table of the site is still to be
reported or in the list once; from then on, what is not in the list is
installed; the files before `data->p` have arrived; and while renaming, those
before it are installed or did not arrive. `AlwaysFinishedComplete` follows, and
with the ranges of the other variables `UpdateTypeCorrect`. That pruning leaves
out just the names of the directory is `PruneFromDirProperties`, by induction on
the length of the list.

`EndInv` goes on to what the liveness of a download rests on. What is left of it is
four numbers in lexical order: the stage, the files of that stage, the legs of a
file's transfer, the blocks of the file being read. `DownloadAlwaysNearer` is that
every callback lessens them, `WorkAlwaysCounts` that they are natural. A druid
that waits for no answer has met an error (`AlwaysQuietAfterError`), and the
last answer to a cancelled download closes its window (`CancelAlwaysEnds`). To
`DownloadEnds` and `CancelIsSeen` only the answers of gnome-vfs are missing.

`GbViewProofs` proves `ViewInv`, the conjunction of the three properties with
what makes them inductive: a document is shown in one window at most, only
windows that are open show one, a document shown is connected (so that a new one is
not on the screen yet), and the rows and the selection of a view belong
together. Most of its length is the step of each action, for each of the three.
`ViewsWellTyped` adds the types. `PicksAlwaysPriced` needs `DatesInv`: the dates a
view offers lie between the first and the last month of the tables, both of which
exist because some table is in use and no month is beyond `LastMonth`; without a
gap between the tables, each of them has a value. It says nothing of tables
with a gap, which those shipped have. `ChoicesAlwaysKept` says of each action whose
window's choices it may change, and that it changes no others; a late answer to a
paste may drop the selection of the view that asked.

`RecentModelProofs` has the lock, for any number of programs, tries and deaths: a
program between reading and unlocking is the one that holds it (`LockInv`).
`AlwaysKeepsList` is that `RecentModel` implements `RecentList`, from `RecentInv`:
the lock; the types of what is read and written (`TypeInv`); whoever has opened the file
finds it there (`FileInv`); what an operation is about (`OpInv`); and what is in
the file while a program writes (`WriteInv`). That is a beginning of what it read
before its first block, even after another program has emptied the file, and
`Torn` between its blocks, unless the file was emptied then. Opening, locking,
reading, cutting and the first blocks are stutters; the last write is `Apply`
or, to a file emptied since, `Spoil`; a death in a write is `Die`, and `Torn`
is what it leaves.

`RecentWellTyped` needs of the sorted menu that it is a list of items. `Arrange` takes
the item of each rank, so it needs `RanksOnce`: in a linear order of the places kept,
every rank is that of a place. `ChangesAlwaysNoticed` is the safety half of
`MenuCatchesUp`: a menu that does not show the file will be made again, as a
report of the monitor waits, the timer runs or the file is being read. `ReadFresh`
makes it inductive: what a program is about to show is what is in the
file, unless a report has come meanwhile. The lock keeps others from writing then,
but not from creating the file.

`BondRulesProofs` proves `AlwaysBracket` and
`NextAccrualAlwaysKept`, by cases on the series and on where a bond's half year
begins; the assumption on the first redemption date is what keeps the
division of C, which rounds towards zero, and that of TLA+ the same.
`AlwaysReadsBack` shows the texts of series and date undone by what reads them, and
that the checks on what was read come to the same result: always with the
denomination of a file, and with that of the clipboard exactly below a thousand dollars.
`ColorsAlwaysInOrder` compares the colour of a row with that of every later month that
has an entry, over any gap of the tables.

Every safety property of a passing run is a theorem. Only model-checked are the
three liveness properties `CancelIsSeen`, `DownloadEnds` and `MenuCatchesUp`: the
prover has no ENABLED and so no fairness. What they rest on besides is proved, as
said above. The violations of the other runs are counterexamples of TLC. What `gbpaste`, `gbdie` and
`bondrules_i` refute is proved for plain bonds, without a die and outside Series I
(`PlainAlwaysPasted`, `CallsAlwaysHaveWindows`, `NextAccrualAlwaysKept`).

## Plan

Done: the document and its files, imports, the session, the clipboard, the
display, tables and update druid, recent files, rules and conversions. What would
come next:

1. `GbEdit` with views that are closed: the invisible widget keeps its handlers.
2. `GbDoc` within `GbSession`: an edit as a real change of a document.

## Not modelled

Printing, dialog layout, splash, tracing and generated marshallers have no state
of interest, and preferences none but the range of dates. Of the vendored
`src/recent-files`, the GTK view and the utilities for icons are not used by
GBonds in a way that matters, and expiry of items and GConf's limits not at all.
The file-selection code for GTK before 2.4 in the `#else` branches of `file.c` is not
built where file choosers exist. `gb_determine_yield` and the totals are floating
point; columns and their sorting are display. `save_session_cb` writes a
command line for the session manager and reads it never. The buffer variants of
`doc-xml.c` have no caller. The Debian packaging is not part of the program.
