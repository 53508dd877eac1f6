------------------------------ MODULE GbUpdate ------------------------------
(***************************************************************************)
(* The update druid (src/update.c): it lists the redemption tables of a    *)
(* site, downloads those that are not installed yet into temporary files,  *)
(* and renames them once all have arrived.                                 *)
(*                                                                         *)
(* Everything runs in callbacks of gnome-vfs: async names the operation    *)
(* whose callback is still to come, "none" when none is.  The user's       *)
(* Cancel comes between any two callbacks; a crash comes anywhere, also    *)
(* between two renames.                                                    *)
(***************************************************************************)
EXTENDS TableModel, SequencesExt

CONSTANTS
  Installed, \* those in the data directory of the installation
  Remote,    \* those the site offers
  Size,      \* blocks in a table
  MaxError,  \* errors of gnome-vfs (bound)
  MaxShort,  \* blocks lost to short reads and writes (bound)
  MaxCrash,  \* crashes (bound)
  MaxUnread  \* times ~/.gbonds cannot be opened (bound)

ASSUME UpdateAssumption ==
  /\ Installed \subseteq Table
  /\ Remote \subseteq Table
  /\ IsFiniteSet(Remote)
  /\ Size \in Nat \ {0}
  /\ MaxError \in Nat /\ MaxShort \in Nat /\ MaxCrash \in Nat
  /\ MaxUnread \in Nat

VARIABLES
  page,       \* the druid's page, "none" while update_window is NULL
  async,      \* the operation under way, see above
  remote_dir_handle,   \* whether it is not NULL
  update_cancel_flag,
  to_list,    \* names the listing has yet to report
  list,       \* data->list: what is to be downloaded
  i,          \* data->i: the position of data->p in list
  temp,       \* length of the file #name# in ~/.gbonds, Absent if none
  home,       \* length of the file name in ~/.gbonds, Absent if none
  loaded,     \* the tables gb_table_model_update last read
  short,      \* tables that did not arrive whole in this download
  errors, shorts, crashes,
  unreads     \* times the tables were read without ~/.gbonds

vars == <<page, async, remote_dir_handle, update_cancel_flag, to_list, list, i,
          temp, home, loaded, short, errors, shorts, crashes, unreads>>
bounds   == <<errors, shorts, crashes, unreads>>
files    == <<temp, home, loaded>>

Absent    == -1
InHome    == {t \in Table : home[t] # Absent}
Available == Installed \cup InHome

---------------------------------------------------------------------------
\* gb_update_druid: from the menu, or at startup when the tables run out.
UpdateDruid ==
  /\ page = "none"
  /\ page' = "start"
  /\ remote_dir_handle' = FALSE
  /\ update_cancel_flag' = FALSE
  /\ UNCHANGED <<async, to_list, list, i, files, short, bounds>>

\* The user reaches the downloading page: prepare_downloading_page and
\* get_remote_file_list.
StartListing ==
  /\ page = "start"
  /\ page' = "downloading"
  /\ async' = "listing"
  /\ remote_dir_handle' = TRUE
  /\ to_list' = Remote
  /\ list' = <<>>
  /\ short' = {}
  /\ UNCHANGED <<update_cancel_flag, i, files, bounds>>

\* What every callback does that finds the flag set and has nothing to close.
GiveUp ==
  /\ page' = "none"
  /\ async' = "none"

\* prune_list_from_dir: the names that are not in a directory.
PruneFromDir(names, dir) ==
  LET kept[n \in 0 .. Len(names)] ==
        IF n = 0 THEN <<>>
        ELSE IF names[n] \in dir THEN kept[n - 1]
        ELSE Append(kept[n - 1], names[n])
  IN  kept[Len(names)]

\* A pruning that looks for the table under its temporary name (mutant).
PruneHashed(names, readable) ==
  LET hashed == {t \in Table : temp[t] # Absent}
      new    == PruneFromDir(names, Installed)
  IN  IF readable THEN PruneFromDir(new, hashed) ELSE new

\* got_remote_list: what neither directory has.  A directory that cannot be read
\* prunes nothing.
Prune(names, readable) ==
  LET new == PruneFromDir(names, Installed)
  IN  IF readable THEN PruneFromDir(new, InHome) ELSE new

\* The end of no_download, and of download_done: the finish page.
Finish ==
  /\ page' = "finish"
  /\ async' = "none"
  /\ remote_dir_handle' = FALSE

\* get_remote_file_list_cb.
ListEntry(t) ==
  /\ async = "listing"
  /\ t \in to_list
  /\ to_list' = to_list \ {t}
  /\ IF update_cancel_flag
     THEN GiveUp /\ UNCHANGED list
     ELSE list' = <<t>> \o list /\ UNCHANGED <<page, async>>
  /\ UNCHANGED <<remote_dir_handle, update_cancel_flag, i, files, short, bounds>>

ListEnd ==
  /\ async = "listing"
  /\ to_list = {}
  /\ IF update_cancel_flag
     THEN GiveUp /\ UNCHANGED <<remote_dir_handle, list, i>>
     ELSE /\ \E readable \in BOOLEAN : list' = Prune(list, readable)
          /\ i' = 1
          /\ IF list' # <<>>
             THEN async' = "opening" /\ UNCHANGED <<page, remote_dir_handle>>
             ELSE Finish
  /\ UNCHANGED <<update_cancel_flag, to_list, files, short, bounds>>

\* Any other result is only logged: no operation follows it.
ListError ==
  /\ async = "listing"
  /\ errors < MaxError
  /\ errors' = errors + 1
  /\ IF update_cancel_flag THEN GiveUp ELSE async' = "none" /\ UNCHANGED page
  /\ UNCHANGED <<remote_dir_handle, update_cancel_flag, to_list, list, i, files,
                 short, shorts, crashes, unreads>>

\* open_remote_file_callback: gnome_vfs_create empties what an earlier
\* attempt left under the temporary name.
OpenOk ==
  /\ async = "opening"
  /\ IF update_cancel_flag
     THEN async' = "closing" /\ UNCHANGED temp
     ELSE async' = "reading" /\ temp' = [temp EXCEPT ![list[i]] = 0]
  /\ UNCHANGED <<page, remote_dir_handle, update_cancel_flag, to_list, list, i,
                 home, loaded, short, bounds>>

\* An error looked at before the flag (mutant).
OpenErrorFirst ==
  /\ async = "opening"
  /\ errors < MaxError
  /\ errors' = errors + 1
  /\ async' = "none"
  /\ UNCHANGED <<page, remote_dir_handle, update_cancel_flag, to_list, list, i,
                 files, short, shorts, crashes, unreads>>

\* The remote file does not open, or the local one cannot be created.
OpenError ==
  /\ async = "opening"
  /\ errors < MaxError
  /\ errors' = errors + 1
  /\ async' = IF update_cancel_flag THEN "closing" ELSE "none"
  /\ UNCHANGED <<page, remote_dir_handle, update_cancel_flag, to_list, list, i,
                 files, short, shorts, crashes, unreads>>

\* A block that fails to be written and ends the reading (mutant).
ReadBlockStops ==
  /\ async = "reading"
  /\ temp[list[i]] < Size
  /\ \/ /\ temp' = [temp EXCEPT ![list[i]] = @ + 1]
        /\ UNCHANGED <<async, short, shorts>>
     \/ /\ shorts < MaxShort
        /\ shorts' = shorts + 1
        /\ short' = short \cup {list[i]}
        /\ async' = "none"
        /\ UNCHANGED temp
  /\ UNCHANGED <<page, remote_dir_handle, update_cancel_flag, to_list, list, i,
                 home, loaded, errors, crashes, unreads>>

\* read_remote_file_callback: a block is read and written, or fails to be
\* written, which is only logged.
ReadBlock ==
  /\ async = "reading"
  /\ temp[list[i]] + (IF list[i] \in short THEN 1 ELSE 0) < Size
  /\ IF update_cancel_flag
     THEN async' = "closing" /\ UNCHANGED <<temp, short, shorts>>
     ELSE /\ UNCHANGED async
          /\ \/ /\ temp' = [temp EXCEPT ![list[i]] = @ + 1]
                /\ UNCHANGED <<short, shorts>>
             \/ /\ shorts < MaxShort
                /\ list[i] \notin short
                /\ shorts' = shorts + 1
                /\ short' = short \cup {list[i]}
                /\ UNCHANGED temp
  /\ UNCHANGED <<page, remote_dir_handle, update_cancel_flag, to_list, list, i,
                 home, loaded, errors, crashes, unreads>>

\* The end of the file, or a read of no bytes before it.
ReadEnd ==
  /\ async = "reading"
  /\ async' = "closing"
  /\ \/ /\ temp[list[i]] + (IF list[i] \in short THEN 1 ELSE 0) = Size
        /\ UNCHANGED <<short, shorts>>
     \/ /\ shorts < MaxShort
        /\ temp[list[i]] < Size
        /\ shorts' = shorts + 1
        /\ short' = short \cup {list[i]}
  /\ UNCHANGED <<page, remote_dir_handle, update_cancel_flag, to_list, list, i,
                 files, errors, crashes, unreads>>

ReadError ==
  /\ async = "reading"
  /\ errors < MaxError
  /\ errors' = errors + 1
  /\ async' = IF update_cancel_flag THEN "closing" ELSE "none"
  /\ UNCHANGED <<page, remote_dir_handle, update_cancel_flag, to_list, list, i,
                 files, short, shorts, crashes, unreads>>

\* The next file taken from behind the list (mutant).
CloseDonePastEnd ==
  /\ async = "closing"
  /\ IF update_cancel_flag
     THEN GiveUp /\ UNCHANGED i
     ELSE i' = i + 1 /\ async' = "opening" /\ UNCHANGED page
  /\ UNCHANGED <<remote_dir_handle, update_cancel_flag, to_list, list, files,
                 short, bounds>>

\* close_remote_file_callback: the next file, or download_done, whose renaming
\* loop is async = "renaming" here so that a crash can come between two files.
CloseDone ==
  /\ async = "closing"
  /\ IF update_cancel_flag
     THEN GiveUp /\ UNCHANGED i
     ELSE /\ IF i < Len(list)
             THEN i' = i + 1 /\ async' = "opening"
             ELSE i' = 1 /\ async' = "renaming"
          /\ UNCHANGED page
  /\ UNCHANGED <<remote_dir_handle, update_cancel_flag, to_list, list, files,
                 short, bounds>>

\* A rename of whatever arrived (mutant).
RenameUnchecked ==
  /\ async = "renaming"
  /\ i <= Len(list)
  /\ i' = i + 1
  /\ temp' = [temp EXCEPT ![list[i]] = Absent]
  /\ home' = [home EXCEPT ![list[i]] = temp[list[i]]]
  /\ UNCHANGED <<page, async, remote_dir_handle, update_cancel_flag, to_list,
                 list, loaded, short, bounds>>

\* One turn of that loop: a file of the size the site announced gets its
\* name, any other is removed.
RenameFile ==
  /\ async = "renaming"
  /\ i <= Len(list)
  /\ i' = i + 1
  /\ temp' = [temp EXCEPT ![list[i]] = Absent]
  /\ IF temp[list[i]] = Size
     THEN home' = [home EXCEPT ![list[i]] = Size]
     ELSE UNCHANGED home
  /\ UNCHANGED <<page, async, remote_dir_handle, update_cancel_flag, to_list,
                 list, loaded, short, bounds>>

\* gb_table_model_update.
ReadTables ==
  \E readable \in BOOLEAN :
    /\ readable \/ unreads < MaxUnread
    /\ loaded' = Update(Installed, InHome, readable)
    /\ unreads' = IF readable THEN unreads ELSE unreads + 1

\* A finish page on tables not read again (mutant).
DownloadDoneUnread ==
  /\ async = "renaming"
  /\ i > Len(list)
  /\ Finish
  /\ UNCHANGED <<update_cancel_flag, to_list, list, i, files, short, bounds>>

\* The rest of download_done: gb_table_model_update, and the finish page.
DownloadDone ==
  /\ async = "renaming"
  /\ i > Len(list)
  /\ Finish
  /\ ReadTables
  /\ UNCHANGED <<update_cancel_flag, to_list, list, i, temp, home, short,
                 errors, shorts, crashes>>

---------------------------------------------------------------------------
\* A Cancel that never waits for the callback (mutant).
CancelAtOnce ==
  /\ page \in {"start", "downloading"}
  /\ async # "renaming"
  /\ page' = "none"
  /\ UNCHANGED <<async, remote_dir_handle, update_cancel_flag, to_list, list, i,
                 files, short, bounds>>

\* cancel_cb, and destroy_cb where nothing has started.  The downloading page
\* leaves only Cancel sensitive, the finish page only Finish.
Cancel ==
  /\ page \in {"start", "downloading"}
  /\ async # "renaming"
  /\ IF remote_dir_handle
     THEN update_cancel_flag' = TRUE /\ UNCHANGED page
     ELSE page' = "none" /\ UNCHANGED update_cancel_flag
  /\ UNCHANGED <<async, remote_dir_handle, to_list, list, i, files, short,
                 bounds>>

\* finish_cb.
FinishPressed ==
  /\ page = "finish"
  /\ page' = "none"
  /\ UNCHANGED <<async, remote_dir_handle, update_cancel_flag, to_list, list, i,
                 files, short, bounds>>

\* The process dies and is started again, by gb_table_init, until it finds
\* tables: without any, main shows an alert and returns.
Crash ==
  /\ crashes < MaxCrash
  /\ crashes' = crashes + 1
  /\ page' = "none"
  /\ async' = "none"
  /\ remote_dir_handle' = FALSE
  /\ update_cancel_flag' = FALSE
  /\ loaded' = Update(Installed, InHome, TRUE)
  /\ UNCHANGED <<to_list, list, i, temp, home, short, errors, shorts, unreads>>

Init ==
  /\ page = "none"
  /\ async = "none"
  /\ remote_dir_handle = FALSE
  /\ update_cancel_flag = FALSE
  /\ to_list = {}
  /\ list = <<>>
  /\ i = 1
  /\ temp = [t \in Table |-> Absent]
  /\ home = [t \in Table |-> Absent]
  /\ loaded = Installed
  /\ short = {}
  /\ errors = 0
  /\ shorts = 0
  /\ crashes = 0
  /\ unreads = 0

\* The next callback of gnome-vfs, or the next step of download_done.
Callback ==
  \/ \E t \in Remote : ListEntry(t)
  \/ ListEnd
  \/ ListError
  \/ OpenOk
  \/ OpenError
  \/ ReadBlock
  \/ ReadEnd
  \/ ReadError
  \/ CloseDone
  \/ RenameFile
  \/ DownloadDone

Next ==
  \/ UpdateDruid
  \/ StartListing
  \/ Callback
  \/ Cancel
  \/ FinishPressed
  \/ Crash

\* gnome-vfs answers every operation, if only with an error.  Nothing is
\* assumed of the user.
Spec == Init /\ [][Next]_vars /\ WF_vars(Callback)

---------------------------------------------------------------------------
Lengths == {Absent} \cup 0 .. Size

TypeOK ==
  /\ page \in {"none", "start", "downloading", "finish"}
  /\ async \in {"none", "listing", "opening", "reading", "closing", "renaming"}
  /\ remote_dir_handle \in BOOLEAN
  /\ update_cancel_flag \in BOOLEAN
  /\ to_list \subseteq Remote
  /\ list \in Seq(Remote) /\ IsInjective(list)
  /\ i \in Nat \ {0}
  /\ async \in {"opening", "reading", "closing"} => i \in DOMAIN list
  /\ temp \in [Table -> Lengths]
  /\ home \in [Table -> Lengths]
  /\ loaded \subseteq Table
  /\ short \subseteq Remote
  /\ errors \in 0 .. MaxError /\ shorts \in 0 .. MaxShort /\ crashes \in 0 .. MaxCrash
  /\ unreads \in 0 .. MaxUnread

\* A redemption table that gb_table_model_update can find is whole, whatever
\* was cancelled, cut short or left behind by a crash: a table cut off in the
\* middle would value bonds wrongly without a word.
TablesWhole == \A t \in Table : home[t] \in {Absent, Size}

\* "GBonds is now configured with redemption data for ...": the tables in use
\* are those on disk whenever no download is at work, also after a crash
\* between two renames; or none at all, where ~/.gbonds could not be opened.
ConfiguredAsStored ==
  async # "renaming" => loaded = Available \/ (loaded = {} /\ unreads > 0)

\* A finished download leaves nothing the site offers uninstalled, but for what
\* did not arrive whole: neither an aborted attempt's temporary file nor an
\* earlier crash makes it skip a table.
FinishedComplete == page = "finish" => Remote \subseteq Available \cup short

\* Callbacks never outlive the window they write to: while an operation is
\* under way the druid is on its downloading page.
CallbackHasWindow == async # "none" => page = "downloading"

\* Cancel works while an operation is under way, be its answer an error.
CancelIsSeen == (update_cancel_flag /\ async # "none") ~> (page = "none")

\* A download that meets no error comes to its end without the user.
DownloadEnds == (page = "downloading") ~> (page # "downloading" \/ errors > 0)

=============================================================================
