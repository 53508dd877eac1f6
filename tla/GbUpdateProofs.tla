--------------------------- MODULE GbUpdateProofs ---------------------------
(***************************************************************************)
(* What holds of the update druid for any set of tables of any size, and   *)
(* any number of errors, short transfers and crashes.                      *)
(***************************************************************************)
EXTENDS GbUpdate, SequenceTheorems, FiniteSetTheorems, WellFoundedInduction, TLAPS

\* Under its final name a table is whole.
HomeInv == home \in [Table -> {Absent, Size}]

\* A callback is only ever owed while the druid downloads, and Cancel then
\* takes its careful branch.
CallbackInv == async # "none" => page = "downloading" /\ remote_dir_handle

\* ConfiguredAsStored needs no more than the range of the counter it names.
StoredInv == unreads \in Nat /\ ConfiguredAsStored

UpdateInv == HomeInv /\ CallbackInv /\ StoredInv

LEMMA UpdateInit == Init => UpdateInv
  BY DEF Init, UpdateInv, HomeInv, CallbackInv, StoredInv, ConfiguredAsStored,
         Available, InHome, Absent

\* Reading the tables makes loaded what the disk holds, or nothing, and
\* remembers which.
LEMMA ReadTablesStores ==
  ASSUME unreads \in Nat, ReadTables
  PROVE  /\ unreads' \in Nat
         /\ loaded' = Available \/ (loaded' = {} /\ unreads' > 0)
<1>1. PICK readable \in BOOLEAN :
        /\ loaded' = Update(Installed, InHome, readable)
        /\ unreads' = IF readable THEN unreads ELSE unreads + 1
  BY DEF ReadTables
<1>2. CASE readable
  BY <1>1, <1>2 DEF Update, Available
<1>3. CASE ~readable
  BY <1>1, <1>3 DEF Update
<1> QED BY <1>1, <1>2, <1>3

\* An action that leaves the files alone and does not start or end renaming
\* keeps what is stored.
LEMMA FilesAlone ==
  ASSUME UpdateInv, UNCHANGED <<home, loaded>>, unreads' = unreads,
         async' # "renaming" => async # "renaming"
  PROVE  HomeInv' /\ StoredInv'
BY DEF UpdateInv, HomeInv, StoredInv, ConfiguredAsStored, Available, InHome

LEMMA CallbackKeeps == ASSUME UpdateInv, Callback PROVE UpdateInv'
<1> USE DEF UpdateInv
<1>1. ASSUME NEW t \in Remote, ListEntry(t) PROVE UpdateInv'
  BY <1>1, FilesAlone DEF ListEntry, GiveUp, CallbackInv, files, bounds
<1>2. CASE ListEnd
  BY <1>2, FilesAlone DEF ListEnd, GiveUp, Finish, CallbackInv, files, bounds
<1>3. CASE ListError
  BY <1>3, FilesAlone DEF ListError, GiveUp, CallbackInv, files
<1>4. CASE OpenOk
  BY <1>4, FilesAlone DEF OpenOk, CallbackInv, bounds
<1>5. CASE OpenError
  BY <1>5, FilesAlone DEF OpenError, CallbackInv, files
<1>6. CASE ReadBlock
  BY <1>6, FilesAlone DEF ReadBlock, CallbackInv
<1>7. CASE ReadEnd
  BY <1>7, FilesAlone DEF ReadEnd, CallbackInv, files
<1>8. CASE ReadError
  BY <1>8, FilesAlone DEF ReadError, CallbackInv, files
<1>9. CASE CloseDone
  BY <1>9, FilesAlone DEF CloseDone, GiveUp, CallbackInv, files, bounds
<1>10. CASE RenameFile
  \* Only a file of the announced size gets the name of a table.
  <2>1. home' = home \/ home' = [home EXCEPT ![list[i]] = Size]
    BY <1>10 DEF RenameFile
  <2>2. HomeInv'
    BY <2>1 DEF HomeInv
  <2>3. CallbackInv' /\ StoredInv'
    BY <1>10 DEF RenameFile, CallbackInv, StoredInv, ConfiguredAsStored, bounds
  <2> QED BY <2>2, <2>3
<1>11. CASE DownloadDone
  <2>1. HomeInv' /\ CallbackInv'
    BY <1>11 DEF DownloadDone, Finish, HomeInv, CallbackInv
  <2>2. StoredInv'
    BY <1>11, ReadTablesStores
       DEF DownloadDone, StoredInv, ConfiguredAsStored, Available, InHome
  <2> QED BY <2>1, <2>2
<1> QED
  BY <1>1, <1>2, <1>3, <1>4, <1>5, <1>6, <1>7, <1>8, <1>9, <1>10, <1>11
     DEF Callback

LEMMA UpdateStep == UpdateInv /\ [Next]_vars => UpdateInv'
<1> SUFFICES ASSUME UpdateInv, [Next]_vars PROVE UpdateInv'
  OBVIOUS
<1> USE DEF UpdateInv
<1>1. CASE UpdateDruid
  BY <1>1, FilesAlone DEF UpdateDruid, CallbackInv, files, bounds
<1>2. CASE StartListing
  BY <1>2, FilesAlone DEF StartListing, CallbackInv, files, bounds
<1>3. CASE Callback
  BY <1>3, CallbackKeeps
<1>4. CASE Cancel
  BY <1>4, FilesAlone DEF Cancel, CallbackInv, files, bounds
<1>5. CASE FinishPressed
  BY <1>5, FilesAlone DEF FinishPressed, CallbackInv, files, bounds
<1>6. CASE Crash
  BY <1>6 DEF Crash, HomeInv, CallbackInv, StoredInv, ConfiguredAsStored,
              Update, Available, InHome
<1>7. CASE UNCHANGED vars
  BY <1>7, FilesAlone DEF vars, CallbackInv
<1> QED
  BY <1>1, <1>2, <1>3, <1>4, <1>5, <1>6, <1>7 DEF Next

LEMMA UpdateInvariant == Spec => []UpdateInv
  BY UpdateInit, UpdateStep, PTL DEF Spec

\* Whatever is cancelled, cut short or left behind by a crash, a table that
\* gb_table_model_update can find is whole (update.c, download_done).
THEOREM TablesAlwaysWhole == Spec => []TablesWhole
<1>1. UpdateInv => TablesWhole
  BY DEF UpdateInv, HomeInv, TablesWhole
<1> QED BY UpdateInvariant, <1>1, PTL

\* No callback outlives the window it writes to (update.c, cancel_cb).
THEOREM CallbackAlwaysHasWindow == Spec => []CallbackHasWindow
<1>1. UpdateInv => CallbackHasWindow
  BY DEF UpdateInv, CallbackInv, CallbackHasWindow
<1> QED BY UpdateInvariant, <1>1, PTL

\* The tables in use are those on disk, or none (table-model.c,
\* gb_table_model_update; update.c, download_done).
THEOREM AlwaysConfiguredAsStored == Spec => []ConfiguredAsStored
<1>1. UpdateInv => ConfiguredAsStored
  BY DEF UpdateInv, StoredInv
<1> QED BY UpdateInvariant, <1>1, PTL

---------------------------------------------------------------------------
(* prune_list_from_dir.                                                    *)

\* Induction up to m, on the set of the numbers for which something holds.
LEMMA UpTo ==
  ASSUME NEW m \in Nat, NEW S, 0 \in S,
         \A n \in 1 .. m : n - 1 \in S => n \in S
  PROVE  \A n \in 0 .. m : n \in S
<1> DEFINE less == { ss \in Nat \X Nat : ss[1] < ss[2] }
           T    == {n \in 0 .. m : n \notin S}
<1>1. IsWellFoundedOn(less, Nat)
  <2>1. OpToRel(<, Nat) = less
    BY Zenon DEF OpToRel
  <2> QED BY <2>1, NatLessThanWellFounded, Zenon
<1>2. ASSUME T # {} PROVE FALSE
  <2>1. PICK x \in T : \A y \in T : <<y, x>> \notin less
    <3> T \subseteq Nat
      OBVIOUS
    <3> HIDE DEF less, T
    <3> QED BY <1>1, <1>2, WFMin
  <2>2. x \in 1 .. m
    BY <2>1
  <2>3. x - 1 \in S
    <3>1. CASE x - 1 \in T
      <4>1. <<x - 1, x>> \in less
        BY <2>2
      <4> QED BY <2>1, <3>1, <4>1
    <3>2. CASE x - 1 \notin T
      BY <2>2, <3>2
    <3> QED BY <3>1, <3>2
  <2> QED BY <2>1, <2>2, <2>3
<1> QED BY <1>2

\* What PruneFromDir has kept of the first n names.
KeptOf(names, dir, kept, n) ==
  IF n = 0 THEN <<>>
  ELSE IF names[n] \in dir THEN kept[n - 1]
  ELSE Append(kept[n - 1], names[n])

\* The recursion defines something.
LEMMA KeptDefined ==
  ASSUME NEW names, NEW dir, NEW m \in Nat
  PROVE  \E kept : kept = [n \in 0 .. m |-> KeptOf(names, dir, kept, n)]
<1> DEFINE S == {n \in 0 .. m : \E kept :
                   kept = [k \in 0 .. n |-> KeptOf(names, dir, kept, k)]}
<1>1. 0 \in S
  <2> DEFINE kept == [k \in 0 .. 0 |-> <<>>]
  <2>1. \A k \in 0 .. 0 : KeptOf(names, dir, kept, k) = <<>>
    BY DEF KeptOf
  <2>2. kept = [k \in 0 .. 0 |-> KeptOf(names, dir, kept, k)]
    <3> HIDE DEF KeptOf
    <3> QED BY <2>1
  <2> HIDE DEF kept
  <2> QED BY <2>2
<1>2. ASSUME NEW n \in 1 .. m, n - 1 \in S PROVE n \in S
  <2>1. PICK kept : kept = [k \in 0 .. n - 1 |-> KeptOf(names, dir, kept, k)]
    BY <1>2
  <2> DEFINE longer == [k \in 0 .. n |->
                          IF k < n THEN kept[k] ELSE KeptOf(names, dir, kept, n)]
  <2>2. ASSUME NEW k \in 0 .. n PROVE longer[k] = KeptOf(names, dir, longer, k)
    <3>1. k # 0 => k - 1 \in 0 .. n - 1 /\ k - 1 < n
      BY <2>2
    <3>2. k # 0 => longer[k - 1] = kept[k - 1]
      BY <3>1
    <3>3. KeptOf(names, dir, longer, k) = KeptOf(names, dir, kept, k)
      <4> HIDE DEF longer
      <4> QED BY <3>2 DEF KeptOf
    <3>4. k < n => kept[k] = KeptOf(names, dir, kept, k)
      BY <2>1, <2>2
    <3> QED BY <2>2, <3>3, <3>4
  <2>3. longer = [k \in 0 .. n |-> longer[k]]
    OBVIOUS
  <2> HIDE DEF longer
  <2>4. longer = [k \in 0 .. n |-> KeptOf(names, dir, longer, k)]
    BY <2>2, <2>3, Zenon
  <2> QED BY <2>4
<1> HIDE DEF S
<1>3. m \in S
  BY <1>1, <1>2, UpTo
<1> QED BY <1>3 DEF S

\* The names that are not in the directory, each as often as before.
LEMMA PruneFromDirProperties ==
  ASSUME NEW N, NEW names \in Seq(N), IsInjective(names), NEW dir
  PROVE  /\ PruneFromDir(names, dir) \in Seq(N)
         /\ IsInjective(PruneFromDir(names, dir))
         /\ Range(PruneFromDir(names, dir)) = Range(names) \ dir
<1> DEFINE len  == Len(names)
           kept == CHOOSE kept : kept = [n \in 0 .. len |->
                                           KeptOf(names, dir, kept, n)]
           Good(n) == /\ kept[n] \in Seq(N)
                      /\ IsInjective(kept[n])
                      /\ Range(kept[n]) = {names[k] : k \in 1 .. n} \ dir
           S == {n \in 0 .. len : Good(n)}
<1>0. len \in Nat /\ DOMAIN names = 1 .. len
  OBVIOUS
<1>1. kept = [n \in 0 .. len |-> KeptOf(names, dir, kept, n)]
  BY <1>0, KeptDefined
<1>2. PruneFromDir(names, dir) = kept[len]
  BY DEF PruneFromDir, KeptOf
<1> HIDE DEF kept
<1>3. \A n \in 0 .. len : kept[n] = KeptOf(names, dir, kept, n)
  BY <1>1, Zenon
<1>4. Good(0)
  <2>1. kept[0] = <<>>
    BY <1>0, <1>3 DEF KeptOf
  <2>2. <<>> \in Seq(N) /\ IsInjective(<<>>) /\ Range(<<>>) = {}
    BY DEF IsInjective, Range
  <2>3. {names[k] : k \in 1 .. 0} \ dir = {}
    OBVIOUS
  <2> QED BY <2>1, <2>2, <2>3
<1> HIDE DEF len
<1>5. ASSUME NEW n \in 1 .. len, Good(n - 1) PROVE Good(n)
  <2> DEFINE before == kept[n - 1]
  <2>1. /\ before \in Seq(N)
        /\ IsInjective(before)
        /\ Range(before) = {names[k] : k \in 1 .. n - 1} \ dir
    BY <1>5
  <2>2. {names[k] : k \in 1 .. n} = {names[k] : k \in 1 .. n - 1} \cup {names[n]}
    BY <1>0
  <2>3. names[n] \in N /\ names[n] \notin {names[k] : k \in 1 .. n - 1}
    BY <1>0 DEF IsInjective
  <2>4. kept[n] = IF names[n] \in dir THEN before ELSE Append(before, names[n])
    <3>1. n \in 0 .. len /\ n # 0
      BY <1>0
    <3>2. kept[n] = KeptOf(names, dir, kept, n)
      BY <1>3, <3>1
    <3> QED BY <3>1, <3>2 DEF KeptOf
  <2> HIDE DEF before
  <2>5. CASE names[n] \in dir
    BY <2>1, <2>2, <2>4, <2>5
  <2>6. CASE names[n] \notin dir
    <3> DEFINE l == Append(before, names[n])
    <3>1. kept[n] = l
      BY <2>4, <2>6
    <3>2. /\ l \in Seq(N)
          /\ Len(before) \in Nat
          /\ DOMAIN before = 1 .. Len(before)
          /\ DOMAIN l = 1 .. Len(before) + 1
          /\ \A k \in 1 .. Len(before) : l[k] = before[k]
          /\ l[Len(before) + 1] = names[n]
      BY <2>1, <2>3
    <3> HIDE DEF l
    <3>3. Range(l) = Range(before) \cup {names[n]}
      BY <3>2 DEF Range
    <3>4. names[n] \notin Range(before)
      BY <2>1, <2>3
    <3>5. IsInjective(l)
      BY <2>1, <3>2, <3>4 DEF IsInjective, Range
    <3>6. Range(l) = {names[k] : k \in 1 .. n} \ dir
      BY <2>1, <2>2, <2>6, <3>3
    <3> QED BY <3>1, <3>2, <3>5, <3>6
  <2> QED BY <2>5, <2>6
<1>6. Good(len)
  <2> HIDE DEF Good
  <2>1. 0 \in S
    BY <1>0, <1>4
  <2>2. ASSUME NEW n \in 1 .. len, n - 1 \in S PROVE n \in S
    BY <1>0, <1>5, <2>2
  <2> HIDE DEF S
  <2>3. \A n \in 0 .. len : n \in S
    BY <1>0, <2>1, <2>2, UpTo
  <2> QED BY <1>0, <2>3 DEF S
<1>7. Range(names) = {names[k] : k \in 1 .. len}
  BY <1>0 DEF Range
<1> QED BY <1>2, <1>6, <1>7

LEMMA PruneProperties ==
  ASSUME NEW names \in Seq(Remote), IsInjective(names), NEW readable \in BOOLEAN
  PROVE  /\ Prune(names, readable) \in Seq(Remote)
         /\ IsInjective(Prune(names, readable))
         /\ Range(names) \subseteq Available \cup Range(Prune(names, readable))
<1> DEFINE new == PruneFromDir(names, Installed)
<1>1. /\ new \in Seq(Remote)
      /\ IsInjective(new)
      /\ Range(new) = Range(names) \ Installed
  BY PruneFromDirProperties
<1> HIDE DEF new
<1>2. /\ PruneFromDir(new, InHome) \in Seq(Remote)
      /\ IsInjective(PruneFromDir(new, InHome))
      /\ Range(PruneFromDir(new, InHome)) = Range(new) \ InHome
  BY <1>1, PruneFromDirProperties
<1>3. Prune(names, readable) = IF readable THEN PruneFromDir(new, InHome) ELSE new
  BY DEF Prune, new
<1> QED BY <1>1, <1>2, <1>3 DEF Available

---------------------------------------------------------------------------
(* FinishedComplete: what a download has got through, at each of its       *)
(* stages.                                                                 *)
(***************************************************************************)

\* A file that download_done need not look at twice.
Arrived(t) == temp[t] = Size \/ t \in short

ListTypeInv ==
  /\ list \in Seq(Remote) /\ IsInjective(list)
  /\ temp \in [Table -> Int]

\* Every table the site offers is still to be reported, or in the list once.
ListingInv ==
  async = "listing" => /\ to_list \cup Range(list) = Remote
                       /\ to_list \cap Range(list) = {}

\* The pruning left out only what is installed.
PrunedInv ==
  async \in {"opening", "reading", "closing", "renaming"} =>
    Remote \subseteq Available \cup Range(list)

\* All files before data->p have arrived.
TransferInv ==
  async \in {"opening", "reading", "closing"} =>
    /\ i \in 1 .. Len(list)
    /\ \A j \in 1 .. Len(list) : j < i => Arrived(list[j])

\* A file closed for another reason than its end is closed by Cancel.
ClosingInv == async = "closing" /\ ~update_cancel_flag => Arrived(list[i])

RenamingInv ==
  async = "renaming" =>
    /\ i \in 1 .. Len(list) + 1
    /\ \A j \in 1 .. Len(list) : j >= i => Arrived(list[j])
    /\ \A j \in 1 .. Len(list) : j < i => list[j] \in Available \cup short

CompleteInv ==
  /\ UpdateInv
  /\ ListTypeInv
  /\ ListingInv
  /\ PrunedInv
  /\ TransferInv
  /\ ClosingInv
  /\ RenamingInv
  /\ FinishedComplete

\* Nothing is owed to a druid that is not downloading.
LEMMA NothingOwed ==
  ASSUME async = "none"
  PROVE  ListingInv /\ PrunedInv /\ TransferInv /\ ClosingInv /\ RenamingInv
BY DEF ListingInv, PrunedInv, TransferInv, ClosingInv, RenamingInv

LEMMA CompleteInit == Init => CompleteInv
<1> SUFFICES ASSUME Init PROVE CompleteInv
  OBVIOUS
<1>1. UpdateInv
  BY UpdateInit
<1>2. ListTypeInv
  BY DEF Init, ListTypeInv, IsInjective, Absent
<1>3. FinishedComplete
  BY DEF Init, FinishedComplete
<1> QED BY <1>1, <1>2, <1>3, NothingOwed DEF Init, CompleteInv

\* An action that gives the download up, or goes on to a page other than the
\* last.
LEMMA Dropped ==
  ASSUME CompleteInv, UNCHANGED <<list, temp>>, async' = "none", page' # "finish"
  PROVE  ListTypeInv' /\ ListingInv' /\ PrunedInv' /\ TransferInv' /\ ClosingInv'
         /\ RenamingInv' /\ FinishedComplete'
BY DEF CompleteInv, ListTypeInv, ListingInv, PrunedInv, TransferInv, ClosingInv,
       RenamingInv, FinishedComplete

\* An action that leaves the download where it is.
LEMMA Undisturbed ==
  ASSUME CompleteInv,
         UNCHANGED <<async, to_list, list, i, temp, home, short>>,
         page' = "finish" => page = "finish",
         async # "none" /\ update_cancel_flag => update_cancel_flag'
  PROVE  ListTypeInv' /\ ListingInv' /\ PrunedInv' /\ TransferInv' /\ ClosingInv'
         /\ RenamingInv' /\ FinishedComplete'
BY DEF CompleteInv, ListTypeInv, ListingInv, PrunedInv, TransferInv, ClosingInv,
       RenamingInv, FinishedComplete, Arrived, Available, InHome

LEMMA ListEntryComplete ==
  ASSUME CompleteInv, NEW t \in Remote, ListEntry(t)
  PROVE  ListTypeInv' /\ ListingInv' /\ PrunedInv' /\ TransferInv' /\ ClosingInv'
         /\ RenamingInv' /\ FinishedComplete'
<1>1. CASE update_cancel_flag
  BY <1>1, Dropped DEF ListEntry, GiveUp, files
<1>2. CASE ~update_cancel_flag
  <2>1. /\ async = "listing" /\ async' = "listing"
        /\ t \in to_list /\ to_list' = to_list \ {t}
        /\ list' = <<t>> \o list
        /\ temp' = temp /\ page' = page
    BY <1>2 DEF ListEntry, files
  <2>2. list \in Seq(Remote) /\ IsInjective(list) /\ temp \in [Table -> Int]
    BY DEF CompleteInv, ListTypeInv
  <2>3. /\ list' \in Seq(Remote)
        /\ Len(list) \in Nat
        /\ DOMAIN list = 1 .. Len(list)
        /\ DOMAIN list' = 1 .. Len(list) + 1
        /\ list'[1] = t
        /\ \A j \in 2 .. Len(list) + 1 : list'[j] = list[j - 1]
    BY <2>1, <2>2
  <2>4. Range(list') = Range(list) \cup {t}
    <3>1. Range(list') \subseteq Range(list) \cup {t}
      BY <2>3 DEF Range
    <3>2. ASSUME NEW x \in Range(list) PROVE x \in Range(list')
      <4>1. PICK j \in 1 .. Len(list) : x = list[j]
        BY <2>3 DEF Range
      <4>2. j + 1 \in 2 .. Len(list) + 1 /\ list'[j + 1] = list[j]
        BY <2>3
      <4> QED BY <2>3, <4>1, <4>2 DEF Range
    <3>3. t \in Range(list')
      BY <2>3 DEF Range
    <3> QED BY <3>1, <3>2, <3>3
  <2>5. t \notin Range(list)
    BY <2>1 DEF CompleteInv, ListingInv
  <2>6. IsInjective(list')
    <3> SUFFICES ASSUME NEW j \in 1 .. Len(list) + 1, NEW k \in 1 .. Len(list) + 1,
                        list'[j] = list'[k]
                 PROVE  j = k
      BY <2>3 DEF IsInjective
    <3>0. ASSUME NEW m \in 2 .. Len(list) + 1 PROVE list'[m] # t
      <4>1. m - 1 \in DOMAIN list /\ list'[m] = list[m - 1]
        BY <2>3
      <4> QED BY <2>5, <4>1 DEF Range
    <3>1. CASE j = 1 \/ k = 1
      BY <2>3, <3>0, <3>1
    <3>2. CASE j # 1 /\ k # 1
      <4>1. list[j - 1] = list[k - 1] /\ j - 1 \in DOMAIN list /\ k - 1 \in DOMAIN list
        BY <2>3, <3>2
      <4>2. j - 1 = k - 1
        BY <2>2, <4>1 DEF IsInjective
      <4> QED BY <4>2
    <3> QED BY <3>1, <3>2
  <2>7. ListTypeInv'
    BY <2>1, <2>2, <2>3, <2>6 DEF ListTypeInv
  <2>8. ListingInv'
    BY <2>1, <2>4, <2>5 DEF CompleteInv, ListingInv
  <2>9. page' # "finish"
    BY <2>1 DEF CompleteInv, UpdateInv, CallbackInv
  <2> QED
    BY <2>1, <2>7, <2>8, <2>9
       DEF PrunedInv, TransferInv, ClosingInv, RenamingInv, FinishedComplete
<1> QED BY <1>1, <1>2

LEMMA ListEndComplete ==
  ASSUME CompleteInv, ListEnd
  PROVE  ListTypeInv' /\ ListingInv' /\ PrunedInv' /\ TransferInv' /\ ClosingInv'
         /\ RenamingInv' /\ FinishedComplete'
<1>1. CASE update_cancel_flag
  BY <1>1, Dropped DEF ListEnd, GiveUp, files
<1>2. CASE ~update_cancel_flag
  <2>1. PICK readable \in BOOLEAN : list' = Prune(list, readable)
    BY <1>2 DEF ListEnd
  <2>2. /\ async = "listing" /\ to_list = {} /\ i' = 1
        /\ IF list' # <<>>
           THEN async' = "opening" /\ page' = page
           ELSE async' = "none" /\ page' = "finish"
        /\ temp' = temp /\ home' = home /\ short' = short
    BY <1>2 DEF ListEnd, Finish, files
  <2>3. list \in Seq(Remote) /\ IsInjective(list) /\ temp \in [Table -> Int]
    BY DEF CompleteInv, ListTypeInv
  <2>4. /\ list' \in Seq(Remote)
        /\ IsInjective(list')
        /\ Range(list) \subseteq Available \cup Range(list')
    BY <2>1, <2>3, PruneProperties
  <2>5. Remote \subseteq Available' \cup Range(list')
    BY <2>2, <2>4 DEF CompleteInv, ListingInv, Available, InHome
  <2>6. ListTypeInv'
    BY <2>2, <2>3, <2>4 DEF ListTypeInv
  <2>7. CASE list' # <<>>
    <3>1. 1 \in 1 .. Len(list')
      BY <2>4, <2>7
    <3>2. page' # "finish"
      BY <2>2, <2>7 DEF CompleteInv, UpdateInv, CallbackInv
    <3> QED
      BY <2>2, <2>5, <2>6, <2>7, <3>1, <3>2
         DEF ListingInv, PrunedInv, TransferInv, ClosingInv, RenamingInv,
             FinishedComplete
  <2>8. CASE list' = <<>>
    <3>1. Range(list') = {}
      BY <2>8 DEF Range
    <3> QED
      BY <2>2, <2>5, <2>6, <2>8, <3>1
         DEF ListingInv, PrunedInv, TransferInv, ClosingInv, RenamingInv,
             FinishedComplete
  <2> QED BY <2>7, <2>8
<1> QED BY <1>1, <1>2

\* An action of the transfer, which writes at most the file it is at.
LEMMA TransferComplete ==
  ASSUME CompleteInv,
         async \in {"opening", "reading"}, async' \in {"reading", "closing"},
         UNCHANGED <<page, update_cancel_flag, list, i, home>>,
         short \subseteq short',
         NEW b \in Int, temp' = temp \/ temp' = [temp EXCEPT ![list[i]] = b],
         async' = "closing" /\ ~update_cancel_flag => Arrived(list[i])'
  PROVE  ListTypeInv' /\ ListingInv' /\ PrunedInv' /\ TransferInv' /\ ClosingInv'
         /\ RenamingInv' /\ FinishedComplete'
<1>1. /\ list \in Seq(Remote) /\ IsInjective(list)
      /\ temp \in [Table -> Int]
      /\ Len(list) \in Nat /\ DOMAIN list = 1 .. Len(list)
      /\ i \in 1 .. Len(list)
      /\ \A j \in 1 .. Len(list) : j < i => Arrived(list[j])
  BY DEF CompleteInv, ListTypeInv, TransferInv
<1>2. temp' \in [Table -> Int]
  BY <1>1
<1>3. ASSUME NEW j \in 1 .. Len(list), j < i PROVE Arrived(list[j])'
  <2>1. list[j] # list[i]
    BY <1>1, <1>3 DEF IsInjective
  <2>2. list[j] \in Table /\ list[i] \in Table
    BY <1>1, UpdateAssumption
  <2>3. temp'[list[j]] = temp[list[j]]
    BY <1>1, <2>1, <2>2
  <2> QED BY <1>1, <1>3, <2>3 DEF Arrived
<1>4. PrunedInv'
  BY DEF CompleteInv, PrunedInv, Available, InHome
<1>5. page' # "finish"
  BY DEF CompleteInv, UpdateInv, CallbackInv
<1> QED
  BY <1>1, <1>2, <1>3, <1>4, <1>5
     DEF ListTypeInv, ListingInv, TransferInv, ClosingInv, RenamingInv,
         FinishedComplete

\* Only Cancel has a file closed before its end.
LEMMA TransferSteps ==
  ASSUME CompleteInv, OpenOk \/ ReadBlock \/ ReadEnd \/ OpenError \/ ReadError
  PROVE  ListTypeInv' /\ ListingInv' /\ PrunedInv' /\ TransferInv' /\ ClosingInv'
         /\ RenamingInv' /\ FinishedComplete'
<1>1. page # "finish" \/ async = "none"
  BY DEF CompleteInv, UpdateInv, CallbackInv
<1>2. async \in {"opening", "reading"}
  BY DEF OpenOk, ReadBlock, ReadEnd, OpenError, ReadError
<1>3. /\ list[i] \in Table
      /\ temp[list[i]] \in Int
      /\ temp \in [Table -> Int]
  BY <1>2, UpdateAssumption DEF CompleteInv, ListTypeInv, TransferInv
<1>4. CASE OpenOk
  BY <1>2, <1>4, TransferComplete DEF OpenOk, bounds
<1>5. CASE ReadBlock
  <2>1. ~update_cancel_flag => async' = "reading"
    BY <1>5 DEF ReadBlock
  <2>2. temp' = temp \/ temp' = [temp EXCEPT ![list[i]] = temp[list[i]] + 1]
    BY <1>5 DEF ReadBlock
  <2>3. temp[list[i]] + 1 \in Int
    BY <1>3
  <2> QED BY <1>2, <1>5, <2>1, <2>2, <2>3, TransferComplete DEF ReadBlock
<1>6. CASE ReadEnd
  <2>1. Arrived(list[i])'
    BY <1>3, <1>6 DEF ReadEnd, Arrived, files
  <2> QED BY <1>2, <1>6, <2>1, TransferComplete DEF ReadEnd, files
<1>7. CASE OpenError \/ ReadError
  <2>1. CASE update_cancel_flag
    <3>1. /\ async' = "closing"
          /\ UNCHANGED <<page, update_cancel_flag, list, i, home, temp, short>>
      BY <1>7, <2>1 DEF OpenError, ReadError, files
    <3> QED BY <1>2, <2>1, <3>1, TransferComplete
  <2>2. CASE ~update_cancel_flag
    <3>1. async' = "none" /\ UNCHANGED <<page, list, temp>>
      BY <1>7, <2>2 DEF OpenError, ReadError, files
    <3> QED BY <1>1, <1>2, <3>1, Dropped
  <2> QED BY <2>1, <2>2
<1> QED BY <1>4, <1>5, <1>6, <1>7

LEMMA CloseDoneComplete ==
  ASSUME CompleteInv, CloseDone
  PROVE  ListTypeInv' /\ ListingInv' /\ PrunedInv' /\ TransferInv' /\ ClosingInv'
         /\ RenamingInv' /\ FinishedComplete'
<1>1. CASE update_cancel_flag
  BY <1>1, Dropped DEF CloseDone, GiveUp, files
<1>2. CASE ~update_cancel_flag
  <2>1. /\ async = "closing"
        /\ IF i < Len(list) THEN i' = i + 1 /\ async' = "opening"
                            ELSE i' = 1 /\ async' = "renaming"
        /\ UNCHANGED <<page, list, temp, home, short>>
    BY <1>2 DEF CloseDone, files
  <2>2. /\ Len(list) \in Nat
        /\ i \in 1 .. Len(list)
        /\ \A j \in 1 .. Len(list) : j <= i => Arrived(list[j])
    BY <1>2, <2>1 DEF CompleteInv, ListTypeInv, TransferInv, ClosingInv
  <2>3. \A j \in 1 .. Len(list) : j <= i => Arrived(list[j])'
    BY <2>1, <2>2 DEF Arrived
  <2>4. ListTypeInv' /\ PrunedInv'
    BY <2>1 DEF CompleteInv, ListTypeInv, PrunedInv, Available, InHome
  <2>5. page' # "finish"
    BY <2>1 DEF CompleteInv, UpdateInv, CallbackInv
  <2> QED
    BY <2>1, <2>2, <2>3, <2>4, <2>5
       DEF ListingInv, TransferInv, ClosingInv, RenamingInv, FinishedComplete
<1> QED BY <1>1, <1>2

LEMMA RenameFileComplete ==
  ASSUME CompleteInv, RenameFile
  PROVE  ListTypeInv' /\ ListingInv' /\ PrunedInv' /\ TransferInv' /\ ClosingInv'
         /\ RenamingInv' /\ FinishedComplete'
<1>1. /\ async = "renaming" /\ async' = "renaming"
      /\ i <= Len(list) /\ i' = i + 1
      /\ temp' = [temp EXCEPT ![list[i]] = Absent]
      /\ IF temp[list[i]] = Size THEN home' = [home EXCEPT ![list[i]] = Size]
                                 ELSE home' = home
      /\ UNCHANGED <<page, list, short>>
  BY DEF RenameFile
<1>2. /\ list \in Seq(Remote) /\ IsInjective(list)
      /\ temp \in [Table -> Int] /\ home \in [Table -> {Absent, Size}]
      /\ Len(list) \in Nat /\ DOMAIN list = 1 .. Len(list)
      /\ i \in 1 .. Len(list)
      /\ \A j \in 1 .. Len(list) : j >= i => Arrived(list[j])
      /\ \A j \in 1 .. Len(list) : j < i => list[j] \in Available \cup short
  BY <1>1 DEF CompleteInv, ListTypeInv, UpdateInv, HomeInv, RenamingInv
<1>3. \A j \in 1 .. Len(list) : list[j] \in Table
  BY <1>2, UpdateAssumption
<1>4. Size # Absent
  BY UpdateAssumption DEF Absent
<1>5. Available \subseteq Available'
  BY <1>1, <1>2, <1>3, <1>4 DEF Available, InHome
<1>6. list[i] \in Available' \cup short
  <2>1. CASE temp[list[i]] = Size
    BY <1>1, <1>2, <1>3, <1>4, <2>1 DEF Available, InHome
  <2>2. CASE temp[list[i]] # Size
    BY <1>2, <2>2 DEF Arrived
  <2> QED BY <2>1, <2>2
<1>7. ASSUME NEW j \in 1 .. Len(list), j > i PROVE Arrived(list[j])'
  <2>1. list[j] # list[i]
    BY <1>2, <1>7 DEF IsInjective
  <2>2. temp'[list[j]] = temp[list[j]]
    BY <1>1, <1>2, <1>3, <2>1
  <2> QED BY <1>1, <1>2, <1>7, <2>2 DEF Arrived
<1>8. RenamingInv'
  <2>1. \A j \in 1 .. Len(list) : j < i' => list[j] \in Available' \cup short
    BY <1>1, <1>2, <1>5, <1>6
  <2>2. \A j \in 1 .. Len(list) : j >= i' => Arrived(list[j])'
    BY <1>1, <1>2, <1>7
  <2>3. i' \in 1 .. Len(list) + 1
    BY <1>1, <1>2
  <2> QED BY <1>1, <2>1, <2>2, <2>3 DEF RenamingInv
<1>9. PrunedInv'
  BY <1>1, <1>5 DEF CompleteInv, PrunedInv
<1>10. ListTypeInv'
  <2>1. Absent \in Int
    BY DEF Absent
  <2>2. temp' \in [Table -> Int]
    BY <1>1, <1>2, <2>1
  <2> QED BY <1>1, <1>2, <2>2 DEF ListTypeInv
<1>11. page' # "finish"
  BY <1>1 DEF CompleteInv, UpdateInv, CallbackInv
<1> QED
  BY <1>1, <1>8, <1>9, <1>10, <1>11
     DEF ListingInv, TransferInv, ClosingInv, FinishedComplete

LEMMA DownloadDoneComplete ==
  ASSUME CompleteInv, DownloadDone
  PROVE  ListTypeInv' /\ ListingInv' /\ PrunedInv' /\ TransferInv' /\ ClosingInv'
         /\ RenamingInv' /\ FinishedComplete'
<1>1. /\ async = "renaming" /\ async' = "none" /\ i > Len(list)
      /\ UNCHANGED <<list, temp, home, short>>
  BY DEF DownloadDone, Finish
<1>2. /\ Len(list) \in Nat /\ DOMAIN list = 1 .. Len(list)
      /\ i \in 1 .. Len(list) + 1
      /\ \A j \in 1 .. Len(list) : j < i => list[j] \in Available \cup short
      /\ Remote \subseteq Available \cup Range(list)
  BY <1>1 DEF CompleteInv, ListTypeInv, RenamingInv, PrunedInv
<1>3. Range(list) \subseteq Available \cup short
  BY <1>1, <1>2 DEF Range
<1>4. FinishedComplete'
  BY <1>1, <1>2, <1>3 DEF FinishedComplete, Available, InHome
<1>5. ListTypeInv'
  BY <1>1 DEF CompleteInv, ListTypeInv
<1> QED
  BY <1>1, <1>4, <1>5
     DEF ListingInv, PrunedInv, TransferInv, ClosingInv, RenamingInv

LEMMA CompleteStep == CompleteInv /\ [Next]_vars => CompleteInv'
<1> SUFFICES ASSUME CompleteInv, [Next]_vars
             PROVE  /\ ListTypeInv' /\ ListingInv' /\ PrunedInv' /\ TransferInv'
                    /\ ClosingInv' /\ RenamingInv' /\ FinishedComplete'
  BY UpdateStep DEF CompleteInv
<1>1. CASE UpdateDruid
  <2>1. async' = "none" /\ page' # "finish" /\ UNCHANGED <<list, temp>>
    BY <1>1 DEF UpdateDruid, files, CompleteInv, UpdateInv, CallbackInv
  <2> QED BY <2>1, Dropped
<1>2. CASE StartListing
  <2>1. /\ async' = "listing" /\ page' = "downloading"
        /\ to_list' = Remote /\ list' = <<>> /\ temp' = temp
    BY <1>2 DEF StartListing, files
  <2>2. Range(<<>>) = {} /\ IsInjective(<<>>) /\ <<>> \in Seq(Remote)
    BY DEF Range, IsInjective
  <2> QED
    BY <2>1, <2>2
       DEF CompleteInv, ListTypeInv, ListingInv, PrunedInv, TransferInv,
           ClosingInv, RenamingInv, FinishedComplete
<1>3. CASE Callback
  <2>1. CASE ListError
    <3>1. async' = "none" /\ page' # "finish" /\ UNCHANGED <<list, temp>>
      BY <2>1 DEF ListError, GiveUp, files, CompleteInv, UpdateInv, CallbackInv
    <3> QED BY <3>1, Dropped
  <2>2. ASSUME NEW t \in Remote, ListEntry(t)
        PROVE  /\ ListTypeInv' /\ ListingInv' /\ PrunedInv' /\ TransferInv'
               /\ ClosingInv' /\ RenamingInv' /\ FinishedComplete'
    BY <2>2, ListEntryComplete
  <2>3. CASE ListEnd
    BY <2>3, ListEndComplete
  <2>4. CASE OpenOk \/ ReadBlock \/ ReadEnd \/ OpenError \/ ReadError
    BY <2>4, TransferSteps
  <2>5. CASE CloseDone
    BY <2>5, CloseDoneComplete
  <2>6. CASE RenameFile
    BY <2>6, RenameFileComplete
  <2>7. CASE DownloadDone
    BY <2>7, DownloadDoneComplete
  <2> QED
    BY <1>3, <2>1, <2>2, <2>3, <2>4, <2>5, <2>6, <2>7 DEF Callback
<1>4. CASE Cancel
  <2>1. /\ UNCHANGED <<async, to_list, list, i, temp, home, short>>
        /\ page' = "finish" => page = "finish"
        /\ update_cancel_flag => update_cancel_flag'
    BY <1>4 DEF Cancel, files
  <2> QED BY <2>1, Undisturbed
<1>5. CASE FinishPressed
  <2>1. async' = "none" /\ page' # "finish" /\ UNCHANGED <<list, temp>>
    BY <1>5 DEF FinishPressed, files, CompleteInv, UpdateInv, CallbackInv
  <2> QED BY <2>1, Dropped
<1>6. CASE Crash
  BY <1>6, Dropped DEF Crash
<1>7. CASE UNCHANGED vars
  BY <1>7, Undisturbed DEF vars
<1> QED
  BY <1>1, <1>2, <1>3, <1>4, <1>5, <1>6, <1>7 DEF Next

\* A finished download leaves nothing the site offers uninstalled but for what
\* did not arrive whole (update.c, prune_list_from_dir, download_files and
\* download_done).
THEOREM AlwaysFinishedComplete == Spec => []FinishedComplete
<1>1. CompleteInv => FinishedComplete
  BY DEF CompleteInv
<1> QED BY CompleteInit, CompleteStep, <1>1, PTL DEF Spec

---------------------------------------------------------------------------
(* TypeOK, of which CompleteInv has what concerns the list.                *)
(***************************************************************************)

TypeInv == TypeOK /\ CompleteInv

\* Where a transfer is, and what it writes to.
LEMMA AtFile ==
  ASSUME TypeInv, async \in {"opening", "reading", "closing", "renaming"},
         async = "renaming" => i <= Len(list)
  PROVE  i \in 1 .. Len(list) /\ list[i] \in Remote /\ temp[list[i]] \in Lengths
<1>1. list \in Seq(Remote) /\ temp \in [Table -> Lengths]
  BY DEF TypeInv, TypeOK
<1>2. i \in 1 .. Len(list)
  BY <1>1 DEF TypeInv, CompleteInv, TransferInv, RenamingInv
<1>3. list[i] \in Remote
  BY <1>1, <1>2
<1> QED BY <1>1, <1>2, <1>3, UpdateAssumption

\* What is not in CompleteInv'.
Rest ==
  /\ page \in {"none", "start", "downloading", "finish"}
  /\ async \in {"none", "listing", "opening", "reading", "closing", "renaming"}
  /\ remote_dir_handle \in BOOLEAN
  /\ update_cancel_flag \in BOOLEAN
  /\ to_list \subseteq Remote
  /\ i \in Nat \ {0}
  /\ temp \in [Table -> Lengths]
  /\ loaded \subseteq Table
  /\ short \subseteq Remote
  /\ errors \in 0 .. MaxError /\ shorts \in 0 .. MaxShort /\ crashes \in 0 .. MaxCrash
  /\ unreads \in 0 .. MaxUnread

LEMMA RestEnough == ASSUME CompleteInv, Rest PROVE TypeOK
<1>1. home \in [Table -> Lengths]
  BY UpdateAssumption DEF CompleteInv, UpdateInv, HomeInv, Lengths
<1>2. list \in Seq(Remote) /\ IsInjective(list)
  BY DEF CompleteInv, ListTypeInv
<1>3. async \in {"opening", "reading", "closing"} => i \in DOMAIN list
  BY <1>2 DEF CompleteInv, TransferInv
<1> QED BY <1>1, <1>2, <1>3 DEF Rest, TypeOK

LEMMA TypeInit == Init => TypeInv
<1> SUFFICES ASSUME Init PROVE TypeInv
  OBVIOUS
<1>1. CompleteInv
  BY CompleteInit
<1>2. temp \in [Table -> Lengths]
  BY DEF Init, Lengths
<1>3. /\ Installed \subseteq Table
      /\ 0 \in 0 .. MaxError /\ 0 \in 0 .. MaxShort /\ 0 \in 0 .. MaxCrash
      /\ 0 \in 0 .. MaxUnread
  BY UpdateAssumption
<1>4. /\ page = "none" /\ async = "none"
      /\ remote_dir_handle \in BOOLEAN /\ update_cancel_flag \in BOOLEAN
      /\ to_list = {} /\ i = 1 /\ loaded = Installed /\ short = {}
      /\ errors = 0 /\ shorts = 0 /\ crashes = 0 /\ unreads = 0
  BY DEF Init
<1>5. Rest
  BY <1>2, <1>3, <1>4 DEF Rest
<1> QED BY <1>1, <1>5, RestEnough DEF TypeInv

LEMMA LoadedTables ==
  ASSUME TypeInv, ReadTables
  PROVE  loaded' \subseteq Table /\ unreads' \in 0 .. MaxUnread
<1>1. PICK readable \in BOOLEAN :
        /\ readable \/ unreads < MaxUnread
        /\ loaded' = Update(Installed, InHome, readable)
        /\ unreads' = IF readable THEN unreads ELSE unreads + 1
  BY DEF ReadTables
<1>2. loaded' \subseteq Table
  BY <1>1, UpdateAssumption DEF Update, InHome
<1>3. unreads' \in 0 .. MaxUnread
  BY <1>1, UpdateAssumption DEF TypeInv, TypeOK
<1> QED BY <1>2, <1>3

LEMMA CallbackTyped == ASSUME TypeInv, Callback PROVE Rest'
<1>0. Rest
  BY DEF TypeInv, TypeOK, Rest
<1>1. ASSUME NEW t \in Remote, ListEntry(t) PROVE Rest'
  BY <1>0, <1>1 DEF Rest, ListEntry, GiveUp, files, bounds
<1>2. CASE ListEnd
  <2>1. /\ UNCHANGED <<update_cancel_flag, to_list, temp, loaded, short,
                        errors, shorts, crashes, unreads>>
        /\ i' \in {i, 1}
    BY <1>2 DEF ListEnd, files, bounds
  <2>2. /\ page' \in {page, "none", "finish"}
        /\ async' \in {"none", "opening"}
    BY <1>2 DEF ListEnd, GiveUp, Finish
  <2>3. remote_dir_handle' \in BOOLEAN
    BY <1>0, <1>2 DEF Rest, ListEnd, Finish
  <2> QED BY <1>0, <2>1, <2>2, <2>3 DEF Rest
<1>3. CASE ListError
  BY <1>0, <1>3, UpdateAssumption DEF Rest, ListError, GiveUp, files
<1>4. CASE OpenOk
  <2>1. 0 \in Lengths
    BY UpdateAssumption DEF Lengths
  <2>2. temp' \in [Table -> Lengths]
    BY <1>0, <1>4, <2>1 DEF Rest, OpenOk
  <2> QED BY <1>0, <1>4, <2>2 DEF Rest, OpenOk, bounds
<1>5. CASE OpenError
  BY <1>0, <1>5, UpdateAssumption DEF Rest, OpenError, files
<1>6. CASE ReadBlock
  <2>1. list[i] \in Remote /\ temp[list[i]] \in Lengths
    BY <1>6, AtFile DEF ReadBlock
  <2>2. temp[list[i]] < Size
    BY <1>6, <2>1, UpdateAssumption DEF ReadBlock, Lengths, Absent
  <2>3. temp[list[i]] + 1 \in Lengths
    BY <2>1, <2>2, UpdateAssumption DEF Lengths, Absent
  <2>4. temp' \in [Table -> Lengths]
    BY <1>0, <1>6, <2>3 DEF Rest, ReadBlock
  <2>5. short' \subseteq Remote /\ shorts' \in 0 .. MaxShort
    BY <1>0, <1>6, <2>1, UpdateAssumption DEF Rest, ReadBlock
  <2>6. async' \in {"reading", "closing"}
    BY <1>6 DEF ReadBlock
  <2> QED BY <1>0, <1>6, <2>4, <2>5, <2>6 DEF Rest, ReadBlock
<1>7. CASE ReadEnd
  <2>1. list[i] \in Remote
    BY <1>7, AtFile DEF ReadEnd
  <2>2. short' \subseteq Remote /\ shorts' \in 0 .. MaxShort
    BY <1>0, <1>7, <2>1, UpdateAssumption DEF Rest, ReadEnd
  <2> QED BY <1>0, <1>7, <2>2 DEF Rest, ReadEnd, files
<1>8. CASE ReadError
  BY <1>0, <1>8, UpdateAssumption DEF Rest, ReadError, files
<1>9. CASE CloseDone
  BY <1>0, <1>9 DEF Rest, CloseDone, GiveUp, files, bounds
<1>10. CASE RenameFile
  <2>1. Absent \in Lengths
    BY DEF Lengths
  <2>2. temp' \in [Table -> Lengths]
    BY <1>0, <1>10, <2>1 DEF Rest, RenameFile
  <2> QED BY <1>0, <1>10, <2>2 DEF Rest, RenameFile, bounds
<1>11. CASE DownloadDone
  BY <1>0, <1>11, LoadedTables DEF Rest, DownloadDone, Finish
<1> QED
  BY <1>1, <1>2, <1>3, <1>4, <1>5, <1>6, <1>7, <1>8, <1>9, <1>10, <1>11
     DEF Callback

LEMMA TypeStep == TypeInv /\ [Next]_vars => TypeInv'
<1> SUFFICES ASSUME TypeInv, [Next]_vars PROVE TypeInv'
  OBVIOUS
<1>0. Rest
  BY DEF TypeInv, TypeOK, Rest
<1>1. Rest'
  <2>1. CASE UpdateDruid
    BY <1>0, <2>1 DEF Rest, UpdateDruid, files, bounds
  <2>2. CASE StartListing
    BY <1>0, <2>2 DEF Rest, StartListing, files, bounds
  <2>3. CASE Callback
    BY <2>3, CallbackTyped
  <2>4. CASE Cancel
    BY <1>0, <2>4 DEF Rest, Cancel, files, bounds
  <2>5. CASE FinishPressed
    BY <1>0, <2>5 DEF Rest, FinishPressed, files, bounds
  <2>6. CASE Crash
    <3>1. loaded' \subseteq Table
      BY <2>6, UpdateAssumption DEF Crash, Update, InHome
    <3>2. crashes' \in 0 .. MaxCrash
      BY <1>0, <2>6, UpdateAssumption DEF Rest, Crash
    <3> QED BY <1>0, <2>6, <3>1, <3>2 DEF Rest, Crash
  <2>7. CASE UNCHANGED vars
    BY <1>0, <2>7 DEF Rest, vars
  <2> QED
    BY <2>1, <2>2, <2>3, <2>4, <2>5, <2>6, <2>7 DEF Next
<1>2. CompleteInv'
  BY CompleteStep DEF TypeInv
<1>3. TypeOK'
  BY <1>1, <1>2, RestEnough, PTL
<1> QED BY <1>2, <1>3 DEF TypeInv

\* Every variable keeps its type, and a transfer is always at a file of the
\* list (update.c, close_remote_file_callback).
THEOREM UpdateTypeCorrect == Spec => []TypeOK
<1>1. TypeInv => TypeOK
  BY DEF TypeInv
<1> QED BY TypeInit, TypeStep, <1>1, PTL DEF Spec

---------------------------------------------------------------------------
(* What DownloadEnds and CancelIsSeen rest on, but for the fairness of     *)
(* gnome-vfs.                                                              *)
(***************************************************************************)

\* How much of a download is left: its stage, the files of that stage, the legs
\* of a file's transfer, and the blocks of the file being read.
Stage ==
  CASE async = "listing" -> 3
    [] async \in {"opening", "reading", "closing"} -> 2
    [] async = "renaming" -> 1
    [] OTHER -> 0

FilesLeft ==
  CASE async = "listing" -> Cardinality(to_list)
    [] async = "none" -> 0
    [] OTHER -> Len(list) + 1 - i

Leg == CASE async = "opening" -> 2 [] async = "reading" -> 1 [] OTHER -> 0

Missed(t) == IF t \in short THEN 1 ELSE 0
BlocksLeft ==
  IF async = "reading" THEN Size - temp[list[i]] - Missed(list[i]) ELSE 0

LessWork ==
  \/ Stage' < Stage
  \/ Stage' = Stage /\ FilesLeft' < FilesLeft
  \/ Stage' = Stage /\ FilesLeft' = FilesLeft /\ Leg' < Leg
  \/ Stage' = Stage /\ FilesLeft' = FilesLeft /\ Leg' = Leg /\ BlocksLeft' < BlocksLeft

\* Every callback lessens what is left.
DownloadNearer == [][Callback => LessWork]_vars

\* What is left is counted in natural numbers.
WorkCounts == Stage \in Nat /\ FilesLeft \in Nat /\ Leg \in Nat /\ BlocksLeft \in Nat

\* A druid that waits with no answer to come has met an error.
QuietAfterError == page = "downloading" /\ async = "none" => errors > 0

\* The last step of a download that was cancelled closes its window.
CancelEnds == update_cancel_flag /\ async # "none" /\ async' = "none" => page' = "none"

\* A read never passes the end of a file, and no renaming has been cancelled.
EndInv ==
  /\ TypeInv
  /\ async = "reading" =>
       temp[list[i]] \in Nat /\ temp[list[i]] + Missed(list[i]) <= Size
  /\ update_cancel_flag => async # "renaming"
  /\ QuietAfterError

\* Either ReadBlock or ReadEnd is possible, as are the answers at other stages.
LEMMA WorkNatural == ASSUME EndInv PROVE WorkCounts
<1>1. Stage \in Nat /\ Leg \in Nat
  BY DEF Stage, Leg
<1>2. FilesLeft \in Nat
  <2>1. CASE async = "listing"
    <3>1. IsFiniteSet(to_list)
      BY UpdateAssumption, FS_Subset DEF EndInv, TypeInv, TypeOK
    <3> QED BY <2>1, <3>1, FS_CardinalityType DEF FilesLeft
  <2>2. CASE async \in {"opening", "reading", "closing", "renaming"}
    <3>1. Len(list) \in Nat /\ i \in 1 .. Len(list) + 1
      BY <2>2 DEF EndInv, TypeInv, CompleteInv, ListTypeInv, TransferInv, RenamingInv
    <3> QED BY <2>2, <3>1 DEF FilesLeft
  <2>3. CASE async = "none"
    BY <2>3 DEF FilesLeft
  <2> QED BY <2>1, <2>2, <2>3 DEF EndInv, TypeInv, TypeOK
<1>3. BlocksLeft \in Nat
  BY UpdateAssumption DEF EndInv, BlocksLeft, Missed
<1> QED BY <1>1, <1>2, <1>3 DEF WorkCounts

\* The two outcomes of a read.
LEMMA BlockRead ==
  ASSUME EndInv, ReadBlock, ~update_cancel_flag
  PROVE  /\ temp'[list[i]] \in Nat
         /\ temp'[list[i]] + Missed(list[i])' = temp[list[i]] + Missed(list[i]) + 1
         /\ temp[list[i]] + Missed(list[i]) < Size
         /\ temp[list[i]] \in Nat /\ Missed(list[i]) \in Nat /\ Missed(list[i])' \in Nat
<1>1. async = "reading" /\ temp[list[i]] + Missed(list[i]) < Size
  BY DEF ReadBlock, Missed
<1>2. list[i] \in Table /\ temp \in [Table -> Lengths] /\ temp[list[i]] \in Nat
  BY <1>1, AtFile, UpdateAssumption DEF EndInv, TypeInv, TypeOK
<1>3. CASE temp' = [temp EXCEPT ![list[i]] = temp[list[i]] + 1] /\ UNCHANGED short
  BY <1>1, <1>2, <1>3 DEF ReadBlock, Missed
<1>4. CASE list[i] \notin short /\ short' = short \cup {list[i]} /\ UNCHANGED temp
  BY <1>1, <1>2, <1>4 DEF ReadBlock, Missed
<1> QED BY <1>3, <1>4 DEF ReadBlock

LEMMA CallbackLessens == ASSUME EndInv, Callback PROVE LessWork
<1>0. /\ Len(list) \in Nat /\ i \in Nat
      /\ async \in {"none", "listing", "opening", "reading", "closing", "renaming"}
  BY DEF EndInv, TypeInv, TypeOK
<1>1. ASSUME NEW t \in Remote, ListEntry(t) PROVE LessWork
  <2>1. CASE update_cancel_flag
    BY <1>1, <2>1 DEF ListEntry, GiveUp, LessWork, Stage
  <2>2. CASE ~update_cancel_flag
    <3>1. async = "listing" /\ async' = "listing" /\ t \in to_list /\ to_list' = to_list \ {t}
      BY <1>1, <2>2 DEF ListEntry
    <3>2. IsFiniteSet(to_list)
      BY UpdateAssumption, FS_Subset DEF EndInv, TypeInv, TypeOK
    <3>3. Cardinality(to_list') = Cardinality(to_list) - 1 /\ Cardinality(to_list) \in Nat
      BY <3>1, <3>2, FS_RemoveElement, FS_CardinalityType
    <3> QED BY <3>1, <3>3 DEF LessWork, Stage, FilesLeft
  <2> QED BY <2>1, <2>2
<1>2. CASE ListEnd
  <2>1. async = "listing" /\ async' \in {"none", "opening"}
    BY <1>2 DEF ListEnd, GiveUp, Finish
  <2> QED BY <2>1 DEF LessWork, Stage
<1>3. CASE ListError
  <2>1. async = "listing" /\ async' = "none"
    BY <1>3 DEF ListError, GiveUp
  <2> QED BY <2>1 DEF LessWork, Stage
<1>4. CASE OpenOk \/ OpenError
  <2>1. async = "opening" /\ async' \in {"reading", "closing", "none"} /\ UNCHANGED <<list, i>>
    BY <1>4 DEF OpenOk, OpenError
  <2> QED BY <1>0, <2>1 DEF LessWork, Stage, FilesLeft, Leg
<1>5. CASE ReadBlock /\ ~update_cancel_flag
  <2>1. async = "reading" /\ async' = "reading" /\ UNCHANGED <<list, i>>
    BY <1>5 DEF ReadBlock
  <2>2. /\ BlocksLeft = Size - temp[list[i]] - Missed(list[i])
        /\ BlocksLeft' = Size - temp'[list[i]] - Missed(list[i])'
    BY <2>1 DEF BlocksLeft
  <2>3. Size \in Nat
    BY UpdateAssumption
  <2>4. BlocksLeft' < BlocksLeft
    BY <1>5, <2>2, <2>3, BlockRead
  <2> QED BY <1>0, <2>1, <2>4 DEF LessWork, Stage, FilesLeft, Leg
<1>6. CASE (ReadBlock /\ update_cancel_flag) \/ ReadEnd \/ ReadError
  <2>1. async = "reading" /\ async' \in {"closing", "none"} /\ UNCHANGED <<list, i>>
    BY <1>6 DEF ReadBlock, ReadEnd, ReadError
  <2> QED BY <1>0, <2>1 DEF LessWork, Stage, FilesLeft, Leg
<1>7. CASE CloseDone
  <2>1. CASE update_cancel_flag
    BY <1>7, <2>1 DEF CloseDone, GiveUp, LessWork, Stage
  <2>2. CASE ~update_cancel_flag /\ i < Len(list)
    <3>1. async = "closing" /\ async' = "opening" /\ i' = i + 1 /\ list' = list
      BY <1>7, <2>2 DEF CloseDone
    <3> QED BY <1>0, <3>1 DEF LessWork, Stage, FilesLeft
  <2>3. CASE ~update_cancel_flag /\ ~(i < Len(list))
    <3>1. async = "closing" /\ async' = "renaming"
      BY <1>7, <2>3 DEF CloseDone
    <3> QED BY <3>1 DEF LessWork, Stage
  <2> QED BY <2>1, <2>2, <2>3
<1>8. CASE RenameFile
  <2>1. async = "renaming" /\ async' = "renaming" /\ i' = i + 1 /\ list' = list
    BY <1>8 DEF RenameFile
  <2> QED BY <1>0, <2>1 DEF LessWork, Stage, FilesLeft
<1>9. CASE DownloadDone
  <2>1. async = "renaming" /\ async' = "none"
    BY <1>9 DEF DownloadDone, Finish
  <2> QED BY <2>1 DEF LessWork, Stage
<1> QED BY <1>1, <1>2, <1>3, <1>4, <1>5, <1>6, <1>7, <1>8, <1>9 DEF Callback

\* The parts of EndInv that are not in TypeInv.
ReadingInv ==
  async = "reading" =>
    temp[list[i]] \in Nat /\ temp[list[i]] + Missed(list[i]) <= Size
NotCancelled == update_cancel_flag => async # "renaming"

LEMMA EndInit == Init => EndInv
  BY TypeInit DEF Init, EndInv, QuietAfterError

\* A step that reads nothing.
LEMMA NoRead == ASSUME async' # "reading" PROVE ReadingInv'
  BY DEF ReadingInv

LEMMA EndCallback ==
  ASSUME EndInv, Callback
  PROVE  ReadingInv' /\ NotCancelled' /\ QuietAfterError'
<1>0. /\ errors \in Nat
      /\ async # "none" => page = "downloading"
      /\ update_cancel_flag => async # "renaming"
  BY UpdateAssumption DEF EndInv, TypeInv, TypeOK, CompleteInv, UpdateInv, CallbackInv
<1>1. CASE (\E t \in Remote : ListEntry(t)) \/ ListEnd
  <2>1. /\ async' \in {"listing", "none", "opening"}
        /\ async' = "none" => page' \in {"none", "finish"}
    BY <1>1 DEF ListEntry, ListEnd, GiveUp, Finish
  <2> QED BY <2>1, NoRead DEF NotCancelled, QuietAfterError
<1>2. CASE ListError \/ OpenError \/ ReadError
  <2>1. async' \in {"none", "closing"} /\ errors' = errors + 1
    BY <1>2 DEF ListError, OpenError, ReadError, GiveUp
  <2> QED BY <1>0, <2>1, NoRead DEF NotCancelled, QuietAfterError
<1>3. CASE OpenOk /\ ~update_cancel_flag
  <2>1. /\ async = "opening" /\ async' = "reading"
        /\ UNCHANGED <<list, i>>
        /\ temp' = [temp EXCEPT ![list[i]] = 0]
    BY <1>3 DEF OpenOk
  <2>2. list[i] \in Table /\ temp \in [Table -> Lengths]
    BY <2>1, AtFile, UpdateAssumption DEF EndInv, TypeInv, TypeOK
  <2>3. temp'[list'[i']] = 0
    BY <2>1, <2>2
  <2>4. Missed(list[i])' \in {0, 1}
    BY DEF Missed
  <2>5. ReadingInv'
    BY <2>3, <2>4, UpdateAssumption DEF ReadingInv
  <2> QED BY <2>1, <2>5 DEF NotCancelled, QuietAfterError
<1>4. CASE ReadBlock /\ ~update_cancel_flag
  <2>1. async' = "reading" /\ UNCHANGED <<list, i>>
    BY <1>4 DEF ReadBlock
  <2>2. temp'[list[i]] \in Nat /\ temp'[list[i]] + Missed(list[i])' <= Size
    BY <1>4, BlockRead, UpdateAssumption
  <2>3. ReadingInv'
    BY <2>1, <2>2 DEF ReadingInv
  <2> QED BY <2>1, <2>3 DEF NotCancelled, QuietAfterError
<1>5. CASE ((OpenOk \/ ReadBlock) /\ update_cancel_flag) \/ ReadEnd
  <2>1. async' = "closing"
    BY <1>5 DEF OpenOk, ReadBlock, ReadEnd
  <2> QED BY <2>1, NoRead DEF NotCancelled, QuietAfterError
<1>6. CASE CloseDone
  <2>1. /\ async' \in {"none", "opening", "renaming"}
        /\ update_cancel_flag' = update_cancel_flag
        /\ update_cancel_flag => async' = "none" /\ page' = "none"
        /\ ~update_cancel_flag => async' # "none"
    BY <1>6 DEF CloseDone, GiveUp
  <2> QED BY <2>1, NoRead DEF NotCancelled, QuietAfterError
<1>7. CASE RenameFile
  <2>1. async = "renaming" /\ async' = "renaming" /\ update_cancel_flag' = update_cancel_flag
    BY <1>7 DEF RenameFile
  <2> QED BY <1>0, <2>1, NoRead DEF NotCancelled, QuietAfterError
<1>8. CASE DownloadDone
  <2>1. async' = "none" /\ page' = "finish"
    BY <1>8 DEF DownloadDone, Finish
  <2> QED BY <2>1, NoRead DEF NotCancelled, QuietAfterError
<1> QED
  BY <1>1, <1>2, <1>3, <1>4, <1>5, <1>6, <1>7, <1>8 DEF Callback

LEMMA EndStep == EndInv /\ [Next]_vars => EndInv'
<1> SUFFICES ASSUME EndInv, [Next]_vars PROVE EndInv'
  OBVIOUS
<1>0. /\ ReadingInv /\ NotCancelled /\ QuietAfterError
      /\ async # "none" => page = "downloading"
  BY DEF EndInv, TypeInv, CompleteInv, UpdateInv, CallbackInv, ReadingInv, NotCancelled
<1>1. TypeInv'
  BY TypeStep DEF EndInv
<1>2. ReadingInv' /\ NotCancelled' /\ QuietAfterError'
  <2>1. CASE UpdateDruid \/ FinishPressed
    <3>1. async = "none" /\ async' = "none" /\ page' # "downloading"
      BY <1>0, <2>1 DEF UpdateDruid, FinishPressed
    <3> QED BY <3>1, NoRead DEF NotCancelled, QuietAfterError
  <2>2. CASE StartListing
    <3>1. async' = "listing"
      BY <2>2 DEF StartListing
    <3> QED BY <3>1, NoRead DEF NotCancelled, QuietAfterError
  <2>3. CASE Callback
    BY <2>3, EndCallback
  <2>4. CASE Cancel
    <3>1. /\ UNCHANGED <<async, list, i, temp, short, errors>>
          /\ async # "renaming" /\ page' \in {page, "none"}
      BY <2>4 DEF Cancel, files, bounds
    <3>2. ReadingInv'
      BY <1>0, <3>1 DEF ReadingInv, Missed
    <3> QED BY <1>0, <3>1, <3>2 DEF NotCancelled, QuietAfterError
  <2>5. CASE Crash
    <3>1. async' = "none" /\ page' = "none"
      BY <2>5 DEF Crash
    <3> QED BY <3>1, NoRead DEF NotCancelled, QuietAfterError
  <2>6. CASE UNCHANGED vars
    BY <1>0, <2>6 DEF vars, ReadingInv, Missed, NotCancelled, QuietAfterError
  <2> QED BY <2>1, <2>2, <2>3, <2>4, <2>5, <2>6 DEF Next
<1> QED BY <1>1, <1>2 DEF EndInv, ReadingInv, NotCancelled

LEMMA EndInvariant == Spec => []EndInv
  BY EndInit, EndStep, PTL DEF Spec

\* Every answer of gnome-vfs, an error too, and every file renamed brings a
\* download nearer to its end: no callback asks again for what it has asked for
\* (update.c, the callbacks from get_remote_file_list_cb to download_done).
THEOREM DownloadAlwaysNearer == Spec => DownloadNearer
<1>1. EndInv /\ [Next]_vars => [Callback => LessWork]_vars
  BY CallbackLessens
<1> QED BY EndInvariant, <1>1, PTL DEF Spec, DownloadNearer

\* What is left of a download (the files and blocks that update.c has yet to
\* ask gnome-vfs for) is counted in natural numbers, so that it cannot lessen
\* for ever.
THEOREM WorkAlwaysCounts == Spec => []WorkCounts
  BY EndInvariant, WorkNatural, PTL

\* A druid left on its downloading page with no operation under way, which only
\* Cancel ends, has met an error that update.c logs and does nothing about.
THEOREM AlwaysQuietAfterError == Spec => []QuietAfterError
<1>1. EndInv => QuietAfterError
  BY DEF EndInv
<1> QED BY EndInvariant, <1>1, PTL

\* The last answer to a download that was cancelled closes its window, be it an
\* error (update.c, update_cancel_flag in each of the callbacks).
THEOREM CancelAlwaysEnds == Spec => [][CancelEnds]_vars
<1>1. EndInv /\ [Next]_vars => [CancelEnds]_vars
  <2> SUFFICES ASSUME EndInv, Next, update_cancel_flag, async # "none", async' = "none"
               PROVE  page' = "none"
    BY DEF CancelEnds
  <2>1. page = "downloading" /\ async # "renaming"
    BY DEF EndInv, TypeInv, CompleteInv, UpdateInv, CallbackInv
  <2>2. ASSUME NEW t \in Remote, ListEntry(t) PROVE page' = "none"
    BY <2>2 DEF ListEntry, GiveUp
  <2>3. CASE ListEnd \/ ListError
    BY <2>3 DEF ListEnd, ListError, GiveUp
  <2>4. CASE OpenOk \/ OpenError \/ ReadBlock \/ ReadEnd \/ ReadError
    BY <2>4 DEF OpenOk, OpenError, ReadBlock, ReadEnd, ReadError
  <2>5. CASE CloseDone
    BY <2>5 DEF CloseDone, GiveUp
  <2>6. CASE RenameFile \/ DownloadDone
    BY <2>1, <2>6 DEF RenameFile, DownloadDone
  <2>7. CASE UpdateDruid \/ StartListing \/ Cancel \/ FinishPressed
    BY <2>1, <2>7 DEF UpdateDruid, StartListing, Cancel, FinishPressed
  <2>8. CASE Crash
    BY <2>8 DEF Crash
  <2> QED BY <2>2, <2>3, <2>4, <2>5, <2>6, <2>7, <2>8 DEF Next, Callback
<1> QED BY EndInvariant, <1>1, PTL DEF Spec
=============================================================================
