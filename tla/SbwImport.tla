----------------------------- MODULE SbwImport -----------------------------
(***************************************************************************)
(* The document of module GbDoc, with the inventories of the Savings Bond  *)
(* Wizard it imports read from their files (src/doc-sbw.c).                *)
(*                                                                         *)
(* A file says how many bonds it has and holds that many records or, cut   *)
(* short, fewer.  Nothing looks at the end of the file: fgets and fread    *)
(* then leave their buffers as they were.  read_sbw4 uses its buffers      *)
(* again from one record to the next, and a field of no bytes is not read. *)
(***************************************************************************)
EXTENDS GbDoc

CONSTANTS
  SbwFiles, \* the files there are to import
  Cut,      \* a serial number ended at the length of a series
  Blank,    \* a field of no bytes, or a pair of quotes
  NotWhole  \* the import at hand, if any, may lack something

\* Series the rules know, and others a Savings Bond Wizard has.
SbwSeries == {"known", "other"}

SbwRecord == [idate : Date, sn : SN \cup {Blank}, series : SbwSeries \cup {Blank}]
SbwFile   == [version : {2, 4}, n : 0 .. MaxImport,
              records : UNION {[1 .. n -> SbwRecord] : n \in 0 .. MaxImport}]

ASSUME SbwAssumption ==
  /\ SbwFiles \subseteq SbwFile
  /\ Cut \in [SN -> SN]
  /\ Blank \notin SN

VARIABLE whole  \* the bonds of the file being read, when nothing is wrong with it

sbwVars == <<docVars, whole>>

Complete(f) == Len(f.records) = f.n

---------------------------------------------------------------------------
\* One turn of the loop of read_sbw4: what its buffers hold after the record at
\* i.  Past the end n_bytes is still the length of the last series, and ends the
\* serial number there.
ReadRecord(records, i, last) ==
  IF i <= Len(records)
  THEN LET r == records[i] IN
    [idate   |-> r.idate,
     sn      |-> IF r.sn = Blank THEN last.sn ELSE r.sn,
     series  |-> IF r.series = Blank THEN last.series ELSE r.series,
     n_bytes |-> IF r.series = Blank THEN 0 ELSE 1]
  ELSE [last EXCEPT !.sn = IF last.n_bytes = 0 THEN @ ELSE Cut[@]]

\* The bonds made so far, with that of the buffers if its series is supported.
AddRecord(bonds, buffer) ==
  IF buffer.series = "known"
  THEN Append(bonds, [idate |-> buffer.idate, sn |-> buffer.sn])
  ELSE bonds

Loop4(f, uninitialized) ==
  LET loop[i \in 0 .. f.n] ==
        IF i = 0 THEN [buffer |-> uninitialized, bonds |-> <<>>]
        ELSE LET buffer == ReadRecord(f.records, i, loop[i - 1].buffer)
             IN  [buffer |-> buffer, bonds |-> AddRecord(loop[i - 1].bonds, buffer)]
  IN  loop

\* A loop that ends a record early (mutant).
ReadSbw4Early(f, uninitialized) == Loop4(f, uninitialized)[f.n - 1].bonds

\* read_sbw4: the records of a series it supports.
ReadSbw4(f, uninitialized) == Loop4(f, uninitialized)[f.n].bonds

\* The bond of a record, whose serial number may be missing.
BondIn(r) == [idate |-> r.idate, sn |-> IF r.sn = Blank THEN NoSN ELSE r.sn]

\* read_sbw2: one line for each bond, the last one again past the end.
ReadSbw2(f) ==
  [i \in 1 .. f.n |->
     BondIn(f.records[IF i <= Len(f.records) THEN i ELSE Len(f.records)])]

\* What the file says, without the bonds of other series; as the import has it
\* only when the file is complete and, in version 4, every field is there.
Said(f) ==
  LET known == {i \in DOMAIN f.records : f.records[i].series = "known"}
  IN  IF /\ Complete(f)
         /\ f.version = 4 => \A i \in DOMAIN f.records :
                               Blank \notin {f.records[i].sn, f.records[i].series}
      THEN [c \in {BondIn(f.records[i]) : i \in known} |->
             Cardinality({i \in known : BondIn(f.records[i]) = c})]
      ELSE NotWhole

Import(records, t, f) ==
  /\ records \in UNION {[1 .. n -> Content] : n \in 0 .. MaxImport}
  /\ SbwOpen(records, t)
  /\ whole' = Said(f)

\* gb_doc_sbw_open, version 4: a fixed title, and buffers on the stack that hold
\* anything at first.
SbwOpen4(f) ==
  /\ f.version = 4
  /\ \E idate \in Date, sn \in SN, series \in SbwSeries, t \in Title :
       Import(ReadSbw4(f, [idate |-> idate, sn |-> sn, series |-> series,
                           n_bytes |-> 0]), t, f)

\* gb_doc_sbw_open, versions 2 and 3: a title from the file.  A series
\* gb_doc_bond_new does not know drops the whole inventory.  A file that ends
\* before its first bond ends the process, in sscanf.
SbwOpen2(f) ==
  /\ f.version = 2
  /\ f.n > 0 => f.records # <<>>
  /\ \A i \in DOMAIN f.records : f.records[i].series = "known"
  /\ \E t \in Title : Import(ReadSbw2(f), t, f)

\* The other steps of the document, and the end of the reading loop.
DocStep ==
  \/ NewDoc
  \/ \E b \in Bond : EditAddBond(b)
  \/ \E p \in Ptr : DeleteBond(p)
  \/ \E t \in Title : SetTitle(t)
  \/ XmlSave
  \/ XmlSaveFail
  \/ XmlOpen
  \/ XmlOpenFail
  \/ \E p \in Ptr : ReadBond(p)
  \/ ReadDone
  \/ DropDoc

SbwInit == Init /\ whole = NotWhole

SbwNext ==
  \/ \E f \in SbwFiles : SbwOpen4(f) \/ SbwOpen2(f)
  \/ DocStep /\ whole' = IF phase' = "reading" THEN whole ELSE NotWhole

SbwSpec == SbwInit /\ [][SbwNext]_sbwVars

---------------------------------------------------------------------------
\* From the first record to the last, the bonds already in the document and
\* those still to come are what the file says, no more and no less, with no
\* serial number of one record on the bond of another (doc-sbw.c, the buffers
\* of read_sbw4): for a file that is complete and leaves nothing blank.
ImportWhole ==
  phase = "reading" /\ ~titled /\ whole # NotWhole
    => ToBag(Contents(list)) (+) ToBag(pending) = whole
=============================================================================
