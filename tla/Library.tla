------------------------------ MODULE Library ------------------------------
(***************************************************************************)
(* The library cache, LibraryCache.cpp, under the thread that scans the    *)
(* chart folders, ChartLibrary.cpp, together with the difficulty cache the *)
(* scan fills and saves.                                                   *)
(*                                                                         *)
(* The cache is two files.  library_notes.bin holds the notes of the       *)
(* charts, one blob after the other behind a header with an id;            *)
(* library_index.bin holds that id and, for every chart file, what it had  *)
(* when it was read and where its notes are.  A rewrite appends the notes  *)
(* of new charts, or, when most of the file is unused, writes the live     *)
(* ones to a new file with a new id; then it replaces the index.  Each     *)
(* step may fail, and the game may die between any two.                    *)
(*                                                                         *)
(* A chart file holds one chart, <<file, version>>.  A blob is a sequence  *)
(* of cells, <<chart, part>>, that can be cut short; offsets count cells   *)
(* behind the header.                                                      *)
(***************************************************************************)
EXTENDS DifficultyCache, Enumeration, Sequences, SequencesExt, Functions

CONSTANTS Files,          \* chart files: 1 .. n, in the order they are scanned
          Versions,       \* of their contents
          Size,           \* cells of the notes of a file's chart
          DifficultyKey,  \* of a chart: an edit may leave it as it is
          CompactMin,     \* compact_min_bytes, in cells
          MaxEvents       \* changes to the chart folders, failed writes, crashes

ASSUME LibraryAssumption ==
  /\ Files = 1 .. Cardinality(Files) /\ IsFiniteSet(Files)
  /\ Versions \subseteq Nat \ {0} /\ Size \in [Files -> Nat \ {0}]
  /\ CompactMin \in Nat /\ MaxEvents \in Nat
  /\ DifficultyKey \in [Files \X Versions -> Keys] /\ "scan" \in Savers

VARIABLES
  folder,       \* version of each chart file, 0: not there
  index,        \* library_index.bin
  notes,        \* library_notes.bin
  records, notes_id, notes_size,
  scan,         \* the library loader: where it is, and what it works on
  slipped,
  spent

libraryVars == <<folder, index, notes, records, notes_id, notes_size, scan, slipped, spent>>
vars == <<libraryVars, cacheVars>>

Ids == 1 .. 4
NoId == 0
NoFile == [id |-> NoId, cells |-> <<>>]
NoIndex == [id |-> NoId, records |-> <<>>]

Charts == Files \X Versions
Record == [version : Versions, offset : Nat]
AreRecords(r) == DOMAIN r \subseteq Files /\ \A f \in DOMAIN r : r[f] \in Record

Blob(chart) == [part \in 1 .. Size[chart[1]] |-> <<chart, part>>]

(* What a record's range of the notes file holds. *)
Stored(rec, f) ==
  LET last == rec[f].offset + Size[f]
  IN  IF last <= Len(notes.cells) THEN SubSeq(notes.cells, rec[f].offset + 1, last) ELSE <<>>

Stages == {"boot", "idle", "scanned", "prepared", "appended", "indexed", "renaming", "saving"}

(* next, id, size and cells: the index, id and notes a rewrite is making;  *)
(* cells is used when compacting.                                          *)
NoScan == [at |-> "idle", keep |-> {}, new |-> <<>>, next |-> <<>>, id |-> NoId, size |-> 0,
           compacting |-> FALSE, cells |-> <<>>]

TypeOK ==
  /\ CacheTypeOK
  /\ folder \in [Files -> Versions \cup {0}]
  /\ index.id \in Ids \cup {NoId} /\ AreRecords(index.records)
  /\ notes.id \in Ids \cup {NoId}
  /\ \A i \in DOMAIN notes.cells : notes.cells[i][1] \in Charts
  /\ AreRecords(records)
  /\ notes_id \in Ids \cup {NoId} /\ (notes_id = NoId => records = <<>>)
  /\ notes_size \in Nat
  /\ scan.at \in Stages /\ scan.keep \subseteq DOMAIN records \cup Files
  /\ slipped \in BOOLEAN
  /\ spent \in 0 .. MaxEvents

Init ==
  /\ CacheInit
  /\ folder \in [Files -> Versions \cup {0}]
  /\ index = NoIndex /\ notes = NoFile
  /\ records = <<>> /\ notes_id = NoId /\ notes_size = 0
  /\ scan = [NoScan EXCEPT !.at = "boot"]
  /\ slipped = FALSE
  /\ spent = 0

Event == spent < MaxEvents /\ spent' = spent + 1

Forget_KeepsRecords == UNCHANGED records /\ notes_id' = NoId /\ notes_size' = 0

Forget == records' = <<>> /\ notes_id' = NoId /\ notes_size' = 0

-----------------------------------------------------------------------------
(* load *)

(* The notes are those the index was written for. *)
Matches_Always(ix, file) == ix.id # NoId /\ file.id # NoId

Matches(ix, file) == ix.id # NoId /\ file.id = ix.id

Load ==
  /\ scan.at = "boot"
  /\ scan' = NoScan
  /\ \/ /\ Matches(index, notes)
        /\ records' = index.records /\ notes_id' = index.id
        /\ notes_size' = Len(notes.cells)
        /\ UNCHANGED slipped
     \/ ~Matches(index, notes) /\ Forget /\ slipped' = FALSE
  /\ UNCHANGED <<folder, index, notes, spent, cacheVars>>

-----------------------------------------------------------------------------
(* scan_chart_library *)

Edit(f) ==
  /\ Event
  /\ \E v \in (Versions \cup {0}) \ {folder[f]} : folder' = [folder EXCEPT ![f] = v]
  /\ UNCHANGED <<index, notes, records, notes_id, notes_size, scan, slipped, cacheVars>>

(* start_library_load; a full rebuild first removes the cache. *)
Rebuild ==
  /\ scan.at = "idle"
  /\ Forget /\ index' = NoIndex /\ notes' = NoFile /\ slipped' = FALSE
  /\ UNCHANGED <<folder, scan, spent, cacheVars>>

(* A file is read again unless it is as its record says. *)
ScanFolder ==
  LET there == {f \in Files : folder[f] # 0}
      keep == {f \in there \cap DOMAIN records : records[f].version = folder[f]}
      rewrite == index = NoIndex \/ keep # there \/ keep # DOMAIN records
  IN  /\ scan.at = "idle"
      /\ scan' = [NoScan EXCEPT !.at = IF rewrite THEN "scanned" ELSE "saving",
                                !.keep = keep,
                                !.new = Restrict(folder, there \ keep)]
      /\ UNCHANGED <<folder, index, notes, records, notes_id, notes_size, slipped, spent,
                     cacheVars>>

(* The difficulties of the charts just read, and of those whose notes a    *)
(* worker loads.                                                           *)
StoreDifficulty ==
  /\ \E f \in Files, v \in Versions :
       /\ \/ scan.at = "scanned" /\ f \in DOMAIN scan.new /\ scan.new[f] = v
          \/ f \in DOMAIN records /\ records[f].version = v
       /\ DifficultyKey[<<f, v>>] \notin entries
       /\ Store({DifficultyKey[<<f, v>>]})
  /\ UNCHANGED libraryVars

-----------------------------------------------------------------------------
(* LibraryCache::rewrite *)

NewId(used) == CHOOSE i \in Ids : i \notin used

Fail == scan' = [NoScan EXCEPT !.at = "saving"]

Fresh == notes_id = NoId \/ notes.id # notes_id

(* A new notes file, unless there is one that belongs to the records.      *)
Prepare ==
  /\ scan.at = "scanned"
  /\ \/ /\ ~Fresh
        /\ scan' = [scan EXCEPT !.at = "prepared", !.id = notes_id, !.size = notes_size]
        /\ UNCHANGED <<notes, records, notes_id, notes_size, slipped>>
     \/ /\ Fresh
        /\ Forget /\ slipped' = FALSE
        /\ LET id == NewId({notes.id, index.id})
           IN  /\ notes' = [id |-> id, cells |-> <<>>]
               /\ scan' = [scan EXCEPT !.at = "prepared", !.id = id]
  /\ UNCHANGED <<folder, index, spent, cacheVars>>

(* replace_file removes the old file when it cannot rename over it. *)
PrepareFails ==
  /\ Event
  /\ scan.at = "scanned" /\ Fresh
  /\ Forget /\ slipped' = FALSE
  /\ notes' \in {notes, NoFile}
  /\ Fail
  /\ UNCHANGED <<folder, index, cacheVars>>

(* The offset a new blob is said to be at, behind size cells: not that of  *)
(* the file it is appended to.                                             *)
Offsets(new, size) ==
  [f \in DOMAIN new |-> size + SumFunctionOnSet(Size, {g \in DOMAIN new : g < f})]

Cells(files, version) ==
  FlattenSeq([i \in 1 .. Cardinality(files) |->
    LET f == Ascending(files)[i] IN Blob(<<f, version[f]>>)])

(* A kept file keeps its entry, if the old index can be read and has one.  *)
Kept == IF index = NoIndex THEN {} ELSE scan.keep \cap DOMAIN records

Written == Cells(DOMAIN scan.new, scan.new)

AppendNotes ==
  /\ scan.at = "prepared"
  /\ notes' = [notes EXCEPT !.cells = @ \o Written]
  /\ LET offset == Offsets(scan.new, scan.size)
         added(f) == [version |-> scan.new[f], offset |-> offset[f]]
     IN  scan' = [scan EXCEPT !.at = "appended", !.size = @ + Len(Written),
                              !.next = [f \in DOMAIN scan.new \cup Kept |->
                                          IF f \in DOMAIN scan.new THEN added(f) ELSE records[f]]]
  /\ slipped' = (slipped \/ (Len(notes.cells) # scan.size /\ Written # <<>>))
  /\ UNCHANGED <<folder, index, records, notes_id, notes_size, spent, cacheVars>>

(* A write that fails, or is cut by a crash, leaves some of it in the file. *)
PartlyWritten == {[notes EXCEPT !.cells = @ \o SubSeq(Written, 1, n)] : n \in 0 .. Len(Written)}

AppendFails ==
  /\ Event
  /\ scan.at = "prepared"
  /\ notes' \in PartlyWritten
  /\ Fail
  /\ UNCHANGED <<folder, index, records, notes_id, notes_size, slipped, cacheVars>>

Live(next) == SumFunctionOnSet(Size, DOMAIN next)

Compacting == scan.size > CompactMin /\ Live(scan.next) * 2 < scan.size

(* The offset a record has in the compacted file. *)
NewOffset_Kept(f) == scan.next[f].offset

NewOffset(f) == Offsets(scan.next, 0)[f]

(* The compacted notes, if any, and the index are written beside the old.  *)
WriteIndex ==
  /\ scan.at = "appended"
  /\ \/ /\ ~Compacting
        /\ scan' = [scan EXCEPT !.at = "indexed"]
     \/ /\ Compacting
        /\ LET files == DOMAIN scan.next
           IN  scan' = [scan EXCEPT !.at = "indexed", !.compacting = TRUE,
                 !.id = NewId({notes.id, index.id, notes_id}), !.size = Live(scan.next),
                 !.cells = FlattenSeq([i \in 1 .. Cardinality(files) |->
                             Stored(scan.next, Ascending(files)[i])]),
                 !.next = [f \in files |-> [scan.next[f] EXCEPT !.offset = NewOffset(f)]]]
  /\ UNCHANGED <<folder, index, notes, records, notes_id, notes_size, slipped, spent, cacheVars>>

WriteIndexFails ==
  /\ Event
  /\ scan.at = "appended"
  /\ Fail
  /\ UNCHANGED <<folder, index, notes, records, notes_id, notes_size, slipped, cacheVars>>

(* Under the lock that load_notes shares. *)
RenameNotes ==
  /\ scan.at = "indexed"
  /\ scan' = [scan EXCEPT !.at = "renaming"]
  /\ notes' = IF scan.compacting THEN [id |-> scan.id, cells |-> scan.cells] ELSE notes
  /\ UNCHANGED <<folder, index, records, notes_id, notes_size, slipped, spent, cacheVars>>

(* move_into_place: when renaming and then copying fails, the file it was  *)
(* to replace is removed.                                                  *)
RenameNotesFails ==
  /\ Event
  /\ scan.at = "indexed" /\ scan.compacting
  /\ notes' \in {notes, NoFile}
  /\ Fail
  /\ UNCHANGED <<folder, index, records, notes_id, notes_size, slipped, cacheVars>>

RenameIndex ==
  /\ scan.at = "renaming"
  /\ index' = [id |-> scan.id, records |-> scan.next]
  /\ records' = scan.next /\ notes_id' = scan.id /\ notes_size' = scan.size
  /\ Fail
  /\ UNCHANGED <<folder, notes, slipped, spent, cacheVars>>

RenameIndexFails ==
  /\ Event
  /\ scan.at = "renaming"
  /\ index' \in {index, NoIndex}
  /\ slipped' = (slipped \/ scan.compacting)
  /\ Fail
  /\ UNCHANGED <<folder, notes, records, notes_id, notes_size, cacheVars>>

-----------------------------------------------------------------------------
(* The difficulties are saved at the end of a scan, now and then, and at   *)
(* the end of the game.                                                    *)

Done == scan' = NoScan /\ UNCHANGED <<folder, index, notes, records, notes_id, notes_size, slipped>>

SaveStep(s) ==
  \/ BeginSave(s) /\ (s = "scan" => scan.at = "saving") /\ UNCHANGED libraryVars
  \/ CopyEntries(s) /\ UNCHANGED libraryVars
  \/ /\ WriteCopy(s) /\ UNCHANGED spent
     /\ IF s = "scan" THEN Done ELSE UNCHANGED libraryVars
  \/ /\ Event /\ WriteCopyFails(s)
     /\ IF s = "scan" THEN Done
        ELSE UNCHANGED <<folder, index, notes, records, notes_id, notes_size, scan, slipped>>

NothingToSave ==
  /\ scan.at = "saving" /\ ~dirty /\ saver = NoSaver
  /\ Done /\ UNCHANGED <<spent, cacheVars>>

(* reload_everything: the library is rebuilt as soon as the loader is idle. *)
ForgetDifficulties ==
  /\ entries # {}
  /\ ClearCache
  /\ UNCHANGED libraryVars

Crash ==
  /\ Event
  /\ notes' \in IF scan.at = "prepared" THEN PartlyWritten ELSE {notes}
  /\ Forget /\ scan' = [NoScan EXCEPT !.at = "boot"]
  /\ LoadCache
  /\ UNCHANGED <<folder, index, slipped>>

Rewrite ==
  \/ Prepare \/ PrepareFails \/ AppendNotes \/ AppendFails \/ WriteIndex \/ WriteIndexFails
  \/ RenameNotes \/ RenameNotesFails \/ RenameIndex \/ RenameIndexFails

Next ==
  \/ \E f \in Files : Edit(f)
  \/ Load \/ Rebuild \/ ScanFolder \/ StoreDifficulty \/ Rewrite
  \/ \E s \in Savers : SaveStep(s)
  \/ NothingToSave \/ ForgetDifficulties \/ Crash

Spec == Init /\ [][Next]_vars

-----------------------------------------------------------------------------

(* Whatever fails or dies, load_notes finds the chart's own notes where    *)
(* its record says, or finds no notes file and the chart file is read      *)
(* instead.  Excepted are the two ways the offsets are known to slip: a    *)
(* rewrite that appends to a file longer than the size it counts from,     *)
(* after one that failed, and a failed rename of the index after that of   *)
(* compacted notes.                                                        *)
NotesAreRight ==
  scan.at # "renaming" /\ ~slipped /\ notes # NoFile =>
    \A f \in DOMAIN records : Stored(records, f) = Blob(<<f, records[f].version>>)
=============================================================================
