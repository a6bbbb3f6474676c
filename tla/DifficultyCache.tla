-------------------------- MODULE DifficultyCache --------------------------
(***************************************************************************)
(* The difficulties the game has calculated and the file it keeps them in, *)
(* DifficultyCache.cpp.  Loaders and workers store them while a save runs: *)
(* save clears the dirty flag, copies the entries and writes the file in   *)
(* three steps, each under a lock of its own or none.  A difficulty is a   *)
(* function of its key, so an entry is its key.                            *)
(***************************************************************************)
EXTENDS Naturals, FiniteSets

CONSTANTS Keys,     \* difficulty key and rate of a chart
          Savers    \* threads that call save

VARIABLES
  entries,   \* keys with a difficulty in memory
  dirty,
  disk,      \* keys in the file
  saver,     \* the thread that holds save_mutex and has cleared dirty
  copied     \* what it will write: nothing yet, or one set of keys

cacheVars == <<entries, dirty, disk, saver, copied>>

NoSaver == "no saver"

ASSUME SaversAssumption == NoSaver \notin Savers

CacheTypeOK ==
  /\ entries \subseteq Keys /\ disk \subseteq Keys /\ dirty \in BOOLEAN
  /\ saver \in Savers \cup {NoSaver}
  /\ copied \subseteq SUBSET Keys

CacheInit ==
  /\ entries = {} /\ disk = {} /\ dirty = FALSE
  /\ saver = NoSaver /\ copied = {}

Store(new) ==
  /\ entries' = entries \cup new /\ dirty' = TRUE
  /\ UNCHANGED <<disk, saver, copied>>

ClearCache ==
  /\ entries' = {} /\ dirty' = (dirty \/ entries # {})
  /\ UNCHANGED <<disk, saver, copied>>

(* With nothing to save, save returns at once. *)
SaveNeeded == dirty /\ saver = NoSaver

BeginSave(s) ==
  /\ SaveNeeded
  /\ dirty' = FALSE /\ saver' = s
  /\ UNCHANGED <<entries, disk, copied>>

CopyEntries(s) ==
  /\ saver = s /\ copied = {}
  /\ copied' = {entries}
  /\ UNCHANGED <<entries, dirty, disk, saver>>

(* The flag as a save that wrote its copy leaves it. *)
DirtyAfterWrite_Cleared == FALSE

DirtyAfterWrite == dirty

WriteCopy(s) ==
  /\ saver = s
  /\ disk' \in copied /\ dirty' = DirtyAfterWrite
  /\ saver' = NoSaver /\ copied' = {}
  /\ UNCHANGED entries

(* replace_file may have removed the old file.                            *)
WriteCopyFails(s) ==
  /\ saver = s /\ copied # {}
  /\ dirty' = TRUE /\ disk' \in {disk, {}}
  /\ saver' = NoSaver /\ copied' = {}
  /\ UNCHANGED entries

(* The process ends and is started again: load. *)
LoadCache ==
  /\ entries' = disk /\ dirty' = FALSE
  /\ saver' = NoSaver /\ copied' = {}
  /\ UNCHANGED disk

(* While no save is under way and none is due, the file holds exactly the  *)
(* difficulties in memory: one stored, or forgotten, while a save was      *)
(* writing is still to be saved.                                           *)
NothingUnsaved == saver = NoSaver /\ ~dirty => disk = entries
=============================================================================
