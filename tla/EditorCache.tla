---------------------------- MODULE EditorCache ----------------------------
(***************************************************************************)
(* The cache of the editor's assets (scripts/states/editor/                *)
(* editor_cache.lua): a table of files and a table of folders, loaded from *)
(* two text files when the editor starts and written back when it ends.    *)
(* The editor may die at any time, also while it writes.                   *)
(***************************************************************************)
CONSTANTS
  File,       \* the files that may be in the project's folders
  Folder,     \* the folders of the project
  Home,       \* the folder of each file
  Unreadable  \* files whose line LoadCache does not match: a dot in a folder's name, or
              \* none or several in their own

ASSUME CacheAssumption == Home \in [File -> Folder] /\ Unreadable \subseteq File

VARIABLES
  disk,       \* the files that exist
  cacheTbl,   \* the files in cache_tbl
  listed,     \* the folders in cache_folder_tbl
  folderTbl,  \* their files
  store,      \* current.cache and folders.cache
  power,      \* "off", "on", or "raised" by an error that nothing catches
  gone,       \* ghost: files that were removed from the disk
  cut         \* ghost: the editor died while it was saving

tables == <<cacheTbl, listed, folderTbl>>
cache == <<disk, tables, store, power, gone, cut>>

\* there: current.cache exists; whole: folders.cache exists and ends where a folder ends.
Store == [there : BOOLEAN, cur : SUBSET File, whole : BOOLEAN,
          listed : SUBSET Folder, folders : [Folder -> SUBSET File]]

NoFiles == [d \in Folder |-> {}]

CacheInit ==
  /\ disk \in SUBSET File
  /\ cacheTbl = {} /\ listed = {} /\ folderTbl = NoFiles
  /\ store = [there |-> FALSE, cur |-> {}, whole |-> FALSE,
              listed |-> {}, folders |-> NoFiles]
  /\ power = "off" /\ gone = {} /\ cut = FALSE

-----------------------------------------------------------------------------
\* The removal of old copies in the cache folders does not touch the tables.
ResetCache == power' = "on" /\ UNCHANGED tables

\* The tables end with the process.
Forget == cacheTbl' = {} /\ listed' = {} /\ folderTbl' = NoFiles

\* Faulty variant of LoadCache: a folder's line must match, the file's need not.
LoadCache_Strict ==
  IF store.whole
  THEN /\ power' = "on"
       /\ cacheTbl' = (store.cur \cap disk) \ Unreadable
       /\ listed' = store.listed
       /\ folderTbl' = store.folders
  ELSE power' = "raised" /\ UNCHANGED tables

\* Files that are missing are dropped from the one table and kept in the other.  A line
\* that ends too early is indexed as nil.
LoadCache ==
  IF store.whole
  THEN /\ power' = "on"
       /\ cacheTbl' = (store.cur \cap disk) \ Unreadable
       /\ listed' = store.listed
       /\ folderTbl' = [d \in Folder |-> store.folders[d] \ Unreadable]
  ELSE power' = "raised" /\ UNCHANGED tables

CacheBegin ==
  /\ power # "on"
  /\ IF store.there THEN LoadCache ELSE ResetCache
  /\ UNCHANGED <<disk, store, gone, cut>>

Saved == [there |-> TRUE, cur |-> cacheTbl, whole |-> TRUE,
          listed |-> listed, folders |-> folderTbl]

\* Finish: SaveCache runs to its end.
CacheFinish ==
  /\ power = "on" /\ power' = "off"
  /\ store' = Saved /\ Forget
  /\ UNCHANGED <<disk, gone, cut>>

\* What a save that is cut short leaves: current.cache with some of its lines and the old
\* folders.cache, or the new folders.cache up to some line.  A last line that is torn is
\* skipped when it is loaded.
CutSave ==
  \/ \E some \in SUBSET cacheTbl : store' = [store EXCEPT !.there = TRUE, !.cur = some]
  \/ store' = [Saved EXCEPT !.whole = FALSE]
  \/ \E some \in SUBSET listed, torn \in File :
       store' = [Saved EXCEPT !.listed = some, !.folders =
                   [d \in Folder |-> IF d \in some THEN folderTbl[d] \ {torn} ELSE {}]]

Crash ==
  /\ power = "on" /\ power' = "off" /\ Forget
  /\ UNCHANGED <<disk, store, gone, cut>>

CrashInSave ==
  /\ power = "on" /\ power' = "off"
  /\ CutSave /\ Forget
  /\ cut' = TRUE
  /\ UNCHANGED <<disk, gone>>

-----------------------------------------------------------------------------
\* What listfolder finds.
OnDisk(d) == {f \in disk : Home[f] = d}

\* AddFolderToCache: AddToCache adds the files that are not in the table; then the folder.
AddFolderToCache(d) ==
  /\ cacheTbl' = cacheTbl \cup OnDisk(d)
  /\ listed' = listed \cup {d}
  /\ folderTbl' = [folderTbl EXCEPT ![d] = OnDisk(d)]

\* The conversion of a file that was new raises: it and some others are in the table.
AddFolderFails(d, f) ==
  /\ f \in OnDisk(d) \ cacheTbl
  /\ \E some \in SUBSET OnDisk(d) : cacheTbl' = cacheTbl \cup some \cup {f}
  /\ UNCHANGED <<listed, folderTbl>>

\* GetFile returns nil.
Unknown(f) == f \notin cacheTbl

AddFile(f) ==
  /\ f \notin disk /\ disk' = disk \cup {f}
  /\ UNCHANGED <<tables, store, power, gone, cut>>

RemoveFile(f) ==
  /\ f \in disk /\ disk' = disk \ {f}
  /\ gone' = gone \cup {f}
  /\ UNCHANGED <<tables, store, power, cut>>

-----------------------------------------------------------------------------
CacheTypeOK ==
  /\ disk \subseteq File /\ gone \subseteq File
  /\ cacheTbl \subseteq File /\ listed \subseteq Folder
  /\ folderTbl \in [Folder -> SUBSET File]
  /\ store \in Store
  /\ power \in {"off", "on", "raised"} /\ cut \in BOOLEAN
=============================================================================
