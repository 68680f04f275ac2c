-------------------------- MODULE AssetListProofs --------------------------
(***************************************************************************)
(* For any files, folders, filters and durations: the cache of the asset   *)
(* panel raises only after a loss, its list is complete and filtered, and  *)
(* the panel settles where it was sent.                                    *)
(***************************************************************************)
EXTENDS AssetList, TLAPS

-----------------------------------------------------------------------------
\* Every step keeps the types of the cache.
LEMMA CacheTypeNext ==
  ASSUME TypeOK, [ListNext]_vars PROVE CacheTypeOK'
<1> USE CacheAssumption DEF CacheTypeOK
<1>1. CASE Stop
  <2>1. store' \in Store
    <3>1. CASE CacheFinish
      BY <3>1 DEF CacheFinish, Saved, Store, TypeOK
    <3>2. CASE Crash
      BY <3>2 DEF Crash, TypeOK
    <3>3. CASE CrashInSave
      <4>1. Saved \in Store
        BY DEF Saved, Store, TypeOK
      <4>2. ASSUME NEW some \in SUBSET cacheTbl,
                   store' = [store EXCEPT !.there = TRUE, !.cur = some]
            PROVE  store' \in Store
        BY <4>2 DEF Store, TypeOK
      <4>3. CASE store' = [Saved EXCEPT !.whole = FALSE]
        BY <4>1, <4>3 DEF Store
      <4>4. ASSUME NEW some \in SUBSET listed, NEW torn \in File,
                   store' = [Saved EXCEPT !.listed = some, !.folders =
                     [d \in Folder |-> IF d \in some THEN folderTbl[d] \ {torn} ELSE {}]]
            PROVE  store' \in Store
        <5>1. [d \in Folder |-> IF d \in some THEN folderTbl[d] \ {torn} ELSE {}]
                \in [Folder -> SUBSET File]
          BY DEF TypeOK
        <5>2. some \subseteq Folder
          BY DEF TypeOK
        <5> QED
          BY <4>1, <4>4, <5>1, <5>2 DEF Store
      <4> QED
        BY <3>3, <4>2, <4>3, <4>4 DEF CrashInSave, CutSave
    <3> QED
      BY <1>1, <3>1, <3>2, <3>3 DEF Stop
  <2>2. /\ cacheTbl' = {} /\ listed' = {} /\ folderTbl' = NoFiles
        /\ disk' = disk /\ gone' = gone /\ power' = "off" /\ cut' \in {cut, TRUE}
    BY <1>1 DEF Stop, CacheFinish, Crash, CrashInSave, Forget
  <2> QED
    BY <2>1, <2>2 DEF TypeOK, NoFiles
<1>2. CASE Start
  <2>1. CASE LoadCache
    BY <1>2, <2>1 DEF Start, CacheBegin, LoadCache, TypeOK, Store, tables
  <2>2. CASE ResetCache
    BY <1>2, <2>2 DEF Start, CacheBegin, ResetCache, TypeOK, tables
  <2> QED
    BY <1>2, <2>1, <2>2 DEF Start, CacheBegin
<1>3. CASE ChangeDisk
  BY <1>3 DEF ChangeDisk, AddFile, RemoveFile, TypeOK, tables
<1>4. CASE CollectFolder
  BY <1>4 DEF CollectFolder, Resume, AddFolderToCache, OnDisk, TypeOK, ListType
<1>5. CASE CollectFails
  BY <1>5 DEF CollectFails, Resume, AddFolderFails, OnDisk, TypeOK, tables
<1>6. CASE DrawRaises
  BY <1>6 DEF DrawRaises, Forget, NoFiles, TypeOK
<1>7. CASE UNCHANGED cache
  BY <1>7 DEF cache, tables, TypeOK
<1>8. CASE CollectStart \/ CollectFile
  BY <1>8 DEF CollectStart, CollectFile, Resume, tables, TypeOK
<1>9. CASE \/ CheckFlags \/ CollectNothing \/ Draw \/ NoClick \/ Enter \/ IconAssets
           \/ IconClose \/ AssetListFolderCancel \/ RefreshFiles \/ SelectedAsset
  BY <1>7, <1>9 DEF CheckFlags, CollectNothing, Draw, NoClick, Enter, IconAssets, IconClose,
    AssetListFolderCancel, RefreshFiles, SelectedAsset, Click
<1>10. CASE \/ \E dt \in 1..MaxTick : Tick(dt)
            \/ \E k \in Filters : AssetListToggle(k)
            \/ UNCHANGED vars
  BY <1>7, <1>10 DEF Tick, AssetListToggle, Click, vars
<1> QED
  BY <1>1, <1>2, <1>3, <1>4, <1>5, <1>6, <1>8, <1>9, <1>10
  DEF ListNext, Frame, User, Collect

\* A tween that runs on is a tween.
LEMMA TweenAges ==
  ASSUME NEW t \in Tween, NEW dt \in 1..MaxTick, ~(t.left <= dt)
  PROVE  [t EXCEPT !.left = @ - dt] \in Tween
  BY ListAssumption DEF Tween

\* A frame's tweens keep their type.
LEMMA TickType ==
  ASSUME PanelType, NEW dt \in 1..MaxTick, Tick(dt) PROVE PanelType'
<1> DEFINE expired == Expired(dt)
           shown   == {t \in expired : t.current}
<1> USE DEF PanelType
<1>1. tweens' \subseteq Tween
  <2>1. tweens' = {[t EXCEPT !.left = @ - dt] : t \in tweens \ Expired(dt)}
    BY Zenon DEF Tick
  <2>2. \A t \in tweens \ Expired(dt) : t \in Tween /\ ~(t.left <= dt)
    BY DEF Expired
  <2>3. \A t \in tweens \ Expired(dt) : [t EXCEPT !.left = @ - dt] \in Tween
    BY <2>2, TweenAges
  <2> QED
    BY <2>1, <2>3
<1>2. expired \subseteq tweens
  BY DEF Expired
<1>3. started' \in {"INACTIVE", "SLIDEOUT", "ACTIVE", "SLIDEIN"}
  <2>1. CASE expired = {}
    BY <2>1 DEF Tick
  <2>2. CASE expired # {}
    <3>1. PICK last \in expired : started' = SlideDone(last)
      BY <2>2, Zenon DEF Tick
    <3> QED
      BY <3>1 DEF SlideDone
  <2> QED
    BY <2>1, <2>2
<1>4. tie' \in BOOLEAN
  <2>1. CASE expired = {}
    BY <2>1 DEF Tick
  <2>2. CASE expired # {}
    <3>1. tie' = (\E t, u \in expired : t.name # u.name)
      BY <2>2, Zenon DEF Tick
    <3> QED
      BY <3>1
  <2> QED
    BY <2>1, <2>2
<1>5. pos' \in {"in", "moving", "out"}
  <2>1. CASE shown = {}
    <3>1. pos' = IF \E t \in tweens : t.current THEN "moving" ELSE pos
      BY <2>1, Zenon DEF Tick
    <3> QED
      BY <3>1
  <2>2. CASE shown # {}
    <3>1. PICK t \in shown : pos' = Goal(t)
      BY <2>2, Zenon DEF Tick
    <3> QED
      BY <3>1 DEF Goal
  <2> QED
    BY <2>1, <2>2
<1>6. phase' \in {"flags", "idle"} /\ front' = front /\ flags' = flags
  BY DEF Tick
<1> QED
  BY <1>1, <1>3, <1>4, <1>5, <1>6

\* A new tween is a tween.
LEMMA NewTweens ==
  ASSUME PanelType
  PROVE  /\ PanelBegin => tweens' \subseteq Tween
         /\ Close => tweens' \subseteq Tween
<1>1. \A n \in {"PanelLeft", "PanelRight"} :
        [name |-> n, left |-> SlideTime, current |-> TRUE] \in Tween
  BY ListAssumption DEF Tween
<1>2. \A t \in tweens : [t EXCEPT !.current = FALSE] \in Tween
  BY DEF PanelType, Tween
<1>3. ASSUME PanelBegin PROVE tweens' \subseteq Tween
  BY <1>1, <1>2, <1>3, Zenon DEF PanelBegin
<1>4. ASSUME Close PROVE tweens' \subseteq Tween
  BY <1>1, <1>4, Zenon DEF Close, PanelType
<1> QED
  BY <1>3, <1>4

\* Every step keeps the types of the panel.
LEMMA PanelTypeNext ==
  ASSUME TypeOK, [ListNext]_vars PROVE PanelType'
<1> USE DEF TypeOK
<1>1. ASSUME NEW dt \in 1..MaxTick, Tick(dt) PROVE PanelType'
  BY <1>1, TickType
<1>2. CASE CheckFlags
  <2>1. flags' \in [assets : {"nil", "RequestOpen", "RequestClose"},
                    last : {"RequestOpen", "RequestClose"}, close : BOOLEAN]
    BY <1>2 DEF CheckFlags, Served, PanelType
  <2>2. phase' \in {"collect", "input"} /\ tie' = tie /\ front' \in BOOLEAN
    BY <1>2 DEF CheckFlags, Exit, PanelType
  <2>3. CASE PanelBegin
    BY <1>2, <2>1, <2>2, <2>3, NewTweens DEF PanelBegin, PanelType
  <2>4. CASE Close /\ pos' = pos
    BY <1>2, <2>1, <2>2, <2>4, NewTweens DEF Close, PanelType
  <2>5. CASE UNCHANGED <<started, tweens, pos>>
    BY <1>2, <2>1, <2>2, <2>5 DEF PanelType
  <2> QED
    BY <1>2, <2>3, <2>4, <2>5 DEF CheckFlags
<1>3. CASE Collect
  BY <1>3 DEF Collect, CollectStart, CollectFolder, CollectFails, CollectFile, CollectNothing,
    Resume, panel, PanelType
<1>4. CASE Draw
  BY <1>4, NewTweens DEF Draw, Close, Exit, PanelType
<1>5. CASE Stop \/ DrawRaises
  <2>1. End
    BY <1>5 DEF Stop, DrawRaises
  <2>2. NewFlags \in [assets : {"nil", "RequestOpen", "RequestClose"},
                      last : {"RequestOpen", "RequestClose"}, close : BOOLEAN]
    BY DEF NewFlags
  <2> QED
    BY <2>1, <2>2 DEF End, PanelType
<1>6. CASE Start \/ ChangeDisk \/ NoClick \/ UNCHANGED vars
  BY <1>6 DEF Start, ChangeDisk, NoClick, vars, panel, PanelType
<1>7. CASE Enter
  BY <1>7 DEF Enter, NewFlags, PanelType
<1>8. CASE IconAssets \/ IconClose
  <2>1. flags' \in [assets : {"nil", "RequestOpen", "RequestClose"},
                    last : {"RequestOpen", "RequestClose"}, close : BOOLEAN]
    <3>1. CASE IconAssets
      BY <3>1 DEF IconAssets, PanelType
    <3>2. CASE IconClose
      BY <3>2 DEF IconClose, PanelType
    <3> QED
      BY <1>8, <3>1, <3>2
  <2>2. phase' = "idle" /\ UNCHANGED <<front, started, tweens, pos, tie>>
    BY <1>8 DEF IconAssets, IconClose, Click
  <2> QED
    BY <2>1, <2>2 DEF PanelType
<1>9. CASE AssetListFolderCancel \/ RefreshFiles \/ SelectedAsset
  BY <1>9 DEF AssetListFolderCancel, RefreshFiles, SelectedAsset, Click, PanelType
<1>10. ASSUME NEW k \in Filters, AssetListToggle(k) PROVE PanelType'
  BY <1>10 DEF AssetListToggle, Click, PanelType
<1> QED
  BY <1>1, <1>2, <1>3, <1>4, <1>5, <1>6, <1>7, <1>8, <1>9, <1>10 DEF ListNext, Frame, User

\* Filtering keeps the types of the list.
LEMMA FilterType ==
  ASSUME ListType, NEW some \in SUBSET File, NEW files \in SUBSET File,
         FilterFiles(some, files)
  PROVE  ListType'
<1> USE DEF ListType
<1>1. CASE some = {}
  BY <1>1 DEF FilterFiles
<1>2. CASE some # {}
  <2>1. PICK f \in some : FilterFile(f, some \ {f}, files)
    BY <1>2 DEF FilterFiles
  <2> QED
    BY <2>1 DEF FilterFile, Die
<1> QED
  BY <1>1, <1>2

\* So does going on to the next folder.
LEMMA NextFolderType ==
  ASSUME ListType, CacheTypeOK', NEW files \in SUBSET File, NextFolder(files)
  PROVE  ListType'
<1>1. CASE listed' # Folder
  BY <1>1 DEF NextFolder, ListType
<1>2. CASE listed' = Folder
  <2>1. UNION {folderTbl'[d] : d \in Folder} \in SUBSET File
    BY DEF CacheTypeOK
  <2> QED
    BY <1>2, <2>1, FilterType DEF NextFolder
<1> QED
  BY <1>1, <1>2

\* Every step keeps the types of the list.
LEMMA ListTypeNext ==
  ASSUME TypeOK, [ListNext]_vars PROVE ListType'
<1> USE DEF TypeOK
<1>1. CASE CollectStart
  BY <1>1, CacheTypeNext, NextFolderType DEF CollectStart
<1>2. CASE CollectFolder
  <2>1. allfiles \in SUBSET File
    BY DEF ListType
  <2> QED
    BY <1>2, <2>1, CacheTypeNext, NextFolderType DEF CollectFolder
<1>3. CASE CollectFails
  BY <1>3 DEF CollectFails, Die, ListType
<1>4. CASE CollectFile
  <2>1. todo \in SUBSET File /\ allfiles \in SUBSET File
    BY DEF ListType
  <2> QED
    BY <1>4, <2>1, FilterType DEF CollectFile
<1>5. CASE CheckFlags
  BY <1>5 DEF CheckFlags, PanelBegin, list, ListType
<1>6. CASE Draw
  BY <1>6 DEF Draw, Shown, Filtered, ListType
<1>7. CASE Stop \/ DrawRaises
  BY <1>7 DEF Stop, DrawRaises, End, ListType
<1>8. CASE RefreshFiles
  BY <1>8 DEF RefreshFiles, Click, ListType
<1>9. CASE UNCHANGED list
  BY <1>9 DEF list, ListType
<1>10. CASE \/ CollectNothing \/ NoClick \/ Start \/ ChangeDisk \/ Enter \/ IconAssets
            \/ IconClose \/ AssetListFolderCancel \/ SelectedAsset \/ UNCHANGED vars
  BY <1>9, <1>10 DEF CollectNothing, NoClick, Start, ChangeDisk, Enter, IconAssets, IconClose,
    AssetListFolderCancel, SelectedAsset, Click, Untouched, vars, list
<1>11. CASE \/ \E dt \in 1..MaxTick : Tick(dt)
            \/ \E k \in Filters : AssetListToggle(k)
  BY <1>9, <1>11 DEF Tick, AssetListToggle, Click, Untouched, list
<1> QED
  BY <1>1, <1>2, <1>3, <1>4, <1>5, <1>6, <1>7, <1>8, <1>10, <1>11
  DEF ListNext, Frame, User, Collect

\* Every step keeps the types of the masks and of the bounds.
LEMMA MaskTypeNext ==
  ASSUME TypeOK, [ListNext]_vars PROVE MaskType'
<1> USE ListAssumption DEF TypeOK
<1>1. ASSUME Input PROVE count' \in [inputs : 0..MaxInputs, starts : 0..MaxStarts]
  BY <1>1 DEF Input, MaskType
<1>2. ASSUME NEW dt \in 1..MaxTick, Tick(dt) PROVE MaskType'
  BY <1>2 DEF Tick, MaskType
<1>3. CASE CheckFlags
  BY <1>3 DEF CheckFlags, PanelBegin, MaskType
<1>4. CASE Draw
  <2>1. rebuilt' \in BOOLEAN
    BY <1>4, Zenon DEF Draw
  <2> QED
    BY <1>4, <2>1 DEF Draw, MaskType
<1>5. CASE Stop \/ DrawRaises
  BY <1>5 DEF Stop, DrawRaises, End, MaskType
<1>6. CASE Start
  BY <1>6 DEF Start, masks, MaskType
<1>7. CASE ChangeDisk
  BY <1>1, <1>7 DEF ChangeDisk, masks, MaskType
<1>8. CASE \/ Collect \/ NoClick \/ Enter \/ UNCHANGED vars
  BY <1>8 DEF Collect, CollectStart, CollectFolder, CollectFails, CollectFile, CollectNothing,
    Resume, NoClick, Enter, vars, masks, MaskType
<1>9. CASE IconAssets \/ IconClose \/ AssetListFolderCancel \/ RefreshFiles \/ SelectedAsset
  BY <1>1, <1>9 DEF IconAssets, IconClose, AssetListFolderCancel, RefreshFiles, SelectedAsset,
    Click, MaskType
<1>10. ASSUME NEW k \in Filters, AssetListToggle(k) PROVE MaskType'
  BY <1>1, <1>10 DEF AssetListToggle, Click, MaskType
<1> QED
  BY <1>2, <1>3, <1>4, <1>5, <1>6, <1>7, <1>8, <1>9, <1>10 DEF ListNext, Frame, User

\* The types hold at the start.
LEMMA InitType == ListInit => TypeOK
<1> SUFFICES ASSUME ListInit PROVE TypeOK
  OBVIOUS
<1> USE ListAssumption DEF ListInit
<1>1. CacheTypeOK
  <2>1. store \in Store
    BY DEF CacheInit, Store, NoFiles
  <2> QED
    BY <2>1 DEF CacheInit, NoFiles, CacheTypeOK
<1>2. PanelType
  <2>1. NewFlags \in [assets : {"nil", "RequestOpen", "RequestClose"},
                      last : {"RequestOpen", "RequestClose"}, close : BOOLEAN]
    BY DEF NewFlags
  <2> QED
    BY <2>1 DEF PanelType
<1>3. ListType
  BY DEF ListType
<1>4. MaskType
  <2>1. count \in [inputs : 0..MaxInputs, starts : 0..MaxStarts]
    BY SMT
  <2>2. selected \in BOOLEAN /\ rebuilt \in BOOLEAN
    BY Zenon
  <2> QED
    BY <2>1, <2>2 DEF MaskType
<1> QED
  BY <1>1, <1>2, <1>3, <1>4 DEF TypeOK

\* The types of the model are an invariant.
THEOREM TypeCorrect == ListSpec => []TypeOK
<1>1. TypeOK /\ [ListNext]_vars => TypeOK'
  BY CacheTypeNext, PanelTypeNext, ListTypeNext, MaskTypeNext DEF TypeOK
<1> QED
  BY <1>1, InitType, PTL DEF ListSpec

-----------------------------------------------------------------------------
\* A tween that has just been started has at least as much time left as any other.
LEMMA NewestLast ==
  ASSUME PanelType, PanelBegin \/ Close
  PROVE  tweens' # {} /\ LastMoves'
<1>1. \A t \in tweens : t.left <= SlideTime
  BY ListAssumption DEF PanelType, Tween
<1>2. CASE PanelBegin
  <2> DEFINE new == [name |-> "PanelLeft", left |-> SlideTime, current |-> TRUE]
  <2>1. tweens' = {[t EXCEPT !.current = FALSE] : t \in tweens} \cup {new}
    BY <1>2 DEF PanelBegin
  <2>2. \A t \in tweens : [t EXCEPT !.current = FALSE].left <= SlideTime
    BY <1>1 DEF PanelType, Tween
  <2>3. new \in tweens' /\ \A u \in tweens' : u.left <= new.left
    <3>1. \A w \in tweens' : w = new \/ \E t \in tweens : w = [t EXCEPT !.current = FALSE]
      BY <2>1
    <3>2. \A w \in tweens' : w = new \/ w.left <= SlideTime
      BY <2>2, <3>1, Zenon
    <3> QED
      BY <2>1, <3>2, ListAssumption
  <2> QED
    BY <2>3 DEF LastMoves
<1>3. CASE Close
  <2> DEFINE new == [name |-> "PanelRight", left |-> SlideTime, current |-> TRUE]
  <2>1. tweens' = tweens \cup {new}
    BY <1>3 DEF Close
  <2>2. new \in tweens' /\ \A u \in tweens' : u.left <= new.left
    BY <1>1, <2>1, ListAssumption
  <2> QED
    BY <2>2 DEF LastMoves
<1> QED
  BY <1>2, <1>3

\* The tween that ends last decides where the panel is and what state it is in.
LEMMA TickSettles ==
  ASSUME PanelType, LastMoves, Settled, NEW dt \in 1..MaxTick, Tick(dt)
  PROVE  LastMoves' /\ Settled'
<1> DEFINE expired == Expired(dt)
           shown   == {t \in expired : t.current}
<1>1. tweens' = {[t EXCEPT !.left = @ - dt] : t \in tweens \ expired}
  BY Zenon DEF Tick
<1>2. CASE tweens = {}
  <2>1. expired = {} /\ shown = {}
    BY <1>2 DEF Expired
  <2>2. UNCHANGED <<started, tie, pos>>
    BY <1>2, <2>1 DEF Tick
  <2>3. tweens' = {}
    BY <1>1, <1>2
  <2> QED
    BY <1>2, <2>2, <2>3 DEF LastMoves, Settled
<1>3. CASE tweens # {}
  <2>1. PICK t \in tweens : t.current /\ \A u \in tweens : u.left <= t.left
    BY <1>3 DEF LastMoves
  <2>2. \A u \in tweens : u.left \in Nat
    BY ListAssumption DEF PanelType, Tween
  <2>3. CASE t \in expired
    <3>1. expired = tweens /\ t \in shown
      BY <2>1, <2>2, <2>3, ListAssumption DEF Expired
    <3>2. tweens' = {}
      BY <1>1, <3>1
    <3>3. tie' = (\E v, u \in expired : v.name # u.name)
      BY <3>1, Zenon DEF Tick
    <3>4. PICK last \in expired :
            started' = SlideDone(last) /\ \E v \in shown : pos' = Goal(v)
      BY <3>1, Zenon DEF Tick
    <3>5. PICK v \in shown : pos' = Goal(v)
      BY <3>4
    <3>6. ~tie' => v.name = last.name
      BY <3>3, <3>4, <3>5
    <3> QED
      BY <3>2, <3>4, <3>5, <3>6 DEF LastMoves, Settled, SlideDone, Goal
  <2>4. CASE t \notin expired
    <3> DEFINE aged(u) == [u EXCEPT !.left = @ - dt]
    <3>1. \A u \in tweens : aged(u).left = u.left - dt /\ aged(u).current = u.current
      BY DEF PanelType, Tween
    <3>2. aged(t) \in tweens'
      BY <1>1, <2>4
    <3>3. \A u \in tweens' : u.left <= aged(t).left
      <4>1. \A u \in tweens : aged(u).left <= aged(t).left
        BY <2>1, <2>2, <3>1, ListAssumption
      <4>2. \A w \in tweens' : \E u \in tweens : w = aged(u)
        BY <1>1
      <4> QED
        BY <4>1, <4>2, Zenon
    <3> QED
      BY <2>1, <3>1, <3>2, <3>3 DEF LastMoves, Settled
  <2> QED
    BY <2>3, <2>4
<1> QED
  BY <1>2, <1>3

\* Every step keeps the order of the tweens and settles the panel.
LEMMA SettledNext ==
  ASSUME TypeOK, LastMoves, Settled, [ListNext]_vars
  PROVE  LastMoves' /\ Settled'
<1>0. PanelType
  BY DEF TypeOK
<1>1. ASSUME NEW dt \in 1..MaxTick, Tick(dt) PROVE LastMoves' /\ Settled'
  BY <1>0, <1>1, TickSettles
<1>2. CASE PanelBegin \/ Close
  BY <1>0, <1>2, NewestLast DEF Settled
<1>3. CASE UNCHANGED <<started, tweens, pos, tie>>
  BY <1>3 DEF LastMoves, Settled
<1>4. CASE CheckFlags
  BY <1>2, <1>3, <1>4 DEF CheckFlags
<1>5. CASE Draw
  BY <1>2, <1>3, <1>5 DEF Draw
<1>6. CASE Stop \/ DrawRaises
  BY <1>6 DEF Stop, DrawRaises, End, LastMoves, Settled
<1>7. CASE AssetListFolderCancel
  BY <1>7 DEF AssetListFolderCancel, Click, LastMoves, Settled
<1>8. CASE Collect
  BY <1>3, <1>8 DEF Collect, CollectStart, CollectFolder, CollectFails, CollectFile,
    CollectNothing, Resume, panel
<1>9. CASE \/ NoClick \/ Start \/ ChangeDisk \/ Enter \/ IconAssets \/ IconClose
           \/ RefreshFiles \/ SelectedAsset \/ UNCHANGED vars
  BY <1>3, <1>9 DEF NoClick, Start, ChangeDisk, Enter, IconAssets, IconClose, RefreshFiles,
    SelectedAsset, Click, vars, panel
<1>10. CASE \E k \in Filters : AssetListToggle(k)
  BY <1>3, <1>10 DEF AssetListToggle, Click
<1> QED
  BY <1>1, <1>4, <1>5, <1>6, <1>7, <1>8, <1>9, <1>10 DEF ListNext, Frame, User

-----------------------------------------------------------------------------
\* What the collector keeps.
Listing == Collecting /\ ListComplete /\ ListFiltered

\* A collector that has filtered all but some files goes on to filter one of them, or ends.
LEMMA FilterCollects ==
  ASSUME TypeOK, CacheTypeOK', power = "on", cacheState = 0, power' = "on", phase' = "draw",
         UNCHANGED <<mask, oldMask, rebuilt, flips>>, ~rebuilt,
         NEW some \in SUBSET UNION {folderTbl'[d] : d \in Folder},
         listed' = Folder,
         assetlist \subseteq Collected' \ some,
         \A f \in Collected' \ some :
           Kind[f] \in flips \/ (f \in assetlist <=> Kind[f] \in mask),
         FilterFiles(some, Collected' \ some)
  PROVE  Listing'
<1> DEFINE all == UNION {folderTbl'[d] : d \in Folder}
<1>0. all \subseteq File /\ Collected' = {f \in all : Kind[f] # "other"}
  BY DEF CacheTypeOK, Collected
<1>1. CASE some = {}
  BY <1>1 DEF FilterFiles, Listing, Collecting, ListComplete, ListFiltered, FilteredByName
<1>2. CASE some # {}
  <2>1. PICK f \in some : FilterFile(f, some \ {f}, Collected' \ some)
    BY <1>2 DEF FilterFiles
  <2>2. CASE Kind[f] = "unmapped"
    BY <2>1, <2>2 DEF FilterFile, Die, Listing, Collecting, ListComplete, ListFiltered
  <2>3. CASE Kind[f] # "unmapped"
    <3>1. /\ co' = "files" /\ todo' = some \ {f} /\ cacheState' = 0
          /\ assetlist' = IF Kind[f] \in mask THEN assetlist \cup {f} ELSE assetlist
          /\ allfiles' = IF Kind[f] = "other" THEN Collected' \ some
                         ELSE (Collected' \ some) \cup {f}
      BY <2>1, <2>3 DEF FilterFile
    <3>2. f \in all /\ todo' \subseteq all
      BY <3>1
    <3>3. allfiles' = Collected' \ todo'
      BY <1>0, <3>1, <3>2
    <3>4. "other" \notin mask
      BY ListAssumption DEF TypeOK, MaskType
    <3>5. FilteredByName'
      BY <1>0, <3>1, <3>2, <3>4 DEF FilteredByName
    <3> QED
      BY <3>1, <3>2, <3>3, <3>5
      DEF Listing, Collecting, ListComplete, ListFiltered, FilteredByName
  <2> QED
    BY <2>2, <2>3
<1> QED
  BY <1>1, <1>2

\* A collector that has not filtered anything lists a folder, or begins to filter.
LEMMA NextFolderCollects ==
  ASSUME TypeOK, CacheTypeOK', power = "on", cacheState = 0, power' = "on", phase' = "draw",
         UNCHANGED <<mask, oldMask, rebuilt, flips>>, ~rebuilt,
         todo = {}, assetlist = {},
         NextFolder({})
  PROVE  Listing'
<1>1. CASE listed' # Folder
  BY <1>1 DEF NextFolder, Listing, Collecting, ListComplete, ListFiltered
<1>2. CASE listed' = Folder
  <2> DEFINE all == UNION {folderTbl'[d] : d \in Folder}
  <2>1. Collected' \ all = {}
    BY DEF Collected
  <2>2. FilterFiles(all, Collected' \ all)
    BY <1>2, <2>1 DEF NextFolder
  <2>3. /\ assetlist \subseteq Collected' \ all
        /\ \A f \in Collected' \ all :
             Kind[f] \in flips \/ (f \in assetlist <=> Kind[f] \in mask)
    BY <2>1
  <2> HIDE DEF all
  <2>4. all \in SUBSET UNION {folderTbl'[d] : d \in Folder}
    BY DEF all
  <2> QED
    BY <1>2, <2>2, <2>3, <2>4, FilterCollects
<1> QED
  BY <1>1, <1>2

\* Every step keeps what the collector has done.
LEMMA ListingNext ==
  ASSUME TypeOK, Listing, [ListNext]_vars PROVE Listing'
<1>0. Collecting /\ ListComplete /\ ListFiltered
  BY DEF Listing
<1>1. CASE CollectStart
  <2>1. Resume("new") /\ NextFolder({})
    BY <1>1 DEF CollectStart
  <2>2. todo = {} /\ assetlist = {} /\ ~rebuilt
    BY <1>0, <2>1 DEF Resume, Collecting
  <2> QED
    BY <2>1, <2>2, CacheTypeNext, NextFolderCollects DEF Resume, masks
<1>2. CASE CollectFolder
  <2>1. Resume("listing") /\ NextFolder(allfiles)
    BY <1>2 DEF CollectFolder
  <2>2. todo = {} /\ assetlist = {} /\ allfiles = {} /\ ~rebuilt
    BY <1>0, <2>1 DEF Resume, Collecting
  <2> QED
    BY <2>1, <2>2, CacheTypeNext, NextFolderCollects DEF Resume, masks
<1>3. CASE CollectFails
  BY <1>0, <1>3
  DEF CollectFails, Resume, Die, masks, Listing, Collecting, ListComplete, ListFiltered
<1>4. CASE CollectFile
  <2>1. Resume("files") /\ UNCHANGED tables /\ FilterFiles(todo, allfiles)
    BY <1>4 DEF CollectFile
  <2>2. Collected' = Collected
    BY <2>1 DEF tables, Collected
  <2>3. /\ listed' = Folder /\ todo \subseteq UNION {folderTbl'[d] : d \in Folder}
        /\ allfiles = Collected' \ todo
        /\ ~rebuilt
        /\ assetlist \subseteq Collected' \ todo
        /\ \A f \in Collected' \ todo :
             Kind[f] \in flips \/ (f \in assetlist <=> Kind[f] \in mask)
    BY <1>0, <2>1, <2>2 DEF Resume, Collecting, FilteredByName, tables
  <2> QED
    BY <2>1, <2>3, CacheTypeNext, FilterCollects DEF Resume, masks
<1>5. CASE CheckFlags
  <2>1. /\ power' = "on" /\ power = "on" /\ UNCHANGED <<listed, folderTbl>>
        /\ phase' = "input" => started' = "INACTIVE"
    BY <1>5 DEF CheckFlags, cache, tables
  <2>2. CASE PanelBegin
    BY <2>1, <2>2 DEF PanelBegin, Listing, Collecting, ListComplete, ListFiltered
  <2>3. CASE UNCHANGED <<list, mask, oldMask, rebuilt, flips>>
    BY <1>0, <2>1, <2>3
    DEF list, Listing, Collecting, ListComplete, ListFiltered, FilteredByName, Filtered, Collected
  <2> QED
    BY <1>5, <2>2, <2>3 DEF CheckFlags
<1>6. CASE Draw
  <2>1. /\ power' = "on" /\ power = "on" /\ UNCHANGED <<listed, folderTbl>>
        /\ UNCHANGED <<co, todo, cacheState, allfiles, mask>>
        /\ assetlist' = Shown
        /\ oldMask' = IF cacheState = 1 THEN mask ELSE oldMask
        /\ rebuilt' = (rebuilt \/ Rebuild)
        /\ flips' = IF Rebuild THEN {} ELSE flips
    BY <1>6 DEF Draw, cache, tables
  <2>2. CASE cacheState = 1
    BY <1>0, <2>1, <2>2
    DEF Shown, Rebuild, Listing, Collecting, ListComplete, ListFiltered, FilteredByName, Filtered,
      Collected
  <2>3. CASE cacheState # 1
    BY <1>0, <2>1, <2>3
    DEF Shown, Rebuild, Listing, Collecting, ListComplete, ListFiltered, FilteredByName, Filtered,
      Collected
  <2> QED
    BY <2>2, <2>3
<1>7. CASE Stop \/ DrawRaises
  BY <1>7 DEF Stop, DrawRaises, End, Listing, Collecting, ListComplete, ListFiltered
<1>8. CASE Start
  <2>1. /\ power # "on" /\ UNCHANGED <<list, masks, phase, started>>
    BY <1>8 DEF Start, CacheBegin, panel
  <2> QED
    BY <1>0, <2>1 DEF list, masks, Listing, Collecting, ListComplete, ListFiltered
<1>9. CASE RefreshFiles
  BY <1>9, <1>0 DEF RefreshFiles, Click, cache, Listing, Collecting, ListComplete, ListFiltered
<1>10. ASSUME NEW k \in Filters, AssetListToggle(k) PROVE Listing'
  <2>1. mask' # mask
    BY <1>10 DEF AssetListToggle
  <2>2. /\ phase = "input" /\ phase' = "idle" /\ started # "INACTIVE"
        /\ UNCHANGED rebuilt
        /\ flips' = IF cacheState = 0 THEN flips \cup {k} ELSE flips
        /\ mask' = IF k \in mask THEN mask \ {k} ELSE mask \cup {k}
        /\ UNCHANGED <<power, listed, folderTbl, co, todo, cacheState, assetlist, allfiles, oldMask>>
    BY <1>10 DEF AssetListToggle, Click, Drawn, Untouched, cache, tables
  <2>3. co = "files" => cacheState = 0
    BY <1>0 DEF TypeOK, ListType, Collecting
  <2>4. cacheState = 1 => oldMask = mask
    BY <1>0, <2>2 DEF Collecting
  <2> QED
    BY <1>0, <2>1, <2>2, <2>3, <2>4
    DEF Listing, Collecting, ListComplete, ListFiltered, FilteredByName, Collected
<1>11. ASSUME UNCHANGED <<power, listed, folderTbl, list, mask, oldMask, rebuilt, flips>>,
              phase' # "input" \/ UNCHANGED <<phase, started>>
       PROVE  Listing'
  BY <1>0, <1>11
  DEF list, Listing, Collecting, ListComplete, ListFiltered, FilteredByName, Filtered, Collected
<1>12. CASE \E dt \in 1..MaxTick : Tick(dt)
  BY <1>11, <1>12 DEF Tick, cache, tables
<1>13. CASE \/ CollectNothing \/ NoClick \/ ChangeDisk \/ Enter \/ UNCHANGED vars
  BY <1>11, <1>13 DEF CollectNothing, NoClick, ChangeDisk, AddFile, RemoveFile, Enter, vars,
    cache, tables, panel, masks
<1>14. CASE IconAssets \/ IconClose \/ AssetListFolderCancel \/ SelectedAsset
  BY <1>11, <1>14 DEF IconAssets, IconClose, AssetListFolderCancel, SelectedAsset, Click,
    Untouched, cache, tables, list
<1> QED
  BY <1>1, <1>2, <1>3, <1>4, <1>5, <1>6, <1>7, <1>8, <1>9, <1>10, <1>12, <1>13, <1>14
  DEF ListNext, Frame, User, Collect

-----------------------------------------------------------------------------
\* What was collected is in the table of files.
Covered == todo \cup assetlist \cup allfiles \subseteq cacheTbl

\* Filtering collects nothing but the files it is given.
LEMMA FilterCovers ==
  ASSUME NEW some, NEW files, FilterFiles(some, files),
         some \cup files \cup assetlist \subseteq cacheTbl'
  PROVE  Covered'
<1>1. CASE some = {}
  BY <1>1 DEF FilterFiles, Covered
<1>2. CASE some # {}
  <2>1. PICK f \in some : FilterFile(f, some \ {f}, files)
    BY <1>2 DEF FilterFiles
  <2> QED
    BY <2>1 DEF FilterFile, Die, Covered
<1> QED
  BY <1>1, <1>2

\* Nor does going on to the next folder.
LEMMA NextFolderCovers ==
  ASSUME NEW files, NextFolder(files), \A d \in Folder : folderTbl'[d] \subseteq cacheTbl',
         todo \cup files \cup assetlist \subseteq cacheTbl'
  PROVE  Covered'
<1>1. CASE listed' # Folder
  BY <1>1 DEF NextFolder, Covered
<1>2. CASE listed' = Folder
  <2>1. UNION {folderTbl'[d] : d \in Folder} \subseteq cacheTbl'
    OBVIOUS
  <2> QED
    BY <1>2, <2>1, FilterCovers DEF NextFolder
<1> QED
  BY <1>1, <1>2

\* Every step keeps the tables in agreement, or loses something.
LEMMA TablesNext ==
  ASSUME TypeOK, Collecting, TablesAgree, [ListNext]_vars PROVE TablesAgree'
<1> SUFFICES ASSUME ~cut', gone' = {}
             PROVE  /\ power' # "raised"
                    /\ cacheTbl' \subseteq disk' /\ store'.cur \subseteq disk'
                    /\ store'.there => store'.whole
                    /\ \A d \in Folder : folderTbl'[d] \subseteq cacheTbl'
                                         /\ store'.folders[d] \subseteq store'.cur
                    /\ Covered'
  BY DEF TablesAgree, Covered
<1>0. CacheTypeOK /\ ListType
  BY DEF TypeOK
<1>1. ~cut /\ gone = {}
  <2>1. gone \subseteq gone' /\ (cut => cut')
    <3>1. CASE Stop
      BY <3>1 DEF Stop, CacheFinish, Crash, CrashInSave
    <3>2. CASE Start \/ ChangeDisk
      BY <3>2 DEF Start, CacheBegin, ChangeDisk, AddFile, RemoveFile
    <3>3. CASE CollectStart \/ CollectFolder \/ CollectFails \/ CollectFile \/ DrawRaises
      BY <3>3 DEF CollectStart, CollectFolder, CollectFails, CollectFile, Resume, DrawRaises
    <3>4. CASE \/ CheckFlags \/ CollectNothing \/ Draw \/ NoClick \/ Enter \/ IconAssets
               \/ IconClose \/ AssetListFolderCancel \/ RefreshFiles \/ SelectedAsset
               \/ UNCHANGED vars
      BY <3>4 DEF CheckFlags, CollectNothing, Draw, NoClick, Enter, IconAssets, IconClose,
        AssetListFolderCancel, RefreshFiles, SelectedAsset, Click, vars, cache
    <3>5. CASE \/ \E dt \in 1..MaxTick : Tick(dt)
               \/ \E k \in Filters : AssetListToggle(k)
      <4>1. UNCHANGED cache
        BY <3>5 DEF Tick, AssetListToggle, Click
      <4> QED
        BY <4>1 DEF cache
    <3> QED
      BY <3>1, <3>2, <3>3, <3>4, <3>5 DEF ListNext, Frame, User, Collect
  <2> QED
    BY <2>1
<1>2. /\ power # "raised"
      /\ cacheTbl \subseteq disk /\ store.cur \subseteq disk
      /\ store.there => store.whole
      /\ \A d \in Folder : folderTbl[d] \subseteq cacheTbl /\ store.folders[d] \subseteq store.cur
      /\ Covered
  BY <1>1 DEF TablesAgree, Covered
<1>3. CASE Stop
  <2>1. ~CrashInSave
    BY DEF CrashInSave
  <2>2. store' \in {store, Saved} /\ Forget /\ disk' = disk /\ power' = "off" /\ End
    BY <1>3, <2>1 DEF Stop, CacheFinish, Crash
  <2>3. \A d \in Folder : folderTbl'[d] = {}
    BY <2>2 DEF Forget, NoFiles
  <2>4. Covered'
    BY <2>2 DEF End, Covered
  <2>5. CASE store' = store
    BY <1>2, <2>2, <2>3, <2>4, <2>5 DEF Forget
  <2>6. CASE store' = Saved
    <3>1. store'.cur = cacheTbl /\ store'.whole /\ store'.folders = folderTbl
      BY <2>6 DEF Saved
    <3> QED
      BY <1>2, <2>2, <2>3, <2>4, <3>1 DEF Forget
  <2> QED
    BY <2>2, <2>5, <2>6
<1>4. CASE Start
  <2>1. UNCHANGED <<disk, store, list>> /\ power # "on"
    BY <1>4 DEF Start, CacheBegin
  <2>2. Covered'
    BY <2>1 DEF Collecting, list, Covered
  <2>3. CASE store.there
    <3>1. store.whole /\ LoadCache
      BY <1>2, <1>4, <2>3 DEF Start, CacheBegin
    <3>2. /\ power' = "on"
          /\ cacheTbl' = (store.cur \cap disk) \ Unreadable
          /\ folderTbl' = [d \in Folder |-> store.folders[d] \ Unreadable]
      BY <3>1 DEF LoadCache
    <3> QED
      BY <1>2, <2>1, <2>2, <3>2
  <2>4. CASE ~store.there
    BY <1>2, <1>4, <2>1, <2>2, <2>4 DEF Start, CacheBegin, ResetCache, tables
  <2> QED
    BY <2>3, <2>4
<1>5. CASE ChangeDisk
  <2>1. PICK f \in File : AddFile(f) \/ RemoveFile(f)
    BY <1>5 DEF ChangeDisk
  <2>2. AddFile(f) /\ UNCHANGED list
    BY <1>5, <2>1 DEF ChangeDisk, RemoveFile
  <2> QED
    BY <1>2, <2>2 DEF AddFile, tables, list, Covered
<1>6. CASE CollectFolder
  <2>1. /\ UNCHANGED <<disk, store, power>> /\ at \in Folder
        /\ AddFolderToCache(at) /\ NextFolder(allfiles)
    BY <1>0, <1>6 DEF CollectFolder, Resume, ListType
  <2>2. OnDisk(at) \subseteq disk
    BY DEF OnDisk
  <2>3. cacheTbl' = cacheTbl \cup OnDisk(at)
    BY <2>1 DEF AddFolderToCache
  <2>4. \A d \in Folder : folderTbl'[d] \subseteq cacheTbl'
    BY <1>0, <1>2, <2>1, <2>3 DEF AddFolderToCache, CacheTypeOK
  <2>5. Covered'
    <3>1. todo \cup allfiles \cup assetlist \subseteq cacheTbl'
      BY <1>2, <2>3 DEF Covered
    <3> QED
      BY <2>1, <2>4, <3>1, NextFolderCovers
  <2> QED
    BY <1>2, <2>1, <2>2, <2>3, <2>4, <2>5
<1>7. CASE CollectFails
  <2>1. UNCHANGED <<disk, store, power, assetlist, allfiles, folderTbl>> /\ todo' = {}
    BY <1>7 DEF CollectFails, Resume, Die, AddFolderFails, tables
  <2>2. cacheTbl \subseteq cacheTbl' /\ cacheTbl' \subseteq disk
    BY <1>2, <1>7 DEF CollectFails, AddFolderFails, OnDisk, tables
  <2> QED
    BY <1>2, <2>1, <2>2 DEF Covered
<1>8. CASE DrawRaises
  <2>1. Shown \subseteq assetlist \cup allfiles
    BY DEF Shown, Filtered
  <2> QED
    BY <1>2, <1>8, <2>1 DEF DrawRaises, Unknown, Covered
<1>9. ASSUME UNCHANGED <<disk, cacheTbl, folderTbl, store, power>>, Covered'
      PROVE  /\ power' # "raised"
             /\ cacheTbl' \subseteq disk' /\ store'.cur \subseteq disk'
             /\ store'.there => store'.whole
             /\ \A d \in Folder : folderTbl'[d] \subseteq cacheTbl'
                                  /\ store'.folders[d] \subseteq store'.cur
             /\ Covered'
  BY <1>2, <1>9
<1>10. CASE CollectStart
  <2>1. UNCHANGED <<disk, cacheTbl, folderTbl, store, power>> /\ NextFolder({})
    BY <1>10 DEF CollectStart, Resume, tables
  <2>2. Covered'
    <3>1. todo \cup {} \cup assetlist \subseteq cacheTbl'
      BY <1>2, <2>1 DEF Covered
    <3>2. \A d \in Folder : folderTbl'[d] \subseteq cacheTbl'
      BY <1>2, <2>1
    <3> QED
      BY <2>1, <3>1, <3>2, NextFolderCovers
  <2> QED
    BY <1>9, <2>1, <2>2
<1>11. CASE CollectFile
  <2>1. UNCHANGED <<disk, cacheTbl, folderTbl, store, power>> /\ FilterFiles(todo, allfiles)
    BY <1>11 DEF CollectFile, Resume, tables
  <2>2. Covered'
    <3>1. todo \cup allfiles \cup assetlist \subseteq cacheTbl'
      BY <1>2, <2>1 DEF Covered
    <3> QED
      BY <2>1, <3>1, FilterCovers
  <2> QED
    BY <1>9, <2>1, <2>2
<1>12. CASE CheckFlags
  BY <1>2, <1>9, <1>12 DEF CheckFlags, PanelBegin, cache, tables, list, Covered
<1>13. CASE Draw
  <2>1. Shown \subseteq assetlist \cup allfiles
    BY DEF Shown, Filtered
  <2>2. UNCHANGED <<cache, todo, allfiles>> /\ assetlist' = Shown
    BY <1>13 DEF Draw
  <2> QED
    BY <1>2, <1>9, <2>1, <2>2 DEF cache, tables, Covered
<1>14. CASE RefreshFiles
  BY <1>2, <1>9, <1>14 DEF RefreshFiles, Click, cache, tables, Covered
<1>15. CASE UNCHANGED <<cache, list>>
  BY <1>2, <1>9, <1>15 DEF cache, tables, list, Covered
<1>16. CASE \/ CollectNothing \/ NoClick \/ Enter \/ IconAssets \/ IconClose
            \/ AssetListFolderCancel \/ SelectedAsset \/ UNCHANGED vars
  BY <1>15, <1>16 DEF CollectNothing, NoClick, Enter, IconAssets, IconClose,
    AssetListFolderCancel, SelectedAsset, Click, Untouched, vars, list
<1>17. CASE \/ \E dt \in 1..MaxTick : Tick(dt)
            \/ \E k \in Filters : AssetListToggle(k)
  BY <1>15, <1>17 DEF Tick, AssetListToggle, Click, Untouched, list
<1> QED
  BY <1>3, <1>4, <1>5, <1>6, <1>7, <1>8, <1>10, <1>11, <1>12, <1>13, <1>14, <1>16, <1>17
  DEF ListNext, Frame, User, Collect

-----------------------------------------------------------------------------
\* The inductive invariant.
Inv == TypeOK /\ LastMoves /\ Settled /\ Listing /\ TablesAgree

\* It holds at the start and every step keeps it.
LEMMA Invariance == ListSpec => []Inv
<1>1. ListInit => Inv
  <2> SUFFICES ASSUME ListInit PROVE Inv
    OBVIOUS
  <2>1. LastMoves /\ Settled
    BY DEF ListInit, LastMoves, Settled
  <2>2. Listing
    BY DEF ListInit, CacheInit, Listing, Collecting, ListComplete, ListFiltered
  <2>3. TablesAgree
    <3>1. /\ power = "off" /\ cacheTbl = {} /\ store.cur = {} /\ ~store.there
          /\ todo = {} /\ assetlist = {} /\ allfiles = {}
      BY DEF ListInit, CacheInit
    <3>2. \A d \in Folder : folderTbl[d] = {} /\ store.folders[d] = {}
      BY DEF ListInit, CacheInit, NoFiles
    <3> QED
      BY <3>1, <3>2 DEF TablesAgree
  <2> QED
    BY <2>1, <2>2, <2>3, InitType DEF Inv
<1>2. Inv /\ [ListNext]_vars => Inv'
  <2> SUFFICES ASSUME Inv, [ListNext]_vars PROVE Inv'
    OBVIOUS
  <2>1. TypeOK /\ LastMoves /\ Settled /\ Listing /\ TablesAgree
    BY DEF Inv
  <2>2. TypeOK'
    BY <2>1, CacheTypeNext, PanelTypeNext, ListTypeNext, MaskTypeNext DEF TypeOK
  <2>3. LastMoves' /\ Settled'
    BY <2>1, SettledNext
  <2>4. Listing'
    BY <2>1, ListingNext
  <2>5. TablesAgree'
    BY <2>1, TablesNext DEF Listing
  <2> QED
    BY <2>2, <2>3, <2>4, <2>5 DEF Inv
<1> QED
  BY <1>1, <1>2, PTL DEF ListSpec

\* Whatever buttons are released during a slide, and however many tweens its frames have
\* started, the panel ends where its state says, unless two opposite ones end together.
THEOREM PanelSettles == ListSpec => []Settled
<1>1. Inv => Settled
  BY DEF Inv
<1> QED
  BY <1>1, Invariance, PTL

\* A collection that CollectAllFiles has ended has found all files of all cached folders.
THEOREM ListIsComplete == ListSpec => []ListComplete
<1>1. Inv => ListComplete
  BY DEF Inv, Listing
<1> QED
  BY <1>1, Invariance, PTL

\* When no filter button is pending, the list that CollectAllFiles made is the files whose
\* names pass the mask, and the one that FilterAssetList made in its place those whose paths
\* do; only files of a filter that was switched during the collection may be missing or left.
THEOREM ListIsFiltered == ListSpec => []ListFiltered
<1>1. Inv => ListFiltered
  BY DEF Inv, Listing
<1> QED
  BY <1>1, Invariance, PTL

\* Neither LoadCache nor PanelAssetIcons raises before a file was removed from the disk or
\* SaveCache was cut short.
THEOREM CacheRaisesOnlyAfterLoss == ListSpec => []RaisesOnlyAfterLoss
<1>1. Inv => RaisesOnlyAfterLoss
  BY DEF Inv, TablesAgree, RaisesOnlyAfterLoss
<1> QED
  BY <1>1, Invariance, PTL
=============================================================================
