----------------------------- MODULE AssetList -----------------------------
(***************************************************************************)
(* The asset panel of the world editor, frame by frame: the request flags  *)
(* of scripts/panels/editor_main.lua, the frame of scripts/states/editor/  *)
(* editor_base.lua, and scripts/panels/editor_assetlist.lua with its       *)
(* sliding tweens and the coroutine that collects the files through the    *)
(* cache, one step per frame.  The program that creates the cache and      *)
(* enters the screens is not in the repository.                            *)
(***************************************************************************)
EXTENDS EditorCache, Naturals

CONSTANTS
  Kind,       \* what filters and FilterMap know of the extension of each file's name
  Filters,    \* the filter buttons
  SlideTime,  \* duration of the tweens of the panel, in clock ticks
  MaxTick,    \* bound: the most ticks between two frames
  MaxInputs,  \* bound: how many buttons are released and files appear or disappear
  MaxStarts   \* bound: how often the editor is started

\* Some extensions are in filters and not in FilterMap (gls, lwo, wav, ...): "unmapped".
ASSUME ListAssumption ==
  /\ Kind \in [File -> {"lua", "mesh", "tex", "svg", "unmapped", "other"}]
  /\ Filters \subseteq {"lua", "mesh", "tex", "svg"}
  /\ SlideTime \in Nat \ {0} /\ MaxTick \in Nat \ {0}
  /\ MaxInputs \in Nat /\ MaxStarts \in Nat

VARIABLES
  phase,       \* "idle", then within a frame "flags", "collect", "draw", "input"
  front,       \* the world editor is the screen in front
  started,     \* ASSET_LIST_...
  tweens,      \* the running tweens of the panel
  pos,         \* panel_move.pos: "in", "out", or on its way
  flags,       \* the flags assets, assets_last and close
  co,          \* collectfiles: "new", "listing", "files", or "dead"
  at,          \* the folder it is listing
  todo,        \* the files it has yet to filter
  cacheState,  \* cache_state: 1 when the collection is over
  assetlist,   \* the files shown
  allfiles,    \* the files collected
  mask,        \* filterMask
  oldMask,     \* oldFilterMask
  projMask,    \* projectInfo.filterMask
  selected,    \* an asset is selected, to be dropped by the next press
  tie,         \* ghost: the last tweens to end were of both kinds and ended together
  rebuilt,     \* ghost: assetlist was made by FilterAssetList, not by CollectAllFiles
  flips,       \* ghost: the filters that were switched while it was being collected
  count        \* bounds: inputs and starts so far

panel == <<front, started, tweens, pos, flags, tie>>
list == <<co, at, todo, cacheState, assetlist, allfiles>>
masks == <<mask, oldMask, projMask, rebuilt, flips>>
vars == <<cache, phase, panel, list, masks, selected, count>>

NoFolder == "none"
Tween == [name : {"PanelLeft", "PanelRight"}, left : 1..SlideTime, current : BOOLEAN]
NewFlags == [assets |-> "nil", last |-> "RequestClose", close |-> FALSE]

ListInit ==
  /\ CacheInit
  /\ phase = "idle" /\ front = TRUE /\ started = "INACTIVE" /\ tweens = {} /\ pos = "in"
  /\ flags = NewFlags /\ tie = FALSE
  /\ co = "dead" /\ at = NoFolder /\ todo = {} /\ cacheState = 0
  /\ assetlist = {} /\ allfiles = {}
  /\ mask = {} /\ oldMask = {} /\ projMask = Filters
  /\ rebuilt = FALSE /\ flips = {}
  /\ selected = FALSE
  /\ count = [inputs |-> 0, starts |-> 0]

\* The process ends, and its Lua state with it.
End ==
  /\ phase' = "idle" /\ front' = TRUE /\ started' = "INACTIVE" /\ tweens' = {} /\ pos' = "in"
  /\ flags' = NewFlags /\ tie' = FALSE
  /\ co' = "dead" /\ at' = NoFolder /\ todo' = {} /\ cacheState' = 0
  /\ assetlist' = {} /\ allfiles' = {}
  /\ mask' = {} /\ oldMask' = {} /\ rebuilt' = FALSE /\ flips' = {}
  /\ selected' = FALSE
  /\ UNCHANGED count

\* The editor is left between two frames, or dies.  The project may have been saved.
Stop ==
  /\ phase = "idle"
  /\ CacheFinish \/ Crash \/ CrashInSave
  /\ End /\ projMask' \in {projMask, Filters}

Start ==
  /\ CacheBegin
  /\ count.starts < MaxStarts /\ count' = [count EXCEPT !.starts = @ + 1]
  /\ UNCHANGED <<phase, panel, list, masks, selected>>

Input == count.inputs < MaxInputs /\ count' = [count EXCEPT !.inputs = @ + 1]

ChangeDisk ==
  /\ Input
  /\ \E f \in File : AddFile(f) \/ RemoveFile(f)
  /\ UNCHANGED <<phase, panel, list, masks, selected>>

\* The extension starts after the first dot, of the name where files are collected and of
\* the whole path elsewhere: with a dot in a folder's name it is none that is known.
PathKind(f) == IF f \in Unreadable THEN "other" ELSE Kind[f]

-----------------------------------------------------------------------------
Goal(t) == IF t.name = "PanelLeft" THEN "out" ELSE "in"

\* Faulty variant of SlideDone: the callback does not look at its argument.
SlideDone_Active(t) == "ACTIVE"

\* AssetListSlideDone, and Finish of the panel, for the tween that is finished last.
SlideDone(t) == IF t.name = "PanelLeft" THEN "ACTIVE" ELSE "INACTIVE"

\* Faulty variant of Expired: a tween whose time is just up is not over.
Expired_Late(dt) == {t \in tweens : t.left < dt}

Expired(dt) == {t \in tweens : t.left <= dt}

\* Gcairo:Begin: tween.update eases all tweens and then finishes the expired ones, in the
\* order of a hash table.  Only tweens of the present panel_move show.
Tick(dt) ==
  LET expired == Expired(dt)
      shown   == {t \in expired : t.current}
  IN  /\ power = "on" /\ phase = "idle"
      /\ phase' = IF front THEN "flags" ELSE "idle"
      /\ tweens' = {[t EXCEPT !.left = @ - dt] : t \in tweens \ expired}
      /\ IF expired = {}
         THEN UNCHANGED <<started, tie>>
         ELSE /\ tie' = (\E t, u \in expired : t.name # u.name)
              /\ \E last \in expired :
                   /\ started' = SlideDone(last)
                   /\ shown # {} =>
                        \E t \in shown : (last.current => t = last) /\ pos' = Goal(t)
      /\ shown = {} =>
           pos' = IF \E t \in tweens : t.current THEN "moving" ELSE pos
      /\ projMask' = IF \E t \in expired : t.name = "PanelRight" THEN mask ELSE projMask
      /\ UNCHANGED <<cache, front, flags, list, mask, oldMask, rebuilt, flips, selected, count>>

-----------------------------------------------------------------------------
\* The panel's Begin makes a new panel_move, a new coroutine and a new list.
PanelBegin ==
  /\ started' = "SLIDEOUT"
  /\ tweens' = {[t EXCEPT !.current = FALSE] : t \in tweens}
               \cup {[name |-> "PanelLeft", left |-> SlideTime, current |-> TRUE]}
  /\ pos' = "in"
  /\ co' = "new" /\ at' = NoFolder /\ todo' = {} /\ cacheState' = 0 /\ assetlist' = {}
  /\ mask' = projMask /\ oldMask' = projMask /\ rebuilt' = FALSE /\ flips' = {}
  /\ selected' = FALSE
  /\ UNCHANGED allfiles

\* Close adds a tween to the present panel_move.
Close ==
  /\ started' = "SLIDEIN"
  /\ tweens' = tweens \cup {[name |-> "PanelRight", left |-> SlideTime, current |-> TRUE]}

\* Faulty variant of Request: nothing answers the close button.
Request_NoClose == IF started = "SLIDEOUT" THEN "RequestOpen" ELSE flags.assets

\* A panel that slides overrules the request.
Request ==
  CASE started = "SLIDEOUT" -> "RequestOpen"
    [] started = "SLIDEIN"  -> "RequestClose"
    [] OTHER                -> flags.assets

\* The end of CheckFlags: the close icon leaves the editor.
Exit == front' = ~flags.close

\* Faulty variant of Served: the request is not taken back.
Served_Keep ==
  [flags EXCEPT !.last = CASE started = "INACTIVE" -> "RequestClose"
                           [] started = "ACTIVE"   -> "RequestOpen"
                           [] OTHER                -> @]

\* The flags after CheckFlags: the button shows what the panel does.
Served ==
  [flags EXCEPT !.assets = "nil",
                !.last = CASE started = "INACTIVE" -> "RequestClose"
                           [] started = "ACTIVE"   -> "RequestOpen"
                           [] OTHER                -> @]

CheckFlags ==
  /\ power = "on" /\ phase = "flags"
  /\ flags' = Served
  /\ CASE Request = "RequestOpen"  -> PanelBegin
       [] Request = "RequestClose" ->
            Close /\ UNCHANGED <<pos, list, mask, oldMask, rebuilt, flips, selected>>
       [] OTHER                    ->
            UNCHANGED <<started, tweens, pos, list, mask, oldMask, rebuilt, flips, selected>>
  /\ IF started' = "INACTIVE" THEN phase' = "input" /\ Exit
                              ELSE phase' = "collect" /\ UNCHANGED front
  /\ UNCHANGED <<cache, projMask, tie, count>>

-----------------------------------------------------------------------------
(***************************************************************************)
(* The panel's Update resumes CollectAllFiles until it yields: when a      *)
(* folder is about to be listed, and after each file.  An error in it is   *)
(* the result of coroutine.resume, which nobody looks at.                  *)
(***************************************************************************)
Die == co' = "dead" /\ todo' = {} /\ at' = NoFolder /\ UNCHANGED <<cacheState, assetlist>>

\* Faulty variant of FilterFile: the mask is compared when the list is drawn.
FilterFile_All(f, rest, files) ==
  IF Kind[f] = "unmapped"
  THEN Die /\ allfiles' = files
  ELSE /\ co' = "files" /\ todo' = rest
       /\ assetlist' = IF Kind[f] = "other" THEN assetlist ELSE assetlist \cup {f}
       /\ allfiles' = IF Kind[f] = "other" THEN files ELSE files \cup {f}
       /\ UNCHANGED <<at, cacheState>>

\* Faulty variant of FilterFile: only the files that are shown are remembered.
FilterFile_Masked(f, rest, files) ==
  IF Kind[f] = "unmapped"
  THEN Die /\ allfiles' = files
  ELSE /\ co' = "files" /\ todo' = rest
       /\ assetlist' = IF Kind[f] \in mask THEN assetlist \cup {f} ELSE assetlist
       /\ allfiles' = IF Kind[f] \in mask THEN files \cup {f} ELSE files
       /\ UNCHANGED <<at, cacheState>>

\* One file: the mask of an unmapped extension is nil, which bit.band does not take.
FilterFile(f, rest, files) ==
  IF Kind[f] = "unmapped"
  THEN Die /\ allfiles' = files
  ELSE /\ co' = "files" /\ todo' = rest
       /\ assetlist' = IF Kind[f] \in mask THEN assetlist \cup {f} ELSE assetlist
       /\ allfiles' = IF Kind[f] = "other" THEN files ELSE files \cup {f}
       /\ UNCHANGED <<at, cacheState>>

FilterFiles(some, files) ==
  IF some = {}
  THEN /\ cacheState' = 1 /\ co' = "dead" /\ todo' = {} /\ allfiles' = files
       /\ UNCHANGED <<at, assetlist>>
  ELSE \E f \in some : FilterFile(f, some \ {f}, files)

\* CheckCacheFolder lists a folder that is not in the cache, after a yield.
NextFolder(files) ==
  IF listed' # Folder
  THEN /\ \E d \in Folder \ listed' : at' = d
       /\ co' = "listing" /\ allfiles' = files
       /\ UNCHANGED <<todo, cacheState, assetlist>>
  ELSE FilterFiles(UNION {folderTbl'[d] : d \in Folder}, files)

Resume(step) ==
  /\ power = "on" /\ phase = "collect" /\ cacheState = 0 /\ co = step /\ phase' = "draw"
  /\ UNCHANGED <<disk, store, power, gone, cut, panel, masks, selected, count>>

CollectStart == Resume("new") /\ UNCHANGED tables /\ NextFolder({})

CollectFolder == Resume("listing") /\ AddFolderToCache(at) /\ NextFolder(allfiles)

\* listfolder raises because the folder is gone, or a mesh or svg cannot be converted.
CollectFails ==
  /\ Resume("listing")
  /\ \/ UNCHANGED tables
     \/ \E f \in File : PathKind(f) \in {"mesh", "svg", "unmapped"} /\ AddFolderFails(at, f)
  /\ Die /\ UNCHANGED allfiles

CollectFile == Resume("files") /\ UNCHANGED tables /\ FilterFiles(todo, allfiles)

CollectNothing ==
  /\ power = "on" /\ phase = "collect" /\ phase' = "draw"
  /\ cacheState = 1 \/ co = "dead"
  /\ UNCHANGED <<cache, panel, list, masks, selected, count>>

-----------------------------------------------------------------------------
\* FilterAssetList: only a change of the mask makes a new list, once all is collected.
Filtered == {f \in allfiles : PathKind(f) \in mask}
Rebuild == oldMask # mask /\ cacheState = 1
Shown == IF Rebuild THEN Filtered ELSE assetlist

\* The rest of the panel's Update.  PanelAssetIcons indexes the file that GetFile returns;
\* a press of the mouse drops the selected asset and closes the panel.
DrawRaises ==
  /\ power = "on" /\ phase = "draw" /\ \E f \in Shown : Unknown(f)
  /\ power' = "raised" /\ Forget
  /\ End
  /\ UNCHANGED <<disk, store, gone, cut, projMask>>

Draw ==
  /\ power = "on" /\ phase = "draw" /\ \A f \in Shown : ~Unknown(f)
  /\ phase' = "input"
  /\ assetlist' = Shown
  /\ oldMask' = IF cacheState = 1 THEN mask ELSE oldMask
  /\ rebuilt' = (rebuilt \/ Rebuild)
  /\ flips' = IF Rebuild THEN {} ELSE flips
  /\ \/ selected /\ Close /\ selected' = FALSE
     \/ UNCHANGED <<started, tweens, selected>>
  /\ Exit
  /\ UNCHANGED <<cache, pos, flags, tie, co, at, todo, cacheState, allfiles, mask,
                 projMask, count>>

-----------------------------------------------------------------------------
\* Gcairo:Update: at most one button is released.
NoClick ==
  /\ power = "on" /\ phase = "input" /\ phase' = "idle"
  /\ UNCHANGED <<cache, panel, list, masks, selected, count>>

Click ==
  /\ power = "on" /\ phase = "input" /\ phase' = "idle"
  /\ Input
  /\ UNCHANGED <<cache, tweens, pos, tie, front, at, allfiles, oldMask, projMask>>

Untouched == UNCHANGED <<co, todo, cacheState, assetlist>>

IconAssets ==
  /\ Click
  /\ LET request == IF flags.last = "RequestClose" THEN "RequestOpen" ELSE "RequestClose"
     IN  flags' = [flags EXCEPT !.assets = request, !.last = request]
  /\ Untouched /\ UNCHANGED <<started, mask, rebuilt, flips, selected>>

IconClose ==
  /\ Click
  /\ flags' = [flags EXCEPT !.close = TRUE]
  /\ Untouched /\ UNCHANGED <<started, mask, rebuilt, flips, selected>>

\* The buttons of the panel are there if it was drawn in this frame.
Drawn == started # "INACTIVE"

AssetListFolderCancel ==
  /\ Click /\ Drawn
  /\ started' = "SLIDEIN"
  /\ Untouched /\ UNCHANGED <<flags, mask, rebuilt, flips, selected>>

AssetListToggle(k) ==
  /\ Click /\ Drawn
  /\ mask' = IF k \in mask THEN mask \ {k} ELSE mask \cup {k}
  /\ flips' = IF cacheState = 0 THEN flips \cup {k} ELSE flips
  /\ Untouched /\ UNCHANGED <<started, flags, rebuilt, selected>>

RefreshFiles ==
  /\ Click /\ Drawn /\ cacheState = 1
  /\ co' = "new" /\ todo' = {} /\ cacheState' = 0 /\ assetlist' = {}
  /\ rebuilt' = FALSE /\ flips' = {}
  /\ UNCHANGED <<started, flags, mask, selected>>

\* Only files that were converted have an icon to click.
SelectedAsset ==
  /\ Click /\ Drawn /\ \E f \in assetlist : PathKind(f) \in {"mesh", "svg"}
  /\ selected' = TRUE
  /\ Untouched /\ UNCHANGED <<started, flags, mask, rebuilt, flips>>

\* The screen is entered again; the panel is as it was left.
Enter ==
  /\ power = "on" /\ phase = "idle" /\ ~front
  /\ front' = TRUE /\ flags' = NewFlags
  /\ UNCHANGED <<cache, phase, started, tweens, pos, tie, list, masks, selected, count>>

-----------------------------------------------------------------------------
Collect == CollectStart \/ CollectFolder \/ CollectFails \/ CollectFile \/ CollectNothing

Frame ==
  \/ \E dt \in 1..MaxTick : Tick(dt)
  \/ CheckFlags \/ Collect \/ Draw \/ DrawRaises \/ NoClick

User ==
  \/ Start \/ Stop \/ ChangeDisk \/ Enter
  \/ IconAssets \/ IconClose \/ AssetListFolderCancel \/ RefreshFiles \/ SelectedAsset
  \/ \E k \in Filters : AssetListToggle(k)

ListNext == Frame \/ User

\* The application's loop keeps drawing frames; nobody has to press a button.
ListSpec == ListInit /\ [][ListNext]_vars /\ WF_vars(Frame)

-----------------------------------------------------------------------------
PanelType ==
  /\ phase \in {"idle", "flags", "collect", "draw", "input"} /\ front \in BOOLEAN
  /\ started \in {"INACTIVE", "SLIDEOUT", "ACTIVE", "SLIDEIN"}
  /\ tweens \subseteq Tween /\ pos \in {"in", "moving", "out"} /\ tie \in BOOLEAN
  /\ flags \in [assets : {"nil", "RequestOpen", "RequestClose"},
                last : {"RequestOpen", "RequestClose"}, close : BOOLEAN]

ListType ==
  /\ co \in {"new", "listing", "files", "dead"} /\ at \in Folder \cup {NoFolder}
  /\ co = "listing" => at \in Folder
  /\ todo \subseteq File /\ cacheState \in {0, 1}
  /\ assetlist \subseteq File /\ allfiles \subseteq File

MaskType ==
  /\ mask \subseteq Filters /\ oldMask \subseteq Filters /\ projMask \subseteq Filters
  /\ selected \in BOOLEAN /\ rebuilt \in BOOLEAN /\ flips \subseteq Filters
  /\ count \in [inputs : 0..MaxInputs, starts : 0..MaxStarts]

TypeOK == CacheTypeOK /\ PanelType /\ ListType /\ MaskType

\* The editor is ended by an error of the cache only after a file was removed from the
\* disk or a save was cut short: whatever was collected, in however many starts, with
\* conversions that failed in between, the two tables agree otherwise.
RaisesOnlyAfterLoss == power = "raised" => cut \/ gone # {}

\* The list holds the collected files whose names pass the mask, but for those of a filter
\* that was switched meanwhile.
FilteredByName ==
  /\ assetlist \subseteq allfiles
  /\ \A f \in allfiles : Kind[f] \in flips \/ (f \in assetlist <=> Kind[f] \in mask)

\* When a collection is over and no filter button is pending, a list that the filter buttons
\* have rebuilt holds exactly the files whose paths pass the mask, and one that was collected
\* those whose names do.  Only of a filter that was switched and switched back while files
\* were being collected it may hold some and not others.
ListFiltered ==
  cacheState = 1 /\ oldMask = mask =>
    IF rebuilt THEN assetlist = Filtered ELSE FilteredByName

\* The files of the cached folders that the collector does not skip.
Collected == {f \in UNION {folderTbl[d] : d \in Folder} : Kind[f] # "other"}

\* A collection that is over has found all files of all folders in the cache.
ListComplete == cacheState = 1 => listed = Folder /\ allfiles = Collected

\* Why the cache does not raise: as long as nothing was lost, all that is in the table of
\* folders, in memory and on disk, and all that was collected is in the table of files.
TablesAgree ==
  \/ cut \/ gone # {}
  \/ /\ power # "raised"
     /\ cacheTbl \subseteq disk /\ store.cur \subseteq disk
     /\ store.there => store.whole
     /\ \A d \in Folder : folderTbl[d] \subseteq cacheTbl /\ store.folders[d] \subseteq store.cur
     /\ todo \cup assetlist \cup allfiles \subseteq cacheTbl

\* Why the list is complete and filtered: a collector that filters has listed all folders,
\* and what it has filtered is what it no longer has to do.
Collecting ==
  /\ power # "on" \/ cacheState = 1 => co = "dead"
  /\ power # "on" => cacheState = 0 /\ todo = {} /\ assetlist = {} /\ allfiles = {}
  /\ co \in {"new", "listing"} => todo = {} /\ assetlist = {}
  /\ co = "listing" => allfiles = {}
  /\ co = "files" =>
       /\ listed = Folder /\ todo \subseteq UNION {folderTbl[d] : d \in Folder}
       /\ allfiles = Collected \ todo
       /\ FilteredByName
  /\ rebuilt => cacheState = 1
  /\ phase = "input" /\ started # "INACTIVE" /\ cacheState = 1 => oldMask = mask

\* However many tweens the frames of one slide have started, the panel is where its state
\* says once they are over, unless an opening and a closing one ended in the same frame.
Settled ==
  (tweens = {} /\ ~tie) =>
    /\ started = "ACTIVE" => pos = "out"
    /\ started = "INACTIVE" => pos = "in"

\* Why: the tween that was started last is the last to end, and moves the present panel.
LastMoves ==
  tweens # {} => \E t \in tweens : t.current /\ \A u \in tweens : u.left <= t.left

\* When the user leaves it alone, the panel stops sliding and the collector stops.
ComesToRest ==
  <>[](power = "on" /\ front =>
         /\ tweens = {} /\ started \in {"ACTIVE", "INACTIVE"}
         /\ started = "ACTIVE" => co = "dead")

\* The close button closes the panel, unless tweens of its opening are still running: the
\* next one to end makes it active again.
CancelServed ==
  (power = "on" /\ front /\ started = "SLIDEIN" /\ \A t \in tweens : t.name = "PanelRight")
    ~> (power # "on" \/ ~front \/ started = "INACTIVE")

\* editor_assetlist.lua:155, "A cache update button will force a cache flush on all files":
\* a file that is there when the button is released is found.
RefreshFinds ==
  \A f \in File :
    (power = "on" /\ phase = "idle" /\ co = "new" /\ f \in disk /\ Kind[f] # "other")
      ~> \/ f \in allfiles \/ f \notin disk \/ (cacheState = 0 /\ co = "dead")
         \/ power # "on" \/ ~front \/ started # "ACTIVE"
=============================================================================
