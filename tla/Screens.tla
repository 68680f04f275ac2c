------------------------------ MODULE Screens ------------------------------
(***************************************************************************)
(* The screens of the editor on top of the state manager, frame by frame.  *)
(* A frame is the Update of the screen in front: it draws after            *)
(* Gcairo:Begin, which advances the tweens and runs the callbacks of those *)
(* that are over, and it ends in Gcairo:Update, which runs the callback of *)
(* the button that was released.  AssetManager and FolderSelect leave by a *)
(* sliding tween whose callback calls ExitState, so they may be left       *)
(* between the two halves of their own Update.  What is registered as      *)
(* MainMenu is not in the repository: it is the world editor               *)
(* (editor_base.lua), which leaves while it draws, or mainMenu.lua, which  *)
(* does not survive its first frame.                                       *)
(***************************************************************************)
EXTENDS StateManager, FiniteSets

CONSTANTS
  SlideTime,  \* duration of the sliding tweens, in clock ticks
  MaxTick,    \* bound: the most ticks between two frames
  MaxClicks   \* bound: how many buttons are released

ASSUME ScreenAssumption ==
  /\ Name = {"MainStartup", "ProjectSetup", "CfgPlatform", "FolderSelect",
             "MainMenu", "AssetManager", "AboutPage"}
  /\ SlideTime \in Nat \ {0} /\ MaxTick \in Nat \ {0} /\ MaxClicks \in Nat

VARIABLES
  phase,     \* "idle" between frames, "draw" before Gcairo:Begin, "tween", "input"; or
             \* "raised": an error that nothing catches has ended the application
  frame,     \* the screen whose Update is executing
  tweens,    \* ages of the closing tweens, oldest first
  due,       \* expired tweens whose callback tween.update has yet to run
  gExitApp,  \* the close button of AssetManager was released
  close,     \* the flag that the close icon of the world editor sets
  clicks,    \* number of buttons released so far
  eager      \* ghost: a panel was closed again while it was closing

vars == <<manager, phase, frame, tweens, due, gExitApp, close, clicks, eager>>

ScreensInit ==
  /\ Init
  /\ phase = "idle" /\ frame = Nothing /\ tweens = <<>> /\ due = 0
  /\ gExitApp = FALSE /\ close = FALSE /\ clicks = 0 /\ eager = FALSE

\* The application enters its first screen.
Boot ==
  /\ current = Nothing
  /\ ChangeState("MainStartup")
  /\ UNCHANGED <<phase, frame, tweens, due, gExitApp, close, clicks, eager>>

-----------------------------------------------------------------------------
\* Faulty variant of BeginFrame: the request to close is not taken back.
BeginFrame_KeepRequest ==
  /\ phase = "idle" /\ current # Nothing /\ Run
  /\ phase' = "draw" /\ frame' = current
  /\ tweens' = IF current = "AssetManager" /\ gExitApp
               THEN Append(tweens, 0) ELSE tweens
  /\ UNCHANGED <<manager, due, gExitApp, close, clicks, eager>>

\* sm:Update enters the Update of the screen in front; AssetManager starts to close.
BeginFrame ==
  /\ phase = "idle" /\ current # Nothing /\ Run
  /\ phase' = "draw" /\ frame' = current
  /\ IF current = "AssetManager" /\ gExitApp
     THEN tweens' = Append(tweens, 0) /\ gExitApp' = FALSE
     ELSE UNCHANGED <<tweens, gExitApp>>
  /\ UNCHANGED <<manager, due, close, clicks, eager>>

\* Faulty variant of TweenUpdate: a tween whose time is just up is not over.
TweenUpdate_Late(dt) ==
  LET aged    == [i \in 1..Len(tweens) |-> tweens[i] + dt]
      expired == Cardinality({i \in 1..Len(tweens) : aged[i] > SlideTime})
  IN  /\ phase = "draw" /\ phase' = "tween"
      /\ tweens' = SubSeq(aged, expired + 1, Len(aged))
      /\ due' = expired
      /\ UNCHANGED <<manager, frame, gExitApp, close, clicks, eager>>

\* tween.update: every tween ages by dt, and the expired ones are collected.
TweenUpdate(dt) ==
  LET aged    == [i \in 1..Len(tweens) |-> tweens[i] + dt]
      expired == Cardinality({i \in 1..Len(tweens) : aged[i] >= SlideTime})
  IN  /\ phase = "draw" /\ phase' = "tween"
      /\ tweens' = SubSeq(aged, expired + 1, Len(aged))
      /\ due' = expired
      /\ UNCHANGED <<manager, frame, gExitApp, close, clicks, eager>>

\* Faulty variant of FinishTween: the callback compares with the wrong name.
FinishTween_NoExit ==
  /\ phase = "tween" /\ due > 0
  /\ due' = due - 1
  /\ UNCHANGED <<manager, phase, frame, tweens, gExitApp, close, clicks, eager>>

\* finishTween: PanelSlideDone("PanelDown") and EditorFolderPanelSlideDone("PanelRight").
FinishTween ==
  /\ phase = "tween" /\ due > 0
  /\ ExitState
  /\ due' = due - 1
  /\ UNCHANGED <<phase, frame, tweens, gExitApp, close, clicks, eager>>

Drawn ==
  /\ phase = "tween" /\ due = 0 /\ ~(frame = "MainMenu" /\ close)
  /\ phase' = "input"
  /\ UNCHANGED <<manager, frame, tweens, due, gExitApp, close, clicks, eager>>

\* CheckFlags of the world editor: the flag stays set until the editor is entered again.
EditorLeaves ==
  /\ phase = "tween" /\ due = 0 /\ frame = "MainMenu" /\ close
  /\ ExitState
  /\ phase' = "input"
  /\ UNCHANGED <<frame, tweens, due, gExitApp, close, clicks, eager>>

\* tween.update asserts that time has passed.  SMainMenu:Update calls SlideOut without the
\* image, so that its list is nil.
Raise ==
  /\ phase = "draw" \/ (phase = "tween" /\ due = 0 /\ frame = "MainMenu")
  /\ phase' = "raised"
  /\ UNCHANGED <<manager, frame, tweens, due, gExitApp, close, clicks, eager>>

-----------------------------------------------------------------------------
(***************************************************************************)
(* Gcairo:Update: the buttons are those that this frame's screen drew,     *)
(* also when the screen was left in the meantime.                          *)
(***************************************************************************)
EndFrame == phase' = "idle" /\ frame' = Nothing

NoClick ==
  /\ phase = "input" /\ EndFrame
  /\ UNCHANGED <<manager, tweens, due, gExitApp, close, clicks, eager>>

Click == phase = "input" /\ clicks < MaxClicks /\ clicks' = clicks + 1 /\ EndFrame

\* StartEditor, AssetManager and ShowAbout of the startup screen.
StartupJumps == {"ProjectSetup", "AssetManager", "AboutPage"}

\* CreateProject, ModifyProject and ConfigPlatform of the project list.
SetupJumps == {"CfgPlatform"}

\* AddPathToProject and EditWorld of the platform page.
PlatformJumps == {"FolderSelect", "MainMenu"}

Jumps == [n \in Name |->
  CASE n = "MainStartup"  -> StartupJumps
    [] n = "ProjectSetup" -> SetupJumps
    [] n = "CfgPlatform"  -> PlatformJumps
    [] OTHER              -> {}]

ClickJump ==
  /\ Click
  /\ \E n \in Jumps[frame] : JumpToState(n) /\ close' = (close /\ n # "MainMenu")
  /\ UNCHANGED <<tweens, due, gExitApp, eager>>

\* ExitProjectConfig and ExitConfigManager.
ClickExit ==
  /\ Click /\ frame \in {"ProjectSetup", "CfgPlatform", "AboutPage"}
  /\ ExitState
  /\ UNCHANGED <<tweens, due, gExitApp, close, eager>>

Closing == current # frame \/ tweens # <<>> \/ gExitApp

\* ExitAssetManager only leaves a request for the next Update of AssetManager.
ClickCloseAssets ==
  /\ Click /\ frame = "AssetManager"
  /\ eager' = (eager \/ Closing)
  /\ gExitApp' = TRUE
  /\ UNCHANGED <<manager, tweens, due, close>>

\* FolderSelected and FolderCancel: Close starts a tween, whatever is under way.
ClickCloseFolder ==
  /\ Click /\ frame = "FolderSelect"
  /\ eager' = (eager \/ Closing)
  /\ tweens' = Append(tweens, 0)
  /\ UNCHANGED <<manager, due, gExitApp, close>>

\* IconClose only sets a flag for the next CheckFlags.
ClickCloseEditor ==
  /\ Click /\ frame = "MainMenu"
  /\ close' = TRUE
  /\ UNCHANGED <<manager, tweens, due, gExitApp, eager>>

-----------------------------------------------------------------------------
Frame ==
  \/ Boot \/ BeginFrame
  \/ \E dt \in 1..MaxTick : TweenUpdate(dt)
  \/ FinishTween \/ Drawn \/ EditorLeaves \/ Raise \/ NoClick

User ==
  ClickJump \/ ClickExit \/ ClickCloseAssets \/ ClickCloseFolder \/ ClickCloseEditor

ScreensNext == Frame \/ User

\* The application's loop keeps drawing frames; nobody has to press a button.
ScreensSpec == ScreensInit /\ [][ScreensNext]_vars /\ WF_vars(Frame)

-----------------------------------------------------------------------------
TypeOK ==
  /\ ManagerTypeOK
  /\ phase \in {"idle", "draw", "tween", "input", "raised"}
  /\ frame \in Name \cup {Nothing}
  /\ tweens \in Seq(0..(SlideTime - 1)) /\ due \in Nat
  /\ gExitApp \in BOOLEAN /\ close \in BOOLEAN /\ eager \in BOOLEAN /\ clicks \in 0..MaxClicks

(***************************************************************************)
(* However often panels are closed, and whichever screen a late tween      *)
(* callback happens to leave, ExitState never indexes a nil state: the     *)
(* names from the bottom of the array to the one in front are registered   *)
(* screens, and the first is MainStartup.                                  *)
(***************************************************************************)
WayBack ==
  started =>
    /\ Path[1] = "MainStartup"
    /\ \A i \in 1..(jumped + 1) : Path[i] \in states

(***************************************************************************)
(* If no panel is closed twice, a closing panel returns to its owner and   *)
(* to nothing else: a tween is only under way while its own panel is in    *)
(* front, each screen covers one that has a button for it, and the         *)
(* application, whose first screen has no button to leave it, never ends.  *)
(***************************************************************************)
OneCloseOneExit ==
  ~eager =>
    /\ Run /\ unmatched = 0
    /\ Len(tweens) + due <= 1
    /\ tweens # <<>> \/ due > 0 => current \in {"AssetManager", "FolderSelect"}
    /\ started => \A i \in 1..jumped : Path[i + 1] \in Jumps[Path[i]]

(***************************************************************************)
(* If no panel is closed twice, all Begin and Finish calls of these        *)
(* screens, those of late tween callbacks too, are calls on a stack of     *)
(* screens (ScreenStack).  A tween that fires once too often may end the   *)
(* application in a frame whose button then jumps, which revives it.       *)
(***************************************************************************)
NestedUntilEager == [][eager' \/ Screen!Next]_<<open, Run>>

\* Why there is a way back: a frame has a screen, and nothing is in front before the first.
Rooted ==
  /\ started <=> current # Nothing
  /\ ~started => jumped = 0
  /\ jumped <= Len(stack)
  /\ phase \in {"draw", "tween", "input"} => started /\ frame \in Name

\* Why the expired tweens are the first ones.
OldestFirst == \A i, j \in 1..Len(tweens) : i <= j => tweens[j] <= tweens[i]

\* Why one close is one exit: a frame runs on after its screen was left only if the screen
\* is one that leaves while it draws, and a request waits for the next frame of its panel.
Undivided ==
  ~eager =>
    /\ Registered /\ ProperlyNested
    /\ due > 0 => phase = "tween"
    /\ phase = "draw" \/ due > 0 => frame = current
    /\ phase = "tween" => frame = current \/ frame \in {"AssetManager", "FolderSelect"}
    /\ phase = "input" =>
         frame = current \/ frame \in {"AssetManager", "FolderSelect", "MainMenu"}
    /\ gExitApp => phase = "idle" /\ current = "AssetManager" /\ tweens = <<>>

(***************************************************************************)
(* A request to close the asset manager is served, also a stale one that a *)
(* click left behind in the frame in which the panel went away: the panel  *)
(* does not stay in front with the request pending, unless the application *)
(* ends or raises.                                                         *)
(***************************************************************************)
CloseServed ==
  (gExitApp /\ current = "AssetManager") ~> (current # "AssetManager" \/ ~Run \/ phase = "raised")

(***************************************************************************)
(* statemanager.lua:128-129, "Once complete, a jumped state will Return To *)
(* the original owner of the child state": no click of the user ends the   *)
(* application, for its first screen has no such button.                   *)
(***************************************************************************)
OwnerSurvives == Run
=============================================================================
