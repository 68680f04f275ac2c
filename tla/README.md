# A TLA+ model of ljos

ljos is a small Linux whose user space is LuaJIT. The kernel starts `init`
(`apps/init/init.c`) as pid 1; `init` runs `boot.lua`, which sets the system up and
ends in the console (`deps/console.lua`). The console reads `/dev/input/event1`, edits
a line, and runs commands; some commands fork a program. The tree also holds the Lua
side of a graphical editor (`scripts/`): a state manager, screens, tweens and a widget
library over cairo.

Lua paths below are relative to `src/barebones/lua/lua/`.

## Inventory

| part | state | operations | interacts with |
| --- | --- | --- | --- |
| console, `deps/console.lua` | line, history, `history_select`, `mod_shift` | one event per loop iteration; ENTER parses and executes the line | evdev buffer (read), lummander (call), `processes.active` (shared) |
| process registry, `deps/init_commands.lua` | `processes.ids/active/list` | `process_new`, `process_end`, `runproc` (fork, execve, wait) | kernel process table; copied by fork |
| init, `apps/init/init.c` | the Lua state, `globalL` | `main`, `docall`, `laction` | runs the boot script; its death is a kernel panic |
| lummander, `libs/lummander/` | registered commands, options | `parse`, `help` | called by the console; errors propagate to it |
| state manager, `scripts/states/statemanager.lua` | `current`, `start`, `jumped`, `stack`, `run` flags | `CreateState`, `ChangeState`, `JumpToState`, `ExitState`, `Run` | calls `Begin`/`Finish` of the screens, is called by their buttons and tweens |
| screens, `scripts/states/editor`, `scripts/panels` | `gExitApp`, panel tweens | `Begin`, `Update`, `Render`, button callbacks | state manager, cairo_ui |
| tweens, `scripts/utils/tween.lua` | live tweens | `start`, `update`, `stop` | callbacks into the screens, from the start of a frame |
| cairo_ui, `scripts/cairo_ui/` | widget states, object list | `Begin`, `Update`, widget handlers | mouse and keyboard, tweens, callbacks |
| asset cache, `scripts/states/editor/editor_cache.lua` | two tables, two files | load, save, add, look up | file system; called by the asset panel's coroutine |
| world editor, `scripts/states/editor/editor_base.lua`, `scripts/panels/editor_main.lua` | request flags | `CheckFlags` once a frame, icon callbacks | asset panel, state manager |
| asset panel, `scripts/panels/editor_assetlist.lua` | `started`, `panel_move`, a coroutine, two lists, filter masks | `Begin`, `Close`, `Update`, button callbacks | cache, tweens, project file |
| getch, `apps/getch/getch.c` | locals only; it changes the terminal and the flags of stdin | `getch_blocking`, `getch_non_blocking` | the terminal, shared with other processes |

What is hard here: the console, its forked copies and the programs run concurrently
over one keyboard buffer; `wait` takes any child; fork copies the Lua memory, so
a failed execve leaves a second console; events are read long after they happened;
pid 1 must not die. In the editor, tween callbacks leave a screen in the middle of its own
frame, a click may come while a panel is closing, and the manager's array is never
truncated. Tweens are never stopped, so several write one field; a text box handles a frame's
keys with the length it had before them; a coroutine's errors are dropped; the cache
is two tables in two files that are written one after the other. Two processes in
getch change settings that belong to the terminal. `PROJECT.json` lists these hazards at their lines.

## Modules

`LineEditor` has the editor of the console as operators on a record: what each key does
to the line, the history and Shift. A key is its name in `key_ascii`; `"SYN"` stands for
events that are not keys and `"UNNAMED"` for codes the table does not name. Lines are
sequences of characters, because UP, BACKSPACE and the case matter to the properties.

`Console` composes it with processes. A process is in a `mode`: in the loop of
runconsole, between fork and execve, waiting, a program, or dead. Each has its own copy
of the locals of runconsole (`ed`) and of `processes`. One action per outcome of an
iteration: `EditLine`, `RunBuiltin`, `Reboot`, `RaiseError`, `Fork`/`ForkFails`, then
`Exec`/`ExecFails` in the child and `Wait`/`WaitNoChild` in the parent. Commands are
classified by what they do (`RunLines`, `Installed`, `RaiseLines`, `RebootLines`);
the parser's words are not modelled. `exec` and `dofile` check that the file exists before they
fork, so a line of `RunLines` outside `Installed` is one whose file is there and cannot be
executed, or whose interpreter or strace is missing. The evdev buffer (`Deliver`), the
keyboard (`Type`), process exit and reparenting (`Exit`), the programs and signals are
the kernel's and the user's part, modelled from how the code uses them. `RaiseError`
ends the process: `init.c` closes the Lua state and uses it again. That is undefined behaviour, and
the model takes the outcome in which the process dies. `Interrupt` is a SIGINT in a Lua process:
the handler gives `lua_sethook` a null pointer.

`ScreenStack` is the abstract promise of the state manager: screens that began and
have not finished form a stack.

`StateManager` is `statemanager.lua`, one action per operation, with `ExitState` split
by its two branches. `open` and `unmatched` are ghosts that record the Begin and Finish
calls. A name always stands for one screen object, as it does for every caller in
the tree. A call with an unknown name changes nothing and is a stuttering step.
`Init()` is called once, before anything else. The application's own loop is not in the
tree; the model lets screens call the manager after the first `ChangeState` and while
`Run()` is true.

`Screens` puts the screens on the manager. A frame goes through `BeginFrame` (the screen
in front enters `Update`; the asset manager turns `gExitApp` into a tween), `TweenUpdate`
and `FinishTween` (`Gcairo:Begin`), `Drawn`, and a click or none (`Gcairo:Update`).
The buttons are those of the screen that drew the frame, `frame`, which is not
`current` when a callback has left it. Here ExitState is called without regard to `Run()`,
as the callbacks do. `CreateProject` and its neighbours return early without
a project name, which is a frame without effect (`NoClick`). Only the closing tweens are
kept; all last the same time, so they expire in the order they were started. The screen
registered as MainMenu is not in the tree. It is the world editor, which leaves in the middle of
drawing (`EditorLeaves`) because of a flag set a frame earlier, or `mainMenu.lua`, which
does not survive its first frame: it calls `SlideOut` with an older list of arguments
(`Raise`). `Raise` is also the assertion of `tween.update` that time has passed since the
last frame. `AssetList` and `CairoUI` describe an application that has not raised there.

`SaveRestore` is an abstract specification: a setting that processes borrow without a
lock, each saving what it finds and putting that back. The ghost `lost` records that the
process that found the original value gave it back, or died, while another held a copy.

`Getch` is `getch.c`, one action per system call: `BlockingSave` to `BlockingRestore`, and
`NonBlockingSave` to `NonBlockingRestore`. The terminal is the kernel's part: a key can
be read at once if it is raw, after ENTER if not; it may hang up; ^C ends a process
between any two calls. `SettingsBorrowed` says that the terminal's attributes and the
flags of stdin are each a `SaveRestore`.

`EditorCache` has the tables of the asset cache and the two files. A file is a model
value with a home folder; `Unreadable` are those whose extension, as `getextension`
takes it, is not of the form `%w+`, because of another dot in their path: `LoadCache` drops their lines. A save that is cut
short (`CutSave`) leaves some lines of the first file and the old second one, or the
second up to some line.

`AssetList` puts the asset panel on it. A frame goes through `Tick` (`Gcairo:Begin`),
`CheckFlags`, one step of the collecting coroutine (`Collect...`), `Draw` or `DrawRaises`,
and a click or none. A tween remembers whether it moves the present `panel_move`, which
each `Begin` of the panel replaces. Of an extension only what `filters` and `FilterMap`
say is kept: some are in the first and not in the second, and such a file ends
the coroutine. The code takes it from the file name when it collects (`Kind`) and from the whole
path when it converts a file or rebuilds the list (`PathKind`). The world editor may be left and entered again, the editor ended,
killed and started again.

`CairoUI` has the exploders, the text box of the project page with its cursor, and the
frame that serves them: `Begin`, a click or none, the keys released since the last frame
one by one, `EndFrame`. Of a text only the length matters to where the cursor is; the
clipping of `string.sub` is kept. The text box has one length, `dlen`, for all keys of a
frame, and the text that it edits, `data`.

`ConsoleProofs`, `StateManagerProofs`, `ScreensProofs`, `GetchProofs`, `CairoUIProofs` and
`AssetListProofs` hold the theorems; the modules `MC...` are the instances for TLC. Definitions with a suffix (`Fork_NoWait`, ...) are
faulty variants; no specification uses them. They show that the properties can fail.

## Runs

| run | shows | bounds |
| --- | --- | --- |
| `foreground` | one foreground process, no deaf console, valid history, keyboard served | 3 processes, 13 events, buffer of 3 |
| `daemons` | unreaped children are inherited ones, Shift does not stick | 3 processes, 8 events, buffer of 3, programs fork, SIGINT |
| `forked_child` (violated) | console.lua:21 | as `foreground` |
| `space` (violated) | README.md:157 | as `foreground`, with SPACE |
| `never_leave` (violated) | init.c:94 | as `foreground`, with a nameless key |
| `manager` | nesting, refinement of `ScreenStack` | 3 names, depth 4 |
| `screens` | way back, one close one exit, a stack until a panel is closed twice, close served | 14 clicks, tweens of 2 ticks |
| `double_close` (violated) | statemanager.lua:128 | as `screens` |
| `getch` | settings restored, calls wait or return as they should, refinement of `SaveRestore` | 2 processes, 2 keys |
| `assets` | cache tables agree, list complete and filtered, panel comes to rest | 3 files in 2 folders, 3 clicks or changes of the disk, 2 starts |
| `refresh` (violated) | editor_assetlist.lua:155 | 2 files in 2 folders, 3 clicks or changes of the disk |
| `cairo_ui` | exploders settle, cursor in the text, cursor flashes | 1 exploder, tweens of 3 ticks, 3 keys a frame, texts of up to 3 |

Why these bounds. Three processes give pid 1, a console from a failed execve and a program
under it, and exhaust the table so that fork fails. Thirteen events are enough to run a
missing program and then a real one from the second console, with history and Shift; a
buffer of three overflows while a command runs. In `manager`, depth 4 over three names
has every name on the stack several times and leaves stale array entries above the live
part. In `screens`, 14 clicks reach every screen, the deepest at depth 4, and allow for several
superfluous closes on the way back. Two ticks let a tween
span frames, or expire in the frame that starts it. Two processes in `getch` are enough for
each to save what the other has changed. In `assets` the files are a mesh, a
texture with a dot in its path, whose line is not read back, and a sound, which ends the coroutine; two starts take
the tables through the files once, with a crash or a cut save between. Three inputs are
enough to open the panel, close it while it slides and press a third button, or to open it,
remove a file and open it again after a restart. Exploders are independent of one
another, so one is enough (two were tried with the same result). Tweens of three ticks
under frames of one or two let three of them compete and two end together; three keys a
frame are the first number at which the cursor can leave the text.

Deadlock is checked for `cairo_ui`, where a frame always follows. It is not checked
elsewhere: the user may stop typing or clicking for good (the bounds on
input), a reboot or panic ends the machine, and leaving the last screen ends the editor.

### Properties

- `SingleForeground`: at most one process is a console, a child before execve, or a
  program. It takes a chain of failed execves to break it; it is what makes
  `S.wait()` good enough. Only without daemons and signals.
- `ChildrenReaped`: every `runproc` reaps as many children as it forks, also when it
  reaps another one's; the surplus is bounded by what pid 1 inherited.
- `NoDeafConsole`, `KeyboardServed`: no console is left with `processes.active` set,
  and the chain of waiting consoles always unwinds to one that reads.
- `HistoryRecallable`: the index that is never reset stays valid in every copy.
- `NoStuckShift`: with both Shift keys up, pid 1's console ends up with Shift off once
  it has read the buffer, until an overflow.
- `ProperlyNested`, `ImplementsScreenStack`: Begin and Finish calls nest.
- `WayBack`: whatever late callbacks do, `ExitState` finds a registered screen and
  `MainStartup` stays at the bottom. A stronger form, that every screen covers one
  that has a button for it, is false after a superfluous close: the late tween
  leaves the platform page in the middle of its frame, and its button then jumps
  from the screen below. It is part of `OneCloseOneExit`.
- `OneCloseOneExit`: without superfluous closes, panels return to their owners.
- `NestedUntilEager`: without superfluous closes, the calls of the screens are calls on a
  stack. With them they are not: the late callback of a second tween can end the application in a
  frame of `MainStartup`, and a button released in the rest of that frame jumps, to a
  screen whose `run` flag is set, which revives it. A plain refinement of `ScreenStack` is
  therefore false.
- `CloseServed`: a close request on the asset manager is carried out, unless the
  application ends or raises.
- `Restored`: once all getch calls have returned, terminal and stdin are as they were found,
  if for each setting the first to save it was the last to restore it. It fails without
  that proviso, since nothing locks the terminal.
- `BlockingWaits`, `NonBlockingReturns`: `O_NONBLOCK` belongs to the open file, so each
  function disturbs the other's read; these say exactly when.
- `SettingsBorrowed`: refinement of `SaveRestore`, for both settings.
- `RaisesOnlyAfterLoss`: the file table and the folder table of the cache agree through
  failed conversions, interrupted collections and restarts, so that drawing the list does
  not index nil; only a removed file or a save that was cut short breaks that.
- `ListComplete`: a collection that ends has seen every folder.
- `ListFiltered`: what is shown is what was collected and passes the filter, by the file
  name in a list that the collector made, by the whole path in one that a filter button has
  rebuilt. So a file in a folder with a dot in its name is shown until the first change of
  a filter (the ghost `rebuilt`). The coroutine reads the mask as it goes along, and
  `FilterAssetList` compares only the masks, so a filter switched off and on again meanwhile
  leaves out some of its files until a filter changes again; the ghost `flips` allows for
  that, and for no file of another filter.
- `Settled` (in `AssetList` and in `CairoUI`): many tweens write one field and none is ever
  stopped; still the panel or exploder ends where it was last sent, unless two tweens of
  different goals end in one frame and a hash table decides (the ghost `tie`).
- `ComesToRest`: every frame of a slide starts another tween and starts the
  collection over; it stops none the less.
- `CancelServed`: the close button works, but only when no opening tween is left.
- `CursorInText`: the cursor stays in the text although the handler's length is stale; up
  to two keys in a frame cannot take it out.
- `Answered`, `CursorFlashes`: an exploder opens when it is told to; the cursor's tween is
  always turned round.

### Fairness

`Console`: weak fairness of each process's own steps, since the kernel schedules every
process and the loop of runconsole polls. Nothing is assumed of users, signals and programs;
`KeyboardServed` assumes explicitly that programs do not occupy the foreground for
ever. `Screens`: weak fairness of the frame, which the application draws in a loop.
The tweens need no assumption of their own, because every frame moves the clock. `AssetList`
and `CairoUI` assume the same, and nothing of the user. `Getch`: weak fairness of each
process inside a call; a read that has to wait is not enabled.

## Proofs

All for arbitrary constants, from the named assumptions of the modules only.

- `TypeCorrect`, `HistoryAlwaysRecallable`: inductive with the types.
- `OneForeground`: `SingleForeground` is not inductive, since it does not say who will
  wake up. `Chain` is: only a waiting process has a child, it has one, and exactly one
  process is the tip. Each action moves the tip by one or changes its mode.
- `ShiftNeverSticks`: needs `RootReads` (only pid 1 reads while every program is
  installed) and reads "the value Shift will have" off the last Shift event in
  the buffer (`ShiftPending`); a press or release changes that value together with `held`,
  and reading an event moves it from the buffer to `mod_shift`.
- `ConsolesListen`: every copy of the registry is empty between two steps: only a child before
  execve makes an entry, and if execve fails it ends the very entry that it made, whose number
  is the next of a counter that fork has copied.
- `ConsolesReap`: `ChildrenReaped` is inductive with `Reaping`: pid 1 is a console or waits,
  and free and zombie processes have no children. Then an exit moves
  children only to pid 1, where they count as inherited, and a wait takes one child from
  the process that owed one (`Counting` is about adding and removing one element).
- `NestingProper`, `Refinement`: `Registered` strengthens the nesting: the live array
  entries are registered, nothing is in front before the first ChangeState, and only the
  current screen may have been stopped. `PutAbove` says that a jump keeps the
  live part of an array with stale entries above it. The steps are proved for `Calls`,
  which has no bound on the depth, so that `ScreensProofs` can use them.
- `ScreensTypeCorrect`, `ScreensWayBack`: `WayBack` needs `Rooted` (a frame has a screen,
  nothing is in front before the first) and the types need `OldestFirst`: the tweens that
  expire are a prefix (`DownClosed`), so that those cut off by `TweenUpdate` are the ones
  whose time is up. A jump keeps the path and adds to it, an exit shortens it (`JumpKeeps`,
  `ExitKeeps`); both hold also after the application has ended.
- `ScreensCloseOnce`, `ScreensNested`: `Undivided` is the strengthening: unless a panel was
  closed twice, the frame that runs is that of the screen in front, but for the rest of
  a frame whose screen leaves while it draws, and a request to close waits for the next
  frame of its panel. So an exit never meets the first screen (`ExitReturns`), and each
  change of the manager is one of `Calls` (`OrderlyStep`); that the nesting is kept and the stack
  refined follows from the lemmas of `StateManagerProofs`.
- `SettingsRestored`, `GetchBorrows`: `Restored` is not inductive, since it says nothing
  while a call is under way. Inductive is that, unless it was lost, the opener of a setting
  is inside and holds the original (`OriginKept` of `SaveRestore`), and that a process
  holds what its program counter says. `BlockingCallsWait` needs, besides,
  that outside the non-blocking calls the flags are the original ones or lost.
- `ExplodersSettle`: `LastWins`, in `CairoUI`, is the strengthening: of the tweens of an exploder
  the one started last has strictly the most time left and goes where the last click sent
  it. A click finds only tweens that `Begin` has aged, which keeps the inequality
  strict.
- `CursorStays`: `KeyByKey` bounds text and cursor after none, one and two keys of a
  frame: one key makes the text at most one shorter than the stale length, and characters
  are inserted only after keys that did not shorten it.
- `PanelSettles`: `LastMoves`, in `AssetList`, is the strengthening: while tweens run, one
  that no other outlives moves the present `panel_move`, because each new one gets the full
  time. When it ends all have ended, and unless they differ in kind they agree on the goal.
- `ListIsComplete`, `ListIsFiltered`: `Collecting` says how far the coroutine is: one that
  filters has listed all folders, has collected exactly what is no longer in `todo`, and shows
  of it what passes the mask by name, but for the filters switched meanwhile; only a list that is
  complete is ever rebuilt; one that is over has nothing pending.
- `CacheRaisesOnlyAfterLoss`: `RaisesOnlyAfterLoss` says nothing of the tables, which is
  where an error is prepared, perhaps starts ago. `TablesAgree` does: unless something was
  lost, all files of the folder table, in memory and in the saved files, and all that was
  collected are in the file table, and that is on the disk. It needs `Collecting` to know
  that nothing is collected while the editor is off.

`ScreenStack` and `SaveRestore` have no fairness, so the refinements are safety results. Only
model-checked: the liveness properties `KeyboardServed`, `CloseServed`,
`NonBlockingReturns`, `ComesToRest`, `CancelServed`, `Answered` and `CursorFlashes` (liveness is
outside the prover's reach). Every invariant and every action property of a passing run, and
both refinements, are proved.

## Findings

Five statements of the repository that the code does not keep, each with a run:
a forked child becomes a console (`forked_child`), SPACE cannot be typed (`space`),
pid 1 dies on an error (`never_leave`), a second close leaves the owner
(`double_close`), and the cache update button does not find new files (`refresh`).

## Not modelled

Of the 1277 C files in the repository all but a handful are vendored: openssl, LuaJIT,
luv and other packages, built as they come. The project's own C is `init.c` and `getch.c`, both
modelled, and two test programs for the framebuffer and DRM, each a straight line of
ioctls and pixel writes that nothing else runs. The logic of the system is in Lua, so
a model of this repository covers few of its C lines.

Of the Lua code: the words of a command line (lummander is a third-party library, and each
line gets a fresh table of words, so no state of it outlives a line; `Console` classifies lines
by what they do), the file-system commands, system bring-up, drawing, scrolling, fading
images, the level and physics of the world editor, the copies and conversions of
the asset cache (the conversion of an svg calls `Gcairo:Begin`, and with it the tweens, a second
time in a frame), and the screens that the tree contains but no code enters. `SlideOut` has the
automaton of an exploder, but every call of it in the tree has an older list of arguments
and raises. Restarting a name with another screen object and a second call of
`StateManager:Init` do not occur in the tree.

## Plan

Left: hazards that `PROJECT.json` lists without a property, where the repository says nothing
to check against, and proofs of the safety parts of the liveness properties (that the
measure behind `ComesToRest` and `CloseServed` never grows).
