# Verification of nixlytile

nixlytile is a tiling Wayland compositor in the style of niri, made from dwl and
aimed at games.  These modules model the parts of it whose correctness is a matter
of long histories: which window is on which workspace of which monitor, who has
the keyboard, what survives the loss of a monitor, how a tile and its client
agree on a size, when an output is drawn, what a fullscreen game borrows from its output
and from the rest of the system, and how all of that is given back.  TLC checks them on
small instances; the safety of the workspace manager with all its handlers, that it implements
its abstract specification, and the safety of frame scheduling, of size negotiation, of game mode, of the launch effect and
of what is borrowed from outputs are proved with TLAPS for every instance.

## The system

One thread runs a Wayland event loop.  Every handler, key binding, timer and frame
runs to its end before the next starts, so concurrency is between the compositor,
its clients, the hardware and the user, not between two handlers; what is hard is
that a handler is a chain of calls that each update shared structures, and that some
of these calls run others in the middle (focusclient calls arrange, arrange calls
focusclient, setmon ends by refocusing).  The one exception is game mode: a second thread
sweeps /proc, stops processes and sets clocks while the first goes on deciding.

| Component | State | Operations | What makes it correct |
|---|---|---|---|
| workspaces and columns (workspace.c) | per monitor a list of workspaces, `active_ws`, `prev_ws`, `next_ws_id`; per workspace a row of columns and `focused_col` | create, destroy, compact, attach, detach, switch, move and focus keys | no dangling workspace, rows and windows agree, numbering without holes, view and order change only as the user asks |
| windows (client.c) | `clients`, `mon`, `column`, `fs_ws`, `isfullscreen`, `isfloating` | commit, map (window, dialog, tray popup, game, splash), unmap, destroy, fullscreen, floating, activate, kill | every mapped window has a place on its monitor, fullscreen is kept |
| focus and arranging (client.c, layout.c) | `fstack`, seat keyboard focus, `selmon` | focusclient, focusstack, focusmon, arrange | a key that navigates leaves the keyboard with something visible |
| pointer (input.c) | `cursor_mode`, `grabc`, `was_tiled` | motion, buttons, interactive move and resize | focus follows what is shown, the pointer never holds a window that is gone, a drop disturbs no other window |
| outputs (output.c) | `mons`, enabled, asleep, `c->output` | createmon, cleanupmon, closemon, updatemons, output configuration, power | no window is lost with a monitor, windows come home |
| size negotiation (client.c, converge.c, anim.c) | box, `last_configured`, `pending_resize`, `resize`, watchdog | request, ack and commit, per-frame watchdog | the client ends up with the size of its box, and the screen comes to rest |
| frame scheduling (output.c, latch.c) | wlroots' frame flags, `frame_scheduled`, latch timer, heartbeat, failure counters | frame event, timers, modes, power | what is drawn reaches the screen, clients get their frame callbacks, an idle screen rests |
| output modes (output.c, gamemode.c, gamescan.c, autolock.c, window_ipc.c) | `video_mode_active`, `console_mode_active`, `gamescan_mode_active`, `al_mode_active`, what is pending, the mode | fullscreen, moves, map, unmap, video detection, frames, the player's messages | every borrowed mode has a borrower that gives it back; leaving fullscreen leaves nothing behind |
| adaptive sync (output.c, gamemode.c) | the property of the hardware, `vrr_active`, `game_vrr_active`, `vrr_pending` | the same, commits of frames, the user's switch | adaptive sync is never on without an owner, a pending change is settled |
| launch effect (launchfx.c) | `fx`, remembered reapers, the boost | reapers found and lost, poll, tick, commits, frames, watchdog, unplug | the black cover and the boost go, however the launch ends |
| game mode (gamemode.c) | `game_mode_ultra`, `_client`, `_pid`, debounce timer; a mailbox; the worker's lists; the processes and clocks | window events, timer, worker stages, quit, crash | whatever was stopped is set going again, the last order wins |
| notifications, OSD, app toggle | a lane of slots; a process id | timers, gamepad | each returns to rest |
| status bar, tray, IPC, configuration, GPU | caches of hardware and bus state | timers, D-Bus, sysfs, sockets | mostly I/O |

Interactions: keys, protocol requests and output events enter through the handlers
of windows, pointer and outputs; all of them call the workspace operations and end in
arrange and focusclient.  Geometry flows from the workspace layout through
animations to the size negotiation.  Fullscreen is what the game side listens to:
setfullscreen, setmon, mapnotify and unmapnotify borrow and give back modes and adaptive
sync, start the launch effect and arm game mode's timer; frames carry out
what these left pending.

## Modules

| Module | Models | State |
|---|---|---|
| `Workspaces`, `Desk_proofs` | workspaces, windows, focus, keys: every handler that moves a window or the focus; theorems, of `Drag` as well | one record `desk` |
| `Drag` | the pointer holding a window, with all of `Workspaces` in between | `desk`, `grab` |
| `Placement`, `Placement_proofs` | the promise behind `Workspaces`: where windows are, without order, numbers or focus; theorems | nine variables |
| `Compaction` | `monitor_compact_workspaces` loop by loop | `desk`, a program counter |
| `Hotplug`, `Hotplug_proofs` | outputs coming, going, sleeping and changing, around all of `Workspaces`; theorems | `desk`, `output`, `asleep`, `laid`, `mons` |
| `SizeSync`, `SizeSync_proofs` | requests, acks, commits and the watchdog of one tile; theorems | the fields of the tile and its client |
| `Frames` | when one output is drawn, and what asks for the next frame | one record `f` |
| `GameMode`, `GameMode_proofs` | the decision for game mode and the worker that carries it out; theorems | windows, main thread, mailbox, worker, its lists, the system |
| `LaunchFx` | the launch effect and the boost of priorities that comes with it; its theorems are in `GameMode_proofs` | `fx`, reapers, windows of games |
| `Fullscreen`, `Fullscreen_proofs` | windows as far as their outputs care; lemmas that both of the next use | `win`, `view`, `sel`, `lit` |
| `OutputModes`, `OutputModes_proofs` | the modes that the video matcher, console mode, gamescan and the auto FPS lock borrow; theorems | `Fullscreen`, `out` |
| `AdaptiveSync` | adaptive sync lent to games and videos | `Fullscreen`, `out`, the user's switches |
| `FrameSync_proofs` | theorems on `Frames` and on `AdaptiveSync` | none of its own |

`MC*` modules hold the instances.  The formulas next to a definition that begin with "Mutant" are
that definition with a bug in it; no specification uses them, and each property is
shown to be violated once such a bug is put in.

**Workspaces.**  The state is one record because the code is a chain of calls: every C
function is an operator from desks to desks with the function's name (`Attach` is
`workspace_attach_client`, `SetMon` is `setmon`, ...) and every action is one handler,
the composition of these in the order the code calls them.  A column holds one
client - no code puts a second one in - so a row is a sequence of windows.  The list of
a monitor is the set of workspaces it owns, ordered by `idx`.  A freed workspace
may be allocated again, so pointers that outlive one are visible as pointers to a
workspace of no monitor or of the wrong one.  What depends on sizes, titles, rules,
process ancestry or pointer coordinates is a choice among the outcomes the code can
produce: the monitor and floating state rules pick, whether a game's window is
small, what is under the pointer (only windows that are `Shown`).
Loops over windows are recursive functions of how many they have visited (`UnsetRounds`, mapnotify's loop that
takes others out of fullscreen), so that they can be reasoned about.

**Drag** is moveresize, motionnotify and the release in buttonpress.  A tile that is dragged
floats until it is dropped into the row next to the column under the pointer.  Between press
and release every handler of `Workspaces` may run, so the window can be unmapped, tiled,
sent away or made fullscreen in the pointer's hand.

**Placement** says what the handlers may do to the placement of windows:
open, close, enter and leave fullscreen, float, send to a workspace or a monitor, look
at another workspace, and that freeing workspaces is only ever done to unused ones.
`Workspaces` implements it (`ImplementsPlacement`, checked by the run `desk`): the map
forgets order, numbering and focus, and hides the stale `fs_ws` of windows that are
not mapped.

**Compaction** justifies the closed form `Compact` that `Workspaces` uses for the two
loops, from every list of up to five workspaces, each empty, tiled or hosting a
fullscreen window.

**Hotplug** adds the name of the output each window remembers and the calls that end in
`updatemons`.  A configuration request is modelled with what it does on the way: a test
wakes `asleep` monitors and runs `updatemons` like a real one does, and placing an output in the
layout runs `updatemons` while the outputs that follow still wait for their turn.  A commit by power management
may be refused, and the monitor counts as asleep or awake all the same.  `laid` is the output layout, through which the keys
look for the next monitor: a sleeping output stays in it and can be selected, a disabled one leaves.  `mons` is the order of
the list, in which `closemon` looks for a lit monitor and `updatemons` goes round; a new monitor comes first.

`updatemons` hands a window back by its `mon` alone; its column, or the workspace it is fullscreen on, stays with the other
monitor.  When the user then sends that column to the monitor its window is on already (`HopHome`), `setmon` has nothing to
do and only the list link of the column moves (`Relink`): it hangs in one workspace and points to another.  After that, as
after a reference to a freed workspace, nothing is said of what the program does: `Defined`, that is `NothingFreed` and
`RowsAgree`, is false and the model stops, which is why its runs do not check for deadlock.

**SizeSync** is one xdg tile on one axis.  `answer` maps a size the client has acked to
the size it commits (a terminal rounds down, another client has a minimum), chosen once among
the monotone functions; the client answers any prefix of the configures sent to it at any
time or never; only `FillableIsFilled` assumes that it does.

**Frames** is one output.  A frame event comes from a page flip or from the idle callback
that `wlr_output_schedule_frame` leaves behind, and only `rendermon` keeps the chain going;
the module is rendermon in its stages, each an operator from a state to the set of its
outcomes.  What depends on the clock or the hardware is a choice: whether a deadline is
near enough to latch late, whether the kernel takes a commit, whether a
swapchain can be made.  The games of the model may have variable refresh or not,
pass by pass, so both the late latch and the overlay suppression apply to them.
`lost` marks the one state that the properties leave out: a mode change that was not made by
rendermon and that the kernel refuses after wlroots has dropped the idle callback, with
`frame_scheduled` still raised.  Nothing the compositor does itself then draws again - the
heartbeat is suppressed by the flag - until a client damages the output or the flag is reset by
an output request.

**GameMode** is two threads.  The main one is event-driven: whatever may change which
fullscreen window is in front arms a debounce timer, and `Decide` is `update_game_mode`
when it fires.  The worker takes what is in the mailbox of one entry and goes through its stages;
a step of its own is each signal it sends, each note it makes of it and each write of clocks, and the
main thread, a quit, a crash or the death of a process may come between any two.
`books` are the lists from which a fatal signal and the exit undo things, `sys` is the truth.  Each list has `MaxPids` places: a
process is stopped only if there is one, but made idle before the list is asked.  A sweep of /proc may meet processes that
were created after it began, or miss those; processes that are gone it passes over.
Power profile, governor, GPU clocks, fans and affinity go together as one flag, `clocks`.  The raised priority of the game
itself is modelled but no property speaks of it, since an exit does not always take it back (see below): what rest and
quitting leave untouched means nothing stopped, nothing idle and no clocks.

**LaunchFx** has Steam's reapers, which die and are replaced by others while one game starts, the
poll that finds them, the cover that grows when a game goes fullscreen, and the notes by which
growth, first buffer and first frame find each other.  Times are ages: a grace period or a
deadline is `young`, then `old`, then acted on.  `wild` is an effect torn down after its
monitor was unplugged, which reads freed memory; `leaked` is a cover that failed half-way.

**Fullscreen** has only what outputs see of windows: closed, tiled or fullscreen, where, and on
which of two workspaces.  `OutputModes` and `AdaptiveSync` join its steps to what
setfullscreen, setmon, mapnotify, unmapnotify, workspace_switch, the player's messages, the
video detection and rendermon do to the outputs, each function an operator on the fields of one
output, with whether the hardware accepts its commit as an argument.  They are two
modules since a mode is set at once and adaptive sync may wait for a frame, and neither reads the
other's state except where the model lets it be a choice.
`lost` records what a refused commit or a dark output kept from being given back; the code has no
such field, and the properties need it to say what else must hold.

## What the runs check

| Run | Shows |
|---|---|
| `tiles` | `GrabMapped`: the pointer never holds a window that is gone; `OthersStay`, `RowOrderKept`: no step moves two windows to other workspaces, but floating ones it releases from fullscreen, or swaps others in a row; `CloseTidies`: closing a tile tidies the list |
| `desk` | all handlers on two monitors: `NoDangling`, `RowsAgree`, `EveryWindowPlaced`, `NumberedInOrder` keep the structure consistent; `ViewIsTheUsers`: the view changes only by the user, an activation or the loss of the workspace; `NavigationFocusesVisible`; `FullscreenKept`; `ImplementsPlacement` |
| `compaction` | `LoopsMeanCompact`: the loops compute the closed form and never show a freed workspace; `EndsTidy`: they end |
| `hotplug` | `OnPresentMonitor`, `NobodyInTheDark`: a window is not lost with a monitor; `WindowsComeHome` when its own is lit - all three of the window's monitor (`c->mon`), not of the column or `fs_ws` that may stay behind; `RowsBreakOnlyByHop`: rows and columns agree up to the one key that parts them |
| `x_hotplug_rows` | refutes a sentence of a comment of the code; see below |
| `size_sync` | `ComesToRest`: the watchdog, whatever the client does; `FillableIsFilled`: a client that can fill its box, and answers, ends up filling it |
| `frames` | `FlagMeansFrame`: a raised `frame_scheduled` has a frame on its way; `NeverForgotten`: the heartbeat stands behind every chain of frames; `DamageShown`, `CallbacksAnswered`: damage reaches the screen and clients are answered; `IdleChainEnds` |
| `game_mode` | `AllNoted`: a crash can undo what the worker stopped; `RestLeavesNothing`, `QuitLeavesNothing`: superseded orders and quitting leave nothing; `OrdersCarriedOut`: the last order wins; `SystemComesBack`; `EndsWithTheWindows` |
| `launch` | `EndsClean`: no boost without a launch; `PresentedIsRevealed`: the cover goes once the game presents; `AbortedEnds`: a launch that came to nothing ends; `TriggersOnce`: one Play press, one launch |
| `output_modes` | `ModeOwned`: every mode that is not the best one has a borrower; `ExitReleases`: leaving fullscreen gives everything back |
| `adaptive_sync` | `SyncOwned`: never on without an owner; `PendingSettles`: what waits for a frame does not wait for ever |
| `x_game_runs` | refutes a sentence of a comment of the code; see below |

`Placement` has no run of its own: `desk` runs through its steps, and what it promises is proved.

The type invariants are the first conjunct of the inductive invariants; those of `Placement`,
`Workspaces`, `Frames`, `SizeSync`, `GameMode`, `OutputModes` and `AdaptiveSync` are proved.  `EndsClean` includes the one of `LaunchFx`.

### Disagreements between comments and the code

`GameRuns` (run `x_game_runs`): gamemode.c:2020-2023 says that the game's pid is fetched first "so the game and
its children are excluded from SIGSTOP".  The sweep reads the global `game_mode_pid`, not the pid
of its order, and setfullscreen clears the global when the game leaves fullscreen.  A game that leaves and
re-enters fullscreen within the debounce time, while the sweep runs, is stopped by it; `update_game_mode`
then finds game mode on for the same client and posts nothing that would set it going again.
(If the toggle ends with another game in front the effect is the same for the other.)

`HopAttaches` (run `x_hotplug_rows`): workspace.c:1322-1323 says of a column sent to the next monitor that "setmon detaches
from old column [...] and attaches to dst_ws as a fresh column".  A tile moves away from a monitor that is disabled and is
handed back when it is lit, its column staying on the other monitor's workspace.  Sent to its own monitor by the key,
`setmon` returns at once (client.c:2346), and the column is linked into the row shown there while `column->ws`, `n_columns`
and the `focused_col` of the workspace it left stay as they were.  `RowsBreakOnlyByHop` says that no other step does this.

### Seen while modelling

In the model where it is about modelled state, and without a run of their own.

Windows and focus.

* Closing the focused tile gives the keyboard to the most recently used window, not to the left neighbour
  (client.c:2380; the comments at client.c:2603 and workspace.c:145 speak of the neighbour).  The keyboard can go to a
  window of a workspace that is not shown, and activating a tile takes the keyboard from
  the fullscreen window over it (against layout.c:98).
* The kill key can close a fullscreen window that is not shown (client.c:886); activating a hidden tile
  does nothing if it is the most recent window (client.c:2723); a hidden tile that becomes fullscreen leaves
  a gap in the list (workspace.c:432).
* A tray popup floats while its column stays (client.c:1348-1356); a Wine program is forced fullscreen by the second
  test after the first spared it (client.c:1238, 1429).
* A window made fullscreen while it is dragged is dropped into a column while it is fullscreen.  For this reason
  `EveryWindowPlaced` is not claimed of `Drag`.  A second press during a drag leaves a tile floating.

Outputs and sizes.

* A fullscreen window that `updatemons` hands back keeps a workspace of the other monitor (output.c:6702), which activation then shows on the wrong one.
* A configuration reload lights or darkens outputs without touching `asleep` (config_loader.c:688), so a monitor
  that slept, was woken by a reload and is disabled by the next keeps its windows in the dark.
* A slow client is not told of a box that was superseded while it still owed an answer (converge.c).

Modes and adaptive sync.

* A refused commit of a frame drops the pending change of adaptive sync: the retry without it falls through to
  the code that finalizes the change, although the comment at output.c:2066-2072 keeps it pending, so its counter of
  three tries never gets past one for the same change.
* restore_max_refresh_rate takes back adaptive sync only if `vrr_active`, so one that is still pending comes on after
  the video has ended.  disable_game_vrr clears its flag on a refused commit.
* unmapnotify gives back what selmon has borrowed: setmon(c, NULL) has cleared the window's own monitor before it is asked for
  (client.c:2621).  A fullscreen window that is moved leaves its loans on the monitor it left.
* A fullscreen game that maps over another program's fullscreen window borrows first, and the release
  of the other then takes the mode from it.
* A workspace switch's deferred change turns adaptive sync off under a game that entered fullscreen before the next frame.
* What gamescan or the lock decided for one game may be carried out for another after a workspace switch.
* try_reapply_bestmode lights an output that sleeps.

Game mode and launch.

* setfullscreen(c, 0) clears `game_mode_pid` before the exit is posted, so the exit gets no pid and the game keeps its
  raised priority (gamemode.c:1798 against 2119).
* An exit and an entry that both reach the mailbox before the worker wakes are one order, and a worker that has already applied the first game
  never raises the second.
* `lower_competing_processes` makes a process idle first and asks afterwards whether `lowered_pids` has a place (gamemode.c:450-452), so
  beyond 4096 a process is made idle, not noted and never restored, although nixlytile.c:954-955 says that cleanup() undoes it.  With
  a smaller `MaxPids` than processes TLC finds `QuitLeavesNothing` violated.
* A crash between the signal that stops a process and the note of it leaves that process stopped: the one exception of `AllNoted`.
* system() in the worker can lose its child's status to the SIGCHLD handler, which reaps any child (gamemode.c:313,
  nixlytile.c:934); the power profile is then not restored.
* `fx.mon` dangles after its monitor is unplugged (launchfx.c:129), the state `wild`; a cover
  that fails half-way leaves the boost on, the state `leaked`; the cover ends after ten seconds at the latest only if no further
  window maps, since mapnotify re-arms the window's deadline.

### Bounds

* `tiles`: three windows and three workspaces are the least with neighbours on both sides of a
  tile and with a gap between two occupied workspaces.
* `desk`: two windows, two monitors and three workspaces: a program taken for a game and its dialog.
  Each handler's branches are reached with two windows, and
  each monitor can have a spare workspace, though not both at once.
* `MaxJump` bounds the number keys; a jump of 2 goes past the end of every list here.
* `hotplug`, `x_hotplug_rows`: one window and three workspaces suffice for a window to be moved away, be
  restored, be activated and be sent home; the desk steps are those that place windows, tiled or fullscreen (a floating one is left to the theorems).  Two windows
  exceed a useful time.
* `compaction`: five workspaces, so that two gaps, a tail of two empty ones and the one
  shown can be combined in every order.
* `size_sync`: three sizes give a box below, at and above a minimum or a
  rounding; `MaxTries` is 2 where the code has 4, which leaves a first, a repeated and a last
  attempt; `MaxChanges` is 3, enough for a size to be superseded while another is
  unanswered.
* `frames`: `MaxRetries` 1, `MaxTransient` 2 and `MaxHold` 2 stand for 3, 12 and up to a few
  vblanks: each leaves a value below, at and above the bound, and a counter that saturates
  behaves the same from there on.
* `game_mode`: a game, another program, and their processes.  The second process is what a sweep stops
  besides, or instead of, the game, and the second window what a game hands the screen to.  `MaxPids` 2 leaves a place
  for each process, as 4096 does on an ordinary system.
* `launch`: two reapers, one that dies and one that succeeds it; `MaxSeen` 2 for the 32 that are remembered.
* `output_modes`, `adaptive_sync`: one output that can lend and one that cannot (`Rich`), so that selmon and moves matter;
  a game and one program that is both player and console, or a player.  `MaxTries` is 2 where the code has 3.

Windows that differ in nothing, and workspaces, are interchangeable, so runs without
liveness properties use symmetry.  The runs that do not check for deadlock are those of systems that stop: the loops
of `Compaction`, `Hotplug` as told above, a compositor that has quit, an effect that went `wild`; in `output_modes` and
`adaptive_sync` some step is always enabled and the check would say nothing.

### Fairness

`Workspaces`, `Placement`, `Hotplug` and `OutputModes` state safety only and assume no fairness.
`Compaction` is a call that runs to its end, so its steps are weakly fair.  In `SizeSync` frames are
weakly fair because `rendermon` schedules the next one while anything moves or is
pending; an animation arrives (a damped spring; strong fairness, since a frame may
also leave it moving); the clock runs; the user lets go of the button.
Only `FillableIsFilled` assumes anything of the client: that it goes on acking what it was sent.

In `Frames` idle callbacks, page flips of a lit output and timers come (weak fairness: the event
loop and the kernel deliver them; the heartbeat only while no frame is on its way, since
a pass pushes it back).  A pass may be latched late, be suppressed, find no buffer or be
refused by the kernel any number of times, but of infinitely many that could reach the screen one does
(strong fairness of `Reaches`): failures are retried with other buffers and modes until
the hardware takes one, the suppression ends after three vblanks, and mode changes are seconds apart.

In `GameMode` the worker runs (weak fairness of its steps and of the join at exit) and the debounce timer fires.
In `LaunchFx` the tick and the poll timers fire, time passes, and a game on screen
commits and is drawn; the watchdog is not assumed, so the properties hold before it is needed.  In `AdaptiveSync` a
frame without damage comes (weak fairness of `Frame(m, FALSE)`) because every function that
leaves a change pending also asks for a frame; damage is not assumed, and whether such a
frame passes the idle gate is what `PendingSettles` is about.

## What is proved

`Placement_proofs` proves, for every set of windows, workspaces and monitors and
as long as `NoWs` and `NoMon` are none of them (`NullsApart`, which holds of the values `Workspaces` gives):

* `TypeCorrect`: `Spec => []TypeOK`;
* `PointersLive`: `Spec => []NoDangling`;
* `OccupiedStays`: `Spec => OccupiedKept`.

The inductive invariant is `TypeOK /\ NoDangling`, with `NullsApart`.  `NoDangling` alone is not
inductive in parts: that a column's workspace is live needs that the workspace shown
is live (windows open there), that the fullscreen binding is live needs that it is
freed by compaction only when unused, and that a window sent to another monitor
lands on a live workspace needs `ListsLive` of that monitor.  The proof has a
lemma per action, and one lemma for what compaction keeps (`CompactedKeeps`), on
which `Close` and `Send` rest.

`FrameSync_proofs` proves of `Frames`, for all bounds on retries and held frames and from
`FramesAssumption` alone:

* `OutputTyped`: `Spec => []TypeOK`;
* `FlagTruthful`: `Spec => []FlagMeansFrame`;
* `OutputRemembered`: `Spec => []NeverForgotten`;
* `IdleEnds`: `Spec => IdleChainEnds`.

The inductive invariant `Inv` is the first three together, which every handler keeps.  Inside a pass
only `Within` holds: well typed, and the flag truthful; rendermon may have used up the frame
it was called for and the heartbeat may have gone off.  So the lemmas follow the stages of
rendermon, each keeping `Within`, until one of its ends (latched late, no buffer, frame_done
withheld, frame_done given) establishes `Over`, the invariant.  `IdleEnds` follows the same
stages for a still desktop and shows that all but one of them are empty.

`GameMode_proofs` proves, for every set of clients and every finite set of processes, from `GameModeAssumption` (clients have
processes, the null values are none of them):

* `GameModeTyped`: `Spec => []TypeOK`;
* `BooksTruthful`: from `Roomy`, `Spec => []AllNoted`;
* `RestClean`: from `Roomy`, `Spec => []RestLeavesNothing`;
* `QuitClean`: from `Roomy`, `Spec => []QuitLeavesNothing`;
* `NoOrderLost`: `Spec => []OrdersCarriedOut`.

`Roomy` says that the lists have a place for every process; without it the three are false, for the reason told above.

The invariant `Kept` has four parts besides types: `Noted` (the first property), `Staged` (at each stage of the worker, what
may be applied by then), `Ordered` (the mailbox holds what the main thread decided last, and a worker that has
nothing to read wants that), and that a compositor that has left, has left nothing.  `Staged` is what `RestLeavesNothing`
lacks to be inductive: an entry that was superseded has to be undone from the stages in between.
`Held`, that the worker notes a process it really holds, goes along.

`OutputModes_proofs` and `FrameSync_proofs` prove of `OutputModes` and `AdaptiveSync`, for every set of windows and outputs, from
`FullscreenAssumption` (and `SyncAssumption`, at least one try):

* `ModesTyped`: `ModesSpec => []ModesTypeOK`;
* `ModesAccounted`: `ModesSpec => []ModeOwned`;
* `LeavingReleases`: `ModesSpec => ExitReleases`;
* `SyncTyped`: `SyncSpec => []SyncTypeOK`;
* `SyncAccounted`: `SyncSpec => []SyncOwned`.

A handler is a chain of operators on the fields of an output, so the argument goes by operators: `Accounted`, the type and the
property for one output, is kept by each of them, whatever the hardware answers, and then by each
chain; `SetsKept`, `AllKept` and `UnchangedKept` carry that over to steps.  That windows stay well typed
is proved once in `Fullscreen_proofs`.  `LeavingReleases` first shows that only two steps make a window leave
fullscreen where it is - the key or request, and the map of another window - and then follows the four calls of
the release: each only lessens what is borrowed and decided (`Lessens`) and ends its own part.

`SizeSync_proofs` proves, for every set of sizes, bounds and manners of the client, from `SizeAssumption` and `BoundAssumption`:

* `TileTyped`: `Spec => []TypeOK`;
* `NewestIsAwaited`: `Spec => [](awaited \in {None, Len(sent)})`, so no answer to an older configure ends the wait, also after
  the watchdog has sent a size again.

The invariant is the two together: a request is sent only when nothing is awaited, which is what `Newest` of the
fields of the wire says of every operator that passes them along.

`Desk_proofs` is about `Workspaces`, `Drag` and `Compaction`.  For every set of windows, games and workspaces, every number of
monitors and every relation of parents, from the four assumptions of `Workspaces` (null values are none of the real ones;
at least one monitor; workspaces are a finite set with one at least for each monitor; games are windows):

* `DeskWellTyped`: `Spec => [](desk \in Desk /\ desk.kb \in Mapped(desk) \cup {NoClient})`;
* `PointersToLive`, `RowsConsistent`, `WindowsReachable`, `NumbersContiguous`: `[]NoDangling`, `[]RowsAgree`,
  `[]EveryWindowPlaced`, `[]NumberedInOrder`;
* `HeldIsMapped`: `DragSpec => []GrabMapped`; `DragConsistent`: the structure is kept with drags as well;
* `KeysFocusVisible`, `ViewKept`, `OthersLeftAlone`, `FullscreenLeftAlone`: `Spec` implies the action properties
  `NavigationFocusesVisible`, `ViewIsTheUsers`, `OthersStay`, `FullscreenKept`;
* `ClosingTidies`, `RowOrderPreserved`: `DragSpec` implies the action properties `CloseTidies`, `RowOrderKept`;
* `DeskIsPlacement`: `Spec => ImplementsPlacement`;
* `LoopsCompact`: `LoopsInit /\ [][CompactNext]_cvars => []LoopsMeanCompact`.

The proof follows the code: a lemma for each operator, then one for each handler, which composes them.  The operators keep
`Base` (typed; the order of the workspaces; rows and windows agree; what each monitor shows is its own), which also holds in the
middle of a handler.  What holds only between handlers is in `Sound`: `Base`, `Live` (every window that is mapped has its place,
and no other has one) and `Counted` (numbers without holes).  None of the four invariants is inductive alone.  That a
window's column is live after compaction needs that the row of a freed workspace was empty, which needs that rows and columns
agree; that numbers have no holes after a workspace is freed needs that they had none and that next_ws_id counts them.
`Keyed` says the keyboard is with a mapped window; `Uncol`, that a fullscreen window has no column, is what
`WindowsReachable` needs besides.  `DragInv` does without `Uncol`: a tile that is made fullscreen while it is dragged is dropped into a
row, so in `Drag` it is false, and all else has to be proved without it.

For the action properties each handler is given an effect, a formula about the desk before and after it: which windows
may have moved, which may have left fullscreen, whose view may have changed.  The effects compose along the calls, and the
properties follow from them.  The refinement uses them too: the map forgets order, numbers and focus
(`Abstract == INSTANCE Placement`), initial states map to initial states, and each handler maps to one step or a stutter, with
the fact that compaction frees only unused workspaces taken from the lemmas on `Compact`.

`RowOrderPreserved` follows what each operator does to a row position by position: taking one tile out or putting one in shifts the
others together.  The effects say so as `Ordered`, on the windows other than the one that is handled, and `OrderedTwice` composes it along
the calls; that window itself is covered because it has changed its row, or had none, or is the one that was dropped.

`LoopsCompact` says that the loops of monitor_compact_workspaces compute what `Compact` says in one step.  They begin on any sound desk
(`LoopsInit`), as every call of `Compact` in `Spec` and `DragSpec` is made on one; the lists the run `compaction` begins on are sound desks
with one monitor.  The invariant `LoopInv` names the set of workspaces that have been freed so far: the desk is the one before the call with these
gone and the others numbered by their rank (`Freed`), the monitor shows what it did, or what came next above a gap, or the last
that is left (`Views`), and the set has only gaps in the first loop, all gaps and an end of the list in the second (`Reached`).
In which order gaps are closed makes no difference to the proof.  It is about monitor 1, as the model is; the code treats all alike.

The attempt to prove `OthersStay` in its first form - at most one window changes workspace in a step - failed, and TLC then found the reason:
when a window opens over two floating windows that are fullscreen on the same workspace, both are released from the workspace they were bound
to, and a floating window has no other.  The property now excepts floating windows that leave fullscreen (`Released`).

`Hotplug_proofs` puts the steps of outputs around all handlers of the desk.  For every number of monitors, from the assumptions of `Workspaces`:

* `HotplugHoused`: `HSpec => []Housed(desk)`;
* `OnlyHopsBreakRows`: `HSpec => RowsBreakOnlyByHop`;
* `WindowsOnMonitors`: `HSpec => []OnPresentMonitor`;
* `DarkMonitorsEmpty`: `HSpec => NobodyInTheDark`;
* `LitMonitorsRestored`: `HSpec => WindowsComeHome`.

`Sound` is not invariant here: a window may be without a monitor (closemon finds none that is lit), may have been handed back by
updatemons while its column stayed on the workspace of another monitor, and a monitor may be removed.  Nor do rows and
columns agree in every state, since a hop home parts them.  The inductive invariant `HInv` is `Housed` - types, order and numbers of the
workspaces, which do not care where windows are; every mapped window on a monitor of the list or on none; the selected
monitor and all that are lit among those of the list - with a layout of monitors that are there and a list that has each
once.  `Homed` is `Housed` with rows that agree.  A step is taken only from a state that is `Defined`, so with `HInv` from one that
is `Homed` (`DefinedHomed`), and each is shown to end in one that is `Homed` again, but the hop home, which ends in one that is
`Housed`; hence both of the first two theorems.  `OnPresentMonitor` alone is not inductive: setmon
sends a window to the selected monitor, so that has to be one of the list, and a window may only be placed by a row that agrees with its
column.  All handlers of `Workspaces` are shown again to keep `Homed` from what `Desk_proofs` says of their operators, whose
lemmas therefore ask for `Base` where that is enough.

The loops of closemon and updatemons - over the windows, over the monitors - are followed round by round (`Loop`).  A loop over windows leaves the
monitor it empties empty (`Emptied`), because the windows it moves go to the selected monitor, another one, or to none (`Goes`); a loop over
monitors leaves every disabled one deserted (`Deserted`: no window, not selected), because later rounds select only lit ones and so send it no window.  `Served` is what
an output step has done in the end; each is shown to do it, and the two action properties follow from it.

The steps are those in which `Defined` holds before.  Without `RowsAgree` a column would be taken out of a row it is not
in.  Without `NothingFreed` a window could be bound to, or the user return to, a workspace that has been freed and allocated
again, and no statement about rows and columns is left.  The proof needs that in two places: that a workspace allocated for a new
monitor is not in use by any window, and that the neighbour of the workspace in view is on the same list.

The theorems on the launch effect, in `GameMode_proofs`, hold for every set of games, every finite set of reapers and every size of the table,
from `LaunchAssumption`:

* `LaunchEndsClean`: `FxSpec => []EndsClean`;
* `LaunchTriggersOnce`: `Cardinality(Reaper) <= MaxSeen /\ FxSpec => TriggersOnce`.

`EndsClean` is inductive together with one fact, that a launch that is tracked has not left a boost behind (`LaunchInv`);
the lemmas carry it, as `Clean`, from operator to operator on the pair of effect and boost.  `TriggersOnce` needs `UsedSeen`: a reaper
that has started or joined a launch is in `seen_reapers` while it lives.  That is only so while the table has room, hence
the hypothesis: with more live reapers than the 32 entries the code does take one for new at each poll.

Where a model loops - the sweep over the reapers, mapnotify's loop, renumbering - its definition is a recursive function of
the number of turns taken.  What such a function keeps is proved without an induction theorem (these take an operator as parameter, which
the provers cannot instantiate): `LeastNatural`, that a set of natural numbers which is not empty has a least element, is
applied to the turns at which the claim would be false.

### Model-checked only

* All liveness: `EndsTidy`, `ComesToRest`, `FillableIsFilled`, `DamageShown`, `CallbacksAnswered`, `SystemComesBack`, `EndsWithTheWindows`,
  `PresentedIsRevealed`, `AbortedEnds`, `PendingSettles`.  The provers have no rule for fairness and `ENABLED`.

## Not modelled

* Column widths, camera and geometry; gestures; unmanaged X11 windows as such; layer surfaces and the session lock;
  tags of dwl, which workspaces replace; X11's way of resizing; mirroring.
* Output modes: which mode is picked and from what measurements, resolutions pinned in the configuration, output-management
  clients (wlr-randr) that set modes and adaptive sync themselves, games that span outputs, HDR and 10 bits.
  setcustomhz, set_custom_video_mode, testhzosd and togglefullscreenadaptivesync are bound to no key.
  That mapnotify spares the fullscreen window of the same program or of a parent is left to `Workspaces`.
  Several windows that leave fullscreen in one map are one release, and two commits of adaptive sync in one handler get the same answer.
* Game mode: the child processes by which the worker sets profiles, the statistics panel, the GPU back ends.
* The components listed as not modelled in PROJECT.json, with the reason for each: they draw, parse or do I/O, and keep no state
  whose history could go wrong; or, as vendored code, they enter through what the program uses of them.

## Plan

1. Done: `Workspaces`, `Placement`, `Drag`, `Compaction`, `Hotplug`, `SizeSync`, `Frames`, `GameMode`, `LaunchFx`, `OutputModes`,
   `AdaptiveSync`, and the proofs above.
2. Next proofs: the safety part of `SizeSync` beyond types (which size is awaited while a box is dragged).
3. Next modules: the notification lane; X11 sizes in `SizeSync`; column widths with their clamps; configuration reload in `Hotplug`.
