----------------------------- MODULE AdaptiveSync -----------------------------
(***************************************************************************)
(* Adaptive sync (VRR), lent by an output to the windows that are fullscreen    *)
(* there: to a game at once, in a commit of its own; to a video with the next     *)
(* frame, because a commit of its own blocks.  A change that waits for a frame is   *)
(* vrr_pending.  Both borrowers, and everything that ends a loan, write the same      *)
(* property of the hardware.  The modes are in OutputModes.                            *)
(***************************************************************************)
EXTENDS Fullscreen

CONSTANT MaxTries       \* refused commits after which a change is given up (3)

ASSUME SyncAssumption == MaxTries \in Nat \ {0}

VARIABLES
    out,        \* the Monitor's fields about adaptive sync
    allow,      \* fullscreen_adaptive_sync_enabled
    ultra       \* game_mode_ultra

user == <<allow, ultra>>
syncvars == <<out, user, desk>>

\* sync: adaptive_sync_status; want and tries: vrr_pending and its counter; vrr, gvrr:
\* vrr_active, game_vrr_active; bad: vrr_unusable.  lost is a record for the properties:
\* a refused commit has left adaptive sync on.
Output == [sync : BOOLEAN, want : {"none", "on", "off"}, tries : 0..(MaxTries - 1),
           vrr : BOOLEAN, gvrr : BOOLEAN, bad : BOOLEAN, lost : BOOLEAN]

SyncTypeOK == DeskTypeOK /\ out \in [Mon -> Output] /\ allow \in BOOLEAN /\ ultra \in BOOLEAN

SyncInit ==
    /\ DeskInit
    /\ out = [m \in Mon |-> [sync |-> FALSE, want |-> "none", tries |-> 0, vrr |-> FALSE,
                             gvrr |-> FALSE, bad |-> FALSE, lost |-> FALSE]]
    /\ allow = TRUE
    /\ ultra = FALSE

-----------------------------------------------------------------------------
(* Commits of adaptive sync alone.  o are the fields of the output m, ok is whether    *)
(* the hardware accepts; two commits of the same handler have the same answer.         *)

Synced(o, v) == [o EXCEPT !.sync = v, !.lost = @ /\ v]

\* set_adaptive_sync
SetSync(m, o, v, ok) == IF lit[m] /\ m \in Rich /\ allow /\ ok THEN Synced(o, v) ELSE o

EnableGame(m, o, ok) ==
    IF lit[m] /\ m \in Rich /\ allow /\ ok /\ ~ o.gvrr
    THEN [Synced(o, TRUE) EXCEPT !.gvrr = TRUE]
    ELSE o

\* disable_game_vrr: the flag goes also when the commit is refused.
DisableGame(m, o, ok) ==
    LET p == [o EXCEPT !.gvrr = FALSE]
    IN  IF ~ o.gvrr THEN o
        ELSE IF lit[m] /\ ok THEN Synced(p, FALSE)
        ELSE [p EXCEPT !.lost = @ \/ (o.sync /\ ~ o.vrr)]

-----------------------------------------------------------------------------
(* The loan to a video: what the next frame is to change.                            *)

\* enable_vrr_video_mode, by apply_best_video_mode if that prefers it to a mode.
EnableVideo(m, o) ==
    {o} \cup (IF lit[m] /\ m \in Rich /\ allow /\ ~ o.bad THEN {[o EXCEPT !.want = "on"]} ELSE {})

\* disable_vrr_video_mode
DisableVideo(m, o) ==
    IF lit[m] /\ (o.vrr \/ o.want = "on") THEN [o EXCEPT !.want = "off"] ELSE o

\* restore_max_refresh_rate: a loan that still waits for its frame is not looked at.
RestoreMax(m, o) ==
    IF lit[m] THEN [IF o.vrr THEN DisableVideo(m, o) ELSE o EXCEPT !.bad = FALSE] ELSE o

\* Mutant: the workspace switch clears vrr_active itself.
InvalidatedAtOnce(o) ==
    [o EXCEPT !.want = IF o.vrr THEN "off" ELSE IF @ = "on" THEN "none" ELSE @, !.vrr = FALSE]

\* invalidate_video_pacing
Invalidated(o) == [o EXCEPT !.want = IF o.vrr THEN "off" ELSE IF @ = "on" THEN "none" ELSE @]

\* The restoring half of setfullscreen(c, 0), and that of unmapnotify.
Released(m, o, ok) == RestoreMax(m, DisableGame(m, SetSync(m, o, FALSE, ok), ok))
Unmapped(m, o, ok) == RestoreMax(m, SetSync(m, o, FALSE, ok))

\* The borrowing half of setfullscreen(c, 1).
Entered(m, o, c, ok) == IF c \in Game THEN EnableGame(m, SetSync(m, o, TRUE, ok), ok) ELSE o

-----------------------------------------------------------------------------
(* Windows.                                                                          *)

Sets(m, o) == out' = [out EXCEPT ![m] = o] /\ UNCHANGED user

Enter(c) ==
    /\ Fills(c)
    /\ \E ok \in BOOLEAN : Sets(win[c].at, Entered(win[c].at, out[win[c].at], c, ok))

Exit(c) ==
    /\ Leaves(c)
    /\ \E ok \in BOOLEAN : Sets(win[c].at, Released(win[c].at, out[win[c].at], ok))

\* A window that is fullscreen when it maps enters first; those it finds leave after it.
MapFull(c, m) ==
    /\ Maps(c, m, AsFull(m))
    /\ \E ok, again \in BOOLEAN :
         LET p == Entered(m, out[m], c, ok)
         IN  Sets(m, IF ShownOn(m) = {} THEN p ELSE Released(m, p, again))

\* The monitor of an X11 window is set while it is mapped, so that setmon has
\* setfullscreen(c, 0) give back what others have borrowed.
MapTile(c, m) ==
    /\ Maps(c, m, AsTile(m))
    /\ \/ ShownOn(m) = {} /\ UNCHANGED <<out, user>>
       \/ \E ok \in BOOLEAN : Sets(m, Released(m, out[m], ok))

\* setmon
Move(c, m) ==
    /\ Moves(c, m)
    /\ \E ok \in BOOLEAN :
         Sets(m, IF Full(c) THEN Entered(m, out[m], c, ok) ELSE Released(m, out[m], ok))

\* unmapnotify, which asks selmon; game mode takes back what it lent when it ends.
Unmap(c) ==
    /\ Unmaps(c)
    /\ IF Full(c)
       THEN \E ok \in BOOLEAN : Sets(sel, Unmapped(sel, out[sel], ok))
       ELSE UNCHANGED <<out, user>>

Switch(m) == Switches(m) /\ Sets(m, Invalidated(out[m]))
Select(m) == Selects(m) /\ UNCHANGED <<out, user>>
Power(m) == Powers(m, ~ lit[m]) /\ UNCHANGED <<out, user>>

-----------------------------------------------------------------------------
(* Players, game mode and the user.                                                  *)

VideoPlaying(m) ==
    /\ \E o \in EnableVideo(m, out[m]) : Sets(m, o)
    /\ UNCHANGED desk

VideoStopped(m) ==
    /\ \E also \in SUBSET (Mon \ {m}) :
         /\ {d \in Mon \ {m} : FullOn(d) \cap Film = {} /\ out[d].vrr} \subseteq also
         /\ out' = [d \in Mon |-> IF d \in also \cup {m} THEN RestoreMax(d, out[d]) ELSE out[d]]
    /\ UNCHANGED <<desk, user>>

\* check_fullscreen_video
Check(m) ==
    \E c \in Client : Finds(m, c) /\ \E o \in EnableVideo(m, out[m]) : Sets(m, o)

\* update_game_mode with a game as the first fullscreen window that is shown.  When the
\* mode begins, VRR is only for a window that says of itself that it is a game.
GameModeOn ==
    /\ \E m \in Mon : \E c \in ShownOn(m) \cap Game : \E hints, ok \in BOOLEAN :
         out' = [out EXCEPT ![m] = IF ultra \/ hints THEN EnableGame(m, @, ok) ELSE @]
    /\ ultra' = TRUE
    /\ UNCHANGED <<desk, allow>>

\* update_game_mode with another window there, or with none after the game has ended.
GameModeOff ==
    /\ ultra
    /\ (\A m \in Mon : ShownOn(m) = {}) \/ (\E m \in Mon : ~ (ShownOn(m) \subseteq Game))
    /\ \E no \in SUBSET Mon : out' = [m \in Mon |-> DisableGame(m, out[m], m \notin no)]
    /\ ultra' = FALSE
    /\ UNCHANGED <<desk, allow>>

\* The v key of the statistics panel.
ToggleVrr ==
    /\ allow' = ~ allow
    /\ \/ ~ allow /\ UNCHANGED out
       \/ /\ allow
          /\ \E no \in SUBSET Mon :
               out' = [m \in Mon |->
                         LET p == DisableGame(m, out[m], m \notin no)
                         IN  IF p.vrr THEN DisableVideo(m, p) ELSE p]
    /\ UNCHANGED <<desk, ultra>>

-----------------------------------------------------------------------------
(* Frames: rendermon and commit_output_frame.                                        *)

\* Mutant: the idle gate forgets the pending change.
CommitsWhatMoves(o, c, damaged) == c \in Client \/ damaged

\* The idle gate: c has the focus on the output.
Commits(o, c, damaged) == c \in Client \/ damaged \/ o.want # "none"

\* The commit with the change aboard.  The hardware takes the change, ignores it, or
\* refuses the commit, which is then repeated without it.
Aboard(o, answer) ==
    IF answer = "takes" THEN Synced(o, o.want = "on")
    ELSE IF answer = "ignores" THEN o
    ELSE IF o.tries + 1 < MaxTries THEN [o EXCEPT !.tries = @ + 1]
    ELSE [o EXCEPT !.tries = 0, !.want = "none", !.bad = @ \/ o.want = "on"]

\* After the commit, whatever became of it: the hardware is asked, and the change is over.
Settled(o) ==
    IF o.want = "none" THEN o
    ELSE IF o.sync = (o.want = "on") THEN [o EXCEPT !.vrr = o.sync, !.want = "none"]
    ELSE [o EXCEPT !.want = "none", !.bad = @ \/ o.want = "on"]

Frame(m, damaged) ==
    /\ lit[m]
    /\ \E c \in ShownOn(m) \cup {Nothing} : Commits(out[m], c, damaged)
    /\ IF out[m].want = "none" THEN UNCHANGED <<out, user>>
       ELSE \E answer \in {"takes", "ignores", "refuses"} : Sets(m, Settled(Aboard(out[m], answer)))
    /\ UNCHANGED desk

SyncNext ==
    \/ \E c \in Client : Enter(c) \/ Exit(c) \/ Unmap(c)
    \/ \E c \in Client, m \in Mon : MapFull(c, m) \/ MapTile(c, m) \/ Move(c, m)
    \/ \E m \in Mon : Switch(m) \/ Select(m) \/ Power(m)
    \/ \E m \in Mon : VideoPlaying(m) \/ VideoStopped(m) \/ Check(m)
    \/ GameModeOn \/ GameModeOff \/ ToggleVrr
    \/ \E m \in Mon, damaged \in BOOLEAN : Frame(m, damaged)

\* An output that is lit comes round to a frame also when nothing on it moves.
SyncSpec == SyncInit /\ [][SyncNext]_syncvars /\ \A m \in Mon : WF_syncvars(Frame(m, FALSE))

-----------------------------------------------------------------------------
(* Properties.                                                                       *)

\* Adaptive sync is never on without an account of who has it on and will turn it off,
\* except where the hardware or the power kept a game's from being turned off.
SyncOwned == \A m \in Mon : out[m].sync => out[m].vrr \/ out[m].gvrr \/ out[m].lost

\* A change of adaptive sync that waits for a frame is settled, also on a screen where
\* nothing moves, unless the output is put to sleep.
PendingSettles ==
    \A m \in Mon : (lit[m] /\ out[m].want # "none") ~> (~ lit[m] \/ out[m].want = "none")

=============================================================================
