------------------------------ MODULE OutputModes ------------------------------
(***************************************************************************)
(* The modes fullscreen windows borrow from their output.  Four parts of the   *)
(* compositor lend one: the video matcher, console mode, gamescan and the auto   *)
(* FPS lock.  Each has a flag of its own and gives the best mode back at every     *)
(* place where a window leaves fullscreen, as far as the flags of the others, the   *)
(* power of the output and the hardware let it.  What adaptive sync does in the      *)
(* same functions is in AdaptiveSync.                                                *)
(***************************************************************************)
EXTENDS Fullscreen

VARIABLE out        \* the Monitor's fields about its mode

modevars == <<out, desk>>

Owners == {"video", "console", "scan", "lock"}

\* own: *_mode_active; due: gamescan_pending, al_mode_pending; fallback:
\* video_fixed_fallback_hz.  lost is a record for the properties: what a refused commit
\* left as it was.
Output == [best : BOOLEAN, own : SUBSET Owners, due : SUBSET {"scan", "lock"},
           fallback : BOOLEAN, lost : SUBSET {"mode", "video"}]

ModesTypeOK == DeskTypeOK /\ out \in [Mon -> Output]

ModesInit ==
    /\ DeskInit
    /\ out = [m \in Mon |->
                [best |-> TRUE, own |-> {}, due |-> {}, fallback |-> FALSE, lost |-> {}]]

-----------------------------------------------------------------------------
(* Commits.  An operator takes the fields o of the output m and, where it commits    *)
(* something, whether the hardware accepts that.                                     *)

ToBest(o, ok) ==
    IF ok THEN [o EXCEPT !.best = TRUE, !.lost = @ \ {"mode"}]
    ELSE [o EXCEPT !.lost = IF o.best THEN @ ELSE @ \cup {"mode"}]

\* A borrower sets a mode: never the one the output has.
Borrowed(o, who) ==
    {[o EXCEPT !.own = @ \cup {who}, !.best = b] : b \in {b \in BOOLEAN : ~ (b /\ o.best)}}

\* apply_best_video_mode, if it succeeds with a fixed mode; that may be the one the output
\* has: then it only says so.
VideoMatched(m, o) ==
    {[o EXCEPT !.own = @ \cup {"video"}, !.best = b] : b \in {b \in BOOLEAN : lit[m] /\ m \in Rich}}

\* apply_console_mode
Consoled(m, o, ok) ==
    IF lit[m] /\ m \in Rich /\ "console" \notin o.own /\ ok
    THEN [o EXCEPT !.own = @ \cup {"console"}, !.best = FALSE]
    ELSE o

\* restore_max_refresh_rate
RestoreMax(m, o, ok) ==
    LET p == [o EXCEPT !.fallback = FALSE]
    IN  IF ~ lit[m] THEN o
        ELSE IF "video" \notin o.own THEN p
        ELSE IF o.best \/ ok
        THEN [ToBest(p, TRUE) EXCEPT !.own = @ \ {"video"}, !.lost = @ \ {"video"}]
        ELSE [p EXCEPT !.lost = @ \cup {"video"}]

\* restore_console_mode, and the modeset of gamescan_restore: the flag goes also when the
\* commit is refused.
Returned(m, o, who, ok) ==
    IF ~ lit[m] \/ who \notin o.own THEN o ELSE [ToBest(o, ok) EXCEPT !.own = @ \ {who}]

ScanRestored(m, o, ok) ==
    IF ~ lit[m] THEN o ELSE [Returned(m, o, "scan", ok) EXCEPT !.due = @ \ {"scan"}]

\* autolock_reset
LockReset(m, o, ok) ==
    LET q == [o EXCEPT !.own = @ \ {"lock"}, !.due = @ \ {"lock"}]
    IN  IF "lock" \in o.own /\ o.own \cap {"scan", "console"} = {}
        THEN ToBest(q, lit[m] /\ ok)
        ELSE q

\* Mutant: gamescan forgets its flag where it should give its mode back.
ReleasedWithoutScan(m, o, no) ==
    LockReset(m, Returned(m, RestoreMax(m, o, "video" \notin no), "console", "console" \notin no),
              "lock" \notin no)

\* The restoring half of setfullscreen(c, 0), for the monitor of c, and of unmapnotify;
\* no: the borrowers whose commits the hardware refuses.
Released(m, o, no) ==
    LockReset(m,
        ScanRestored(m,
            Returned(m, RestoreMax(m, o, "video" \notin no), "console", "console" \notin no),
            "scan" \notin no),
        "lock" \notin no)

\* The borrowing half of setfullscreen(c, 1).
Entered(m, o, c, no) ==
    LET p == LockReset(m, o, "lock" \notin no)
    IN  IF c \in Console THEN Consoled(m, p, "console" \notin no) ELSE p

-----------------------------------------------------------------------------
(* Handlers.                                                                         *)

Sets(m, o) == out' = [out EXCEPT ![m] = o]

Enter(c) ==
    /\ Fills(c)
    /\ \E no \in SUBSET {"lock", "console"} : Sets(win[c].at, Entered(win[c].at, out[win[c].at], c, no))

Exit(c) ==
    /\ Leaves(c)
    /\ \E no \in SUBSET out[win[c].at].own : Sets(win[c].at, Released(win[c].at, out[win[c].at], no))

\* A window that is fullscreen when it maps enters first; those it finds leave after it.
MapFull(c, m) ==
    /\ Maps(c, m, AsFull(m))
    /\ \E no \in SUBSET {"lock", "console"} :
         LET p == Entered(m, out[m], c, no)
         IN  IF ShownOn(m) = {} THEN Sets(m, p)
             ELSE \E again \in SUBSET p.own : Sets(m, Released(m, p, again))

\* The monitor of an X11 window is set while it is mapped, so that setmon has
\* setfullscreen(c, 0) give back what others have borrowed.
MapTile(c, m) ==
    /\ Maps(c, m, AsTile(m))
    /\ \/ ShownOn(m) = {} /\ UNCHANGED out
       \/ \E no \in SUBSET out[m].own : Sets(m, Released(m, out[m], no))

\* setmon: nothing is given back on the monitor that is left.
Move(c, m) ==
    /\ Moves(c, m)
    /\ IF Full(c)
       THEN \E no \in SUBSET {"lock", "console"} : Sets(m, Entered(m, out[m], c, no))
       ELSE \E no \in SUBSET out[m].own : Sets(m, Released(m, out[m], no))

\* unmapnotify: setmon(c, NULL) has cleared the monitor before it is asked for, so that
\* it is selmon that gets its mode back.
Unmap(c) ==
    /\ Unmaps(c)
    /\ IF Full(c)
       THEN \E no \in SUBSET out[sel].own : Sets(sel, Released(sel, out[sel], no))
       ELSE UNCHANGED out

Switch(m) == Switches(m) /\ UNCHANGED out
Select(m) == Selects(m) /\ UNCHANGED out
Power(m) == Powers(m, ~ lit[m]) /\ UNCHANGED out

\* try_reapply_bestmode, from the EDID timer or a request of the backend; it also lights
\* an output that sleeps.
Reapply(m) ==
    /\ ~ out[m].best
    /\ Powers(m, TRUE)
    /\ Sets(m, ToBest(out[m], TRUE))

\* VideoPlaying and VideoStopped from the player, for the monitor they resolve to.  The end
\* of a video also restores the others that show none, those in a video mode and those
\* that only have VRR.
VideoPlaying(m) ==
    /\ \E o \in VideoMatched(m, out[m]) : Sets(m, o)
    /\ UNCHANGED desk

VideoStopped(m) ==
    /\ \E kept \in SUBSET {d \in Mon \ {m} : FullOn(d) \cap Film # {}}, vrr, no \in SUBSET Mon :
         out' = [d \in Mon |->
                   IF d = m \/ (d \notin kept /\ ("video" \in out[d].own \/ d \in vrr))
                   THEN RestoreMax(d, out[d], d \notin no) ELSE out[d]]
    /\ UNCHANGED desk

\* check_fullscreen_video; what does not get a mode gets VRR or a cadence.
Check(m) ==
    \E c \in Client :
      /\ Finds(m, c)
      /\ \/ /\ c \in Film /\ "video" \notin out[m].own
            /\ \E o \in VideoMatched(m, out[m]) : Sets(m, o)
         \/ UNCHANGED out

-----------------------------------------------------------------------------
(* rendermon: what an earlier frame decided is done while its reason is on screen,     *)
(* and a modeset is looked for that would help the game.                               *)

Fallback(m, o, c) ==
    LET p == [o EXCEPT !.fallback = FALSE]
    IN  {p} \cup (IF o.fallback /\ "video" \notin o.own /\ c \in Client /\ (c \in Film \/ win[c].found)
                  THEN VideoMatched(m, p) ELSE {})

\* Mutant: gamescan does not note that the mode is its own.
ScanAppliedUnnoted(o, c) ==
    LET p == [o EXCEPT !.due = @ \ {"scan"}]
    IN  {p} \cup (IF "scan" \in o.due /\ c \in Game /\ "scan" \notin o.own
                  THEN {[p EXCEPT !.best = FALSE]} ELSE {})

\* gamescan_apply, unless its modeset is refused or the size has no mode.
ScanApplied(o, c) ==
    LET p == [o EXCEPT !.due = @ \ {"scan"}]
    IN  {p} \cup (IF "scan" \in o.due /\ c \in Game /\ "scan" \notin o.own
                  THEN Borrowed(p, "scan") ELSE {})

\* autolock_apply_mode
LockApplied(o, c) ==
    LET p == [o EXCEPT !.due = @ \ {"lock"}]
    IN  {p} \cup (IF "lock" \in o.due /\ c \in Game THEN Borrowed(p, "lock") ELSE {})

\* gamescan_tick and autolock_tick
Decided(m, o, c) ==
    LET scan == IF o.own \cap {"scan", "video", "console"} = {} THEN {"scan"} ELSE {}
    IN  IF c \in Game /\ m \in Rich
        THEN {[o EXCEPT !.due = @ \cup more] : more \in SUBSET (scan \cup {"lock"})}
        ELSE {o}

\* c has the focus on m.  In the commit the hardware may turn out not to do VRR.
Frame(m) ==
    /\ lit[m]
    /\ \E c \in ShownOn(m) \cup {Nothing} :
         \E p \in Fallback(m, out[m], c) : \E q \in ScanApplied(p, c) :
           \E r \in LockApplied(q, c) : \E o \in Decided(m, r, c) :
             \/ Sets(m, o)
             \/ m \in Rich /\ Sets(m, [o EXCEPT !.fallback = TRUE])
    /\ UNCHANGED desk

ModesNext ==
    \/ \E c \in Client : Enter(c) \/ Exit(c) \/ Unmap(c)
    \/ \E c \in Client, m \in Mon : MapFull(c, m) \/ MapTile(c, m) \/ Move(c, m)
    \/ \E m \in Mon : Switch(m) \/ Select(m) \/ Power(m) \/ Reapply(m)
    \/ \E m \in Mon : VideoPlaying(m) \/ VideoStopped(m) \/ Check(m) \/ Frame(m)

ModesSpec == ModesInit /\ [][ModesNext]_modevars

-----------------------------------------------------------------------------
(* Properties.                                                                       *)

\* No mode is forgotten: an output that is not in its best mode has a borrower that will
\* give it back, unless the hardware or the power kept it from that once.
ModeOwned ==
    \A m \in Mon : out[m].best \/ out[m].own # {} \/ "mode" \in out[m].lost

\* A window that leaves fullscreen on a lit output takes every mode with it, whoever
\* borrowed it and for whom, and what was decided and not done yet.
ExitReleases ==
    [][\A c \in Client :
         LET m == win[c].at
         IN  (Full(c) /\ win'[c].how = "tile" /\ win'[c].at = m /\ lit[m])
             => /\ out'[m].best \/ out'[m].lost # {}
                /\ out'[m].own = {} \/ "video" \in out'[m].lost
                /\ out'[m].due = {} /\ ~ out'[m].fallback]_modevars
=============================================================================
