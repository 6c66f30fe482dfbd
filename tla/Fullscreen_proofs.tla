--------------------------- MODULE Fullscreen_proofs ---------------------------
(***************************************************************************)
(* Every step of a window keeps the desk well typed, whatever is done to the    *)
(* outputs with it.  The proofs about OutputModes and AdaptiveSync cite these     *)
(* lemmas, one per step.                                                           *)
(***************************************************************************)
EXTENDS Fullscreen, TLAPS

\* The two forms a window of an output can take.
LEMMA FullTyped ==
    ASSUME DeskTypeOK, NEW m \in Mon
    PROVE  AsFull(m) \in Window /\ AsFull(m).how # "closed" /\ AsFull(m).at \in Mon
BY DEF DeskTypeOK, AsFull, Window

\* As a tile it is well typed too.
LEMMA TileTyped ==
    ASSUME NEW m \in Mon
    PROVE  AsTile(m) \in Window /\ AsTile(m).how # "closed" /\ AsTile(m).at \in Mon
BY DEF AsTile, Window

\* And so is a window that is not mapped.
LEMMA ClosedTyped == Closed \in Window /\ Closed.how = "closed" /\ Closed.at = Nothing
BY DEF Closed, Window

\* An open window has a monitor.
LEMMA OpenAt ==
    ASSUME DeskTypeOK, NEW c \in Client, Open(c)
    PROVE  win[c].at \in Mon
<1>1. win[c] \in Window /\ win[c].at # Nothing
  BY DEF DeskTypeOK, Open
<1> QED
  BY <1>1 DEF Window

\* In particular a fullscreen window has one.
LEMMA FullAt ==
    ASSUME DeskTypeOK, NEW c \in Client, Full(c)
    PROVE  win[c].at \in Mon /\ Open(c)
<1>1. Open(c)
  BY DEF Full, Open
<1> QED
  BY <1>1, OpenAt

\* What becomes of one window is all that changes.
LEMMA BecomesTyped ==
    ASSUME DeskTypeOK, NEW c \in Client, NEW w \in Window, w.how = "closed" <=> w.at = Nothing,
           Becomes(c, w)
    PROVE  DeskTypeOK'
BY DEF DeskTypeOK, Becomes

\* setfullscreen(c, 1)
LEMMA FillsTyped ==
    ASSUME DeskTypeOK, NEW c \in Client, Fills(c)
    PROVE  DeskTypeOK' /\ win[c].at \in Mon
<1>1. win[c].at \in Mon /\ Becomes(c, AsFull(win[c].at))
  BY OpenAt DEF Fills
<1> QED
  BY <1>1, FullTyped, BecomesTyped, FullscreenAssumption DEF FullscreenAssumption

\* setfullscreen(c, 0)
LEMMA LeavesTyped ==
    ASSUME DeskTypeOK, NEW c \in Client, Leaves(c)
    PROVE  DeskTypeOK' /\ win[c].at \in Mon
<1>1. win[c].at \in Mon /\ Becomes(c, AsTile(win[c].at))
  BY FullAt DEF Leaves
<1> QED
  BY <1>1, TileTyped, BecomesTyped, FullscreenAssumption DEF FullscreenAssumption

\* mapnotify: the new window and those that leave fullscreen for it.
LEMMA MapsTyped ==
    ASSUME DeskTypeOK, NEW c \in Client, NEW m \in Mon, NEW w \in {AsFull(m), AsTile(m)},
           Maps(c, m, w)
    PROVE  DeskTypeOK'
<1>1. w \in Window /\ w.how # "closed" /\ w.at # Nothing
  BY FullTyped, TileTyped, FullscreenAssumption DEF FullscreenAssumption
<1>2. AsTile(m) \in Window /\ AsTile(m).how # "closed" /\ AsTile(m).at # Nothing
  BY TileTyped, FullscreenAssumption DEF FullscreenAssumption
<1>3. win' = [d \in Client |-> IF d = c THEN w ELSE IF d \in ShownOn(m) THEN AsTile(m) ELSE win[d]]
      /\ UNCHANGED <<view, sel, lit>>
  BY DEF Maps
<1> QED
  BY <1>1, <1>2, <1>3 DEF DeskTypeOK

\* setmon
LEMMA MovesTyped ==
    ASSUME DeskTypeOK, NEW c \in Client, NEW m \in Mon, Moves(c, m)
    PROVE  DeskTypeOK'
<1>1. Becomes(c, IF Full(c) THEN AsFull(m) ELSE AsTile(m))
  BY DEF Moves
<1> QED
  BY <1>1, FullTyped, TileTyped, BecomesTyped, FullscreenAssumption DEF FullscreenAssumption

\* unmapnotify
LEMMA UnmapsTyped ==
    ASSUME DeskTypeOK, NEW c \in Client, Unmaps(c)
    PROVE  DeskTypeOK'
BY ClosedTyped, BecomesTyped DEF Unmaps

\* workspace_switch
LEMMA SwitchesTyped ==
    ASSUME DeskTypeOK, NEW m \in Mon, Switches(m)
    PROVE  DeskTypeOK'
<1>1. view' \in [Mon -> 1..2]
  BY DEF DeskTypeOK, Switches
<1> QED
  BY <1>1 DEF DeskTypeOK, Switches

\* A new selmon.
LEMMA SelectsTyped ==
    ASSUME DeskTypeOK, NEW m \in Mon, Selects(m)
    PROVE  DeskTypeOK'
BY DEF DeskTypeOK, Selects

\* powermgrsetmode
LEMMA PowersTyped ==
    ASSUME DeskTypeOK, NEW m \in Mon, NEW on \in BOOLEAN, Powers(m, on)
    PROVE  DeskTypeOK'
BY DEF DeskTypeOK, Powers

\* check_fullscreen_video
LEMMA FindsTyped ==
    ASSUME DeskTypeOK, NEW m \in Mon, NEW c \in Client, Finds(m, c)
    PROVE  DeskTypeOK'
<1> DEFINE w == [win[c] EXCEPT !.found = TRUE]
<1>1. win[c] \in Window /\ (win[c].how = "closed" <=> win[c].at = Nothing)
  BY DEF DeskTypeOK
<1>2. w \in Window /\ (w.how = "closed" <=> w.at = Nothing)
  BY <1>1 DEF Window
<1>3. Becomes(c, w)
  BY DEF Finds
<1> QED
  BY <1>2, <1>3, BecomesTyped

\* A step that is not about the windows.
LEMMA StillTyped ==
    ASSUME DeskTypeOK, UNCHANGED desk
    PROVE  DeskTypeOK'
BY DEF DeskTypeOK, desk
=============================================================================
