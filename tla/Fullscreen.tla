------------------------------ MODULE Fullscreen ------------------------------
(***************************************************************************)
(* Windows as far as their outputs care: which are fullscreen, where, and     *)
(* whether they are shown.  The modules about what a window borrows from its    *)
(* output, OutputModes and AdaptiveSync, join these steps to what each does      *)
(* to the outputs.                                                               *)
(***************************************************************************)
EXTENDS Naturals, FiniteSets

CONSTANTS
    Mon,                    \* outputs
    Rich,                   \* those that have something to lend, and two workspaces
    Game, Film, Console,    \* programs: games; players; emulators and Big Picture
    Nothing                 \* no monitor; no window

Client == Game \cup Film \cup Console

ASSUME FullscreenAssumption ==
    /\ Rich \subseteq Mon
    /\ Nothing \notin Mon \cup Client
    /\ Game \cap (Film \cup Console) = {}

VARIABLES
    win,        \* the windows; found: the frame rate of its video is known
    view,       \* active_ws of each monitor
    sel,        \* selmon
    lit         \* wlr_output->enabled

desk == <<win, view, sel, lit>>

Window == [how : {"closed", "tile", "full"}, at : Mon \cup {Nothing}, ws : 1..2, found : BOOLEAN]

Closed == [how |-> "closed", at |-> Nothing, ws |-> 1, found |-> FALSE]

DeskTypeOK ==
    /\ win \in [Client -> Window]
    /\ \A c \in Client : win[c].how = "closed" <=> win[c].at = Nothing
    /\ view \in [Mon -> 1..2]
    /\ sel \in Mon
    /\ lit \in [Mon -> BOOLEAN]

DeskInit ==
    /\ win = [c \in Client |-> Closed]
    /\ view = [m \in Mon |-> 1]
    /\ sel \in Mon
    /\ lit = [m \in Mon |-> TRUE]

Open(c) == win[c].how # "closed"
Full(c) == win[c].how = "full"
FullOn(m) == {c \in Client : Full(c) /\ win[c].at = m}
ShownOn(m) == {c \in FullOn(m) : win[c].ws = view[m]}

AsFull(m) == [how |-> "full", at |-> m, ws |-> view[m], found |-> FALSE]
AsTile(m) == [how |-> "tile", at |-> m, ws |-> 1, found |-> FALSE]

Becomes(c, w) == win' = [win EXCEPT ![c] = w] /\ UNCHANGED <<view, sel, lit>>

\* setfullscreen(c, 1), also when c is fullscreen already: it is bound to the workspace
\* that is shown now.
Fills(c) == Open(c) /\ Becomes(c, AsFull(win[c].at))

\* setfullscreen(c, 0)
Leaves(c) == Full(c) /\ Becomes(c, AsTile(win[c].at))

\* mapnotify: the other windows it finds in fullscreen leave it.
Maps(c, m, w) ==
    /\ ~ Open(c)
    /\ win' = [d \in Client |-> IF d = c THEN w ELSE IF d \in ShownOn(m) THEN AsTile(m) ELSE win[d]]
    /\ UNCHANGED <<view, sel, lit>>

\* setmon between two monitors
Moves(c, m) ==
    /\ Open(c) /\ win[c].at # m
    /\ Becomes(c, IF Full(c) THEN AsFull(m) ELSE AsTile(m))

\* unmapnotify
Unmaps(c) == Open(c) /\ Becomes(c, Closed)

\* workspace_switch
Switches(m) == m \in Rich /\ view' = [view EXCEPT ![m] = 3 - @] /\ UNCHANGED <<win, sel, lit>>

Selects(m) == sel' = m /\ UNCHANGED <<win, view, lit>>

\* powermgrsetmode
Powers(m, on) == lit' = [lit EXCEPT ![m] = on] /\ UNCHANGED <<win, view, sel>>

\* check_fullscreen_video, once the frame rate of c is known.
Finds(m, c) ==
    /\ c \in ShownOn(m) /\ ~ win[c].found
    /\ Becomes(c, [win[c] EXCEPT !.found = TRUE])
=============================================================================
