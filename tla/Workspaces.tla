----------------------------- MODULE Workspaces -----------------------------
(***************************************************************************)
(* The niri-style desktop of nixlytile: every monitor owns a vertical list *)
(* of workspaces, every workspace a horizontal row of columns.  Windows    *)
(* are tiled (in a column), floating, or fullscreen (bound to a workspace  *)
(* through fs_ws and in no column).                                        *)
(*                                                                         *)
(* The compositor runs one handler of its event loop at a time, and a      *)
(* handler is a chain of calls that each update shared structures, so the  *)
(* state is one record, desk, every C function is an operator from desks   *)
(* to desks, and every action is a whole handler: the composition of its   *)
(* calls in the order the code makes them.                                 *)
(*                                                                         *)
(* Nothing in the code puts a second client into a column, so a column is  *)
(* identified with its client and a row is a sequence of clients.          *)
(***************************************************************************)
EXTENDS Integers, FiniteSets, SequencesExt

CONSTANTS
    Client,     \* toplevel windows
    NoClient,
    Ws,         \* the workspaces that fit in the modelled memory
    NoWs,
    NMon,       \* monitors 1..NMon, numbered from left to right
    Game,       \* the clients for which looks_like_game holds
    App,        \* client -> its app id
    Parent,     \* client -> the client it is transient for, or NoClient
    MaxJump     \* highest workspace number a key is bound to

Mon == 1..NMon
NoMon == 0
Dir == {-1, 1}

ASSUME CountAssumption == NMon \in Nat \ {0} /\ MaxJump \in Nat
ASSUME MemoryAssumption == IsFiniteSet(Ws) /\ Cardinality(Ws) >= NMon
ASSUME NullAssumption == NoClient \notin Client /\ NoWs \notin Ws
ASSUME ClientAssumption == /\ Game \subseteq Client
                           /\ Parent \in [Client -> Client \cup {NoClient}]

VARIABLE desk

vars == <<desk>>

Desk ==
  [owner   : [Ws -> Mon \cup {NoMon}],      \* ws->mon, NoMon once freed
   idx     : [Ws -> Int],                   \* ws->idx; the list is in this order
   next    : [Mon -> Int],                  \* m->next_ws_id
   active  : [Mon -> Ws \cup {NoWs}],
   prev    : [Mon -> Ws \cup {NoWs}],
   lit     : [Mon -> BOOLEAN],              \* m->wlr_output->enabled
   row     : [Ws -> Seq(Client)],           \* ws->columns
   focused : [Ws -> Client \cup {NoClient}],\* ws->focused_col
   col     : [Client -> Ws \cup {NoWs}],    \* c->column->ws
   fs_ws   : [Client -> Ws \cup {NoWs}],
   mon     : [Client -> Mon \cup {NoMon}],
   full    : [Client -> BOOLEAN],           \* c->isfullscreen
   float   : [Client -> BOOLEAN],           \* c->isfloating
   clients : Seq(Client),
   fstack  : Seq(Client),                   \* most recently focused first
   kb      : Client \cup {NoClient},        \* seat keyboard focus
   selmon  : Mon \cup {NoMon}]

-----------------------------------------------------------------------------
(* Reading the desk. *)

Pos(q, c) == CHOOSE i \in DOMAIN q : q[i] = c
First(q, Test(_)) ==
    LET i == SelectInSeq(q, Test) IN IF i = 0 THEN NoClient ELSE q[i]

Mapped(s) == ToSet(s.clients)
Present(s) == {m \in Mon : s.active[m] # NoWs}
Own(s, m) == {w \in Ws : s.owner[w] = m}
Fresh(s) == Own(s, NoMon)
Lowest(s, W) == CHOOSE w \in W : \A v \in W : s.idx[w] <= s.idx[v]
Highest(s, W) == CHOOSE w \in W : \A v \in W : s.idx[w] >= s.idx[v]

\* The workspace a window lives on: its column's, or the one it is
\* fullscreen on.
Home(s, c) == IF s.col[c] # NoWs THEN s.col[c] ELSE s.fs_ws[c]

\* Mutant: a window fullscreen on a workspace does not count.
OccupiedByTiles(s, w) == s.row[w] # <<>>

\* workspace_has_clients
Occupied(s, w) == \/ s.row[w] # <<>>
                  \/ \E c \in Mapped(s) : s.full[c] /\ s.fs_ws[c] = w

\* The list neighbour of w in direction d.
Beside(s, w, d) ==
    LET W == {v \in Own(s, s.owner[w]) : (s.idx[v] - s.idx[w]) * d > 0}
    IN  IF W = {} THEN NoWs
        ELSE IF d > 0 THEN Lowest(s, W) ELSE Highest(s, W)

\* The first of the monitors L that one meets in direction d; the next after m,
\* and the one dirtomon wraps around to.  L is the output layout, where a
\* sleeping output stays and a disabled one does not.
EndOf(L, d) == CHOOSE m \in L : \A n \in L : (m - n) * d <= 0
Beyond(L, m, d) == {n \in L : (n - m) * d > 0}
NextTo(L, m, d) == IF Beyond(L, m, d) = {} THEN NoMon ELSE EndOf(Beyond(L, m, d), d)
Around(L, m, d) == IF Beyond(L, m, d) = {} THEN EndOf(L, d) ELSE NextTo(L, m, d)
DirToMon(L, m, d) == IF m \in L THEN Around(L, m, d) ELSE m

\* focustop: it looks at the monitor only, not at the active workspace.
FocusTop(s, m) == First(s.fstack, LAMBDA c : m # NoMon /\ s.mon[c] = m)

\* fullscreen_visible_on, and the fsc of arrange
FullscreenOn(s, m) ==
    First(s.clients, LAMBDA c : /\ m # NoMon /\ s.full[c] /\ s.mon[c] = m
                                /\ s.fs_ws[c] \in {NoWs, s.active[m]})

\* client_is_fs_companion; parent chains have one link in the model
Companion(s, c, f) == \/ Parent[c] = f
                      \/ s.float[c] /\ App[c] = App[f]

\* The scene nodes arrange and monitor_apply_positions leave enabled: a
\* fullscreen window hides everything but its companions, and the windows of
\* an inactive workspace are hidden unless they float.
Shown(s, c) ==
    LET m == s.mon[c]
        f == FullscreenOn(s, m) IN
    /\ c \in Mapped(s) /\ m # NoMon
    /\ s.full[c] => s.fs_ws[c] \in {NoWs, s.active[m]}
    /\ ~ s.full[c] /\ ~ s.float[c] => s.col[c] \in {NoWs, s.active[m]}
    /\ f \notin {NoClient, c} => Companion(s, c, f)

-----------------------------------------------------------------------------
(* Workspaces and their rows. *)

\* Mutant: next_ws_id is not advanced.
CreateUncounted(s, m, w) ==
    [s EXCEPT !.owner[w] = m, !.idx[w] = s.next[m],
              !.row[w] = <<>>, !.focused[w] = NoClient]

\* workspace_create: w is the block the allocator returns.
Create(s, m, w) ==
    [s EXCEPT !.owner[w] = m, !.idx[w] = s.next[m], !.next[m] = @ + 1,
              !.row[w] = <<>>, !.focused[w] = NoClient]

\* Mutant: prev_ws is not cleared.
DestroyKeepsPrev(s, W) ==
    [s EXCEPT !.owner   = [w \in Ws |-> IF w \in W THEN NoMon ELSE @[w]],
              !.idx     = [w \in Ws |-> IF w \in W THEN 0 ELSE @[w]],
              !.active  = [m \in Mon |-> IF @[m] \in W THEN NoWs ELSE @[m]]]

\* workspace_destroy, for a set of workspaces
Destroy(s, W) ==
    [s EXCEPT !.owner   = [w \in Ws |-> IF w \in W THEN NoMon ELSE @[w]],
              !.idx     = [w \in Ws |-> IF w \in W THEN 0 ELSE @[w]],
              !.row     = [w \in Ws |-> IF w \in W THEN <<>> ELSE @[w]],
              !.focused = [w \in Ws |-> IF w \in W THEN NoClient ELSE @[w]],
              !.col     = [c \in Client |-> IF @[c] \in W THEN NoWs ELSE @[c]],
              !.fs_ws   = [c \in Client |-> IF /\ @[c] \in W
                                               /\ c \in Mapped(s)
                                            THEN NoWs ELSE @[c]],
              !.active  = [m \in Mon |-> IF @[m] \in W \cap Own(s, m) THEN NoWs
                                         ELSE @[m]],
              !.prev    = [m \in Mon |-> IF @[m] \in W \cap Own(s, m) THEN NoWs
                                         ELSE @[m]]]

\* Mutants: the focus stays with a column that goes away; the last column of
\* the row takes the free place.
DetachKeepsFocus(s, c) ==
    LET w == s.col[c]
    IN  IF w = NoWs THEN s
        ELSE [s EXCEPT !.col[c] = NoWs, !.row[w] = RemoveAt(@, Pos(@, c))]
DetachSwaps(s, c) ==
    LET w == s.col[c]
        r == s.row[w]
        left == Front([r EXCEPT ![Pos(r, c)] = Last(r)])
    IN  IF w = NoWs THEN s
        ELSE [s EXCEPT !.col[c] = NoWs, !.row[w] = left,
                       !.focused[w] = IF left = <<>> THEN NoClient ELSE Head(left)]

\* workspace_detach_client: an emptied column destroys itself, and if it was
\* the focused one its left neighbour takes over, else its right one.
Detach(s, c) ==
    LET w == s.col[c]
        r == s.row[w]
        i == Pos(r, c)
        heir == IF i > 1 THEN r[i - 1]
                ELSE IF Len(r) > 1 THEN r[2] ELSE NoClient
    IN  IF w = NoWs THEN s
        ELSE [s EXCEPT !.col[c] = NoWs, !.row[w] = RemoveAt(r, i),
                       !.focused[w] = IF @ = c THEN heir ELSE @]

\* Insert c as a new column at place i of row w, and focus that column.
Insert(s, w, i, c) ==
    [s EXCEPT !.col[c] = w, !.row[w] = InsertAt(@, i, c), !.focused[w] = c]

\* workspace_attach_client: right of the focused column.
InsertRight(s, w, c) ==
    LET f == s.focused[w]
    IN  Insert(s, w, (IF f = NoClient THEN Len(s.row[w]) ELSE Pos(s.row[w], f)) + 1, c)
Attach(s, w, c) == IF s.col[c] = w THEN s ELSE InsertRight(Detach(s, c), w, c)

\* Mutants: any workspace above an occupied one is taken for a gap; the workspace in
\* view is never given up.
GapsOccupied(s, m) == {w \in Own(s, m) :
                 \E v \in Own(s, m) : Occupied(s, v) /\ s.idx[v] > s.idx[w]}
SpareUnseen(s, m) == {w \in Own(s, m) \ {s.active[m]} :
                 /\ ~ Occupied(s, w)
                 /\ \E v \in Own(s, m) : ~ Occupied(s, v) /\ s.idx[v] < s.idx[w]}

\* monitor_compact_workspaces, in closed form: the empty workspaces below an
\* occupied one and all but the first of the trailing empty ones are
\* destroyed; closing a gap shifts what follows it up by one.
Gaps(s, m) == {w \in Own(s, m) :
                 /\ ~ Occupied(s, w)
                 /\ \E v \in Own(s, m) : Occupied(s, v) /\ s.idx[v] > s.idx[w]}
Spare(s, m) == {w \in Own(s, m) \ Gaps(s, m) :
                 /\ ~ Occupied(s, w)
                 /\ \E v \in Own(s, m) : ~ Occupied(s, v) /\ v \notin Gaps(s, m)
                                         /\ s.idx[v] < s.idx[w]}
Without(s, m, gaps, dead) ==
    LET kept == Own(s, m) \ dead
        a == s.active[m]
        heirs == IF a \in gaps THEN {w \in kept : s.idx[w] > s.idx[a]}
                 ELSE {w \in kept : ~ Occupied(s, w)}
        d == Destroy(s, dead)
        shift(w) == Cardinality({g \in gaps : s.idx[g] < s.idx[w]})
        left == s.next[m] - Cardinality(dead)
    IN  [d EXCEPT !.active[m] = IF a \in dead THEN Lowest(s, heirs) ELSE a,
                  !.idx = [w \in Ws |-> IF w \in kept THEN s.idx[w] - shift(w)
                                        ELSE @[w]],
                  !.next[m] = IF left > 0 THEN left ELSE 0]
Compact(s, m) == Without(s, m, Gaps(s, m), Gaps(s, m) \cup Spare(s, m))

\* workspace_switch
Switch(s, m, w) ==
    IF w \in {NoWs, s.active[m]} THEN s
    ELSE [s EXCEPT !.prev[m] = s.active[m], !.active[m] = w]

-----------------------------------------------------------------------------
(* Keyboard focus. *)

\* Mutant: focusing a window also shows its workspace.
RaiseShows(s, c) ==
    [s EXCEPT !.fstack = <<c>> \o RemoveAt(@, Pos(@, c)),
              !.selmon = s.mon[c],
              !.active[s.mon[c]] = IF s.col[c] = NoWs THEN @ ELSE s.col[c],
              !.focused = IF s.col[c] = NoWs THEN @ ELSE [@ EXCEPT ![s.col[c]] = c]]

\* The part of focusclient before the nested arrange.
Raise(s, c) ==
    [s EXCEPT !.fstack = <<c>> \o RemoveAt(@, Pos(@, c)),
              !.selmon = s.mon[c],
              !.focused = IF s.col[c] = NoWs THEN @ ELSE [@ EXCEPT ![s.col[c]] = c]]

\* arrange: the visible fullscreen window of the selected monitor takes the
\* keyboard.
TakeKeyboard(s, f) ==
    IF f \in {NoClient, s.kb} THEN s ELSE [Raise(s, f) EXCEPT !.kb = f]
Arrange(s, m) ==
    IF m # NoMon /\ s.lit[m] /\ m = s.selmon
    THEN TakeKeyboard(s, FullscreenOn(s, m)) ELSE s

\* focusclient: a window that has the keyboard already is not raised; one in
\* another column than the focused one has its monitor arranged on the way.
Focus(s, c) ==
    LET turned == s.col[c] # NoWs /\ s.focused[s.col[c]] # c
    IN  IF c = NoClient THEN [s EXCEPT !.kb = NoClient]
        ELSE IF s.mon[c] = NoMon \/ s.kb = c THEN s
        ELSE [Arrange(Raise(s, c), IF turned THEN s.mon[c] ELSE NoMon) EXCEPT !.kb = c]

FocusMostRecent(s) == Focus(s, FocusTop(s, s.selmon))

\* Mutant: an empty workspace leaves the keyboard where it was.
FocusFirstOnly(s, m) ==
    LET w == s.active[m]
        c == IF s.focused[w] # NoClient THEN s.focused[w] ELSE Head(s.row[w])
    IN  IF s.row[w] = <<>> THEN s ELSE Focus([s EXCEPT !.focused[w] = c], c)

\* focus_first_in_workspace for the active workspace of m
FocusFirst(s, m) ==
    LET w == s.active[m]
        f == FullscreenOn(s, m)
        tile == IF s.focused[w] # NoClient THEN s.focused[w] ELSE Head(s.row[w])
        tiled == s.row[w] # <<>> /\ (f = NoClient \/ s.fs_ws[f] # w)
    IN  Focus(IF tiled THEN [s EXCEPT !.focused[w] = tile] ELSE s,
              IF tiled THEN tile ELSE IF f # NoClient /\ s.fs_ws[f] = w THEN f
              ELSE NoClient)

-----------------------------------------------------------------------------
(* Changing what a window is and where it lives. *)

\* setfloating
SetFloating(s, c, on) ==
    LET m == s.mon[c]
        t == [s EXCEPT !.float[c] = on]
        joins == s.float[c] /\ ~ on /\ ~ s.full[c] /\ s.active[m] # NoWs
    IN  IF m = NoMon \/ c \notin Mapped(s) THEN t
        ELSE Arrange(IF ~ s.float[c] /\ on THEN Detach(t, c)
                     ELSE IF joins THEN Attach(t, s.active[m], c) ELSE t, m)

\* setfullscreen: entering binds the window to the active workspace and takes
\* it out of its column, leaving puts it back on the workspace it was
\* fullscreen on.
Bind(s, c, on) ==
    LET m == s.mon[c]
        back == s.fs_ws[c]
        t == [s EXCEPT !.full[c] = on,
                       !.fs_ws[c] = IF on /\ m # NoMon THEN s.active[m] ELSE NoWs]
        returns == /\ s.full[c] /\ ~ on /\ ~ s.float[c]
                   /\ m # NoMon /\ s.active[m] # NoWs
    IN  IF ~ s.full[c] /\ on THEN Detach(t, c)
        ELSE IF returns
        THEN Attach(t, IF back # NoWs /\ s.owner[back] = m THEN back
                       ELSE s.active[m], c)
        ELSE t
FocusIf(yes, s, c) == IF yes THEN Focus(s, c) ELSE s
SetFullscreen(s, c, on) ==
    LET there == s.mon[c] # NoMon /\ c \in Mapped(s)
    IN  FocusIf(there /\ on,
                Arrange(Bind(s, c, on), IF there THEN s.mon[c] ELSE NoMon), c)

\* setmon: off the old monitor, on to the active workspace of the new one, and
\* fullscreen and floating once more.
Leave(s, c, m) == Arrange(Detach([s EXCEPT !.mon[c] = m], c), s.mon[c])
Adopt(s, c) ==
    IF ~ s.float[c] /\ ~ s.full[c] /\ s.active[s.mon[c]] # NoWs
    THEN Attach(s, s.active[s.mon[c]], c) ELSE s
Again(s, c) == SetFloating(SetFullscreen(s, c, s.full[c]), c, s.float[c])
Settle(s, c) == IF s.mon[c] = NoMon THEN s ELSE Again(Adopt(s, c), c)
SetMon(s, c, m) ==
    IF s.mon[c] = m THEN s ELSE FocusMostRecent(Settle(Leave(s, c, m), c))

-----------------------------------------------------------------------------
(* Windows coming and going. *)

\* commitnotify, first commit of a surface: rules are tried out on monitor m
\* (applyrules, which may float the window), then taken back.
InitialCommit(c, m, float) ==
    /\ c \notin Mapped(desk) /\ desk.mon[c] = NoMon
    /\ desk' = SetMon(SetMon([desk EXCEPT !.float[c] = float], c, m), c, NoMon)

List(s, c) == [s EXCEPT !.clients = <<c>> \o @, !.fstack = <<c>> \o @]

\* Mutant: windows fullscreen on hidden workspaces leave fullscreen as well.
MakesWayUnseen(s, c, w) ==
    /\ w # c /\ w # Parent[c] /\ s.full[w]
    /\ s.mon[w] = s.mon[c] /\ App[w] # App[c]

\* Whether w leaves fullscreen for the new window c: it is visible on the
\* monitor of c and belongs to another app.
MakesWay(s, c, w) ==
    /\ w # c /\ w # Parent[c] /\ s.full[w]
    /\ s.mon[w] = s.mon[c] /\ App[w] # App[c]
    /\ s.fs_ws[w] \in {NoWs, s.active[s.mon[w]]}
UnsetOne(s, c, w) == IF MakesWay(s, c, w) THEN SetFullscreen(s, w, FALSE) ELSE s

\* The unset_fullscreen loop of mapnotify over the list of windows: the desk
\* after each of its rounds, and after the last.
UnsetRounds(s, c) ==
    LET after[i \in 0..Len(s.clients)] ==
          IF i = 0 THEN s ELSE UnsetOne(after[i - 1], c, s.clients[i])
    IN  after
UnsetFullscreen(s, c) == UnsetRounds(s, c)[Len(s.clients)]

\* mapnotify before its own game paths: a transient goes to its parent's
\* monitor, anything else where applyrules puts it.
Placed(s, c, m, float) ==
    LET p == Parent[c]
        target == IF p = NoClient THEN m
                  ELSE IF s.mon[p] # NoMon THEN s.mon[p] ELSE s.selmon
    IN  SetMon([List(s, c) EXCEPT !.float[c] = float], c, target)

\* mapnotify of an ordinary window, once placed; tray says that it is small and
\* answers a click on a tray icon, which floats it on the spot.
Open(s, c, tray) ==
    /\ c \in Game => s.float[c] \/ tray \/ s.full[c] \/ s.mon[c] = NoMon
    /\ desk' = IF s.mon[c] = NoMon THEN s
               ELSE UnsetFullscreen([s EXCEPT !.float[c] = @ \/ tray], c)
MapWindow(c, m, float, tray) ==
    c \notin Mapped(desk) /\ Open(Placed(desk, c, m, float), c, tray)

\* mapnotify of a window recognised as a game before it is placed, on the
\* selected monitor or the one of its launcher's window: a main window maps
\* fullscreen, a splash floats.
GameAtMap(s, c, m) == /\ c \in Game /\ Parent[c] = NoClient
                      /\ ~ s.float[c] /\ ~ s.full[c]
                      /\ m = s.selmon \/ \E p \in Mapped(s) : s.mon[p] = m
MapGame(c, m) ==
    /\ c \notin Mapped(desk) /\ GameAtMap(desk, c, m)
    /\ desk' = UnsetFullscreen(
                 Focus(SetMon([List(desk, c) EXCEPT !.full[c] = TRUE], c, m), c), c)
MapSplash(c, m) ==
    /\ c \notin Mapped(desk) /\ GameAtMap(desk, c, m)
    /\ desk' = Focus(SetMon([List(desk, c) EXCEPT !.float[c] = TRUE], c, m), c)

\* mapnotify of a game that was placed as an ordinary tile first: the child of
\* another window, one that rules floated before, or a Wine program without any
\* other sign of a game, whose size was found too large for a splash on the
\* selected monitor.
OpenLate(s, c, small) ==
    /\ s.mon[c] # NoMon
    /\ desk' = Focus(IF small THEN [s EXCEPT !.float[c] = TRUE]
                     ELSE SetFullscreen(s, c, TRUE), c)
MapLateGame(c, m, small) ==
    /\ c \in Game /\ c \notin Mapped(desk) /\ ~ desk.full[c]
    /\ small => Parent[c] # NoClient \/ desk.float[c] \/ m # desk.selmon
    /\ OpenLate(Placed(desk, c, m, FALSE), c, small)

\* unmapnotify
Unlist(s, c) == [s EXCEPT !.fs_ws[c] = NoWs, !.clients = RemoveAt(@, Pos(@, c)),
                          !.fstack = RemoveAt(@, Pos(@, c))]
FocusHere(s, m) ==
    LET next == s.focused[s.active[m]]
    IN  Focus(s, IF next # NoClient THEN next ELSE FocusTop(s, s.selmon))
Unmap(c) ==
    LET m == desk.mon[c]
        u == SetMon(Unlist(Detach(desk, c), c), c, NoMon)
    IN  /\ c \in Mapped(desk)
        /\ desk' = IF m = NoMon THEN u ELSE Arrange(FocusHere(Compact(u, m), m), m)

\* The client object is freed and its memory serves a new window.
Forget(c) ==
    /\ c \notin Mapped(desk)
    /\ desk.full[c] \/ desk.float[c]
    /\ desk' = [desk EXCEPT !.full[c] = FALSE, !.float[c] = FALSE]

\* fullscreennotify: a fullscreen game is left alone (only the user takes it
\* out); rules and splash sizes may refuse, which changes nothing.
FullscreenNotify(c, want) ==
    /\ ~ (c \in Game /\ desk.full[c])
    /\ desk' = SetFullscreen(desk, c, want)

\* urgent (xdg-activation)
Activatable(s, c) == /\ c \in Mapped(s) /\ c # FocusTop(s, s.selmon)
                     /\ s.mon[c] # NoMon /\ s.col[c] # NoWs
Activate(c) ==
    LET m == desk.mon[c]
        s == Switch(desk, m, desk.col[c])
    IN  /\ Activatable(desk, c)
        /\ desk' = Focus([s EXCEPT !.selmon = m], c)

\* motionnotify and pointerfocus, or a button press: the pointer is over
\* window c of monitor m, or over none.  It cannot leave a fullscreen game.
PointerTo(m, c) ==
    LET old == FullscreenOn(desk, desk.selmon)
        f == FullscreenOn(desk, m)
        s == [desk EXCEPT !.selmon = m]
        target == IF c = NoClient THEN f ELSE c
    IN  /\ desk.lit[m]
        /\ old \in Game => m = desk.selmon
        /\ c # NoClient => Shown(desk, c) /\ desk.mon[c] = m
        /\ desk' = IF target = NoClient THEN s ELSE Focus(s, target)

-----------------------------------------------------------------------------
(* Key bindings.  They all act on the selected monitor. *)

Goto(s, m, w) == FocusFirst(Arrange(Switch(s, m, w), m), m)

\* focus_workspace_dir: no step from one empty workspace into another, and a
\* new one only below an occupied one.
FocusWorkspaceDir(d) ==
    LET m == desk.selmon
        cur == desk.active[m]
        to == Beside(desk, cur, d)
        blocked == /\ d = 1 /\ ~ Occupied(desk, cur)
                   /\ to = NoWs \/ ~ Occupied(desk, to)
        new == to = NoWs /\ d = 1 /\ ~ blocked
    IN  /\ m # NoMon
        /\ \E w \in IF new THEN Fresh(desk) ELSE {IF blocked THEN NoWs ELSE to} :
             desk' = Goto(IF new THEN Create(desk, m, w) ELSE desk, m, w)

\* focus_workspace_n, which lands at most one past the last occupied one
Numbered(s, m, n) == {w \in Own(s, m) : s.idx[w] = n}
LastOccupied(s, m) ==
    Max({-1} \cup {s.idx[w] : w \in {v \in Own(s, m) : Occupied(s, v)}})
FocusWorkspaceN(n) ==
    LET m == desk.selmon
        k == Min({n, LastOccupied(desk, m) + 1})
        there == Numbered(desk, m, k)
    IN  /\ m # NoMon
        /\ there = {} => Cardinality(Own(desk, m)) <= k
        /\ \E w \in IF there = {} THEN Fresh(desk) ELSE there :
             desk' = Goto(IF there = {} THEN Create(desk, m, w) ELSE desk, m, w)

\* focus_last_workspace
FocusLastWorkspace ==
    /\ desk.selmon # NoMon /\ desk.prev[desk.selmon] # NoWs
    /\ desk' = Goto(desk, desk.selmon, desk.prev[desk.selmon])

\* move_client_to_ws_n and move_client_to_ws_dir: the view follows the window,
\* then the workspace list is compacted.
Movable(s, c) == c # NoClient /\ ~ s.float[c] /\ ~ s.full[c]
Follow(s, m, c, w) ==
    Focus(Arrange(Compact(Switch(Attach(Detach(s, c), w, c), m, w), m), m), c)
MoveClientToWsN(n) ==
    LET m == desk.selmon
        c == FocusTop(desk, m)
        there == Numbered(desk, m, n)
    IN  /\ m # NoMon /\ Movable(desk, c)
        /\ there = {} => Cardinality(Own(desk, m)) <= n
        /\ \E w \in IF there = {} THEN Fresh(desk) ELSE there \ {desk.active[m]} :
             desk' = Follow(IF there = {} THEN Create(desk, m, w) ELSE desk, m, c, w)
MoveClientToWsDir(d) ==
    LET m == desk.selmon
        c == FocusTop(desk, m)
        to == Beside(desk, desk.active[m], d)
    IN  /\ m # NoMon /\ Movable(desk, c)
        /\ to = NoWs => d = 1
        /\ \E w \in IF to = NoWs THEN Fresh(desk) ELSE {to} :
             desk' = Follow(IF to = NoWs THEN Create(desk, m, w) ELSE desk, m, c, w)

\* focus_column_dir: along the row, then on to the facing edge of the row
\* shown on the next monitor.
FocusColumnDir(L, d) ==
    LET m == desk.selmon
        w == desk.active[m]
        r == desk.row[w]
        i == IF desk.focused[w] = NoClient THEN 1 ELSE Pos(r, desk.focused[w]) + d
        n == NextTo(L, m, d)
        far == desk.row[desk.active[n]]
        edge == IF d = 1 THEN Head(far) ELSE Last(far)
        turn(s, v, c) == [s EXCEPT !.focused[v] = c]
        over == [desk EXCEPT !.selmon = n]
    IN  /\ m # NoMon
        /\ \/ /\ i \in DOMAIN r
              /\ desk' = Focus(Arrange(turn(desk, w, r[i]), m), r[i])
           \/ /\ i \notin DOMAIN r /\ n # NoMon /\ desk.lit[n]
              /\ desk' = IF far = <<>> THEN Focus(over, NoClient)
                         ELSE Focus(Arrange(turn(over, desk.active[n], edge), n), edge)

\* The list link of the column of c, moved to the near end of row w in the
\* direction it came by: c->column->ws stays what it is.
Relink(s, c, w, d) ==
    LET u == [s EXCEPT !.row[s.col[c]] = RemoveAt(@, Pos(@, c))]
    IN  [u EXCEPT !.row[w] = InsertAt(@, IF d = 1 THEN 1 ELSE Len(@) + 1, c),
                  !.focused[w] = c]

\* move_column_dir: swap with the neighbour, or hop to the near edge of the
\* row shown on the next monitor.  setmon hangs the column there, unless the
\* window was that monitor's already.
MoveColumnDir(L, d) ==
    LET m == desk.selmon
        w == desk.active[m]
        r == desk.row[w]
        c == desk.focused[w]
        i == Pos(r, c)
        n == NextTo(L, m, d)
        sent == SetMon(desk, c, n)
        put == IF sent.col[c] = NoWs THEN sent ELSE Relink(sent, c, desk.active[n], d)
        over == [put EXCEPT !.selmon = n]
    IN  /\ m # NoMon /\ c # NoClient
        /\ \/ /\ i + d \in DOMAIN r
              /\ desk' = Arrange([desk EXCEPT !.row[w][i] = r[i + d],
                                              !.row[w][i + d] = c], m)
           \/ /\ i + d \notin DOMAIN r /\ n # NoMon /\ desk.lit[n]
              /\ desk' = Focus(Arrange(Arrange(over, m), n), c)

\* focusmon goes on until it finds a lit monitor, if the layout has one;
\* warptomonitor takes no second step.
FocusMon(L, d) ==
    LET lit == {m \in L : desk.lit[m]}
    IN  /\ desk.selmon # NoMon
        /\ \E n \in IF desk.selmon \notin L THEN {desk.selmon}
                    ELSE IF lit = {} THEN L ELSE {Around(lit, desk.selmon, d)} :
             desk' = FocusMostRecent([desk EXCEPT !.selmon = n])

\* tagmon, tagtomonitornum
TagMon(L, d) ==
    LET c == FocusTop(desk, desk.selmon)
    IN  c # NoClient /\ desk' = SetMon(desk, c, DirToMon(L, desk.selmon, d))

\* togglefloating
ToggleFloating ==
    LET c == FocusTop(desk, desk.selmon)
    IN  /\ c # NoClient /\ ~ desk.full[c]
        /\ desk' = SetFloating(desk, c, ~ desk.float[c])

\* togglefullscreen
ToggleFullscreen ==
    LET c == FocusTop(desk, desk.selmon)
    IN  c # NoClient /\ desk' = SetFullscreen(desk, c, ~ desk.full[c])

\* focusstack: the next window of the monitor in mapping order
FocusStack(d) ==
    LET c == FocusTop(desk, desk.selmon)
        q == desk.clients
        at(k) == q[((Pos(q, c) - 1 + k * d) % Len(q)) + 1]
        turns == {k \in 1..Len(q) : desk.mon[at(k)] = desk.selmon}
    IN  /\ c # NoClient
        /\ desk.full[c] => \E x \in Mapped(desk) : Parent[x] = c
        /\ desk' = Focus(desk, at(Min(turns)))

-----------------------------------------------------------------------------
\* monitor_init_workspaces on every monitor; no window yet
Init ==
    \E first \in {f \in [Mon -> Ws] : \A m, n \in Mon : f[m] = f[n] => m = n} :
      desk = [owner |-> [w \in Ws |-> IF \E m \in Mon : first[m] = w
                                      THEN CHOOSE m \in Mon : first[m] = w
                                      ELSE NoMon],
              idx |-> [w \in Ws |-> 0], next |-> [m \in Mon |-> 1],
              active |-> first, prev |-> [m \in Mon |-> NoWs],
              lit |-> [m \in Mon |-> TRUE],
              row |-> [w \in Ws |-> <<>>], focused |-> [w \in Ws |-> NoClient],
              col |-> [c \in Client |-> NoWs], fs_ws |-> [c \in Client |-> NoWs],
              mon |-> [c \in Client |-> NoMon],
              full |-> [c \in Client |-> FALSE], float |-> [c \in Client |-> FALSE],
              clients |-> <<>>, fstack |-> <<>>, kb |-> NoClient, selmon |-> 1]

\* Rules and launches pick any monitor of the list, lit or not, else the
\* selected one.
Alive(c) ==
    \/ \E m \in Present(desk) \cup {desk.selmon}, float \in BOOLEAN :
         \/ InitialCommit(c, m, float)
         \/ \E tray \in BOOLEAN : MapWindow(c, m, float, tray)
         \/ MapLateGame(c, m, float)
    \/ \E m \in Present(desk) : MapGame(c, m) \/ MapSplash(c, m)
    \/ Forget(c) \/ Activate(c)
    \/ \E want \in BOOLEAN : FullscreenNotify(c, want)
Window(c) == Alive(c) \/ Unmap(c)

Navigate ==
    \/ \E d \in Dir : FocusWorkspaceDir(d)
    \/ \E n \in 0..MaxJump : FocusWorkspaceN(n)
    \/ FocusLastWorkspace

Rearrange(L) ==
    \/ \E n \in 0..MaxJump : MoveClientToWsN(n)
    \/ \E d \in Dir : MoveClientToWsDir(d) \/ MoveColumnDir(L, d)
    \/ ToggleFloating \/ ToggleFullscreen

Refocus(L) ==
    \/ \E d \in Dir : FocusColumnDir(L, d) \/ FocusMon(L, d) \/ FocusStack(d)
    \/ \E m \in Mon, c \in Client \cup {NoClient} : PointerTo(m, c)

\* All but the end of a window; every monitor is lit and in the layout.
Undisturbed ==
    \/ \E c \in Client : Alive(c)
    \/ Navigate \/ Rearrange(Mon) \/ Refocus(Mon)
    \/ \E d \in Dir : TagMon(Mon, d)

Next == Undisturbed \/ \E c \in Client : Unmap(c)

Spec == Init /\ [][Next]_vars

-----------------------------------------------------------------------------
(* Properties. *)

\* No pointer to a workspace outlives it: what a monitor shows, what Mod+Tab
\* would return to, where a column hangs and what a fullscreen window is bound
\* to are workspaces of the right monitor that have not been freed.
NoDangling ==
    /\ \A m \in Mon : /\ desk.active[m] \in Own(desk, m)
                      /\ desk.prev[m] \in Own(desk, m) \cup {NoWs}
    /\ \A c \in Client :
         /\ desk.col[c] # NoWs => desk.col[c] \in Own(desk, desk.mon[c])
         /\ c \in Mapped(desk) /\ desk.fs_ws[c] # NoWs =>
              desk.fs_ws[c] \in Own(desk, desk.mon[c])

\* A row lists exactly the windows that point to it, each once, and the
\* focused column of a row that has columns is one of them.
RowsAgree ==
    \A w \in Ws :
      /\ ToSet(desk.row[w]) = {c \in Client : desk.col[c] = w}
      /\ IsInjective(desk.row[w])
      /\ desk.focused[w] \in (IF desk.row[w] = <<>> THEN {NoClient}
                              ELSE ToSet(desk.row[w]))

\* Every mapped window can be reached: a tile has a column on its own monitor,
\* a fullscreen window is bound to a workspace and has no column.
EveryWindowPlaced ==
    \A c \in Mapped(desk) :
      /\ desk.mon[c] # NoMon
      /\ desk.full[c] => desk.col[c] = NoWs /\ desk.fs_ws[c] # NoWs
      /\ ~ desk.full[c] => desk.fs_ws[c] = NoWs
      /\ ~ desk.full[c] /\ ~ desk.float[c] => desk.col[c] # NoWs

\* The workspaces of a monitor are numbered 0, 1, 2, ... without a hole, so
\* the number keys reach them all, and next_ws_id is the number of the next.
NumberedInOrder ==
    \A m \in Mon :
      /\ {desk.idx[w] : w \in Own(desk, m)} = 0..(desk.next[m] - 1)
      /\ Cardinality(Own(desk, m)) = desk.next[m]

\* The windows that are on another workspace after a handler.  A floating one
\* that leaves fullscreen is only released from the workspace it was bound to.
Released(s, t, c) == s.float[c] /\ s.full[c] /\ ~ t.full[c]
Strays(s, t) == {c \in Mapped(s) \cap Mapped(t) :
                   Home(s, c) # Home(t, c) /\ ~ Released(s, t, c)}

\* A window only leaves its workspace by its own move: whatever a handler
\* does, at most one of the windows that stay mapped changes workspace.
OthersStay == [][Cardinality(Strays(desk, desk')) <= 1]_vars

\* Two tiles of C that stay in a row change places in it.
Before(s, c, d) == Pos(s.row[s.col[c]], c) < Pos(s.row[s.col[c]], d)
Swapped(C) ==
    \E c, d \in C :
       /\ desk.col[c] # NoWs /\ desk.col[c] = desk.col[d]
       /\ desk'.col[c] = desk.col[c] /\ desk'.col[d] = desk.col[d]
       /\ Before(desk, c, d) # Before(desk', c, d)
MoveKey ==
    \/ \E d \in Dir : MoveColumnDir(Mon, d) \/ MoveClientToWsDir(d)
    \/ \E n \in 0..MaxJump : MoveClientToWsN(n)

\* The view of a monitor changes only when the user navigates or moves a
\* window, a window asks to be activated, or the workspace shown was freed.
ViewIsTheUsers ==
    [][\A m \in Mon :
         \/ desk'.active[m] = desk.active[m]
         \/ desk.active[m] \notin Own(desk', m)
         \/ Navigate \/ \E c \in Client : Activate(c)
         \/ \E n \in 0..MaxJump : MoveClientToWsN(n)
         \/ \E d \in Dir : MoveClientToWsDir(d)]_vars

\* A monitor's list without holes: no empty workspace below an occupied one
\* and one empty workspace at most.
Tidy(s, m) ==
    \A v, w \in Own(s, m) : v # w /\ ~ Occupied(s, v) =>
        Occupied(s, w) /\ s.idx[w] < s.idx[v]

\* Closing a window leaves the list of its monitor tidy, however it looked
\* before.
CloseTidies ==
    [][\A c \in Mapped(desk) \ Mapped(desk') : Tidy(desk', desk.mon[c])]_vars

\* A workspace key never leaves the keyboard with a window of a workspace that
\* is not shown.
NavigationFocusesVisible ==
    [][Navigate /\ desk'.kb # NoClient =>
         Home(desk', desk'.kb) \in {NoWs, desk'.active[desk'.mon[desk'.kb]]}]_vars

\* A fullscreen window is left alone: it leaves fullscreen when the user says
\* so, at its own request unless it is a game, or when a window of another
\* program opens over it, never while its workspace is hidden.
FullscreenKept ==
    [][\A c \in Mapped(desk) \cap Mapped(desk') : desk.full[c] /\ ~ desk'.full[c] =>
         \/ ToggleFullscreen
         \/ c \notin Game /\ FullscreenNotify(c, FALSE)
         \/ /\ Home(desk, c) \in {NoWs, desk.active[desk.mon[c]]}
            /\ \E x \in Mapped(desk') \ Mapped(desk) : App[x] # App[c]]_vars

-----------------------------------------------------------------------------
(* The promise of Placement is kept: forgetting order and focus, every       *)
(* handler is one of its steps.                                              *)
Abstract == INSTANCE Placement WITH
    owner <- desk.owner, active <- desk.active, prev <- desk.prev,
    mapped <- Mapped(desk), mon <- desk.mon, col <- desk.col,
    full <- desk.full, float <- desk.float,
    fs_ws <- [c \in Client |-> IF c \in Mapped(desk) THEN desk.fs_ws[c] ELSE NoWs]

ImplementsPlacement == Abstract!Spec

=============================================================================
