------------------------------ MODULE Placement ------------------------------
(***************************************************************************)
(* What the workspace manager promises about where windows are, without    *)
(* the order of columns, the numbering of workspaces, or focus: which      *)
(* monitor owns a workspace, which workspace a monitor shows and showed    *)
(* before, and for every window its monitor, its column's workspace (col)  *)
(* or the workspace it is fullscreen on (fs_ws).  Handlers of the code     *)
(* that only move focus are stuttering steps here; the window a key acts   *)
(* on is any window of the monitor.  Workspaces implements this module.    *)
(***************************************************************************)

CONSTANTS Client, Ws, Mon, NoWs, NoMon

\* The null values are none of the real ones.
NullsApart == NoWs \notin Ws /\ NoMon \notin Mon

VARIABLES
    owner,      \* ws->mon, NoMon when the workspace does not exist
    active,     \* m->active_ws
    prev,       \* m->prev_ws
    mapped,     \* the windows in the clients list
    mon,        \* c->mon
    col,        \* c->column->ws
    fs_ws,      \* c->fs_ws
    full,       \* c->isfullscreen
    float       \* c->isfloating

lists == <<owner, active, prev>>
windows == <<mapped, mon, col, fs_ws, full, float>>
vars == <<lists, windows>>

Own(m) == {w \in Ws : owner[w] = m}
Fresh == Own(NoMon)

\* A workspace is occupied by a column or by a window fullscreen on it.
Uses(c, w) == col[c] = w \/ fs_ws[c] = w

-----------------------------------------------------------------------------

Init ==
    /\ \E first \in [Mon -> Ws] :
         /\ \A m, n \in Mon : first[m] = first[n] => m = n
         /\ active = first
         /\ owner \in [Ws -> Mon \cup {NoMon}]
         /\ \A w \in Ws, m \in Mon : owner[w] = m <=> first[m] = w
    /\ prev = [m \in Mon |-> NoWs]
    /\ mapped = {}
    /\ mon = [c \in Client |-> NoMon]
    /\ col = [c \in Client |-> NoWs] /\ fs_ws = [c \in Client |-> NoWs]
    /\ full = [c \in Client |-> FALSE] /\ float = [c \in Client |-> FALSE]

\* Rules and requests before a window is mapped, and the reuse of its memory,
\* only set its flags.
Prepare(c) ==
    /\ c \notin mapped
    /\ \E f, g \in BOOLEAN : /\ full' = [full EXCEPT ![c] = f]
                             /\ float' = [float EXCEPT ![c] = g]
    /\ UNCHANGED <<lists, mapped, mon, col, fs_ws>>

\* A new window lands on the workspace m shows; a small one may be floated
\* after it got a column.  Fullscreen windows X seen on that workspace go back
\* into its row.
Open(c, m, X) ==
    /\ c \notin mapped
    /\ X \subseteq {x \in mapped : full[x] /\ mon[x] = m /\ fs_ws[x] = active[m]}
    /\ mapped' = mapped \cup {c}
    /\ mon' = [mon EXCEPT ![c] = m]
    /\ \E f, g, tile \in BOOLEAN :
         /\ f => ~ tile
         /\ ~ f /\ ~ g => tile
         /\ full' = [x \in Client |-> IF x = c THEN f ELSE full[x] /\ x \notin X]
         /\ float' = [float EXCEPT ![c] = g]
         /\ col' = [x \in Client |->
                      IF x = c THEN IF tile THEN active[m] ELSE NoWs
                      ELSE IF x \in X /\ ~ float[x] THEN active[m] ELSE col[x]]
         /\ fs_ws' = [x \in Client |->
                        IF x = c THEN IF f THEN active[m] ELSE NoWs
                        ELSE IF x \in X THEN NoWs ELSE fs_ws[x]]
    /\ UNCHANGED lists

\* What compaction may do to the list of m, given the users of workspaces
\* after the window itself has moved: free unused workspaces, never all of
\* them, and forget them; a monitor that showed one shows another.
Compacted(m, own, shown, last) ==
    \E D \in SUBSET {w \in own : \A c \in mapped' : ~ Uses(c, w)'} :
      /\ own \ D # {}
      /\ owner' = [w \in Ws |-> IF w \in D THEN NoMon
                                ELSE IF w \in own THEN m ELSE owner[w]]
      /\ \E a \in own \ D : /\ shown \notin D => a = shown
                            /\ active' = [active EXCEPT ![m] = a]
      /\ prev' = [prev EXCEPT ![m] = IF last \in D THEN NoWs ELSE last]

Close(c) ==
    /\ c \in mapped
    /\ mapped' = mapped \ {c}
    /\ mon' = [mon EXCEPT ![c] = NoMon]
    /\ col' = [col EXCEPT ![c] = NoWs]
    /\ fs_ws' = [fs_ws EXCEPT ![c] = NoWs]
    /\ UNCHANGED <<full, float>>
    /\ Compacted(mon[c], Own(mon[c]), active[mon[c]], prev[mon[c]])

\* Entering fullscreen, or asking for it again, binds the window to the
\* workspace shown.
EnterFullscreen(c) ==
    /\ c \in mapped
    /\ full' = [full EXCEPT ![c] = TRUE]
    /\ col' = [col EXCEPT ![c] = NoWs]
    /\ fs_ws' = [fs_ws EXCEPT ![c] = active[mon[c]]]
    /\ UNCHANGED <<lists, mapped, mon, float>>

\* Leaving it returns a tile to the workspace it was fullscreen on.
LeaveFullscreen(c) ==
    /\ c \in mapped /\ full[c]
    /\ full' = [full EXCEPT ![c] = FALSE]
    /\ col' = [col EXCEPT ![c] = IF float[c] THEN NoWs ELSE fs_ws[c]]
    /\ fs_ws' = [fs_ws EXCEPT ![c] = NoWs]
    /\ UNCHANGED <<lists, mapped, mon, float>>

ToggleFloating(c) ==
    /\ c \in mapped /\ ~ full[c]
    /\ float' = [float EXCEPT ![c] = ~ @]
    /\ col' = [col EXCEPT ![c] = IF float[c] THEN active[mon[c]] ELSE NoWs]
    /\ UNCHANGED <<lists, mapped, mon, fs_ws, full>>

\* A tile sent to workspace w of its monitor, which may be a new one, takes
\* the view along.
Send(c, w) ==
    LET m == mon[c]
        own == Own(m) \cup {w}
    IN  /\ c \in mapped /\ ~ full[c] /\ ~ float[c]
        /\ w \in Own(m) \cup Fresh
        /\ col' = [col EXCEPT ![c] = w]
        /\ UNCHANGED <<mapped, mon, fs_ws, full, float>>
        /\ Compacted(m, own, w, IF w = active[m] THEN prev[m] ELSE active[m])

\* A window sent to another monitor joins the workspace that one shows.
SendToMon(c, m) ==
    /\ c \in mapped /\ m # mon[c]
    /\ mon' = [mon EXCEPT ![c] = m]
    /\ col' = [col EXCEPT ![c] = IF full[c] \/ float[c] THEN NoWs ELSE active[m]]
    /\ fs_ws' = [fs_ws EXCEPT ![c] = IF full[c] THEN active[m] ELSE NoWs]
    /\ UNCHANGED <<lists, mapped, full, float>>

\* The user looks at another workspace of m, which may be a new one.
Visit(m, w) ==
    /\ w \in Own(m) \cup Fresh /\ w # active[m]
    /\ owner' = [owner EXCEPT ![w] = m]
    /\ prev' = [prev EXCEPT ![m] = active[m]]
    /\ active' = [active EXCEPT ![m] = w]
    /\ UNCHANGED windows

Next ==
    \/ \E c \in Client :
         \/ Prepare(c) \/ Close(c)
         \/ \E m \in Mon, X \in SUBSET mapped : Open(c, m, X)
         \/ EnterFullscreen(c) \/ LeaveFullscreen(c) \/ ToggleFloating(c)
         \/ \E w \in Ws : Send(c, w)
         \/ \E m \in Mon : SendToMon(c, m)
    \/ \E m \in Mon, w \in Ws : Visit(m, w)

Spec == Init /\ [][Next]_vars

-----------------------------------------------------------------------------

TypeOK ==
    /\ owner \in [Ws -> Mon \cup {NoMon}]
    /\ active \in [Mon -> Ws]
    /\ prev \in [Mon -> Ws \cup {NoWs}]
    /\ mapped \subseteq Client
    /\ mon \in [Client -> Mon \cup {NoMon}]
    /\ col \in [Client -> Ws \cup {NoWs}]
    /\ fs_ws \in [Client -> Ws \cup {NoWs}]
    /\ full \in [Client -> BOOLEAN]
    /\ float \in [Client -> BOOLEAN]

\* A monitor shows and remembers its own workspaces.
ListsLive ==
    \A m \in Mon : /\ active[m] \in Own(m)
                   /\ prev[m] # NoWs => prev[m] \in Own(m)

\* A window is in the row of, or fullscreen on, a live workspace of its own
\* monitor; a tile has a row, a fullscreen window a workspace and no row.
WindowLive(c) ==
    /\ col[c] # NoWs => c \in mapped /\ owner[col[c]] = mon[c]
    /\ fs_ws[c] # NoWs => c \in mapped /\ full[c] /\ owner[fs_ws[c]] = mon[c]
    /\ c \in mapped =>
         /\ mon[c] \in Mon
         /\ full[c] => fs_ws[c] # NoWs /\ col[c] = NoWs
         /\ ~ full[c] /\ ~ float[c] => col[c] # NoWs
WindowsLive == \A c \in Client : WindowLive(c)

\* No pointer to a workspace outlives the workspace.
NoDangling == ListsLive /\ WindowsLive

\* A workspace is only freed once no window lives on it.
OccupiedKept ==
    [][\A w \in Ws : owner[w] # NoMon /\ owner'[w] # owner[w] =>
         \A c \in mapped' : ~ Uses(c, w)']_vars
=============================================================================
