-------------------------------- MODULE Drag --------------------------------
(***************************************************************************)
(* The pointer takes hold of a window.  A tile that is moved floats while   *)
(* the button is down and is dropped into a row when it is released; a       *)
(* window that is resized, or floated before, only changes its monitor.  In   *)
(* between every handler of Workspaces may run: the window can be closed,     *)
(* made fullscreen, sent away or tiled again under the pointer.               *)
(***************************************************************************)
EXTENDS Workspaces

VARIABLE grab   \* cursor_mode, grabc and grabc->was_tiled

dragvars == <<desk, grab>>

NoGrab == [mode |-> "none", win |-> NoClient, tiled |-> FALSE]

DragInit == Init /\ grab = NoGrab

\* A binding of a button press (moveresize).  A press while another button is down
\* gives the first grab up; the window is then one that floats.  A tile is resized in
\* its row, at an edge with a neighbour.
Press(c, mode) ==
    LET s == Focus([desk EXCEPT !.selmon = desk.mon[c]], c)
        tiled == ~ s.float[c]
    IN  /\ Shown(desk, c) /\ ~ desk.full[c] /\ desk.lit[desk.mon[c]]
        /\ desk' = IF tiled /\ mode = "resize" THEN s ELSE SetFloating(s, c, TRUE)
        /\ grab' = [mode |-> mode, win |-> c, tiled |-> tiled]

\* A press that no binding takes, or a release while the session is locked: the grab is
\* forgotten and nothing is dropped.
PressOther(m, c) == grab.mode # "none" /\ PointerTo(m, c) /\ grab' = NoGrab
ReleaseLocked == grab.mode # "none" /\ grab' = NoGrab /\ UNCHANGED desk

\* workspace_drop_tile: a new column at place i.
DropTile(s, w, i, c) == Insert(Detach(s, c), w, i, c)

\* The button is released over monitor m (buttonpress).
Release(m, i) ==
    LET c == grab.win
        s == SetMon([desk EXCEPT !.selmon = m], c, m)
        w == desk.active[m]
        drops == grab.mode = "move" /\ grab.tiled /\ w # NoWs
        places == Len(Detach(s, c).row[w]) + 1
    IN  /\ grab.mode # "none" /\ desk.lit[m]
        /\ i \in 1..(IF drops THEN places ELSE 1)
        /\ desk' = IF drops
                   THEN Arrange(DropTile([s EXCEPT !.float[c] = FALSE], w, i, c), m)
                   ELSE s
        /\ grab' = NoGrab

\* Mutant: only a window that is being moved is let go.
UngrabMoved(c) == grab' = IF grab.win = c /\ grab.mode = "move" THEN NoGrab ELSE grab

\* unmapnotify lets go of the window that closes.
Ungrab(c) == grab' = IF grab.win = c THEN NoGrab ELSE grab

Close(c) == Unmap(c) /\ Ungrab(c)

Pointer ==
    \/ \E c \in Client, mode \in {"move", "resize"} : Press(c, mode)
    \/ \E m \in Mon, c \in Client \cup {NoClient} : PressOther(m, c)
    \/ \E m \in Mon, i \in 1..(Cardinality(Client) + 1) : Release(m, i)
    \/ ReleaseLocked

DragNext ==
    \/ Pointer
    \/ \E c \in Client : Close(c)
    \/ Undisturbed /\ UNCHANGED grab

DragSpec == DragInit /\ [][DragNext]_dragvars

\* Whatever happens to a window while it is held, the pointer never holds one that is
\* gone (grabc, which a release would put into a row).
GrabMapped == grab.win \in Mapped(desk) \cup {NoClient}

\* Tiles keep their left-to-right order: two that are in the same row before and after a
\* step keep their order in it, but for a key that moves them or a drop of one of
\* them - not when others are closed, sent away, taken out or dropped between them.
RowOrderKept ==
    [][Swapped(Client \ (IF grab' = NoGrab THEN {grab.win} ELSE {})) => MoveKey]_dragvars
=============================================================================
