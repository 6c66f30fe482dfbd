------------------------------- MODULE MCDrag -------------------------------
(* Tiles and a pointer that drags them. *)
EXTENDS Drag, MCWorkspaces

\* Besides the tiles' own steps the window that is held may be floated or tiled by the
\* user.  One window floats at a time: a drag that was given up leaves one behind.  While one is
\* resized, which on one monitor moves nothing, there are two at most.
DragTiles ==
    /\ \/ Pointer
       \/ \E c \in Client : Close(c)
       \/ grab.mode # "none" /\ ToggleFloating /\ UNCHANGED grab
       \/ TileNext /\ UNCHANGED grab /\ Mapped(desk) \subseteq Mapped(desk')
    /\ Cardinality({c \in Client : desk'.float[c]}) <= 1
    /\ grab'.mode = "resize" => Len(desk'.clients) <= 2
DragTileSpec == DragInit /\ [][DragTiles]_dragvars
=============================================================================
