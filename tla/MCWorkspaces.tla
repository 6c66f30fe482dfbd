---------------------------- MODULE MCWorkspaces ----------------------------
(* Instances of Workspaces for TLC. *)
EXTENDS Workspaces

\* Every window a program of its own, or all of them one program; one of them a
\* dialog of another.
OwnApps == [c \in Client |-> c]
OneApp == [c \in Client |-> "app"]
NoParents == [c \in Client |-> NoClient]
CONSTANTS win, dialog
Dialog == [c \in Client |-> IF c = dialog THEN win ELSE NoClient]

\* Where windows differ in nothing, they and the workspaces can be swapped.
Symmetric == Permutations(Client) \cup Permutations(Ws)
WsSymmetric == Permutations(Ws)

\* The part of the system that involves tiles only: enough windows to have
\* gaps between occupied workspaces and neighbours on both sides.
TileNext ==
    \/ \E c \in Client : \/ \E m \in Mon : \/ InitialCommit(c, m, FALSE)
                                           \/ MapWindow(c, m, FALSE, FALSE)
                         \/ Unmap(c) \/ Activate(c)
    \/ Navigate
    \/ \E n \in 0..MaxJump : MoveClientToWsN(n)
    \/ \E d \in Dir : \/ MoveClientToWsDir(d) \/ MoveColumnDir(Mon, d)
                     \/ FocusColumnDir(Mon, d)
    \/ \E m \in Mon, c \in Client : PointerTo(m, c)
TileSpec == Init /\ [][TileNext]_vars
=============================================================================
