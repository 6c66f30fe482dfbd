----------------------------- MODULE MCHotplug -----------------------------
(* Instances of Hotplug for TLC. *)
EXTENDS Hotplug

OwnApps == [c \in Client |-> c]
NoParents == [c \in Client |-> NoClient]
\* The desk steps that put a window where updatemons has to find it again.
OutputNext ==
    \/ /\ \E c \in Client \ Mapped(desk), m \in Present(desk) \cup {desk.selmon} :
            /\ MapWindow(c, m, FALSE, FALSE)
            /\ \/ output' = Recorded(c)
               \/ desk'.mon[c] = NoMon /\ UNCHANGED output
       /\ UNCHANGED <<asleep, laid, mons>>
    \/ /\ \/ \E c \in Client : Unmap(c) \/ Activate(c)
          \/ \E d \in Dir : \/ FocusWorkspaceDir(d) \/ MoveColumnDir(laid, d)
                            \/ FocusMon(laid, d)
          \/ ToggleFullscreen
       /\ UNCHANGED <<output, asleep, laid, mons>>
    \/ TagStep
    \/ OutputStep
OutputSpec == HInit /\ [][Defined /\ OutputNext]_hvars

Symmetric == Permutations(Client) \cup Permutations(Ws)
=============================================================================
