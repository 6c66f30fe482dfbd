------------------------------ MODULE Hotplug ------------------------------
(***************************************************************************)
(* Monitors that are unplugged, disabled by an output configuration, put   *)
(* to sleep or given a new mode while windows are open.  Each of these     *)
(* ends in updatemons, which moves the windows of a disabled monitor away  *)
(* (closemon) and hands every window back to the monitor whose name it     *)
(* remembers (c->output) as soon as that monitor is lit.                   *)
(***************************************************************************)
EXTENDS Workspaces

VARIABLES
    output,     \* c->output of a mapped window
    asleep,     \* m->asleep: switched off by power management, not disabled
    laid,       \* the monitors in the output layout
    mons        \* the list of monitors; one that is gone keeps an idle place

hvars == <<desk, output, asleep, laid, mons>>

Lit(s) == {m \in Present(s) : s.lit[m]}

\* The windows of monitor m, or those without one, go to the selected monitor
\* one after the other, in the order of the list: the desk after each of the
\* rounds of the loop, and after the last.
MoveOne(s, m, c) == IF s.mon[c] = m THEN SetMon(s, c, s.selmon) ELSE s
MoveRounds(s, m) ==
    LET after[i \in 0..Len(s.clients)] ==
          IF i = 0 THEN s ELSE MoveOne(after[i - 1], m, s.clients[i])
    IN  after
MoveAll(s, m) == FocusMostRecent(MoveRounds(s, m)[Len(s.clients)])

\* Mutant: the first monitor of the list is selected, lit or not.
FirstPresent(s, q, P) ==
    LET i == SelectInSeq(q, LAMBDA n : n \in P) IN IF i = 0 THEN NoMon ELSE q[i]

\* The first lit one of the monitors P, in the order of the list q.
FirstLit(s, q, P) ==
    LET i == SelectInSeq(q, LAMBDA n : n \in P /\ s.lit[n])
    IN  IF i = 0 THEN NoMon ELSE q[i]

\* closemon: the windows of m go to the first lit monitor of the list if m was
\* the selected one, else to the selected one.
CloseMon(s, m, q, P) ==
    MoveAll(IF m = s.selmon THEN [s EXCEPT !.selmon = FirstLit(s, q, P)] ELSE s, m)

\* Mutant: only windows without a monitor are handed back.
RestoreLost(s, out, P) ==
    [s EXCEPT !.mon = [c \in Client |->
        IF c \in Mapped(s) /\ @[c] = NoMon /\ out[c] \in P /\ s.lit[out[c]]
        THEN out[c] ELSE @[c]]]

\* The loop of updatemons that restores c->mon from c->output: nothing else of
\* the window is touched.
Restore(s, out, P) ==
    [s EXCEPT !.mon = [c \in Client |->
        IF c \in Mapped(s) /\ out[c] \in P /\ s.lit[out[c]] THEN out[c] ELSE @[c]]]

\* updatemons over the list q of the monitors P, of which those in S are
\* asleep: first every disabled one is emptied,
CloseOne(s, m, q, P, S) ==
    IF m \notin P \/ s.lit[m] \/ m \in S THEN s ELSE CloseMon(s, m, q, P)
CloseRounds(s, q, P, S) ==
    LET after[i \in 0..NMon] ==
          IF i = 0 THEN s ELSE CloseOne(after[i - 1], q[i], q, P, S)
    IN  after
CloseDark(s, q, P, S) == CloseRounds(s, q, P, S)[NMon]
\* then, windows restored, every lit one is arranged and one of them selected,
Select(s, m) == IF s.lit[m] /\ s.selmon = NoMon THEN [s EXCEPT !.selmon = m] ELSE s
ArrangeOne(s, m, P) == IF m \notin P THEN s ELSE Select(Arrange(s, m), m)
ArrangeRounds(s, q, P) ==
    LET after[i \in 0..NMon] ==
          IF i = 0 THEN s ELSE ArrangeOne(after[i - 1], q[i], P)
    IN  after
ArrangeLit(s, q, P) == ArrangeRounds(s, q, P)[NMon]
\* and last the windows that have no monitor go to the selected one.
AdoptLost(s) == IF s.selmon # NoMon /\ s.lit[s.selmon] THEN MoveAll(s, NoMon) ELSE s
UpdateMons(s, out, q, P, S) ==
    AdoptLost(ArrangeLit(Restore(CloseDark(s, q, P, S), out, P), q, P))

-----------------------------------------------------------------------------

\* No freed workspace is referred to, whatever monitors come and go: not as
\* the workspace in view, not by Mod+Tab, not by a column, not by a mapped
\* fullscreen window.
NothingFreed ==
    LET live == Ws \ Fresh(desk) IN
    /\ \A m \in Present(desk) : {desk.active[m], desk.prev[m]} \subseteq live \cup {NoWs}
    /\ \A c \in Client : /\ desk.col[c] \in live \cup {NoWs}
                         /\ c \in Mapped(desk) => desk.fs_ws[c] \in live \cup {NoWs}

\* The monitors were found in any order.
Listings == {q \in [Mon -> Mon] : \A m \in Mon : \E i \in Mon : q[i] = m}
HInit == /\ Init /\ output = [c \in Client |-> NoMon]
         /\ asleep = {} /\ laid = Mon /\ mons \in Listings

\* mapnotify and tagmon record the name of the window's monitor; a move of its
\* column to the next monitor and the end of a drag do not.  A window that
\* finds no monitor when it maps keeps what it recorded when it last mapped.
Recorded(c) == [output EXCEPT ![c] = desk'.mon[c]]
TagStep ==
    LET c == FocusTop(desk, desk.selmon)
    IN  /\ \E d \in Dir : TagMon(laid, d)
        /\ output' = Recorded(c)
        /\ UNCHANGED <<asleep, laid, mons>>
OpenStep(c) ==
    /\ c \notin Mapped(desk)
    /\ Window(c)
    /\ \/ c \in Mapped(desk') /\ output' = Recorded(c)
       \/ /\ c \notin Mapped(desk') \/ desk'.mon[c] = NoMon
          /\ UNCHANGED output
    /\ UNCHANGED <<asleep, laid, mons>>
DeskStep ==
    \/ TagStep
    \/ \E c \in Client : OpenStep(c)
    \/ /\ \/ \E c \in Mapped(desk) : Window(c)
          \/ Navigate \/ Rearrange(laid) \/ Refocus(laid)
       /\ UNCHANGED <<output, asleep, laid, mons>>

\* outputmgrapplyortest: a configuration names every output and wakes them
\* all; those in on are lit afterwards.  If one of the first heads it looks at
\* is given another place, updatemons runs before the others are looked at.
\* To try out a configuration, or to have it refused, is the same with nothing
\* lit, darkened or placed.
Configure(on, first) ==
    LET P == Present(desk)
        heads(s, H) == [s EXCEPT !.lit = [m \in Mon |-> IF m \in H THEN m \in on ELSE @[m]]]
        half == IF first = {} THEN desk
                ELSE UpdateMons(heads(desk, first), output, mons, P, asleep \ first)
    IN  /\ first = {} \/ first \cap on # {}
        /\ asleep' = asleep \ P
        /\ desk' = UpdateMons(heads(half, P), output, mons, P, asleep')
        /\ UNCHANGED <<output, mons>>

\* The layout of outputs changes: a mode set by gamescan, autolock or a video,
\* or the last head of a configuration placed anew.
Relayout ==
    /\ desk' = UpdateMons(desk, output, mons, Present(desk), asleep)
    /\ UNCHANGED <<output, asleep, mons>>

\* powermgrsetmode: the monitor counts as asleep or awake whether or not the
\* output accepts the commit.
Power(m, on, accepted) ==
    /\ m \in Present(desk)
    /\ asleep' = IF on THEN asleep \ {m} ELSE asleep \cup {m}
    /\ desk' = UpdateMons([desk EXCEPT !.lit[m] = IF accepted THEN on ELSE @],
                          output, mons, Present(desk), asleep')
    /\ UNCHANGED <<output, mons>>

\* monitor_cleanup_workspaces; the monitor itself is freed as well.
FreeAll(s, m) ==
    [Destroy(s, Own(s, m)) EXCEPT !.active[m] = NoWs, !.prev[m] = NoWs,
                                  !.next[m] = 0, !.lit[m] = FALSE]

\* Mutant: the windows are not moved away.
UnplugAlone(m) ==
    LET P == Present(desk) \ {m}
    IN  /\ m \in Present(desk)
        /\ desk' = UpdateMons(FreeAll(desk, m), output, mons, P, asleep)
        /\ asleep' = asleep \ {m}
        /\ UNCHANGED <<output, mons>>

\* cleanupmon: m leaves the list and the layout, which runs updatemons, then
\* its windows move away and its workspaces are freed.
Unplug(m) ==
    LET P == Present(desk) \ {m}
        left == UpdateMons(desk, output, mons, P, asleep)
    IN  /\ m \in Present(desk)
        /\ desk' = UpdateMons(FreeAll(CloseMon(left, m, mons, P), m),
                              output, mons, P, asleep)
        /\ asleep' = asleep \ {m}
        /\ UNCHANGED <<output, mons>>

\* createmon: one new workspace, and the windows that remember this output.
\* The monitor comes first in the list.
ToFront(q, m) ==
    [i \in Mon |-> LET k == CHOOSE j \in Mon : q[j] = m
                   IN  IF i = 1 THEN m ELSE IF i <= k THEN q[i - 1] ELSE q[i]]
Plug(m, w) ==
    LET s == [Create(desk, m, w) EXCEPT !.active[m] = w, !.lit[m] = TRUE]
    IN  /\ m \notin Present(desk) /\ w \in Fresh(desk)
        /\ mons' = ToFront(mons, m)
        /\ desk' = UpdateMons(s, output, mons', Present(s), asleep)
        /\ UNCHANGED <<output, asleep>>

\* Every one of them ends in updatemons, which takes the disabled monitors out
\* of the layout and adds the lit ones; a sleeping one stays where it was.
OutputStep ==
    /\ \/ \E on, first \in SUBSET Present(desk) :
            first # Present(desk) /\ Configure(on, first)
       \/ Relayout
       \/ \E m \in Mon : \/ \E on, accepted \in BOOLEAN : Power(m, on, accepted)
                         \/ Unplug(m)
                         \/ \E w \in Ws : Plug(m, w)
    /\ laid' = {m \in Present(desk') : desk'.lit[m] \/ m \in laid \cap asleep'}

\* What the program does once it has used freed memory, or once a column hangs in
\* the list of one workspace and points to another, is undefined: nothing is said
\* of it.
Defined == NothingFreed /\ RowsAgree

HSpec == HInit /\ [][Defined /\ (DeskStep \/ OutputStep)]_hvars

-----------------------------------------------------------------------------
(* Properties. *)

\* No window is left behind on a monitor that is gone.
OnPresentMonitor ==
    \A c \in Mapped(desk) : desk.mon[c] \in Present(desk) \cup {NoMon}

\* A monitor that is disabled or unplugged takes no window with it, be there
\* another one that is lit or not (closemon).
NobodyInTheDark ==
    [][\A m \in Lit(desk) \ (Lit(desk') \cup asleep') :
         \A c \in Mapped(desk') : desk'.mon[c] # m]_hvars

\* A monitor that is lit again has all the windows that remember it.
WindowsComeHome ==
    [][\A m \in Lit(desk') \ Lit(desk) : \A c \in Mapped(desk') :
         output[c] = m => desk'.mon[c] = m]_hvars

\* A column hops to the monitor beside, which has its window already: updatemons
\* had given the window back to it and left the column behind.
HopHome(d) ==
    LET c == desk.focused[desk.active[desk.selmon]]
    IN  MoveColumnDir(laid, d) /\ desk.mon[c] = NextTo(laid, desk.selmon, d)

\* Rows and windows go on agreeing, whatever is plugged, darkened and moved, up
\* to such a hop: no other step leaves a column in the list of one workspace
\* while it points to another, or a stale focused column.
RowsBreakOnlyByHop == [][RowsAgree' \/ \E d \in Dir : HopHome(d)]_hvars

\* What the comment in move_column_dir says of the window it sends: setmon
\* "detaches from old column [...] and attaches to dst_ws as a fresh column".
HopAttaches ==
    [][\A d \in Dir : MoveColumnDir(laid, d) =>
         LET c == desk.focused[desk.active[desk.selmon]]
         IN  \A w \in Ws : c \in ToSet(desk'.row[w]) => desk'.col[c] = w]_hvars
=============================================================================
