---------------------------- MODULE Hotplug_proofs ----------------------------
(***************************************************************************)
(* Theorems about Hotplug: monitors come, go and darken under the windows.  *)
(* The records of the desk that stay consistent then are fewer than with a  *)
(* fixed set of monitors: a workspace may be shown by the wrong monitor, a  *)
(* window may have none, and a column that hops to the monitor its window   *)
(* is on already leaves the rows in disorder.  Housed says what is left,    *)
(* Homed is Housed with the rows in order, and every operator of Workspaces *)
(* and of Hotplug but that hop is shown to keep Homed.                      *)
(***************************************************************************)
EXTENDS Hotplug, Desk_proofs

-----------------------------------------------------------------------------
(* The inductive invariant. *)

\* A window is on a monitor of the list or on none; one that is not mapped has
\* neither a monitor nor a column.
LodgedAt(s, c) == /\ s.mon[c] \in Present(s) \cup {NoMon}
                  /\ c \notin Mapped(s) => s.mon[c] = NoMon /\ s.col[c] = NoWs

\* Rows, lists and numbers agree, and nothing refers to a monitor that is gone:
\* no window, no selection, no light.
Homed(s) == /\ Base(s) /\ Counted(s)
            /\ \A c \in Client : LodgedAt(s, c)
            /\ s.selmon \in Present(s) \cup {NoMon}
            /\ \A m \in Mon : s.lit[m] => m \in Present(s)

\* The same, whether or not rows and columns agree.
Housed(s) == /\ s \in Desk /\ Orders(s) /\ Counted(s)
             /\ \A c \in Client : LodgedAt(s, c)
             /\ s.selmon \in Present(s) \cup {NoMon}
             /\ \A m \in Mon : s.lit[m] => m \in Present(s)

\* The rows are the whole difference,
LEMMA HomedHoused ==
    ASSUME NEW s
    PROVE  Homed(s) <=> Housed(s) /\ Rows(s)
BY DEF Homed, Housed, Base

\* and RowsAgree says that they are in order.
LEMMA RowsMean ==
    ASSUME NEW s \in Desk
    PROVE  Rows(s) <=> \A w \in Ws :
             /\ ToSet(s.row[w]) = {c \in Client : s.col[c] = w}
             /\ IsInjective(s.row[w])
             /\ s.focused[w] \in (IF s.row[w] = <<>> THEN {NoClient} ELSE ToSet(s.row[w]))
<1>1. ASSUME NEW w \in Ws
      PROVE  RowOK(s, w) <=>
             /\ ToSet(s.row[w]) = {c \in Client : s.col[c] = w}
             /\ IsInjective(s.row[w])
             /\ s.focused[w] \in (IF s.row[w] = <<>> THEN {NoClient} ELSE ToSet(s.row[w]))
  <2>1. s.row[w] \in Seq(Client)
    BY DeskTyped
  <2>2. Lists(s.row[w], InRow(s, w)) <=>
          /\ ToSet(s.row[w]) = {c \in Client : s.col[c] = w}
          /\ IsInjective(s.row[w])
    BY <2>1 DEF Lists, InRow
  <2>3. Lists(s.row[w], InRow(s, w)) => (s.row[w] = <<>> <=> InRow(s, w) = {})
    BY EmptyLists
  <2> QED
    BY <2>2, <2>3 DEF RowOK, InRow
<1> QED
  BY <1>1 DEF Rows

\* From s to t the monitors, their workspaces and the list of windows stayed.
Rehomed(s, t) == Homed(t) /\ SameLists(s, t) /\ t.clients = s.clients

\* So did the monitors of the list.
LEMMA PresentSame ==
    ASSUME NEW s, NEW t, SameLists(s, t)
    PROVE  Present(t) = Present(s)
BY DEF SameLists, Present

\* One step after another.
LEMMA RehomedTwice ==
    ASSUME NEW s, NEW t, NEW u, Rehomed(s, t), Rehomed(t, u)
    PROVE  Rehomed(s, u)
BY DEF Rehomed, SameLists

\* And none.
LEMMA RehomedNot ==
    ASSUME NEW s, Homed(s)
    PROVE  Rehomed(s, s)
BY DEF Rehomed, SameLists

\* The monitors of the list are monitors, and "none" is not one of them.
LEMMA PresentMon ==
    ASSUME NEW s
    PROVE  Present(s) \in SUBSET Mon /\ NoMon \notin Present(s) /\ NoMon \notin Mon
BY DEF Present, Mon, NoMon

\* What they show is a workspace, and its columns are mapped windows.
LEMMA SeenOf ==
    ASSUME NEW s, Homed(s), NEW m \in Present(s)
    PROVE  RowSeen(s, m) /\ m \in Mon /\ m # NoMon
<1>1. m \in Mon /\ m # NoMon /\ s.active[m] # NoWs
  BY DEF Present, Mon, NoMon
<1>2. s.active[m] \in Ws
  BY <1>1, DeskTyped DEF Homed, Base
<1>3. ASSUME NEW c \in Client, s.col[c] = s.active[m] PROVE c \in Mapped(s)
  BY <1>1, <1>3 DEF Homed, LodgedAt
<1> QED
  BY <1>1, <1>2, <1>3 DEF RowSeen

\* Every window in its place, and the selected monitor one of the list.
LEMMA HomedBy ==
    ASSUME NEW s, Homed(s), NEW t, Base(t), SameLists(s, t), t.clients = s.clients,
           t.selmon \in Present(s) \cup {NoMon},
           \A c \in Client : t.mon[c] \in Present(s) \cup {NoMon},
           \A c \in Client : c \notin Mapped(s) => t.mon[c] = NoMon /\ t.col[c] = NoWs
    PROVE  Rehomed(s, t)
<1>1. Present(t) = Present(s) /\ Mapped(t) = Mapped(s) /\ t.lit = s.lit
  BY PresentSame DEF Mapped, SameLists
<1>2. Counted(t)
  BY CountedSame DEF Homed
<1> QED
  BY <1>1, <1>2 DEF Rehomed, Homed, LodgedAt

\* Focus and the order of rows tell nothing of monitors, but for the selected one.
LEMMA HomedShuffled ==
    ASSUME NEW s, Homed(s), NEW t, Shuffled(s, t), t.selmon \in Present(s) \cup {NoMon}
    PROVE  Rehomed(s, t)
<1>1. Base(t) /\ SameLists(s, t) /\ t.clients = s.clients /\ t.mon = s.mon /\ t.col = s.col
  BY DEF Shuffled, SameWindows, SameKinds, SamePlaces
<1> QED
  BY <1>1, HomedBy DEF Homed, LodgedAt

\* A change of focus selects a monitor that a window is on.
LEMMA HomedChosen ==
    ASSUME NEW s, Homed(s), NEW t, Quiet(s, t), Chosen(s, t)
    PROVE  Rehomed(s, t)
<1>1. t.selmon \in Present(s) \cup {NoMon}
  BY MappedOf DEF Chosen, Homed, LodgedAt
<1> QED
  BY <1>1, HomedShuffled DEF Quiet

\* A step that touches one window.
LEMMA HomedTouched ==
    ASSUME NEW s, Homed(s), NEW t, NEW c \in Client, Touches(s, t, c),
           t.selmon \in Present(s) \cup {NoMon}, t.mon[c] \in Present(s) \cup {NoMon},
           c \notin Mapped(s) => t.mon[c] = NoMon /\ t.col[c] = NoWs
    PROVE  Rehomed(s, t)
<1>1. Base(t) /\ SameLists(s, t) /\ t.clients = s.clients
  BY DEF Touches
<1>2. \A x \in Client \ {c} : t.mon[x] = s.mon[x] /\ t.col[x] = s.col[x]
  BY DEF Touches, Alike
<1>3. \A x \in Client : t.mon[x] \in Present(s) \cup {NoMon}
  BY <1>2 DEF Homed, LodgedAt
<1>4. \A x \in Client : x \notin Mapped(s) => t.mon[x] = NoMon /\ t.col[x] = NoWs
  BY <1>2 DEF Homed, LodgedAt
<1> QED
  BY <1>1, <1>3, <1>4, HomedBy

-----------------------------------------------------------------------------
(* The operators of Workspaces. *)

\* arrange
LEMMA HomedArrange ==
    ASSUME NEW s, Homed(s), NEW m \in Mon \cup {NoMon}
    PROVE  Rehomed(s, Arrange(s, m)) /\ Arrange(s, m).selmon = s.selmon
           /\ Arrange(s, m).mon = s.mon
<1>1. Quiet(s, Arrange(s, m)) /\ Arrange(s, m).selmon = s.selmon
  BY ArrangeQuiet, ArrangeSel DEF Homed
<1> QED
  BY <1>1, HomedShuffled DEF Homed, Quiet, Shuffled, SameWindows, SamePlaces

\* focusclient
LEMMA HomedFocus ==
    ASSUME NEW s, Homed(s), NEW c \in Mapped(s) \cup {NoClient}
    PROVE  Rehomed(s, Focus(s, c))
<1>1. Quiet(s, Focus(s, c)) /\ Chosen(s, Focus(s, c))
  BY FocusQuiet, FocusSel DEF Homed, Chosen
<1> QED
  BY <1>1, HomedChosen

\* focusclient(focustop(selmon))
LEMMA HomedMostRecent ==
    ASSUME NEW s, Homed(s)
    PROVE  /\ Rehomed(s, FocusMostRecent(s)) /\ FocusMostRecent(s).selmon = s.selmon
           /\ FocusMostRecent(s).mon = s.mon
<1>1. Quiet(s, FocusMostRecent(s)) /\ FocusMostRecent(s).selmon = s.selmon
  BY FocusMostRecentQuiet, FocusMostRecentSel DEF Homed
<1> QED
  BY <1>1, HomedShuffled DEF Homed, Quiet, Shuffled, SameWindows, SamePlaces

\* Another selected monitor, or none: all fields but the selection stay.
LEMMA HomedSelect ==
    ASSUME NEW s, Homed(s), NEW m \in Present(s) \cup {NoMon}
    PROVE  LET t == [s EXCEPT !.selmon = m]
           IN  Rehomed(s, t) /\ t.selmon = m /\ t.mon = s.mon
<1> DEFINE t == [s EXCEPT !.selmon = m]
<1>1. s \in Desk /\ Shaped(s) /\ m \in Mon \cup {NoMon}
  BY DeskShaped, PresentMon DEF Homed, Base
<1>2. Shaped(t)
  BY <1>1 DEF Shaped, Fields
<1>3. /\ SameLists(s, t) /\ t.clients = s.clients /\ t.fstack = s.fstack /\ t.row = s.row
      /\ t.focused = s.focused /\ t.col = s.col /\ t.kb = s.kb /\ t.mon = s.mon
      /\ t.fs_ws = s.fs_ws /\ t.full = s.full /\ t.float = s.float /\ t.selmon = m
  BY <1>1 DEF Desk, SameLists
<1> HIDE DEF t
<1>4. t \in Desk
  BY <1>1, <1>2, <1>3, DeskTyped, ShapedDesk DEF SameLists
<1>5. Base(t)
  BY <1>3, <1>4, BaseKept DEF Homed
<1>6. Rehomed(s, t)
  BY <1>3, <1>5, HomedBy DEF Homed, LodgedAt
<1> QED
  BY <1>3, <1>6 DEF t

\* setmon of a mapped window: it goes to a monitor of the list or to none.
LEMMA HomedSetMon ==
    ASSUME NEW s, Homed(s), NEW c \in Mapped(s), NEW m \in Present(s) \cup {NoMon}
    PROVE  LET t == SetMon(s, c, m) IN
           /\ Rehomed(s, t) /\ t.selmon \in {s.selmon, m} /\ t.mon[c] = m
           /\ \A x \in Client \ {c} : t.mon[x] = s.mon[x]
           /\ m \notin Mon => t.selmon = s.selmon
<1> DEFINE t == SetMon(s, c, m)
<1>1. Base(s) /\ c \in Client /\ m \in Mon \cup {NoMon}
  BY MappedOf, PresentMon DEF Homed
<1>2. t.selmon \in {s.selmon, IF m \in Mon THEN m ELSE s.selmon}
  BY <1>1, SetMonSel
<1>3. CASE s.mon[c] = m
  <2>1. t = s
    BY <1>3 DEF SetMon
  <2> QED
    BY <1>3, <2>1, RehomedNot
<1>4. CASE s.mon[c] # m
  <2>1. Touches(s, t, c) /\ t.mon[c] = m
    BY <1>1, <1>4, SetMonDoes
  <2> HIDE DEF t
  <2>2. Rehomed(s, t)
    BY <1>1, <1>2, <2>1, HomedTouched DEF Homed
  <2>3. \A x \in Client \ {c} : t.mon[x] = s.mon[x]
    BY <2>1 DEF Touches, Alike
  <2> QED
    BY <1>2, <2>1, <2>2, <2>3 DEF t
<1> QED
  BY <1>3, <1>4

\* setfullscreen
LEMMA HomedSetFullscreen ==
    ASSUME NEW s, Homed(s), NEW c \in Client, NEW on \in BOOLEAN
    PROVE  Rehomed(s, SetFullscreen(s, c, on))
<1> DEFINE t == SetFullscreen(s, c, on)
<1>1. Base(s) /\ LodgedAt(s, c)
  BY DEF Homed
<1>2. Touches(s, t, c) /\ t.col[c] = FullCol(s, c, on) /\ t.mon[c] = s.mon[c]
  BY <1>1, SetFullscreenDoes
<1>3. t.selmon \in {s.selmon, s.mon[c]}
  BY <1>1, SetFullscreenSel
<1> HIDE DEF t
<1>4. c \notin Mapped(s) => t.mon[c] = NoMon /\ t.col[c] = NoWs
  BY <1>1, <1>2 DEF FullCol, LodgedAt
<1>5. Rehomed(s, t)
  BY <1>1, <1>2, <1>3, <1>4, HomedTouched DEF Homed, LodgedAt
<1> QED
  BY <1>5 DEF t

\* setfloating of a mapped window
LEMMA HomedSetFloating ==
    ASSUME NEW s, Homed(s), NEW c \in Mapped(s), NEW on \in BOOLEAN
    PROVE  Rehomed(s, SetFloating(s, c, on))
<1> DEFINE t == SetFloating(s, c, on)
<1>1. Base(s) /\ c \in Client /\ LodgedAt(s, c)
  BY MappedOf DEF Homed
<1>2. Touches(s, t, c) /\ t.mon[c] = s.mon[c]
  BY <1>1, SetFloatingDoes
<1>3. t.selmon = s.selmon
  BY <1>1, SetFloatingSel
<1> HIDE DEF t
<1>4. Rehomed(s, t)
  BY <1>1, <1>2, <1>3, HomedTouched DEF Homed, LodgedAt
<1> QED
  BY <1>4 DEF t

\* The floating flag alone
LEMMA HomedFloat ==
    ASSUME NEW s, Homed(s), NEW c \in Client, NEW on \in BOOLEAN
    PROVE  LET t == [s EXCEPT !.float[c] = on]
           IN  Rehomed(s, t) /\ t.mon[c] = s.mon[c] /\ t.selmon = s.selmon
<1> DEFINE t == [s EXCEPT !.float[c] = on]
<1>1. Base(s) /\ LodgedAt(s, c) /\ s \in Desk
  BY DEF Homed, Base
<1>2. Touches(s, t, c) /\ t.mon[c] = s.mon[c] /\ t.col[c] = s.col[c]
  BY <1>1, FloatFlag
<1>3. t.selmon = s.selmon
  BY <1>1 DEF Desk
<1> HIDE DEF t
<1>4. Rehomed(s, t)
  BY <1>1, <1>2, <1>3, HomedTouched DEF Homed, LodgedAt
<1> QED
  BY <1>2, <1>3, <1>4 DEF t

\* The fullscreen flag alone
LEMMA HomedFull ==
    ASSUME NEW s, Homed(s), NEW c \in Client, NEW on \in BOOLEAN
    PROVE  Rehomed(s, FullOnly(s, c, on))
<1> DEFINE t == FullOnly(s, c, on)
<1>1. Base(s) /\ LodgedAt(s, c) /\ s \in Desk
  BY DEF Homed, Base
<1>2. Touches(s, t, c) /\ t.mon[c] = s.mon[c] /\ t.col[c] = s.col[c]
  BY <1>1, FullOnlyFlag
<1>3. t.selmon = s.selmon
  BY <1>1 DEF Desk, FullOnly
<1> HIDE DEF t
<1>4. Rehomed(s, t)
  BY <1>1, <1>2, <1>3, HomedTouched DEF Homed, LodgedAt
<1> QED
  BY <1>4 DEF t

\* A window that joins the lists before it has a monitor.
LEMMA HomedList ==
    ASSUME NEW s, Homed(s), NEW c \in Client, c \notin Mapped(s)
    PROVE  LET t == List(s, c)
           IN  /\ Homed(t) /\ SameLists(s, t) /\ c \in Mapped(t)
               /\ t.selmon = s.selmon /\ \A x \in Client : t.mon[x] = s.mon[x]
<1> DEFINE t == List(s, c)
<1>1. /\ Base(t) /\ SameLists(s, t) /\ Mapped(t) = Mapped(s) \cup {c}
      /\ t.selmon = s.selmon /\ \A x \in Client : Alike(s, t, x)
  BY ListDoes DEF Homed
<1> HIDE DEF t
<1>2. Present(t) = Present(s) /\ t.lit = s.lit
  BY <1>1, PresentSame DEF SameLists
<1>3. Counted(t)
  BY <1>1, CountedSame DEF Homed
<1>4. ASSUME NEW x \in Client PROVE LodgedAt(t, x)
  BY <1>1, <1>2 DEF Homed, LodgedAt, Alike
<1>5. Homed(t)
  BY <1>1, <1>2, <1>3, <1>4 DEF Homed
<1> QED
  BY <1>1, <1>5 DEF Alike, t

\* The windows that leave fullscreen for a new one.
LEMMA HomedCleared ==
    ASSUME NEW s, Homed(s), NEW c \in Client
    PROVE  Rehomed(s, UnsetFullscreen(s, c))
<1> DEFINE t == UnsetFullscreen(s, c)
<1>1. Cleared(s, t, c)
  BY UnsetFullscreenDoes DEF Homed
<1> HIDE DEF t
<1>2. ASSUME NEW x \in Client
      PROVE  /\ t.mon[x] = s.mon[x]
             /\ x \notin Mapped(s) => t.col[x] = s.col[x]
  BY <1>1 DEF Cleared, Alike, Lowered
<1>3. Rehomed(s, t)
  BY <1>1, <1>2, HomedBy DEF Homed, LodgedAt, Cleared
<1> QED
  BY <1>3 DEF t

\* From s to t every monitor of the list stayed one of it, lit or not as it was.
Stays(s, t) == Homed(t) /\ Present(t) = Present(s) /\ t.lit = s.lit

\* And so did the list of windows.
Lodged(s, t) == Stays(s, t) /\ t.clients = s.clients

\* They do if windows only change places.
LEMMA RehomedLodged ==
    ASSUME NEW s, NEW t, Rehomed(s, t)
    PROVE  Lodged(s, t)
BY PresentSame DEF Rehomed, Lodged, Stays, SameLists

\* The same without the order of rows.
Keeps(s, t) == Housed(t) /\ Present(t) = Present(s) /\ t.lit = s.lit

\* So the monitors do.
LEMMA RehomedStays ==
    ASSUME NEW s, NEW t, Rehomed(s, t)
    PROVE  Stays(s, t)
BY RehomedLodged DEF Lodged

\* One step after another.
LEMMA StaysBy ==
    ASSUME NEW s, NEW t, NEW u, Stays(s, t), Stays(t, u) \/ Rehomed(t, u)
    PROVE  Stays(s, u)
BY RehomedLodged DEF Stays, Lodged

\* workspace_create, given a block that no column hangs on
LEMMA HomedCreate ==
    ASSUME NEW s, Homed(s), NEW m \in Mon, NEW w \in Fresh(s), \A c \in Client : s.col[c] # w
    PROVE  LET t == Create(s, m, w)
           IN  /\ Lodged(s, t) /\ SameWindows(s, t) /\ t.active = s.active
               /\ t.selmon = s.selmon /\ t.lit = s.lit
<1> DEFINE t == Create(s, m, w)
<1>1. w \in Ws /\ Base(s) /\ Counted(s)
  BY DEF Fresh, Own, Homed
<1>2. Base(t) /\ MadeFields(s, t, m, w)
  BY <1>1, CreateMakes
<1> HIDE DEF t
<1>3. Counted(t)
  BY <1>1, <1>2, CreateCounted
<1>4. /\ SameWindows(s, t) /\ t.active = s.active /\ t.lit = s.lit /\ t.selmon = s.selmon
      /\ t.mon = s.mon /\ t.col = s.col /\ t.clients = s.clients
      /\ Mapped(t) = Mapped(s) /\ Present(t) = Present(s)
  BY <1>2 DEF MadeFields, SameWindows, SamePlaces, SameKinds, Mapped, Present
<1>5. Homed(t)
  BY <1>2, <1>3, <1>4 DEF Homed, LodgedAt
<1> QED
  BY <1>4, <1>5 DEF Lodged, Stays, t

\* workspace_switch
LEMMA HomedSwitch ==
    ASSUME NEW s, Homed(s), NEW m \in Present(s), NEW w \in Ws \cup {NoWs}
    PROVE  Lodged(s, Switch(s, m, w)) /\ SameWindows(s, Switch(s, m, w))
<1> DEFINE t == Switch(s, m, w)
<1>1. Base(s) /\ m \in Mon /\ s \in Desk
  BY PresentMon DEF Homed, Base
<1>2. Base(t) /\ ShownFields(s, t, m, w)
  BY <1>1, SwitchMakes
<1> HIDE DEF t
<1>3. Counted(t)
  <2>1. \A n \in Mon : Own(t, n) = Own(s, n)
    BY <1>2 DEF Own, ShownFields
  <2>2. ASSUME NEW n \in Mon PROVE InOrder(t, n)
    <3>1. InOrder(s, n)
      BY DEF Homed, Counted
    <3> QED
      BY <1>2, <2>1, <3>1 DEF InOrder, ShownFields
  <2> QED
    BY <2>2 DEF Counted
<1>4. Present(t) = Present(s)
  <2>1. s.active \in [Mon -> Ws \cup {NoWs}] /\ s.active[m] # NoWs
    BY <1>1, DeskTyped DEF Present
  <2> QED
    BY <1>2, <2>1 DEF Present, ShownFields
<1>5. /\ SameWindows(s, t) /\ t.lit = s.lit /\ t.selmon = s.selmon /\ t.clients = s.clients
      /\ t.mon = s.mon /\ t.col = s.col /\ Mapped(t) = Mapped(s)
  BY <1>2 DEF ShownFields, SameWindows, SamePlaces, SameKinds, Mapped
<1>6. Homed(t)
  BY <1>2, <1>3, <1>4, <1>5 DEF Homed, LodgedAt
<1> QED
  BY <1>4, <1>5, <1>6 DEF Lodged, Stays, t

\* monitor_compact_workspaces
LEMMA HomedCompact ==
    ASSUME NEW s, Homed(s), NEW m \in Present(s)
    PROVE  Lodged(s, Compact(s, m)) /\ Compact(s, m).mon = s.mon
<1> DEFINE t == Compact(s, m)
           D == Dead(s, m)
           K == Kept(s, m)
<1>1. Base(s) /\ Counted(s) /\ m \in Mon /\ s \in Desk
  BY PresentMon DEF Homed, Base
<1>2. Compacted(s, t, m, D, K)
  BY <1>1, CompactMakes
<1>3. K \in SUBSET Ws
  BY DEF Kept, Own
<1> HIDE DEF t, D, K
<1>4. Present(t) = Present(s)
  <2>1. s.active[m] # NoWs /\ t.active[m] # NoWs
    BY <1>2, <1>3, NullAssumption DEF Present, Compacted
  <2>2. \A p \in Mon : p # m => t.active[p] = s.active[p]
    BY <1>2 DEF Compacted
  <2> QED
    BY <2>1, <2>2 DEF Present
<1>5. /\ t.lit = s.lit /\ t.selmon = s.selmon /\ t.clients = s.clients
      /\ t.mon = s.mon /\ t.col = s.col /\ Mapped(t) = Mapped(s)
  BY <1>2 DEF Compacted, CompactedFields, SameKinds, Mapped
<1>6. Homed(t)
  BY <1>2, <1>4, <1>5 DEF Homed, LodgedAt, Compacted
<1> QED
  BY <1>4, <1>5, <1>6 DEF Lodged, Stays, t

\* A key leads to a workspace, wherever it is.
LEMMA HomedGoto ==
    ASSUME NEW s, Homed(s), NEW m \in Present(s), NEW w \in Ws \cup {NoWs}
    PROVE  Stays(s, Goto(s, m, w))
<1> DEFINE b == Switch(s, m, w)
           u == Arrange(b, m)
<1>1. Lodged(s, b)
  BY HomedSwitch
<1>2. Goto(s, m, w) = FocusFirst(u, m)
  BY DEF Goto
<1> HIDE DEF b
<1>3. Homed(b) /\ m \in Present(b) /\ m \in Mon
  BY <1>1, PresentMon DEF Lodged, Stays
<1>4. Lodged(b, u)
  BY <1>3, HomedArrange, RehomedLodged
<1> HIDE DEF u
<1>5. Homed(u) /\ m \in Present(u)
  BY <1>3, <1>4 DEF Lodged, Stays
<1>6. Quiet(u, FocusFirst(u, m)) /\ Chosen(u, FocusFirst(u, m))
  BY <1>5, SeenOf, FocusFirstQuiet DEF Homed
<1>7. Rehomed(u, FocusFirst(u, m))
  BY <1>5, <1>6, HomedChosen
<1> QED
  BY <1>1, <1>2, <1>4, <1>7, StaysBy DEF Lodged

\* A window moves to another row.
LEMMA HomedMoves ==
    ASSUME NEW s, Homed(s), NEW c \in Mapped(s), NEW w, NEW t, Moves(s, t, c, w)
    PROVE  Rehomed(s, t) /\ t.col[c] = w /\ t.mon = s.mon
<1>1. Base(s) /\ c \in Client
  BY MappedOf DEF Homed
<1>2. Touches(s, t, c) /\ t.col[c] = w /\ t.mon = s.mon /\ t.selmon = s.selmon
  <2>1. Touches(s, t, c) /\ t.col[c] = w
    BY <1>1, MovesTouches
  <2> QED
    BY <2>1 DEF Moves
<1> QED
  BY <1>1, <1>2, HomedTouched DEF Homed, LodgedAt

\* A tile takes the view along, and the list is compacted.
LEMMA HomedFollow ==
    ASSUME NEW s, Homed(s), NEW m \in Present(s), NEW c \in Mapped(s), NEW w \in Ws
    PROVE  Stays(s, Follow(s, m, c, w))
<1> DEFINE d == Detach(s, c)
           b == Attach(d, w, c)
           v == Switch(b, m, w)
           u == Compact(v, m)
           r == Arrange(u, m)
<1>1. c \in Client /\ Base(s)
  BY MappedOf DEF Homed
<1>2. Follow(s, m, c, w) = Focus(r, c)
  BY DEF Follow
<1>3. Lodged(s, d)
  BY <1>1, DetachMoves, HomedMoves, RehomedLodged
<1> HIDE DEF d
<1>4. Homed(d) /\ Base(d) /\ c \in Mapped(d)
  BY <1>3 DEF Lodged, Stays, Mapped, Homed
<1>5. Lodged(d, b)
  BY <1>1, <1>4, AttachMoves, HomedMoves, RehomedLodged
<1> HIDE DEF b
<1>6. Homed(b) /\ m \in Present(b)
  BY <1>3, <1>5 DEF Lodged, Stays
<1>7. Lodged(b, v)
  BY <1>6, HomedSwitch
<1> HIDE DEF v
<1>8. Homed(v) /\ m \in Present(v)
  BY <1>6, <1>7 DEF Lodged, Stays
<1>9. Lodged(v, u)
  BY <1>8, HomedCompact
<1> HIDE DEF u
<1>10. Homed(u) /\ m \in Mon
  BY <1>9, PresentMon DEF Lodged, Stays
<1>11. Lodged(u, r)
  BY <1>10, HomedArrange, RehomedLodged
<1> HIDE DEF r
<1>12. Homed(r) /\ c \in Mapped(r)
  BY <1>4, <1>5, <1>7, <1>9, <1>11 DEF Lodged, Stays, Mapped
<1>13. Stays(s, r)
  BY <1>3, <1>5, <1>7, <1>9, <1>11, StaysBy DEF Lodged
<1> QED
  BY <1>2, <1>12, <1>13, HomedFocus, StaysBy

-----------------------------------------------------------------------------
(* The handlers of Workspaces, with any number of monitors. *)

\* No column hangs on a block the allocator may return.
LEMMA FreshUnused ==
    ASSUME NothingFreed, NEW w \in Fresh(desk)
    PROVE  \A c \in Client : desk.col[c] # w
BY NullAssumption DEF NothingFreed, Fresh, Own

\* The workspace in view has a place in the list of some monitor, and what is
\* beside it is a workspace too.
LEMMA BesideIn ==
    ASSUME Homed(desk), NothingFreed, NEW m \in Present(desk), NEW d
    PROVE  Beside(desk, desk.active[m], d) \in Ws \cup {NoWs}
<1> DEFINE w == desk.active[m]
           p == desk.owner[w]
<1>1. desk \in Desk /\ w \in Ws /\ w \notin Fresh(desk)
  <2>1. w # NoWs /\ w \in (Ws \ Fresh(desk)) \cup {NoWs}
    BY DEF NothingFreed, Present
  <2> QED
    BY <2>1 DEF Homed, Base
<1>2. p \in Mon /\ w \in Own(desk, p)
  BY <1>1, DeskTyped DEF Own, Fresh
<1>3. Beside(desk, w, d) \in Own(desk, p) \cup {NoWs}
  BY <1>2, BesideOf DEF Homed
<1> QED
  BY <1>3 DEF Own

\* The keys that show a workspace, new or not, or lead nowhere.
LEMMA HomedKey ==
    ASSUME Homed(desk), NothingFreed, NEW m \in Present(desk), NEW new \in BOOLEAN, NEW w,
           IF new THEN w \in Fresh(desk) ELSE w \in Ws \cup {NoWs}
    PROVE  Stays(desk, Goto(IF new THEN Create(desk, m, w) ELSE desk, m, w))
<1>1. CASE new
  <2> DEFINE t == Create(desk, m, w)
  <2>1. w \in Ws /\ m \in Mon /\ w \in Fresh(desk)
    BY <1>1, PresentMon DEF Fresh, Own
  <2>2. Lodged(desk, t)
    BY <2>1, FreshUnused, HomedCreate
  <2> HIDE DEF t
  <2>3. Homed(t) /\ m \in Present(t)
    BY <2>2 DEF Lodged, Stays
  <2>4. Stays(desk, Goto(t, m, w))
    BY <2>1, <2>2, <2>3, HomedGoto, StaysBy DEF Lodged
  <2> QED
    BY <1>1, <2>4 DEF t
<1>2. CASE ~ new
  BY <1>2, HomedGoto
<1> QED
  BY <1>1, <1>2

\* focus_workspace_dir, focus_workspace_n and focus_last_workspace
LEMMA NavigateHomed ==
    ASSUME Homed(desk), NothingFreed, Navigate
    PROVE  Stays(desk, desk')
<1> DEFINE m == desk.selmon
<1>1. desk \in Desk /\ (m # NoMon => m \in Present(desk) /\ m \in Mon)
  BY PresentMon DEF Homed, Base
<1>2. ASSUME NEW d \in Dir, FocusWorkspaceDir(d) PROVE Stays(desk, desk')
  <2> DEFINE cur == desk.active[m]
             to == Beside(desk, cur, d)
             blocked == /\ d = 1 /\ ~ Occupied(desk, cur)
                        /\ to = NoWs \/ ~ Occupied(desk, to)
             new == to = NoWs /\ d = 1 /\ ~ blocked
  <2>1. m # NoMon
    BY <1>2 DEF FocusWorkspaceDir
  <2>2. PICK w \in IF new THEN Fresh(desk) ELSE {IF blocked THEN NoWs ELSE to} :
          desk' = Goto(IF new THEN Create(desk, m, w) ELSE desk, m, w)
    BY <1>2 DEF FocusWorkspaceDir
  <2>3. to \in Ws \cup {NoWs}
    BY <1>1, <2>1, BesideIn
  <2>4. new \in BOOLEAN
    OBVIOUS
  <2> HIDE DEF to
  <2>5. IF new THEN w \in Fresh(desk) ELSE w \in Ws \cup {NoWs}
    BY <2>2, <2>3
  <2> HIDE DEF new, m
  <2> QED
    BY <1>1, <2>1, <2>2, <2>4, <2>5, HomedKey
<1>3. ASSUME NEW n \in 0..MaxJump, FocusWorkspaceN(n) PROVE Stays(desk, desk')
  <2> DEFINE k == Min({n, LastOccupied(desk, m) + 1})
             there == Numbered(desk, m, k)
             new == there = {}
  <2>1. m # NoMon
    BY <1>3 DEF FocusWorkspaceN
  <2>2. PICK w \in IF there = {} THEN Fresh(desk) ELSE there :
          desk' = Goto(IF there = {} THEN Create(desk, m, w) ELSE desk, m, w)
    BY <1>3 DEF FocusWorkspaceN
  <2>3. there \in SUBSET Ws
    BY DEF Numbered, Own
  <2> HIDE DEF there
  <2>4. new \in BOOLEAN /\ (IF new THEN w \in Fresh(desk) ELSE w \in Ws \cup {NoWs})
    BY <2>2, <2>3
  <2>5. desk' = Goto(IF new THEN Create(desk, m, w) ELSE desk, m, w)
    BY <2>2
  <2> HIDE DEF new, m
  <2> QED
    BY <1>1, <2>1, <2>4, <2>5, HomedKey
<1>4. ASSUME FocusLastWorkspace PROVE Stays(desk, desk')
  <2> DEFINE w == desk.prev[m]
  <2>1. desk' = Goto(desk, m, w) /\ m # NoMon
    BY <1>4 DEF FocusLastWorkspace
  <2>2. m \in Present(desk) /\ w \in Ws \cup {NoWs}
    BY <1>1, <2>1, DeskTyped
  <2> HIDE DEF m, w
  <2> QED
    BY <2>1, <2>2, HomedGoto
<1> QED
  BY <1>2, <1>3, <1>4 DEF Navigate

\* A key sends a tile to a workspace, new or not.
LEMMA HomedTile ==
    ASSUME Homed(desk), NothingFreed, NEW m \in Present(desk), NEW c \in Mapped(desk),
           NEW new \in BOOLEAN, NEW w, IF new THEN w \in Fresh(desk) ELSE w \in Ws
    PROVE  Stays(desk, Follow(IF new THEN Create(desk, m, w) ELSE desk, m, c, w))
<1>1. CASE new
  <2> DEFINE t == Create(desk, m, w)
  <2>1. w \in Ws /\ m \in Mon /\ w \in Fresh(desk)
    BY <1>1, PresentMon DEF Fresh, Own
  <2>2. Lodged(desk, t)
    BY <2>1, FreshUnused, HomedCreate
  <2> HIDE DEF t
  <2>3. Homed(t) /\ m \in Present(t) /\ c \in Mapped(t)
    BY <2>2 DEF Lodged, Stays, Mapped
  <2>4. Stays(desk, Follow(t, m, c, w))
    BY <2>1, <2>2, <2>3, HomedFollow, StaysBy DEF Lodged
  <2> QED
    BY <1>1, <2>4 DEF t
<1>2. CASE ~ new
  BY <1>2, HomedFollow
<1> QED
  BY <1>1, <1>2

\* move_client_to_ws_n and move_client_to_ws_dir
LEMMA MoveToWsHomed ==
    ASSUME Homed(desk), NothingFreed,
           \/ \E n \in 0..MaxJump : MoveClientToWsN(n)
           \/ \E d \in Dir : MoveClientToWsDir(d)
    PROVE  Stays(desk, desk')
<1> DEFINE m == desk.selmon
           c == FocusTop(desk, m)
<1>1. /\ Base(desk) /\ m \in Mon \cup {NoMon}
      /\ m # NoMon => m \in Present(desk) /\ m \in Mon
      /\ m # NoMon /\ c # NoClient => c \in Mapped(desk)
  <2>1. Base(desk) /\ (m # NoMon => m \in Present(desk) /\ m \in Mon)
    BY PresentMon DEF Homed
  <2>2. m # NoMon /\ c # NoClient => c \in Mapped(desk)
    BY <2>1, FocusTopOf
  <2> QED
    BY <2>1, <2>2
<1>2. ASSUME NEW n \in 0..MaxJump, MoveClientToWsN(n) PROVE Stays(desk, desk')
  <2> DEFINE there == Numbered(desk, m, n)
             new == there = {}
  <2>1. m # NoMon /\ c # NoClient
    BY <1>2 DEF MoveClientToWsN, Movable
  <2>2. PICK w \in IF there = {} THEN Fresh(desk) ELSE there \ {desk.active[m]} :
          desk' = Follow(IF there = {} THEN Create(desk, m, w) ELSE desk, m, c, w)
    BY <1>2 DEF MoveClientToWsN
  <2>3. there \in SUBSET Ws
    BY DEF Numbered, Own
  <2> HIDE DEF there
  <2>4. /\ new \in BOOLEAN /\ (IF new THEN w \in Fresh(desk) ELSE w \in Ws)
        /\ desk' = Follow(IF new THEN Create(desk, m, w) ELSE desk, m, c, w)
    BY <2>2, <2>3
  <2> HIDE DEF new, m, c
  <2> QED
    BY <1>1, <2>1, <2>4, HomedTile
<1>3. ASSUME NEW d \in Dir, MoveClientToWsDir(d) PROVE Stays(desk, desk')
  <2> DEFINE to == Beside(desk, desk.active[m], d)
             new == to = NoWs
  <2>1. m # NoMon /\ c # NoClient
    BY <1>3 DEF MoveClientToWsDir, Movable
  <2>2. PICK w \in IF to = NoWs THEN Fresh(desk) ELSE {to} :
          desk' = Follow(IF to = NoWs THEN Create(desk, m, w) ELSE desk, m, c, w)
    BY <1>3 DEF MoveClientToWsDir
  <2>3. to \in Ws \cup {NoWs}
    BY <1>1, <2>1, BesideIn
  <2> HIDE DEF to
  <2>4. /\ new \in BOOLEAN /\ (IF new THEN w \in Fresh(desk) ELSE w \in Ws)
        /\ desk' = Follow(IF new THEN Create(desk, m, w) ELSE desk, m, c, w)
    BY <2>2, <2>3
  <2> HIDE DEF new, m, c
  <2> QED
    BY <1>1, <2>1, <2>4, HomedTile
<1> QED
  BY <1>2, <1>3

\* The monitors a direction leads to are on the list, if the layout is.
LEMMA NextToIn ==
    ASSUME NEW s, Homed(s), NEW L \in SUBSET Present(s), NEW m \in Present(s), NEW d \in Dir
    PROVE  /\ NextTo(L, m, d) \in Present(s) \cup {NoMon}
           /\ L # {} => Around(L, m, d) \in L
           /\ DirToMon(L, m, d) \in Present(s)
<1>1. L \in SUBSET Mon /\ m \in Mon
  BY PresentMon
<1> QED
  BY <1>1, NextToOf

\* focusmon
LEMMA FocusMonHomed ==
    ASSUME Homed(desk), NEW L \in SUBSET Present(desk), NEW d \in Dir, FocusMon(L, d)
    PROVE  Stays(desk, desk')
<1> DEFINE lit == {m \in L : desk.lit[m]}
           N == IF desk.selmon \notin L THEN {desk.selmon}
                ELSE IF lit = {} THEN L ELSE {Around(lit, desk.selmon, d)}
<1>1. desk.selmon \in Present(desk)
  BY DEF FocusMon, Homed
<1>2. N \in SUBSET Present(desk)
  <2>1. lit \in SUBSET Present(desk)
    OBVIOUS
  <2> HIDE DEF lit
  <2>2. lit # {} => Around(lit, desk.selmon, d) \in Present(desk)
    BY <1>1, <2>1, NextToIn
  <2> QED
    BY <1>1, <2>2
<1>3. PICK n \in N : desk' = FocusMostRecent([desk EXCEPT !.selmon = n])
  BY DEF FocusMon
<1> DEFINE s == [desk EXCEPT !.selmon = n]
<1>4. n \in Present(desk) \cup {NoMon}
  BY <1>2
<1> HIDE DEF N
<1>5. Rehomed(desk, s)
  BY <1>4, HomedSelect
<1>6. desk' = FocusMostRecent(s)
  BY <1>3
<1> HIDE DEF s
<1>7. Rehomed(s, FocusMostRecent(s))
  BY <1>5, HomedMostRecent DEF Rehomed
<1> QED
  BY <1>5, <1>6, <1>7, RehomedTwice, RehomedStays

\* tagmon
LEMMA TagMonHomed ==
    ASSUME Homed(desk), NEW L \in SUBSET Present(desk), NEW d \in Dir, TagMon(L, d)
    PROVE  Stays(desk, desk')
<1> DEFINE c == FocusTop(desk, desk.selmon)
           m == DirToMon(L, desk.selmon, d)
<1>1. desk' = SetMon(desk, c, m) /\ c # NoClient
  BY DEF TagMon
<1>2. Base(desk) /\ desk.selmon \in Mon \cup {NoMon}
  BY PresentMon DEF Homed
<1>3. c \in Mapped(desk) /\ desk.selmon \in Mon
  BY <1>1, <1>2, FocusTopOf
<1>4. desk.selmon \in Present(desk)
  BY <1>3, PresentMon DEF Homed
<1>5. m \in Present(desk) \cup {NoMon}
  BY <1>4, NextToIn
<1> HIDE DEF c, m
<1> QED
  BY <1>1, <1>3, <1>5, HomedSetMon, RehomedStays

\* togglefloating and togglefullscreen
LEMMA ToggleHomed ==
    ASSUME Homed(desk), ToggleFloating \/ ToggleFullscreen
    PROVE  Stays(desk, desk')
<1> DEFINE c == FocusTop(desk, desk.selmon)
           f == ~ desk.float[c]
           g == ~ desk.full[c]
<1>1. c # NoClient /\ (desk' = SetFloating(desk, c, f) \/ desk' = SetFullscreen(desk, c, g))
  BY DEF ToggleFloating, ToggleFullscreen
<1>2. Base(desk) /\ desk.selmon \in Mon \cup {NoMon}
  BY PresentMon DEF Homed
<1>3. c \in Mapped(desk) /\ c \in Client
  BY <1>1, <1>2, FocusTopOf
<1>4. f \in BOOLEAN /\ g \in BOOLEAN
  OBVIOUS
<1> HIDE DEF c, f, g
<1> QED
  BY <1>1, <1>3, <1>4, HomedSetFloating, HomedSetFullscreen, RehomedStays

\* focusstack
LEMMA FocusStackHomed ==
    ASSUME Homed(desk), NEW d \in Dir, FocusStack(d)
    PROVE  Stays(desk, desk')
<1> DEFINE c == FocusTop(desk, desk.selmon)
           q == desk.clients
           p == Pos(q, c)
           at(k) == q[((p - 1 + k * d) % Len(q)) + 1]
           turns == {k \in 1..Len(q) : desk.mon[at(k)] = desk.selmon}
           k0 == Min(turns)
<1>1. desk' = Focus(desk, at(k0)) /\ c # NoClient
  BY DEF FocusStack
<1>2. c \in Mapped(desk) /\ desk.mon[c] = desk.selmon
  <2>1. Base(desk) /\ desk.selmon \in Mon \cup {NoMon}
    BY PresentMon DEF Homed
  <2> QED
    BY <1>1, <2>1, FocusTopOf
<1>3. Lists(q, Mapped(desk))
  BY DEF Homed, Base, Orders
<1>4. p \in 1..Len(q) /\ q[p] = c /\ Len(q) \in Nat
  BY <1>2, <1>3, PosPlace, ListsPlaces
<1> HIDE DEF p
<1>5. /\ \A k \in Int : ((p - 1 + k * d) % Len(q)) + 1 \in 1..Len(q)
      /\ ((p - 1 + Len(q) * d) % Len(q)) + 1 = p
  BY <1>4, AroundList
<1>6. at(Len(q)) = c
  BY <1>4, <1>5
<1>7. Len(q) \in turns
  BY <1>2, <1>4, <1>6
<1>8. turns \in SUBSET Nat
  BY <1>4
<1>9. k0 \in turns
  <2> HIDE DEF turns
  <2>1. \E x \in turns : \A y \in turns : x <= y
    BY <1>7, <1>8, LeastNatural
  <2> QED
    BY <2>1 DEF Min
<1> HIDE DEF turns, k0
<1>10. k0 \in Int
  BY <1>8, <1>9
<1>11. at(k0) \in Mapped(desk)
  BY <1>3, <1>5, <1>10, ListsPlaces
<1> QED
  BY <1>1, <1>11, HomedFocus, RehomedStays

\* motionnotify and pointerfocus
LEMMA PointerToHomed ==
    ASSUME Homed(desk), NEW m \in Mon, NEW c \in Client \cup {NoClient}, PointerTo(m, c)
    PROVE  Stays(desk, desk')
<1> DEFINE f == FullscreenOn(desk, m)
           s == [desk EXCEPT !.selmon = m]
           x == IF c = NoClient THEN f ELSE c
<1>1. /\ desk.lit[m] /\ (c # NoClient => Shown(desk, c))
      /\ desk' = IF x = NoClient THEN s ELSE Focus(s, x)
  BY DEF PointerTo
<1>2. x # NoClient => x \in Mapped(desk)
  BY <1>1, FullscreenOf DEF Shown, Homed
<1> HIDE DEF x
<1>3. m \in Present(desk)
  BY <1>1 DEF Homed
<1>4. Rehomed(desk, s)
  BY <1>3, HomedSelect
<1> HIDE DEF s
<1>5. Homed(s) /\ (x # NoClient => x \in Mapped(s))
  BY <1>2, <1>4 DEF Rehomed, Mapped
<1>6. x # NoClient => Rehomed(s, Focus(s, x))
  BY <1>5, HomedFocus
<1> QED
  BY <1>1, <1>4, <1>6, RehomedTwice, RehomedStays

\* A column of the row in view gets the focus.
LEMMA HomedTurn ==
    ASSUME NEW s, Homed(s), NEW x \in Present(s), NEW w, w = s.active[x], NEW c \in InRow(s, w)
    PROVE  Rehomed(s, Focus(Arrange([s EXCEPT !.focused[w] = c], x), c))
<1> DEFINE a == [s EXCEPT !.focused[w] = c]
           b == Arrange(a, x)
<1>1. Base(s) /\ s \in Desk /\ w \in Ws /\ c \in Mapped(s) /\ x \in Mon
  BY SeenOf DEF Homed, Base, RowSeen, InRow
<1>2. Quiet(s, a)
  BY <1>1, ColumnQuiet
<1>3. a.selmon = s.selmon
  BY <1>1 DEF Desk
<1> HIDE DEF a
<1>4. Rehomed(s, a)
  BY <1>2, <1>3, HomedShuffled DEF Quiet, Homed
<1>5. Homed(a) /\ c \in Mapped(a)
  BY <1>1, <1>4 DEF Rehomed, Mapped
<1>6. Rehomed(a, b)
  BY <1>1, <1>5, HomedArrange
<1> HIDE DEF b
<1>7. Homed(b) /\ c \in Mapped(b)
  BY <1>5, <1>6 DEF Rehomed, Mapped
<1>8. Rehomed(b, Focus(b, c))
  BY <1>7, HomedFocus
<1>9. Rehomed(s, Focus(b, c))
  BY <1>4, <1>6, <1>8, RehomedTwice
<1> QED
  BY <1>9 DEF b, a

\* focus_column_dir
LEMMA FocusColumnHomed ==
    ASSUME Homed(desk), NEW L \in SUBSET Present(desk), NEW d \in Dir, FocusColumnDir(L, d)
    PROVE  Stays(desk, desk')
<1> DEFINE m == desk.selmon
           w == desk.active[m]
           r == desk.row[w]
           i == IF desk.focused[w] = NoClient THEN 1 ELSE Pos(r, desk.focused[w]) + d
           n == NextTo(L, m, d)
           v == desk.active[n]
           far == desk.row[v]
           edge == IF d = 1 THEN Head(far) ELSE Last(far)
           over == [desk EXCEPT !.selmon = n]
<1>1. m # NoMon
  BY DEF FocusColumnDir
<1>2. m \in Present(desk) /\ w \in Ws /\ Base(desk) /\ desk \in Desk
  <2>1. m \in Present(desk)
    BY <1>1 DEF Homed
  <2> QED
    BY <2>1, SeenOf DEF RowSeen, Homed, Base
<1>3. CASE i \in DOMAIN r /\ desk' = Focus(Arrange([desk EXCEPT !.focused[w] = r[i]], m), r[i])
  <2>1. Lists(r, InRow(desk, w))
    BY <1>2 DEF Base, Rows, RowOK
  <2>2. r[i] \in InRow(desk, w)
    <3>1. i \in DOMAIN r
      BY <1>3
    <3> HIDE DEF i, r
    <3> QED
      BY <2>1, <3>1, ListsPlaces
  <2> HIDE DEF i
  <2> DEFINE c == r[i]
  <2>3. w = desk.active[m] /\ c \in InRow(desk, w)
    BY <2>2
  <2>4. desk' = Focus(Arrange([desk EXCEPT !.focused[w] = c], m), c)
    BY <1>3
  <2> HIDE DEF c, w, m
  <2> QED
    BY <1>2, <2>3, <2>4, HomedTurn, RehomedStays
<1>4. CASE /\ n # NoMon
           /\ desk' = IF far = <<>> THEN Focus(over, NoClient)
                      ELSE Focus(Arrange([over EXCEPT !.focused[v] = edge], n), edge)
  <2>1. n \in Present(desk)
    BY <1>2, <1>4, NextToIn
  <2> HIDE DEF n
  <2>2. Rehomed(desk, over)
    BY <2>1, HomedSelect
  <2>3. over.col = desk.col
    BY <1>2 DEF Desk
  <2> HIDE DEF over
  <2>4. Homed(over) /\ n \in Present(over) /\ v = over.active[n] /\ InRow(over, v) = InRow(desk, v)
    BY <2>1, <2>2, <2>3, PresentSame DEF Rehomed, InRow, SameLists
  <2>5. CASE far = <<>>
    BY <1>4, <2>2, <2>4, <2>5, HomedFocus, RehomedTwice, RehomedStays
  <2>6. CASE far # <<>>
    <3>1. v \in Ws
      BY <2>1, SeenOf DEF RowSeen
    <3>2. Lists(far, InRow(desk, v))
      BY <1>2, <3>1 DEF Base, Rows, RowOK
    <3> HIDE DEF far
    <3>3. edge \in InRow(over, v)
      BY <2>4, <2>6, <3>2, EndsListed
    <3> HIDE DEF edge, v
    <3>4. Rehomed(over, Focus(Arrange([over EXCEPT !.focused[v] = edge], n), edge))
      BY <2>4, <3>3, HomedTurn
    <3> QED
      BY <1>4, <2>2, <2>6, <3>4, RehomedTwice, RehomedStays
  <2> QED
    BY <2>5, <2>6
<1> QED
  BY <1>3, <1>4 DEF FocusColumnDir

\* A column that hops to the row another monitor shows, its window with it.
LEMMA HomedHop ==
    ASSUME NEW s, Homed(s), NEW c \in Mapped(s), NEW n \in Present(s), s.mon[c] # n, NEW d
    PROVE  LET a == SetMon(s, c, n)
           IN  Rehomed(s, IF a.col[c] = NoWs THEN a ELSE Relink(a, c, s.active[n], d))
<1> DEFINE to == s.active[n]
           a == SetMon(s, c, n)
           u == Detach(a, c)
           i == IF d = 1 THEN 1 ELSE Len(u.row[to]) + 1
           t == Insert(u, to, i, c)
<1>1. Rehomed(s, a)
  BY HomedSetMon
<1>2. to \in Ws /\ c \in Client /\ n \in Mon /\ Base(s)
  BY SeenOf, MappedOf DEF RowSeen, Homed
<1>3. a.col[c] # NoWs => Relink(a, c, to, d) = t
  BY <1>2, HopSame
<1> HIDE DEF a, to
<1>4. Homed(a) /\ Base(a) /\ c \in Mapped(a)
  BY <1>1 DEF Rehomed, Mapped, Homed
<1>5. Rehomed(a, u) /\ u.col[c] = NoWs
  BY <1>2, <1>4, DetachMoves, HomedMoves
<1> HIDE DEF u
<1>6. Homed(u) /\ Base(u) /\ c \in Mapped(u)
  BY <1>4, <1>5 DEF Rehomed, Mapped, Homed
<1>7. Lists(u.row[to], InRow(u, to))
  BY <1>2, <1>6 DEF Base, Rows, RowOK
<1>8. Len(u.row[to]) \in Nat
  BY <1>7, ListsPlaces
<1>9. i \in 1..(Len(u.row[to]) + 1)
  BY <1>8
<1> HIDE DEF i
<1>10. Moves(u, t, c, to)
  BY <1>2, <1>5, <1>6, <1>9, InsertMoves
<1> HIDE DEF t
<1>11. Rehomed(u, t)
  BY <1>6, <1>10, HomedMoves
<1>12. Rehomed(s, t)
  BY <1>1, <1>5, <1>11, RehomedTwice
<1>13. Rehomed(s, IF a.col[c] = NoWs THEN a ELSE Relink(a, c, to, d))
  BY <1>1, <1>3, <1>12
<1> QED
  BY <1>13 DEF a, to

\* A step after which the rows may be in disorder: monitors, workspaces and the
\* windows on them stayed.
Calm(s, t) == /\ Housed(t) /\ SameLists(s, t) /\ t.clients = s.clients
              /\ t.mon = s.mon /\ t.col = s.col

\* One calm step after another.
LEMMA CalmTwice ==
    ASSUME NEW s, NEW t, NEW u, Calm(s, t), Calm(t, u)
    PROVE  Calm(s, u)
BY DEF Calm, SameLists

\* And none.
LEMMA CalmNot ==
    ASSUME NEW s, Housed(s)
    PROVE  Calm(s, s)
BY DEF Calm, SameLists

\* What makes a step calm.
LEMMA CalmBy ==
    ASSUME NEW s, Housed(s), NEW t, Shaped(t), SameLists(s, t), t.clients = s.clients,
           t.mon = s.mon, t.col = s.col, t.full = s.full, t.float = s.float,
           t.fs_ws = s.fs_ws, t.row \in [Ws -> Seq(Client)],
           t.focused \in [Ws -> Client \cup {NoClient}], Lists(t.fstack, Mapped(s)),
           t.kb \in Client \cup {NoClient}, t.selmon \in Present(s) \cup {NoMon}
    PROVE  Calm(s, t)
<1>1. Present(t) = Present(s) /\ Mapped(t) = Mapped(s) /\ t.lit = s.lit
  BY PresentSame DEF Mapped, SameLists
<1>2. t \in Desk
  <2>1. t.fstack \in Seq(Client) /\ t.selmon \in Mon \cup {NoMon} /\ s \in Desk
    BY PresentMon DEF Lists, Housed
  <2> QED
    BY <2>1, DeskTyped, ShapedDesk DEF SameLists
<1>3. Orders(t) /\ Counted(t)
  BY <1>1, CountedSame DEF Orders, Housed
<1> QED
  BY <1>1, <1>2, <1>3 DEF Calm, Housed, LodgedAt

\* Calm steps keep all that does not depend on rows.
LEMMA CalmKeeps ==
    ASSUME NEW s, NEW t, Calm(s, t)
    PROVE  Keeps(s, t)
BY PresentSame DEF Calm, Keeps, SameLists

\* The part of focusclient before its arrange.
LEMMA RaiseCalm ==
    ASSUME NEW s, Housed(s), NEW c \in Mapped(s)
    PROVE  Calm(s, Raise(s, c))
<1> DEFINE t == Raise(s, c)
<1>1. s \in Desk /\ Shaped(s) /\ Orders(s)
  BY DeskShaped DEF Housed
<1>2. Shaped(t)
  BY <1>1 DEF Raise, Shaped, Fields
<1>3. /\ SameLists(s, t) /\ t.clients = s.clients /\ t.row = s.row /\ t.kb = s.kb
      /\ t.mon = s.mon /\ t.col = s.col /\ t.full = s.full /\ t.float = s.float
      /\ t.fs_ws = s.fs_ws /\ t.selmon = s.mon[c]
      /\ t.fstack = <<c>> \o RemoveAt(s.fstack, Pos(s.fstack, c))
      /\ t.focused = IF s.col[c] = NoWs THEN s.focused ELSE [s.focused EXCEPT ![s.col[c]] = c]
  BY <1>1 DEF Raise, Desk, SameLists
<1> HIDE DEF t
<1>4. Lists(t.fstack, Mapped(s)) /\ c \in Client
  BY <1>1, <1>3, RaiseLists, ListsPlaces DEF Orders
<1>5. t.focused \in [Ws -> Client \cup {NoClient}]
  BY <1>1, <1>3, <1>4, DeskTyped
<1>6. t.selmon \in Present(s) \cup {NoMon}
  BY <1>3, <1>4 DEF Housed, LodgedAt
<1>7. Calm(s, t)
  BY <1>1, <1>2, <1>3, <1>4, <1>5, <1>6, CalmBy, DeskTyped
<1> QED
  BY <1>7 DEF t

\* The keyboard and the selected monitor.
LEMMA KeyboardCalm ==
    ASSUME NEW s, Housed(s), NEW c \in Client \cup {NoClient},
           NEW m \in Present(s) \cup {NoMon}
    PROVE  Calm(s, [s EXCEPT !.kb = c]) /\ Calm(s, [s EXCEPT !.selmon = m])
<1>1. s \in Desk /\ Shaped(s) /\ Orders(s)
  BY DeskShaped DEF Housed
<1>2. ASSUME NEW t, t = [s EXCEPT !.kb = c] \/ t = [s EXCEPT !.selmon = m]
      PROVE  Calm(s, t)
  <2>1. Shaped(t)
    BY <1>1, <1>2 DEF Shaped, Fields
  <2>2. /\ SameLists(s, t) /\ t.clients = s.clients /\ t.row = s.row
        /\ t.mon = s.mon /\ t.col = s.col /\ t.full = s.full /\ t.float = s.float
        /\ t.fs_ws = s.fs_ws /\ t.fstack = s.fstack /\ t.focused = s.focused
        /\ t.kb \in {c, s.kb} /\ t.selmon \in {m, s.selmon}
    BY <1>1, <1>2 DEF Desk, SameLists
  <2>3. Lists(t.fstack, Mapped(s)) /\ t.selmon \in Present(s) \cup {NoMon}
    BY <1>1, <2>2 DEF Orders, Housed
  <2> QED
    BY <1>1, <2>1, <2>2, <2>3, CalmBy, DeskTyped
<1> QED
  BY <1>2

\* arrange
LEMMA ArrangeCalm ==
    ASSUME NEW s, Housed(s), NEW m \in Mon \cup {NoMon}
    PROVE  Calm(s, Arrange(s, m))
<1> DEFINE f == FullscreenOn(s, m)
<1>1. CASE Arrange(s, m) = s
  BY <1>1, CalmNot
<1>2. CASE Arrange(s, m) # s
  <2>1. f # NoClient /\ Arrange(s, m) = [Raise(s, f) EXCEPT !.kb = f]
    BY <1>2 DEF Arrange, TakeKeyboard
  <2>2. f \in Mapped(s) /\ f \in Client
    BY <2>1, FullscreenIn DEF Housed
  <2> HIDE DEF f
  <2>3. Calm(s, Raise(s, f))
    BY <2>2, RaiseCalm
  <2>4. Calm(Raise(s, f), [Raise(s, f) EXCEPT !.kb = f])
    BY <2>2, <2>3, KeyboardCalm DEF Calm
  <2> QED
    BY <2>1, <2>3, <2>4, CalmTwice
<1> QED
  BY <1>1, <1>2

\* focusclient
LEMMA FocusCalm ==
    ASSUME NEW s, Housed(s), NEW c \in Mapped(s)
    PROVE  Calm(s, Focus(s, c))
<1> DEFINE n == IF s.col[c] # NoWs /\ s.focused[s.col[c]] # c THEN s.mon[c] ELSE NoMon
           r == Raise(s, c)
           a == Arrange(r, n)
<1>1. c \in Client /\ s.mon[c] \in Mon \cup {NoMon}
  BY ListsPlaces, DeskTyped DEF Housed, Orders
<1>2. c # NoClient
  BY <1>1, NullAssumption
<1>3. CASE s.mon[c] = NoMon \/ s.kb = c
  BY <1>2, <1>3, CalmNot DEF Focus
<1>4. CASE ~ (s.mon[c] = NoMon \/ s.kb = c)
  <2>1. Focus(s, c) = [a EXCEPT !.kb = c]
    BY <1>2, <1>4 DEF Focus
  <2>2. n \in Mon \cup {NoMon}
    BY <1>1
  <2>3. Calm(s, r)
    BY RaiseCalm
  <2> HIDE DEF n, r
  <2>4. Calm(r, a)
    BY <2>2, <2>3, ArrangeCalm DEF Calm
  <2> HIDE DEF a
  <2>5. Calm(a, [a EXCEPT !.kb = c])
    BY <1>1, <2>4, KeyboardCalm DEF Calm
  <2> QED
    BY <2>1, <2>3, <2>4, <2>5, CalmTwice
<1> QED
  BY <1>3, <1>4

\* The list link of a column, wherever it points.
LEMMA RelinkCalm ==
    ASSUME NEW s, Homed(s), NEW c \in Client, s.col[c] \in Ws, NEW w \in Ws, NEW d
    PROVE  Calm(s, Relink(s, c, w, d))
<1> DEFINE v == s.col[c]
           p == Pos(s.row[v], c)
           r == RemoveAt(s.row[v], p)
           u == [s EXCEPT !.row[v] = r]
           k == IF d = 1 THEN 1 ELSE Len(u.row[w]) + 1
           q == InsertAt(u.row[w], k, c)
           t == [u EXCEPT !.row[w] = q, !.focused[w] = c]
<1>1. s \in Desk /\ Shaped(s) /\ Orders(s) /\ Housed(s) /\ RowOK(s, v) /\ c \in InRow(s, v)
  BY DeskShaped, HomedHoused DEF Homed, Base, Rows, InRow
<1>2. /\ s.row \in [Ws -> Seq(Client)] /\ s.focused \in [Ws -> Client \cup {NoClient}]
  BY <1>1, DeskTyped
<1>3. Relink(s, c, w, d) = t
  BY DEF Relink
<1>4. p \in 1..Len(s.row[v])
  BY <1>1, PosPlace DEF RowOK
<1>5. r \in Seq(Client)
  <2> HIDE DEF p
  <2> QED
    BY <1>2, <1>4, RemovePlaces
<1> HIDE DEF r
<1>6. Shaped(u) /\ u.row = [s.row EXCEPT ![v] = r]
      /\ \A f \in Fields \ {"row"} : u[f] = s[f]
  BY <1>1 DEF Shaped, Fields
<1> HIDE DEF u
<1>7. u.row \in [Ws -> Seq(Client)]
  BY <1>2, <1>5, <1>6
<1>8. q \in Seq(Client)
  <2>1. u.row[w] \in Seq(Client) /\ Len(u.row[w]) \in Nat
    BY <1>7, LenProperties
  <2>2. k \in 1..(Len(u.row[w]) + 1)
    BY <2>1
  <2> HIDE DEF k
  <2> QED
    BY <2>1, <2>2, InsertPlaces
<1> HIDE DEF q
<1>9. Shaped(t) /\ t.row = [u.row EXCEPT ![w] = q] /\ t.focused = [u.focused EXCEPT ![w] = c]
      /\ \A f \in Fields \ {"row", "focused"} : t[f] = u[f]
  BY <1>6 DEF Shaped, Fields
<1> HIDE DEF t
<1>10. \A f \in Fields \ {"row", "focused"} : t[f] = s[f]
  BY <1>6, <1>9
<1>11. t.row \in [Ws -> Seq(Client)] /\ t.focused \in [Ws -> Client \cup {NoClient}]
  <2>1. u.focused = s.focused
    BY <1>6 DEF Fields
  <2> QED
    BY <1>2, <1>7, <1>8, <1>9, <2>1
<1>12. /\ SameLists(s, t) /\ t.clients = s.clients /\ t.mon = s.mon /\ t.col = s.col
       /\ t.full = s.full /\ t.float = s.float /\ t.fs_ws = s.fs_ws /\ t.fstack = s.fstack
       /\ t.kb = s.kb /\ t.selmon = s.selmon
  BY <1>10 DEF Fields, SameLists
<1>13. /\ Lists(t.fstack, Mapped(s)) /\ t.kb \in Client \cup {NoClient}
       /\ t.selmon \in Present(s) \cup {NoMon}
  BY <1>1, <1>12, DeskTyped DEF Orders, Housed
<1>14. Calm(s, t)
  BY <1>1, <1>9, <1>11, <1>12, <1>13, CalmBy
<1> QED
  BY <1>3, <1>14

\* move_column_dir: only a hop home leaves the rows in disorder.
LEMMA MoveColumnHomed ==
    ASSUME Homed(desk), NEW L \in SUBSET Present(desk), NEW d \in Dir, MoveColumnDir(L, d)
    PROVE  \/ Stays(desk, desk')
           \/ /\ Keeps(desk, desk')
              /\ desk.mon[desk.focused[desk.active[desk.selmon]]] = NextTo(L, desk.selmon, d)
<1> DEFINE m == desk.selmon
           w == desk.active[m]
           r == desk.row[w]
           c == desk.focused[w]
           i == Pos(r, c)
           n == NextTo(L, m, d)
           to == desk.active[n]
           a == SetMon(desk, c, n)
           put == IF a.col[c] = NoWs THEN a ELSE Relink(a, c, to, d)
           over == [put EXCEPT !.selmon = n]
           b == Arrange(over, m)
           e == Arrange(b, n)
<1>1. m # NoMon /\ c # NoClient
  BY DEF MoveColumnDir
<1>2. /\ m \in Present(desk) /\ m \in Mon /\ w \in Ws /\ w = desk.active[m]
      /\ Base(desk) /\ RowSeen(desk, m) /\ desk \in Desk
  <2>1. m \in Present(desk)
    BY <1>1 DEF Homed
  <2> QED
    BY <2>1, SeenOf DEF RowSeen, Homed, Base
<1>3. c \in InRow(desk, w) /\ Lists(r, InRow(desk, w))
  BY <1>1, <1>2 DEF Base, Rows, RowOK
<1>4. c \in Mapped(desk) /\ c \in Client /\ desk.col[c] = w
  BY <1>2, <1>3 DEF RowSeen, InRow
<1>5. i \in DOMAIN r /\ r[i] = c
  <2>1. DOMAIN r = 1..Len(r)
    BY <1>3, ListsPlaces
  <2>2. i \in 1..Len(r) /\ r[i] = c
    <3> HIDE DEF r, c
    <3> QED
      BY <1>3, PosPlace DEF i
  <2> QED
    BY <2>1, <2>2
<1>6. CASE /\ i + d \in DOMAIN r
           /\ desk' = Arrange([desk EXCEPT !.row[w][i] = r[i + d], !.row[w][i + d] = c], m)
  <2> DEFINE j == i + d
             v == [desk EXCEPT !.row[w][i] = r[j], !.row[w][j] = r[i]]
  <2>1. desk' = Arrange(v, m)
    BY <1>5, <1>6
  <2>2. j \in DOMAIN r
    BY <1>6
  <2> HIDE DEF i, j
  <2>3. Shuffled(desk, v)
    BY <1>2, <1>5, <2>2, SwapShuffled
  <2>4. v.selmon = desk.selmon
    BY <1>2 DEF Desk
  <2> HIDE DEF v
  <2>5. Rehomed(desk, v) /\ Homed(v)
    BY <2>3, <2>4, HomedShuffled DEF Rehomed, Homed
  <2>6. Rehomed(v, Arrange(v, m))
    BY <1>2, <2>5, HomedArrange
  <2> QED
    BY <2>1, <2>5, <2>6, RehomedTwice, RehomedStays
<1>near. (n \in Present(desk) /\ n \in Mon) \/ n = NoMon
  <2>1. m \in Present(desk)
    BY <1>2
  <2> HIDE DEF m
  <2> QED
    BY <2>1, NextToIn, PresentMon
<1>7. CASE n # NoMon /\ desk.mon[c] # n /\ desk' = Focus(e, c)
  <2>1. n \in Present(desk) /\ n \in Mon
    <3> HIDE DEF n
    <3> QED
      BY <1>7, <1>near
  <2> HIDE DEF n, c, m
  <2>2. Rehomed(desk, put)
    BY <1>4, <1>7, <2>1, HomedHop
  <2> HIDE DEF put
  <2>3. Homed(put) /\ n \in Present(put)
    BY <2>1, <2>2, PresentSame DEF Rehomed
  <2>4. Rehomed(put, over)
    BY <2>3, HomedSelect
  <2> HIDE DEF over
  <2>5. Rehomed(over, b)
    BY <1>2, <2>4, HomedArrange DEF Rehomed
  <2> HIDE DEF b
  <2>6. Rehomed(b, e)
    BY <2>1, <2>5, HomedArrange DEF Rehomed
  <2> HIDE DEF e
  <2>7. Rehomed(desk, e)
    BY <2>2, <2>4, <2>5, <2>6, RehomedTwice
  <2>8. Homed(e) /\ c \in Mapped(e)
    BY <1>4, <2>7 DEF Rehomed, Mapped
  <2>9. Rehomed(e, Focus(e, c))
    BY <2>8, HomedFocus
  <2> QED
    BY <1>7, <2>7, <2>9, RehomedTwice, RehomedStays
<1>8. CASE n # NoMon /\ desk.mon[c] = n /\ desk' = Focus(e, c)
  <2>1. n \in Present(desk) /\ n \in Mon
    <3> HIDE DEF n
    <3> QED
      BY <1>8, <1>near
  <2>2. to \in Ws
    BY <2>1, SeenOf DEF RowSeen
  <2>3. a = desk
    BY <1>8 DEF SetMon
  <2> HIDE DEF n, m, to
  <2>4. put = Relink(desk, c, to, d)
    BY <1>2, <1>4, <2>3, NullAssumption
  <2> HIDE DEF put
  <2>5. Calm(desk, put)
    BY <1>2, <1>4, <2>2, <2>4, RelinkCalm
  <2> HIDE DEF c
  <2>6. Housed(put) /\ n \in Present(put) /\ NoClient \in Client \cup {NoClient}
    BY <2>1, <2>5, PresentSame DEF Calm
  <2>7. Calm(put, over)
    BY <2>6, KeyboardCalm
  <2> HIDE DEF over
  <2>8. Calm(over, b)
    BY <1>2, <2>7, ArrangeCalm DEF Calm
  <2> HIDE DEF b
  <2>9. Calm(b, e)
    BY <2>1, <2>8, ArrangeCalm DEF Calm
  <2> HIDE DEF e
  <2>10. Calm(desk, e)
    BY <2>5, <2>7, <2>8, <2>9, CalmTwice
  <2>11. Housed(e) /\ c \in Mapped(e)
    BY <1>4, <2>10 DEF Calm, Mapped
  <2>12. Calm(desk, desk')
    BY <1>8, <2>10, <2>11, FocusCalm, CalmTwice
  <2>13. Keeps(desk, desk')
    BY <2>12, CalmKeeps
  <2> QED
    BY <1>8, <2>13 DEF c, n, m
<1>9. \/ i + d \in DOMAIN r
         /\ desk' = Arrange([desk EXCEPT !.row[w][i] = r[i + d], !.row[w][i + d] = c], m)
      \/ n # NoMon /\ desk' = Focus(e, c)
  BY DEF MoveColumnDir
<1> QED
  BY <1>6, <1>7, <1>8, <1>9

\* commitnotify: the window is sent to a monitor and back before it maps.
LEMMA InitialCommitHomed ==
    ASSUME Homed(desk), NEW c \in Client, NEW m \in Present(desk) \cup {NoMon},
           NEW float \in BOOLEAN, InitialCommit(c, m, float)
    PROVE  Stays(desk, desk')
<1> DEFINE u == [desk EXCEPT !.float[c] = float]
           v == SetMon(u, c, m)
           t == SetMon(v, c, NoMon)
<1>1. c \notin Mapped(desk) /\ desk.mon[c] = NoMon /\ desk' = t
  BY DEF InitialCommit
<1>2. Rehomed(desk, u) /\ u.mon[c] = NoMon /\ u.selmon = desk.selmon
  BY <1>1, HomedFloat
<1> HIDE DEF u
<1>3. Homed(u) /\ Base(u) /\ Present(u) = Present(desk) /\ c \notin Mapped(u)
  BY <1>1, <1>2, PresentSame DEF Rehomed, Mapped, Homed
<1>4. CASE m = NoMon
  <2>1. t = u
    BY <1>2, <1>4 DEF SetMon
  <2> QED
    BY <1>1, <1>2, <2>1, RehomedStays
<1>5. CASE m # NoMon
  <2>1. m \in Mon
    BY <1>5, PresentMon
  <2>2. Touches(u, v, c) /\ v.mon[c] = m
    BY <1>2, <1>3, <1>5, <2>1, SetMonDoes
  <2>3. v.selmon \in {u.selmon, m}
    BY <1>3, <2>1, SetMonSel
  <2> HIDE DEF v
  <2>4. Base(v) /\ v.mon[c] # NoMon
    BY <1>5, <2>2 DEF Touches
  <2>5. Touches(v, t, c) /\ t.mon[c] = NoMon /\ t.col[c] = SentCol(v, c, NoMon)
    BY <2>4, SetMonDoes
  <2>6. t.selmon = v.selmon
    BY <2>4, PresentMon, SetMonSel
  <2> HIDE DEF t
  <2>7. Touches(u, t, c)
    BY <2>2, <2>5, TouchesTwice
  <2>8. t.selmon \in Present(u) \cup {NoMon}
    BY <1>3, <2>3, <2>6 DEF Homed
  <2>9. Rehomed(u, t)
    BY <1>3, <2>5, <2>7, <2>8, HomedTouched DEF SentCol
  <2> QED
    BY <1>1, <1>2, <2>9, RehomedTwice, RehomedStays
<1> QED
  BY <1>4, <1>5

\* mapnotify before its game paths
LEMMA HomedPlaced ==
    ASSUME NEW s, Homed(s), NEW c \in Client, c \notin Mapped(s),
           NEW m \in Present(s) \cup {NoMon}, NEW float \in BOOLEAN
    PROVE  Stays(s, Placed(s, c, m, float)) /\ c \in Mapped(Placed(s, c, m, float))
<1> DEFINE p == Parent[c]
           n == IF p = NoClient THEN m ELSE IF s.mon[p] # NoMon THEN s.mon[p] ELSE s.selmon
           l == List(s, c)
           u == [l EXCEPT !.float[c] = float]
<1>1. n \in Present(s) \cup {NoMon}
  <2>1. p \in Client \cup {NoClient}
    BY ClientAssumption
  <2> QED
    BY <2>1 DEF Homed, LodgedAt
<1>2. Placed(s, c, m, float) = SetMon(u, c, n)
  BY DEF Placed
<1>3. Homed(l) /\ SameLists(s, l) /\ c \in Mapped(l)
  BY HomedList
<1> HIDE DEF l, n
<1>4. Rehomed(l, u)
  BY <1>3, HomedFloat
<1> HIDE DEF u
<1>5. Homed(u) /\ c \in Mapped(u) /\ n \in Present(u) \cup {NoMon}
  BY <1>1, <1>3, <1>4, PresentSame DEF Rehomed, Mapped
<1>6. Rehomed(u, SetMon(u, c, n))
  BY <1>5, HomedSetMon
<1>7. Stays(s, l)
  BY <1>3, PresentSame DEF Stays, SameLists
<1>8. Stays(s, SetMon(u, c, n))
  BY <1>4, <1>6, <1>7, StaysBy
<1> QED
  BY <1>2, <1>5, <1>6, <1>8 DEF Rehomed, Mapped

\* mapnotify of an ordinary window
LEMMA MapWindowHomed ==
    ASSUME Homed(desk), NEW c \in Client, NEW m \in Present(desk) \cup {NoMon},
           NEW float \in BOOLEAN, NEW tray \in BOOLEAN, MapWindow(c, m, float, tray)
    PROVE  Stays(desk, desk')
<1> DEFINE p == Placed(desk, c, m, float)
           on == p.float[c] \/ tray
           u == [p EXCEPT !.float[c] = on]
<1>1. Homed(p) /\ Stays(desk, p)
  BY HomedPlaced DEF MapWindow, Stays
<1>2. p \in Desk /\ p.float[c] \in BOOLEAN
  BY <1>1, DeskTyped DEF Homed, Base
<1>3. desk' = IF p.mon[c] = NoMon THEN p ELSE UnsetFullscreen(u, c)
  BY DEF MapWindow, Open
<1> HIDE DEF p
<1>4. on \in BOOLEAN
  BY <1>2
<1> HIDE DEF on
<1>5. Rehomed(p, u)
  BY <1>1, <1>4, HomedFloat
<1> HIDE DEF u
<1>6. Rehomed(u, UnsetFullscreen(u, c))
  BY <1>5, HomedCleared DEF Rehomed
<1> QED
  BY <1>1, <1>3, <1>5, <1>6, StaysBy

\* mapnotify of a game recognised before it is placed, and of its splash
LEMMA MapGameHomed ==
    ASSUME Homed(desk), NEW c \in Client, NEW m \in Present(desk), MapGame(c, m) \/ MapSplash(c, m)
    PROVE  Stays(desk, desk')
<1> DEFINE l == List(desk, c)
           yes == TRUE
           f == FullOnly(l, c, yes)
           g == [l EXCEPT !.float[c] = yes]
<1>1. /\ c \notin Mapped(desk)
      /\ \/ desk' = UnsetFullscreen(Focus(SetMon(f, c, m), c), c)
         \/ desk' = Focus(SetMon(g, c, m), c)
  BY DEF MapGame, MapSplash, FullOnly
<1>2. /\ Homed(l) /\ c \in Mapped(l) /\ m \in Present(l) /\ yes \in BOOLEAN
      /\ Stays(desk, l)
  BY <1>1, HomedList, PresentSame DEF Stays, SameLists
<1> HIDE DEF l, yes
<1>3. Rehomed(l, f) /\ Rehomed(l, g)
  BY <1>2, HomedFull, HomedFloat
<1> HIDE DEF f, g
<1>4. ASSUME NEW u, Rehomed(l, u) PROVE Stays(desk, Focus(SetMon(u, c, m), c))
  <2> DEFINE t == SetMon(u, c, m)
  <2>1. Homed(u) /\ c \in Mapped(u) /\ m \in Present(u)
    BY <1>2, <1>4, PresentSame DEF Rehomed, Mapped
  <2>2. Rehomed(u, t)
    BY <2>1, HomedSetMon
  <2> HIDE DEF t
  <2>3. Homed(t) /\ c \in Mapped(t)
    BY <2>1, <2>2 DEF Rehomed, Mapped
  <2>4. Rehomed(t, Focus(t, c))
    BY <2>3, HomedFocus
  <2>5. Stays(desk, Focus(t, c))
    BY <1>2, <1>4, <2>2, <2>4, StaysBy
  <2> QED
    BY <2>5 DEF t
<1> DEFINE a == Focus(SetMon(f, c, m), c)
           b == Focus(SetMon(g, c, m), c)
<1>5. Stays(desk, a) /\ Stays(desk, b)
  BY <1>3, <1>4
<1> HIDE DEF a, b
<1>6. Rehomed(a, UnsetFullscreen(a, c))
  BY <1>5, HomedCleared DEF Stays
<1>7. Stays(desk, UnsetFullscreen(a, c))
  BY <1>5, <1>6, StaysBy
<1> QED
  BY <1>1, <1>5, <1>7 DEF a, b

\* mapnotify of a game that was placed as a tile first
LEMMA MapLateGameHomed ==
    ASSUME Homed(desk), NEW c \in Client, NEW m \in Present(desk) \cup {NoMon},
           NEW small \in BOOLEAN, MapLateGame(c, m, small)
    PROVE  Stays(desk, desk')
<1> DEFINE no == FALSE
           yes == TRUE
           p == Placed(desk, c, m, no)
           f == [p EXCEPT !.float[c] = yes]
           g == SetFullscreen(p, c, yes)
           u == IF small THEN f ELSE g
<1>1. c \notin Mapped(desk) /\ desk' = Focus(u, c) /\ no \in BOOLEAN /\ yes \in BOOLEAN
  BY DEF MapLateGame, OpenLate
<1> HIDE DEF no, yes
<1>2. Homed(p) /\ c \in Mapped(p) /\ Stays(desk, p)
  BY <1>1, HomedPlaced DEF Stays
<1> HIDE DEF p
<1>3. Rehomed(p, f) /\ Rehomed(p, g)
  BY <1>1, <1>2, HomedFloat, HomedSetFullscreen
<1> HIDE DEF f, g
<1>4. Rehomed(p, u) /\ Homed(u) /\ c \in Mapped(u)
  BY <1>2, <1>3 DEF Rehomed, Mapped
<1> HIDE DEF u
<1>5. Rehomed(u, Focus(u, c))
  BY <1>4, HomedFocus
<1> QED
  BY <1>1, <1>2, <1>4, <1>5, StaysBy

\* The client object is freed.
LEMMA ForgetHomed ==
    ASSUME Homed(desk), NEW c \in Client, Forget(c)
    PROVE  Stays(desk, desk')
<1> DEFINE no == FALSE
           f == FullOnly(desk, c, no)
           t == [f EXCEPT !.float[c] = no]
<1>1. desk' = t /\ no \in BOOLEAN
  BY DEF Forget, FullOnly
<1> HIDE DEF no
<1>2. Rehomed(desk, f)
  BY <1>1, HomedFull
<1> HIDE DEF f
<1>3. Rehomed(f, t)
  BY <1>1, <1>2, HomedFloat DEF Rehomed
<1> QED
  BY <1>1, <1>2, <1>3, RehomedTwice, RehomedStays

\* urgent
LEMMA ActivateHomed ==
    ASSUME Homed(desk), NEW c \in Client, Activate(c)
    PROVE  Stays(desk, desk')
<1> DEFINE m == desk.mon[c]
           w == desk.col[c]
           s == Switch(desk, m, w)
           u == [s EXCEPT !.selmon = m]
<1>1. c \in Mapped(desk) /\ m # NoMon /\ desk' = Focus(u, c)
  BY DEF Activate, Activatable
<1>2. m \in Present(desk) /\ w \in Ws \cup {NoWs}
  BY <1>1, DeskTyped DEF Homed, Base, LodgedAt
<1> HIDE DEF m, w
<1>3. Lodged(desk, s)
  BY <1>2, HomedSwitch
<1> HIDE DEF s
<1>4. Homed(s) /\ m \in Present(s) /\ c \in Mapped(s)
  BY <1>1, <1>2, <1>3 DEF Lodged, Stays, Mapped
<1>5. Rehomed(s, u)
  BY <1>4, HomedSelect
<1> HIDE DEF u
<1>6. Homed(u) /\ c \in Mapped(u)
  BY <1>4, <1>5 DEF Rehomed, Mapped
<1>7. Rehomed(u, Focus(u, c))
  BY <1>6, HomedFocus
<1> QED
  BY <1>1, <1>3, <1>5, <1>7, StaysBy DEF Lodged

\* unmapnotify, with or without a monitor
LEMMA UnmapHomed ==
    ASSUME Homed(desk), NEW c \in Client, Unmap(c)
    PROVE  Stays(desk, desk')
<1> DEFINE m == desk.mon[c]
           d == Detach(desk, c)
           l == Unlist(d, c)
           u == SetMon(l, c, NoMon)
           v == Compact(u, m)
           h == FocusHere(v, m)
<1>1. /\ c \in Mapped(desk) /\ Base(desk)
      /\ desk' = IF m = NoMon THEN u ELSE Arrange(h, m)
  BY DEF Unmap, Homed
<1>2. m \in Present(desk) \cup {NoMon}
  BY DEF Homed, LodgedAt
<1>3. Rehomed(desk, d) /\ d.col[c] = NoWs /\ d.mon = desk.mon
  BY <1>1, DetachMoves, HomedMoves
<1> HIDE DEF d
<1>4. Homed(d) /\ Base(d) /\ c \in Mapped(d) /\ Present(d) = Present(desk)
  BY <1>1, <1>3, PresentSame DEF Rehomed, Mapped, Homed
<1>5. /\ Base(l) /\ SameLists(d, l) /\ Mapped(l) = Mapped(d) \ {c} /\ l.mon = d.mon
      /\ l.col = d.col /\ l.selmon = d.selmon
  BY <1>4, UnlistDoes
<1> HIDE DEF l
<1>6. /\ Base(u) /\ SameLists(l, u) /\ u.clients = l.clients /\ u.selmon = l.selmon
      /\ u.mon[c] = NoMon /\ u.col[c] = NoWs
      /\ \A x \in Client \ {c} : u.mon[x] = l.mon[x] /\ u.col[x] = l.col[x]
  <2>1. CASE m = NoMon
    <3>1. u = l
      BY <1>3, <1>5, <2>1 DEF SetMon
    <3> QED
      BY <1>3, <1>5, <2>1, <3>1 DEF SameLists
  <2>2. CASE m # NoMon
    <3>1. Touches(l, u, c) /\ u.mon[c] = NoMon /\ u.col[c] = SentCol(l, c, NoMon)
      BY <1>3, <1>5, <2>2, SetMonDoes
    <3>2. u.selmon = l.selmon
      BY <1>5, PresentMon, SetMonSel
    <3> QED
      BY <3>1, <3>2 DEF Touches, Alike, SentCol
  <2> QED
    BY <2>1, <2>2
<1> HIDE DEF u
<1>7. Homed(u) /\ Present(u) = Present(desk) /\ Stays(desk, u)
  <2>1. Present(u) = Present(d) /\ Mapped(u) = Mapped(d) \ {c} /\ u.lit = d.lit
    BY <1>5, <1>6, PresentSame DEF SameLists, Mapped
  <2>2. Counted(u)
    BY <1>4, <1>5, <1>6, CountedSame DEF Homed
  <2>3. ASSUME NEW x \in Client PROVE LodgedAt(u, x)
    <3>1. LodgedAt(d, x)
      BY <1>4 DEF Homed
    <3> QED
      BY <1>5, <1>6, <2>1, <3>1 DEF LodgedAt
  <2>4. Homed(u)
    BY <1>4, <1>5, <1>6, <2>1, <2>2, <2>3 DEF Homed
  <2>5. u.lit = desk.lit
    BY <1>3, <2>1 DEF Rehomed, SameLists
  <2> QED
    BY <1>4, <2>1, <2>4, <2>5 DEF Stays
<1>8. CASE m = NoMon
  BY <1>1, <1>7, <1>8
<1>9. CASE m # NoMon
  <2>1. m \in Present(u)
    BY <1>2, <1>7, <1>9
  <2> HIDE DEF m
  <2>2. Lodged(u, v)
    BY <1>7, <2>1, HomedCompact
  <2> HIDE DEF v
  <2>3. Homed(v) /\ m \in Present(v)
    BY <2>1, <2>2 DEF Lodged, Stays
  <2>4. Quiet(v, h) /\ Chosen(v, h) /\ m \in Mon
    BY <2>3, SeenOf, FocusHereQuiet DEF Homed
  <2> HIDE DEF h
  <2>5. Rehomed(v, h)
    BY <2>3, <2>4, HomedChosen
  <2>6. Rehomed(h, Arrange(h, m))
    BY <2>4, <2>5, HomedArrange DEF Rehomed
  <2> QED
    BY <1>1, <1>7, <1>9, <2>2, <2>5, <2>6, StaysBy DEF Lodged
<1> QED
  BY <1>8, <1>9

\* Every handler of Workspaces but a hop home, which keeps all but the rows.
LEMMA DeskHomed ==
    ASSUME Homed(desk), NothingFreed, laid \in SUBSET Present(desk), DeskStep
    PROVE  \/ Stays(desk, desk')
           \/ Keeps(desk, desk') /\ \E d \in Dir : HopHome(d)
<1>1. Present(desk) \cup {desk.selmon} \in SUBSET (Present(desk) \cup {NoMon})
  BY DEF Homed
<1>2. ASSUME NEW c \in Client, Window(c) PROVE Stays(desk, desk')
  <2>1. ASSUME NEW m \in Present(desk) \cup {desk.selmon}, NEW float \in BOOLEAN,
               \/ InitialCommit(c, m, float)
               \/ \E tray \in BOOLEAN : MapWindow(c, m, float, tray)
               \/ MapLateGame(c, m, float)
        PROVE  Stays(desk, desk')
    BY <1>1, <2>1, InitialCommitHomed, MapWindowHomed, MapLateGameHomed
  <2>2. ASSUME NEW want \in BOOLEAN, FullscreenNotify(c, want) PROVE Stays(desk, desk')
    BY <2>2, HomedSetFullscreen, RehomedStays DEF FullscreenNotify
  <2>3. Alive(c) => Stays(desk, desk')
    BY <2>1, <2>2, MapGameHomed, ForgetHomed, ActivateHomed DEF Alive
  <2> QED
    BY <1>2, <2>3, UnmapHomed DEF Window
<1>3. ASSUME NEW d \in Dir, MoveColumnDir(laid, d)
      PROVE  Stays(desk, desk') \/ (Keeps(desk, desk') /\ HopHome(d))
  BY <1>3, MoveColumnHomed DEF HopHome
<1>4. ASSUME Rearrange(laid), ~ \E d \in Dir : MoveColumnDir(laid, d) PROVE Stays(desk, desk')
  BY <1>4, MoveToWsHomed, ToggleHomed DEF Rearrange
<1>5. ASSUME Refocus(laid) PROVE Stays(desk, desk')
  BY <1>5, FocusColumnHomed, FocusMonHomed, FocusStackHomed, PointerToHomed DEF Refocus
<1>6. ASSUME TagStep PROVE Stays(desk, desk')
  BY <1>6, TagMonHomed DEF TagStep
<1>7. ASSUME NEW c \in Client, OpenStep(c) PROVE Stays(desk, desk')
  BY <1>2, <1>7 DEF OpenStep
<1>8. \A c \in Mapped(desk) : c \in Client
  BY MappedOf DEF Homed
<1> QED
  BY <1>2, <1>3, <1>4, <1>5, <1>6, <1>7, <1>8, NavigateHomed DEF DeskStep

\* The rounds of the three loops of updatemons and closemon: a window moves, a
\* monitor is emptied, a monitor is arranged.
Step(l, t, i) ==
    IF l[1] = "move" THEN MoveOne(t, l[2], l[3][i])
    ELSE IF l[1] = "close" THEN CloseOne(t, l[2][i], l[2], l[3], l[4])
    ELSE ArrangeOne(t, l[2][i], l[3])

\* f lists the desks after the first n rounds of loop l.
Loop(l, f, s, n) == /\ f = [i \in 0..n |-> f[i]] /\ f[0] = s
                    /\ \A i \in 1..n : f[i] = Step(l, f[i - 1], i)

\* There is such a list for every n.
LEMMA LoopExists ==
    ASSUME NEW l, NEW s, NEW n \in Nat
    PROVE  \E f : Loop(l, f, s, n)
<1> DEFINE T == {k \in Nat : ~ \E f : Loop(l, f, s, k)}
<1>1. SUFFICES ASSUME T # {} PROVE FALSE
  OBVIOUS
<1>2. PICK k \in T : \A j \in T : k <= j
  <2>1. T \in SUBSET Nat
    OBVIOUS
  <2> HIDE DEF T
  <2> QED
    BY <1>1, <2>1, LeastNatural
<1>3. k \in Nat /\ ~ \E f : Loop(l, f, s, k)
  BY <1>2
<1>4. k # 0
  <2> DEFINE f == [i \in 0..0 |-> s]
  <2>1. f[0] = s /\ f = [i \in 0..0 |-> f[i]] /\ 1..0 = {}
    OBVIOUS
  <2> HIDE DEF f
  <2> QED
    BY <1>3, <2>1 DEF Loop
<1>5. k - 1 \in Nat /\ ~ (k <= k - 1)
  BY <1>3, <1>4
<1>6. PICK f : Loop(l, f, s, k - 1)
  BY <1>2, <1>5
<1> DEFINE g == [i \in 0..k |-> IF i = k THEN Step(l, f[k - 1], k) ELSE f[i]]
<1>7. /\ g = [i \in 0..k |-> g[i]] /\ g[k] = Step(l, f[k - 1], k)
      /\ \A i \in 0..(k - 1) : g[i] = f[i]
  BY <1>3
<1> HIDE DEF g
<1>8. g[0] = s
  <2>1. 0 \in 0..(k - 1)
    BY <1>5
  <2>2. f[0] = s
    BY <1>6 DEF Loop
  <2> QED
    BY <1>7, <2>1, <2>2
<1>9. ASSUME NEW i \in 1..k PROVE g[i] = Step(l, g[i - 1], i)
  <2>1. CASE i = k
    <3>1. k - 1 \in 0..(k - 1)
      BY <1>5
    <3> QED
      BY <1>7, <2>1, <3>1
  <2>2. CASE i # k
    <3>1. i \in 1..(k - 1) /\ i \in 0..(k - 1) /\ i - 1 \in 0..(k - 1)
      BY <1>3, <2>2
    <3> QED
      BY <1>6, <1>7, <3>1 DEF Loop
  <2> QED
    BY <2>1, <2>2
<1> QED
  BY <1>3, <1>7, <1>8, <1>9 DEF Loop

\* The loop of closemon goes down the list of windows.
LEMMA MoveRoundsLoop ==
    ASSUME NEW s, NEW m, Len(s.clients) \in Nat
    PROVE  LET f == MoveRounds(s, m) IN
           f[0] = s /\ \A i \in 1..Len(s.clients) : f[i] = MoveOne(f[i - 1], m, s.clients[i])
<1> DEFINE n == Len(s.clients)
           l == <<"move", m, s.clients>>
           Eq(f) == f = [i \in 0..n |-> IF i = 0 THEN s ELSE MoveOne(f[i - 1], m, s.clients[i])]
<1>1. ASSUME NEW t, NEW i PROVE Step(l, t, i) = MoveOne(t, m, s.clients[i])
  BY DEF Step
<1> HIDE DEF l
<1>2. PICK f : Loop(l, f, s, n)
  <2>1. n \in Nat
    OBVIOUS
  <2> HIDE DEF n
  <2> QED
    BY <2>1, LoopExists
<1>3. \A i \in 0..n : f[i] = IF i = 0 THEN s ELSE MoveOne(f[i - 1], m, s.clients[i])
  <2>1. f[0] = s /\ \A i \in 1..n : f[i] = Step(l, f[i - 1], i)
    BY <1>2 DEF Loop
  <2>2. \A i \in 0..n : i = 0 \/ i \in 1..n
    OBVIOUS
  <2> QED
    BY <1>1, <2>1, <2>2
<1>4. Eq(f)
  BY <1>2, <1>3 DEF Loop
<1>5. MoveRounds(s, m) = CHOOSE g : Eq(g)
  BY DEF MoveRounds
<1>6. Eq(MoveRounds(s, m))
  <2> HIDE DEF Eq
  <2> QED
    BY <1>4, <1>5
<1> DEFINE g == MoveRounds(s, m)
<1>7. \A i \in 0..n : g[i] = IF i = 0 THEN s ELSE MoveOne(g[i - 1], m, s.clients[i])
  <2>1. g = [i \in 0..n |-> IF i = 0 THEN s ELSE MoveOne(g[i - 1], m, s.clients[i])]
    BY <1>6
  <2> HIDE DEF g, n
  <2> QED
    BY <2>1
<1>8. 0 \in 0..n /\ \A i \in 1..n : i \in 0..n /\ i # 0
  OBVIOUS
<1> QED
  BY <1>7, <1>8

\* Windows go nowhere but from m to the selected monitor.
Goes(s, t, m) == \A x \in Client : \/ t.mon[x] = s.mon[x]
                                   \/ s.mon[x] = m /\ t.mon[x] = s.selmon

\* After i rounds the first i windows have left m.
Emptied(s, t, m, i) ==
    /\ Rehomed(s, t) /\ t.selmon = s.selmon /\ Goes(s, t, m)
    /\ s.selmon # m => \A j \in 1..i : t.mon[s.clients[j]] # m

\* One more window.
LEMMA OneEmptied ==
    ASSUME NEW s, Homed(s), NEW m, NEW i \in 1..Len(s.clients), NEW t, Emptied(s, t, m, i - 1)
    PROVE  Emptied(s, MoveOne(t, m, s.clients[i]), m, i)
<1> DEFINE c == s.clients[i]
           u == MoveOne(t, m, c)
<1> SUFFICES Emptied(s, u, m, i)
  OBVIOUS
<1>1. /\ Len(s.clients) \in Nat /\ c \in Mapped(s) /\ c \in Client
      /\ \A j \in 1..Len(s.clients) : s.clients[j] \in Client
  BY ListsPlaces, MappedOf DEF Homed, Base, Orders
<1>2. /\ Homed(t) /\ c \in Mapped(t) /\ t.selmon \in Present(t) \cup {NoMon}
      /\ t.selmon = s.selmon /\ Rehomed(s, t) /\ Goes(s, t, m)
  BY <1>1 DEF Emptied, Rehomed, Mapped, Homed
<1>3. \A j \in 1..i : j = i \/ j \in 1..(i - 1)
  BY <1>1
<1> HIDE DEF c
<1>4. CASE t.mon[c] # m
  <2>1. u = t
    BY <1>4 DEF MoveOne
  <2> HIDE DEF u
  <2>2. s.selmon # m => \A j \in 1..i : t.mon[s.clients[j]] # m
    BY <1>3, <1>4 DEF Emptied, c
  <2> QED
    BY <1>2, <2>1, <2>2 DEF Emptied
<1>5. CASE t.mon[c] = m
  <2>1. u = SetMon(t, c, t.selmon)
    BY <1>5 DEF MoveOne
  <2>2. /\ Rehomed(t, u) /\ u.selmon = t.selmon /\ u.mon[c] = t.selmon
        /\ \A x \in Client \ {c} : u.mon[x] = t.mon[x]
    BY <1>2, <2>1, HomedSetMon
  <2> HIDE DEF u
  <2>3. Rehomed(s, u) /\ u.selmon = s.selmon
    BY <1>2, <2>2, RehomedTwice
  <2>4. Goes(s, u, m)
    BY <1>1, <1>2, <1>5, <2>2 DEF Goes
  <2>5. ASSUME s.selmon # m, NEW j \in 1..i PROVE u.mon[s.clients[j]] # m
    <3>1. CASE s.clients[j] = c
      BY <1>2, <2>2, <2>5, <3>1
    <3>2. CASE s.clients[j] # c
      <4>1. j \in 1..(i - 1) /\ s.clients[j] \in Client
        BY <1>1, <1>3, <3>2 DEF c
      <4> QED
        BY <2>2, <2>5, <3>2, <4>1 DEF Emptied
    <3> QED
      BY <3>1, <3>2
  <2> QED
    BY <2>3, <2>4, <2>5 DEF Emptied
<1> QED
  BY <1>4, <1>5

\* After every round.
LEMMA MoveRoundsEmptied ==
    ASSUME NEW s, Homed(s), NEW m
    PROVE  Emptied(s, MoveRounds(s, m)[Len(s.clients)], m, Len(s.clients))
<1> DEFINE n == Len(s.clients)
           f == MoveRounds(s, m)
           T == {i \in 0..n : ~ Emptied(s, f[i], m, i)}
<1>1. n \in Nat
  BY ListsPlaces DEF Homed, Base, Orders
<1>2. f[0] = s /\ \A i \in 1..n : f[i] = MoveOne(f[i - 1], m, s.clients[i])
  BY <1>1, MoveRoundsLoop
<1> HIDE DEF f
<1>3. SUFFICES ASSUME T # {} PROVE FALSE
  BY <1>1 DEF f
<1>4. PICK k \in T : \A j \in T : k <= j
  <2>1. T \in SUBSET Nat
    BY <1>1
  <2> HIDE DEF T
  <2> QED
    BY <1>3, <2>1, LeastNatural
<1>5. k \in 0..n /\ ~ Emptied(s, f[k], m, k)
  BY <1>4
<1>6. Emptied(s, s, m, 0)
  BY RehomedNot DEF Emptied, Goes
<1>7. k # 0
  BY <1>2, <1>5, <1>6
<1>8. k - 1 \in 0..n /\ k \in 1..n /\ ~ (k <= k - 1)
  BY <1>1, <1>5, <1>7
<1>9. Emptied(s, f[k - 1], m, k - 1)
  BY <1>4, <1>8
<1>10. Emptied(s, MoveOne(f[k - 1], m, s.clients[k]), m, k)
  BY <1>8, <1>9, OneEmptied
<1> QED
  BY <1>2, <1>5, <1>8, <1>10

\* No window is left on m, unless that is where they go.
LEMMA HomedMoveAll ==
    ASSUME NEW s, Homed(s), NEW m
    PROVE  LET t == MoveAll(s, m)
           IN  /\ Rehomed(s, t) /\ t.selmon = s.selmon /\ Goes(s, t, m)
               /\ s.selmon # m => \A c \in Mapped(s) : t.mon[c] # m
<1> DEFINE n == Len(s.clients)
           r == MoveRounds(s, m)[n]
           t == MoveAll(s, m)
<1>1. Emptied(s, r, m, n)
  BY MoveRoundsEmptied
<1>2. t = FocusMostRecent(r)
  BY DEF MoveAll
<1> HIDE DEF r, t
<1>3. Rehomed(r, t) /\ t.selmon = r.selmon /\ t.mon = r.mon
  BY <1>1, <1>2, HomedMostRecent DEF Emptied, Rehomed
<1>4. \A c \in Mapped(s) : \E i \in 1..n : s.clients[i] = c
  BY ListsPlaces DEF Homed, Base, Orders
<1> HIDE DEF n
<1>5. Rehomed(s, t) /\ t.selmon = s.selmon
  BY <1>1, <1>3, RehomedTwice DEF Emptied
<1>6. Goes(s, t, m)
  BY <1>1, <1>3 DEF Emptied, Goes
<1> QED
  BY <1>1, <1>3, <1>4, <1>5, <1>6 DEF Emptied, t

\* Monitor m is not selected and no window is on it.
Deserted(s, m) == s.selmon # m /\ \A c \in Mapped(s) : s.mon[c] # m

\* m is one of the monitors P and is lit.
LitIn(s, P, m) == m \in P /\ s.lit[m]

\* Windows that do not go to m leave it as it is.
LEMMA DesertedStays ==
    ASSUME NEW s, NEW m, Deserted(s, m), NEW t, t.clients = s.clients, t.selmon # m,
           \A c \in Client : t.mon[c] = s.mon[c] \/ t.mon[c] # m, Homed(s)
    PROVE  Deserted(t, m)
<1>1. Mapped(t) = Mapped(s) /\ \A c \in Mapped(s) : c \in Client
  BY MappedOf DEF Mapped, Homed, Base
<1> QED
  BY <1>1 DEF Deserted

\* The first lit monitor of the list is one of them.
LEMMA FirstLitIn ==
    ASSUME NEW s, NEW q \in Listings, NEW P
    PROVE  FirstLit(s, q, P) \in {n \in P : s.lit[n]} \cup {NoMon}
<1> DEFINE I == {i \in 1..Len(q) : q[i] \in P /\ s.lit[q[i]]}
           i == IF I # {} THEN Min(I) ELSE 0
<1>1. Len(q) \in Nat
  <2>1. q \in Seq(Mon)
    <3>1. q \in [1..NMon -> Mon] /\ NMon \in Nat
      BY CountAssumption DEF Listings, Mon
    <3> QED
      BY <3>1, SeqDef
  <2> QED
    BY <2>1, LenProperties
<1>2. FirstLit(s, q, P) = IF i = 0 THEN NoMon ELSE q[i]
  BY DEF FirstLit, SelectInSeq
<1>3. I # {} => i \in I
  <2>1. I \in SUBSET Nat
    BY <1>1
  <2>2. I # {} => \E x \in I : \A y \in I : x <= y
    BY <2>1, LeastNatural
  <2> QED
    BY <2>2 DEF Min
<1> QED
  BY <1>2, <1>3

\* closemon empties a monitor that is not lit, and no other one that is not lit
\* gets a window by it.
LEMMA HomedCloseMon ==
    ASSUME NEW s, Homed(s), NEW m \in Mon, NEW q \in Listings, NEW P \in SUBSET Present(s)
    PROVE  LET t == CloseMon(s, m, q, P)
           IN  /\ Rehomed(s, t)
               /\ \A k \in Mon : ~ LitIn(s, P, k) /\ (k = m \/ Deserted(s, k)) => Deserted(t, k)
<1> DEFINE lit == {n \in P : s.lit[n]}
           x == FirstLit(s, q, P)
           r == [s EXCEPT !.selmon = x]
           u == IF m = s.selmon THEN r ELSE s
           t == CloseMon(s, m, q, P)
<1>1. x \in lit \cup {NoMon} /\ x \in Present(s) \cup {NoMon}
  BY FirstLitIn
<1>2. t = MoveAll(u, m)
  BY DEF CloseMon
<1> HIDE DEF x, t
<1>3. Rehomed(s, u) /\ u.mon = s.mon /\ (m = s.selmon => u.selmon = x)
      /\ (m # s.selmon => u.selmon = s.selmon)
  <2>1. Rehomed(s, r) /\ r.selmon = x /\ r.mon = s.mon
    BY <1>1, HomedSelect
  <2> HIDE DEF r
  <2> QED
    BY <2>1, RehomedNot
<1> HIDE DEF u
<1>4. /\ Rehomed(u, t) /\ t.selmon = u.selmon /\ Goes(u, t, m)
      /\ u.selmon # m => \A c \in Mapped(u) : t.mon[c] # m
  BY <1>2, <1>3, HomedMoveAll DEF Rehomed
<1>5. Rehomed(s, t)
  BY <1>3, <1>4, RehomedTwice
<1>6. ASSUME NEW k \in Mon, ~ LitIn(s, P, k), k = m \/ Deserted(s, k) PROVE Deserted(t, k)
  <2>1. k \notin lit /\ k # NoMon
    BY <1>6, PresentMon DEF LitIn
  <2>2. u.selmon # k
    BY <1>1, <1>3, <1>6, <2>1 DEF Deserted
  <2>3. CASE k = m
    BY <1>3, <1>4, <2>2, <2>3 DEF Deserted, Rehomed, Mapped
  <2>4. CASE k # m
    <3>1. Deserted(u, k) /\ Homed(u)
      BY <1>3, <1>6, <2>2, <2>4 DEF Deserted, Rehomed, Mapped
    <3>2. t.clients = u.clients /\ \A c \in Client : t.mon[c] = u.mon[c] \/ t.mon[c] # k
      BY <1>4, <2>2 DEF Goes, Rehomed
    <3> QED
      BY <1>4, <2>2, <3>1, <3>2, DesertedStays
  <2> QED
    BY <2>3, <2>4
<1> QED
  BY <1>5, <1>6 DEF t

\* The loop of updatemons that empties disabled monitors.
LEMMA CloseRoundsLoop ==
    ASSUME NEW s, NEW q, NEW P, NEW S
    PROVE  LET f == CloseRounds(s, q, P, S) IN
           f[0] = s /\ \A i \in 1..NMon : f[i] = CloseOne(f[i - 1], q[i], q, P, S)
<1> DEFINE l == <<"close", q, P, S>>
           Eq(f) == f = [i \in 0..NMon |-> IF i = 0 THEN s
                                           ELSE CloseOne(f[i - 1], q[i], q, P, S)]
<1>1. ASSUME NEW t, NEW i PROVE Step(l, t, i) = CloseOne(t, q[i], q, P, S)
  BY DEF Step
<1> HIDE DEF l
<1>2. PICK f : Loop(l, f, s, NMon)
  <2>1. NMon \in Nat
    BY CountAssumption
  <2> QED
    BY <2>1, LoopExists
<1>3. \A i \in 0..NMon : f[i] = IF i = 0 THEN s ELSE CloseOne(f[i - 1], q[i], q, P, S)
  <2>1. f[0] = s /\ \A i \in 1..NMon : f[i] = Step(l, f[i - 1], i)
    BY <1>2 DEF Loop
  <2>2. \A i \in 0..NMon : i = 0 \/ i \in 1..NMon
    BY CountAssumption
  <2> QED
    BY <1>1, <2>1, <2>2
<1>4. Eq(f)
  BY <1>2, <1>3 DEF Loop
<1>5. CloseRounds(s, q, P, S) = CHOOSE g : Eq(g)
  BY DEF CloseRounds
<1>6. Eq(CloseRounds(s, q, P, S))
  <2> HIDE DEF Eq
  <2> QED
    BY <1>4, <1>5
<1> DEFINE g == CloseRounds(s, q, P, S)
<1>7. \A i \in 0..NMon : g[i] = IF i = 0 THEN s ELSE CloseOne(g[i - 1], q[i], q, P, S)
  <2>1. g = [i \in 0..NMon |-> IF i = 0 THEN s ELSE CloseOne(g[i - 1], q[i], q, P, S)]
    BY <1>6
  <2> HIDE DEF g
  <2> QED
    BY <2>1
<1>8. 0 \in 0..NMon /\ \A i \in 1..NMon : i \in 0..NMon /\ i # 0
  BY CountAssumption
<1> QED
  BY <1>7, <1>8

\* The loop that arranges the lit ones.
LEMMA ArrangeRoundsLoop ==
    ASSUME NEW s, NEW q, NEW P
    PROVE  LET f == ArrangeRounds(s, q, P) IN
           f[0] = s /\ \A i \in 1..NMon : f[i] = ArrangeOne(f[i - 1], q[i], P)
<1> DEFINE l == <<"arrange", q, P>>
           Eq(f) == f = [i \in 0..NMon |-> IF i = 0 THEN s
                                           ELSE ArrangeOne(f[i - 1], q[i], P)]
<1>1. ASSUME NEW t, NEW i PROVE Step(l, t, i) = ArrangeOne(t, q[i], P)
  BY DEF Step
<1> HIDE DEF l
<1>2. PICK f : Loop(l, f, s, NMon)
  <2>1. NMon \in Nat
    BY CountAssumption
  <2> QED
    BY <2>1, LoopExists
<1>3. \A i \in 0..NMon : f[i] = IF i = 0 THEN s ELSE ArrangeOne(f[i - 1], q[i], P)
  <2>1. f[0] = s /\ \A i \in 1..NMon : f[i] = Step(l, f[i - 1], i)
    BY <1>2 DEF Loop
  <2>2. \A i \in 0..NMon : i = 0 \/ i \in 1..NMon
    BY CountAssumption
  <2> QED
    BY <1>1, <2>1, <2>2
<1>4. Eq(f)
  BY <1>2, <1>3 DEF Loop
<1>5. ArrangeRounds(s, q, P) = CHOOSE g : Eq(g)
  BY DEF ArrangeRounds
<1>6. Eq(ArrangeRounds(s, q, P))
  <2> HIDE DEF Eq
  <2> QED
    BY <1>4, <1>5
<1> DEFINE g == ArrangeRounds(s, q, P)
<1>7. \A i \in 0..NMon : g[i] = IF i = 0 THEN s ELSE ArrangeOne(g[i - 1], q[i], P)
  <2>1. g = [i \in 0..NMon |-> IF i = 0 THEN s ELSE ArrangeOne(g[i - 1], q[i], P)]
    BY <1>6
  <2> HIDE DEF g
  <2> QED
    BY <2>1
<1>8. 0 \in 0..NMon /\ \A i \in 1..NMon : i \in 0..NMon /\ i # 0
  BY CountAssumption
<1> QED
  BY <1>7, <1>8

\* The first i rounds of a loop over the monitors came by k.
Done(q, k, i) == \E j \in 1..i : q[j] = k

\* After i rounds the first i monitors are empty if they are disabled, and those
\* not lit that were empty still are.
Darkened(s, t, q, P, S, i) ==
    /\ Rehomed(s, t)
    /\ \A k \in Mon :
         ~ LitIn(s, P, k) /\ (Deserted(s, k) \/ (k \in P \ S /\ Done(q, k, i)))
         => Deserted(t, k)

\* One more round.
LEMMA OneDarkened ==
    ASSUME NEW s, Homed(s), NEW q \in Listings, NEW P \in SUBSET Present(s), NEW S, NEW i \in 1..NMon,
           NEW t, Darkened(s, t, q, P, S, i - 1)
    PROVE  Darkened(s, CloseOne(t, q[i], q, P, S), q, P, S, i)
<1> DEFINE m == q[i]
           u == CloseOne(t, m, q, P, S)
<1>1. /\ m \in Mon
      /\ \A k \in Mon : Done(q, k, i) => k = m \/ Done(q, k, i - 1)
  <2>1. NMon \in Nat /\ \A j \in 1..i : j = i \/ j \in 1..(i - 1)
    BY CountAssumption
  <2> QED
    BY <2>1 DEF Listings, Mon, Done
<1> SUFFICES Darkened(s, u, q, P, S, i)
  OBVIOUS
<1>2. /\ Homed(t) /\ Rehomed(s, t) /\ t.lit = s.lit /\ P \in SUBSET Present(t)
      /\ P \in SUBSET Mon
  BY PresentSame, PresentMon DEF Darkened, Rehomed, SameLists
<1> HIDE DEF m
<1>3. CASE m \notin P \/ t.lit[m] \/ m \in S
  <2>1. u = t
    BY <1>3 DEF CloseOne
  <2> HIDE DEF u
  <2>2. ASSUME NEW k \in Mon, ~ LitIn(s, P, k),
               Deserted(s, k) \/ (k \in P \ S /\ Done(q, k, i))
        PROVE  Deserted(s, k) \/ (k \in P \ S /\ Done(q, k, i - 1))
    <3>1. k \in P \ S => k # m
      BY <1>2, <1>3, <2>2 DEF LitIn
    <3> QED
      BY <1>1, <2>2, <3>1
  <2>3. ASSUME NEW k \in Mon, ~ LitIn(s, P, k),
               Deserted(s, k) \/ (k \in P \ S /\ Done(q, k, i))
        PROVE  Deserted(u, k)
    BY <2>1, <2>2, <2>3 DEF Darkened
  <2>4. Rehomed(s, u)
    BY <1>2, <2>1
  <2> QED
    BY <2>3, <2>4, Zenon DEF Darkened
<1>4. CASE ~ (m \notin P \/ t.lit[m] \/ m \in S)
  <2>1. u = CloseMon(t, m, q, P)
    BY <1>4 DEF CloseOne
  <2>2. /\ Rehomed(t, u)
        /\ \A k \in Mon : ~ LitIn(t, P, k) /\ (k = m \/ Deserted(t, k)) => Deserted(u, k)
    BY <1>1, <1>2, <2>1, HomedCloseMon
  <2> HIDE DEF u
  <2>3. ASSUME NEW k \in Mon, ~ LitIn(s, P, k),
               Deserted(s, k) \/ (k \in P \ S /\ Done(q, k, i))
        PROVE  Deserted(u, k)
    <3>1. ~ LitIn(t, P, k)
      BY <1>2, <2>3 DEF LitIn
    <3>2. k = m \/ Deserted(s, k) \/ (k \in P \ S /\ Done(q, k, i - 1))
      BY <1>1, <2>3
    <3>3. k = m \/ Deserted(t, k)
      BY <2>3, <3>2 DEF Darkened
    <3> QED
      BY <2>2, <3>1, <3>3
  <2>4. Rehomed(s, u)
    BY <1>2, <2>2, RehomedTwice
  <2> QED
    BY <2>3, <2>4, Zenon DEF Darkened
<1> QED
  BY <1>3, <1>4

\* Every disabled monitor that is not asleep is empty after the loop.
LEMMA HomedCloseDark ==
    ASSUME NEW s, Homed(s), NEW q \in Listings, NEW P \in SUBSET Present(s), NEW S
    PROVE  LET t == CloseDark(s, q, P, S)
           IN  /\ Rehomed(s, t)
               /\ \A k \in Mon : ~ LitIn(s, P, k) /\ (Deserted(s, k) \/ k \in P \ S)
                                  => Deserted(t, k)
<1> DEFINE f == CloseRounds(s, q, P, S)
           T == {i \in 0..NMon : ~ Darkened(s, f[i], q, P, S, i)}
<1>1. NMon \in Nat
  BY CountAssumption
<1>2. f[0] = s /\ \A i \in 1..NMon : f[i] = CloseOne(f[i - 1], q[i], q, P, S)
  BY CloseRoundsLoop
<1>3. CloseDark(s, q, P, S) = f[NMon]
  BY DEF CloseDark
<1> HIDE DEF f
<1>4. T = {}
  <2>1. SUFFICES ASSUME T # {} PROVE FALSE
    OBVIOUS
  <2>2. PICK k \in T : \A j \in T : k <= j
    <3>1. T \in SUBSET Nat
      BY <1>1
    <3> HIDE DEF T
    <3> QED
      BY <2>1, <3>1, LeastNatural
  <2>3. k \in 0..NMon /\ ~ Darkened(s, f[k], q, P, S, k)
    BY <2>2
  <2>4. Darkened(s, s, q, P, S, 0)
    <3>1. \A m \in Mon : ~ Done(q, m, 0)
      BY DEF Done
    <3> QED
      BY <3>1, RehomedNot DEF Darkened
  <2>5. k # 0
    BY <1>2, <2>3, <2>4
  <2>6. k - 1 \in 0..NMon /\ k \in 1..NMon /\ ~ (k <= k - 1)
    BY <1>1, <2>3, <2>5
  <2>7. Darkened(s, f[k - 1], q, P, S, k - 1)
    BY <2>2, <2>6
  <2>8. Darkened(s, CloseOne(f[k - 1], q[k], q, P, S), q, P, S, k)
    BY <2>6, <2>7, OneDarkened
  <2> QED
    BY <1>2, <2>3, <2>6, <2>8
<1>5. Darkened(s, f[NMon], q, P, S, NMon)
  BY <1>1, <1>4
<1>6. \A k \in Mon : Done(q, k, NMon)
  BY DEF Done, Listings, Mon
<1> QED
  BY <1>3, <1>5, <1>6 DEF Darkened

\* Windows that remember a lit monitor are handed back to it.
LEMMA HomedRestore ==
    ASSUME NEW s, Homed(s), NEW P \in SUBSET Present(s), NEW out
    PROVE  LET t == Restore(s, out, P)
           IN  /\ Rehomed(s, t)
               /\ \A c \in Mapped(s) : LitIn(s, P, out[c]) => t.mon[c] = out[c]
               /\ \A k \in Mon : ~ LitIn(s, P, k) /\ Deserted(s, k) => Deserted(t, k)
<1> DEFINE t == Restore(s, out, P)
           back(c) == IF c \in Mapped(s) /\ out[c] \in P /\ s.lit[out[c]]
                      THEN out[c] ELSE s.mon[c]
<1>1. s \in Desk /\ Shaped(s) /\ Base(s) /\ P \in SUBSET Mon
  BY DeskShaped, PresentMon DEF Homed, Base
<1>2. Shaped(t)
  BY <1>1 DEF Shaped, Fields, Restore
<1>3. /\ t.owner = s.owner /\ t.idx = s.idx /\ t.next = s.next /\ t.active = s.active
      /\ t.prev = s.prev /\ t.lit = s.lit /\ t.row = s.row /\ t.focused = s.focused
      /\ t.col = s.col /\ t.fs_ws = s.fs_ws /\ t.full = s.full /\ t.float = s.float
      /\ t.clients = s.clients /\ t.fstack = s.fstack /\ t.kb = s.kb /\ t.selmon = s.selmon
      /\ t.mon = [c \in Client |-> back(c)]
  BY <1>1 DEF Desk, Restore
<1> HIDE DEF t
<1>4. \A c \in Client : s.mon[c] \in Mon \cup {NoMon}
  BY <1>1, DeskTyped
<1>5. t.mon \in [Client -> Mon \cup {NoMon}]
  BY <1>1, <1>3, <1>4
<1>6. t \in Desk
  BY <1>1, <1>2, <1>3, <1>5, DeskTyped, ShapedDesk
<1>7. Base(t) /\ SameLists(s, t)
  <2>1. SameLists(s, t)
    BY <1>3 DEF SameLists
  <2> QED
    BY <1>1, <1>3, <1>6, <2>1, BaseKept
<1>8. Rehomed(s, t)
  <2>1. t.selmon \in Present(s) \cup {NoMon} /\ t.clients = s.clients
    BY <1>3 DEF Homed
  <2>2. ASSUME NEW c \in Client PROVE t.mon[c] \in Present(s) \cup {NoMon}
    BY <1>3 DEF Homed, LodgedAt
  <2>3. ASSUME NEW c \in Client, c \notin Mapped(s)
        PROVE  t.mon[c] = NoMon /\ t.col[c] = NoWs
    BY <1>3, <2>3 DEF Homed, LodgedAt
  <2> QED
    BY <1>7, <2>1, <2>2, <2>3, HomedBy
<1>9. \A c \in Mapped(s) : c \in Client
  BY <1>1, MappedOf
<1>10. \A c \in Mapped(s) : LitIn(s, P, out[c]) => t.mon[c] = out[c]
  BY <1>3, <1>9 DEF LitIn
<1>11. ASSUME NEW k \in Mon, ~ LitIn(s, P, k), Deserted(s, k) PROVE Deserted(t, k)
  <2>1. \A c \in Client : t.mon[c] = s.mon[c] \/ t.mon[c] # k
    BY <1>3, <1>11 DEF LitIn
  <2>2. t.clients = s.clients /\ t.selmon # k
    BY <1>3, <1>11 DEF Deserted
  <2> QED
    BY <1>11, <2>1, <2>2, DesertedStays
<1> QED
  BY <1>8, <1>10, <1>11 DEF t

\* One monitor is arranged, and selected if none is: the windows stay where
\* they are, and a monitor that is not lit is not selected by it.
LEMMA OneArranged ==
    ASSUME NEW s, Homed(s), NEW P \in SUBSET Present(s), NEW m \in Mon
    PROVE  LET t == ArrangeOne(s, m, P)
           IN  /\ Rehomed(s, t) /\ t.mon = s.mon
               /\ t.selmon = s.selmon \/ LitIn(s, P, t.selmon)
<1> DEFINE u == Arrange(s, m)
           t == ArrangeOne(s, m, P)
<1>1. CASE m \notin P
  BY <1>1, RehomedNot DEF ArrangeOne
<1>2. CASE m \in P
  <2>1. Rehomed(s, u) /\ u.selmon = s.selmon /\ u.mon = s.mon
    BY HomedArrange
  <2>2. t = Select(u, m)
    BY <1>2 DEF ArrangeOne
  <2> HIDE DEF u, t
  <2>3. Homed(u) /\ m \in Present(u) /\ u.lit = s.lit
    BY <1>2, <2>1, PresentSame DEF Rehomed, SameLists
  <2>4. CASE u.lit[m] /\ u.selmon = NoMon
    <3>1. t = [u EXCEPT !.selmon = m]
      BY <2>2, <2>4 DEF Select
    <3>2. Rehomed(u, t) /\ t.selmon = m /\ t.mon = u.mon
      BY <2>3, <3>1, HomedSelect
    <3>3. LitIn(s, P, t.selmon)
      BY <1>2, <2>3, <2>4, <3>2 DEF LitIn
    <3>4. Rehomed(s, t)
      BY <2>1, <3>2, RehomedTwice
    <3> QED
      BY <2>1, <3>2, <3>3, <3>4 DEF t
  <2>5. CASE ~ (u.lit[m] /\ u.selmon = NoMon)
    <3>1. t = u
      BY <2>2, <2>5 DEF Select
    <3> QED
      BY <2>1, <3>1 DEF t
  <2> QED
    BY <2>4, <2>5
<1> QED
  BY <1>1, <1>2

\* After any number of rounds.
Arranged(s, t, P) == /\ Rehomed(s, t) /\ t.mon = s.mon
                     /\ t.selmon = s.selmon \/ LitIn(s, P, t.selmon)

\* After every round.
LEMMA HomedArrangeLit ==
    ASSUME NEW s, Homed(s), NEW q \in Listings, NEW P \in SUBSET Present(s)
    PROVE  Arranged(s, ArrangeLit(s, q, P), P)
<1> DEFINE f == ArrangeRounds(s, q, P)
           T == {i \in 0..NMon : ~ Arranged(s, f[i], P)}
<1>1. NMon \in Nat
  BY CountAssumption
<1>2. f[0] = s /\ \A i \in 1..NMon : f[i] = ArrangeOne(f[i - 1], q[i], P)
  BY ArrangeRoundsLoop
<1>3. ArrangeLit(s, q, P) = f[NMon]
  BY DEF ArrangeLit
<1> HIDE DEF f
<1>4. T = {}
  <2>1. SUFFICES ASSUME T # {} PROVE FALSE
    OBVIOUS
  <2>2. PICK k \in T : \A j \in T : k <= j
    <3>1. T \in SUBSET Nat
      BY <1>1
    <3> HIDE DEF T
    <3> QED
      BY <2>1, <3>1, LeastNatural
  <2>3. k \in 0..NMon /\ ~ Arranged(s, f[k], P)
    BY <2>2
  <2>4. Arranged(s, s, P)
    BY RehomedNot DEF Arranged
  <2>5. k # 0
    BY <1>2, <2>3, <2>4
  <2>6. k - 1 \in 0..NMon /\ k \in 1..NMon /\ ~ (k <= k - 1)
    BY <1>1, <2>3, <2>5
  <2> DEFINE u == f[k - 1]
             t == ArrangeOne(u, q[k], P)
  <2>7. Arranged(s, u, P)
    BY <2>2, <2>6
  <2> HIDE DEF u
  <2>8. Homed(u) /\ P \in SUBSET Present(u) /\ q[k] \in Mon /\ u.lit = s.lit
    <3>1. q[k] \in Mon
      BY <1>1, <2>6 DEF Mon, Listings
    <3> QED
      BY <2>7, <3>1, PresentSame DEF Arranged, Rehomed, SameLists
  <2>9. /\ Rehomed(u, t) /\ t.mon = u.mon
        /\ t.selmon = u.selmon \/ LitIn(u, P, t.selmon)
    BY <2>8, OneArranged
  <2>10. f[k] = t
    BY <1>2, <2>6 DEF u
  <2> HIDE DEF t
  <2>11. Rehomed(s, t)
    BY <2>7, <2>9, RehomedTwice DEF Arranged
  <2> QED
    BY <2>3, <2>7, <2>8, <2>9, <2>10, <2>11 DEF Arranged, LitIn
<1> QED
  BY <1>1, <1>3, <1>4

\* Windows without a monitor go to the selected one if it is lit.
LEMMA HomedAdopt ==
    ASSUME NEW s, Homed(s)
    PROVE  LET t == AdoptLost(s)
           IN  /\ Rehomed(s, t) /\ t.selmon = s.selmon
               /\ \A c \in Client : \/ t.mon[c] = s.mon[c]
                                    \/ s.mon[c] = NoMon /\ t.mon[c] = s.selmon
<1>1. CASE s.selmon # NoMon /\ s.lit[s.selmon]
  BY <1>1, HomedMoveAll DEF AdoptLost, Goes
<1>2. CASE ~ (s.selmon # NoMon /\ s.lit[s.selmon])
  BY <1>2, RehomedNot DEF AdoptLost
<1> QED
  BY <1>1, <1>2

\* updatemons: every window is on a monitor of the list or on none, those that
\* remember a lit monitor are on it, and none is on a disabled one that is not
\* asleep or was empty before.
LEMMA HomedUpdate ==
    ASSUME NEW s, Homed(s), NEW q \in Listings, NEW P \in SUBSET Present(s), NEW S, NEW out
    PROVE  LET t == UpdateMons(s, out, q, P, S)
           IN  /\ Rehomed(s, t)
               /\ \A c \in Mapped(s) : LitIn(s, P, out[c]) => t.mon[c] = out[c]
               /\ \A k \in Mon : ~ LitIn(s, P, k) /\ (Deserted(s, k) \/ k \in P \ S)
                                  => Deserted(t, k)
<1> DEFINE d == CloseDark(s, q, P, S)
           r == Restore(d, out, P)
           a == ArrangeLit(r, q, P)
           t == AdoptLost(a)
<1>1. UpdateMons(s, out, q, P, S) = t
  BY DEF UpdateMons
<1>2. /\ Rehomed(s, d)
      /\ \A k \in Mon : ~ LitIn(s, P, k) /\ (Deserted(s, k) \/ k \in P \ S) => Deserted(d, k)
  BY HomedCloseDark
<1> HIDE DEF d
<1>3. /\ Homed(d) /\ P \in SUBSET Present(d) /\ d.lit = s.lit /\ Mapped(d) = Mapped(s)
      /\ P \in SUBSET Mon
  BY <1>2, PresentSame, PresentMon DEF Rehomed, SameLists, Mapped
<1>4. /\ Rehomed(d, r)
      /\ \A c \in Mapped(d) : LitIn(d, P, out[c]) => r.mon[c] = out[c]
      /\ \A k \in Mon : ~ LitIn(d, P, k) /\ Deserted(d, k) => Deserted(r, k)
  BY <1>3, HomedRestore
<1> HIDE DEF r
<1>5. /\ Homed(r) /\ P \in SUBSET Present(r) /\ r.lit = s.lit /\ r.clients = s.clients
      /\ Rehomed(s, r) /\ Mapped(r) = Mapped(s)
  <2>1. Rehomed(s, r)
    BY <1>2, <1>4, RehomedTwice
  <2> QED
    BY <2>1, PresentSame DEF Rehomed, SameLists, Mapped
<1>6. Arranged(r, a, P)
  BY <1>5, HomedArrangeLit
<1> HIDE DEF a
<1>7. Homed(a) /\ a.lit = s.lit /\ Rehomed(r, a) /\ a.clients = r.clients
  BY <1>5, <1>6 DEF Arranged, Rehomed, SameLists
<1>8. /\ Rehomed(a, t) /\ t.selmon = a.selmon
      /\ \A c \in Client : \/ t.mon[c] = a.mon[c]
                           \/ a.mon[c] = NoMon /\ t.mon[c] = a.selmon
  BY <1>7, HomedAdopt
<1> HIDE DEF t
<1>9. Rehomed(s, t)
  BY <1>5, <1>7, <1>8, RehomedTwice
<1>10. ASSUME NEW c \in Mapped(s), LitIn(s, P, out[c]) PROVE t.mon[c] = out[c]
  <2>1. c \in Client /\ out[c] # NoMon
    BY <1>3, <1>10, MappedOf, PresentMon DEF Homed, LitIn
  <2>2. a.mon[c] = out[c]
    BY <1>3, <1>4, <1>6, <1>10 DEF LitIn, Arranged
  <2> QED
    BY <1>8, <2>1, <2>2
<1>11. ASSUME NEW k \in Mon, ~ LitIn(s, P, k), Deserted(s, k) \/ k \in P \ S
       PROVE  Deserted(t, k)
  <2>1. Deserted(r, k)
    BY <1>2, <1>3, <1>4, <1>11 DEF LitIn
  <2>2. a.selmon # k /\ a.mon = r.mon
    BY <1>5, <1>6, <1>11, <2>1 DEF Arranged, LitIn, Deserted
  <2>3. \A c \in Client : t.mon[c] = r.mon[c] \/ t.mon[c] # k
    BY <1>8, <2>2
  <2>4. t.clients = r.clients
    BY <1>7, <1>8 DEF Rehomed
  <2> QED
    BY <1>5, <1>8, <2>1, <2>2, <2>3, <2>4, DesertedStays
<1> QED
  BY <1>1, <1>9, <1>10, <1>11

\* What cleanupmon does to the fields of the desk when it frees the workspaces
\* of m.
FreedFields(s, t, m, D) ==
    /\ t.mon = s.mon /\ t.full = s.full /\ t.float = s.float /\ t.clients = s.clients
    /\ t.fstack = s.fstack /\ t.kb = s.kb /\ t.selmon = s.selmon
    /\ t.owner = [w \in Ws |-> IF w \in D THEN NoMon ELSE s.owner[w]]
    /\ t.idx = [w \in Ws |-> IF w \in D THEN 0 ELSE s.idx[w]]
    /\ t.row = [w \in Ws |-> IF w \in D THEN <<>> ELSE s.row[w]]
    /\ t.focused = [w \in Ws |-> IF w \in D THEN NoClient ELSE s.focused[w]]
    /\ t.col = [c \in Client |-> IF s.col[c] \in D THEN NoWs ELSE s.col[c]]
    /\ t.fs_ws = [c \in Client |-> IF s.fs_ws[c] \in D /\ c \in Mapped(s) THEN NoWs
                                   ELSE s.fs_ws[c]]
    /\ t.active = [p \in Mon |-> IF p = m \/ s.active[p] \in D \cap Own(s, p) THEN NoWs
                                 ELSE s.active[p]]
    /\ t.prev = [p \in Mon |-> IF p = m \/ s.prev[p] \in D \cap Own(s, p) THEN NoWs
                               ELSE s.prev[p]]
    /\ t.next = [s.next EXCEPT ![m] = 0] /\ t.lit = [s.lit EXCEPT ![m] = FALSE]

\* It does this and nothing else.
LEMMA FreeAllFields ==
    ASSUME NEW s \in Desk, NEW m \in Mon
    PROVE  Shaped(FreeAll(s, m)) /\ FreedFields(s, FreeAll(s, m), m, Own(s, m))
<1> DEFINE D == Own(s, m)
           d == Destroy(s, D)
           t == FreeAll(s, m)
<1>1. Shaped(s)
  BY DeskShaped
<1>2. t = [d EXCEPT !.active[m] = NoWs, !.prev[m] = NoWs,
                      !.next[m] = 0, !.lit[m] = FALSE]
  BY DEF FreeAll
<1> HIDE DEF D, t
<1>3. Shaped(d)
  BY <1>1, DestroyShaped
<1>4. /\ d.next = s.next /\ d.lit = s.lit /\ d.mon = s.mon /\ d.full = s.full
      /\ d.float = s.float /\ d.clients = s.clients /\ d.fstack = s.fstack /\ d.kb = s.kb
      /\ d.selmon = s.selmon
      /\ d.owner = [w \in Ws |-> IF w \in D THEN NoMon ELSE s.owner[w]]
      /\ d.idx = [w \in Ws |-> IF w \in D THEN 0 ELSE s.idx[w]]
      /\ d.row = [w \in Ws |-> IF w \in D THEN <<>> ELSE s.row[w]]
      /\ d.focused = [w \in Ws |-> IF w \in D THEN NoClient ELSE s.focused[w]]
      /\ d.col = [c \in Client |-> IF s.col[c] \in D THEN NoWs ELSE s.col[c]]
      /\ d.fs_ws = [c \in Client |-> IF s.fs_ws[c] \in D /\ c \in Mapped(s) THEN NoWs
                                     ELSE s.fs_ws[c]]
      /\ d.active = [p \in Mon |-> IF s.active[p] \in D \cap Own(s, p) THEN NoWs
                                   ELSE s.active[p]]
      /\ d.prev = [p \in Mon |-> IF s.prev[p] \in D \cap Own(s, p) THEN NoWs ELSE s.prev[p]]
  BY <1>1 DEF Destroy, Desk
<1> HIDE DEF d
<1>5. Shaped(t)
  BY <1>2, <1>3 DEF Shaped, Fields
<1>6. /\ t.mon = d.mon /\ t.full = d.full
      /\ t.prev = [d.prev EXCEPT ![m] = NoWs] /\ t.active = [d.active EXCEPT ![m] = NoWs]
      /\ t.float = d.float /\ t.clients = d.clients /\ t.fstack = d.fstack /\ t.kb = d.kb
      /\ t.selmon = d.selmon /\ t.owner = d.owner /\ t.row = d.row /\ t.idx = d.idx
      /\ t.focused = d.focused /\ t.col = d.col /\ t.fs_ws = d.fs_ws
      /\ t.next = [d.next EXCEPT ![m] = 0] /\ t.lit = [d.lit EXCEPT ![m] = FALSE]
  BY <1>2, <1>3 DEF Shaped, Fields
<1>7. /\ t.active = [p \in Mon |-> IF p = m \/ s.active[p] \in D \cap Own(s, p) THEN NoWs
                                   ELSE s.active[p]]
      /\ t.prev = [p \in Mon |-> IF p = m \/ s.prev[p] \in D \cap Own(s, p) THEN NoWs
                                 ELSE s.prev[p]]
  <2>1. /\ t.active = [p \in Mon |-> IF p = m THEN NoWs ELSE d.active[p]]
        /\ t.prev = [p \in Mon |-> IF p = m THEN NoWs ELSE d.prev[p]]
    BY <1>4, <1>6
  <2>2. \A p \in Mon :
          /\ d.active[p] = IF s.active[p] \in D \cap Own(s, p) THEN NoWs ELSE s.active[p]
          /\ d.prev[p] = IF s.prev[p] \in D \cap Own(s, p) THEN NoWs ELSE s.prev[p]
    BY <1>4
  <2> QED
    BY <2>1, <2>2
<1>8. FreedFields(s, t, m, D)
  BY <1>4, <1>6, <1>7 DEF FreedFields
<1> QED
  BY <1>5, <1>8 DEF t, D

\* The rows of freed workspaces are empty, the others as they were.
LEMMA FreeAllBase ==
    ASSUME NEW s, Base(s), NEW m \in Mon
    PROVE  Base(FreeAll(s, m))
<1> DEFINE D == Own(s, m)
           t == FreeAll(s, m)
<1>1. s \in Desk /\ NoMon \notin Mon /\ NoWs \notin Ws
  BY NullAssumption DEF Base, Mon, NoMon
<1>2. Shaped(t) /\ FreedFields(s, t, m, D)
  BY <1>1, FreeAllFields
<1>3. D \in SUBSET Ws
  BY DEF Own
<1> HIDE DEF t, D
<1>4. t \in Desk
  <2>1. t.owner \in [Ws -> Mon \cup {NoMon}] /\ t.idx \in [Ws -> Int]
    BY <1>1, <1>2, DeskTyped DEF FreedFields
  <2>2. t.next \in [Mon -> Int] /\ t.lit \in [Mon -> BOOLEAN]
    BY <1>1, <1>2, DeskTyped DEF FreedFields
  <2>3. t.row \in [Ws -> Seq(Client)] /\ t.focused \in [Ws -> Client \cup {NoClient}]
    <3>1. s.row \in [Ws -> Seq(Client)] /\ s.focused \in [Ws -> Client \cup {NoClient}]
      BY <1>1, DeskTyped
    <3>2. <<>> \in Seq(Client)
      BY EmptySeq
    <3> QED
      BY <1>2, <3>1, <3>2 DEF FreedFields
  <2>4. t.col \in [Client -> Ws \cup {NoWs}] /\ t.fs_ws \in [Client -> Ws \cup {NoWs}]
    BY <1>1, <1>2, DeskTyped DEF FreedFields
  <2>5. t.active \in [Mon -> Ws \cup {NoWs}] /\ t.prev \in [Mon -> Ws \cup {NoWs}]
    BY <1>1, <1>2, DeskTyped DEF FreedFields
  <2>6. /\ t.mon \in [Client -> Mon \cup {NoMon}] /\ t.full \in [Client -> BOOLEAN]
        /\ t.float \in [Client -> BOOLEAN] /\ t.clients \in Seq(Client)
        /\ t.fstack \in Seq(Client) /\ t.kb \in Client \cup {NoClient}
        /\ t.selmon \in Mon \cup {NoMon}
    BY <1>1, <1>2, DeskTyped DEF FreedFields
  <2> QED
    BY <1>2, <2>1, <2>2, <2>3, <2>4, <2>5, <2>6, ShapedDesk
<1>5. Orders(t)
  BY <1>2 DEF Orders, Mapped, FreedFields, Base
<1>6. ASSUME NEW w \in Ws PROVE RowOK(t, w)
  <2>1. CASE w \in D
    <3>1. InRow(t, w) = {}
      BY <1>1, <1>2, <2>1 DEF InRow, FreedFields
    <3>2. t.row[w] = <<>> /\ t.focused[w] = NoClient
      BY <1>2, <2>1 DEF FreedFields
    <3>3. Lists(<<>>, {})
      BY EmptySeq DEF Lists, IsInjective, ToSet
    <3> QED
      BY <3>1, <3>2, <3>3 DEF RowOK
  <2>2. CASE w \notin D
    <3>1. InRow(t, w) = InRow(s, w)
      BY <1>1, <1>2, <2>2 DEF InRow, FreedFields
    <3>2. t.row[w] = s.row[w] /\ t.focused[w] = s.focused[w]
      BY <1>2, <2>2 DEF FreedFields
    <3> QED
      BY <3>1, <3>2 DEF RowOK, Base, Rows
  <2> QED
    BY <2>1, <2>2
<1> QED
  BY <1>4, <1>5, <1>6 DEF Base, Rows, t

\* A monitor without windows that is not selected can lose its workspaces.
LEMMA HomedFreeAll ==
    ASSUME NEW s, Homed(s), NEW m \in Mon, Deserted(s, m)
    PROVE  LET t == FreeAll(s, m)
           IN  /\ Homed(t) /\ Present(s) \ {m} \in SUBSET Present(t) /\ t.clients = s.clients
               /\ \A p \in Mon : t.lit[p] => p # m /\ s.lit[p]
<1> DEFINE D == Own(s, m)
           t == FreeAll(s, m)
<1>1. Base(s) /\ s \in Desk /\ NoMon \notin Mon
  BY DEF Homed, Base, Mon, NoMon
<1>2. Base(t) /\ FreedFields(s, t, m, D)
  BY <1>1, FreeAllBase, FreeAllFields
<1>3. \A p \in Mon : p # m => D \cap Own(s, p) = {}
  BY DEF Own
<1>4. \A p \in Mon : Own(t, p) = IF p = m THEN {} ELSE Own(s, p)
  BY <1>1, <1>2 DEF Own, FreedFields
<1>5. D \in SUBSET Ws
  BY DEF Own
<1> HIDE DEF D, t
<1>6. Present(s) \ {m} \in SUBSET Present(t)
  BY <1>2, <1>3 DEF Present, FreedFields
<1>7. \A p \in Mon : t.lit[p] => p # m /\ s.lit[p]
  BY <1>1, <1>2, DeskTyped DEF FreedFields
<1>8. ASSUME NEW p \in Mon PROVE InOrder(t, p)
  <2>1. CASE p = m
    <3>1. t.next[p] = 0
      BY <1>1, <1>2, <2>1, DeskTyped DEF FreedFields
    <3>2. Own(t, p) = {} /\ Cardinality({}) = 0
      BY <1>4, <2>1, FS_EmptySet
    <3>3. 0..(0 - 1) = {} /\ {t.idx[w] : w \in {}} = {}
      OBVIOUS
    <3> QED
      BY <3>1, <3>2, <3>3 DEF InOrder
  <2>2. CASE p # m
    <3>1. Own(t, p) = Own(s, p) /\ t.next[p] = s.next[p]
      BY <1>1, <1>2, <1>4, <2>2, DeskTyped DEF FreedFields
    <3>2. \A w \in Own(s, p) : t.idx[w] = s.idx[w]
      BY <1>2, <1>3, <2>2 DEF FreedFields, Own
    <3>3. {t.idx[w] : w \in Own(s, p)} = {s.idx[w] : w \in Own(s, p)}
      BY <3>2
    <3> QED
      BY <3>1, <3>3 DEF InOrder, Homed, Counted
  <2> QED
    BY <2>1, <2>2
<1>9. ASSUME NEW c \in Client PROVE LodgedAt(t, c)
  <2>1. t.mon[c] = s.mon[c] /\ Mapped(t) = Mapped(s) /\ t.col[c] \in {NoWs, s.col[c]}
    BY <1>2 DEF FreedFields, Mapped
  <2>2. LodgedAt(s, c)
    BY DEF Homed
  <2>3. s.mon[c] # m
    BY <1>1, <2>2 DEF Deserted, LodgedAt
  <2> QED
    BY <1>6, <2>1, <2>2, <2>3 DEF LodgedAt
<1>10. t.selmon \in Present(t) \cup {NoMon}
  BY <1>2, <1>6 DEF FreedFields, Deserted, Homed
<1>11. \A p \in Mon : t.lit[p] => p \in Present(t)
  BY <1>6, <1>7 DEF Homed
<1>12. Homed(t) /\ t.clients = s.clients
  BY <1>2, <1>8, <1>9, <1>10, <1>11 DEF Homed, Counted, FreedFields
<1> QED
  BY <1>6, <1>7, <1>12 DEF t

-----------------------------------------------------------------------------
(* The steps that light, darken, add and remove monitors. *)

\* What the last updatemons of a step leaves: windows that remember a lit
\* monitor are on it, and none is on a monitor that was lit and is neither lit
\* nor asleep.
Served == /\ Homed(desk')
          /\ \A m \in Lit(desk') : \A c \in Mapped(desk') : output[c] = m => desk'.mon[c] = m
          /\ \A m \in Lit(desk) \ (Lit(desk') \cup asleep') :
               \A c \in Mapped(desk') : desk'.mon[c] # m

\* It does if it is run on a desk whose lit monitors are all in its list.
LEMMA UpdateServes ==
    ASSUME NEW s, Homed(s), NEW q \in Listings, NEW P \in SUBSET Present(s),
           \A p \in Mon : s.lit[p] => p \in P,
           \A p \in Present(desk) : p \in P \/ Deserted(s, p),
           NEW S, \A p \in P : p \in S => p \in asleep',
           desk' = UpdateMons(s, output, q, P, S)
    PROVE  Served
<1> DEFINE t == UpdateMons(s, output, q, P, S)
<1>0. /\ Rehomed(s, t)
      /\ \A c \in Mapped(s) : LitIn(s, P, output[c]) => t.mon[c] = output[c]
      /\ \A k \in Mon : ~ LitIn(s, P, k) /\ (Deserted(s, k) \/ k \in P \ S) => Deserted(t, k)
  BY HomedUpdate
<1> HIDE DEF t
<1>1. /\ Rehomed(s, desk')
      /\ \A c \in Mapped(s) : LitIn(s, P, output[c]) => desk'.mon[c] = output[c]
      /\ \A k \in Mon : ~ LitIn(s, P, k) /\ (Deserted(s, k) \/ k \in P \ S)
                         => Deserted(desk', k)
  <2>1. desk' = t
    BY DEF t
  <2> QED
    BY <1>0, <2>1
<1>2. /\ Homed(desk') /\ Mapped(desk') = Mapped(s) /\ desk'.lit = s.lit
      /\ Present(desk') = Present(s) /\ P \in SUBSET Mon
  BY <1>1, PresentSame, PresentMon DEF Rehomed, SameLists, Mapped
<1>3. \A k \in Lit(desk') : LitIn(s, P, k)
  BY <1>2, PresentMon DEF Lit, LitIn
<1>4. \A k \in P : k \notin Lit(desk') => ~ LitIn(s, P, k)
  BY <1>2 DEF Lit, LitIn
<1>5. ASSUME NEW m \in Lit(desk') , NEW c \in Mapped(desk'), output[c] = m
      PROVE  desk'.mon[c] = m
  BY <1>1, <1>2, <1>3, <1>5
<1>6. ASSUME NEW m \in Lit(desk) \ (Lit(desk') \cup asleep') PROVE Deserted(desk', m)
  <2>1. m \in Mon /\ m \in Present(desk) /\ m \notin Lit(desk') /\ m \notin asleep'
    BY PresentMon DEF Lit
  <2>2. CASE m \in P
    BY <1>1, <1>4, <2>1, <2>2
  <2>3. CASE m \notin P
    BY <1>1, <2>1, <2>3 DEF LitIn
  <2> QED
    BY <2>2, <2>3
<1> QED
  BY <1>2, <1>5, <1>6 DEF Served, Deserted

\* Monitors of the list light up or go dark.
LEMMA HomedLit ==
    ASSUME NEW s, Homed(s), NEW L \in [Mon -> BOOLEAN], \A p \in Mon : L[p] => p \in Present(s)
    PROVE  LET t == [s EXCEPT !.lit = L]
           IN  Homed(t) /\ Present(t) = Present(s) /\ t.lit = L
<1> DEFINE t == [s EXCEPT !.lit = L]
<1>1. s \in Desk /\ Shaped(s) /\ Base(s) /\ Counted(s)
  BY DeskShaped DEF Homed, Base
<1>2. Shaped(t)
  BY <1>1 DEF Shaped, Fields
<1>3. /\ t.owner = s.owner /\ t.idx = s.idx /\ t.next = s.next /\ t.active = s.active
      /\ t.prev = s.prev /\ t.mon = s.mon /\ t.row = s.row /\ t.focused = s.focused
      /\ t.col = s.col /\ t.fs_ws = s.fs_ws /\ t.full = s.full /\ t.float = s.float
      /\ t.clients = s.clients /\ t.fstack = s.fstack /\ t.kb = s.kb /\ t.selmon = s.selmon
      /\ t.lit = L
  BY <1>1 DEF Desk
<1> HIDE DEF t
<1>4. t \in Desk
  BY <1>1, <1>2, <1>3, DeskTyped, ShapedDesk
<1>5. Orders(t) /\ Rows(t)
  <2>1. Orders(s) /\ Rows(s)
    BY <1>1 DEF Base
  <2> QED
    BY <1>3, <2>1, RowsSame
<1>6. Counted(t)
  BY <1>1, <1>3 DEF Counted, InOrder, Own
<1>7. Present(t) = Present(s) /\ Mapped(t) = Mapped(s)
  BY <1>3 DEF Present, Mapped
<1>8. \A c \in Client : LodgedAt(t, c)
  BY <1>3, <1>7 DEF LodgedAt, Homed
<1>9. Homed(t)
  BY <1>3, <1>4, <1>5, <1>6, <1>7, <1>8 DEF Homed, Base
<1> QED
  BY <1>3, <1>7, <1>9 DEF t

\* powermgrsetmode
LEMMA PowerServes ==
    ASSUME Homed(desk), mons \in Listings, NEW m \in Mon, NEW on \in BOOLEAN,
           NEW accepted \in BOOLEAN, Power(m, on, accepted)
    PROVE  Served
<1> DEFINE L == [desk.lit EXCEPT ![m] = IF accepted THEN on ELSE @]
           s == [desk EXCEPT !.lit = L]
           P == Present(desk)
<1>2. desk.lit \in [Mon -> BOOLEAN] /\ \A p \in Mon : desk.lit[p] => p \in P
  BY DeskTyped DEF Homed, Base
<1>1. m \in P /\ desk' = UpdateMons(s, output, mons, P, asleep')
  BY <1>2 DEF Power
<1>3. L \in [Mon -> BOOLEAN] /\ \A p \in Mon : L[p] => p \in P
  BY <1>1, <1>2
<1> HIDE DEF L
<1>4. Homed(s) /\ Present(s) = P /\ s.lit = L
  BY <1>3, HomedLit
<1> HIDE DEF s, P
<1>5. P \in SUBSET Present(s) /\ \A p \in Present(desk) : p \in P
  BY <1>4 DEF P
<1> QED
  BY <1>1, <1>3, <1>4, <1>5, UpdateServes

\* The layout changes.
LEMMA RelayoutServes ==
    ASSUME Homed(desk), mons \in Listings, Relayout
    PROVE  Served
<1> DEFINE P == Present(desk)
<1>1. desk' = UpdateMons(desk, output, mons, P, asleep) /\ asleep' = asleep
  BY DEF Relayout
<1>2. P \in SUBSET Present(desk) /\ \A p \in Mon : desk.lit[p] => p \in P
  BY DEF Homed
<1>3. \A p \in Present(desk) : p \in P
  OBVIOUS
<1> HIDE DEF P
<1> QED
  BY <1>1, <1>2, <1>3, UpdateServes

\* Some heads of an output configuration.
Heads(s, H, on) == [s EXCEPT !.lit = [m \in Mon |-> IF m \in H THEN m \in on ELSE s.lit[m]]]

\* They are monitors of the list.
LEMMA HomedHeads ==
    ASSUME NEW s, Homed(s), NEW H, NEW on \in SUBSET Present(s)
    PROVE  Homed(Heads(s, H, on)) /\ Present(Heads(s, H, on)) = Present(s)
<1> DEFINE L == [m \in Mon |-> IF m \in H THEN m \in on ELSE s.lit[m]]
<1>1. s.lit \in [Mon -> BOOLEAN] /\ \A p \in Mon : s.lit[p] => p \in Present(s)
  BY DeskTyped DEF Homed, Base
<1>2. L \in [Mon -> BOOLEAN]
  <2>1. \A m \in Mon : (IF m \in H THEN m \in on ELSE s.lit[m]) \in BOOLEAN
    <3>1. \A m \in Mon : s.lit[m] \in BOOLEAN /\ (m \in on) \in BOOLEAN
      BY <1>1
    <3> QED
      BY <3>1
  <2> QED
    BY <2>1
<1>3. \A p \in Mon : L[p] => p \in Present(s)
  BY <1>1
<1>4. Heads(s, H, on) = [s EXCEPT !.lit = L]
  BY DEF Heads
<1> HIDE DEF L
<1> QED
  BY <1>2, <1>3, <1>4, HomedLit

\* outputmgrapplyortest: the first heads may have been served before.
LEMMA ConfigureServes ==
    ASSUME Homed(desk), mons \in Listings, NEW on \in SUBSET Present(desk),
           NEW first \in SUBSET Present(desk), Configure(on, first)
    PROVE  Served
<1> DEFINE P == Present(desk)
           a == Heads(desk, first, on)
           half == IF first = {} THEN desk
                   ELSE UpdateMons(a, output, mons, P, asleep \ first)
           b == Heads(half, P, on)
<1>1. desk' = UpdateMons(b, output, mons, P, asleep')
  BY DEF Configure, Heads
<1>2. Homed(a) /\ Present(a) = P
  BY HomedHeads
<1> HIDE DEF a
<1>3. Homed(half) /\ Present(half) = P
  <2> DEFINE u == UpdateMons(a, output, mons, P, asleep \ first)
  <2>1. Rehomed(a, u)
    <3>1. P \in SUBSET Present(a)
      BY <1>2
    <3> HIDE DEF P
    <3> QED
      BY <1>2, <3>1, HomedUpdate
  <2> HIDE DEF u
  <2>2. Homed(u) /\ Present(u) = P
    BY <1>2, <2>1, PresentSame DEF Rehomed
  <2> QED
    BY <2>2 DEF u
<1> HIDE DEF half
<1>4. Homed(b) /\ Present(b) = P
  BY <1>3, HomedHeads
<1> HIDE DEF b
<1>5. P \in SUBSET Present(b) /\ \A p \in Mon : b.lit[p] => p \in P
  BY <1>4 DEF Homed
<1>6. \A p \in Present(desk) : p \in P
  OBVIOUS
<1> HIDE DEF P
<1> QED
  BY <1>1, <1>4, <1>5, <1>6, UpdateServes

\* cleanupmon: the list is served without m, m is emptied and freed, and the
\* list is served once more.
LEMMA UnplugServes ==
    ASSUME Homed(desk), mons \in Listings, NEW m \in Mon, Unplug(m)
    PROVE  Served
<1> DEFINE P == Present(desk) \ {m}
           a == UpdateMons(desk, output, mons, P, asleep)
           b == CloseMon(a, m, mons, P)
           s == FreeAll(b, m)
<1>1. desk' = UpdateMons(s, output, mons, P, asleep) /\ asleep' = asleep \ {m}
  BY DEF Unplug
<1>2. P \in SUBSET Present(desk) /\ m \notin P
  OBVIOUS
<1>3. \A p \in Present(desk) : p \in P \/ p = m
  OBVIOUS
<1> HIDE DEF P
<1>4. Rehomed(desk, a)
  BY <1>2, HomedUpdate
<1> HIDE DEF a
<1>5. Homed(a) /\ Present(a) = Present(desk)
  BY <1>4, PresentSame DEF Rehomed
<1>6. Rehomed(a, b) /\ Deserted(b, m)
  <2>1. P \in SUBSET Present(a) /\ ~ LitIn(a, P, m)
    BY <1>2, <1>5 DEF LitIn
  <2> QED
    BY <1>5, <2>1, HomedCloseMon
<1> HIDE DEF b
<1>7. Homed(b) /\ Present(b) = Present(desk)
  BY <1>5, <1>6, PresentSame DEF Rehomed
<1>8. /\ Homed(s) /\ Present(b) \ {m} \in SUBSET Present(s) /\ s.clients = b.clients
      /\ \A p \in Mon : s.lit[p] => p # m /\ b.lit[p]
  BY <1>6, <1>7, HomedFreeAll
<1>9. s.mon = b.mon /\ s.selmon = b.selmon
  BY <1>7, FreeAllFields DEF Homed, Base, FreedFields
<1> HIDE DEF s
<1>10. Deserted(s, m)
  BY <1>6, <1>8, <1>9 DEF Deserted, Mapped
<1>11. P \in SUBSET Present(s)
  BY <1>2, <1>7, <1>8
<1>12. \A p \in Mon : s.lit[p] => p \in P
  BY <1>3, <1>7, <1>8 DEF Homed
<1>13. \A p \in Present(desk) : p \in P \/ Deserted(s, p)
  BY <1>3, <1>10
<1>14. \A p \in P : p \in asleep => p \in asleep'
  BY <1>1, <1>2
<1> QED
  BY <1>1, <1>8, <1>11, <1>12, <1>13, <1>14, UpdateServes

\* A list of the monitors with one of them put first is one.
LEMMA FrontListed ==
    ASSUME NEW q \in Listings, NEW m \in Mon
    PROVE  ToFront(q, m) \in Listings
<1> DEFINE k == CHOOSE j \in Mon : q[j] = m
           f == ToFront(q, m)
<1>1. q \in [Mon -> Mon] /\ \A x \in Mon : \E j \in Mon : q[j] = x
  BY DEF Listings
<1>2. k \in Mon /\ q[k] = m
  BY <1>1
<1>3. f = [i \in Mon |-> IF i = 1 THEN m ELSE IF i <= k THEN q[i - 1] ELSE q[i]]
  BY DEF ToFront
<1> HIDE DEF k, f
<1>4. NMon \in Nat /\ 1 \in Mon /\ Mon = 1..NMon
  BY CountAssumption DEF Mon
<1>5. ASSUME NEW i \in Mon PROVE f[i] \in Mon
  <2>1. i # 1 => i - 1 \in Mon
    BY <1>4
  <2> QED
    BY <1>1, <1>3, <2>1
<1>6. ASSUME NEW x \in Mon PROVE \E i \in Mon : f[i] = x
  <2>1. PICK j \in Mon : q[j] = x
    BY <1>1
  <2>2. CASE j = k
    BY <1>2, <1>3, <1>4, <2>1, <2>2
  <2>3. CASE j < k
    <3>1. j + 1 \in Mon /\ j + 1 # 1 /\ j + 1 <= k /\ (j + 1) - 1 = j
      BY <1>2, <1>4, <2>3
    <3>2. f[j + 1] = q[(j + 1) - 1]
      BY <1>3, <3>1
    <3> QED
      BY <2>1, <3>1, <3>2
  <2>4. CASE j > k
    <3>1. j # 1 /\ ~ j <= k
      BY <1>2, <1>4, <2>4
    <3> QED
      BY <1>3, <2>1, <3>1
  <2> QED
    BY <1>2, <1>4, <2>2, <2>3, <2>4
<1>7. f \in [Mon -> Mon]
  BY <1>3, <1>5
<1> QED
  BY <1>6, <1>7 DEF Listings, f

\* createmon: a monitor of the list more.
LEMMA PlugServes ==
    ASSUME Homed(desk), NothingFreed, mons \in Listings, NEW m \in Mon, NEW w \in Ws,
           Plug(m, w)
    PROVE  Served
<1> DEFINE b == Create(desk, m, w)
           s == [b EXCEPT !.active[m] = w, !.lit[m] = TRUE]
           P == Present(s)
<1>0. mons' \in Listings
  BY FrontListed DEF Plug
<1>1. /\ desk' = UpdateMons(s, output, mons', P, asleep) /\ asleep' = asleep
      /\ w \in Fresh(desk) /\ m \notin Present(desk)
  BY DEF Plug
<1>2. Lodged(desk, b)
  BY <1>1, FreshUnused, HomedCreate
<1> HIDE DEF b
<1>3. /\ Homed(b) /\ Present(b) = Present(desk) /\ b \in Desk /\ Shaped(b) /\ NoWs \notin Ws
      /\ Orders(b) /\ Rows(b) /\ Counted(b)
  BY <1>2, DeskShaped, NullAssumption DEF Lodged, Stays, Homed, Base
<1>4. Shaped(s)
  BY <1>3 DEF Shaped, Fields
<1>5. /\ s.owner = b.owner /\ s.idx = b.idx /\ s.next = b.next
      /\ s.prev = b.prev /\ s.mon = b.mon /\ s.row = b.row /\ s.focused = b.focused
      /\ s.col = b.col /\ s.fs_ws = b.fs_ws /\ s.full = b.full /\ s.float = b.float
      /\ s.clients = b.clients /\ s.fstack = b.fstack /\ s.kb = b.kb /\ s.selmon = b.selmon
      /\ s.active = [b.active EXCEPT ![m] = w] /\ s.lit = [b.lit EXCEPT ![m] = TRUE]
  BY <1>3 DEF Desk
<1> HIDE DEF s
<1>6. b.active \in [Mon -> Ws \cup {NoWs}] /\ b.lit \in [Mon -> BOOLEAN]
  BY <1>3, DeskTyped
<1>7. s.active \in [Mon -> Ws \cup {NoWs}] /\ s.lit \in [Mon -> BOOLEAN]
  BY <1>5, <1>6
<1>8. s \in Desk
  BY <1>3, <1>4, <1>5, <1>7, DeskTyped, ShapedDesk
<1>9. Orders(s) /\ Rows(s)
  <2>1. /\ s.clients = b.clients /\ s.fstack = b.fstack /\ s.row = b.row
        /\ s.focused = b.focused /\ s.col = b.col
    BY <1>5
  <2>2. Orders(b) /\ Rows(b)
    BY <1>3
  <2> QED
    BY <2>1, <2>2, RowsSame
<1>10. Counted(s)
  BY <1>3, <1>5 DEF Counted, InOrder, Own
<1>11. P = Present(desk) \cup {m}
  BY <1>3, <1>5, <1>6 DEF Present
<1>12. \A c \in Client : LodgedAt(s, c)
  BY <1>3, <1>5, <1>11 DEF Homed, LodgedAt, Mapped
<1>13. \A p \in Mon : s.lit[p] => p \in P
  BY <1>3, <1>5, <1>6, <1>11 DEF Homed
<1>14. s.selmon \in P \cup {NoMon}
  BY <1>3, <1>5, <1>11 DEF Homed
<1>15. Homed(s)
  BY <1>8, <1>9, <1>10, <1>12, <1>13, <1>14 DEF Homed, Base
<1>16. \A p \in Present(desk) : p \in P
  BY <1>11
<1>17. P \in SUBSET Present(s)
  OBVIOUS
<1> HIDE DEF P
<1> QED
  BY <1>0, <1>1, <1>13, <1>15, <1>16, <1>17, UpdateServes

\* Any of them, which also keeps the layout within the list.
LEMMA OutputServes ==
    ASSUME Homed(desk), NothingFreed, mons \in Listings, OutputStep
    PROVE  /\ Served /\ output' = output
           /\ laid' \in SUBSET Present(desk') /\ mons' \in Listings
<1>1. Served
  BY ConfigureServes, RelayoutServes, PowerServes, UnplugServes, PlugServes DEF OutputStep
<1>2. output' = output
  BY DEF OutputStep, Configure, Relayout, Power, Unplug, Plug
<1>3. mons' \in Listings
  BY FrontListed DEF OutputStep, Configure, Relayout, Power, Unplug, Plug
<1>4. laid' \in SUBSET Present(desk')
  BY DEF OutputStep
<1> QED
  BY <1>1, <1>2, <1>3, <1>4

-----------------------------------------------------------------------------
(* The theorems. *)

\* The inductive invariant.
HInv == Housed(desk) /\ laid \in SUBSET Present(desk) /\ mons \in Listings

\* While what the program does is defined, the rows are in order before a step.
LEMMA DefinedHomed ==
    ASSUME Housed(desk), Defined
    PROVE  Homed(desk) /\ NothingFreed
<1>1. Rows(desk)
  BY RowsMean DEF Housed, Defined, RowsAgree
<1> QED
  BY <1>1, HomedHoused DEF Defined

\* One workspace per monitor, no window.
LEMMA HInitHomed ==
    ASSUME HInit
    PROVE  HInv
<1>1. Sound(desk)
  BY InitInv DEF HInit, DeskInv
<1>2. Base(desk) /\ Counted(desk) /\ Shows(desk) /\ Live(desk)
  BY <1>1 DEF Sound
<1>3. Present(desk) = Mon
  BY <1>2, ActiveOf DEF Present
<1>4. desk.mon \in [Client -> Mon \cup {NoMon}]
  BY <1>2, DeskTyped DEF Base
<1>5. ASSUME NEW c \in Client PROVE LodgedAt(desk, c)
  BY <1>2, <1>3, <1>4 DEF Live, LiveAt, LodgedAt
<1>6. Homed(desk)
  BY <1>2, <1>3, <1>5 DEF Homed, Shows
<1> QED
  BY <1>3, <1>6, HomedHoused DEF HInv, HInit

\* A handler of the desk changes neither the layout nor the list of monitors.
LEMMA DeskStepRest ==
    ASSUME DeskStep
    PROVE  laid' = laid /\ mons' = mons
BY DEF DeskStep, TagStep, OpenStep

\* One step of the compositor, and what it makes of the desk.
LEMMA StepHoused ==
    ASSUME HInv, Defined, DeskStep \/ OutputStep
    PROVE  /\ HInv'
           /\ \/ Stays(desk, desk')
              \/ Keeps(desk, desk') /\ \E d \in Dir : HopHome(d)
              \/ Served
<1>1. Homed(desk) /\ NothingFreed /\ laid \in SUBSET Present(desk) /\ mons \in Listings
  BY DefinedHomed DEF HInv
<1>2. CASE DeskStep
  <2>1. \/ Stays(desk, desk')
        \/ Keeps(desk, desk') /\ \E d \in Dir : HopHome(d)
    BY <1>1, <1>2, DeskHomed
  <2>2. Housed(desk') /\ Present(desk') = Present(desk)
    BY <2>1, HomedHoused DEF Stays, Keeps
  <2>3. laid' = laid /\ mons' = mons
    BY <1>2, DeskStepRest
  <2> QED
    BY <1>1, <2>1, <2>2, <2>3 DEF HInv
<1>3. CASE OutputStep
  <2>1. /\ Served /\ laid' \in SUBSET Present(desk') /\ mons' \in Listings
    BY <1>1, <1>3, OutputServes
  <2>2. Housed(desk')
    BY <2>1, HomedHoused DEF Served
  <2> QED
    BY <2>1, <2>2 DEF HInv
<1> QED
  BY <1>2, <1>3

\* It is one.
THEOREM HotplugInv == HSpec => []HInv
<1>1. HInit => HInv
  BY HInitHomed
<1>2. HInv /\ [Defined /\ (DeskStep \/ OutputStep)]_hvars => HInv'
  <2>1. CASE Defined /\ (DeskStep \/ OutputStep)
    BY <2>1, StepHoused
  <2>2. CASE UNCHANGED hvars
    BY <2>2 DEF hvars, HInv, Housed, LodgedAt, Present, Mapped, Orders, Counted, InOrder, Own
  <2> QED
    BY <2>1, <2>2
<1> QED
  BY <1>1, <1>2, PTL DEF HSpec

\* Whatever monitors come and go, the workspaces of each are numbered in order,
\* no window, selection or light is on one that is gone, and a window that is
\* not mapped has neither a monitor nor a column.
THEOREM HotplugHoused == HSpec => []Housed(desk)
<1>1. HInv => Housed(desk)
  BY DEF HInv
<1> QED
  BY <1>1, HotplugInv, PTL

\* Rows and columns go on agreeing through every step but the hop of a column to
\* the monitor that its window is on already (move_column_dir after updatemons).
THEOREM OnlyHopsBreakRows == HSpec => RowsBreakOnlyByHop
<1> DEFINE A == RowsAgree' \/ \E d \in Dir : HopHome(d)
<1>1. HInv /\ [Defined /\ (DeskStep \/ OutputStep)]_hvars => [A]_hvars
  <2> SUFFICES ASSUME HInv, Defined, DeskStep \/ OutputStep PROVE A
    OBVIOUS
  <2>1. ASSUME Homed(desk') PROVE RowsAgree'
    <3>1. desk' \in Desk /\ Rows(desk')
      BY <2>1 DEF Homed, Base
    <3>2. \A w \in Ws :
             /\ ToSet(desk'.row[w]) = {c \in Client : desk'.col[c] = w}
             /\ IsInjective(desk'.row[w])
             /\ desk'.focused[w] \in (IF desk'.row[w] = <<>> THEN {NoClient}
                                      ELSE ToSet(desk'.row[w]))
      BY <3>1, RowsMean
    <3> QED
      BY <3>2 DEF RowsAgree
  <2> QED
    BY <2>1, StepHoused DEF Stays, Served
<1> QED
  BY <1>1, HotplugInv, PTL DEF HSpec, RowsBreakOnlyByHop

\* No window is left behind on a monitor that is gone (closemon).
THEOREM WindowsOnMonitors == HSpec => []OnPresentMonitor
<1>1. Housed(desk) => OnPresentMonitor
  <2> SUFFICES ASSUME Housed(desk) PROVE OnPresentMonitor
    OBVIOUS
  <2>1. \A c \in Mapped(desk) : c \in Client
    BY ListsPlaces DEF Housed, Orders
  <2> QED
    BY <2>1 DEF Housed, LodgedAt, OnPresentMonitor
<1> QED
  BY <1>1, HotplugHoused, PTL

\* A monitor that is disabled or unplugged takes no window with it (updatemons
\* and cleanupmon).
THEOREM DarkMonitorsEmpty == HSpec => NobodyInTheDark
<1> DEFINE A == \A m \in Lit(desk) \ (Lit(desk') \cup asleep') :
                  \A c \in Mapped(desk') : desk'.mon[c] # m
<1>1. HInv /\ [Defined /\ (DeskStep \/ OutputStep)]_hvars => [A]_hvars
  BY StepHoused DEF Stays, Keeps, Lit, Served
<1> QED
  BY <1>1, HotplugInv, PTL DEF HSpec, NobodyInTheDark

\* A monitor that is lit again has all the windows that remember it
\* (the restore loop of updatemons).
THEOREM LitMonitorsRestored == HSpec => WindowsComeHome
<1> DEFINE A == \A m \in Lit(desk') \ Lit(desk) : \A c \in Mapped(desk') :
                  output[c] = m => desk'.mon[c] = m
<1>1. HInv /\ [Defined /\ (DeskStep \/ OutputStep)]_hvars => [A]_hvars
  BY StepHoused DEF Stays, Keeps, Lit, Served
<1> QED
  BY <1>1, HotplugInv, PTL DEF HSpec, WindowsComeHome
=============================================================================
