--------------------------- MODULE Placement_proofs ---------------------------
(***************************************************************************)
(* No pointer to a workspace outlives it, for any number of windows,       *)
(* workspaces and monitors.  TypeOK /\ NoDangling is inductive: the two    *)
(* halves of NoDangling need each other, since leaving fullscreen attaches *)
(* a window to the workspace it remembers and moving one attaches it to    *)
(* the workspace its monitor shows.                                        *)
(***************************************************************************)
EXTENDS Placement, TLAPS

Inv == NullsApart /\ TypeOK /\ NoDangling

\* Every monitor starts on a workspace of its own, without windows.
LEMMA InitInv == ASSUME NullsApart PROVE Init => Inv
BY DEF NullsApart, Init, Inv, TypeOK, NoDangling, ListsLive, WindowsLive,
                      WindowLive, Own

\* Where a window may be just before the list of m is compacted: own is that
\* list, the other lists are as they were.
InList(w, n, m, own) == IF n = m THEN w \in own ELSE owner[w] = n
PlacedIn(c, m, own) ==
    /\ col'[c] # NoWs => c \in mapped' /\ InList(col'[c], mon'[c], m, own)
    /\ fs_ws'[c] # NoWs => c \in mapped' /\ full'[c]
                           /\ InList(fs_ws'[c], mon'[c], m, own)
    /\ c \in mapped' =>
         /\ mon'[c] \in Mon
         /\ full'[c] => fs_ws'[c] # NoWs /\ col'[c] = NoWs
         /\ ~ full'[c] /\ ~ float'[c] => col'[c] # NoWs

WindowTypes ==
    /\ mapped \subseteq Client
    /\ mon \in [Client -> Mon \cup {NoMon}]
    /\ col \in [Client -> Ws \cup {NoWs}]
    /\ fs_ws \in [Client -> Ws \cup {NoWs}]
    /\ full \in [Client -> BOOLEAN]
    /\ float \in [Client -> BOOLEAN]

\* Compaction preserves the invariant, whatever move preceded it.
LEMMA CompactedInv ==
    ASSUME Inv, NEW m \in Mon, NEW own \in SUBSET Ws, NEW shown \in own,
           NEW last \in own \cup {NoWs},
           Own(m) \subseteq own, own \subseteq Own(m) \cup Fresh,
           Compacted(m, own, shown, last), WindowTypes',
           \A c \in Client : PlacedIn(c, m, own)
    PROVE  Inv'
<1>1. PICK D \in SUBSET {w \in own : \A c \in mapped' : ~ Uses(c, w)'} :
        /\ own \ D # {}
        /\ owner' = [w \in Ws |-> IF w \in D THEN NoMon
                                  ELSE IF w \in own THEN m ELSE owner[w]]
        /\ \E a \in own \ D : /\ shown \notin D => a = shown
                              /\ active' = [active EXCEPT ![m] = a]
        /\ prev' = [prev EXCEPT ![m] = IF last \in D THEN NoWs ELSE last]
  BY DEF Compacted
<1>2. PICK a \in own \ D : active' = [active EXCEPT ![m] = a]
  BY <1>1
<1>3. \A c \in mapped' : col'[c] \notin D /\ fs_ws'[c] \notin D
  BY <1>1 DEF Uses
<1>4. /\ \A w \in own \ D : owner'[w] = m
      /\ \A w \in Ws \ own : owner'[w] = owner[w]
      /\ \A w \in own : owner[w] \in {m, NoMon}
  BY <1>1 DEF Own, Fresh
<1>5. TypeOK'
  BY <1>1, <1>2 DEF Inv, TypeOK, WindowTypes
<1>6. ListsLive'
  <2> SUFFICES ASSUME NEW n \in Mon
               PROVE  /\ active'[n] \in Ws /\ owner'[active'[n]] = n
                      /\ prev'[n] # NoWs => /\ prev'[n] \in Ws
                                            /\ owner'[prev'[n]] = n
    BY DEF ListsLive, Own
  <2>1. CASE n = m
    BY <2>1, <1>1, <1>2, <1>4 DEF NullsApart, Inv, TypeOK
  <2>2. CASE n # m
    <3>1. active'[n] = active[n] /\ prev'[n] = prev[n]
      BY <2>2, <1>1, <1>2 DEF Inv, TypeOK
    <3>2. active[n] \in Own(n) /\ (prev[n] # NoWs => prev[n] \in Own(n))
      BY DEF Inv, NoDangling, ListsLive
    <3>3. \A w \in Own(n) : w \notin own
      BY <2>2, <1>4 DEF NullsApart, Inv, Own
    <3>4. QED  BY <3>1, <3>2, <3>3, <1>4 DEF Own
  <2>3. QED  BY <2>1, <2>2
<1>7. WindowsLive'
  <2> SUFFICES ASSUME NEW c \in Client, c \in mapped',
                      NEW w \in Ws, w \notin D, InList(w, mon'[c], m, own)
               PROVE  owner'[w] = mon'[c]
    BY <1>3 DEF WindowsLive, WindowLive, PlacedIn, WindowTypes
  <2>1. mon'[c] \in Mon
    BY DEF PlacedIn
  <2>2. CASE mon'[c] = m
    BY <2>2, <1>4 DEF InList
  <2>3. CASE mon'[c] # m
    BY <2>1, <2>3, <1>4 DEF NullsApart, Inv, InList
  <2>4. QED  BY <2>2, <2>3
<1>8. QED  BY <1>5, <1>6, <1>7 DEF Inv, NoDangling

\* A window that goes, with what compaction frees.
LEMMA CloseInv == ASSUME Inv, NEW c \in Client, Close(c)
                  PROVE  Inv'
<1>1. mon[c] \in Mon
  BY DEF Close, Inv, NoDangling, WindowsLive, WindowLive
<1>2. /\ active[mon[c]] \in Own(mon[c])
      /\ prev[mon[c]] \in Own(mon[c]) \cup {NoWs}
  BY <1>1 DEF Inv, NoDangling, ListsLive
<1>3. Compacted(mon[c], Own(mon[c]), active[mon[c]], prev[mon[c]])
  BY DEF Close
<1>4. WindowTypes'
  BY DEF Close, Inv, TypeOK, WindowTypes
<1>5. ASSUME NEW x \in Client
      PROVE  PlacedIn(x, mon[c], Own(mon[c]))
  <2>1. CASE x = c
    BY <2>1 DEF PlacedIn, Close, Inv, TypeOK
  <2>2. CASE x # c
    <3>1. /\ col'[x] = col[x] /\ fs_ws'[x] = fs_ws[x] /\ mon'[x] = mon[x]
          /\ full'[x] = full[x] /\ float'[x] = float[x]
          /\ x \in mapped' <=> x \in mapped
      BY <2>2 DEF Close, Inv, TypeOK
    <3>2. \A w \in Ws : owner[w] = mon[x] => InList(w, mon[x], mon[c], Own(mon[c]))
      BY DEF InList, Own
    <3>3. WindowLive(x)
      BY DEF Inv, NoDangling, WindowsLive
    <3>4. QED
      BY <3>1, <3>2, <3>3 DEF PlacedIn, WindowLive, Inv, TypeOK
  <2>3. QED  BY <2>1, <2>2
<1>6. Own(mon[c]) \in SUBSET Ws
  BY DEF Own
<1>7. QED
  BY <1>1, <1>2, <1>3, <1>4, <1>5, <1>6, CompactedInv

\* A window sent to another workspace.
LEMMA SendInv == ASSUME Inv, NEW c \in Client, NEW w \in Ws, Send(c, w)
                 PROVE  Inv'
<1> DEFINE m == mon[c]
           own == Own(m) \cup {w}
           last == IF w = active[m] THEN prev[m] ELSE active[m]
<1>1. m \in Mon
  BY DEF Send, Inv, NoDangling, WindowsLive, WindowLive
<1>2. w \in own /\ last \in own \cup {NoWs}
  BY <1>1 DEF Inv, NoDangling, ListsLive
<1>3. own \in SUBSET Ws /\ Own(m) \subseteq own /\ own \subseteq Own(m) \cup Fresh
  BY DEF Send, Own
<1>4. Compacted(m, own, w, last)
  BY DEF Send
<1>5. WindowTypes'
  BY DEF Send, Inv, TypeOK, WindowTypes
<1>6. ASSUME NEW x \in Client
      PROVE  PlacedIn(x, m, own)
  <2>1. /\ mapped' = mapped /\ mon' = mon /\ fs_ws' = fs_ws
        /\ full' = full /\ float' = float
        /\ col'[x] = IF x = c THEN w ELSE col[x]
    BY DEF Send, Inv, TypeOK
  <2>2. \A v \in Ws : owner[v] = mon[x] => InList(v, mon[x], m, own)
    BY DEF InList, Own
  <2>3. WindowLive(x)
    BY DEF Inv, NoDangling, WindowsLive
  <2>4. CASE x = c
    BY <2>1, <2>2, <2>3, <2>4, <1>1
       DEF NullsApart, PlacedIn, InList, WindowLive, Send, Inv, TypeOK
  <2>5. CASE x # c
    BY <2>1, <2>2, <2>3, <2>5 DEF PlacedIn, WindowLive, Inv, TypeOK
  <2>6. QED  BY <2>4, <2>5
<1> HIDE DEF m, own, last
<1>7. QED  BY <1>1, <1>2, <1>3, <1>4, <1>5, <1>6, CompactedInv

\* A step that leaves the lists alone only has to leave each window in place.
LEMMA WindowsInv ==
    ASSUME Inv, UNCHANGED lists, WindowTypes',
           \A c \in Client : WindowLive(c)'
    PROVE  Inv'
BY DEF Inv, TypeOK, WindowTypes, NoDangling, ListsLive, WindowsLive, Own, lists

\* A monitor's workspace is there for a window to join.
LEMMA ActiveLive == ASSUME Inv, NEW m \in Mon
                    PROVE  active[m] \in Ws /\ owner[active[m]] = m /\ active[m] # NoWs
BY DEF NullsApart, Inv, NoDangling, ListsLive, Own

\* A new empty workspace.
LEMMA PrepareInv == ASSUME Inv, NEW c \in Client, Prepare(c)
                    PROVE  Inv'
<1>1. UNCHANGED lists /\ WindowTypes'
  BY DEF Prepare, Inv, TypeOK, WindowTypes
<1>2. ASSUME NEW x \in Client
      PROVE  WindowLive(x)'
  <2>1. WindowLive(x)
    BY DEF Inv, NoDangling, WindowsLive
  <2>2. QED
    BY <2>1 DEF Prepare, lists, WindowLive, Inv, TypeOK
<1>3. QED  BY <1>1, <1>2, WindowsInv

\* A window that maps, on the workspace its monitor shows.
LEMMA OpenInv == ASSUME Inv, NEW c \in Client, NEW m \in Mon,
                        NEW X \in SUBSET mapped, Open(c, m, X)
                 PROVE  Inv'
<1>1. UNCHANGED lists
  BY DEF Open
<1>2. PICK f \in BOOLEAN, g \in BOOLEAN, tile \in BOOLEAN :
         /\ f => ~ tile
         /\ ~ f /\ ~ g => tile
         /\ full' = [x \in Client |-> IF x = c THEN f ELSE full[x] /\ x \notin X]
         /\ float' = [float EXCEPT ![c] = g]
         /\ col' = [x \in Client |->
                      IF x = c THEN IF tile THEN active[m] ELSE NoWs
                      ELSE IF x \in X /\ ~ float[x] THEN active[m] ELSE col[x]]
         /\ fs_ws' = [x \in Client |->
                        IF x = c THEN IF f THEN active[m] ELSE NoWs
                        ELSE IF x \in X THEN NoWs ELSE fs_ws[x]]
  BY DEF Open
<1>3. /\ mapped' = mapped \cup {c} /\ mon' = [mon EXCEPT ![c] = m]
      /\ c \notin X
      /\ \A x \in X : full[x] /\ mon[x] = m
  BY DEF Open
<1>4. active[m] \in Ws /\ owner[active[m]] = m /\ active[m] # NoWs
  BY ActiveLive
<1>5. WindowTypes'
  BY <1>2, <1>3, <1>4 DEF Inv, TypeOK, WindowTypes
<1>6. ASSUME NEW x \in Client
      PROVE  WindowLive(x)'
  <2>1. WindowLive(x)
    BY DEF Inv, NoDangling, WindowsLive
  <2>2. owner' = owner
    BY <1>1 DEF lists
  <2>3. CASE x = c
    BY <1>2, <1>3, <1>4, <2>2, <2>3 DEF WindowLive, Inv, TypeOK
  <2>4. CASE x # c /\ x \in X
    BY <1>2, <1>3, <1>4, <2>1, <2>2, <2>4 DEF WindowLive, Inv, TypeOK
  <2>5. CASE x # c /\ x \notin X
    BY <1>2, <1>3, <2>1, <2>2, <2>5 DEF WindowLive, Inv, TypeOK
  <2>6. QED  BY <2>3, <2>4, <2>5
<1>7. QED  BY <1>1, <1>5, <1>6, WindowsInv

\* Fullscreen binds a window to the workspace shown.
LEMMA EnterInv == ASSUME Inv, NEW c \in Client, EnterFullscreen(c)
                  PROVE  Inv'
<1>1. WindowLive(c) /\ mon[c] \in Mon
  BY DEF EnterFullscreen, Inv, NoDangling, WindowsLive, WindowLive
<1>2. LET w == active[mon[c]] IN w \in Ws /\ owner[w] = mon[c] /\ w # NoWs
  BY <1>1, ActiveLive
<1>3. UNCHANGED lists /\ WindowTypes'
  BY <1>2 DEF EnterFullscreen, Inv, TypeOK, WindowTypes
<1>4. ASSUME NEW x \in Client
      PROVE  WindowLive(x)'
  <2>1. WindowLive(x)
    BY DEF Inv, NoDangling, WindowsLive
  <2>2. CASE x = c
    BY <1>1, <1>2, <2>2 DEF EnterFullscreen, lists, WindowLive, Inv, TypeOK
  <2>3. CASE x # c
    BY <2>1, <2>3 DEF EnterFullscreen, lists, WindowLive, Inv, TypeOK
  <2>4. QED  BY <2>2, <2>3
<1>5. QED  BY <1>3, <1>4, WindowsInv

\* Leaving it gives the window a column or lets it float.
LEMMA LeaveInv == ASSUME Inv, NEW c \in Client, LeaveFullscreen(c)
                  PROVE  Inv'
<1>1. UNCHANGED lists /\ WindowTypes'
  BY DEF LeaveFullscreen, Inv, TypeOK, WindowTypes
<1>2. ASSUME NEW x \in Client
      PROVE  WindowLive(x)'
  <2>1. WindowLive(x)
    BY DEF Inv, NoDangling, WindowsLive
  <2>2. CASE x = c
    BY <2>1, <2>2 DEF LeaveFullscreen, lists, WindowLive, Inv, TypeOK
  <2>3. CASE x # c
    BY <2>1, <2>3 DEF LeaveFullscreen, lists, WindowLive, Inv, TypeOK
  <2>4. QED  BY <2>2, <2>3
<1>3. QED  BY <1>1, <1>2, WindowsInv

\* Floating and back.
LEMMA FloatInv == ASSUME Inv, NEW c \in Client, ToggleFloating(c)
                  PROVE  Inv'
<1>1. WindowLive(c) /\ mon[c] \in Mon
  BY DEF ToggleFloating, Inv, NoDangling, WindowsLive, WindowLive
<1>2. LET w == active[mon[c]] IN w \in Ws /\ owner[w] = mon[c] /\ w # NoWs
  BY <1>1, ActiveLive
<1>3. UNCHANGED lists /\ WindowTypes'
  BY <1>2 DEF ToggleFloating, Inv, TypeOK, WindowTypes
<1>4. ASSUME NEW x \in Client
      PROVE  WindowLive(x)'
  <2>1. WindowLive(x)
    BY DEF Inv, NoDangling, WindowsLive
  <2>2. CASE x = c
    BY <1>1, <1>2, <2>2 DEF ToggleFloating, lists, WindowLive, Inv, TypeOK
  <2>3. CASE x # c
    BY <2>1, <2>3 DEF ToggleFloating, lists, WindowLive, Inv, TypeOK
  <2>4. QED  BY <2>2, <2>3
<1>5. QED  BY <1>3, <1>4, WindowsInv

\* A window sent to another monitor.
LEMMA SendToMonInv == ASSUME Inv, NEW c \in Client, NEW m \in Mon, SendToMon(c, m)
                      PROVE  Inv'
<1>1. active[m] \in Ws /\ owner[active[m]] = m /\ active[m] # NoWs
  BY ActiveLive
<1>2. UNCHANGED lists /\ WindowTypes'
  BY <1>1 DEF SendToMon, Inv, TypeOK, WindowTypes
<1>3. ASSUME NEW x \in Client
      PROVE  WindowLive(x)'
  <2>1. WindowLive(x)
    BY DEF Inv, NoDangling, WindowsLive
  <2>2. CASE x = c
    BY <1>1, <2>2 DEF SendToMon, lists, WindowLive, Inv, TypeOK
  <2>3. CASE x # c
    BY <2>1, <2>3 DEF SendToMon, lists, WindowLive, Inv, TypeOK
  <2>4. QED  BY <2>2, <2>3
<1>4. QED  BY <1>2, <1>3, WindowsInv

\* Another workspace shown.
LEMMA VisitInv == ASSUME Inv, NEW m \in Mon, NEW w \in Ws, Visit(m, w)
                  PROVE  Inv'
<1>1. /\ owner[w] \in {m, NoMon}
      /\ owner' = [owner EXCEPT ![w] = m] /\ active' = [active EXCEPT ![m] = w]
      /\ prev' = [prev EXCEPT ![m] = active[m]]
  BY DEF Visit, Own, Fresh
<1>2. active[m] \in Ws /\ owner[active[m]] = m
  BY ActiveLive
<1>3. TypeOK'
  BY <1>1 DEF Visit, windows, Inv, TypeOK
<1>4. ListsLive'
  BY <1>1, <1>2 DEF NullsApart, Inv, TypeOK, NoDangling, ListsLive, Own
<1>5. ASSUME NEW c \in Client
      PROVE  WindowLive(c)'
  <2>1. WindowLive(c)
    BY DEF Inv, NoDangling, WindowsLive
  <2>2. \A v \in Ws : owner[v] \in Mon => owner'[v] = owner[v]
    BY <1>1 DEF NullsApart, Inv, TypeOK
  <2>3. QED
    BY <2>1, <2>2 DEF Visit, windows, WindowLive, Inv, TypeOK
<1>6. QED  BY <1>3, <1>4, <1>5 DEF Inv, NoDangling, WindowsLive

\* Every step keeps the invariant.
LEMMA NextInv == Inv /\ [Next]_vars => Inv'
<1> SUFFICES ASSUME Inv, [Next]_vars  PROVE Inv'
  OBVIOUS
<1>1. CASE UNCHANGED vars
  BY <1>1 DEF vars, lists, windows, Inv, TypeOK, NoDangling, ListsLive,
              WindowsLive, WindowLive, Own
<1>2. ASSUME NEW c \in Client, Prepare(c)  PROVE Inv'
  BY <1>2, PrepareInv
<1>3. ASSUME NEW c \in Client, Close(c)  PROVE Inv'
  BY <1>3, CloseInv
<1>4. ASSUME NEW c \in Client, NEW m \in Mon, NEW X \in SUBSET mapped, Open(c, m, X)
      PROVE  Inv'
  BY <1>4, OpenInv
<1>5. ASSUME NEW c \in Client,
             EnterFullscreen(c) \/ LeaveFullscreen(c) \/ ToggleFloating(c)
      PROVE  Inv'
  BY <1>5, EnterInv, LeaveInv, FloatInv
<1>6. ASSUME NEW c \in Client, NEW w \in Ws, Send(c, w)  PROVE Inv'
  BY <1>6, SendInv
<1>7. ASSUME NEW c \in Client, NEW m \in Mon, SendToMon(c, m)  PROVE Inv'
  BY <1>7, SendToMonInv
<1>8. ASSUME NEW m \in Mon, NEW w \in Ws, Visit(m, w)  PROVE Inv'
  BY <1>8, VisitInv
<1>9. QED
  BY <1>1, <1>2, <1>3, <1>4, <1>5, <1>6, <1>7, <1>8 DEF Next

\* So every reachable state satisfies it.
LEMMA InvHolds == ASSUME NullsApart PROVE Spec => []Inv
BY InitInv, NextInv, PTL DEF Spec

\* With null values of their own, the state keeps its type.
THEOREM TypeCorrect == ASSUME NullsApart PROVE Spec => []TypeOK
BY InvHolds, PTL DEF Inv

\* Whatever windows and keys do, no monitor, column or fullscreen window
\* refers to a workspace that was freed or belongs to another monitor, every
\* tile has a row and every fullscreen window a workspace.
THEOREM PointersLive == ASSUME NullsApart PROVE Spec => []NoDangling
BY InvHolds, PTL DEF Inv

\* Compaction takes away a workspace of the list of m only when no window of
\* the next state uses it, and takes away nothing else.
LEMMA CompactedKeeps ==
    ASSUME NEW m \in Mon, NEW own \in SUBSET Ws, NEW shown, NEW last,
           own \subseteq Own(m) \cup Fresh,
           Compacted(m, own, shown, last),
           NEW w \in Ws, owner[w] # NoMon, owner'[w] # owner[w]
    PROVE  \A c \in mapped' : ~ Uses(c, w)'
<1>1. PICK D \in SUBSET {v \in own : \A c \in mapped' : ~ Uses(c, v)'} :
        owner' = [v \in Ws |-> IF v \in D THEN NoMon
                               ELSE IF v \in own THEN m ELSE owner[v]]
  BY DEF Compacted
<1>2. w \in own => owner[w] = m
  BY DEF Own, Fresh
<1>3. w \in D
  BY <1>1, <1>2
<1>4. QED  BY <1>1, <1>3

\* No handler frees a workspace, or hands it to another monitor, while a
\* window that stays mapped is in its row or fullscreen on it.
THEOREM OccupiedStays == ASSUME NullsApart PROVE Spec => OccupiedKept
<1> DEFINE Goal == \A w \in Ws : owner[w] # NoMon /\ owner'[w] # owner[w] =>
                     \A c \in mapped' : ~ Uses(c, w)'
<1>1. Inv /\ [Next]_vars => [Goal]_vars
  <2> SUFFICES ASSUME Inv, Next, NEW w \in Ws,
                      owner[w] # NoMon, owner'[w] # owner[w]
               PROVE  \A c \in mapped' : ~ Uses(c, w)'
    BY DEF Goal
  <2>1. ASSUME NEW c \in Client, Close(c)
        PROVE  \A x \in mapped' : ~ Uses(x, w)'
    <3>1. mon[c] \in Mon
      BY <2>1 DEF Close, Inv, NoDangling, WindowsLive, WindowLive
    <3>2. Compacted(mon[c], Own(mon[c]), active[mon[c]], prev[mon[c]])
      BY <2>1 DEF Close
    <3>3. Own(mon[c]) \in SUBSET Ws
      BY DEF Own
    <3>4. QED  BY <3>1, <3>2, <3>3, CompactedKeeps
  <2>2. ASSUME NEW c \in Client, NEW v \in Ws, Send(c, v)
        PROVE  \A x \in mapped' : ~ Uses(x, w)'
    <3> DEFINE m == mon[c]
               own == Own(m) \cup {v}
               last == IF v = active[m] THEN prev[m] ELSE active[m]
    <3>1. m \in Mon
      BY <2>2 DEF Send, Inv, NoDangling, WindowsLive, WindowLive
    <3>2. Compacted(m, own, v, last)
      BY <2>2 DEF Send
    <3>3. own \in SUBSET Ws /\ own \subseteq Own(m) \cup Fresh
      BY <2>2 DEF Send, Own
    <3> HIDE DEF m, own, last
    <3>4. QED  BY <3>1, <3>2, <3>3, CompactedKeeps
  <2>3. ASSUME NEW m \in Mon, NEW v \in Ws
        PROVE  ~ Visit(m, v)
    BY DEF Visit, Own, Fresh, Inv, TypeOK
  <2>4. ASSUME NEW c \in Client
        PROVE  /\ ~ Prepare(c) /\ ~ EnterFullscreen(c) /\ ~ LeaveFullscreen(c)
               /\ ~ ToggleFloating(c)
               /\ \A m \in Mon : ~ SendToMon(c, m)
               /\ \A m \in Mon, X \in SUBSET mapped : ~ Open(c, m, X)
    BY DEF Prepare, Open, EnterFullscreen, LeaveFullscreen, ToggleFloating,
           SendToMon, lists
  <2>5. QED  BY <2>1, <2>2, <2>3, <2>4 DEF Next
<1>2. QED  BY <1>1, InvHolds, PTL DEF Spec, OccupiedKept
===============================================================================
