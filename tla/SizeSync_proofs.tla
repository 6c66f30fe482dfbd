----------------------------- MODULE SizeSync_proofs -----------------------------
(***************************************************************************)
(* The bookkeeping of configures is sound for every set of sizes, number of  *)
(* tries and client: what is awaited is the newest configure sent, so that    *)
(* no answer to an older one can end the wait.                                *)
(***************************************************************************)
EXTENDS SizeSync, TLAPS

\* The fields of wire, as the operators pass them along.
Wires == [last : Size \cup {None}, pending : Size \cup {None}, awaited : Nat, sent : Seq(Size)]

\* What is awaited is the newest configure, or nothing.
Newest(r) == r \in Wires /\ r.awaited \in {None, Len(r.sent)}

\* The inductive invariant; the client's manners do not change.
Inv ==
    /\ TypeOK /\ Newest(Wire)
    /\ answer \in [Size -> Size] /\ min \in Size \cup {None}

-----------------------------------------------------------------------------
(* Requests.                                                                 *)

\* client_set_size awaits what it sends.
LEMMA SetSizeNewest ==
    ASSUME NEW r, Newest(r), NEW a, NEW n \in Size
    PROVE  Newest(SetSize(r, a, n))
<1>1. r \in Wires /\ r.sent \in Seq(Size) /\ Len(r.sent) \in Nat
  BY DEF Newest, Wires
<1>2. CASE n = a
  BY <1>1, <1>2 DEF SetSize, Newest, Wires, None
<1>3. CASE n # a
  <2> DEFINE s == Append(r.sent, n)
  <2>1. s \in Seq(Size) /\ Len(s) = Len(r.sent) + 1
    BY <1>1
  <2>2. SetSize(r, a, n) = [r EXCEPT !.sent = s, !.awaited = Len(s)]
    BY <1>3, <2>1 DEF SetSize
  <2>3. Len(s) \in Nat
    BY <1>1, <2>1
  <2> HIDE DEF s
  <2>4. SetSize(r, a, n) \in Wires
    BY <1>1, <2>1, <2>2, <2>3 DEF Wires
  <2>5. SetSize(r, a, n).sent = s /\ SetSize(r, a, n).awaited = Len(s)
    BY <1>1, <2>2 DEF Wires
  <2> QED
    BY <2>4, <2>5 DEF Newest
<1> QED
  BY <1>2, <1>3

\* client_request_size
LEMMA RequestNewest ==
    ASSUME NEW r, Newest(r), NEW a, NEW n \in Size
    PROVE  Newest(Request(r, a, n))
<1> DEFINE q == [r EXCEPT !.pending = n, !.last = n]
<1>1. Newest(q)
  BY DEF Newest, Wires
<1> HIDE DEF q
<1>2. Newest(SetSize(q, a, n))
  BY <1>1, SetSizeNewest
<1>3. Request(r, a, n) \in {r, q, SetSize(q, a, n)}
  BY DEF Request, q
<1> QED
  BY <1>1, <1>2, <1>3

\* The wire after a step, field by field.
LEMMA BecomesNewest ==
    ASSUME NEW r, Newest(r), Becomes(r)
    PROVE  /\ Newest(Wire)'
           /\ last' \in Size \cup {None} /\ pending' \in Size \cup {None}
           /\ sent' \in Seq(Size) /\ awaited' \in 0..Len(sent')
<1>1. /\ r.last \in Size \cup {None} /\ r.pending \in Size \cup {None}
      /\ r.sent \in Seq(Size) /\ Len(r.sent) \in Nat
      /\ r.awaited \in Nat /\ r.awaited \in {None, Len(r.sent)}
  BY DEF Newest, Wires
<1>2. /\ last' = r.last /\ pending' = r.pending
      /\ awaited' = r.awaited /\ sent' = r.sent
  BY DEF Becomes
<1> QED
  BY <1>1, <1>2 DEF Wire, Newest, Wires, None

\* A step that leaves the wire alone.
LEMMA SameWire == ASSUME Newest(Wire), UNCHANGED wire PROVE Newest(Wire)'
BY DEF Wire, wire

-----------------------------------------------------------------------------
(* The steps.                                                                *)

\* The layout: a new box, and the two ends of a drag.
LEMMA LayoutKeeps == ASSUME Inv, Layout \/ Release PROVE Inv'
<1>1. ASSUME NEW b \in Size, Animate(b) PROVE Inv'
  <2>1. CASE UNCHANGED wire
    BY <1>1, <2>1, SameWire DEF Inv, TypeOK, Animate, Change, wire, watch, client
  <2>2. CASE Becomes(Request(Wire, acked, b))
    <3>1. Newest(Request(Wire, acked, b))
      BY RequestNewest DEF Inv
    <3>2. /\ Newest(Wire)'
          /\ last' \in Size \cup {None} /\ pending' \in Size \cup {None}
          /\ sent' \in Seq(Size) /\ awaited' \in 0..Len(sent')
      BY <2>2, <3>1, BecomesNewest
    <3> QED
      BY <1>1, <3>2 DEF Inv, TypeOK, Animate, Change, watch, client
  <2> QED
    BY <1>1, <2>1, <2>2 DEF Animate
<1>2. CASE Grab \/ Release
  <2>1. UNCHANGED wire
    BY <1>2 DEF Grab, Release
  <2> QED
    BY <1>2, <2>1, SameWire DEF Inv, TypeOK, Grab, Release, wire, watch, client
<1> QED
  BY <1>1, <1>2 DEF Layout

\* The watchdog: its counters stay in bounds, and what it sends again is awaited.
LEMMA ConvergeKeeps ==
    ASSUME SizeAssumption, BoundAssumption, Inv, NEW b \in Size, NEW still \in BOOLEAN, NEW r, Newest(r), Converge(b, still, r)
    PROVE  /\ since' \in {"unset", "within", "past"}
           /\ tries' \in 0..MaxTries /\ gaveup' \in Size \cup {None}
           /\ \E s : Newest(s) /\ Becomes(s)
<1> DEFINE redrive == Request([r EXCEPT !.last = None, !.awaited = None], acked, b)
           count == IF gaveup \notin {None, b} THEN 0 ELSE tries
<1>1. MaxTries \in Nat /\ count \in 0..MaxTries
  BY DEF Inv, TypeOK, BoundAssumption
<1>2. Newest(redrive)
  <2>1. Newest([r EXCEPT !.last = None, !.awaited = None])
    BY DEF Newest, Wires, None
  <2> QED
    BY <2>1, RequestNewest
<1> HIDE DEF redrive
<1>3. Becomes(r) \/ Becomes(redrive)
  BY DEF Converge, redrive
<1>4. \E s : Newest(s) /\ Becomes(s)
  BY <1>2, <1>3
<1>5. since' \in {"unset", "within", "past"} /\ gaveup' \in Size \cup {None}
  BY DEF Converge, Inv, TypeOK, watch
<1>6. tries' \in {0, tries, count} \/ (count < MaxTries /\ tries' = count + 1)
  BY <1>1 DEF Converge, watch
<1>7. tries' \in 0..MaxTries
  BY <1>1, <1>6 DEF Inv, TypeOK
<1> QED
  BY <1>4, <1>5, <1>7

\* A frame.
LEMMA FrameKeeps == ASSUME Inv, Frame PROVE Inv'
<1>1. PICK arrives \in BOOLEAN :
        LET b == IF arrives THEN target ELSE box
            still == moving /\ ~ arrives
        IN  /\ box' = b /\ moving' = still
            /\ Converge(b, still, IF arrives THEN Request(Wire, acked, b) ELSE Wire)
            /\ UNCHANGED <<target, dragging, client, answer, min, changes>>
  BY DEF Frame
<1> DEFINE b == IF arrives THEN target ELSE box
           still == moving /\ ~ arrives
           r == IF arrives THEN Request(Wire, acked, b) ELSE Wire
<1>2. b \in Size /\ still \in BOOLEAN
  BY DEF Inv, TypeOK
<1>3. Newest(r)
  BY <1>2, RequestNewest DEF Inv
<1>4. /\ box' = b /\ moving' = still /\ Converge(b, still, r)
      /\ UNCHANGED <<target, dragging, client, answer, min, changes>>
  BY <1>1
<1> HIDE DEF b, still, r
<1>5. /\ since' \in {"unset", "within", "past"}
      /\ tries' \in 0..MaxTries /\ gaveup' \in Size \cup {None}
      /\ \E s : Newest(s) /\ Becomes(s)
  BY <1>2, <1>3, <1>4, ConvergeKeeps, SizeAssumption, BoundAssumption
<1>6. /\ Newest(Wire)'
      /\ last' \in Size \cup {None} /\ pending' \in Size \cup {None}
      /\ sent' \in Seq(Size) /\ awaited' \in 0..Len(sent')
  BY <1>5, BecomesNewest
<1> QED
  BY <1>2, <1>4, <1>5, <1>6 DEF Inv, TypeOK, client

\* A commit of the client.
LEMMA CommitKeeps == ASSUME Inv, NEW k \in 0..Len(sent), Commit(k) PROVE Inv'
<1> DEFINE a == IF k = 0 THEN acked ELSE sent[k]
           n == IF k = 0 THEN committed ELSE answer[a]
           left == SubSeq(sent, k + 1, Len(sent))
           done == awaited # None /\ awaited <= k
           r == [Wire EXCEPT !.sent = left, !.awaited = IF @ > k THEN @ - k ELSE None]
           t == IF pending \notin {None, a} THEN SetSize(r, a, pending) ELSE r
           s == IF ~ done THEN r ELSE [t EXCEPT !.pending = None]
           u == IF moving THEN s ELSE Request(s, a, box)
<1>1. /\ sent \in Seq(Size) /\ Len(sent) \in Nat /\ k \in Nat /\ k <= Len(sent)
      /\ awaited \in Nat /\ awaited \in {None, Len(sent)}
      /\ pending \in Size \cup {None} /\ last \in Size \cup {None} /\ box \in Size
  BY DEF Inv, TypeOK, Newest, Wire, Wires
<1>2. a \in Size /\ n \in Size
  BY <1>1 DEF Inv, TypeOK
<1>3. left \in Seq(Size) /\ Len(left) = Len(sent) - k
  BY <1>1
<1>4. Newest(r)
  <2> DEFINE w == IF awaited > k THEN awaited - k ELSE None
  <2>1. w \in Nat /\ w \in {None, Len(left)}
    BY <1>1, <1>3 DEF None
  <2>2. r = [Wire EXCEPT !.sent = left, !.awaited = w]
    <3>1. Wire.awaited = awaited
      BY DEF Wire
    <3> QED
      BY <3>1
  <2> HIDE DEF w, left, r
  <2>3. /\ r.last = last /\ r.pending = pending /\ r.awaited = w /\ r.sent = left
        /\ r = [last |-> last, pending |-> pending, awaited |-> w, sent |-> left]
    BY <2>2 DEF Wire
  <2> QED
    BY <1>1, <1>3, <2>1, <2>3 DEF Newest, Wires
<1>5. Becomes(u) /\ acked' = a /\ committed' = n /\ UNCHANGED <<layout, watch, answer, min, changes>>
  BY DEF Commit
<1> HIDE DEF a, n, r
<1>6. Newest(t)
  BY <1>1, <1>4, SetSizeNewest
<1> HIDE DEF t
<1>7. Newest(s)
  BY <1>4, <1>6 DEF Newest, Wires
<1> HIDE DEF s
<1>8. Newest(u)
  BY <1>1, <1>7, RequestNewest
<1> HIDE DEF u
<1>9. /\ Newest(Wire)'
      /\ last' \in Size \cup {None} /\ pending' \in Size \cup {None}
      /\ sent' \in Seq(Size) /\ awaited' \in 0..Len(sent')
  BY <1>5, <1>8, BecomesNewest
<1> QED
  BY <1>2, <1>5, <1>9 DEF Inv, TypeOK, layout, watch

-----------------------------------------------------------------------------
(* The theorems.                                                             *)

\* A tile whose client fills its box as well as it can.
LEMMA InitInv == Init => Inv
<1> SUFFICES ASSUME Init PROVE Inv
  OBVIOUS
<1>1. /\ box \in Size /\ answer \in [Size -> Size] /\ min \in Size \cup {None}
      /\ committed \in Size /\ acked \in Size /\ target \in Size
  BY DEF Init
<1>2. sent = <<>> /\ sent \in Seq(Size) /\ Len(sent) = 0
  BY DEF Init
<1>3. /\ last \in Size \cup {None} /\ pending \in Size \cup {None}
      /\ awaited = 0 /\ awaited \in 0..Len(sent)
  BY <1>1, <1>2 DEF Init, None
<1>4. Newest(Wire)
  BY <1>2, <1>3 DEF Newest, Wire, Wires, None
<1>5. tries \in 0..MaxTries /\ gaveup \in Size \cup {None} /\ since \in {"unset", "within", "past"}
  BY BoundAssumption DEF Init, BoundAssumption, None
<1>6. moving \in BOOLEAN /\ dragging \in BOOLEAN
  BY DEF Init
<1> QED
  BY <1>1, <1>2, <1>3, <1>4, <1>5, <1>6 DEF Inv, TypeOK

\* Every step keeps the invariant.
LEMMA NextInv == Inv /\ [Next]_vars => Inv'
<1> SUFFICES ASSUME Inv, [Next]_vars PROVE Inv'
  OBVIOUS
<1>1. CASE UNCHANGED vars
  <2>1. UNCHANGED wire
    BY <1>1 DEF vars
  <2> QED
    BY <1>1, <2>1, SameWire DEF Inv, TypeOK, vars, layout, wire, watch, client
<1>2. CASE Layout \/ Release
  BY <1>2, LayoutKeeps
<1>3. CASE Frame
  BY <1>3, FrameKeeps
<1>4. CASE Elapse
  <2>1. UNCHANGED wire
    BY <1>4 DEF Elapse
  <2> QED
    BY <1>4, <2>1, SameWire DEF Inv, TypeOK, Elapse, layout, wire, client
<1>5. CASE Client
  BY <1>5, CommitKeeps DEF Client
<1> QED
  BY <1>1, <1>2, <1>3, <1>4, <1>5 DEF Next

\* So every reachable state satisfies it.
LEMMA AlwaysInv == Spec => []Inv
BY InitInv, NextInv, PTL DEF Spec

\* Every reachable state of a tile, its client and the watchdog is well typed; the tries
\* of converge.c stay within CONVERGE_MAX_TRIES.
THEOREM TileTyped == Spec => []TypeOK
<1>1. Inv => TypeOK
  BY DEF Inv
<1> QED
  BY <1>1, AlwaysInv, PTL

\* commitnotify takes c->resize for answered once the client has acked that serial: it is
\* always the newest one sent, also after converge.c has sent a size again.
THEOREM NewestIsAwaited == Spec => [](awaited \in {None, Len(sent)})
<1>1. Inv => awaited \in {None, Len(sent)}
  BY DEF Inv, Newest, Wire
<1> QED
  BY <1>1, AlwaysInv, PTL
=============================================================================
