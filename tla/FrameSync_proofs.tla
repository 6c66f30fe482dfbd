-------------------------- MODULE FrameSync_proofs --------------------------
(***************************************************************************)
(* Theorems on Frames and AdaptiveSync, which share no state.               *)
(*                                                                         *)
(* An output that is lit is never forgotten, whatever the bounds: the       *)
(* requests that frame_scheduled suppresses are answered by a frame on its  *)
(* way, and every pass leaves a frame or the heartbeat behind.              *)
(*                                                                         *)
(* Adaptive sync always has an owner, for any set of windows and outputs    *)
(* and any number of tries.  What a handler does to an output is a chain of *)
(* operators on its fields, and each of them keeps the fields Accounted.    *)
(***************************************************************************)
EXTENDS Frames, AdaptiveSync, Fullscreen_proofs

\* The two invariants as predicates of a state inside a pass: the flag is
\* truthful all along, something comes only when the pass is over.
Truthful(s) == s.on /\ s.flag => Coming(s) \/ s.lost
Awaited(s) == s.on => s.beat \/ Coming(s) \/ s.lost
Within(s) == s \in State /\ Truthful(s)
Over(s) == Within(s) /\ Awaited(s)

\* A scheduled frame is coming.
LEMMA ScheduleComes ==
    ASSUME NEW s \in State
    PROVE  Over(Schedule(s))
BY DEF Schedule, Over, Within, Truthful, Awaited, Coming, State

\* A request is answered by the frame it schedules or by the one that the flag
\* already stands for.
LEMMA RequestComes ==
    ASSUME NEW s, Within(s)
    PROVE  Over(Request(s))
<1>1. CASE s.flag
  BY <1>1 DEF Request, Over, Within, Truthful, Awaited
<1>2. CASE ~ s.flag
  <2> DEFINE t == Schedule(s)
             r == [t EXCEPT !.flag = TRUE]
  <2>1. s \in State
    BY DEF Within
  <2>2. t \in State /\ Coming(t)
    BY <2>1 DEF Schedule, Coming, State
  <2> HIDE DEF t
  <2>3. r \in State /\ Coming(r)
    BY <2>2 DEF Coming, State
  <2>4. Request(s) = r
    BY <1>2 DEF Request, t
  <2> HIDE DEF r
  <2> QED
    BY <2>3, <2>4 DEF Over, Within, Truthful, Awaited
<1>3. s.flag \in BOOLEAN
  BY DEF Within, State
<1> QED
  BY <1>1, <1>2, <1>3

\* A commit that wlroots accepts brings a flip; one that the kernel refuses
\* leaves no flag behind that is not known to be lost.
LEMMA CommitTruthful ==
    ASSUME NEW s, Within(s)
    PROVE  Within(Accept(s)) /\ Within(Refuse(s)) /\ Awaited(Accept(s))
BY DEF Accept, Refuse, Within, Truthful, Awaited, Coming, State

\* A mode change keeps the flag truthful.
LEMMA ModesetTruthful ==
    ASSUME NEW s, Within(s), NEW u \in Modeset(s)
    PROVE  Within(u)
<1>1. CASE u = [Accept(s) EXCEPT !.on = TRUE, !.needs = TRUE, !.damage = TRUE]
      BY <1>1 DEF Accept, Within, Truthful, Coming, State
<1>2. CASE u = Refuse(s)
      BY <1>2, CommitTruthful
<1>3. CASE u = s
      BY <1>3
<1>4. CASE s.on /\ u = [s EXCEPT !.pending = TRUE, !.needs = FALSE, !.lost = FALSE]
      BY <1>4 DEF Within, Truthful, Coming, State
<1> QED BY <1>1, <1>2, <1>3, <1>4 DEF Modeset

\* Taking the flag down cannot make it lie.
LEMMA ClearedTruthful ==
    ASSUME NEW s \in State
    PROVE  Within(Cleared(s)) /\ Cleared(s).armed = s.armed
BY DEF Cleared, Within, Truthful, State

\* The first stages of a pass: animations, and a mode change put off to it.
LEMMA ReadyTruthful ==
    ASSUME NEW s, Within(s), NEW t \in Ticked(s)
    PROVE  Within(t) /\ \A u \in Remoded(t) : Within(u)
<1>1. Within(t)
  <2>1. CASE s.moving
    <3>1. [s EXCEPT !.moving = FALSE] \in State
          BY DEF Within, State
    <3>2. Within([s EXCEPT !.moving = FALSE])
          BY <3>1 DEF Within, Truthful, Coming, State
    <3> QED BY <2>1, <3>1, <3>2, ScheduleComes DEF Ticked, Over, Within
  <2> QED BY <2>1 DEF Ticked
<1> QED BY <1>1, ModesetTruthful DEF Remoded

\* The stages that commit.
LEMMA FailedTruthful ==
    ASSUME FramesAssumption, NEW s, Within(s), NEW why, NEW u \in Failed(s, why)
    PROVE  Within(u)
<1> DEFINE n == IF s.fails > MaxTransient THEN s.fails ELSE s.fails + 1
           r == IF s.on THEN Refuse(s) ELSE s
           t == [r EXCEPT !.fails = n]
<1>1. Within(r)
      BY CommitTruthful
<1>2. n \in 0..(MaxTransient + 1)
      BY DEF Within, State, FramesAssumption
<1>3. Within(t)
      BY <1>1, <1>2 DEF Within, Truthful, Coming, State
<1>4. Within(Accept(t))
      BY <1>3, CommitTruthful
<1>5. \A v \in {t, Accept(t)} : Within(v) /\ Within(Request(v))
      BY <1>3, <1>4, RequestComes DEF Over
<1>6. u \in {t, Accept(t), Request(t), Request(Accept(t))}
      BY DEF Failed
<1> QED BY <1>5, <1>6

\* A commit of the stages below leaves the flag truthful.
LEMMA CommittedTruthful ==
    ASSUME FramesAssumption, NEW s, Within(s), NEW how, NEW u \in Committed(s, how)
    PROVE  Within(u)
<1>1. PICK a : u \in IF a = "ok" THEN {[Accept(s) EXCEPT !.fails = 0]} ELSE Failed(s, a)
      BY DEF Committed
<1>2. CASE a = "ok"
  <2>1. Within(Accept(s))
        BY CommitTruthful
  <2> QED BY <1>1, <1>2, <2>1 DEF Within, Truthful, Coming, State, FramesAssumption
<1>3. CASE a # "ok"
      BY <1>1, <1>3, FailedTruthful
<1> QED BY <1>2, <1>3

\* The ends of a pass: frame_done withheld with a new request, or given with
\* the heartbeat armed.
LEMMA FinishedOver ==
    ASSUME FramesAssumption, NEW S, \A s \in S : Within(s), NEW u \in Finished(S)
    PROVE  Over(u)
<1>1. PICK s \in S : u \in Held(s) \cup Answered(s)
      BY DEF Finished
<1>2. Within(s)
      BY <1>1
<1>3. CASE u \in Held(s)
  <2>1. s.held + 1 < MaxHold /\ u = Request([s EXCEPT !.held = @ + 1])
        BY <1>3 DEF Held
  <2>2. Within([s EXCEPT !.held = @ + 1])
        BY <1>2, <2>1 DEF Within, Truthful, Coming, State, FramesAssumption
  <2> QED BY <2>1, <2>2, RequestComes
<1>4. CASE u \in Answered(s)
  <2> DEFINE t == [s EXCEPT !.held = 0, !.beat = TRUE, !.due = FALSE]
             quiet == IF t.waits \in Served(s) THEN [t EXCEPT !.waits = "no"] ELSE t
  <2>a. 0 \in 0..(MaxHold - 1)
        BY FramesAssumption DEF FramesAssumption
  <2>b. s \in State /\ Truthful(s)
        BY <1>2 DEF Within
  <2>c. t \in State /\ t.on = s.on /\ t.flag = s.flag /\ t.idle = s.idle
        /\ t.pending = s.pending /\ t.armed = s.armed /\ t.lost = s.lost /\ t.beat = TRUE
        BY <2>a, <2>b DEF State
  <2>1. Over(t)
        BY <2>b, <2>c DEF Over, Within, Awaited, Truthful, Coming
  <2>2. Over([t EXCEPT !.waits = "no"])
        BY <2>1 DEF Over, Within, Awaited, Truthful, Coming, State
  <2>3. Over(quiet)
        BY <2>1, <2>2
  <2>4. Over(Request(quiet))
        BY <2>3, RequestComes DEF Over
  <2>5. u \in {t, quiet, Request(quiet)}
        BY <1>4 DEF Answered, Serve
  <2> QED BY <2>1, <2>3, <2>4, <2>5
<1> QED BY <1>1, <1>3, <1>4

\* rendermon, from any state: the flag has been answered, and something is
\* left behind.
LEMMA RendermonOver ==
    ASSUME FramesAssumption, NEW s \in State, NEW fired, NEW u \in Rendermon(s, fired)
    PROVE  Over(u)
<1> DEFINE t == Cleared(s)
           ready == UNION {Remoded(v) : v \in Ticked(t)}
<1>1. Within(t) /\ t.armed = s.armed
      BY ClearedTruthful
<1>2. \A v \in Ticked(t) : Within(v)
      BY <1>1, ReadyTruthful
<1>3. \A v \in ready : Within(v)
      BY <1>1, ReadyTruthful
<1>4. CASE s.armed
  <2>1. u = t
        BY <1>4 DEF Rendermon, Undrawn
  <2> QED BY <1>1, <1>4, <2>1 DEF Over, Awaited, Coming
<1>5. ASSUME ~ s.armed, NEW v \in Ticked(t), u \in Deferred(v, fired)
      PROVE  Over(u)
  <2>1. Within(v)
        BY <1>2, <1>5
  <2>2. u = [v EXCEPT !.armed = TRUE]
        BY <1>5 DEF Deferred
  <2> QED BY <2>1, <2>2 DEF Over, Within, Awaited, Truthful, Coming, State
<1>6. ASSUME u \in Finished(UNION {Skipped(v) : v \in ready})
      PROVE  Over(u)
  <2>1. \A w \in UNION {Skipped(v) : v \in ready} : Within(w)
        BY <1>3 DEF Skipped
  <2> QED BY <1>6, <2>1, FinishedOver
<1>7. ASSUME NEW v \in ready, u \in Unbuilt(v)
      PROVE  Over(u)
  <2>1. Within(v)
        BY <1>3, <1>7
  <2>2. \A w \in {v, Accept(v), Refuse(v)} : Within(w)
        BY <2>1, CommitTruthful
  <2>3. PICK w \in {v, Accept(v), Refuse(v)} : u = Request(w)
        BY <1>7 DEF Unbuilt
  <2> QED BY <2>2, <2>3, RequestComes
<1>8. ASSUME NEW how, u \in Drawn(s, how)
      PROVE  Over(u)
  <2> DEFINE S == UNION {IF Skipped(v) = {} \/ v.content = "game"
                         THEN Committed(v, how) ELSE {} : v \in ready}
  <2>1. \A w \in S : Within(w)
        BY <1>3, CommittedTruthful
  <2>2. u \in Finished(S)
        BY <1>8 DEF Drawn
  <2> QED BY <2>1, <2>2, FinishedOver
<1>9. CASE ~ s.armed
  <2> DEFINE A == UNION {Deferred(v, fired) : v \in Ticked(t)}
             B == Finished(UNION {Skipped(v) : v \in ready})
             C == UNION {Unbuilt(v) : v \in {w \in ready : Skipped(w) = {} \/ w.content = "game"}}
             D == Drawn(s, {"ok", "late", "reject"})
  <2>1. CASE u \in A
        BY <1>5, <1>9, <2>1
  <2>2. CASE u \in B
        BY <1>6, <2>2
  <2>3. CASE u \in C
        BY <1>7, <2>3
  <2>4. CASE u \in D
        BY <1>8, <2>4
  <2>5. Undrawn(s, fired) = A \cup B \cup C
        BY <1>9 DEF Undrawn
  <2>6. Rendermon(s, fired) = Undrawn(s, fired) \cup D
        BY <1>9 DEF Rendermon
  <2> HIDE DEF A, B, C, D
  <2> QED BY <2>1, <2>2, <2>3, <2>4, <2>5, <2>6
<1> QED BY <1>4, <1>9

\* A pass that finds nothing to draw on a still desktop asks for nothing.
LEMMA StillPassEnds ==
    ASSUME NEW s \in State, s.content = "desktop",
           ~ s.moving, ~ s.needs, ~ s.damage, ~ Coming(s),
           NEW u \in Rendermon(s, FALSE)
    PROVE  ~ Coming(u)
<1> DEFINE t == Cleared(s)
           ready == UNION {Remoded(v) : v \in Ticked(t)}
<1>1. /\ t \in State /\ t.content = "desktop" /\ ~ t.moving /\ ~ t.needs /\ ~ t.damage
      /\ ~ t.idle /\ ~ t.pending /\ ~ t.armed /\ ~ s.armed
      BY DEF Cleared, Coming, State
<1> HIDE DEF t
<1>2. Ticked(t) = {t}
      BY <1>1 DEF Ticked
<1>3. Remoded(t) = {t}
      BY <1>1 DEF Remoded, Fullscreen
<1>4. ready = {t}
      BY <1>2, <1>3
<1> HIDE DEF ready
<1>5. Skipped(t) = {t} /\ t.content # "game"
      BY <1>1 DEF Skipped
<1>6. \A v \in Answered(t) \cup Held(t) : ~ Coming(v)
  <2> DEFINE r == [t EXCEPT !.held = 0, !.beat = TRUE, !.due = FALSE]
  <2>1. ~ Coming(r) /\ ~ Coming([r EXCEPT !.waits = "no"])
        BY <1>1 DEF Coming, State
  <2>2. Held(t) = {}
        BY <1>5 DEF Held
  <2>3. \A v \in Answered(t) : v = r \/ v = [r EXCEPT !.waits = "no"]
        BY <1>1 DEF Answered, Serve, Fullscreen
  <2> QED BY <2>1, <2>2, <2>3
<1>7. \A v \in Finished({t}) : ~ Coming(v)
      BY <1>6 DEF Finished
<1> DEFINE A == UNION {Deferred(v, FALSE) : v \in Ticked(t)}
           B == Finished(UNION {Skipped(v) : v \in ready})
           C == UNION {Unbuilt(v) : v \in {w \in ready : Skipped(w) = {} \/ w.content = "game"}}
           D == Drawn(s, {"ok", "late", "reject"})
<1>8. A = {}
      BY <1>2, <1>5 DEF Deferred
<1>9. \A v \in B : ~ Coming(v)
  <2>1. UNION {Skipped(v) : v \in ready} = {t}
        BY <1>4, <1>5
  <2> QED BY <1>7, <2>1
<1>10. C = {}
      BY <1>4, <1>5
<1>11. D = {}
  <2> DEFINE S == UNION {IF Skipped(v) = {} \/ v.content = "game"
                         THEN Committed(v, {"ok", "late", "reject"}) ELSE {} : v \in ready}
  <2>1. S = {}
        BY <1>4, <1>5
  <2>2. D = Finished(S)
        BY DEF Drawn, t, ready
  <2>3. Finished({}) = {}
        BY DEF Finished
  <2> HIDE DEF S
  <2> QED BY <2>1, <2>2, <2>3
<1>12. Undrawn(s, FALSE) = A \cup B \cup C
      BY <1>1 DEF Undrawn, t, ready
<1>13. Rendermon(s, FALSE) = Undrawn(s, FALSE) \cup D
      BY <1>1 DEF Rendermon
<1> HIDE DEF A, B, C, D
<1> QED BY <1>8, <1>9, <1>10, <1>11, <1>12, <1>13

-----------------------------------------------------------------------------
(* The theorems on frames.                                                    *)

\* An output that is off awaits nothing.
LEMMA DarkenedWithin ==
    ASSUME NEW s, Within(s), NEW u \in Darkened(s)
    PROVE  Within(u)
<1>1. CASE u = [s EXCEPT !.on = FALSE]
      BY <1>1 DEF Within, Truthful, State
<1> QED BY <1>1 DEF Darkened

Inv == Over(f)

\* createmon's first commit is a frame on its way.
LEMMA FramesInit == FramesAssumption /\ Init => Inv
BY DEF FramesAssumption, Init, Inv, Over, Within, Truthful, Awaited, Coming, State, Contents

\* Every handler leaves the output awaited.
LEMMA FramesNext ==
    ASSUME FramesAssumption, Inv, [Next]_vars
    PROVE  Inv'
<1>0. Within(f) /\ Awaited(f) /\ f \in State
      BY DEF Inv, Over, Within
<1>1. CASE IdleFrame
  <2> DEFINE s == [f EXCEPT !.idle = FALSE]
  <2>1. s \in State /\ s.on = f.on /\ s.pending = f.pending
        BY <1>0 DEF State
  <2>2. CASE s.on /\ ~ s.pending
        BY <1>1, <2>1, <2>2, RendermonOver DEF IdleFrame, Inv
  <2>3. CASE ~ (s.on /\ ~ s.pending)
    <3>1. f' = s
          BY <1>1, <2>3 DEF IdleFrame
    <3>2. Over(s)
          BY <1>0, <2>1, <2>3 DEF Over, Within, Truthful, Awaited, Coming, State
    <3> QED BY <3>1, <3>2 DEF Inv
  <2> QED BY <2>2, <2>3
<1>2. CASE Flip
  <2>1. [f EXCEPT !.pending = FALSE] \in State
        BY <1>0 DEF State
  <2> QED BY <1>2, <2>1, RendermonOver DEF Flip, Inv
<1>3. CASE LatchFires
  <2>1. [f EXCEPT !.armed = FALSE] \in State
        BY <1>0 DEF State
  <2> QED BY <1>3, <2>1, RendermonOver DEF LatchFires, Inv
<1>4. CASE Heartbeat
  <2>1. Within([f EXCEPT !.beat = FALSE, !.due = TRUE])
        BY <1>0 DEF Within, Truthful, Coming, State
  <2> QED BY <1>4, <2>1, RequestComes DEF Heartbeat, Inv
<1>5. CASE Second
  <2>1. Over([f EXCEPT !.due = TRUE])
        BY <1>0 DEF Over, Within, Truthful, Awaited, Coming, State
  <2> QED BY <1>5, <2>1 DEF Second, Inv
<1>6. CASE Damage
  <2>1. [f EXCEPT !.damage = TRUE] \in State
        BY <1>0 DEF State
  <2> QED BY <1>6, <2>1, ScheduleComes DEF Damage, Inv
<1>7. CASE Ask
  <2>1. [f EXCEPT !.waits = "seen"] \in State
        BY <1>0 DEF State
  <2>2. Over([f EXCEPT !.waits = "hidden"])
        BY <1>0 DEF Over, Within, Truthful, Awaited, Coming, State
  <2> QED BY <1>7, <2>1, <2>2, ScheduleComes DEF Ask, Inv
<1>8. CASE Cover
  <2>1. Within([f EXCEPT !.waits = IF @ = "seen" THEN "hidden" ELSE "seen"])
        BY <1>0 DEF Within, Truthful, Coming, State
  <2> QED BY <1>8, <2>1, RequestComes DEF Cover, Inv
<1>9. CASE Arrange
  <2>1. Within([f EXCEPT !.moving = TRUE])
        BY <1>0 DEF Within, Truthful, Coming, State
  <2> QED BY <1>0, <1>9, <2>1, RequestComes DEF Arrange, Inv
<1>10. CASE Change
  <2>1. PICK c \in Contents : f' \in {[f EXCEPT !.content = c], Request([f EXCEPT !.content = c])}
        BY <1>10 DEF Change
  <2>2. Over([f EXCEPT !.content = c])
        BY <1>0 DEF Over, Within, Truthful, Awaited, Coming, State
  <2> QED BY <2>1, <2>2, RequestComes DEF Inv, Over
<1>11. CASE Sleep \/ WakeUp \/ Configure \/ Reload
  <2>1. Within(Cleared(f))
        BY <1>0, ClearedTruthful
  <2>2. PICK S : f' \in Updated(S) /\ \A u \in S : Within(u)
        BY <1>0, <1>11, <2>1, ModesetTruthful, ClearedTruthful, DarkenedWithin
        DEF Sleep, WakeUp, Configure, Reload, Within
  <2>3. PICK s \in S : f' = IF s.on THEN Request(s) ELSE s
        BY <2>2 DEF Updated
  <2>4. CASE s.on
        BY <2>2, <2>3, <2>4, RequestComes DEF Inv
  <2>5. CASE ~ s.on
        BY <2>2, <2>3, <2>5 DEF Inv, Over, Awaited
  <2> QED BY <2>4, <2>5
<1>12. CASE UNCHANGED vars
      BY <1>12 DEF vars, Inv, Over, Within, Truthful, Awaited, Coming, State
<1> QED BY <1>1, <1>2, <1>3, <1>4, <1>5, <1>6, <1>7, <1>8, <1>9, <1>10, <1>11, <1>12 DEF Next

\* Every reachable state of an output is well typed.
THEOREM OutputTyped == Spec => []TypeOK
<1>1. Inv => TypeOK
      BY DEF Inv, Over, Within, TypeOK
<1> QED BY <1>1, FramesInit, FramesNext, FramesAssumption, PTL DEF Spec

\* frame_scheduled is only ever set on a lit output while a frame is on its way,
\* unless the kernel has refused a mode change.
THEOREM FlagTruthful == Spec => []FlagMeansFrame
<1>1. Inv => FlagMeansFrame
      BY DEF Inv, Over, Within, Truthful, FlagMeansFrame
<1> QED BY <1>1, FramesInit, FramesNext, FramesAssumption, PTL DEF Spec

\* Whatever ended the chain of frames of a lit output, its heartbeat is armed.
THEOREM OutputRemembered == Spec => []NeverForgotten
<1>1. Inv => NeverForgotten
      BY DEF Inv, Over, Awaited, NeverForgotten
<1> QED BY <1>1, FramesInit, FramesNext, FramesAssumption, PTL DEF Spec

\* A pass that finds nothing to draw on a still desktop is the last of its chain.
THEOREM IdleEnds == Spec => IdleChainEnds
<1> DEFINE Idle == f.content = "desktop" /\ ~ (f.moving \/ f.needs \/ f.damage \/ f.armed)
           Pass == (IdleFrame /\ ~ f.pending) \/ (Flip /\ ~ f.idle)
<1>1. ASSUME Inv, Idle, Pass
      PROVE  ~ Coming(f)'
  <2>1. f \in State
        BY <1>1 DEF Inv, Over, Within
  <2>2. CASE IdleFrame /\ ~ f.pending
    <3> DEFINE s == [f EXCEPT !.idle = FALSE]
    <3>1. /\ s \in State /\ s.content = "desktop"
          /\ ~ s.moving /\ ~ s.needs /\ ~ s.damage /\ ~ Coming(s)
          BY <1>1, <2>1, <2>2 DEF Coming, State
    <3>2. f' \in Rendermon(s, FALSE) \/ f' = s
          BY <2>2 DEF IdleFrame
    <3> QED BY <3>1, <3>2, StillPassEnds DEF Coming
  <2>3. CASE Flip /\ ~ f.idle
    <3> DEFINE s == [f EXCEPT !.pending = FALSE]
    <3>1. /\ s \in State /\ s.content = "desktop"
          /\ ~ s.moving /\ ~ s.needs /\ ~ s.damage /\ ~ Coming(s)
          BY <1>1, <2>1, <2>3 DEF Coming, State
    <3> QED BY <2>3, <3>1, StillPassEnds DEF Flip, Coming
  <2> QED BY <1>1, <2>2, <2>3
<1>2. Inv /\ [Next]_vars => [Idle /\ Pass => ~ Coming(f)']_vars
      BY <1>1
<1> QED BY <1>2, FramesInit, FramesNext, FramesAssumption, PTL DEF Spec, IdleChainEnds

-----------------------------------------------------------------------------
\* The fields of one output are well typed and account for its adaptive sync.
Accounted(o) == o \in Output /\ (o.sync => o.vrr \/ o.gvrr \/ o.lost)

\* The inductive invariant.
SyncInv == SyncTypeOK /\ SyncOwned

-----------------------------------------------------------------------------
(* The commits of adaptive sync alone (commit_adaptive_sync).                      *)

\* set_adaptive_sync followed by enable_game_vrr, which have the same answer.
LEMMA EnteredAccounts ==
    ASSUME NEW m \in Mon, NEW o, Accounted(o), NEW c \in Client, NEW ok \in BOOLEAN
    PROVE  Accounted(Entered(m, o, c, ok))
<1>1. CASE ~ (c \in Game /\ lit[m] /\ m \in Rich /\ allow /\ ok)
  BY <1>1 DEF Accounted, Entered, EnableGame, SetSync
<1>2. CASE c \in Game /\ lit[m] /\ m \in Rich /\ allow /\ ok
  <2> DEFINE p == Synced(o, TRUE)
  <2>1. p \in Output /\ p.gvrr = o.gvrr
    BY DEF Accounted, Output, Synced
  <2>2. Entered(m, o, c, ok) = IF p.gvrr THEN p ELSE [Synced(p, TRUE) EXCEPT !.gvrr = TRUE]
    BY <1>2 DEF Entered, EnableGame, SetSync
  <2>3. CASE p.gvrr
    BY <2>1, <2>2, <2>3 DEF Accounted
  <2>4. CASE ~ p.gvrr
    <3> DEFINE q == Synced(p, TRUE)
    <3> HIDE DEF p
    <3>1. q \in Output
      BY <2>1 DEF Output, Synced
    <3> HIDE DEF q
    <3>2. [q EXCEPT !.gvrr = TRUE] \in Output /\ [q EXCEPT !.gvrr = TRUE].gvrr
      BY <3>1 DEF Output
    <3> QED
      BY <2>2, <2>4, <3>2 DEF Accounted, q
  <2> QED
    BY <2>3, <2>4
<1> QED
  BY <1>1, <1>2

\* set_adaptive_sync(m, 0) never leaves adaptive sync on without an owner.
LEMMA SetSyncAccounts ==
    ASSUME NEW m \in Mon, NEW o, Accounted(o), NEW ok \in BOOLEAN
    PROVE  Accounted(SetSync(m, o, FALSE, ok))
BY DEF Accounted, Output, SetSync, Synced

\* disable_game_vrr gives up its flag: then sync is off, somebody else's, or lost.
LEMMA DisableGameAccounts ==
    ASSUME NEW m \in Mon, NEW o, Accounted(o), NEW ok \in BOOLEAN
    PROVE  Accounted(DisableGame(m, o, ok))
<1>1. CASE ~ o.gvrr
  BY <1>1 DEF DisableGame
<1>2. CASE o.gvrr /\ lit[m] /\ ok
  BY <1>2 DEF Accounted, Output, DisableGame, Synced
<1>3. CASE o.gvrr /\ ~ (lit[m] /\ ok)
  BY <1>3 DEF Accounted, Output, DisableGame
<1> QED
  BY <1>1, <1>2, <1>3

\* enable_game_vrr alone, from update_game_mode.
LEMMA EnableGameAccounts ==
    ASSUME NEW m \in Mon, NEW o, Accounted(o), NEW ok \in BOOLEAN
    PROVE  Accounted(EnableGame(m, o, ok))
BY DEF Accounted, Output, EnableGame, Synced

-----------------------------------------------------------------------------
(* What only asks the next frame for something leaves sync and its owners alone.   *)

\* enable_vrr_video_mode
LEMMA EnableVideoAccounts ==
    ASSUME NEW m \in Mon, NEW o, Accounted(o), NEW p \in EnableVideo(m, o)
    PROVE  Accounted(p)
BY DEF Accounted, Output, EnableVideo

\* disable_vrr_video_mode
LEMMA DisableVideoAccounts ==
    ASSUME NEW m \in Mon, NEW o, Accounted(o)
    PROVE  Accounted(DisableVideo(m, o))
BY DEF Accounted, Output, DisableVideo

\* restore_max_refresh_rate
LEMMA RestoreMaxAccounts ==
    ASSUME NEW m \in Mon, NEW o, Accounted(o)
    PROVE  Accounted(RestoreMax(m, o))
<1> DEFINE p == IF o.vrr THEN DisableVideo(m, o) ELSE o
<1>1. Accounted(p)
  BY DisableVideoAccounts
<1>2. Accounted([p EXCEPT !.bad = FALSE])
  BY <1>1 DEF Accounted, Output
<1> QED
  BY <1>2 DEF RestoreMax

\* invalidate_video_pacing
LEMMA InvalidatedAccounts ==
    ASSUME NEW o, Accounted(o)
    PROVE  Accounted(Invalidated(o))
BY DEF Accounted, Output, Invalidated

\* setfullscreen(c, 0)
LEMMA ReleasedAccounts ==
    ASSUME NEW m \in Mon, NEW o, Accounted(o), NEW ok \in BOOLEAN
    PROVE  Accounted(Released(m, o, ok))
<1>1. Accounted(SetSync(m, o, FALSE, ok))
  BY SetSyncAccounts
<1>2. Accounted(DisableGame(m, SetSync(m, o, FALSE, ok), ok))
  BY <1>1, DisableGameAccounts
<1> QED
  BY <1>2, RestoreMaxAccounts DEF Released

\* unmapnotify
LEMMA UnmappedAccounts ==
    ASSUME NEW m \in Mon, NEW o, Accounted(o), NEW ok \in BOOLEAN
    PROVE  Accounted(Unmapped(m, o, ok))
<1>1. Accounted(SetSync(m, o, FALSE, ok))
  BY SetSyncAccounts
<1> QED
  BY <1>1, RestoreMaxAccounts DEF Unmapped

-----------------------------------------------------------------------------
(* The frame that carries a change.                                                *)

\* Whatever the hardware answers, the change is over and sync has an owner: when the
\* hardware has taken an enable, the finalizing code notes it as the video's.
LEMMA FrameAccounts ==
    ASSUME NEW o, Accounted(o), o.want # "none", NEW answer \in {"takes", "ignores", "refuses"}
    PROVE  Accounted(Settled(Aboard(o, answer)))
<1> DEFINE p == Aboard(o, answer)
<1>1. MaxTries \in Nat \ {0}
  BY SyncAssumption DEF SyncAssumption
<1>2. p \in Output /\ p.vrr = o.vrr /\ p.gvrr = o.gvrr /\ (p.sync => p.lost = o.lost)
      /\ (p.sync = o.sync \/ (p.want # "none" /\ p.sync = (p.want = "on")))
  <2>1. CASE answer = "takes"
    BY <2>1 DEF Accounted, Output, Aboard, Synced
  <2>2. CASE answer = "ignores"
    BY <2>2 DEF Accounted, Output, Aboard
  <2>3. CASE answer = "refuses" /\ o.tries + 1 < MaxTries
    <3>1. o.tries + 1 \in 0..(MaxTries - 1)
      BY <1>1, <2>3 DEF Accounted, Output
    <3>2. p = [o EXCEPT !.tries = o.tries + 1]
      BY <2>3 DEF Aboard
    <3> QED
      BY <3>1, <3>2 DEF Accounted, Output
  <2>4. CASE answer = "refuses" /\ ~ (o.tries + 1 < MaxTries)
    <3> DEFINE b == o.bad \/ o.want = "on"
    <3>1. 0 \in 0..(MaxTries - 1) /\ b \in BOOLEAN
      BY <1>1
    <3>2. p = [o EXCEPT !.tries = 0, !.want = "none", !.bad = b]
      BY <2>4 DEF Aboard
    <3> HIDE DEF p, b
    <3> QED
      BY <3>1, <3>2 DEF Accounted, Output
  <2> QED
    BY <2>1, <2>2, <2>3, <2>4
<1>3. ASSUME NEW q, q \in Output, q.vrr = o.vrr, q.gvrr = o.gvrr, q.sync => q.lost = o.lost,
             q.sync = o.sync \/ (q.want # "none" /\ q.sync = (q.want = "on"))
      PROVE  Accounted(Settled(q))
  <2>1. CASE q.want = "none"
    BY <1>3, <2>1 DEF Accounted, Settled
  <2>2. CASE q.want # "none" /\ q.sync = (q.want = "on")
    BY <1>3, <2>2 DEF Accounted, Output, Settled
  <2>3. CASE q.want # "none" /\ q.sync # (q.want = "on")
    BY <1>3, <2>3 DEF Accounted, Output, Settled
  <2> QED
    BY <2>1, <2>2, <2>3
<1> HIDE DEF p
<1>4. Accounted(Settled(p))
  BY <1>2, <1>3
<1> QED
  BY <1>4 DEF p
-----------------------------------------------------------------------------
(* The steps.                                                                      *)

\* The invariant, output by output.
LEMMA ByOutput ==
    SyncInv <=> /\ DeskTypeOK /\ allow \in BOOLEAN /\ ultra \in BOOLEAN
                /\ out \in [Mon -> Output] /\ \A m \in Mon : Accounted(out[m])
BY DEF SyncInv, SyncTypeOK, SyncOwned, Accounted

\* A step that gives every output accounted fields keeps the invariant.
LEMMA AllKept ==
    ASSUME DOMAIN out' = Mon, out' = [m \in Mon |-> out'[m]], \A m \in Mon : Accounted(out'[m]),
           DeskTypeOK', allow' \in BOOLEAN, ultra' \in BOOLEAN
    PROVE  SyncInv'
<1>1. out' \in [Mon -> Output]
  BY DEF Accounted
<1> QED
  BY <1>1 DEF SyncInv, SyncTypeOK, SyncOwned, Accounted

\* So does a step that gives one output accounted fields.
LEMMA SetsKept ==
    ASSUME SyncInv, NEW m \in Mon, NEW o, Accounted(o), out' = [out EXCEPT ![m] = o],
           DeskTypeOK', allow' \in BOOLEAN, ultra' \in BOOLEAN
    PROVE  SyncInv'
<1>1. out \in [Mon -> Output] /\ \A d \in Mon : Accounted(out[d])
  BY ByOutput
<1>2. out' \in [Mon -> Output] /\ \A d \in Mon : Accounted(out'[d])
  BY <1>1 DEF Accounted
<1> QED
  BY <1>2 DEF SyncInv, SyncTypeOK, SyncOwned, Accounted

\* So does a step that leaves the outputs alone.
LEMMA UnchangedKept ==
    ASSUME SyncInv, UNCHANGED out, DeskTypeOK', allow' \in BOOLEAN, ultra' \in BOOLEAN
    PROVE  SyncInv'
BY DEF SyncInv, SyncTypeOK, SyncOwned

\* The windows: setfullscreen, setmon, mapnotify and unmapnotify.
LEMMA WindowsKeep ==
    ASSUME SyncInv, NEW c \in Client, NEW m \in Mon,
           Enter(c) \/ Exit(c) \/ Unmap(c) \/ MapFull(c, m) \/ MapTile(c, m) \/ Move(c, m)
    PROVE  SyncInv'
<1>1. /\ DeskTypeOK /\ sel \in Mon /\ allow \in BOOLEAN /\ ultra \in BOOLEAN
      /\ \A d \in Mon : Accounted(out[d])
  BY ByOutput DEF DeskTypeOK
<1>2. CASE Enter(c)
  <2>1. Fills(c) /\ DeskTypeOK' /\ win[c].at \in Mon
    BY <1>1, <1>2, FillsTyped DEF Enter
  <2>2. PICK ok \in BOOLEAN : Sets(win[c].at, Entered(win[c].at, out[win[c].at], c, ok))
    BY <1>2 DEF Enter
  <2>3. Accounted(Entered(win[c].at, out[win[c].at], c, ok))
    BY <1>1, <2>1, EnteredAccounts
  <2> QED
    BY <1>1, <2>1, <2>2, <2>3, SetsKept DEF Sets, user
<1>3. CASE Exit(c)
  <2>1. Leaves(c) /\ DeskTypeOK' /\ win[c].at \in Mon
    BY <1>1, <1>3, LeavesTyped DEF Exit
  <2>2. PICK ok \in BOOLEAN : Sets(win[c].at, Released(win[c].at, out[win[c].at], ok))
    BY <1>3 DEF Exit
  <2>3. Accounted(Released(win[c].at, out[win[c].at], ok))
    BY <1>1, <2>1, ReleasedAccounts
  <2> QED
    BY <1>1, <2>1, <2>2, <2>3, SetsKept DEF Sets, user
<1>4. CASE Unmap(c)
  <2>1. DeskTypeOK'
    BY <1>1, <1>4, UnmapsTyped DEF Unmap
  <2>2. CASE Full(c)
    <3>1. PICK ok \in BOOLEAN : Sets(sel, Unmapped(sel, out[sel], ok))
      BY <1>4, <2>2 DEF Unmap
    <3>2. Accounted(Unmapped(sel, out[sel], ok))
      BY <1>1, UnmappedAccounts
    <3> QED
      BY <1>1, <2>1, <3>1, <3>2, SetsKept DEF Sets, user
  <2>3. CASE ~ Full(c)
    BY <1>1, <1>4, <2>1, <2>3, UnchangedKept DEF Unmap, user
  <2> QED
    BY <2>2, <2>3
<1>5. CASE MapFull(c, m)
  <2>1. DeskTypeOK'
    BY <1>1, <1>5, MapsTyped DEF MapFull
  <2>2. PICK ok \in BOOLEAN, again \in BOOLEAN :
          Sets(m, IF ShownOn(m) = {} THEN Entered(m, out[m], c, ok)
                  ELSE Released(m, Entered(m, out[m], c, ok), again))
    BY <1>5 DEF MapFull
  <2>3. Accounted(Entered(m, out[m], c, ok))
    BY <1>1, EnteredAccounts
  <2>4. Accounted(Released(m, Entered(m, out[m], c, ok), again))
    BY <2>3, ReleasedAccounts
  <2> QED
    BY <1>1, <2>1, <2>2, <2>3, <2>4, SetsKept DEF Sets, user
<1>6. CASE MapTile(c, m)
  <2>1. DeskTypeOK'
    BY <1>1, <1>6, MapsTyped DEF MapTile
  <2>2. CASE UNCHANGED <<out, user>>
    BY <1>1, <2>1, <2>2, UnchangedKept DEF user
  <2>3. CASE \E ok \in BOOLEAN : Sets(m, Released(m, out[m], ok))
    <3>1. PICK ok \in BOOLEAN : Sets(m, Released(m, out[m], ok))
      BY <2>3
    <3>2. Accounted(Released(m, out[m], ok))
      BY <1>1, ReleasedAccounts
    <3> QED
      BY <1>1, <2>1, <3>1, <3>2, SetsKept DEF Sets, user
  <2> QED
    BY <1>6, <2>2, <2>3 DEF MapTile
<1>7. CASE Move(c, m)
  <2>1. DeskTypeOK'
    BY <1>1, <1>7, MovesTyped DEF Move
  <2>2. PICK ok \in BOOLEAN :
          Sets(m, IF Full(c) THEN Entered(m, out[m], c, ok) ELSE Released(m, out[m], ok))
    BY <1>7 DEF Move
  <2>3. Accounted(Entered(m, out[m], c, ok)) /\ Accounted(Released(m, out[m], ok))
    BY <1>1, EnteredAccounts, ReleasedAccounts
  <2> QED
    BY <1>1, <2>1, <2>2, <2>3, SetsKept DEF Sets, user
<1> QED
  BY <1>2, <1>3, <1>4, <1>5, <1>6, <1>7

\* The workspace switch, selmon and the power of an output.
LEMMA MonitorsKeep ==
    ASSUME SyncInv, NEW m \in Mon, Switch(m) \/ Select(m) \/ Power(m)
    PROVE  SyncInv'
<1>1. /\ DeskTypeOK /\ allow \in BOOLEAN /\ ultra \in BOOLEAN
      /\ \A d \in Mon : Accounted(out[d])
  BY ByOutput
<1>2. CASE Switch(m)
  <2>1. DeskTypeOK' /\ Accounted(Invalidated(out[m]))
    BY <1>1, <1>2, SwitchesTyped, InvalidatedAccounts DEF Switch
  <2> QED
    BY <1>1, <1>2, <2>1, SetsKept DEF Switch, Sets, user
<1>3. CASE Select(m)
  BY <1>1, <1>3, SelectsTyped, UnchangedKept DEF Select, user
<1>4. CASE Power(m)
  <2>1. (~ lit[m]) \in BOOLEAN
    OBVIOUS
  <2>2. DeskTypeOK'
    BY <1>1, <1>4, <2>1, PowersTyped DEF Power
  <2> QED
    BY <1>1, <1>4, <2>2, UnchangedKept DEF Power, user
<1> QED
  BY <1>2, <1>3, <1>4

\* Players and the detection of videos.
LEMMA PlayersKeep ==
    ASSUME SyncInv, NEW m \in Mon, VideoPlaying(m) \/ VideoStopped(m) \/ Check(m)
    PROVE  SyncInv'
<1>1. /\ DeskTypeOK /\ allow \in BOOLEAN /\ ultra \in BOOLEAN
      /\ \A d \in Mon : Accounted(out[d])
  BY ByOutput
<1>2. CASE VideoPlaying(m)
  <2>1. PICK o \in EnableVideo(m, out[m]) : Sets(m, o)
    BY <1>2 DEF VideoPlaying
  <2>2. DeskTypeOK' /\ Accounted(o)
    BY <1>1, <1>2, <2>1, StillTyped, EnableVideoAccounts DEF VideoPlaying
  <2> QED
    BY <1>1, <2>1, <2>2, SetsKept DEF Sets, user
<1>3. CASE VideoStopped(m)
  <2>1. PICK also \in SUBSET (Mon \ {m}) :
          out' = [d \in Mon |-> IF d \in also \cup {m} THEN RestoreMax(d, out[d]) ELSE out[d]]
    BY <1>3 DEF VideoStopped
  <2>2. \A d \in Mon : Accounted(RestoreMax(d, out[d]))
    BY <1>1, RestoreMaxAccounts
  <2>3. DeskTypeOK' /\ allow' \in BOOLEAN /\ ultra' \in BOOLEAN
    BY <1>1, <1>3, StillTyped DEF VideoStopped, user
  <2>4. \A d \in Mon : Accounted(out'[d])
    BY <1>1, <2>1, <2>2
  <2> QED
    BY <2>1, <2>3, <2>4, AllKept
<1>4. CASE Check(m)
  <2>1. PICK c \in Client : Finds(m, c) /\ \E o \in EnableVideo(m, out[m]) : Sets(m, o)
    BY <1>4 DEF Check
  <2>2. PICK o \in EnableVideo(m, out[m]) : Sets(m, o)
    BY <2>1
  <2>3. DeskTypeOK' /\ Accounted(o)
    BY <1>1, <2>1, <2>2, FindsTyped, EnableVideoAccounts
  <2> QED
    BY <1>1, <2>2, <2>3, SetsKept DEF Sets, user
<1> QED
  BY <1>2, <1>3, <1>4

\* Game mode and the user's switch, which end every loan to a game.
LEMMA UserKeeps ==
    ASSUME SyncInv, GameModeOn \/ GameModeOff \/ ToggleVrr
    PROVE  SyncInv'
<1>1. /\ DeskTypeOK /\ allow \in BOOLEAN /\ ultra \in BOOLEAN /\ out \in [Mon -> Output]
      /\ \A d \in Mon : Accounted(out[d])
  BY ByOutput
<1>2. \A d \in Mon, ok \in BOOLEAN : Accounted(DisableGame(d, out[d], ok))
  BY <1>1, DisableGameAccounts
<1>3. CASE GameModeOn
  <2>1. PICK m \in Mon, hints \in BOOLEAN, ok \in BOOLEAN :
          out' = [out EXCEPT ![m] = IF ultra \/ hints THEN EnableGame(m, @, ok) ELSE @]
    BY <1>3 DEF GameModeOn
  <2> DEFINE o == IF ultra \/ hints THEN EnableGame(m, out[m], ok) ELSE out[m]
  <2>2. Accounted(o)
    BY <1>1, EnableGameAccounts
  <2>3. DeskTypeOK' /\ allow' \in BOOLEAN /\ ultra' \in BOOLEAN
    BY <1>1, <1>3, StillTyped DEF GameModeOn
  <2>4. out' = [out EXCEPT ![m] = o]
    BY <2>1
  <2> HIDE DEF o
  <2> QED
    BY <2>2, <2>3, <2>4, SetsKept
<1>4. CASE GameModeOff
  <2>1. PICK no \in SUBSET Mon : out' = [m \in Mon |-> DisableGame(m, out[m], m \notin no)]
    BY <1>4 DEF GameModeOff
  <2>2. DeskTypeOK' /\ allow' \in BOOLEAN /\ ultra' \in BOOLEAN
    BY <1>1, <1>4, StillTyped DEF GameModeOff
  <2>3. \A d \in Mon : Accounted(out'[d])
    <3> SUFFICES ASSUME NEW d \in Mon PROVE Accounted(out'[d])
      OBVIOUS
    <3>1. (d \notin no) \in BOOLEAN
      OBVIOUS
    <3> QED
      BY <1>2, <2>1, <3>1
  <2> QED
    BY <2>1, <2>2, <2>3, AllKept
<1>5. CASE ToggleVrr
  <2>1. DeskTypeOK' /\ allow' \in BOOLEAN /\ ultra' \in BOOLEAN
    BY <1>1, <1>5, StillTyped DEF ToggleVrr
  <2>2. CASE UNCHANGED out
    BY <2>1, <2>2, UnchangedKept
  <2>3. CASE ~ UNCHANGED out
    <3> DEFINE P(d, ok) == DisableGame(d, out[d], ok)
    <3>1. PICK no \in SUBSET Mon :
            out' = [d \in Mon |-> IF P(d, d \notin no).vrr THEN DisableVideo(d, P(d, d \notin no))
                                                           ELSE P(d, d \notin no)]
      BY <1>5, <2>3 DEF ToggleVrr
    <3>2. \A d \in Mon : Accounted(out'[d])
      <4> SUFFICES ASSUME NEW d \in Mon PROVE Accounted(out'[d])
        OBVIOUS
      <4>1. (d \notin no) \in BOOLEAN
        OBVIOUS
      <4>2. Accounted(P(d, d \notin no))
        BY <1>2, <4>1
      <4>3. Accounted(DisableVideo(d, P(d, d \notin no)))
        BY <4>2, DisableVideoAccounts
      <4> QED
        BY <3>1, <4>2, <4>3
    <3>3. DOMAIN out' = Mon /\ out' = [d \in Mon |-> out'[d]]
      BY <3>1
    <3> QED
      BY <2>1, <3>2, <3>3, AllKept
  <2> QED
    BY <2>2, <2>3
<1> QED
  BY <1>3, <1>4, <1>5

\* A frame, with a change aboard or without.
LEMMA FrameKeeps ==
    ASSUME SyncInv, NEW m \in Mon, NEW damaged \in BOOLEAN, Frame(m, damaged)
    PROVE  SyncInv'
<1>1. /\ DeskTypeOK /\ allow \in BOOLEAN /\ ultra \in BOOLEAN
      /\ \A d \in Mon : Accounted(out[d])
  BY ByOutput
<1>2. DeskTypeOK'
  BY <1>1, StillTyped DEF Frame
<1>3. CASE out[m].want = "none"
  BY <1>1, <1>2, <1>3, UnchangedKept DEF Frame, user
<1>4. CASE out[m].want # "none"
  <2>1. PICK answer \in {"takes", "ignores", "refuses"} : Sets(m, Settled(Aboard(out[m], answer)))
    BY <1>4 DEF Frame
  <2>2. Accounted(Settled(Aboard(out[m], answer)))
    BY <1>1, <1>4, FrameAccounts
  <2> QED
    BY <1>1, <1>2, <2>1, <2>2, SetsKept DEF Sets, user
<1> QED
  BY <1>3, <1>4

-----------------------------------------------------------------------------
(* The theorems on adaptive sync.                                                  *)

\* All windows closed, adaptive sync off everywhere.
LEMMA SyncStarts == SyncInit => SyncInv
<1> SUFFICES ASSUME SyncInit PROVE SyncInv
  OBVIOUS
<1>1. DeskTypeOK
  BY ClosedTyped DEF SyncInit, DeskInit, DeskTypeOK
<1>2. MaxTries \in Nat \ {0}
  BY SyncAssumption DEF SyncAssumption
<1>3. 0 \in 0..(MaxTries - 1)
  BY <1>2
<1>4. out \in [Mon -> Output]
  BY <1>3 DEF SyncInit, Output
<1>5. SyncOwned
  BY DEF SyncInit, SyncOwned
<1> QED
  BY <1>1, <1>4, <1>5 DEF SyncInit, SyncInv, SyncTypeOK

\* Every step keeps the invariant.
LEMMA SyncSteps == SyncInv /\ [SyncNext]_syncvars => SyncInv'
<1> SUFFICES ASSUME SyncInv, [SyncNext]_syncvars PROVE SyncInv'
  OBVIOUS
<1>1. CASE UNCHANGED syncvars
  <2>1. DeskTypeOK /\ allow \in BOOLEAN /\ ultra \in BOOLEAN
    BY ByOutput
  <2> QED
    BY <1>1, <2>1, StillTyped, UnchangedKept DEF syncvars, user
<1>2. ASSUME NEW c \in Client, Enter(c) \/ Exit(c) \/ Unmap(c) PROVE SyncInv'
  <2>1. sel \in Mon
    BY DEF SyncInv, SyncTypeOK, DeskTypeOK
  <2> QED
    BY <1>2, <2>1, WindowsKeep
<1>3. ASSUME NEW c \in Client, NEW m \in Mon, MapFull(c, m) \/ MapTile(c, m) \/ Move(c, m)
      PROVE  SyncInv'
  BY <1>3, WindowsKeep
<1>4. ASSUME NEW m \in Mon, Switch(m) \/ Select(m) \/ Power(m) PROVE SyncInv'
  BY <1>4, MonitorsKeep
<1>5. ASSUME NEW m \in Mon, VideoPlaying(m) \/ VideoStopped(m) \/ Check(m) PROVE SyncInv'
  BY <1>5, PlayersKeep
<1>6. CASE GameModeOn \/ GameModeOff \/ ToggleVrr
  BY <1>6, UserKeeps
<1>7. ASSUME NEW m \in Mon, NEW damaged \in BOOLEAN, Frame(m, damaged) PROVE SyncInv'
  BY <1>7, FrameKeeps
<1> QED
  BY <1>1, <1>2, <1>3, <1>4, <1>5, <1>6, <1>7 DEF SyncNext

\* So every reachable state satisfies it.
LEMMA AlwaysInv == SyncSpec => []SyncInv
BY SyncStarts, SyncSteps, PTL DEF SyncSpec

\* Every reachable state of the windows, the outputs and what they are lent is well typed.
THEOREM SyncTyped == SyncSpec => []SyncTypeOK
<1>1. SyncInv => SyncTypeOK
  BY DEF SyncInv
<1> QED
  BY <1>1, AlwaysInv, PTL

\* Adaptive sync is never on without an owner, but where a commit that should turn off a
\* game's was refused or could not be made (set_adaptive_sync, enable_game_vrr,
\* disable_game_vrr and the finalizing code of commit_output_frame together).
THEOREM SyncAccounted == SyncSpec => []SyncOwned
<1>1. SyncInv => SyncOwned
  BY DEF SyncInv
<1> QED
  BY <1>1, AlwaysInv, PTL
=============================================================================
