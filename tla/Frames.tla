------------------------------- MODULE Frames -------------------------------
(***************************************************************************)
(* When one output is drawn.  wlroots announces a frame when a page flip   *)
(* has completed, or from an idle callback if somebody scheduled one and   *)
(* none is in flight; rendermon answers it, and every chain of frames ends *)
(* unless rendermon, a client or a timer asks for the next.  Around this:  *)
(* the flag that saves redundant requests, the timer that latches a game's *)
(* frame late, the heartbeat that revives an output at rest, commits that  *)
(* fail, modes that change and power that goes.                            *)
(***************************************************************************)
EXTENDS Integers

CONSTANTS
    MaxRetries,     \* failed commits in a row that are retried at once (3)
    MaxTransient,   \* the same while an old flip is only late (12)
    MaxHold         \* vblanks from one frame_done of a limited game to the next

ASSUME FramesAssumption ==
    /\ {MaxRetries, MaxTransient} \subseteq Nat
    /\ MaxHold \in Nat \ {0}
    /\ MaxRetries <= MaxTransient

VARIABLE f
vars == <<f>>

\* on, idle, pending, needs and damage are wlroots': enabled, idle_frame,
\* frame_pending, needs_frame and pending_commit_damage.  flag, armed and beat
\* are frame_scheduled, latch_armed and the heartbeat timer; due that a second
\* has passed since hidden surfaces were served, waits whether a surface in
\* view or one out of view waits for frame_done, moving that an animation or a
\* size is under way, lost that a refused mode change dropped the frame that
\* flag stands for.
Contents == {"desktop", "video", "game"}

State ==
    [on : BOOLEAN, idle : BOOLEAN, pending : BOOLEAN, needs : BOOLEAN,
     damage : BOOLEAN, flag : BOOLEAN, armed : BOOLEAN, beat : BOOLEAN,
     due : BOOLEAN, moving : BOOLEAN, lost : BOOLEAN,
     waits : {"no", "seen", "hidden"}, content : Contents,
     fails : 0..(MaxTransient + 1), held : 0..(MaxHold - 1)]

TypeOK == f \in State

Coming(s) == s.idle \/ s.pending \/ s.armed
Fullscreen(s) == s.content # "desktop"

-----------------------------------------------------------------------------
(* wlroots, as far as it decides when a frame is announced. *)

\* wlr_output_schedule_frame
Schedule(s) == [s EXCEPT !.needs = TRUE, !.idle = @ \/ ~ s.pending, !.lost = FALSE]

\* wlr_output_commit_state with a new buffer: accepted,
Accept(s) == [s EXCEPT !.pending = TRUE, !.idle = FALSE, !.needs = FALSE,
                       !.damage = FALSE, !.lost = FALSE]
\* or refused by the kernel, when the idle callback is gone all the same.
Refuse(s) == [s EXCEPT !.idle = FALSE,
                       !.lost = @ \/ (s.on /\ s.flag /\ s.idle /\ ~ s.pending)]

\* request_frame, and the same lines at the end of arrange.
Request(s) == IF s.flag THEN s ELSE [Schedule(s) EXCEPT !.flag = TRUE]

\* A commit that lights the output or changes its mode, and one that changes
\* nothing: it carries no buffer but waits for a flip too.
Modeset(s) ==
    {[Accept(s) EXCEPT !.on = TRUE, !.needs = TRUE, !.damage = TRUE], Refuse(s), s} \cup
    (IF s.on THEN {[s EXCEPT !.pending = TRUE, !.needs = FALSE, !.lost = FALSE]} ELSE {})

-----------------------------------------------------------------------------
(* rendermon, stage by stage.  Each operator is the set of outcomes.        *)

\* Mutant: a pass leaves the flag up.
NotCleared(s) == [s EXCEPT !.lost = FALSE]

\* Whatever was requested is forgotten.
Cleared(s) == [s EXCEPT !.flag = FALSE, !.lost = FALSE]

\* The animations and the watchdog of sizes move on, and come to their end.
Ticked(s) ==
    IF s.moving THEN {Schedule(s), Schedule([s EXCEPT !.moving = FALSE]), [s EXCEPT !.moving = FALSE]}
    ELSE {s}

\* latch_defer_frame: the frame of a game on a fixed refresh rate is built
\* later, unless its deadline is too near or the latch timer brought us here.
Deferred(s, fired) ==
    IF s.content = "game" /\ ~ fired THEN {[s EXCEPT !.armed = TRUE]} ELSE {}

\* A mode change may have been put off to this pass (game resolution,
\* auto-lock, fallback of a video), while there is fullscreen content.  The
\* frame that follows it finds the flip of the mode change in flight.
Remoded(s) == IF Fullscreen(s) THEN {s} \cup Modeset(s) ELSE {s}

\* commit_output_frame that fails: retried at once for a while, the longer when
\* an old flip is only late; then with direct scanout off and a commit of
\* another kind, which may be accepted; in the end at most every 16 ms.
Failed(s, why) ==
    LET n == IF s.fails > MaxTransient THEN s.fails ELSE s.fails + 1
        t == [(IF s.on THEN Refuse(s) ELSE s) EXCEPT !.fails = n]
        again == {t} \cup (IF s.on THEN {Accept(t)} ELSE {})
    IN  {Request(u) : u \in again} \cup
        IF n <= MaxRetries \/ (why = "late" /\ n <= MaxTransient) THEN {}
        ELSE IF why = "late" THEN again ELSE {t}

\* A flip still in flight, or an output that is off, makes a commit fail
\* before the kernel sees it.
Committed(s, how) ==
    LET answers == IF s.on /\ ~ s.pending THEN how ELSE how \cap {"reject"}
    IN  UNION {IF a = "ok" THEN {[Accept(s) EXCEPT !.fails = 0]} ELSE Failed(s, a) : a \in answers}

\* Mutant: no idle gate.
NeverIdle(s) == IF s.content = "game" THEN {s} ELSE {}

\* Nothing to draw on a desktop, or, over a game that drives the panel (at most
\* three times in a row), nothing but overlays.
Skipped(s) ==
    IF s.content = "game" \/ (s.content = "desktop" /\ ~ s.needs /\ ~ s.damage)
    THEN {s} ELSE {}

\* The scene could not be built: a fresh swapchain is tried, and a new frame.
Unbuilt(s) == {Request(u) : u \in {s} \cup (IF s.on THEN {Accept(s)} ELSE {Refuse(s)})}

\* Mutant: the pass that withholds frame_done keeps its request to itself.
HeldSilently(s) ==
    IF s.content = "game" /\ s.held + 1 < MaxHold
    THEN {[s EXCEPT !.held = @ + 1]} ELSE {}

\* The limiter, or the repetition of frames, keeps frame_done back.
Held(s) ==
    IF s.content = "game" /\ s.held + 1 < MaxHold
    THEN {Request([s EXCEPT !.held = @ + 1])} ELSE {}

\* frame_done: once a second to surfaces out of view, now to the others unless
\* the camera moves; fullscreen content asks for the next frame.
Serve(s, served, beat) ==
    LET kept == s.moving /\ ~ Fullscreen(s) /\ ~ s.due
        t == [s EXCEPT !.held = 0, !.beat = beat, !.due = FALSE]
        quiet == IF t.waits \in served THEN [t EXCEPT !.waits = "no"] ELSE t
    IN  IF Fullscreen(s) THEN {Request(quiet)} ELSE {quiet} \cup (IF kept THEN {t} ELSE {})

Served(s) == IF s.due THEN {"seen", "hidden"} ELSE {"seen"}

\* Mutant: the heartbeat is not armed again.
AnsweredUnwatched(s) == Serve(s, Served(s), s.beat)

\* Mutant: surfaces out of view get no frame_done.
AnsweredSeen(s) == Serve(s, {"seen"}, TRUE)

Answered(s) == Serve(s, Served(s), TRUE)

Finished(S) == UNION {Held(s) \cup Answered(s) : s \in S}

\* What is drawn once the pass got past the latch, commits answered as in how.
Drawn(s, how) ==
    LET ready == UNION {Remoded(t) : t \in Ticked(Cleared(s))}
    IN  Finished(UNION {IF Skipped(t) = {} \/ t.content = "game"
                        THEN Committed(t, how) ELSE {} : t \in ready})

\* A pass that draws nothing.
Undrawn(s, fired) ==
    LET t == Cleared(s)
        ready == UNION {Remoded(u) : u \in Ticked(t)}
    IN  IF s.armed THEN {t}
        ELSE (UNION {Deferred(u, fired) : u \in Ticked(t)}) \cup
             Finished(UNION {Skipped(u) : u \in ready}) \cup
             (UNION {Unbuilt(u) : u \in {v \in ready : Skipped(v) = {} \/ v.content = "game"}})

Rendermon(s, fired) ==
    Undrawn(s, fired) \cup
    (IF s.armed THEN {} ELSE Drawn(s, {"ok", "late", "reject"}))

-----------------------------------------------------------------------------
(* What happens to an output. *)

\* createmon has committed the output's first state.
Init ==
    f = [on |-> TRUE, idle |-> FALSE, pending |-> TRUE, needs |-> TRUE, damage |-> TRUE,
         flag |-> FALSE, armed |-> FALSE, beat |-> FALSE, due |-> FALSE,
         moving |-> FALSE, lost |-> FALSE, waits |-> "no", content |-> "desktop",
         fails |-> 0, held |-> 0]

\* schedule_frame_handle_idle_timer
IdleFrame ==
    /\ f.idle
    /\ LET s == [f EXCEPT !.idle = FALSE]
       IN  f' \in IF s.on /\ ~ s.pending THEN Rendermon(s, FALSE) ELSE {s}

\* A page flip has completed; it is ignored when the output is off.
Flip == f.on /\ f.pending /\ f' \in Rendermon([f EXCEPT !.pending = FALSE], FALSE)

\* latch_timer_cb
LatchFires == f.armed /\ f' \in Rendermon([f EXCEPT !.armed = FALSE], TRUE)

\* idle_heartbeat_cb, a second after the last pass that got to its end.
Heartbeat == f.beat /\ f' = Request([f EXCEPT !.beat = FALSE, !.due = TRUE])

Second == ~ f.due /\ f' = [f EXCEPT !.due = TRUE]

\* A client commits a buffer, or asks for frame_done in view or out of it.
Damage == f.on /\ f' = Schedule([f EXCEPT !.damage = TRUE])
Ask ==
    /\ f.on /\ f.waits = "no"
    /\ f' \in {Schedule([f EXCEPT !.waits = "seen"]), [f EXCEPT !.waits = "hidden"]}

\* Something is arranged, and may start to move.
Arrange == f' \in {Request(f), Request([f EXCEPT !.moving = TRUE])}

\* The surface that waits is covered, or uncovered.
Cover ==
    /\ f.waits # "no"
    /\ f' = Request([f EXCEPT !.waits = IF @ = "seen" THEN "hidden" ELSE "seen"])

\* Another kind of content fills the output, or none does.
Change ==
    \E c \in Contents \ {f.content} :
        LET t == [f EXCEPT !.content = c] IN f' \in {t, Request(t)}

\* updatemons arranges the monitors that are lit.
Updated(S) == {IF s.on THEN Request(s) ELSE s : s \in S}

Darkened(s) == {s, [s EXCEPT !.on = FALSE]}

\* powermgrsetmode
Sleep == f' \in Updated(Darkened(f))
WakeUp == f' \in Updated({Cleared(s) : s \in Modeset(f)})

\* outputmgrapplyortest; a test changes the flag only.
Configure == f' \in Updated({Cleared(f)} \cup Modeset(Cleared(f)) \cup Darkened(Cleared(f)))

\* hotapply_monitors, and the file of monitor settings.
Reload == f' \in Updated(Modeset(f) \cup Darkened(f))

Next ==
    \/ IdleFrame \/ Flip \/ LatchFires \/ Heartbeat \/ Second
    \/ Damage \/ Ask \/ Cover \/ Arrange \/ Change
    \/ Sleep \/ WakeUp \/ Configure \/ Reload

-----------------------------------------------------------------------------
(* Fairness.  Idle callbacks, timers and flips of a lit output come.  A pass   *)
(* may find its frame deferred, unbuildable or refused, but not for ever: of   *)
(* infinitely many that could reach the screen some do.                        *)

Reaches ==
    \/ f.on /\ f.idle /\ ~ f.pending /\ ~ f.armed /\ f' \in Drawn([f EXCEPT !.idle = FALSE], {"ok"})
    \/ f.on /\ f.pending /\ ~ f.armed /\ f' \in Drawn([f EXCEPT !.pending = FALSE], {"ok"})
    \/ f.on /\ f.armed /\ f' \in Drawn([f EXCEPT !.armed = FALSE], {"ok"})

Fairness ==
    /\ WF_vars(IdleFrame) /\ WF_vars(Flip) /\ WF_vars(LatchFires)
    /\ WF_vars(Heartbeat /\ ~ Coming(f)) /\ WF_vars(Second)
    /\ SF_vars(Reaches)

Spec == Init /\ [][Next]_vars
FairSpec == Spec /\ Fairness

-----------------------------------------------------------------------------
(* Properties.                                                                *)

\* frame_scheduled suppresses every further request, so on a lit output it is
\* only ever set while a frame is on its way, but for a refused mode change.
FlagMeansFrame == f.on /\ f.flag => Coming(f) \/ f.lost

\* rendermon: "an otherwise idle output self-sustains a ~1 Hz rendermon loop":
\* whatever ended the chain of frames, the heartbeat is there to restart it.
NeverForgotten == f.on => f.beat \/ Coming(f) \/ f.lost

\* What a client drew reaches the screen, through deferred, failed and
\* suppressed frames, if the output stays lit.
DamageShown == f.damage /\ f.on ~> ~ f.damage \/ ~ f.on \/ f.lost

\* A surface that asked for a frame callback gets it, be it in view (and the
\* frame limited, or the camera moving) or out of view.
CallbacksAnswered == f.waits # "no" /\ f.on ~> f.waits = "no" \/ ~ f.on \/ f.lost

\* "Without this gate every commit's pageflip fires the next frame event and
\* the compositor composites at full refresh forever": a pass that finds nothing
\* to draw on a still desktop is the last of its chain.
IdleChainEnds ==
    [][f.content = "desktop" /\ ~ (f.moving \/ f.needs \/ f.damage \/ f.armed)
       /\ ((IdleFrame /\ ~ f.pending) \/ (Flip /\ ~ f.idle)) => ~ Coming(f)']_vars

=============================================================================
