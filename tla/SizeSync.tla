------------------------------ MODULE SizeSync ------------------------------
(***************************************************************************)
(* How a tile and its client come to agree on a size.  The layout gives    *)
(* the tile a box; client_request_size turns it into a configure, at most  *)
(* one of which is awaited at a time; the client acks configures and       *)
(* commits a size whenever it likes; converge.c, once per rendered frame,  *)
(* re-sends the size of a box that stays unfilled.  Requests pass through  *)
(* several filters that each take an earlier request for granted, and the  *)
(* watchdog has to make up for what they swallow.                          *)
(*                                                                         *)
(* One xdg tile, one of its two axes; sizes are without the border.        *)
(***************************************************************************)
EXTENDS Integers, Sequences

CONSTANTS
    Size,           \* the sizes a box can have
    MaxTries,       \* CONVERGE_MAX_TRIES
    MaxChanges      \* how often the layout changes, in the model

ASSUME SizeAssumption == Size \subseteq Nat \ {0} /\ Size # {}
ASSUME BoundAssumption == MaxTries \in Nat \ {0} /\ MaxChanges \in Nat

None == 0

VARIABLES
    box,            \* c->geom
    target,         \* c->target_geom
    moving,         \* c->anim_active
    dragging,       \* cursor_mode is CurResize or CurColResize
    last,           \* c->last_configured_w, None once cleared
    pending,        \* c->pending_resize_w
    awaited,        \* c->resize: the place in sent of the configure awaited
    sent,           \* configures the client has not acked, oldest first
    acked,          \* toplevel->current.width: the last size it acked
    committed,      \* the size the client shows
    since,          \* c->converge_since: unset, or within or past the grace
    tries,          \* c->converge_tries
    gaveup,         \* c->converge_gave_up_w, None while not given up
    answer,         \* what this client commits once it has acked a size
    min,            \* its declared minimum, None if it has none
    changes         \* layout changes so far

layout == <<box, target, moving, dragging>>
wire == <<last, pending, awaited, sent>>
watch == <<since, tries, gaveup>>
client == <<acked, committed>>
vars == <<layout, wire, watch, client, answer, min, changes>>

-----------------------------------------------------------------------------
(* Requests.  The fields of wire are passed along as a record.             *)

Wire == [last |-> last, pending |-> pending, awaited |-> awaited, sent |-> sent]
Becomes(r) == /\ last' = r.last /\ pending' = r.pending
              /\ awaited' = r.awaited /\ sent' = r.sent

\* client_set_size: nothing is sent if the client has acked this size last.
SetSize(r, a, n) ==
    IF n = a THEN [r EXCEPT !.awaited = None]
    ELSE [r EXCEPT !.sent = Append(@, n), !.awaited = Len(r.sent) + 1]

\* Mutant: a size waits as long as any configure is unanswered.
RequestGated(r, a, n) ==
    LET q == [r EXCEPT !.pending = n, !.last = n]
    IN  IF r.last = n THEN r ELSE IF r.sent # <<>> THEN q ELSE SetSize(q, a, n)

\* client_request_size: not twice the same size, and not while one is awaited.
Request(r, a, n) ==
    LET q == [r EXCEPT !.pending = n, !.last = n]
    IN  IF r.last = n THEN r ELSE IF r.awaited # None THEN q ELSE SetSize(q, a, n)

\* axis_settled
AxisSettled(n, b) == n = b \/ (min # None /\ b < min /\ n = min)

-----------------------------------------------------------------------------

Init ==
    /\ box \in Size /\ target = box
    /\ moving = FALSE /\ dragging = FALSE
    /\ last = box /\ pending = None /\ awaited = None /\ sent = <<>>
    /\ acked = box
    /\ answer \in {f \in [Size -> Size] : \A m, n \in Size : m <= n => f[m] <= f[n]}
    /\ min \in Size \cup {None}
    /\ committed = answer[box]
    /\ since = "unset" /\ tries = 0 /\ gaveup = None
    /\ changes = 0

Change(b) == changes < MaxChanges /\ changes' = changes + 1 /\ target' = b

\* client_set_target_geom of a column whose size changes: the box starts to
\* move.  Its final size is requested when it arrives, but at once in a drag.
Animate(b) ==
    /\ Change(b) /\ b # box
    /\ moving' = TRUE
    /\ IF dragging THEN Becomes(Request(Wire, acked, b)) ELSE UNCHANGED wire
    /\ UNCHANGED <<box, dragging, watch, client, answer, min>>

\* A drag of the tile's edge begins and ends.
Grab ==
    /\ ~ dragging /\ changes < MaxChanges
    /\ dragging' = TRUE /\ changes' = changes + 1
    /\ UNCHANGED <<box, target, moving, wire, watch, client, answer, min>>
Release ==
    /\ dragging /\ dragging' = FALSE
    /\ UNCHANGED <<box, target, moving, wire, watch, client, answer, min, changes>>

\* Mutant: giving up is not remembered.
ConvergeUnlatched(b, still, r) ==
    LET clear == since' = "unset" /\ tries' = 0 /\ gaveup' = None /\ Becomes(r)
        redrive == Request([r EXCEPT !.last = None, !.awaited = None], acked, b)
    IN  \/ (still \/ dragging \/ AxisSettled(committed, b)) /\ clear
        \/ /\ ~ still /\ ~ dragging /\ ~ AxisSettled(committed, b)
           /\ IF since # "past"
              THEN since' = "within" /\ UNCHANGED <<tries, gaveup>> /\ Becomes(r)
              ELSE IF tries >= MaxTries THEN clear
              ELSE since' = "within" /\ tries' = tries + 1 /\ gaveup' = None
                   /\ Becomes(redrive)

\* clients_converge_tick for this tile: the state after the animation's part
\* of the frame is box b, requests r.
Converge(b, still, r) ==
    LET latched == gaveup = b
        settled == AxisSettled(committed, b)
        fresh == gaveup \notin {None, b}        \* given up for another box
        was == IF fresh THEN "unset" ELSE since
        count == IF fresh THEN 0 ELSE tries
        clear == since' = "unset" /\ tries' = 0 /\ gaveup' = None /\ Becomes(r)
        redrive == Request([r EXCEPT !.last = None, !.awaited = None], acked, b)
    IN  \/ /\ still \/ dragging
           /\ IF gaveup = None THEN clear ELSE UNCHANGED watch /\ Becomes(r)
        \/ /\ ~ still /\ ~ dragging /\ latched
           /\ UNCHANGED watch /\ Becomes(r)
        \/ /\ ~ still /\ ~ dragging /\ ~ latched /\ settled
           /\ clear
        \/ /\ ~ still /\ ~ dragging /\ ~ latched /\ ~ settled /\ was # "past"
           /\ since' = IF was = "unset" THEN "within" ELSE was
           /\ tries' = count /\ gaveup' = None /\ Becomes(r)
        \/ /\ ~ still /\ ~ dragging /\ ~ latched /\ ~ settled /\ was = "past"
           /\ IF count >= MaxTries
              THEN gaveup' = b /\ UNCHANGED <<since, tries>> /\ Becomes(r)
              ELSE /\ since' = "within" /\ tries' = count + 1 /\ gaveup' = None
                   /\ Becomes(redrive)

\* rendermon: a frame moves the box on its way or settles it, and then runs
\* the watchdog.
Frame ==
    \E arrives \in (IF moving THEN BOOLEAN ELSE {FALSE}) :
      LET b == IF arrives THEN target ELSE box
          still == moving /\ ~ arrives
      IN  /\ box' = b /\ moving' = still
          /\ Converge(b, still, IF arrives THEN Request(Wire, acked, b) ELSE Wire)
          /\ UNCHANGED <<target, dragging, client, answer, min, changes>>

\* The grace period passes.
Elapse ==
    /\ since = "within" /\ since' = "past"
    /\ UNCHANGED <<layout, wire, tries, gaveup, client, answer, min, changes>>

\* commitnotify: the client has acked the k oldest configures and commits.  If
\* the awaited one is among them, the newest size that came meanwhile is sent.
Commit(k) ==
    LET a == IF k = 0 THEN acked ELSE sent[k]
        n == IF k = 0 THEN committed ELSE answer[a]
        left == SubSeq(sent, k + 1, Len(sent))
        done == awaited # None /\ awaited <= k
        r == [Wire EXCEPT !.sent = left,
                          !.awaited = IF @ > k THEN @ - k ELSE None]
        s == IF ~ done THEN r
             ELSE [IF pending \notin {None, a} THEN SetSize(r, a, pending) ELSE r
                     EXCEPT !.pending = None]
    IN  /\ k \in 0..Len(sent)
        /\ acked' = a /\ committed' = n
        /\ Becomes(IF moving THEN s ELSE Request(s, a, box))
        /\ UNCHANGED <<layout, watch, answer, min, changes>>

Layout == (\E b \in Size : Animate(b)) \/ Grab
Client == \E k \in 0..Len(sent) : Commit(k)
AnswerAll == sent # <<>> /\ Commit(Len(sent))
Arrive == Frame /\ moving /\ ~ moving'

Next == Layout \/ Release \/ Frame \/ Elapse \/ Client

\* Frames are scheduled as long as something moves or is pending, an animation
\* comes to its end, time passes, and the user lets go of the button.  The
\* client may never answer again.
FrameFairness == /\ WF_vars(Frame) /\ SF_vars(Arrive) /\ WF_vars(Elapse)
                 /\ WF_vars(Release)
Spec == Init /\ [][Next]_vars /\ FrameFairness

-----------------------------------------------------------------------------

\* The state is well typed: the configure awaited is one of those sent, and
\* the count of tries stays within its bound.
TypeOK ==
    /\ box \in Size /\ target \in Size
    /\ moving \in BOOLEAN /\ dragging \in BOOLEAN
    /\ last \in Size \cup {None} /\ pending \in Size \cup {None}
    /\ sent \in Seq(Size) /\ awaited \in 0..Len(sent)
    /\ acked \in Size /\ committed \in Size
    /\ since \in {"unset", "within", "past"}
    /\ tries \in 0..MaxTries /\ gaveup \in Size \cup {None}

\* The watchdog comes to rest whatever the client does: the box is filled or
\* it has given up, so an idle screen is not redrawn for ever.
ComesToRest == <>[](AxisSettled(committed, box) \/ gaveup = box)

\* A client that answers what it is sent and can fill the last box it is given
\* ends up filling it, however late it answers and whatever the layout did
\* meanwhile.
Fills(b) == AxisSettled(answer[b], b)
FillableIsFilled ==
    WF_vars(AnswerAll) => <>[](Fills(box) => AxisSettled(committed, box))
=============================================================================
