------------------------------ MODULE GameMode ------------------------------
(***************************************************************************)
(* Game mode.  The main thread decides, from a debounce timer, whether a    *)
(* fullscreen window is a game; what that costs the rest of the system -    *)
(* background processes stopped, others made idle, the game raised, clocks  *)
(* and profiles - is done by a worker thread, which reads its orders from a  *)
(* mailbox of one entry.  The two overlap: the worker is in the middle of a  *)
(* sweep over /proc while windows come and go, the compositor may be told to  *)
(* quit, or it may crash.                                                     *)
(***************************************************************************)
EXTENDS Naturals, FiniteSets

CONSTANTS
    Client, NoClient,
    Proc, NoPid,        \* pids of the user's processes that the sweeps may touch
    Game,               \* clients that are always taken for games
    MaxPids             \* the places in frozen_pids and in lowered_pids

\* The process a client belongs to.
CONSTANT PidOf(_)

ASSUME GameModeAssumption ==
    /\ NoClient \notin Client
    /\ NoPid \notin Proc
    /\ IsFiniteSet(Proc) /\ MaxPids \in Nat
    /\ Game \subseteq Client
    /\ \A c \in Client : PidOf(c) \in Proc

VARIABLES
    window,     \* of each client: closed, tiled, shown or away (fullscreen
                \* on the workspace in view, or on another one)
    alive,      \* processes that run, or are stopped
    mode,       \* the main thread: game_mode_ultra, _client and _pid; whether the
                \* process of the keepalive pidfd lives; the debounce timer
    post,       \* the mailbox under gm_bg_mutex: desired, pid, wake, alive
    worker,     \* where gm_bg_worker_func is, with its locals and gm_bg_applied_ultra
    books,      \* frozen_pids and lowered_pids
    sys,        \* the truth: processes stopped, idle, raised, and the clocks
    session     \* the compositor: up, quitting, crashing, left or crashed

vars == <<window, alive, mode, post, worker, books, sys, session>>
desktop == <<window, alive, mode, session>>
tuning == <<worker, books, sys>>

Windows == {"closed", "tiled", "shown", "away"}
Stages == {"wait", "profile", "freeze", "noteFrozen", "raise", "lower", "noteLowered",
           "restore", "thaw", "done", "ended"}

Mode == [ultra : BOOLEAN, client : Client \cup {NoClient}, pid : Proc \cup {NoPid},
         guarded : BOOLEAN, armed : BOOLEAN]
Post == [ultra : BOOLEAN, pid : Proc \cup {NoPid}, wake : BOOLEAN, serving : BOOLEAN]
Worker == [pc : Stages, want : BOOLEAN, pid : Proc \cup {NoPid}, todo : SUBSET Proc,
           hand : Proc \cup {NoPid}, applied : BOOLEAN]
Books == [frozen : SUBSET Proc, lowered : SUBSET Proc]
System == [stopped : SUBSET Proc, idle : SUBSET Proc, raised : SUBSET Proc, clocks : BOOLEAN]

TypeOK ==
    /\ window \in [Client -> Windows]
    /\ alive \subseteq Proc
    /\ mode \in Mode
    /\ post \in Post
    /\ worker \in Worker
    /\ books \in Books
    /\ sys \in System
    /\ session \in {"up", "quitting", "crashing", "left", "crashed"}

Init ==
    /\ window = [c \in Client |-> "closed"]
    /\ alive \in SUBSET Proc
    /\ mode = [ultra |-> FALSE, client |-> NoClient, pid |-> NoPid,
               guarded |-> FALSE, armed |-> FALSE]
    /\ post = [ultra |-> FALSE, pid |-> NoPid, wake |-> FALSE, serving |-> TRUE]
    /\ worker = [pc |-> "wait", want |-> FALSE, pid |-> NoPid, todo |-> {},
                 hand |-> NoPid, applied |-> FALSE]
    /\ books = [frozen |-> {}, lowered |-> {}]
    /\ sys = [stopped |-> {}, idle |-> {}, raised |-> {}, clocks |-> FALSE]
    /\ session = "up"

-----------------------------------------------------------------------------
(* Windows and processes.                                                    *)

\* The compositor's threads exist.
Working == session \in {"up", "quitting", "crashing"}

\* A client that can ask for something.
Running(c) == PidOf(c) \in alive \ sys.stopped

\* c takes the screen, from whoever had it.
ComesToFront(c) ==
    window' = [w \in Client |-> IF w = c THEN "shown"
                                ELSE IF window[w] = "shown" THEN "away" ELSE window[w]]

\* schedule_game_mode_update
Asked == [mode EXCEPT !.armed = TRUE]

\* A window maps, as a tile or fullscreen at once.
Open(c) ==
    /\ session = "up" /\ window[c] = "closed" /\ Running(c)
    /\ \/ window' = [window EXCEPT ![c] = "tiled"] /\ mode' = mode
       \/ ComesToFront(c) /\ mode' = Asked
    /\ UNCHANGED <<alive, session, post, tuning>>

\* setfullscreen(c, 1), by the client's request or the user's key.
EnterFullscreen(c) ==
    /\ session = "up" /\ window[c] = "tiled"
    /\ ComesToFront(c)
    /\ mode' = Asked
    /\ UNCHANGED <<alive, session, post, tuning>>

\* setfullscreen(c, 0): the process is no longer guarded.
LeaveFullscreen(c) ==
    /\ session = "up" /\ window[c] \in {"shown", "away"}
    /\ window' = [window EXCEPT ![c] = "tiled"]
    /\ mode' = IF c = mode.client THEN [Asked EXCEPT !.pid = NoPid] ELSE Asked
    /\ UNCHANGED <<alive, session, post, tuning>>

\* Mutant: closing leaves the pid that keeps game mode alive.
KeepsPid(c) ==
    IF c = mode.client THEN [Asked EXCEPT !.client = NoClient] ELSE Asked

\* What unmapnotify forgets of game mode.
Forgotten(c) ==
    IF c = mode.client \/ mode.pid = PidOf(c)
    THEN [Asked EXCEPT !.pid = NoPid, !.client = NoClient]
    ELSE Asked

\* unmapnotify: the client withdraws its window, or has died.
Close(c) ==
    /\ session = "up" /\ window[c] # "closed"
    /\ Running(c) \/ PidOf(c) \notin alive
    /\ window' = [window EXCEPT ![c] = "closed"]
    /\ mode' = Forgotten(c)
    /\ UNCHANGED <<alive, session, post, tuning>>

\* Another workspace comes into view, by whatever handler leads to workspace_switch
\* (a key, an activation, a compaction), which tells game mode nothing, or by a tag
\* key (view, toggleview), which schedules an update.
LookAt(c) ==
    /\ session = "up" /\ window[c] = "away"
    /\ ComesToFront(c)
    /\ mode' \in {mode, Asked}
    /\ UNCHANGED <<alive, session, post, tuning>>

LookAway(c) ==
    /\ session = "up" /\ window[c] = "shown"
    /\ window' = [window EXCEPT ![c] = "away"]
    /\ mode' \in {mode, Asked}
    /\ UNCHANGED <<alive, session, post, tuning>>

\* A process exits, crashes or is killed; the windows it leaves are closed later.
\* The pidfd becomes readable.
Die(p) ==
    /\ Working /\ p \in alive
    /\ alive' = alive \ {p}
    /\ mode' = [mode EXCEPT !.guarded = @ /\ mode.pid # p]
    /\ sys' = [sys EXCEPT !.stopped = @ \ {p}, !.idle = @ \ {p}, !.raised = @ \ {p}]
    /\ UNCHANGED <<window, session, post, worker, books>>

\* A program is started.  Its pid is one that nobody remembers; a sweep that has not
\* come to it yet will find it.
Start(p) ==
    /\ session = "up" /\ p \notin alive
    /\ p \notin books.frozen \cup books.lowered
    /\ p \notin {mode.pid, worker.pid, worker.hand, post.pid}
    /\ \A c \in Client : PidOf(c) = p => window[c] = "closed"
    /\ alive' = alive \cup {p}
    /\ UNCHANGED <<window, mode, session, post, tuning>>

-----------------------------------------------------------------------------
(* update_game_mode, run by the debounce timer.                              *)

\* get_fullscreen_client, as update_game_mode takes it: an emulator counts for
\* nothing.  Titles, app ids and process names come and change, so a client
\* outside Game is taken for a game, for something else or for an emulator.
Verdicts == {"game", "plain", "none"}
Verdict(c) == IF c \in Game THEN {"game"} ELSE Verdicts

Shown == {c \in Client : window[c] = "shown"}
Front1 == IF Shown = {} THEN NoClient ELSE CHOOSE c \in Shown : TRUE

\* The game is only out of sight: its process runs.
Guarded == mode.ultra /\ mode.pid # NoPid /\ mode.guarded

\* Mutant: an order about no process is not posted.
PostedAboutSome(u, p) ==
    IF p = NoPid THEN post ELSE [post EXCEPT !.ultra = u, !.pid = p, !.wake = TRUE]

\* gm_bg_post
Posted(u, p) == [post EXCEPT !.ultra = u, !.pid = p, !.wake = TRUE]

\* The timer goes off with c in front, NoClient if there is nothing to judge.
Update(c, game) ==
    /\ session = "up" /\ mode.armed
    /\ UNCHANGED <<window, alive, session, tuning>>
    /\ IF c = NoClient /\ Guarded
       THEN mode' = [mode EXCEPT !.armed = FALSE] /\ post' = post
       ELSE \* entering
            \/ /\ game /\ ~ mode.ultra
               /\ mode' = [ultra |-> TRUE, client |-> c, pid |-> PidOf(c),
                           guarded |-> PidOf(c) \in alive, armed |-> FALSE]
               /\ post' = Posted(TRUE, PidOf(c))
            \* returning
            \/ /\ game /\ mode.ultra
               /\ mode' = [mode EXCEPT !.client = c, !.armed = FALSE]
               /\ post' = post
            \* leaving
            \/ /\ ~ game /\ mode.ultra
               /\ mode' = [mode EXCEPT !.ultra = FALSE, !.client = NoClient, !.pid = NoPid,
                                       !.guarded = FALSE, !.armed = FALSE]
               /\ post' = Posted(FALSE, mode.pid)
            \/ /\ ~ game /\ ~ mode.ultra
               /\ mode' = [mode EXCEPT !.client = NoClient, !.armed = FALSE]
               /\ post' = post

Decide ==
    \/ Front1 = NoClient /\ Update(NoClient, FALSE)
    \/ /\ Front1 # NoClient
       /\ \E v \in Verdict(Front1) :
             Update(IF v = "none" THEN NoClient ELSE Front1, v = "game")

\* The launch effect has not played for a second: come back later.
Hold ==
    /\ session = "up" /\ mode.armed /\ ~ mode.ultra
    /\ Front1 # NoClient /\ "game" \in Verdict(Front1)
    /\ mode' = [mode EXCEPT !.client = NoClient]
    /\ UNCHANGED <<window, alive, session, post, tuning>>

-----------------------------------------------------------------------------
(* The worker.                                                               *)

At(stage) == Working /\ worker.pc = stage
Go(stage) == worker' = [worker EXCEPT !.pc = stage]

\* It wakes to an order, or to the end of its service.
Take ==
    /\ At("wait")
    /\ UNCHANGED <<desktop, books, sys>>
    /\ \/ /\ ~ post.serving
          /\ Go("ended") /\ post' = post
       \/ /\ post.serving /\ post.wake
          /\ post' = [post EXCEPT !.wake = FALSE]
          /\ worker' = [worker EXCEPT
                !.want = post.ultra, !.pid = post.pid,
                !.pc = IF post.ultra = worker.applied THEN "done"
                       ELSE IF post.ultra THEN "profile" ELSE "restore"]

\* Fans, power profile, clocks; then the sweep over /proc begins: it comes by every pid
\* and sees the process that has it by then, if there is one.
Profile ==
    /\ At("profile")
    /\ sys' = [sys EXCEPT !.clocks = TRUE]
    /\ books' = [books EXCEPT !.frozen = {}]
    /\ worker' = [worker EXCEPT !.pc = "freeze", !.todo = Proc]
    /\ UNCHANGED <<desktop, post>>

\* One process of the sweep: it is stopped, unless it is the game, has gone or cannot be
\* written down.  The game is the one game_mode_pid names now, not the one of the order.
Stop(p) ==
    /\ At("freeze") /\ p \in worker.todo
    /\ IF p # mode.pid /\ p \in alive /\ Cardinality(books.frozen) < MaxPids
       THEN /\ sys' = [sys EXCEPT !.stopped = @ \cup {p}]
            /\ worker' = [worker EXCEPT !.pc = "noteFrozen", !.hand = p, !.todo = @ \ {p}]
       ELSE /\ sys' = sys
            /\ worker' = [worker EXCEPT !.todo = @ \ {p}]
    /\ UNCHANGED <<desktop, post, books>>

\* Mutant: the list keeps one entry.
NoteInPlace ==
    /\ At("noteFrozen")
    /\ books' = [books EXCEPT !.frozen = {worker.hand}]
    /\ worker' = [worker EXCEPT !.pc = "freeze", !.hand = NoPid]
    /\ UNCHANGED <<desktop, post, sys>>

NoteFrozen ==
    /\ At("noteFrozen")
    /\ books' = [books EXCEPT !.frozen = @ \cup {worker.hand}]
    /\ worker' = [worker EXCEPT !.pc = "freeze", !.hand = NoPid]
    /\ UNCHANGED <<desktop, post, sys>>

Frozen == At("freeze") /\ worker.todo = {} /\ Go("raise") /\ UNCHANGED <<desktop, post, books, sys>>

\* The game of the order is raised, and the second sweep begins.
Raise ==
    /\ At("raise")
    /\ UNCHANGED <<desktop, post>>
    /\ IF worker.pid = NoPid
       THEN Go("done") /\ UNCHANGED <<books, sys>>
       ELSE /\ sys' = [sys EXCEPT !.raised = @ \cup ({worker.pid} \cap alive)]
            /\ books' = [books EXCEPT !.lowered = {}]
            /\ worker' = [worker EXCEPT !.pc = "lower", !.todo = Proc \ {worker.pid}]

\* One process of the second sweep: whether there is a place for it is asked afterwards.
Lower(p) ==
    /\ At("lower") /\ p \in worker.todo
    /\ IF p \in alive
       THEN /\ sys' = [sys EXCEPT !.idle = @ \cup {p}]
            /\ worker' = [worker EXCEPT !.pc = "noteLowered", !.hand = p, !.todo = @ \ {p}]
       ELSE /\ sys' = sys
            /\ worker' = [worker EXCEPT !.todo = @ \ {p}]
    /\ UNCHANGED <<desktop, post, books>>

NoteLowered ==
    /\ At("noteLowered")
    /\ books' = IF Cardinality(books.lowered) < MaxPids
                THEN [books EXCEPT !.lowered = @ \cup {worker.hand}] ELSE books
    /\ worker' = [worker EXCEPT !.pc = "lower", !.hand = NoPid]
    /\ UNCHANGED <<desktop, post, sys>>

Lowered == At("lower") /\ worker.todo = {} /\ Go("done") /\ UNCHANGED <<desktop, post, books, sys>>

\* gm_ultra_exit, in its two halves: what was lowered and raised, what was stopped.
Undone(p) == [sys EXCEPT !.idle = @ \ books.lowered, !.raised = @ \ {p}]
Thawed(s) == [s EXCEPT !.stopped = @ \ books.frozen, !.clocks = FALSE]

Restore ==
    /\ At("restore")
    /\ sys' = Undone(worker.pid)
    /\ books' = [books EXCEPT !.lowered = {}]
    /\ Go("thaw")
    /\ UNCHANGED <<desktop, post>>

Thaw ==
    /\ At("thaw")
    /\ sys' = Thawed(sys)
    /\ books' = [books EXCEPT !.frozen = {}]
    /\ Go("done")
    /\ UNCHANGED <<desktop, post>>

\* Mutant: what was asked meanwhile counts as applied.
FinishAsAsked ==
    /\ At("done")
    /\ worker' = [worker EXCEPT !.applied = post.ultra, !.pid = NoPid,
                                !.pc = IF post.serving THEN "wait" ELSE "ended"]
    /\ post' = [post EXCEPT !.wake = @ \/ post.ultra # worker.want]
    /\ UNCHANGED <<desktop, books, sys>>

\* Mutant: the mailbox is cleared when the work is done.
FinishAndClear ==
    /\ At("done")
    /\ worker' = [worker EXCEPT !.applied = worker.want, !.pid = NoPid,
                                !.pc = IF post.serving THEN "wait" ELSE "ended"]
    /\ post' = [post EXCEPT !.wake = FALSE]
    /\ UNCHANGED <<desktop, books, sys>>

\* The order is carried out; another may have come meanwhile.
Finish ==
    /\ At("done")
    /\ worker' = [worker EXCEPT !.applied = worker.want, !.pid = NoPid,
                                !.pc = IF post.serving THEN "wait" ELSE "ended"]
    /\ post' = [post EXCEPT !.wake = @ \/ post.ultra # worker.want]
    /\ UNCHANGED <<desktop, books, sys>>

Work ==
    \/ Take \/ Profile \/ Frozen \/ NoteFrozen \/ Raise \/ Lowered \/ NoteLowered
    \/ Restore \/ Thaw \/ Finish
    \/ \E p \in Proc : Stop(p) \/ Lower(p)

-----------------------------------------------------------------------------
(* The end of the compositor.                                                *)

\* The event loop is over: of windows and game mode only game_mode_pid is still read.
LoopEnds ==
    /\ window' = [c \in Client |-> "closed"]
    /\ mode' = [ultra |-> FALSE, client |-> NoClient, pid |-> mode.pid, guarded |-> FALSE, armed |-> FALSE]
    /\ UNCHANGED <<alive, worker>>

\* gm_bg_cleanup: the worker is told to end,
Quit ==
    /\ session = "up"
    /\ session' = "quitting"
    /\ post' = [post EXCEPT !.serving = FALSE]
    /\ LoopEnds
    /\ UNCHANGED <<books, sys>>

\* Mutant: only what is still asked for is undone.
JoinedAsAsked ==
    /\ session = "quitting" /\ worker.pc = "ended"
    /\ session' = "left"
    /\ IF post.ultra
       THEN sys' = Thawed(Undone(post.pid)) /\ books' = [frozen |-> {}, lowered |-> {}]
       ELSE UNCHANGED <<sys, books>>
    /\ UNCHANGED <<window, alive, mode, post, worker>>

\* is joined, and what it has done is undone.
Joined ==
    /\ session = "quitting" /\ worker.pc = "ended"
    /\ session' = "left"
    /\ IF worker.applied
       THEN sys' = Thawed(Undone(post.pid)) /\ books' = [frozen |-> {}, lowered |-> {}]
       ELSE UNCHANGED <<sys, books>>
    /\ UNCHANGED <<window, alive, mode, post, worker>>

\* A fatal signal: gm_emergency_restore, while the worker runs on,
Crash ==
    /\ session \in {"up", "quitting"}
    /\ session' = "crashing"
    /\ LoopEnds /\ post' = post
    /\ sys' = [sys EXCEPT !.stopped = @ \ books.frozen, !.idle = @ \ books.lowered]
    /\ books' = [frozen |-> {}, lowered |-> {}]

\* and the end.
Perish ==
    /\ session = "crashing"
    /\ session' = "crashed"
    /\ UNCHANGED <<window, alive, mode, post, tuning>>

Next ==
    \/ \E c \in Client :
          \/ Open(c) \/ Close(c) \/ EnterFullscreen(c) \/ LeaveFullscreen(c)
          \/ LookAt(c) \/ LookAway(c)
    \/ \E p \in Proc : Die(p) \/ Start(p)
    \/ Decide \/ Hold
    \/ Work
    \/ Quit \/ Joined \/ Crash \/ Perish

\* The timer and the worker come to their turn.  (Decide stays enabled through
\* Hold: a cover ends.)
Fairness == WF_vars(Work \/ Joined) /\ WF_vars(Decide)

Spec == Init /\ [][Next]_vars /\ Fairness

-----------------------------------------------------------------------------
\* As many processes as the lists have places.
Roomy == Cardinality(Proc) <= MaxPids

\* Nothing is left of game mode, but for the priority of a game, which ends with it.
Untouched == sys.stopped = {} /\ sys.idle = {} /\ ~ sys.clocks

\* Whatever is stopped or made idle is written down, but for the one process the
\* worker has in its hand: what a crash can still undo (gm_emergency_restore).
AllNoted ==
    session \in {"up", "quitting"} =>
        /\ sys.stopped \subseteq books.frozen \cup (IF worker.pc = "noteFrozen" THEN {worker.hand} ELSE {})
        /\ sys.idle \subseteq books.lowered \cup (IF worker.pc = "noteLowered" THEN {worker.hand} ELSE {})

\* A worker that has nothing applied and nothing to do has left no process stopped or
\* idle and no clock raised, however its orders followed each other.
RestLeavesNothing ==
    session \in {"up", "quitting"} /\ worker.pc \in {"wait", "ended"} /\ ~ worker.applied => Untouched

\* Quitting leaves no process stopped or idle and no clock raised, whatever the worker was
\* doing when it was told: "cleanup() undoes that on a normal quit" (nixlytile.c).
QuitLeavesNothing == session = "left" => Untouched

\* When the worker rests it has done what was asked of it last.
OrdersCarriedOut ==
    worker.pc = "wait" /\ ~ post.wake /\ session = "up" => worker.applied = mode.ultra

\* Once game mode is left for good the system comes back.
SystemComesBack == []<>(mode.ultra \/ session # "up" \/ Untouched)

\* Game mode does not outlive the windows: nothing guards it when all are closed.
EndsWithTheWindows ==
    (\A c \in Client : window[c] = "closed") ~> (~ mode.ultra \/ session # "up" \/ \E c \in Client : window[c] # "closed")

\* The game in front is not left stopped: "so the game and its children are excluded
\* from SIGSTOP" (gamemode.c).
GameRuns ==
    \A c \in Game :
        []<>~ (session = "up" /\ mode.ultra /\ mode.client = c /\ PidOf(c) \in sys.stopped)
=============================================================================
