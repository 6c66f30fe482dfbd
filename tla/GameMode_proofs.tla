-------------------------- MODULE GameMode_proofs --------------------------
(***************************************************************************)
(* What game mode stops and lowers is undone, for any set of clients and    *)
(* processes, whatever the order in which windows, the user and the worker   *)
(* come to their turn.  The argument follows the worker from stage to stage:  *)
(* a stage that forgets a list (the sweeps begin with an empty one) is only    *)
(* reached when there is nothing on it.  The second part is about the launch    *)
(* effect, whose boost game mode takes over: whatever ends a launch ends its     *)
(* boost with it, and one Play press starts one launch.  A sweep over the         *)
(* reapers is a function of how many it has met, and what is said of it is said    *)
(* of the first number for which it would be false.                                *)
(***************************************************************************)
EXTENDS GameMode, LaunchFx, FiniteSetTheorems, SequenceTheorems, TLAPS

\* Up to a crash, all that is stopped or idle is in the books or in the worker's hand,
Hand(stage) == IF worker.pc = stage THEN {worker.hand} ELSE {}
Noted == /\ sys.stopped \subseteq books.frozen \cup Hand("noteFrozen")
         /\ sys.idle \subseteq books.lowered \cup Hand("noteLowered")

\* and there is nothing at the stages that take it for granted.
Idle(stages) == worker.pc \in stages => sys.idle = {}
Entering == {"profile", "freeze", "noteFrozen", "raise", "lower", "noteLowered"}
Leaving == {"restore", "thaw"}
Staged ==
    /\ worker.pc \in Entering => worker.want
    /\ worker.pc \in Leaving => ~ worker.want
    /\ worker.pc = "profile" => Untouched
    /\ Idle({"freeze", "noteFrozen", "raise", "thaw"})
    /\ worker.pc = "done" /\ ~ worker.want => Untouched
    /\ worker.pc \in {"wait", "ended"} /\ ~ worker.applied => Untouched

\* The mailbox repeats what the main thread has decided last, and is never left
\* with an order that the worker does not know of.
Ordered ==
    session = "up" =>
        /\ post.ultra = mode.ultra
        /\ worker.pc = "wait" /\ ~ post.wake => worker.applied = post.ultra

\* The inductive invariant.
Kept ==
    /\ TypeOK
    /\ Roomy /\ session \in {"up", "quitting"} => Noted /\ Staged
    /\ Ordered
    /\ Roomy /\ session = "left" => Untouched

\* What the main thread does to windows and its own fields is no concern of it.
LEMMA DesktopKeeps ==
    ASSUME Kept, TypeOK', session' = session, UNCHANGED tuning,
           session = "up" => /\ post'.ultra = mode'.ultra
                             /\ post' = post \/ post'.wake
                             /\ post' = post => mode'.ultra = mode.ultra
    PROVE  Kept'
BY DEF Kept, Noted, Hand, Staged, Idle, Untouched, Ordered, tuning

\* A stage of the worker leaves the main thread alone.
LEMMA StageKeeps ==
    ASSUME Kept, TypeOK', UNCHANGED desktop, Working,
           post'.ultra = post.ultra,
           Roomy /\ session \in {"up", "quitting"} => (Noted /\ Staged)',
           worker'.pc = "wait" /\ ~ post'.wake => worker'.applied = post.ultra
    PROVE  Kept'
BY DEF Kept, Ordered, desktop, Working

-----------------------------------------------------------------------------
(* Types, by the part of the system that moves.                              *)

\* One window comes to the front and the one that was there goes back.
LEMMA FrontTyped ==
    ASSUME TypeOK, NEW c \in Client, ComesToFront(c)
    PROVE  window' \in [Client -> Windows]
BY DEF ComesToFront, TypeOK, Windows

\* What the main thread writes down when it posts or fires its timer.
LEMMA MainTyped ==
    ASSUME GameModeAssumption, TypeOK
    PROVE  Asked \in Mode /\ [mode EXCEPT !.armed = FALSE] \in Mode
BY DEF TypeOK, Mode, Asked

\* The user, the windows and the processes.
LEMMA DesktopTyped ==
    ASSUME GameModeAssumption, TypeOK,
           \/ \E c \in Client :
                 \/ Open(c) \/ Close(c) \/ EnterFullscreen(c) \/ LeaveFullscreen(c)
                 \/ LookAt(c) \/ LookAway(c)
           \/ \E p \in Proc : Die(p) \/ Start(p)
    PROVE  TypeOK'
<1> USE MainTyped DEF desktop, tuning
<1>1. ASSUME NEW c \in Client, Open(c) PROVE TypeOK'
      <2>1. window' \in [Client -> Windows]
            BY <1>1, FrontTyped DEF Open, TypeOK, Windows
      <2> QED BY <1>1, <2>1 DEF Open, TypeOK
<1>2. ASSUME NEW c \in Client, Close(c) PROVE TypeOK'
      <2>1. Forgotten(c) \in Mode
            BY DEF Forgotten, Asked, TypeOK, Mode
      <2> QED BY <1>2, <2>1 DEF Close, TypeOK, Windows
<1>3. ASSUME NEW c \in Client, EnterFullscreen(c) PROVE TypeOK'
      BY <1>3, FrontTyped DEF EnterFullscreen, TypeOK
<1>4. ASSUME NEW c \in Client, LeaveFullscreen(c) PROVE TypeOK'
      <2>1. mode' \in Mode
            BY <1>4 DEF LeaveFullscreen, Asked, TypeOK, Mode
      <2> QED BY <1>4, <2>1 DEF LeaveFullscreen, TypeOK, Windows
<1>5. ASSUME NEW c \in Client, LookAt(c) PROVE TypeOK'
      BY <1>5, FrontTyped DEF LookAt, TypeOK
<1>6. ASSUME NEW c \in Client, LookAway(c) PROVE TypeOK'
      BY <1>6 DEF LookAway, TypeOK, Windows
<1>7. ASSUME NEW p \in Proc, Die(p) PROVE TypeOK'
      <2>1. mode' \in Mode /\ sys' \in System
            BY <1>7 DEF Die, TypeOK, Mode, System
      <2> QED BY <1>7, <2>1 DEF Die, TypeOK
<1>8. ASSUME NEW p \in Proc, Start(p) PROVE TypeOK'
      BY <1>8 DEF Start, TypeOK
<1> QED BY <1>1, <1>2, <1>3, <1>4, <1>5, <1>6, <1>7, <1>8

\* The fullscreen window that counts is a client, or there is none.
LEMMA FrontClient == Front1 \in Client \cup {NoClient} /\ (Front1 # NoClient => Front1 \in Client)
BY DEF Front1, Shown

\* update_game_mode
LEMMA UpdateTyped ==
    ASSUME GameModeAssumption, TypeOK, NEW c \in Client \cup {NoClient}, NEW on \in BOOLEAN,
           on => c \in Client, Update(c, on)
    PROVE  TypeOK'
<1> USE DEF tuning
<1>1. mode' \in Mode
      <2>1. CASE mode' = [mode EXCEPT !.armed = FALSE]
            BY <2>1, MainTyped
      <2>2. CASE /\ on
                 /\ mode' = [ultra |-> TRUE, client |-> c, pid |-> PidOf(c),
                             guarded |-> PidOf(c) \in alive, armed |-> FALSE]
            <3>1. c \in Client /\ PidOf(c) \in Proc /\ (PidOf(c) \in alive) \in BOOLEAN
                  BY <2>2 DEF GameModeAssumption
            <3> QED BY <2>2, <3>1 DEF Mode
      <2>3. CASE mode' = [mode EXCEPT !.client = c, !.armed = FALSE]
            BY <2>3 DEF TypeOK, Mode
      <2>4. CASE mode' = [mode EXCEPT !.ultra = FALSE, !.client = NoClient, !.pid = NoPid,
                                      !.guarded = FALSE, !.armed = FALSE]
            BY <2>4 DEF TypeOK, Mode
      <2>5. CASE mode' = [mode EXCEPT !.client = NoClient, !.armed = FALSE]
            BY <2>5 DEF TypeOK, Mode
      <2> QED BY <2>1, <2>2, <2>3, <2>4, <2>5 DEF Update
<1>2. post' \in Post
      <2>1. ASSUME NEW p \in Proc \cup {NoPid}, NEW u \in BOOLEAN PROVE Posted(u, p) \in Post
            BY DEF Posted, TypeOK, Post
      <2>2. on => PidOf(c) \in Proc
            BY DEF GameModeAssumption
      <2>3. mode.pid \in Proc \cup {NoPid} /\ post \in Post
            BY DEF TypeOK, Mode
      <2>4. \/ post' = post
            \/ on /\ post' = Posted(TRUE, PidOf(c))
            \/ post' = Posted(FALSE, mode.pid)
            BY DEF Update
      <2> QED BY <2>1, <2>2, <2>3, <2>4
<1> QED BY <1>1, <1>2 DEF Update, TypeOK

\* The debounce timer, with update_game_mode or without.
LEMMA DecideTyped ==
    ASSUME GameModeAssumption, TypeOK, Decide \/ Hold
    PROVE  TypeOK'
<1>1. CASE Hold
      <2>1. mode' \in Mode
            BY <1>1 DEF Hold, TypeOK, Mode
      <2> QED BY <1>1, <2>1 DEF Hold, TypeOK, tuning
<1>2. CASE Front1 = NoClient /\ Update(NoClient, FALSE)
      BY <1>2, UpdateTyped
<1>3. CASE Front1 # NoClient /\ \E v \in Verdict(Front1) :
              Update(IF v = "none" THEN NoClient ELSE Front1, v = "game")
      BY <1>3, UpdateTyped, FrontClient
<1> QED BY <1>1, <1>2, <1>3 DEF Decide

\* The worker notes a process that it holds.
Held == worker.pc \in {"noteFrozen", "noteLowered"} => worker.hand \in Proc

\* The worker goes on to another stage.
LEMMA WorkerTyped ==
    ASSUME worker \in Worker, NEW stage \in Stages, NEW h \in Proc \cup {NoPid},
           NEW t \in SUBSET Proc
    PROVE  /\ [worker EXCEPT !.pc = stage, !.hand = h, !.todo = t] \in Worker
           /\ [worker EXCEPT !.pc = stage, !.todo = t] \in Worker
           /\ [worker EXCEPT !.pc = stage] \in Worker
           /\ [worker EXCEPT !.todo = t] \in Worker
BY DEF Worker

\* One process of a sweep.
LEMMA SweepTyped ==
    ASSUME worker \in Worker, NEW p \in Proc, NEW stage \in {"noteFrozen", "noteLowered"},
           \/ worker' = [worker EXCEPT !.pc = stage, !.hand = p, !.todo = @ \ {p}]
           \/ /\ worker' = [worker EXCEPT !.todo = @ \ {p}]
              /\ worker.pc \notin {"noteFrozen", "noteLowered"}
    PROVE  worker' \in Worker /\ Held'
<1> DEFINE rest == worker.todo \ {p}
<1>1. rest \in SUBSET Proc /\ stage \in Stages
      BY DEF Worker, Stages
<1>2. worker' \in Worker
      <2> HIDE DEF rest
      <2>1. [worker EXCEPT !.pc = stage, !.hand = p, !.todo = rest] \in Worker
            BY <1>1, WorkerTyped
      <2>2. [worker EXCEPT !.todo = rest] \in Worker
            BY <1>1, WorkerTyped
      <2> QED BY <2>1, <2>2 DEF rest
<1>3. Held'
      BY DEF Worker, Held
<1> QED BY <1>2, <1>3

\* Every stage of the worker.
LEMMA WorkTyped ==
    ASSUME GameModeAssumption, TypeOK, Held, Work
    PROVE  TypeOK' /\ Held'
<1> USE DEF desktop, At, Go, TypeOK, Stages, Held
<1>1. CASE Take
      <2>1. worker' \in Worker
            BY <1>1 DEF Take, Worker, Post
      <2>2. post' \in Post
            BY <1>1 DEF Take, Post
      <2>3. worker'.pc \in {"ended", "done", "profile", "restore"}
            BY <1>1 DEF Take, Worker
      <2> QED BY <1>1, <2>1, <2>2, <2>3 DEF Take
<1>2. CASE Profile
      <2>1. worker' \in Worker
            BY <1>2 DEF Profile, Worker
      <2>2. books' \in Books /\ sys' \in System
            BY <1>2 DEF Profile, Books, System
      <2>3. worker'.pc = "freeze"
            BY <1>2 DEF Profile, Worker
      <2> QED BY <1>2, <2>1, <2>2, <2>3 DEF Profile
<1>3. ASSUME NEW p \in Proc, Stop(p) PROVE TypeOK' /\ Held'
      <2>1. worker' \in Worker /\ Held'
            BY <1>3, SweepTyped DEF Stop
      <2>2. sys' \in System
            BY <1>3 DEF Stop, System
      <2> QED BY <1>3, <2>1, <2>2 DEF Stop
<1>4. CASE NoteFrozen
      BY <1>4 DEF NoteFrozen, Worker, Books
<1>5. CASE Frozen
      BY <1>5 DEF Frozen, Worker
<1>6. CASE Raise
      <2>1. worker' \in Worker
            BY <1>6, WorkerTyped DEF Raise
      <2>2. books' \in Books /\ sys' \in System
            BY <1>6 DEF Raise, Books, System
      <2>3. worker'.pc \in {"done", "lower"}
            BY <1>6 DEF Raise, Worker
      <2> QED BY <1>6, <2>1, <2>2, <2>3 DEF Raise
<1>7. ASSUME NEW p \in Proc, Lower(p) PROVE TypeOK' /\ Held'
      <2>1. worker' \in Worker /\ Held'
            BY <1>7, SweepTyped DEF Lower
      <2>2. sys' \in System
            BY <1>7 DEF Lower, System
      <2> QED BY <1>7, <2>1, <2>2 DEF Lower
<1>8. CASE NoteLowered
      BY <1>8 DEF NoteLowered, Worker, Books
<1>9. CASE Lowered
      BY <1>9 DEF Lowered, Worker
<1>10. CASE Restore
      BY <1>10 DEF Restore, Undone, Worker, Books, System
<1>11. CASE Thaw
      BY <1>11 DEF Thaw, Thawed, Worker, Books, System
<1>12. CASE Finish
      BY <1>12 DEF Finish, Worker, Post
<1> QED BY <1>1, <1>2, <1>3, <1>4, <1>5, <1>6, <1>7, <1>8, <1>9, <1>10, <1>11, <1>12 DEF Work

\* Quitting and crashing.
LEMMA EndTyped ==
    ASSUME GameModeAssumption, TypeOK, Quit \/ Joined \/ Crash \/ Perish
    PROVE  TypeOK'
<1> USE DEF TypeOK
<1>1. mode' \in Mode
      <2>1. LoopEnds => mode' \in Mode
            BY DEF LoopEnds, Mode
      <2> QED BY <2>1 DEF Quit, Joined, Crash, Perish
<1>2. post' \in Post
      BY DEF Quit, Joined, Crash, Perish, Post
<1>3. sys' \in System /\ books' \in Books
      <2>1. CASE Joined /\ worker.applied
            <3>1. Undone(post.pid) \in System
                  BY DEF Undone, System
            <3>2. Thawed(Undone(post.pid)) \in System
                  BY <3>1 DEF Thawed, System
            <3> QED BY <2>1, <3>2 DEF Joined, Books
      <2>2. CASE Crash
            BY <2>2 DEF Crash, System, Books
      <2> QED BY <2>1, <2>2 DEF Quit, Joined, Perish, tuning
<1>4. window' \in [Client -> Windows]
      BY DEF Quit, Joined, Crash, Perish, LoopEnds, Windows
<1>5. UNCHANGED <<alive, worker>>
      BY DEF Quit, Joined, Crash, Perish, LoopEnds, tuning
<1>6. session' \in {"up", "quitting", "crashing", "left", "crashed"}
      BY DEF Quit, Joined, Crash, Perish
<1> QED BY <1>1, <1>2, <1>3, <1>4, <1>5, <1>6

\* Every variable keeps its type through every step.
LEMMA TypeKept ==
    ASSUME GameModeAssumption, TypeOK, Held, [Next]_vars
    PROVE  TypeOK' /\ Held'
<1>1. CASE Work
      BY <1>1, WorkTyped
<1>2. CASE UNCHANGED worker
      <2>1. TypeOK'
            <3>1. CASE UNCHANGED vars
                  BY <3>1 DEF vars, TypeOK
            <3>2. CASE Next
                  BY <3>2, <1>1, DesktopTyped, DecideTyped, EndTyped DEF Next
            <3> QED BY <3>1, <3>2
      <2> QED BY <2>1, <1>2 DEF Held
<1>3. UNCHANGED worker \/ Work
      BY DEF Next, vars, tuning, Open, Close, EnterFullscreen, LeaveFullscreen, LookAt,
             LookAway, Die, Start, Decide, Hold, Update, Quit, Joined, Crash, Perish, LoopEnds
<1> QED BY <1>1, <1>2, <1>3

-----------------------------------------------------------------------------
(* The worker's stages.                                                      *)

\* One process more is stopped, or made idle, and held until it is noted.
LEMMA SweepKeeps ==
    ASSUME TypeOK, Held, Noted, Staged, NEW p \in Proc, Stop(p) \/ Lower(p)
    PROVE  (Noted /\ Staged)'
<1>1. CASE Stop(p)
      <2>1. /\ worker.pc = "freeze" /\ books' = books
            /\ worker'.want = worker.want
            BY <1>1 DEF Stop, At, TypeOK, Worker
      <2>2. /\ sys'.idle = sys.idle
            /\ \/ sys'.stopped = sys.stopped /\ worker'.pc = "freeze"
               \/ /\ sys'.stopped = sys.stopped \cup {p}
                  /\ worker'.pc = "noteFrozen" /\ worker'.hand = p
            BY <1>1 DEF Stop, At, TypeOK, Worker, System
      <2>3. Noted'
            BY <2>1, <2>2 DEF Noted, Hand
      <2>4. Staged'
            BY <2>1, <2>2 DEF Staged, Idle, Entering, Leaving
      <2> QED BY <2>3, <2>4
<1>2. CASE Lower(p)
      <2>1. /\ worker.pc = "lower" /\ books' = books
            /\ worker'.want = worker.want
            BY <1>2 DEF Lower, At, TypeOK, Worker
      <2>2. /\ sys'.stopped = sys.stopped
            /\ \/ sys'.idle = sys.idle /\ worker'.pc = "lower"
               \/ /\ sys'.idle = sys.idle \cup {p}
                  /\ worker'.pc = "noteLowered" /\ worker'.hand = p
            BY <1>2 DEF Lower, At, TypeOK, Worker, System
      <2>3. Noted'
            BY <2>1, <2>2 DEF Noted, Hand
      <2>4. Staged'
            BY <2>1, <2>2 DEF Staged, Idle, Entering, Leaving
      <2> QED BY <2>3, <2>4
<1> QED BY <1>1, <1>2

\* With room enough, a process that finds no place in the second list is there already.
LEMMA NoteLoweredNotes ==
    ASSUME GameModeAssumption, Roomy, TypeOK, Held, NoteLowered
    PROVE  books' = [books EXCEPT !.lowered = @ \cup {worker.hand}]
<1>1. IsFiniteSet(Proc) /\ Cardinality(Proc) \in Nat /\ MaxPids \in Nat
      BY FS_CardinalityType DEF GameModeAssumption
<1>2. books.lowered \in SUBSET Proc /\ worker.hand \in Proc
      BY DEF NoteLowered, At, TypeOK, Books, Held
<1>3. CASE books.lowered = Proc
      BY <1>2, <1>3 DEF NoteLowered, TypeOK, Books
<1>4. CASE books.lowered # Proc
      <2>1. Cardinality(books.lowered) \in Nat /\ Cardinality(books.lowered) < Cardinality(Proc)
            <3>1. IsFiniteSet(books.lowered)
                  BY <1>1, <1>2, FS_Subset
            <3> QED BY <1>1, <1>2, <1>4, <3>1, FS_Subset, FS_CardinalityType
      <2>2. Cardinality(books.lowered) < MaxPids
            BY <1>1, <2>1 DEF Roomy
      <2> QED BY <2>2 DEF NoteLowered
<1> QED BY <1>3, <1>4

\* The worker writes the process in its hand into the lists.
LEMMA NoteKeeps ==
    ASSUME GameModeAssumption, Roomy, TypeOK, Held, Noted, Staged, NoteFrozen \/ NoteLowered
    PROVE  (Noted /\ Staged)'
<1> USE DEF At, Noted, Hand, Staged, Idle, Entering, Leaving, TypeOK, Worker, System, Books
<1>1. CASE NoteFrozen
      <2>1. Noted'
            BY <1>1 DEF NoteFrozen
      <2>2. Staged'
            BY <1>1 DEF NoteFrozen
      <2> QED BY <2>1, <2>2
<1>2. CASE NoteLowered
      <2>0. books' = [books EXCEPT !.lowered = @ \cup {worker.hand}]
            BY <1>2, NoteLoweredNotes
      <2>1. Noted'
            BY <1>2, <2>0 DEF NoteLowered
      <2>2. Staged'
            BY <1>2, <2>0 DEF NoteLowered
      <2> QED BY <2>1, <2>2
<1> QED BY <1>1, <1>2

\* The sweeps begin with empty lists, and end.
LEMMA EnterKeeps ==
    ASSUME TypeOK, Held, Noted, Staged, Profile \/ Frozen \/ Raise \/ Lowered
    PROVE  (Noted /\ Staged)'
<1> USE DEF At, Go, Noted, Hand, Staged, Idle, Entering, Leaving, TypeOK, Worker, System, Books
<1>1. CASE Profile
      <2>1. /\ worker.pc = "profile" /\ worker'.pc = "freeze" /\ worker'.want = worker.want
            /\ sys'.stopped = sys.stopped /\ sys'.idle = sys.idle
            /\ books'.frozen = {} /\ books'.lowered = books.lowered
            BY <1>1 DEF Profile
      <2>2. sys.stopped = {} /\ sys.idle = {} /\ worker.want
            BY <2>1 DEF Untouched
      <2>3. Noted'
            BY <2>1, <2>2
      <2>4. Staged'
            BY <2>1, <2>2 DEF Untouched
      <2> QED BY <2>3, <2>4
<1>2. CASE Frozen
      BY <1>2 DEF Frozen
<1>3. CASE Raise
      BY <1>3 DEF Raise
<1>4. CASE Lowered
      BY <1>4 DEF Lowered
<1> QED BY <1>1, <1>2, <1>3, <1>4

\* What is in the books is undone.
LEMMA LeaveKeeps ==
    ASSUME TypeOK, Held, Noted, Staged, Restore \/ Thaw
    PROVE  (Noted /\ Staged)'
<1> USE DEF At, Go, Noted, Hand, Staged, Idle, Entering, Leaving, TypeOK, Worker, System, Books
<1>1. CASE Restore
      BY <1>1 DEF Restore, Undone
<1>2. CASE Thaw
      BY <1>2 DEF Thaw, Thawed, Untouched
<1> QED BY <1>1, <1>2

\* An order is taken, and is done.
LEMMA OrderKeeps ==
    ASSUME TypeOK, Held, Noted, Staged, Take \/ Finish
    PROVE  (Noted /\ Staged)'
<1> USE DEF At, Go, TypeOK, Worker, Post
<1>1. CASE Take
      <2>1. /\ worker.pc = "wait" /\ worker'.applied = worker.applied
            /\ \/ worker'.pc = "ended"
               \/ worker'.pc = "done" /\ worker'.want = worker.applied
               \/ worker'.pc = "profile" /\ worker'.want /\ ~ worker.applied
               \/ worker'.pc = "restore" /\ ~ worker'.want
            BY <1>1 DEF Take
      <2>2. UNCHANGED <<sys, books>>
            BY <1>1 DEF Take
      <2>3. Noted'
            BY <2>1, <2>2 DEF Noted, Hand
      <2>4. ~ worker.applied => Untouched
            BY <2>1 DEF Staged
      <2>5. Staged'
            BY <2>1, <2>2, <2>4 DEF Staged, Idle, Entering, Leaving, Untouched
      <2> QED BY <2>3, <2>5
<1>2. CASE Finish
      <2>1. worker.pc = "done" /\ worker'.pc \in {"wait", "ended"} /\ worker'.applied = worker.want
            BY <1>2 DEF Finish
      <2>2. UNCHANGED <<sys, books>>
            BY <1>2 DEF Finish
      <2>3. Noted'
            BY <2>1, <2>2 DEF Noted, Hand
      <2>4. Staged'
            BY <2>1, <2>2 DEF Staged, Idle, Entering, Leaving, Untouched
      <2> QED BY <2>3, <2>4
<1> QED BY <1>1, <1>2

-----------------------------------------------------------------------------
(* The invariant.                                                            *)

\* The desktop without a game.
LEMMA InitKept == Init => Kept /\ Held
BY GameModeAssumption DEF Init, Kept, Held, TypeOK, Mode, Post, Worker, Books, System, Stages, Windows,
   Noted, Hand, Staged, Idle, Entering, Leaving, Untouched, Ordered

\* The user and the windows touch nothing of game mode.
LEMMA DesktopStepKeeps ==
    ASSUME GameModeAssumption, Kept, Held,
           \/ \E c \in Client :
                 \/ Open(c) \/ Close(c) \/ EnterFullscreen(c) \/ LeaveFullscreen(c)
                 \/ LookAt(c) \/ LookAway(c)
           \/ \E p \in Proc : Start(p)
    PROVE  Kept'
<1>1. TypeOK'
      BY DesktopTyped DEF Kept
<1>2. mode'.ultra = mode.ultra
      <2>1. Asked.ultra = mode.ultra /\ \A c : Forgotten(c).ultra = mode.ultra
            BY DEF Asked, Forgotten, Kept, TypeOK, Mode
      <2>2. [Asked EXCEPT !.pid = NoPid].ultra = mode.ultra
            BY DEF Asked, Kept, TypeOK, Mode
      <2>3. \/ mode' \in {mode, Asked, [Asked EXCEPT !.pid = NoPid]}
            \/ \E c \in Client : mode' = Forgotten(c)
            BY DEF Open, Close, EnterFullscreen, LeaveFullscreen, LookAt, LookAway, Start
      <2> QED BY <2>1, <2>2, <2>3
<1>3. UNCHANGED <<session, post, tuning>>
      BY DEF Open, Close, EnterFullscreen, LeaveFullscreen, LookAt, LookAway, Start
<1> QED BY <1>1, <1>2, <1>3, DesktopKeeps DEF Kept, Ordered

\* A process that ends, stopped or lowered or not.
LEMMA DieKeeps ==
    ASSUME GameModeAssumption, Kept, Held, NEW p \in Proc, Die(p)
    PROVE  Kept'
<1>1. TypeOK'
      BY DesktopTyped DEF Kept
<1>2. mode'.ultra = mode.ultra /\ UNCHANGED <<session, post, worker, books>>
      BY DEF Die, Kept, TypeOK, Mode
<1>3. /\ sys'.stopped \subseteq sys.stopped /\ sys'.idle \subseteq sys.idle
      /\ sys'.clocks = sys.clocks
      BY DEF Die, Kept, TypeOK, System
<1>4. Untouched => Untouched'
      BY <1>3 DEF Untouched
<1>5. Noted => Noted'
      BY <1>2, <1>3 DEF Noted, Hand
<1>6. Staged => Staged'
      BY <1>2, <1>3, <1>4 DEF Staged, Idle
<1> QED BY <1>1, <1>2, <1>4, <1>5, <1>6 DEF Kept, Ordered, Die, Working

\* The debounce timer: an order in the mailbox, or none.
LEMMA UpdateKeeps ==
    ASSUME GameModeAssumption, Kept, Held, Decide \/ Hold
    PROVE  Kept'
<1>1. TypeOK'
      BY DecideTyped DEF Kept
<1>2. UNCHANGED <<session, tuning>>
      BY DEF Decide, Hold, Update
<1>3. session = "up" /\ post.ultra = mode.ultra
      BY DEF Decide, Hold, Update, Kept, Ordered
<1>4. CASE Hold
      <2>1. post' = post /\ mode'.ultra = mode.ultra
            BY <1>4 DEF Hold, Kept, TypeOK, Mode
      <2> QED BY <1>1, <1>2, <1>3, <2>1, DesktopKeeps
<1>5. ASSUME NEW c, NEW on \in BOOLEAN, Update(c, on)
      PROVE  /\ post'.ultra = mode'.ultra
             /\ (post' = post /\ mode'.ultra = mode.ultra) \/ post'.wake
      <2>1. mode \in Mode /\ post \in Post
            BY DEF Kept, TypeOK
      <2>2. \A u \in BOOLEAN : \A p : Posted(u, p).ultra = u /\ Posted(u, p).wake
            BY <2>1 DEF Posted, Post
      <2>3. /\ [mode EXCEPT !.armed = FALSE].ultra = mode.ultra
            /\ [mode EXCEPT !.client = c, !.armed = FALSE].ultra = mode.ultra
            /\ [mode EXCEPT !.client = NoClient, !.armed = FALSE].ultra = mode.ultra
            /\ [mode EXCEPT !.ultra = FALSE, !.client = NoClient, !.pid = NoPid,
                            !.guarded = FALSE, !.armed = FALSE].ultra = FALSE
            BY <2>1 DEF Mode
      <2>4. \/ post' = post /\ mode'.ultra = mode.ultra
            \/ mode'.ultra = TRUE /\ post' = Posted(TRUE, PidOf(c))
            \/ mode'.ultra = FALSE /\ post' = Posted(FALSE, mode.pid)
            <3>1. CASE c = NoClient /\ Guarded
                  BY <1>5, <2>3, <3>1, Zenon DEF Update
            <3>2. CASE ~ (c = NoClient /\ Guarded)
                  <4> DEFINE entered == [ultra |-> TRUE, client |-> c, pid |-> PidOf(c),
                                         guarded |-> PidOf(c) \in alive, armed |-> FALSE]
                  <4>1. entered.ultra = TRUE
                        OBVIOUS
                  <4>2. \/ mode' = entered /\ post' = Posted(TRUE, PidOf(c))
                        \/ mode' = [mode EXCEPT !.client = c, !.armed = FALSE] /\ post' = post
                        \/ /\ mode' = [mode EXCEPT !.ultra = FALSE, !.client = NoClient, !.pid = NoPid,
                                                   !.guarded = FALSE, !.armed = FALSE]
                           /\ post' = Posted(FALSE, mode.pid)
                        \/ mode' = [mode EXCEPT !.client = NoClient, !.armed = FALSE] /\ post' = post
                        BY <1>5, <3>2 DEF Update
                  <4> HIDE DEF entered
                  <4> QED BY <2>3, <4>1, <4>2
            <3> QED BY <3>1, <3>2
      <2> QED BY <1>3, <2>2, <2>4
<1>6. CASE Decide
      BY <1>1, <1>2, <1>3, <1>5, <1>6, DesktopKeeps DEF Decide
<1> QED BY <1>4, <1>6

\* Every stage of the worker keeps the books and the stages in order.
LEMMA WorkKeeps ==
    ASSUME GameModeAssumption, Kept, Held, Work
    PROVE  Kept'
<1>1. TypeOK' /\ UNCHANGED desktop /\ Working
      BY WorkTyped DEF Kept, Work, Take, Profile, Frozen, NoteFrozen, Raise, Lowered, NoteLowered,
         Restore, Thaw, Finish, Stop, Lower, At
<1>2. Roomy /\ session \in {"up", "quitting"} => (Noted /\ Staged)'
      BY SweepKeeps, NoteKeeps, EnterKeeps, LeaveKeeps, OrderKeeps DEF Work, Kept
<1>3. post'.ultra = post.ultra /\ (worker'.pc = "wait" /\ ~ post'.wake => worker'.applied = post.ultra)
      <2>1. CASE Take
            BY <2>1 DEF Take, At, Go, Kept, TypeOK, Worker, Post
      <2>2. CASE Finish
            BY <2>2 DEF Finish, At, Kept, TypeOK, Worker, Post
      <2>3. CASE Profile \/ Frozen \/ NoteFrozen \/ Raise \/ Lowered \/ NoteLowered \/ Restore \/ Thaw
            BY <2>3 DEF Profile, Frozen, NoteFrozen, Raise, Lowered, NoteLowered, Restore, Thaw,
                        At, Go, Kept, TypeOK, Worker
      <2>4. ASSUME NEW p \in Proc, Stop(p) \/ Lower(p)
            PROVE  post' = post /\ worker'.pc # "wait"
            BY <2>4 DEF Stop, Lower, At, Kept, TypeOK, Worker
      <2> QED BY <2>1, <2>2, <2>3, <2>4 DEF Work, Profile, Frozen, NoteFrozen, Raise, Lowered,
                 NoteLowered, Restore, Thaw
<1> QED BY <1>1, <1>2, <1>3, StageKeeps

\* Quitting undoes everything; a crash undoes what is noted.
LEMMA EndKeeps ==
    ASSUME GameModeAssumption, Kept, Held, Quit \/ Joined \/ Crash \/ Perish
    PROVE  Kept'
<1>1. TypeOK'
      BY EndTyped DEF Kept
<1>2. CASE Quit
      BY <1>1, <1>2 DEF Quit, LoopEnds, Kept, Noted, Hand, Staged, Idle, Untouched, Ordered
<1>3. CASE Joined
      <2>1. Roomy => Untouched'
            <3> SUFFICES ASSUME Roomy PROVE Untouched'
                  OBVIOUS
            <3>1. CASE worker.applied
                  <4> DEFINE u == Undone(post.pid)
                  <4>1. u.stopped = sys.stopped /\ u.idle = sys.idle \ books.lowered /\ u \in System
                        BY DEF Undone, Kept, TypeOK, System
                  <4>2. sys' = Thawed(u)
                        BY <1>3, <3>1 DEF Joined
                  <4> HIDE DEF u
                  <4>3. /\ sys'.stopped = u.stopped \ books.frozen /\ sys'.idle = u.idle
                        /\ ~ sys'.clocks
                        BY <4>1, <4>2 DEF Thawed, System
                  <4>4. Noted /\ Hand("noteFrozen") = {} /\ Hand("noteLowered") = {}
                        BY <1>3 DEF Joined, Kept, Hand
                  <4> QED BY <4>1, <4>3, <4>4 DEF Noted, Untouched
            <3>2. CASE ~ worker.applied
                  BY <1>3, <3>2 DEF Joined, Kept, Staged, Untouched
            <3> QED BY <3>1, <3>2
      <2> QED BY <1>1, <1>3, <2>1 DEF Joined, Kept, Ordered
<1>4. CASE Crash \/ Perish
      BY <1>1, <1>4 DEF Crash, Perish, Kept, Ordered
<1> QED BY <1>2, <1>3, <1>4

\* Every step keeps the invariant.
LEMMA StepKept == Kept /\ Held /\ [Next]_vars => Kept' /\ Held'
<1> SUFFICES ASSUME Kept, Held, [Next]_vars
             PROVE  Kept'
    BY GameModeAssumption, TypeKept DEF Kept
<1>1. CASE UNCHANGED vars
      BY <1>1 DEF vars, Kept, TypeOK, Noted, Hand, Staged, Idle, Untouched, Ordered
<1>2. CASE Next
      BY <1>2, GameModeAssumption, DesktopStepKeeps, DieKeeps, UpdateKeeps, WorkKeeps, EndKeeps
      DEF Next
<1> QED BY <1>1, <1>2

\* So every reachable state satisfies it.
LEMMA AlwaysKept == Spec => []Kept
<1>1. Init => Kept /\ Held
      BY InitKept
<1>2. Kept /\ Held /\ [Next]_vars => (Kept /\ Held)'
      BY StepKept
<1> QED BY <1>1, <1>2, PTL DEF Spec

\* Every variable keeps its type: windows, main thread, mailbox, worker and what
\* was done to processes.
THEOREM GameModeTyped == Spec => []TypeOK
<1>1. Kept => TypeOK
      BY DEF Kept
<1> QED BY <1>1, AlwaysKept, PTL

\* As long as the lists have a place for every process, whatever is stopped or made
\* idle is in the lists a fatal signal undoes (gm_emergency_restore), but for the
\* process in the worker's hand.
THEOREM BooksTruthful == ASSUME Roomy PROVE Spec => []AllNoted
<1>1. Kept => AllNoted
      BY DEF Kept, AllNoted, Noted, Hand
<1> QED BY <1>1, AlwaysKept, PTL

\* Then a worker at rest with nothing applied has left no process stopped or idle and
\* no clock raised, whatever orders it has taken and missed (gm_bg_worker_func).
THEOREM RestClean == ASSUME Roomy PROVE Spec => []RestLeavesNothing
<1>1. Kept => RestLeavesNothing
      BY DEF Kept, Staged, RestLeavesNothing
<1> QED BY <1>1, AlwaysKept, PTL

\* Then quitting undoes all that, at whatever stage the worker was told to end
\* (gm_bg_cleanup).
THEOREM QuitClean == ASSUME Roomy PROVE Spec => []QuitLeavesNothing
<1>1. Kept => QuitLeavesNothing
      BY DEF Kept, QuitLeavesNothing
<1> QED BY <1>1, AlwaysKept, PTL

\* A resting worker with an empty mailbox has applied what was decided last: the
\* mailbox of one entry loses no decision (gm_bg_post).
THEOREM NoOrderLost == Spec => []OrdersCarriedOut
<1>1. Kept => OrdersCarriedOut
      BY DEF Kept, Ordered, OrdersCarriedOut
<1> QED BY <1>1, AlwaysKept, PTL

-----------------------------------------------------------------------------
(* The launch effect.                                                         *)

\* The fields of a launch that is not there.
Resting(f) ==
    /\ f.cover = "none" /\ ~ f.reveal /\ ~ f.content /\ f.reaper = NoReaper
    /\ f.orphan = "none" /\ f.window = "none" /\ f.mon = "none"

\* EndsClean, of the effect and the boost as the operators pass them on.
Pair == [fx : Effect, boost : BOOLEAN]
Clean(e) ==
    /\ e \in Pair
    /\ ~ e.fx.wild => (e.boost <=> e.fx.active \/ e.fx.leaked)
    /\ IF e.fx.active THEN ~ e.fx.leaked ELSE Resting(e.fx)

\* Rest, field by field.
LEMMA RestFields ==
    ASSUME NEW f \in Effect
    PROVE  ([f EXCEPT !.wild = FALSE, !.leaked = FALSE] = Rest) <=> ~ f.active /\ Resting(f)
<1> DEFINE g == [f EXCEPT !.wild = FALSE, !.leaked = FALSE]
<1>1. g \in Effect /\ ~ g.wild /\ ~ g.leaked
  BY DEF Effect, Ages
<1>2. /\ g.active = f.active /\ g.cover = f.cover /\ g.reveal = f.reveal
      /\ g.content = f.content /\ g.reaper = f.reaper /\ g.orphan = f.orphan
      /\ g.window = f.window /\ g.mon = f.mon
  BY DEF Effect, Ages
<1> HIDE DEF g
<1>3. g = Rest => ~ g.active /\ Resting(g)
  BY DEF Rest, Resting
<1>4. ~ g.active /\ Resting(g) => g = Rest
  BY <1>1 DEF Rest, Resting, Effect, Ages
<1>5. Resting(g) <=> Resting(f)
  BY <1>2 DEF Resting
<1> QED
  BY <1>2, <1>3, <1>4, <1>5 DEF g

\* The inductive invariant: a launch that is tracked has not left its boost behind.
LaunchInv == EndsClean /\ (fx.active => ~ fx.leaked)

\* It says that what the operators begin with is clean.
LEMMA CleanNow == LaunchInv <=> FxTypeOK /\ Clean(Now)
<1>1. SUFFICES ASSUME FxTypeOK PROVE LaunchInv <=> Clean(Now)
  BY DEF LaunchInv, EndsClean
<1>2. fx \in Effect /\ owner.boost \in BOOLEAN
  BY <1>1 DEF FxTypeOK
<1>3. Now \in Pair /\ Now.fx = fx /\ Now.boost = owner.boost
  BY <1>2 DEF Now, Pair
<1>4. ~ fx.active => (([fx EXCEPT !.wild = FALSE, !.leaked = FALSE] = Rest) <=> Resting(fx))
  BY <1>2, RestFields
<1> QED
  BY <1>1, <1>3, <1>4 DEF LaunchInv, EndsClean, Clean, Sane

\* A step that leaves a clean pair behind.
LEMMA CleanKeeps ==
    ASSUME NEW e, Clean(e), FxTypeOK', fx' = e.fx, owner'.boost = e.boost
    PROVE  LaunchInv'
<1>1. e.fx \in Effect /\ e.boost \in BOOLEAN
  BY DEF Clean, Pair
<1>2. FxTypeOK'
  OBVIOUS
<1>3. fx' = e.fx /\ owner'.boost = e.boost
  OBVIOUS
<1>4. ~ fx'.active => (([fx' EXCEPT !.wild = FALSE, !.leaked = FALSE] = Rest) <=> Resting(fx'))
  BY <1>1, <1>3, RestFields
<1> QED
  BY <1>2, <1>3, <1>4 DEF LaunchInv, EndsClean, Clean, Sane

\* The operators on the pair, one by one.
LEMMA TornClean ==
    ASSUME NEW f \in Effect
    PROVE  /\ Torn(f) \in Effect /\ ~ Torn(f).active /\ Resting(Torn(f))
           /\ Torn(f).leaked = f.leaked
           /\ Torn(f).wild <=> f.wild \/ f.mon = "gone"
<1> DEFINE w == f.wild \/ f.mon = "gone"
           l == f.leaked
           t == [Rest EXCEPT !.wild = w, !.leaked = l]
<1>1. w \in BOOLEAN /\ l \in BOOLEAN
  BY DEF Effect, Ages
<1>2. Rest \in Effect /\ ~ Rest.active /\ Resting(Rest)
  BY DEF Rest, Resting, Effect, Ages
<1>3. Torn(f) = t
  BY DEF Torn
<1> HIDE DEF w, l
<1>4. t \in Effect /\ t.wild = w /\ t.leaked = l
  BY <1>1, <1>2 DEF Effect, Ages
<1>5. ~ t.active /\ Resting(t)
  BY <1>2 DEF Effect, Ages, Resting
<1> HIDE DEF t
<1> QED
  BY <1>3, <1>4, <1>5 DEF w, l

\* Ending a launch leaves no trace of it (fx_finish).
LEMMA FinishedClean ==
    ASSUME NEW e, Clean(e)
    PROVE  Clean(Finished(e))
<1>1. e.fx \in Effect /\ e.boost \in BOOLEAN
  BY DEF Clean, Pair
<1> DEFINE t == Torn(e.fx)
           d == [fx |-> t, boost |-> FALSE]
<1>2. /\ t \in Effect /\ ~ t.active /\ Resting(t) /\ t.leaked = e.fx.leaked
  BY <1>1, TornClean
<1> HIDE DEF t
<1>3. ASSUME e.fx.active PROVE Clean(d)
  BY <1>2, <1>3 DEF Clean, Pair
<1> QED
  BY <1>3 DEF Finished, t

\* A launch that is tracked from now on has its boost and has left none behind.
LEMMA TrackedClean ==
    ASSUME NEW e \in Pair
    PROVE  /\ Clean(Tracked(e)) /\ Tracked(e).fx.active /\ Tracked(e).fx.wild = e.fx.wild
           /\ Tracked(e).fx.mon = e.fx.mon
BY DEF Clean, Pair, Tracked, Effect, Ages

\* Fields of a tracked launch that say how far it is.
LEMMA CourseClean ==
    ASSUME NEW e, Clean(e), e.fx.active, NEW f \in Effect, f.active,
           f.leaked = e.fx.leaked, f.wild = e.fx.wild
    PROVE  Clean([e EXCEPT !.fx = f])
BY DEF Clean, Pair

\* A cover that starts, or that there is no memory for, leaves the pair clean.
LEMMA CoverClean ==
    ASSUME NEW e, Clean(e), e.fx.active, ~ e.fx.wild, NEW x \in CoverStarts(e)
    PROVE  Clean(x)
<1> DEFINE placed == [e.fx EXCEPT !.mon = "there"]
           grows == [placed EXCEPT !.cover = "growing", !.window = "none"]
           leaves == [Torn(placed) EXCEPT !.leaked = TRUE]
<1>1. e.fx \in Effect /\ e \in Pair /\ e.boost
  BY DEF Clean, Pair
<1>2. /\ placed \in Effect /\ placed.active /\ placed.leaked = e.fx.leaked
      /\ placed.wild = e.fx.wild /\ placed.mon = "there"
  BY <1>1 DEF Effect, Ages
<1>3. x \in {[e EXCEPT !.fx = grows], [e EXCEPT !.fx = placed], [e EXCEPT !.fx = leaves]}
  BY DEF CoverStarts
<1> HIDE DEF placed
<1>4. /\ grows \in Effect /\ grows.active /\ grows.leaked = e.fx.leaked
      /\ grows.wild = e.fx.wild
  BY <1>1, <1>2 DEF Effect, Ages
<1>5. /\ Torn(placed) \in Effect /\ ~ Torn(placed).active /\ Resting(Torn(placed))
  BY <1>2, TornClean
<1>6. leaves \in Effect /\ ~ leaves.active /\ Resting(leaves) /\ leaves.leaked
  BY <1>5 DEF Effect, Ages, Resting
<1> HIDE DEF grows, leaves
<1>7. Clean([e EXCEPT !.fx = leaves])
  BY <1>1, <1>6 DEF Clean, Pair
<1> QED
  BY <1>2, <1>3, <1>4, <1>7, CourseClean

\* A game takes the screen (launchfx_fullscreen_starting).
LEMMA FullscreenClean ==
    ASSUME NEW e, Clean(e), ~ e.fx.wild, NEW c, NEW x \in FullscreenStarting(c, e)
    PROVE  Clean(x)
<1>1. e \in Pair /\ e.fx \in Effect
  BY DEF Clean, Pair
<1>2. CASE e.fx.cover # "none"
  <2> DEFINE f == [e.fx EXCEPT !.mon = "there"]
  <2>1. e.fx.active
    BY <1>2 DEF Clean, Resting
  <2>2. f \in Effect /\ f.active /\ f.leaked = e.fx.leaked /\ f.wild = e.fx.wild
    BY <1>1, <2>1 DEF Effect, Ages
  <2>3. x = [e EXCEPT !.fx = f]
    BY <1>2 DEF FullscreenStarting
  <2> HIDE DEF f
  <2> QED
    BY <2>1, <2>2, <2>3, CourseClean
<1>3. CASE e.fx.cover = "none" /\ game[c].covered
  BY <1>3 DEF FullscreenStarting
<1>4. CASE e.fx.cover = "none" /\ ~ game[c].covered
  <2>1. x \in CoverStarts(IF e.fx.active THEN e ELSE Tracked(e))
    BY <1>4 DEF FullscreenStarting
  <2>2. CASE e.fx.active
    BY <2>1, <2>2, CoverClean
  <2>3. CASE ~ e.fx.active
    <3>1. Clean(Tracked(e)) /\ Tracked(e).fx.active /\ ~ Tracked(e).fx.wild
      BY <1>1, TrackedClean
    <3> QED
      BY <2>1, <2>3, <3>1, CoverClean
  <2> QED
    BY <2>2, <2>3
<1> QED
  BY <1>2, <1>3, <1>4

\* The cover has grown over the screen (fx_grow_complete).
LEMMA GrownClean ==
    ASSUME NEW e, Clean(e), e.fx.active
    PROVE  Clean(Grown(e))
<1> DEFINE f == [e.fx EXCEPT !.cover = "black"]
           all == [e EXCEPT !.fx = f]
<1>1. f \in Effect /\ f.active /\ f.leaked = e.fx.leaked /\ f.wild = e.fx.wild
  BY DEF Clean, Pair, Effect, Ages
<1>2. Grown(e) \in {all, Finished(all)}
  BY DEF Grown
<1> HIDE DEF f
<1>3. Clean(all)
  BY <1>1, CourseClean
<1> HIDE DEF all
<1> QED
  BY <1>2, <1>3, FinishedClean

\* A window of the launch is noticed (launchfx_client_mapped).
LEMMA NoticedClean ==
    ASSUME NEW e, Clean(e)
    PROVE  Clean(Noticed(e))
<1> DEFINE f == [e.fx EXCEPT !.window = "young"]
<1>1. CASE e.fx.active /\ e.fx.window = "none"
  <2>1. f \in Effect /\ f.active /\ f.leaked = e.fx.leaked /\ f.wild = e.fx.wild
    BY <1>1 DEF Clean, Pair, Effect, Ages
  <2>2. Noticed(e) = [e EXCEPT !.fx = f]
    BY <1>1 DEF Noticed
  <2> HIDE DEF f
  <2> QED
    BY <1>1, <2>1, <2>2, CourseClean
<1> QED
  BY <1>1 DEF Noticed

\* The poll's first part: what it learns of the reaper it followed, and of windows.
LEMMA OrphanedClean ==
    ASSUME NEW e, Clean(e)
    PROVE  Clean(Orphaned(e)) /\ Orphaned(e).fx.active = e.fx.active
<1> DEFINE f == [e.fx EXCEPT !.reaper = NoReaper, !.orphan = "young"]
<1>1. CASE ChainBroken(e.fx)
  <2>1. e.fx.active
    BY <1>1 DEF ChainBroken, Clean, Resting
  <2>2. f \in Effect /\ f.active /\ f.leaked = e.fx.leaked /\ f.wild = e.fx.wild
    BY <2>1 DEF Clean, Pair, Effect, Ages
  <2>3. Orphaned(e) = [e EXCEPT !.fx = f] /\ Orphaned(e).fx = f
    BY <1>1 DEF Orphaned, Clean, Pair
  <2> HIDE DEF f
  <2> QED
    BY <2>1, <2>2, <2>3, CourseClean
<1> QED
  BY <1>1 DEF Orphaned

\* The three questions of the poll before its loop, one after the other.
LEMMA PolledClean ==
    ASSUME NEW e, Clean(e)
    PROVE  Clean(Launcher(ChainEnded(Orphaned(e))))
<1>1. Clean(Orphaned(e))
  BY OrphanedClean
<1>2. Clean(ChainEnded(Orphaned(e)))
  BY <1>1, FinishedClean DEF ChainEnded
<1> QED
  BY <1>2, FinishedClean DEF Launcher

\* A reaper that is met.
LEMMA MetClean ==
    ASSUME NEW e, Clean(e), NEW r \in Reaper, NEW free \in BOOLEAN
    PROVE  Clean(Met(e, r, free))
<1>1. e \in Pair /\ e.fx \in Effect
  BY DEF Clean, Pair
<1>2. CASE e.fx.active
  <2> DEFINE f == [e.fx EXCEPT !.reaper = r, !.orphan = "none"]
  <2>1. f \in Effect /\ f.active /\ f.leaked = e.fx.leaked /\ f.wild = e.fx.wild
    BY <1>1, <1>2 DEF Effect, Ages
  <2>2. Met(e, r, free) = [e EXCEPT !.fx = f]
    BY <1>2 DEF Met
  <2> HIDE DEF f
  <2> QED
    BY <1>2, <2>1, <2>2, CourseClean
<1>3. CASE ~ e.fx.active /\ free
  <2> DEFINE t == Tracked(e)
             f == [t.fx EXCEPT !.reaper = r]
  <2>1. Clean(t) /\ t.fx.active
    BY <1>1, TrackedClean
  <2>2. Met(e, r, free) = [t EXCEPT !.fx = f]
    BY <1>3 DEF Met
  <2> HIDE DEF t
  <2>3. f \in Effect /\ f.active /\ f.leaked = t.fx.leaked /\ f.wild = t.fx.wild
    BY <2>1 DEF Clean, Pair, Effect, Ages
  <2> HIDE DEF f
  <2> QED
    BY <2>1, <2>2, <2>3, CourseClean
<1>4. CASE ~ e.fx.active /\ ~ free
  BY <1>4 DEF Met
<1> QED
  BY <1>2, <1>3, <1>4

\* Every set of natural numbers that is not empty has a least element.
LEMMA LeastNatural ==
    ASSUME NEW T \in SUBSET Nat, T # {}
    PROVE  \E x \in T : \A y \in T : x <= y
<1> DEFINE R == OpToRel(<, Nat)
<1>1. IsWellFoundedOn(R, Nat)
  BY NatLessThanWellFounded
<1>2. \A x, y \in Nat : y < x => <<y, x>> \in R
  BY DEF OpToRel
<1> HIDE DEF R
<1>3. PICK x \in T : \A y \in T : ~ (<<y, x>> \in R)
  BY <1>1, WFMin
<1>4. ASSUME NEW y \in T PROVE x <= y
  <2>1. x \in Nat /\ y \in Nat /\ ~ (y < x)
    BY <1>2, <1>3
  <2> QED
    BY <2>1
<1> QED
  BY <1>4

\* The first n reapers of a sweep.
Steps(f, e, s, order, free, n) ==
    f = [i \in 0..n |-> IF i = 0 THEN [launch |-> e, seen |-> s]
                        ELSE [launch |-> Met(f[i - 1].launch, order[i], free),
                              seen |-> Remembered(order[i], f[i - 1].seen)]]

\* There are such lists for every n.
LEMMA StepsExist ==
    ASSUME NEW e, NEW s, NEW order, NEW free, NEW n \in Nat
    PROVE  \E f : Steps(f, e, s, order, free, n)
<1> DEFINE One(x, i) == [launch |-> Met(x.launch, order[i], free),
                         seen |-> Remembered(order[i], x.seen)]
           start == [launch |-> e, seen |-> s]
           Has(f, k) == f = [i \in 0..k |-> IF i = 0 THEN start ELSE One(f[i - 1], i)]
           T == {k \in Nat : ~ \E f : Has(f, k)}
<1>1. \A f, k : Steps(f, e, s, order, free, k) <=> Has(f, k)
  BY DEF Steps
<1> HIDE DEF One, start, Has
<1>2. SUFFICES ASSUME T # {} PROVE FALSE
  BY <1>1
<1>3. PICK k \in T : \A j \in T : k <= j
  <2>1. T \in SUBSET Nat
    OBVIOUS
  <2> HIDE DEF T
  <2> QED
    BY <1>2, <2>1, LeastNatural
<1>4. k \in Nat /\ ~ \E f : Has(f, k)
  BY <1>3
<1>5. k # 0
  <2> DEFINE f == [i \in 0..0 |-> start]
  <2>1. f = [i \in 0..0 |-> IF i = 0 THEN start ELSE One(f[i - 1], i)]
    OBVIOUS
  <2> QED
    BY <1>4, <2>1 DEF Has
<1>6. k - 1 \in Nat /\ ~ (k <= k - 1)
  BY <1>4, <1>5
<1>7. PICK f : Has(f, k - 1)
  BY <1>3, <1>6
<1> DEFINE g == [i \in 0..k |-> IF i = k THEN One(f[k - 1], k) ELSE f[i]]
<1>8. Has(g, k)
  <2>1. \A i \in 0..(k - 1) : f[i] = IF i = 0 THEN start ELSE One(f[i - 1], i)
    BY <1>7 DEF Has
  <2>2. \A i \in 0..(k - 1) : g[i] = f[i]
    BY <1>4
  <2>3. ASSUME NEW i \in 0..k
        PROVE  g[i] = IF i = 0 THEN start ELSE One(g[i - 1], i)
    <3>1. CASE i = k
      <4>1. g[k - 1] = f[k - 1] /\ g[i] = One(f[k - 1], k)
        BY <1>6, <2>2, <3>1
      <4> HIDE DEF g
      <4> QED
        BY <1>4, <1>5, <3>1, <4>1
    <3>2. CASE i # k
      <4>1. i \in 0..(k - 1) /\ (i # 0 => i - 1 \in 0..(k - 1))
        BY <1>4, <3>2
      <4> HIDE DEF g
      <4> QED
        BY <2>1, <2>2, <4>1
    <3> QED
      BY <3>1, <3>2
  <2>4. g = [i \in 0..k |-> g[i]]
    OBVIOUS
  <2> HIDE DEF g
  <2> QED
    BY <2>3, <2>4 DEF Has
<1> HIDE DEF g
<1> QED
  BY <1>4, <1>8

\* What seen_reapers may hold.
Remembers(t) == t \subseteq Reaper /\ Cardinality(t) <= MaxSeen

\* seen_reapers takes no more than it has room for.
LEMMA RememberedFits ==
    ASSUME NEW t, Remembers(t), NEW r \in Reaper
    PROVE  Remembers(Remembered(r, t))
<1>1. IsFiniteSet(t)
  BY FS_Subset, LaunchAssumption DEF Remembers
<1>2. Cardinality(t) \in Nat
  BY <1>1, FS_CardinalityType
<1>3. r \notin t => Cardinality(t \cup {r}) = Cardinality(t) + 1
  BY <1>1, FS_AddElement
<1>4. r \in t => t \cup {r} = t
  OBVIOUS
<1> QED
  BY <1>2, <1>3, <1>4, LaunchAssumption DEF Remembers, Remembered

\* With room for all of them a reaper is always remembered.
LEMMA RoomForAll ==
    ASSUME Cardinality(Reaper) <= MaxSeen, NEW s \in SUBSET Reaper, NEW r \in Reaper
    PROVE  Remembered(r, s) = s \cup {r}
<1>1. IsFiniteSet(Reaper) /\ IsFiniteSet(s)
  BY FS_Subset, LaunchAssumption
<1>2. Cardinality(Reaper) \in Nat /\ Cardinality(s) \in Nat
  BY <1>1, FS_CardinalityType
<1>3. CASE r \in s
  BY <1>3 DEF Remembered
<1>4. CASE r \notin s
  <2>1. Cardinality(s) + 1 = Cardinality(s \cup {r})
    BY <1>1, <1>4, FS_AddElement
  <2>2. Cardinality(s \cup {r}) <= Cardinality(Reaper)
    BY <1>1, FS_Subset
  <2>3. Cardinality(s) < MaxSeen
    BY <1>2, <2>1, <2>2, LaunchAssumption
  <2> QED
    BY <2>3 DEF Remembered
<1> QED
  BY <1>3, <1>4

\* Whom a launch follows that met a reaper.
LEMMA MetFollows ==
    ASSUME NEW e \in Pair, NEW r \in Reaper, NEW free
    PROVE  Met(e, r, free) \in Pair /\ Met(e, r, free).fx.reaper \in {e.fx.reaper, r}
<1>1. e.fx \in Effect
  BY DEF Pair
<1>2. Tracked(e) \in Pair
  BY DEF Tracked, Pair, Effect, Ages
<1>3. ASSUME NEW d \in Pair
      PROVE  /\ [d EXCEPT !.fx = [@ EXCEPT !.reaper = r]] \in Pair
             /\ [d EXCEPT !.fx = [@ EXCEPT !.reaper = r]].fx.reaper = r
             /\ [d EXCEPT !.fx = [@ EXCEPT !.reaper = r, !.orphan = "none"]] \in Pair
             /\ [d EXCEPT !.fx = [@ EXCEPT !.reaper = r, !.orphan = "none"]].fx.reaper = r
  BY DEF Pair, Effect, Ages
<1> QED
  BY <1>2, <1>3 DEF Met

\* What Steps says, place by place.
LEMMA StepsMean ==
    ASSUME NEW f, NEW e, NEW s, NEW order, NEW free, NEW n \in Nat,
           Steps(f, e, s, order, free, n)
    PROVE  /\ f[0].launch = e /\ f[0].seen = s
           /\ \A i \in 1..n : /\ f[i].launch = Met(f[i - 1].launch, order[i], free)
                              /\ f[i].seen = Remembered(order[i], f[i - 1].seen)
<1>1. \A i \in 0..n : f[i] = IF i = 0 THEN [launch |-> e, seen |-> s]
                             ELSE [launch |-> Met(f[i - 1].launch, order[i], free),
                                   seen |-> Remembered(order[i], f[i - 1].seen)]
  BY DEF Steps
<1>2. 0 \in 0..n /\ \A i \in 1..n : i \in 0..n /\ i # 0
  OBVIOUS
<1>3. f[0].launch = e /\ f[0].seen = s
  <2>1. f[0] = [launch |-> e, seen |-> s]
    BY <1>1, <1>2
  <2> QED
    BY <2>1
<1>4. ASSUME NEW i \in 1..n
      PROVE  /\ f[i].launch = Met(f[i - 1].launch, order[i], free)
             /\ f[i].seen = Remembered(order[i], f[i - 1].seen)
  <2>1. f[i] = [launch |-> Met(f[i - 1].launch, order[i], free),
                seen |-> Remembered(order[i], f[i - 1].seen)]
    BY <1>1, <1>2
  <2> QED
    BY <2>1
<1> QED
  BY <1>3, <1>4

\* A sweep leaves a clean launch, and no more reapers than there is room for.
LEMMA SweptClean ==
    ASSUME NEW e, Clean(e), NEW t, Remembers(t), NEW order \in Seq(Reaper), NEW free \in BOOLEAN
    PROVE  /\ Clean(Swept(e, t, order, free).launch)
           /\ Remembers(Swept(e, t, order, free).seen)
<1> DEFINE n == Len(order)
           f == Sweep(e, t, order, free)
           T == {i \in 0..n : ~ (Clean(f[i].launch) /\ Remembers(f[i].seen))}
<1>1. n \in Nat /\ \A i \in 1..n : order[i] \in Reaper
  BY LenProperties, ElementOfSeq
<1>2. f = CHOOSE g : Steps(g, e, t, order, free, n)
  BY DEF Sweep, Steps
<1>3. Steps(f, e, t, order, free, n)
  <2> HIDE DEF f, n
  <2> QED
    BY <1>1, <1>2, StepsExist
<1> HIDE DEF f
<1>4. /\ f[0].launch = e /\ f[0].seen = t
      /\ \A i \in 1..n : /\ f[i].launch = Met(f[i - 1].launch, order[i], free)
                         /\ f[i].seen = Remembered(order[i], f[i - 1].seen)
  BY <1>1, <1>3, StepsMean
<1> HIDE DEF n
<1>5. T = {}
  <2>1. SUFFICES ASSUME T # {} PROVE FALSE
    OBVIOUS
  <2>2. PICK k \in T : \A j \in T : k <= j
    <3>1. T \in SUBSET Nat
      BY <1>1
    <3> HIDE DEF T
    <3> QED
      BY <2>1, <3>1, LeastNatural
  <2>3. k \in 0..n /\ ~ (Clean(f[k].launch) /\ Remembers(f[k].seen))
    BY <2>2
  <2>4. k # 0
    BY <1>4, <2>3
  <2>5. k - 1 \in 0..n /\ k \in 1..n /\ ~ (k <= k - 1)
    BY <1>1, <2>3, <2>4
  <2>6. Clean(f[k - 1].launch) /\ Remembers(f[k - 1].seen)
    BY <2>2, <2>5
  <2>7. /\ Clean(Met(f[k - 1].launch, order[k], free))
        /\ Remembers(Remembered(order[k], f[k - 1].seen))
    BY <1>1, <2>5, <2>6, MetClean, RememberedFits
  <2>8. /\ f[k].launch = Met(f[k - 1].launch, order[k], free)
        /\ f[k].seen = Remembered(order[k], f[k - 1].seen)
    BY <1>4, <2>5
  <2> QED
    BY <2>3, <2>7, <2>8
<1>6. n \in 0..n
  BY <1>1
<1> QED
  BY <1>5, <1>6 DEF Swept, f, n

-----------------------------------------------------------------------------
\* The steps of the launch effect, one by one.
Games == [Launched -> [window : {"none", "windowed", "full"}, covered : BOOLEAN]]

\* A window that changes is a window still.
LEMMA GameChanges ==
    ASSUME game \in Games, NEW c \in Launched, NEW w \in {"none", "windowed", "full"},
           NEW old \in BOOLEAN
    PROVE  /\ [game EXCEPT ![c].window = w] \in Games
           /\ [game EXCEPT ![c].covered = old] \in Games
           /\ [game EXCEPT ![c] = [window |-> w, covered |-> old]] \in Games
<1>1. game[c].covered \in BOOLEAN /\ game[c].window \in {"none", "windowed", "full"}
  BY DEF Games
<1>2. [game[c] EXCEPT !.window = w] = [window |-> w, covered |-> game[c].covered]
  BY DEF Games
<1>3. [game[c] EXCEPT !.covered = old] = [window |-> game[c].window, covered |-> old]
  BY DEF Games
<1>4. ASSUME NEW x \in {"none", "windowed", "full"}, NEW y \in BOOLEAN
      PROVE  [game EXCEPT ![c] = [window |-> x, covered |-> y]] \in Games
  BY DEF Games
<1> QED
  BY <1>1, <1>2, <1>3, <1>4

\* A step that sets the effect and the boost to what is clean.
LEMMA SetsKeeps ==
    ASSUME LaunchInv, NEW e, Clean(e), Sets(e), seen' = seen, used' = used, live' = live,
           game' \in Games
    PROVE  LaunchInv'
<1>1. /\ seen \subseteq Reaper /\ Cardinality(seen) <= MaxSeen
      /\ used \subseteq Reaper /\ live \subseteq Reaper
      /\ owner \in [boost : BOOLEAN, mode : BOOLEAN]
  BY DEF LaunchInv, EndsClean, FxTypeOK
<1>2. e.fx \in Effect /\ e.boost \in BOOLEAN
  BY DEF Clean, Pair
<1>3. /\ fx' = e.fx /\ owner'.boost = e.boost
      /\ owner' \in [boost : BOOLEAN, mode : BOOLEAN]
  BY <1>1, <1>2 DEF Sets
<1>4. FxTypeOK'
  BY <1>1, <1>2, <1>3 DEF FxTypeOK, Games
<1> QED
  BY <1>3, <1>4, CleanKeeps

\* A step that leaves them alone.
LEMMA OthersKeep ==
    ASSUME LaunchInv, FxTypeOK', fx' = fx, owner'.boost = owner.boost
    PROVE  LaunchInv'
BY DEF LaunchInv, EndsClean, Sane

\* A window of a game is mapped.
LEMMA MapKeeps == ASSUME LaunchInv, NEW c \in Launched, Map(c) PROVE LaunchInv'
<1>1. FxTypeOK /\ Clean(Now) /\ ~ Now.fx.wild
  BY CleanNow DEF Map, Sane, Now
<1>2. game' \in Games
  <2>1. game \in Games
    BY <1>1 DEF FxTypeOK, Games
  <2> QED
    BY <2>1, GameChanges DEF Map
<1>3. /\ seen' = seen /\ used' = used /\ live' = live
      /\ \/ Sets(Noticed(Now))
         \/ \E e \in FullscreenStarting(c, Now) : Sets(Noticed(e))
         \/ fx' = fx /\ owner' = owner
  BY DEF Map
<1>4. CASE Sets(Noticed(Now))
  BY <1>1, <1>2, <1>3, <1>4, NoticedClean, SetsKeeps
<1>5. ASSUME NEW e \in FullscreenStarting(c, Now), Sets(Noticed(e)) PROVE LaunchInv'
  <2>1. Clean(Noticed(e))
    BY <1>1, FullscreenClean, NoticedClean
  <2> QED
    BY <1>2, <1>3, <1>5, <2>1, SetsKeeps
<1>6. CASE fx' = fx /\ owner' = owner
  <2>1. FxTypeOK'
    BY <1>1, <1>2, <1>3, <1>6 DEF FxTypeOK, Games
  <2> QED
    BY <1>6, <2>1, OthersKeep
<1> QED
  BY <1>3, <1>4, <1>5, <1>6

\* A window of a game goes fullscreen.
LEMMA GoFullKeeps == ASSUME LaunchInv, NEW c \in Launched, GoFull(c) PROVE LaunchInv'
<1>1. FxTypeOK /\ Clean(Now) /\ ~ Now.fx.wild
  BY CleanNow DEF GoFull, Sane, Now
<1>2. game' \in Games
  <2>1. game \in Games
    BY <1>1 DEF FxTypeOK, Games
  <2> QED
    BY <2>1, GameChanges DEF GoFull
<1>3. PICK e \in FullscreenStarting(c, Now) : Sets(e)
  BY DEF GoFull
<1>4. Clean(e)
  BY <1>1, FullscreenClean
<1> QED
  BY <1>2, <1>3, <1>4, SetsKeeps DEF GoFull

\* Steps of the game, of Steam or of game mode that the effect takes no notice of.
LEMMA QuietKeeps ==
    ASSUME LaunchInv,
           \/ \E c \in Launched : GoWindowed(c) \/ Unmap(c)
           \/ \E r \in Reaper : Spawn(r) \/ Exit(r)
           \/ LeaveGameMode
    PROVE  LaunchInv'
<1>1. FxTypeOK
  BY DEF LaunchInv, EndsClean
<1>2. ASSUME NEW c \in Launched, GoWindowed(c) \/ Unmap(c)
      PROVE  FxTypeOK' /\ fx' = fx /\ owner'.boost = owner.boost
  <2>1. game \in Games /\ game[c].covered \in BOOLEAN
    BY <1>1 DEF FxTypeOK, Games
  <2>2. GoWindowed(c) => game' \in Games
    BY <2>1, GameChanges DEF GoWindowed
  <2>3. ASSUME Unmap(c) PROVE game' \in Games
    <3>1. PICK old \in {FALSE, game[c].covered} :
            game' = [game EXCEPT ![c] = [window |-> "none", covered |-> old]]
      BY <2>3 DEF Unmap
    <3>2. old \in BOOLEAN
      BY <2>1
    <3> QED
      BY <2>1, <3>1, <3>2, GameChanges
  <2> QED
    BY <1>1, <1>2, <2>2, <2>3 DEF GoWindowed, Unmap, FxTypeOK, Games
<1>3. ASSUME NEW r \in Reaper, Spawn(r) \/ Exit(r)
      PROVE  FxTypeOK' /\ fx' = fx /\ owner'.boost = owner.boost
  BY <1>1, <1>3 DEF Spawn, Exit, FxTypeOK
<1>4. ASSUME LeaveGameMode
      PROVE  FxTypeOK' /\ fx' = fx /\ owner'.boost = owner.boost
  BY <1>1, <1>4 DEF LeaveGameMode, FxTypeOK
<1> QED
  BY <1>2, <1>3, <1>4, OthersKeep

\* Steps that change the course of a tracked launch and nothing else.
LEMMA CourseKeeps ==
    ASSUME LaunchInv,
           \/ \E c \in Launched : Commit(c)
           \/ Age \/ Unplug
    PROVE  LaunchInv'
<1>1. FxTypeOK /\ Clean(Now) /\ Now.fx = fx
  BY CleanNow DEF Now
<1>2. fx \in Effect /\ fx.active
  <2>1. fx \in Effect /\ (~ fx.active => Resting(fx))
    BY <1>1 DEF Clean, FxTypeOK
  <2>2. CASE Resting(fx)
    BY <2>1, <2>2 DEF Resting, Commit, Age, Unplug, Late, Effect, Ages
  <2> QED
    BY <2>1, <2>2
<1>3. fx' \in Effect /\ fx'.active /\ fx'.leaked = fx.leaked /\ fx'.wild = fx.wild
  BY <1>2 DEF Commit, Age, Unplug, Late, Effect, Ages
<1>4. seen' = seen /\ used' = used /\ live' = live /\ game' = game /\ owner' = owner
  BY DEF Commit, Age, Unplug
<1>5. Clean([Now EXCEPT !.fx = fx'])
  BY <1>1, <1>2, <1>3, CourseClean
<1>6. FxTypeOK'
  BY <1>1, <1>3, <1>4 DEF FxTypeOK
<1> QED
  BY <1>4, <1>5, <1>6, CleanKeeps DEF Now

\* Steps that may end it.
LEMMA EndingKeeps ==
    ASSUME LaunchInv, Frame \/ Tick \/ Watchdog
    PROVE  LaunchInv'
<1>1. FxTypeOK /\ Clean(Now) /\ Now.fx = fx /\ fx \in Effect /\ game \in Games
  BY CleanNow DEF Now, FxTypeOK, Games
<1>2. fx.active
  BY <1>1 DEF Frame, Tick, Watchdog, Clean, Resting
<1>3. seen' = seen /\ used' = used /\ live' = live /\ game' = game
  BY DEF Frame, Tick, Watchdog
<1>4. Clean(Finished(Now)) /\ Clean(Grown(Now))
  BY <1>1, <1>2, FinishedClean, GrownClean
<1>5. CASE Sets(Finished(Now)) \/ Sets(Grown(Now))
  BY <1>1, <1>3, <1>4, <1>5, SetsKeeps
<1> DEFINE f == [fx EXCEPT !.reveal = TRUE]
<1>6. CASE Sets([Now EXCEPT !.fx = f])
  <2>1. f \in Effect /\ f.active /\ f.leaked = fx.leaked /\ f.wild = fx.wild
    BY <1>1, <1>2 DEF Effect, Ages
  <2> HIDE DEF f
  <2>2. Clean([Now EXCEPT !.fx = f])
    BY <1>1, <1>2, <2>1, CourseClean
  <2> QED
    BY <1>1, <1>3, <1>6, <2>2, SetsKeeps
<1>7. CASE fx' = [fx EXCEPT !.wild = TRUE] /\ owner' = owner
  <2>1. /\ fx' \in Effect /\ fx'.active /\ fx'.leaked = fx.leaked /\ fx'.wild
    BY <1>1, <1>2, <1>7 DEF Effect, Ages
  <2>2. FxTypeOK'
    BY <1>1, <1>3, <1>7, <2>1 DEF FxTypeOK
  <2>3. ~ fx.leaked
    BY <1>2 DEF LaunchInv
  <2> QED
    BY <2>1, <2>2, <2>3 DEF LaunchInv, EndsClean, Sane
<1>8. \/ Sets(Finished(Now)) \/ Sets(Grown(Now)) \/ Sets([Now EXCEPT !.fx = f])
      \/ fx' = [fx EXCEPT !.wild = TRUE] /\ owner' = owner
  BY <1>1 DEF Frame, Tick, Watchdog
<1> QED
  BY <1>5, <1>6, <1>7, <1>8

\* Game mode is entered, or held back by the cover.
LEMMA EnterGameModeKeeps ==
    ASSUME LaunchInv, NEW c \in Launched, EnterGameMode(c)
    PROVE  LaunchInv'
<1>1. FxTypeOK /\ Clean(Now) /\ ~ Now.fx.wild /\ game \in Games
  BY CleanNow DEF EnterGameMode, Sane, Now, FxTypeOK, Games
<1>2. game' \in Games
  BY <1>1, GameChanges DEF EnterGameMode
<1>3. PICK e \in FullscreenStarting(c, Now), held \in BOOLEAN :
        fx' = e.fx /\ owner' = [boost |-> e.boost, mode |-> ~ held]
  BY DEF EnterGameMode
<1>4. Clean(e)
  BY <1>1, FullscreenClean
<1>5. e.fx \in Effect /\ e.boost \in BOOLEAN
  BY <1>4 DEF Clean, Pair
<1>6. FxTypeOK'
  BY <1>1, <1>2, <1>3, <1>5 DEF FxTypeOK, Games, EnterGameMode
<1> QED
  BY <1>3, <1>4, <1>6, CleanKeeps

\* The poll, with or without a sweep.
LEMMA PollKeeps == ASSUME LaunchInv, Poll PROVE LaunchInv'
<1> DEFINE e == Launcher(ChainEnded(Orphaned(Now)))
           kept == seen \cap live
<1>1. FxTypeOK /\ Clean(Now)
  BY CleanNow
<1>2. Clean(e)
  BY <1>1, PolledClean
<1>3. Remembers(kept) /\ IsFiniteSet(live \ kept)
  <2>1. IsFiniteSet(seen) /\ IsFiniteSet(live)
    BY <1>1, FS_Subset, LaunchAssumption DEF FxTypeOK
  <2>2. IsFiniteSet(kept) /\ Cardinality(kept) <= Cardinality(seen)
    BY <2>1, FS_Subset
  <2>3. Cardinality(kept) \in Nat /\ Cardinality(seen) \in Nat /\ Cardinality(seen) <= MaxSeen
    BY <1>1, <2>1, <2>2, FS_CardinalityType DEF FxTypeOK
  <2>4. IsFiniteSet(live \ kept)
    BY <2>1, FS_Subset
  <2> QED
    BY <1>1, <2>2, <2>3, <2>4, LaunchAssumption DEF Remembers, FxTypeOK
<1>4. live' = live /\ game' = game
  BY DEF Poll
<1>5. ASSUME NEW x, Clean(x), Sets(x), Remembers(seen'), used' \subseteq Reaper
      PROVE  LaunchInv'
  <2>1. x.fx \in Effect /\ x.boost \in BOOLEAN
    BY <1>5 DEF Clean, Pair
  <2>2. /\ fx' = x.fx /\ owner'.boost = x.boost
        /\ owner' \in [boost : BOOLEAN, mode : BOOLEAN]
    BY <1>1, <1>5, <2>1 DEF Sets, FxTypeOK
  <2>3. FxTypeOK'
    BY <1>1, <1>4, <1>5, <2>1, <2>2 DEF FxTypeOK, Remembers
  <2> QED
    BY <1>5, <2>2, <2>3, CleanKeeps
<1> HIDE DEF e
<1>6. CASE Sets(e) /\ seen' = kept /\ used' = used
  BY <1>1, <1>2, <1>3, <1>5, <1>6 DEF FxTypeOK
<1>7. ASSUME NEW order \in SetToSeqs(live \ kept), NEW free \in BOOLEAN,
             Sets(Swept(e, kept, order, free).launch),
             seen' = Swept(e, kept, order, free).seen, used' \subseteq Reaper
      PROVE  LaunchInv'
  <2>1. order \in Seq(Reaper)
    <3>1. order \in [1..Cardinality(live \ kept) -> live \ kept]
      BY <1>7 DEF SetToSeqs
    <3>2. Cardinality(live \ kept) \in Nat /\ live \ kept \subseteq Reaper
      BY <1>1, <1>3, FS_CardinalityType DEF FxTypeOK
    <3> HIDE DEF kept
    <3>3. PICK n \in Nat : order \in [1..n -> Reaper]
      BY <3>1, <3>2
    <3>4. order \in Seq(Reaper)
      BY <3>3
    <3> QED
      BY <3>4
  <2>2. Clean(Swept(e, kept, order, free).launch) /\ Remembers(Swept(e, kept, order, free).seen)
    BY <1>2, <1>3, <2>1, SweptClean
  <2> QED
    BY <1>5, <1>7, <2>2
<1>8. \/ Sets(e) /\ seen' = kept /\ used' = used
      \/ \E order \in SetToSeqs(live \ kept), free \in BOOLEAN :
            /\ Sets(Swept(e, kept, order, free).launch)
            /\ seen' = Swept(e, kept, order, free).seen
            /\ used' \subseteq Reaper
  BY <1>1 DEF Poll, e, FxTypeOK
<1> QED
  BY <1>6, <1>7, <1>8

\* The invariant holds in every reachable state.
LEMMA LaunchAlways == FxSpec => []LaunchInv
<1>1. ASSUME FxInit PROVE LaunchInv
  <2>1. Rest \in Effect /\ Resting(Rest) /\ ~ Rest.active /\ ~ Rest.leaked /\ ~ Rest.wild
    BY DEF Rest, Resting, Effect, Ages
  <2>2. Cardinality({}) <= MaxSeen
    BY FS_EmptySet, LaunchAssumption
  <2>3. FxTypeOK
    BY <1>1, <2>1, <2>2 DEF FxInit, FxTypeOK
  <2>4. Clean(Now)
    BY <1>1, <2>1 DEF FxInit, Clean, Now, Pair
  <2> QED
    BY <2>3, <2>4, CleanNow
<1>2. ASSUME LaunchInv, [FxNext]_fxvars PROVE LaunchInv'
  <2>1. CASE FxNext
    BY <1>2, <2>1, MapKeeps, GoFullKeeps, QuietKeeps, CourseKeeps, EnterGameModeKeeps,
       EndingKeeps, PollKeeps DEF FxNext
  <2>2. CASE UNCHANGED fxvars
    BY <1>2, <2>2 DEF LaunchInv, EndsClean, FxTypeOK, Sane, fxvars
  <2> QED
    BY <1>2, <2>1, <2>2
<1> QED
  BY <1>1, <1>2, PTL DEF FxSpec

\* Whatever ends a launch ends all of it, for any number of games and reapers and any
\* room in the table.
THEOREM LaunchEndsClean == FxSpec => []EndsClean
<1>1. LaunchInv => EndsClean
  BY DEF LaunchInv
<1> QED
  BY <1>1, LaunchAlways, PTL

-----------------------------------------------------------------------------
\* e follows no reaper that d did not follow.
SameChain(d, e) == e.fx.reaper \in {d.fx.reaper, NoReaper}

\* A launch that ends follows no reaper.
LEMMA FinishedChain ==
    ASSUME NEW e \in Pair
    PROVE  Finished(e) \in Pair /\ SameChain(e, Finished(e))
<1>1. e.fx \in Effect /\ e.boost \in BOOLEAN
  BY DEF Pair
<1>2. Torn(e.fx) \in Effect /\ Torn(e.fx).reaper = NoReaper
  BY <1>1, TornClean DEF Resting
<1> QED
  BY <1>1, <1>2 DEF Finished, SameChain, Pair

\* The questions of the poll make it follow none that it did not follow.
LEMMA PolledChain ==
    ASSUME NEW e \in Pair
    PROVE  LET x == Launcher(ChainEnded(Orphaned(e))) IN x \in Pair /\ SameChain(e, x)
<1> DEFINE o == Orphaned(e)
           h == ChainEnded(o)
           x == Launcher(h)
<1>1. o \in Pair /\ SameChain(e, o)
  <2> DEFINE f == [e.fx EXCEPT !.reaper = NoReaper, !.orphan = "young"]
  <2>1. f \in Effect /\ f.reaper = NoReaper
    BY DEF Pair, Effect, Ages
  <2>2. o = [e EXCEPT !.fx = f] \/ o = e
    BY DEF Orphaned
  <2> HIDE DEF f, o
  <2> QED
    BY <2>1, <2>2 DEF SameChain, Pair
<1> HIDE DEF o
<1>2. h \in Pair /\ SameChain(o, h)
  BY <1>1, FinishedChain DEF ChainEnded, SameChain
<1> HIDE DEF h
<1>3. x \in Pair /\ SameChain(h, x)
  BY <1>2, FinishedChain DEF Launcher, SameChain
<1> QED
  BY <1>1, <1>2, <1>3 DEF SameChain, o, h

\* Nor does a game that takes the screen.
LEMMA FullscreenChain ==
    ASSUME NEW e \in Pair, NEW c, NEW x \in FullscreenStarting(c, e)
    PROVE  x \in Pair /\ SameChain(e, x)
<1>1. ASSUME NEW d \in Pair, NEW y \in CoverStarts(d) PROVE y \in Pair /\ SameChain(d, y)
  <2> DEFINE placed == [d.fx EXCEPT !.mon = "there"]
             grows == [placed EXCEPT !.cover = "growing", !.window = "none"]
             leaves == [Torn(placed) EXCEPT !.leaked = TRUE]
  <2>1. placed \in Effect /\ placed.reaper = d.fx.reaper
    BY DEF Pair, Effect, Ages
  <2>2. grows \in Effect /\ grows.reaper = d.fx.reaper
    BY DEF Pair, Effect, Ages
  <2>3. y \in {[d EXCEPT !.fx = grows], [d EXCEPT !.fx = placed], [d EXCEPT !.fx = leaves]}
    BY DEF CoverStarts
  <2> HIDE DEF placed
  <2>4. Torn(placed) \in Effect /\ Torn(placed).reaper = NoReaper
    BY <2>1, TornClean DEF Resting
  <2>5. leaves \in Effect /\ leaves.reaper = NoReaper
    BY <2>4 DEF Effect
  <2> HIDE DEF grows, leaves
  <2> QED
    BY <2>1, <2>2, <2>3, <2>5 DEF SameChain, Pair
<1>2. Tracked(e) \in Pair /\ Tracked(e).fx.reaper = NoReaper
  BY DEF Tracked, Pair, Effect, Ages
<1> DEFINE f == [e.fx EXCEPT !.mon = "there"]
<1>3. f \in Effect /\ f.reaper = e.fx.reaper
  BY DEF Pair, Effect, Ages
<1> DEFINE d == IF e.fx.active THEN e ELSE Tracked(e)
<1>4. \/ x = [e EXCEPT !.fx = f] \/ x = e \/ x \in CoverStarts(d)
  BY DEF FullscreenStarting
<1> HIDE DEF f
<1>5. d \in Pair /\ SameChain(e, d)
  BY <1>2 DEF SameChain
<1> HIDE DEF d
<1>6. CASE x \in CoverStarts(d)
  BY <1>1, <1>5, <1>6 DEF SameChain
<1>7. CASE x = [e EXCEPT !.fx = f] \/ x = e
  BY <1>3, <1>7 DEF SameChain, Pair
<1> QED
  BY <1>4, <1>6, <1>7

\* Only the poll follows another reaper.
LEMMA ChainKept ==
    ASSUME FxTypeOK, [FxNext]_fxvars, ~ Poll
    PROVE  fx'.reaper \in {fx.reaper, NoReaper}
<1>1. Now \in Pair /\ Now.fx = fx /\ fx \in Effect
  BY DEF FxTypeOK, Now, Pair
<1>2. ASSUME NEW c \in Launched, Map(c) PROVE fx'.reaper \in {fx.reaper, NoReaper}
  <2>1. ASSUME NEW e \in Pair PROVE Noticed(e) \in Pair /\ SameChain(e, Noticed(e))
    BY DEF Noticed, Pair, Effect, Ages, SameChain
  <2>2. \/ fx' = Noticed(Now).fx
        \/ \E e \in FullscreenStarting(c, Now) : fx' = Noticed(e).fx
        \/ fx' = fx
    BY <1>2 DEF Map, Sets
  <2> QED
    BY <1>1, <2>1, <2>2, FullscreenChain DEF SameChain
<1>3. ASSUME NEW c \in Launched, GoFull(c) \/ EnterGameMode(c)
      PROVE  fx'.reaper \in {fx.reaper, NoReaper}
  <2>1. \E e \in FullscreenStarting(c, Now) : fx' = e.fx
    BY <1>3 DEF GoFull, EnterGameMode, Sets
  <2> QED
    BY <1>1, <2>1, FullscreenChain DEF SameChain
<1>4. CASE \/ \E c \in Launched : GoWindowed(c) \/ Unmap(c) \/ Commit(c)
           \/ \E r \in Reaper : Spawn(r) \/ Exit(r)
           \/ LeaveGameMode \/ Age \/ Unplug \/ UNCHANGED fxvars
  BY <1>1, <1>4 DEF GoWindowed, Unmap, Commit, Spawn, Exit, LeaveGameMode, Age, Unplug, fxvars,
     Effect
<1>5. CASE Frame \/ Tick \/ Watchdog
  <2>1. Finished(Now) \in Pair /\ SameChain(Now, Finished(Now))
    BY <1>1, FinishedChain
  <2> DEFINE all == [Now EXCEPT !.fx = [@ EXCEPT !.cover = "black"]]
  <2>2. all \in Pair /\ all.fx.reaper = fx.reaper
    BY <1>1 DEF Pair, Effect, Ages
  <2>3. Grown(Now) \in {all, Finished(all)}
    BY DEF Grown
  <2> HIDE DEF all
  <2>4. Finished(all).fx.reaper \in {fx.reaper, NoReaper}
    BY <2>2, FinishedChain DEF SameChain
  <2>5. \/ fx' = Finished(Now).fx \/ fx' = Grown(Now).fx
        \/ fx' = [Now EXCEPT !.fx = [fx EXCEPT !.reveal = TRUE]].fx
        \/ fx' = [fx EXCEPT !.wild = TRUE]
    BY <1>1, <1>5 DEF Frame, Tick, Watchdog, Sets
  <2> QED
    BY <1>1, <2>1, <2>2, <2>3, <2>4, <2>5 DEF SameChain, Pair, Effect
<1> QED
  BY <1>2, <1>3, <1>4, <1>5 DEF FxNext

\* What a sweep of reapers with room for all of them leaves behind: it follows one of
\* them, or what was followed before, and remembers each.
LEMMA SweptChain ==
    ASSUME NEW e \in Pair, NEW t \in SUBSET Reaper, NEW order \in Seq(Reaper),
           NEW free \in BOOLEAN, Cardinality(Reaper) <= MaxSeen
    PROVE  LET x == Swept(e, t, order, free) IN
           /\ x.launch.fx.reaper \in {order[i] : i \in 1..Len(order)} \cup {e.fx.reaper}
           /\ t \cup {order[i] : i \in 1..Len(order)} \subseteq x.seen
           /\ free \/ e.fx.active \/ x.launch = e
<1> DEFINE n == Len(order)
           f == Sweep(e, t, order, free)
           met == {order[i] : i \in 1..n}
           Good(i) == /\ f[i].launch \in Pair
                      /\ f[i].launch.fx.reaper \in met \cup {e.fx.reaper}
                      /\ f[i].seen \in SUBSET Reaper
                      /\ t \cup {order[j] : j \in 1..i} \subseteq f[i].seen
                      /\ free \/ e.fx.active \/ f[i].launch = e
           T == {i \in 0..n : ~ Good(i)}
<1>1. n \in Nat /\ \A i \in 1..n : order[i] \in Reaper
  BY LenProperties, ElementOfSeq
<1>2. f = CHOOSE g : Steps(g, e, t, order, free, n)
  BY DEF Sweep, Steps
<1>3. Steps(f, e, t, order, free, n)
  <2> HIDE DEF f, n
  <2> QED
    BY <1>1, <1>2, StepsExist
<1> HIDE DEF f
<1>4. /\ f[0].launch = e /\ f[0].seen = t
      /\ \A i \in 1..n : /\ f[i].launch = Met(f[i - 1].launch, order[i], free)
                         /\ f[i].seen = Remembered(order[i], f[i - 1].seen)
  BY <1>1, <1>3, StepsMean
<1> HIDE DEF n
<1>5. T = {}
  <2>1. SUFFICES ASSUME T # {} PROVE FALSE
    OBVIOUS
  <2>2. PICK k \in T : \A j \in T : k <= j
    <3>1. T \in SUBSET Nat
      BY <1>1
    <3> HIDE DEF T
    <3> QED
      BY <2>1, <3>1, LeastNatural
  <2>3. k \in 0..n /\ ~ Good(k)
    BY <2>2
  <2>4. Good(0)
    BY <1>1, <1>4
  <2>5. k - 1 \in 0..n /\ k \in 1..n /\ ~ (k <= k - 1)
    BY <1>1, <2>3, <2>4
  <2>6. Good(k - 1)
    BY <2>2, <2>5
  <2> DEFINE a == f[k - 1].launch
             s == f[k - 1].seen
             r == order[k]
  <2>7. r \in Reaper /\ r \in met
    BY <1>1, <2>5
  <2>8. Met(a, r, free) \in Pair /\ Met(a, r, free).fx.reaper \in {a.fx.reaper, r}
    BY <2>6, <2>7, MetFollows
  <2>9. Remembered(r, s) = s \cup {r}
    BY <2>6, <2>7, RoomForAll
  <2>10. {order[j] : j \in 1..k} = {order[j] : j \in 1..(k - 1)} \cup {r}
    <3>1. 1..k = 1..(k - 1) \cup {k}
      BY <2>5, <1>1
    <3> QED
      BY <3>1
  <2>11. free \/ e.fx.active \/ Met(a, r, free) = e
    BY <2>6 DEF Met
  <2>12. f[k].launch = Met(a, r, free) /\ f[k].seen = s \cup {r}
    BY <1>4, <2>5, <2>9
  <2> HIDE DEF a, s, r, met
  <2>13. Good(k)
    BY <2>6, <2>7, <2>8, <2>10, <2>11, <2>12 DEF a, s
  <2> QED
    BY <2>3, <2>13
<1>6. n \in 0..n
  BY <1>1
<1> QED
  BY <1>5, <1>6 DEF Swept, f, n

\* A sweep meets every reaper that is not remembered.
LEMMA OrderListsAll ==
    ASSUME NEW S, IsFiniteSet(S), NEW order \in SetToSeqs(S)
    PROVE  order \in Seq(S) /\ {order[i] : i \in 1..Len(order)} = S
<1> DEFINE n == Cardinality(S)
<1>1. n \in Nat
  BY FS_CardinalityType
<1>2. order \in [1..n -> S] /\ \A i, j \in 1..n : i # j => order[i] # order[j]
  BY DEF SetToSeqs
<1>3. order \in Injection(1..n, S)
  BY <1>2 DEF Injection, IsInjective
<1>4. Cardinality(1..n) = n
  BY <1>1, FS_Interval
<1>5. order \in Surjection(1..n, S)
  BY <1>3, <1>4, FS_Injection
<1> HIDE DEF n
<1>6. order \in Seq(S) /\ Len(order) = n
  BY <1>1, <1>2
<1>7. \A x \in S : \E i \in 1..n : order[i] = x
  BY <1>5 DEF Surjection
<1> QED
  BY <1>2, <1>6, <1>7

\* A reaper that has started or joined a launch is remembered while it lives.
UsedSeen == used \cap live \subseteq seen

\* A poll with a sweep.
LEMMA PollTriggers ==
    ASSUME LaunchInv, UsedSeen, Poll, Cardinality(Reaper) <= MaxSeen
    PROVE  /\ UsedSeen'
           /\ \A r \in Reaper : fx'.reaper = r /\ fx.reaper # r => r \notin used
<1> DEFINE e == Launcher(ChainEnded(Orphaned(Now)))
           kept == seen \cap live
           new == live \ kept
<1>1. FxTypeOK /\ Now \in Pair /\ Now.fx = fx
  BY DEF LaunchInv, EndsClean, FxTypeOK, Now, Pair
<1>2. e \in Pair /\ e.fx.reaper \in {fx.reaper, NoReaper}
  BY <1>1, PolledChain DEF SameChain
<1>3. kept \in SUBSET Reaper /\ new \in SUBSET Reaper /\ IsFiniteSet(new)
  <2>1. kept \in SUBSET Reaper /\ new \in SUBSET Reaper
    BY <1>1 DEF FxTypeOK
  <2> HIDE DEF kept, new
  <2> QED
    BY <2>1, FS_Subset, LaunchAssumption
<1>4. live' = live
  BY DEF Poll
<1>5. \A r \in used \cap live : r \in kept
  BY DEF UsedSeen
<1>6. \/ fx' = e.fx /\ seen' = kept /\ used' = used
      \/ \E order \in SetToSeqs(new), free \in BOOLEAN :
            /\ fx' = Swept(e, kept, order, free).launch.fx
            /\ seen' = Swept(e, kept, order, free).seen
            /\ used' \subseteq used \cup new
  BY DEF Poll, Sets
<1>7. NoReaper \notin Reaper
  BY LaunchAssumption
<1>8. CASE fx' = e.fx /\ seen' = kept /\ used' = used
  BY <1>2, <1>4, <1>5, <1>7, <1>8 DEF UsedSeen
<1> HIDE DEF e
<1>9. ASSUME NEW order \in SetToSeqs(new), NEW free \in BOOLEAN,
             fx' = Swept(e, kept, order, free).launch.fx,
             seen' = Swept(e, kept, order, free).seen, used' \subseteq used \cup new
      PROVE  /\ UsedSeen'
             /\ \A r \in Reaper : fx'.reaper = r /\ fx.reaper # r => r \notin used
  <2>1. order \in Seq(new) /\ {order[i] : i \in 1..Len(order)} = new
    <3> HIDE DEF new
    <3> QED
      BY <1>3, OrderListsAll
  <2>2. order \in Seq(Reaper)
    <3> HIDE DEF new
    <3> QED
      BY <1>3, <2>1
  <2>3. /\ fx'.reaper \in new \cup {e.fx.reaper}
        /\ kept \cup new \subseteq seen'
    <3> HIDE DEF new, kept
    <3> QED
      BY <1>2, <1>3, <1>9, <2>1, <2>2, SweptChain
  <2>4. UsedSeen'
    BY <1>4, <1>5, <1>9, <2>3 DEF UsedSeen
  <2>5. ASSUME NEW r \in Reaper, fx'.reaper = r, fx.reaper # r PROVE r \notin used
    <3>1. r \in new
      BY <1>2, <1>7, <2>3, <2>5
    <3> QED
      BY <1>5, <3>1
  <2> QED
    BY <2>4, <2>5
<1> QED
  BY <1>6, <1>8, <1>9

\* One Play press starts one launch: a reaper starts or joins a launch once while it
\* lives, for any number of reapers that the table has room for.
THEOREM LaunchTriggersOnce == Cardinality(Reaper) <= MaxSeen /\ FxSpec => TriggersOnce
<1> SUFFICES ASSUME Cardinality(Reaper) <= MaxSeen
             PROVE  FxSpec => TriggersOnce
  OBVIOUS
<1> DEFINE Goal == \A r \in Reaper : fx'.reaper = r /\ fx.reaper # r => r \notin used
<1>1. FxInit => UsedSeen
  BY DEF FxInit, UsedSeen
<1>2. ASSUME LaunchInv, UsedSeen, [FxNext]_fxvars PROVE UsedSeen' /\ [Goal]_fxvars
  <2>1. CASE Poll
    BY <1>2, <2>1, PollTriggers
  <2>2. CASE ~ Poll
    <3>1. Goal
      BY <1>2, <2>2, ChainKept, LaunchAssumption DEF LaunchInv, EndsClean
    <3>2. seen' = seen /\ (used' \cap live' \subseteq used \cap live)
      BY <1>2, <2>2 DEF FxNext, fxvars, Map, GoFull, GoWindowed, Unmap, Commit, EnterGameMode,
         Spawn, Exit, Frame, LeaveGameMode, Age, Tick, Watchdog, Unplug
    <3> QED
      BY <1>2, <3>1, <3>2 DEF UsedSeen
  <2> QED
    BY <2>1, <2>2
<1>3. FxSpec => []LaunchInv
  BY LaunchAlways
<1> QED
  BY <1>1, <1>2, <1>3, PTL DEF FxSpec, TriggersOnce
=============================================================================
