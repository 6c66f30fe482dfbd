------------------------------ MODULE LaunchFx ------------------------------
(***************************************************************************)
(* The launch effect.  Steam's reaper processes announce a game seconds     *)
(* before it has a window: tracking starts, and with it a boost.  When a     *)
(* game takes the screen a black cover grows over it, and goes when the game  *)
(* has presented a frame.  Everything here ends by something else than what   *)
(* began it: a chain of reapers that die and are replaced, a poll, a tick, a   *)
(* commit, a frame, or a watchdog when all of them fail.                       *)
(***************************************************************************)
EXTENDS Naturals, FiniteSets, SequencesExt

CONSTANTS
    Reaper, NoReaper,   \* reaper processes, by pid
    Launched,           \* windows of games
    MaxSeen             \* how many reapers are remembered (32)

ASSUME LaunchAssumption ==
    /\ NoReaper \notin Reaper /\ IsFiniteSet(Reaper)
    /\ MaxSeen \in Nat

VARIABLES
    fx,         \* the fields of fx, times as classes of age
    seen,       \* seen_reapers
    used,       \* reapers that have started or joined a launch, a record for the properties
    live,       \* reapers that run
    game,       \* of each game its window and fx_covered
    owner       \* prelaunch_boost_active, and whether game mode owns the tuning

fxvars == <<fx, seen, used, live, game, owner>>

Ages == {"none", "young", "old"}

Effect == [active : BOOLEAN, cover : {"none", "growing", "black"}, reveal : BOOLEAN,
           content : BOOLEAN, reaper : Reaper \cup {NoReaper}, orphan : Ages,
           window : Ages, mon : {"none", "there", "gone"}, wild : BOOLEAN, leaked : BOOLEAN]

Rest == [active |-> FALSE, cover |-> "none", reveal |-> FALSE, content |-> FALSE,
         reaper |-> NoReaper, orphan |-> "none", window |-> "none", mon |-> "none",
         wild |-> FALSE, leaked |-> FALSE]

\* Types; and no trace of a launch is left when none is tracked.
FxTypeOK ==
    /\ fx \in Effect
    /\ seen \subseteq Reaper /\ Cardinality(seen) <= MaxSeen
    /\ used \subseteq Reaper /\ live \subseteq Reaper
    /\ game \in [Launched -> [window : {"none", "windowed", "full"}, covered : BOOLEAN]]
    /\ owner \in [boost : BOOLEAN, mode : BOOLEAN]

FxInit ==
    /\ fx = Rest
    /\ seen = {} /\ used = {}
    /\ live \in SUBSET Reaper
    /\ game = [c \in Launched |-> [window |-> "none", covered |-> FALSE]]
    /\ owner = [boost |-> FALSE, mode |-> FALSE]

-----------------------------------------------------------------------------
(* The effect and the boost change together: operators on the pair of them.    *)

Now == [fx |-> fx, boost |-> owner.boost]
Sets(e) == fx' = e.fx /\ owner' = [owner EXCEPT !.boost = e.boost]

\* fx_teardown asks the monitor of the cover for a frame: if it was unplugged its
\* memory is gone, and nothing can be said of what follows.
Torn(f) == [Rest EXCEPT !.wild = f.wild \/ f.mon = "gone", !.leaked = f.leaked]

\* Mutant: the cover goes and the boost stays.
TornOnly(e) == IF e.fx.active THEN [fx |-> Torn(e.fx), boost |-> e.boost] ELSE e

\* fx_finish
Finished(e) == IF e.fx.active THEN [fx |-> Torn(e.fx), boost |-> FALSE] ELSE e

\* fx_track_start, which leaves the fields of an earlier cover alone.
Tracked(e) ==
    [fx |-> [e.fx EXCEPT !.active = TRUE, !.reveal = FALSE, !.content = FALSE,
                         !.reaper = NoReaper, !.orphan = "none", !.window = "none",
                         !.leaked = FALSE],
     boost |-> TRUE]

\* fx_start_cover: it stands; there was no memory for its first buffer or its tree, and
\* the tracking goes on without it; or for its last, and it is torn down, the boost left on.
CoverStarts(e) ==
    LET placed == [e.fx EXCEPT !.mon = "there"]
    IN  {[e EXCEPT !.fx = [placed EXCEPT !.cover = "growing", !.window = "none"]],
         [e EXCEPT !.fx = placed],
         [e EXCEPT !.fx = [Torn(placed) EXCEPT !.leaked = TRUE]]}

\* launchfx_fullscreen_starting(c)
FullscreenStarting(c, e) ==
    IF e.fx.cover # "none" THEN {[e EXCEPT !.fx = [@ EXCEPT !.mon = "there"]]}
    ELSE IF game[c].covered THEN {e}
    ELSE CoverStarts(IF e.fx.active THEN e ELSE Tracked(e))

\* fx_grow_complete
Grown(e) ==
    LET all == [e EXCEPT !.fx = [@ EXCEPT !.cover = "black"]]
    IN  IF e.fx.reveal /\ e.fx.content THEN Finished(all) ELSE all

-----------------------------------------------------------------------------
(* Games.                                                                      *)

Sane == ~ fx.wild
OnScreen == {c \in Launched : game[c].window = "full"}

\* launchfx_client_mapped
Noticed(e) ==
    IF e.fx.active /\ e.fx.window = "none" THEN [e EXCEPT !.fx = [@ EXCEPT !.window = "young"]]
    ELSE e

\* mapnotify of a game's window: as a tile; fullscreen at once; or unmanaged, a splash
\* or a game that covers the screen without asking.
Map(c) ==
    /\ Sane /\ game[c].window = "none"
    /\ UNCHANGED <<seen, used, live>>
    /\ \/ /\ game' = [game EXCEPT ![c].window = "windowed"]
          /\ Sets(Noticed(Now))
       \/ /\ game' = [game EXCEPT ![c] = [window |-> "full", covered |-> TRUE]]
          /\ \E e \in FullscreenStarting(c, Now) : Sets(Noticed(e))
       \/ /\ \E w \in {"windowed", "full"} : game' = [game EXCEPT ![c].window = w]
          /\ UNCHANGED <<fx, owner>>

\* setfullscreen
GoFull(c) ==
    /\ Sane /\ game[c].window = "windowed"
    /\ game' = [game EXCEPT ![c] = [window |-> "full", covered |-> TRUE]]
    /\ \E e \in FullscreenStarting(c, Now) : Sets(e)
    /\ UNCHANGED <<seen, used, live>>

GoWindowed(c) ==
    /\ Sane /\ game[c].window = "full"
    /\ game' = [game EXCEPT ![c].window = "windowed"]
    /\ UNCHANGED <<fx, seen, used, live, owner>>

\* Its window goes; the next one is another client, or the same one mapped again.
Unmap(c) ==
    /\ Sane /\ game[c].window # "none"
    /\ \E old \in {FALSE, game[c].covered} :
          game' = [game EXCEPT ![c] = [window |-> "none", covered |-> old]]
    /\ UNCHANGED <<fx, seen, used, live, owner>>

\* Mutant: only what is committed while the cover grows is noted.
CommitWhileGrowing(c) ==
    /\ Sane /\ c \in OnScreen
    /\ fx.active /\ fx.cover # "black" /\ ~ fx.content
    /\ fx' = [fx EXCEPT !.content = TRUE]
    /\ UNCHANGED <<seen, used, live, game, owner>>

\* It commits a buffer (launchfx_note_commit).
Commit(c) ==
    /\ Sane /\ c \in OnScreen
    /\ fx.active /\ ~ fx.content
    /\ fx' = [fx EXCEPT !.content = TRUE]
    /\ UNCHANGED <<seen, used, live, game, owner>>

\* rendermon draws an output that a game has to itself (launchfx_game_ready).
Frame ==
    /\ Sane /\ fx.active /\ OnScreen # {}
    /\ Sets(IF fx.content /\ fx.cover = "black" THEN Finished(Now)
            ELSE [Now EXCEPT !.fx = [@ EXCEPT !.reveal = TRUE]])
    /\ UNCHANGED <<seen, used, live, game>>

\* update_game_mode: the cover's backstop, then game mode, held back for the first second
\* of a cover.
EnterGameMode(c) ==
    /\ Sane /\ c \in OnScreen /\ ~ owner.mode
    /\ game' = [game EXCEPT ![c].covered = TRUE]
    /\ \E e \in FullscreenStarting(c, Now), held \in BOOLEAN :
          /\ held => e.fx.cover # "none"
          /\ e.fx.cover = "growing" => held
          /\ fx' = e.fx
          /\ owner' = [boost |-> e.boost, mode |-> ~ held]
    /\ UNCHANGED <<seen, used, live>>

LeaveGameMode ==
    /\ Sane /\ owner.mode
    /\ owner' = [owner EXCEPT !.mode = FALSE]
    /\ UNCHANGED <<fx, seen, used, live, game>>

-----------------------------------------------------------------------------
(* Reapers and timers.                                                         *)

\* Steam starts a reaper; its pid is not one still remembered.
Spawn(r) ==
    /\ r \notin live \cup seen \cup {fx.reaper}
    /\ live' = live \cup {r}
    /\ used' = used \ {r}
    /\ UNCHANGED <<fx, seen, game, owner>>

Exit(r) ==
    /\ r \in live
    /\ live' = live \ {r}
    /\ UNCHANGED <<fx, seen, used, game, owner>>

\* Time passes: three seconds without a successor, ten with a window.
Late(t) == IF t = "young" THEN "old" ELSE t
Age ==
    /\ Sane
    /\ \/ fx' = [fx EXCEPT !.orphan = Late(@)]
       \/ fx' = [fx EXCEPT !.window = Late(@)]
    /\ fx' # fx
    /\ UNCHANGED <<seen, used, live, game, owner>>

\* fx_tick_cb reads the monitor of the cover, which grows on until it has grown.
Tick ==
    /\ Sane /\ fx.cover = "growing"
    /\ IF fx.mon = "gone" THEN fx' = [fx EXCEPT !.wild = TRUE] /\ owner' = owner
       ELSE Sets(Grown(Now))
    /\ UNCHANGED <<seen, used, live, game>>

\* fx_watchdog_cb: 45 s after tracking began, 20 s after the cover.
Watchdog ==
    /\ Sane /\ fx.active
    /\ Sets(Finished(Now))
    /\ UNCHANGED <<seen, used, live, game>>

\* The monitor of the cover is unplugged: cleanupmon does not know of the effect.
Unplug ==
    /\ Sane /\ fx.mon = "there"
    /\ fx' = [fx EXCEPT !.mon = "gone"]
    /\ UNCHANGED <<seen, used, live, game, owner>>

ChainBroken(f) == f.reaper # NoReaper /\ f.reaper \notin live

\* Mutant: it is not written down that the reaper died.
ForgetsOrphan(e) ==
    IF ChainBroken(e.fx) THEN [e EXCEPT !.fx = [@ EXCEPT !.reaper = NoReaper]] ELSE e

\* fx_poll_cb, first part.  The reaper that was followed has died;
Orphaned(e) ==
    IF ChainBroken(e.fx)
    THEN [e EXCEPT !.fx = [@ EXCEPT !.reaper = NoReaper, !.orphan = "young"]] ELSE e

\* the launch came to a window and ended, or came to nothing;
ChainEnded(e) ==
    IF /\ e.fx.reaper = NoReaper /\ e.fx.orphan # "none"
       /\ e.fx.window # "none" \/ e.fx.orphan = "old"
    THEN Finished(e) ELSE e

\* a window is waiting for the user.
Launcher(e) == IF e.fx.window = "old" THEN Finished(e) ELSE e

\* Mutant: a reaper is remembered when it joins a launch, not when it starts one.
RememberedLate(r, s) == IF fx.active /\ Cardinality(s) < MaxSeen THEN s \cup {r} ELSE s

\* seen_reapers takes one more while it has room.
Remembered(r, s) == IF Cardinality(s) < MaxSeen THEN s \cup {r} ELSE s

\* A reaper not seen before joins the launch, or starts one (launchfx_start), unless a
\* game is on the selected monitor.
Met(e, r, free) ==
    IF e.fx.active THEN [e EXCEPT !.fx = [@ EXCEPT !.reaper = r, !.orphan = "none"]]
    ELSE IF free THEN LET t == Tracked(e) IN [t EXCEPT !.fx = [@ EXCEPT !.reaper = r]]
    ELSE e

\* What the loop over /proc leaves of the launch and of seen_reapers, reaper by reaper.
Sweep(e, s, order, free) ==
    LET after[i \in 0..Len(order)] ==
          IF i = 0 THEN [launch |-> e, seen |-> s]
          ELSE [launch |-> Met(after[i - 1].launch, order[i], free),
                seen |-> Remembered(order[i], after[i - 1].seen)]
    IN  after
Swept(e, s, order, free) == Sweep(e, s, order, free)[Len(order)]

\* fx_poll_cb: then the dead are forgotten, and /proc is swept while Steam is up and game
\* mode is not; the reapers are met in any order.
Poll ==
    /\ Sane
    /\ UNCHANGED <<live, game>>
    /\ LET e == Launcher(ChainEnded(Orphaned(Now)))
           kept == seen \cap live
       IN  \/ Sets(e) /\ seen' = kept /\ used' = used
           \/ /\ ~ owner.mode \/ e.fx.active
              /\ \E order \in SetToSeqs(live \ kept), free \in BOOLEAN :
                    /\ free \/ OnScreen # {}
                    /\ order # <<>>
                    /\ Sets(Swept(e, kept, order, free).launch)
                    /\ seen' = Swept(e, kept, order, free).seen
                    /\ used' = IF e.fx.active \/ free THEN used \cup (live \ kept) ELSE used

FxNext ==
    \/ \E c \in Launched :
          Map(c) \/ GoFull(c) \/ GoWindowed(c) \/ Unmap(c) \/ Commit(c) \/ EnterGameMode(c)
    \/ \E r \in Reaper : Spawn(r) \/ Exit(r)
    \/ Frame \/ LeaveGameMode \/ Age \/ Tick \/ Watchdog \/ Unplug \/ Poll

\* The timers run, and a game on screen presents frames; the watchdog, which would end
\* anything, is left out.
FxFairness ==
    /\ WF_fxvars(Tick) /\ WF_fxvars(Poll) /\ WF_fxvars(Age)
    /\ WF_fxvars(Frame) /\ WF_fxvars(\E c \in Launched : Commit(c))

FxSpec == FxInit /\ [][FxNext]_fxvars /\ FxFairness

-----------------------------------------------------------------------------
\* Whatever ends a launch ends all of it.  The processor is boosted as long as a launch is
\* followed and no longer: game_prelaunch_boost and _release, which share no code, pair up.
\* The exception is the teardown in fx_start_cover.
EndsClean ==
    /\ FxTypeOK
    /\ Sane => (owner.boost <=> fx.active \/ fx.leaked)
    /\ ~ fx.active => [fx EXCEPT !.wild = FALSE, !.leaked = FALSE] = Rest

\* The black goes, without the watchdog, when a game stays on the screen and presents,
\* in whatever order the cover's growth, its commits and the frames come
\* (launchfx_game_ready, fx_grow_complete).
PresentedIsRevealed ==
    (fx.cover # "none" /\ OnScreen # {}) ~> (fx.cover = "none" \/ OnScreen = {} \/ ~ Sane)

\* When a reaper that is followed dies, a successor is adopted or the launch is given up,
\* without the watchdog (fx_poll_cb).
AbortedEnds ==
    ChainBroken(fx) ~> (~ fx.active \/ fx.reaper \in live \/ ~ Sane)

\* A reaper starts or joins a launch once while it lives, though it is met every 200 ms
\* (seen_reapers), as long as the table holds them all.
TriggersOnce ==
    [][\A r \in Reaper : fx'.reaper = r /\ fx.reaper # r => r \notin used]_fxvars
=============================================================================
