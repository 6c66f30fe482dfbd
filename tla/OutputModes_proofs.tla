--------------------------- MODULE OutputModes_proofs ---------------------------
(***************************************************************************)
(* No borrowed mode is forgotten, and leaving fullscreen gives every mode back,  *)
(* for any set of windows and outputs.  As in AdaptiveSync_proofs, a handler is a   *)
(* chain of operators on the fields of an output, and each keeps them Accounted;     *)
(* that a release leaves nothing behind follows the chain of setfullscreen(c, 0).     *)
(***************************************************************************)
EXTENDS OutputModes, Fullscreen_proofs

\* The fields of one output are well typed and account for its mode.
Accounted(o) == o \in Output /\ (o.best \/ o.own # {} \/ "mode" \in o.lost)

\* The inductive invariant.
ModesInv == ModesTypeOK /\ ModeOwned

\* A release takes loans and decisions away, and keeps the account of the others.
Lessens(o, r) ==
    /\ Accounted(r)
    /\ r.own \subseteq o.own /\ r.due \subseteq o.due /\ r.fallback = o.fallback
    /\ "video" \in r.lost <=> "video" \in o.lost

\* What well typed fields are, one by one.
LEMMA Fields ==
    ASSUME NEW o \in Output
    PROVE  /\ o.best \in BOOLEAN /\ o.fallback \in BOOLEAN
           /\ o.own \subseteq Owners /\ o.due \subseteq {"scan", "lock"}
           /\ o.lost \subseteq {"mode", "video"}
BY DEF Output

-----------------------------------------------------------------------------
(* Giving back.                                                                    *)

\* A modeset to the best mode, made or refused, accounts for the mode by itself.
LEMMA ToBestAccounts ==
    ASSUME NEW o \in Output, NEW ok \in BOOLEAN
    PROVE  /\ ToBest(o, ok) \in Output
           /\ ToBest(o, ok).best \/ "mode" \in ToBest(o, ok).lost
           /\ ToBest(o, ok).own = o.own /\ ToBest(o, ok).due = o.due
           /\ ToBest(o, ok).fallback = o.fallback
           /\ "video" \in ToBest(o, ok).lost <=> "video" \in o.lost
<1>1. CASE ok
  BY <1>1 DEF ToBest, Output
<1>2. CASE ~ ok
  BY <1>2 DEF ToBest, Output
<1> QED
  BY <1>1, <1>2

\* restore_max_refresh_rate: on a lit output the video matcher has given its mode back,
\* or its commit was refused.
LEMMA RestoreMaxAccounts ==
    ASSUME NEW m \in Mon, NEW o, Accounted(o), NEW ok \in BOOLEAN
    PROVE  /\ Accounted(RestoreMax(m, o, ok))
           /\ lit[m] => /\ "video" \notin RestoreMax(m, o, ok).own \/ "video" \in RestoreMax(m, o, ok).lost
                        /\ ~ RestoreMax(m, o, ok).fallback
<1> DEFINE p == [o EXCEPT !.fallback = FALSE]
<1>1. /\ p \in Output /\ ~ p.fallback
      /\ p.best = o.best /\ p.own = o.own /\ p.lost = o.lost
  BY DEF Accounted, Output
<1> HIDE DEF p
<1>2. CASE ~ lit[m]
  BY <1>2 DEF RestoreMax
<1>3. CASE lit[m] /\ "video" \notin o.own
  <2>1. RestoreMax(m, o, ok) = p
    BY <1>3 DEF RestoreMax, p
  <2> QED
    BY <1>1, <1>3, <2>1 DEF Accounted
<1>4. CASE lit[m] /\ "video" \in o.own /\ (o.best \/ ok)
  <2> DEFINE q == ToBest(p, TRUE)
  <2>1. RestoreMax(m, o, ok) = [q EXCEPT !.own = @ \ {"video"}, !.lost = @ \ {"video"}]
    BY <1>4 DEF RestoreMax, p
  <2>2. q \in Output /\ ~ q.fallback
    BY <1>1, ToBestAccounts
  <2>3. q.best
    BY <1>1 DEF ToBest, Output
  <2> HIDE DEF q
  <2> QED
    BY <2>1, <2>2, <2>3 DEF Accounted, Output
<1>5. CASE lit[m] /\ "video" \in o.own /\ ~ (o.best \/ ok)
  <2>1. RestoreMax(m, o, ok) = [p EXCEPT !.lost = @ \cup {"video"}]
    BY <1>5 DEF RestoreMax, p
  <2> QED
    BY <1>1, <1>5, <2>1 DEF Accounted, Output
<1> QED
  BY <1>2, <1>3, <1>4, <1>5

\* restore_console_mode, and the modeset of gamescan_restore.
LEMMA ReturnedAccounts ==
    ASSUME NEW m \in Mon, NEW o, Accounted(o), NEW who \in Owners, NEW ok \in BOOLEAN
    PROVE  /\ Lessens(o, Returned(m, o, who, ok))
           /\ lit[m] => who \notin Returned(m, o, who, ok).own
<1>1. CASE ~ lit[m] \/ who \notin o.own
  BY <1>1 DEF Returned, Lessens
<1>2. CASE lit[m] /\ who \in o.own
  <2> DEFINE q == ToBest(o, ok)
  <2>1. Returned(m, o, who, ok) = [q EXCEPT !.own = @ \ {who}]
    BY <1>2 DEF Returned
  <2>2. /\ q \in Output /\ (q.best \/ "mode" \in q.lost)
        /\ q.own = o.own /\ q.due = o.due /\ q.fallback = o.fallback
        /\ "video" \in q.lost <=> "video" \in o.lost
    BY ToBestAccounts DEF Accounted
  <2> HIDE DEF q
  <2> QED
    BY <2>1, <2>2 DEF Accounted, Output, Lessens
<1> QED
  BY <1>1, <1>2

\* gamescan_restore
LEMMA ScanRestoredAccounts ==
    ASSUME NEW m \in Mon, NEW o, Accounted(o), NEW ok \in BOOLEAN
    PROVE  /\ Lessens(o, ScanRestored(m, o, ok))
           /\ lit[m] => "scan" \notin ScanRestored(m, o, ok).own \cup ScanRestored(m, o, ok).due
<1>1. CASE ~ lit[m]
  BY <1>1 DEF ScanRestored, Lessens
<1>2. CASE lit[m]
  <2> DEFINE q == Returned(m, o, "scan", ok)
  <2>1. ScanRestored(m, o, ok) = [q EXCEPT !.due = @ \ {"scan"}]
    BY <1>2 DEF ScanRestored
  <2>2. "scan" \in Owners
    BY DEF Owners
  <2>3. Lessens(o, q) /\ "scan" \notin q.own
    BY <1>2, <2>2, ReturnedAccounts
  <2> HIDE DEF q
  <2> QED
    BY <2>1, <2>3 DEF Accounted, Output, Lessens
<1> QED
  BY <1>1, <1>2

\* autolock_reset: where it leaves the mode to gamescan or console mode, one of them has
\* borrowed it.
LEMMA LockResetAccounts ==
    ASSUME NEW m \in Mon, NEW o, Accounted(o), NEW ok \in BOOLEAN
    PROVE  /\ Lessens(o, LockReset(m, o, ok))
           /\ "lock" \notin LockReset(m, o, ok).own \cup LockReset(m, o, ok).due
<1> DEFINE q == [o EXCEPT !.own = @ \ {"lock"}, !.due = @ \ {"lock"}]
           k == lit[m] /\ ok
<1>1. /\ q \in Output /\ q.own = o.own \ {"lock"} /\ q.due = o.due \ {"lock"}
      /\ q.fallback = o.fallback /\ q.lost = o.lost /\ q.best = o.best
  BY DEF Accounted, Output
<1>2. k \in BOOLEAN
  OBVIOUS
<1>3. CASE "lock" \in o.own /\ o.own \cap {"scan", "console"} = {}
  <2>1. LockReset(m, o, ok) = ToBest(q, k)
    BY <1>3 DEF LockReset
  <2> HIDE DEF q, k
  <2> QED
    BY <1>1, <1>2, <2>1, ToBestAccounts DEF Accounted, Lessens
<1>4. CASE ~ ("lock" \in o.own /\ o.own \cap {"scan", "console"} = {})
  <2>1. LockReset(m, o, ok) = q
    BY <1>4 DEF LockReset
  <2>2. q.best \/ q.own # {} \/ "mode" \in q.lost
    BY <1>1, <1>4 DEF Accounted
  <2> HIDE DEF q
  <2> QED
    BY <1>1, <2>1, <2>2 DEF Accounted, Lessens
<1> QED
  BY <1>3, <1>4

\* An output without loans and decisions, but for what the hardware refused.
Clean(o) ==
    /\ o.best \/ o.lost # {}
    /\ o.own = {} \/ "video" \in o.lost
    /\ o.due = {} /\ ~ o.fallback

\* setfullscreen(c, 0): every borrower has given back, or was refused it.
LEMMA ReleasedCleans ==
    ASSUME NEW m \in Mon, NEW o, Accounted(o), NEW no
    PROVE  Accounted(Released(m, o, no)) /\ (lit[m] => Clean(Released(m, o, no)))
<1> DEFINE a == "video" \notin no
           b == "console" \notin no
           d == "scan" \notin no
           e == "lock" \notin no
           o1 == RestoreMax(m, o, a)
           o2 == Returned(m, o1, "console", b)
           o3 == ScanRestored(m, o2, d)
           o4 == LockReset(m, o3, e)
<1>0. a \in BOOLEAN /\ b \in BOOLEAN /\ d \in BOOLEAN /\ e \in BOOLEAN
  OBVIOUS
<1>1. Released(m, o, no) = o4
  BY DEF Released
<1>2. /\ Accounted(o1)
      /\ lit[m] => ("video" \notin o1.own \/ "video" \in o1.lost) /\ ~ o1.fallback
  BY <1>0, RestoreMaxAccounts
<1> HIDE DEF o1, a, b, d, e
<1>3. Lessens(o1, o2) /\ (lit[m] => "console" \notin o2.own)
  <2>1. "console" \in Owners
    BY DEF Owners
  <2> QED
    BY <1>0, <1>2, <2>1, ReturnedAccounts
<1> HIDE DEF o2
<1>4. Lessens(o2, o3) /\ (lit[m] => "scan" \notin o3.own \cup o3.due)
  <2>1. Accounted(o2)
    BY <1>3 DEF Lessens
  <2> QED
    BY <1>0, <2>1, ScanRestoredAccounts
<1> HIDE DEF o3
<1>5. Lessens(o3, o4) /\ "lock" \notin o4.own \cup o4.due
  <2>1. Accounted(o3)
    BY <1>4 DEF Lessens
  <2> QED
    BY <1>0, <2>1, LockResetAccounts
<1> HIDE DEF o4
<1>6. Accounted(o4) /\ o4.own \subseteq Owners /\ o4.due \subseteq {"scan", "lock"}
  BY <1>5, Fields DEF Accounted, Lessens
<1>7. ASSUME lit[m] PROVE Clean(o4)
  <2>1. o4.own = {} \/ "video" \in o4.lost
    BY <1>2, <1>3, <1>4, <1>5, <1>6, <1>7 DEF Owners, Lessens
  <2>2. o4.due = {} /\ ~ o4.fallback
    BY <1>2, <1>3, <1>4, <1>5, <1>6, <1>7 DEF Lessens
  <2>3. o4.best \/ o4.lost # {}
    BY <1>6, <2>1 DEF Accounted
  <2> QED
    BY <2>1, <2>2, <2>3 DEF Clean
<1> QED
  BY <1>1, <1>6, <1>7

-----------------------------------------------------------------------------
(* Borrowing.                                                                      *)

\* apply_best_video_mode
LEMMA VideoMatchedAccounts ==
    ASSUME NEW m \in Mon, NEW o, Accounted(o), NEW p \in VideoMatched(m, o)
    PROVE  Accounted(p)
<1>1. PICK b \in BOOLEAN : p = [o EXCEPT !.own = @ \cup {"video"}, !.best = b]
  BY DEF VideoMatched
<1> QED
  BY <1>1 DEF Accounted, Output, Owners

\* gamescan_apply and autolock_apply_mode, once the modeset is made.
LEMMA BorrowedAccounts ==
    ASSUME NEW o, Accounted(o), NEW who \in Owners, NEW p \in Borrowed(o, who)
    PROVE  Accounted(p)
<1>1. PICK b \in BOOLEAN : p = [o EXCEPT !.own = @ \cup {who}, !.best = b]
  BY DEF Borrowed
<1> QED
  BY <1>1 DEF Accounted, Output

\* apply_console_mode
LEMMA ConsoledAccounts ==
    ASSUME NEW m \in Mon, NEW o, Accounted(o), NEW ok \in BOOLEAN
    PROVE  Accounted(Consoled(m, o, ok))
BY DEF Accounted, Output, Owners, Consoled

\* setfullscreen(c, 1)
LEMMA EnteredAccounts ==
    ASSUME NEW m \in Mon, NEW o, Accounted(o), NEW c \in Client, NEW no
    PROVE  Accounted(Entered(m, o, c, no))
<1> DEFINE a == "lock" \notin no
           b == "console" \notin no
           p == LockReset(m, o, a)
<1>1. a \in BOOLEAN /\ b \in BOOLEAN
  OBVIOUS
<1> HIDE DEF a, b
<1>2. Accounted(p)
  BY <1>1, LockResetAccounts DEF Lessens
<1> HIDE DEF p
<1>3. Accounted(Consoled(m, p, b))
  BY <1>1, <1>2, ConsoledAccounts
<1>4. Entered(m, o, c, no) \in {p, Consoled(m, p, b)}
  BY DEF Entered, p, a, b
<1> QED
  BY <1>2, <1>3, <1>4

\* What a frame does before its commit: deferred modesets, and new decisions.
LEMMA FrameAccounts ==
    ASSUME NEW m \in Mon, NEW o, Accounted(o), NEW c,
           NEW p \in Fallback(m, o, c), NEW q \in ScanApplied(p, c),
           NEW r \in LockApplied(q, c), NEW u \in Decided(m, r, c)
    PROVE  Accounted(u) /\ Accounted([u EXCEPT !.fallback = TRUE])
<1>1. Accounted(p)
  <2> DEFINE x == [o EXCEPT !.fallback = FALSE]
  <2>1. Accounted(x)
    BY DEF Accounted, Output
  <2>2. p = x \/ p \in VideoMatched(m, x)
    BY DEF Fallback
  <2> HIDE DEF x
  <2> QED
    BY <2>1, <2>2, VideoMatchedAccounts
<1>2. Accounted(q)
  <2> DEFINE x == [p EXCEPT !.due = @ \ {"scan"}]
  <2>1. Accounted(x)
    BY <1>1 DEF Accounted, Output
  <2>2. q = x \/ q \in Borrowed(x, "scan")
    BY DEF ScanApplied
  <2>3. "scan" \in Owners
    BY DEF Owners
  <2> HIDE DEF x
  <2> QED
    BY <2>1, <2>2, <2>3, BorrowedAccounts
<1>3. Accounted(r)
  <2> DEFINE x == [q EXCEPT !.due = @ \ {"lock"}]
  <2>1. Accounted(x)
    BY <1>2 DEF Accounted, Output
  <2>2. r = x \/ r \in Borrowed(x, "lock")
    BY DEF LockApplied
  <2>3. "lock" \in Owners
    BY DEF Owners
  <2> HIDE DEF x
  <2> QED
    BY <2>1, <2>2, <2>3, BorrowedAccounts
<1>4. Accounted(u)
  <2>1. u = r \/ \E more \in SUBSET {"scan", "lock"} : u = [r EXCEPT !.due = @ \cup more]
    BY DEF Decided
  <2> QED
    BY <1>3, <2>1 DEF Accounted, Output
<1> QED
  BY <1>4 DEF Accounted, Output

-----------------------------------------------------------------------------
(* The steps.                                                                      *)

\* The invariant, output by output.
LEMMA ByOutput ==
    ModesInv <=> /\ DeskTypeOK /\ out \in [Mon -> Output] /\ \A m \in Mon : Accounted(out[m])
BY DEF ModesInv, ModesTypeOK, ModeOwned, Accounted

\* A step that gives every output accounted fields keeps the invariant.
LEMMA AllKept ==
    ASSUME DOMAIN out' = Mon, out' = [m \in Mon |-> out'[m]], \A m \in Mon : Accounted(out'[m]),
           DeskTypeOK'
    PROVE  ModesInv'
<1>1. out' \in [Mon -> Output]
  BY DEF Accounted
<1> QED
  BY <1>1 DEF ModesInv, ModesTypeOK, ModeOwned, Accounted

\* So does a step that gives one output accounted fields.
LEMMA SetsKept ==
    ASSUME ModesInv, NEW m \in Mon, NEW o, Accounted(o), Sets(m, o), DeskTypeOK'
    PROVE  ModesInv'
<1>1. out \in [Mon -> Output] /\ \A d \in Mon : Accounted(out[d])
  BY ByOutput
<1>2. out' \in [Mon -> Output] /\ \A d \in Mon : Accounted(out'[d])
  BY <1>1 DEF Accounted, Sets
<1> QED
  BY <1>2 DEF ModesInv, ModesTypeOK, ModeOwned, Accounted

\* So does a step that leaves the outputs alone.
LEMMA UnchangedKept ==
    ASSUME ModesInv, UNCHANGED out, DeskTypeOK'
    PROVE  ModesInv'
BY DEF ModesInv, ModesTypeOK, ModeOwned

\* The windows: setfullscreen, setmon, mapnotify and unmapnotify.
LEMMA WindowsKeep ==
    ASSUME ModesInv, NEW c \in Client, NEW m \in Mon,
           Enter(c) \/ Exit(c) \/ Unmap(c) \/ MapFull(c, m) \/ MapTile(c, m) \/ Move(c, m)
    PROVE  ModesInv'
<1>1. DeskTypeOK /\ sel \in Mon /\ \A d \in Mon : Accounted(out[d])
  BY ByOutput DEF DeskTypeOK
<1>2. \A d \in Mon : \A no : Accounted(Released(d, out[d], no)) /\ Accounted(Entered(d, out[d], c, no))
  BY <1>1, ReleasedCleans, EnteredAccounts
<1>3. CASE Enter(c)
  <2>1. DeskTypeOK' /\ win[c].at \in Mon
    BY <1>1, <1>3, FillsTyped DEF Enter
  <2>2. PICK no : Sets(win[c].at, Entered(win[c].at, out[win[c].at], c, no))
    BY <1>3 DEF Enter
  <2> QED
    BY <1>2, <2>1, <2>2, SetsKept
<1>4. CASE Exit(c)
  <2>1. DeskTypeOK' /\ win[c].at \in Mon
    BY <1>1, <1>4, LeavesTyped DEF Exit
  <2>2. PICK no : Sets(win[c].at, Released(win[c].at, out[win[c].at], no))
    BY <1>4 DEF Exit
  <2> QED
    BY <1>2, <2>1, <2>2, SetsKept
<1>5. CASE Unmap(c)
  <2>1. DeskTypeOK'
    BY <1>1, <1>5, UnmapsTyped DEF Unmap
  <2>2. UNCHANGED out \/ \E no : Sets(sel, Released(sel, out[sel], no))
    BY <1>5 DEF Unmap
  <2> QED
    BY <1>1, <1>2, <2>1, <2>2, SetsKept, UnchangedKept
<1>6. CASE MapFull(c, m)
  <2>1. DeskTypeOK'
    BY <1>1, <1>6, MapsTyped DEF MapFull
  <2>2. PICK no : \/ Sets(m, Entered(m, out[m], c, no))
                  \/ \E again : Sets(m, Released(m, Entered(m, out[m], c, no), again))
    BY <1>6 DEF MapFull
  <2>3. Accounted(Entered(m, out[m], c, no))
    BY <1>2
  <2>4. \A again : Accounted(Released(m, Entered(m, out[m], c, no), again))
    BY <2>3, ReleasedCleans
  <2> QED
    BY <2>1, <2>2, <2>3, <2>4, SetsKept
<1>7. CASE MapTile(c, m)
  <2>1. DeskTypeOK'
    BY <1>1, <1>7, MapsTyped DEF MapTile
  <2>2. UNCHANGED out \/ \E no : Sets(m, Released(m, out[m], no))
    BY <1>7 DEF MapTile
  <2> QED
    BY <1>2, <2>1, <2>2, SetsKept, UnchangedKept
<1>8. CASE Move(c, m)
  <2>1. DeskTypeOK'
    BY <1>1, <1>8, MovesTyped DEF Move
  <2>2. \E no : Sets(m, Entered(m, out[m], c, no)) \/ Sets(m, Released(m, out[m], no))
    BY <1>8 DEF Move
  <2> QED
    BY <1>2, <2>1, <2>2, SetsKept
<1> QED
  BY <1>3, <1>4, <1>5, <1>6, <1>7, <1>8

\* The workspace switch, selmon, the power of an output and the return to its best mode.
LEMMA MonitorsKeep ==
    ASSUME ModesInv, NEW m \in Mon, Switch(m) \/ Select(m) \/ Power(m) \/ Reapply(m)
    PROVE  ModesInv'
<1>1. DeskTypeOK /\ \A d \in Mon : Accounted(out[d])
  BY ByOutput
<1>2. CASE Switch(m)
  BY <1>1, <1>2, SwitchesTyped, UnchangedKept DEF Switch
<1>3. CASE Select(m)
  BY <1>1, <1>3, SelectsTyped, UnchangedKept DEF Select
<1>4. CASE Power(m)
  <2>1. (~ lit[m]) \in BOOLEAN
    OBVIOUS
  <2> QED
    BY <1>1, <1>4, <2>1, PowersTyped, UnchangedKept DEF Power
<1>5. CASE Reapply(m)
  <2>1. DeskTypeOK' /\ Sets(m, ToBest(out[m], TRUE))
    BY <1>1, <1>5, PowersTyped DEF Reapply
  <2>2. out[m] \in Output
    BY <1>1 DEF Accounted
  <2>3. Accounted(ToBest(out[m], TRUE))
    BY <2>2, ToBestAccounts DEF Accounted
  <2> QED
    BY <2>1, <2>3, SetsKept
<1> QED
  BY <1>2, <1>3, <1>4, <1>5

\* Players and the detection of videos.
LEMMA PlayersKeep ==
    ASSUME ModesInv, NEW m \in Mon, VideoPlaying(m) \/ VideoStopped(m) \/ Check(m)
    PROVE  ModesInv'
<1>1. DeskTypeOK /\ \A d \in Mon : Accounted(out[d])
  BY ByOutput
<1>2. CASE VideoPlaying(m)
  <2>1. PICK o \in VideoMatched(m, out[m]) : Sets(m, o)
    BY <1>2 DEF VideoPlaying
  <2>2. DeskTypeOK' /\ Accounted(o)
    BY <1>1, <1>2, StillTyped, VideoMatchedAccounts DEF VideoPlaying
  <2> QED
    BY <2>1, <2>2, SetsKept
<1>3. CASE VideoStopped(m)
  <2>1. PICK kept \in SUBSET {d \in Mon \ {m} : FullOn(d) \cap Film # {}},
             vrr \in SUBSET Mon, no \in SUBSET Mon :
          out' = [d \in Mon |->
                    IF d = m \/ (d \notin kept /\ ("video" \in out[d].own \/ d \in vrr))
                    THEN RestoreMax(d, out[d], d \notin no) ELSE out[d]]
    BY <1>3 DEF VideoStopped
  <2>2. \A d \in Mon : Accounted(out'[d])
    <3> SUFFICES ASSUME NEW d \in Mon PROVE Accounted(out'[d])
      OBVIOUS
    <3>1. (d \notin no) \in BOOLEAN
      OBVIOUS
    <3>2. Accounted(RestoreMax(d, out[d], d \notin no))
      BY <1>1, <3>1, RestoreMaxAccounts
    <3> QED
      BY <1>1, <2>1, <3>2
  <2>3. DOMAIN out' = Mon /\ out' = [d \in Mon |-> out'[d]]
    BY <2>1
  <2>4. DeskTypeOK'
    BY <1>1, <1>3, StillTyped DEF VideoStopped
  <2> QED
    BY <2>2, <2>3, <2>4, AllKept
<1>4. CASE Check(m)
  <2>1. PICK c \in Client : /\ Finds(m, c)
                            /\ UNCHANGED out \/ \E o \in VideoMatched(m, out[m]) : Sets(m, o)
    BY <1>4 DEF Check
  <2>2. DeskTypeOK'
    BY <1>1, <2>1, FindsTyped
  <2>3. \A o \in VideoMatched(m, out[m]) : Accounted(o)
    BY <1>1, VideoMatchedAccounts
  <2> QED
    BY <2>1, <2>2, <2>3, SetsKept, UnchangedKept
<1> QED
  BY <1>2, <1>3, <1>4

\* A frame.
LEMMA FrameKeeps ==
    ASSUME ModesInv, NEW m \in Mon, Frame(m)
    PROVE  ModesInv'
<1>1. DeskTypeOK' /\ Accounted(out[m])
  BY ByOutput, StillTyped DEF Frame
<1>2. PICK c \in ShownOn(m) \cup {Nothing} :
        \E p \in Fallback(m, out[m], c) : \E q \in ScanApplied(p, c) :
          \E r \in LockApplied(q, c) : \E u \in Decided(m, r, c) :
            Sets(m, u) \/ Sets(m, [u EXCEPT !.fallback = TRUE])
  BY DEF Frame
<1>3. PICK p \in Fallback(m, out[m], c) : \E q \in ScanApplied(p, c) :
          \E r \in LockApplied(q, c) : \E u \in Decided(m, r, c) :
            Sets(m, u) \/ Sets(m, [u EXCEPT !.fallback = TRUE])
  BY <1>2
<1>4. PICK q \in ScanApplied(p, c) :
        \E r \in LockApplied(q, c) : \E u \in Decided(m, r, c) :
          Sets(m, u) \/ Sets(m, [u EXCEPT !.fallback = TRUE])
  BY <1>3
<1>5. PICK r \in LockApplied(q, c) :
        \E u \in Decided(m, r, c) : Sets(m, u) \/ Sets(m, [u EXCEPT !.fallback = TRUE])
  BY <1>4
<1>6. PICK u \in Decided(m, r, c) : Sets(m, u) \/ Sets(m, [u EXCEPT !.fallback = TRUE])
  BY <1>5
<1>7. Accounted(u) /\ Accounted([u EXCEPT !.fallback = TRUE])
  BY <1>1, FrameAccounts
<1> QED
  BY <1>1, <1>6, <1>7, SetsKept

-----------------------------------------------------------------------------
(* The theorems.                                                                   *)

\* All windows closed, all outputs lit and in their best mode.
LEMMA InitInv == ModesInit => ModesInv
<1> SUFFICES ASSUME ModesInit PROVE ModesInv
  OBVIOUS
<1>1. DeskTypeOK
  BY ClosedTyped DEF ModesInit, DeskInit, DeskTypeOK
<1>2. out \in [Mon -> Output] /\ \A m \in Mon : out[m].best
  BY DEF ModesInit, Output
<1> QED
  BY <1>1, <1>2 DEF ModesInv, ModesTypeOK, ModeOwned

\* Every step keeps the invariant.
LEMMA NextInv == ModesInv /\ [ModesNext]_modevars => ModesInv'
<1> SUFFICES ASSUME ModesInv, [ModesNext]_modevars PROVE ModesInv'
  OBVIOUS
<1>1. CASE UNCHANGED modevars
  <2>1. DeskTypeOK
    BY ByOutput
  <2> QED
    BY <1>1, <2>1, StillTyped, UnchangedKept DEF modevars
<1>2. ASSUME NEW c \in Client, Enter(c) \/ Exit(c) \/ Unmap(c) PROVE ModesInv'
  <2>1. sel \in Mon
    BY DEF ModesInv, ModesTypeOK, DeskTypeOK
  <2> QED
    BY <1>2, <2>1, WindowsKeep
<1>3. ASSUME NEW c \in Client, NEW m \in Mon, MapFull(c, m) \/ MapTile(c, m) \/ Move(c, m)
      PROVE  ModesInv'
  BY <1>3, WindowsKeep
<1>4. ASSUME NEW m \in Mon, Switch(m) \/ Select(m) \/ Power(m) \/ Reapply(m) PROVE ModesInv'
  BY <1>4, MonitorsKeep
<1>5. ASSUME NEW m \in Mon, VideoPlaying(m) \/ VideoStopped(m) \/ Check(m) PROVE ModesInv'
  BY <1>5, PlayersKeep
<1>6. ASSUME NEW m \in Mon, Frame(m) PROVE ModesInv'
  BY <1>6, FrameKeeps
<1> QED
  BY <1>1, <1>2, <1>3, <1>4, <1>5, <1>6 DEF ModesNext

\* So every reachable state satisfies it.
LEMMA AlwaysInv == ModesSpec => []ModesInv
BY InitInv, NextInv, PTL DEF ModesSpec

\* Every reachable state of the windows, the outputs and their loans is well typed.
THEOREM ModesTyped == ModesSpec => []ModesTypeOK
<1>1. ModesInv => ModesTypeOK
  BY DEF ModesInv
<1> QED
  BY <1>1, AlwaysInv, PTL

\* An output that is not in its best mode has a borrower that will give it back, unless a
\* refused commit or a dark output kept it from that (setfullscreen, setmon, mapnotify,
\* unmapnotify, rendermon and the four borrowers together).
THEOREM ModesAccounted == ModesSpec => []ModeOwned
<1>1. ModesInv => ModeOwned
  BY DEF ModesInv
<1> QED
  BY <1>1, AlwaysInv, PTL

\* The window c leaves fullscreen where it is.
Leaving(c) ==
    /\ Full(c) /\ win[c].at \in Mon
    /\ win'[c].how = "tile" /\ win'[c].at = win[c].at

\* Nothing but setfullscreen(c, 0) and the map of another window does that.
LEMMA LeavingIsReleased ==
    ASSUME ModesInv, ModesNext, NEW c \in Client, Leaving(c)
    PROVE  \E o, no : Accounted(o) /\ out'[win[c].at] = Released(win[c].at, o, no)
<1> DEFINE m == win[c].at
<1>1. /\ DeskTypeOK /\ win \in [Client -> Window] /\ out \in [Mon -> Output]
      /\ \A d \in Mon : Accounted(out[d])
  BY ByOutput DEF DeskTypeOK
<1>2. win[c].how = "full" /\ m \in Mon /\ win'[c] # win[c]
  BY DEF Leaving, Full
<1>3. ASSUME NEW o, Accounted(o), NEW no, Sets(m, Released(m, o, no))
      PROVE  \E x, n : Accounted(x) /\ out'[m] = Released(m, x, n)
  <2>1. out'[m] = Released(m, o, no)
    BY <1>1, <1>2, <1>3 DEF Sets
  <2> QED
    BY <1>3, <2>1
<1>4. ASSUME NEW d \in Client, NEW w, Becomes(d, w) PROVE d = c /\ w = win'[c]
  BY <1>1, <1>2, <1>4 DEF Becomes
<1>5. ASSUME NEW d \in Client, NEW k \in Mon, NEW w, Maps(d, k, w) PROVE k = m /\ c \in ShownOn(m)
  <2>1. d # c
    BY <1>2, <1>5 DEF Maps, Open
  <2>2. c \in ShownOn(k)
    BY <1>2, <1>5, <2>1 DEF Maps
  <2> QED
    BY <2>2 DEF ShownOn, FullOn
<1>6. ASSUME NEW d \in Client, Enter(d) \/ Unmap(d) PROVE FALSE
  BY <1>4, <1>6 DEF Enter, Fills, Unmap, Unmaps, Leaving, AsFull, Closed
<1>7. ASSUME NEW d \in Client, Exit(d)
      PROVE  \E o, no : Accounted(o) /\ out'[m] = Released(m, o, no)
  <2>1. d = c
    BY <1>4, <1>7 DEF Exit, Leaves
  <2>2. PICK no : Sets(m, Released(m, out[m], no))
    BY <1>7, <2>1 DEF Exit
  <2> QED
    BY <1>1, <1>2, <1>3, <2>2
<1>8. ASSUME NEW d \in Client, NEW k \in Mon, MapFull(d, k)
      PROVE  \E o, no : Accounted(o) /\ out'[m] = Released(m, o, no)
  <2>1. k = m /\ ShownOn(m) # {}
    BY <1>5, <1>8 DEF MapFull
  <2>2. PICK no, again : Sets(m, Released(m, Entered(m, out[m], d, no), again))
    BY <1>8, <2>1 DEF MapFull
  <2>3. Accounted(Entered(m, out[m], d, no))
    BY <1>1, <1>2, EnteredAccounts
  <2> QED
    BY <1>3, <2>2, <2>3
<1>9. ASSUME NEW d \in Client, NEW k \in Mon, MapTile(d, k)
      PROVE  \E o, no : Accounted(o) /\ out'[m] = Released(m, o, no)
  <2>1. k = m /\ ShownOn(m) # {}
    BY <1>5, <1>9 DEF MapTile
  <2>2. PICK no : Sets(m, Released(m, out[m], no))
    BY <1>9, <2>1 DEF MapTile
  <2> QED
    BY <1>1, <1>2, <1>3, <2>2
<1>10. ASSUME NEW d \in Client, NEW k \in Mon, Move(d, k) PROVE FALSE
  <2>1. d = c
    BY <1>4, <1>10 DEF Move, Moves
  <2>2. Becomes(c, AsFull(k)) /\ k # m
    BY <1>10, <2>1 DEF Move, Moves, Leaving
  <2> QED
    BY <1>4, <2>2 DEF AsFull, Leaving
<1>11. ASSUME NEW k \in Mon, Check(k) PROVE FALSE
  <2>1. PICK d \in Client : Finds(k, d)
    BY <1>11 DEF Check
  <2>2. d = c /\ [win[d] EXCEPT !.found = TRUE] = win'[c]
    BY <1>4, <2>1 DEF Finds
  <2>3. win'[c].how = win[c].how
    BY <1>1, <2>2 DEF Window
  <2> QED
    BY <1>2, <2>3 DEF Leaving
<1>12. UNCHANGED win => FALSE
  BY <1>2
<1>13. ASSUME NEW k \in Mon, \/ Switch(k) \/ Select(k) \/ Power(k) \/ Reapply(k)
                             \/ VideoPlaying(k) \/ VideoStopped(k) \/ Frame(k)
       PROVE  FALSE
  BY <1>12, <1>13 DEF Switch, Switches, Select, Selects, Power, Powers, Reapply,
                      VideoPlaying, VideoStopped, Frame, desk
<1> QED
  BY <1>6, <1>7, <1>8, <1>9, <1>10, <1>11, <1>13 DEF ModesNext

\* A window that leaves fullscreen on a lit output leaves no loan, no decision and no
\* borrowed mode behind, but what the hardware refused (client.c setfullscreen).
THEOREM LeavingReleases == ModesSpec => ExitReleases
<1>1. ASSUME ModesInv, [ModesNext]_modevars, NEW c \in Client,
             Full(c), win'[c].how = "tile", win'[c].at = win[c].at, lit[win[c].at]
      PROVE  Clean(out'[win[c].at])
  <2>1. win[c].at \in Mon
    BY <1>1, ByOutput, FullAt
  <2>2. Leaving(c)
    BY <1>1, <2>1 DEF Leaving
  <2>3. ModesNext
    BY <1>1 DEF modevars, desk, Full
  <2>4. PICK o, no : Accounted(o) /\ out'[win[c].at] = Released(win[c].at, o, no)
    BY <1>1, <2>2, <2>3, LeavingIsReleased
  <2> QED
    BY <1>1, <2>1, <2>4, ReleasedCleans
<1>2. ModesInv /\ [ModesNext]_modevars =>
        [\A c \in Client :
           LET m == win[c].at
           IN  (Full(c) /\ win'[c].how = "tile" /\ win'[c].at = m /\ lit[m])
               => /\ out'[m].best \/ out'[m].lost # {}
                  /\ out'[m].own = {} \/ "video" \in out'[m].lost
                  /\ out'[m].due = {} /\ ~ out'[m].fallback]_modevars
  BY <1>1 DEF Clean
<1> QED
  BY <1>2, AlwaysInv, PTL DEF ModesSpec, ExitReleases
=============================================================================
