----------------------------- MODULE Compaction -----------------------------
(***************************************************************************)
(* monitor_compact_workspaces step by step: one pass of its two loops per  *)
(* step, on every list of workspaces a monitor can have when the call is   *)
(* made.  The other modules use the closed form Compact of Workspaces for  *)
(* the whole call; here it is shown to be what the loops compute.          *)
(***************************************************************************)
EXTENDS Workspaces

VARIABLES
    pc,         \* "gaps", "trim" or "done"
    before      \* the desk the call was made on

cvars == <<desk, pc, before>>

M == 1          \* the monitor being compacted

\* Mutant: an occupied workspace directly after an empty one is not seen.
HigherSkipsNext(s, w) ==
    {v \in Own(s, M) : Occupied(s, v) /\ s.idx[v] > s.idx[w] + 1}
HigherOccupied(s, w) == {v \in Own(s, M) : Occupied(s, v) /\ s.idx[v] > s.idx[w]}
IsGap(s, w) == ~ Occupied(s, w) /\ HigherOccupied(s, w) # {}

\* Mutant: the workspaces above a closed gap keep their numbers.
CloseGapOnly ==
    /\ pc = "gaps"
    /\ \E w \in Own(desk, M) :
         /\ IsGap(desk, w)
         /\ \A v \in Own(desk, M) : IsGap(desk, v) => desk.idx[w] <= desk.idx[v]
         /\ LET above == {v \in Own(desk, M) : desk.idx[v] > desk.idx[w]}
                s == [desk EXCEPT !.active[M] = IF @ = w THEN Lowest(desk, above) ELSE @]
            IN  desk' = [Destroy(s, {w}) EXCEPT !.next[M] = IF @ > 0 THEN @ - 1 ELSE @]
    /\ UNCHANGED <<pc, before>>

\* One turn of the outer while loop: the first gap of the list is closed.  A
\* monitor that showed it shows the next workspace instead.
CloseGap ==
    /\ pc = "gaps"
    /\ \E w \in Own(desk, M) :
         /\ IsGap(desk, w)
         /\ \A v \in Own(desk, M) : IsGap(desk, v) => desk.idx[w] <= desk.idx[v]
         /\ LET above == {v \in Own(desk, M) : desk.idx[v] > desk.idx[w]}
                s == [desk EXCEPT !.active[M] = IF @ = w THEN Lowest(desk, above) ELSE @]
            IN  desk' = [Destroy(s, {w}) EXCEPT
                           !.idx = [v \in Ws |-> IF v \in above THEN desk.idx[v] - 1
                                                 ELSE @[v]],
                           !.next[M] = IF @ > 0 THEN @ - 1 ELSE @]
    /\ UNCHANGED <<pc, before>>

\* The loop ends with a pass that changes nothing.
GapsDone ==
    /\ pc = "gaps" /\ \A w \in Own(desk, M) : ~ IsGap(desk, w)
    /\ pc' = "trim"
    /\ UNCHANGED <<desk, before>>

\* The two workspaces with the highest numbers
LastTwo(s) == LET last == Highest(s, Own(s, M))
              IN  <<Highest(s, Own(s, M) \ {last}), last>>
Trimmable(s) == /\ Cardinality(Own(s, M)) >= 2
                /\ \A i \in 1..2 : ~ Occupied(s, LastTwo(s)[i])

\* One turn of the second loop: of two empty workspaces at the end one goes.
Trim ==
    LET last == LastTwo(desk)[2]
        s == [desk EXCEPT !.active[M] = IF @ = last THEN LastTwo(desk)[1] ELSE @]
    IN  /\ pc = "trim" /\ Trimmable(desk)
        /\ desk' = [Destroy(s, {last}) EXCEPT !.next[M] = IF @ > 0 THEN @ - 1 ELSE @]
        /\ UNCHANGED <<pc, before>>

TrimDone ==
    /\ pc = "trim" /\ ~ Trimmable(desk)
    /\ pc' = "done"
    /\ UNCHANGED <<desk, before>>

Blocks == SetToSeq(Ws)
Windows == SetToSeq(Client)

\* A list of any length; every workspace is empty, or has a tile, or a window
\* that is fullscreen on it.  Any of them may be shown, any other may be the
\* one shown before.  Which block is which workspace makes no difference.
CompactInit ==
    \E n \in 1..Cardinality(Ws) :
    LET list == SubSeq(Blocks, 1, n)
        at(w) == Pos(list, w)
        user(c) == {w \in ToSet(list) : at(w) = Pos(Windows, c)}
    IN
    \E tiled, bound \in SUBSET ToSet(list) :
    \E shown \in ToSet(list), last \in ToSet(list) \cup {NoWs} :
      LET home(w) == Windows[at(w)]
          tile(c) == user(c) \cap tiled # {}
          full(c) == user(c) \cap bound # {}
      IN  /\ tiled \cap bound = {} /\ last # shown
          /\ desk =
               [owner |-> [w \in Ws |-> IF w \in ToSet(list) THEN M ELSE NoMon],
                idx |-> [w \in Ws |-> IF w \in ToSet(list) THEN at(w) - 1 ELSE 0],
                next |-> [m \in Mon |-> Len(list)],
                active |-> [m \in Mon |-> shown],
                prev |-> [m \in Mon |-> last],
                lit |-> [m \in Mon |-> TRUE],
                row |-> [w \in Ws |-> IF w \in tiled THEN <<home(w)>> ELSE <<>>],
                focused |-> [w \in Ws |-> IF w \in tiled THEN home(w) ELSE NoClient],
                col |-> [c \in Client |-> IF tile(c) THEN CHOOSE w \in user(c) : TRUE
                                          ELSE NoWs],
                fs_ws |-> [c \in Client |-> IF full(c) THEN CHOOSE w \in user(c) : TRUE
                                            ELSE NoWs],
                mon |-> [c \in Client |-> IF tile(c) \/ full(c) THEN M ELSE NoMon],
                full |-> [c \in Client |-> full(c)],
                float |-> [c \in Client |-> FALSE],
                clients |-> SelectSeq(Windows, LAMBDA c : tile(c) \/ full(c)),
                fstack |-> SelectSeq(Windows, LAMBDA c : tile(c) \/ full(c)),
                kb |-> NoClient, selmon |-> M]
          /\ before = desk /\ pc = "gaps"

CompactNext == CloseGap \/ GapsDone \/ Trim \/ TrimDone

\* The call runs to its end without interruption.
CompactSpec == CompactInit /\ [][CompactNext]_cvars /\ WF_cvars(CompactNext)

-----------------------------------------------------------------------------

\* The two loops compute what Compact says in one step.
LoopsMeanCompact == pc = "done" => desk = Compact(before, M)

\* The call ends, with a list without gaps.
EndsTidy == <>(pc = "done" /\ Tidy(desk, M))
=============================================================================
