---------------------------- MODULE BuildIntervals ----------------------------
(***************************************************************************)
(* build_intervals (hindsight/history.py) as the loop it is: the snapshots *)
(* in (ts, sha) order, the facts still open, the rows emitted.  Rows of    *)
(* one (key, valid_from) share an edge id and keep the order in which they *)
(* were appended (the final sort is stable and ignores valid_to), so the   *)
(* last one is the row the store ends up with: `out' holds that one.       *)
(***************************************************************************)
EXTENDS ValidTime

VARIABLES
    snaps,    \* the snapshots handed to build_intervals
    handled,  \* those the loop has been through
    openAt,   \* open_at: key -> the second it opened, NotOpen if it is not open
    out,      \* (key, valid_from) -> valid_to of its last row, Absent if none
    done      \* the loop is over and the open facts have been flushed

vars == <<snaps, handled, openAt, out, done>>

NotOpen == 0
Absent == 0
Ids == Keys \X Times

\* What the loop starts from, on any history.
Begin ==
    /\ handled = {}
    /\ openAt = [k \in Keys |-> NotOpen]
    /\ out = [i \in Ids |-> Absent]
    /\ done = FALSE

\* A snapshot resolves something; the keys may be the versions of one package,
\* and then it may resolve none of these.
Init ==
    /\ snaps \in {S \in SUBSET Commits : IsHistory(S)}
    /\ Begin

\* Mutant: a fact that ends in the second it began is forgotten.
ClosingLater(c) == {k \in Keys : openAt[k] \in 1 .. c.ts - 1 /\ k \notin c.entries}

\* The open facts that snapshot c no longer resolves.
Closing(c) == {k \in Keys : openAt[k] # NotOpen /\ k \notin c.entries}

\* Mutant: open_at keeps the facts that were closed.
HandleWithoutPop(c) ==
    /\ c \in snaps \ handled
    /\ \A d \in snaps \ handled : ~Before(d, c)
    /\ handled' = handled \union {c}
    /\ out' = [i \in Ids |->
                IF i[1] \in Closing(c) /\ openAt[i[1]] = i[2] THEN c.ts ELSE out[i]]
    /\ openAt' = [k \in Keys |->
                    IF k \in c.entries /\ openAt[k] = NotOpen THEN c.ts ELSE openAt[k]]
    /\ UNCHANGED <<snaps, done>>

\* One turn of the loop: close what is gone, then open what is new.
HandleSnapshot(c) ==
    /\ c \in snaps \ handled
    /\ \A d \in snaps \ handled : ~Before(d, c)
    /\ handled' = handled \union {c}
    /\ out' = [i \in Ids |->
                IF i[1] \in Closing(c) /\ openAt[i[1]] = i[2] THEN c.ts ELSE out[i]]
    /\ openAt' = [k \in Keys |->
                    IF k \notin c.entries THEN NotOpen
                    ELSE IF openAt[k] = NotOpen THEN c.ts ELSE openAt[k]]
    /\ UNCHANGED <<snaps, done>>

\* What the newest snapshot still resolves is open for ever.
Flush ==
    /\ handled = snaps
    /\ ~done
    /\ out' = [i \in Ids |-> IF openAt[i[1]] = i[2] THEN SENTINEL ELSE out[i]]
    /\ done' = TRUE
    /\ UNCHANGED <<snaps, handled, openAt>>

Next == (\E c \in snaps : HandleSnapshot(c)) \/ Flush

Spec == Init /\ [][Next]_vars

-----------------------------------------------------------------------------

TypeOK ==
    /\ handled \subseteq snaps
    /\ openAt \in [Keys -> 0 .. MaxTs]
    /\ out \in [Ids -> 0 .. SENTINEL]
    /\ done \in BOOLEAN

\* The rows read as a timeline, when the loop is over.
Timeline(t) == {k \in Keys : \E f \in Times : f <= t /\ out[<<k, f>>] > t}

\* history.py's docstring: a lockfile describes the truth from the commit that
\* wrote it until the commit that changed it.  Read at any second, the emitted
\* rows are what the newest snapshot at or before it resolved.
TimelineIsHistory ==
    done => \A t \in Times : Timeline(t) = ResolvedAsOf(snaps, t)

\* The loop emits exactly the rows the declarative diff defines; everything
\* that is proved of Intervals is therefore true of build_intervals.
LoopComputesIntervals ==
    done => {[key |-> i[1], vf |-> i[2], vt |-> out[i]] :
                i \in {j \in Ids : out[j] # Absent}} = Intervals(snaps)

\* The rows of one key never overlap, so a footprint read counts a repository
\* once at any second.  They may abut: a version dropped and readopted within
\* one second leaves two rows.
FactsDoNotOverlap ==
    done => \A k \in Keys : \A f, g \in Times :
        f < g /\ out[<<k, g>>] # Absent => out[<<k, f>>] <= g
=============================================================================
