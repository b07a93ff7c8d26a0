------------------------------- MODULE McpServer -------------------------------
(***************************************************************************)
(* The agent's tools (hindsight_mcp/service.py): exposure_asof,            *)
(* blast_radius, resolve_id and maintainer_reach.  A call is a sequence of *)
(* separate reads, with the dataset growing between any two of them; the   *)
(* two coverage counts are cached between calls.  An agent awaits each     *)
(* answer before it asks again.                                            *)
(***************************************************************************)
EXTENDS Dataset, Integers, Sequences

CONSTANTS
    MaxRows,   \* Limits.max_rows
    CacheTtl,  \* Hindsight.cache_ttl, in ticks of the clock
    MaxTime    \* bound: ticks of the clock

ASSUME McpAssumption ==
    /\ IsFiniteSet(Repos)
    /\ MaxRows \in Nat \ {0}
    /\ CacheTtl \in Nat
    /\ MaxTime \in Nat

VARIABLES
    clock,
    cache,   \* the last count read of "repos" and "marks", and when
    call,    \* the call under way
    seen     \* ghost: how many repositories and watermarks there were as a tick ended

vars == <<dataset, clock, cache, call, seen>>
server == <<clock, cache, call, seen>>

Counts == {"repos", "marks"}
\* blast_radius makes the reads of exposure_asof and gives the same verdicts.
Tools == {"exposure", "resolve", "reach"}

\* The reads of a tool, in the order of its code.
Reads(tool) ==
    CASE tool = "resolve" -> <<"node", "repos", "marks">>
      [] tool = "reach"   -> <<"repos", "marks", "node", "owned", "rows">>
      [] OTHER            -> <<"repos", "marks", "node", "rows">>

Count(which) == IF which = "repos" THEN Cardinality(listed) ELSE Cardinality(marked)

NoCall == [tool |-> "none", step |-> 1, repos |-> 0, marks |-> 0,
           exists |-> FALSE, read |-> {}, rows |-> {}, cut |-> FALSE, note |-> "none",
           atStart |-> [time |-> 0, covered |-> {}, repos |-> 0, marks |-> 0]]

Asking == call.tool # "none" /\ call.step <= Len(Reads(call.tool))
Answered == call.tool # "none" /\ ~Asking
NextRead == Reads(call.tool)[call.step]

-----------------------------------------------------------------------------
(* The cached counts.                                                      *)

\* Mutant: a count of nothing is kept.
UsableIfEmpty(which) == cache[which].at >= 0 /\ clock - cache[which].at < CacheTtl

\* Mutant: a count is kept for ever.
UsableForEver(which) == cache[which].count # 0

\* A count of nothing is never taken from the cache.
Usable(which) == cache[which].count # 0 /\ clock - cache[which].at < CacheTtl

\* Mutant: a repository node is taken for an ingested history.
ReasonByRepos(repos, marks) == IF repos = 0 THEN "empty_dataset" ELSE "none"

\* coverage_of, on the two counts as the server holds them.
Reason(repos, marks) ==
    IF repos = 0 THEN "empty_dataset"
    ELSE IF marks = 0 THEN "no_ingested_history"
    ELSE "none"

-----------------------------------------------------------------------------
(* What the node may reply to a read of `rows' under a page size: all of   *)
(* them (more than it was asked for included), or fewer with a cursor left *)
(* open or with a mark that it stopped short.                              *)

Replies(rows) ==
    {r \in [rows : SUBSET rows, cursor : BOOLEAN, truncated : BOOLEAN] :
        r.rows # rows => r.cursor \/ r.truncated}

\* Mutant: what the engine says of itself is not looked at.
TruncatedByCursor(reply) == reply.cursor \/ Cardinality(reply.rows) > MaxRows

\* Mutant: a reply of more rows than were asked for is not taken for short.
TruncatedByEngine(reply) == reply.cursor \/ reply.truncated

Truncated(reply) ==
    reply.cursor \/ reply.truncated \/ Cardinality(reply.rows) > MaxRows

\* The rows kept of a reply: no more than the page.
Kept(reply) ==
    {k \in SUBSET reply.rows :
        Cardinality(k) = IF Cardinality(reply.rows) < MaxRows
                         THEN Cardinality(reply.rows) ELSE MaxRows}

-----------------------------------------------------------------------------
(* The calls.                                                              *)

\* What the prose of an answer claims, from what the call has read: of a node
\* that is not there, exposure_asof that no repository has "ever resolved it",
\* and resolve_id only that the name has "never been ingested".
Note(c) ==
    IF Reason(c.repos, c.marks) # "none" THEN Reason(c.repos, c.marks)
    ELSE IF c.cut THEN "unverified"
    ELSE IF c.tool = "resolve" /\ ~c.exists THEN "never ingested"
    ELSE IF c.tool = "exposure" /\ ~c.exists THEN "never"
    ELSE IF c.tool = "exposure" /\ c.rows = {} THEN "negative"
    ELSE "none"

\* The call has done its next read; the note is decided after the last one.
Advance(c) ==
    LET d == [c EXCEPT !.step = @ + 1]
    IN  call' = IF d.step > Len(Reads(d.tool)) THEN [d EXCEPT !.note = Note(d)] ELSE d

Ask(tool) ==
    /\ ~Asking
    /\ call' = [NoCall EXCEPT !.tool = tool,
                    !.atStart = [time |-> clock, covered |-> covered,
                                 repos |-> Cardinality(listed), marks |-> Cardinality(marked)]]
    /\ UNCHANGED <<dataset, clock, cache, seen>>

\* One half of Hindsight.coverage: the count as cached, or read and cached.
ReadCount(which) ==
    /\ Asking /\ NextRead = which
    /\ LET count == IF Usable(which) THEN cache[which].count ELSE Count(which)
       IN  Advance([call EXCEPT ![which] = count])
    /\ cache' = IF Usable(which) THEN cache
                ELSE [cache EXCEPT ![which] = [count |-> Count(which), at |-> clock]]
    /\ UNCHANGED <<dataset, clock, seen>>

\* Does the graph hold the node the question is anchored on?
ReadNode ==
    /\ Asking /\ NextRead = "node"
    /\ Advance([call EXCEPT !.exists = known])
    /\ UNCHANGED <<dataset, clock, cache, seen>>

\* The packages of an account: all of them, or a page.
ReadOwned ==
    /\ Asking /\ NextRead = "owned"
    /\ \E cut \in BOOLEAN : Advance([call EXCEPT !.cut = cut])
    /\ UNCHANGED <<dataset, clock, cache, seen>>

ReadRows ==
    /\ Asking /\ NextRead = "rows"
    /\ \E reply \in Replies(resolved) : \E rows \in Kept(reply) :
        Advance([call EXCEPT !.read = resolved, !.rows = rows,
                             !.cut = @ \/ Truncated(reply)])
    /\ UNCHANGED <<dataset, clock, cache, seen>>

\* A read fails for good: the agent gets an error, and no answer.
Fail ==
    /\ Asking
    /\ call' = NoCall
    /\ UNCHANGED <<dataset, clock, cache, seen>>

Tick ==
    /\ clock < MaxTime
    /\ clock' = clock + 1
    /\ seen' = [seen EXCEPT ![clock] = [c \in Counts |-> Count(c)]]
    /\ UNCHANGED <<dataset, cache, call>>

Init ==
    /\ EmptyDataset
    /\ clock = 0
    /\ cache = [c \in Counts |-> [count |-> 0, at |-> -1]]
    /\ call = NoCall
    /\ seen = [t \in 0 .. MaxTime |-> [c \in Counts |-> 0]]

Next ==
    \/ Grow /\ UNCHANGED server
    \/ \E tool \in Tools : Ask(tool)
    \/ \E which \in Counts : ReadCount(which)
    \/ ReadNode
    \/ ReadOwned
    \/ ReadRows
    \/ Fail
    \/ Tick

Spec == Init /\ [][Next]_vars

-----------------------------------------------------------------------------

TypeOK ==
    /\ clock \in 0 .. MaxTime
    /\ \A c \in Counts :
        /\ cache[c].count \in 0 .. Cardinality(Repos)
        /\ cache[c].at \in -1 .. clock
    /\ call.tool \in Tools \union {"none"}
    /\ call.rows \subseteq call.read
    /\ Cardinality(call.rows) <= MaxRows

\* coverage: an agent session that outlives an ingest is not stuck refusing
\* questions the graph can now answer.  A refusal is about the dataset as it
\* was after the question was asked, never about a cached emptiness.
RefusalIsCurrent ==
    Answered => /\ call.note = "empty_dataset" => call.atStart.repos = 0
                /\ call.note = "no_ingested_history" => call.atStart.marks = 0

\* Ticks that ended before the question was asked, CacheTtl or more.
LongBefore == {t \in 0 .. MaxTime : t < call.atStart.time /\ call.atStart.time - t >= CacheTtl}

\* coverage: the counts an answer quotes may be old, but not older than the
\* cache's lifetime: the graph held no more that long before the question.
CountsWithinTtl ==
    Answered => \A t \in LongBefore : \A c \in Counts : call[c] >= seen[t][c]

\* What an answer says that is not there.
Negatives == {"never ingested", "never", "negative"}

\* coverage.py: no verdict from a dataset that holds nothing to be absent from.
NoVerdictFromNothing == call.note \in Negatives => listed # {} /\ marked # {}

\* What an emptiness and a count may say: a refusal is about the dataset of the
\* question and not of a cache, a count is within the cache's lifetime, and there
\* is no verdict where there is nothing.
RefusalsAreRight == TypeOK /\ RefusalIsCurrent /\ CountsWithinTtl /\ NoVerdictFromNothing

\* envelope.py: an answer that left out what the graph held says so.
FloorIsLabelled ==
    Answered /\ call.rows # call.read =>
        call.note \in {"unverified", "empty_dataset", "no_ingested_history"}

\* A negative is a true one of every repository whose history had been
\* ingested past the instant when the question was asked, whatever the ingest
\* wrote between the reads of the call.
NegativeHoldsWhereCovered ==
    call.note \in Negatives => call.atStart.covered \intersect truth = {}

\* coverage.py: a repository whose history is missing reads as not resolving
\* anything, which is a gap in coverage and not a negative result.  Said of the
\* two sentences of exposure_asof, which are about repositories; that a name was
\* never ingested is true of such a repository's history too.
MissingHistoryIsNotANegative ==
    call.note \in {"never", "negative"} => (listed \ marked) \intersect truth = {}
=============================================================================
