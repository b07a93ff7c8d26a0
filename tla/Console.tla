-------------------------------- MODULE Console --------------------------------
(***************************************************************************)
(* The console's read path (hindsight_web/service.py): exposure,           *)
(* blast_radius, maintainer_ranking and health, for one package and one    *)
(* instant.  app.py runs each request in a thread of a pool, and all of    *)
(* them share one Console and its caches.  A request is a sequence of      *)
(* reads; the dataset grows, and other threads write the caches, between   *)
(* any two of them and between the reply to a read and its use.            *)
(***************************************************************************)
EXTENDS Dataset, Integers, Sequences

CONSTANTS
    Threads,
    Requests,  \* the kinds of request that are made
    CacheTtl,  \* Console.cache_ttl, in ticks of the clock
    MaxTime    \* bound: ticks of the clock

ASSUME ConsoleAssumption ==
    /\ Requests \subseteq {"exposure", "blast", "ranking", "health"}
    /\ CacheTtl \in Nat \ {0}
    /\ MaxTime \in Nat

VARIABLES
    clock,
    cache,    \* _repo_count, _mark_count and _repos, and when each was stored
    ranking,  \* when _rank_cache was filled for the instant, or Never
    call,     \* the request each thread is at
    seen      \* ghost: what was listed and marked as each tick ended

vars == <<dataset, clock, cache, ranking, call, seen>>

\* A count is kept as the set it counts; {} is stored as None.
Cached == {"repos", "marks", "directory"}
Now(what) == IF what = "marks" THEN marked ELSE listed

Never == -1

\* The reads of a request, in the order of its code.  "counted" is the return
\* of dataset_counts, which looks at both attributes again.
Coverage == <<"repos", "marks", "counted">>
Exposure == Coverage \o <<"node", "rows", "directory">>
Reads(kind) ==
    CASE kind = "exposure" -> Exposure
      [] kind = "blast"    -> Exposure \o <<"owners">> \o Coverage
      [] kind = "ranking"  -> <<"rank">>
      [] kind = "health"   -> <<"directory">> \o Coverage

NoReply == [tag |-> "none", got |-> {}]
Reply(set) == [tag |-> "reply", got |-> set]
Hit == [tag |-> "hit", got |-> {}]

\* note is what the answer claims, as far as it has been decided; drawn is the
\* second reading of coverage that blast_radius makes.
NoCall == [kind |-> "none", step |-> 1, reply |-> NoReply, note |-> "none",
           exists |-> FALSE, found |-> FALSE, directory |-> {}, drawn |-> "none",
           atStart |-> [time |-> 0, covered |-> {}]]

Busy(t) == call[t].kind # "none" /\ call[t].step <= Len(Reads(call[t].kind))
Answered(t) == call[t].kind # "none" /\ ~Busy(t)
At(t, read) == Busy(t) /\ Reads(call[t].kind)[call[t].step] = read

-----------------------------------------------------------------------------
(* The verdicts.                                                           *)

\* Mutant: repositories alone are taken for coverage.
ReasonByRepos(repos, marks) == IF repos = {} THEN "empty_dataset" ELSE "none"

\* coverage_of.
Reason(repos, marks) ==
    IF repos = {} THEN "empty_dataset"
    ELSE IF marks = {} THEN "no_ingested_history"
    ELSE "none"

Refusals == {"empty_dataset", "no_ingested_history"}

\* The note of exposure, decided when the directory has been read.
Note(c) ==
    IF c.note \in Refusals THEN c.note
    ELSE IF ~c.exists THEN "never"
    ELSE IF ~c.found THEN "negative"
    ELSE "none"

\* Thread t is through with its read, and has made c of it.
Advance(t, c) == call' = [call EXCEPT ![t] = [c EXCEPT !.step = @ + 1, !.reply = NoReply]]

-----------------------------------------------------------------------------
(* Reads through a cache: repositories and each half of dataset_counts.    *)

\* Mutant: what has been read once is never read again.
ReadOnce(what) == cache[what].at # Never

\* Something is cached, and it is inside its window.
Fresh(what) == cache[what].got # {} /\ clock - cache[what].at < CacheTtl

\* The lookup, and its refresh argument.
Usable(t, what) == call[t].kind # "health" /\ Fresh(what)

LookUp(t, what) ==
    /\ At(t, what) /\ call[t].reply = NoReply
    /\ call' = [call EXCEPT ![t].reply = IF Usable(t, what) THEN Hit ELSE Reply(Now(what))]
    /\ UNCHANGED <<dataset, clock, cache, ranking, seen>>

\* Mutant: what is stored is dated ahead.
StoreAhead(what, got) == cache' = [cache EXCEPT ![what] = [got |-> got, at |-> clock + 1]]

\* The reply is stored, whatever has been stored since it was sent.
Store(what, got) == cache' = [cache EXCEPT ![what] = [got |-> got, at |-> clock]]

StoreCount(t, what) ==
    /\ At(t, what) /\ what # "directory" /\ call[t].reply.tag = "reply"
    /\ Store(what, call[t].reply.got)
    /\ Advance(t, call[t])
    /\ UNCHANGED <<dataset, clock, ranking, seen>>

CountFound(t, what) ==
    /\ At(t, what) /\ what # "directory" /\ call[t].reply = Hit
    /\ Advance(t, call[t])
    /\ UNCHANGED <<dataset, clock, cache, ranking, seen>>

\* What dataset_counts returns is what the attributes hold by then.
Counted == Reason(cache["repos"].got, cache["marks"].got)

ReturnCounts(t) ==
    /\ At(t, "counted")
    /\ Advance(t, IF call[t].step > Len(Exposure)
                  THEN [call[t] EXCEPT !.drawn = Counted]
                  ELSE [call[t] EXCEPT !.note = Counted])
    /\ UNCHANGED <<dataset, clock, cache, ranking, seen>>

WithDirectory(t, got) ==
    IF call[t].kind = "health" THEN call[t]
    ELSE [call[t] EXCEPT !.directory = got, !.note = Note(call[t]),
                         !.exists = FALSE, !.found = FALSE]

StoreDirectory(t) ==
    /\ At(t, "directory") /\ call[t].reply.tag = "reply"
    /\ Store("directory", call[t].reply.got)
    /\ Advance(t, WithDirectory(t, call[t].reply.got))
    /\ UNCHANGED <<dataset, clock, ranking, seen>>

\* The directory that was fresh is returned as it is by now; if another thread
\* has stored None meanwhile, iterating over it fails.
DirectoryFound(t) ==
    /\ At(t, "directory") /\ call[t].reply = Hit
    /\ IF cache["directory"].got # {}
       THEN Advance(t, WithDirectory(t, cache["directory"].got))
       ELSE call' = [call EXCEPT ![t] = NoCall]
    /\ UNCHANGED <<dataset, clock, cache, ranking, seen>>

-----------------------------------------------------------------------------
(* Reads of the request's own.                                             *)

ReadNode(t) ==
    /\ At(t, "node")
    /\ Advance(t, [call[t] EXCEPT !.exists = known])
    /\ UNCHANGED <<dataset, clock, cache, ranking, seen>>

\* Mutant: only the rows of repositories in the cached directory are counted.
ReadRowsOfDirectory(t) ==
    /\ At(t, "rows")
    /\ Advance(t, [call[t] EXCEPT !.found =
            call[t].exists /\ resolved \intersect cache["directory"].got # {}])
    /\ UNCHANGED <<dataset, clock, cache, ranking, seen>>

\* Rows are asked for only if the package has a node.  What a row cap cuts off is
\* not in question here: a read that was cut is not empty.
ReadRows(t) ==
    /\ At(t, "rows")
    /\ Advance(t, [call[t] EXCEPT !.found = call[t].exists /\ resolved # {}])
    /\ UNCHANGED <<dataset, clock, cache, ranking, seen>>

\* The maintainers a drawing adds.
ReadOwners(t) ==
    /\ At(t, "owners")
    /\ Advance(t, call[t])
    /\ UNCHANGED <<dataset, clock, cache, ranking, seen>>

\* maintainer_ranking: the sweep over the accounts, and the cache of its result.
Sweep(t) ==
    /\ At(t, "rank") /\ call[t].reply = NoReply /\ ranking = Never
    /\ call' = [call EXCEPT ![t].reply = Reply({})]
    /\ UNCHANGED <<dataset, clock, cache, ranking, seen>>

StoreRanking(t) ==
    /\ At(t, "rank") /\ call[t].reply.tag = "reply"
    /\ ranking' = clock
    /\ Advance(t, call[t])
    /\ UNCHANGED <<dataset, clock, cache, seen>>

\* The ranking of another instant is stored, and takes the place of this one.
Evict ==
    /\ ranking # Never
    /\ ranking' = Never
    /\ UNCHANGED <<dataset, clock, cache, call, seen>>

RankingFound(t) ==
    /\ At(t, "rank") /\ call[t].reply = NoReply /\ ranking # Never
    /\ Advance(t, call[t])
    /\ UNCHANGED <<dataset, clock, cache, ranking, seen>>

-----------------------------------------------------------------------------

Ask(t, kind) ==
    /\ ~Busy(t)
    /\ call' = [call EXCEPT ![t] = [NoCall EXCEPT
                    !.kind = kind, !.atStart = [time |-> clock, covered |-> covered]]]
    /\ UNCHANGED <<dataset, clock, cache, ranking, seen>>

\* The node refuses a query: a 502, and no answer.
Fail(t) ==
    /\ Busy(t)
    /\ call' = [call EXCEPT ![t] = NoCall]
    /\ UNCHANGED <<dataset, clock, cache, ranking, seen>>

\* A tick is long against a read: none is under way as it ends.
Tick ==
    /\ clock < MaxTime
    /\ \A t \in Threads : call[t].reply = NoReply
    /\ clock' = clock + 1
    /\ seen' = [seen EXCEPT ![clock] =
                    [listed |-> listed, marked |-> marked]]
    /\ UNCHANGED <<dataset, cache, ranking, call>>

Init ==
    /\ EmptyDataset
    /\ clock = 0
    /\ cache = [what \in Cached |-> [got |-> {}, at |-> Never]]
    /\ ranking = Never
    /\ call = [t \in Threads |-> NoCall]
    /\ seen = [t \in 0 .. MaxTime |-> [listed |-> {}, marked |-> {}]]

Serve(t) ==
    \/ \E what \in Cached : LookUp(t, what) \/ StoreCount(t, what) \/ CountFound(t, what)
    \/ ReturnCounts(t)
    \/ StoreDirectory(t)
    \/ DirectoryFound(t)
    \/ ReadNode(t)
    \/ ReadRows(t)
    \/ ReadOwners(t)
    \/ Sweep(t) \/ StoreRanking(t)
    \/ RankingFound(t)
    \/ Fail(t)

Next ==
    \/ GrowByOne /\ UNCHANGED <<clock, cache, ranking, call, seen>>
    \/ \E t \in Threads : Serve(t) \/ \E kind \in Requests : Ask(t, kind)
    \/ Evict
    \/ Tick

Spec == Init /\ [][Next]_vars

-----------------------------------------------------------------------------

TypeOK ==
    /\ clock \in 0 .. MaxTime
    /\ \A what \in Cached :
        cache[what].got \subseteq Now(what) /\ cache[what].at \in Never .. clock
    /\ ranking \in Never .. clock
    /\ \A t \in Threads :
        /\ call[t].kind \in Requests \union {"none"}
        /\ call[t].step \in 1 .. Len(Exposure) + 5
        /\ call[t].directory \subseteq listed

\* Ticks that ended CacheTtl or more before thread t was asked.
LongBefore(t) == {i \in 0 .. MaxTime : call[t].atStart.time - i >= CacheTtl}

\* service.py: every repository is named in every answer, but for one that was
\* ingested into a running console less than cache_ttl ago, however the
\* threads' reads and stores of the directory fall.
EveryRepositoryIsNamed ==
    \A t \in Threads : Answered(t) /\ call[t].kind \in {"exposure", "blast"} =>
        \A i \in LongBefore(t) : seen[i].listed \subseteq call[t].directory

\* repositories: an empty read is not cached, so a refusal, of an answer or of
\* the drawing of one, is never about an emptiness that had ended a tick before
\* the question was asked, though threads store what they read in another order
\* than they read it.
RefusalIsRecent ==
    \A t \in Threads : call[t].atStart.time > 0 =>
        LET before == seen[call[t].atStart.time - 1]
            reasons == {call[t].note, call[t].drawn}
        IN  /\ "empty_dataset" \in reasons => before.listed = {}
            /\ "no_ingested_history" \in reasons => before.marked = {}

\* coverage.py: no verdict from a dataset that holds nothing to be absent from.
NoVerdictFromNothing ==
    \A t \in Threads :
        call[t].note \in {"never", "negative"} => listed # {} /\ marked # {}

\* A refusal is recent, whatever thread stored the emptiness it rests on, and
\* there is no verdict where there is nothing.
RefusalsAreRight == TypeOK /\ RefusalIsRecent /\ NoVerdictFromNothing

\* A negative is a true one of every repository whose history had been
\* ingested past the instant when the question was asked.
NegativeHoldsWhereCovered ==
    \A t \in Threads :
        call[t].note \in {"never", "negative"} => call[t].atStart.covered \intersect truth = {}

\* cache_ttl: every cached answer is a statement about when the console last
\* looked, and this is how long that is allowed to go unsaid.
RankingIsWithinTtl ==
    [][\A t \in Threads : RankingFound(t) => clock - ranking < CacheTtl]_vars
=============================================================================
