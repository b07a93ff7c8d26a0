-------------------------------- MODULE Ingest --------------------------------
(***************************************************************************)
(* The bitemporal writer: hindsight/graphbuild.py turns the walked history *)
(* of some repositories into rows, hindsight/ingest.py plans the rows      *)
(* against the watermarks it reads, upserts them batch by batch into an    *)
(* append-only graph, and writes the watermarks last.                      *)
(*                                                                         *)
(* git is the environment: committers add commits, and a walk sees a       *)
(* prefix in time of what is there (a fetch may have failed, --until may   *)
(* have cut it).  The assumptions on it that the code needs and does not   *)
(* check are conjuncts of Commit and SerialStart; IngestHazards drops them *)
(* one at a time.                                                          *)
(***************************************************************************)
EXTENDS ValidTime, FiniteSets

CONSTANTS
    Repos, Packages, Maintainers, Writers,
    PackageOf,    \* the package a key is a version of
    Maintains,    \* curated <<maintainer, package>> pairs
    Batch,        \* rows per query, MAX_BATCH in the code
    MaxClock,     \* bound: seconds the transaction clock can tell apart
    MaxCrashes    \* bound: runs that die

ASSUME IngestAssumption ==
    /\ PackageOf \in [Keys -> Packages]
    /\ Maintains \subseteq Maintainers \X Packages
    /\ Batch \in Nat \ {0}
    /\ MaxClock \in Nat
    /\ MaxCrashes \in Nat

VARIABLES
    git,       \* commits of each repository that touch a lockfile
    seen,      \* newest second of each repository any build has walked
    nodes,     \* nodes in the store
    links,     \* VERSION_OF and MAINTAINS edges in the store
    validTo,   \* valid_to of each RESOLVES edge, Absent if there is no edge
    txFrom,    \* tx_from of each RESOLVES edge
    mark,      \* last_commit_ts of each repository's watermark node, or None
    pending,   \* rows each writer has still to send, by step
    tx,        \* the tx_from each writer stamps
    clock,     \* wall clock, as int(time.time()) reads it
    crashes

store == <<nodes, links, validTo, txFrom, mark>>
vars == <<git, seen, store, pending, tx, clock, crashes>>

Absent == 0
None == -1
Edges == Repos \X Keys \X Times

RepoNode(r) == <<"repo", r>>
PackageNode(p) == <<"package", p>>
VersionNode(k) == <<"version", k>>
MaintainerNode(m) == <<"maintainer", m>>
VersionOf(k) == <<VersionNode(k), PackageNode(PackageOf[k])>>

\* The write steps of Ingestor.plan, in order; the watermarks come last.
NodeSteps == 1 .. 4      \* repo, package, version, maintainer nodes
LinkSteps == 5 .. 6      \* VERSION_OF, MAINTAINS edges
ResolvesStep == 7
WatermarkStep == 8
Steps == 1 .. 8

NoWork == [i \in Steps |-> {}]
Idle(w) == pending[w] = NoWork

-----------------------------------------------------------------------------
(* The environment.                                                        *)

\* A commit lands.  No build has walked this second yet, and it resolves
\* something: the two assumptions behind "already closed means immutable".
Commit(r) ==
    /\ \E c \in Commits :
        /\ c.ts > seen[r]
        /\ c.entries # {}
        /\ IsHistory(git[r] \union {c})
        /\ git' = [git EXCEPT ![r] = @ \union {c}]
    /\ UNCHANGED <<seen, store, pending, tx, clock, crashes>>

Tick ==
    /\ clock < MaxClock
    /\ clock' = clock + 1
    /\ UNCHANGED <<git, seen, store, pending, tx, crashes>>

-----------------------------------------------------------------------------
(* build_rowsets, stale_repos, filter_by_watermark and Ingestor.plan.      *)

\* RESOLVES rows of a walk: what build_intervals made of it.
ResolvesRows(walk) ==
    UNION {{[repo |-> r, key |-> i.key, vf |-> i.vf, vt |-> i.vt] :
                i \in Intervals(Snapshots(walk[r]))} : r \in DOMAIN walk}

WalkedTo(walk, r) == LastTs(Snapshots(walk[r]))

\* Mutant: no build is ever taken for stale.
NoStaleRepos(walk) == {}

\* A build that saw less history than the store holds is dropped wholesale.
StaleRepos(walk) == {r \in DOMAIN walk : WalkedTo(walk, r) < mark[r]}

\* Mutant: a fact that opened by the watermark is never sent again.
FilterByOpening(rows) == {row \in rows : row.vf > mark[row.repo]}

\* Mutant: every row is sent by every run.
NoFilter(rows) == rows

\* An interval that had closed by the watermark is final on the server.
FilterByWatermark(rows) == {row \in rows : row.vt > mark[row.repo]}

\* Mutant: the watermark is where this run's walk ended.
WatermarkOfThisWalk(walk, r) == WalkedTo(walk, r)

\* Mutant: off by one, the first second not walked.
WatermarkPastWalk(walk, r) ==
    IF WalkedTo(walk, r) > mark[r] THEN WalkedTo(walk, r) + 1 ELSE mark[r]

\* Mutant: one watermark for the whole build.
WatermarkOfBuild(walk, r) ==
    LET lasts == {WalkedTo(walk, q) : q \in DOMAIN walk}
        last  == CHOOSE t \in lasts : \A u \in lasts : u <= t
    IN  IF last > mark[r] THEN last ELSE mark[r]

WatermarkAfter(walk, r) ==
    IF WalkedTo(walk, r) > mark[r] THEN WalkedTo(walk, r) ELSE mark[r]

Plan(walk) ==
    LET rows     == ResolvesRows(walk)
        stale    == StaleRepos(walk)
        keys     == {row.key : row \in rows}
        packages == {PackageOf[k] : k \in keys}
    IN  <<  {RepoNode(r) : r \in DOMAIN walk \ stale},
            {PackageNode(p) : p \in packages},
            {VersionNode(k) : k \in keys},
            {MaintainerNode(m) : m \in Maintainers},
            {VersionOf(k) : k \in keys},
            {<<MaintainerNode(x[1]), PackageNode(x[2])>> :
                x \in {y \in Maintains : y[2] \in packages}},
            FilterByWatermark({row \in rows : row.repo \notin stale}),
            {[repo |-> r, last |-> WatermarkAfter(walk, r)] : r \in DOMAIN walk} >>

\* hindsight-ingest collects a walk of some repositories and plans it.
Begin(w, walk) ==
    /\ Idle(w)
    /\ pending' = [pending EXCEPT ![w] = Plan(walk)]
    /\ tx' = [tx EXCEPT ![w] = clock]
    /\ seen' = [r \in Repos |->
                    IF r \in DOMAIN walk /\ WalkedTo(walk, r) > seen[r]
                    THEN WalkedTo(walk, r) ELSE seen[r]]
    /\ UNCHANGED <<git, store, clock, crashes>>

\* Every walk is of a prefix in time of the whole history of each repository.
Start(w) ==
    \E built \in SUBSET Repos \ {{}} : \E upto \in [built -> 0 .. MaxTs] :
        Begin(w, [r \in built |-> UpTo(git[r], upto[r])])

\* One run at a time.
SerialStart(w) == (\A v \in Writers : Idle(v)) /\ Start(w)

-----------------------------------------------------------------------------
(* Ingestor.run.                                                           *)

\* Mutant: steps run in no order.
AtAnyStep(w, i) == pending[w][i] # {}

AtStep(w, i) ==
    /\ pending[w][i] # {}
    /\ \A j \in Steps : j < i => pending[w][j] = {}

Parts(rows) ==
    {part \in SUBSET rows :
        Cardinality(part) = IF Cardinality(rows) < Batch THEN Cardinality(rows) ELSE Batch}

\* Mutant: the batch offset does not advance.
SentForEver(w, i, part, acked) == pending' = pending

\* The query was applied.  If its reply is lost the same rows are sent again.
Sent(w, i, part, acked) ==
    pending' = IF acked THEN [pending EXCEPT ![w][i] = @ \ part] ELSE pending

UpsertNodes(w, acked) ==
    \E i \in NodeSteps :
        /\ AtStep(w, i)
        /\ \E part \in Parts(pending[w][i]) :
            /\ nodes' = nodes \union part
            /\ Sent(w, i, part, acked)
        /\ UNCHANGED <<git, seen, links, validTo, txFrom, mark, tx, clock, crashes>>

\* edge_upsert MATCHes both endpoints first: a row without them writes nothing.
UpsertLinks(w, acked) ==
    \E i \in LinkSteps :
        /\ AtStep(w, i)
        /\ \E part \in Parts(pending[w][i]) :
            /\ links' = links \union {l \in part : l[1] \in nodes /\ l[2] \in nodes}
            /\ Sent(w, i, part, acked)
        /\ UNCHANGED <<git, seen, nodes, validTo, txFrom, mark, tx, clock, crashes>>

\* The row of `part' that writes edge e, if there is one.
RowsFor(part, e) ==
    {row \in part :
        /\ <<row.repo, row.key, row.vf>> = e
        /\ RepoNode(row.repo) \in nodes
        /\ VersionNode(row.key) \in nodes}

UpsertResolves(w, acked) ==
    /\ AtStep(w, ResolvesStep)
    /\ \E part \in Parts(pending[w][ResolvesStep]) :
        /\ validTo' = [e \in Edges |->
                        IF RowsFor(part, e) # {}
                        THEN (CHOOSE row \in RowsFor(part, e) : TRUE).vt
                        ELSE validTo[e]]
        /\ txFrom' = [e \in Edges |->
                        IF RowsFor(part, e) # {} THEN tx[w] ELSE txFrom[e]]
        /\ Sent(w, ResolvesStep, part, acked)
    /\ UNCHANGED <<git, seen, nodes, links, mark, tx, clock, crashes>>

WriteWatermarks(w, acked) ==
    /\ AtStep(w, WatermarkStep)
    /\ \E part \in Parts(pending[w][WatermarkStep]) :
        /\ mark' = [r \in Repos |->
                        IF \E m \in part : m.repo = r
                        THEN (CHOOSE m \in part : m.repo = r).last
                        ELSE mark[r]]
        /\ Sent(w, WatermarkStep, part, acked)
    /\ UNCHANGED <<git, seen, nodes, links, validTo, txFrom, tx, clock, crashes>>

Write(w, acked) ==
    \/ UpsertNodes(w, acked)
    \/ UpsertLinks(w, acked)
    \/ UpsertResolves(w, acked)
    \/ WriteWatermarks(w, acked)

\* The run dies: killed, or the client gave up after its last retry.
Crash(w) ==
    /\ ~Idle(w)
    /\ crashes < MaxCrashes
    /\ crashes' = crashes + 1
    /\ pending' = [pending EXCEPT ![w] = NoWork]
    /\ UNCHANGED <<git, seen, store, tx, clock>>

-----------------------------------------------------------------------------

Init ==
    /\ git = [r \in Repos |-> {}]
    /\ seen = [r \in Repos |-> 0]
    /\ nodes = {}
    /\ links = {}
    /\ validTo = [e \in Edges |-> Absent]
    /\ txFrom = [e \in Edges |-> 0]
    /\ mark = [r \in Repos |-> None]
    /\ pending = [w \in Writers |-> NoWork]
    /\ tx = [w \in Writers |-> 0]
    /\ clock = 0
    /\ crashes = 0

Running(w) == Write(w, TRUE) \/ Write(w, FALSE) \/ Crash(w)

Next ==
    \/ \E r \in Repos : Commit(r)
    \/ Tick
    \/ \E w \in Writers : SerialStart(w) \/ Running(w)

\* A run that is not killed keeps sending, and the client retries a query
\* until its reply comes back (or gives up, which is a crash).
Fairness == \A w \in Writers : WF_vars(Write(w, TRUE))

Spec == Init /\ [][Next]_vars /\ Fairness
-----------------------------------------------------------------------------
(* What readers rely on.                                                   *)

TypeOK ==
    /\ git \in [Repos -> SUBSET Commits]
    /\ seen \in [Repos -> 0 .. MaxTs]
    /\ validTo \in [Edges -> 0 .. SENTINEL]
    /\ txFrom \in [Edges -> 0 .. MaxClock]
    /\ mark \in [Repos -> -1 .. MaxTs]
    /\ tx \in [Writers -> 0 .. MaxClock]
    /\ clock \in 0 .. MaxClock
    /\ crashes \in 0 .. MaxCrashes

\* Ingestor.resolved_as_of: the AS-OF read of the store.
ResolvedInStore(r, t) ==
    {k \in Keys : \E f \in Times : f <= t /\ validTo[<<r, k, f>>] > t}

\* At every second a repository's watermark covers, the store answers what the
\* newest commit at that second resolved: in the middle of a run, after a run
\* that died, after a build of a stale clone, and however many commits later.
CoveredPastIsExact ==
    \A r \in Repos : \A t \in Times :
        t <= mark[r] => ResolvedInStore(r, t) = ResolvedAsOf(git[r], t)

\* A repository the store is level with is answered right at every second,
\* the ones after its last commit included: no fact that ended stays open.
PresentIsExact ==
    \A r \in Repos : mark[r] = LastTs(git[r]) =>
        \A t \in Times : ResolvedInStore(r, t) = ResolvedAsOf(git[r], t)

\* queries.py counts RESOLVES rows: at a covered second a repository reaches a
\* version by at most one edge, so no count of the footprint is doubled.
OneLiveEdge ==
    \A r \in Repos : \A k \in Keys : \A t \in Times : \A f, g \in Times :
        /\ t <= mark[r]
        /\ f <= t /\ validTo[<<r, k, f>>] > t
        /\ g <= t /\ validTo[<<r, k, g>>] > t
        => f = g

\* Every RESOLVES edge can be reached from its package: the reads that walk
\* Repo -> Version -> Package (or match only the version) see the same edges.
EveryEdgeIsAnchored ==
    \A r \in Repos : \A k \in Keys : \A f \in Times :
        validTo[<<r, k, f>>] # Absent =>
            /\ {RepoNode(r), VersionNode(k), PackageNode(PackageOf[k])} \subseteq nodes
            /\ VersionOf(k) \in links

\* ingest.py: a watermark is a high-water mark or it is nothing.
WatermarkNeverRegresses == [][\A r \in Repos : mark'[r] >= mark[r]]_vars

\* stamp_tx: a fact that had closed by the watermark keeps its bounds and the
\* transaction time of the run that closed it, whatever is ingested later.
SettledFactsAreFinal ==
    [][\A e \in Edges :
        validTo[e] # Absent /\ validTo[e] <= mark[e[1]] =>
            validTo'[e] = validTo[e] /\ txFrom'[e] = txFrom[e]]_vars

\* ingest.py's docstring: re-running an unchanged repository writes zero new
\* edges (and moves no bound of an existing one).
RerunIsIdempotent ==
    [][\A e \in Edges : mark[e[1]] = LastTs(git[e[1]]) => validTo'[e] = validTo[e]]_vars

\* A run that is not killed ends by covering all it walked.
RunCoversItsWalk ==
    \A w \in Writers : \A r \in Repos : \A t \in Times : \A n \in 0 .. MaxCrashes :
        (\E m \in pending[w][WatermarkStep] : m.repo = r /\ m.last >= t) /\ crashes = n
            ~> mark[r] >= t \/ crashes > n

\* The store is a ledger: an answer at a covered second is never revised.
Covered == INSTANCE Ledger WITH
    Answers <- {{keys} : keys \in SUBSET Keys},
    Unknown <- {},
    horizon <- [r \in Repos |-> IF mark[r] = None THEN 0 ELSE mark[r]],
    answer <- [r \in Repos |-> [t \in Times |->
                IF t <= mark[r] THEN {ResolvedInStore(r, t)} ELSE {}]]

AnswersAreWriteOnce == Covered!Spec

\* For every version and every instant the store is a dataset as the readers
\* take it to be: nothing goes away, a watermark comes after the repository's
\* node, rows after the version's, and what is covered is what git says.
ReadAt(k, t) == INSTANCE Dataset WITH
    truth    <- {r \in Repos : k \in ResolvedAsOf(git[r], t)},
    listed   <- {r \in Repos : RepoNode(r) \in nodes},
    known    <- VersionNode(k) \in nodes,
    resolved <- {r \in Repos : k \in ResolvedInStore(r, t)},
    marked   <- {r \in Repos : mark[r] # None},
    covered  <- {r \in Repos : mark[r] >= t}

ReadersSeeADataset ==
    /\ \A k \in Keys : \A t \in Times : ReadAt(k, t)!EmptyDataset
    /\ [][\A k \in Keys : \A t \in Times :
            [ReadAt(k, t)!Grow]_(ReadAt(k, t)!dataset)]_vars

=============================================================================
