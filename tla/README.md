# Hindsight in TLA+

Hindsight answers one question about the past of an organisation's
repositories: which of them had a lockfile that resolved this version of this
package at this second. It walks the lockfiles of each repository through git,
turns what they resolved into half-open facts `[valid_from, valid_to)`, upserts
the facts as `RESOLVES` edges into HydraDB, an append-only graph, and reads them
back through an MCP server (for agents) and a web console (for people). Every
answer is only worth what its *negative* is worth: "nobody had it".

The modules here model the way of a fact from a commit to an answer. Each one is
written from the Python source; `PROJECT.json` names the lines behind every
definition.

## The system

| part | source | state | operations |
|---|---|---|---|
| command line | `hindsight/cli.py` | the clone cache on disk | clone, fetch, skip, collect, plan, run |
| valid-time extraction | `hindsight/history.py`, `lockparse.py` | none between runs; memo of parses and `open_at` within one | discover, follow renames, one snapshot per commit, diff into intervals |
| graph build | `hindsight/graphbuild.py`, `ids.py` | none | row sets, stale repositories, filter by watermark, transaction time |
| ingest writer | `hindsight/ingest.py` | rows still to send | nodes, edges, RESOLVES, watermarks last, in batches |
| HydraDB client | `hindsight/client.py` | cursor, query id, attempt | query with retries, page to exhaustion or to a cap |
| the graph | external | nodes, edges, watermarks | upsert by id, AS-OF reads |
| MCP server | `hindsight_mcp/service.py`, `hindsight/coverage.py`, `hindsight/envelope.py` | two cached counts | exposure, blast radius, resolve, reach |
| web console | `hindsight_web/service.py`, `app.py` | directory, watermarks, counts and rankings, cached and shared by the threads of a pool | the answers the page shows |
| verdicts and packets | `hindsight_web/analysis.py`, `finding.py` | none | classify a repository, count, compose the evidence packet, render it |
| incident | `hindsight_web/incident.py` | none | accept or refuse a file; markers, domain, default package |
| page | `hindsight_web/static/app.js` | the question on screen, the address, two timers, requests in flight, a cache of answers, what is painted | move the rail, open a link, walk back, load, abort, paint |
| demo seed | `scripts/demo-seed.py` | the dataset file and its staging file | gather or construct inputs, export, ingest, label |

The parts meet in three places. The writer reads its own watermarks and decides
from them what not to send again; the readers run in other processes and read
the graph, query by query, while it is being written; and the client stands
between both and the node, sending again whatever it got no reply to.

What is hard to test in it: a run that dies between two batches and the next run,
which trusts the watermarks; a batch that is applied twice; builds of a stale
clone; a fact that is open in one build and closed in the next; an answer put
together from several reads with writes in between; an answer cut short at a cap;
counts cached in one process while another one writes; an answer that comes in
after the page has moved on; a number that is a total in one sentence and a floor
in the next. `PROJECT.json` lists
each of these hazards with its line, and the properties that cover it.

What makes each part correct:

- *extraction*: the facts, read as of any second, are what the newest commit at
  or before it resolved; a commit that cannot be read whole contributes nothing;
- *writer*: what a watermark covers is right and stays as it is;
- *client*: no row twice, none left out, and a cut result says so;
- *readers*: no negative where history is known to say otherwise, no verdict from
  a dataset that is not there, and no refusal from a stale cache;
- *sentences*: what a row, a count, a packet or the page says of a repository is
  true of its git history, or says that it may not be;
- *page*: at rest it shows the answer to the question in its address, or says
  whose answer it shows;
- *demo seed*: the constructed repository says that it is one.

## Modules

| module | models | composed of |
|---|---|---|
| `ValidTime` | commits, snapshots, `build_intervals` as a declarative diff; the oracle `ResolvedAsOf` | |
| `BuildIntervals` | the `build_intervals` loop, snapshot by snapshot | EXTENDS `ValidTime` |
| `ExtractSnapshots` | `discover_lockfiles`, `follow_path`, `extract_snapshots`, what the two parsers make of a blob | |
| `Checkout` | `materialize` and `collect` of one repository, over many runs | |
| `Ingest` | `build_rowsets`, `stale_repos`, `filter_by_watermark`, `stamp_tx`, `Ingestor.plan` and `run`, crashes, lost replies, git as environment | EXTENDS `ValidTime` |
| `Ledger` | what the writer promises: answers below a horizon are write-once | implemented by `Ingest` |
| `Dataset` | the graph as a reader of one version at one second sees it | implemented by `Ingest`, extended by `McpServer` and `Console` |
| `IngestInvariant` | the inductive invariant | EXTENDS `Ingest` |
| `IngestHazards` | `Ingest` where commits may land below what has been walked | EXTENDS `Ingest` |
| `PagedRead` | `HydraClient.query` and `paged_rows` against a node with cursors | |
| `McpServer` | the tools of the MCP server as sequences of reads, and the cached counts | EXTENDS `Dataset` |
| `Console` | `exposure`, `blast_radius`, `maintainer_ranking` and `health` of the web console, the threads of its pool and the caches they share | EXTENDS `Dataset` |
| `Verdict` | `classify`, `summarize`, `coverage_of`, the shape of `exposure` | |
| `Finding` | `build_finding`, `render_markdown`, and the page's `renderAnswer` | EXTENDS `Verdict` |
| `SeedInputs` | the inputs the demo seed re-projects from a graph, and the repository it constructs | |
| `Answers` | history, loop, rows, answer, packet, page line, document, end to end | EXTENDS `BuildIntervals`, `Finding`, `SeedInputs` |
| `Seed` | overlapping invocations of `demo-seed.py`: file, ingest, label | EXTENDS `SeedInputs` |
| `Incident` | `build_incident`, markers, domain, default package | |
| `Rail` | the functions of `app.js` that change the question, the address and the notice | EXTENDS `Incident` |
| `Page` | operator, timers, reads and paints of `app.js` | EXTENDS `Rail` |
| `ValidTimeProofs`, `ExtractProofs`, `IngestProofs`, `SourcesProofs`, `McpServerProofs`, `ConsoleProofs`, `AnswersProofs`, `PageProofs` | theorems | each EXTENDS what it is about; `AnswersProofs` begins with the loop of `BuildIntervals`, `SourcesProofs` is of `Checkout`, `Seed` and `PagedRead` |
| `MC*` | the instances for TLC; `MCSources` puts `Checkout`, `Seed` and `PagedRead` side by side | |

### How state and actions correspond to the code

**ValidTime.** A repository's history is a set of commits, each with a committer
second, a position among the commits of that second (the sha the code sorts by)
and the set of keys its lockfiles resolve; a key is one (package, version).
`Opens`, `LastOpener`, `Ends` and `ValidTo` say declaratively what
`build_intervals` does with the sorted snapshots. Two openings of one key in one
second have the same edge id (`ids.py` hashes repository, version and
`valid_from`), so the store keeps the last of their rows: `LastOpener`.
`BuildIntervals` is the loop itself, with `open_at` and the rows in order. That
both give the same rows (`LoopComputesIntervals`) is checked and proved, which
carries what is proved of `Intervals` over to the loop.

**ExtractSnapshots.** The inputs are a linear history (a blob or nothing at every
path and commit), the kind of each path by its name, what a blob is (a
package-lock, text, JSON that is no object), the blobs that can be read, the window,
the configured lockfiles, and `trail`: the name that `git log --follow` gives each
path at each commit as it walks back. Where the path was created git may take it
for a rename or a copy of any path that was there, of one with the same content if
there is one, and the walk goes on under that name, through any number of such
steps (`Before`, `Trails`). `Walk` is
`discover_lockfiles` and `follow_path`; then one action per turn of the inner
loop over names (`PassOver`, `Read`, `Skip`, `Die`) and `Emit` at its end. The
memo by blob id is `parsed`.

**Checkout.** `Found`, `Fetch`, `FetchFails`, `Clone` and `CloneFails` are the ways
through `materialize`; `Load` is the walk of the run's window back from the HEAD and
the index of what is there. A fetch moves `origin` and nothing else. The branch is
pushed to and rewritten at any time, a local checkout is reset or moved to another
branch (`Rewrite`), and the window is another one from run to run (`StartRun`), so
that a build can be of less than the one before, as `ingest.py:351-355` says.

**Ingest.** `Begin` is one run up to and including `plan`: the row sets are
computed from the walk and the watermarks read, and kept in `pending` by step.
`UpsertNodes`, `UpsertLinks`, `UpsertResolves` and `WriteWatermarks` send one
batch of the current step (`AtStep` is the order of the steps). A batch whose reply was lost
(`acked = FALSE`) has been applied and is sent again. `edge_upsert` matches both
endpoints first, so a row without them writes nothing. `Crash` drops what is
pending; the store stays. `git` only grows; `seen` is a ghost, the newest second
walked.

**PagedRead.** `GetPage` is a page that comes in, with the cap looked at after the
cursor as in `paged_rows`; `LoseReply` and `FailTransiently` go through the retry
loop; `Refuse` is the 400 for a continuation the node does not know; `CutReply` is
the `IncompleteRead` that no handler catches. The node is external: cursors are
(query id, position) pairs, forgotten by `Restart`.

**McpServer.** A call is the list of its reads in the code's order
(`Reads`), one action per read, the dataset taking any `Grow` steps in between.
`Usable` and `ReadCount` are `Hindsight.coverage`, `Reason` is `coverage_of`,
`Truncated` and `Kept` are the page limit, `Note` is the decision about what the
prose says: `resolve`'s "no node, never ingested" is a sentence of its own, beside
`exposure_asof`'s "never" and "not at this instant" and the negative of the others.

**Console.** A request is, again, the list of its reads, one thread per request. The
two counts and the directory are kept by the code as value and time of reading
(`cache`): `LookUp` is the test of the cache and the query, `StoreCount` and
`StoreDirectory` are the reply being stored, so another thread may store between
the two, and `ReturnCounts` looks at both attributes once more, as the `return`
of `dataset_counts` does. An empty read is stored as `None` (`{}`). `health` reads
past the caches and fills them. `ranking` is when `_rank_cache` was filled for the
instant in question; `Evict` is the sweep of another instant pushing it out.
`Fail` is a query the node refuses, a 502. The dataset grows by one repository and
one variable at a time (`GrowByOne`): a `Grow` is a sequence of those. A tick of the clock is long against a read (30 s against
milliseconds), so no reply is outstanding as one ends.

**Verdict, Finding.** Pure operators, one per function: `Classify` gives a status and
the claim of the sentence under the row (what matched, absent, held across the
window, changed inside it) with the versions that it names and the lead time;
`Exposure` is the payload, `Packet` the packet, `RenderMarkdown` the document,
`PageHeadline` and `PageNote` the answer line of the page. Sentences are named and not
spelled; a number keeps its value and its basis, exact, floor or observed.

**Answers.** The loop of `BuildIntervals` runs over a history of one repository; when
it is done, `Ask` reads what the store has of them at an instant and makes everything
that is said of it. The store need not have all: a dataset carries, for each repository,
the second up to which its history was ingested (`upto`, 0 if it has no watermark), and
`Stores` are the sets of rows that complete and dead runs can leave then, every fact that
began by that second and any part of the later ones, closed or still open. A read that
hit its cap returns any part of its rows (`Replies`), and the directory may be short of
repositories. A second repository has no rows; what its history resolved after the second
it was ingested up to (`elsewhere`) is anything. A commit may resolve other packages and
none of the keys. The oracle is `ResolvedAsOf` of the commits, not of the rows, and the
properties say what is true of a repository at a second that is covered (`Covered`).

**SeedInputs, Seed.** An invocation is `Collect` (from the file, snapshots, a graph or
its export, with the constructed repository added or left out), then either `Stage`, `Close`,
`Replace`, or `WriteNodes`, `WriteWatermarks`, `WriteProvenance`, or nothing (`Plan`).
`Interrupted` and `Dies` may come between any two. The ingest is two steps here;
what happens inside of it is `Ingest`. `CaretAllows` is compared with npm's own
statement of the rule (`NextAfter`), and `FromGraph` with the walk the graph came from.

**Incident, Rail, Page.** A file is its window, versions, featured packages, default,
declared domain and disclosure. `Rail` has one operator per function of `app.js`;
each takes the view and returns the view. `Page` has one action per handler, timer
and reply: `Drag` and `Release` are the input and change events of the slider,
`Key`, `Chip`, `Step`, `Zoom`, `Pick`, `Search` the controls, `Walk` is popstate;
`LoadFromCache` and `LoadFromNode` are the two ways through `load`; `Answered` and
`Failed` its two ends, `Footprint` the read a row starts, `LoadRanking`, `Ranked` and
`RankingFailed` the ranking. A read is identified by its question, since the reads
of one question are alike. Instants and days are small numbers.

## Runs

Bounds are in the `.cfg` files; every `Max...` constant is one, and every other
constant has its code's meaning.

| run | question | size |
|---|---|---|
| `ingest` | one repository, three seconds, two versions, batches of two, two crashes, a transaction clock that ticks: is the covered past exact and final, and does a run that is not killed end by covering what it walked? | 353 thousand states. Three seconds allow a fact that opens, closes and reopens; two crashes allow a run that dies on top of one that died |
| `ingest_repos` | two repositories in runs of either or both: the inductive invariant, one watermark per repository, and the refinement of `Dataset` for every version and second | two repositories suffice to confuse one's watermark with the other's |
| `extract` | two families of repositories of four commits. One is at rest after its second commit, with two paths, three blobs, any names, copies, damage; in the other a lockfile moves between three names from commit to commit while a fourth may stay: whole snapshot or skipped commit, and no invented removal | 3.1 million states. Each property relates at most two commits, and two paths give a lockfile that breaks beside one that does not; a chain of two renames after a removal needs four commits, the two last of which rename |
| `sources` | a checkout over three commits, any rewriting of the branch, any window and two network failures; the demo seed in two invocations, and of every incident of versions up to 2.2.2; a read of up to five rows in pages of two or fewer, with every cap, two retries a page and one restart of the node | 155 thousand states. Three commits are one that stays, one that is rewritten away and one beyond the window. The three share nothing, so each is explored while the others have not begun. Two invocations suffice to overlap, and one may be killed and begin again; cap before, on and after a page boundary and the end; components up to 2 reach both sides of every caret |
| `answers` | every history of two seconds with up to four commits, three of one second among them, and every one of at most a commit a second; four incidents, every instant, whole and cut reads, seven datasets: are the loop's rows the history, and are the sentences true of it? | 950 thousand states. Three commits of one second are what reordering by sha can tell apart; windows that open and close on and between commits, with the first publication at and after the opening, and an incident without versions; a healthy dataset, two cut directories with a failed probe and with none, one ingested up to second 2 with every remainder of later runs beside a repository that resolved the bad version and was not ingested, one with the other repository alone ingested, one without a watermark, and an empty one |
| `mcp_server` | two repositories, a page of one row, a cache of one tick, any writes between any reads | 936 thousand states |
| `console` | two threads over one repository or one thread over two, the lifetime of the caches one tick: who is named, who is refused, what is said to be absent | 3.8 million states; drawings and rankings, which share with the other requests only what `exposure` shares, with one of each (`Bounded`). A second thread is enough to store between another one's query and its store, a second repository to be missing from a directory that is not empty |
| `page` | one incident file and three links in full, two acts of the operator, a cache of one answer, any reply or failure of any read at any time; and a sweep of files that are only opened | 423 thousand states. Two acts are there and back, or away while a read is under way; the second overtakes what the first has started. The sweep has windows at and between midnights, an empty one, no version, fixes before publication, declared domains that do and do not contain everything |
| `late_commit` | is an interval that closed by the watermark immutable? | violated |
| `stale_clone` | does the refresh of a cached clone ever reach a build? | violated |
| `missing_history` | is a negative of `exposure_asof` never about a repository without history? | violated |
| `ranking` | is a cached ranking given only within the lifetime of the caches? | violated |

The first eight pass. Where a run checks the type invariant it does so as a part of
another one: `WriterInv`, `ReadIsExact`, `RefusalsAreRight`, `EverythingIsDated`,
`EveryCommitIsWholeOrSkipped`. Properties are grouped by what they promise, and each
group has a mutant of the code for each of its parts:

| property | is the conjunction of |
|---|---|
| `ReadIsExact` | `RowsInOrder`: the rows read are the first rows, each once; `TruncatedIsExact`: cut exactly if some are missing; `RefusedOnlyAfterRestart` |
| `RefusalsAreRight` (`McpServer`) | `RefusalIsCurrent`: a refusal is of the dataset after the question was asked, not of a cached emptiness; `CountsWithinTtl`; `NoVerdictFromNothing` |
| `RefusalsAreRight` (`Console`) | `RefusalIsRecent`, `NoVerdictFromNothing` |
| `RowsAreTrue` | `HeldClaimIsTrue`: a pin called held across the window was resolved at every second of it that was ingested; `LeadTimeIsNeverOverstated`; `ExposedIsReal` |
| `PacketIsQualified` | `CountsAreWhatTheySay`: exact counts are exact but for repositories that are not covered, and floors are floors; `ReceiptsStandAlone`; `DocumentIsQualified`; `ZerosAreMeasured` |
| `EverythingIsDated` | `PanelsAreDated`: the panels are of the instant in the header or the banner names it; `ExportIsOfThePanels` |

`CHECK_DEADLOCK FALSE` stands where the system really comes to rest: all commits
made and all runs over, an extraction that ended, a question that has its answer,
a page whose bound of acts is used up.

In `page` the footprint and the ranking are let run only when no exposure is
awaited: they read and write nothing that `load` keeps, so the order is no loss.

### What the violations say

- `late_commit`: the code orders commits by committer time, and committer time
  is not monotone in what `git fetch` brings: the merge of an old branch adds
  commits below the watermark. `filter_by_watermark` then keeps the corrected
  interval from being sent, and the store stays wrong after any number of runs.
- `stale_clone`: `git fetch --all` moves remote-tracking refs; the walk reads HEAD
  and the index, which nothing moves. A remote repository is frozen at its first
  clone.
- `missing_history`: `answerable` asks for *some* watermark. `exposure_asof` says of a
  repository whose run died before its watermark, or never began, that it did not
  resolve the version, as a proven negative. (`resolve` says in that state that the
  name was never ingested, which is so; the property leaves its note out.)
- `ranking`: `_rank_cache` has no lifetime, unlike the other caches of the console. A
  ranking asked for before or during an ingest, even one of an empty dataset, is
  what this instant is answered with until 64 other instants have pushed it out.

### Fairness

- `Ingest` has weak fairness of `Write(w, TRUE)`: `run` is a plain loop over steps
  and batches, and the client sends a query again until a reply comes or it
  gives up, which is `Crash`. Liveness is therefore claimed only for a run that
  is not killed (`RunCoversItsWalk` counts crashes).
- `Checkout` assumes that the tool is run again and again (`WF(StartRun)`) and, for
  `stale_clone`, that a fetch which is possible again and again succeeds sometimes
  (`SF(Fetch)`, with no network failures in that run at all). It is an assumption about the operator
  and not about the code; it makes the violation stronger.
- `Page` has weak fairness of `Browser`: timers fire, a read is answered or fails
  (the fetch ends one way or the other), and a slider that is held is let go. The
  operator owes nothing.
- In `sources` the fairness is that of `Checkout`.
- The other modules have no liveness property and no fairness.

## Assumptions about the environment

`Ingest` makes these where the code makes them without checking:

1. a commit lands later than the newest second any build has walked (`c.ts > seen[r]`
   in `Commit`; dropped in `IngestHazards!LateCommit`);
2. a commit resolves something (`c.entries # {}`): `extract_snapshots` emits no
   snapshot for one that does not, so the facts before it stay open;
3. a walk is a prefix in time of the whole history (`Start`). With it goes a `since`
   that moves between runs, which gives a fact that was open already another
   `valid_from` and hence a second edge, and a commit that cannot be read today
   and can tomorrow;
4. runs do not overlap (`SerialStart`): two that do both read the watermarks
   first, and the slower one may write the lower value;
5. a request that timed out is either applied before its retry or not at all. A
   late duplicate would rewrite what a later run has closed.

`ExtractSnapshots` assumes that a blob is not found under names of two kinds
(`OneKindPerBlob`): the parser is chosen by name and the memo kept by blob, so
`npm-shrinkwrap.json` renamed to `package-lock.json` would keep the failure of its
old name. It takes the history to be linear, in the order of its dates. What it says
of removals is of a walk of all the history: git follows no rename outside the
window, so a lockfile that is renamed after `until`, or untouched between `since`
and its renaming, is not looked up under its older name.

`Checkout` assumes that nothing but the tool writes to its cache directory.

`Answers` assumes what an incident file does not check: that the first publication
lies in the window (`AnswersAssumption`); that a row has the nodes of its repository
and its package; and that the store has no rows of the second repository, whose later
history, if any, no run has begun to write.
`Page` assumes that nothing else is operated while the slider is held, and that
the window does not begin within a day of second 0.

A stale clone after a crash needs no assumption: the watermark is behind then,
and no property promises anything past the watermark. A repository without any
snapshot gets a watermark at second 0, which covers nothing.

## What is proved

`tlapm` checks all of it, for every value of the constants that satisfies their
`ASSUME`s, and under the assumptions above. Every invariant and every action
property of a passing run is a theorem, and so are the two refinements.

| module | invariant | of every |
|---|---|---|
| `ValidTimeProofs` | (lemmas about operators) | history |
| `ExtractProofs` | `ExtractInv` | repository, rename, damage, window, configuration |
| `IngestProofs` | `IInv`, `WriterInv` | number of repositories, keys, seconds, writers, crashes; batch size |
| `SourcesProofs` | `ReadInv`, `CheckoutInv`, `SeedInv` | number of rows, retries, restarts, commits, failures, invocations |
| `McpServerProofs` | `ServerInv` | number of calls, repositories, rows; page size; lifetime of the cache |
| `ConsoleProofs` | `ConsoleInv` | number of threads and repositories; lifetime of the caches |
| `AnswersProofs` | `LoopInv /\ AnswerInv` | history, how far it was ingested, what dead runs left, incident, instant, read, dataset |
| `PageProofs` | `PageInv` | accepted file, link, order of acts, timers, replies |

*ValidTimeProofs.* `FactsAreHistory`: the facts of any history, read at any
second, are what the newest commit at or before it resolved. `OneLiveFact`: no
two facts of a key hold at one second. `ShorterWalk`: a walk cut short at `h`
reports the same facts, those that end after `h` as open. All three come from the
order `Before` being total and from choosing the last opener, or the last
commit before a gap.

*ExtractProofs.* `ExtractInv` says what the memo is (of every blob that it knows, what
the parser of *any* of its names makes of it, which is where `OneKindPerBlob` is
needed), that `entries` is what the names of the commit looked at so far resolve, and
what has become of each commit handled. `WholeOrSkipped` follows from it.
`RemovalsReal` adds that a walk of all the history meets a lockfile under each
name it had, however many there were (`NameIsWalked`): the stretch of commits over which
it had the name and was there begins with one that touched it, and git lists that one
with the name.

*IngestProofs.* `Invariant` shows `IInv` inductive; `TypeCorrect`, `CoveredPast`, `OneLive` and
`PresentExact` follow from it; `WatermarkAdvances`, `SettledFinal` and `Idempotent` are
action properties proved from the same invariant. `TypeOK` and the substance of
`OneLiveEdge` are in `WriterInv`, which a run checks; `WatermarkNeverRegresses` is left
to its proof.

`CoveredPastIsExact` is not inductive: it says nothing about a run half-way. `IInv`
adds

- `EdgesSound` and `EdgesComplete`: every edge is a fact of what has been walked,
  right *as of some second at or after the watermark*, and no fact opened by the
  watermark is missing. The existential is the point: after a crash the edges of
  one repository may be as of different walks, and all are right for the covered
  past;
- `ResolvesRowsOK` and `NothingForgotten`: what a run has still to send is what is
  needed for its own watermark to be true, and what it leaves out is in the store
  and final. This is where `filter_by_watermark` is justified;
- `WatermarkRowsOK`, `MarkBehindWalk`: a watermark to be written is not behind the
  one stored. This is where `stale_repos` is;
- `OneRunAtATime`: why nothing of it is invalidated from outside.

The proof of `NextIInv` has one lemma per action (`CommitStep`, `StartStep`,
`UpsertResolvesStep`, `WriteWatermarksStep`, ...). `CommitStep` rests on assumption 1: a
commit after everything walked changes no walked fact. `StartStep` rests on
`ShorterWalk`.

`WriterInv` adds to it what the *order* of the steps is for: `AnchorInv`, that a node or
a link which something pending or stored refers to is stored, or pending in an
earlier step; and `ListedInv`, that a repository with a watermark, written or still to be
written, has its node. From the first, `EdgesAnchored`. Two refinements are proved step by step: `WriteOnce`, that the
writer implements `Ledger` (no answer below a horizon is revised), and
`SeenAsADataset`, that for every version and second its store is a `Dataset`: what the
two servers are modelled against is what the writer does, and not a guess about it.

*SourcesProofs.* `ExactRead`: the rows read are those up to the cursor, whatever was
asked again, and the node still holds the continuation unless it has been
restarted. `BuildsLose`: what is built of a clone is part of what it was made with, which no
fetch and no rewriting upstream moves, so that only the window and, in a local checkout,
the branch itself take a commit out of a build. `WholeArtifact`, `Labelled`, `LabelStays`: every dataset that
an invocation has read, staged or written says of a constructed repository that
it is one. `BoundedExposure` rests on `CaretIsTheRange`: `caret_allows` is npm's range of any
three numbers, where the run is bounded by `Numbers`.

*McpServerProofs.* A call reads several times while the dataset grows. `ServerInv` says
of each read so far what it still says of the dataset of the question: a count is at
most what is there, at least what was there a lifetime of the cache before the
question, and zero only if there was nothing then; no node, or all of no rows, means
that nothing was resolved where history was covered then. `RefusalsRight`,
`FloorLabelled` and `NegativeHolds` follow when the last read has come in.
`CountsWithinTtl` is about ticks that ended before the question: what the graph took in
within the question's own tick may be missing from a cached count.

*ConsoleProofs.* `ConsoleInv` is the same for threads that share caches: of each cache what it
may have been filled from, and of each thread between its look-up and its store what
it holds. A thread may store an older value over a newer one of the same tick; a
cache is therefore known to hold all that was there before the tick it is dated, and no
more, which is enough for `RefusalsRight`, `RepositoriesNamed` and `NegativeHolds`.

*AnswersProofs.* `LoopInv` says that what the loop has emitted are the
intervals that ended at or before the last snapshot it handled, and that `open_at` holds the
others, each with the second it was opened in. It is inductive: `HandleSnapshot` closes
what the next snapshot lacks and opens what it adds, which is `Ends` and `Opens` of
`ValidTime` for that commit, and `Flush` closes the rest at the sentinel. From it follow
`LoopTypes`, `LoopIsDiff`, and with `FactsAreHistory` and `OneLiveFact` the theorems
`LoopIsHistory` and `LoopFactsAbut` (`FactsDoNotOverlap` of the loop is left to this proof).

Six theorems about `AnswersSpec` rest on `LoopInv /\ AnswerInv`, where `AnswerInv` says
that an answer is `AnswerOf` some question, asked of one of the `Stores` when the loop was done: `AnswersRows`,
`AnswersPacket`, `AnswersHeadline`, `AnswersNegatives`, `AnswersChanged` and `Reprojected`; the
parts of the first two are lemmas (`HeldHolds`, `CountsHold`, ...). `RowIsHistory` and
`HistoryHasRow` carry a row to the commits and back, `StoreIsHistory` and
`StoreHasHistory` what is in the store up to the second it has the history of; a cut read has only rows that are
there, so what was found is so; a whole read has all of them, so what was not
found is not so; the counts are cardinalities of sets of repositories, one included
in the other. A row begins and ends with a commit that changed something: inside
the window that is the change `AnswersChanged` claims, and `Reprojected` has the bounds of
the rows as exactly those commits, since a run of commits with one key has an
opener (`RunHasOpener`).

*PageProofs.* `PageInv` has three parts. `RailInv`: the view is on the slider, on a package
of the incident, its address is its question, and what a link asked for is there
or disowned; each operator of `Rail` keeps it. `PaintInv`: at most one read is under
way and it is `inflight`; it is of the question on screen unless the debounce is running
or an answer from the cache overtook it; with no failure the panels are of the instant
above them. `RankInv`: the note is of the rail's instant, or a ranking of that instant
is on its way. It is proved of `Spec` itself, with the footprint and the ranking in
any order, where the run lets them wait. `EventsShown` and `OpensArmed` are about every
file: a finite set of instants is bounded, because a smallest part of it that is not
would have none (`FiniteIsBounded`).

The assumptions on constants are those of the modules. Two were added for the
proofs and hold of the code: the repositories of `McpServer` are finitely many, and an incident
file is finite, of instants that are natural numbers and packages that have a name
(`PageAssumption`; `build_incident` would take the empty name, which the page cannot tell
from a link without a package).

## What is only model-checked

Liveness: `RunCoversItsWalk`, `LocalIsEventuallyBuilt` and `PageSettles`. Their proofs need
ENABLED of the fair actions, which `tlapm` does not expand. The four properties that
are violated are refuted by TLC and have no proof. The oracles themselves
(`ResolvedAsOf`, the parsers in `meaning`, `NextAfter`) are definitions: that they say what
git and npm do is for the reader of the source to see.

### What the properties of the page and the packet do not say

These were met while modelling; each is behaviour of the code that a property
had to be stated around.

- A cache hit in `load` does not abort the read under way, and `Answered` does not ask
  whether the rail has moved: its late answer is painted over the newer question,
  and `READ FAILED` may come up over a right answer. `ShowsWhatIsAsked` excludes it
  by the ghost `overtaken`; `PanelsAreDated` holds even then, since the header is
  painted with the answer.
- `PanelsAreDated` is about instants. After walking back the panels kept under a
  failed read may be of another package: the banner names their instant only.
- The search field renders the ranking again and with it its note, so a note that
  said "failed" or "scoring" is gone (`searched` in `RankingIsOfTheInstant`).
- The footprint checks the package and not the instant: it is read for the instant
  of the rail and written under rows of the instant of their read. It is right at
  rest since a repaint replaces the rows it would have been written to; not so under
  panels that an overtaken read has painted or that a failed one has kept, where no
  property looks at it.
- The steppers skip markers within a second of the rail; a zoom clears the notice
  about a link though the rail has not moved; a refusal stays in the cache until
  the page is loaded again.
- A derived domain begins a day early only if the *window* opens at midnight: a
  declared one, or one whose first event is a publication before the window, may
  begin at its first event.
- `ChangedInsideTheWindow` holds of instants inside the window. The sentence is
  written outside of it too, where the pin may not have changed.
- The console has the gap of the finding `missing_history` too: an answer is answerable
  when one repository has a watermark (`coverage_of`), so a listed repository whose
  history was not ingested is counted as NOT_RESOLVED, with basis exact, and the page calls
  the answer a proven negative. `CountsAreWhatTheySay` therefore bounds an exact
  count from both sides, by the repositories that are covered and with the others,
  and `NegativesAreProven`, `ReceiptsStandAlone` and `DocumentIsQualified` speak of
  repositories that are covered at the instant. Of a history ingested in part, a row
  that later ended may be read as live after the second it was ingested up to.
- The lead time is the age of the newest row of *any* version that is resolved,
  which is not above that of the pin the sentence is about, and may be below.
- The comments of `finding.py` and `app.js` about a cut read speak of negatives that
  shrink. `resolved_clean` may grow too, when the rows cut were the only ones of a
  repository; the code calls it observed and no floor, which is what
  `CountsAreWhatTheySay` needs.
- The document drops the caveat of each row for one sentence under the table.
- `Answers` takes exposure and health from one state of the dataset; the handler
  reads one after the other, and an ingest in between shows up as two counts that
  differ.
- Between the ingest of a seed and `write_provenance` the constructed repository has
  no label, and the console takes what has none for real. `ReportedIsLabelled` is
  about invocations that returned.

## What is not modelled

The text of lockfiles, queries and reports, and the parsing of timestamps and
parameters; ids as hashes and their collisions (keys stand for ids); the engine
behind the queries; `status`, configuration parsing and command-line plumbing;
`list_packages` and raw Cypher of the MCP server, its guard and its schema text;
of the web console `maintainer_reach`, the drawing, and the row caps of its lists
beyond cut or whole; of the page the drawing, the drawer, the tabs, the graph
toggle and the failure of the incident read at boot; of the demo seed the
variants with a node prefix or an id namespace and the maintainers; benchmarks and
the proof of concept.

## Plan

1. `Guard`: the statement classifier of the MCP server on token classes.
2. The Console's packet as a request of its own, so that exposure and health are
   read in different states of the dataset.
3. Theorems about compositions: that `Answers`, which takes one dataset, may be read as
   the console over a store that a run is writing (`SeenAsADataset` with `NegativeHolds`
   and `AnswersNegatives`), so that a negative of the page is true of git in one theorem.
