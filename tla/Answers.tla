-------------------------------- MODULE Answers --------------------------------
(***************************************************************************)
(* From git to the sentence: the history of one repository goes through    *)
(* build_intervals, its rows are in the store, all of them or those that   *)
(* the ingests so far have written, and the console answers about them.    *)
(* An answer is the exposure payload, the packet made of it and the two    *)
(* things a person reads, the page and the document.  The dataset lists a  *)
(* second repository, which the store has no rows of.                      *)
(***************************************************************************)
EXTENDS BuildIntervals, Finding, SeedInputs

CONSTANTS
    Incidents,      \* incident files: a window, and the listed versions of the package
    Circumstances,  \* what the dataset and the reads were like
    Ours, Other     \* the repository with the history, and one without rows

Repos == {Ours, Other}

\* listed and marked are the repositories with a node and with a watermark;
\* upto is the second up to which the store has all of a repository's history,
\* 0 if none was ingested; elsewhere is what the history of Other resolved,
\* nothing as far as it was ingested; known: the package has a node.  directory
\* is what the read of the list returned; asked and reachable describe the
\* probe of health.
ASSUME AnswersAssumption ==
    /\ Ours # Other
    /\ \A i \in Incidents :
            /\ i.window \in [start : Times, end : Times \union {SENTINEL}, first : Times]
            /\ i.window.start <= i.window.first /\ i.window.first < i.window.end
            /\ i.malicious \subseteq Keys
    /\ \A c \in Circumstances :
            /\ c.marked \subseteq c.listed /\ c.listed \subseteq Repos
            /\ c.directory \subseteq c.listed
            /\ c.upto \in [Repos -> 0 .. SENTINEL]
            /\ \A r \in Repos : c.upto[r] > 0 => r \in c.marked
            /\ c.elsewhere \in [Times -> SUBSET Keys]
            /\ \A t \in Times : t <= c.upto[Other] => c.elsewhere[t] = {}
            /\ {c.known, c.asked, c.reachable} \subseteq BOOLEAN

VARIABLE answer

answersVars == <<snaps, handled, openAt, out, done, answer>>

NotAsked == [tag |-> "none"]

-----------------------------------------------------------------------------
(* The reads.                                                              *)

\* The rows of the repository, when all of them are written.
Rows == {[key |-> i[1], vf |-> i[2], vt |-> out[i]] : i \in {j \in Ids : out[j] # Absent}}

\* Rows of one fact share an edge id.
SameFact(a, b) == a.key = b.key /\ a.vf = b.vf

\* What an ingest may have sent of the rows: the row as it is now, or as an
\* earlier build had it that did not know the commit that ended it after m.
Sent(m) == Rows \union {[row EXCEPT !.vt = SENTINEL] : row \in {r \in Rows : r.vt > m}}

\* What the ingests so far have left in the store, when it has the history up to
\* m: one row of each fact that began by then, and of later ones any, since a
\* run that dies may have written some of its batches.
Stores(m) ==
    {S \in SUBSET Sent(m) :
        /\ \A a, b \in S : SameFact(a, b) => a = b
        /\ \A row \in Rows : row.vf <= m => \E a \in S : SameFact(a, row)}

\* Mutant: the end of an interval is still inside it.
LiveToTheEnd(store, at) == {row \in store : row.vf <= at /\ at <= row.vt}

\* repos_resolving_package: the rows whose half-open interval holds the instant.
LiveRows(store, at) == {row \in store : row.vf <= at /\ at < row.vt}

\* A read that hit the row cap returned some rows and not all.
Replies(store, at) ==
    LET live == LiveRows(store, at)
    IN  {[rows |-> live, cut |-> FALSE]} \union
        {[rows |-> s, cut |-> TRUE] : s \in (SUBSET live) \ {{}, live}}

\* _check / health: the two counts when the node answered, zeros when not.
Health(c) ==
    [asked |-> c.asked, reachable |-> c.reachable,
     repos |-> IF c.reachable THEN Cardinality(c.listed) ELSE 0,
     marks |-> IF c.reachable THEN Cardinality(c.marked) ELSE 0]

\* package_exists: a row needs the package's node; a run that died before its
\* rows may have left the node alone.
Exists(store, c) == store # {} \/ c.known

AnswerOf(at, i, c, store, reply) ==
    LET rows == [r \in Repos |-> IF r = Ours THEN reply.rows ELSE {}]
        e == Exposure(rows, Exists(store, c), c.directory, i.malicious, i.window, at, reply.cut,
                      c.directory # c.listed,
                      [repos |-> Cardinality(c.listed), marks |-> Cardinality(c.marked)])
        f == Packet(e, Health(c))
    IN  [tag |-> "answer", incident |-> i, reply |-> reply, dataset |-> c,
         exposure |-> e, packet |-> f, document |-> RenderMarkdown(f)]

\* One question: the page asks for the exposure, or for the packet of one.  A
\* dataset without the repository has no rows of it.
Ask(at, i, c, store, reply) ==
    /\ Ours \in c.listed \/ store = {}
    /\ answer' = AnswerOf(at, i, c, store, reply)
    /\ UNCHANGED vars

AnswersNext ==
    \/ Next /\ UNCHANGED answer
    \/ /\ done
       /\ answer = NotAsked
       /\ \E c \in Circumstances :
             \E store \in Stores(c.upto[Ours]), at \in Times, i \in Incidents :
                \E reply \in Replies(store, at) : Ask(at, i, c, store, reply)

AnswersInit == Init /\ answer = NotAsked

AnswersSpec == AnswersInit /\ [][AnswersNext]_answersVars

-----------------------------------------------------------------------------
(* What the sentences say of the history.                                  *)

Asked == answer.tag = "answer"
Verdicts == answer.exposure.repos
Window == answer.incident.window
Malicious == answer.incident.malicious
OfOurs(claim) == Ours \in DOMAIN Verdicts /\ Verdicts[Ours].claim = claim

\* The versions that a repository resolved at t, by its git history.
Resolved(r, t) ==
    IF r = Ours THEN ResolvedAsOf(snaps, t) ELSE answer.dataset.elsewhere[t]

\* The history of r at t was ingested.  The code asks less, one watermark of any
\* repository (coverage_of): the rest it counts as NOT_RESOLVED or shows as of
\* its last ingest, in an answer that is answerable.  That gap is the finding of
\* the run missing_history; the properties here say what is true beside it.
Covered(r, t) == t <= answer.dataset.upto[r]

TrueStatus(r, t) ==
    IF Resolved(r, t) \intersect Malicious # {} THEN "EXPOSED"
    ELSE IF Resolved(r, t) # {} THEN "RESOLVED_CLEAN"
    ELSE "NOT_RESOLVED"

StatusOf == [exposed |-> "EXPOSED", resolved_clean |-> "RESOLVED_CLEAN",
             not_resolved |-> "NOT_RESOLVED"]

\* A count of the git histories: of those that are covered, and with the others.
AtLeast(key, t) ==
    Cardinality(IF key = "repos" THEN answer.dataset.listed
                ELSE {r \in answer.dataset.listed : Covered(r, t) /\ TrueStatus(r, t) = StatusOf[key]})
AtMost(key, t) ==
    Cardinality(IF key = "repos" THEN answer.dataset.listed
                ELSE {r \in answer.dataset.listed : Covered(r, t) => TrueStatus(r, t) = StatusOf[key]})

\* analysis.py: "lockfile pinned X across the entire exposure window and none of
\* those versions is a malicious one".  At every second of the window that the
\* ingest covers the commit then in force resolved X, however short the read
\* was cut and whatever a run that died has left.
HeldClaimIsTrue ==
    Asked /\ OfOurs("held") =>
        \A k \in Verdicts[Ours].keys :
            /\ k \notin Malicious
            /\ \A t \in Times : Inside(Window, t) /\ Covered(Ours, t) => k \in ResolvedAsOf(snaps, t)

\* The age in that sentence: every pin that is called held had been resolved
\* for that long when the first malicious version was published.
LeadTimeIsNeverOverstated ==
    Asked /\ OfOurs("held") =>
        \A k \in Verdicts[Ours].keys : \A t \in Times :
            /\ Window.first - Verdicts[Ours].lead <= t /\ t <= Window.first
            /\ Covered(Ours, t)
            => k \in ResolvedAsOf(snaps, t)

\* "The pin did change at some point inside the exposure window": said of an
\* instant of the window, by a whole read or a cut one and of a history ingested
\* in full or in part, some commit after the window opened and before it closed
\* resolved other versions than the one before it.
ChangedInsideTheWindow ==
    Asked /\ OfOurs("changed") /\ answer.exposure.in_window =>
        \E c \in snaps :
            /\ Window.start < c.ts /\ c.ts < Window.end
            /\ \A p \in snaps : Precedes(snaps, p, c) => p.entries # c.entries

\* A row that came back is a row that was found: at an instant that the ingest
\* covers, EXPOSED and the versions that it names are true of git whether or
\* not the read was cut.
ExposedIsReal ==
    Asked /\ OfOurs("matched") =>
        /\ Verdicts[Ours].keys # {} /\ Verdicts[Ours].keys \subseteq Malicious
        /\ Covered(Ours, answer.exposure.at) =>
                Verdicts[Ours].keys \subseteq ResolvedAsOf(snaps, answer.exposure.at)

\* The sentence under a row, so far as it says what was resolved and when.
RowsAreTrue == HeldClaimIsTrue /\ LeadTimeIsNeverOverstated /\ ExposedIsReal

\* finding.py: a count that cannot be a total is not presented as one.  In the
\* packet and in the document an exact count is the count of the git
\* histories, off by no more than the repositories whose history was not
\* ingested; a floor is not above it; and where no repository has a watermark
\* there is no count.
CountsAreWhatTheySay ==
    Asked =>
        /\ \A k \in DOMAIN answer.packet.answer.counts :
                LET count == answer.packet.answer.counts[k]
                    at == answer.exposure.at
                IN  /\ count.basis = "exact" => AtLeast(k, at) <= count.value
                    /\ count.basis \in {"exact", "floor"} => count.value <= AtMost(k, at)
        /\ answer.dataset.marked = {} => DOMAIN answer.packet.answer.counts = {}

\* The document prints the same counts: one without ">=" and called exact is a
\* total, and a row stands unqualified only if it is what git says of a
\* repository that is covered.
DocumentIsQualified ==
    Asked =>
        /\ \A k \in DOMAIN answer.document.counts :
                LET count == answer.document.counts[k]
                    at == answer.exposure.at
                IN  /\ count.basis = "exact" => AtLeast(k, at) <= count.value /\ ~count.atLeast
                    /\ count.basis = "exact" \/ count.atLeast => count.value <= AtMost(k, at)
        /\ ~answer.document.asRead => \A r \in DOMAIN answer.document.rows :
                Covered(r, answer.exposure.at) =>
                    answer.document.rows[r].status = TrueStatus(r, answer.exposure.at)

\* The row is what gets quoted out of the packet: one without a caveat, of a
\* repository that is covered, has the status that its history gives it.
ReceiptsStandAlone ==
    Asked => \A r \in DOMAIN answer.packet.receipts :
        ~answer.packet.receipts[r].caveat /\ Covered(r, answer.exposure.at) =>
            answer.packet.receipts[r].verdict.status = TrueStatus(r, answer.exposure.at)

\* The negatives that are called proven, of this instant, by the service and by
\* the page, and of every instant when the package has no node: they are true
\* of every listed repository whose history was ingested up to that instant,
\* also of one the directory's page did not hold.
NegativesAreProven ==
    Asked =>
        LET covered(t) == {r \in answer.dataset.listed : Covered(r, t)}
            at == answer.exposure.at
        IN  /\ answer.exposure.note = "negative" =>
                    \A r \in covered(at) : Resolved(r, at) = {}
            /\ PageNote(answer.exposure) = "proven negative" =>
                    \A r \in covered(at) : Resolved(r, at) \intersect Malicious = {}
            /\ "never" \in {answer.exposure.note, PageNote(answer.exposure)} =>
                    \A t \in Times : \A r \in covered(t) : Resolved(r, t) = {}

\* finding.py: the headline is "kept branch-for-branch identical to renderAnswer".
HeadlineIsThePages ==
    Asked => answer.packet.answer.headline = PageHeadline(answer.exposure)

\* A zero that is stated of the dataset was measured: the counts beside the
\* answer, and those of its provenance, are those of the dataset.
ZerosAreMeasured ==
    Asked =>
        /\ answer.packet.coverage.repos = Cardinality(answer.dataset.listed)
        /\ answer.packet.provenance.measured =>
                /\ answer.packet.provenance.repos = Cardinality(answer.dataset.listed)
                /\ answer.packet.provenance.marks = Cardinality(answer.dataset.marked)

\* The packet and the document, number by number and row by row: what is not
\* qualified is so.
PacketIsQualified ==
    CountsAreWhatTheySay /\ ReceiptsStandAlone /\ DocumentIsQualified /\ ZerosAreMeasured

\* demo-seed.py: "the commit instants that changed the closure", which is what
\* a re-projected input calls its snapshots; it begins where the walk began,
\* and its last_ts, hence its watermark, is not above the walk's and covers
\* every bound of its facts.  The rows are those of the whole graph, so this is
\* of walks whose every commit resolves some key.
ReprojectionKeepsTheWalk ==
    done /\ snaps # {} /\ (\A c \in snaps : c.entries # {}) =>
        LET walked == FromSnapshots(snaps)
            changes == {c.ts : c \in {d \in snaps :
                            \A p \in snaps : Precedes(snaps, p, d) => p.entries # d.entries}}
        IN  \A read \in {FromGraph(Rows, SENTINEL), FromGraphExport(Rows, SENTINEL)} :
                /\ read.instants = changes
                /\ read.first = walked.first
                /\ read.last <= walked.last
                /\ \A row \in Rows :
                        row.vf <= read.last /\ (row.vt = SENTINEL \/ row.vt <= read.last)
=============================================================================
