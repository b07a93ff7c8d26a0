---------------------------- MODULE IngestInvariant ----------------------------
(***************************************************************************)
(* Why the covered past is exact: the inductive invariant of Ingest.  It   *)
(* relates the store and the rows still to be sent to the facts of what    *)
(* has been walked, which later commits leave alone, and to the nodes and  *)
(* links that the order of the steps has put there before them.            *)
(***************************************************************************)
EXTENDS Ingest

Walked(r) == UpTo(git[r], seen[r])

\* Walk U opens k at f.
IsFact(U, k, f) == Openers(U, k, f) # {}

\* vt is valid_to of that fact as U cut short at second h reports it.
RightAt(U, h, vt, k, f) ==
    vt = IF ValidTo(U, k, f) <= h THEN ValidTo(U, k, f) ELSE SENTINEL

HistoriesOK ==
    \A r \in Repos : IsHistory(git[r]) /\ \A c \in git[r] : c.entries # {}

MarkBehindWalk == \A r \in Repos : mark[r] <= seen[r]

\* An edge is a fact of the history, right as of some walk past the watermark.
EdgesSound ==
    \A r \in Repos : \A k \in Keys : \A f \in Times :
        validTo[<<r, k, f>>] # Absent =>
            /\ IsFact(Walked(r), k, f)
            /\ \E h \in 0 .. MaxTs :
                h >= mark[r] /\ RightAt(Walked(r), h, validTo[<<r, k, f>>], k, f)

\* No fact that opened by the watermark is missing.
EdgesComplete ==
    \A r \in Repos : \A k \in Keys : \A f \in Times :
        f <= mark[r] /\ IsFact(Walked(r), k, f) => validTo[<<r, k, f>>] # Absent

PendingShape ==
    /\ pending = [w \in Writers |-> pending[w]]
    /\ \A w \in Writers : pending[w] = [i \in Steps |-> pending[w][i]]

OneRunAtATime == \A v, w \in Writers : v # w => Idle(v) \/ Idle(w)

\* A watermark still to be written is of a walk, and not behind the store's.
WatermarkRowsOK ==
    \A w \in Writers : \A m \in pending[w][WatermarkStep] :
        /\ m.repo \in Repos
        /\ m.last \in 0 .. MaxTs
        /\ mark[m.repo] <= m.last
        /\ m.last <= seen[m.repo]
        /\ \A n \in pending[w][WatermarkStep] : n.repo = m.repo => n = m

\* A RESOLVES row still to be written is a fact as the run's walk reports it,
\* not yet final in the store, and its endpoints come before it.
ResolvesRowsOK ==
    \A w \in Writers : \A row \in pending[w][ResolvesStep] :
        /\ row.repo \in Repos /\ row.key \in Keys /\ row.vf \in Times
        /\ IsFact(Walked(row.repo), row.key, row.vf)
        /\ row.vt > mark[row.repo]
        /\ \E m \in pending[w][WatermarkStep] :
            m.repo = row.repo /\ RightAt(Walked(m.repo), m.last, row.vt, row.key, row.vf)
        /\ RepoNode(row.repo) \in nodes \union pending[w][1]
        /\ VersionNode(row.key) \in nodes \union pending[w][3]

\* Every fact a watermark will cover is in the store already, or still to come.
NothingForgotten ==
    \A w \in Writers : \A m \in pending[w][WatermarkStep] :
        \A k \in Keys : \A f \in Times :
            f <= m.last /\ IsFact(Walked(m.repo), k, f) =>
                \/ \E row \in pending[w][ResolvesStep] :
                    row.repo = m.repo /\ row.key = k /\ row.vf = f
                \/ /\ validTo[<<m.repo, k, f>>] # Absent
                   /\ \E h \in 0 .. MaxTs :
                        /\ h >= m.last
                        /\ RightAt(Walked(m.repo), h, validTo[<<m.repo, k, f>>], k, f)

\* The inductive invariant.
IInv ==
    /\ TypeOK
    /\ HistoriesOK
    /\ MarkBehindWalk
    /\ EdgesSound
    /\ EdgesComplete
    /\ PendingShape
    /\ OneRunAtATime
    /\ WatermarkRowsOK
    /\ ResolvesRowsOK
    /\ NothingForgotten

\* Every RESOLVES row still to be written has its version's link before it, and
\* every link still to be written has its two nodes before it.
RowsAreAnchored ==
    \A w \in Writers :
        /\ \A row \in pending[w][ResolvesStep] :
            VersionOf(row.key) \in links \union pending[w][5]
        /\ \A l \in pending[w][5] : \E k \in Keys :
            /\ l = VersionOf(k)
            /\ VersionNode(k) \in nodes \union pending[w][3]
            /\ PackageNode(PackageOf[k]) \in nodes \union pending[w][2]

LinksHaveEnds == \A l \in links : l[1] \in nodes /\ l[2] \in nodes

\* Why every edge is anchored; inductive together with IInv.
AnchorInv ==
    /\ RowsAreAnchored
    /\ LinksHaveEnds
    /\ EveryEdgeIsAnchored

\* A repository gets its node before it gets its watermark; inductive together
\* with IInv.
ListedInv ==
    /\ \A r \in Repos : mark[r] # None => RepoNode(r) \in nodes
    /\ \A w \in Writers : \A m \in pending[w][WatermarkStep] :
        RepoNode(m.repo) \in nodes \union pending[w][1]

\* All that the writer's promises rest on: the covered past is exact, every edge
\* is anchored and every watermark listed, in the middle of any run.
WriterInv ==
    /\ IInv
    /\ AnchorInv
    /\ ListedInv
=============================================================================
