------------------------------- MODULE MCAnswers -------------------------------
(* Histories for TLC: up to four commits in two seconds, up to three of them in *)
(* one, or at most one commit in each of all the seconds.                       *)
EXTENDS Answers

CONSTANT bad

\* Up to one commit of a second resolves no version of the package.
Second == {S \in SUBSET [sha : 0 .. MaxSha, entries : SUBSET Keys] :
            /\ \A c, d \in S : c.sha = d.sha => c = d
            /\ Cardinality({c \in S : c.entries = {}}) <= 1}
At(t, S) == {[ts |-> t, sha |-> c.sha, entries |-> c.entries] : c \in S}

Crowded == {V \in {At(2, S) \union At(3, R) : S, R \in Second} :
                /\ Cardinality(V) <= 4
                /\ \A c \in V : c.entries # {}}
Sparse == {UNION {At(t, h[t]) : t \in Times} :
            h \in [Times -> {S \in Second : S = {} \/ \E e \in SUBSET Keys : S = {[sha |-> 0, entries |-> e]}}]}

MCInit == snaps \in Crowded \union Sparse /\ Begin /\ answer = NotAsked

MCSpec == MCInit /\ [][AnswersNext]_answersVars

IncidentWindow(start, end, first) == [start |-> start, end |-> end, first |-> first]

\* The last one lists no version of this package.
MCIncidents ==
    {[window |-> w, malicious |-> {bad}] :
        w \in {IncidentWindow(2, 4, 2), IncidentWindow(2, 4, 3), IncidentWindow(1, 3, 2)}} \union
    {[window |-> IncidentWindow(3, 5, 4), malicious |-> {}]}

\* A dataset whose list was read whole and whose probe answered.
DatasetOf(listed, ours, others, elsewhere, known) ==
    LET upto == [r \in Repos |-> IF r = Ours THEN ours ELSE others]
    IN  [listed |-> listed, upto |-> upto, marked |-> {r \in listed : upto[r] > 0},
         elsewhere |-> [t \in Times |-> IF t <= others THEN {} ELSE elsewhere],
         known |-> known, directory |-> listed, asked |-> TRUE, reachable |-> TRUE]

Whole == DatasetOf(Repos, SENTINEL, SENTINEL, {}, FALSE)

\* A healthy dataset; two cut directories, one with a probe that failed and one
\* without a probe, and a repository that resolved the bad version and was never
\* ingested; one repository ingested up to a second, with what a run that died
\* after it has written, beside one that was not; only the other one ingested;
\* no watermark yet; nothing at all.
MCCircumstances ==
    {Whole,
     [Whole EXCEPT !.directory = {Ours}, !.reachable = FALSE],
     [DatasetOf(Repos, SENTINEL, 0, {bad}, FALSE) EXCEPT !.directory = {Other}, !.asked = FALSE],
     DatasetOf(Repos, 2, 0, {bad}, FALSE),
     DatasetOf(Repos, 0, 3, {}, TRUE),
     DatasetOf(Repos, 0, 0, {bad}, FALSE),
     DatasetOf({}, 0, 0, {}, TRUE)}
=============================================================================
