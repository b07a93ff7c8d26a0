-------------------------------- MODULE Dataset --------------------------------
(***************************************************************************)
(* The graph as a reader of one version at one instant meets it while      *)
(* somebody else ingests: what is listed, what the AS-OF read returns, and *)
(* for which repositories that is known to be what git says.  Ingest       *)
(* implements it for every version and instant; the read surfaces are      *)
(* modelled against it.                                                    *)
(***************************************************************************)
EXTENDS FiniteSets

CONSTANT Repos

VARIABLES
    truth,     \* repositories whose history resolves the version at the instant
    listed,    \* repositories that have a node
    known,     \* the version has a node
    resolved,  \* repositories the AS-OF read returns
    marked,    \* repositories that have a watermark
    covered    \* those whose watermark has reached the instant

dataset == <<truth, listed, known, resolved, marked, covered>>

EmptyDataset ==
    /\ truth = {}
    /\ listed = {}
    /\ known = FALSE
    /\ resolved = {}
    /\ marked = {}
    /\ covered = {}

\* Commits land and an ingest writes.  Nothing is taken back; what is covered
\* is as git says, and git does not change there any more.
Grow ==
    /\ truth' \in SUBSET Repos /\ truth' \intersect covered = truth \intersect covered
    /\ listed' \in SUBSET Repos /\ listed \subseteq listed'
    /\ marked' \in SUBSET listed' /\ marked \subseteq marked'
    /\ covered' \in SUBSET marked' /\ covered \subseteq covered'
    /\ known' \in BOOLEAN /\ (known => known')
    /\ resolved' \in (IF known' THEN SUBSET listed' ELSE {{}})
    /\ resolved' \intersect covered' = truth' \intersect covered'

\* The same, one repository and one variable at a time: every Grow is a sequence
\* of these (truth, listed, known, resolved, marked, covered, in this order), and
\* a reader whose reads may fall between them misses nothing.
GrowByOne ==
    \/ /\ \E r \in Repos \ covered :
            truth' = IF r \in truth THEN truth \ {r} ELSE truth \union {r}
       /\ UNCHANGED <<listed, known, resolved, marked, covered>>
    \/ /\ \E r \in Repos \ listed : listed' = listed \union {r}
       /\ UNCHANGED <<truth, known, resolved, marked, covered>>
    \/ /\ ~known /\ known' = TRUE
       /\ UNCHANGED <<truth, listed, resolved, marked, covered>>
    \/ /\ known
       /\ \E r \in listed \ covered :
            resolved' = IF r \in resolved THEN resolved \ {r} ELSE resolved \union {r}
       /\ UNCHANGED <<truth, listed, known, marked, covered>>
    \/ /\ \E r \in listed \ marked : marked' = marked \union {r}
       /\ UNCHANGED <<truth, listed, known, resolved, covered>>
    \/ /\ \E r \in {q \in marked \ covered : q \in resolved <=> q \in truth} :
            covered' = covered \union {r}
       /\ UNCHANGED <<truth, listed, known, resolved, marked>>

\* What a reader of the graph may take for granted at any moment.
DatasetOK ==
    /\ truth \subseteq Repos
    /\ listed \subseteq Repos
    /\ known \in BOOLEAN
    /\ resolved \subseteq listed
    /\ ~known => resolved = {}
    /\ marked \subseteq listed
    /\ covered \subseteq marked
    /\ resolved \intersect covered = truth \intersect covered

DatasetSpec == EmptyDataset /\ [][Grow]_dataset
=============================================================================
