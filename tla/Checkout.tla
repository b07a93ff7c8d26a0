------------------------------- MODULE Checkout -------------------------------
(***************************************************************************)
(* The checkout a run reads one repository from: materialize and collect   *)
(* of hindsight/cli.py.  A repository is given by URL, and kept as a       *)
(* blobless clone in a cache directory from run to run, or by a local      *)
(* path.  Its default branch is a set of commits, numbered in the order in *)
(* which they were made; it is rewritten, and a local checkout may have    *)
(* another branch, or an older commit, checked out.                        *)
(***************************************************************************)
EXTENDS Naturals

CONSTANTS
    MaxCommits,  \* bound: commits made
    MaxFailures, \* bound: times the network fails
    Rewritten    \* whether branches are rewritten, or only grow

ASSUME CheckoutAssumption ==
    /\ MaxCommits \in Nat \ {0}
    /\ MaxFailures \in Nat
    /\ Rewritten \in BOOLEAN

VARIABLES
    isLocal,   \* RepoSpec.is_local
    made,      \* commits made so far, on any branch
    remote,    \* commits of the repository's branch (of a local one, of its HEAD)
    window,    \* commits a run asks for: since and until, or a shallow checkout's depth
    target,    \* the directory: it exists, its HEAD, its remote-tracking ref, its index
    phase,     \* "idle", "materialize" or "load"
    built,     \* commits in the last build that included the repository
    failures

vars == <<isLocal, made, remote, window, target, phase, built, failures>>

Commits == 1 .. MaxCommits

NoDirectory == [exists |-> FALSE, head |-> {}, origin |-> {}, index |-> FALSE]
CloneOf(branch) == [exists |-> TRUE, head |-> branch, origin |-> branch, index |-> TRUE]

\* Mutant: a local path is looked up in the cache.
SourceInCache == target

\* The directory a run reads from.
Source == IF isLocal THEN CloneOf(remote) ELSE target

\* Mutant: the checkout is reset to what the fetch brought.
Reset(branch) == [target EXCEPT !.origin = branch, !.head = branch]

\* git fetch moves the remote-tracking refs; HEAD and the index stay.
Fetched(branch) == [target EXCEPT !.origin = branch]

Push ==
    /\ made < MaxCommits
    /\ made' = made + 1
    /\ remote' = remote \union {made'}
    /\ UNCHANGED <<isLocal, window, target, phase, built, failures>>

\* A forced push, a reset, a rebase on what is there, another branch checked out.
Rewrite ==
    /\ Rewritten
    /\ remote' \in SUBSET (1 .. made) \ {{}}
    /\ UNCHANGED <<isLocal, made, window, target, phase, built, failures>>

\* The window of the config may have been edited since the last run.
StartRun ==
    /\ phase = "idle"
    /\ \E since, until \in Commits : window' = since .. until
    /\ phase' = "materialize"
    /\ UNCHANGED <<isLocal, made, remote, target, built, failures>>

\* materialize, when nothing has to be transferred (a local path, --no-fetch)
\* or the transfer succeeds.
Found ==
    /\ phase = "materialize"
    /\ isLocal \/ target.exists
    /\ phase' = "load"
    /\ UNCHANGED <<isLocal, made, remote, window, target, built, failures>>

Fetch ==
    /\ phase = "materialize"
    /\ ~isLocal /\ target.exists
    /\ target' = Fetched(remote)
    /\ phase' = "load"
    /\ UNCHANGED <<isLocal, made, remote, window, built, failures>>

Clone ==
    /\ phase = "materialize"
    /\ ~isLocal /\ ~target.exists
    /\ target' = CloneOf(remote)
    /\ phase' = "load"
    /\ UNCHANGED <<isLocal, made, remote, window, built, failures>>

NetworkFails ==
    /\ failures < MaxFailures
    /\ failures' = failures + 1

\* A fetch that failed is not noticed.
FetchFails ==
    /\ phase = "materialize"
    /\ ~isLocal /\ target.exists
    /\ NetworkFails
    /\ phase' = "load"
    /\ UNCHANGED <<isLocal, made, remote, window, target, built>>

\* What a failed clone leaves: git removes the directory, unless the refs had
\* been fetched and only the checkout failed (the blobs of a blobless clone
\* come with it), or git itself was killed.
Remains == {NoDirectory} \union {[CloneOf(b) EXCEPT !.index = FALSE] : b \in {{}, remote}}

\* The repository is skipped by this run: no build of it, no watermark.
CloneFails ==
    /\ phase = "materialize"
    /\ ~isLocal /\ ~target.exists
    /\ NetworkFails
    /\ target' \in Remains
    /\ phase' = "idle"
    /\ UNCHANGED <<isLocal, made, remote, window, built>>

\* load_history discovers the lockfiles in the index (a config that names them
\* is not modelled) and walks the window back from HEAD.
Load ==
    /\ phase = "load"
    /\ built' = IF Source.index THEN Source.head \intersect window ELSE {}
    /\ phase' = "idle"
    /\ UNCHANGED <<isLocal, made, remote, window, target, failures>>

Init ==
    /\ isLocal \in BOOLEAN
    /\ made = 1
    /\ remote = {1}
    /\ window = {}
    /\ target = NoDirectory
    /\ phase = "idle"
    /\ built = {}
    /\ failures = 0

Next ==
    \/ Push
    \/ Rewrite
    \/ StartRun
    \/ Found
    \/ Fetch
    \/ Clone
    \/ FetchFails
    \/ CloneFails
    \/ Load

\* The tool is run again and again, and fetches when it can.
Fairness ==
    /\ WF_vars(StartRun)
    /\ WF_vars(Clone)
    /\ SF_vars(Fetch)
    /\ WF_vars(Found)
    /\ WF_vars(Load)

Spec == Init /\ [][Next]_vars /\ Fairness

-----------------------------------------------------------------------------

\* ingest.py: a build can move backwards.  Only what was asked for takes a commit
\* away that the build before had: it is outside the window, or no longer on the
\* branch of a local checkout.  A branch rewritten upstream, a fetch that failed,
\* a clone that was cut short and a run without a fetch take nothing.
BuildsLoseByChoice ==
    [][\A c \in built \ built' : c \notin window \/ (isLocal /\ c \notin remote)]_vars

\* From some time on the commit is on the branch and in the window of every run.
Stays(c) == <>[](c \in remote /\ (phase = "load" => c \in window))

\* A commit that stays on the branch of a local checkout is from some time on
\* part of every build.
LocalIsEventuallyBuilt == \A c \in Commits : isLocal /\ Stays(c) => <>[](c \in built)

\* org.example.yaml: the cache directory is where remote repositories are
\* cloned and refreshed: a commit that stays on the branch is from some time on
\* part of every build.
PushedIsEventuallyBuilt == \A c \in Commits : Stays(c) => <>[](c \in built)
=============================================================================
