------------------------------ MODULE ValidTime ------------------------------
(***************************************************************************)
(* The valid-time axis of the graph, as hindsight/history.py derives it    *)
(* from git.  A repository's history is a set of commits; the code sorts   *)
(* them by (committer time, sha), keeps those that resolve something, and  *)
(* diffs consecutive snapshots into half-open facts [valid_from, valid_to).*)
(* A key stands for one (package, version) pair of a lockfile.             *)
(***************************************************************************)
EXTENDS Integers

CONSTANTS
    Keys,    \* (package, version) pairs a lockfile can resolve
    MaxTs,   \* bound: committer timestamps are 1 .. MaxTs
    MaxSha   \* bound: commits of one second are ordered by sha, 0 .. MaxSha

ASSUME ValidTimeAssumption == MaxTs \in Nat /\ MaxSha \in Nat

Times == 1 .. MaxTs

\* The upper bound of an interval that is still open: later than any commit.
SENTINEL == MaxTs + 1

Commits == [ts : Times, sha : 0 .. MaxSha, entries : SUBSET Keys]

\* The order of sorted(commit_ts, key=lambda sha: (commit_ts[sha], sha)).
Before(c, d) == c.ts < d.ts \/ (c.ts = d.ts /\ c.sha < d.sha)

\* No two commits of a repository share a (time, sha) position.
IsHistory(V) ==
    /\ V \subseteq Commits
    /\ \A c, d \in V : c.ts = d.ts /\ c.sha = d.sha => c = d

\* A commit that resolves nothing emits no snapshot.
Snapshots(V) == {c \in V : c.entries # {}}

UpTo(V, t) == {c \in V : c.ts <= t}

\* ts of the newest snapshot, 0 when there is none.
LastTs(S) ==
    IF S = {} THEN 0
    ELSE CHOOSE t \in {c.ts : c \in S} : \A c \in S : c.ts <= t

-----------------------------------------------------------------------------
(* build_intervals, declaratively.                                         *)

\* p is the snapshot the loop handled just before c.
Precedes(S, p, c) ==
    /\ Before(p, c)
    /\ \A e \in S : ~(Before(p, e) /\ Before(e, c))

\* Snapshot c puts k into open_at: k was not open when the loop reached c.
Opens(S, c, k) ==
    /\ k \in c.entries
    /\ \A p \in S : Precedes(S, p, c) => k \notin p.entries

Openers(S, k, f) == {c \in S : c.ts = f /\ Opens(S, c, k)}

\* Several openings in one second share an edge id; the rows of one id are
\* written in time order, so the last opening is the one that stays.
LastOpener(S, k, f) ==
    CHOOSE c \in Openers(S, k, f) : \A d \in Openers(S, k, f) : ~Before(c, d)

\* Times at which a snapshot after c no longer resolves k.
Ends(S, c, k) == {d.ts : d \in {e \in S : Before(c, e) /\ k \notin e.entries}}

ValidTo(S, k, f) ==
    LET ends == Ends(S, LastOpener(S, k, f), k)
    IN  IF ends = {} THEN SENTINEL
        ELSE CHOOSE t \in ends : \A u \in ends : t <= u

\* The facts of a walk, one row per (key, valid_from).
Intervals(S) ==
    {[key |-> i[1], vf |-> i[2], vt |-> ValidTo(S, i[1], i[2])] :
        i \in {j \in Keys \X Times : Openers(S, j[1], j[2]) # {}}}

-----------------------------------------------------------------------------
(* The oracle: what the repository's newest commit at or before t said.    *)

ResolvedAsOf(V, t) ==
    {k \in Keys : \E c \in V :
        /\ c.ts <= t
        /\ k \in c.entries
        /\ \A d \in V : d.ts <= t => ~Before(c, d)}
=============================================================================
