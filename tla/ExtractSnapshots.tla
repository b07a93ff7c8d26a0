--------------------------- MODULE ExtractSnapshots ---------------------------
(***************************************************************************)
(* From a repository's commits to its snapshots: discover_lockfiles,       *)
(* follow_path and extract_snapshots of hindsight/history.py.  What git    *)
(* holds is an input: which blob each path has at each commit of a linear  *)
(* history, and what each of the two parsers makes of a blob.              *)
(***************************************************************************)
EXTENDS Integers, FiniteSets

CONSTANTS
    Keys,        \* (package, version) pairs a lockfile can resolve
    Blobs, NoBlob,
    Fragile,     \* blobs whose lazy fetch may fail
    MaxCommits,  \* bound: commits 1 .. MaxCommits, in order of time
    MaxNames,    \* bound: paths 1 .. MaxNames, in the order they sort
    Configured   \* the `lockfiles' lists a config may give, {} to discover them

ASSUME ExtractAssumption ==
    /\ MaxCommits \in Nat \ {0}
    /\ MaxNames \in Nat \ {0}
    /\ NoBlob \notin Blobs
    /\ Fragile \subseteq Blobs
    /\ Configured \subseteq SUBSET (1 .. MaxNames)

VARIABLES
    tree,       \* the blob of each path at each commit
    kind,       \* what the name of a path ends in
    meaning,    \* what each parser makes of each blob
    readable,   \* blobs git can read today (lazy fetch of a blobless clone)
    trail,      \* the name that git gives each path at each commit, walking back
    since, until, \* first and last commit of the requested window
    lockfiles,  \* the `lockfiles' argument
    state,      \* "start", "reading", "done" or "died"
    left,       \* commits still to be handled
    names,      \* names of the commit under way still to be looked at
    entries,    \* what its lockfiles have resolved so far
    parsed,     \* memo of parse results, by blob
    snapshots,  \* entries of the commits that became a snapshot
    skipped     \* commits dropped

repository == <<tree, kind, meaning, readable, trail, since, until, lockfiles>>
vars == <<repository, state, left, names, entries, parsed, snapshots, skipped>>

Commits == 1 .. MaxCommits
Names == 1 .. MaxNames
Least(S) == CHOOSE i \in S : \A j \in S : i <= j

\* Results of a parse.  "odd" is JSON that is no object: it raises neither
\* ValueError nor KeyError.
Unparsed == [tag |-> "unparsed", keys |-> {}]
Bad == [tag |-> "bad", keys |-> {}]
Odd == [tag |-> "odd", keys |-> {}]
Ok(keys) == [tag |-> "ok", keys |-> keys]

-----------------------------------------------------------------------------
(* git.                                                                    *)

BlobAt(c, n) == IF c = 0 THEN NoBlob ELSE tree[c][n]
Touched(c, n) == BlobAt(c, n) # BlobAt(c - 1, n)
Created(c, n) == BlobAt(c - 1, n) = NoBlob /\ BlobAt(c, n) # NoBlob

\* The names that what commit c calls n may have had one commit earlier.  Where
\* n is created git looks for a path that it was renamed or copied from: one of
\* the same content if there is one, else one that it finds similar, if any.  It
\* does not look at commits beyond the window.
Before(c, n) ==
    LET others == {m \in Names \ {n} : BlobAt(c - 1, m) # NoBlob}
        same == {m \in others : BlobAt(c - 1, m) = BlobAt(c, n)}
    IN  IF c > until \/ ~Created(c, n) THEN {n}
        ELSE IF same # {} THEN same ELSE others \union {n}

\* Walking back from HEAD, through any number of renames.  What git takes a path
\* for depends on the commit and on the name that it is at, so that walks which
\* meet stay together.
Trails ==
    LET walks == {t \in [Commits -> Names] :
                    \A c \in Commits : c > 1 => t[c - 1] \in Before(c, t[c])}
    IN  {f \in [Names -> walks] :
            /\ \A n \in Names : f[n][MaxCommits] = n
            /\ \A n, m \in Names : \A c \in Commits :
                    c > 1 /\ f[n][c] = f[m][c] => f[n][c - 1] = f[m][c - 1]}

\* Mutant: one rename is followed, and the next one is not.
OneRename(n) ==
    LET name(c) == trail[n][c]
    IN  {<<c, name(c)>> : c \in {d \in since .. until :
            Touched(d, name(d)) /\ \A e \in d .. MaxCommits : name(e) \in {name(d), n}}}

\* git log --follow: the commits it lists for a path, and each with its name.
Followed(n) ==
    {<<c, trail[n][c]>> : c \in {d \in since .. until : Touched(d, trail[n][d])}}

-----------------------------------------------------------------------------
(* discover_lockfiles and follow_path.                                     *)

IsLockfile(n) == kind[n] # "other"

\* Lockfiles tracked at HEAD.
Discovered == {n \in Names : IsLockfile(n) /\ BlobAt(MaxCommits, n) # NoBlob}

Paths == IF lockfiles = {} THEN Discovered ELSE lockfiles

\* follow_path of every lockfile, within the window.
Walked == UNION {Followed(n) : n \in Paths}
WalkedCommits == {w[1] : w \in Walked}

EveryName == Paths \union {w[2] : w \in Walked}

-----------------------------------------------------------------------------
(* extract_snapshots.                                                      *)

\* parse_lockfile dispatches on the name.
Parse(n, b) ==
    IF b \notin readable \/ ~IsLockfile(n) THEN Bad ELSE meaning[b][kind[n]]

Current == Least(left)

\* Mutant: a blob that cannot be parsed is taken for an empty one.
BrokenIsEmpty(n) ==
    LET b == BlobAt(Current, n)
    IN  IF parsed[b] # Unparsed THEN parsed[b]
        ELSE IF Parse(n, b) = Bad THEN Ok({}) ELSE Parse(n, b)

\* The parse is remembered by blob.
Content(n) ==
    LET b == BlobAt(Current, n)
    IN  IF parsed[b] # Unparsed THEN parsed[b] ELSE Parse(n, b)

NextName == Least(names)
Reading == state = "reading" /\ left # {} /\ names # {}

Walk ==
    /\ state = "start"
    /\ left' = WalkedCommits
    /\ names' = EveryName
    /\ state' = IF WalkedCommits = {} THEN "done" ELSE "reading"
    /\ UNCHANGED <<repository, entries, parsed, snapshots, skipped>>

\* Mutant: what is resolved at one commit is carried into the next.
CarryOn ==
    /\ left' = left \ {Current}
    /\ names' = EveryName
    /\ state' = IF left' = {} THEN "done" ELSE "reading"
    /\ UNCHANGED entries

\* On to the next commit.
NextCommit ==
    /\ left' = left \ {Current}
    /\ names' = EveryName
    /\ entries' = {}
    /\ state' = IF left' = {} THEN "done" ELSE "reading"

PassOver ==
    /\ Reading
    /\ BlobAt(Current, NextName) = NoBlob
    /\ names' = names \ {NextName}
    /\ UNCHANGED <<repository, state, left, entries, parsed, snapshots, skipped>>

Read ==
    /\ Reading
    /\ BlobAt(Current, NextName) # NoBlob
    /\ Content(NextName).tag = "ok"
    /\ entries' = entries \union Content(NextName).keys
    /\ parsed' = [parsed EXCEPT ![BlobAt(Current, NextName)] = Content(NextName)]
    /\ names' = names \ {NextName}
    /\ UNCHANGED <<repository, state, left, snapshots, skipped>>

\* Mutant: every exception is caught and what it was is remembered.
SkipAny ==
    /\ Reading
    /\ BlobAt(Current, NextName) # NoBlob
    /\ Content(NextName).tag # "ok"
    /\ parsed' = [parsed EXCEPT ![BlobAt(Current, NextName)] = Content(NextName)]
    /\ skipped' = skipped \union {Current}
    /\ NextCommit
    /\ UNCHANGED <<repository, snapshots>>

\* One lockfile of the commit is broken: the whole commit is dropped.
Skip ==
    /\ Reading
    /\ BlobAt(Current, NextName) # NoBlob
    /\ Content(NextName).tag = "bad"
    /\ parsed' = [parsed EXCEPT ![BlobAt(Current, NextName)] = Bad]
    /\ skipped' = skipped \union {Current}
    /\ NextCommit
    /\ UNCHANGED <<repository, snapshots>>

\* The exception of an odd blob passes every handler up to the command line.
Die ==
    /\ Reading
    /\ BlobAt(Current, NextName) # NoBlob
    /\ Content(NextName).tag = "odd"
    /\ state' = "died"
    /\ UNCHANGED <<repository, left, names, entries, parsed, snapshots, skipped>>

\* Every name has been looked at: a commit that resolves something is emitted.
Emit ==
    /\ state = "reading" /\ names = {}
    /\ snapshots' = [snapshots EXCEPT ![Current] = entries]
    /\ NextCommit
    /\ UNCHANGED <<repository, parsed, skipped>>

\* What a blob can be: a package-lock, the text of a yarn.lock (or anything
\* else that is no JSON), or JSON that is no object.
Json(keys) == [npm |-> Ok(keys), yarn |-> Ok({})]
Text(keys) == [npm |-> Bad, yarn |-> Ok(keys)]
OddJson == [npm |-> Odd, yarn |-> Ok({})]
Meanings == {Json(ks) : ks \in SUBSET Keys} \union {Text(ks) : ks \in SUBSET Keys}
                \union {OddJson}

\* No blob is found under names of different kinds: the memo is kept by blob, and
\* would give the parse by one kind to a name of the other.
OneKindPerBlob ==
    \A c, d \in Commits : \A n, m \in Names :
        BlobAt(c, n) # NoBlob /\ BlobAt(c, n) = BlobAt(d, m) => kind[n] = kind[m]

Occurring == {BlobAt(c, n) : c \in Commits, n \in Names} \ {NoBlob}

Paired ==
    /\ tree \in [Commits -> [Names -> Blobs \union {NoBlob}]]
    /\ since \in Commits /\ until \in Commits
    /\ trail \in Trails
    /\ kind \in [Names -> {"npm", "yarn", "other"}]

Settled ==
    /\ readable \in {Occurring \ lost : lost \in SUBSET Fragile}
    /\ meaning \in [Blobs -> Meanings]
    /\ \A b \in Blobs \ readable : meaning[b] = Json({})  \* of no consequence
    /\ lockfiles \in Configured
    /\ state = "start"
    /\ left = {}
    /\ names = {}
    /\ entries = {}
    /\ parsed = [b \in Blobs |-> Unparsed]
    /\ snapshots = [c \in Commits |-> {}]
    /\ skipped = {}

Init == Paired /\ OneKindPerBlob /\ Settled

Next == Walk \/ PassOver \/ Read \/ Skip \/ Die \/ Emit

Spec == Init /\ [][Next]_vars

-----------------------------------------------------------------------------

TypeOK ==
    /\ state \in {"start", "reading", "done", "died"}
    /\ left \subseteq Commits
    /\ names \subseteq Names
    /\ entries \subseteq Keys
    /\ parsed \in [Blobs -> {Unparsed, Bad} \union {Ok(ks) : ks \in SUBSET Keys}]
    /\ snapshots \in [Commits -> SUBSET Keys]
    /\ skipped \subseteq WalkedCommits

\* What the names in S resolve at commit c, by the parser of each name.
ClosureOf(S, c) ==
    UNION {Parse(n, BlobAt(c, n)).keys : n \in {m \in S : BlobAt(c, m) # NoBlob}}

Handled == IF state = "start" THEN {} ELSE WalkedCommits \ left

\* Every walked commit is accounted for, whatever the memo held by then: it is
\* dropped exactly when one of its lockfiles cannot be read or parsed, and
\* otherwise its snapshot is the union of all of them, never a part.  (TypeOK
\* says of the memo that it never holds a failure which was not caught.)
EveryCommitIsWholeOrSkipped ==
    /\ TypeOK
    /\ \A c \in Handled :
            LET broken == \E n \in EveryName :
                    BlobAt(c, n) # NoBlob /\ Parse(n, BlobAt(c, n)) = Bad
            IN  /\ c \in skipped <=> broken
                /\ snapshots[c] = IF broken THEN {} ELSE ClosureOf(EveryName, c)

\* The name a walked lockfile had at commit c.
NameAt(path, c) == trail[path][c]

\* Neither a rename, nor the one before it, nor a lockfile that does not parse is
\* read as a deletion: over a walk of all the history, a key that an emitted
\* snapshot has and a later one lacks is in none of the walked lockfiles at that
\* later commit, each under the name it had there, and all of them parse there.
RemovalsAreReal ==
    since = 1 /\ until = MaxCommits =>
        \A c, d \in Handled : \A k \in snapshots[c] \ snapshots[d] :
            c < d /\ snapshots[d] # {} =>
                \A path \in Paths :
                    LET b == BlobAt(d, NameAt(path, d))
                    IN  b # NoBlob => /\ Parse(NameAt(path, d), b).tag # "bad"
                                      /\ k \notin Parse(NameAt(path, d), b).keys
=============================================================================
