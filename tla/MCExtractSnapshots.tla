-------------------------- MODULE MCExtractSnapshots --------------------------
(***************************************************************************)
(* The extraction for TLC, over two families of repositories of four       *)
(* commits: every one that is at rest after its second commit and has two  *)
(* paths, and lockfiles that are moved from commit to commit among three   *)
(* names while a fourth one stays where it is.                             *)
(***************************************************************************)
EXTENDS ExtractSnapshots, TLC

Interchangeable == Permutations(Keys)

\* Lockfiles are discovered, or the config names the first path.
MCConfigured == {{}, {1}}

\* Blobs are numbered from 1 in the order in which they occur.
Numbered(blobs) ==
    \A i \in DOMAIN blobs : blobs[i] <= 1 \/ \E j \in 1 .. i : blobs[j] = blobs[i] - 1

Resting ==
    {[c \in Commits |-> [n \in Names |->
        IF n > 2 THEN NoBlob ELSE IF c = 1 THEN bs[n] ELSE bs[n + 2]]] :
            bs \in {f \in [1 .. 4 -> Blobs \union {NoBlob}] : Numbered(f)}}

\* The lockfile that moves is at place[c] with the blob text[c], the other one
\* is there or not, and loses at the second commit what the first had.
Moving ==
    {[c \in Commits |-> [n \in Names |->
        IF n = place[c] THEN text[c]
        ELSE IF n = 4 /\ other THEN (IF c = 1 THEN 1 ELSE 2)
        ELSE NoBlob]] :
            place \in [Commits -> 1 .. 3], text \in [Commits -> 1 .. 2], other \in BOOLEAN}

\* Blobs that are not to be read mean nothing.
Known(f) == [b \in Blobs |-> IF b \in DOMAIN f THEN f[b] ELSE Json({})]

\* The trails, put together from what git may take for what at each commit.
Steps(c) == {s \in [Names -> Names] : \A n \in Names : s[n] \in Before(c, n)}
Joined(s4, s3, s2) ==
    [n \in Names |-> <<s2[s3[s4[n]]], s3[s4[n]], s4[n], n>>]
MCTrails == {Joined(s4, s3, s2) : s4 \in Steps(4), s3 \in Steps(3), s2 \in Steps(2)}

MCInit ==
    \/ /\ tree \in Resting
       /\ since \in 1 .. 2 /\ until = MaxCommits
       /\ trail \in MCTrails
       /\ Paired /\ OneKindPerBlob
       /\ \A n \in 3 .. 4 : kind[n] = "other"
       /\ readable \in {Occurring \ lost : lost \in SUBSET Fragile}
       /\ \E f \in [readable -> Meanings] : meaning = Known(f)
       /\ Settled
    \/ /\ tree \in Moving
       /\ since = 1 /\ until \in (MaxCommits - 1) .. MaxCommits
       /\ kind = [n \in Names |-> "npm"]
       /\ trail \in MCTrails
       /\ Paired /\ OneKindPerBlob
       /\ readable = Occurring
       /\ \E f \in [Occurring -> {Json({}), Text({})} \union {Json({key}) : key \in Keys}] :
            meaning = Known(f)
       /\ Settled

MCSpec == MCInit /\ [][Next]_vars
=============================================================================
