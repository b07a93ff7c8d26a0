----------------------------- MODULE ExtractProofs -----------------------------
(***************************************************************************)
(* From commits to snapshots, for any repository: a walked commit is taken *)
(* whole or dropped, though the parses of its lockfiles come from a memo   *)
(* of others, and what a later snapshot lacks was removed.                 *)
(***************************************************************************)
EXTENDS ExtractSnapshots, WellFoundedInduction, TLAPS

-----------------------------------------------------------------------------
(* Numbers, names and walks.                                               *)

\* A set of numbers has a least element.
LEMMA LeastIsThere ==
    ASSUME NEW S, S \subseteq Nat, S # {}
    PROVE  Least(S) \in S /\ \A t \in S : Least(S) <= t
<1> DEFINE R == {p \in Nat \X Nat : p[1] < p[2]}
<1>1. R = OpToRel(<, Nat)
  BY DEF OpToRel
<1>2. PICK x \in S : \A y \in S : ~(<<y, x>> \in R)
  BY <1>1, NatLessThanWellFounded, WFMin
<1>3. ASSUME NEW y \in S PROVE x <= y
  <2>1. x \in Nat /\ y \in Nat
    OBVIOUS
  <2>2. <<y, x>> \in R <=> y < x
    BY <2>1
  <2> QED
    BY <1>2, <2>1, <2>2
<1> QED
  BY <1>3 DEF Least

\* What git holds, as one run of the extraction finds it.
RepositoryOK ==
    /\ Paired /\ OneKindPerBlob
    /\ readable \subseteq Blobs
    /\ meaning \in [Blobs -> Meanings]
    /\ lockfiles \subseteq Names

LEMMA BlobTypes ==
    ASSUME RepositoryOK, NEW c \in Commits, NEW n \in Names
    PROVE  BlobAt(c, n) \in Blobs \union {NoBlob} /\ c # 0
BY ExtractAssumption DEF RepositoryOK, Paired, BlobAt, Commits, Names

\* A path has a name at every commit, which is another one a commit earlier only
\* where the path comes to be.
LEMMA TrailTypes ==
    ASSUME RepositoryOK
    PROVE  /\ trail \in [Names -> [Commits -> Names]]
           /\ \A n \in Names : \A c \in Commits :
                c > 1 /\ ~Created(c, trail[n][c]) => trail[n][c - 1] = trail[n][c]
<1> DEFINE walks == {t \in [Commits -> Names] :
                        \A c \in Commits : c > 1 => t[c - 1] \in Before(c, t[c])}
<1>1. trail \in [Names -> walks]
  BY DEF RepositoryOK, Paired, Trails
<1>2. ASSUME NEW n \in Names, NEW c \in Commits, c > 1, ~Created(c, trail[n][c])
      PROVE  trail[n][c - 1] = trail[n][c]
  <2>1. trail[n][c - 1] \in Before(c, trail[n][c])
    BY <1>1, <1>2
  <2>2. Before(c, trail[n][c]) = {trail[n][c]}
    BY <1>2 DEF Before
  <2> QED
    BY <2>1, <2>2
<1>3. trail \in [Names -> [Commits -> Names]]
  BY <1>1
<1> QED
  BY <1>2, <1>3

\* The walk is of the repository's commits and paths.
LEMMA WalkTypes ==
    ASSUME RepositoryOK
    PROVE  /\ Paths \subseteq Names /\ EveryName \subseteq Names
           /\ WalkedCommits \subseteq Commits
<1>1. Paths \subseteq Names
  BY DEF RepositoryOK, Paths, Discovered
<1>2. ASSUME NEW n \in Names, NEW w \in Followed(n)
      PROVE  w[1] \in Commits /\ w[2] \in Names
  <2>1. PICK c \in since .. until : w = <<c, trail[n][c]>>
    BY <1>2 DEF Followed
  <2>2. c \in Commits
    BY ExtractAssumption DEF RepositoryOK, Paired, Commits
  <2>3. trail[n][c] \in Names
    BY <2>2, TrailTypes
  <2> QED
    BY <2>1, <2>2, <2>3
<1>3. \A w \in Walked : w[1] \in Commits /\ w[2] \in Names
  BY <1>1, <1>2 DEF Walked
<1> QED
  BY <1>1, <1>3 DEF EveryName, WalkedCommits

\* A parse gives keys, or fails in one of two ways.
LEMMA ParseTypes ==
    ASSUME RepositoryOK, NEW n \in Names, NEW b \in Blobs
    PROVE  /\ Parse(n, b) \in {Bad, Odd} \union {Ok(ks) : ks \in SUBSET Keys}
           /\ Parse(n, b).tag = "bad" <=> Parse(n, b) = Bad
           /\ Parse(n, b).tag = "ok" => Parse(n, b) \in {Ok(ks) : ks \in SUBSET Keys}
           /\ Parse(n, b).keys \subseteq Keys
           /\ Parse(n, b) # Unparsed
<1>1. kind[n] \in {"npm", "yarn", "other"} /\ meaning[b] \in Meanings
  BY DEF RepositoryOK, Paired
<1>2. \A m \in Meanings :
        /\ m["npm"] \in {Bad, Odd} \union {Ok(ks) : ks \in SUBSET Keys}
        /\ m["yarn"] \in {Bad, Odd} \union {Ok(ks) : ks \in SUBSET Keys}
  <2>1. \A ks \in SUBSET Keys :
            /\ Json(ks)["npm"] = Ok(ks) /\ Json(ks)["yarn"] = Ok({})
            /\ Text(ks)["npm"] = Bad /\ Text(ks)["yarn"] = Ok(ks)
    BY DEF Json, Text
  <2>2. OddJson["npm"] = Odd /\ OddJson["yarn"] = Ok({})
    BY DEF OddJson
  <2> QED
    BY <2>1, <2>2 DEF Meanings
<1>3. Parse(n, b) \in {Bad, Odd} \union {Ok(ks) : ks \in SUBSET Keys}
  BY <1>1, <1>2 DEF Parse, IsLockfile
<1> DEFINE p == Parse(n, b)
<1>4. p \in {Bad, Odd} \union {Ok(ks) : ks \in SUBSET Keys}
  BY <1>3
<1> HIDE DEF p
<1>5. /\ p.tag = "bad" <=> p = Bad
      /\ p.tag = "ok" => p \in {Ok(ks) : ks \in SUBSET Keys}
      /\ p.keys \subseteq Keys /\ p # Unparsed
  BY <1>4 DEF Bad, Odd, Ok, Unparsed
<1> QED
  BY <1>3, <1>5 DEF p

\* A blob reads the same under all of its names.
LEMMA ParseOfBlob ==
    ASSUME RepositoryOK, NEW c \in Commits, NEW d \in Commits, NEW n \in Names, NEW m \in Names,
           BlobAt(c, n) # NoBlob, BlobAt(c, n) = BlobAt(d, m)
    PROVE  Parse(n, BlobAt(c, n)) = Parse(m, BlobAt(d, m))
BY DEF RepositoryOK, OneKindPerBlob, Parse, IsLockfile

\* What the names of S resolve, name by name.
LEMMA ClosureMember ==
    ASSUME NEW S, NEW c, NEW k
    PROVE  k \in ClosureOf(S, c) <=>
                \E n \in S : BlobAt(c, n) # NoBlob /\ k \in Parse(n, BlobAt(c, n)).keys
BY DEF ClosureOf

\* Nothing that is read of git is moved by reading it.
LEMMA RepositoryStays ==
    ASSUME UNCHANGED repository
    PROVE  /\ RepositoryOK' = RepositoryOK
           /\ Paths' = Paths /\ EveryName' = EveryName /\ WalkedCommits' = WalkedCommits
           /\ \A c, n : BlobAt(c, n)' = BlobAt(c, n)
           /\ \A n, b : Parse(n, b)' = Parse(n, b)
           /\ \A S, c : ClosureOf(S, c)' = ClosureOf(S, c)
<1> USE DEF repository
<1>1. \A c, n : BlobAt(c, n)' = BlobAt(c, n)
  BY DEF BlobAt
<1>2. \A n : IsLockfile(n)' = IsLockfile(n)
  BY DEF IsLockfile
<1>3. \A n, b : Parse(n, b)' = Parse(n, b)
  BY DEF Parse, IsLockfile
<1>4. \A S, c : ClosureOf(S, c)' = ClosureOf(S, c)
  BY <1>1, <1>3 DEF ClosureOf
<1>5. Paths' = Paths
  BY <1>1, <1>2 DEF Paths, Discovered
<1>6. \A c, n : Touched(c, n)' = Touched(c, n) /\ Before(c, n)' = Before(c, n)
  BY <1>1 DEF Touched, Created, Before
<1>7. \A n : Followed(n)' = Followed(n)
  BY <1>6 DEF Followed
<1>8. Walked' = Walked
  BY <1>5, <1>7 DEF Walked
<1>9. EveryName' = EveryName /\ WalkedCommits' = WalkedCommits
  BY <1>5, <1>8 DEF EveryName, WalkedCommits
<1>10. Trails' = Trails
  BY <1>6 DEF Trails
<1>11. RepositoryOK' = RepositoryOK
  BY <1>1, <1>10 DEF RepositoryOK, Paired, OneKindPerBlob
<1> QED
  BY <1>1, <1>3, <1>4, <1>5, <1>9, <1>11

-----------------------------------------------------------------------------
(* The invariant of the extraction.                                        *)

Broken(c) == \E n \in EveryName :
    BlobAt(c, n) # NoBlob /\ Parse(n, BlobAt(c, n)) = Bad

ProgressOK ==
    /\ state \in {"start", "reading", "done", "died"}
    /\ left \subseteq WalkedCommits /\ names \subseteq EveryName
    /\ state = "start" => left = {} /\ skipped = {} /\ entries = {}
                          /\ snapshots = [c \in Commits |-> {}]
    /\ state = "reading" => left # {}

\* The memo holds, of every blob that it knows, what the parser of any of the
\* blob's names makes of it; an exception that was not caught is not remembered.
MemoOK ==
    /\ parsed \in [Blobs -> {Unparsed, Bad} \union {Ok(ks) : ks \in SUBSET Keys}]
    /\ \A c \in Commits : \A n \in Names :
            BlobAt(c, n) # NoBlob /\ parsed[BlobAt(c, n)] # Unparsed =>
                parsed[BlobAt(c, n)] = Parse(n, BlobAt(c, n))

\* The names of the commit that have been looked at all parse, and the entries
\* are what they resolve.
EntriesOK ==
    /\ entries \subseteq Keys
    /\ state = "reading" =>
        /\ \A n \in EveryName \ names :
                BlobAt(Current, n) # NoBlob => Parse(n, BlobAt(Current, n)).tag = "ok"
        /\ entries = ClosureOf(EveryName \ names, Current)

\* What has become of the commits: those still to be handled have no snapshot.
OutcomesOK ==
    /\ snapshots \in [Commits -> SUBSET Keys]
    /\ skipped \subseteq Handled
    /\ \A c \in Commits \ Handled : snapshots[c] = {}
    /\ \A c \in Handled :
            /\ c \in skipped <=> Broken(c)
            /\ snapshots[c] = IF Broken(c) THEN {} ELSE ClosureOf(EveryName, c)

ExtractInv == RepositoryOK /\ ProgressOK /\ MemoOK /\ EntriesOK /\ OutcomesOK

LEMMA ExtractInitially == Init => ExtractInv
<1> SUFFICES ASSUME Init PROVE ExtractInv
  OBVIOUS
<1>1. RepositoryOK
  <2>1. readable \subseteq Blobs
    <3>1. PICK lost \in SUBSET Fragile : readable = Occurring \ lost
      BY DEF Init, Settled
    <3>2. Occurring \subseteq Blobs
      <4>1. \A c \in Commits, n \in Names : BlobAt(c, n) \in Blobs \union {NoBlob}
        BY ExtractAssumption DEF Init, Paired, BlobAt, Commits
      <4> QED
        BY <4>1 DEF Occurring
    <3> QED
      BY <3>1, <3>2
  <2>2. lockfiles \subseteq Names
    BY ExtractAssumption DEF Init, Settled, Names
  <2> QED
    BY <2>1, <2>2 DEF Init, Settled, RepositoryOK
<1>2. ProgressOK
  BY DEF Init, Settled, ProgressOK
<1>3. MemoOK
  <2>1. parsed = [b \in Blobs |-> Unparsed]
    BY DEF Init, Settled
  <2>2. \A c \in Commits, n \in Names : BlobAt(c, n) # NoBlob => BlobAt(c, n) \in Blobs
    BY <1>1, BlobTypes
  <2> QED
    BY <2>1, <2>2 DEF MemoOK
<1>4. EntriesOK /\ OutcomesOK
  BY DEF Init, Settled, EntriesOK, OutcomesOK, Handled
<1> QED
  BY <1>1, <1>2, <1>3, <1>4 DEF ExtractInv

\* The memo never says anything else than a parse would.
LEMMA ContentIsParse ==
    ASSUME RepositoryOK, MemoOK, Current \in Commits, NextName \in Names,
           BlobAt(Current, NextName) # NoBlob
    PROVE  /\ Content(NextName) = Parse(NextName, BlobAt(Current, NextName))
           /\ BlobAt(Current, NextName) \in Blobs
<1>1. BlobAt(Current, NextName) \in Blobs
  BY BlobTypes
<1> QED
  BY <1>1 DEF MemoOK, Content

\* A parse that is remembered is a parse by any name of the blob.
LEMMA MemoGrows ==
    ASSUME RepositoryOK, MemoOK, UNCHANGED repository,
           NEW c \in Commits, NEW n \in Names, BlobAt(c, n) # NoBlob,
           Parse(n, BlobAt(c, n)) # Odd,
           parsed' = [parsed EXCEPT ![BlobAt(c, n)] = Parse(n, BlobAt(c, n))]
    PROVE  MemoOK'
<1> DEFINE b == BlobAt(c, n)
           p == Parse(n, b)
<1>1. b \in Blobs /\ p \in {Bad} \union {Ok(ks) : ks \in SUBSET Keys}
  BY BlobTypes, ParseTypes
<1>2. parsed' \in [Blobs -> {Unparsed, Bad} \union {Ok(ks) : ks \in SUBSET Keys}]
  BY <1>1 DEF MemoOK
<1>3. ASSUME NEW d \in Commits, NEW m \in Names, BlobAt(d, m) # NoBlob,
             parsed'[BlobAt(d, m)] # Unparsed
      PROVE  parsed'[BlobAt(d, m)] = Parse(m, BlobAt(d, m))
  <2>1. BlobAt(d, m) \in Blobs
    BY <1>3, BlobTypes
  <2>2. CASE BlobAt(d, m) = b
    <3>1. Parse(m, BlobAt(d, m)) = p
      BY <1>3, <2>2, ParseOfBlob
    <3>2. parsed'[b] = p
      BY <1>1 DEF MemoOK
    <3> QED
      BY <2>2, <3>1, <3>2
  <2>3. CASE BlobAt(d, m) # b
    <3>1. parsed'[BlobAt(d, m)] = parsed[BlobAt(d, m)]
      BY <1>1, <2>1, <2>3 DEF MemoOK
    <3> QED
      BY <1>3, <3>1 DEF MemoOK
  <2> QED
    BY <2>2, <2>3
<1>4. (\A d, m : BlobAt(d, m)' = BlobAt(d, m)) /\ (\A m, e : Parse(m, e)' = Parse(m, e))
  BY RepositoryStays
<1> QED
  BY <1>2, <1>3, <1>4 DEF MemoOK

LEMMA MemoStays ==
    ASSUME MemoOK, UNCHANGED <<repository, parsed>>
    PROVE  MemoOK'
<1>1. (\A d, m : BlobAt(d, m)' = BlobAt(d, m)) /\ (\A m, e : Parse(m, e)' = Parse(m, e))
  BY RepositoryStays
<1> QED
  BY <1>1 DEF MemoOK

\* The commit and the name that are under way.
LEMMA UnderWay ==
    ASSUME ExtractInv, state = "reading"
    PROVE  /\ Current \in left /\ Current \in Commits /\ Current \in WalkedCommits
           /\ names # {} => NextName \in names /\ NextName \in EveryName /\ NextName \in Names
<1>1. left \subseteq Nat /\ left # {} /\ names \subseteq Nat
  BY WalkTypes DEF ExtractInv, ProgressOK, Commits, Names
<1>2. Current \in left
  BY <1>1, LeastIsThere DEF Current
<1>3. names # {} => NextName \in names
  BY <1>1, LeastIsThere DEF NextName
<1> QED
  BY <1>2, <1>3, WalkTypes DEF ExtractInv, ProgressOK

\* A name of the commit has been looked at, and found not to be there or to parse.
LEMMA LookedAt ==
    ASSUME ExtractInv, Reading, UNCHANGED <<repository, state, left, snapshots, skipped>>,
           names' = names \ {NextName},
           \/ BlobAt(Current, NextName) = NoBlob /\ entries' = entries
           \/ /\ BlobAt(Current, NextName) # NoBlob
              /\ Parse(NextName, BlobAt(Current, NextName)).tag = "ok"
              /\ entries' = entries \union Parse(NextName, BlobAt(Current, NextName)).keys
    PROVE  ProgressOK' /\ EntriesOK' /\ OutcomesOK'
<1> USE DEF ExtractInv, Reading
<1>1. /\ EveryName' = EveryName /\ WalkedCommits' = WalkedCommits
      /\ \A c, n : BlobAt(c, n)' = BlobAt(c, n)
      /\ \A n, b : Parse(n, b)' = Parse(n, b)
      /\ \A S, c : ClosureOf(S, c)' = ClosureOf(S, c)
  BY RepositoryStays
<1>2. /\ Current \in Commits /\ NextName \in names /\ NextName \in EveryName /\ NextName \in Names
      /\ Current' = Current /\ Handled' = Handled
  BY <1>1, UnderWay DEF Current, Handled
<1>3. ProgressOK'
  BY <1>1 DEF ProgressOK
<1>4. OutcomesOK'
  BY <1>1, <1>2 DEF OutcomesOK, Broken
<1>5. EveryName' \ names' = (EveryName \ names) \union {NextName}
  BY <1>1, <1>2
<1>6. entries' = ClosureOf((EveryName \ names) \union {NextName}, Current)
  <2>1. entries = ClosureOf(EveryName \ names, Current)
    BY DEF EntriesOK
  <2>2. \A k : k \in entries' <=> k \in ClosureOf((EveryName \ names) \union {NextName}, Current)
    BY <2>1, ClosureMember
  <2> QED
    BY <2>2, SetExtensionality
<1>7. entries' \subseteq Keys
  <2>1. BlobAt(Current, NextName) # NoBlob =>
            Parse(NextName, BlobAt(Current, NextName)).keys \subseteq Keys
    BY <1>2, BlobTypes, ParseTypes
  <2> QED
    BY <2>1 DEF EntriesOK
<1>8. \A n \in (EveryName \ names) \union {NextName} :
        BlobAt(Current, n) # NoBlob => Parse(n, BlobAt(Current, n)).tag = "ok"
  BY DEF EntriesOK
<1>9. EntriesOK'
  BY <1>1, <1>2, <1>5, <1>6, <1>7, <1>8 DEF EntriesOK
<1> QED
  BY <1>3, <1>4, <1>9

\* A commit has been handled: it is kept whole, or dropped for what is broken in it.
LEMMA CommitEnds ==
    ASSUME ExtractInv, state = "reading", UNCHANGED repository, NextCommit,
           \/ /\ Broken(Current)
              /\ skipped' = skipped \union {Current} /\ snapshots' = snapshots
           \/ /\ ~Broken(Current) /\ entries = ClosureOf(EveryName, Current)
              /\ skipped' = skipped /\ snapshots' = [snapshots EXCEPT ![Current] = entries]
    PROVE  ProgressOK' /\ EntriesOK' /\ OutcomesOK'
<1> USE DEF ExtractInv, NextCommit
<1>1. /\ EveryName' = EveryName /\ WalkedCommits' = WalkedCommits
      /\ \A c, n : BlobAt(c, n)' = BlobAt(c, n)
      /\ \A n, b : Parse(n, b)' = Parse(n, b)
      /\ \A S, c : ClosureOf(S, c)' = ClosureOf(S, c)
  BY RepositoryStays
<1>2. Current \in left /\ Current \in Commits /\ Current \in WalkedCommits
  BY UnderWay
<1>3. Handled = WalkedCommits \ left /\ Handled' = Handled \union {Current} /\ Current \notin Handled
  BY <1>1, <1>2 DEF Handled, ProgressOK
<1>4. ProgressOK'
  BY <1>1, <1>2 DEF ProgressOK
<1>5. EntriesOK'
  <2>1. EveryName' \ names' = {} /\ entries' = {}
    BY <1>1
  <2>2. \A c : ClosureOf({}, c) = {}
    BY DEF ClosureOf
  <2> QED
    BY <1>1, <2>1, <2>2 DEF EntriesOK
<1>6. \A c : Broken(c)' = Broken(c)
  BY <1>1 DEF Broken
<1>7. Current \notin skipped /\ snapshots[Current] = {}
  BY <1>2, <1>3 DEF OutcomesOK
<1>8. /\ snapshots' \in [Commits -> SUBSET Keys]
      /\ \A c \in Commits : c # Current => snapshots'[c] = snapshots[c]
      /\ snapshots'[Current] = IF Broken(Current) THEN {} ELSE ClosureOf(EveryName, Current)
  BY <1>2, <1>7 DEF OutcomesOK, EntriesOK
<1>9. skipped' \subseteq Handled' /\ \A c \in Handled' : c \in skipped' <=> Broken(c)
  BY <1>3, <1>7 DEF OutcomesOK
<1>10. \A c \in Commits \ Handled' : snapshots'[c] = {}
  BY <1>3, <1>8 DEF OutcomesOK
<1>11. \A c \in Handled' : snapshots'[c] = IF Broken(c) THEN {} ELSE ClosureOf(EveryName, c)
  <2>1. Handled \subseteq Commits
    BY <1>3, WalkTypes
  <2> QED
    BY <1>3, <1>8, <2>1 DEF OutcomesOK
<1>12. OutcomesOK'
  BY <1>1, <1>6, <1>8, <1>9, <1>10, <1>11 DEF OutcomesOK
<1> QED
  BY <1>4, <1>5, <1>12

LEMMA ExtractStep ==
    ASSUME ExtractInv, [Next]_vars
    PROVE  ExtractInv'
<1>1. UNCHANGED repository
  BY DEF Next, vars, repository, Walk, PassOver, Read, Skip, Die, Emit
<1>2. RepositoryOK'
  BY <1>1, RepositoryStays DEF ExtractInv
<1>3. /\ EveryName' = EveryName /\ WalkedCommits' = WalkedCommits
      /\ \A c, n : BlobAt(c, n)' = BlobAt(c, n)
      /\ \A n, b : Parse(n, b)' = Parse(n, b)
      /\ \A S, c : ClosureOf(S, c)' = ClosureOf(S, c)
  BY <1>1, RepositoryStays
<1>4. CASE Walk
  <2>1. Handled = {} /\ Handled' = {} /\ entries' = {} /\ EveryName' \ names' = {}
    BY <1>3, <1>4 DEF Walk, ExtractInv, ProgressOK, Handled
  <2>2. \A c : ClosureOf({}, c) = {}
    BY DEF ClosureOf
  <2>3. EntriesOK'
    BY <1>3, <2>1, <2>2 DEF EntriesOK
  <2>4. OutcomesOK'
    BY <1>4, <2>1 DEF Walk, ExtractInv, OutcomesOK
  <2>5. ProgressOK'
    BY <1>3, <1>4 DEF Walk, ProgressOK
  <2>6. MemoOK'
    BY <1>4, MemoStays DEF Walk, ExtractInv
  <2> QED
    BY <1>2, <2>3, <2>4, <2>5, <2>6 DEF ExtractInv
<1>5. CASE PassOver
  <2>1. MemoOK'
    BY <1>5, MemoStays DEF PassOver, ExtractInv
  <2>2. ProgressOK' /\ EntriesOK' /\ OutcomesOK'
    BY <1>5, LookedAt DEF PassOver
  <2> QED
    BY <1>2, <2>1, <2>2 DEF ExtractInv
<1>6. CASE Read \/ Skip \/ Die
  <2> DEFINE b == BlobAt(Current, NextName)
             p == Parse(NextName, b)
  <2>1. Reading /\ b # NoBlob
    BY <1>6 DEF Read, Skip, Die
  <2>2. /\ Current \in Commits /\ NextName \in names /\ NextName \in EveryName /\ NextName \in Names
    BY <2>1, UnderWay DEF Reading
  <2>3. Content(NextName) = p /\ b \in Blobs
    BY <2>1, <2>2, ContentIsParse DEF ExtractInv
  <2>4. p.tag = "bad" => p = Bad
    BY <2>2, <2>3, ParseTypes DEF ExtractInv
  <2>5. Odd.tag = "odd" /\ Bad.tag = "bad"
    BY DEF Odd, Bad
  <2>6. CASE Read
    <3>1. MemoOK'
      BY <1>1, <2>1, <2>2, <2>3, <2>5, <2>6, MemoGrows DEF Read, ExtractInv
    <3>2. ProgressOK' /\ EntriesOK' /\ OutcomesOK'
      BY <2>3, <2>6, LookedAt DEF Read
    <3> QED
      BY <1>2, <3>1, <3>2 DEF ExtractInv
  <2>7. CASE Skip
    <3>1. p = Bad
      BY <2>3, <2>4, <2>7 DEF Skip
    <3>2. MemoOK'
      BY <1>1, <2>1, <2>2, <2>5, <2>7, <3>1, MemoGrows DEF Skip, ExtractInv
    <3>3. Broken(Current)
      BY <2>1, <2>2, <3>1 DEF Broken
    <3>4. ProgressOK' /\ EntriesOK' /\ OutcomesOK'
      BY <1>1, <2>1, <2>7, <3>3, CommitEnds DEF Skip, Reading
    <3> QED
      BY <1>2, <3>2, <3>4 DEF ExtractInv
  <2>8. CASE Die
    <3>1. MemoOK'
      BY <2>8, MemoStays DEF Die, ExtractInv
    <3>2. ProgressOK' /\ EntriesOK' /\ Handled' = Handled
      BY <1>3, <2>1, <2>8 DEF Die, Reading, ExtractInv, ProgressOK, EntriesOK, Handled
    <3>3. OutcomesOK'
      BY <1>3, <2>8, <3>2 DEF Die, ExtractInv, OutcomesOK, Broken
    <3> QED
      BY <1>2, <3>1, <3>2, <3>3 DEF ExtractInv
  <2> QED
    BY <1>6, <2>6, <2>7, <2>8
<1>7. CASE Emit
  <2>1. MemoOK'
    BY <1>7, MemoStays DEF Emit, ExtractInv
  <2>2. /\ \A n \in EveryName : BlobAt(Current, n) # NoBlob => Parse(n, BlobAt(Current, n)).tag = "ok"
        /\ entries = ClosureOf(EveryName, Current)
    BY <1>7 DEF Emit, ExtractInv, EntriesOK
  <2>3. ~Broken(Current)
    BY <2>2 DEF Broken, Bad
  <2>4. ProgressOK' /\ EntriesOK' /\ OutcomesOK'
    BY <1>1, <1>7, <2>2, <2>3, CommitEnds DEF Emit
  <2> QED
    BY <1>2, <2>1, <2>4 DEF ExtractInv
<1>8. CASE UNCHANGED vars
  <2>1. MemoOK'
    BY <1>1, <1>8, MemoStays DEF vars, ExtractInv
  <2>2. Handled' = Handled /\ Current' = Current
    BY <1>3, <1>8 DEF vars, Handled, Current
  <2>3. ProgressOK' /\ EntriesOK' /\ OutcomesOK'
    BY <1>3, <1>8, <2>2 DEF vars, ExtractInv, ProgressOK, EntriesOK, OutcomesOK, Broken
  <2> QED
    BY <1>2, <2>1, <2>3 DEF ExtractInv
<1> QED
  BY <1>4, <1>5, <1>6, <1>7, <1>8 DEF Next

THEOREM ExtractInvariant == Spec => []ExtractInv
BY ExtractInitially, ExtractStep, PTL DEF Spec

\* extract_snapshots: a commit is dropped exactly when one of its lockfiles is
\* broken, and otherwise its snapshot is the union of all of them.
THEOREM WholeOrSkipped == Spec => []EveryCommitIsWholeOrSkipped
<1>1. ExtractInv => TypeOK
  <2> SUFFICES ASSUME ExtractInv PROVE TypeOK
    OBVIOUS
  <2>1. left \subseteq Commits /\ names \subseteq Names
    BY WalkTypes DEF ExtractInv, ProgressOK
  <2>2. skipped \subseteq WalkedCommits
    BY DEF ExtractInv, OutcomesOK, Handled
  <2> QED
    BY <2>1, <2>2 DEF TypeOK, ExtractInv, ProgressOK, MemoOK, EntriesOK, OutcomesOK
<1>2. ExtractInv => EveryCommitIsWholeOrSkipped
  BY <1>1 DEF ExtractInv, OutcomesOK, Broken, EveryCommitIsWholeOrSkipped
<1> QED
  BY <1>2, ExtractInvariant, PTL

-----------------------------------------------------------------------------
(* Removals.                                                               *)

\* A walk of all the history meets a lockfile under every name it had: the first
\* commit of the stretch over which it had the name and was there touched it.
LEMMA NameIsWalked ==
    ASSUME RepositoryOK, since = 1, until = MaxCommits, NEW path \in Paths, NEW d \in Commits,
           BlobAt(d, NameAt(path, d)) # NoBlob
    PROVE  NameAt(path, d) \in EveryName
<1> DEFINE m == NameAt(path, d)
           Had(x) == trail[path][x] = m /\ BlobAt(x, m) # NoBlob
           S == {e \in Commits : e <= d /\ \A x \in e .. d : Had(x)}
           e == Least(S)
<1>1. path \in Names
  BY WalkTypes
<1>2. S \subseteq Nat /\ d \in S
  <2>1. \A x \in d .. d : x = d
    BY DEF Commits
  <2> QED
    BY <2>1 DEF Commits, NameAt
<1>3. e \in S /\ \A t \in S : e <= t
  BY <1>2, LeastIsThere
<1> HIDE DEF e
<1>4. e \in Commits /\ e <= d /\ Had(e) /\ \A x \in e .. d : Had(x)
  BY <1>3 DEF Commits
<1>5. BlobAt(e - 1, m) = NoBlob
  <2>1. SUFFICES ASSUME BlobAt(e - 1, m) # NoBlob PROVE FALSE
    OBVIOUS
  <2>2. e > 1 /\ e - 1 \in Commits
    BY <1>4, <2>1, ExtractAssumption DEF Commits, BlobAt
  <2>3. trail[path][e - 1] = m
    BY <1>1, <1>4, <2>1, <2>2, TrailTypes DEF Created
  <2>4. \A x \in (e - 1) .. d : x = e - 1 \/ x \in e .. d
    BY <1>4 DEF Commits
  <2>5. e - 1 \in S
    BY <1>4, <2>1, <2>2, <2>3, <2>4 DEF Commits
  <2> QED
    BY <1>3, <1>4, <2>5 DEF Commits
<1>6. e \in since .. until /\ Touched(e, trail[path][e])
  BY <1>4, <1>5, ExtractAssumption DEF Touched, Commits
<1>7. <<e, m>> \in Followed(path)
  BY <1>4, <1>6 DEF Followed
<1> QED
  BY <1>7 DEF EveryName, Walked

\* follow_path, extract_snapshots: what a snapshot had and a later one lacks is
\* in none of the walked lockfiles, under the name that each had at the later,
\* through any chain of renames.
THEOREM RemovalsReal == Spec => []RemovalsAreReal
<1>1. ASSUME ExtractInv, since = 1, until = MaxCommits, NEW c \in Handled, NEW d \in Handled,
             NEW k \in snapshots[c] \ snapshots[d], snapshots[d] # {}, NEW path \in Paths,
             BlobAt(d, NameAt(path, d)) # NoBlob
      PROVE  LET n == NameAt(path, d)
             IN  Parse(n, BlobAt(d, n)).tag # "bad" /\ k \notin Parse(n, BlobAt(d, n)).keys
  <2> DEFINE n == NameAt(path, d)
  <2>1. d \in Commits
    BY <1>1, WalkTypes DEF Handled, ExtractInv
  <2>2. n \in EveryName /\ n \in Names /\ BlobAt(d, n) \in Blobs
    BY <1>1, <2>1, NameIsWalked, WalkTypes, BlobTypes DEF ExtractInv
  <2> HIDE DEF n
  <2>3. ~Broken(d) /\ snapshots[d] = ClosureOf(EveryName, d)
    BY <1>1 DEF ExtractInv, OutcomesOK
  <2>4. BlobAt(d, n) # NoBlob
    BY <1>1 DEF n
  <2>5. Parse(n, BlobAt(d, n)).tag # "bad"
    BY <1>1, <2>2, <2>3, <2>4, ParseTypes DEF Broken, ExtractInv
  <2>6. k \notin Parse(n, BlobAt(d, n)).keys
    BY <2>2, <2>3, <2>4, ClosureMember
  <2> QED
    BY <2>5, <2>6 DEF n
<1>2. ExtractInv => RemovalsAreReal
  BY <1>1 DEF RemovalsAreReal
<1> QED
  BY <1>2, ExtractInvariant, PTL
=============================================================================
