--------------------------- MODULE ValidTimeProofs ---------------------------
(***************************************************************************)
(* What the facts of a walk say, for every history: read at any second     *)
(* they are what the newest commit said, at most one fact of a key is live *)
(* at a time, and a longer walk only ever closes what was still open.      *)
(***************************************************************************)
EXTENDS ValidTime, TLAPS, WellFoundedInduction

\* A history that resolves k from commit d to commit c, without a gap.
Run(V, k, c) ==
    {d \in V : ~Before(c, d) /\ \A e \in V : ~Before(e, d) /\ ~Before(c, e) => k \in e.entries}

-----------------------------------------------------------------------------
(* The order of commits.                                                   *)

\* A set of numbers has a least element.
LEMMA LeastNatural ==
    ASSUME NEW T, T \subseteq Nat, T # {}
    PROVE  \E x \in T : \A y \in T : x <= y
<1> DEFINE R == {p \in Nat \X Nat : p[1] < p[2]}
<1>1. R = OpToRel(<, Nat)
  BY DEF OpToRel
<1>2. PICK x \in T : \A y \in T : ~(<<y, x>> \in R)
  BY <1>1, NatLessThanWellFounded, WFMin
<1>3. ASSUME NEW y \in T PROVE x <= y
  <2>1. x \in Nat /\ y \in Nat
    OBVIOUS
  <2>2. ~(<<y, x>> \in R)
    BY <1>2
  <2>3. <<y, x>> \in R <=> y < x
    BY <2>1
  <2> QED
    BY <2>1, <2>2, <2>3
<1> QED
  BY <1>3

LEMMA CommitTypes ==
    ASSUME NEW c \in Commits
    PROVE  /\ c.ts \in Times /\ c.ts \in Nat /\ c.sha \in Nat
           /\ c.ts >= 1 /\ c.ts <= MaxTs /\ c.sha <= MaxSha
           /\ c.entries \subseteq Keys
BY ValidTimeAssumption DEF Commits, Times

LEMMA BeforeTransitive ==
    ASSUME NEW a \in Commits, NEW b \in Commits, NEW c \in Commits,
           ~Before(b, a), ~Before(c, b)
    PROVE  ~Before(c, a)
BY CommitTypes DEF Before

LEMMA BeforeTotal ==
    ASSUME NEW V, IsHistory(V), NEW a \in V, NEW b \in V, ~Before(a, b), ~Before(b, a)
    PROVE  a = b
<1>1. a \in Commits /\ b \in Commits
  BY DEF IsHistory
<1>2. a.ts = b.ts /\ a.sha = b.sha
  BY <1>1, CommitTypes DEF Before
<1> QED
  BY <1>2 DEF IsHistory

LEMMA BeforeAsymmetric ==
    ASSUME NEW a \in Commits, NEW b \in Commits, Before(a, b)
    PROVE  ~Before(b, a) /\ a.ts <= b.ts
BY CommitTypes DEF Before

\* A non-empty set of commits has a first one ...
LEMMA FirstCommit ==
    ASSUME NEW V, V \subseteq Commits, V # {}
    PROVE  \E c \in V : \A d \in V : ~Before(d, c)
<1>1. PICK t \in {c.ts : c \in V} : \A u \in {c.ts : c \in V} : t <= u
  <2>1. {c.ts : c \in V} \subseteq Nat
    BY CommitTypes
  <2> QED
    BY <2>1, LeastNatural
<1> DEFINE W == {c \in V : c.ts = t}
<1>2. PICK s \in {c.sha : c \in W} : \A u \in {c.sha : c \in W} : s <= u
  <2>1. {c.sha : c \in W} \subseteq Nat /\ {c.sha : c \in W} # {}
    BY CommitTypes
  <2> QED
    BY <2>1, LeastNatural
<1>3. PICK c \in W : c.sha = s
  BY <1>2
<1>4. ASSUME NEW d \in V, Before(d, c) PROVE FALSE
  <2>1. d.ts >= t /\ c.ts = t
    BY <1>1, <1>3
  <2>2. d.ts = t /\ d.sha < s
    BY <1>3, <1>4, <2>1, CommitTypes DEF Before
  <2>3. s <= d.sha
    BY <1>2, <2>2
  <2> QED
    BY <1>3, <2>2, <2>3, CommitTypes
<1> QED
  BY <1>3, <1>4

\* ... and a last one.
LEMMA LastCommit ==
    ASSUME NEW V, V \subseteq Commits, V # {}
    PROVE  \E c \in V : \A d \in V : ~Before(c, d)
<1>1. PICK t \in {MaxTs - c.ts : c \in V} : \A u \in {MaxTs - c.ts : c \in V} : t <= u
  <2>1. {MaxTs - c.ts : c \in V} \subseteq Nat
    BY CommitTypes, ValidTimeAssumption
  <2> QED
    BY <2>1, LeastNatural
<1> DEFINE W == {c \in V : MaxTs - c.ts = t}
<1>2. PICK s \in {MaxSha - c.sha : c \in W} : \A u \in {MaxSha - c.sha : c \in W} : s <= u
  <2>1. {MaxSha - c.sha : c \in W} \subseteq Nat /\ {MaxSha - c.sha : c \in W} # {}
    BY CommitTypes, ValidTimeAssumption
  <2> QED
    BY <2>1, LeastNatural
<1>3. PICK c \in W : MaxSha - c.sha = s
  BY <1>2
<1>4. ASSUME NEW d \in V, Before(c, d) PROVE FALSE
  <2>1. t <= MaxTs - d.ts /\ MaxTs - c.ts = t
    BY <1>1, <1>3
  <2>2. d.ts = c.ts /\ c.sha < d.sha
    BY <1>3, <1>4, <2>1, CommitTypes, ValidTimeAssumption DEF Before
  <2>3. d \in W
    BY <2>1, <2>2
  <2>4. s <= MaxSha - d.sha
    BY <1>2, <2>3
  <2> QED
    BY <1>3, <2>2, <2>4, CommitTypes, ValidTimeAssumption
<1> QED
  BY <1>3, <1>4

-----------------------------------------------------------------------------
(* The facts of one key.                                                   *)

\* The opening that stays is one of those that share its second.
LEMMA LastOpenerIsOpener ==
    ASSUME NEW V, V \subseteq Commits, NEW k, NEW f, Openers(V, k, f) # {}
    PROVE  /\ LastOpener(V, k, f) \in Openers(V, k, f)
           /\ LastOpener(V, k, f) \in V
           /\ LastOpener(V, k, f).ts = f
           /\ Opens(V, LastOpener(V, k, f), k)
           /\ k \in LastOpener(V, k, f).entries
           /\ \A d \in Openers(V, k, f) : ~Before(LastOpener(V, k, f), d)
<1>1. Openers(V, k, f) \subseteq Commits
  BY DEF Openers
<1>2. PICK c \in Openers(V, k, f) : \A d \in Openers(V, k, f) : ~Before(c, d)
  BY <1>1, LastCommit
<1>3. /\ LastOpener(V, k, f) \in Openers(V, k, f)
      /\ \A d \in Openers(V, k, f) : ~Before(LastOpener(V, k, f), d)
  BY <1>2 DEF LastOpener
<1> QED
  BY <1>3 DEF Openers, Opens

\* valid_to is the first second after the opening at which k is gone.
LEMMA ValidToIsFirstEnd ==
    ASSUME NEW V, V \subseteq Commits, NEW k, NEW f
    PROVE  LET ends == Ends(V, LastOpener(V, k, f), k)
           IN  /\ ends \subseteq Times
               /\ ends = {} => ValidTo(V, k, f) = SENTINEL
               /\ ends # {} => /\ ValidTo(V, k, f) \in ends
                               /\ \A u \in ends : ValidTo(V, k, f) <= u
<1> DEFINE ends == Ends(V, LastOpener(V, k, f), k)
<1>1. ends \subseteq Times
  BY CommitTypes DEF Ends
<1>2. ASSUME ends # {}
      PROVE  \E t \in ends : \A u \in ends : t <= u
  <2>1. ends \subseteq Nat
    BY <1>1 DEF Times
  <2> QED
    BY <1>2, <2>1, LeastNatural
<1>3. ASSUME ends # {}
      PROVE  ValidTo(V, k, f) \in ends /\ \A u \in ends : ValidTo(V, k, f) <= u
  <2>1. ValidTo(V, k, f) = CHOOSE t \in ends : \A u \in ends : t <= u
    BY <1>3 DEF ValidTo
  <2> QED
    BY <1>2, <1>3, <2>1
<1>4. ends = {} => ValidTo(V, k, f) = SENTINEL
  BY DEF ValidTo
<1> QED
  BY <1>1, <1>3, <1>4

\* A fact outlasts second t iff every commit up to t that follows its opening
\* resolves k; it never ends before it begins.
LEMMA ValidToAfter ==
    ASSUME NEW V, V \subseteq Commits, NEW k, NEW f \in Times, Openers(V, k, f) # {}
    PROVE  /\ ValidTo(V, k, f) \in 1 .. SENTINEL
           /\ ValidTo(V, k, f) >= f
           /\ \A t \in Times : ValidTo(V, k, f) > t <=>
                \A e \in V : Before(LastOpener(V, k, f), e) /\ k \notin e.entries => e.ts > t
<1> DEFINE L == LastOpener(V, k, f)
           ends == Ends(V, L, k)
<1> USE ValidTimeAssumption
<1>1. L \in V /\ L \in Commits /\ L.ts = f
  BY LastOpenerIsOpener
<1>2. ends \subseteq Times /\ \A u \in ends : u >= f
  BY <1>1, CommitTypes, BeforeAsymmetric DEF Ends, Times
<1>3. SENTINEL \in 1 .. SENTINEL /\ \A t \in Times : SENTINEL > t /\ t \in 1 .. SENTINEL
  BY DEF SENTINEL, Times
<1>4. /\ ends = {} => ValidTo(V, k, f) = SENTINEL
      /\ ends # {} => /\ ValidTo(V, k, f) \in ends
                      /\ \A u \in ends : ValidTo(V, k, f) <= u
  BY ValidToIsFirstEnd
<1>5. ValidTo(V, k, f) \in 1 .. SENTINEL /\ ValidTo(V, k, f) >= f
  BY <1>2, <1>3, <1>4
<1>6. ASSUME NEW t \in Times PROVE ValidTo(V, k, f) > t <=> \A u \in ends : u > t
  BY <1>2, <1>3, <1>4, <1>5 DEF Times
<1>7. ASSUME NEW t \in Times
      PROVE  (\A u \in ends : u > t) <=>
                \A e \in V : Before(L, e) /\ k \notin e.entries => e.ts > t
  BY DEF Ends
<1> QED
  BY <1>5, <1>6, <1>7

\* The fact of k that is live at second t.
Live(V, k, f, t) == f <= t /\ Openers(V, k, f) # {} /\ ValidTo(V, k, f) > t

\* A commit that resolves k belongs to a run of commits that an opener begins.
LEMMA RunHasOpener ==
    ASSUME NEW V, IsHistory(V), NEW k, NEW c \in V, k \in c.entries
    PROVE  \E o \in Run(V, k, c) : Opens(V, o, k)
<1>1. V \subseteq Commits
  BY DEF IsHistory
<1>2. c \in Run(V, k, c)
  <2>1. ~Before(c, c)
    BY <1>1, CommitTypes DEF Before
  <2>2. \A e \in V : ~Before(e, c) /\ ~Before(c, e) => e = c
    BY BeforeTotal
  <2> QED
    BY <2>1, <2>2 DEF Run
<1>3. PICK o \in Run(V, k, c) : \A d \in Run(V, k, c) : ~Before(d, o)
  <2>1. Run(V, k, c) \subseteq Commits
    BY <1>1 DEF Run
  <2> QED
    BY <1>2, <2>1, FirstCommit
<1>4. o \in V /\ o \in Commits /\ ~Before(c, o)
  BY <1>1, <1>3 DEF Run
<1>5. k \in o.entries
  <2>1. ~Before(o, o)
    BY <1>4, CommitTypes DEF Before
  <2> QED
    BY <1>3, <1>4, <2>1 DEF Run
<1>6. ASSUME NEW p \in V, Precedes(V, p, o), k \in p.entries PROVE FALSE
  <2>1. p \in Commits /\ Before(p, o) /\ ~Before(o, p)
    BY <1>1, <1>4, <1>6, BeforeAsymmetric DEF Precedes
  <2>2. ~Before(c, p)
    BY <1>1, <1>4, <2>1, CommitTypes DEF Before
  <2>3. ASSUME NEW e \in V, ~Before(e, p), ~Before(c, e) PROVE k \in e.entries
    <3>1. CASE Before(e, o)
      <4>1. ~Before(p, e)
        BY <1>6, <3>1 DEF Precedes
      <4>2. e = p
        BY <2>3, <4>1, BeforeTotal
      <4> QED
        BY <1>6, <4>2
    <3>2. CASE ~Before(e, o)
      BY <1>3, <2>3, <3>2 DEF Run
    <3> QED
      BY <3>1, <3>2
  <2>4. p \in Run(V, k, c)
    BY <2>2, <2>3 DEF Run
  <2> QED
    BY <1>3, <2>1, <2>4
<1> QED
  BY <1>3, <1>5, <1>6 DEF Opens

\* Read at any second, the facts are what the newest commit resolved: the
\* lockfile is the truth from the commit that wrote it until the next one
\* (build_intervals, history.py).
THEOREM FactsAreHistory ==
    ASSUME NEW V, IsHistory(V), NEW k \in Keys, NEW t \in Times
    PROVE  k \in ResolvedAsOf(V, t) <=> \E f \in Times : Live(V, k, f, t)
<1>1. V \subseteq Commits
  BY DEF IsHistory
<1>2. ASSUME k \in ResolvedAsOf(V, t)
      PROVE  \E f \in Times : Live(V, k, f, t)
  <2>1. PICK c \in V : /\ c.ts <= t
                       /\ k \in c.entries
                       /\ \A d \in V : d.ts <= t => ~Before(c, d)
    BY <1>2 DEF ResolvedAsOf
  <2>2. PICK o \in Run(V, k, c) : Opens(V, o, k)
    BY <2>1, RunHasOpener
  <2>3. /\ o \in V /\ o \in Commits /\ c \in Commits /\ ~Before(c, o)
        /\ \A e \in V : ~Before(e, o) /\ ~Before(c, e) => k \in e.entries
    BY <1>1, <2>2 DEF Run
  <2> DEFINE f == o.ts
             L == LastOpener(V, k, f)
  <2>4. f \in Times /\ f <= t
    BY <2>1, <2>3, CommitTypes DEF Before, Times
  <2>5. o \in Openers(V, k, f)
    BY <2>2, <2>3 DEF Openers
  <2>6. L \in V /\ L \in Commits /\ ~Before(L, o)
    BY <1>1, <2>5, LastOpenerIsOpener
  <2>7. ASSUME NEW e \in V, Before(L, e), k \notin e.entries
        PROVE  e.ts > t
    <3>1. e \in Commits
      BY <1>1
    <3>2. ~Before(e, o)
      BY <2>3, <2>6, <2>7, <3>1, CommitTypes DEF Before
    <3>3. Before(c, e)
      BY <2>3, <2>7, <3>2
    <3>4. ~(e.ts <= t)
      BY <2>1, <3>3
    <3> QED
      BY <3>1, <3>4, CommitTypes DEF Times
  <2>8. ValidTo(V, k, f) > t
    BY <1>1, <2>4, <2>5, <2>7, ValidToAfter
  <2> QED
    BY <2>4, <2>5, <2>8 DEF Live
<1>3. ASSUME NEW f \in Times, Live(V, k, f, t)
      PROVE  k \in ResolvedAsOf(V, t)
  <2> DEFINE L == LastOpener(V, k, f)
             W == {c \in V : c.ts <= t}
  <2>1. L \in V /\ L.ts = f /\ k \in L.entries /\ L \in W
    <3>1. Openers(V, k, f) # {} /\ f <= t
      BY <1>3 DEF Live
    <3>2. L \in V /\ L.ts = f /\ k \in L.entries
      BY <1>1, <3>1, LastOpenerIsOpener
    <3> QED
      BY <3>1, <3>2
  <2>2. PICK c \in W : \A d \in W : ~Before(c, d)
    BY <1>1, <2>1, LastCommit
  <2>3. c \in V /\ c.ts <= t /\ ~Before(c, L)
    BY <2>1, <2>2
  <2>4. k \in c.entries
    <3>1. CASE Before(L, c)
      <4>1. k \notin c.entries => c.ts > t
        BY <1>1, <1>3, <2>3, <3>1, ValidToAfter DEF Live
      <4> QED
        BY <1>1, <2>3, <4>1, CommitTypes DEF Times
    <3>2. CASE ~Before(L, c)
      <4>1. c = L
        BY <2>1, <2>3, <3>2, BeforeTotal
      <4> QED
        BY <2>1, <4>1
    <3> QED
      BY <3>1, <3>2
  <2> QED
    BY <2>2, <2>3, <2>4 DEF ResolvedAsOf
<1> QED
  BY <1>2, <1>3

\* At any second at most one fact of a key is live.
THEOREM OneLiveFact ==
    ASSUME NEW V, IsHistory(V), NEW k \in Keys, NEW t \in Times,
           NEW f \in Times, NEW g \in Times, Live(V, k, f, t), Live(V, k, g, t)
    PROVE  f = g
<1>1. V \subseteq Commits
  BY DEF IsHistory
<1>2. ASSUME NEW a \in Times, NEW b \in Times, a < b, Live(V, k, a, t), Live(V, k, b, t)
      PROVE  FALSE
  <2> DEFINE A == LastOpener(V, k, a)
             B == LastOpener(V, k, b)
             W == {e \in V : Before(e, B)}
  <2>1. A \in V /\ B \in V /\ A.ts = a /\ B.ts = b /\ k \in A.entries /\ Opens(V, B, k)
    <3>1. Openers(V, k, a) # {} /\ Openers(V, k, b) # {}
      BY <1>2 DEF Live
    <3> QED
      BY <1>1, <3>1, LastOpenerIsOpener
  <2>2. A \in W
    BY <1>2, <2>1 DEF Before
  <2>3. PICK p \in W : \A e \in W : ~Before(p, e)
    BY <1>1, <2>2, LastCommit
  <2>4. Precedes(V, p, B) /\ p \in V
    BY <2>3 DEF Precedes
  <2>5. p.ts <= t
    <3>1. p.ts <= b /\ b <= t
      BY <1>1, <1>2, <2>1, <2>3, BeforeAsymmetric DEF Live
    <3> QED
      BY <1>1, <2>4, <3>1, CommitTypes DEF Times
  <2>6. k \in p.entries
    <3>1. CASE Before(A, p)
      <4>1. k \notin p.entries => p.ts > t
        BY <1>1, <1>2, <2>4, <3>1, ValidToAfter DEF Live
      <4> QED
        BY <1>1, <2>4, <2>5, <4>1, CommitTypes DEF Times
    <3>2. CASE ~Before(A, p)
      <4>1. p = A
        BY <2>1, <2>2, <2>3, <2>4, <3>2, BeforeTotal
      <4> QED
        BY <2>1, <4>1
    <3> QED
      BY <3>1, <3>2
  <2> QED
    BY <2>1, <2>4, <2>6 DEF Opens
<1> QED
  BY <1>2 DEF Times

-----------------------------------------------------------------------------
(* Longer walks.                                                           *)

\* A walk up to second h opens the same facts up to h as a longer one, closes
\* at the same second what the longer one closes by h, and leaves the rest
\* open: an interval that has closed by the watermark is final.
THEOREM ShorterWalk ==
    ASSUME NEW V, V \subseteq Commits, NEW k, NEW f \in Times, NEW h \in Nat, f <= h
    PROVE  /\ Openers(UpTo(V, h), k, f) = Openers(V, k, f)
           /\ Openers(V, k, f) # {} =>
                ValidTo(UpTo(V, h), k, f) =
                    IF ValidTo(V, k, f) <= h THEN ValidTo(V, k, f) ELSE SENTINEL
<1> DEFINE U == UpTo(V, h)
<1>1. U \subseteq V /\ U \subseteq Commits /\ \A c \in V : c \in U <=> c.ts <= h
  BY DEF UpTo
<1>2. ASSUME NEW c \in V, c.ts <= h
      PROVE  \A p \in V : Before(p, c) => p \in U
  BY <1>1, <1>2, CommitTypes DEF Before
<1>3. ASSUME NEW c \in V, c.ts <= h
      PROVE  \A p \in V : Precedes(V, p, c) <=> p \in U /\ Precedes(U, p, c)
  BY <1>1, <1>2, <1>3 DEF Precedes
<1>4. ASSUME NEW c \in V, c.ts <= h
      PROVE  Opens(U, c, k) <=> Opens(V, c, k)
  BY <1>1, <1>3, <1>4 DEF Opens
<1>5. Openers(U, k, f) = Openers(V, k, f)
  BY <1>1, <1>4 DEF Openers
<1>6. ASSUME Openers(V, k, f) # {}
      PROVE  ValidTo(U, k, f) = IF ValidTo(V, k, f) <= h THEN ValidTo(V, k, f) ELSE SENTINEL
  <2> DEFINE L == LastOpener(V, k, f)
             endsU == Ends(U, L, k)
             endsV == Ends(V, L, k)
  <2>1. LastOpener(U, k, f) = L
    BY <1>5 DEF LastOpener
  <2>2. endsU = {t \in endsV : t <= h}
    BY <1>1 DEF Ends
  <2>3. /\ endsU \subseteq Times
        /\ endsU = {} => ValidTo(U, k, f) = SENTINEL
        /\ endsU # {} => /\ ValidTo(U, k, f) \in endsU
                         /\ \A u \in endsU : ValidTo(U, k, f) <= u
    BY <1>1, <2>1, ValidToIsFirstEnd
  <2>4. /\ endsV \subseteq Times
        /\ endsV = {} => ValidTo(V, k, f) = SENTINEL
        /\ endsV # {} => /\ ValidTo(V, k, f) \in endsV
                         /\ \A u \in endsV : ValidTo(V, k, f) <= u
    BY ValidToIsFirstEnd
  <2>5. CASE endsV = {}
    BY <2>2, <2>3, <2>4, <2>5
  <2>6. CASE endsV # {} /\ ValidTo(V, k, f) <= h
    <3>1. ValidTo(V, k, f) \in endsU
      BY <2>2, <2>4, <2>6
    <3> QED
      BY <2>2, <2>3, <2>4, <2>6, <3>1 DEF Times
  <2>7. CASE endsV # {} /\ ~(ValidTo(V, k, f) <= h)
    <3>1. endsU = {}
      BY <2>2, <2>4, <2>7 DEF Times
    <3> QED
      BY <2>3, <2>7, <3>1
  <2> QED
    BY <2>5, <2>6, <2>7
<1> QED
  BY <1>5, <1>6
=============================================================================
