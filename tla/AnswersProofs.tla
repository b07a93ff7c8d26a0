---------------------------- MODULE AnswersProofs ----------------------------
(***************************************************************************)
(* What the console says of a history is true of it, for every history,    *)
(* incident and dataset: from the build_intervals loop, whose rows are     *)
(* those of the declarative diff, through the verdicts and the packet to   *)
(* the sentences.                                                          *)
(***************************************************************************)
EXTENDS Answers, ValidTimeProofs, FiniteSetTheorems

-----------------------------------------------------------------------------
(* The build_intervals loop: what open_at and the rows are after every     *)
(* turn, hence what the rows are at the end; and what ValidTimeProofs      *)
(* shows of the diff is true of the loop.                                  *)

\* What the loop has been through is a beginning of the history.
Beginning ==
    /\ IsHistory(snaps)
    /\ handled \subseteq snaps
    /\ \A c \in handled, d \in snaps \ handled : Before(c, d)

\* A key is open if the newest snapshot handled resolves it.
OpenIsNewest ==
    \A k \in Keys :
        /\ handled = {} => openAt[k] = NotOpen
        /\ \A c \in handled : (\A d \in handled : ~Before(c, d)) =>
                (k \in c.entries <=> openAt[k] # NotOpen)

\* The rows so far: what has opened is open, or has its end in out.
RowOK(k, f) ==
    /\ Openers(handled, k, f) = {} => out[<<k, f>>] = Absent /\ openAt[k] # f
    /\ Openers(handled, k, f) # {} =>
        IF Ends(handled, LastOpener(handled, k, f), k) = {}
            THEN openAt[k] = f
            ELSE out[<<k, f>>] = ValidTo(handled, k, f) /\ openAt[k] # f

\* The rows when the loop is over.
FinalRow(k, f) ==
    out[<<k, f>>] = IF Openers(snaps, k, f) = {} THEN Absent ELSE ValidTo(snaps, k, f)

LoopInv ==
    /\ TypeOK
    /\ Beginning
    /\ ~done => OpenIsNewest /\ \A k \in Keys, f \in Times : RowOK(k, f)
    /\ done => handled = snaps /\ \A k \in Keys, f \in Times : FinalRow(k, f)

-----------------------------------------------------------------------------
(* One more snapshot.                                                      *)

\* A snapshot after all the others changes none of their openings, and opens
\* what the newest of them does not resolve.
LEMMA NextOpens ==
    ASSUME NEW H, NEW c, IsHistory(H \union {c}), c \notin H, \A d \in H : Before(d, c), NEW k
    PROVE  /\ \A o \in H : Opens(H \union {c}, o, k) <=> Opens(H, o, k)
           /\ Opens(H \union {c}, c, k) <=>
                /\ k \in c.entries
                /\ \A p \in H : (\A d \in H : ~Before(p, d)) => k \notin p.entries
<1> DEFINE G == H \union {c}
<1>1. G \subseteq Commits
  BY DEF IsHistory
<1>2. \A d \in H : ~Before(c, d)
  BY <1>1, BeforeAsymmetric
<1>3. ~Before(c, c)
  BY <1>1, CommitTypes DEF Before
<1>4. ASSUME NEW o \in H, NEW p \in G
      PROVE  Precedes(G, p, o) <=> p \in H /\ Precedes(H, p, o)
  BY <1>2 DEF Precedes
<1>5. ASSUME NEW p \in G
      PROVE  Precedes(G, p, c) <=> p \in H /\ \A d \in H : ~Before(p, d)
  BY <1>3 DEF Precedes
<1>6. ASSUME NEW o \in H PROVE Opens(G, o, k) <=> Opens(H, o, k)
  BY <1>4 DEF Opens
<1>7. Opens(G, c, k) <=> /\ k \in c.entries
                         /\ \A p \in H : (\A d \in H : ~Before(p, d)) => k \notin p.entries
  BY <1>5 DEF Opens
<1> QED
  BY <1>6, <1>7

\* One turn keeps the rows right.
LEMMA TurnKeepsRows ==
    ASSUME LoopInv, ~done, NEW c \in snaps, HandleSnapshot(c)
    PROVE  OpenIsNewest' /\ \A k \in Keys, f \in Times : RowOK(k, f)'
<1> USE ValidTimeAssumption
<1> DEFINE H == handled
           G == handled \union {c}
<1>1. /\ c \notin H /\ handled' = G /\ snaps' = snaps
      /\ \A d \in snaps \ H : ~Before(d, c)
      /\ \A i \in Ids : out'[i] = IF i[1] \in Closing(c) /\ openAt[i[1]] = i[2] THEN c.ts ELSE out[i]
      /\ \A k \in Keys : openAt'[k] = IF k \notin c.entries THEN NotOpen
                                      ELSE IF openAt[k] = NotOpen THEN c.ts ELSE openAt[k]
  BY DEF HandleSnapshot
<1>2. IsHistory(G) /\ G \subseteq Commits /\ H \subseteq Commits /\ c \in Commits
  BY DEF LoopInv, Beginning, IsHistory
<1>3. \A d \in H : Before(d, c)
  BY <1>1 DEF LoopInv, Beginning
<1>4. c.ts \in Times /\ c.ts # NotOpen /\ \A d \in H : d.ts <= c.ts
  BY <1>2, <1>3, CommitTypes, BeforeAsymmetric DEF NotOpen, Times
<1>5. \A d \in H : ~Before(c, d)
  BY <1>2, <1>3, BeforeAsymmetric
<1>6. ~Before(c, c)
  BY <1>2, CommitTypes DEF Before
<1>7. ASSUME NEW k \in Keys
      PROVE  openAt[k] = NotOpen <=>
                \A p \in H : (\A d \in H : ~Before(p, d)) => k \notin p.entries
  <2>1. CASE H = {}
    BY <2>1 DEF LoopInv, OpenIsNewest
  <2>2. CASE H # {}
    <3>1. PICK p \in H : \A d \in H : ~Before(p, d)
      BY <1>2, <2>2, LastCommit
    <3> QED
      BY <3>1 DEF LoopInv, OpenIsNewest
  <2> QED
    BY <2>1, <2>2
<1>8. ASSUME NEW k \in Keys
      PROVE  /\ \A o \in H : Opens(G, o, k) <=> Opens(H, o, k)
             /\ Opens(G, c, k) <=> k \in c.entries /\ openAt[k] = NotOpen
  BY <1>1, <1>2, <1>3, <1>7, NextOpens
<1>9. OpenIsNewest'
  <2>1. ASSUME NEW k \in Keys, NEW d \in G, \A e \in G : ~Before(d, e)
        PROVE  k \in d.entries <=> openAt'[k] # NotOpen
    <3>1. d = c
      BY <1>3, <2>1
    <3> QED
      BY <1>1, <1>4, <3>1
  <2> QED
    BY <1>1, <2>1 DEF OpenIsNewest
<1>10. ASSUME NEW k \in Keys, NEW f \in Times
       PROVE  RowOK(k, f)'
  <2> DEFINE O == Openers(H, k, f)
             P == Openers(G, k, f)
             L == LastOpener(H, k, f)
  <2>1. f # NotOpen /\ <<k, f>> \in Ids
    BY DEF Times, NotOpen, Ids
  <2>2. RowOK(k, f)
    BY DEF LoopInv
  <2>3. P = IF c.ts = f /\ Opens(G, c, k) THEN O \union {c} ELSE O
    BY <1>8 DEF Openers
  <2>4. out'[<<k, f>>] = IF openAt[k] # NotOpen /\ k \notin c.entries /\ openAt[k] = f
                         THEN c.ts ELSE out[<<k, f>>]
    BY <1>1, <2>1 DEF Closing
  <2>5. CASE c.ts = f /\ Opens(G, c, k)
    <3>1. c \in P /\ \A d \in P : ~Before(c, d)
      BY <1>5, <1>6, <2>3, <2>5 DEF Openers
    <3>2. LastOpener(G, k, f) = c
      <4>1. /\ LastOpener(G, k, f) \in P
            /\ ~Before(LastOpener(G, k, f), c)
        BY <1>2, <3>1, LastOpenerIsOpener
      <4> QED
        BY <1>3, <4>1 DEF Openers
    <3>3. Ends(G, c, k) = {}
      BY <1>5, <1>6 DEF Ends
    <3>4. openAt'[k] = f
      BY <1>1, <1>8, <2>5
    <3> QED
      BY <1>1, <3>1, <3>2, <3>3, <3>4 DEF RowOK
  <2>6. CASE ~(c.ts = f /\ Opens(G, c, k))
    <3>1. P = O /\ LastOpener(G, k, f) = L
      BY <2>3, <2>6 DEF LastOpener
    <3>2. openAt[k] # f => openAt'[k] # f
      BY <1>1, <1>8, <2>1, <2>6
    <3>3. CASE O = {}
      BY <1>1, <2>2, <2>4, <3>1, <3>2, <3>3 DEF RowOK
    <3>4. CASE O # {}
      <4>1. L \in H
        BY <1>2, <3>4, LastOpenerIsOpener
      <4>2. Ends(G, L, k) = IF k \in c.entries THEN Ends(H, L, k) ELSE Ends(H, L, k) \union {c.ts}
        BY <1>3, <4>1 DEF Ends
      <4>3. /\ Ends(H, L, k) # {} => /\ ValidTo(H, k, f) \in Ends(H, L, k)
                                     /\ \A u \in Ends(H, L, k) : ValidTo(H, k, f) <= u
            /\ Ends(G, L, k) # {} => /\ ValidTo(G, k, f) \in Ends(G, L, k)
                                     /\ \A u \in Ends(G, L, k) : ValidTo(G, k, f) <= u
            /\ Ends(G, L, k) \subseteq Times
        BY <1>2, <3>1, ValidToIsFirstEnd
      <4>4. CASE Ends(H, L, k) # {}
        <5>1. openAt[k] # f /\ out[<<k, f>>] = ValidTo(H, k, f)
          BY <2>2, <3>4, <4>4 DEF RowOK
        <5>2. \A u \in Ends(H, L, k) : u <= c.ts
          BY <1>4 DEF Ends
        <5>3. /\ ValidTo(H, k, f) \in Ends(G, L, k) /\ ValidTo(H, k, f) <= c.ts
              /\ ValidTo(G, k, f) \in Ends(G, L, k)
          BY <4>2, <4>3, <4>4, <5>2
        <5>4. ValidTo(G, k, f) <= ValidTo(H, k, f) /\ ValidTo(H, k, f) <= ValidTo(G, k, f)
          BY <4>2, <4>3, <4>4, <5>3
        <5>5. ValidTo(G, k, f) = ValidTo(H, k, f)
          BY <4>3, <5>3, <5>4 DEF Times
        <5> QED
          BY <1>1, <2>4, <3>1, <3>2, <3>4, <5>1, <5>3, <5>5 DEF RowOK
      <4>5. CASE Ends(H, L, k) = {} /\ k \in c.entries
        BY <1>1, <2>1, <2>2, <3>1, <3>4, <4>2, <4>5 DEF RowOK
      <4>6. CASE Ends(H, L, k) = {} /\ k \notin c.entries
        <5>1. openAt[k] = f /\ out'[<<k, f>>] = c.ts /\ openAt'[k] = NotOpen
          BY <1>1, <2>1, <2>2, <2>4, <3>4, <4>6 DEF RowOK
        <5>2. ValidTo(G, k, f) = c.ts /\ Ends(G, L, k) # {}
          BY <4>2, <4>3, <4>6
        <5> QED
          BY <1>1, <2>1, <3>1, <3>4, <5>1, <5>2 DEF RowOK
      <4> QED
        BY <4>4, <4>5, <4>6
    <3> QED
      BY <3>3, <3>4
  <2> QED
    BY <2>5, <2>6
<1> QED
  BY <1>9, <1>10

-----------------------------------------------------------------------------
(* The invariant.                                                          *)

LEMMA TypeStep ==
    ASSUME LoopInv, [Next]_vars
    PROVE  TypeOK'
<1> USE ValidTimeAssumption
<1>1. ASSUME NEW c \in snaps, HandleSnapshot(c) PROVE TypeOK'
  <2>1. c \in Commits /\ c.ts \in 0 .. MaxTs /\ c.ts \in 0 .. SENTINEL
    BY CommitTypes DEF LoopInv, Beginning, IsHistory, SENTINEL
  <2>2. openAt' \in [Keys -> 0 .. MaxTs]
    BY <1>1, <2>1 DEF HandleSnapshot, LoopInv, TypeOK, NotOpen
  <2>3. out' \in [Ids -> 0 .. SENTINEL]
    BY <1>1, <2>1 DEF HandleSnapshot, LoopInv, TypeOK
  <2> QED
    BY <1>1, <2>2, <2>3 DEF HandleSnapshot, LoopInv, TypeOK
<1>2. CASE Flush
  <2>1. SENTINEL \in 0 .. SENTINEL
    BY DEF SENTINEL
  <2> QED
    BY <1>2, <2>1 DEF Flush, LoopInv, TypeOK
<1>3. CASE UNCHANGED vars
  BY <1>3 DEF vars, LoopInv, TypeOK
<1> QED
  BY <1>1, <1>2, <1>3 DEF Next

LEMMA FlushStep ==
    ASSUME LoopInv, Flush
    PROVE  \A k \in Keys, f \in Times : FinalRow(k, f)'
<1> SUFFICES ASSUME NEW k \in Keys, NEW f \in Times
             PROVE  FinalRow(k, f)'
  OBVIOUS
<1>1. /\ out'[<<k, f>>] = IF openAt[k] = f THEN SENTINEL ELSE out[<<k, f>>]
      /\ RowOK(k, f) /\ handled = snaps /\ snaps' = snaps
  BY DEF Flush, LoopInv, Ids
<1>2. Ends(snaps, LastOpener(snaps, k, f), k) = {} => ValidTo(snaps, k, f) = SENTINEL
  BY DEF ValidTo
<1> QED
  BY <1>1, <1>2 DEF RowOK, FinalRow

LEMMA LoopInit == Init => LoopInv
<1> SUFFICES ASSUME Init PROVE LoopInv
  OBVIOUS
<1> USE ValidTimeAssumption
<1>1. TypeOK
  <2>1. NotOpen \in 0 .. MaxTs /\ Absent \in 0 .. SENTINEL
    BY DEF NotOpen, Absent, SENTINEL
  <2> QED
    BY <2>1 DEF Init, Begin, TypeOK
<1>2. Beginning /\ OpenIsNewest
  BY DEF Init, Begin, Beginning, OpenIsNewest
<1>3. ASSUME NEW k \in Keys, NEW f \in Times PROVE RowOK(k, f)
  BY DEF Init, Begin, RowOK, Openers, Ids, Times, NotOpen
<1> QED
  BY <1>1, <1>2, <1>3 DEF Init, Begin, LoopInv

LEMMA LoopStep ==
    ASSUME LoopInv, [Next]_vars
    PROVE  LoopInv'
<1>1. TypeOK'
  BY TypeStep
<1>2. ASSUME NEW c \in snaps, HandleSnapshot(c) PROVE LoopInv'
  <2>1. ~done /\ ~done'
    BY <1>2 DEF HandleSnapshot, LoopInv
  <2>2. OpenIsNewest' /\ \A k \in Keys, f \in Times : RowOK(k, f)'
    BY <1>2, <2>1, TurnKeepsRows
  <2>3. Beginning'
    <3>1. ASSUME NEW d \in snaps \ (handled \union {c}) PROVE Before(c, d)
      BY <1>2, BeforeTotal DEF HandleSnapshot, LoopInv, Beginning
    <3> QED
      BY <1>2, <3>1 DEF HandleSnapshot, LoopInv, Beginning
  <2> QED
    BY <1>1, <2>1, <2>2, <2>3 DEF LoopInv
<1>3. CASE Flush
  BY <1>1, <1>3, FlushStep DEF Flush, LoopInv, Beginning
<1>4. CASE UNCHANGED vars
  BY <1>1, <1>4 DEF vars, LoopInv, Beginning, OpenIsNewest, RowOK, FinalRow
<1> QED
  BY <1>2, <1>3, <1>4 DEF Next

-----------------------------------------------------------------------------
(* What follows from the rows at the end.                                  *)

\* The rows of the loop are the facts of the diff.
LEMMA LoopRows ==
    ASSUME LoopInv, done
    PROVE  LoopComputesIntervals
<1> DEFINE R == {[key |-> i[1], vf |-> i[2], vt |-> out[i]] : i \in {j \in Ids : out[j] # Absent}}
<1>1. ASSUME NEW i \in Ids
      PROVE  /\ out[i] # Absent <=> Openers(snaps, i[1], i[2]) # {}
             /\ out[i] # Absent => out[i] = ValidTo(snaps, i[1], i[2])
  <2>1. i[1] \in Keys /\ i[2] \in Times /\ i = <<i[1], i[2]>>
    BY DEF Ids
  <2>2. Openers(snaps, i[1], i[2]) # {} => ValidTo(snaps, i[1], i[2]) \in 1 .. SENTINEL
    BY <2>1, ValidToAfter DEF LoopInv, Beginning, IsHistory
  <2>3. out[i] = IF Openers(snaps, i[1], i[2]) = {} THEN Absent ELSE ValidTo(snaps, i[1], i[2])
    BY <2>1 DEF LoopInv, FinalRow
  <2> QED
    BY <2>2, <2>3, ValidTimeAssumption DEF Absent, SENTINEL
<1>2. R = Intervals(snaps)
  BY <1>1 DEF Intervals, Ids
<1> QED
  BY <1>2 DEF LoopComputesIntervals

\* A row that is live at a second is a fact of the diff that is.
LEMMA LiveRow ==
    ASSUME LoopInv, done, NEW k \in Keys, NEW f \in Times, NEW t \in Times
    PROVE  f <= t /\ out[<<k, f>>] > t <=> Live(snaps, k, f, t)
<1>1. Openers(snaps, k, f) # {} => ValidTo(snaps, k, f) \in 1 .. SENTINEL
  BY ValidToAfter DEF LoopInv, Beginning, IsHistory
<1>2. out[<<k, f>>] = IF Openers(snaps, k, f) = {} THEN Absent ELSE ValidTo(snaps, k, f)
  BY DEF LoopInv, FinalRow
<1> QED
  BY <1>1, <1>2 DEF Absent, Live, Times

LEMMA LoopTimeline ==
    ASSUME LoopInv, done, NEW t \in Times
    PROVE  Timeline(t) = ResolvedAsOf(snaps, t)
<1>1. ASSUME NEW k \in Keys PROVE k \in Timeline(t) <=> k \in ResolvedAsOf(snaps, t)
  BY LiveRow, FactsAreHistory DEF Timeline, LoopInv, Beginning
<1> QED
  BY <1>1 DEF Timeline, ResolvedAsOf

\* A key that opens again was gone before, and the fact before it had ended.
LEMMA FactsAbut ==
    ASSUME LoopInv, done, NEW k \in Keys, NEW f \in Times, NEW g \in Times, f < g,
           out[<<k, g>>] # Absent
    PROVE  out[<<k, f>>] <= g
<1> DEFINE A == LastOpener(snaps, k, f)
           B == LastOpener(snaps, k, g)
           W == {e \in snaps : Before(e, B)}
<1>1. snaps \subseteq Commits /\ IsHistory(snaps)
  BY DEF LoopInv, Beginning, IsHistory
<1>2. out[<<k, g>>] # Absent => Openers(snaps, k, g) # {}
  BY DEF LoopInv, FinalRow
<1>3. B \in snaps /\ B.ts = g /\ Opens(snaps, B, k)
  BY <1>1, <1>2, LastOpenerIsOpener
<1>4. CASE Openers(snaps, k, f) = {}
  <2>1. out[<<k, f>>] = Absent
    BY <1>4 DEF LoopInv, FinalRow
  <2> QED
    BY <2>1 DEF Absent, Times
<1>5. CASE Openers(snaps, k, f) # {}
  <2>1. A \in snaps /\ A.ts = f /\ k \in A.entries
    BY <1>1, <1>5, LastOpenerIsOpener
  <2>2. A \in W
    BY <1>3, <2>1 DEF Before
  <2>3. PICK p \in W : \A e \in W : ~Before(p, e)
    BY <1>1, <2>2, LastCommit
  <2>4. k \notin p.entries
    BY <1>3, <2>3 DEF Opens, Precedes
  <2>5. Before(A, p) /\ p \in snaps
    BY <1>1, <2>1, <2>2, <2>3, <2>4, BeforeTotal
  <2>6. p.ts <= g
    BY <1>1, <1>3, <2>3, BeforeAsymmetric
  <2>7. p.ts \in Nat /\ ~(p.ts > g)
    BY <1>1, <2>5, <2>6, CommitTypes DEF Times
  <2>8. ~(ValidTo(snaps, k, f) > g) /\ ValidTo(snaps, k, f) \in 1 .. SENTINEL
    BY <1>1, <1>5, <2>4, <2>5, <2>7, ValidToAfter
  <2>9. out[<<k, f>>] = ValidTo(snaps, k, f)
    BY <1>5 DEF LoopInv, FinalRow
  <2> QED
    BY <2>8, <2>9 DEF Times
<1> QED
  BY <1>4, <1>5

\* Of any history: the loop's variables keep their types.
THEOREM LoopTypes == Spec => []TypeOK
<1>1. LoopInv => TypeOK
  BY DEF LoopInv
<1> QED
  BY LoopInit, LoopStep, <1>1, PTL DEF Spec

\* build_intervals emits the rows of the declarative diff, so everything that
\* is proved of Intervals (ValidTimeProofs, IngestProofs) is true of the loop.
THEOREM LoopIsDiff == Spec => []LoopComputesIntervals
<1>1. LoopInv => LoopComputesIntervals
  BY LoopRows DEF LoopComputesIntervals
<1> QED
  BY LoopInit, LoopStep, <1>1, PTL DEF Spec

\* Read at any second, the rows that the loop emits are what the newest snapshot
\* at or before it resolved.
THEOREM LoopIsHistory == Spec => []TimelineIsHistory
<1>1. LoopInv => TimelineIsHistory
  BY LoopTimeline DEF TimelineIsHistory
<1> QED
  BY LoopInit, LoopStep, <1>1, PTL DEF Spec

\* The rows of one key never overlap.
THEOREM LoopFactsAbut == Spec => []FactsDoNotOverlap
<1>1. LoopInv => FactsDoNotOverlap
  BY FactsAbut DEF FactsDoNotOverlap
<1> QED
  BY LoopInit, LoopStep, <1>1, PTL DEF Spec

-----------------------------------------------------------------------------
(* Questions and answers.                                                  *)

\* An answer was computed from what was in the store, of the rows of the loop.
AnswerInv ==
    Asked =>
        /\ done
        /\ \E c \in Circumstances :
              \E store \in Stores(c.upto[Ours]), at \in Times, i \in Incidents :
                \E reply \in Replies(store, at) :
                    /\ Ours \in c.listed \/ store = {}
                    /\ answer = AnswerOf(at, i, c, store, reply)

\* No question has been asked before the loop begins.
LEMMA AnswerInitial == AnswersInit => LoopInv /\ AnswerInv
BY LoopInit DEF AnswersInit, AnswerInv, Asked, NotAsked

\* The loop keeps its invariant, and an answer is given once and of a loop that has ended.
LEMMA AnswerStep ==
    ASSUME LoopInv, AnswerInv, [AnswersNext]_answersVars
    PROVE  LoopInv' /\ AnswerInv'
<1>1. CASE Next /\ UNCHANGED answer
  <2>1. LoopInv'
    BY <1>1, LoopStep
  <2>2. ~done
    BY <1>1 DEF Next, HandleSnapshot, Flush, LoopInv
  <2> QED
    BY <1>1, <2>1, <2>2 DEF AnswerInv, Asked
<1>2. ASSUME done, NEW c \in Circumstances, NEW store \in Stores(c.upto[Ours]),
             NEW at \in Times, NEW i \in Incidents, NEW reply \in Replies(store, at),
             Ask(at, i, c, store, reply)
      PROVE  LoopInv' /\ AnswerInv'
  <2>1. LoopInv'
    BY <1>2, LoopStep DEF Ask
  <2>2. Rows' = Rows /\ done' = done
    BY <1>2 DEF Ask, vars, Rows
  <2>3. Stores(c.upto[Ours])' = Stores(c.upto[Ours])
    BY <2>2 DEF Stores, Sent
  <2> QED
    BY <1>2, <2>1, <2>2, <2>3 DEF Ask, AnswerInv
<1>3. CASE UNCHANGED answersVars
  <2>1. UNCHANGED vars /\ UNCHANGED answer /\ Rows' = Rows
    BY <1>3 DEF answersVars, vars, Rows
  <2>2. \A m : Stores(m)' = Stores(m)
    BY <2>1 DEF Stores, Sent
  <2> QED
    BY <2>1, <2>2, LoopStep DEF AnswerInv, Asked, vars
<1> QED
  BY <1>1, <1>2, <1>3 DEF AnswersNext

-----------------------------------------------------------------------------
(* Rows and the history.                                                   *)

\* A row that holds a second says what git says of it.
LEMMA RowIsHistory ==
    ASSUME LoopInv, done, NEW row \in Rows, NEW t \in Times, row.vf <= t, t < row.vt
    PROVE  row.key \in Keys /\ row.key \in ResolvedAsOf(snaps, t)
<1>1. PICK i \in Ids : row = [key |-> i[1], vf |-> i[2], vt |-> out[i]]
  BY DEF Rows
<1>2. i[1] \in Keys /\ i[2] \in Times /\ i = <<i[1], i[2]>>
  BY DEF Ids
<1>3. out[<<i[1], i[2]>>] > t /\ i[2] <= t
  <2>1. out[i] \in 0 .. SENTINEL
    BY <1>1 DEF LoopInv, TypeOK
  <2> QED
    BY <1>1, <1>2, <2>1, ValidTimeAssumption DEF Times, SENTINEL
<1>4. i[1] \in Timeline(t)
  BY <1>2, <1>3 DEF Timeline
<1> QED
  BY <1>1, <1>2, <1>4, LoopTimeline

\* What git resolves at a second has a row.
LEMMA HistoryHasRow ==
    ASSUME LoopInv, done, NEW t \in Times, NEW k \in ResolvedAsOf(snaps, t)
    PROVE  \E row \in LiveRows(Rows, t) : row.key = k
<1>1. k \in Timeline(t) /\ k \in Keys
  BY LoopTimeline DEF ResolvedAsOf
<1>2. PICK f \in Times : f <= t /\ out[<<k, f>>] > t
  BY <1>1 DEF Timeline
<1> DEFINE row == [key |-> k, vf |-> f, vt |-> out[<<k, f>>]]
<1>3. <<k, f>> \in Ids /\ out[<<k, f>>] \in 0 .. SENTINEL
  BY <1>1 DEF LoopInv, TypeOK, Ids
<1>4. out[<<k, f>>] # Absent /\ t < out[<<k, f>>]
  BY <1>2, <1>3, ValidTimeAssumption DEF Absent, Times, SENTINEL
<1>5. row \in Rows
  BY <1>3, <1>4 DEF Rows
<1> QED
  BY <1>2, <1>4, <1>5 DEF LiveRows

\* The bounds of a row are seconds; an open row ends at the sentinel.
LEMMA RowTypes ==
    ASSUME LoopInv, NEW row \in Rows
    PROVE  row.key \in Keys /\ row.vf \in Times /\ row.vf \in Nat /\ row.vt \in Nat
           /\ row.vt <= SENTINEL
<1>1. PICK i \in Ids : row = [key |-> i[1], vf |-> i[2], vt |-> out[i]]
  BY DEF Rows
<1>2. out[i] \in 0 .. SENTINEL
  BY DEF LoopInv, TypeOK
<1> QED
  BY <1>1, <1>2, ValidTimeAssumption DEF Ids, Times, SENTINEL

\* A fact has one row.
LEMMA OneRow ==
    ASSUME NEW a \in Rows, NEW b \in Rows, SameFact(a, b)
    PROVE  a.vt = b.vt
<1>1. PICK i \in Ids : a = [key |-> i[1], vf |-> i[2], vt |-> out[i]]
  BY DEF Rows
<1>2. PICK j \in Ids : b = [key |-> j[1], vf |-> j[2], vt |-> out[j]]
  BY DEF Rows
<1>3. i = <<i[1], i[2]>> /\ j = <<j[1], j[2]>>
  BY DEF Ids
<1>4. i[1] = j[1] /\ i[2] = j[2]
  BY <1>1, <1>2 DEF SameFact
<1> QED
  BY <1>1, <1>2, <1>3, <1>4

\* What is in the store is of a row, with its end or, if the row ended after the
\* second up to which the store has the history, with none.
LEMMA StoreRow ==
    ASSUME LoopInv, NEW m \in Nat, NEW store \in Stores(m), NEW a \in store
    PROVE  \E row \in Rows : /\ a.key = row.key /\ a.vf = row.vf
                            /\ (a.vt = row.vt \/ (a.vt = SENTINEL /\ m < row.vt))
<1>1. a \in Sent(m)
  BY DEF Stores
<1>2. CASE a \in Rows
  BY <1>2
<1>3. CASE a \notin Rows
  <2>1. PICK row \in Rows : row.vt > m /\ a = [row EXCEPT !.vt = SENTINEL]
    BY <1>1, <1>3 DEF Sent
  <2>2. \E k \in Keys, f \in Times, e \in Nat : row = [key |-> k, vf |-> f, vt |-> e]
    <3>1. PICK i \in Ids : row = [key |-> i[1], vf |-> i[2], vt |-> out[i]]
      BY DEF Rows
    <3> QED
      BY <3>1, RowTypes DEF Ids
  <2>3. a.key = row.key /\ a.vf = row.vf /\ a.vt = SENTINEL
    BY <2>1, <2>2
  <2> QED
    BY <2>1, <2>3, RowTypes
<1> QED
  BY <1>2, <1>3

\* The bounds of what is in the store are seconds too.
LEMMA StoreTypes ==
    ASSUME LoopInv, NEW m \in Nat, NEW store \in Stores(m), NEW a \in store
    PROVE  a.key \in Keys /\ a.vf \in Times /\ a.vf \in Nat /\ a.vt \in Nat
<1>1. PICK row \in Rows : /\ a.key = row.key /\ a.vf = row.vf
                          /\ (a.vt = row.vt \/ a.vt = SENTINEL)
  BY StoreRow
<1> QED
  BY <1>1, RowTypes, ValidTimeAssumption DEF SENTINEL

\* Up to the second that the ingest covers, the store says what git says ...
LEMMA StoreIsHistory ==
    ASSUME LoopInv, done, NEW m \in Nat, NEW store \in Stores(m), NEW a \in store,
           NEW t \in Times, t <= m, a.vf <= t, t < a.vt
    PROVE  a.key \in ResolvedAsOf(snaps, t)
<1>1. PICK row \in Rows : /\ a.key = row.key /\ a.vf = row.vf
                          /\ (a.vt = row.vt \/ (a.vt = SENTINEL /\ m < row.vt))
  BY StoreRow
<1>2. t \in Nat /\ row.vt \in Nat
  BY RowTypes, ValidTimeAssumption DEF Times
<1>3. row.vf <= t /\ t < row.vt
  BY <1>1, <1>2
<1> QED
  BY <1>1, <1>3, RowIsHistory

\* ... and all of it.
LEMMA StoreHasHistory ==
    ASSUME LoopInv, done, NEW m \in Nat, NEW store \in Stores(m),
           NEW t \in Times, t <= m, NEW k \in ResolvedAsOf(snaps, t)
    PROVE  \E a \in LiveRows(store, t) : a.key = k
<1>1. PICK row \in Rows : row.key = k /\ row.vf <= t /\ t < row.vt
  BY HistoryHasRow DEF LiveRows
<1>2. row.vf <= m
  BY <1>1, RowTypes DEF Times
<1>3. PICK a \in store : SameFact(a, row)
  BY <1>2 DEF Stores
<1>4. PICK r \in Rows : /\ a.key = r.key /\ a.vf = r.vf
                        /\ (a.vt = r.vt \/ a.vt = SENTINEL)
  BY StoreRow
<1>5. r.vt = row.vt
  BY <1>3, <1>4, OneRow DEF SameFact
<1>6. a.vf <= t /\ t < a.vt /\ a.key = k
  BY <1>1, <1>3, <1>4, <1>5, RowTypes, ValidTimeAssumption DEF SameFact, Times, SENTINEL
<1> QED
  BY <1>6 DEF LiveRows

\* The rows of a read are rows of the store, and hold the second it asked for.
LEMMA ReplyRows ==
    ASSUME NEW store, NEW at, NEW reply \in Replies(store, at)
    PROVE  /\ reply.rows \subseteq LiveRows(store, at) /\ reply.rows \subseteq store
           /\ reply.cut \in BOOLEAN
           /\ ~reply.cut => reply.rows = LiveRows(store, at)
<1> DEFINE live == LiveRows(store, at)
<1>1. live \subseteq store
  BY DEF LiveRows
<1>2. CASE reply = [rows |-> live, cut |-> FALSE]
  BY <1>1, <1>2
<1>3. CASE \E s \in (SUBSET live) \ {{}, live} : reply = [rows |-> s, cut |-> TRUE]
  BY <1>1, <1>3
<1> QED
  BY <1>2, <1>3 DEF Replies

\* The window of an incident is a stretch of seconds with its first publication.
LEMMA WindowTypes ==
    ASSUME NEW i \in Incidents
    PROVE  /\ i.window.start \in Times /\ i.window.first \in Times
           /\ i.window.start \in Nat /\ i.window.first \in Nat /\ i.window.end \in Nat
           /\ i.window.start <= i.window.first /\ i.window.first < i.window.end
BY AnswersAssumption, ValidTimeAssumption DEF Times, SENTINEL

\* A set of seconds has a greatest.
LEMMA GreatestSecond ==
    ASSUME NEW S, S \subseteq Times, S # {}
    PROVE  Max(S) \in S /\ \A t \in S : t <= Max(S)
<1>1. PICK d \in {MaxTs - t : t \in S} : \A u \in {MaxTs - t : t \in S} : d <= u
  <2>1. {MaxTs - t : t \in S} \subseteq Nat
    BY ValidTimeAssumption DEF Times
  <2> QED
    BY <2>1, LeastNatural
<1>2. PICK m \in S : d = MaxTs - m
  BY <1>1
<1>3. \A t \in S : m >= t
  BY <1>1, <1>2, ValidTimeAssumption DEF Times
<1> QED
  BY <1>2, <1>3 DEF Max, Times

-----------------------------------------------------------------------------
(* The verdict.                                                            *)

\* classify, by the claim that it makes.
LEMMA Claims ==
    ASSUME NEW rows, NEW bad, NEW w
    PROVE  LET v == Classify(rows, bad, w)
           IN  /\ v.claim = "matched" => /\ v.keys = {r.key : r \in Hits(rows, bad)}
                                         /\ v.keys # {}
               /\ v.claim = "held" => /\ v.keys = {r.key : r \in {u \in rows : Covers(u, w)}}
                                      /\ Hits(rows, bad) = {}
                                      /\ v.lead = LeadTime(rows, w)
               /\ v.claim = "changed" => /\ rows # {}
                                         /\ {u \in rows : Covers(u, w)} = {}
               /\ v.status = IF Hits(rows, bad) # {} THEN "EXPOSED"
                             ELSE IF rows = {} THEN "NOT_RESOLVED" ELSE "RESOLVED_CLEAN"
BY DEF Classify, Verdict

RowsOf(r, reply) == IF r = Ours THEN reply.rows ELSE {}

\* The answer classifies every repository of the directory by its own rows.
LEMMA Classified ==
    ASSUME NEW at, NEW i, NEW c \in Circumstances, NEW store, NEW reply,
           answer = AnswerOf(at, i, c, store, reply)
    PROVE  /\ Window = i.window /\ Malicious = i.malicious /\ answer.dataset = c
           /\ answer.reply = reply /\ answer.exposure.at = at
           /\ DOMAIN Verdicts = c.directory
           /\ \A r \in c.directory :
                Verdicts[r] = Classify(RowsOf(r, reply), i.malicious, i.window)
<1>1. c.directory \subseteq Repos
  BY AnswersAssumption
<1> DEFINE rows == [r \in Repos |-> IF r = Ours THEN reply.rows ELSE {}]
<1>2. \A r \in c.directory : rows[r] = RowsOf(r, reply)
  BY <1>1 DEF RowsOf
<1> HIDE DEF rows
<1>3. answer.exposure = Exposure(rows, Exists(store, c), c.directory, i.malicious, i.window, at,
                      reply.cut, c.directory # c.listed,
                      [repos |-> Cardinality(c.listed), marks |-> Cardinality(c.marked)])
  BY DEF AnswerOf, rows
<1>4. Verdicts = [r \in c.directory |-> Classify(rows[r], i.malicious, i.window)]
  BY <1>3 DEF Exposure, Verdicts
<1> QED
  BY <1>2, <1>3, <1>4 DEF AnswerOf, Exposure, Window, Malicious

\* What the theorems below assume of an answer.
Answered(at, i, c, store, reply) ==
    /\ LoopInv /\ done
    /\ at \in Times /\ i \in Incidents /\ c \in Circumstances
    /\ store \in Stores(c.upto[Ours]) /\ reply \in Replies(store, at)
    /\ Ours \in c.listed \/ store = {}
    /\ answer = AnswerOf(at, i, c, store, reply)

\* How far a history was ingested is a second.
LEMMA UptoTypes ==
    ASSUME NEW c \in Circumstances, NEW r \in Repos
    PROVE  c.upto[r] \in Nat
BY AnswersAssumption, ValidTimeAssumption DEF SENTINEL

\* A row of a read that holds a second the ingest covers is history.
LEMMA ReplyIsHistory ==
    ASSUME NEW at, NEW i, NEW c, NEW store, NEW reply,
           Answered(at, i, c, store, reply),
           NEW row \in reply.rows, NEW t \in Times, row.vf <= t, t < row.vt, Covered(Ours, t)
    PROVE  row.key \in ResolvedAsOf(snaps, t)
<1>1. row \in store /\ c.upto[Ours] \in Nat
  BY ReplyRows, UptoTypes DEF Answered, Repos
<1>2. t <= c.upto[Ours]
  BY Classified DEF Answered, Covered
<1> QED
  BY <1>1, <1>2, StoreIsHistory DEF Answered

\* The sentence about our repository is that of the rows that were read.
LEMMA OursIsClassified ==
    ASSUME NEW at, NEW i, NEW c, NEW store, NEW reply,
           Answered(at, i, c, store, reply), NEW claim, OfOurs(claim)
    PROVE  /\ Window = i.window /\ Malicious = i.malicious /\ answer.exposure.at = at
           /\ Verdicts[Ours] = Classify(reply.rows, i.malicious, i.window)
           /\ LoopInv /\ done /\ i \in Incidents /\ at \in Times
<1>1. /\ answer = AnswerOf(at, i, c, store, reply) /\ c \in Circumstances
      /\ LoopInv /\ done /\ i \in Incidents /\ at \in Times
  BY DEF Answered
<1>2. Ours \in DOMAIN Verdicts
  BY DEF OfOurs
<1>3. /\ Window = i.window /\ Malicious = i.malicious /\ answer.exposure.at = at
      /\ DOMAIN Verdicts = c.directory
      /\ \A r \in c.directory :
            Verdicts[r] = Classify(RowsOf(r, reply), i.malicious, i.window)
  BY <1>1, Classified
<1>4. Verdicts[Ours] = Classify(RowsOf(Ours, reply), i.malicious, i.window)
  BY <1>2, <1>3
<1> QED
  BY <1>1, <1>3, <1>4 DEF RowsOf

\* The bounds of the rows of a read.
LEMMA ReplyTypes ==
    ASSUME NEW at, NEW i, NEW c, NEW store, NEW reply,
           Answered(at, i, c, store, reply), NEW row \in reply.rows
    PROVE  /\ row \in store /\ row.vf \in Times /\ row.vf \in Nat /\ row.vt \in Nat
           /\ row.vf <= at /\ at < row.vt
<1>1. row \in store /\ c.upto[Ours] \in Nat /\ row.vf <= at /\ at < row.vt
  BY ReplyRows, UptoTypes DEF Answered, Repos, LiveRows
<1> QED
  BY <1>1, StoreTypes DEF Answered

\* A version is called held when one row covers the window, and that row is history.
LEMMA HeldHolds ==
    ASSUME NEW at, NEW i, NEW c, NEW store, NEW reply,
           Answered(at, i, c, store, reply)
    PROVE  HeldClaimIsTrue
<1> SUFFICES ASSUME OfOurs("held"), NEW k \in Verdicts[Ours].keys
             PROVE  /\ k \notin Malicious
                    /\ \A t \in Times : Inside(Window, t) /\ Covered(Ours, t)
                            => k \in ResolvedAsOf(snaps, t)
  BY DEF HeldClaimIsTrue
<1>1. /\ Window = i.window /\ Malicious = i.malicious /\ i \in Incidents
      /\ Verdicts[Ours] = Classify(reply.rows, i.malicious, i.window)
  BY OursIsClassified
<1>2. PICK row \in reply.rows : row.key = k /\ Covers(row, i.window)
  BY <1>1, Claims DEF OfOurs
<1>3. Hits(reply.rows, i.malicious) = {}
  BY <1>1, Claims DEF OfOurs
<1>4. row.vf \in Nat /\ row.vt \in Nat
  BY ReplyTypes
<1>5. ASSUME NEW t \in Times, Inside(i.window, t), Covered(Ours, t) PROVE k \in ResolvedAsOf(snaps, t)
  <2>1. row.vf <= t /\ t < row.vt
    BY <1>1, <1>2, <1>4, <1>5, WindowTypes DEF Covers, Inside, Times
  <2> QED
    BY <1>2, <1>5, <2>1, ReplyIsHistory
<1> QED
  BY <1>1, <1>2, <1>3, <1>5 DEF Hits

\* The lead time is the age of the youngest of the rows that cover the window.
LEMMA LeadHolds ==
    ASSUME NEW at, NEW i, NEW c, NEW store, NEW reply,
           Answered(at, i, c, store, reply)
    PROVE  LeadTimeIsNeverOverstated
<1> SUFFICES ASSUME OfOurs("held"), NEW k \in Verdicts[Ours].keys, NEW t \in Times,
                    Window.first - Verdicts[Ours].lead <= t, t <= Window.first, Covered(Ours, t)
             PROVE  k \in ResolvedAsOf(snaps, t)
  BY DEF LeadTimeIsNeverOverstated
<1>1. /\ Window = i.window /\ i \in Incidents
      /\ Verdicts[Ours] = Classify(reply.rows, i.malicious, i.window)
  BY OursIsClassified
<1>2. PICK row \in reply.rows : row.key = k /\ Covers(row, i.window)
  BY <1>1, Claims DEF OfOurs
<1>3. Verdicts[Ours].lead = LeadTime(reply.rows, i.window)
  BY <1>1, Claims DEF OfOurs
<1> DEFINE starts == {r.vf : r \in {u \in reply.rows : u.vf <= i.window.first}}
<1>4. \A r \in reply.rows : r.vf \in Times /\ r.vf \in Nat /\ r.vt \in Nat
  BY ReplyTypes
<1>5. row.vf <= i.window.first /\ i.window.first < row.vt
  BY <1>1, <1>2, <1>4, WindowTypes DEF Covers
<1>6. starts \subseteq Times /\ row.vf \in starts
  BY <1>2, <1>4, <1>5
<1>7. Max(starts) \in Times /\ row.vf <= Max(starts)
  BY <1>6, GreatestSecond
<1>8. Verdicts[Ours].lead = i.window.first - Max(starts)
  BY <1>3, <1>6 DEF LeadTime
<1>9. row.vf <= t /\ t < row.vt
  BY <1>1, <1>4, <1>5, <1>7, <1>8, WindowTypes, <1>2 DEF Times
<1> QED
  BY <1>2, <1>9, ReplyIsHistory

\* A hit is a row that was read, and rows are history.
LEMMA ExposedHolds ==
    ASSUME NEW at, NEW i, NEW c, NEW store, NEW reply,
           Answered(at, i, c, store, reply)
    PROVE  ExposedIsReal
<1> SUFFICES ASSUME OfOurs("matched")
             PROVE  /\ Verdicts[Ours].keys # {} /\ Verdicts[Ours].keys \subseteq Malicious
                    /\ Covered(Ours, answer.exposure.at) =>
                            Verdicts[Ours].keys \subseteq ResolvedAsOf(snaps, answer.exposure.at)
  BY DEF ExposedIsReal
<1>1. /\ Malicious = i.malicious /\ answer.exposure.at = at /\ at \in Times
      /\ Verdicts[Ours] = Classify(reply.rows, i.malicious, i.window)
  BY OursIsClassified
<1>2. /\ Verdicts[Ours].keys = {r.key : r \in Hits(reply.rows, i.malicious)}
      /\ Verdicts[Ours].keys # {}
  BY <1>1, Claims DEF OfOurs
<1>3. ASSUME Covered(Ours, at), NEW r \in reply.rows PROVE r.key \in ResolvedAsOf(snaps, at)
  BY <1>1, <1>3, ReplyTypes, ReplyIsHistory
<1> QED
  BY <1>1, <1>2, <1>3 DEF Hits

-----------------------------------------------------------------------------
(* The bounds of the rows and the commits.                                 *)

\* A commit that resolved something else than the one before it.
Changes(c) == c \in snaps /\ \A p \in snaps : Precedes(snaps, p, c) => p.entries # c.entries

\* A row is a fact of the diff: some commit opened it, and it ends as the diff says.
LEMMA RowIsFact ==
    ASSUME LoopInv, done, NEW row \in Rows
    PROVE  /\ Openers(snaps, row.key, row.vf) # {}
           /\ row.vt = ValidTo(snaps, row.key, row.vf)
<1>1. row \in Intervals(snaps)
  BY LoopRows DEF LoopComputesIntervals, Rows
<1> QED
  BY <1>1 DEF Intervals

\* A fact of the diff is a row.
LEMMA FactIsRow ==
    ASSUME LoopInv, done, NEW k \in Keys, NEW f \in Times, Openers(snaps, k, f) # {}
    PROVE  [key |-> k, vf |-> f, vt |-> ValidTo(snaps, k, f)] \in Rows
<1>1. Rows = Intervals(snaps)
  BY LoopRows DEF LoopComputesIntervals, Rows
<1> DEFINE i == <<k, f>>
<1>2. i \in Keys \X Times /\ i[1] = k /\ i[2] = f
  OBVIOUS
<1> HIDE DEF i
<1>3. [key |-> i[1], vf |-> i[2], vt |-> ValidTo(snaps, i[1], i[2])] \in Intervals(snaps)
  BY <1>2 DEF Intervals
<1> QED
  BY <1>1, <1>2, <1>3

\* A row begins with a commit that changed what the repository resolved ...
LEMMA RowBeginsWithAChange ==
    ASSUME LoopInv, done, NEW row \in Rows
    PROVE  \E c \in snaps : Changes(c) /\ c.ts = row.vf
<1>1. snaps \subseteq Commits
  BY DEF LoopInv, Beginning, IsHistory
<1>2. PICK c \in snaps : c.ts = row.vf /\ Opens(snaps, c, row.key)
  BY <1>1, RowIsFact, LastOpenerIsOpener
<1> QED
  BY <1>2 DEF Opens, Changes

\* ... and, if it ends, ends with one.
LEMMA RowEndsWithAChange ==
    ASSUME LoopInv, done, NEW row \in Rows, row.vt # SENTINEL
    PROVE  \E c \in snaps : Changes(c) /\ c.ts = row.vt
<1> DEFINE k == row.key
           L == LastOpener(snaps, k, row.vf)
           E == {e \in snaps : Before(L, e) /\ k \notin e.entries}
<1>1. snaps \subseteq Commits /\ IsHistory(snaps)
  BY DEF LoopInv, Beginning, IsHistory
<1>2. L \in snaps /\ k \in L.entries
  BY <1>1, RowIsFact, LastOpenerIsOpener
<1>3. /\ row.vt \in Ends(snaps, L, k)
      /\ \A u \in Ends(snaps, L, k) : row.vt <= u
  <2>1. row.vt = ValidTo(snaps, k, row.vf)
    BY RowIsFact
  <2>2. /\ Ends(snaps, L, k) = {} => ValidTo(snaps, k, row.vf) = SENTINEL
        /\ Ends(snaps, L, k) # {} => /\ ValidTo(snaps, k, row.vf) \in Ends(snaps, L, k)
                                     /\ \A u \in Ends(snaps, L, k) : ValidTo(snaps, k, row.vf) <= u
    BY <1>1, ValidToIsFirstEnd
  <2> HIDE DEF L, k
  <2> QED
    BY <2>1, <2>2
<1> HIDE DEF L
<1>4. PICK d \in E : d.ts = row.vt
  BY <1>3 DEF Ends
<1>5. PICK e \in E : \A g \in E : ~Before(g, e)
  BY <1>1, <1>4, FirstCommit
<1>6. e.ts = row.vt
  <2>1. row.vt <= e.ts
    BY <1>3, <1>5 DEF Ends
  <2>2. e.ts <= d.ts
    BY <1>1, <1>4, <1>5, CommitTypes DEF Before
  <2>3. e.ts \in Nat /\ d.ts \in Nat
    BY <1>1, <1>4, <1>5, CommitTypes
  <2> QED
    BY <1>4, <2>1, <2>2, <2>3
<1>7. ASSUME NEW p \in snaps, Precedes(snaps, p, e), p.entries = e.entries PROVE FALSE
  <2>1. k \notin p.entries /\ Before(p, e)
    BY <1>7, <1>5 DEF Precedes
  <2>2. ~Before(L, p)
    BY <1>5, <2>1
  <2>3. ~Before(p, L)
    BY <1>2, <1>5, <1>7 DEF Precedes
  <2> QED
    BY <1>1, <1>2, <2>1, <2>2, <2>3, BeforeTotal
<1> QED
  BY <1>5, <1>6, <1>7 DEF Changes

\* A row that was read at an instant of the window and does not cover it begins
\* or ends inside it.
LEMMA ChangedHolds ==
    ASSUME NEW at, NEW i, NEW c, NEW store, NEW reply,
           Answered(at, i, c, store, reply)
    PROVE  ChangedInsideTheWindow
<1> SUFFICES ASSUME OfOurs("changed"), answer.exposure.in_window
             PROVE  \E d \in snaps :
                        /\ Window.start < d.ts /\ d.ts < Window.end
                        /\ \A p \in snaps : Precedes(snaps, p, d) => p.entries # d.entries
  BY DEF ChangedInsideTheWindow
<1>1. /\ Window = i.window
      /\ Verdicts[Ours] = Classify(reply.rows, i.malicious, i.window)
      /\ LoopInv /\ done /\ i \in Incidents /\ at \in Times
  BY OursIsClassified
<1>2. Inside(i.window, at)
  BY DEF Answered, AnswerOf, Exposure
<1>3. reply.rows # {} /\ {row \in reply.rows : Covers(row, i.window)} = {}
  BY <1>1, Claims DEF OfOurs
<1>4. PICK a \in reply.rows : ~Covers(a, i.window)
  BY <1>3
<1>5. PICK row \in Rows : /\ a.vf = row.vf
                          /\ (a.vt = row.vt \/ a.vt = SENTINEL)
                          /\ a.vf <= at /\ at < a.vt
  <2>1. a \in store /\ c.upto[Ours] \in Nat /\ a.vf <= at /\ at < a.vt
    BY ReplyTypes, UptoTypes DEF Answered, Repos
  <2>2. LoopInv /\ store \in Stores(c.upto[Ours])
    BY DEF Answered
  <2>3. \E row \in Rows : a.vf = row.vf /\ (a.vt = row.vt \/ a.vt = SENTINEL)
    BY <2>1, <2>2, StoreRow
  <2> QED
    BY <2>1, <2>3
<1>6. /\ row.vf \in Nat /\ a.vt \in Nat /\ at \in Nat
      /\ i.window.start \in Nat /\ i.window.end \in Nat
  BY <1>1, <1>5, RowTypes, ReplyTypes, WindowTypes DEF Times
<1>7. i.window.start <= at /\ at < i.window.end
  BY <1>2 DEF Inside
<1>8. CASE row.vf > i.window.start
  <2>1. PICK d \in snaps : Changes(d) /\ d.ts = row.vf
    BY <1>1, RowBeginsWithAChange
  <2>2. i.window.start < d.ts /\ d.ts < i.window.end
    BY <1>5, <1>6, <1>7, <1>8, <2>1
  <2> QED
    BY <1>1, <2>1, <2>2 DEF Changes
<1>9. CASE a.vt < i.window.end
  <2>1. a.vt # SENTINEL
    <3>1. i.window.end \in Times \union {SENTINEL}
      BY <1>1, AnswersAssumption
    <3> QED
      BY <1>6, <1>9, <3>1, ValidTimeAssumption DEF Times, SENTINEL
  <2>2. PICK d \in snaps : Changes(d) /\ d.ts = a.vt
    BY <1>1, <1>5, <2>1, RowEndsWithAChange
  <2>3. i.window.start < d.ts /\ d.ts < i.window.end
    BY <1>5, <1>6, <1>7, <1>9, <2>2
  <2> QED
    BY <1>1, <2>2, <2>3 DEF Changes
<1> QED
  BY <1>4, <1>5, <1>6, <1>8, <1>9 DEF Covers

-----------------------------------------------------------------------------
(* The walk that a graph was built from, read back from its rows.          *)

\* A walk of a whole graph: every commit of it resolves some key.
WalkInv == LoopInv /\ \A c \in snaps : c.entries # {}

\* A set of seconds has a least.
LEMMA LeastSecond ==
    ASSUME NEW S, S \subseteq Times, S # {}
    PROVE  Min(S) \in S /\ \A t \in S : Min(S) <= t
<1>1. S \subseteq Nat
  BY ValidTimeAssumption DEF Times
<1>2. PICK m \in S : \A t \in S : m <= t
  BY <1>1, LeastNatural
<1> QED
  BY <1>2 DEF Min

\* In a history one commit at most precedes another.
LEMMA OnePredecessor ==
    ASSUME LoopInv, NEW c \in snaps, NEW p \in snaps, NEW q \in snaps,
           Precedes(snaps, p, c), Precedes(snaps, q, c)
    PROVE  p = q
BY BeforeTotal DEF Precedes, LoopInv, Beginning

\* A key that the commit before it did not have opens with a commit, and that
\* second begins a row.
LEMMA NewKeyBeginsARow ==
    ASSUME LoopInv, done, NEW c \in snaps, NEW k \in c.entries,
           \A p \in snaps : Precedes(snaps, p, c) => k \notin p.entries
    PROVE  \E row \in Rows : row.vf = c.ts
<1>1. c \in Commits
  BY DEF LoopInv, Beginning, IsHistory
<1>2. k \in Keys /\ c.ts \in Times
  BY <1>1, CommitTypes
<1>3. Openers(snaps, k, c.ts) # {}
  BY DEF Openers, Opens
<1>4. [key |-> k, vf |-> c.ts, vt |-> ValidTo(snaps, k, c.ts)] \in Rows
  BY <1>2, <1>3, FactIsRow
<1> QED
  BY <1>4

\* A key that a commit drops ends a row at that second, or opens again in it.
LEMMA DroppedKeyEndsARow ==
    ASSUME LoopInv, done, NEW c \in snaps, NEW p \in snaps, Precedes(snaps, p, c),
           NEW k \in p.entries, k \notin c.entries
    PROVE  \E row \in Rows : row.vf = c.ts \/ (row.vt = c.ts /\ row.vt # SENTINEL)
<1>1. snaps \subseteq Commits /\ IsHistory(snaps)
  BY DEF LoopInv, Beginning, IsHistory
<1>2. PICK o \in Run(snaps, k, p) : Opens(snaps, o, k)
  BY <1>1, RunHasOpener
<1> DEFINE f == o.ts
           L == LastOpener(snaps, k, f)
           row == [key |-> k, vf |-> f, vt |-> ValidTo(snaps, k, f)]
<1>3. /\ o \in snaps /\ o \in Commits /\ p \in Commits /\ c \in Commits
      /\ ~Before(p, o) /\ Before(p, c)
      /\ \A e \in snaps : ~Before(e, o) /\ ~Before(p, e) => k \in e.entries
  BY <1>1, <1>2 DEF Run, Precedes
<1>4. k \in Keys /\ f \in Times /\ f \in Nat /\ c.ts \in Times /\ c.ts \in Nat /\ f <= c.ts
  BY <1>3, CommitTypes DEF Before
<1>5. o \in Openers(snaps, k, f)
  BY <1>2, <1>3 DEF Openers
<1>6. row \in Rows
  <2>1. Openers(snaps, k, f) # {}
    BY <1>5
  <2> HIDE DEF f
  <2> QED
    BY <1>4, <2>1, FactIsRow
<1>7. L \in snaps /\ L.ts = f /\ k \in L.entries /\ ~Before(L, o)
  BY <1>1, <1>5, LastOpenerIsOpener
<1>8. CASE Before(p, L)
  <2>1. ~Before(L, c)
    BY <1>7, <1>8 DEF Precedes
  <2>2. L \in Commits
    BY <1>1, <1>7
  <2>3. c.ts <= f
    BY <1>3, <1>7, <2>1, <2>2, CommitTypes DEF Before
  <2> QED
    BY <1>4, <1>6, <2>3
<1>9. CASE ~Before(p, L)
  <2>1. L \in Commits
    BY <1>1, <1>7
  <2>2. Before(L, c)
    BY <1>3, <1>9, <2>1, CommitTypes DEF Before
  <2>3. c.ts \in Ends(snaps, L, k)
    BY <2>2 DEF Ends
  <2>4. ASSUME NEW e \in snaps, Before(L, e), k \notin e.entries PROVE c.ts <= e.ts
    <3>1. e \in Commits
      BY <1>1
    <3>2. ~Before(e, o)
      BY <1>3, <1>7, <2>1, <2>4, <3>1, CommitTypes DEF Before
    <3>3. Before(p, e)
      BY <1>3, <2>4, <3>2
    <3>4. ~Before(e, c)
      BY <3>3 DEF Precedes
    <3> QED
      BY <1>3, <3>1, <3>4, CommitTypes DEF Before
  <2>5. \A u \in Ends(snaps, L, k) : c.ts <= u
    BY <2>4 DEF Ends
  <2>6. /\ ValidTo(snaps, k, f) \in Ends(snaps, L, k)
        /\ \A u \in Ends(snaps, L, k) : ValidTo(snaps, k, f) <= u
        /\ Ends(snaps, L, k) \subseteq Times
    BY <1>1, <2>3, ValidToIsFirstEnd
  <2>7. ValidTo(snaps, k, f) <= c.ts /\ c.ts <= ValidTo(snaps, k, f) /\ ValidTo(snaps, k, f) \in Times
    BY <2>3, <2>5, <2>6
  <2>8. ValidTo(snaps, k, f) = c.ts /\ c.ts # SENTINEL
    BY <1>4, <2>7, ValidTimeAssumption DEF Times, SENTINEL
  <2> QED
    BY <1>6, <2>8
<1> QED
  BY <1>8, <1>9

\* A commit that changed what is resolved is a bound of a row.
LEMMA ChangeIsABound ==
    ASSUME WalkInv, done, NEW c, Changes(c)
    PROVE  \E row \in Rows : row.vf = c.ts \/ (row.vt = c.ts /\ row.vt # SENTINEL)
<1> USE DEF WalkInv
<1>1. c \in snaps /\ c.entries # {}
  BY DEF Changes
<1>2. CASE \E p \in snaps : Precedes(snaps, p, c)
  <2>1. PICK p \in snaps : Precedes(snaps, p, c)
    BY <1>2
  <2>2. p.entries # c.entries
    BY <2>1 DEF Changes
  <2>3. p \in Commits /\ c \in Commits
    BY <1>1 DEF LoopInv, Beginning, IsHistory
  <2>4. CASE \E k \in c.entries : k \notin p.entries
    <3>1. PICK k \in c.entries : k \notin p.entries
      BY <2>4
    <3>2. \A q \in snaps : Precedes(snaps, q, c) => k \notin q.entries
      BY <1>1, <2>1, <3>1, OnePredecessor
    <3> QED
      BY <1>1, <3>1, <3>2, NewKeyBeginsARow
  <2>5. CASE \E k \in p.entries : k \notin c.entries
    BY <1>1, <2>1, <2>5, DroppedKeyEndsARow
  <2>6. p.entries \subseteq Keys /\ c.entries \subseteq Keys
    BY <2>3, CommitTypes
  <2> QED
    BY <2>2, <2>4, <2>5, <2>6
<1>3. CASE ~ \E p \in snaps : Precedes(snaps, p, c)
  BY <1>1, <1>3, NewKeyBeginsARow
<1> QED
  BY <1>2, <1>3

\* The first commit changes what is resolved.
LEMMA WalkBegins ==
    ASSUME WalkInv, done, snaps # {}
    PROVE  \E row \in Rows : \A c \in snaps : row.vf <= c.ts
<1> USE DEF WalkInv
<1>1. snaps \subseteq Commits
  BY DEF LoopInv, Beginning, IsHistory
<1>2. PICK c \in snaps : \A d \in snaps : ~Before(d, c)
  BY <1>1, FirstCommit
<1>3. \A d \in snaps : c.ts <= d.ts
  BY <1>1, <1>2, CommitTypes DEF Before
<1>4. \E row \in Rows : row.vf = c.ts
  BY <1>2, NewKeyBeginsARow DEF Precedes
<1> QED
  BY <1>3, <1>4

\* The instants that are read back are those of the commits that changed
\* something, between the first commit of the walk and the last.
LEMMA ReprojectionHolds ==
    ASSUME LoopInv
    PROVE  ReprojectionKeepsTheWalk
<1> SUFFICES ASSUME done, snaps # {}, \A c \in snaps : c.entries # {}
             PROVE  LET walked == FromSnapshots(snaps)
                        changes == {c.ts : c \in {d \in snaps :
                                \A p \in snaps : Precedes(snaps, p, d) => p.entries # d.entries}}
                    IN  \A read \in {FromGraph(Rows, SENTINEL), FromGraphExport(Rows, SENTINEL)} :
                            /\ read.instants = changes
                            /\ read.first = walked.first
                            /\ read.last <= walked.last
                            /\ \A row \in Rows :
                                row.vf <= read.last /\ (row.vt = SENTINEL \/ row.vt <= read.last)
  BY DEF ReprojectionKeepsTheWalk
<1> DEFINE walk == {c.ts : c \in snaps}
           changes == {c.ts : c \in {d \in snaps :
                            \A p \in snaps : Precedes(snaps, p, d) => p.entries # d.entries}}
           opened == {row.vf : row \in Rows}
           closed == {row.vt : row \in {s \in Rows : s.vt # SENTINEL}}
           bounds == opened \union closed
           read == FromGraph(Rows, SENTINEL)
           walked == FromSnapshots(snaps)
<1>1. WalkInv /\ snaps \subseteq Commits
  BY DEF WalkInv, LoopInv, Beginning, IsHistory
<1>2. /\ \A c : Changes(c) => c.ts \in changes
      /\ \A t \in changes : \E c : Changes(c) /\ c.ts = t
      /\ changes \subseteq walk
  BY DEF Changes
<1>3. bounds = changes
  <2>1. ASSUME NEW row \in Rows PROVE row.vf \in changes
    <3>1. \E c \in snaps : Changes(c) /\ c.ts = row.vf
      BY <1>1, RowBeginsWithAChange
    <3> QED
      BY <1>2, <3>1
  <2>2. ASSUME NEW row \in Rows, row.vt # SENTINEL PROVE row.vt \in changes
    <3>1. \E c \in snaps : Changes(c) /\ c.ts = row.vt
      BY <1>1, <2>2, RowEndsWithAChange
    <3> QED
      BY <1>2, <3>1
  <2>3. ASSUME NEW t \in changes PROVE t \in bounds
    <3>1. PICK c : Changes(c) /\ c.ts = t
      BY <1>2
    <3> QED
      BY <1>1, <3>1, ChangeIsABound
  <2> QED
    BY <2>1, <2>2, <2>3
<1>4. walk \subseteq Times /\ opened \subseteq walk /\ bounds \subseteq walk
  <2>1. walk \subseteq Times
    BY <1>1, CommitTypes
  <2> QED
    BY <1>2, <1>3, <2>1
<1>5. opened # {} /\ walk # {} /\ \E t \in opened : \A u \in walk : t <= u
  BY <1>1, WalkBegins
<1> HIDE DEF opened, closed, walk, changes
<1>6. Min(opened) = Min(walk)
  <2>1. /\ Min(opened) \in opened /\ \A t \in opened : Min(opened) <= t
        /\ Min(walk) \in walk /\ \A t \in walk : Min(walk) <= t
    BY <1>4, <1>5, LeastSecond
  <2>2. PICK t \in opened : \A u \in walk : t <= u
    BY <1>5
  <2>3. t \in Nat /\ Min(opened) \in Nat /\ Min(walk) \in Nat
    <3>1. \A u \in Times : u \in Nat
      BY ValidTimeAssumption DEF Times
    <3>2. t \in Times /\ Min(opened) \in Times /\ Min(walk) \in Times
      BY <1>4, <2>1, <2>2
    <3> QED
      BY <3>1, <3>2
  <2>4. Min(opened) <= t /\ t <= Min(walk) /\ Min(walk) <= Min(opened)
    BY <1>4, <2>1, <2>2
  <2> QED
    BY <2>3, <2>4
<1>7. /\ Max(bounds) \in walk /\ Max(bounds) <= Max(walk)
      /\ \A t \in bounds : t <= Max(bounds)
  <2>1. bounds \subseteq Times /\ bounds # {}
    BY <1>4, <1>5
  <2>2. Max(bounds) \in bounds /\ \A t \in bounds : t <= Max(bounds)
    BY <2>1, GreatestSecond
  <2> QED
    BY <1>4, <1>5, <2>2, GreatestSecond
<1>8. /\ read.instants = bounds /\ read.first = Min(opened) /\ read.last = Max(bounds)
      /\ walked.first = Min(walk) /\ walked.last = Max(walk)
  BY DEF FromGraph, FromSnapshots, opened, closed, walk
<1>9. FromGraphExport(Rows, SENTINEL) = read
  BY DEF FromGraphExport
<1> HIDE DEF read, walked
<1>10. \A row \in Rows : row.vf \in bounds /\ (row.vt # SENTINEL => row.vt \in bounds)
  BY DEF opened, closed
<1>11. /\ read.instants = changes /\ read.first = walked.first /\ read.last <= walked.last
       /\ \A row \in Rows : row.vf <= read.last /\ (row.vt = SENTINEL \/ row.vt <= read.last)
  BY <1>3, <1>6, <1>7, <1>8, <1>10
<1> QED
  BY <1>9, <1>11 DEF read, walked, changes

-----------------------------------------------------------------------------
(* The sentences.                                                          *)

\* The branches of the two headlines come in another order and name the plural
\* in another way; they agree where counts are counts.
LEMMA Headlines ==
    ASSUME NEW e, e.answerable \in BOOLEAN, e.truncated \in BOOLEAN, e.in_graph \in BOOLEAN,
           e.counts.exposed \in Nat, Total(e.counts) \in Nat
    PROVE  Headline(e) = PageHeadline(e)
<1>1. CASE ~e.answerable
  BY <1>1 DEF Headline, PageHeadline, RefusalCause
<1> DEFINE hits == e.counts.exposed
           total == Total(e.counts)
<1>2. CASE e.answerable /\ hits > 0
  <2>1. (IF total # 0 THEN total ELSE hits) = (IF total > 0 THEN total ELSE hits)
    OBVIOUS
  <2>2. Headline(e) = Line("resolved", hits, total, e.truncated,
                           (IF total # 0 THEN total ELSE hits) # 1)
    <3>1. hits # 0
      BY <1>2
    <3> QED
      BY <1>2, <3>1, Zenon DEF Headline
  <2>3. PageHeadline(e) = Line("resolved", hits, total, e.truncated,
                               (IF total > 0 THEN total ELSE hits) # 1)
    BY <1>2, Zenon DEF PageHeadline
  <2> QED
    BY <2>1, <2>2, <2>3, Zenon
<1>3. CASE e.answerable /\ e.counts.exposed = 0 /\ e.truncated
  BY <1>3 DEF Headline, PageHeadline
<1>4. CASE e.answerable /\ e.counts.exposed = 0 /\ ~e.truncated /\ ~e.in_graph
  BY <1>4 DEF Headline, PageHeadline
<1>5. CASE e.answerable /\ e.counts.exposed = 0 /\ ~e.truncated /\ e.in_graph
  <2>1. ~(hits > 0)
    BY <1>5
  <2>2. Headline(e) = IF total > 0 THEN Line("none of", 0, total, FALSE, total # 1) ELSE Plain("none")
    BY <1>5, <2>1, Zenon DEF Headline
  <2>3. PageHeadline(e) = IF total > 0 THEN Line("none of", 0, total, e.truncated, total # 1)
                          ELSE Plain("none")
    BY <1>5, <2>1, Zenon DEF PageHeadline
  <2>4. Line("none of", 0, total, FALSE, total # 1) = Line("none of", 0, total, e.truncated, total # 1)
    BY <1>5
  <2>5. CASE total > 0
    BY <2>2, <2>3, <2>4, <2>5, Zenon
  <2>6. CASE ~(total > 0)
    BY <2>2, <2>3, <2>6, Zenon
  <2> QED
    BY <2>5, <2>6
<1> QED
  BY <1>1, <1>2, <1>3, <1>4, <1>5

\* There are two repositories.
LEMMA RepositoriesAreFinite ==
    ASSUME NEW S, S \subseteq Repos
    PROVE  IsFiniteSet(S) /\ Cardinality(S) \in Nat
<1>1. IsFiniteSet({Ours} \union {Other})
  BY FS_Singleton, FS_Union
<1>2. Repos = {Ours} \union {Other}
  BY DEF Repos
<1> QED
  BY <1>1, <1>2, FS_Subset, FS_CardinalityType

\* What the packet is made of.
LEMMA Packets ==
    ASSUME NEW at, NEW i, NEW c, NEW store, NEW reply,
           Answered(at, i, c, store, reply)
    PROVE  LET e == answer.exposure
           IN  /\ answer.packet.answer.headline = Headline(e)
               /\ answer.packet.answer.counts = PacketAnswer(e).counts
               /\ answer.packet.answer.caveats = (e.answerable /\ e.truncated)
               /\ answer.packet.receipts = Receipts(e)
               /\ answer.document = RenderMarkdown(answer.packet)
               /\ e.answerable \in BOOLEAN /\ e.truncated \in BOOLEAN /\ e.in_graph \in BOOLEAN
               /\ e.truncated = (reply.cut \/ c.directory # c.listed)
               /\ e.in_graph = Exists(store, c)
               /\ e.answerable = (e.reason = "none")
               /\ e.reason = ReasonOf([repos |-> Cardinality(c.listed), marks |-> Cardinality(c.marked)])
               /\ e.counts = Summarize(Verdicts)
               /\ DOMAIN Verdicts = c.directory
               /\ c.directory \subseteq c.listed /\ c.listed \subseteq Repos
               /\ c.marked \subseteq c.listed
<1> USE DEF Answered
<1>1. c.directory \subseteq c.listed /\ c.listed \subseteq Repos /\ c.marked \subseteq c.listed
  BY AnswersAssumption
<1>2. answer.packet = Packet(answer.exposure, Health(c)) /\ answer.document = RenderMarkdown(answer.packet)
  BY DEF AnswerOf
<1>3. reply.cut \in BOOLEAN
  BY ReplyRows
<1> DEFINE e == answer.exposure
           rows == [r \in Repos |-> IF r = Ours THEN reply.rows ELSE {}]
           coverage == [repos |-> Cardinality(c.listed), marks |-> Cardinality(c.marked)]
<1>4. e = Exposure(rows, Exists(store, c), c.directory, i.malicious, i.window, at,
                   reply.cut, c.directory # c.listed, coverage)
  BY DEF AnswerOf
<1> HIDE DEF e, rows, coverage
<1>5. /\ e.answerable = (ReasonOf(coverage) = "none") /\ e.reason = ReasonOf(coverage)
      /\ e.truncated = (reply.cut \/ c.directory # c.listed) /\ e.in_graph = Exists(store, c)
      /\ e.counts = Summarize(e.repos) /\ DOMAIN e.repos = c.directory
  BY <1>4, <1>3 DEF Exposure, Truncated
<1>6. e.answerable \in BOOLEAN /\ e.truncated \in BOOLEAN /\ e.in_graph \in BOOLEAN
  BY <1>3, <1>5, AnswersAssumption DEF Exists
<1>7. /\ answer.packet.answer.headline = Headline(e)
      /\ answer.packet.answer.counts = PacketAnswer(e).counts
      /\ answer.packet.answer.caveats = (e.answerable /\ e.truncated)
      /\ answer.packet.receipts = Receipts(e)
  BY <1>2 DEF Packet, PacketAnswer, e
<1> QED
  BY <1>1, <1>2, <1>5, <1>6, <1>7 DEF Verdicts, e, coverage

\* The two chains of branches, case by case.
LEMMA HeadlineHolds ==
    ASSUME NEW at, NEW i, NEW c, NEW store, NEW reply,
           Answered(at, i, c, store, reply)
    PROVE  HeadlineIsThePages
<1> DEFINE e == answer.exposure
<1>1. /\ e.counts = Summarize(Verdicts) /\ answer.packet.answer.headline = Headline(e)
      /\ e.answerable \in BOOLEAN /\ e.truncated \in BOOLEAN /\ e.in_graph \in BOOLEAN
      /\ DOMAIN Verdicts \subseteq Repos
  BY Packets
<1>2. ASSUME NEW status PROVE CountOf(Verdicts, status) \in Nat
  <2>1. {r \in DOMAIN Verdicts : Verdicts[r].status = status} \subseteq Repos
    BY <1>1
  <2> QED
    BY <2>1, RepositoriesAreFinite DEF CountOf
<1>3. /\ e.counts.exposed = CountOf(Verdicts, "EXPOSED")
      /\ e.counts.resolved_clean = CountOf(Verdicts, "RESOLVED_CLEAN")
      /\ e.counts.not_resolved = CountOf(Verdicts, "NOT_RESOLVED")
  BY <1>1 DEF Summarize
<1>4. e.counts.exposed \in Nat /\ Total(e.counts) \in Nat
  BY <1>2, <1>3 DEF Total
<1> HIDE DEF e
<1>5. Headline(e) = PageHeadline(e)
  BY <1>1, <1>4, Headlines
<1> QED
  BY <1>1, <1>5 DEF HeadlineIsThePages, e

\* Of a repository that is covered: a status is the history's where the read was
\* whole, and EXPOSED always is.
LEMMA StatusIsTrue ==
    ASSUME NEW at, NEW i, NEW c, NEW store, NEW reply,
           Answered(at, i, c, store, reply), NEW r \in c.directory, Covered(r, at)
    PROVE  /\ Verdicts[r].status = "EXPOSED" => TrueStatus(r, at) = "EXPOSED"
           /\ ~reply.cut => Verdicts[r].status = TrueStatus(r, at)
<1> DEFINE rows == RowsOf(r, reply)
<1>1. /\ Verdicts[r].status = IF Hits(rows, i.malicious) # {} THEN "EXPOSED"
                              ELSE IF rows = {} THEN "NOT_RESOLVED" ELSE "RESOLVED_CLEAN"
      /\ Malicious = i.malicious /\ answer.dataset = c /\ at \in Times /\ c \in Circumstances
  BY Classified, Claims DEF Answered
<1>2. r \in Repos /\ c.upto[r] \in Nat /\ at <= c.upto[r]
  <2>1. r \in Repos
    BY <1>1, AnswersAssumption
  <2> QED
    BY <1>1, <2>1, UptoTypes DEF Covered
<1>3. r # Ours => r = Other /\ rows = {} /\ Resolved(r, at) = {}
  BY <1>1, <1>2, AnswersAssumption DEF RowsOf, Resolved, Repos
<1>4. \A row \in rows : row.key \in Resolved(r, at)
  BY <1>1, <1>3, ReplyTypes, ReplyIsHistory DEF RowsOf, Resolved
<1>5. ~reply.cut => \A k \in Resolved(r, at) : \E row \in rows : row.key = k
  <2>1. CASE r = Ours
    <3>1. ~reply.cut => rows = LiveRows(store, at)
      BY <2>1, ReplyRows DEF RowsOf, Answered
    <3>2. Resolved(r, at) = ResolvedAsOf(snaps, at)
      BY <2>1 DEF Resolved
    <3> QED
      BY <1>1, <1>2, <2>1, <3>1, <3>2, StoreHasHistory DEF Answered
  <2> QED
    BY <1>3, <2>1
<1>6. Hits(rows, i.malicious) # {} => Resolved(r, at) \intersect Malicious # {}
  BY <1>1, <1>4 DEF Hits
<1>7. ~reply.cut /\ Resolved(r, at) \intersect Malicious # {} => Hits(rows, i.malicious) # {}
  BY <1>1, <1>5 DEF Hits
<1>8. ~reply.cut => (rows = {} <=> Resolved(r, at) = {})
  BY <1>4, <1>5
<1> QED
  BY <1>1, <1>6, <1>7, <1>8 DEF TrueStatus

\* The listed repositories that have a status by their histories: those that are
\* covered, and with those that are not.
Surely(c, status, at) == {r \in c.listed : Covered(r, at) /\ TrueStatus(r, at) = status}
Perhaps(c, status, at) == {r \in c.listed : Covered(r, at) => TrueStatus(r, at) = status}

\* How many repositories of the directory have a status, against the dataset.
LEMMA CountsCompare ==
    ASSUME NEW at, NEW i, NEW c, NEW store, NEW reply,
           Answered(at, i, c, store, reply)
    PROVE  /\ CountOf(Verdicts, "EXPOSED") <= Cardinality(Perhaps(c, "EXPOSED", at))
           /\ Cardinality(c.directory) <= Cardinality(c.listed)
           /\ ~answer.exposure.truncated => \A status :
                /\ Cardinality(Surely(c, status, at)) <= CountOf(Verdicts, status)
                /\ CountOf(Verdicts, status) <= Cardinality(Perhaps(c, status, at))
<1>1. /\ c.directory \subseteq c.listed /\ c.listed \subseteq Repos /\ DOMAIN Verdicts = c.directory
      /\ answer.exposure.truncated = (reply.cut \/ c.directory # c.listed)
      /\ reply.cut \in BOOLEAN
  <2>1. reply.cut \in BOOLEAN
    BY ReplyRows DEF Answered
  <2> QED
    BY <2>1, Packets
<1> DEFINE found(status) == {r \in c.directory : Verdicts[r].status = status}
<1>2. found("EXPOSED") \subseteq Perhaps(c, "EXPOSED", at) /\ Perhaps(c, "EXPOSED", at) \subseteq Repos
  BY <1>1, StatusIsTrue DEF Perhaps
<1>3. Cardinality(found("EXPOSED")) <= Cardinality(Perhaps(c, "EXPOSED", at))
  BY <1>2, RepositoriesAreFinite, FS_Subset
<1>4. Cardinality(c.directory) <= Cardinality(c.listed)
  BY <1>1, RepositoriesAreFinite, FS_Subset
<1>5. ASSUME ~answer.exposure.truncated, NEW status
      PROVE  /\ Cardinality(Surely(c, status, at)) <= Cardinality(found(status))
             /\ Cardinality(found(status)) <= Cardinality(Perhaps(c, status, at))
  <2>1. c.directory = c.listed /\ ~reply.cut
    BY <1>1, <1>5
  <2>2. \A r \in c.directory : Covered(r, at) => Verdicts[r].status = TrueStatus(r, at)
    BY <2>1, StatusIsTrue
  <2>3. /\ Surely(c, status, at) \subseteq found(status)
        /\ found(status) \subseteq Perhaps(c, status, at)
        /\ found(status) \subseteq Repos /\ Perhaps(c, status, at) \subseteq Repos
    BY <1>1, <2>1, <2>2 DEF Surely, Perhaps
  <2> QED
    BY <2>3, RepositoriesAreFinite, FS_Subset
<1>6. \A status : CountOf(Verdicts, status) = Cardinality(found(status))
  BY <1>1 DEF CountOf
<1> QED
  BY <1>3, <1>4, <1>5, <1>6

\* A number of the packet is between what the histories that are covered make of
\* it and what the others could add, or not above that where it is called a floor.
LEMMA CountsAreTrue ==
    ASSUME NEW at, NEW i, NEW c, NEW store, NEW reply,
           Answered(at, i, c, store, reply), NEW key \in CountKeys
    PROVE  LET value == CountOfKey(answer.exposure.counts, key)
               basis == Basis(key, answer.exposure.truncated)
           IN  /\ basis = "exact" => AtLeast(key, at) <= value
               /\ basis \in {"exact", "floor"} => value <= AtMost(key, at)
<1> DEFINE e == answer.exposure
<1>1. /\ e.counts = Summarize(Verdicts) /\ DOMAIN Verdicts = c.directory
      /\ e.truncated = (reply.cut \/ c.directory # c.listed) /\ e.truncated \in BOOLEAN
      /\ answer.dataset = c /\ c.directory \subseteq c.listed /\ c.listed \subseteq Repos
  BY Packets, Classified DEF Answered
<1>2. /\ CountOf(Verdicts, "EXPOSED") <= Cardinality(Perhaps(c, "EXPOSED", at))
      /\ Cardinality(c.directory) <= Cardinality(c.listed)
      /\ ~e.truncated => \A status :
            /\ Cardinality(Surely(c, status, at)) <= CountOf(Verdicts, status)
            /\ CountOf(Verdicts, status) <= Cardinality(Perhaps(c, status, at))
  BY CountsCompare
<1>3. ~e.truncated => c.directory = c.listed
  BY <1>1, ReplyRows DEF Answered
<1>4. /\ e.counts.exposed = CountOf(Verdicts, "EXPOSED")
      /\ e.counts.resolved_clean = CountOf(Verdicts, "RESOLVED_CLEAN")
      /\ e.counts.not_resolved = CountOf(Verdicts, "NOT_RESOLVED")
      /\ e.counts.repos = Cardinality(c.directory)
  BY <1>1 DEF Summarize
<1>5. Basis(key, e.truncated) = "exact" => ~e.truncated
  BY DEF Basis
<1>6. Basis(key, e.truncated) = "floor" => key \in {"exposed", "repos"}
  BY DEF Basis, FLOOR_COUNTS
<1>7. key # "repos" => /\ AtLeast(key, at) = Cardinality(Surely(c, StatusOf[key], at))
                       /\ AtMost(key, at) = Cardinality(Perhaps(c, StatusOf[key], at))
  BY <1>1 DEF AtLeast, AtMost, Surely, Perhaps
<1>8. key = "repos" => AtLeast(key, at) = Cardinality(c.listed) /\ AtMost(key, at) = Cardinality(c.listed)
  BY <1>1 DEF AtLeast, AtMost
<1>9. Cardinality(c.listed) \in Nat /\ Cardinality(c.directory) \in Nat
  BY <1>1, RepositoriesAreFinite
<1> HIDE DEF e
<1>10. CASE key = "exposed"
  BY <1>2, <1>4, <1>5, <1>7, <1>10 DEF CountOfKey, StatusOf, e
<1>11. CASE key = "resolved_clean"
  BY <1>2, <1>4, <1>5, <1>6, <1>7, <1>11 DEF CountOfKey, StatusOf, e
<1>12. CASE key = "not_resolved"
  BY <1>2, <1>4, <1>5, <1>6, <1>7, <1>12 DEF CountOfKey, StatusOf, e
<1>13. CASE key = "repos"
  BY <1>2, <1>3, <1>4, <1>5, <1>8, <1>9, <1>13 DEF CountOfKey, e
<1> QED
  BY <1>10, <1>11, <1>12, <1>13 DEF CountKeys

\* The counts of a packet: none of a refusal, else one for each key.
LEMMA PacketCounts ==
    ASSUME NEW at, NEW i, NEW c, NEW store, NEW reply,
           Answered(at, i, c, store, reply)
    PROVE  LET counts == answer.packet.answer.counts
               e == answer.exposure
           IN  /\ ~e.answerable => DOMAIN counts = {}
               /\ e.answerable => /\ DOMAIN counts = CountKeys
                                 /\ \A k \in CountKeys :
                                        /\ counts[k].value = CountOfKey(e.counts, k)
                                        /\ counts[k].basis = Basis(k, e.truncated)
<1> DEFINE e == answer.exposure
<1>1. answer.packet.answer.counts = PacketAnswer(e).counts
  BY Packets
<1> HIDE DEF e
<1>2. ~e.answerable => answer.packet.answer.counts = << >>
  BY <1>1 DEF PacketAnswer
<1>3. e.answerable => answer.packet.answer.counts =
            [k \in CountKeys |-> [value |-> CountOfKey(e.counts, k), basis |-> Basis(k, e.truncated)]]
  BY <1>1 DEF PacketAnswer
<1> QED
  BY <1>2, <1>3 DEF e

\* Each count of the packet, by its basis.
LEMMA CountsHold ==
    ASSUME NEW at, NEW i, NEW c, NEW store, NEW reply,
           Answered(at, i, c, store, reply)
    PROVE  CountsAreWhatTheySay
<1> DEFINE counts == answer.packet.answer.counts
           e == answer.exposure
<1>1. answer.exposure.at = at /\ answer.dataset = c
  BY Classified DEF Answered
<1>2. ASSUME NEW k \in DOMAIN counts
      PROVE  /\ counts[k].basis = "exact" => AtLeast(k, at) <= counts[k].value
             /\ counts[k].basis \in {"exact", "floor"} => counts[k].value <= AtMost(k, at)
  <2>1. e.answerable /\ k \in CountKeys
    <3>1. e.answerable \in BOOLEAN
      BY Packets
    <3> QED
      BY <1>2, <3>1, PacketCounts
  <2>2. counts[k].value = CountOfKey(e.counts, k) /\ counts[k].basis = Basis(k, e.truncated)
    BY <2>1, PacketCounts
  <2> QED
    BY <2>1, <2>2, CountsAreTrue
<1>3. c.marked = {} => DOMAIN counts = {}
  <2>1. /\ e.answerable = (e.reason = "none")
        /\ e.reason = ReasonOf([repos |-> Cardinality(c.listed), marks |-> Cardinality(c.marked)])
    BY Packets
  <2>2. c.marked = {} => Cardinality(c.marked) = 0
    BY FS_EmptySet
  <2>3. c.marked = {} => e.reason # "none"
    BY <2>1, <2>2 DEF ReasonOf
  <2> QED
    BY <2>1, <2>3, PacketCounts
<1> QED
  BY <1>1, <1>2, <1>3 DEF CountsAreWhatTheySay

\* A row of the packet, and the caveat that it carries.
LEMMA ReceiptRows ==
    ASSUME NEW at, NEW i, NEW c, NEW store, NEW reply,
           Answered(at, i, c, store, reply),
           NEW r \in DOMAIN answer.packet.receipts
    PROVE  /\ answer.exposure.answerable /\ r \in c.directory
           /\ answer.packet.receipts[r].verdict = Verdicts[r]
           /\ answer.packet.receipts[r].caveat =
                    (answer.exposure.truncated /\ Verdicts[r].status # "EXPOSED")
<1> DEFINE e == answer.exposure
<1>1. answer.packet.receipts = Receipts(e) /\ DOMAIN Verdicts = c.directory /\ e.answerable \in BOOLEAN
  BY Packets
<1>2. Verdicts = e.repos
  BY DEF Verdicts
<1> HIDE DEF e
<1>3. ~e.answerable => DOMAIN answer.packet.receipts = {}
  BY <1>1 DEF Receipts
<1>4. e.answerable => answer.packet.receipts =
            [q \in DOMAIN e.repos |-> [verdict |-> e.repos[q],
                                      caveat |-> e.truncated /\ e.repos[q].status # "EXPOSED"]]
  BY <1>1 DEF Receipts
<1> QED
  BY <1>1, <1>2, <1>3, <1>4 DEF e

\* A receipt without a caveat comes of a read that was not cut, or is a hit.
LEMMA ReceiptsHold ==
    ASSUME NEW at, NEW i, NEW c, NEW store, NEW reply,
           Answered(at, i, c, store, reply)
    PROVE  ReceiptsStandAlone
<1> SUFFICES ASSUME NEW r \in DOMAIN answer.packet.receipts, ~answer.packet.receipts[r].caveat,
                    Covered(r, answer.exposure.at)
             PROVE  answer.packet.receipts[r].verdict.status = TrueStatus(r, answer.exposure.at)
  BY DEF ReceiptsStandAlone
<1>1. answer.exposure.at = at
  BY Classified DEF Answered
<1>2. /\ r \in c.directory /\ answer.packet.receipts[r].verdict = Verdicts[r]
      /\ ~(answer.exposure.truncated /\ Verdicts[r].status # "EXPOSED")
  BY ReceiptRows
<1>3. /\ Verdicts[r].status = "EXPOSED" => TrueStatus(r, at) = "EXPOSED"
      /\ ~reply.cut => Verdicts[r].status = TrueStatus(r, at)
  BY <1>1, <1>2, StatusIsTrue
<1>4. ~answer.exposure.truncated => ~reply.cut
  BY Packets
<1> QED
  BY <1>1, <1>2, <1>3, <1>4

\* The document copies the counts and the rows, and marks what the packet marks.
LEMMA DocumentHolds ==
    ASSUME NEW at, NEW i, NEW c, NEW store, NEW reply,
           Answered(at, i, c, store, reply)
    PROVE  DocumentIsQualified
<1> DEFINE f == answer.packet
           d == answer.document
<1>1. answer.exposure.at = at
  BY Classified DEF Answered
<1>2. d = RenderMarkdown(f) /\ f.answer.caveats = (answer.exposure.answerable /\ answer.exposure.truncated)
  BY Packets
<1> HIDE DEF f, d
<1>3. /\ d.counts = [k \in DOMAIN f.answer.counts |-> Shown(f.answer.counts[k])]
      /\ d.rows = [r \in DOMAIN f.receipts |-> f.receipts[r].verdict]
      /\ d.asRead = (DOMAIN f.receipts # {} /\ f.answer.caveats)
  BY <1>2 DEF RenderMarkdown
<1>4. ASSUME NEW k \in DOMAIN d.counts
      PROVE  /\ d.counts[k].basis = "exact" => AtLeast(k, at) <= d.counts[k].value /\ ~d.counts[k].atLeast
             /\ d.counts[k].basis = "exact" \/ d.counts[k].atLeast => d.counts[k].value <= AtMost(k, at)
  <2>1. k \in DOMAIN f.answer.counts /\ d.counts[k] = Shown(f.answer.counts[k])
    BY <1>3, <1>4
  <2>2. /\ d.counts[k].value = f.answer.counts[k].value
        /\ d.counts[k].basis = f.answer.counts[k].basis
        /\ d.counts[k].atLeast = (f.answer.counts[k].basis = "floor")
    BY <2>1 DEF Shown
  <2>3. CountsAreWhatTheySay /\ Asked
    BY CountsHold DEF Answered, AnswerOf, Asked
  <2>4. /\ f.answer.counts[k].basis = "exact" => AtLeast(k, at) <= f.answer.counts[k].value
        /\ f.answer.counts[k].basis \in {"exact", "floor"} => f.answer.counts[k].value <= AtMost(k, at)
    BY <1>1, <2>1, <2>3 DEF CountsAreWhatTheySay, f
  <2> QED
    BY <2>2, <2>4
<1>5. ASSUME ~d.asRead, NEW r \in DOMAIN d.rows, Covered(r, at)
      PROVE  d.rows[r].status = TrueStatus(r, at)
  <2>1. r \in DOMAIN f.receipts /\ d.rows[r] = f.receipts[r].verdict /\ ~f.answer.caveats
    BY <1>3, <1>5
  <2>2. /\ answer.exposure.answerable /\ r \in c.directory /\ d.rows[r] = Verdicts[r]
    BY <2>1, ReceiptRows DEF f
  <2>3. ~answer.exposure.truncated
    BY <1>2, <2>1, <2>2
  <2>4. ~reply.cut
    BY <2>3, Packets
  <2> QED
    BY <1>5, <2>2, <2>4, StatusIsTrue
<1> QED
  BY <1>1, <1>4, <1>5 DEF DocumentIsQualified, d

\* The notes of an answer, by what they need.
LEMMA Notes ==
    ASSUME NEW at, NEW i, NEW c, NEW store, NEW reply,
           Answered(at, i, c, store, reply)
    PROVE  LET e == answer.exposure
           IN  /\ e.note = "negative" => reply.rows = {} /\ ~e.truncated
               /\ PageNote(e) = "proven negative" => ~e.truncated /\ e.counts.exposed = 0
               /\ "never" \in {e.note, PageNote(e)} => store = {}
<1> DEFINE e == answer.exposure
           rows == [r \in Repos |-> IF r = Ours THEN reply.rows ELSE {}]
           read == UNION {rows[r] : r \in DOMAIN rows}
<1>1. /\ e.truncated \in BOOLEAN /\ e.in_graph = Exists(store, c)
      /\ e.answerable = (e.reason = "none") /\ e.reason \in {"none", "empty_dataset", "no_ingested_history"}
  BY Packets DEF ReasonOf
<1>2. e.note = ExposureNote(e.reason, e.in_graph, read, e.truncated)
  BY DEF Answered, AnswerOf, Exposure
<1>3. read = reply.rows
  BY AnswersAssumption DEF Repos
<1> HIDE DEF e, read
<1>4. CASE e.reason # "none"
  BY <1>1, <1>2, <1>4, Zenon DEF ExposureNote, PageNote, e
<1>5. CASE e.reason = "none"
  <2>1. e.note \in {"never", "truncation", "negative", "none"}
    BY <1>1, <1>2, <1>5 DEF ExposureNote
  <2>2. e.note = "negative" => read = {} /\ ~e.truncated /\ e.in_graph
    BY <1>1, <1>2, <1>5 DEF ExposureNote
  <2>3. e.note = "never" => ~e.in_graph
    BY <1>1, <1>2, <1>5 DEF ExposureNote
  <2>4. PageNote(e) = "proven negative" => ~e.truncated /\ e.counts.exposed = 0
    BY <1>1, <1>5, <2>1 DEF PageNote
  <2>5. PageNote(e) = "never" => ~e.in_graph
    BY <1>1, <1>5, <2>1 DEF PageNote
  <2> QED
    BY <1>1, <1>3, <2>2, <2>3, <2>4, <2>5 DEF Exists, e
<1> QED
  BY <1>4, <1>5

\* A negative is stated of a read that was complete and returned nothing.
LEMMA NegativesHold ==
    ASSUME NEW at, NEW i, NEW c, NEW store, NEW reply,
           Answered(at, i, c, store, reply)
    PROVE  NegativesAreProven
<1> DEFINE e == answer.exposure
           listed == answer.dataset.listed
<1>1. /\ e.at = at /\ at \in Times /\ answer.dataset = c /\ Malicious = i.malicious
      /\ listed \subseteq Repos /\ listed = c.listed
      /\ e.truncated = (reply.cut \/ c.directory # c.listed)
      /\ e.counts = Summarize(Verdicts) /\ DOMAIN Verdicts = c.directory
  <2>1. answer = AnswerOf(at, i, c, store, reply) /\ c \in Circumstances /\ at \in Times
    BY DEF Answered
  <2>2. e.at = at /\ answer.dataset = c /\ Malicious = i.malicious
    BY <2>1, Classified
  <2>3. /\ e.truncated = (reply.cut \/ c.directory # c.listed) /\ c.listed \subseteq Repos
        /\ e.counts = Summarize(Verdicts) /\ DOMAIN Verdicts = c.directory
    BY Packets
  <2> QED
    BY <2>1, <2>2, <2>3
<1>2. ASSUME NEW r \in listed, NEW t \in Times, Covered(r, t), LiveRows(store, t) = {}
      PROVE  Resolved(r, t) = {}
  <2>1. r \in Repos /\ t <= c.upto[r] /\ c \in Circumstances
    BY <1>1, <1>2 DEF Covered, Answered
  <2>2. CASE r = Ours
    <3>1. c.upto[Ours] \in Nat
      BY <2>1, <2>2, UptoTypes
    <3> QED
      BY <1>2, <2>1, <2>2, <3>1, StoreHasHistory DEF Resolved, Answered
  <2>3. CASE r # Ours
    BY <1>1, <2>1, <2>3, AnswersAssumption DEF Resolved, Repos
  <2> QED
    BY <2>2, <2>3
<1>3. ASSUME e.note = "negative", NEW r \in listed, Covered(r, at) PROVE Resolved(r, at) = {}
  <2>1. reply.rows = {} /\ ~reply.cut
    BY <1>1, <1>3, Notes, ReplyRows DEF Answered
  <2>2. LiveRows(store, at) = {}
    BY <2>1, ReplyRows DEF Answered
  <2> QED
    BY <1>1, <1>2, <1>3, <2>2
<1>4. ASSUME PageNote(e) = "proven negative", NEW r \in listed, Covered(r, at)
      PROVE  Resolved(r, at) \intersect Malicious = {}
  <2> DEFINE found == {q \in c.directory : Verdicts[q].status = "EXPOSED"}
  <2>1. ~e.truncated /\ e.counts.exposed = 0
    BY <1>4, Notes
  <2>2. Cardinality(found) = 0
    BY <1>1, <2>1 DEF Summarize, CountOf
  <2>3. found \subseteq Repos /\ c.directory = listed /\ ~reply.cut
    BY <1>1, <2>1, ReplyRows DEF Answered
  <2>4. found = {}
    BY <2>2, <2>3, RepositoriesAreFinite, FS_EmptySet
  <2>5. Verdicts[r].status = TrueStatus(r, at)
    BY <1>4, <2>3, StatusIsTrue
  <2> QED
    BY <2>3, <2>4, <2>5 DEF TrueStatus
<1>5. ASSUME "never" \in {e.note, PageNote(e)}, NEW t \in Times, NEW r \in listed, Covered(r, t)
      PROVE  Resolved(r, t) = {}
  <2>1. LiveRows(store, t) = {}
    BY <1>5, Notes DEF LiveRows
  <2> QED
    BY <1>2, <1>5, <2>1
<1> QED
  BY <1>1, <1>3, <1>4, <1>5 DEF NegativesAreProven

\* The provenance and the coverage of a packet copy the counts of a probe that
\* answered and the size of the dataset.
LEMMA ZerosHold ==
    ASSUME NEW at, NEW i, NEW c, NEW store, NEW reply,
           Answered(at, i, c, store, reply)
    PROVE  ZerosAreMeasured
<1> DEFINE e == answer.exposure
           rows == [r \in Repos |-> IF r = Ours THEN reply.rows ELSE {}]
           coverage == [repos |-> Cardinality(c.listed), marks |-> Cardinality(c.marked)]
<1> USE DEF Answered
<1>1. answer.dataset = c /\ answer.packet = Packet(e, Health(c))
  BY Classified DEF AnswerOf
<1>2. e = Exposure(rows, Exists(store, c), c.directory, i.malicious, i.window, at,
                   reply.cut, c.directory # c.listed, coverage)
  BY DEF AnswerOf
<1> HIDE DEF e, rows
<1>3. e.coverage = coverage
  BY <1>2 DEF Exposure
<1>4. answer.packet.coverage = coverage /\ answer.packet.provenance = Provenance(Health(c))
  BY <1>1, <1>3 DEF Packet
<1>5. Provenance(Health(c)).measured =>
            /\ Provenance(Health(c)).repos = Cardinality(c.listed)
            /\ Provenance(Health(c)).marks = Cardinality(c.marked)
  <2> DEFINE h == Health(c)
  <2>1. c.reachable \in BOOLEAN
    BY AnswersAssumption
  <2>2. /\ h.reachable = c.reachable
        /\ c.reachable => h.repos = Cardinality(c.listed) /\ h.marks = Cardinality(c.marked)
    BY <2>1 DEF Health
  <2> HIDE DEF h
  <2>3. CASE h.asked /\ h.reachable
    <3>1. Provenance(h) = [measured |-> TRUE, repos |-> h.repos, marks |-> h.marks, note |-> "none"]
      BY <2>3 DEF Provenance
    <3> QED
      BY <2>2, <2>3, <3>1 DEF h
  <2>4. CASE ~(h.asked /\ h.reachable)
    <3>1. Provenance(h) \in {NotMeasured, [NotMeasured EXCEPT !.note = "probe failed"]}
      BY <2>4 DEF Provenance
    <3>2. NotMeasured.measured = FALSE
      BY DEF NotMeasured
    <3>3. [NotMeasured EXCEPT !.note = "probe failed"].measured = FALSE
      BY DEF NotMeasured
    <3> QED
      BY <3>1, <3>2, <3>3 DEF h
  <2> QED
    BY <2>3, <2>4
<1> QED
  BY <1>1, <1>4, <1>5 DEF ZerosAreMeasured

-----------------------------------------------------------------------------
(* The theorems.                                                           *)

\* What the invariants say of an answer.
LEMMA AnsweredBy ==
    ASSUME LoopInv, AnswerInv, Asked
    PROVE  \E at, i, c, store, reply : Answered(at, i, c, store, reply)
BY DEF AnswerInv, Answered

\* What the sentence under a row says is true of every git history as far as it
\* was ingested, from a whole read or a cut one and beside what a run that died
\* has left: "lockfile pinned X across the entire exposure window and none of
\* those versions is a malicious one" at every second of the window, the age of
\* a held pin, and the versions of a repository called EXPOSED.
THEOREM AnswersRows == AnswersSpec => []RowsAreTrue
<1>1. ASSUME LoopInv, AnswerInv, Asked PROVE RowsAreTrue
  <2>1. PICK at, i, c, store, reply : Answered(at, i, c, store, reply)
    BY <1>1, AnsweredBy
  <2> QED
    BY <2>1, HeldHolds, LeadHolds, ExposedHolds DEF RowsAreTrue
<1>2. ~Asked => RowsAreTrue
  BY DEF RowsAreTrue, HeldClaimIsTrue, LeadTimeIsNeverOverstated, ExposedIsReal
<1> QED
  BY AnswerInitial, AnswerStep, <1>1, <1>2, PTL DEF AnswersSpec

\* The packet and the document, for every answer that the service can give, over
\* histories ingested in full, in part or not at all: a count called exact is the
\* count of the git histories but for the repositories that are not covered, a
\* floor is not above it, a refusal has none; a row without a caveat, and a
\* document without its note, have the status that git gives what is covered;
\* and a stated zero was measured.
THEOREM AnswersPacket == AnswersSpec => []PacketIsQualified
<1>1. ASSUME LoopInv, AnswerInv, Asked PROVE PacketIsQualified
  <2>1. PICK at, i, c, store, reply : Answered(at, i, c, store, reply)
    BY <1>1, AnsweredBy
  <2> QED
    BY <2>1, CountsHold, ReceiptsHold, DocumentHolds, ZerosHold DEF PacketIsQualified
<1>2. ~Asked => PacketIsQualified
  BY DEF PacketIsQualified, CountsAreWhatTheySay, ReceiptsStandAlone, DocumentIsQualified, ZerosAreMeasured
<1> QED
  BY AnswerInitial, AnswerStep, <1>1, <1>2, PTL DEF AnswersSpec

\* The headline of a packet is the answer line of the page, for every answer that
\* the service can give: the two separately written decisions agree.
THEOREM AnswersHeadline == AnswersSpec => []HeadlineIsThePages
<1>1. LoopInv /\ AnswerInv => HeadlineIsThePages
  BY AnsweredBy, HeadlineHolds DEF HeadlineIsThePages
<1> QED
  BY AnswerInitial, AnswerStep, <1>1, PTL DEF AnswersSpec

\* A negative that the service or the page calls proven, and the absence of a
\* package that "never" resolved, hold of every git history as far as it was
\* ingested.  Of a listed repository without its history they say more than was
\* looked at: one watermark of any repository is enough for them.
THEOREM AnswersNegatives == AnswersSpec => []NegativesAreProven
<1>1. LoopInv /\ AnswerInv => NegativesAreProven
  BY AnsweredBy, NegativesHold DEF NegativesAreProven
<1> QED
  BY AnswerInitial, AnswerStep, <1>1, PTL DEF AnswersSpec

\* "The pin did change at some point inside the exposure window", said of an
\* instant of the window by a whole read or a cut one, of a history ingested in
\* full or in part: in every such git history some commit inside the window
\* resolved something else than the one before it.
THEOREM AnswersChanged == AnswersSpec => []ChangedInsideTheWindow
<1>1. LoopInv /\ AnswerInv => ChangedInsideTheWindow
  BY AnsweredBy, ChangedHolds DEF ChangedInsideTheWindow
<1> QED
  BY AnswerInitial, AnswerStep, <1>1, PTL DEF AnswersSpec

\* The inputs of demo-seed.py that are read back from a graph, for every history
\* that the graph was built from: their instants are those of the commits that
\* changed what was resolved, they begin where the walk began, and the watermark
\* that they give is not above the walk's and covers every fact.
THEOREM Reprojected == AnswersSpec => []ReprojectionKeepsTheWalk
<1>1. LoopInv => ReprojectionKeepsTheWalk
  BY ReprojectionHolds
<1> QED
  BY AnswerInitial, AnswerStep, <1>1, PTL DEF AnswersSpec
=============================================================================
