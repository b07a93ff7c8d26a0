----------------------------- MODULE IngestProofs -----------------------------
(***************************************************************************)
(* The writer's promises for every set of repositories, keys and writers,  *)
(* every batch size and every number of crashes: the inductive invariant   *)
(* of IngestInvariant, and what follows from it.                           *)
(***************************************************************************)
EXTENDS IngestInvariant, ValidTimeProofs

-----------------------------------------------------------------------------
(* Walks.                                                                  *)

\* A fact of a walk opened no later than the walk's end.
LEMMA FactWithinWalk ==
    ASSUME NEW V, NEW s, NEW k, NEW f, IsFact(UpTo(V, s), k, f)
    PROVE  f <= s
BY DEF IsFact, Openers, UpTo

\* Walking further keeps the facts of the shorter walk, and what is right as
\* of some second of the shorter walk is right as of a second of the longer.
LEMMA LongerWalk ==
    ASSUME NEW V, V \subseteq Commits, NEW s \in 0 .. MaxTs, NEW u \in 0 .. MaxTs, s <= u,
           NEW k, NEW f \in Times
    PROVE  /\ f <= s => (IsFact(UpTo(V, s), k, f) <=> IsFact(UpTo(V, u), k, f))
           /\ IsFact(UpTo(V, s), k, f) =>
                /\ RightAt(UpTo(V, u), s, ValidTo(UpTo(V, s), k, f), k, f)
                /\ \A vt : \A h \in 0 .. MaxTs :
                    RightAt(UpTo(V, s), h, vt, k, f) =>
                        RightAt(UpTo(V, u), IF h <= s THEN h ELSE s, vt, k, f)
<1> DEFINE S == UpTo(V, s)
           U == UpTo(V, u)
<1> USE ValidTimeAssumption
<1>1. U \subseteq Commits /\ UpTo(U, s) = S /\ s \in Nat
  <2>1. \A c \in V : c.ts <= s => c.ts <= u
    BY CommitTypes
  <2> QED
    BY <2>1 DEF UpTo
<1>2. ASSUME f <= s
      PROVE  /\ Openers(S, k, f) = Openers(U, k, f)
             /\ Openers(U, k, f) # {} =>
                  ValidTo(S, k, f) = IF ValidTo(U, k, f) <= s THEN ValidTo(U, k, f) ELSE SENTINEL
  BY <1>1, <1>2, ShorterWalk
<1>3. f <= s => (IsFact(S, k, f) <=> IsFact(U, k, f))
  BY <1>2 DEF IsFact
<1>4. ASSUME IsFact(S, k, f)
      PROVE  /\ RightAt(U, s, ValidTo(S, k, f), k, f)
             /\ \A vt : \A h \in 0 .. MaxTs :
                    RightAt(S, h, vt, k, f) => RightAt(U, IF h <= s THEN h ELSE s, vt, k, f)
  <2>1. f <= s
    BY <1>4, FactWithinWalk
  <2>2. Openers(U, k, f) # {}
    BY <1>3, <1>4, <2>1 DEF IsFact
  <2>3. ValidTo(S, k, f) = IF ValidTo(U, k, f) <= s THEN ValidTo(U, k, f) ELSE SENTINEL
    BY <1>2, <2>1, <2>2
  <2>4. ValidTo(U, k, f) \in 1 .. SENTINEL
    BY <1>1, <2>2, ValidToAfter
  <2>5. RightAt(U, s, ValidTo(S, k, f), k, f)
    BY <2>3 DEF RightAt
  <2>6. ASSUME NEW vt, NEW h \in 0 .. MaxTs, RightAt(S, h, vt, k, f)
        PROVE  RightAt(U, IF h <= s THEN h ELSE s, vt, k, f)
    BY <2>3, <2>4, <2>6 DEF RightAt, SENTINEL
  <2> QED
    BY <2>5, <2>6
<1> QED
  BY <1>3, <1>4

\* The newest second of a set of snapshots.
LEMMA LastTsIsLast ==
    ASSUME NEW S, S \subseteq Commits
    PROVE  /\ LastTs(S) \in 0 .. MaxTs
           /\ \A c \in S : c.ts <= LastTs(S)
           /\ LastTs(S) = 0 \/ \E c \in S : c.ts = LastTs(S)
<1> USE ValidTimeAssumption
<1>1. CASE S = {}
  BY <1>1 DEF LastTs
<1>2. CASE S # {}
  <2>1. PICK c \in S : \A d \in S : ~Before(c, d)
    BY <1>2, LastCommit
  <2>2. \A d \in S : d.ts <= c.ts
    BY <2>1, CommitTypes DEF Before
  <2>3. \E t \in {d.ts : d \in S} : \A d \in S : d.ts <= t
    BY <2>2
  <2>4. LastTs(S) \in {d.ts : d \in S} /\ \A d \in S : d.ts <= LastTs(S)
    BY <1>2, <2>3 DEF LastTs
  <2> QED
    BY <2>4, CommitTypes
<1> QED
  BY <1>1, <1>2

-----------------------------------------------------------------------------
(* Sending.                                                                *)

\* A sent batch leaves every other row to be sent where it was.
LEMMA SentRows ==
    ASSUME PendingShape, NEW w \in Writers, NEW i \in Steps, NEW part, NEW acked \in BOOLEAN,
           part \in Parts(pending[w][i]), Sent(w, i, part, acked)
    PROVE  /\ PendingShape'
           /\ part \subseteq pending[w][i]
           /\ \A v \in Writers : v # w => pending'[v] = pending[v]
           /\ \A j \in Steps : j # i => pending'[w][j] = pending[w][j]
           /\ pending'[w][i] \subseteq pending[w][i]
           /\ pending[w][i] \ part \subseteq pending'[w][i]
<1>1. part \subseteq pending[w][i]
  BY DEF Parts
<1>2. CASE pending' = pending
  BY <1>1, <1>2 DEF PendingShape
<1>3. CASE pending' = [pending EXCEPT ![w][i] = @ \ part]
  <2>1. \A v \in Writers : v # w => pending'[v] = pending[v]
    BY <1>3 DEF PendingShape
  <2>2. pending'[w] = [pending[w] EXCEPT ![i] = @ \ part]
    BY <1>3 DEF PendingShape
  <2>3. pending' = [v \in Writers |-> pending'[v]]
    BY <1>3 DEF PendingShape
  <2>4. pending'[w] = [j \in Steps |-> pending'[w][j]]
    BY <2>2 DEF PendingShape
  <2>5. \A j \in Steps : pending'[w][j] = IF j = i THEN pending[w][i] \ part ELSE pending[w][j]
    BY <2>2 DEF PendingShape
  <2>6. PendingShape'
    BY <2>1, <2>3, <2>4 DEF PendingShape
  <2> QED
    BY <1>1, <2>1, <2>5, <2>6
<1> QED
  BY <1>2, <1>3 DEF Sent

\* A writer that sends is the only one at work, before and after.
LEMMA OnlyWriter ==
    ASSUME PendingShape, OneRunAtATime, NEW w \in Writers, NEW i \in Steps, AtStep(w, i),
           \A v \in Writers : v # w => pending'[v] = pending[v]
    PROVE  /\ \A v \in Writers : v # w => pending[v] = NoWork /\ pending'[v] = NoWork
           /\ OneRunAtATime'
<1>1. ~Idle(w)
  BY DEF AtStep, Idle, NoWork
<1>2. \A v \in Writers : v # w => pending[v] = NoWork
  BY <1>1 DEF OneRunAtATime, Idle
<1> QED
  BY <1>2 DEF OneRunAtATime, Idle

-----------------------------------------------------------------------------
(* Steps that leave the store and its writers' rows alone.                 *)

\* If nothing that has been walked changes and no row moves, only the types
\* and the histories are left to show.
LEMMA QuietStep ==
    ASSUME IInv, TypeOK', HistoriesOK',
           \A r \in Repos : Walked(r)' = Walked(r),
           UNCHANGED <<seen, nodes, validTo, mark>>,
           PendingShape', OneRunAtATime',
           \A w \in Writers : pending'[w] = pending[w] \/ pending'[w] = NoWork
    PROVE  IInv'
<1>1. MarkBehindWalk'
  BY DEF IInv, MarkBehindWalk
<1>2. EdgesSound'
  BY DEF IInv, EdgesSound
<1>3. EdgesComplete'
  BY DEF IInv, EdgesComplete
<1>4. \A w \in Writers : pending'[w] = pending[w] \/
        (pending'[w][ResolvesStep] = {} /\ pending'[w][WatermarkStep] = {})
  BY DEF NoWork, Steps, ResolvesStep, WatermarkStep
<1>5. WatermarkRowsOK'
  BY <1>4 DEF IInv, WatermarkRowsOK
<1>6. ResolvesRowsOK'
  <2> SUFFICES ASSUME NEW w \in Writers, NEW row \in pending'[w][ResolvesStep]
               PROVE  /\ row.repo \in Repos /\ row.key \in Keys /\ row.vf \in Times
                      /\ IsFact(Walked(row.repo)', row.key, row.vf)
                      /\ row.vt > mark'[row.repo]
                      /\ \E m \in pending'[w][WatermarkStep] :
                            /\ m.repo = row.repo
                            /\ RightAt(Walked(m.repo)', m.last, row.vt, row.key, row.vf)
                      /\ RepoNode(row.repo) \in nodes' \union pending'[w][1]
                      /\ VersionNode(row.key) \in nodes' \union pending'[w][3]
    BY DEF ResolvesRowsOK
  <2>1. pending'[w] = pending[w]
    BY <1>4
  <2> QED
    BY <2>1 DEF IInv, ResolvesRowsOK
<1>7. NothingForgotten'
  <2> SUFFICES ASSUME NEW w \in Writers, NEW m \in pending'[w][WatermarkStep],
                      NEW k \in Keys, NEW f \in Times,
                      f <= m.last, IsFact(Walked(m.repo)', k, f)
               PROVE  \/ \E row \in pending'[w][ResolvesStep] :
                            row.repo = m.repo /\ row.key = k /\ row.vf = f
                      \/ /\ validTo'[<<m.repo, k, f>>] # Absent
                         /\ \E h \in 0 .. MaxTs :
                              /\ h >= m.last
                              /\ RightAt(Walked(m.repo)', h, validTo'[<<m.repo, k, f>>], k, f)
    BY DEF NothingForgotten
  <2>1. pending'[w] = pending[w] /\ m.repo \in Repos
    BY <1>4 DEF IInv, WatermarkRowsOK
  <2> QED
    BY <2>1 DEF IInv, NothingForgotten
<1> QED
  BY <1>1, <1>2, <1>3, <1>5, <1>6, <1>7 DEF IInv

LEMMA CommitStep ==
    ASSUME IInv, NEW q \in Repos, Commit(q)
    PROVE  IInv'
<1>1. PICK c \in Commits : /\ c.ts > seen[q]
                           /\ c.entries # {}
                           /\ IsHistory(git[q] \union {c})
                           /\ git' = [git EXCEPT ![q] = @ \union {c}]
  BY DEF Commit
<1>2. UNCHANGED <<seen, nodes, links, validTo, txFrom, mark, pending, tx, clock, crashes>>
  BY DEF Commit, store
<1>3. /\ git \in [Repos -> SUBSET Commits] /\ seen \in [Repos -> 0 .. MaxTs]
      /\ \A r \in Repos : git'[r] = IF r = q THEN git[r] \union {c} ELSE git[r]
  BY <1>1 DEF IInv, TypeOK
<1>4. TypeOK'
  <2>1. git' \in [Repos -> SUBSET Commits]
    BY <1>1, <1>3
  <2> QED
    BY <1>2, <2>1 DEF IInv, TypeOK
<1>5. HistoriesOK'
  BY <1>1, <1>3 DEF IInv, HistoriesOK
<1>6. \A r \in Repos : Walked(r)' = Walked(r)
  <2>1. UpTo(git[q] \union {c}, seen[q]) = UpTo(git[q], seen[q])
    <3>1. ~(c.ts <= seen[q])
      BY <1>1, <1>3, CommitTypes
    <3> QED
      BY <3>1 DEF UpTo
  <2> QED
    BY <1>2, <1>3, <2>1 DEF Walked
<1>7. PendingShape' /\ OneRunAtATime'
  BY <1>2 DEF IInv, PendingShape, OneRunAtATime, Idle, NoWork
<1> QED
  BY <1>2, <1>4, <1>5, <1>6, <1>7, QuietStep

LEMMA TickStep ==
    ASSUME IInv, Tick
    PROVE  IInv'
<1>1. /\ clock' = clock + 1 /\ clock < MaxClock
      /\ UNCHANGED <<git, seen, nodes, links, validTo, txFrom, mark, pending, tx, crashes>>
  BY DEF Tick, store
<1>2. TypeOK'
  BY <1>1, IngestAssumption DEF IInv, TypeOK
<1>3. HistoriesOK' /\ PendingShape' /\ OneRunAtATime'
  BY <1>1 DEF IInv, HistoriesOK, PendingShape, OneRunAtATime, Idle, NoWork
<1>4. \A r \in Repos : Walked(r)' = Walked(r)
  BY <1>1 DEF Walked
<1> QED
  BY <1>1, <1>2, <1>3, <1>4, QuietStep

LEMMA CrashStep ==
    ASSUME IInv, NEW w \in Writers, Crash(w)
    PROVE  IInv'
<1>1. /\ crashes' = crashes + 1 /\ crashes < MaxCrashes
      /\ pending' = [pending EXCEPT ![w] = NoWork]
      /\ UNCHANGED <<git, seen, nodes, links, validTo, txFrom, mark, tx, clock>>
  BY DEF Crash, store
<1>2. TypeOK'
  BY <1>1, IngestAssumption DEF IInv, TypeOK
<1>3. HistoriesOK'
  BY <1>1 DEF IInv, HistoriesOK
<1>4. /\ pending' = [v \in Writers |-> pending'[v]]
      /\ \A v \in Writers : pending'[v] = IF v = w THEN NoWork ELSE pending[v]
  BY <1>1 DEF IInv, PendingShape
<1>5. PendingShape'
  <2>1. NoWork = [i \in Steps |-> NoWork[i]]
    BY DEF NoWork
  <2> QED
    BY <1>4, <2>1 DEF IInv, PendingShape
<1>6. OneRunAtATime'
  BY <1>4 DEF IInv, OneRunAtATime, Idle, NoWork
<1>7. \A r \in Repos : Walked(r)' = Walked(r)
  BY <1>1 DEF Walked
<1> QED
  BY <1>1, <1>2, <1>3, <1>4, <1>5, <1>6, <1>7, QuietStep

-----------------------------------------------------------------------------
(* Upserts.                                                                *)

\* Sending nodes or edges without valid time: the later rows stay as they are
\* and no node row is lost between the row set and the store.
LEMMA UpsertEndpointsStep ==
    ASSUME IInv, NEW w \in Writers, NEW i \in 1 .. 6, AtStep(w, i),
           NEW part, NEW acked \in BOOLEAN,
           part \in Parts(pending[w][i]), Sent(w, i, part, acked),
           nodes \subseteq nodes', i \in NodeSteps => part \subseteq nodes',
           UNCHANGED <<git, seen, validTo, txFrom, mark, tx, clock, crashes>>
    PROVE  IInv'
<1>1. /\ PendingShape'
      /\ \A v \in Writers : v # w => pending'[v] = pending[v]
      /\ \A j \in Steps : j # i => pending'[w][j] = pending[w][j]
      /\ pending[w][i] \ part \subseteq pending'[w][i]
  <2>1. i \in Steps
    BY DEF Steps
  <2> QED
    BY <2>1, SentRows DEF IInv
<1>2. OneRunAtATime' /\ \A v \in Writers : v # w => pending'[v] = NoWork
  <2>1. i \in Steps
    BY DEF Steps
  <2> QED
    BY <1>1, <2>1, OnlyWriter DEF IInv
<1>3. /\ pending'[w][ResolvesStep] = pending[w][ResolvesStep]
      /\ pending'[w][WatermarkStep] = pending[w][WatermarkStep]
  BY <1>1 DEF Steps, ResolvesStep, WatermarkStep
<1>4. \A v \in Writers : v # w =>
        pending'[v][ResolvesStep] = {} /\ pending'[v][WatermarkStep] = {}
  BY <1>2 DEF NoWork, Steps, ResolvesStep, WatermarkStep
<1>5. /\ nodes \union pending[w][1] \subseteq nodes' \union pending'[w][1]
      /\ nodes \union pending[w][3] \subseteq nodes' \union pending'[w][3]
  BY <1>1 DEF Steps, NodeSteps
<1>6. \A r \in Repos : Walked(r)' = Walked(r)
  BY DEF Walked
<1>7. TypeOK' /\ HistoriesOK' /\ MarkBehindWalk' /\ EdgesSound' /\ EdgesComplete'
  BY <1>6 DEF IInv, TypeOK, HistoriesOK, MarkBehindWalk, EdgesSound, EdgesComplete
<1>8. WatermarkRowsOK'
  BY <1>3, <1>4 DEF IInv, WatermarkRowsOK
<1>9. ResolvesRowsOK'
  <2> SUFFICES ASSUME NEW row \in pending[w][ResolvesStep]
               PROVE  /\ row.repo \in Repos /\ row.key \in Keys /\ row.vf \in Times
                      /\ IsFact(Walked(row.repo)', row.key, row.vf)
                      /\ row.vt > mark[row.repo]
                      /\ \E m \in pending[w][WatermarkStep] :
                            /\ m.repo = row.repo
                            /\ RightAt(Walked(m.repo)', m.last, row.vt, row.key, row.vf)
                      /\ RepoNode(row.repo) \in nodes' \union pending'[w][1]
                      /\ VersionNode(row.key) \in nodes' \union pending'[w][3]
    BY <1>3, <1>4 DEF ResolvesRowsOK
  <2> QED
    BY <1>5, <1>6 DEF IInv, ResolvesRowsOK
<1>10. NothingForgotten'
  <2> SUFFICES ASSUME NEW m \in pending[w][WatermarkStep], NEW k \in Keys, NEW f \in Times,
                      f <= m.last, IsFact(Walked(m.repo)', k, f)
               PROVE  \/ \E row \in pending[w][ResolvesStep] :
                            row.repo = m.repo /\ row.key = k /\ row.vf = f
                      \/ /\ validTo[<<m.repo, k, f>>] # Absent
                         /\ \E h \in 0 .. MaxTs :
                              /\ h >= m.last
                              /\ RightAt(Walked(m.repo)', h, validTo[<<m.repo, k, f>>], k, f)
    BY <1>3, <1>4 DEF NothingForgotten
  <2>1. m.repo \in Repos
    BY DEF IInv, WatermarkRowsOK
  <2> QED
    BY <1>6, <2>1 DEF IInv, NothingForgotten
<1> QED
  BY <1>1, <1>2, <1>7, <1>8, <1>9, <1>10 DEF IInv

LEMMA UpsertNodesStep ==
    ASSUME IInv, NEW w \in Writers, NEW acked \in BOOLEAN, UpsertNodes(w, acked)
    PROVE  IInv'
<1>1. PICK i \in NodeSteps :
        /\ AtStep(w, i)
        /\ \E part \in Parts(pending[w][i]) :
            nodes' = nodes \union part /\ Sent(w, i, part, acked)
        /\ UNCHANGED <<git, seen, validTo, txFrom, mark, tx, clock, crashes>>
  BY DEF UpsertNodes
<1>2. PICK part \in Parts(pending[w][i]) :
        nodes' = nodes \union part /\ Sent(w, i, part, acked)
  BY <1>1
<1>3. i \in 1 .. 6 /\ nodes \subseteq nodes' /\ part \subseteq nodes'
  BY <1>2 DEF NodeSteps
<1> QED
  BY <1>1, <1>2, <1>3, UpsertEndpointsStep

LEMMA UpsertLinksStep ==
    ASSUME IInv, NEW w \in Writers, NEW acked \in BOOLEAN, UpsertLinks(w, acked)
    PROVE  IInv'
<1>1. PICK i \in LinkSteps :
        /\ AtStep(w, i)
        /\ \E part \in Parts(pending[w][i]) : Sent(w, i, part, acked)
        /\ UNCHANGED <<git, seen, nodes, validTo, txFrom, mark, tx, clock, crashes>>
  BY DEF UpsertLinks
<1>2. PICK part \in Parts(pending[w][i]) : Sent(w, i, part, acked)
  BY <1>1
<1>3. i \in 1 .. 6 /\ i \notin NodeSteps
  BY <1>1 DEF LinkSteps, NodeSteps
<1> QED
  BY <1>1, <1>2, <1>3, UpsertEndpointsStep

\* What a fact's valid_to can be.
LEMMA FactEnds ==
    ASSUME IInv, NEW r \in Repos, NEW k, NEW f \in Times, IsFact(Walked(r), k, f)
    PROVE  /\ ValidTo(Walked(r), k, f) \in 1 .. SENTINEL
           /\ ValidTo(Walked(r), k, f) >= f
           /\ \A vt : \A h \in 0 .. MaxTs :
                RightAt(Walked(r), h, vt, k, f) => vt \in 1 .. SENTINEL
<1>1. Walked(r) \subseteq Commits
  BY DEF IInv, TypeOK, Walked, UpTo
<1>2. /\ ValidTo(Walked(r), k, f) \in 1 .. SENTINEL
      /\ ValidTo(Walked(r), k, f) >= f
  BY <1>1, ValidToAfter DEF IsFact
<1>3. SENTINEL \in 1 .. SENTINEL
  BY ValidTimeAssumption DEF SENTINEL
<1> QED
  BY <1>2, <1>3 DEF RightAt

\* A batch of RESOLVES rows sets each edge to what the run's walk says of it.
LEMMA UpsertResolvesStep ==
    ASSUME IInv, NEW w \in Writers, NEW acked \in BOOLEAN, UpsertResolves(w, acked)
    PROVE  IInv'
<1>1. /\ AtStep(w, ResolvesStep)
      /\ UNCHANGED <<git, seen, nodes, links, mark, tx, clock, crashes>>
  BY DEF UpsertResolves
<1>2. PICK part \in Parts(pending[w][ResolvesStep]) :
        /\ validTo' = [e \in Edges |->
                        IF RowsFor(part, e) # {}
                        THEN (CHOOSE row \in RowsFor(part, e) : TRUE).vt
                        ELSE validTo[e]]
        /\ txFrom' = [e \in Edges |->
                        IF RowsFor(part, e) # {} THEN tx[w] ELSE txFrom[e]]
        /\ Sent(w, ResolvesStep, part, acked)
  BY DEF UpsertResolves
<1>3. /\ PendingShape'
      /\ part \subseteq pending[w][ResolvesStep]
      /\ \A v \in Writers : v # w => pending'[v] = pending[v]
      /\ \A j \in Steps : j # ResolvesStep => pending'[w][j] = pending[w][j]
      /\ pending'[w][ResolvesStep] \subseteq pending[w][ResolvesStep]
      /\ pending[w][ResolvesStep] \ part \subseteq pending'[w][ResolvesStep]
  <2>1. ResolvesStep \in Steps
    BY DEF Steps, ResolvesStep
  <2> QED
    BY <1>2, <2>1, SentRows DEF IInv
<1>4. OneRunAtATime' /\ \A v \in Writers : v # w => pending'[v] = NoWork
  <2>1. ResolvesStep \in Steps
    BY DEF Steps, ResolvesStep
  <2> QED
    BY <1>1, <1>3, <2>1, OnlyWriter DEF IInv
<1>5. /\ pending'[w][WatermarkStep] = pending[w][WatermarkStep]
      /\ pending'[w][1] = {} /\ pending'[w][3] = {}
      /\ pending[w][1] = {} /\ pending[w][3] = {}
  BY <1>1, <1>3 DEF AtStep, Steps, ResolvesStep, WatermarkStep
<1>6. \A v \in Writers : v # w =>
        pending'[v][ResolvesStep] = {} /\ pending'[v][WatermarkStep] = {}
  BY <1>4 DEF NoWork, Steps, ResolvesStep, WatermarkStep
<1>7. \A r \in Repos : Walked(r)' = Walked(r)
  BY <1>1 DEF Walked
<1> DEFINE Written(r, k, f) ==
        /\ IsFact(Walked(r), k, f)
        /\ validTo'[<<r, k, f>>] \in 1 .. SENTINEL
        /\ \E m \in pending[w][WatermarkStep] :
            /\ m.repo = r /\ m.last \in 0 .. MaxTs /\ mark[r] <= m.last
            /\ RightAt(Walked(r), m.last, validTo'[<<r, k, f>>], k, f)
<1>8. ASSUME NEW r \in Repos, NEW k \in Keys, NEW f \in Times,
             RowsFor(part, <<r, k, f>>) # {}
      PROVE  Written(r, k, f)
  <2> DEFINE row == CHOOSE x \in RowsFor(part, <<r, k, f>>) : TRUE
  <2>1. row \in RowsFor(part, <<r, k, f>>)
    BY <1>8
  <2>2. row \in pending[w][ResolvesStep] /\ row.repo = r /\ row.key = k /\ row.vf = f
    BY <1>3, <2>1 DEF RowsFor
  <2>3. validTo'[<<r, k, f>>] = row.vt
    BY <1>2, <1>8 DEF Edges
  <2> HIDE DEF row
  <2>4. /\ IsFact(Walked(r), k, f)
        /\ \E m \in pending[w][WatermarkStep] :
            m.repo = r /\ RightAt(Walked(r), m.last, row.vt, k, f)
    BY <2>2 DEF IInv, ResolvesRowsOK
  <2>5. PICK m \in pending[w][WatermarkStep] :
            m.repo = r /\ RightAt(Walked(r), m.last, row.vt, k, f)
    BY <2>4
  <2>6. m.last \in 0 .. MaxTs /\ mark[r] <= m.last
    BY <2>5 DEF IInv, WatermarkRowsOK
  <2>7. row.vt \in 1 .. SENTINEL
    BY <2>4, <2>5, <2>6, FactEnds
  <2> QED
    BY <2>3, <2>4, <2>5, <2>6, <2>7
<1>9. ASSUME NEW r \in Repos, NEW k \in Keys, NEW f \in Times,
             RowsFor(part, <<r, k, f>>) = {}
      PROVE  validTo'[<<r, k, f>>] = validTo[<<r, k, f>>]
  BY <1>2, <1>9 DEF Edges
<1>10. TypeOK'
  <2>1. validTo' \in [Edges -> 0 .. SENTINEL]
    <3> SUFFICES ASSUME NEW e \in Edges PROVE validTo'[e] \in 0 .. SENTINEL
      BY <1>2
    <3>1. PICK r \in Repos, k \in Keys, f \in Times : e = <<r, k, f>>
      BY DEF Edges
    <3>2. validTo[e] \in 0 .. SENTINEL
      BY DEF IInv, TypeOK
    <3> QED
      BY <1>8, <1>9, <3>1, <3>2
  <2>2. txFrom' \in [Edges -> 0 .. MaxClock]
    BY <1>2 DEF IInv, TypeOK
  <2> QED
    BY <1>1, <2>1, <2>2 DEF IInv, TypeOK
<1>11. HistoriesOK' /\ MarkBehindWalk'
  BY <1>1 DEF IInv, HistoriesOK, MarkBehindWalk
<1>12. EdgesSound'
  <2> SUFFICES ASSUME NEW r \in Repos, NEW k \in Keys, NEW f \in Times,
                      validTo'[<<r, k, f>>] # Absent
               PROVE  /\ IsFact(Walked(r), k, f)
                      /\ \E h \in 0 .. MaxTs :
                            /\ h >= mark[r]
                            /\ RightAt(Walked(r), h, validTo'[<<r, k, f>>], k, f)
    BY <1>1, <1>7 DEF EdgesSound
  <2>1. CASE RowsFor(part, <<r, k, f>>) = {}
    BY <1>9, <2>1 DEF IInv, EdgesSound
  <2>2. CASE RowsFor(part, <<r, k, f>>) # {}
    <3>1. Written(r, k, f)
      BY <1>8, <2>2
    <3>2. mark[r] \in Int
      BY DEF IInv, TypeOK
    <3> QED
      BY <3>1, <3>2
  <2> QED
    BY <2>1, <2>2
<1>13. EdgesComplete'
  <2> SUFFICES ASSUME NEW r \in Repos, NEW k \in Keys, NEW f \in Times,
                      f <= mark[r], IsFact(Walked(r), k, f)
               PROVE  validTo'[<<r, k, f>>] # Absent
    BY <1>1, <1>7 DEF EdgesComplete
  <2>1. validTo[<<r, k, f>>] # Absent
    BY DEF IInv, EdgesComplete
  <2> QED
    BY <1>8, <1>9, <2>1 DEF Absent
<1>14. WatermarkRowsOK'
  BY <1>1, <1>5, <1>6 DEF IInv, WatermarkRowsOK
<1>15. ResolvesRowsOK'
  <2> SUFFICES ASSUME NEW row \in pending'[w][ResolvesStep]
               PROVE  /\ row.repo \in Repos /\ row.key \in Keys /\ row.vf \in Times
                      /\ IsFact(Walked(row.repo)', row.key, row.vf)
                      /\ row.vt > mark[row.repo]
                      /\ \E m \in pending[w][WatermarkStep] :
                            /\ m.repo = row.repo
                            /\ RightAt(Walked(m.repo)', m.last, row.vt, row.key, row.vf)
                      /\ RepoNode(row.repo) \in nodes \union pending'[w][1]
                      /\ VersionNode(row.key) \in nodes \union pending'[w][3]
    BY <1>1, <1>5, <1>6 DEF ResolvesRowsOK
  <2>1. row \in pending[w][ResolvesStep]
    BY <1>3
  <2> QED
    BY <1>5, <1>7, <2>1 DEF IInv, ResolvesRowsOK
<1>16. NothingForgotten'
  <2> SUFFICES ASSUME NEW m \in pending[w][WatermarkStep], NEW k \in Keys, NEW f \in Times,
                      f <= m.last, IsFact(Walked(m.repo)', k, f)
               PROVE  \/ \E row \in pending'[w][ResolvesStep] :
                            row.repo = m.repo /\ row.key = k /\ row.vf = f
                      \/ /\ validTo'[<<m.repo, k, f>>] # Absent
                         /\ \E h \in 0 .. MaxTs :
                              /\ h >= m.last
                              /\ RightAt(Walked(m.repo)', h, validTo'[<<m.repo, k, f>>], k, f)
    BY <1>5, <1>6 DEF NothingForgotten
  <2>1. /\ m.repo \in Repos /\ m.last \in 0 .. MaxTs
        /\ \A n \in pending[w][WatermarkStep] : n.repo = m.repo => n = m
        /\ Walked(m.repo)' = Walked(m.repo)
    BY <1>7 DEF IInv, WatermarkRowsOK
  <2>2. CASE RowsFor(part, <<m.repo, k, f>>) # {}
    BY <1>8, <2>1, <2>2 DEF Absent
  <2>3. CASE RowsFor(part, <<m.repo, k, f>>) = {}
    <3>1. validTo'[<<m.repo, k, f>>] = validTo[<<m.repo, k, f>>]
      BY <1>9, <2>1, <2>3
    <3>2. \/ \E row \in pending[w][ResolvesStep] :
                row.repo = m.repo /\ row.key = k /\ row.vf = f
          \/ /\ validTo[<<m.repo, k, f>>] # Absent
             /\ \E h \in 0 .. MaxTs :
                  /\ h >= m.last
                  /\ RightAt(Walked(m.repo), h, validTo[<<m.repo, k, f>>], k, f)
      BY <2>1 DEF IInv, NothingForgotten
    <3>3. ASSUME NEW row \in pending[w][ResolvesStep],
                 row.repo = m.repo, row.key = k, row.vf = f
          PROVE  row \in pending'[w][ResolvesStep]
      <4>1. RepoNode(row.repo) \in nodes /\ VersionNode(row.key) \in nodes
        BY <1>5 DEF IInv, ResolvesRowsOK
      <4>2. row \notin part
        BY <2>3, <3>3, <4>1 DEF RowsFor
      <4> QED
        BY <1>3, <4>2
    <3> QED
      BY <2>1, <3>1, <3>2, <3>3
  <2> QED
    BY <2>2, <2>3
<1> QED
  BY <1>3, <1>4, <1>10, <1>11, <1>12, <1>13, <1>14, <1>15, <1>16 DEF IInv

-----------------------------------------------------------------------------
(* Watermarks.                                                             *)

\* Once the watermarks are all that is left, what they cover is in the store.
LEMMA WriteWatermarksStep ==
    ASSUME IInv, NEW w \in Writers, NEW acked \in BOOLEAN, WriteWatermarks(w, acked)
    PROVE  IInv'
<1>1. /\ AtStep(w, WatermarkStep)
      /\ UNCHANGED <<git, seen, nodes, links, validTo, txFrom, tx, clock, crashes>>
  BY DEF WriteWatermarks
<1>2. PICK part \in Parts(pending[w][WatermarkStep]) :
        /\ mark' = [r \in Repos |->
                        IF \E m \in part : m.repo = r
                        THEN (CHOOSE m \in part : m.repo = r).last
                        ELSE mark[r]]
        /\ Sent(w, WatermarkStep, part, acked)
  BY DEF WriteWatermarks
<1>3. /\ PendingShape'
      /\ part \subseteq pending[w][WatermarkStep]
      /\ \A v \in Writers : v # w => pending'[v] = pending[v]
      /\ \A j \in Steps : j # WatermarkStep => pending'[w][j] = pending[w][j]
      /\ pending'[w][WatermarkStep] \subseteq pending[w][WatermarkStep]
  <2>1. WatermarkStep \in Steps
    BY DEF Steps, WatermarkStep
  <2> QED
    BY <1>2, <2>1, SentRows DEF IInv
<1>4. OneRunAtATime' /\ \A v \in Writers : v # w => pending'[v] = NoWork
  <2>1. WatermarkStep \in Steps
    BY DEF Steps, WatermarkStep
  <2> QED
    BY <1>1, <1>3, <2>1, OnlyWriter DEF IInv
<1>5. pending[w][ResolvesStep] = {} /\ pending'[w][ResolvesStep] = {}
  BY <1>1, <1>3 DEF AtStep, Steps, ResolvesStep, WatermarkStep
<1>6. \A v \in Writers : v # w =>
        pending'[v][ResolvesStep] = {} /\ pending'[v][WatermarkStep] = {}
  BY <1>4 DEF NoWork, Steps, ResolvesStep, WatermarkStep
<1>7. \A r \in Repos : Walked(r)' = Walked(r)
  BY <1>1 DEF Walked
<1>8. ASSUME NEW r \in Repos
      PROVE  \/ mark'[r] = mark[r]
             \/ \E m \in pending[w][WatermarkStep] : m.repo = r /\ mark'[r] = m.last
  BY <1>2, <1>3
<1>9. ASSUME NEW m \in pending[w][WatermarkStep]
      PROVE  /\ m.repo \in Repos /\ m.last \in 0 .. MaxTs
             /\ mark[m.repo] <= m.last /\ m.last <= seen[m.repo]
             /\ \A n \in pending[w][WatermarkStep] : n.repo = m.repo => n = m
             /\ \A k \in Keys : \A f \in Times :
                    f <= m.last /\ IsFact(Walked(m.repo), k, f) =>
                        /\ validTo[<<m.repo, k, f>>] # Absent
                        /\ \E h \in 0 .. MaxTs :
                            /\ h >= m.last
                            /\ RightAt(Walked(m.repo), h, validTo[<<m.repo, k, f>>], k, f)
  BY <1>5 DEF IInv, WatermarkRowsOK, NothingForgotten
<1>10. TypeOK'
  <2>1. mark' \in [Repos -> -1 .. MaxTs]
    <3> SUFFICES ASSUME NEW r \in Repos PROVE mark'[r] \in -1 .. MaxTs
      BY <1>2
    <3>1. mark[r] \in -1 .. MaxTs
      BY DEF IInv, TypeOK
    <3> QED
      BY <1>8, <1>9, <3>1, ValidTimeAssumption
  <2> QED
    BY <1>1, <2>1 DEF IInv, TypeOK
<1>11. HistoriesOK' /\ MarkBehindWalk'
  BY <1>1, <1>8, <1>9 DEF IInv, HistoriesOK, MarkBehindWalk
<1>12. EdgesSound'
  <2> SUFFICES ASSUME NEW r \in Repos, NEW k \in Keys, NEW f \in Times,
                      validTo[<<r, k, f>>] # Absent
               PROVE  /\ IsFact(Walked(r), k, f)
                      /\ \E h \in 0 .. MaxTs :
                            /\ h >= mark'[r]
                            /\ RightAt(Walked(r), h, validTo[<<r, k, f>>], k, f)
    BY <1>1, <1>7 DEF EdgesSound
  <2>1. IsFact(Walked(r), k, f)
    BY DEF IInv, EdgesSound
  <2>2. PICK h \in 0 .. MaxTs :
            h >= mark[r] /\ RightAt(Walked(r), h, validTo[<<r, k, f>>], k, f)
    BY DEF IInv, EdgesSound
  <2>3. CASE mark'[r] = mark[r]
    BY <2>1, <2>2, <2>3
  <2>4. CASE \E m \in pending[w][WatermarkStep] : m.repo = r /\ mark'[r] = m.last
    <3>1. PICK m \in pending[w][WatermarkStep] : m.repo = r /\ mark'[r] = m.last
      BY <2>4
    <3>2. CASE f <= m.last
      BY <1>9, <2>1, <3>1, <3>2
    <3>3. CASE h >= m.last
      BY <2>1, <2>2, <3>1, <3>3
    <3>4. CASE ~(f <= m.last) /\ ~(h >= m.last)
      <4>1. m.last \in 0 .. MaxTs
        BY <1>9
      <4>2. ValidTo(Walked(r), k, f) >= f /\ ValidTo(Walked(r), k, f) \in 1 .. SENTINEL
        BY <2>1, FactEnds
      <4>3. RightAt(Walked(r), m.last, validTo[<<r, k, f>>], k, f)
        BY <2>2, <3>4, <4>1, <4>2 DEF RightAt, Times, SENTINEL
      <4> QED
        BY <2>1, <3>1, <4>1, <4>3
    <3> QED
      BY <3>2, <3>3, <3>4
  <2> QED
    BY <1>8, <2>3, <2>4
<1>13. EdgesComplete'
  <2> SUFFICES ASSUME NEW r \in Repos, NEW k \in Keys, NEW f \in Times,
                      f <= mark'[r], IsFact(Walked(r), k, f)
               PROVE  validTo[<<r, k, f>>] # Absent
    BY <1>1, <1>7 DEF EdgesComplete
  <2> QED
    BY <1>8, <1>9 DEF IInv, EdgesComplete
<1>14. WatermarkRowsOK'
  <2> SUFFICES ASSUME NEW m \in pending'[w][WatermarkStep]
               PROVE  /\ m.repo \in Repos
                      /\ m.last \in 0 .. MaxTs
                      /\ mark'[m.repo] <= m.last
                      /\ m.last <= seen[m.repo]
                      /\ \A n \in pending'[w][WatermarkStep] : n.repo = m.repo => n = m
    BY <1>1, <1>6 DEF WatermarkRowsOK
  <2>1. m \in pending[w][WatermarkStep]
    BY <1>3
  <2>2. /\ m.repo \in Repos /\ m.last \in 0 .. MaxTs
        /\ mark[m.repo] <= m.last /\ m.last <= seen[m.repo]
        /\ \A n \in pending[w][WatermarkStep] : n.repo = m.repo => n = m
    BY <1>9, <2>1
  <2>3. mark'[m.repo] <= m.last
    BY <1>8, <2>2
  <2> QED
    BY <1>3, <2>2, <2>3
<1>15. ResolvesRowsOK'
  BY <1>5, <1>6 DEF ResolvesRowsOK
<1>16. NothingForgotten'
  <2> SUFFICES ASSUME NEW m \in pending'[w][WatermarkStep], NEW k \in Keys, NEW f \in Times,
                      f <= m.last, IsFact(Walked(m.repo)', k, f)
               PROVE  /\ validTo[<<m.repo, k, f>>] # Absent
                      /\ \E h \in 0 .. MaxTs :
                            /\ h >= m.last
                            /\ RightAt(Walked(m.repo)', h, validTo[<<m.repo, k, f>>], k, f)
    BY <1>1, <1>6 DEF NothingForgotten
  <2>1. m \in pending[w][WatermarkStep]
    BY <1>3
  <2>2. m.repo \in Repos /\ Walked(m.repo)' = Walked(m.repo)
    BY <1>7, <1>9, <2>1
  <2> QED
    BY <1>9, <2>1, <2>2
<1> QED
  BY <1>3, <1>4, <1>10, <1>11, <1>12, <1>13, <1>14, <1>15, <1>16 DEF IInv

-----------------------------------------------------------------------------
(* Planning.                                                               *)

\* A walk cut at second u is the walk cut at its own last commit.
LEMMA WalkEndsAtItsLastCommit ==
    ASSUME NEW V, V \subseteq Commits, \A c \in V : c.entries # {}, NEW u \in 0 .. MaxTs
    PROVE  LET last == LastTs(Snapshots(UpTo(V, u)))
           IN  last \in 0 .. MaxTs /\ Snapshots(UpTo(V, u)) = UpTo(V, last)
<1> DEFINE S == Snapshots(UpTo(V, u))
           last == LastTs(S)
<1>1. S = UpTo(V, u) /\ S \subseteq V /\ S \subseteq Commits
  BY DEF Snapshots, UpTo
<1>2. /\ last \in 0 .. MaxTs
      /\ \A c \in S : c.ts <= last
      /\ last = 0 \/ \E c \in S : c.ts = last
  BY <1>1, LastTsIsLast
<1> HIDE DEF last
<1>3. last <= u
  <2>1. \A c \in S : c.ts <= u
    BY <1>1 DEF UpTo
  <2> QED
    BY <1>2, <2>1
<1>4. \A c \in V : c.ts <= last => c.ts <= u
  BY <1>2, <1>3, CommitTypes
<1>5. S = UpTo(V, last)
  BY <1>1, <1>2, <1>4 DEF UpTo
<1> QED
  BY <1>2, <1>5 DEF last

\* The rows of a walk are the facts that opened in it, with the valid_to a
\* longer walk cut at the same second would report.
LEMMA WalkRows ==
    ASSUME NEW V, V \subseteq Commits, NEW l \in 0 .. MaxTs, NEW u \in 0 .. MaxTs, l <= u
    PROVE  /\ \A i \in Intervals(UpTo(V, l)) :
                /\ i.key \in Keys /\ i.vf \in Times
                /\ IsFact(UpTo(V, u), i.key, i.vf)
                /\ RightAt(UpTo(V, u), l, i.vt, i.key, i.vf)
           /\ \A k \in Keys : \A f \in Times :
                f <= l /\ IsFact(UpTo(V, u), k, f) =>
                    \E i \in Intervals(UpTo(V, l)) : i.key = k /\ i.vf = f
<1> DEFINE S == UpTo(V, l)
           U == UpTo(V, u)
<1>1. ASSUME NEW i \in Intervals(S)
      PROVE  /\ i.key \in Keys /\ i.vf \in Times
             /\ IsFact(U, i.key, i.vf)
             /\ RightAt(U, l, i.vt, i.key, i.vf)
  <2>1. PICK j \in Keys \X Times :
            /\ Openers(S, j[1], j[2]) # {}
            /\ i = [key |-> j[1], vf |-> j[2], vt |-> ValidTo(S, j[1], j[2])]
    BY DEF Intervals
  <2>2. /\ i.key \in Keys /\ i.vf \in Times
        /\ IsFact(S, i.key, i.vf) /\ i.vt = ValidTo(S, i.key, i.vf)
    BY <2>1 DEF IsFact
  <2>3. i.vf <= l
    BY <2>2, FactWithinWalk
  <2> QED
    BY <2>2, <2>3, LongerWalk
<1>2. ASSUME NEW k \in Keys, NEW f \in Times, f <= l, IsFact(U, k, f)
      PROVE  \E i \in Intervals(S) : i.key = k /\ i.vf = f
  <2>1. Openers(S, k, f) # {}
    BY <1>2, LongerWalk DEF IsFact
  <2>2. [key |-> k, vf |-> f, vt |-> ValidTo(S, k, f)] \in Intervals(S)
    <3>1. <<k, f>> \in Keys \X Times
      OBVIOUS
    <3>2. <<k, f>>[1] = k /\ <<k, f>>[2] = f
      OBVIOUS
    <3> QED
      BY <2>1, <3>1, <3>2 DEF Intervals
  <2> QED
    BY <2>2
<1> QED
  BY <1>1, <1>2

\* Starting a run plans exactly what its walk adds to the store.
LEMMA StartStep ==
    ASSUME IInv, NEW w \in Writers, SerialStart(w)
    PROVE  IInv'
<1> USE ValidTimeAssumption
<1>1. \A v \in Writers : pending[v] = NoWork
  BY DEF SerialStart, Idle
<1>2. PICK built \in SUBSET Repos \ {{}} : \E upto \in [built -> 0 .. MaxTs] :
        Begin(w, [r \in built |-> UpTo(git[r], upto[r])])
  BY DEF SerialStart, Start
<1>3. PICK upto \in [built -> 0 .. MaxTs] :
        Begin(w, [r \in built |-> UpTo(git[r], upto[r])])
  BY <1>2
<1> DEFINE walk == [r \in built |-> UpTo(git[r], upto[r])]
           last(r) == WalkedTo(walk, r)
           plan == Plan(walk)
<1>4. /\ pending' = [pending EXCEPT ![w] = plan]
      /\ tx' = [tx EXCEPT ![w] = clock]
      /\ seen' = [r \in Repos |->
                    IF r \in DOMAIN walk /\ WalkedTo(walk, r) > seen[r]
                    THEN WalkedTo(walk, r) ELSE seen[r]]
      /\ UNCHANGED <<git, nodes, links, validTo, txFrom, mark, clock, crashes>>
  BY <1>3 DEF Begin, store
<1>5. built \subseteq Repos /\ DOMAIN walk = built
  OBVIOUS
<1>6. ASSUME NEW r \in Repos
      PROVE  /\ git[r] \subseteq Commits /\ \A c \in git[r] : c.entries # {}
             /\ seen[r] \in 0 .. MaxTs /\ mark[r] \in -1 .. MaxTs /\ mark[r] <= seen[r]
  BY DEF IInv, TypeOK, HistoriesOK, MarkBehindWalk
<1>7. ASSUME NEW r \in built
      PROVE  last(r) \in 0 .. MaxTs /\ Snapshots(walk[r]) = UpTo(git[r], last(r))
  <2>1. upto[r] \in 0 .. MaxTs /\ walk[r] = UpTo(git[r], upto[r])
    OBVIOUS
  <2> QED
    BY <1>5, <1>6, <2>1, WalkEndsAtItsLastCommit DEF WalkedTo
<1> HIDE DEF walk
<1>8. ASSUME NEW r \in Repos
      PROVE  /\ seen'[r] \in 0 .. MaxTs /\ seen[r] <= seen'[r]
             /\ r \in built => last(r) <= seen'[r]
             /\ Walked(r)' = UpTo(git[r], seen'[r])
  BY <1>4, <1>5, <1>6, <1>7 DEF Walked
<1>9. ASSUME NEW r \in Repos, NEW k \in Keys, NEW f \in Times
      PROVE  /\ f <= seen[r] => (IsFact(Walked(r), k, f) <=> IsFact(Walked(r)', k, f))
             /\ IsFact(Walked(r), k, f) =>
                  \A vt : \A h \in 0 .. MaxTs :
                    RightAt(Walked(r), h, vt, k, f) =>
                        RightAt(Walked(r)', IF h <= seen[r] THEN h ELSE seen[r], vt, k, f)
  BY <1>6, <1>8, LongerWalk DEF Walked
<1>10. TypeOK'
  <2>1. seen' \in [Repos -> 0 .. MaxTs]
    BY <1>4, <1>8
  <2>2. tx' \in [Writers -> 0 .. MaxClock]
    BY <1>4 DEF IInv, TypeOK
  <2> QED
    BY <1>4, <2>1, <2>2 DEF IInv, TypeOK
<1>11. HistoriesOK'
  BY <1>4 DEF IInv, HistoriesOK
<1>12. MarkBehindWalk'
  BY <1>4, <1>6, <1>8 DEF MarkBehindWalk
<1>13. EdgesSound'
  <2> SUFFICES ASSUME NEW r \in Repos, NEW k \in Keys, NEW f \in Times,
                      validTo[<<r, k, f>>] # Absent
               PROVE  /\ IsFact(Walked(r)', k, f)
                      /\ \E h \in 0 .. MaxTs :
                            /\ h >= mark[r]
                            /\ RightAt(Walked(r)', h, validTo[<<r, k, f>>], k, f)
    BY <1>4 DEF EdgesSound
  <2>1. IsFact(Walked(r), k, f)
    BY DEF IInv, EdgesSound
  <2>2. PICK h \in 0 .. MaxTs :
            h >= mark[r] /\ RightAt(Walked(r), h, validTo[<<r, k, f>>], k, f)
    BY DEF IInv, EdgesSound
  <2>3. f <= seen[r]
    BY <2>1, FactWithinWalk DEF Walked
  <2>4. RightAt(Walked(r)', IF h <= seen[r] THEN h ELSE seen[r], validTo[<<r, k, f>>], k, f)
    BY <1>9, <2>1, <2>2
  <2> QED
    BY <1>6, <1>9, <2>1, <2>2, <2>3, <2>4
<1>14. EdgesComplete'
  <2> SUFFICES ASSUME NEW r \in Repos, NEW k \in Keys, NEW f \in Times,
                      f <= mark[r], IsFact(Walked(r)', k, f)
               PROVE  validTo[<<r, k, f>>] # Absent
    BY <1>4 DEF EdgesComplete
  <2>1. f <= seen[r]
    BY <1>6 DEF Times
  <2> QED
    BY <1>9, <2>1 DEF IInv, EdgesComplete
<1>15. /\ pending' = [v \in Writers |-> pending'[v]]
       /\ pending'[w] = plan
       /\ \A v \in Writers : v # w => pending'[v] = NoWork
  BY <1>1, <1>4 DEF IInv, PendingShape
<1>16. PendingShape'
  <2>1. plan = [i \in Steps |-> plan[i]] /\ NoWork = [i \in Steps |-> NoWork[i]]
    BY DEF Plan, Steps, NoWork
  <2> QED
    BY <1>15, <2>1 DEF PendingShape
<1>17. OneRunAtATime'
  BY <1>15 DEF OneRunAtATime, Idle, NoWork
<1>18. \A v \in Writers : v # w =>
        pending'[v][ResolvesStep] = {} /\ pending'[v][WatermarkStep] = {}
  BY <1>15 DEF NoWork, Steps, ResolvesStep, WatermarkStep
<1> DEFINE rows == ResolvesRows(walk)
           stale == StaleRepos(walk)
<1>19. /\ pending'[w][1] = {RepoNode(r) : r \in built \ stale}
       /\ pending'[w][3] = {VersionNode(k) : k \in {row.key : row \in rows}}
       /\ pending'[w][ResolvesStep] =
            FilterByWatermark({row \in rows : row.repo \notin stale})
       /\ pending'[w][WatermarkStep] =
            {[repo |-> r, last |-> WatermarkAfter(walk, r)] : r \in built}
  BY <1>5, <1>15 DEF Plan, ResolvesStep, WatermarkStep
<1>20. ASSUME NEW r \in built
       PROVE  /\ r \in stale <=> last(r) < mark[r]
              /\ WatermarkAfter(walk, r) = IF last(r) > mark[r] THEN last(r) ELSE mark[r]
  BY <1>5 DEF StaleRepos, WatermarkAfter
<1>21. ASSUME NEW row \in rows
       PROVE  /\ row.repo \in built /\ row.repo \in Repos
              /\ row.key \in Keys /\ row.vf \in Times
              /\ IsFact(Walked(row.repo)', row.key, row.vf)
              /\ RightAt(Walked(row.repo)', last(row.repo), row.vt, row.key, row.vf)
  <2>1. PICK r \in built : \E i \in Intervals(Snapshots(walk[r])) :
            row = [repo |-> r, key |-> i.key, vf |-> i.vf, vt |-> i.vt]
    BY <1>5 DEF ResolvesRows
  <2>2. PICK i \in Intervals(UpTo(git[r], last(r))) :
            row = [repo |-> r, key |-> i.key, vf |-> i.vf, vt |-> i.vt]
    BY <1>7, <2>1
  <2>3. /\ i.key \in Keys /\ i.vf \in Times
        /\ IsFact(UpTo(git[r], seen'[r]), i.key, i.vf)
        /\ RightAt(UpTo(git[r], seen'[r]), last(r), i.vt, i.key, i.vf)
    BY <1>5, <1>6, <1>7, <1>8, WalkRows
  <2> QED
    BY <1>5, <1>8, <2>2, <2>3
<1>22. ASSUME NEW r \in built, NEW k \in Keys, NEW f \in Times,
              f <= last(r), IsFact(Walked(r)', k, f)
       PROVE  \E row \in rows : row.repo = r /\ row.key = k /\ row.vf = f
  <2>1. PICK i \in Intervals(UpTo(git[r], last(r))) : i.key = k /\ i.vf = f
    BY <1>5, <1>6, <1>7, <1>8, <1>22, WalkRows
  <2>2. [repo |-> r, key |-> i.key, vf |-> i.vf, vt |-> i.vt] \in rows
    BY <1>5, <1>7, <2>1 DEF ResolvesRows
  <2> QED
    BY <2>1, <2>2
<1> HIDE DEF rows, stale, plan, last
<1>23. WatermarkRowsOK'
  <2> SUFFICES ASSUME NEW m \in pending'[w][WatermarkStep]
               PROVE  /\ m.repo \in Repos
                      /\ m.last \in 0 .. MaxTs
                      /\ mark[m.repo] <= m.last
                      /\ m.last <= seen'[m.repo]
                      /\ \A n \in pending'[w][WatermarkStep] : n.repo = m.repo => n = m
    BY <1>4, <1>18 DEF WatermarkRowsOK
  <2>1. PICK r \in built : m = [repo |-> r, last |-> WatermarkAfter(walk, r)]
    BY <1>19
  <2>2. m.repo = r /\ m.last = IF last(r) > mark[r] THEN last(r) ELSE mark[r]
    BY <1>20, <2>1
  <2>3. /\ m.last \in 0 .. MaxTs /\ mark[r] <= m.last /\ m.last <= seen'[r]
    BY <1>5, <1>6, <1>7, <1>8, <2>2
  <2>4. \A n \in pending'[w][WatermarkStep] : n.repo = m.repo => n = m
    BY <1>19, <2>1
  <2> QED
    BY <1>5, <2>2, <2>3, <2>4
<1>24. ResolvesRowsOK'
  <2> SUFFICES ASSUME NEW row \in pending'[w][ResolvesStep]
               PROVE  /\ row.repo \in Repos /\ row.key \in Keys /\ row.vf \in Times
                      /\ IsFact(Walked(row.repo)', row.key, row.vf)
                      /\ row.vt > mark[row.repo]
                      /\ \E m \in pending'[w][WatermarkStep] :
                            /\ m.repo = row.repo
                            /\ RightAt(Walked(m.repo)', m.last, row.vt, row.key, row.vf)
                      /\ RepoNode(row.repo) \in nodes \union pending'[w][1]
                      /\ VersionNode(row.key) \in nodes \union pending'[w][3]
    BY <1>4, <1>18 DEF ResolvesRowsOK
  <2>1. row \in rows /\ row.repo \notin stale /\ row.vt > mark[row.repo]
    BY <1>19 DEF FilterByWatermark
  <2>2. /\ row.repo \in built /\ row.repo \in Repos
        /\ row.key \in Keys /\ row.vf \in Times
        /\ IsFact(Walked(row.repo)', row.key, row.vf)
        /\ RightAt(Walked(row.repo)', last(row.repo), row.vt, row.key, row.vf)
    BY <1>21, <2>1
  <2> DEFINE m == [repo |-> row.repo, last |-> WatermarkAfter(walk, row.repo)]
  <2>3. m \in pending'[w][WatermarkStep]
    BY <1>19, <2>2
  <2>4. m.last = last(row.repo) /\ m.repo = row.repo
    BY <1>6, <1>7, <1>20, <2>1, <2>2
  <2>5. RepoNode(row.repo) \in pending'[w][1] /\ VersionNode(row.key) \in pending'[w][3]
    BY <1>19, <2>1, <2>2
  <2> QED
    BY <2>1, <2>2, <2>3, <2>4, <2>5
<1>25. NothingForgotten'
  <2> SUFFICES ASSUME NEW m \in pending'[w][WatermarkStep], NEW k \in Keys, NEW f \in Times,
                      f <= m.last, IsFact(Walked(m.repo)', k, f)
               PROVE  \/ \E row \in pending'[w][ResolvesStep] :
                            row.repo = m.repo /\ row.key = k /\ row.vf = f
                      \/ /\ validTo[<<m.repo, k, f>>] # Absent
                         /\ \E h \in 0 .. MaxTs :
                              /\ h >= m.last
                              /\ RightAt(Walked(m.repo)', h, validTo[<<m.repo, k, f>>], k, f)
    BY <1>4, <1>18 DEF NothingForgotten
  <2>1. PICK r \in built : m = [repo |-> r, last |-> WatermarkAfter(walk, r)]
    BY <1>19
  <2>2. /\ m.repo = r /\ r \in Repos
        /\ m.last = IF last(r) > mark[r] THEN last(r) ELSE mark[r]
        /\ last(r) \in 0 .. MaxTs /\ mark[r] \in -1 .. MaxTs /\ m.last \in 0 .. MaxTs
    BY <1>5, <1>6, <1>7, <1>20, <2>1
  <2>3. ASSUME f <= mark[r]
        PROVE  /\ validTo[<<r, k, f>>] # Absent
               /\ \E h \in 0 .. MaxTs :
                    h >= mark[r] /\ RightAt(Walked(r)', h, validTo[<<r, k, f>>], k, f)
    BY <1>4, <1>13, <1>14, <2>2, <2>3 DEF EdgesSound, EdgesComplete
  <2>4. CASE r \in stale
    BY <1>20, <2>2, <2>3, <2>4
  <2>5. CASE r \notin stale
    <3>1. m.last = last(r)
      BY <1>20, <2>2, <2>5
    <3>2. PICK row \in rows : row.repo = r /\ row.key = k /\ row.vf = f
      BY <1>22, <2>2, <3>1
    <3>3. CASE row.vt > mark[r]
      BY <1>19, <2>2, <2>5, <3>2, <3>3 DEF FilterByWatermark
    <3>4. CASE ~(row.vt > mark[r])
      <4> DEFINE end == ValidTo(Walked(r)', k, f)
      <4>1. end \in 1 .. SENTINEL /\ end >= f
        <5>1. Walked(r)' \subseteq Commits
          BY <1>6, <1>8, <2>2 DEF UpTo
        <5>2. Openers(Walked(r)', k, f) # {}
          BY <2>2 DEF IsFact
        <5> QED
          BY <5>1, <5>2, ValidToAfter
      <4>2. row.vt = IF end <= last(r) THEN end ELSE SENTINEL
        BY <1>21, <3>2 DEF RightAt
      <4>3. row.vt = end /\ end <= mark[r]
        BY <2>2, <3>4, <4>1, <4>2 DEF SENTINEL
      <4>4. f <= mark[r]
        BY <2>2, <4>1, <4>3 DEF Times
      <4>5. PICK h \in 0 .. MaxTs :
                h >= mark[r] /\ RightAt(Walked(r)', h, validTo[<<r, k, f>>], k, f)
        BY <2>3, <4>4
      <4>6. validTo[<<r, k, f>>] = end
        BY <2>2, <4>1, <4>3, <4>5 DEF RightAt, SENTINEL
      <4>7. RightAt(Walked(r)', MaxTs, validTo[<<r, k, f>>], k, f)
        BY <2>2, <4>1, <4>3, <4>6 DEF RightAt, SENTINEL
      <4> QED
        BY <2>2, <2>3, <4>4, <4>7
    <3> QED
      BY <3>3, <3>4
  <2> QED
    BY <2>4, <2>5
<1> QED
  BY <1>10, <1>11, <1>12, <1>13, <1>14, <1>16, <1>17, <1>23, <1>24, <1>25 DEF IInv

-----------------------------------------------------------------------------
(* The invariant.                                                          *)

LEMMA InitIInv == Init => IInv
<1> SUFFICES ASSUME Init PROVE IInv
  OBVIOUS
<1> USE ValidTimeAssumption, IngestAssumption DEF Init
<1>1. TypeOK
  BY DEF TypeOK, Absent, None, SENTINEL
<1>2. HistoriesOK /\ MarkBehindWalk
  BY DEF HistoriesOK, IsHistory, MarkBehindWalk, None
<1>3. EdgesSound /\ EdgesComplete
  BY DEF EdgesSound, EdgesComplete, Edges, None, Times
<1>4. PendingShape /\ OneRunAtATime
  BY DEF PendingShape, OneRunAtATime, Idle, NoWork
<1>5. \A w \in Writers : pending[w][ResolvesStep] = {} /\ pending[w][WatermarkStep] = {}
  BY DEF NoWork, Steps, ResolvesStep, WatermarkStep
<1>6. WatermarkRowsOK /\ ResolvesRowsOK /\ NothingForgotten
  BY <1>5 DEF WatermarkRowsOK, ResolvesRowsOK, NothingForgotten
<1> QED
  BY <1>1, <1>2, <1>3, <1>4, <1>6 DEF IInv

LEMMA NextIInv == IInv /\ [Next]_vars => IInv'
<1> SUFFICES ASSUME IInv, [Next]_vars PROVE IInv'
  OBVIOUS
<1>1. CASE \E r \in Repos : Commit(r)
  BY <1>1, CommitStep
<1>2. CASE Tick
  BY <1>2, TickStep
<1>3. ASSUME NEW w \in Writers, SerialStart(w) PROVE IInv'
  BY <1>3, StartStep
<1>4. ASSUME NEW w \in Writers, NEW acked \in BOOLEAN, Write(w, acked) PROVE IInv'
  BY <1>4, UpsertNodesStep, UpsertLinksStep, UpsertResolvesStep, WriteWatermarksStep DEF Write
<1>5. ASSUME NEW w \in Writers, Crash(w) PROVE IInv'
  BY <1>5, CrashStep
<1>6. CASE UNCHANGED vars
  <2>1. \A r \in Repos : Walked(r)' = Walked(r)
    BY <1>6 DEF vars, store, Walked
  <2>2. TypeOK' /\ HistoriesOK' /\ PendingShape' /\ OneRunAtATime'
    BY <1>6 DEF vars, store, IInv, TypeOK, HistoriesOK, PendingShape, OneRunAtATime, Idle, NoWork
  <2> QED
    BY <1>6, <2>1, <2>2, QuietStep DEF vars, store
<1> QED
  BY <1>1, <1>2, <1>3, <1>4, <1>5, <1>6 DEF Next, Running

\* The inductive invariant holds in every reachable state.
THEOREM Invariant == Spec => []IInv
BY InitIInv, NextIInv, PTL DEF Spec

\* Type correctness of the writer's state.
THEOREM TypeCorrect == Spec => []TypeOK
<1>1. IInv => TypeOK
  BY DEF IInv
<1> QED
  BY <1>1, Invariant, PTL

-----------------------------------------------------------------------------
(* What readers get.                                                       *)

\* Cutting a history at second u does not change what it says at t <= u.
LEMMA PastOfPrefix ==
    ASSUME NEW V, V \subseteq Commits, NEW u \in 0 .. MaxTs, NEW t \in Times, t <= u
    PROVE  ResolvedAsOf(UpTo(V, u), t) = ResolvedAsOf(V, t)
<1>1. \A c \in V : c.ts <= t => c \in UpTo(V, u)
  BY CommitTypes DEF UpTo, Times
<1> QED
  BY <1>1 DEF ResolvedAsOf, UpTo

LEMMA PrefixIsHistory ==
    ASSUME NEW V, IsHistory(V), NEW u
    PROVE  IsHistory(UpTo(V, u))
BY DEF IsHistory, UpTo

\* A fact live at a covered second is in the store, with a bound after it, and
\* nothing else is.
LEMMA CoveredFacts ==
    ASSUME IInv, NEW r \in Repos, NEW k \in Keys, NEW f \in Times, NEW t \in Times,
           t <= mark[r], f <= t
    PROVE  validTo[<<r, k, f>>] > t <=> Live(Walked(r), k, f, t)
<1> USE ValidTimeAssumption
<1>1. mark[r] \in -1 .. MaxTs /\ validTo[<<r, k, f>>] \in 0 .. SENTINEL
  BY DEF IInv, TypeOK, Edges
<1>2. CASE validTo[<<r, k, f>>] = Absent
  <2>1. f <= mark[r]
    BY <1>1 DEF Times
  <2>2. ~IsFact(Walked(r), k, f)
    BY <1>2, <2>1 DEF IInv, EdgesComplete
  <2> QED
    BY <1>2, <2>2 DEF IsFact, Live, Absent, Times
<1>3. CASE validTo[<<r, k, f>>] # Absent
  <2>1. IsFact(Walked(r), k, f)
    BY <1>3 DEF IInv, EdgesSound
  <2>2. PICK h \in 0 .. MaxTs :
            h >= mark[r] /\ RightAt(Walked(r), h, validTo[<<r, k, f>>], k, f)
    BY <1>3 DEF IInv, EdgesSound
  <2>3. ValidTo(Walked(r), k, f) \in 1 .. SENTINEL
    BY <2>1, FactEnds
  <2>4. validTo[<<r, k, f>>] > t <=> ValidTo(Walked(r), k, f) > t
    BY <1>1, <2>2, <2>3 DEF RightAt, SENTINEL, Times
  <2> QED
    BY <2>1, <2>4 DEF IsFact, Live
<1> QED
  BY <1>2, <1>3

LEMMA CoveredPastLemma == IInv => CoveredPastIsExact
<1> SUFFICES ASSUME IInv, NEW r \in Repos, NEW t \in Times, t <= mark[r]
             PROVE  ResolvedInStore(r, t) = ResolvedAsOf(git[r], t)
  BY DEF CoveredPastIsExact
<1>1. /\ git[r] \subseteq Commits /\ IsHistory(git[r]) /\ seen[r] \in 0 .. MaxTs
      /\ mark[r] \in -1 .. MaxTs /\ mark[r] <= seen[r]
  BY DEF IInv, TypeOK, HistoriesOK, MarkBehindWalk
<1>2. t <= seen[r]
  BY <1>1 DEF Times
<1>3. IsHistory(Walked(r)) /\ ResolvedAsOf(Walked(r), t) = ResolvedAsOf(git[r], t)
  BY <1>1, <1>2, PastOfPrefix, PrefixIsHistory DEF Walked
<1>4. ASSUME NEW k \in Keys
      PROVE  k \in ResolvedInStore(r, t) <=> k \in ResolvedAsOf(git[r], t)
  <2>1. k \in ResolvedInStore(r, t) <=> \E f \in Times : Live(Walked(r), k, f, t)
    <3>1. \A f \in Times : (f <= t /\ validTo[<<r, k, f>>] > t) <=> Live(Walked(r), k, f, t)
      BY CoveredFacts DEF Live
    <3> QED
      BY <3>1 DEF ResolvedInStore
  <2> QED
    BY <1>3, <2>1, FactsAreHistory
<1>5. ResolvedInStore(r, t) \subseteq Keys /\ ResolvedAsOf(git[r], t) \subseteq Keys
  BY DEF ResolvedInStore, ResolvedAsOf
<1> QED
  BY <1>4, <1>5

\* At every second a repository's watermark covers, the AS-OF read of the
\* store is what the newest commit resolved: in the middle of a run, after a
\* crash, after a stale build, and whatever is committed later.
THEOREM CoveredPast == Spec => []CoveredPastIsExact
BY Invariant, CoveredPastLemma, PTL

\* At a covered second no repository reaches a version by two live edges.
THEOREM OneLive == Spec => []OneLiveEdge
<1>1. ASSUME IInv PROVE OneLiveEdge
  <2> SUFFICES ASSUME NEW r \in Repos, NEW k \in Keys, NEW t \in Times,
                      NEW f \in Times, NEW g \in Times,
                      t <= mark[r],
                      f <= t, validTo[<<r, k, f>>] > t,
                      g <= t, validTo[<<r, k, g>>] > t
               PROVE  f = g
    BY DEF OneLiveEdge
  <2>1. Live(Walked(r), k, f, t) /\ Live(Walked(r), k, g, t)
    BY <1>1, CoveredFacts
  <2>2. IsHistory(Walked(r))
    BY <1>1, PrefixIsHistory DEF IInv, HistoriesOK, Walked
  <2> QED
    BY <2>1, <2>2, OneLiveFact
<1> QED
  BY <1>1, Invariant, PTL

\* Level with its history, a repository's facts end when the history ends them.
LEMMA LevelFacts ==
    ASSUME IInv, NEW r \in Repos, mark[r] = LastTs(git[r]), NEW k \in Keys, NEW f \in Times
    PROVE  /\ Walked(r) = git[r]
           /\ IsFact(git[r], k, f) =>
                /\ f <= mark[r]
                /\ \A h \in 0 .. MaxTs : \A vt :
                    h >= mark[r] /\ RightAt(git[r], h, vt, k, f) => vt = ValidTo(git[r], k, f)
<1> USE ValidTimeAssumption
<1>1. /\ git[r] \subseteq Commits /\ seen[r] \in 0 .. MaxTs
      /\ mark[r] \in 0 .. MaxTs /\ mark[r] <= seen[r]
      /\ \A c \in git[r] : c.ts <= mark[r]
  BY LastTsIsLast DEF IInv, TypeOK, MarkBehindWalk
<1>2. \A c \in git[r] : c.ts <= seen[r]
  BY <1>1, CommitTypes
<1>3. Walked(r) = git[r]
  BY <1>2 DEF Walked, UpTo
<1>4. ASSUME IsFact(git[r], k, f)
      PROVE  /\ f <= mark[r]
             /\ \A h \in 0 .. MaxTs : \A vt :
                  h >= mark[r] /\ RightAt(git[r], h, vt, k, f) => vt = ValidTo(git[r], k, f)
  <2>1. f <= mark[r]
    BY <1>1, <1>4 DEF IsFact, Openers
  <2> DEFINE ends == Ends(git[r], LastOpener(git[r], k, f), k)
  <2>2. \A u \in ends : u <= mark[r]
    BY <1>1 DEF Ends
  <2>3. ValidTo(git[r], k, f) <= mark[r] \/ ValidTo(git[r], k, f) = SENTINEL
    BY <1>1, <2>2, ValidToIsFirstEnd
  <2>4. ValidTo(git[r], k, f) \in 1 .. SENTINEL
    BY <1>3, <1>4, FactEnds
  <2> QED
    BY <1>1, <2>1, <2>3, <2>4 DEF RightAt, SENTINEL
<1> QED
  BY <1>3, <1>4

\* A repository the store is level with is answered right at every second.
THEOREM PresentExact == Spec => []PresentIsExact
<1>1. ASSUME IInv PROVE PresentIsExact
  <2> USE ValidTimeAssumption
  <2> SUFFICES ASSUME NEW r \in Repos, mark[r] = LastTs(git[r]), NEW t \in Times
               PROVE  ResolvedInStore(r, t) = ResolvedAsOf(git[r], t)
    BY DEF PresentIsExact
  <2>1. IsHistory(git[r])
    BY <1>1 DEF IInv, HistoriesOK
  <2>2. ASSUME NEW k \in Keys, NEW f \in Times
        PROVE  (f <= t /\ validTo[<<r, k, f>>] > t) <=> Live(git[r], k, f, t)
    <3>1. CASE validTo[<<r, k, f>>] = Absent
      <4>1. ~IsFact(git[r], k, f)
        BY <1>1, <3>1, LevelFacts DEF IInv, EdgesComplete
      <4> QED
        BY <3>1, <4>1 DEF IsFact, Live, Absent, Times
    <3>2. CASE validTo[<<r, k, f>>] # Absent
      <4>1. /\ IsFact(git[r], k, f)
            /\ \E h \in 0 .. MaxTs :
                h >= mark[r] /\ RightAt(git[r], h, validTo[<<r, k, f>>], k, f)
        BY <1>1, <3>2, LevelFacts DEF IInv, EdgesSound
      <4>2. validTo[<<r, k, f>>] = ValidTo(git[r], k, f)
        BY <1>1, <4>1, LevelFacts
      <4> QED
        BY <4>1, <4>2 DEF IsFact, Live
    <3> QED
      BY <3>1, <3>2
  <2>3. ASSUME NEW k \in Keys
        PROVE  k \in ResolvedInStore(r, t) <=> k \in ResolvedAsOf(git[r], t)
    BY <2>1, <2>2, FactsAreHistory DEF ResolvedInStore
  <2>4. ResolvedInStore(r, t) \subseteq Keys /\ ResolvedAsOf(git[r], t) \subseteq Keys
    BY DEF ResolvedInStore, ResolvedAsOf
  <2> QED
    BY <2>3, <2>4
<1> QED
  BY <1>1, Invariant, PTL

-----------------------------------------------------------------------------
(* What a step may never do.                                               *)

\* Only a batch of RESOLVES rows touches the RESOLVES edges, and only a
\* watermark write the watermarks.
LEMMA WhoWrites ==
    ASSUME Next
    PROVE  /\ UNCHANGED <<validTo, txFrom>> \/
                \E w \in Writers : \E acked \in BOOLEAN : UpsertResolves(w, acked)
           /\ UNCHANGED mark \/
                \E w \in Writers : \E acked \in BOOLEAN : WriteWatermarks(w, acked)
BY DEF Next, Commit, Tick, SerialStart, Start, Begin, Running, Write, Crash, UpsertNodes,
       UpsertLinks, UpsertResolves, WriteWatermarks, store

LEMMA MarkAdvances ==
    ASSUME IInv, [Next]_vars, NEW r \in Repos
    PROVE  mark'[r] >= mark[r]
<1>1. mark[r] \in -1 .. MaxTs
  BY DEF IInv, TypeOK
<1>2. CASE UNCHANGED mark
  BY <1>1, <1>2
<1>3. ASSUME NEW w \in Writers, NEW acked \in BOOLEAN, WriteWatermarks(w, acked)
      PROVE  mark'[r] >= mark[r]
  <2>1. PICK part \in Parts(pending[w][WatermarkStep]) :
          mark' = [q \in Repos |->
                      IF \E m \in part : m.repo = q
                      THEN (CHOOSE m \in part : m.repo = q).last
                      ELSE mark[q]]
    BY <1>3 DEF WriteWatermarks
  <2>2. \/ mark'[r] = mark[r]
        \/ \E m \in pending[w][WatermarkStep] : m.repo = r /\ mark'[r] = m.last
    BY <2>1 DEF Parts
  <2> QED
    BY <1>1, <2>2 DEF IInv, WatermarkRowsOK
<1> QED
  BY <1>2, <1>3, WhoWrites DEF vars, store

\* A watermark only moves forward.
THEOREM WatermarkAdvances == Spec => WatermarkNeverRegresses
<1>1. IInv /\ [Next]_vars => [\A r \in Repos : mark'[r] >= mark[r]]_vars
  BY MarkAdvances
<1> QED
  BY <1>1, Invariant, PTL DEF Spec, WatermarkNeverRegresses

\* What a RESOLVES batch writes to an edge: the fact as the run's walk reports
\* it, not yet settled.
LEMMA WrittenRow ==
    ASSUME IInv, NEW w \in Writers, NEW acked \in BOOLEAN, UpsertResolves(w, acked),
           NEW r \in Repos, NEW k \in Keys, NEW f \in Times
    PROVE  \/ /\ validTo'[<<r, k, f>>] = validTo[<<r, k, f>>]
              /\ txFrom'[<<r, k, f>>] = txFrom[<<r, k, f>>]
           \/ /\ IsFact(Walked(r), k, f)
              /\ validTo'[<<r, k, f>>] > mark[r]
              /\ \E h \in 0 .. MaxTs :
                    h >= mark[r] /\ RightAt(Walked(r), h, validTo'[<<r, k, f>>], k, f)
<1>1. PICK part \in Parts(pending[w][ResolvesStep]) :
        /\ validTo' = [e \in Edges |->
                        IF RowsFor(part, e) # {}
                        THEN (CHOOSE row \in RowsFor(part, e) : TRUE).vt
                        ELSE validTo[e]]
        /\ txFrom' = [e \in Edges |->
                        IF RowsFor(part, e) # {} THEN tx[w] ELSE txFrom[e]]
  BY DEF UpsertResolves
<1>2. CASE RowsFor(part, <<r, k, f>>) = {}
  BY <1>1, <1>2 DEF Edges
<1>3. CASE RowsFor(part, <<r, k, f>>) # {}
  <2> DEFINE row == CHOOSE x \in RowsFor(part, <<r, k, f>>) : TRUE
  <2>1. row \in RowsFor(part, <<r, k, f>>)
    BY <1>3
  <2>2. row \in pending[w][ResolvesStep] /\ row.repo = r /\ row.key = k /\ row.vf = f
    BY <2>1 DEF RowsFor, Parts
  <2>3. validTo'[<<r, k, f>>] = row.vt
    BY <1>1, <1>3 DEF Edges
  <2> HIDE DEF row
  <2>4. PICK m \in pending[w][WatermarkStep] :
            m.repo = r /\ RightAt(Walked(r), m.last, row.vt, k, f)
    BY <2>2 DEF IInv, ResolvesRowsOK
  <2>5. IsFact(Walked(r), k, f) /\ row.vt > mark[r]
    BY <2>2 DEF IInv, ResolvesRowsOK
  <2>6. m.last \in 0 .. MaxTs /\ m.last >= mark[r]
    <3>1. m.last \in 0 .. MaxTs /\ mark[r] <= m.last /\ mark[r] \in -1 .. MaxTs
      BY <2>4 DEF IInv, WatermarkRowsOK, TypeOK
    <3> QED
      BY <3>1
  <2> QED
    BY <2>3, <2>4, <2>5, <2>6
<1> QED
  BY <1>2, <1>3

\* A fact that had closed by the watermark keeps its bounds and its tx_from.
THEOREM SettledFinal == Spec => SettledFactsAreFinal
<1>1. ASSUME IInv, [Next]_vars, NEW e \in Edges,
             validTo[e] # Absent, validTo[e] <= mark[e[1]]
      PROVE  validTo'[e] = validTo[e] /\ txFrom'[e] = txFrom[e]
  <2>1. PICK r \in Repos, k \in Keys, f \in Times : e = <<r, k, f>> /\ e[1] = r
    BY DEF Edges
  <2>2. CASE UNCHANGED <<validTo, txFrom>>
    BY <2>2
  <2>3. ASSUME NEW w \in Writers, NEW acked \in BOOLEAN, UpsertResolves(w, acked)
        PROVE  validTo'[e] = validTo[e] /\ txFrom'[e] = txFrom[e]
    <3>1. CASE /\ IsFact(Walked(r), k, f)
               /\ validTo'[<<r, k, f>>] > mark[r]
               /\ \E h \in 0 .. MaxTs :
                    h >= mark[r] /\ RightAt(Walked(r), h, validTo'[<<r, k, f>>], k, f)
      <4>1. PICK h \in 0 .. MaxTs :
                h >= mark[r] /\ RightAt(Walked(r), h, validTo[<<r, k, f>>], k, f)
        BY <1>1, <2>1 DEF IInv, EdgesSound
      <4>2. PICK g \in 0 .. MaxTs :
                g >= mark[r] /\ RightAt(Walked(r), g, validTo'[<<r, k, f>>], k, f)
        BY <3>1
      <4>3. ValidTo(Walked(r), k, f) \in 1 .. SENTINEL /\ mark[r] \in -1 .. MaxTs
        BY <1>1, <3>1, FactEnds DEF IInv, TypeOK
      <4>4. ValidTo(Walked(r), k, f) <= mark[r]
        BY <1>1, <2>1, <4>1, <4>3, ValidTimeAssumption DEF RightAt, SENTINEL
      <4>5. validTo'[<<r, k, f>>] = ValidTo(Walked(r), k, f)
        BY <4>2, <4>3, <4>4 DEF RightAt
      <4> QED
        BY <3>1, <4>3, <4>4, <4>5
    <3> QED
      BY <1>1, <2>1, <2>3, <3>1, WrittenRow
  <2> QED
    BY <1>1, <2>2, <2>3, WhoWrites DEF vars, store
<1>2. IInv /\ [Next]_vars =>
        [\A e \in Edges : validTo[e] # Absent /\ validTo[e] <= mark[e[1]] =>
            validTo'[e] = validTo[e] /\ txFrom'[e] = txFrom[e]]_vars
  BY <1>1
<1> QED
  BY <1>2, Invariant, PTL DEF Spec, SettledFactsAreFinal

\* Re-running a repository the store is level with adds no edge and moves no
\* bound of one.
THEOREM Idempotent == Spec => RerunIsIdempotent
<1>1. ASSUME IInv, [Next]_vars, NEW e \in Edges, mark[e[1]] = LastTs(git[e[1]])
      PROVE  validTo'[e] = validTo[e]
  <2>1. PICK r \in Repos, k \in Keys, f \in Times : e = <<r, k, f>> /\ e[1] = r
    BY DEF Edges
  <2>2. CASE UNCHANGED <<validTo, txFrom>>
    BY <2>2
  <2>3. ASSUME NEW w \in Writers, NEW acked \in BOOLEAN, UpsertResolves(w, acked)
        PROVE  validTo'[e] = validTo[e]
    <3>1. CASE /\ IsFact(Walked(r), k, f)
               /\ validTo'[<<r, k, f>>] > mark[r]
               /\ \E h \in 0 .. MaxTs :
                    h >= mark[r] /\ RightAt(Walked(r), h, validTo'[<<r, k, f>>], k, f)
      <4>1. IsFact(git[r], k, f) /\ Walked(r) = git[r] /\ f <= mark[r]
        BY <1>1, <2>1, <3>1, LevelFacts
      <4>2. validTo'[<<r, k, f>>] = ValidTo(git[r], k, f)
        BY <1>1, <2>1, <3>1, <4>1, LevelFacts
      <4>3. validTo[<<r, k, f>>] # Absent
        BY <1>1, <3>1, <4>1 DEF IInv, EdgesComplete
      <4>4. \E h \in 0 .. MaxTs :
                h >= mark[r] /\ RightAt(git[r], h, validTo[<<r, k, f>>], k, f)
        BY <1>1, <4>1, <4>3 DEF IInv, EdgesSound
      <4>5. validTo[<<r, k, f>>] = ValidTo(git[r], k, f)
        BY <1>1, <2>1, <4>1, <4>4, LevelFacts
      <4> QED
        BY <2>1, <4>2, <4>5
    <3> QED
      BY <1>1, <2>1, <2>3, <3>1, WrittenRow
  <2> QED
    BY <1>1, <2>2, <2>3, WhoWrites DEF vars, store
<1>2. IInv /\ [Next]_vars =>
        [\A e \in Edges : mark[e[1]] = LastTs(git[e[1]]) => validTo'[e] = validTo[e]]_vars
  BY <1>1
<1> QED
  BY <1>2, Invariant, PTL DEF Spec, RerunIsIdempotent

-----------------------------------------------------------------------------
(* Every edge is anchored.                                                 *)

LEMMA AnchorInit == Init => AnchorInv
BY DEF Init, AnchorInv, RowsAreAnchored, LinksHaveEnds, EveryEdgeIsAnchored, NoWork, Steps,
       ResolvesStep, Edges, Absent

\* Where no link or edge is written and no row is added.
LEMMA AnchorKeeps ==
    ASSUME AnchorInv, UNCHANGED <<nodes, links, validTo>>,
           \A w \in Writers :
              \/ pending'[w] = NoWork
              \/ /\ pending'[w][2] = pending[w][2] /\ pending'[w][3] = pending[w][3]
                 /\ pending'[w][5] = pending[w][5]
                 /\ pending'[w][ResolvesStep] \subseteq pending[w][ResolvesStep]
    PROVE  AnchorInv'
<1>1. ASSUME NEW w \in Writers
      PROVE  /\ pending'[w][5] \subseteq pending[w][5]
             /\ pending'[w][ResolvesStep] \subseteq pending[w][ResolvesStep]
             /\ pending'[w][5] # {} \/ pending'[w][ResolvesStep] # {} =>
                    /\ pending'[w][2] = pending[w][2] /\ pending'[w][3] = pending[w][3]
                    /\ pending'[w][5] = pending[w][5]
  BY DEF NoWork, Steps, ResolvesStep
<1>2. RowsAreAnchored'
  BY <1>1 DEF AnchorInv, RowsAreAnchored
<1>3. LinksHaveEnds' /\ EveryEdgeIsAnchored'
  BY DEF AnchorInv, LinksHaveEnds, EveryEdgeIsAnchored
<1> QED
  BY <1>2, <1>3 DEF AnchorInv

\* The links of a plan are of the versions it has nodes and packages for.
LEMMA AnchorStart ==
    ASSUME IInv, AnchorInv, NEW w \in Writers, SerialStart(w)
    PROVE  AnchorInv'
<1>1. PICK walk : Begin(w, walk)
  BY DEF SerialStart, Start
<1> DEFINE plan == Plan(walk)
           keys == {row.key : row \in ResolvesRows(walk)}
<1>2. /\ pending' = [pending EXCEPT ![w] = plan]
      /\ UNCHANGED <<nodes, links, validTo>>
  BY <1>1 DEF Begin, store
<1>3. \A v \in Writers : pending'[v] = IF v = w THEN plan ELSE pending[v]
  BY <1>2 DEF IInv, PendingShape
<1>4. /\ plan[2] = {PackageNode(p) : p \in {PackageOf[k] : k \in keys}}
      /\ plan[3] = {VersionNode(k) : k \in keys}
      /\ plan[5] = {VersionOf(k) : k \in keys}
      /\ plan[ResolvesStep] \subseteq ResolvesRows(walk)
  BY DEF Plan, ResolvesStep, FilterByWatermark
<1>5. keys \subseteq Keys
  BY DEF ResolvesRows, Intervals
<1> HIDE DEF plan, keys
<1>6. \A row \in plan[ResolvesStep] : VersionOf(row.key) \in plan[5]
  BY <1>4 DEF keys
<1>7. \A l \in plan[5] : \E k \in Keys :
        /\ l = VersionOf(k) /\ VersionNode(k) \in plan[3]
        /\ PackageNode(PackageOf[k]) \in plan[2]
  BY <1>4, <1>5
<1>8. RowsAreAnchored'
  BY <1>2, <1>3, <1>6, <1>7 DEF AnchorInv, RowsAreAnchored
<1>9. LinksHaveEnds' /\ EveryEdgeIsAnchored'
  BY <1>2 DEF AnchorInv, LinksHaveEnds, EveryEdgeIsAnchored
<1> QED
  BY <1>8, <1>9 DEF AnchorInv

LEMMA AnchorNodes ==
    ASSUME IInv, AnchorInv, NEW w \in Writers, NEW acked \in BOOLEAN, UpsertNodes(w, acked)
    PROVE  AnchorInv'
<1>1. PICK i \in NodeSteps :
        /\ AtStep(w, i)
        /\ \E part \in Parts(pending[w][i]) :
            nodes' = nodes \union part /\ Sent(w, i, part, acked)
        /\ UNCHANGED <<links, validTo>>
  BY DEF UpsertNodes
<1>2. PICK part \in Parts(pending[w][i]) :
        nodes' = nodes \union part /\ Sent(w, i, part, acked)
  BY <1>1
<1>3. i \in Steps /\ i # 5 /\ i # 7
  BY DEF NodeSteps, Steps
<1>4. /\ \A v \in Writers : v # w => pending'[v] = pending[v]
      /\ \A j \in Steps : j # i => pending'[w][j] = pending[w][j]
      /\ pending[w][i] \ part \subseteq pending'[w][i]
  BY <1>2, <1>3, SentRows DEF IInv
<1>5. ASSUME NEW v \in Writers
      PROVE  /\ nodes \union pending[v][2] \subseteq nodes' \union pending'[v][2]
             /\ nodes \union pending[v][3] \subseteq nodes' \union pending'[v][3]
             /\ pending'[v][5] = pending[v][5]
             /\ pending'[v][ResolvesStep] = pending[v][ResolvesStep]
  BY <1>2, <1>3, <1>4 DEF Steps, ResolvesStep
<1>6. RowsAreAnchored'
  <2> SUFFICES ASSUME NEW v \in Writers
               PROVE  /\ \A row \in pending[v][ResolvesStep] :
                            VersionOf(row.key) \in links \union pending[v][5]
                      /\ \A l \in pending[v][5] : \E k \in Keys :
                            /\ l = VersionOf(k)
                            /\ VersionNode(k) \in nodes' \union pending'[v][3]
                            /\ PackageNode(PackageOf[k]) \in nodes' \union pending'[v][2]
    BY <1>1, <1>5 DEF RowsAreAnchored
  <2> QED
    BY <1>5 DEF AnchorInv, RowsAreAnchored
<1>7. LinksHaveEnds' /\ EveryEdgeIsAnchored'
  BY <1>1, <1>2 DEF AnchorInv, LinksHaveEnds, EveryEdgeIsAnchored
<1> QED
  BY <1>6, <1>7 DEF AnchorInv

LEMMA AnchorLinks ==
    ASSUME IInv, AnchorInv, NEW w \in Writers, NEW acked \in BOOLEAN, UpsertLinks(w, acked)
    PROVE  AnchorInv'
<1>1. PICK i \in LinkSteps :
        /\ AtStep(w, i)
        /\ \E part \in Parts(pending[w][i]) :
            /\ links' = links \union {l \in part : l[1] \in nodes /\ l[2] \in nodes}
            /\ Sent(w, i, part, acked)
        /\ UNCHANGED <<nodes, validTo>>
  BY DEF UpsertLinks
<1>2. PICK part \in Parts(pending[w][i]) :
        /\ links' = links \union {l \in part : l[1] \in nodes /\ l[2] \in nodes}
        /\ Sent(w, i, part, acked)
  BY <1>1
<1>3. i \in Steps /\ i \in {5, 6}
  BY DEF LinkSteps, Steps
<1>4. /\ \A v \in Writers : v # w => pending'[v] = pending[v]
      /\ \A j \in Steps : j # i => pending'[w][j] = pending[w][j]
      /\ part \subseteq pending[w][i]
      /\ pending'[w][i] \subseteq pending[w][i]
      /\ pending[w][i] \ part \subseteq pending'[w][i]
  BY <1>2, <1>3, SentRows DEF IInv
<1>5. \A v \in Writers : /\ pending'[v][2] = pending[v][2] /\ pending'[v][3] = pending[v][3]
                         /\ pending'[v][5] \subseteq pending[v][5]
                         /\ pending'[v][ResolvesStep] = pending[v][ResolvesStep]
  BY <1>3, <1>4 DEF Steps, ResolvesStep
<1>6. \A v \in Writers : links \union pending[v][5] \subseteq links' \union pending'[v][5]
  <2> SUFFICES ASSUME NEW v \in Writers, NEW l \in pending[v][5], l \notin pending'[v][5]
               PROVE  l \in links'
    BY <1>2
  <2>1. v = w /\ i = 5 /\ l \in part
    BY <1>3, <1>4 DEF Steps
  <2>2. pending[w][2] = {} /\ pending[w][3] = {}
    BY <1>1, <2>1 DEF AtStep, Steps
  <2>3. PICK k \in Keys : /\ l = VersionOf(k)
                          /\ VersionNode(k) \in nodes
                          /\ PackageNode(PackageOf[k]) \in nodes
    BY <2>1, <2>2 DEF AnchorInv, RowsAreAnchored
  <2>4. l[1] \in nodes /\ l[2] \in nodes
    BY <2>3 DEF VersionOf
  <2> QED
    BY <1>2, <2>1, <2>4
<1>7. RowsAreAnchored'
  <2> SUFFICES ASSUME NEW v \in Writers
               PROVE  /\ \A row \in pending[v][ResolvesStep] :
                            VersionOf(row.key) \in links' \union pending'[v][5]
                      /\ \A l \in pending'[v][5] : \E k \in Keys :
                            /\ l = VersionOf(k)
                            /\ VersionNode(k) \in nodes \union pending[v][3]
                            /\ PackageNode(PackageOf[k]) \in nodes \union pending[v][2]
    BY <1>1, <1>5 DEF RowsAreAnchored
  <2> QED
    BY <1>5, <1>6 DEF AnchorInv, RowsAreAnchored
<1>8. LinksHaveEnds'
  BY <1>1, <1>2 DEF AnchorInv, LinksHaveEnds
<1>9. EveryEdgeIsAnchored'
  BY <1>1, <1>2 DEF AnchorInv, EveryEdgeIsAnchored
<1> QED
  BY <1>7, <1>8, <1>9 DEF AnchorInv

\* A RESOLVES row is sent when its links and nodes have been.
LEMMA AnchorResolves ==
    ASSUME IInv, AnchorInv, NEW w \in Writers, NEW acked \in BOOLEAN, UpsertResolves(w, acked)
    PROVE  AnchorInv'
<1>1. PICK part \in Parts(pending[w][ResolvesStep]) :
        /\ validTo' = [e \in Edges |->
                        IF RowsFor(part, e) # {}
                        THEN (CHOOSE row \in RowsFor(part, e) : TRUE).vt
                        ELSE validTo[e]]
        /\ Sent(w, ResolvesStep, part, acked)
  BY DEF UpsertResolves
<1>2. AtStep(w, ResolvesStep) /\ UNCHANGED <<nodes, links>>
  BY DEF UpsertResolves
<1>3. /\ \A v \in Writers : v # w => pending'[v] = pending[v]
      /\ \A j \in Steps : j # ResolvesStep => pending'[w][j] = pending[w][j]
      /\ part \subseteq pending[w][ResolvesStep]
      /\ pending'[w][ResolvesStep] \subseteq pending[w][ResolvesStep]
  <2>1. ResolvesStep \in Steps
    BY DEF ResolvesStep, Steps
  <2> QED
    BY <1>1, <2>1, SentRows DEF IInv
<1>4. \A v \in Writers : /\ pending'[v][2] = pending[v][2] /\ pending'[v][3] = pending[v][3]
                         /\ pending'[v][5] = pending[v][5]
                         /\ pending'[v][ResolvesStep] \subseteq pending[v][ResolvesStep]
  BY <1>3 DEF Steps, ResolvesStep
<1>5. RowsAreAnchored' /\ LinksHaveEnds'
  BY <1>2, <1>4 DEF AnchorInv, RowsAreAnchored, LinksHaveEnds
<1>6. EveryEdgeIsAnchored'
  <2> SUFFICES ASSUME NEW r \in Repos, NEW k \in Keys, NEW f \in Times,
                      validTo'[<<r, k, f>>] # Absent
               PROVE  /\ {RepoNode(r), VersionNode(k), PackageNode(PackageOf[k])} \subseteq nodes
                      /\ VersionOf(k) \in links
    BY <1>2 DEF EveryEdgeIsAnchored
  <2>1. CASE RowsFor(part, <<r, k, f>>) = {}
    BY <1>1, <2>1 DEF Edges, AnchorInv, EveryEdgeIsAnchored
  <2>2. CASE RowsFor(part, <<r, k, f>>) # {}
    <3>1. PICK row \in part : /\ row.repo = r /\ row.key = k
                              /\ RepoNode(row.repo) \in nodes /\ VersionNode(row.key) \in nodes
      BY <2>2 DEF RowsFor
    <3>2. pending[w][5] = {}
      BY <1>2 DEF AtStep, Steps, ResolvesStep
    <3>3. VersionOf(k) \in links
      BY <1>3, <3>1, <3>2 DEF AnchorInv, RowsAreAnchored
    <3>4. VersionOf(k)[2] = PackageNode(PackageOf[k])
      BY DEF VersionOf
    <3> QED
      BY <3>1, <3>3, <3>4 DEF AnchorInv, LinksHaveEnds
  <2> QED
    BY <2>1, <2>2
<1> QED
  BY <1>5, <1>6 DEF AnchorInv

LEMMA AnchorNext ==
    ASSUME IInv, AnchorInv, [Next]_vars
    PROVE  AnchorInv'
<1>1. ASSUME NEW r \in Repos, Commit(r) PROVE AnchorInv'
  BY <1>1, AnchorKeeps DEF Commit, store
<1>2. CASE Tick
  BY <1>2, AnchorKeeps DEF Tick, store
<1>3. ASSUME NEW w \in Writers, SerialStart(w) PROVE AnchorInv'
  BY <1>3, AnchorStart
<1>4. ASSUME NEW w \in Writers, NEW acked \in BOOLEAN, WriteWatermarks(w, acked) PROVE AnchorInv'
  <2>1. PICK part \in Parts(pending[w][WatermarkStep]) : Sent(w, WatermarkStep, part, acked)
    BY <1>4 DEF WriteWatermarks
  <2>2. WatermarkStep \in Steps
    BY DEF WatermarkStep, Steps
  <2>3. \A v \in Writers : /\ pending'[v][2] = pending[v][2] /\ pending'[v][3] = pending[v][3]
                           /\ pending'[v][5] = pending[v][5]
                           /\ pending'[v][ResolvesStep] = pending[v][ResolvesStep]
    BY <2>1, <2>2, SentRows DEF IInv, Steps, WatermarkStep, ResolvesStep
  <2> QED
    BY <1>4, <2>3, AnchorKeeps DEF WriteWatermarks
<1>5. ASSUME NEW w \in Writers, NEW acked \in BOOLEAN, Write(w, acked) PROVE AnchorInv'
  BY <1>4, <1>5, AnchorNodes, AnchorLinks, AnchorResolves DEF Write
<1>6. ASSUME NEW w \in Writers, Crash(w) PROVE AnchorInv'
  <2>1. \A v \in Writers : pending'[v] = IF v = w THEN NoWork ELSE pending[v]
    BY <1>6 DEF Crash, IInv, PendingShape
  <2> QED
    BY <1>6, <2>1, AnchorKeeps DEF Crash, store
<1>7. CASE UNCHANGED vars
  BY <1>7, AnchorKeeps DEF vars, store
<1> QED
  BY <1>1, <1>2, <1>3, <1>5, <1>6, <1>7 DEF Next, Running

\* Every RESOLVES edge can be reached from its package: its nodes and its version's
\* link are in the store, whatever batches were repeated and wherever a run died.
THEOREM EdgesAnchored == Spec => []EveryEdgeIsAnchored
<1>1. AnchorInv => EveryEdgeIsAnchored
  BY DEF AnchorInv
<1> QED
  BY <1>1, AnchorInit, AnchorNext, Invariant, PTL DEF Spec

-----------------------------------------------------------------------------
(* The store is a ledger.                                                  *)

\* A commit lands beyond everything a watermark covers.
LEMMA CoveredPastStays ==
    ASSUME IInv, [Next]_vars, NEW r \in Repos, NEW t \in Times, t <= mark[r]
    PROVE  ResolvedAsOf(git'[r], t) = ResolvedAsOf(git[r], t)
<1>1. ASSUME NEW q \in Repos, Commit(q)
      PROVE  ResolvedAsOf(git'[r], t) = ResolvedAsOf(git[r], t)
  <2>1. PICK c \in Commits : c.ts > seen[q] /\ git' = [git EXCEPT ![q] = @ \union {c}]
    BY <1>1 DEF Commit
  <2>2. git'[r] = IF r = q THEN git[r] \union {c} ELSE git[r]
    BY <2>1 DEF IInv, TypeOK
  <2>3. q = r => ~(c.ts <= t)
    <3>1. mark[r] <= seen[r] /\ mark[r] \in -1 .. MaxTs /\ seen[r] \in 0 .. MaxTs
      BY DEF IInv, TypeOK, MarkBehindWalk
    <3> QED
      BY <2>1, <3>1, CommitTypes DEF Times
  <2> QED
    BY <2>2, <2>3 DEF ResolvedAsOf
<1>2. UNCHANGED git \/ \E q \in Repos : Commit(q)
  BY DEF Next, Commit, Tick, SerialStart, Start, Begin, Running, Write, Crash, UpsertNodes,
         UpsertLinks, UpsertResolves, WriteWatermarks, vars
<1> QED
  BY <1>1, <1>2

\* What the store answers at a covered second stays what it answers.
LEMMA AnswerStays ==
    ASSUME IInv, IInv', [Next]_vars, NEW r \in Repos, NEW t \in Times, t <= mark[r]
    PROVE  t <= mark'[r] /\ ResolvedInStore(r, t)' = ResolvedInStore(r, t)
<1>1. mark[r] \in -1 .. MaxTs /\ mark'[r] \in -1 .. MaxTs /\ t \in Nat
  BY ValidTimeAssumption DEF IInv, TypeOK, Times
<1>2. t <= mark'[r]
  BY <1>1, MarkAdvances
<1>3. ResolvedInStore(r, t) = ResolvedAsOf(git[r], t)
  BY CoveredPastLemma DEF CoveredPastIsExact
<1>4. CoveredPastIsExact'
  BY CoveredPastLemma, PTL
<1>5. ResolvedInStore(r, t)' = ResolvedAsOf(git'[r], t)
  BY <1>2, <1>4 DEF CoveredPastIsExact
<1> QED
  BY <1>2, <1>3, <1>5, CoveredPastStays

\* The store implements Ledger: the horizon of a repository, its watermark, only
\* advances, and what the AS-OF read says of a second behind it is never revised.
THEOREM WriteOnce == Spec => AnswersAreWriteOnce
<1> DEFINE h == [r \in Repos |-> IF mark[r] = None THEN 0 ELSE mark[r]]
           a == [r \in Repos |-> [t \in Times |->
                    IF t <= mark[r] THEN {ResolvedInStore(r, t)} ELSE {}]]
<1>1. Init => Covered!Init
  <2> SUFFICES ASSUME Init PROVE Covered!Init
    OBVIOUS
  <2>1. h = [r \in Repos |-> 0]
    BY DEF Init
  <2>2. a = [r \in Repos |-> [t \in Times |-> {}]]
    BY DEF Init, None, Times
  <2> QED
    BY <2>1, <2>2 DEF Covered!Init
<1>2. IInv /\ IInv' /\ [Next]_vars => [Covered!Publish]_(Covered!vars)
  <2> SUFFICES ASSUME IInv, IInv', [Next]_vars
               PROVE  Covered!Publish
    OBVIOUS
  <2> USE ValidTimeAssumption
  <2>1. \A r \in Repos : mark[r] \in -1 .. MaxTs /\ mark'[r] \in -1 .. MaxTs /\ mark'[r] >= mark[r]
    BY MarkAdvances DEF IInv, TypeOK
  <2>2. h' \in [Repos -> Times \union {0}]
    BY <2>1 DEF None, Times
  <2>3. a' \in [Repos -> [Times -> {{keys} : keys \in SUBSET Keys} \union {{}}]]
    BY DEF ResolvedInStore
  <2>4. ASSUME NEW r \in Repos
        PROVE  /\ h'[r] >= h[r]
               /\ \A t \in Times : /\ t <= h[r] => a'[r][t] = a[r][t]
                                   /\ t > h'[r] <=> a'[r][t] = {}
    <3>1. h'[r] >= h[r]
      BY <2>1 DEF None
    <3>2. ASSUME NEW t \in Times, t <= h[r]
          PROVE  a'[r][t] = a[r][t]
      <4>1. t <= mark[r]
        BY <2>1, <3>2 DEF None, Times
      <4> QED
        BY <4>1, AnswerStays
    <3>3. ASSUME NEW t \in Times
          PROVE  t > h'[r] <=> a'[r][t] = {}
      BY <2>1 DEF None, Times
    <3> QED
      BY <3>1, <3>2, <3>3
  <2> QED
    BY <2>2, <2>3, <2>4 DEF Covered!Publish
<1> QED
  BY <1>1, <1>2, Invariant, PTL DEF Spec, AnswersAreWriteOnce, Covered!Spec

-----------------------------------------------------------------------------
(* The store is a dataset, for every version and every instant.            *)

LEMMA ListedInit == Init => ListedInv
BY DEF Init, ListedInv, NoWork, Steps, WatermarkStep

\* A repository a plan leaves out for being stale has a watermark already.
LEMMA ListedStart ==
    ASSUME IInv, ListedInv, NEW w \in Writers, SerialStart(w)
    PROVE  ListedInv'
<1>1. PICK walk :
        /\ Begin(w, walk) /\ DOMAIN walk \subseteq Repos
        /\ \A r \in DOMAIN walk : \E u \in 0 .. MaxTs : walk[r] = UpTo(git[r], u)
  BY DEF SerialStart, Start
<1> DEFINE plan == Plan(walk)
<1>2. /\ pending' = [pending EXCEPT ![w] = plan]
      /\ UNCHANGED <<nodes, mark>>
  BY <1>1 DEF Begin, store
<1>3. \A v \in Writers : pending'[v] = IF v = w THEN plan ELSE pending[v]
  BY <1>2 DEF IInv, PendingShape
<1>4. /\ plan[1] = {RepoNode(r) : r \in DOMAIN walk \ StaleRepos(walk)}
      /\ \A m \in plan[WatermarkStep] : m.repo \in DOMAIN walk
  BY DEF Plan, WatermarkStep
<1> HIDE DEF plan
<1>5. ASSUME NEW r \in StaleRepos(walk)
      PROVE  RepoNode(r) \in nodes
  <2>1. r \in DOMAIN walk /\ r \in Repos /\ WalkedTo(walk, r) < mark[r]
    BY <1>1 DEF StaleRepos
  <2>2. WalkedTo(walk, r) \in 0 .. MaxTs
    <3>1. git[r] \subseteq Commits /\ \A c \in git[r] : c.entries # {}
      BY <2>1 DEF IInv, TypeOK, HistoriesOK
    <3> QED
      BY <1>1, <2>1, <3>1, WalkEndsAtItsLastCommit DEF WalkedTo
  <2>3. mark[r] # None
    BY <2>1, <2>2 DEF None, IInv, TypeOK
  <2> QED
    BY <2>1, <2>3 DEF ListedInv
<1>6. \A m \in plan[WatermarkStep] : RepoNode(m.repo) \in nodes \union plan[1]
  BY <1>4, <1>5
<1> QED
  BY <1>2, <1>3, <1>6 DEF ListedInv

LEMMA ListedNodes ==
    ASSUME IInv, ListedInv, NEW w \in Writers, NEW acked \in BOOLEAN, UpsertNodes(w, acked)
    PROVE  ListedInv'
<1>1. PICK i \in NodeSteps :
        /\ AtStep(w, i)
        /\ \E part \in Parts(pending[w][i]) :
            nodes' = nodes \union part /\ Sent(w, i, part, acked)
        /\ UNCHANGED mark
  BY DEF UpsertNodes
<1>2. PICK part \in Parts(pending[w][i]) :
        nodes' = nodes \union part /\ Sent(w, i, part, acked)
  BY <1>1
<1>3. i \in Steps /\ i # 8
  BY DEF NodeSteps, Steps
<1>4. /\ \A v \in Writers : v # w => pending'[v] = pending[v]
      /\ \A j \in Steps : j # i => pending'[w][j] = pending[w][j]
      /\ pending[w][i] \ part \subseteq pending'[w][i]
  BY <1>2, <1>3, SentRows DEF IInv
<1>5. \A v \in Writers :
        /\ nodes \union pending[v][1] \subseteq nodes' \union pending'[v][1]
        /\ pending'[v][WatermarkStep] = pending[v][WatermarkStep]
  BY <1>2, <1>3, <1>4 DEF Steps, WatermarkStep
<1> QED
  BY <1>1, <1>2, <1>5 DEF ListedInv

LEMMA ListedWatermarks ==
    ASSUME IInv, ListedInv, NEW w \in Writers, NEW acked \in BOOLEAN, WriteWatermarks(w, acked)
    PROVE  ListedInv'
<1>1. PICK part \in Parts(pending[w][WatermarkStep]) :
        /\ mark' = [r \in Repos |->
                        IF \E m \in part : m.repo = r
                        THEN (CHOOSE m \in part : m.repo = r).last
                        ELSE mark[r]]
        /\ Sent(w, WatermarkStep, part, acked)
  BY DEF WriteWatermarks
<1>2. AtStep(w, WatermarkStep) /\ UNCHANGED nodes
  BY DEF WriteWatermarks
<1>3. /\ \A v \in Writers : v # w => pending'[v] = pending[v]
      /\ \A j \in Steps : j # WatermarkStep => pending'[w][j] = pending[w][j]
      /\ part \subseteq pending[w][WatermarkStep]
      /\ pending'[w][WatermarkStep] \subseteq pending[w][WatermarkStep]
  <2>1. WatermarkStep \in Steps
    BY DEF WatermarkStep, Steps
  <2> QED
    BY <1>1, <2>1, SentRows DEF IInv
<1>4. pending[w][1] = {}
  BY <1>2 DEF AtStep, Steps, WatermarkStep
<1>5. \A m \in part : RepoNode(m.repo) \in nodes
  BY <1>3, <1>4 DEF ListedInv
<1>6. \A r \in Repos : mark'[r] # None => RepoNode(r) \in nodes'
  BY <1>1, <1>2, <1>5 DEF ListedInv
<1>7. \A v \in Writers : /\ pending'[v][1] = pending[v][1]
                         /\ pending'[v][WatermarkStep] \subseteq pending[v][WatermarkStep]
  BY <1>3 DEF Steps, WatermarkStep
<1> QED
  BY <1>2, <1>6, <1>7 DEF ListedInv

LEMMA ListedNext ==
    ASSUME IInv, ListedInv, [Next]_vars
    PROVE  ListedInv'
<1>1. ASSUME UNCHANGED <<nodes, mark>>,
             \A v \in Writers :
                \/ pending'[v] = NoWork
                \/ /\ pending'[v][1] = pending[v][1]
                   /\ pending'[v][WatermarkStep] = pending[v][WatermarkStep]
      PROVE  ListedInv'
  <2>1. \A v \in Writers : pending'[v][WatermarkStep] = {} \/
            (/\ pending'[v][1] = pending[v][1]
             /\ pending'[v][WatermarkStep] = pending[v][WatermarkStep])
    BY <1>1 DEF NoWork, Steps, WatermarkStep
  <2> QED
    BY <1>1, <2>1 DEF ListedInv
<1>2. ASSUME NEW r \in Repos, Commit(r) PROVE ListedInv'
  BY <1>1, <1>2 DEF Commit, store
<1>3. CASE Tick
  BY <1>1, <1>3 DEF Tick, store
<1>4. ASSUME NEW w \in Writers, SerialStart(w) PROVE ListedInv'
  BY <1>4, ListedStart
<1>5. ASSUME NEW w \in Writers, NEW acked \in BOOLEAN, NEW i \in 5 .. 7,
             NEW part \in Parts(pending[w][i]), Sent(w, i, part, acked), UNCHANGED <<nodes, mark>>
      PROVE  ListedInv'
  <2>1. i \in Steps /\ i # 1 /\ i # 8
    BY DEF Steps
  <2>2. \A v \in Writers : /\ pending'[v][1] = pending[v][1]
                           /\ pending'[v][WatermarkStep] = pending[v][WatermarkStep]
    BY <1>5, <2>1, SentRows DEF IInv, Steps, WatermarkStep
  <2> QED
    BY <1>1, <1>5, <2>2
<1>6. ASSUME NEW w \in Writers, NEW acked \in BOOLEAN, UpsertLinks(w, acked) PROVE ListedInv'
  BY <1>5, <1>6 DEF UpsertLinks, LinkSteps
<1>7. ASSUME NEW w \in Writers, NEW acked \in BOOLEAN, UpsertResolves(w, acked) PROVE ListedInv'
  BY <1>5, <1>7 DEF UpsertResolves, ResolvesStep
<1>8. ASSUME NEW w \in Writers, NEW acked \in BOOLEAN, Write(w, acked) PROVE ListedInv'
  BY <1>6, <1>7, <1>8, ListedNodes, ListedWatermarks DEF Write
<1>9. ASSUME NEW w \in Writers, Crash(w) PROVE ListedInv'
  <2>1. \A v \in Writers : pending'[v] = IF v = w THEN NoWork ELSE pending[v]
    BY <1>9 DEF Crash, IInv, PendingShape
  <2> QED
    BY <1>1, <1>9, <2>1 DEF Crash, store
<1>10. CASE UNCHANGED vars
  BY <1>1, <1>10 DEF vars, store
<1> QED
  BY <1>2, <1>3, <1>4, <1>8, <1>9, <1>10 DEF Next, Running

\* Nothing is deleted.
LEMMA NodesGrow ==
    ASSUME [Next]_vars
    PROVE  nodes \subseteq nodes'
BY DEF Next, Commit, Tick, SerialStart, Start, Begin, Running, Write, Crash, UpsertNodes,
       UpsertLinks, UpsertResolves, WriteWatermarks, store, vars

\* All that the writer's promises rest on holds in every reachable state.
THEOREM WholeInvariant == Spec => []WriterInv
<1>1. IInv /\ AnchorInv /\ ListedInv => WriterInv
  BY DEF WriterInv
<1> QED
  BY <1>1, Invariant, AnchorInit, AnchorNext, ListedInit, ListedNext, PTL DEF Spec

\* Every step of the writer is a step the readers of the dataset reckon with.
LEMMA GrowStep ==
    ASSUME IInv, IInv', ListedInv, ListedInv', AnchorInv', [Next]_vars,
           NEW k \in Keys, NEW t \in Times
    PROVE  ReadAt(k, t)!Grow
<1> USE ValidTimeAssumption
<1> DEFINE truth    == {r \in Repos : k \in ResolvedAsOf(git[r], t)}
           listed   == {r \in Repos : RepoNode(r) \in nodes}
           known    == VersionNode(k) \in nodes
           resolved == {r \in Repos : k \in ResolvedInStore(r, t)}
           marked   == {r \in Repos : mark[r] # None}
           covered  == {r \in Repos : mark[r] >= t}
<1>1. ASSUME NEW r \in Repos
      PROVE  mark[r] \in -1 .. MaxTs /\ mark'[r] \in -1 .. MaxTs /\ mark'[r] >= mark[r]
  BY MarkAdvances DEF IInv, TypeOK
<1>2. t \in Nat /\ t >= 1
  BY DEF Times
<1>3. truth' \intersect covered = truth \intersect covered
  BY <1>1, <1>2, CoveredPastStays
<1>4. listed \subseteq listed' /\ (known => known')
  BY NodesGrow
<1>5. marked' \subseteq listed'
  BY DEF ListedInv
<1>6. marked \subseteq marked' /\ covered' \subseteq marked' /\ covered \subseteq covered'
  BY <1>1, <1>2 DEF None
<1>7. ASSUME NEW r \in resolved'
      PROVE  known' /\ r \in listed'
  <2>1. PICK f \in Times : validTo'[<<r, k, f>>] > t
    BY <1>7 DEF ResolvedInStore
  <2>2. validTo'[<<r, k, f>>] # Absent
    BY <1>2, <2>1 DEF Absent
  <2> QED
    BY <2>2 DEF AnchorInv, EveryEdgeIsAnchored
<1>8. resolved' \intersect covered' = truth' \intersect covered'
  <2>1. CoveredPastIsExact'
    BY CoveredPastLemma, PTL
  <2>2. ASSUME NEW r \in Repos, mark'[r] >= t
        PROVE  k \in ResolvedInStore(r, t)' <=> k \in ResolvedAsOf(git'[r], t)
    BY <1>1, <1>2, <2>1, <2>2 DEF CoveredPastIsExact
  <2> QED
    BY <2>2
<1>9. known' \in BOOLEAN /\ truth' \in SUBSET Repos /\ listed' \in SUBSET Repos
  OBVIOUS
<1>10. resolved' \in (IF known' THEN SUBSET listed' ELSE {{}})
  BY <1>7
<1> QED
  BY <1>3, <1>4, <1>5, <1>6, <1>8, <1>9, <1>10 DEF ReadAt!Grow

\* For every version and every instant, the store is a dataset as the readers take
\* it to be: an upsert only adds nodes, every edge is anchored at them, a watermark
\* follows its repository's node, and what is covered is what git says.
THEOREM SeenAsADataset == Spec => ReadersSeeADataset
<1>1. ASSUME Init, NEW k \in Keys, NEW t \in Times
      PROVE  ReadAt(k, t)!EmptyDataset
  <2>1. \A r \in Repos : ResolvedAsOf(git[r], t) = {}
    BY <1>1 DEF Init, ResolvedAsOf
  <2>2. ASSUME NEW r \in Repos PROVE ResolvedInStore(r, t) = {}
    <3>1. \A j \in Keys : \A f \in Times : validTo[<<r, j, f>>] = 0
      BY <1>1 DEF Init, Edges, Absent
    <3>2. ~(0 > t)
      BY ValidTimeAssumption DEF Times
    <3> QED
      BY <3>1, <3>2 DEF ResolvedInStore
  <2>3. \A r \in Repos : mark[r] = -1 /\ ~(-1 >= t)
    BY <1>1, ValidTimeAssumption DEF Init, None, Times
  <2> QED
    BY <1>1, <2>1, <2>2, <2>3 DEF Init, None, ReadAt!EmptyDataset
<1>2. Init => \A k \in Keys : \A t \in Times : ReadAt(k, t)!EmptyDataset
  BY <1>1
<1>3. IInv /\ IInv' /\ ListedInv /\ ListedInv' /\ AnchorInv' /\ [Next]_vars =>
        [\A k \in Keys : \A t \in Times :
            [ReadAt(k, t)!Grow]_(ReadAt(k, t)!dataset)]_vars
  BY GrowStep
<1> QED
  BY <1>2, <1>3, Invariant, AnchorInit, AnchorNext, ListedInit, ListedNext, PTL
     DEF Spec, ReadersSeeADataset
=============================================================================
