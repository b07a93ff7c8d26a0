---------------------------- MODULE McpServerProofs ----------------------------
(***************************************************************************)
(* What the agent's tools say is so, for any finite set of repositories,   *)
(* any page, any lifetime of the cache and any writes between the reads.   *)
(***************************************************************************)
EXTENDS McpServer, FiniteSetTheorems, TLAPS

-----------------------------------------------------------------------------
(* The inductive invariant.                                                *)

\* The call has made this read.
Done(read) ==
    \E i \in 1 .. Len(Reads(call.tool)) : i < call.step /\ Reads(call.tool)[i] = read

Notes == {"none", "empty_dataset", "no_ingested_history", "unverified", "never ingested", "never", "negative"}

CallTypes ==
    call \in [tool : Tools \union {"none"}, step : Nat \ {0}, repos : Nat, marks : Nat,
              exists : BOOLEAN, read : SUBSET Repos, rows : SUBSET Repos, cut : BOOLEAN,
              note : Notes,
              atStart : [time : Nat, covered : SUBSET Repos, repos : Nat, marks : Nat]]

CacheTypes ==
    /\ clock \in 0 .. MaxTime
    /\ cache \in [Counts -> [count : Nat, at : Int]]
    /\ seen \in [0 .. MaxTime -> [Counts -> Nat]]

\* A cached count is of something that was there, no earlier than the ticks that
\* had ended when it was read.
CacheOK ==
    \A c \in Counts :
        /\ cache[c].count <= Count(c)
        /\ cache[c].at \in -1 .. clock
        /\ \A t \in 0 .. MaxTime : t < cache[c].at => seen[t][c] <= cache[c].count

SeenOK == \A t \in 0 .. MaxTime : \A c \in Counts : seen[t][c] <= Count(c)

\* What was noted when the question was asked has not been taken back.
StartOK ==
    /\ call.atStart.time <= clock
    /\ call.atStart.covered \subseteq covered
    /\ call.atStart.repos <= Count("repos")
    /\ call.atStart.marks <= Count("marks")

CountsRead ==
    \A c \in Counts : Done(c) =>
        /\ call[c] <= Count(c)
        /\ call[c] = 0 => call.atStart[c] = 0
        /\ \A t \in LongBefore : seen[t][c] <= call[c]

\* A version that had no node had no row, so it was absent where it was covered.
NodeRead == Done("node") /\ ~call.exists => call.atStart.covered \intersect truth = {}

RowsRead ==
    /\ call.rows \subseteq call.read
    /\ Cardinality(call.rows) <= MaxRows
    /\ ~Done("rows") => call.read = {}
    /\ Done("rows") /\ ~call.cut =>
        /\ call.rows = call.read
        /\ call.rows = {} => call.atStart.covered \intersect truth = {}

NoteOK == call.note = IF Answered THEN Note(call) ELSE "none"

ServerInv ==
    /\ DatasetOK
    /\ CallTypes
    /\ CacheTypes
    /\ CacheOK
    /\ SeenOK
    /\ StartOK
    /\ CountsRead
    /\ NodeRead
    /\ RowsRead
    /\ NoteOK

-----------------------------------------------------------------------------
(* Counts and the dataset.                                                 *)

\* A count of a larger set is no smaller, and of nothing it is nothing.
LEMMA CountOf ==
    ASSUME NEW S, NEW T, S \subseteq T, T \subseteq Repos
    PROVE  /\ Cardinality(S) \in Nat /\ Cardinality(T) \in Nat
           /\ Cardinality(S) <= Cardinality(T)
           /\ Cardinality(S) = Cardinality(T) => S = T
           /\ Cardinality(T) = 0 <=> T = {}
<1>1. IsFiniteSet(T) /\ IsFiniteSet(S)
  BY McpAssumption, FS_Subset
<1> QED
  BY <1>1, FS_Subset, FS_CardinalityType, FS_EmptySet

LEMMA CountTypes ==
    ASSUME DatasetOK, NEW c \in Counts
    PROVE  Count(c) \in Nat
BY CountOf DEF DatasetOK, Count

\* What the dataset takes back is only what was not covered.
LEMMA GrowKeeps ==
    ASSUME DatasetOK, Grow
    PROVE  /\ DatasetOK'
           /\ listed \subseteq listed' /\ marked \subseteq marked' /\ covered \subseteq covered'
           /\ \A S \in SUBSET covered : S \intersect truth' = S \intersect truth
           /\ \A c \in Counts :
                Count(c) \in Nat /\ Count(c)' \in Nat /\ Count(c) <= Count(c)'
<1>1. DatasetOK'
  BY DEF DatasetOK, Grow
<1>2. listed \subseteq listed' /\ marked \subseteq marked' /\ covered \subseteq covered'
  BY DEF Grow
<1>3. \A S \in SUBSET covered : S \intersect truth' = S \intersect truth
  BY DEF Grow
<1>4. listed' \subseteq Repos /\ marked' \subseteq Repos
  BY <1>1 DEF DatasetOK
<1>5. /\ Cardinality(listed) \in Nat /\ Cardinality(listed') \in Nat
      /\ Cardinality(marked) \in Nat /\ Cardinality(marked') \in Nat
      /\ Cardinality(listed) <= Cardinality(listed')
      /\ Cardinality(marked) <= Cardinality(marked')
  BY <1>2, <1>4, CountOf
<1> QED
  BY <1>1, <1>2, <1>3, <1>5 DEF Counts, Count

\* Where nothing resolves the version, no covered repository does.
LEMMA NothingResolved ==
    ASSUME DatasetOK, resolved = {}
    PROVE  covered \intersect truth = {}
BY DEF DatasetOK

-----------------------------------------------------------------------------
(* Calls.                                                                  *)

\* Every tool reads both counts, and what its verdicts rest on.
LEMMA ReadsOf ==
    ASSUME NEW tool \in Tools
    PROVE  /\ Len(Reads(tool)) \in 3 .. 5
           /\ \A read \in {"repos", "marks"} :
                \E i \in 1 .. Len(Reads(tool)) : Reads(tool)[i] = read
           /\ \E i \in 1 .. Len(Reads(tool)) : Reads(tool)[i] = "node"
           /\ tool = "exposure" => \E i \in 1 .. Len(Reads(tool)) : Reads(tool)[i] = "rows"
           /\ \A i, j \in 1 .. Len(Reads(tool)) :
                Reads(tool)[i] = "owned" /\ Reads(tool)[j] = "rows" => i < j
<1>1. CASE tool = "resolve"
  <2>1. Reads(tool) = <<"node", "repos", "marks">>
    BY <1>1 DEF Reads
  <2>2. Len(Reads(tool)) = 3 /\ Reads(tool)[1] = "node" /\ Reads(tool)[2] = "repos" /\ Reads(tool)[3] = "marks"
    BY <2>1
  <2> QED
    BY <1>1, <2>2
<1>2. CASE tool = "reach"
  <2>1. Reads(tool) = <<"repos", "marks", "node", "owned", "rows">>
    BY <1>2 DEF Reads
  <2>2. /\ Len(Reads(tool)) = 5 /\ Reads(tool)[1] = "repos" /\ Reads(tool)[2] = "marks"
        /\ Reads(tool)[3] = "node" /\ Reads(tool)[4] = "owned" /\ Reads(tool)[5] = "rows"
    BY <2>1
  <2> QED
    BY <1>2, <2>2
<1>3. CASE tool = "exposure"
  <2>1. Reads(tool) = <<"repos", "marks", "node", "rows">>
    BY <1>3 DEF Reads
  <2>2. /\ Len(Reads(tool)) = 4 /\ Reads(tool)[1] = "repos" /\ Reads(tool)[2] = "marks"
        /\ Reads(tool)[3] = "node" /\ Reads(tool)[4] = "rows"
    BY <2>1
  <2> QED
    BY <1>3, <2>2
<1> QED
  BY <1>1, <1>2, <1>3 DEF Tools

\* A call that has done its read is one step on, and the note is taken last.
LEMMA Advances ==
    ASSUME CallTypes, NoteOK, Asking,
           NEW c \in [tool : {call.tool}, step : {call.step}, repos : Nat, marks : Nat,
                      exists : BOOLEAN, read : SUBSET Repos, rows : SUBSET Repos, cut : BOOLEAN,
                      note : {call.note}, atStart : {call.atStart}],
           Advance(c)
    PROVE  /\ CallTypes' /\ NoteOK'
           /\ call'.tool = c.tool /\ call'.repos = c.repos /\ call'.marks = c.marks
           /\ call'.exists = c.exists /\ call'.read = c.read /\ call'.rows = c.rows
           /\ call'.cut = c.cut /\ call'.atStart = call.atStart
           /\ \A read : Done(read)' <=> Done(read) \/ read = NextRead
<1> DEFINE d == [c EXCEPT !.step = @ + 1]
           e == [d EXCEPT !.note = Note(d)]
<1>1. /\ d.tool = c.tool /\ d.step = c.step + 1 /\ d.repos = c.repos /\ d.marks = c.marks
      /\ d.exists = c.exists /\ d.read = c.read /\ d.rows = c.rows /\ d.cut = c.cut
      /\ d.note = c.note /\ d.atStart = c.atStart
  OBVIOUS
<1>2. d \in [tool : Tools \union {"none"}, step : Nat \ {0}, repos : Nat, marks : Nat,
              exists : BOOLEAN, read : SUBSET Repos, rows : SUBSET Repos, cut : BOOLEAN,
              note : Notes,
              atStart : [time : Nat, covered : SUBSET Repos, repos : Nat, marks : Nat]]
  BY DEF CallTypes
<1>3. Note(d) \in Notes
  BY DEF Note, Reason, Notes
<1>4. /\ e.tool = c.tool /\ e.step = c.step + 1 /\ e.repos = c.repos /\ e.marks = c.marks
      /\ e.exists = c.exists /\ e.read = c.read /\ e.rows = c.rows /\ e.cut = c.cut
      /\ e.note = Note(d) /\ e.atStart = c.atStart
  BY <1>1
<1>5. e \in [tool : Tools \union {"none"}, step : Nat \ {0}, repos : Nat, marks : Nat,
              exists : BOOLEAN, read : SUBSET Repos, rows : SUBSET Repos, cut : BOOLEAN,
              note : Notes,
              atStart : [time : Nat, covered : SUBSET Repos, repos : Nat, marks : Nat]]
  BY <1>2, <1>3
<1>6. call' = IF d.step > Len(Reads(d.tool)) THEN e ELSE d
  BY DEF Advance
<1> HIDE DEF d, e
<1>7. Note(e) = Note(d)
  BY <1>1, <1>4 DEF Note
<1>8. call.tool # "none" /\ call.step \in Nat \ {0} /\ call.note = "none"
      /\ call.step <= Len(Reads(call.tool)) /\ Len(Reads(call.tool)) \in Nat
  <2>1. call.tool \in Tools
    BY DEF CallTypes, Asking
  <2> QED
    BY <2>1, ReadsOf DEF Asking, Answered, NoteOK, CallTypes
<1>9. /\ call'.tool = call.tool /\ call'.step = call.step + 1
      /\ call'.repos = c.repos /\ call'.marks = c.marks
      /\ call'.exists = c.exists /\ call'.read = c.read /\ call'.rows = c.rows
      /\ call'.cut = c.cut /\ call'.atStart = call.atStart
  BY <1>1, <1>4, <1>6
<1>10. CallTypes'
  BY <1>2, <1>5, <1>6 DEF CallTypes
<1>11. NoteOK'
  <2>1. CASE d.step > Len(Reads(d.tool))
    <3>1. Answered'
      BY <1>1, <1>8, <1>9, <2>1 DEF Answered, Asking
    <3> QED
      BY <1>4, <1>6, <1>7, <2>1, <3>1 DEF NoteOK
  <2>2. CASE ~(d.step > Len(Reads(d.tool)))
    <3>1. ~Answered'
      BY <1>1, <1>8, <1>9, <2>2 DEF Answered, Asking
    <3> QED
      BY <1>1, <1>6, <1>8, <2>2, <3>1 DEF NoteOK
  <2> QED
    BY <2>1, <2>2
<1>12. \A read : Done(read)' <=> Done(read) \/ read = NextRead
  BY <1>8, <1>9 DEF Done, NextRead
<1> QED
  BY <1>1, <1>9, <1>10, <1>11, <1>12

-----------------------------------------------------------------------------
(* The steps.                                                              *)

LEMMA GrowStep ==
    ASSUME ServerInv, Grow, UNCHANGED server
    PROVE  ServerInv'
<1>1. /\ DatasetOK'
      /\ covered \subseteq covered'
      /\ \A S \in SUBSET covered : S \intersect truth' = S \intersect truth
      /\ \A c \in Counts :
            Count(c) \in Nat /\ Count(c)' \in Nat /\ Count(c) <= Count(c)'
  BY GrowKeeps DEF ServerInv
<1>2. /\ UNCHANGED <<clock, cache, call, seen>>
      /\ \A read : Done(read)' <=> Done(read)
      /\ LongBefore' = LongBefore
  BY DEF server, Done, LongBefore
<1>3. CallTypes' /\ CacheTypes' /\ NoteOK'
  BY <1>2 DEF ServerInv, CallTypes, CacheTypes, NoteOK, Answered, Asking
<1>4. CacheOK'
  <2>1. \A c \in Counts : cache[c].count \in Nat /\ cache[c].count <= Count(c)'
    BY <1>1 DEF ServerInv, CacheOK, CacheTypes
  <2> QED
    BY <1>2, <2>1 DEF ServerInv, CacheOK
<1>5. SeenOK'
  <2>1. \A t \in 0 .. MaxTime : \A c \in Counts : seen[t][c] \in Nat /\ seen[t][c] <= Count(c)
    BY DEF ServerInv, SeenOK, CacheTypes
  <2>2. \A t \in 0 .. MaxTime : \A c \in Counts : seen[t][c] <= Count(c)'
    BY <1>1, <2>1
  <2> QED
    BY <1>2, <2>2 DEF SeenOK
<1>6. StartOK'
  BY <1>1, <1>2 DEF ServerInv, StartOK, CallTypes, Counts
<1>7. CountsRead'
  <2>1. ASSUME NEW c \in Counts, Done(c)
        PROVE  /\ call[c] <= Count(c)'
               /\ call[c] = 0 => call.atStart[c] = 0
               /\ \A t \in LongBefore : seen[t][c] <= call[c]
    <3>1. call[c] \in Nat
      BY DEF ServerInv, CallTypes, Counts
    <3> QED
      BY <1>1, <2>1, <3>1 DEF ServerInv, CountsRead
  <2> QED
    BY <1>2, <2>1 DEF CountsRead
<1>8. call.atStart.covered \intersect truth' = call.atStart.covered \intersect truth
  BY <1>1 DEF ServerInv, StartOK
<1>9. NodeRead' /\ RowsRead'
  BY <1>2, <1>8 DEF ServerInv, NodeRead, RowsRead
<1> QED
  BY <1>1, <1>3, <1>4, <1>5, <1>6, <1>7, <1>9 DEF ServerInv

\* What is left to show of a step that leaves the dataset, the clock and the
\* ghost alone, and the cache if it is not a count.
LEMMA CallStep ==
    ASSUME ServerInv, UNCHANGED <<dataset, clock, cache, seen>>,
           CallTypes', NoteOK', StartOK', CountsRead', NodeRead', RowsRead'
    PROVE  ServerInv'
<1>1. UNCHANGED <<truth, listed, known, resolved, marked, covered, clock, cache, seen>>
  BY DEF dataset
<1>2. DatasetOK' /\ CacheTypes' /\ \A c \in Counts : Count(c)' = Count(c)
  BY <1>1 DEF ServerInv, DatasetOK, CacheTypes, Count
<1>3. CacheOK' /\ SeenOK'
  BY <1>1, <1>2 DEF ServerInv, CacheOK, SeenOK
<1> QED
  BY <1>2, <1>3 DEF ServerInv

LEMMA AskStep ==
    ASSUME ServerInv, NEW tool \in Tools, Ask(tool)
    PROVE  ServerInv'
<1> DEFINE start == [time |-> clock, covered |-> covered,
                     repos |-> Cardinality(listed), marks |-> Cardinality(marked)]
<1>1. call' = [NoCall EXCEPT !.tool = tool, !.atStart = start]
  BY DEF Ask
<1>2. UNCHANGED <<truth, listed, known, resolved, marked, covered, clock, cache, seen>>
  BY DEF Ask, dataset
<1>3. /\ start.time = clock /\ start.covered = covered
      /\ start.repos = Count("repos") /\ start.marks = Count("marks")
  BY DEF Count
<1>4. start \in [time : Nat, covered : SUBSET Repos, repos : Nat, marks : Nat]
  <2>1. covered \subseteq Repos /\ clock \in Nat
    BY McpAssumption DEF ServerInv, DatasetOK, CacheTypes
  <2>2. Cardinality(listed) \in Nat /\ Cardinality(marked) \in Nat
    BY CountOf DEF ServerInv, DatasetOK
  <2> QED
    BY <2>1, <2>2
<1> HIDE DEF start
<1>5. call' = [tool |-> tool, step |-> 1, repos |-> 0, marks |-> 0,
               exists |-> FALSE, read |-> {}, rows |-> {}, cut |-> FALSE, note |-> "none",
               atStart |-> start]
  BY <1>1 DEF NoCall
<1>6. /\ call'.tool = tool /\ call'.step = 1 /\ call'.read = {} /\ call'.rows = {}
      /\ call'.note = "none" /\ call'.atStart = start
  BY <1>5
<1>7. CallTypes'
  BY <1>4, <1>5 DEF CallTypes, Notes
<1>8. \A read : ~Done(read)'
  BY <1>6 DEF Done
<1>9. NoteOK'
  <2>1. 1 <= Len(Reads(tool)) /\ tool # "none"
    BY ReadsOf DEF Tools
  <2>2. call'.step <= Len(Reads(call'.tool))
    BY <1>6, <2>1
  <2>3. ~Answered'
    BY <1>6, <2>1, <2>2 DEF Answered, Asking
  <2> QED
    BY <1>6, <2>3 DEF NoteOK
<1>10. StartOK'
  <2>1. Count("repos")' = Count("repos") /\ Count("marks")' = Count("marks")
    BY <1>2 DEF Count
  <2>2. clock \in Nat /\ Count("repos") \in Nat /\ Count("marks") \in Nat
    BY McpAssumption, CountTypes DEF ServerInv, CacheTypes, Counts
  <2> QED
    BY <1>2, <1>3, <1>6, <2>1, <2>2 DEF StartOK
<1>11. CountsRead' /\ NodeRead'
  BY <1>8 DEF CountsRead, NodeRead
<1>12. RowsRead'
  BY <1>6, <1>8, FS_EmptySet, McpAssumption DEF RowsRead
<1> QED
  BY <1>7, <1>9, <1>10, <1>11, <1>12, CallStep DEF Ask

LEMMA FailStep ==
    ASSUME ServerInv, call' = NoCall, UNCHANGED <<dataset, clock, cache, seen>>
    PROVE  ServerInv'
<1>1. UNCHANGED <<truth, listed, known, resolved, marked, covered, clock, cache, seen>>
  BY DEF dataset
<1>2. /\ call'.tool = "none" /\ call'.step = 1 /\ call'.read = {} /\ call'.rows = {}
      /\ call'.note = "none"
      /\ call'.atStart = [time |-> 0, covered |-> {}, repos |-> 0, marks |-> 0]
  BY DEF NoCall
<1>3. CallTypes'
  BY DEF CallTypes, NoCall, Notes
<1>4. \A read : ~Done(read)'
  BY <1>2 DEF Done
<1>5. NoteOK'
  BY <1>2 DEF NoteOK, Answered, Asking
<1>6. StartOK'
  <2>1. Count("repos")' = Count("repos") /\ Count("marks")' = Count("marks")
    BY <1>1 DEF Count
  <2>2. clock \in Nat /\ Count("repos") \in Nat /\ Count("marks") \in Nat
    BY McpAssumption, CountTypes DEF ServerInv, CacheTypes, Counts
  <2> QED
    BY <1>1, <1>2, <2>1, <2>2 DEF StartOK
<1>7. CountsRead' /\ NodeRead'
  BY <1>4 DEF CountsRead, NodeRead
<1>8. RowsRead'
  BY <1>2, <1>4, FS_EmptySet, McpAssumption DEF RowsRead
<1> QED
  BY <1>3, <1>5, <1>6, <1>7, <1>8, CallStep

\* What the reads of a call leave as they find it.
LEMMA ReadKeeps ==
    ASSUME ServerInv, Asking, UNCHANGED <<dataset, clock, seen>>, call'.atStart = call.atStart,
           \A read : Done(read)' <=> Done(read) \/ read = NextRead
    PROVE  /\ UNCHANGED <<truth, listed, known, resolved, marked, covered, clock, seen>>
           /\ StartOK'
           /\ LongBefore' = LongBefore
           /\ \A c \in Counts : Count(c)' = Count(c) /\ Count(c) \in Nat
           /\ NextRead \notin Counts /\ call'.repos = call.repos /\ call'.marks = call.marks
                => CountsRead'
<1>1. UNCHANGED <<truth, listed, known, resolved, marked, covered, clock, seen>>
  BY DEF dataset
<1>2. StartOK' /\ LongBefore' = LongBefore
  BY <1>1 DEF ServerInv, StartOK, Count, LongBefore
<1>3. \A c \in Counts : Count(c)' = Count(c) /\ Count(c) \in Nat
  BY <1>1, CountTypes DEF ServerInv, Count
<1>4. ASSUME NextRead \notin Counts, call'.repos = call.repos, call'.marks = call.marks
      PROVE  CountsRead'
  <2> SUFFICES ASSUME NEW c \in Counts, Done(c)'
               PROVE  /\ call'[c] <= Count(c)
                      /\ call'[c] = 0 => call.atStart[c] = 0
                      /\ \A t \in LongBefore : seen[t][c] <= call'[c]
    BY <1>1, <1>2, <1>3 DEF CountsRead
  <2>1. Done(c) /\ call'[c] = call[c]
    BY <1>4 DEF Counts
  <2> QED
    BY <2>1 DEF ServerInv, CountsRead
<1> QED
  BY <1>1, <1>2, <1>3, <1>4

LEMMA ReadNodeStep ==
    ASSUME ServerInv, ReadNode
    PROVE  ServerInv'
<1> DEFINE c == [call EXCEPT !.exists = known]
<1>1. Asking /\ NextRead = "node" /\ Advance(c) /\ UNCHANGED <<dataset, clock, cache, seen>>
  BY DEF ReadNode
<1>2. /\ c.tool = call.tool /\ c.step = call.step /\ c.repos = call.repos
      /\ c.marks = call.marks /\ c.exists = known /\ c.read = call.read
      /\ c.rows = call.rows /\ c.cut = call.cut /\ c.note = call.note
      /\ c.atStart = call.atStart
  BY DEF ServerInv, CallTypes
<1>3. c \in [tool : {call.tool}, step : {call.step}, repos : Nat, marks : Nat,
            exists : BOOLEAN, read : SUBSET Repos, rows : SUBSET Repos, cut : BOOLEAN,
            note : {call.note}, atStart : {call.atStart}]
  BY DEF ServerInv, CallTypes, DatasetOK
<1> HIDE DEF c
<1>4. /\ CallTypes' /\ NoteOK'
      /\ call'.repos = call.repos /\ call'.marks = call.marks /\ call'.exists = known
      /\ call'.read = call.read /\ call'.rows = call.rows /\ call'.cut = call.cut
      /\ call'.atStart = call.atStart
      /\ \A read : Done(read)' <=> Done(read) \/ read = NextRead
  BY <1>1, <1>2, <1>3, Advances DEF ServerInv
<1>5. /\ UNCHANGED <<truth, listed, known, resolved, marked, covered, clock, seen>>
      /\ StartOK' /\ CountsRead'
  BY <1>1, <1>4, ReadKeeps DEF Counts
<1>6. NodeRead'
  <2>1. ASSUME known = FALSE
        PROVE  call.atStart.covered \intersect truth = {}
    BY <2>1, NothingResolved DEF ServerInv, DatasetOK, StartOK
  <2> QED
    BY <1>4, <1>5, <2>1 DEF NodeRead, ServerInv, DatasetOK
<1>7. RowsRead'
  <2>1. Done("rows")' <=> Done("rows")
    BY <1>1, <1>4
  <2> QED
    BY <1>4, <1>5, <2>1 DEF ServerInv, RowsRead
<1> QED
  BY <1>1, <1>4, <1>5, <1>6, <1>7, CallStep

\* The packages of an account are read before their rows are.
LEMMA ReadOwnedStep ==
    ASSUME ServerInv, ReadOwned
    PROVE  ServerInv'
<1>1. PICK cut \in BOOLEAN : Advance([call EXCEPT !.cut = cut])
  BY DEF ReadOwned
<1>2. Asking /\ NextRead = "owned" /\ UNCHANGED <<dataset, clock, cache, seen>>
  BY DEF ReadOwned
<1> DEFINE c == [call EXCEPT !.cut = cut]
<1>3. /\ c.tool = call.tool /\ c.step = call.step /\ c.repos = call.repos
      /\ c.marks = call.marks /\ c.exists = call.exists /\ c.read = call.read
      /\ c.rows = call.rows /\ c.cut = cut /\ c.note = call.note
      /\ c.atStart = call.atStart
  BY DEF ServerInv, CallTypes
<1>4. c \in [tool : {call.tool}, step : {call.step}, repos : Nat, marks : Nat,
            exists : BOOLEAN, read : SUBSET Repos, rows : SUBSET Repos, cut : BOOLEAN,
            note : {call.note}, atStart : {call.atStart}]
  BY DEF ServerInv, CallTypes
<1>5. Advance(c)
  BY <1>1
<1> HIDE DEF c
<1>6. /\ CallTypes' /\ NoteOK'
      /\ call'.repos = call.repos /\ call'.marks = call.marks /\ call'.exists = call.exists
      /\ call'.read = call.read /\ call'.rows = call.rows
      /\ call'.atStart = call.atStart
      /\ \A read : Done(read)' <=> Done(read) \/ read = NextRead
  BY <1>2, <1>3, <1>4, <1>5, Advances DEF ServerInv
<1>7. /\ UNCHANGED <<truth, listed, known, resolved, marked, covered, clock, seen>>
      /\ StartOK' /\ CountsRead'
  BY <1>2, <1>6, ReadKeeps DEF Counts
<1>8. NodeRead'
  <2>1. Done("node")' <=> Done("node")
    BY <1>2, <1>6
  <2> QED
    BY <1>6, <1>7, <2>1 DEF ServerInv, NodeRead
<1>9. ~Done("rows") /\ ~Done("rows")'
  <2>1. call.tool \in Tools /\ call.step \in Nat \ {0} /\ call.step <= Len(Reads(call.tool))
    BY <1>2 DEF Asking, ServerInv, CallTypes
  <2>2. Len(Reads(call.tool)) \in Nat
    BY <2>1, ReadsOf
  <2>3. call.step \in 1 .. Len(Reads(call.tool)) /\ Reads(call.tool)[call.step] = "owned"
    BY <1>2, <2>1, <2>2 DEF NextRead
  <2>4. \A j \in 1 .. Len(Reads(call.tool)) : Reads(call.tool)[j] = "rows" => call.step < j
    BY <2>1, <2>3, ReadsOf
  <2>5. ~Done("rows")
    BY <2>1, <2>2, <2>4 DEF Done
  <2> QED
    BY <1>2, <1>6, <2>5
<1>10. RowsRead'
  BY <1>6, <1>7, <1>9 DEF ServerInv, RowsRead
<1> QED
  BY <1>2, <1>6, <1>7, <1>8, <1>10, CallStep

\* A reply that is not short is whole, and is kept whole.
LEMMA WholeReply ==
    ASSUME DatasetOK, NEW reply \in Replies(resolved), NEW rows \in Kept(reply)
    PROVE  /\ rows \subseteq resolved /\ Cardinality(rows) <= MaxRows
           /\ ~Truncated(reply) => rows = resolved
           /\ Truncated(reply) \in BOOLEAN
<1>1. /\ reply.rows \subseteq resolved /\ resolved \subseteq Repos
      /\ reply.rows # resolved => reply.cursor \/ reply.truncated
      /\ reply.cursor \in BOOLEAN /\ reply.truncated \in BOOLEAN
  BY DEF Replies, DatasetOK
<1>2. /\ rows \subseteq reply.rows
      /\ Cardinality(rows) = IF Cardinality(reply.rows) < MaxRows
                             THEN Cardinality(reply.rows) ELSE MaxRows
  BY DEF Kept
<1>3. /\ Cardinality(rows) \in Nat /\ Cardinality(reply.rows) \in Nat
      /\ Cardinality(rows) = Cardinality(reply.rows) => rows = reply.rows
  BY <1>1, <1>2, CountOf
<1>4. rows \subseteq resolved /\ Cardinality(rows) <= MaxRows
  BY <1>1, <1>2, <1>3, McpAssumption
<1>5. ASSUME ~Truncated(reply) PROVE rows = resolved
  <2>1. reply.rows = resolved /\ ~(Cardinality(reply.rows) > MaxRows)
    BY <1>1, <1>5 DEF Truncated
  <2> QED
    BY <1>2, <1>3, <2>1, McpAssumption
<1>6. Truncated(reply) \in BOOLEAN
  BY DEF Truncated
<1> QED
  BY <1>4, <1>5, <1>6

LEMMA ReadRowsStep ==
    ASSUME ServerInv, ReadRows
    PROVE  ServerInv'
<1>1. PICK reply \in Replies(resolved) : \E rows \in Kept(reply) :
        Advance([call EXCEPT !.read = resolved, !.rows = rows, !.cut = @ \/ Truncated(reply)])
  BY DEF ReadRows
<1>2. PICK rows \in Kept(reply) :
        Advance([call EXCEPT !.read = resolved, !.rows = rows, !.cut = @ \/ Truncated(reply)])
  BY <1>1
<1>3. Asking /\ NextRead = "rows" /\ UNCHANGED <<dataset, clock, cache, seen>>
  BY DEF ReadRows
<1>4. /\ rows \subseteq resolved /\ Cardinality(rows) <= MaxRows
      /\ ~Truncated(reply) => rows = resolved
      /\ resolved \subseteq Repos /\ Truncated(reply) \in BOOLEAN
  BY WholeReply DEF ServerInv, DatasetOK
<1> DEFINE short == call.cut \/ Truncated(reply)
           c == [call EXCEPT !.read = resolved, !.rows = rows, !.cut = short]
<1>5. Advance(c)
  BY <1>2
<1>6. short \in BOOLEAN /\ (~short => rows = resolved)
  BY <1>4 DEF ServerInv, CallTypes
<1> HIDE DEF short
<1>7. /\ c.tool = call.tool /\ c.step = call.step /\ c.repos = call.repos
      /\ c.marks = call.marks /\ c.exists = call.exists /\ c.read = resolved
      /\ c.rows = rows /\ c.cut = short /\ c.note = call.note
      /\ c.atStart = call.atStart
  BY DEF ServerInv, CallTypes
<1>8. c \in [tool : {call.tool}, step : {call.step}, repos : Nat, marks : Nat,
            exists : BOOLEAN, read : SUBSET Repos, rows : SUBSET Repos, cut : BOOLEAN,
            note : {call.note}, atStart : {call.atStart}]
  BY <1>4, <1>6 DEF ServerInv, CallTypes
<1> HIDE DEF c
<1>9. /\ CallTypes' /\ NoteOK'
      /\ call'.repos = call.repos /\ call'.marks = call.marks /\ call'.exists = call.exists
      /\ call'.read = resolved /\ call'.rows = rows /\ call'.cut = short
      /\ call'.atStart = call.atStart
      /\ \A read : Done(read)' <=> Done(read) \/ read = NextRead
  BY <1>3, <1>5, <1>7, <1>8, Advances DEF ServerInv
<1>10. /\ UNCHANGED <<truth, listed, known, resolved, marked, covered, clock, seen>>
       /\ StartOK' /\ CountsRead'
  BY <1>3, <1>9, ReadKeeps DEF Counts
<1>11. NodeRead'
  <2>1. Done("node")' <=> Done("node")
    BY <1>3, <1>9
  <2> QED
    BY <1>9, <1>10, <2>1 DEF ServerInv, NodeRead
<1>12. RowsRead'
  <2>1. ASSUME resolved = {}
        PROVE  call.atStart.covered \intersect truth = {}
    BY <2>1, NothingResolved DEF ServerInv, StartOK
  <2>2. Done("rows")'
    BY <1>3, <1>9
  <2>3. call'.cut = FALSE => rows = resolved
    BY <1>6, <1>9
  <2> QED
    BY <1>4, <1>9, <1>10, <2>1, <2>2, <2>3 DEF RowsRead, CallTypes
<1> QED
  BY <1>3, <1>9, <1>10, <1>11, <1>12, CallStep

\* A count as cached is not of nothing, and was read after the ticks that had
\* ended long before the question; a count as read is the graph's.
LEMMA CountTaken ==
    ASSUME ServerInv, NEW which \in Counts, Asking
    PROVE  LET n == IF Usable(which) THEN cache[which].count ELSE Count(which)
           IN  /\ n \in Nat /\ n <= Count(which)
               /\ n = 0 => call.atStart[which] = 0
               /\ \A t \in LongBefore : seen[t][which] <= n
<1>1. /\ Count(which) \in Nat /\ cache[which].count \in Nat /\ cache[which].at \in Int
      /\ cache[which].count <= Count(which)
      /\ clock \in Nat /\ CacheTtl \in Nat
  BY CountTypes, McpAssumption DEF ServerInv, CacheTypes, CacheOK
<1>2. /\ call.atStart[which] \in Nat /\ call.atStart[which] <= Count(which)
      /\ call.atStart.time \in Nat /\ call.atStart.time <= clock
  BY DEF ServerInv, CallTypes, StartOK, Counts
<1>3. CASE Usable(which)
  <2>1. ASSUME NEW t \in LongBefore
        PROVE  seen[t][which] <= cache[which].count
    <3>1. t \in 0 .. MaxTime /\ call.atStart.time - t >= CacheTtl
      BY DEF LongBefore
    <3>2. t < cache[which].at
      BY <1>1, <1>2, <1>3, <3>1, McpAssumption DEF Usable
    <3> QED
      BY <3>1, <3>2 DEF ServerInv, CacheOK
  <2> QED
    BY <1>1, <1>3, <2>1 DEF Usable
<1>4. CASE ~Usable(which)
  <2>1. \A t \in LongBefore : seen[t][which] <= Count(which)
    BY DEF LongBefore, ServerInv, SeenOK
  <2> QED
    BY <1>1, <1>2, <1>4, <2>1
<1> QED
  BY <1>3, <1>4

LEMMA ReadCountStep ==
    ASSUME ServerInv, NEW which \in Counts, ReadCount(which)
    PROVE  ServerInv'
<1> DEFINE n == IF Usable(which) THEN cache[which].count ELSE Count(which)
           c == [call EXCEPT ![which] = n]
<1>1. /\ Asking /\ NextRead = which /\ Advance(c)
      /\ cache' = IF Usable(which) THEN cache
                  ELSE [cache EXCEPT ![which] = [count |-> Count(which), at |-> clock]]
      /\ UNCHANGED <<dataset, clock, seen>>
  BY DEF ReadCount
<1>2. /\ n \in Nat /\ n <= Count(which)
      /\ n = 0 => call.atStart[which] = 0
      /\ \A t \in LongBefore : seen[t][which] <= n
  BY <1>1, CountTaken
<1> HIDE DEF n
<1>3. /\ c.tool = call.tool /\ c.step = call.step
      /\ c.repos = IF which = "repos" THEN n ELSE call.repos
      /\ c.marks = IF which = "marks" THEN n ELSE call.marks
      /\ c.exists = call.exists /\ c.read = call.read
      /\ c.rows = call.rows /\ c.cut = call.cut /\ c.note = call.note
      /\ c.atStart = call.atStart
  BY DEF ServerInv, CallTypes, Counts
<1>4. c \in [tool : {call.tool}, step : {call.step}, repos : Nat, marks : Nat,
            exists : BOOLEAN, read : SUBSET Repos, rows : SUBSET Repos, cut : BOOLEAN,
            note : {call.note}, atStart : {call.atStart}]
  BY <1>2 DEF ServerInv, CallTypes, Counts
<1> HIDE DEF c
<1>5. /\ CallTypes' /\ NoteOK'
      /\ call'.repos = c.repos /\ call'.marks = c.marks /\ call'.exists = call.exists
      /\ call'.read = call.read /\ call'.rows = call.rows /\ call'.cut = call.cut
      /\ call'.atStart = call.atStart
      /\ \A read : Done(read)' <=> Done(read) \/ read = NextRead
  BY <1>1, <1>3, <1>4, Advances DEF ServerInv
<1>6. /\ UNCHANGED <<truth, listed, known, resolved, marked, covered, clock, seen>>
      /\ StartOK' /\ LongBefore' = LongBefore
      /\ \A x \in Counts : Count(x)' = Count(x) /\ Count(x) \in Nat
  BY <1>1, <1>5, ReadKeeps
<1>7. CountsRead'
  <2> SUFFICES ASSUME NEW x \in Counts, Done(x)'
               PROVE  /\ call'[x] <= Count(x)
                      /\ call'[x] = 0 => call.atStart[x] = 0
                      /\ \A t \in LongBefore : seen[t][x] <= call'[x]
    BY <1>5, <1>6 DEF CountsRead
  <2>1. CASE x = which
    <3>1. call'[x] = n
      BY <1>3, <1>5, <2>1 DEF Counts
    <3> QED
      BY <1>2, <2>1, <3>1
  <2>2. CASE x # which
    <3>1. Done(x) /\ call'[x] = call[x]
      BY <1>1, <1>3, <1>5, <2>2 DEF Counts
    <3> QED
      BY <3>1 DEF ServerInv, CountsRead
  <2> QED
    BY <2>1, <2>2
<1>8. NodeRead' /\ RowsRead'
  <2>1. (Done("node")' <=> Done("node")) /\ (Done("rows")' <=> Done("rows"))
    BY <1>1, <1>5 DEF Counts
  <2> QED
    BY <1>5, <1>6, <2>1 DEF ServerInv, NodeRead, RowsRead
<1>9. CacheTypes' /\ CacheOK'
  <2>1. \A x \in Counts :
            \/ cache'[x] = cache[x]
            \/ cache'[x] = [count |-> Count(x), at |-> clock]
    BY <1>1 DEF ServerInv, CacheTypes
  <2>2. clock \in Int /\ clock \in -1 .. clock
    BY McpAssumption DEF ServerInv, CacheTypes
  <2>3. CacheTypes'
    BY <1>1, <1>6, <2>2 DEF ServerInv, CacheTypes
  <2>4. ASSUME NEW x \in Counts
        PROVE  /\ cache'[x].count <= Count(x)
               /\ cache'[x].at \in -1 .. clock
               /\ \A t \in 0 .. MaxTime : t < cache'[x].at => seen[t][x] <= cache'[x].count
    <3>1. CASE cache'[x] = cache[x]
      BY <3>1 DEF ServerInv, CacheOK
    <3>2. CASE cache'[x] = [count |-> Count(x), at |-> clock]
      <4>1. cache'[x].count = Count(x) /\ cache'[x].at = clock
        BY <3>2
      <4> QED
        BY <1>6, <2>2, <4>1 DEF ServerInv, SeenOK
    <3> QED
      BY <2>1, <3>1, <3>2
  <2> QED
    BY <1>6, <2>3, <2>4 DEF CacheOK
<1>10. DatasetOK' /\ SeenOK'
  BY <1>6 DEF ServerInv, DatasetOK, SeenOK
<1> QED
  BY <1>5, <1>6, <1>7, <1>8, <1>9, <1>10 DEF ServerInv

LEMMA TickStep ==
    ASSUME ServerInv, Tick
    PROVE  ServerInv'
<1>1. /\ clock < MaxTime /\ clock' = clock + 1
      /\ seen' = [seen EXCEPT ![clock] = [c \in Counts |-> Count(c)]]
      /\ UNCHANGED <<truth, listed, known, resolved, marked, covered, cache, call>>
  BY DEF Tick, dataset
<1>2. clock \in 0 .. MaxTime /\ MaxTime \in Nat
  BY McpAssumption DEF ServerInv, CacheTypes
<1>3. \A c \in Counts : Count(c)' = Count(c) /\ Count(c) \in Nat
  BY <1>1, CountTypes DEF ServerInv, Count
<1>4. \A t \in 0 .. MaxTime : \A c \in Counts :
        seen'[t][c] = IF t = clock THEN Count(c) ELSE seen[t][c]
  BY <1>1 DEF ServerInv, CacheTypes
<1>5. CacheTypes'
  <2>1. seen' \in [0 .. MaxTime -> [Counts -> Nat]]
    BY <1>1, <1>3 DEF ServerInv, CacheTypes
  <2> QED
    BY <1>1, <1>2, <2>1 DEF ServerInv, CacheTypes
<1>6. SeenOK'
  BY <1>3, <1>4 DEF ServerInv, SeenOK
<1>7. CacheOK'
  <2> SUFFICES ASSUME NEW c \in Counts
               PROVE  /\ cache[c].count <= Count(c)
                      /\ cache[c].at \in -1 .. clock'
                      /\ \A t \in 0 .. MaxTime : t < cache[c].at => seen'[t][c] <= cache[c].count
    BY <1>1, <1>3 DEF CacheOK
  <2>1. /\ cache[c].count <= Count(c) /\ cache[c].at \in -1 .. clock
        /\ \A t \in 0 .. MaxTime : t < cache[c].at => seen[t][c] <= cache[c].count
    BY DEF ServerInv, CacheOK
  <2>2. \A t \in 0 .. MaxTime : t < cache[c].at => t # clock
    BY <1>2, <2>1
  <2> QED
    BY <1>1, <1>2, <1>4, <2>1, <2>2
<1>8. StartOK'
  <2>1. call.atStart.time \in Nat /\ call.atStart.time <= clock
    BY DEF ServerInv, CallTypes, StartOK
  <2>2. call.atStart.time <= clock'
    BY <1>1, <1>2, <2>1
  <2> QED
    BY <1>1, <1>3, <2>2 DEF ServerInv, StartOK, Counts
<1>9. /\ LongBefore' = LongBefore /\ \A t \in LongBefore : t \in 0 .. MaxTime /\ t # clock
      /\ \A read : Done(read)' <=> Done(read)
  <2>1. call.atStart.time \in Nat /\ call.atStart.time <= clock
    BY DEF ServerInv, CallTypes, StartOK
  <2> QED
    BY <1>1, <1>2, <2>1 DEF LongBefore, Done
<1>10. CountsRead'
  BY <1>1, <1>3, <1>4, <1>9 DEF ServerInv, CountsRead
<1>11. CallTypes' /\ NoteOK' /\ DatasetOK' /\ NodeRead' /\ RowsRead'
  BY <1>1, <1>9 DEF ServerInv, CallTypes, NoteOK, Answered, Asking, DatasetOK, NodeRead, RowsRead
<1> QED
  BY <1>5, <1>6, <1>7, <1>8, <1>10, <1>11 DEF ServerInv

-----------------------------------------------------------------------------
(* The invariant.                                                          *)

LEMMA InitInv == Init => ServerInv
<1> SUFFICES ASSUME Init PROVE ServerInv
  OBVIOUS
<1>1. /\ truth = {} /\ listed = {} /\ known = FALSE /\ resolved = {} /\ marked = {}
      /\ covered = {} /\ clock = 0 /\ call = NoCall
      /\ cache = [c \in Counts |-> [count |-> 0, at |-> -1]]
      /\ seen = [t \in 0 .. MaxTime |-> [c \in Counts |-> 0]]
  BY DEF Init, EmptyDataset
<1>2. /\ call.tool = "none" /\ call.step = 1 /\ call.read = {} /\ call.rows = {}
      /\ call.note = "none"
      /\ call.atStart = [time |-> 0, covered |-> {}, repos |-> 0, marks |-> 0]
  BY <1>1 DEF NoCall
<1>3. DatasetOK
  BY <1>1 DEF DatasetOK
<1>4. CallTypes
  BY <1>1 DEF CallTypes, NoCall, Notes
<1>5. CacheTypes
  BY <1>1, McpAssumption DEF CacheTypes
<1>6. \A c \in Counts : Count(c) = 0 /\ cache[c].count = 0 /\ cache[c].at = -1
  BY <1>1, FS_EmptySet DEF Count
<1>7. CacheOK /\ SeenOK
  BY <1>1, <1>6, McpAssumption DEF CacheOK, SeenOK
<1>8. StartOK
  BY <1>1, <1>2, <1>6 DEF StartOK, Counts
<1>9. \A read : ~Done(read)
  BY <1>2 DEF Done
<1>10. CountsRead /\ NodeRead
  BY <1>9 DEF CountsRead, NodeRead
<1>11. RowsRead
  BY <1>2, <1>9, FS_EmptySet, McpAssumption DEF RowsRead
<1>12. NoteOK
  BY <1>2 DEF NoteOK, Answered, Asking
<1> QED
  BY <1>3, <1>4, <1>5, <1>7, <1>8, <1>10, <1>11, <1>12 DEF ServerInv

LEMMA NextInv == ServerInv /\ [Next]_vars => ServerInv'
<1> SUFFICES ASSUME ServerInv, [Next]_vars PROVE ServerInv'
  OBVIOUS
<1>1. CASE Grow /\ UNCHANGED server
  BY <1>1, GrowStep
<1>2. ASSUME NEW tool \in Tools, Ask(tool) PROVE ServerInv'
  BY <1>2, AskStep
<1>3. ASSUME NEW which \in Counts, ReadCount(which) PROVE ServerInv'
  BY <1>3, ReadCountStep
<1>4. CASE ReadNode
  BY <1>4, ReadNodeStep
<1>5. CASE ReadOwned
  BY <1>5, ReadOwnedStep
<1>6. CASE ReadRows
  BY <1>6, ReadRowsStep
<1>7. CASE Fail
  BY <1>7, FailStep DEF Fail
<1>8. CASE Tick
  BY <1>8, TickStep
<1>9. CASE UNCHANGED vars
  <2>1. UNCHANGED <<dataset, clock, cache, seen, call>>
    BY <1>9 DEF vars
  <2>2. UNCHANGED <<truth, listed, known, resolved, marked, covered>>
    BY <2>1 DEF dataset
  <2>3. \A read : Done(read)' <=> Done(read)
    BY <2>1 DEF Done
  <2>4. CallTypes' /\ NoteOK' /\ StartOK' /\ NodeRead' /\ RowsRead'
    BY <2>1, <2>2, <2>3 DEF ServerInv, CallTypes, NoteOK, Answered, Asking, StartOK, Count,
                           NodeRead, RowsRead
  <2>5. CountsRead'
    BY <2>1, <2>2, <2>3 DEF ServerInv, CountsRead, Count, LongBefore
  <2> QED
    BY <2>1, <2>4, <2>5, CallStep
<1> QED
  BY <1>1, <1>2, <1>3, <1>4, <1>5, <1>6, <1>7, <1>8, <1>9 DEF Next

\* The inductive invariant of the agent's tools: every count, node and row that a
\* call has read so far stands for what the dataset was, and still bounds it.
THEOREM ServerInvariant == Spec => []ServerInv
BY InitInv, NextInv, PTL DEF Spec

-----------------------------------------------------------------------------
(* What an answer says.                                                    *)

\* An answer has made the reads its verdicts rest on.
LEMMA AnsweredHasRead ==
    ASSUME ServerInv, Answered
    PROVE  /\ call.tool \in Tools /\ call.note = Note(call)
           /\ Done("repos") /\ Done("marks") /\ Done("node")
           /\ call.tool = "exposure" => Done("rows")
<1>1. call.tool \in Tools /\ call.step \in Nat
  BY DEF ServerInv, CallTypes, Answered
<1>2. Len(Reads(call.tool)) \in Nat /\ ~(call.step <= Len(Reads(call.tool)))
  BY <1>1, ReadsOf DEF Answered, Asking
<1>3. \A i \in 1 .. Len(Reads(call.tool)) : i < call.step
  BY <1>1, <1>2
<1> QED
  BY <1>1, <1>3, ReadsOf DEF Done, ServerInv, NoteOK

\* A verdict is of an answer, on counts of something.
LEMMA VerdictHasRead ==
    ASSUME ServerInv, call.note \in Negatives
    PROVE  /\ Answered /\ call.repos # 0 /\ call.marks # 0 /\ ~call.cut
           /\ call.note # "negative" => ~call.exists
           /\ call.note = "negative" => call.tool = "exposure" /\ call.rows = {}
<1>1. Answered /\ call.note = Note(call)
  BY DEF ServerInv, NoteOK, Negatives
<1>2. Reason(call.repos, call.marks) = "none"
  BY <1>1 DEF Note, Reason, Negatives
<1>3. call.repos # 0 /\ call.marks # 0
  BY <1>2 DEF Reason
<1>4. ~call.cut
  BY <1>1, <1>2 DEF Note, Negatives
<1>5. call.note # "negative" => ~call.exists
  BY <1>1, <1>2, <1>4 DEF Note, Negatives
<1>6. call.note = "negative" => call.tool = "exposure" /\ call.rows = {}
  BY <1>1, <1>2, <1>4 DEF Note, Negatives
<1> QED
  BY <1>1, <1>3, <1>4, <1>5, <1>6

\* A refusal is about the dataset as it was after the question, never about a
\* cached emptiness; a count is not older than the cache's lifetime; no verdict
\* comes from a dataset that holds nothing to be absent from.
THEOREM RefusalsRight == Spec => []RefusalsAreRight
<1>1. ASSUME ServerInv PROVE TypeOK
  <2>1. ASSUME NEW c \in Counts
        PROVE  cache[c].count \in 0 .. Cardinality(Repos) /\ cache[c].at \in -1 .. clock
    <3>1. listed \subseteq Repos /\ marked \subseteq Repos
      BY <1>1 DEF ServerInv, DatasetOK
    <3>2. /\ Cardinality(listed) <= Cardinality(Repos) /\ Cardinality(marked) <= Cardinality(Repos)
          /\ Cardinality(listed) \in Nat /\ Cardinality(marked) \in Nat
          /\ Cardinality(Repos) \in Nat
      BY <3>1, CountOf
    <3>3. /\ cache[c].count \in Nat /\ cache[c].count <= Count(c)
          /\ cache[c].at \in -1 .. clock
      BY <1>1 DEF ServerInv, CacheTypes, CacheOK
    <3> QED
      BY <3>2, <3>3 DEF Count
  <2> QED
    BY <1>1, <2>1 DEF TypeOK, ServerInv, CacheTypes, CallTypes, RowsRead
<1>2. ASSUME ServerInv PROVE RefusalIsCurrent
  <2> SUFFICES ASSUME Answered
               PROVE  /\ call.note = "empty_dataset" => call.atStart.repos = 0
                      /\ call.note = "no_ingested_history" => call.atStart.marks = 0
    BY DEF RefusalIsCurrent
  <2>1. Done("repos") /\ Done("marks") /\ call.note = Note(call)
    BY <1>1, <1>2, AnsweredHasRead
  <2>2. call.note = "empty_dataset" => call.repos = 0
    BY <2>1 DEF Note, Reason
  <2>3. call.note = "no_ingested_history" => call.marks = 0
    BY <2>1 DEF Note, Reason
  <2>4. (call["repos"] = 0 => call.atStart["repos"] = 0) /\ (call["marks"] = 0 => call.atStart["marks"] = 0)
    BY <1>2, <2>1 DEF ServerInv, CountsRead, Counts
  <2> QED
    BY <2>2, <2>3, <2>4
<1>3. ASSUME ServerInv PROVE CountsWithinTtl
  <2> SUFFICES ASSUME Answered, NEW t \in LongBefore, NEW c \in Counts
               PROVE  call[c] >= seen[t][c]
    BY DEF CountsWithinTtl
  <2>1. Done(c)
    BY <1>3, AnsweredHasRead DEF Counts
  <2>2. seen[t][c] <= call[c] /\ seen[t][c] \in Nat /\ call[c] \in Nat
    BY <1>3, <2>1 DEF ServerInv, CountsRead, CacheTypes, CallTypes, LongBefore, Counts
  <2> QED
    BY <2>2
<1>4. ASSUME ServerInv PROVE NoVerdictFromNothing
  <2> SUFFICES ASSUME call.note \in Negatives
               PROVE  listed # {} /\ marked # {}
    BY DEF NoVerdictFromNothing
  <2>1. Done("repos") /\ Done("marks") /\ call.repos # 0 /\ call.marks # 0
    BY <1>4, AnsweredHasRead, VerdictHasRead
  <2>2. /\ call["repos"] <= Count("repos") /\ call["marks"] <= Count("marks")
        /\ call.repos \in Nat /\ call.marks \in Nat
    BY <1>4, <2>1 DEF ServerInv, CountsRead, CallTypes, Counts
  <2>3. Cardinality(listed) \in Nat /\ Cardinality(marked) \in Nat
        /\ Count("repos") = Cardinality(listed) /\ Count("marks") = Cardinality(marked)
    BY <1>4, CountOf DEF ServerInv, DatasetOK, Count
  <2> QED
    BY <2>1, <2>2, <2>3, FS_EmptySet
<1>5. ServerInv => RefusalsAreRight
  BY <1>1, <1>2, <1>3, <1>4 DEF RefusalsAreRight
<1> QED
  BY <1>5, ServerInvariant, PTL

\* An answer that left out rows the graph held says that it is a floor.
THEOREM FloorLabelled == Spec => []FloorIsLabelled
<1>1. ASSUME ServerInv, Answered, call.rows # call.read
      PROVE  call.note \in {"unverified", "empty_dataset", "no_ingested_history"}
  <2>1. call.note = Note(call)
    BY <1>1, AnsweredHasRead
  <2>2. call.cut = TRUE
    BY <1>1 DEF ServerInv, RowsRead, CallTypes
  <2> QED
    BY <2>1, <2>2 DEF Note, Reason
<1>2. ServerInv => FloorIsLabelled
  BY <1>1 DEF FloorIsLabelled
<1> QED
  BY <1>2, ServerInvariant, PTL

\* What is said to be absent is absent, in every repository whose history had
\* been ingested past the instant when the question was asked.
THEOREM NegativeHolds == Spec => []NegativeHoldsWhereCovered
<1>1. ASSUME ServerInv, call.note \in Negatives
      PROVE  call.atStart.covered \intersect truth = {}
  <2>1. /\ Answered /\ ~call.cut
        /\ call.note # "negative" => ~call.exists
        /\ call.note = "negative" => call.tool = "exposure" /\ call.rows = {}
    BY <1>1, VerdictHasRead
  <2>2. Done("node") /\ (call.note = "negative" => Done("rows"))
    BY <1>1, <2>1, AnsweredHasRead
  <2>3. CASE call.note # "negative"
    BY <1>1, <2>1, <2>2, <2>3 DEF ServerInv, NodeRead
  <2>4. CASE call.note = "negative"
    BY <1>1, <2>1, <2>2, <2>4 DEF ServerInv, RowsRead
  <2> QED
    BY <1>1, <2>3, <2>4
<1>2. ServerInv => NegativeHoldsWhereCovered
  BY <1>1 DEF NegativeHoldsWhereCovered
<1> QED
  BY <1>2, ServerInvariant, PTL
=============================================================================
