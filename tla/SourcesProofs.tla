----------------------------- MODULE SourcesProofs -----------------------------
(***************************************************************************)
(* What feeds a store: that a read of the client is exact, that the demo   *)
(* seed leaves whole files and honest labels, and that the builds made     *)
(* from a checkout lose only what was asked for; for any number of rows,   *)
(* retries, restarts, overlapping invocations, commits and failures.       *)
(***************************************************************************)
EXTENDS Checkout, Seed, PagedRead, SequenceTheorems, TLAPS

-----------------------------------------------------------------------------
(* A read of the client.                                                   *)

ReadTypes ==
    /\ total \in 0 .. MaxTotal
    /\ rowCap \in 1 .. NoCap
    /\ lastId \in Nat
    /\ cursors \in SUBSET ((1 .. lastId) \X (1 .. MaxTotal))
    /\ cursor \in 0 .. total
    /\ queryId \in 0 .. lastId
    /\ attempt \in 0 .. MaxRetries
    /\ out \in Seq(Nat)
    /\ restarts \in Nat

\* The rows read are those up to the cursor, or up to the cap.
RowsRead ==
    /\ Len(out) = IF result = "truncated" THEN rowCap ELSE cursor
    /\ \A i \in 1 .. Len(out) : out[i] = i

EndsWell ==
    /\ result = "complete" => cursor = total
    /\ result = "truncated" => rowCap < total

\* While the read goes on, the node holds the cursor it will send, unless it
\* has been restarted.
CursorOpen ==
    /\ result = "reading" /\ restarts = 0 => Known
    /\ result = "refused" => restarts > 0

ReadInv == ReadTypes /\ RowsRead /\ EndsWell /\ CursorOpen

\* What the read is extended to by the page that ends at e.
LEMMA PageAdded ==
    ASSUME ReadTypes, RowsRead, result # "truncated", NEW e \in PageEnds
    PROVE  /\ e \in 0 .. total
           /\ Extended(e) \in Seq(Nat) /\ Len(Extended(e)) = e
           /\ \A i \in 1 .. e : Extended(e)[i] = i
<1> DEFINE page == [i \in 1 .. e - cursor |-> cursor + i]
<1>1. total \in Nat /\ cursor \in Nat /\ cursor <= total /\ out \in Seq(Nat) /\ Len(out) = cursor
  BY PagedReadAssumption DEF ReadTypes, RowsRead
<1>2. e \in Nat /\ e <= total /\ e - cursor \in Nat
  BY <1>1, PagedReadAssumption DEF PageEnds
<1>3. page \in Seq(Nat) /\ Len(page) = e - cursor /\ \A i \in 1 .. e - cursor : page[i] = cursor + i
  BY <1>1, <1>2
<1> HIDE DEF page
<1> DEFINE read == out \o page
<1>4. /\ read \in Seq(Nat) /\ Len(read) = Len(out) + Len(page)
      /\ \A i \in 1 .. Len(out) + Len(page) :
            read[i] = IF i <= Len(out) THEN out[i] ELSE page[i - Len(out)]
  BY <1>1, <1>3, ConcatProperties
<1> HIDE DEF read
<1>5. \A i \in 1 .. e : read[i] = i
  <2> SUFFICES ASSUME NEW i \in 1 .. e PROVE read[i] = i
    OBVIOUS
  <2>1. CASE i <= cursor
    <3>1. i \in 1 .. Len(out) /\ i \in 1 .. Len(out) + Len(page)
      BY <1>1, <1>2, <1>3, <2>1
    <3>2. out[i] = i
      BY <3>1 DEF RowsRead
    <3>3. i <= Len(out)
      BY <1>1, <2>1
    <3>4. read[i] = out[i]
      BY <1>4, <3>1, <3>3
    <3> QED
      BY <3>2, <3>4
  <2>2. CASE i > cursor
    <3>1. i - cursor \in 1 .. e - cursor
      BY <1>1, <1>2, <2>2
    <3>2. ~(i <= Len(out)) /\ i \in 1 .. Len(out) + Len(page) /\ i - Len(out) = i - cursor
      BY <1>1, <1>2, <1>3, <2>2
    <3>3. read[i] = page[i - cursor]
      BY <1>4, <3>2
    <3>4. page[i - cursor] = cursor + (i - cursor)
      BY <1>3, <3>1
    <3> QED
      BY <1>1, <3>3, <3>4
  <2> QED
    BY <1>1, <1>2, <2>1, <2>2
<1> QED
  BY <1>1, <1>2, <1>3, <1>4, <1>5 DEF Extended, page, read

\* Whatever the node serves, it keeps the cursors it has, and gives out ids in order.
LEMMA Served ==
    ASSUME ReadTypes, NEW e \in PageEnds, Serve(e)
    PROVE  /\ lastId' \in Nat /\ lastId <= lastId'
           /\ cursors' \in SUBSET ((1 .. lastId') \X (1 .. MaxTotal))
           /\ cursors \subseteq cursors' /\ restarts' = restarts
           /\ ServedId \in 0 .. lastId'
           /\ e < total => <<ServedId, e>> \in cursors'
           /\ cursor = FirstPage => lastId' = lastId + 1
<1>1. total \in Nat /\ MaxTotal \in Nat /\ total <= MaxTotal /\ cursor \in Nat /\ lastId \in Nat
  BY PagedReadAssumption DEF ReadTypes
<1>2. e \in Nat /\ (e < total => e \in 1 .. MaxTotal)
  BY <1>1, PagedReadAssumption DEF PageEnds
<1>3. lastId' \in Nat /\ lastId <= lastId' /\ (cursor = FirstPage => lastId' = lastId + 1)
  BY <1>1 DEF Serve
<1>4. ServedId \in 1 .. lastId'
  <2>1. CASE cursor = FirstPage
    BY <1>1, <1>3, <2>1 DEF ServedId
  <2>2. CASE cursor # FirstPage
    <3>1. <<queryId, cursor>> \in cursors
      BY <2>2 DEF Serve, Known
    <3>2. queryId \in 1 .. lastId
      BY <3>1 DEF ReadTypes
    <3> QED
      BY <1>1, <1>3, <2>2, <3>2 DEF ServedId
  <2> QED
    BY <2>1, <2>2
<1>5. cursors \in SUBSET ((1 .. lastId') \X (1 .. MaxTotal))
  BY <1>1, <1>3 DEF ReadTypes
<1> QED
  BY <1>1, <1>2, <1>3, <1>4, <1>5 DEF Serve

LEMMA ReadInitially == ReadInit => ReadInv
<1> SUFFICES ASSUME ReadInit PROVE ReadInv
  OBVIOUS
<1>1. ReadTypes
  BY PagedReadAssumption DEF ReadInit, ReadTypes, FirstPage, NoQueryId
<1>2. RowsRead /\ EndsWell /\ CursorOpen
  BY DEF ReadInit, RowsRead, EndsWell, CursorOpen, Known, FirstPage
<1> QED
  BY <1>1, <1>2 DEF ReadInv

\* The reply arrives.
LEMMA PageRead ==
    ASSUME ReadInv, GetPage
    PROVE  ReadInv'
<1> PICK e \in PageEnds :
        /\ Serve(e)
        /\ result' = Verdict(Extended(e), e)
        /\ out' = IF result' = "truncated" THEN SubSeq(Extended(e), 1, rowCap) ELSE Extended(e)
        /\ cursor' = e
        /\ queryId' = QueryIdAfter(ServedId)
        /\ attempt' = 0
        /\ UNCHANGED question
  BY DEF GetPage
<1> DEFINE read == Extended(e)
<1>1. ReadTypes /\ RowsRead /\ result = "reading"
  BY DEF ReadInv, GetPage
<1>2. /\ e \in 0 .. total /\ read \in Seq(Nat) /\ Len(read) = e
      /\ \A i \in 1 .. e : read[i] = i
  BY <1>1, PageAdded
<1> HIDE DEF read
<1>3. /\ lastId' \in Nat /\ cursors' \in SUBSET ((1 .. lastId') \X (1 .. MaxTotal))
      /\ restarts' = restarts /\ ServedId \in 0 .. lastId'
      /\ e < total => <<ServedId, e>> \in cursors'
  BY <1>1, Served
<1>4. /\ total' = total /\ rowCap' = rowCap /\ total \in Nat /\ rowCap \in Nat \ {0}
      /\ MaxTotal \in Nat /\ MaxRetries \in Nat
  BY <1>1, PagedReadAssumption DEF ReadTypes, question, NoCap
<1>5. result' \in {"reading", "complete", "truncated"}
  BY DEF Verdict
<1>6. result' = "complete" => e = total
  BY DEF Verdict
<1>7. result' = "truncated" => rowCap <= e /\ e < total
  BY <1>2, <1>4 DEF Verdict, read
<1>8. result' = "reading" => e < total
  BY <1>2, <1>4 DEF Verdict
<1>9. /\ out' \in Seq(Nat)
      /\ Len(out') = IF result' = "truncated" THEN rowCap ELSE e
      /\ \A i \in 1 .. Len(out') : out'[i] = i
  <2>1. CASE result' # "truncated"
    BY <1>2, <2>1 DEF read
  <2>2. CASE result' = "truncated"
    <3>1. out' = SubSeq(read, 1, rowCap)
      BY <2>2 DEF read
    <3>2. 1 \in 1 .. Len(read) + 1 /\ rowCap \in 0 .. Len(read) /\ rowCap <= e
      BY <1>2, <1>4, <1>7, <2>2
    <3>3. /\ out' \in Seq(Nat) /\ Len(out') = rowCap
          /\ \A i \in 1 .. rowCap : out'[i] = read[i]
      BY <1>2, <1>4, <3>1, <3>2
    <3> QED
      BY <1>2, <1>4, <2>2, <3>2, <3>3
  <2> QED
    BY <2>1, <2>2
<1>10. ReadTypes'
  <2>1. total' \in 0 .. MaxTotal /\ rowCap' \in 1 .. NoCap
    BY <1>1, <1>4 DEF ReadTypes
  <2>2. cursor' \in 0 .. total' /\ queryId' \in 0 .. lastId' /\ attempt' \in 0 .. MaxRetries
    BY <1>2, <1>3, <1>4 DEF QueryIdAfter
  <2>3. restarts' \in Nat
    BY <1>1, <1>3 DEF ReadTypes
  <2> QED
    BY <1>3, <1>9, <2>1, <2>2, <2>3 DEF ReadTypes, NoCap
<1>11. RowsRead'
  BY <1>4, <1>9 DEF RowsRead
<1>12. EndsWell'
  BY <1>2, <1>4, <1>6, <1>7 DEF EndsWell
<1>13. CursorOpen'
  BY <1>3, <1>5, <1>8 DEF CursorOpen, Known, QueryIdAfter
<1> QED
  BY <1>10, <1>11, <1>12, <1>13 DEF ReadInv

LEMMA WiderRange ==
    ASSUME NEW a \in Nat, NEW b \in Nat, a <= b, NEW q \in 0 .. a
    PROVE  q \in 0 .. b
OBVIOUS

\* The node has been asked, and nothing of it has come in.
LEMMA Unread ==
    ASSUME ReadInv, result = "reading",
           UNCHANGED <<question, cursor, queryId, out>>,
           attempt' \in 0 .. MaxRetries,
           result' \in {"reading", "gave up", "uncaught", "refused"},
           lastId' \in Nat, lastId <= lastId',
           cursors' \in SUBSET ((1 .. lastId') \X (1 .. MaxTotal)),
           restarts' \in Nat,
           restarts' = 0 => restarts = 0 /\ cursors \subseteq cursors',
           result' = "refused" => restarts' > 0
    PROVE  ReadInv'
<1>1. UNCHANGED <<total, rowCap, cursor, queryId, out>>
  BY DEF question
<1>2. queryId' \in 0 .. lastId'
  <2>1. lastId \in Nat /\ queryId \in 0 .. lastId
    BY DEF ReadInv, ReadTypes
  <2>2. queryId \in 0 .. lastId'
    BY <2>1, WiderRange
  <2> QED
    BY <1>1, <2>2
<1>3. ReadTypes'
  BY <1>1, <1>2 DEF ReadInv, ReadTypes, NoCap
<1>4. RowsRead' /\ EndsWell'
  BY <1>1 DEF ReadInv, RowsRead, EndsWell
<1>5. CursorOpen'
  BY DEF ReadInv, CursorOpen, Known
<1> QED
  BY <1>3, <1>4, <1>5 DEF ReadInv

LEMMA ReadStep == ReadInv /\ [ReadNext]_readVars => ReadInv'
<1> SUFFICES ASSUME ReadInv, [ReadNext]_readVars PROVE ReadInv'
  OBVIOUS
<1>0. /\ ReadTypes /\ lastId \in Nat /\ attempt \in 0 .. MaxRetries /\ restarts \in Nat
      /\ cursors \in SUBSET ((1 .. lastId) \X (1 .. MaxTotal))
  BY DEF ReadInv, ReadTypes
<1>1. CASE GetPage
  BY <1>1, PageRead
<1>2. ASSUME result = "reading", NEW e \in PageEnds, Serve(e)
      PROVE  /\ lastId' \in Nat /\ lastId <= lastId'
             /\ cursors' \in SUBSET ((1 .. lastId') \X (1 .. MaxTotal))
             /\ cursors \subseteq cursors' /\ restarts' = restarts
  BY <1>0, <1>2, Served
<1>3. ASSUME Retry
      PROVE  /\ attempt' \in 0 .. MaxRetries /\ result' \in {result, "gave up"}
             /\ UNCHANGED <<question, cursor, queryId, out>>
  <2>1. UNCHANGED <<question, cursor, queryId, out>>
    BY <1>3 DEF Retry
  <2>2. CASE attempt = MaxRetries
    BY <1>0, <1>3, <2>1, <2>2 DEF Retry
  <2>3. CASE attempt # MaxRetries
    <3>1. attempt' = attempt + 1 /\ result' = result
      BY <1>3, <2>3 DEF Retry
    <3>2. attempt + 1 \in 0 .. MaxRetries
      BY <1>0, <2>3, PagedReadAssumption
    <3> QED
      BY <2>1, <3>1, <3>2
  <2> QED
    BY <2>2, <2>3
<1>4. CASE LoseReply
  <2>1. /\ result = "reading" /\ attempt' \in 0 .. MaxRetries /\ result' \in {"reading", "gave up"}
        /\ UNCHANGED <<question, cursor, queryId, out>>
    BY <1>3, <1>4 DEF LoseReply
  <2>2. /\ lastId' \in Nat /\ lastId <= lastId'
        /\ cursors' \in SUBSET ((1 .. lastId') \X (1 .. MaxTotal))
        /\ cursors \subseteq cursors' /\ restarts' = restarts
    BY <1>2, <1>4 DEF LoseReply
  <2> QED
    BY <1>0, <2>1, <2>2, Unread
<1>5. CASE FailTransiently
  <2>1. /\ result = "reading" /\ attempt' \in 0 .. MaxRetries /\ result' \in {"reading", "gave up"}
        /\ UNCHANGED <<question, cursor, queryId, out>>
    BY <1>3, <1>5 DEF FailTransiently
  <2>2. /\ lastId' \in Nat /\ lastId <= lastId' /\ cursors' = cursors /\ restarts' = restarts
        /\ cursors' \in SUBSET ((1 .. lastId') \X (1 .. MaxTotal))
    BY <1>0, <1>5 DEF FailTransiently, nodeState
  <2> QED
    BY <1>0, <2>1, <2>2, Unread
<1>6. CASE Refuse
  <2>1. restarts # 0
    BY <1>6 DEF Refuse, ReadInv, CursorOpen
  <2> QED
    BY <1>0, <1>6, <2>1, Unread DEF Refuse, nodeState
<1>7. CASE CutReply
  BY <1>0, <1>2, <1>7, Unread DEF CutReply
<1>8. CASE Restart
  <2>1. restarts' \in Nat /\ restarts' > 0 /\ cursors' = {}
        /\ UNCHANGED <<question, lastId, cursor, queryId, attempt, out, result>>
    BY <1>0, <1>8 DEF Restart
  <2>2. total' = total /\ rowCap' = rowCap
    BY <2>1 DEF question
  <2> QED
    BY <1>0, <2>1, <2>2 DEF ReadInv, ReadTypes, RowsRead, EndsWell, CursorOpen, NoCap
<1>9. CASE UNCHANGED readVars
  BY <1>9 DEF readVars, ReadInv, ReadTypes, RowsRead, EndsWell, CursorOpen, Known, NoCap, FirstPage
<1> QED
  BY <1>1, <1>4, <1>5, <1>6, <1>7, <1>8, <1>9 DEF ReadNext

\* query, paged_rows: the rows read are the first rows of the result, each once,
\* however often a page is asked for again; the labels of the read are exact; and
\* only a node that has been restarted refuses a continuation.
THEOREM ExactRead == ReadSpec => []ReadIsExact
<1>1. ReadInv => ReadIsExact
  <2> SUFFICES ASSUME ReadInv PROVE ReadIsExact
    OBVIOUS
  <2>1. ReadTypeOK
    BY DEF ReadInv, ReadTypes, RowsRead, EndsWell, ReadTypeOK
  <2>2. RowsInOrder
    BY DEF ReadInv, RowsRead, RowsInOrder
  <2>3. TruncatedIsExact
    BY DEF ReadInv, RowsRead, EndsWell, TruncatedIsExact
  <2>4. RefusedOnlyAfterRestart
    BY DEF ReadInv, CursorOpen, RefusedOnlyAfterRestart
  <2> QED
    BY <2>1, <2>2, <2>3, <2>4 DEF ReadIsExact
<1> QED
  BY <1>1, ReadInitially, ReadStep, PTL DEF ReadSpec

-----------------------------------------------------------------------------
(* The checkout.                                                           *)

Branches == SUBSET Nat
Directories == [exists : BOOLEAN, head : Branches, origin : Branches, index : BOOLEAN]

CheckoutTypes ==
    /\ isLocal \in BOOLEAN
    /\ made \in Nat
    /\ remote \in Branches
    /\ target \in Directories

\* What the directory would be built as, by a run that asks for everything.
Buildable == IF target.exists /\ target.index THEN target.head ELSE {}

\* What is built of a clone is what it was made with, or some of it.
BuiltOK ==
    /\ ~isLocal => built \subseteq Buildable
    /\ phase = "load" => isLocal \/ target.exists

CheckoutInv == CheckoutTypes /\ BuiltOK

LEMMA CheckoutInitially == Init => CheckoutInv
BY DEF Init, CheckoutInv, CheckoutTypes, BuiltOK, Buildable, Directories, NoDirectory, Branches

LEMMA CloneTypes ==
    ASSUME NEW b \in Branches
    PROVE  /\ CloneOf(b) \in Directories /\ NoDirectory \in Directories
           /\ CloneOf(b).exists /\ CloneOf(b).index /\ CloneOf(b).head = b
           /\ [CloneOf(b) EXCEPT !.index = FALSE] \in Directories
BY DEF CloneOf, NoDirectory, Directories, Branches

\* A build is of what the directory holds, as far as it was asked for.
LEMMA LoadBuilds ==
    ASSUME CheckoutInv, Load
    PROVE  built' = (IF isLocal THEN remote ELSE Buildable) \intersect window
<1>1. CASE isLocal
  BY <1>1, CloneTypes DEF CheckoutInv, CheckoutTypes, Load, Source
<1>2. CASE ~isLocal
  BY <1>2 DEF CheckoutInv, BuiltOK, Load, Source, Buildable
<1> QED
  BY <1>1, <1>2

Lost == \A c \in built \ built' : c \notin window \/ (isLocal /\ c \notin remote)

LEMMA CheckoutStep == CheckoutInv /\ [Next]_vars => CheckoutInv' /\ Lost
<1> SUFFICES ASSUME CheckoutInv, [Next]_vars PROVE CheckoutInv' /\ Lost
  OBVIOUS
<1>0. isLocal \in BOOLEAN /\ made \in Nat /\ remote \in Branches /\ target \in Directories
  BY DEF CheckoutInv, CheckoutTypes
<1> USE DEF Lost, CheckoutInv, CheckoutTypes, BuiltOK, Buildable
<1>1. CASE Push
  <2>1. made' \in Nat /\ remote' \in Branches
    BY <1>0, <1>1 DEF Push, Branches
  <2> QED
    BY <1>0, <1>1, <2>1 DEF Push
<1>2. CASE Rewrite
  <2>1. remote' \in Branches
    BY <1>0, <1>2 DEF Rewrite, Branches
  <2> QED
    BY <1>0, <1>2, <2>1 DEF Rewrite
<1>3. CASE StartRun
  BY <1>0, <1>3 DEF StartRun
<1>4. CASE Found
  BY <1>0, <1>4 DEF Found
<1>5. CASE Fetch
  <2>1. /\ target' = [target EXCEPT !.origin = remote] /\ target.exists /\ ~isLocal
        /\ UNCHANGED <<isLocal, made, remote, built>>
    BY <1>5 DEF Fetch, Fetched
  <2>2. /\ target' \in Directories /\ target'.exists = target.exists
        /\ target'.index = target.index /\ target'.head = target.head
    BY <1>0, <2>1 DEF Directories
  <2> QED
    BY <1>0, <2>1, <2>2
<1>6. CASE Clone
  <2>1. /\ target' = CloneOf(remote) /\ ~target.exists /\ ~isLocal
        /\ UNCHANGED <<isLocal, made, remote, built>>
    BY <1>6 DEF Clone
  <2>2. target' \in Directories /\ target'.exists
    BY <1>0, <2>1, CloneTypes
  <2>3. built = {}
    BY <2>1
  <2> QED
    BY <1>0, <2>1, <2>2, <2>3
<1>7. CASE FetchFails
  BY <1>0, <1>7 DEF FetchFails
<1>8. CASE CloneFails
  <2>1. /\ target' \in Remains /\ ~target.exists /\ ~isLocal /\ phase' = "idle"
        /\ UNCHANGED <<isLocal, made, remote, built>>
    BY <1>8 DEF CloneFails
  <2>2. target' \in Directories
    <3>1. CASE target' = NoDirectory
      BY <1>0, <3>1, CloneTypes
    <3>2. ASSUME NEW b \in {{}, remote}, target' = [CloneOf(b) EXCEPT !.index = FALSE]
          PROVE  target' \in Directories
      <4>1. b \in Branches
        BY <1>0 DEF Branches
      <4> QED
        BY <3>2, <4>1, CloneTypes
    <3> QED
      BY <2>1, <3>1, <3>2 DEF Remains
  <2>3. built = {}
    BY <2>1
  <2> QED
    BY <1>0, <2>1, <2>2, <2>3
<1>9. CASE Load
  <2>1. built' = (IF isLocal THEN remote ELSE Buildable) \intersect window
    BY <1>9, LoadBuilds
  <2>2. UNCHANGED <<isLocal, made, remote, target>> /\ phase' = "idle"
    BY <1>9 DEF Load
  <2> QED
    BY <1>0, <2>1, <2>2
<1>10. CASE UNCHANGED vars
  BY <1>0, <1>10 DEF vars
<1> QED
  BY <1>1, <1>2, <1>3, <1>4, <1>5, <1>6, <1>7, <1>8, <1>9, <1>10 DEF Next

\* materialize, load_history: what a build had and the next one lacks is outside
\* the window of that run, or off the branch of a local checkout.
THEOREM BuildsLose == Spec => BuildsLoseByChoice
<1>1. CheckoutInv /\ [Next]_vars => CheckoutInv'
  BY CheckoutStep
<1>2. CheckoutInv /\ [Next]_vars =>
        [\A c \in built \ built' : c \notin window \/ (isLocal /\ c \notin remote)]_vars
  BY CheckoutStep DEF Lost
<1> QED
  BY <1>1, <1>2, CheckoutInitially, PTL DEF Spec, BuildsLoseByChoice

-----------------------------------------------------------------------------
(* The demo seed.                                                          *)

States == {"none", "partial", "whole"}
Pcs == {"idle", "collected", "staging", "closed", "writing", "written", "reported"}

\* A dataset that has the constructed repository says what it is.
Honest(d) == Acme \in d.repos => Acme \in d.synthetic

SeedTypes ==
    /\ artifact \in [state : States, data : Datasets]
    /\ staged \in [Invocations -> [state : States, data : Datasets]]
    /\ call \in [Invocations -> [pc : Pcs, data : Datasets]]
    /\ labelled \subseteq SeedRepos

\* Every dataset that is read, staged or exported is honest.
DataOK ==
    /\ Honest(artifact.data)
    /\ \A c \in Invocations : Honest(staged[c].data) /\ Honest(call[c].data)

\* Only whole files are put in place.
FilesOK ==
    /\ artifact.state # "partial"
    /\ \A c \in Invocations : At(c, "closed") => staged[c].state = "whole"

SeedInv == SeedTypes /\ DataOK /\ FilesOK /\ ReportedIsLabelled

LEMMA DatasetTypes ==
    /\ Nothing \in Datasets /\ Honest(Nothing)
    /\ NoFile \in [state : States, data : Datasets] /\ NoFile.state # "partial"
    /\ NoFile.data = Nothing
    /\ \A d \in Datasets :
        /\ Partial(d) \in [state : States, data : Datasets] /\ Partial(d).data = d
        /\ Whole(d) \in [state : States, data : Datasets] /\ Whole(d).data = d
        /\ Whole(d).state = "whole"
BY DEF Nothing, Datasets, Honest, NoFile, Partial, Whole, States

LEMMA SeedInitially == SeedInit => SeedInv
<1> SUFFICES ASSUME SeedInit PROVE SeedInv
  OBVIOUS
<1>1. Idle \in [pc : Pcs, data : Datasets] /\ Idle.data = Nothing /\ Idle.pc = "idle"
  BY DatasetTypes DEF Idle, Pcs
<1>2. SeedTypes
  <2>1. artifact \in [state : States, data : Datasets] /\ labelled \subseteq SeedRepos
    BY DatasetTypes DEF SeedInit
  <2>2. staged \in [Invocations -> [state : States, data : Datasets]]
    BY DatasetTypes DEF SeedInit
  <2>3. call \in [Invocations -> [pc : Pcs, data : Datasets]]
    BY <1>1 DEF SeedInit
  <2> QED
    BY <2>1, <2>2, <2>3 DEF SeedTypes
<1>3. /\ artifact.data = Nothing /\ artifact.state # "partial"
      /\ \A c \in Invocations :
            staged[c].data = Nothing /\ call[c].data = Nothing /\ call[c].pc = "idle"
  <2>1. artifact = NoFile /\ \A c \in Invocations : staged[c] = NoFile /\ call[c] = Idle
    BY DEF SeedInit
  <2> QED
    BY <1>1, <2>1, DatasetTypes
<1>4. DataOK /\ FilesOK /\ ReportedIsLabelled
  BY <1>3, DatasetTypes DEF DataOK, FilesOK, ReportedIsLabelled, At
<1> QED
  BY <1>2, <1>4 DEF SeedInv

\* WithSynthetic makes honest data of honest data.
LEMMA SyntheticIsHonest ==
    ASSUME NEW d \in Datasets, Honest(d), NEW noSynthetic \in BOOLEAN
    PROVE  WithSynthetic(d, noSynthetic) \in Datasets /\ Honest(WithSynthetic(d, noSynthetic))
<1>1. CASE noSynthetic
  BY <1>1 DEF WithSynthetic, Datasets, Honest
<1>2. CASE ~noSynthetic /\ Acme \in d.repos
  BY <1>2 DEF WithSynthetic
<1>3. CASE ~noSynthetic /\ Acme \notin d.repos
  BY <1>3 DEF WithSynthetic, Datasets, Honest, SeedRepos
<1> QED
  BY <1>1, <1>2, <1>3

\* One invocation's step: where it is, what it has staged, and the file.
LEMMA SeedMoves ==
    ASSUME SeedInv, NEW c \in Invocations, NEW pc \in Pcs, NEW d \in Datasets, Honest(d),
           call' = [call EXCEPT ![c] = [pc |-> pc, data |-> d]],
           pc = "closed" => staged'[c].state = "whole",
           pc = "reported" /\ Acme \in d.repos => Acme \in labelled',
           staged' \in [Invocations -> [state : States, data : Datasets]],
           \A x \in Invocations \ {c} : staged'[x] = staged[x],
           Honest(staged'[c].data),
           artifact' \in [state : States, data : Datasets],
           artifact'.state # "partial", Honest(artifact'.data),
           labelled' \subseteq SeedRepos, Acme \in labelled => Acme \in labelled'
    PROVE  SeedInv'
<1>1. /\ call' \in [Invocations -> [pc : Pcs, data : Datasets]]
      /\ call'[c].pc = pc /\ call'[c].data = d
      /\ \A x \in Invocations \ {c} : call'[x] = call[x]
  BY DEF SeedInv, SeedTypes
<1>2. SeedTypes'
  BY <1>1 DEF SeedTypes
<1>3. DataOK'
  BY <1>1 DEF SeedInv, DataOK, Honest
<1>4. FilesOK'
  BY <1>1 DEF SeedInv, FilesOK, At
<1>5. ReportedIsLabelled'
  BY <1>1 DEF SeedInv, ReportedIsLabelled, At
<1> QED
  BY <1>2, <1>3, <1>4, <1>5 DEF SeedInv

\* What an invocation's dataset is, and what it may move to.
LEMMA SeedState ==
    ASSUME SeedInv, NEW c \in Invocations
    PROVE  /\ call[c].data \in Datasets /\ Honest(call[c].data)
           /\ call[c] = [pc |-> call[c].pc, data |-> call[c].data]
           /\ artifact \in [state : States, data : Datasets] /\ artifact.state # "partial"
           /\ Honest(artifact.data) /\ artifact.data \in Datasets
           /\ staged \in [Invocations -> [state : States, data : Datasets]]
           /\ Honest(staged[c].data) /\ labelled \subseteq SeedRepos
           /\ Idle = [pc |-> "idle", data |-> Nothing]
           /\ \A pc : Moves(c, pc) =>
                call' = [call EXCEPT ![c] = [pc |-> pc, data |-> call[c].data]]
<1>1. call[c] \in [pc : Pcs, data : Datasets]
  BY DEF SeedInv, SeedTypes
<1>2. call[c] = [pc |-> call[c].pc, data |-> call[c].data]
  BY <1>1
<1>3. \A pc : [call[c] EXCEPT !.pc = pc] = [pc |-> pc, data |-> call[c].data]
  BY <1>1
<1>4. \A pc : Moves(c, pc) =>
            call' = [call EXCEPT ![c] = [pc |-> pc, data |-> call[c].data]]
  BY <1>3 DEF Moves
<1> QED
  BY <1>1, <1>2, <1>4 DEF SeedInv, SeedTypes, DataOK, FilesOK, Idle

\* A step that touches no file and no label.
LEMMA SeedPasses ==
    ASSUME SeedInv, NEW c \in Invocations, NEW pc \in Pcs \ {"closed", "reported"},
           NEW d \in Datasets, Honest(d),
           call' = [call EXCEPT ![c] = [pc |-> pc, data |-> d]],
           UNCHANGED <<artifact, staged, labelled>>
    PROVE  SeedInv' /\ labelled' = labelled
<1>1. /\ staged' = staged /\ artifact' = artifact /\ labelled' = labelled
      /\ staged \in [Invocations -> [state : States, data : Datasets]]
      /\ artifact \in [state : States, data : Datasets] /\ artifact.state # "partial"
      /\ Honest(artifact.data) /\ Honest(staged[c].data) /\ labelled \subseteq SeedRepos
  BY SeedState
<1>2. pc \in Pcs /\ pc # "closed" /\ pc # "reported"
  OBVIOUS
<1> QED
  BY <1>1, <1>2, SeedMoves

LEMMA CollectStep ==
    ASSUME SeedInv, NEW c \in Invocations, Collect(c)
    PROVE  SeedInv' /\ labelled' = labelled
<1>1. PICK source \in {"auto", "file", "snapshots", "graph", "graph-file"},
           haveSnapshots \in BOOLEAN, noSynthetic \in BOOLEAN :
        LET chosen == Chosen(source, haveSnapshots)
            data == IF chosen = "file" THEN ReadDataset(artifact)
                    ELSE [repos |-> {Real}, synthetic |-> {}]
        IN  call' = [call EXCEPT ![c] = [pc |-> "collected",
                                         data |-> WithSynthetic(data, noSynthetic)]]
  BY DEF Collect
<1> DEFINE read == IF Chosen(source, haveSnapshots) = "file" THEN ReadDataset(artifact)
                   ELSE [repos |-> {Real}, synthetic |-> {}]
           d == WithSynthetic(read, noSynthetic)
<1>2. call' = [call EXCEPT ![c] = [pc |-> "collected", data |-> d]]
  BY <1>1
<1>3. UNCHANGED <<incident, artifact, staged, node, marked, labelled>>
  BY DEF Collect, files, store
<1>4. read \in Datasets /\ Honest(read)
  BY SeedState, SeedAssumption DEF ReadDataset, Datasets, Honest, SeedRepos
<1> HIDE DEF read
<1>5. d \in Datasets /\ Honest(d)
  BY <1>4, SyntheticIsHonest
<1> HIDE DEF d
<1>6. "collected" \in Pcs \ {"closed", "reported"}
  BY DEF Pcs
<1> QED
  BY <1>2, <1>3, <1>5, <1>6, SeedPasses

\* An invocation that stops, wherever it was, leaves the labels alone; what it
\* had staged it takes away, or leaves.
LEMMA EndStep ==
    ASSUME SeedInv, NEW c \in Invocations, Ends(c),
           artifact' = artifact \/ (artifact' = staged[c] /\ At(c, "closed")),
           staged' = staged \/ staged' = [staged EXCEPT ![c] = NoFile],
           labelled' = labelled
    PROVE  SeedInv'
<1>1. /\ Idle = [pc |-> "idle", data |-> Nothing] /\ Nothing \in Datasets /\ Honest(Nothing)
      /\ labelled \subseteq SeedRepos
      /\ staged \in [Invocations -> [state : States, data : Datasets]]
      /\ NoFile \in [state : States, data : Datasets] /\ NoFile.data = Nothing
      /\ Honest(staged[c].data)
  BY SeedState, DatasetTypes
<1>2. call' = [call EXCEPT ![c] = [pc |-> "idle", data |-> Nothing]]
  BY <1>1 DEF Ends
<1>3. /\ staged' \in [Invocations -> [state : States, data : Datasets]]
      /\ \A x \in Invocations \ {c} : staged'[x] = staged[x]
      /\ Honest(staged'[c].data)
  <2>1. CASE staged' = staged
    BY <1>1, <2>1
  <2>2. CASE staged' = [staged EXCEPT ![c] = NoFile]
    BY <1>1, <2>2
  <2> QED
    BY <2>1, <2>2
<1>4. /\ artifact' \in [state : States, data : Datasets]
      /\ artifact'.state # "partial" /\ Honest(artifact'.data)
  <2>1. CASE artifact' = artifact
    BY <2>1, SeedState
  <2>2. CASE artifact' = staged[c] /\ At(c, "closed")
    BY <1>1, <2>2 DEF SeedInv, FilesOK
  <2> QED
    BY <2>1, <2>2
<1>5. "idle" \in Pcs /\ "idle" # "closed" /\ "idle" # "reported"
  BY DEF Pcs
<1> QED
  BY <1>1, <1>2, <1>3, <1>4, <1>5, SeedMoves

LEMMA StageStep ==
    ASSUME SeedInv, NEW c \in Invocations, Stage(c) \/ Close(c)
    PROVE  SeedInv' /\ labelled' = labelled
<1> DEFINE d == call[c].data
           file == IF Close(c) THEN Whole(d) ELSE Partial(d)
           pc == IF Close(c) THEN "closed" ELSE "staging"
<1>0. /\ d \in Datasets /\ Honest(d) /\ labelled \subseteq SeedRepos
      /\ artifact \in [state : States, data : Datasets] /\ artifact.state # "partial"
      /\ Honest(artifact.data)
      /\ staged \in [Invocations -> [state : States, data : Datasets]]
  BY SeedState
<1>1. /\ staged' = [staged EXCEPT ![c] = file] /\ Moves(c, pc)
      /\ artifact' = artifact /\ labelled' = labelled
  BY DEF Stage, Close, StagingName, store
<1>2. /\ file \in [state : States, data : Datasets] /\ file.data = d
      /\ pc = "closed" => file.state = "whole"
  BY <1>0, DatasetTypes
<1>3. pc \in Pcs /\ pc # "reported"
  BY DEF Pcs
<1> HIDE DEF d, file, pc
<1>4. /\ staged' \in [Invocations -> [state : States, data : Datasets]]
      /\ staged'[c] = file /\ \A x \in Invocations \ {c} : staged'[x] = staged[x]
  BY <1>0, <1>1, <1>2
<1>5. call' = [call EXCEPT ![c] = [pc |-> pc, data |-> d]]
  BY <1>1, SeedState DEF d
<1> QED
  BY <1>0, <1>1, <1>2, <1>3, <1>4, <1>5, SeedMoves

LEMMA ProvenanceStep ==
    ASSUME SeedInv, NEW c \in Invocations, WriteProvenance(c)
    PROVE  SeedInv' /\ (Acme \in labelled => Acme \in labelled')
<1> DEFINE d == call[c].data
<1>0. /\ d \in Datasets /\ Honest(d) /\ labelled \subseteq SeedRepos
      /\ artifact \in [state : States, data : Datasets] /\ artifact.state # "partial"
      /\ Honest(artifact.data) /\ Honest(staged[c].data)
      /\ staged \in [Invocations -> [state : States, data : Datasets]]
  BY SeedState
<1>1. /\ labelled' = (labelled \ d.repos) \union d.synthetic
      /\ Moves(c, "reported") /\ artifact' = artifact /\ staged' = staged
  BY DEF WriteProvenance, Stamped, files
<1>2. call' = [call EXCEPT ![c] = [pc |-> "reported", data |-> d]]
  BY <1>1, SeedState
<1> HIDE DEF d
<1>3. /\ labelled' \subseteq SeedRepos /\ (Acme \in labelled => Acme \in labelled')
      /\ Acme \in d.repos => Acme \in labelled'
  BY <1>0, <1>1 DEF Honest, Datasets, SeedRepos
<1>4. "reported" \in Pcs /\ "reported" # "closed"
  BY DEF Pcs
<1> QED
  BY <1>0, <1>1, <1>2, <1>3, <1>4, SeedMoves

LEMMA SeedStep ==
    SeedInv /\ [SeedNext]_seedVars => SeedInv' /\ (Acme \in labelled => Acme \in labelled')
<1> SUFFICES ASSUME SeedInv, [SeedNext]_seedVars
             PROVE  SeedInv' /\ (Acme \in labelled => Acme \in labelled')
  OBVIOUS
<1>1. ASSUME NEW c \in Invocations, Step(c)
      PROVE  SeedInv' /\ (Acme \in labelled => Acme \in labelled')
  <2>0. /\ call[c].data \in Datasets /\ Honest(call[c].data)
        /\ \A pc : Moves(c, pc) =>
                call' = [call EXCEPT ![c] = [pc |-> pc, data |-> call[c].data]]
    BY SeedState
  <2>1. CASE Collect(c)
    BY <2>1, CollectStep
  <2>2. CASE Stage(c) \/ Close(c)
    BY <2>2, StageStep
  <2>3. CASE Plan(c) \/ Dies(c) \/ Returns(c)
    <3>1. Ends(c) /\ UNCHANGED <<artifact, staged, labelled>>
      BY <2>3 DEF Plan, Dies, Returns, files, store
    <3> QED
      BY <3>1, EndStep
  <2>4. CASE Replace(c)
    <3>1. /\ Ends(c) /\ At(c, "closed") /\ artifact' = staged[c]
          /\ staged' = [staged EXCEPT ![c] = NoFile] /\ labelled' = labelled
      BY <2>4 DEF Replace, StagingName, store
    <3> QED
      BY <3>1, EndStep
  <2>5. CASE Interrupted(c)
    <3>1. /\ Ends(c) /\ artifact' = artifact
          /\ staged' = [staged EXCEPT ![c] = NoFile] /\ labelled' = labelled
      BY <2>5 DEF Interrupted, StagingName, store
    <3> QED
      BY <3>1, EndStep
  <2>6. CASE WriteNodes(c) \/ WriteWatermarks(c)
    <3>1. PICK pc \in {"writing", "written"} : Moves(c, pc)
      BY <2>6 DEF WriteNodes, WriteWatermarks
    <3>2. UNCHANGED <<artifact, staged, labelled>>
      BY <2>6 DEF WriteNodes, WriteWatermarks, files
    <3>3. pc \in Pcs \ {"closed", "reported"}
      BY DEF Pcs
    <3>4. call' = [call EXCEPT ![c] = [pc |-> pc, data |-> call[c].data]]
      BY <2>0, <3>1
    <3> QED
      BY <2>0, <3>2, <3>3, <3>4, SeedPasses
  <2>7. CASE WriteProvenance(c)
    BY <2>7, ProvenanceStep
  <2> QED
    BY <1>1, <2>1, <2>2, <2>3, <2>4, <2>5, <2>6, <2>7 DEF Step
<1>2. CASE UNCHANGED seedVars
  BY <1>2 DEF seedVars, SeedInv, SeedTypes, DataOK, FilesOK, ReportedIsLabelled, At, Honest
<1> QED
  BY <1>1, <1>2 DEF SeedNext

LEMMA SeedInvariant == SeedSpec => []SeedInv
<1>1. SeedInv /\ [SeedNext]_seedVars => SeedInv'
  BY SeedStep
<1> QED
  BY <1>1, SeedInitially, PTL DEF SeedSpec

\* write_dataset: no export, however it overlaps with others or is cut short,
\* puts a short file in place.
THEOREM WholeArtifact == SeedSpec => []ArtifactIsWhole
<1>1. SeedInv => ArtifactIsWhole
  BY DEF SeedInv, FilesOK, ArtifactIsWhole
<1> QED
  BY <1>1, SeedInvariant, PTL

\* write_provenance: an invocation that reports what it wrote has left the
\* constructed repository labelled.
THEOREM Labelled == SeedSpec => []ReportedIsLabelled
<1>1. SeedInv => ReportedIsLabelled
  BY DEF SeedInv
<1> QED
  BY <1>1, SeedInvariant, PTL

\* read_dataset, write_provenance: no seed takes the label away.
THEOREM LabelStays == SeedSpec => LabelIsNeverLost
<1>1. SeedInv /\ [SeedNext]_seedVars => [(Acme \in labelled) => (Acme \in labelled')]_seedVars
  BY SeedStep
<1> QED
  BY <1>1, SeedInvariant, PTL DEF SeedSpec, LabelIsNeverLost

-----------------------------------------------------------------------------
(* The constructed repository.                                             *)

Triples == Nat \X Nat \X Nat

LEMMA LessOnTriples ==
    ASSUME NEW u \in Triples, NEW v \in Triples
    PROVE  Less(u, v) <=> \/ u[1] < v[1]
                          \/ u[1] = v[1] /\ u[2] < v[2]
                          \/ u[1] = v[1] /\ u[2] = v[2] /\ u[3] < v[3]
<1>1. \A i \in 1 .. 3 : i = 1 \/ i = 2 \/ i = 3
  OBVIOUS
<1>2. /\ u[1] < v[1] => Less(u, v)
      /\ u[1] = v[1] /\ u[2] < v[2] => Less(u, v)
      /\ u[1] = v[1] /\ u[2] = v[2] /\ u[3] < v[3] => Less(u, v)
  BY <1>1 DEF Less, Triples
<1>3. ASSUME NEW i \in 1 .. 3, u[i] < v[i], \A j \in 1 .. i - 1 : u[j] = v[j]
      PROVE  \/ u[1] < v[1]
             \/ u[1] = v[1] /\ u[2] < v[2]
             \/ u[1] = v[1] /\ u[2] = v[2] /\ u[3] < v[3]
  <2>1. CASE i = 1
    BY <1>3, <2>1
  <2>2. CASE i = 2
    BY <1>3, <2>2
  <2>3. CASE i = 3
    BY <1>3, <2>3
  <2> QED
    BY <1>1, <2>1, <2>2, <2>3
<1> QED
  BY <1>2, <1>3 DEF Less

\* caret_allows is npm's range, for versions of any three numbers: from the pin
\* up to the next change of its leftmost number that is not zero.
LEMMA CaretIsTheRange ==
    ASSUME NEW pin \in Triples, NEW bad \in Triples
    PROVE  CaretAllows(pin, bad) <=> ~Less(bad, pin) /\ Less(bad, NextAfter(pin))
<1>0. /\ pin = <<pin[1], pin[2], pin[3]>> /\ bad = <<bad[1], bad[2], bad[3]>>
      /\ pin[1] \in Nat /\ pin[2] \in Nat /\ pin[3] \in Nat
      /\ bad[1] \in Nat /\ bad[2] \in Nat /\ bad[3] \in Nat
  BY DEF Triples
<1>1. NotNumeric \notin {pin, bad}
  <2>1. Len(NotNumeric) = 1 /\ Len(pin) = 3 /\ Len(bad) = 3
    BY <1>0 DEF NotNumeric
  <2> QED
    BY <2>1
<1>2. NextAfter(pin) \in Triples
  BY <1>0 DEF NextAfter, Triples
<1>3. ~Less(bad, pin) <=> \/ pin[1] < bad[1]
                          \/ pin[1] = bad[1] /\ pin[2] < bad[2]
                          \/ pin[1] = bad[1] /\ pin[2] = bad[2] /\ pin[3] <= bad[3]
  BY <1>0, LessOnTriples
<1>4. CASE pin[1] > 0
  <2>1. NextAfter(pin)[1] = pin[1] + 1 /\ NextAfter(pin)[2] = 0 /\ NextAfter(pin)[3] = 0
    BY <1>4 DEF NextAfter
  <2>2. Less(bad, NextAfter(pin)) <=> bad[1] <= pin[1]
    BY <1>0, <1>2, <2>1, LessOnTriples
  <2> QED
    BY <1>0, <1>1, <1>3, <1>4, <2>2 DEF CaretAllows
<1>5. CASE pin[1] = 0 /\ pin[2] > 0
  <2>1. NextAfter(pin)[1] = 0 /\ NextAfter(pin)[2] = pin[2] + 1 /\ NextAfter(pin)[3] = 0
    BY <1>5 DEF NextAfter
  <2>2. Less(bad, NextAfter(pin)) <=> bad[1] = 0 /\ bad[2] <= pin[2]
    BY <1>0, <1>2, <2>1, LessOnTriples
  <2> QED
    BY <1>0, <1>1, <1>3, <1>5, <2>2 DEF CaretAllows
<1>6. CASE pin[1] = 0 /\ pin[2] = 0
  <2>1. NextAfter(pin)[1] = 0 /\ NextAfter(pin)[2] = 0 /\ NextAfter(pin)[3] = pin[3] + 1
    BY <1>6 DEF NextAfter
  <2>2. Less(bad, NextAfter(pin)) <=> bad[1] = 0 /\ bad[2] = 0 /\ bad[3] <= pin[3]
    BY <1>0, <1>2, <2>1, LessOnTriples
  <2>3. bad = pin <=> bad[1] = pin[1] /\ bad[2] = pin[2] /\ bad[3] = pin[3]
    BY <1>0
  <2> QED
    BY <1>0, <1>1, <1>3, <1>6, <2>2, <2>3 DEF CaretAllows
<1> QED
  BY <1>0, <1>4, <1>5, <1>6

\* The malicious version is in the lockfile of the reinstall, where the range
\* admits it, and of no other stage.
LEMMA ExposedStages ==
    ASSUME NEW pins, DOMAIN pins = {"p"},
           NEW malicious, DOMAIN malicious = {"p"}, malicious["p"] # pins["p"],
           NEW clean, "p" \in DOMAIN clean => clean["p"] # malicious["p"]
    PROVE  \A s \in 1 .. 4 :
                Stages(pins, malicious, clean)[s]["p"] = malicious["p"]
                    <=> s = 2 /\ CaretAllows(pins["p"], malicious["p"])
<1> DEFINE pin == pins["p"]
           bad == malicious["p"]
           stages == Stages(pins, malicious, clean)
<1>1. /\ stages[1] = pins /\ stages[2] = Reinstalled(pins, malicious)
      /\ stages[3] = Remediated(pins, malicious, clean) /\ stages[4] = stages[3]
  BY DEF Stages
<1>2. Reinstalled(pins, malicious)["p"] = IF CaretAllows(pin, bad) THEN bad ELSE pin
  BY DEF Reinstalled
<1>3. Remediated(pins, malicious, clean)["p"] # bad
  <2>1. Remediated(pins, malicious, clean)["p"] =
            IF Reinstalled(pins, malicious)["p"] = bad
            THEN IF "p" \in DOMAIN clean THEN clean["p"] ELSE pin
            ELSE Reinstalled(pins, malicious)["p"]
    BY DEF Remediated
  <2> QED
    BY <2>1
<1> HIDE DEF stages
<1>4. \A s \in 1 .. 4 : stages[s]["p"] = bad <=> s = 2 /\ CaretAllows(pin, bad)
  <2> SUFFICES ASSUME NEW s \in 1 .. 4
               PROVE  stages[s]["p"] = bad <=> s = 2 /\ CaretAllows(pin, bad)
    OBVIOUS
  <2>1. s \in {1, 2, 3, 4}
    OBVIOUS
  <2> QED
    BY <1>1, <1>2, <1>3, <2>1
<1> QED
  BY <1>4 DEF stages

\* synthetic_repo: the constructed history resolves the malicious version
\* between the reinstall and the remediation, if npm's caret would have
\* installed it, and at no other commit.
THEOREM BoundedExposure == SeedSpec => []ConstructedExposureIsBounded
<1>1. incident \in Offered => ConstructedExposureIsBounded
  <2> SUFFICES ASSUME incident \in Offered PROVE ConstructedExposureIsBounded
    OBVIOUS
  <2>1. /\ incident.bad \notin {incident.pin, incident.fix}
        /\ incident.pin \in Versions \ {NotNumeric} /\ incident.bad \in Versions \ {NotNumeric}
    BY SeedAssumption
  <2>2. incident.pin \in Triples /\ incident.bad \in Triples
    BY <2>1 DEF Versions, Numbers, Triples
  <2>3. CaretAllows(incident.pin, incident.bad) <=>
            ~Less(incident.bad, incident.pin) /\ Less(incident.bad, NextAfter(incident.pin))
    BY <2>2, CaretIsTheRange
  <2> DEFINE pins == [p \in {"p"} |-> incident.pin]
             malicious == [p \in {"p"} |-> incident.bad]
             clean == [p \in IF incident.released THEN {"p"} ELSE {} |-> incident.fix]
             exposed == {s \in 1 .. 4 : Stages(pins, malicious, clean)[s]["p"] = incident.bad}
  <2> HIDE DEF pins, malicious, clean
  <2>4. exposed = IF CaretAllows(incident.pin, incident.bad) THEN {2} ELSE {}
    <3>1. /\ DOMAIN pins = {"p"} /\ pins["p"] = incident.pin
          /\ DOMAIN malicious = {"p"} /\ malicious["p"] = incident.bad
          /\ "p" \in DOMAIN clean => clean["p"] = incident.fix
          /\ malicious["p"] # pins["p"]
          /\ "p" \in DOMAIN clean => clean["p"] # malicious["p"]
      BY <2>1 DEF pins, malicious, clean
    <3>2. \A s \in 1 .. 4 :
            Stages(pins, malicious, clean)[s]["p"] = incident.bad
                <=> s = 2 /\ CaretAllows(incident.pin, incident.bad)
      BY <3>1, ExposedStages
    <3> QED
      BY <3>2
  <2> HIDE DEF exposed
  <2>5. exposed = IF ~Less(incident.bad, incident.pin) /\ Less(incident.bad, NextAfter(incident.pin))
                  THEN {2} ELSE {}
    BY <2>3, <2>4
  <2> QED
    BY <2>5 DEF ConstructedExposureIsBounded, exposed, pins, malicious, clean
<1>2. SeedInit => incident \in Offered
  BY DEF SeedInit
<1>3. incident \in Offered /\ [SeedNext]_seedVars => (incident \in Offered)'
  BY DEF SeedNext, Step, seedVars, Collect, Plan, Stage, Close, Replace, Interrupted,
         WriteNodes, WriteWatermarks, WriteProvenance, Dies, Returns
<1> QED
  BY <1>1, <1>2, <1>3, PTL DEF SeedSpec
=============================================================================
