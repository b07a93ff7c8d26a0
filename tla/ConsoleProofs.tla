----------------------------- MODULE ConsoleProofs -----------------------------
(***************************************************************************)
(* What the console's answers say is so, for any repositories, any number  *)
(* of threads, any lifetime of the caches and any writes between the       *)
(* reads.                                                                  *)
(***************************************************************************)
EXTENDS Console, TLAPS

-----------------------------------------------------------------------------
(* The inductive invariant.                                                *)

Kinds == {"exposure", "blast", "ranking", "health"}

Notes == {"none", "empty_dataset", "no_ingested_history", "never", "negative"}

\* Thread t's request has made this read.
Done(t, read) ==
    /\ call[t].kind # "none"
    /\ \E i \in 1 .. Len(Reads(call[t].kind)) :
            i < call[t].step /\ Reads(call[t].kind)[i] = read

SeenOf(i, what) == IF what = "marks" THEN seen[i].marked ELSE seen[i].listed

Calls ==
    [kind : Requests \union {"none"}, step : Nat \ {0},
     reply : [tag : {"none", "reply", "hit"}, got : SUBSET Repos],
     note : Notes, exists : BOOLEAN, found : BOOLEAN, directory : SUBSET Repos,
     drawn : Notes, atStart : [time : Nat, covered : SUBSET Repos]]

CallTypes ==
    /\ call \in [Threads -> Calls]
    /\ \A t \in Threads :
        /\ call[t].kind = "none" => call[t].step = 1
        /\ call[t].kind # "none" => call[t].step <= Len(Reads(call[t].kind)) + 1

SharedTypes ==
    /\ clock \in 0 .. MaxTime
    /\ cache \in [Cached -> [got : SUBSET Repos, at : Int]]
    /\ ranking \in Never .. clock
    /\ seen \in [0 .. MaxTime -> [listed : SUBSET Repos, marked : SUBSET Repos]]

\* What is cached is there, and holds all that was there at the end of every
\* tick before it was stored.
CacheOK ==
    \A what \in Cached :
        /\ cache[what].got \subseteq Now(what)
        /\ cache[what].at \in Never .. clock
        /\ \A i \in 0 .. MaxTime : i < cache[what].at => SeenOf(i, what) \subseteq cache[what].got

SeenOK == \A i \in 0 .. MaxTime : seen[i].listed \subseteq listed /\ seen[i].marked \subseteq marked

\* What was noted when the question was asked has not been taken back.
StartOK(t) == call[t].atStart.time <= clock /\ call[t].atStart.covered \subseteq covered

\* A reply that has not been stored is of this tick.
ReplyOK(t) ==
    \A what \in Cached : At(t, what) /\ call[t].reply.tag = "reply" =>
        /\ call[t].reply.got \subseteq Now(what)
        /\ \A i \in 0 .. MaxTime : i < clock => SeenOf(i, what) \subseteq call[t].reply.got

\* The directory that was found fresh, or what has replaced it, is.
HitOK(t) ==
    At(t, "directory") /\ call[t].reply = Hit =>
        \A i \in LongBefore(t) : i < cache["directory"].at

\* A count of nothing was stored since the question was asked.
CountsOK(t) ==
    \A what \in {"repos", "marks"} :
        Done(t, what) \/ (At(t, what) /\ call[t].reply = Hit) =>
            cache[what].got # {} \/ cache[what].at >= call[t].atStart.time

ReadingOK(t) == StartOK(t) /\ ReplyOK(t) /\ HitOK(t) /\ CountsOK(t)

NamedOK(t) ==
    /\ call[t].directory \subseteq listed
    /\ call[t].kind \in {"exposure", "blast"} /\ Done(t, "directory") =>
        \A i \in LongBefore(t) : seen[i].listed \subseteq call[t].directory

CoverageOK(t) ==
    Done(t, "counted") /\ call[t].note \notin Refusals => listed # {} /\ marked # {}

\* A package that had no node had no rows, so it was absent where it was covered.
NodeOK(t) ==
    Done(t, "node") /\ ~Done(t, "directory") /\ ~call[t].exists =>
        call[t].atStart.covered \intersect truth = {}

RowsOK(t) ==
    Done(t, "rows") /\ ~Done(t, "directory") /\ ~call[t].found =>
        call[t].atStart.covered \intersect truth = {}

VerdictOK(t) ==
    call[t].note \in {"never", "negative"} =>
        listed # {} /\ marked # {} /\ call[t].atStart.covered \intersect truth = {}

RefusalOK(t) ==
    call[t].atStart.time > 0 =>
        LET before == seen[call[t].atStart.time - 1]
            reasons == {call[t].note, call[t].drawn}
        IN  /\ "empty_dataset" \in reasons => before.listed = {}
            /\ "no_ingested_history" \in reasons => before.marked = {}

AnswerOK(t) ==
    /\ NamedOK(t)
    /\ CoverageOK(t)
    /\ NodeOK(t)
    /\ RowsOK(t)
    /\ VerdictOK(t)
    /\ RefusalOK(t)

SharedOK == DatasetOK /\ CallTypes /\ SharedTypes /\ CacheOK /\ SeenOK

ConsoleInv == SharedOK /\ \A t \in Threads : ReadingOK(t) /\ AnswerOK(t)

-----------------------------------------------------------------------------
(* The reads of a request.                                                 *)

\* The reads of each kind of request, in their order.
LEMMA ExposureReads ==
    /\ Len(Exposure) = 6
    /\ Exposure[1] = "repos" /\ Exposure[2] = "marks" /\ Exposure[3] = "counted"
    /\ Exposure[4] = "node" /\ Exposure[5] = "rows" /\ Exposure[6] = "directory"
    /\ Reads("exposure") = Exposure
BY DEF Exposure, Coverage, Reads

LEMMA BlastReads ==
    LET reads == Reads("blast")
    IN  /\ Len(reads) = 10
        /\ reads[1] = "repos" /\ reads[2] = "marks" /\ reads[3] = "counted"
        /\ reads[4] = "node" /\ reads[5] = "rows" /\ reads[6] = "directory"
        /\ reads[7] = "owners" /\ reads[8] = "repos" /\ reads[9] = "marks"
        /\ reads[10] = "counted"
<1>1. Reads("blast") = (Coverage \o <<"node", "rows", "directory">>) \o <<"owners">> \o Coverage
  BY DEF Reads, Exposure
<1> QED
  BY <1>1 DEF Coverage

LEMMA HealthReads ==
    LET reads == Reads("health")
    IN  /\ Len(reads) = 4
        /\ reads[1] = "directory" /\ reads[2] = "repos" /\ reads[3] = "marks"
        /\ reads[4] = "counted"
<1>1. Reads("health") = <<"directory">> \o Coverage
  BY DEF Reads
<1> QED
  BY <1>1 DEF Coverage

LEMMA RankingReads == Len(Reads("ranking")) = 1 /\ Reads("ranking")[1] = "rank"
BY DEF Reads

\* Where the reads of a request stand to one another.
LEMMA ReadsOf ==
    ASSUME NEW kind \in Kinds
    PROVE  /\ Len(Reads(kind)) \in 1 .. 10
           /\ \A i \in 1 .. Len(Reads(kind)) : Reads(kind)[i] = "counted" =>
                /\ \E j \in 1 .. Len(Reads(kind)) : j < i /\ Reads(kind)[j] = "repos"
                /\ \E j \in 1 .. Len(Reads(kind)) : j < i /\ Reads(kind)[j] = "marks"
                /\ i > 6 => 3 \in 1 .. Len(Reads(kind)) /\ Reads(kind)[3] = "counted"
           /\ \A i \in 1 .. Len(Reads(kind)) :
                Reads(kind)[i] \in {"node", "rows"} => kind \in {"exposure", "blast"} /\ i < 6
           /\ kind \in {"exposure", "blast"} =>
                /\ Len(Reads(kind)) >= 6
                /\ Reads(kind)[3] = "counted" /\ Reads(kind)[4] = "node"
                /\ Reads(kind)[5] = "rows" /\ Reads(kind)[6] = "directory"
                /\ \A i \in 1 .. Len(Reads(kind)) : Reads(kind)[i] = "directory" => i = 6
                /\ \A i \in 1 .. Len(Reads(kind)) : Reads(kind)[i] = "rows" => i = 5
<1>1. CASE kind = "exposure"
  <2> DEFINE reads == Reads("exposure")
  <2>1. /\ Len(reads) = 6
        /\ reads[1] = "repos" /\ reads[2] = "marks" /\ reads[3] = "counted"
        /\ reads[4] = "node" /\ reads[5] = "rows" /\ reads[6] = "directory"
    BY ExposureReads
  <2> QED
    BY <1>1, <2>1
<1>2. CASE kind = "blast"
  <2> DEFINE reads == Reads("blast")
  <2>1. /\ Len(reads) = 10
        /\ reads[1] = "repos" /\ reads[2] = "marks" /\ reads[3] = "counted"
        /\ reads[4] = "node" /\ reads[5] = "rows" /\ reads[6] = "directory"
        /\ reads[7] = "owners" /\ reads[8] = "repos" /\ reads[9] = "marks"
        /\ reads[10] = "counted"
    BY BlastReads
  <2> HIDE DEF reads
  <2>2. \A i \in 1 .. Len(reads) :
            /\ reads[i] = "counted" => i \in {3, 10}
            /\ reads[i] = "rows" => i = 5
            /\ reads[i] = "node" => i = 4
            /\ reads[i] = "directory" => i = 6
    <3> SUFFICES ASSUME NEW i \in 1 .. Len(reads)
                 PROVE  /\ reads[i] = "counted" => i \in {3, 10}
                        /\ reads[i] = "rows" => i = 5
                        /\ reads[i] = "node" => i = 4
                        /\ reads[i] = "directory" => i = 6
      OBVIOUS
    <3>1. i \in {1, 2, 3, 4, 5, 6, 7, 8, 9, 10}
      BY <2>1
    <3> QED
      BY <2>1, <3>1
  <2>3. \A i \in 1 .. Len(reads) : reads[i] = "counted" =>
            /\ \E j \in 1 .. Len(reads) : j < i /\ reads[j] = "repos"
            /\ \E j \in 1 .. Len(reads) : j < i /\ reads[j] = "marks"
            /\ i > 6 => 3 \in 1 .. Len(reads) /\ reads[3] = "counted"
    BY <2>1, <2>2
  <2>4. \A i \in 1 .. Len(reads) : reads[i] \in {"node", "rows"} => i < 6
    BY <2>2
  <2>5. Len(reads) \in 1 .. 10 /\ Len(reads) >= 6
    BY <2>1
  <2> QED
    BY <1>2, <2>1, <2>2, <2>3, <2>4, <2>5 DEF reads
<1>3. CASE kind = "health"
  <2> DEFINE reads == Reads("health")
  <2>1. /\ Len(reads) = 4
        /\ reads[1] = "directory" /\ reads[2] = "repos" /\ reads[3] = "marks"
        /\ reads[4] = "counted"
    BY HealthReads
  <2> QED
    BY <1>3, <2>1
<1>4. CASE kind = "ranking"
  BY <1>4, RankingReads
<1> QED
  BY <1>1, <1>2, <1>3, <1>4 DEF Kinds

\* A step past a read has made that read, and no other.
LEMMA DoneNext ==
    ASSUME NEW t \in Threads, NEW read, CallTypes, At(t, read),
           call'[t].kind = call[t].kind, call'[t].step = call[t].step + 1
    PROVE  \A r : Done(t, r)' <=> Done(t, r) \/ r = read
<1> DEFINE n == Len(Reads(call[t].kind))
           step == call[t].step
<1>1. call[t].kind \in Kinds
  BY ConsoleAssumption DEF At, Busy, CallTypes, Calls, Kinds
<1>2. n \in Nat /\ step \in Nat \ {0} /\ step <= n
  BY <1>1, ReadsOf DEF At, Busy, CallTypes, Calls
<1>3. Reads(call[t].kind)[step] = read /\ call[t].kind # "none"
  BY DEF At, Busy
<1> QED
  BY <1>2, <1>3 DEF Done

\* What has been read by the time of a read.
LEMMA ReadSoFar ==
    ASSUME NEW t \in Threads, CallTypes
    PROVE  /\ At(t, "counted") => Done(t, "repos") /\ Done(t, "marks")
           /\ At(t, "counted") /\ call[t].step > 6 => Done(t, "counted")
           /\ At(t, "rows") => Done(t, "node")
           /\ call[t].kind \in {"exposure", "blast"} /\ At(t, "directory") =>
                Done(t, "counted") /\ Done(t, "node") /\ Done(t, "rows")
           /\ At(t, "node") \/ At(t, "rows") => ~Done(t, "directory")
           /\ call[t].kind \in {"exposure", "blast"} /\ At(t, "directory") => ~Done(t, "directory")
           /\ At(t, "node") \/ At(t, "rows") \/ Done(t, "node") \/ Done(t, "rows") =>
                call[t].kind \in {"exposure", "blast"}
           /\ call[t].kind \in {"exposure", "blast"} /\ Answered(t) => Done(t, "directory")
<1> DEFINE kind == call[t].kind
           reads == Reads(kind)
           step == call[t].step
<1>1. CASE kind = "none"
  BY <1>1 DEF At, Busy, Done, Answered
<1>2. CASE kind # "none"
  <2>1. kind \in Kinds
    BY <1>2, ConsoleAssumption DEF CallTypes, Calls, Kinds
  <2>2. step \in Nat \ {0} /\ Len(reads) \in 1 .. 10 /\ step <= Len(reads) + 1
    BY <1>2, <2>1, ReadsOf DEF CallTypes, Calls
  <2>3. \A r : At(t, r) => step \in 1 .. Len(reads) /\ reads[step] = r
    BY <2>2 DEF At, Busy
  <2>4. \A r : Done(t, r) <=> \E i \in 1 .. Len(reads) : i < step /\ reads[i] = r
    BY <1>2 DEF Done
  <2> HIDE DEF kind, reads, step
  <2>5. \A i \in 1 .. Len(reads) : reads[i] = "counted" =>
            /\ \E j \in 1 .. Len(reads) : j < i /\ reads[j] = "repos"
            /\ \E j \in 1 .. Len(reads) : j < i /\ reads[j] = "marks"
            /\ i > 6 => 3 \in 1 .. Len(reads) /\ reads[3] = "counted"
    BY <2>1, ReadsOf DEF reads
  <2>6. \A i \in 1 .. Len(reads) :
            reads[i] \in {"node", "rows"} => kind \in {"exposure", "blast"} /\ i < 6
    BY <2>1, ReadsOf DEF reads
  <2>7. kind \in {"exposure", "blast"} =>
            /\ Len(reads) >= 6
            /\ reads[3] = "counted" /\ reads[4] = "node" /\ reads[5] = "rows"
            /\ reads[6] = "directory"
            /\ \A i \in 1 .. Len(reads) : reads[i] = "directory" => i = 6
            /\ \A i \in 1 .. Len(reads) : reads[i] = "rows" => i = 5
    BY <2>1, ReadsOf DEF reads
  <2>8. At(t, "counted") => Done(t, "repos") /\ Done(t, "marks")
    BY <2>2, <2>3, <2>4, <2>5
  <2>9. At(t, "counted") /\ step > 6 => Done(t, "counted")
    BY <2>2, <2>3, <2>4, <2>5
  <2>10. At(t, "rows") => Done(t, "node")
    BY <2>2, <2>3, <2>4, <2>6, <2>7
  <2>11. kind \in {"exposure", "blast"} /\ At(t, "directory") =>
            Done(t, "counted") /\ Done(t, "node") /\ Done(t, "rows")
    BY <2>2, <2>3, <2>4, <2>7
  <2>12. At(t, "node") \/ At(t, "rows") => ~Done(t, "directory")
    BY <2>2, <2>3, <2>4, <2>6, <2>7
  <2>13. At(t, "node") \/ At(t, "rows") \/ Done(t, "node") \/ Done(t, "rows") =>
            kind \in {"exposure", "blast"}
    BY <2>2, <2>3, <2>4, <2>6
  <2>14. kind \in {"exposure", "blast"} /\ At(t, "directory") => ~Done(t, "directory")
    BY <2>2, <2>3, <2>4, <2>7
  <2>15. kind \in {"exposure", "blast"} /\ Answered(t) => Done(t, "directory")
    <3>1. Answered(t) => step > Len(reads)
      BY <2>2 DEF Answered, Busy, reads, kind, step
    <3> QED
      BY <2>2, <2>4, <2>7, <3>1
  <2> QED
    BY <2>8, <2>9, <2>10, <2>11, <2>12, <2>13, <2>14, <2>15 DEF kind, step
<1> QED
  BY <1>1, <1>2

-----------------------------------------------------------------------------
(* What leaves an answer as good as it was.                                *)

\* What the dataset takes back is only what was not covered.
LEMMA GrowKeeps ==
    ASSUME DatasetOK, GrowByOne
    PROVE  /\ DatasetOK'
           /\ listed \subseteq listed' /\ marked \subseteq marked' /\ covered \subseteq covered'
           /\ \A S \in SUBSET covered : S \intersect truth' = S \intersect truth
<1>1. CASE /\ \E r \in Repos \ covered :
                truth' = IF r \in truth THEN truth \ {r} ELSE truth \union {r}
           /\ UNCHANGED <<listed, known, resolved, marked, covered>>
  BY <1>1 DEF DatasetOK
<1>2. CASE /\ \E r \in Repos \ listed : listed' = listed \union {r}
           /\ UNCHANGED <<truth, known, resolved, marked, covered>>
  BY <1>2 DEF DatasetOK
<1>3. CASE /\ ~known /\ known' = TRUE
           /\ UNCHANGED <<truth, listed, resolved, marked, covered>>
  <2>1. resolved' \subseteq listed' /\ (~known' => resolved' = {})
    BY <1>3 DEF DatasetOK
  <2> QED
    BY <1>3, <2>1 DEF DatasetOK
<1>4. CASE /\ known
           /\ \E r \in listed \ covered :
                resolved' = IF r \in resolved THEN resolved \ {r} ELSE resolved \union {r}
           /\ UNCHANGED <<truth, listed, known, marked, covered>>
  BY <1>4 DEF DatasetOK
<1>5. CASE /\ \E r \in listed \ marked : marked' = marked \union {r}
           /\ UNCHANGED <<truth, listed, known, resolved, covered>>
  BY <1>5 DEF DatasetOK
<1>6. CASE /\ \E r \in {q \in marked \ covered : q \in resolved <=> q \in truth} :
                covered' = covered \union {r}
           /\ UNCHANGED <<truth, listed, known, resolved, marked>>
  BY <1>6 DEF DatasetOK
<1> QED
  BY <1>1, <1>2, <1>3, <1>4, <1>5, <1>6 DEF GrowByOne

\* An answer stays right while the request makes none of the reads it rests on.
LEMMA AnswerKeeps ==
    ASSUME NEW t \in Threads, SharedOK, StartOK(t), AnswerOK(t),
           call'[t].kind = call[t].kind, call'[t].atStart = call[t].atStart,
           call'[t].note = call[t].note, call'[t].drawn = call[t].drawn,
           call'[t].exists = call[t].exists, call'[t].found = call[t].found,
           call'[t].directory = call[t].directory,
           Done(t, "counted")' <=> Done(t, "counted"),
           call[t].kind \in {"exposure", "blast"} =>
               \A read \in {"node", "rows", "directory"} : Done(t, read)' <=> Done(t, read),
           call[t].kind \notin {"exposure", "blast"} => ~Done(t, "node")' /\ ~Done(t, "rows")',
           listed \subseteq listed', marked \subseteq marked',
           call[t].atStart.covered \intersect truth' = call[t].atStart.covered \intersect truth,
           \A i \in 0 .. MaxTime : i < clock => seen'[i] = seen[i]
    PROVE  AnswerOK(t)'
<1>0. /\ call[t].atStart.time \in Nat /\ call[t].atStart.time <= clock /\ clock \in 0 .. MaxTime
      /\ MaxTime \in Nat /\ CacheTtl \in Nat \ {0}
  BY ConsoleAssumption DEF SharedOK, CallTypes, Calls, SharedTypes, StartOK
<1>1. \A i \in 0 .. MaxTime : call[t].atStart.time - i >= CacheTtl => i < clock
  BY <1>0
<1>2. LongBefore(t)' = LongBefore(t)
  BY DEF LongBefore
<1>3. \A i \in LongBefore(t) : seen'[i] = seen[i]
  BY <1>1 DEF LongBefore
<1>4. NamedOK(t)'
  BY <1>2, <1>3 DEF AnswerOK, NamedOK
<1>5. CoverageOK(t)'
  BY DEF AnswerOK, CoverageOK
<1>6. NodeOK(t)'
  BY DEF AnswerOK, NodeOK
<1>7. RowsOK(t)'
  BY DEF AnswerOK, RowsOK
<1>8. VerdictOK(t)'
  BY DEF AnswerOK, VerdictOK
<1>9. RefusalOK(t)'
  <2>1. CASE call[t].atStart.time > 0
    <3>1. call[t].atStart.time - 1 \in 0 .. MaxTime /\ call[t].atStart.time - 1 < clock
      BY <1>0, <2>1
    <3>2. seen'[call[t].atStart.time - 1] = seen[call[t].atStart.time - 1]
      BY <3>1
    <3> QED
      BY <3>2 DEF AnswerOK, RefusalOK
  <2>2. CASE ~(call[t].atStart.time > 0)
    BY <2>2 DEF RefusalOK
  <2> QED
    BY <2>1, <2>2
<1> QED
  BY <1>4, <1>5, <1>6, <1>7, <1>8, <1>9 DEF AnswerOK

\* Other threads' reads and stores, writes and the clock leave a request as it was.
LEMMA StandsStill ==
    ASSUME NEW t \in Threads, SharedOK, ReadingOK(t), AnswerOK(t),
           call'[t] = call[t],
           clock' \in Nat, clock <= clock',
           clock' = clock \/ call[t].reply = NoReply,
           listed \subseteq listed', marked \subseteq marked', covered \subseteq covered',
           \A S \in SUBSET covered : S \intersect truth' = S \intersect truth,
           \A i \in 0 .. MaxTime : i < clock => seen'[i] = seen[i],
           \A what \in Cached :
               cache'[what] = cache[what] \/ (cache'[what].at \in Int /\ cache'[what].at >= clock)
    PROVE  ReadingOK(t)' /\ AnswerOK(t)'
<1>0. /\ call[t].atStart.time \in Nat /\ call[t].atStart.time <= clock /\ clock \in 0 .. MaxTime
      /\ MaxTime \in Nat /\ CacheTtl \in Nat \ {0}
      /\ call[t].atStart.covered \subseteq covered
  BY ConsoleAssumption DEF SharedOK, CallTypes, Calls, SharedTypes, StartOK, ReadingOK
<1>1. \A read : (Done(t, read)' <=> Done(t, read)) /\ (At(t, read)' <=> At(t, read))
  BY DEF Done, At, Busy
<1>2. StartOK(t)'
  BY <1>0 DEF StartOK
<1>3. ReplyOK(t)'
  <2>1. CASE call[t].reply = NoReply
    BY <2>1 DEF ReplyOK, NoReply
  <2>2. CASE clock' = clock
    <3> SUFFICES ASSUME NEW what \in Cached, At(t, what), call[t].reply.tag = "reply"
                 PROVE  /\ call[t].reply.got \subseteq Now(what)'
                        /\ \A i \in 0 .. MaxTime : i < clock =>
                                SeenOf(i, what)' \subseteq call[t].reply.got
      BY <1>1, <2>2 DEF ReplyOK
    <3>1. /\ call[t].reply.got \subseteq Now(what)
          /\ \A i \in 0 .. MaxTime : i < clock => SeenOf(i, what) \subseteq call[t].reply.got
      BY DEF ReadingOK, ReplyOK
    <3>2. Now(what) \subseteq Now(what)'
      BY DEF Now
    <3>3. \A i \in 0 .. MaxTime : i < clock => SeenOf(i, what)' = SeenOf(i, what)
      BY DEF SeenOf
    <3> QED
      BY <3>1, <3>2, <3>3
  <2> QED
    BY <2>1, <2>2
<1>4. HitOK(t)'
  <2> SUFFICES ASSUME At(t, "directory"), call[t].reply = Hit, NEW i \in LongBefore(t)
               PROVE  i < cache'["directory"].at
    BY <1>1 DEF HitOK, LongBefore
  <2>1. i < cache["directory"].at
    BY DEF ReadingOK, HitOK
  <2>2. i \in 0 .. MaxTime /\ i < clock
    BY <1>0 DEF LongBefore
  <2>3. cache'["directory"] = cache["directory"]
            \/ (cache'["directory"].at \in Int /\ cache'["directory"].at >= clock)
    BY DEF Cached
  <2> QED
    BY <1>0, <2>1, <2>2, <2>3
<1>5. CountsOK(t)'
  <2> SUFFICES ASSUME NEW what \in {"repos", "marks"},
                      Done(t, what) \/ (At(t, what) /\ call[t].reply = Hit)
               PROVE  cache'[what].got # {} \/ cache'[what].at >= call[t].atStart.time
    BY <1>1 DEF CountsOK
  <2>1. cache[what].got # {} \/ cache[what].at >= call[t].atStart.time
    BY DEF ReadingOK, CountsOK
  <2>2. cache'[what] = cache[what] \/ (cache'[what].at \in Int /\ cache'[what].at >= clock)
    BY DEF Cached
  <2> QED
    BY <1>0, <2>1, <2>2
<1>6. AnswerOK(t)'
  <2>1. StartOK(t)
    BY DEF ReadingOK
  <2>2. call[t].kind \notin {"exposure", "blast"} => ~Done(t, "node") /\ ~Done(t, "rows")
    BY ReadSoFar DEF SharedOK
  <2> QED
    BY <1>0, <1>1, <2>1, <2>2, AnswerKeeps
<1> QED
  BY <1>2, <1>3, <1>4, <1>5, <1>6 DEF ReadingOK

-----------------------------------------------------------------------------
(* What a read does to the request that makes it.                          *)

\* A request is made of c by its read, and the others are left alone.
LEMMA Advanced ==
    ASSUME NEW t \in Threads, SharedOK, Busy(t), NEW c \in Calls,
           c.kind = call[t].kind, c.step = call[t].step,
           Advance(t, c)
    PROVE  /\ CallTypes'
           /\ \A u \in Threads \ {t} : call'[u] = call[u]
           /\ call'[t].kind = c.kind /\ call'[t].step = c.step + 1 /\ call'[t].reply = NoReply
           /\ call'[t].note = c.note /\ call'[t].exists = c.exists /\ call'[t].found = c.found
           /\ call'[t].directory = c.directory /\ call'[t].drawn = c.drawn
           /\ call'[t].atStart = c.atStart
<1> DEFINE d == [c EXCEPT !.step = @ + 1, !.reply = NoReply]
<1>1. call' = [call EXCEPT ![t] = d]
  BY DEF Advance
<1>2. NoReply \in [tag : {"none", "reply", "hit"}, got : SUBSET Repos]
  BY DEF NoReply
<1>3. c.step + 1 \in Nat \ {0}
  BY DEF Calls
<1>4. d \in Calls
  BY <1>2, <1>3 DEF Calls
<1>5. /\ d.kind = c.kind /\ d.step = c.step + 1 /\ d.reply = NoReply /\ d.note = c.note
      /\ d.exists = c.exists /\ d.found = c.found /\ d.directory = c.directory
      /\ d.drawn = c.drawn /\ d.atStart = c.atStart
  BY DEF Calls
<1> HIDE DEF d
<1>6. call \in [Threads -> Calls]
  BY DEF SharedOK, CallTypes
<1>7. call' \in [Threads -> Calls] /\ call'[t] = d /\ \A u \in Threads \ {t} : call'[u] = call[u]
  BY <1>1, <1>4, <1>6
<1>8. CallTypes'
  <2>1. \A u \in Threads \ {t} :
            /\ call'[u].kind = "none" => call'[u].step = 1
            /\ call'[u].kind # "none" => call'[u].step <= Len(Reads(call'[u].kind)) + 1
    BY <1>7 DEF SharedOK, CallTypes
  <2>2. call[t].kind \in Kinds
    BY ConsoleAssumption, <1>6 DEF Busy, Calls, Kinds
  <2>3. Len(Reads(c.kind)) \in Nat /\ c.step \in Nat
    BY <2>2, ReadsOf DEF Calls
  <2>4. c.step <= Len(Reads(c.kind))
    BY DEF Busy
  <2>5. call'[t].step <= Len(Reads(call'[t].kind)) + 1
    BY <1>5, <1>7, <2>3, <2>4
  <2>6. call'[t].kind # "none"
    BY <1>5, <1>7 DEF Busy
  <2> QED
    BY <1>7, <2>1, <2>5, <2>6 DEF CallTypes
<1> QED
  BY <1>5, <1>7, <1>8

\* A read leaves the request with the counts it has looked at, which were stored
\* since the question was asked wherever they are of nothing.
LEMMA ReadMade ==
    ASSUME NEW t \in Threads, NEW read, SharedOK, ReadingOK(t), At(t, read),
           call'[t].kind = call[t].kind, call'[t].step = call[t].step + 1,
           call'[t].reply = NoReply, call'[t].atStart = call[t].atStart,
           UNCHANGED <<clock, covered>>,
           \A what \in Cached :
               cache'[what] = cache[what] \/ (cache'[what].at \in Int /\ cache'[what].at >= clock),
           read \in {"repos", "marks"} =>
               cache'[read].got # {} \/ cache'[read].at >= call[t].atStart.time
    PROVE  ReadingOK(t)'
<1>1. \A r : Done(t, r)' <=> Done(t, r) \/ r = read
  BY DoneNext DEF SharedOK
<1>2. StartOK(t)'
  BY DEF ReadingOK, StartOK
<1>3. ReplyOK(t)' /\ HitOK(t)'
  BY DEF ReplyOK, HitOK, NoReply, Hit
<1>4. CountsOK(t)'
  <2> SUFFICES ASSUME NEW what \in {"repos", "marks"}, Done(t, what) \/ what = read
               PROVE  cache'[what].got # {} \/ cache'[what].at >= call[t].atStart.time
    BY <1>1 DEF CountsOK, NoReply, Hit
  <2>1. cache'[what] = cache[what] \/ (cache'[what].at \in Int /\ cache'[what].at >= clock)
    BY DEF Cached
  <2>2. clock \in Nat /\ call[t].atStart.time \in Nat /\ call[t].atStart.time <= clock
    BY ConsoleAssumption DEF SharedOK, SharedTypes, CallTypes, Calls, ReadingOK, StartOK
  <2>3. CASE Done(t, what)
    BY <2>1, <2>2, <2>3 DEF ReadingOK, CountsOK
  <2>4. CASE what = read
    BY <2>4
  <2> QED
    BY <2>3, <2>4
<1> QED
  BY <1>2, <1>3, <1>4 DEF ReadingOK

\* Reads that no part of an answer rests on.
LEMMA PlainRead ==
    ASSUME NEW t \in Threads, NEW read, SharedOK, StartOK(t), AnswerOK(t), At(t, read),
           read \notin {"counted", "node", "rows"},
           call[t].kind \in {"exposure", "blast"} => read # "directory",
           call'[t].kind = call[t].kind, call'[t].step = call[t].step + 1,
           call'[t].atStart = call[t].atStart,
           call'[t].note = call[t].note, call'[t].drawn = call[t].drawn,
           call'[t].exists = call[t].exists, call'[t].found = call[t].found,
           call'[t].directory = call[t].directory,
           UNCHANGED <<dataset, seen>>
    PROVE  AnswerOK(t)'
<1>1. \A r : Done(t, r)' <=> Done(t, r) \/ r = read
  BY DoneNext DEF SharedOK
<1>2. call[t].kind \notin {"exposure", "blast"} => ~Done(t, "node") /\ ~Done(t, "rows")
  BY ReadSoFar DEF SharedOK
<1> QED
  BY <1>1, <1>2, AnswerKeeps DEF dataset

\* What is stored is there, and held all there was at the end of the last tick.
LEMMA Stored ==
    ASSUME NEW what \in Cached, NEW got, SharedOK, Store(what, got),
           got \subseteq Now(what),
           \A i \in 0 .. MaxTime : i < clock => SeenOf(i, what) \subseteq got,
           UNCHANGED <<dataset, clock, seen>>
    PROVE  /\ cache' \in [Cached -> [got : SUBSET Repos, at : Int]]
           /\ CacheOK'
           /\ cache'[what].got = got /\ cache'[what].at = clock
           /\ \A w \in Cached :
                cache'[w] = cache[w] \/ (cache'[w].at \in Int /\ cache'[w].at >= clock)
<1>1. clock \in Nat
  BY ConsoleAssumption DEF SharedOK, SharedTypes
<1>2. Now(what) \subseteq Repos
  BY DEF Now, SharedOK, DatasetOK
<1>3. cache' = [cache EXCEPT ![what] = [got |-> got, at |-> clock]]
  BY DEF Store
<1>4. /\ cache' \in [Cached -> [got : SUBSET Repos, at : Int]]
      /\ cache'[what].got = got /\ cache'[what].at = clock
      /\ \A w \in Cached \ {what} : cache'[w] = cache[w]
  BY <1>1, <1>2, <1>3 DEF SharedOK, SharedTypes
<1>5. \A w : Now(w)' = Now(w) /\ \A i : SeenOf(i, w)' = SeenOf(i, w)
  BY DEF Now, SeenOf, dataset
<1>6. CacheOK'
  <2> SUFFICES ASSUME NEW w \in Cached
               PROVE  /\ cache'[w].got \subseteq Now(w)
                      /\ cache'[w].at \in Never .. clock
                      /\ \A i \in 0 .. MaxTime :
                            i < cache'[w].at => SeenOf(i, w) \subseteq cache'[w].got
    BY <1>5 DEF CacheOK
  <2>1. CASE w = what
    BY <1>1, <1>4, <2>1 DEF Never
  <2>2. CASE w # what
    BY <1>4, <2>2 DEF SharedOK, CacheOK
  <2> QED
    BY <2>1, <2>2
<1> QED
  BY <1>1, <1>4, <1>6

\* One thread's step, which leaves the others standing.
LEMMA Moved ==
    ASSUME NEW t \in Threads, ConsoleInv, UNCHANGED <<dataset, clock, seen>>,
           CallTypes', \A u \in Threads \ {t} : call'[u] = call[u],
           cache' \in [Cached -> [got : SUBSET Repos, at : Int]], CacheOK',
           \A what \in Cached :
               cache'[what] = cache[what] \/ (cache'[what].at \in Int /\ cache'[what].at >= clock),
           ranking' \in Never .. clock,
           ReadingOK(t)', AnswerOK(t)'
    PROVE  ConsoleInv'
<1>1. SharedOK'
  <2>1. DatasetOK'
    BY DEF ConsoleInv, SharedOK, DatasetOK, dataset
  <2>2. SharedTypes'
    BY DEF ConsoleInv, SharedOK, SharedTypes
  <2>3. SeenOK'
    BY DEF ConsoleInv, SharedOK, SeenOK, dataset
  <2> QED
    BY <2>1, <2>2, <2>3 DEF SharedOK
<1>2. \A u \in Threads \ {t} : ReadingOK(u)' /\ AnswerOK(u)'
  <2> SUFFICES ASSUME NEW u \in Threads \ {t} PROVE ReadingOK(u)' /\ AnswerOK(u)'
    OBVIOUS
  <2>1. clock' = clock /\ clock \in Nat
    BY ConsoleAssumption DEF ConsoleInv, SharedOK, SharedTypes
  <2> QED
    BY <2>1, StandsStill DEF ConsoleInv, dataset
<1> QED
  BY <1>1, <1>2 DEF ConsoleInv

\* A read that leaves the caches alone.
LEMMA MovedAlone ==
    ASSUME NEW t \in Threads, ConsoleInv, UNCHANGED <<dataset, clock, cache, seen>>,
           CallTypes', \A u \in Threads \ {t} : call'[u] = call[u],
           ranking' \in Never .. clock,
           ReadingOK(t)', AnswerOK(t)'
    PROVE  ConsoleInv'
<1>1. CacheOK'
  <2>1. \A what : Now(what)' = Now(what) /\ \A i : SeenOf(i, what)' = SeenOf(i, what)
    BY DEF Now, SeenOf, dataset
  <2> QED
    BY <2>1 DEF ConsoleInv, SharedOK, CacheOK
<1>2. cache' \in [Cached -> [got : SUBSET Repos, at : Int]]
  BY DEF ConsoleInv, SharedOK, SharedTypes
<1> QED
  BY <1>1, <1>2, Moved

-----------------------------------------------------------------------------
(* The steps.                                                              *)

LEMMA CallIsCall ==
    ASSUME SharedOK, NEW t \in Threads
    PROVE  call[t] \in Calls
BY DEF SharedOK, CallTypes

LEMMA LookUpStep ==
    ASSUME ConsoleInv, NEW t \in Threads, NEW what \in Cached, LookUp(t, what)
    PROVE  ConsoleInv'
<1> DEFINE got == IF Usable(t, what) THEN Hit ELSE Reply(Now(what))
<1>0. SharedOK /\ ReadingOK(t) /\ AnswerOK(t) /\ call[t] \in Calls
  BY CallIsCall DEF ConsoleInv
<1>1. call' = [call EXCEPT ![t] = [call[t] EXCEPT !.reply = got]]
  BY DEF LookUp
<1>2. got \in [tag : {"none", "reply", "hit"}, got : SUBSET Repos]
  BY <1>0 DEF Hit, Reply, Now, SharedOK, DatasetOK
<1>3. /\ call' \in [Threads -> Calls]
      /\ \A u \in Threads \ {t} : call'[u] = call[u]
      /\ call'[t].reply = got
      /\ call'[t].kind = call[t].kind /\ call'[t].step = call[t].step
      /\ call'[t].note = call[t].note /\ call'[t].exists = call[t].exists
      /\ call'[t].found = call[t].found /\ call'[t].directory = call[t].directory
      /\ call'[t].drawn = call[t].drawn /\ call'[t].atStart = call[t].atStart
  <2> DEFINE d == [call[t] EXCEPT !.reply = got]
  <2> HIDE DEF got
  <2>1. d \in Calls
    BY <1>0, <1>2 DEF Calls
  <2>2. /\ d.reply = got /\ d.kind = call[t].kind /\ d.step = call[t].step
        /\ d.note = call[t].note /\ d.exists = call[t].exists /\ d.found = call[t].found
        /\ d.directory = call[t].directory /\ d.drawn = call[t].drawn
        /\ d.atStart = call[t].atStart
    BY <1>0 DEF Calls
  <2>3. call \in [Threads -> Calls]
    BY <1>0 DEF SharedOK, CallTypes
  <2> HIDE DEF d
  <2>4. call' = [call EXCEPT ![t] = d]
    BY <1>1 DEF d
  <2> QED
    BY <2>1, <2>2, <2>3, <2>4
<1>4. CallTypes'
  BY <1>0, <1>3 DEF SharedOK, CallTypes
<1>5. \A read : (Done(t, read)' <=> Done(t, read)) /\ (At(t, read)' <=> At(t, read))
  BY <1>3 DEF Done, At, Busy
<1>6. /\ At(t, what) /\ call[t].reply = NoReply
      /\ \A read : At(t, read) => read = what
      /\ UNCHANGED <<dataset, clock, cache, ranking, seen>>
  BY DEF LookUp, At
<1>7. clock \in Nat /\ call[t].atStart.time \in Nat /\ call[t].atStart.time <= clock
  BY <1>0, ConsoleAssumption DEF SharedOK, SharedTypes, Calls, ReadingOK, StartOK
<1>8. StartOK(t)'
  BY <1>0, <1>3, <1>6 DEF ReadingOK, StartOK, dataset
<1>9. ReplyOK(t)'
  <2> SUFFICES ASSUME got.tag = "reply"
               PROVE  /\ got.got \subseteq Now(what)
                      /\ \A i \in 0 .. MaxTime : i < clock => SeenOf(i, what) \subseteq got.got
    BY <1>3, <1>5, <1>6 DEF ReplyOK, Now, SeenOf, dataset
  <2>1. got.got = Now(what)
    BY DEF Hit, Reply
  <2> QED
    BY <1>0, <2>1 DEF SharedOK, SeenOK, SeenOf, Now
<1>10. got = Hit => Fresh(what)
  BY DEF Hit, Reply, Usable
<1>11. cache[what].at \in Int /\ CacheTtl \in Nat
  BY <1>0, ConsoleAssumption DEF SharedOK, SharedTypes
<1>12. HitOK(t)'
  <2> SUFFICES ASSUME what = "directory", got = Hit, NEW i \in LongBefore(t)
               PROVE  i < cache["directory"].at
    BY <1>3, <1>5, <1>6 DEF HitOK, LongBefore
  <2>1. clock - cache["directory"].at < CacheTtl
    BY <1>10 DEF Fresh
  <2>2. i \in Int /\ call[t].atStart.time - i >= CacheTtl
    BY DEF LongBefore
  <2> QED
    BY <1>7, <1>11, <2>1, <2>2
<1>13. CountsOK(t)'
  <2> SUFFICES ASSUME NEW w \in {"repos", "marks"}, Done(t, w) \/ (w = what /\ got = Hit)
               PROVE  cache[w].got # {} \/ cache[w].at >= call[t].atStart.time
    BY <1>3, <1>5, <1>6 DEF CountsOK
  <2>1. CASE Done(t, w)
    BY <1>0, <2>1 DEF ReadingOK, CountsOK
  <2>2. CASE w = what /\ got = Hit
    BY <1>10, <2>2 DEF Fresh
  <2> QED
    BY <2>1, <2>2
<1>14. ReadingOK(t)'
  BY <1>8, <1>9, <1>12, <1>13 DEF ReadingOK
<1>15. AnswerOK(t)'
  <2>1. call[t].kind \notin {"exposure", "blast"} => ~Done(t, "node") /\ ~Done(t, "rows")
    BY <1>0, ReadSoFar DEF SharedOK
  <2>2. StartOK(t)
    BY <1>0 DEF ReadingOK
  <2> QED
    BY <1>0, <1>3, <1>5, <1>6, <2>1, <2>2, AnswerKeeps DEF dataset
<1>16. ranking' \in Never .. clock
  BY <1>0, <1>6 DEF SharedOK, SharedTypes
<1> QED
  BY <1>3, <1>4, <1>6, <1>14, <1>15, <1>16, MovedAlone

LEMMA StoreCountStep ==
    ASSUME ConsoleInv, NEW t \in Threads, NEW what \in Cached, StoreCount(t, what)
    PROVE  ConsoleInv'
<1> DEFINE got == call[t].reply.got
<1>0. SharedOK /\ ReadingOK(t) /\ AnswerOK(t) /\ call[t] \in Calls
  BY CallIsCall DEF ConsoleInv
<1>1. /\ At(t, what) /\ Busy(t) /\ what \in {"repos", "marks"} /\ call[t].reply.tag = "reply"
      /\ Store(what, got) /\ Advance(t, call[t])
      /\ UNCHANGED <<dataset, clock, ranking, seen>>
  BY DEF StoreCount, At, Cached
<1>2. /\ got \subseteq Now(what)
      /\ \A i \in 0 .. MaxTime : i < clock => SeenOf(i, what) \subseteq got
  BY <1>0, <1>1 DEF ReadingOK, ReplyOK
<1>3. /\ cache' \in [Cached -> [got : SUBSET Repos, at : Int]]
      /\ CacheOK'
      /\ cache'[what].at = clock
      /\ \A w \in Cached :
           cache'[w] = cache[w] \/ (cache'[w].at \in Int /\ cache'[w].at >= clock)
  BY <1>0, <1>1, <1>2, Stored
<1>4. /\ CallTypes'
      /\ \A u \in Threads \ {t} : call'[u] = call[u]
      /\ call'[t].kind = call[t].kind /\ call'[t].step = call[t].step + 1
      /\ call'[t].reply = NoReply
      /\ call'[t].note = call[t].note /\ call'[t].exists = call[t].exists
      /\ call'[t].found = call[t].found /\ call'[t].directory = call[t].directory
      /\ call'[t].drawn = call[t].drawn /\ call'[t].atStart = call[t].atStart
  BY <1>0, <1>1, Advanced
<1>5. cache'[what].at >= call[t].atStart.time
  BY <1>0, <1>3, ConsoleAssumption DEF SharedOK, SharedTypes, Calls, ReadingOK, StartOK
<1>6. ReadingOK(t)'
  BY <1>0, <1>1, <1>3, <1>4, <1>5, ReadMade DEF dataset
<1>7. AnswerOK(t)'
  BY <1>0, <1>1, <1>4, PlainRead DEF ReadingOK
<1>8. ranking' \in Never .. clock
  BY <1>0, <1>1 DEF SharedOK, SharedTypes
<1> QED
  BY <1>1, <1>3, <1>4, <1>6, <1>7, <1>8, Moved

\* Reads that change nothing but how far the request is.
LEMMA PassesBy ==
    ASSUME ConsoleInv, NEW t \in Threads, NEW read, At(t, read),
           read \notin {"counted", "node", "rows"},
           call[t].kind \in {"exposure", "blast"} => read # "directory",
           read \in {"repos", "marks"} => call[t].reply = Hit,
           Advance(t, call[t]),
           UNCHANGED <<dataset, clock, cache, seen>>,
           ranking' \in Never .. clock
    PROVE  ConsoleInv'
<1>0. SharedOK /\ ReadingOK(t) /\ AnswerOK(t) /\ call[t] \in Calls /\ Busy(t) /\ StartOK(t)
  BY CallIsCall DEF ConsoleInv, At, ReadingOK
<1>1. /\ CallTypes'
      /\ \A u \in Threads \ {t} : call'[u] = call[u]
      /\ call'[t].kind = call[t].kind /\ call'[t].step = call[t].step + 1
      /\ call'[t].reply = NoReply
      /\ call'[t].note = call[t].note /\ call'[t].exists = call[t].exists
      /\ call'[t].found = call[t].found /\ call'[t].directory = call[t].directory
      /\ call'[t].drawn = call[t].drawn /\ call'[t].atStart = call[t].atStart
  BY <1>0, Advanced
<1>2. read \in {"repos", "marks"} =>
            cache[read].got # {} \/ cache[read].at >= call[t].atStart.time
  BY <1>0 DEF ReadingOK, CountsOK
<1>3. ReadingOK(t)'
  BY <1>0, <1>1, <1>2, ReadMade DEF dataset
<1>4. AnswerOK(t)'
  BY <1>0, <1>1, PlainRead
<1> QED
  BY <1>1, <1>3, <1>4, MovedAlone

LEMMA ReturnCountsStep ==
    ASSUME ConsoleInv, NEW t \in Threads, ReturnCounts(t)
    PROVE  ConsoleInv'
<1> DEFINE c == IF call[t].step > Len(Exposure)
                THEN [call[t] EXCEPT !.drawn = Counted]
                ELSE [call[t] EXCEPT !.note = Counted]
<1>0. SharedOK /\ ReadingOK(t) /\ AnswerOK(t) /\ call[t] \in Calls
  BY CallIsCall DEF ConsoleInv
<1>1. /\ At(t, "counted") /\ Busy(t) /\ Advance(t, c)
      /\ UNCHANGED <<dataset, clock, cache, ranking, seen>>
  BY DEF ReturnCounts, At
<1>2. Counted \in {"none", "empty_dataset", "no_ingested_history"}
  BY DEF Counted, Reason
<1>3. /\ c \in Calls /\ c.kind = call[t].kind /\ c.step = call[t].step
      /\ c.exists = call[t].exists /\ c.found = call[t].found
      /\ c.directory = call[t].directory /\ c.atStart = call[t].atStart
      /\ c.note = IF call[t].step > Len(Exposure) THEN call[t].note ELSE Counted
      /\ c.drawn = IF call[t].step > Len(Exposure) THEN Counted ELSE call[t].drawn
  BY <1>0, <1>2 DEF Calls, Notes
<1> HIDE DEF c
<1>4. /\ CallTypes'
      /\ \A u \in Threads \ {t} : call'[u] = call[u]
      /\ call'[t].kind = call[t].kind /\ call'[t].step = call[t].step + 1
      /\ call'[t].reply = NoReply
      /\ call'[t].note = c.note /\ call'[t].exists = call[t].exists
      /\ call'[t].found = call[t].found /\ call'[t].directory = call[t].directory
      /\ call'[t].drawn = c.drawn /\ call'[t].atStart = call[t].atStart
  BY <1>0, <1>1, <1>3, Advanced
<1>5. ReadingOK(t)'
  BY <1>0, <1>1, <1>4, ReadMade DEF dataset
<1>6. \A r : Done(t, r)' <=> Done(t, r) \/ r = "counted"
  BY <1>0, <1>1, <1>4, DoneNext DEF SharedOK
<1>7. LongBefore(t)' = LongBefore(t)
  BY <1>4 DEF LongBefore
<1>8. NamedOK(t)'
  BY <1>0, <1>1, <1>4, <1>6, <1>7 DEF AnswerOK, NamedOK, dataset
<1>9. NodeOK(t)' /\ RowsOK(t)'
  BY <1>0, <1>1, <1>4, <1>6 DEF AnswerOK, NodeOK, RowsOK, dataset
<1>10. cache["repos"].got \subseteq listed /\ cache["marks"].got \subseteq marked
  BY <1>0 DEF SharedOK, CacheOK, Cached, Now
<1>11. Counted \notin Refusals => listed # {} /\ marked # {}
  BY <1>10 DEF Counted, Reason, Refusals
<1>12. CoverageOK(t)'
  <2>1. CASE call[t].step > Len(Exposure)
    <3>1. Done(t, "counted")
      BY <1>0, <1>1, <2>1, ReadSoFar, ExposureReads DEF SharedOK
    <3> QED
      BY <1>0, <1>1, <1>3, <1>4, <2>1, <3>1 DEF AnswerOK, CoverageOK, dataset
  <2>2. CASE ~(call[t].step > Len(Exposure))
    BY <1>1, <1>3, <1>4, <1>11, <2>2 DEF CoverageOK, dataset
  <2> QED
    BY <2>1, <2>2
<1>13. VerdictOK(t)'
  <2>1. CASE call[t].step > Len(Exposure)
    BY <1>0, <1>1, <1>3, <1>4, <2>1 DEF AnswerOK, VerdictOK, dataset
  <2>2. CASE ~(call[t].step > Len(Exposure))
    BY <1>2, <1>3, <1>4, <2>2 DEF VerdictOK
  <2> QED
    BY <2>1, <2>2
<1>14. ASSUME call[t].atStart.time > 0
       PROVE  /\ Counted = "empty_dataset" => seen[call[t].atStart.time - 1].listed = {}
              /\ Counted = "no_ingested_history" => seen[call[t].atStart.time - 1].marked = {}
  <2> DEFINE i == call[t].atStart.time - 1
  <2>1. /\ call[t].atStart.time \in Nat /\ call[t].atStart.time <= clock
        /\ clock \in 0 .. MaxTime /\ MaxTime \in Nat
    BY <1>0, ConsoleAssumption DEF SharedOK, SharedTypes, Calls, ReadingOK, StartOK
  <2>2. i \in 0 .. MaxTime /\ i < call[t].atStart.time
    BY <1>14, <2>1
  <2>3. \A what \in {"repos", "marks"} : cache[what].got = {} => SeenOf(i, what) = {}
    <3> SUFFICES ASSUME NEW what \in {"repos", "marks"}, cache[what].got = {}
                 PROVE  SeenOf(i, what) = {}
      OBVIOUS
    <3>1. Done(t, what)
      BY <1>0, <1>1, ReadSoFar DEF SharedOK
    <3>2. cache[what].at >= call[t].atStart.time
      BY <1>0, <3>1 DEF ReadingOK, CountsOK
    <3>3. what \in Cached /\ cache[what].at \in Int
      BY <1>0 DEF Cached, SharedOK, SharedTypes
    <3>4. i < cache[what].at
      BY <2>1, <2>2, <3>2, <3>3
    <3> QED
      BY <1>0, <2>2, <3>3, <3>4 DEF SharedOK, CacheOK
  <2>4. /\ Counted = "empty_dataset" => cache["repos"].got = {}
        /\ Counted = "no_ingested_history" => cache["marks"].got = {}
    BY DEF Counted, Reason
  <2> QED
    BY <2>3, <2>4 DEF SeenOf
<1>15. RefusalOK(t)'
  BY <1>0, <1>1, <1>3, <1>4, <1>14 DEF AnswerOK, RefusalOK
<1>16. AnswerOK(t)'
  BY <1>8, <1>9, <1>12, <1>13, <1>15 DEF AnswerOK
<1>17. ranking' \in Never .. clock
  BY <1>0, <1>1 DEF SharedOK, SharedTypes
<1> QED
  BY <1>1, <1>4, <1>5, <1>16, <1>17, MovedAlone

LEMMA ReadNodeStep ==
    ASSUME ConsoleInv, NEW t \in Threads, ReadNode(t)
    PROVE  ConsoleInv'
<1> DEFINE c == [call[t] EXCEPT !.exists = known]
<1>0. SharedOK /\ ReadingOK(t) /\ AnswerOK(t) /\ call[t] \in Calls
  BY CallIsCall DEF ConsoleInv
<1>1. /\ At(t, "node") /\ Busy(t) /\ Advance(t, c)
      /\ UNCHANGED <<dataset, clock, cache, ranking, seen>>
  BY DEF ReadNode, At
<1>2. known \in BOOLEAN
  BY <1>0 DEF SharedOK, DatasetOK
<1>3. /\ c \in Calls /\ c.kind = call[t].kind /\ c.step = call[t].step
      /\ c.exists = known /\ c.found = call[t].found
      /\ c.directory = call[t].directory /\ c.atStart = call[t].atStart
      /\ c.note = call[t].note /\ c.drawn = call[t].drawn
  BY <1>0, <1>2 DEF Calls
<1> HIDE DEF c
<1>4. /\ CallTypes'
      /\ \A u \in Threads \ {t} : call'[u] = call[u]
      /\ call'[t].kind = call[t].kind /\ call'[t].step = call[t].step + 1
      /\ call'[t].reply = NoReply
      /\ call'[t].note = call[t].note /\ call'[t].exists = known
      /\ call'[t].found = call[t].found /\ call'[t].directory = call[t].directory
      /\ call'[t].drawn = call[t].drawn /\ call'[t].atStart = call[t].atStart
  BY <1>0, <1>1, <1>3, Advanced
<1>5. ReadingOK(t)'
  BY <1>0, <1>1, <1>4, ReadMade DEF dataset
<1>6. \A r : Done(t, r)' <=> Done(t, r) \/ r = "node"
  BY <1>0, <1>1, <1>4, DoneNext DEF SharedOK
<1>7. LongBefore(t)' = LongBefore(t)
  BY <1>4 DEF LongBefore
<1>8. NamedOK(t)' /\ CoverageOK(t)' /\ RowsOK(t)' /\ VerdictOK(t)' /\ RefusalOK(t)'
  BY <1>0, <1>1, <1>4, <1>6, <1>7
     DEF AnswerOK, NamedOK, CoverageOK, RowsOK, VerdictOK, RefusalOK, dataset
<1>9. ~known => call[t].atStart.covered \intersect truth = {}
  BY <1>0 DEF SharedOK, DatasetOK, ReadingOK, StartOK
<1>10. NodeOK(t)'
  BY <1>1, <1>4, <1>9 DEF NodeOK, dataset
<1>11. AnswerOK(t)'
  BY <1>8, <1>10 DEF AnswerOK
<1>12. ranking' \in Never .. clock
  BY <1>0, <1>1 DEF SharedOK, SharedTypes
<1> QED
  BY <1>1, <1>4, <1>5, <1>11, <1>12, MovedAlone

LEMMA ReadRowsStep ==
    ASSUME ConsoleInv, NEW t \in Threads, ReadRows(t)
    PROVE  ConsoleInv'
<1> DEFINE found == call[t].exists /\ resolved # {}
           c == [call[t] EXCEPT !.found = found]
<1>0. SharedOK /\ ReadingOK(t) /\ AnswerOK(t) /\ call[t] \in Calls
  BY CallIsCall DEF ConsoleInv
<1>1. /\ At(t, "rows") /\ Busy(t) /\ Advance(t, c)
      /\ UNCHANGED <<dataset, clock, cache, ranking, seen>>
  BY DEF ReadRows, At
<1>2. found \in BOOLEAN
  OBVIOUS
<1>3. /\ c \in Calls /\ c.kind = call[t].kind /\ c.step = call[t].step
      /\ c.exists = call[t].exists /\ c.found = found
      /\ c.directory = call[t].directory /\ c.atStart = call[t].atStart
      /\ c.note = call[t].note /\ c.drawn = call[t].drawn
  <2> HIDE DEF found
  <2> QED
    BY <1>0, <1>2 DEF Calls
<1> HIDE DEF c, found
<1>4. /\ CallTypes'
      /\ \A u \in Threads \ {t} : call'[u] = call[u]
      /\ call'[t].kind = call[t].kind /\ call'[t].step = call[t].step + 1
      /\ call'[t].reply = NoReply
      /\ call'[t].note = call[t].note /\ call'[t].exists = call[t].exists
      /\ call'[t].found = found /\ call'[t].directory = call[t].directory
      /\ call'[t].drawn = call[t].drawn /\ call'[t].atStart = call[t].atStart
  BY <1>0, <1>1, <1>3, Advanced
<1>5. ReadingOK(t)'
  BY <1>0, <1>1, <1>4, ReadMade DEF dataset
<1>6. \A r : Done(t, r)' <=> Done(t, r) \/ r = "rows"
  BY <1>0, <1>1, <1>4, DoneNext DEF SharedOK
<1>7. LongBefore(t)' = LongBefore(t)
  BY <1>4 DEF LongBefore
<1>8. NamedOK(t)' /\ CoverageOK(t)' /\ NodeOK(t)' /\ VerdictOK(t)' /\ RefusalOK(t)'
  BY <1>0, <1>1, <1>4, <1>6, <1>7
     DEF AnswerOK, NamedOK, CoverageOK, NodeOK, VerdictOK, RefusalOK, dataset
<1>9. ~found => call[t].atStart.covered \intersect truth = {}
  <2>1. CASE ~call[t].exists
    BY <1>0, <1>1, <2>1, ReadSoFar DEF SharedOK, AnswerOK, NodeOK
  <2>2. CASE resolved = {}
    BY <1>0, <2>2 DEF SharedOK, DatasetOK, ReadingOK, StartOK
  <2> QED
    BY <2>1, <2>2 DEF found
<1>10. RowsOK(t)'
  BY <1>1, <1>4, <1>9 DEF RowsOK, dataset
<1>11. AnswerOK(t)'
  BY <1>8, <1>10 DEF AnswerOK
<1>12. ranking' \in Never .. clock
  BY <1>0, <1>1 DEF SharedOK, SharedTypes
<1> QED
  BY <1>1, <1>4, <1>5, <1>11, <1>12, MovedAlone

\* The directory, and what exposure says once it has it.
LEMMA DirectoryRead ==
    ASSUME ConsoleInv, NEW t \in Threads, NEW got \in SUBSET Repos, At(t, "directory"),
           got \subseteq listed,
           \A i \in LongBefore(t) : seen[i].listed \subseteq got,
           Advance(t, WithDirectory(t, got)),
           UNCHANGED <<dataset, clock, ranking, seen>>,
           cache' \in [Cached -> [got : SUBSET Repos, at : Int]], CacheOK',
           \A what \in Cached :
               cache'[what] = cache[what] \/ (cache'[what].at \in Int /\ cache'[what].at >= clock)
    PROVE  ConsoleInv'
<1>0. SharedOK /\ ReadingOK(t) /\ AnswerOK(t) /\ call[t] \in Calls /\ Busy(t) /\ StartOK(t)
  BY CallIsCall DEF ConsoleInv, At, ReadingOK
<1>1. ranking' \in Never .. clock
  BY <1>0 DEF SharedOK, SharedTypes
<1>2. CASE call[t].kind = "health"
  <2>1. Advance(t, call[t])
    BY <1>2 DEF WithDirectory
  <2>2. /\ CallTypes'
        /\ \A u \in Threads \ {t} : call'[u] = call[u]
        /\ call'[t].kind = call[t].kind /\ call'[t].step = call[t].step + 1
        /\ call'[t].reply = NoReply
        /\ call'[t].note = call[t].note /\ call'[t].exists = call[t].exists
        /\ call'[t].found = call[t].found /\ call'[t].directory = call[t].directory
        /\ call'[t].drawn = call[t].drawn /\ call'[t].atStart = call[t].atStart
    BY <1>0, <2>1, Advanced
  <2>3. ReadingOK(t)'
    BY <1>0, <2>2, ReadMade DEF dataset
  <2>4. AnswerOK(t)'
    BY <1>0, <1>2, <2>2, PlainRead
  <2> QED
    BY <1>1, <2>2, <2>3, <2>4, Moved
<1>3. CASE call[t].kind # "health"
  <2> DEFINE note == Note(call[t])
             c == [call[t] EXCEPT !.directory = got, !.note = note,
                                  !.exists = FALSE, !.found = FALSE]
  <2>1. Advance(t, c)
    BY <1>3 DEF WithDirectory
  <2>2. note \in Notes
    BY DEF Note, Notes, Refusals
  <2>3. note \in Refusals => note = call[t].note
    BY DEF Note, Refusals
  <2>4. note \notin Refusals => call[t].note \notin Refusals
    BY DEF Note
  <2>5. note \in {"never", "negative"} =>
            call[t].note \notin Refusals /\ (~call[t].exists \/ ~call[t].found)
    BY DEF Note, Refusals
  <2> HIDE DEF note
  <2>6. /\ c \in Calls /\ c.kind = call[t].kind /\ c.step = call[t].step
        /\ c.exists = FALSE /\ c.found = FALSE
        /\ c.directory = got /\ c.atStart = call[t].atStart
        /\ c.note = note /\ c.drawn = call[t].drawn
    BY <1>0, <2>2 DEF Calls
  <2> HIDE DEF c
  <2>7. /\ CallTypes'
        /\ \A u \in Threads \ {t} : call'[u] = call[u]
        /\ call'[t].kind = call[t].kind /\ call'[t].step = call[t].step + 1
        /\ call'[t].reply = NoReply
        /\ call'[t].note = note /\ call'[t].directory = got
        /\ call'[t].drawn = call[t].drawn /\ call'[t].atStart = call[t].atStart
    BY <1>0, <2>1, <2>6, Advanced
  <2>8. ReadingOK(t)'
    BY <1>0, <2>7, ReadMade DEF dataset
  <2>9. \A r : Done(t, r)' <=> Done(t, r) \/ r = "directory"
    BY <1>0, <2>7, DoneNext DEF SharedOK
  <2>10. LongBefore(t)' = LongBefore(t)
    BY <2>7 DEF LongBefore
  <2>11. NamedOK(t)'
    BY <2>7, <2>10 DEF NamedOK, dataset
  <2>12. CoverageOK(t)'
    BY <1>0, <2>4, <2>7, <2>9 DEF AnswerOK, CoverageOK, dataset
  <2>13. NodeOK(t)' /\ RowsOK(t)'
    BY <2>9 DEF NodeOK, RowsOK
  <2>14. call[t].kind \in {"exposure", "blast"}
    <3>1. call[t].kind \in Kinds \ {"health"}
      BY <1>0, <1>3, ConsoleAssumption DEF Busy, Calls, Kinds
    <3>2. CASE call[t].kind = "ranking"
      BY <1>0, <3>2, RankingReads DEF At, Busy, Calls
    <3> QED
      BY <3>1, <3>2 DEF Kinds
  <2>15. Done(t, "counted") /\ Done(t, "node") /\ Done(t, "rows")
    BY <1>0, <2>14, ReadSoFar DEF SharedOK
  <2>16. ~Done(t, "directory")
    BY <1>0, <2>14, ReadSoFar DEF SharedOK
  <2>17. VerdictOK(t)'
    BY <1>0, <2>5, <2>7, <2>15, <2>16 DEF AnswerOK, CoverageOK, NodeOK, RowsOK, VerdictOK, dataset
  <2>18. RefusalOK(t)'
    BY <1>0, <2>3, <2>7 DEF AnswerOK, RefusalOK, Refusals
  <2>19. AnswerOK(t)'
    BY <2>11, <2>12, <2>13, <2>17, <2>18 DEF AnswerOK
  <2> QED
    BY <1>1, <2>7, <2>8, <2>19, Moved
<1> QED
  BY <1>2, <1>3

LEMMA StoreDirectoryStep ==
    ASSUME ConsoleInv, NEW t \in Threads, StoreDirectory(t)
    PROVE  ConsoleInv'
<1> DEFINE got == call[t].reply.got
<1>0. SharedOK /\ ReadingOK(t) /\ call[t] \in Calls /\ "directory" \in Cached
  BY CallIsCall DEF ConsoleInv, Cached
<1>1. /\ At(t, "directory") /\ call[t].reply.tag = "reply"
      /\ Store("directory", got) /\ Advance(t, WithDirectory(t, got))
      /\ UNCHANGED <<dataset, clock, ranking, seen>>
  BY DEF StoreDirectory
<1>2. /\ got \subseteq Now("directory")
      /\ \A i \in 0 .. MaxTime : i < clock => SeenOf(i, "directory") \subseteq got
  BY <1>0, <1>1 DEF ReadingOK, ReplyOK
<1>3. got \in SUBSET Repos /\ got \subseteq listed
  BY <1>0, <1>2 DEF Now, SharedOK, DatasetOK
<1>4. /\ cache' \in [Cached -> [got : SUBSET Repos, at : Int]]
      /\ CacheOK'
      /\ \A w \in Cached :
           cache'[w] = cache[w] \/ (cache'[w].at \in Int /\ cache'[w].at >= clock)
  BY <1>0, <1>1, <1>2, Stored
<1>5. \A i \in LongBefore(t) : i \in 0 .. MaxTime /\ i < clock
  BY <1>0, ConsoleAssumption DEF LongBefore, ReadingOK, StartOK, Calls, SharedOK, SharedTypes
<1>6. \A i \in LongBefore(t) : seen[i].listed \subseteq got
  BY <1>2, <1>5 DEF SeenOf
<1> QED
  BY <1>1, <1>3, <1>4, <1>6, DirectoryRead

\* A request that has just been made, or that has failed, has claimed nothing.
LEMMA NewCall ==
    ASSUME ConsoleInv, NEW t \in Threads, NEW c \in Calls,
           call'[t] = c, call' \in [Threads -> Calls],
           \A u \in Threads \ {t} : call'[u] = call[u],
           c.step = 1, c.note = "none", c.drawn = "none", c.directory = {}, c.reply = NoReply,
           c.atStart.time <= clock, c.atStart.covered \subseteq covered,
           UNCHANGED <<dataset, clock, cache, ranking, seen>>
    PROVE  ConsoleInv'
<1>0. SharedOK /\ call \in [Threads -> Calls]
  BY DEF ConsoleInv, SharedOK, CallTypes
<1>1. call' \in [Threads -> Calls] /\ call'[t] = c /\ \A u \in Threads \ {t} : call'[u] = call[u]
  OBVIOUS
<1>2. c.kind # "none" => Len(Reads(c.kind)) \in Nat
  BY ReadsOf, ConsoleAssumption DEF Calls, Kinds
<1>3. CallTypes'
  <2>1. \A u \in Threads \ {t} :
            /\ call'[u].kind = "none" => call'[u].step = 1
            /\ call'[u].kind # "none" => call'[u].step <= Len(Reads(call'[u].kind)) + 1
    BY <1>0, <1>1 DEF SharedOK, CallTypes
  <2> QED
    BY <1>1, <1>2, <2>1 DEF CallTypes
<1>4. \A read : ~Done(t, read)'
  BY <1>1 DEF Done
<1>5. ReadingOK(t)'
  BY <1>1, <1>4 DEF ReadingOK, StartOK, ReplyOK, HitOK, CountsOK, NoReply, Hit, dataset
<1>6. AnswerOK(t)'
  BY <1>1, <1>4 DEF AnswerOK, NamedOK, CoverageOK, NodeOK, RowsOK, VerdictOK, RefusalOK, Refusals
<1>7. ranking' \in Never .. clock
  BY <1>0 DEF SharedOK, SharedTypes
<1> QED
  BY <1>1, <1>3, <1>5, <1>6, <1>7, MovedAlone

LEMMA NoCallIsCall ==
    /\ NoCall \in Calls /\ NoCall.step = 1 /\ NoCall.note = "none" /\ NoCall.drawn = "none"
    /\ NoCall.directory = {} /\ NoCall.reply = NoReply
    /\ NoCall.atStart.time = 0 /\ NoCall.atStart.covered = {}
BY DEF NoCall, NoReply, Calls, Notes

LEMMA Dropped ==
    ASSUME ConsoleInv, NEW t \in Threads, call' = [call EXCEPT ![t] = NoCall],
           UNCHANGED <<dataset, clock, cache, ranking, seen>>
    PROVE  ConsoleInv'
<1>1. clock \in Nat /\ call \in [Threads -> Calls]
  BY ConsoleAssumption DEF ConsoleInv, SharedOK, SharedTypes, CallTypes
<1>2. /\ call' \in [Threads -> Calls] /\ call'[t] = NoCall
      /\ \A u \in Threads \ {t} : call'[u] = call[u]
  BY <1>1, NoCallIsCall
<1>3. NoCall.atStart.time <= clock /\ NoCall.atStart.covered \subseteq covered
  BY <1>1, NoCallIsCall
<1> QED
  BY <1>2, <1>3, NewCall, NoCallIsCall

LEMMA DirectoryFoundStep ==
    ASSUME ConsoleInv, NEW t \in Threads, DirectoryFound(t)
    PROVE  ConsoleInv'
<1> DEFINE got == cache["directory"].got
<1>0. SharedOK /\ ReadingOK(t) /\ call[t] \in Calls /\ "directory" \in Cached /\ clock \in Nat
  BY CallIsCall, ConsoleAssumption DEF ConsoleInv, Cached, SharedOK, SharedTypes
<1>1. /\ At(t, "directory") /\ call[t].reply = Hit
      /\ UNCHANGED <<dataset, clock, cache, ranking, seen>>
  BY DEF DirectoryFound
<1>2. CASE got # {}
  <2>1. Advance(t, WithDirectory(t, got))
    BY <1>2 DEF DirectoryFound
  <2>2. got \in SUBSET Repos /\ got \subseteq listed
    BY <1>0 DEF SharedOK, SharedTypes, CacheOK, Now
  <2>3. \A i \in LongBefore(t) : seen[i].listed \subseteq got
    BY <1>0, <1>1 DEF LongBefore, ReadingOK, HitOK, SharedOK, CacheOK, SeenOf
  <2>4. /\ cache' \in [Cached -> [got : SUBSET Repos, at : Int]]
        /\ CacheOK'
    <3>1. \A what : Now(what)' = Now(what) /\ \A i : SeenOf(i, what)' = SeenOf(i, what)
      BY <1>1 DEF Now, SeenOf, dataset
    <3> QED
      BY <1>0, <1>1, <3>1 DEF SharedOK, SharedTypes, CacheOK
  <2> QED
    BY <1>1, <2>1, <2>2, <2>3, <2>4, DirectoryRead
<1>3. CASE got = {}
  <2>1. call' = [call EXCEPT ![t] = NoCall]
    BY <1>3 DEF DirectoryFound
  <2> QED
    BY <1>1, <2>1, Dropped
<1> QED
  BY <1>2, <1>3

LEMMA FailStep ==
    ASSUME ConsoleInv, NEW t \in Threads, Fail(t)
    PROVE  ConsoleInv'
BY Dropped DEF Fail

LEMMA AskStep ==
    ASSUME ConsoleInv, NEW t \in Threads, NEW kind \in Requests, Ask(t, kind)
    PROVE  ConsoleInv'
<1> DEFINE start == [time |-> clock, covered |-> covered]
           c == [NoCall EXCEPT !.kind = kind, !.atStart = start]
<1>1. clock \in Nat /\ covered \subseteq Repos
  BY ConsoleAssumption DEF ConsoleInv, SharedOK, SharedTypes, DatasetOK
<1>2. /\ start \in [time : Nat, covered : SUBSET Repos]
      /\ start.time = clock /\ start.covered = covered
  BY <1>1
<1> HIDE DEF start
<1>3. /\ c \in Calls /\ c.step = 1 /\ c.note = "none" /\ c.drawn = "none"
      /\ c.directory = {} /\ c.reply = NoReply /\ c.atStart = start
  BY <1>2, NoCallIsCall DEF Calls
<1>4. call' = [call EXCEPT ![t] = c] /\ UNCHANGED <<dataset, clock, cache, ranking, seen>>
  BY DEF Ask, start
<1> HIDE DEF c
<1>5. call \in [Threads -> Calls]
  BY DEF ConsoleInv, SharedOK, CallTypes
<1>6. /\ call' \in [Threads -> Calls] /\ call'[t] = c
      /\ \A u \in Threads \ {t} : call'[u] = call[u]
  BY <1>3, <1>4, <1>5
<1> QED
  BY <1>1, <1>2, <1>3, <1>4, <1>6, NewCall

\* The ranking, which nothing else rests on.
LEMMA SweepStep ==
    ASSUME ConsoleInv, NEW t \in Threads, Sweep(t)
    PROVE  ConsoleInv'
<1>0. SharedOK /\ ReadingOK(t) /\ AnswerOK(t) /\ call[t] \in Calls
  BY CallIsCall DEF ConsoleInv
<1> DEFINE d == [call[t] EXCEPT !.reply = Reply({})]
<1>1. /\ At(t, "rank") /\ call' = [call EXCEPT ![t] = d]
      /\ UNCHANGED <<dataset, clock, cache, ranking, seen>>
  BY DEF Sweep
<1>2. Reply({}) \in [tag : {"none", "reply", "hit"}, got : SUBSET Repos] /\ Reply({}) # Hit
  BY DEF Reply, Hit
<1>3. /\ d \in Calls /\ d.reply = Reply({}) /\ d.kind = call[t].kind /\ d.step = call[t].step
      /\ d.note = call[t].note /\ d.exists = call[t].exists /\ d.found = call[t].found
      /\ d.directory = call[t].directory /\ d.drawn = call[t].drawn
      /\ d.atStart = call[t].atStart
  BY <1>0, <1>2 DEF Calls
<1> HIDE DEF d
<1>4. call' \in [Threads -> Calls] /\ call'[t] = d /\ \A u \in Threads \ {t} : call'[u] = call[u]
  BY <1>0, <1>1, <1>3 DEF SharedOK, CallTypes
<1>5. CallTypes'
  BY <1>0, <1>3, <1>4 DEF SharedOK, CallTypes
<1>6. \A read : (Done(t, read)' <=> Done(t, read)) /\ (At(t, read)' <=> At(t, read))
  BY <1>3, <1>4 DEF Done, At, Busy
<1>7. \A what \in Cached : ~At(t, what)
  BY <1>1 DEF At, Cached
<1>8. ReadingOK(t)'
  <2>1. StartOK(t)'
    BY <1>0, <1>1, <1>3, <1>4 DEF ReadingOK, StartOK, dataset
  <2>2. ReplyOK(t)' /\ HitOK(t)'
    BY <1>6, <1>7 DEF ReplyOK, HitOK, Cached
  <2>3. CountsOK(t)'
    BY <1>0, <1>1, <1>3, <1>4, <1>6, <1>7 DEF ReadingOK, CountsOK, Cached
  <2> QED
    BY <2>1, <2>2, <2>3 DEF ReadingOK
<1>9. AnswerOK(t)'
  <2>1. call[t].kind \notin {"exposure", "blast"} => ~Done(t, "node") /\ ~Done(t, "rows")
    BY <1>0, ReadSoFar DEF SharedOK
  <2>2. StartOK(t)
    BY <1>0 DEF ReadingOK
  <2> QED
    BY <1>0, <1>1, <1>3, <1>4, <1>6, <2>1, <2>2, AnswerKeeps DEF dataset
<1>10. ranking' \in Never .. clock
  BY <1>0, <1>1 DEF SharedOK, SharedTypes
<1> QED
  BY <1>1, <1>4, <1>5, <1>8, <1>9, <1>10, MovedAlone

\* Writes, and the clock.
LEMMA TimePasses ==
    ASSUME ConsoleInv,
           UNCHANGED <<cache, call>>,
           DatasetOK',
           listed \subseteq listed', marked \subseteq marked', covered \subseteq covered',
           \A S \in SUBSET covered : S \intersect truth' = S \intersect truth,
           clock' \in 0 .. MaxTime, clock <= clock',
           clock' = clock \/ \A t \in Threads : call[t].reply = NoReply,
           ranking' \in Never .. clock',
           seen' \in [0 .. MaxTime -> [listed : SUBSET Repos, marked : SUBSET Repos]],
           \A i \in 0 .. MaxTime : i < clock => seen'[i] = seen[i],
           SeenOK'
    PROVE  ConsoleInv'
<1>0. SharedOK /\ clock \in Nat /\ clock' \in Nat /\ MaxTime \in Nat
  BY ConsoleAssumption DEF ConsoleInv, SharedOK, SharedTypes
<1>1. CallTypes' /\ SharedTypes'
  BY <1>0 DEF SharedOK, CallTypes, SharedTypes
<1>2. CacheOK'
  <2> SUFFICES ASSUME NEW what \in Cached
               PROVE  /\ cache[what].got \subseteq Now(what)'
                      /\ cache[what].at \in Never .. clock'
                      /\ \A i \in 0 .. MaxTime :
                            i < cache[what].at => SeenOf(i, what)' \subseteq cache[what].got
    BY DEF CacheOK
  <2>1. /\ cache[what].got \subseteq Now(what)
        /\ cache[what].at \in Never .. clock
        /\ \A i \in 0 .. MaxTime : i < cache[what].at => SeenOf(i, what) \subseteq cache[what].got
    BY <1>0 DEF SharedOK, CacheOK
  <2>2. Now(what) \subseteq Now(what)'
    BY DEF Now
  <2>3. \A i \in 0 .. MaxTime : i < cache[what].at => SeenOf(i, what)' = SeenOf(i, what)
    BY <1>0, <2>1 DEF SeenOf, Never
  <2>4. cache[what].at \in Never .. clock'
    BY <1>0, <2>1 DEF Never
  <2> QED
    BY <2>1, <2>2, <2>3, <2>4
<1>3. \A t \in Threads : ReadingOK(t)' /\ AnswerOK(t)'
  BY <1>0, StandsStill DEF ConsoleInv
<1> QED
  BY <1>1, <1>2, <1>3 DEF ConsoleInv, SharedOK

LEMMA Initial == Init => ConsoleInv
<1> SUFFICES ASSUME Init PROVE ConsoleInv
  OBVIOUS
<1>1. DatasetOK
  BY DEF Init, EmptyDataset, DatasetOK
<1>2. call \in [Threads -> Calls] /\ \A t \in Threads : call[t] = NoCall
  BY NoCallIsCall DEF Init
<1>3. \A t \in Threads : call[t].kind = "none"
  BY <1>2 DEF NoCall
<1>4. CallTypes
  BY <1>2, <1>3, NoCallIsCall DEF CallTypes
<1>5. 0 \in 0 .. MaxTime /\ Never \in Int /\ Never \in Never .. 0
  BY ConsoleAssumption DEF Never
<1>6. SharedTypes
  BY <1>5 DEF Init, SharedTypes
<1>7. CacheOK
  <2> SUFFICES ASSUME NEW what \in Cached
               PROVE  /\ cache[what].got \subseteq Now(what)
                      /\ cache[what].at \in Never .. clock
                      /\ \A i \in 0 .. MaxTime :
                            i < cache[what].at => SeenOf(i, what) \subseteq cache[what].got
    BY DEF CacheOK
  <2>1. cache[what].got = {} /\ cache[what].at = Never
    BY DEF Init
  <2> QED
    BY <2>1, <1>5 DEF Init, Never
<1>8. SeenOK
  BY DEF Init, SeenOK
<1>9. \A t \in Threads : ReadingOK(t) /\ AnswerOK(t)
  <2> SUFFICES ASSUME NEW t \in Threads PROVE ReadingOK(t) /\ AnswerOK(t)
    OBVIOUS
  <2>1. \A read : ~Done(t, read) /\ ~At(t, read)
    BY <1>3 DEF Done, At, Busy
  <2>2. ReadingOK(t)
    BY <1>2, <2>1, NoCallIsCall DEF Init, ReadingOK, StartOK, ReplyOK, HitOK, CountsOK
  <2>3. AnswerOK(t)
    BY <1>2, <2>1, NoCallIsCall
       DEF AnswerOK, NamedOK, CoverageOK, NodeOK, RowsOK, VerdictOK, RefusalOK
  <2> QED
    BY <2>2, <2>3
<1> QED
  BY <1>1, <1>4, <1>6, <1>7, <1>8, <1>9 DEF ConsoleInv, SharedOK

LEMMA ServeStep ==
    ASSUME ConsoleInv, NEW t \in Threads, Serve(t)
    PROVE  ConsoleInv'
<1>0. SharedOK
  BY DEF ConsoleInv
<1>1. CASE \E what \in Cached : LookUp(t, what)
  BY <1>1, LookUpStep
<1>2. CASE \E what \in Cached : StoreCount(t, what)
  BY <1>2, StoreCountStep
<1>3. ASSUME NEW what \in Cached, CountFound(t, what) PROVE ConsoleInv'
  <2>1. /\ At(t, what) /\ what \in {"repos", "marks"} /\ call[t].reply = Hit
        /\ Advance(t, call[t]) /\ UNCHANGED <<dataset, clock, cache, ranking, seen>>
    BY <1>3 DEF CountFound, Cached
  <2>2. ranking' \in Never .. clock
    BY <1>0, <2>1 DEF SharedOK, SharedTypes
  <2> QED
    BY <2>1, <2>2, PassesBy
<1>4. CASE ReturnCounts(t)
  BY <1>4, ReturnCountsStep
<1>5. CASE StoreDirectory(t)
  BY <1>5, StoreDirectoryStep
<1>6. CASE DirectoryFound(t)
  BY <1>6, DirectoryFoundStep
<1>7. CASE ReadNode(t)
  BY <1>7, ReadNodeStep
<1>8. CASE ReadRows(t)
  BY <1>8, ReadRowsStep
<1>9. CASE ReadOwners(t)
  <2>1. /\ At(t, "owners") /\ Advance(t, call[t])
        /\ UNCHANGED <<dataset, clock, cache, ranking, seen>>
    BY <1>9 DEF ReadOwners
  <2>2. ranking' \in Never .. clock
    BY <1>0, <2>1 DEF SharedOK, SharedTypes
  <2> QED
    BY <2>1, <2>2, PassesBy
<1>10. CASE Sweep(t)
  BY <1>10, SweepStep
<1>11. CASE StoreRanking(t) \/ RankingFound(t)
  <2>1. /\ At(t, "rank") /\ Advance(t, call[t])
        /\ UNCHANGED <<dataset, clock, cache, seen>>
        /\ ranking' \in {ranking, clock}
    BY <1>11 DEF StoreRanking, RankingFound
  <2>2. ranking' \in Never .. clock
    BY <1>0, <2>1, ConsoleAssumption DEF SharedOK, SharedTypes, Never
  <2> QED
    BY <2>1, <2>2, PassesBy
<1>12. CASE Fail(t)
  BY <1>12, FailStep
<1> QED
  BY <1>1, <1>2, <1>3, <1>4, <1>5, <1>6, <1>7, <1>8, <1>9, <1>10, <1>11, <1>12 DEF Serve

LEMMA Step == ConsoleInv /\ [Next]_vars => ConsoleInv'
<1> SUFFICES ASSUME ConsoleInv, [Next]_vars PROVE ConsoleInv'
  OBVIOUS
<1>0. SharedOK /\ DatasetOK /\ SharedTypes /\ SeenOK /\ MaxTime \in Nat
  BY ConsoleAssumption DEF ConsoleInv, SharedOK
<1>1. ASSUME GrowByOne, UNCHANGED <<clock, cache, ranking, call, seen>>
      PROVE  ConsoleInv'
  <2>1. /\ DatasetOK'
        /\ listed \subseteq listed' /\ marked \subseteq marked' /\ covered \subseteq covered'
        /\ \A S \in SUBSET covered : S \intersect truth' = S \intersect truth
    BY <1>0, <1>1, GrowKeeps
  <2>2. /\ clock' \in 0 .. MaxTime /\ clock <= clock' /\ clock' = clock
        /\ ranking' \in Never .. clock'
        /\ seen' \in [0 .. MaxTime -> [listed : SUBSET Repos, marked : SUBSET Repos]]
        /\ \A i \in 0 .. MaxTime : seen'[i] = seen[i]
    BY <1>0, <1>1 DEF SharedTypes
  <2>3. SeenOK'
    BY <1>0, <1>1, <2>1 DEF SeenOK
  <2> QED
    BY <1>1, <2>1, <2>2, <2>3, TimePasses
<1>2. ASSUME NEW t \in Threads, Serve(t) PROVE ConsoleInv'
  BY <1>2, ServeStep
<1>3. ASSUME NEW t \in Threads, NEW kind \in Requests, Ask(t, kind) PROVE ConsoleInv'
  BY <1>3, AskStep
<1>4. ASSUME UNCHANGED <<dataset, clock, cache, call, seen>>, ranking' \in {ranking, Never}
      PROVE  ConsoleInv'
  <2>1. DatasetOK' /\ SeenOK' /\ UNCHANGED <<truth, listed, marked, covered, cache, call>>
    BY <1>0, <1>4 DEF DatasetOK, SeenOK, dataset
  <2>2. /\ clock' \in 0 .. MaxTime /\ clock <= clock' /\ clock' = clock
        /\ ranking' \in Never .. clock'
        /\ seen' \in [0 .. MaxTime -> [listed : SUBSET Repos, marked : SUBSET Repos]]
        /\ \A i \in 0 .. MaxTime : seen'[i] = seen[i]
    BY <1>0, <1>4 DEF SharedTypes, Never
  <2> QED
    BY <2>1, <2>2, TimePasses
<1>5. CASE Tick
  <2>1. /\ clock < MaxTime /\ clock' = clock + 1 /\ clock \in Nat
        /\ \A t \in Threads : call[t].reply = NoReply
        /\ seen' = [seen EXCEPT ![clock] = [listed |-> listed, marked |-> marked]]
        /\ UNCHANGED <<dataset, cache, ranking, call>>
    BY <1>0, <1>5 DEF Tick, SharedTypes
  <2>2. DatasetOK' /\ UNCHANGED <<truth, listed, marked, covered>>
    BY <1>0, <2>1 DEF DatasetOK, dataset
  <2>3. listed \in SUBSET Repos /\ marked \in SUBSET Repos
    BY <1>0 DEF DatasetOK
  <2>4. /\ seen' \in [0 .. MaxTime -> [listed : SUBSET Repos, marked : SUBSET Repos]]
        /\ seen'[clock] = [listed |-> listed, marked |-> marked]
        /\ \A i \in (0 .. MaxTime) \ {clock} : seen'[i] = seen[i]
    BY <1>0, <2>1, <2>3 DEF SharedTypes
  <2>5. SeenOK'
    BY <1>0, <2>2, <2>4 DEF SeenOK
  <2>6. clock' \in 0 .. MaxTime /\ clock <= clock' /\ ranking' \in Never .. clock'
    BY <1>0, <2>1 DEF SharedTypes, Never
  <2>7. \A i \in 0 .. MaxTime : i < clock => seen'[i] = seen[i]
    BY <2>1, <2>4
  <2> QED
    BY <2>1, <2>2, <2>4, <2>5, <2>6, <2>7, TimePasses
<1>6. CASE Evict
  BY <1>4, <1>6 DEF Evict
<1>7. CASE UNCHANGED vars
  BY <1>4, <1>7 DEF vars
<1> QED
  BY <1>1, <1>2, <1>3, <1>5, <1>6, <1>7 DEF Next

-----------------------------------------------------------------------------
(* What it is for.                                                         *)

\* service.py: the invariant, for every interleaving of the console's threads.
THEOREM ConsoleInvariant == Spec => []ConsoleInv
<1> QED
  BY Initial, Step, PTL DEF Spec

LEMMA InvTypes == ConsoleInv => TypeOK
<1> SUFFICES ASSUME ConsoleInv PROVE TypeOK
  OBVIOUS
<1>1. \A t \in Threads :
        /\ call[t].kind \in Requests \union {"none"}
        /\ call[t].step \in 1 .. Len(Exposure) + 5
        /\ call[t].directory \subseteq listed
  <2> SUFFICES ASSUME NEW t \in Threads
               PROVE  /\ call[t].kind \in Requests \union {"none"}
                      /\ call[t].step \in 1 .. Len(Exposure) + 5
                      /\ call[t].directory \subseteq listed
    OBVIOUS
  <2>1. call[t] \in Calls /\ call[t].directory \subseteq listed
    BY DEF ConsoleInv, SharedOK, CallTypes, AnswerOK, NamedOK
  <2>2. Len(Exposure) + 5 = 11
    BY ExposureReads
  <2>3. CASE call[t].kind = "none"
    BY <2>1, <2>2, <2>3 DEF ConsoleInv, SharedOK, CallTypes, Calls
  <2>4. CASE call[t].kind # "none"
    <3>1. call[t].kind \in Kinds
      BY <2>1, <2>4, ConsoleAssumption DEF Calls, Kinds
    <3>2. Len(Reads(call[t].kind)) \in 1 .. 10
      BY <3>1, ReadsOf
    <3>3. call[t].step <= Len(Reads(call[t].kind)) + 1
      BY <2>4 DEF ConsoleInv, SharedOK, CallTypes
    <3>4. call[t].step \in Nat \ {0} /\ call[t].kind \in Requests \union {"none"}
      BY <2>1 DEF Calls
    <3>5. call[t].step \in 1 .. 11
      <4> DEFINE n == Len(Reads(call[t].kind))
                 step == call[t].step
      <4>1. n \in 1 .. 10 /\ step \in Nat \ {0} /\ step <= n + 1
        BY <3>2, <3>3, <3>4
      <4> HIDE DEF n, step
      <4>2. step \in 1 .. 11
        BY <4>1
      <4> QED
        BY <4>2 DEF step
    <3> QED
      BY <2>1, <2>2, <3>4, <3>5
  <2> QED
    BY <2>3, <2>4
<1> QED
  BY <1>1 DEF ConsoleInv, SharedOK, SharedTypes, CacheOK, TypeOK

\* repositories, dataset_counts: a refusal is never about an emptiness that had
\* ended a tick before the question was asked, and there is no verdict from a
\* dataset that holds nothing to be absent from.
THEOREM RefusalsRight == Spec => []RefusalsAreRight
<1>1. ConsoleInv => RefusalsAreRight
  <2> SUFFICES ASSUME ConsoleInv PROVE RefusalsAreRight
    OBVIOUS
  <2>1. RefusalIsRecent
    BY DEF ConsoleInv, AnswerOK, RefusalOK, RefusalIsRecent
  <2>2. NoVerdictFromNothing
    BY DEF ConsoleInv, AnswerOK, VerdictOK, NoVerdictFromNothing
  <2> QED
    BY <2>1, <2>2, InvTypes DEF RefusalsAreRight
<1> QED
  BY <1>1, ConsoleInvariant, PTL

\* _named_exposure: an answer names every repository that was listed cache_ttl
\* before the question, however the threads' reads and stores of the directory
\* fall.
THEOREM RepositoriesNamed == Spec => []EveryRepositoryIsNamed
<1>1. ConsoleInv => EveryRepositoryIsNamed
  <2> SUFFICES ASSUME ConsoleInv, NEW t \in Threads, Answered(t),
                      call[t].kind \in {"exposure", "blast"}, NEW i \in LongBefore(t)
               PROVE  seen[i].listed \subseteq call[t].directory
    BY DEF EveryRepositoryIsNamed
  <2>1. Done(t, "directory")
    BY ReadSoFar DEF ConsoleInv, SharedOK
  <2> QED
    BY <2>1 DEF ConsoleInv, AnswerOK, NamedOK
<1> QED
  BY <1>1, ConsoleInvariant, PTL

\* exposure: a negative is a true one of every repository whose history had been
\* ingested past the instant when the question was asked.
THEOREM NegativeHolds == Spec => []NegativeHoldsWhereCovered
<1>1. ConsoleInv => NegativeHoldsWhereCovered
  BY DEF ConsoleInv, AnswerOK, VerdictOK, NegativeHoldsWhereCovered
<1> QED
  BY <1>1, ConsoleInvariant, PTL
=============================================================================
