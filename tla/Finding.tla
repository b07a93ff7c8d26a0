-------------------------------- MODULE Finding --------------------------------
(***************************************************************************)
(* The evidence packet (hindsight_web/finding.py) of one exposure answer,  *)
(* its rendering as a document, and the answer line of the page            *)
(* (static/app.js) that the packet's headline repeats.  Sentences are      *)
(* named; a count keeps its value and what kind of number it is said to be.*)
(***************************************************************************)
EXTENDS Verdict

CountKeys == {"exposed", "resolved_clean", "not_resolved", "repos"}
FLOOR_COUNTS == {"exposed", "repos"}

\* Mutant: every count of a cut read is called a floor.
AllFloors(key, truncated) == IF truncated THEN "floor" ELSE "exact"

\* _basis.
Basis(key, truncated) ==
    IF ~truncated THEN "exact"
    ELSE IF key \in FLOOR_COUNTS THEN "floor"
    ELSE "observed"

\* _total.
Total(counts) == counts.exposed + counts.resolved_clean + counts.not_resolved

Line(says, n, total, floor, plural) ==
    [says |-> says, n |-> n, total |-> total, floor |-> floor, plural |-> plural]
Plain(says) == Line(says, 0, 0, FALSE, FALSE)

\* _refusal_cause.
RefusalCause(reason) ==
    IF reason \in {"empty_dataset", "no_ingested_history"} THEN reason ELSE "unreadable"

\* Mutant: the package is looked for before the cut.
AbsenceFirst(e) ==
    LET hits == e.counts.exposed
        total == Total(e.counts)
    IN  CASE ~e.answerable -> Plain(RefusalCause(e.reason))
          [] e.answerable /\ hits > 0 ->
                Line("resolved", hits, total, e.truncated, total # 1)
          [] e.answerable /\ hits = 0 /\ ~e.in_graph -> Plain("not in graph")
          [] e.answerable /\ hits = 0 /\ e.in_graph /\ e.truncated -> Plain("cut off")
          [] OTHER -> IF total > 0 THEN Line("none of", 0, total, FALSE, total # 1)
                      ELSE Plain("none")

\* _headline.
Headline(e) ==
    LET hits == e.counts.exposed
        total == Total(e.counts)
    IN  CASE ~e.answerable -> Plain(RefusalCause(e.reason))
          [] e.answerable /\ hits > 0 ->
                Line("resolved", hits, total, e.truncated,
                     (IF total # 0 THEN total ELSE hits) # 1)
          [] e.answerable /\ hits = 0 /\ e.truncated -> Plain("cut off")
          [] e.answerable /\ hits = 0 /\ ~e.truncated /\ ~e.in_graph -> Plain("not in graph")
          [] OTHER -> IF total > 0 THEN Line("none of", 0, total, FALSE, total # 1)
                      ELSE Plain("none")

\* renderAnswer: the answer line of the page, with refusalCause and count.
PageHeadline(e) ==
    LET n == e.counts.exposed
        total == Total(e.counts)
        plural == (IF total > 0 THEN total ELSE n) # 1
    IN  IF ~e.answerable THEN
            Plain(IF e.reason = "empty_dataset" THEN "empty_dataset"
                  ELSE IF e.reason = "no_ingested_history" THEN "no_ingested_history"
                  ELSE "unreadable")
        ELSE IF n > 0 THEN Line("resolved", n, total, e.truncated, plural)
        ELSE IF e.truncated THEN Plain("cut off")
        ELSE IF ~e.in_graph THEN Plain("not in graph")
        ELSE IF total > 0 THEN Line("none of", 0, total, e.truncated, total # 1)
        ELSE Plain("none")

\* Mutant: the cut is forgotten in the note under the line.
PageNoteOfCut(e) ==
    IF ~e.answerable THEN "none"
    ELSE IF ~e.in_graph /\ e.note # "none" THEN e.note
    ELSE IF e.counts.exposed = 0 /\ e.in_graph THEN "proven negative"
    ELSE "none"

\* The note that renderAnswer puts under the line.
PageNote(e) ==
    IF ~e.answerable THEN "none"
    ELSE IF ~e.in_graph /\ e.note # "none" THEN e.note
    ELSE IF ~e.truncated /\ e.counts.exposed = 0 /\ e.in_graph THEN "proven negative"
    ELSE "none"

-----------------------------------------------------------------------------
(* The packet.                                                             *)

CountOfKey(counts, key) ==
    CASE key = "exposed"        -> counts.exposed
      [] key = "resolved_clean" -> counts.resolved_clean
      [] key = "not_resolved"   -> counts.not_resolved
      [] key = "repos"          -> counts.repos

\* _answer: a refusal has no counts at all, only what is missing; caveats are
\* the truncation, absence and reclassification notes of a cut read.
PacketAnswer(e) ==
    [headline |-> Headline(e),
     counts   |-> IF ~e.answerable THEN << >>
                  ELSE [k \in CountKeys |-> [value |-> CountOfKey(e.counts, k),
                                             basis |-> Basis(k, e.truncated)]],
     caveats  |-> e.answerable /\ e.truncated,
     note     |-> IF e.answerable THEN e.note ELSE e.reason]

\* Mutant: only rows with nothing in them carry the caveat.
ReceiptsOfAbsence(e) ==
    IF ~e.answerable THEN << >>
    ELSE [r \in DOMAIN e.repos |->
            [verdict |-> e.repos[r],
             caveat  |-> e.truncated /\ e.repos[r].status = "NOT_RESOLVED"]]

\* _receipts: a row of a cut read that is not EXPOSED carries its own caveat.
Receipts(e) ==
    IF ~e.answerable THEN << >>
    ELSE [r \in DOMAIN e.repos |->
            [verdict |-> e.repos[r],
             caveat  |-> e.truncated /\ e.repos[r].status # "EXPOSED"]]

NotMeasured == [measured |-> FALSE, repos |-> 0, marks |-> 0, note |-> "unavailable"]

\* Mutant: a probe that failed is read like any other.
ProvenanceOfAny(health) ==
    IF ~health.asked THEN NotMeasured
    ELSE [measured |-> TRUE, repos |-> health.repos, marks |-> health.marks, note |-> "none"]

\* _provenance: a probe that failed hands back zeros, which are left out; only
\* what is configured is kept of it.
Provenance(health) ==
    IF ~health.asked THEN NotMeasured
    ELSE IF ~health.reachable THEN [NotMeasured EXCEPT !.note = "probe failed"]
    ELSE [measured |-> TRUE, repos |-> health.repos, marks |-> health.marks, note |-> "none"]

\* build_finding, with _envelope: what was asked, what was answered, and what
\* the read and the dataset were.
Packet(e, health) ==
    [at         |-> e.at,
     answer     |-> PacketAnswer(e),
     receipts   |-> Receipts(e),
     provenance |-> Provenance(health),
     complete   |-> ~e.truncated,
     answerable |-> e.answerable,
     reason     |-> e.reason,
     coverage   |-> e.coverage]

-----------------------------------------------------------------------------
(* The document.                                                           *)

\* A count as the table prints it.
Shown(count) ==
    [value |-> count.value, atLeast |-> count.basis = "floor", basis |-> count.basis]

\* Mutant: the sentence under the table of a cut read is left out.
RenderUnmarked(f) ==
    [headline |-> f.answer.headline,
     counts   |-> [k \in DOMAIN f.answer.counts |-> Shown(f.answer.counts[k])],
     floors   |-> DOMAIN f.answer.counts # {} /\ f.answer.caveats,
     note     |-> f.answer.note,
     rows     |-> [r \in DOMAIN f.receipts |-> f.receipts[r].verdict],
     asRead   |-> FALSE,
     dataset  |-> f.provenance,
     complete |-> f.complete,
     answerable |-> f.answerable]

\* render_markdown.  The caveat of a receipt is not printed on its row: one
\* sentence under the table (asRead) stands for all of them.
RenderMarkdown(f) ==
    [headline |-> f.answer.headline,
     counts   |-> [k \in DOMAIN f.answer.counts |-> Shown(f.answer.counts[k])],
     floors   |-> DOMAIN f.answer.counts # {} /\ f.answer.caveats,
     note     |-> f.answer.note,
     rows     |-> [r \in DOMAIN f.receipts |-> f.receipts[r].verdict],
     asRead   |-> DOMAIN f.receipts # {} /\ f.answer.caveats,
     dataset  |-> f.provenance,
     complete |-> f.complete,
     answerable |-> f.answerable]
=============================================================================
