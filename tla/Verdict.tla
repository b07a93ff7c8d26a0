-------------------------------- MODULE Verdict --------------------------------
(***************************************************************************)
(* What the console makes of the rows of one read: classify and summarize  *)
(* (hindsight_web/analysis.py) and the shaping of the exposure answer      *)
(* (hindsight_web/service.py).  A row is [key, vf, vt], a version of the   *)
(* package and the interval it was resolved over; a window is an           *)
(* incident's [start, end, first], first being the first malicious publish.*)
(***************************************************************************)
EXTENDS Integers, FiniteSets, FiniteSetsExt

Inside(w, t) == w.start <= t /\ t < w.end

\* Mutant: any overlap with the window is taken for cover.
Overlaps(row, w) == row.vf < w.end /\ row.vt > w.start

\* Mutant: a pin made as the window opens was not there before.
StrictlyCovers(row, w) == row.vf < w.start /\ row.vt >= w.end

\* The row held across the whole of the window.
Covers(row, w) == row.vf <= w.start /\ row.vt >= w.end

\* Mutant: the age is that of the oldest pin.
OldestAge(rows, w) ==
    LET starts == {row.vf : row \in {r \in rows : r.vf <= w.first}}
    IN  IF starts = {} THEN 0 ELSE w.first - Min(starts)

\* _lead_time_note: how old the newest pin was when the first malicious version
\* was published, whichever of the versions it is a pin of; 0 is no note.
LeadTime(rows, w) ==
    LET starts == {row.vf : row \in {r \in rows : r.vf <= w.first}}
    IN  IF starts = {} THEN 0 ELSE w.first - Max(starts)

\* A lockfile holds several versions of a package; one malicious is enough.
Hits(rows, bad) == {row \in rows : row.key \in bad}

\* The sentence under a row: what matched, that nothing was resolved, that a
\* pin was held across the window, or that the pin changed inside it.
Verdict(status, claim, keys, lead) ==
    [status |-> status, claim |-> claim, keys |-> keys, lead |-> lead]

\* classify.
Classify(rows, bad, w) ==
    LET hits == Hits(rows, bad)
        held == {row \in rows : Covers(row, w)}
    IN  IF hits # {} THEN Verdict("EXPOSED", "matched", {r.key : r \in hits}, 0)
        ELSE IF rows = {} THEN Verdict("NOT_RESOLVED", "absent", {}, 0)
        ELSE IF held # {} THEN
            Verdict("RESOLVED_CLEAN", "held", {r.key : r \in held}, LeadTime(rows, w))
        ELSE Verdict("RESOLVED_CLEAN", "changed", {r.key : r \in rows}, 0)

CountOf(repos, status) ==
    Cardinality({r \in DOMAIN repos : repos[r].status = status})

\* summarize.
Summarize(repos) ==
    [exposed        |-> CountOf(repos, "EXPOSED"),
     resolved_clean |-> CountOf(repos, "RESOLVED_CLEAN"),
     not_resolved   |-> CountOf(repos, "NOT_RESOLVED"),
     repos          |-> Cardinality(DOMAIN repos)]

\* The note of an answer: why there is none, that the package was never
\* resolved, or that nobody resolves it now, if the read was not cut.
ExposureNote(reason, exists, rows, truncated) ==
    CASE reason # "none" -> reason
      [] reason = "none" /\ ~exists -> "never"
      [] reason = "none" /\ exists /\ rows = {} /\ truncated -> "truncation"
      [] reason = "none" /\ exists /\ rows = {} /\ ~truncated -> "negative"
      [] OTHER -> "none"

\* A cut of either read makes the answer a truncated one.
Truncated(rowsCut, directoryCut) == rowsCut \/ directoryCut

\* coverage_of, of the two counts of the dataset.
ReasonOf(coverage) ==
    IF coverage.repos = 0 THEN "empty_dataset"
    ELSE IF coverage.marks = 0 THEN "no_ingested_history"
    ELSE "none"

\* exposure: rows are those read at the instant, by repository; only the
\* repositories of the directory are classified.  exists is package_exists.
Exposure(rows, exists, directory, bad, w, at, rowsCut, directoryCut, coverage) ==
    LET reason == ReasonOf(coverage)
        repos == [r \in directory |-> Classify(rows[r], bad, w)]
        truncated == Truncated(rowsCut, directoryCut)
        read == UNION {rows[r] : r \in DOMAIN rows}
    IN  [at         |-> at,
         in_window  |-> Inside(w, at),
         in_graph   |-> exists,
         repos      |-> repos,
         counts     |-> Summarize(repos),
         truncated  |-> truncated,
         answerable |-> reason = "none",
         reason     |-> reason,
         coverage   |-> coverage,
         note       |-> ExposureNote(reason, exists, read, truncated)]
=============================================================================
