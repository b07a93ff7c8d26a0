------------------------------- MODULE SeedInputs ------------------------------
(***************************************************************************)
(* What scripts/demo-seed.py makes of its sources: the inputs re-projected *)
(* from a graph, and the repository it constructs from an incident file.   *)
(* A version is its three numbers, or NotNumeric.                          *)
(***************************************************************************)
EXTENDS Integers, FiniteSets, FiniteSetsExt

NotNumeric == <<-1>>
Numbers == 0 .. 2
Versions == (Numbers \X Numbers \X Numbers) \union {NotNumeric}

Less(u, v) ==
    \E i \in 1 .. 3 : u[i] < v[i] /\ \A j \in 1 .. i - 1 : u[j] = v[j]

\* Mutant: a caret admits everything of one major version.
CaretOfMajor(current, candidate) ==
    /\ NotNumeric \notin {current, candidate}
    /\ ~Less(candidate, current)
    /\ candidate[1] = current[1]

\* caret_allows: would ^current resolve to candidate?
CaretAllows(current, candidate) ==
    /\ NotNumeric \notin {current, candidate}
    /\ ~Less(candidate, current)
    /\ IF current[1] > 0 THEN candidate[1] = current[1]
       ELSE IF current[2] > 0 THEN candidate[1] = 0 /\ candidate[2] = current[2]
       ELSE candidate = current

\* npm's own words: the range up to the next change of the leftmost number that
\* is not zero.
NextAfter(v) ==
    IF v[1] > 0 THEN <<v[1] + 1, 0, 0>>
    ELSE IF v[2] > 0 THEN <<0, v[2] + 1, 0>>
    ELSE <<0, 0, v[3] + 1>>

-----------------------------------------------------------------------------
(* Inputs of a repository: its facts, [key, vf, vt], and what is said of    *)
(* them.  sentinel is the valid_to of a fact that is still open.            *)

\* Mutant: the ends of the facts are forgotten.
LastOpening(rows, sentinel) ==
    [first |-> Min({r.vf : r \in rows}), last |-> Max({r.vf : r \in rows}),
     instants |-> {r.vf : r \in rows} \union {r.vt : r \in {s \in rows : s.vt # sentinel}}]

\* from_graph: the commits are not in the graph, so the bounds of its facts
\* stand for them.
FromGraph(rows, sentinel) ==
    LET closed == {r.vt : r \in {s \in rows : s.vt # sentinel}}
        opened == {r.vf : r \in rows}
    IN  [first |-> Min(opened), last |-> Max(opened \union closed),
         instants |-> opened \union closed]

\* from_graph_export: the same bounds, of the rows in a file.
FromGraphExport(rows, sentinel) == FromGraph(rows, sentinel)

\* from_snapshots: the instants are those of every snapshot of the file.
FromSnapshots(snapshots) ==
    LET instants == {s.ts : s \in snapshots}
    IN  [first |-> Min(instants), last |-> Max(instants), instants |-> instants]

-----------------------------------------------------------------------------
(* synthetic_repo: pins, malicious and remediated are functions of packages,*)
(* the versions that SYN_BASELINE_PINS, the first wave of the incident file *)
(* and its clean releases give them; background packages have no such pin.  *)

\* The reinstall inside the window: a range that admits the bad version moves.
Reinstalled(pins, malicious) ==
    [p \in DOMAIN pins |->
        IF p \in DOMAIN malicious /\ CaretAllows(pins[p], malicious[p])
            THEN malicious[p] ELSE pins[p]]

\* The remediation: the clean release if there is one, else the old pin.
Remediated(pins, malicious, clean) ==
    LET before == Reinstalled(pins, malicious)
    IN  [p \in DOMAIN pins |->
            IF p \in DOMAIN malicious /\ before[p] = malicious[p]
                THEN IF p \in DOMAIN clean THEN clean[p] ELSE pins[p]
                ELSE before[p]]

\* What the pinned packages are at the baseline, the reinstall, the remediation
\* and the routine bump, which moves background packages only.
Stages(pins, malicious, clean) ==
    <<pins, Reinstalled(pins, malicious),
      Remediated(pins, malicious, clean), Remediated(pins, malicious, clean)>>

=============================================================================
