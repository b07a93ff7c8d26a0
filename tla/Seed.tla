---------------------------------- MODULE Seed ---------------------------------
(***************************************************************************)
(* scripts/demo-seed.py as it is run: an invocation gathers the inputs     *)
(* from a source, and exports them to the dataset file, or writes them to  *)
(* the node and then stamps the repositories with their provenance, or     *)
(* stops at the plan.  Invocations overlap, and any of them may be killed. *)
(* The writes of the ingest itself are Ingest's; here they are two steps.  *)
(***************************************************************************)
EXTENDS SeedInputs

CONSTANTS
    Invocations,  \* of the script, that may overlap
    Real, Acme,   \* a repository with a git history, and the constructed one
    Offered       \* incident files, as far as they are about a package it pins

\* The pin of the constructed repository, the malicious version, the clean
\* release, and whether there is one.
ASSUME SeedAssumption ==
    /\ Real # Acme
    /\ \A i \in Offered :
            /\ {i.pin, i.bad, i.fix} \subseteq Versions \ {NotNumeric}
            /\ i.bad \notin {i.pin, i.fix}
            /\ i.released \in BOOLEAN

VARIABLES
    incident,   \* the incident file
    artifact,   \* the dataset file
    staged,     \* the staging file of an invocation
    call,       \* what each invocation is at, and the dataset it has gathered
    node,       \* repositories with a node
    marked,     \* repositories with a watermark
    labelled    \* repositories whose node says synthetic

seedVars == <<incident, artifact, staged, call, node, marked, labelled>>
files == <<artifact, staged>>
store == <<node, marked, labelled>>

SeedRepos == {Real, Acme}

\* A dataset is its repositories, and those it says are synthetic.
Datasets == [repos : SUBSET SeedRepos, synthetic : SUBSET {Acme}]
Nothing == [repos |-> {}, synthetic |-> {}]

NoFile == [state |-> "none", data |-> Nothing]
Partial(d) == [state |-> "partial", data |-> d]
Whole(d) == [state |-> "whole", data |-> d]

Idle == [pc |-> "idle", data |-> Nothing]
At(c, pc) == call[c].pc = pc
Moves(c, pc) == call' = [call EXCEPT ![c].pc = pc]
Ends(c) == call' = [call EXCEPT ![c] = Idle]

\* Mutant: every export of one destination stages under one name.
FixedName(c) == CHOOSE x \in Invocations : TRUE

\* mkstemp: the staging file has a name of its own.
StagingName(c) == c

-----------------------------------------------------------------------------
(* collect and the first half of main.                                     *)

\* dataset_is_current looks at the first record only.
HaveFile == artifact.state # "none"

\* The source that is read: auto prefers the file, then the snapshots.
Chosen(source, haveSnapshots) ==
    IF source # "auto" THEN source
    ELSE IF HaveFile THEN "file"
    ELSE IF haveSnapshots THEN "snapshots"
    ELSE "graph"

\* Mutant: repositories read from the file are real ones.
ReadAsReal(file) == [repos |-> file.data.repos, synthetic |-> {}]

\* read_dataset keeps what the file says of a repository.
ReadDataset(file) == file.data

\* Mutant: the constructed repository gets no record of what it is.
AddedUnmarked(data, noSynthetic) ==
    IF noSynthetic THEN [repos |-> data.repos \ {Acme}, synthetic |-> {}]
    ELSE [repos |-> data.repos \union {Acme}, synthetic |-> data.synthetic]

\* The constructed repository is left out, or added unless it is there already.
WithSynthetic(data, noSynthetic) ==
    IF noSynthetic THEN [repos |-> data.repos \ {Acme}, synthetic |-> {}]
    ELSE IF Acme \in data.repos THEN data
    ELSE [repos |-> data.repos \union {Acme}, synthetic |-> {Acme}]

\* A source that is missing, or a file that ends before its records do, ends
\* the invocation.
Collect(c) ==
    /\ At(c, "idle")
    /\ \E source \in {"auto", "file", "snapshots", "graph", "graph-file"} :
       \E haveSnapshots, noSynthetic \in BOOLEAN :
            LET chosen == Chosen(source, haveSnapshots)
                data == IF chosen = "file" THEN ReadDataset(artifact)
                        ELSE [repos |-> {Real}, synthetic |-> {}]
            IN  /\ chosen = "file" => artifact.state = "whole"
                /\ chosen = "snapshots" => haveSnapshots
                /\ call' = [call EXCEPT ![c] = [pc |-> "collected",
                                                data |-> WithSynthetic(data, noSynthetic)]]
    /\ UNCHANGED <<incident, files, store>>

\* Without --execute nothing is written.
Plan(c) ==
    /\ At(c, "collected")
    /\ Ends(c)
    /\ UNCHANGED <<incident, files, store>>

-----------------------------------------------------------------------------
(* write_dataset.                                                          *)

Stage(c) ==
    /\ At(c, "collected")
    /\ staged' = [staged EXCEPT ![StagingName(c)] = Partial(call[c].data)]
    /\ Moves(c, "staging")
    /\ UNCHANGED <<incident, artifact, store>>

\* The last record is written and the file is closed.
Close(c) ==
    /\ At(c, "staging")
    /\ staged' = [staged EXCEPT ![StagingName(c)] = Whole(call[c].data)]
    /\ Moves(c, "closed")
    /\ UNCHANGED <<incident, artifact, store>>

\* staging.replace(path); there is nothing left to unlink.
Replace(c) ==
    /\ At(c, "closed")
    /\ staged[StagingName(c)] # NoFile
    /\ artifact' = staged[StagingName(c)]
    /\ staged' = [staged EXCEPT ![StagingName(c)] = NoFile]
    /\ Ends(c)
    /\ UNCHANGED <<incident, store>>

\* An interrupt unlinks the staging file on its way out; a kill leaves it, and
\* no later invocation has its name.
Interrupted(c) ==
    /\ call[c].pc \in {"staging", "closed"}
    /\ staged' = [staged EXCEPT ![StagingName(c)] = NoFile]
    /\ Ends(c)
    /\ UNCHANGED <<incident, artifact, store>>

-----------------------------------------------------------------------------
(* The second half of main: the ingest, then write_provenance.             *)

WriteNodes(c) ==
    /\ At(c, "collected")
    /\ node' = node \union call[c].data.repos
    /\ Moves(c, "writing")
    /\ UNCHANGED <<incident, files, marked, labelled>>

WriteWatermarks(c) ==
    /\ At(c, "writing")
    /\ marked' = marked \union call[c].data.repos
    /\ Moves(c, "written")
    /\ UNCHANGED <<incident, files, node, labelled>>

\* A SET on the node of every input: one that is real says so too.
Stamped(d) == (labelled \ d.repos) \union d.synthetic

WriteProvenance(c) ==
    /\ At(c, "written")
    /\ labelled' = Stamped(call[c].data)
    /\ Moves(c, "reported")
    /\ UNCHANGED <<incident, files, node, marked>>

\* A request that fails for good, or a kill: what was written stays.
Dies(c) ==
    /\ call[c].pc \in {"writing", "written"}
    /\ Ends(c)
    /\ UNCHANGED <<incident, files, store>>

Returns(c) ==
    /\ At(c, "reported")
    /\ Ends(c)
    /\ UNCHANGED <<incident, files, store>>

SeedInit ==
    /\ incident \in Offered
    /\ artifact = NoFile
    /\ staged = [c \in Invocations |-> NoFile]
    /\ call = [c \in Invocations |-> Idle]
    /\ node = {} /\ marked = {} /\ labelled = {}

Step(c) ==
    \/ Collect(c)
    \/ Plan(c)
    \/ Stage(c)
    \/ Close(c)
    \/ Replace(c)
    \/ Interrupted(c)
    \/ WriteNodes(c)
    \/ WriteWatermarks(c)
    \/ WriteProvenance(c)
    \/ Dies(c)
    \/ Returns(c)

SeedNext == \E c \in Invocations : Step(c)

SeedSpec == SeedInit /\ [][SeedNext]_seedVars

-----------------------------------------------------------------------------

\* write_dataset's comment: an export that was interrupted, or another export
\* to the same destination, never leaves a short file there.
ArtifactIsWhole == artifact.state # "partial"

\* The module's docstring: the constructed repository says so.  An invocation
\* that reports what it wrote has left it labelled, whatever source it came
\* from and whatever died before.
ReportedIsLabelled ==
    \A c \in Invocations : At(c, "reported") /\ Acme \in call[c].data.repos => Acme \in labelled

\* Once labelled it stays labelled: not a seed of another source, not one that
\* died halfway and not an overlapping one takes the label away.
LabelIsNeverLost == [][(Acme \in labelled) => (Acme \in labelled')]_seedVars

\* synthetic_repo: the constructed history resolves the malicious version from
\* the reinstall to the remediation, if npm's caret would have installed it
\* (the range up to the next change of the leftmost number that is not zero),
\* and at no other commit, also where the maintainers only unpublished.
ConstructedExposureIsBounded ==
    LET pins == [p \in {"p"} |-> incident.pin]
        bad == [p \in {"p"} |-> incident.bad]
        clean == [p \in IF incident.released THEN {"p"} ELSE {} |-> incident.fix]
        exposed == {s \in 1 .. 4 : Stages(pins, bad, clean)[s]["p"] = incident.bad}
    IN  exposed = IF ~Less(incident.bad, incident.pin) /\ Less(incident.bad, NextAfter(incident.pin))
                  THEN {2} ELSE {}
=============================================================================
