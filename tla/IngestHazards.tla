----------------------------- MODULE IngestHazards -----------------------------
(***************************************************************************)
(* The writer of Ingest in an environment its code does not rule out: the  *)
(* assumption of Ingest!Commit is dropped, the rest is unchanged.          *)
(***************************************************************************)
EXTENDS Ingest

VARIABLE walked  \* ghost: what the run under way, or the last one, had to walk

hazardVars == <<vars, walked>>

HazardInit ==
    /\ Init
    /\ walked = [r \in Repos |-> {}]

\* A run over all that every repository holds.
FullStart(w) ==
    /\ Begin(w, git)
    /\ walked' = git

Sending(w) == Write(w, TRUE) /\ UNCHANGED walked

\* An assumption dropped: a commit may land at a second already walked (a late
\* merge of an old branch, a second commit of the same second).
LateCommit(r) ==
    /\ \E c \in Commits :
        /\ c.entries # {}
        /\ IsHistory(git[r] \union {c})
        /\ git' = [git EXCEPT ![r] = @ \union {c}]
    /\ UNCHANGED <<seen, store, pending, tx, clock, crashes, walked>>

LateNext ==
    (\E r \in Repos : LateCommit(r)) \/ (\E w \in Writers : FullStart(w) \/ Sending(w))

LateSpec == HazardInit /\ [][LateNext]_hazardVars

-----------------------------------------------------------------------------
(* What a comment of the code says and this environment refutes.           *)

\* When a run over everything git holds has finished, and git has not moved
\* since, the store answers every second as git does.
FullRunIsExact ==
    \A r \in Repos :
        (\A w \in Writers : Idle(w)) /\ walked[r] = git[r] =>
            \A t \in Times : ResolvedInStore(r, t) = ResolvedAsOf(git[r], t)

\* graphbuild.py: an interval that had already closed by the watermark is
\* immutable, later commits can never change it, so it need not be resent.
SettledIsSafeToSkip == FullRunIsExact
=============================================================================
