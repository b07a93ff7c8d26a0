-------------------------------- MODULE Ledger --------------------------------
(***************************************************************************)
(* What the graph promises its readers, with nothing of how it keeps the   *)
(* promise: for every repository a horizon that only moves forward, and    *)
(* for every second at or before the horizon an answer that, once given,   *)
(* is never given differently.                                             *)
(***************************************************************************)
EXTENDS Integers

CONSTANTS Repos, Times, Answers, Unknown

VARIABLES
    horizon,  \* newest second a repository's answers are final for
    answer    \* answer[r][t], Unknown after the horizon

vars == <<horizon, answer>>

Init ==
    /\ horizon = [r \in Repos |-> 0]
    /\ answer = [r \in Repos |-> [t \in Times |-> Unknown]]

\* Some repositories' horizons advance, and the seconds they pass get answers.
Publish ==
    /\ horizon' \in [Repos -> Times \union {0}]
    /\ answer' \in [Repos -> [Times -> Answers \union {Unknown}]]
    /\ \A r \in Repos :
        /\ horizon'[r] >= horizon[r]
        /\ \A t \in Times :
            /\ t <= horizon[r] => answer'[r][t] = answer[r][t]
            /\ t > horizon'[r] <=> answer'[r][t] = Unknown

Spec == Init /\ [][Publish]_vars
=============================================================================
