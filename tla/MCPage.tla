--------------------------------- MODULE MCPage ---------------------------------
(***************************************************************************)
(* The page for TLC.  On a few files the operator does what he likes; all  *)
(* files of the sweep are opened on every link, and looked at without a    *)
(* reply ever coming.                                                      *)
(***************************************************************************)
EXTENDS Page, TLC

Version(package, wave, published, remedied) ==
    [package |-> package, wave |-> wave, published |-> published, remedied |-> remedied]

File(start, end, versions) ==
    [window |-> [start |-> start, end |-> end], versions |-> versions, featured |-> <<2>>,
     default |-> 1, domain |-> [start |-> 0, end |-> 0], disclosed |-> 0]

\* The window opens at midnight, and a fix comes after it has closed.
Late == File(4, 6, {Version(1, 1, 4, 8), Version(2, 1, 5, 0)})

Thorough == {Late}

Listed == {Version(1, 1, 4, 0), Version(1, 1, 4, 8), Version(2, 1, 7, 0), Version(2, 2, 5, 6),
           Version(1, 2, 6, 5)}

Sweep == [window : {[start |-> 4, end |-> 6], [start |-> 5, end |-> 8], [start |-> 6, end |-> 6]},
          versions : {s \in SUBSET Listed : Cardinality(s) <= 2},
          featured : {<<>>, <<2>>, <<3>>}, default : {0, 3},
          domain : {[start |-> 0, end |-> 0], [start |-> 3, end |-> 8], [start |-> 4, end |-> 10]},
          disclosed : {0, 9}]

MCFiles == Thorough \union Sweep
MCLinks == {[package |-> 0, at |-> 0, how |-> "none"],
            [package |-> 2, at |-> 30, how |-> "read"],
            [package |-> 3, at |-> 0, how |-> "garbled"]}

\* The footprint and the ranking read nothing of what load() keeps: they are let
\* run when no exposure is awaited, which there is time for between any two acts.
MCBrowser ==
    \/ Boot \/ Release \/ Exposures
    \/ ~timer /\ reads = {} /\ Aside

MCNext == (file \in Thorough /\ Operator) \/ MCBrowser

MCSpec == PageInit /\ [][MCNext]_vars /\ WF_vars(MCBrowser)
=============================================================================
