------------------------------- MODULE MCConsole -------------------------------
(* Two threads over one repository, or one thread over two, for TLC. *)
EXTENDS Console, TLC

Interchangeable == Permutations(Threads) \union Permutations(Repos)

\* Two threads and one repository, or one thread and two; drawings and rankings,
\* which write nothing that other requests read but by the counts and the
\* directory, with one thread and one repository.
InPlay == Cardinality(truth \union listed) + Cardinality({t \in Threads : call[t].kind # "none"})
Aside == ranking # Never \/ \E t \in Threads : call[t].kind \in {"blast", "ranking"}

Bounded == InPlay <= IF Aside THEN 2 ELSE 3
=============================================================================
