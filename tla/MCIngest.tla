------------------------------- MODULE MCIngest -------------------------------
(* One package with two versions (or one) for TLC. *)
EXTENDS IngestInvariant, TLC

CONSTANTS p, m

MCPackageOf == [k \in Keys |-> p]
MCMaintains == {<<m, p>>}

\* Repositories are interchangeable, and so are the versions of one package.
Interchangeable == Permutations(Repos) \union Permutations(Keys)
=============================================================================
