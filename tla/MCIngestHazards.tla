------------------------------- MODULE MCIngestHazards ------------------------
(* One package with two versions (or one) for TLC. *)
EXTENDS IngestHazards

CONSTANTS p, m

MCPackageOf == [k \in Keys |-> p]
MCMaintains == {<<m, p>>}
=============================================================================
