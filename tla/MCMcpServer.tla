------------------------------ MODULE MCMcpServer ------------------------------
(* The agent's tools over two repositories for TLC. *)
EXTENDS McpServer, TLC

Interchangeable == Permutations(Repos)
=============================================================================
