---------------------------- MODULE MCUniverses ----------------------------
(* Instances of Universes.                                                 *)
EXTENDS Universes, TLC

MCRank == [u \in Universe |-> IF u = "sp500" THEN 1 ELSE 2]

\* Workflows, requests and symbols are interchangeable.
MCSymmetry == Permutations(Job) \union Permutations(Client) \union Permutations(Symbol)
=============================================================================
