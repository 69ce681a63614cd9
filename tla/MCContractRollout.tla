------------------------- MODULE MCContractRollout -------------------------
(* Instances of ContractRollout.                                           *)
EXTENDS ContractRollout

\* AAPL hashes to shard 0 and MSFT to shard 1.
MCShardOf == [s \in Symbol |-> IF s = "AAPL" THEN 0 ELSE 1]
=============================================================================
