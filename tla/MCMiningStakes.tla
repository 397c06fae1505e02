--------------------------- MODULE MCMiningStakes ---------------------------
(***************************************************************************)
(* Miners and hashes are interchangeable; the network and the meta colony  *)
(* are not.                                                                *)
(***************************************************************************)
EXTENDS MiningStakes

CONSTANTS m1, m2, h1, h2

MCMiners == {m1, m2}

MCHashes == {h1, h2}

MCUsers == MCMiners \cup {Network, MetaColony}

MCObligators == {Network, MetaColony}

MCAmounts == {2}

Interchangeable == Permutations(MCMiners) \cup Permutations(MCHashes)
=============================================================================
