--------------------------- MODULE MCColonyFunding ---------------------------
(***************************************************************************)
(* Small colonies for TLC.  Slots are interchangeable; the tokens are not, *)
(* for a colony's own token is the one that bootstrapping gives away.      *)
(***************************************************************************)
EXTENDS ColonyFunding, TLC

CONSTANTS own, ether, s1, s2

MCSlots == {s1, s2}

MCPoorEther == own :> 2 @@ ether :> 1

\* Twice the least amount, so that a payout can be cut, rounded and topped up.
MCPayouts == own :> 2 @@ ether :> 1

MCAmounts == {1, 2}

\* Beyond -100% and half; slots start unmodified.
MCModifiers == {-3, -1}

SlotsInterchangeable == Permutations(MCSlots)
=============================================================================
