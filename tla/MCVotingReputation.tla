------------------------- MODULE MCVotingReputation -------------------------
(***************************************************************************)
(* Small organisations for TLC: a root domain and one below it.            *)
(***************************************************************************)
EXTENDS VotingReputation, TLC

CONSTANTS u1, u2, x

MCDomainReputation == <<800, 400>>

MCReputation == <<u1 :> 200 @@ u2 :> 600, u1 :> 100 @@ u2 :> 110>>

MCDescendants == <<{2}, {}>>

MCActionDomain == x :> 2 @@ Call :> 2

MCInitialDelay == x :> 1

\* The second motion is about the same expenditure, further up, or about
\* something else.
MCProposals == <<{<<2, x>>}, {<<1, x>>, <<2, Call>>}>>

\* A staker on each side of the first motion and one of the second; both users
\* may vote on either side of each.
MCBackers == <<{<<u1, YAY>>, <<u2, NAY>>}, {<<u2, YAY>>}>>

ASSUME MCAssumption ==
    /\ StakesNeeded /\ DelaysFit(2)
    /\ CompensationFits /\ ReputationRises
=============================================================================
