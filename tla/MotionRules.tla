----------------------------- MODULE MotionRules -----------------------------
(***************************************************************************)
(* One motion of the VotingReputation extension as a value: which state    *)
(* its clocks, stakes and votes put it in, what it asks of a staker, and   *)
(* what it pays to voters and stakers (VotingReputationStorage.sol and     *)
(* VotingReputationStaking.sol).                                           *)
(*                                                                         *)
(* A motion's three events are kept as the ticks still to go, negative     *)
(* once they are past and never below Past, which no test reaches beyond.  *)
(***************************************************************************)
EXTENDS Integers, FiniteSetsExt

CONSTANTS
    Wad,                   \* fixed-point one: 10^18 in the code
    totalStakeFraction,
    voterRewardFraction,
    userMinStakeFraction,
    maxVoteFraction,
    stakePeriod, submitPeriod, revealPeriod, escalationPeriod,
    FailurePeriod,         \* how long a failing action keeps a motion open: 7 days
    Domains,               \* ids; RootDomain is 1
    DomainReputation,      \* of a domain, as the motions' root hash has it
    Expenditures,
    NoAction, Call         \* the no-op action, and one on anything else

ASSUME RulesAssumption ==
    /\ Wad \in Nat \ {0}
    /\ totalStakeFraction \in 0..(Wad \div 2)
    /\ voterRewardFraction \in 0..(Wad \div 2)
    /\ userMinStakeFraction \in 0..Wad
    /\ maxVoteFraction \in 0..Wad
    /\ {stakePeriod, submitPeriod, revealPeriod, escalationPeriod} \subseteq Nat
    /\ FailurePeriod \in Nat
    /\ Domains \subseteq Nat \ {0} /\ 1 \in Domains
    /\ DomainReputation \in [Domains -> Nat]
    /\ NoAction \notin Expenditures /\ Call \notin Expenditures \cup {NoAction}

RootDomain == 1

NAY == 0

YAY == 1

Sides == {NAY, YAY}

flip(v) == 1 - v

Actions == Expenditures \cup {NoAction, Call}

Past == -(IF escalationPeriod > FailurePeriod THEN escalationPeriod ELSE FailurePeriod)

\* DSMath: products and quotients of fractions, rounded to the nearest.
wmul(x, y) == (x * y + Wad \div 2) \div Wad

wdiv(x, y) == (x * Wad + y \div 2) \div y

Motion ==
    [stakeEnd      : Past..stakePeriod,
     submitEnd     : Past..submitPeriod,
     revealEnd     : Past..(submitPeriod + revealPeriod),
     domainId      : Domains,
     action        : Actions,
     stakes        : [Sides -> Nat],
     votes         : [Sides -> Nat],
     repSubmitted  : Nat,
     paidVoterComp : Nat,
     pastVoterComp : [Sides -> Nat],
     escalated     : BOOLEAN,
     finalized     : BOOLEAN]

none == [v \in Sides |-> 0]

NewMotion(d, a) ==
    [stakeEnd |-> stakePeriod, submitEnd |-> Past, revealEnd |-> Past,
     domainId |-> d, action |-> a,
     stakes |-> none, votes |-> none, repSubmitted |-> 0,
     paidVoterComp |-> 0, pastVoterComp |-> none,
     escalated |-> FALSE, finalized |-> FALSE]

requiredStake(m) == wmul(DomainReputation[m.domainId], totalStakeFraction)

fullyStaked(m) == \A v \in Sides : m.stakes[v] >= requiredStake(m)

totalVotes(m) == m.votes[NAY] + m.votes[YAY]

totalStake(m) == m.stakes[NAY] + m.stakes[YAY]

-----------------------------------------------------------------------------
(* getMotionState                                                          *)

finalizableOrFinalized(m) == IF m.action = NoAction THEN "Finalized" ELSE "Finalizable"

\* A side is short of stake: still staking, or decided by the side that is
\* not, or by an earlier vote.
stakingState(m) ==
    CASE m.stakeEnd > 0                        -> "Staking"
      [] /\ m.stakeEnd <= 0
         /\ m.stakes[YAY] = requiredStake(m) \/ totalVotes(m) > 0
                                               -> finalizableOrFinalized(m)
      [] OTHER                                 -> "Failed"

votingState(m) ==
    CASE m.submitEnd > 0                       -> "Submit"
      [] m.submitEnd <= 0 /\ m.revealEnd > 0   -> "Reveal"
      [] /\ m.submitEnd <= 0 /\ m.revealEnd <= 0
         /\ m.revealEnd > -escalationPeriod /\ m.domainId > RootDomain
                                               -> "Closed"
      [] OTHER                                 -> finalizableOrFinalized(m)

getMotionState(m) ==
    CASE m.finalized                           -> "Finalized"
      [] ~m.finalized /\ ~fullyStaked(m)       -> stakingState(m)
      [] OTHER                                 -> votingState(m)

isSettled(m) == getMotionState(m) \in {"Finalized", "Failed"}

\* A failing action may be given up a while after the staking or the vote.
failingExecutionAllowed(m) ==
    IF fullyStaked(m) THEN m.revealEnd <= -FailurePeriod ELSE m.stakeEnd <= -FailurePeriod

-----------------------------------------------------------------------------
(* What a motion pays.                                                     *)

getVoterReward(m, voterRep) ==
    wmul(wmul(wdiv(voterRep, m.repSubmitted), totalStake(m)), voterRewardFraction)

\* The part of side v's stake that one staker's stake is.  What the side paid
\* to the voters of earlier rounds was everybody's, so it counts as staked.
stakeFraction(m, stake, v) == wdiv(stake, m.stakes[v] + m.pastVoterComp[v])

realStake(m, stake, v) == wmul(stakeFraction(m, stake, v), m.stakes[v])

loserOf(m) == IF m.votes[NAY] < m.votes[YAY] THEN NAY ELSE YAY

\* What is left of the loser's stake after this round's voters.
loserStake(m) == m.stakes[loserOf(m)] - m.paidVoterComp

\* On a scale of 0 to 2: the votes of side v.
winShare(m, v) == wmul(wdiv(m.votes[v], totalVotes(m)), 2 * Wad)

hasWon(m, v) == winShare(m, v) > Wad \/ (winShare(m, v) = Wad /\ v = NAY)

\* Half of the votes win nothing of the loser's stake, all of them all of it.
sharesByVote(m, v) ==
    IF hasWon(m, v)
    THEN m.stakes[flip(loserOf(m))] + wmul(loserStake(m), winShare(m, v) - Wad)
    ELSE wmul(loserStake(m), winShare(m, v))

penalty(stake) == wmul(stake, Wad \div 10)

onlyFullyStaked(m, v) ==
    m.stakes[v] = requiredStake(m) /\ m.stakes[flip(v)] < requiredStake(m)

sharesByStake(m, v) ==
    CASE onlyFullyStaked(m, v)       -> requiredStake(m) + penalty(m.stakes[flip(v)])
      [] onlyFullyStaked(m, flip(v)) -> m.stakes[v] - penalty(m.stakes[v])
      [] OTHER                       -> m.stakes[v]

\* getStakerReward
stakerReward(m, stake, v) ==
    wmul(stakeFraction(m, stake, v),
         IF totalVotes(m) > 0 THEN sharesByVote(m, v) ELSE sharesByStake(m, v))

\* getStakerReward does not revert: its assertion and its subtractions hold.
hasStakerReward(m, stake, v) ==
    IF totalVotes(m) > 0
    THEN /\ loserStake(m) >= 0
         /\ hasWon(m, v) \/ stakerReward(m, stake, v) <= realStake(m, stake, v)
    ELSE /\ m.paidVoterComp = 0
         /\ onlyFullyStaked(m, flip(v)) =>
                stakerReward(m, stake, v) <= realStake(m, stake, v)
=============================================================================
