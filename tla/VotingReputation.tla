-------------------------- MODULE VotingReputation --------------------------
(***************************************************************************)
(* The VotingReputation extension: motions are created, staked for and     *)
(* against, voted on behind secrets, escalated to domains further up,      *)
(* finalized, and their stakes given back.  A motion about an expenditure  *)
(* locks it, by adding LockDelay to its claim delay, so that nothing is    *)
(* paid out under the vote.                                                *)
(*                                                                         *)
(* Reputation is proved against the root hash of a motion's creation and   *)
(* so is constant.  Motions of version 9, whose layout and locks the code  *)
(* still honours, are left out, and so is deprecating the extension.       *)
(***************************************************************************)
EXTENDS MotionRules, Sequences

CONSTANTS
    Users,
    Reputation,         \* of each user in each domain
    Descendants,        \* the children of a domain's skill: all domains below it
    ActionDomain,       \* the domain an action takes place in
    FailingActions,     \* actions whose call never succeeds
    LockDelay,          \* 10 years
    MaxDelay,           \* the largest claim delay: 2^256 - 1
    InitialDelay,       \* of each expenditure
    FinalizedFor,       \* how long ago an expenditure may have been finalized
    MaxMotions,         \* bound: motions ever created
    Proposals,          \* bound: the domains and actions of the n-th motion
    Backers,            \* bound: who stakes on which side of the n-th motion
    Amounts             \* what a staker offers

ASSUME VotingAssumption ==
    /\ IsFiniteSet(Users)
    /\ Reputation \in [Domains -> [Users -> Nat]]
    /\ Descendants \in [Domains -> SUBSET Domains]
    /\ ActionDomain \in [Actions \ {NoAction} -> Domains]
    /\ FailingActions \subseteq Actions
    /\ LockDelay \in Nat /\ MaxDelay \in Nat /\ FinalizedFor \subseteq Nat
    /\ InitialDelay \in [Expenditures -> 0..MaxDelay]
    /\ MaxMotions \in Nat
    /\ Proposals \in [1..MaxMotions -> SUBSET (Domains \X Actions)]
    /\ Backers \in [1..MaxMotions -> SUBSET (Users \X Sides)]
    /\ Amounts \subseteq Nat \ {0}

VARIABLES
    motions,                 \* motion i is motions[i]
    stakes,                  \* of each motion: what each user staked on each side
    voteSecrets,             \* of each motion: the side each user committed to
    expenditureMotionLocks,  \* the motion that locked an expenditure, or 0
    expenditurePastVotes,    \* the most votes an expenditure was changed by
    globalClaimDelay,        \* of each expenditure, in the colony
    deposited,               \* the extension's own deposit in TokenLocking
    carriedSecrets,          \* history: motions escalated with a secret unrevealed
    unlocksRefused           \* history: expenditures whose delay stayed when their lock went

expenditureVars ==
    <<expenditureMotionLocks, expenditurePastVotes, globalClaimDelay, unlocksRefused>>
vars == <<motions, stakes, voteSecrets, carriedSecrets, expenditureVars, deposited>>

MotionIds == 1..MaxMotions

Created == DOMAIN motions

stateOf(i) == getMotionState(motions[i])

NoSecret == -1

Secrets == Sides \cup {NoSecret}

Init ==
    /\ motions = <<>>
    /\ stakes = [i \in MotionIds |-> [u \in Users |-> none]]
    /\ voteSecrets = [i \in MotionIds |-> [u \in Users |-> NoSecret]]
    /\ expenditureMotionLocks = [e \in Expenditures |-> 0]
    /\ expenditurePastVotes = [e \in Expenditures |-> 0]
    /\ globalClaimDelay = InitialDelay
    /\ deposited = 0
    /\ carriedSecrets = {}
    /\ unlocksRefused = {}

\* Time passes for every motion alike.
Tick ==
    /\ motions' = [i \in Created |->
           LET next(end) == IF end > Past THEN end - 1 ELSE Past
           IN  [motions[i] EXCEPT !.stakeEnd  = next(@),
                                  !.submitEnd = next(@),
                                  !.revealEnd = next(@)]]
    /\ UNCHANGED <<stakes, voteSecrets, carriedSecrets, expenditureVars, deposited>>

-----------------------------------------------------------------------------
(* VotingReputation.sol                                                    *)

CreateMotion(d, a) ==
    /\ Len(motions) < MaxMotions /\ <<d, a>> \in Proposals[Len(motions) + 1]
    /\ a # NoAction => ActionDomain[a] \in Descendants[d] \cup {d}
    /\ DomainReputation[d] > 0
    /\ motions' = Append(motions, NewMotion(d, a))
    /\ UNCHANGED <<stakes, voteSecrets, carriedSecrets, expenditureVars, deposited>>

\* A motion both sides have staked enough for is voted on at once.
startVote(m) ==
    [m EXCEPT !.stakeEnd = 0, !.submitEnd = submitPeriod,
              !.revealEnd = submitPeriod + revealPeriod]

\* Mutant: the voters' compensation stays on the books of the new round.
escalate_KeepsComp(m, d) ==
    LET moved == [m EXCEPT !.domainId = d, !.escalated = TRUE,
                           !.pastVoterComp[loserOf(m)] = @ + m.paidVoterComp,
                           !.paidVoterComp = 0]
    IN  IF fullyStaked(moved) THEN startVote(moved) ELSE [moved EXCEPT !.stakeEnd = stakePeriod]

\* The losers of the vote have paid its voters and start the new round with
\* what is left.
escalate(m, d) ==
    LET moved == [m EXCEPT !.domainId = d, !.escalated = TRUE,
                           !.stakes[loserOf(m)] = @ - m.paidVoterComp,
                           !.pastVoterComp[loserOf(m)] = @ + m.paidVoterComp,
                           !.paidVoterComp = 0]
    IN  IF fullyStaked(moved) THEN startVote(moved) ELSE [moved EXCEPT !.stakeEnd = stakePeriod]

\* getChildSkillId lets a domain be its own child.  Secrets that were not
\* revealed stay.
EscalateMotion(i, d) ==
    /\ stateOf(i) = "Closed"
    /\ motions[i].domainId \in Descendants[d] \cup {d}
    /\ loserStake(motions[i]) >= 0
    /\ motions' = [motions EXCEPT ![i] = escalate(@, d)]
    /\ carriedSecrets' = carriedSecrets \cup
           {j \in {i} : \E u \in Users : voteSecrets[j][u] # NoSecret}
    /\ UNCHANGED <<stakes, voteSecrets, expenditureVars, deposited>>

votePower(m) == IF totalVotes(m) > 0 THEN m.votes[YAY] ELSE m.stakes[YAY]

\* Outside the root domain an expenditure is changed only with more power
\* than ever before.
hasPower(m) ==
    \/ m.action \notin Expenditures
    \/ expenditurePastVotes[m.action] < votePower(m)
    \/ m.domainId = RootDomain

canExecute(m) ==
    /\ m.stakes[NAY] < m.stakes[YAY] \/ m.votes[NAY] < m.votes[YAY]
    /\ hasPower(m)

\* Mutant: a motion that may not be executed leaves its lock in place.
unlockExpenditure_Executed(i, e, sinceFinalized) ==
    /\ expenditureMotionLocks' = [expenditureMotionLocks EXCEPT ![e] =
           IF canExecute(motions[i]) THEN 0 ELSE @]
    /\ globalClaimDelay' = [globalClaimDelay EXCEPT ![e] =
           (IF @ > LockDelay THEN @ - LockDelay ELSE 0) + sinceFinalized]
    /\ UNCHANGED unlocksRefused

\* The claim delay starts anew, for an expenditure that was finalized; or the
\* colony refuses the call, the extension having lost its role, and nobody notices.
unlockExpenditure(i, e, sinceFinalized) ==
    /\ expenditureMotionLocks' = [expenditureMotionLocks EXCEPT ![e] = 0]
    /\ \/ /\ globalClaimDelay' = [globalClaimDelay EXCEPT ![e] =
                  (IF @ > LockDelay THEN @ - LockDelay ELSE 0) + sinceFinalized]
          /\ UNCHANGED unlocksRefused
       \/ /\ unlocksRefused' = unlocksRefused \cup {e}
          /\ UNCHANGED globalClaimDelay

\* Mutant: a failing action keeps its motion open for ever.
mayFailNow_Never(m, failingAllowedByUser) == FALSE

mayFailNow(m, failingAllowedByUser) == failingAllowedByUser /\ failingExecutionAllowed(m)

\* finalizeMotion, and finalizeMotionWithoutFailure if ~failingAllowedByUser.
FinalizeMotion(i, failingAllowedByUser) ==
    LET m == motions[i] IN
    /\ stateOf(i) = "Finalizable"
    /\ m.stakes[YAY] = requiredStake(m) \/ totalVotes(m) > 0
    /\ canExecute(m) /\ m.action \in FailingActions => mayFailNow(m, failingAllowedByUser)
    /\ motions' = [motions EXCEPT ![i].finalized = TRUE]
    /\ IF m.action \in Expenditures
       THEN /\ expenditureMotionLocks[m.action] = i
            /\ \E since \in FinalizedFor : unlockExpenditure(i, m.action, since)
            /\ expenditurePastVotes' = [expenditurePastVotes EXCEPT ![m.action] =
                   IF @ < votePower(m) THEN votePower(m) ELSE @]
       ELSE UNCHANGED expenditureVars
    /\ UNCHANGED <<stakes, voteSecrets, carriedSecrets, deposited>>

-----------------------------------------------------------------------------
(* VotingReputationStaking.sol                                             *)

\* The first time a motion about an expenditure has its stake.
locksExpenditure(m, v) ==
    /\ v = YAY /\ ~m.escalated
    /\ m.stakes[YAY] = requiredStake(m)
    /\ m.action \in Expenditures

lockExpenditure(i, e) ==
    /\ expenditureMotionLocks' = [expenditureMotionLocks EXCEPT ![e] = i]
    /\ globalClaimDelay' = [globalClaimDelay EXCEPT ![e] =
           IF MaxDelay - @ < LockDelay THEN MaxDelay ELSE @ + LockDelay]
    /\ UNCHANGED <<expenditurePastVotes, unlocksRefused>>

\* Both sides are staked: vote.  One is: the other gets time to follow, and
\* the new stake supersedes the votes of an earlier round.
afterStake(m, v) ==
    CASE \A w \in Sides : m.stakes[w] = requiredStake(m) -> startVote(m)
      [] m.stakes[v] = requiredStake(m) /\ m.stakes[flip(v)] # requiredStake(m) ->
             [m EXCEPT !.stakeEnd = stakePeriod, !.votes = none, !.repSubmitted = 0]
      [] OTHER -> m

isEnoughToStake(m, userStake, rep, v) ==
    /\ userStake <= rep
    /\ \/ userStake >= wmul(requiredStake(m), userMinStakeFraction)
       \/ m.stakes[v] = requiredStake(m)

\* A motion about an expenditure that another motion has locked is finalized
\* there and then.
StakeMotion(i, u, v, offered) ==
    LET m == motions[i]
        missing == requiredStake(m) - m.stakes[v]
        amount == IF offered < missing THEN offered ELSE missing
        userStake == stakes[i][u][v] + amount
        staked == [m EXCEPT !.stakes[v] = @ + amount]
        isLocked == expenditureMotionLocks[m.action] # 0
    IN
    /\ stateOf(i) = "Staking"
    /\ amount > 0
    /\ isEnoughToStake(staked, userStake, Reputation[m.domainId][u], v)
    /\ stakes' = [stakes EXCEPT ![i][u][v] = userStake]
    /\ deposited' = deposited + amount
    /\ \/ /\ ~locksExpenditure(staked, v)
          /\ motions' = [motions EXCEPT ![i] = afterStake(staked, v)]
          /\ UNCHANGED expenditureVars
       \/ /\ locksExpenditure(staked, v) /\ ~isLocked
          /\ motions' = [motions EXCEPT ![i] = afterStake(staked, v)]
          /\ lockExpenditure(i, m.action)
       \/ /\ locksExpenditure(staked, v) /\ isLocked
          /\ motions' = [motions EXCEPT ![i] =
                             [staked EXCEPT !.stakeEnd = 0, !.finalized = TRUE]]
          /\ UNCHANGED expenditureVars
    /\ UNCHANGED <<voteSecrets, carriedSecrets>>

\* A secret binds its sender to a side; only the first one counts as turnout.
SubmitVote(i, u, v) ==
    LET m == motions[i]
        rep == Reputation[m.domainId][u]
        counted == IF voteSecrets[i][u] = NoSecret THEN m.repSubmitted + rep ELSE m.repSubmitted
        isOver == counted >= wmul(DomainReputation[m.domainId], maxVoteFraction)
    IN
    /\ stateOf(i) = "Submit"
    /\ voteSecrets' = [voteSecrets EXCEPT ![i][u] = v]
    /\ motions' = [motions EXCEPT ![i] =
           [m EXCEPT !.repSubmitted = counted,
                     !.submitEnd = IF isOver THEN 0 ELSE @,
                     !.revealEnd = IF isOver THEN revealPeriod ELSE @]]
    /\ UNCHANGED <<stakes, carriedSecrets, expenditureVars, deposited>>

\* The voter is paid at once, whichever side wins.
RevealVote(i, u) ==
    LET m == motions[i]
        rep == Reputation[m.domainId][u]
        reward == getVoterReward(m, rep)
        voted == [m EXCEPT !.votes[voteSecrets[i][u]] = @ + rep,
                           !.paidVoterComp = @ + reward]
    IN
    /\ stateOf(i) = "Reveal"
    /\ voteSecrets[i][u] # NoSecret
    /\ m.repSubmitted > 0
    /\ reward <= deposited
    /\ motions' = [motions EXCEPT ![i] =
           [voted EXCEPT !.revealEnd = IF totalVotes(voted) = m.repSubmitted THEN 0 ELSE @]]
    /\ voteSecrets' = [voteSecrets EXCEPT ![i][u] = NoSecret]
    /\ deposited' = deposited - reward
    /\ UNCHANGED <<stakes, carriedSecrets, expenditureVars>>

\* Mutant: a claim also leaves its side's stake.
ClaimReward_FromSide(i, u, v) ==
    LET reward == stakerReward(motions[i], stakes[i][u][v], v) IN
    /\ isSettled(motions[i])
    /\ stakes[i][u][v] > 0
    /\ hasStakerReward(motions[i], stakes[i][u][v], v)
    /\ reward <= deposited
    /\ motions' = [motions EXCEPT ![i].stakes[v] = @ - realStake(motions[i], stakes[i][u][v], v)]
    /\ stakes' = [stakes EXCEPT ![i][u][v] = 0]
    /\ deposited' = deposited - reward
    /\ UNCHANGED <<voteSecrets, carriedSecrets, expenditureVars>>

\* A staker takes back what the outcome left of the stake, or more.
ClaimReward(i, u, v) ==
    LET reward == stakerReward(motions[i], stakes[i][u][v], v) IN
    /\ isSettled(motions[i])
    /\ stakes[i][u][v] > 0
    /\ hasStakerReward(motions[i], stakes[i][u][v], v)
    /\ reward <= deposited
    /\ stakes' = [stakes EXCEPT ![i][u][v] = 0]
    /\ deposited' = deposited - reward
    /\ UNCHANGED <<motions, voteSecrets, carriedSecrets, expenditureVars>>

-----------------------------------------------------------------------------
\* Who stakes on a motion also votes, on either side.
Voters(i) == {b[1] : b \in Backers[i]}

Next ==
    \/ Tick
    \/ \E d \in Domains, a \in Actions : CreateMotion(d, a)
    \/ \E i \in Created :
        \/ \E d \in Domains : EscalateMotion(i, d)
        \/ \E allowed \in BOOLEAN : FinalizeMotion(i, allowed)
        \/ \E b \in Backers[i] :
            \/ \E amount \in Amounts : StakeMotion(i, b[1], b[2], amount)
            \/ ClaimReward(i, b[1], b[2])
        \/ \E u \in Voters(i) :
            \/ \E v \in Sides : SubmitVote(i, u, v)
            \/ RevealVote(i, u)

Spec == Init /\ [][Next]_vars

\* Time passes, and somebody finalizes what can be finalized.
FairSpec ==
    /\ Spec
    /\ WF_vars(Tick)
    /\ \A i \in MotionIds : WF_vars(i \in Created /\ FinalizeMotion(i, TRUE))

-----------------------------------------------------------------------------
\* Every book of the extension stays in range, and an uncreated motion has none.
TypeOK ==
    /\ motions \in Seq(Motion) /\ Len(motions) <= MaxMotions
    /\ stakes \in [MotionIds -> [Users -> [Sides -> Nat]]]
    /\ voteSecrets \in [MotionIds -> [Users -> Secrets]]
    /\ \A i \in MotionIds \ Created, u \in Users :
           stakes[i][u] = none /\ voteSecrets[i][u] = NoSecret
    /\ expenditureMotionLocks \in [Expenditures -> {0} \cup Created]
    /\ expenditurePastVotes \in [Expenditures -> Nat]
    /\ globalClaimDelay \in [Expenditures -> Nat]
    /\ deposited \in Nat
    /\ carriedSecrets \subseteq Created /\ unlocksRefused \subseteq Expenditures

Unclaimed(i) == {x \in Users \X Sides : stakes[i][x[1]][x[2]] > 0}

rewardOf(i, x) == stakerReward(motions[i], stakes[i][x[1]][x[2]], x[2])

\* What a settled motion owes the stakers of side v.
owedTo(i, v) ==
    SumFunction([u \in Users |-> IF stakes[i][u][v] > 0 THEN rewardOf(i, <<u, v>>) ELSE 0])

owed(i) ==
    IF isSettled(motions[i])
    THEN owedTo(i, NAY) + owedTo(i, YAY)
    ELSE totalStake(motions[i]) - motions[i].paidVoterComp

\* A unit for each reward and three for the motion, times the precision of a share.
rounding(i) == (2 * Cardinality(Users) + 3) * (1 + totalStake(motions[i]) \div Wad)

\* Who has won by their shares, which are rounded, has won by the votes.
isDecisive(m) == totalVotes(m) > 0 => \A v \in Sides : hasWon(m, v) <=> v # loserOf(m)

\* A motion all of whose voters were counted as they submitted.
isRegular(i) == i \notin carriedSecrets /\ (isSettled(motions[i]) => isDecisive(motions[i]))

\* "paid from the staked tokens of the losing side" (VotingReputationStorage.sol):
\* however often a motion was escalated, restaked and voted on, no claim on it
\* reverts once it is settled, if it never was escalated with a secret unrevealed and
\* is not won by less than the precision of a share; and if all motions are such, the
\* extension's deposit covers what it owes, but for what rounding adds to the rewards.
RewardsPayable ==
    /\ \A i \in Created :
           isSettled(motions[i]) /\ isRegular(i) =>
               \A x \in Unclaimed(i) : hasStakerReward(motions[i], stakes[i][x[1]][x[2]], x[2])
    /\ (\A i \in Created : isRegular(i)) =>
           SumFunction([i \in Created |-> owed(i)]) <=
               deposited + SumFunction([i \in Created |-> rounding(i)])

\* The same of every settled motion: fails once a secret outlives an escalation.
EveryRewardPayable ==
    \A i \in Created :
        isSettled(motions[i]) =>
            \A x \in Unclaimed(i) : hasStakerReward(motions[i], stakes[i][x[1]][x[2]], x[2])

\* Nothing but a claim touches a settled motion: it stays settled the same
\* way and a staker's reward is the same whenever it is claimed.
SettledIsFinal ==
    [][\A i \in Created :
          isSettled(motions[i]) =>
              /\ stateOf(i)' = stateOf(i)
              /\ \A x \in Unclaimed(i) :
                     x \in Unclaimed(i)' => rewardOf(i, x)' = rewardOf(i, x)]_vars

\* unlockExpenditure asserts that a motion about to be finalized holds its
\* expenditure's lock.
LockHeld ==
    \A i \in Created :
        motions[i].action \in Expenditures /\ stateOf(i) = "Finalizable" =>
            expenditureMotionLocks[motions[i].action] = i

\* An expenditure's claims are delayed exactly while it is locked, however
\* many motions are made about it, unless the colony refused to end the delay.
DelayedWhileLocked ==
    \A e \in Expenditures :
        LET isDelayed == globalClaimDelay[e] >= LockDelay
        IN  /\ expenditureMotionLocks[e] # 0 => isDelayed
            /\ isDelayed => expenditureMotionLocks[e] # 0 \/ e \in unlocksRefused

\* What the users staked on a side of a motion is what the side has, and what
\* it has paid to the voters of the rounds before; a claim takes its share out.
StakesAddUp ==
    \A i \in Created, v \in Sides :
        LET sum == SumFunction([u \in Users |-> stakes[i][u][v]])
            all == motions[i].stakes[v] + motions[i].pastVoterComp[v]
        IN  IF isSettled(motions[i]) THEN sum <= all ELSE sum = all

\* The books of stakes, votes and locks agree.
BooksConsistent == TypeOK /\ LockHeld /\ DelayedWhileLocked /\ StakesAddUp

\* What VotingBooksAgree asks of the constants.  Every domain asks a motion for
\* some stake; nothing in the code sees to that, and very little reputation
\* rounds to none.
StakesNeeded == \A d \in Domains : wmul(DomainReputation[d], totalStakeFraction) > 0

\* Claims are delayed for much less than LockDelay; who sets a delay may set any.
DelaysFit(longest) ==
    /\ LockDelay <= MaxDelay
    /\ \A since \in FinalizedFor : since <= longest
    /\ \A e \in Expenditures : InitialDelay[e] + longest * MaxMotions < LockDelay

\* What RewardsArePayable asks of the constants.  The voters' part of both stakes,
\* rounding included, is within one of them.
CompensationFits ==
    \A d \in Domains :
        LET r == wmul(DomainReputation[d], totalStakeFraction)
        IN  2 * r * voterRewardFraction + Cardinality(Users) * (2 * r + Wad) <= r * Wad

\* Reputation is also earned in every domain further up.
ReputationRises ==
    \A d \in Domains : \A c \in Descendants[d] : DomainReputation[c] <= DomainReputation[d]

isEscalatedInPlace(i) == i \in Created /\ EscalateMotion(i, motions[i].domainId)

\* Every motion is settled in the end, however it is staked, voted on and
\* escalated and though its action may fail, if it is not escalated to the domain
\* it is in again and again.
MotionsSettle ==
    \A i \in MotionIds :
        <>[][~isEscalatedInPlace(i)]_vars =>
            (i \in Created ~> i \in Created /\ isSettled(motions[i]))

\* "Escalate a motion to a higher domain" (IVotingReputation.sol), of which there
\* are finitely many: every motion is settled, whatever anybody calls.
EveryMotionSettles ==
    \A i \in MotionIds : i \in Created ~> i \in Created /\ isSettled(motions[i])

\* VotingReputationStorage.sol says of expenditureMotionLocks: "expenditureId
\* => active motionId".
LockedByActive ==
    \A e \in Expenditures :
        LET i == expenditureMotionLocks[e] IN i # 0 => ~isSettled(motions[i])
=============================================================================
