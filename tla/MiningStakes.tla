---------------------------- MODULE MiningStakes ----------------------------
(***************************************************************************)
(* What ColonyNetworkMining.sol does with the miners' stakes and rewards   *)
(* on top of TokenLocking, cycle after cycle.                              *)
(*                                                                         *)
(* The mining cycle is the caller: of it the module keeps who submitted    *)
(* which hash, which hashes are invalidated, and its two totals.  How its  *)
(* tournament gets there is ReputationMiningCycle, whose checked results   *)
(* are the guards here, as long as nothing is settled again: a hash is     *)
(* invalidated once (OneEntryEach), and the rewards of a cycle stay below  *)
(* the stake its losers lose (RewardsCovered).  Everybody else uses        *)
(* TokenLocking as they like.                                              *)
(***************************************************************************)
EXTENDS TokenLedger, SequencesExt

CONSTANTS
    Miners,           \* users that stake for mining
    Network,          \* ColonyNetwork: a user and an obligator of TokenLocking
    MetaColony,       \* gets the burnt stakes and funds the mining rewards
    Hashes,           \* the submissions that exist
    MinStake,         \* MIN_STAKE
    MaxSubmitters,    \* the limit of 12 submissions of one hash
    CycleReward,      \* totalMinerRewardPerCycle
    ResponseReward,   \* disputeRewardSize()
    Amounts, Supply, MaxLocks   \* of TokenLocking

ASSUME PartiesAssumption ==
    /\ Miners \subseteq Users /\ {Network, MetaColony} \subseteq Users \ Miners
    /\ Network # MetaColony /\ {Network, MetaColony} \subseteq Obligators
    /\ IsFiniteSet(Users) /\ IsFiniteSet(Obligators) /\ IsFiniteSet(Hashes)

ASSUME AmountsAssumption ==
    /\ MinStake \in Nat \ {0} /\ CycleReward \in Nat /\ ResponseReward \in Nat
    /\ MaxSubmitters \in Nat \ {0} /\ Amounts \subseteq Nat \ {0}
    /\ Supply \in Nat /\ MaxLocks \in Nat

VARIABLES
    ledger,                 \* TokenLocking's books for the CLNY token
    miningStakes,           \* miningStakes[m].amount
    recent,                 \* miners whose stake timestamp is after the window opened
    pendingMiningRewards,
    submittedHashes,        \* of the active cycle: who submitted each hash
    respondedToChallenge,
    windowClosed,
    invalidated,
    stakeLost,
    rewardsPaidOut

cycleVars == <<submittedHashes, respondedToChallenge, windowClosed, invalidated,
               stakeLost, rewardsPaidOut>>
vars == <<ledger, miningStakes, recent, pendingMiningRewards, cycleVars>>

\* Stakes that colonies hold of the same deposits are left to TokenLocking.
Books == INSTANCE TokenLocking WITH MaxApproval <- 0

NoSubmissions == [h \in Hashes |-> <<>>]

Init ==
    /\ ledger = EmptyLedger(Supply)
    /\ miningStakes = [m \in Miners |-> 0]
    /\ recent = {}
    /\ pendingMiningRewards = [m \in Miners |-> 0]
    /\ submittedHashes = NoSubmissions
    /\ respondedToChallenge = {}
    /\ windowClosed = FALSE
    /\ invalidated = {}
    /\ stakeLost = 0
    /\ rewardsPaidOut = 0

-----------------------------------------------------------------------------
(* The cycle's books.                                                      *)

Submitted == {h \in Hashes : submittedHashes[h] # <<>>}

Live == Submitted \ invalidated

entriesOf(m, h) ==
    Cardinality({i \in DOMAIN submittedHashes[h] : submittedHashes[h][i] = m})

\* Mutant: only an answer makes a miner involved.
userInvolvedInMiningCycle_Responders(m) == m \in respondedToChallenge

userInvolvedInMiningCycle(m) ==
    \/ \E h \in Hashes : entriesOf(m, h) > 0
    \/ m \in respondedToChallenge

\* The entry indices a miner may use run to stake / MIN_STAKE.
checkEntryQualifies(m, h) ==
    /\ entriesOf(m, h) < miningStakes[m] \div MinStake
    /\ m \notin recent
    /\ \A g \in Hashes \ {h} : entriesOf(m, g) = 0

submitRootHash(m, h) ==
    /\ ~windowClosed \/ Submitted = {}
    /\ checkEntryQualifies(m, h)
    /\ Len(submittedHashes[h]) < MaxSubmitters
    /\ submittedHashes' = [submittedHashes EXCEPT ![h] = Append(@, m)]
    /\ UNCHANGED <<ledger, miningStakes, recent, pendingMiningRewards,
                   respondedToChallenge, windowClosed, invalidated, stakeLost, rewardsPaidOut>>

CloseWindow ==
    /\ ~windowClosed
    /\ windowClosed' = TRUE
    /\ UNCHANGED <<ledger, miningStakes, recent, pendingMiningRewards, submittedHashes,
                   respondedToChallenge, invalidated, stakeLost, rewardsPaidOut>>

disputeRewardSize == IF Cardinality(Submitted) <= 1 THEN 0 ELSE ResponseReward

\* disputeRewardSize is such that the stakes of all hashes but one pay for n
\* more rewards.
rewardsLeft(n) ==
    rewardsPaidOut + n * disputeRewardSize <= MinStake * (Cardinality(Submitted) - 1)

\* The cycle and the network both book the reward; the tokens come later, from
\* the stakes of those who lose.
rewardResponder(m) ==
    /\ rewardsPaidOut' = rewardsPaidOut + disputeRewardSize
    /\ pendingMiningRewards' = [pendingMiningRewards EXCEPT ![m] = @ + disputeRewardSize]
    /\ respondedToChallenge' = respondedToChallenge \cup {m}

\* Any of the answers of a dispute; one reward per hash still to be
\* invalidated stays reserved.
respond(m) ==
    /\ windowClosed /\ Submitted # {}
    /\ rewardsLeft(Cardinality(Live))
    /\ rewardResponder(m)
    /\ UNCHANGED <<ledger, miningStakes, recent, submittedHashes, windowClosed, invalidated,
                   stakeLost>>

-----------------------------------------------------------------------------
(* Slashing.                                                               *)

\* Mutant: the stakes are set to zero in the network's books.
loseStake_All(s, m) ==
    [s EXCEPT !.miningStakes[m] = 0, !.lostStake = MinStake]

\* First loop: the amount the last staker lost is the one the second loop
\* takes from all of them.
loseStake(s, m) ==
    LET lostStake == Min({s.miningStakes[m], MinStake})
    IN  [s EXCEPT !.miningStakes[m] = @ - lostStake, !.lostStake = lostStake]

\* Second loop; ok turns FALSE when a transferStake reverts.
takeStake(s, m) ==
    [s EXCEPT !.ledger = transferStake(@, Network, m, s.lostStake, Network, TRUE),
              !.ok = @ /\ canTransferStake(s.ledger, Network, m, s.lostStake)]

\* Mutant: the network does not clear its own lock.
punishStakers_Locked(s, stakers) ==
    FoldLeft(takeStake, FoldLeft(loseStake, s, stakers), stakers)

\* The deposit of 0 clears any locks of the network.
punishStakers(s, stakers) ==
    LET lost    == FoldLeft(loseStake, s, stakers)
        cleared == [lost EXCEPT !.ledger = deposit(@, Network, 0, TRUE)]
    IN  FoldLeft(takeStake, cleared, stakers)

Books0 == [ledger |-> ledger, miningStakes |-> miningStakes, lostStake |-> 0, ok |-> TRUE]

stakeOf(h) == Len(submittedHashes[h]) * MinStake

\* Entries out of Live were invalidated before; the caller is rewarded.
punished(s, hs, lost, m) ==
    /\ windowClosed
    /\ rewardsLeft(1)
    /\ s.ok
    /\ ledger' = s.ledger
    /\ miningStakes' = s.miningStakes
    /\ stakeLost' = stakeLost + lost
    /\ invalidated' = invalidated \cup hs
    /\ rewardResponder(m)
    /\ UNCHANGED <<recent, submittedHashes, windowClosed>>

\* The opponent moves on.
invalidateHash(h, m) ==
    /\ Live \ {h} # {}
    /\ punished(punishStakers(Books0, submittedHashes[h]), {h}, stakeOf(h), m)

\* The opponent g is invalidated too.
invalidateBoth(h, g, m) ==
    punished(punishStakers(punishStakers(Books0, submittedHashes[h]), submittedHashes[g]),
             {h, g}, stakeOf(h) + stakeOf(g), m)

-----------------------------------------------------------------------------
(* The end of a cycle.                                                     *)

\* Tokens slashed but not awarded go to the meta colony.
burnUnneededRewards(l, amount) ==
    IF amount = 0 THEN l
    ELSE [withdraw(l, Network, amount, TRUE) EXCEPT
             !.wallet[Network]    = @ - amount,
             !.wallet[MetaColony] = @ + amount]

canBurnUnneededRewards(l, amount) == amount = 0 \/ canWithdraw(l, Network, amount, TRUE)

\* One depositFor per entry of the winning hash, out of the network's wallet;
\* the shares come from calculateMinerWeight, in tokens that add up.
rewardStakers(l, stakers, share) ==
    FoldLeftDomain(LAMBDA x, i : depositFor(x, Network, share[i], stakers[i], TRUE),
                   l, stakers)

Shares(stakers) ==
    {share \in [DOMAIN stakers -> 0 .. CycleReward] :
        SumFunction(share) = CycleReward}

\* confirmNewHash, which calls burnUnneededRewards and setReputationRootHash;
\* the cycle that starts has no submission, and its window opens now.
confirmNewHash(h, share) ==
    LET excess == stakeLost - rewardsPaidOut
        burnt  == burnUnneededRewards(ledger, excess)
    IN  /\ windowClosed
        /\ Live = {h}
        /\ excess >= 0
        /\ canBurnUnneededRewards(ledger, excess)
        /\ CycleReward <= burnt.wallet[Network]
        /\ ledger' = rewardStakers(burnt, submittedHashes[h], share)
        /\ submittedHashes' = NoSubmissions
        /\ respondedToChallenge' = {}
        /\ windowClosed' = FALSE
        /\ invalidated' = {}
        /\ stakeLost' = 0
        /\ rewardsPaidOut' = 0
        /\ recent' = {}
        /\ UNCHANGED <<miningStakes, pendingMiningRewards>>

-----------------------------------------------------------------------------
(* What miners call.                                                       *)

\* The weighted timestamp of the stake may move past the opening of the window.
stakeForMining(m, amount) ==
    LET approved == approveStake(ledger, Network, m, amount)
    IN  /\ canObligateStake(approved, Network, m, amount)
        /\ ledger' = obligateStake(approved, Network, m, amount)
        /\ miningStakes' = [miningStakes EXCEPT ![m] = @ + amount]
        /\ recent' \in {recent, recent \cup {m}}
        /\ UNCHANGED <<pendingMiningRewards, cycleVars>>

unstakeForMining(m, amount) ==
    /\ ~userInvolvedInMiningCycle(m)
    /\ canDeobligateStake(ledger, Network, m, amount)
    /\ amount <= miningStakes[m]
    /\ ledger' = deobligateStake(ledger, Network, m, amount)
    /\ miningStakes' = [miningStakes EXCEPT ![m] = @ - amount]
    /\ UNCHANGED <<recent, pendingMiningRewards, cycleVars>>

\* Mutant: the amount paid stays owed.
claimMiningReward_Again(m) ==
    /\ canTransfer(ledger, Network, pendingMiningRewards[m], TRUE)
    /\ ledger' = transfer(ledger, Network, pendingMiningRewards[m], m, TRUE, TRUE)
    /\ UNCHANGED <<miningStakes, recent, pendingMiningRewards, cycleVars>>

\* CLNY payments succeed, so makeConditionalDeposit's try never fails.
claimMiningReward(m) ==
    /\ canTransfer(ledger, Network, pendingMiningRewards[m], TRUE)
    /\ pendingMiningRewards' = [pendingMiningRewards EXCEPT ![m] = 0]
    /\ ledger' = transfer(ledger, Network, pendingMiningRewards[m], m, TRUE, TRUE)
    /\ UNCHANGED <<miningStakes, recent, cycleVars>>

-----------------------------------------------------------------------------
(* Everybody else.                                                         *)

\* The meta colony pays for the rewards of the next cycles.
fundNetwork(amount) ==
    /\ amount <= ledger.wallet[MetaColony]
    /\ ledger' = [ledger EXCEPT !.wallet[MetaColony] = @ - amount,
                                !.wallet[Network] = @ + amount]
    /\ UNCHANGED <<miningStakes, recent, pendingMiningRewards, cycleVars>>

\* A miner uses its deposit; the meta colony locks CLNY for a reward payout.
useTokenLocking ==
    /\ \/ \E m \in Miners, amount \in Amounts, force \in BOOLEAN :
            \/ Books!Deposit(m, amount, force)
            \/ Books!Withdraw(m, amount, force)
            \/ \E u \in Miners : Books!Transfer(m, amount, u, force, TRUE)
       \/ Books!LockToken(MetaColony)
       \/ \E m \in Miners, lockId \in 1 .. MaxLocks : Books!IncrementLockCounterTo(m, lockId)
    /\ UNCHANGED <<miningStakes, recent, pendingMiningRewards, cycleVars>>

-----------------------------------------------------------------------------

Staking ==
    \E m \in Miners :
        \/ \E amount \in Amounts : stakeForMining(m, amount) \/ unstakeForMining(m, amount)
        \/ claimMiningReward(m)

Cycle ==
    \/ \E m \in Miners, h \in Hashes : submitRootHash(m, h)
    \/ CloseWindow
    \/ \E m \in Miners : respond(m)
    \/ \E m \in Miners, h \in Live : invalidateHash(h, m)
    \/ \E m \in Miners, h \in Live : \E g \in Live \ {h} : invalidateBoth(h, g, m)
    \/ \E h \in Live : \E share \in Shares(submittedHashes[h]) : confirmNewHash(h, share)

Next == Staking \/ Cycle \/ useTokenLocking \/ \E amount \in Amounts : fundNetwork(amount)

Spec == Init /\ [][Next]_vars

-----------------------------------------------------------------------------
(* Properties.                                                             *)

\* The storage of the network, of its ledger and of the active cycle.
TypeOK ==
    /\ ledger \in Ledger
    /\ miningStakes \in [Miners -> Nat]
    /\ recent \subseteq Miners /\ respondedToChallenge \subseteq Miners
    /\ pendingMiningRewards \in [Miners -> Nat]
    /\ submittedHashes \in [Hashes -> Seq(Miners)]
    /\ windowClosed \in BOOLEAN
    /\ invalidated \subseteq Hashes
    /\ stakeLost \in Nat /\ rewardsPaidOut \in Nat

\* What the network thinks a miner has staked is what TokenLocking holds of
\* that miner for the network, though punishStakers computes the two in two
\* loops and uses the loss of the last staker for all of them.
StakesMatch == \A m \in Miners : miningStakes[m] = ledger.obligations[m][Network]

\* Until its hash is settled, each entry has a MIN_STAKE of its own behind it:
\* nobody that submitted, alone or several times, can pull the stake out before
\* the dispute is over, and no two entries share one.
EntriesBacked ==
    \A m \in Miners :
        miningStakes[m] >=
            MinStake * SumFunctionOnSet([h \in Hashes |-> entriesOf(m, h)], Live)

\* Slashing never reverts, whatever the stakers did with their deposits, locks
\* and stakes elsewhere in the meantime: no loser can stop the tournament.
SlashNeverBlocked == \A h \in Live : punishStakers(Books0, submittedHashes[h]).ok

\* The deposit of the network covers all it owes: the rewards booked, and what
\* confirmNewHash will burn.  Rewards are booked before the stakes that pay for
\* them are lost, so only the two together balance.
RewardsBacked ==
    ledger.balance[Network] + rewardsPaidOut
        >= stakeLost + SumFunction(pendingMiningRewards)

\* Once one hash is left, the burn in confirmNewHash cannot revert, however
\* many rewards were claimed before; the cycle can be closed.
BurnNeverBlocked ==
    (windowClosed /\ Cardinality(Live) = 1) =>
        /\ rewardsPaidOut <= stakeLost
        /\ canBurnUnneededRewards(ledger, stakeLost - rewardsPaidOut)

\* The two books of stakes agree, and no amount in them drops below zero.
BooksMatch == TypeOK /\ StakesMatch

\* The cycle can always go on to its end.
CycleCanClose == SlashNeverBlocked /\ BurnNeverBlocked
=============================================================================
