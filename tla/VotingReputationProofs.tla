----------------------- MODULE VotingReputationProofs -----------------------
(***************************************************************************)
(* Proofs about VotingReputation: the books of stakes add up, a settled    *)
(* motion is final, expenditures are locked as long as the extension       *)
(* assumes, and the deposit covers the rewards.                            *)
(***************************************************************************)
EXTENDS VotingReputation, SetLemmas, TLAPS

\* Fixed-point products and quotients of naturals are naturals.
LEMMA WmulNat ==
  ASSUME NEW x \in Nat, NEW y \in Nat
  PROVE  wmul(x, y) \in Nat
<1>1. Wad \in Nat \ {0} BY RulesAssumption
<1>2. x * y \in Nat BY SMT
<1>3. \A p, q \in Nat : q > 0 => p \div q \in Nat BY SMT
<1>4. Wad \div 2 \in Nat BY <1>1, <1>3
<1> QED BY <1>1, <1>2, <1>3, <1>4 DEF wmul

\* The divisor must not be zero; the callers see to that.
LEMMA WdivNat ==
  ASSUME NEW x \in Nat, NEW y \in Nat, y # 0
  PROVE  wdiv(x, y) \in Nat
<1>1. Wad \in Nat \ {0} BY RulesAssumption
<1>2. x * Wad \in Nat BY <1>1, SMT
<1>3. \A p, q \in Nat : q > 0 => p \div q \in Nat BY SMT
<1>4. y \div 2 \in Nat BY <1>3
<1> QED BY <1>1, <1>2, <1>3, <1>4 DEF wdiv

\* A tenth of a stake is rounded to no more than the stake.
LEMMA PenaltySmall ==
  ASSUME NEW s \in Nat
  PROVE  penalty(s) \in Nat /\ penalty(s) <= s
<1>1. Wad \in Nat \ {0} BY RulesAssumption
<1> DEFINE t == Wad \div 10
           h == Wad \div 2
<1>2. t \in Nat /\ h \in Nat /\ 10 * t <= Wad /\ 2 * h <= Wad /\ h < Wad BY <1>1, SMT
<1>3. penalty(s) \in Nat BY <1>2, WmulNat DEF penalty
<1> HIDE DEF t, h
<1>4. s * t + h < (s + 1) * Wad
  <2>1. s * t <= s * Wad BY <1>1, <1>2, SMT
  <2> QED BY <1>1, <1>2, <2>1, SMT
<1>5. \A a \in Nat : a < (s + 1) * Wad => a \div Wad <= s BY <1>1, SMT
<1>6. s * t + h \in Nat BY <1>2, SMT
<1> QED BY <1>3, <1>4, <1>5, <1>6 DEF penalty, wmul, t, h

\* What a motion asks for is an amount.
LEMMA RequiredNat ==
  ASSUME NEW m \in Motion
  PROVE  requiredStake(m) \in Nat
<1>1. DomainReputation[m.domainId] \in Nat BY RulesAssumption DEF Motion
<1>2. totalStakeFraction \in Nat BY RulesAssumption
<1> QED BY <1>1, <1>2, WmulNat DEF requiredStake

\* The fields of a motion that the rewards are computed from are amounts.
LEMMA MotionFields ==
  ASSUME NEW m \in Motion
  PROVE  /\ m.stakes[NAY] \in Nat /\ m.stakes[YAY] \in Nat
         /\ m.votes[NAY] \in Nat /\ m.votes[YAY] \in Nat
         /\ m.pastVoterComp[NAY] \in Nat /\ m.pastVoterComp[YAY] \in Nat
         /\ m.repSubmitted \in Nat /\ m.paidVoterComp \in Nat
         /\ totalVotes(m) \in Nat /\ totalStake(m) \in Nat
         /\ loserOf(m) \in Sides
         /\ \A v \in Sides : flip(v) \in Sides
BY DEF Motion, totalVotes, totalStake, loserOf, Sides, flip, NAY, YAY

\* A voter's reward is an amount, once somebody has voted.
LEMMA VoterRewardNat ==
  ASSUME NEW m \in Motion, NEW rep \in Nat, m.repSubmitted > 0
  PROVE  getVoterReward(m, rep) \in Nat
<1>1. wdiv(rep, m.repSubmitted) \in Nat BY MotionFields, WdivNat
<1>2. voterRewardFraction \in Nat BY RulesAssumption
<1> QED BY <1>1, <1>2, MotionFields, WmulNat DEF getVoterReward

\* If getStakerReward does not revert, what it returns is an amount.
LEMMA StakerRewardNat ==
  ASSUME NEW m \in Motion, NEW stake \in Nat, NEW v \in Sides,
         m.stakes[v] + m.pastVoterComp[v] > 0,
         hasStakerReward(m, stake, v)
  PROVE  stakerReward(m, stake, v) \in Nat
<1>1. m.stakes[v] \in Nat /\ m.pastVoterComp[v] \in Nat /\ m.stakes[flip(v)] \in Nat
  BY MotionFields DEF Sides, flip, NAY, YAY
<1>2. stakeFraction(m, stake, v) \in Nat BY <1>1, WdivNat DEF stakeFraction
<1>3. CASE totalVotes(m) > 0
  <2>1. loserStake(m) \in Nat
    BY <1>3, MotionFields DEF hasStakerReward, loserStake, Sides, NAY, YAY
  <2>2. Wad \in Nat \ {0} BY RulesAssumption
  <2>3. winShare(m, v) \in Nat
    <3>1. wdiv(m.votes[v], totalVotes(m)) \in Nat
      BY <1>3, MotionFields, WdivNat DEF Sides, NAY, YAY
    <3>2. 2 * Wad \in Nat BY <2>2
    <3> QED BY <3>1, <3>2, WmulNat DEF winShare
  <2>4. sharesByVote(m, v) \in Nat
    <3>1. CASE hasWon(m, v)
      <4>1. winShare(m, v) - Wad \in Nat BY <2>2, <2>3, <3>1 DEF hasWon
      <4>2. wmul(loserStake(m), winShare(m, v) - Wad) \in Nat BY <2>1, <4>1, WmulNat
      <4>3. m.stakes[flip(loserOf(m))] \in Nat
        BY MotionFields DEF Sides, flip, NAY, YAY
      <4> QED BY <3>1, <4>2, <4>3 DEF sharesByVote
    <3>2. CASE ~hasWon(m, v)
      BY <2>1, <2>3, <3>2, WmulNat DEF sharesByVote
    <3> QED BY <3>1, <3>2
  <2> QED BY <1>2, <1>3, <2>4, WmulNat DEF stakerReward
<1>4. CASE ~(totalVotes(m) > 0)
  <2>1. sharesByStake(m, v) \in Nat
    <3>1. requiredStake(m) \in Nat BY RequiredNat
    <3>2. /\ penalty(m.stakes[v]) \in Nat /\ penalty(m.stakes[v]) <= m.stakes[v]
          /\ penalty(m.stakes[flip(v)]) \in Nat
      BY <1>1, PenaltySmall
    <3> QED BY <1>1, <3>1, <3>2 DEF sharesByStake
  <2> QED BY <1>2, <1>4, <2>1, WmulNat DEF stakerReward
<1> QED BY <1>3, <1>4

-----------------------------------------------------------------------------
(* One motion.                                                             *)

ticked(end) == IF end > Past THEN end - 1 ELSE Past

later(m) == [m EXCEPT !.stakeEnd  = ticked(@),
                      !.submitEnd = ticked(@),
                      !.revealEnd = ticked(@)]

\* The clocks' bounds.
LEMMA PastNegative ==
  /\ Past \in Int /\ Past <= 0
  /\ escalationPeriod \in Nat /\ FailurePeriod \in Nat
  /\ stakePeriod \in Nat /\ submitPeriod \in Nat /\ revealPeriod \in Nat
  /\ Past <= -escalationPeriod
BY RulesAssumption DEF Past

\* Time passes on a motion's clocks only, and they stay in range.
LEMMA LaterFields ==
  ASSUME NEW m \in Motion
  PROVE  /\ later(m) \in Motion
         /\ later(m).stakeEnd = ticked(m.stakeEnd)
         /\ later(m).submitEnd = ticked(m.submitEnd)
         /\ later(m).revealEnd = ticked(m.revealEnd)
         /\ later(m).domainId = m.domainId /\ later(m).action = m.action
         /\ later(m).stakes = m.stakes /\ later(m).votes = m.votes
         /\ later(m).repSubmitted = m.repSubmitted
         /\ later(m).paidVoterComp = m.paidVoterComp
         /\ later(m).pastVoterComp = m.pastVoterComp
         /\ later(m).finalized = m.finalized /\ later(m).escalated = m.escalated
<1>1. \A top \in Int : \A end \in Past .. top : ticked(end) \in Past .. top
  BY PastNegative DEF ticked
<1>2. /\ ticked(m.stakeEnd) \in Past .. stakePeriod
      /\ ticked(m.submitEnd) \in Past .. submitPeriod
      /\ ticked(m.revealEnd) \in Past .. (submitPeriod + revealPeriod)
  BY <1>1, PastNegative DEF Motion
<1> QED BY <1>2 DEF Motion, later

\* No passing of time brings a settled motion back.
LEMMA SettledStays ==
  ASSUME NEW m \in Motion, isSettled(m)
  PROVE  getMotionState(later(m)) = getMotionState(m)
<1>1. /\ m.stakeEnd \in Int /\ m.submitEnd \in Int /\ m.revealEnd \in Int
      /\ m.stakeEnd <= 0 => ticked(m.stakeEnd) <= 0
      /\ m.submitEnd <= 0 => ticked(m.submitEnd) <= 0
      /\ m.revealEnd <= 0 => ticked(m.revealEnd) <= 0
      /\ m.revealEnd <= -escalationPeriod => ticked(m.revealEnd) <= -escalationPeriod
      /\ ticked(m.stakeEnd) \in Int /\ ticked(m.submitEnd) \in Int /\ ticked(m.revealEnd) \in Int
  BY PastNegative DEF Motion, ticked
<1>2. fullyStaked(later(m)) <=> fullyStaked(m)
  BY LaterFields DEF fullyStaked, requiredStake
<1>3. totalVotes(later(m)) = totalVotes(m) /\ requiredStake(later(m)) = requiredStake(m)
  BY LaterFields DEF totalVotes, requiredStake
<1>4. finalizableOrFinalized(later(m)) = finalizableOrFinalized(m)
  BY LaterFields DEF finalizableOrFinalized
<1>5. m.domainId \in Nat /\ escalationPeriod \in Nat BY RulesAssumption DEF Motion
<1>6. CASE m.finalized BY <1>6, LaterFields DEF getMotionState
<1>7. CASE ~m.finalized /\ ~fullyStaked(m)
  <2>1. m.stakeEnd <= 0
    BY <1>1, <1>7 DEF isSettled, getMotionState, stakingState
  <2>2. ~(m.stakeEnd > 0) /\ ~(later(m).stakeEnd > 0) /\ later(m).stakeEnd <= 0
    BY <1>1, <2>1, LaterFields
  <2>3. stakingState(later(m)) = stakingState(m)
    BY <1>3, <1>4, <2>1, <2>2, LaterFields DEF stakingState
  <2> QED BY <1>2, <1>7, <2>3, LaterFields DEF getMotionState
<1>8. CASE ~m.finalized /\ fullyStaked(m)
  <2>1. votingState(m) \notin {"Submit", "Reveal", "Closed"}
    BY <1>8 DEF isSettled, getMotionState
  <2>2. /\ m.submitEnd <= 0 /\ m.revealEnd <= 0
        /\ ~(m.revealEnd > -escalationPeriod /\ m.domainId > RootDomain)
    BY <1>1, <2>1 DEF votingState
  <2>3. /\ later(m).submitEnd <= 0 /\ later(m).revealEnd <= 0
        /\ ~(later(m).revealEnd > -escalationPeriod /\ later(m).domainId > RootDomain)
        /\ ~(later(m).submitEnd > 0) /\ ~(later(m).revealEnd > 0)
        /\ ~(m.submitEnd > 0) /\ ~(m.revealEnd > 0)
    BY <1>1, <1>5, <2>2, LaterFields
  <2>4. votingState(m) = finalizableOrFinalized(m) BY <2>2, <2>3 DEF votingState
  <2>5. votingState(later(m)) = finalizableOrFinalized(later(m)) BY <2>3 DEF votingState
  <2> QED BY <1>2, <1>4, <1>8, <2>4, <2>5, LaterFields DEF getMotionState
<1> QED BY <1>6, <1>7, <1>8

\* Nor does it change what a staker will get.
LEMMA RewardStays ==
  ASSUME NEW m \in Motion, NEW stake, NEW v
  PROVE  stakerReward(later(m), stake, v) = stakerReward(m, stake, v)
BY LaterFields
DEF stakerReward, stakeFraction, totalVotes, sharesByVote, sharesByStake, hasWon, winShare,
    loserStake, loserOf, onlyFullyStaked, requiredStake

-----------------------------------------------------------------------------
(* The motions as a sequence.                                              *)

\* Changing one motion leaves the others.
LEMMA PutBack ==
  ASSUME NEW s \in Seq(Motion), NEW i \in DOMAIN s, NEW k \in Motion
  PROVE  LET t == [s EXCEPT ![i] = k]
         IN  /\ t \in Seq(Motion) /\ Len(t) = Len(s) /\ DOMAIN t = DOMAIN s
             /\ \A j \in DOMAIN s : t[j] = IF j = i THEN k ELSE s[j]
OBVIOUS

\* A new motion leaves the others.
LEMMA Append1 ==
  ASSUME NEW s \in Seq(Motion), NEW k \in Motion
  PROVE  LET t == Append(s, k)
         IN  /\ t \in Seq(Motion) /\ Len(t) = Len(s) + 1
             /\ DOMAIN t = 1 .. Len(s) + 1 /\ DOMAIN s = 1 .. Len(s)
             /\ \A j \in DOMAIN s : t[j] = s[j]
             /\ t[Len(s) + 1] = k
OBVIOUS

\* Time passes for every motion.
LEMMA TickedMotions ==
  ASSUME NEW s \in Seq(Motion)
  PROVE  LET t == [i \in DOMAIN s |-> later(s[i])]
         IN  /\ t \in Seq(Motion) /\ Len(t) = Len(s) /\ DOMAIN t = DOMAIN s
             /\ \A j \in DOMAIN s : t[j] = later(s[j])
<1>1. \A i \in DOMAIN s : s[i] \in Motion OBVIOUS
<1>2. \A i \in DOMAIN s : later(s[i]) \in Motion BY <1>1, LaterFields
<1>3. DOMAIN s = 1 .. Len(s) /\ Len(s) \in Nat OBVIOUS
<1> DEFINE t == [i \in 1 .. Len(s) |-> later(s[i])]
<1>4. t \in [1 .. Len(s) -> Motion] BY <1>2, <1>3
<1>5. t \in Seq(Motion) /\ Len(t) = Len(s)
  <2> HIDE DEF t
  <2> QED BY <1>3, <1>4
<1> QED BY <1>3, <1>5

-----------------------------------------------------------------------------
(* The new values that the actions give a motion.                          *)

\* What createMotion stores is a motion.
LEMMA NewMotionType ==
  ASSUME NEW d \in Domains, NEW a \in Actions
  PROVE  NewMotion(d, a) \in Motion
BY PastNegative DEF NewMotion, Motion, none, Sides, NAY, YAY

\* A vote starts with clocks in range, and changes nothing else.
LEMMA StartVoteType ==
  ASSUME NEW m \in Motion
  PROVE  /\ startVote(m) \in Motion
         /\ startVote(m).stakes = m.stakes /\ startVote(m).pastVoterComp = m.pastVoterComp
         /\ startVote(m).action = m.action /\ startVote(m).finalized = m.finalized
         /\ startVote(m).escalated = m.escalated /\ startVote(m).domainId = m.domainId
         /\ startVote(m).votes = m.votes /\ startVote(m).paidVoterComp = m.paidVoterComp
         /\ startVote(m).repSubmitted = m.repSubmitted
<1>1. /\ 0 \in Past .. stakePeriod /\ submitPeriod \in Past .. submitPeriod
      /\ submitPeriod + revealPeriod \in Past .. (submitPeriod + revealPeriod)
  BY PastNegative
<1> DEFINE k == startVote(m)
<1>2. k \in Motion BY <1>1 DEF Motion, startVote
<1>3. /\ k.stakes = m.stakes /\ k.pastVoterComp = m.pastVoterComp
      /\ k.action = m.action /\ k.finalized = m.finalized
      /\ k.escalated = m.escalated
  BY DEF Motion, startVote
<1>4. /\ k.votes = m.votes /\ k.paidVoterComp = m.paidVoterComp
      /\ k.repSubmitted = m.repSubmitted /\ k.domainId = m.domainId
  BY DEF Motion, startVote
<1> QED BY <1>2, <1>3, <1>4

\* Escalating moves the voters' compensation from the stakes of the losers to what
\* they have paid; the two together stay.
LEMMA EscalateType ==
  ASSUME NEW m \in Motion, NEW d \in Domains, loserStake(m) >= 0
  PROVE  /\ escalate(m, d) \in Motion
         /\ \A v \in Sides : escalate(m, d).stakes[v] + escalate(m, d).pastVoterComp[v]
                               = m.stakes[v] + m.pastVoterComp[v]
         /\ escalate(m, d).action = m.action /\ escalate(m, d).finalized = m.finalized
         /\ escalate(m, d).escalated /\ escalate(m, d).domainId = d
         /\ escalate(m, d).paidVoterComp = 0
         /\ escalate(m, d).votes = m.votes /\ escalate(m, d).repSubmitted = m.repSubmitted
         /\ \A v \in Sides : escalate(m, d).stakes[v] <= m.stakes[v]
         /\ totalStake(escalate(m, d)) = totalStake(m) - m.paidVoterComp
<1> DEFINE l == loserOf(m)
           moved == [m EXCEPT !.domainId = d, !.escalated = TRUE,
                              !.stakes[l] = @ - m.paidVoterComp,
                              !.pastVoterComp[l] = @ + m.paidVoterComp,
                              !.paidVoterComp = 0]
<1>1. l \in Sides /\ m.paidVoterComp \in Nat BY MotionFields
<1>2. m.stakes \in [Sides -> Nat] /\ m.pastVoterComp \in [Sides -> Nat] BY DEF Motion
<1>3. m.stakes[l] - m.paidVoterComp \in Nat BY <1>1, <1>2 DEF loserStake
<1>4. moved \in Motion
  <2>1. [m.stakes EXCEPT ![l] = @ - m.paidVoterComp] \in [Sides -> Nat] BY <1>1, <1>2, <1>3
  <2>2. [m.pastVoterComp EXCEPT ![l] = @ + m.paidVoterComp] \in [Sides -> Nat] BY <1>1, <1>2
  <2> QED BY <2>1, <2>2 DEF Motion
<1>5. \A v \in Sides : moved.stakes[v] + moved.pastVoterComp[v] = m.stakes[v] + m.pastVoterComp[v]
  <2>1. /\ moved.stakes = [m.stakes EXCEPT ![l] = @ - m.paidVoterComp]
        /\ moved.pastVoterComp = [m.pastVoterComp EXCEPT ![l] = @ + m.paidVoterComp]
    BY DEF Motion
  <2> HIDE DEF moved, l
  <2> QED BY <1>1, <1>2, <2>1
<1>6. /\ moved.action = m.action /\ moved.finalized = m.finalized /\ moved.escalated
      /\ moved.domainId = d /\ moved.paidVoterComp = 0
      /\ moved.votes = m.votes /\ moved.repSubmitted = m.repSubmitted
  BY DEF Motion
<1>10. /\ \A v \in Sides : moved.stakes[v] <= m.stakes[v]
       /\ moved.stakes[NAY] + moved.stakes[YAY]
            = m.stakes[NAY] + m.stakes[YAY] - m.paidVoterComp
  <2>1. moved.stakes = [m.stakes EXCEPT ![l] = @ - m.paidVoterComp] BY DEF Motion
  <2>2. NAY \in Sides /\ YAY \in Sides /\ NAY # YAY /\ (l = NAY \/ l = YAY)
    BY <1>1 DEF Sides, NAY, YAY
  <2> HIDE DEF moved, l
  <2> QED BY <1>1, <1>2, <2>1, <2>2
<1> HIDE DEF moved
<1>7. /\ startVote(moved) \in Motion
      /\ startVote(moved).stakes = moved.stakes
      /\ startVote(moved).pastVoterComp = moved.pastVoterComp
      /\ startVote(moved).action = moved.action /\ startVote(moved).finalized = moved.finalized
      /\ startVote(moved).escalated = moved.escalated
      /\ startVote(moved).domainId = moved.domainId
      /\ startVote(moved).paidVoterComp = moved.paidVoterComp
      /\ startVote(moved).votes = moved.votes
      /\ startVote(moved).repSubmitted = moved.repSubmitted
  BY <1>4, StartVoteType
<1> DEFINE again == [moved EXCEPT !.stakeEnd = stakePeriod]
<1>8. /\ again \in Motion
      /\ again.stakes = moved.stakes /\ again.pastVoterComp = moved.pastVoterComp
      /\ again.action = moved.action /\ again.finalized = moved.finalized
      /\ again.escalated = moved.escalated /\ again.domainId = moved.domainId
      /\ again.paidVoterComp = moved.paidVoterComp
      /\ again.votes = moved.votes /\ again.repSubmitted = moved.repSubmitted
  <2>1. stakePeriod \in Past .. stakePeriod BY PastNegative
  <2> QED BY <1>4, <2>1 DEF Motion
<1>9. escalate(m, d) = startVote(moved) \/ escalate(m, d) = again
  BY DEF escalate, moved
<1> DEFINE k == escalate(m, d)
<1>11. /\ k \in Motion /\ k.stakes = moved.stakes /\ k.pastVoterComp = moved.pastVoterComp
       /\ k.action = moved.action /\ k.finalized = moved.finalized
       /\ k.escalated = moved.escalated /\ k.domainId = moved.domainId
       /\ k.paidVoterComp = moved.paidVoterComp
       /\ k.votes = moved.votes /\ k.repSubmitted = moved.repSubmitted
  <2> HIDE DEF again
  <2> QED BY <1>7, <1>8, <1>9
<1> HIDE DEF k
<1>12. totalStake(k) = totalStake(m) - m.paidVoterComp
  <2>1. k.stakes[NAY] = moved.stakes[NAY] /\ k.stakes[YAY] = moved.stakes[YAY] BY <1>11
  <2> QED BY <1>10, <2>1, MotionFields DEF totalStake
<1> QED BY <1>5, <1>6, <1>10, <1>11, <1>12 DEF k

\* A side's stake can only grow up to what is required.
LEMMA AfterStakeType ==
  ASSUME NEW m \in Motion, NEW v \in Sides
  PROVE  /\ afterStake(m, v) \in Motion
         /\ afterStake(m, v).stakes = m.stakes
         /\ afterStake(m, v).pastVoterComp = m.pastVoterComp
         /\ afterStake(m, v).paidVoterComp = m.paidVoterComp
         /\ afterStake(m, v).action = m.action /\ afterStake(m, v).finalized = m.finalized
         /\ afterStake(m, v).escalated = m.escalated
         /\ afterStake(m, v).domainId = m.domainId
         /\ \/ /\ totalVotes(afterStake(m, v)) = totalVotes(m)
               /\ afterStake(m, v).repSubmitted = m.repSubmitted
            \/ totalVotes(afterStake(m, v)) = 0
<1> DEFINE full == \A w \in Sides : m.stakes[w] = requiredStake(m)
           half == m.stakes[v] = requiredStake(m) /\ m.stakes[flip(v)] # requiredStake(m)
           alone == [m EXCEPT !.stakeEnd = stakePeriod, !.votes = none, !.repSubmitted = 0]
<1>1. afterStake(m, v) \in {startVote(m), alone, m}
  <2>1. ~(full /\ half) BY MotionFields
  <2> QED BY <2>1, Zenon DEF afterStake
<1>2. /\ startVote(m) \in Motion /\ startVote(m).stakes = m.stakes
      /\ startVote(m).pastVoterComp = m.pastVoterComp
      /\ startVote(m).action = m.action /\ startVote(m).finalized = m.finalized
      /\ startVote(m).escalated = m.escalated /\ startVote(m).domainId = m.domainId
      /\ startVote(m).votes = m.votes /\ startVote(m).paidVoterComp = m.paidVoterComp
      /\ startVote(m).repSubmitted = m.repSubmitted
  BY StartVoteType
<1>3. /\ alone \in Motion /\ alone.stakes = m.stakes
      /\ alone.pastVoterComp = m.pastVoterComp
      /\ alone.action = m.action /\ alone.finalized = m.finalized
      /\ alone.escalated = m.escalated /\ alone.domainId = m.domainId
      /\ alone.votes = none /\ alone.paidVoterComp = m.paidVoterComp
  <2>1. stakePeriod \in Past .. stakePeriod BY PastNegative
  <2>2. none \in [Sides -> Nat] BY DEF none
  <2> QED BY <2>1, <2>2 DEF Motion
<1>4. none[NAY] + none[YAY] = 0 BY DEF none, Sides
<1> HIDE DEF alone
<1> QED BY <1>1, <1>2, <1>3, <1>4 DEF totalVotes

-----------------------------------------------------------------------------
(* What the users staked on one motion.                                    *)

Stakings == [Users -> [Sides -> Nat]]

Sum(t, v) == SumFunction([u \in Users |-> t[u][v]])

Fits(m, t) ==
    \A v \in Sides :
        LET all == m.stakes[v] + m.pastVoterComp[v]
        IN  IF isSettled(m) THEN Sum(t, v) <= all ELSE Sum(t, v) = all

\* StakesAddUp, one motion at a time.
LEMMA FitsDef == StakesAddUp <=> \A i \in Created : Fits(motions[i], stakes[i])
BY DEF StakesAddUp, Fits, Sum

\* Nobody has more on a side than all have.
LEMMA SumStaked ==
  ASSUME NEW t \in Stakings, NEW v \in Sides
  PROVE  Sum(t, v) \in Nat /\ \A u \in Users : t[u][v] <= Sum(t, v)
<1> DEFINE f == [u \in Users |-> t[u][v]]
<1>1. IsFiniteSet(Users) BY VotingAssumption
<1>2. \A u \in Users : f[u] \in Nat BY DEF Stakings
<1>3. DOMAIN f = Users OBVIOUS
<1> HIDE DEF f
<1>4. SumFunctionOnSet(f, Users) \in Nat BY <1>1, <1>2, SumNat
<1>5. \A u \in Users : f[u] <= SumFunctionOnSet(f, Users) BY <1>1, <1>2, SumTermAtMost
<1> QED BY <1>3, <1>4, <1>5 DEF Sum, SumFunction, f

\* Changing one user's stake changes the sum by as much.
LEMMA SumPut ==
  ASSUME NEW t \in Stakings, NEW u \in Users, NEW v \in Sides, NEW n \in Nat,
         NEW s, s = [t EXCEPT ![u][v] = n]
  PROVE  /\ s \in Stakings
         /\ Sum(s, v) = Sum(t, v) - t[u][v] + n
         /\ \A w \in Sides \ {v} : Sum(s, w) = Sum(t, w)
         /\ s[u][v] = n
         /\ \A x \in Users, w \in Sides : x # u \/ w # v => s[x][w] = t[x][w]
<1> DEFINE f == [x \in Users |-> t[x][v]]
           g == [x \in Users |-> s[x][v]]
<1>1. /\ s \in Stakings /\ s[u][v] = n
      /\ \A x \in Users, w \in Sides : x # u \/ w # v => s[x][w] = t[x][w]
  BY DEF Stakings
<1>2. IsFiniteSet(Users) BY VotingAssumption
<1>3. \A x \in Users : f[x] \in Int /\ g[x] \in Int BY <1>1 DEF Stakings
<1>4. \A x \in Users : x # u => g[x] = f[x] BY <1>1
<1>5. f[u] = t[u][v] /\ g[u] = n BY <1>1
<1>6. DOMAIN f = Users /\ DOMAIN g = Users OBVIOUS
<1>7. SumFunctionOnSet(g, Users) = SumFunctionOnSet(f, Users) - f[u] + g[u]
  <2> HIDE DEF f, g
  <2> QED BY <1>2, <1>3, <1>4, SumChange
<1>8. Sum(s, v) = Sum(t, v) - t[u][v] + n
  <2>1. Sum(s, v) = SumFunctionOnSet(g, Users) BY <1>6 DEF Sum, SumFunction
  <2>2. Sum(t, v) = SumFunctionOnSet(f, Users) BY <1>6 DEF Sum, SumFunction
  <2> HIDE DEF f, g
  <2> QED BY <1>5, <1>7, <2>1, <2>2
<1>9. ASSUME NEW w \in Sides \ {v} PROVE Sum(s, w) = Sum(t, w)
  <2>1. [x \in Users |-> s[x][w]] = [x \in Users |-> t[x][w]] BY <1>1
  <2> QED BY <2>1 DEF Sum
<1> QED BY <1>1, <1>8, <1>9

\* A new motion has no stakes.
LEMMA NothingStaked ==
  ASSUME NEW t, t = [u \in Users |-> none]
  PROVE  t \in Stakings /\ \A v \in Sides : Sum(t, v) = 0
<1>1. t \in Stakings BY DEF Stakings, none
<1>2. ASSUME NEW v \in Sides PROVE Sum(t, v) = 0
  <2> DEFINE f == [u \in Users |-> t[u][v]]
  <2>1. DOMAIN f = Users /\ \A u \in Users : f[u] = 0 BY DEF none
  <2>2. IsFiniteSet(Users) BY VotingAssumption
  <2>3. Sum(t, v) = SumFunctionOnSet(f, Users) BY <2>1 DEF Sum, SumFunction
  <2> HIDE DEF f
  <2> QED BY <2>1, <2>2, <2>3, SumZero
<1> QED BY <1>1, <1>2

\* A motion that is not settled may change its state as it likes, for the two
\* sums are equal.
LEMMA UnsettledFits ==
  ASSUME NEW m \in Motion, NEW k \in Motion, NEW t \in Stakings, NEW s \in Stakings,
         ~isSettled(m), Fits(m, t),
         \A v \in Sides : k.stakes[v] + k.pastVoterComp[v] - Sum(s, v)
                            = m.stakes[v] + m.pastVoterComp[v] - Sum(t, v)
  PROVE  Fits(k, s)
<1>1. ASSUME NEW v \in Sides
      PROVE  /\ Sum(s, v) = k.stakes[v] + k.pastVoterComp[v]
             /\ Sum(s, v) <= k.stakes[v] + k.pastVoterComp[v]
  <2>1. Sum(t, v) = m.stakes[v] + m.pastVoterComp[v] BY DEF Fits
  <2>2. Sum(t, v) \in Nat /\ Sum(s, v) \in Nat BY SumStaked
  <2>3. /\ k.stakes[v] \in Nat /\ k.pastVoterComp[v] \in Nat
        /\ m.stakes[v] \in Nat /\ m.pastVoterComp[v] \in Nat
    BY DEF Motion
  <2>4. k.stakes[v] + k.pastVoterComp[v] - Sum(s, v)
          = m.stakes[v] + m.pastVoterComp[v] - Sum(t, v)
    OBVIOUS
  <2> HIDE DEF Sum
  <2> QED BY <2>1, <2>2, <2>3, <2>4, SMT
<1> QED BY <1>1 DEF Fits

-----------------------------------------------------------------------------
(* The steps.                                                              *)

\* What a step may do to settled motions: time passes for them, and stakes
\* are taken back whole.
Untouched ==
    \A j \in Created :
        /\ j \in Created'
        /\ isSettled(motions[j]) =>
               /\ motions'[j] \in {motions[j], later(motions[j])}
               /\ \A u \in Users, v \in Sides : stakes'[j][u][v] \in {0, stakes[j][u][v]}

Achieves == TypeOK' /\ StakesAddUp' /\ Untouched

\* What TypeOK says of the motions that exist.
LEMMA CreatedType ==
  ASSUME TypeOK
  PROVE  /\ Created = 1 .. Len(motions) /\ Len(motions) \in Nat /\ Created \subseteq MotionIds
         /\ \A i \in Created : motions[i] \in Motion
         /\ \A i \in MotionIds : stakes[i] \in Stakings
BY VotingAssumption DEF TypeOK, Created, MotionIds, Stakings

\* A step that is about motion i.
LEMMA OneMotion ==
  ASSUME TypeOK, StakesAddUp, NEW i \in Created, NEW k \in Motion, NEW t \in Stakings,
         motions' = [motions EXCEPT ![i] = k], stakes' = [stakes EXCEPT ![i] = t],
         Fits(k, t),
         voteSecrets' \in [MotionIds -> [Users -> Secrets]],
         \A j \in MotionIds \ {i} : voteSecrets'[j] = voteSecrets[j],
         expenditureMotionLocks' \in [Expenditures -> {0} \cup Created],
         expenditurePastVotes' \in [Expenditures -> Nat],
         globalClaimDelay' \in [Expenditures -> Nat],
         deposited' \in Nat,
         carriedSecrets' \subseteq Created, unlocksRefused' \subseteq Expenditures,
         \/ ~isSettled(motions[i])
         \/ k = motions[i] /\ \A u \in Users, v \in Sides : t[u][v] \in {0, stakes[i][u][v]}
  PROVE  Achieves
<1>1. /\ motions' \in Seq(Motion) /\ Len(motions') = Len(motions) /\ Created' = Created
      /\ \A j \in Created : motions'[j] = IF j = i THEN k ELSE motions[j]
  BY PutBack DEF TypeOK, Created
<1>2. i \in MotionIds /\ \A j \in MotionIds : stakes[j] \in Stakings BY CreatedType
<1>3. \A j \in MotionIds : stakes'[j] = IF j = i THEN t ELSE stakes[j]
  BY DEF TypeOK
<1>4. stakes' \in [MotionIds -> [Users -> [Sides -> Nat]]]
  BY <1>2, <1>3 DEF TypeOK, Stakings
<1>5. TypeOK'
  BY <1>1, <1>3, <1>4 DEF TypeOK, MotionIds
<1>6. StakesAddUp'
  <2>1. \A j \in Created : Fits(motions'[j], stakes'[j])
    BY <1>1, <1>2, <1>3, CreatedType, FitsDef
  <2> QED BY <1>1, <2>1 DEF StakesAddUp, Fits, Sum
<1>7. Untouched
  BY <1>1, <1>3, CreatedType DEF Untouched
<1> QED BY <1>5, <1>6, <1>7 DEF Achieves

\* All clocks tick.
LEMMA TickMoves ==
  ASSUME Tick
  PROVE  /\ motions' = [i \in DOMAIN motions |-> later(motions[i])]
         /\ UNCHANGED <<stakes, voteSecrets, carriedSecrets, expenditureVars, deposited>>
BY Zenon DEF Tick, Created, later, ticked

\* Tick.
LEMMA TickStep ==
  ASSUME TypeOK, StakesAddUp, Tick
  PROVE  Achieves
<1>1. motions' = [i \in DOMAIN motions |-> later(motions[i])] BY TickMoves
<1>2. /\ motions' \in Seq(Motion) /\ Len(motions') = Len(motions) /\ Created' = Created
      /\ \A j \in Created : motions'[j] = later(motions[j])
  BY <1>1, TickedMotions DEF TypeOK, Created
<1>3. UNCHANGED <<stakes, voteSecrets, carriedSecrets, expenditureVars, deposited>> BY TickMoves
<1>4. TypeOK' BY <1>2, <1>3 DEF TypeOK, MotionIds, expenditureVars
<1>5. \A j \in Created : Fits(motions'[j], stakes'[j])
  <2> TAKE j \in Created
  <2>1. motions[j] \in Motion /\ stakes[j] \in Stakings BY CreatedType
  <2>2. /\ later(motions[j]) \in Motion
        /\ later(motions[j]).stakes = motions[j].stakes
        /\ later(motions[j]).pastVoterComp = motions[j].pastVoterComp
    BY <2>1, LaterFields
  <2>3. Fits(motions[j], stakes[j]) BY FitsDef
  <2>4. CASE isSettled(motions[j])
    <3>1. isSettled(later(motions[j])) BY <2>1, <2>4, SettledStays DEF isSettled
    <3> QED BY <1>2, <1>3, <2>2, <2>3, <2>4, <3>1 DEF Fits
  <2>5. CASE ~isSettled(motions[j])
    BY <1>2, <1>3, <2>1, <2>2, <2>3, <2>5, UnsettledFits
  <2> QED BY <2>4, <2>5
<1>6. StakesAddUp' BY <1>2, <1>5 DEF StakesAddUp, Fits, Sum
<1>7. Untouched BY <1>2, <1>3 DEF Untouched
<1> QED BY <1>4, <1>6, <1>7 DEF Achieves

\* CreateMotion.
LEMMA CreateStep ==
  ASSUME TypeOK, StakesAddUp, NEW d \in Domains, NEW a \in Actions, CreateMotion(d, a)
  PROVE  Achieves
<1> DEFINE n == Len(motions) + 1
<1>1. motions' = Append(motions, NewMotion(d, a)) /\ Len(motions) < MaxMotions
  BY DEF CreateMotion
<1>2. /\ motions' \in Seq(Motion) /\ Len(motions') = n /\ Created' = 1 .. n
      /\ Created = 1 .. Len(motions) /\ motions'[n] = NewMotion(d, a)
      /\ \A j \in Created : motions'[j] = motions[j]
  BY <1>1, Append1, NewMotionType DEF TypeOK, Created
<1>3. UNCHANGED <<stakes, voteSecrets, carriedSecrets, expenditureVars, deposited>>
  BY DEF CreateMotion
<1>4. MaxMotions \in Nat /\ Len(motions) \in Nat BY VotingAssumption, CreatedType
<1>5. Created \subseteq Created' /\ n \in MotionIds \ Created
  BY <1>1, <1>2, <1>4 DEF MotionIds
<1>6. TypeOK'
  <2>1. motions' \in Seq(Motion) /\ Len(motions') <= MaxMotions BY <1>1, <1>2, <1>4
  <2>2. /\ stakes' \in [MotionIds -> [Users -> [Sides -> Nat]]]
        /\ voteSecrets' \in [MotionIds -> [Users -> Secrets]]
        /\ expenditurePastVotes' \in [Expenditures -> Nat]
        /\ globalClaimDelay' \in [Expenditures -> Nat]
        /\ deposited' \in Nat
        /\ carriedSecrets' \subseteq Created' /\ unlocksRefused' \subseteq Expenditures
    BY <1>3, <1>5 DEF TypeOK, expenditureVars
  <2>3. \A j \in MotionIds \ Created', u \in Users :
            stakes'[j][u] = none /\ voteSecrets'[j][u] = NoSecret
    BY <1>3, <1>5 DEF TypeOK
  <2>4. expenditureMotionLocks' \in [Expenditures -> {0} \cup Created']
    BY <1>3, <1>5 DEF TypeOK, expenditureVars
  <2> QED BY <2>1, <2>2, <2>3, <2>4 DEF TypeOK, MotionIds
<1>7. Fits(NewMotion(d, a), stakes[n])
  <2>1. stakes[n] = [u \in Users |-> none]
    BY <1>5 DEF TypeOK
  <2>2. \A v \in Sides : NewMotion(d, a).stakes[v] = 0 /\ NewMotion(d, a).pastVoterComp[v] = 0
    BY DEF NewMotion, none
  <2> QED BY <2>1, <2>2, NothingStaked DEF Fits
<1>8. StakesAddUp'
  <2>1. \A j \in Created' : Fits(motions'[j], stakes'[j])
    <3> TAKE j \in Created'
    <3>1. CASE j = n BY <1>2, <1>3, <1>7, <3>1
    <3>2. CASE j # n BY <1>2, <1>3, <1>4, <3>2, FitsDef
    <3> QED BY <3>1, <3>2
  <2> QED BY <2>1 DEF StakesAddUp, Fits, Sum
<1>9. Untouched BY <1>2, <1>3, <1>5 DEF Untouched
<1> QED BY <1>6, <1>8, <1>9 DEF Achieves

\* EscalateMotion.
LEMMA EscalateStep ==
  ASSUME TypeOK, StakesAddUp, NEW i \in Created, NEW d \in Domains, EscalateMotion(i, d)
  PROVE  Achieves
<1> DEFINE m == motions[i]
           k == escalate(m, d)
<1>1. m \in Motion /\ stakes[i] \in Stakings /\ i \in MotionIds BY CreatedType
<1>2. /\ loserStake(m) >= 0 /\ motions' = [motions EXCEPT ![i] = k]
      /\ UNCHANGED <<stakes, voteSecrets, expenditureVars, deposited>>
      /\ ~isSettled(m)
      /\ carriedSecrets' \subseteq carriedSecrets \cup {i}
  BY DEF EscalateMotion, stateOf, isSettled
<1>3. /\ k \in Motion
      /\ \A v \in Sides : k.stakes[v] + k.pastVoterComp[v] = m.stakes[v] + m.pastVoterComp[v]
  BY <1>1, <1>2, EscalateType
<1>4. Fits(m, stakes[i]) BY FitsDef
<1> HIDE DEF k, m
<1>5. Fits(k, stakes[i])
  <2>1. \A v \in Sides : k.stakes[v] + k.pastVoterComp[v] - Sum(stakes[i], v)
                           = m.stakes[v] + m.pastVoterComp[v] - Sum(stakes[i], v)
    <3> TAKE v \in Sides
    <3>1. /\ k.stakes[v] \in Nat /\ k.pastVoterComp[v] \in Nat
          /\ m.stakes[v] \in Nat /\ m.pastVoterComp[v] \in Nat
      BY <1>1, <1>3 DEF Motion
    <3>2. Sum(stakes[i], v) \in Nat BY <1>1, SumStaked
    <3> QED BY <1>3, <3>1, <3>2
  <2> QED BY <1>1, <1>2, <1>3, <1>4, <2>1, UnsettledFits
<1>6. stakes' = [stakes EXCEPT ![i] = stakes[i]] BY <1>1, <1>2 DEF TypeOK
<1> QED BY <1>1, <1>2, <1>3, <1>5, <1>6, OneMotion DEF TypeOK, expenditureVars, m

\* FinalizeMotion, with or without failure.
LEMMA FinalizeStep ==
  ASSUME TypeOK, StakesAddUp, NEW i \in Created, NEW allowed, FinalizeMotion(i, allowed)
  PROVE  Achieves
<1> DEFINE m == motions[i]
           k == [m EXCEPT !.finalized = TRUE]
<1>1. m \in Motion /\ stakes[i] \in Stakings /\ i \in MotionIds BY CreatedType
<1>2. /\ motions' = [motions EXCEPT ![i] = k]
      /\ UNCHANGED <<stakes, voteSecrets, carriedSecrets, deposited>>
      /\ ~isSettled(m)
  BY <1>1 DEF FinalizeMotion, stateOf, isSettled
<1>3. k \in Motion /\ k.stakes = m.stakes /\ k.pastVoterComp = m.pastVoterComp
  BY <1>1 DEF Motion
<1>4. Fits(m, stakes[i]) BY FitsDef
<1>5. /\ expenditureMotionLocks' \in [Expenditures -> {0} \cup Created]
      /\ expenditurePastVotes' \in [Expenditures -> Nat]
      /\ globalClaimDelay' \in [Expenditures -> Nat]
      /\ unlocksRefused' \subseteq Expenditures
  <2>1. CASE m.action \in Expenditures
    <3>1. PICK since \in FinalizedFor : unlockExpenditure(i, m.action, since)
      BY <2>1 DEF FinalizeMotion
    <3>2. /\ since \in Nat /\ LockDelay \in Nat BY VotingAssumption
    <3>3. expenditureMotionLocks' \in [Expenditures -> {0} \cup Created]
      BY <3>1 DEF unlockExpenditure, TypeOK
    <3>4. globalClaimDelay' \in [Expenditures -> Nat]
      <4>1. \A n \in Nat : (IF n > LockDelay THEN n - LockDelay ELSE 0) + since \in Nat
        BY <3>2
      <4>2. globalClaimDelay \in [Expenditures -> Nat] BY DEF TypeOK
      <4>3. \/ globalClaimDelay' = [globalClaimDelay EXCEPT ![m.action] =
                   (IF @ > LockDelay THEN @ - LockDelay ELSE 0) + since]
            \/ globalClaimDelay' = globalClaimDelay
        BY <3>1 DEF unlockExpenditure
      <4> HIDE DEF m
      <4> QED BY <2>1, <4>1, <4>2, <4>3
    <3>5. votePower(m) \in Nat BY <1>1, MotionFields DEF votePower
    <3>6. expenditurePastVotes' = [expenditurePastVotes EXCEPT ![m.action] =
                   IF @ < votePower(m) THEN votePower(m) ELSE @]
      BY <2>1 DEF FinalizeMotion
    <3>7. expenditurePastVotes' \in [Expenditures -> Nat]
      BY <3>5, <3>6 DEF TypeOK
    <3>8. unlocksRefused' \subseteq Expenditures BY <2>1, <3>1 DEF unlockExpenditure, TypeOK
    <3> QED BY <3>3, <3>4, <3>7, <3>8
  <2>2. CASE m.action \notin Expenditures
    BY <2>2 DEF FinalizeMotion, TypeOK, expenditureVars
  <2> QED BY <2>1, <2>2
<1> HIDE DEF k
<1>6. Fits(k, stakes[i]) BY <1>1, <1>2, <1>3, <1>4, UnsettledFits
<1>7. stakes' = [stakes EXCEPT ![i] = stakes[i]] BY <1>1, <1>2 DEF TypeOK
<1> QED BY <1>1, <1>2, <1>3, <1>5, <1>6, <1>7, OneMotion DEF TypeOK

\* What StakeMotion comes to: one side of the motion has n more.
LEMMA StakeEffect ==
  ASSUME TypeOK, NEW i \in Created, NEW u \in Users, NEW v \in Sides,
         NEW offered \in Amounts, StakeMotion(i, u, v, offered)
  PROVE  \E n \in Nat, k \in Motion :
           LET m == motions[i] IN
           /\ n > 0 /\ m.stakes[v] + n <= requiredStake(m) /\ ~isSettled(m) /\ ~m.finalized
           /\ motions' = [motions EXCEPT ![i] = k]
           /\ stakes' = [stakes EXCEPT ![i] = [stakes[i] EXCEPT ![u][v] = stakes[i][u][v] + n]]
           /\ deposited' = deposited + n
           /\ UNCHANGED <<voteSecrets, carriedSecrets>>
           /\ k.stakes = [m.stakes EXCEPT ![v] = m.stakes[v] + n]
           /\ k.pastVoterComp = m.pastVoterComp /\ k.paidVoterComp = m.paidVoterComp
           /\ k.action = m.action /\ k.domainId = m.domainId /\ k.escalated = m.escalated
           /\ \/ totalVotes(k) = totalVotes(m) /\ k.repSubmitted = m.repSubmitted
              \/ totalVotes(k) = 0
           /\ \/ /\ ~(v = YAY /\ ~m.escalated /\ m.action \in Expenditures
                        /\ k.stakes[YAY] = requiredStake(m))
                 /\ UNCHANGED expenditureVars
                 /\ ~k.finalized
              \/ /\ m.action \in Expenditures /\ expenditureMotionLocks[m.action] = 0
                 /\ lockExpenditure(i, m.action)
                 /\ ~k.finalized
              \/ UNCHANGED expenditureVars /\ k.finalized
<1> DEFINE m == motions[i]
           missing == requiredStake(m) - m.stakes[v]
           n == IF offered < missing THEN offered ELSE missing
           staked == [m EXCEPT !.stakes[v] = @ + n]
           over == [staked EXCEPT !.stakeEnd = 0, !.finalized = TRUE]
           isLocked == expenditureMotionLocks[m.action] # 0
           t == [stakes[i] EXCEPT ![u][v] = stakes[i][u][v] + n]
<1>1. m \in Motion /\ stakes[i] \in Stakings /\ i \in MotionIds BY CreatedType
<1>2. m.stakes[v] \in Nat /\ requiredStake(m) \in Nat /\ offered \in Nat
  BY <1>1, RequiredNat, VotingAssumption DEF Motion
<1>3. n > 0 BY DEF StakeMotion
<1>4. n \in Nat /\ m.stakes[v] + n <= requiredStake(m) BY <1>2, <1>3
<1>5. /\ stateOf(i) = "Staking" /\ UNCHANGED <<voteSecrets, carriedSecrets>>
      /\ deposited' = deposited + n
  BY DEF StakeMotion
<1>6. stakes' = [stakes EXCEPT ![i] = t]
  <2>1. stakes' = [stakes EXCEPT ![i][u][v] = stakes[i][u][v] + n] BY DEF StakeMotion
  <2> QED BY <2>1
<1>7. ~isSettled(m) /\ ~m.finalized
  BY <1>5 DEF stateOf, isSettled, getMotionState
<1>8. \/ /\ ~locksExpenditure(staked, v)
         /\ motions' = [motions EXCEPT ![i] = afterStake(staked, v)]
         /\ UNCHANGED expenditureVars
      \/ /\ locksExpenditure(staked, v) /\ ~isLocked
         /\ motions' = [motions EXCEPT ![i] = afterStake(staked, v)]
         /\ lockExpenditure(i, m.action)
      \/ /\ motions' = [motions EXCEPT ![i] = over]
         /\ UNCHANGED expenditureVars
  BY DEF StakeMotion
<1> HIDE DEF n
<1>9. /\ staked \in Motion /\ staked.stakes = [m.stakes EXCEPT ![v] = m.stakes[v] + n]
      /\ staked.pastVoterComp = m.pastVoterComp /\ staked.paidVoterComp = m.paidVoterComp
      /\ staked.action = m.action /\ staked.domainId = m.domainId
      /\ staked.escalated = m.escalated /\ staked.finalized = m.finalized
      /\ staked.votes = m.votes /\ staked.repSubmitted = m.repSubmitted
  <2>1. [m.stakes EXCEPT ![v] = m.stakes[v] + n] \in [Sides -> Nat]
    BY <1>1, <1>2, <1>4 DEF Motion
  <2> QED BY <1>1, <2>1 DEF Motion
<1>10. totalVotes(staked) = totalVotes(m) /\ requiredStake(staked) = requiredStake(m)
  BY <1>9 DEF totalVotes, requiredStake
<1> HIDE DEF staked, m
<1>11. /\ over \in Motion /\ over.stakes = staked.stakes
       /\ over.pastVoterComp = staked.pastVoterComp
       /\ over.paidVoterComp = staked.paidVoterComp
       /\ over.action = staked.action /\ over.domainId = staked.domainId
       /\ over.escalated = staked.escalated /\ over.finalized
       /\ over.votes = staked.votes /\ over.repSubmitted = staked.repSubmitted
  <2>1. 0 \in Past .. stakePeriod BY PastNegative
  <2> QED BY <1>9, <2>1 DEF Motion
<1>12. totalVotes(over) = totalVotes(staked) BY <1>11 DEF totalVotes
<1> HIDE DEF over
<1> DEFINE after == afterStake(staked, v)
<1>13. /\ after \in Motion /\ after.stakes = staked.stakes
       /\ after.pastVoterComp = staked.pastVoterComp
       /\ after.paidVoterComp = staked.paidVoterComp
       /\ after.action = staked.action /\ after.domainId = staked.domainId
       /\ after.escalated = staked.escalated /\ after.finalized = staked.finalized
       /\ \/ totalVotes(after) = totalVotes(staked) /\ after.repSubmitted = staked.repSubmitted
          \/ totalVotes(after) = 0
  BY <1>9, AfterStakeType
<1> HIDE DEF after
<1>14. locksExpenditure(staked, v)
         <=> v = YAY /\ ~m.escalated /\ m.action \in Expenditures
               /\ staked.stakes[YAY] = requiredStake(m)
  BY <1>9, <1>10 DEF locksExpenditure
<1>15. CASE motions' = [motions EXCEPT ![i] = over] /\ UNCHANGED expenditureVars
  <2>1. n \in Nat /\ over \in Motion BY <1>4, <1>11
  <2> USE <2>1
  <2> WITNESS n \in Nat, over \in Motion
  <2> QED BY <1>3, <1>4, <1>5, <1>6, <1>7, <1>9, <1>10, <1>11, <1>12, <1>15 DEF m
<1>16. CASE /\ motions' = [motions EXCEPT ![i] = after]
            /\ \/ ~locksExpenditure(staked, v) /\ UNCHANGED expenditureVars
               \/ locksExpenditure(staked, v) /\ ~isLocked /\ lockExpenditure(i, m.action)
  <2>1. n \in Nat /\ after \in Motion BY <1>4, <1>13
  <2> USE <2>1
  <2> WITNESS n \in Nat, after \in Motion
  <2>2. \/ /\ ~(v = YAY /\ ~m.escalated /\ m.action \in Expenditures
                 /\ after.stakes[YAY] = requiredStake(m))
           /\ UNCHANGED expenditureVars
           /\ ~after.finalized
        \/ /\ m.action \in Expenditures /\ expenditureMotionLocks[m.action] = 0
           /\ lockExpenditure(i, m.action)
           /\ ~after.finalized
    BY <1>7, <1>9, <1>13, <1>14, <1>16
  <2> QED BY <1>3, <1>4, <1>5, <1>6, <1>7, <1>9, <1>10, <1>13, <1>16, <2>2 DEF m
<1> QED BY <1>8, <1>15, <1>16 DEF after

\* StakeMotion.
LEMMA StakeStep ==
  ASSUME TypeOK, StakesAddUp, NEW i \in Created, NEW u \in Users, NEW v \in Sides,
         NEW offered \in Amounts, StakeMotion(i, u, v, offered)
  PROVE  Achieves
<1> DEFINE m == motions[i]
<1>1. m \in Motion /\ stakes[i] \in Stakings /\ i \in MotionIds BY CreatedType
<1>2. PICK n \in Nat, k \in Motion :
           /\ ~isSettled(m)
           /\ motions' = [motions EXCEPT ![i] = k]
           /\ stakes' = [stakes EXCEPT ![i] = [stakes[i] EXCEPT ![u][v] = stakes[i][u][v] + n]]
           /\ deposited' = deposited + n
           /\ UNCHANGED <<voteSecrets, carriedSecrets>>
           /\ k.stakes = [m.stakes EXCEPT ![v] = m.stakes[v] + n]
           /\ k.pastVoterComp = m.pastVoterComp
           /\ \/ UNCHANGED expenditureVars
              \/ m.action \in Expenditures /\ lockExpenditure(i, m.action)
  BY StakeEffect
<1> DEFINE t == [stakes[i] EXCEPT ![u][v] = stakes[i][u][v] + n]
<1> HIDE DEF m
<1>3. stakes[i][u][v] \in Nat BY <1>1 DEF Stakings
<1>0. t = [stakes[i] EXCEPT ![u][v] = stakes[i][u][v] + n] /\ stakes[i][u][v] + n \in Nat BY <1>3
<1> HIDE DEF t
<1>4. /\ t \in Stakings
      /\ Sum(t, v) = Sum(stakes[i], v) - stakes[i][u][v] + (stakes[i][u][v] + n)
      /\ \A w \in Sides \ {v} : Sum(t, w) = Sum(stakes[i], w)
  BY <1>1, <1>0, SumPut
<1>5. \A w \in Sides : k.stakes[w] + k.pastVoterComp[w] - Sum(t, w)
                         = m.stakes[w] + m.pastVoterComp[w] - Sum(stakes[i], w)
  <2> TAKE w \in Sides
  <2>1. /\ m.stakes \in [Sides -> Nat] /\ m.pastVoterComp[w] \in Nat BY <1>1 DEF Motion
  <2>2. Sum(stakes[i], w) \in Nat BY <1>1, SumStaked
  <2>3. CASE w = v BY <1>2, <1>3, <1>4, <2>1, <2>2, <2>3
  <2>4. CASE w # v BY <1>2, <1>4, <2>1, <2>2, <2>4
  <2> QED BY <2>3, <2>4
<1>6. Fits(m, stakes[i]) BY FitsDef DEF m
<1>7. Fits(k, t)
  <2>1. k \in Motion /\ ~isSettled(m) BY <1>2
  <2> QED BY <1>1, <1>4, <1>5, <1>6, <2>1, UnsettledFits
<1>8. /\ expenditureMotionLocks' \in [Expenditures -> {0} \cup Created]
      /\ expenditurePastVotes' \in [Expenditures -> Nat]
      /\ globalClaimDelay' \in [Expenditures -> Nat]
      /\ unlocksRefused' \subseteq Expenditures
  <2>1. CASE UNCHANGED expenditureVars BY <2>1 DEF TypeOK, expenditureVars
  <2>2. CASE m.action \in Expenditures /\ lockExpenditure(i, m.action)
    <3>1. LockDelay \in Nat /\ MaxDelay \in Nat BY VotingAssumption
    <3>2. \A d \in Nat : (IF MaxDelay - d < LockDelay THEN MaxDelay ELSE d + LockDelay) \in Nat
      BY <3>1
    <3> QED BY <2>2, <3>2 DEF lockExpenditure, TypeOK
  <2> QED BY <1>2, <2>1, <2>2
<1>9. deposited' \in Nat BY <1>2 DEF TypeOK
<1>10. stakes' = [stakes EXCEPT ![i] = t] BY <1>2 DEF t
<1>11. ~isSettled(motions[i]) /\ motions' = [motions EXCEPT ![i] = k] /\ k \in Motion
       /\ voteSecrets' = voteSecrets /\ carriedSecrets' = carriedSecrets
  BY <1>2 DEF m
<1>12. /\ voteSecrets' \in [MotionIds -> [Users -> Secrets]]
       /\ \A j \in MotionIds \ {i} : voteSecrets'[j] = voteSecrets[j]
       /\ carriedSecrets' \subseteq Created
  BY <1>11 DEF TypeOK
<1>13. t \in Stakings BY <1>4
<1> QED BY <1>7, <1>8, <1>9, <1>10, <1>11, <1>12, <1>13, OneMotion

\* What the steps of a vote come to: the stakes of the motion stay as they are.
LEMMA VoteStep ==
  ASSUME TypeOK, StakesAddUp, NEW i \in Created, NEW k \in Motion, NEW u \in Users,
         NEW secret \in Secrets, ~isSettled(motions[i]),
         motions' = [motions EXCEPT ![i] = k],
         k.stakes = motions[i].stakes, k.pastVoterComp = motions[i].pastVoterComp,
         voteSecrets' = [voteSecrets EXCEPT ![i][u] = secret],
         deposited' \in Nat, UNCHANGED <<stakes, carriedSecrets, expenditureVars>>
  PROVE  Achieves
<1> DEFINE m == motions[i]
<1>1. m \in Motion /\ stakes[i] \in Stakings /\ i \in MotionIds BY CreatedType
<1>2. /\ voteSecrets' \in [MotionIds -> [Users -> Secrets]]
      /\ \A j \in MotionIds \ {i} : voteSecrets'[j] = voteSecrets[j]
  BY <1>1 DEF TypeOK
<1>3. Fits(m, stakes[i]) BY FitsDef
<1>4. Fits(k, stakes[i]) BY <1>1, <1>3, UnsettledFits
<1>5. stakes' = [stakes EXCEPT ![i] = stakes[i]] BY <1>1 DEF TypeOK
<1> QED BY <1>1, <1>2, <1>4, <1>5, OneMotion DEF TypeOK, expenditureVars

\* What SubmitVote comes to: clocks and turnout change.
LEMMA SubmitEffect ==
  ASSUME TypeOK, NEW i \in Created, NEW u \in Users, NEW v \in Sides, SubmitVote(i, u, v)
  PROVE  \E k \in Motion :
           LET m == motions[i]
               rep == Reputation[m.domainId][u]
           IN
           /\ stateOf(i) = "Submit" /\ rep \in Nat
           /\ motions' = [motions EXCEPT ![i] = k]
           /\ totalVotes(k) = totalVotes(m)
           /\ k.repSubmitted = m.repSubmitted + (IF voteSecrets[i][u] = NoSecret THEN rep ELSE 0)
           /\ k.stakes = m.stakes /\ k.pastVoterComp = m.pastVoterComp
           /\ k.paidVoterComp = m.paidVoterComp
           /\ k.action = m.action /\ k.domainId = m.domainId
           /\ k.escalated = m.escalated /\ k.finalized = m.finalized
<1> DEFINE m == motions[i]
           rep == Reputation[m.domainId][u]
           counted == IF voteSecrets[i][u] = NoSecret THEN m.repSubmitted + rep
                      ELSE m.repSubmitted
           more == IF voteSecrets[i][u] = NoSecret THEN rep ELSE 0
           isOver == counted >= wmul(DomainReputation[m.domainId], maxVoteFraction)
           k == [m EXCEPT !.repSubmitted = counted,
                          !.submitEnd = IF isOver THEN 0 ELSE @,
                          !.revealEnd = IF isOver THEN revealPeriod ELSE @]
<1>1. m \in Motion /\ i \in MotionIds BY CreatedType
<1>2. rep \in Nat BY <1>1, VotingAssumption DEF Motion
<1>3. counted \in Nat /\ counted = m.repSubmitted + more BY <1>1, <1>2 DEF Motion
<1>4. 0 \in Past .. submitPeriod /\ revealPeriod \in Past .. (submitPeriod + revealPeriod)
  BY PastNegative
<1>5. stateOf(i) = "Submit" /\ motions' = [motions EXCEPT ![i] = k] BY DEF SubmitVote
<1> HIDE DEF counted, isOver, m, more, rep
<1>6. /\ k \in Motion /\ k.stakes = m.stakes /\ k.pastVoterComp = m.pastVoterComp
      /\ k.paidVoterComp = m.paidVoterComp
      /\ k.action = m.action /\ k.domainId = m.domainId
      /\ k.escalated = m.escalated /\ k.finalized = m.finalized
      /\ k.votes = m.votes /\ k.repSubmitted = counted
  BY <1>1, <1>3, <1>4 DEF Motion
<1> HIDE DEF k
<1>7. totalVotes(k) = totalVotes(m) BY <1>6 DEF totalVotes
<1> QED BY <1>2, <1>3, <1>5, <1>6, <1>7 DEF m, more, rep

\* What RevealVote comes to: votes and what their senders are paid change.
LEMMA RevealEffect ==
  ASSUME TypeOK, NEW i \in Created, NEW u \in Users, RevealVote(i, u)
  PROVE  /\ deposited' \in Nat
         /\ \E k \in Motion :
              LET m == motions[i]
                  rep == Reputation[m.domainId][u]
                  reward == getVoterReward(m, rep)
              IN
              /\ stateOf(i) = "Reveal" /\ m.repSubmitted > 0 /\ rep \in Nat /\ reward \in Nat
              /\ deposited' = deposited - reward
              /\ k.paidVoterComp = m.paidVoterComp + reward
              /\ totalVotes(k) = totalVotes(m) + rep
              /\ k.repSubmitted = m.repSubmitted /\ k.submitEnd = m.submitEnd
              /\ motions' = [motions EXCEPT ![i] = k]
              /\ k.stakes = m.stakes /\ k.pastVoterComp = m.pastVoterComp
              /\ k.action = m.action /\ k.domainId = m.domainId
              /\ k.escalated = m.escalated /\ k.finalized = m.finalized
<1> DEFINE m == motions[i]
           rep == Reputation[m.domainId][u]
           reward == getVoterReward(m, rep)
           v == voteSecrets[i][u]
           voted == [m EXCEPT !.votes[v] = @ + rep, !.paidVoterComp = @ + reward]
           k == [voted EXCEPT !.revealEnd = IF totalVotes(voted) = m.repSubmitted THEN 0 ELSE @]
<1>1. m \in Motion /\ i \in MotionIds BY CreatedType
<1>2. rep \in Nat BY <1>1, VotingAssumption DEF Motion
<1>3. /\ stateOf(i) = "Reveal" /\ m.repSubmitted > 0 /\ reward <= deposited
      /\ deposited' = deposited - reward /\ v # NoSecret
      /\ motions' = [motions EXCEPT ![i] = k]
  BY DEF RevealVote
<1>4. reward \in Nat BY <1>1, <1>2, <1>3, VoterRewardNat
<1>5. deposited' \in Nat BY <1>3, <1>4 DEF TypeOK
<1>6. v \in Sides BY <1>1, <1>3 DEF TypeOK, Secrets
<1>7. 0 \in Past .. (submitPeriod + revealPeriod) BY PastNegative
<1> HIDE DEF reward, m, rep, v
<1>8. /\ voted \in Motion /\ voted.stakes = m.stakes /\ voted.pastVoterComp = m.pastVoterComp
      /\ voted.action = m.action /\ voted.domainId = m.domainId
      /\ voted.escalated = m.escalated /\ voted.finalized = m.finalized
      /\ voted.votes = [m.votes EXCEPT ![v] = m.votes[v] + rep]
      /\ voted.paidVoterComp = m.paidVoterComp + reward
      /\ voted.repSubmitted = m.repSubmitted /\ voted.submitEnd = m.submitEnd
  <2>1. [m.votes EXCEPT ![v] = @ + rep] \in [Sides -> Nat] BY <1>1, <1>2, <1>6 DEF Motion
  <2>2. m.paidVoterComp + reward \in Nat BY <1>1, <1>4 DEF Motion
  <2> QED BY <1>1, <2>1, <2>2 DEF Motion
<1>10. voted.votes[NAY] + voted.votes[YAY] = m.votes[NAY] + m.votes[YAY] + rep
  <2>1. NAY \in Sides /\ YAY \in Sides /\ NAY # YAY /\ (v = NAY \/ v = YAY)
    BY <1>6 DEF Sides, NAY, YAY
  <2>2. m.votes \in [Sides -> Nat] BY <1>1 DEF Motion
  <2> HIDE DEF voted
  <2> QED BY <1>2, <1>8, <2>1, <2>2
<1> HIDE DEF voted
<1>9. /\ k \in Motion /\ k.stakes = m.stakes /\ k.pastVoterComp = m.pastVoterComp
      /\ k.action = m.action /\ k.domainId = m.domainId
      /\ k.escalated = m.escalated /\ k.finalized = m.finalized
      /\ k.votes = voted.votes /\ k.paidVoterComp = m.paidVoterComp + reward
      /\ k.repSubmitted = m.repSubmitted /\ k.submitEnd = m.submitEnd
  BY <1>7, <1>8 DEF Motion
<1> HIDE DEF k
<1>11. totalVotes(k) = totalVotes(m) + rep BY <1>9, <1>10 DEF totalVotes
<1> QED BY <1>2, <1>3, <1>4, <1>5, <1>9, <1>11 DEF m, rep, reward

\* SubmitVote.
LEMMA SubmitStep ==
  ASSUME TypeOK, StakesAddUp, NEW i \in Created, NEW u \in Users, NEW v \in Sides,
         SubmitVote(i, u, v)
  PROVE  Achieves
<1>1. PICK k \in Motion : /\ stateOf(i) = "Submit" /\ motions' = [motions EXCEPT ![i] = k]
                          /\ k.stakes = motions[i].stakes
                          /\ k.pastVoterComp = motions[i].pastVoterComp
  BY SubmitEffect
<1>2. /\ voteSecrets' = [voteSecrets EXCEPT ![i][u] = v] /\ deposited' = deposited
      /\ UNCHANGED <<stakes, carriedSecrets, expenditureVars>>
  BY DEF SubmitVote
<1>3. ~isSettled(motions[i]) BY <1>1 DEF stateOf, isSettled
<1> QED BY <1>1, <1>2, <1>3, VoteStep DEF TypeOK, Secrets

\* RevealVote.
LEMMA RevealStep ==
  ASSUME TypeOK, StakesAddUp, NEW i \in Created, NEW u \in Users, RevealVote(i, u)
  PROVE  Achieves
<1>1. PICK k \in Motion : /\ stateOf(i) = "Reveal" /\ motions' = [motions EXCEPT ![i] = k]
                          /\ k.stakes = motions[i].stakes
                          /\ k.pastVoterComp = motions[i].pastVoterComp
  BY RevealEffect
<1>2. /\ voteSecrets' = [voteSecrets EXCEPT ![i][u] = NoSecret]
      /\ UNCHANGED <<stakes, carriedSecrets, expenditureVars>>
  BY DEF RevealVote
<1>3. ~isSettled(motions[i]) BY <1>1 DEF stateOf, isSettled
<1>4. deposited' \in Nat BY RevealEffect
<1>5. NoSecret \in Secrets BY DEF Secrets
<1> QED BY <1>1, <1>2, <1>3, <1>4, <1>5, VoteStep

\* The divisor of a claim is not zero, for it includes the stake claimed.
LEMMA ClaimStep ==
  ASSUME TypeOK, StakesAddUp, NEW i \in Created, NEW u \in Users, NEW v \in Sides,
         ClaimReward(i, u, v)
  PROVE  Achieves
<1> DEFINE m == motions[i]
           n == stakes[i][u][v]
           t == [stakes[i] EXCEPT ![u][v] = 0]
           reward == stakerReward(m, n, v)
<1>1. m \in Motion /\ stakes[i] \in Stakings /\ i \in MotionIds BY CreatedType
<1>2. /\ isSettled(m) /\ n > 0 /\ hasStakerReward(m, n, v) /\ reward <= deposited
      /\ deposited' = deposited - reward
      /\ stakes' = [stakes EXCEPT ![i][u][v] = 0]
      /\ UNCHANGED <<motions, voteSecrets, carriedSecrets, expenditureVars>>
  BY DEF ClaimReward
<1>3. n \in Nat BY <1>1 DEF Stakings
<1>4. /\ t \in Stakings /\ Sum(t, v) = Sum(stakes[i], v) - n + 0
      /\ \A w \in Sides \ {v} : Sum(t, w) = Sum(stakes[i], w)
      /\ t[u][v] = 0
      /\ \A x \in Users, w \in Sides : x # u \/ w # v => t[x][w] = stakes[i][x][w]
  <2>1. t = [stakes[i] EXCEPT ![u][v] = 0] OBVIOUS
  <2>2. 0 \in Nat /\ stakes[i] \in Stakings BY <1>1
  <2> HIDE DEF t, m, reward
  <2>3. t \in Stakings BY <2>1, <2>2, SumPut
  <2>7. t[u][v] = 0 BY <2>1, <2>2, SumPut
  <2>4. Sum(t, v) = Sum(stakes[i], v) - stakes[i][u][v] + 0 BY <2>1, <2>2, SumPut
  <2>5. \A w \in Sides \ {v} : Sum(t, w) = Sum(stakes[i], w) BY <2>1, <2>2, SumPut
  <2>6. \A x \in Users, w \in Sides : x # u \/ w # v => t[x][w] = stakes[i][x][w]
    BY <2>1, <2>2, SumPut
  <2> QED BY <2>3, <2>4, <2>5, <2>6, <2>7
<1>5. \A w \in Sides : Sum(stakes[i], w) <= m.stakes[w] + m.pastVoterComp[w]
  BY <1>2, FitsDef DEF Fits
<1>6. /\ Sum(stakes[i], v) \in Nat /\ n <= Sum(stakes[i], v)
      /\ m.stakes[v] \in Nat /\ m.pastVoterComp[v] \in Nat
  BY <1>1, SumStaked DEF Motion
<1> HIDE DEF t, n, m
<1>7. reward \in Nat
  <2>1. m.stakes[v] + m.pastVoterComp[v] > 0 BY <1>2, <1>3, <1>5, <1>6
  <2> QED BY <1>1, <1>2, <1>3, <2>1, StakerRewardNat
<1>8. Fits(m, t)
  <2>1. \A w \in Sides : Sum(t, w) <= m.stakes[w] + m.pastVoterComp[w]
    <3> TAKE w \in Sides
    <3>1. CASE w = v BY <1>3, <1>4, <1>5, <1>6, <3>1
    <3>2. CASE w # v BY <1>4, <1>5, <3>2
    <3> QED BY <3>1, <3>2
  <2> QED BY <1>2, <2>1 DEF Fits
<1>9. stakes' = [stakes EXCEPT ![i] = t] BY <1>1, <1>2 DEF TypeOK, t
<1>10. motions' = [motions EXCEPT ![i] = m] BY <1>2 DEF TypeOK, m
<1>11. deposited' \in Nat BY <1>2, <1>7 DEF TypeOK
<1>12. \A x \in Users, w \in Sides : t[x][w] \in {0, stakes[i][x][w]} BY <1>4
<1> QED BY <1>1, <1>2, <1>4, <1>8, <1>9, <1>10, <1>11, <1>12, OneMotion
        DEF TypeOK, expenditureVars, m

\* The bounds on who acts name users.
LEMMA BackersType ==
  ASSUME NEW i \in MotionIds
  PROVE  /\ \A b \in Backers[i] : b[1] \in Users /\ b[2] \in Sides
         /\ Voters(i) \subseteq Users
BY VotingAssumption DEF MotionIds, Voters

\* The steps together.
LEMMA EveryStep ==
  ASSUME TypeOK, StakesAddUp, Next
  PROVE  Achieves
<1>1. CASE Tick BY <1>1, TickStep
<1>2. ASSUME NEW d \in Domains, NEW a \in Actions, CreateMotion(d, a)
      PROVE  Achieves
  BY <1>2, CreateStep
<1>3. ASSUME NEW i \in Created, NEW d \in Domains, EscalateMotion(i, d)
      PROVE  Achieves
  BY <1>3, EscalateStep
<1>4. ASSUME NEW i \in Created, NEW allowed \in BOOLEAN, FinalizeMotion(i, allowed)
      PROVE  Achieves
  BY <1>4, FinalizeStep
<1>5. ASSUME NEW i \in Created, NEW b \in Backers[i], NEW amount \in Amounts,
             StakeMotion(i, b[1], b[2], amount)
      PROVE  Achieves
  <2>1. b[1] \in Users /\ b[2] \in Sides BY CreatedType, BackersType
  <2> QED BY <1>5, <2>1, StakeStep
<1>6. ASSUME NEW i \in Created, NEW b \in Backers[i], ClaimReward(i, b[1], b[2])
      PROVE  Achieves
  <2>1. b[1] \in Users /\ b[2] \in Sides BY CreatedType, BackersType
  <2> QED BY <1>6, <2>1, ClaimStep
<1>7. ASSUME NEW i \in Created, NEW u \in Voters(i), NEW v \in Sides, SubmitVote(i, u, v)
      PROVE  Achieves
  <2>1. u \in Users BY CreatedType, BackersType
  <2> QED BY <1>7, <2>1, SubmitStep
<1>8. ASSUME NEW i \in Created, NEW u \in Voters(i), RevealVote(i, u)
      PROVE  Achieves
  <2>1. u \in Users BY CreatedType, BackersType
  <2> QED BY <1>8, <2>1, RevealStep
<1> QED BY <1>1, <1>2, <1>3, <1>4, <1>5, <1>6, <1>7, <1>8 DEF Next

\* The invariant holds before the first motion.
LEMMA VotingInit == Init => TypeOK /\ StakesAddUp
<1> SUFFICES ASSUME Init PROVE TypeOK /\ StakesAddUp OBVIOUS
<1>1. motions = <<>> /\ Created = {} BY DEF Init, Created
<1>2. StakesAddUp BY <1>1 DEF StakesAddUp
<1>3. /\ motions \in Seq(Motion) /\ Len(motions) <= MaxMotions
  BY <1>1, VotingAssumption
<1>4. [v \in Sides |-> 0] \in [Sides -> Nat] OBVIOUS
<1>5. /\ stakes \in [MotionIds -> [Users -> [Sides -> Nat]]]
      /\ voteSecrets \in [MotionIds -> [Users -> Secrets]]
      /\ \A i \in MotionIds \ Created, u \in Users :
             stakes[i][u] = none /\ voteSecrets[i][u] = NoSecret
  BY <1>4 DEF Init, none, Secrets
<1>6. /\ expenditureMotionLocks \in [Expenditures -> {0} \cup Created]
      /\ expenditurePastVotes \in [Expenditures -> Nat]
      /\ globalClaimDelay \in [Expenditures -> Nat]
      /\ deposited \in Nat
      /\ carriedSecrets \subseteq Created /\ unlocksRefused \subseteq Expenditures
  BY VotingAssumption DEF Init
<1> QED BY <1>2, <1>3, <1>5, <1>6 DEF TypeOK

\* Nothing happens.
LEMMA VotingStutter ==
  ASSUME TypeOK, StakesAddUp, UNCHANGED vars
  PROVE  Achieves
<1>1. TypeOK' BY DEF vars, expenditureVars, TypeOK, Created, MotionIds
<1>2. StakesAddUp' BY DEF vars, StakesAddUp, Created
<1>3. Untouched BY DEF vars, Untouched, Created
<1> QED BY <1>1, <1>2, <1>3 DEF Achieves

\* The books of stakes are in range and add up, whatever the periods, fractions
\* and reputations are: what a side of a motion has and has paid to voters is
\* what users staked on it, so no claim divides by zero or by too little.
THEOREM StakesStayAddedUp == Spec => [](TypeOK /\ StakesAddUp)
<1>1. Init => TypeOK /\ StakesAddUp BY VotingInit
<1>2. TypeOK /\ StakesAddUp /\ [Next]_vars => (TypeOK /\ StakesAddUp)'
  BY EveryStep, VotingStutter DEF Achieves
<1> QED BY <1>1, <1>2, PTL DEF Spec

\* What SettledIsFinal says of one step follows from Untouched.
LEMMA SettledStep ==
  ASSUME TypeOK, Untouched
  PROVE  \A i \in Created :
           isSettled(motions[i]) =>
               /\ stateOf(i)' = stateOf(i)
               /\ \A x \in Unclaimed(i) :
                      x \in Unclaimed(i)' => rewardOf(i, x)' = rewardOf(i, x)
<1> SUFFICES ASSUME NEW i \in Created, isSettled(motions[i])
             PROVE  /\ stateOf(i)' = stateOf(i)
                    /\ \A x \in Unclaimed(i) :
                           x \in Unclaimed(i)' => rewardOf(i, x)' = rewardOf(i, x)
  OBVIOUS
<1>1. motions[i] \in Motion BY CreatedType
<1>2. motions'[i] \in {motions[i], later(motions[i])} BY DEF Untouched
<1>3. stateOf(i)' = stateOf(i) BY <1>1, <1>2, SettledStays DEF stateOf
<1>4. ASSUME NEW x \in Unclaimed(i), x \in Unclaimed(i)'
      PROVE  rewardOf(i, x)' = rewardOf(i, x)
  <2>1. x[1] \in Users /\ x[2] \in Sides BY DEF Unclaimed
  <2>2. stakes'[i][x[1]][x[2]] > 0 BY <1>4 DEF Unclaimed
  <2>3. stakes'[i][x[1]][x[2]] = stakes[i][x[1]][x[2]] BY <2>1, <2>2 DEF Untouched
  <2> QED BY <1>1, <1>2, <2>3, RewardStays DEF rewardOf
<1> QED BY <1>3, <1>4

\* A motion that is settled stays settled the same way, and what a staker will
\* get for it depends neither on when it is claimed nor on who claimed before,
\* for any number of users and motions and any periods and reputations.
THEOREM SettledStaysFinal == Spec => SettledIsFinal
<1>1. TypeOK /\ StakesAddUp /\ [Next]_vars =>
        [\A i \in Created :
           isSettled(motions[i]) =>
               /\ stateOf(i)' = stateOf(i)
               /\ \A x \in Unclaimed(i) :
                      x \in Unclaimed(i)' => rewardOf(i, x)' = rewardOf(i, x)]_vars
  BY EveryStep, SettledStep DEF Achieves
<1> QED BY <1>1, StakesStayAddedUp, PTL DEF Spec, SettledIsFinal

-----------------------------------------------------------------------------
(* The locks of expenditures.                                              *)

\* A motion without the lock has never had its stake, nor a vote.
Unstaked(m) ==
    /\ ~m.escalated
    /\ m.stakes[YAY] < requiredStake(m)
    /\ totalVotes(m) = 0

LockOrUnstaked ==
    \A i \in Created :
        LET m == motions[i] IN
        m.action \in Expenditures /\ ~m.finalized =>
            expenditureMotionLocks[m.action] = i \/ Unstaked(m)

FinalizedAbout(e) == {i \in Created : motions[i].finalized /\ motions[i].action = e}

\* Each motion that gives up the lock starts the delay anew once.
DelayBounded(longest) ==
    \A e \in Expenditures :
        LET rest == InitialDelay[e] + longest * Cardinality(FinalizedAbout(e))
            free == e \notin unlocksRefused
        IN  IF expenditureMotionLocks[e] = 0
            THEN free => globalClaimDelay[e] <= rest
            ELSE /\ LockDelay <= globalClaimDelay[e]
                 /\ free => globalClaimDelay[e] <= rest + LockDelay

\* A motion that was never staked nor voted on is not finalizable.
LEMMA HeldIfFinalizable ==
  ASSUME TypeOK, LockOrUnstaked
  PROVE  LockHeld
<1> SUFFICES ASSUME NEW i \in Created, motions[i].action \in Expenditures,
                    stateOf(i) = "Finalizable", expenditureMotionLocks[motions[i].action] # i
             PROVE  FALSE
  BY DEF LockHeld
<1> DEFINE m == motions[i]
<1>1. m \in Motion BY CreatedType
<1>2. ~m.finalized BY DEF stateOf, getMotionState
<1>3. Unstaked(m) BY <1>2 DEF LockOrUnstaked
<1>4. m.stakes[YAY] \in Nat /\ requiredStake(m) \in Nat /\ m.stakeEnd \in Int
  BY <1>1, MotionFields, RequiredNat, PastNegative DEF Motion
<1> HIDE DEF m
<1>5. ~fullyStaked(m) BY <1>3, <1>4 DEF Unstaked, fullyStaked, Sides
<1>6. stakingState(m) \in {"Staking", "Failed"}
  BY <1>3, <1>4 DEF Unstaked, stakingState
<1> QED BY <1>2, <1>5, <1>6 DEF stateOf, getMotionState, m

\* A motion that is voted on has its stake, and so the lock.
LEMMA StakedHolds ==
  ASSUME TypeOK, LockOrUnstaked, NEW i \in Created,
         stateOf(i) \in {"Submit", "Reveal", "Closed"},
         motions[i].action \in Expenditures
  PROVE  expenditureMotionLocks[motions[i].action] = i
<1> DEFINE m == motions[i]
<1>1. m \in Motion BY CreatedType
<1>2. ~m.finalized BY DEF stateOf, getMotionState
<1>3. fullyStaked(m)
  BY DEF stateOf, getMotionState, stakingState, finalizableOrFinalized
<1>4. m.stakes[YAY] \in Nat /\ requiredStake(m) \in Nat BY <1>1, MotionFields, RequiredNat
<1>5. ~Unstaked(m) BY <1>3, <1>4 DEF Unstaked, fullyStaked, Sides
<1> QED BY <1>2, <1>5 DEF LockOrUnstaked

\* A step about one motion takes no other motion's lock.
LEMMA LocksOneMotion ==
  ASSUME TypeOK, LockOrUnstaked, NEW i \in Created, NEW k \in Motion,
         motions' = [motions EXCEPT ![i] = k], k.action = motions[i].action,
         k.action \in Expenditures /\ ~k.finalized =>
             expenditureMotionLocks'[k.action] = i \/ Unstaked(k),
         \A e \in Expenditures : expenditureMotionLocks[e] \notin {0, i} =>
             expenditureMotionLocks'[e] = expenditureMotionLocks[e]
  PROVE  LockOrUnstaked'
<1>1. /\ Created' = Created
      /\ \A j \in Created : motions'[j] = IF j = i THEN k ELSE motions[j]
  BY PutBack DEF TypeOK, Created
<1>2. ASSUME NEW j \in Created, motions'[j].action \in Expenditures, ~motions'[j].finalized
      PROVE  expenditureMotionLocks'[motions'[j].action] = j \/ Unstaked(motions'[j])
  <2>1. CASE j = i BY <1>1, <1>2, <2>1
  <2>2. CASE j # i
    <3>1. motions'[j] = motions[j] BY <1>1, <2>2
    <3>2. j # 0 BY CreatedType DEF MotionIds
    <3> QED BY <1>2, <2>2, <3>1, <3>2 DEF LockOrUnstaked
  <2> QED BY <2>1, <2>2
<1> QED BY <1>1, <1>2 DEF LockOrUnstaked, Unstaked, requiredStake, totalVotes

\* There are no more finalized motions than motions.
LEMMA FinalizedCount ==
  ASSUME TypeOK, NEW e \in Expenditures
  PROVE  /\ IsFiniteSet(FinalizedAbout(e)) /\ Cardinality(FinalizedAbout(e)) \in Nat
         /\ Cardinality(FinalizedAbout(e)) <= MaxMotions
<1>1. /\ FinalizedAbout(e) \subseteq 1 .. MaxMotions /\ MaxMotions \in Nat
  BY CreatedType, VotingAssumption DEF FinalizedAbout, MotionIds
<1>2. IsFiniteSet(1 .. MaxMotions) /\ Cardinality(1 .. MaxMotions) = MaxMotions
  BY <1>1, FS_Interval
<1> QED BY <1>1, <1>2, FS_Subset, FS_CardinalityType

\* All delays given back together do not reach LockDelay.
LEMMA DelayedOnlyIfLocked ==
  ASSUME TypeOK, NEW longest \in Nat, DelaysFit(longest), DelayBounded(longest)
  PROVE  DelayedWhileLocked
<1> SUFFICES ASSUME NEW e \in Expenditures
             PROVE  /\ expenditureMotionLocks[e] # 0 => globalClaimDelay[e] >= LockDelay
                    /\ globalClaimDelay[e] >= LockDelay =>
                           expenditureMotionLocks[e] # 0 \/ e \in unlocksRefused
  BY DEF DelayedWhileLocked
<1> DEFINE c == Cardinality(FinalizedAbout(e))
<1>1. c \in Nat /\ c <= MaxMotions /\ MaxMotions \in Nat BY FinalizedCount, VotingAssumption
<1>2. /\ InitialDelay[e] \in Nat /\ globalClaimDelay[e] \in Nat
      /\ LockDelay \in Nat
  BY VotingAssumption DEF TypeOK
<1>3. longest * c <= longest * MaxMotions BY <1>1, SMT
<1>4. longest * c \in Nat /\ longest * MaxMotions \in Nat BY <1>1, SMT
<1>5. CASE expenditureMotionLocks[e] = 0 /\ e \notin unlocksRefused
  <2>1. globalClaimDelay[e] <= InitialDelay[e] + longest * c BY <1>5 DEF DelayBounded
  <2>2. InitialDelay[e] + longest * MaxMotions < LockDelay BY DEF DelaysFit
  <2> HIDE DEF c
  <2> DEFINE p == longest * c
             q == longest * MaxMotions
  <2>3. p <= q /\ p \in Nat /\ q \in Nat BY <1>3, <1>4
  <2>4. globalClaimDelay[e] <= InitialDelay[e] + p /\ InitialDelay[e] + q < LockDelay
    BY <2>1, <2>2
  <2> HIDE DEF p, q
  <2> QED BY <1>2, <1>5, <2>3, <2>4
<1>6. CASE expenditureMotionLocks[e] # 0 BY <1>2, <1>6 DEF DelayBounded
<1> QED BY <1>5, <1>6

\* What a step about motion i does to the lock of an expenditure, if anything.
LockMoves(i, k, longest) ==
    \/ UNCHANGED expenditureVars
    \/ /\ k.action \in Expenditures /\ expenditureMotionLocks[k.action] = 0
       /\ lockExpenditure(i, k.action)
    \/ /\ k.action \in Expenditures /\ expenditureMotionLocks[k.action] = i
       /\ ~motions[i].finalized /\ k.finalized
       /\ \E since \in 0 .. longest : unlockExpenditure(i, k.action, since)

\* The only products that the delays need.
LEMMA CountUp ==
  ASSUME NEW longest \in Nat, NEW c \in Nat, NEW d \in Nat, c <= d
  PROVE  /\ longest * c \in Nat /\ longest * c <= longest * d
         /\ longest * (c + 1) = longest * c + longest
BY SMT

\* A step about one motion keeps the delays bounded.
LEMMA DelaysOneMotion ==
  ASSUME TypeOK, NEW longest \in Nat, DelaysFit(longest), DelayBounded(longest),
         NEW i \in Created, NEW k \in Motion,
         motions' = [motions EXCEPT ![i] = k], k.action = motions[i].action,
         motions[i].finalized => k.finalized,
         LockMoves(i, k, longest)
  PROVE  DelayBounded(longest)'
<1>1. /\ Created' = Created
      /\ \A j \in Created : motions'[j] = IF j = i THEN k ELSE motions[j]
  BY PutBack DEF TypeOK, Created
<1> SUFFICES ASSUME NEW e \in Expenditures
             PROVE  LET rest == InitialDelay[e] + longest * Cardinality(FinalizedAbout(e)')
                        free == e \notin unlocksRefused'
                    IN  IF expenditureMotionLocks'[e] = 0
                        THEN free => globalClaimDelay'[e] <= rest
                        ELSE /\ LockDelay <= globalClaimDelay'[e]
                             /\ free => globalClaimDelay'[e] <= rest + LockDelay
  BY DEF DelayBounded
<1> DEFINE A == FinalizedAbout(e)
           B == FinalizedAbout(e)'
           c == Cardinality(A)
           d == Cardinality(B)
           p == longest * c
           q == longest * d
<1>2. A \subseteq B /\ B \subseteq Created
  BY <1>1 DEF FinalizedAbout
<1>3. IsFiniteSet(B)
  <2>1. Created = 1 .. Len(motions) /\ Len(motions) \in Nat BY CreatedType
  <2>2. IsFiniteSet(Created) BY <2>1, FS_Interval
  <2> HIDE DEF B
  <2> QED BY <1>2, <2>2, FS_Subset
<1>4. c \in Nat /\ d \in Nat /\ c <= d BY <1>2, <1>3, FS_Subset, FS_CardinalityType
<1>5. p \in Nat /\ q \in Nat /\ p <= q
  <2> HIDE DEF c, d
  <2> QED BY <1>4, CountUp
<1>6. /\ InitialDelay[e] \in Nat /\ LockDelay \in Nat /\ MaxDelay \in Nat
      /\ globalClaimDelay[e] \in Nat
  BY VotingAssumption DEF TypeOK
<1>7. IF expenditureMotionLocks[e] = 0
      THEN e \notin unlocksRefused => globalClaimDelay[e] <= InitialDelay[e] + p
      ELSE /\ LockDelay <= globalClaimDelay[e]
           /\ e \notin unlocksRefused =>
                 globalClaimDelay[e] <= (InitialDelay[e] + p) + LockDelay
  BY DEF DelayBounded
<1>8. SUFFICES IF expenditureMotionLocks'[e] = 0
               THEN e \notin unlocksRefused' => globalClaimDelay'[e] <= InitialDelay[e] + q
               ELSE /\ LockDelay <= globalClaimDelay'[e]
                    /\ e \notin unlocksRefused' =>
                          globalClaimDelay'[e] <= (InitialDelay[e] + q) + LockDelay
  OBVIOUS
<1> HIDE DEF p, q
<1>9. CASE /\ expenditureMotionLocks'[e] = expenditureMotionLocks[e]
           /\ globalClaimDelay'[e] = globalClaimDelay[e]
           /\ e \in unlocksRefused => e \in unlocksRefused'
  BY <1>5, <1>6, <1>7, <1>9
<1>10. CASE /\ e = k.action /\ expenditureMotionLocks[e] = 0
            /\ lockExpenditure(i, e)
  <2>1. expenditureMotionLocks'[e] = i /\ i # 0
    BY <1>10, CreatedType DEF lockExpenditure, TypeOK, MotionIds
  <2>2. globalClaimDelay'[e]
          = IF MaxDelay - globalClaimDelay[e] < LockDelay THEN MaxDelay
            ELSE globalClaimDelay[e] + LockDelay
    BY <1>10 DEF lockExpenditure, TypeOK
  <2>3. LockDelay <= MaxDelay BY DEF DelaysFit
  <2>4. unlocksRefused' = unlocksRefused BY <1>10 DEF lockExpenditure
  <2> QED BY <1>5, <1>6, <1>7, <1>10, <2>1, <2>2, <2>3, <2>4
<1>11. CASE /\ e = k.action /\ expenditureMotionLocks[e] = i
            /\ ~motions[i].finalized /\ k.finalized
            /\ \E since \in 0 .. longest : unlockExpenditure(i, e, since)
  <2>1. PICK since \in 0 .. longest : unlockExpenditure(i, e, since) BY <1>11
  <2>2. /\ expenditureMotionLocks'[e] = 0
        /\ \/ e \in unlocksRefused'
           \/ /\ globalClaimDelay'[e]
                    = (IF globalClaimDelay[e] > LockDelay THEN globalClaimDelay[e] - LockDelay
                       ELSE 0) + since
              /\ unlocksRefused' = unlocksRefused
    BY <2>1 DEF unlockExpenditure, TypeOK
  <2>3. expenditureMotionLocks[e] # 0 BY <1>11, CreatedType DEF MotionIds
  <2>4. q = p + longest
    <3>1. i \notin A /\ B = A \cup {i} BY <1>1, <1>11 DEF FinalizedAbout
    <3>2. d = c + 1 BY <1>2, <1>3, <3>1, FS_Subset, FS_AddElement
    <3> HIDE DEF c, d
    <3> QED BY <1>4, <3>2, CountUp DEF p, q
  <2> QED BY <1>5, <1>6, <1>7, <2>2, <2>3, <2>4
<1> QED
  <2>1. CASE UNCHANGED expenditureVars BY <1>9, <2>1 DEF expenditureVars
  <2>2. CASE /\ k.action \in Expenditures /\ expenditureMotionLocks[k.action] = 0
             /\ lockExpenditure(i, k.action)
    <3>1. CASE e = k.action BY <1>10, <2>2, <3>1
    <3>2. CASE e # k.action BY <1>9, <2>2, <3>2 DEF lockExpenditure, TypeOK
    <3> QED BY <3>1, <3>2
  <2>3. CASE /\ k.action \in Expenditures /\ expenditureMotionLocks[k.action] = i
             /\ ~motions[i].finalized /\ k.finalized
             /\ \E since \in 0 .. longest : unlockExpenditure(i, k.action, since)
    <3>1. CASE e = k.action BY <1>11, <2>3, <3>1
    <3>2. CASE e # k.action BY <1>9, <2>3, <3>2 DEF unlockExpenditure, TypeOK
    <3> QED BY <3>1, <3>2
  <2> QED BY <2>1, <2>2, <2>3 DEF LockMoves

\* What each step has to show.
Guarded(longest) == LockOrUnstaked /\ DelayBounded(longest)

\* The two parts of Guarded for a step about one motion.
LEMMA GuardedOneMotion ==
  ASSUME TypeOK, NEW longest \in Nat, DelaysFit(longest), Guarded(longest),
         NEW i \in Created, NEW k \in Motion,
         motions' = [motions EXCEPT ![i] = k], k.action = motions[i].action,
         motions[i].finalized => k.finalized,
         LockMoves(i, k, longest),
         k.action \in Expenditures /\ ~k.finalized =>
             expenditureMotionLocks'[k.action] = i \/ Unstaked(k)
  PROVE  Guarded(longest)'
<1>1. DelayBounded(longest)' BY DelaysOneMotion DEF Guarded
<1>2. \A e \in Expenditures : expenditureMotionLocks[e] \notin {0, i} =>
          expenditureMotionLocks'[e] = expenditureMotionLocks[e]
  BY DEF LockMoves, lockExpenditure, unlockExpenditure, expenditureVars, TypeOK
<1>3. LockOrUnstaked' BY <1>2, LocksOneMotion DEF Guarded
<1> QED BY <1>1, <1>3 DEF Guarded

\* Steps about a motion that leave the locks alone and find the stakes full.
LEMMA GuardedVote ==
  ASSUME TypeOK, NEW longest \in Nat, DelaysFit(longest), Guarded(longest),
         NEW i \in Created, NEW k \in Motion,
         stateOf(i) \in {"Submit", "Reveal", "Closed"},
         motions' = [motions EXCEPT ![i] = k], k.action = motions[i].action,
         k.finalized = motions[i].finalized,
         UNCHANGED expenditureVars
  PROVE  Guarded(longest)'
<1>1. k.action \in Expenditures => expenditureMotionLocks'[k.action] = i
  BY StakedHolds DEF Guarded, expenditureVars
<1>2. LockMoves(i, k, longest) BY DEF LockMoves
<1> QED BY <1>1, <1>2, GuardedOneMotion

\* Tick.
LEMMA GuardedTick ==
  ASSUME TypeOK, NEW longest \in Nat, Guarded(longest), Tick
  PROVE  Guarded(longest)'
<1>1. motions' = [i \in DOMAIN motions |-> later(motions[i])] BY TickMoves
<1>2. /\ Created' = Created /\ UNCHANGED expenditureVars
      /\ \A j \in Created : motions[j] \in Motion /\ motions'[j] = later(motions[j])
  BY <1>1, CreatedType, TickMoves DEF Created
<1>3. \A j \in Created : /\ motions'[j].action = motions[j].action
                         /\ motions'[j].finalized = motions[j].finalized
                         /\ Unstaked(motions[j]) => Unstaked(motions'[j])
  BY <1>2, LaterFields DEF Unstaked, requiredStake, totalVotes
<1>4. LockOrUnstaked'
  <2>1. ASSUME NEW j \in Created, motions'[j].action \in Expenditures, ~motions'[j].finalized
        PROVE  expenditureMotionLocks'[motions'[j].action] = j \/ Unstaked(motions'[j])
    BY <1>2, <1>3, <2>1 DEF Guarded, LockOrUnstaked, expenditureVars
  <2> QED BY <1>2, <2>1 DEF LockOrUnstaked, Unstaked, requiredStake, totalVotes
<1>5. \A e : FinalizedAbout(e)' = FinalizedAbout(e) BY <1>2, <1>3 DEF FinalizedAbout
<1>6. DelayBounded(longest)'
  BY <1>2, <1>5 DEF Guarded, DelayBounded, expenditureVars
<1> QED BY <1>4, <1>6 DEF Guarded

\* CreateMotion: the new motion asks for some stake.
LEMMA GuardedCreate ==
  ASSUME TypeOK, StakesNeeded, NEW longest \in Nat, Guarded(longest),
         NEW d \in Domains, NEW a \in Actions, CreateMotion(d, a)
  PROVE  Guarded(longest)'
<1> DEFINE n == Len(motions) + 1
           m == NewMotion(d, a)
<1>1. motions' = Append(motions, m) /\ UNCHANGED expenditureVars BY DEF CreateMotion
<1>2. /\ Created' = Created \cup {n} /\ n \notin Created
      /\ motions'[n] = m
      /\ \A j \in Created : motions'[j] = motions[j]
  <2>1. Len(motions) \in Nat BY CreatedType
  <2> QED BY <1>1, <2>1, Append1, NewMotionType DEF TypeOK, Created
<1>3. ~m.finalized BY DEF NewMotion
<1>4. Unstaked(m)
  <2>1. /\ ~m.escalated /\ m.stakes[YAY] = 0 /\ m.votes[NAY] = 0 /\ m.votes[YAY] = 0
        /\ m.domainId = d
    BY DEF NewMotion, none, Sides
  <2>2. requiredStake(m) > 0 BY <2>1 DEF StakesNeeded, requiredStake
  <2> HIDE DEF m
  <2> QED BY <2>1, <2>2 DEF Unstaked, totalVotes
<1> HIDE DEF m
<1>5. LockOrUnstaked'
  <2>1. ASSUME NEW j \in Created', motions'[j].action \in Expenditures, ~motions'[j].finalized
        PROVE  expenditureMotionLocks'[motions'[j].action] = j \/ Unstaked(motions'[j])
    <3>1. CASE j = n BY <1>2, <1>4, <3>1
    <3>2. CASE j \in Created
      BY <1>1, <1>2, <2>1, <3>2 DEF Guarded, LockOrUnstaked, expenditureVars
    <3> QED BY <1>2, <3>1, <3>2
  <2> QED BY <2>1 DEF LockOrUnstaked, Unstaked, requiredStake, totalVotes
<1>6. \A e : FinalizedAbout(e)' = FinalizedAbout(e) BY <1>2, <1>3 DEF FinalizedAbout
<1>7. DelayBounded(longest)'
  BY <1>1, <1>6 DEF Guarded, DelayBounded, expenditureVars
<1> QED BY <1>5, <1>7 DEF Guarded

\* FinalizeMotion gives up the lock.
LEMMA GuardedFinalize ==
  ASSUME TypeOK, NEW longest \in Nat, DelaysFit(longest), Guarded(longest),
         NEW i \in Created, NEW allowed, FinalizeMotion(i, allowed)
  PROVE  Guarded(longest)'
<1> DEFINE m == motions[i]
           k == [m EXCEPT !.finalized = TRUE]
<1>1. m \in Motion BY CreatedType
<1>2. k \in Motion /\ k.finalized /\ k.action = m.action BY <1>1 DEF Motion
<1>3. motions' = [motions EXCEPT ![i] = k] /\ ~m.finalized
  BY <1>1 DEF FinalizeMotion, stateOf, getMotionState
<1>4. LockMoves(i, k, longest)
  <2>1. CASE m.action \in Expenditures
    <3>1. PICK since \in FinalizedFor : unlockExpenditure(i, m.action, since)
      BY <2>1 DEF FinalizeMotion
    <3>2. since \in 0 .. longest BY VotingAssumption DEF DelaysFit
    <3>3. expenditureMotionLocks[m.action] = i BY <2>1 DEF FinalizeMotion
    <3> HIDE DEF k
    <3> QED BY <1>2, <1>3, <2>1, <3>1, <3>2, <3>3 DEF LockMoves
  <2>2. CASE m.action \notin Expenditures BY <2>2 DEF FinalizeMotion, LockMoves
  <2> QED BY <2>1, <2>2
<1> HIDE DEF k
<1> QED BY <1>2, <1>3, <1>4, GuardedOneMotion

\* StakeMotion takes the lock with the stake, or finalizes the motion.
LEMMA GuardedStake ==
  ASSUME TypeOK, NEW longest \in Nat, DelaysFit(longest), Guarded(longest),
         NEW i \in Created, NEW u \in Users, NEW v \in Sides, NEW offered \in Amounts,
         StakeMotion(i, u, v, offered)
  PROVE  Guarded(longest)'
<1> DEFINE m == motions[i]
<1>1. m \in Motion BY CreatedType
<1>2. PICK n \in Nat, k \in Motion :
        /\ n > 0 /\ m.stakes[v] + n <= requiredStake(m) /\ ~m.finalized
        /\ motions' = [motions EXCEPT ![i] = k]
        /\ k.stakes = [m.stakes EXCEPT ![v] = m.stakes[v] + n]
        /\ k.action = m.action /\ k.domainId = m.domainId /\ k.escalated = m.escalated
        /\ totalVotes(m) = 0 => totalVotes(k) = 0
        /\ \/ /\ ~(v = YAY /\ ~m.escalated /\ m.action \in Expenditures
                     /\ k.stakes[YAY] = requiredStake(m))
              /\ UNCHANGED expenditureVars
              /\ ~k.finalized
           \/ /\ m.action \in Expenditures /\ expenditureMotionLocks[m.action] = 0
              /\ lockExpenditure(i, m.action)
              /\ ~k.finalized
           \/ UNCHANGED expenditureVars /\ k.finalized
  BY StakeEffect
<1>3. m.stakes \in [Sides -> Nat] /\ requiredStake(m) \in Nat BY <1>1, RequiredNat DEF Motion
<1>4. requiredStake(k) = requiredStake(m) BY <1>2 DEF requiredStake
<1>5. m.action \in Expenditures =>
          expenditureMotionLocks[m.action] = i \/ Unstaked(m)
  BY <1>2 DEF Guarded, LockOrUnstaked
<1> HIDE DEF m
<1>6. LockMoves(i, k, longest) BY <1>2 DEF LockMoves
<1>7. k.action \in Expenditures /\ ~k.finalized =>
          expenditureMotionLocks'[k.action] = i \/ Unstaked(k)
  <2>1. CASE /\ ~(v = YAY /\ ~m.escalated /\ m.action \in Expenditures
                    /\ k.stakes[YAY] = requiredStake(m))
             /\ UNCHANGED expenditureVars
    <3>1. ASSUME m.action \in Expenditures, Unstaked(m) PROVE Unstaked(k)
      <4>1. k.stakes[YAY] < requiredStake(m)
        <5>1. CASE v = YAY
          <6>1. k.stakes[YAY] = m.stakes[YAY] + n BY <1>2, <1>3, <5>1
          <6>2. k.stakes[YAY] # requiredStake(m) BY <2>1, <3>1, <5>1 DEF Unstaked
          <6> QED BY <1>2, <1>3, <5>1, <6>1, <6>2
        <5>2. CASE v # YAY
          <6>1. k.stakes[YAY] = m.stakes[YAY] BY <1>2, <1>3, <5>2 DEF Sides
          <6> QED BY <3>1, <6>1 DEF Unstaked
        <5> QED BY <5>1, <5>2
      <4> QED BY <1>2, <1>4, <3>1, <4>1 DEF Unstaked
    <3> QED BY <1>2, <1>5, <2>1, <3>1 DEF expenditureVars
  <2>2. CASE lockExpenditure(i, m.action) /\ m.action \in Expenditures
    BY <1>2, <2>2 DEF lockExpenditure, TypeOK
  <2>3. CASE k.finalized BY <2>3
  <2> QED BY <1>2, <2>1, <2>2, <2>3
<1>8. k.action = motions[i].action /\ (motions[i].finalized => k.finalized)
  BY <1>2 DEF m
<1> QED BY <1>2, <1>6, <1>7, <1>8, GuardedOneMotion

\* The steps together.
LEMMA GuardedStep ==
  ASSUME TypeOK, StakesNeeded, NEW longest \in Nat, DelaysFit(longest), Guarded(longest),
         [Next]_vars
  PROVE  Guarded(longest)'
<1>1. CASE Tick BY <1>1, GuardedTick
<1>2. ASSUME NEW d \in Domains, NEW a \in Actions, CreateMotion(d, a)
      PROVE  Guarded(longest)'
  BY <1>2, GuardedCreate
<1>3. ASSUME NEW i \in Created, NEW d \in Domains, EscalateMotion(i, d)
      PROVE  Guarded(longest)'
  <2>1. /\ stateOf(i) = "Closed" /\ loserStake(motions[i]) >= 0
        /\ motions' = [motions EXCEPT ![i] = escalate(motions[i], d)]
        /\ UNCHANGED expenditureVars
    BY <1>3 DEF EscalateMotion
  <2>2. /\ escalate(motions[i], d) \in Motion
        /\ escalate(motions[i], d).action = motions[i].action
        /\ escalate(motions[i], d).finalized = motions[i].finalized
    BY <2>1, CreatedType, EscalateType
  <2> QED BY <2>1, <2>2, GuardedVote
<1>4. ASSUME NEW i \in Created, NEW allowed \in BOOLEAN, FinalizeMotion(i, allowed)
      PROVE  Guarded(longest)'
  BY <1>4, GuardedFinalize
<1>5. ASSUME NEW i \in Created, NEW b \in Backers[i], NEW amount \in Amounts,
             StakeMotion(i, b[1], b[2], amount)
      PROVE  Guarded(longest)'
  <2>1. b[1] \in Users /\ b[2] \in Sides BY CreatedType, BackersType
  <2> QED BY <1>5, <2>1, GuardedStake
<1>6. CASE UNCHANGED <<motions, expenditureVars>>
  BY <1>6 DEF Guarded, LockOrUnstaked, DelayBounded, FinalizedAbout, Created, Unstaked,
              requiredStake, totalVotes, expenditureVars
<1>7. ASSUME NEW i \in Created, NEW u \in Voters(i), NEW v \in Sides, SubmitVote(i, u, v)
      PROVE  Guarded(longest)'
  <2>1. u \in Users BY CreatedType, BackersType
  <2>2. PICK k \in Motion : /\ stateOf(i) = "Submit" /\ motions' = [motions EXCEPT ![i] = k]
                            /\ k.action = motions[i].action
                            /\ k.finalized = motions[i].finalized
    BY <1>7, <2>1, SubmitEffect
  <2>3. UNCHANGED expenditureVars BY <1>7 DEF SubmitVote
  <2> QED BY <2>2, <2>3, GuardedVote
<1>8. ASSUME NEW i \in Created, NEW u \in Voters(i), RevealVote(i, u)
      PROVE  Guarded(longest)'
  <2>1. u \in Users BY CreatedType, BackersType
  <2>2. PICK k \in Motion : /\ stateOf(i) = "Reveal" /\ motions' = [motions EXCEPT ![i] = k]
                            /\ k.action = motions[i].action
                            /\ k.finalized = motions[i].finalized
    BY <1>8, <2>1, RevealEffect
  <2>3. UNCHANGED expenditureVars BY <1>8 DEF RevealVote
  <2> QED BY <2>2, <2>3, GuardedVote
<1>9. ASSUME NEW i \in Created, NEW b \in Backers[i], ClaimReward(i, b[1], b[2])
      PROVE  Guarded(longest)'
  BY <1>6, <1>9 DEF ClaimReward
<1>10. CASE UNCHANGED vars BY <1>6, <1>10 DEF vars
<1> QED BY <1>1, <1>2, <1>3, <1>4, <1>5, <1>7, <1>8, <1>9, <1>10 DEF Next

\* No motion, no lock.
LEMMA GuardedInit ==
  ASSUME Init, NEW longest \in Nat
  PROVE  Guarded(longest)
<1>1. Created = {} BY DEF Init, Created
<1>2. LockOrUnstaked BY <1>1 DEF LockOrUnstaked
<1>3. \A e : FinalizedAbout(e) = {} BY <1>1 DEF FinalizedAbout
<1>4. longest * 0 = 0 BY SMT
<1>5. ASSUME NEW e \in Expenditures
      PROVE  /\ expenditureMotionLocks[e] = 0
             /\ globalClaimDelay[e]
                  <= InitialDelay[e] + longest * Cardinality(FinalizedAbout(e))
  <2>1. Cardinality(FinalizedAbout(e)) = 0 BY <1>3, FS_EmptySet
  <2>2. InitialDelay[e] \in Nat BY VotingAssumption
  <2> QED BY <1>4, <2>1, <2>2 DEF Init
<1>6. DelayBounded(longest) BY <1>5 DEF DelayBounded
<1> QED BY <1>2, <1>6 DEF Guarded

\* The assertion of unlockExpenditure never fails and claims are delayed as
\* long as the lock is held, for any number of motions about any expenditures,
\* if every domain asks for some stake and the delays of claims are short.
THEOREM VotingBooksAgree ==
  ASSUME StakesNeeded, NEW longest \in Nat, DelaysFit(longest)
  PROVE  Spec => []BooksConsistent
<1>1. Init => Guarded(longest) BY GuardedInit
<1>2. TypeOK /\ Guarded(longest) /\ [Next]_vars => Guarded(longest)' BY GuardedStep
<1>3. TypeOK /\ StakesAddUp /\ Guarded(longest) => BooksConsistent
  BY HeldIfFinalizable, DelayedOnlyIfLocked DEF Guarded, BooksConsistent
<1> QED BY <1>1, <1>2, <1>3, StakesStayAddedUp, PTL DEF Spec

-----------------------------------------------------------------------------
(* Rounding.                                                               *)

\* Rounding down.
LEMMA DivBounds ==
  ASSUME NEW a \in Int, NEW b \in Nat \ {0}
  PROVE  /\ a \div b \in Int
         /\ b * (a \div b) <= a
         /\ a < b * (a \div b) + b
<1> DEFINE q == a \div b
<1>1. q \in Int /\ a = b * q + (a % b) /\ a % b \in Int /\ 0 <= a % b /\ a % b < b BY SMT
<1>2. b * q \in Int BY <1>1, SMT
<1> QED BY <1>1, <1>2, SMT

\* A quotient is below any number whose product is above the dividend.
LEMMA DivBelow ==
  ASSUME NEW a \in Int, NEW b \in Nat \ {0}, NEW n \in Int, a < b * (n + 1)
  PROVE  a \div b <= n
<1> DEFINE q == a \div b
<1>1. q \in Int /\ b * q <= a BY DivBounds
<1> HIDE DEF q
<1>2. b * q < b * (n + 1) BY <1>1, SMT
<1>3. q < n + 1 BY <1>1, <1>2, SMT
<1> QED BY <1>1, <1>3 DEF q

\* Half of fixed-point one.
LEMMA HalfWad == /\ Wad \in Nat \ {0} /\ Wad \div 2 \in Nat
                 /\ 2 * (Wad \div 2) <= Wad /\ Wad \div 2 < Wad
<1>1. Wad \in Nat \ {0} BY RulesAssumption
<1> QED BY <1>1, SMT

\* A product is rounded by no more than half a unit, up.
LEMMA WmulBounds ==
  ASSUME NEW x \in Int, NEW y \in Int
  PROVE  /\ wmul(x, y) \in Int
         /\ 2 * (Wad * wmul(x, y)) <= 2 * (x * y) + Wad
<1> DEFINE h == Wad \div 2
           p == x * y
           q == (p + h) \div Wad
<1>1. p \in Int /\ h \in Nat /\ 2 * h <= Wad /\ Wad \in Nat \ {0} BY HalfWad, SMT
<1> HIDE DEF p, h
<1>2. p + h \in Int BY <1>1
<1>3. q \in Int /\ Wad * q <= p + h BY <1>1, <1>2, DivBounds
<1> HIDE DEF q
<1>4. Wad * q \in Int BY <1>1, <1>3, SMT
<1>5. 2 * (Wad * q) <= 2 * p + Wad BY <1>1, <1>3, <1>4, SMT
<1> QED BY <1>3, <1>5 DEF wmul, p, h, q

\* A quotient is rounded by no more than half a unit, up.
LEMMA WdivBounds ==
  ASSUME NEW x \in Nat, NEW y \in Nat \ {0}
  PROVE  /\ wdiv(x, y) \in Int
         /\ 2 * (y * wdiv(x, y)) <= 2 * (x * Wad) + y
<1> DEFINE h == y \div 2
           p == x * Wad
           q == (p + h) \div y
<1>1. p \in Int /\ h \in Nat /\ 2 * h <= y BY HalfWad, SMT
<1> HIDE DEF p, h
<1>2. p + h \in Int BY <1>1
<1>3. q \in Int /\ y * q <= p + h BY <1>2, DivBounds
<1> HIDE DEF q
<1>4. y * q \in Int BY <1>3, SMT
<1>5. 2 * (y * q) <= 2 * p + y BY <1>1, <1>3, <1>4, SMT
<1> QED BY <1>3, <1>5 DEF wdiv, p, h, q

\* More of a stake, rounded, is no less.
LEMMA WmulMonotone ==
  ASSUME NEW x \in Nat, NEW y \in Nat, NEW z \in Nat, y <= z
  PROVE  wmul(x, y) <= wmul(x, z) /\ wmul(y, x) <= wmul(z, x)
<1> DEFINE h == Wad \div 2
           p == x * y
           q == x * z
           n == (q + h) \div Wad
<1>1. h \in Nat /\ Wad \in Nat \ {0} BY HalfWad
<1>2. p \in Nat /\ q \in Nat /\ p <= q /\ y * x = p /\ z * x = q BY SMT
<1> HIDE DEF p, q, h
<1>3. q + h \in Int /\ p + h \in Int /\ p + h <= q + h BY <1>1, <1>2
<1>4. n \in Int /\ q + h < Wad * n + Wad BY <1>1, <1>3, DivBounds
<1> HIDE DEF n
<1>5. Wad * n \in Int /\ Wad * (n + 1) = Wad * n + Wad BY <1>1, <1>4, SMT
<1>6. p + h < Wad * (n + 1) BY <1>1, <1>3, <1>4, <1>5, SMT
<1>7. (p + h) \div Wad <= n BY <1>1, <1>3, <1>4, <1>6, DivBelow
<1> QED BY <1>2, <1>7 DEF wmul, p, q, h, n

\* A share of at most all is at most all.
LEMMA WmulShare ==
  ASSUME NEW x \in Nat, NEW y \in Nat, y <= Wad
  PROVE  wmul(x, y) \in Nat /\ wmul(x, y) <= x
<1> DEFINE h == Wad \div 2
           p == x * y
<1>1. h \in Nat /\ Wad \in Nat \ {0} /\ h < Wad BY HalfWad
<1>2. p \in Nat /\ p <= x * Wad /\ x * Wad \in Nat BY <1>1, SMT
<1> HIDE DEF p, h
<1>3. Wad * (x + 1) = x * Wad + Wad BY <1>1, SMT
<1>4. p + h \in Nat /\ p + h < Wad * (x + 1) BY <1>1, <1>2, <1>3
<1>5. (p + h) \div Wad <= x BY <1>1, <1>4, DivBelow
<1>6. (p + h) \div Wad \in Nat
  <2>1. \A a, b \in Nat : b > 0 => a \div b \in Nat BY SMT
  <2> QED BY <1>1, <1>4, <2>1
<1> QED BY <1>5, <1>6 DEF wmul, p, h

\* A factor can be cancelled.
LEMMA CancelFactor ==
  ASSUME NEW c \in Nat \ {0}, NEW a \in Int, NEW b \in Int, c * a <= c * b
  PROVE  a <= b
BY SMT

\* Both sides can be multiplied.
LEMMA TimesFactor ==
  ASSUME NEW c \in Nat, NEW a \in Int, NEW b \in Int, a <= b
  PROVE  c * a \in Int /\ c * b \in Int /\ c * a <= c * b
BY SMT

\* One reward: at most the stake's part of the shares, and what two roundings add.
LEMMA RewardBound ==
  ASSUME NEW stake \in Nat, NEW all \in Nat \ {0}, NEW s \in Nat
  PROVE  LET r == wmul(wdiv(stake, all), s)
         IN  /\ r \in Int
             /\ (2 * Wad * all) * r <= (2 * Wad * s) * stake + all * (s + Wad)
<1> DEFINE q == wdiv(stake, all)
           r == wmul(q, s)
           w == Wad
<1>1. w \in Nat \ {0} BY HalfWad
<1>2. q \in Int /\ 2 * (all * q) <= 2 * (stake * w) + all BY WdivBounds
<1> HIDE DEF q
<1>3. r \in Int /\ 2 * (w * r) <= 2 * (q * s) + w
  <2>1. s \in Int OBVIOUS
  <2> QED BY <1>2, <2>1, WmulBounds
<1> HIDE DEF w, r
<1>4. s * (2 * (all * q)) <= s * (2 * (stake * w) + all)
  BY <1>1, <1>2, TimesFactor, SMT
<1>5. all * (2 * (w * r)) <= all * (2 * (q * s) + w)
  <2>1. 2 * (w * r) \in Int /\ 2 * (q * s) + w \in Int BY <1>1, <1>2, <1>3, SMT
  <2> QED BY <1>3, <2>1, TimesFactor
<1>6. all * (2 * (q * s) + w) = s * (2 * (all * q)) + all * w BY <1>1, <1>2, SMT
<1>7. s * (2 * (stake * w) + all) = (2 * w * s) * stake + all * s BY <1>1, SMT
<1>8. all * (2 * (w * r)) = (2 * w * all) * r BY <1>1, <1>3, SMT
<1>9. all * (s + w) = all * s + all * w BY <1>1, SMT
<1>10. /\ s * (2 * (all * q)) \in Int /\ all * w \in Int /\ all * s \in Int
       /\ (2 * w * s) * stake \in Int /\ (2 * w * all) * r \in Int
  BY <1>1, <1>2, <1>3, SMT
<1>11. (2 * w * all) * r <= (2 * w * s) * stake + all * (s + w)
  BY <1>4, <1>5, <1>6, <1>7, <1>8, <1>9, <1>10
<1> QED BY <1>3, <1>11 DEF r, q, w

-----------------------------------------------------------------------------
(* What the stakers of one motion get.                                     *)

\* The shares of side v, before they are divided among its stakers.
shares(m, v) == IF totalVotes(m) > 0 THEN sharesByVote(m, v) ELSE sharesByStake(m, v)

\* What the stakers of side v have to get, stake by stake.
Claims(m, t, v) ==
    [u \in Users |-> IF t[u][v] > 0 THEN stakerReward(m, t[u][v], v) ELSE 0]

\* The claims on a side are at most its shares, and a unit for each staker and
\* for every Wad of the shares.
LEMMA ClaimsBound ==
  ASSUME NEW m \in Motion, NEW t \in Stakings, NEW v \in Sides, NEW s \in Nat, NEW p \in Nat,
         s = shares(m, v), s < Wad * (p + 1),
         Sum(t, v) <= m.stakes[v] + m.pastVoterComp[v]
  PROVE  SumFunction(Claims(m, t, v)) <= s + Cardinality(Users) * (p + 1)
<1> DEFINE all == m.stakes[v] + m.pastVoterComp[v]
           f == Claims(m, t, v)
           g == [u \in Users |-> t[u][v]]
           n == Cardinality(Users)
           w == Wad
           x == 2 * w * all
           y == 2 * w * s
           z == all * (s + w)
           F == [u \in Users |-> x * f[u]]
           G == [u \in Users |-> y * g[u] + z]
<1>1. IsFiniteSet(Users) /\ n \in Nat BY VotingAssumption, FS_CardinalityType
<1>2. w \in Nat \ {0} BY HalfWad
<1>3. all \in Nat BY DEF Motion
<1>4. \A u \in Users : g[u] \in Nat BY DEF Stakings
<1>5. DOMAIN f = Users /\ DOMAIN g = Users BY DEF Claims
<1>6. SumFunction(f) = SumFunctionOnSet(f, Users) /\ Sum(t, v) = SumFunctionOnSet(g, Users)
  BY <1>5 DEF SumFunction, Sum
<1>7. \A u \in Users : g[u] <= all
  <2>1. \A u \in Users : t[u][v] <= Sum(t, v) /\ Sum(t, v) \in Nat BY SumStaked
  <2> HIDE DEF all
  <2>2. Sum(t, v) <= all BY DEF all
  <2> QED BY <1>3, <1>4, <2>1, <2>2
<1>8. ASSUME NEW u \in Users
      PROVE  f[u] = IF g[u] > 0 THEN wmul(wdiv(g[u], all), s) ELSE 0
  BY DEF Claims, stakerReward, stakeFraction, shares
<1> HIDE DEF f, g, all, w
<1>9. CASE all = 0
  <2>1. \A u \in Users : f[u] = 0 BY <1>4, <1>7, <1>8, <1>9
  <2>2. SumFunctionOnSet(f, Users) = 0 BY <1>1, <2>1, SumZero
  <2>3. n * (p + 1) \in Nat BY <1>1, SMT
  <2> QED BY <1>6, <2>2, <2>3 DEF f
<1>10. CASE all # 0
  <2>1. x \in Nat \ {0} /\ y \in Nat /\ z \in Nat BY <1>2, <1>3, <1>10, SMT
  <2>2. ASSUME NEW u \in Users
        PROVE  f[u] \in Int /\ x * f[u] <= y * g[u] + z
    <3>1. CASE g[u] > 0
      <4>1. f[u] = wmul(wdiv(g[u], all), s) BY <1>8, <3>1
      <4>2. g[u] \in Nat /\ all \in Nat \ {0} BY <1>3, <1>4, <1>10
      <4> QED BY <4>1, <4>2, RewardBound DEF w
    <3>2. CASE ~(g[u] > 0)
      <4>1. f[u] = 0 BY <1>8, <3>2
      <4> HIDE DEF x, y, z
      <4>2. x * 0 = 0 /\ y * g[u] \in Nat BY <1>4, <2>1, SMT
      <4> QED BY <2>1, <4>1, <4>2
    <3> QED BY <3>1, <3>2
  <2> HIDE DEF x, y, z
  <2> DEFINE a == SumFunctionOnSet(f, Users)
             b == SumFunctionOnSet(g, Users)
  <2>3. /\ \A u \in Users : f[u] \in Int /\ F[u] = x * f[u] + 0
        /\ \A u \in Users : g[u] \in Int /\ G[u] = y * g[u] + z
    <3>1. \A u \in Users : x * f[u] \in Int BY <2>1, <2>2, SMT
    <3> QED BY <1>4, <2>2, <3>1
  <2>4. \A u \in Users : F[u] \in Int /\ G[u] \in Int /\ F[u] <= G[u]
    <3>1. \A u \in Users : x * f[u] \in Int /\ y * g[u] \in Int BY <1>4, <2>1, <2>2, SMT
    <3> QED BY <2>1, <2>2, <3>1
  <2> HIDE DEF F, G
  <2>5. a \in Int /\ b \in Int BY <1>1, <2>3, SumInt
  <2>6. SumFunctionOnSet(F, Users) <= SumFunctionOnSet(G, Users) BY <1>1, <2>4, SumMonotone
  <2>7. SumFunctionOnSet(F, Users) = x * a + 0 * n
    <3>1. x \in Int /\ 0 \in Int BY <2>1
    <3>2. \A u \in Users : f[u] \in Int BY <2>3
    <3>3. \A u \in Users : F[u] = x * f[u] + 0 BY <2>3
    <3> QED BY <1>1, <3>1, <3>2, <3>3, SumAffine, SMT
  <2>8. SumFunctionOnSet(G, Users) = y * b + z * n
    <3>1. y \in Int /\ z \in Int BY <2>1
    <3>2. \A u \in Users : g[u] \in Int BY <2>3
    <3>3. \A u \in Users : G[u] = y * g[u] + z BY <2>3
    <3> QED BY <1>1, <3>1, <3>2, <3>3, SumAffine, SMT
  <2>9. b <= all BY <1>6 DEF all
  <2> HIDE DEF a, b
  <2>10. x * a <= y * all + z * n
    <3>1. y * b <= y * all BY <1>3, <2>1, <2>5, <2>9, TimesFactor
    <3>2. /\ x * a \in Int /\ y * b \in Int /\ y * all \in Int /\ z * n \in Int /\ 0 * n = 0
      BY <1>1, <1>3, <2>1, <2>5, SMT
    <3> QED BY <2>6, <2>7, <2>8, <3>1, <3>2
  <2>11. 2 * (w * a) <= 2 * (w * s) + (s + w) * n
    <3>1. x * a = all * (2 * (w * a)) BY <1>2, <1>3, <2>5, SMT DEF x
    <3>2. y * all + z * n = all * (2 * (w * s) + (s + w) * n)
      BY <1>1, <1>2, <1>3, SMT DEF y, z
    <3>3. 2 * (w * a) \in Int /\ 2 * (w * s) + (s + w) * n \in Int
      BY <1>1, <1>2, <2>5, SMT
    <3>4. all \in Nat \ {0} BY <1>3, <1>10
    <3>5. all * (2 * (w * a)) <= all * (2 * (w * s) + (s + w) * n) BY <2>10, <3>1, <3>2
    <3> QED BY <3>3, <3>4, <3>5, CancelFactor
  <2>12. (s + w) * n <= 2 * (w * (n * (p + 1)))
    <3>1. w * (p + 1) = w * p + w /\ w * p \in Nat BY <1>2, SMT
    <3>2. s + w <= 2 * (w * (p + 1)) BY <1>2, <3>1 DEF w
    <3>3. s + w \in Int /\ 2 * (w * (p + 1)) \in Int BY <1>2, <3>1
    <3>4. n * (s + w) <= n * (2 * (w * (p + 1))) BY <1>1, <3>2, <3>3, TimesFactor
    <3>5. n * (s + w) = (s + w) * n BY <1>1, <1>2, SMT
    <3>6. n * (2 * (w * (p + 1))) = 2 * (w * (n * (p + 1))) BY <1>1, <1>2, SMT
    <3> QED BY <3>4, <3>5, <3>6
  <2>13. a <= s + n * (p + 1)
    <3> DEFINE k == n * (p + 1)
    <3>1. k \in Nat BY <1>1, SMT
    <3> HIDE DEF k
    <3>2. /\ w * (s + k) = w * s + w * k /\ w * s \in Int /\ w * k \in Int /\ w * a \in Int
          /\ (s + w) * n \in Int /\ s + k \in Int
      BY <1>1, <1>2, <2>5, <3>1, SMT
    <3>3. w * a <= w * (s + k) BY <2>11, <2>12, <3>2 DEF k
    <3>4. a <= s + k BY <1>2, <2>5, <3>2, <3>3, CancelFactor
    <3> QED BY <3>4 DEF k
  <2> QED BY <1>6, <2>13 DEF a, f
<1> QED BY <1>9, <1>10

\* Two fractions of one total are at most one and a unit together.
LEMMA TwoFractions ==
  ASSUME NEW x \in Nat, NEW y \in Nat, x + y > 0
  PROVE  /\ wdiv(x, x + y) \in Nat /\ wdiv(y, x + y) \in Nat
         /\ wdiv(x, x + y) <= Wad /\ wdiv(y, x + y) <= Wad
         /\ wdiv(x, x + y) + wdiv(y, x + y) <= Wad + 1
<1> DEFINE t == x + y
           a == wdiv(x, t)
           b == wdiv(y, t)
           w == Wad
<1>1. t \in Nat \ {0} /\ w \in Nat \ {0} BY HalfWad
<1>2. x <= t /\ y <= t OBVIOUS
<1> HIDE DEF t
<1>3. a \in Nat /\ b \in Nat BY <1>1, WdivNat
<1>4. 2 * (t * a) <= 2 * (x * w) + t /\ 2 * (t * b) <= 2 * (y * w) + t
  BY <1>1, WdivBounds
<1> HIDE DEF a, b, w
<1>5. x * w <= t * w /\ y * w <= t * w /\ x * w + y * w = t * w
  <2>1. x * w <= t * w BY <1>1, <1>2, SMT
  <2>2. y * w <= t * w BY <1>1, <1>2, SMT
  <2>3. x * w + y * w = (x + y) * w BY <1>1, SMT
  <2> QED BY <2>1, <2>2, <2>3 DEF t
<1>6. x * w \in Int /\ y * w \in Int /\ t * w \in Int /\ t * a \in Int /\ t * b \in Int
  BY <1>1, <1>3, SMT
<1>7. a <= w
  <2>1. t * (2 * a) = 2 * (t * a) /\ t * (2 * w + 1) = 2 * (t * w) + t BY <1>1, <1>3, SMT
  <2>2. t * (2 * a) <= t * (2 * w + 1) BY <1>1, <1>4, <1>5, <1>6, <2>1
  <2>3. 2 * a <= 2 * w + 1
    <3>1. 2 * a \in Int /\ 2 * w + 1 \in Int BY <1>1, <1>3
    <3> QED BY <1>1, <2>2, <3>1, CancelFactor
  <2> QED BY <1>1, <1>3, <2>3
<1>8. b <= w
  <2>1. t * (2 * b) = 2 * (t * b) /\ t * (2 * w + 1) = 2 * (t * w) + t BY <1>1, <1>3, SMT
  <2>2. t * (2 * b) <= t * (2 * w + 1) BY <1>1, <1>4, <1>5, <1>6, <2>1
  <2>3. 2 * b <= 2 * w + 1
    <3>1. 2 * b \in Int /\ 2 * w + 1 \in Int BY <1>1, <1>3
    <3> QED BY <1>1, <2>2, <3>1, CancelFactor
  <2> QED BY <1>1, <1>3, <2>3
<1>9. a + b <= w + 1
  <2>1. t * (a + b) = t * a + t * b /\ t * (w + 1) = t * w + t BY <1>1, <1>3, SMT
  <2>2. t * (a + b) <= t * (w + 1) BY <1>1, <1>4, <1>5, <1>6, <2>1
  <2>3. a + b \in Int /\ w + 1 \in Int BY <1>1, <1>3
  <2> QED BY <1>1, <2>2, <2>3, CancelFactor
<1> QED BY <1>3, <1>7, <1>8, <1>9 DEF a, b, t, w

\* On the scale of 0 to 2.
LEMMA Doubled ==
  ASSUME NEW a \in Nat
  PROVE  wmul(a, 2 * Wad) \in Nat /\ wmul(a, 2 * Wad) <= 2 * a
<1> DEFINE h == Wad \div 2
           p == a * (2 * Wad)
<1>1. Wad \in Nat \ {0} /\ h \in Nat /\ h < Wad BY HalfWad
<1>2. 2 * Wad \in Nat /\ p \in Nat /\ Wad * (2 * a + 1) = p + Wad BY <1>1, SMT
<1>3. wmul(a, 2 * Wad) \in Nat BY <1>2, WmulNat
<1> HIDE DEF p, h
<1>4. p + h \in Int /\ p + h < Wad * (2 * a + 1) BY <1>1, <1>2
<1>5. (p + h) \div Wad <= 2 * a
  <2> DEFINE k == 2 * a
  <2>1. k \in Int /\ p + h < Wad * (k + 1) BY <1>4
  <2> HIDE DEF k
  <2>2. (p + h) \div Wad <= k BY <1>1, <1>4, <2>1, DivBelow
  <2> QED BY <2>2 DEF k
<1> QED BY <1>3, <1>5 DEF wmul, p, h

\* A stake divided by two fractions of little more than one.
LEMMA TwoParts ==
  ASSUME NEW L \in Nat, NEW P \in Nat, NEW Q \in Nat, NEW n \in Nat,
         P <= Wad, Q <= Wad, P + Q <= Wad + 2, L < Wad * (n + 1)
  PROVE  /\ wmul(L, P) \in Nat /\ wmul(L, Q) \in Nat
         /\ wmul(L, P) <= L /\ wmul(L, Q) <= L
         /\ wmul(L, P) + wmul(L, Q) <= L + 3 * (n + 1)
<1> DEFINE w == Wad
           a == wmul(L, P)
           b == wmul(L, Q)
           k == n + 1
<1>1. a \in Nat /\ b \in Nat /\ a <= L /\ b <= L BY WmulShare
<1>2. w \in Nat \ {0} BY HalfWad
<1>3. 2 * (w * a) <= 2 * (L * P) + w /\ 2 * (w * b) <= 2 * (L * Q) + w BY WmulBounds
<1>4. P + Q <= w + 2 /\ L < w * k /\ k \in Nat \ {0} OBVIOUS
<1> HIDE DEF a, b, w, k
<1>5. /\ w * a \in Int /\ w * b \in Int /\ L * P \in Int /\ L * Q \in Int /\ w * k \in Int
      /\ L * w \in Int
  BY <1>1, <1>2, <1>4, SMT
<1>6. L * P + L * Q <= L * w + 2 * L
  <2>1. L * (P + Q) <= L * (w + 2) BY <1>2, <1>4, TimesFactor
  <2>2. L * (P + Q) = L * P + L * Q /\ L * (w + 2) = L * w + 2 * L BY <1>2, SMT
  <2> QED BY <2>1, <2>2
<1>7. w <= w * k BY <1>2, <1>4, SMT
<1>8. w * a + w * b <= L * w + 3 * (w * k) BY <1>2, <1>3, <1>4, <1>5, <1>6, <1>7
<1>9. w * (a + b) = w * a + w * b /\ w * (L + 3 * k) = L * w + 3 * (w * k)
  BY <1>1, <1>2, <1>4, SMT
<1>10. a + b <= L + 3 * k
  <2>1. a + b \in Int /\ L + 3 * k \in Int BY <1>1, <1>4
  <2> QED BY <1>2, <1>8, <1>9, <2>1, CancelFactor
<1> QED BY <1>1, <1>10 DEF a, b, k

\* What the vote of a motion has to be like for its stakes to be divided: the
\* loser's stake has paid the voters, and the shares agree on who has lost.
Divisible(m) ==
    IF totalVotes(m) > 0
    THEN loserStake(m) >= 0 /\ \A v \in Sides : hasWon(m, v) <=> v # loserOf(m)
    ELSE m.paidVoterComp = 0

\* The shares of the two sides after a vote.
LEMMA SharesByVote ==
  ASSUME NEW m \in Motion, totalVotes(m) > 0, Divisible(m),
         NEW n \in Nat, totalStake(m) < Wad * (n + 1)
  PROVE  /\ \A v \in Sides : /\ sharesByVote(m, v) \in Nat
                             /\ sharesByVote(m, v) <= totalStake(m)
                             /\ ~hasWon(m, v) => sharesByVote(m, v) <= m.stakes[v]
         /\ sharesByVote(m, NAY) + sharesByVote(m, YAY)
              <= totalStake(m) - m.paidVoterComp + 3 * (n + 1)
<1> DEFINE l == loserOf(m)
           f == flip(l)
           L == loserStake(m)
           a == wdiv(m.votes[l], totalVotes(m))
           b == wdiv(m.votes[f], totalVotes(m))
           P == winShare(m, f) - Wad
           Q == winShare(m, l)
<1>1. l \in Sides /\ f \in Sides /\ f # l /\ Sides = {f, l} /\ flip(f) = l
  BY DEF loserOf, flip, Sides, NAY, YAY
<1>2. /\ m.stakes[l] \in Nat /\ m.stakes[f] \in Nat /\ m.paidVoterComp \in Nat
      /\ m.votes[l] \in Nat /\ m.votes[f] \in Nat
  BY <1>1 DEF Motion
<1>3. /\ totalStake(m) = m.stakes[f] + m.stakes[l]
      /\ totalVotes(m) = m.votes[l] + m.votes[f]
  <2>1. /\ m.stakes[NAY] \in Nat /\ m.stakes[YAY] \in Nat
        /\ m.votes[NAY] \in Nat /\ m.votes[YAY] \in Nat
    BY MotionFields
  <2>2. (l = NAY /\ f = YAY) \/ (l = YAY /\ f = NAY)
    BY DEF loserOf, flip, NAY, YAY
  <2> HIDE DEF l, f
  <2> QED BY <2>1, <2>2 DEF totalStake, totalVotes
<1>4. L = m.stakes[l] - m.paidVoterComp /\ L \in Nat /\ L <= m.stakes[l]
  <2>1. L >= 0 BY DEF Divisible
  <2>2. L = m.stakes[l] - m.paidVoterComp BY DEF loserStake
  <2> HIDE DEF L, l
  <2> QED BY <1>2, <2>1, <2>2
<1>5. hasWon(m, f) /\ ~hasWon(m, l) BY <1>1 DEF Divisible
<1> HIDE DEF l, f
<1>6. a \in Nat /\ b \in Nat /\ a <= Wad /\ b <= Wad /\ a + b <= Wad + 1
  <2>1. m.votes[l] + m.votes[f] > 0 /\ m.votes[f] + m.votes[l] = m.votes[l] + m.votes[f]
    BY <1>2, <1>3
  <2> QED BY <1>2, <1>3, <2>1, TwoFractions
<1>7. Q \in Nat /\ winShare(m, f) \in Nat /\ Q <= 2 * a /\ winShare(m, f) <= 2 * b
  BY <1>6, Doubled DEF winShare
<1>8. P \in Nat /\ P <= Wad /\ Q <= Wad /\ P + Q <= Wad + 2
  <2>1. Wad \in Nat BY HalfWad
  <2>2. winShare(m, f) >= Wad /\ Q <= Wad
    <3>1. winShare(m, f) > Wad \/ winShare(m, f) = Wad BY <1>5 DEF hasWon
    <3>2. ~(winShare(m, l) > Wad) BY <1>5 DEF hasWon
    <3> QED BY <1>7, <2>1, <3>1, <3>2
  <2> HIDE DEF a, b
  <2> QED BY <1>6, <1>7, <2>1, <2>2
<1> HIDE DEF P, Q, a, b
<1>9. L < Wad * (n + 1)
  <2>1. Wad * (n + 1) \in Nat /\ totalStake(m) \in Nat BY HalfWad, MotionFields, SMT
  <2> HIDE DEF L
  <2> QED BY <1>2, <1>3, <1>4, <2>1
<1> HIDE DEF L
<1> DEFINE A == wmul(L, P)
           B == wmul(L, Q)
<1>10. A \in Nat /\ B \in Nat /\ A <= L /\ B <= L /\ A + B <= L + 3 * (n + 1)
  BY <1>4, <1>7, <1>8, <1>9, TwoParts
<1>11. sharesByVote(m, f) = m.stakes[f] + A /\ sharesByVote(m, l) = B
  BY <1>5 DEF sharesByVote, L, P, Q, f, l
<1> HIDE DEF A, B
<1>12. /\ sharesByVote(m, f) \in Nat /\ sharesByVote(m, f) <= totalStake(m)
       /\ sharesByVote(m, l) \in Nat /\ sharesByVote(m, l) <= totalStake(m)
       /\ sharesByVote(m, l) <= m.stakes[l]
  BY <1>2, <1>3, <1>4, <1>10, <1>11
<1>13. sharesByVote(m, f) + sharesByVote(m, l) <= totalStake(m) - m.paidVoterComp + 3 * (n + 1)
  <2>1. 3 * (n + 1) \in Nat OBVIOUS
  <2> QED BY <1>2, <1>3, <1>4, <1>10, <1>11, <2>1
<1>14. sharesByVote(m, NAY) + sharesByVote(m, YAY) = sharesByVote(m, f) + sharesByVote(m, l)
  <2>1. (l = NAY /\ f = YAY) \/ (l = YAY /\ f = NAY)
    BY DEF loserOf, flip, NAY, YAY, l, f
  <2> QED BY <1>12, <2>1
<1> QED BY <1>1, <1>5, <1>12, <1>13, <1>14

\* The shares of the two sides without a vote.
LEMMA SharesByStake ==
  ASSUME NEW m \in Motion, m.paidVoterComp = 0
  PROVE  /\ \A v \in Sides : /\ sharesByStake(m, v) \in Nat
                             /\ sharesByStake(m, v) <= totalStake(m)
                             /\ onlyFullyStaked(m, flip(v)) => sharesByStake(m, v) <= m.stakes[v]
         /\ sharesByStake(m, NAY) + sharesByStake(m, YAY) = totalStake(m)
<1> DEFINE r == requiredStake(m)
           x == m.stakes[NAY]
           y == m.stakes[YAY]
           p == penalty(x)
           q == penalty(y)
<1>1. r \in Nat BY RequiredNat
<1>2. x \in Nat /\ y \in Nat /\ totalStake(m) = x + y BY MotionFields DEF totalStake
<1>3. p \in Nat /\ p <= x /\ q \in Nat /\ q <= y BY <1>2, PenaltySmall
<1>4. flip(NAY) = YAY /\ flip(YAY) = NAY BY DEF flip, NAY, YAY
<1>5. /\ onlyFullyStaked(m, NAY) <=> x = r /\ y < r
      /\ onlyFullyStaked(m, YAY) <=> y = r /\ x < r
  BY <1>4 DEF onlyFullyStaked
<1>6. /\ sharesByStake(m, NAY) = IF x = r /\ y < r THEN r + q ELSE
                                 IF y = r /\ x < r THEN x - p ELSE x
      /\ sharesByStake(m, YAY) = IF y = r /\ x < r THEN r + p ELSE
                                 IF x = r /\ y < r THEN y - q ELSE y
  <2>1. ~(onlyFullyStaked(m, NAY) /\ onlyFullyStaked(m, YAY))
    <3> HIDE DEF r, x, y
    <3> QED BY <1>1, <1>2, <1>5
  <2> QED BY <1>4, <1>5, <2>1 DEF sharesByStake
<1> HIDE DEF r, p, q, x, y
<1>7. /\ sharesByStake(m, NAY) \in Nat /\ sharesByStake(m, NAY) <= x + y
      /\ sharesByStake(m, YAY) \in Nat /\ sharesByStake(m, YAY) <= x + y
      /\ sharesByStake(m, NAY) + sharesByStake(m, YAY) = x + y
      /\ onlyFullyStaked(m, YAY) => sharesByStake(m, NAY) <= x
      /\ onlyFullyStaked(m, NAY) => sharesByStake(m, YAY) <= y
  BY <1>1, <1>2, <1>3, <1>5, <1>6
<1> QED BY <1>2, <1>4, <1>7 DEF Sides, x, y

\* No side has more claims than it ever had stakes.
Within(m, t) == \A v \in Sides : Sum(t, v) <= m.stakes[v] + m.pastVoterComp[v]

\* What rounding may add to the rewards of a motion; rounding, of a motion.
Loose(m) == (2 * Cardinality(Users) + 3) * (1 + totalStake(m) \div Wad)

\* What a motion still owes, and for a settled one without what rounding may add.
Net(m, t) ==
    IF isSettled(m)
    THEN SumFunction(Claims(m, t, NAY)) + SumFunction(Claims(m, t, YAY)) - Loose(m)
    ELSE totalStake(m) - m.paidVoterComp

\* The shares of the sides of a motion with a sound outcome.
LEMMA Shares ==
  ASSUME NEW m \in Motion, Divisible(m), NEW n \in Nat, totalStake(m) < Wad * (n + 1)
  PROVE  /\ \A v \in Sides : shares(m, v) \in Nat /\ shares(m, v) <= totalStake(m)
         /\ shares(m, NAY) + shares(m, YAY) <= totalStake(m) - m.paidVoterComp + 3 * (n + 1)
<1>1. CASE totalVotes(m) > 0 BY <1>1, SharesByVote DEF shares
<1>2. CASE ~(totalVotes(m) > 0)
  <2>1. m.paidVoterComp = 0 BY <1>2 DEF Divisible
  <2>2. totalStake(m) \in Nat BY MotionFields
  <2>3. sharesByStake(m, NAY) + sharesByStake(m, YAY) = totalStake(m) BY <2>1, SharesByStake
  <2>4. totalStake(m) <= totalStake(m) - m.paidVoterComp + 3 * (n + 1) BY <2>1, <2>2
  <2>5. \A v \in Sides : sharesByStake(m, v) \in Nat /\ sharesByStake(m, v) <= totalStake(m)
    BY <2>1, SharesByStake
  <2> QED BY <1>2, <2>3, <2>4, <2>5 DEF shares
<1> QED BY <1>1, <1>2

\* The stakes of a motion in whole Wads.
LEMMA Wads ==
  ASSUME NEW m \in Motion
  PROVE  totalStake(m) \div Wad \in Nat /\ totalStake(m) < Wad * (totalStake(m) \div Wad + 1)
<1> DEFINE s == totalStake(m)
           n == s \div Wad
<1>1. s \in Nat /\ Wad \in Nat \ {0} BY MotionFields, HalfWad
<1> HIDE DEF s
<1>2. n \in Nat
  <2>1. \A a, b \in Nat : b > 0 => a \div b \in Nat BY SMT
  <2> QED BY <1>1, <2>1
<1>3. s < Wad * n + Wad BY <1>1, DivBounds
<1> HIDE DEF n
<1>4. Wad * (n + 1) = Wad * n + Wad BY <1>1, <1>2, SMT
<1> QED BY <1>2, <1>3, <1>4 DEF s, n

\* The claims are amounts.
LEMMA ClaimsInt ==
  ASSUME NEW m \in Motion, NEW t \in Stakings, Within(m, t), Divisible(m), NEW v \in Sides
  PROVE  /\ \A u \in Users : Claims(m, t, v)[u] \in Int
         /\ SumFunction(Claims(m, t, v)) = SumFunctionOnSet(Claims(m, t, v), Users)
         /\ SumFunction(Claims(m, t, v)) \in Int
<1> DEFINE f == Claims(m, t, v)
<1>1. IsFiniteSet(Users) BY VotingAssumption
<1>2. DOMAIN f = Users BY DEF Claims
<1>3. ASSUME NEW u \in Users PROVE f[u] \in Int
  <2>1. CASE t[u][v] > 0
    <3> DEFINE all == m.stakes[v] + m.pastVoterComp[v]
    <3>1. all \in Nat BY DEF Motion
    <3>2. t[u][v] \in Nat /\ t[u][v] <= Sum(t, v) /\ Sum(t, v) \in Nat
      BY SumStaked DEF Stakings
    <3>3. Sum(t, v) <= all BY DEF Within
    <3> HIDE DEF all
    <3>4. all # 0 BY <2>1, <3>1, <3>2, <3>3
    <3>5. wdiv(t[u][v], all) \in Nat BY <3>1, <3>2, <3>4, WdivNat
    <3>6. shares(m, v) \in Nat BY Wads, Shares
    <3>7. wmul(wdiv(t[u][v], all), shares(m, v)) \in Nat BY <3>5, <3>6, WmulNat
    <3>8. f[u] = wmul(wdiv(t[u][v], all), shares(m, v))
      BY <2>1 DEF Claims, stakerReward, stakeFraction, shares, all
    <3> QED BY <3>7, <3>8
  <2>2. CASE ~(t[u][v] > 0) BY <2>2 DEF Claims
  <2> QED BY <2>1, <2>2
<1> HIDE DEF f
<1>4. SumFunctionOnSet(f, Users) \in Int BY <1>1, <1>3, SumInt
<1> QED BY <1>2, <1>3, <1>4 DEF SumFunction, f

\* What rounding may add is an amount.
LEMMA LooseNat == ASSUME NEW m \in Motion PROVE Loose(m) \in Nat
<1> DEFINE n == totalStake(m) \div Wad
           c == Cardinality(Users)
<1>1. n \in Nat BY Wads
<1>2. c \in Nat BY VotingAssumption, FS_CardinalityType
<1> HIDE DEF n, c
<1>3. (2 * c + 3) * (1 + n) \in Nat BY <1>1, <1>2, SMT
<1> QED BY <1>3 DEF Loose, n, c

\* What a motion owes is within its stakes and what the voters have left of them.
LEMMA NetWithin ==
  ASSUME NEW m \in Motion, NEW t \in Stakings, Within(m, t), isSettled(m) => Divisible(m)
  PROVE  Net(m, t) \in Int /\ Net(m, t) <= totalStake(m) - m.paidVoterComp
<1>1. totalStake(m) \in Nat /\ m.paidVoterComp \in Nat BY MotionFields
<1>2. CASE ~isSettled(m) BY <1>1, <1>2 DEF Net
<1>3. CASE isSettled(m)
  <2> DEFINE n == totalStake(m) \div Wad
             a == SumFunction(Claims(m, t, NAY))
             b == SumFunction(Claims(m, t, YAY))
             x == shares(m, NAY)
             y == shares(m, YAY)
             c == Cardinality(Users)
             s == totalStake(m)
  <2>1. n \in Nat /\ s < Wad * (n + 1) BY Wads
  <2>2. NAY \in Sides /\ YAY \in Sides BY DEF Sides
  <2>3. Divisible(m) BY <1>3
  <2>4. a \in Int /\ b \in Int BY <2>2, <2>3, ClaimsInt
  <2> HIDE DEF n
  <2>5. /\ x \in Nat /\ y \in Nat /\ x <= s /\ y <= s
        /\ x + y <= s - m.paidVoterComp + 3 * (n + 1)
    BY <2>1, <2>2, <2>3, Shares
  <2>6. c \in Nat BY VotingAssumption, FS_CardinalityType
  <2>7. x < Wad * (n + 1) /\ y < Wad * (n + 1)
    <3>1. Wad * (n + 1) \in Nat BY <2>1, HalfWad, SMT
    <3> QED BY <1>1, <2>1, <2>5, <3>1
  <2>8. a <= x + c * (n + 1)
    <3>1. Sum(t, NAY) <= m.stakes[NAY] + m.pastVoterComp[NAY] BY <2>2 DEF Within
    <3> QED BY <2>1, <2>2, <2>5, <2>7, <3>1, ClaimsBound
  <2>9. b <= y + c * (n + 1)
    <3>1. Sum(t, YAY) <= m.stakes[YAY] + m.pastVoterComp[YAY] BY <2>2 DEF Within
    <3> QED BY <2>1, <2>2, <2>5, <2>7, <3>1, ClaimsBound
  <2>10. Net(m, t) = a + b - (2 * c + 3) * (1 + n) BY <1>3 DEF Net, Loose, n
  <2> HIDE DEF a, b, x, y, c, s
  <2> DEFINE k == c * (n + 1)
  <2>11. k \in Nat /\ (2 * c + 3) * (1 + n) = 2 * k + 3 * (n + 1) BY <2>1, <2>6, SMT
  <2> HIDE DEF k
  <2>12. a <= x + k /\ b <= y + k BY <2>8, <2>9 DEF k
  <2>13. s \in Nat BY <1>1 DEF s
  <2>14. /\ a + b - (2 * k + 3 * (n + 1)) \in Int
         /\ a + b - (2 * k + 3 * (n + 1)) <= s - m.paidVoterComp
    BY <1>1, <2>1, <2>4, <2>5, <2>11, <2>12, <2>13
  <2> QED BY <2>10, <2>11, <2>14 DEF s
<1> QED BY <1>2, <1>3

\* getStakerReward does not revert for a motion with a sound outcome.
LEMMA RewardPayable ==
  ASSUME NEW m \in Motion, NEW t \in Stakings, Within(m, t), Divisible(m),
         NEW u \in Users, NEW v \in Sides, t[u][v] > 0
  PROVE  hasStakerReward(m, t[u][v], v)
<1> DEFINE all == m.stakes[v] + m.pastVoterComp[v]
           q == stakeFraction(m, t[u][v], v)
<1>1. all \in Nat /\ m.stakes[v] \in Nat BY DEF Motion
<1>2. t[u][v] \in Nat /\ t[u][v] <= Sum(t, v) /\ Sum(t, v) \in Nat
  BY SumStaked DEF Stakings
<1>3. Sum(t, v) <= all BY DEF Within
<1>4. all # 0
  <2> HIDE DEF all
  <2> QED BY <1>1, <1>2, <1>3
<1>5. q \in Nat BY <1>1, <1>2, <1>4, WdivNat DEF stakeFraction
<1>6. realStake(m, t[u][v], v) = wmul(q, m.stakes[v]) BY DEF realStake
<1>7. stakerReward(m, t[u][v], v) = wmul(q, shares(m, v)) BY DEF stakerReward, shares
<1> HIDE DEF q
<1>8. ASSUME shares(m, v) <= m.stakes[v]
      PROVE  stakerReward(m, t[u][v], v) <= realStake(m, t[u][v], v)
  <2>1. shares(m, v) \in Nat BY Wads, Shares
  <2> QED BY <1>1, <1>5, <1>6, <1>7, <1>8, <2>1, WmulMonotone
<1>9. CASE totalVotes(m) > 0
  <2>1. loserStake(m) >= 0 BY <1>9 DEF Divisible
  <2>2. ~hasWon(m, v) => shares(m, v) <= m.stakes[v]
    BY <1>9, Wads, SharesByVote DEF shares
  <2> QED BY <1>8, <1>9, <2>1, <2>2 DEF hasStakerReward
<1>10. CASE ~(totalVotes(m) > 0)
  <2>1. m.paidVoterComp = 0 BY <1>10 DEF Divisible
  <2>2. onlyFullyStaked(m, flip(v)) => shares(m, v) <= m.stakes[v]
    BY <1>10, <2>1, SharesByStake DEF shares
  <2> QED BY <1>8, <1>10, <2>1, <2>2 DEF hasStakerReward
<1> QED BY <1>9, <1>10

\* A claim takes its reward off what the motion owes.
LEMMA NetClaim ==
  ASSUME NEW m \in Motion, NEW t \in Stakings, NEW s \in Stakings,
         NEW u \in Users, NEW v \in Sides,
         isSettled(m), Divisible(m), Within(m, t), Within(m, s),
         t[u][v] > 0, s[u][v] = 0,
         \A x \in Users, w \in Sides : x # u \/ w # v => s[x][w] = t[x][w]
  PROVE  Net(m, s) = Net(m, t) - stakerReward(m, t[u][v], v)
<1>1. IsFiniteSet(Users) BY VotingAssumption
<1>2. /\ s[u][v] = 0
      /\ \A x \in Users, w \in Sides : x # u \/ w # v => s[x][w] = t[x][w]
  OBVIOUS
<1> DEFINE C(w) == SumFunction(Claims(m, t, w))
           D(w) == SumFunction(Claims(m, s, w))
<1>3. \A w \in Sides : /\ C(w) \in Int /\ D(w) \in Int
                       /\ C(w) = SumFunctionOnSet(Claims(m, t, w), Users)
                       /\ D(w) = SumFunctionOnSet(Claims(m, s, w), Users)
  BY ClaimsInt
<1>4. \A w \in Sides \ {v} : C(w) = D(w)
  <2> TAKE w \in Sides \ {v}
  <2>1. Claims(m, s, w) = Claims(m, t, w) BY <1>2 DEF Claims
  <2> QED BY <2>1
<1>5. D(v) = C(v) - stakerReward(m, t[u][v], v)
  <2> DEFINE f == Claims(m, t, v)
             g == Claims(m, s, v)
  <2>1. \A x \in Users : f[x] \in Int /\ g[x] \in Int BY ClaimsInt
  <2>2. \A x \in Users : x # u => g[x] = f[x] BY <1>2 DEF Claims
  <2>3. f[u] = stakerReward(m, t[u][v], v) /\ g[u] = 0 BY <1>2 DEF Claims
  <2>4. C(v) = SumFunctionOnSet(f, Users) /\ D(v) = SumFunctionOnSet(g, Users)
        /\ C(v) \in Int
    BY <1>3
  <2> HIDE DEF f, g, C, D
  <2>5. SumFunctionOnSet(g, Users) = SumFunctionOnSet(f, Users) - f[u] + g[u]
    BY <1>1, <2>1, <2>2, SumChange
  <2>6. f[u] \in Int BY <2>1
  <2> QED BY <2>3, <2>4, <2>5, <2>6
<1>6. /\ Net(m, t) = C(NAY) + C(YAY) - Loose(m)
      /\ Net(m, s) = D(NAY) + D(YAY) - Loose(m)
      /\ Loose(m) \in Nat
  BY LooseNat DEF Net
<1>7. stakerReward(m, t[u][v], v) \in Int
  <2>1. Claims(m, t, v)[u] \in Int BY ClaimsInt
  <2> QED BY <2>1 DEF Claims
<1>8. /\ C(NAY) \in Int /\ C(YAY) \in Int
      /\ \/ v = NAY /\ D(YAY) = C(YAY)
         \/ v = YAY /\ D(NAY) = C(NAY)
  <2>1. \/ v = NAY /\ YAY \in Sides \ {v}
        \/ v = YAY /\ NAY \in Sides \ {v}
    BY DEF Sides, NAY, YAY
  <2>2. NAY \in Sides /\ YAY \in Sides BY DEF Sides
  <2> HIDE DEF C, D
  <2> QED BY <1>3, <1>4, <2>1, <2>2
<1> HIDE DEF C, D
<1> QED BY <1>5, <1>6, <1>7, <1>8

\* Time adds nothing to what a motion owes, not even when it settles it.
LEMMA NetLater ==
  ASSUME NEW m \in Motion, NEW t \in Stakings, Within(m, t),
         isSettled(m) => Divisible(m), isSettled(later(m)) => Divisible(later(m))
  PROVE  Net(later(m), t) \in Int /\ Net(later(m), t) <= Net(m, t)
<1>1. /\ later(m) \in Motion /\ later(m).stakes = m.stakes
      /\ later(m).pastVoterComp = m.pastVoterComp /\ later(m).paidVoterComp = m.paidVoterComp
  BY LaterFields
<1>2. totalStake(later(m)) = totalStake(m) BY <1>1 DEF totalStake
<1>3. Within(later(m), t) BY <1>1 DEF Within
<1>4. /\ Net(later(m), t) \in Int
      /\ Net(later(m), t) <= totalStake(later(m)) - later(m).paidVoterComp
  BY <1>1, <1>3, NetWithin
<1>5. CASE ~isSettled(m) BY <1>1, <1>2, <1>4, <1>5 DEF Net
<1>6. CASE isSettled(m)
  <2>1. isSettled(later(m)) BY <1>6, SettledStays DEF isSettled
  <2>2. \A v \in Sides : Claims(later(m), t, v) = Claims(m, t, v)
    BY RewardStays DEF Claims
  <2>3. Loose(later(m)) = Loose(m) BY <1>2 DEF Loose
  <2>4. Net(later(m), t) = Net(m, t)
    BY <1>6, <2>1, <2>2, <2>3 DEF Net, Sides
  <2> QED BY <1>4, <2>4
<1> QED BY <1>5, <1>6

-----------------------------------------------------------------------------
(* What all motions owe is in the deposit.                                 *)

\* The deposit covers what the motions still owe.
Covered == SumFunction([i \in Created |-> Net(motions[i], stakes[i])]) <= deposited

\* The motions that are settled have a sound outcome.
Outcomes == \A i \in Created : isSettled(motions[i]) => Divisible(motions[i])

\* No motion has more claims than stakes.
LEMMA FitsWithin ==
  ASSUME TypeOK, StakesAddUp, NEW i \in Created
  PROVE  motions[i] \in Motion /\ stakes[i] \in Stakings /\ Within(motions[i], stakes[i])
<1>1. motions[i] \in Motion /\ stakes[i] \in Stakings BY CreatedType
<1>2. Fits(motions[i], stakes[i]) BY FitsDef
<1>3. \A v \in Sides : /\ Sum(stakes[i], v) \in Nat
                       /\ motions[i].stakes[v] + motions[i].pastVoterComp[v] \in Nat
  BY <1>1, SumStaked DEF Motion
<1>4. Within(motions[i], stakes[i]) BY <1>2, <1>3 DEF Fits, Within
<1> QED BY <1>1, <1>4

\* The same of all motions, to be said of those after a step too.
Fitting == \A j \in Created : /\ motions[j] \in Motion /\ stakes[j] \in Stakings
                              /\ Within(motions[j], stakes[j])

LEMMA FittingHolds == TypeOK /\ StakesAddUp => Fitting
BY FitsWithin DEF Fitting

\* And of what they owe.
NetsAreInt == \A i \in Created : Net(motions[i], stakes[i]) \in Int

LEMMA NetsAreIntHolds == TypeOK /\ StakesAddUp /\ Outcomes => NetsAreInt
BY FitsWithin, NetWithin DEF NetsAreInt, Outcomes

\* What the motions owe is a sum of amounts.
LEMMA NetsInt ==
  ASSUME TypeOK, StakesAddUp, Outcomes
  PROVE  /\ IsFiniteSet(Created)
         /\ \A i \in Created : Net(motions[i], stakes[i]) \in Int
         /\ SumFunction([i \in Created |-> Net(motions[i], stakes[i])])
              = SumFunctionOnSet([i \in Created |-> Net(motions[i], stakes[i])], Created)
<1>1. IsFiniteSet(Created)
  <2>1. Created = 1 .. Len(motions) /\ Len(motions) \in Nat BY CreatedType
  <2> QED BY <2>1, FS_Interval
<1>2. \A i \in Created : Net(motions[i], stakes[i]) \in Int
  BY FitsWithin, NetWithin DEF Outcomes
<1>3. DOMAIN [i \in Created |-> Net(motions[i], stakes[i])] = Created OBVIOUS
<1> QED BY <1>1, <1>2, <1>3 DEF SumFunction

\* A step that is about motion i, which pays out or takes in the difference.
LEMMA CoveredOneMotion ==
  ASSUME TypeOK, StakesAddUp, Outcomes, Covered, TypeOK', StakesAddUp', Outcomes',
         NEW i \in Created, Created' = Created,
         \A j \in Created \ {i} : motions'[j] = motions[j] /\ stakes'[j] = stakes[j],
         Net(motions'[i], stakes'[i]) - Net(motions[i], stakes[i]) <= deposited' - deposited
  PROVE  Covered'
<1> DEFINE f == [j \in Created |-> Net(motions[j], stakes[j])]
           g == [j \in Created |-> Net(motions'[j], stakes'[j])]
<1>1. IsFiniteSet(Created) /\ \A j \in Created : f[j] \in Int BY NetsInt
<1>2. \A j \in Created : g[j] \in Int
  <2>1. (TypeOK /\ StakesAddUp /\ Outcomes => NetsAreInt)' BY NetsAreIntHolds, PTL
  <2> QED BY <2>1 DEF NetsAreInt
<1>3. \A j \in Created : j # i => g[j] = f[j] OBVIOUS
<1>4. SumFunction(f) = SumFunctionOnSet(f, Created) /\ SumFunction(g) = SumFunctionOnSet(g, Created)
  BY DEF SumFunction
<1>5. SumFunction(f) <= deposited BY DEF Covered
<1>6. Covered' <=> SumFunction(g) <= deposited' BY DEF Covered
<1>7. g[i] - f[i] <= deposited' - deposited OBVIOUS
<1>8. deposited \in Nat /\ deposited' \in Nat BY DEF TypeOK
<1> HIDE DEF f, g
<1>9. SumFunctionOnSet(g, Created) = SumFunctionOnSet(f, Created) - f[i] + g[i]
  <2>1. \A j \in Created : f[j] \in Int /\ g[j] \in Int BY <1>1, <1>2
  <2> QED BY <1>1, <1>3, <2>1, SumChange
<1>10. SumFunctionOnSet(f, Created) \in Int BY <1>1, SumInt
<1> QED BY <1>1, <1>2, <1>4, <1>5, <1>6, <1>7, <1>8, <1>9, <1>10

\* A step on a motion that is not settled moves as much into or out of the deposit
\* as it moves into or out of the motion's stakes, less the voters' part.
LEMMA CoveredUnsettled ==
  ASSUME TypeOK, StakesAddUp, Outcomes, Covered, TypeOK', StakesAddUp', Outcomes',
         NEW i \in Created, Created' = Created, ~isSettled(motions[i]),
         \A j \in Created \ {i} : motions'[j] = motions[j] /\ stakes'[j] = stakes[j],
         totalStake(motions'[i]) - motions'[i].paidVoterComp - deposited'
           = totalStake(motions[i]) - motions[i].paidVoterComp - deposited
  PROVE  Covered'
<1>1. Net(motions[i], stakes[i]) = totalStake(motions[i]) - motions[i].paidVoterComp
  BY DEF Net
<1>2. /\ Net(motions'[i], stakes'[i]) \in Int
      /\ Net(motions'[i], stakes'[i]) <= totalStake(motions'[i]) - motions'[i].paidVoterComp
  <2>1. (motions[i] \in Motion /\ stakes[i] \in Stakings /\ Within(motions[i], stakes[i]))'
    <3>1. (TypeOK /\ StakesAddUp => Fitting)' BY FittingHolds, PTL
    <3> QED BY <3>1 DEF Fitting
  <2>2. motions'[i] \in Motion /\ stakes'[i] \in Stakings /\ Within(motions'[i], stakes'[i])
    BY <2>1
  <2>3. isSettled(motions'[i]) => Divisible(motions'[i]) BY DEF Outcomes
  <2> QED BY <2>2, <2>3, NetWithin
<1>3. /\ totalStake(motions[i]) \in Nat /\ motions[i].paidVoterComp \in Nat
      /\ totalStake(motions'[i]) \in Nat /\ motions'[i].paidVoterComp \in Nat
  <2>1. motions[i] \in Motion BY CreatedType
  <2>2. motions'[i] \in Motion
    <3>1. (TypeOK /\ StakesAddUp => Fitting)' BY FittingHolds, PTL
    <3> QED BY <3>1 DEF Fitting
  <2> QED BY <2>1, <2>2, MotionFields
<1>4. deposited \in Nat /\ deposited' \in Nat BY DEF TypeOK
<1>5. Net(motions'[i], stakes'[i]) - Net(motions[i], stakes[i]) <= deposited' - deposited
  BY <1>1, <1>2, <1>3, <1>4
<1> QED BY <1>5, CoveredOneMotion

\* Tick.
LEMMA CoveredTick ==
  ASSUME TypeOK, StakesAddUp, Outcomes, Covered, TypeOK', StakesAddUp', Outcomes', Tick
  PROVE  Covered'
<1>1. motions' = [i \in DOMAIN motions |-> later(motions[i])] BY TickMoves
<1>2. /\ Created' = Created
      /\ \A j \in Created : motions'[j] = later(motions[j])
      /\ stakes' = stakes /\ deposited' = deposited
  BY <1>1, TickedMotions, TickMoves DEF TypeOK, Created
<1> DEFINE f == [j \in Created |-> Net(motions[j], stakes[j])]
           g == [j \in Created |-> Net(motions'[j], stakes'[j])]
<1>3. \A j \in Created : g[j] \in Int /\ f[j] \in Int /\ g[j] <= f[j]
  <2> TAKE j \in Created
  <2>1. motions[j] \in Motion /\ stakes[j] \in Stakings /\ Within(motions[j], stakes[j])
    BY FitsWithin
  <2>2. isSettled(motions[j]) => Divisible(motions[j]) BY DEF Outcomes
  <2>3. isSettled(later(motions[j])) => Divisible(later(motions[j]))
    <3>1. isSettled(motions'[j]) => Divisible(motions'[j]) BY <1>2 DEF Outcomes
    <3> QED BY <1>2, <3>1
  <2>4. /\ Net(later(motions[j]), stakes[j]) \in Int
        /\ Net(later(motions[j]), stakes[j]) <= Net(motions[j], stakes[j])
    BY <2>1, <2>2, <2>3, NetLater
  <2> QED BY <1>2, <2>4, NetsInt
<1>4. IsFiniteSet(Created) BY NetsInt
<1>5. SumFunction(f) = SumFunctionOnSet(f, Created) /\ SumFunction(g) = SumFunctionOnSet(g, Created)
  BY DEF SumFunction
<1>6. SumFunction(f) <= deposited BY DEF Covered
<1>7. Covered' <=> SumFunction(g) <= deposited' BY <1>2 DEF Covered
<1>8. deposited \in Nat BY DEF TypeOK
<1> HIDE DEF f, g
<1>9. SumFunctionOnSet(g, Created) <= SumFunctionOnSet(f, Created)
  BY <1>3, <1>4, SumMonotone
<1>10. SumFunctionOnSet(f, Created) \in Int /\ SumFunctionOnSet(g, Created) \in Int
  BY <1>3, <1>4, SumInt
<1> QED BY <1>2, <1>5, <1>6, <1>7, <1>8, <1>9, <1>10

\* CreateMotion.
LEMMA CoveredCreate ==
  ASSUME TypeOK, StakesAddUp, Outcomes, Covered, TypeOK', StakesAddUp', Outcomes',
         NEW d \in Domains, NEW a \in Actions, CreateMotion(d, a)
  PROVE  Covered'
<1> DEFINE n == Len(motions) + 1
           m == NewMotion(d, a)
<1>1. motions' = Append(motions, m) /\ stakes' = stakes /\ deposited' = deposited
  BY DEF CreateMotion
<1>2. /\ Created' = Created \cup {n} /\ n \notin Created
      /\ motions'[n] = m /\ \A j \in Created : motions'[j] = motions[j]
  <2>1. m \in Motion BY NewMotionType
  <2> HIDE DEF m
  <2>2. /\ Created' = 1 .. n /\ Created = 1 .. Len(motions) /\ motions'[n] = m
        /\ \A j \in Created : motions'[j] = motions[j]
    BY <1>1, <2>1, Append1 DEF TypeOK, Created
  <2>3. Len(motions) \in Nat BY CreatedType
  <2> QED BY <2>2, <2>3
<1> DEFINE f == [j \in Created |-> Net(motions[j], stakes[j])]
           g == [j \in Created \cup {n} |-> Net(motions'[j], stakes'[j])]
<1>3. \A j \in Created : g[j] = f[j] /\ f[j] \in Int BY <1>1, <1>2, NetsInt
<1>4. g[n] \in Int /\ g[n] <= 0
  <2>1. motions'[n] \in Motion /\ stakes'[n] \in Stakings /\ Within(motions'[n], stakes'[n])
    <3>1. (TypeOK /\ StakesAddUp => Fitting)' BY FittingHolds, PTL
    <3> QED BY <1>2, <3>1 DEF Fitting
  <2>2. isSettled(motions'[n]) => Divisible(motions'[n]) BY <1>2 DEF Outcomes
  <2>3. /\ Net(motions'[n], stakes'[n]) \in Int
        /\ Net(motions'[n], stakes'[n]) <= totalStake(motions'[n]) - motions'[n].paidVoterComp
    BY <2>1, <2>2, NetWithin
  <2>4. totalStake(m) = 0 /\ m.paidVoterComp = 0
    BY DEF NewMotion, none, totalStake, Sides, NAY, YAY
  <2> QED BY <1>2, <2>3, <2>4
<1>5. IsFiniteSet(Created) BY NetsInt
<1>6. SumFunction(f) = SumFunctionOnSet(f, Created)
      /\ SumFunction(g) = SumFunctionOnSet(g, Created \cup {n})
  BY DEF SumFunction
<1>7. SumFunction(f) <= deposited BY DEF Covered
<1>8. Covered' <=> SumFunction(g) <= deposited' BY <1>2 DEF Covered
<1>9. deposited \in Nat BY DEF TypeOK
<1> HIDE DEF f, g, n
<1>10. SumFunctionOnSet(g, Created \cup {n}) = g[n] + SumFunctionOnSet(g, Created)
  <2>1. \A j \in Created \cup {n} : g[j] \in Int BY <1>3, <1>4
  <2> QED BY <1>2, <1>5, <2>1, SumAdd
<1>11. SumFunctionOnSet(g, Created) = SumFunctionOnSet(f, Created)
  <2>1. \A j \in Created : f[j] \in Int /\ f[j] = g[j] BY <1>3
  <2> QED BY <1>5, <2>1, SumSame
<1>12. SumFunctionOnSet(f, Created) \in Int BY <1>3, <1>5, SumInt
<1> QED BY <1>1, <1>4, <1>6, <1>7, <1>8, <1>9, <1>10, <1>11, <1>12

\* ClaimReward.
LEMMA CoveredClaim ==
  ASSUME TypeOK, StakesAddUp, Outcomes, Covered, TypeOK', StakesAddUp', Outcomes',
         NEW i \in Created, NEW u \in Users, NEW v \in Sides, ClaimReward(i, u, v)
  PROVE  Covered'
<1> DEFINE m == motions[i]
           t == stakes[i]
           s == stakes'[i]
           r == stakerReward(m, t[u][v], v)
<1>1. /\ isSettled(m) /\ t[u][v] > 0 /\ deposited' = deposited - r
      /\ stakes' = [stakes EXCEPT ![i][u][v] = 0] /\ motions' = motions
  BY DEF ClaimReward
<1>2. m \in Motion /\ t \in Stakings /\ Within(m, t) BY FitsWithin
<1>3. Created' = Created BY <1>1 DEF Created
<1>4. s \in Stakings /\ Within(m, s)
  <2>1. (TypeOK /\ StakesAddUp => Fitting)' BY FittingHolds, PTL
  <2> QED BY <1>1, <1>3, <2>1 DEF Fitting
<1>5. /\ s[u][v] = 0 /\ \A j \in Created \ {i} : stakes'[j] = stakes[j]
      /\ \A x \in Users, w \in Sides : x # u \/ w # v => s[x][w] = t[x][w]
  <2>1. i \in MotionIds /\ Created \subseteq MotionIds BY CreatedType
  <2>2. s = [t EXCEPT ![u][v] = 0] /\ \A j \in Created \ {i} : stakes'[j] = stakes[j]
    BY <1>1, <2>1 DEF TypeOK
  <2> HIDE DEF s, t
  <2> QED BY <1>2, <2>2 DEF Stakings
<1>6. Divisible(m) BY <1>1 DEF Outcomes
<1>7. Net(m, s) = Net(m, t) - r
  <2> HIDE DEF m, s, t
  <2> QED BY <1>1, <1>2, <1>4, <1>5, <1>6, NetClaim
<1>8. Net(m, t) \in Int /\ Net(m, s) \in Int BY <1>2, <1>4, <1>6, NetWithin
<1>9. r \in Nat
  <2> HIDE DEF m, t, r
  <2>1. /\ t[u][v] \in Nat /\ t[u][v] <= Sum(t, v) /\ Sum(t, v) \in Nat
        /\ Sum(t, v) <= m.stakes[v] + m.pastVoterComp[v]
        /\ m.stakes[v] \in Nat /\ m.pastVoterComp[v] \in Nat
    BY <1>2, SumStaked DEF Stakings, Within, Motion
  <2>2. m.stakes[v] + m.pastVoterComp[v] > 0 BY <1>1, <2>1
  <2>3. hasStakerReward(m, t[u][v], v) BY <1>1, <1>2, <1>6, RewardPayable
  <2> QED BY <1>2, <2>1, <2>2, <2>3, StakerRewardNat DEF r
<1>10. deposited \in Nat /\ deposited' \in Nat BY DEF TypeOK
<1>11. Net(motions'[i], stakes'[i]) - Net(motions[i], stakes[i]) <= deposited' - deposited
  <2>1. Net(m, s) - Net(m, t) <= deposited' - deposited
    <3> HIDE DEF m, s, t, r
    <3> QED BY <1>1, <1>7, <1>8, <1>9, <1>10
  <2> QED BY <1>1, <2>1
<1>12. \A j \in Created \ {i} : motions'[j] = motions[j] /\ stakes'[j] = stakes[j]
  BY <1>1, <1>5
<1> QED BY <1>3, <1>11, <1>12, CoveredOneMotion

-----------------------------------------------------------------------------
(* What the voters of a round are paid.                                    *)

\* One voter's reward: at most the voter's part of the fraction of the stakes, and
\* what three roundings add.
LEMMA VoterRewardBound ==
  ASSUME NEW T \in Nat, NEW R \in Nat \ {0}, NEW rep \in Nat
  PROVE  LET r == wmul(wmul(wdiv(rep, R), T), voterRewardFraction)
         IN  /\ r \in Nat
             /\ R * (Wad * r) <= (voterRewardFraction * T) * rep + R * (T + Wad)
             /\ rep = 0 => r = 0
<1> DEFINE f == voterRewardFraction
           w == Wad
           q == wdiv(rep, R)
           p == wmul(q, T)
           r == wmul(p, f)
<1>1. w \in Nat \ {0} BY HalfWad
<1>2. f \in Nat /\ f <= w
  <2>1. w \div 2 <= w /\ w \div 2 \in Nat BY HalfWad
  <2>2. f \in 0 .. (w \div 2) BY RulesAssumption
  <2> HIDE DEF f, w
  <2> QED BY <1>1, <2>1, <2>2
<1>3. q \in Nat /\ p \in Nat /\ r \in Nat BY <1>2, WdivNat, WmulNat
<1>4. rep = 0 => r = 0
  <2>1. \A y \in Nat : y > 0 => (y \div 2) \div y = 0
    <3> SUFFICES ASSUME NEW y \in Nat, y > 0 PROVE (y \div 2) \div y = 0 OBVIOUS
    <3>1. y \div 2 \in Nat /\ y \div 2 < y BY SMT
    <3>2. (y \div 2) \div y <= 0
      <4> DEFINE h == y \div 2
      <4>1. h \in Int /\ y \in Nat \ {0} /\ h < y * (0 + 1) BY <3>1, SMT
      <4> HIDE DEF h
      <4>2. h \div y <= 0 BY <4>1, DivBelow
      <4> QED BY <4>2 DEF h
    <3>3. (y \div 2) \div y \in Nat
      <4>1. \A a, b \in Nat : b > 0 => a \div b \in Nat BY SMT
      <4> QED BY <3>1, <4>1
    <3> QED BY <3>2, <3>3
  <2>2. rep = 0 => q = 0
    <3>1. 0 * Wad + R \div 2 = R \div 2 BY HalfWad, SMT
    <3> QED BY <2>1, <3>1 DEF wdiv
  <2>3. \A y \in Nat : wmul(0, y) = 0
    <3> TAKE y \in Nat
    <3>1. 0 * y + Wad \div 2 = Wad \div 2 BY HalfWad, SMT
    <3> QED BY <1>1, <2>1, <3>1 DEF wmul
  <2> HIDE DEF q
  <2> QED BY <1>2, <2>2, <2>3
<1>5. 2 * (R * q) <= 2 * (rep * w) + R BY WdivBounds
<1> HIDE DEF q
<1>6. 2 * (w * p) <= 2 * (q * T) + w
  <2>1. q \in Int /\ T \in Int BY <1>3
  <2> QED BY <2>1, WmulBounds
<1> HIDE DEF p
<1>7. 2 * (w * r) <= 2 * (p * f) + w
  <2>1. p \in Int /\ f \in Int BY <1>2, <1>3
  <2> QED BY <2>1, WmulBounds
<1> HIDE DEF r, f, w
<1>8. R * (w * r) <= (f * T) * rep + R * (T + w)
  <2>1. w * (2 * (w * r)) <= w * (2 * (p * f) + w)
    <3>1. 2 * (w * r) \in Int /\ 2 * (p * f) + w \in Int BY <1>1, <1>2, <1>3, SMT
    <3> QED BY <1>1, <1>7, <3>1, TimesFactor
  <2>2. f * (2 * (w * p)) <= f * (2 * (q * T) + w)
    <3>1. 2 * (w * p) \in Int /\ 2 * (q * T) + w \in Int BY <1>1, <1>3, SMT
    <3> QED BY <1>2, <1>6, <3>1, TimesFactor
  <2>3. w * (2 * (w * r)) <= f * (2 * (q * T) + w) + w * w
    <3>1. w * (2 * (p * f) + w) = f * (2 * (w * p)) + w * w BY <1>1, <1>2, <1>3, SMT
    <3>2. /\ w * (2 * (w * r)) \in Int /\ f * (2 * (w * p)) \in Int /\ w * w \in Int
          /\ f * (2 * (q * T) + w) \in Int
      BY <1>1, <1>2, <1>3, SMT
    <3> QED BY <2>1, <2>2, <3>1, <3>2
  <2>4. R * (w * (2 * (w * r))) <= R * (f * (2 * (q * T) + w) + w * w)
    <3>1. w * (2 * (w * r)) \in Int /\ f * (2 * (q * T) + w) + w * w \in Int
      BY <1>1, <1>2, <1>3, SMT
    <3> QED BY <2>3, <3>1, TimesFactor
  <2> DEFINE g == f * T
  <2>5. g \in Nat BY <1>2, SMT
  <2>6. R * (f * (2 * (q * T) + w) + w * w) = g * (2 * (R * q)) + R * (f * w) + R * (w * w)
    BY <1>1, <1>2, <1>3, SMT
  <2>7. g * (2 * (R * q)) <= g * (2 * (rep * w) + R)
    <3>1. 2 * (R * q) \in Int /\ 2 * (rep * w) + R \in Int BY <1>1, <1>3, SMT
    <3> HIDE DEF g
    <3> QED BY <1>5, <2>5, <3>1, TimesFactor
  <2>8. R * (f * w) <= R * (w * w)
    <3>1. f * w <= w * w BY <1>1, <1>2, SMT
    <3>2. f * w \in Int /\ w * w \in Int BY <1>1, <1>2, SMT
    <3> QED BY <3>1, <3>2, TimesFactor
  <2>9. g * R <= w * (R * T)
    <3>1. g * R = (R * T) * f /\ w * (R * T) = (R * T) * w /\ R * T \in Nat BY <1>1, <1>2, SMT
    <3>2. (R * T) * f <= (R * T) * w BY <1>1, <1>2, <3>1, TimesFactor
    <3> QED BY <3>1, <3>2
  <2>10. g * (2 * (rep * w) + R) = w * (2 * (g * rep)) + g * R BY <1>1, <2>5, SMT
  <2>11. R * (w * (2 * (w * r))) <= w * (2 * (g * rep)) + w * (R * T) + 2 * (R * (w * w))
    <3>1. /\ R * (w * (2 * (w * r))) \in Int /\ g * (2 * (R * q)) \in Int
          /\ R * (f * w) \in Int /\ R * (w * w) \in Int /\ g * R \in Int /\ w * (R * T) \in Int
          /\ w * (2 * (g * rep)) \in Int
      BY <1>1, <1>2, <1>3, <2>5, SMT
    <3> HIDE DEF g
    <3> QED BY <2>4, <2>6, <2>7, <2>8, <2>9, <2>10, <3>1
  <2> HIDE DEF g
  <2>12. /\ R * (w * (2 * (w * r))) = w * (2 * (R * (w * r)))
         /\ w * (2 * (g * rep)) + w * (R * T) + 2 * (R * (w * w))
              = w * (2 * (g * rep) + R * T + 2 * (R * w))
    BY <1>1, <1>3, <2>5, SMT
  <2>13. 2 * (R * (w * r)) <= 2 * (g * rep) + R * T + 2 * (R * w)
    <3>1. 2 * (R * (w * r)) \in Int /\ 2 * (g * rep) + R * T + 2 * (R * w) \in Int
      BY <1>1, <1>3, <2>5, SMT
    <3> QED BY <1>1, <2>11, <2>12, <3>1, CancelFactor
  <2>14. /\ R * (w * r) \in Int /\ g * rep \in Int /\ R * T \in Nat /\ R * w \in Nat
         /\ R * (T + w) = R * T + R * w
    BY <1>1, <1>3, <2>5, SMT
  <2>15. R * (w * r) <= g * rep + R * (T + w) BY <2>13, <2>14
  <2> QED BY <2>15 DEF g
<1> QED BY <1>3, <1>4, <1>8 DEF r, p, q, f, w

\* How many users have no secret left to reveal.
Revealed(secrets) == Cardinality({u \in Users : secrets[u] = NoSecret})

\* What a round has paid its voters for n revealed votes.
PaidFor(m, n) ==
    m.repSubmitted * (Wad * m.paidVoterComp) <=
        (voterRewardFraction * totalStake(m)) * totalVotes(m)
          + (n * m.repSubmitted) * (totalStake(m) + Wad)

\* No side has more than is required, and voters are paid only in a vote, no more
\* than their votes are worth and rounding adds.
Compensated(m, secrets) ==
    /\ \A v \in Sides : m.stakes[v] <= requiredStake(m)
    /\ m.paidVoterComp > 0 =>
           /\ fullyStaked(m) /\ m.submitEnd <= 0
           /\ totalVotes(m) > 0 /\ m.repSubmitted > 0
           /\ PaidFor(m, Revealed(secrets))

\* With no more votes than were submitted, the loser's stake has paid the voters.
LEMMA LoserCovers ==
  ASSUME CompensationFits, NEW m \in Motion, NEW secrets, Compensated(m, secrets),
         totalVotes(m) <= m.repSubmitted
  PROVE  loserStake(m) >= 0
<1> DEFINE l == loserOf(m)
           c == m.paidVoterComp
           r == requiredStake(m)
           R == m.repSubmitted
           T == totalStake(m)
           n == Revealed(secrets)
           f == voterRewardFraction
           w == Wad
           N == Cardinality(Users)
<1>1. /\ l \in Sides /\ c \in Nat /\ m.stakes[l] \in Nat /\ R \in Nat /\ totalVotes(m) \in Nat
      /\ m.stakes[NAY] \in Nat /\ m.stakes[YAY] \in Nat /\ r \in Nat
  BY MotionFields, RequiredNat DEF Motion
<1>2. CASE c = 0 BY <1>1, <1>2 DEF loserStake
<1>3. CASE c > 0
  <2>1. /\ R > 0 /\ fullyStaked(m) /\ \A v \in Sides : m.stakes[v] <= r
        /\ R * (w * c) <= (f * T) * totalVotes(m) + (n * R) * (T + w)
    BY <1>3 DEF Compensated, PaidFor
  <2>2. m.stakes[l] = r /\ T = 2 * r
    <3>1. \A v \in Sides : m.stakes[v] >= r BY <2>1 DEF fullyStaked
    <3>2. NAY \in Sides /\ YAY \in Sides BY DEF Sides
    <3>3. T = m.stakes[NAY] + m.stakes[YAY] BY DEF totalStake
    <3> HIDE DEF l, r, T
    <3> QED BY <1>1, <2>1, <3>1, <3>2, <3>3
  <2>3. /\ n \in Nat /\ N \in Nat /\ n <= N
    <3>1. IsFiniteSet(Users) BY VotingAssumption
    <3>2. {u \in Users : secrets[u] = NoSecret} \subseteq Users OBVIOUS
    <3> QED BY <3>1, <3>2, FS_Subset, FS_CardinalityType DEF Revealed
  <2>4. w \in Nat \ {0} /\ f \in Nat
    <3>1. w \div 2 \in Nat BY HalfWad
    <3>2. f \in 0 .. (w \div 2) BY RulesAssumption
    <3> QED BY HalfWad, <3>1, <3>2
  <2>5. 2 * r * f + N * (2 * r + w) <= r * w
    <3>1. m.domainId \in Domains BY DEF Motion
    <3> QED BY <3>1 DEF CompensationFits, requiredStake
  <2> HIDE DEF l, c, r, R, T, n, f, w, N
  <2>6. (f * T) * totalVotes(m) <= (f * T) * R
    <3>1. f * T \in Nat BY <1>1, <2>2, <2>4, SMT
    <3>2. totalVotes(m) <= R BY DEF R
    <3> HIDE DEF totalVotes
    <3> QED BY <1>1, <3>1, <3>2, TimesFactor
  <2>7. (n * R) * (T + w) <= R * (N * (T + w))
    <3>1. R * (T + w) \in Nat BY <1>1, <2>2, <2>4, SMT
    <3>2. (R * (T + w)) * n <= (R * (T + w)) * N BY <2>3, <3>1, TimesFactor
    <3>3. /\ (R * (T + w)) * n = (n * R) * (T + w)
          /\ (R * (T + w)) * N = R * (N * (T + w))
      BY <1>1, <2>2, <2>3, <2>4, SMT
    <3> QED BY <3>2, <3>3
  <2>8. R * (w * c) <= R * (f * T + N * (T + w))
    <3>1. R * (f * T + N * (T + w)) = (f * T) * R + R * (N * (T + w))
      BY <1>1, <2>2, <2>3, <2>4, SMT
    <3>2. /\ (f * T) * totalVotes(m) \in Int /\ (n * R) * (T + w) \in Int
          /\ (f * T) * R \in Int /\ R * (N * (T + w)) \in Int /\ R * (w * c) \in Int
      BY <1>1, <2>2, <2>3, <2>4, SMT
    <3> HIDE DEF totalVotes
    <3> QED BY <2>1, <2>6, <2>7, <3>1, <3>2
  <2>9. w * c <= f * T + N * (T + w)
    <3>1. w * c \in Int /\ f * T + N * (T + w) \in Int /\ R \in Nat \ {0}
      BY <1>1, <2>1, <2>2, <2>3, <2>4, SMT
    <3> QED BY <2>8, <3>1, CancelFactor
  <2>10. f * T + N * (T + w) = 2 * r * f + N * (2 * r + w)
    BY <1>1, <2>2, <2>3, <2>4, SMT
  <2>11. w * c <= w * r
    <3>1. r * w = w * r /\ w * c \in Int /\ w * r \in Int
          /\ 2 * r * f + N * (2 * r + w) \in Int
      BY <1>1, <2>3, <2>4, SMT
    <3> QED BY <2>5, <2>9, <2>10, <3>1
  <2>12. c <= r BY <1>1, <2>4, <2>11, CancelFactor
  <2> QED BY <1>1, <2>2, <2>12 DEF loserStake, l, c
<1> QED BY <1>1, <1>2, <1>3

\* No motion's voters are paid more than their votes are worth.
CompensatedAll == \A i \in Created : Compensated(motions[i], voteSecrets[i])

\* Somebody who reveals a vote has one secret less.
LEMMA RevealedGrows ==
  ASSUME NEW s \in [Users -> Secrets], NEW u \in Users, s[u] # NoSecret,
         NEW z, z = [s EXCEPT ![u] = NoSecret]
  PROVE  Revealed(s) \in Nat /\ Revealed(z) = Revealed(s) + 1
<1> DEFINE A == {x \in Users : s[x] = NoSecret}
           B == {x \in Users : z[x] = NoSecret}
<1>1. B = A \cup {u} /\ u \notin A OBVIOUS
<1>2. IsFiniteSet(A)
  <2>1. IsFiniteSet(Users) /\ A \subseteq Users BY VotingAssumption
  <2> HIDE DEF A
  <2> QED BY <2>1, FS_Subset
<1> HIDE DEF A, B
<1>3. Cardinality(A) \in Nat /\ Cardinality(B) = Cardinality(A) + 1
  BY <1>1, <1>2, FS_AddElement, FS_CardinalityType
<1> QED BY <1>3 DEF Revealed, A, B

\* A motion whose voters are not paid only has to keep its sides' stakes in bounds.
LEMMA UnpaidCompensated ==
  ASSUME NEW m, NEW secrets, m.paidVoterComp = 0,
         \A v \in Sides : m.stakes[v] <= requiredStake(m)
  PROVE  Compensated(m, secrets)
BY DEF Compensated

\* Time changes nothing about that.
LEMMA CompensatedLater ==
  ASSUME NEW m \in Motion, NEW secrets, Compensated(m, secrets)
  PROVE  Compensated(later(m), secrets)
<1>1. /\ later(m).submitEnd = ticked(m.submitEnd) /\ later(m).stakes = m.stakes
      /\ later(m).votes = m.votes /\ later(m).repSubmitted = m.repSubmitted
      /\ later(m).paidVoterComp = m.paidVoterComp /\ later(m).domainId = m.domainId
  BY LaterFields
<1>2. m.submitEnd <= 0 => ticked(m.submitEnd) <= 0
  BY PastNegative DEF Motion, ticked
<1> QED
  BY <1>1, <1>2
  DEF Compensated, PaidFor, fullyStaked, requiredStake, totalVotes, totalStake

\* Nor does finalizing it.
LEMMA CompensatedFinalized ==
  ASSUME NEW m \in Motion, NEW secrets, Compensated(m, secrets)
  PROVE  Compensated([m EXCEPT !.finalized = TRUE], secrets)
<1> DEFINE k == [m EXCEPT !.finalized = TRUE]
<1>1. /\ k.submitEnd = m.submitEnd /\ k.stakes = m.stakes
      /\ k.votes = m.votes /\ k.repSubmitted = m.repSubmitted
      /\ k.paidVoterComp = m.paidVoterComp /\ k.domainId = m.domainId
  BY DEF Motion
<1> HIDE DEF k
<1>2. Compensated(k, secrets)
  BY <1>1
  DEF Compensated, PaidFor, fullyStaked, requiredStake, totalVotes, totalStake
<1> QED BY <1>2 DEF k

\* While a motion is staked or votes are submitted, no voter has been paid.
LEMMA NobodyPaidYet ==
  ASSUME NEW m \in Motion, NEW secrets, Compensated(m, secrets),
         getMotionState(m) \in {"Staking", "Submit"}
  PROVE  m.paidVoterComp = 0
<1>1. m.paidVoterComp \in Nat /\ m.submitEnd \in Int
  BY MotionFields, PastNegative DEF Motion
<1>2. ~m.finalized BY DEF getMotionState
<1>3. CASE ~fullyStaked(m) BY <1>1, <1>3 DEF Compensated
<1>4. CASE fullyStaked(m)
  <2>1. votingState(m) \in {"Staking", "Submit"} BY <1>2, <1>4 DEF getMotionState
  <2>2. ~(m.submitEnd <= 0)
    <3>1. ASSUME m.submitEnd <= 0 PROVE FALSE
      <4>1. ~(m.submitEnd > 0) BY <1>1, <3>1
      <4>2. finalizableOrFinalized(m) \in {"Finalized", "Finalizable"}
        BY DEF finalizableOrFinalized
      <4>3. votingState(m) \in {"Reveal", "Closed", "Finalized", "Finalizable"}
        BY <4>1, <4>2 DEF votingState
      <4> QED BY <2>1, <4>3
    <3> QED BY <3>1
  <2> QED BY <1>1, <2>2 DEF Compensated
<1> QED BY <1>3, <1>4

\* Votes are revealed once the stakes are full and no vote is submitted any more.
LEMMA RevealOpen ==
  ASSUME NEW m \in Motion, getMotionState(m) = "Reveal"
  PROVE  fullyStaked(m) /\ m.submitEnd <= 0
<1>1. finalizableOrFinalized(m) # "Reveal" BY DEF finalizableOrFinalized
<1>2. m.submitEnd \in Int BY PastNegative DEF Motion
<1>3. fullyStaked(m) BY <1>1 DEF getMotionState, stakingState
<1>4. ~m.finalized BY DEF getMotionState
<1>5. votingState(m) = "Reveal" BY <1>3, <1>4 DEF getMotionState
<1>6. ~(m.submitEnd > 0) BY <1>2, <1>5 DEF votingState
<1> QED BY <1>2, <1>3, <1>6

\* A revealed vote adds its reward to what is paid and its reputation to the votes.
LEMMA CompensatedReveal ==
  ASSUME NEW m \in Motion, NEW k \in Motion, NEW secrets, NEW after, NEW rep \in Nat,
         Compensated(m, secrets), fullyStaked(m), m.submitEnd <= 0, m.repSubmitted > 0,
         Revealed(secrets) \in Nat, Revealed(after) = Revealed(secrets) + 1,
         k.stakes = m.stakes, k.domainId = m.domainId,
         k.repSubmitted = m.repSubmitted, k.submitEnd = m.submitEnd,
         k.paidVoterComp = m.paidVoterComp + getVoterReward(m, rep),
         totalVotes(k) = totalVotes(m) + rep
  PROVE  Compensated(k, after)
<1> DEFINE T == totalStake(m)
           R == m.repSubmitted
           n == Revealed(secrets)
           c == m.paidVoterComp
           r == getVoterReward(m, rep)
           V == totalVotes(m)
           f == voterRewardFraction
           w == Wad
<1>1. /\ T \in Nat /\ R \in Nat \ {0} /\ c \in Nat /\ V \in Nat /\ n \in Nat
      /\ w \in Nat \ {0} /\ f \in Nat
  <2>1. w \div 2 \in Nat BY HalfWad
  <2>2. f \in 0 .. (w \div 2) BY RulesAssumption
  <2> QED BY <2>1, <2>2, HalfWad, MotionFields
<1>2. /\ totalStake(k) = T /\ fullyStaked(k) /\ requiredStake(k) = requiredStake(m)
  BY DEF totalStake, fullyStaked, requiredStake
<1>3. /\ r \in Nat
      /\ R * (w * r) <= (f * T) * rep + R * (T + w)
      /\ rep = 0 => r = 0
  BY <1>1, VoterRewardBound DEF getVoterReward
<1>4. R * (w * c) <= (f * T) * V + (n * R) * (T + w)
  <2>1. CASE c > 0 BY <2>1 DEF Compensated, PaidFor
  <2>2. CASE c = 0
    <3>1. R * (w * 0) = 0 BY <1>1, SMT
    <3>2. (f * T) * V + (n * R) * (T + w) \in Nat
      <4> HIDE DEF T, R, n, V, f, w
      <4> QED BY <1>1, SMT
    <3> QED BY <2>2, <3>1, <3>2
  <2> QED BY <1>1, <2>1, <2>2
<1>5. R * (w * (c + r)) <= (f * T) * (V + rep) + ((n + 1) * R) * (T + w)
  <2> HIDE DEF T, R, n, c, r, V, f, w
  <2>1. /\ R * (w * (c + r)) = R * (w * c) + R * (w * r)
        /\ (f * T) * (V + rep) = (f * T) * V + (f * T) * rep
        /\ ((n + 1) * R) * (T + w) = (n * R) * (T + w) + R * (T + w)
    BY <1>1, <1>3, SMT
  <2>2. /\ R * (w * c) \in Int /\ R * (w * r) \in Int /\ (f * T) * V \in Int
        /\ (f * T) * rep \in Int /\ (n * R) * (T + w) \in Int /\ R * (T + w) \in Int
    BY <1>1, <1>3, SMT
  <2> QED BY <1>3, <1>4, <2>1, <2>2
<1>6. PaidFor(k, Revealed(after))
  BY <1>2, <1>5 DEF PaidFor
<1>7. k.paidVoterComp > 0 => totalVotes(k) > 0
  <2>1. CASE rep = 0
    <3>1. k.paidVoterComp = c + r /\ totalVotes(k) = V + rep OBVIOUS
    <3> HIDE DEF c, r, V
    <3>2. k.paidVoterComp = c /\ totalVotes(k) = V BY <1>1, <1>3, <2>1, <3>1
    <3> QED BY <3>2 DEF Compensated, c, V
  <2>2. CASE rep # 0
    <3> HIDE DEF V
    <3>1. totalVotes(k) = V + rep BY DEF V
    <3> QED BY <1>1, <2>2, <3>1
  <2> QED BY <2>1, <2>2
<1>8. \A v \in Sides : k.stakes[v] <= requiredStake(k) BY <1>2 DEF Compensated
<1>9. fullyStaked(k) /\ k.submitEnd <= 0 /\ k.repSubmitted > 0 BY <1>2
<1> QED BY <1>6, <1>7, <1>8, <1>9 DEF Compensated

\* Escalation asks for at least as much stake.
LEMMA RequiredRises ==
  ASSUME ReputationRises, NEW m \in Motion, NEW k \in Motion, NEW d \in Domains,
         m.domainId \in Descendants[d] \cup {d}, k.domainId = d
  PROVE  requiredStake(m) <= requiredStake(k)
<1>1. m.domainId \in Domains BY DEF Motion
<1>2. totalStakeFraction \in Nat BY RulesAssumption
<1>3. DomainReputation[m.domainId] \in Nat /\ DomainReputation[d] \in Nat
  BY <1>1, RulesAssumption
<1>4. DomainReputation[m.domainId] <= DomainReputation[d]
  BY <1>3 DEF ReputationRises
<1> QED BY <1>2, <1>3, <1>4, WmulMonotone DEF requiredStake

\* A step on motion i.
LEMMA OneChanged ==
  ASSUME TypeOK, NEW i \in Created, NEW k \in Motion, motions' = [motions EXCEPT ![i] = k]
  PROVE  /\ Created' = Created /\ motions'[i] = k
         /\ \A j \in Created \ {i} : motions'[j] = motions[j]
BY PutBack DEF TypeOK, Created

\* Only the motion of the step has to be looked at.
LEMMA CompensatedOneMotion ==
  ASSUME TypeOK, CompensatedAll, NEW i \in Created, NEW k \in Motion,
         motions' = [motions EXCEPT ![i] = k],
         \A j \in Created \ {i} : voteSecrets'[j] = voteSecrets[j],
         Compensated(k, voteSecrets'[i])
  PROVE  CompensatedAll'
<1>1. /\ Created' = Created /\ motions'[i] = k
      /\ \A j \in Created \ {i} : motions'[j] = motions[j]
  BY OneChanged
<1>2. ASSUME NEW j \in Created PROVE Compensated(motions'[j], voteSecrets'[j])
  <2>1. CASE j = i BY <1>1, <2>1
  <2>2. CASE j # i
    <3>1. motions'[j] = motions[j] /\ voteSecrets'[j] = voteSecrets[j] BY <1>1, <2>2
    <3>2. Compensated(motions[j], voteSecrets[j]) BY DEF CompensatedAll
    <3> QED BY <3>1, <3>2
  <2> QED BY <2>1, <2>2
<1>3. \A j \in Created' : Compensated(motions'[j], voteSecrets'[j]) BY <1>1, <1>2
<1>4. CompensatedAll' <=> \A j \in Created' : Compensated(motions'[j], voteSecrets'[j])
  BY DEF CompensatedAll, Compensated, fullyStaked, requiredStake, totalVotes, PaidFor,
         totalStake, Revealed
<1> QED BY <1>3, <1>4

\* Tick.
LEMMA CompensatedTick ==
  ASSUME TypeOK, CompensatedAll, Tick
  PROVE  CompensatedAll'
<1>1. motions' = [i \in DOMAIN motions |-> later(motions[i])] BY TickMoves
<1>2. /\ Created' = Created /\ voteSecrets' = voteSecrets
      /\ \A j \in Created : motions'[j] = later(motions[j])
  BY <1>1, TickedMotions, TickMoves DEF TypeOK, Created
<1>3. ASSUME NEW j \in Created PROVE Compensated(later(motions[j]), voteSecrets[j])
  <2>1. motions[j] \in Motion BY CreatedType
  <2>2. Compensated(motions[j], voteSecrets[j]) BY DEF CompensatedAll
  <2> QED BY <2>1, <2>2, CompensatedLater
<1>4. \A j \in Created' : Compensated(motions'[j], voteSecrets'[j]) BY <1>2, <1>3
<1>5. CompensatedAll' <=> \A j \in Created' : Compensated(motions'[j], voteSecrets'[j])
  BY DEF CompensatedAll, Compensated, fullyStaked, requiredStake, totalVotes, PaidFor,
         totalStake, Revealed
<1> QED BY <1>4, <1>5

\* CreateMotion.
LEMMA CompensatedCreate ==
  ASSUME TypeOK, CompensatedAll, NEW d \in Domains, NEW a \in Actions, CreateMotion(d, a)
  PROVE  CompensatedAll'
<1> DEFINE n == Len(motions) + 1
           m == NewMotion(d, a)
<1>1. motions' = Append(motions, m) /\ voteSecrets' = voteSecrets BY DEF CreateMotion
<1>2. m \in Motion BY NewMotionType
<1>3. \A secrets : Compensated(m, secrets)
  <2>1. m.paidVoterComp = 0 /\ \A v \in Sides : m.stakes[v] = 0
    BY DEF NewMotion, none
  <2>2. requiredStake(m) \in Nat BY <1>2, RequiredNat
  <2> HIDE DEF m
  <2> QED BY <2>1, <2>2, UnpaidCompensated
<1> HIDE DEF m
<1>4. /\ Created' = 1 .. n /\ Created = 1 .. Len(motions) /\ motions'[n] = m
      /\ \A j \in Created : motions'[j] = motions[j]
  BY <1>1, <1>2, Append1 DEF TypeOK, Created
<1>5. Created' = Created \cup {n}
  <2>1. Len(motions) \in Nat BY CreatedType
  <2> QED BY <1>4, <2>1
<1>6. \A j \in Created' : Compensated(motions'[j], voteSecrets'[j])
  BY <1>1, <1>3, <1>4, <1>5 DEF CompensatedAll
<1>7. CompensatedAll' <=> \A j \in Created' : Compensated(motions'[j], voteSecrets'[j])
  BY DEF CompensatedAll, Compensated, fullyStaked, requiredStake, totalVotes, PaidFor,
         totalStake, Revealed
<1> QED BY <1>6, <1>7

\* EscalateMotion.
LEMMA CompensatedEscalate ==
  ASSUME TypeOK, CompensatedAll, ReputationRises, NEW i \in Created, NEW d \in Domains,
         EscalateMotion(i, d)
  PROVE  CompensatedAll'
<1> DEFINE m == motions[i]
           k == escalate(m, d)
<1>1. m \in Motion /\ Compensated(m, voteSecrets[i]) BY CreatedType DEF CompensatedAll
<1>2. /\ m.domainId \in Descendants[d] \cup {d} /\ loserStake(m) >= 0
      /\ motions' = [motions EXCEPT ![i] = k] /\ voteSecrets' = voteSecrets
  BY DEF EscalateMotion
<1>3. /\ k \in Motion /\ k.domainId = d /\ k.paidVoterComp = 0
      /\ \A v \in Sides : k.stakes[v] <= m.stakes[v]
  BY <1>1, <1>2, EscalateType
<1> HIDE DEF k
<1>4. requiredStake(m) <= requiredStake(k) BY <1>1, <1>2, <1>3, RequiredRises
<1>5. \A v \in Sides : k.stakes[v] <= requiredStake(k)
  <2> TAKE v \in Sides
  <2>1. k.stakes[v] \in Nat /\ m.stakes[v] \in Nat BY <1>1, <1>3 DEF Motion
  <2>2. requiredStake(m) \in Nat /\ requiredStake(k) \in Nat BY <1>1, <1>3, RequiredNat
  <2>3. m.stakes[v] <= requiredStake(m) BY <1>1 DEF Compensated
  <2>4. k.stakes[v] <= m.stakes[v] BY <1>3
  <2> QED BY <1>4, <2>1, <2>2, <2>3, <2>4
<1>6. Compensated(k, voteSecrets'[i]) BY <1>3, <1>5, UnpaidCompensated
<1> QED BY <1>2, <1>3, <1>6, CompensatedOneMotion

\* FinalizeMotion.
LEMMA CompensatedFinalize ==
  ASSUME TypeOK, CompensatedAll, NEW i \in Created, NEW allowed, FinalizeMotion(i, allowed)
  PROVE  CompensatedAll'
<1> DEFINE m == motions[i]
           k == [m EXCEPT !.finalized = TRUE]
<1>1. m \in Motion /\ Compensated(m, voteSecrets[i]) BY CreatedType DEF CompensatedAll
<1>2. motions' = [motions EXCEPT ![i] = k] /\ voteSecrets' = voteSecrets
  BY <1>1 DEF FinalizeMotion
<1>3. k \in Motion BY <1>1 DEF Motion
<1>4. Compensated(k, voteSecrets[i]) BY <1>1, CompensatedFinalized
<1> HIDE DEF k
<1> QED BY <1>2, <1>3, <1>4, CompensatedOneMotion

\* StakeMotion.
LEMMA CompensatedStake ==
  ASSUME TypeOK, CompensatedAll, NEW i \in Created, NEW u \in Users, NEW v \in Sides,
         NEW offered \in Amounts, StakeMotion(i, u, v, offered)
  PROVE  CompensatedAll'
<1> DEFINE m == motions[i]
<1>1. m \in Motion /\ Compensated(m, voteSecrets[i]) BY CreatedType DEF CompensatedAll
<1>2. PICK n \in Nat, k \in Motion :
           /\ m.stakes[v] + n <= requiredStake(m)
           /\ motions' = [motions EXCEPT ![i] = k]
           /\ UNCHANGED voteSecrets
           /\ k.stakes = [m.stakes EXCEPT ![v] = m.stakes[v] + n]
           /\ k.paidVoterComp = m.paidVoterComp /\ k.domainId = m.domainId
  BY StakeEffect
<1>3. getMotionState(m) = "Staking" BY DEF StakeMotion, stateOf
<1> HIDE DEF m
<1>4. m.paidVoterComp = 0 BY <1>1, <1>3, NobodyPaidYet
<1>5. \A w \in Sides : k.stakes[w] <= requiredStake(k)
  <2> TAKE w \in Sides
  <2>1. m.stakes \in [Sides -> Nat] BY <1>1 DEF Motion
  <2>2. m.stakes[w] <= requiredStake(m) BY <1>1 DEF Compensated
  <2>3. requiredStake(k) = requiredStake(m) BY <1>2 DEF requiredStake
  <2>4. k.stakes[w] = IF w = v THEN m.stakes[v] + n ELSE m.stakes[w] BY <1>2, <2>1
  <2> QED BY <1>2, <2>2, <2>3, <2>4
<1>6. Compensated(k, voteSecrets'[i]) BY <1>2, <1>4, <1>5, UnpaidCompensated
<1> QED BY <1>2, <1>6, CompensatedOneMotion DEF m

\* SubmitVote.
LEMMA CompensatedSubmit ==
  ASSUME TypeOK, CompensatedAll, NEW i \in Created, NEW u \in Users, NEW v \in Sides,
         SubmitVote(i, u, v)
  PROVE  CompensatedAll'
<1> DEFINE m == motions[i]
<1>1. m \in Motion /\ Compensated(m, voteSecrets[i]) BY CreatedType DEF CompensatedAll
<1>2. PICK k \in Motion :
        /\ stateOf(i) = "Submit" /\ motions' = [motions EXCEPT ![i] = k]
        /\ k.stakes = m.stakes /\ k.paidVoterComp = m.paidVoterComp
        /\ k.domainId = m.domainId
  BY SubmitEffect
<1>3. getMotionState(m) = "Submit" BY <1>2 DEF stateOf
<1>4. \A j \in Created \ {i} : voteSecrets'[j] = voteSecrets[j]
  BY CreatedType DEF SubmitVote, TypeOK
<1> HIDE DEF m
<1>5. m.paidVoterComp = 0 BY <1>1, <1>3, NobodyPaidYet
<1>6. \A w \in Sides : k.stakes[w] <= requiredStake(k)
  BY <1>1, <1>2 DEF Compensated, requiredStake
<1>7. Compensated(k, voteSecrets'[i]) BY <1>2, <1>5, <1>6, UnpaidCompensated
<1> QED BY <1>2, <1>4, <1>7, CompensatedOneMotion

\* RevealVote.
LEMMA CompensatedRevealed ==
  ASSUME TypeOK, CompensatedAll, NEW i \in Created, NEW u \in Users, RevealVote(i, u)
  PROVE  CompensatedAll'
<1> DEFINE m == motions[i]
           rep == Reputation[m.domainId][u]
           s == voteSecrets[i]
           z == [s EXCEPT ![u] = NoSecret]
<1>1. m \in Motion /\ Compensated(m, s) /\ i \in MotionIds
  BY CreatedType DEF CompensatedAll
<1>2. PICK k \in Motion :
        /\ stateOf(i) = "Reveal" /\ m.repSubmitted > 0 /\ rep \in Nat
        /\ motions' = [motions EXCEPT ![i] = k]
        /\ k.stakes = m.stakes /\ k.domainId = m.domainId
        /\ k.repSubmitted = m.repSubmitted /\ k.submitEnd = m.submitEnd
        /\ k.paidVoterComp = m.paidVoterComp + getVoterReward(m, rep)
        /\ totalVotes(k) = totalVotes(m) + rep
  BY RevealEffect
<1>3. s \in [Users -> Secrets] /\ s[u] # NoSecret BY <1>1 DEF TypeOK, RevealVote
<1>4. voteSecrets' = [voteSecrets EXCEPT ![i][u] = NoSecret] BY DEF RevealVote
<1>5. /\ voteSecrets'[i] = z /\ \A j \in Created \ {i} : voteSecrets'[j] = voteSecrets[j]
  <2>1. Created \subseteq MotionIds BY CreatedType
  <2> QED BY <1>1, <1>4, <2>1 DEF TypeOK
<1>6. Revealed(s) \in Nat /\ Revealed(z) = Revealed(s) + 1
  <2> HIDE DEF s
  <2> QED BY <1>3, RevealedGrows
<1>7. getMotionState(m) = "Reveal" BY <1>2 DEF stateOf
<1> HIDE DEF m, rep, s, z
<1>8. fullyStaked(m) /\ m.submitEnd <= 0 BY <1>1, <1>7, RevealOpen
<1>9. Compensated(k, z) BY <1>1, <1>2, <1>6, <1>8, CompensatedReveal
<1> QED BY <1>2, <1>5, <1>9, CompensatedOneMotion

\* The steps together.
LEMMA CompensatedStep ==
  ASSUME TypeOK, CompensatedAll, ReputationRises, [Next]_vars
  PROVE  CompensatedAll'
<1>1. CASE Tick BY <1>1, CompensatedTick
<1>2. ASSUME NEW d \in Domains, NEW a \in Actions, CreateMotion(d, a)
      PROVE  CompensatedAll'
  BY <1>2, CompensatedCreate
<1>3. ASSUME NEW i \in Created, NEW d \in Domains, EscalateMotion(i, d)
      PROVE  CompensatedAll'
  BY <1>3, CompensatedEscalate
<1>4. ASSUME NEW i \in Created, NEW allowed \in BOOLEAN, FinalizeMotion(i, allowed)
      PROVE  CompensatedAll'
  BY <1>4, CompensatedFinalize
<1>5. ASSUME NEW i \in Created, NEW b \in Backers[i], NEW amount \in Amounts,
             StakeMotion(i, b[1], b[2], amount)
      PROVE  CompensatedAll'
  <2>1. b[1] \in Users /\ b[2] \in Sides BY CreatedType, BackersType
  <2> QED BY <1>5, <2>1, CompensatedStake
<1>6. CASE UNCHANGED <<motions, voteSecrets>>
  BY <1>6
  DEF CompensatedAll, Created, Compensated, fullyStaked, requiredStake, totalVotes, PaidFor,
      totalStake, Revealed
<1>7. ASSUME NEW i \in Created, NEW u \in Voters(i), NEW v \in Sides, SubmitVote(i, u, v)
      PROVE  CompensatedAll'
  <2>1. u \in Users BY CreatedType, BackersType
  <2> QED BY <1>7, <2>1, CompensatedSubmit
<1>8. ASSUME NEW i \in Created, NEW u \in Voters(i), RevealVote(i, u)
      PROVE  CompensatedAll'
  <2>1. u \in Users BY CreatedType, BackersType
  <2> QED BY <1>8, <2>1, CompensatedRevealed
<1>9. ASSUME NEW i \in Created, NEW b \in Backers[i], ClaimReward(i, b[1], b[2])
      PROVE  CompensatedAll'
  BY <1>6, <1>9 DEF ClaimReward
<1>10. CASE UNCHANGED vars BY <1>6, <1>10 DEF vars
<1> QED BY <1>1, <1>2, <1>3, <1>4, <1>5, <1>7, <1>8, <1>9, <1>10 DEF Next

-----------------------------------------------------------------------------
(* The two together.                                                       *)

\* EscalateMotion.
LEMMA CoveredEscalate ==
  ASSUME TypeOK, StakesAddUp, Outcomes, Covered, TypeOK', StakesAddUp', Outcomes',
         NEW i \in Created, NEW d \in Domains, EscalateMotion(i, d)
  PROVE  Covered'
<1> DEFINE m == motions[i]
           k == escalate(m, d)
<1>1. m \in Motion BY CreatedType
<1>2. /\ loserStake(m) >= 0 /\ ~isSettled(m) /\ motions' = [motions EXCEPT ![i] = k]
      /\ stakes' = stakes /\ deposited' = deposited
  BY DEF EscalateMotion, stateOf, isSettled
<1>3. k \in Motion /\ k.paidVoterComp = 0 /\ totalStake(k) = totalStake(m) - m.paidVoterComp
  BY <1>1, <1>2, EscalateType
<1> HIDE DEF k
<1>4. totalStake(k) - k.paidVoterComp - deposited' = totalStake(m) - m.paidVoterComp - deposited
  <2>1. /\ totalStake(m) \in Nat /\ m.paidVoterComp \in Nat /\ deposited \in Nat
        /\ totalStake(k) \in Nat
    BY <1>1, <1>3, MotionFields DEF TypeOK
  <2> HIDE DEF m
  <2> QED BY <1>2, <1>3, <2>1
<1>5. /\ Created' = Created /\ motions'[i] = k
      /\ \A j \in Created \ {i} : motions'[j] = motions[j]
  BY <1>2, <1>3, OneChanged
<1> QED BY <1>2, <1>4, <1>5, CoveredUnsettled

\* FinalizeMotion.
LEMMA CoveredFinalize ==
  ASSUME TypeOK, StakesAddUp, Outcomes, Covered, TypeOK', StakesAddUp', Outcomes',
         NEW i \in Created, NEW allowed, FinalizeMotion(i, allowed)
  PROVE  Covered'
<1> DEFINE m == motions[i]
           k == [m EXCEPT !.finalized = TRUE]
<1>1. m \in Motion BY CreatedType
<1>2. /\ ~isSettled(m) /\ motions' = [motions EXCEPT ![i] = k]
      /\ stakes' = stakes /\ deposited' = deposited
  BY <1>1 DEF FinalizeMotion, stateOf, isSettled
<1>3. k \in Motion /\ k.paidVoterComp = m.paidVoterComp /\ k.stakes = m.stakes
  BY <1>1 DEF Motion
<1> HIDE DEF k
<1>4. totalStake(k) - k.paidVoterComp - deposited' = totalStake(m) - m.paidVoterComp - deposited
  BY <1>2, <1>3 DEF totalStake
<1>5. /\ Created' = Created /\ motions'[i] = k
      /\ \A j \in Created \ {i} : motions'[j] = motions[j]
  BY <1>2, <1>3, OneChanged
<1> QED BY <1>2, <1>4, <1>5, CoveredUnsettled

\* StakeMotion.
LEMMA CoveredStake ==
  ASSUME TypeOK, StakesAddUp, Outcomes, Covered, TypeOK', StakesAddUp', Outcomes',
         NEW i \in Created, NEW u \in Users, NEW v \in Sides,
         NEW offered \in Amounts, StakeMotion(i, u, v, offered)
  PROVE  Covered'
<1> DEFINE m == motions[i]
<1>1. m \in Motion /\ i \in MotionIds /\ Created \subseteq MotionIds BY CreatedType
<1>2. PICK n \in Nat, k \in Motion :
           /\ ~isSettled(m)
           /\ motions' = [motions EXCEPT ![i] = k]
           /\ stakes' = [stakes EXCEPT ![i] = [stakes[i] EXCEPT ![u][v] = stakes[i][u][v] + n]]
           /\ deposited' = deposited + n
           /\ k.stakes = [m.stakes EXCEPT ![v] = m.stakes[v] + n]
           /\ k.paidVoterComp = m.paidVoterComp
  BY StakeEffect
<1>3. \A j \in Created \ {i} : stakes'[j] = stakes[j] BY <1>1, <1>2 DEF TypeOK
<1>4. totalStake(k) = totalStake(m) + n
  <2> HIDE DEF m
  <2>1. NAY \in Sides /\ YAY \in Sides /\ NAY # YAY /\ (v = NAY \/ v = YAY)
    BY DEF Sides, NAY, YAY
  <2>2. m.stakes \in [Sides -> Nat] BY <1>1 DEF Motion
  <2>3. k.stakes[NAY] + k.stakes[YAY] = m.stakes[NAY] + m.stakes[YAY] + n
    BY <1>2, <2>1, <2>2
  <2> QED BY <2>3 DEF totalStake
<1>5. totalStake(k) - k.paidVoterComp - deposited' = totalStake(m) - m.paidVoterComp - deposited
  <2>1. totalStake(m) \in Nat /\ m.paidVoterComp \in Nat /\ deposited \in Nat
    BY <1>1, MotionFields DEF TypeOK
  <2> HIDE DEF m
  <2> QED BY <1>2, <1>4, <2>1
<1>6. /\ Created' = Created /\ motions'[i] = k
      /\ \A j \in Created \ {i} : motions'[j] = motions[j]
  BY <1>2, OneChanged
<1> QED BY <1>2, <1>3, <1>5, <1>6, CoveredUnsettled

\* SubmitVote.
LEMMA CoveredSubmit ==
  ASSUME TypeOK, StakesAddUp, Outcomes, Covered, TypeOK', StakesAddUp', Outcomes',
         NEW i \in Created, NEW u \in Users, NEW v \in Sides, SubmitVote(i, u, v)
  PROVE  Covered'
<1> DEFINE m == motions[i]
<1>1. PICK k \in Motion :
        /\ stateOf(i) = "Submit" /\ motions' = [motions EXCEPT ![i] = k]
        /\ k.stakes = m.stakes /\ k.paidVoterComp = m.paidVoterComp
  BY SubmitEffect
<1>2. stakes' = stakes /\ deposited' = deposited BY DEF SubmitVote
<1>3. ~isSettled(m) BY <1>1 DEF stateOf, isSettled
<1>4. totalStake(k) - k.paidVoterComp - deposited' = totalStake(m) - m.paidVoterComp - deposited
  BY <1>1, <1>2 DEF totalStake
<1>5. /\ Created' = Created /\ motions'[i] = k
      /\ \A j \in Created \ {i} : motions'[j] = motions[j]
  BY <1>1, OneChanged
<1> QED BY <1>2, <1>3, <1>4, <1>5, CoveredUnsettled

\* RevealVote.
LEMMA CoveredReveal ==
  ASSUME TypeOK, StakesAddUp, Outcomes, Covered, TypeOK', StakesAddUp', Outcomes',
         NEW i \in Created, NEW u \in Users, RevealVote(i, u)
  PROVE  Covered'
<1> DEFINE m == motions[i]
           reward == getVoterReward(m, Reputation[m.domainId][u])
<1>1. PICK k \in Motion :
        /\ stateOf(i) = "Reveal" /\ reward \in Nat /\ deposited' = deposited - reward
        /\ motions' = [motions EXCEPT ![i] = k]
        /\ k.stakes = m.stakes /\ k.paidVoterComp = m.paidVoterComp + reward
  BY RevealEffect
<1> HIDE DEF reward
<1>2. stakes' = stakes BY DEF RevealVote
<1>3. ~isSettled(m) BY <1>1 DEF stateOf, isSettled
<1>4. totalStake(k) - k.paidVoterComp - deposited' = totalStake(m) - m.paidVoterComp - deposited
  <2>1. totalStake(m) \in Nat /\ m.paidVoterComp \in Nat /\ deposited \in Nat
    BY CreatedType, MotionFields DEF TypeOK
  <2>2. totalStake(k) = totalStake(m) BY <1>1 DEF totalStake
  <2> HIDE DEF m
  <2> QED BY <1>1, <2>1, <2>2
<1>5. /\ Created' = Created /\ motions'[i] = k
      /\ \A j \in Created \ {i} : motions'[j] = motions[j]
  BY <1>1, OneChanged
<1> QED BY <1>2, <1>3, <1>4, <1>5, CoveredUnsettled

\* The steps together.
LEMMA CoveredStep ==
  ASSUME TypeOK, StakesAddUp, Outcomes, Covered, TypeOK', StakesAddUp', Outcomes', [Next]_vars
  PROVE  Covered'
<1>1. CASE Tick BY <1>1, CoveredTick
<1>2. ASSUME NEW d \in Domains, NEW a \in Actions, CreateMotion(d, a)
      PROVE  Covered'
  BY <1>2, CoveredCreate
<1>3. ASSUME NEW i \in Created, NEW d \in Domains, EscalateMotion(i, d)
      PROVE  Covered'
  BY <1>3, CoveredEscalate
<1>4. ASSUME NEW i \in Created, NEW allowed \in BOOLEAN, FinalizeMotion(i, allowed)
      PROVE  Covered'
  BY <1>4, CoveredFinalize
<1>5. ASSUME NEW i \in Created, NEW b \in Backers[i], NEW amount \in Amounts,
             StakeMotion(i, b[1], b[2], amount)
      PROVE  Covered'
  <2>1. b[1] \in Users /\ b[2] \in Sides BY CreatedType, BackersType
  <2> QED BY <1>5, <2>1, CoveredStake
<1>6. ASSUME NEW i \in Created, NEW b \in Backers[i], ClaimReward(i, b[1], b[2])
      PROVE  Covered'
  <2>1. b[1] \in Users /\ b[2] \in Sides BY CreatedType, BackersType
  <2> QED BY <1>6, <2>1, CoveredClaim
<1>7. ASSUME NEW i \in Created, NEW u \in Voters(i), NEW v \in Sides, SubmitVote(i, u, v)
      PROVE  Covered'
  <2>1. u \in Users BY CreatedType, BackersType
  <2> QED BY <1>7, <2>1, CoveredSubmit
<1>8. ASSUME NEW i \in Created, NEW u \in Voters(i), RevealVote(i, u)
      PROVE  Covered'
  <2>1. u \in Users BY CreatedType, BackersType
  <2> QED BY <1>8, <2>1, CoveredReveal
<1>9. CASE UNCHANGED vars
  <2>1. motions' = motions /\ stakes' = stakes /\ deposited' = deposited BY <1>9 DEF vars
  <2>2. Created' = Created BY <2>1 DEF Created
  <2>3. Covered' <=> SumFunction([i \in Created |-> Net(motions'[i], stakes'[i])]) <= deposited'
    BY <2>2 DEF Covered
  <2> QED BY <2>1, <2>3 DEF Covered
<1> QED BY <1>1, <1>2, <1>3, <1>4, <1>5, <1>6, <1>7, <1>8, <1>9 DEF Next

\* Nothing is owed before the first motion.
LEMMA CoveredInit == Init => CompensatedAll /\ Covered
<1> SUFFICES ASSUME Init PROVE CompensatedAll /\ Covered OBVIOUS
<1>1. Created = {} /\ deposited = 0 BY DEF Init, Created
<1>2. CompensatedAll BY <1>1 DEF CompensatedAll
<1> DEFINE f == [i \in Created |-> Net(motions[i], stakes[i])]
<1>3. SumFunction(f) = SumFunctionOnSet(f, {}) BY <1>1 DEF SumFunction
<1>4. SumFunctionOnSet(f, {}) = 0 BY SumEmpty
<1>5. Covered BY <1>1, <1>3, <1>4 DEF Covered
<1> QED BY <1>2, <1>5

\* What a motion owes is what Covered counts and what rounding may add.
LEMMA OwedByNet ==
  ASSUME TypeOK, StakesAddUp, Outcomes, NEW i \in Created
  PROVE  /\ owed(i) \in Int /\ rounding(i) \in Nat
         /\ owed(i) <= Net(motions[i], stakes[i]) + rounding(i)
<1> DEFINE m == motions[i]
           t == stakes[i]
<1>1. m \in Motion /\ t \in Stakings /\ Within(m, t) BY FitsWithin
<1>2. rounding(i) = Loose(m) /\ Loose(m) \in Nat BY <1>1, LooseNat DEF rounding, Loose
<1>3. Net(m, t) \in Int BY NetsInt
<1>4. CASE isSettled(m)
  <2>1. \A v \in Sides : SumFunction(Claims(m, t, v)) \in Int
    BY <1>1, <1>4, ClaimsInt DEF Outcomes
  <2>2. \A v \in Sides : owedTo(i, v) = SumFunction(Claims(m, t, v))
    BY DEF owedTo, Claims, rewardOf
  <2>3. NAY \in Sides /\ YAY \in Sides BY DEF Sides
  <2> DEFINE a == SumFunction(Claims(m, t, NAY))
             b == SumFunction(Claims(m, t, YAY))
  <2>4. a \in Int /\ b \in Int BY <2>1, <2>3
  <2>5. owed(i) = a + b BY <1>4, <2>2, <2>3 DEF owed
  <2>6. Net(m, t) = a + b - Loose(m) BY <1>4 DEF Net
  <2> HIDE DEF a, b, m, t
  <2> QED BY <1>2, <1>3, <2>4, <2>5, <2>6 DEF m, t
<1>5. CASE ~isSettled(m)
  <2>1. owed(i) = totalStake(m) - m.paidVoterComp /\ Net(m, t) = totalStake(m) - m.paidVoterComp
    BY <1>5 DEF owed, Net
  <2> HIDE DEF m, t
  <2> QED BY <1>2, <1>3, <2>1 DEF m, t
<1> QED BY <1>4, <1>5

-----------------------------------------------------------------------------
(* A vote is counted in its turnout.                                       *)

\* The reputation behind the secrets still to be revealed.
Pending(d, secrets) ==
    SumFunction([u \in Users |-> IF secrets[u] = NoSecret THEN 0 ELSE Reputation[d][u]])

\* What is revealed and what may be were submitted; and without a vote going on
\* there are no secrets.
TurnoutRight(m, secrets) ==
    /\ totalVotes(m) + Pending(m.domainId, secrets) <= m.repSubmitted
    /\ ~fullyStaked(m) => \A u \in Users : secrets[u] = NoSecret

\* A motion escalated with a secret unrevealed is forgotten about.
Turnout == \A i \in Created : i \notin carriedSecrets => TurnoutRight(motions[i], voteSecrets[i])

\* Nobody has less than no reputation, and without secrets nothing is pending.
LEMMA PendingNat ==
  ASSUME NEW d \in Domains, NEW s \in [Users -> Secrets]
  PROVE  /\ Pending(d, s) \in Nat
         /\ (\A u \in Users : s[u] = NoSecret) => Pending(d, s) = 0
<1> DEFINE f == [u \in Users |-> IF s[u] = NoSecret THEN 0 ELSE Reputation[d][u]]
<1>1. IsFiniteSet(Users) BY VotingAssumption
<1>2. \A u \in Users : f[u] \in Nat BY VotingAssumption
<1>3. Pending(d, s) = SumFunctionOnSet(f, Users) BY DEF Pending, SumFunction
<1>4. (\A u \in Users : s[u] = NoSecret) => \A u \in Users : f[u] = 0 OBVIOUS
<1> HIDE DEF f
<1> QED BY <1>1, <1>2, <1>3, <1>4, SumNat, SumZero

\* A secret submitted or revealed changes the sum by its sender's reputation.
LEMMA PendingPut ==
  ASSUME NEW d \in Domains, NEW s \in [Users -> Secrets], NEW u \in Users,
         NEW x \in Secrets, NEW z, z = [s EXCEPT ![u] = x]
  PROVE  /\ z \in [Users -> Secrets]
         /\ Pending(d, z) = Pending(d, s)
              - (IF s[u] = NoSecret THEN 0 ELSE Reputation[d][u])
              + (IF x = NoSecret THEN 0 ELSE Reputation[d][u])
<1> DEFINE f == [y \in Users |-> IF s[y] = NoSecret THEN 0 ELSE Reputation[d][y]]
           g == [y \in Users |-> IF z[y] = NoSecret THEN 0 ELSE Reputation[d][y]]
<1>1. IsFiniteSet(Users) BY VotingAssumption
<1>2. z \in [Users -> Secrets] /\ z[u] = x /\ \A y \in Users : y # u => z[y] = s[y] OBVIOUS
<1>3. \A y \in Users : f[y] \in Int /\ g[y] \in Int BY VotingAssumption
<1>4. \A y \in Users : y # u => g[y] = f[y] BY <1>2
<1>5. Pending(d, s) = SumFunctionOnSet(f, Users) /\ Pending(d, z) = SumFunctionOnSet(g, Users)
  BY DEF Pending, SumFunction
<1>6. /\ f[u] = IF s[u] = NoSecret THEN 0 ELSE Reputation[d][u]
      /\ g[u] = IF x = NoSecret THEN 0 ELSE Reputation[d][u]
  BY <1>2
<1> HIDE DEF f, g
<1>7. SumFunctionOnSet(g, Users) = SumFunctionOnSet(f, Users) - f[u] + g[u]
  BY <1>1, <1>3, <1>4, SumChange
<1> QED BY <1>2, <1>5, <1>6, <1>7

\* Only the motion of the step has to be looked at.
LEMMA TurnoutOneMotion ==
  ASSUME TypeOK, Turnout, NEW i \in Created, NEW k \in Motion,
         motions' = [motions EXCEPT ![i] = k],
         \A j \in Created \ {i} : voteSecrets'[j] = voteSecrets[j],
         carriedSecrets \subseteq carriedSecrets',
         i \notin carriedSecrets' => TurnoutRight(k, voteSecrets'[i])
  PROVE  Turnout'
<1>1. /\ Created' = Created /\ motions'[i] = k
      /\ \A j \in Created \ {i} : motions'[j] = motions[j]
  BY OneChanged
<1>2. ASSUME NEW j \in Created, j \notin carriedSecrets'
      PROVE  TurnoutRight(motions'[j], voteSecrets'[j])
  <2>1. CASE j = i BY <1>1, <1>2, <2>1
  <2>2. CASE j # i
    <3>1. motions'[j] = motions[j] /\ voteSecrets'[j] = voteSecrets[j] BY <1>1, <2>2
    <3>2. TurnoutRight(motions[j], voteSecrets[j]) BY <1>2 DEF Turnout
    <3> QED BY <3>1, <3>2
  <2> QED BY <2>1, <2>2
<1>3. Turnout' <=> \A j \in Created' : j \notin carriedSecrets' =>
                       TurnoutRight(motions'[j], voteSecrets'[j])
  BY DEF Turnout, TurnoutRight, Pending, totalVotes, fullyStaked, requiredStake
<1> QED BY <1>1, <1>2, <1>3

\* A step that leaves the books of every motion that exists as they are.
LEMMA TurnoutKept ==
  ASSUME TypeOK, Turnout, UNCHANGED <<voteSecrets, carriedSecrets>>,
         \A j \in Created' :
             \/ /\ j \in Created
                /\ motions'[j].votes = motions[j].votes
                /\ motions'[j].repSubmitted = motions[j].repSubmitted
                /\ motions'[j].stakes = motions[j].stakes
                /\ motions'[j].domainId = motions[j].domainId
             \/ TurnoutRight(motions'[j], voteSecrets[j])
  PROVE  Turnout'
<1>1. ASSUME NEW j \in Created', j \notin carriedSecrets
      PROVE  TurnoutRight(motions'[j], voteSecrets[j])
  BY <1>1 DEF Turnout, TurnoutRight, totalVotes, fullyStaked, requiredStake
<1>2. Turnout' <=> \A j \in Created' : j \notin carriedSecrets' =>
                       TurnoutRight(motions'[j], voteSecrets'[j])
  BY DEF Turnout, TurnoutRight, Pending, totalVotes, fullyStaked, requiredStake
<1> QED BY <1>1, <1>2

\* Tick.
LEMMA TurnoutTick ==
  ASSUME TypeOK, Turnout, Tick
  PROVE  Turnout'
<1>1. motions' = [i \in DOMAIN motions |-> later(motions[i])]
      /\ UNCHANGED <<voteSecrets, carriedSecrets>>
  BY TickMoves
<1>2. Created' = Created /\ \A j \in Created : motions'[j] = later(motions[j])
  BY <1>1, TickedMotions DEF TypeOK, Created
<1>3. \A j \in Created :
        /\ motions'[j].votes = motions[j].votes
        /\ motions'[j].repSubmitted = motions[j].repSubmitted
        /\ motions'[j].stakes = motions[j].stakes
        /\ motions'[j].domainId = motions[j].domainId
  BY <1>2, CreatedType, LaterFields
<1> QED BY <1>1, <1>2, <1>3, TurnoutKept

\* CreateMotion.
LEMMA TurnoutCreate ==
  ASSUME TypeOK, Turnout, NEW d \in Domains, NEW a \in Actions, CreateMotion(d, a)
  PROVE  Turnout'
<1> DEFINE n == Len(motions) + 1
           m == NewMotion(d, a)
<1>1. /\ motions' = Append(motions, m) /\ UNCHANGED <<voteSecrets, carriedSecrets>>
      /\ Len(motions) < MaxMotions
  BY DEF CreateMotion
<1>2. m \in Motion /\ m.domainId = d /\ totalVotes(m) = 0 /\ m.repSubmitted = 0
  BY NewMotionType DEF NewMotion, totalVotes, none, Sides, NAY, YAY
<1> HIDE DEF m
<1>3. /\ Created' = 1 .. n /\ Created = 1 .. Len(motions) /\ motions'[n] = m
      /\ \A j \in Created : motions'[j] = motions[j]
  BY <1>1, <1>2, Append1 DEF TypeOK, Created
<1>4. Created' = Created \cup {n} /\ n \in MotionIds \ Created
  <2>1. Len(motions) \in Nat /\ MaxMotions \in Nat BY CreatedType, VotingAssumption
  <2> QED BY <1>1, <1>3, <2>1 DEF MotionIds
<1>5. TurnoutRight(m, voteSecrets[n])
  <2>1. /\ voteSecrets[n] \in [Users -> Secrets]
        /\ \A u \in Users : voteSecrets[n][u] = NoSecret
    BY <1>4 DEF TypeOK
  <2>2. Pending(d, voteSecrets[n]) = 0 BY <2>1, PendingNat
  <2> QED BY <1>2, <2>1, <2>2 DEF TurnoutRight
<1> QED BY <1>1, <1>3, <1>4, <1>5, TurnoutKept

\* EscalateMotion: without secrets nothing is pending in any domain.
LEMMA TurnoutEscalate ==
  ASSUME TypeOK, Turnout, NEW i \in Created, NEW d \in Domains, EscalateMotion(i, d)
  PROVE  Turnout'
<1> DEFINE m == motions[i]
           k == escalate(m, d)
           s == voteSecrets[i]
<1>1. m \in Motion /\ i \in MotionIds /\ s \in [Users -> Secrets]
  BY CreatedType DEF TypeOK
<1>2. /\ motions' = [motions EXCEPT ![i] = k] /\ voteSecrets' = voteSecrets
      /\ carriedSecrets \subseteq carriedSecrets'
      /\ (\E u \in Users : s[u] # NoSecret) => i \in carriedSecrets'
      /\ loserStake(m) >= 0
  BY DEF EscalateMotion
<1>3. /\ k \in Motion /\ k.domainId = d
      /\ k.votes = m.votes /\ k.repSubmitted = m.repSubmitted
  BY <1>1, <1>2, EscalateType
<1> HIDE DEF k
<1>4. ASSUME i \notin carriedSecrets' PROVE TurnoutRight(k, s)
  <2>1. \A u \in Users : s[u] = NoSecret BY <1>2, <1>4
  <2>2. TurnoutRight(m, s) BY <1>2, <1>4 DEF Turnout
  <2>3. Pending(d, s) = 0 /\ Pending(m.domainId, s) = 0
    <3>1. m.domainId \in Domains BY <1>1 DEF Motion
    <3> QED BY <1>1, <2>1, <3>1, PendingNat
  <2>4. totalVotes(k) = totalVotes(m) BY <1>3 DEF totalVotes
  <2> QED BY <1>3, <2>1, <2>2, <2>3, <2>4 DEF TurnoutRight
<1> QED BY <1>2, <1>3, <1>4, TurnoutOneMotion

\* FinalizeMotion.
LEMMA TurnoutFinalize ==
  ASSUME TypeOK, Turnout, NEW i \in Created, NEW allowed, FinalizeMotion(i, allowed)
  PROVE  Turnout'
<1> DEFINE m == motions[i]
           k == [m EXCEPT !.finalized = TRUE]
<1>1. m \in Motion BY CreatedType
<1>2. motions' = [motions EXCEPT ![i] = k] /\ UNCHANGED <<voteSecrets, carriedSecrets>>
  BY DEF FinalizeMotion
<1>3. /\ k \in Motion /\ k.votes = m.votes /\ k.repSubmitted = m.repSubmitted
      /\ k.stakes = m.stakes /\ k.domainId = m.domainId
  BY <1>1 DEF Motion
<1> HIDE DEF k
<1>4. TurnoutRight(m, voteSecrets[i]) => TurnoutRight(k, voteSecrets[i])
  BY <1>3 DEF TurnoutRight, totalVotes, fullyStaked, requiredStake
<1> QED BY <1>2, <1>3, <1>4, TurnoutOneMotion DEF Turnout

\* StakeMotion: no vote is going on, so there are no secrets.
LEMMA TurnoutStake ==
  ASSUME TypeOK, Turnout, NEW i \in Created, NEW u \in Users, NEW v \in Sides,
         NEW offered \in Amounts, StakeMotion(i, u, v, offered)
  PROVE  Turnout'
<1> DEFINE m == motions[i]
<1>1. PICK n \in Nat, k \in Motion :
           /\ motions' = [motions EXCEPT ![i] = k]
           /\ UNCHANGED <<voteSecrets, carriedSecrets>>
           /\ k.stakes = [m.stakes EXCEPT ![v] = m.stakes[v] + n]
           /\ k.domainId = m.domainId
           /\ \/ totalVotes(k) = totalVotes(m) /\ k.repSubmitted = m.repSubmitted
              \/ totalVotes(k) = 0
  BY StakeEffect
<1> DEFINE s == voteSecrets[i]
<1>2. m \in Motion /\ i \in MotionIds /\ s \in [Users -> Secrets]
  BY CreatedType DEF TypeOK
<1>3. ~fullyStaked(m)
  <2>1. getMotionState(m) = "Staking" BY DEF StakeMotion, stateOf
  <2>2. votingState(m) # "Staking" BY DEF votingState, finalizableOrFinalized
  <2> QED BY <2>1, <2>2 DEF getMotionState
<1> HIDE DEF m
<1>4. ASSUME i \notin carriedSecrets PROVE TurnoutRight(k, s)
  <2>1. TurnoutRight(m, s) BY <1>4 DEF Turnout, m
  <2>2. \A x \in Users : s[x] = NoSecret BY <1>3, <2>1 DEF TurnoutRight
  <2>3. Pending(k.domainId, s) = 0
    <3>1. k.domainId \in Domains BY DEF Motion
    <3> QED BY <1>2, <2>2, <3>1, PendingNat
  <2>4. k.repSubmitted \in Nat BY DEF Motion
  <2>5. totalVotes(k) + 0 <= k.repSubmitted
    BY <1>1, <2>1, <2>3, <2>4 DEF TurnoutRight
  <2> QED BY <2>2, <2>3, <2>5 DEF TurnoutRight
<1> QED BY <1>1, <1>4, TurnoutOneMotion

\* SubmitVote: whoever submits a first secret is counted.
LEMMA TurnoutSubmit ==
  ASSUME TypeOK, Turnout, NEW i \in Created, NEW u \in Users, NEW v \in Sides,
         SubmitVote(i, u, v)
  PROVE  Turnout'
<1> DEFINE m == motions[i]
           s == voteSecrets[i]
           z == [s EXCEPT ![u] = v]
           rep == Reputation[m.domainId][u]
           d == m.domainId
<1>1. /\ m \in Motion /\ i \in MotionIds /\ s \in [Users -> Secrets] /\ d \in Domains
  BY CreatedType DEF TypeOK, Motion
<1>2. PICK k \in Motion :
        /\ stateOf(i) = "Submit" /\ rep \in Nat
        /\ motions' = [motions EXCEPT ![i] = k]
        /\ totalVotes(k) = totalVotes(m)
        /\ k.repSubmitted = m.repSubmitted + (IF s[u] = NoSecret THEN rep ELSE 0)
        /\ k.stakes = m.stakes /\ k.domainId = d
  BY SubmitEffect
<1>3. voteSecrets' = [voteSecrets EXCEPT ![i][u] = v] /\ carriedSecrets' = carriedSecrets
  BY DEF SubmitVote
<1>4. voteSecrets'[i] = z /\ \A j \in Created \ {i} : voteSecrets'[j] = voteSecrets[j]
  <2>1. Created \subseteq MotionIds BY CreatedType
  <2> QED BY <1>1, <1>3, <2>1 DEF TypeOK
<1>5. v \in Secrets /\ v # NoSecret BY DEF Secrets, Sides, NAY, YAY, NoSecret
<1>6. Pending(d, z) = Pending(d, s) - (IF s[u] = NoSecret THEN 0 ELSE rep) + rep
  BY <1>1, <1>5, PendingPut
<1>7. fullyStaked(m)
  <2>1. getMotionState(m) = "Submit" BY <1>2 DEF stateOf
  <2>2. stakingState(m) # "Submit" BY DEF stakingState, finalizableOrFinalized
  <2> QED BY <2>1, <2>2 DEF getMotionState
<1>8. fullyStaked(k) BY <1>2, <1>7 DEF fullyStaked, requiredStake
<1>9. /\ Pending(d, s) \in Nat /\ totalVotes(m) \in Nat /\ m.repSubmitted \in Nat
  BY <1>1, PendingNat, MotionFields DEF Motion
<1> HIDE DEF m, s, z, rep, d
<1>10. ASSUME i \notin carriedSecrets' PROVE TurnoutRight(k, z)
  <2>1. totalVotes(m) + Pending(d, s) <= m.repSubmitted
    BY <1>3, <1>10 DEF Turnout, TurnoutRight, m, s, d
  <2>2. totalVotes(k) + Pending(d, z) <= k.repSubmitted
    BY <1>2, <1>6, <1>9, <2>1
  <2> QED BY <1>2, <1>8, <2>2 DEF TurnoutRight
<1> QED BY <1>2, <1>3, <1>4, <1>10, TurnoutOneMotion DEF z

\* RevealVote: what was pending is a vote.
LEMMA TurnoutReveal ==
  ASSUME TypeOK, Turnout, NEW i \in Created, NEW u \in Users, RevealVote(i, u)
  PROVE  Turnout'
<1> DEFINE m == motions[i]
           s == voteSecrets[i]
           z == [s EXCEPT ![u] = NoSecret]
           rep == Reputation[m.domainId][u]
           d == m.domainId
<1>1. /\ m \in Motion /\ i \in MotionIds /\ s \in [Users -> Secrets] /\ d \in Domains
  BY CreatedType DEF TypeOK, Motion
<1>2. PICK k \in Motion :
        /\ stateOf(i) = "Reveal" /\ rep \in Nat
        /\ motions' = [motions EXCEPT ![i] = k]
        /\ k.stakes = m.stakes /\ k.domainId = d /\ k.repSubmitted = m.repSubmitted
        /\ totalVotes(k) = totalVotes(m) + rep
  BY RevealEffect
<1>3. /\ voteSecrets' = [voteSecrets EXCEPT ![i][u] = NoSecret]
      /\ carriedSecrets' = carriedSecrets /\ s[u] # NoSecret
  BY DEF RevealVote
<1>4. voteSecrets'[i] = z /\ \A j \in Created \ {i} : voteSecrets'[j] = voteSecrets[j]
  <2>1. Created \subseteq MotionIds BY CreatedType
  <2> QED BY <1>1, <1>3, <2>1 DEF TypeOK
<1>5. Pending(d, z) = Pending(d, s) - rep + 0
  <2>1. NoSecret \in Secrets BY DEF Secrets
  <2> QED BY <1>1, <1>3, <2>1, PendingPut
<1>6. getMotionState(m) = "Reveal" BY <1>2 DEF stateOf
<1>7. fullyStaked(k)
  <2>1. fullyStaked(m)
    <3> HIDE DEF m
    <3> QED BY <1>1, <1>6, RevealOpen
  <2> QED BY <1>2, <2>1 DEF fullyStaked, requiredStake
<1>8. /\ Pending(d, s) \in Nat /\ totalVotes(m) \in Nat /\ m.repSubmitted \in Nat
  BY <1>1, PendingNat, MotionFields DEF Motion
<1> HIDE DEF m, s, z, rep, d
<1>9. ASSUME i \notin carriedSecrets' PROVE TurnoutRight(k, z)
  <2>1. totalVotes(m) + Pending(d, s) <= m.repSubmitted
    BY <1>3, <1>9 DEF Turnout, TurnoutRight, m, s, d
  <2>2. totalVotes(k) + Pending(d, z) <= k.repSubmitted
    BY <1>2, <1>5, <1>8, <2>1
  <2> QED BY <1>2, <1>7, <2>2 DEF TurnoutRight
<1> QED BY <1>2, <1>3, <1>4, <1>9, TurnoutOneMotion DEF z

\* The steps together.
LEMMA TurnoutStep ==
  ASSUME TypeOK, Turnout, [Next]_vars
  PROVE  Turnout'
<1>1. CASE Tick BY <1>1, TurnoutTick
<1>2. ASSUME NEW d \in Domains, NEW a \in Actions, CreateMotion(d, a)
      PROVE  Turnout'
  BY <1>2, TurnoutCreate
<1>3. ASSUME NEW i \in Created, NEW d \in Domains, EscalateMotion(i, d)
      PROVE  Turnout'
  BY <1>3, TurnoutEscalate
<1>4. ASSUME NEW i \in Created, NEW allowed \in BOOLEAN, FinalizeMotion(i, allowed)
      PROVE  Turnout'
  BY <1>4, TurnoutFinalize
<1>5. ASSUME NEW i \in Created, NEW b \in Backers[i], NEW amount \in Amounts,
             StakeMotion(i, b[1], b[2], amount)
      PROVE  Turnout'
  <2>1. b[1] \in Users /\ b[2] \in Sides BY CreatedType, BackersType
  <2> QED BY <1>5, <2>1, TurnoutStake
<1>6. ASSUME NEW i \in Created, NEW u \in Voters(i), NEW v \in Sides, SubmitVote(i, u, v)
      PROVE  Turnout'
  <2>1. u \in Users BY CreatedType, BackersType
  <2> QED BY <1>6, <2>1, TurnoutSubmit
<1>7. ASSUME NEW i \in Created, NEW u \in Voters(i), RevealVote(i, u)
      PROVE  Turnout'
  <2>1. u \in Users BY CreatedType, BackersType
  <2> QED BY <1>7, <2>1, TurnoutReveal
<1>8. CASE UNCHANGED <<motions, voteSecrets, carriedSecrets>>
  <2>1. \A j \in Created' : /\ j \in Created /\ motions'[j] = motions[j]
    BY <1>8 DEF Created
  <2> QED BY <1>8, <2>1, TurnoutKept
<1>9. ASSUME NEW i \in Created, NEW b \in Backers[i], ClaimReward(i, b[1], b[2])
      PROVE  Turnout'
  BY <1>8, <1>9 DEF ClaimReward
<1>10. CASE UNCHANGED vars BY <1>8, <1>10 DEF vars
<1> QED BY <1>1, <1>2, <1>3, <1>4, <1>5, <1>6, <1>7, <1>9, <1>10 DEF Next

-----------------------------------------------------------------------------
(* Rewards can be paid.                                                    *)

\* All motions had their voters counted, and were won by more than rounding.
Regular == \A i \in Created : isRegular(i)

\* A regular motion that is settled has a sound outcome.
LEMMA RegularDivisible ==
  ASSUME CompensationFits, TypeOK, CompensatedAll, Turnout,
         NEW i \in Created, isRegular(i), isSettled(motions[i])
  PROVE  Divisible(motions[i])
<1> DEFINE m == motions[i]
<1>1. m \in Motion /\ voteSecrets[i] \in [Users -> Secrets] BY CreatedType DEF TypeOK
<1>2. Compensated(m, voteSecrets[i]) BY DEF CompensatedAll
<1>3. CASE totalVotes(m) > 0
  <2>1. /\ totalVotes(m) + Pending(m.domainId, voteSecrets[i]) <= m.repSubmitted
        /\ \A v \in Sides : hasWon(m, v) <=> v # loserOf(m)
    BY <1>3 DEF isRegular, isDecisive, Turnout, TurnoutRight
  <2>2. totalVotes(m) <= m.repSubmitted
    <3>1. Pending(m.domainId, voteSecrets[i]) \in Nat BY <1>1, PendingNat DEF Motion
    <3>2. totalVotes(m) \in Nat /\ m.repSubmitted \in Nat BY <1>1, MotionFields DEF Motion
    <3> HIDE DEF m
    <3> QED BY <2>1, <3>1, <3>2
  <2>3. loserStake(m) >= 0 BY <1>1, <1>2, <2>2, LoserCovers
  <2> QED BY <1>3, <2>1, <2>3 DEF Divisible
<1>4. CASE ~(totalVotes(m) > 0)
  <2>1. ~(m.paidVoterComp > 0) BY <1>2, <1>4 DEF Compensated
  <2>2. m.paidVoterComp \in Nat BY <1>1, MotionFields
  <2> QED BY <1>4, <2>1, <2>2 DEF Divisible
<1> QED BY <1>3, <1>4

LEMMA RegularOutcomes ==
  CompensationFits /\ TypeOK /\ CompensatedAll /\ Turnout /\ Regular => Outcomes
BY RegularDivisible DEF Regular, Outcomes

\* Motions that are not regular stay so.
LEMMA RegularBefore ==
  ASSUME TypeOK, StakesAddUp, [Next]_vars, Regular'
  PROVE  Regular
<1>1. carriedSecrets \subseteq carriedSecrets'
  <2>1. CASE Next
    <3>1. Tick => carriedSecrets' = carriedSecrets BY TickMoves
    <3>2. \A d \in Domains, a \in Actions :
            CreateMotion(d, a) => carriedSecrets' = carriedSecrets
      BY DEF CreateMotion
    <3>3. \A i \in Created, d \in Domains :
            EscalateMotion(i, d) => carriedSecrets \subseteq carriedSecrets'
      BY DEF EscalateMotion
    <3>4. \A i \in Created, allowed \in BOOLEAN :
            FinalizeMotion(i, allowed) => carriedSecrets' = carriedSecrets
      BY DEF FinalizeMotion
    <3>5. \A i \in Created : \A u, v, amount :
            \/ StakeMotion(i, u, v, amount) \/ ClaimReward(i, u, v) \/ SubmitVote(i, u, v)
            \/ RevealVote(i, u)
            => carriedSecrets' = carriedSecrets
      BY DEF StakeMotion, ClaimReward, SubmitVote, RevealVote
    <3> QED BY <2>1, <3>1, <3>2, <3>3, <3>4, <3>5, Zenon DEF Next
  <2>2. CASE UNCHANGED vars BY <2>2 DEF vars
  <2> QED BY <2>1, <2>2
<1>2. Untouched
  <2>1. CASE Next BY <2>1, EveryStep DEF Achieves
  <2>2. CASE UNCHANGED vars
    <3>1. motions' = motions /\ stakes' = stakes BY <2>2 DEF vars
    <3> QED BY <3>1 DEF Untouched, Created
  <2> QED BY <2>1, <2>2
<1>3. ASSUME NEW i \in Created PROVE isRegular(i)
  <2>1. i \in Created' BY <1>2 DEF Untouched
  <2>2. /\ i \notin carriedSecrets'
        /\ isSettled(motions'[i]) => isDecisive(motions'[i])
    <3>1. isRegular(i)' BY <2>1 DEF Regular
    <3>2. isRegular(i)' <=> /\ i \notin carriedSecrets'
                            /\ isSettled(motions'[i]) => isDecisive(motions'[i])
      BY DEF isRegular, isSettled, getMotionState, fullyStaked, requiredStake, stakingState,
             votingState, finalizableOrFinalized, totalVotes, isDecisive, hasWon, winShare,
             loserOf
    <3> QED BY <3>1, <3>2
  <2>3. ASSUME isSettled(motions[i]) PROVE isDecisive(motions[i])
    <3>1. motions'[i] \in {motions[i], later(motions[i])} BY <1>2, <2>3 DEF Untouched
    <3>2. motions[i] \in Motion BY CreatedType
    <3>3. isSettled(later(motions[i])) BY <2>3, <3>2, SettledStays DEF isSettled
    <3>4. later(motions[i]).votes = motions[i].votes BY <3>2, LaterFields
    <3>5. isDecisive(later(motions[i])) => isDecisive(motions[i])
      BY <3>4 DEF isDecisive, totalVotes, hasWon, winShare, loserOf
    <3> QED BY <2>2, <2>3, <3>1, <3>3, <3>5
  <2> QED BY <1>1, <2>2, <2>3 DEF isRegular
<1> QED BY <1>3 DEF Regular

\* The deposit covers what regular motions owe, but for rounding.
LEMMA CoveredPays ==
  ASSUME TypeOK, StakesAddUp, Outcomes, Covered
  PROVE  SumFunction([i \in Created |-> owed(i)]) <=
             deposited + SumFunction([i \in Created |-> rounding(i)])
<1> DEFINE f == [i \in Created |-> Net(motions[i], stakes[i])]
           o == [i \in Created |-> owed(i)]
           r == [i \in Created |-> rounding(i)]
           h == [i \in Created |-> f[i] + r[i]]
<1>1. IsFiniteSet(Created) /\ \A i \in Created : f[i] \in Int BY NetsInt
<1>2. \A i \in Created : o[i] \in Int /\ r[i] \in Int /\ o[i] <= f[i] + r[i]
  BY OwedByNet
<1>3. /\ SumFunction(f) = SumFunctionOnSet(f, Created)
      /\ SumFunction(o) = SumFunctionOnSet(o, Created)
      /\ SumFunction(r) = SumFunctionOnSet(r, Created)
  BY DEF SumFunction
<1>4. SumFunction(f) <= deposited BY DEF Covered
<1>5. deposited \in Nat BY DEF TypeOK
<1> HIDE DEF f, o, r
<1>7. \A i \in Created : h[i] = f[i] + r[i] OBVIOUS
<1>8. \A i \in Created : h[i] \in Int BY <1>1, <1>2
<1> HIDE DEF h
<1>9. SumFunctionOnSet(h, Created) = SumFunctionOnSet(f, Created) + SumFunctionOnSet(r, Created)
  <2>1. \A i \in Created : f[i] \in Int /\ r[i] \in Int BY <1>1, <1>2
  <2> QED BY <1>1, <1>7, <2>1, SumPlus
<1>10. SumFunctionOnSet(o, Created) <= SumFunctionOnSet(h, Created)
  <2>1. \A i \in Created : o[i] \in Int /\ h[i] \in Int /\ o[i] <= h[i] BY <1>2, <1>7, <1>8
  <2> QED BY <1>1, <2>1, SumMonotone
<1>11. /\ SumFunctionOnSet(f, Created) \in Int /\ SumFunctionOnSet(r, Created) \in Int
       /\ SumFunctionOnSet(o, Created) \in Int /\ SumFunctionOnSet(h, Created) \in Int
  BY <1>1, <1>2, <1>8, SumInt
<1>12. SumFunction(o) <= deposited + SumFunction(r)
  BY <1>3, <1>4, <1>5, <1>9, <1>10, <1>11
<1> QED BY <1>12 DEF o, r

\* What holds after every step: no voter is paid for more than a vote is worth,
\* every vote was counted, and the deposit covers what regular motions owe.
Sound == CompensatedAll /\ Turnout /\ (Regular => Covered)

LEMMA SoundInit == Init => Sound
<1>1. Init => Turnout BY DEF Init, Created, Turnout
<1> QED BY <1>1, CoveredInit DEF Sound

LEMMA SoundStep ==
  ASSUME CompensationFits, ReputationRises, TypeOK, StakesAddUp, Sound,
         TypeOK', StakesAddUp', [Next]_vars
  PROVE  Sound'
<1>1. CompensatedAll' BY CompensatedStep DEF Sound
<1>2. Turnout' BY TurnoutStep DEF Sound
<1>3. ASSUME Regular' PROVE Covered'
  <2>1. Regular BY <1>3, RegularBefore
  <2>2. Outcomes BY <2>1, RegularOutcomes DEF Sound
  <2>3. Outcomes'
    <3>1. (CompensationFits /\ TypeOK /\ CompensatedAll /\ Turnout /\ Regular => Outcomes)'
      BY RegularOutcomes, PTL
    <3>2. CompensationFits' BY DEF CompensationFits
    <3> QED BY <1>1, <1>2, <1>3, <3>1, <3>2
  <2> QED BY <2>1, <2>2, <2>3, CoveredStep DEF Sound
<1> QED BY <1>1, <1>2, <1>3 DEF Sound

LEMMA SoundPays ==
  ASSUME CompensationFits, TypeOK, StakesAddUp, Sound
  PROVE  RewardsPayable
<1>1. ASSUME NEW i \in Created, isSettled(motions[i]), isRegular(i), NEW x \in Unclaimed(i)
      PROVE  hasStakerReward(motions[i], stakes[i][x[1]][x[2]], x[2])
  <2>1. x[1] \in Users /\ x[2] \in Sides /\ stakes[i][x[1]][x[2]] > 0 BY DEF Unclaimed
  <2>2. Divisible(motions[i]) BY <1>1, RegularDivisible DEF Sound
  <2>3. motions[i] \in Motion /\ stakes[i] \in Stakings /\ Within(motions[i], stakes[i])
    BY FitsWithin
  <2> QED BY <2>1, <2>2, <2>3, RewardPayable
<1>2. Regular => SumFunction([i \in Created |-> owed(i)]) <=
                     deposited + SumFunction([i \in Created |-> rounding(i)])
  BY RegularOutcomes, CoveredPays DEF Sound
<1> QED BY <1>1, <1>2 DEF RewardsPayable, Regular

\* No claim on a settled motion reverts for want of a reward, and the deposit
\* covers all of them but for rounding, for any users, motions and domains and
\* over any number of escalations: the voters of a round are paid out of the
\* loser's stake, which has enough for them, and the rest is divided.  RewardsPayable
\* leaves out the motions whose voters the code itself fails to count.  Of the
\* constants, the voters' part has to fit in a stake, and a domain further up has
\* to have at least as much reputation.
THEOREM RewardsArePayable ==
  ASSUME CompensationFits, ReputationRises
  PROVE  Spec => []RewardsPayable
<1>1. TypeOK /\ StakesAddUp /\ Sound /\ TypeOK' /\ StakesAddUp' /\ [Next]_vars => Sound'
  BY SoundStep
<1>2. TypeOK /\ StakesAddUp /\ Sound => RewardsPayable BY SoundPays
<1> QED BY <1>1, <1>2, SoundInit, StakesStayAddedUp, PTL DEF Spec
=============================================================================
