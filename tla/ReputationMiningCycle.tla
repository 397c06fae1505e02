------------------------ MODULE ReputationMiningCycle ------------------------
(***************************************************************************)
(* One reputation mining cycle: miners submit root hashes, different       *)
(* hashes fight a knock-out tournament of pairwise disputes against        *)
(* deadlines, and the one left is confirmed.                               *)
(*                                                                         *)
(* Time advances in ticks.  An entry carries its age, the ticks since its  *)
(* lastResponseTimestamp, instead of the timestamp; ages stop at MaxAge,   *)
(* past which the contract tells no two apart.  Any number of calls can    *)
(* share a tick, in any order.                                             *)
(*                                                                         *)
(* Anyone with a stake may answer for any entry, so who answers is left    *)
(* out.  In the early part of a window responsePossible lets a caller      *)
(* answer only if the hash of its address is below a target that grows     *)
(* from 0: at age 0 nobody passes, at 1 someone may, and at                *)
(* ResponseWindow - AllEntriesAllowed every submitter does.                *)
(***************************************************************************)
EXTENDS DisputeSteps, Integers, Sequences, FiniteSets

CONSTANTS
    Miners,              \* stakers
    Submissions,         \* the (root hash, nLeaves, jrh) triples that exist
    NoMiner,             \* address(0)
    NoSubmission,        \* the Submission of an address that made none
    Entries,             \* Entries[m]: stake of m divided by MIN_STAKE
    Proposes,            \* Proposes[m]: what m may submit
    NLeaves,             \* leaves a justification tree of this cycle must have
    Tree,                \* Tree[s][k]: leaf k of the tree the jrh of s commits to
    Confirmable,         \* those whose two jrh proofs exist (right first and last leaf)
    NextStates(_, _),    \* NextStates(v, k): the states the contract accepts after v at
                         \* update k; more than one where the key is new (see below)
    Honest,              \* the submission every leaf of which is right
    MiningWindow,        \* MINING_WINDOW_SIZE, in ticks
    ResponseWindow,      \* CHALLENGE_RESPONSE_WINDOW_DURATION
    AllEntriesAllowed,   \* ALL_ENTRIES_ALLOWED_END_OF_WINDOW
    MinStake,            \* MIN_STAKE
    MaxSubmitters,       \* the limit of 12 submissions of one hash
    MaxSettledAgain      \* bound on settledAgain

ASSUME WindowAssumption ==
    /\ MiningWindow \in Nat /\ MiningWindow >= 2
    /\ AllEntriesAllowed \in Nat
    /\ ResponseWindow \in Nat /\ ResponseWindow > AllEntriesAllowed

ASSUME SubmissionAssumption ==
    /\ NoMiner \notin Miners /\ NoSubmission \notin Submissions \cup Confirmable
    /\ IsFiniteSet(Submissions) /\ Honest \in Submissions
    /\ \A m \in Miners : Proposes[m] \subseteq Submissions /\ Entries[m] \in Nat
    /\ MinStake \in Nat

ASSUME TreeAssumption ==
    /\ NLeaves \in Nat /\ NLeaves >= 2
    /\ \A s \in Confirmable : Tree[s] = [k \in 0 .. NLeaves - 1 |-> Tree[s][k]]
    /\ Honest \in Confirmable
    /\ \A s \in Confirmable : Tree[s][0] = Tree[Honest][0]
    /\ \A s, t \in Confirmable : Tree[s] = Tree[t] => s = t
    /\ \A k \in 1 .. NLeaves - 1 : Tree[Honest][k] \in NextStates(Tree[Honest][k - 1], k)

VARIABLES
    windowAge,              \* ticks since reputationMiningWindowOpenTimestamp
    submittedHashes,        \* who submitted each hash, one item per entry
    submission,             \* reputationHashSubmissions
    submittedEntries,
    jrhConfirmed,           \* submissions with jrhNLeaves set
    disputeRounds,
    nHashesCompletedChallengeRound,
    nUniqueSubmittedHashes,
    nInvalidatedHashes,
    firstIncompleteRound,
    stakeLost,
    rewardsPaidOut,
    confirmed,              \* the hash the cycle ended with
    timesInvalidated,       \* history: HashInvalidated events of each hash
    settledAgain            \* history: how often something settled was settled again

cycleVars == <<windowAge, submittedHashes, submission, submittedEntries, jrhConfirmed,
               disputeRounds, nHashesCompletedChallengeRound, nUniqueSubmittedHashes,
               nInvalidatedHashes, firstIncompleteRound, stakeLost, rewardsPaidOut,
               confirmed, timesInvalidated, settledAgain>>

submitVars == <<submittedHashes, submission, submittedEntries, nUniqueSubmittedHashes>>
outcomeVars == <<nHashesCompletedChallengeRound, nInvalidatedHashes, firstIncompleteRound,
                 stakeLost, timesInvalidated, settledAgain>>

MaxAge == ResponseWindow + 1

\* The last round anything can be pushed to, with one to spare.
Rounds == 0 .. Cardinality(Submissions)

\* type(uint256).max in upperBound: any index no tree has.
NoUpperBound == NLeaves

\* All zeros; a timestamp of 0 is as old as can be.
DeletedEntry == [firstSubmitter |-> NoMiner, age |-> MaxAge, challengeStepCompleted |-> 0,
                 lowerBound |-> 0, upperBound |-> 0]

Init ==
    /\ windowAge = 0
    /\ submittedHashes = [s \in Submissions |-> <<>>]
    /\ submission = [m \in Miners |-> NoSubmission]
    /\ submittedEntries = [m \in Miners |-> {}]
    /\ jrhConfirmed = {}
    /\ disputeRounds = [r \in Rounds |-> <<>>]
    /\ nHashesCompletedChallengeRound = [r \in Rounds |-> 0]
    /\ nUniqueSubmittedHashes = 0
    /\ nInvalidatedHashes = 0
    /\ firstIncompleteRound = 0
    /\ stakeLost = 0
    /\ rewardsPaidOut = 0
    /\ confirmed = NoSubmission
    /\ timesInvalidated = [s \in Submissions |-> 0]
    /\ settledAgain = 0

-----------------------------------------------------------------------------
(* Reading the rounds; indices count from 0, as in the contract.           *)

Indices(r) == 0 .. Len(disputeRounds[r]) - 1

InRound(r, i) == i \in Indices(r)

entryAt(r, i) == disputeRounds[r][i + 1]

submissionOf(e) == IF e.firstSubmitter = NoMiner THEN NoSubmission
                                                 ELSE submission[e.firstSubmitter]

submissionAt(r, i) == submissionOf(entryAt(r, i))

jrhNLeaves(s) == IF s \in jrhConfirmed THEN NLeaves ELSE 0

submissionWindowClosed == windowAge >= MiningWindow

\* Some staker's hash is below the target.
responsePossible(windowOpenFor) == windowOpenFor >= 1

Running == confirmed = NoSubmission

\* The loop starts at firstIncompleteRound: earlier rounds were found complete.
challengeRoundComplete(round) ==
    /\ submissionWindowClosed
    /\ \A r \in firstIncompleteRound .. round :
          nHashesCompletedChallengeRound[r] = Len(disputeRounds[r])

-----------------------------------------------------------------------------
(* Submitting.                                                             *)

\* checkEntryQualifies; a stake made after the window opened does not count.
checkEntryQualifies(m, s, entryIndex) ==
    /\ entryIndex \in 1 .. Entries[m]
    /\ submission[m] # NoSubmission =>
          s = submission[m] /\ entryIndex \notin submittedEntries[m]

\* Mutant: the second entry of a hash is taken for a new hash.
newHash_Always(s) == TRUE

newHash(s) == submittedHashes[s] = <<>>

\* The window has not closed or no-one has submitted.
submissionPossible == ~submissionWindowClosed \/ nUniqueSubmittedHashes = 0

\* An entry's lastResponseTimestamp is the end of the window: its age stays 0
\* until then, and is what is past of it for a first hash submitted later.
submitRootHash(m, s, entryIndex) ==
    /\ Running
    /\ submissionPossible
    /\ responsePossible(windowAge)
    /\ checkEntryQualifies(m, s, entryIndex)
    /\ Len(submittedHashes[s]) < MaxSubmitters
    /\ IF newHash(s)
       THEN /\ nUniqueSubmittedHashes' = nUniqueSubmittedHashes + 1
            /\ disputeRounds' = [disputeRounds EXCEPT ![0] = Append(@,
                   [DeletedEntry EXCEPT !.firstSubmitter = m,
                        !.age = IF submissionWindowClosed
                                THEN windowAge - MiningWindow ELSE 0])]
       ELSE UNCHANGED <<nUniqueSubmittedHashes, disputeRounds>>
    /\ submission' = [submission EXCEPT ![m] = s]
    /\ submittedHashes' = [submittedHashes EXCEPT ![s] = Append(@, m)]
    /\ submittedEntries' = [submittedEntries EXCEPT ![m] = @ \cup {entryIndex}]
    /\ UNCHANGED <<windowAge, jrhConfirmed, rewardsPaidOut, confirmed, outcomeVars>>

-----------------------------------------------------------------------------
(* Rewards.                                                                *)

\* At most one bye per round, and 2 * (3 + log2) responses and one
\* invalidation per hash that loses.
rewardDenominator ==
    log2Ceiling(nUniqueSubmittedHashes)
        + (nUniqueSubmittedHashes - 1) * (2 * (3 + log2Ceiling(NLeaves)) + 1)

\* Mutant: splits the stake of every hash, the winner's too.
disputeRewardSize_AllStakes ==
    IF nUniqueSubmittedHashes <= 1 THEN 0
    ELSE (MinStake * 2 * nUniqueSubmittedHashes) \div rewardDenominator

\* Everything rewarded comes after the window closed, when the cached value
\* and a recomputed one agree; the log is not empty.
disputeRewardSize ==
    IF nUniqueSubmittedHashes <= 1 THEN 0
    ELSE (MinStake * (nUniqueSubmittedHashes - 1)) \div rewardDenominator

rewardResponder == rewardsPaidOut' = rewardsPaidOut + disputeRewardSize

-----------------------------------------------------------------------------
(* The four answers of one side of a dispute.                              *)

\* The checks every answer makes of its entry.
answerPossible(r, i) == /\ Running
                        /\ InRound(r, i)
                        /\ responsePossible(entryAt(r, i).age)

answered(r, i, e) ==
    disputeRounds' = [disputeRounds EXCEPT ![r][i + 1] = [e EXCEPT !.age = 0]]

canConfirmJustificationRootHash(r, i) ==
    /\ submissionWindowClosed
    /\ answerPossible(r, i)
    /\ submissionAt(r, i) \in Confirmable \ jrhConfirmed

confirmJustificationRootHash(r, i) ==
    /\ canConfirmJustificationRootHash(r, i)
    /\ jrhConfirmed' = jrhConfirmed \cup {submissionAt(r, i)}
    /\ answered(r, i, afterConfirmJRH(entryAt(r, i), NLeaves))
    /\ rewardResponder
    /\ UNCHANGED <<windowAge, confirmed, submitVars, outcomeVars>>

\* Reading the opponent's entry reverts when there is none.
canRespondToBinarySearchForChallenge(r, i) ==
    /\ answerPossible(r, i)
    /\ canRespondToBinarySearch(entryAt(r, i), jrhNLeaves(submissionAt(r, i)))
    /\ InRound(r, getOpponentIdx(i))

\* hash1 of two entries with the same bounds: the left children of their nodes.
sameLeftChild(e, f) ==
    LET mid == e.lowerBound + leftWidth(e.upperBound - e.lowerBound + 1)
    IN  \A k \in e.lowerBound .. mid - 1 :
            Tree[submissionOf(e)][k] = Tree[submissionOf(f)][k]

\* The second answer to a step moves the bounds of both entries and restarts
\* the clock of the opponent, who could not know the next step before.
respondToBinarySearchForChallenge(r, i) ==
    LET opp    == getOpponentIdx(i)
        mine   == afterBinarySearchResponse(entryAt(r, i))
        theirs == entryAt(r, opp)
        Moved(e) == [searchFinished(searchBounds(e, sameLeftChild(mine, theirs)),
                                    jrhNLeaves(submissionOf(mine))) EXCEPT !.age = 0]
    IN  /\ canRespondToBinarySearchForChallenge(r, i)
        /\ IF theirs.challengeStepCompleted = mine.challengeStepCompleted
           THEN disputeRounds' = [disputeRounds EXCEPT ![r][i + 1] = Moved(mine),
                                                       ![r][opp + 1] = Moved(theirs)]
           ELSE answered(r, i, mine)
        /\ rewardResponder
        /\ UNCHANGED <<windowAge, jrhConfirmed, confirmed, submitVars, outcomeVars>>

canConfirmResult(r, i) ==
    /\ answerPossible(r, i)
    /\ canConfirmBinarySearchResult(entryAt(r, i), jrhNLeaves(submissionAt(r, i)))

confirmBinarySearchResult(r, i) ==
    /\ canConfirmResult(r, i)
    /\ answered(r, i, afterConfirmBinarySearchResult(entryAt(r, i), NLeaves))
    /\ rewardResponder
    /\ UNCHANGED <<windowAge, jrhConfirmed, confirmed, submitVars, outcomeVars>>

\* Mutant: any transition passes.
transitionHolds_Any(e) == TRUE

\* The contract redoes the update from the leaf before lowerBound of the
\* submission's own tree and compares it with the leaf at lowerBound.  For a key
\* that is new proveBeforeReputationValue returns before the value and the uid
\* of the leaf before are proven, so it accepts an insertion of other values too.
transitionHolds(e) ==
    LET leaves == Tree[submissionOf(e)]
    IN  /\ e.lowerBound >= 1
        /\ leaves[e.lowerBound] \in NextStates(leaves[e.lowerBound - 1], e.lowerBound)

canRespondToChallenge(r, i) ==
    /\ answerPossible(r, i)
    /\ challengeOpen(entryAt(r, i), jrhNLeaves(submissionAt(r, i)))
    /\ transitionHolds(entryAt(r, i))

respondToChallenge(r, i) ==
    /\ canRespondToChallenge(r, i)
    /\ answered(r, i, afterRespondToChallenge(entryAt(r, i)))
    /\ rewardResponder
    /\ UNCHANGED <<windowAge, jrhConfirmed, confirmed, submitVars, outcomeVars>>

-----------------------------------------------------------------------------
(* Moving on to the next round.                                            *)

\* Mutant: an entry keeps the clock of the round it comes from.
startMemberOfPair_OldClock(e) ==
    [e EXCEPT !.lowerBound = 0,
              !.upperBound = IF submissionOf(e) \in jrhConfirmed
                             THEN NLeaves - 1 ELSE NoUpperBound,
              !.challengeStepCompleted = IF submissionOf(e) \in jrhConfirmed THEN 1 ELSE 0]

startMemberOfPair(e) ==
    [e EXCEPT !.age = 0,
              !.lowerBound = 0,
              !.upperBound = IF submissionOf(e) \in jrhConfirmed
                             THEN NLeaves - 1 ELSE NoUpperBound,
              !.challengeStepCompleted = IF submissionOf(e) \in jrhConfirmed THEN 1 ELSE 0]

\* Push e on a round, then updateTimestamps: an even length makes a new pair.
pushedTo(round, e) ==
    LET pushed == Append(round, e)
        n      == Len(pushed)
    IN  IF n % 2 = 0
        THEN [pushed EXCEPT ![n] = startMemberOfPair(@), ![n - 1] = startMemberOfPair(@)]
        ELSE [pushed EXCEPT ![n].age = 0]

\* Entry i of round r moves on; its slot is deleted, the array keeps its length.
progress(r, i) ==
    disputeRounds' = [disputeRounds EXCEPT ![r][i + 1] = DeletedEntry,
                                           ![r + 1] = pushedTo(@, entryAt(r, i))]

\* n more hashes of round r are through.
completedInRound(r, n) ==
    nHashesCompletedChallengeRound' = [nHashesCompletedChallengeRound EXCEPT ![r] = @ + n]

\* The contract does not notice that what it settles was settled before;
\* MaxSettledAgain bounds the model only.
settling(again) ==
    /\ again => settledAgain < MaxSettledAgain
    /\ settledAgain' = settledAgain + IF again THEN 1 ELSE 0

\* Every entry made for the hash costs its staker MIN_STAKE.
stakeOf(s) == Len(submittedHashes[s]) * MinStake

\* The window of the invalidation itself opens when the deadline has passed.
timedOut(e) == e.age >= ResponseWindow /\ responsePossible(e.age - ResponseWindow)

\* invalidateHash, second branch: entry i missed its deadline.  An opponent
\* that is ahead moves on, one that is level is invalidated too; the entries of a
\* level pair stay, so that the two can be invalidated and fined again.
invalidateHash(r, i) ==
    LET opp    == getOpponentIdx(i)
        mine   == submissionAt(r, i)
        theirs == submissionAt(r, opp)
        level  == entryAt(r, opp).challengeStepCompleted = entryAt(r, i).challengeStepCompleted
        out    == {mine} \cup IF level THEN {theirs} ELSE {}
    IN  /\ Running
        /\ InRound(r, i) /\ InRound(r, opp)
        /\ mine # NoSubmission /\ theirs # NoSubmission
        /\ entryAt(r, opp).challengeStepCompleted >= entryAt(r, i).challengeStepCompleted
        /\ timedOut(entryAt(r, i))
        /\ stakeLost' = stakeLost + stakeOf(mine) + IF level THEN stakeOf(theirs) ELSE 0
        /\ IF level THEN UNCHANGED disputeRounds ELSE progress(r, opp)
        /\ nInvalidatedHashes' = nInvalidatedHashes + IF level THEN 2 ELSE 1
        /\ timesInvalidated' =
               [s \in Submissions |-> timesInvalidated[s] + IF s \in out THEN 1 ELSE 0]
        /\ settling(timesInvalidated[mine] > 0)
        /\ completedInRound(r, 2)
        /\ rewardResponder
        /\ UNCHANGED <<windowAge, jrhConfirmed, confirmed, firstIncompleteRound, submitVars>>

\* invalidateHash, first branch: the last entry of an odd round has no opponent
\* and moves on.  The contract does not ask whether the entry is still there: an
\* empty one moves on as well, is counted and is paid for.
giveBye(r) ==
    LET last == Len(disputeRounds[r]) - 1
    IN  /\ Running
        /\ Len(disputeRounds[r]) % 2 = 1
        /\ submissionWindowClosed
        /\ r > 0 => challengeRoundComplete(r - 1)
        /\ responsePossible(entryAt(r, last).age)
        /\ Len(disputeRounds[r]) > 1
        /\ firstIncompleteRound' = r
        /\ settling(submissionAt(r, last) = NoSubmission)
        /\ progress(r, last)
        /\ completedInRound(r, 1)
        /\ rewardResponder
        /\ UNCHANGED <<windowAge, jrhConfirmed, confirmed, nInvalidatedHashes, stakeLost,
                       timesInvalidated, submitVars>>

\* Mutant: waits for the last hash to complete a challenge.
finalDisputeRoundCompleted_Completed(r) ==
    /\ nHashesCompletedChallengeRound[r] = 1
    /\ Len(disputeRounds[r]) = 1

finalDisputeRoundCompleted(r) ==
    /\ nUniqueSubmittedHashes - nInvalidatedHashes = 1
    /\ Len(disputeRounds[r]) = 1

\* Burns stakeLost - rewardsPaidOut (a checked subtraction), sets the root hash
\* and destroys the cycle.
confirmNewHash(r) ==
    /\ Running
    /\ finalDisputeRoundCompleted(r)
    /\ submissionWindowClosed
    /\ responsePossible(entryAt(r, 0).age)
    /\ rewardsPaidOut <= stakeLost
    /\ confirmed' = submissionAt(r, 0)
    /\ UNCHANGED <<windowAge, jrhConfirmed, disputeRounds, rewardsPaidOut, submitVars, outcomeVars>>

-----------------------------------------------------------------------------
(* Time, and what is assumed of the honest miner.                          *)

canAnswer(r, i) ==
    \/ canConfirmJustificationRootHash(r, i)
    \/ canRespondToBinarySearchForChallenge(r, i)
    \/ canConfirmResult(r, i)
    \/ canRespondToChallenge(r, i)

\* The honest hash is submitted before the window closes, and in a dispute it
\* is answered for as soon as the hash lottery is sure to let its submitter.
HonestInTime ==
    /\ windowAge = MiningWindow - 1 => submittedHashes[Honest] # <<>>
    /\ \A r \in Rounds : \A i \in Indices(r) :
          /\ submissionAt(r, i) = Honest
          /\ InRound(r, getOpponentIdx(i))
          /\ entryAt(r, i).age >= ResponseWindow - AllEntriesAllowed
          => ~canAnswer(r, i)

older(e) == IF e.age < MaxAge THEN [e EXCEPT !.age = @ + 1] ELSE e

Tick ==
    /\ Running
    /\ HonestInTime
    /\ windowAge' = IF windowAge <= MiningWindow THEN windowAge + 1 ELSE windowAge
    /\ disputeRounds' =
          IF submissionWindowClosed
          THEN [r \in Rounds |-> [j \in DOMAIN disputeRounds[r] |-> older(disputeRounds[r][j])]]
          ELSE disputeRounds
    /\ UNCHANGED <<jrhConfirmed, rewardsPaidOut, confirmed, submitVars, outcomeVars>>

-----------------------------------------------------------------------------

Submit ==
    \E m \in Miners : \E s \in Proposes[m], entryIndex \in 1 .. Entries[m] :
        submitRootHash(m, s, entryIndex)

Answer ==
    \E r \in Rounds : \E i \in Indices(r) :
        \/ confirmJustificationRootHash(r, i)
        \/ respondToBinarySearchForChallenge(r, i)
        \/ confirmBinarySearchResult(r, i)
        \/ respondToChallenge(r, i)

PlayableRounds == Rounds \ {Cardinality(Submissions)}

Confirm == \E r \in Rounds : confirmNewHash(r)

\* Anyone calls anything the contract lets them.
Next ==
    \/ Submit
    \/ Answer
    \/ \E r \in PlayableRounds : \E i \in Indices(r) : invalidateHash(r, i)
    \/ \E r \in PlayableRounds : giveBye(r)
    \/ Confirm
    \/ Tick

Spec == Init /\ [][Next]_cycleVars

Submitted == {s \in Submissions : submittedHashes[s] # <<>>}

Alive == {s \in Submitted : timesInvalidated[s] = 0}

\* What nobody has settled yet.
Settle ==
    \E r \in PlayableRounds :
        \/ \E i \in Indices(r) : submissionAt(r, i) \in Alive /\ invalidateHash(r, i)
        \/ \E i \in Indices(r) : i = Len(disputeRounds[r]) - 1
                                  /\ submissionAt(r, i) # NoSubmission /\ giveBye(r)

HonestAnswer ==
    /\ \E r \in Rounds : \E i \in Indices(r) : submissionAt(r, i) = Honest
          /\ \/ confirmJustificationRootHash(r, i)
             \/ respondToBinarySearchForChallenge(r, i)
             \/ confirmBinarySearchResult(r, i)
             \/ respondToChallenge(r, i)

HonestSubmit ==
    \E m \in Miners : \E entryIndex \in 1 .. Entries[m] :
        Honest \in Proposes[m] /\ submitRootHash(m, Honest, entryIndex)

\* Time passes; the honest miner submits and answers; whoever is owed a reward
\* for settling an overdue pair or a bye collects it (invalidateHash pays the
\* caller); the submitters of the last hash confirm it.
FairSpec ==
    /\ Spec
    /\ WF_cycleVars(Tick)
    /\ WF_cycleVars(HonestSubmit)
    /\ WF_cycleVars(HonestAnswer)
    /\ WF_cycleVars(Settle)
    /\ WF_cycleVars(Confirm)

-----------------------------------------------------------------------------
(* Properties.                                                             *)

EntryType ==
    [firstSubmitter : Miners \cup {NoMiner}, age : 0 .. MaxAge,
     challengeStepCompleted : Nat, lowerBound : 0 .. NLeaves - 1, upperBound : 0 .. NLeaves]

TypeOK ==
    /\ windowAge \in 0 .. MiningWindow + 1
    /\ submittedHashes \in [Submissions -> Seq(Miners)]
    /\ submission \in [Miners -> Submissions \cup {NoSubmission}]
    /\ submittedEntries \in [Miners -> SUBSET Nat]
    /\ jrhConfirmed \in SUBSET Confirmable
    /\ disputeRounds \in [Rounds -> Seq(EntryType)]
    /\ nHashesCompletedChallengeRound \in [Rounds -> Nat]
    /\ nUniqueSubmittedHashes \in Nat
    /\ nInvalidatedHashes \in Nat
    /\ firstIncompleteRound \in Rounds
    /\ stakeLost \in Nat /\ rewardsPaidOut \in Nat
    /\ confirmed \in Submissions \cup {NoSubmission}
    /\ timesInvalidated \in [Submissions -> Nat]
    /\ settledAgain \in Nat

\* Where a hash has an entry; entries it left behind are deleted.
PlacesOf(s) ==
    UNION {{<<r, i>> : i \in {j \in Indices(r) : submissionAt(r, j) = s}} : r \in Rounds}

\* "Tracks the number of submissions in each round that have completed their
\* challenge" (ReputationMiningCycleStorage.sol).
CompletedWithinRound ==
    \A r \in Rounds : nHashesCompletedChallengeRound[r] <= Len(disputeRounds[r])

\* A hash that was submitted has one entry, never two in different rounds and
\* never none, whoever settles what how often; and as long as nothing is settled
\* again, the two counters that finalDisputeRoundCompleted subtracts count exactly
\* the hashes still in the race, and no round completes more than it has.
OneEntryEach ==
    /\ \A s \in Submitted : Cardinality(PlacesOf(s)) = 1
    /\ settledAgain = 0 =>
          /\ nUniqueSubmittedHashes - nInvalidatedHashes = Cardinality(Alive)
          /\ CompletedWithinRound

Responded(e) ==
    /\ submissionOf(e) \in jrhConfirmed
    /\ e.challengeStepCompleted >= 3
    /\ pow2[e.challengeStepCompleted - 3] > NLeaves

Pairs ==
    UNION {{<<r, i>> : i \in {j \in Indices(r) : j % 2 = 0 /\ InRound(r, j + 1)}} : r \in Rounds}

BothRespond(p) == Responded(entryAt(p[1], p[2])) /\ Responded(entryAt(p[1], p[2] + 1))

\* The contract accepts only one state after v at update k.
Decided(v, k) == \A w, x \in NextStates(v, k) : w = x

\* "Safety net?" (ReputationMiningCycleRespond.sol): the two sides of a pair both
\* answer the challenge only where the contract accepts two states after the last
\* one they agree on.
BothRespondOnlyIfUndecided ==
    \A p \in Pairs :
        LET e == entryAt(p[1], p[2])
        IN  BothRespond(p) => ~Decided(Tree[submissionOf(e)][e.lowerBound - 1], e.lowerBound)

\* When the search between two hashes has ended, they agree on every leaf
\* before lowerBound and differ there.
SearchIsRight ==
    \A p \in Pairs :
        LET e == entryAt(p[1], p[2])
            f == entryAt(p[1], p[2] + 1)
            s == submissionOf(e)
            t == submissionOf(f)
        IN  ({s, t} \subseteq jrhConfirmed /\ e.lowerBound = e.upperBound) =>
                /\ f.lowerBound = e.lowerBound /\ f.upperBound = e.upperBound
                /\ \A k \in 0 .. e.lowerBound - 1 : Tree[s][k] = Tree[t][k]
                /\ Tree[s][e.lowerBound] # Tree[t][e.lowerBound]

\* The way of a dispute: it ends where the trees part, with one side that can
\* answer unless the update there has no single result, whoever settles what.
DisputesSound == TypeOK /\ SearchIsRight /\ BothRespondOnlyIfUndecided

\* The honest hash is in a pair whose other side answered the challenge as well.
HonestMatched ==
    \E p \in Pairs : /\ Honest \in {submissionAt(p[1], p[2]), submissionAt(p[1], p[2] + 1)}
                     /\ BothRespond(p)

\* Whatever the other miners submit, answer or leave unanswered, and whoever calls
\* invalidateHash when and how often, the honest hash is invalidated only beside an
\* opponent that answered the challenge too; and another hash is confirmed only
\* after that, or after a settled pair or bye was settled again.
HonestPrevails ==
    /\ timesInvalidated[Honest] > 0 => HonestMatched
    /\ confirmed \in {Honest, NoSubmission} \/ timesInvalidated[Honest] > 0
          \/ settledAgain > 0

\* No other hash is ever confirmed: what the last property has exceptions to.
OnlyHonestConfirmed == confirmed \in {Honest, NoSubmission}

\* As long as nothing is settled again ("at most one bye per round",
\* ReputationMiningCycleCommon.sol), the rewards paid do not exceed the stake lost
\* once one hash is left, and confirmNewHash can subtract them.
RewardsCovered ==
    settledAgain = 0 /\ nUniqueSubmittedHashes - nInvalidatedHashes = 1
        => rewardsPaidOut <= stakeLost

\* The same whatever is settled again.
RewardsAlwaysCovered ==
    nUniqueSubmittedHashes - nInvalidatedHashes = 1 => rewardsPaidOut <= stakeLost

\* With an honest miner that keeps up, every cycle ends, unless something is settled
\* again or no hash is left, the honest one invalidated beside its opponent.
EventuallyConfirmed ==
    <>(\/ confirmed # NoSubmission
       \/ settledAgain > 0
       \/ timesInvalidated[Honest] > 0 /\ Alive = {})
=============================================================================
