-------------------------- MODULE ReputationMiner ---------------------------
(***************************************************************************)
(* The honest miner's computation (ReputationMiner.js): it replays the log *)
(* of a mining cycle one update at a time, decays first, keeps the         *)
(* reputation tree and the justification tree, and records for every step  *)
(* the proofs that respondToChallenge would send.  The contract redoes the *)
(* same step from those proofs (ChallengeResponse); whatever the log, the  *)
(* two must agree, or an honest miner loses a dispute it should win.       *)
(*                                                                         *)
(* Cycles follow each other: entries are logged, the log is replayed, the  *)
(* new state is confirmed; between cycles the miner may restart from its   *)
(* database, and skills are added at any time.                             *)
(***************************************************************************)
EXTENDS ChallengeResponse, TreeShape, SequencesExt

CONSTANTS
    EntriesPerCycle,     \* how many entries each mining cycle may log
    JustificationWidth   \* bits of a justification tree key

VARIABLES
    phase,        \* "logging", "replaying" or "replayed"
    cycle,        \* cycles confirmed
    reputations,  \* key -> [value, uid]
    order,        \* Object.keys(reputations): the keys as they were first inserted
    nReputations,
    nReputationsBeforeLatestLog,
    reputationTree,
    justificationTree,
    reverseReputationHashLookup,   \* keys seen while replaying this log
    lastAgree, firstDisagree       \* the last two entries of justificationHashes

minerVars == <<reputations, order, nReputations, nReputationsBeforeLatestLog, reputationTree,
               justificationTree, reverseReputationHashLookup, lastAgree, firstDisagree>>
vars == <<logVars, rootHashNLeaves, phase, cycle, minerVars>>

NoStep == [updateNumber |-> -1]

\* Of whichever kind; the keys are hashed, or not, where they are inserted.
getNewPatriciaTree == EmptyTree

Init ==
    /\ skills = skillTree[InitialSkills]
    /\ log = <<>>
    /\ rootHashNLeaves = 0
    /\ phase = "logging" /\ cycle = 0
    /\ reputations = <<>> /\ order = <<>> /\ nReputations = 0
    /\ nReputationsBeforeLatestLog = 0
    /\ reputationTree = getNewPatriciaTree /\ justificationTree = getNewPatriciaTree
    /\ reverseReputationHashLookup = {}
    /\ lastAgree = NoStep /\ firstDisagree = NoStep

-----------------------------------------------------------------------------
(* What the miner reads off its state.                                     *)

exists(key) == key \in DOMAIN reputations
reputationOf(key) == IF exists(key) THEN reputations[key].value ELSE 0

\* Keys and proofs as of the state before an update.
getReputationProofObject(key) ==
    IF exists(key)
    THEN reputations[key] @@ getProof(reputationTree, hashOf(key))
             @@ [key |-> key, nLeaves |-> nReputations]
    ELSE [value |-> 0, uid |-> 0, branchMask |-> {}, siblings |-> <<>>,
          key |-> key, nLeaves |-> nReputations]

\* mutant: always the neighbour above, if there is one
getAdjacentKeyAbove(key) ==
    LET others == reverseReputationHashLookup \ {key}
        above  == {k \in others : KeyHash[k] > KeyHash[key]}
    IN  IF others = {} THEN NoKey
        ELSE IF above = {} THEN CHOOSE k \in others : \A l \in others : KeyHash[l] <= KeyHash[k]
        ELSE CHOOSE k \in above : \A l \in above : KeyHash[l] >= KeyHash[k]

\* The neighbour in hash order that shares the longer prefix with key.
getAdjacentKey(key) ==
    LET others == reverseReputationHashLookup \ {key}
        below  == {k \in others : KeyHash[k] < KeyHash[key]}
        above  == others \ below
        prev   == CHOOSE k \in below : \A l \in below : KeyHash[l] <= KeyHash[k]
        next   == CHOOSE k \in above : \A l \in above : KeyHash[l] >= KeyHash[k]
    IN  IF others = {} THEN NoKey
        ELSE IF below = {} THEN next
        ELSE IF above = {} THEN prev
        ELSE IF firstDifference(prev, key) > firstDifference(next, key) THEN prev ELSE next

nDecays == nReputationsBeforeLatestLog
totalnUpdates == nextPreviousUpdates + nDecays

\* Binary search for the entry that makes log update u (from 0).
getLogEntryNumberForLogUpdateNumber(u) ==
    LET search[lower \in 1 .. Len(log), upper \in 0 .. Len(log)] ==
            LET testIdx == lower + (upper - lower) \div 2
                entry   == log[testIdx]
            IN  IF upper <= lower THEN lower
                ELSE IF entry.nPreviousUpdates > u THEN search[lower, testIdx - 1]
                ELSE IF entry.nPreviousUpdates + entry.nUpdates > u THEN testIdx
                ELSE search[testIdx + 1, upper]
    IN  search[1, Len(log)]

logEntryOf(updateNumber) == getLogEntryNumberForLogUpdateNumber(updateNumber - nDecays)

\* Update u (from 0) of an entry, by the tree as it is now.
getKeyForUpdateInLogEntry(u, entry) ==
    LET half          == entry.nUpdates \div 2
        skillIndex    == IF u >= half THEN u - half ELSE u
        nChildUpdates == IF entry.amount >= 0 THEN 0 ELSE half - 1 - nParents(entry.skill)
        lineage == SubSeq(skills[entry.skill].children, 1, nChildUpdates)
                       \o skills[entry.skill].parents \o <<entry.skill>>
    IN  <<lineage[skillIndex + 1], IF u < half THEN ColonyWide ELSE entry.user>>

getKeyForUpdateNumber(updateNumber) ==
    IF updateNumber < nDecays THEN order[updateNumber + 1]
    ELSE LET entry == log[logEntryOf(updateNumber)]
         IN  getKeyForUpdateInLogEntry(updateNumber - entry.nPreviousUpdates - nDecays, entry)

-----------------------------------------------------------------------------
(* One update.                                                             *)

isChildUpdate(rel, entry) ==
    entry.amount < 0
    /\ rel % (entry.nUpdates \div 2) < entry.nUpdates \div 2 - 1 - nParents(entry.skill)

originKey(entry) == getKeyForUpdateInLogEntry(entry.nUpdates - 1, entry)

\* The user's own reputation in the child skill, for both halves of the updates.
childKey(rel, entry) ==
    getKeyForUpdateInLogEntry(IF rel < entry.nUpdates \div 2 THEN rel + entry.nUpdates \div 2
                              ELSE rel, entry)

amountOf(updateNumber) ==
    LET entry  == log[logEntryOf(updateNumber)]
        rel    == updateNumber - entry.nPreviousUpdates - nDecays
        origin == reputationOf(originKey(entry))
        child  == reputationOf(childKey(rel, entry))
        old    == reputationOf(order[updateNumber + 1])
    IN  IF updateNumber < nDecays
        THEN (old * DecayNumerator) \div DecayDenominator - old
        ELSE IF entry.amount >= 0 THEN entry.amount
        ELSE IF ~isChildUpdate(rel, entry) THEN Max({entry.amount, -origin})
        ELSE IF origin = 0 THEN 0
        ELSE Max({quotient(entry.amount * child, origin), -child})

jhLeafValue == <<reputationTree.root, nReputations>>

\* A proof that key is absent goes with its own when the key does not exist.
neighbourProof(key) ==
    getReputationProofObject(IF exists(key) THEN NoKey ELSE getAdjacentKey(key))

noProof == getReputationProofObject(NoKey)

\* The entry of justificationHashes for one update.
justificationOf(updateNumber) ==
    LET key    == getKeyForUpdateNumber(updateNumber)
        entry  == log[logEntryOf(updateNumber)]
        rel    == updateNumber - entry.nPreviousUpdates - nDecays
        loses  == updateNumber >= nDecays /\ entry.amount < 0
        child  == loses /\ isChildUpdate(rel, entry)
        counts == child /\ reputationOf(originKey(entry)) # 0
    IN  [updateNumber    |-> updateNumber,
         jhLeafValue     |-> jhLeafValue,
         justUpdated     |-> IF updateNumber = 0 THEN noProof
                             ELSE getReputationProofObject(getKeyForUpdateNumber(updateNumber - 1)),
         nextUpdate      |-> getReputationProofObject(key),
         origin          |-> IF loses THEN getReputationProofObject(originKey(entry)) ELSE noProof,
         originAdjacent  |-> IF loses THEN neighbourProof(originKey(entry)) ELSE noProof,
         child           |-> IF child THEN getReputationProofObject(childKey(rel, entry)) ELSE noProof,
         childAdjacent   |-> IF counts THEN neighbourProof(childKey(rel, entry)) ELSE noProof,
         adjacent        |-> neighbourProof(key)]

justify(updateNumber) ==
    /\ lastAgree' = firstDisagree
    /\ firstDisagree' = justificationOf(updateNumber)
    /\ justificationTree' =
           insert(justificationTree, bitsOf(updateNumber, JustificationWidth), jhLeafValue)

\* Never below 0 nor above the maximum.
insertReputation(key, amount) ==
    LET value == Max({0, Min({reputationOf(key) + amount, MaxReputation})})
        uid   == IF exists(key) THEN reputations[key].uid ELSE nReputations + 1
    IN  /\ reputations' = (key :> [value |-> value, uid |-> uid]) @@ reputations
        /\ order' = IF exists(key) THEN order ELSE Append(order, key)
        /\ nReputations' = IF exists(key) THEN nReputations ELSE nReputations + 1
        /\ reputationTree' = insert(reputationTree, hashOf(key), <<value, uid>>)

nextUpdateNumber == firstDisagree.updateNumber + 1

addSingleReputationUpdate ==
    LET key == getKeyForUpdateNumber(nextUpdateNumber)
    IN  /\ phase = "replaying" /\ nextUpdateNumber < totalnUpdates
        /\ reverseReputationHashLookup' = reverseReputationHashLookup \cup {key}
        /\ justify(nextUpdateNumber)
        /\ insertReputation(key, amountOf(nextUpdateNumber))
        /\ UNCHANGED <<logVars, rootHashNLeaves, phase, cycle, nReputationsBeforeLatestLog>>

-----------------------------------------------------------------------------
(* The cycle around it.                                                    *)

Log(user, amount, skill) ==
    /\ phase = "logging" /\ cycle < Len(EntriesPerCycle) /\ Len(log) < EntriesPerCycle[cycle + 1]
    /\ appendReputationUpdateLog(user, amount, skill)
    /\ UNCHANGED <<rootHashNLeaves, phase, cycle, minerVars>>

GrowSkillTree ==
    /\ AddSkill
    /\ UNCHANGED <<rootHashNLeaves, phase, cycle, minerVars>>

startReplay ==
    /\ phase = "logging" /\ log # <<>>
    /\ phase' = "replaying"
    /\ nReputationsBeforeLatestLog' = nReputations
    /\ justificationTree' = getNewPatriciaTree
    /\ reverseReputationHashLookup' = {}
    /\ lastAgree' = NoStep /\ firstDisagree' = NoStep
    /\ UNCHANGED <<logVars, rootHashNLeaves, cycle, reputations, order, nReputations, reputationTree>>

\* The leaf after the last update.
finishReplay ==
    /\ phase = "replaying" /\ nextUpdateNumber = totalnUpdates
    /\ phase' = "replayed"
    /\ lastAgree' = firstDisagree
    /\ firstDisagree' = [updateNumber |-> totalnUpdates, jhLeafValue |-> jhLeafValue,
                         justUpdated |-> getReputationProofObject(getKeyForUpdateNumber(totalnUpdates - 1))]
    /\ justificationTree' =
           insert(justificationTree, bitsOf(totalnUpdates, JustificationWidth), jhLeafValue)
    /\ UNCHANGED <<logVars, rootHashNLeaves, cycle, reputations, order, nReputations,
                   nReputationsBeforeLatestLog, reputationTree, reverseReputationHashLookup>>

confirmNewHash ==
    /\ phase = "replayed"
    /\ phase' = "logging" /\ cycle' = cycle + 1
    /\ rootHashNLeaves' = nReputations
    /\ log' = <<>>
    /\ UNCHANGED <<skills, minerVars>>

\* A restart: the confirmed state is read back from the database, by uid, and
\* the tree built anew.
loadState ==
    LET rows == [u \in 1 .. Cardinality(DOMAIN reputations) |->
                    CHOOSE k \in DOMAIN reputations : reputations[k].uid = u]
        Insert(tree, k) == insert(tree, hashOf(k), <<reputations[k].value, reputations[k].uid>>)
    IN  /\ phase = "logging" /\ cycle > 0
        /\ order' = rows
        /\ nReputations' = Len(rows)
        /\ reputationTree' = FoldLeft(Insert, getNewPatriciaTree, rows)
        /\ nReputationsBeforeLatestLog' = 0
        /\ justificationTree' = getNewPatriciaTree
        /\ reverseReputationHashLookup' = {}
        /\ lastAgree' = NoStep /\ firstDisagree' = NoStep
        /\ UNCHANGED <<logVars, rootHashNLeaves, phase, cycle, reputations>>

-----------------------------------------------------------------------------
(* A dispute over the last step.                                           *)

\* Absence is shown with the neighbour's proof in the place of the key's own.
withNeighbour(own, neighbour) ==
    IF neighbour.key = NoKey THEN own
    ELSE [own EXCEPT !.uid = neighbour.uid, !.branchMask = neighbour.branchMask,
                     !.siblings = neighbour.siblings]

\* What respondToChallenge sends when the search ended at firstDisagree.
challengeArguments ==
    LET agreeIdx == lastAgree.updateNumber
        after    == firstDisagree.justUpdated
    IN  [key             |-> getKeyForUpdateNumber(agreeIdx),
         logEntry        |-> IF agreeIdx >= nDecays THEN logEntryOf(agreeIdx) ELSE 1,
         agreeNLeaves    |-> lastAgree.nextUpdate.nLeaves,
         disagreeNLeaves |-> after.nLeaves,
         agree           |-> lastAgree.nextUpdate,
         disagree        |-> after,
         proof           |-> after,
         origin          |-> withNeighbour(lastAgree.origin, lastAgree.originAdjacent),
         child           |-> withNeighbour(lastAgree.child, lastAgree.childAdjacent),
         originAdjacent  |-> lastAgree.originAdjacent,
         childAdjacent   |-> lastAgree.childAdjacent,
         adjacent        |-> lastAgree.adjacent]

Next ==
    \/ \E user \in Users, amount \in Amounts, skill \in 1 .. Len(skills) : Log(user, amount, skill)
    \/ GrowSkillTree
    \/ startReplay
    \/ addSingleReputationUpdate
    \/ finishReplay
    \/ confirmNewHash
    \/ loadState

Spec == Init /\ [][Next]_vars

-----------------------------------------------------------------------------
TypeOK ==
    /\ phase \in {"logging", "replaying", "replayed"}
    /\ DOMAIN reputations = Range(order) /\ Len(order) = nReputations
    /\ \A k \in DOMAIN reputations : reputations[k].value \in 0 .. MaxReputation
    /\ nReputationsBeforeLatestLog \in 0 .. nReputations
    /\ reverseReputationHashLookup \subseteq DOMAIN reputations

\* An empty state has no neighbour to show that a key is absent, so the very
\* first update cannot be defended; the network starts with a state accepted
\* without dispute.
disputable ==
    phase # "logging" /\ lastAgree.updateNumber >= 0 /\ lastAgree.nextUpdate.nLeaves > 0

\* Whatever was logged, and whenever skills were added or the miner restarted,
\* the contract accepts the honest miner's defence of every step it computed.
HonestStepAccepted ==
    disputable => canRespondToChallenge(challengeArguments, firstDisagree.updateNumber,
                                        lastAgree.jhLeafValue, firstDisagree.jhLeafValue)

nextKey == getKeyForUpdateNumber(nextUpdateNumber)

nextInLog == phase = "replaying" /\ nextUpdateNumber < totalnUpdates /\ nReputations > 0

\* What nextKey is before and after the next update.
computedBefore == [value |-> reputationOf(nextKey),
                   uid   |-> IF exists(nextKey) THEN reputations[nextKey].uid ELSE 0]

computedAfter ==
    [value |-> Max({0, Min({reputationOf(nextKey) + amountOf(nextUpdateNumber), MaxReputation})}),
     uid   |-> IF exists(nextKey) THEN reputations[nextKey].uid ELSE nReputations + 1]

withLeaf(tree, key, given) == insert(tree, hashOf(key), <<given.value, given.uid>>)

\* The next step as a rival may tell it, from any claims about nextKey before and
\* after it, tree as the rest of the state after it, and a neighbour for a new key;
\* and the state it ends in; j has the proofs of the state before.
forgedStep(j, before, after, tree, isBorn, neighbour) ==
    LET n == IF isBorn THEN nReputations + 1 ELSE nReputations
        told == withLeaf(tree, nextKey, after)
    IN  <<[key |-> nextKey, agree |-> before, disagree |-> after,
           proof |-> getProof(told, hashOf(nextKey)),
           logEntry |-> IF nextUpdateNumber >= nDecays THEN logEntryOf(nextUpdateNumber) ELSE 1,
           agreeNLeaves |-> nReputations, disagreeNLeaves |-> n,
           origin |-> withNeighbour(j.origin, j.originAdjacent), originAdjacent |-> j.originAdjacent,
           child |-> withNeighbour(j.child, j.childAdjacent), childAdjacent |-> j.childAdjacent,
           adjacent |-> neighbour],
          <<told.root, n>>>>

isAccepted(f) == canRespondToChallenge(f[1], nextUpdateNumber + 1, jhLeafValue, f[2])

\* Claims near the truth.
claimsOf(given) ==
    [value : {given.value + n : n \in -1 .. 1} \cap Nat, uid : {given.uid, given.uid + 1}]

computedState == withLeaf(reputationTree, nextKey, computedAfter).root

\* "no other changes to the reputation state tree have been slipped in"
\* (ReputationMiningCycleRespond.sol): a reputation that exists can be taken to no
\* other state than the one computed, whatever it is said to have been before, nor
\* be passed off as new, whichever neighbour is shown for it; and with no reputation,
\* new or not, can a second one be changed.
DishonestStepRejected ==
    nextInLog =>
        LET j == justificationOf(nextUpdateNumber) IN
        /\ exists(nextKey) =>
               \A before \in claimsOf(computedBefore), after \in claimsOf(computedAfter) :
                   LET f == forgedStep(j, before, after, reputationTree, FALSE, noProof)
                   IN  isAccepted(f) => f[2] = <<computedState, nReputations>>
        /\ exists(nextKey) =>
               \A neighbour \in DOMAIN reputations \ {nextKey}, v \in {0, reputationOf(nextKey)} :
                   LET before == [value |-> v, uid |-> 0]
                       after  == [value |-> Max({0, v + amountOf(nextUpdateNumber)}),
                                  uid   |-> nReputations + 1]
                   IN  ~isAccepted(forgedStep(j, before, after, reputationTree, TRUE,
                                              getReputationProofObject(neighbour)))
        /\ \A other \in DOMAIN reputations \ {nextKey} :
               LET changed  == [reputations[other] EXCEPT !.value = @ + 1]
                   tampered == withLeaf(reputationTree, other, changed)
               IN  ~isAccepted(forgedStep(j, computedBefore, computedAfter, tampered,
                                          ~exists(nextKey), neighbourProof(nextKey)))

\* "That our 'after' value is correct" (ReputationMiningCycleRespond.sol), of new
\* reputations too: fails, since what a new one was before is not proved.
OnlyComputedStepAccepted ==
    nextInLog =>
        LET j == justificationOf(nextUpdateNumber) IN
        \A before \in claimsOf(computedBefore), after \in claimsOf(computedAfter) :
            LET f == forgedStep(j, before, after, reputationTree, ~exists(nextKey),
                                neighbourProof(nextKey))
            IN  isAccepted(f) => f[2][1] = computedState

\* The trees hold exactly what their contents determine, with every node they
\* need and, in the reputation tree, no other.
TreesCanonical ==
    /\ reputationTree.root =
           canonicalRoot({<<hashOf(k), <<reputations[k].value, reputations[k].uid>>>> : k \in DOMAIN reputations})
    /\ reputationTree.root # <<>> => reputationTree.nodes = nodesBelow(reputationTree.root[1])
    /\ noDanglingNode(justificationTree)

\* Every leaf of a finished justification tree has a proof of its root, of the
\* length the contract works out from the number of leaves.
JustificationProofs ==
    phase = "replayed" =>
        \A u \in 0 .. totalnUpdates :
            LET key   == bitsOf(u, JustificationWidth)
                proof == getProof(justificationTree, key)
            IN  Len(proof.siblings) = expectedProofLength(totalnUpdates + 1, u)

\* The miner's books and trees agree.
StateSound == TypeOK /\ TreesCanonical /\ JustificationProofs

\* What the contract's comment on losses takes for granted.
NoUnderflow ==
    (phase = "replaying" /\ nextUpdateNumber < totalnUpdates) =>
        reputationOf(getKeyForUpdateNumber(nextUpdateNumber)) + amountOf(nextUpdateNumber) >= 0
=============================================================================
