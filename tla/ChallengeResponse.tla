------------------------- MODULE ChallengeResponse --------------------------
(***************************************************************************)
(* respondToChallenge of the mining contract: what it asks of a miner who  *)
(* defends one step of their justification tree.  The step takes the state *)
(* in leaf lowerBound - 1, on which both miners agree, to the state in     *)
(* leaf lowerBound.                                                        *)
(*                                                                         *)
(* r is what the miner sends: the key updated with its value before and    *)
(* after and one proof for both, and proofs of the origin, child and       *)
(* adjacent reputations.  agree and disagree are the leaves of the tree    *)
(* the miner committed to, <<root, nLeaves>>; that a leaf is in that tree  *)
(* is the matter of BinarySearch.                                          *)
(***************************************************************************)
EXTENDS ReputationLog, PatriciaTree

CONSTANTS
    KeyHash,            \* the hash of each key, as a number
    KeyWidth,           \* its bits
    DecayNumerator, DecayDenominator

VARIABLE rootHashNLeaves   \* leaves of the reputation state accepted on chain

hashOf(key) == bitsOf(KeyHash[key], KeyWidth)

\* Integer division as Solidity and ethers do it: towards zero.
quotient(a, b) == IF a < 0 THEN -((-a) \div b) ELSE a \div b

\* State root proved by one key and value.
impliedState(key, value, uid, proof) ==
    <<getImpliedRoot(hashOf(key), <<value, uid>>, proof.branchMask, proof.siblings)>>

isDecay(updateNumber) == updateNumber < rootHashNLeaves

relativeUpdateNumber(updateNumber, entry) ==
    updateNumber - rootHashNLeaves - entry.nPreviousUpdates

entryCovers(updateNumber, entry) ==
    /\ updateNumber - rootHashNLeaves >= entry.nPreviousUpdates
    /\ updateNumber - rootHashNLeaves < entry.nUpdates + entry.nPreviousUpdates

childUpdates(entry) ==
    IF entry.amount < 0 THEN entry.nUpdates \div 2 - 1 - nParents(entry.skill) ELSE 0

\* The key that update rel of an entry must touch.
expectedKey(entry, rel) ==
    LET half     == entry.nUpdates \div 2
        index    == rel % half
        children == childUpdates(entry)
        skill == IF index < children THEN skills[entry.skill].children[index + 1]
                 ELSE IF index < children + nParents(entry.skill)
                      THEN skills[entry.skill].parents[index - children + 1]
                      ELSE entry.skill
    IN  <<skill, IF rel < half THEN ColonyWide ELSE entry.user>>

checkKey(r, updateNumber) ==
    IF isDecay(updateNumber)
    THEN r.agree.uid - 1 = updateNumber
    ELSE LET entry == log[r.logEntry]
         IN  /\ entryCovers(updateNumber, entry)
             /\ r.key = expectedKey(entry, relativeUpdateNumber(updateNumber, entry))

isNew(r) == r.disagreeNLeaves = r.agreeNLeaves + 1

\* One proof carries the key from its old value to its new one, so nothing else moved.
proveBefore(r, agree) ==
    isNew(r) \/ <<impliedState(r.key, r.agree.value, r.agree.uid, r.proof), r.agreeNLeaves>> = agree

proveAfter(r, disagree) ==
    <<impliedState(r.key, r.disagree.value, r.disagree.uid, r.proof), r.disagreeNLeaves>> = disagree

proveUID(r) ==
    IF r.agree.uid # 0 THEN r.agree.uid = r.disagree.uid ELSE r.agreeNLeaves + 1 = r.disagree.uid

\* A child loses the share of itself that the entry takes of the origin skill,
\* anything else the amount itself; never more than there is.
lossOf(r, entry, rel) ==
    LET isChild == rel % (entry.nUpdates \div 2) < childUpdates(entry)
        child   == IF rel < childUpdates(entry) THEN r.child.value ELSE r.agree.value
    IN  IF ~isChild THEN Max({-r.origin.value, entry.amount})
        ELSE IF r.origin.value = 0 THEN 0
        ELSE Max({-child, quotient(entry.amount * child, r.origin.value)})

proveValueOfLog(r, updateNumber) ==   \* mutant: a decay is taken on trust
    LET entry == log[r.logEntry]
    IN  \/ isDecay(updateNumber)
        \/ r.disagree.value =
              IF entry.amount >= 0 THEN Min({r.agree.value + entry.amount, MaxReputation})
              ELSE r.agree.value + lossOf(r, entry, relativeUpdateNumber(updateNumber, entry))

proveValue(r, updateNumber) ==
    LET entry == log[r.logEntry]
    IN  IF isDecay(updateNumber)
        THEN r.disagree.value = (r.agree.value * DecayNumerator) \div DecayDenominator
        ELSE IF entry.amount >= 0
        THEN r.disagree.value = Min({r.agree.value + entry.amount, MaxReputation})
        ELSE r.disagree.value =
                 r.agree.value + lossOf(r, entry, relativeUpdateNumber(updateNumber, entry))

firstDifference(a, b) == commonPrefix(hashOf(a), hashOf(b))

\* Either the key is in the agreed state with the value given, or it is worth 0
\* and the proof is that of a neighbour, with no branch where the key would be.
provedOrAbsent(key, given, neighbour, r, agree) ==
    \/ <<impliedState(key, given.value, given.uid, given), r.agreeNLeaves>> = agree
    \/ /\ given.value = 0
       /\ firstDifference(key, neighbour.key) \notin given.branchMask
       /\ <<impliedState(neighbour.key, neighbour.value, given.uid, given), r.agreeNLeaves>> = agree

checkUserOriginReputation(r, updateNumber, agree) ==
    LET entry == log[r.logEntry]
    IN  isDecay(updateNumber) \/ entry.amount >= 0
        \/ provedOrAbsent(<<entry.skill, entry.user>>, r.origin, r.originAdjacent, r, agree)

\* Asked only for a colony-wide child total, whose loss is the user's own.
checkChildReputation(r, updateNumber, agree) ==
    LET entry == log[r.logEntry]
        rel   == relativeUpdateNumber(updateNumber, entry)
    IN  \/ isDecay(updateNumber) \/ rel >= childUpdates(entry) \/ r.origin.value = 0
        \/ provedOrAbsent(<<skills[entry.skill].children[rel + 1], entry.user>>,
                          r.child, r.childAdjacent, r, agree)

\* A new key must hang where its nearest neighbour's path gains one branch.
buildNewSiblingsArray(r, position) ==
    LET newSibling == makeEdge(leafHash(<<r.disagree.value, r.disagree.uid>>),
                               suffixOf(hashOf(r.key), position + 1))
        before     == Cardinality({p \in r.adjacent.branchMask : p < position})
    IN  SubSeq(r.adjacent.siblings, 1, before) \o <<newSibling>>
            \o SubSeq(r.adjacent.siblings, before + 1, Len(r.adjacent.siblings))

checkAdjacentReputation(r, agree, disagree) ==
    LET a        == r.adjacent
        position == firstDifference(a.key, r.key)
        after    == [branchMask |-> a.branchMask \cup {position},
                     siblings   |-> buildNewSiblingsArray(r, position)]
    IN  \/ ~isNew(r)
        \/ /\ <<impliedState(a.key, a.value, a.uid, a), r.agreeNLeaves>> = agree
           /\ position \notin a.branchMask
           /\ <<impliedState(a.key, a.value, a.uid, after), r.disagreeNLeaves>> = disagree

canRespondToChallenge(r, lowerBound, agree, disagree) ==
    /\ r.disagreeNLeaves - r.agreeNLeaves \in {0, 1}
    /\ checkKey(r, lowerBound - 1)
    /\ proveBefore(r, agree)
    /\ proveAfter(r, disagree)
    /\ proveUID(r)
    /\ proveValue(r, lowerBound - 1)
    /\ checkUserOriginReputation(r, lowerBound - 1, agree)
    /\ checkChildReputation(r, lowerBound - 1, agree)
    /\ checkAdjacentReputation(r, agree, disagree)
=============================================================================
