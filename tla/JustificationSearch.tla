------------------------ MODULE JustificationSearch -------------------------
(***************************************************************************)
(* The dispute of BinarySearch over real justification trees: two Patricia *)
(* trees built leaf by leaf, the hashes the contract keeps in a            *)
(* DisputedEntry, and the proofs it is sent.  Side "mine" is the reputation*)
(* miner client: it acts on the stage doBlockChecks picks and sends what   *)
(* ReputationMiner.js computes.  Side "theirs" takes any step the contract *)
(* lets it take.                                                           *)
(*                                                                         *)
(* Leaves repeat: an update that changes nothing leaves the state as it    *)
(* was, so equal subtrees and equal hashes turn up at several places.      *)
(***************************************************************************)
EXTENDS DisputeSteps, PatriciaTree

CONSTANTS
    MaxLeaves,   \* the largest tree
    Width,       \* bits of its keys
    Runs         \* after how many updates the state may change

ASSUME SearchAssumption == MaxLeaves \in 2 .. 2^Width /\ Runs \subseteq Nat \ {0}

VARIABLES
    nLeaves,     \* leaves of the trees, one more than there are updates
    disagree,    \* the first leaf where they differ
    run,         \* every run-th update changes the state
    tree,        \* each side's justification tree
    entry,       \* each side's DisputedEntry
    jrhNLeaves,  \* each side's Submission.jrhNLeaves
    responses    \* rewarded responses of each side

vars == <<nLeaves, disagree, run, tree, entry, jrhNLeaves, responses>>

Sides == {"mine", "theirs"}
Opponent(s) == CHOOSE t \in Sides : t # s
MaxUint == 2^(2 * Width) - 1   \* stands for type(uint256).max, above every leaf
NoHash == makeEdge(leafHash(-1), <<>>)

keyOf(leaf) == bitsOf(leaf, Width)

\* The states of "theirs" are other states from leaf differs on.
leafValue(s, leaf, differs, every) ==
    IF s = "theirs" /\ leaf >= differs THEN MaxLeaves + leaf \div every ELSE leaf \div every

treeOf(s, n, differs, every) ==
    LET upTo[k \in 0 .. n] ==
            IF k = 0 THEN EmptyTree
            ELSE insert(upTo[k - 1], keyOf(k - 1), leafValue(s, k - 1, differs, every))
    IN  upTo[n]

\* startMemberOfPair, for sides that have not confirmed their root.
Init ==
    /\ nLeaves \in 2 .. MaxLeaves
    /\ disagree \in 1 .. nLeaves - 1
    /\ run \in Runs
    /\ tree = [s \in Sides |-> treeOf(s, nLeaves, disagree, run)]
    /\ entry = [s \in Sides |->
                  [challengeStepCompleted |-> 0, lowerBound |-> 0, upperBound |-> MaxUint,
                   target |-> tree[s].root[1], hash1 |-> NoHash, hash2 |-> NoHash]]
    /\ jrhNLeaves = [s \in Sides |-> 0]
    /\ responses = [s \in Sides |-> 0]

jrh(s) == tree[s].root[1]
valueAt(s, leaf) == leafValue(s, leaf, disagree, run)

-----------------------------------------------------------------------------
(* What a side sends.                                                      *)

proofOf(s, leaf) == getProof(tree[s], keyOf(leaf))

impliedBy(s, leaf, branchMask, siblings) ==
    getImpliedRoot(keyOf(leaf), valueAt(s, leaf), branchMask, siblings)

searchSiblingsWhole(s) == proofOf(s, entry[s].lowerBound).siblings   \* mutant: nothing is left out

\* Siblings are dropped from the top until what is left proves the target, or
\* one is left.
searchSiblings(s) ==
    LET leaf  == entry[s].lowerBound
        proof == proofOf(s, leaf)
        dropping[siblings \in {suffixOf(proof.siblings, d) : d \in 0 .. Len(proof.siblings)}] ==
            IF Len(siblings) > 1 /\ impliedBy(s, leaf, proof.branchMask, siblings) # entry[s].target
            THEN dropping[Tail(siblings)] ELSE siblings
    IN  dropping[proof.siblings]

-----------------------------------------------------------------------------
(* What the contract accepts.                                              *)

\* Branch positions of a path in a tree with leaves 0 .. n - 1: those of the last
\* leaf, and everything from where the two paths part.
expectedBranchMask(n, leaf) ==
    LET last == keyOf(n - 1)
    IN  {p \in 0 .. Width - 1 : last[p + 1] = 1 \/ p >= commonPrefix(last, keyOf(leaf))}

provesJRH(s, leaf) ==
    LET siblings == proofOf(s, leaf).siblings
    IN  /\ Len(siblings) = expectedProofLength(nLeaves, leaf)
        /\ impliedBy(s, leaf, expectedBranchMask(nLeaves, leaf), siblings) = jrh(s)

canConfirmJustificationRootHash(s) ==
    jrhNLeaves[s] = 0 /\ provesJRH(s, 0) /\ provesJRH(s, nLeaves - 1)

impliedDuringSearch(s) ==
    LET leaf == entry[s].lowerBound
    IN  impliedBy(s, leaf, expectedBranchMask(jrhNLeaves[s], leaf), searchSiblings(s))

canRespondToBinarySearchForChallenge(s) ==
    LET e == entry[s]
    IN  /\ e.lowerBound # e.upperBound
        /\ jrhNLeaves[s] # 0
        /\ Len(searchSiblings(s))
               = expectedProofLength(jrhNLeaves[s], e.lowerBound) - (e.challengeStepCompleted - 1)
        /\ impliedDuringSearch(s) = e.target

canConfirmResult(s) ==
    canConfirmBinarySearchResult(entry[s], jrhNLeaves[s]) /\ provesJRH(s, entry[s].lowerBound)

canRespondToChallengeOf(s) == challengeOpen(entry[s], jrhNLeaves[s])

Stages == {"jrh", "search", "confirm", "challenge"}

CanTake(s, stage) ==
    CASE stage = "jrh"       -> canConfirmJustificationRootHash(s)
      [] stage = "search"    -> canRespondToBinarySearchForChallenge(s)
      [] stage = "confirm"   -> canConfirmResult(s)
      [] stage = "challenge" -> canRespondToChallengeOf(s)
      [] stage = "none"      -> FALSE

-----------------------------------------------------------------------------
(* The steps.                                                              *)

Rewarded(s) ==
    /\ responses' = [responses EXCEPT ![s] = @ + 1]
    /\ UNCHANGED <<nLeaves, disagree, run, tree>>

confirmJustificationRootHash(s) ==
    /\ canConfirmJustificationRootHash(s)
    /\ jrhNLeaves' = [jrhNLeaves EXCEPT ![s] = nLeaves]
    /\ entry' = [entry EXCEPT ![s] = afterConfirmJRH(@, nLeaves)]
    /\ Rewarded(s)

sameLeftByRight(e, f) == e.hash2 = f.hash2   \* mutant: the right children are compared
sameLeft(e, f) == e.hash1 = f.hash1

\* The second answer to a step moves both sides to one child of their target.
respondToBinarySearchForChallenge(s) ==
    LET implied == impliedDuringSearch(s)
        mine    == [afterBinarySearchResponse(entry[s]) EXCEPT !.hash1 = implied.node.children[1],
                                                               !.hash2 = implied.node.children[2]]
        theirs  == entry[Opponent(s)]
        agree   == sameLeft(mine, theirs)
        Moved(e) == searchFinished([searchBounds(e, agree) EXCEPT
                                       !.target = IF agree THEN e.hash2 ELSE e.hash1], jrhNLeaves[s])
    IN  /\ canRespondToBinarySearchForChallenge(s)
        /\ entry' = IF theirs.challengeStepCompleted = mine.challengeStepCompleted
                    THEN [entry EXCEPT ![s] = Moved(mine), ![Opponent(s)] = Moved(theirs)]
                    ELSE [entry EXCEPT ![s] = mine]
        /\ UNCHANGED jrhNLeaves
        /\ Rewarded(s)

confirmBinarySearchResult(s) ==
    /\ canConfirmResult(s)
    /\ entry' = [entry EXCEPT ![s] = afterConfirmBinarySearchResult(@, jrhNLeaves[s])]
    /\ UNCHANGED jrhNLeaves
    /\ Rewarded(s)

respondToChallenge(s) ==
    /\ canRespondToChallengeOf(s)
    /\ entry' = [entry EXCEPT ![s] = afterRespondToChallenge(@)]
    /\ UNCHANGED jrhNLeaves
    /\ Rewarded(s)

\* The stage doBlockChecks takes the client to be in.
clientStage ==
    LET e == entry["mine"]    n == jrhNLeaves["mine"]
        f == entry["theirs"]  m == jrhNLeaves["theirs"]
        steps == e.challengeStepCompleted
        found == f.upperBound = f.lowerBound /\ e.upperBound = e.lowerBound
    IN  IF n = 0 THEN "jrh"
        ELSE IF m # 0 /\ e.upperBound # e.lowerBound
        THEN IF f.challengeStepCompleted >= steps THEN "search" ELSE "none"
        ELSE IF found /\ steps >= 2 /\ pow2[steps - 2] <= n THEN "confirm"
        ELSE IF /\ f.challengeStepCompleted >= 2 /\ pow2[f.challengeStepCompleted - 2] > m
                /\ steps >= 3 /\ pow2[steps - 2] > n /\ pow2[steps - 3] <= n
        THEN "challenge" ELSE "none"

Take(s, stage) ==
    \/ stage = "jrh" /\ confirmJustificationRootHash(s)
    \/ stage = "search" /\ respondToBinarySearchForChallenge(s)
    \/ stage = "confirm" /\ confirmBinarySearchResult(s)
    \/ stage = "challenge" /\ respondToChallenge(s)

ClientActs == Take("mine", clientStage)
OpponentActs == \E stage \in Stages : Take("theirs", stage)

Next == ClientActs \/ OpponentActs

\* Both keep answering: the client looks at every block, and an opponent that
\* stops is timed out, which is ReputationMiningCycle's matter.  This is
\* WF_vars(ClientActs) /\ WF_vars(OpponentActs) with the guards written out, for
\* ENABLED of an action that builds trees is beyond TLC.
Fairness ==
    /\ []<>(~CanTake("mine", clientStage)) \/ []<><<ClientActs>>_vars
    /\ []<>(\A stage \in Stages : ~CanTake("theirs", stage)) \/ []<><<OpponentActs>>_vars

Spec == Init /\ [][Next]_vars /\ Fairness

-----------------------------------------------------------------------------
(* Properties.                                                             *)

Search == INSTANCE BinarySearch WITH
              entry <- [s \in Sides |->
                          [challengeStepCompleted |-> entry[s].challengeStepCompleted,
                           lowerBound |-> entry[s].lowerBound,
                           upperBound |-> IF jrhNLeaves[s] = 0 THEN 0 ELSE entry[s].upperBound]]

\* The bounds always bracket the first leaf the trees differ at.
SearchFindsDisagreement == Search!SearchFindsDisagreement

\* A side that has not finished has exactly one thing to do, or waits for the
\* other side to answer the same step of the search.
OneStageAtATime == Search!OneStageAtATime

\* No more responses than disputeRewardSize set money aside for.
ResponsesWithinBudget == Search!ResponsesWithinBudget

\* The search ends at the right leaf, a stage at a time, within its budget.
SearchSound == SearchFindsDisagreement /\ OneStageAtATime /\ ResponsesWithinBudget

\* The contract takes every answer the client sends.
ClientNeverRefused == clientStage # "none" => CanTake("mine", clientStage)

\* Against an opponent that does all it can, the client gets through every
\* stage, although it waits where the contract would let it go on.
BothFinish == Search!BothFinish

\* Hashes settle the search as knowing the first difference would.
ImplementsBinarySearch == Search!Init /\ [][Search!Next]_Search!vars
=============================================================================
