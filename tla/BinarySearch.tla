---------------------------- MODULE BinarySearch ----------------------------
(***************************************************************************)
(* One dispute, for every size of justification tree and every place where *)
(* the two trees may first differ: both sides confirm their root hash, are *)
(* led by a binary search to one leaf, confirm it and answer the           *)
(* challenge.  Deadlines, and the sides that give up, are in               *)
(* ReputationMiningCycle; here both answer, in any order.  This is the     *)
(* promise that JustificationSearch keeps with real trees.                 *)
(*                                                                         *)
(* Two trees that agree before leaf disagree and differ there have equal   *)
(* left children exactly when the left child ends before disagree.         *)
(***************************************************************************)
EXTENDS DisputeSteps

CONSTANT MaxLeaves   \* the largest tree, of two leaves or more

VARIABLES
    nLeaves,     \* leaves of a tree both sides committed to
    disagree,    \* the first leaf where the trees differ
    entry,       \* each side's DisputedEntry
    jrhNLeaves,  \* each side's Submission.jrhNLeaves
    responses    \* how many rewarded responses each side gave

vars == <<nLeaves, disagree, entry, jrhNLeaves, responses>>

Sides == {"mine", "theirs"}

Opponent(s) == CHOOSE t \in Sides : t # s

\* Both sides prove that leaf 0 is the accepted state, so it is agreed on.
Init ==
    /\ nLeaves \in 2 .. MaxLeaves
    /\ disagree \in 1 .. nLeaves - 1
    /\ entry = [s \in Sides |->
                  [challengeStepCompleted |-> 0, lowerBound |-> 0, upperBound |-> 0]]
    /\ jrhNLeaves = [s \in Sides |-> 0]
    /\ responses = [s \in Sides |-> 0]

Rewarded(s) ==
    /\ responses' = [responses EXCEPT ![s] = @ + 1]
    /\ UNCHANGED <<nLeaves, disagree>>

confirmJustificationRootHash(s) ==
    /\ jrhNLeaves[s] = 0
    /\ jrhNLeaves' = [jrhNLeaves EXCEPT ![s] = nLeaves]
    /\ entry' = [entry EXCEPT ![s] = afterConfirmJRH(@, nLeaves)]
    /\ Rewarded(s)

leftChildrenAgree(e) == disagree >= e.lowerBound + leftWidth(e.upperBound - e.lowerBound + 1)

\* The second response to a step moves the bounds of both sides.
respondToBinarySearchForChallenge(s) ==
    LET mine   == afterBinarySearchResponse(entry[s])
        theirs == entry[Opponent(s)]
        Moved(e) == searchFinished(searchBounds(e, leftChildrenAgree(entry[s])), nLeaves)
    IN  /\ canRespondToBinarySearch(entry[s], jrhNLeaves[s])
        /\ entry' = IF theirs.challengeStepCompleted = mine.challengeStepCompleted
                    THEN [entry EXCEPT ![s] = Moved(mine), ![Opponent(s)] = Moved(theirs)]
                    ELSE [entry EXCEPT ![s] = mine]
        /\ UNCHANGED jrhNLeaves
        /\ Rewarded(s)

confirmBinarySearchResult(s) ==
    /\ canConfirmBinarySearchResult(entry[s], jrhNLeaves[s])
    /\ entry' = [entry EXCEPT ![s] = afterConfirmBinarySearchResult(@, jrhNLeaves[s])]
    /\ UNCHANGED jrhNLeaves
    /\ Rewarded(s)

respondToChallenge(s) ==
    /\ challengeOpen(entry[s], jrhNLeaves[s])
    /\ entry' = [entry EXCEPT ![s] = afterRespondToChallenge(@)]
    /\ UNCHANGED jrhNLeaves
    /\ Rewarded(s)

Respond(s) ==
    \/ confirmJustificationRootHash(s)
    \/ respondToBinarySearchForChallenge(s)
    \/ confirmBinarySearchResult(s)
    \/ respondToChallenge(s)

Next == \E s \in Sides : Respond(s)

\* Each side keeps answering what it can.
Spec == Init /\ [][Next]_vars /\ \A s \in Sides : WF_vars(Respond(s))

-----------------------------------------------------------------------------
(* Properties.                                                             *)

Searching(s) == jrhNLeaves[s] # 0 /\ entry[s].lowerBound # entry[s].upperBound

Responded(s) ==
    /\ jrhNLeaves[s] # 0
    /\ entry[s].lowerBound = entry[s].upperBound
    /\ entry[s].challengeStepCompleted >= 3
    /\ pow2[entry[s].challengeStepCompleted - 3] > jrhNLeaves[s]

\* The bounds always bracket the first leaf the trees differ at, and the leaf
\* before it stays proved equal: when the search ends at lowerBound, the
\* contract judges the step from an agreed state (lowerBound - 1) to a
\* disputed one.
SearchFindsDisagreement ==
    \A s \in Sides :
        jrhNLeaves[s] # 0 =>
            disagree \in entry[s].lowerBound .. entry[s].upperBound

\* A side that has not finished has exactly one thing to do, or waits for the
\* other side to answer the same step of the search: the length of a proof,
\* and the tests that tell the stages apart by comparing powers of two of
\* challengeStepCompleted with the number of leaves, never lock a side out and
\* never offer two stages at once, however uneven the tree.
OneStageAtATime ==
    \A s \in Sides :
        LET e == entry[s]
            n == jrhNLeaves[s]
            open == {stage \in {"jrh", "search", "confirm", "challenge"} :
                       CASE stage = "jrh"       -> n = 0
                         [] stage = "search"    -> canRespondToBinarySearch(e, n)
                         [] stage = "confirm"   -> canConfirmBinarySearchResult(e, n)
                         [] stage = "challenge" -> challengeOpen(e, n)}
            waits == /\ Searching(s)
                     /\ e.challengeStepCompleted > 1
                     /\ e.challengeStepCompleted > entry[Opponent(s)].challengeStepCompleted
        IN  IF waits \/ Responded(s) THEN open = {} ELSE \E stage \in open : open = {stage}

\* disputeRewardSize reckons with at most 3 + log2Ceiling(jrhNLeaves) responses
\* of each side of a pair.
ResponsesWithinBudget ==
    \A s \in Sides : responses[s] <= 3 + log2Ceiling(nLeaves)

\* Two sides that keep answering both reach the end.
BothFinish == <>(\A s \in Sides : Responded(s))
=============================================================================
