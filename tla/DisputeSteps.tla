---------------------------- MODULE DisputeSteps ----------------------------
(***************************************************************************)
(* What one side of a dispute may do next, and what it does to its         *)
(* DisputedEntry.  An entry e has challengeStepCompleted, lowerBound and   *)
(* upperBound; n is its submission's jrhNLeaves, 0 until the justification *)
(* root hash is confirmed.  The hashes of an entry are not kept: the       *)
(* target, hash1 and hash2 are the node over lowerBound .. upperBound of   *)
(* its tree and that node's two children.                                  *)
(***************************************************************************)
EXTENDS TreeShape

\* confirmJustificationRootHash.
afterConfirmJRH(e, n) ==
    [e EXCEPT !.challengeStepCompleted = @ + 1, !.upperBound = n - 1]

-----------------------------------------------------------------------------
(* respondToBinarySearchForChallenge.                                      *)

\* A proof of exactly the demanded length reaches the target node.  The length
\* is a checked subtraction, and expectedProofLength reverts when n is 0.
proofFits(e, n) ==
    /\ n # 0
    /\ e.challengeStepCompleted >= 1
    /\ expectedProofLength(n, e.lowerBound)
         = leafDepth(e.lowerBound, e.upperBound, e.lowerBound)
             + (e.challengeStepCompleted - 1)

canRespondToBinarySearch(e, n) ==
    e.lowerBound # e.upperBound /\ proofFits(e, n)

afterBinarySearchResponse(e) == [e EXCEPT !.challengeStepCompleted = @ + 1]

\* Mutant: the left half loses its last leaf.
searchBounds_OneShort(e, sameLeft) ==
    LET width == e.upperBound - e.lowerBound + 1
        half  == leftWidth(width)
    IN  IF sameLeft THEN [e EXCEPT !.lowerBound = @ + half]
                    ELSE [e EXCEPT !.upperBound = @ - (width - half) - 1]

\* processBinaryChallengeSearchStep on one of the two entries; sameLeft says
\* that their hash1 agree.
searchBounds(e, sameLeft) ==
    LET width == e.upperBound - e.lowerBound + 1
        half  == leftWidth(width)
    IN  IF sameLeft THEN [e EXCEPT !.lowerBound = @ + half]
                    ELSE [e EXCEPT !.upperBound = @ - (width - half)]

\* When the search ends one step short of the longest one, count that step.
searchFinished(e, n) ==
    IF e.lowerBound = e.upperBound /\ pow2[e.challengeStepCompleted - 1] < n
    THEN [e EXCEPT !.challengeStepCompleted = @ + 1]
    ELSE e

-----------------------------------------------------------------------------
(* confirmBinarySearchResult and respondToChallenge.                       *)

resultUnconfirmed(steps, n) == steps >= 2 /\ pow2[steps - 2] <= n

canConfirmBinarySearchResult(e, n) ==
    /\ n # 0
    /\ e.lowerBound = e.upperBound
    /\ resultUnconfirmed(e.challengeStepCompleted, n)

\* while (2 ** (steps - 2) <= n) steps += 1.
afterConfirmBinarySearchResult(e, n) ==
    [e EXCEPT !.challengeStepCompleted =
        CHOOSE s \in @ .. @ + n :
            ~resultUnconfirmed(s, n) /\ \A r \in @ .. s - 1 : resultUnconfirmed(r, n)]

challengeOpen(e, n) ==
    /\ e.lowerBound = e.upperBound
    /\ e.challengeStepCompleted >= 3
    /\ pow2[e.challengeStepCompleted - 2] > n
    /\ pow2[e.challengeStepCompleted - 3] <= n

afterRespondToChallenge(e) == [e EXCEPT !.challengeStepCompleted = @ + 1]
=============================================================================
