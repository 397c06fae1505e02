------------------------------ MODULE TreeShape ------------------------------
(***************************************************************************)
(* The shape of a justification tree: a Patricia tree whose keys are       *)
(* exactly 0 .. n-1, so its shape is a function of n alone.  The contract  *)
(* computes proof lengths from n without ever seeing the tree              *)
(* (ReputationMiningCycleCommon.sol); leafDepth is the tree itself.        *)
(***************************************************************************)
EXTENDS Naturals

\* 2^k
pow2[k \in Nat] == IF k = 0 THEN 1 ELSE 2 * pow2[k - 1]

\* Least k with 2^k >= v (v > 0).
log2Ceiling(v) == CHOOSE k \in 0 .. v : pow2[k] >= v /\ \A j \in 0 .. k - 1 : pow2[j] < v

nextPowerOfTwoInclusive(v) == pow2[log2Ceiling(v)]

\* Where a node over w > 1 consecutive leaves splits: the left child takes this
\* many, the largest power of two below w.
leftWidth(w) == nextPowerOfTwoInclusive(w) \div 2

expectedProofLengthFull(nNodes, node) ==   \* mutant: as if the tree were full
    log2Ceiling(nNodes)

\* The two while loops, of <<_nNodes, _node>>: walk down the right edge as long as
\* the leaf lies right of the split, then count the layers of the full tree that is
\* left.  _nNodes is the one after its decrement.
proofLayers[x \in Nat \X Nat] ==
    LET half == leftWidth(x[1] + 1)
    IN  IF x[1] # 0 /\ x[2] + 1 > half
        THEN 1 + proofLayers[<<x[1] - half, x[2] - half>>]
        ELSE log2Ceiling(x[1] + 1)

expectedProofLength(nNodes, node) == proofLayers[<<nNodes - 1, node>>]

getOpponentIdx(idx) == IF idx % 2 = 1 THEN idx - 1 ELSE idx + 1

-----------------------------------------------------------------------------
(* The tree.                                                               *)

\* Siblings on the path from leaf x[2] up to the root of a tree of x[1] leaves.
pathLength[x \in Nat \X Nat] ==
    LET half == leftWidth(x[1])
    IN  IF x[1] <= 1 THEN 0
        ELSE 1 + pathLength[IF x[2] < half THEN <<half, x[2]>>
                                           ELSE <<x[1] - half, x[2] - half>>]

\* From leaf i up to the node over leaves lo .. hi.
leafDepth(lo, hi, i) == pathLength[<<hi - lo + 1, i - lo>>]
=============================================================================
