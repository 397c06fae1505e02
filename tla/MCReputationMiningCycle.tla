---------------------- MODULE MCReputationMiningCycle ----------------------
(***************************************************************************)
(* A few miners, each with a hash of its own, named after it.  A leaf is   *)
(* the state the miner claims after that update, 0 when it is the right    *)
(* one.  Update 1 is of a new key: the contract accepts state 2 after it   *)
(* as well.  An update of a known key keeps what it finds.                 *)
(***************************************************************************)
EXTENDS ReputationMiningCycle

MCNextStates(v, k) == IF k = 1 /\ v = 0 THEN {0, 2} ELSE {v}

\* "late" and "early" first differ from "honest" in different halves of the
\* tree and from each other where "early" leaves the truth, which is where the
\* contract cannot tell it from the truth.  The jrh of "fake" is the root of no
\* tree of the right size.
MCTree ==
    [s \in {"honest", "late", "early", "fake"} |->
        [k \in 0 .. NLeaves - 1 |->
            CASE s = "honest" -> 0
              [] s = "late"   -> IF k = NLeaves - 1 THEN 1 ELSE 0
              [] s = "early"  -> IF k >= 1 THEN 2 ELSE 0
              [] OTHER        -> 3]]

MCConfirmable == {"honest", "late", "early"}

HonestOnly == {"honest"}

MCProposes == [m \in Miners |-> {m}]

OneEntry == [m \in Miners |-> 1]

\* One miner more, "ally", backs the hash of either of two others, and the
\* miner of "early" staked for two entries.
SharedProposes == [m \in Miners |-> IF m = "ally" THEN {"honest", "early"} ELSE {m}]

EarlyOrLate == [m \in Miners |-> IF m = "early" THEN {"late", "early"} ELSE {m}]

EarlyTwice == [m \in Miners |-> IF m = "early" THEN 2 ELSE 1]
=============================================================================
