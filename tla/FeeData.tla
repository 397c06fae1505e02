------------------------------- MODULE FeeData -------------------------------
(***************************************************************************)
(* packages/package-utils/getFeeData.js, for the broadcaster's "safeLow":  *)
(* the fees a transaction offers, from what the node suggests and, on two  *)
(* chains, what a gas oracle says of slow and average transactions.        *)
(* Amounts are in small units; MinPriorityFee is the gwei of the code.     *)
(* A fee is legacy, [gasPrice], or EIP-1559, [max, priority].              *)
(***************************************************************************)
EXTENDS Naturals

CONSTANTS
  Chain,            \* "xdai", "mainnet", "arbitrum" or "other"
  MinPriorityFee, DefaultGasPrice,
  NodeFees,         \* what provider.getFeeData may answer
  OracleAnswers     \* [slow, average], what the oracle may answer

Unavailable == [unavailable |-> TRUE]
legacy(price) == [gasPrice |-> price]
is1559(fees) == "max" \in DOMAIN fees
hasOracle == Chain \in {"xdai", "mainnet"}

(* The ratio slow : average, in thousandths, scales the priority fee, and  *)
(* the maximum moves by as much; then the priority fee is at least the     *)
(* minimum, and the maximum moves again.                                   *)
scaled(priority, oracle) ==
  (priority * ((oracle.slow * 1000) \div oracle.average)) \div 1000
withPriority_MaxKept(fees, priority) == [max |-> fees.max, priority |-> priority]
withPriority(fees, priority) ==
  [max |-> (fees.max + priority) - fees.priority, priority |-> priority]
atLeastMinimum(fees) ==
  IF fees.priority < MinPriorityFee THEN withPriority(fees, MinPriorityFee) ELSE fees

fromOracle(fees, oracle) ==
  IF oracle = Unavailable \/ (is1559(fees) /\ oracle.average = 0) THEN fees
  ELSE IF is1559(fees) THEN
    atLeastMinimum(withPriority(fees, scaled(fees.priority, oracle)))
  ELSE legacy(IF oracle.slow # 0 THEN oracle.slow ELSE DefaultGasPrice)

(* Arbitrum has no priority fee: it is 0, beside a legacy price too. *)
withoutOracle(fees) ==
  IF Chain # "arbitrum" THEN fees
  ELSE IF is1559(fees) THEN [fees EXCEPT !.priority = 0]
  ELSE [gasPrice |-> fees.gasPrice, priority |-> 0]

(* Unavailable: the node does not answer where there is nothing to fall    *)
(* back on, and getFeeData throws.                                         *)
getFeeData(node, oracle) ==
  IF ~ hasOracle THEN IF node = Unavailable THEN Unavailable ELSE withoutOracle(node)
  ELSE IF node = Unavailable THEN legacy(DefaultGasPrice)
  ELSE fromOracle(node, oracle)

(* A node refuses an EIP-1559 transaction whose priority fee is above its  *)
(* maximum fee.                                                            *)
payableFees(fees) == is1559(fees) => fees.priority <= fees.max
=============================================================================
