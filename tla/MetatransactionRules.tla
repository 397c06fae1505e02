------------------------ MODULE MetatransactionRules ------------------------
(***************************************************************************)
(* Which metatransactions the broadcaster pays for: the checks of          *)
(* packages/metatransaction-broadcaster/MetatransactionBroadcaster.js.     *)
(*                                                                         *)
(* A transaction is its target and a call, which the code recognises by    *)
(* its selector alone, whatever the target is:                             *)
(*   [call |-> "arbitrary", targets |-> <<..>>, payloads |-> <<..>>]       *)
(*   [call |-> "finalizeMotion", motion |-> m]                             *)
(*   [call |-> "multicall", actions |-> <<..>>]                            *)
(*   [call |-> c, to |-> a]   c one of the calls of a token                *)
(*   [call |-> "other"]       anything else                                *)
(* addresses is the table of the broadcaster's database.                   *)
(***************************************************************************)
EXTENDS Naturals, Sequences, FiniteSets

CONSTANTS
  Fixed,           \* the network and token locking
  Colonies, OldExtensions,
  Bridges,         \* the two bridge addresses in the code
  Motions,         \* [votings -> [motions -> [altTarget, colony, action]]]
  NetworkCalls     \* the metatransactions sent to the network so far, oldest
                   \* first: [user |-> u, deployed |-> <<token authorities>>]
NoAddress == "0x0"

(* What isAddressValid accepts after asking the chain. *)
recognised == Fixed \cup Colonies \cup OldExtensions

(* What the checks ask the node.  A question whose answer does not come is *)
(* in the set lost: what was being checked is then not valid, except that  *)
(* a motion that cannot be read is taken for no motion.                    *)
AddressOf(a) == [ask |-> "address", at |-> a, motion |-> ""]
ColonyOf(a) == [ask |-> "colony", at |-> a, motion |-> ""]
MotionOf(target, m) == [ask |-> "motion", at |-> target, motion |-> m]
CallsOf(user) == [ask |-> "calls", at |-> user, motion |-> ""]

(* A row of the table decides; without one the chain does. *)
isAddressValid(addresses, lost, a) ==
  IF a \in DOMAIN addresses THEN addresses[a] = 1
  ELSE a \in recognised /\ AddressOf(a) \notin lost

(* INSERT ... ON CONFLICT: the second insertion writes the text "true",    *)
(* which isAddressValid does not read as 1.                                *)
setAddressValid(addresses, as) ==
  [a \in DOMAIN addresses \cup as |->
     IF a \notin as THEN addresses[a]
     ELSE IF a \in DOMAIN addresses THEN 2 ELSE 1]

destinationCalls == {"transfer", "transferFrom", "approve"}

(* The last token authority deployed by the last call of the user; the     *)
(* last of no authorities is an exception, and not valid.  The search goes *)
(* back in steps until it finds a call: for a user who sent none it ends   *)
(* only when the node fails to answer, and nothing was found.              *)
callsOf(user) == SelectSeq(NetworkCalls, LAMBDA c : c.user = user)
isValidSetAuthorityTransaction(lost, tx, user) ==
  LET own == callsOf(user)
      last == own[Len(own)].deployed
  IN CallsOf(user) \notin lost /\ own # <<>> /\ last # <<>> /\ last[Len(last)] = tx.to

isTokenTransactionValid(addresses, lost, tx, user) ==
  \/ tx.call \in destinationCalls /\ isAddressValid(addresses, lost, tx.to)
  \/ tx.call = "setAuthority" /\ isValidSetAuthorityTransaction(lost, tx, user)
  \/ tx.call = "setOwner" /\ tx.to \in Colonies /\ ColonyOf(tx.to) \notin lost

isBridgeAddress(a) == a \in Bridges

(* Arbitrary transactions may only pass messages over known bridges. *)
toBridges(tx) ==
  /\ Len(tx.targets) = Len(tx.payloads)
  /\ \A i \in DOMAIN tx.targets :
       isBridgeAddress(tx.targets[i]) /\ tx.payloads[i] = "requireToPassMessage"

motionExists(target, m) == target \in DOMAIN Motions /\ m \in DOMAIN Motions[target]
motionRead(lost, target, m) == motionExists(target, m) /\ MotionOf(target, m) \notin lost
motionTarget(target, m) ==
  LET motion == Motions[target][m]
  IN IF motion.altTarget = NoAddress THEN motion.colony ELSE motion.altTarget

(* A motion that cannot be read, like any payload that cannot be parsed,   *)
(* is none of the calls the function looks for, and allowed.               *)
RECURSIVE isColonyFamilyTransactionAllowed(_, _, _, _, _)
doValidTransactionChecks(addresses, lost, target, tx, user) ==
  \/ /\ isAddressValid(addresses, lost, target)
     /\ isColonyFamilyTransactionAllowed(addresses, lost, target, tx, user)
  \/ isTokenTransactionValid(addresses, lost, tx, user)
isMotionAllowed(addresses, lost, target, m, user) ==
  doValidTransactionChecks(addresses, lost, motionTarget(target, m), Motions[target][m].action, user)
isColonyFamilyTransactionAllowed_Flat(addresses, lost, target, tx, user) ==
  CASE tx.call = "arbitrary" -> toBridges(tx)
    [] tx.call = "finalizeMotion" /\ motionRead(lost, target, tx.motion) ->
         isMotionAllowed(addresses, lost, target, tx.motion, user)
    [] OTHER -> TRUE
isColonyFamilyTransactionAllowed(addresses, lost, target, tx, user) ==
  CASE tx.call = "arbitrary" -> toBridges(tx)
    [] tx.call = "finalizeMotion" /\ motionRead(lost, target, tx.motion) ->
         isMotionAllowed(addresses, lost, target, tx.motion, user)
    [] tx.call = "multicall" ->
         \A i \in DOMAIN tx.actions :
           isColonyFamilyTransactionAllowed(addresses, lost, target, tx.actions[i], user)
    [] OTHER -> TRUE

(* The questions on the way: a multicall is left at the first action that  *)
(* is not allowed, and an address with a row is not asked for.             *)
RECURSIVE askedByColonyChecks(_, _, _, _, _)
askedFor(addresses, a) == {AddressOf(b) : b \in {a} \ DOMAIN addresses}
asked(addresses, lost, target, tx, user) ==
  askedFor(addresses, target)
    \cup (IF tx.call \in destinationCalls THEN askedFor(addresses, tx.to) ELSE {})
    \cup (IF tx.call = "setOwner" THEN {ColonyOf(tx.to)} ELSE {})
    \cup (IF tx.call = "setAuthority" THEN {CallsOf(user)} ELSE {})
    \cup askedByColonyChecks(addresses, lost, target, tx, user)
askedByColonyChecks(addresses, lost, target, tx, user) ==
  CASE tx.call = "finalizeMotion" /\ motionExists(target, tx.motion) ->
         {MotionOf(target, tx.motion)} \cup
           (IF MotionOf(target, tx.motion) \in lost THEN {}
            ELSE asked(addresses, lost, motionTarget(target, tx.motion),
                   Motions[target][tx.motion].action, user))
    [] tx.call = "multicall" ->
         UNION {askedByColonyChecks(addresses, lost, target, tx.actions[i], user) :
           i \in {j \in DOMAIN tx.actions : \A k \in 1 .. j - 1 :
             isColonyFamilyTransactionAllowed(addresses, lost, target, tx.actions[k], user)}}
    [] OTHER -> {}

(* An address that proves valid gets a row (not setOwner's colony). *)
remembered(addresses, lost, questions) ==
  setAddressValid(addresses, {a \in recognised : AddressOf(a) \in questions \ lost})

(* The fixed addresses are compared, without asking the node. *)
canBeLost(questions) == {q \in questions : q.ask = "address" => q.at \notin Fixed}

searchesForEver(questions, lost, user) ==
  CallsOf(user) \in questions \ lost /\ callsOf(user) = <<>>
-----------------------------------------------------------------------------
(* What a payload does on chain, and what of that is to be paid for.       *)
RECURSIVE effects(_, _)
effects(target, tx) ==
  CASE tx.call = "multicall" ->
         UNION {effects(target, tx.actions[i]) : i \in DOMAIN tx.actions}
    [] tx.call = "finalizeMotion" /\ motionExists(target, tx.motion) ->
         effects(motionTarget(target, tx.motion), Motions[target][tx.motion].action)
    [] OTHER -> {[target |-> target, tx |-> tx]}

payable(target, tx, user) ==
  \/ target \in recognised /\ (tx.call = "arbitrary" => toBridges(tx))
  \/ tx.call \in destinationCalls /\ tx.to \in recognised
  \/ /\ tx.call = "setAuthority"
     /\ \E i \in DOMAIN NetworkCalls :
          LET c == NetworkCalls[i]
          IN /\ c.user = user /\ \A j \in i + 1 .. Len(NetworkCalls) : NetworkCalls[j].user # user
             /\ \E d \in DOMAIN c.deployed :
                  c.deployed[d] = tx.to /\ \A e \in DOMAIN c.deployed : e <= d
  \/ tx.call = "setOwner" /\ tx.to \in Colonies
=============================================================================
