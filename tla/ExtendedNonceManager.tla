------------------------ MODULE ExtendedNonceManager ------------------------
(***************************************************************************)
(* packages/package-utils/ExtendedNonceManager.js: one wallet's            *)
(* transactions, and the node that takes them.  The metatransaction        *)
(* broadcaster and the wormhole relayer send everything through one.       *)
(*                                                                         *)
(* sendTransaction is four steps, because it awaits between them: it reads *)
(* the nonces of the transactions it is watching, then asks the node for   *)
(* the wallet's transaction count, picks the first nonce not in use, sends *)
(* and, when the node has answered, starts to watch what it sent.  Blocks  *)
(* are mined, and the handler of "block" runs, in between.                 *)
(*                                                                         *)
(* The node is external: a transaction with the next nonce can be mined,   *)
(* one with a later nonce waits for the gap to be filled, one with the     *)
(* nonce of a waiting one replaces it when it pays enough more, the node   *)
(* may answer with the count of Lag blocks ago, and may forget one.        *)
(***************************************************************************)
EXTENDS Integers, FiniteSets

CONSTANTS
  Transactions,   \* what is sent: one identity per call of sendTransaction
  Overlap,        \* may a call start before the previous one has ended?
  Lag             \* how many transactions the count of the node may be behind

ASSUME NonceAssumption == Overlap \in BOOLEAN /\ Lag \in Nat

VARIABLES
  signedTransactions,   \* what this run of the process watches: {[tx, nonce]}
  sending,              \* [Transactions -> where its call of sendTransaction is]
  pool,                 \* the node's waiting transactions: {[tx, nonce, life]},
                        \*   life 0: sent, but the sender was told it failed
  mined,                \* the mined transactions: {[tx, nonce]}
  count,                \* the wallet's transaction count on chain
  life                  \* which run of the process this is
nonceVars == <<signedTransactions, sending, pool, mined, count, life>>

Idle == [step |-> "idle", pending |-> {}, nonce |-> 0]
noncesOf(txs) == {e.nonce : e \in txs}

NonceInit ==
  /\ signedTransactions = {} /\ pool = {} /\ mined = {}
  /\ sending = [t \in Transactions |-> Idle]
  /\ count = 0 /\ life = 1
-----------------------------------------------------------------------------
(* "At least whatever the endpoint says", skipping the nonces in use. *)
nextNonce_CountsPending(from, pending) == from + Cardinality(pending)
nextNonce_Unskipped(from, pending) == from
nextNonce(from, pending) ==
  CHOOSE n \in from .. from + Cardinality(pending) :
    n \notin pending /\ \A k \in from .. n - 1 : k \in pending

(* The nonces of what is watched, read first ... *)
ReadPending(t) ==
  /\ sending[t].step = "idle"
  /\ Overlap \/ \A u \in Transactions : sending[u].step = "idle"
  /\ sending' = [sending EXCEPT ![t] =
       [step |-> "pending", pending |-> noncesOf(signedTransactions), nonce |-> 0]]
  /\ UNCHANGED <<signedTransactions, pool, mined, count, life>>

(* ... then the node's count, which may be old. *)
ReadCount(t) ==
  /\ sending[t].step = "pending"
  /\ \E answered \in {c \in 0 .. count : c + Lag >= count} :
       sending' = [sending EXCEPT ![t].step = "counted",
                     ![t].nonce = nextNonce(answered, sending[t].pending)]
  /\ UNCHANGED <<signedTransactions, pool, mined, count, life>>

(* The node takes a transaction whose nonce is not mined.  Where another   *)
(* one waits with that nonce it takes the new one in its place, or refuses *)
(* it: whether the new fee is enough higher is left open.                  *)
takes(t) == sending[t].nonce >= count
rivalsOf(t) == {e \in pool : e.nonce = sending[t].nonce}
poolWith(t, run) ==
  (pool \ rivalsOf(t)) \cup {[tx |-> t, nonce |-> sending[t].nonce, life |-> run]}

Submit(t) ==
  /\ sending[t].step = "counted" /\ takes(t)
  /\ pool' = poolWith(t, life)
  /\ sending' = [sending EXCEPT ![t].step = "submitted"]
  /\ UNCHANGED <<signedTransactions, mined, count, life>>

(* An error, of the node or of the connection: nothing is watched, ... *)
refusable(t) == ~ takes(t) \/ rivalsOf(t) # {}
Refuse(t) ==
  /\ sending[t].step = "counted"
  /\ sending' = [sending EXCEPT ![t] = Idle]
  /\ UNCHANGED <<signedTransactions, pool, mined, count, life>>

(* ... not even when it was the answer that was lost: RetryProvider sends  *)
(* the same bytes again, and the node refuses what it has already.         *)
LoseAnswer(t) ==
  /\ sending[t].step = "counted" /\ takes(t)
  /\ pool' = poolWith(t, 0)
  /\ sending' = [sending EXCEPT ![t] = Idle]
  /\ UNCHANGED <<signedTransactions, mined, count, life>>

(* The answer arrives; the request is kept under the transaction's hash. *)
Watch(t) ==
  /\ sending[t].step = "submitted"
  /\ signedTransactions' = signedTransactions
       \cup {[tx |-> t, nonce |-> sending[t].nonce]}
  /\ sending' = [sending EXCEPT ![t] = Idle]
  /\ UNCHANGED <<pool, mined, count, life>>
-----------------------------------------------------------------------------
(* The node. *)
Mine ==
  /\ \E e \in pool :
       /\ e.nonce = count
       /\ pool' = pool \ {e}
       /\ mined' = mined \cup {[tx |-> e.tx, nonce |-> e.nonce]}
  /\ count' = count + 1
  /\ UNCHANGED <<signedTransactions, sending, life>>

Drop(e) ==
  /\ e \in pool
  /\ pool' = pool \ {e}
  /\ UNCHANGED <<signedTransactions, sending, mined, count, life>>

(* The handler of "block" for one watched transaction: mined, it is        *)
(* forgotten.  (Waiting, nothing is done.)                                 *)
Forget(w) ==
  /\ w \in signedTransactions /\ w \in mined
  /\ signedTransactions' = signedTransactions \ {w}
  /\ UNCHANGED <<sending, pool, mined, count, life>>

(* The process ends and another one starts: nothing is watched any more. *)
Restart ==
  /\ signedTransactions' = {}
  /\ sending' = [t \in Transactions |-> Idle]
  /\ life' = life + 1
  /\ UNCHANGED <<pool, mined, count>>

NonceNext ==
  \/ \E t \in Transactions :
       \/ ReadPending(t) \/ ReadCount(t) \/ Submit(t)
       \/ Refuse(t) \/ LoseAnswer(t) \/ Watch(t)
  \/ Mine
  \/ \E e \in pool : Drop(e)
  \/ \E w \in signedTransactions : Forget(w)
  \/ Restart

NonceSpec == NonceInit /\ [][NonceNext]_nonceVars
-----------------------------------------------------------------------------
(* A nonce that is about to be used is not the nonce of a transaction this *)
(* run of the process has waiting at the node: it would replace it, or be  *)
(* refused.  sendTransaction says it will be "definitely not any we've     *)
(* sent and are pending", and the order of its two reads is what makes it  *)
(* so although blocks are mined and transactions forgotten in between.     *)
NonceFree ==
  \A t \in Transactions : sending[t].step = "counted" =>
    \A e \in pool : e.life = life => e.nonce # sending[t].nonce
=============================================================================
