----------------------------- MODULE BridgeRelay -----------------------------
(***************************************************************************)
(* What carries the messages of ColonyBridge in the repository's own       *)
(* networks: src/scripts/mockGuardianSpy.ts, which stands in for the       *)
(* guardians and their spy, and src/packages/wormhole-relayer/index.ts,    *)
(* which submits what the spy passes on.                                   *)
(*                                                                         *)
(* The spy listens on both chains and passes messages on one at a time: it *)
(* reads the relayer's transaction count, writes the message to the        *)
(* subscription and waits until the count has grown; the transaction with  *)
(* the count it had read is taken for the one that bridged the message.    *)
(* A caller may have the next messages skipped, and bridged later.         *)
(*                                                                         *)
(* bridgeSkipped does not take the lock that processQueue takes, so its    *)
(* callers wait for it, and for quiet, as the tests do: Quiet.             *)
(*                                                                         *)
(* Messages are named by their index in published.                         *)
(***************************************************************************)
EXTENDS ColonyBridge

CONSTANTS
  Quiet,          \* do callers of bridgeSkipped wait?
  MaxSkips, MaxResubmits   \* bounds

VARIABLES
  heard,          \* the messages whose event the spy has handled
  queue, skipped, skipCount, locked,
  jobs,           \* [Jobs -> what processQueue and bridgeSkipped are doing]
  inbox,          \* written to the subscription, not yet sent by the relayer
  relayed,        \* [chains -> the relayer's transactions, in nonce order]
  skips, resubmits   \* how often each has happened
spyVars == <<heard, queue, skipped, skipCount, locked, jobs>>
relayerVars == <<inbox, relayed>>
vars == <<bridgeVars, spyVars, relayerVars, skips, resubmits>>

Chains == {"home", "foreign"}
Jobs == {"queue", "skipped"}
IdleJob == [at |-> "idle", message |-> 0, nonce |-> 0]
destination(i) == IF published[i].type = "root" THEN "foreign" ELSE "home"

Init ==
  /\ BridgeInit
  /\ heard = {} /\ queue = <<>> /\ skipped = <<>> /\ skipCount = 0
  /\ locked = FALSE /\ jobs = [j \in Jobs |-> IdleJob]
  /\ inbox = {}
  /\ relayed = [c \in Chains |-> <<>>]
  /\ skips = 0 /\ resubmits = 0
-----------------------------------------------------------------------------
(* The spy *)

(* The handler of "LogMessagePublished", after its await.  A chain's       *)
(* events are handled in their order: each waits for the same answer,      *)
(* which the provider remembers.                                           *)
Hear(i) ==
  /\ i \in DOMAIN published \ heard
  /\ \A k \in 1 .. i - 1 : destination(k) = destination(i) => k \in heard
  /\ heard' = heard \cup {i}
  /\ IF skipCount > 0
     THEN skipped' = Append(skipped, i) /\ skipCount' = skipCount - 1 /\ UNCHANGED queue
     ELSE queue' = Append(queue, i) /\ UNCHANGED <<skipped, skipCount>>
  /\ UNCHANGED <<bridgeVars, locked, jobs, relayerVars, skips, resubmits>>

(* A caller sets skipCount. *)
Skip ==
  /\ skips < MaxSkips /\ skips' = skips + 1
  /\ skipCount' = skipCount + 1
  /\ UNCHANGED <<bridgeVars, heard, queue, skipped, locked, jobs, relayerVars, resubmits>>

start(j, i) == jobs' = [jobs EXCEPT ![j] = [IdleJob EXCEPT !.at = "taken", !.message = i]]

processQueue_Unlocked ==
  /\ queue # <<>> /\ jobs["queue"].at \in {"idle", "waiting"}
  /\ locked' = TRUE
  /\ start("queue", Head(queue))
  /\ queue' = Tail(queue)
  /\ UNCHANGED <<bridgeVars, heard, skipped, skipCount, relayerVars, skips, resubmits>>
processQueue ==
  /\ ~ locked /\ queue # <<>>
  /\ locked' = TRUE
  /\ start("queue", Head(queue))
  /\ queue' = Tail(queue)
  /\ UNCHANGED <<bridgeVars, heard, skipped, skipCount, relayerVars, skips, resubmits>>

quiet == ~ locked /\ queue = <<>> /\ heard = DOMAIN published
bridgeSkipped ==
  /\ skipped # <<>> /\ jobs["skipped"].at = "idle" /\ (Quiet => quiet)
  /\ start("skipped", Head(skipped))
  /\ skipped' = Tail(skipped)
  /\ UNCHANGED <<bridgeVars, heard, queue, skipCount, locked, relayerVars, skips, resubmits>>

(* Both jobs: read the count and write the message to the relayer, whose   *)
(* filter it passes.                                                       *)
PassOn(j) ==
  LET i == jobs[j].message
  IN /\ jobs[j].at = "taken"
     /\ jobs' = [jobs EXCEPT ![j].at = "waiting", ![j].nonce = Len(relayed[destination(i)])]
     /\ inbox' = inbox \cup {i}
     /\ UNCHANGED <<bridgeVars, heard, queue, skipped, skipCount, locked, relayed, skips, resubmits>>

grown(j) == Len(relayed[destination(jobs[j].message)]) > jobs[j].nonce
(* getTransactionFromAddressWithNonce *)
transactionOf(j) == relayed[destination(jobs[j].message)][jobs[j].nonce + 1]

SeeTransaction(j) ==
  /\ jobs[j].at = "waiting" /\ grown(j)
  /\ jobs' = [jobs EXCEPT ![j] = IdleJob]
  /\ locked' = (locked /\ j # "queue")
  /\ UNCHANGED <<bridgeVars, heard, queue, skipped, skipCount, relayerVars, skips, resubmits>>
-----------------------------------------------------------------------------
(* The relayer: it handles the messages it is given concurrently, each     *)
(* goes to the other chain, with a gas limit of its own, so that one that  *)
(* reverts is sent as well.  A transaction is mined as it is sent.         *)
Relay(i) ==
  /\ i \in inbox
  /\ inbox' = inbox \ {i}
  /\ relayed' = [relayed EXCEPT ![destination(i)] = Append(@, i)]
  /\ receiveMessage(published[i])
  /\ UNCHANGED <<spyVars, skips, resubmits>>

(* Anybody may submit a message again. *)
Resubmit ==
  /\ resubmits < MaxResubmits /\ resubmits' = resubmits + 1
  /\ \E i \in DOMAIN published : receiveMessage(published[i])
  /\ UNCHANGED <<spyVars, relayerVars, skips>>
-----------------------------------------------------------------------------
UseChains ==
  /\ Quiet => jobs["skipped"].at = "idle"
  /\ Use
  /\ UNCHANGED <<spyVars, relayerVars, skips, resubmits>>

Next ==
  \/ UseChains
  \/ \E i \in DOMAIN published : Hear(i) \/ Relay(i)
  \/ Skip \/ processQueue \/ bridgeSkipped
  \/ \E j \in Jobs : PassOn(j) \/ SeeTransaction(j)
  \/ Resubmit

(* The spy and the relayer run; the core bridge comes back; and somebody   *)
(* makes the calls that send or add what was stored, and bridges what was  *)
(* skipped.                                                                *)
catchUp(A) == A /\ (Quiet => jobs["skipped"].at = "idle")
              /\ UNCHANGED <<spyVars, relayerVars, skips, resubmits>>
Fairness ==
  /\ WF_vars(processQueue) /\ WF_vars(bridgeSkipped)
  /\ WF_vars(\E i \in DOMAIN published : Hear(i))
  /\ WF_vars(\E i \in DOMAIN published : Relay(i))
  /\ \A j \in Jobs : WF_vars(PassOn(j)) /\ WF_vars(SeeTransaction(j))
  /\ WF_vars(catchUp(EnableBridge))
  /\ \A n \in 1 .. MaxSkills :
       WF_vars(catchUp(bridgeSkill(n))) /\ WF_vars(catchUp(addPendingSkill(n)))
  /\ \A c \in Colonies :
       /\ WF_vars(catchUp(addPendingReputationUpdate(c)))
       /\ \A n \in 1 .. MaxUpdates : WF_vars(catchUp(bridgePendingReputationUpdate(c, n)))

Spec == Init /\ [][Next]_vars /\ Fairness
-----------------------------------------------------------------------------
(* The transaction the spy reports for a message is the one that carried   *)
(* that message: one is passed on at a time, and nobody else makes the     *)
(* relayer's count grow.                                                   *)
TransactionIsItsOwn ==
  \A j \in Jobs : jobs[j].at = "waiting" /\ grown(j) => transactionOf(j) = jobs[j].message

(* What a colony emitted reaches home's log, through an outage, skipped    *)
(* and resubmitted messages, unless the assertion of                       *)
(* addPendingReputationUpdate stands in the way for good: an update that   *)
(* was stored early and delivered again in its turn stays stored.          *)
EventuallyLogged ==
  \A c \in Colonies : \A n \in 1 .. MaxUpdates :
    Len(emitted[c]) >= n ~> (reputationUpdateCount[c] >= n \/ []isBlocked(c))

(* Without the exception: false. *)
AlwaysLogged ==
  \A c \in Colonies : \A n \in 1 .. MaxUpdates :
    Len(emitted[c]) >= n ~> reputationUpdateCount[c] >= n
=============================================================================
