--------------------- MODULE MetatransactionBroadcaster ---------------------
(***************************************************************************)
(* packages/metatransaction-broadcaster/MetatransactionBroadcaster.js: a   *)
(* server that checks what users have signed, and sends it at its own      *)
(* expense.                                                                *)
(*                                                                         *)
(* The queue in front of /broadcast lets one request be processed at a     *)
(* time (external).  A request goes through processTransactionLogic:       *)
(* estimate, check, send through the nonce manager, and, if the node       *)
(* complains of the nonce, all of it again.  Every request to the node is  *)
(* tried five times by RetryProvider, with Outages failures in all.        *)
(*                                                                         *)
(* The nonce manager sends again what the node does not know, but it kept  *)
(* the request and not the signed bytes, so provider.sendTransaction       *)
(* rejects, nobody catches it, and the process ends.  A supervisor         *)
(* (external) starts it again; the table of addresses survives, the        *)
(* requests in progress and the watched transactions do not.               *)
(*                                                                         *)
(* Each request is one of Transactions.  Its body decides twice: payload   *)
(* or deadline choose what is sent, target and spender what is checked.    *)
(***************************************************************************)
EXTENDS ExtendedNonceManager, MetatransactionRules, FeeData

CONSTANTS
  Bodies,          \* [Transactions -> what each request may ask for]
  MaxAttempts,     \* RetryProvider's 5
  Outages,         \* bound: failed, stale or lost answers of the node
  MaxKills, MaxDrops   \* bounds: kills from outside, transactions dropped

ASSUME BroadcasterAssumption == ~ Overlap /\ MaxAttempts \in Nat \ {0}

VARIABLES
  initialised,   \* has initialise ended?  The server listens before it
  addresses,     \* the table: [addresses -> 1, or 2 for the text "true"]
  requests,      \* [Transactions -> [body, answer]]
  feeData,       \* the fees of the request in progress
  queue,         \* the requests that wait, and the one in progress, first
  step,          \* where processTransactionLogic is
  attempt,       \* the try of the current request to the node
  unread,        \* history: the requests with a motion that was not read
  outbid,        \* history: {[tx, run, by]}, tx of one run of the process
                 \*   replaced at the node by a transaction of the run by
  outages, kills, drops   \* how often each has happened
processVars == <<initialised, addresses, requests, feeData, queue, step, attempt>>
faultVars == <<outages, kills, drops>>
histories == <<unread, outbid>>
vars == <<processVars, faultVars, histories, nonceVars>>

\* An absent field of a body.
NoPayload == [call |-> "none"]
EmptyBody == [payload |-> NoPayload, deadline |-> FALSE, target |-> NoAddress,
              spender |-> NoAddress, user |-> NoAddress]
NotAsked == [body |-> EmptyBody, answer |-> "none"]

Init ==
  /\ NonceInit
  /\ initialised = FALSE /\ addresses = [a \in {} |-> 1]
  /\ requests = [t \in Transactions |-> NotAsked]
  /\ queue = <<>> /\ step = "start" /\ attempt = 1 /\ feeData = Unavailable
  /\ outages = 0 /\ kills = 0 /\ drops = 0
  /\ unread = {} /\ outbid = {}

current == Head(queue)
body == requests[current].body
busy(where) == queue # <<>> /\ step = where

proceed(to) == step' = to /\ attempt' = 1 /\ UNCHANGED <<requests, queue>>
answer(a) ==
  /\ requests' = [requests EXCEPT ![current].answer = a]
  /\ queue' = Tail(queue) /\ step' = "start" /\ attempt' = 1
  /\ feeData' = Unavailable
-----------------------------------------------------------------------------
(* /broadcast *)
Post(t, b) ==
  /\ requests[t].answer = "none" /\ b \in Bodies[t]
  /\ requests' = [requests EXCEPT ![t] = [NotAsked EXCEPT !.body = b, !.answer = "waiting"]]
  /\ queue' = Append(queue, t)
  /\ UNCHANGED <<initialised, addresses, feeData, step, attempt, faultVars, histories, nonceVars>>

(* What is sent: a metatransaction if there is a payload, a permit if      *)
(* there is a deadline.                                                    *)
endpoint(b) ==
  IF b.payload # NoPayload THEN "metatransaction"
  ELSE IF b.deadline THEN "permit" ELSE "unknown"

(* processMetatransaction, processEIP2612Transaction: the contract, which  *)
(* needs a target and what initialise loads last, and then the fees.       *)
Start ==
  /\ busy("start")
  /\ \/ /\ endpoint(body) = "unknown"
        /\ answer("rejected")
     \/ /\ endpoint(body) # "unknown"
        /\ body.target = NoAddress \/ ~ initialised
        /\ answer("error")
     \/ /\ endpoint(body) # "unknown" /\ body.target # NoAddress /\ initialised
        /\ \E node \in NodeFees, oracle \in OracleAnswers :
             LET fees == getFeeData(node, oracle)
             IN IF fees = Unavailable THEN answer("error")
                ELSE /\ feeData' = fees
                     /\ proceed("estimate")
  /\ UNCHANGED <<initialised, addresses, faultVars, histories, nonceVars>>

(* A transaction that would revert, or whose estimate fails, is refused. *)
Estimate ==
  /\ busy("estimate")
  /\ \/ answer("rejected")
     \/ proceed("check") /\ UNCHANGED feeData
  /\ UNCHANGED <<initialised, addresses, faultVars, histories, nonceVars>>

(* What is checked: the spender alone where there is one (a body without   *)
(* spender or payload does not pass the estimate).  lost are the questions *)
(* the node has not answered.                                              *)
valid(lost) ==
  IF body.spender # NoAddress THEN isAddressValid(addresses, lost, body.spender)
  ELSE doValidTransactionChecks(addresses, lost, body.target, body.payload, body.user)
questions(lost) ==
  IF body.spender # NoAddress THEN askedFor(addresses, body.spender)
  ELSE asked(addresses, lost, body.target, body.payload, body.user)
firstAsked == IF body.spender # NoAddress THEN body.spender ELSE body.target

decide(lost) ==
  /\ addresses' = remembered(addresses, lost, questions(lost))
  /\ unread' = IF \E q \in lost : q.ask = "motion" THEN unread \cup {current} ELSE unread
  /\ IF searchesForEver(questions(lost), lost, body.user)
     THEN proceed("search") /\ UNCHANGED feeData
     ELSE IF valid(lost) THEN proceed("send") /\ UNCHANGED feeData
     ELSE answer("rejected")

Check ==
  /\ busy("check") /\ decide({})
  /\ UNCHANGED <<initialised, outbid, faultVars, nonceVars>>

(* The loop for the user's last call goes on: a question is answered. *)
Search ==
  /\ busy("search") /\ attempt # 1
  /\ proceed("search")
  /\ UNCHANGED <<initialised, addresses, feeData, faultVars, histories, nonceVars>>

(* execute: the nonce manager's steps, for the request in progress. *)
stale(t) == sending[t].step = "pending"
  /\ sending'[t].nonce # nextNonce(count, sending[t].pending)

replacing == outbid' = outbid \cup
  {[tx |-> e.tx, run |-> e.life, by |-> life] : e \in pool \ pool'}

SendStep ==
  /\ busy("send")
  /\ \/ ReadPending(current) /\ UNCHANGED <<faultVars, outbid>>
     \/ /\ ReadCount(current)
        /\ outages' = IF stale(current) THEN outages + 1 ELSE outages
        /\ outages' <= Outages
        /\ UNCHANGED <<kills, drops, outbid>>
     \/ Submit(current) /\ replacing /\ UNCHANGED faultVars
  /\ attempt' = 1
  /\ UNCHANGED <<initialised, addresses, requests, feeData, queue, step, unread>>

Sent ==
  /\ busy("send") /\ Watch(current)
  /\ answer("success")
  /\ UNCHANGED <<initialised, addresses, faultVars, histories>>

NonceRefused_SameNonce ==
  /\ busy("send") /\ sending[current].step = "counted" /\ refusable(current)
  /\ \/ /\ sending[current].nonce < count
        /\ proceed("send") /\ UNCHANGED <<feeData, nonceVars>>
     \/ /\ sending[current].nonce >= count
        /\ Refuse(current) /\ answer("error")
  /\ UNCHANGED <<initialised, addresses, faultVars, histories>>

(* The node refuses the nonce.  If the error's body speaks of the nonce    *)
(* everything is tried again; if it does not, or there is no body, it is   *)
(* an error.                                                               *)
NonceRefused ==
  /\ busy("send") /\ Refuse(current) /\ refusable(current)
  /\ \/ /\ sending[current].nonce < count
        /\ proceed("estimate") /\ UNCHANGED feeData
     \/ answer("error")
  /\ UNCHANGED <<initialised, addresses, faultVars, histories>>

(* RetryProvider.attemptCheck: a failed request is repeated, but not after *)
(* the fifth time.                                                         *)
attemptCheck == attempt # MaxAttempts
asking ==
  \/ step \in {"estimate", "search"}
  \/ step = "check" /\ canBeLost(questions({})) # {}
  \/ step = "send" /\ sending[current].step \in {"pending", "counted"}

(* What becomes of a request one of whose questions is not answered.  In   *)
(* the checks it depends on the question: the first isColony is outside    *)
(* every try, the others are caught, and something is not valid for it, or *)
(* a motion is not seen.                                                   *)
giveUp ==
  \/ /\ step \in {"estimate", "send"}
     /\ answer(IF step = "estimate" THEN "rejected" ELSE "error")
     /\ sending' = [sending EXCEPT ![current] = Idle]
     /\ UNCHANGED <<addresses, unread>>
  \/ /\ step = "check" /\ AddressOf(firstAsked) \in canBeLost(questions({}))
     /\ answer("error")
     /\ UNCHANGED <<addresses, unread, sending>>
  \/ /\ step = "check"
     /\ \E q \in canBeLost(questions({})) : decide({q})
     /\ UNCHANGED sending
  \/ step = "search" /\ decide({CallsOf(body.user)}) /\ UNCHANGED sending

Unanswered ==
  /\ queue # <<>> /\ asking /\ outages < Outages
  /\ outages' = outages + 1
  /\ \/ /\ attemptCheck
        /\ attempt' = attempt + 1
        /\ UNCHANGED <<addresses, requests, feeData, queue, step, sending, unread>>
     \/ ~ attemptCheck /\ giveUp
  /\ UNCHANGED <<initialised, outbid, kills, drops, signedTransactions, pool, mined, count, life>>

(* Only the answer is lost; the node refuses the repetitions. *)
AnswerLost ==
  /\ busy("send") /\ LoseAnswer(current) /\ outages < Outages
  /\ outages' = outages + 1
  /\ replacing
  /\ answer("error")
  /\ UNCHANGED <<initialised, addresses, unread, kills, drops>>
-----------------------------------------------------------------------------
(* The process *)
initialise ==
  /\ ~ initialised
  /\ initialised' = TRUE
  /\ UNCHANGED <<addresses, requests, feeData, queue, step, attempt, faultVars, histories, nonceVars>>

Dies ==
  /\ Restart
  /\ initialised' = FALSE
  /\ requests' = [t \in Transactions |->
       IF requests[t].answer = "waiting" THEN [requests[t] EXCEPT !.answer = "lost"]
       ELSE requests[t]]
  /\ queue' = <<>> /\ step' = "start" /\ attempt' = 1 /\ feeData' = Unavailable
  /\ UNCHANGED <<addresses, histories>>

(* The nonce manager's handler of "block". *)
BlockSeen == \E w \in signedTransactions : Forget(w) /\ UNCHANGED <<processVars, faultVars, histories>>

Rebroadcast ==
  /\ \E w \in signedTransactions :
       /\ w \notin mined
       /\ \A e \in pool : e.tx # w.tx
  /\ Dies /\ UNCHANGED faultVars

Kill == kills < MaxKills /\ kills' = kills + 1 /\ Dies /\ UNCHANGED <<outages, drops>>

NodeMines == Mine /\ UNCHANGED <<processVars, faultVars, histories>>
NodeDrops ==
  /\ drops < MaxDrops /\ drops' = drops + 1
  /\ \E e \in pool : Drop(e)
  /\ UNCHANGED <<processVars, outages, kills, histories>>

Next ==
  \/ \E t \in Transactions : \E b \in Bodies[t] : Post(t, b)
  \/ Start \/ Estimate \/ Check \/ Search \/ SendStep \/ Sent \/ NonceRefused
  \/ Unanswered \/ AnswerLost
  \/ initialise \/ BlockSeen \/ Rebroadcast \/ Kill
  \/ NodeMines \/ NodeDrops

(* The node goes on mining, and the process's calls return (but not the    *)
(* search for the calls of a user who made none).                          *)
Fairness ==
  /\ WF_vars(Start) /\ WF_vars(Estimate) /\ WF_vars(Check)
  /\ WF_vars(SendStep) /\ WF_vars(Sent) /\ WF_vars(NonceRefused)
  /\ WF_vars(initialise) /\ WF_vars(NodeMines)

Spec == Init /\ [][Next]_vars /\ Fairness
-----------------------------------------------------------------------------
onChain == pool \cup {[tx |-> w.tx, nonce |-> w.nonce, life |-> 0] : w \in mined}

(* What a request has the broadcaster pay for, and whether that is all     *)
(* right: calls of known contracts, arbitrary ones only over bridges, and  *)
(* token calls towards them, however deep the call is hidden in multicalls *)
(* and motions.                                                            *)
isPayable(b) ==
  IF endpoint(b) = "permit" THEN b.spender \in recognised
  ELSE \A f \in effects(b.target, b.payload) : payable(f.target, f.tx, b.user)

(* Nothing else is paid for (206-292), whatever was answered from the      *)
(* table instead of the chain, and whatever question was lost; with two    *)
(* exceptions the code makes: a payload beside a spender is not looked at  *)
(* (371), and a motion that could not be read is allowed (268).            *)
ForbiddenNeverPaid ==
  \A e \in onChain :
    LET b == requests[e.tx].body
    IN \/ isPayable(b)
       \/ endpoint(b) = "metatransaction" /\ b.spender \in recognised
       \/ e.tx \in unread

(* Without the exceptions: false. *)
OnlyPayablePaid == \A e \in onChain : isPayable(requests[e.tx].body)

(* What is sent offers fees a node accepts, whatever the oracle says. *)
FeesPayable == busy("send") => payableFees(feeData)

(* Every request is answered: tried again and again, it ends, through the  *)
(* nonce errors of 424-429 and RetryProvider's repetitions, unless the     *)
(* process ends first; or it waits, with all that are behind it, for the   *)
(* search that "TODO: avoid endless loop here if user never sent a metatx" *)
(* (314) is about.                                                         *)
EveryRequestAnswered ==
  \A t \in Transactions :
    requests[t].answer = "waiting" ~> (requests[t].answer # "waiting" \/ []busy("search"))

(* Without the exception: false. *)
EveryRequestEnds ==
  \A t \in Transactions :
    requests[t].answer = "waiting" ~> requests[t].answer # "waiting"

(* A transaction whose hash was given to the user is mined in the end, if  *)
(* the node drops none: no nonce is left out below it, through restarts,   *)
(* stale counts and lost answers; unless a later run of the process, which *)
(* watches nothing at first, has used its nonce again and paid more.       *)
SuccessIsMined ==
  \A t \in Transactions :
    requests[t].answer = "success" ~>
      \/ drops > 0
      \/ \E w \in mined : w.tx = t
      \/ \E o \in outbid : o.tx = t /\ o.run < o.by

(* Without a later run's doing: false. *)
SuccessAlwaysMined ==
  \A t \in Transactions :
    requests[t].answer = "success" ~> (drops > 0 \/ \E w \in mined : w.tx = t)
=============================================================================
