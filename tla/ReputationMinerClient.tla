----------------------- MODULE ReputationMinerClient ------------------------
(***************************************************************************)
(* The loop of the reputation miner client (ReputationMinerClient.js)      *)
(* around the miner's state and database (ReputationMiner.js): start,      *)
(* resume or sync, one run of doBlockChecks per block, submission,         *)
(* confirmation, shutdown and kills.  Between two reads of the chain other *)
(* miners go on, so every such read is a step of its own; what the code    *)
(* does without waiting for the network is one step.                       *)
(*                                                                         *)
(* A reputation state is the number of cycles it is the right outcome of;  *)
(* 0 is the empty state and Wrong is any state that is the right outcome   *)
(* of none.  The computation of a state is ReputationMiner's matter, the   *)
(* answers in a dispute are JustificationSearch's.                         *)
(***************************************************************************)
EXTENDS Integers, Sequences, FiniteSets, FiniteSetsExt

CONSTANTS
    MaxCycle,            \* the last cycle that completes
    MiningCycleDuration, \* blocks for which the submission window is open
    ProcessingDelay,     \* blocks to wait before a new log is processed
    Entries,             \* how many entries the client's stake allows
    MaxRivals,           \* other hashes submitted in one cycle
    MaxStops,
    Mishaps              \* which of the rare events below may happen

\* "torn save": a kill hits between two rows of saveCurrentState.
\* "split start": a cycle completes between the first two reads of initialise.
\* "slow run": a run of doBlockChecks begun in one cycle is still not through when
\* the first entry of the next cycle is due.
RareEvents == {"torn save", "split start", "slow run"}

ASSUME ClientAssumption ==
    /\ MaxCycle \in Nat \ {0} /\ MiningCycleDuration \in Nat \ {0}
    /\ ProcessingDelay \in Nat /\ Entries \in Nat /\ MaxRivals \in Nat /\ MaxStops \in Nat
    /\ Mishaps \subseteq RareEvents

VARIABLES
    \* The chain.
    cycle,       \* cycles completed; the hash on chain is of state cycle
    age,         \* blocks since the active cycle opened
    mine,        \* entries the client has in the active cycle
    submitted,   \* the state the client has submitted there, or None
    honest,      \* somebody submitted the right state
    rivals,      \* wrong hashes still in the race
    last,        \* ours is the last of an odd round
    \* The disk.
    saved,       \* states whose rows are all in the database
    begun,       \* states with a row in reputation_states
    cache,       \* the justification cache: <<first, last>> state, or <<>>
    \* The process.
    pc,          \* where it waits for the network
    starting,    \* initialise is not through yet
    closing,     \* close was called
    local,       \* the state of reputationTree
    previous,    \* the state of previousReputationTree
    justified,   \* first and last state of the justification tree, or <<>>
    addr,        \* the cycle whose contract doBlockChecks or initialise read
    logRead,     \* the cycle whose log is replayed, or the events were read up to
    blockAge,    \* age of the block looked at, and
    blockCycle,  \* the cycle that was active in it
    miningCycleAddress,
    blocksSinceCycleCompleted,
    blockSeenWhileLocked,
    submissionIndex,
    bestOf,      \* the cycle best12Submissions was worked out for
    stops,
    \* What was ever submitted: <<cycle, state>>.
    history

chain == <<cycle, age, mine, submitted, honest, rivals, last, history>>
disk  == <<saved, begun, cache>>
tree  == <<local, previous, justified>>
book  == <<miningCycleAddress, blocksSinceCycleCompleted, submissionIndex, bestOf>>
block == <<blockAge, blockCycle>>
vars  == <<chain, disk, pc, starting, closing, tree, addr, logRead, block, book,
           blockSeenWhileLocked, stops>>

Empty == 0
Wrong == -1
None == -2

\* Where the process can be.  "died" is an exception that nothing catches.
Waiting == {"readCycle", "ensure", "sync", "syncing", "since", "process", "replaying", "save", "cache",
            "best", "auto", "submit", "settle", "answer", "confirm"}
Places == {"down", "idle", "died"} \cup Waiting

Init ==
    /\ cycle = 1 /\ age = 0
    /\ mine = {} /\ submitted = None /\ honest = FALSE /\ rivals = 0 /\ last = FALSE
    /\ saved = {} /\ begun = {} /\ cache = <<>>
    /\ pc = "down" /\ starting = FALSE /\ closing = FALSE
    /\ local = Empty /\ previous = Empty /\ justified = <<>>
    /\ addr = 0 /\ logRead = 0 /\ blockAge = 0 /\ blockCycle = 0
    /\ miningCycleAddress = 0 /\ blocksSinceCycleCompleted = 0 /\ submissionIndex = 1 /\ bestOf = 0
    /\ blockSeenWhileLocked = FALSE /\ stops = 0
    /\ history = {}

-----------------------------------------------------------------------------
(* The chain: the other miners, and the contracts as the client finds them. *)

windowClosed == age >= MiningCycleDuration
nUniqueSubmittedHashes == rivals + (IF honest THEN 1 ELSE 0)

NextCycle ==
    /\ cycle' = cycle + 1 /\ age' = 0
    /\ mine' = {} /\ submitted' = None /\ honest' = FALSE /\ rivals' = 0 /\ last' = FALSE
    /\ UNCHANGED history

OthersOnly == UNCHANGED <<disk, pc, starting, closing, tree, addr, logRead, block, book,
                          blockSeenWhileLocked, stops>>

OthersSubmit ==
    /\ ~windowClosed \/ nUniqueSubmittedHashes = 0
    /\ \/ honest' = TRUE /\ UNCHANGED <<rivals, last>>
       \/ rivals < MaxRivals /\ rivals' = rivals + 1 /\ last' \in BOOLEAN /\ UNCHANGED honest
    /\ UNCHANGED <<cycle, age, mine, submitted, history>>
    /\ OthersOnly

\* The rivals of the right state lose (HonestSurvives of ReputationMiningCycle).
OthersSettle ==
    /\ windowClosed /\ honest /\ rivals = 1
    /\ rivals' = 0
    /\ UNCHANGED <<cycle, age, mine, submitted, honest, last, history>>
    /\ OthersOnly

OthersConfirm ==
    /\ windowClosed /\ honest /\ rivals = 0 /\ cycle < MaxCycle
    /\ NextCycle
    /\ OthersOnly

\* An entry is early or late by its hash, which does not name the cycle.
withinTarget(index) == windowClosed \/ age >= index

\* submissionPossible, the contract's guards as the client repeats them.
submissionPossible(index) ==
    /\ ~windowClosed \/ nUniqueSubmittedHashes = 0
    /\ index \notin mine
    /\ withinTarget(index)

\* One miner submits one hash in a cycle.
accepted(index) == submissionPossible(index) /\ submitted \in {None, local}

\* Ours are left without an opponent: the last of an odd round, or ahead of one
\* that is still in an earlier round.
Unopposed == windowClosed /\ rivals = 2 /\ last

-----------------------------------------------------------------------------
(* The database and the cache.                                             *)

\* What the rows of a state make up: the state, or some of it, or nothing.
getAllReputationsInHash(state) ==
    IF state \in saved THEN {state}
    ELSE IF state \in begun THEN {Empty, Wrong}
    ELSE {Empty}

loadState(state) == local' \in getAllReputationsInHash(state)
loadStateToPrevious(state) == previous' \in getAllReputationsInHash(state)
loadJustificationTree == justified' = cache

cycleCompleteEventIsKnownState(state) == state \in begun

replay(state, log) == IF state = log THEN log + 1 ELSE Wrong

saveCurrentState == saved' = saved \cup {local} /\ begun' = begun \cup {local}

-----------------------------------------------------------------------------
(* Blocks, and the lock of doBlockChecks.                                  *)

\* The provider polls: the handler runs for a block, or notes that it came.
NewBlock ==
    /\ (pc \in {"auto", "submit"} /\ addr # cycle) => "slow run" \in Mishaps
    /\ age' = IF age <= MiningCycleDuration THEN age + 1 ELSE age
    /\ IF pc = "idle"
       THEN pc' = "readCycle" /\ blockAge' = age' /\ blockCycle' = cycle
            /\ blockSeenWhileLocked' = FALSE
       ELSE /\ blockSeenWhileLocked' = (pc \in Waiting /\ ~starting /\ ~closing)
            /\ UNCHANGED <<pc, block>>
    /\ UNCHANGED <<cycle, mine, submitted, honest, rivals, last, history, disk, starting, closing,
                   tree, addr, logRead, book, stops>>

\* Unlock; a block that came meanwhile is looked at right away, and close goes
\* on when it waited for this.
endDoBlockChecks ==
    /\ pc' = IF closing THEN "down" ELSE IF blockSeenWhileLocked THEN "readCycle" ELSE "idle"
    /\ IF blockSeenWhileLocked THEN blockAge' = age /\ blockCycle' = cycle
                               ELSE UNCHANGED block
    /\ blockSeenWhileLocked' = FALSE
    /\ UNCHANGED <<closing, starting>>

GoTo(place) == pc' = place /\ UNCHANGED <<starting, closing, blockSeenWhileLocked, block>>

\* The handler of errors.  The contract of a cycle that is over is gone; a call
\* that was turned down was a race that somebody else won; a connection may be
\* reset.  After any of these the run ends and the next block goes on.  It takes
\* every other error to be about a transaction and reads its data; one that is not
\* makes it throw itself, which nothing catches.
caught(error) ==
    IF error \in {"gone", "race", "reset"} THEN endDoBlockChecks ELSE GoTo("died")

\* The log of a new cycle is left alone for a while, then checked for.
cycleIsNew ==
    IF blocksSinceCycleCompleted < ProcessingDelay
    THEN blocksSinceCycleCompleted' = blocksSinceCycleCompleted + 1 /\ endDoBlockChecks
    ELSE UNCHANGED blocksSinceCycleCompleted /\ GoTo("ensure")

readCycle ==
    /\ pc = "readCycle"
    /\ addr' = cycle
    /\ IF cycle # miningCycleAddress
       THEN cycleIsNew
       ELSE UNCHANGED blocksSinceCycleCompleted /\ GoTo("auto")
    /\ UNCHANGED <<stops, chain, disk, tree, logRead, miningCycleAddress, submissionIndex,
                   bestOf>>

\* Mutant: the state we have is taken for the one that was accepted.
ensureSynced_Trusting ==
    /\ pc = "ensure"
    /\ GoTo("process")
    /\ UNCHANGED <<stops, chain, disk, tree, addr, logRead, book>>

\* Is the state we have the one that was accepted?
ensureSynced ==
    /\ pc = "ensure"
    /\ GoTo(IF local = cycle THEN "process" ELSE "sync")
    /\ UNCHANGED <<stops, chain, disk, tree, addr, logRead, book>>

-----------------------------------------------------------------------------
(* sync.                                                                   *)

readEvents ==
    /\ pc = "sync"
    /\ logRead' = cycle
    /\ GoTo("syncing")
    /\ UNCHANGED <<stops, chain, disk, tree, addr, book>>

newestKnown(states) == {s \in states : cycleCompleteEventIsKnownState(s)}

\* The logs after state start are replayed, each result saved, up to state upTo,
\* on what was loaded for start.
Replay(base, start, upTo) ==
    LET states == IF base = start THEN start + 1 .. upTo ELSE {}
    IN  /\ local' = IF base = start THEN upTo ELSE Wrong
        /\ previous' = IF base = start THEN upTo - 1 ELSE Wrong
        /\ saved' = saved \cup states /\ begun' = begun \cup states

\* The logs are replayed from the newest state of the events that is in the
\* database, or from the state we have if it is one of theirs or empty; if none
\* is, nothing is replayed.
syncStart(states) == LET known == newestKnown(states)
                     IN  IF known # {} THEN Max(known) ELSE local
syncBase(states) == LET known == newestKnown(states)
                    IN  IF known # {} THEN getAllReputationsInHash(Max(known)) ELSE {local}

syncLogs ==
    LET start == syncStart(1 .. logRead)
    IN  /\ pc = "syncing"
        /\ \E base \in syncBase(1 .. logRead) :
             \/ start \in 0 .. logRead - 1 /\ Replay(base, start, logRead)
             \/ start \notin 0 .. logRead - 1 /\ local' = base /\ UNCHANGED <<previous, saved, begun>>
        /\ GoTo("since")
        /\ UNCHANGED <<stops, chain, cache, justified, addr, logRead, book>>

\* Then the events since are looked at, the block read up to included; it
\* completed a cycle if head is 1.  Only if a second one is among them does sync
\* go on, with the events from the second on, of which it must know one.
sinceEvents(head) == logRead + 2 - head .. cycle

syncSince ==
    /\ pc = "since"
    /\ \E head \in {0, 1} :
         LET since == newestKnown(sinceEvents(head))
         IN  \/ since = {} /\ UNCHANGED <<local, previous, saved, begun>>
             \/ /\ since # {}
                /\ \E base \in getAllReputationsInHash(Max(since)) :
                     IF Max(since) < cycle THEN Replay(base, Max(since), cycle)
                     ELSE local' = base /\ UNCHANGED <<previous, saved, begun>>
    /\ IF starting THEN GoTo("process") ELSE endDoBlockChecks
    /\ UNCHANGED <<stops, chain, cache, justified, addr, logRead, book>>

-----------------------------------------------------------------------------
(* processReputationLog.                                                   *)

\* From the first update on the tree is at no state of the chain's.
readLog ==
    /\ pc = "process"
    /\ logRead' = cycle
    /\ previous' = local
    /\ local' = Wrong
    /\ GoTo("replaying")
    /\ UNCHANGED <<stops, chain, disk, justified, addr, book>>

addLogContentsToReputationTree ==
    /\ pc = "replaying"
    /\ local' = replay(previous, logRead)
    /\ justified' = <<previous, local'>>
    /\ GoTo("save")
    /\ UNCHANGED <<stops, chain, disk, previous, addr, logRead, book>>

\* Mutant: the state is kept in memory only.
save_Skipped ==
    /\ pc = "save"
    /\ GoTo("cache")
    /\ UNCHANGED <<stops, chain, disk, tree, addr, logRead, book>>

save ==
    /\ pc = "save"
    /\ saveCurrentState
    /\ GoTo("cache")
    /\ UNCHANGED <<stops, chain, cache, tree, addr, logRead, book>>

saveJustificationTree ==
    /\ pc = "cache"
    /\ cache' = justified
    /\ GoTo("best")
    /\ UNCHANGED <<stops, chain, saved, begun, tree, addr, logRead, book>>

\* getTwelveBestSubmissions, after which the cycle counts as seen.  At the start
\* the entries already made are skipped.
getBestSubmissions ==
    /\ pc = "best"
    /\ submissionIndex' = IF starting THEN Min({i \in 1 .. Entries + 1 : i \notin mine}) ELSE 1
    /\ bestOf' = cycle
    /\ miningCycleAddress' = addr
    /\ blocksSinceCycleCompleted' = 0
    /\ IF starting THEN pc' = "idle" /\ starting' = FALSE
                        /\ UNCHANGED <<closing, blockSeenWhileLocked, block>>
                   ELSE GoTo("auto")
    /\ UNCHANGED <<stops, chain, disk, tree, addr, logRead>>

-----------------------------------------------------------------------------
(* Entries, the dispute and the end of the cycle.                          *)

inTime(index) == blockCycle > bestOf \/ (blockCycle = bestOf /\ blockAge >= index)

checkSubmission ==
    /\ pc = "auto"
    /\ GoTo(IF submissionIndex <= Entries /\ inTime(submissionIndex) /\ submissionPossible(submissionIndex)
            THEN "submit" ELSE "settle")
    /\ UNCHANGED <<stops, chain, disk, tree, addr, logRead, book>>

\* To whichever cycle is active by now.
submitRootHash ==
    /\ accepted(submissionIndex)
    /\ mine' = mine \cup {submissionIndex}
    /\ submitted' = local
    /\ honest' = (honest \/ local = cycle + 1)
    /\ rivals' = IF local = cycle + 1 THEN rivals ELSE rivals + 1
    /\ history' = history \cup {<<cycle, local>>}
    /\ UNCHANGED <<cycle, age, last>>

submitEntry ==
    /\ pc = "submit"
    /\ \/ submitRootHash /\ submissionIndex' = submissionIndex + 1 /\ endDoBlockChecks
       \/ ~accepted(submissionIndex) /\ UNCHANGED <<chain, submissionIndex>> /\ caught("race")
    /\ UNCHANGED <<stops, disk, tree, addr, logRead, miningCycleAddress, blocksSinceCycleCompleted, bestOf>>

\* getMySubmissionRoundAndIndex finds our state among the entries.
foundMySubmission == honest /\ local = cycle + 1

settle ==
    /\ pc = "settle"
    /\ IF addr # cycle THEN caught("gone")
       ELSE IF nUniqueSubmittedHashes > 1 /\ foundMySubmission
       THEN GoTo("answer")
       ELSE IF nUniqueSubmittedHashes = 1 /\ blockCycle = addr
                 /\ blockAge >= MiningCycleDuration /\ foundMySubmission
       THEN GoTo("confirm")
       ELSE endDoBlockChecks
    /\ UNCHANGED <<stops, chain, disk, tree, addr, logRead, book>>

\* The entry across is undefined when there is none, and reading its submitter
\* throws.
answer ==
    /\ pc = "answer"
    /\ IF addr = cycle /\ Unopposed
       THEN caught("undefined") /\ UNCHANGED chain
       ELSE \/ UNCHANGED chain /\ (IF addr = cycle THEN endDoBlockChecks ELSE caught("gone"))
            \/ /\ addr = cycle /\ windowClosed /\ rivals = 1 /\ rivals' = 0
               /\ UNCHANGED <<cycle, age, mine, submitted, honest, last, history>>
               /\ endDoBlockChecks
    /\ UNCHANGED <<stops, disk, tree, addr, logRead, book>>

canConfirm == foundMySubmission /\ windowClosed /\ rivals = 0 /\ cycle < MaxCycle

confirmEntry ==
    /\ pc = "confirm"
    /\ \/ canConfirm /\ NextCycle /\ endDoBlockChecks
       \/ ~canConfirm /\ UNCHANGED chain /\ caught("race")
    /\ UNCHANGED <<stops, disk, tree, addr, logRead, book>>

-----------------------------------------------------------------------------
(* Start, stop and kill.                                                   *)

\* Mutant: a cache is taken without asking where it starts.
canResume_Anywhere(first) ==
    /\ cache # <<>> /\ getAllReputationsInHash(cache[2]) = {cache[2]}
    /\ submitted \in {None, cache[2]}

\* A justification cache from the accepted state to a state in the database,
\* which is what we submitted if we submitted anything, saves all the work.
canResume(first) ==
    /\ cache # <<>>
    /\ cache[1] = first /\ getAllReputationsInHash(first) = {first}
    /\ getAllReputationsInHash(cache[2]) = {cache[2]}
    /\ submitted \in {None, cache[2]}

initialise ==
    /\ pc \in {"down", "died"}
    /\ starting' = TRUE /\ closing' = FALSE /\ blockSeenWhileLocked' = FALSE
    /\ addr' = cycle
    /\ blocksSinceCycleCompleted' = 0
    /\ \E hash \in IF "split start" \in Mishaps THEN {cycle, cycle - 1} ELSE {cycle} :
         \/ /\ canResume(hash)
            /\ loadJustificationTree /\ loadStateToPrevious(hash) /\ loadState(cache[2])
            /\ pc' = "best"
         \/ /\ ~canResume(hash)
            /\ loadState(hash)
            /\ previous' = Empty /\ justified' = <<>>
            /\ pc' = IF local' = Empty THEN "sync" ELSE "process"
    /\ UNCHANGED <<chain, disk, logRead, block, miningCycleAddress, submissionIndex, bestOf, stops>>

\* What was in memory is gone.
Down ==
    /\ pc' = "down" /\ starting' = FALSE /\ closing' = FALSE /\ blockSeenWhileLocked' = FALSE
    /\ local' = Empty /\ previous' = Empty /\ justified' = <<>>
    /\ addr' = 0 /\ logRead' = 0 /\ blockAge' = 0 /\ blockCycle' = 0
    /\ miningCycleAddress' = 0 /\ blocksSinceCycleCompleted' = 0
    /\ submissionIndex' = 1 /\ bestOf' = 0

\* No more blocks; a run of doBlockChecks is waited for.
close ==
    /\ pc \notin {"down", "died"} /\ ~starting /\ ~closing
    /\ stops < MaxStops /\ stops' = stops + 1
    /\ IF pc = "idle" THEN Down
       ELSE /\ closing' = TRUE /\ blockSeenWhileLocked' = FALSE
            /\ UNCHANGED <<pc, starting, tree, addr, logRead, block, book>>
    /\ UNCHANGED <<chain, disk>>

\* The process ends anywhere.  saveCurrentState does not let go of the thread,
\* so only what asks nobody can end it half way; the cache may be torn.
Kill ==
    /\ pc \notin {"down", "died"}
    /\ stops < MaxStops /\ stops' = stops + 1
    /\ Down
    /\ \/ UNCHANGED begun
       \/ "torn save" \in Mishaps /\ pc = "save" /\ begun' = begun \cup {local}
    /\ \/ UNCHANGED cache
       \/ pc = "cache" /\ cache' = <<>>
    /\ UNCHANGED <<chain, saved>>

\* The logs after state start have been replayed up to some state before upTo, and
\* maybe some of the next one.
HalfReplayed(base, start, upTo) ==
    \/ /\ base = start
       /\ \E n \in start .. upTo - 1 :
            /\ saved' = saved \cup (start + 1 .. n) /\ begun' = begun \cup (start + 1 .. n)
            /\ \/ local' = n /\ previous' = (IF n = start THEN previous ELSE n - 1)
               \/ local' = Wrong /\ previous' = n
    \/ base # start /\ local' = Wrong /\ previous' \in {previous, Wrong} /\ UNCHANGED <<saved, begun>>

\* sync has got somewhere in its first round, or in its second.
HalfSynced ==
    \/ /\ pc = "syncing" /\ syncStart(1 .. logRead) \in 0 .. logRead - 1
       /\ \E base \in syncBase(1 .. logRead) : HalfReplayed(base, syncStart(1 .. logRead), logRead)
    \/ /\ pc = "since"
       /\ \E head \in {0, 1} :
            LET since == newestKnown(sinceEvents(head))
            IN  /\ since # {} /\ Max(since) < cycle
                /\ \E base \in getAllReputationsInHash(Max(since)) :
                     HalfReplayed(base, Max(since), cycle)

\* The connection is reset on a request of doBlockChecks: before the node had it,
\* or after.
ConnectionReset ==
    /\ pc \in Waiting \ {"save", "cache"} /\ ~starting
    /\ stops < MaxStops /\ stops' = stops + 1
    /\ caught("reset")
    /\ \/ UNCHANGED chain
       \/ pc = "submit" /\ submitRootHash
       \/ pc = "confirm" /\ canConfirm /\ NextCycle
    /\ \/ UNCHANGED <<local, previous, saved, begun>>
       \/ HalfSynced
    /\ UNCHANGED <<cache, justified, addr, logRead, book>>

-----------------------------------------------------------------------------
ClientStep ==
    \/ readCycle \/ ensureSynced \/ readEvents \/ syncLogs \/ syncSince
    \/ readLog \/ addLogContentsToReputationTree \/ save \/ saveJustificationTree
    \/ getBestSubmissions \/ checkSubmission \/ submitEntry \/ settle \/ answer \/ confirmEntry

Next ==
    \/ ClientStep \/ NewBlock \/ ConnectionReset
    \/ OthersSubmit \/ OthersSettle \/ OthersConfirm
    \/ initialise \/ close \/ Kill

\* The network answers, blocks come, and whoever runs the client starts it again.
Spec == Init /\ [][Next]_vars /\ WF_vars(ClientStep) /\ WF_vars(NewBlock) /\ WF_vars(initialise)

-----------------------------------------------------------------------------
(* The oracle: what its endpoints say of a state, or None.                 *)

inTrees(state) == state \in {local, previous}

\* A proof: from the current tree, the previous one, or one built for it out of
\* the rows of the state.
getHistoricalProofAndValue(state) ==
    IF inTrees(state) \/ state \in saved THEN {state}
    ELSE IF state \in begun THEN {None, Wrong} ELSE {None}

\* A value alone: its row is enough.
getHistoricalValue(state) ==
    IF inTrees(state) \/ state \in saved THEN {state}
    ELSE IF state \in begun THEN {None, state} ELSE {None}

\* Lists of users and of reputations, and the file of the latest state: out of the
\* rows, whatever the trees are.
getReputationsForAddress(state) == getAllReputationsInHash(state)

oracleAnswers(state) ==
    [proof |-> getHistoricalProofAndValue(state),
     value |-> getHistoricalValue(state),
     list  |-> getReputationsForAddress(state)]

\* The server listens once initialise is through.
oracleUp == pc \notin {"down", "died"} /\ ~starting

-----------------------------------------------------------------------------
(* Properties.                                                             *)

TypeOK ==
    /\ pc \in Places
    /\ local \in Wrong .. MaxCycle + 1 /\ previous \in Wrong .. MaxCycle + 1
    /\ saved \subseteq begun /\ begun \subseteq Wrong .. MaxCycle + 1

\* Whatever the client has seen and missed, it submits to a cycle only the state
\* that the log of this cycle leads to.
OnlyRightSubmitted == \A h \in history : h[2] = h[1] + 1

\* As long as the oracle runs, each of its endpoints goes on answering for every
\* state it ever answered for, and with that state, while the trees they look at
\* are swapped, rebuilt and filled, and runs of doBlockChecks end half-way.
OracleKeepsAnswering ==
    [][\A s \in 1 .. MaxCycle + 1 : \A endpoint \in DOMAIN oracleAnswers(s) :
          (oracleUp /\ oracleUp' /\ oracleAnswers(s)[endpoint] = {s})
             => oracleAnswers(s)[endpoint]' = {s}]_vars

\* Once the cycles stop changing, the client gets to the state it would submit
\* and stays there, whatever it missed and however often it was stopped.
CatchesUp == <>[](pc \notin {"down", "died"} /\ local = cycle + 1 /\ miningCycleAddress = cycle)

\* "Then we don't have an opponent" (doBlockChecks): the client moves its entry
\* on.
UnopposedMovesOn == Unopposed /\ honest ~> ~Unopposed
=============================================================================
