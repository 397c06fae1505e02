---------------------------- MODULE ColonyBridge ----------------------------
(***************************************************************************)
(* The network's two ends of a bridge: a chain with colonies but without   *)
(* reputation mining ("foreign"), and the mining chain ("home").  Source:  *)
(* src/contracts/colonyNetwork/ColonyNetworkSkills.sol and, for the root   *)
(* hash, ColonyNetworkMining.sol; WormholeBridgeForColony.sol in between.  *)
(*                                                                         *)
(* Foreign tells home of new skills and of reputation earned; home tells   *)
(* foreign the reputation root hash.  A message is published when          *)
(* sendMessage succeeds (the bridge may be disabled), and is received at   *)
(* any later time, in any order, and as often as somebody submits it:      *)
(* the contracts number everything and store what is early.                *)
(*                                                                         *)
(* Skills are <<chain, number>>; number 0 of foreign is what the root      *)
(* local skills of its colonies have as a parent.  The decay of an update  *)
(* while it is stored is not modelled.                                     *)
(***************************************************************************)
EXTENDS Integers, Sequences, FiniteSetsExt

CONSTANTS
  Colonies,
  MaxSkills, MaxUpdates, MaxRoots, MaxNonces, MaxHomeSkills, MaxOutages, \* bounds
  Parents,       \* the parents that new skills are given
  MaxMessages   \* bounds how much there is to bridge, of all kinds together

VARIABLES
  bridgeEnabled, outages,
  parentOf,     \* foreign skills: parentOf[n] is the number of n's parent
  emitted,      \* [Colonies -> Seq of skill numbers], foreign's updates
  stored,       \* [Colonies -> the update numbers kept to be sent later]
  skills,       \* home's skills: [ids -> [parents, children]]
  skillCount,   \* home's own skills
  bridgedSkills,     \* networkSkillCounts, less the chain's prefix
  pendingSkills,     \* [numbers -> parents]: came before its turn
  pendingUpdates,    \* [Colonies -> [numbers -> skills]]
  log,               \* home's log: [Colonies -> Seq of the skills of its entries]
  reputationUpdateCount,   \* [Colonies -> the number of its last update]
  reputationRootHash, foreignRootHash,   \* the number of a root hash, per chain
  rootNonce, foreignNonce,               \* bridgeCurrentRootHashNonces
  published          \* the messages published so far, in order
foreignVars == <<parentOf, emitted, stored, foreignRootHash, foreignNonce>>
homeVars == <<skills, skillCount, bridgedSkills, pendingSkills, pendingUpdates, log,
              reputationUpdateCount, reputationRootHash, rootNonce>>
bridgeVars == <<bridgeEnabled, outages, foreignVars, homeVars, published>>

home(n) == <<"home", n>>
foreign(n) == <<"foreign", n>>
NoSkill == [parents |-> <<>>, children |-> {}]
SkillIds == {home(n) : n \in 1 .. MaxHomeSkills} \cup {foreign(n) : n \in 0 .. MaxSkills}

BridgeInit ==
  /\ bridgeEnabled = TRUE /\ outages = 0
  /\ parentOf = <<0>>   \* the colonies share one root local skill here
  /\ emitted = [c \in Colonies |-> <<>>] /\ stored = [c \in Colonies |-> {}]
  /\ skills = [s \in SkillIds |-> NoSkill]
  /\ skillCount = 1
  /\ bridgedSkills = 1 /\ pendingSkills = [n \in {} |-> 0]
  /\ pendingUpdates = [c \in Colonies |-> [n \in {} |-> 0]]
  /\ log = [c \in Colonies |-> <<>>]
  /\ reputationUpdateCount = [c \in Colonies |-> 0]
  /\ reputationRootHash = 0 /\ foreignRootHash = 0
  /\ rootNonce = 0 /\ foreignNonce = 0
  /\ published = <<>>

moreToBridge ==
  Len(parentOf) - 1 + MapThenSumSet(LAMBDA c : Len(emitted[c]), Colonies) + rootNonce < MaxMessages
publish(m) == published' = Append(published, m)
skillMessage(n) == [type |-> "skill", skill |-> n, parent |-> parentOf'[n]]
updateMessage(c, n) == [type |-> "update", colony |-> c, number |-> n, skill |-> emitted'[c][n]]
-----------------------------------------------------------------------------
(* Foreign: addSkill, or initialiseRootLocalSkill with the parent 0. *)
addSkill(parent) ==
  /\ moreToBridge /\ Len(parentOf) < MaxSkills /\ parent \in 0 .. Len(parentOf)
  /\ parentOf' = Append(parentOf, parent)
  /\ IF bridgeEnabled THEN publish(skillMessage(Len(parentOf) + 1)) ELSE UNCHANGED published
  /\ UNCHANGED <<bridgeEnabled, outages, emitted, stored, foreignRootHash, foreignNonce, homeVars>>

skillSent(n) == \E i \in DOMAIN published :
  published[i].type = "skill" /\ published[i].skill = n

(* bridgeSkillIfNotMiningChain, called again for a skill that was only     *)
(* stored (anybody may call it for any skill).                             *)
bridgeSkill(n) ==
  /\ n \in 2 .. Len(parentOf) /\ bridgeEnabled /\ ~ skillSent(n)
  /\ UNCHANGED foreignVars
  /\ publish(skillMessage(n))
  /\ UNCHANGED <<bridgeEnabled, outages, homeVars>>

(* appendReputationUpdateLog, on foreign: bridgeReputationUpdateLog. *)
appendReputationUpdateLog(c, skill) ==
  /\ moreToBridge /\ Len(emitted[c]) < MaxUpdates /\ skill \in 1 .. Len(parentOf)
  /\ emitted' = [emitted EXCEPT ![c] = Append(@, skill)]
  /\ LET n == Len(emitted[c]) + 1
     IN IF bridgeEnabled THEN publish(updateMessage(c, n)) /\ UNCHANGED stored
        ELSE stored' = [stored EXCEPT ![c] = @ \cup {n}] /\ UNCHANGED published
  /\ UNCHANGED <<bridgeEnabled, outages, parentOf, foreignRootHash, foreignNonce, homeVars>>

bridgePendingReputationUpdate(c, n) ==
  /\ n \in stored[c] /\ n - 1 \notin stored[c] /\ bridgeEnabled
  /\ UNCHANGED <<parentOf, emitted, foreignRootHash, foreignNonce>>
  /\ stored' = [stored EXCEPT ![c] = @ \ {n}]
  /\ publish(updateMessage(c, n))
  /\ UNCHANGED <<bridgeEnabled, outages, homeVars>>
-----------------------------------------------------------------------------
(* Home *)

(* The new skill is written where home's own last skill is: the function   *)
(* uses skillCount throughout, and its parameter nowhere.                  *)
addSkillToChainTree(tree, parent, count) ==
  LET ancestors == <<parent>> \o tree[parent].parents
  IN [s \in DOMAIN tree |->
       IF s = home(count) THEN [parents |-> ancestors, children |-> {}]
       ELSE IF \E i \in DOMAIN ancestors : ancestors[i] = s
            THEN [tree[s] EXCEPT !.children = @ \cup {home(count)}]
       ELSE tree[s]]

addHomeSkill(parent) ==
  /\ skillCount < MaxHomeSkills /\ parent \in 1 .. skillCount
  /\ skillCount' = skillCount + 1
  /\ skills' = addSkillToChainTree(skills, home(parent), skillCount + 1)
  /\ UNCHANGED <<bridgeEnabled, outages, foreignVars, bridgedSkills, pendingSkills,
                 pendingUpdates, log, reputationUpdateCount, reputationRootHash, rootNonce,
                 published>>

bridgedTree(parent) ==
  IF parent = 0 THEN skills ELSE addSkillToChainTree(skills, foreign(parent), skillCount)

without(f, n) == [k \in DOMAIN f \ {n} |-> f[k]]
with(f, n, v) == [k \in DOMAIN f \cup {n} |-> IF k = n THEN v ELSE f[k]]

acceptsSkill(m) ==
  /\ bridgedSkills < m.skill
  /\ (m.skill = bridgedSkills + 1 \/ m.skill \notin DOMAIN pendingSkills)
addSkillFromBridge(m) ==
  /\ IF m.skill = bridgedSkills + 1
     THEN /\ skills' = bridgedTree(m.parent)
          /\ bridgedSkills' = m.skill
          /\ UNCHANGED pendingSkills
     ELSE /\ pendingSkills' = with(pendingSkills, m.skill, m.parent)
          /\ UNCHANGED <<skills, bridgedSkills>>
  /\ UNCHANGED <<foreignVars, skillCount, pendingUpdates, log, reputationUpdateCount,
                 reputationRootHash, rootNonce>>

addPendingSkill(n) ==
  /\ n = bridgedSkills + 1 /\ n \in DOMAIN pendingSkills
  /\ skills' = bridgedTree(pendingSkills[n])
  /\ bridgedSkills' = n
  /\ pendingSkills' = without(pendingSkills, n)
  /\ UNCHANGED <<bridgeEnabled, outages, foreignVars, skillCount, pendingUpdates, log,
                 reputationUpdateCount, reputationRootHash, rootNonce, published>>

appendReputationUpdateLogInternal(c, skill) ==
  /\ log' = [log EXCEPT ![c] = Append(@, skill)]
  /\ reputationUpdateCount' = [reputationUpdateCount EXCEPT ![c] = @ + 1]

nextUpdate_AnyOrder(c, n, skill) == skill <= bridgedSkills
nextUpdate(c, n, skill) == n = reputationUpdateCount[c] + 1 /\ skill <= bridgedSkills
acceptsUpdate_NothingEarly(m) == nextUpdate(m.colony, m.number, m.skill)
acceptsUpdate(m) ==
  /\ reputationUpdateCount[m.colony] < m.number
  /\ (nextUpdate(m.colony, m.number, m.skill) \/ m.number \notin DOMAIN pendingUpdates[m.colony])
addReputationUpdateLogFromBridge(m) ==
  /\ IF nextUpdate(m.colony, m.number, m.skill)
     THEN /\ appendReputationUpdateLogInternal(m.colony, m.skill)
          /\ UNCHANGED pendingUpdates
     ELSE /\ pendingUpdates' =
               [pendingUpdates EXCEPT ![m.colony] = with(@, m.number, m.skill)]
          /\ UNCHANGED <<log, reputationUpdateCount>>
  /\ UNCHANGED <<foreignVars, skills, skillCount, bridgedSkills, pendingSkills,
                 reputationRootHash, rootNonce>>

(* The call asserts that nothing is stored at the number of the last       *)
(* update.  Something is when that one, stored early, was delivered again  *)
(* in its turn: the deletion is only made here.                            *)
isBlocked(c) == reputationUpdateCount[c] \in DOMAIN pendingUpdates[c]
addPendingReputationUpdate(c) ==
  LET n == reputationUpdateCount[c] + 1
  IN /\ ~ isBlocked(c)
     /\ n \in DOMAIN pendingUpdates[c] /\ pendingUpdates[c][n] <= bridgedSkills
     /\ appendReputationUpdateLogInternal(c, pendingUpdates[c][n])
     /\ pendingUpdates' = [pendingUpdates EXCEPT ![c] = without(@, n)]
     /\ UNCHANGED <<bridgeEnabled, outages, foreignVars, skills, skillCount, bridgedSkills,
                    pendingSkills, reputationRootHash, rootNonce, published>>

(* A mining cycle ends: setReputationRootHash, on home.  (A root hash that *)
(* nobody bridges is not seen by the other chain, and is left out.)        *)
newRootHash ==
  /\ reputationRootHash < MaxRoots /\ reputationRootHash <= rootNonce
  /\ reputationRootHash' = reputationRootHash + 1
  /\ UNCHANGED <<bridgeEnabled, outages, foreignVars, skills, skillCount, bridgedSkills,
                 pendingSkills, pendingUpdates, log, reputationUpdateCount, rootNonce, published>>

bridgeCurrentRootHash ==
  /\ moreToBridge /\ bridgeEnabled /\ rootNonce < MaxNonces
  /\ rootNonce' = rootNonce + 1
  /\ publish([type |-> "root", root |-> reputationRootHash, nonce |-> rootNonce + 1])
  /\ UNCHANGED <<bridgeEnabled, outages, foreignVars, skills, skillCount, bridgedSkills,
                 pendingSkills, pendingUpdates, log, reputationUpdateCount, reputationRootHash>>

acceptsRoot_Any(m) == TRUE
acceptsRoot(m) == m.nonce >= foreignNonce
setReputationRootHashFromBridge(m) ==
  /\ foreignRootHash' = m.root /\ foreignNonce' = m.nonce
  /\ UNCHANGED <<parentOf, emitted, stored, homeVars>>
-----------------------------------------------------------------------------
(* receiveMessage, of a message that was published; a call that fails      *)
(* reverts, and the message can be submitted again.                        *)
accepts(m) ==
  CASE m.type = "skill" -> acceptsSkill(m)
    [] m.type = "update" -> acceptsUpdate(m)
    [] m.type = "root" -> acceptsRoot(m)
callColonyNetwork(m) ==
  \/ m.type = "skill" /\ addSkillFromBridge(m)
  \/ m.type = "update" /\ addReputationUpdateLogFromBridge(m)
  \/ m.type = "root" /\ setReputationRootHashFromBridge(m)
receiveMessage(m) ==
  /\ IF accepts(m) THEN callColonyNetwork(m) ELSE UNCHANGED <<foreignVars, homeVars>>
  /\ UNCHANGED <<bridgeEnabled, outages, published>>

(* The core bridge (external) is disabled, and enabled again. *)
DisableBridge ==
  /\ bridgeEnabled /\ outages < MaxOutages
  /\ bridgeEnabled' = FALSE /\ outages' = outages + 1
  /\ UNCHANGED <<foreignVars, homeVars, published>>
EnableBridge ==
  /\ ~ bridgeEnabled /\ bridgeEnabled' = TRUE
  /\ UNCHANGED <<outages, foreignVars, homeVars, published>>

Use ==
  \/ \E n \in Parents : addSkill(n)
  \/ \E n \in 1 .. MaxSkills : bridgeSkill(n)
  \/ \E c \in Colonies :
       \/ \E n \in 1 .. MaxSkills : appendReputationUpdateLog(c, n)
       \/ \E n \in 1 .. MaxUpdates : bridgePendingReputationUpdate(c, n)
       \/ addPendingReputationUpdate(c)
  \/ \E n \in 1 .. MaxSkills : addPendingSkill(n)
  \/ newRootHash \/ bridgeCurrentRootHash
  \/ DisableBridge \/ EnableBridge

Receive == \E i \in DOMAIN published : receiveMessage(published[i])

BridgeNext == Use \/ Receive \/ \E n \in 1 .. MaxHomeSkills : addHomeSkill(n)
BridgeSpec == BridgeInit /\ [][BridgeNext]_bridgeVars
-----------------------------------------------------------------------------
(* The home log of a colony is the beginning of what the colony emitted,   *)
(* in its order, although messages overtake each other and come twice,     *)
(* and updates are stored on either chain on the way; and no update is     *)
(* logged for a skill home has not got, whose parents it would not reach.  *)
LogFollowsEmissions ==
  \A c \in Colonies :
    /\ Len(log[c]) <= Len(emitted[c])
    /\ \A i \in DOMAIN log[c] : log[c][i] = emitted[c][i] /\ log[c][i] <= bridgedSkills

(* What the assertion of addPendingReputationUpdate (244-246) says: no     *)
(* update is stored any more when it has been logged.  A repeated delivery *)
(* breaks it, and the next stored update then waits for ever.              *)
LastUpdateNotPending == \A c \in Colonies : ~ isBlocked(c)

(* The root hash of foreign never goes back to an older one. *)
RootHashNeverOlder == [][foreignRootHash' >= foreignRootHash]_foreignRootHash

(* A bridged skill has the same ancestors on home as on its own chain,     *)
(* which is what nParents and nChildren of a log entry are read from       *)
(* (402-419); "local skill structures end up the same on both chains" is   *)
(* what test/cross-chain/cross-chain.js:643 expects.                       *)
ancestorsOf[n \in 0 .. MaxSkills] ==
  IF n \notin DOMAIN parentOf \/ parentOf[n] = 0 THEN <<>>
  ELSE <<foreign(parentOf[n])>> \o ancestorsOf[parentOf[n]]
SkillsEndUpTheSame ==
  \A n \in 1 .. bridgedSkills : skills[foreign(n)].parents = ancestorsOf[n]
=============================================================================
