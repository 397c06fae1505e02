-------------------------- MODULE BridgeRelayProofs --------------------------
(***************************************************************************)
(* The bridge, for every number of colonies, skills, updates, root hashes, *)
(* messages and outages: what home logs, what foreign takes for the root   *)
(* hash, and which transaction the spy reports.  Then the wallet the       *)
(* relayer sends with, ExtendedNonceManager: NonceFree, for any            *)
(* transactions, any lag of the node's count and any number of restarts,   *)
(* when calls do not overlap.                                              *)
(***************************************************************************)
EXTENDS BridgeRelay, ExtendedNonceManager, SetLemmas, TLAPS

-----------------------------------------------------------------------------
(* The two ends, whatever carries the messages.                            *)

Messages ==
  [type : {"skill"}, skill : Nat, parent : Nat]
    \cup [type : {"update"}, colony : Colonies, number : Nat, skill : Nat]
    \cup [type : {"root"}, root : Nat, nonce : Nat]

ForeignOK ==
  /\ parentOf \in Seq(Nat)
  /\ emitted \in [Colonies -> Seq(Nat)] /\ stored \in [Colonies -> SUBSET Nat]
  /\ foreignRootHash \in Nat /\ foreignNonce \in Nat

HomeOK ==
  /\ bridgedSkills \in Nat /\ DOMAIN pendingSkills \subseteq Nat
  /\ DOMAIN pendingUpdates = Colonies
  /\ log \in [Colonies -> Seq(Nat)] /\ reputationUpdateCount \in [Colonies -> Nat]
  /\ reputationRootHash \in Nat /\ rootNonce \in Nat

PublishedOK == published \in Seq(Messages)

\* The colony's n-th update was of this skill.
emittedAs(c, n, skill) == n \in DOMAIN emitted[c] /\ emitted[c][n] = skill

\* Whatever is on its way to home's log is what the colony emitted.
StoredEmitted == \A c \in Colonies : stored[c] \subseteq DOMAIN emitted[c]
PendingEmitted ==
  \A c \in Colonies : \A n \in DOMAIN pendingUpdates[c] : emittedAs(c, n, pendingUpdates[c][n])
PublishedEmitted ==
  \A i \in DOMAIN published : published[i].type = "update" =>
    emittedAs(published[i].colony, published[i].number, published[i].skill)
CountsLog == \A c \in Colonies : reputationUpdateCount[c] = Len(log[c])

\* Root hashes are numbered on, and foreign's is one of those it could have got.
RootsInOrder ==
  /\ \A i, j \in DOMAIN published :
       published[i].type = "root" /\ published[j].type = "root"
         /\ published[i].nonce <= published[j].nonce => published[i].root <= published[j].root
  /\ \A i \in DOMAIN published : published[i].type = "root" =>
       published[i].root <= reputationRootHash /\ published[i].nonce <= rootNonce
ForeignInOrder ==
  /\ foreignRootHash <= reputationRootHash /\ foreignNonce <= rootNonce
  /\ \A i \in DOMAIN published :
       published[i].type = "root" /\ published[i].nonce >= foreignNonce
         => published[i].root >= foreignRootHash

BridgeInv ==
  /\ ForeignOK /\ HomeOK /\ PublishedOK
  /\ StoredEmitted /\ PendingEmitted /\ PublishedEmitted /\ CountsLog /\ LogFollowsEmissions
  /\ RootsInOrder /\ ForeignInOrder

USE DEF bridgeVars, foreignVars, homeVars

\* What Append does to a sequence.
LEMMA AppendFacts ==
  ASSUME NEW S, NEW s \in Seq(S), NEW x \in S
  PROVE  /\ Append(s, x) \in Seq(S)
         /\ Len(Append(s, x)) = Len(s) + 1
         /\ DOMAIN Append(s, x) = DOMAIN s \cup {Len(s) + 1}
         /\ \A i \in DOMAIN s : Append(s, x)[i] = s[i]
         /\ Append(s, x)[Len(s) + 1] = x
OBVIOUS

\* A message published: it carries what was emitted, or home's own root hash.
LEMMA Published ==
  ASSUME BridgeInv, NEW m \in Messages, published' = Append(published, m),
         \A c \in Colonies : \A n, s : emittedAs(c, n, s) => emittedAs(c, n, s)',
         m.type = "update" => emittedAs(m.colony, m.number, m.skill)',
         UNCHANGED <<foreignRootHash, foreignNonce, reputationRootHash>>,
         \/ m.type # "root" /\ UNCHANGED rootNonce
         \/ m.type = "root" /\ rootNonce' = rootNonce + 1
              /\ m.nonce = rootNonce + 1 /\ m.root = reputationRootHash
  PROVE  PublishedOK' /\ PublishedEmitted' /\ RootsInOrder' /\ ForeignInOrder'
<1>1. /\ published' \in Seq(Messages)
      /\ DOMAIN published' = DOMAIN published \cup {Len(published) + 1}
      /\ \A i \in DOMAIN published : published'[i] = published[i]
      /\ published'[Len(published) + 1] = m
  BY AppendFacts DEF BridgeInv, PublishedOK
<1>2. \A i \in DOMAIN published : published[i] \in Messages
  BY DEF BridgeInv, PublishedOK
<1>3. \A i \in DOMAIN published :
        published[i].type = "update" => published[i].colony \in Colonies
  BY <1>2 DEF Messages
<1>4. PublishedEmitted'
  BY <1>1, <1>3 DEF BridgeInv, PublishedEmitted
<1>5. \A i \in DOMAIN published' : published'[i].type = "root" =>
         published'[i].root \in Nat /\ published'[i].nonce \in Nat
  BY <1>1, <1>2 DEF Messages
<1>6. RootsInOrder'
  <2> DEFINE old == DOMAIN published
             new == Len(published) + 1
             isRoot(i) == published'[i].type = "root"
  <2>1. rootNonce \in Nat /\ reputationRootHash \in Nat BY DEF BridgeInv, HomeOK
  <2>2. \A i \in old : isRoot(i) =>
          published'[i].root <= reputationRootHash /\ published'[i].nonce <= rootNonce
    BY <1>1 DEF BridgeInv, RootsInOrder
  <2>3. isRoot(new) => published'[new].root = reputationRootHash
                         /\ published'[new].nonce = rootNonce + 1 /\ rootNonce' = rootNonce + 1
    BY <1>1
  <2>4. \A i, j \in old : isRoot(i) /\ isRoot(j) /\ published'[i].nonce <= published'[j].nonce
                             => published'[i].root <= published'[j].root
    BY <1>1 DEF BridgeInv, RootsInOrder
  <2>5. \A i \in old : isRoot(i) /\ isRoot(new) => published'[i].root <= published'[new].root
    BY <1>1, <2>1, <2>2, <2>3
  <2>6. \A j \in old : isRoot(new) /\ isRoot(j) => ~ (published'[new].nonce <= published'[j].nonce)
    BY <1>1, <1>5, <2>1, <2>2, <2>3
  <2>7. \A i, j \in DOMAIN published' :
          isRoot(i) /\ isRoot(j) /\ published'[i].nonce <= published'[j].nonce
            => published'[i].root <= published'[j].root
    BY <1>1, <1>5, <2>1, <2>3, <2>4, <2>5, <2>6, SMTT(30)
  <2>8. \A i \in DOMAIN published' : isRoot(i) =>
          published'[i].root <= reputationRootHash' /\ published'[i].nonce <= rootNonce'
    BY <1>1, <1>5, <2>1, <2>2, <2>3
  <2> QED BY <2>7, <2>8 DEF RootsInOrder
<1>7. ForeignInOrder'
  BY <1>1, <1>5 DEF BridgeInv, ForeignInOrder, HomeOK, ForeignOK
<1> QED BY <1>1, <1>4, <1>6, <1>7 DEF PublishedOK

\* An update logged in its turn.
LEMMA Logged ==
  ASSUME BridgeInv, NEW c \in Colonies, NEW skill,
         emittedAs(c, reputationUpdateCount[c] + 1, skill), skill <= bridgedSkills,
         appendReputationUpdateLogInternal(c, skill),
         UNCHANGED <<emitted, bridgedSkills>>
  PROVE  /\ log' \in [Colonies -> Seq(Nat)] /\ reputationUpdateCount' \in [Colonies -> Nat]
         /\ CountsLog' /\ LogFollowsEmissions'
<1>1. /\ log[c] \in Seq(Nat) /\ emitted[c] \in Seq(Nat) /\ reputationUpdateCount[c] = Len(log[c])
      /\ skill \in Nat
  BY DEF BridgeInv, HomeOK, ForeignOK, CountsLog, emittedAs
<1>2. /\ log' = [log EXCEPT ![c] = Append(log[c], skill)]
      /\ reputationUpdateCount' = [reputationUpdateCount EXCEPT ![c] = Len(log[c]) + 1]
  BY <1>1 DEF appendReputationUpdateLogInternal
<1>3. /\ Append(log[c], skill) \in Seq(Nat) /\ Len(Append(log[c], skill)) = Len(log[c]) + 1
      /\ DOMAIN Append(log[c], skill) = DOMAIN log[c] \cup {Len(log[c]) + 1}
      /\ \A i \in DOMAIN log[c] : Append(log[c], skill)[i] = log[c][i]
      /\ Append(log[c], skill)[Len(log[c]) + 1] = skill
  BY <1>1, AppendFacts
<1>4. log' \in [Colonies -> Seq(Nat)] /\ reputationUpdateCount' \in [Colonies -> Nat] /\ CountsLog'
  BY <1>1, <1>2, <1>3 DEF BridgeInv, HomeOK, CountsLog
<1>5. Len(log[c]) + 1 \in DOMAIN emitted[c] /\ emitted[c][Len(log[c]) + 1] = skill
  BY <1>1 DEF emittedAs
<1>6. ASSUME NEW d \in Colonies
      PROVE  /\ Len(log'[d]) <= Len(emitted[d])
             /\ \A i \in DOMAIN log'[d] : log'[d][i] = emitted[d][i] /\ log'[d][i] <= bridgedSkills
  <2>1. CASE d = c
    <3>1. log'[d] = Append(log[c], skill) BY <1>2, <2>1 DEF BridgeInv, HomeOK
    <3>2. Len(log[c]) + 1 <= Len(emitted[c]) BY <1>1, <1>5
    <3> QED BY <1>3, <1>5, <2>1, <3>1, <3>2 DEF BridgeInv, LogFollowsEmissions
  <2>2. CASE d # c
    BY <1>2, <2>2 DEF BridgeInv, HomeOK, LogFollowsEmissions
  <2> QED BY <2>1, <2>2
<1> QED BY <1>4, <1>6 DEF LogFollowsEmissions

-----------------------------------------------------------------------------
(* Every step of the two chains keeps the invariant.                       *)

\* One lemma per call at either end.
LEMMA addSkillInv ==
  ASSUME BridgeInv, NEW parent, addSkill(parent)
  PROVE  BridgeInv'
<1>1. parentOf' \in Seq(Nat) /\ DOMAIN parentOf' = 1 .. Len(parentOf) + 1
  BY AppendFacts DEF addSkill, BridgeInv, ForeignOK
<1>2. skillMessage(Len(parentOf) + 1) \in Messages
  BY <1>1 DEF skillMessage, Messages
<1>3. PublishedOK' /\ PublishedEmitted' /\ RootsInOrder' /\ ForeignInOrder'
  <2>1. CASE bridgeEnabled
    BY <1>2, <2>1, Published DEF addSkill, publish, skillMessage, emittedAs
  <2>2. CASE ~bridgeEnabled
    BY <2>2
       DEF addSkill, BridgeInv, PublishedOK, PublishedEmitted, RootsInOrder, ForeignInOrder,
           emittedAs
  <2> QED BY <2>1, <2>2
<1>4. ForeignOK' /\ HomeOK' BY <1>1 DEF addSkill, BridgeInv, ForeignOK, HomeOK
<1>5. StoredEmitted' /\ PendingEmitted' /\ CountsLog' /\ LogFollowsEmissions'
  BY
     DEF addSkill, BridgeInv, StoredEmitted, PendingEmitted, CountsLog, LogFollowsEmissions,
         emittedAs
<1> QED BY <1>3, <1>4, <1>5 DEF BridgeInv

LEMMA bridgeSkillInv ==
  ASSUME BridgeInv, NEW n, bridgeSkill(n)
  PROVE  BridgeInv'
<1>1. skillMessage(n) \in Messages
  BY DEF bridgeSkill, skillMessage, Messages, BridgeInv, ForeignOK
<1>2. PublishedOK' /\ PublishedEmitted' /\ RootsInOrder' /\ ForeignInOrder'
  BY <1>1, Published DEF bridgeSkill, publish, skillMessage, emittedAs
<1>3. ForeignOK' /\ HomeOK' BY DEF bridgeSkill, BridgeInv, ForeignOK, HomeOK
<1>4. StoredEmitted' /\ PendingEmitted' /\ CountsLog' /\ LogFollowsEmissions'
  BY
     DEF bridgeSkill, BridgeInv, StoredEmitted, PendingEmitted, CountsLog, LogFollowsEmissions,
         emittedAs
<1> QED BY <1>2, <1>3, <1>4 DEF BridgeInv

LEMMA appendReputationUpdateLogInv ==
  ASSUME BridgeInv, NEW c \in Colonies, NEW skill, appendReputationUpdateLog(c, skill)
  PROVE  BridgeInv'
<1>1. emitted[c] \in Seq(Nat) /\ skill \in Nat
  BY DEF appendReputationUpdateLog, BridgeInv, ForeignOK
<1>0. PICK n \in Nat : n = Len(emitted[c]) + 1
  BY <1>1
<1>2. /\ emitted' = [emitted EXCEPT ![c] = Append(emitted[c], skill)]
      /\ emitted' \in [Colonies -> Seq(Nat)]
  BY <1>1, AppendFacts DEF appendReputationUpdateLog, BridgeInv, ForeignOK
<1>3. /\ DOMAIN emitted'[c] = DOMAIN emitted[c] \cup {n} /\ Len(emitted'[c]) = n
      /\ \A i \in DOMAIN emitted[c] : emitted'[c][i] = emitted[c][i]
      /\ emitted'[c][n] = skill
  BY <1>0, <1>1, <1>2, AppendFacts DEF BridgeInv, ForeignOK
<1>4. \A d \in Colonies : d # c => emitted'[d] = emitted[d]
  BY <1>2 DEF BridgeInv, ForeignOK
<1>5. \A d \in Colonies : \A k, s : emittedAs(d, k, s) => emittedAs(d, k, s)'
  BY <1>3, <1>4 DEF emittedAs
<1>6. updateMessage(c, n) = [type |-> "update", colony |-> c, number |-> n, skill |-> skill]
  BY <1>3 DEF updateMessage
<1>7. PublishedOK' /\ PublishedEmitted' /\ RootsInOrder' /\ ForeignInOrder'
  <2>1. CASE bridgeEnabled
    <3> DEFINE m == [type |-> "update", colony |-> c, number |-> n, skill |-> skill]
    <3>1. m \in Messages BY <1>1 DEF Messages
    <3>2. emittedAs(c, n, skill)' BY <1>3 DEF emittedAs
    <3>3. published' = Append(published, m)
      BY <1>0, <1>6, <2>1 DEF appendReputationUpdateLog, publish
    <3>4. UNCHANGED <<foreignRootHash, foreignNonce, reputationRootHash, rootNonce>>
      BY DEF appendReputationUpdateLog
    <3> QED BY <1>5, <3>1, <3>2, <3>3, <3>4, Published
  <2>2. CASE ~bridgeEnabled
    <3>1. \A i \in DOMAIN published : published[i].type = "update" => published[i].colony \in Colonies
      BY DEF BridgeInv, PublishedOK, Messages
    <3>2. UNCHANGED <<published, foreignRootHash, foreignNonce, reputationRootHash, rootNonce>>
      BY <2>2 DEF appendReputationUpdateLog
    <3> QED BY <1>5, <3>1, <3>2
            DEF BridgeInv, PublishedOK, PublishedEmitted, RootsInOrder, ForeignInOrder
  <2> QED BY <2>1, <2>2
<1>8. stored' \in [Colonies -> SUBSET Nat] /\ StoredEmitted'
  <2>1. stored' = stored \/ stored' = [stored EXCEPT ![c] = @ \cup {n}]
    BY <1>0 DEF appendReputationUpdateLog
  <2>2. stored' \in [Colonies -> SUBSET Nat] BY <2>1 DEF BridgeInv, ForeignOK
  <2>3. \A d \in Colonies : DOMAIN emitted[d] \subseteq DOMAIN emitted'[d] BY <1>3, <1>4
  <2>4. \A d \in Colonies : stored'[d] \subseteq DOMAIN emitted'[d]
    <3> TAKE d \in Colonies
    <3>1. stored[d] \subseteq DOMAIN emitted[d] BY DEF BridgeInv, StoredEmitted
    <3>2. stored \in [Colonies -> SUBSET Nat] BY DEF BridgeInv, ForeignOK
    <3>3. CASE d = c
      <4>1. stored'[c] \subseteq stored[c] \cup {n} BY <2>1, <3>2
      <4> QED BY <1>3, <2>3, <3>1, <3>3, <4>1
    <3>4. CASE d # c
      <4>1. stored'[d] = stored[d] BY <2>1, <3>2, <3>4
      <4> QED BY <2>3, <3>1, <4>1
    <3> QED BY <3>3, <3>4
  <2> QED BY <2>2, <2>4 DEF StoredEmitted
<1>9. ForeignOK' /\ HomeOK'
  BY <1>2, <1>8 DEF appendReputationUpdateLog, BridgeInv, ForeignOK, HomeOK
<1>10. PendingEmitted' /\ CountsLog'
  BY <1>5 DEF appendReputationUpdateLog, BridgeInv, PendingEmitted, CountsLog
<1>11. LogFollowsEmissions'
  <2>1. \A d \in Colonies : Len(emitted[d]) \in Nat /\ Len(log[d]) \in Nat
    BY DEF BridgeInv, HomeOK, ForeignOK
  <2>4. \A d \in Colonies : Len(emitted[d]) <= Len(emitted'[d])
    BY <1>0, <1>3, <1>4, <2>1
  <2>2. \A d \in Colonies : DOMAIN log[d] \subseteq DOMAIN emitted[d]
    BY DEF BridgeInv, HomeOK, ForeignOK, LogFollowsEmissions
  <2>3. \A d \in Colonies : Len(emitted'[d]) \in Nat BY <1>2
  <2> QED BY <1>3, <1>4, <2>1, <2>2, <2>3, <2>4
          DEF appendReputationUpdateLog, BridgeInv, LogFollowsEmissions
<1> QED BY <1>7, <1>8, <1>9, <1>10, <1>11 DEF BridgeInv

LEMMA bridgePendingReputationUpdateInv ==
  ASSUME BridgeInv, NEW c \in Colonies, NEW n, bridgePendingReputationUpdate(c, n)
  PROVE  BridgeInv'
<1>1. n \in DOMAIN emitted[c] /\ n \in Nat /\ emitted[c][n] \in Nat
  BY DEF bridgePendingReputationUpdate, BridgeInv, StoredEmitted, ForeignOK
<1>2. updateMessage(c, n) = [type |-> "update", colony |-> c, number |-> n, skill |-> emitted[c][n]]
  BY DEF bridgePendingReputationUpdate, updateMessage
<1>3. PublishedOK' /\ PublishedEmitted' /\ RootsInOrder' /\ ForeignInOrder'
  <2>1. updateMessage(c, n) \in Messages BY <1>1, <1>2 DEF Messages
  <2>2. published' = Append(published, updateMessage(c, n))
        /\ UNCHANGED <<emitted, foreignRootHash, foreignNonce, reputationRootHash, rootNonce>>
    BY DEF bridgePendingReputationUpdate, publish
  <2>3. emittedAs(c, n, emitted[c][n])' BY <1>1, <2>2 DEF emittedAs
  <2>4. \A d \in Colonies : \A k, s : emittedAs(d, k, s) => emittedAs(d, k, s)'
    BY <2>2
       DEF emittedAs
  <2> QED BY <1>2, <2>1, <2>2, <2>3, <2>4, Published
<1>4. stored' \in [Colonies -> SUBSET Nat] /\ StoredEmitted'
  BY DEF bridgePendingReputationUpdate, BridgeInv, ForeignOK, StoredEmitted
<1>5. ForeignOK' /\ HomeOK'
  BY <1>4 DEF bridgePendingReputationUpdate, BridgeInv, ForeignOK, HomeOK
<1>6. PendingEmitted' /\ CountsLog' /\ LogFollowsEmissions'
  BY
     DEF bridgePendingReputationUpdate, BridgeInv, PendingEmitted, CountsLog, LogFollowsEmissions,
         emittedAs
<1> QED BY <1>3, <1>4, <1>5, <1>6 DEF BridgeInv

LEMMA addHomeSkillInv ==
  ASSUME BridgeInv, NEW parent, addHomeSkill(parent)
  PROVE  BridgeInv'
<1>1. UNCHANGED <<foreignVars, bridgedSkills, pendingSkills, pendingUpdates, log,
                  reputationUpdateCount, reputationRootHash, rootNonce, published>>
  BY DEF addHomeSkill
<1> QED BY <1>1 DEF BridgeInv, ForeignOK, HomeOK, PublishedOK, StoredEmitted, PendingEmitted,
                    PublishedEmitted, CountsLog, LogFollowsEmissions, RootsInOrder, ForeignInOrder,
                    emittedAs

\* More skills on home, early ones among them or not, let more be logged.
LEMMA SkillsGrow ==
  ASSUME BridgeInv, bridgedSkills' \in Nat, bridgedSkills' >= bridgedSkills,
         DOMAIN pendingSkills' \subseteq Nat,
         UNCHANGED <<foreignVars, pendingUpdates, log, reputationUpdateCount,
                     reputationRootHash, rootNonce, published>>
  PROVE  BridgeInv'
<1>1. ForeignOK' /\ HomeOK' /\ PublishedOK' BY DEF BridgeInv, ForeignOK, HomeOK, PublishedOK
<1>2. /\ StoredEmitted' /\ PendingEmitted' /\ PublishedEmitted' /\ CountsLog'
      /\ RootsInOrder' /\ ForeignInOrder'
  BY DEF BridgeInv, StoredEmitted, PendingEmitted, PublishedEmitted, CountsLog, RootsInOrder,
         ForeignInOrder, emittedAs
<1>3. LogFollowsEmissions'
  <2>1. \A c \in Colonies : \A i \in DOMAIN log[c] : log[c][i] \in Nat
    BY DEF BridgeInv, HomeOK
  <2> QED BY <2>1 DEF BridgeInv, HomeOK, LogFollowsEmissions
<1> QED BY <1>1, <1>2, <1>3 DEF BridgeInv

LEMMA addPendingSkillInv ==
  ASSUME BridgeInv, NEW n, addPendingSkill(n)
  PROVE  BridgeInv'
<1>1. /\ bridgedSkills' \in Nat /\ bridgedSkills' >= bridgedSkills
      /\ DOMAIN pendingSkills' \subseteq Nat
  BY DEF addPendingSkill, without, BridgeInv, HomeOK
<1> QED BY <1>1, SkillsGrow DEF addPendingSkill

LEMMA addPendingReputationUpdateInv ==
  ASSUME BridgeInv, NEW c \in Colonies, addPendingReputationUpdate(c)
  PROVE  BridgeInv'
<1> DEFINE n == reputationUpdateCount[c] + 1
           skill == pendingUpdates[c][n]
<1>1. /\ emittedAs(c, n, skill) /\ skill <= bridgedSkills
      /\ appendReputationUpdateLogInternal(c, skill)
  BY DEF addPendingReputationUpdate, BridgeInv, PendingEmitted
<1>2. UNCHANGED <<bridgeEnabled, outages, foreignVars, bridgedSkills, pendingSkills,
                  reputationRootHash, rootNonce, published>>
  BY DEF addPendingReputationUpdate
<1>3. /\ log' \in [Colonies -> Seq(Nat)] /\ reputationUpdateCount' \in [Colonies -> Nat]
      /\ CountsLog' /\ LogFollowsEmissions'
  <2> HIDE DEF n, skill
  <2>1. n = reputationUpdateCount[c] + 1 BY DEF n
  <2> QED BY <1>1, <1>2, <2>1, Logged
<1>4. /\ DOMAIN pendingUpdates' = Colonies
      /\ \A d \in Colonies : DOMAIN pendingUpdates'[d] \subseteq DOMAIN pendingUpdates[d]
      /\ \A d \in Colonies : \A k \in DOMAIN pendingUpdates'[d] :
           pendingUpdates'[d][k] = pendingUpdates[d][k]
  <2>1. DOMAIN pendingUpdates = Colonies BY DEF BridgeInv, HomeOK
  <2>2. pendingUpdates' = [pendingUpdates EXCEPT ![c] = without(pendingUpdates[c], n)]
    BY <2>1 DEF addPendingReputationUpdate
  <2>3. pendingUpdates'[c] = without(pendingUpdates[c], n) BY <2>1, <2>2
  <2>4. \A d \in Colonies : d # c => pendingUpdates'[d] = pendingUpdates[d] BY <2>1, <2>2
  <2>5. DOMAIN pendingUpdates' = Colonies BY <2>1, <2>2
  <2>6. /\ DOMAIN pendingUpdates'[c] \subseteq DOMAIN pendingUpdates[c]
        /\ \A k \in DOMAIN pendingUpdates'[c] : pendingUpdates'[c][k] = pendingUpdates[c][k]
    BY <2>3 DEF without
  <2> QED BY <2>4, <2>5, <2>6
<1>5. ForeignOK' /\ HomeOK' /\ PublishedOK'
  BY <1>2, <1>3, <1>4 DEF BridgeInv, ForeignOK, HomeOK, PublishedOK
<1>6. StoredEmitted' /\ PublishedEmitted' /\ RootsInOrder' /\ ForeignInOrder'
  BY <1>2 DEF BridgeInv, StoredEmitted, PublishedEmitted, RootsInOrder, ForeignInOrder, emittedAs
<1>7. PendingEmitted' BY <1>2, <1>4 DEF BridgeInv, PendingEmitted, emittedAs
<1> QED BY <1>3, <1>5, <1>6, <1>7 DEF BridgeInv

LEMMA newRootHashInv ==
  ASSUME BridgeInv, newRootHash
  PROVE  BridgeInv'
<1>1. UNCHANGED <<foreignVars, bridgedSkills, pendingSkills, pendingUpdates, log,
                  reputationUpdateCount, rootNonce, published>>
  BY DEF newRootHash
<1>2. reputationRootHash \in Nat /\ reputationRootHash' = reputationRootHash + 1
  BY DEF newRootHash, BridgeInv, HomeOK
<1>3. ForeignOK' /\ HomeOK' /\ PublishedOK'
  BY <1>1, <1>2 DEF BridgeInv, ForeignOK, HomeOK, PublishedOK
<1>4. StoredEmitted' /\ PendingEmitted' /\ PublishedEmitted' /\ CountsLog' /\ LogFollowsEmissions'
  BY <1>1 DEF BridgeInv, StoredEmitted, PendingEmitted, PublishedEmitted, CountsLog,
              LogFollowsEmissions, emittedAs
<1>5. RootsInOrder' /\ ForeignInOrder'
  <2>1. \A i \in DOMAIN published : published[i].type = "root" => published[i].root \in Nat
    BY DEF BridgeInv, PublishedOK, Messages
  <2> QED BY <1>1, <1>2, <2>1 DEF BridgeInv, RootsInOrder, ForeignInOrder, ForeignOK
<1> QED BY <1>3, <1>4, <1>5 DEF BridgeInv

LEMMA bridgeCurrentRootHashInv ==
  ASSUME BridgeInv, bridgeCurrentRootHash
  PROVE  BridgeInv'
<1> DEFINE m == [type |-> "root", root |-> reputationRootHash, nonce |-> rootNonce + 1]
<1>1. m \in Messages BY DEF BridgeInv, HomeOK, Messages
<1>2. published' = Append(published, m) /\ rootNonce' = rootNonce + 1
      /\ UNCHANGED <<foreignVars, bridgedSkills, pendingSkills, pendingUpdates, log,
                     reputationUpdateCount, reputationRootHash>>
  BY DEF bridgeCurrentRootHash, publish
<1>3. PublishedOK' /\ PublishedEmitted' /\ RootsInOrder' /\ ForeignInOrder'
  BY <1>1, <1>2, Published DEF emittedAs
<1>4. ForeignOK' /\ HomeOK' BY <1>2 DEF BridgeInv, ForeignOK, HomeOK
<1>5. StoredEmitted' /\ PendingEmitted' /\ CountsLog' /\ LogFollowsEmissions'
  BY <1>2 DEF BridgeInv, StoredEmitted, PendingEmitted, CountsLog, LogFollowsEmissions, emittedAs
<1> QED BY <1>3, <1>4, <1>5 DEF BridgeInv

\* A call that leaves both ends alone keeps the invariant.
LEMMA BridgeStutter ==
  ASSUME BridgeInv, UNCHANGED <<foreignVars, homeVars, published>>
  PROVE  BridgeInv'
BY DEF BridgeInv, ForeignOK, HomeOK, PublishedOK, StoredEmitted, PendingEmitted,
       PublishedEmitted, CountsLog, LogFollowsEmissions, RootsInOrder, ForeignInOrder, emittedAs


\* A message received: one that is early is stored, one in its turn applied.
LEMMA addSkillFromBridgeInv ==
  ASSUME BridgeInv, NEW m \in Messages, m.type = "skill", accepts(m), addSkillFromBridge(m),
         UNCHANGED published
  PROVE  BridgeInv'
<1>1. m.skill \in Nat BY DEF Messages
<1>2. CASE m.skill = bridgedSkills + 1
  BY <1>1, <1>2, SkillsGrow DEF addSkillFromBridge, BridgeInv, HomeOK
<1>3. CASE m.skill # bridgedSkills + 1
  <2>1. DOMAIN pendingSkills' \subseteq Nat
    BY <1>1, <1>3 DEF addSkillFromBridge, with, BridgeInv, HomeOK
  <2> QED BY <1>3, <2>1, SkillsGrow DEF addSkillFromBridge, BridgeInv, HomeOK
<1> QED BY <1>2, <1>3

LEMMA addReputationUpdateLogFromBridgeInv ==
  ASSUME BridgeInv, NEW m \in Messages, m.type = "update",
         emittedAs(m.colony, m.number, m.skill),
         addReputationUpdateLogFromBridge(m), UNCHANGED published
  PROVE  BridgeInv'
<1>1. m.colony \in Colonies /\ m.number \in Nat /\ m.skill \in Nat BY DEF Messages
<1>2. UNCHANGED <<foreignVars, bridgedSkills, pendingSkills, reputationRootHash, rootNonce>>
  BY DEF addReputationUpdateLogFromBridge
<1>3. /\ log' \in [Colonies -> Seq(Nat)] /\ reputationUpdateCount' \in [Colonies -> Nat]
      /\ CountsLog' /\ LogFollowsEmissions'
      /\ DOMAIN pendingUpdates' = Colonies /\ PendingEmitted'
  <2>1. CASE nextUpdate(m.colony, m.number, m.skill)
    <3>1. appendReputationUpdateLogInternal(m.colony, m.skill) /\ UNCHANGED pendingUpdates
      BY <2>1 DEF addReputationUpdateLogFromBridge
    <3>2. /\ emittedAs(m.colony, reputationUpdateCount[m.colony] + 1, m.skill)
          /\ m.skill <= bridgedSkills
      BY <2>1 DEF nextUpdate
    <3>3. /\ log' \in [Colonies -> Seq(Nat)] /\ reputationUpdateCount' \in [Colonies -> Nat]
          /\ CountsLog' /\ LogFollowsEmissions'
      BY <1>1, <1>2, <3>1, <3>2, Logged
    <3> QED BY <1>2, <3>1, <3>3 DEF BridgeInv, HomeOK, PendingEmitted, emittedAs
  <2>2. CASE ~ nextUpdate(m.colony, m.number, m.skill)
    <3>1. UNCHANGED <<log, reputationUpdateCount>>
      BY <2>2 DEF addReputationUpdateLogFromBridge
    <3>2. DOMAIN pendingUpdates = Colonies BY DEF BridgeInv, HomeOK
    <3>3. pendingUpdates' = [pendingUpdates EXCEPT ![m.colony] =
                               with(pendingUpdates[m.colony], m.number, m.skill)]
      BY <1>1, <2>2, <3>2 DEF addReputationUpdateLogFromBridge
    <3>4. /\ DOMAIN pendingUpdates' = Colonies
          /\ pendingUpdates'[m.colony] = with(pendingUpdates[m.colony], m.number, m.skill)
          /\ \A d \in Colonies : d # m.colony => pendingUpdates'[d] = pendingUpdates[d]
      BY <1>1, <3>2, <3>3
    <3>5. /\ DOMAIN pendingUpdates'[m.colony] = DOMAIN pendingUpdates[m.colony] \cup {m.number}
          /\ pendingUpdates'[m.colony][m.number] = m.skill
          /\ \A k \in DOMAIN pendingUpdates[m.colony] : k # m.number =>
               pendingUpdates'[m.colony][k] = pendingUpdates[m.colony][k]
      BY <3>4 DEF with
    <3>6. PendingEmitted'
      BY <1>1, <1>2, <3>4, <3>5 DEF BridgeInv, PendingEmitted, emittedAs
    <3>7. CountsLog' /\ LogFollowsEmissions'
      BY <1>2, <3>1 DEF BridgeInv, CountsLog, LogFollowsEmissions
    <3> QED BY <3>1, <3>4, <3>6, <3>7 DEF BridgeInv, HomeOK
  <2> QED BY <2>1, <2>2
<1>4. ForeignOK' /\ HomeOK' /\ PublishedOK'
  BY <1>2, <1>3 DEF BridgeInv, ForeignOK, HomeOK, PublishedOK
<1>5. StoredEmitted' /\ PublishedEmitted' /\ RootsInOrder' /\ ForeignInOrder'
  BY <1>2 DEF BridgeInv, StoredEmitted, PublishedEmitted, RootsInOrder, ForeignInOrder, emittedAs
<1> QED BY <1>3, <1>4, <1>5 DEF BridgeInv

LEMMA setReputationRootHashFromBridgeInv ==
  ASSUME BridgeInv, NEW i \in DOMAIN published, published[i].type = "root",
         acceptsRoot(published[i]),
         setReputationRootHashFromBridge(published[i]), UNCHANGED published
  PROVE  BridgeInv' /\ foreignRootHash' >= foreignRootHash
<1>1. published[i].root \in Nat /\ published[i].nonce \in Nat
  BY DEF BridgeInv, PublishedOK, Messages
<1>2. /\ foreignRootHash' = published[i].root /\ foreignNonce' = published[i].nonce
      /\ UNCHANGED <<parentOf, emitted, stored, homeVars, published>>
  BY DEF setReputationRootHashFromBridge
<1>3. ForeignInOrder'
  BY <1>1, <1>2 DEF BridgeInv, RootsInOrder, ForeignInOrder
<1>4. ForeignOK' /\ HomeOK' /\ PublishedOK'
  BY <1>1, <1>2 DEF BridgeInv, ForeignOK, HomeOK, PublishedOK
<1>5. /\ StoredEmitted' /\ PendingEmitted' /\ PublishedEmitted' /\ CountsLog'
      /\ LogFollowsEmissions' /\ RootsInOrder'
  BY <1>2 DEF BridgeInv, StoredEmitted, PendingEmitted, PublishedEmitted, CountsLog,
              LogFollowsEmissions, RootsInOrder, emittedAs
<1>6. foreignRootHash' >= foreignRootHash
  BY <1>2 DEF BridgeInv, ForeignInOrder, acceptsRoot
<1> QED BY <1>3, <1>4, <1>5, <1>6 DEF BridgeInv

\* Whichever of the three calls a message carries.
LEMMA receiveMessageInv ==
  ASSUME BridgeInv, NEW i \in DOMAIN published, receiveMessage(published[i])
  PROVE  BridgeInv' /\ foreignRootHash' >= foreignRootHash
<1> DEFINE m == published[i]
<1>1. m \in Messages /\ foreignRootHash \in Nat /\ UNCHANGED published
  BY DEF BridgeInv, PublishedOK, ForeignOK, receiveMessage
<1>2. CASE ~ accepts(m)
  BY <1>1, <1>2, BridgeStutter DEF receiveMessage
<1>3. CASE accepts(m) /\ m.type = "skill" /\ addSkillFromBridge(m)
  <2>1. UNCHANGED foreignRootHash BY <1>3 DEF addSkillFromBridge
  <2> QED BY <1>1, <1>3, <2>1, addSkillFromBridgeInv
<1>4. CASE accepts(m) /\ m.type = "update" /\ addReputationUpdateLogFromBridge(m)
  <2>1. UNCHANGED foreignRootHash BY <1>4 DEF addReputationUpdateLogFromBridge
  <2>2. emittedAs(m.colony, m.number, m.skill) BY <1>4 DEF BridgeInv, PublishedEmitted
  <2> QED BY <1>1, <1>4, <2>1, <2>2, addReputationUpdateLogFromBridgeInv
<1>5. CASE accepts(m) /\ m.type = "root" /\ setReputationRootHashFromBridge(m)
  <2>1. acceptsRoot(m) BY <1>5 DEF accepts
  <2> QED BY <1>1, <1>5, <2>1, setReputationRootHashFromBridgeInv
<1> QED BY <1>2, <1>3, <1>4, <1>5 DEF receiveMessage, callColonyNetwork

\* Nothing was sent and nothing logged.
LEMMA BridgeInitInv == BridgeInit => BridgeInv
<1> SUFFICES ASSUME BridgeInit PROVE BridgeInv OBVIOUS
<1>1. ForeignOK /\ HomeOK /\ PublishedOK
  BY DEF BridgeInit, ForeignOK, HomeOK, PublishedOK
<1>2. /\ DOMAIN published = {}
      /\ \A c \in Colonies : DOMAIN pendingUpdates[c] = {} /\ DOMAIN log[c] = {}
  BY DEF BridgeInit
<1>3. StoredEmitted /\ PendingEmitted /\ PublishedEmitted /\ CountsLog /\ LogFollowsEmissions
      /\ RootsInOrder /\ ForeignInOrder
  BY <1>2 DEF BridgeInit, StoredEmitted, PendingEmitted, PublishedEmitted, CountsLog,
              LogFollowsEmissions, RootsInOrder, ForeignInOrder
<1> QED BY <1>1, <1>3 DEF BridgeInv

\* Every step keeps the invariant, and foreign's root hash is not set back.
LEMMA BridgeNextInv ==
  ASSUME BridgeInv, [BridgeNext]_bridgeVars
  PROVE  BridgeInv' /\ foreignRootHash' >= foreignRootHash
<1>1. foreignRootHash \in Nat BY DEF BridgeInv, ForeignOK
<1>2. CASE Receive BY <1>2, receiveMessageInv DEF Receive
<1>3. CASE Use
  <2>1. UNCHANGED foreignRootHash
    BY <1>3
       DEF Use, addSkill, bridgeSkill, appendReputationUpdateLog, bridgePendingReputationUpdate,
                addPendingReputationUpdate, addPendingSkill, newRootHash, bridgeCurrentRootHash,
                DisableBridge, EnableBridge
  <2>2. DisableBridge \/ EnableBridge => BridgeInv'
    BY BridgeStutter DEF DisableBridge, EnableBridge
  <2>3. BridgeInv'
    BY <1>3, <2>2, addSkillInv, bridgeSkillInv, appendReputationUpdateLogInv,
       bridgePendingReputationUpdateInv, addPendingReputationUpdateInv, addPendingSkillInv,
       newRootHashInv, bridgeCurrentRootHashInv
       DEF Use
  <2> QED BY <1>1, <2>1, <2>3
<1>4. CASE \E n \in 1 .. MaxHomeSkills : addHomeSkill(n)
  <2>1. UNCHANGED foreignRootHash BY <1>4 DEF addHomeSkill
  <2> QED BY <1>1, <1>4, <2>1, addHomeSkillInv
<1>5. CASE UNCHANGED bridgeVars BY <1>1, <1>5, BridgeStutter
<1> QED BY <1>2, <1>3, <1>4, <1>5 DEF BridgeNext

(* The inductive invariant of the two ends: it holds whichever of the         *)
(* published messages arrive, in any order and any number of times.           *)
THEOREM BridgeInvariance == BridgeSpec => []BridgeInv
<1>1. BridgeInv /\ [BridgeNext]_bridgeVars => BridgeInv' BY BridgeNextInv
<1> QED BY <1>1, BridgeInitInv, PTL DEF BridgeSpec

-----------------------------------------------------------------------------
(* The spy and the relayer are one way to carry the messages.              *)

\* What the spy and the relayer do, the two chains see as use of theirs, as a
\* message received, or not at all.
LEMMA RelayStep == [Next]_vars => [BridgeNext]_bridgeVars
<1> SUFFICES ASSUME [Next]_vars PROVE [BridgeNext]_bridgeVars OBVIOUS
<1>1. CASE UseChains BY <1>1 DEF UseChains, BridgeNext
<1>2. CASE \E i \in DOMAIN published : Relay(i) BY <1>2 DEF Relay, BridgeNext, Receive
<1>3. CASE Resubmit BY <1>3 DEF Resubmit, BridgeNext, Receive
<1>4. CASE (\E i \in DOMAIN published : Hear(i)) \/ Skip \/ processQueue \/ bridgeSkipped
           \/ \E j \in Jobs : PassOn(j) \/ SeeTransaction(j)
  BY <1>4 DEF Hear, Skip, processQueue, bridgeSkipped, PassOn, SeeTransaction
<1>5. CASE UNCHANGED vars BY <1>5 DEF vars
<1> QED BY <1>1, <1>2, <1>3, <1>4, <1>5 DEF Next

(* The spy and the relayer only choose among the deliveries that the bridge   *)
(* allows (mockGuardianSpy.ts, wormhole relayer): what holds of the bridge    *)
(* with any carrier holds of it with them.                                    *)
THEOREM ImplementsBridge == Spec => BridgeSpec
<1>1. Init => BridgeInit BY DEF Init
<1> QED BY <1>1, RelayStep, PTL DEF Spec, BridgeSpec

(* What home logs of a colony is the beginning of what the colony emitted,    *)
(* in its order and for skills home has, however the messages come and        *)
(* wherever the bridge is out (ColonyNetworkSkills.sol).                      *)
THEOREM LogsWhatWasEmitted == Spec => []LogFollowsEmissions
<1>1. BridgeInv => LogFollowsEmissions BY DEF BridgeInv
<1> QED BY <1>1, BridgeInvariance, ImplementsBridge, PTL

(* The root hash that the other chain takes never goes back to an older one   *)
(* (ColonyNetworkMining.sol, setReputationRootHashFromBridge).                *)
THEOREM RootHashGoesOn == Spec => RootHashNeverOlder
<1>1. BridgeInv /\ [BridgeNext]_bridgeVars => [foreignRootHash' >= foreignRootHash]_foreignRootHash
  BY BridgeNextInv
<1>2. BridgeSpec => [][foreignRootHash' >= foreignRootHash]_foreignRootHash
  BY <1>1, BridgeInvariance, PTL DEF BridgeSpec
<1> QED BY <1>2, ImplementsBridge DEF RootHashNeverOlder

-----------------------------------------------------------------------------
(* One message at a time.                                                  *)

SpyOK ==
  /\ jobs \in [Jobs -> [at : {"idle", "taken", "waiting"}, message : Nat, nonce : Nat]]
  /\ relayed \in [Chains -> Seq(Nat)]
  /\ queue \in Seq(Nat) /\ \A k \in DOMAIN queue : queue[k] \in DOMAIN published
  /\ skipped \in Seq(Nat) /\ \A k \in DOMAIN skipped : skipped[k] \in DOMAIN published
  /\ \A j \in Jobs : jobs[j].at # "idle" => jobs[j].message \in DOMAIN published

\* While processQueue waits it has the lock; while bridgeSkipped does, there is
\* nothing else to pass on.
OneAtATime ==
  /\ locked <=> jobs["queue"].at # "idle"
  /\ jobs["skipped"].at # "idle" => ~ locked /\ queue = <<>> /\ heard = DOMAIN published

\* The relayer has the message that a job waits for, or has just sent it.
onItsWay(j) ==
  LET sent == relayed[destination(jobs[j].message)]
  IN  \/ inbox = {jobs[j].message} /\ Len(sent) = jobs[j].nonce
      \/ inbox = {} /\ Len(sent) = jobs[j].nonce + 1 /\ sent[jobs[j].nonce + 1] = jobs[j].message

\* It has no other.
OnItsWay ==
  /\ \A j \in Jobs : jobs[j].at = "waiting" => onItsWay(j)
  /\ (\A j \in Jobs : jobs[j].at # "waiting") => inbox = {}

SpyInv == SpyOK /\ OneAtATime /\ OnItsWay

\* The two jobs of the spy are not under way at once.
LEMMA OneJob ==
  ASSUME SpyInv
  PROVE  jobs["queue"].at = "idle" \/ jobs["skipped"].at = "idle"
BY DEF SpyInv, OneAtATime

\* What is published stays where it is.
LEMMA PublishedGrows ==
  ASSUME BridgeInv, Use
  PROVE  \A i \in DOMAIN published : i \in DOMAIN published' /\ published'[i] = published[i]
<1>1. UNCHANGED published \/ \E m : published' = Append(published, m)
  BY
     DEF Use, publish, addSkill, bridgeSkill, appendReputationUpdateLog,
         bridgePendingReputationUpdate,
         addPendingReputationUpdate, addPendingSkill, newRootHash, bridgeCurrentRootHash,
         DisableBridge, EnableBridge
<1>2. published \in Seq(Messages) BY DEF BridgeInv, PublishedOK
<1> QED BY <1>1, <1>2

\* One lemma per step of the spy and of what goes on beside it.
LEMMA UseChainsSpy ==
  ASSUME BridgeInv, SpyInv, UseChains, Quiet
  PROVE  SpyInv'
<1>1. /\ \A i \in DOMAIN published : i \in DOMAIN published' /\ published'[i] = published[i]
      /\ UNCHANGED <<spyVars, relayerVars>> /\ jobs["skipped"].at = "idle"
  BY PublishedGrows DEF UseChains
<1>2. SpyOK' BY <1>1 DEF SpyInv, SpyOK, spyVars, relayerVars
<1>3. OneAtATime' BY <1>1 DEF SpyInv, OneAtATime, spyVars
<1>4. \A i \in DOMAIN published : destination(i)' = destination(i) BY <1>1 DEF destination
<1>5. OnItsWay' BY <1>1, <1>4 DEF SpyInv, SpyOK, OnItsWay, onItsWay, spyVars, relayerVars
<1> QED BY <1>2, <1>3, <1>5 DEF SpyInv

\* The steps that publish nothing leave every message where it goes.
LEMMA SameDestination ==
  ASSUME UNCHANGED published
  PROVE  \A i : destination(i)' = destination(i)
BY DEF destination

LEMMA HearSpy ==
  ASSUME SpyInv, NEW i, Hear(i), published \in Seq(Messages)
  PROVE  SpyInv'
<1>1. i \in DOMAIN published /\ i \in Nat /\ jobs["skipped"].at = "idle"
  BY DEF Hear, SpyInv, OneAtATime
<1>2. UNCHANGED <<published, jobs, inbox, relayed, locked>> BY DEF Hear, relayerVars
<1>3. /\ queue' = queue \/ queue' = Append(queue, i)
      /\ skipped' = skipped \/ skipped' = Append(skipped, i)
  BY DEF Hear
<1>4. /\ queue' \in Seq(Nat) /\ \A k \in DOMAIN queue' : queue'[k] \in DOMAIN published
      /\ skipped' \in Seq(Nat) /\ \A k \in DOMAIN skipped' : skipped'[k] \in DOMAIN published
  <2> DEFINE Good(s) == s \in Seq(Nat) /\ \A k \in DOMAIN s : s[k] \in DOMAIN published
  <2>1. ASSUME NEW s, Good(s) PROVE Good(Append(s, i))
    <3>1. Append(s, i) \in Seq(Nat) BY <1>1, <2>1
    <3>2. \A k \in DOMAIN Append(s, i) : Append(s, i)[k] \in DOMAIN published
      BY <1>1, <2>1, AppendFacts
    <3> QED BY <3>1, <3>2
  <2>2. Good(queue) /\ Good(skipped) BY DEF SpyInv, SpyOK
  <2> HIDE DEF Good
  <2>3. Good(queue') /\ Good(skipped') BY <1>3, <2>1, <2>2
  <2> QED BY <2>3 DEF Good
<1>5. SpyOK' BY <1>2, <1>4 DEF SpyInv, SpyOK
<1>6. OneAtATime' BY <1>1, <1>2 DEF SpyInv, OneAtATime
<1>7. OnItsWay' BY <1>2, SameDestination DEF SpyInv, OnItsWay, onItsWay
<1> QED BY <1>5, <1>6, <1>7 DEF SpyInv

\* A job takes the first message of its sequence.
LEMMA TakeSpy ==
  ASSUME SpyInv, NEW j \in Jobs, NEW s \in {queue, skipped}, s # <<>>,
         \A k \in Jobs : jobs[k].at = "idle", start(j, Head(s))
  PROVE  /\ jobs' \in [Jobs -> [at : {"idle", "taken", "waiting"}, message : Nat, nonce : Nat]]
         /\ jobs'[j].at = "taken" /\ jobs'[j].message \in DOMAIN published
         /\ \A k \in Jobs : k # j => jobs'[k].at = "idle"
         /\ Tail(s) \in Seq(Nat) /\ \A k \in DOMAIN Tail(s) : Tail(s)[k] \in DOMAIN published
         /\ inbox = {}
<1>1. s \in Seq(Nat) /\ \A k \in DOMAIN s : s[k] \in DOMAIN published BY DEF SpyInv, SpyOK
<1>2. Head(s) \in Nat /\ Head(s) \in DOMAIN published BY <1>1
<1>3. Tail(s) \in Seq(Nat) /\ \A k \in DOMAIN Tail(s) : Tail(s)[k] \in DOMAIN published BY <1>1
<1>4. PICK r : /\ jobs' = [jobs EXCEPT ![j] = r] /\ r.at = "taken" /\ r.message = Head(s)
               /\ r \in [at : {"idle", "taken", "waiting"}, message : Nat, nonce : Nat]
  <2> DEFINE r == [IdleJob EXCEPT !.at = "taken", !.message = Head(s)]
  <2>1. jobs' = [jobs EXCEPT ![j] = r] BY DEF start
  <2>2. r.at = "taken" /\ r.message = Head(s) BY DEF IdleJob
  <2>3. r \in [at : {"idle", "taken", "waiting"}, message : Nat, nonce : Nat]
    BY <1>2 DEF IdleJob
  <2> QED BY <2>1, <2>2, <2>3
<1>5. /\ jobs' \in [Jobs -> [at : {"idle", "taken", "waiting"}, message : Nat, nonce : Nat]]
      /\ jobs'[j].at = "taken" /\ jobs'[j].message = Head(s)
      /\ \A k \in Jobs : k # j => jobs'[k] = jobs[k]
  BY <1>2, <1>4 DEF SpyInv, SpyOK
<1>6. inbox = {} BY DEF SpyInv, OnItsWay
<1> QED BY <1>2, <1>3, <1>5, <1>6

LEMMA processQueueSpy ==
  ASSUME SpyInv, processQueue
  PROVE  SpyInv'
<1>1. \A k \in Jobs : jobs[k].at = "idle"
  BY DEF processQueue, SpyInv, OneAtATime, Jobs
<1>2. queue # <<>> /\ start("queue", Head(queue)) /\ queue' = Tail(queue) /\ locked' = TRUE
      /\ UNCHANGED <<published, heard, skipped, inbox, relayed>>
  BY DEF processQueue, relayerVars
<1>3. /\ jobs' \in [Jobs -> [at : {"idle", "taken", "waiting"}, message : Nat, nonce : Nat]]
      /\ jobs'["queue"].at = "taken" /\ jobs'["queue"].message \in DOMAIN published
      /\ \A k \in Jobs : k # "queue" => jobs'[k].at = "idle"
      /\ queue' \in Seq(Nat) /\ \A k \in DOMAIN queue' : queue'[k] \in DOMAIN published
      /\ inbox = {}
  BY <1>1, <1>2, TakeSpy DEF Jobs
<1>4. SpyOK' BY <1>2, <1>3 DEF SpyInv, SpyOK
<1>5. OneAtATime' BY <1>2, <1>3 DEF OneAtATime, Jobs
<1>6. OnItsWay' BY <1>2, <1>3 DEF OnItsWay
<1> QED BY <1>4, <1>5, <1>6 DEF SpyInv

LEMMA bridgeSkippedSpy ==
  ASSUME SpyInv, bridgeSkipped, Quiet
  PROVE  SpyInv'
<1>1. \A k \in Jobs : jobs[k].at = "idle"
  BY DEF bridgeSkipped, quiet, SpyInv, OneAtATime, Jobs
<1>2. skipped # <<>> /\ start("skipped", Head(skipped)) /\ skipped' = Tail(skipped)
      /\ ~ locked /\ queue = <<>> /\ heard = DOMAIN published
      /\ UNCHANGED <<published, heard, queue, locked, inbox, relayed>>
  BY DEF bridgeSkipped, quiet, relayerVars
<1>3. /\ jobs' \in [Jobs -> [at : {"idle", "taken", "waiting"}, message : Nat, nonce : Nat]]
      /\ jobs'["skipped"].at = "taken" /\ jobs'["skipped"].message \in DOMAIN published
      /\ \A k \in Jobs : k # "skipped" => jobs'[k].at = "idle"
      /\ skipped' \in Seq(Nat) /\ \A k \in DOMAIN skipped' : skipped'[k] \in DOMAIN published
      /\ inbox = {}
  BY <1>1, <1>2, TakeSpy DEF Jobs
<1>4. SpyOK' BY <1>2, <1>3 DEF SpyInv, SpyOK
<1>5. OneAtATime' BY <1>2, <1>3 DEF OneAtATime, Jobs
<1>6. OnItsWay' BY <1>2, <1>3 DEF OnItsWay
<1> QED BY <1>4, <1>5, <1>6 DEF SpyInv

LEMMA PassOnSpy ==
  ASSUME SpyInv, NEW j \in Jobs, PassOn(j)
  PROVE  SpyInv'
<1> DEFINE i == jobs[j].message
<1>1. /\ jobs[j].at = "taken" /\ \A k \in Jobs : k # j => jobs[k].at = "idle"
      /\ i \in DOMAIN published
  BY OneJob DEF PassOn, SpyInv, SpyOK, Jobs
<1>2. inbox = {} BY <1>1 DEF SpyInv, OnItsWay
<1>3. UNCHANGED <<published, heard, queue, skipped, locked, relayed>> BY DEF PassOn
<1>4. /\ jobs' = [jobs EXCEPT ![j].at = "waiting", ![j].nonce = Len(relayed[destination(i)])]
      /\ inbox' = {i}
  BY <1>2 DEF PassOn
<1>5. relayed[destination(i)] \in Seq(Nat) BY DEF SpyInv, SpyOK, destination, Chains
<1>6. /\ jobs' \in [Jobs -> [at : {"idle", "taken", "waiting"}, message : Nat, nonce : Nat]]
      /\ jobs'[j].at = "waiting" /\ jobs'[j].message = i
      /\ jobs'[j].nonce = Len(relayed[destination(i)])
      /\ \A k \in Jobs : k # j => jobs'[k] = jobs[k]
  <2> DEFINE nonce == Len(relayed[destination(i)])
  <2>1. nonce \in Nat BY <1>5
  <2>2. jobs' = [jobs EXCEPT ![j].at = "waiting", ![j].nonce = nonce] BY <1>4
  <2> HIDE DEF nonce
  <2>3. /\ jobs' \in [Jobs -> [at : {"idle", "taken", "waiting"}, message : Nat, nonce : Nat]]
        /\ jobs'[j].at = "waiting" /\ jobs'[j].message = i /\ jobs'[j].nonce = nonce
        /\ \A k \in Jobs : k # j => jobs'[k] = jobs[k]
    BY <2>1, <2>2 DEF SpyInv, SpyOK
  <2> QED BY <2>3 DEF nonce
<1>7. SpyOK' BY <1>1, <1>3, <1>6 DEF SpyInv, SpyOK
<1>8. OneAtATime' BY <1>1, <1>3, <1>6 DEF SpyInv, OneAtATime, Jobs
<1>9. OnItsWay'
  <2>1. onItsWay(j)' BY <1>3, <1>4, <1>6, SameDestination DEF onItsWay
  <2> QED BY <1>1, <1>6, <2>1 DEF OnItsWay
<1> QED BY <1>7, <1>8, <1>9 DEF SpyInv

LEMMA SeeTransactionSpy ==
  ASSUME SpyInv, NEW j \in Jobs, SeeTransaction(j)
  PROVE  SpyInv'
<1>1. jobs[j].at = "waiting" /\ \A k \in Jobs : k # j => jobs[k].at = "idle"
  BY OneJob DEF SeeTransaction, Jobs
<1>2. UNCHANGED <<published, heard, queue, skipped, inbox, relayed>>
  BY
     DEF SeeTransaction, relayerVars
<1>3. inbox = {}
  <2>1. jobs[j].nonce \in Nat BY DEF SpyInv, SpyOK
  <2>2. ~ (Len(relayed[destination(jobs[j].message)]) = jobs[j].nonce)
    BY <2>1 DEF SeeTransaction, grown
  <2> QED BY <1>1, <2>2 DEF SpyInv, OnItsWay, onItsWay
<1>4. /\ jobs' \in [Jobs -> [at : {"idle", "taken", "waiting"}, message : Nat, nonce : Nat]]
      /\ \A k \in Jobs : jobs'[k].at = "idle"
  BY <1>1 DEF SeeTransaction, SpyInv, SpyOK, IdleJob
<1>5. SpyOK' BY <1>2, <1>4 DEF SpyInv, SpyOK
<1>6. OneAtATime'
  <2>1. j \in {"queue", "skipped"} BY DEF Jobs
  <2>2. ~ locked' BY <1>1, <2>1 DEF SeeTransaction, SpyInv, OneAtATime, Jobs
  <2> QED BY <1>4, <2>2 DEF OneAtATime, Jobs
<1>7. OnItsWay' BY <1>2, <1>3, <1>4 DEF OnItsWay
<1> QED BY <1>5, <1>6, <1>7 DEF SpyInv

LEMMA RelaySpy ==
  ASSUME SpyInv, NEW i \in DOMAIN published, Relay(i), published \in Seq(Messages)
  PROVE  SpyInv'
<1>1. PICK j \in Jobs : jobs[j].at = "waiting" BY DEF Relay, SpyInv, OnItsWay
<1>2. \A k \in Jobs : k # j => jobs[k].at = "idle" BY <1>1, OneJob DEF Jobs
<1>3. UNCHANGED <<published, heard, queue, skipped, locked, jobs>>
  BY
     DEF Relay, receiveMessage, spyVars
<1>4. i = jobs[j].message /\ Len(relayed[destination(i)]) = jobs[j].nonce /\ inbox' = {}
  BY <1>1 DEF Relay, SpyInv, OnItsWay, onItsWay
<1>5. relayed' = [relayed EXCEPT ![destination(i)] = Append(relayed[destination(i)], i)]
  BY DEF Relay
<1>6. destination(i) \in Chains /\ relayed[destination(i)] \in Seq(Nat) /\ i \in Nat
  BY DEF SpyInv, SpyOK, destination, Chains
<1>7. /\ relayed' \in [Chains -> Seq(Nat)]
      /\ Len(relayed'[destination(i)]) = jobs[j].nonce + 1
      /\ relayed'[destination(i)][jobs[j].nonce + 1] = i
  BY <1>4, <1>5, <1>6, AppendFacts DEF SpyInv, SpyOK
<1>8. SpyOK' BY <1>3, <1>7 DEF SpyInv, SpyOK
<1>9. OneAtATime' BY <1>3 DEF SpyInv, OneAtATime
<1>10. OnItsWay'
  <2>1. onItsWay(j)' BY <1>3, <1>4, <1>7, SameDestination DEF onItsWay
  <2> QED BY <1>2, <1>3, <1>4, <2>1 DEF OnItsWay
<1> QED BY <1>8, <1>9, <1>10 DEF SpyInv

\* Every step keeps the spy's invariant.
LEMMA SpyNextInv ==
  ASSUME BridgeInv, SpyInv, [Next]_vars, Quiet
  PROVE  SpyInv'
<1>1. published \in Seq(Messages) BY DEF BridgeInv, PublishedOK
<1>2. CASE UNCHANGED <<published, heard, queue, skipped, locked, jobs, inbox, relayed>>
  <2>1. SpyOK' /\ OneAtATime' BY <1>2 DEF SpyInv, SpyOK, OneAtATime
  <2>2. OnItsWay' BY <1>2, SameDestination DEF SpyInv, OnItsWay, onItsWay
  <2> QED BY <2>1, <2>2 DEF SpyInv
<1>3. Skip \/ Resubmit
        => UNCHANGED <<published, heard, queue, skipped, locked, jobs, inbox, relayed>>
  BY DEF Skip, Resubmit, receiveMessage, spyVars, relayerVars
<1>4. UNCHANGED vars => UNCHANGED <<published, heard, queue, skipped, locked, jobs, inbox, relayed>>
  BY DEF vars, spyVars, relayerVars
<1> QED
  BY <1>1, <1>2, <1>3, <1>4, UseChainsSpy, HearSpy, RelaySpy, processQueueSpy, bridgeSkippedSpy,
           PassOnSpy, SeeTransactionSpy DEF Next

\* The spy starts idle.
LEMMA SpyInitInv == Init => SpyInv
<1> SUFFICES ASSUME Init PROVE SpyInv OBVIOUS
<1>1. SpyOK BY DEF Init, SpyOK, IdleJob
<1>2. OneAtATime /\ OnItsWay BY DEF Init, OneAtATime, OnItsWay, IdleJob, Jobs
<1> QED BY <1>1, <1>2 DEF SpyInv

(* As long as callers of bridgeSkipped wait for quiet, the transaction that   *)
(* the spy reports for a message is the one that carried it                   *)
(* (mockGuardianSpy.ts).                                                      *)
THEOREM ReportsItsOwnTransaction == Quiet => (Spec => []TransactionIsItsOwn)
<1> SUFFICES ASSUME Quiet PROVE Spec => []TransactionIsItsOwn OBVIOUS
<1>1. BridgeInv /\ SpyInv /\ [Next]_vars => SpyInv' BY SpyNextInv
<1>2. Spec => []BridgeInv BY BridgeInvariance, ImplementsBridge, PTL
<1>3. Spec => []SpyInv BY <1>1, <1>2, SpyInitInv, PTL DEF Spec
<1>4. SpyInv => TransactionIsItsOwn
  <2> SUFFICES ASSUME SpyInv, NEW j \in Jobs, jobs[j].at = "waiting", grown(j)
               PROVE  transactionOf(j) = jobs[j].message
    BY DEF TransactionIsItsOwn
  <2>1. jobs[j].nonce \in Nat BY DEF SpyInv, SpyOK
  <2>2. onItsWay(j) BY DEF SpyInv, OnItsWay
  <2> QED BY <2>1, <2>2 DEF onItsWay, grown, transactionOf
<1> QED BY <1>3, <1>4, PTL

-----------------------------------------------------------------------------
(* The relayer's wallet, and the broadcaster's.                              *)

(* The nonce sendTransaction picks is one it knows to be free: among one   *)
(* more numbers than there are pending nonces, one is not pending.         *)
LEMMA NextNonceFree ==
  ASSUME NEW from \in Nat, NEW pending \in SUBSET Nat, IsFiniteSet(pending)
  PROVE  nextNonce(from, pending) \in Nat /\ nextNonce(from, pending) \notin pending
<1> DEFINE range == from .. from + Cardinality(pending)
           free == range \ pending
<1>1. Cardinality(pending) \in Nat BY FS_CardinalityType
<1>2. range \subseteq Nat BY <1>1
<1>3. free # {}
  <2> SUFFICES ASSUME range \subseteq pending PROVE FALSE OBVIOUS
  <2>1. Cardinality(range) <= Cardinality(pending) BY FS_Subset
  <2>2. Cardinality(range) = Cardinality(pending) + 1
    BY <1>1, FS_Interval
  <2> QED BY <1>1, <2>1, <2>2
<1>4. PICK x \in free : \A y \in free : x <= y
  <2>1. free \subseteq Nat BY <1>2
  <2> HIDE DEF free
  <2> QED BY <2>1, <1>3, LeastNatural
<1>5. \A k \in from .. x - 1 : k \in pending
  BY <1>1, <1>2, <1>4
<1>6. \E n \in range : n \notin pending /\ \A k \in from .. n - 1 : k \in pending
  BY <1>4, <1>5
<1> QED BY <1>1, <1>2, <1>6 DEF nextNonce
-----------------------------------------------------------------------------
Steps == {"idle", "pending", "counted", "submitted"}

NonceTypeOK ==
  /\ signedTransactions \subseteq [tx : Transactions, nonce : Nat]
  /\ IsFiniteSet(signedTransactions)
  /\ sending \in [Transactions -> [step : Steps, pending : SUBSET Nat, nonce : Nat]]
  /\ \A t \in Transactions : IsFiniteSet(sending[t].pending)
  /\ pool \subseteq [tx : Transactions, nonce : Nat, life : Nat]
  /\ mined \subseteq [tx : Transactions, nonce : Nat]
  /\ count \in Nat /\ life \in Nat /\ life > 0

OneCall ==
  \A t, u \in Transactions :
    sending[t].step # "idle" /\ sending[u].step # "idle" => t = u

(* What is mined is below the count, what waits is not, one of each nonce. *)
NodeOrdered ==
  /\ \A w \in mined : w.nonce < count
  /\ \A e \in pool : e.nonce >= count /\ e.life <= life
  /\ \A e, f \in pool : e.nonce = f.nonce => e = f

(* A transaction of this run that waits is watched, or about to be. *)
Watched ==
  \A e \in pool : e.life = life =>
    \/ e.nonce \in noncesOf(signedTransactions)
    \/ \E t \in Transactions :
         sending[t].step = "submitted" /\ sending[t].nonce = e.nonce

PendingCovers ==
  \A t \in Transactions : sending[t].step = "pending" =>
    \A e \in pool : e.life = life => e.nonce \in sending[t].pending

NonceInv ==
  NonceTypeOK /\ OneCall /\ NodeOrdered /\ Watched /\ PendingCovers /\ NonceFree

\* Nothing is pending at first.
LEMMA NonceInvInit == NonceInit => NonceInv
<1> SUFFICES ASSUME NonceInit PROVE NonceInv OBVIOUS
<1>1. IsFiniteSet({}) BY FS_EmptySet
<1>2. NonceTypeOK BY <1>1 DEF NonceInit, NonceTypeOK, Idle, Steps
<1> QED BY <1>2 DEF NonceInit, NonceInv, Idle, OneCall, NodeOrdered, Watched,
             PendingCovers, NonceFree

\* One lemma per step.
LEMMA ReadPendingKeeps ==
  ASSUME ~ Overlap, NonceInv, NEW t \in Transactions, ReadPending(t)
  PROVE  NonceInv'
<1>1. IsFiniteSet(noncesOf(signedTransactions))
  <2> DEFINE nonce == [w \in signedTransactions |-> w.nonce]
  <2>1. nonce \in Surjection(signedTransactions, noncesOf(signedTransactions))
    BY DEF noncesOf, Surjection
  <2>2. IsFiniteSet(signedTransactions) BY DEF NonceInv, NonceTypeOK
  <2> HIDE DEF nonce
  <2> QED BY <2>1, <2>2, FS_Surjection
<1>2. noncesOf(signedTransactions) \in SUBSET Nat
  BY DEF NonceInv, NonceTypeOK, noncesOf
<1>3. NonceTypeOK'
  BY <1>1, <1>2 DEF NonceInv, NonceTypeOK, ReadPending, Steps
<1>4. \A u \in Transactions : sending[u].step = "idle" BY DEF ReadPending
<1>5. \A u \in Transactions : u # t => sending'[u].step = "idle"
  BY <1>4 DEF ReadPending, NonceInv, NonceTypeOK
<1>6. sending'[t].step = "pending" /\ sending'[t].pending = noncesOf(signedTransactions)
  BY DEF ReadPending, NonceInv, NonceTypeOK
<1>7. OneCall' BY <1>5 DEF OneCall
<1>8. NodeOrdered' BY DEF NonceInv, NodeOrdered, ReadPending
<1>9. \A e \in pool : e.life = life => e.nonce \in noncesOf(signedTransactions)
  BY <1>4 DEF NonceInv, Watched
<1>10. Watched' BY <1>9 DEF Watched, ReadPending
<1>11. PendingCovers' /\ NonceFree'
  BY <1>5, <1>6, <1>9 DEF PendingCovers, NonceFree, ReadPending
<1> QED BY <1>3, <1>7, <1>8, <1>10, <1>11 DEF NonceInv

LEMMA ReadCountKeeps ==
  ASSUME ~ Overlap, NonceInv, NEW t \in Transactions, ReadCount(t)
  PROVE  NonceInv'
<1>1. PICK answered \in 0 .. count :
        sending' = [sending EXCEPT ![t].step = "counted",
                      ![t].nonce = nextNonce(answered, sending[t].pending)]
  BY DEF ReadCount
<1> DEFINE n == nextNonce(answered, sending[t].pending)
<1>2. n \in Nat /\ n \notin sending[t].pending
  <2>1. answered \in Nat BY DEF NonceInv, NonceTypeOK
  <2>2. sending[t].pending \in SUBSET Nat /\ IsFiniteSet(sending[t].pending)
    BY DEF NonceInv, NonceTypeOK
  <2> QED BY <2>1, <2>2, NextNonceFree
<1> HIDE DEF n
<1>3. sending' = [sending EXCEPT ![t].step = "counted", ![t].nonce = n]
  BY <1>1 DEF n
<1>4. /\ sending'[t] = [sending[t] EXCEPT !.step = "counted", !.nonce = n]
      /\ \A u \in Transactions : u # t => sending'[u] = sending[u]
  BY <1>3 DEF NonceInv, NonceTypeOK
<1>5. /\ sending'[t].step = "counted" /\ sending'[t].nonce = n
      /\ sending'[t].pending = sending[t].pending
  BY <1>4 DEF NonceInv, NonceTypeOK
<1>6. NonceTypeOK'
  BY <1>2, <1>3, <1>4, <1>5 DEF NonceInv, NonceTypeOK, ReadCount, Steps
<1>7. sending[t].step = "pending" BY DEF ReadCount
<1>8. \A u \in Transactions : u # t => sending[u].step = "idle"
  BY <1>7 DEF NonceInv, OneCall
<1>9. OneCall' BY <1>4, <1>8 DEF OneCall
<1>10. NodeOrdered' BY DEF NonceInv, NodeOrdered, ReadCount
<1>11. Watched'
  <2>1. \A u \in Transactions : sending[u].step # "submitted" BY <1>7, <1>8
  <2>2. \A e \in pool : e.life = life => e.nonce \in noncesOf(signedTransactions)
    BY <2>1 DEF NonceInv, Watched
  <2> QED BY <2>2 DEF Watched, ReadCount
<1>12. PendingCovers' BY <1>4, <1>5, <1>8 DEF PendingCovers
<1>13. NonceFree'
  <2>1. \A e \in pool : e.life = life => e.nonce # n
    BY <1>2, <1>7 DEF NonceInv, PendingCovers
  <2>2. \A u \in Transactions : u # t => sending'[u].step # "counted" BY <1>4, <1>8
  <2>3. pool' = pool /\ life' = life BY DEF ReadCount
  <2> QED BY <1>5, <2>1, <2>2, <2>3 DEF NonceFree
<1> QED BY <1>6, <1>9, <1>10, <1>11, <1>12, <1>13 DEF NonceInv

LEMMA SubmitKeeps ==
  ASSUME ~ Overlap, NonceInv, NEW t \in Transactions, Submit(t)
  PROVE  NonceInv'
<1> DEFINE new == [tx |-> t, nonce |-> sending[t].nonce, life |-> life]
<1>1. /\ sending'[t].step = "submitted" /\ sending'[t].nonce = sending[t].nonce
      /\ \A u \in Transactions : u # t => sending'[u] = sending[u]
  BY DEF Submit, NonceInv, NonceTypeOK
<1>2. /\ pool' = (pool \ rivalsOf(t)) \cup {new}
      /\ \A e \in pool \ rivalsOf(t) : e.nonce # new.nonce
  BY DEF Submit, poolWith, rivalsOf
<1>3. NonceTypeOK' BY <1>2 DEF NonceInv, NonceTypeOK, Submit, Steps
<1>4. \A u \in Transactions : u # t => sending[u].step = "idle"
  BY DEF NonceInv, OneCall, Submit
<1>5. OneCall' BY <1>1, <1>4 DEF OneCall
<1>6. NodeOrdered'
  BY <1>2 DEF NonceInv, NonceTypeOK, NodeOrdered, Submit, takes
<1>7. Watched'
  <2> SUFFICES ASSUME NEW e \in pool', e.life = life
               PROVE  \/ e.nonce \in noncesOf(signedTransactions)
                      \/ sending'[t].step = "submitted" /\ sending'[t].nonce = e.nonce
    BY DEF Watched, Submit
  <2>1. CASE e = new BY <1>1, <2>1
  <2>2. CASE e \in pool
    <3>1. \A u \in Transactions : sending[u].step # "submitted"
      BY <1>4 DEF Submit
    <3> QED BY <2>2, <3>1 DEF NonceInv, Watched
  <2> QED BY <1>2, <2>1, <2>2
<1>8. PendingCovers' /\ NonceFree'
  BY <1>1, <1>4 DEF PendingCovers, NonceFree
<1> QED BY <1>3, <1>5, <1>6, <1>7, <1>8 DEF NonceInv

(* A call that ends, and leaves the pool and what is watched alone. *)
LEMMA EndingKeeps ==
  ASSUME NonceInv, NEW t \in Transactions,
         sending' = [sending EXCEPT ![t] = Idle]
  PROVE  /\ sending' \in [Transactions -> [step : Steps, pending : SUBSET Nat, nonce : Nat]]
         /\ \A u \in Transactions : IsFiniteSet(sending'[u].pending)
         /\ sending'[t].step = "idle"
         /\ \A u \in Transactions : u # t => sending'[u] = sending[u]
         /\ OneCall'
<1>1. /\ Idle \in [step : Steps, pending : SUBSET Nat, nonce : Nat]
      /\ IsFiniteSet(Idle.pending) /\ Idle.step = "idle"
  BY FS_EmptySet DEF Idle, Steps
<1>2. /\ sending'[t] = Idle
      /\ \A u \in Transactions : u # t => sending'[u] = sending[u]
  BY DEF NonceInv, NonceTypeOK
<1>3. sending' \in [Transactions -> [step : Steps, pending : SUBSET Nat, nonce : Nat]]
  BY <1>1 DEF NonceInv, NonceTypeOK
<1>4. \A u \in Transactions : IsFiniteSet(sending'[u].pending)
  BY <1>1, <1>2 DEF NonceInv, NonceTypeOK
<1>5. OneCall' BY <1>1, <1>2 DEF NonceInv, OneCall
<1> QED BY <1>1, <1>2, <1>3, <1>4, <1>5

LEMMA RefuseKeeps ==
  ASSUME NonceInv, NEW t \in Transactions, Refuse(t)
  PROVE  NonceInv'
<1>1. /\ sending' = [sending EXCEPT ![t] = Idle] /\ sending[t].step = "counted"
      /\ UNCHANGED <<signedTransactions, pool, mined, count, life>>
  BY DEF Refuse
<1>2. /\ sending'[t].step = "idle" /\ OneCall'
      /\ \A u \in Transactions : u # t => sending'[u] = sending[u]
  BY <1>1, EndingKeeps
<1>3. NonceTypeOK' BY <1>1, EndingKeeps DEF NonceInv, NonceTypeOK
<1>4. NodeOrdered' BY <1>1 DEF NonceInv, NodeOrdered
<1>5. Watched' BY <1>1, <1>2 DEF NonceInv, Watched, noncesOf
<1>6. PendingCovers' /\ NonceFree'
  BY <1>1, <1>2 DEF NonceInv, PendingCovers, NonceFree
<1> QED BY <1>2, <1>3, <1>4, <1>5, <1>6 DEF NonceInv

LEMMA LoseAnswerKeeps ==
  ASSUME NonceInv, NEW t \in Transactions, LoseAnswer(t)
  PROVE  NonceInv'
<1> DEFINE new == [tx |-> t, nonce |-> sending[t].nonce, life |-> 0]
<1>1. /\ sending' = [sending EXCEPT ![t] = Idle] /\ sending[t].step = "counted"
      /\ pool' = (pool \ rivalsOf(t)) \cup {new} /\ takes(t)
      /\ \A e \in pool \ rivalsOf(t) : e.nonce # new.nonce
      /\ UNCHANGED <<signedTransactions, mined, count, life>>
  BY DEF LoseAnswer, poolWith, rivalsOf
<1>2. /\ sending'[t].step = "idle" /\ OneCall'
      /\ \A u \in Transactions : u # t => sending'[u] = sending[u]
  BY <1>1, EndingKeeps
<1>3. new \in [tx : Transactions, nonce : Nat, life : Nat] /\ new.life # life
  BY DEF NonceInv, NonceTypeOK
<1>4. NonceTypeOK' BY <1>1, <1>3, EndingKeeps DEF NonceInv, NonceTypeOK
<1>5. NodeOrdered'
  BY <1>1 DEF NonceInv, NonceTypeOK, NodeOrdered, takes
<1>6. \A e \in pool' : e.life = life => e \in pool BY <1>1, <1>3
<1>7. Watched' BY <1>1, <1>2, <1>6 DEF NonceInv, Watched, noncesOf
<1>8. PendingCovers' /\ NonceFree'
  BY <1>1, <1>2, <1>6 DEF NonceInv, PendingCovers, NonceFree
<1> QED BY <1>2, <1>4, <1>5, <1>7, <1>8 DEF NonceInv

LEMMA WatchKeeps ==
  ASSUME NonceInv, NEW t \in Transactions, Watch(t)
  PROVE  NonceInv'
<1> DEFINE new == [tx |-> t, nonce |-> sending[t].nonce]
<1>1. /\ sending' = [sending EXCEPT ![t] = Idle] /\ sending[t].step = "submitted"
      /\ signedTransactions' = signedTransactions \cup {new}
      /\ UNCHANGED <<pool, mined, count, life>>
  BY DEF Watch
<1>2. /\ sending'[t].step = "idle" /\ OneCall'
      /\ \A u \in Transactions : u # t => sending'[u] = sending[u]
  BY <1>1, EndingKeeps
<1>3. new \in [tx : Transactions, nonce : Nat] BY DEF NonceInv, NonceTypeOK
<1>4. IsFiniteSet(signedTransactions')
  <2>1. IsFiniteSet(signedTransactions) BY DEF NonceInv, NonceTypeOK
  <2> HIDE DEF new
  <2> QED BY <1>1, <2>1, FS_AddElement
<1>5. NonceTypeOK' BY <1>1, <1>3, <1>4, EndingKeeps DEF NonceInv, NonceTypeOK
<1>6. NodeOrdered' BY <1>1 DEF NonceInv, NodeOrdered
<1>7. Watched'
  <2> SUFFICES ASSUME NEW e \in pool, e.life = life
               PROVE  \/ e.nonce \in noncesOf(signedTransactions')
                      \/ \E u \in Transactions :
                           sending'[u].step = "submitted" /\ sending'[u].nonce = e.nonce
    BY <1>1 DEF Watched
  <2>1. CASE e.nonce \in noncesOf(signedTransactions)
    BY <1>1, <2>1 DEF noncesOf
  <2>2. ASSUME NEW u \in Transactions, sending[u].step = "submitted",
               sending[u].nonce = e.nonce
        PROVE  \/ e.nonce \in noncesOf(signedTransactions')
               \/ sending'[u].step = "submitted" /\ sending'[u].nonce = e.nonce
    <3>1. CASE u = t
      <4>1. new \in signedTransactions' /\ new.nonce = e.nonce
        BY <1>1, <2>2, <3>1
      <4>2. new.nonce \in noncesOf(signedTransactions')
        BY <4>1 DEF noncesOf
      <4> QED BY <4>1, <4>2
    <3>2. CASE u # t BY <1>2, <2>2, <3>2
    <3> QED BY <3>1, <3>2
  <2> QED BY <2>1, <2>2 DEF NonceInv, Watched
<1>8. PendingCovers' /\ NonceFree'
  BY <1>1, <1>2 DEF NonceInv, PendingCovers, NonceFree
<1> QED BY <1>2, <1>5, <1>6, <1>7, <1>8 DEF NonceInv

(* The node loses a transaction from its pool, by mining or by dropping. *)
LEMMA MineKeeps ==
  ASSUME NonceInv, Mine
  PROVE  NonceInv'
<1>1. PICK e \in pool :
        /\ e.nonce = count /\ pool' = pool \ {e}
        /\ mined' = mined \cup {[tx |-> e.tx, nonce |-> e.nonce]}
  BY DEF Mine
<1>2. count' = count + 1 /\ UNCHANGED <<signedTransactions, sending, life>>
  BY DEF Mine
<1>3. NonceTypeOK' BY <1>1, <1>2 DEF NonceInv, NonceTypeOK
<1>4. OneCall' BY <1>2 DEF NonceInv, OneCall
<1>5. NodeOrdered'
  <2>1. \A w \in mined' : w.nonce < count'
    BY <1>1, <1>2 DEF NonceInv, NonceTypeOK, NodeOrdered
  <2>2. \A f \in pool' : f.nonce >= count' /\ f.life <= life'
    <3> SUFFICES ASSUME NEW f \in pool, f # e PROVE f.nonce >= count + 1 /\ f.life <= life
      BY <1>1, <1>2
    <3> QED BY <1>1 DEF NonceInv, NonceTypeOK, NodeOrdered
  <2>3. \A f, g \in pool' : f.nonce = g.nonce => f = g
    BY <1>1 DEF NonceInv, NodeOrdered
  <2> QED BY <2>1, <2>2, <2>3 DEF NodeOrdered
<1>6. Watched' /\ PendingCovers' /\ NonceFree'
  BY <1>1, <1>2 DEF NonceInv, Watched, PendingCovers, NonceFree, noncesOf
<1> QED BY <1>3, <1>4, <1>5, <1>6 DEF NonceInv

LEMMA DropKeeps ==
  ASSUME NonceInv, NEW e \in pool, Drop(e)
  PROVE  NonceInv'
<1>1. pool' = pool \ {e} /\ UNCHANGED <<signedTransactions, sending, mined, count, life>>
  BY DEF Drop
<1>2. NonceTypeOK' BY <1>1 DEF NonceInv, NonceTypeOK
<1>3. OneCall' /\ NodeOrdered' BY <1>1 DEF NonceInv, OneCall, NodeOrdered
<1>4. Watched' /\ PendingCovers' /\ NonceFree'
  BY <1>1 DEF NonceInv, Watched, PendingCovers, NonceFree, noncesOf
<1> QED BY <1>2, <1>3, <1>4 DEF NonceInv

LEMMA ForgetKeeps ==
  ASSUME NonceInv, NEW w \in signedTransactions, Forget(w)
  PROVE  NonceInv'
<1>1. /\ w \in mined /\ signedTransactions' = signedTransactions \ {w}
      /\ UNCHANGED <<sending, pool, mined, count, life>>
  BY DEF Forget
<1>2. NonceTypeOK' BY <1>1, FS_Subset DEF NonceInv, NonceTypeOK
<1>3. OneCall' /\ NodeOrdered' BY <1>1 DEF NonceInv, OneCall, NodeOrdered
<1>4. \A e \in pool : e.nonce # w.nonce
  BY <1>1 DEF NonceInv, NonceTypeOK, NodeOrdered
<1>5. \A e \in pool : e.nonce \in noncesOf(signedTransactions)
        => e.nonce \in noncesOf(signedTransactions')
  BY <1>1, <1>4 DEF noncesOf
<1>6. Watched' BY <1>1, <1>5 DEF NonceInv, Watched
<1>7. PendingCovers' /\ NonceFree'
  BY <1>1 DEF NonceInv, PendingCovers, NonceFree
<1> QED BY <1>2, <1>3, <1>6, <1>7 DEF NonceInv

LEMMA RestartKeeps ==
  ASSUME NonceInv, Restart
  PROVE  NonceInv'
<1>1. /\ signedTransactions' = {} /\ sending' = [t \in Transactions |-> Idle]
      /\ life' = life + 1 /\ UNCHANGED <<pool, mined, count>>
  BY DEF Restart
<1>2. \A t \in Transactions : sending'[t] = Idle BY <1>1
<1>3. NonceTypeOK'
  <2>1. /\ Idle \in [step : Steps, pending : SUBSET Nat, nonce : Nat]
        /\ IsFiniteSet(Idle.pending)
    BY FS_EmptySet DEF Idle, Steps
  <2>2. /\ sending' \in [Transactions -> [step : Steps, pending : SUBSET Nat, nonce : Nat]]
        /\ \A t \in Transactions : IsFiniteSet(sending'[t].pending)
    BY <1>1, <1>2, <2>1
  <2>3. signedTransactions' \subseteq [tx : Transactions, nonce : Nat]
        /\ IsFiniteSet(signedTransactions')
    BY <1>1, FS_EmptySet
  <2> QED BY <1>1, <2>2, <2>3 DEF NonceInv, NonceTypeOK
<1>4. OneCall' BY <1>2 DEF OneCall, Idle
<1>5. \A e \in pool' : e.life < life'
  BY <1>1 DEF NonceInv, NonceTypeOK, NodeOrdered
<1>6. NodeOrdered' BY <1>1 DEF NonceInv, NonceTypeOK, NodeOrdered
<1>8. \A e \in pool' : e.life # life'
  BY <1>3, <1>5 DEF NonceTypeOK
<1>7. Watched' /\ PendingCovers' /\ NonceFree'
  BY <1>8 DEF Watched, PendingCovers, NonceFree
<1> QED BY <1>3, <1>4, <1>6, <1>7 DEF NonceInv

\* Every step keeps the invariant.
LEMMA NonceInvStep ==
  ASSUME ~ Overlap, NonceInv, [NonceNext]_nonceVars
  PROVE  NonceInv'
<1>1. CASE UNCHANGED nonceVars
  BY <1>1 DEF NonceInv, NonceTypeOK, OneCall, NodeOrdered, Watched, PendingCovers,
    NonceFree, nonceVars, noncesOf
<1>2. ASSUME NEW t \in Transactions,
             \/ ReadPending(t) \/ ReadCount(t) \/ Submit(t)
             \/ Refuse(t) \/ LoseAnswer(t) \/ Watch(t)
      PROVE  NonceInv'
  BY <1>2, ReadPendingKeeps, ReadCountKeeps, SubmitKeeps, RefuseKeeps,
    LoseAnswerKeeps, WatchKeeps
<1>3. CASE Mine BY <1>3, MineKeeps
<1>4. ASSUME NEW e \in pool, Drop(e) PROVE NonceInv' BY <1>4, DropKeeps
<1>5. ASSUME NEW w \in signedTransactions, Forget(w) PROVE NonceInv'
  BY <1>5, ForgetKeeps
<1>6. CASE Restart BY <1>6, RestartKeeps
<1> QED BY <1>1, <1>2, <1>3, <1>4, <1>5, <1>6 DEF NonceNext

(* sendTransaction never picks a nonce that a transaction of the same run  *)
(* of the process still holds at the node, as ExtendedNonceManager.js says *)
(* (lines 25-34), as long as one call ends before the next one starts.     *)
THEOREM NonceAlwaysFree == ~ Overlap => (NonceSpec => []NonceFree)
<1> SUFFICES ASSUME ~ Overlap PROVE NonceSpec => []NonceFree OBVIOUS
<1>1. NonceInit => NonceInv BY NonceInvInit
<1>2. NonceInv /\ [NonceNext]_nonceVars => NonceInv' BY NonceInvStep
<1>3. NonceInv => NonceFree BY DEF NonceInv
<1> QED BY <1>1, <1>2, <1>3, PTL DEF NonceSpec
=============================================================================
