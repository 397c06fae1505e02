--------------------------- MODULE ReputationLog ----------------------------
(***************************************************************************)
(* The skill tree of the network and the log of reputation changes that a  *)
(* mining cycle collects.  One log entry stands for a run of updates: of   *)
(* the colony-wide totals, then of the user's own reputations, each time   *)
(* for the children of the skill (when reputation is lost), its parents,   *)
(* and the skill itself.                                                   *)
(***************************************************************************)
EXTENDS Integers, Sequences, FiniteSets

CONSTANTS
    Users,          \* numbers of users, 1 upwards
    Amounts,        \* what one entry may give or take
    SkillParents,   \* SkillParents[s] is the parent of skill s; 0 for a root
    InitialSkills,  \* how many of them exist at the start
    MaxReputation   \* 2^127 - 1, MAX_INT128

ASSUME LogAssumption ==
    /\ Users \subseteq Nat \ {0}
    /\ Amounts \subseteq Int \ {0}
    /\ MaxReputation \in Nat \ {0}
    /\ \A s \in DOMAIN SkillParents : SkillParents[s] \in 0 .. s - 1

VARIABLES
    skills,  \* skills[s]: every ancestor, nearest first, and every descendant, oldest first
    log      \* reputationUpdateLog

logVars == <<skills, log>>

ColonyWide == 0   \* address 0 holds the colony-wide totals
Keys == (1 .. Len(SkillParents)) \X ({ColonyWide} \cup Users)
NoKey == <<0, 0>>

\* The tree after skill Len(tree) + 1 joins it below parent (0: as a root).
addSkillToChainTree(tree, parent) ==
    LET new       == Len(tree) + 1
        ancestors == IF parent = 0 THEN <<>> ELSE <<parent>> \o tree[parent].parents
        Joined(s) == IF \E a \in 1 .. Len(ancestors) : ancestors[a] = s
                     THEN [tree[s] EXCEPT !.children = Append(@, new)]
                     ELSE tree[s]
    IN  [s \in 1 .. Len(tree) |-> Joined(s)] \o <<[parents |-> ancestors, children |-> <<>>]>>

skillTree[n \in 0 .. Len(SkillParents)] ==
    IF n = 0 THEN <<>> ELSE addSkillToChainTree(skillTree[n - 1], SkillParents[n])

nParents(skill) == Len(skills[skill].parents)

AddSkill ==
    /\ Len(skills) < Len(SkillParents)
    /\ skills' = addSkillToChainTree(skills, SkillParents[Len(skills) + 1])
    /\ UNCHANGED log

\* Only a loss reaches the children; the number of updates is fixed here, by
\* the tree as it is now.
nUpdates(skill, amount) ==
    2 * (nParents(skill) + 1) + (IF amount < 0 THEN 2 * Len(skills[skill].children) ELSE 0)

capped(amount) ==
    IF amount > MaxReputation THEN MaxReputation
    ELSE IF amount < -MaxReputation - 1 THEN -MaxReputation - 1 ELSE amount

nextPreviousUpdates ==
    IF log = <<>> THEN 0 ELSE log[Len(log)].nPreviousUpdates + log[Len(log)].nUpdates

appendReputationUpdateLog(user, amount, skill) ==
    /\ log' = Append(log, [user             |-> user,
                           amount           |-> capped(amount),
                           skill            |-> skill,
                           nUpdates         |-> nUpdates(skill, amount),
                           nPreviousUpdates |-> nextPreviousUpdates])
    /\ UNCHANGED skills
=============================================================================
