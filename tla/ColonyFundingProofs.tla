------------------------- MODULE ColonyFundingProofs -------------------------
(***************************************************************************)
(* Proofs about ColonyFunding, for any tokens, slots, spenders and number  *)
(* of expenditures.                                                        *)
(***************************************************************************)
EXTENDS ColonyFunding, SetLemmas, TLAPS

-----------------------------------------------------------------------------
(* What a books value says of itself, in parts.                            *)

balances(b, t) == [p \in Pots |-> b.balance[p][t]]

allPots(b, t) == SumFunctionOnSet(balances(b, t), Pots)

otherPots(b, t) == SumFunctionOnSet(balances(b, t), Pots \ {RewardsPot})

slotsOf(b, e, t) == [s \in Slots |-> b.slotPayouts[e][s][t]]

\* The tokens in which an expenditure is short.
Short(b, e) == {t \in Tokens : ~isCovered(b, e, t)}

Counted(b) == \A e \in Expenditures : b.payoutsWeCannotMake[e] = Cardinality(Short(b, e))

Summed(b) == \A e \in Expenditures, t \in Tokens : b.payouts[e][t] = slotTotal(b, e, t, Slots)

InTotals(b) ==
    \A t \in Tokens : otherPots(b, t) <= b.nonRewardPotsTotal[t]

Sound(b) == b \in PotBooks /\ Counted(b) /\ Summed(b) /\ InTotals(b)

-----------------------------------------------------------------------------
(* Pots, numbers and fields, for the provers.                              *)

\* The rewards pot, the root pot and one pot for each expenditure are apart.
LEMMA PotNumbers ==
    /\ Pots \subseteq Nat /\ RewardsPot \in Pots /\ RootPot \in Pots /\ RewardsPot # RootPot
    /\ \A e \in Expenditures :
        /\ potOf(e) \in Pots /\ isExpenditurePot(potOf(e)) /\ expenditureOf(potOf(e)) = e
        /\ potOf(e) # RewardsPot /\ potOf(e) # RootPot
        /\ \A d \in Expenditures : potOf(d) = potOf(e) => d = e
    /\ \A p \in Pots :
        /\ isExpenditurePot(p) => expenditureOf(p) \in Expenditures /\ potOf(expenditureOf(p)) = p
        /\ ~isExpenditurePot(p) => p \in {RewardsPot, RootPot}
    /\ ~isExpenditurePot(RewardsPot) /\ ~isExpenditurePot(RootPot)
BY FundingAssumption
   DEF Pots, Expenditures, potOf, expenditureOf, isExpenditurePot, RewardsPot, RootPot

\* There are finitely many pots, so they have a sum.
LEMMA FinitePots == IsFiniteSet(Pots) /\ IsFiniteSet(Pots \ {RewardsPot})
<1>1. IsFiniteSet(Pots) BY FundingAssumption, FS_Interval DEF Pots
<1> QED BY <1>1, FS_RemoveElement

\* The types of the fields.
LEMMA BooksFields ==
    ASSUME NEW b \in PotBooks
    PROVE  /\ b.balance \in [Pots -> [Tokens -> Nat]]
           /\ b.payouts \in [Expenditures -> [Tokens -> Nat]]
           /\ b.payoutsWeCannotMake \in [Expenditures -> Nat]
           /\ b.slotPayouts \in [Expenditures -> [Slots -> [Tokens -> Nat]]]
           /\ b.nonRewardPotsTotal \in [Tokens -> Nat]
           /\ b.tokenApprovalTotals \in [Tokens -> Nat]
BY DEF PotBooks

-----------------------------------------------------------------------------
(* The counter of payouts that cannot be made.                             *)

\* recount makes the counter exact: it counted those short before, and only
\* the token of the change may be short now and not before, or the reverse.
LEMMA Recounted ==
    ASSUME NEW c \in PotBooks, NEW e \in Expenditures, NEW t \in Tokens,
           NEW old \in SUBSET Tokens, NEW before \in BOOLEAN,
           c.payoutsWeCannotMake[e] = Cardinality(old),
           old \ {t} = Short(c, e) \ {t},
           before <=> t \notin old
    PROVE  recount(c, e, before, isCovered(c, e, t))
             = [c EXCEPT !.payoutsWeCannotMake[e] = Cardinality(Short(c, e))]
<1> DEFINE new == Short(c, e)
           now == isCovered(c, e, t)
<1>1. IsFiniteSet(old) /\ IsFiniteSet(new)
  BY FundingAssumption, FS_Subset DEF Short
<1>2. now <=> t \notin new BY DEF Short
<1>3. new \subseteq Tokens BY DEF Short
<1>4. Cardinality(old) \in Nat /\ Cardinality(new) \in Nat BY <1>1, FS_CardinalityType
<1>5. CASE before /\ ~now
  <2>1. new = old \cup {t} /\ t \notin old BY <1>2, <1>3, <1>5
  <2>2. Cardinality(new) = Cardinality(old) + 1 BY <1>1, <2>1, FS_AddElement
  <2>3. recount(c, e, before, now) = [c EXCEPT !.payoutsWeCannotMake[e] = @ + 1]
    BY <1>5 DEF recount
  <2> QED BY <2>2, <2>3
<1>6. CASE ~before /\ now
  <2>1. new = old \ {t} /\ t \in old BY <1>2, <1>3, <1>6
  <2>2. Cardinality(new) = Cardinality(old) - 1 BY <1>1, <2>1, FS_RemoveElement
  <2>3. recount(c, e, before, now) = [c EXCEPT !.payoutsWeCannotMake[e] = @ - 1]
    BY <1>6 DEF recount
  <2> QED BY <2>2, <2>3
<1>7. CASE before <=> now
  <2>1. new = old BY <1>2, <1>3, <1>7
  <2>2. recount(c, e, before, now) = c BY <1>7 DEF recount
  <2>3. c = [c EXCEPT !.payoutsWeCannotMake[e] = Cardinality(new)]
    BY <2>1 DEF PotBooks
  <2> QED BY <2>2, <2>3
<1> QED BY <1>5, <1>6, <1>7

-----------------------------------------------------------------------------
(* What each call leaves of the books, field by field.                     *)

\* Books b, but for the fields that moving tokens between pots changes.
Moved(b, c, from, to, t, amount) ==
    /\ c.balance = [b.balance EXCEPT ![from][t] = @ - amount, ![to][t] = @ + amount]
    /\ c.payouts = b.payouts
    /\ c.slotPayouts = b.slotPayouts
    /\ c.tokenApprovalTotals = b.tokenApprovalTotals
    /\ c.nonRewardPotsTotal =
         [b.nonRewardPotsTotal EXCEPT ![t] = @ - (IF to = RewardsPot THEN amount ELSE 0)]

\* The recount of one pot's expenditure, if the pot has one.
LEMMA PotRecounted ==
    ASSUME NEW b \in PotBooks, NEW c \in PotBooks, NEW p \in Pots, NEW t \in Tokens,
           c.payouts = b.payouts,
           isExpenditurePot(p) =>
             c.payoutsWeCannotMake[expenditureOf(p)] = Cardinality(Short(b, expenditureOf(p))),
           \A u \in Tokens \ {t} : c.balance[p][u] = b.balance[p][u]
    PROVE  updatePayoutsWeCannotMakeAfterPotChange(c, p, t, b.balance[p][t])
             = IF isExpenditurePot(p)
               THEN [c EXCEPT !.payoutsWeCannotMake[expenditureOf(p)] =
                                   Cardinality(Short(c, expenditureOf(p)))]
               ELSE c
<1> DEFINE e == expenditureOf(p)
           before == b.balance[p][t] >= b.payouts[e][t]
<1>1. CASE ~isExpenditurePot(p)
  BY <1>1 DEF updatePayoutsWeCannotMakeAfterPotChange
<1>2. CASE isExpenditurePot(p)
  <2>1. e \in Expenditures /\ potOf(e) = p BY <1>2, PotNumbers
  <2>2. Short(b, e) \in SUBSET Tokens BY DEF Short
  <2>3. before <=> t \notin Short(b, e) BY <2>1 DEF Short, isCovered
  <2>4. Short(b, e) \ {t} = Short(c, e) \ {t} BY <2>1 DEF Short, isCovered
  <2>5. before \in BOOLEAN OBVIOUS
  <2>6. c.payoutsWeCannotMake[e] = Cardinality(Short(b, e)) BY <1>2
  <2>7. recount(c, e, before, isCovered(c, e, t))
          = [c EXCEPT !.payoutsWeCannotMake[e] = Cardinality(Short(c, e))]
    <3> HIDE DEF before, e
    <3> QED BY <2>1, <2>2, <2>3, <2>4, <2>5, <2>6, Recounted
  <2> QED BY <1>2, <2>7 DEF updatePayoutsWeCannotMakeAfterPotChange
<1> QED BY <1>1, <1>2

\* Finitely many tokens can be short.
LEMMA ShortCount ==
    ASSUME NEW b, NEW e PROVE Cardinality(Short(b, e)) \in Nat
<1>1. IsFiniteSet(Short(b, e)) BY FundingAssumption, FS_Subset DEF Short
<1> QED BY <1>1, FS_CardinalityType

\* Moving tokens recounts both pots' expenditures and changes nothing else.
LEMMA MoveFunds ==
    ASSUME NEW b \in PotBooks, Counted(b),
           NEW from \in Pots, NEW to \in Pots, from # to,
           NEW t \in Tokens, NEW amount \in Nat, amount <= b.balance[from][t],
           to = RewardsPot => amount <= b.nonRewardPotsTotal[t]
    PROVE  LET c == moveFunds(b, from, to, amount, t)
           IN  c \in PotBooks /\ Counted(c) /\ Moved(b, c, from, to, t, amount)
<1> DEFINE moved == [b EXCEPT !.balance[from][t] = @ - amount, !.balance[to][t] = @ + amount]
           less == updatePayoutsWeCannotMakeAfterPotChange(moved, from, t, b.balance[from][t])
           more == updatePayoutsWeCannotMakeAfterPotChange(less, to, t, b.balance[to][t])
           d == expenditureOf(from)
           e == expenditureOf(to)
<1>1. moved \in PotBooks
  <2>1. b.balance[from][t] - amount \in Nat /\ b.balance[to][t] + amount \in Nat
    BY BooksFields
  <2> QED BY <2>1 DEF PotBooks
<1>2. /\ moved.balance = [b.balance EXCEPT ![from][t] = @ - amount, ![to][t] = @ + amount]
      /\ moved.payouts = b.payouts
      /\ moved.slotPayouts = b.slotPayouts
      /\ moved.tokenApprovalTotals = b.tokenApprovalTotals
      /\ moved.nonRewardPotsTotal = b.nonRewardPotsTotal
      /\ moved.payoutsWeCannotMake = b.payoutsWeCannotMake
  BY DEF PotBooks
<1>3. /\ \A u \in Tokens \ {t}, p \in Pots : moved.balance[p][u] = b.balance[p][u]
      /\ \A p \in Pots \ {from, to} : moved.balance[p] = b.balance[p]
  <2>1. b.balance \in [Pots -> [Tokens -> Nat]] BY BooksFields
  <2>2. moved.balance = [b.balance EXCEPT ![from][t] = @ - amount, ![to][t] = @ + amount]
    BY <1>2
  <2> HIDE DEF moved
  <2>3. \A p \in Pots \ {from, to} : moved.balance[p] = b.balance[p] BY <2>1, <2>2
  <2>4. ASSUME NEW u \in Tokens \ {t}, NEW p \in Pots
        PROVE  moved.balance[p][u] = b.balance[p][u]
    BY <2>1, <2>2
  <2> QED BY <2>3, <2>4
<1>4. less = IF isExpenditurePot(from)
             THEN [moved EXCEPT !.payoutsWeCannotMake[d] = Cardinality(Short(moved, d))]
             ELSE moved
  <2>1. isExpenditurePot(from) =>
             moved.payoutsWeCannotMake[d] = Cardinality(Short(b, d))
    BY <1>2, PotNumbers DEF Counted
  <2>2. moved.payouts = b.payouts BY <1>2
  <2>3. \A u \in Tokens \ {t} : moved.balance[from][u] = b.balance[from][u] BY <1>3
  <2> HIDE DEF moved
  <2> QED BY <1>1, <2>1, <2>2, <2>3, PotRecounted
<1>5. less \in PotBooks
  <2> HIDE DEF moved, less
  <2> QED BY <1>1, <1>4, PotNumbers, ShortCount DEF PotBooks
<1>6. /\ less.balance = moved.balance
      /\ less.payouts = moved.payouts
      /\ less.slotPayouts = moved.slotPayouts
      /\ less.tokenApprovalTotals = moved.tokenApprovalTotals
      /\ less.nonRewardPotsTotal = moved.nonRewardPotsTotal
      /\ \A f \in Expenditures :
            less.payoutsWeCannotMake[f] =
              IF isExpenditurePot(from) /\ f = d THEN Cardinality(Short(moved, d))
                                                 ELSE b.payoutsWeCannotMake[f]
  <2> HIDE DEF moved, less
  <2> QED BY <1>1, <1>2, <1>4, PotNumbers DEF PotBooks
<1>7. \A f \in Expenditures : Short(less, f) = Short(moved, f)
  <2> HIDE DEF moved, less
  <2> QED BY <1>6 DEF Short, isCovered
<1>8. more = IF isExpenditurePot(to)
             THEN [less EXCEPT !.payoutsWeCannotMake[e] = Cardinality(Short(less, e))]
             ELSE less
  <2>1. isExpenditurePot(to) => less.payoutsWeCannotMake[e] = Cardinality(Short(b, e))
    <3>1. ASSUME isExpenditurePot(to), isExpenditurePot(from) PROVE d # e
      BY <3>1, PotNumbers
    <3> HIDE DEF less, moved
    <3> QED BY <1>6, <3>1, PotNumbers DEF Counted
  <2>2. less.payouts = b.payouts BY <1>2, <1>6
  <2>3. \A u \in Tokens \ {t} : less.balance[to][u] = b.balance[to][u]
    <3> HIDE DEF less, moved
    <3> QED BY <1>3, <1>6
  <2> HIDE DEF moved, less
  <2> QED BY <1>5, <2>1, <2>2, <2>3, PotRecounted
<1>9. more \in PotBooks
  <2> HIDE DEF moved, less, more
  <2> QED BY <1>5, <1>8, PotNumbers, ShortCount DEF PotBooks
<1>10. /\ more.balance = moved.balance
       /\ more.payouts = moved.payouts
       /\ more.slotPayouts = moved.slotPayouts
       /\ more.tokenApprovalTotals = moved.tokenApprovalTotals
       /\ more.nonRewardPotsTotal = moved.nonRewardPotsTotal
       /\ \A f \in Expenditures :
            more.payoutsWeCannotMake[f] =
              IF isExpenditurePot(to) /\ f = e THEN Cardinality(Short(less, e))
                                               ELSE less.payoutsWeCannotMake[f]
  <2> HIDE DEF moved, less, more
  <2> QED BY <1>5, <1>6, <1>8, PotNumbers DEF PotBooks
<1>11. \A f \in Expenditures : Short(more, f) = Short(moved, f)
  <2> HIDE DEF moved, less, more
  <2> QED BY <1>10 DEF Short, isCovered
<1>12. \A f \in Expenditures : more.payoutsWeCannotMake[f] = Cardinality(Short(more, f))
  <2> TAKE f \in Expenditures
  <2>1. CASE isExpenditurePot(to) /\ f = e
    <3> HIDE DEF moved, less, more
    <3> QED BY <1>7, <1>10, <1>11, <2>1
  <2>2. CASE isExpenditurePot(from) /\ f = d /\ ~(isExpenditurePot(to) /\ f = e)
    <3> HIDE DEF moved, less, more
    <3> QED BY <1>6, <1>10, <1>11, <2>2
  <2>3. CASE ~(isExpenditurePot(from) /\ f = d) /\ ~(isExpenditurePot(to) /\ f = e)
    <3>1. potOf(f) \notin {from, to} /\ potOf(f) \in Pots BY <2>3, PotNumbers
    <3>2. Short(moved, f) = Short(b, f)
      <4> HIDE DEF moved
      <4> QED BY <1>2, <1>3, <3>1 DEF Short, isCovered
    <3> HIDE DEF moved, less, more
    <3> QED BY <1>6, <1>10, <1>11, <2>3, <3>2 DEF Counted
  <2> QED BY <2>1, <2>2, <2>3
<1>13. PICK n \in Nat : n = b.nonRewardPotsTotal[t] - (IF to = RewardsPot THEN amount ELSE 0)
  BY BooksFields
<1>14. moveFunds(b, from, to, amount, t) = [more EXCEPT !.nonRewardPotsTotal[t] = n]
  <2>1. more.nonRewardPotsTotal = b.nonRewardPotsTotal BY <1>2, <1>6, <1>10
  <2>2. moveFunds(b, from, to, amount, t)
         = [more EXCEPT !.nonRewardPotsTotal[t] = @ - (IF to = RewardsPot THEN amount ELSE 0)]
    BY DEF moveFunds
  <2> HIDE DEF moved, less, more
  <2> QED BY <1>13, <2>1, <2>2
<1> DEFINE c == [more EXCEPT !.nonRewardPotsTotal[t] = n]
<1>15. /\ c \in PotBooks
       /\ c.balance = more.balance
       /\ c.payouts = more.payouts
       /\ c.slotPayouts = more.slotPayouts
       /\ c.tokenApprovalTotals = more.tokenApprovalTotals
       /\ c.payoutsWeCannotMake = more.payoutsWeCannotMake
       /\ c.nonRewardPotsTotal = [more.nonRewardPotsTotal EXCEPT ![t] = n]
  <2> HIDE DEF more
  <2> QED BY <1>9 DEF PotBooks
<1>16. \A f \in Expenditures : Short(c, f) = Short(more, f)
  <2> HIDE DEF more, c
  <2> QED BY <1>15 DEF Short, isCovered
<1>17. Counted(c)
  <2> HIDE DEF more, c
  <2> QED BY <1>12, <1>15, <1>16 DEF Counted
<1>18. Moved(b, c, from, to, t, amount)
  <2> HIDE DEF more, less, moved, c
  <2> QED BY <1>2, <1>6, <1>10, <1>13, <1>15 DEF Moved
<1> HIDE DEF more, c
<1> QED BY <1>14, <1>15, <1>17, <1>18 DEF c

-----------------------------------------------------------------------------
(* Sums of pots.                                                           *)

\* Sums of balances are natural numbers, the rewards pot's one of the terms.
LEMMA BalancesType ==
    ASSUME NEW b \in PotBooks, NEW t \in Tokens
    PROVE  /\ \A p \in Pots : balances(b, t)[p] = b.balance[p][t] /\ balances(b, t)[p] \in Nat
           /\ allPots(b, t) \in Nat /\ otherPots(b, t) \in Nat
           /\ allPots(b, t) = balances(b, t)[RewardsPot] + otherPots(b, t)
<1> DEFINE f == balances(b, t)
<1>1. \A p \in Pots : f[p] = b.balance[p][t] /\ f[p] \in Nat
  BY BooksFields DEF balances
<1> HIDE DEF f
<1>2. SumFunctionOnSet(f, Pots) \in Nat /\ SumFunctionOnSet(f, Pots \ {RewardsPot}) \in Nat
  BY <1>1, FinitePots, SumNat
<1>3. SumFunctionOnSet(f, Pots) = f[RewardsPot] + SumFunctionOnSet(f, Pots \ {RewardsPot})
  <2>1. \A p \in Pots : f[p] \in Int BY <1>1
  <2>2. RewardsPot \in Pots BY PotNumbers
  <2> QED BY <2>1, <2>2, FinitePots, SumRemove
<1> QED BY <1>1, <1>2, <1>3 DEF f, allPots, otherPots

\* One pot's balance of one token changes by d.
PotChanged(b, c, p, t, d) ==
    /\ c.balance[p][t] = b.balance[p][t] + d
    /\ \A q \in Pots, u \in Tokens : <<q, u>> # <<p, t>> => c.balance[q][u] = b.balance[q][u]

\* The sums follow one pot's change.
LEMMA PotChangedSums ==
    ASSUME NEW b \in PotBooks, NEW c \in PotBooks, NEW p \in Pots, NEW t \in Tokens, NEW d \in Int,
           PotChanged(b, c, p, t, d), NEW u \in Tokens
    PROVE  /\ allPots(c, u)
                = allPots(b, u) + (IF u = t THEN d ELSE 0)
           /\ otherPots(c, u)
                = otherPots(b, u)
                    + (IF u = t /\ p # RewardsPot THEN d ELSE 0)
<1> DEFINE f == balances(b, u)
           g == balances(c, u)
           all(h) == SumFunctionOnSet(h, Pots)
           some(h) == SumFunctionOnSet(h, Pots \ {RewardsPot})
<1>1. /\ \A q \in Pots : f[q] = b.balance[q][u] /\ f[q] \in Int
      /\ \A q \in Pots : g[q] = c.balance[q][u] /\ g[q] \in Int
      /\ all(f) \in Int /\ some(f) \in Int /\ all(g) \in Int /\ some(g) \in Int
      /\ all(f) = f[RewardsPot] + some(f)
      /\ all(g) = g[RewardsPot] + some(g)
  <2>1. \A q \in Pots : f[q] = b.balance[q][u] /\ f[q] \in Nat BY BalancesType
  <2>2. \A q \in Pots : g[q] = c.balance[q][u] /\ g[q] \in Nat BY BalancesType
  <2>3. /\ all(f) \in Nat /\ some(f) \in Nat
        /\ all(f) = f[RewardsPot] + some(f)
    BY BalancesType DEF allPots, otherPots
  <2>4. /\ all(g) \in Nat /\ some(g) \in Nat
        /\ all(g) = g[RewardsPot] + some(g)
    BY BalancesType DEF allPots, otherPots
  <2> HIDE DEF f, g, all, some
  <2> QED BY <2>1, <2>2, <2>3, <2>4
<1>2. CASE u # t
  <2>1. \A q \in Pots : f[q] = g[q] BY <1>1, <1>2 DEF PotChanged
  <2>2. all(f) = all(g) /\ some(f) = some(g)
    <3> HIDE DEF f, g
    <3> QED BY <1>1, <2>1, FinitePots, SumSame
  <2> HIDE DEF f, g, all, some
  <2>3. all(g) = all(f) + 0 /\ some(g) = some(f) + 0 BY <1>1, <2>2
  <2> QED BY <1>2, <2>3 DEF f, g, all, some, allPots, otherPots
<1>3. CASE u = t
  <2>1. g[p] = f[p] + d /\ \A q \in Pots : q # p => g[q] = f[q] BY <1>1, <1>3 DEF PotChanged
  <2>2. all(g) = all(f) - f[p] + g[p]
    <3> HIDE DEF f, g
    <3> QED BY <1>1, <2>1, FinitePots, SumChange
  <2>3. all(g) = all(f) + d
    <3> HIDE DEF f, g, all, some
    <3> QED BY <1>1, <2>1, <2>2
  <2>4. g[RewardsPot] = f[RewardsPot] + (IF p = RewardsPot THEN d ELSE 0)
    <3>1. CASE p = RewardsPot BY <2>1, <3>1
    <3>2. CASE p # RewardsPot
      <4>1. g[RewardsPot] = f[RewardsPot] BY <2>1, <3>2, PotNumbers
      <4> HIDE DEF f, g
      <4> QED BY <1>1, <3>2, <4>1, PotNumbers
    <3> QED BY <3>1, <3>2
  <2>5. some(g) = some(f) + (IF p # RewardsPot THEN d ELSE 0)
    <3> HIDE DEF f, g, all, some
    <3> QED BY <1>1, <2>3, <2>4, PotNumbers
  <2> QED BY <1>3, <2>3, <2>5 DEF allPots, otherPots
<1> QED BY <1>2, <1>3

\* Moving tokens keeps the sum of all pots, and that of the others unless
\* they move to the rewards pot.
LEMMA MovedSums ==
    ASSUME NEW b \in PotBooks, NEW c \in PotBooks,
           NEW from \in Pots, NEW to \in Pots, from # to, from # RewardsPot,
           NEW t \in Tokens, NEW amount \in Nat, Moved(b, c, from, to, t, amount),
           NEW u \in Tokens
    PROVE  /\ allPots(c, u) = allPots(b, u)
           /\ otherPots(c, u)
                = otherPots(b, u)
                    - (IF u = t /\ to = RewardsPot THEN amount ELSE 0)
<1> DEFINE f == balances(b, u)
           g == balances(c, u)
           all(h) == SumFunctionOnSet(h, Pots)
           some(h) == SumFunctionOnSet(h, Pots \ {RewardsPot})
<1>1. /\ \A q \in Pots : f[q] = b.balance[q][u] /\ f[q] \in Int
      /\ \A q \in Pots : g[q] = c.balance[q][u] /\ g[q] \in Int
      /\ all(f) \in Int /\ some(f) \in Int /\ all(g) \in Int /\ some(g) \in Int
      /\ all(f) = f[RewardsPot] + some(f)
      /\ all(g) = g[RewardsPot] + some(g)
  <2>1. \A q \in Pots : f[q] = b.balance[q][u] /\ f[q] \in Nat BY BalancesType
  <2>2. \A q \in Pots : g[q] = c.balance[q][u] /\ g[q] \in Nat BY BalancesType
  <2>3. /\ all(f) \in Nat /\ some(f) \in Nat
        /\ all(f) = f[RewardsPot] + some(f)
    BY BalancesType DEF allPots, otherPots
  <2>4. /\ all(g) \in Nat /\ some(g) \in Nat
        /\ all(g) = g[RewardsPot] + some(g)
    BY BalancesType DEF allPots, otherPots
  <2> HIDE DEF f, g, all, some
  <2> QED BY <2>1, <2>2, <2>3, <2>4
<1>2. /\ b.balance \in [Pots -> [Tokens -> Nat]]
      /\ c.balance = [b.balance EXCEPT ![from][t] = @ - amount, ![to][t] = @ + amount]
  BY BooksFields DEF Moved
<1>3. CASE u # t
  <2>1. \A q \in Pots : f[q] = g[q] BY <1>1, <1>2, <1>3
  <2>2. all(f) = all(g) /\ some(f) = some(g)
    <3> HIDE DEF f, g
    <3> QED BY <1>1, <2>1, FinitePots, SumSame
  <2> HIDE DEF f, g, all, some
  <2>3. all(g) = all(f) /\ some(g) = some(f) - 0 BY <1>1, <2>2
  <2> QED BY <1>3, <2>3 DEF f, g, all, some, allPots, otherPots
<1>4. CASE u = t
  <2>1. /\ g[from] = f[from] - amount /\ g[to] = f[to] + amount
        /\ \A q \in Pots : q \notin {from, to} => g[q] = f[q]
    BY <1>1, <1>2, <1>4
  <2>2. all(g) = all(f) - f[from] - f[to] + g[from] + g[to]
    <3> HIDE DEF f, g
    <3> QED BY <1>1, <2>1, FinitePots, SumChangeTwo
  <2>3. all(g) = all(f)
    <3> HIDE DEF f, g, all, some
    <3> QED BY <1>1, <2>1, <2>2
  <2>4. g[RewardsPot] = f[RewardsPot] + (IF to = RewardsPot THEN amount ELSE 0)
    <3>1. CASE to = RewardsPot BY <2>1, <3>1
    <3>2. CASE to # RewardsPot
      <4>1. g[RewardsPot] = f[RewardsPot] BY <2>1, <3>2, PotNumbers
      <4> HIDE DEF f, g
      <4> QED BY <1>1, <3>2, <4>1, PotNumbers
    <3> QED BY <3>1, <3>2
  <2>5. some(g) = some(f) - (IF to = RewardsPot THEN amount ELSE 0)
    <3> HIDE DEF f, g, all, some
    <3> QED BY <1>1, <2>3, <2>4, PotNumbers
  <2> QED BY <1>4, <2>3, <2>5 DEF allPots, otherPots
<1> QED BY <1>3, <1>4

\* Payouts agree with slots as long as neither changes.
LEMMA SummedSame ==
    ASSUME NEW b, NEW c, Summed(b), c.payouts = b.payouts, c.slotPayouts = b.slotPayouts
    PROVE  Summed(c)
BY DEF Summed, slotTotal

\* The totals are untouched where balances are.
LEMMA InTotalsSame ==
    ASSUME NEW b, NEW c, InTotals(b), c.balance = b.balance,
           c.nonRewardPotsTotal = b.nonRewardPotsTotal
    PROVE  InTotals(c)
BY DEF InTotals, otherPots, balances

\* Sums of slots' payouts.
LEMMA SlotsType ==
    ASSUME NEW b \in PotBooks, NEW e \in Expenditures, NEW t \in Tokens
    PROVE  /\ \A s \in Slots : /\ slotsOf(b, e, t)[s] = b.slotPayouts[e][s][t]
                               /\ slotsOf(b, e, t)[s] \in Nat
           /\ \A D \in SUBSET Slots :
                /\ IsFiniteSet(D)
                /\ slotTotal(b, e, t, D) = SumFunctionOnSet(slotsOf(b, e, t), D)
                /\ slotTotal(b, e, t, D) \in Nat
<1> DEFINE f == slotsOf(b, e, t)
<1>1. \A s \in Slots : f[s] = b.slotPayouts[e][s][t] /\ f[s] \in Nat
  BY BooksFields DEF slotsOf
<1>2. \A D \in SUBSET Slots : slotTotal(b, e, t, D) = SumFunctionOnSet(f, D)
  BY DEF slotTotal, slotsOf
<1>3. ASSUME NEW D \in SUBSET Slots PROVE IsFiniteSet(D) /\ SumFunctionOnSet(f, D) \in Nat
  <2>1. IsFiniteSet(D) BY FundingAssumption, FS_Subset
  <2>2. \A s \in D : f[s] \in Nat BY <1>1
  <2> HIDE DEF f
  <2> QED BY <2>1, <2>2, SumNat
<1> QED BY <1>1, <1>2, <1>3

\* What an expenditure promises in one token, once some slots' payouts are set.
LEMMA SlotsSet ==
    ASSUME NEW f, NEW g, NEW D \in SUBSET Slots, NEW amounts \in [D -> Nat],
           \A s \in Slots : f[s] \in Nat /\ g[s] = IF s \in D THEN amounts[s] ELSE f[s]
    PROVE  /\ SumFunction(amounts) \in Nat
           /\ SumFunctionOnSet(g, Slots)
                = SumFunctionOnSet(f, Slots) - SumFunctionOnSet(f, D) + SumFunction(amounts)
<1> DEFINE R == Slots \ D
<1>1. IsFiniteSet(D) /\ IsFiniteSet(R) /\ D \cap R = {} /\ D \cup R = Slots
  BY FundingAssumption, FS_Subset
<1>2. SumFunctionOnSet(amounts, D) \in Nat
  <2>1. \A s \in D : amounts[s] \in Nat OBVIOUS
  <2> QED BY <1>1, <2>1, SumNat
<1>3. SumFunction(amounts) = SumFunctionOnSet(amounts, D) BY DEF SumFunction
<1>4. SumFunctionOnSet(f, D) \in Nat /\ SumFunctionOnSet(f, R) \in Nat
  <2>1. (\A s \in D : f[s] \in Nat) /\ \A s \in R : f[s] \in Nat OBVIOUS
  <2> QED BY <1>1, <2>1, SumNat
<1>5. SumFunctionOnSet(g, D) = SumFunctionOnSet(amounts, D)
  <2>1. \A s \in D : g[s] \in Int /\ g[s] = amounts[s] OBVIOUS
  <2> QED BY <1>1, <2>1, SumSame
<1>6. SumFunctionOnSet(g, R) = SumFunctionOnSet(f, R)
  <2>1. \A s \in R : g[s] \in Int /\ g[s] = f[s] OBVIOUS
  <2> QED BY <1>1, <2>1, SumSame
<1>7. SumFunctionOnSet(f, D \cup R) = SumFunctionOnSet(f, D) + SumFunctionOnSet(f, R)
  <2>1. \A s \in D \cup R : f[s] \in Int OBVIOUS
  <2> HIDE DEF R
  <2> QED BY <1>1, <2>1, SumUnion
<1>8. SumFunctionOnSet(g, D \cup R) = SumFunctionOnSet(g, D) + SumFunctionOnSet(g, R)
  <2>1. \A s \in D \cup R : g[s] \in Int OBVIOUS
  <2> HIDE DEF R
  <2> QED BY <1>1, <2>1, SumUnion
<1> HIDE DEF R
<1>9. /\ SumFunctionOnSet(f, Slots) = SumFunctionOnSet(f, D) + SumFunctionOnSet(f, R)
      /\ SumFunctionOnSet(g, Slots) = SumFunction(amounts) + SumFunctionOnSet(f, R)
  BY <1>1, <1>3, <1>5, <1>6, <1>7, <1>8
<1> QED BY <1>2, <1>3, <1>4, <1>9

\* Setting payouts keeps the books sound and leaves every balance alone.
LEMMA SetPayouts ==
    ASSUME NEW b, Sound(b), NEW e \in Expenditures, NEW t \in Tokens,
           NEW D \in SUBSET Slots, NEW amounts \in [D -> Nat],
           canSetExpenditurePayouts(b, e, t, amounts)
    PROVE  LET c == setExpenditurePayouts(b, e, t, amounts)
           IN  /\ Sound(c)
               /\ c.balance = b.balance
               /\ c.tokenApprovalTotals = b.tokenApprovalTotals
<1> DEFINE new == b.payouts[e][t] - slotTotal(b, e, t, D) + SumFunction(amounts)
           row == [s \in Slots |-> IF s \in D THEN [b.slotPayouts[e][s] EXCEPT ![t] = amounts[s]]
                                              ELSE b.slotPayouts[e][s]]
           set == [b EXCEPT !.slotPayouts[e] = row, !.payouts[e][t] = new]
<1>0. b \in PotBooks /\ DOMAIN amounts = D BY DEF Sound
<1>1. setExpenditurePayouts(b, e, t, amounts)
        = recount(set, e, set.balance[potOf(e)][t] >= b.payouts[e][t], isCovered(set, e, t))
  <2>1. set = [b EXCEPT
            !.slotPayouts[e] = [s \in Slots |->
                IF s \in DOMAIN amounts THEN [@[s] EXCEPT ![t] = amounts[s]] ELSE @[s]],
            !.payouts[e][t] = @ - slotTotal(b, e, t, DOMAIN amounts) + SumFunction(amounts)]
    BY <1>0
  <2> HIDE DEF set
  <2> QED BY <2>1 DEF setExpenditurePayouts, updatePayoutsWeCannotMakeAfterBudgetChange
<1>2. new \in Nat /\ row \in [Slots -> [Tokens -> Nat]]
  <2>1. SumFunction(amounts) \in Nat
    <3>1. \A s \in D : amounts[s] \in Nat OBVIOUS
    <3>2. IsFiniteSet(D) BY FundingAssumption, FS_Subset
    <3>3. SumFunctionOnSet(amounts, D) \in Nat BY <3>1, <3>2, SumNat
    <3> QED BY <3>3, <1>0 DEF SumFunction
  <2>2. slotTotal(b, e, t, D) \in Nat /\ slotTotal(b, e, t, D) <= b.payouts[e][t]
    BY <1>0, SlotsType DEF canSetExpenditurePayouts
  <2>3. b.payouts[e][t] \in Nat BY <1>0, BooksFields
  <2>4. row \in [Slots -> [Tokens -> Nat]] BY <1>0, BooksFields
  <2> QED BY <2>1, <2>2, <2>3, <2>4
<1>3. /\ set \in PotBooks
      /\ set.balance = b.balance
      /\ set.payouts = [b.payouts EXCEPT ![e][t] = new]
      /\ set.payoutsWeCannotMake = b.payoutsWeCannotMake
      /\ set.slotPayouts = [b.slotPayouts EXCEPT ![e] = row]
      /\ set.nonRewardPotsTotal = b.nonRewardPotsTotal
      /\ set.tokenApprovalTotals = b.tokenApprovalTotals
  <2> HIDE DEF new, row
  <2> QED BY <1>0, <1>2 DEF PotBooks
<1>4. /\ \A u \in Tokens \ {t} : isCovered(set, e, u) = isCovered(b, e, u)
      /\ \A d \in Expenditures \ {e} : Short(set, d) = Short(b, d)
  <2> HIDE DEF set, new
  <2> QED BY <1>0, <1>3, BooksFields DEF isCovered, Short
<1> DEFINE c == [set EXCEPT !.payoutsWeCannotMake[e] = Cardinality(Short(set, e))]
<1>5. setExpenditurePayouts(b, e, t, amounts) = c
  <2> DEFINE before == set.balance[potOf(e)][t] >= b.payouts[e][t]
  <2>1. before <=> t \notin Short(b, e)
    <3> HIDE DEF set
    <3> QED BY <1>3 DEF Short, isCovered
  <2>2. Short(b, e) \ {t} = Short(set, e) \ {t}
    <3> HIDE DEF set
    <3> QED BY <1>4 DEF Short
  <2>3. set.payoutsWeCannotMake[e] = Cardinality(Short(b, e))
    <3> HIDE DEF set
    <3> QED BY <1>3 DEF Sound, Counted
  <2>4. Short(b, e) \in SUBSET Tokens /\ before \in BOOLEAN BY DEF Short
  <2>5. recount(set, e, before, isCovered(set, e, t)) = c
    <3> HIDE DEF set, before
    <3> QED BY <1>3, <2>1, <2>2, <2>3, <2>4, Recounted
  <2> QED BY <1>1, <2>5
<1>6. /\ c \in PotBooks
      /\ c.balance = b.balance
      /\ c.payouts = set.payouts
      /\ c.slotPayouts = set.slotPayouts
      /\ c.nonRewardPotsTotal = b.nonRewardPotsTotal
      /\ c.tokenApprovalTotals = b.tokenApprovalTotals
      /\ c.payoutsWeCannotMake
           = [b.payoutsWeCannotMake EXCEPT ![e] = Cardinality(Short(set, e))]
  <2> HIDE DEF set
  <2> QED BY <1>3, ShortCount DEF PotBooks
<1>7. Counted(c)
  <2> HIDE DEF c, set
  <2>1. \A d \in Expenditures : Short(c, d) = Short(set, d)
    BY <1>3, <1>6 DEF Short, isCovered
  <2>2. \A d \in Expenditures \ {e} :
           c.payoutsWeCannotMake[d] = Cardinality(Short(set, d))
    BY <1>0, <1>4, <1>6, BooksFields DEF Sound, Counted
  <2>3. c.payoutsWeCannotMake[e] = Cardinality(Short(set, e)) BY <1>0, <1>6, BooksFields
  <2> QED BY <2>1, <2>2, <2>3 DEF Counted
<1>8. Summed(c)
  <2> SUFFICES ASSUME NEW d \in Expenditures, NEW u \in Tokens
               PROVE  c.payouts[d][u] = slotTotal(c, d, u, Slots)
    BY DEF Summed
  <2> HIDE DEF c, set
  <2>0. b.payouts[d][u] = slotTotal(b, d, u, Slots) BY DEF Sound, Summed
  <2>1. CASE d = e /\ u = t
    <3> DEFINE f == slotsOf(b, e, t)
               g == slotsOf(c, e, t)
    <3>1. \A s \in Slots : f[s] \in Nat /\ f[s] = b.slotPayouts[e][s][t] BY <1>0, SlotsType
    <3>2. \A s \in Slots : g[s] = c.slotPayouts[e][s][t] BY <1>6, SlotsType
    <3>3. c.slotPayouts[e] = row
      <4> HIDE DEF row
      <4> QED BY <1>0, <1>3, <1>6, BooksFields
    <3>4. \A s \in Slots : g[s] = IF s \in D THEN amounts[s] ELSE f[s]
      <4> HIDE DEF f, g
      <4>1. b.slotPayouts[e] \in [Slots -> [Tokens -> Nat]] BY <1>0, BooksFields
      <4> QED BY <3>1, <3>2, <3>3, <4>1
    <3>5. SumFunctionOnSet(g, Slots)
            = SumFunctionOnSet(f, Slots) - SumFunctionOnSet(f, D) + SumFunction(amounts)
      <4> HIDE DEF f, g
      <4> QED BY <3>1, <3>4, SlotsSet
    <3>6. c.payouts[e][t] = new
      <4> HIDE DEF new
      <4> QED BY <1>0, <1>3, <1>6, BooksFields
    <3>7. /\ slotTotal(b, e, t, Slots) = SumFunctionOnSet(f, Slots)
          /\ slotTotal(b, e, t, D) = SumFunctionOnSet(f, D)
          /\ slotTotal(c, e, t, Slots) = SumFunctionOnSet(g, Slots)
      <4>1. Slots \in SUBSET Slots OBVIOUS
      <4> QED BY <1>0, <1>6, <4>1, SlotsType
    <3> HIDE DEF f, g
    <3> QED BY <2>0, <2>1, <3>5, <3>6, <3>7
  <2>2. CASE d # e
    <3> HIDE DEF new, row
    <3>1. c.payouts[d] = b.payouts[d] /\ c.slotPayouts[d] = b.slotPayouts[d]
      BY <1>0, <1>3, <1>6, <2>2, BooksFields
    <3> QED BY <2>0, <3>1 DEF slotTotal
  <2>3. CASE d = e /\ u # t
    <3>1. c.payouts[d][u] = b.payouts[d][u]
      <4> HIDE DEF new, row
      <4> QED BY <1>0, <1>3, <1>6, <2>3, BooksFields
    <3>2. \A s \in Slots : c.slotPayouts[d][s][u] = b.slotPayouts[d][s][u]
      <4>1. c.slotPayouts[e] = row
        <5> HIDE DEF row
        <5> QED BY <1>0, <1>3, <1>6, BooksFields
      <4>2. b.slotPayouts[e] \in [Slots -> [Tokens -> Nat]] BY <1>0, BooksFields
      <4> QED BY <2>3, <4>1, <4>2
    <3>3. slotTotal(c, d, u, Slots) = slotTotal(b, d, u, Slots)
      <4> DEFINE f == slotsOf(b, d, u)
                 g == slotsOf(c, d, u)
      <4>1. \A s \in Slots : f[s] \in Int /\ f[s] = g[s] BY <1>0, <1>6, <3>2, SlotsType
      <4>2. SumFunctionOnSet(f, Slots) = SumFunctionOnSet(g, Slots)
        <5> HIDE DEF f, g
        <5> QED BY <4>1, FundingAssumption, SumSame
      <4> QED BY <4>2 DEF slotTotal, slotsOf
    <3> QED BY <2>0, <3>1, <3>3
  <2> QED BY <2>1, <2>2, <2>3
<1>9. InTotals(c)
  <2> HIDE DEF c
  <2> QED BY <1>6, InTotalsSame DEF Sound
<1> HIDE DEF c
<1> QED BY <1>5, <1>6, <1>7, <1>8, <1>9 DEF Sound

\* A slot is never paid more than it was promised.
LEMMA TokenPayout ==
    ASSUME NEW initial \in Nat, NEW modifier \in Int
    PROVE  tokenPayout(initial, modifier) \in 0..initial
<1> DEFINE m == lesser(greater(modifier, -Wad), Wad) + Wad
           x == initial * m + Wad \div 2
<1>1. Wad \in Nat \ {0} BY FundingAssumption
<1>2. m \in Nat BY <1>1 DEF lesser, greater
<1>3. initial * m \in Nat
  <2> HIDE DEF m
  <2> QED BY <1>2
<1>4. x \in Nat
  <2>1. Wad \div 2 \in Nat BY <1>1
  <2> HIDE DEF m
  <2> QED BY <1>3, <2>1
<1>5. x \div Wad \in Nat
  <2> HIDE DEF x
  <2> QED BY <1>1, <1>4
<1>6. wmul(initial, m) \in Nat BY <1>5 DEF wmul
<1> HIDE DEF m
<1>7. tokenPayout(initial, modifier) = lesser(initial, wmul(initial, m)) BY DEF tokenPayout, m
<1> QED BY <1>6, <1>7 DEF lesser

\* No budget covered in b is uncovered in c.
Reserved(b, c) ==
    \A e \in Expenditures, t \in Tokens : isCovered(b, e, t) => isCovered(c, e, t)

\* After a refund the pot holds exactly its payouts.
LEMMA RefundDomain ==
    ASSUME NEW b \in PotBooks, Counted(b), InTotals(b),
           NEW e \in Expenditures, NEW t \in Tokens, isCovered(b, e, t)
    PROVE  LET c == refundDomain(b, e, t)
           IN  /\ c \in PotBooks /\ Counted(c) /\ InTotals(c) /\ Reserved(b, c)
               /\ c.payouts = b.payouts /\ c.slotPayouts = b.slotPayouts
               /\ c.tokenApprovalTotals = b.tokenApprovalTotals
               /\ c.nonRewardPotsTotal = b.nonRewardPotsTotal
               /\ c.balance[potOf(e)][t] = b.payouts[e][t]
               /\ \A u \in Tokens : /\ allPots(c, u) = allPots(b, u)
                                    /\ otherPots(c, u) = otherPots(b, u)
<1> DEFINE p == potOf(e)
           surplus == b.balance[p][t] - b.payouts[e][t]
           c == refundDomain(b, e, t)
<1>1. p \in Pots /\ RootPot \in Pots /\ p # RootPot /\ p # RewardsPot /\ RootPot # RewardsPot
  BY PotNumbers
<1>2. surplus \in Nat /\ surplus <= b.balance[p][t] /\ b.payouts[e][t] \in Nat
  BY <1>1, BooksFields DEF isCovered
<1>3. CASE surplus = 0
  <2>1. c = b BY <1>3 DEF refundDomain
  <2>2. b.balance[p][t] = b.payouts[e][t]
    <3>1. b.balance[p][t] \in Nat BY <1>1, BooksFields
    <3> QED BY <1>2, <1>3, <3>1
  <2> QED BY <2>1, <2>2 DEF Reserved
<1>4. CASE surplus > 0
  <2>1. c = moveFunds(b, p, RootPot, surplus, t) BY <1>4 DEF refundDomain
  <2>2. c \in PotBooks /\ Counted(c) /\ Moved(b, c, p, RootPot, t, surplus)
    <3> HIDE DEF surplus, c, p
    <3> QED BY <1>1, <1>2, <2>1, MoveFunds
  <2>3. \A u \in Tokens : allPots(c, u) = allPots(b, u) /\ otherPots(c, u) = otherPots(b, u)
    <3> TAKE u \in Tokens
    <3>1. otherPots(b, u) \in Nat BY BalancesType
    <3> HIDE DEF c, p, surplus
    <3>2. /\ allPots(c, u) = allPots(b, u)
          /\ otherPots(c, u) = otherPots(b, u)
                                 - (IF u = t /\ RootPot = RewardsPot THEN surplus ELSE 0)
      BY <1>1, <1>2, <2>2, MovedSums
    <3> QED BY <1>1, <3>1, <3>2
  <2>4. c.nonRewardPotsTotal = b.nonRewardPotsTotal
    <3> HIDE DEF c, p, surplus
    <3>1. b.nonRewardPotsTotal \in [Tokens -> Nat] BY BooksFields
    <3>2. c.nonRewardPotsTotal = [b.nonRewardPotsTotal EXCEPT ![t] = @ - 0]
      BY <1>1, <2>2 DEF Moved
    <3> QED BY <3>1, <3>2
  <2>5. /\ c.payouts = b.payouts /\ c.slotPayouts = b.slotPayouts
        /\ c.tokenApprovalTotals = b.tokenApprovalTotals
    BY <2>2 DEF Moved
  <2>6. InTotals(c)
    <3> HIDE DEF c
    <3> QED BY <2>3, <2>4 DEF InTotals
  <2>7. c.balance = [b.balance EXCEPT ![p][t] = @ - surplus, ![RootPot][t] = @ + surplus]
    BY <2>2 DEF Moved
  <2>8. c.balance[p][t] = b.payouts[e][t]
    <3>1. c.balance[p][t] = b.balance[p][t] - surplus
      <4> HIDE DEF c, surplus, p
      <4> QED BY <1>1, <2>7, BooksFields
    <3>2. b.balance[p][t] \in Nat BY <1>1, BooksFields
    <3> HIDE DEF c
    <3> QED BY <1>2, <3>1, <3>2
  <2>9. Reserved(b, c)
    <3> SUFFICES ASSUME NEW d \in Expenditures, NEW u \in Tokens, isCovered(b, d, u)
                 PROVE  isCovered(c, d, u)
      BY DEF Reserved
    <3>1. CASE d = e /\ u = t
      <4> HIDE DEF c
      <4> QED BY <1>2, <2>5, <2>8, <3>1 DEF isCovered
    <3>2. CASE <<d, u>> # <<e, t>>
      <4>1. potOf(d) \in Pots /\ potOf(d) # RootPot /\ (potOf(d) = p => d = e) BY PotNumbers
      <4>2. c.balance[potOf(d)][u] = b.balance[potOf(d)][u]
        <5> HIDE DEF c, surplus, p
        <5>1. b.balance \in [Pots -> [Tokens -> Nat]] BY BooksFields
        <5> QED BY <1>1, <2>7, <3>2, <4>1, <5>1
      <4> HIDE DEF c
      <4> QED BY <2>5, <4>2 DEF isCovered
    <3> QED BY <3>1, <3>2
  <2> HIDE DEF c
  <2> QED BY <2>2, <2>3, <2>4, <2>5, <2>6, <2>8, <2>9 DEF c
<1> QED BY <1>2, <1>3, <1>4

\* Paying a slot takes its payout from the pots and uncovers no budget.
LEMMA ClaimPayout ==
    ASSUME NEW b, Sound(b), NEW e \in Expenditures, NEW s \in Slots, NEW t \in Tokens,
           NEW modifier \in Int, canClaimPayout(b, e, s, t, modifier)
    PROVE  LET c == claimPayout(b, e, s, t, modifier)
               payout == tokenPayout(b.slotPayouts[e][s][t], modifier)
           IN  /\ Sound(c) /\ Reserved(b, c) /\ payout \in Nat
               /\ \A u \in Tokens :
                    allPots(c, u) = allPots(b, u) + (IF u = t THEN 0 - payout ELSE 0)
<1> DEFINE initial == b.slotPayouts[e][s][t]
           payout == tokenPayout(initial, modifier)
           p == potOf(e)
           cut == [b EXCEPT !.slotPayouts[e][s][t] = 0,
                            !.payouts[e][t] = @ - (initial - payout)]
           ref == refundDomain(cut, e, t)
           c == [ref EXCEPT !.balance[p][t] = @ - payout,
                            !.payouts[e][t] = @ - payout,
                            !.nonRewardPotsTotal[t] = @ - payout]
<1>0. b \in PotBooks /\ Counted(b) /\ Summed(b) /\ InTotals(b) BY DEF Sound
<1>1. /\ initial \in Nat /\ payout \in Nat /\ payout <= initial
      /\ b.payouts[e][t] \in Nat /\ initial <= b.payouts[e][t]
      /\ b.nonRewardPotsTotal[t] \in Nat /\ payout <= b.nonRewardPotsTotal[t]
      /\ b.balance[p][t] \in Nat /\ b.balance[p][t] >= b.payouts[e][t]
      /\ p \in Pots /\ p # RewardsPot
  <2>1. initial \in Nat /\ b.payouts[e][t] \in Nat /\ b.nonRewardPotsTotal[t] \in Nat
    BY <1>0, BooksFields
  <2>2. p \in Pots /\ p # RewardsPot BY PotNumbers
  <2>3. b.balance[p][t] \in Nat
    <3> HIDE DEF p
    <3> QED BY <1>0, <2>2, BooksFields
  <2>4. payout \in 0..initial
    <3> HIDE DEF initial
    <3> QED BY <2>1, TokenPayout
  <2>5. payout \in Nat /\ payout <= initial
    <3> HIDE DEF payout, initial
    <3> QED BY <2>1, <2>4
  <2>6. /\ initial <= b.payouts[e][t] /\ payout <= b.nonRewardPotsTotal[t]
        /\ b.balance[p][t] >= b.payouts[e][t]
    BY DEF canClaimPayout, isCovered
  <2> QED BY <2>1, <2>2, <2>3, <2>5, <2>6
<1>2. claimPayout(b, e, s, t, modifier) = c
  BY DEF claimPayout, processPayout
<1> HIDE DEF payout, initial, p
<1>3. /\ cut \in PotBooks
      /\ cut.balance = b.balance
      /\ cut.payouts = [b.payouts EXCEPT ![e][t] = @ - (initial - payout)]
      /\ cut.slotPayouts = [b.slotPayouts EXCEPT ![e][s][t] = 0]
      /\ cut.payoutsWeCannotMake = b.payoutsWeCannotMake
      /\ cut.nonRewardPotsTotal = b.nonRewardPotsTotal
      /\ cut.tokenApprovalTotals = b.tokenApprovalTotals
  <2>1. b.payouts[e][t] - (initial - payout) \in Nat BY <1>1
  <2>2. /\ cut.balance = b.balance
        /\ cut.payouts = [b.payouts EXCEPT ![e][t] = @ - (initial - payout)]
        /\ cut.slotPayouts = [b.slotPayouts EXCEPT ![e][s][t] = 0]
        /\ cut.payoutsWeCannotMake = b.payoutsWeCannotMake
        /\ cut.nonRewardPotsTotal = b.nonRewardPotsTotal
        /\ cut.tokenApprovalTotals = b.tokenApprovalTotals
    BY <1>0 DEF PotBooks
  <2>3. /\ [b.payouts EXCEPT ![e][t] = @ - (initial - payout)]
             \in [Expenditures -> [Tokens -> Nat]]
        /\ [b.slotPayouts EXCEPT ![e][s][t] = 0] \in [Expenditures -> [Slots -> [Tokens -> Nat]]]
    BY <1>0, <2>1, BooksFields
  <2> DEFINE py == [b.payouts EXCEPT ![e][t] = @ - (initial - payout)]
             sp == [b.slotPayouts EXCEPT ![e][s][t] = 0]
  <2>4. cut = [b EXCEPT !.slotPayouts = sp, !.payouts = py] BY Zenon
  <2>5. cut \in PotBooks
    <3> HIDE DEF sp, py
    <3>1. sp \in [Expenditures -> [Slots -> [Tokens -> Nat]]] BY <2>3 DEF sp
    <3>2. py \in [Expenditures -> [Tokens -> Nat]] BY <2>3 DEF py
    <3>3. [b EXCEPT !.slotPayouts = sp, !.payouts = py] \in PotBooks
      BY <1>0, <3>1, <3>2 DEF PotBooks
    <3> QED BY <2>4, <3>3
  <2> QED BY <2>2, <2>5
<1>4. /\ cut.payouts[e][t] = b.payouts[e][t] - (initial - payout)
      /\ \A d \in Expenditures, u \in Tokens :
            <<d, u>> # <<e, t>> => cut.payouts[d][u] = b.payouts[d][u]
  <2> HIDE DEF cut
  <2>1. b.payouts \in [Expenditures -> [Tokens -> Nat]] BY <1>0, BooksFields
  <2>2. cut.payouts[e][t] = b.payouts[e][t] - (initial - payout) BY <1>3, <2>1
  <2>3. ASSUME NEW d \in Expenditures, NEW u \in Tokens, <<d, u>> # <<e, t>>
        PROVE  cut.payouts[d][u] = b.payouts[d][u]
    BY <1>3, <2>1, <2>3
  <2> QED BY <2>2, <2>3
<1>5. \A d \in Expenditures, u \in Tokens : isCovered(cut, d, u) = isCovered(b, d, u)
  <2> HIDE DEF cut
  <2> TAKE d \in Expenditures, u \in Tokens
  <2>1. CASE <<d, u>> # <<e, t>> BY <1>3, <1>4, <2>1 DEF isCovered
  <2>2. CASE <<d, u>> = <<e, t>>
    <3>1. cut.balance[p][t] >= cut.payouts[e][t] BY <1>1, <1>3, <1>4
    <3> QED BY <1>1, <2>2, <3>1 DEF isCovered, p
  <2> QED BY <2>1, <2>2
<1>6. Counted(cut) /\ InTotals(cut) /\ isCovered(cut, e, t)
  <2> HIDE DEF cut
  <2>1. \A d \in Expenditures : Short(cut, d) = Short(b, d) BY <1>5 DEF Short
  <2>2. Counted(cut) BY <1>0, <1>3, <2>1 DEF Counted
  <2>3. InTotals(cut) BY <1>0, <1>3, InTotalsSame
  <2>4. isCovered(b, e, t) BY <1>1 DEF isCovered, p
  <2> QED BY <1>5, <2>2, <2>3, <2>4
<1>7. /\ ref \in PotBooks /\ Counted(ref) /\ InTotals(ref) /\ Reserved(cut, ref)
      /\ ref.payouts = cut.payouts /\ ref.slotPayouts = cut.slotPayouts
      /\ ref.nonRewardPotsTotal = b.nonRewardPotsTotal
      /\ ref.balance[p][t] = cut.payouts[e][t]
      /\ \A u \in Tokens : allPots(ref, u) = allPots(cut, u)
  <2> HIDE DEF cut
  <2>1. /\ ref \in PotBooks /\ Counted(ref) /\ InTotals(ref) /\ Reserved(cut, ref)
        /\ ref.payouts = cut.payouts /\ ref.slotPayouts = cut.slotPayouts
        /\ ref.nonRewardPotsTotal = cut.nonRewardPotsTotal
        /\ ref.balance[potOf(e)][t] = cut.payouts[e][t]
        /\ \A u \in Tokens : allPots(ref, u) = allPots(cut, u)
    <3>1. cut \in PotBooks BY <1>3
    <3>2. Counted(cut) /\ InTotals(cut) /\ isCovered(cut, e, t) BY <1>6
    <3>3. /\ ref \in PotBooks /\ Counted(ref) /\ InTotals(ref)
          /\ ref.payouts = cut.payouts /\ ref.slotPayouts = cut.slotPayouts
          /\ ref.nonRewardPotsTotal = cut.nonRewardPotsTotal
      BY <3>1, <3>2, RefundDomain
    <3>4. Reserved(cut, ref) /\ (ref.balance)[potOf(e)][t] = (cut.payouts)[e][t]
      BY <3>1, <3>2, RefundDomain
    <3>5. \A u \in Tokens : allPots(ref, u) = allPots(cut, u) BY <3>1, <3>2, RefundDomain
    <3> QED BY <3>3, <3>4, <3>5
  <2> QED BY <1>3, <2>1 DEF p
<1>8. \A u \in Tokens : allPots(ref, u) = allPots(b, u)
  <2> HIDE DEF ref, cut
  <2> QED BY <1>3, <1>7 DEF allPots, balances
<1>9. ref.balance[p][t] - payout \in Nat /\ ref.payouts[e][t] - payout \in Nat
      /\ ref.nonRewardPotsTotal[t] - payout \in Nat
  <2> HIDE DEF ref, cut
  <2> QED BY <1>1, <1>4, <1>7
<1>10. /\ c \in PotBooks
       /\ c.balance = [ref.balance EXCEPT ![p][t] = @ - payout]
       /\ c.payouts = [ref.payouts EXCEPT ![e][t] = @ - payout]
       /\ c.slotPayouts = ref.slotPayouts
       /\ c.payoutsWeCannotMake = ref.payoutsWeCannotMake
       /\ c.nonRewardPotsTotal = [ref.nonRewardPotsTotal EXCEPT ![t] = @ - payout]
  <2> HIDE DEF ref
  <2> QED BY <1>1, <1>7, <1>9 DEF PotBooks
<1> HIDE DEF c
<1>11. PotChanged(ref, c, p, t, 0 - payout)
  <2> HIDE DEF ref
  <2>1. ref.balance \in [Pots -> [Tokens -> Nat]] BY <1>7, BooksFields
  <2>2. c.balance[p][t] = ref.balance[p][t] + (0 - payout) BY <1>1, <1>10, <2>1
  <2>3. ASSUME NEW q \in Pots, NEW u \in Tokens, <<q, u>> # <<p, t>>
        PROVE  c.balance[q][u] = ref.balance[q][u]
    BY <1>1, <1>10, <2>1, <2>3
  <2> QED BY <2>2, <2>3 DEF PotChanged
<1>12. /\ c.payouts[e][t] = ref.payouts[e][t] - payout
       /\ \A d \in Expenditures, u \in Tokens :
             <<d, u>> # <<e, t>> => c.payouts[d][u] = ref.payouts[d][u]
  <2> HIDE DEF ref
  <2>1. ref.payouts \in [Expenditures -> [Tokens -> Nat]] BY <1>7, BooksFields
  <2>2. c.payouts[e][t] = ref.payouts[e][t] - payout BY <1>10, <2>1
  <2>3. ASSUME NEW d \in Expenditures, NEW u \in Tokens, <<d, u>> # <<e, t>>
        PROVE  c.payouts[d][u] = ref.payouts[d][u]
    BY <1>10, <2>1, <2>3
  <2> QED BY <2>2, <2>3
<1>13. \A d \in Expenditures, u \in Tokens : isCovered(c, d, u) = isCovered(ref, d, u)
  <2> HIDE DEF ref, cut
  <2> TAKE d \in Expenditures, u \in Tokens
  <2>1. CASE <<d, u>> # <<e, t>>
    <3>1. potOf(d) \in Pots /\ <<potOf(d), u>> # <<p, t>> BY <2>1, PotNumbers DEF p
    <3>2. c.balance[potOf(d)][u] = ref.balance[potOf(d)][u] BY <1>11, <3>1 DEF PotChanged
    <3> QED BY <1>12, <2>1, <3>2 DEF isCovered
  <2>2. CASE <<d, u>> = <<e, t>>
    <3>1. c.balance[p][t] = ref.balance[p][t] + (0 - payout) BY <1>11 DEF PotChanged
    <3>2. c.balance[p][t] >= c.payouts[e][t] /\ ref.balance[p][t] >= ref.payouts[e][t]
      BY <1>1, <1>4, <1>7, <1>12, <3>1
    <3> QED BY <2>2, <3>2 DEF isCovered, p
  <2> QED BY <2>1, <2>2
<1>14. Counted(c)
  <2> HIDE DEF ref
  <2>1. \A d \in Expenditures : Short(c, d) = Short(ref, d) BY <1>13 DEF Short
  <2> QED BY <1>7, <1>10, <2>1 DEF Counted
<1>15. Reserved(b, c)
  <2> HIDE DEF ref, cut
  <2> QED BY <1>5, <1>7, <1>13 DEF Reserved
<1>16. \A u \in Tokens :
         /\ allPots(c, u) = allPots(ref, u) + (IF u = t THEN 0 - payout ELSE 0)
         /\ otherPots(c, u)
              = otherPots(ref, u) + (IF u = t /\ p # RewardsPot THEN 0 - payout ELSE 0)
  <2> HIDE DEF ref
  <2>1. 0 - payout \in Int BY <1>1
  <2> QED BY <1>1, <1>7, <1>10, <1>11, <2>1, PotChangedSums
<1>17. InTotals(c)
  <2> HIDE DEF ref
  <2> SUFFICES ASSUME NEW u \in Tokens PROVE otherPots(c, u) <= c.nonRewardPotsTotal[u]
    BY DEF InTotals
  <2>1. otherPots(ref, u) <= ref.nonRewardPotsTotal[u] BY <1>7 DEF InTotals
  <2>2. otherPots(ref, u) \in Nat BY <1>7, BalancesType
  <2>3. ref.nonRewardPotsTotal \in [Tokens -> Nat] BY <1>7, BooksFields
  <2>4. c.nonRewardPotsTotal[u] = ref.nonRewardPotsTotal[u] - (IF u = t THEN payout ELSE 0)
    BY <1>10, <2>3
  <2>5. otherPots(c, u) = otherPots(ref, u) - (IF u = t THEN payout ELSE 0)
    <3>1. CASE u = t BY <1>1, <1>16, <2>2, <3>1
    <3>2. CASE u # t BY <1>1, <1>16, <2>2, <3>2
    <3> QED BY <3>1, <3>2
  <2>6. ref.nonRewardPotsTotal[u] \in Nat BY <2>3
  <2> QED BY <1>1, <2>1, <2>2, <2>4, <2>5, <2>6
<1>18. Summed(c)
  <2> HIDE DEF ref, cut
  <2> SUFFICES ASSUME NEW d \in Expenditures, NEW u \in Tokens
               PROVE  c.payouts[d][u] = slotTotal(c, d, u, Slots)
    BY DEF Summed
  <2> DEFINE f == slotsOf(b, d, u)
             g == slotsOf(c, d, u)
  <2>1. b.payouts[d][u] = slotTotal(b, d, u, Slots) BY <1>0 DEF Summed
  <2>2. /\ \A x \in Slots : f[x] = b.slotPayouts[d][x][u] /\ f[x] \in Nat
        /\ \A x \in Slots : g[x] = c.slotPayouts[d][x][u] /\ g[x] \in Nat
    BY <1>0, <1>10, SlotsType
  <2>3. /\ slotTotal(b, d, u, Slots) = SumFunctionOnSet(f, Slots)
        /\ slotTotal(c, d, u, Slots) = SumFunctionOnSet(g, Slots)
        /\ SumFunctionOnSet(f, Slots) \in Nat
    <3>1. Slots \in SUBSET Slots OBVIOUS
    <3> QED BY <1>0, <1>10, <3>1, SlotsType
  <2>4. /\ b.slotPayouts \in [Expenditures -> [Slots -> [Tokens -> Nat]]]
        /\ c.slotPayouts = [b.slotPayouts EXCEPT ![e][s][t] = 0]
    BY <1>0, <1>3, <1>7, <1>10, BooksFields
  <2>5. CASE <<d, u>> = <<e, t>>
    <3>1. g[s] = 0 /\ f[s] = initial /\ \A x \in Slots : x # s => g[x] = f[x]
      <4> HIDE DEF f, g
      <4> QED BY <2>2, <2>4, <2>5 DEF initial
    <3>2. SumFunctionOnSet(g, Slots) = SumFunctionOnSet(f, Slots) - f[s] + g[s]
      <4>1. \A x \in Slots : f[x] \in Int /\ g[x] \in Int BY <2>2
      <4> HIDE DEF f, g
      <4> QED BY <3>1, <4>1, FundingAssumption, SumChange
    <3>3. c.payouts[e][t] = b.payouts[e][t] - initial BY <1>1, <1>4, <1>7, <1>12
    <3> HIDE DEF f, g
    <3> QED BY <1>1, <2>1, <2>3, <2>5, <3>1, <3>2, <3>3
  <2>6. CASE <<d, u>> # <<e, t>>
    <3>1. \A x \in Slots : f[x] = g[x] /\ f[x] \in Int
      <4> HIDE DEF f, g
      <4> QED BY <2>2, <2>4, <2>6
    <3>2. SumFunctionOnSet(f, Slots) = SumFunctionOnSet(g, Slots)
      <4> HIDE DEF f, g
      <4> QED BY <3>1, FundingAssumption, SumSame
    <3>3. c.payouts[d][u] = b.payouts[d][u] BY <1>4, <1>7, <1>12, <2>6
    <3> HIDE DEF f, g
    <3> QED BY <2>1, <2>3, <3>2, <3>3
  <2> QED BY <2>5, <2>6
<1>19. \A u \in Tokens : allPots(c, u) = allPots(b, u) + (IF u = t THEN 0 - payout ELSE 0)
  <2> HIDE DEF ref
  <2> QED BY <1>8, <1>16
<1>20. Sound(c) BY <1>10, <1>14, <1>17, <1>18 DEF Sound
<1> QED BY <1>1, <1>2, <1>15, <1>19, <1>20 DEF payout, initial

-----------------------------------------------------------------------------
(* Calls that leave the pots of expenditures alone.                        *)

\* Where the pots of expenditures stay, their counters and sums do.
LEMMA ExpendituresApart ==
    ASSUME NEW b, Counted(b), Summed(b), NEW c,
           c.payouts = b.payouts, c.slotPayouts = b.slotPayouts,
           c.payoutsWeCannotMake = b.payoutsWeCannotMake,
           \A e \in Expenditures, t \in Tokens : c.balance[potOf(e)][t] = b.balance[potOf(e)][t]
    PROVE  Counted(c) /\ Summed(c) /\ Reserved(b, c)
<1>1. \A e \in Expenditures, t \in Tokens : isCovered(c, e, t) = isCovered(b, e, t)
  BY DEF isCovered
<1>2. \A e \in Expenditures : Short(c, e) = Short(b, e) BY <1>1 DEF Short
<1>3. Counted(c) BY <1>2 DEF Counted
<1>4. Summed(c) BY SummedSame
<1>5. Reserved(b, c) BY <1>1 DEF Reserved
<1> QED BY <1>3, <1>4, <1>5

\* The root pot pays n, of which k are also taken out of the total.
LEMMA RootPays ==
    ASSUME NEW b, Sound(b), NEW c \in PotBooks, NEW t \in Tokens, NEW n \in Nat, NEW k \in 0..n,
           c.payouts = b.payouts, c.slotPayouts = b.slotPayouts,
           c.payoutsWeCannotMake = b.payoutsWeCannotMake,
           PotChanged(b, c, RootPot, t, 0 - n),
           \A u \in Tokens :
              c.nonRewardPotsTotal[u] = b.nonRewardPotsTotal[u] - (IF u = t THEN k ELSE 0)
    PROVE  /\ Sound(c) /\ Reserved(b, c)
           /\ \A u \in Tokens : allPots(c, u) = allPots(b, u) + (IF u = t THEN 0 - n ELSE 0)
<1>1. b \in PotBooks /\ Counted(b) /\ Summed(b) /\ InTotals(b) BY DEF Sound
<1>2. RootPot \in Pots /\ RootPot # RewardsPot BY PotNumbers
<1>3. \A u \in Tokens :
        /\ allPots(c, u) = allPots(b, u) + (IF u = t THEN 0 - n ELSE 0)
        /\ otherPots(c, u) = otherPots(b, u) + (IF u = t /\ RootPot # RewardsPot THEN 0 - n ELSE 0)
  <2>1. 0 - n \in Int OBVIOUS
  <2> QED BY <1>1, <1>2, <2>1, PotChangedSums
<1>4. InTotals(c)
  <2> SUFFICES ASSUME NEW u \in Tokens PROVE otherPots(c, u) <= c.nonRewardPotsTotal[u]
    BY DEF InTotals
  <2>1. otherPots(b, u) <= b.nonRewardPotsTotal[u] BY <1>1 DEF InTotals
  <2>2. otherPots(b, u) \in Nat /\ b.nonRewardPotsTotal[u] \in Nat
    BY <1>1, BalancesType, BooksFields
  <2>3. otherPots(c, u) = otherPots(b, u) - (IF u = t THEN n ELSE 0)
    <3>1. CASE u = t BY <1>2, <1>3, <2>2, <3>1
    <3>2. CASE u # t BY <1>2, <1>3, <2>2, <3>2
    <3> QED BY <3>1, <3>2
  <2> QED BY <2>1, <2>2, <2>3
<1>5. \A e \in Expenditures, u \in Tokens : c.balance[potOf(e)][u] = b.balance[potOf(e)][u]
  <2> TAKE e \in Expenditures, u \in Tokens
  <2>1. potOf(e) \in Pots /\ <<potOf(e), u>> # <<RootPot, t>> BY PotNumbers
  <2> QED BY <2>1 DEF PotChanged
<1>6. Counted(c) /\ Summed(c) /\ Reserved(b, c) BY <1>1, <1>5, ExpendituresApart
<1> QED BY <1>3, <1>4, <1>6 DEF Sound

\* Claiming adds what was unclaimed, all but the fee to the totals.
LEMMA ClaimFunds ==
    ASSUME NEW b, Sound(b), NEW h \in Nat, NEW t \in Tokens, unclaimed(b, h, t) > 0
    PROVE  LET c == claimFunds(b, h, t)
           IN  /\ Sound(c) /\ Reserved(b, c)
               /\ c.tokenApprovalTotals = b.tokenApprovalTotals
               /\ \A u \in Tokens :
                    allPots(c, u) = allPots(b, u) + (IF u = t THEN unclaimed(b, h, t) ELSE 0)
<1> DEFINE x == unclaimed(b, h, t)
           fee == x \div RewardInverse
           mid == [b EXCEPT !.balance[RewardsPot][t] = @ + fee]
           c == [b EXCEPT !.nonRewardPotsTotal[t]  = @ + (x - fee),
                          !.balance[RootPot][t]    = @ + (x - fee),
                          !.balance[RewardsPot][t] = @ + fee]
<1>1. b \in PotBooks /\ Counted(b) /\ Summed(b) /\ InTotals(b) BY DEF Sound
<1>2. RootPot \in Pots /\ RewardsPot \in Pots /\ RootPot # RewardsPot BY PotNumbers
<1>3. /\ b.balance \in [Pots -> [Tokens -> Nat]]
      /\ b.nonRewardPotsTotal \in [Tokens -> Nat]
  BY <1>1, BooksFields
<1>4. x \in Nat
  <2>1. b.balance[RewardsPot][t] \in Nat /\ b.nonRewardPotsTotal[t] \in Nat BY <1>2, <1>3
  <2> QED BY <2>1 DEF unclaimed
<1>5. fee \in 0..x
  <2> HIDE DEF x
  <2>1. RewardInverse \in Nat \ {0} BY FundingAssumption
  <2>2. fee \in Nat BY <1>4, <2>1
  <2>3. fee <= x BY <1>4, <2>1
  <2> QED BY <2>2, <2>3
<1>6. claimFunds(b, h, t) = c BY DEF claimFunds
<1> HIDE DEF x, fee
<1>7. fee \in Nat /\ x - fee \in Nat BY <1>4, <1>5
<1>8. mid \in PotBooks /\ mid.balance = [b.balance EXCEPT ![RewardsPot][t] = @ + fee]
  <2>1. b.balance[RewardsPot][t] + fee \in Nat BY <1>2, <1>3, <1>7
  <2> QED BY <1>1, <1>2, <2>1 DEF PotBooks
<1>9. /\ c.balance = [b.balance EXCEPT ![RootPot][t] = @ + (x - fee),
                                       ![RewardsPot][t] = @ + fee]
      /\ c.payouts = b.payouts /\ c.slotPayouts = b.slotPayouts
      /\ c.payoutsWeCannotMake = b.payoutsWeCannotMake
      /\ c.tokenApprovalTotals = b.tokenApprovalTotals
      /\ c.nonRewardPotsTotal = [b.nonRewardPotsTotal EXCEPT ![t] = @ + (x - fee)]
  BY <1>1 DEF PotBooks
<1>10. c \in PotBooks
  <2>1. /\ b.balance[RewardsPot][t] + fee \in Nat
        /\ b.balance[RootPot][t] + (x - fee) \in Nat
        /\ b.nonRewardPotsTotal[t] + (x - fee) \in Nat
    BY <1>2, <1>3, <1>7
  <2> DEFINE bal == [b.balance EXCEPT ![RootPot][t] = @ + (x - fee), ![RewardsPot][t] = @ + fee]
             tot == [b.nonRewardPotsTotal EXCEPT ![t] = @ + (x - fee)]
  <2>2. bal \in [Pots -> [Tokens -> Nat]] /\ tot \in [Tokens -> Nat] BY <1>2, <1>3, <2>1
  <2>3. c = [b EXCEPT !.nonRewardPotsTotal = tot, !.balance = bal] BY Zenon
  <2> HIDE DEF bal, tot, c
  <2>4. [b EXCEPT !.nonRewardPotsTotal = tot, !.balance = bal] \in PotBooks
    BY <1>1, <2>2 DEF PotBooks
  <2> QED BY <2>3, <2>4
<1> HIDE DEF c
<1>11. PotChanged(b, mid, RewardsPot, t, fee)
  <2> HIDE DEF mid
  <2>1. mid.balance[RewardsPot][t] = b.balance[RewardsPot][t] + fee BY <1>2, <1>3, <1>8
  <2>2. ASSUME NEW q \in Pots, NEW u \in Tokens, <<q, u>> # <<RewardsPot, t>>
        PROVE  mid.balance[q][u] = b.balance[q][u]
    BY <1>2, <1>3, <1>8, <2>2
  <2> QED BY <2>1, <2>2 DEF PotChanged
<1>12. PotChanged(mid, c, RootPot, t, x - fee)
  <2> HIDE DEF mid
  <2>1. c.balance[RootPot][t] = mid.balance[RootPot][t] + (x - fee) BY <1>2, <1>3, <1>8, <1>9
  <2>2. ASSUME NEW q \in Pots, NEW u \in Tokens, <<q, u>> # <<RootPot, t>>
        PROVE  c.balance[q][u] = mid.balance[q][u]
    BY <1>2, <1>3, <1>8, <1>9, <2>2
  <2> QED BY <2>1, <2>2 DEF PotChanged
<1>13. \A u \in Tokens :
         /\ allPots(c, u) = allPots(b, u) + (IF u = t THEN x ELSE 0)
         /\ otherPots(c, u) = otherPots(b, u) + (IF u = t THEN x - fee ELSE 0)
  <2> HIDE DEF mid
  <2> TAKE u \in Tokens
  <2>1. /\ allPots(mid, u) = allPots(b, u) + (IF u = t THEN fee ELSE 0)
        /\ otherPots(mid, u)
             = otherPots(b, u) + (IF u = t /\ RewardsPot # RewardsPot THEN fee ELSE 0)
    BY <1>1, <1>2, <1>7, <1>8, <1>11, PotChangedSums
  <2>2. /\ allPots(c, u) = allPots(mid, u) + (IF u = t THEN x - fee ELSE 0)
        /\ otherPots(c, u)
             = otherPots(mid, u) + (IF u = t /\ RootPot # RewardsPot THEN x - fee ELSE 0)
    BY <1>2, <1>7, <1>8, <1>10, <1>12, PotChangedSums
  <2>3. allPots(b, u) \in Nat /\ otherPots(b, u) \in Nat BY <1>1, BalancesType
  <2>4. CASE u = t BY <1>2, <1>4, <1>7, <2>1, <2>2, <2>3, <2>4
  <2>5. CASE u # t BY <1>2, <2>1, <2>2, <2>3, <2>5
  <2> QED BY <2>4, <2>5
<1>14. InTotals(c)
  <2> SUFFICES ASSUME NEW u \in Tokens PROVE otherPots(c, u) <= c.nonRewardPotsTotal[u]
    BY DEF InTotals
  <2>1. otherPots(b, u) <= b.nonRewardPotsTotal[u] BY <1>1 DEF InTotals
  <2>2. otherPots(b, u) \in Nat /\ b.nonRewardPotsTotal[u] \in Nat BY <1>1, <1>3, BalancesType
  <2>3. CASE u = t
    <3>1. c.nonRewardPotsTotal[u] = b.nonRewardPotsTotal[u] + (x - fee) BY <1>3, <1>9, <2>3
    <3> QED BY <1>7, <1>13, <2>1, <2>2, <2>3, <3>1
  <2>4. CASE u # t
    <3>1. c.nonRewardPotsTotal[u] = b.nonRewardPotsTotal[u] BY <1>3, <1>9, <2>4
    <3> QED BY <1>13, <2>1, <2>2, <2>4, <3>1
  <2> QED BY <2>3, <2>4
<1>15. \A e \in Expenditures, u \in Tokens : c.balance[potOf(e)][u] = b.balance[potOf(e)][u]
  <2> TAKE e \in Expenditures, u \in Tokens
  <2>1. potOf(e) \in Pots /\ potOf(e) # RootPot /\ potOf(e) # RewardsPot BY PotNumbers
  <2> QED BY <1>2, <1>3, <1>9, <2>1
<1>16. Counted(c) /\ Summed(c) /\ Reserved(b, c) BY <1>1, <1>9, <1>15, ExpendituresApart
<1> QED BY <1>6, <1>9, <1>10, <1>13, <1>14, <1>16 DEF Sound, x

-----------------------------------------------------------------------------
(* What spenders took and nobody has booked.                               *)

unspent(x, y, t) == [a \in Spenders |-> greater(x[t][a] - y[t][a], 0)]

\* unbooked(t), of recorded approvals x and allowances y.
taken(x, y, t) == SumFunctionOnSet(unspent(x, y, t), Spenders)

Approved == [Tokens -> [Spenders -> Nat]]

\* What was taken is a natural number.
LEMMA TakenType ==
    ASSUME NEW x \in Approved, NEW y \in Approved, NEW t \in Tokens
    PROVE  /\ \A a \in Spenders : /\ unspent(x, y, t)[a] \in Nat
                                  /\ unspent(x, y, t)[a] = greater(x[t][a] - y[t][a], 0)
           /\ taken(x, y, t) \in Nat
<1>1. \A a \in Spenders : /\ unspent(x, y, t)[a] \in Nat
                          /\ unspent(x, y, t)[a] = greater(x[t][a] - y[t][a], 0)
  <2> TAKE a \in Spenders
  <2>1. x[t][a] \in Nat /\ y[t][a] \in Nat BY DEF Approved
  <2>2. greater(x[t][a] - y[t][a], 0) \in Nat BY <2>1 DEF greater
  <2> QED BY <2>2 DEF unspent
<1> QED BY <1>1, InputsAssumption, SumNat DEF taken

\* What is recorded or allowed of one spender becomes m.
Approval(x, z, t, a, m) ==
    /\ z[t][a] = m
    /\ \A s \in Spenders : s # a => z[t][s] = x[t][s]
    /\ \A u \in Tokens : u # t => z[u] = x[u]

\* Writing one approval changes that one.
LEMMA ApprovalChange ==
    ASSUME NEW x \in Approved, NEW t \in Tokens, NEW a \in Spenders, NEW m \in Nat
    PROVE  LET z == [x EXCEPT ![t][a] = m] IN z \in Approved /\ Approval(x, z, t, a, m)
BY DEF Approved, Approval

\* What the spenders took unbooked, when one allowance and approval change.
LEMMA TakenChange ==
    ASSUME NEW x \in Approved, NEW y \in Approved, NEW t \in Tokens, NEW a \in Spenders,
           NEW m \in Nat, NEW n \in Nat, n <= m, y[t][a] <= x[t][a],
           NEW x2 \in Approved, NEW y2 \in Approved,
           Approval(x, x2, t, a, m), Approval(y, y2, t, a, n)
    PROVE  /\ taken(x2, y2, t) = taken(x, y, t) - (x[t][a] - y[t][a]) + (m - n)
           /\ \A u \in Tokens \ {t} : taken(x2, y2, u) = taken(x, y, u)
<1> DEFINE f == unspent(x, y, t)
           g == unspent(x2, y2, t)
<1>2. /\ x2[t][a] = m /\ y2[t][a] = n
      /\ \A s \in Spenders : s # a => x2[t][s] = x[t][s] /\ y2[t][s] = y[t][s]
      /\ \A u \in Tokens : u # t => x2[u] = x[u] /\ y2[u] = y[u]
  BY DEF Approval
<1>3. x[t][a] \in Nat /\ y[t][a] \in Nat BY DEF Approved
<1>4. /\ \A s \in Spenders : f[s] \in Int /\ f[s] = greater(x[t][s] - y[t][s], 0)
      /\ SumFunctionOnSet(f, Spenders) = taken(x, y, t)
  BY TakenType DEF taken
<1>5. /\ \A s \in Spenders : g[s] \in Int /\ g[s] = greater(x2[t][s] - y2[t][s], 0)
      /\ SumFunctionOnSet(g, Spenders) = taken(x2, y2, t)
  <2>1. \A s \in Spenders : g[s] \in Nat /\ g[s] = greater(x2[t][s] - y2[t][s], 0)
    BY TakenType
  <2>2. SumFunctionOnSet(g, Spenders) = taken(x2, y2, t) BY DEF taken
  <2> HIDE DEF g
  <2> QED BY <2>1, <2>2
<1>6. SumFunctionOnSet(g, Spenders) = SumFunctionOnSet(f, Spenders) - f[a] + g[a]
  <2> HIDE DEF f, g
  <2>1. \A s \in Spenders : s # a => g[s] = f[s] BY <1>2, <1>4, <1>5
  <2> QED BY <1>4, <1>5, <2>1, InputsAssumption, SumChange
<1>7. f[a] = x[t][a] - y[t][a] /\ g[a] = m - n
  <2> HIDE DEF f, g
  <2> QED BY <1>2, <1>3, <1>4, <1>5 DEF greater
<1>8. \A u \in Tokens \ {t} : taken(x2, y2, u) = taken(x, y, u)
  <2> QED BY <1>2 DEF taken, unspent
<1>9. taken(x, y, t) \in Nat BY TakenType
<1>10. taken(x2, y2, t) = taken(x, y, t) - (x[t][a] - y[t][a]) + (m - n)
  <2> HIDE DEF f, g
  <2> QED BY <1>3, <1>4, <1>5, <1>6, <1>7, <1>9
<1> QED BY <1>8, <1>10

-----------------------------------------------------------------------------
(* The invariant and its steps.                                            *)

\* No spender can take more than the colony has recorded.
AllowancesRecorded ==
    \A t \in Tokens, a \in Spenders : allowance[t][a] <= tokenApprovals[t][a]

Inv == TypeOK /\ Sound(books) /\ PotsBacked /\ AllowancesRecorded

\* FundsStayReserved, of one step.
StaysReserved ==
    \A e \in Expenditures, t \in Tokens :
        /\ status[e] # "Cancelled"
        /\ isCovered(books, e, t)
        /\ ~isCovered(books', e, t)
        => books'.payouts[e][t] > books.payouts[e][t]

\* PotsBacked, in the terms of this module, now and after a step.
LEMMA Backing ==
    PotsBacked <=>
        \A t \in Tokens : allPots(books, t) <= held[t] + taken(tokenApprovals, allowance, t)
BY DEF PotsBacked, potsTotal, allPots, balances, unbooked, taken, unspent

\* The same of the state after a step.
LEMMA BackingNext ==
    PotsBacked' <=>
      \A t \in Tokens : allPots(books', t) <= held'[t] + taken(tokenApprovals', allowance', t)
BY DEF PotsBacked, potsTotal, allPots, balances, unbooked, taken, unspent

\* A step that uncovers nothing keeps funds reserved.
LEMMA ReservedStays == ASSUME Reserved(books, books') PROVE StaysReserved
BY DEF Reserved, StaysReserved

\* The properties that the invariant contains.
LEMMA Parts ==
    Inv => BooksConsistent /\ NoDoubleClaim
BY DEF Inv, Sound, Counted, Summed, InTotals, BooksConsistent, CannotMakeCount, PayoutsSum,
       NoDoubleClaim, potsTotal, otherPots, balances, Short

\* What a step may take from the invariant.
LEMMA Types ==
    ASSUME Inv
    PROVE  /\ books \in PotBooks /\ Sound(books)
           /\ expenditureCount \in 0..MaxExpenditures /\ Existing \subseteq Expenditures
           /\ status \in [Expenditures -> Statuses]
           /\ payoutModifier \in [Expenditures -> [Slots -> Int]]
           /\ tokenApprovals \in Approved /\ allowance \in Approved
           /\ held \in [Tokens -> Nat]
           /\ \A t \in Tokens : /\ allPots(books, t) \in Nat
                                /\ taken(tokenApprovals, allowance, t) \in Nat
                                /\ allPots(books, t)
                                     <= held[t] + taken(tokenApprovals, allowance, t)
<1>1. tokenApprovals \in Approved /\ allowance \in Approved BY DEF Inv, TypeOK, Approved
<1>2. Existing \subseteq Expenditures
  BY FundingAssumption DEF Inv, TypeOK, Existing, Expenditures
<1>3. \A t \in Tokens : /\ allPots(books, t) \in Nat
                        /\ taken(tokenApprovals, allowance, t) \in Nat
  BY <1>1, BalancesType, TakenType DEF Inv, TypeOK
<1> QED BY <1>1, <1>2, <1>3, Backing DEF Inv, TypeOK

\* One token's pots grow no more than what backs them.
LEMMA StillBacked ==
    ASSUME Inv, NEW t \in Tokens, NEW d \in Int, NEW n \in Int, d <= n,
           books' \in PotBooks, held' \in [Tokens -> Nat],
           tokenApprovals' \in Approved, allowance' \in Approved,
           \A u \in Tokens : allPots(books', u) = allPots(books, u) + (IF u = t THEN d ELSE 0),
           held'[t] + taken(tokenApprovals', allowance', t)
             = held[t] + taken(tokenApprovals, allowance, t) + n,
           \A u \in Tokens \ {t} : /\ held'[u] = held[u]
                                   /\ taken(tokenApprovals', allowance', u)
                                        = taken(tokenApprovals, allowance, u)
    PROVE  PotsBacked'
<1> SUFFICES ASSUME NEW u \in Tokens
             PROVE  allPots(books', u) <= held'[u] + taken(tokenApprovals', allowance', u)
  BY BackingNext
<1>1. /\ allPots(books, u) \in Nat /\ taken(tokenApprovals, allowance, u) \in Nat
      /\ allPots(books, u) <= held[u] + taken(tokenApprovals, allowance, u)
      /\ held[u] \in Nat
  BY Types
<1>2. CASE u = t BY <1>1, <1>2
<1>3. CASE u # t BY <1>1, <1>3
<1> QED BY <1>2, <1>3

\* Calls that move no money and set nothing but an expenditure's state.
LEMMA MoneyAlone ==
    ASSUME Inv, UNCHANGED <<books, tokenApprovals, tokenVars>>,
           expenditureCount' \in 0..MaxExpenditures,
           status' \in [Expenditures -> Statuses],
           payoutModifier' \in [Expenditures -> [Slots -> Int]]
    PROVE  Inv' /\ StaysReserved
<1>1. TypeOK' BY DEF Inv, TypeOK, tokenVars
<1>2. Sound(books') BY DEF Inv
<1>3. PotsBacked' BY Backing, BackingNext DEF Inv, tokenVars
<1>4. AllowancesRecorded' BY DEF Inv, AllowancesRecorded, tokenVars
<1>5. StaysReserved BY DEF StaysReserved
<1> QED BY <1>1, <1>2, <1>3, <1>4, <1>5 DEF Inv

\* Calls that change the books alone, and leave the sum of the pots.
LEMMA BooksOnly ==
    ASSUME Inv, Sound(books'), UNCHANGED <<expenditureVars, tokenApprovals, tokenVars>>,
           \A t \in Tokens : allPots(books', t) = allPots(books, t)
    PROVE  Inv'
<1>1. TypeOK' BY DEF Inv, TypeOK, tokenVars, expenditureVars, Sound
<1>2. PotsBacked' BY Backing, BackingNext DEF Inv, tokenVars
<1>3. AllowancesRecorded' BY DEF Inv, AllowancesRecorded, tokenVars
<1> QED BY <1>1, <1>2, <1>3 DEF Inv

-----------------------------------------------------------------------------
(* The world.                                                              *)

\* Tokens arrive.
LEMMA Receiving ==
    ASSUME Inv, NEW t \in Tokens, NEW amount \in Amounts, ReceiveTokens(t, amount)
    PROVE  Inv' /\ StaysReserved
<1>1. amount \in Nat BY InputsAssumption
<1>2. held' = [held EXCEPT ![t] = @ + amount] /\ held \in [Tokens -> Nat]
  BY Types DEF ReceiveTokens
<1>3. held' \in [Tokens -> Nat] BY <1>1, <1>2
<1>4. /\ books' = books /\ tokenApprovals' = tokenApprovals /\ allowance' = allowance
      /\ UNCHANGED expenditureVars
  BY DEF ReceiveTokens
<1>5. TypeOK' BY <1>3, <1>4 DEF Inv, TypeOK, expenditureVars
<1>6. PotsBacked'
  <2>1. held'[t] = held[t] + amount /\ (\A u \in Tokens \ {t} : held'[u] = held[u])
        /\ held[t] \in Nat
    BY <1>2
  <2>2. \A u \in Tokens : allPots(books', u) = allPots(books, u) + (IF u = t THEN 0 ELSE 0)
    BY <1>4, Types
  <2>3. held'[t] + taken(tokenApprovals', allowance', t)
          = held[t] + taken(tokenApprovals, allowance, t) + amount
    BY <1>1, <1>4, <2>1, Types
  <2> QED BY <1>1, <1>3, <1>4, <2>1, <2>2, <2>3, StillBacked, Types
<1>7. AllowancesRecorded' BY <1>4 DEF Inv, AllowancesRecorded
<1>8. StaysReserved BY <1>4 DEF StaysReserved
<1> QED BY <1>4, <1>5, <1>6, <1>7, <1>8 DEF Inv

\* A spender takes tokens: what he took becomes what is not booked yet.
LEMMA Spending ==
    ASSUME Inv, NEW t \in Tokens, NEW a \in Spenders, NEW amount \in Amounts,
           SpendAllowance(t, a, amount)
    PROVE  Inv' /\ StaysReserved
<1> DEFINE x == tokenApprovals
           y == allowance
<1>1. amount \in Nat BY InputsAssumption
<1>2. /\ held' = [held EXCEPT ![t] = @ - amount] /\ held \in [Tokens -> Nat]
      /\ amount <= held[t]
  BY Types DEF SpendAllowance
<1>3. held' \in [Tokens -> Nat] BY <1>1, <1>2
<1>4. /\ x \in Approved /\ y \in Approved
      /\ x[t][a] \in Nat /\ y[t][a] \in Nat
      /\ amount <= y[t][a] /\ y[t][a] <= x[t][a]
  BY Types DEF SpendAllowance, Inv, AllowancesRecorded, Approved
<1>5. /\ books' = books /\ x' = x
      /\ y' = [y EXCEPT ![t][a] = y[t][a] - amount]
      /\ UNCHANGED expenditureVars
  BY DEF SpendAllowance
<1>6. x = [x EXCEPT ![t][a] = x[t][a]] BY <1>4 DEF Approved
<1>7. /\ y' \in Approved
      /\ taken(x', y', t) = taken(x, y, t) - (x[t][a] - y[t][a]) + (x[t][a] - (y[t][a] - amount))
      /\ \A u \in Tokens \ {t} : taken(x', y', u) = taken(x, y, u)
  <2>1. y[t][a] - amount \in Nat /\ y[t][a] - amount <= x[t][a] BY <1>1, <1>4
  <2> DEFINE m == x[t][a]
             n == y[t][a] - amount
  <2>2. m \in Nat /\ n \in Nat /\ n <= m BY <1>4, <2>1
  <2>3. x' = [x EXCEPT ![t][a] = m] /\ y' = [y EXCEPT ![t][a] = n] BY <1>5, <1>6
  <2> HIDE DEF m, n, x, y
  <2>4. /\ y' \in Approved
        /\ taken(x', y', t) = taken(x, y, t) - (x[t][a] - y[t][a]) + (m - n)
        /\ \A u \in Tokens \ {t} : taken(x', y', u) = taken(x, y, u)
    <3>1. x \in Approved /\ y \in Approved /\ y[t][a] <= x[t][a] BY <1>4
    <3>2. x' \in Approved /\ Approval(x, x', t, a, m) BY <2>2, <2>3, <3>1, ApprovalChange
    <3>3. y' \in Approved /\ Approval(y, y', t, a, n) BY <2>2, <2>3, <3>1, ApprovalChange
    <3>4. taken(x', y', t) = taken(x, y, t) - (x[t][a] - y[t][a]) + (m - n)
      BY <2>2, <3>1, <3>2, <3>3, TakenChange
    <3>5. \A u \in Tokens \ {t} : taken(x', y', u) = taken(x, y, u)
      BY <2>2, <3>1, <3>2, <3>3, TakenChange
    <3> QED BY <3>3, <3>4, <3>5
  <2> QED BY <2>4 DEF m, n
<1>8. TypeOK' BY <1>3, <1>5, <1>7 DEF Inv, TypeOK, Approved, expenditureVars
<1>9. PotsBacked'
  <2>1. held'[t] = held[t] - amount /\ (\A u \in Tokens \ {t} : held'[u] = held[u])
        /\ held[t] \in Nat
    BY <1>2
  <2>2. \A u \in Tokens : allPots(books', u) = allPots(books, u) + (IF u = t THEN 0 ELSE 0)
    BY <1>5, Types
  <2>3. taken(x, y, t) \in Nat BY Types
  <2>4. held'[t] + taken(x', y', t) = held[t] + taken(x, y, t) + 0
    BY <1>1, <1>4, <1>7, <2>1, <2>3
  <2>5. books' \in PotBooks /\ x' \in Approved BY <1>4, <1>5, Types
  <2> HIDE DEF x, y
  <2> QED BY <1>3, <1>7, <2>1, <2>2, <2>4, <2>5, StillBacked DEF x, y
<1>10. AllowancesRecorded'
  <2> SUFFICES ASSUME NEW u \in Tokens, NEW s \in Spenders PROVE y'[u][s] <= x'[u][s]
    BY DEF AllowancesRecorded
  <2>1. y[u][s] <= x[u][s] /\ y[u][s] \in Nat /\ x[u][s] \in Nat
    BY <1>4 DEF Inv, AllowancesRecorded, Approved
  <2>2. y'[u][s] = IF u = t /\ s = a THEN y[u][s] - amount ELSE y[u][s]
    BY <1>4, <1>5 DEF Approved
  <2> QED BY <1>1, <1>5, <2>1, <2>2
<1>11. StaysReserved BY <1>5 DEF StaysReserved
<1> QED BY <1>5, <1>8, <1>9, <1>10, <1>11 DEF Inv

-----------------------------------------------------------------------------
(* ColonyFunding.sol                                                       *)

\* New tokens are those not in the totals, so the pots stay backed.
LEMMA Claiming ==
    ASSUME Inv, NEW t \in Tokens, ClaimColonyFunds(t)
    PROVE  Inv' /\ StaysReserved
<1> DEFINE x == unclaimed(books, held[t], t)
<1>1. /\ x > 0 /\ books' = claimFunds(books, held[t], t)
      /\ UNCHANGED <<expenditureVars, tokenApprovals, tokenVars>>
  BY DEF ClaimColonyFunds
<1>2. held[t] \in Nat BY Types
<1>3. /\ Sound(books') /\ Reserved(books, books')
      /\ \A u \in Tokens : allPots(books', u) = allPots(books, u) + (IF u = t THEN x ELSE 0)
  BY <1>1, <1>2, ClaimFunds, Types
<1>4. TypeOK'
  BY <1>1, <1>3 DEF Inv, TypeOK, tokenVars, expenditureVars, Sound
<1>5. PotsBacked'
  <2> SUFFICES ASSUME NEW u \in Tokens
               PROVE  allPots(books', u) <= held'[u] + taken(tokenApprovals', allowance', u)
    BY BackingNext
  <2>1. held' = held /\ tokenApprovals' = tokenApprovals /\ allowance' = allowance
    BY <1>1 DEF tokenVars
  <2>2. /\ allPots(books, u) \in Nat /\ taken(tokenApprovals, allowance, u) \in Nat
        /\ allPots(books, u) <= held[u] + taken(tokenApprovals, allowance, u)
    BY Types
  <2>3. CASE u = t
    <3>1. /\ allPots(books, t) = balances(books, t)[RewardsPot] + otherPots(books, t)
          /\ otherPots(books, t) \in Nat
          /\ balances(books, t)[RewardsPot] = books.balance[RewardsPot][t]
          /\ balances(books, t)[RewardsPot] \in Nat
      BY Types, PotNumbers, BalancesType
    <3>2. otherPots(books, t) <= books.nonRewardPotsTotal[t] BY Types DEF Sound, InTotals
    <3>3. x = held[t] - books.nonRewardPotsTotal[t] - books.balance[RewardsPot][t]
      BY DEF unclaimed
    <3>4. books.nonRewardPotsTotal[t] \in Nat BY Types, BooksFields
    <3> HIDE DEF x
    <3> QED BY <1>2, <1>3, <2>1, <2>2, <2>3, <3>1, <3>2, <3>3, <3>4
  <2>4. CASE u # t BY <1>3, <2>1, <2>2, <2>4
  <2> QED BY <2>3, <2>4
<1>6. AllowancesRecorded' BY <1>1 DEF Inv, AllowancesRecorded, tokenVars
<1>7. StaysReserved BY <1>3, ReservedStays
<1> QED BY <1>3, <1>4, <1>5, <1>6, <1>7 DEF Inv

\* Moving takes nothing from a budget unless it is cancelled.
LEMMA Moving ==
    ASSUME Inv, NEW t \in Tokens, NEW from \in ExistingPots, NEW to \in ExistingPots,
           NEW amount \in Amounts, MoveFundsBetweenPots(from, to, t, amount)
    PROVE  Inv' /\ StaysReserved
<1>1. from \in Pots /\ to \in Pots /\ from # to /\ from # RewardsPot
  BY FundingAssumption, Types DEF ExistingPots, Pots, MoveFundsBetweenPots
<1>2. amount \in Nat BY InputsAssumption
<1>3. /\ amount <= books.balance[from][t]
      /\ to = RewardsPot => amount <= books.nonRewardPotsTotal[t]
      /\ isExpenditurePot(from) =>
           \/ expenditureOf(from) \in Cancelled
           \/ books.balance[from][t] - amount >= books.payouts[expenditureOf(from)][t]
      /\ books' = moveFunds(books, from, to, amount, t)
      /\ UNCHANGED <<expenditureVars, tokenApprovals, tokenVars>>
  BY DEF MoveFundsBetweenPots, canMoveFunds
<1>4. /\ books \in PotBooks /\ Counted(books) /\ Summed(books) /\ InTotals(books)
      /\ books.balance \in [Pots -> [Tokens -> Nat]]
      /\ books.nonRewardPotsTotal \in [Tokens -> Nat]
  BY Types, BooksFields DEF Sound
<1>5. books' \in PotBooks /\ Counted(books') /\ Moved(books, books', from, to, t, amount)
  BY <1>1, <1>2, <1>3, <1>4, MoveFunds
<1>6. /\ books'.balance = [books.balance EXCEPT ![from][t] = @ - amount, ![to][t] = @ + amount]
      /\ books'.payouts = books.payouts /\ books'.slotPayouts = books.slotPayouts
      /\ books'.nonRewardPotsTotal = [books.nonRewardPotsTotal EXCEPT
                                        ![t] = @ - (IF to = RewardsPot THEN amount ELSE 0)]
  BY <1>5 DEF Moved
<1>7. \A u \in Tokens :
        /\ allPots(books', u) = allPots(books, u)
        /\ otherPots(books', u)
             = otherPots(books, u) - (IF u = t /\ to = RewardsPot THEN amount ELSE 0)
  BY <1>1, <1>2, <1>4, <1>5, MovedSums
<1>8. InTotals(books')
  <2> SUFFICES ASSUME NEW u \in Tokens
               PROVE  otherPots(books', u) <= books'.nonRewardPotsTotal[u]
    BY DEF InTotals
  <2>1. otherPots(books, u) <= books.nonRewardPotsTotal[u] BY <1>4 DEF InTotals
  <2>2. otherPots(books, u) \in Nat /\ books.nonRewardPotsTotal[u] \in Nat
    BY <1>4, BalancesType
  <2>3. books'.nonRewardPotsTotal[u]
          = books.nonRewardPotsTotal[u] - (IF u = t /\ to = RewardsPot THEN amount ELSE 0)
    BY <1>4, <1>6, <2>2
  <2> QED BY <1>2, <1>7, <2>1, <2>2, <2>3
<1>9. Summed(books') BY <1>4, <1>6, SummedSame
<1>10. Inv'
  <2>1. Sound(books') BY <1>5, <1>8, <1>9 DEF Sound
  <2> QED BY <1>3, <1>7, <2>1, BooksOnly
<1>11. StaysReserved
  <2> SUFFICES ASSUME NEW e \in Expenditures, NEW u \in Tokens, status[e] # "Cancelled",
                      isCovered(books, e, u)
               PROVE  isCovered(books', e, u)
    BY DEF StaysReserved
  <2> DEFINE p == potOf(e)
  <2>1. p \in Pots /\ expenditureOf(p) = e /\ isExpenditurePot(p) BY PotNumbers
  <2>2. books.balance[p][u] >= books.payouts[e][u] BY DEF isCovered
  <2>3. books.balance[p][u] \in Nat /\ books.payouts[e][u] \in Nat
    BY <1>4, <2>1, BooksFields
  <2>4. e \notin Cancelled BY DEF Cancelled
  <2> HIDE DEF p
  <2>5. CASE p = from /\ u = t
    <3>1. books'.balance[p][u] = books.balance[p][u] - amount
      BY <1>1, <1>4, <1>6, <2>5
    <3>2. books.balance[p][u] - amount >= books.payouts[e][u] BY <1>3, <2>1, <2>4, <2>5
    <3> QED BY <1>6, <3>1, <3>2 DEF isCovered, p
  <2>6. CASE ~(p = from /\ u = t)
    <3>1. books'.balance[p][u] >= books.balance[p][u]
      <4>1. CASE p = to /\ u = t
        <5>1. books'.balance[p][u] = books.balance[p][u] + amount BY <1>1, <1>4, <1>6, <4>1
        <5> QED BY <1>2, <2>3, <5>1
      <4>2. CASE ~(p = to /\ u = t)
        <5>1. books'.balance[p][u] = books.balance[p][u]
          BY <1>1, <1>4, <1>6, <2>1, <2>6, <4>2
        <5> QED BY <2>3, <5>1
      <4> QED BY <4>1, <4>2
    <3>2. books'.balance[p][u] \in Nat BY <1>5, <2>1, BooksFields
    <3> QED BY <1>6, <2>2, <2>3, <3>1, <3>2 DEF isCovered, p
  <2> QED BY <2>5, <2>6
<1> QED BY <1>10, <1>11

\* Setting payouts, by the owner or an arbitrator.
LEMMA Setting ==
    ASSUME Inv, NEW e \in Expenditures, NEW t \in Tokens,
           NEW D \in SUBSET Slots, NEW amounts \in [D -> Nat],
           canSetExpenditurePayouts(books, e, t, amounts),
           books' = setExpenditurePayouts(books, e, t, amounts),
           UNCHANGED <<expenditureVars, tokenApprovals, tokenVars>>
    PROVE  Inv' /\ StaysReserved
<1>1. Sound(books') /\ books'.balance = books.balance BY Types, SetPayouts
<1>2. \A u \in Tokens : allPots(books', u) = allPots(books, u) BY <1>1 DEF allPots, balances
<1>3. Inv' BY <1>1, <1>2, BooksOnly
<1>4. StaysReserved
  <2> SUFFICES ASSUME NEW d \in Expenditures, NEW u \in Tokens,
                      isCovered(books, d, u), ~isCovered(books', d, u)
               PROVE  books'.payouts[d][u] > books.payouts[d][u]
    BY DEF StaysReserved
  <2>1. books' \in PotBooks /\ potOf(d) \in Pots BY <1>1, PotNumbers DEF Sound
  <2>2. books.payouts[d][u] \in Nat /\ books'.payouts[d][u] \in Nat
        /\ books.balance[potOf(d)][u] \in Nat
    BY <2>1, Types, BooksFields
  <2> QED BY <1>1, <2>2 DEF isCovered
<1> QED BY <1>3, <1>4

\* The payout leaves the pots and the colony alike.
LEMMA Paying ==
    ASSUME Inv, NEW e \in Expenditures, NEW s \in Slots, NEW t \in Tokens,
           ClaimExpenditurePayout(e, s, t)
    PROVE  Inv' /\ StaysReserved
<1> DEFINE payout == tokenPayout(books.slotPayouts[e][s][t], payoutModifier[e][s])
<1>1. /\ canClaimPayout(books, e, s, t, payoutModifier[e][s])
      /\ payout <= held[t]
      /\ books' = claimPayout(books, e, s, t, payoutModifier[e][s])
      /\ held' = [held EXCEPT ![t] = @ - payout]
      /\ UNCHANGED <<expenditureVars, tokenApprovals, allowance>>
  BY DEF ClaimExpenditurePayout
<1>2. payoutModifier[e][s] \in Int BY Types
<1>3. /\ Sound(books') /\ Reserved(books, books') /\ payout \in Nat
      /\ \A u \in Tokens :
           allPots(books', u) = allPots(books, u) + (IF u = t THEN 0 - payout ELSE 0)
  BY <1>1, <1>2, ClaimPayout, Types
<1> HIDE DEF payout
<1>4. held' \in [Tokens -> Nat] /\ held'[t] = held[t] - payout
      /\ held[t] \in Nat /\ \A u \in Tokens \ {t} : held'[u] = held[u]
  BY <1>1, <1>3, Types
<1>5. TypeOK' BY <1>1, <1>3, <1>4 DEF Inv, TypeOK, expenditureVars, Sound
<1>6. PotsBacked'
  <2>1. taken(tokenApprovals, allowance, t) \in Nat BY Types
  <2>2. held'[t] + taken(tokenApprovals', allowance', t)
          = held[t] + taken(tokenApprovals, allowance, t) + (0 - payout)
    BY <1>1, <1>3, <1>4, <2>1
  <2>3. 0 - payout \in Int BY <1>3
  <2>4. /\ books' \in PotBooks /\ tokenApprovals' \in Approved /\ allowance' \in Approved
        /\ \A u \in Tokens \ {t} : taken(tokenApprovals', allowance', u)
                                     = taken(tokenApprovals, allowance, u)
    BY <1>1, <1>3, Types DEF Sound
  <2> QED BY <1>3, <1>4, <2>2, <2>3, <2>4, StillBacked
<1>7. AllowancesRecorded' BY <1>1 DEF Inv, AllowancesRecorded
<1>8. StaysReserved BY <1>3, ReservedStays
<1> QED BY <1>3, <1>5, <1>6, <1>7, <1>8 DEF Inv

-----------------------------------------------------------------------------
(* ColonyExpenditure.sol                                                   *)

\* Expenditures are made, change status and modifiers.
LEMMA Keeping ==
    ASSUME Inv, Expenditure
    PROVE  Inv' /\ StaysReserved
<1> USE Types
<1>1. CASE MakeExpenditure
  <2>1. expenditureCount + 1 \in 0..MaxExpenditures
    BY <1>1, FundingAssumption DEF MakeExpenditure
  <2>2. /\ expenditureCount' = expenditureCount + 1
        /\ status' = status /\ payoutModifier' = payoutModifier
        /\ UNCHANGED <<books, tokenApprovals, tokenVars>>
    BY <1>1 DEF MakeExpenditure
  <2> QED BY <2>1, <2>2, MoneyAlone
<1>2. ASSUME NEW e \in Existing, NEW new \in Statuses, changeStatus(e, new)
      PROVE  Inv' /\ StaysReserved
  <2>1. status' \in [Expenditures -> Statuses] BY <1>2 DEF changeStatus
  <2>2. /\ expenditureCount' = expenditureCount /\ payoutModifier' = payoutModifier
        /\ UNCHANGED <<books, tokenApprovals, tokenVars>>
    BY <1>2 DEF changeStatus
  <2> QED BY <2>1, <2>2, MoneyAlone
<1>3. ASSUME NEW e \in Existing, NEW s \in Slots, NEW modifier \in Modifiers,
             \/ SetExpenditurePayoutModifier(e, s, modifier)
             \/ ArbitratePayoutModifier(e, s, modifier)
      PROVE  Inv' /\ StaysReserved
  <2>1. /\ payoutModifier' = [payoutModifier EXCEPT ![e][s] = modifier]
        /\ expenditureCount' = expenditureCount /\ status' = status
        /\ UNCHANGED <<books, tokenApprovals, tokenVars>>
    BY <1>3 DEF SetExpenditurePayoutModifier, ArbitratePayoutModifier
  <2>2. payoutModifier' \in [Expenditures -> [Slots -> Int]]
    BY <1>3, <2>1, InputsAssumption
  <2> QED BY <2>1, <2>2, MoneyAlone
<1>4. ASSUME NEW e \in Existing,
             CancelExpenditure(e) \/ LockExpenditure(e) \/ FinalizeExpenditure(e)
      PROVE  Inv' /\ StaysReserved
  BY <1>2, <1>4 DEF CancelExpenditure, LockExpenditure, FinalizeExpenditure, Statuses
<1>5. ASSUME NEW e \in Existing, NEW new \in Statuses, ArbitrateStatus(e, new)
      PROVE  Inv' /\ StaysReserved
  BY <1>2, <1>5 DEF ArbitrateStatus
<1> QED BY <1>1, <1>3, <1>4, <1>5 DEF Expenditure

-----------------------------------------------------------------------------
(* Colony.sol and ColonyArbitraryTransaction.sol: the root pot pays.       *)

\* The root pot's balance, less n.
LEMMA RootBalance ==
    ASSUME NEW b \in PotBooks, NEW t \in Tokens, NEW n \in Nat, n <= b.balance[RootPot][t],
           NEW bal, bal = [b.balance EXCEPT ![RootPot][t] = @ - n]
    PROVE  /\ bal \in [Pots -> [Tokens -> Nat]]
           /\ \A c : c.balance = bal => PotChanged(b, c, RootPot, t, 0 - n)
<1>1. b.balance \in [Pots -> [Tokens -> Nat]] /\ RootPot \in Pots BY BooksFields, PotNumbers
<1>2. b.balance[RootPot][t] \in Nat /\ b.balance[RootPot][t] - n \in Nat BY <1>1
<1>3. bal \in [Pots -> [Tokens -> Nat]] BY <1>1, <1>2
<1>4. bal[RootPot][t] = b.balance[RootPot][t] + (0 - n) BY <1>1, <1>2
<1>5. ASSUME NEW q \in Pots, NEW u \in Tokens, <<q, u>> # <<RootPot, t>>
      PROVE  bal[q][u] = b.balance[q][u]
  BY <1>1, <1>5
<1> QED BY <1>3, <1>4, <1>5 DEF PotChanged

\* The root pot pays n of token t, k of it comes out of the total, and the
\* approvals come to m.
paid(b, t, n, k, m) ==
    [b EXCEPT !.balance[RootPot][t]  = @ - n,
              !.nonRewardPotsTotal[t] = @ - k,
              !.tokenApprovalTotals[t] = m]

\* What a call that takes n of token t out of the pots does.
Pays(b, c, t, n) ==
    /\ Sound(c) /\ Reserved(b, c)
    /\ \A u \in Tokens : allPots(c, u) = allPots(b, u) + (IF u = t THEN 0 - n ELSE 0)

\* The books stay sound when the root pot pays.
LEMMA RootBooks ==
    ASSUME NEW b, Sound(b), NEW t \in Tokens, NEW n \in Nat, n <= b.balance[RootPot][t],
           NEW k \in 0..n, k <= b.nonRewardPotsTotal[t], NEW m \in Nat
    PROVE  /\ Sound(paid(b, t, n, k, m)) /\ Reserved(b, paid(b, t, n, k, m))
           /\ \A u \in Tokens :
                allPots(paid(b, t, n, k, m), u) = allPots(b, u) + (IF u = t THEN 0 - n ELSE 0)
<1> DEFINE c == paid(b, t, n, k, m)
           bal == [b.balance EXCEPT ![RootPot][t] = @ - n]
           tot == [b.nonRewardPotsTotal EXCEPT ![t] = @ - k]
           app == [b.tokenApprovalTotals EXCEPT ![t] = m]
<1>1. b \in PotBooks BY DEF Sound
<1>2. c = [b EXCEPT !.balance = bal, !.nonRewardPotsTotal = tot, !.tokenApprovalTotals = app]
  BY Zenon DEF paid
<1>3. /\ tot \in [Tokens -> Nat] /\ app \in [Tokens -> Nat]
      /\ \A u \in Tokens : tot[u] = b.nonRewardPotsTotal[u] - (IF u = t THEN k ELSE 0)
  <2>1. b.nonRewardPotsTotal \in [Tokens -> Nat] /\ b.tokenApprovalTotals \in [Tokens -> Nat]
    BY <1>1, BooksFields
  <2>2. b.nonRewardPotsTotal[t] - k \in Nat BY <2>1
  <2> QED BY <2>1, <2>2
<1>4. /\ bal \in [Pots -> [Tokens -> Nat]]
      /\ \A d : d.balance = bal => PotChanged(b, d, RootPot, t, 0 - n)
  <2> DEFINE x == bal
  <2>1. x = [b.balance EXCEPT ![RootPot][t] = @ - n] OBVIOUS
  <2> HIDE DEF x
  <2>2. /\ x \in [Pots -> [Tokens -> Nat]]
        /\ \A d : d.balance = x => PotChanged(b, d, RootPot, t, 0 - n)
    BY <1>1, <2>1, RootBalance
  <2> QED BY <2>2 DEF x
<1> HIDE DEF bal, tot, app, c
<1>5. /\ c \in PotBooks
      /\ c.balance = bal /\ c.nonRewardPotsTotal = tot
      /\ c.payouts = b.payouts /\ c.slotPayouts = b.slotPayouts
      /\ c.payoutsWeCannotMake = b.payoutsWeCannotMake
  <2> DEFINE d == [b EXCEPT !.balance = bal, !.nonRewardPotsTotal = tot,
                            !.tokenApprovalTotals = app]
  <2>1. /\ d \in PotBooks
        /\ d.balance = bal /\ d.nonRewardPotsTotal = tot
        /\ d.payouts = b.payouts /\ d.slotPayouts = b.slotPayouts
        /\ d.payoutsWeCannotMake = b.payoutsWeCannotMake
    BY <1>1, <1>3, <1>4 DEF PotBooks
  <2>2. c = d BY <1>2
  <2> HIDE DEF d
  <2> QED BY <2>1, <2>2
<1>6. PotChanged(b, c, RootPot, t, 0 - n) BY <1>4, <1>5
<1>7. \A u \in Tokens :
        c.nonRewardPotsTotal[u] = b.nonRewardPotsTotal[u] - (IF u = t THEN k ELSE 0)
  BY <1>3, <1>5
<1>8. /\ Sound(c) /\ Reserved(b, c)
      /\ \A u \in Tokens : allPots(c, u) = allPots(b, u) + (IF u = t THEN 0 - n ELSE 0)
  BY <1>5, <1>6, <1>7, RootPays
<1> QED BY <1>8 DEF c

\* The call and what the colony owns: n leaves the pot, o the colony.
LEMMA RootSpends ==
    ASSUME Inv, NEW t \in Tokens, NEW n \in Nat, NEW o \in 0..n, o <= held[t],
           Sound(books'), Reserved(books, books'),
           \A u \in Tokens : allPots(books', u) = allPots(books, u) + (IF u = t THEN 0 - n ELSE 0),
           held' = [held EXCEPT ![t] = @ - o],
           UNCHANGED <<expenditureVars, tokenApprovals, allowance>>
    PROVE  Inv' /\ StaysReserved
<1>1. /\ held' \in [Tokens -> Nat] /\ held'[t] = held[t] - o
      /\ held[t] \in Nat /\ \A u \in Tokens \ {t} : held'[u] = held[u]
  BY Types
<1>2. TypeOK' BY <1>1 DEF Inv, TypeOK, expenditureVars, Sound
<1>3. PotsBacked'
  <2>1. taken(tokenApprovals, allowance, t) \in Nat BY Types
  <2>2. held'[t] + taken(tokenApprovals', allowance', t)
          = held[t] + taken(tokenApprovals, allowance, t) + (0 - o)
    BY <1>1, <2>1
  <2>3. 0 - n \in Int /\ 0 - o \in Int /\ 0 - n <= 0 - o OBVIOUS
  <2>4. /\ books' \in PotBooks /\ tokenApprovals' \in Approved /\ allowance' \in Approved
        /\ \A u \in Tokens \ {t} : taken(tokenApprovals', allowance', u)
                                     = taken(tokenApprovals, allowance, u)
    BY Types DEF Sound
  <2> QED BY <1>1, <2>2, <2>3, <2>4, StillBacked
<1>4. AllowancesRecorded' BY DEF Inv, AllowancesRecorded
<1>5. StaysReserved BY ReservedStays
<1> QED BY <1>2, <1>3, <1>4, <1>5 DEF Inv

\* Books whose totals of approvals are written as they were.
LEMMA SameApprovals ==
    ASSUME NEW b \in PotBooks, NEW t \in Tokens
    PROVE  /\ b.tokenApprovalTotals[t] \in Nat
           /\ \A n : [b EXCEPT !.balance[RootPot][t] = @ - n]
                     = paid(b, t, n, 0, b.tokenApprovalTotals[t])
<1>1. b.tokenApprovalTotals \in [Tokens -> Nat] /\ b.nonRewardPotsTotal \in [Tokens -> Nat]
  BY BooksFields
<1>2. /\ [b.tokenApprovalTotals EXCEPT ![t] = b.tokenApprovalTotals[t]] = b.tokenApprovalTotals
      /\ [b.nonRewardPotsTotal EXCEPT ![t] = @ - 0] = b.nonRewardPotsTotal
  BY <1>1
<1> QED BY <1>1, <1>2 DEF PotBooks, paid

\* Burning and transferring; a call that fails only costs the pot.
LEMMA Burning ==
    ASSUME Inv, NEW t \in Tokens, NEW amount \in Amounts, NEW ok \in BOOLEAN,
           BurnTokens(t, amount) \/ BurnOrTransfer(t, amount, ok)
    PROVE  Inv' /\ StaysReserved
<1>1. amount \in Nat BY InputsAssumption
<1>2. /\ amount <= books.balance[RootPot][t]
      /\ books' = [books EXCEPT !.balance[RootPot][t] = @ - amount]
      /\ UNCHANGED <<expenditureVars, tokenApprovals, allowance>>
  BY DEF BurnTokens, BurnOrTransfer
<1>3. /\ Sound(books') /\ Reserved(books, books')
      /\ \A u \in Tokens :
           allPots(books', u) = allPots(books, u) + (IF u = t THEN 0 - amount ELSE 0)
  <2>1. 0 \in 0..amount /\ 0 <= books.nonRewardPotsTotal[t]
    <3>1. books.nonRewardPotsTotal[t] \in Nat BY Types, BooksFields
    <3> QED BY <1>1, <3>1
  <2> DEFINE m == books.tokenApprovalTotals[t]
  <2>2. m \in Nat /\ books' = paid(books, t, amount, 0, m)
    BY <1>2, Types, SameApprovals
  <2>3. Sound(books) BY Types
  <2> HIDE DEF m
  <2> QED BY <1>1, <1>2, <2>1, <2>2, <2>3, RootBooks
<1>4. PICK o \in 0..amount : o <= held[t] /\ held' = [held EXCEPT ![t] = @ - o]
  <2>1. held \in [Tokens -> Nat] BY Types
  <2>2. CASE held' = [held EXCEPT ![t] = @ - amount] /\ amount <= held[t]
    <3>1. amount \in 0..amount BY <1>1
    <3> QED BY <2>2, <3>1
  <2>3. CASE held' = held
    <3>1. held[t] - 0 = held[t] /\ 0 <= held[t] /\ 0 \in 0..amount BY <1>1, <2>1
    <3>2. held' = [held EXCEPT ![t] = held[t] - 0] BY <2>1, <2>3, <3>1
    <3> QED BY <3>1, <3>2
  <2> QED BY <2>2, <2>3 DEF BurnTokens, BurnOrTransfer
<1> QED BY <1>1, <1>2, <1>3, <1>4, RootSpends

\* Bootstrapping pays from the pot, the total and the colony.
LEMMA Bootstrapping ==
    ASSUME Inv, NEW amount \in Amounts, BootstrapColony(amount)
    PROVE  Inv' /\ StaysReserved
<1>1. amount \in Nat /\ amount \in 0..amount /\ OwnToken \in Tokens BY InputsAssumption
<1>2. /\ amount <= books.balance[RootPot][OwnToken]
      /\ amount <= books.nonRewardPotsTotal[OwnToken]
      /\ amount <= held[OwnToken]
      /\ books' = [books EXCEPT !.balance[RootPot][OwnToken]  = @ - amount,
                                !.nonRewardPotsTotal[OwnToken] = @ - amount]
      /\ held' = [held EXCEPT ![OwnToken] = @ - amount]
      /\ UNCHANGED <<expenditureVars, tokenApprovals, allowance>>
  BY DEF BootstrapColony
<1>3. /\ Sound(books') /\ Reserved(books, books')
      /\ \A u \in Tokens :
           allPots(books', u) = allPots(books, u) + (IF u = OwnToken THEN 0 - amount ELSE 0)
  <2> DEFINE m == books.tokenApprovalTotals[OwnToken]
  <2>1. m \in Nat /\ books' = paid(books, OwnToken, amount, amount, m)
    <3>1. books \in PotBooks BY Types
    <3>2. m \in Nat BY <1>1, <3>1, SameApprovals
    <3>3. [books EXCEPT !.balance[RootPot][OwnToken] = @ - amount,
                        !.nonRewardPotsTotal[OwnToken] = @ - amount]
            = paid(books, OwnToken, amount, amount, m)
      <4>1. books.tokenApprovalTotals \in [Tokens -> Nat] BY <3>1, BooksFields
      <4>2. [books.tokenApprovalTotals EXCEPT ![OwnToken] = m] = books.tokenApprovalTotals
        BY <4>1 DEF m
      <4> HIDE DEF m
      <4> QED BY <3>1, <4>2 DEF PotBooks, paid
    <3> QED BY <1>2, <3>2, <3>3
  <2>2. Sound(books) BY Types
  <2> HIDE DEF m
  <2> QED BY <1>1, <1>2, <2>1, <2>2, RootBooks
<1> QED BY <1>1, <1>2, <1>3, RootSpends

\* Bringing one approval up to date, whatever was recorded of it.
LEMMA ApprovalBooks ==
    ASSUME NEW b, Sound(b), NEW t \in Tokens, NEW recorded \in Nat, NEW actual \in Nat
    PROVE  /\ canUpdateApproval(b, recorded, actual, t, FALSE) /\ actual <= recorded
                => Pays(b, updateApproval(b, recorded, actual, t, FALSE), t, recorded - actual)
           /\ canUpdateApproval(b, recorded, actual, t, TRUE)
                => Pays(b, updateApproval(b, recorded, actual, t, TRUE), t, 0)
<1> DEFINE m == b.tokenApprovalTotals[t] - recorded + actual
           booked(n) == [b EXCEPT !.balance[RootPot][t] = @ - n,
                                  !.tokenApprovalTotals[t] = @ - recorded + actual]
<1>1. /\ b \in PotBooks
      /\ b.tokenApprovalTotals \in [Tokens -> Nat] /\ b.nonRewardPotsTotal \in [Tokens -> Nat]
  BY BooksFields DEF Sound
<1>2. b.balance[RootPot][t] \in Nat BY <1>1, BooksFields, PotNumbers
<1>3. ASSUME NEW n \in Nat, n <= b.balance[RootPot][t],
             recorded # actual => recorded <= b.tokenApprovalTotals[t]
      PROVE  Pays(b, booked(n), t, n)
  <2>1. m \in Nat BY <1>1, <1>3
  <2>2. booked(n) = paid(b, t, n, 0, m)
    <3>1. [b.nonRewardPotsTotal EXCEPT ![t] = @ - 0] = b.nonRewardPotsTotal BY <1>1
    <3> QED BY <1>1, <3>1 DEF PotBooks, paid
  <2>3. 0 \in 0..n /\ 0 <= b.nonRewardPotsTotal[t]
    <3>1. b.nonRewardPotsTotal[t] \in Nat BY <1>1
    <3> QED BY <1>3, <3>1
  <2>4. Pays(b, paid(b, t, n, 0, m), t, n)
    <3> HIDE DEF m
    <3> QED BY <1>3, <2>1, <2>3, RootBooks DEF Pays
  <2> HIDE DEF m, booked
  <2> QED BY <2>2, <2>4
<1>4. ASSUME canUpdateApproval(b, recorded, actual, t, FALSE), actual <= recorded
      PROVE  Pays(b, updateApproval(b, recorded, actual, t, FALSE), t, recorded - actual)
  <2> DEFINE n == recorded - actual
  <2>1. n \in Nat /\ n <= b.balance[RootPot][t]
        /\ (recorded # actual => recorded <= b.tokenApprovalTotals[t])
    BY <1>2, <1>4 DEF canUpdateApproval
  <2>2. (IF recorded > actual /\ ~FALSE THEN recorded - actual ELSE 0) = n BY <1>4
  <2>3. updateApproval(b, recorded, actual, t, FALSE) = booked(n)
    <3> HIDE DEF n
    <3> QED BY <2>2 DEF updateApproval
  <2> HIDE DEF n, booked
  <2>4. Pays(b, booked(n), t, n) BY <1>3, <2>1
  <2> QED BY <2>3, <2>4 DEF n
<1>5. ASSUME canUpdateApproval(b, recorded, actual, t, TRUE)
      PROVE  Pays(b, updateApproval(b, recorded, actual, t, TRUE), t, 0)
  <2>1. recorded # actual => recorded <= b.tokenApprovalTotals[t]
    BY <1>5 DEF canUpdateApproval
  <2>2. updateApproval(b, recorded, actual, t, TRUE) = booked(0) BY DEF updateApproval
  <2> HIDE DEF booked
  <2>3. Pays(b, booked(0), t, 0) BY <1>2, <1>3, <2>1
  <2> QED BY <2>2, <2>3
<1> QED BY <1>4, <1>5

\* Two calls that uncover nothing uncover nothing.
LEMMA ReservedTwice ==
    ASSUME NEW b, NEW c, NEW d, Reserved(b, c), Reserved(c, d) PROVE Reserved(b, d)
BY DEF Reserved

\* One approval becomes v, and what was taken of it is booked.
LEMMA Recording ==
    ASSUME Inv, NEW t \in Tokens, NEW a \in Spenders, NEW v \in Nat,
           Sound(books'), Reserved(books, books'),
           \A u \in Tokens :
              allPots(books', u) = allPots(books, u)
                + (IF u = t THEN 0 - (tokenApprovals[t][a] - allowance[t][a]) ELSE 0),
           tokenApprovals' = [tokenApprovals EXCEPT ![t][a] = v],
           allowance' = [allowance EXCEPT ![t][a] = v],
           UNCHANGED <<expenditureVars, held>>
    PROVE  Inv' /\ StaysReserved
<1> DEFINE x == tokenApprovals
           y == allowance
           d == 0 - (x[t][a] - y[t][a])
<1>1. /\ x \in Approved /\ y \in Approved
      /\ x[t][a] \in Nat /\ y[t][a] \in Nat /\ y[t][a] <= x[t][a]
  BY Types DEF Inv, AllowancesRecorded, Approved
<1>2. /\ x' \in Approved /\ Approval(x, x', t, a, v)
      /\ y' \in Approved /\ Approval(y, y', t, a, v)
  <2>1. x' = [x EXCEPT ![t][a] = v] /\ y' = [y EXCEPT ![t][a] = v] OBVIOUS
  <2> HIDE DEF x, y
  <2> QED BY <1>1, <2>1, ApprovalChange
<1>3. /\ taken(x', y', t) = taken(x, y, t) - (x[t][a] - y[t][a]) + (v - v)
      /\ \A u \in Tokens \ {t} : taken(x', y', u) = taken(x, y, u)
  <2>1. v <= v OBVIOUS
  <2> HIDE DEF x, y
  <2> QED BY <1>1, <1>2, <2>1, TakenChange
<1>4. TypeOK' BY <1>2 DEF Inv, TypeOK, Approved, expenditureVars, Sound
<1>5. PotsBacked'
  <2>1. taken(x, y, t) \in Nat /\ held[t] \in Nat BY Types
  <2>2. d \in Int /\ d <= d BY <1>1
  <2>3. held'[t] + taken(x', y', t) = held[t] + taken(x, y, t) + d
    <3> HIDE DEF x, y
    <3> QED BY <1>1, <1>3, <2>1
  <2>4. /\ books' \in PotBooks /\ held' \in [Tokens -> Nat]
        /\ \A u \in Tokens \ {t} : held'[u] = held[u]
    BY Types DEF Sound
  <2>5. \A u \in Tokens : allPots(books', u) = allPots(books, u) + (IF u = t THEN d ELSE 0)
    OBVIOUS
  <2> HIDE DEF d
  <2> QED BY <1>2, <1>3, <2>2, <2>3, <2>4, <2>5, StillBacked
<1>6. AllowancesRecorded'
  <2> SUFFICES ASSUME NEW u \in Tokens, NEW s \in Spenders PROVE y'[u][s] <= x'[u][s]
    BY DEF AllowancesRecorded
  <2>1. y[u][s] <= x[u][s] BY DEF Inv, AllowancesRecorded
  <2>2. CASE u = t /\ s = a BY <1>2, <2>2 DEF Approval
  <2>3. CASE ~(u = t /\ s = a)
    <3>1. y'[u][s] = y[u][s] /\ x'[u][s] = x[u][s]
      <4> HIDE DEF x, y
      <4> QED BY <1>2, <2>3 DEF Approval
    <3> QED BY <2>1, <3>1
  <2> QED BY <2>2, <2>3
<1>7. StaysReserved BY ReservedStays
<1> QED BY <1>4, <1>5, <1>6, <1>7 DEF Inv

\* updateApprovalAmount books what a spender took.
LEMMA Updating ==
    ASSUME Inv, NEW t \in Tokens, NEW a \in Spenders, UpdateApprovalAmount(t, a)
    PROVE  Inv' /\ StaysReserved
<1> DEFINE x == tokenApprovals[t][a]
           y == allowance[t][a]
<1>1. x \in Nat /\ y \in Nat /\ y <= x
  BY Types DEF Inv, AllowancesRecorded, Approved
<1>2. /\ x # y
      /\ canUpdateApproval(books, x, y, t, FALSE)
      /\ books' = updateApproval(books, x, y, t, FALSE)
      /\ tokenApprovals' = [tokenApprovals EXCEPT ![t][a] = y]
      /\ UNCHANGED <<expenditureVars, tokenVars>>
  BY DEF UpdateApprovalAmount
<1>3. allowance' = [allowance EXCEPT ![t][a] = y] /\ held' = held
  BY <1>2, Types DEF tokenVars, Approved
<1>4. /\ Sound(books') /\ Reserved(books, books')
      /\ \A u \in Tokens :
           allPots(books', u) = allPots(books, u) + (IF u = t THEN 0 - (x - y) ELSE 0)
  <2>1. Sound(books) BY Types
  <2> HIDE DEF x, y
  <2>2. Pays(books, books', t, x - y) BY <1>1, <1>2, <2>1, ApprovalBooks
  <2> QED BY <2>2 DEF Pays
<1>5. UNCHANGED expenditureVars BY <1>2
<1> QED BY <1>1, <1>2, <1>3, <1>4, <1>5, Recording

\* approve books what was taken before it approves anew.
LEMMA Approving ==
    ASSUME Inv, NEW t \in Tokens, NEW a \in Spenders, NEW amount \in Approvals,
           NEW ok \in BOOLEAN, Approve(t, a, amount, ok)
    PROVE  Inv' /\ StaysReserved
<1> DEFINE x == tokenApprovals[t][a]
           y == allowance[t][a]
           v == IF ok THEN amount ELSE y
           synced == updateApproval(books, x, y, t, FALSE)
<1>1. x \in Nat /\ y \in Nat /\ y <= x /\ v \in Nat
  BY Types, InputsAssumption DEF Inv, AllowancesRecorded, Approved
<1>2. /\ canUpdateApproval(books, x, y, t, FALSE)
      /\ canUpdateApproval(synced, y, v, t, TRUE)
      /\ books' = updateApproval(synced, y, v, t, TRUE)
      /\ allowance' = [allowance EXCEPT ![t][a] = v]
      /\ tokenApprovals' = [tokenApprovals EXCEPT ![t][a] = v]
      /\ UNCHANGED <<expenditureVars, held>>
  BY DEF Approve
<1>3. /\ Sound(synced) /\ Reserved(books, synced)
      /\ \A u \in Tokens :
           allPots(synced, u) = allPots(books, u) + (IF u = t THEN 0 - (x - y) ELSE 0)
  <2>1. Sound(books) BY Types
  <2> HIDE DEF x, y
  <2>2. Pays(books, synced, t, x - y) BY <1>1, <1>2, <2>1, ApprovalBooks
  <2> QED BY <2>2 DEF Pays
<1>4. /\ Sound(books') /\ Reserved(synced, books')
      /\ \A u \in Tokens : allPots(books', u) = allPots(synced, u)
  <2> HIDE DEF x, y, v, synced
  <2>1. Pays(synced, books', t, 0) BY <1>1, <1>2, <1>3, ApprovalBooks
  <2>2. \A u \in Tokens : allPots(synced, u) \in Nat BY <1>3, BalancesType DEF Sound
  <2> QED BY <2>1, <2>2 DEF Pays
<1>5. Reserved(books, books')
  <2> HIDE DEF synced
  <2> QED BY <1>3, <1>4, ReservedTwice
<1> HIDE DEF synced, v
<1>6. \A u \in Tokens :
         allPots(books', u) = allPots(books, u)
           + (IF u = t THEN 0 - (tokenApprovals[t][a] - allowance[t][a]) ELSE 0)
  BY <1>3, <1>4
<1>7. /\ v \in Nat /\ allowance' = [allowance EXCEPT ![t][a] = v]
      /\ tokenApprovals' = [tokenApprovals EXCEPT ![t][a] = v]
      /\ UNCHANGED <<expenditureVars, held>>
  BY <1>1, <1>2
<1>8. Sound(books') BY <1>4
<1> QED BY <1>5, <1>6, <1>7, <1>8, Recording

-----------------------------------------------------------------------------
(* The theorems.                                                           *)

\* An empty colony has empty books.
LEMMA Beginning == ASSUME Init PROVE Inv
<1>1. TypeOK BY FundingAssumption DEF Init, TypeOK, PotBooks, EmptyPots, Statuses
<1>2. books \in PotBooks /\ books = EmptyPots BY <1>1 DEF TypeOK, Init
<1>3. \A e \in Expenditures : Short(books, e) = {}
  BY <1>2, PotNumbers DEF EmptyPots, Short, isCovered
<1>4. Counted(books) BY <1>2, <1>3, FS_EmptySet DEF Counted, EmptyPots
<1>6. Summed(books)
  <2> SUFFICES ASSUME NEW e \in Expenditures, NEW t \in Tokens
               PROVE  books.payouts[e][t] = slotTotal(books, e, t, Slots)
    BY DEF Summed
  <2> DEFINE f == [s \in Slots |-> books.slotPayouts[e][s][t]]
  <2>1. \A s \in Slots : f[s] = 0 BY <1>2 DEF EmptyPots
  <2>2. SumFunctionOnSet(f, Slots) = 0
    <3> HIDE DEF f
    <3> QED BY <2>1, FundingAssumption, SumZero
  <2>3. books.payouts[e][t] = 0 BY <1>2 DEF EmptyPots
  <2> QED BY <2>2, <2>3 DEF slotTotal
<1>7. \A t \in Tokens : allPots(books, t) = 0 /\ otherPots(books, t) = 0
  <2> TAKE t \in Tokens
  <2> DEFINE f == balances(books, t)
  <2>1. \A p \in Pots : f[p] = 0 BY <1>2 DEF EmptyPots, balances
  <2> HIDE DEF f
  <2>2. SumFunctionOnSet(f, Pots) = 0 /\ SumFunctionOnSet(f, Pots \ {RewardsPot}) = 0
    BY <2>1, FinitePots, SumZero
  <2> QED BY <2>2 DEF f, allPots, otherPots
<1>8. InTotals(books)
  <2>1. \A t \in Tokens : books.nonRewardPotsTotal[t] = 0 BY <1>2 DEF EmptyPots
  <2> QED BY <1>7, <2>1 DEF InTotals
<1>9. AllowancesRecorded BY DEF Init, AllowancesRecorded
<1>10. PotsBacked
  <2>1. \A t \in Tokens : /\ taken(tokenApprovals, allowance, t) \in Nat
                          /\ held[t] \in Nat
    BY <1>1, TakenType DEF TypeOK, Approved
  <2>2. \A t \in Tokens : allPots(books, t) <= held[t] + taken(tokenApprovals, allowance, t)
    BY <1>7, <2>1
  <2> QED BY <2>2, Backing
<1> QED BY <1>1, <1>2, <1>4, <1>6, <1>8, <1>9, <1>10 DEF Inv, Sound

\* Every action keeps the invariant and what is reserved.
LEMMA Step == ASSUME Inv, Next PROVE Inv' /\ StaysReserved
<1>1. CASE World BY <1>1, Receiving, Spending DEF World, ERC20s
<1>2. CASE Funding
  <2>1. ASSUME NEW t \in Tokens, NEW e \in Existing, NEW amounts \in SlotAmounts(t),
               SetExpenditurePayouts(e, t, amounts)
        PROVE  Inv' /\ StaysReserved
    <3>1. MaxPayout[t] \in Nat /\ e \in Expenditures BY InputsAssumption, Types
    <3>2. PICK D \in SUBSET Slots : amounts \in [D -> 0..MaxPayout[t]] BY DEF SlotAmounts
    <3>3. amounts \in [D -> Nat] BY <3>1, <3>2
    <3> QED BY <2>1, <3>1, <3>3, Setting DEF SetExpenditurePayouts
  <2>2. ASSUME NEW t \in Tokens, NEW e \in Existing, NEW s \in Slots,
               NEW amount \in 0..MaxPayout[t], ArbitrateExpenditurePayout(e, s, t, amount)
        PROVE  Inv' /\ StaysReserved
    <3> DEFINE amounts == [x \in {s} |-> amount]
    <3>1. MaxPayout[t] \in Nat /\ e \in Expenditures BY InputsAssumption, Types
    <3>2. {s} \in SUBSET Slots /\ amounts \in [{s} -> Nat] BY <3>1
    <3>3. /\ canSetExpenditurePayouts(books, e, t, amounts)
          /\ books' = setExpenditurePayouts(books, e, t, amounts)
          /\ UNCHANGED <<expenditureVars, tokenApprovals, tokenVars>>
      BY <2>2 DEF ArbitrateExpenditurePayout
    <3> HIDE DEF amounts
    <3> QED BY <3>1, <3>2, <3>3, Setting
  <2>3. ASSUME NEW t \in Tokens, NEW e \in Existing, NEW s \in Slots,
               ClaimExpenditurePayout(e, s, t)
        PROVE  Inv' /\ StaysReserved
    <3>1. e \in Expenditures BY Types
    <3> QED BY <2>3, <3>1, Paying
  <2> QED BY <1>2, <2>1, <2>2, <2>3, Claiming, Moving DEF Funding
<1>3. CASE Expenditure BY <1>3, Keeping
<1>4. CASE Root
  <2>1. ASSUME NEW t \in ERC20s PROVE t \in Tokens BY DEF ERC20s
  <2>2. TRUE \in BOOLEAN OBVIOUS
  <2> QED BY <1>4, <2>1, <2>2, Bootstrapping, Burning, Updating, Approving DEF Root
<1> QED BY <1>1, <1>2, <1>3, <1>4 DEF Next

\* So does a step that changes nothing.
LEMMA Stutter == ASSUME Inv, UNCHANGED vars PROVE Inv' /\ StaysReserved
<1>1. /\ UNCHANGED <<books, tokenApprovals, tokenVars>>
      /\ expenditureCount' = expenditureCount /\ status' = status
      /\ payoutModifier' = payoutModifier
  BY DEF vars, expenditureVars
<1> QED BY <1>1, Types, MoneyAlone

\* Every call of the contracts, every token that arrives and every spender
\* that spends keeps the invariant.
THEOREM FundingInvariance == Spec => []Inv
<1>1. Inv /\ [Next]_vars => Inv' BY Step, Stutter
<1> QED BY <1>1, Beginning, PTL DEF Spec

\* What the contracts keep twice agrees forever: payoutsWeCannotMake is the
\* number of tokens an expenditure is short of, and its payouts are the sum of
\* its slots'.
THEOREM BooksAgree == Spec => []BooksConsistent
BY FundingInvariance, Parts, PTL

\* claimColonyFunds never takes tokens of the pots for new ones: the total
\* outside the rewards pot is at least what those pots hold.
THEOREM NothingClaimedTwice == Spec => []NoDoubleClaim
BY FundingInvariance, Parts, PTL

\* The pots never promise more than the colony owns and what its spenders
\* took unbooked, whatever is paid, refunded, burned or approved in between.
THEOREM PotsAreBacked == Spec => []PotsBacked
<1>1. Inv => PotsBacked BY DEF Inv
<1> QED BY <1>1, FundingInvariance, PTL

\* Short of cancelling, only a greater payout leaves a funded expenditure
\* short of a token; FinalizeExpenditure relies on it.
THEOREM FundedStaysFunded == Spec => FundsStayReserved
<1>1. Inv /\ [Next]_vars => [StaysReserved]_vars BY Step
<1>2. [][StaysReserved]_vars => FundsStayReserved BY PTL DEF FundsStayReserved, StaysReserved
<1> QED BY <1>1, <1>2, FundingInvariance, PTL DEF Spec
=============================================================================
