----------------------------- MODULE FundingPots -----------------------------
(***************************************************************************)
(* The books of a colony's funding pots (ColonyFunding.sol): how much of   *)
(* each token every pot holds, what each expenditure has promised to its   *)
(* slots, and the counters the contract keeps beside them.                 *)
(*                                                                         *)
(* As in TokenLedger a call is a pair of operators on a books value b:     *)
(* canX(b, ...) says that it does not revert (a checked subtraction of     *)
(* Solidity 0.8 is one of its conjuncts) and X(b, ...) is what it leaves.  *)
(* The books leave the chain's token balances to ColonyFunding.            *)
(***************************************************************************)
EXTENDS Integers, FiniteSetsExt

CONSTANTS
    Tokens,
    MaxExpenditures,   \* how many expenditures a colony makes
    Slots,             \* the recipient slots of an expenditure
    Wad,               \* fixed-point one: 10^18 in the code
    RewardInverse      \* one in RewardInverse claimed tokens is kept for rewards

ASSUME FundingAssumption ==
    /\ MaxExpenditures \in Nat
    /\ IsFiniteSet(Tokens) /\ IsFiniteSet(Slots)
    /\ Wad \in Nat \ {0}
    /\ RewardInverse \in Nat \ {0}

Expenditures == 1..MaxExpenditures

RewardsPot == 0

RootPot == 1

\* The rewards pot and the root domain's pot exist from the start, so the
\* pot of expenditure e is the e-th after them.
potOf(e) == e + 1

Pots == 0..(MaxExpenditures + 1)

expenditureOf(p) == p - 1

isExpenditurePot(p) == p > RootPot

PotBooks ==
    [balance               : [Pots -> [Tokens -> Nat]],
     payouts               : [Expenditures -> [Tokens -> Nat]],
     payoutsWeCannotMake   : [Expenditures -> Nat],
     slotPayouts           : [Expenditures -> [Slots -> [Tokens -> Nat]]],
     nonRewardPotsTotal    : [Tokens -> Nat],
     tokenApprovalTotals   : [Tokens -> Nat]]

EmptyPots ==
    LET none == [t \in Tokens |-> 0]
    IN  [balance             |-> [p \in Pots |-> none],
         payouts             |-> [e \in Expenditures |-> none],
         payoutsWeCannotMake |-> [e \in Expenditures |-> 0],
         slotPayouts         |-> [e \in Expenditures |-> [s \in Slots |-> none]],
         nonRewardPotsTotal  |-> none,
         tokenApprovalTotals |-> none]

-----------------------------------------------------------------------------
(* payoutsWeCannotMake counts the tokens in which an expenditure is short. *)

\* One budget covered before and not now is one more payout we cannot make,
\* one uncovered before and covered now is one less.
recount(b, e, before, now) ==
    CASE before /\ ~now -> [b EXCEPT !.payoutsWeCannotMake[e] = @ + 1]
      [] ~before /\ now -> [b EXCEPT !.payoutsWeCannotMake[e] = @ - 1]
      [] OTHER          -> b

isCovered(b, e, t) == b.balance[potOf(e)][t] >= b.payouts[e][t]

updatePayoutsWeCannotMakeAfterPotChange(b, p, t, prev) ==
    LET e == expenditureOf(p)
    IN  IF isExpenditurePot(p)
        THEN recount(b, e, prev >= b.payouts[e][t], isCovered(b, e, t))
        ELSE b

\* Mutant: the old budget is read after the new one was written.
updatePayoutsWeCannotMakeAfterBudgetChange_Late(b, e, t, prev) ==
    recount(b, e, isCovered(b, e, t), isCovered(b, e, t))

updatePayoutsWeCannotMakeAfterBudgetChange(b, e, t, prev) ==
    recount(b, e, b.balance[potOf(e)][t] >= prev, isCovered(b, e, t))

-----------------------------------------------------------------------------
(* moveFundsBetweenPots: the functionality, below its permission checks.   *)

\* Mutant: the pot of an expenditure is like any other.
canMoveFunds_AnyPot(b, cancelled, from, to, amount, t) ==
    /\ amount <= b.balance[from][t]
    /\ from = RootPot => b.balance[from][t] - amount >= b.tokenApprovalTotals[t]
    /\ to = RewardsPot => amount <= b.nonRewardPotsTotal[t]

\* cancelled is the set of cancelled expenditures: they may be emptied.
canMoveFunds(b, cancelled, from, to, amount, t) ==
    /\ amount <= b.balance[from][t]
    /\ from = RootPot => b.balance[from][t] - amount >= b.tokenApprovalTotals[t]
    /\ isExpenditurePot(from) =>
         \/ expenditureOf(from) \in cancelled
         \/ b.balance[from][t] - amount >= b.payouts[expenditureOf(from)][t]
    /\ to = RewardsPot => amount <= b.nonRewardPotsTotal[t]

moveFunds(b, from, to, amount, t) ==
    LET moved == [b EXCEPT !.balance[from][t] = @ - amount,
                           !.balance[to][t]   = @ + amount]
        less  == updatePayoutsWeCannotMakeAfterPotChange(moved, from, t, b.balance[from][t])
        more  == updatePayoutsWeCannotMakeAfterPotChange(less, to, t, b.balance[to][t])
    IN  [more EXCEPT !.nonRewardPotsTotal[t] = @ - (IF to = RewardsPot THEN amount ELSE 0)]

-----------------------------------------------------------------------------
(* claimColonyFunds: new tokens become the root pot's, less the rewards.   *)

\* Mutant: the rewards pot is taken to be part of the total.
unclaimed_WithRewards(b, held, t) == held - b.nonRewardPotsTotal[t]

\* Negative where the code's checked subtractions revert.
unclaimed(b, held, t) == held - b.nonRewardPotsTotal[t] - b.balance[RewardsPot][t]

\* Mutant: what is claimed is not added to the total.
claimFunds_Uncounted(b, held, t) ==
    LET toClaim  == unclaimed(b, held, t)
        feeToPay == toClaim \div RewardInverse
    IN  [b EXCEPT !.balance[RootPot][t]    = @ + (toClaim - feeToPay),
                  !.balance[RewardsPot][t] = @ + feeToPay]

claimFunds(b, held, t) ==
    LET toClaim  == unclaimed(b, held, t)
        feeToPay == toClaim \div RewardInverse
    IN  [b EXCEPT !.nonRewardPotsTotal[t]  = @ + (toClaim - feeToPay),
                  !.balance[RootPot][t]    = @ + (toClaim - feeToPay),
                  !.balance[RewardsPot][t] = @ + feeToPay]

-----------------------------------------------------------------------------
(* setExpenditurePayouts: amounts is a function from some of the slots.    *)

slotTotal(b, e, t, slots) == SumFunctionOnSet([s \in Slots |-> b.slotPayouts[e][s][t]], slots)

\* The loop subtracts each slot's old payout before it adds the new one.
canSetExpenditurePayouts(b, e, t, amounts) ==
    slotTotal(b, e, t, DOMAIN amounts) <= b.payouts[e][t]

setExpenditurePayouts(b, e, t, amounts) ==
    LET set == [b EXCEPT
            !.slotPayouts[e] = [s \in Slots |->
                IF s \in DOMAIN amounts THEN [@[s] EXCEPT ![t] = amounts[s]] ELSE @[s]],
            !.payouts[e][t] = @ - slotTotal(b, e, t, DOMAIN amounts) + SumFunction(amounts)]
    IN  updatePayoutsWeCannotMakeAfterBudgetChange(set, e, t, b.payouts[e][t])

-----------------------------------------------------------------------------
(* claimExpenditurePayout: pays one slot in one token.                     *)

lesser(x, y) == IF x <= y THEN x ELSE y

greater(x, y) == IF x >= y THEN x ELSE y

\* DSMath rounds to the nearest.
wmul(x, y) == (x * y + Wad \div 2) \div Wad

\* A positive modifier earns reputation but no more tokens.
tokenPayout(initial, modifier) ==
    lesser(initial, wmul(initial, lesser(greater(modifier, -Wad), Wad) + Wad))

\* What the pot holds beyond its payouts goes back to the domain's pot.
refundDomain(b, e, t) ==
    LET surplus == b.balance[potOf(e)][t] - b.payouts[e][t]
    IN  IF surplus > 0 THEN moveFunds(b, potOf(e), RootPot, surplus, t) ELSE b

processPayout(b, e, t, payout) ==
    [refundDomain(b, e, t) EXCEPT
        !.balance[potOf(e)][t]  = @ - payout,
        !.payouts[e][t]         = @ - payout,
        !.nonRewardPotsTotal[t] = @ - payout]

canClaimPayout(b, e, s, t, modifier) ==
    /\ isCovered(b, e, t)
    /\ b.slotPayouts[e][s][t] <= b.payouts[e][t]
    /\ tokenPayout(b.slotPayouts[e][s][t], modifier) <= b.nonRewardPotsTotal[t]

claimPayout(b, e, s, t, modifier) ==
    LET initial == b.slotPayouts[e][s][t]
        payout  == tokenPayout(initial, modifier)
    IN  processPayout([b EXCEPT !.slotPayouts[e][s][t] = 0,
                                !.payouts[e][t] = @ - (initial - payout)],
                      e, t, payout)
==============================================================================
