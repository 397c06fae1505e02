--------------------------- MODULE ColonyFunding ---------------------------
(***************************************************************************)
(* A colony's money: tokens arrive, are claimed into the pots, move        *)
(* between them, are promised to the slots of expenditures and paid out,   *)
(* while root may also burn them, give them away, or let somebody else     *)
(* spend them (ColonyFunding.sol, ColonyExpenditure.sol, Colony.sol and    *)
(* ColonyArbitraryTransaction.sol).                                        *)
(*                                                                         *)
(* held and allowance are the tokens' own state: what the colony owns and  *)
(* what it lets each spender take.  They change behind the books' back:    *)
(* anybody may send tokens, and a spender spends without a call to the     *)
(* colony.  Permissions, claim delays and domains other than the root are  *)
(* left out, so any caller may make any call at any time.                  *)
(***************************************************************************)
EXTENDS FundingPots

CONSTANTS
    Spenders,      \* addresses that root may approve
    OwnToken,      \* the colony's native token, which bootstrapping gives away
    Ether,         \* address(0x0): no contract, so nothing to burn or approve
    Amounts,       \* what a single call moves
    Approvals,     \* what root approves a spender to take
    MaxHeld,       \* bound: tokens the colony owns of each token
    MaxPayout,     \* bound: the payout of one slot, of each token
    Modifiers      \* payout modifiers; one Wad is 100%

ASSUME InputsAssumption ==
    /\ Ether \in Tokens /\ OwnToken \in Tokens \ {Ether}
    /\ IsFiniteSet(Spenders)
    /\ Amounts \subseteq Nat \ {0} /\ Approvals \subseteq Nat
    /\ MaxHeld \in [Tokens -> Nat]
    /\ MaxPayout \in [Tokens -> Nat]
    /\ Modifiers \subseteq Int

VARIABLES
    books,              \* FundingPots
    expenditureCount,
    status,             \* of each expenditure
    payoutModifier,     \* of each slot of each expenditure
    tokenApprovals,     \* what the colony believes each spender may take
    held,               \* ERC20 balanceOf(colony)
    allowance           \* ERC20 allowance(colony, spender)

expenditureVars == <<expenditureCount, status, payoutModifier>>
tokenVars == <<held, allowance>>
vars == <<books, expenditureVars, tokenApprovals, tokenVars>>

ERC20s == Tokens \ {Ether}

Statuses == {"Draft", "Locked", "Finalized", "Cancelled"}

Init ==
    /\ books = EmptyPots
    /\ expenditureCount = 0
    /\ status = [e \in Expenditures |-> "Draft"]
    /\ payoutModifier = [e \in Expenditures |-> [s \in Slots |-> 0]]
    /\ tokenApprovals = [t \in Tokens |-> [a \in Spenders |-> 0]]
    /\ held = [t \in Tokens |-> 0]
    /\ allowance = [t \in Tokens |-> [a \in Spenders |-> 0]]

\* validExpenditure
Existing == 1..expenditureCount

Cancelled == {e \in Existing : status[e] = "Cancelled"}

ExistingPots == 0..(expenditureCount + 1)

-----------------------------------------------------------------------------
(* The world: tokens are sent or minted to the colony, spenders spend.     *)

ReceiveTokens(t, amount) ==
    /\ held[t] + amount <= MaxHeld[t]
    /\ held' = [held EXCEPT ![t] = @ + amount]
    /\ UNCHANGED <<books, expenditureVars, tokenApprovals, allowance>>

SpendAllowance(t, a, amount) ==
    /\ amount <= allowance[t][a] /\ amount <= held[t]
    /\ allowance' = [allowance EXCEPT ![t][a] = @ - amount]
    /\ held' = [held EXCEPT ![t] = @ - amount]
    /\ UNCHANGED <<books, expenditureVars, tokenApprovals>>

-----------------------------------------------------------------------------
(* ColonyFunding.sol                                                       *)

ClaimColonyFunds(t) ==
    /\ unclaimed(books, held[t], t) > 0      \* 0 changes nothing
    /\ books' = claimFunds(books, held[t], t)
    /\ UNCHANGED <<expenditureVars, tokenApprovals, tokenVars>>

MoveFundsBetweenPots(from, to, t, amount) ==
    /\ from # to /\ from # RewardsPot        \* validFundingTransfer
    /\ canMoveFunds(books, Cancelled, from, to, amount, t)
    /\ books' = moveFunds(books, from, to, amount, t)
    /\ UNCHANGED <<expenditureVars, tokenApprovals, tokenVars>>

\* The owner sets the payouts of some slots at once, while drafting.
SetExpenditurePayouts(e, t, amounts) ==
    /\ status[e] = "Draft"
    /\ canSetExpenditurePayouts(books, e, t, amounts)
    /\ books' = setExpenditurePayouts(books, e, t, amounts)
    /\ UNCHANGED <<expenditureVars, tokenApprovals, tokenVars>>

\* An arbitrator sets one, whatever the expenditure's status.
ArbitrateExpenditurePayout(e, s, t, amount) ==
    LET amounts == [x \in {s} |-> amount] IN
    /\ canSetExpenditurePayouts(books, e, t, amounts)
    /\ books' = setExpenditurePayouts(books, e, t, amounts)
    /\ UNCHANGED <<expenditureVars, tokenApprovals, tokenVars>>

\* The network's fee and the recipient's part leave the colony together.
ClaimExpenditurePayout(e, s, t) ==
    LET payout == tokenPayout(books.slotPayouts[e][s][t], payoutModifier[e][s]) IN
    /\ status[e] = "Finalized"
    /\ canClaimPayout(books, e, s, t, payoutModifier[e][s])
    /\ payout <= held[t]
    /\ books' = claimPayout(books, e, s, t, payoutModifier[e][s])
    /\ held' = [held EXCEPT ![t] = @ - payout]
    /\ UNCHANGED <<expenditureVars, tokenApprovals, allowance>>

-----------------------------------------------------------------------------
(* ColonyExpenditure.sol                                                   *)

MakeExpenditure ==
    /\ expenditureCount < MaxExpenditures
    /\ expenditureCount' = expenditureCount + 1
    /\ UNCHANGED <<books, status, payoutModifier, tokenApprovals, tokenVars>>

changeStatus(e, new) ==
    /\ status' = [status EXCEPT ![e] = new]
    /\ UNCHANGED <<books, expenditureCount, payoutModifier, tokenApprovals, tokenVars>>

\* An arbitrator may also cancel what is locked.
CancelExpenditure(e) == status[e] \in {"Draft", "Locked"} /\ changeStatus(e, "Cancelled")

LockExpenditure(e) == status[e] = "Draft" /\ changeStatus(e, "Locked")

FinalizeExpenditure(e) ==
    /\ status[e] \in {"Draft", "Locked"}
    /\ books.payoutsWeCannotMake[e] = 0
    /\ changeStatus(e, "Finalized")

\* setExpenditurePayoutModifiers, which does not look at the modifier.
SetExpenditurePayoutModifier(e, s, modifier) ==
    /\ status[e] = "Draft"
    /\ payoutModifier' = [payoutModifier EXCEPT ![e][s] = modifier]
    /\ UNCHANGED <<books, expenditureCount, status, tokenApprovals, tokenVars>>

\* setExpenditureState writes the storage of an expenditure: its status word
\* or a slot's modifier, without a look at what the status was or is.
ArbitrateStatus(e, new) == status[e] # new /\ changeStatus(e, new)

ArbitratePayoutModifier(e, s, modifier) ==
    /\ modifier \in -Wad..Wad
    /\ payoutModifier' = [payoutModifier EXCEPT ![e][s] = modifier]
    /\ UNCHANGED <<books, expenditureCount, status, tokenApprovals, tokenVars>>

-----------------------------------------------------------------------------
(* Colony.sol                                                              *)

BurnTokens(t, amount) ==
    /\ amount <= books.balance[RootPot][t] /\ amount <= held[t]
    /\ books' = [books EXCEPT !.balance[RootPot][t] = @ - amount]
    /\ held' = [held EXCEPT ![t] = @ - amount]
    /\ UNCHANGED <<expenditureVars, tokenApprovals, allowance>>

\* One recipient of bootstrapColony; several are several of these.
BootstrapColony(amount) ==
    /\ expenditureCount = 0
    /\ amount <= books.balance[RootPot][OwnToken]
    /\ amount <= books.nonRewardPotsTotal[OwnToken]
    /\ amount <= held[OwnToken]
    /\ books' = [books EXCEPT !.balance[RootPot][OwnToken]  = @ - amount,
                              !.nonRewardPotsTotal[OwnToken] = @ - amount]
    /\ held' = [held EXCEPT ![OwnToken] = @ - amount]
    /\ UNCHANGED <<expenditureVars, tokenApprovals, allowance>>

-----------------------------------------------------------------------------
(* ColonyArbitraryTransaction.sol                                          *)

\* updateApprovalAmountInternal, against an allowance of actual.
canUpdateApproval(b, recorded, actual, t, postApproval) ==
    LET spent == IF recorded > actual /\ ~postApproval THEN recorded - actual ELSE 0 IN
    recorded # actual =>
      /\ spent > 0 => recorded <= b.balance[RootPot][t]
      /\ recorded <= b.tokenApprovalTotals[t]
      /\ b.balance[RootPot][t] - spent >= b.tokenApprovalTotals[t] - recorded + actual

updateApproval(b, recorded, actual, t, postApproval) ==
    LET spent == IF recorded > actual /\ ~postApproval THEN recorded - actual ELSE 0
    IN  [b EXCEPT !.balance[RootPot][t] = @ - spent,
                  !.tokenApprovalTotals[t] = @ - recorded + actual]

\* Anybody may bring one approval up to date.
UpdateApprovalAmount(t, a) ==
    /\ tokenApprovals[t][a] # allowance[t][a]
    /\ canUpdateApproval(books, tokenApprovals[t][a], allowance[t][a], t, FALSE)
    /\ books' = updateApproval(books, tokenApprovals[t][a], allowance[t][a], t, FALSE)
    /\ tokenApprovals' = [tokenApprovals EXCEPT ![t][a] = allowance[t][a]]
    /\ UNCHANGED <<expenditureVars, tokenVars>>

\* approve(a, amount): book what was spent, approve, book the new approval.
\* executeCall swallows a failure of the call in the middle.
Approve(t, a, amount, ok) ==
    LET actual == IF ok THEN amount ELSE allowance[t][a]
        synced == updateApproval(books, tokenApprovals[t][a], allowance[t][a], t, FALSE)
    IN
    /\ canUpdateApproval(books, tokenApprovals[t][a], allowance[t][a], t, FALSE)
    /\ canUpdateApproval(synced, allowance[t][a], actual, t, TRUE)
    /\ books' = updateApproval(synced, allowance[t][a], actual, t, TRUE)
    /\ allowance' = [allowance EXCEPT ![t][a] = actual]
    /\ tokenApprovals' = [tokenApprovals EXCEPT ![t][a] = actual]
    /\ UNCHANGED <<expenditureVars, held>>

\* burn(amount) or transfer(x, amount): the root pot pays before the call
\* and is not repaid when the call fails.
BurnOrTransfer(t, amount, ok) ==
    /\ amount <= books.balance[RootPot][t]
    /\ books.balance[RootPot][t] - amount >= books.tokenApprovalTotals[t]
    /\ ok => amount <= held[t]
    /\ books' = [books EXCEPT !.balance[RootPot][t] = @ - amount]
    /\ held' = IF ok THEN [held EXCEPT ![t] = @ - amount] ELSE held
    /\ UNCHANGED <<expenditureVars, tokenApprovals, allowance>>

-----------------------------------------------------------------------------
SlotAmounts(t) == UNION {[S -> 0..MaxPayout[t]] : S \in SUBSET Slots \ {{}}}

World ==
    \E t \in Tokens, amount \in Amounts :
        \/ ReceiveTokens(t, amount)
        \/ t \in ERC20s /\ \E a \in Spenders : SpendAllowance(t, a, amount)

Funding ==
    \E t \in Tokens :
        \/ ClaimColonyFunds(t)
        \/ \E from, to \in ExistingPots, amount \in Amounts :
               MoveFundsBetweenPots(from, to, t, amount)
        \/ \E e \in Existing :
            \/ \E amounts \in SlotAmounts(t) : SetExpenditurePayouts(e, t, amounts)
            \/ \E s \in Slots :
                \/ \E amount \in 0..MaxPayout[t] : ArbitrateExpenditurePayout(e, s, t, amount)
                \/ ClaimExpenditurePayout(e, s, t)

Expenditure ==
    \/ MakeExpenditure
    \/ \E e \in Existing :
        \/ CancelExpenditure(e)
        \/ LockExpenditure(e)
        \/ FinalizeExpenditure(e)
        \/ \E new \in Statuses : ArbitrateStatus(e, new)
        \/ \E s \in Slots, modifier \in Modifiers :
            \/ SetExpenditurePayoutModifier(e, s, modifier)
            \/ ArbitratePayoutModifier(e, s, modifier)

Root ==
    \/ \E amount \in Amounts : BootstrapColony(amount)
    \/ \E t \in ERC20s :
        \/ \E amount \in Amounts : BurnTokens(t, amount)
        \/ \E amount \in Amounts, ok \in BOOLEAN : BurnOrTransfer(t, amount, ok)
        \/ \E a \in Spenders :
            \/ UpdateApprovalAmount(t, a)
            \/ \E amount \in Approvals, ok \in BOOLEAN : Approve(t, a, amount, ok)

Next == World \/ Funding \/ Expenditure \/ Root

Spec == Init /\ [][Next]_vars

-----------------------------------------------------------------------------
(* Every book stays a natural number of the right shape.                   *)
TypeOK ==
    /\ books \in PotBooks
    /\ expenditureCount \in 0..MaxExpenditures
    /\ status \in [Expenditures -> Statuses]
    /\ payoutModifier \in [Expenditures -> [Slots -> Int]]
    /\ tokenApprovals \in [Tokens -> [Spenders -> Nat]]
    /\ held \in [Tokens -> Nat]
    /\ allowance \in [Tokens -> [Spenders -> Nat]]

potsTotal(t, pots) == SumFunctionOnSet([p \in Pots |-> books.balance[p][t]], pots)

\* What spenders took and nobody has booked yet.
unbooked(t) ==
    SumFunctionOnSet([a \in Spenders |-> greater(tokenApprovals[t][a] - allowance[t][a], 0)],
                     Spenders)

\* The pots never promise more tokens than the colony owns, but for what
\* spenders took since the last updateApprovalAmount: every claim, refund,
\* payout, burn and failed call keeps the two in step.
PotsBacked ==
    \A t \in Tokens : potsTotal(t, Pots) <= held[t] + unbooked(t)

\* claimColonyFunds takes whatever is above the totals for new money, so no
\* token in a pot may be missing from them: it would be claimed again.
NoDoubleClaim ==
    \A t \in Tokens : potsTotal(t, Pots \ {RewardsPot}) <= books.nonRewardPotsTotal[t]

\* The counter that lets an expenditure be finalized is exact, through every
\* order of funding, budgeting, refunding and paying.
CannotMakeCount ==
    \A e \in Expenditures :
        books.payoutsWeCannotMake[e] = Cardinality({t \in Tokens : ~isCovered(books, e, t)})

\* A pot's payouts are what its slots have still to get: withheld surplus and
\* paid slots are gone from both.
PayoutsSum ==
    \A e \in Expenditures, t \in Tokens : books.payouts[e][t] = slotTotal(books, e, t, Slots)

\* What is kept twice agrees: counters, budgets and slots.
BooksConsistent == TypeOK /\ CannotMakeCount /\ PayoutsSum

\* A funded budget stays funded: short of cancelling, only asking for more
\* payouts can leave an expenditure short of a token.
FundsStayReserved ==
    [][\A e \in Expenditures, t \in Tokens :
          /\ status[e] # "Cancelled"
          /\ isCovered(books, e, t)
          /\ ~isCovered(books', e, t)
          => books'.payouts[e][t] > books.payouts[e][t]]_vars

\* IColony.sol says of getNonRewardPotsTotal: "Total amount of tokens in
\* funding pots other than the rewards pot (id 0)".
NonRewardTotal ==
    \A t \in Tokens : potsTotal(t, Pots \ {RewardsPot}) = books.nonRewardPotsTotal[t]

\* moveFundsBetweenPots says the root pot must not fall below "what we need
\* to cover any approvals that we've made".
RootPotCoversApprovals ==
    \A t \in Tokens : books.balance[RootPot][t] >= books.tokenApprovalTotals[t]
=============================================================================
