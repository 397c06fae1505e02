----------------------------- MODULE TokenLedger -----------------------------
(***************************************************************************)
(* The books that TokenLocking.sol keeps for one token, and what each of   *)
(* its calls does to them.  The contract keys every mapping by token and   *)
(* no call touches two tokens, so one token is the whole story.            *)
(*                                                                         *)
(* Every call is a pair of operators on a ledger value l: canX(l, ...)     *)
(* holds when the call does not revert, and X(l, ...) is the ledger it     *)
(* leaves.  A transaction that makes several calls (ColonyNetworkMining    *)
(* makes two to four) chains the operators and stays one atomic step.      *)
(* Solidity 0.8 reverts on underflow, so each checked subtraction is a     *)
(* conjunct of canX.                                                       *)
(***************************************************************************)
EXTENDS Naturals, Sequences

CONSTANTS
    Users,       \* holders of deposits: people, colonies, the network
    Obligators   \* the callers calledByColonyOrNetwork lets through

\* lockers[i] is who placed lock i, so totalLockCount is its length.  wallet
\* and custody are the ERC20 balances of the users and of TokenLocking.
Ledger ==
    [lockCount        : [Users -> Nat],
     balance          : [Users -> Nat],
     pendingBalance   : [Users -> Nat],
     lockers          : Seq(Obligators),
     approvals        : [Users -> [Obligators -> Nat]],
     obligations      : [Users -> [Obligators -> Nat]],
     totalObligations : [Users -> Nat],
     wallet           : [Users -> Nat],
     custody          : Nat]

\* Nobody has deposited anything; each user owns supply tokens.
EmptyLedger(supply) ==
    LET zero  == [u \in Users |-> 0]
        zeros == [u \in Users |-> [c \in Obligators |-> 0]]
    IN  [lockCount |-> zero, balance |-> zero, pendingBalance |-> zero,
         lockers |-> <<>>, approvals |-> zeros, obligations |-> zeros,
         totalObligations |-> zero,
         wallet |-> [u \in Users |-> supply], custody |-> 0]

totalLockCount(l) == Len(l.lockers)

isTokenUnlocked(l, u) == l.lockCount[u] = totalLockCount(l)

-----------------------------------------------------------------------------
(* Modifiers and internal functions.                                       *)

\* tokenNotLocked: with force the caller first jumps over every lock.
forceUnlock(l, u, force) ==
    IF force THEN [l EXCEPT !.lockCount[u] = totalLockCount(l)] ELSE l

tokenNotLocked(l, u, force) == force \/ isTokenUnlocked(l, u)

\* Mutant: checks the deposit but not what is obligated of it.
notObligated_BalanceOnly(l, u, amount) == amount <= l.balance[u]

notObligated(l, u, amount) ==
    /\ amount <= l.balance[u]
    /\ l.totalObligations[u] <= l.balance[u] - amount

\* Mutant: credits the deposit of a locked recipient too.
makeConditionalDeposit_Unconditional(l, amount, u, ok) ==
    [l EXCEPT !.balance[u] = @ + amount]

\* ok: the ERC20 transfer to a locked recipient, inside try, succeeds.
makeConditionalDeposit(l, amount, u, ok) ==
    IF isTokenUnlocked(l, u)
    THEN [l EXCEPT !.balance[u] = @ + amount]
    ELSE IF ok /\ amount <= l.custody
         THEN [l EXCEPT !.wallet[u] = @ + amount, !.custody = @ - amount]
         ELSE [l EXCEPT !.pendingBalance[u] = @ + amount]

\* ERC20 transferFrom(u, this, amount).
claimTokens(l, amount, u) ==
    [l EXCEPT !.wallet[u] = @ - amount, !.custody = @ + amount]

-----------------------------------------------------------------------------
(* Locks.                                                                  *)

lockToken(l, c) == [l EXCEPT !.lockers = Append(@, c)]

canUnlockTokenForUser(l, c, u, lockId) ==
    /\ lockId \in 1 .. totalLockCount(l)
    /\ l.lockers[lockId] = c
    /\ lockId = l.lockCount[u] + 1

unlockTokenForUser(l, u, lockId) == [l EXCEPT !.lockCount[u] = lockId]

canIncrementLockCounterTo(l, u, lockId) ==
    /\ lockId <= totalLockCount(l)
    /\ lockId > l.lockCount[u]

incrementLockCounterTo(l, u, lockId) == [l EXCEPT !.lockCount[u] = lockId]

-----------------------------------------------------------------------------
(* Deposits.  The caller of deposit, transfer and withdraw is u.           *)

canDeposit(l, u, amount, force) ==
    tokenNotLocked(l, u, force) /\ amount <= l.wallet[u]

\* Mutant: credits the pending balance and forgets to delete it.
deposit_KeepsPending(l, u, amount, force) ==
    LET pending  == IF force THEN l.pendingBalance[u] ELSE 0
        credited == [forceUnlock(l, u, force) EXCEPT !.balance[u] = @ + amount + pending]
    IN  claimTokens(credited, amount, u)

deposit(l, u, amount, force) ==
    LET pending  == IF force THEN l.pendingBalance[u] ELSE 0
        credited == [forceUnlock(l, u, force) EXCEPT
                        !.balance[u] = @ + amount + pending,
                        !.pendingBalance[u] = @ - pending]
    IN  claimTokens(credited, amount, u)

canDepositFor(l, u, amount) == amount <= l.wallet[u]

depositFor(l, u, amount, recipient, ok) ==
    makeConditionalDeposit(claimTokens(l, amount, u), amount, recipient, ok)

canTransfer(l, u, amount, force) ==
    notObligated(l, u, amount) /\ tokenNotLocked(l, u, force)

transfer(l, u, amount, recipient, force, ok) ==
    makeConditionalDeposit(
        [forceUnlock(l, u, force) EXCEPT !.balance[u] = @ - amount],
        amount, recipient, ok)

\* A failed ERC20 transfer reverts the withdrawal.
canWithdraw(l, u, amount, force) ==
    /\ notObligated(l, u, amount)
    /\ tokenNotLocked(l, u, force)
    /\ amount <= l.custody

withdraw(l, u, amount, force) ==
    [forceUnlock(l, u, force) EXCEPT
        !.balance[u] = @ - amount,
        !.custody    = @ - amount,
        !.wallet[u]  = @ + amount]

-----------------------------------------------------------------------------
(* Stakes.  The caller is the obligator c.                                 *)

approveStake(l, c, u, amount) == [l EXCEPT !.approvals[u][c] = @ + amount]

\* Mutant: an approval is enough, the free deposit is not looked at.
canObligateStake_ApprovalOnly(l, c, u, amount) == amount <= l.approvals[u][c]

canObligateStake(l, c, u, amount) ==
    /\ amount <= l.approvals[u][c]
    /\ l.balance[u] >= l.totalObligations[u] + amount

obligateStake(l, c, u, amount) ==
    [l EXCEPT !.approvals[u][c]      = @ - amount,
              !.obligations[u][c]    = @ + amount,
              !.totalObligations[u]  = @ + amount]

canDeobligateStake(l, c, u, amount) ==
    /\ amount <= l.obligations[u][c]
    /\ amount <= l.totalObligations[u]

deobligateStake(l, c, u, amount) ==
    [l EXCEPT !.obligations[u][c]   = @ - amount,
              !.totalObligations[u] = @ - amount]

canTransferStake(l, c, u, amount) ==
    canDeobligateStake(l, c, u, amount) /\ amount <= l.balance[u]

transferStake(l, c, u, amount, recipient, ok) ==
    makeConditionalDeposit(
        [deobligateStake(l, c, u, amount) EXCEPT !.balance[u] = @ - amount],
        amount, recipient, ok)
=============================================================================
