---------------------------- MODULE TokenLocking ----------------------------
(***************************************************************************)
(* The TokenLocking contract as a state machine: any user and any          *)
(* obligator (the network or a colony) makes any call of TokenLocking.sol, *)
(* in any order.  One call is one transaction, so one atomic step.         *)
(***************************************************************************)
EXTENDS TokenLedger, FiniteSetsExt

CONSTANTS
    Amounts,       \* the amounts the calls are made with
    Supply,        \* the tokens each user owns at the start
    MaxLocks,      \* bound on the locks ever placed
    MaxApproval    \* bound on what one obligator may be approved for

ASSUME PartiesAssumption == IsFiniteSet(Users) /\ IsFiniteSet(Obligators)
ASSUME AmountsAssumption == Amounts \subseteq Nat
ASSUME BoundsAssumption == Supply \in Nat /\ MaxLocks \in Nat /\ MaxApproval \in Nat

VARIABLE ledger

Init == ledger = EmptyLedger(Supply)

LockToken(c) ==
    /\ totalLockCount(ledger) < MaxLocks
    /\ ledger' = lockToken(ledger, c)

UnlockTokenForUser(c, u, lockId) ==
    /\ canUnlockTokenForUser(ledger, c, u, lockId)
    /\ ledger' = unlockTokenForUser(ledger, u, lockId)

IncrementLockCounterTo(u, lockId) ==
    /\ canIncrementLockCounterTo(ledger, u, lockId)
    /\ ledger' = incrementLockCounterTo(ledger, u, lockId)

Deposit(u, amount, force) ==
    /\ canDeposit(ledger, u, amount, force)
    /\ ledger' = deposit(ledger, u, amount, force)

DepositFor(u, amount, recipient, ok) ==
    /\ canDepositFor(ledger, u, amount)
    /\ ledger' = depositFor(ledger, u, amount, recipient, ok)

Transfer(u, amount, recipient, force, ok) ==
    /\ canTransfer(ledger, u, amount, force)
    /\ ledger' = transfer(ledger, u, amount, recipient, force, ok)

Withdraw(u, amount, force) ==
    /\ canWithdraw(ledger, u, amount, force)
    /\ ledger' = withdraw(ledger, u, amount, force)

ApproveStake(c, u, amount) ==
    /\ ledger.approvals[u][c] + amount <= MaxApproval
    /\ ledger' = approveStake(ledger, c, u, amount)

ObligateStake(c, u, amount) ==
    /\ canObligateStake(ledger, c, u, amount)
    /\ ledger' = obligateStake(ledger, c, u, amount)

DeobligateStake(c, u, amount) ==
    /\ canDeobligateStake(ledger, c, u, amount)
    /\ ledger' = deobligateStake(ledger, c, u, amount)

TransferStake(c, u, amount, recipient, ok) ==
    /\ canTransferStake(ledger, c, u, amount)
    /\ ledger' = transferStake(ledger, c, u, amount, recipient, ok)

LockStep ==
    \/ \E c \in Obligators : LockToken(c)
    \/ \E c \in Obligators, u \in Users, lockId \in 1 .. MaxLocks :
          UnlockTokenForUser(c, u, lockId)
    \/ \E u \in Users, lockId \in 1 .. MaxLocks : IncrementLockCounterTo(u, lockId)

DepositStep ==
    \E u \in Users, amount \in Amounts, force \in BOOLEAN :
        \/ Deposit(u, amount, force)
        \/ Withdraw(u, amount, force)
        \/ \E recipient \in Users, ok \in BOOLEAN :
              \/ DepositFor(u, amount, recipient, ok)
              \/ Transfer(u, amount, recipient, force, ok)

StakeStep ==
    \E c \in Obligators, u \in Users, amount \in Amounts :
        \/ ApproveStake(c, u, amount)
        \/ ObligateStake(c, u, amount)
        \/ DeobligateStake(c, u, amount)
        \/ \E recipient \in Users, ok \in BOOLEAN :
              TransferStake(c, u, amount, recipient, ok)

Next == LockStep \/ DepositStep \/ StakeStep

Spec == Init /\ [][Next]_ledger

-----------------------------------------------------------------------------
(* Properties.                                                             *)

\* The ledger is one the contract's storage can hold.
TypeOK == ledger \in Ledger

\* Whatever the order of withdrawals, transfers, slashes and new stakes, a
\* deposit covers everything it is obligated for (the two checks of
\* notObligated and obligateStake; transferStake has none).
ObligationsCovered == \A u \in Users : ledger.totalObligations[u] <= ledger.balance[u]

\* The running total agrees with the obligators' books, so the unchecked part
\* of deobligateStake and transferStake (totalObligations -= amount) can never
\* revert and trap a stake that its obligator wants to release.
ObligationsSum ==
    \A u \in Users :
        ledger.totalObligations[u] = SumFunctionOnSet(ledger.obligations[u], Obligators)

\* The contract holds exactly the tokens it owes, deposited or pending: a
\* failed payment to a locked recipient neither loses nor doubles them.
Solvent ==
    ledger.custody =
        SumFunction([u \in Users |-> ledger.balance[u] + ledger.pendingBalance[u]])

\* "User's lock count should never be greater than total lock count."
\* (TokenLockingStorage.sol)
LockCountBound == \A u \in Users : ledger.lockCount[u] <= totalLockCount(ledger)

\* The books agree with each other and with the tokens the contract holds.
BooksBalance == TypeOK /\ ObligationsSum /\ Solvent /\ LockCountBound

\* A user whose tokens stay locked through a call neither gains a deposit nor
\* loses one, except for a stake that its obligator takes: what a reward
\* payout or a vote reads of a locked deposit cannot be moved under it.
FrozenWhileLocked ==
    [][\A u \in Users :
          (~isTokenUnlocked(ledger, u) /\ ledger'.lockCount[u] = ledger.lockCount[u])
          => \/ ledger'.balance[u] = ledger.balance[u]
             \/ /\ ledger'.balance[u] < ledger.balance[u]
                /\ ledger.balance[u] + ledger'.totalObligations[u]
                     = ledger'.balance[u] + ledger.totalObligations[u]]_ledger

\* The contract implements the promise of StakeLedger: no call moves or
\* withdraws a staked part of a deposit but a slash by an obligator.
Promise == INSTANCE StakeLedger WITH
    Accounts <- Users,
    deposited <- ledger.balance,
    staked <- ledger.totalObligations

ImplementsStakeLedger == Promise!Spec
=============================================================================
