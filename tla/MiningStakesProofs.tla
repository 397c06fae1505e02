------------------------- MODULE MiningStakesProofs -------------------------
(***************************************************************************)
(* Proofs about MiningStakes: the network's stakes are those TokenLocking  *)
(* holds, every live entry has a stake of its own, rewards are backed, and *)
(* neither a slash nor the burn can keep a cycle from closing.             *)
(***************************************************************************)
EXTENDS MiningStakes, SetLemmas, TLAPS

(***************************************************************************)
(* TokenLocking's proofs, of the ledger that the network works on.         *)
(***************************************************************************)

Locking == INSTANCE TokenLockingProofs WITH MaxApproval <- 0

\* What TokenLocking keeps: its types, bounds and sums.
Booked(l) == Locking!Good(l) /\ Locking!Balanced(l)

\* TokenLocking assumes no more of the constants than this.
LEMMA LockingAssumptions ==
  /\ Locking!IsFiniteSet(Users) /\ Locking!IsFiniteSet(Obligators)
  /\ Amounts \subseteq Nat /\ Supply \in Nat /\ MaxLocks \in Nat /\ 0 \in Nat
BY PartiesAssumption, AmountsAssumption DEF IsFiniteSet, Locking!IsFiniteSet

LEMMA Parties ==
  /\ IsFiniteSet(Users) /\ IsFiniteSet(Obligators) /\ IsFiniteSet(Miners)
  /\ Network \in Users /\ Network \in Obligators /\ Network \notin Miners
  /\ MetaColony \in Users /\ MetaColony \in Obligators
  /\ MetaColony \notin Miners /\ MetaColony # Network
  /\ \A m \in Miners : m \in Users /\ m # Network
BY PartiesAssumption, FS_Subset

LEMMA SameLedger == Locking!Ledger = Ledger
BY DEF Ledger, Locking!Ledger

LEMMA Fields ==
  ASSUME NEW l \in Ledger
  PROVE  /\ l.lockCount \in [Users -> Nat]
         /\ l.balance \in [Users -> Nat]
         /\ l.pendingBalance \in [Users -> Nat]
         /\ l.lockers \in Seq(Obligators)
         /\ l.approvals \in [Users -> [Obligators -> Nat]]
         /\ l.obligations \in [Users -> [Obligators -> Nat]]
         /\ l.totalObligations \in [Users -> Nat]
         /\ l.wallet \in [Users -> Nat]
         /\ l.custody \in Nat
         /\ totalLockCount(l) \in Nat
BY DEF Ledger, totalLockCount

\* What the invariant says of a user's books.
LEMMA BookedFacts ==
  ASSUME NEW l, Booked(l)
  PROVE  /\ l \in Ledger
         /\ \A u \in Users : l.totalObligations[u] <= l.balance[u]
         /\ \A u \in Users, c \in Obligators : l.obligations[u][c] <= l.totalObligations[u]
         /\ \A u \in Users : l.balance[u] <= l.custody
<1>1. /\ l \in Ledger
      /\ \A u \in Users : l.totalObligations[u] <= l.balance[u]
  BY SameLedger DEF Booked, Locking!Good
<1>2. ASSUME NEW u \in Users, NEW c \in Obligators
      PROVE  l.obligations[u][c] <= l.totalObligations[u]
  <2>1. l.totalObligations[u] = Locking!SumFunctionOnSet(l.obligations[u], Obligators)
    BY DEF Booked, Locking!Balanced, Locking!Summed
  <2>2. \A d \in Obligators : l.obligations[u][d] \in Nat BY <1>1, Fields
  <2>3. l.obligations[u][c] <= Locking!SumFunctionOnSet(l.obligations[u], Obligators)
    BY <2>2, LockingAssumptions, Locking!SumTermAtMost
  <2> QED BY <2>1, <2>3
<1>3. ASSUME NEW u \in Users PROVE l.balance[u] <= l.custody
  <2> DEFINE owed == [v \in Users |-> l.balance[v] + l.pendingBalance[v]]
  <2>1. l.custody = Locking!SumFunctionOnSet(owed, Users) + 0
    BY DEF Booked, Locking!Balanced, Locking!Holds, Locking!owed
  <2>2. /\ \A v \in Users : owed[v] \in Nat
        /\ owed[u] = l.balance[u] + l.pendingBalance[u]
        /\ l.pendingBalance[u] \in Nat /\ l.balance[u] \in Nat /\ l.custody \in Nat
    BY <1>1, Fields
  <2> HIDE DEF owed
  <2>3. owed[u] <= Locking!SumFunctionOnSet(owed, Users)
    BY <2>2, LockingAssumptions, Locking!SumTermAtMost
  <2>4. Locking!SumFunctionOnSet(owed, Users) \in Nat
    BY <2>2, LockingAssumptions, Locking!SumNat
  <2> QED BY <2>1, <2>2, <2>3, <2>4
<1> QED BY <1>1, <1>2, <1>3

-----------------------------------------------------------------------------
(* One lemma per call: what it leaves booked, and what it does to the      *)
(* obligations and to the network's deposit.                               *)

\* Nobody's stake changes, and the network's deposit does not shrink.
Untouched(l, k) ==
  /\ k.obligations = l.obligations
  /\ k.totalObligations = l.totalObligations
  /\ k.balance[Network] >= l.balance[Network]

LEMMA DepositBooked ==
  ASSUME NEW l, Booked(l), NEW u \in Users, NEW amount \in Nat, NEW force \in BOOLEAN,
         canDeposit(l, u, amount, force)
  PROVE  LET k == deposit(l, u, amount, force)
         IN  /\ Booked(k) /\ Untouched(l, k)
             /\ force => isTokenUnlocked(k, u)
<1> DEFINE k == deposit(l, u, amount, force)
<1>1. Locking!canDeposit(l, u, amount, force)
  BY DEF canDeposit, Locking!canDeposit, tokenNotLocked, Locking!tokenNotLocked,
         isTokenUnlocked, Locking!isTokenUnlocked, totalLockCount, Locking!totalLockCount
<1>2. Locking!deposit(l, u, amount, force) = k
  BY DEF deposit, Locking!deposit, forceUnlock, Locking!forceUnlock, claimTokens,
         Locking!claimTokens, totalLockCount, Locking!totalLockCount
<1>3. Booked(k)
  <2> HIDE DEF k
  <2> QED BY <1>1, <1>2, LockingAssumptions, Locking!DepositFine, Locking!DepositBalanced
          DEF Booked, Locking!Fine
<1>4. l \in Ledger BY BookedFacts
<1>5. Network \in Users BY Parties
<1>6. /\ l.balance \in [Users -> Nat] /\ l.pendingBalance \in [Users -> Nat]
      /\ l.lockCount \in [Users -> Nat]
  BY <1>4, Fields
<1>7. /\ k.obligations = l.obligations /\ k.totalObligations = l.totalObligations
      /\ k.lockers = l.lockers
      /\ k.lockCount = IF force THEN [l.lockCount EXCEPT ![u] = totalLockCount(l)] ELSE l.lockCount
      /\ k.balance = [l.balance EXCEPT ![u] =
                        l.balance[u] + amount + (IF force THEN l.pendingBalance[u] ELSE 0)]
  BY <1>4 DEF Ledger, deposit, forceUnlock, claimTokens
<1> HIDE DEF k
<1>8. k.balance[Network] >= l.balance[Network] BY <1>5, <1>6, <1>7
<1>9. force => isTokenUnlocked(k, u)
  BY <1>6, <1>7 DEF isTokenUnlocked, totalLockCount
<1> QED BY <1>3, <1>7, <1>8, <1>9 DEF Untouched, k

LEMMA WithdrawBooked ==
  ASSUME NEW l, Booked(l), NEW u \in Users, NEW amount \in Nat, NEW force \in BOOLEAN,
         canWithdraw(l, u, amount, force)
  PROVE  LET k == withdraw(l, u, amount, force)
         IN  /\ Booked(k)
             /\ k.obligations = l.obligations /\ k.totalObligations = l.totalObligations
             /\ \A v \in Users \ {u} : k.balance[v] = l.balance[v] /\ k.wallet[v] = l.wallet[v]
             /\ k.balance[u] = l.balance[u] - amount
             /\ k.wallet[u] = l.wallet[u] + amount
             /\ amount <= l.balance[u]
<1> DEFINE k == withdraw(l, u, amount, force)
<1>1. Locking!canWithdraw(l, u, amount, force)
  BY DEF canWithdraw, Locking!canWithdraw, tokenNotLocked, Locking!tokenNotLocked,
         notObligated, Locking!notObligated, isTokenUnlocked, Locking!isTokenUnlocked,
         totalLockCount, Locking!totalLockCount
<1>2. Locking!withdraw(l, u, amount, force) = k
  BY DEF withdraw, Locking!withdraw, forceUnlock, Locking!forceUnlock, totalLockCount,
         Locking!totalLockCount
<1>3. Booked(k)
  <2> HIDE DEF k
  <2> QED BY <1>1, <1>2, LockingAssumptions, Locking!WithdrawFine, Locking!WithdrawBalanced
          DEF Booked, Locking!Fine
<1>4. l \in Ledger BY BookedFacts
<1>5. /\ k.obligations = l.obligations /\ k.totalObligations = l.totalObligations
      /\ k.balance = [l.balance EXCEPT ![u] = l.balance[u] - amount]
      /\ k.wallet = [l.wallet EXCEPT ![u] = l.wallet[u] + amount]
  BY <1>4 DEF Ledger, withdraw, forceUnlock
<1>6. amount <= l.balance[u] BY DEF canWithdraw, notObligated
<1>7. l.balance \in [Users -> Nat] /\ l.wallet \in [Users -> Nat] BY <1>4, Fields
<1> HIDE DEF k
<1>8. /\ \A v \in Users \ {u} : k.balance[v] = l.balance[v] /\ k.wallet[v] = l.wallet[v]
      /\ k.balance[u] = l.balance[u] - amount
      /\ k.wallet[u] = l.wallet[u] + amount
  BY <1>5, <1>7
<1> QED BY <1>3, <1>5, <1>6, <1>8 DEF k

\* The recipient is paid in one of three ways.
LEMMA Paid ==
  ASSUME NEW l \in Ledger, NEW u \in Users, NEW amount \in Nat, NEW ok \in BOOLEAN
  PROVE  LET k == makeConditionalDeposit(l, amount, u, ok)
         IN  /\ k.obligations = l.obligations /\ k.totalObligations = l.totalObligations
             /\ k.lockCount = l.lockCount /\ k.lockers = l.lockers
             /\ k.balance = IF isTokenUnlocked(l, u)
                            THEN [l.balance EXCEPT ![u] = l.balance[u] + amount]
                            ELSE l.balance
             /\ \A v \in Users \ {u} : k.wallet[v] = l.wallet[v]
<1> DEFINE k == makeConditionalDeposit(l, amount, u, ok)
<1>1. CASE isTokenUnlocked(l, u)
  <2>1. k = [l EXCEPT !.balance[u] = @ + amount] BY <1>1 DEF makeConditionalDeposit
  <2> HIDE DEF k
  <2>2. /\ k.obligations = l.obligations /\ k.totalObligations = l.totalObligations
        /\ k.lockCount = l.lockCount /\ k.lockers = l.lockers /\ k.wallet = l.wallet
        /\ k.balance = [l.balance EXCEPT ![u] = l.balance[u] + amount]
    BY <2>1 DEF Ledger
  <2> QED BY <1>1, <2>2 DEF k
<1>2. CASE ~isTokenUnlocked(l, u) /\ ok /\ amount <= l.custody
  <2>1. k = [l EXCEPT !.wallet[u] = @ + amount, !.custody = @ - amount]
    BY <1>2 DEF makeConditionalDeposit
  <2> HIDE DEF k
  <2>2. /\ k.obligations = l.obligations /\ k.totalObligations = l.totalObligations
        /\ k.lockCount = l.lockCount /\ k.lockers = l.lockers /\ k.balance = l.balance
        /\ k.wallet = [l.wallet EXCEPT ![u] = l.wallet[u] + amount]
    BY <2>1 DEF Ledger
  <2>3. \A v \in Users \ {u} : k.wallet[v] = l.wallet[v] BY <2>2, Fields
  <2> QED BY <1>2, <2>2, <2>3 DEF k
<1>3. CASE ~isTokenUnlocked(l, u) /\ ~(ok /\ amount <= l.custody)
  <2>1. k = [l EXCEPT !.pendingBalance[u] = @ + amount]
    BY <1>3 DEF makeConditionalDeposit
  <2> HIDE DEF k
  <2>2. /\ k.obligations = l.obligations /\ k.totalObligations = l.totalObligations
        /\ k.lockCount = l.lockCount /\ k.lockers = l.lockers /\ k.balance = l.balance
        /\ k.wallet = l.wallet
    BY <2>1 DEF Ledger
  <2> QED BY <1>3, <2>2 DEF k
<1> QED BY <1>1, <1>2, <1>3

LEMMA SamePayment ==
  ASSUME NEW l, NEW u, NEW amount, NEW ok
  PROVE  Locking!makeConditionalDeposit(l, amount, u, ok) = makeConditionalDeposit(l, amount, u, ok)
BY DEF makeConditionalDeposit, Locking!makeConditionalDeposit, isTokenUnlocked,
       Locking!isTokenUnlocked, totalLockCount, Locking!totalLockCount

LEMMA TransferBooked ==
  ASSUME NEW l, Booked(l), NEW u \in Users, NEW amount \in Nat, NEW recipient \in Users,
         NEW force \in BOOLEAN, NEW ok \in BOOLEAN, canTransfer(l, u, amount, force)
  PROVE  LET k == transfer(l, u, amount, recipient, force, ok)
         IN  /\ Booked(k)
             /\ k.obligations = l.obligations /\ k.totalObligations = l.totalObligations
             /\ \A v \in Users \ {u, recipient} : k.balance[v] = l.balance[v]
             /\ u # recipient => k.balance[u] = l.balance[u] - amount
<1> DEFINE k == transfer(l, u, amount, recipient, force, ok)
           d == [forceUnlock(l, u, force) EXCEPT !.balance[u] = @ - amount]
<1>1. Locking!canTransfer(l, u, amount, force)
  BY DEF canTransfer, Locking!canTransfer, tokenNotLocked, Locking!tokenNotLocked,
         notObligated, Locking!notObligated, isTokenUnlocked, Locking!isTokenUnlocked,
         totalLockCount, Locking!totalLockCount
<1>2. Locking!transfer(l, u, amount, recipient, force, ok) = k
  <2>1. Locking!forceUnlock(l, u, force) = forceUnlock(l, u, force)
    BY DEF forceUnlock, Locking!forceUnlock, totalLockCount, Locking!totalLockCount
  <2> QED BY <2>1, SamePayment DEF transfer, Locking!transfer
<1>3. Booked(k)
  <2> HIDE DEF k
  <2> QED BY <1>1, <1>2, LockingAssumptions, Locking!TransferFine, Locking!TransferBalanced
          DEF Booked, Locking!Fine
<1>4. /\ l \in Ledger /\ amount <= l.balance[u]
  BY BookedFacts DEF canTransfer, notObligated
<1>5. /\ l.balance \in [Users -> Nat] /\ l.lockCount \in [Users -> Nat]
      /\ totalLockCount(l) \in Nat
  BY <1>4, Fields
<1>6. /\ d.obligations = l.obligations /\ d.totalObligations = l.totalObligations
      /\ d.balance = [l.balance EXCEPT ![u] = l.balance[u] - amount]
      /\ d.lockCount = IF force THEN [l.lockCount EXCEPT ![u] = totalLockCount(l)] ELSE l.lockCount
      /\ d = [l EXCEPT !.balance = d.balance, !.lockCount = d.lockCount]
  BY <1>4 DEF Ledger, forceUnlock
<1>7. k = makeConditionalDeposit(d, amount, recipient, ok) BY DEF transfer
<1> HIDE DEF k, d
<1>8. d.balance \in [Users -> Nat] /\ d.lockCount \in [Users -> Nat]
  BY <1>4, <1>5, <1>6
<1>9. d \in Ledger BY <1>4, <1>6, <1>8 DEF Ledger
<1>10. /\ k.obligations = d.obligations /\ k.totalObligations = d.totalObligations
       /\ k.balance = IF isTokenUnlocked(d, recipient)
                      THEN [d.balance EXCEPT ![recipient] = d.balance[recipient] + amount]
                      ELSE d.balance
  BY <1>7, <1>9, Paid
<1>11. /\ \A v \in Users \ {u, recipient} : k.balance[v] = l.balance[v]
       /\ u # recipient => k.balance[u] = l.balance[u] - amount
  BY <1>5, <1>6, <1>8, <1>10
<1> QED BY <1>3, <1>6, <1>10, <1>11 DEF k

LEMMA DepositForBooked ==
  ASSUME NEW l, Booked(l), NEW amount \in Nat, amount <= l.wallet[Network], NEW m \in Miners
  PROVE  LET k == depositFor(l, Network, amount, m, TRUE)
         IN  /\ Booked(k) /\ Untouched(l, k)
             /\ k.wallet[Network] = l.wallet[Network] - amount
<1> DEFINE k == depositFor(l, Network, amount, m, TRUE)
           c == claimTokens(l, amount, Network)
<1>1. Locking!canDepositFor(l, Network, amount) BY DEF Locking!canDepositFor
<1>2. Locking!depositFor(l, Network, amount, m, TRUE) = k
  <2>1. Locking!claimTokens(l, amount, Network) = c BY DEF claimTokens, Locking!claimTokens
  <2> QED BY <2>1, SamePayment DEF depositFor, Locking!depositFor
<1>3. Network \in Users /\ m \in Users /\ m # Network BY Parties
<1>4. Booked(k)
  <2> HIDE DEF k
  <2> QED BY <1>1, <1>2, <1>3, LockingAssumptions, Locking!DepositForFine,
             Locking!DepositForBalanced
          DEF Booked, Locking!Fine
<1>5. l \in Ledger BY BookedFacts
<1>6. l.wallet \in [Users -> Nat] /\ l.custody \in Nat /\ l.balance \in [Users -> Nat]
  BY <1>5, Fields
<1>7. /\ c.obligations = l.obligations /\ c.totalObligations = l.totalObligations
      /\ c.balance = l.balance
      /\ c.wallet = [l.wallet EXCEPT ![Network] = l.wallet[Network] - amount]
      /\ c.custody = l.custody + amount
      /\ c = [l EXCEPT !.wallet = c.wallet, !.custody = c.custody]
  BY <1>5 DEF Ledger, claimTokens
<1>8. k = makeConditionalDeposit(c, amount, m, TRUE) BY DEF depositFor
<1> HIDE DEF k, c
<1>9. c.wallet \in [Users -> Nat] /\ c.custody \in Nat BY <1>3, <1>6, <1>7
<1>10. c \in Ledger BY <1>5, <1>7, <1>9 DEF Ledger
<1>11. /\ k.obligations = c.obligations /\ k.totalObligations = c.totalObligations
       /\ k.balance = IF isTokenUnlocked(c, m)
                      THEN [c.balance EXCEPT ![m] = c.balance[m] + amount]
                      ELSE c.balance
       /\ \A v \in Users \ {m} : k.wallet[v] = c.wallet[v]
  BY <1>3, <1>8, <1>10, Paid
<1>12. k.balance[Network] = l.balance[Network] BY <1>3, <1>6, <1>7, <1>11
<1>13. k.wallet[Network] = l.wallet[Network] - amount BY <1>3, <1>6, <1>7, <1>11
<1>14. l.balance[Network] \in Nat BY <1>3, <1>6
<1>15. k.balance[Network] >= l.balance[Network]
  <2> DEFINE kb == k.balance[Network]
             lb == l.balance[Network]
  <2>1. kb = lb /\ lb \in Nat BY <1>12, <1>14
  <2> HIDE DEF kb, lb
  <2>2. kb >= lb BY <2>1
  <2> QED BY <2>2 DEF kb, lb
<1>16. Untouched(l, k) BY <1>7, <1>11, <1>15, Zenon DEF Untouched
<1>17. Booked(k) /\ Untouched(l, k) /\ k.wallet[Network] = l.wallet[Network] - amount
  BY <1>4, <1>13, <1>16, Zenon DEF k
<1> QED BY <1>17, Zenon DEF k

\* m's stake changes by some amount, nobody else's.
Restaked(l, k, m, stake) ==
  /\ k.obligations[m][Network] = stake
  /\ \A v \in Miners \ {m} : k.obligations[v][Network] = l.obligations[v][Network]
  /\ k.totalObligations[Network] = l.totalObligations[Network]

\* Changing one obligation.
LEMMA Reobliged ==
  ASSUME NEW l \in Ledger, NEW m \in Miners, NEW stake \in Int, NEW total \in Int, NEW k,
         k.obligations = [l.obligations EXCEPT ![m] = [l.obligations[m] EXCEPT ![Network] = stake]],
         k.totalObligations = [l.totalObligations EXCEPT ![m] = total]
  PROVE  Restaked(l, k, m, stake)
<1>1. /\ l.obligations \in [Users -> [Obligators -> Nat]]
      /\ l.totalObligations \in [Users -> Nat]
      /\ Network \in Users /\ Network \in Obligators /\ m \in Users /\ m # Network
      /\ \A v \in Miners : v \in Users
  BY Fields, Parties
<1> QED BY <1>1 DEF Restaked

\* stakeForMining's two calls.
LEMMA StakeBooked ==
  ASSUME NEW l, Booked(l), NEW m \in Miners, NEW amount \in Nat,
         canObligateStake(approveStake(l, Network, m, amount), Network, m, amount)
  PROVE  LET k == obligateStake(approveStake(l, Network, m, amount), Network, m, amount)
         IN  /\ Booked(k)
             /\ Restaked(l, k, m, l.obligations[m][Network] + amount)
             /\ k.balance = l.balance
<1> DEFINE a == approveStake(l, Network, m, amount)
           k == obligateStake(a, Network, m, amount)
<1>1. Network \in Users /\ m \in Users /\ Network \in Obligators BY Parties
<1>2. /\ Locking!approveStake(l, Network, m, amount) = a
      /\ Locking!obligateStake(a, Network, m, amount) = k
  <2> HIDE DEF a
  <2>1. Locking!obligateStake(a, Network, m, amount) = k
    BY DEF obligateStake, Locking!obligateStake
  <2> QED BY <2>1 DEF approveStake, Locking!approveStake, a
<1>3. Locking!canObligateStake(a, Network, m, amount)
  <2> HIDE DEF a
  <2>1. canObligateStake(a, Network, m, amount) BY DEF a
  <2> QED BY <2>1 DEF canObligateStake, Locking!canObligateStake
<1>4. Booked(a)
  <2> HIDE DEF a
  <2> QED BY <1>1, <1>2, LockingAssumptions, Locking!ApproveStakeFine,
             Locking!ApproveStakeBalanced
          DEF Booked, Locking!Fine
<1>5. Booked(k)
  <2> HIDE DEF a, k
  <2> QED BY <1>1, <1>2, <1>3, <1>4, LockingAssumptions, Locking!ObligateStakeFine,
             Locking!ObligateStakeBalanced
          DEF Booked, Locking!Fine
<1>6. l \in Ledger /\ a \in Ledger
  <2> HIDE DEF a
  <2> QED BY <1>4, BookedFacts
<1>7. /\ a.obligations = l.obligations /\ a.totalObligations = l.totalObligations
      /\ a.balance = l.balance
  BY <1>6 DEF Ledger, approveStake
<1>8. /\ k.obligations = [a.obligations EXCEPT
                             ![m] = [a.obligations[m] EXCEPT
                                        ![Network] = a.obligations[m][Network] + amount]]
      /\ k.totalObligations = [a.totalObligations EXCEPT ![m] = a.totalObligations[m] + amount]
      /\ k.balance = a.balance
  <2> HIDE DEF a
  <2> QED BY <1>6 DEF Ledger, obligateStake
<1>9. l.obligations[m][Network] + amount \in Int /\ l.totalObligations[m] + amount \in Int
  <2>1. l.obligations[m][Network] \in Nat /\ l.totalObligations[m] \in Nat BY <1>1, <1>6, Fields
  <2> QED BY <2>1
<1> HIDE DEF a, k
<1>10. Restaked(l, k, m, l.obligations[m][Network] + amount)
  BY <1>6, <1>7, <1>8, <1>9, Reobliged
<1> QED BY <1>5, <1>7, <1>8, <1>10 DEF a, k

LEMMA UnstakeBooked ==
  ASSUME NEW l, Booked(l), NEW m \in Miners, NEW amount \in Nat,
         canDeobligateStake(l, Network, m, amount)
  PROVE  LET k == deobligateStake(l, Network, m, amount)
         IN  /\ Booked(k)
             /\ Restaked(l, k, m, l.obligations[m][Network] - amount)
             /\ k.balance = l.balance /\ k.lockCount = l.lockCount /\ k.lockers = l.lockers
<1> DEFINE k == deobligateStake(l, Network, m, amount)
<1>1. Network \in Users /\ m \in Users /\ Network \in Obligators BY Parties
<1>2. Locking!deobligateStake(l, Network, m, amount) = k
  BY DEF deobligateStake, Locking!deobligateStake
<1>3. Locking!canDeobligateStake(l, Network, m, amount)
  BY DEF canDeobligateStake, Locking!canDeobligateStake
<1>4. Booked(k)
  <2> HIDE DEF k
  <2> QED BY <1>1, <1>2, <1>3, LockingAssumptions, Locking!DeobligateStakeFine,
             Locking!DeobligateStakeBalanced
          DEF Booked, Locking!Fine
<1>5. l \in Ledger BY BookedFacts
<1>6. /\ k.obligations = [l.obligations EXCEPT
                             ![m] = [l.obligations[m] EXCEPT
                                        ![Network] = l.obligations[m][Network] - amount]]
      /\ k.totalObligations = [l.totalObligations EXCEPT ![m] = l.totalObligations[m] - amount]
      /\ k.balance = l.balance /\ k.lockCount = l.lockCount /\ k.lockers = l.lockers
  BY <1>5 DEF Ledger, deobligateStake
<1>7. l.obligations[m][Network] - amount \in Int /\ l.totalObligations[m] - amount \in Int
  <2>1. l.obligations[m][Network] \in Nat /\ l.totalObligations[m] \in Nat BY <1>1, <1>5, Fields
  <2> QED BY <2>1
<1> HIDE DEF k
<1>8. Restaked(l, k, m, l.obligations[m][Network] - amount) BY <1>5, <1>6, <1>7, Reobliged
<1> QED BY <1>4, <1>6, <1>8 DEF k

\* A slash by the network, whose own deposit is not locked.
LEMMA SlashBooked ==
  ASSUME NEW l, Booked(l), isTokenUnlocked(l, Network), NEW m \in Miners, NEW amount \in Nat,
         amount <= l.obligations[m][Network]
  PROVE  LET k == transferStake(l, Network, m, amount, Network, TRUE)
         IN  /\ canTransferStake(l, Network, m, amount)
             /\ Booked(k)
             /\ Restaked(l, k, m, l.obligations[m][Network] - amount)
             /\ isTokenUnlocked(k, Network)
             /\ k.balance[Network] = l.balance[Network] + amount
<1> DEFINE k == transferStake(l, Network, m, amount, Network, TRUE)
           e == deobligateStake(l, Network, m, amount)
           d == [e EXCEPT !.balance[m] = @ - amount]
<1>1. /\ Network \in Users /\ m \in Users /\ Network \in Obligators /\ m # Network
      /\ l \in Ledger
  BY Parties, BookedFacts
<1>2. /\ l.obligations[m][Network] \in Nat /\ l.totalObligations[m] \in Nat
      /\ l.balance[m] \in Nat /\ l.balance \in [Users -> Nat]
  BY <1>1, Fields
<1>3. canTransferStake(l, Network, m, amount)
  <2>1. /\ l.obligations[m][Network] <= l.totalObligations[m]
        /\ l.totalObligations[m] <= l.balance[m]
    BY <1>1, BookedFacts
  <2> QED BY <1>2, <2>1 DEF canTransferStake, canDeobligateStake
<1>4. canDeobligateStake(l, Network, m, amount) /\ amount <= l.balance[m]
  BY <1>3 DEF canTransferStake
<1>5. Locking!transferStake(l, Network, m, amount, Network, TRUE) = k
  <2>1. Locking!deobligateStake(l, Network, m, amount) = e
    BY DEF deobligateStake, Locking!deobligateStake
  <2> HIDE DEF e
  <2>2. k = makeConditionalDeposit(d, amount, Network, TRUE) BY DEF transferStake, e
  <2>3. Locking!transferStake(l, Network, m, amount, Network, TRUE)
          = Locking!makeConditionalDeposit(d, amount, Network, TRUE)
    BY <2>1 DEF Locking!transferStake
  <2> QED BY <2>2, <2>3, SamePayment
<1>6. Booked(k)
  <2>1. Locking!canTransferStake(l, Network, m, amount)
    BY <1>3 DEF canTransferStake, Locking!canTransferStake, canDeobligateStake,
                Locking!canDeobligateStake
  <2> HIDE DEF k
  <2> QED BY <1>1, <1>5, <2>1, LockingAssumptions, Locking!TransferStakeFine,
             Locking!TransferStakeBalanced
          DEF Booked, Locking!Fine
<1>7. /\ Booked(e) /\ Restaked(l, e, m, l.obligations[m][Network] - amount)
      /\ e.balance = l.balance /\ e.lockCount = l.lockCount /\ e.lockers = l.lockers
  BY <1>4, UnstakeBooked
<1>8. k = makeConditionalDeposit(d, amount, Network, TRUE) BY DEF transferStake
<1> HIDE DEF k, e
<1>9. e \in Ledger BY <1>7, BookedFacts
<1>10. /\ d.obligations = e.obligations /\ d.totalObligations = e.totalObligations
       /\ d.lockCount = l.lockCount /\ d.lockers = l.lockers
       /\ d.balance = [l.balance EXCEPT ![m] = l.balance[m] - amount]
       /\ d = [e EXCEPT !.balance = d.balance]
  BY <1>7, <1>9 DEF Ledger
<1> HIDE DEF d
<1>11. d.balance \in [Users -> Nat] BY <1>1, <1>2, <1>4, <1>10
<1>12. d \in Ledger BY <1>9, <1>10, <1>11 DEF Ledger
<1>13. isTokenUnlocked(d, Network) BY <1>10 DEF isTokenUnlocked, totalLockCount
<1>14. /\ k.obligations = d.obligations /\ k.totalObligations = d.totalObligations
       /\ k.lockCount = d.lockCount /\ k.lockers = d.lockers
       /\ k.balance = [d.balance EXCEPT ![Network] = d.balance[Network] + amount]
  BY <1>1, <1>8, <1>12, <1>13, Paid
<1>15. isTokenUnlocked(k, Network) BY <1>13, <1>14 DEF isTokenUnlocked, totalLockCount
<1>16. k.balance[Network] = l.balance[Network] + amount BY <1>1, <1>2, <1>10, <1>11, <1>14
<1>17. Restaked(l, k, m, l.obligations[m][Network] - amount)
  BY <1>7, <1>10, <1>14 DEF Restaked
<1> QED BY <1>3, <1>6, <1>15, <1>16, <1>17 DEF k

LEMMA LockBooked ==
  ASSUME NEW l, Booked(l), NEW c \in Obligators
  PROVE  Booked(lockToken(l, c)) /\ Untouched(l, lockToken(l, c))
<1> DEFINE k == lockToken(l, c)
<1>1. Locking!lockToken(l, c) = k BY DEF lockToken, Locking!lockToken
<1>2. Booked(k)
  <2> HIDE DEF k
  <2> QED BY <1>1, LockingAssumptions, Locking!LockTokenFine, Locking!LockTokenBalanced
          DEF Booked, Locking!Fine
<1>3. l \in Ledger BY BookedFacts
<1>4. /\ k.obligations = l.obligations /\ k.totalObligations = l.totalObligations
      /\ k.balance = l.balance
  BY <1>3 DEF Ledger, lockToken
<1>5. l.balance[Network] \in Nat BY <1>3, Fields, Parties
<1> HIDE DEF k
<1>6. Untouched(l, k) BY <1>4, <1>5 DEF Untouched
<1> QED BY <1>2, <1>6 DEF k

LEMMA LockCountBooked ==
  ASSUME NEW l, Booked(l), NEW u \in Users, NEW lockId \in Nat,
         canIncrementLockCounterTo(l, u, lockId)
  PROVE  LET k == incrementLockCounterTo(l, u, lockId)
         IN  Booked(k) /\ Untouched(l, k)
<1> DEFINE k == incrementLockCounterTo(l, u, lockId)
<1>1. k = [l EXCEPT !.lockCount[u] = lockId] BY DEF incrementLockCounterTo
<1>2. lockId <= Locking!totalLockCount(l)
  BY DEF canIncrementLockCounterTo, totalLockCount, Locking!totalLockCount
<1>3. Booked(k)
  <2> HIDE DEF k
  <2> QED BY <1>1, <1>2, LockingAssumptions, Locking!LockCountFine, Locking!LockCountBalanced
          DEF Booked, Locking!Fine
<1>4. l \in Ledger BY BookedFacts
<1>5. /\ k.obligations = l.obligations /\ k.totalObligations = l.totalObligations
      /\ k.balance = l.balance
  BY <1>4 DEF Ledger, incrementLockCounterTo
<1>6. l.balance[Network] \in Nat BY <1>4, Fields, Parties
<1> HIDE DEF k
<1>7. Untouched(l, k) BY <1>5, <1>6 DEF Untouched
<1> QED BY <1>3, <1>7 DEF k

\* Tokens that move between wallets are none of TokenLocking's business.
LEMMA WalletBooked ==
  ASSUME NEW l, Booked(l), NEW w \in [Users -> Nat]
  PROVE  LET k == [l EXCEPT !.wallet = w]
         IN  Booked(k) /\ Untouched(l, k) /\ k.wallet = w /\ k.balance = l.balance
<1> DEFINE k == [l EXCEPT !.wallet = w]
<1>1. l \in Ledger BY BookedFacts
<1>2. /\ k \in Ledger /\ k.wallet = w
      /\ k.obligations = l.obligations /\ k.totalObligations = l.totalObligations
      /\ k.balance = l.balance /\ k.pendingBalance = l.pendingBalance
      /\ k.custody = l.custody /\ k.lockCount = l.lockCount /\ k.lockers = l.lockers
  BY <1>1 DEF Ledger
<1>3. l.balance[Network] \in Nat BY <1>1, Fields, Parties
<1> HIDE DEF k
<1>4. Locking!Good(k)
  BY <1>2, SameLedger DEF Booked, Locking!Good, Locking!totalLockCount
<1>5. Locking!Balanced(k)
  BY <1>2, LockingAssumptions, Locking!BalancedSame DEF Booked
<1>6. Untouched(l, k) BY <1>2, <1>3 DEF Untouched
<1> QED BY <1>2, <1>4, <1>5, <1>6 DEF Booked, k

\* The books are in order before anybody deposits.
LEMMA EmptyBooked == ledger = EmptyLedger(Supply) => Booked(ledger)
<1> SUFFICES ASSUME ledger = EmptyLedger(Supply) PROVE Booked(ledger)
  OBVIOUS
<1>1. Locking!Init BY DEF Locking!Init, EmptyLedger, Locking!EmptyLedger
<1> QED BY <1>1, LockingAssumptions, Locking!InitGood, Locking!InitBalanced DEF Booked

\* Whatever others do with TokenLocking.
LEMMA OthersBooked ==
  ASSUME Booked(ledger), useTokenLocking
  PROVE  Booked(ledger') /\ Untouched(ledger, ledger')
<1>1. /\ ledger \in Ledger
      /\ \A m \in Miners : m \in Users /\ m # Network
      /\ Network \in Users /\ MetaColony \in Obligators
      /\ \A amount \in Amounts : amount \in Nat
      /\ ledger.balance \in [Users -> Nat]
  BY BookedFacts, Parties, Fields, AmountsAssumption
<1>2. ASSUME NEW m \in Miners, NEW amount \in Amounts, NEW force \in BOOLEAN,
             Books!Deposit(m, amount, force)
      PROVE  Booked(ledger') /\ Untouched(ledger, ledger')
  <2>1. /\ canDeposit(ledger, m, amount, force)
        /\ ledger' = deposit(ledger, m, amount, force)
    BY <1>2 DEF Books!Deposit, canDeposit, Books!canDeposit, tokenNotLocked,
         Books!tokenNotLocked, isTokenUnlocked, Books!isTokenUnlocked, totalLockCount,
         Books!totalLockCount, deposit, Books!deposit, forceUnlock, Books!forceUnlock,
         claimTokens, Books!claimTokens
  <2> QED BY <1>1, <2>1, DepositBooked
<1>3. ASSUME NEW m \in Miners, NEW amount \in Amounts, NEW force \in BOOLEAN,
             Books!Withdraw(m, amount, force)
      PROVE  Booked(ledger') /\ Untouched(ledger, ledger')
  <2>1. /\ canWithdraw(ledger, m, amount, force)
        /\ ledger' = withdraw(ledger, m, amount, force)
    BY <1>3 DEF Books!Withdraw, canWithdraw, Books!canWithdraw, tokenNotLocked,
         Books!tokenNotLocked, isTokenUnlocked, Books!isTokenUnlocked, totalLockCount,
         Books!totalLockCount, notObligated, Books!notObligated, withdraw, Books!withdraw,
         forceUnlock, Books!forceUnlock
  <2> DEFINE k == withdraw(ledger, m, amount, force)
  <2>2. /\ Booked(k)
        /\ k.obligations = ledger.obligations
        /\ k.totalObligations = ledger.totalObligations
        /\ \A v \in Users \ {m} : k.balance[v] = ledger.balance[v]
    <3>1. m \in Users /\ amount \in Nat BY <1>1
    <3>2. k = withdraw(ledger, m, amount, force) OBVIOUS
    <3> HIDE DEF k
    <3> QED BY <2>1, <3>1, <3>2, WithdrawBooked
  <2> HIDE DEF k
  <2>3. k.balance[Network] >= ledger.balance[Network] BY <1>1, <2>2
  <2>4. Booked(k) /\ Untouched(ledger, k) BY <2>2, <2>3 DEF Untouched
  <2> QED BY <2>1, <2>4 DEF k
<1>4. ASSUME NEW m \in Miners, NEW amount \in Amounts, NEW force \in BOOLEAN, NEW u \in Miners,
             Books!Transfer(m, amount, u, force, TRUE)
      PROVE  Booked(ledger') /\ Untouched(ledger, ledger')
  <2>1. canTransfer(ledger, m, amount, force)
    BY <1>4 DEF Books!Transfer, canTransfer, Books!canTransfer, tokenNotLocked,
         Books!tokenNotLocked, isTokenUnlocked, Books!isTokenUnlocked, totalLockCount,
         Books!totalLockCount, notObligated, Books!notObligated
  <2>2. ledger' = transfer(ledger, m, amount, u, force, TRUE)
    BY <1>4 DEF Books!Transfer, transfer, Books!transfer, makeConditionalDeposit,
         Books!makeConditionalDeposit, isTokenUnlocked, Books!isTokenUnlocked, totalLockCount,
         Books!totalLockCount, forceUnlock, Books!forceUnlock
  <2> DEFINE k == transfer(ledger, m, amount, u, force, TRUE)
  <2>3. /\ Booked(k)
        /\ k.obligations = ledger.obligations
        /\ k.totalObligations = ledger.totalObligations
        /\ \A v \in Users \ {m, u} : k.balance[v] = ledger.balance[v]
    <3>1. m \in Users /\ u \in Users /\ amount \in Nat BY <1>1
    <3>2. k = transfer(ledger, m, amount, u, force, TRUE) OBVIOUS
    <3> HIDE DEF k
    <3> DEFINE ok == TRUE
    <3>3. ok \in BOOLEAN /\ k = transfer(ledger, m, amount, u, force, ok) BY <3>2
    <3> HIDE DEF ok
    <3>4. Booked(k) BY <2>1, <3>1, <3>3, TransferBooked
    <3>5. k.obligations = ledger.obligations /\ k.totalObligations = ledger.totalObligations
      BY <2>1, <3>1, <3>3, TransferBooked
    <3>6. \A v \in Users \ {m, u} : k.balance[v] = ledger.balance[v]
      BY <2>1, <3>1, <3>3, TransferBooked
    <3> QED BY <3>4, <3>5, <3>6
  <2> HIDE DEF k
  <2>4. k.balance[Network] >= ledger.balance[Network] BY <1>1, <2>3
  <2>5. Booked(k) /\ Untouched(ledger, k) BY <2>3, <2>4 DEF Untouched
  <2> QED BY <2>2, <2>5 DEF k
<1>5. ASSUME Books!LockToken(MetaColony)
      PROVE  Booked(ledger') /\ Untouched(ledger, ledger')
  <2>1. ledger' = lockToken(ledger, MetaColony)
    BY <1>5 DEF Books!LockToken, lockToken, Books!lockToken
  <2> QED BY <1>1, <2>1, LockBooked
<1>6. ASSUME NEW m \in Miners, NEW lockId \in 1 .. MaxLocks,
             Books!IncrementLockCounterTo(m, lockId)
      PROVE  Booked(ledger') /\ Untouched(ledger, ledger')
  <2>1. /\ canIncrementLockCounterTo(ledger, m, lockId)
        /\ ledger' = incrementLockCounterTo(ledger, m, lockId)
    BY <1>6 DEF Books!IncrementLockCounterTo, canIncrementLockCounterTo,
         Books!canIncrementLockCounterTo, totalLockCount, Books!totalLockCount,
         incrementLockCounterTo, Books!incrementLockCounterTo
  <2>2. lockId \in Nat BY AmountsAssumption
  <2> QED BY <1>1, <2>1, <2>2, LockCountBooked
<1> QED BY <1>2, <1>3, <1>4, <1>5, <1>6 DEF useTokenLocking

-----------------------------------------------------------------------------
(* The loops of punishStakers and rewardStakers.                           *)

\* How often m is among the stakers q[i] of the indices T.
hits(T, q, m) == Cardinality({i \in T : q[i] = m})

\* What m loses by that.
loss(T, q, m) == MinStake * hits(T, q, m)

\* One index more, one entry more, if it is of m.
LEMMA LossStep ==
  ASSUME NEW T, IsFiniteSet(T), NEW q, NEW m, NEW x \in T,
         NEW R, R = T \ {x}
  PROVE  /\ loss(T, q, m) \in Nat /\ loss(R, q, m) \in Nat
         /\ q[x] = m => \A n \in Nat : loss(R, q, m) = n => loss(T, q, m) = n + MinStake
         /\ q[x] # m => loss(T, q, m) = loss(R, q, m)
<1> DEFINE A == {i \in T : q[i] = m}
           B == {i \in R : q[i] = m}
<1>1. IsFiniteSet(A) /\ IsFiniteSet(B)
  <2>1. A \subseteq T /\ B \subseteq T OBVIOUS
  <2> HIDE DEF A, B
  <2> QED BY <2>1, FS_Subset
<1>2. Cardinality(A) \in Nat /\ Cardinality(B) \in Nat BY <1>1, FS_CardinalityType
<1>3. Cardinality(A) = Cardinality(B) + (IF q[x] = m THEN 1 ELSE 0)
  <2>1. CASE q[x] = m
    <3>1. A = B \cup {x} /\ x \notin B BY <2>1
    <3>2. Cardinality(B \cup {x}) = Cardinality(B) + 1 BY <1>1, <3>1, FS_AddElement
    <3> QED BY <2>1, <3>1, <3>2, <1>2
  <2>2. CASE q[x] # m
    <3>1. A = B BY <2>2
    <3> HIDE DEF A, B
    <3>2. Cardinality(A) = Cardinality(B) + 0 BY <3>1, <1>2
    <3> QED BY <2>2, <3>2
  <2> QED BY <2>1, <2>2
<1>4. MinStake \in Nat BY AmountsAssumption
<1>5. \A a, b \in Nat : /\ MinStake * a \in Nat
                        /\ a = b + 1 => MinStake * a = MinStake * b + MinStake
  BY <1>4, SMT
<1>6. hits(T, q, m) = Cardinality(A) /\ hits(R, q, m) = Cardinality(B) BY DEF hits
<1> HIDE DEF A, B
<1>7. CASE q[x] = m
  <2>1. loss(T, q, m) = loss(R, q, m) + MinStake /\ loss(T, q, m) \in Nat /\ loss(R, q, m) \in Nat
    BY <1>2, <1>3, <1>5, <1>6, <1>7 DEF loss
  <2> QED BY <1>7, <2>1
<1>8. CASE q[x] # m
  <2>1. Cardinality(A) = Cardinality(B) BY <1>2, <1>3, <1>8
  <2> QED BY <1>2, <1>5, <1>6, <1>8, <2>1 DEF loss
<1> QED BY <1>7, <1>8

LEMMA LossEmpty == ASSUME NEW q, NEW m PROVE loss({}, q, m) = 0
<1>1. {i \in {} : q[i] = m} = {} OBVIOUS
<1>2. hits({}, q, m) = 0 BY <1>1, FS_EmptySet DEF hits
<1> QED BY <1>2, AmountsAssumption DEF loss

LEMMA LossSmaller ==
  ASSUME NEW T, IsFiniteSet(T), NEW U, U \subseteq T, NEW q, NEW m
  PROVE  loss(U, q, m) \in Nat /\ loss(T, q, m) \in Nat /\ loss(U, q, m) <= loss(T, q, m)
<1>1. {i \in U : q[i] = m} \subseteq {i \in T : q[i] = m} OBVIOUS
<1>2. IsFiniteSet({i \in T : q[i] = m}) BY FS_Subset
<1>3. /\ hits(U, q, m) \in Nat /\ hits(T, q, m) \in Nat
      /\ hits(U, q, m) <= hits(T, q, m)
  BY <1>1, <1>2, FS_Subset, FS_CardinalityType DEF hits
<1>4. MinStake \in Nat BY AmountsAssumption
<1>5. \A a, b \in Nat : MinStake * a \in Nat /\ (a <= b => MinStake * a <= MinStake * b)
  BY <1>4, SMT
<1> QED BY <1>3, <1>5 DEF loss

\* The greatest index of a set of indices.
LEMMA LastIndex ==
  ASSUME NEW X, NEW q \in Seq(X), NEW T \in SUBSET (DOMAIN q)
  PROVE  IsFiniteSet(T) /\ (T # {} => Max(T) \in T)
<1>1. DOMAIN q = 1 .. Len(q) /\ Len(q) \in Nat OBVIOUS
<1>2. IsFiniteSet(1 .. Len(q)) BY <1>1, FS_Interval
<1>3. T \subseteq 0 .. Len(q) BY <1>1
<1> QED BY <1>1, <1>2, <1>3, FS_Subset, MaxUpTo

\* The first loop, over the indices T.
losing(s, q, T) ==
  MapThenFoldSet(LAMBDA x, y : loseStake(y, x), s, LAMBDA i : q[i], LAMBDA S : Max(S), T)

LoseTable(s, q, T, h) ==
  h = [U \in SUBSET T |-> IF U = {} THEN s
                          ELSE loseStake(h[U \ {Max(U)}], q[Max(U)])]

\* It is the entry of its table,
LEMMA LosingTable ==
  ASSUME NEW s, NEW q, NEW T, NEW h, LoseTable(s, q, T, h)
  PROVE  \E g : LoseTable(s, q, T, g) /\ losing(s, q, T) = g[T]
BY DEF losing, MapThenFoldSet, LoseTable

\* of which there is but one.
LEMMA LosingOnce ==
  ASSUME NEW s, NEW q, NEW X, q \in Seq(X), NEW T \in SUBSET (DOMAIN q),
         NEW g, LoseTable(s, q, T, g), NEW h, LoseTable(s, q, T, h)
  PROVE  g = h
<1> DEFINE Bad == {U \in SUBSET T : g[U] # h[U]}
<1>1. \A U \in SUBSET T :
        /\ g[U] = IF U = {} THEN s ELSE loseStake(g[U \ {Max(U)}], q[Max(U)])
        /\ h[U] = IF U = {} THEN s ELSE loseStake(h[U \ {Max(U)}], q[Max(U)])
  BY DEF LoseTable
<1>2. ASSUME Bad # {} PROVE FALSE
  <2>1. PICK U \in Bad : \A V \in Bad : V \subseteq U => V = U
    <3> HIDE DEF Bad
    <3>1. Bad \subseteq SUBSET T BY DEF Bad
    <3>2. IsFiniteSet(T) BY LastIndex
    <3> QED BY <1>2, <3>1, <3>2, SmallestSubset
  <2>2. U # {} BY <1>1, <2>1
  <2>3. U \in SUBSET (DOMAIN q) BY <2>1
  <2>4. Max(U) \in U BY <2>2, <2>3, LastIndex
  <2>5. U \ {Max(U)} \notin Bad /\ U \ {Max(U)} \in SUBSET T BY <2>1, <2>4
  <2>6. g[U \ {Max(U)}] = h[U \ {Max(U)}] BY <2>5
  <2>7. g[U] = h[U] BY <1>1, <2>1, <2>6
  <2> QED BY <2>1, <2>7
<1>3. \A U \in SUBSET T : g[U] = h[U] BY <1>2
<1>4. g = [U \in SUBSET T |-> g[U]] /\ h = [U \in SUBSET T |-> h[U]]
  BY DEF LoseTable
<1> QED BY <1>3, <1>4

\* The last index is the last step.
LEMMA LosingStep ==
  ASSUME NEW s, NEW q, NEW X, q \in Seq(X), NEW S \in SUBSET (DOMAIN q)
  PROVE  losing(s, q, S)
           = IF S = {} THEN s
             ELSE loseStake(losing(s, q, S \ {Max(S)}), q[Max(S)])
<1> DEFINE run(T) == losing(s, q, T)
           rest(T) == T \ {Max(T)}
           step(T) == IF T = {} THEN s ELSE loseStake(run(rest(T)), q[Max(T)])
           Bad == {T \in SUBSET S : run(T) # step(T)}
<1>1. ASSUME Bad # {} PROVE FALSE
  <2>1. PICK T \in Bad : \A U \in Bad : U \subseteq T => U = T
    <3> HIDE DEF Bad
    <3>1. Bad \subseteq SUBSET S BY DEF Bad
    <3>2. IsFiniteSet(S) BY LastIndex
    <3> QED BY <1>1, <3>1, <3>2, SmallestSubset
  <2>2. \A U \in SUBSET T : U # T => run(U) = step(U) BY <2>1
  <2> DEFINE h == [U \in SUBSET T |-> IF U = T THEN step(T) ELSE run(U)]
  <2>3. \A U \in SUBSET T : U # {} => Max(U) \in U
    <3>1. \A U \in SUBSET T : U \in SUBSET (DOMAIN q) BY <2>1
    <3> QED BY <3>1, LastIndex
  <2>4. ASSUME NEW U \in SUBSET T
        PROVE  h[U] = IF U = {} THEN s ELSE loseStake(h[rest(U)], q[Max(U)])
    <3>1. h[U] = step(U) BY <2>2
    <3>2. U # {} => rest(U) \in SUBSET T /\ rest(U) # T BY <2>3
    <3>3. U # {} => h[rest(U)] = run(rest(U)) BY <3>2
    <3> QED BY <3>1, <3>3
  <2>5. LoseTable(s, q, T, h)
    <3>1. h = [U \in SUBSET T |-> h[U]] OBVIOUS
    <3> HIDE DEF h
    <3>2. h = [U \in SUBSET T |-> IF U = {} THEN s
                                  ELSE loseStake(h[rest(U)], q[Max(U)])]
      BY <2>4, <3>1
    <3> QED BY <3>2 DEF LoseTable
  <2>6. PICK g : LoseTable(s, q, T, g) /\ run(T) = g[T]
    <3> HIDE DEF h
    <3> QED BY <2>5, LosingTable
  <2>7. T \in SUBSET (DOMAIN q) BY <2>1
  <2>8. g = h
    <3> HIDE DEF h
    <3> QED BY <2>5, <2>6, <2>7, LosingOnce
  <2>9. run(T) = step(T) BY <2>6, <2>8
  <2> QED BY <2>1, <2>9
<1>2. S \notin Bad BY <1>1
<1> QED BY <1>2

LEMMA LosingLoop ==
  ASSUME NEW s, NEW q PROVE FoldLeft(loseStake, s, q) = losing(s, q, DOMAIN q)
BY DEF FoldLeft, losing

\* The second loop, over the indices T.
taking(s, q, T) ==
  MapThenFoldSet(LAMBDA x, y : takeStake(y, x), s, LAMBDA i : q[i], LAMBDA S : Max(S), T)

TakeTable(s, q, T, h) ==
  h = [U \in SUBSET T |-> IF U = {} THEN s
                          ELSE takeStake(h[U \ {Max(U)}], q[Max(U)])]

\* It is the entry of its table,
LEMMA TakingTable ==
  ASSUME NEW s, NEW q, NEW T, NEW h, TakeTable(s, q, T, h)
  PROVE  \E g : TakeTable(s, q, T, g) /\ taking(s, q, T) = g[T]
BY DEF taking, MapThenFoldSet, TakeTable

\* of which there is but one.
LEMMA TakingOnce ==
  ASSUME NEW s, NEW q, NEW X, q \in Seq(X), NEW T \in SUBSET (DOMAIN q),
         NEW g, TakeTable(s, q, T, g), NEW h, TakeTable(s, q, T, h)
  PROVE  g = h
<1> DEFINE Bad == {U \in SUBSET T : g[U] # h[U]}
<1>1. \A U \in SUBSET T :
        /\ g[U] = IF U = {} THEN s ELSE takeStake(g[U \ {Max(U)}], q[Max(U)])
        /\ h[U] = IF U = {} THEN s ELSE takeStake(h[U \ {Max(U)}], q[Max(U)])
  BY DEF TakeTable
<1>2. ASSUME Bad # {} PROVE FALSE
  <2>1. PICK U \in Bad : \A V \in Bad : V \subseteq U => V = U
    <3> HIDE DEF Bad
    <3>1. Bad \subseteq SUBSET T BY DEF Bad
    <3>2. IsFiniteSet(T) BY LastIndex
    <3> QED BY <1>2, <3>1, <3>2, SmallestSubset
  <2>2. U # {} BY <1>1, <2>1
  <2>3. U \in SUBSET (DOMAIN q) BY <2>1
  <2>4. Max(U) \in U BY <2>2, <2>3, LastIndex
  <2>5. U \ {Max(U)} \notin Bad /\ U \ {Max(U)} \in SUBSET T BY <2>1, <2>4
  <2>6. g[U \ {Max(U)}] = h[U \ {Max(U)}] BY <2>5
  <2>7. g[U] = h[U] BY <1>1, <2>1, <2>6
  <2> QED BY <2>1, <2>7
<1>3. \A U \in SUBSET T : g[U] = h[U] BY <1>2
<1>4. g = [U \in SUBSET T |-> g[U]] /\ h = [U \in SUBSET T |-> h[U]]
  BY DEF TakeTable
<1> QED BY <1>3, <1>4

\* The last index is the last step.
LEMMA TakingStep ==
  ASSUME NEW s, NEW q, NEW X, q \in Seq(X), NEW S \in SUBSET (DOMAIN q)
  PROVE  taking(s, q, S)
           = IF S = {} THEN s
             ELSE takeStake(taking(s, q, S \ {Max(S)}), q[Max(S)])
<1> DEFINE run(T) == taking(s, q, T)
           rest(T) == T \ {Max(T)}
           step(T) == IF T = {} THEN s ELSE takeStake(run(rest(T)), q[Max(T)])
           Bad == {T \in SUBSET S : run(T) # step(T)}
<1>1. ASSUME Bad # {} PROVE FALSE
  <2>1. PICK T \in Bad : \A U \in Bad : U \subseteq T => U = T
    <3> HIDE DEF Bad
    <3>1. Bad \subseteq SUBSET S BY DEF Bad
    <3>2. IsFiniteSet(S) BY LastIndex
    <3> QED BY <1>1, <3>1, <3>2, SmallestSubset
  <2>2. \A U \in SUBSET T : U # T => run(U) = step(U) BY <2>1
  <2> DEFINE h == [U \in SUBSET T |-> IF U = T THEN step(T) ELSE run(U)]
  <2>3. \A U \in SUBSET T : U # {} => Max(U) \in U
    <3>1. \A U \in SUBSET T : U \in SUBSET (DOMAIN q) BY <2>1
    <3> QED BY <3>1, LastIndex
  <2>4. ASSUME NEW U \in SUBSET T
        PROVE  h[U] = IF U = {} THEN s ELSE takeStake(h[rest(U)], q[Max(U)])
    <3>1. h[U] = step(U) BY <2>2
    <3>2. U # {} => rest(U) \in SUBSET T /\ rest(U) # T BY <2>3
    <3>3. U # {} => h[rest(U)] = run(rest(U)) BY <3>2
    <3> QED BY <3>1, <3>3
  <2>5. TakeTable(s, q, T, h)
    <3>1. h = [U \in SUBSET T |-> h[U]] OBVIOUS
    <3> HIDE DEF h
    <3>2. h = [U \in SUBSET T |-> IF U = {} THEN s
                                  ELSE takeStake(h[rest(U)], q[Max(U)])]
      BY <2>4, <3>1
    <3> QED BY <3>2 DEF TakeTable
  <2>6. PICK g : TakeTable(s, q, T, g) /\ run(T) = g[T]
    <3> HIDE DEF h
    <3> QED BY <2>5, TakingTable
  <2>7. T \in SUBSET (DOMAIN q) BY <2>1
  <2>8. g = h
    <3> HIDE DEF h
    <3> QED BY <2>5, <2>6, <2>7, TakingOnce
  <2>9. run(T) = step(T) BY <2>6, <2>8
  <2> QED BY <2>1, <2>9
<1>2. S \notin Bad BY <1>1
<1> QED BY <1>2

LEMMA TakingLoop ==
  ASSUME NEW s, NEW q PROVE FoldLeft(takeStake, s, q) = taking(s, q, DOMAIN q)
BY DEF FoldLeft, taking

\* The loop of rewardStakers, over the indices T of the stakers q.
payShare(x, q, share, i) == depositFor(x, Network, share[i], q[i], TRUE)

same(q) == [i \in DOMAIN q |-> i]

paying(s, q, share, T) ==
  MapThenFoldSet(LAMBDA i, x : payShare(x, q, share, i), s, LAMBDA i : same(q)[i],
                 LAMBDA S : Max(S), T)

PayTable(s, q, share, T, h) ==
  h = [U \in SUBSET T |-> IF U = {} THEN s
                          ELSE payShare(h[U \ {Max(U)}], q, share, same(q)[Max(U)])]

\* It is the entry of its table,
LEMMA PayingTable ==
  ASSUME NEW s, NEW q, NEW share, NEW T, NEW h, PayTable(s, q, share, T, h)
  PROVE  \E g : PayTable(s, q, share, T, g) /\ paying(s, q, share, T) = g[T]
BY DEF paying, MapThenFoldSet, PayTable

\* of which there is but one.
LEMMA PayingOnce ==
  ASSUME NEW s, NEW q, NEW share, NEW X, q \in Seq(X), NEW T \in SUBSET (DOMAIN q),
         NEW g, PayTable(s, q, share, T, g), NEW h, PayTable(s, q, share, T, h)
  PROVE  g = h
<1> DEFINE Bad == {U \in SUBSET T : g[U] # h[U]}
<1>1. \A U \in SUBSET T :
        /\ g[U] = IF U = {} THEN s ELSE payShare(g[U \ {Max(U)}], q, share, same(q)[Max(U)])
        /\ h[U] = IF U = {} THEN s ELSE payShare(h[U \ {Max(U)}], q, share, same(q)[Max(U)])
  BY DEF PayTable
<1>2. ASSUME Bad # {} PROVE FALSE
  <2>1. PICK U \in Bad : \A V \in Bad : V \subseteq U => V = U
    <3> HIDE DEF Bad
    <3>1. Bad \subseteq SUBSET T BY DEF Bad
    <3>2. IsFiniteSet(T) BY LastIndex
    <3> QED BY <1>2, <3>1, <3>2, SmallestSubset
  <2>2. U # {} BY <1>1, <2>1
  <2>3. U \in SUBSET (DOMAIN q) BY <2>1
  <2>4. Max(U) \in U BY <2>2, <2>3, LastIndex
  <2>5. U \ {Max(U)} \notin Bad /\ U \ {Max(U)} \in SUBSET T BY <2>1, <2>4
  <2>6. g[U \ {Max(U)}] = h[U \ {Max(U)}] BY <2>5
  <2>7. g[U] = h[U] BY <1>1, <2>1, <2>6
  <2> QED BY <2>1, <2>7
<1>3. \A U \in SUBSET T : g[U] = h[U] BY <1>2
<1>4. g = [U \in SUBSET T |-> g[U]] /\ h = [U \in SUBSET T |-> h[U]]
  BY DEF PayTable
<1> QED BY <1>3, <1>4

\* The last index is the last step.
LEMMA PayingStep ==
  ASSUME NEW s, NEW q, NEW share, NEW X, q \in Seq(X), NEW S \in SUBSET (DOMAIN q)
  PROVE  paying(s, q, share, S)
           = IF S = {} THEN s
             ELSE payShare(paying(s, q, share, S \ {Max(S)}), q, share, same(q)[Max(S)])
<1> DEFINE run(T) == paying(s, q, share, T)
           rest(T) == T \ {Max(T)}
           step(T) == IF T = {} THEN s ELSE payShare(run(rest(T)), q, share, same(q)[Max(T)])
           Bad == {T \in SUBSET S : run(T) # step(T)}
<1>1. ASSUME Bad # {} PROVE FALSE
  <2>1. PICK T \in Bad : \A U \in Bad : U \subseteq T => U = T
    <3> HIDE DEF Bad
    <3>1. Bad \subseteq SUBSET S BY DEF Bad
    <3>2. IsFiniteSet(S) BY LastIndex
    <3> QED BY <1>1, <3>1, <3>2, SmallestSubset
  <2>2. \A U \in SUBSET T : U # T => run(U) = step(U) BY <2>1
  <2> DEFINE h == [U \in SUBSET T |-> IF U = T THEN step(T) ELSE run(U)]
  <2>3. \A U \in SUBSET T : U # {} => Max(U) \in U
    <3>1. \A U \in SUBSET T : U \in SUBSET (DOMAIN q) BY <2>1
    <3> QED BY <3>1, LastIndex
  <2>4. ASSUME NEW U \in SUBSET T
        PROVE  h[U] = IF U = {} THEN s ELSE payShare(h[rest(U)], q, share, same(q)[Max(U)])
    <3>1. h[U] = step(U) BY <2>2
    <3>2. U # {} => rest(U) \in SUBSET T /\ rest(U) # T BY <2>3
    <3>3. U # {} => h[rest(U)] = run(rest(U)) BY <3>2
    <3> QED BY <3>1, <3>3
  <2>5. PayTable(s, q, share, T, h)
    <3>1. h = [U \in SUBSET T |-> h[U]] OBVIOUS
    <3> HIDE DEF h
    <3>2. h = [U \in SUBSET T |-> IF U = {} THEN s
                                  ELSE payShare(h[rest(U)], q, share, same(q)[Max(U)])]
      BY <2>4, <3>1
    <3> QED BY <3>2 DEF PayTable
  <2>6. PICK g : PayTable(s, q, share, T, g) /\ run(T) = g[T]
    <3> HIDE DEF h
    <3> QED BY <2>5, PayingTable
  <2>7. T \in SUBSET (DOMAIN q) BY <2>1
  <2>8. g = h
    <3> HIDE DEF h
    <3> QED BY <2>5, <2>6, <2>7, PayingOnce
  <2>9. run(T) = step(T) BY <2>6, <2>8
  <2> QED BY <2>1, <2>9
<1>2. S \notin Bad BY <1>1
<1> QED BY <1>2

LEMMA PayingLoop ==
  ASSUME NEW s, NEW q, NEW share
  PROVE  rewardStakers(s, q, share) = paying(s, q, share, DOMAIN q)
<1>1. DOMAIN same(q) = DOMAIN q BY DEF same
<1> QED BY <1>1 DEF rewardStakers, FoldLeftDomain, FoldLeft, paying, payShare, same

-----------------------------------------------------------------------------
(* What the loops do.                                                      *)

\* What punishStakers works on.
Slashing == [ledger : Ledger, miningStakes : [Miners -> Nat], lostStake : Nat, ok : BOOLEAN]

\* s with other stakes and another last loss.
LEMMA LoseOne ==
  ASSUME NEW s \in Slashing, NEW m \in Miners, MinStake <= s.miningStakes[m]
  PROVE  LET t == loseStake(s, m)
         IN  /\ t \in Slashing /\ t.ledger = s.ledger /\ t.ok = s.ok /\ t.lostStake = MinStake
             /\ t.miningStakes[m] = s.miningStakes[m] - MinStake
             /\ \A v \in Miners \ {m} : t.miningStakes[v] = s.miningStakes[v]
<1> DEFINE t == loseStake(s, m)
           lostStake == Min({s.miningStakes[m], MinStake})
<1>1. MinStake \in Nat BY AmountsAssumption
<1>2. s.miningStakes \in [Miners -> Nat] /\ s.miningStakes[m] \in Nat BY DEF Slashing
<1>3. lostStake = MinStake
  <2> DEFINE a == s.miningStakes[m]
  <2>1. a \in Nat /\ MinStake <= a BY <1>2
  <2> HIDE DEF a
  <2>2. {a, MinStake} \subseteq Nat /\ {a, MinStake} # {} BY <1>1, <2>1
  <2>3. Min({a, MinStake}) \in {a, MinStake} /\ Min({a, MinStake}) <= MinStake
    BY <2>2, MinNatural
  <2>4. Min({a, MinStake}) = MinStake BY <1>1, <2>1, <2>3
  <2> QED BY <2>4 DEF a
<1>4. t = [s EXCEPT !.miningStakes[m] = @ - lostStake, !.lostStake = lostStake]
  BY DEF loseStake
<1> HIDE DEF t, lostStake
<1>5. /\ t.ledger = s.ledger /\ t.ok = s.ok /\ t.lostStake = MinStake
      /\ t.miningStakes = [s.miningStakes EXCEPT ![m] = s.miningStakes[m] - MinStake]
      /\ t = [ledger |-> s.ledger, miningStakes |-> t.miningStakes, lostStake |-> MinStake,
              ok |-> s.ok]
  BY <1>3, <1>4 DEF Slashing
<1>6. t.miningStakes \in [Miners -> Nat] BY <1>1, <1>2, <1>5
<1>7. s.ledger \in Ledger /\ s.ok \in BOOLEAN BY DEF Slashing
<1>8. t \in Slashing BY <1>1, <1>5, <1>6, <1>7, Zenon DEF Slashing
<1>9. /\ t.miningStakes[m] = s.miningStakes[m] - MinStake
      /\ \A v \in Miners \ {m} : t.miningStakes[v] = s.miningStakes[v]
  BY <1>2, <1>5
<1> QED BY <1>5, <1>8, <1>9 DEF t

\* Of the first loop, over T.
Lost(s, q, T, t) ==
  /\ t \in Slashing /\ t.ledger = s.ledger /\ t.ok = s.ok
  /\ T # {} => t.lostStake = MinStake
  /\ \A m \in Miners : t.miningStakes[m] = s.miningStakes[m] - loss(T, q, m)

\* Every staker loses a MIN_STAKE per entry, if its stake is worth its entries.
LEMMA LosingResult ==
  ASSUME NEW s \in Slashing, NEW q \in Seq(Miners),
         \A m \in Miners : loss(DOMAIN q, q, m) <= s.miningStakes[m]
  PROVE  Lost(s, q, DOMAIN q, losing(s, q, DOMAIN q))
<1> DEFINE D == DOMAIN q
           Bad == {T \in SUBSET D : ~ Lost(s, q, T, losing(s, q, T))}
<1>1. IsFiniteSet(D) BY LastIndex
<1>2. \A m \in Miners : s.miningStakes[m] \in Nat BY DEF Slashing
<1>3. MinStake \in Nat BY AmountsAssumption
<1>4. ASSUME Bad # {} PROVE FALSE
  <2>1. PICK T \in Bad : \A U \in Bad : U \subseteq T => U = T
    <3> HIDE DEF Bad
    <3>1. Bad \subseteq SUBSET D BY DEF Bad
    <3> QED BY <1>1, <1>4, <3>1, SmallestSubset
  <2>2. T \in SUBSET D /\ IsFiniteSet(T) BY <1>1, <2>1, FS_Subset
  <2>3. CASE T = {}
    <3>1. losing(s, q, {}) = s
      <4>1. {} \in SUBSET (DOMAIN q) OBVIOUS
      <4> QED BY <4>1, LosingStep
    <3>2. \A m \in Miners : s.miningStakes[m] = s.miningStakes[m] - loss({}, q, m)
      BY <1>2, LossEmpty
    <3>3. Lost(s, q, {}, s) BY <3>2 DEF Lost
    <3>4. ~ Lost(s, q, {}, losing(s, q, {})) BY <2>1, <2>3
    <3> QED BY <3>1, <3>3, <3>4
  <2>4. CASE T # {}
    <3> DEFINE x == Max(T)
               R == T \ {x}
               r == losing(s, q, R)
               t == losing(s, q, T)
    <3>1. x \in T /\ x \in D BY <2>2, <2>4, LastIndex
    <3>2. q[x] \in Miners BY <3>1
    <3>3. Lost(s, q, R, r)
      <4>1. R \in SUBSET D /\ R \subseteq T /\ R # T BY <2>2, <3>1
      <4>2. R \notin Bad
        <5> HIDE DEF Bad
        <5> QED BY <2>1, <4>1
      <4> QED BY <4>1, <4>2
    <3>4. t = loseStake(r, q[x])
      <4>1. T \in SUBSET (DOMAIN q) BY <2>2
      <4> QED BY <2>4, <4>1, LosingStep
    <3> HIDE DEF r, t, x, Bad, D
    <3>5. \A m \in Miners :
            /\ loss(T, q, m) \in Nat /\ loss(R, q, m) \in Nat
            /\ q[x] = m => loss(T, q, m) = loss(R, q, m) + MinStake
            /\ q[x] # m => loss(T, q, m) = loss(R, q, m)
            /\ loss(T, q, m) <= s.miningStakes[m]
      <4>1. \A m \in Miners : /\ loss(T, q, m) \in Nat /\ loss(D, q, m) \in Nat
                              /\ loss(T, q, m) <= loss(D, q, m)
        BY <1>1, <2>2, LossSmaller
      <4>2. \A m \in Miners : loss(D, q, m) <= s.miningStakes[m] BY DEF D
      <4>3. \A m \in Miners : loss(T, q, m) <= s.miningStakes[m]
        <5>1. \A a, b, c \in Nat : a <= b /\ b <= c => a <= c OBVIOUS
        <5> QED BY <1>2, <4>1, <4>2, <5>1, Zenon
      <4>4. ASSUME NEW m \in Miners
            PROVE  /\ loss(R, q, m) \in Nat
                   /\ q[x] = m => loss(T, q, m) = loss(R, q, m) + MinStake
                   /\ q[x] # m => loss(T, q, m) = loss(R, q, m)
        <5>1. R = T \ {x} OBVIOUS
        <5> HIDE DEF R
        <5>2. loss(R, q, m) \in Nat BY <2>2, <3>1, <5>1, LossStep
        <5>3. ASSUME q[x] = m PROVE loss(T, q, m) = loss(R, q, m) + MinStake
          BY <1>3, <2>2, <3>1, <5>1, <5>3, LossStep
        <5>4. ASSUME q[x] # m PROVE loss(T, q, m) = loss(R, q, m)
          BY <2>2, <3>1, <5>1, <5>4, LossStep
        <5> QED BY <5>2, <5>3, <5>4
      <4> QED BY <4>1, <4>3, <4>4
    <3>6. /\ r \in Slashing /\ r.ledger = s.ledger /\ r.ok = s.ok
          /\ \A m \in Miners : r.miningStakes[m] = s.miningStakes[m] - loss(R, q, m)
      BY <3>3 DEF Lost
    <3>7. MinStake <= r.miningStakes[q[x]]
      <4> DEFINE w == q[x]
                 a == s.miningStakes[w]
                 b == loss(R, q, w)
                 c == loss(T, q, w)
      <4>1. w \in Miners BY <3>2
      <4>2. /\ a \in Nat /\ b \in Nat /\ c = b + MinStake /\ c <= a
            /\ r.miningStakes[w] = a - b
        BY <1>2, <3>5, <3>6, <4>1
      <4> HIDE DEF w, a, b, c
      <4>3. MinStake <= r.miningStakes[w] BY <1>3, <4>2
      <4> QED BY <4>3 DEF w
    <3>8. /\ t \in Slashing /\ t.ledger = r.ledger /\ t.ok = r.ok /\ t.lostStake = MinStake
          /\ t.miningStakes[q[x]] = r.miningStakes[q[x]] - MinStake
          /\ \A v \in Miners \ {q[x]} : t.miningStakes[v] = r.miningStakes[v]
      BY <3>2, <3>4, <3>6, <3>7, LoseOne
    <3>9. ASSUME NEW m \in Miners
          PROVE  t.miningStakes[m] = s.miningStakes[m] - loss(T, q, m)
      <4> DEFINE a == s.miningStakes[m]
                 b == loss(R, q, m)
                 c == loss(T, q, m)
      <4>1. a \in Nat /\ b \in Nat /\ r.miningStakes[m] = a - b BY <1>2, <3>5, <3>6
      <4>2. CASE m = q[x]
        <5>1. c = b + MinStake /\ t.miningStakes[m] = r.miningStakes[m] - MinStake
          BY <3>5, <3>8, <4>2
        <5> HIDE DEF a, b, c
        <5>2. t.miningStakes[m] = a - c BY <1>3, <4>1, <5>1
        <5> QED BY <5>2 DEF a, c
      <4>3. CASE m # q[x]
        <5>1. c = b /\ t.miningStakes[m] = r.miningStakes[m] BY <3>5, <3>8, <4>3
        <5> QED BY <4>1, <5>1
      <4> QED BY <4>2, <4>3
    <3>10. Lost(s, q, T, t) BY <3>6, <3>8, <3>9 DEF Lost
    <3>11. ~ Lost(s, q, T, t) BY <2>1 DEF Bad, t
    <3> QED BY <3>10, <3>11
  <2> QED BY <2>3, <2>4
<1>5. D \notin Bad BY <1>4
<1> QED BY <1>5

\* What the second loop needs of s: nothing went wrong yet, and the network can
\* be paid into its deposit.
Taking(s) ==
  s \in Slashing /\ s.ok /\ Booked(s.ledger) /\ isTokenUnlocked(s.ledger, Network)

\* One stake is taken, and lands in the network's deposit.
LEMMA TakeOne ==
  ASSUME NEW s, Taking(s), NEW m \in Miners, s.lostStake = MinStake,
         MinStake <= s.ledger.obligations[m][Network]
  PROVE  LET t == takeStake(s, m)
         IN  /\ Taking(t) /\ t.miningStakes = s.miningStakes /\ t.lostStake = s.lostStake
             /\ Restaked(s.ledger, t.ledger, m, s.ledger.obligations[m][Network] - MinStake)
             /\ t.ledger.balance[Network] = s.ledger.balance[Network] + MinStake
<1> DEFINE t == takeStake(s, m)
           l == s.ledger
           k == transferStake(l, Network, m, MinStake, Network, TRUE)
<1>1. MinStake \in Nat BY AmountsAssumption
<1>2. /\ canTransferStake(l, Network, m, MinStake)
      /\ Booked(k)
      /\ Restaked(l, k, m, l.obligations[m][Network] - MinStake)
      /\ isTokenUnlocked(k, Network)
      /\ k.balance[Network] = l.balance[Network] + MinStake
  <2> HIDE DEF l
  <2>1. Booked(l) /\ isTokenUnlocked(l, Network) /\ MinStake <= l.obligations[m][Network]
    BY DEF Taking, l
  <2> QED BY <1>1, <2>1, SlashBooked
<1> HIDE DEF k
<1>3. t = [s EXCEPT !.ledger = k, !.ok = TRUE]
  <2>1. /\ s \in Slashing /\ s.ok = TRUE /\ canTransferStake(l, Network, m, MinStake) = TRUE
    BY <1>2 DEF Taking, Slashing
  <2>2. t = [s EXCEPT !.ledger = transferStake(@, Network, m, s.lostStake, Network, TRUE),
                      !.ok = @ /\ canTransferStake(s.ledger, Network, m, s.lostStake)]
    BY DEF takeStake
  <2>3. s.lostStake = MinStake OBVIOUS
  <2>4. (s.ok /\ canTransferStake(s.ledger, Network, m, s.lostStake)) = TRUE BY <2>1, <2>3
  <2> QED BY <2>1, <2>2, <2>3, <2>4 DEF Slashing, k
<1> HIDE DEF t
<1>4. /\ t.ledger = k /\ t.ok = TRUE /\ t.miningStakes = s.miningStakes
      /\ t.lostStake = s.lostStake
      /\ t = [ledger |-> k, miningStakes |-> s.miningStakes, lostStake |-> s.lostStake,
              ok |-> TRUE]
  BY <1>3 DEF Taking, Slashing
<1>5. k \in Ledger BY <1>2, BookedFacts
<1>6. s.miningStakes \in [Miners -> Nat] /\ s.lostStake \in Nat BY DEF Taking, Slashing
<1>7. t \in Slashing BY <1>4, <1>5, <1>6 DEF Slashing
<1>8. Taking(t) BY <1>2, <1>4, <1>7 DEF Taking
<1> QED BY <1>2, <1>4, <1>8 DEF t

\* Of the second loop, over T.
Taken(s, q, T, t) ==
  /\ Taking(t) /\ t.miningStakes = s.miningStakes /\ t.lostStake = s.lostStake
  /\ t.ledger.totalObligations[Network] = s.ledger.totalObligations[Network]
  /\ \A m \in Miners :
       t.ledger.obligations[m][Network] = s.ledger.obligations[m][Network] - loss(T, q, m)
  /\ t.ledger.balance[Network] = s.ledger.balance[Network] + MinStake * Cardinality(T)

\* No transfer of the second loop reverts, and each takes a MIN_STAKE.
LEMMA TakingResult ==
  ASSUME NEW s, Taking(s), NEW q \in Seq(Miners), q # <<>> => s.lostStake = MinStake,
         \A m \in Miners : loss(DOMAIN q, q, m) <= s.ledger.obligations[m][Network]
  PROVE  Taken(s, q, DOMAIN q, taking(s, q, DOMAIN q))
<1> DEFINE D == DOMAIN q
           Bad == {T \in SUBSET D : ~ Taken(s, q, T, taking(s, q, T))}
<1>1. IsFiniteSet(D) BY LastIndex
<1>2. /\ \A m \in Miners : s.ledger.obligations[m][Network] \in Nat
      /\ s.ledger.balance[Network] \in Nat
  BY Parties, Fields DEF Taking, Slashing
<1>3. MinStake \in Nat BY AmountsAssumption
<1>4. ASSUME Bad # {} PROVE FALSE
  <2>1. PICK T \in Bad : \A U \in Bad : U \subseteq T => U = T
    <3> HIDE DEF Bad
    <3>1. Bad \subseteq SUBSET D BY DEF Bad
    <3> QED BY <1>1, <1>4, <3>1, SmallestSubset
  <2>2. T \in SUBSET D /\ IsFiniteSet(T) BY <1>1, <2>1, FS_Subset
  <2>3. CASE T = {}
    <3>1. taking(s, q, {}) = s
      <4>1. {} \in SUBSET (DOMAIN q) OBVIOUS
      <4> QED BY <4>1, TakingStep
    <3>2. \A m \in Miners :
            s.ledger.obligations[m][Network]
              = s.ledger.obligations[m][Network] - loss({}, q, m)
      BY <1>2, LossEmpty
    <3>3. s.ledger.balance[Network] = s.ledger.balance[Network] + MinStake * Cardinality({})
      BY <1>2, <1>3, FS_EmptySet
    <3>4. Taken(s, q, {}, s) BY <3>2, <3>3 DEF Taken
    <3>5. ~ Taken(s, q, {}, taking(s, q, {})) BY <2>1, <2>3
    <3> QED BY <3>1, <3>4, <3>5
  <2>4. CASE T # {}
    <3> DEFINE x == Max(T)
               R == T \ {x}
               r == taking(s, q, R)
               t == taking(s, q, T)
    <3>1. x \in T /\ x \in D BY <2>2, <2>4, LastIndex
    <3>2. q[x] \in Miners /\ s.lostStake = MinStake BY <3>1
    <3>3. Taken(s, q, R, r)
      <4>1. R \in SUBSET D /\ R \subseteq T /\ R # T BY <2>2, <3>1
      <4>2. R \notin Bad
        <5> HIDE DEF Bad
        <5> QED BY <2>1, <4>1
      <4> QED BY <4>1, <4>2
    <3>4. t = takeStake(r, q[x])
      <4>1. T \in SUBSET (DOMAIN q) BY <2>2
      <4> QED BY <2>4, <4>1, TakingStep
    <3>5. R = T \ {x} OBVIOUS
    <3> HIDE DEF r, t, x, R, Bad, D
    <3>6. ASSUME NEW m \in Miners
          PROVE  /\ loss(T, q, m) \in Nat /\ loss(R, q, m) \in Nat
                 /\ q[x] = m => loss(T, q, m) = loss(R, q, m) + MinStake
                 /\ q[x] # m => loss(T, q, m) = loss(R, q, m)
                 /\ loss(T, q, m) <= s.ledger.obligations[m][Network]
      <4>1. /\ loss(T, q, m) \in Nat /\ loss(D, q, m) \in Nat
            /\ loss(T, q, m) <= loss(D, q, m)
        BY <1>1, <2>2, LossSmaller
      <4>2. loss(D, q, m) <= s.ledger.obligations[m][Network] BY DEF D
      <4>3. loss(T, q, m) <= s.ledger.obligations[m][Network]
        <5>1. \A a, b, c \in Nat : a <= b /\ b <= c => a <= c OBVIOUS
        <5> QED BY <1>2, <4>1, <4>2, <5>1, Zenon
      <4>4. loss(R, q, m) \in Nat BY <2>2, <3>1, <3>5, LossStep
      <4>5. ASSUME q[x] = m PROVE loss(T, q, m) = loss(R, q, m) + MinStake
        <5> DEFINE n == loss(R, q, m)
        <5>1. n \in Nat BY <4>4
        <5>2. \A i \in Nat : loss(R, q, m) = i => loss(T, q, m) = i + MinStake
          BY <2>2, <3>1, <3>5, <4>5, LossStep
        <5>3. loss(T, q, m) = n + MinStake
          <6> HIDE DEF n
          <6>1. loss(R, q, m) = n BY DEF n
          <6> QED BY <5>1, <5>2, <6>1
        <5> QED BY <5>3
      <4>6. ASSUME q[x] # m PROVE loss(T, q, m) = loss(R, q, m)
        BY <2>2, <3>1, <3>5, <4>6, LossStep
      <4> QED BY <4>1, <4>3, <4>4, <4>5, <4>6
    <3>7. /\ Taking(r) /\ r.lostStake = MinStake /\ r.miningStakes = s.miningStakes
          /\ r.ledger.totalObligations[Network] = s.ledger.totalObligations[Network]
          /\ \A m \in Miners :
               r.ledger.obligations[m][Network]
                 = s.ledger.obligations[m][Network] - loss(R, q, m)
          /\ r.ledger.balance[Network] = s.ledger.balance[Network] + MinStake * Cardinality(R)
      BY <3>2, <3>3 DEF Taken
    <3>8. MinStake <= r.ledger.obligations[q[x]][Network]
      <4> DEFINE w == q[x]
                 a == s.ledger.obligations[w][Network]
                 b == loss(R, q, w)
                 c == loss(T, q, w)
                 d == r.ledger.obligations[w][Network]
      <4>1. w \in Miners BY <3>2
      <4>2. a \in Nat /\ b \in Nat /\ c = b + MinStake /\ c <= a /\ d = a - b
        BY <1>2, <3>6, <3>7, <4>1
      <4> HIDE DEF w, a, b, c, d
      <4>3. MinStake <= d BY <1>3, <4>2
      <4> QED BY <4>3 DEF w, d
    <3>9. /\ Taking(t) /\ t.miningStakes = r.miningStakes /\ t.lostStake = r.lostStake
          /\ Restaked(r.ledger, t.ledger, q[x], r.ledger.obligations[q[x]][Network] - MinStake)
          /\ t.ledger.balance[Network] = r.ledger.balance[Network] + MinStake
      BY <3>2, <3>4, <3>7, <3>8, TakeOne
    <3>10. ASSUME NEW m \in Miners
           PROVE  t.ledger.obligations[m][Network]
                    = s.ledger.obligations[m][Network] - loss(T, q, m)
      <4> DEFINE a == s.ledger.obligations[m][Network]
                 b == loss(R, q, m)
                 c == loss(T, q, m)
                 d == r.ledger.obligations[m][Network]
                 e == t.ledger.obligations[m][Network]
      <4>1. a \in Nat /\ b \in Nat /\ d = a - b BY <1>2, <3>6, <3>7
      <4>2. CASE m = q[x]
        <5>1. c = b + MinStake /\ e = d - MinStake BY <3>6, <3>9, <4>2 DEF Restaked
        <5> HIDE DEF a, b, c, d, e
        <5>2. e = a - c BY <1>3, <4>1, <5>1
        <5> QED BY <5>2 DEF a, c, e
      <4>3. CASE m # q[x]
        <5>1. c = b /\ e = d BY <3>6, <3>9, <4>3 DEF Restaked
        <5> QED BY <4>1, <5>1
      <4> QED BY <4>2, <4>3
    <3>11. t.ledger.balance[Network] = s.ledger.balance[Network] + MinStake * Cardinality(T)
      <4> DEFINE a == s.ledger.balance[Network]
                 b == Cardinality(R)
                 c == Cardinality(T)
                 d == r.ledger.balance[Network]
                 e == t.ledger.balance[Network]
      <4>1. a \in Nat /\ d = a + MinStake * b /\ e = d + MinStake BY <1>2, <3>7, <3>9
      <4>2. b \in Nat /\ c = b + 1
        <5>1. IsFiniteSet(R) BY <2>2, <3>5, FS_Subset
        <5>2. R \cup {x} = T /\ x \notin R BY <3>1, <3>5
        <5>3. Cardinality(R \cup {x}) = Cardinality(R) + 1 BY <5>1, <5>2, FS_AddElement
        <5> QED BY <5>1, <5>2, <5>3, FS_CardinalityType
      <4> HIDE DEF a, b, c, d, e
      <4>3. MinStake * c = MinStake * b + MinStake /\ MinStake * b \in Nat BY <1>3, <4>2
      <4>4. e = a + MinStake * c BY <1>3, <4>1, <4>3
      <4> QED BY <4>4 DEF a, c, e
    <3>12. t.ledger.totalObligations[Network] = s.ledger.totalObligations[Network]
      BY <3>7, <3>9 DEF Restaked
    <3>13. Taken(s, q, T, t) BY <3>2, <3>7, <3>9, <3>10, <3>11, <3>12 DEF Taken
    <3>14. ~ Taken(s, q, T, t) BY <2>1 DEF Bad, t
    <3> QED BY <3>13, <3>14
  <2> QED BY <2>3, <2>4
<1>5. D \notin Bad BY <1>4
<1> QED BY <1>5

\* Both books of stakes, and the stakes of the entries q.
SameStakes(s) == \A m \in Miners : s.miningStakes[m] = s.ledger.obligations[m][Network]

Slashable(s, q) == \A m \in Miners : loss(DOMAIN q, q, m) <= s.miningStakes[m]

Slashed(s, q, t) ==
  /\ t \in Slashing /\ t.ok /\ Booked(t.ledger) /\ SameStakes(t)
  /\ t.ledger.totalObligations[Network] = s.ledger.totalObligations[Network]
  /\ \A m \in Miners : t.miningStakes[m] = s.miningStakes[m] - loss(DOMAIN q, q, m)
  /\ t.ledger.balance[Network] >= s.ledger.balance[Network] + MinStake * Len(q)

\* punishStakers goes through, whatever is locked, and keeps both books equal.
LEMMA PunishSlashes ==
  ASSUME NEW s \in Slashing, s.ok, Booked(s.ledger), SameStakes(s), NEW q \in Seq(Miners),
         Slashable(s, q)
  PROVE  Slashed(s, q, punishStakers(s, q))
<1> DEFINE D == DOMAIN q
           lost == losing(s, q, D)
           k == deposit(s.ledger, Network, 0, TRUE)
           cleared == [lost EXCEPT !.ledger = deposit(@, Network, 0, TRUE)]
           t == taking(cleared, q, D)
<1>1. punishStakers(s, q) = t BY LosingLoop, TakingLoop DEF punishStakers
<1>2. Lost(s, q, D, lost) BY LosingResult DEF Slashable
<1>3. Network \in Users /\ (\A m \in Miners : m \in Users) BY Parties
<1>4. Booked(k) /\ Untouched(s.ledger, k) /\ isTokenUnlocked(k, Network)
  <2> DEFINE l == s.ledger
  <2>1. l.wallet[Network] \in Nat BY <1>3, Fields DEF Slashing
  <2>2. canDeposit(l, Network, 0, TRUE) BY <2>1 DEF canDeposit, tokenNotLocked
  <2>3. Booked(l) /\ 0 \in Nat /\ TRUE \in BOOLEAN OBVIOUS
  <2> HIDE DEF l
  <2>4. LET d == deposit(l, Network, 0, TRUE)
        IN  Booked(d) /\ Untouched(l, d) /\ isTokenUnlocked(d, Network)
    BY <1>3, <2>2, <2>3, DepositBooked
  <2> QED BY <2>4 DEF l
<1>5. k \in Ledger BY <1>4, BookedFacts
<1> HIDE DEF lost
<1>6. cleared = [lost EXCEPT !.ledger = k] BY <1>2 DEF Lost, Slashing
<1>7. /\ cleared \in Slashing /\ cleared.ledger = k /\ cleared.ok = s.ok
      /\ cleared.miningStakes = lost.miningStakes /\ cleared.lostStake = lost.lostStake
  <2> HIDE DEF k, cleared
  <2>1. lost \in Slashing /\ lost.ok = s.ok BY <1>2 DEF Lost
  <2> QED BY <1>5, <1>6, <2>1 DEF Slashing
<1> HIDE DEF k, cleared
<1>8. Taking(cleared) BY <1>4, <1>7 DEF Taking
<1>9. q # <<>> => cleared.lostStake = MinStake
  <2>1. q # <<>> => D # {}
    <3>1. q \in Seq(Miners) /\ Len(q) = 0 => q = <<>> OBVIOUS
    <3>2. D = 1 .. Len(q) /\ Len(q) \in Nat OBVIOUS
    <3>3. Len(q) # 0 => 1 \in 1 .. Len(q) BY <3>2
    <3> QED BY <3>1, <3>2, <3>3
  <2> HIDE DEF D
  <2> QED BY <1>2, <1>7, <2>1 DEF Lost
<1>10. \A m \in Miners : /\ cleared.ledger.obligations[m][Network] = s.miningStakes[m]
                         /\ s.miningStakes[m] \in Nat
  BY <1>4, <1>7 DEF Untouched, SameStakes, Slashing
<1>11. \A m \in Miners : loss(DOMAIN q, q, m) <= cleared.ledger.obligations[m][Network]
  BY <1>10 DEF Slashable
<1>12. Taken(cleared, q, D, t) BY <1>8, <1>9, <1>11, TakingResult
<1>13. Cardinality(D) = Len(q)
  <2>1. D = 1 .. Len(q) /\ Len(q) \in Nat OBVIOUS
  <2>2. Cardinality(1 .. Len(q)) = Len(q)
    <3> DEFINE n == Len(q)
    <3>1. n \in Nat /\ n \in Int /\ 1 \in Int OBVIOUS
    <3> HIDE DEF n
    <3>2. Cardinality(1 .. n) = IF 1 > n THEN 0 ELSE n - 1 + 1 BY <3>1, FS_Interval
    <3>3. Cardinality(1 .. n) = n BY <3>1, <3>2
    <3> QED BY <3>3 DEF n
  <2> QED BY <2>1, <2>2
<1> HIDE DEF t, D
<1>14. /\ t \in Slashing /\ t.ok /\ Booked(t.ledger)
       /\ t.ledger.totalObligations[Network] = s.ledger.totalObligations[Network]
  BY <1>4, <1>7, <1>12 DEF Taken, Taking, Untouched
<1>15. ASSUME NEW m \in Miners
       PROVE  /\ t.miningStakes[m] = s.miningStakes[m] - loss(D, q, m)
              /\ t.miningStakes[m] = t.ledger.obligations[m][Network]
  <2>1. t.miningStakes[m] = lost.miningStakes[m] BY <1>7, <1>12 DEF Taken
  <2>2. lost.miningStakes[m] = s.miningStakes[m] - loss(D, q, m) BY <1>2 DEF Lost
  <2>3. t.ledger.obligations[m][Network]
          = cleared.ledger.obligations[m][Network] - loss(D, q, m)
    BY <1>12 DEF Taken
  <2>4. cleared.ledger.obligations[m][Network] = s.miningStakes[m] BY <1>10
  <2> QED BY <2>1, <2>2, <2>3, <2>4
<1>16. t.ledger.balance[Network] >= s.ledger.balance[Network] + MinStake * Len(q)
  <2> DEFINE a == s.ledger.balance[Network]
             b == k.balance[Network]
             c == t.ledger.balance[Network]
             n == MinStake * Len(q)
  <2>1. a \in Nat /\ b \in Nat BY <1>3, <1>5, Fields DEF Slashing
  <2>2. b >= a BY <1>4 DEF Untouched
  <2>3. c = b + n BY <1>7, <1>12, <1>13 DEF Taken
  <2>4. n \in Nat
    <3>1. Len(q) \in Nat /\ MinStake \in Nat BY AmountsAssumption
    <3>2. \A i, j \in Nat : i * j \in Nat OBVIOUS
    <3> QED BY <3>1, <3>2
  <2> HIDE DEF a, b, c, n
  <2>5. c >= a + n BY <2>1, <2>2, <2>3, <2>4
  <2> QED BY <2>5 DEF a, c, n
<1>17. Slashed(s, q, t) BY <1>14, <1>15, <1>16 DEF Slashed, SameStakes, D
<1> QED BY <1>1, <1>17 DEF t, D

\* A part of a sum is at most the sum.
LEMMA SumPart ==
  ASSUME NEW f, NEW S, IsFiniteSet(S), NEW T, T \subseteq S, \A x \in S : f[x] \in Nat
  PROVE  /\ SumFunctionOnSet(f, T) \in Nat /\ SumFunctionOnSet(f, S) \in Nat
         /\ SumFunctionOnSet(f, T) <= SumFunctionOnSet(f, S)
<1> DEFINE R == S \ T
<1>1. IsFiniteSet(T) /\ IsFiniteSet(R) BY FS_Subset
<1>2. T \cap R = {} /\ T \cup R = S OBVIOUS
<1>3. /\ SumFunctionOnSet(f, T) \in Nat /\ SumFunctionOnSet(f, R) \in Nat
      /\ SumFunctionOnSet(f, S) \in Nat
  <2>1. (\A x \in T : f[x] \in Nat) /\ (\A x \in R : f[x] \in Nat) OBVIOUS
  <2> HIDE DEF R
  <2> QED BY <1>1, <2>1, SumNat
<1>4. SumFunctionOnSet(f, T \cup R) = SumFunctionOnSet(f, T) + SumFunctionOnSet(f, R)
  <2>1. \A x \in T \cup R : f[x] \in Int BY <1>2
  <2> HIDE DEF R
  <2> QED BY <1>1, <1>2, <2>1, SumUnion
<1> HIDE DEF R
<1> QED BY <1>2, <1>3, <1>4

\* Of the loop of rewardStakers, over T.
Rewarded(l, share, T, k) ==
  /\ Booked(k) /\ Untouched(l, k)
  /\ k.wallet[Network] = l.wallet[Network] - SumFunctionOnSet(share, T)

\* The shares are paid out of the network's wallet; no stake is touched.
LEMMA PayingResult ==
  ASSUME NEW l, Booked(l), NEW q \in Seq(Miners), NEW share \in [DOMAIN q -> Nat],
         SumFunctionOnSet(share, DOMAIN q) <= l.wallet[Network]
  PROVE  Rewarded(l, share, DOMAIN q, rewardStakers(l, q, share))
<1> DEFINE D == DOMAIN q
           Bad == {T \in SUBSET D : ~ Rewarded(l, share, T, paying(l, q, share, T))}
<1>1. IsFiniteSet(D) BY LastIndex
<1>2. l.wallet[Network] \in Nat /\ l.balance[Network] \in Nat BY Parties, BookedFacts, Fields
<1>3. ASSUME Bad # {} PROVE FALSE
  <2>1. PICK T \in Bad : \A U \in Bad : U \subseteq T => U = T
    <3> HIDE DEF Bad
    <3>1. Bad \subseteq SUBSET D BY DEF Bad
    <3> QED BY <1>1, <1>3, <3>1, SmallestSubset
  <2>2. T \in SUBSET D /\ IsFiniteSet(T) BY <1>1, <2>1, FS_Subset
  <2>3. CASE T = {}
    <3>1. paying(l, q, share, {}) = l
      <4>1. {} \in SUBSET (DOMAIN q) OBVIOUS
      <4> QED BY <4>1, PayingStep
    <3>2. l.wallet[Network] = l.wallet[Network] - SumFunctionOnSet(share, {})
      BY <1>2, SumEmpty
    <3>3. Untouched(l, l) BY <1>2 DEF Untouched
    <3>4. Rewarded(l, share, {}, l) BY <3>2, <3>3 DEF Rewarded
    <3>5. ~ Rewarded(l, share, {}, paying(l, q, share, {})) BY <2>1, <2>3
    <3> QED BY <3>1, <3>4, <3>5
  <2>4. CASE T # {}
    <3> DEFINE x == Max(T)
               R == T \ {x}
               r == paying(l, q, share, R)
               t == paying(l, q, share, T)
    <3>1. x \in T /\ x \in D BY <2>2, <2>4, LastIndex
    <3>2. q[x] \in Miners /\ share[x] \in Nat /\ same(q)[x] = x BY <3>1 DEF same
    <3>3. Rewarded(l, share, R, r)
      <4>1. R \in SUBSET D /\ R \subseteq T /\ R # T BY <2>2, <3>1
      <4>2. R \notin Bad
        <5> HIDE DEF Bad
        <5> QED BY <2>1, <4>1
      <4> QED BY <4>1, <4>2
    <3>4. t = depositFor(r, Network, share[x], q[x], TRUE)
      <4>1. T \in SUBSET (DOMAIN q) BY <2>2
      <4>2. t = payShare(r, q, share, same(q)[x]) BY <2>4, <4>1, PayingStep
      <4> QED BY <3>2, <4>2 DEF payShare
    <3>5. /\ SumFunctionOnSet(share, T) = share[x] + SumFunctionOnSet(share, R)
          /\ SumFunctionOnSet(share, R) \in Nat /\ SumFunctionOnSet(share, T) \in Nat
          /\ SumFunctionOnSet(share, T) <= l.wallet[Network]
      <4>1. \A y \in D : share[y] \in Nat OBVIOUS
      <4>2. \A y \in T : share[y] \in Int BY <2>2, <4>1
      <4>3. SumFunctionOnSet(share, T) = share[x] + SumFunctionOnSet(share, R)
        BY <2>2, <3>1, <4>2, SumRemove
      <4>4. R \subseteq D BY <2>2
      <4>5. SumFunctionOnSet(share, D) <= l.wallet[Network] OBVIOUS
      <4> HIDE DEF R, D
      <4>6. SumFunctionOnSet(share, R) \in Nat BY <1>1, <4>1, <4>4, SumPart
      <4>7. /\ SumFunctionOnSet(share, T) \in Nat /\ SumFunctionOnSet(share, D) \in Nat
            /\ SumFunctionOnSet(share, T) <= SumFunctionOnSet(share, D)
        BY <1>1, <2>2, <4>1, SumPart
      <4> QED BY <1>2, <4>3, <4>5, <4>6, <4>7
    <3> HIDE DEF r, t, x, R, Bad, D
    <3>6. Booked(r) /\ Untouched(l, r) BY <3>3 DEF Rewarded
    <3>7. r.wallet[Network] = l.wallet[Network] - SumFunctionOnSet(share, R)
      BY <3>3 DEF Rewarded
    <3>8. share[x] <= r.wallet[Network] BY <1>2, <3>2, <3>5, <3>7
    <3>9. /\ Booked(t) /\ Untouched(r, t)
          /\ t.wallet[Network] = r.wallet[Network] - share[x]
      BY <3>2, <3>4, <3>6, <3>8, DepositForBooked
    <3>10. t.wallet[Network] = l.wallet[Network] - SumFunctionOnSet(share, T)
      BY <1>2, <3>2, <3>5, <3>7, <3>9
    <3>11. Untouched(l, t)
      <4>1. r.balance[Network] \in Nat /\ t.balance[Network] \in Nat
        BY <3>6, <3>9, Parties, BookedFacts, Fields
      <4> QED BY <1>2, <3>6, <3>9, <4>1 DEF Untouched
    <3>12. Rewarded(l, share, T, t) BY <3>9, <3>10, <3>11 DEF Rewarded
    <3>13. ~ Rewarded(l, share, T, t) BY <2>1 DEF Bad, t
    <3> QED BY <3>12, <3>13
  <2> QED BY <2>3, <2>4
<1>4. D \notin Bad BY <1>3
<1>5. rewardStakers(l, q, share) = paying(l, q, share, D) BY PayingLoop
<1> QED BY <1>4, <1>5
-----------------------------------------------------------------------------
(* The invariant.                                                          *)

\* TokenLocking's books are in order, the network has no stake of its own, and
\* the network's book of stakes is TokenLocking's.
LedgerInv ==
  /\ Booked(ledger) /\ ledger.totalObligations[Network] = 0
  /\ StakesMatch

\* A miner is in one hash, with a stake worth all its entries until it is settled.
EntriesInv ==
  /\ \A m \in Miners, h \in Hashes, g \in Hashes :
       entriesOf(m, h) > 0 /\ entriesOf(m, g) > 0 => h = g
  /\ \A m \in Miners, h \in Live : MinStake * entriesOf(m, h) <= miningStakes[m]

\* Each invalidated hash lost the stake of an entry at least, nothing is lost or
\* awarded before the window closed on a submission, and rewards stay below the
\* stakes of all hashes but one.
CycleInv ==
  /\ invalidated \subseteq Submitted
  /\ stakeLost >= MinStake * Cardinality(invalidated)
  /\ invalidated # {} \/ rewardsPaidOut > 0 => windowClosed /\ Submitted # {}
  /\ Live # {} /\ rewardsPaidOut > 0
       => rewardsPaidOut <= MinStake * (Cardinality(Submitted) - 1)

IInv == TypeOK /\ LedgerInv /\ EntriesInv /\ CycleInv /\ RewardsBacked

\* The types that the steps compute with.
LEMMA Types ==
  ASSUME TypeOK
  PROVE  /\ \A m \in Miners : miningStakes[m] \in Nat /\ pendingMiningRewards[m] \in Nat
         /\ \A h \in Hashes : submittedHashes[h] \in Seq(Miners)
         /\ ledger.balance[Network] \in Nat
         /\ stakeLost \in Nat /\ rewardsPaidOut \in Nat
         /\ SumFunction(pendingMiningRewards) \in Nat
         /\ MinStake \in Nat /\ MinStake > 0
<1>1. /\ miningStakes \in [Miners -> Nat] /\ pendingMiningRewards \in [Miners -> Nat]
      /\ submittedHashes \in [Hashes -> Seq(Miners)] /\ ledger \in Ledger
      /\ stakeLost \in Nat /\ rewardsPaidOut \in Nat
  BY DEF TypeOK
<1>2. SumFunction(pendingMiningRewards) \in Nat
  <2>1. DOMAIN pendingMiningRewards = Miners BY <1>1
  <2>2. \A m \in Miners : pendingMiningRewards[m] \in Nat BY <1>1
  <2>3. SumFunctionOnSet(pendingMiningRewards, Miners) \in Nat BY <2>2, Parties, SumNat
  <2> QED BY <2>1, <2>3 DEF SumFunction
<1>3. ledger.balance[Network] \in Nat BY <1>1, Parties, Fields
<1>4. MinStake \in Nat /\ MinStake > 0 BY AmountsAssumption
<1> QED BY <1>1, <1>2, <1>3, <1>4

\* The entries of a hash, as the loops count them.
LEMMA EntriesAreHits ==
  ASSUME NEW m, NEW h, submittedHashes[h] \in Seq(Miners)
  PROVE  /\ entriesOf(m, h) = hits(DOMAIN submittedHashes[h], submittedHashes[h], m)
         /\ MinStake * entriesOf(m, h) = loss(DOMAIN submittedHashes[h], submittedHashes[h], m)
         /\ entriesOf(m, h) \in Nat
<1> DEFINE D == DOMAIN submittedHashes[h]
<1>1. IsFiniteSet(D) BY LastIndex
<1>2. entriesOf(m, h) = hits(D, submittedHashes[h], m) BY DEF entriesOf, hits
<1>3. IsFiniteSet({i \in D : submittedHashes[h][i] = m})
  <2> HIDE DEF D
  <2>1. {i \in D : submittedHashes[h][i] = m} \subseteq D OBVIOUS
  <2> QED BY <1>1, <2>1, FS_Subset
<1>4. hits(D, submittedHashes[h], m) \in Nat BY <1>3, FS_CardinalityType DEF hits
<1> QED BY <1>2, <1>4 DEF loss

\* The hashes submitted, live and invalidated, in numbers.
LEMMA HashesCounted ==
  ASSUME CycleInv
  PROVE  /\ IsFiniteSet(Submitted) /\ IsFiniteSet(Live) /\ IsFiniteSet(invalidated)
         /\ Cardinality(Submitted) \in Nat /\ Cardinality(Live) \in Nat
         /\ Cardinality(invalidated) \in Nat
         /\ Cardinality(Live) = Cardinality(Submitted) - Cardinality(invalidated)
<1>1. Submitted \subseteq Hashes BY DEF Submitted
<1>2. IsFiniteSet(Submitted) BY <1>1, PartiesAssumption, FS_Subset
<1>3. invalidated \subseteq Submitted BY DEF CycleInv
<1>4. IsFiniteSet(invalidated) /\ IsFiniteSet(Live) BY <1>2, <1>3, FS_Subset DEF Live
<1>5. Cardinality(Live) = Cardinality(Submitted) - Cardinality(Submitted \cap invalidated)
  BY <1>2, FS_Difference DEF Live
<1>6. Submitted \cap invalidated = invalidated BY <1>3
<1> QED BY <1>2, <1>4, <1>5, <1>6, FS_CardinalityType

\* A step that leaves the cycle alone.
SameCycle == UNCHANGED cycleVars

LEMMA CycleKept ==
  ASSUME CycleInv, SameCycle
  PROVE  /\ CycleInv' /\ Live' = Live
         /\ \A m, h : entriesOf(m, h)' = entriesOf(m, h)
<1>1. /\ submittedHashes' = submittedHashes /\ invalidated' = invalidated
      /\ windowClosed' = windowClosed /\ stakeLost' = stakeLost
      /\ rewardsPaidOut' = rewardsPaidOut
  BY DEF SameCycle, cycleVars
<1>2. Submitted' = Submitted BY <1>1 DEF Submitted
<1>3. Live' = Live BY <1>1, <1>2 DEF Live
<1>4. \A m, h : entriesOf(m, h)' = entriesOf(m, h) BY <1>1 DEF entriesOf
<1> QED BY <1>1, <1>2, <1>3, <1>4 DEF CycleInv

LEMMA EntriesKept ==
  ASSUME EntriesInv, CycleInv, SameCycle, TypeOK, TypeOK',
         \A m \in Miners : miningStakes'[m] >= miningStakes[m]
  PROVE  EntriesInv'
<1>1. /\ Live' = Live
      /\ \A m, h : entriesOf(m, h)' = entriesOf(m, h)
  BY CycleKept
<1>2. ASSUME NEW m \in Miners, NEW h \in Live
      PROVE  MinStake * entriesOf(m, h) <= miningStakes'[m]
  <2> DEFINE n == MinStake * entriesOf(m, h)
  <2>1. n <= miningStakes[m] BY DEF EntriesInv
  <2>2. n \in Nat
    <3>1. submittedHashes[h] \in Seq(Miners) BY Types DEF Live, Submitted
    <3>2. entriesOf(m, h) \in Nat /\ MinStake \in Nat BY <3>1, EntriesAreHits, AmountsAssumption
    <3>3. \A i, j \in Nat : i * j \in Nat OBVIOUS
    <3> QED BY <3>2, <3>3
  <2>3. miningStakes[m] \in Nat /\ miningStakes'[m] \in Nat
    BY DEF TypeOK
  <2> HIDE DEF n
  <2>4. n <= miningStakes'[m] BY <2>1, <2>2, <2>3
  <2> QED BY <2>4 DEF n
<1>3. \A m \in Miners, h \in Live' : (MinStake * entriesOf(m, h))' <= miningStakes'[m]
  BY <1>1, <1>2
<1>4. \A m \in Miners, h \in Hashes, g \in Hashes :
        entriesOf(m, h)' > 0 /\ entriesOf(m, g)' > 0 => h = g
  BY <1>1 DEF EntriesInv
<1> QED BY <1>3, <1>4 DEF EntriesInv

\* Nothing but the deposits of others moved.
LEMMA StakesKept ==
  ASSUME LedgerInv, Booked(ledger'), Untouched(ledger, ledger'), miningStakes' = miningStakes
  PROVE  LedgerInv'
BY DEF LedgerInv, Untouched, StakesMatch

LEMMA BackingKept ==
  ASSUME TypeOK, RewardsBacked, SameCycle, pendingMiningRewards' = pendingMiningRewards,
         ledger' \in Ledger, ledger'.balance[Network] >= ledger.balance[Network]
  PROVE  RewardsBacked'
<1>1. stakeLost' = stakeLost /\ rewardsPaidOut' = rewardsPaidOut
  BY DEF SameCycle, cycleVars
<1>2. ledger'.balance[Network] \in Nat BY Parties, Fields
<1>3. /\ ledger.balance[Network] \in Nat /\ stakeLost \in Nat /\ rewardsPaidOut \in Nat
      /\ SumFunction(pendingMiningRewards) \in Nat
  BY Types
<1>4. ledger.balance[Network] + rewardsPaidOut
        >= stakeLost + SumFunction(pendingMiningRewards)
  BY DEF RewardsBacked
<1>5. ledger'.balance[Network] + rewardsPaidOut
        >= stakeLost + SumFunction(pendingMiningRewards)
  BY <1>2, <1>3, <1>4
<1> QED BY <1>1, <1>5 DEF RewardsBacked

\* A reward is booked twice: by the cycle, and by the network.
LEMMA RewardBooked ==
  ASSUME TypeOK, NEW m \in Miners, rewardResponder(m)
  PROVE  /\ disputeRewardSize \in Nat
         /\ rewardsPaidOut' = rewardsPaidOut + disputeRewardSize
         /\ pendingMiningRewards' \in [Miners -> Nat]
         /\ SumFunction(pendingMiningRewards')
              = SumFunction(pendingMiningRewards) + disputeRewardSize
         /\ respondedToChallenge' \subseteq Miners
<1> DEFINE d == disputeRewardSize
           f == pendingMiningRewards
           g == pendingMiningRewards'
<1>1. d \in Nat BY AmountsAssumption DEF disputeRewardSize
<1>2. f \in [Miners -> Nat] /\ respondedToChallenge \subseteq Miners BY DEF TypeOK
<1>3. /\ g = [f EXCEPT ![m] = f[m] + d]
      /\ rewardsPaidOut' = rewardsPaidOut + d
      /\ respondedToChallenge' = respondedToChallenge \cup {m}
  BY DEF rewardResponder
<1> HIDE DEF d, f, g
<1>4. g \in [Miners -> Nat] BY <1>1, <1>2, <1>3
<1>5. SumFunction(g) = SumFunction(f) + d
  <2>1. /\ \A x \in Miners : f[x] \in Int /\ g[x] \in Int
        /\ \A x \in Miners : x # m => g[x] = f[x]
        /\ g[m] = f[m] + d /\ f[m] \in Nat
    BY <1>1, <1>2, <1>3, <1>4
  <2>2. SumFunctionOnSet(g, Miners) = SumFunctionOnSet(f, Miners) - f[m] + g[m]
    BY <2>1, Parties, SumChange
  <2>3. SumFunctionOnSet(f, Miners) \in Int BY <2>1, Parties, SumInt
  <2>4. SumFunctionOnSet(g, Miners) = SumFunctionOnSet(f, Miners) + d
    BY <1>1, <2>1, <2>2, <2>3
  <2>5. DOMAIN f = Miners /\ DOMAIN g = Miners BY <1>2, <1>4
  <2> QED BY <2>4, <2>5 DEF SumFunction
<1>6. respondedToChallenge' \subseteq Miners BY <1>2, <1>3
<1> QED BY <1>1, <1>3, <1>4, <1>5, <1>6 DEF d, f, g
-----------------------------------------------------------------------------
(* Every step keeps it: what miners call, and everybody else.              *)

\* No submission, no entry.
LEMMA NoEntries ==
  ASSUME NEW m, NEW h \in Hashes, submittedHashes = NoSubmissions
  PROVE  entriesOf(m, h) = 0
<1>1. submittedHashes[h] = <<>> BY DEF NoSubmissions
<1>2. {i \in DOMAIN submittedHashes[h] : submittedHashes[h][i] = m} = {} BY <1>1
<1> QED BY <1>2, FS_EmptySet DEF entriesOf

\* A cycle that starts is in order.
LEMMA NewCycle ==
  ASSUME submittedHashes = NoSubmissions, invalidated = {}, stakeLost = 0, rewardsPaidOut = 0
  PROVE  EntriesInv /\ CycleInv
<1>1. Submitted = {} BY DEF Submitted, NoSubmissions
<1>2. Live = {} BY <1>1 DEF Live
<1>3. EntriesInv BY <1>2, NoEntries DEF EntriesInv
<1>4. Cardinality({}) = 0 /\ MinStake \in Nat BY FS_EmptySet, AmountsAssumption
<1>5. stakeLost >= MinStake * Cardinality(invalidated) BY <1>4
<1> QED BY <1>1, <1>2, <1>3, <1>5 DEF CycleInv

LEMMA InitInv == Init => IInv
<1> SUFFICES ASSUME Init PROVE IInv
  OBVIOUS
<1>1. Booked(ledger) BY EmptyBooked DEF Init
<1>2. /\ ledger.totalObligations[Network] = 0
      /\ \A m \in Miners : ledger.obligations[m][Network] = 0
      /\ ledger.balance[Network] = 0
  BY Parties DEF Init, EmptyLedger
<1>3. LedgerInv BY <1>1, <1>2 DEF LedgerInv, StakesMatch, Init
<1>4. TypeOK
  <2>1. <<>> \in Seq(Miners) OBVIOUS
  <2>2. NoSubmissions \in [Hashes -> Seq(Miners)] BY <2>1 DEF NoSubmissions
  <2> QED BY <1>1, <2>2, BookedFacts DEF TypeOK, Init
<1>5. EntriesInv /\ CycleInv BY NewCycle DEF Init
<1>6. SumFunction(pendingMiningRewards) = 0
  <2>1. /\ DOMAIN pendingMiningRewards = Miners
        /\ \A m \in Miners : pendingMiningRewards[m] = 0
    BY DEF Init
  <2> QED BY <2>1, Parties, SumZero DEF SumFunction
<1>7. RewardsBacked BY <1>2, <1>6 DEF RewardsBacked, Init
<1> QED BY <1>3, <1>4, <1>5, <1>7 DEF IInv

LEMMA StakeStep ==
  ASSUME IInv, NEW m \in Miners, NEW amount \in Amounts, stakeForMining(m, amount)
  PROVE  IInv'
<1> USE DEF IInv
<1> DEFINE k == obligateStake(approveStake(ledger, Network, m, amount), Network, m, amount)
<1>1. amount \in Nat BY AmountsAssumption
<1>2. /\ ledger' = k
      /\ canObligateStake(approveStake(ledger, Network, m, amount), Network, m, amount)
      /\ miningStakes' = [miningStakes EXCEPT ![m] = miningStakes[m] + amount]
      /\ recent' \in {recent, recent \cup {m}}
      /\ pendingMiningRewards' = pendingMiningRewards /\ SameCycle
  BY DEF stakeForMining, SameCycle
<1>3. Booked(ledger) BY DEF LedgerInv
<1>4. /\ Booked(k)
      /\ Restaked(ledger, k, m, ledger.obligations[m][Network] + amount)
      /\ k.balance = ledger.balance
  BY <1>1, <1>2, <1>3, StakeBooked
<1> HIDE DEF k
<1>5. k \in Ledger BY <1>4, BookedFacts
<1>6. miningStakes \in [Miners -> Nat] BY DEF TypeOK
<1>7. /\ miningStakes' \in [Miners -> Nat]
      /\ miningStakes'[m] = miningStakes[m] + amount
      /\ \A v \in Miners \ {m} : miningStakes'[v] = miningStakes[v]
      /\ \A v \in Miners : miningStakes'[v] >= miningStakes[v]
  BY <1>1, <1>2, <1>6
<1>8. TypeOK' BY <1>2, <1>5, <1>7 DEF TypeOK, SameCycle, cycleVars
<1>9. LedgerInv' BY <1>2, <1>4, <1>7 DEF LedgerInv, StakesMatch, Restaked
<1>10. EntriesInv' BY <1>2, <1>7, <1>8, EntriesKept
<1>11. CycleInv' BY <1>2, CycleKept
<1>12. ledger.balance[Network] \in Nat BY Types
<1>13. RewardsBacked' BY <1>2, <1>4, <1>5, <1>12, BackingKept
<1> QED BY <1>8, <1>9, <1>10, <1>11, <1>13

\* Who unstakes has no entry.
LEMMA UnstakeStep ==
  ASSUME IInv, NEW m \in Miners, NEW amount \in Amounts, unstakeForMining(m, amount)
  PROVE  IInv'
<1> USE DEF IInv
<1> DEFINE k == deobligateStake(ledger, Network, m, amount)
<1>1. amount \in Nat BY AmountsAssumption
<1>2. /\ ledger' = k /\ canDeobligateStake(ledger, Network, m, amount)
      /\ amount <= miningStakes[m]
      /\ miningStakes' = [miningStakes EXCEPT ![m] = miningStakes[m] - amount]
      /\ recent' = recent /\ pendingMiningRewards' = pendingMiningRewards /\ SameCycle
      /\ \A h \in Hashes : ~ (entriesOf(m, h) > 0)
  BY DEF unstakeForMining, SameCycle, userInvolvedInMiningCycle
<1>3. Booked(ledger) BY DEF LedgerInv
<1>4. /\ Booked(k)
      /\ Restaked(ledger, k, m, ledger.obligations[m][Network] - amount)
      /\ k.balance = ledger.balance
  BY <1>1, <1>2, <1>3, UnstakeBooked
<1> HIDE DEF k
<1>5. k \in Ledger BY <1>4, BookedFacts
<1>6. miningStakes \in [Miners -> Nat] BY DEF TypeOK
<1>7. /\ miningStakes' \in [Miners -> Nat]
      /\ miningStakes'[m] = miningStakes[m] - amount
      /\ \A v \in Miners \ {m} : miningStakes'[v] = miningStakes[v]
  BY <1>1, <1>2, <1>6
<1>8. TypeOK' BY <1>2, <1>5, <1>7 DEF TypeOK, SameCycle, cycleVars
<1>9. LedgerInv' BY <1>2, <1>4, <1>7 DEF LedgerInv, StakesMatch, Restaked
<1>10. /\ CycleInv' /\ Live' = Live
       /\ \A v, h : entriesOf(v, h)' = entriesOf(v, h)
  BY <1>2, CycleKept
<1>11. EntriesInv'
  <2>1. \A h \in Hashes : entriesOf(m, h) = 0
    <3>1. \A h \in Hashes : entriesOf(m, h) \in Nat BY Types, EntriesAreHits
    <3> QED BY <1>2, <3>1
  <2>2. MinStake * 0 = 0 BY AmountsAssumption
  <2>3. ASSUME NEW v \in Miners, NEW h \in Live
        PROVE  MinStake * entriesOf(v, h) <= miningStakes'[v]
    <3>1. CASE v = m
      <4>1. entriesOf(v, h) = 0 BY <2>1, <3>1 DEF Live, Submitted
      <4>2. MinStake * entriesOf(v, h) = 0 BY <2>2, <4>1
      <4> QED BY <1>7, <4>2
    <3>2. CASE v # m
      <4>1. miningStakes'[v] = miningStakes[v] BY <1>7, <3>2
      <4>2. MinStake * entriesOf(v, h) <= miningStakes[v] BY DEF EntriesInv
      <4> QED BY <4>1, <4>2
    <3> QED BY <3>1, <3>2
  <2>4. \A v \in Miners, h \in Live' : (MinStake * entriesOf(v, h))' <= miningStakes'[v]
    BY <1>10, <2>3
  <2>5. \A v \in Miners, h \in Hashes, g \in Hashes :
          entriesOf(v, h)' > 0 /\ entriesOf(v, g)' > 0 => h = g
    BY <1>10 DEF EntriesInv
  <2> QED BY <2>4, <2>5 DEF EntriesInv
<1>12. ledger.balance[Network] \in Nat BY Types
<1>13. RewardsBacked' BY <1>2, <1>4, <1>5, <1>12, BackingKept
<1> QED BY <1>8, <1>9, <1>10, <1>11, <1>13

\* A reward that is paid is no longer owed.
LEMMA ClaimStep ==
  ASSUME IInv, NEW m \in Miners, claimMiningReward(m)
  PROVE  IInv'
<1> USE DEF IInv
<1> DEFINE p == pendingMiningRewards[m]
           k == transfer(ledger, Network, p, m, TRUE, TRUE)
           f == pendingMiningRewards
           g == pendingMiningRewards'
<1>1. p \in Nat /\ f \in [Miners -> Nat] BY DEF TypeOK
<1>2. /\ ledger' = k /\ canTransfer(ledger, Network, p, TRUE)
      /\ g = [f EXCEPT ![m] = 0]
      /\ recent' = recent /\ miningStakes' = miningStakes /\ SameCycle
  BY DEF claimMiningReward, SameCycle
<1>3. Booked(ledger) BY DEF LedgerInv
<1>4. /\ Network \in Users /\ m \in Users /\ m # Network
      /\ \A v \in Miners : v \in Users
  BY Parties
<1>5. /\ Booked(k)
      /\ k.obligations = ledger.obligations /\ k.totalObligations = ledger.totalObligations
      /\ k.balance[Network] = ledger.balance[Network] - p
  <2> DEFINE ok == TRUE
  <2>1. ok \in BOOLEAN /\ k = transfer(ledger, Network, p, m, ok, ok) OBVIOUS
  <2>2. canTransfer(ledger, Network, p, ok) BY <1>2
  <2> HIDE DEF ok, k, p
  <2> QED BY <1>1, <1>3, <1>4, <2>1, <2>2, TransferBooked
<1>6. p <= ledger.balance[Network] BY <1>2 DEF canTransfer, notObligated
<1> HIDE DEF k, f, g, p
<1>7. k \in Ledger BY <1>5, BookedFacts
<1>8. g \in [Miners -> Nat] BY <1>1, <1>2
<1>9. TypeOK' BY <1>2, <1>7, <1>8 DEF TypeOK, SameCycle, cycleVars, g
<1>10. LedgerInv' BY <1>2, <1>5 DEF LedgerInv, StakesMatch
<1>11. miningStakes \in [Miners -> Nat] BY DEF TypeOK
<1>12. \A v \in Miners : miningStakes'[v] >= miningStakes[v] BY <1>2, <1>11
<1>13. EntriesInv' BY <1>2, <1>9, <1>12, EntriesKept
<1>14. CycleInv' BY <1>2, CycleKept
<1>15. RewardsBacked'
  <2>1. SumFunction(g) = SumFunction(f) - p
    <3>1. /\ \A x \in Miners : f[x] \in Int /\ g[x] \in Int
          /\ \A x \in Miners : x # m => g[x] = f[x]
          /\ g[m] = 0 /\ f[m] = p
      BY <1>1, <1>2, <1>8 DEF f, p
    <3>2. SumFunctionOnSet(g, Miners) = SumFunctionOnSet(f, Miners) - f[m] + g[m]
      BY <3>1, Parties, SumChange
    <3>3. SumFunctionOnSet(f, Miners) \in Int BY <3>1, Parties, SumInt
    <3>4. SumFunctionOnSet(g, Miners) = SumFunctionOnSet(f, Miners) - p
      BY <1>1, <3>1, <3>2, <3>3
    <3>5. DOMAIN f = Miners /\ DOMAIN g = Miners BY <1>1, <1>8
    <3> QED BY <3>4, <3>5 DEF SumFunction
  <2> DEFINE a == ledger.balance[Network]
             b == SumFunction(f)
  <2>2. a \in Nat /\ b \in Nat /\ stakeLost \in Nat /\ rewardsPaidOut \in Nat
    BY Types DEF f
  <2>3. a + rewardsPaidOut >= stakeLost + b BY DEF RewardsBacked, f
  <2>4. k.balance[Network] = a - p /\ SumFunction(g) = b - p BY <1>5, <2>1
  <2> HIDE DEF a, b
  <2>5. k.balance[Network] + rewardsPaidOut >= stakeLost + SumFunction(g)
    BY <1>1, <2>2, <2>3, <2>4
  <2> QED BY <1>2, <2>5 DEF RewardsBacked, SameCycle, cycleVars, g
<1> QED BY <1>9, <1>10, <1>13, <1>14, <1>15

\* Steps that neither the stakes nor the cycle notice.
LEMMA ElsewhereStep ==
  ASSUME IInv, Booked(ledger'), Untouched(ledger, ledger'),
         UNCHANGED <<miningStakes, recent, pendingMiningRewards, cycleVars>>
  PROVE  IInv'
<1> USE DEF IInv
<1>1. SameCycle /\ miningStakes' = miningStakes /\ pendingMiningRewards' = pendingMiningRewards
  BY DEF SameCycle
<1>2. ledger' \in Ledger BY BookedFacts
<1>3. TypeOK' BY <1>1, <1>2 DEF TypeOK, SameCycle, cycleVars
<1>4. LedgerInv' BY <1>1, StakesKept
<1>5. miningStakes \in [Miners -> Nat] BY DEF TypeOK
<1>6. \A v \in Miners : miningStakes'[v] >= miningStakes[v] BY <1>1, <1>5
<1>7. EntriesInv' BY <1>1, <1>3, <1>6, EntriesKept
<1>8. CycleInv' BY <1>1, CycleKept
<1>9. RewardsBacked' BY <1>1, <1>2, BackingKept DEF Untouched
<1> QED BY <1>3, <1>4, <1>7, <1>8, <1>9

LEMMA FundStep ==
  ASSUME IInv, NEW amount \in Amounts, fundNetwork(amount)
  PROVE  IInv'
<1> DEFINE w == [[ledger.wallet EXCEPT ![MetaColony] = ledger.wallet[MetaColony] - amount]
                   EXCEPT ![Network] = ledger.wallet[Network] + amount]
           k == [ledger EXCEPT !.wallet = w]
<1>1. Booked(ledger) /\ ledger \in Ledger BY BookedFacts DEF IInv, LedgerInv
<1>2. amount \in Nat /\ amount <= ledger.wallet[MetaColony]
  BY AmountsAssumption DEF fundNetwork
<1>3. ledger.wallet \in [Users -> Nat] BY <1>1, Fields
<1>4. Network \in Users /\ MetaColony \in Users /\ MetaColony # Network BY Parties
<1>5. w \in [Users -> Nat] BY <1>2, <1>3, <1>4
<1>6. ledger' = k BY <1>1, <1>3, <1>4 DEF fundNetwork, Ledger
<1> HIDE DEF w
<1>7. Booked(k) /\ Untouched(ledger, k) BY <1>1, <1>5, WalletBooked
<1> HIDE DEF k
<1> QED BY <1>6, <1>7, ElsewhereStep DEF fundNetwork

LEMMA OthersStep == ASSUME IInv, useTokenLocking PROVE IInv'
<1>1. Booked(ledger) BY DEF IInv, LedgerInv
<1>2. Booked(ledger') /\ Untouched(ledger, ledger') BY <1>1, OthersBooked
<1> QED BY <1>2, ElsewhereStep DEF useTokenLocking
-----------------------------------------------------------------------------
(* Every step keeps it: the cycle.                                         *)

\* One entry more, of its submitter.
LEMMA EntryAdded ==
  ASSUME NEW q \in Seq(Miners), NEW m \in Miners
  PROVE  LET k == Append(q, m)
         IN  /\ hits(DOMAIN q, q, m) \in Nat
             /\ hits(DOMAIN k, k, m) = hits(DOMAIN q, q, m) + 1
             /\ \A v \in Miners \ {m} : hits(DOMAIN k, k, v) = hits(DOMAIN q, q, v)
<1> DEFINE k == Append(q, m)
           n == Len(q)
           of(v) == {i \in DOMAIN q : q[i] = v}
           now(v) == {i \in DOMAIN k : k[i] = v}
<1>1. /\ n \in Nat /\ DOMAIN q = 1 .. n /\ DOMAIN k = 1 .. n + 1
      /\ k[n + 1] = m /\ \A i \in 1 .. n : k[i] = q[i]
  OBVIOUS
<1>2. IsFiniteSet(of(m))
  <2>1. IsFiniteSet(DOMAIN q) BY LastIndex
  <2>2. of(m) \subseteq DOMAIN q OBVIOUS
  <2> HIDE DEF of
  <2> QED BY <2>1, <2>2, FS_Subset
<1> HIDE DEF k, n
<1>3. /\ now(m) = of(m) \cup {n + 1} /\ n + 1 \notin of(m)
      /\ \A v \in Miners \ {m} : now(v) = of(v)
  BY <1>1
<1>4. Cardinality(of(m)) \in Nat BY <1>2, FS_CardinalityType
<1>5. Cardinality(now(m)) = Cardinality(of(m)) + 1
  <2> HIDE DEF of, now
  <2>1. Cardinality(of(m) \cup {n + 1}) = Cardinality(of(m)) + 1
    BY <1>2, <1>3, FS_AddElement
  <2> QED BY <1>3, <2>1
<1>6. \A v : hits(DOMAIN q, q, v) = Cardinality(of(v)) /\ hits(DOMAIN k, k, v) = Cardinality(now(v))
  BY DEF hits
<1> HIDE DEF of, now
<1> QED BY <1>3, <1>4, <1>5, <1>6 DEF k

\* Whole stakes: n entries of d each are below a when n < a \div d.
LEMMA WholeStakes ==
  ASSUME NEW a \in Nat, NEW d \in Nat \ {0}, NEW n \in Nat, n < a \div d
  PROVE  d * (n + 1) <= a
<1>1. a \div d \in Nat /\ a % d \in Nat /\ a = d * (a \div d) + (a % d) OBVIOUS
<1> DEFINE e == a \div d
           r == a % d
<1>2. e \in Nat /\ r \in Nat /\ a = d * e + r /\ n + 1 <= e BY <1>1
<1> HIDE DEF e, r
<1>3. \A x, y \in Nat : x <= y => d * x <= d * y OBVIOUS
<1>4. d * (n + 1) <= d * e /\ d * (n + 1) \in Nat /\ d * e \in Nat BY <1>2, <1>3
<1> QED BY <1>2, <1>4

LEMMA SubmitStep ==
  ASSUME IInv, NEW m \in Miners, NEW h \in Hashes, submitRootHash(m, h)
  PROVE  IInv'
<1> USE DEF IInv
<1> DEFINE q == submittedHashes[h]
           k == Append(q, m)
<1>1. /\ ~windowClosed \/ Submitted = {}
      /\ entriesOf(m, h) < miningStakes[m] \div MinStake
      /\ \A g \in Hashes \ {h} : entriesOf(m, g) = 0
      /\ submittedHashes' = [submittedHashes EXCEPT ![h] = k]
      /\ UNCHANGED <<ledger, miningStakes, recent, pendingMiningRewards,
                     respondedToChallenge, windowClosed, invalidated, stakeLost, rewardsPaidOut>>
  BY DEF submitRootHash, checkEntryQualifies
<1>2. submittedHashes \in [Hashes -> Seq(Miners)] /\ q \in Seq(Miners) BY DEF TypeOK
<1>3. k \in Seq(Miners) /\ k # <<>>
  <2>1. k \in Seq(Miners) /\ Len(k) = Len(q) + 1 /\ Len(q) \in Nat BY <1>2
  <2>2. Len(k) # 0 BY <2>1
  <2>3. Len(<<>>) = 0 OBVIOUS
  <2> QED BY <2>1, <2>2, <2>3
<1>4. /\ hits(DOMAIN q, q, m) \in Nat
      /\ hits(DOMAIN k, k, m) = hits(DOMAIN q, q, m) + 1
      /\ \A v \in Miners \ {m} : hits(DOMAIN k, k, v) = hits(DOMAIN q, q, v)
  <2> HIDE DEF q
  <2>1. LET j == Append(q, m)
        IN  /\ hits(DOMAIN q, q, m) \in Nat
            /\ hits(DOMAIN j, j, m) = hits(DOMAIN q, q, m) + 1
            /\ \A v \in Miners \ {m} : hits(DOMAIN j, j, v) = hits(DOMAIN q, q, v)
    BY <1>2, EntryAdded
  <2> QED BY <2>1
<1> HIDE DEF k
<1>5. /\ submittedHashes' \in [Hashes -> Seq(Miners)]
      /\ submittedHashes'[h] = k
      /\ \A g \in Hashes \ {h} : submittedHashes'[g] = submittedHashes[g]
  BY <1>1, <1>2, <1>3
<1>6. TypeOK' BY <1>1, <1>5 DEF TypeOK
<1>7. LedgerInv' BY <1>1 DEF LedgerInv, StakesMatch
<1>8. RewardsBacked' BY <1>1 DEF RewardsBacked
<1>9. invalidated = {} /\ rewardsPaidOut = 0
  <2>1. invalidated = {} /\ ~ (rewardsPaidOut > 0) BY <1>1 DEF CycleInv
  <2> QED BY <2>1, Types
<1>10. CycleInv'
  <2>1. Cardinality({}) = 0 /\ MinStake \in Nat /\ stakeLost \in Nat
    BY FS_EmptySet, Types
  <2>2. stakeLost' >= MinStake * Cardinality(invalidated') BY <1>1, <1>9, <2>1
  <2>3. invalidated' = {} /\ rewardsPaidOut' = 0 BY <1>1, <1>9
  <2>4. ~ (rewardsPaidOut' > 0) BY <2>3
  <2> QED BY <2>2, <2>3, <2>4 DEF CycleInv
<1>11. /\ \A v \in Miners, g \in Hashes :
            /\ entriesOf(v, g) = hits(DOMAIN submittedHashes[g], submittedHashes[g], v)
            /\ entriesOf(v, g) \in Nat
       /\ \A v \in Miners, g \in Hashes :
            entriesOf(v, g)' = hits(DOMAIN submittedHashes'[g], submittedHashes'[g], v)
  BY <1>2, EntriesAreHits DEF entriesOf, hits
<1>12. /\ entriesOf(m, h)' = entriesOf(m, h) + 1
       /\ \A v \in Miners, g \in Hashes :
            v # m \/ g # h => entriesOf(v, g)' = entriesOf(v, g)
  <2>1. \A v \in Miners : /\ entriesOf(v, h)' = hits(DOMAIN k, k, v)
                          /\ entriesOf(v, h) = hits(DOMAIN q, q, v)
    BY <1>5, <1>11
  <2>2. ASSUME NEW v \in Miners, NEW g \in Hashes, v # m \/ g # h
        PROVE  entriesOf(v, g)' = entriesOf(v, g)
    <3>1. CASE g # h
      <4>1. submittedHashes'[g] = submittedHashes[g] BY <1>5, <3>1
      <4> QED BY <4>1 DEF entriesOf
    <3>2. CASE g = h
      <4>1. v # m BY <2>2, <3>2
      <4>2. hits(DOMAIN k, k, v) = hits(DOMAIN q, q, v) BY <1>4, <4>1
      <4> QED BY <2>1, <3>2, <4>2
    <3> QED BY <3>1, <3>2
  <2>3. entriesOf(m, h)' = entriesOf(m, h) + 1
    <3> HIDE DEF q
    <3> QED BY <1>4, <2>1
  <2> QED BY <2>2, <2>3
<1> HIDE DEF q
<1>13. \A v \in Miners, g \in Hashes, f \in Hashes :
         entriesOf(v, g)' > 0 /\ entriesOf(v, f)' > 0 => g = f
  <2>1. ASSUME NEW v \in Miners, NEW g \in Hashes, NEW f \in Hashes, g # f,
               entriesOf(v, g)' > 0, entriesOf(v, f)' > 0
        PROVE  FALSE
    <3>1. CASE v = m
      <4>1. PICK e \in {g, f} : e # h BY <2>1
      <4>2. entriesOf(m, e)' = entriesOf(m, e) /\ entriesOf(m, e) = 0 BY <1>1, <1>12, <4>1
      <4> QED BY <2>1, <3>1, <4>2
    <3>2. CASE v # m
      <4>1. entriesOf(v, g)' = entriesOf(v, g) /\ entriesOf(v, f)' = entriesOf(v, f)
        BY <1>12, <3>2
      <4> QED BY <2>1, <4>1 DEF EntriesInv
    <3> QED BY <3>1, <3>2
  <2> QED BY <2>1
<1>14. Live' \subseteq Live \cup {h}
  <2>1. Submitted' \subseteq Submitted \cup {h} BY <1>5 DEF Submitted
  <2> QED BY <1>1, <2>1 DEF Live
<1>15. ASSUME NEW v \in Miners, NEW g \in Live'
       PROVE  MinStake * entriesOf(v, g)' <= miningStakes[v]
  <2>1. g \in Hashes BY DEF Live, Submitted
  <2>2. CASE v = m /\ g = h
    <3>1. MinStake \in Nat \ {0} /\ miningStakes[m] \in Nat BY AmountsAssumption, Types
    <3>2. entriesOf(m, h) \in Nat BY <1>11
    <3>3. MinStake * (entriesOf(m, h) + 1) <= miningStakes[m]
      BY <1>1, <3>1, <3>2, WholeStakes
    <3> QED BY <1>12, <2>2, <3>3
  <2>3. CASE v # m /\ g = h
    <3>1. entriesOf(v, g)' = entriesOf(v, g) BY <1>12, <2>3
    <3>2. CASE h \in Live BY <2>3, <3>1, <3>2 DEF EntriesInv
    <3>3. CASE h \notin Live
      <4>1. submittedHashes[h] = <<>> BY <1>9, <3>3 DEF Live, Submitted
      <4>2. {i \in DOMAIN submittedHashes[h] : submittedHashes[h][i] = v} = {} BY <4>1
      <4>3. entriesOf(v, h) = 0 BY <4>2, FS_EmptySet DEF entriesOf
      <4>4. MinStake * 0 = 0 /\ miningStakes[v] \in Nat BY Types
      <4>5. MinStake * entriesOf(v, g)' = 0 BY <2>3, <3>1, <4>3, <4>4
      <4> QED BY <4>4, <4>5
    <3> QED BY <3>2, <3>3
  <2>4. CASE g # h
    <3>1. entriesOf(v, g)' = entriesOf(v, g) /\ g \in Live BY <1>12, <1>14, <2>1, <2>4
    <3> QED BY <3>1 DEF EntriesInv
  <2> QED BY <2>2, <2>3, <2>4
<1>16. EntriesInv'
  <2>1. \A v \in Miners, g \in Live' : (MinStake * entriesOf(v, g))' <= miningStakes'[v]
    BY <1>1, <1>15
  <2> QED BY <1>13, <2>1 DEF EntriesInv
<1> QED BY <1>6, <1>7, <1>8, <1>10, <1>16

LEMMA CloseStep == ASSUME IInv, CloseWindow PROVE IInv'
<1> USE DEF IInv
<1>1. /\ windowClosed' = TRUE
      /\ UNCHANGED <<ledger, miningStakes, recent, pendingMiningRewards, submittedHashes,
                     respondedToChallenge, invalidated, stakeLost, rewardsPaidOut>>
  BY DEF CloseWindow
<1>2. Submitted' = Submitted /\ Live' = Live BY <1>1 DEF Submitted, Live
<1>3. \A m, h : entriesOf(m, h)' = entriesOf(m, h) BY <1>1 DEF entriesOf
<1>4. TypeOK' BY <1>1 DEF TypeOK
<1>5. LedgerInv' BY <1>1 DEF LedgerInv, StakesMatch
<1>6. EntriesInv' BY <1>1, <1>2, <1>3 DEF EntriesInv
<1>7. CycleInv' BY <1>1, <1>2 DEF CycleInv
<1>8. RewardsBacked' BY <1>1 DEF RewardsBacked
<1> QED BY <1>4, <1>5, <1>6, <1>7, <1>8

\* An answer is rewarded out of what rewardsLeft keeps.
LEMMA RespondStep ==
  ASSUME IInv, NEW m \in Miners, respond(m)
  PROVE  IInv'
<1> USE DEF IInv
<1> DEFINE d == disputeRewardSize
           top == MinStake * (Cardinality(Submitted) - 1)
<1>1. /\ windowClosed /\ Submitted # {}
      /\ rewardsPaidOut + Cardinality(Live) * d <= top
      /\ UNCHANGED <<ledger, miningStakes, recent, submittedHashes, windowClosed, invalidated,
                     stakeLost>>
  BY DEF respond, rewardsLeft
<1>2. /\ d \in Nat
      /\ rewardsPaidOut' = rewardsPaidOut + d
      /\ pendingMiningRewards' \in [Miners -> Nat]
      /\ SumFunction(pendingMiningRewards') = SumFunction(pendingMiningRewards) + d
      /\ respondedToChallenge' \subseteq Miners
  <2>1. rewardResponder(m) BY DEF respond
  <2> QED BY <2>1, RewardBooked
<1>3. Submitted' = Submitted /\ Live' = Live BY <1>1 DEF Submitted, Live
<1>4. \A v, h : entriesOf(v, h)' = entriesOf(v, h) BY <1>1 DEF entriesOf
<1>5. rewardsPaidOut \in Nat /\ stakeLost \in Nat BY Types
<1> HIDE DEF d
<1>6. TypeOK' BY <1>1, <1>2, <1>5 DEF TypeOK
<1>7. LedgerInv' BY <1>1 DEF LedgerInv, StakesMatch
<1>8. EntriesInv' BY <1>1, <1>3, <1>4 DEF EntriesInv
<1>9. CycleInv'
  <2>1. ASSUME Live # {} PROVE rewardsPaidOut' <= top
    <3> DEFINE c == Cardinality(Live)
    <3>1. c \in Nat /\ c # 0 BY <2>1, HashesCounted, FS_EmptySet
    <3>2. Cardinality(Submitted) - 1 \in Int /\ MinStake \in Int
      BY HashesCounted, AmountsAssumption
    <3>3. top \in Int
      <4>1. \A i, j \in Int : i * j \in Int OBVIOUS
      <4> QED BY <3>2, <4>1
    <3> HIDE DEF c
    <3>4. c * d >= d /\ c * d \in Nat
      <4>1. PICK i \in Nat : c = i + 1
        <5>1. c - 1 \in Nat /\ c = (c - 1) + 1 BY <3>1
        <5> QED BY <5>1
      <4>2. (i + 1) * d = i * d + d /\ i * d \in Nat BY <1>2
      <4> QED BY <1>2, <4>1, <4>2
    <3> HIDE DEF top
    <3>5. rewardsPaidOut + c * d <= top BY <1>1 DEF c
    <3>6. rewardsPaidOut + d <= top BY <1>2, <1>5, <3>3, <3>4, <3>5
    <3> QED BY <1>2, <3>6
  <2>2. top' = top BY <1>3
  <2> HIDE DEF top
  <2>3. stakeLost' >= MinStake * Cardinality(invalidated') BY <1>1 DEF CycleInv
  <2> QED BY <1>1, <1>3, <2>1, <2>2, <2>3 DEF CycleInv, top
<1>10. RewardsBacked'
  <2> DEFINE a == ledger.balance[Network]
             b == SumFunction(pendingMiningRewards)
  <2>1. a \in Nat /\ b \in Nat BY Types
  <2>2. a + rewardsPaidOut >= stakeLost + b BY DEF RewardsBacked
  <2>3. SumFunction(pendingMiningRewards') = b + d BY <1>2
  <2> HIDE DEF a, b
  <2>4. a + rewardsPaidOut' >= stakeLost + SumFunction(pendingMiningRewards')
    BY <1>2, <1>5, <2>1, <2>2, <2>3
  <2> QED BY <1>1, <2>4 DEF RewardsBacked, a
<1> QED BY <1>6, <1>7, <1>8, <1>9, <1>10

\* What invalidateHash and invalidateBoth leave of the cycle and the rewards, if
\* they left the stakes in order.
LEMMA PunishedStep ==
  ASSUME IInv, NEW s, NEW hs, hs \subseteq Submitted, NEW lost \in Nat, NEW m \in Miners,
         punished(s, hs, lost, m),
         s \in Slashing, Booked(s.ledger), SameStakes(s),
         s.ledger.totalObligations[Network] = 0,
         s.ledger.balance[Network] >= ledger.balance[Network] + lost,
         lost >= MinStake * Cardinality(hs),
         \A v \in Miners, g \in Live \ hs :
            MinStake * entriesOf(v, g) <= s.miningStakes[v]
  PROVE  IInv'
<1> USE DEF IInv
<1> DEFINE d == disputeRewardSize
           top == MinStake * (Cardinality(Submitted) - 1)
<1>1. /\ windowClosed
      /\ rewardsPaidOut + 1 * d <= top
      /\ ledger' = s.ledger /\ miningStakes' = s.miningStakes
      /\ stakeLost' = stakeLost + lost
      /\ invalidated' = invalidated \cup hs
      /\ UNCHANGED <<recent, submittedHashes, windowClosed>>
  BY DEF punished, rewardsLeft
<1>2. /\ d \in Nat
      /\ rewardsPaidOut' = rewardsPaidOut + d
      /\ pendingMiningRewards' \in [Miners -> Nat]
      /\ SumFunction(pendingMiningRewards') = SumFunction(pendingMiningRewards) + d
      /\ respondedToChallenge' \subseteq Miners
  <2>1. rewardResponder(m) BY DEF punished
  <2> QED BY <2>1, RewardBooked
<1>3. Submitted' = Submitted /\ Live' = Live \ hs BY <1>1 DEF Submitted, Live
<1>4. \A v, h : entriesOf(v, h)' = entriesOf(v, h) BY <1>1 DEF entriesOf
<1>5. rewardsPaidOut \in Nat /\ stakeLost \in Nat BY Types
<1>6. s.ledger \in Ledger /\ s.miningStakes \in [Miners -> Nat] BY DEF Slashing
<1> HIDE DEF d
<1>7. TypeOK'
  <2>1. invalidated' \subseteq Hashes BY <1>1 DEF CycleInv, Submitted
  <2> QED BY <1>1, <1>2, <1>5, <1>6, <2>1 DEF TypeOK
<1>8. LedgerInv' BY <1>1 DEF LedgerInv, SameStakes, StakesMatch
<1>9. EntriesInv'
  <2>1. \A v \in Miners, g \in Live' : (MinStake * entriesOf(v, g))' <= miningStakes'[v]
    BY <1>1, <1>3, <1>4
  <2> QED BY <1>4, <2>1 DEF EntriesInv
<1>10. CycleInv'
  <2>1. stakeLost' >= MinStake * Cardinality(invalidated')
    <3> DEFINE a == Cardinality(invalidated)
               b == Cardinality(hs)
               c == Cardinality(invalidated \cup hs)
               n == Cardinality(invalidated \cap hs)
    <3>1. IsFiniteSet(invalidated) /\ IsFiniteSet(hs)
      BY HashesCounted, FS_Subset
    <3>2. a \in Nat /\ b \in Nat BY <3>1, FS_CardinalityType
    <3>3. c = a + b - n /\ n \in Nat
      <4>1. IsFiniteSet(invalidated \cap hs) BY <3>1, FS_Subset
      <4> QED BY <3>1, <4>1, FS_Union, FS_CardinalityType
    <3>4. c \in Nat
      <4>1. IsFiniteSet(invalidated \cup hs) BY <3>1, FS_Union
      <4> QED BY <4>1, FS_CardinalityType
    <3>5. stakeLost >= MinStake * a /\ lost >= MinStake * b BY DEF CycleInv
    <3> HIDE DEF a, b, c, n
    <3>6. /\ MinStake * a \in Nat /\ MinStake * b \in Nat /\ MinStake * c \in Nat
          /\ MinStake * c <= MinStake * a + MinStake * b
      <4>1. MinStake \in Nat BY AmountsAssumption
      <4>2. \A i, j \in Nat : MinStake * i \in Nat /\ (i <= j => MinStake * i <= MinStake * j)
        BY <4>1, SMT
      <4>3. MinStake * (a + b) = MinStake * a + MinStake * b BY <3>2, <4>1
      <4>4. c <= a + b /\ a + b \in Nat BY <3>2, <3>3, <3>4
      <4> QED BY <3>2, <3>4, <4>2, <4>3, <4>4
    <3>7. stakeLost + lost >= MinStake * c BY <1>5, <3>5, <3>6
    <3> QED BY <1>1, <3>7 DEF c
  <2>2. rewardsPaidOut' <= top BY <1>1, <1>2, <1>5
  <2>3. top' = top BY <1>3
  <2>4. invalidated' \subseteq Submitted BY <1>1 DEF CycleInv
  <2>5. invalidated' # {} \/ rewardsPaidOut' > 0 => Submitted # {}
    <3>1. CASE Submitted = {}
      <4>1. invalidated' = {} BY <2>4, <3>1
      <4>2. top \in Int /\ top < 0
        <5>1. Cardinality(Submitted) = 0 BY <3>1, FS_EmptySet
        <5>2. MinStake \in Nat /\ MinStake > 0 BY AmountsAssumption
        <5> QED BY <5>1, <5>2
      <4> HIDE DEF top
      <4>3. rewardsPaidOut + d <= top BY <1>1, <1>2, <1>5
      <4> QED BY <1>2, <1>5, <4>2, <4>3
    <3> QED BY <3>1
  <2> HIDE DEF top
  <2> QED BY <1>1, <1>3, <2>1, <2>2, <2>3, <2>4, <2>5 DEF CycleInv, top
<1>11. RewardsBacked'
  <2> DEFINE a == ledger.balance[Network]
             b == SumFunction(pendingMiningRewards)
             e == s.ledger.balance[Network]
  <2>1. a \in Nat /\ b \in Nat BY Types
  <2>2. e \in Nat BY <1>6, Parties, Fields
  <2>3. a + rewardsPaidOut >= stakeLost + b BY DEF RewardsBacked
  <2>4. SumFunction(pendingMiningRewards') = b + d /\ e >= a + lost BY <1>2
  <2> HIDE DEF a, b, e
  <2>5. e + rewardsPaidOut' >= stakeLost' + SumFunction(pendingMiningRewards')
    BY <1>1, <1>2, <1>5, <2>1, <2>2, <2>3, <2>4
  <2> QED BY <1>1, <2>5 DEF RewardsBacked, e
<1> QED BY <1>7, <1>8, <1>9, <1>10, <1>11

\* What the entries of a hash stake.
LEMMA HashStake ==
  ASSUME IInv, NEW h \in Live
  PROVE  /\ submittedHashes[h] \in Seq(Miners) /\ h \in Submitted
         /\ stakeOf(h) \in Nat /\ stakeOf(h) >= MinStake
         /\ stakeOf(h) = MinStake * Len(submittedHashes[h])
         /\ \A m \in Miners :
              loss(DOMAIN submittedHashes[h], submittedHashes[h], m)
                = MinStake * entriesOf(m, h)
<1> DEFINE q == submittedHashes[h]
           n == Len(q)
<1>1. q \in Seq(Miners) /\ q # <<>> /\ h \in Submitted
  BY Types DEF IInv, Live, Submitted
<1>2. MinStake \in Nat BY AmountsAssumption
<1>3. n \in Nat /\ n >= 1
  <2>1. n \in Nat BY <1>1
  <2>2. q \in Seq(Miners) /\ n = 0 => q = <<>> OBVIOUS
  <2> HIDE DEF n, q
  <2> QED BY <1>1, <2>1, <2>2
<1>4. n * MinStake \in Nat /\ n * MinStake >= MinStake /\ n * MinStake = MinStake * n
  <2> HIDE DEF n
  <2>1. PICK i \in Nat : n = i + 1
    <3>1. n - 1 \in Nat /\ n = (n - 1) + 1 BY <1>3
    <3> QED BY <3>1
  <2>2. n * MinStake = i * MinStake + MinStake /\ i * MinStake \in Nat BY <1>2, <2>1
  <2>3. n * MinStake = MinStake * n BY <1>2, <1>3
  <2> QED BY <1>2, <2>2, <2>3
<1>5. \A m \in Miners : loss(DOMAIN q, q, m) = MinStake * entriesOf(m, h)
  BY <1>1, EntriesAreHits
<1> QED BY <1>1, <1>4, <1>5 DEF stakeOf

\* The books that punishStakers starts from.
LEMMA BooksReady ==
  ASSUME IInv
  PROVE  /\ Books0 \in Slashing /\ Books0.ok /\ Books0.ledger = ledger
         /\ Books0.miningStakes = miningStakes /\ Booked(Books0.ledger) /\ SameStakes(Books0)
         /\ \A h \in Live : Slashable(Books0, submittedHashes[h])
<1>1. /\ Books0.ok = TRUE /\ Books0.ledger = ledger /\ Books0.miningStakes = miningStakes
      /\ Books0 \in Slashing
  BY DEF Books0, Slashing, IInv, TypeOK
<1>2. Booked(ledger) /\ StakesMatch BY DEF IInv, LedgerInv
<1>3. SameStakes(Books0) BY <1>1, <1>2 DEF SameStakes, StakesMatch
<1>4. ASSUME NEW h \in Live PROVE Slashable(Books0, submittedHashes[h])
  <2>1. \A m \in Miners : loss(DOMAIN submittedHashes[h], submittedHashes[h], m)
                             = MinStake * entriesOf(m, h)
    BY HashStake
  <2>2. \A m \in Miners : MinStake * entriesOf(m, h) <= miningStakes[m]
    BY DEF IInv, EntriesInv
  <2> QED BY <1>1, <2>1, <2>2 DEF Slashable
<1> QED BY <1>1, <1>2, <1>3, <1>4

\* A miner of a live hash has no entry in another, so loses nothing there.
LEMMA OtherHashes ==
  ASSUME IInv, NEW m \in Miners, NEW h \in Live, NEW g \in Live, g # h, NEW s, NEW t,
         Slashed(s, submittedHashes[h], t), s \in Slashing,
         MinStake * entriesOf(m, g) <= s.miningStakes[m]
  PROVE  MinStake * entriesOf(m, g) <= t.miningStakes[m]
<1> DEFINE lost == loss(DOMAIN submittedHashes[h], submittedHashes[h], m)
<1>1. /\ h \in Hashes /\ g \in Hashes
      /\ submittedHashes[h] \in Seq(Miners) /\ submittedHashes[g] \in Seq(Miners)
  BY HashStake DEF Live, Submitted
<1>2. entriesOf(m, h) \in Nat /\ entriesOf(m, g) \in Nat BY <1>1, EntriesAreHits
<1>3. t.miningStakes[m] = s.miningStakes[m] - lost /\ t \in Slashing BY DEF Slashed
<1>4. t.miningStakes[m] \in Nat /\ s.miningStakes[m] \in Nat BY <1>3 DEF Slashing
<1>5. lost = MinStake * entriesOf(m, h) BY HashStake
<1>6. MinStake * 0 = 0 BY AmountsAssumption
<1> HIDE DEF lost
<1>7. CASE entriesOf(m, g) = 0
  <2>1. MinStake * entriesOf(m, g) = 0 BY <1>6, <1>7
  <2> QED BY <1>4, <2>1
<1>8. CASE entriesOf(m, g) # 0
  <2>1. entriesOf(m, g) > 0 BY <1>2, <1>8
  <2>2. ~ (entriesOf(m, h) > 0) BY <1>1, <2>1 DEF IInv, EntriesInv
  <2>3. entriesOf(m, h) = 0 BY <1>2, <2>2
  <2>4. lost = 0 BY <1>5, <1>6, <2>3
  <2>5. t.miningStakes[m] = s.miningStakes[m] BY <1>3, <1>4, <2>4
  <2> QED BY <2>5
<1> QED BY <1>7, <1>8

LEMMA InvalidateStep ==
  ASSUME IInv, NEW h \in Live, NEW m \in Miners, invalidateHash(h, m)
  PROVE  IInv'
<1> DEFINE q == submittedHashes[h]
           t == punishStakers(Books0, q)
<1>1. punished(t, {h}, stakeOf(h), m) BY DEF invalidateHash
<1>2. /\ q \in Seq(Miners) /\ h \in Submitted /\ stakeOf(h) \in Nat
      /\ stakeOf(h) >= MinStake /\ stakeOf(h) = MinStake * Len(q)
  BY HashStake
<1>3. Slashed(Books0, q, t) BY <1>2, BooksReady, PunishSlashes
<1> HIDE DEF t
<1>4. /\ t \in Slashing /\ Booked(t.ledger) /\ SameStakes(t)
      /\ t.ledger.totalObligations[Network] = ledger.totalObligations[Network]
      /\ t.ledger.balance[Network] >= ledger.balance[Network] + stakeOf(h)
  BY <1>2, <1>3, BooksReady DEF Slashed
<1>5. ledger.totalObligations[Network] = 0 BY DEF IInv, LedgerInv
<1>6. stakeOf(h) >= MinStake * Cardinality({h})
  <2>1. Cardinality({h}) = 1 BY FS_Singleton
  <2>2. MinStake * 1 = MinStake BY AmountsAssumption
  <2> QED BY <1>2, <2>1, <2>2
<1>7. ASSUME NEW v \in Miners, NEW g \in Live \ {h}
      PROVE  MinStake * entriesOf(v, g) <= t.miningStakes[v]
  <2>1. MinStake * entriesOf(v, g) <= miningStakes[v] BY DEF IInv, EntriesInv
  <2>2. Books0 \in Slashing /\ Books0.miningStakes = miningStakes BY BooksReady
  <2> QED BY <1>3, <2>1, <2>2, OtherHashes
<1>8. {h} \subseteq Submitted BY <1>2
<1> QED BY <1>1, <1>2, <1>4, <1>5, <1>6, <1>7, <1>8, PunishedStep

LEMMA InvalidateBothStep ==
  ASSUME IInv, NEW h \in Live, NEW g \in Live \ {h}, NEW m \in Miners, invalidateBoth(h, g, m)
  PROVE  IInv'
<1> DEFINE q == submittedHashes[h]
           p == submittedHashes[g]
           s == punishStakers(Books0, q)
           t == punishStakers(s, p)
           both == stakeOf(h) + stakeOf(g)
<1>1. punished(t, {h, g}, both, m) BY DEF invalidateBoth
<1>2. /\ q \in Seq(Miners) /\ h \in Submitted /\ stakeOf(h) \in Nat
      /\ stakeOf(h) >= MinStake /\ stakeOf(h) = MinStake * Len(q)
  BY HashStake
<1>3. /\ p \in Seq(Miners) /\ g \in Submitted /\ stakeOf(g) \in Nat
      /\ stakeOf(g) >= MinStake /\ stakeOf(g) = MinStake * Len(p)
      /\ \A v \in Miners : loss(DOMAIN p, p, v) = MinStake * entriesOf(v, g)
  BY HashStake
<1>4. Slashed(Books0, q, s) BY <1>2, BooksReady, PunishSlashes
<1>5. /\ s \in Slashing /\ s.ok /\ Booked(s.ledger) /\ SameStakes(s)
      /\ s.ledger.totalObligations[Network] = ledger.totalObligations[Network]
      /\ s.ledger.balance[Network] >= ledger.balance[Network] + stakeOf(h)
  <2> HIDE DEF s
  <2> QED BY <1>2, <1>4, BooksReady DEF Slashed
<1>6. ASSUME NEW v \in Miners, NEW f \in Live \ {h}
      PROVE  MinStake * entriesOf(v, f) <= s.miningStakes[v]
  <2> HIDE DEF s
  <2>1. MinStake * entriesOf(v, f) <= miningStakes[v] BY DEF IInv, EntriesInv
  <2>2. Books0 \in Slashing /\ Books0.miningStakes = miningStakes BY BooksReady
  <2> QED BY <1>4, <2>1, <2>2, OtherHashes
<1> HIDE DEF s
<1>7. Slashable(s, p) BY <1>3, <1>6 DEF Slashable
<1>8. Slashed(s, p, t) BY <1>3, <1>5, <1>7, PunishSlashes
<1> HIDE DEF t
<1>9. /\ t \in Slashing /\ Booked(t.ledger) /\ SameStakes(t)
      /\ t.ledger.totalObligations[Network] = s.ledger.totalObligations[Network]
      /\ t.ledger.balance[Network] >= s.ledger.balance[Network] + stakeOf(g)
  BY <1>3, <1>8 DEF Slashed
<1>10. t.ledger.totalObligations[Network] = 0
  BY <1>5, <1>9 DEF IInv, LedgerInv
<1>11. t.ledger.balance[Network] >= ledger.balance[Network] + both
  <2> DEFINE a == ledger.balance[Network]
             b == s.ledger.balance[Network]
             c == t.ledger.balance[Network]
  <2>1. a \in Nat BY Types DEF IInv
  <2>2. b \in Nat /\ c \in Nat BY <1>5, <1>9, Parties, Fields DEF Slashing
  <2>3. b >= a + stakeOf(h) /\ c >= b + stakeOf(g) BY <1>5, <1>9
  <2> HIDE DEF a, b, c
  <2>4. c >= a + both BY <1>2, <1>3, <2>1, <2>2, <2>3
  <2> QED BY <2>4 DEF a, c
<1>12. both \in Nat /\ both >= MinStake * Cardinality({h, g})
  <2>1. Cardinality({h, g}) = 2
    <3>1. IsFiniteSet({h}) /\ Cardinality({h}) = 1 BY FS_Singleton
    <3>2. {h} \cup {g} = {h, g} /\ g \notin {h} OBVIOUS
    <3>3. Cardinality({h} \cup {g}) = Cardinality({h}) + 1 BY <3>1, <3>2, FS_AddElement
    <3> QED BY <3>1, <3>2, <3>3
  <2>2. MinStake * 2 = MinStake + MinStake /\ MinStake \in Nat BY AmountsAssumption
  <2>3. both >= MinStake + MinStake /\ both \in Nat
    <3> DEFINE a == stakeOf(h)
               b == stakeOf(g)
    <3>1. a \in Nat /\ b \in Nat /\ a >= MinStake /\ b >= MinStake BY <1>2, <1>3
    <3> HIDE DEF a, b
    <3>2. a + b >= MinStake + MinStake /\ a + b \in Nat BY <2>2, <3>1
    <3> QED BY <3>2 DEF a, b
  <2> QED BY <2>1, <2>2, <2>3
<1>13. ASSUME NEW v \in Miners, NEW f \in Live \ {h, g}
       PROVE  MinStake * entriesOf(v, f) <= t.miningStakes[v]
  <2>1. MinStake * entriesOf(v, f) <= s.miningStakes[v] BY <1>6
  <2> QED BY <1>5, <1>8, <2>1, OtherHashes
<1>14. {h, g} \subseteq Submitted BY <1>2, <1>3
<1> HIDE DEF both
<1> QED BY <1>1, <1>9, <1>10, <1>11, <1>12, <1>13, <1>14, PunishedStep

\* What is burnt leaves the network's deposit, and no wallet but the meta colony's
\* gains it.
LEMMA Burnt ==
  ASSUME NEW l, Booked(l), NEW amount \in Nat, canBurnUnneededRewards(l, amount)
  PROVE  LET k == burnUnneededRewards(l, amount)
         IN  /\ Booked(k)
             /\ k.obligations = l.obligations /\ k.totalObligations = l.totalObligations
             /\ k.balance[Network] = l.balance[Network] - amount
             /\ k.wallet[Network] = l.wallet[Network]
<1> DEFINE k == burnUnneededRewards(l, amount)
           d == withdraw(l, Network, amount, TRUE)
           w == [[d.wallet EXCEPT ![Network] = d.wallet[Network] - amount]
                   EXCEPT ![MetaColony] = d.wallet[MetaColony] + amount]
<1>1. /\ l \in Ledger /\ l.balance[Network] \in Nat /\ l.wallet[Network] \in Nat
  BY BookedFacts, Fields, Parties
<1>2. CASE amount = 0
  <2>1. k = l BY <1>2 DEF burnUnneededRewards
  <2>2. l.balance[Network] = l.balance[Network] - amount BY <1>1, <1>2
  <2> QED BY <2>1, <2>2
<1>3. CASE amount # 0
  <2>1. canWithdraw(l, Network, amount, TRUE) BY <1>3 DEF canBurnUnneededRewards
  <2>2. Network \in Users /\ MetaColony \in Users /\ MetaColony # Network BY Parties
  <2>3. /\ Booked(d)
        /\ d.obligations = l.obligations /\ d.totalObligations = l.totalObligations
        /\ d.balance[Network] = l.balance[Network] - amount
        /\ d.wallet[Network] = l.wallet[Network] + amount
    <3> DEFINE force == TRUE
    <3>1. /\ force \in BOOLEAN /\ d = withdraw(l, Network, amount, force)
          /\ canWithdraw(l, Network, amount, force)
      BY <2>1
    <3> HIDE DEF force, d
    <3> QED BY <2>2, <3>1, WithdrawBooked
  <2>4. k = [d EXCEPT !.wallet[Network] = @ - amount, !.wallet[MetaColony] = @ + amount]
    BY <1>3 DEF burnUnneededRewards
  <2> HIDE DEF d, k
  <2>5. d \in Ledger /\ d.wallet \in [Users -> Nat]
    <3>1. d \in Ledger BY <2>3, BookedFacts
    <3> QED BY <3>1, Fields
  <2>6. w \in [Users -> Nat] /\ w[Network] = l.wallet[Network]
    BY <1>1, <2>2, <2>3, <2>5
  <2>7. k = [d EXCEPT !.wallet = w] BY <2>2, <2>4, <2>5 DEF Ledger
  <2> HIDE DEF w
  <2>8. /\ Booked(k) /\ Untouched(d, k) /\ k.wallet = w /\ k.balance = d.balance
    <3>1. LET j == [d EXCEPT !.wallet = w]
          IN  Booked(j) /\ Untouched(d, j) /\ j.wallet = w /\ j.balance = d.balance
      BY <2>3, <2>6, WalletBooked
    <3> QED BY <2>7, <3>1
  <2>9. /\ k.obligations = l.obligations /\ k.totalObligations = l.totalObligations
        /\ k.balance[Network] = l.balance[Network] - amount
        /\ k.wallet[Network] = l.wallet[Network]
    BY <2>3, <2>6, <2>8 DEF Untouched
  <2> QED BY <2>8, <2>9 DEF k
<1> QED BY <1>2, <1>3

\* The cycle ends: what was lost and not awarded is burnt, so the network's
\* deposit still covers the rewards it owes.
LEMMA ConfirmStep ==
  ASSUME IInv, NEW h \in Live, NEW share \in Shares(submittedHashes[h]), confirmNewHash(h, share)
  PROVE  IInv'
<1> USE DEF IInv
<1> DEFINE q == submittedHashes[h]
           excess == stakeLost - rewardsPaidOut
           b == burnUnneededRewards(ledger, excess)
           k == rewardStakers(b, q, share)
<1>1. /\ excess >= 0 /\ canBurnUnneededRewards(ledger, excess)
      /\ CycleReward <= b.wallet[Network]
      /\ ledger' = k /\ submittedHashes' = NoSubmissions /\ respondedToChallenge' = {}
      /\ windowClosed' = FALSE /\ invalidated' = {} /\ stakeLost' = 0 /\ rewardsPaidOut' = 0
      /\ recent' = {} /\ miningStakes' = miningStakes
      /\ pendingMiningRewards' = pendingMiningRewards
  BY DEF confirmNewHash
<1>2. /\ stakeLost \in Nat /\ rewardsPaidOut \in Nat /\ ledger.balance[Network] \in Nat
      /\ SumFunction(pendingMiningRewards) \in Nat /\ q \in Seq(Miners)
  BY Types DEF Live, Submitted
<1>3. excess \in Nat BY <1>1, <1>2
<1>4. Booked(ledger) /\ ledger.totalObligations[Network] = 0 BY DEF LedgerInv
<1>5. /\ Booked(b)
      /\ b.obligations = ledger.obligations /\ b.totalObligations = ledger.totalObligations
      /\ b.balance[Network] = ledger.balance[Network] - excess
  <2> HIDE DEF excess
  <2> QED BY <1>1, <1>3, <1>4, Burnt
<1>6. /\ share \in [DOMAIN q -> Nat]
      /\ SumFunctionOnSet(share, DOMAIN q) = CycleReward
  <2>1. share \in [DOMAIN q -> 0 .. CycleReward] /\ SumFunction(share) = CycleReward
    BY DEF Shares
  <2>2. 0 .. CycleReward \subseteq Nat BY AmountsAssumption
  <2>3. DOMAIN share = DOMAIN q BY <2>1
  <2> HIDE DEF q
  <2> QED BY <2>1, <2>2, <2>3 DEF SumFunction
<1> HIDE DEF b
<1>7. Booked(k) /\ Untouched(b, k)
  <2>1. SumFunctionOnSet(share, DOMAIN q) <= b.wallet[Network] BY <1>1, <1>6
  <2> HIDE DEF q
  <2> QED BY <1>2, <1>5, <1>6, <2>1, PayingResult DEF Rewarded
<1> HIDE DEF k
<1>8. k \in Ledger BY <1>7, BookedFacts
<1>9. /\ k.obligations = ledger.obligations /\ k.totalObligations = ledger.totalObligations
      /\ k.balance[Network] >= ledger.balance[Network] - excess
  BY <1>5, <1>7 DEF Untouched
<1>10. NoSubmissions \in [Hashes -> Seq(Miners)]
  <2>1. <<>> \in Seq(Miners) OBVIOUS
  <2> QED BY <2>1 DEF NoSubmissions
<1>11. TypeOK'
  <2>1. recent' \subseteq Miners /\ respondedToChallenge' \subseteq Miners
        /\ invalidated' \subseteq Hashes /\ stakeLost' \in Nat /\ rewardsPaidOut' \in Nat
        /\ windowClosed' \in BOOLEAN
    BY <1>1
  <2>2. ledger' \in Ledger /\ submittedHashes' \in [Hashes -> Seq(Miners)] BY <1>1, <1>8, <1>10
  <2> QED BY <1>1, <2>1, <2>2 DEF TypeOK
<1>12. LedgerInv' BY <1>1, <1>4, <1>7, <1>9 DEF LedgerInv, StakesMatch
<1>13. EntriesInv' /\ CycleInv'
  <2>1. /\ submittedHashes' = NoSubmissions' /\ invalidated' = {}
        /\ stakeLost' = 0 /\ rewardsPaidOut' = 0
    BY <1>1 DEF NoSubmissions
  <2>2. Submitted' = {} BY <2>1 DEF Submitted, NoSubmissions
  <2>3. Live' = {} BY <2>2 DEF Live
  <2>4. ASSUME NEW m \in Miners, NEW g \in Hashes PROVE entriesOf(m, g)' = 0
    <3>1. submittedHashes'[g] = <<>> BY <2>1 DEF NoSubmissions
    <3>2. {i \in DOMAIN submittedHashes'[g] : submittedHashes'[g][i] = m} = {} BY <3>1
    <3> QED BY <3>2, FS_EmptySet DEF entriesOf
  <2>5. EntriesInv' BY <2>3, <2>4 DEF EntriesInv
  <2>6. Cardinality({}) = 0 /\ MinStake \in Nat BY FS_EmptySet, AmountsAssumption
  <2>7. stakeLost' >= MinStake * Cardinality(invalidated') BY <2>1, <2>6
  <2> QED BY <2>1, <2>2, <2>3, <2>5, <2>7 DEF CycleInv
<1>14. RewardsBacked'
  <2> DEFINE a == ledger.balance[Network]
             c == k.balance[Network]
             f == SumFunction(pendingMiningRewards)
  <2>1. a \in Nat /\ f \in Nat BY <1>2
  <2>2. c \in Nat BY <1>8, Parties, Fields
  <2>3. a + rewardsPaidOut >= stakeLost + f BY DEF RewardsBacked
  <2>4. c >= a - (stakeLost - rewardsPaidOut) BY <1>9
  <2> HIDE DEF a, c, f
  <2>5. c + 0 >= 0 + f BY <1>2, <2>1, <2>2, <2>3, <2>4
  <2> QED BY <1>1, <2>5 DEF RewardsBacked, c, f
<1> QED BY <1>11, <1>12, <1>13, <1>14

LEMMA NextInv == IInv /\ [Next]_vars => IInv'
<1> SUFFICES ASSUME IInv, [Next]_vars PROVE IInv'
  OBVIOUS
<1>1. ASSUME NEW m \in Miners, NEW amount \in Amounts, stakeForMining(m, amount) PROVE IInv'
  BY <1>1, StakeStep
<1>2. ASSUME NEW m \in Miners, NEW amount \in Amounts, unstakeForMining(m, amount) PROVE IInv'
  BY <1>2, UnstakeStep
<1>3. ASSUME NEW m \in Miners, claimMiningReward(m) PROVE IInv'
  BY <1>3, ClaimStep
<1>4. ASSUME NEW m \in Miners, NEW h \in Hashes, submitRootHash(m, h) PROVE IInv'
  BY <1>4, SubmitStep
<1>5. ASSUME CloseWindow PROVE IInv'
  BY <1>5, CloseStep
<1>6. ASSUME NEW m \in Miners, respond(m) PROVE IInv'
  BY <1>6, RespondStep
<1>7. ASSUME NEW m \in Miners, NEW h \in Live, invalidateHash(h, m) PROVE IInv'
  BY <1>7, InvalidateStep
<1>8. ASSUME NEW m \in Miners, NEW h \in Live, NEW g \in Live \ {h}, invalidateBoth(h, g, m)
      PROVE  IInv'
  BY <1>8, InvalidateBothStep
<1>9. ASSUME NEW h \in Live, NEW share \in Shares(submittedHashes[h]), confirmNewHash(h, share)
      PROVE  IInv'
  BY <1>9, ConfirmStep
<1>10. ASSUME useTokenLocking PROVE IInv'
  BY <1>10, OthersStep
<1>11. ASSUME NEW amount \in Amounts, fundNetwork(amount) PROVE IInv'
  BY <1>11, FundStep
<1>12. ASSUME UNCHANGED vars PROVE IInv'
  <2>1. /\ ledger' = ledger /\ miningStakes' = miningStakes /\ recent' = recent
        /\ pendingMiningRewards' = pendingMiningRewards
        /\ submittedHashes' = submittedHashes
        /\ respondedToChallenge' = respondedToChallenge
        /\ windowClosed' = windowClosed /\ invalidated' = invalidated
        /\ stakeLost' = stakeLost /\ rewardsPaidOut' = rewardsPaidOut
    BY <1>12 DEF vars, cycleVars
  <2>2. Submitted' = Submitted /\ Live' = Live BY <2>1 DEF Submitted, Live
  <2>3. \A m, h : entriesOf(m, h)' = entriesOf(m, h)
    BY <2>1 DEF entriesOf
  <2>4. TypeOK' BY <2>1 DEF IInv, TypeOK
  <2>5. LedgerInv' BY <2>1 DEF IInv, LedgerInv, StakesMatch
  <2>6. EntriesInv' BY <2>1, <2>2, <2>3 DEF IInv, EntriesInv
  <2>7. CycleInv' BY <2>1, <2>2 DEF IInv, CycleInv
  <2>8. RewardsBacked' BY <2>1 DEF IInv, RewardsBacked
  <2> QED BY <2>4, <2>5, <2>6, <2>7, <2>8 DEF IInv
<1> QED BY <1>1, <1>2, <1>3, <1>4, <1>5, <1>6, <1>7, <1>8, <1>9, <1>10, <1>11, <1>12
        DEF Next, Staking, Cycle

LEMMA Invariant == Spec => []IInv
BY InitInv, NextInv, PTL DEF Spec

-----------------------------------------------------------------------------
(* Theorems.                                                               *)

\* A miner with entries in one live hash only has a stake for them all.
LEMMA EntriesSum ==
  ASSUME IInv, NEW m \in Miners
  PROVE  miningStakes[m]
           >= MinStake * SumFunctionOnSet([h \in Hashes |-> entriesOf(m, h)], Live)
<1> DEFINE f == [h \in Hashes |-> entriesOf(m, h)]
<1>1. Live \subseteq Hashes /\ IsFiniteSet(Live)
  <2>1. IsFiniteSet(Live) BY HashesCounted DEF IInv
  <2> QED BY <2>1 DEF Live, Submitted
<1>2. \A h \in Hashes : f[h] = entriesOf(m, h) /\ f[h] \in Nat
  BY Types, EntriesAreHits DEF IInv
<1>3. miningStakes[m] \in Nat /\ MinStake \in Nat BY Types DEF IInv
<1> HIDE DEF f
<1>4. CASE \A h \in Live : f[h] = 0
  <2>1. SumFunctionOnSet(f, Live) = 0 BY <1>1, <1>4, SumZero
  <2>2. MinStake * 0 = 0 BY <1>3
  <2>3. miningStakes[m] >= MinStake * SumFunctionOnSet(f, Live) BY <1>3, <2>1, <2>2
  <2> QED BY <2>3 DEF f
<1>5. ASSUME NEW h \in Live, f[h] # 0
      PROVE  miningStakes[m] >= MinStake * SumFunctionOnSet(f, Live)
  <2>1. \A g \in Live \ {h} : f[g] = 0
    <3>1. \A g \in Hashes, e \in Hashes :
            entriesOf(m, g) > 0 /\ entriesOf(m, e) > 0 => g = e
      BY DEF IInv, EntriesInv
    <3>2. \A g \in Hashes : f[g] # 0 => entriesOf(m, g) > 0 BY <1>2
    <3> QED BY <1>1, <1>5, <3>1, <3>2
  <2>2. IsFiniteSet(Live \ {h}) BY <1>1, FS_RemoveElement
  <2>3. SumFunctionOnSet(f, Live \ {h}) = 0 BY <2>1, <2>2, SumZero
  <2>4. \A g \in Live : f[g] \in Int BY <1>1, <1>2
  <2>5. SumFunctionOnSet(f, Live) = f[h] + SumFunctionOnSet(f, Live \ {h})
    BY <1>1, <2>4, SumRemove
  <2>6. SumFunctionOnSet(f, Live) = f[h] BY <2>3, <2>4, <2>5
  <2>7. MinStake * entriesOf(m, h) <= miningStakes[m] BY DEF IInv, EntriesInv
  <2>8. f[h] = entriesOf(m, h) BY <1>1, <1>2
  <2>9. MinStake * SumFunctionOnSet(f, Live) <= miningStakes[m] BY <2>6, <2>7, <2>8
  <2>10. MinStake * SumFunctionOnSet(f, Live) \in Nat
    <3>1. f[h] \in Nat BY <1>1, <1>2
    <3>2. \A i, j \in Nat : i * j \in Nat OBVIOUS
    <3> QED BY <1>3, <2>6, <3>1, <3>2
  <2> QED BY <1>3, <2>9, <2>10
<1> QED BY <1>4, <1>5 DEF f

\* The burn takes what the losers lost beyond the rewards: no less than nothing,
\* and no more than the network has.
LEMMA BurnGoesThrough == ASSUME IInv PROVE BurnNeverBlocked
<1> SUFFICES ASSUME windowClosed, Cardinality(Live) = 1
             PROVE  /\ rewardsPaidOut <= stakeLost
                    /\ canBurnUnneededRewards(ledger, stakeLost - rewardsPaidOut)
  BY DEF BurnNeverBlocked
<1>1. /\ stakeLost \in Nat /\ rewardsPaidOut \in Nat /\ ledger.balance[Network] \in Nat
      /\ SumFunction(pendingMiningRewards) \in Nat
  BY Types DEF IInv
<1>2. rewardsPaidOut <= stakeLost
  <2>1. CASE rewardsPaidOut = 0 BY <1>1, <2>1
  <2>2. CASE rewardsPaidOut > 0
    <3>1. CycleInv BY DEF IInv
    <3>2. /\ Cardinality(Submitted) \in Nat /\ Cardinality(invalidated) \in Nat
          /\ Cardinality(Live) = Cardinality(Submitted) - Cardinality(invalidated)
      BY <3>1, HashesCounted
    <3>3. Cardinality(Submitted) - 1 = Cardinality(invalidated) BY <3>2
    <3>4. Live # {} BY FS_EmptySet
    <3>5. rewardsPaidOut <= MinStake * Cardinality(invalidated)
      BY <2>2, <3>1, <3>3, <3>4 DEF CycleInv
    <3>6. stakeLost >= MinStake * Cardinality(invalidated) BY <3>1 DEF CycleInv
    <3>7. MinStake * Cardinality(invalidated) \in Nat
      <4>1. MinStake \in Nat BY AmountsAssumption
      <4>2. \A i, j \in Nat : i * j \in Nat OBVIOUS
      <4> QED BY <3>2, <4>1, <4>2
    <3> QED BY <1>1, <3>5, <3>6, <3>7
  <2> QED BY <1>1, <2>1, <2>2
<1>3. canBurnUnneededRewards(ledger, stakeLost - rewardsPaidOut)
  <2> DEFINE x == stakeLost - rewardsPaidOut
             a == ledger.balance[Network]
             c == SumFunction(pendingMiningRewards)
  <2>1. Booked(ledger) /\ ledger.totalObligations[Network] = 0 BY DEF IInv, LedgerInv
  <2>2. a <= ledger.custody /\ ledger.custody \in Nat BY <2>1, BookedFacts, Fields, Parties
  <2>3. a + rewardsPaidOut >= stakeLost + c BY DEF IInv, RewardsBacked
  <2>4. a \in Nat /\ c \in Nat BY <1>1
  <2> HIDE DEF a, c
  <2>5. x <= a /\ 0 <= a - x /\ x <= ledger.custody BY <1>1, <1>2, <2>2, <2>3, <2>4
  <2> HIDE DEF x
  <2>6. canWithdraw(ledger, Network, x, TRUE)
    BY <2>1, <2>5 DEF canWithdraw, notObligated, tokenNotLocked, a
  <2> QED BY <2>6 DEF canBurnUnneededRewards, x
<1> QED BY <1>2, <1>3

\* What the network thinks its miners have staked is what TokenLocking holds of
\* them for it, after any stake, slash (of both loops of punishStakers), reward
\* or deposit, and no amount in either book is negative.
THEOREM StakeBooksMatch == Spec => []BooksMatch
<1>1. IInv => BooksMatch BY DEF IInv, LedgerInv, BooksMatch
<1> QED BY <1>1, Invariant, PTL

\* Every entry of a hash that is not settled has a MIN_STAKE of its own: no
\* submitter unstakes it, and no slash of another hash takes it.
THEOREM EntriesKeepTheirStakes == Spec => []EntriesBacked
<1>1. IInv => EntriesBacked BY EntriesSum DEF EntriesBacked
<1> QED BY <1>1, Invariant, PTL

\* The network's deposit, with the rewards booked ahead of the slashes that pay
\* for them, covers what confirmNewHash will burn and every unclaimed reward.
THEOREM RewardsStayBacked == Spec => []RewardsBacked
<1>1. IInv => RewardsBacked BY DEF IInv
<1> QED BY <1>1, Invariant, PTL

\* Neither a slash nor the burn at the end of a cycle can revert, whatever the
\* stakers, the network's locks and earlier claims did to the deposits.
THEOREM CyclesClose == Spec => []CycleCanClose
<1>1. ASSUME IInv PROVE CycleCanClose
  <2>1. ASSUME NEW h \in Live PROVE punishStakers(Books0, submittedHashes[h]).ok
    <3>1. submittedHashes[h] \in Seq(Miners) BY <1>1, HashStake
    <3>2. Slashed(Books0, submittedHashes[h], punishStakers(Books0, submittedHashes[h]))
      BY <1>1, <3>1, BooksReady, PunishSlashes
    <3> QED BY <3>2 DEF Slashed
  <2>2. SlashNeverBlocked BY <2>1 DEF SlashNeverBlocked
  <2> QED BY <1>1, <2>2, BurnGoesThrough DEF CycleCanClose
<1> QED BY <1>1, Invariant, PTL
=============================================================================
