------------------------- MODULE TokenLockingProofs -------------------------
(***************************************************************************)
(* Proofs about TokenLocking, for any set of users, obligators and         *)
(* amounts.                                                                *)
(***************************************************************************)
EXTENDS TokenLocking, SetLemmas, TLAPS

\* The inductive invariant: the types, and the two bounds that every call's
\* checks rely on (canX reads obligations and lock counts it does not verify).
Good(l) ==
    /\ l \in Ledger
    /\ \A u \in Users : l.totalObligations[u] <= l.balance[u]
    /\ \A u \in Users : l.lockCount[u] <= totalLockCount(l)

\* FrozenWhileLocked, of one step from l to k.
Frozen(l, k) ==
    \A u \in Users :
        (~isTokenUnlocked(l, u) /\ k.lockCount[u] = l.lockCount[u])
        => \/ k.balance[u] = l.balance[u]
           \/ /\ k.balance[u] < l.balance[u]
              /\ l.balance[u] + k.totalObligations[u] = k.balance[u] + l.totalObligations[u]

Plus(f, a, n) == [f EXCEPT ![a] = @ + n]

Minus(f, a, n) == [f EXCEPT ![a] = @ - n]

\* A step of StakeLedger, or none, from the deposits and stakes of l to those of k.
Promised(l, k) ==
    \/ k.balance = l.balance /\ k.totalObligations = l.totalObligations
    \/ \E a \in Users, n \in Nat \ {0} :
        \/ /\ k.balance = Plus(l.balance, a, n)
           /\ k.totalObligations = l.totalObligations
        \/ /\ l.totalObligations[a] + n <= l.balance[a]
           /\ k.totalObligations = l.totalObligations
           /\ \/ k.balance = Minus(l.balance, a, n)
              \/ \E b \in Users : k.balance = Plus(Minus(l.balance, a, n), b, n)
        \/ /\ l.totalObligations[a] + n <= l.balance[a]
           /\ k.totalObligations = Plus(l.totalObligations, a, n)
           /\ k.balance = l.balance
        \/ /\ n <= l.totalObligations[a]
           /\ k.totalObligations = Minus(l.totalObligations, a, n)
           /\ \/ k.balance = l.balance
              \/ k.balance = Minus(l.balance, a, n)
              \/ \E b \in Users : k.balance = Plus(Minus(l.balance, a, n), b, n)

\* What every call of the contract achieves.
Fine(l, k) == Good(k) /\ Frozen(l, k) /\ Promised(l, k)

\* A function that is updated inside its range keeps its type.
LEMMA Update ==
    ASSUME NEW D, NEW R, NEW f \in [D -> R], NEW d \in D, NEW r \in R
    PROVE  [f EXCEPT ![d] = r] \in [D -> R]
OBVIOUS

\* Adding to an account, and taking no more than it has, gives accounts again.
LEMMA PlusMinus ==
    ASSUME NEW f \in [Users -> Nat], NEW a \in Users, NEW n \in Nat
    PROVE  /\ Plus(f, a, n) \in [Users -> Nat]
           /\ \A v \in Users : f[v] <= Plus(f, a, n)[v]
           /\ \A v \in Users \ {a} : Plus(f, a, n)[v] = f[v] /\ Minus(f, a, n)[v] = f[v]
           /\ Plus(f, a, 0) = f /\ Minus(f, a, 0) = f
           /\ Minus(f, a, n)[a] = f[a] - n
           /\ n <= f[a] => Minus(f, a, n) \in [Users -> Nat]
BY DEF Plus, Minus

\* The types of a ledger's fields, for the provers.
LEMMA LedgerFields ==
    ASSUME NEW l \in Ledger
    PROVE  /\ l.lockCount \in [Users -> Nat]
           /\ l.balance \in [Users -> Nat]
           /\ l.pendingBalance \in [Users -> Nat]
           /\ l.lockers \in Seq(Obligators)
           /\ l.approvals \in [Users -> [Obligators -> Nat]]
           /\ l.obligations \in [Users -> [Obligators -> Nat]]
           /\ l.totalObligations \in [Users -> Nat]
           /\ l.wallet \in [Users -> Nat]
           /\ l.custody \in Nat
           /\ totalLockCount(l) \in Nat
BY DEF Ledger, totalLockCount

\* A deposit may grow, the rest that Good speaks of stays.
LEMMA GoodGrows ==
    ASSUME NEW l, Good(l), NEW k \in Ledger,
           k.totalObligations = l.totalObligations,
           k.lockCount = l.lockCount, k.lockers = l.lockers,
           \A v \in Users : l.balance[v] <= k.balance[v]
    PROVE  Good(k)
<1>1. ASSUME NEW v \in Users
      PROVE  k.totalObligations[v] <= k.balance[v]
  <2>1. /\ k.totalObligations[v] \in Nat
        /\ l.balance[v] \in Nat
        /\ k.balance[v] \in Nat
    BY LedgerFields DEF Good
  <2>2. k.totalObligations[v] <= l.balance[v] /\ l.balance[v] <= k.balance[v]
    BY DEF Good
  <2>. QED
    BY <2>1, <2>2
<1>2. \A v \in Users : k.lockCount[v] <= totalLockCount(k)
  BY DEF Good, totalLockCount
<1>. QED
  BY <1>1, <1>2 DEF Good

\* The jump that _force makes over all locks changes lock counts only, and keeps
\* the ledger good.
LEMMA ForceUnlock ==
    ASSUME NEW l, Good(l), NEW u \in Users, NEW force \in BOOLEAN
    PROVE  LET k == forceUnlock(l, u, force)
           IN  /\ Good(k)
               /\ k.balance = l.balance /\ k.totalObligations = l.totalObligations
               /\ k.lockers = l.lockers /\ k.wallet = l.wallet /\ k.custody = l.custody
               /\ k.pendingBalance = l.pendingBalance
               /\ \A v \in Users \ {u} : k.lockCount[v] = l.lockCount[v]
               /\ force => k.lockCount[u] = totalLockCount(l)
<1> DEFINE k == forceUnlock(l, u, force)
<1>1. l \in Ledger /\ totalLockCount(l) \in Nat
  BY LedgerFields DEF Good
<1>2. k = [l EXCEPT !.lockCount = k.lockCount]
  BY <1>1 DEF forceUnlock, Ledger
<1>3. /\ k.lockCount \in [Users -> Nat]
      /\ \A v \in Users : k.lockCount[v] <= totalLockCount(l)
      /\ \A v \in Users \ {u} : k.lockCount[v] = l.lockCount[v]
      /\ force => k.lockCount[u] = totalLockCount(l)
  BY <1>1 DEF forceUnlock, Ledger, Good
<1>4. k \in Ledger
  BY <1>1, <1>2, <1>3 DEF Ledger
<1>5. /\ k.lockers = l.lockers /\ k.totalObligations = l.totalObligations
      /\ k.balance = l.balance /\ k.wallet = l.wallet /\ k.custody = l.custody
      /\ k.pendingBalance = l.pendingBalance
  BY <1>1, <1>2 DEF Ledger
<1>. QED
  BY <1>3, <1>4, <1>5 DEF Good, totalLockCount

\* makeConditionalDeposit credits the deposit or the pending balance of one user,
\* and credits a locked deposit never.
LEMMA ConditionalDeposit ==
    ASSUME NEW l, Good(l), NEW u \in Users, NEW amount \in Nat, NEW ok \in BOOLEAN
    PROVE  LET k == makeConditionalDeposit(l, amount, u, ok)
           IN  /\ Good(k)
               /\ k.totalObligations = l.totalObligations
               /\ k.lockCount = l.lockCount /\ k.lockers = l.lockers
               /\ k.balance = IF isTokenUnlocked(l, u) THEN Plus(l.balance, u, amount)
                                                       ELSE l.balance
<1> DEFINE k == makeConditionalDeposit(l, amount, u, ok)
<1>1. l \in Ledger
  BY DEF Good
<1>2. CASE isTokenUnlocked(l, u)
  <2>1. k = [l EXCEPT !.balance = Plus(l.balance, u, amount)]
    BY <1>1, <1>2 DEF makeConditionalDeposit, Ledger, Plus
  <2>2. Plus(l.balance, u, amount) \in [Users -> Nat]
    BY <1>1 DEF Ledger, Plus
  <2>3. k \in Ledger
    BY <1>1, <2>1, <2>2 DEF Ledger
  <2>4. \A v \in Users : l.balance[v] <= k.balance[v]
    BY <1>1, <2>1 DEF Ledger, Plus
  <2>5. /\ k.balance = Plus(l.balance, u, amount)
        /\ k.totalObligations = l.totalObligations
        /\ k.lockCount = l.lockCount /\ k.lockers = l.lockers
    BY <1>1, <2>1 DEF Ledger
  <2>. QED
    BY <1>2, <2>3, <2>4, <2>5, GoodGrows
<1>3. CASE ~isTokenUnlocked(l, u) /\ ok /\ amount <= l.custody
  <2>1. k = [l EXCEPT !.wallet = [l.wallet EXCEPT ![u] = l.wallet[u] + amount],
                      !.custody = l.custody - amount]
    BY <1>1, <1>3 DEF makeConditionalDeposit, Ledger
  <2>2. [l.wallet EXCEPT ![u] = l.wallet[u] + amount] \in [Users -> Nat]
    BY <1>1 DEF Ledger
  <2>3. l.custody - amount \in Nat
    BY <1>1, <1>3 DEF Ledger
  <2>4. k \in Ledger
    BY <1>1, <2>1, <2>2, <2>3 DEF Ledger
  <2>. QED
    BY <1>1, <1>3, <2>1, <2>4 DEF Good, Ledger, totalLockCount
<1>4. CASE ~isTokenUnlocked(l, u) /\ ~(ok /\ amount <= l.custody)
  <2>1. k = [l EXCEPT !.pendingBalance =
                  [l.pendingBalance EXCEPT ![u] = l.pendingBalance[u] + amount]]
    BY <1>1, <1>4 DEF makeConditionalDeposit, Ledger
  <2>2. [l.pendingBalance EXCEPT ![u] = l.pendingBalance[u] + amount] \in [Users -> Nat]
    BY <1>1 DEF Ledger
  <2>3. k \in Ledger
    BY <1>1, <2>1, <2>2 DEF Ledger
  <2>. QED
    BY <1>1, <1>4, <2>1, <2>3 DEF Good, Ledger, totalLockCount
<1>. QED
  BY <1>2, <1>3, <1>4

-----------------------------------------------------------------------------
(* One lemma per call.                                                     *)

\* lockToken adds a lock and touches no deposit.
LEMMA LockTokenFine ==
    ASSUME NEW l, Good(l), NEW c \in Obligators
    PROVE  Fine(l, lockToken(l, c))
<1> DEFINE k == lockToken(l, c)
<1>1. l \in Ledger /\ totalLockCount(l) \in Nat
  BY LedgerFields DEF Good
<1>2. k = [l EXCEPT !.lockers = Append(l.lockers, c)]
  BY <1>1 DEF lockToken, Ledger
<1>3. /\ Append(l.lockers, c) \in Seq(Obligators)
      /\ Len(Append(l.lockers, c)) = Len(l.lockers) + 1
  BY <1>1 DEF Ledger
<1>4. k \in Ledger
  BY <1>1, <1>2, <1>3 DEF Ledger
<1>5. /\ k.balance = l.balance /\ k.totalObligations = l.totalObligations
      /\ k.lockCount = l.lockCount /\ totalLockCount(k) = totalLockCount(l) + 1
  BY <1>1, <1>2, <1>3 DEF Ledger, totalLockCount
<1>6. ASSUME NEW u \in Users
      PROVE  k.lockCount[u] <= totalLockCount(k)
  <2>1. l.lockCount[u] \in Nat /\ l.lockCount[u] <= totalLockCount(l)
    BY <1>1 DEF Good, Ledger
  <2>. QED
    BY <1>1, <1>5, <2>1
<1>7. Good(k)
  BY <1>4, <1>5, <1>6 DEF Good
<1>. QED
  BY <1>5, <1>7 DEF Fine, Frozen, Promised

\* unlockTokenForUser and incrementLockCounterTo.
LEMMA LockCountFine ==
    ASSUME NEW l, Good(l), NEW u \in Users, NEW lockId \in Nat, lockId <= totalLockCount(l)
    PROVE  Fine(l, [l EXCEPT !.lockCount[u] = lockId])
<1> DEFINE k == [l EXCEPT !.lockCount[u] = lockId]
<1>1. l \in Ledger
  BY DEF Good
<1>2. k = [l EXCEPT !.lockCount = [l.lockCount EXCEPT ![u] = lockId]]
  BY <1>1 DEF Ledger
<1>3. /\ [l.lockCount EXCEPT ![u] = lockId] \in [Users -> Nat]
      /\ \A v \in Users : [l.lockCount EXCEPT ![u] = lockId][v] <= totalLockCount(l)
  BY <1>1 DEF Ledger, Good
<1>4. k \in Ledger
  BY <1>1, <1>2, <1>3 DEF Ledger
<1>5. /\ k.balance = l.balance /\ k.totalObligations = l.totalObligations
      /\ k.lockers = l.lockers /\ k.lockCount = [l.lockCount EXCEPT ![u] = lockId]
  BY <1>1, <1>2 DEF Ledger
<1>6. Good(k)
  BY <1>3, <1>4, <1>5 DEF Good, totalLockCount
<1>. QED
  BY <1>5, <1>6 DEF Fine, Frozen, Promised

\* Pulling ERC20 tokens in changes wallets and custody only.
LEMMA ClaimTokens ==
    ASSUME NEW l, Good(l), NEW u \in Users, NEW amount \in Nat, amount <= l.wallet[u]
    PROVE  LET k == claimTokens(l, amount, u)
           IN  /\ Good(k)
               /\ k.balance = l.balance /\ k.totalObligations = l.totalObligations
               /\ k.lockCount = l.lockCount /\ k.lockers = l.lockers
<1> DEFINE k == claimTokens(l, amount, u)
           paid == [l.wallet EXCEPT ![u] = l.wallet[u] - amount]
<1>1. l \in Ledger
  BY DEF Good
<1>2. k = [l EXCEPT !.wallet = paid, !.custody = l.custody + amount]
  BY <1>1 DEF claimTokens, Ledger
<1>3. paid \in [Users -> Nat] /\ l.custody + amount \in Nat
  BY <1>1 DEF Ledger
<1>4. k \in Ledger
  BY <1>1, <1>2, <1>3 DEF Ledger
<1>5. /\ k.balance = l.balance /\ k.totalObligations = l.totalObligations
      /\ k.lockCount = l.lockCount /\ k.lockers = l.lockers
  BY <1>1, <1>2 DEF Ledger
<1>. QED
  BY <1>4, <1>5 DEF Good, totalLockCount

\* deposit: the depositor was unlocked, or is unlocked by force.
LEMMA DepositFine ==
    ASSUME NEW l, Good(l), NEW u \in Users, NEW amount \in Nat, NEW force \in BOOLEAN,
           canDeposit(l, u, amount, force)
    PROVE  Fine(l, deposit(l, u, amount, force))
<1> DEFINE f == forceUnlock(l, u, force)
           pending == IF force THEN l.pendingBalance[u] ELSE 0
           c == [f EXCEPT !.balance = Plus(f.balance, u, amount + pending),
                          !.pendingBalance = Minus(f.pendingBalance, u, pending)]
           k == deposit(l, u, amount, force)
<1>1. /\ Good(f) /\ f \in Ledger /\ l \in Ledger
      /\ f.balance = l.balance /\ f.totalObligations = l.totalObligations
      /\ f.lockers = l.lockers /\ f.wallet = l.wallet
      /\ f.pendingBalance = l.pendingBalance
      /\ \A v \in Users \ {u} : f.lockCount[v] = l.lockCount[v]
      /\ force => f.lockCount[u] = totalLockCount(l)
  BY ForceUnlock DEF Good
<1>. HIDE DEF f
<1>2. /\ pending \in Nat /\ pending <= f.pendingBalance[u]
      /\ amount + pending \in Nat
  BY <1>1 DEF Ledger
<1>. HIDE DEF pending
<1>3. /\ Plus(f.balance, u, amount + pending) \in [Users -> Nat]
      /\ Minus(f.pendingBalance, u, pending) \in [Users -> Nat]
      /\ \A v \in Users : f.balance[v] <= Plus(f.balance, u, amount + pending)[v]
  BY <1>1, <1>2, PlusMinus, LedgerFields
<1>4. /\ c \in Ledger
      /\ c.balance = Plus(l.balance, u, amount + pending)
      /\ c.totalObligations = f.totalObligations
      /\ c.lockCount = f.lockCount /\ c.lockers = f.lockers /\ c.wallet = l.wallet
  BY <1>1, <1>3 DEF Ledger
<1>5. Good(c)
  BY <1>1, <1>3, <1>4, GoodGrows
<1>6. k = claimTokens(c, amount, u)
  <2>1. c = [f EXCEPT !.balance[u] = @ + amount + pending, !.pendingBalance[u] = @ - pending]
    <3>1. f.balance[u] + amount + pending = f.balance[u] + (amount + pending)
      BY <1>1, <1>2, LedgerFields
    <3>. QED
      BY <1>1, <3>1 DEF Ledger, Plus, Minus
  <2>. QED
    BY <2>1 DEF deposit, f, pending
<1>. HIDE DEF c, k
<1>7. /\ Good(k)
      /\ k.balance = Plus(l.balance, u, amount + pending)
      /\ k.totalObligations = l.totalObligations
      /\ k.lockCount = f.lockCount
  BY <1>1, <1>4, <1>5, <1>6, ClaimTokens DEF canDeposit
<1>8. Frozen(l, k)
  <2>1. ASSUME NEW v \in Users, ~isTokenUnlocked(l, v), k.lockCount[v] = l.lockCount[v]
        PROVE  k.balance[v] = l.balance[v]
    <3>1. v # u
      BY <1>1, <1>7, <2>1 DEF canDeposit, tokenNotLocked, isTokenUnlocked
    <3>. QED
      BY <1>1, <1>7, <3>1 DEF Plus, Ledger
  <2>. QED
    BY <2>1 DEF Frozen
<1>9. Promised(l, k)
  <2>1. CASE amount + pending = 0
    <3>1. Plus(l.balance, u, 0) = l.balance
      BY <1>1 DEF Plus, Ledger
    <3>. QED
      BY <1>7, <2>1, <3>1 DEF Promised
  <2>2. CASE amount + pending # 0
    BY <1>2, <1>7, <2>2 DEF Promised
  <2>. QED
    BY <2>1, <2>2
<1>. QED
  BY <1>7, <1>8, <1>9 DEF Fine, k

\* depositFor pays the recipient only if its deposit is not locked.
LEMMA DepositForFine ==
    ASSUME NEW l, Good(l), NEW u \in Users, NEW amount \in Nat, NEW recipient \in Users,
           NEW ok \in BOOLEAN, canDepositFor(l, u, amount)
    PROVE  Fine(l, depositFor(l, u, amount, recipient, ok))
<1> DEFINE c == claimTokens(l, amount, u)
           k == makeConditionalDeposit(c, amount, recipient, ok)
<1>1. /\ Good(c) /\ l \in Ledger
      /\ c.balance = l.balance /\ c.totalObligations = l.totalObligations
      /\ c.lockCount = l.lockCount /\ c.lockers = l.lockers
  BY ClaimTokens DEF canDepositFor, Good
<1>. HIDE DEF c
<1>2. /\ Good(k)
      /\ k.totalObligations = l.totalObligations /\ k.lockCount = l.lockCount
      /\ k.balance = IF isTokenUnlocked(l, recipient) THEN Plus(l.balance, recipient, amount)
                                                      ELSE l.balance
  BY <1>1, ConditionalDeposit DEF isTokenUnlocked, totalLockCount
<1>. HIDE DEF k
<1>3. l.balance \in [Users -> Nat] /\ Plus(l.balance, recipient, 0) = l.balance
  BY <1>1, LedgerFields, PlusMinus
<1>4. Frozen(l, k)
  <2>1. ASSUME NEW v \in Users, ~isTokenUnlocked(l, v)
        PROVE  k.balance[v] = l.balance[v]
    BY <1>2, <1>3, <2>1 DEF Plus
  <2>. QED
    BY <2>1 DEF Frozen
<1>5. Promised(l, k)
  <2>1. CASE isTokenUnlocked(l, recipient) /\ amount # 0
    BY <1>2, <2>1 DEF Promised
  <2>2. CASE ~isTokenUnlocked(l, recipient) \/ amount = 0
    <3>1. k.balance = l.balance
      BY <1>2, <1>3, <2>2
    <3>. QED
      BY <1>2, <3>1 DEF Promised
  <2>. QED
    BY <2>1, <2>2
<1>. QED
  BY <1>2, <1>4, <1>5 DEF Fine, depositFor, c, k

\* A free part of a deposit is taken out of it.
LEMMA Debited ==
    ASSUME NEW l, Good(l), NEW u \in Users, NEW amount \in Nat, notObligated(l, u, amount)
    PROVE  LET k == [l EXCEPT !.balance[u] = @ - amount]
           IN  /\ Good(k)
               /\ k = [l EXCEPT !.balance = Minus(l.balance, u, amount)]
               /\ k.balance = Minus(l.balance, u, amount)
               /\ k.totalObligations = l.totalObligations
               /\ k.lockCount = l.lockCount /\ k.lockers = l.lockers
               /\ k.custody = l.custody /\ k.wallet = l.wallet
<1> DEFINE k == [l EXCEPT !.balance[u] = @ - amount]
<1>1. l \in Ledger
  BY DEF Good
<1>2. k = [l EXCEPT !.balance = Minus(l.balance, u, amount)]
  BY <1>1 DEF Ledger, Minus
<1>3. Minus(l.balance, u, amount) \in [Users -> Nat]
  BY <1>1, PlusMinus, LedgerFields DEF notObligated
<1>4. /\ k \in Ledger
      /\ k.balance = Minus(l.balance, u, amount)
      /\ k.totalObligations = l.totalObligations
      /\ k.lockCount = l.lockCount /\ k.lockers = l.lockers
      /\ k.custody = l.custody /\ k.wallet = l.wallet
  BY <1>1, <1>2, <1>3 DEF Ledger
<1>5. ASSUME NEW v \in Users
      PROVE  l.totalObligations[v] <= Minus(l.balance, u, amount)[v]
  <2>1. CASE v = u
    <3>1. Minus(l.balance, u, amount)[v] = l.balance[u] - amount
      BY <1>1, <2>1 DEF Minus, Ledger
    <3>. QED
      BY <2>1, <3>1 DEF notObligated
  <2>2. CASE v # u
    <3>1. Minus(l.balance, u, amount)[v] = l.balance[v]
      BY <1>1, <2>2 DEF Minus, Ledger
    <3>. QED
      BY <3>1 DEF Good
  <2>. QED
    BY <2>1, <2>2
<1>. QED
  BY <1>2, <1>4, <1>5 DEF Good, totalLockCount

\* withdraw takes a free part of an unlocked deposit out.
LEMMA WithdrawFine ==
    ASSUME NEW l, Good(l), NEW u \in Users, NEW amount \in Nat, NEW force \in BOOLEAN,
           canWithdraw(l, u, amount, force)
    PROVE  Fine(l, withdraw(l, u, amount, force))
<1> DEFINE f == forceUnlock(l, u, force)
           d == [f EXCEPT !.balance[u] = @ - amount]
           k == withdraw(l, u, amount, force)
<1>1. /\ Good(f) /\ f \in Ledger /\ l \in Ledger
      /\ f.balance = l.balance /\ f.totalObligations = l.totalObligations
      /\ f.custody = l.custody /\ f.wallet = l.wallet
      /\ \A v \in Users \ {u} : f.lockCount[v] = l.lockCount[v]
      /\ force => f.lockCount[u] = totalLockCount(l)
  BY ForceUnlock DEF Good
<1>. HIDE DEF f
<1>2. notObligated(f, u, amount)
  BY <1>1 DEF canWithdraw, notObligated
<1>3. /\ Good(d)
      /\ d = [f EXCEPT !.balance = Minus(f.balance, u, amount)]
      /\ d.balance = Minus(l.balance, u, amount)
      /\ d.totalObligations = l.totalObligations
      /\ d.lockCount = f.lockCount
      /\ d.custody = l.custody /\ d.wallet = l.wallet
  BY <1>1, <1>2, Debited
<1>4. d \in Ledger
  BY <1>3 DEF Good
<1>5. k = [d EXCEPT !.custody = l.custody - amount, !.wallet = Plus(l.wallet, u, amount)]
  BY <1>1, <1>3, <1>4 DEF withdraw, f, Ledger, Plus
<1>. HIDE DEF d, k
<1>6. l.custody - amount \in Nat /\ Plus(l.wallet, u, amount) \in [Users -> Nat]
  BY <1>1 DEF canWithdraw, Ledger, Plus
<1>7. /\ k \in Ledger /\ k.balance = d.balance /\ k.totalObligations = d.totalObligations
      /\ k.lockCount = d.lockCount /\ k.lockers = d.lockers
  BY <1>3, <1>4, <1>5, <1>6 DEF Ledger
<1>8. Good(k)
  BY <1>3, <1>7 DEF Good, totalLockCount
<1>9. Frozen(l, k)
  <2>1. ASSUME NEW v \in Users, ~isTokenUnlocked(l, v), k.lockCount[v] = l.lockCount[v]
        PROVE  k.balance[v] = l.balance[v]
    <3>1. v # u
      BY <1>1, <1>3, <1>7, <2>1 DEF canWithdraw, tokenNotLocked, isTokenUnlocked
    <3>. QED
      BY <1>1, <1>3, <1>7, <3>1 DEF Minus, Ledger
  <2>. QED
    BY <2>1 DEF Frozen
<1>10. Promised(l, k)
  <2>1. CASE amount = 0
    <3>1. Minus(l.balance, u, 0) = l.balance
      BY <1>1 DEF Minus, Ledger
    <3>. QED
      BY <1>3, <1>7, <2>1, <3>1 DEF Promised
  <2>2. CASE amount # 0
    <3>1. l.totalObligations[u] + amount <= l.balance[u]
      BY <1>1, LedgerFields DEF canWithdraw, notObligated
    <3>. QED
      BY <1>3, <1>7, <2>2, <3>1 DEF Promised
  <2>. QED
    BY <2>1, <2>2
<1>. QED
  BY <1>8, <1>9, <1>10 DEF Fine, k

\* transfer moves a free part of an unlocked deposit to a recipient that may be
\* locked, or be the sender itself.
LEMMA TransferFine ==
    ASSUME NEW l, Good(l), NEW u \in Users, NEW amount \in Nat, NEW recipient \in Users,
           NEW force \in BOOLEAN, NEW ok \in BOOLEAN, canTransfer(l, u, amount, force)
    PROVE  Fine(l, transfer(l, u, amount, recipient, force, ok))
<1> DEFINE f == forceUnlock(l, u, force)
           d == [f EXCEPT !.balance[u] = @ - amount]
           k == makeConditionalDeposit(d, amount, recipient, ok)
<1>1. /\ Good(f) /\ l \in Ledger
      /\ f.balance = l.balance /\ f.totalObligations = l.totalObligations
      /\ f.lockers = l.lockers
      /\ \A v \in Users \ {u} : f.lockCount[v] = l.lockCount[v]
      /\ force => f.lockCount[u] = totalLockCount(l)
  BY ForceUnlock DEF Good
<1>. HIDE DEF f
<1>2. notObligated(f, u, amount)
  BY <1>1 DEF canTransfer, notObligated
<1>3. /\ Good(d)
      /\ d.balance = Minus(l.balance, u, amount)
      /\ d.totalObligations = l.totalObligations
      /\ d.lockCount = f.lockCount /\ d.lockers = l.lockers
  <2>1. /\ Good(d)
        /\ d = [f EXCEPT !.balance = Minus(f.balance, u, amount)]
        /\ d.balance = Minus(f.balance, u, amount)
        /\ d.totalObligations = f.totalObligations
        /\ d.lockCount = f.lockCount /\ d.lockers = f.lockers
        /\ d.custody = f.custody /\ d.wallet = f.wallet
    BY <1>1, <1>2, Debited
  <2>. HIDE DEF d
  <2>. QED
    BY <1>1, <2>1
<1>. HIDE DEF d
<1>4. /\ Good(k)
      /\ k.totalObligations = l.totalObligations
      /\ k.lockCount = f.lockCount
      /\ k.balance = IF isTokenUnlocked(d, recipient)
                     THEN Plus(Minus(l.balance, u, amount), recipient, amount)
                     ELSE Minus(l.balance, u, amount)
  BY <1>3, ConditionalDeposit
<1>. HIDE DEF k
<1>5. /\ l.balance \in [Users -> Nat] /\ l.balance[u] \in Nat /\ l.totalObligations[u] \in Nat
      /\ Minus(l.balance, u, 0) = l.balance /\ Plus(l.balance, recipient, 0) = l.balance
  BY <1>1 DEF Plus, Minus, Ledger
<1>6. Frozen(l, k)
  <2>1. ASSUME NEW v \in Users, ~isTokenUnlocked(l, v), k.lockCount[v] = l.lockCount[v]
        PROVE  k.balance[v] = l.balance[v]
    <3>1. v # u
      BY <1>1, <1>4, <2>1 DEF canTransfer, tokenNotLocked, isTokenUnlocked
    <3>2. ~isTokenUnlocked(d, v)
      BY <1>1, <1>3, <2>1, <3>1 DEF isTokenUnlocked, totalLockCount
    <3>3. Minus(l.balance, u, amount)[v] = l.balance[v]
      BY <1>5, <3>1 DEF Minus
    <3>. QED
      BY <1>4, <1>5, <3>2, <3>3 DEF Plus, Minus
  <2>. QED
    BY <2>1 DEF Frozen
<1>7. Promised(l, k)
  <2>1. CASE amount = 0
    BY <1>4, <1>5, <2>1 DEF Promised
  <2>2. CASE amount # 0
    <3>1. l.totalObligations[u] + amount <= l.balance[u]
      BY <1>5 DEF canTransfer, notObligated
    <3>. QED
      BY <1>4, <2>2, <3>1 DEF Promised
  <2>. QED
    BY <2>1, <2>2
<1>. QED
  BY <1>4, <1>6, <1>7 DEF Fine, transfer, f, d, k

\* approveStake touches neither deposits nor stakes.
LEMMA ApproveStakeFine ==
    ASSUME NEW l, Good(l), NEW c \in Obligators, NEW u \in Users, NEW amount \in Nat
    PROVE  Fine(l, approveStake(l, c, u, amount))
<1> DEFINE k == approveStake(l, c, u, amount)
           of_u == [l.approvals[u] EXCEPT ![c] = l.approvals[u][c] + amount]
           more == [l.approvals EXCEPT ![u] = of_u]
<1>1. l \in Ledger
  BY DEF Good
<1>2. k = [l EXCEPT !.approvals = more]
  BY <1>1 DEF approveStake, Ledger
<1>3. more \in [Users -> [Obligators -> Nat]]
  <2>1. l.approvals[u] \in [Obligators -> Nat] /\ l.approvals[u][c] + amount \in Nat
    BY <1>1, LedgerFields
  <2>2. of_u \in [Obligators -> Nat]
    BY <2>1, Update
  <2>. QED
    BY <1>1, <2>2, LedgerFields, Update
<1>4. /\ k \in Ledger
      /\ k.balance = l.balance /\ k.totalObligations = l.totalObligations
      /\ k.lockCount = l.lockCount /\ k.lockers = l.lockers
  BY <1>1, <1>2, <1>3 DEF Ledger
<1>5. Good(k)
  BY <1>4 DEF Good, totalLockCount
<1>. QED
  BY <1>4, <1>5 DEF Fine, Frozen, Promised

\* obligateStake stakes a free part of a deposit.
LEMMA ObligateStakeFine ==
    ASSUME NEW l, Good(l), NEW c \in Obligators, NEW u \in Users, NEW amount \in Nat,
           canObligateStake(l, c, u, amount)
    PROVE  Fine(l, obligateStake(l, c, u, amount))
<1> DEFINE k == obligateStake(l, c, u, amount)
           left == [l.approvals EXCEPT
                       ![u] = [l.approvals[u] EXCEPT ![c] = l.approvals[u][c] - amount]]
           held == [l.obligations EXCEPT
                       ![u] = [l.obligations[u] EXCEPT ![c] = l.obligations[u][c] + amount]]
           total == Plus(l.totalObligations, u, amount)
<1>1. l \in Ledger
  BY DEF Good
<1>2. k = [l EXCEPT !.approvals = left, !.obligations = held, !.totalObligations = total]
  BY <1>1 DEF obligateStake, Ledger, Plus
<1>3. /\ left \in [Users -> [Obligators -> Nat]]
      /\ held \in [Users -> [Obligators -> Nat]]
      /\ total \in [Users -> Nat]
  <2>1. /\ l.approvals[u] \in [Obligators -> Nat] /\ l.obligations[u] \in [Obligators -> Nat]
        /\ l.approvals[u][c] - amount \in Nat /\ l.obligations[u][c] + amount \in Nat
    BY <1>1, LedgerFields, SMTT(30) DEF canObligateStake
  <2>2. /\ [l.approvals[u] EXCEPT ![c] = l.approvals[u][c] - amount] \in [Obligators -> Nat]
        /\ [l.obligations[u] EXCEPT ![c] = l.obligations[u][c] + amount] \in [Obligators -> Nat]
    BY <2>1, Update
  <2>. QED
    BY <1>1, <2>1, <2>2, LedgerFields, Update, PlusMinus
<1>. HIDE DEF left, held
<1>4. /\ k \in Ledger
      /\ k.balance = l.balance /\ k.totalObligations = total
      /\ k.lockCount = l.lockCount /\ k.lockers = l.lockers
  BY <1>1, <1>2, <1>3 DEF Ledger
<1>5. \A v \in Users : total[v] <= l.balance[v]
  BY <1>1 DEF canObligateStake, Good, Ledger, Plus
<1>6. Good(k)
  BY <1>4, <1>5 DEF Good, totalLockCount
<1>7. Promised(l, k)
  <2>1. CASE amount = 0
    <3>1. total = l.totalObligations
      BY <1>1, <2>1 DEF Plus, Ledger
    <3>. QED
      BY <1>4, <3>1 DEF Promised
  <2>2. CASE amount # 0
    BY <1>4, <2>2 DEF Promised, canObligateStake
  <2>. QED
    BY <2>1, <2>2
<1>. QED
  BY <1>4, <1>6, <1>7 DEF Fine, Frozen

\* deobligateStake frees a stake; a stake is never more than all of them.
LEMMA DeobligateStakeFine ==
    ASSUME NEW l, Good(l), NEW c \in Obligators, NEW u \in Users, NEW amount \in Nat,
           canDeobligateStake(l, c, u, amount)
    PROVE  LET k == deobligateStake(l, c, u, amount)
           IN  /\ Fine(l, k)
               /\ k.balance = l.balance
               /\ k.totalObligations = Minus(l.totalObligations, u, amount)
               /\ k.lockCount = l.lockCount /\ k.lockers = l.lockers
<1> DEFINE k == deobligateStake(l, c, u, amount)
           held == [l.obligations EXCEPT
                       ![u] = [l.obligations[u] EXCEPT ![c] = l.obligations[u][c] - amount]]
           total == Minus(l.totalObligations, u, amount)
<1>1. l \in Ledger
  BY DEF Good
<1>2. k = [l EXCEPT !.obligations = held, !.totalObligations = total]
  BY <1>1 DEF deobligateStake, Ledger, Minus
<1>3. /\ held \in [Users -> [Obligators -> Nat]]
      /\ total \in [Users -> Nat]
  <2>1. /\ l.obligations[u] \in [Obligators -> Nat]
        /\ l.obligations[u][c] - amount \in Nat
        /\ l.totalObligations \in [Users -> Nat]
    BY <1>1, LedgerFields DEF canDeobligateStake
  <2>2. [l.obligations[u] EXCEPT ![c] = l.obligations[u][c] - amount] \in [Obligators -> Nat]
    BY <2>1, Update
  <2>3. total \in [Users -> Nat]
    BY <2>1, PlusMinus DEF canDeobligateStake
  <2>. QED
    BY <1>1, <2>2, <2>3, LedgerFields, Update
<1>. HIDE DEF held
<1>4. /\ k \in Ledger
      /\ k.balance = l.balance /\ k.totalObligations = total
      /\ k.lockCount = l.lockCount /\ k.lockers = l.lockers
  BY <1>1, <1>2, <1>3 DEF Ledger
<1>5. \A v \in Users : total[v] <= l.balance[v]
  BY <1>1, SMTT(30) DEF canDeobligateStake, Good, Ledger, Minus
<1>6. Good(k)
  BY <1>4, <1>5 DEF Good, totalLockCount
<1>7. Promised(l, k)
  <2>1. CASE amount = 0
    <3>1. total = l.totalObligations
      BY <1>1, <2>1 DEF Minus, Ledger
    <3>. QED
      BY <1>4, <3>1 DEF Promised
  <2>2. CASE amount # 0
    BY <1>4, <2>2 DEF Promised, canDeobligateStake
  <2>. QED
    BY <2>1, <2>2
<1>. QED
  BY <1>4, <1>6, <1>7 DEF Fine, Frozen

\* transferStake slashes, also a locked deposit: balance and stake fall together.
LEMMA TransferStakeFine ==
    ASSUME NEW l, Good(l), NEW c \in Obligators, NEW u \in Users, NEW amount \in Nat,
           NEW recipient \in Users, NEW ok \in BOOLEAN, canTransferStake(l, c, u, amount)
    PROVE  Fine(l, transferStake(l, c, u, amount, recipient, ok))
<1> DEFINE e == deobligateStake(l, c, u, amount)
           d == [e EXCEPT !.balance[u] = @ - amount]
           k == makeConditionalDeposit(d, amount, recipient, ok)
<1>1. /\ Good(e) /\ l \in Ledger
      /\ e.balance = l.balance
      /\ e.totalObligations = Minus(l.totalObligations, u, amount)
      /\ e.lockCount = l.lockCount /\ e.lockers = l.lockers
  BY DeobligateStakeFine DEF canTransferStake, Good, Fine
<1>. HIDE DEF e
<1>2. /\ l.balance \in [Users -> Nat] /\ l.totalObligations \in [Users -> Nat]
      /\ l.totalObligations[u] <= l.balance[u]
      /\ amount <= l.totalObligations[u] /\ amount <= l.balance[u]
  BY <1>1, LedgerFields DEF canTransferStake, canDeobligateStake, Good
<1>3. notObligated(e, u, amount)
  <2>1. e.totalObligations[u] = l.totalObligations[u] - amount
    BY <1>1, <1>2 DEF Minus
  <2>2. l.totalObligations[u] \in Nat /\ l.balance[u] \in Nat
    BY <1>2
  <2>. QED
    BY <1>1, <1>2, <2>1, <2>2 DEF notObligated
<1>4. /\ Good(d)
      /\ d.balance = Minus(l.balance, u, amount)
      /\ d.totalObligations = Minus(l.totalObligations, u, amount)
      /\ d.lockCount = l.lockCount /\ d.lockers = l.lockers
  <2>1. /\ Good(d)
        /\ d = [e EXCEPT !.balance = Minus(e.balance, u, amount)]
        /\ d.balance = Minus(e.balance, u, amount)
        /\ d.totalObligations = e.totalObligations
        /\ d.lockCount = e.lockCount /\ d.lockers = e.lockers
        /\ d.custody = e.custody /\ d.wallet = e.wallet
    BY <1>1, <1>3, Debited
  <2>. HIDE DEF d
  <2>. QED
    BY <1>1, <2>1
<1>. HIDE DEF d
<1>5. /\ Good(k)
      /\ k.totalObligations = Minus(l.totalObligations, u, amount)
      /\ k.lockCount = l.lockCount
      /\ k.balance = IF isTokenUnlocked(d, recipient)
                     THEN Plus(Minus(l.balance, u, amount), recipient, amount)
                     ELSE Minus(l.balance, u, amount)
  BY <1>4, ConditionalDeposit
<1>. HIDE DEF k
<1>6. Frozen(l, k)
  <2>1. ASSUME NEW v \in Users, ~isTokenUnlocked(l, v)
        PROVE  \/ k.balance[v] = l.balance[v]
               \/ /\ k.balance[v] < l.balance[v]
                  /\ l.balance[v] + k.totalObligations[v] = k.balance[v] + l.totalObligations[v]
    <3>1. k.balance[v] = Minus(l.balance, u, amount)[v]
      <4>1. isTokenUnlocked(d, recipient) => recipient # v
        BY <1>4, <2>1 DEF isTokenUnlocked, totalLockCount
      <4>. QED
        BY <1>2, <1>5, <4>1 DEF Plus, Minus
    <3>2. CASE v # u
      BY <1>2, <3>1, <3>2 DEF Minus
    <3>3. CASE v = u
      <4>1. /\ k.balance[v] = l.balance[v] - amount
            /\ k.totalObligations[v] = l.totalObligations[v] - amount
            /\ l.balance[v] \in Nat /\ l.totalObligations[v] \in Nat
        BY <1>2, <1>5, <3>1, <3>3 DEF Minus
      <4>. QED
        BY <4>1
    <3>. QED
      BY <3>2, <3>3
  <2>. QED
    BY <2>1 DEF Frozen
<1>7. Promised(l, k)
  <2>1. CASE amount = 0
    <3>1. k.balance = l.balance /\ k.totalObligations = l.totalObligations
      BY <1>2, <1>5, <2>1 DEF Plus, Minus
    <3>. QED
      BY <3>1 DEF Promised
  <2>2. CASE amount # 0
    BY <1>2, <1>5, <2>2 DEF Promised
  <2>. QED
    BY <2>1, <2>2
<1>. QED
  BY <1>5, <1>6, <1>7 DEF Fine, transferStake, e, d, k

-----------------------------------------------------------------------------
(* The state machine.                                                      *)

\* Nobody has deposited anything at first.
LEMMA InitGood == Init => Good(ledger)
<1> SUFFICES ASSUME Init
             PROVE  Good(ledger)
  OBVIOUS
<1>1. Supply \in Nat /\ <<>> \in Seq(Obligators) /\ Len(<<>>) = 0
  BY BoundsAssumption
<1>2. ledger \in Ledger
  BY <1>1 DEF Init, EmptyLedger, Ledger
<1>. QED
  BY <1>1, <1>2 DEF Good, Init, EmptyLedger, totalLockCount

\* Every call keeps the ledger good, locked deposits frozen and the promise kept.
LEMMA NextFine == Good(ledger) /\ Next => Fine(ledger, ledger')
<1> SUFFICES ASSUME Good(ledger), Next
             PROVE  Fine(ledger, ledger')
  OBVIOUS
<1>1. \A amount \in Amounts : amount \in Nat
  BY AmountsAssumption
<1>2. ASSUME NEW c \in Obligators, LockToken(c)
      PROVE  Fine(ledger, ledger')
  BY <1>2, LockTokenFine DEF LockToken
<1>3. ASSUME NEW c \in Obligators, NEW u \in Users, NEW lockId \in 1 .. MaxLocks,
             UnlockTokenForUser(c, u, lockId)
      PROVE  Fine(ledger, ledger')
  <2>1. totalLockCount(ledger) \in Nat
    BY LedgerFields DEF Good
  <2>2. lockId \in Nat /\ lockId <= totalLockCount(ledger)
    BY <1>3, <2>1, BoundsAssumption DEF UnlockTokenForUser, canUnlockTokenForUser
  <2>. QED
    BY <1>3, <2>2, LockCountFine DEF UnlockTokenForUser, unlockTokenForUser
<1>4. ASSUME NEW u \in Users, NEW lockId \in 1 .. MaxLocks, IncrementLockCounterTo(u, lockId)
      PROVE  Fine(ledger, ledger')
  BY <1>4, LockCountFine, BoundsAssumption
     DEF IncrementLockCounterTo, canIncrementLockCounterTo, incrementLockCounterTo
<1>5. ASSUME NEW u \in Users, NEW amount \in Amounts, NEW force \in BOOLEAN,
             Deposit(u, amount, force) \/ Withdraw(u, amount, force)
      PROVE  Fine(ledger, ledger')
  BY <1>1, <1>5, DepositFine, WithdrawFine DEF Deposit, Withdraw
<1>6. ASSUME NEW u \in Users, NEW amount \in Amounts, NEW force \in BOOLEAN,
             NEW recipient \in Users, NEW ok \in BOOLEAN,
             DepositFor(u, amount, recipient, ok) \/ Transfer(u, amount, recipient, force, ok)
      PROVE  Fine(ledger, ledger')
  BY <1>1, <1>6, DepositForFine, TransferFine DEF DepositFor, Transfer
<1>7. ASSUME NEW c \in Obligators, NEW u \in Users, NEW amount \in Amounts,
             \/ ApproveStake(c, u, amount)
             \/ ObligateStake(c, u, amount)
             \/ DeobligateStake(c, u, amount)
      PROVE  Fine(ledger, ledger')
  BY <1>1, <1>7, ApproveStakeFine, ObligateStakeFine, DeobligateStakeFine
     DEF ApproveStake, ObligateStake, DeobligateStake
<1>8. ASSUME NEW c \in Obligators, NEW u \in Users, NEW amount \in Amounts,
             NEW recipient \in Users, NEW ok \in BOOLEAN,
             TransferStake(c, u, amount, recipient, ok)
      PROVE  Fine(ledger, ledger')
  BY <1>1, <1>8, TransferStakeFine DEF TransferStake
<1>. QED
  BY <1>2, <1>3, <1>4, <1>5, <1>6, <1>7, <1>8 DEF Next, LockStep, DepositStep, StakeStep

\* The inductive invariant.
LEMMA GoodAlways == Spec => []Good(ledger)
<1>1. Good(ledger) /\ [Next]_ledger => Good(ledger)'
  BY NextFine DEF Fine, Good, totalLockCount
<1>. QED
  BY InitGood, <1>1, PTL DEF Spec

\* The ledger is one the contract's storage can hold: no balance, obligation or
\* pending payment is driven below zero by any sequence of calls.
THEOREM TypeCorrect == Spec => []TypeOK
<1>1. Good(ledger) => TypeOK
  BY DEF Good, TypeOK
<1>. QED
  BY GoodAlways, <1>1, PTL

\* A deposit always covers its obligations: the checks of notObligated and
\* obligateStake suffice for every call, also for those that have none.
THEOREM DepositsCoverObligations == Spec => []ObligationsCovered
<1>1. Good(ledger) => ObligationsCovered
  BY DEF Good, ObligationsCovered
<1>. QED
  BY GoodAlways, <1>1, PTL

\* Nobody is past a lock that was not placed yet (TokenLockingStorage.sol).
THEOREM LockCountsBounded == Spec => []LockCountBound
<1>1. Good(ledger) => LockCountBound
  BY DEF Good, LockCountBound
<1>. QED
  BY GoodAlways, <1>1, PTL

\* A locked deposit neither grows nor shrinks but by a slash of its stake.
THEOREM LockedDepositsFrozen == Spec => FrozenWhileLocked
<1>1. Good(ledger) /\ [Next]_ledger
      => [\A u \in Users :
            (~isTokenUnlocked(ledger, u) /\ ledger'.lockCount[u] = ledger.lockCount[u])
            => \/ ledger'.balance[u] = ledger.balance[u]
               \/ /\ ledger'.balance[u] < ledger.balance[u]
                  /\ ledger.balance[u] + ledger'.totalObligations[u]
                       = ledger'.balance[u] + ledger.totalObligations[u]]_ledger
  BY NextFine DEF Fine, Frozen
<1>. QED
  BY GoodAlways, <1>1, PTL DEF Spec, FrozenWhileLocked

\* Promised, in the words of StakeLedger's actions.
LEMMA PromisedStep ==
    ASSUME Good(ledger), Good(ledger'), Promised(ledger, ledger')
    PROVE  [Promise!Next]_(Promise!ledgerVars)
<1>1. /\ ledger.balance \in [Users -> Nat] /\ ledger'.balance \in [Users -> Nat]
      /\ ledger.totalObligations \in [Users -> Nat]
  BY LedgerFields DEF Good
<1>2. ASSUME NEW a \in Users, NEW n \in Nat \ {0}, ledger'.balance = Plus(ledger.balance, a, n),
             ledger'.totalObligations = ledger.totalObligations
      PROVE  Promise!Credit(a)
  BY <1>1, <1>2 DEF Promise!Credit, Plus
<1>3. ASSUME NEW a \in Users, NEW n \in Nat \ {0},
             ledger.totalObligations[a] + n <= ledger.balance[a]
      PROVE  n \in 1 .. Promise!Free(a)
  BY <1>1, <1>3 DEF Promise!Free
<1>4. ASSUME NEW a \in Users, NEW n \in Nat \ {0}, n <= ledger.totalObligations[a]
      PROVE  n \in 1 .. ledger.totalObligations[a]
  BY <1>1, <1>4
<1>. QED
  BY <1>2, <1>3, <1>4
     DEF Promised, Promise!Next, Promise!ledgerVars, Promise!Debit, Promise!Move,
         Promise!Stake, Promise!Release, Promise!Slash, Plus, Minus

\* TokenLocking implements StakeLedger: what is staked leaves a deposit only by
\* a slash, and only the free part moves, is withdrawn or is staked again.
THEOREM ImplementsPromise == Spec => ImplementsStakeLedger
<1>1. Init => Promise!Init
  BY DEF Init, EmptyLedger, Promise!Init
<1>2. Good(ledger) /\ Good(ledger)' /\ [Next]_ledger => [Promise!Next]_(Promise!ledgerVars)
  <2>1. ASSUME Good(ledger), Good(ledger)', Next
        PROVE  [Promise!Next]_(Promise!ledgerVars)
    <3>1. Good(ledger') /\ Promised(ledger, ledger')
      BY <2>1, NextFine DEF Fine
    <3>. QED
      BY <2>1, <3>1, PromisedStep
  <2>2. UNCHANGED ledger => UNCHANGED Promise!ledgerVars
    BY DEF Promise!ledgerVars
  <2>. QED
    BY <2>1, <2>2
<1>. QED
  BY GoodAlways, <1>1, <1>2, PTL DEF Spec, ImplementsStakeLedger, Promise!Spec
-----------------------------------------------------------------------------
(* The sums in the books.                                                  *)

owed(l) == [u \in Users |-> l.balance[u] + l.pendingBalance[u]]

\* The contract holds gap tokens more than it owes: between its two halves, a
\* call has taken tokens that no deposit shows yet, or no longer.
Holds(l, gap) == l.custody = SumFunctionOnSet(owed(l), Users) + gap

\* ObligationsSum, of a ledger.
Summed(l) ==
    \A u \in Users : l.totalObligations[u] = SumFunctionOnSet(l.obligations[u], Obligators)

Balanced(l) == Summed(l) /\ Holds(l, 0)

\* The numbers of HoldsChange: both sums and custodies, two amounts of each ledger.
LEMMA GapArithmetic ==
    ASSUME NEW sl \in Int, NEW sk \in Int, NEW cl \in Int, NEW ck \in Int,
           NEW bl \in Int, NEW pl \in Int, NEW bk \in Int, NEW pk \in Int,
           NEW ol \in Int, NEW ok \in Int, NEW gap \in Int, NEW left \in Int
    PROVE  (/\ sk = sl - ol + ok /\ ol = bl + pl /\ ok = bk + pk
            /\ cl = sl + gap /\ ck + bl + pl - left = cl + bk + pk - gap)
           => ck = sk + left
OBVIOUS

\* What an account is owed changes, and the gap with it.
LEMMA HoldsChange ==
    ASSUME NEW l \in Ledger, NEW k \in Ledger, NEW u \in Users, NEW gap \in Int, NEW left \in Int,
           \A v \in Users \ {u} :
              k.balance[v] = l.balance[v] /\ k.pendingBalance[v] = l.pendingBalance[v],
           Holds(l, gap),
           k.custody + l.balance[u] + l.pendingBalance[u] - left
             = l.custody + k.balance[u] + k.pendingBalance[u] - gap
    PROVE  Holds(k, left)
<1>1. /\ \A v \in Users : owed(l)[v] = l.balance[v] + l.pendingBalance[v]
      /\ \A v \in Users : owed(k)[v] = k.balance[v] + k.pendingBalance[v]
  BY DEF owed
<1>2. \A v \in Users : /\ l.balance[v] \in Nat /\ l.pendingBalance[v] \in Nat
                       /\ k.balance[v] \in Nat /\ k.pendingBalance[v] \in Nat
  BY LedgerFields
<1>3. ASSUME NEW v \in Users
      PROVE  owed(l)[v] \in Int /\ owed(k)[v] \in Int
  <2>1. /\ l.balance[v] + l.pendingBalance[v] \in Int
        /\ k.balance[v] + k.pendingBalance[v] \in Int
    BY <1>2
  <2>. QED
    BY <1>1, <2>1, Zenon
<1>4. \A v \in Users : v # u => owed(k)[v] = owed(l)[v]
  BY <1>1
<1>5. SumFunctionOnSet(owed(k), Users) = SumFunctionOnSet(owed(l), Users) - owed(l)[u] + owed(k)[u]
  BY <1>3, <1>4, PartiesAssumption, SumChange
<1>6. SumFunctionOnSet(owed(l), Users) \in Int
  BY <1>3, PartiesAssumption, SumInt
<1>7. l.custody \in Nat /\ k.custody \in Nat
  BY LedgerFields
<1>8. /\ owed(l)[u] = l.balance[u] + l.pendingBalance[u]
      /\ owed(k)[u] = k.balance[u] + k.pendingBalance[u]
  BY <1>1
<1>9. /\ l.balance[u] \in Nat /\ l.pendingBalance[u] \in Nat
      /\ k.balance[u] \in Nat /\ k.pendingBalance[u] \in Nat
  BY <1>2
<1>10. l.custody = SumFunctionOnSet(owed(l), Users) + gap
  BY DEF Holds
<1>11. k.custody = SumFunctionOnSet(owed(k), Users) + left
  <2>1. SumFunctionOnSet(owed(k), Users) \in Int
    BY <1>3, PartiesAssumption, SumInt
  <2>2. owed(l)[u] \in Int /\ owed(k)[u] \in Int
    BY <1>3
  <2>3. /\ l.custody \in Int /\ k.custody \in Int
        /\ l.balance[u] \in Int /\ l.pendingBalance[u] \in Int
        /\ k.balance[u] \in Int /\ k.pendingBalance[u] \in Int
    BY <1>7, <1>9
  <2>. QED
    BY <1>5, <1>6, <1>8, <1>10, <2>1, <2>2, <2>3, GapArithmetic
<1>. QED
  BY <1>11 DEF Holds

\* Neither sum moves when no amount in it does.
LEMMA BalancedSame ==
    ASSUME NEW l, Balanced(l), NEW k, k.custody = l.custody,
           k.balance = l.balance, k.pendingBalance = l.pendingBalance,
           k.obligations = l.obligations, k.totalObligations = l.totalObligations
    PROVE  Balanced(k)
BY DEF Balanced, Summed, Holds, owed

\* One obligation changes, and the total with it.
LEMMA SummedChange ==
    ASSUME NEW l \in Ledger, NEW k \in Ledger, NEW u \in Users, NEW c \in Obligators,
           \A v \in Users \ {u} :
              /\ k.obligations[v] = l.obligations[v]
              /\ k.totalObligations[v] = l.totalObligations[v],
           \A d \in Obligators \ {c} : k.obligations[u][d] = l.obligations[u][d],
           Summed(l),
           k.totalObligations[u] + l.obligations[u][c]
             = l.totalObligations[u] + k.obligations[u][c]
    PROVE  Summed(k)
<1>1. \A d \in Obligators : l.obligations[u][d] \in Int /\ k.obligations[u][d] \in Int
  <2>1. l.obligations[u] \in [Obligators -> Nat] /\ k.obligations[u] \in [Obligators -> Nat]
    BY LedgerFields
  <2>. QED
    BY <2>1
<1>2. SumFunctionOnSet(k.obligations[u], Obligators)
        = SumFunctionOnSet(l.obligations[u], Obligators)
            - l.obligations[u][c] + k.obligations[u][c]
  <2>1. \A d \in Obligators : d # c => k.obligations[u][d] = l.obligations[u][d]
    OBVIOUS
  <2>. QED
    BY <1>1, <2>1, PartiesAssumption, SumChange
<1>3. SumFunctionOnSet(l.obligations[u], Obligators) = l.totalObligations[u]
  BY DEF Summed
<1>4. l.totalObligations[u] \in Nat /\ k.totalObligations[u] \in Nat
  BY LedgerFields
<1>5. k.totalObligations[u] = SumFunctionOnSet(k.obligations[u], Obligators)
  BY <1>1, <1>2, <1>3, <1>4
<1>6. \A v \in Users \ {u} :
        k.totalObligations[v] = SumFunctionOnSet(k.obligations[v], Obligators)
  BY DEF Summed
<1>. QED
  BY <1>5, <1>6 DEF Summed

\* The tokens that makeConditionalDeposit is given close the gap, whatever
\* becomes of them: deposited, paid out, or pending after a failed payment.
LEMMA ConditionalDepositHolds ==
    ASSUME NEW l, Good(l), NEW u \in Users, NEW amount \in Nat, NEW ok \in BOOLEAN,
           Summed(l), Holds(l, amount)
    PROVE  Balanced(makeConditionalDeposit(l, amount, u, ok))
<1> DEFINE k == makeConditionalDeposit(l, amount, u, ok)
<1>1. l \in Ledger /\ k \in Ledger
  BY ConditionalDeposit DEF Good
<1>2. /\ k.obligations = l.obligations /\ k.totalObligations = l.totalObligations
      /\ \A v \in Users \ {u} :
           k.balance[v] = l.balance[v] /\ k.pendingBalance[v] = l.pendingBalance[v]
  BY <1>1 DEF makeConditionalDeposit, Ledger
<1>3. k.custody + l.balance[u] + l.pendingBalance[u] - 0
        = l.custody + k.balance[u] + k.pendingBalance[u] - amount
  <2>1. l.balance[u] \in Nat /\ l.pendingBalance[u] \in Nat /\ l.custody \in Nat
    BY <1>1, LedgerFields
  <2>2. \/ /\ k.balance[u] = l.balance[u] + amount
           /\ k.pendingBalance[u] = l.pendingBalance[u] /\ k.custody = l.custody
        \/ /\ k.balance[u] = l.balance[u]
           /\ k.pendingBalance[u] = l.pendingBalance[u] /\ k.custody = l.custody - amount
        \/ /\ k.balance[u] = l.balance[u]
           /\ k.pendingBalance[u] = l.pendingBalance[u] + amount /\ k.custody = l.custody
    BY <1>1 DEF makeConditionalDeposit, Ledger
  <2>. HIDE DEF k
  <2>. QED
    BY <2>1, <2>2
<1>. HIDE DEF k
<1>4. Holds(k, 0)
  BY <1>1, <1>2, <1>3, HoldsChange
<1>5. Summed(k)
  BY <1>2 DEF Summed
<1>. QED
  BY <1>4, <1>5 DEF Balanced, k

\* Tokens pulled in are at first nobody's.
LEMMA ClaimTokensHolds ==
    ASSUME NEW l, Good(l), NEW u \in Users, NEW amount \in Nat, amount <= l.wallet[u],
           NEW gap \in Int, Holds(l, gap), Summed(l)
    PROVE  LET k == claimTokens(l, amount, u)
           IN  Summed(k) /\ Holds(k, gap + amount)
<1> DEFINE k == claimTokens(l, amount, u)
<1>1. l \in Ledger /\ k \in Ledger
  BY ClaimTokens DEF Good
<1>2. /\ k.balance = l.balance /\ k.pendingBalance = l.pendingBalance
      /\ k.obligations = l.obligations /\ k.totalObligations = l.totalObligations
      /\ k.custody = l.custody + amount
  BY <1>1 DEF claimTokens, Ledger
<1>. HIDE DEF k
<1>3. l.balance[u] \in Nat /\ l.pendingBalance[u] \in Nat /\ l.custody \in Nat
  BY <1>1, LedgerFields
<1>4. k.custody + l.balance[u] + l.pendingBalance[u] - (gap + amount)
        = l.custody + k.balance[u] + k.pendingBalance[u] - gap
  BY <1>2, <1>3
<1>5. Holds(k, gap + amount)
  BY <1>1, <1>2, <1>4, HoldsChange
<1>6. Summed(k)
  BY <1>2 DEF Summed
<1>. QED
  BY <1>5, <1>6 DEF k

\* Locks are no amounts.
LEMMA ForceUnlockBalanced ==
    ASSUME NEW l, Good(l), NEW u \in Users, NEW force \in BOOLEAN, Balanced(l)
    PROVE  Balanced(forceUnlock(l, u, force))
<1> DEFINE k == forceUnlock(l, u, force)
<1>1. l \in Ledger
  BY DEF Good
<1>2. /\ k.balance = l.balance /\ k.pendingBalance = l.pendingBalance
      /\ k.obligations = l.obligations /\ k.totalObligations = l.totalObligations
      /\ k.custody = l.custody
  BY <1>1 DEF forceUnlock, Ledger
<1>. HIDE DEF k
<1>3. Balanced(k)
  BY <1>2, BalancedSame
<1>. QED
  BY <1>3 DEF k

\* What leaves a deposit is held for nobody until it is put somewhere.
LEMMA DebitedHolds ==
    ASSUME NEW l, Good(l), NEW u \in Users, NEW amount \in Nat, notObligated(l, u, amount),
           Balanced(l)
    PROVE  LET k == [l EXCEPT !.balance[u] = @ - amount]
           IN  Summed(k) /\ Holds(k, amount)
<1> DEFINE k == [l EXCEPT !.balance[u] = @ - amount]
<1>1. l \in Ledger /\ k \in Ledger
  BY Debited DEF Good
<1>2. /\ k.balance[u] = l.balance[u] - amount
      /\ k.pendingBalance = l.pendingBalance
      /\ \A v \in Users \ {u} : k.balance[v] = l.balance[v]
      /\ k.obligations = l.obligations /\ k.totalObligations = l.totalObligations
      /\ k.custody = l.custody
  BY <1>1 DEF Ledger
<1>. HIDE DEF k
<1>3. l.balance[u] \in Nat /\ l.pendingBalance[u] \in Nat /\ l.custody \in Nat
  BY <1>1, LedgerFields
<1>4. k.custody + l.balance[u] + l.pendingBalance[u] - amount
        = l.custody + k.balance[u] + k.pendingBalance[u] - 0
  BY <1>2, <1>3
<1>5. Holds(l, 0) /\ Summed(l)
  BY DEF Balanced
<1>6. Holds(k, amount)
  BY <1>1, <1>2, <1>4, <1>5, HoldsChange
<1>7. Summed(k)
  BY <1>2, <1>5 DEF Summed
<1>. QED
  BY <1>6, <1>7 DEF k

\* A deposit pulls in what it credits, but for the pending tokens that the
\* contract held already.
LEMMA DepositBalanced ==
    ASSUME NEW l, Good(l), NEW u \in Users, NEW amount \in Nat, NEW force \in BOOLEAN,
           canDeposit(l, u, amount, force), Balanced(l)
    PROVE  Balanced(deposit(l, u, amount, force))
<1> DEFINE f == forceUnlock(l, u, force)
           pending == IF force THEN l.pendingBalance[u] ELSE 0
           k == deposit(l, u, amount, force)
<1>1. /\ Good(f) /\ f \in Ledger /\ l \in Ledger /\ Balanced(f)
      /\ f.pendingBalance = l.pendingBalance
  BY ForceUnlock, ForceUnlockBalanced DEF Good
<1>2. k \in Ledger
  BY DepositFine DEF Fine, Good
<1>. HIDE DEF f
<1>3. /\ k.balance[u] = f.balance[u] + amount + pending
      /\ k.pendingBalance[u] = f.pendingBalance[u] - pending
      /\ k.custody = f.custody + amount
      /\ \A v \in Users \ {u} :
           k.balance[v] = f.balance[v] /\ k.pendingBalance[v] = f.pendingBalance[v]
      /\ k.obligations = f.obligations /\ k.totalObligations = f.totalObligations
  <2>. HIDE DEF pending
  <2>. DEFINE c == [f EXCEPT !.balance[u] = @ + amount + pending,
                             !.pendingBalance[u] = @ - pending]
  <2>1. k = [c EXCEPT !.wallet[u] = @ - amount, !.custody = @ + amount]
    BY DEF deposit, claimTokens, f, pending
  <2>2. /\ c.balance[u] = f.balance[u] + amount + pending
        /\ c.pendingBalance[u] = f.pendingBalance[u] - pending
        /\ c.custody = f.custody
        /\ \A v \in Users \ {u} :
             c.balance[v] = f.balance[v] /\ c.pendingBalance[v] = f.pendingBalance[v]
        /\ c.obligations = f.obligations /\ c.totalObligations = f.totalObligations
    BY <1>1 DEF Ledger
  <2>3. /\ k.balance = c.balance /\ k.pendingBalance = c.pendingBalance
        /\ k.custody = c.custody + amount
        /\ k.obligations = c.obligations /\ k.totalObligations = c.totalObligations
    <3>1. c = [f EXCEPT !.balance = c.balance, !.pendingBalance = c.pendingBalance]
      BY <1>1 DEF Ledger
    <3>. HIDE DEF c
    <3>. QED
      BY <1>1, <2>1, <3>1 DEF Ledger
  <2>. HIDE DEF c
  <2>. QED
    BY <2>2, <2>3
<1>4. k.custody + f.balance[u] + f.pendingBalance[u] - 0
        = f.custody + k.balance[u] + k.pendingBalance[u] - 0
  <2>1. /\ f.balance[u] \in Nat /\ f.pendingBalance[u] \in Nat /\ f.custody \in Nat
        /\ pending \in Nat
    BY <1>1, LedgerFields
  <2>. HIDE DEF k, pending
  <2>. QED
    BY <1>3, <2>1
<1>5. Holds(f, 0) /\ Summed(f)
  BY <1>1 DEF Balanced
<1>. HIDE DEF k
<1>6. Holds(k, 0)
  BY <1>1, <1>2, <1>3, <1>4, <1>5, HoldsChange
<1>7. Summed(k)
  BY <1>3, <1>5 DEF Summed
<1>. QED
  BY <1>6, <1>7 DEF Balanced, k

\* depositFor puts what it pulls in where makeConditionalDeposit decides.
LEMMA DepositForBalanced ==
    ASSUME NEW l, Good(l), NEW u \in Users, NEW amount \in Nat, NEW recipient \in Users,
           NEW ok \in BOOLEAN, canDepositFor(l, u, amount), Balanced(l)
    PROVE  Balanced(depositFor(l, u, amount, recipient, ok))
<1> DEFINE c == claimTokens(l, amount, u)
<1>1. Good(c)
  BY ClaimTokens DEF canDepositFor
<1>2. Summed(c) /\ Holds(c, 0 + amount)
  BY ClaimTokensHolds DEF canDepositFor, Balanced
<1>. HIDE DEF c
<1>3. Holds(c, amount)
  BY <1>2
<1>4. Balanced(makeConditionalDeposit(c, amount, recipient, ok))
  BY <1>1, <1>2, <1>3, ConditionalDepositHolds
<1>. QED
  BY <1>4 DEF depositFor, c

\* withdraw pays out what it takes from the deposit.
LEMMA WithdrawBalanced ==
    ASSUME NEW l, Good(l), NEW u \in Users, NEW amount \in Nat, NEW force \in BOOLEAN,
           canWithdraw(l, u, amount, force), Balanced(l)
    PROVE  Balanced(withdraw(l, u, amount, force))
<1> DEFINE f == forceUnlock(l, u, force)
           k == withdraw(l, u, amount, force)
<1>1. Good(f) /\ f \in Ledger /\ l \in Ledger /\ Balanced(f)
  BY ForceUnlock, ForceUnlockBalanced DEF Good
<1>2. k \in Ledger
  BY WithdrawFine DEF Fine, Good
<1>. HIDE DEF f
<1>3. /\ k.balance[u] = f.balance[u] - amount /\ k.custody = f.custody - amount
      /\ k.pendingBalance = f.pendingBalance
      /\ \A v \in Users \ {u} : k.balance[v] = f.balance[v]
      /\ k.obligations = f.obligations /\ k.totalObligations = f.totalObligations
  <2>1. k = [f EXCEPT !.balance[u] = @ - amount, !.custody = @ - amount,
                      !.wallet[u] = @ + amount]
    BY DEF withdraw, f
  <2>. QED
    BY <1>1, <2>1 DEF Ledger
<1>. HIDE DEF k
<1>4. f.balance[u] \in Nat /\ f.pendingBalance[u] \in Nat /\ f.custody \in Nat
  BY <1>1, LedgerFields
<1>5. k.custody + f.balance[u] + f.pendingBalance[u] - 0
        = f.custody + k.balance[u] + k.pendingBalance[u] - 0
  BY <1>3, <1>4
<1>6. Holds(f, 0) /\ Summed(f)
  BY <1>1 DEF Balanced
<1>7. Holds(k, 0)
  BY <1>1, <1>2, <1>3, <1>5, <1>6, HoldsChange
<1>8. Summed(k)
  BY <1>3, <1>6 DEF Summed
<1>. QED
  BY <1>7, <1>8 DEF Balanced, k

\* transfer moves a part of a deposit, to itself too.
LEMMA TransferBalanced ==
    ASSUME NEW l, Good(l), NEW u \in Users, NEW amount \in Nat, NEW recipient \in Users,
           NEW force \in BOOLEAN, NEW ok \in BOOLEAN, canTransfer(l, u, amount, force),
           Balanced(l)
    PROVE  Balanced(transfer(l, u, amount, recipient, force, ok))
<1> DEFINE f == forceUnlock(l, u, force)
           d == [f EXCEPT !.balance[u] = @ - amount]
<1>1. /\ Good(f) /\ Balanced(f)
      /\ f.balance = l.balance /\ f.totalObligations = l.totalObligations
  BY ForceUnlock, ForceUnlockBalanced
<1>. HIDE DEF f
<1>2. notObligated(f, u, amount)
  BY <1>1 DEF canTransfer, notObligated
<1>3. Good(d)
  BY <1>1, <1>2, Debited
<1>4. Summed(d) /\ Holds(d, amount)
  BY <1>1, <1>2, DebitedHolds
<1>. HIDE DEF d
<1>5. Balanced(makeConditionalDeposit(d, amount, recipient, ok))
  BY <1>3, <1>4, ConditionalDepositHolds
<1>. QED
  BY <1>5 DEF transfer, f, d

\* A stake is booked in an obligator's book and in the total.
LEMMA ObligateStakeBalanced ==
    ASSUME NEW l, Good(l), NEW c \in Obligators, NEW u \in Users, NEW amount \in Nat,
           canObligateStake(l, c, u, amount), Balanced(l)
    PROVE  Balanced(obligateStake(l, c, u, amount))
<1> DEFINE k == obligateStake(l, c, u, amount)
<1>1. l \in Ledger /\ k \in Ledger
  BY ObligateStakeFine DEF Fine, Good
<1>2. /\ k.balance = l.balance /\ k.pendingBalance = l.pendingBalance /\ k.custody = l.custody
      /\ \A v \in Users \ {u} :
           /\ k.obligations[v] = l.obligations[v]
           /\ k.totalObligations[v] = l.totalObligations[v]
      /\ \A d \in Obligators \ {c} : k.obligations[u][d] = l.obligations[u][d]
      /\ k.totalObligations[u] = l.totalObligations[u] + amount
      /\ k.obligations[u][c] = l.obligations[u][c] + amount
  <2>1. k.balance = l.balance /\ k.pendingBalance = l.pendingBalance /\ k.custody = l.custody
    BY <1>1 DEF obligateStake, Ledger
  <2>2. k.totalObligations = Plus(l.totalObligations, u, amount)
    BY <1>1 DEF obligateStake, Ledger, Plus
  <2>3. k.obligations = [l.obligations EXCEPT ![u][c] = @ + amount]
    BY <1>1 DEF obligateStake, Ledger
  <2>4. /\ l.totalObligations \in [Users -> Nat]
        /\ l.obligations \in [Users -> [Obligators -> Nat]]
    BY <1>1, LedgerFields
  <2>. HIDE DEF k
  <2>. QED
    BY <2>1, <2>2, <2>3, <2>4 DEF Plus
<1>. HIDE DEF k
<1>3. l.totalObligations[u] \in Nat /\ l.obligations[u][c] \in Nat
  <2>1. l.obligations[u] \in [Obligators -> Nat]
    BY <1>1, LedgerFields
  <2>. QED
    BY <1>1, <2>1, LedgerFields
<1>4. k.totalObligations[u] + l.obligations[u][c] = l.totalObligations[u] + k.obligations[u][c]
  BY <1>2, <1>3
<1>5. Summed(k)
  BY <1>1, <1>2, <1>4, SummedChange DEF Balanced
<1>6. Holds(k, 0)
  BY <1>2 DEF Balanced, Holds, owed
<1>. QED
  BY <1>5, <1>6 DEF Balanced, k

\* And leaves both.
LEMMA DeobligateStakeBalanced ==
    ASSUME NEW l, Good(l), NEW c \in Obligators, NEW u \in Users, NEW amount \in Nat,
           canDeobligateStake(l, c, u, amount), Balanced(l)
    PROVE  Balanced(deobligateStake(l, c, u, amount))
<1> DEFINE k == deobligateStake(l, c, u, amount)
<1>1. l \in Ledger /\ k \in Ledger
  BY DeobligateStakeFine DEF Fine, Good
<1>2. /\ k.balance = l.balance /\ k.pendingBalance = l.pendingBalance /\ k.custody = l.custody
      /\ \A v \in Users \ {u} :
           /\ k.obligations[v] = l.obligations[v]
           /\ k.totalObligations[v] = l.totalObligations[v]
      /\ \A d \in Obligators \ {c} : k.obligations[u][d] = l.obligations[u][d]
      /\ k.totalObligations[u] = l.totalObligations[u] - amount
      /\ k.obligations[u][c] = l.obligations[u][c] - amount
  BY <1>1 DEF deobligateStake, Ledger
<1>. HIDE DEF k
<1>3. l.totalObligations[u] \in Nat /\ l.obligations[u][c] \in Nat
  <2>1. l.obligations[u] \in [Obligators -> Nat]
    BY <1>1, LedgerFields
  <2>. QED
    BY <1>1, <2>1, LedgerFields
<1>4. k.totalObligations[u] + l.obligations[u][c] = l.totalObligations[u] + k.obligations[u][c]
  BY <1>2, <1>3
<1>5. Summed(k)
  BY <1>1, <1>2, <1>4, SummedChange DEF Balanced
<1>6. Holds(k, 0)
  BY <1>2 DEF Balanced, Holds, owed
<1>. QED
  BY <1>5, <1>6 DEF Balanced, k

\* A slash: the stake leaves the books, the tokens go to the recipient.
LEMMA TransferStakeBalanced ==
    ASSUME NEW l, Good(l), NEW c \in Obligators, NEW u \in Users, NEW amount \in Nat,
           NEW recipient \in Users, NEW ok \in BOOLEAN, canTransferStake(l, c, u, amount),
           Balanced(l)
    PROVE  Balanced(transferStake(l, c, u, amount, recipient, ok))
<1> DEFINE e == deobligateStake(l, c, u, amount)
           d == [e EXCEPT !.balance[u] = @ - amount]
<1>1. /\ Good(e) /\ Balanced(e)
      /\ e.balance = l.balance
      /\ e.totalObligations = Minus(l.totalObligations, u, amount)
  BY DeobligateStakeFine, DeobligateStakeBalanced DEF canTransferStake, Fine
<1>. HIDE DEF e
<1>2. /\ l.balance \in [Users -> Nat] /\ l.totalObligations \in [Users -> Nat]
      /\ l.totalObligations[u] <= l.balance[u]
      /\ amount <= l.totalObligations[u] /\ amount <= l.balance[u]
  BY LedgerFields DEF canTransferStake, canDeobligateStake, Good
<1>3. notObligated(e, u, amount)
  <2>1. e.totalObligations[u] = l.totalObligations[u] - amount
    BY <1>1, <1>2 DEF Minus
  <2>2. l.totalObligations[u] \in Nat /\ l.balance[u] \in Nat
    BY <1>2
  <2>. QED
    BY <1>1, <1>2, <2>1, <2>2 DEF notObligated
<1>4. Good(d)
  BY <1>1, <1>3, Debited
<1>5. Summed(d) /\ Holds(d, amount)
  BY <1>1, <1>3, DebitedHolds
<1>. HIDE DEF d
<1>6. Balanced(makeConditionalDeposit(d, amount, recipient, ok))
  BY <1>4, <1>5, ConditionalDepositHolds
<1>. QED
  BY <1>6 DEF transferStake, e, d

\* A new lock moves no tokens and no stakes.
LEMMA LockTokenBalanced ==
    ASSUME NEW l, Good(l), Balanced(l), NEW c \in Obligators
    PROVE  Balanced(lockToken(l, c))
<1> DEFINE k == lockToken(l, c)
<1>1. l \in Ledger
  BY DEF Good
<1>2. /\ k.custody = l.custody /\ k.balance = l.balance
      /\ k.pendingBalance = l.pendingBalance
      /\ k.obligations = l.obligations /\ k.totalObligations = l.totalObligations
  BY <1>1 DEF lockToken, Ledger
<1>. HIDE DEF k
<1>3. Balanced(k)
  BY <1>2, BalancedSame
<1>. QED
  BY <1>3 DEF k

\* Nor do unlockTokenForUser and incrementLockCounterTo.
LEMMA LockCountBalanced ==
    ASSUME NEW l, Good(l), Balanced(l), NEW u \in Users, NEW lockId
    PROVE  Balanced([l EXCEPT !.lockCount[u] = lockId])
<1> DEFINE k == [l EXCEPT !.lockCount[u] = lockId]
<1>1. l \in Ledger
  BY DEF Good
<1>2. /\ k.custody = l.custody /\ k.balance = l.balance
      /\ k.pendingBalance = l.pendingBalance
      /\ k.obligations = l.obligations /\ k.totalObligations = l.totalObligations
  BY <1>1 DEF Ledger
<1>. HIDE DEF k
<1>3. Balanced(k)
  BY <1>2, BalancedSame
<1>. QED
  BY <1>3 DEF k

\* Nor does an approval.
LEMMA ApproveStakeBalanced ==
    ASSUME NEW l, Good(l), Balanced(l), NEW c \in Obligators, NEW u \in Users, NEW amount \in Nat
    PROVE  Balanced(approveStake(l, c, u, amount))
<1> DEFINE k == approveStake(l, c, u, amount)
<1>1. l \in Ledger
  BY DEF Good
<1>2. /\ k.custody = l.custody /\ k.balance = l.balance
      /\ k.pendingBalance = l.pendingBalance
      /\ k.obligations = l.obligations /\ k.totalObligations = l.totalObligations
  BY <1>1 DEF approveStake, Ledger
<1>. HIDE DEF k
<1>3. Balanced(k)
  BY <1>2, BalancedSame
<1>. QED
  BY <1>3 DEF k

\* Nothing is held and nothing owed at first.
LEMMA InitBalanced == Init => Balanced(ledger)
<1> SUFFICES ASSUME Init
             PROVE  Balanced(ledger)
  OBVIOUS
<1>1. /\ \A u \in Users : ledger.totalObligations[u] = 0
      /\ \A u \in Users, c \in Obligators : ledger.obligations[u][c] = 0
      /\ \A u \in Users : ledger.balance[u] = 0 /\ ledger.pendingBalance[u] = 0
      /\ ledger.custody = 0
  BY DEF Init, EmptyLedger
<1>2. \A u \in Users : SumFunctionOnSet(ledger.obligations[u], Obligators) = 0
  BY <1>1, SumZero, PartiesAssumption
<1>3. ASSUME NEW u \in Users
      PROVE  owed(ledger)[u] = 0
  <2>1. owed(ledger)[u] = ledger.balance[u] + ledger.pendingBalance[u]
    BY DEF owed
  <2>2. ledger.balance[u] = 0 /\ ledger.pendingBalance[u] = 0
    BY <1>1
  <2>. QED
    BY <2>1, <2>2
<1>4. SumFunctionOnSet(owed(ledger), Users) = 0
  BY <1>3, SumZero, PartiesAssumption
<1>. QED
  BY <1>1, <1>2, <1>4 DEF Balanced, Summed, Holds

\* No call leaves the books out of balance.
LEMMA NextBalanced == Good(ledger) /\ Balanced(ledger) /\ Next => Balanced(ledger')
<1> SUFFICES ASSUME Good(ledger), Balanced(ledger), Next
             PROVE  Balanced(ledger')
  OBVIOUS
<1>1. \A amount \in Amounts : amount \in Nat
  BY AmountsAssumption
<1>3. ASSUME NEW c \in Obligators, LockToken(c)
      PROVE  Balanced(ledger')
  BY <1>3, LockTokenBalanced DEF LockToken
<1>4. ASSUME NEW c \in Obligators, NEW u \in Users, NEW lockId \in 1 .. MaxLocks,
             UnlockTokenForUser(c, u, lockId)
      PROVE  Balanced(ledger')
  BY <1>4, LockCountBalanced DEF UnlockTokenForUser, unlockTokenForUser
<1>5. ASSUME NEW u \in Users, NEW lockId \in 1 .. MaxLocks, IncrementLockCounterTo(u, lockId)
      PROVE  Balanced(ledger')
  BY <1>5, LockCountBalanced DEF IncrementLockCounterTo, incrementLockCounterTo
<1>6. ASSUME NEW u \in Users, NEW amount \in Amounts, NEW force \in BOOLEAN,
             Deposit(u, amount, force) \/ Withdraw(u, amount, force)
      PROVE  Balanced(ledger')
  BY <1>1, <1>6, DepositBalanced, WithdrawBalanced DEF Deposit, Withdraw
<1>7. ASSUME NEW u \in Users, NEW amount \in Amounts, NEW force \in BOOLEAN,
             NEW recipient \in Users, NEW ok \in BOOLEAN,
             DepositFor(u, amount, recipient, ok) \/ Transfer(u, amount, recipient, force, ok)
      PROVE  Balanced(ledger')
  BY <1>1, <1>7, DepositForBalanced, TransferBalanced DEF DepositFor, Transfer
<1>8. ASSUME NEW c \in Obligators, NEW u \in Users, NEW amount \in Amounts,
             \/ ApproveStake(c, u, amount)
             \/ ObligateStake(c, u, amount)
             \/ DeobligateStake(c, u, amount)
      PROVE  Balanced(ledger')
  BY <1>1, <1>8, ApproveStakeBalanced, ObligateStakeBalanced, DeobligateStakeBalanced
     DEF ApproveStake, ObligateStake, DeobligateStake
<1>9. ASSUME NEW c \in Obligators, NEW u \in Users, NEW amount \in Amounts,
             NEW recipient \in Users, NEW ok \in BOOLEAN,
             TransferStake(c, u, amount, recipient, ok)
      PROVE  Balanced(ledger')
  BY <1>1, <1>9, TransferStakeBalanced DEF TransferStake
<1>. QED
  BY <1>3, <1>4, <1>5, <1>6, <1>7, <1>8, <1>9 DEF Next, LockStep, DepositStep, StakeStep

\* Whatever the calls, the total of a user's obligations is the sum over its
\* obligators, and the contract holds what it owes, deposited or pending.
THEOREM BooksStayBalanced == Spec => []BooksBalance
<1>1. Balanced(ledger) /\ Good(ledger) /\ [Next]_ledger => Balanced(ledger)'
  BY NextBalanced DEF Balanced, Summed, Holds, owed
<1>2. Good(ledger) /\ Balanced(ledger) => BooksBalance
  <2>1. ASSUME Good(ledger), Balanced(ledger)
        PROVE  BooksBalance
    <3>1. DOMAIN owed(ledger) = Users
      BY DEF owed
    <3>2. ledger.custody \in Nat /\ SumFunctionOnSet(owed(ledger), Users) \in Int
      <4>1. \A u \in Users : ledger.balance[u] \in Nat /\ ledger.pendingBalance[u] \in Nat
        BY <2>1, LedgerFields DEF Good
      <4>2. ASSUME NEW u \in Users
            PROVE  owed(ledger)[u] \in Int
        <5>1. owed(ledger)[u] = ledger.balance[u] + ledger.pendingBalance[u]
          BY DEF owed
        <5>2. ledger.balance[u] + ledger.pendingBalance[u] \in Int
          BY <4>1
        <5>. QED
          BY <5>1, <5>2, Zenon
      <4>. QED
        BY <2>1, <4>2, PartiesAssumption, SumInt, LedgerFields DEF Good
    <3>3. ledger.custody = SumFunctionOnSet(owed(ledger), Users)
      BY <2>1, <3>2 DEF Balanced, Holds
    <3>4. Solvent
      BY <3>1, <3>3 DEF Solvent, SumFunction, owed
    <3>. QED
      BY <2>1, <3>4 DEF BooksBalance, Good, TypeOK, LockCountBound, ObligationsSum,
                        Balanced, Summed
  <2>. QED
    BY <2>1
<1>. QED
  BY GoodAlways, InitBalanced, <1>1, <1>2, PTL DEF Spec
=============================================================================
