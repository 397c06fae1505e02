----------------------------- MODULE StakeLedger -----------------------------
(***************************************************************************)
(* What TokenLocking promises about deposits and stakes, with the locks,   *)
(* the approvals, the obligators and the ERC20 left out: every account has *)
(* a deposit, a part of it is staked, and only a slash takes staked tokens *)
(* out of the deposit.                                                     *)
(***************************************************************************)
EXTENDS Integers

CONSTANT Accounts

VARIABLES
    deposited,   \* what each account has in the contract
    staked       \* the part of it that backs obligations

ledgerVars == <<deposited, staked>>

Init ==
    /\ deposited = [a \in Accounts |-> 0]
    /\ staked = [a \in Accounts |-> 0]

\* An account's deposit grows; nothing is asked of who pays.
Credit(a) ==
    /\ deposited'[a] \in Nat
    /\ deposited'[a] > deposited[a]
    /\ deposited' = [deposited EXCEPT ![a] = deposited'[a]]
    /\ UNCHANGED staked

Free(a) == deposited[a] - staked[a]

\* A free part of a deposit leaves the contract.
Debit(a) ==
    \E n \in 1 .. Free(a) :
        /\ deposited' = [deposited EXCEPT ![a] = @ - n]
        /\ UNCHANGED staked

\* A free part of a deposit becomes another account's.
Move(a, b) ==
    \E n \in 1 .. Free(a) :
        /\ deposited' = [[deposited EXCEPT ![a] = @ - n] EXCEPT ![b] = @ + n]
        /\ UNCHANGED staked

Stake(a) ==
    \E n \in 1 .. Free(a) :
        /\ staked' = [staked EXCEPT ![a] = @ + n]
        /\ UNCHANGED deposited

Release(a) ==
    \E n \in 1 .. staked[a] :
        /\ staked' = [staked EXCEPT ![a] = @ - n]
        /\ UNCHANGED deposited

\* Staked tokens leave the account; they join b's deposit or leave the contract.
Slash(a) ==
    \E n \in 1 .. staked[a] :
        /\ staked' = [staked EXCEPT ![a] = @ - n]
        /\ \/ deposited' = [deposited EXCEPT ![a] = @ - n]
           \/ \E b \in Accounts :
                deposited' = [[deposited EXCEPT ![a] = @ - n] EXCEPT ![b] = @ + n]

Next ==
    \E a \in Accounts :
        \/ Credit(a)
        \/ Debit(a)
        \/ Stake(a)
        \/ Release(a)
        \/ Slash(a)
        \/ \E b \in Accounts : Move(a, b)

Spec == Init /\ [][Next]_ledgerVars
=============================================================================
