------------------------------- MODULE VeDEG -------------------------------
(***************************************************************************)
(* VoteEscrowedDegis and the farming pools it feeds.  Staked DEGIS         *)
(* generates veDEG up to a maximum per DEGIS; DEGIS that is locked for a    *)
(* time gets its maximum at once.  Whitelisted contracts lock or burn      *)
(* balances of veDEG, a contract for NFTs boosts them.  Every mint and     *)
(* every burn calls updateBonus of the farming pools, and fails with it.   *)
(*                                                                         *)
(* Like the farming pools the contract was deployed as version 1.0         *)
(* (archive/VeDEG-Impl-1.0.ts) and replaced by the present one, which      *)
(* checks locks and knows boosts.                                          *)
(***************************************************************************)
EXTENDS Farming

CONSTANTS
    Escrowers,      \* users who stake DEGIS for veDEG
    WAD,
    InitialDegis,   \* DEGIS an escrower owns
    DegisAmounts,   \* amounts deposited and withdrawn
    VeAmounts,      \* amounts of veDEG locked, unlocked and burned
    Ratios, Rates,  \* values of maxCapRatio and generationRate; the first ones
    FirstRatio, FirstRate,
    MaxLocked       \* bound on locked balances, which version 1.0 never lowers

\* The boosted ratios are whole numbers, as with the deployed ratio of 100.
ASSUME VeDEGAssumption ==
    /\ Escrowers \subseteq Users /\ WAD \in Nat \ {0} /\ InitialDegis \in Nat
    /\ DegisAmounts \subseteq Nat \ {0} /\ VeAmounts \subseteq Nat
    /\ Ratios \subseteq {10 * n : n \in 1 .. 100} /\ FirstRatio \in Ratios
    /\ Rates \subseteq Nat \ {0} /\ FirstRate \in Rates /\ MaxLocked \in Nat

VARIABLES
    users,          \* user -> UserInfo
    locked, boosted,
    maxCapRatio, generationRate,
    waived          \* history: <<promise, user>> that a call has set aside

veVars == <<veBalance, users, locked, boosted, maxCapRatio, generationRate, waived>>
vars == <<farmingVars, veVars>>

NoDeposit == [amount |-> 0, lastRelease |-> 0, amountLocked |-> 0, lockUntil |-> 0]

\* Per cent of a balance, by the type of boost.
BoostFactor == [type \in 0 .. 2 |-> CASE type = 0 -> 100 [] type = 1 -> 120 [] type = 2 -> 150]

_getCapRatio(u) == (maxCapRatio * BoostFactor[boosted[u]]) \div 100

\* Math.wmul rounds half up.
wmul(x, y) == (x * y + WAD \div 2) \div WAD

\* The balance without what the locked deposit was given; checked subtraction.
Flexible(u) == veBalance[u] - users[u].amountLocked * _getCapRatio(u)

Generated(u) ==
    wmul(users[u].amount,
         ((now - users[u].lastRelease) * generationRate * BoostFactor[boosted[u]]) \div 100)

claimable(u) ==
    LET veDEGCap == users[u].amount * _getCapRatio(u)
    IN  IF Flexible(u) < veDEGCap THEN Least(Generated(u), veDEGCap - Flexible(u)) ELSE 0

SetBalance(u, balance) ==
    /\ veBalance' = [veBalance EXCEPT ![u] = balance]
    /\ updateBonus(u, balance)
    /\ UNCHANGED isFarming

_mint(u, amount) == SetBalance(u, veBalance[u] + amount)
_burn(u, amount) == amount <= veBalance[u] /\ SetBalance(u, veBalance[u] - amount)

SameFarming == UNCHANGED <<farmingState, stale>>
SameOwner == UNCHANGED <<now, impl, veDEG, settings, maxCapRatio, generationRate>>
\* Calls of other contracts count towards the bound of the owner's.
Appointed == Setting /\ UNCHANGED <<now, impl, veDEG, maxCapRatio, generationRate>>
Waive(promises, S) == waived' = waived \cup (promises \X S)

\* _claim: the release time is set by the callers below.
_claim(u) ==
    /\ Flexible(u) >= 0
    /\ IF claimable(u) > 0 THEN _mint(u, claimable(u)) ELSE UNCHANGED veBalance /\ SameFarming

Affordable(u, amount) == users[u].amount + users[u].amountLocked + amount <= InitialDegis

(***************************************************************************)
(* Deposits and withdrawals                                                *)
(***************************************************************************)
deposit(u, amount) ==
    /\ Affordable(u, amount)
    /\ IF users[u].amount > 0 THEN _claim(u) ELSE UNCHANGED veBalance /\ SameFarming
    /\ users' = [users EXCEPT ![u].amount = @ + amount, ![u].lastRelease = now]
    /\ SameOwner /\ UNCHANGED <<locked, boosted, waived>>

\* MUTANT: mints at the ratio without the boost.
depositMaxTime_Unboosted(u, amount) ==
    /\ Affordable(u, amount)
    /\ _mint(u, maxCapRatio * amount)
    /\ users' = [users EXCEPT
          ![u].amountLocked = @ + amount,
          ![u].lockUntil = now + ((maxCapRatio * WAD) \div generationRate) * 2]
    /\ SameOwner /\ UNCHANGED <<locked, boosted, waived>>

\* A later deposit prolongs the lock of all.
depositMaxTime(u, amount) ==
    /\ Affordable(u, amount)
    /\ _mint(u, _getCapRatio(u) * amount)
    /\ users' = [users EXCEPT
          ![u].amountLocked = @ + amount,
          ![u].lockUntil = now + ((maxCapRatio * WAD) \div generationRate) * 2]
    /\ SameOwner /\ UNCHANGED <<locked, boosted, waived>>

claim(u) ==
    /\ users[u].amount > 0 /\ _claim(u)
    /\ users' = [users EXCEPT ![u].lastRelease = now]
    /\ SameOwner /\ UNCHANGED <<locked, boosted, waived>>

\* MUTANT: the present version lets go of them, too.
noLocked_Never(u) == TRUE

\* Version 1.0 lets go of balances that are locked.
noLocked(u) == impl.veDEG = 2 => locked[u] = 0

\* MUTANT: only the veDEG of the amount withdrawn is burned.
withdrawDegis_BurnsShare(u, amount) ==
    /\ users[u].amount >= amount /\ noLocked(u) /\ Flexible(u) >= 0
    /\ _burn(u, Least(Flexible(u), amount))
    /\ users' = [users EXCEPT ![u].amount = @ - amount, ![u].lastRelease = now]
    /\ SameOwner /\ UNCHANGED <<locked, boosted, waived>>

\* MUTANT: the deposit is not compared with the amount.
withdrawDegis_Unchecked(u, amount) ==
    /\ noLocked(u) /\ Flexible(u) >= 0
    /\ _burn(u, Flexible(u))
    /\ users' = [users EXCEPT ![u].amount = @ - amount, ![u].lastRelease = now]
    /\ SameOwner /\ UNCHANGED <<locked, boosted, waived>>

\* withdraw: all veDEG of the flexible deposit is lost.
withdrawDegis(u, amount) ==
    /\ users[u].amount >= amount /\ noLocked(u) /\ Flexible(u) >= 0
    /\ _burn(u, Flexible(u))
    /\ users' = [users EXCEPT ![u].amount = @ - amount, ![u].lastRelease = now]
    /\ SameOwner /\ UNCHANGED <<locked, boosted, waived>>

withdrawLocked(u) ==
    /\ users[u].amountLocked > 0 /\ now >= users[u].lockUntil /\ noLocked(u)
    /\ _burn(u, users[u].amountLocked * _getCapRatio(u))
    /\ users' = [users EXCEPT ![u].amountLocked = 0, ![u].lockUntil = 0]
    /\ SameOwner /\ UNCHANGED <<locked, boosted, waived>>

(***************************************************************************)
(* Whitelisted contracts                                                   *)
(***************************************************************************)
\* Version 1.0 does not look at the balance.
lockVeDEG(u, amount) ==
    /\ locked[u] + amount <= (IF impl.veDEG = 2 THEN veBalance[u] ELSE MaxLocked)
    /\ locked' = [locked EXCEPT ![u] = @ + amount]
    /\ Waive(IF impl.veDEG = 1 THEN {"locks"} ELSE {}, {u})
    /\ Appointed /\ SameFarming /\ UNCHANGED <<veBalance, users, boosted>>

\* Version 1.0 locks once more where it should unlock.
unlockVeDEG(u, amount) ==
    /\ IF impl.veDEG = 2
         THEN locked[u] >= amount /\ locked' = [locked EXCEPT ![u] = @ - amount]
         ELSE locked[u] + amount <= MaxLocked /\ locked' = [locked EXCEPT ![u] = @ + amount]
    /\ Waive(IF impl.veDEG = 1 THEN {"locks"} ELSE {}, {u})
    /\ SettingUnless(impl.veDEG = 2) /\ SameFarming
    /\ UNCHANGED <<now, impl, veDEG, maxCapRatio, generationRate, veBalance, users, boosted>>

\* Takes from any balance, locked or not.
burnVeDEG(u, amount) ==
    /\ _burn(u, amount)
    /\ Waive({"locks", "deposit"}, {u})
    /\ Appointed /\ UNCHANGED <<users, locked, boosted>>

(***************************************************************************)
(* The contract for NFTs                                                   *)
(***************************************************************************)
\* A balance that is boosted already is boosted once more.
boostVeDEG(u, type) ==
    /\ impl.veDEG = 2
    /\ boosted' = [boosted EXCEPT ![u] = type]
    /\ IF veBalance[u] > 0
         THEN _mint(u, (veBalance[u] * (BoostFactor[type] - 100)) \div 100)
         ELSE UNCHANGED veBalance /\ SameFarming
    /\ Waive(IF boosted[u] # 0 THEN {"cap"} ELSE {}, {u})
    /\ Appointed /\ UNCHANGED <<users, locked>>

unBoostVeDEG(u) ==
    /\ impl.veDEG = 2 /\ boosted[u] # 0 /\ locked[u] = 0
    /\ _burn(u, (veBalance[u] * (BoostFactor[boosted[u]] - 100)) \div BoostFactor[boosted[u]])
    /\ boosted' = [boosted EXCEPT ![u] = 0]
    /\ SameOwner /\ UNCHANGED <<users, locked, waived>>

(***************************************************************************)
(* The owner                                                               *)
(***************************************************************************)
setMaxCapRatio(ratio) ==
    /\ Setting /\ ratio # maxCapRatio /\ maxCapRatio' = ratio
    /\ Waive(IF ratio > maxCapRatio THEN {"deposit"} ELSE {"cap"}, Escrowers)
    /\ SameFarming
    /\ UNCHANGED <<now, impl, veDEG, generationRate, veBalance, users, locked, boosted>>

setGenerationRate(rate) ==
    /\ Setting /\ rate # generationRate /\ generationRate' = rate
    /\ SameFarming
    /\ UNCHANGED <<now, impl, veDEG, maxCapRatio, veBalance, users, locked, boosted, waived>>

upgradeVeDEG ==
    /\ impl.veDEG = 1 /\ impl' = [impl EXCEPT !.veDEG = 2]
    /\ SameFarming /\ UNCHANGED <<now, veDEG, settings, veVars>>

VeDEGInit ==
    /\ users = [u \in Users |-> NoDeposit]
    /\ locked = [u \in Users |-> 0] /\ boosted = [u \in Users |-> 0]
    /\ maxCapRatio = FirstRatio /\ generationRate = FirstRate
    /\ waived = {}

VeDEGNext ==
    \/ \E u \in Escrowers :
          \/ \E a \in DegisAmounts : deposit(u, a) \/ depositMaxTime(u, a) \/ withdrawDegis(u, a)
          \/ \E a \in VeAmounts : lockVeDEG(u, a) \/ unlockVeDEG(u, a) \/ burnVeDEG(u, a)
          \/ \E type \in {1, 2} : boostVeDEG(u, type)
          \/ claim(u) \/ withdrawLocked(u) \/ unBoostVeDEG(u)
    \/ \E ratio \in Ratios : setMaxCapRatio(ratio)
    \/ \E rate \in Rates : setGenerationRate(rate)
    \/ upgradeVeDEG

Init == FarmingInit /\ VeDEGInit
SameVeDEG == UNCHANGED <<users, locked, boosted, maxCapRatio, generationRate, waived>>
Next ==
    \/ VeDEGNext
    \/ (FarmingNext \/ Tick) /\ SameVeDEG
Spec == Init /\ [][Next]_vars

(***************************************************************************)
(* What holders of veDEG rely on                                           *)
(***************************************************************************)
\* TYPE: balances, deposits and locks are natural numbers, nobody deposits
\* more DEGIS than he has.
VeDEGTypeOK ==
    \A u \in Users :
        /\ veBalance[u] \in Nat /\ locked[u] \in Nat /\ boosted[u] \in 0 .. 2
        /\ \A f \in DOMAIN NoDeposit : users[u][f] \in Nat
        /\ users[u].amount + users[u].amountLocked <= InitialDegis

\* A balance covers what its owner's locked deposit was given, at the ratio of
\* his boost: otherwise claim, deposit and both withdrawals of DEGIS revert.
\* Deposits, withdrawals, boosts and their end keep it so in any order; a
\* raised ratio and a burn by a whitelisted contract do not.
LockedDepositCovered ==
    \A u \in Users : <<"deposit", u>> \in waived \/ Flexible(u) >= 0

\* VoteEscrowedDegis.sol:261: "user veDEG balance cannot go above user.amount *
\* maxCap", with the locked deposit and the boost counted in.  It holds through
\* claims after any time, partial withdrawals and boosts that come and go;
\* not after the ratio was lowered or a boosted balance was boosted again.
BalanceWithinCap ==
    \A u \in Users :
        \/ <<"cap", u>> \in waived
        \/ veBalance[u] <= (users[u].amount + users[u].amountLocked) * _getCapRatio(u)

\* Nobody parts with veDEG that a whitelisted contract has locked: whatever
\* the present version locked is still in the balance.
LocksWithinBalance ==
    \A u \in Users : <<"locks", u>> \in waived \/ locked[u] <= veBalance[u]
=============================================================================
