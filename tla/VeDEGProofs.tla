---------------------------- MODULE VeDEGProofs ----------------------------
(***************************************************************************)
(* For every set of users, every amount and every ratio that the owner may *)
(* set: balances of veDEG cover the locked deposits they were given for,   *)
(* stay within the maximum of what is deposited, and hold what whitelisted *)
(* contracts have locked.  The three are proved as one inductive           *)
(* invariant, together with the types.                                     *)
(***************************************************************************)
EXTENDS VeDEG, TLAPS

DepositType == [amount : Nat, lastRelease : Nat, amountLocked : Nat, lockUntil : Nat]

VeTyped ==
    /\ veBalance \in [Users -> Nat] /\ users \in [Users -> DepositType]
    /\ locked \in [Users -> Nat] /\ boosted \in [Users -> 0 .. 2]
    /\ maxCapRatio \in Ratios /\ generationRate \in Rates
    /\ now \in Nat /\ impl \in [farming : {1, 2}, veDEG : {1, 2}]

DepositsAffordable ==
    \A u \in Users : users[u].amount + users[u].amountLocked <= InitialDegis

\* The owner's calls set aside the promises to those who can hold veDEG; the
\* others hold none.
OutsidersHoldNothing ==
    \A u \in Users \ Escrowers : veBalance[u] = 0 /\ users[u].amountLocked = 0

\* Version 1.0 lets go of locked balances; nothing it locked was promised.
FirstVersionLocks ==
    impl.veDEG = 1 => \A u \in Users : locked[u] = 0 \/ <<"locks", u>> \in waived

IInv ==
    /\ VeTyped /\ DepositsAffordable /\ OutsidersHoldNothing /\ FirstVersionLocks
    /\ LocksWithinBalance /\ LockedDepositCovered /\ BalanceWithinCap

(***************************************************************************)
(* Arithmetic                                                              *)
(***************************************************************************)
LEMMA DivNat == ASSUME NEW a \in Nat, NEW b \in Nat \ {0} PROVE a \div b \in Nat
  BY Z3

LEMMA TimesNat == ASSUME NEW a \in Nat, NEW b \in Nat PROVE a * b \in Nat
  OBVIOUS

\* A tenth of the ratio that a boost makes of 10.
Tenths == [type \in 0 .. 2 |-> CASE type = 0 -> 10 [] type = 1 -> 12 [] type = 2 -> 15]
RatioOf(type) == (maxCapRatio * BoostFactor[type]) \div 100

\* Boosted ratios are whole multiples of a tenth of the owner's ratio.
LEMMA RatioInTenths ==
  ASSUME maxCapRatio \in Ratios, NEW type \in 0 .. 2
  PROVE  \E k \in Nat : maxCapRatio = 10 * k /\ RatioOf(type) = Tenths[type] * k
<1>1. PICK k \in Nat : maxCapRatio = 10 * k
  <2>1. Ratios \subseteq {10 * n : n \in 1 .. 100}  BY VeDEGAssumption
  <2>2. maxCapRatio \in {10 * n : n \in 1 .. 100}  BY <2>1
  <2>3. \E n \in 1 .. 100 : maxCapRatio = 10 * n  BY <2>2
  <2> QED  BY <2>3
<1>2. CASE type = 0
  <2>1. BoostFactor[type] = 100 /\ Tenths[type] = 10  BY <1>2 DEF BoostFactor, Tenths
  <2> QED  BY <1>1, <2>1 DEF RatioOf
<1>3. CASE type = 1
  <2>1. BoostFactor[type] = 120 /\ Tenths[type] = 12  BY <1>3 DEF BoostFactor, Tenths
  <2> QED  BY <1>1, <2>1 DEF RatioOf
<1>4. CASE type = 2
  <2>1. BoostFactor[type] = 150 /\ Tenths[type] = 15  BY <1>4 DEF BoostFactor, Tenths
  <2> QED  BY <1>1, <2>1 DEF RatioOf
<1> QED  BY <1>2, <1>3, <1>4

LEMMA RatioNat == ASSUME maxCapRatio \in Ratios, NEW type \in 0 .. 2 PROVE RatioOf(type) \in Nat
<1>1. Tenths[type] \in Nat  BY DEF Tenths
<1> QED  BY <1>1, RatioInTenths

Boosted(balance, type) == balance + (balance * (BoostFactor[type] - 100)) \div 100
Unboosted(balance, type) ==
    balance - (balance * (BoostFactor[type] - 100)) \div BoostFactor[type]

\* A boost raises a balance at least as much as it raises the ratio, also when
\* the balance was boosted before, and not more if it was not.
LEMMA BoostArithmetic ==
  ASSUME NEW b \in Nat, NEW p \in Nat, NEW old \in 0 .. 2, NEW type \in {1, 2}
  PROVE  /\ Boosted(b, type) \in Nat /\ Boosted(b, type) >= b
         /\ b >= Tenths[old] * p => Boosted(b, type) >= Tenths[type] * p
         /\ b <= Tenths[0] * p => Boosted(b, type) <= Tenths[type] * p
<1>0. Tenths[0] = 10 /\ Tenths[1] = 12 /\ Tenths[2] = 15  BY DEF Tenths
<1>1. Tenths[old] >= 10 /\ Tenths[old] \in Nat  BY DEF Tenths
<1>2. CASE type = 1
  <2>1. BoostFactor[type] - 100 = 20  BY <1>2 DEF BoostFactor
  <2>2. Boosted(b, type) = b + (b * 20) \div 100  BY <2>1 DEF Boosted
  <2>3. b >= Tenths[old] * p => b >= 10 * p  BY <1>0
  <2> QED  BY <1>0, <1>2, <2>2, <2>3
<1>3. CASE type = 2
  <2>1. BoostFactor[type] - 100 = 50  BY <1>3 DEF BoostFactor
  <2>2. Boosted(b, type) = b + (b * 50) \div 100  BY <2>1 DEF Boosted
  <2>3. b >= Tenths[old] * p => b >= 10 * p  BY <1>0
  <2> QED  BY <1>0, <1>3, <2>2, <2>3
<1> QED  BY <1>2, <1>3

\* The end of a boost takes a balance back in the proportion of the ratios.
LEMMA UnboostArithmetic ==
  ASSUME NEW b \in Nat, NEW p \in Nat, NEW type \in {1, 2}
  PROVE  /\ Unboosted(b, type) \in Nat
         /\ b >= Tenths[type] * p => Unboosted(b, type) >= Tenths[0] * p
         /\ b <= Tenths[type] * p => Unboosted(b, type) <= Tenths[0] * p
<1>0. Tenths[0] = 10 /\ Tenths[1] = 12 /\ Tenths[2] = 15  BY DEF Tenths
<1>1. CASE type = 1
  <2>1. BoostFactor[type] = 120  BY <1>1 DEF BoostFactor
  <2>2. Unboosted(b, type) = b - (b * 20) \div 120  BY <2>1 DEF Unboosted
  <2> QED  BY <1>0, <1>1, <2>2
<1>2. CASE type = 2
  <2>1. BoostFactor[type] = 150  BY <1>2 DEF BoostFactor
  <2>2. Unboosted(b, type) = b - (b * 50) \div 150  BY <2>1 DEF Unboosted
  <2> QED  BY <1>0, <1>2, <2>2
<1> QED  BY <1>1, <1>2

(***************************************************************************)
(* One user at a time                                                      *)
(***************************************************************************)
\* The three promises to a user, about his balance, deposit, lock and boost.
Covers(balance, deposited, type) == balance >= deposited.amountLocked * RatioOf(type)
Within(balance, deposited, type) ==
    balance <= (deposited.amount + deposited.amountLocked) * RatioOf(type)
Promised(u, balance, deposited, lock, type) ==
    /\ <<"deposit", u>> \in waived' \/ Covers(balance, deposited, type)
    /\ <<"cap", u>> \in waived' \/ Within(balance, deposited, type)
    /\ <<"locks", u>> \in waived' \/ lock <= balance

LEMMA RatioIs == ASSUME NEW u \in Users PROVE _getCapRatio(u) = RatioOf(boosted[u])
  BY DEF _getCapRatio, RatioOf

\* What the invariant says of one user.
LEMMA PromisesOf ==
  ASSUME IInv, NEW u \in Users
  PROVE  /\ veBalance[u] \in Nat /\ users[u] \in DepositType /\ locked[u] \in Nat
         /\ boosted[u] \in 0 .. 2 /\ RatioOf(boosted[u]) \in Nat
         /\ users[u].amount \in Nat /\ users[u].amountLocked \in Nat
         /\ users[u].amountLocked * RatioOf(boosted[u]) \in Nat
         /\ Flexible(u) = veBalance[u] - users[u].amountLocked * RatioOf(boosted[u])
         /\ <<"deposit", u>> \in waived \/ Covers(veBalance[u], users[u], boosted[u])
         /\ <<"cap", u>> \in waived \/ Within(veBalance[u], users[u], boosted[u])
         /\ <<"locks", u>> \in waived \/ locked[u] <= veBalance[u]
<1>1. VeTyped  BY DEF IInv
<1>2. /\ veBalance[u] \in Nat /\ users[u] \in DepositType /\ locked[u] \in Nat
      /\ boosted[u] \in 0 .. 2 /\ maxCapRatio \in Ratios
  BY <1>1 DEF VeTyped
<1>3. RatioOf(boosted[u]) \in Nat  BY <1>2, RatioNat
<1>4. users[u].amount \in Nat /\ users[u].amountLocked \in Nat  BY <1>2 DEF DepositType
<1>5. users[u].amountLocked * RatioOf(boosted[u]) \in Nat  BY <1>3, <1>4, TimesNat
<1>6. Flexible(u) = veBalance[u] - users[u].amountLocked * RatioOf(boosted[u])
  BY RatioIs DEF Flexible
<1>7. <<"deposit", u>> \in waived \/ Flexible(u) >= 0  BY DEF IInv, LockedDepositCovered
<1>8. <<"deposit", u>> \in waived \/ Covers(veBalance[u], users[u], boosted[u])
  <2>1. Flexible(u) >= 0 => veBalance[u] >= users[u].amountLocked * RatioOf(boosted[u])
    BY <1>2, <1>5, <1>6
  <2> QED  BY <1>7, <2>1 DEF Covers
<1>9. \/ <<"cap", u>> \in waived
      \/ veBalance[u] <= (users[u].amount + users[u].amountLocked) * RatioOf(boosted[u])
  BY RatioIs DEF IInv, BalanceWithinCap
<1>10. <<"locks", u>> \in waived \/ locked[u] <= veBalance[u]
  BY DEF IInv, LocksWithinBalance
<1> QED  BY <1>2, <1>3, <1>4, <1>5, <1>6, <1>8, <1>9, <1>10 DEF Within

\* A step that changes what one escrower has, keeps the ratio and lets nobody
\* else out of a promise keeps the invariant if it keeps that one's promises.
LEMMA OneUser ==
  ASSUME IInv, NEW u \in Escrowers,
         NEW balance \in Nat, NEW deposited \in DepositType, NEW lock \in Nat, NEW type \in 0 .. 2,
         veBalance' = [veBalance EXCEPT ![u] = balance],
         users' = [users EXCEPT ![u] = deposited],
         locked' = [locked EXCEPT ![u] = lock],
         boosted' = [boosted EXCEPT ![u] = type],
         maxCapRatio' = maxCapRatio, generationRate' = generationRate,
         now' = now, impl' = impl, waived \subseteq waived',
         deposited.amount + deposited.amountLocked <= InitialDegis,
         impl.veDEG = 1 => lock = 0 \/ <<"locks", u>> \in waived',
         Promised(u, balance, deposited, lock, type)
  PROVE  IInv'
<1>0. u \in Users  BY VeDEGAssumption
<1>1. VeTyped' 
  BY <1>0 DEF IInv, VeTyped
<1>2. ASSUME NEW v \in Users, v # u
      PROVE  /\ veBalance'[v] = veBalance[v] /\ users'[v] = users[v]
             /\ locked'[v] = locked[v] /\ boosted'[v] = boosted[v]
  BY <1>2 DEF IInv, VeTyped
<1>3. /\ veBalance'[u] = balance /\ users'[u] = deposited
      /\ locked'[u] = lock /\ boosted'[u] = type
  BY <1>0 DEF IInv, VeTyped
<1>4. DepositsAffordable'
  BY <1>2, <1>3 DEF IInv, DepositsAffordable
<1>5. OutsidersHoldNothing'
  BY <1>2 DEF IInv, OutsidersHoldNothing
<1>6. FirstVersionLocks'
  BY <1>2, <1>3 DEF IInv, FirstVersionLocks
<1>7. LocksWithinBalance'
  BY <1>2, <1>3 DEF IInv, LocksWithinBalance, Promised
<1>8. ASSUME NEW v \in Users
      PROVE  /\ _getCapRatio(v)' = (maxCapRatio * BoostFactor[boosted'[v]]) \div 100
             /\ Flexible(v)' = veBalance'[v] - users'[v].amountLocked * _getCapRatio(v)'
  BY DEF _getCapRatio, Flexible
<1>9. _getCapRatio(u)' = RatioOf(type)
  BY <1>0, <1>3, <1>8 DEF RatioOf
<1>10. ASSUME NEW v \in Users, v # u
       PROVE  _getCapRatio(v)' = _getCapRatio(v) /\ Flexible(v)' = Flexible(v)
  <2>1. _getCapRatio(v)' = _getCapRatio(v)  BY <1>2, <1>8, <1>10 DEF _getCapRatio
  <2> QED  BY <1>2, <1>8, <1>10, <2>1 DEF Flexible
<1>11. LockedDepositCovered'
  <2>1. ASSUME NEW v \in Users PROVE <<"deposit", v>> \in waived' \/ Flexible(v)' >= 0
    <3>1. CASE v = u
      <4>1. RatioOf(type) \in Nat  BY RatioNat DEF IInv, VeTyped
      <4>2. deposited.amountLocked \in Nat  BY DEF DepositType
      <4>3. deposited.amountLocked * RatioOf(type) \in Nat  BY <4>1, <4>2, TimesNat
      <4>4. Flexible(u)' = balance - deposited.amountLocked * RatioOf(type)
        BY <1>0, <1>3, <1>8, <1>9
      <4>5. Covers(balance, deposited, type) => Flexible(u)' >= 0
        BY <4>3, <4>4 DEF Covers
      <4> QED  BY <3>1, <4>5 DEF Promised
    <3>2. CASE v # u
      <4>1. <<"deposit", v>> \in waived \/ Flexible(v) >= 0  BY DEF IInv, LockedDepositCovered
      <4> QED  BY <1>10, <3>2, <4>1
    <3> QED  BY <3>1, <3>2
  <2> QED  BY <2>1 DEF LockedDepositCovered
<1>12. BalanceWithinCap'
  <2>1. ASSUME NEW v \in Users
        PROVE  \/ <<"cap", v>> \in waived'
               \/ veBalance'[v] <= (users'[v].amount + users'[v].amountLocked) * _getCapRatio(v)'
    <3>1. CASE v = u
      BY <1>3, <1>9, <3>1 DEF Promised, Within
    <3>2. CASE v # u
      <4>1. \/ <<"cap", v>> \in waived
            \/ veBalance[v] <= (users[v].amount + users[v].amountLocked) * _getCapRatio(v)
        BY DEF IInv, BalanceWithinCap
      <4> QED  BY <1>2, <1>10, <3>2, <4>1
    <3> QED  BY <3>1, <3>2
  <2> QED  BY <2>1 DEF BalanceWithinCap
<1> QED  BY <1>1, <1>4, <1>5, <1>6, <1>7, <1>11, <1>12 DEF IInv

(***************************************************************************)
(* Deposits and withdrawals                                                *)
(***************************************************************************)
LEMMA SameEntry == ASSUME NEW S, NEW f \in [Users -> S], NEW u \in Users
                   PROVE  f = [f EXCEPT ![u] = f[u]]
  OBVIOUS

LEMMA Distributes == ASSUME NEW a \in Nat, NEW b \in Nat, NEW c \in Nat
                     PROVE  (a + b) * c = a * c + b * c /\ c * a = a * c
  OBVIOUS

LEMMA Monotone == ASSUME NEW a \in Nat, NEW b \in Nat, NEW c \in Nat, a <= b
                  PROVE  a * c <= b * c
  OBVIOUS

\* What the actions of a user leave alone.
LEMMA Unchanged ==
  ASSUME IInv, NEW u \in Escrowers
  PROVE  /\ u \in Users /\ now \in Nat /\ impl.veDEG \in {1, 2}
         /\ maxCapRatio \in Nat /\ generationRate \in Nat \ {0}
         /\ veBalance = [veBalance EXCEPT ![u] = veBalance[u]]
         /\ users = [users EXCEPT ![u] = users[u]]
         /\ locked = [locked EXCEPT ![u] = locked[u]]
         /\ boosted = [boosted EXCEPT ![u] = boosted[u]]
         /\ users[u].amount + users[u].amountLocked <= InitialDegis
         /\ impl.veDEG = 1 => locked[u] = 0 \/ <<"locks", u>> \in waived
<1>0. u \in Users  BY VeDEGAssumption
<1>1. /\ veBalance \in [Users -> Nat] /\ users \in [Users -> DepositType]
      /\ locked \in [Users -> Nat] /\ boosted \in [Users -> 0 .. 2]
  BY DEF IInv, VeTyped
<1>2. maxCapRatio \in Nat
  <2>1. maxCapRatio \in Ratios  BY DEF IInv, VeTyped
  <2> QED  BY <2>1, RatioInTenths
<1>3. generationRate \in Nat \ {0} /\ now \in Nat /\ impl.veDEG \in {1, 2}
  BY VeDEGAssumption DEF IInv, VeTyped
<1>4. users[u].amount + users[u].amountLocked <= InitialDegis
  BY <1>0 DEF IInv, DepositsAffordable
<1>5. impl.veDEG = 1 => locked[u] = 0 \/ <<"locks", u>> \in waived
  BY <1>0 DEF IInv, FirstVersionLocks
<1> QED  BY <1>0, <1>1, <1>2, <1>3, <1>4, <1>5, SameEntry

LEMMA DivInt == ASSUME NEW a \in Int, NEW b \in Nat \ {0} PROVE a \div b \in Int
  BY Z3

LEMMA GeneratedInt ==
  ASSUME NEW u \in Users, now \in Nat, generationRate \in Nat \ {0},
         users[u] \in DepositType, boosted[u] \in 0 .. 2
  PROVE  Generated(u) \in Int
<1> DEFINE factor == BoostFactor[boosted[u]]
           passed == (now - users[u].lastRelease) * generationRate * factor
<1>1. factor \in Nat  BY DEF BoostFactor
<1>2. users[u].amount \in Nat /\ users[u].lastRelease \in Nat  BY DEF DepositType
<1>3. passed \in Int
  <2> HIDE DEF factor
  <2> QED  BY <1>1, <1>2
<1>4. passed \div 100 \in Int
  <2> HIDE DEF passed
  <2> QED  BY <1>3, DivInt
<1>5. WAD \div 2 \in Int /\ WAD \in Nat \ {0}  BY VeDEGAssumption, DivInt
<1>6. users[u].amount * (passed \div 100) + WAD \div 2 \in Int
  <2> HIDE DEF passed
  <2> QED  BY <1>2, <1>4, <1>5
<1>7. Generated(u) = (users[u].amount * (passed \div 100) + WAD \div 2) \div WAD
  BY DEF Generated, wmul
<1>8. (users[u].amount * (passed \div 100) + WAD \div 2) \div WAD \in Int
  <2> HIDE DEF passed
  <2> QED  BY <1>5, <1>6, DivInt
<1> QED  BY <1>7, <1>8

\* A claim mints no more than the flexible deposit lacks of its maximum.
LEMMA ClaimMints ==
  ASSUME IInv, NEW u \in Escrowers, _claim(u)
  PROVE  \E b \in Nat :
            /\ veBalance' = [veBalance EXCEPT ![u] = b] /\ b >= veBalance[u]
            /\ Within(veBalance[u], users[u], boosted[u]) => Within(b, users[u], boosted[u])
<1> DEFINE r == RatioOf(boosted[u])
           a == users[u].amount
           L == users[u].amountLocked
<1>0. u \in Users  BY Unchanged
<1>1. /\ veBalance[u] \in Nat /\ a \in Nat /\ L \in Nat /\ r \in Nat
      /\ boosted[u] \in 0 .. 2 /\ Flexible(u) = veBalance[u] - L * r
      /\ users[u] \in DepositType
  BY <1>0, PromisesOf
<1>2. a * r \in Nat /\ L * r \in Nat /\ (a + L) * r = a * r + L * r
  <2> HIDE DEF r, a, L
  <2> QED  BY <1>1, TimesNat, Distributes
<1>3. CASE claimable(u) > 0
  <2>1. claimable(u) = IF Flexible(u) < a * r THEN Least(Generated(u), a * r - Flexible(u)) ELSE 0
    BY <1>0, RatioIs DEF claimable
  <2>2. Generated(u) \in Int  BY <1>1, Unchanged, GeneratedInt
  <2>3. claimable(u) \in Nat /\ claimable(u) <= a * r - Flexible(u)
    <3> HIDE DEF r, a, L
    <3> QED  BY <1>1, <1>2, <1>3, <2>1, <2>2 DEF Least
  <2>4. veBalance' = [veBalance EXCEPT ![u] = veBalance[u] + claimable(u)]
    BY <1>3 DEF _claim, _mint, SetBalance
  <2>5. veBalance[u] + claimable(u) \in Nat /\ veBalance[u] + claimable(u) >= veBalance[u]
    BY <1>1, <2>3
  <2>6. veBalance[u] + claimable(u) <= (a + L) * r
    <3> HIDE DEF r, a, L
    <3> QED  BY <1>1, <1>2, <2>3
  <2>7. Within(veBalance[u] + claimable(u), users[u], boosted[u])
    BY <2>6 DEF Within
  <2> QED  BY <2>4, <2>5, <2>7
<1>4. CASE ~ claimable(u) > 0
  <2>1. veBalance' = veBalance  BY <1>4 DEF _claim
  <2>2. veBalance' = [veBalance EXCEPT ![u] = veBalance[u]]  BY <2>1, Unchanged
  <2>3. veBalance[u] >= veBalance[u]  BY <1>1
  <2> QED  BY <1>1, <2>2, <2>3
<1> QED  BY <1>3, <1>4

LEMMA DepositKeeps ==
  ASSUME IInv, NEW u \in Escrowers, NEW amount \in DegisAmounts, deposit(u, amount)
  PROVE  IInv'
<1> DEFINE r == RatioOf(boosted[u])
           deposited == [users[u] EXCEPT !.amount = @ + amount, !.lastRelease = now]
<1>1. u \in Users /\ amount \in Nat  BY Unchanged, VeDEGAssumption
<1>2. PICK b \in Nat :
         /\ veBalance' = [veBalance EXCEPT ![u] = b] /\ b >= veBalance[u]
         /\ Within(veBalance[u], users[u], boosted[u]) => Within(b, users[u], boosted[u])
  <2>1. CASE users[u].amount > 0  BY <2>1, ClaimMints DEF deposit
  <2>2. CASE ~ users[u].amount > 0
    <3>1. veBalance' = [veBalance EXCEPT ![u] = veBalance[u]]  BY <2>2, Unchanged DEF deposit
    <3>2. veBalance[u] \in Nat  BY <1>1, PromisesOf
    <3>3. veBalance[u] >= veBalance[u]  BY <3>2
    <3> QED  BY <3>1, <3>2, <3>3
  <2> QED  BY <2>1, <2>2
<1>3. /\ veBalance[u] \in Nat /\ users[u] \in DepositType /\ locked[u] \in Nat
      /\ r \in Nat /\ users[u].amount \in Nat /\ users[u].amountLocked \in Nat
      /\ users[u].amountLocked * r \in Nat /\ boosted[u] \in 0 .. 2
  BY <1>1, PromisesOf
<1>4. /\ deposited \in DepositType /\ deposited.amountLocked = users[u].amountLocked
      /\ deposited.amount = users[u].amount + amount
  <2>1. now \in Nat  BY Unchanged
  <2>2. PICK a \in Nat : a = users[u].amount + amount  BY <1>1, <1>3
  <2>3. PICK d \in DepositType : d = users[u]  BY <1>3
  <2>4. deposited = [d EXCEPT !.amount = a, !.lastRelease = now]  BY <2>2, <2>3
  <2> HIDE DEF deposited
  <2>5. deposited \in DepositType /\ deposited.amount = a /\ deposited.amountLocked = d.amountLocked
    BY <2>1, <2>4 DEF DepositType
  <2> QED  BY <2>2, <2>3, <2>5
<1>5. deposited.amount + deposited.amountLocked <= InitialDegis
  BY <1>1, <1>3, <1>4 DEF deposit, Affordable
<1>6. users' = [users EXCEPT ![u] = deposited]
  BY <1>1 DEF deposit, IInv, VeTyped
<1>7. <<"deposit", u>> \in waived \/ Covers(b, deposited, boosted[u])
  <2>1. Covers(veBalance[u], users[u], boosted[u]) => Covers(b, deposited, boosted[u])
    <3> HIDE DEF deposited
    <3> QED  BY <1>2, <1>3, <1>4 DEF Covers
  <2> QED  BY <1>1, <2>1, PromisesOf
<1>8. <<"cap", u>> \in waived \/ Within(b, deposited, boosted[u])
  <2>1. (users[u].amount + users[u].amountLocked) * r
           <= (deposited.amount + deposited.amountLocked) * r
    <3> HIDE DEF deposited, r
    <3>1. users[u].amount + users[u].amountLocked <= deposited.amount + deposited.amountLocked
      BY <1>1, <1>3, <1>4
    <3>2. /\ users[u].amount + users[u].amountLocked \in Nat
          /\ deposited.amount + deposited.amountLocked \in Nat
      BY <1>1, <1>3, <1>4
    <3> QED  BY <1>3, <3>1, <3>2, Monotone
  <2>2. Within(b, users[u], boosted[u]) => Within(b, deposited, boosted[u])
    <3>1. /\ (users[u].amount + users[u].amountLocked) * r \in Nat
          /\ (deposited.amount + deposited.amountLocked) * r \in Nat
      <4> HIDE DEF r, deposited
      <4> QED  BY <1>1, <1>3, <1>4
    <3> QED  BY <1>2, <2>1, <3>1 DEF Within
  <2> QED  BY <1>1, <1>2, <2>2, PromisesOf
<1>9. <<"locks", u>> \in waived \/ locked[u] <= b
  <2>1. locked[u] <= veBalance[u] => locked[u] <= b  BY <1>2, <1>3
  <2> QED  BY <1>1, <2>1, PromisesOf
<1>10. waived' = waived /\ locked' = locked /\ boosted' = boosted
       /\ maxCapRatio' = maxCapRatio /\ generationRate' = generationRate
       /\ now' = now /\ impl' = impl
  BY DEF deposit, SameOwner
<1>11. Promised(u, b, deposited, locked[u], boosted[u])
  BY <1>7, <1>8, <1>9, <1>10 DEF Promised
<1>12. /\ locked' = [locked EXCEPT ![u] = locked[u]]
       /\ boosted' = [boosted EXCEPT ![u] = boosted[u]]
       /\ impl.veDEG = 1 => locked[u] = 0 \/ <<"locks", u>> \in waived'
  BY <1>10, Unchanged
<1>13. waived \subseteq waived'  BY <1>10
<1> HIDE DEF deposited
<1> QED  BY <1>2, <1>3, <1>4, <1>5, <1>6, <1>10, <1>11, <1>12, <1>13, OneUser

LEMMA DepositMaxTimeKeeps ==
  ASSUME IInv, NEW u \in Escrowers, NEW amount \in DegisAmounts, depositMaxTime(u, amount)
  PROVE  IInv'
<1> DEFINE r == RatioOf(boosted[u])
           b == veBalance[u] + r * amount
           until == now + ((maxCapRatio * WAD) \div generationRate) * 2
           deposited == [users[u] EXCEPT !.amountLocked = @ + amount, !.lockUntil = until]
<1>1. u \in Users /\ amount \in Nat  BY Unchanged, VeDEGAssumption
<1>2. /\ veBalance[u] \in Nat /\ users[u] \in DepositType /\ locked[u] \in Nat
      /\ r \in Nat /\ users[u].amount \in Nat /\ users[u].amountLocked \in Nat
      /\ users[u].amountLocked * r \in Nat /\ boosted[u] \in 0 .. 2
  BY <1>1, PromisesOf
<1>3. r * amount \in Nat /\ amount * r = r * amount
  <2> HIDE DEF r
  <2> QED  BY <1>1, <1>2
<1>4. b \in Nat /\ b >= veBalance[u]
  <2>1. PICK x \in Nat : x = r * amount  BY <1>3
  <2> QED  BY <1>2, <2>1
<1>5. veBalance' = [veBalance EXCEPT ![u] = b]
  BY <1>1, RatioIs DEF depositMaxTime, _mint, SetBalance
<1>6. until \in Nat
  <2>1. maxCapRatio \in Nat /\ generationRate \in Nat \ {0} /\ now \in Nat /\ WAD \in Nat
    BY Unchanged, VeDEGAssumption
  <2>2. maxCapRatio * WAD \in Nat  BY <2>1
  <2>3. PICK x \in Nat : x = (maxCapRatio * WAD) \div generationRate  BY <2>1, <2>2, DivNat
  <2> QED  BY <2>1, <2>3
<1>7. /\ deposited \in DepositType /\ deposited.amount = users[u].amount
      /\ deposited.amountLocked = users[u].amountLocked + amount
  <2>1. PICK a \in Nat : a = users[u].amountLocked + amount  BY <1>1, <1>2
  <2>2. PICK d \in DepositType : d = users[u]  BY <1>2
  <2>3. deposited = [d EXCEPT !.amountLocked = a, !.lockUntil = until]  BY <2>1, <2>2
  <2> HIDE DEF deposited, until
  <2>4. deposited \in DepositType /\ deposited.amount = d.amount /\ deposited.amountLocked = a
    BY <1>6, <2>3 DEF DepositType
  <2> QED  BY <2>1, <2>2, <2>4
<1>8. deposited.amount + deposited.amountLocked <= InitialDegis
  <2> HIDE DEF deposited
  <2> QED  BY <1>1, <1>2, <1>7, VeDEGAssumption DEF depositMaxTime, Affordable
<1>9. users' = [users EXCEPT ![u] = deposited]
  BY <1>1 DEF depositMaxTime, IInv, VeTyped
<1>10. deposited.amountLocked * r = users[u].amountLocked * r + r * amount
  <2> HIDE DEF deposited, r
  <2> QED  BY <1>1, <1>2, <1>3, <1>7, Distributes
<1>11. <<"deposit", u>> \in waived \/ Covers(b, deposited, boosted[u])
  <2>1. Covers(veBalance[u], users[u], boosted[u]) => Covers(b, deposited, boosted[u])
    <3> HIDE DEF deposited, r
    <3> QED  BY <1>2, <1>3, <1>10 DEF Covers, r
  <2> QED  BY <1>1, <2>1, PromisesOf
<1>12. <<"cap", u>> \in waived \/ Within(b, deposited, boosted[u])
  <2>1. (deposited.amount + deposited.amountLocked) * r
           = (users[u].amount + users[u].amountLocked) * r + r * amount
    <3> HIDE DEF deposited, r
    <3> QED  BY <1>1, <1>2, <1>3, <1>7, Distributes
  <2>2. (users[u].amount + users[u].amountLocked) * r \in Nat
    <3> HIDE DEF r
    <3> QED  BY <1>2
  <2>3. Within(veBalance[u], users[u], boosted[u]) => Within(b, deposited, boosted[u])
    <3> HIDE DEF deposited, r
    <3> QED  BY <1>2, <1>3, <2>1, <2>2 DEF Within, r
  <2> QED  BY <1>1, <2>3, PromisesOf
<1>13. <<"locks", u>> \in waived \/ locked[u] <= b
  <2>1. locked[u] <= veBalance[u] => locked[u] <= b
    <3> HIDE DEF b
    <3> QED  BY <1>2, <1>4
  <2> QED  BY <1>1, <2>1, PromisesOf
<1>14. waived' = waived /\ locked' = locked /\ boosted' = boosted
       /\ maxCapRatio' = maxCapRatio /\ generationRate' = generationRate
       /\ now' = now /\ impl' = impl
  BY DEF depositMaxTime, SameOwner
<1>15. Promised(u, b, deposited, locked[u], boosted[u])
  BY <1>11, <1>12, <1>13, <1>14 DEF Promised
<1>16. /\ locked' = [locked EXCEPT ![u] = locked[u]]
       /\ boosted' = [boosted EXCEPT ![u] = boosted[u]]
       /\ impl.veDEG = 1 => locked[u] = 0 \/ <<"locks", u>> \in waived'
  BY <1>14, Unchanged
<1>17. waived \subseteq waived'  BY <1>14
<1> HIDE DEF deposited, b
<1> QED  BY <1>2, <1>4, <1>5, <1>7, <1>8, <1>9, <1>14, <1>15, <1>16, <1>17, OneUser

LEMMA ClaimKeeps == ASSUME IInv, NEW u \in Escrowers, claim(u) PROVE IInv'
<1> DEFINE deposited == [users[u] EXCEPT !.lastRelease = now]
<1>1. u \in Users /\ now \in Nat  BY Unchanged
<1>2. PICK b \in Nat :
         /\ veBalance' = [veBalance EXCEPT ![u] = b] /\ b >= veBalance[u]
         /\ Within(veBalance[u], users[u], boosted[u]) => Within(b, users[u], boosted[u])
  BY ClaimMints DEF claim
<1>3. /\ veBalance[u] \in Nat /\ users[u] \in DepositType /\ locked[u] \in Nat
      /\ users[u].amount \in Nat /\ users[u].amountLocked \in Nat
      /\ users[u].amountLocked * RatioOf(boosted[u]) \in Nat /\ boosted[u] \in 0 .. 2
  BY <1>1, PromisesOf
<1>4. /\ deposited \in DepositType /\ deposited.amount = users[u].amount
      /\ deposited.amountLocked = users[u].amountLocked
  BY <1>1, <1>3 DEF DepositType
<1>5. deposited.amount + deposited.amountLocked <= InitialDegis
  BY <1>4, Unchanged
<1>6. users' = [users EXCEPT ![u] = deposited]
  BY <1>1 DEF claim, IInv, VeTyped
<1> HIDE DEF deposited
<1>7. Promised(u, b, deposited, locked[u], boosted[u])
  <2>1. waived' = waived  BY DEF claim
  <2>2. Covers(veBalance[u], users[u], boosted[u]) => Covers(b, deposited, boosted[u])
    BY <1>2, <1>3, <1>4 DEF Covers
  <2>3. Within(veBalance[u], users[u], boosted[u]) => Within(b, deposited, boosted[u])
    BY <1>2, <1>4 DEF Within
  <2>4. locked[u] <= veBalance[u] => locked[u] <= b  BY <1>2, <1>3
  <2> QED  BY <1>1, <2>1, <2>2, <2>3, <2>4, PromisesOf DEF Promised
<1>8. waived' = waived /\ locked' = locked /\ boosted' = boosted
      /\ maxCapRatio' = maxCapRatio /\ generationRate' = generationRate
      /\ now' = now /\ impl' = impl
  BY DEF claim, SameOwner
<1>9. /\ locked' = [locked EXCEPT ![u] = locked[u]]
      /\ boosted' = [boosted EXCEPT ![u] = boosted[u]]
      /\ impl.veDEG = 1 => locked[u] = 0 \/ <<"locks", u>> \in waived'
  BY <1>8, Unchanged
<1>10. waived \subseteq waived'  BY <1>8
<1>11. veBalance' = [veBalance EXCEPT ![u] = b]  BY <1>2
<1>12. deposited \in DepositType /\ locked[u] \in Nat /\ boosted[u] \in 0 .. 2  BY <1>3, <1>4
<1> QED  BY <1>5, <1>6, <1>7, <1>8, <1>9, <1>10, <1>11, <1>12, OneUser

\* Nothing is burned while something is locked, unless nothing was promised.
LEMMA NothingLocked ==
  ASSUME IInv, NEW u \in Escrowers, noLocked(u)
  PROVE  locked[u] = 0 \/ <<"locks", u>> \in waived
  BY Unchanged DEF noLocked

LEMMA WithdrawKeeps ==
  ASSUME IInv, NEW u \in Escrowers, NEW amount \in DegisAmounts, withdrawDegis(u, amount)
  PROVE  IInv'
<1> DEFINE r == RatioOf(boosted[u])
           b == users[u].amountLocked * r
           deposited == [users[u] EXCEPT !.amount = @ - amount, !.lastRelease = now]
<1>1. u \in Users /\ amount \in Nat /\ now \in Nat  BY Unchanged, VeDEGAssumption
<1>2. /\ veBalance[u] \in Nat /\ users[u] \in DepositType /\ locked[u] \in Nat
      /\ r \in Nat /\ users[u].amount \in Nat /\ users[u].amountLocked \in Nat
      /\ b \in Nat /\ boosted[u] \in 0 .. 2 /\ Flexible(u) = veBalance[u] - b
  BY <1>1, PromisesOf
<1>3. veBalance' = [veBalance EXCEPT ![u] = b]
  <2>1. veBalance' = [veBalance EXCEPT ![u] = veBalance[u] - Flexible(u)]
    BY DEF withdrawDegis, _burn, SetBalance
  <2>2. veBalance[u] - Flexible(u) = b
    <3> HIDE DEF b
    <3> QED  BY <1>2
  <2> QED  BY <2>1, <2>2
<1>4. users[u].amount >= amount  BY DEF withdrawDegis
<1>5. /\ deposited \in DepositType /\ deposited.amount = users[u].amount - amount
      /\ deposited.amountLocked = users[u].amountLocked
  <2>1. PICK a \in Nat : a = users[u].amount - amount  BY <1>1, <1>2, <1>4
  <2>2. PICK d \in DepositType : d = users[u]  BY <1>2
  <2>3. deposited = [d EXCEPT !.amount = a, !.lastRelease = now]  BY <2>1, <2>2
  <2> HIDE DEF deposited
  <2>4. deposited \in DepositType /\ deposited.amount = a /\ deposited.amountLocked = d.amountLocked
    BY <1>1, <2>3 DEF DepositType
  <2> QED  BY <2>1, <2>2, <2>4
<1>6. users' = [users EXCEPT ![u] = deposited]
  BY <1>1 DEF withdrawDegis, IInv, VeTyped
<1> HIDE DEF deposited
<1>7. deposited.amount + deposited.amountLocked <= InitialDegis
  <2>1. users[u].amount + users[u].amountLocked <= InitialDegis /\ InitialDegis \in Nat
    BY Unchanged, VeDEGAssumption
  <2> HIDE DEF b
  <2> QED  BY <1>1, <1>2, <1>5, <2>1
<1>8. Covers(b, deposited, boosted[u])
  BY <1>2, <1>5 DEF Covers
<1>9. Within(b, deposited, boosted[u])
  <2>1. deposited.amount \in Nat  BY <1>1, <1>2, <1>4, <1>5
  <2>2. users[u].amountLocked <= deposited.amount + users[u].amountLocked  BY <1>2, <2>1
  <2>3. deposited.amount + users[u].amountLocked \in Nat  BY <1>2, <2>1
  <2>4. b <= (deposited.amount + users[u].amountLocked) * r
    <3> HIDE DEF r
    <3> QED  BY <1>2, <2>2, <2>3, Monotone
  <2> QED  BY <1>5, <2>4 DEF Within
<1>10. <<"locks", u>> \in waived \/ locked[u] <= b
  <2>1. noLocked(u)  BY DEF withdrawDegis
  <2>2. locked[u] = 0 => locked[u] <= b
    <3> HIDE DEF b
    <3> QED  BY <1>2
  <2> QED  BY <2>1, <2>2, NothingLocked
<1>11. waived' = waived /\ locked' = locked /\ boosted' = boosted
       /\ maxCapRatio' = maxCapRatio /\ generationRate' = generationRate
       /\ now' = now /\ impl' = impl
  BY DEF withdrawDegis, SameOwner
<1>12. Promised(u, b, deposited, locked[u], boosted[u])
  BY <1>8, <1>9, <1>10, <1>11 DEF Promised
<1>13. /\ locked' = [locked EXCEPT ![u] = locked[u]]
       /\ boosted' = [boosted EXCEPT ![u] = boosted[u]]
       /\ impl.veDEG = 1 => locked[u] = 0 \/ <<"locks", u>> \in waived'
  BY <1>11, Unchanged
<1>14. waived \subseteq waived'  BY <1>11
<1> HIDE DEF b
<1> QED  BY <1>2, <1>3, <1>5, <1>6, <1>7, <1>11, <1>12, <1>13, <1>14, OneUser

LEMMA WithdrawLockedKeeps == ASSUME IInv, NEW u \in Escrowers, withdrawLocked(u) PROVE IInv'
<1> DEFINE r == RatioOf(boosted[u])
           L == users[u].amountLocked
           b == veBalance[u] - L * r
           deposited == [users[u] EXCEPT !.amountLocked = 0, !.lockUntil = 0]
<1>1. u \in Users  BY Unchanged
<1>2. /\ veBalance[u] \in Nat /\ users[u] \in DepositType /\ locked[u] \in Nat
      /\ r \in Nat /\ users[u].amount \in Nat /\ L \in Nat
      /\ L * r \in Nat /\ boosted[u] \in 0 .. 2
  BY <1>1, PromisesOf
<1>3. L * r <= veBalance[u] /\ veBalance' = [veBalance EXCEPT ![u] = b]
  BY <1>1, RatioIs DEF withdrawLocked, _burn, SetBalance
<1>4. b \in Nat
  <2> HIDE DEF r, L
  <2> QED  BY <1>2, <1>3
<1>5. /\ deposited \in DepositType /\ deposited.amount = users[u].amount
      /\ deposited.amountLocked = 0
  BY <1>2 DEF DepositType
<1>6. users' = [users EXCEPT ![u] = deposited]
  BY <1>1 DEF withdrawLocked, IInv, VeTyped
<1> HIDE DEF deposited
<1>7. deposited.amount + deposited.amountLocked <= InitialDegis
  <2>1. users[u].amount + L <= InitialDegis /\ InitialDegis \in Nat  BY Unchanged, VeDEGAssumption
  <2> HIDE DEF L
  <2> QED  BY <1>2, <1>5, <2>1
<1>8. Covers(b, deposited, boosted[u])
  <2>1. 0 * r = 0
    <3> HIDE DEF r
    <3> QED  BY <1>2
  <2> HIDE DEF b
  <2> QED  BY <1>4, <1>5, <2>1 DEF Covers
<1>9. <<"cap", u>> \in waived \/ Within(b, deposited, boosted[u])
  <2>1. veBalance[u] <= (users[u].amount + L) * r => b <= (users[u].amount + 0) * r
    <3>1. (users[u].amount + L) * r = users[u].amount * r + L * r /\ users[u].amount * r \in Nat
      <4> HIDE DEF r, L
      <4> QED  BY <1>2, Distributes, TimesNat
    <3>2. (users[u].amount + 0) * r = users[u].amount * r
      BY <1>2
    <3> HIDE DEF r, L
    <3> QED  BY <1>2, <1>3, <3>1, <3>2
  <2>2. Within(veBalance[u], users[u], boosted[u]) => Within(b, deposited, boosted[u])
    <3> HIDE DEF b
    <3> QED  BY <1>5, <2>1 DEF Within
  <2> QED  BY <1>1, <2>2, PromisesOf
<1>10. <<"locks", u>> \in waived \/ locked[u] <= b
  <2>1. noLocked(u)  BY DEF withdrawLocked
  <2>2. locked[u] = 0 => locked[u] <= b
    <3> HIDE DEF b
    <3> QED  BY <1>4
  <2> QED  BY <2>1, <2>2, NothingLocked
<1>11. waived' = waived /\ locked' = locked /\ boosted' = boosted
       /\ maxCapRatio' = maxCapRatio /\ generationRate' = generationRate
       /\ now' = now /\ impl' = impl
  BY DEF withdrawLocked, SameOwner
<1>12. Promised(u, b, deposited, locked[u], boosted[u])
  BY <1>8, <1>9, <1>10, <1>11 DEF Promised
<1>13. /\ locked' = [locked EXCEPT ![u] = locked[u]]
       /\ boosted' = [boosted EXCEPT ![u] = boosted[u]]
       /\ impl.veDEG = 1 => locked[u] = 0 \/ <<"locks", u>> \in waived'
  BY <1>11, Unchanged
<1>14. waived \subseteq waived'  BY <1>11
<1> HIDE DEF b
<1> QED  BY <1>2, <1>3, <1>4, <1>5, <1>6, <1>7, <1>11, <1>12, <1>13, <1>14, OneUser

(***************************************************************************)
(* Whitelisted contracts                                                   *)
(***************************************************************************)
\* A lock or an unlock keeps the promises if the new lock does.
LEMMA LocksKeep ==
  ASSUME IInv, NEW u \in Escrowers, NEW lock \in Nat,
         locked' = [locked EXCEPT ![u] = lock],
         veBalance' = veBalance, users' = users, boosted' = boosted,
         maxCapRatio' = maxCapRatio, generationRate' = generationRate,
         now' = now, impl' = impl, waived \subseteq waived',
         impl.veDEG = 1 => <<"locks", u>> \in waived',
         <<"locks", u>> \in waived' \/ lock <= veBalance[u]
  PROVE  IInv'
<1>1. u \in Users  BY Unchanged
<1>2. veBalance[u] \in Nat /\ users[u] \in DepositType /\ boosted[u] \in 0 .. 2
  BY <1>1, PromisesOf
<1>3. Promised(u, veBalance[u], users[u], lock, boosted[u])
  BY <1>1, PromisesOf DEF Promised
<1>4. /\ veBalance' = [veBalance EXCEPT ![u] = veBalance[u]]
      /\ users' = [users EXCEPT ![u] = users[u]]
      /\ boosted' = [boosted EXCEPT ![u] = boosted[u]]
      /\ users[u].amount + users[u].amountLocked <= InitialDegis
  BY Unchanged
<1> QED  BY <1>2, <1>3, <1>4, OneUser

LEMMA LockKeeps ==
  ASSUME IInv, NEW u \in Escrowers, NEW amount \in VeAmounts, lockVeDEG(u, amount)
  PROVE  IInv'
<1>1. /\ u \in Users /\ amount \in Nat /\ locked[u] \in Nat /\ impl.veDEG \in {1, 2}
  BY Unchanged, PromisesOf, VeDEGAssumption
<1>2. PICK lock \in Nat : lock = locked[u] + amount  BY <1>1
<1>3. locked' = [locked EXCEPT ![u] = lock]  BY <1>2 DEF lockVeDEG
<1>4. /\ veBalance' = veBalance /\ users' = users /\ boosted' = boosted
      /\ maxCapRatio' = maxCapRatio /\ generationRate' = generationRate
      /\ now' = now /\ impl' = impl
  BY DEF lockVeDEG, Appointed
<1>5. waived' = waived \cup ((IF impl.veDEG = 1 THEN {"locks"} ELSE {}) \X {u})
  BY DEF lockVeDEG, Waive
<1>6. waived \subseteq waived' /\ (impl.veDEG = 1 => <<"locks", u>> \in waived')
  BY <1>5
<1>7. impl.veDEG = 2 => lock <= veBalance[u]  BY <1>2 DEF lockVeDEG
<1> QED  BY <1>1, <1>3, <1>4, <1>6, <1>7, LocksKeep

LEMMA UnlockKeeps ==
  ASSUME IInv, NEW u \in Escrowers, NEW amount \in VeAmounts, unlockVeDEG(u, amount)
  PROVE  IInv'
<1>1. /\ u \in Users /\ amount \in Nat /\ locked[u] \in Nat /\ veBalance[u] \in Nat
      /\ impl.veDEG \in {1, 2}
  BY Unchanged, PromisesOf, VeDEGAssumption
<1>2. PICK lock \in Nat :
         /\ locked' = [locked EXCEPT ![u] = lock]
         /\ impl.veDEG = 2 => lock <= locked[u]
  <2>1. CASE impl.veDEG = 2
    <3>1. locked[u] >= amount /\ locked' = [locked EXCEPT ![u] = locked[u] - amount]
      BY <2>1 DEF unlockVeDEG
    <3>2. locked[u] - amount \in Nat /\ locked[u] - amount <= locked[u]  BY <1>1, <3>1
    <3> QED  BY <3>1, <3>2
  <2>2. CASE impl.veDEG = 1
    <3>1. locked' = [locked EXCEPT ![u] = locked[u] + amount]  BY <2>2 DEF unlockVeDEG
    <3>2. locked[u] + amount \in Nat  BY <1>1
    <3>3. impl.veDEG # 2  BY <2>2
    <3> QED  BY <3>1, <3>2, <3>3
  <2> QED  BY <1>1, <2>1, <2>2
<1>3. /\ veBalance' = veBalance /\ users' = users /\ boosted' = boosted
      /\ maxCapRatio' = maxCapRatio /\ generationRate' = generationRate
      /\ now' = now /\ impl' = impl
  BY DEF unlockVeDEG
<1>4. waived' = waived \cup ((IF impl.veDEG = 1 THEN {"locks"} ELSE {}) \X {u})
  BY DEF unlockVeDEG, Waive
<1>5. waived \subseteq waived' /\ (impl.veDEG = 1 => <<"locks", u>> \in waived')
  BY <1>4
<1>6. <<"locks", u>> \in waived' \/ lock <= veBalance[u]
  <2>1. <<"locks", u>> \in waived \/ locked[u] <= veBalance[u]  BY <1>1, PromisesOf
  <2> QED  BY <1>1, <1>2, <1>5, <2>1
<1> QED  BY <1>2, <1>3, <1>5, <1>6, LocksKeep

\* A step that changes one balance and boost, and sets promises aside.
LEMMA BalanceKeeps ==
  ASSUME IInv, NEW u \in Escrowers, NEW b \in Nat, NEW type \in 0 .. 2,
         veBalance' = [veBalance EXCEPT ![u] = b], boosted' = [boosted EXCEPT ![u] = type],
         users' = users, locked' = locked,
         maxCapRatio' = maxCapRatio, generationRate' = generationRate,
         now' = now, impl' = impl, waived \subseteq waived',
         Promised(u, b, users[u], locked[u], type)
  PROVE  IInv'
<1>1. users[u] \in DepositType /\ locked[u] \in Nat  BY Unchanged, PromisesOf
<1>2. /\ users' = [users EXCEPT ![u] = users[u]]
      /\ locked' = [locked EXCEPT ![u] = locked[u]]
      /\ users[u].amount + users[u].amountLocked <= InitialDegis
      /\ impl.veDEG = 1 => locked[u] = 0 \/ <<"locks", u>> \in waived'
  BY Unchanged
<1> QED  BY <1>1, <1>2, OneUser

LEMMA BurnKeeps ==
  ASSUME IInv, NEW u \in Escrowers, NEW amount \in VeAmounts, burnVeDEG(u, amount)
  PROVE  IInv'
<1>1. /\ u \in Users /\ amount \in Nat /\ veBalance[u] \in Nat /\ users[u] \in DepositType
      /\ boosted[u] \in 0 .. 2
      /\ (users[u].amount + users[u].amountLocked) * RatioOf(boosted[u]) \in Nat
  <2>1. /\ u \in Users /\ amount \in Nat /\ veBalance[u] \in Nat /\ users[u] \in DepositType
        /\ boosted[u] \in 0 .. 2
    BY Unchanged, PromisesOf, VeDEGAssumption
  <2>2. /\ users[u].amount \in Nat /\ users[u].amountLocked \in Nat
        /\ RatioOf(boosted[u]) \in Nat
    BY <2>1, PromisesOf
  <2>3. users[u].amount + users[u].amountLocked \in Nat  BY <2>2
  <2> QED  BY <2>1, <2>2, <2>3, TimesNat
<1>2. amount <= veBalance[u] /\ veBalance' = [veBalance EXCEPT ![u] = veBalance[u] - amount]
  BY DEF burnVeDEG, _burn, SetBalance
<1>3. PICK b \in Nat : b = veBalance[u] - amount  BY <1>1, <1>2
<1>4. /\ users' = users /\ locked' = locked /\ boosted' = boosted
      /\ maxCapRatio' = maxCapRatio /\ generationRate' = generationRate
      /\ now' = now /\ impl' = impl
  BY DEF burnVeDEG, Appointed
<1>5. /\ waived \subseteq waived'
      /\ <<"locks", u>> \in waived' /\ <<"deposit", u>> \in waived'
  BY DEF burnVeDEG, Waive
<1>6. Within(veBalance[u], users[u], boosted[u]) => Within(b, users[u], boosted[u])
  BY <1>1, <1>3 DEF Within
<1>7. Promised(u, b, users[u], locked[u], boosted[u])
  BY <1>1, <1>5, <1>6, PromisesOf DEF Promised
<1>8. boosted' = [boosted EXCEPT ![u] = boosted[u]]  BY <1>4, Unchanged
<1>9. veBalance' = [veBalance EXCEPT ![u] = b]  BY <1>2, <1>3
<1> QED  BY <1>1, <1>4, <1>5, <1>7, <1>8, <1>9, BalanceKeeps

(***************************************************************************)
(* Boosts                                                                  *)
(***************************************************************************)
\* What n DEGIS are given, counted in tenths of the owner's ratio.
LEMMA GivenInTenths ==
  ASSUME maxCapRatio \in Ratios, NEW n \in Nat
  PROVE  \E p \in Nat : \A type \in 0 .. 2 : n * RatioOf(type) = Tenths[type] * p
<1>1. PICK k \in Nat : maxCapRatio = 10 * k
  <2>1. 0 \in 0 .. 2  OBVIOUS
  <2> QED  BY <2>1, RatioInTenths
<1>2. ASSUME NEW type \in 0 .. 2 PROVE n * RatioOf(type) = Tenths[type] * (n * k)
  <2>1. PICK j \in Nat : maxCapRatio = 10 * j /\ RatioOf(type) = Tenths[type] * j
    BY RatioInTenths
  <2>2. j = k  BY <1>1, <2>1
  <2>3. Tenths[type] \in Nat  BY DEF Tenths
  <2>4. PICK t \in Nat : t = Tenths[type]  BY <2>3
  <2>5. n * (t * k) = t * (n * k)  BY <1>1, <2>4
  <2> QED  BY <2>1, <2>2, <2>4, <2>5
<1>3. n * k \in Nat  BY <1>1, TimesNat
<1> QED  BY <1>2, <1>3

LEMMA BoostKeeps ==
  ASSUME IInv, NEW u \in Escrowers, NEW type \in {1, 2}, boostVeDEG(u, type)
  PROVE  IInv'
<1> DEFINE old == boosted[u]
           L == users[u].amountLocked
           all == users[u].amount + L
           b == Boosted(veBalance[u], type)
<1>1. /\ u \in Users /\ veBalance[u] \in Nat /\ locked[u] \in Nat /\ old \in 0 .. 2
      /\ users[u].amount \in Nat /\ L \in Nat /\ maxCapRatio \in Ratios /\ type \in 0 .. 2
  <2>1. maxCapRatio \in Ratios  BY DEF IInv, VeTyped
  <2>2. u \in Users  BY Unchanged
  <2>3. /\ veBalance[u] \in Nat /\ locked[u] \in Nat /\ old \in 0 .. 2
        /\ users[u].amount \in Nat /\ L \in Nat
    BY <2>2, PromisesOf
  <2>4. type \in 0 .. 2  OBVIOUS
  <2> QED  BY <2>1, <2>2, <2>3, <2>4
<1>2. all \in Nat
  <2> HIDE DEF L
  <2> QED  BY <1>1
<1>3. b \in Nat /\ b >= veBalance[u]
  <2>1. 0 \in Nat  OBVIOUS
  <2> QED  BY <1>1, <2>1, BoostArithmetic
<1>4. veBalance' = [veBalance EXCEPT ![u] = b]
  <2>1. CASE veBalance[u] > 0
    BY <2>1 DEF boostVeDEG, _mint, SetBalance, Boosted
  <2>2. CASE ~ veBalance[u] > 0
    <3>1. veBalance[u] = 0 /\ veBalance' = veBalance  BY <1>1, <2>2 DEF boostVeDEG
    <3>2. b = 0
      <4>1. BoostFactor[type] - 100 \in {20, 50}  BY DEF BoostFactor
      <4>2. PICK x \in {20, 50} : x = BoostFactor[type] - 100  BY <4>1
      <4>3. 0 + (0 * x) \div 100 = 0  OBVIOUS
      <4> QED  BY <3>1, <4>2, <4>3 DEF Boosted
    <3> HIDE DEF b
    <3> QED  BY <3>1, <3>2, Unchanged
  <2> QED  BY <2>1, <2>2
<1>5. /\ users' = users /\ locked' = locked /\ boosted' = [boosted EXCEPT ![u] = type]
      /\ maxCapRatio' = maxCapRatio /\ generationRate' = generationRate
      /\ now' = now /\ impl' = impl
  BY DEF boostVeDEG, Appointed
<1>6. waived' = waived \cup ((IF boosted[u] # 0 THEN {"cap"} ELSE {}) \X {u})
  BY DEF boostVeDEG, Waive
<1>7. waived \subseteq waived' /\ (old # 0 => <<"cap", u>> \in waived')
  BY <1>6
<1>8. <<"deposit", u>> \in waived \/ Covers(b, users[u], type)
  <2>1. PICK p \in Nat : \A t \in 0 .. 2 : L * RatioOf(t) = Tenths[t] * p
    <3> HIDE DEF L
    <3> QED  BY <1>1, GivenInTenths
  <2>2. veBalance[u] >= Tenths[old] * p => b >= Tenths[type] * p
    BY <1>1, BoostArithmetic
  <2>3. Covers(veBalance[u], users[u], old) => Covers(b, users[u], type)
    <3> HIDE DEF b
    <3> QED  BY <1>1, <2>1, <2>2 DEF Covers
  <2> QED  BY <1>1, <2>3, PromisesOf
<1>9. <<"cap", u>> \in waived' \/ Within(b, users[u], type)
  <2>1. PICK p \in Nat : \A t \in 0 .. 2 : all * RatioOf(t) = Tenths[t] * p
    <3> HIDE DEF all
    <3> QED  BY <1>1, <1>2, GivenInTenths
  <2>2. 0 \in 0 .. 2  OBVIOUS
  <2>3. veBalance[u] <= Tenths[0] * p => b <= Tenths[type] * p
    BY <1>1, <2>2, BoostArithmetic
  <2>4. old = 0 /\ Within(veBalance[u], users[u], old) => Within(b, users[u], type)
    <3> HIDE DEF b
    <3> QED  BY <1>1, <2>1, <2>2, <2>3 DEF Within
  <2> QED  BY <1>1, <1>7, <2>4, PromisesOf
<1>10. <<"locks", u>> \in waived \/ locked[u] <= b
  <2>1. locked[u] <= veBalance[u] => locked[u] <= b
    <3> HIDE DEF b
    <3> QED  BY <1>1, <1>3
  <2> QED  BY <1>1, <2>1, PromisesOf
<1>11. Promised(u, b, users[u], locked[u], type)
  BY <1>7, <1>8, <1>9, <1>10 DEF Promised
<1> HIDE DEF b
<1> QED  BY <1>1, <1>3, <1>4, <1>5, <1>7, <1>11, BalanceKeeps

LEMMA UnBoostKeeps ==
  ASSUME IInv, NEW u \in Escrowers, unBoostVeDEG(u)
  PROVE  IInv'
<1> DEFINE type == boosted[u]
           L == users[u].amountLocked
           all == users[u].amount + L
           b == Unboosted(veBalance[u], type)
<1>1. /\ u \in Users /\ veBalance[u] \in Nat /\ locked[u] \in Nat /\ type \in 0 .. 2
      /\ users[u].amount \in Nat /\ L \in Nat /\ maxCapRatio \in Ratios
  BY Unchanged, PromisesOf DEF IInv, VeTyped
<1>2. type \in {1, 2} /\ locked[u] = 0
  BY <1>1 DEF unBoostVeDEG
<1>3. all \in Nat
  <2> HIDE DEF L
  <2> QED  BY <1>1
<1>4. b \in Nat
  <2>1. 0 \in Nat  OBVIOUS
  <2> QED  BY <1>1, <1>2, <2>1, UnboostArithmetic
<1>5. veBalance' = [veBalance EXCEPT ![u] = b]
  BY DEF unBoostVeDEG, _burn, SetBalance, Unboosted
<1>6. /\ users' = users /\ locked' = locked /\ boosted' = [boosted EXCEPT ![u] = 0]
      /\ maxCapRatio' = maxCapRatio /\ generationRate' = generationRate
      /\ now' = now /\ impl' = impl /\ waived' = waived
  BY DEF unBoostVeDEG, SameOwner
<1>7. <<"deposit", u>> \in waived \/ Covers(b, users[u], 0)
  <2>1. PICK p \in Nat : \A t \in 0 .. 2 : L * RatioOf(t) = Tenths[t] * p
    <3> HIDE DEF L
    <3> QED  BY <1>1, GivenInTenths
  <2>2. veBalance[u] >= Tenths[type] * p => b >= Tenths[0] * p
    BY <1>1, <1>2, UnboostArithmetic
  <2>3. L * RatioOf(type) = Tenths[type] * p /\ L * RatioOf(0) = Tenths[0] * p
    BY <1>1, <2>1
  <2>4. Covers(veBalance[u], users[u], type) => Covers(b, users[u], 0)
    <3> HIDE DEF b
    <3> QED  BY <2>2, <2>3 DEF Covers
  <2> QED  BY <1>1, <2>4, PromisesOf
<1>8. <<"cap", u>> \in waived \/ Within(b, users[u], 0)
  <2>1. PICK p \in Nat : \A t \in 0 .. 2 : all * RatioOf(t) = Tenths[t] * p
    <3> HIDE DEF all
    <3> QED  BY <1>1, <1>3, GivenInTenths
  <2>2. veBalance[u] <= Tenths[type] * p => b <= Tenths[0] * p
    BY <1>1, <1>2, UnboostArithmetic
  <2>3. all * RatioOf(type) = Tenths[type] * p /\ all * RatioOf(0) = Tenths[0] * p
    BY <1>1, <2>1
  <2>4. Within(veBalance[u], users[u], type) => Within(b, users[u], 0)
    <3> HIDE DEF b
    <3> QED  BY <2>2, <2>3 DEF Within
  <2> QED  BY <1>1, <2>4, PromisesOf
<1>9. locked[u] <= b
  <2> HIDE DEF b
  <2> QED  BY <1>2, <1>4
<1>10. Promised(u, b, users[u], locked[u], 0)
  BY <1>6, <1>7, <1>8, <1>9 DEF Promised
<1>11. 0 \in 0 .. 2 /\ waived \subseteq waived'  BY <1>6
<1> HIDE DEF b
<1> QED  BY <1>4, <1>5, <1>6, <1>10, <1>11, BalanceKeeps

(***************************************************************************)
(* The owner, and all that is not veDEG                                    *)
(***************************************************************************)
LEMMA RatioMonotone ==
  ASSUME NEW m \in Ratios, NEW n \in Ratios, m <= n, NEW type \in 0 .. 2
  PROVE  /\ (m * BoostFactor[type]) \div 100 \in Nat
         /\ (n * BoostFactor[type]) \div 100 \in Nat
         /\ (m * BoostFactor[type]) \div 100 <= (n * BoostFactor[type]) \div 100
<1>1. PICK i \in 1 .. 100 : m = 10 * i  BY VeDEGAssumption
<1>2. PICK j \in 1 .. 100 : n = 10 * j  BY VeDEGAssumption
<1>3. PICK f \in {100, 120, 150} : f = BoostFactor[type]  BY DEF BoostFactor
<1>4. m * f \in Nat /\ n * f \in Nat /\ m * f <= n * f  BY <1>1, <1>2
<1> QED  BY <1>3, <1>4

LEMMA RatioKeeps ==
  ASSUME IInv, NEW ratio \in Ratios, setMaxCapRatio(ratio)
  PROVE  IInv'
<1>1. /\ veBalance' = veBalance /\ users' = users /\ locked' = locked /\ boosted' = boosted
      /\ generationRate' = generationRate /\ now' = now /\ impl' = impl
      /\ maxCapRatio' = ratio /\ maxCapRatio \in Ratios
  BY DEF setMaxCapRatio, IInv, VeTyped
<1>2. /\ waived \subseteq waived'
      /\ ratio > maxCapRatio => \A u \in Escrowers : <<"deposit", u>> \in waived'
      /\ ~ ratio > maxCapRatio => \A u \in Escrowers : <<"cap", u>> \in waived'
  BY DEF setMaxCapRatio, Waive
<1>3. VeTyped' /\ DepositsAffordable' /\ OutsidersHoldNothing'
  BY <1>1 DEF IInv, VeTyped, DepositsAffordable, OutsidersHoldNothing
<1>4. FirstVersionLocks' /\ LocksWithinBalance'
  BY <1>1, <1>2 DEF IInv, FirstVersionLocks, LocksWithinBalance
<1>5. ASSUME NEW u \in Users
      PROVE  /\ <<"deposit", u>> \in waived' \/ Flexible(u)' >= 0
             /\ \/ <<"cap", u>> \in waived'
                \/ veBalance'[u] <= (users'[u].amount + users'[u].amountLocked) * _getCapRatio(u)'
  <2> DEFINE a == users[u].amount
             L == users[u].amountLocked
             r == _getCapRatio(u)
             q == (ratio * BoostFactor[boosted[u]]) \div 100
  <2>1. /\ veBalance[u] \in Nat /\ a \in Nat /\ L \in Nat /\ a + L \in Nat
        /\ boosted[u] \in 0 .. 2
    <3>1. veBalance[u] \in Nat /\ a \in Nat /\ L \in Nat /\ boosted[u] \in 0 .. 2  BY PromisesOf
    <3> HIDE DEF a, L
    <3> QED  BY <3>1
  <2>2. r = (maxCapRatio * BoostFactor[boosted[u]]) \div 100  BY DEF _getCapRatio
  <2>3. _getCapRatio(u)' = q  BY <1>1 DEF _getCapRatio
  <2>4. maxCapRatio \in Nat /\ ratio \in Nat  BY <1>1, VeDEGAssumption
  <2>5. /\ r \in Nat /\ q \in Nat
        /\ (ratio > maxCapRatio => r <= q) /\ (~ ratio > maxCapRatio => q <= r)
    <3>1. CASE ratio > maxCapRatio
      <4>1. maxCapRatio <= ratio  BY <2>4, <3>1
      <4> QED  BY <1>1, <2>1, <2>2, <3>1, <4>1, RatioMonotone
    <3>2. CASE ~ ratio > maxCapRatio
      <4>1. ratio <= maxCapRatio  BY <2>4, <3>2
      <4> QED  BY <1>1, <2>1, <2>2, <3>2, <4>1, RatioMonotone
    <3> QED  BY <3>1, <3>2
  <2>6. /\ Flexible(u)' = veBalance[u] - L * q
        /\ (users'[u].amount + users'[u].amountLocked) * _getCapRatio(u)' = (a + L) * q
        /\ veBalance'[u] = veBalance[u]
    BY <1>1, <2>3 DEF Flexible
  <2>7. Flexible(u) = veBalance[u] - L * r  BY DEF Flexible
  <2>8. /\ <<"deposit", u>> \in waived \/ Flexible(u) >= 0
        /\ <<"cap", u>> \in waived \/ veBalance[u] <= (a + L) * r
    BY DEF IInv, LockedDepositCovered, BalanceWithinCap
  <2>9. L * r \in Nat /\ L * q \in Nat /\ (a + L) * r \in Nat /\ (a + L) * q \in Nat
    <3> HIDE DEF a, L, r, q
    <3> QED  BY <2>1, <2>5, TimesNat
  <2>10. CASE u \notin Escrowers
    <3>1. veBalance[u] = 0 /\ L = 0  BY <2>10 DEF IInv, OutsidersHoldNothing
    <3>2. L * q = 0
      <4> HIDE DEF L, q
      <4> QED  BY <2>5, <3>1
    <3> HIDE DEF a, L, q
    <3> QED  BY <2>6, <2>9, <3>1, <3>2
  <2>11. CASE u \in Escrowers /\ ratio > maxCapRatio
    <3>1. <<"deposit", u>> \in waived'  BY <1>2, <2>11
    <3>2. (a + L) * r <= (a + L) * q
      <4>1. r <= q  BY <2>5, <2>11
      <4>2. PICK n \in Nat : n = a + L  BY <2>1
      <4> HIDE DEF a, L, r, q
      <4>3. r * n <= q * n  BY <2>5, <4>1, <4>2, Monotone
      <4>4. r * n = n * r /\ q * n = n * q  BY <2>5, <4>2
      <4> QED  BY <4>2, <4>3, <4>4
    <3>3. veBalance[u] <= (a + L) * r => veBalance[u] <= (a + L) * q
      <4> HIDE DEF a, L, r, q
      <4> QED  BY <2>1, <2>9, <3>2
    <3> QED  BY <1>2, <2>6, <2>8, <3>1, <3>3
  <2>12. CASE u \in Escrowers /\ ~ ratio > maxCapRatio
    <3>1. <<"cap", u>> \in waived'  BY <1>2, <2>12
    <3>2. L * q <= L * r
      <4>1. q <= r  BY <2>5, <2>12
      <4> HIDE DEF L, r, q
      <4>2. q * L <= r * L  BY <2>1, <2>5, <4>1, Monotone
      <4>3. q * L = L * q /\ r * L = L * r  BY <2>1, <2>5
      <4> QED  BY <4>2, <4>3
    <3>3. Flexible(u) >= 0 => Flexible(u)' >= 0
      <4> HIDE DEF L, r, q
      <4> QED  BY <2>1, <2>6, <2>7, <2>9, <3>2
    <3> QED  BY <1>2, <2>8, <3>1, <3>3
  <2> QED  BY <2>10, <2>11, <2>12
<1>6. LockedDepositCovered' /\ BalanceWithinCap'
  BY <1>5 DEF LockedDepositCovered, BalanceWithinCap
<1> QED  BY <1>3, <1>4, <1>6 DEF IInv

\* A step that leaves balances, deposits, boosts and the ratio alone.
LEMMA SameBalancesKeep ==
  ASSUME IInv, veBalance' = veBalance, users' = users, locked' = locked, boosted' = boosted,
         maxCapRatio' = maxCapRatio, waived' = waived,
         generationRate' \in Rates, now' \in Nat,
         impl' \in [farming : {1, 2}, veDEG : {1, 2}], impl'.veDEG = 1 => impl.veDEG = 1
  PROVE  IInv'
<1>1. VeTyped' /\ DepositsAffordable' /\ OutsidersHoldNothing' /\ FirstVersionLocks'
  BY DEF IInv, VeTyped, DepositsAffordable, OutsidersHoldNothing, FirstVersionLocks
<1>2. ASSUME NEW u \in Users
      PROVE  _getCapRatio(u)' = _getCapRatio(u) /\ Flexible(u)' = Flexible(u)
  <2>1. _getCapRatio(u)' = _getCapRatio(u)  BY DEF _getCapRatio
  <2> QED  BY <2>1 DEF Flexible
<1>3. LocksWithinBalance' /\ LockedDepositCovered' /\ BalanceWithinCap'
  BY <1>2 DEF IInv, LocksWithinBalance, LockedDepositCovered, BalanceWithinCap
<1> QED  BY <1>1, <1>3 DEF IInv

LEMMA FarmingKeeps == ASSUME IInv, FarmingNext \/ Tick, SameVeDEG PROVE IInv'
<1>1. /\ users' = users /\ locked' = locked /\ boosted' = boosted
      /\ maxCapRatio' = maxCapRatio /\ generationRate' = generationRate /\ waived' = waived
  BY DEF SameVeDEG
<1>2. /\ veBalance' = veBalance /\ now' \in Nat
      /\ impl' \in [farming : {1, 2}, veDEG : {1, 2}] /\ impl'.veDEG = impl.veDEG
  <2>1. now \in Nat /\ impl \in [farming : {1, 2}, veDEG : {1, 2}]  BY DEF IInv, VeTyped
  <2>2. CASE Tick  BY <2>1, <2>2 DEF Tick
  <2>3. CASE FarmingNext
    <3>1. ASSUME NEW u \in Users, NEW p \in PoolIds, NEW a \in LpAmounts,
                 stake(u, p, a) \/ withdraw(u, p, a)
          PROVE  veBalance' = veBalance /\ now' = now /\ impl' = impl
      BY <3>1 DEF stake, withdraw
    <3>2. ASSUME NEW u \in Users, NEW p \in PoolIds, harvest(u, p)
          PROVE  veBalance' = veBalance /\ now' = now /\ impl' = impl
      BY <3>2 DEF harvest
    <3>3. ASSUME NEW p \in PoolIds, NEW speed \in Speeds, NEW b \in BOOLEAN,
                 add(p, speed, b) \/ setDegisReward(p, speed, b)
          PROVE  veBalance' = veBalance /\ now' = now /\ impl' = impl
      BY <3>3 DEF add, setDegisReward
    <3>4. ASSUME NEW p \in PoolIds, NEW piece \in Pieces, setPiecewise(p, piece)
          PROVE  veBalance' = veBalance /\ now' = now /\ impl' = impl
      BY <3>4 DEF setPiecewise
    <3>5. ASSUME massUpdatePools \/ setVeDEG
          PROVE  veBalance' = veBalance /\ now' = now /\ impl' = impl
      BY <3>5 DEF massUpdatePools, setVeDEG
    <3>6. CASE upgradeFarming  BY <2>1, <3>6 DEF upgradeFarming
    <3>7. CASE veBalance' = veBalance /\ now' = now /\ impl' = impl  BY <2>1, <3>7
    <3>8. CASE \E p \in PoolIds, u \in Users :
                  (\E a \in LpAmounts : stake(u, p, a) \/ withdraw(u, p, a)) \/ harvest(u, p)
      BY <3>1, <3>2, <3>7, <3>8
    <3>9. CASE \E p \in PoolIds :
                  \/ updatePool(p)
                  \/ \E speed \in Speeds, all \in BOOLEAN :
                        add(p, speed, all) \/ setDegisReward(p, speed, all)
                  \/ \E piece \in Pieces : setPiecewise(p, piece)
      <4>1. PICK p \in PoolIds :
                  \/ updatePool(p)
                  \/ \E speed \in Speeds, all \in BOOLEAN :
                        add(p, speed, all) \/ setDegisReward(p, speed, all)
                  \/ \E piece \in Pieces : setPiecewise(p, piece)
        BY <3>9
      <4>2. CASE updatePool(p)  BY <3>7, <4>2 DEF updatePool
      <4>3. CASE \E speed \in Speeds, all \in BOOLEAN :
                    add(p, speed, all) \/ setDegisReward(p, speed, all)
        BY <3>3, <3>7, <4>3
      <4>4. CASE \E piece \in Pieces : setPiecewise(p, piece)  BY <3>4, <3>7, <4>4
      <4> QED  BY <4>1, <4>2, <4>3, <4>4
    <3> QED  BY <2>3, <3>5, <3>6, <3>7, <3>8, <3>9 DEF FarmingNext
  <2> QED  BY <2>2, <2>3
<1>3. generationRate' \in Rates  BY <1>1 DEF IInv, VeTyped
<1> QED  BY <1>1, <1>2, <1>3, SameBalancesKeep

LEMMA GenerationRateKeeps ==
  ASSUME IInv, NEW rate \in Rates, setGenerationRate(rate)
  PROVE  IInv'
<1>1. now \in Nat /\ impl \in [farming : {1, 2}, veDEG : {1, 2}]  BY DEF IInv, VeTyped
<1>2. /\ veBalance' = veBalance /\ users' = users /\ locked' = locked /\ boosted' = boosted
      /\ maxCapRatio' = maxCapRatio /\ waived' = waived /\ now' = now /\ impl' = impl
      /\ generationRate' = rate
  BY DEF setGenerationRate
<1> QED  BY <1>1, <1>2, SameBalancesKeep

LEMMA UpgradeKeeps == ASSUME IInv, upgradeVeDEG PROVE IInv'
<1>1. /\ now \in Nat /\ generationRate \in Rates
      /\ impl \in [farming : {1, 2}, veDEG : {1, 2}]
  BY DEF IInv, VeTyped
<1>2. /\ veBalance' = veBalance /\ users' = users /\ locked' = locked /\ boosted' = boosted
      /\ maxCapRatio' = maxCapRatio /\ waived' = waived /\ now' = now
      /\ generationRate' = generationRate /\ impl' = [impl EXCEPT !.veDEG = 2]
  BY DEF upgradeVeDEG, veVars
<1>3. impl' \in [farming : {1, 2}, veDEG : {1, 2}] /\ impl'.veDEG # 1  BY <1>1, <1>2
<1> QED  BY <1>1, <1>2, <1>3, SameBalancesKeep

(***************************************************************************)
(* The invariant                                                           *)
(***************************************************************************)
LEMMA InitEstablishes == Init => IInv
<1> SUFFICES ASSUME Init PROVE IInv  OBVIOUS
<1>1. /\ veBalance = [u \in Users |-> 0] /\ users = [u \in Users |-> NoDeposit]
      /\ locked = [u \in Users |-> 0] /\ boosted = [u \in Users |-> 0]
      /\ maxCapRatio = FirstRatio /\ generationRate = FirstRate
      /\ now = 1 /\ impl = [farming |-> 1, veDEG |-> 1]
  BY DEF Init, FarmingInit, VeDEGInit
<1>2. NoDeposit \in DepositType /\ NoDeposit.amount = 0 /\ NoDeposit.amountLocked = 0
  BY DEF NoDeposit, DepositType
<1>3. VeTyped  BY <1>1, <1>2, VeDEGAssumption DEF VeTyped
<1>4. DepositsAffordable  BY <1>1, <1>2, VeDEGAssumption DEF DepositsAffordable
<1>5. OutsidersHoldNothing /\ FirstVersionLocks /\ LocksWithinBalance
  BY <1>1, <1>2 DEF OutsidersHoldNothing, FirstVersionLocks, LocksWithinBalance
<1>6. ASSUME NEW u \in Users
      PROVE  /\ Flexible(u) >= 0
             /\ veBalance[u] <= (users[u].amount + users[u].amountLocked) * _getCapRatio(u)
  <2>1. _getCapRatio(u) \in Nat
    <3>1. boosted[u] \in 0 .. 2 /\ maxCapRatio \in Ratios  BY <1>3 DEF VeTyped
    <3> QED  BY <3>1, RatioNat, RatioIs
  <2>2. PICK r \in Nat : r = _getCapRatio(u)  BY <2>1
  <2>3. veBalance[u] = 0 /\ users[u].amount = 0 /\ users[u].amountLocked = 0  BY <1>1, <1>2
  <2>4. 0 * r = 0  BY <2>2
  <2> QED  BY <2>2, <2>3, <2>4 DEF Flexible
<1> QED  BY <1>3, <1>4, <1>5, <1>6 DEF IInv, LockedDepositCovered, BalanceWithinCap

LEMMA StepKeeps == IInv /\ [Next]_vars => IInv'
<1> SUFFICES ASSUME IInv, [Next]_vars PROVE IInv'  OBVIOUS
<1>1. CASE \E u \in Escrowers, a \in DegisAmounts :
              deposit(u, a) \/ depositMaxTime(u, a) \/ withdrawDegis(u, a)
  BY <1>1, DepositKeeps, DepositMaxTimeKeeps, WithdrawKeeps
<1>2. CASE \E u \in Escrowers, a \in VeAmounts :
              lockVeDEG(u, a) \/ unlockVeDEG(u, a) \/ burnVeDEG(u, a)
  BY <1>2, LockKeeps, UnlockKeeps, BurnKeeps
<1>3. CASE \E u \in Escrowers :
              \/ \E type \in {1, 2} : boostVeDEG(u, type)
              \/ claim(u) \/ withdrawLocked(u) \/ unBoostVeDEG(u)
  BY <1>3, BoostKeeps, ClaimKeeps, WithdrawLockedKeeps, UnBoostKeeps
<1>4. CASE \E ratio \in Ratios : setMaxCapRatio(ratio)  BY <1>4, RatioKeeps
<1>5. CASE \E rate \in Rates : setGenerationRate(rate)  BY <1>5, GenerationRateKeeps
<1>6. CASE upgradeVeDEG  BY <1>6, UpgradeKeeps
<1>7. CASE (FarmingNext \/ Tick) /\ SameVeDEG  BY <1>7, FarmingKeeps
<1>8. CASE UNCHANGED vars
  <2>1. /\ veBalance' = veBalance /\ users' = users /\ locked' = locked /\ boosted' = boosted
        /\ maxCapRatio' = maxCapRatio /\ waived' = waived /\ now' = now /\ impl' = impl
        /\ generationRate' = generationRate
    BY <1>8 DEF vars, farmingVars, veVars
  <2>2. /\ now \in Nat /\ generationRate \in Rates
        /\ impl \in [farming : {1, 2}, veDEG : {1, 2}]
    BY DEF IInv, VeTyped
  <2> QED  BY <2>1, <2>2, SameBalancesKeep
<1> QED  BY <1>1, <1>2, <1>3, <1>4, <1>5, <1>6, <1>7, <1>8 DEF Next, VeDEGNext

\* The promises hold in every reachable state, with the types they rest on.
THEOREM VeDEGInvariant == Spec => []IInv
<1> QED  BY InitEstablishes, StepKeeps, PTL DEF Spec

\* Balances, deposits and locks stay natural numbers and deposits affordable
\* through every sequence of deposits, withdrawals, boosts and upgrades.
THEOREM VeDEGTypeCorrect == Spec => []VeDEGTypeOK
<1>1. IInv => VeDEGTypeOK
  <2> SUFFICES ASSUME IInv, NEW u \in Users
               PROVE  /\ veBalance[u] \in Nat /\ locked[u] \in Nat /\ boosted[u] \in 0 .. 2
                      /\ \A f \in DOMAIN NoDeposit : users[u][f] \in Nat
                      /\ users[u].amount + users[u].amountLocked <= InitialDegis
    BY DEF VeDEGTypeOK
  <2>1. /\ veBalance[u] \in Nat /\ locked[u] \in Nat /\ boosted[u] \in 0 .. 2
        /\ users[u] \in DepositType
    BY PromisesOf
  <2>2. \A f \in DOMAIN NoDeposit : users[u][f] \in Nat
    BY <2>1 DEF NoDeposit, DepositType
  <2>3. users[u].amount + users[u].amountLocked <= InitialDegis
    BY DEF IInv, DepositsAffordable
  <2> QED  BY <2>1, <2>2, <2>3
<1> QED  BY <1>1, VeDEGInvariant, PTL

\* Unless the ratio was raised or a whitelisted contract burned, a balance
\* covers its owner's locked deposit: claim, deposit and the withdrawals never
\* fail at the subtraction, whatever boosts come and go.
THEOREM LockedDepositsCovered == Spec => []LockedDepositCovered
<1>1. IInv => LockedDepositCovered  BY DEF IInv
<1> QED  BY <1>1, VeDEGInvariant, PTL

\* Unless the ratio was lowered or a boosted balance boosted again, a balance
\* never exceeds the maximum for what its owner has deposited.
THEOREM BalancesWithinCap == Spec => []BalanceWithinCap
<1>1. IInv => BalanceWithinCap  BY DEF IInv
<1> QED  BY <1>1, VeDEGInvariant, PTL

\* What the present version locked is in the balance until a whitelisted
\* contract burns it or the first version's locks were used.
THEOREM LocksStayWithinBalance == Spec => []LocksWithinBalance
<1>1. IInv => LocksWithinBalance  BY DEF IInv
<1> QED  BY <1>1, VeDEGInvariant, PTL
=============================================================================
