------------------------- MODULE NaughtyCoreProofs -------------------------
(***************************************************************************)
(* The core of the naughty price product, for every set of policies,       *)
(* users, amounts, terms and prices.  First its money: types, as many      *)
(* policy tokens as quotas until the result is known, and a pot that holds *)
(* exactly what is owed.  Then its books: the result of a policy is final, *)
(* everyone with a quota is in the list that the distribution goes         *)
(* through, and what has been distributed is paid.                         *)
(***************************************************************************)
EXTENDS NaughtyCore, SumTheorems

(***************************************************************************)
(* Fees and ledgers                                                        *)
(***************************************************************************)
\* Accounts are finitely many.
LEMMA HoldersFinite == IsFiniteSet(Holders)
<1>1. IsFiniteSet(Users \cup OtherContracts)  BY FiniteAssumption, FS_Union
<1>2. Holders = (((Users \cup OtherContracts) \cup {Core}) \cup {LotteryPool})
                    \cup {SharingVault}
  BY DEF Holders
<1> QED  BY <1>1, <1>2, FS_AddElement

\* The fee and its two parts are natural numbers; only what is less than two
\* leaves nothing after the fee.
LEMMA FeeParts ==
  ASSUME toLotteryPart \in 0..10, NEW a \in Nat
  PROVE  /\ WithFee(a) \in Nat /\ Fee(a) \in Nat /\ WithFee(a) + Fee(a) = a
         /\ LotteryFee(a) \in Nat /\ LotteryFee(a) <= Fee(a)
         /\ a > 1 => WithFee(a) > 0
<1>1. /\ WithFee(a) \in Nat /\ WithFee(a) <= a
      /\ a > 1 => WithFee(a) > 0
  BY Z3 DEF WithFee
<1>2. Fee(a) \in Nat /\ WithFee(a) + Fee(a) = a
  BY <1>1 DEF Fee
<1> DEFINE f == Fee(a)
<1>3. f \in Nat  BY <1>2
<1> HIDE DEF f
<1>4. f * toLotteryPart \in Nat /\ f * toLotteryPart <= f * 10
  <2>1. \A n \in Nat : n <= 10 => f * n \in Nat /\ f * n <= f * 10
    <3> SUFFICES ASSUME NEW n \in Nat, n <= 10
                 PROVE  f * n \in Nat /\ f * n <= f * 10
      OBVIOUS
    <3>1. n \in {0, 1, 2, 3, 4, 5, 6, 7, 8, 9, 10}  OBVIOUS
    <3> QED  BY <1>3, <3>1
  <2> QED  BY <2>1
<1> DEFINE m == f * toLotteryPart
<1>5. m \in Nat /\ m <= 10 * f  BY <1>3, <1>4
<1> HIDE DEF m
<1>6. m \div 10 \in Nat /\ m \div 10 <= f  BY <1>3, <1>5, Z3
<1>7. LotteryFee(a) \in Nat /\ LotteryFee(a) <= Fee(a)
  BY <1>6 DEF LotteryFee, m, f
<1> QED  BY <1>1, <1>2, <1>7

\* A transfer between two accounts.
LEMMA MoveEffect ==
  ASSUME NEW L \in [Holders -> Nat], NEW from \in Holders, NEW to \in Holders,
         from # to, NEW a \in Nat, L[from] >= a
  PROVE  /\ Move(L, from, to, a) \in [Holders -> Nat]
         /\ Move(L, from, to, a)[from] = L[from] - a
         /\ Move(L, from, to, a)[to] = L[to] + a
         /\ \A x \in Holders : x # from /\ x # to => Move(L, from, to, a)[x] = L[x]
<1>1. L[from] - a \in Nat /\ L[to] + a \in Nat  OBVIOUS
<1> QED  BY <1>1 DEF Move

\* A total is a sum, and a natural number.
LEMMA TotalNat ==
  ASSUME NEW L \in [Holders -> Nat]
  PROVE  Total(L, Holders) = SumOver(L, Holders) /\ Total(L, Holders) \in Nat
<1>1. Total(L, Holders) = SumOver(L, Holders)  BY DEF Total, SumOver
<1> QED  BY <1>1, HoldersFinite, SumNat

\* One balance changes.
LEMMA TotalChange ==
  ASSUME NEW A \in [Holders -> Nat], NEW B \in [Holders -> Nat], NEW u \in Holders,
         \A w \in Holders : w # u => B[w] = A[w]
  PROVE  Total(B, Holders) = Total(A, Holders) + (B[u] - A[u])
<1>1. \A w \in Holders : A[w] \in Int  OBVIOUS
<1>2. B[u] \in Int  OBVIOUS
<1>3. SumOver(B, Holders) = SumOver(A, Holders) + (B[u] - A[u])
  BY <1>1, <1>2, HoldersFinite, SumChange
<1> QED  BY <1>3, TotalNat

\* One balance of one policy changes: the totals of the others stay.
LEMMA PointEffect ==
  ASSUME NEW M, M \in [Policies -> [Holders -> Nat]],
         NEW N, N \in [Policies -> [Holders -> Nat]],
         NEW p \in Policies, NEW u \in Holders,
         \A w \in Holders : w # u => N[p][w] = M[p][w],
         \A q \in Policies : q # p => N[q] = M[q]
  PROVE  /\ Total(N[p], Holders) = Total(M[p], Holders) + (N[p][u] - M[p][u])
         /\ \A q \in Policies : q # p => Total(N[q], Holders) = Total(M[q], Holders)
<1>2. \A q \in Policies : /\ M[q] \in [Holders -> Nat] /\ N[q] \in [Holders -> Nat]
                          /\ Total(M[q], Holders) \in Nat
  BY TotalNat
<1>3. Total(N[p], Holders) = Total(M[p], Holders) + (N[p][u] - M[p][u])
  <2> DEFINE A == M[p]
             B == N[p]
  <2>2. /\ A \in [Holders -> Nat] /\ B \in [Holders -> Nat]
        /\ \A w \in Holders : w # u => B[w] = A[w]
    BY <1>2
  <2> HIDE DEF A, B
  <2>3. Total(B, Holders) = Total(A, Holders) + (B[u] - A[u])
    BY <2>2, TotalChange
  <2> QED  BY <2>3 DEF A, B
<1>4. ASSUME NEW q \in Policies, q # p
      PROVE  Total(N[q], Holders) = Total(M[q], Holders)
  BY <1>4
<1> QED  BY <1>3, <1>4

(***************************************************************************)
(* What each function does to the books                                    *)
(***************************************************************************)
\* A step changes the pot of coin s and its pending income by the given
\* amounts, and those of no other coin.
PotMoves(s, pot, pending) ==
    /\ stable'[s][Core] = stable[s][Core] + pot
    /\ PendingIncome(s)' = PendingIncome(s) + pending
    /\ \A c \in Stablecoins \ {s} : /\ stable'[c][Core] = stable[c][Core]
                                  /\ PendingIncome(c)' = PendingIncome(c)

\* It changes the totals of policy p, too, and those of no other policy.
Books(p, s, quotas, issued, pot, pending) ==
    /\ TotalQuota(p)' = TotalQuota(p) + quotas
    /\ TotalTokens(p)' = TotalTokens(p) + issued
    /\ \A q \in Policies \ {p} : /\ TotalQuota(q)' = TotalQuota(q)
                               /\ TotalTokens(q)' = TotalTokens(q)
    /\ PotMoves(s, pot, pending)

\* No total changes.
TotalsKept ==
    \A q \in Policies : /\ TotalQuota(q)' = TotalQuota(q)
                        /\ TotalTokens(q)' = TotalTokens(q)

LEMMA UserNotCore == \A u \in Users : u \in Holders /\ Core \in Holders /\ u # Core
  BY HolderAssumption DEF Holders

\* The totals and the pot are natural numbers.
LEMMA BooksNat ==
  ASSUME CoreTypeOK
  PROVE  /\ \A q \in Policies : TotalQuota(q) \in Nat /\ TotalTokens(q) \in Nat
         /\ \A c \in Stablecoins : stable[c][Core] \in Nat /\ PendingIncome(c) \in Nat
<1>1. ASSUME NEW q \in Policies PROVE TotalQuota(q) \in Nat /\ TotalTokens(q) \in Nat
  <2>1. userQuota[q] \in [Holders -> Nat] /\ tokens[q] \in [Holders -> Nat]
    BY DEF CoreTypeOK
  <2> QED  BY <2>1, TotalNat DEF TotalQuota, TotalTokens
<1>2. Core \in Holders  BY DEF Holders
<1> QED  BY <1>1, <1>2 DEF CoreTypeOK, PendingIncome

\* A payment out of the pot.
LEMMA PayEffect ==
  ASSUME CoreTypeOK, NEW s \in Stablecoins, NEW u \in Holders, u # Core,
         NEW a \in Nat, Pay(s, u, a)
  PROVE  /\ stable' \in [Stablecoins -> [Holders -> Nat]]
         /\ stable'[s][Core] = stable[s][Core] - a
         /\ \A c \in Stablecoins : c # s => stable'[c] = stable[c]
<1>1. stable \in [Stablecoins -> [Holders -> Nat]]  BY DEF CoreTypeOK
<1>2. /\ stable[s][Core] >= a
      /\ stable' = [stable EXCEPT ![s] = Move(stable[s], Core, u, a)]
  BY DEF Pay
<1> DEFINE L == stable[s]
<1>3. L \in [Holders -> Nat] /\ Core \in Holders  BY <1>1 DEF Holders
<1>4. /\ Move(L, Core, u, a) \in [Holders -> Nat]
      /\ Move(L, Core, u, a)[Core] = L[Core] - a
  BY <1>2, <1>3, MoveEffect
<1>5. stable' \in [Stablecoins -> [Holders -> Nat]]  BY <1>1, <1>2, <1>4
<1>6. stable'[s] = Move(L, Core, u, a) /\ \A c \in Stablecoins : c # s => stable'[c] = stable[c]
  BY <1>1, <1>2
<1> QED  BY <1>4, <1>5, <1>6

\* A fee, split between the lottery and the sharing vault.
LEMMA ChargeEffect ==
  ASSUME CoreTypeOK, NEW s \in Stablecoins, NEW a \in Nat, _chargeFee(s, a)
  PROVE  /\ pendingIncomeToLottery' \in [Stablecoins -> Nat]
         /\ pendingIncomeToSharing' \in [Stablecoins -> Nat]
         /\ PendingIncome(s)' = PendingIncome(s) + Fee(a)
         /\ \A c \in Stablecoins : c # s => PendingIncome(c)' = PendingIncome(c)
<1>1. /\ LotteryFee(a) \in Nat /\ Fee(a) \in Nat /\ LotteryFee(a) <= Fee(a)
  BY FeeParts DEF CoreTypeOK
<1>2. /\ pendingIncomeToLottery \in [Stablecoins -> Nat]
      /\ pendingIncomeToSharing \in [Stablecoins -> Nat]
  BY DEF CoreTypeOK
<1> DEFINE l == LotteryFee(a)
           r == Fee(a) - LotteryFee(a)
<1>3. l \in Nat /\ r \in Nat /\ l + r = Fee(a)  BY <1>1
<1>4. /\ pendingIncomeToLottery' = [pendingIncomeToLottery EXCEPT ![s] = @ + l]
      /\ pendingIncomeToSharing' = [pendingIncomeToSharing EXCEPT ![s] = @ + r]
  <2>1. pendingIncomeToSharing[s] + Fee(a) - LotteryFee(a)
            = pendingIncomeToSharing[s] + (Fee(a) - LotteryFee(a))
    BY <1>1, <1>2
  <2> QED  BY <2>1 DEF _chargeFee
<1> HIDE DEF l, r
<1>5. /\ pendingIncomeToLottery' \in [Stablecoins -> Nat]
      /\ pendingIncomeToSharing' \in [Stablecoins -> Nat]
  BY <1>2, <1>3, <1>4
<1>6. /\ pendingIncomeToLottery'[s] + pendingIncomeToSharing'[s]
             = pendingIncomeToLottery[s] + pendingIncomeToSharing[s] + Fee(a)
      /\ \A c \in Stablecoins : c # s =>
             /\ pendingIncomeToLottery'[c] = pendingIncomeToLottery[c]
             /\ pendingIncomeToSharing'[c] = pendingIncomeToSharing[c]
  BY <1>2, <1>3, <1>4
<1> QED  BY <1>5, <1>6 DEF PendingIncome

\* One quota changes, and one balance of policy tokens.
LEMMA QuotaEffect ==
  ASSUME CoreTypeOK, NEW p \in Policies, NEW u \in Holders, NEW v \in Nat,
         userQuota' = [userQuota EXCEPT ![p][u] = v]
  PROVE  /\ userQuota' \in [Policies -> [Holders -> Nat]]
         /\ TotalQuota(p)' = TotalQuota(p) + (v - userQuota[p][u])
         /\ \A q \in Policies : q # p => TotalQuota(q)' = TotalQuota(q)
<1> DEFINE M == userQuota
           N == userQuota'
<1>1. /\ M \in [Policies -> [Holders -> Nat]]
      /\ N \in [Policies -> [Holders -> Nat]] /\ N[p][u] = v
      /\ \A w \in Holders : w # u => N[p][w] = M[p][w]
      /\ \A q \in Policies : q # p => N[q] = M[q]
  BY DEF CoreTypeOK
<1> HIDE DEF M, N
<1>2. /\ Total(N[p], Holders) = Total(M[p], Holders) + (N[p][u] - M[p][u])
      /\ \A q \in Policies : q # p => Total(N[q], Holders) = Total(M[q], Holders)
  BY <1>1, PointEffect, ZenonT(40)
<1>3. \A q \in Policies : /\ TotalQuota(q) = Total(M[q], Holders)
                          /\ TotalQuota(q)' = Total(N[q], Holders)
  BY Zenon DEF M, N, TotalQuota
<1>4. userQuota' = N /\ userQuota = M  BY Zenon DEF M, N
<1> QED  BY <1>1, <1>2, <1>3, <1>4

LEMMA TokensEffect ==
  ASSUME CoreTypeOK, NEW p \in Policies, NEW u \in Holders, NEW v \in Nat,
         tokens' = [tokens EXCEPT ![p][u] = v]
  PROVE  /\ tokens' \in [Policies -> [Holders -> Nat]]
         /\ TotalTokens(p)' = TotalTokens(p) + (v - tokens[p][u])
         /\ \A q \in Policies : q # p => TotalTokens(q)' = TotalTokens(q)
<1> DEFINE M == tokens
           N == tokens'
<1>1. /\ M \in [Policies -> [Holders -> Nat]]
      /\ N \in [Policies -> [Holders -> Nat]] /\ N[p][u] = v
      /\ \A w \in Holders : w # u => N[p][w] = M[p][w]
      /\ \A q \in Policies : q # p => N[q] = M[q]
  BY DEF CoreTypeOK
<1> HIDE DEF M, N
<1>2. /\ Total(N[p], Holders) = Total(M[p], Holders) + (N[p][u] - M[p][u])
      /\ \A q \in Policies : q # p => Total(N[q], Holders) = Total(M[q], Holders)
  BY <1>1, PointEffect, ZenonT(40)
<1>3. \A q \in Policies : /\ TotalTokens(q) = Total(M[q], Holders)
                          /\ TotalTokens(q)' = Total(N[q], Holders)
  BY Zenon DEF M, N, TotalTokens
<1>4. tokens' = N /\ tokens = M  BY Zenon DEF M, N
<1> QED  BY <1>1, <1>2, <1>3, <1>4

LEMMA DepositEffect ==
  ASSUME CoreTypeOK, NEW p \in Policies, NEW s \in Stablecoins, NEW u \in Users,
         NEW a \in Nat, _deposit(p, s, a, u)
  PROVE  CoreTypeOK' /\ Books(p, s, a, a, a, 0)
<1>1. /\ stable[s][u] >= a
      /\ stable' = [stable EXCEPT ![s] = Move(stable[s], u, Core, a)]
      /\ tokens' = [tokens EXCEPT ![p][u] = tokens[p][u] + a]
      /\ userQuota' = [userQuota EXCEPT ![p][u] = userQuota[p][u] + a]
      /\ allDepositors' = [allDepositors EXCEPT ![p] = Enlist(p, u)]
      /\ UNCHANGED <<now, setupVars, listVars, settleResult, incomeVars>>
  BY DEF _deposit, CanDeposit, RecordDeposit
<1>2. u \in Holders /\ Core \in Holders /\ u # Core  BY UserNotCore
<1>3. tokens[p][u] \in Nat /\ userQuota[p][u] \in Nat  BY <1>2 DEF CoreTypeOK
<1>4. tokens[p][u] + a \in Nat /\ userQuota[p][u] + a \in Nat  BY <1>3
<1>5. /\ userQuota' \in [Policies -> [Holders -> Nat]]
      /\ TotalQuota(p)' = TotalQuota(p) + a
      /\ \A q \in Policies : q # p => TotalQuota(q)' = TotalQuota(q)
  <2> DEFINE v == userQuota[p][u] + a
  <2>1. v \in Nat /\ userQuota' = [userQuota EXCEPT ![p][u] = v]  BY <1>1, <1>4
  <2> HIDE DEF v
  <2>2. /\ userQuota' \in [Policies -> [Holders -> Nat]]
        /\ TotalQuota(p)' = TotalQuota(p) + (v - userQuota[p][u])
        /\ \A q \in Policies : q # p => TotalQuota(q)' = TotalQuota(q)
    BY <1>2, <2>1, QuotaEffect, Zenon
  <2>3. v - userQuota[p][u] = a  BY <1>3 DEF v
  <2> QED  BY <2>2, <2>3
<1>6. /\ tokens' \in [Policies -> [Holders -> Nat]]
      /\ TotalTokens(p)' = TotalTokens(p) + a
      /\ \A q \in Policies : q # p => TotalTokens(q)' = TotalTokens(q)
  <2> DEFINE v == tokens[p][u] + a
  <2>1. v \in Nat /\ tokens' = [tokens EXCEPT ![p][u] = v]  BY <1>1, <1>4
  <2> HIDE DEF v
  <2>2. /\ tokens' \in [Policies -> [Holders -> Nat]]
        /\ TotalTokens(p)' = TotalTokens(p) + (v - tokens[p][u])
        /\ \A q \in Policies : q # p => TotalTokens(q)' = TotalTokens(q)
    BY <1>2, <2>1, TokensEffect, Zenon
  <2>3. v - tokens[p][u] = a  BY <1>3 DEF v
  <2> QED  BY <2>2, <2>3
<1>7. /\ stable' \in [Stablecoins -> [Holders -> Nat]]
      /\ stable'[s][Core] = stable[s][Core] + a
      /\ \A c \in Stablecoins : c # s => stable'[c] = stable[c]
  <2>1. stable \in [Stablecoins -> [Holders -> Nat]]  BY DEF CoreTypeOK
  <2> DEFINE L == stable[s]
             N == Move(L, u, Core, a)
  <2>2. L \in [Holders -> Nat] /\ L[u] >= a  BY <1>1, <2>1
  <2> HIDE DEF L
  <2>3. N \in [Holders -> Nat] /\ N[Core] = L[Core] + a
    BY <1>2, <2>2, MoveEffect
  <2>4. stable' = [stable EXCEPT ![s] = N]  BY <1>1 DEF L
  <2> HIDE DEF N
  <2> QED  BY <2>1, <2>3, <2>4 DEF L
<1>8. Enlist(p, u) \in Seq(Holders)  BY <1>2 DEF Enlist, CoreTypeOK
<1>9. allDepositors' \in [Policies -> Seq(Holders)]  BY <1>1, <1>8 DEF CoreTypeOK
<1>10. CoreTypeOK'
  BY <1>1, <1>5, <1>6, <1>7, <1>9
     DEF CoreTypeOK, setupVars, listVars, incomeVars
<1>11. \A c \in Stablecoins : PendingIncome(c)' = PendingIncome(c) /\ PendingIncome(c) \in Nat
  BY <1>1, BooksNat DEF PendingIncome, incomeVars
<1> QED  BY <1>5, <1>6, <1>7, <1>10, <1>11 DEF Books, PotMoves

LEMMA RedeemEffect ==
  ASSUME CoreTypeOK, NEW p \in Policies, NEW s \in Stablecoins, NEW u \in Users,
         NEW a \in Nat, redeem(p, s, a, u)
  PROVE  CoreTypeOK' /\ Books(p, s, 0 - a, 0 - a, 0 - WithFee(a), Fee(a))
<1>1. /\ userQuota[p][u] >= a /\ tokens[p][u] >= a
      /\ userQuota' = [userQuota EXCEPT ![p][u] = userQuota[p][u] - a]
      /\ tokens' = [tokens EXCEPT ![p][u] = tokens[p][u] - a]
      /\ _chargeFee(s, a) /\ Pay(s, u, WithFee(a))
      /\ UNCHANGED <<now, setupVars, listVars, allDepositors, settleResult>>
  BY DEF redeem, burn
<1>2. u \in Holders /\ u # Core  BY UserNotCore
<1>3. tokens[p][u] \in Nat /\ userQuota[p][u] \in Nat  BY <1>2 DEF CoreTypeOK
<1>4. tokens[p][u] - a \in Nat /\ userQuota[p][u] - a \in Nat  BY <1>1, <1>3
<1>5. /\ userQuota' \in [Policies -> [Holders -> Nat]]
      /\ TotalQuota(p)' = TotalQuota(p) + (0 - a)
      /\ \A q \in Policies : q # p => TotalQuota(q)' = TotalQuota(q)
  <2> DEFINE v == userQuota[p][u] - a
  <2>1. v \in Nat /\ userQuota' = [userQuota EXCEPT ![p][u] = v]  BY <1>1, <1>4
  <2> HIDE DEF v
  <2>2. /\ userQuota' \in [Policies -> [Holders -> Nat]]
        /\ TotalQuota(p)' = TotalQuota(p) + (v - userQuota[p][u])
        /\ \A q \in Policies : q # p => TotalQuota(q)' = TotalQuota(q)
    BY <1>2, <2>1, QuotaEffect, Zenon
  <2>3. v - userQuota[p][u] = 0 - a  BY <1>3 DEF v
  <2> QED  BY <2>2, <2>3
<1>6. /\ tokens' \in [Policies -> [Holders -> Nat]]
      /\ TotalTokens(p)' = TotalTokens(p) + (0 - a)
      /\ \A q \in Policies : q # p => TotalTokens(q)' = TotalTokens(q)
  <2> DEFINE v == tokens[p][u] - a
  <2>1. v \in Nat /\ tokens' = [tokens EXCEPT ![p][u] = v]  BY <1>1, <1>4
  <2> HIDE DEF v
  <2>2. /\ tokens' \in [Policies -> [Holders -> Nat]]
        /\ TotalTokens(p)' = TotalTokens(p) + (v - tokens[p][u])
        /\ \A q \in Policies : q # p => TotalTokens(q)' = TotalTokens(q)
    BY <1>2, <2>1, TokensEffect, Zenon
  <2>3. v - tokens[p][u] = 0 - a  BY <1>3 DEF v
  <2> QED  BY <2>2, <2>3
<1>7. WithFee(a) \in Nat  BY FeeParts DEF CoreTypeOK
<1>8. /\ stable' \in [Stablecoins -> [Holders -> Nat]]
      /\ stable'[s][Core] = stable[s][Core] - WithFee(a)
      /\ \A c \in Stablecoins : c # s => stable'[c] = stable[c]
  BY <1>1, <1>2, <1>7, PayEffect, Zenon
<1>9. /\ pendingIncomeToLottery' \in [Stablecoins -> Nat]
      /\ pendingIncomeToSharing' \in [Stablecoins -> Nat]
      /\ PendingIncome(s)' = PendingIncome(s) + Fee(a)
      /\ \A c \in Stablecoins : c # s => PendingIncome(c)' = PendingIncome(c)
  BY <1>1, ChargeEffect, Zenon
<1>10. CoreTypeOK'
  BY <1>1, <1>5, <1>6, <1>8, <1>9 DEF CoreTypeOK, setupVars, listVars
<1>11. stable'[s][Core] = stable[s][Core] + (0 - WithFee(a))
  BY <1>7, <1>8, BooksNat
<1> QED  BY <1>5, <1>6, <1>8, <1>9, <1>10, <1>11 DEF Books, PotMoves

LEMMA ClaimEffect ==
  ASSUME CoreTypeOK, NEW p \in Policies, NEW s \in Stablecoins, NEW u \in Users,
         NEW a \in Nat, claim(p, s, a, u)
  PROVE  CoreTypeOK' /\ Books(p, s, 0, 0 - a, 0 - WithFee(a), Fee(a))
<1>1. /\ tokens[p][u] >= a
      /\ tokens' = [tokens EXCEPT ![p][u] = tokens[p][u] - a]
      /\ _chargeFee(s, a) /\ Pay(s, u, WithFee(a))
      /\ UNCHANGED <<now, setupVars, listVars, quotaVars, settleResult>>
  BY DEF claim, burn
<1>2. u \in Holders /\ u # Core  BY UserNotCore
<1>3. tokens[p][u] \in Nat  BY <1>2 DEF CoreTypeOK
<1>4. tokens[p][u] - a \in Nat  BY <1>1, <1>3
<1>5. \A q \in Policies : TotalQuota(q)' = TotalQuota(q) /\ TotalQuota(q) \in Nat
  BY <1>1, BooksNat DEF TotalQuota, quotaVars
<1>6. /\ tokens' \in [Policies -> [Holders -> Nat]]
      /\ TotalTokens(p)' = TotalTokens(p) + (0 - a)
      /\ \A q \in Policies : q # p => TotalTokens(q)' = TotalTokens(q)
  <2> DEFINE v == tokens[p][u] - a
  <2>1. v \in Nat /\ tokens' = [tokens EXCEPT ![p][u] = v]  BY <1>1, <1>4
  <2> HIDE DEF v
  <2>2. /\ tokens' \in [Policies -> [Holders -> Nat]]
        /\ TotalTokens(p)' = TotalTokens(p) + (v - tokens[p][u])
        /\ \A q \in Policies : q # p => TotalTokens(q)' = TotalTokens(q)
    BY <1>2, <2>1, TokensEffect, Zenon
  <2>3. v - tokens[p][u] = 0 - a  BY <1>3 DEF v
  <2> QED  BY <2>2, <2>3
<1>7. WithFee(a) \in Nat  BY FeeParts DEF CoreTypeOK
<1>8. /\ stable' \in [Stablecoins -> [Holders -> Nat]]
      /\ stable'[s][Core] = stable[s][Core] - WithFee(a)
      /\ \A c \in Stablecoins : c # s => stable'[c] = stable[c]
  BY <1>1, <1>2, <1>7, PayEffect, Zenon
<1>9. /\ pendingIncomeToLottery' \in [Stablecoins -> Nat]
      /\ pendingIncomeToSharing' \in [Stablecoins -> Nat]
      /\ PendingIncome(s)' = PendingIncome(s) + Fee(a)
      /\ \A c \in Stablecoins : c # s => PendingIncome(c)' = PendingIncome(c)
  BY <1>1, ChargeEffect, Zenon
<1>10. CoreTypeOK'
  BY <1>1, <1>6, <1>8, <1>9 DEF CoreTypeOK, setupVars, listVars, quotaVars
<1>11. stable'[s][Core] = stable[s][Core] + (0 - WithFee(a))
  BY <1>7, <1>8, BooksNat
<1> QED  BY <1>5, <1>6, <1>8, <1>9, <1>10, <1>11 DEF Books, PotMoves

LEMMA RedeemAfterSettlementEffect ==
  ASSUME CoreTypeOK, NEW p \in Policies, NEW s \in Stablecoins, NEW u \in Users,
         redeemAfterSettlement(p, s, u)
  PROVE  /\ CoreTypeOK'
         /\ \E a \in Nat : Books(p, s, 0 - a, 0, 0 - WithFee(a), Fee(a))
<1> DEFINE a == userQuota[p][u]
<1>1. /\ userQuota' = [userQuota EXCEPT ![p][u] = 0]
      /\ _chargeFee(s, a) /\ Pay(s, u, WithFee(a))
      /\ UNCHANGED <<now, tokens, setupVars, listVars, allDepositors, settleResult>>
  BY DEF redeemAfterSettlement
<1>2. u \in Holders /\ u # Core  BY UserNotCore
<1>3. a \in Nat  BY <1>2 DEF CoreTypeOK
<1>4. /\ userQuota' \in [Policies -> [Holders -> Nat]]
      /\ TotalQuota(p)' = TotalQuota(p) + (0 - a)
      /\ \A q \in Policies : q # p => TotalQuota(q)' = TotalQuota(q)
  BY <1>1, <1>2, QuotaEffect
<1> HIDE DEF a
<1>5. \A q \in Policies : TotalTokens(q)' = TotalTokens(q) /\ TotalTokens(q) \in Nat
  BY <1>1, BooksNat DEF TotalTokens
<1>6. WithFee(a) \in Nat  BY <1>3, FeeParts DEF CoreTypeOK
<1>7. /\ stable' \in [Stablecoins -> [Holders -> Nat]]
      /\ stable'[s][Core] = stable[s][Core] - WithFee(a)
      /\ \A c \in Stablecoins : c # s => stable'[c] = stable[c]
  BY <1>1, <1>2, <1>6, PayEffect, Zenon
<1>8. /\ pendingIncomeToLottery' \in [Stablecoins -> Nat]
      /\ pendingIncomeToSharing' \in [Stablecoins -> Nat]
      /\ PendingIncome(s)' = PendingIncome(s) + Fee(a)
      /\ \A c \in Stablecoins : c # s => PendingIncome(c)' = PendingIncome(c)
  BY <1>1, <1>3, ChargeEffect, Zenon
<1>9. CoreTypeOK'
  BY <1>1, <1>4, <1>7, <1>8 DEF CoreTypeOK, setupVars, listVars
<1>10. stable'[s][Core] = stable[s][Core] + (0 - WithFee(a))
  BY <1>6, <1>7, BooksNat
<1>11. Books(p, s, 0 - a, 0, 0 - WithFee(a), Fee(a))
  BY <1>4, <1>5, <1>7, <1>8, <1>10 DEF Books, PotMoves
<1> QED  BY <1>3, <1>9, <1>11, Zenon

(***************************************************************************)
(* The distribution by the owner                                           *)
(***************************************************************************)
\* The two sums that _settlePolicy adds to the pending income are sums of
\* functions over the positions it goes through.
FeeAt(p, start, stop) ==
    [i \in (start + 1)..stop |-> Fee(ChargedAt(p, start, i))]

LotteryFeeAt(p, start, stop) ==
    [i \in (start + 1)..stop |-> LotteryFee(ChargedAt(p, start, i))]

LEMMA FeesAreSum ==
  ASSUME NEW p, NEW start \in Nat, NEW stop \in Nat
  PROVE  MapThenSumSet(LAMBDA i : Fee(ChargedAt(p, start, i)), (start + 1)..stop)
             = SumOver(FeeAt(p, start, stop), (start + 1)..stop)
<1> DEFINE P == (start + 1)..stop
           f == FeeAt(p, start, stop)
           Solves(e) == e = [s \in SUBSET P |->
                    IF s = {} THEN 0
                    ELSE Fee(ChargedAt(p, start, CHOOSE x \in s : TRUE))
                         + e[s \ {CHOOSE x \in s : TRUE}]]
           h == CHOOSE e : Solves(e)
<1>1. MapThenSumSet(LAMBDA i : Fee(ChargedAt(p, start, i)), P) = h[P]
  BY DEF MapThenSumSet, MapThenFoldSet
<1>2. IsFiniteSet(P)  BY FS_Interval
<1>3. \A s \in SUBSET P : s # {} =>
          Fee(ChargedAt(p, start, CHOOSE x \in s : TRUE)) = f[CHOOSE x \in s : TRUE]
  <2>1. \A i \in P : f[i] = Fee(ChargedAt(p, start, i))  BY DEF FeeAt
  <2> HIDE DEF P, f
  <2>2. \A s \in SUBSET P : s # {} => (CHOOSE x \in s : TRUE) \in P  OBVIOUS
  <2> QED  BY <2>1, <2>2
<1>4. PICK g : IsSum(g, f, P)  BY <1>2, SumExists
<1>5. \A e : IsSum(e, f, P) <=> Solves(e)
  BY <1>3 DEF IsSum
<1> HIDE DEF Solves
<1>6. IsSum(h, f, P)
  <2> HIDE DEF P, f
  <2> QED  BY <1>4, <1>5
<1> HIDE DEF h
<1> QED  BY <1>1, <1>2, <1>6, SumUnique

LEMMA LotteryFeesAreSum ==
  ASSUME NEW p, NEW start \in Nat, NEW stop \in Nat
  PROVE  MapThenSumSet(LAMBDA i : LotteryFee(ChargedAt(p, start, i)), (start + 1)..stop)
             = SumOver(LotteryFeeAt(p, start, stop), (start + 1)..stop)
<1> DEFINE P == (start + 1)..stop
           f == LotteryFeeAt(p, start, stop)
           Solves(e) == e = [s \in SUBSET P |->
                    IF s = {} THEN 0
                    ELSE LotteryFee(ChargedAt(p, start, CHOOSE x \in s : TRUE))
                         + e[s \ {CHOOSE x \in s : TRUE}]]
           h == CHOOSE e : Solves(e)
<1>1. MapThenSumSet(LAMBDA i : LotteryFee(ChargedAt(p, start, i)), P) = h[P]
  BY DEF MapThenSumSet, MapThenFoldSet
<1>2. IsFiniteSet(P)  BY FS_Interval
<1>3. \A s \in SUBSET P : s # {} =>
          LotteryFee(ChargedAt(p, start, CHOOSE x \in s : TRUE)) = f[CHOOSE x \in s : TRUE]
  <2>1. \A i \in P : f[i] = LotteryFee(ChargedAt(p, start, i))  BY DEF LotteryFeeAt
  <2> HIDE DEF P, f
  <2>2. \A s \in SUBSET P : s # {} => (CHOOSE x \in s : TRUE) \in P  OBVIOUS
  <2> QED  BY <2>1, <2>2
<1>4. PICK g : IsSum(g, f, P)  BY <1>2, SumExists
<1>5. \A e : IsSum(e, f, P) <=> Solves(e)
  BY <1>3 DEF IsSum
<1> HIDE DEF Solves
<1>6. IsSum(h, f, P)
  <2> HIDE DEF P, f
  <2> QED  BY <1>4, <1>5
<1> HIDE DEF h
<1> QED  BY <1>1, <1>2, <1>6, SumUnique

\* What is charged at each position is a natural number.
LEMMA ChargedNat ==
  ASSUME CoreTypeOK, NEW p \in Policies, NEW start \in Nat, NEW stop \in Nat,
         stop <= Len(allDepositors[p])
  PROVE  \A i \in (start + 1)..stop :
             /\ allDepositors[p][i] \in Holders
             /\ ChargedAt(p, start, i) \in Nat
             /\ Fee(ChargedAt(p, start, i)) \in Nat
             /\ LotteryFee(ChargedAt(p, start, i)) \in Nat
             /\ LotteryFee(ChargedAt(p, start, i)) <= Fee(ChargedAt(p, start, i))
<1> SUFFICES ASSUME NEW i \in (start + 1)..stop
             PROVE  /\ allDepositors[p][i] \in Holders
                    /\ ChargedAt(p, start, i) \in Nat
                    /\ Fee(ChargedAt(p, start, i)) \in Nat
                    /\ LotteryFee(ChargedAt(p, start, i)) \in Nat
                    /\ LotteryFee(ChargedAt(p, start, i)) <= Fee(ChargedAt(p, start, i))
  OBVIOUS
<1>1. allDepositors[p] \in Seq(Holders) /\ userQuota[p] \in [Holders -> Nat]
  BY DEF CoreTypeOK
<1>2. i \in 1..Len(allDepositors[p])  BY <1>1
<1>3. allDepositors[p][i] \in Holders  BY <1>1, <1>2
<1>4. userQuota[p][allDepositors[p][i]] \in Nat  BY <1>1, <1>3
<1>5. ChargedAt(p, start, i) \in {0, userQuota[p][allDepositors[p][i]]}
  BY DEF ChargedAt
<1>6. ChargedAt(p, start, i) \in Nat  BY <1>4, <1>5
<1>7. toLotteryPart \in 0..10  BY DEF CoreTypeOK
<1> QED  BY <1>3, <1>6, <1>7, FeeParts

\* Fees are natural numbers and the lottery's part does not exceed them.
LEMMA FeeSums ==
  ASSUME CoreTypeOK, NEW p \in Policies, NEW start \in Nat, NEW stop \in Nat,
         stop <= Len(allDepositors[p])
  PROVE  LET P == (start + 1)..stop
             fees == MapThenSumSet(LAMBDA i : Fee(ChargedAt(p, start, i)), P)
             part == MapThenSumSet(LAMBDA i : LotteryFee(ChargedAt(p, start, i)), P)
         IN  fees \in Nat /\ part \in Nat /\ part <= fees
<1> DEFINE P == (start + 1)..stop
           f == FeeAt(p, start, stop)
           l == LotteryFeeAt(p, start, stop)
<1>1. \A i \in P : f[i] \in Nat /\ l[i] \in Nat /\ l[i] <= f[i]
  BY ChargedNat DEF FeeAt, LotteryFeeAt
<1>2. IsFiniteSet(P)  BY FS_Interval
<1>3. /\ MapThenSumSet(LAMBDA i : Fee(ChargedAt(p, start, i)), P) = SumOver(f, P)
      /\ MapThenSumSet(LAMBDA i : LotteryFee(ChargedAt(p, start, i)), P) = SumOver(l, P)
  <2>1. MapThenSumSet(LAMBDA i : Fee(ChargedAt(p, start, i)), P) = SumOver(f, P)
    BY FeesAreSum
  <2>2. MapThenSumSet(LAMBDA i : LotteryFee(ChargedAt(p, start, i)), P)
            = SumOver(l, P)
    BY LotteryFeesAreSum
  <2> QED  BY <2>1, <2>2, Zenon
<1> HIDE DEF P, f, l
<1>4. SumOver(f, P) \in Nat /\ SumOver(l, P) \in Nat
  BY <1>1, <1>2, SumNat
<1>5. SumOver(l, P) <= SumOver(f, P)
  <2>1. \A i \in P : l[i] \in Int /\ f[i] \in Int /\ l[i] <= f[i]  BY <1>1
  <2> QED  BY <1>2, <2>1, SumLeq
<1> QED  BY <1>3, <1>4, <1>5 DEF P

\* What the users served receive.
PaidTo(p, start, stop) ==
    [u \in Holders |-> IF u \in Served(p, start, stop)
                       THEN WithFee(userQuota[p][u]) ELSE 0]

LEMMA DistributeTyped ==
  ASSUME CoreTypeOK, NEW p \in Policies, NEW s \in Stablecoins,
         NEW start \in Nat, NEW stop \in Nat, stop <= Len(allDepositors[p]),
         _settlePolicy(p, s, start, stop)
  PROVE  /\ stable' \in [Stablecoins -> [Holders -> Nat]]
         /\ userQuota' \in [Policies -> [Holders -> Nat]]
         /\ pendingIncomeToLottery' \in [Stablecoins -> Nat]
         /\ pendingIncomeToSharing' \in [Stablecoins -> Nat]
         /\ stable'[s][Core] = stable[s][Core] - Total(PaidTo(p, start, stop), Holders)
         /\ \A c \in Stablecoins : c # s => stable'[c] = stable[c]
         /\ PendingIncome(s)' = PendingIncome(s)
                + SumOver(FeeAt(p, start, stop), (start + 1)..stop)
         /\ \A c \in Stablecoins : c # s => PendingIncome(c)' = PendingIncome(c)
<1> DEFINE P == (start + 1)..stop
           fees == MapThenSumSet(LAMBDA i : Fee(ChargedAt(p, start, i)), P)
           part == MapThenSumSet(LAMBDA i : LotteryFee(ChargedAt(p, start, i)), P)
           paid == PaidTo(p, start, stop)
           sum == Total(paid, Holders)
<1>1. /\ fees \in Nat /\ part \in Nat /\ part <= fees
      /\ fees = SumOver(FeeAt(p, start, stop), P)
  BY FeeSums, FeesAreSum
<1>2. /\ stable[s][Core] >= sum
      /\ stable' = [stable EXCEPT ![s] = [a \in Holders |->
                        IF a = Core THEN stable[s][Core] - sum
                        ELSE stable[s][a] + paid[a]]]
      /\ userQuota' = [userQuota EXCEPT ![p] = QuotaAfter(p, start, stop)]
      /\ pendingIncomeToLottery' = [pendingIncomeToLottery EXCEPT ![s] = @ + part]
      /\ pendingIncomeToSharing' = [pendingIncomeToSharing EXCEPT
             ![s] = pendingIncomeToSharing[s] + fees - part]
  BY DEF _settlePolicy, PaidTo
<1>3. paid \in [Holders -> Nat]
  <2>1. \A u \in Holders : userQuota[p][u] \in Nat  BY DEF CoreTypeOK
  <2>2. \A u \in Holders : WithFee(userQuota[p][u]) \in Nat
    BY <2>1, FeeParts DEF CoreTypeOK
  <2> QED  BY <2>2 DEF PaidTo
<1> HIDE DEF fees, part, paid
<1>4. sum \in Nat  BY <1>3, TotalNat
<1> HIDE DEF sum
<1>5. /\ stable \in [Stablecoins -> [Holders -> Nat]]
      /\ pendingIncomeToLottery \in [Stablecoins -> Nat]
      /\ pendingIncomeToSharing \in [Stablecoins -> Nat]
      /\ userQuota \in [Policies -> [Holders -> Nat]]
      /\ Core \in Holders
  BY DEF CoreTypeOK, Holders
<1>6. /\ stable' \in [Stablecoins -> [Holders -> Nat]]
      /\ stable'[s][Core] = stable[s][Core] - sum
      /\ \A c \in Stablecoins : c # s => stable'[c] = stable[c]
  <2> DEFINE L == [a \in Holders |-> IF a = Core THEN stable[s][Core] - sum
                                     ELSE stable[s][a] + paid[a]]
  <2>1. \A a \in Holders : stable[s][a] \in Nat /\ paid[a] \in Nat  BY <1>3, <1>5
  <2>2. stable[s][Core] - sum \in Nat  BY <1>2, <1>4, <1>5
  <2>3. L \in [Holders -> Nat] /\ L[Core] = stable[s][Core] - sum
    BY <1>5, <2>1, <2>2
  <2>4. stable' = [stable EXCEPT ![s] = L]  BY <1>2
  <2> HIDE DEF L
  <2> QED  BY <1>5, <2>3, <2>4
<1>7. userQuota' \in [Policies -> [Holders -> Nat]]
  <2>1. QuotaAfter(p, start, stop) \in [Holders -> Nat]  BY <1>5 DEF QuotaAfter
  <2> QED  BY <1>2, <1>5, <2>1
<1>8. /\ pendingIncomeToLottery' \in [Stablecoins -> Nat]
      /\ pendingIncomeToSharing' \in [Stablecoins -> Nat]
      /\ pendingIncomeToLottery'[s] = pendingIncomeToLottery[s] + part
      /\ pendingIncomeToSharing'[s] = pendingIncomeToSharing[s] + fees - part
      /\ \A c \in Stablecoins : c # s =>
             /\ pendingIncomeToLottery'[c] = pendingIncomeToLottery[c]
             /\ pendingIncomeToSharing'[c] = pendingIncomeToSharing[c]
  <2>1. pendingIncomeToSharing[s] + fees - part \in Nat  BY <1>1, <1>5
  <2>2. pendingIncomeToLottery[s] + part \in Nat  BY <1>1, <1>5
  <2>3. /\ pendingIncomeToLottery' \in [Stablecoins -> Nat]
        /\ pendingIncomeToLottery'[s] = pendingIncomeToLottery[s] + part
        /\ \A c \in Stablecoins : c # s =>
               pendingIncomeToLottery'[c] = pendingIncomeToLottery[c]
    BY <1>2, <1>5, <2>2
  <2>4. /\ pendingIncomeToSharing' \in [Stablecoins -> Nat]
        /\ pendingIncomeToSharing'[s] = pendingIncomeToSharing[s] + fees - part
        /\ \A c \in Stablecoins : c # s =>
               pendingIncomeToSharing'[c] = pendingIncomeToSharing[c]
    BY <1>2, <1>5, <2>1
  <2> QED  BY <2>3, <2>4
<1>9. PendingIncome(s)' = PendingIncome(s) + fees
  BY <1>1, <1>5, <1>8 DEF PendingIncome
<1>10. \A c \in Stablecoins : c # s => PendingIncome(c)' = PendingIncome(c)
  BY <1>8 DEF PendingIncome
<1> QED  BY <1>1, <1>6, <1>7, <1>8, <1>9, <1>10 DEF sum, paid

\* The quotas and the fees of the users served.
ServedQuota(p, start, stop) ==
    [u \in Holders |-> IF u \in Served(p, start, stop) THEN userQuota[p][u] ELSE 0]

ServedFee(p, start, stop) ==
    [u \in Holders |-> IF u \in Served(p, start, stop) THEN Fee(userQuota[p][u])
                       ELSE 0]

\* Nobody has a quota of one unit, of which the fee leaves nothing.
NoDust(p) == \A u \in Holders : userQuota[p][u] # 1

\* Everybody who is served is charged once, however often they are listed.
LEMMA FeesOfServed ==
  ASSUME CoreTypeOK, NEW p \in Policies, NoDust(p), NEW start \in Nat,
         NEW stop \in Nat, stop <= Len(allDepositors[p])
  PROVE  SumOver(FeeAt(p, start, stop), (start + 1)..stop)
             = SumOver(ServedFee(p, start, stop), Holders)
<1> DEFINE quota == userQuota[p]
           list == allDepositors[p]
           f == FeeAt(p, start, stop)
           upTo(k) == ServedFee(p, start, k)
           G == {n \in Nat : start + n <= stop =>
                    SumOver(f, (start + 1)..(start + n))
                        = SumOver(upTo(start + n), Holders)}
<1>1. \A u \in Holders : /\ quota[u] \in Nat /\ WithFee(quota[u]) \in Nat
                         /\ Fee(quota[u]) \in Nat
                         /\ WithFee(quota[u]) > 0 <=> quota[u] # 0
                         /\ quota[u] = 0 => Fee(quota[u]) = 0
  <2> SUFFICES ASSUME NEW u \in Holders
               PROVE  /\ quota[u] \in Nat /\ WithFee(quota[u]) \in Nat
                      /\ Fee(quota[u]) \in Nat
                      /\ WithFee(quota[u]) > 0 <=> quota[u] # 0
                      /\ quota[u] = 0 => Fee(quota[u]) = 0
    OBVIOUS
  <2>1. quota[u] \in Nat /\ quota[u] # 1  BY DEF CoreTypeOK, NoDust
  <2> HIDE DEF quota
  <2>2. /\ WithFee(quota[u]) \in Nat /\ Fee(quota[u]) \in Nat
        /\ WithFee(quota[u]) + Fee(quota[u]) = quota[u]
        /\ quota[u] > 1 => WithFee(quota[u]) > 0
    BY <2>1, FeeParts DEF CoreTypeOK
  <2> QED  BY <2>1, <2>2
<1>2. IsFiniteSet(Holders)  BY HoldersFinite
<1>3. \A i \in (start + 1)..stop : list[i] \in Holders /\ f[i] \in Nat
  BY ChargedNat DEF FeeAt
<1>4. 0 \in G
  <2>1. (start + 1)..(start + 0) = {}  OBVIOUS
  <2>2. \A u \in Holders : upTo(start + 0)[u] = 0
    BY <2>1 DEF ServedFee, Served
  <2>3. SumOver(upTo(start + 0), Holders) = 0
    <3> HIDE DEF upTo
    <3> QED  BY <1>2, <2>2, SumZero
  <2> QED  BY <2>1, <2>3, SumEmpty
<1>5. ASSUME NEW n \in Nat, n \in G PROVE n + 1 \in G
  <2> SUFFICES ASSUME start + (n + 1) <= stop
               PROVE  SumOver(f, (start + 1)..(start + (n + 1)))
                          = SumOver(upTo(start + (n + 1)), Holders)
    OBVIOUS
  <2> DEFINE k == start + n
             i == k + 1
             u == list[i]
             again == \E j \in (start + 1)..(i - 1) : list[j] = u
  <2>1. /\ k \in Nat /\ i \in (start + 1)..stop /\ start + (n + 1) = i
        /\ (start + 1)..i \ {i} = (start + 1)..k /\ i - 1 = k
        /\ i \in (start + 1)..i /\ (start + 1)..i \subseteq (start + 1)..stop
    OBVIOUS
  <2>2. SumOver(f, (start + 1)..k) = SumOver(upTo(k), Holders)  BY <1>5, <2>1
  <2>3. SumOver(f, (start + 1)..i) = f[i] + SumOver(f, (start + 1)..k)
    <3>1. \A j \in (start + 1)..i : f[j] \in Int  BY <1>3, <2>1
    <3>2. IsFiniteSet((start + 1)..i)  BY <2>1, FS_Interval
    <3> HIDE DEF f
    <3>3. SumOver(f, (start + 1)..i) = f[i] + SumOver(f, (start + 1)..i \ {i})
      BY <2>1, <3>1, <3>2, SumSplit
    <3> QED  BY <2>1, <3>3
  <2>4. u \in Holders  BY <1>3, <2>1
  <2>5. f[i] = Fee(IF again /\ WithFee(quota[u]) > 0 THEN 0 ELSE quota[u])
    BY <2>1 DEF FeeAt, ChargedAt
  <2>6. /\ Fee(0) = 0
        /\ \A v \in Holders : upTo(k)[v] \in Int
    <3>1. Fee(0) = 0  BY Z3 DEF Fee, WithFee
    <3> QED  BY <1>1, <3>1 DEF ServedFee
  <2>7. \A v \in Holders : v \in Served(p, start, i) <=>
            \/ v \in Served(p, start, k)
            \/ v = u /\ WithFee(quota[u]) > 0
    <3>1. \A j : j \in (start + 1)..i <=> j \in (start + 1)..k \/ j = i
      BY <2>1
    <3> HIDE DEF i, k
    <3> QED  BY <3>1, <2>4 DEF Served
  <2>8. u \in Served(p, start, k) <=> again /\ WithFee(quota[u]) > 0
    <3> HIDE DEF k
    <3> QED  BY <2>1, <2>4 DEF Served
  <2> HIDE DEF upTo, f, u, again, quota
  <2>9. \A v \in Holders, m \in {k, i} :
            upTo(m)[v] = IF v \in Served(p, start, m) THEN Fee(quota[v]) ELSE 0
    BY DEF upTo, ServedFee, quota
  <2>10. CASE again \/ quota[u] = 0
    <3>1. f[i] = 0
      <4>1. WithFee(quota[u]) > 0 <=> quota[u] # 0  BY <1>1, <2>4
      <4> QED  BY <2>5, <2>6, <2>10, <4>1
    <3>2. \A v \in Holders : upTo(i)[v] = upTo(k)[v]
      BY <1>1, <2>4, <2>7, <2>8, <2>9, <2>10
    <3> HIDE DEF i, k
    <3>3. SumOver(upTo(i), Holders) = SumOver(upTo(k), Holders)
      BY <1>2, <3>2, SumSame
    <3>4. SumOver(upTo(k), Holders) \in Int  BY <1>2, <2>6, SumInt
    <3> QED  BY <2>1, <2>2, <2>3, <3>1, <3>3, <3>4
  <2>11. CASE ~again /\ quota[u] # 0
    <3>1. f[i] = Fee(quota[u]) /\ Fee(quota[u]) \in Nat
      BY <1>1, <2>4, <2>5, <2>11
    <3>2. upTo(i)[u] = Fee(quota[u]) /\ upTo(k)[u] = 0
      BY <1>1, <2>4, <2>7, <2>8, <2>9, <2>11
    <3>3. \A v \in Holders : v # u => upTo(i)[v] = upTo(k)[v]
      BY <2>7, <2>9
    <3> HIDE DEF i, k
    <3>4. SumOver(upTo(i), Holders)
              = SumOver(upTo(k), Holders) + (upTo(i)[u] - upTo(k)[u])
      <4> DEFINE A == upTo(k)
                 B == upTo(i)
      <4>1. /\ \A v \in Holders : A[v] \in Int
            /\ B[u] \in Int /\ \A v \in Holders : v # u => B[v] = A[v]
        BY <2>6, <3>1, <3>2, <3>3
      <4> HIDE DEF A, B
      <4>2. SumOver(B, Holders) = SumOver(A, Holders) + (B[u] - A[u])
        BY <1>2, <2>4, <4>1, SumChange
      <4> QED  BY <4>2 DEF A, B
    <3>5. SumOver(upTo(k), Holders) \in Int  BY <1>2, <2>6, SumInt
    <3> QED  BY <2>1, <2>2, <2>3, <3>1, <3>2, <3>4, <3>5
  <2> QED  BY <2>10, <2>11
<1>6. \A n \in Nat : n \in G
  <2> HIDE DEF G
  <2> QED  BY <1>4, <1>5, NumberInduction
<1>7. CASE start <= stop
  <2>1. stop - start \in Nat /\ start + (stop - start) = stop  BY <1>7
  <2>2. stop - start \in G  BY <1>6, <2>1
  <2> QED  BY <2>1, <2>2
<1>8. CASE start > stop
  <2>1. (start + 1)..stop = {}  BY <1>8
  <2>2. \A u \in Holders : upTo(stop)[u] = 0  BY <2>1 DEF ServedFee, Served
  <2>3. SumOver(upTo(stop), Holders) = 0
    <3> HIDE DEF upTo
    <3> QED  BY <1>2, <2>2, SumZero
  <2> QED  BY <2>1, <2>3, SumEmpty
<1> QED  BY <1>7, <1>8

\* A quota is what is paid for it and the fee; the pot and the total of the
\* quotas fall accordingly.
LEMMA DistributeEffect ==
  ASSUME CoreTypeOK, NEW p \in Policies, NoDust(p), NEW s \in Stablecoins,
         NEW start \in Nat, NEW stop \in Nat, stop <= Len(allDepositors[p]),
         _settlePolicy(p, s, start, stop), tokens' = tokens
  PROVE  \E Q, F \in Nat : F <= Q /\ Books(p, s, 0 - Q, 0, 0 - (Q - F), F)
<1> DEFINE quota == userQuota[p]
           after == QuotaAfter(p, start, stop)
           served == ServedQuota(p, start, stop)
           paid == PaidTo(p, start, stop)
           fee == ServedFee(p, start, stop)
           Q == SumOver(served, Holders)
           F == SumOver(fee, Holders)
<1>1. ASSUME NEW u \in Holders
      PROVE  /\ quota[u] \in Nat /\ after[u] \in Nat /\ served[u] \in Nat
             /\ paid[u] \in Nat /\ fee[u] \in Nat
             /\ quota[u] = after[u] + served[u] /\ served[u] = paid[u] + fee[u]
  <2>1. quota[u] \in Nat  BY DEF CoreTypeOK
  <2>2. /\ WithFee(quota[u]) \in Nat /\ Fee(quota[u]) \in Nat
        /\ WithFee(quota[u]) + Fee(quota[u]) = quota[u]
    <3> HIDE DEF quota
    <3> QED  BY <2>1, FeeParts DEF CoreTypeOK
  <2>3. CASE u \in Served(p, start, stop)
    BY <2>1, <2>2, <2>3 DEF QuotaAfter, ServedQuota, PaidTo, ServedFee
  <2>4. CASE u \notin Served(p, start, stop)
    BY <2>1, <2>2, <2>4 DEF QuotaAfter, ServedQuota, PaidTo, ServedFee
  <2> QED  BY <2>3, <2>4
<1>2. /\ quota \in [Holders -> Nat] /\ after \in [Holders -> Nat]
      /\ paid \in [Holders -> Nat]
  <2>1. quota \in [Holders -> Nat]  BY DEF CoreTypeOK
  <2>2. after \in [Holders -> Nat]  BY <1>1 DEF QuotaAfter
  <2>3. paid \in [Holders -> Nat]  BY <1>1 DEF PaidTo
  <2> QED  BY <2>1, <2>2, <2>3
<1>3. /\ userQuota'[p] = after
      /\ \A q \in Policies : q # p => userQuota'[q] = userQuota[q]
  BY DEF _settlePolicy, CoreTypeOK
<1>4. /\ stable'[s][Core] = stable[s][Core] - Total(paid, Holders)
      /\ \A c \in Stablecoins : c # s => stable'[c] = stable[c]
      /\ PendingIncome(s)' = PendingIncome(s)
             + SumOver(FeeAt(p, start, stop), (start + 1)..stop)
      /\ \A c \in Stablecoins : c # s => PendingIncome(c)' = PendingIncome(c)
  BY DistributeTyped, Zenon
<1>5. SumOver(FeeAt(p, start, stop), (start + 1)..stop) = F
  BY FeesOfServed, Zenon
<1> HIDE DEF quota, after, served, paid, fee
<1>6. IsFiniteSet(Holders)  BY HoldersFinite
<1>7. SumOver(quota, Holders) = SumOver(after, Holders) + SumOver(served, Holders)
  <2>1. \A u \in Holders : /\ after[u] \in Int /\ served[u] \in Int
                           /\ quota[u] = after[u] + served[u]
    BY <1>1
  <2> QED  BY <1>6, <2>1, SumPlus, Zenon
<1>8. SumOver(served, Holders) = SumOver(paid, Holders) + SumOver(fee, Holders)
  <2>1. \A u \in Holders : /\ paid[u] \in Int /\ fee[u] \in Int
                           /\ served[u] = paid[u] + fee[u]
    BY <1>1
  <2> QED  BY <1>6, <2>1, SumPlus, Zenon
<1>9. /\ SumOver(served, Holders) \in Nat /\ SumOver(fee, Holders) \in Nat
      /\ SumOver(paid, Holders) \in Nat /\ SumOver(after, Holders) \in Nat
  BY <1>1, <1>6, SumNat
<1>10. /\ Total(quota, Holders) = SumOver(quota, Holders)
       /\ Total(after, Holders) = SumOver(after, Holders)
       /\ Total(paid, Holders) = SumOver(paid, Holders)
  BY <1>2, TotalNat
<1>11. TotalQuota(p) = Total(quota, Holders) /\ TotalQuota(p)' = Total(after, Holders)
  BY <1>3 DEF TotalQuota, quota
<1>12. \A q \in Policies \ {p} : TotalQuota(q)' = TotalQuota(q)
  BY <1>3 DEF TotalQuota
<1>13. \A q \in Policies : TotalTokens(q)' = TotalTokens(q) /\ TotalTokens(q) \in Nat
  BY BooksNat DEF TotalTokens
<1> HIDE DEF Q, F
<1>14. /\ Q \in Nat /\ F \in Nat /\ F <= Q
       /\ Total(paid, Holders) = Q - F
       /\ TotalQuota(p)' = TotalQuota(p) + (0 - Q)
  <2> DEFINE a == SumOver(after, Holders)
             b == SumOver(paid, Holders)
  <2>1. a \in Nat /\ b \in Nat /\ Q \in Nat /\ F \in Nat /\ Q = b + F
        /\ Total(paid, Holders) = b
    BY <1>8, <1>9, <1>10 DEF Q, F
  <2>2. TotalQuota(p) = a + Q /\ TotalQuota(p)' = a
    BY <1>7, <1>10, <1>11 DEF Q
  <2> HIDE DEF a, b
  <2> QED  BY <2>1, <2>2
<1>15. stable'[s][Core] = stable[s][Core] + (0 - (Q - F))
  BY <1>4, <1>14, BooksNat
<1>16. Books(p, s, 0 - Q, 0, 0 - (Q - F), F)
  BY <1>4, <1>5, <1>12, <1>13, <1>14, <1>15 DEF Books, PotMoves
<1> QED  BY <1>14, <1>16

\* Collecting the income lowers the pot by what is pending.
LEMMA CollectEffect ==
  ASSUME CoreTypeOK, NEW s \in Stablecoins, collectIncome(s)
  PROVE  CoreTypeOK' /\ TotalsKept /\ \E d \in Nat : PotMoves(s, 0 - d, 0 - d)
<1> DEFINE L == stable[s]
           l == pendingIncomeToLottery[s]
           r == pendingIncomeToSharing[s]
           M == Move(L, Core, LotteryPool, l)
           N == Move(M, Core, SharingVault, r)
<1>1. /\ L[Core] >= l + r
      /\ stable' = [stable EXCEPT ![s] = N]
      /\ pendingIncomeToLottery' = [pendingIncomeToLottery EXCEPT ![s] = 0]
      /\ pendingIncomeToSharing' = [pendingIncomeToSharing EXCEPT ![s] = 0]
      /\ UNCHANGED <<now, tokens, setupVars, listVars, quotaVars, settleResult>>
  BY DEF collectIncome
<1>2. /\ stable \in [Stablecoins -> [Holders -> Nat]]
      /\ pendingIncomeToLottery \in [Stablecoins -> Nat]
      /\ pendingIncomeToSharing \in [Stablecoins -> Nat]
  BY DEF CoreTypeOK
<1>3. L \in [Holders -> Nat] /\ l \in Nat /\ r \in Nat  BY <1>2
<1>4. /\ Core \in Holders /\ LotteryPool \in Holders /\ SharingVault \in Holders
      /\ Core # LotteryPool /\ Core # SharingVault
  BY HolderAssumption DEF Holders
<1> HIDE DEF L, l, r
<1>5. M \in [Holders -> Nat] /\ M[Core] = L[Core] - l
  <2>1. L[Core] \in Nat /\ L[Core] >= l  BY <1>1, <1>3, <1>4
  <2> QED  BY <1>3, <1>4, <2>1, MoveEffect
<1> HIDE DEF M
<1>6. N \in [Holders -> Nat] /\ N[Core] = M[Core] - r
  <2>1. L[Core] \in Nat  BY <1>3, <1>4
  <2>2. M[Core] >= r  BY <1>1, <1>3, <1>5, <2>1
  <2> QED  BY <1>3, <1>4, <1>5, <2>2, MoveEffect
<1> HIDE DEF N
<1>7. CoreTypeOK'
  BY <1>1, <1>2, <1>6 DEF CoreTypeOK, setupVars, listVars, quotaVars
<1>8. TotalsKept
  BY <1>1 DEF TotalsKept, TotalQuota, TotalTokens, quotaVars
<1>9. PotMoves(s, 0 - (l + r), 0 - (l + r))
  <2>1. stable'[s][Core] = N[Core] /\ \A c \in Stablecoins : c # s => stable'[c] = stable[c]
    BY <1>1, <1>2
  <2>2. L[Core] \in Nat /\ N[Core] = L[Core] + (0 - (l + r))
    BY <1>3, <1>4, <1>5, <1>6
  <2>3. /\ PendingIncome(s)' = 0 /\ PendingIncome(s) = l + r
        /\ \A c \in Stablecoins : c # s => PendingIncome(c)' = PendingIncome(c)
    BY <1>1, <1>2 DEF PendingIncome, l, r
  <2> QED  BY <1>3, <2>1, <2>2, <2>3 DEF PotMoves, L
<1>10. l + r \in Nat  BY <1>3
<1> QED  BY <1>7, <1>8, <1>9, <1>10

\* Policy tokens that change hands stay in their total.
LEMMA TransferEffect ==
  ASSUME CoreTypeOK, NEW p \in Policies, NEW u \in Holders, NEW v \in Holders,
         u # v, NEW a \in Nat, transferPolicyToken(p, u, v, a)
  PROVE  CoreTypeOK' /\ TotalsKept
<1> DEFINE L == tokens[p]
           N == Move(L, u, v, a)
<1>1. /\ L[u] >= a /\ tokens' = [tokens EXCEPT ![p] = N]
      /\ UNCHANGED <<now, stable, setupVars, listVars, quotaVars, settleResult,
                     incomeVars>>
  BY DEF transferPolicyToken
<1>2. tokens \in [Policies -> [Holders -> Nat]] /\ L \in [Holders -> Nat]
  BY DEF CoreTypeOK
<1> HIDE DEF L
<1>3. /\ N \in [Holders -> Nat] /\ N[u] = L[u] - a /\ N[v] = L[v] + a
      /\ \A x \in Holders : x # u /\ x # v => N[x] = L[x]
  BY <1>1, <1>2, MoveEffect
<1> HIDE DEF N
<1>4. SumOver(N, Holders) = SumOver(L, Holders)
  <2>1. \A x \in Holders : L[x] \in Int /\ N[x] \in Int  BY <1>2, <1>3
  <2>2. N[u] + N[v] = L[u] + L[v]  BY <1>2, <1>3
  <2> QED  BY <1>3, <2>1, <2>2, HoldersFinite, SumTransfer
<1>5. CoreTypeOK'
  BY <1>1, <1>2, <1>3 DEF CoreTypeOK, setupVars, listVars, quotaVars, incomeVars
<1>6. tokens'[p] = N /\ \A q \in Policies : q # p => tokens'[q] = tokens[q]
  BY <1>1, <1>2
<1>7. TotalsKept
  <2>1. \A q \in Policies : TotalQuota(q)' = TotalQuota(q)
    BY <1>1 DEF TotalQuota, quotaVars
  <2>2. TotalTokens(p)' = Total(N, Holders) /\ TotalTokens(p) = Total(L, Holders)
    BY <1>6 DEF TotalTokens, L
  <2>3. \A q \in Policies : q # p => TotalTokens(q)' = TotalTokens(q)
    BY <1>6 DEF TotalTokens
  <2>4. Total(N, Holders) = Total(L, Holders)
    BY <1>2, <1>3, <1>4, TotalNat
  <2> QED  BY <2>1, <2>2, <2>3, <2>4 DEF TotalsKept
<1> QED  BY <1>5, <1>7

(***************************************************************************)
(* Types                                                                   *)
(***************************************************************************)
LEMMA InitTyped == CoreInit => CoreTypeOK
<1> SUFFICES ASSUME CoreInit PROVE CoreTypeOK  OBVIOUS
<1>1. Unsettled \in SettlementInfo  BY DEF Unsettled, SettlementInfo
<1>2. NoTerms \in TermsType  BY DEF NoTerms, TermsType, PoolTypes
<1>3. <<>> \in Seq(Holders)  OBVIOUS
<1>4. InitiallyWired \subseteq Roles /\ Start \in Nat /\ InitialBalance \in Nat
  BY ValueAssumption
<1> QED  BY <1>1, <1>2, <1>3, <1>4, CoinAssumption DEF CoreInit, CoreTypeOK

LEMMA SettleTyped ==
  ASSUME CoreTypeOK, NEW p \in Policies, settleFinalResult(p)
  PROVE  /\ CoreTypeOK' /\ TotalsKept
         /\ \A q \in Policies : q # p => settleResult'[q] = settleResult[q]
<1>1. UNCHANGED <<now, ledgerVars, setupVars, listVars, quotaVars, incomeVars>>
  BY DEF settleFinalResult
<1>2. PICK price \in PossiblePrices(p) :
          settleResult' = [settleResult EXCEPT ![p].alreadySettled = TRUE,
                               ![p].price = price,
                               ![p].isHappened = Happens(p, price)]
  BY DEF settleFinalResult
<1>3. Happens(p, price) \in BOOLEAN
  <2>1. /\ (price >= policyTokenInfo[p].strikePrice) \in BOOLEAN
        /\ (price <= policyTokenInfo[p].strikePrice) \in BOOLEAN
    OBVIOUS
  <2> QED  BY <2>1, Zenon DEF Happens
<1> DEFINE happens == Happens(p, price)
<1> HIDE DEF happens
<1>4. price \in Nat
  <2>1. policyTokenInfo[p].poolType \in PoolTypes  BY DEF CoreTypeOK, TermsType
  <2>2. PossiblePrices(p) \subseteq Prices
    BY <2>1, Zenon DEF PossiblePrices, PoolTypes
  <2> QED  BY <2>2, ValueAssumption
<1>5. settleResult \in [Policies -> SettlementInfo]  BY DEF CoreTypeOK
<1>6. settleResult' = [settleResult EXCEPT ![p].alreadySettled = TRUE,
                           ![p].price = price, ![p].isHappened = happens]
  BY <1>2 DEF happens
<1>7. happens \in BOOLEAN  BY <1>3 DEF happens
<1>8. settleResult' \in [Policies -> SettlementInfo]
  <2>1. settleResult[p] \in SettlementInfo  BY <1>5
  <2>2. [settleResult[p] EXCEPT !.alreadySettled = TRUE, !.price = price,
                                !.isHappened = happens] \in SettlementInfo
    BY <1>4, <1>7, <2>1 DEF SettlementInfo
  <2> QED  BY <1>5, <1>6, <2>2
<1>9. CoreTypeOK'
  BY <1>1, <1>8 DEF CoreTypeOK, ledgerVars, setupVars, listVars, quotaVars, incomeVars
<1>10. TotalsKept
  BY <1>1 DEF TotalsKept, TotalQuota, TotalTokens, ledgerVars, quotaVars
<1> QED  BY <1>5, <1>6, <1>9, <1>10

\* A distribution: its bounds lie within the list.
LEMMA DistributeBounds ==
  ASSUME CoreTypeOK, NEW p \in Policies, NEW s \in Stablecoins,
         NEW start \in 0..MaxDepositors, NEW stop \in 0..MaxDepositors,
         settleAllPolicyTokens(p, s, start, stop)
  PROVE  /\ GotResult(p) /\ ~settleResult[p].isHappened
         /\ \E last \in Nat :
                /\ start \in Nat /\ last <= Len(allDepositors[p])
                /\ _settlePolicy(p, s, start, last)
                /\ settleResult' = [settleResult EXCEPT
                                        ![p].currentDistributionIndex = last]
         /\ UNCHANGED <<now, tokens, setupVars, listVars, allDepositors>>
<1> DEFINE length == Len(allDepositors[p])
           last == IF start = 0 /\ stop = 0 THEN length ELSE stop
<1>1. length \in Nat /\ start \in Nat /\ stop \in Nat
  BY ValueAssumption DEF CoreTypeOK
<1>2. /\ GotResult(p) /\ ~settleResult[p].isHappened
      /\ \/ start = 0 /\ stop = 0
         \/ stop < length
      /\ _settlePolicy(p, s, start, last)
      /\ settleResult' = [settleResult EXCEPT ![p].currentDistributionIndex = last]
      /\ UNCHANGED <<now, tokens, setupVars, listVars, allDepositors>>
  BY DEF settleAllPolicyTokens
<1>3. last \in Nat /\ last <= length  BY <1>1, <1>2
<1> HIDE DEF last
<1> QED  BY <1>1, <1>2, <1>3

LEMMA AllDistributeTyped ==
  ASSUME CoreTypeOK, NEW p \in Policies, NEW s \in Stablecoins,
         NEW start \in 0..MaxDepositors, NEW stop \in 0..MaxDepositors,
         settleAllPolicyTokens(p, s, start, stop)
  PROVE  CoreTypeOK'
<1>1. PICK last \in Nat :
          /\ start \in Nat /\ last <= Len(allDepositors[p])
          /\ _settlePolicy(p, s, start, last)
          /\ settleResult' = [settleResult EXCEPT
                                  ![p].currentDistributionIndex = last]
  BY DistributeBounds, Zenon
<1>2. UNCHANGED <<now, tokens, setupVars, listVars, allDepositors>>
  BY DEF settleAllPolicyTokens
<1>3. /\ stable' \in [Stablecoins -> [Holders -> Nat]]
      /\ userQuota' \in [Policies -> [Holders -> Nat]]
      /\ pendingIncomeToLottery' \in [Stablecoins -> Nat]
      /\ pendingIncomeToSharing' \in [Stablecoins -> Nat]
  BY <1>1, DistributeTyped, Zenon
<1>4. settleResult' \in [Policies -> SettlementInfo]
  BY <1>1 DEF CoreTypeOK, SettlementInfo
<1> QED  BY <1>2, <1>3, <1>4 DEF CoreTypeOK, setupVars, listVars

\* The owner's functions and the passage of time leave the money alone.
LEMMA SetupTyped ==
  ASSUME CoreTypeOK, Tick \/ CoreOwner
  PROVE  /\ CoreTypeOK' /\ TotalsKept
         /\ UNCHANGED <<ledgerVars, quotaVars, settleResult, incomeVars>>
<1> DEFINE Money == UNCHANGED <<ledgerVars, quotaVars, settleResult, incomeVars>>
<1>1. Money => TotalsKept
  BY DEF TotalsKept, TotalQuota, TotalTokens, ledgerVars, quotaVars
<1>2. CASE Tick
  <2>1. Money /\ UNCHANGED <<setupVars, listVars>> /\ now' \in Nat
    BY <1>2, ValueAssumption DEF Tick
  <2>2. CoreTypeOK'
    BY <2>1 DEF CoreTypeOK, ledgerVars, setupVars, listVars, quotaVars, incomeVars
  <2> QED  BY <1>1, <2>1, <2>2
<1>3. ASSUME NEW p \in Policies, NEW terms \in Terms, deployPolicyToken(p, terms)
      PROVE  CoreTypeOK' /\ Money
  <2>1. terms \in TermsType  BY ValueAssumption
  <2>2. /\ Money /\ UNCHANGED <<now, setupVars, whichStablecoin, pools>>
        /\ deployed' = deployed \cup {p}
        /\ policyTokenInfo' = [policyTokenInfo EXCEPT ![p] = terms]
    BY <1>3 DEF deployPolicyToken
  <2>3. CoreTypeOK'
    BY <2>1, <2>2 DEF CoreTypeOK, ledgerVars, setupVars, quotaVars, incomeVars
  <2> QED  BY <2>2, <2>3
<1>4. ASSUME NEW p \in Policies, NEW s \in Stablecoins,
             deployPool(p, s, policyTokenInfo[p].deadline)
      PROVE  CoreTypeOK' /\ Money
  <2>1. /\ Money /\ UNCHANGED <<now, setupVars, deployed, policyTokenInfo>>
        /\ pools' = pools \cup {<<p, s>>}
        /\ whichStablecoin' = [whichStablecoin EXCEPT ![p] = s]
    BY <1>4 DEF deployPool
  <2>2. CoreTypeOK'
    BY <2>1 DEF CoreTypeOK, ledgerVars, setupVars, quotaVars, incomeVars
  <2> QED  BY <2>1, <2>2
<1>5. ASSUME NEW s \in Stablecoins, addStablecoin(s) PROVE CoreTypeOK' /\ Money
  <2>1. /\ Money /\ UNCHANGED <<now, wired, toLotteryPart, listVars>>
        /\ supportedStablecoin' = supportedStablecoin \cup {s}
    BY <1>5 DEF addStablecoin
  <2>2. CoreTypeOK'
    BY <2>1 DEF CoreTypeOK, ledgerVars, listVars, quotaVars, incomeVars
  <2> QED  BY <2>1, <2>2
<1>6. ASSUME NEW part \in LotteryParts, setIncomeToLottery(part)
      PROVE  CoreTypeOK' /\ Money
  <2>1. /\ Money /\ UNCHANGED <<now, wired, supportedStablecoin, listVars>>
        /\ toLotteryPart' = part /\ part \in 0..10
    BY <1>6, ValueAssumption DEF setIncomeToLottery
  <2>2. CoreTypeOK'
    BY <2>1 DEF CoreTypeOK, ledgerVars, listVars, quotaVars, incomeVars
  <2> QED  BY <2>1, <2>2
<1>7. ASSUME NEW role \in Roles, setAddress(role) PROVE CoreTypeOK' /\ Money
  <2>1. /\ Money /\ UNCHANGED <<now, supportedStablecoin, toLotteryPart, listVars>>
        /\ wired' = wired \cup {role}
    BY <1>7 DEF setAddress
  <2>2. CoreTypeOK'
    BY <2>1 DEF CoreTypeOK, ledgerVars, listVars, quotaVars, incomeVars
  <2> QED  BY <2>1, <2>2
<1> HIDE DEF Money
<1>8. CoreOwner => CoreTypeOK' /\ Money
  BY <1>3, <1>4, <1>5, <1>6, <1>7 DEF CoreOwner
<1> QED  BY <1>1, <1>2, <1>8 DEF Money

LEMMA AmountsNat == \A a \in Amounts : a \in Nat /\ a # 0
  BY ValueAssumption

LEMMA NextTyped == ASSUME CoreTypeOK, [CoreNext]_coreVars PROVE CoreTypeOK'
<1>1. CASE Tick \/ CoreOwner  BY <1>1, SetupTyped
<1>2. CASE CoreUser
  <2>1. PICK p \in Policies, s \in Stablecoins, u \in Users :
            \/ redeemAfterSettlement(p, s, u)
            \/ \E a \in Amounts :
                   deposit(p, s, a, u) \/ redeem(p, s, a, u) \/ claim(p, s, a, u)
    BY <1>2 DEF CoreUser
  <2>2. CASE redeemAfterSettlement(p, s, u)
    BY <2>2, RedeemAfterSettlementEffect, Zenon
  <2>3. ASSUME NEW a \in Amounts,
               deposit(p, s, a, u) \/ redeem(p, s, a, u) \/ claim(p, s, a, u)
        PROVE  CoreTypeOK'
    <3>1. a \in Nat  BY AmountsNat
    <3>2. CASE deposit(p, s, a, u)  BY <3>1, <3>2, DepositEffect, Zenon DEF deposit
    <3>3. CASE redeem(p, s, a, u)  BY <3>1, <3>3, RedeemEffect, Zenon
    <3>4. CASE claim(p, s, a, u)  BY <3>1, <3>4, ClaimEffect, Zenon
    <3> QED  BY <2>3, <3>2, <3>3, <3>4
  <2> QED  BY <2>1, <2>2, <2>3
<1>3. CASE CoreTransfer
  <2>1. PICK p \in Policies, u, v \in Traders, a \in Amounts :
            u # v /\ transferPolicyToken(p, u, v, a)
    BY <1>3 DEF CoreTransfer
  <2>2. u \in Holders /\ v \in Holders /\ a \in Nat
    BY HolderAssumption, UserNotCore, AmountsNat
  <2> QED  BY <2>1, <2>2, TransferEffect, Zenon
<1>4. CASE CoreSettle  BY <1>4, SettleTyped, Zenon DEF CoreSettle
<1>5. CASE CoreDistribute  BY <1>5, AllDistributeTyped, Zenon DEF CoreDistribute
<1>6. CASE CoreCollect  BY <1>6, CollectEffect, Zenon DEF CoreCollect
<1>7. CASE UNCHANGED coreVars
  BY <1>7 DEF coreVars, CoreTypeOK, ledgerVars, setupVars, listVars, quotaVars, incomeVars
<1> QED  BY <1>1, <1>2, <1>3, <1>4, <1>5, <1>6, <1>7 DEF CoreNext

\* Balances, quotas and pending income never fall below zero, in whatever
\* order users, the owner and the settlement act.
THEOREM CoreTypeCorrect == CoreSpec => []CoreTypeOK
<1> QED  BY InitTyped, NextTyped, PTL DEF CoreSpec

(***************************************************************************)
(* As many policy tokens as quotas                                         *)
(***************************************************************************)
\* A policy with a stablecoin has a pool, and one without has no deposits.
PoolsNamed ==
    \A p \in Policies :
        whichStablecoin[p] # NoCoin => <<p, whichStablecoin[p]>> \in pools

NothingWithoutPool ==
    \A p \in Policies :
        whichStablecoin[p] = NoCoin => TotalQuota(p) = 0 /\ TotalTokens(p) = 0

\* Quotas may lie idle: idle[p] of the quotas of p, which nobody can use, have
\* no policy token and no claim on the pot.  The core alone has none.
Idle == [Policies -> Int]

NoIdle == [p \in Policies |-> 0]

QuotaMatches(idle) ==
    \A p \in Policies : ~GotResult(p) => TotalQuota(p) = TotalTokens(p) + idle[p]

CoinInv(idle) ==
    /\ PoolsNamed /\ NothingWithoutPool /\ QuotaMatches(idle)
    /\ \A p \in Policies : whichStablecoin[p] = NoCoin => idle[p] = 0

LEMMA NoIdleTyped == NoIdle \in Idle /\ \A p \in Policies : NoIdle[p] = 0
  BY DEF NoIdle, Idle

\* Coins, pools and results stay, the totals too.
LEMMA KeepsCoinInv ==
  ASSUME NEW idle \in Idle, CoinInv(idle), TotalsKept, UNCHANGED <<whichStablecoin, pools>>,
         \A q \in Policies : GotResult(q) => GotResult(q)'
  PROVE  CoinInv(idle)'
<1>1. PoolsNamed'  BY DEF CoinInv, PoolsNamed
<1>2. NothingWithoutPool'  BY DEF CoinInv, NothingWithoutPool, TotalsKept
<1>3. QuotaMatches(idle)'  BY DEF CoinInv, QuotaMatches, TotalsKept
<1> QED  BY <1>1, <1>2, <1>3 DEF CoinInv

\* Quotas and tokens of a policy with a coin move together, or its result is
\* known.
LEMMA BooksKeepCoinInv ==
  ASSUME CoreTypeOK, NEW idle \in Idle, CoinInv(idle), NEW p \in Policies, NEW s,
         NEW quotas \in Int, NEW issued \in Int, NEW pot, NEW pending,
         Books(p, s, quotas, issued, pot, pending),
         whichStablecoin[p] # NoCoin, quotas = issued \/ GotResult(p),
         UNCHANGED <<whichStablecoin, pools, settleResult>>
  PROVE  CoinInv(idle)'
<1>1. /\ TotalQuota(p)' = TotalQuota(p) + quotas
      /\ TotalTokens(p)' = TotalTokens(p) + issued
      /\ \A q \in Policies : q # p => /\ TotalQuota(q)' = TotalQuota(q)
                                      /\ TotalTokens(q)' = TotalTokens(q)
  BY DEF Books
<1>2. TotalQuota(p) \in Nat /\ TotalTokens(p) \in Nat  BY BooksNat
<1>3. \A q \in Policies : GotResult(q)' <=> GotResult(q)  BY DEF GotResult
<1>4. PoolsNamed'  BY DEF CoinInv, PoolsNamed
<1>5. NothingWithoutPool'
  BY <1>1 DEF CoinInv, NothingWithoutPool
<1>6. QuotaMatches(idle)'
  <2> SUFFICES ASSUME NEW q \in Policies, ~GotResult(q)'
               PROVE  TotalQuota(q)' = TotalTokens(q)' + idle[q]
    BY DEF QuotaMatches
  <2>1. TotalQuota(q) = TotalTokens(q) + idle[q] /\ idle[q] \in Int
    BY <1>3 DEF CoinInv, QuotaMatches, Idle
  <2>2. CASE q = p  BY <1>1, <1>2, <1>3, <2>1, <2>2
  <2>3. CASE q # p  BY <1>1, <2>1, <2>3
  <2> QED  BY <2>2, <2>3
<1> QED  BY <1>4, <1>5, <1>6 DEF CoinInv

\* A distribution lowers the quotas of a policy whose result is known.
LEMMA DistributeKeepsCoinInv ==
  ASSUME CoreTypeOK, NEW idle \in Idle, CoinInv(idle), NEW p \in Policies, NEW s \in Stablecoins,
         NEW start \in 0..MaxDepositors, NEW stop \in 0..MaxDepositors,
         settleAllPolicyTokens(p, s, start, stop)
  PROVE  CoinInv(idle)'
<1>1. PICK last \in Nat :
          /\ start \in Nat /\ last <= Len(allDepositors[p])
          /\ _settlePolicy(p, s, start, last)
          /\ settleResult' = [settleResult EXCEPT
                                  ![p].currentDistributionIndex = last]
  BY DistributeBounds, Zenon
<1>2. /\ GotResult(p)
      /\ UNCHANGED <<tokens, whichStablecoin, pools>>
  BY DEF settleAllPolicyTokens, listVars
<1>3. \A q \in Policies : GotResult(q)' <=> GotResult(q)
  BY <1>1 DEF GotResult, CoreTypeOK, SettlementInfo
<1> DEFINE quota == userQuota[p]
           after == QuotaAfter(p, start, last)
<1>4. /\ userQuota'[p] = after
      /\ \A q \in Policies : q # p => userQuota'[q] = userQuota[q]
  BY <1>1 DEF _settlePolicy, CoreTypeOK
<1>5. \A u \in Holders : /\ quota[u] \in Nat /\ after[u] \in Nat
                         /\ after[u] <= quota[u]
  BY DEF CoreTypeOK, QuotaAfter
<1>6. quota \in [Holders -> Nat] /\ after \in [Holders -> Nat]
  BY DEF CoreTypeOK, QuotaAfter
<1>7. TotalQuota(p) = Total(quota, Holders) /\ TotalQuota(p)' = Total(after, Holders)
  BY <1>4 DEF TotalQuota
<1> HIDE DEF quota, after
<1>8. TotalQuota(p)' \in Nat /\ TotalQuota(p)' <= TotalQuota(p) /\ TotalQuota(p) \in Nat
  <2>1. \A u \in Holders : /\ after[u] \in Int /\ quota[u] \in Int
                           /\ after[u] <= quota[u]
    BY <1>5
  <2>2. SumOver(after, Holders) <= SumOver(quota, Holders)
    BY <2>1, HoldersFinite, SumLeq, Zenon
  <2> QED  BY <1>6, <1>7, <2>2, TotalNat
<1>9. \A q \in Policies : /\ q # p => TotalQuota(q)' = TotalQuota(q)
                          /\ TotalTokens(q)' = TotalTokens(q)
  BY <1>2, <1>4 DEF TotalQuota, TotalTokens
<1>10. PoolsNamed'  BY <1>2 DEF CoinInv, PoolsNamed
<1>11. NothingWithoutPool'
  <2> SUFFICES ASSUME NEW q \in Policies, whichStablecoin[q] = NoCoin
               PROVE  TotalQuota(q)' = 0 /\ TotalTokens(q)' = 0
    BY <1>2 DEF NothingWithoutPool
  <2>1. TotalQuota(q) = 0 /\ TotalTokens(q) = 0  BY DEF CoinInv, NothingWithoutPool
  <2>2. CASE q = p  BY <1>8, <1>9, <2>1, <2>2
  <2>3. CASE q # p  BY <1>9, <2>1, <2>3
  <2> QED  BY <2>2, <2>3
<1>12. QuotaMatches(idle)'
  <2> SUFFICES ASSUME NEW q \in Policies, ~GotResult(q)'
               PROVE  TotalQuota(q)' = TotalTokens(q)' + idle[q]
    BY DEF QuotaMatches
  <2>1. q # p /\ TotalQuota(q) = TotalTokens(q) + idle[q]
    BY <1>2, <1>3 DEF CoinInv, QuotaMatches
  <2> QED  BY <1>9, <2>1
<1> QED  BY <1>2, <1>10, <1>11, <1>12 DEF CoinInv

LEMMA InitCoinInv == CoreInit => CoinInv(NoIdle)
<1> SUFFICES ASSUME CoreInit PROVE CoinInv(NoIdle)  OBVIOUS
<1>1. \A p \in Policies : TotalQuota(p) = 0 /\ TotalTokens(p) = 0
  <2> DEFINE Z == [a \in Holders |-> 0]
  <2>1. \A a \in Holders : Z[a] = 0  OBVIOUS
  <2>2. Z \in [Holders -> Nat]  OBVIOUS
  <2>3. \A p \in Policies : userQuota[p] = Z /\ tokens[p] = Z  BY DEF CoreInit
  <2> HIDE DEF Z
  <2>4. Total(Z, Holders) = 0
    BY <2>1, <2>2, HoldersFinite, SumZero, TotalNat
  <2> QED  BY <2>3, <2>4 DEF TotalQuota, TotalTokens
<1>2. PoolsNamed  BY DEF CoreInit, PoolsNamed
<1>3. NothingWithoutPool  BY <1>1 DEF NothingWithoutPool
<1>4. QuotaMatches(NoIdle)  BY <1>1, NoIdleTyped DEF QuotaMatches
<1> QED  BY <1>2, <1>3, <1>4, NoIdleTyped DEF CoinInv

\* A policy is settled once: its result is not lost.
LEMMA SettleKeepsResults ==
  ASSUME CoreTypeOK, NEW p \in Policies, settleFinalResult(p)
  PROVE  /\ \A q \in Policies : GotResult(q) => GotResult(q)'
         /\ ~GotResult(p) /\ UNCHANGED <<whichStablecoin, pools>>
<1>1. \A q \in Policies : q # p => settleResult'[q] = settleResult[q]
  BY SettleTyped, Zenon
<1>2. ~GotResult(p)  BY DEF settleFinalResult, CanSettle, GotResult
<1>3. UNCHANGED <<whichStablecoin, pools>>  BY DEF settleFinalResult, listVars
<1> QED  BY <1>1, <1>2, <1>3 DEF GotResult

LEMMA DeployPoolKeepsCoinInv ==
  ASSUME CoreTypeOK, NEW idle \in Idle, CoinInv(idle), NEW p \in Policies, NEW s \in Stablecoins, NEW d,
         deployPool(p, s, d)
  PROVE  CoinInv(idle)'
<1>1. /\ pools' = pools \cup {<<p, s>>}
      /\ whichStablecoin' = [whichStablecoin EXCEPT ![p] = s]
      /\ UNCHANGED <<ledgerVars, quotaVars, settleResult>>
  BY DEF deployPool
<1>2. whichStablecoin \in [Policies -> Stablecoins \cup {NoCoin}]  BY DEF CoreTypeOK
<1>3. PoolsNamed'  BY <1>1, <1>2 DEF CoinInv, PoolsNamed
<1>4. \A q \in Policies : /\ TotalQuota(q)' = TotalQuota(q)
                          /\ TotalTokens(q)' = TotalTokens(q)
                          /\ GotResult(q)' <=> GotResult(q)
  BY <1>1 DEF TotalQuota, TotalTokens, GotResult, ledgerVars, quotaVars
<1>5. NothingWithoutPool'
  BY <1>1, <1>2, <1>4, CoinAssumption DEF CoinInv, NothingWithoutPool
<1>6. QuotaMatches(idle)'  BY <1>4 DEF CoinInv, QuotaMatches
<1>7. \A q \in Policies : whichStablecoin'[q] = NoCoin => whichStablecoin[q] = NoCoin
  BY <1>1, <1>2, CoinAssumption
<1> QED  BY <1>3, <1>5, <1>6, <1>7 DEF CoinInv

LEMMA NextCoinInv ==
  ASSUME CoreTypeOK, NEW idle \in Idle, CoinInv(idle), [CoreNext]_coreVars
  PROVE  CoinInv(idle)'
<1>1. ASSUME TotalsKept, UNCHANGED <<listVars, settleResult>> PROVE CoinInv(idle)'
  BY <1>1, KeepsCoinInv DEF listVars, GotResult
<1>2. CASE Tick
  BY <1>1, <1>2, SetupTyped DEF Tick
<1>3. CASE CoreUser
  <2>1. PICK p \in Policies, s \in Stablecoins, u \in Users :
            \/ redeemAfterSettlement(p, s, u)
            \/ \E a \in Amounts :
                   deposit(p, s, a, u) \/ redeem(p, s, a, u) \/ claim(p, s, a, u)
    BY <1>3 DEF CoreUser
  <2>2. s # NoCoin  BY CoinAssumption
  <2>3. CASE redeemAfterSettlement(p, s, u)
    <3>1. /\ whichStablecoin[p] # NoCoin /\ GotResult(p)
          /\ UNCHANGED <<whichStablecoin, pools, settleResult>>
      BY <2>2, <2>3 DEF redeemAfterSettlement, validPolicyTokenWithStablecoin, listVars
    <3>2. PICK a \in Nat : Books(p, s, 0 - a, 0, 0 - WithFee(a), Fee(a))
      BY <2>3, RedeemAfterSettlementEffect, Zenon
    <3>3. 0 - a \in Int /\ 0 \in Int  OBVIOUS
    <3> QED  BY <3>1, <3>2, <3>3, BooksKeepCoinInv, Zenon
  <2>4. ASSUME NEW a \in Amounts, deposit(p, s, a, u) PROVE CoinInv(idle)'
    <3>1. /\ whichStablecoin[p] # NoCoin
          /\ UNCHANGED <<whichStablecoin, pools, settleResult>>
      BY <2>2, <2>4 DEF deposit, _deposit, CanDeposit, validPolicyTokenWithStablecoin,
                        listVars
    <3>2. a \in Nat  BY AmountsNat
    <3>3. Books(p, s, a, a, a, 0)  BY <2>4, <3>2, DepositEffect, Zenon DEF deposit
    <3>4. a \in Int  BY <3>2
    <3> QED  BY <3>1, <3>3, <3>4, BooksKeepCoinInv, Zenon
  <2>5. ASSUME NEW a \in Amounts, redeem(p, s, a, u) PROVE CoinInv(idle)'
    <3>1. /\ whichStablecoin[p] # NoCoin
          /\ UNCHANGED <<whichStablecoin, pools, settleResult>>
      BY <2>2, <2>5 DEF redeem, validPolicyTokenWithStablecoin, listVars
    <3>2. a \in Nat  BY AmountsNat
    <3>3. Books(p, s, 0 - a, 0 - a, 0 - WithFee(a), Fee(a))
      BY <2>5, <3>2, RedeemEffect, Zenon
    <3>4. 0 - a \in Int  BY <3>2
    <3> QED  BY <3>1, <3>3, <3>4, BooksKeepCoinInv, Zenon
  <2>6. ASSUME NEW a \in Amounts, claim(p, s, a, u) PROVE CoinInv(idle)'
    <3>1. /\ whichStablecoin[p] # NoCoin /\ GotResult(p)
          /\ UNCHANGED <<whichStablecoin, pools, settleResult>>
      BY <2>2, <2>6 DEF claim, validPolicyTokenWithStablecoin, listVars
    <3>2. a \in Nat  BY AmountsNat
    <3>3. Books(p, s, 0, 0 - a, 0 - WithFee(a), Fee(a))
      BY <2>6, <3>2, ClaimEffect, Zenon
    <3>4. 0 - a \in Int /\ 0 \in Int  BY <3>2
    <3> QED  BY <3>1, <3>3, <3>4, BooksKeepCoinInv, Zenon
  <2> QED  BY <2>1, <2>3, <2>4, <2>5, <2>6
<1>4. CASE CoreTransfer
  <2>1. PICK p \in Policies, u, v \in Traders, a \in Amounts :
            u # v /\ transferPolicyToken(p, u, v, a)
    BY <1>4 DEF CoreTransfer
  <2>2. u \in Holders /\ v \in Holders /\ a \in Nat
    BY HolderAssumption, UserNotCore, AmountsNat
  <2>3. TotalsKept  BY <2>1, <2>2, TransferEffect, Zenon
  <2> QED  BY <1>1, <2>1, <2>3 DEF transferPolicyToken
<1>5. CASE CoreSettle
  <2>1. PICK p \in Policies : settleFinalResult(p)  BY <1>5 DEF CoreSettle
  <2>2. TotalsKept  BY <2>1, SettleTyped, Zenon
  <2>3. \A q \in Policies : GotResult(q) => GotResult(q)'
    BY <2>1, SettleKeepsResults, Zenon
  <2>4. UNCHANGED <<whichStablecoin, pools>>
    BY <2>1, SettleKeepsResults, Zenon
  <2> QED  BY <2>2, <2>3, <2>4, KeepsCoinInv
<1>6. CASE CoreDistribute
  BY <1>6, DistributeKeepsCoinInv, Zenon DEF CoreDistribute
<1>7. CASE CoreCollect
  <2>1. PICK s \in Stablecoins : collectIncome(s)  BY <1>7 DEF CoreCollect
  <2>2. TotalsKept  BY <2>1, CollectEffect, Zenon
  <2> QED  BY <1>1, <2>1, <2>2 DEF collectIncome
<1>8. CASE CoreOwner
  <2>1. TotalsKept /\ UNCHANGED settleResult  BY <1>8, SetupTyped
  <2>2. ASSUME NEW p \in Policies, NEW s \in Stablecoins,
               deployPool(p, s, policyTokenInfo[p].deadline)
        PROVE  CoinInv(idle)'
    BY <2>2, DeployPoolKeepsCoinInv, Zenon
  <2>3. ASSUME UNCHANGED <<whichStablecoin, pools>> PROVE CoinInv(idle)'
    BY <2>1, <2>3, KeepsCoinInv DEF GotResult
  <2>4. ASSUME NEW p \in Policies, NEW terms \in Terms, deployPolicyToken(p, terms)
        PROVE  CoinInv(idle)'
    BY <2>3, <2>4 DEF deployPolicyToken
  <2>5. ASSUME NEW s \in Stablecoins, addStablecoin(s) PROVE CoinInv(idle)'
    BY <2>3, <2>5 DEF addStablecoin, listVars
  <2>6. ASSUME NEW part \in LotteryParts, setIncomeToLottery(part) PROVE CoinInv(idle)'
    BY <2>3, <2>6 DEF setIncomeToLottery, listVars
  <2>7. ASSUME NEW role \in Roles, setAddress(role) PROVE CoinInv(idle)'
    BY <2>3, <2>7 DEF setAddress, listVars
  <2> QED  BY <1>8, <2>2, <2>4, <2>5, <2>6, <2>7 DEF CoreOwner
<1>9. CASE UNCHANGED coreVars
  <2>1. TotalsKept
    BY <1>9 DEF coreVars, ledgerVars, quotaVars, TotalsKept, TotalQuota, TotalTokens
  <2> QED  BY <1>1, <1>9, <2>1 DEF coreVars
<1> QED  BY <1>2, <1>3, <1>4, <1>5, <1>6, <1>7, <1>8, <1>9 DEF CoreNext

LEMMA CoinsNamed == CoreSpec => []CoinInv(NoIdle)
<1>1. CoreTypeOK /\ CoinInv(NoIdle) /\ [CoreNext]_coreVars => CoinInv(NoIdle)'
  BY NextCoinInv, NoIdleTyped
<1> QED  BY <1>1, InitCoinInv, CoreTypeCorrect, PTL DEF CoreSpec

LEMMA NoIdleMatches ==
  ASSUME CoreTypeOK, CoinInv(NoIdle) PROVE QuotaMatchesSupply
  BY BooksNat, NoIdleTyped DEF CoinInv, QuotaMatches, QuotaMatchesSupply

\* Deposits and redemptions move policy tokens and quotas together, transfers
\* of tokens keep their number: until the result is known both outcomes are
\* covered, for any number of users, policies and stablecoins.
THEOREM QuotasMatchSupply == CoreSpec => []QuotaMatchesSupply
<1>1. CoreTypeOK /\ CoinInv(NoIdle) => QuotaMatchesSupply  BY NoIdleMatches
<1> QED  BY <1>1, CoreTypeCorrect, CoinsNamed, PTL

(***************************************************************************)
(* The pot                                                                 *)
(***************************************************************************)
OwesQuotas(p) == GotResult(p) /\ ~settleResult[p].isHappened

\* What the pot of coin s owes, policy by policy; idle quotas are not due.
Due(idle, p) == IF OwesQuotas(p) THEN TotalQuota(p) - idle[p] ELSE TotalTokens(p)

Debts(idle, s) ==
    [p \in Policies |-> IF whichStablecoin[p] = s THEN Due(idle, p) ELSE 0]

PotCovers(idle) ==
    \A s \in Stablecoins :
        stable[s][Core] = SumOver(Debts(idle, s), Policies) + PendingIncome(s)

\* Debts are numbers.
DebtsTyped ==
    /\ \A p \in Policies : TotalQuota(p) \in Nat /\ TotalTokens(p) \in Nat
    /\ \A idle \in Idle, p \in Policies :
           /\ Due(idle, p) \in Int
           /\ OwesQuotas(p) => Due(idle, p) = TotalQuota(p) - idle[p]
           /\ ~OwesQuotas(p) => Due(idle, p) = TotalTokens(p)
    /\ \A idle \in Idle : \A s : \A p \in Policies : Debts(idle, s)[p] \in Int
    /\ \A idle \in Idle : \A s : SumOver(Debts(idle, s), Policies) \in Int

LEMMA DueTyped == CoreTypeOK => DebtsTyped
<1> SUFFICES ASSUME CoreTypeOK PROVE DebtsTyped  OBVIOUS
<1>1. \A p \in Policies : TotalQuota(p) \in Nat /\ TotalTokens(p) \in Nat
  BY BooksNat
<1>2. \A idle \in Idle, p \in Policies :
          /\ Due(idle, p) \in Int
          /\ OwesQuotas(p) => Due(idle, p) = TotalQuota(p) - idle[p]
          /\ ~OwesQuotas(p) => Due(idle, p) = TotalTokens(p)
  BY <1>1 DEF Due, Idle
<1>3. ASSUME NEW idle \in Idle, NEW s PROVE \A p \in Policies : Debts(idle, s)[p] \in Int
  BY <1>2 DEF Debts
<1>4. ASSUME NEW idle \in Idle, NEW s PROVE SumOver(Debts(idle, s), Policies) \in Int
  <2> DEFINE D == Debts(idle, s)
  <2>1. \A p \in Policies : D[p] \in Int  BY <1>3
  <2> HIDE DEF D
  <2>2. SumOver(D, Policies) \in Int  BY <2>1, FiniteAssumption, SumInt
  <2> QED  BY <2>2 DEF D
<1> QED  BY <1>1, <1>2, <1>3, <1>4 DEF DebtsTyped

LEMMA DueTypedNext == CoreTypeOK' => DebtsTyped'
  BY DueTyped, PTL

\* Without idle quotas, what is due is what the policies owe.
LEMMA DueIsOwed ==
  ASSUME CoreTypeOK, NEW p \in Policies PROVE Due(NoIdle, p) = Owed(p)
  BY BooksNat, NoIdleTyped DEF Due, Owed, OwesQuotas

\* The sum over the policies of a coin, which CorePotSolvent takes, is the sum
\* of the debts over all policies.
LEMMA OwedIsSum ==
  ASSUME CoreTypeOK, NEW s
  PROVE  MapThenSumSet(Owed, {p \in Policies : whichStablecoin[p] = s})
             = SumOver(Debts(NoIdle, s), Policies)
<1> DEFINE P == {p \in Policies : whichStablecoin[p] = s}
           f == Debts(NoIdle, s)
           Solves(e) == e = [t \in SUBSET P |->
                    IF t = {} THEN 0
                    ELSE Owed(CHOOSE x \in t : TRUE)
                         + e[t \ {CHOOSE x \in t : TRUE}]]
           h == CHOOSE e : Solves(e)
<1>1. MapThenSumSet(Owed, P) = h[P]  BY DEF MapThenSumSet, MapThenFoldSet
<1>2. IsFiniteSet(P)  BY FiniteAssumption, FS_Subset
<1>3. \A t \in SUBSET P : t # {} =>
          Owed(CHOOSE x \in t : TRUE) = f[CHOOSE x \in t : TRUE]
  <2>1. \A p \in P : f[p] = Owed(p)  BY DueIsOwed DEF Debts
  <2> HIDE DEF P, f
  <2>2. \A t \in SUBSET P : t # {} => (CHOOSE x \in t : TRUE) \in P  OBVIOUS
  <2> QED  BY <2>1, <2>2
<1>4. PICK g : IsSum(g, f, P)  BY <1>2, SumExists
<1>5. \A e : IsSum(e, f, P) <=> Solves(e)
  BY <1>3 DEF IsSum
<1> HIDE DEF Solves
<1>6. IsSum(h, f, P)
  <2> HIDE DEF P, f
  <2> QED  BY <1>4, <1>5
<1> HIDE DEF h
<1>7. MapThenSumSet(Owed, P) = SumOver(f, P)  BY <1>1, <1>2, <1>6, SumUnique
<1>8. SumOver(f, Policies) = SumOver(f, P)
  <2>1. P \in SUBSET Policies  OBVIOUS
  <2>2. \A p \in Policies : f[p] \in Int  BY DueTyped, NoIdleTyped DEF DebtsTyped
  <2>3. \A p \in Policies \ P : f[p] = 0  BY DEF Debts
  <2> HIDE DEF P, f
  <2> QED  BY <2>1, <2>2, <2>3, FiniteAssumption, SumOutside
<1> QED  BY <1>7, <1>8

\* The debts stay, and the pot moves with the pending income.
LEMMA PotKept ==
  ASSUME CoreTypeOK, CoreTypeOK', NEW idle \in Idle, PotCovers(idle),
         \A c \in Stablecoins, q \in Policies : Debts(idle, c)'[q] = Debts(idle, c)[q],
         NEW s \in Stablecoins, NEW d \in Int, PotMoves(s, d, d)
  PROVE  PotCovers(idle)'
<1> SUFFICES ASSUME NEW c \in Stablecoins
             PROVE  stable'[c][Core] = SumOver(Debts(idle, c)', Policies) + PendingIncome(c)'
  BY DEF PotCovers
<1> DEFINE A == Debts(idle, c)
           B == Debts(idle, c)'
<1>1. \A q \in Policies : A[q] = B[q]  OBVIOUS
<1>2. SumOver(A, Policies) \in Int  BY DueTyped DEF DebtsTyped
<1>3. stable[c][Core] = SumOver(A, Policies) + PendingIncome(c)  BY DEF PotCovers
<1> HIDE DEF A, B
<1>4. SumOver(A, Policies) = SumOver(B, Policies)
  BY <1>1, FiniteAssumption, SumSame
<1>5. stable[c][Core] \in Nat /\ PendingIncome(c) \in Nat  BY BooksNat
<1>6. stable'[c][Core] = SumOver(B, Policies) + PendingIncome(c)'
  <2>1. CASE c = s
    <3>1. /\ stable'[c][Core] = stable[c][Core] + d
          /\ PendingIncome(c)' = PendingIncome(c) + d
      BY <2>1 DEF PotMoves
    <3> QED  BY <1>2, <1>3, <1>4, <1>5, <3>1
  <2>2. CASE c # s
    <3>1. /\ stable'[c][Core] = stable[c][Core]
          /\ PendingIncome(c)' = PendingIncome(c)
      BY <2>2 DEF PotMoves
    <3> QED  BY <1>3, <1>4, <3>1
  <2> QED  BY <2>1, <2>2
<1> QED  BY <1>6 DEF B

\* Debts that change for one policy change their sum by as much.
LEMMA DebtChange ==
  ASSUME NEW A, NEW B, NEW p \in Policies,
         \A q \in Policies : A[q] \in Int /\ B[q] \in Int,
         \A q \in Policies : q # p => B[q] = A[q]
  PROVE  SumOver(B, Policies) = SumOver(A, Policies) + (B[p] - A[p])
<1>1. IsFiniteSet(Policies)  BY FiniteAssumption
<1>2. \A q \in Policies : A[q] \in Int  OBVIOUS
<1>3. B[p] \in Int  OBVIOUS
<1> QED  BY <1>1, <1>2, <1>3, SumChange

\* The debt of one policy moves, and with it the pot of its coin.
LEMMA PotFollows ==
  ASSUME CoreTypeOK, CoreTypeOK', NEW idle \in Idle, PotCovers(idle),
         NEW p \in Policies, NEW s \in Stablecoins, whichStablecoin[p] = s,
         NEW quotas \in Int, NEW issued \in Int, NEW pot \in Int, NEW pending \in Int,
         Books(p, s, quotas, issued, pot, pending),
         whichStablecoin' = whichStablecoin,
         \A q \in Policies : OwesQuotas(q)' <=> OwesQuotas(q),
         OwesQuotas(p) => pot = quotas + pending,
         ~OwesQuotas(p) => pot = issued + pending
  PROVE  PotCovers(idle)'
<1> SUFFICES ASSUME NEW c \in Stablecoins
             PROVE  stable'[c][Core] = SumOver(Debts(idle, c)', Policies) + PendingIncome(c)'
  BY DEF PotCovers
<1> DEFINE A == Debts(idle, c)
           B == Debts(idle, c)'
<1>1. \A q \in Policies : A[q] \in Int /\ B[q] \in Int
  BY DueTyped, DueTypedNext DEF DebtsTyped
<1>2. SumOver(A, Policies) \in Int  BY DueTyped DEF DebtsTyped
<1>3. stable[c][Core] = SumOver(A, Policies) + PendingIncome(c)  BY DEF PotCovers
<1>4. stable[c][Core] \in Nat /\ PendingIncome(c) \in Nat  BY BooksNat
<1>5. \A q \in Policies : q # p => B[q] = A[q]
  <2>1. \A q \in Policies : q # p => Due(idle, q)' = Due(idle, q)
    BY DueTyped, DueTypedNext DEF DebtsTyped, Books
  <2> QED  BY <2>1 DEF Debts
<1>6. CASE c = s
  <2>1. B[p] - A[p] + pending = pot
    <3>1. A[p] = Due(idle, p) /\ B[p] = Due(idle, p)'  BY <1>6 DEF Debts
    <3>2. TotalQuota(p) \in Nat /\ TotalTokens(p) \in Nat  BY BooksNat
    <3>3. /\ TotalQuota(p)' = TotalQuota(p) + quotas
          /\ TotalTokens(p)' = TotalTokens(p) + issued
      BY DEF Books
    <3>4. CASE OwesQuotas(p)
      <4>1. /\ Due(idle, p) = TotalQuota(p) - idle[p]
            /\ Due(idle, p)' = TotalQuota(p)' - idle[p] /\ idle[p] \in Int
        BY <3>4, DueTyped, DueTypedNext DEF DebtsTyped, Idle
      <4> QED  BY <3>1, <3>2, <3>3, <3>4, <4>1
    <3>5. CASE ~OwesQuotas(p)
      <4>1. Due(idle, p) = TotalTokens(p) /\ Due(idle, p)' = TotalTokens(p)'
        BY <3>5, DueTyped, DueTypedNext DEF DebtsTyped
      <4> QED  BY <3>1, <3>2, <3>3, <3>5, <4>1
    <3> QED  BY <3>4, <3>5
  <2>2. /\ stable'[c][Core] = stable[c][Core] + pot
        /\ PendingIncome(c)' = PendingIncome(c) + pending
    BY <1>6 DEF Books, PotMoves
  <2> HIDE DEF A, B
  <2>3. SumOver(B, Policies) = SumOver(A, Policies) + (B[p] - A[p])
    <3>1. \A q \in Policies : A[q] \in Int /\ B[q] \in Int  BY <1>1
    <3> QED  BY <1>5, <3>1, DebtChange, Zenon
  <2>4. A[p] \in Int /\ B[p] \in Int  BY <1>1
  <2>5. stable'[c][Core] = SumOver(B, Policies) + PendingIncome(c)'
    BY <1>2, <1>3, <1>4, <2>1, <2>2, <2>3, <2>4
  <2> QED  BY <2>5 DEF B
<1>7. CASE c # s
  <2>1. A[p] = 0 /\ B[p] = 0  BY <1>7 DEF Debts
  <2>2. /\ stable'[c][Core] = stable[c][Core]
        /\ PendingIncome(c)' = PendingIncome(c)
    BY <1>7 DEF Books, PotMoves
  <2> HIDE DEF A, B
  <2>3. \A q \in Policies : A[q] = B[q]  BY <1>5, <2>1
  <2>4. SumOver(A, Policies) = SumOver(B, Policies)
    BY <2>3, FiniteAssumption, SumSame
  <2>5. stable'[c][Core] = SumOver(B, Policies) + PendingIncome(c)'
    BY <1>3, <2>2, <2>4
  <2> QED  BY <2>5 DEF B
<1> QED  BY <1>6, <1>7

LEMMA InitCovers == CoreInit => PotCovers(NoIdle)
<1> SUFFICES ASSUME CoreInit, NEW s \in Stablecoins
             PROVE  stable[s][Core] = SumOver(Debts(NoIdle, s), Policies) + PendingIncome(s)
  BY DEF PotCovers
<1>1. stable[s][Core] = 0 /\ PendingIncome(s) = 0
  BY HolderAssumption DEF CoreInit, PendingIncome, Holders
<1> DEFINE D == Debts(NoIdle, s)
<1>2. \A p \in Policies : D[p] = 0
  BY CoinAssumption DEF Debts, CoreInit
<1> HIDE DEF D
<1>3. SumOver(D, Policies) = 0  BY <1>2, FiniteAssumption, SumZero
<1> QED  BY <1>1, <1>3 DEF D

\* The owner opens no second pool for a policy (deployPool).
OnePoolEach ==
    \A p \in Policies : whichStablecoin[p] # NoCoin =>
        whichStablecoin'[p] = whichStablecoin[p]

\* The owner distributes a policy in its own coin (settleAllPolicyTokens).
OwnCoinDistributed ==
    \A p \in Policies, s \in Stablecoins, i, j \in 0..MaxDepositors :
        settleAllPolicyTokens(p, s, i, j) => whichStablecoin[p] \in {s, NoCoin}

\* The owner distributes a policy only while nobody has a quota of one unit.
NoDustDistributed ==
    \A p \in Policies, s \in Stablecoins, i, j \in 0..MaxDepositors :
        settleAllPolicyTokens(p, s, i, j) => NoDust(p)

OwnerCareful == OnePoolEach /\ OwnCoinDistributed /\ NoDustDistributed

LEMMA DistributeCovers ==
  ASSUME CoreTypeOK, CoreTypeOK', NEW idle \in Idle, CoinInv(idle), PotCovers(idle),
         NEW p \in Policies, NoDust(p), NEW s \in Stablecoins,
         NEW start \in 0..MaxDepositors, NEW stop \in 0..MaxDepositors,
         settleAllPolicyTokens(p, s, start, stop), whichStablecoin[p] \in {s, NoCoin}
  PROVE  PotCovers(idle)'
<1>1. PICK last \in Nat :
          /\ start \in Nat /\ last <= Len(allDepositors[p])
          /\ _settlePolicy(p, s, start, last)
          /\ settleResult' = [settleResult EXCEPT
                                  ![p].currentDistributionIndex = last]
  BY DistributeBounds, Zenon
<1>2. tokens' = tokens /\ whichStablecoin' = whichStablecoin /\ OwesQuotas(p)
  BY DEF settleAllPolicyTokens, listVars, OwesQuotas
<1>3. \A q \in Policies : OwesQuotas(q)' <=> OwesQuotas(q)
  <2>1. settleResult \in [Policies -> SettlementInfo]  BY DEF CoreTypeOK
  <2>2. /\ settleResult'[p] = [settleResult[p] EXCEPT
                                   !.currentDistributionIndex = last]
        /\ \A q \in Policies : q # p => settleResult'[q] = settleResult[q]
    BY <1>1, <2>1
  <2>3. /\ settleResult'[p].price = settleResult[p].price
        /\ settleResult'[p].alreadySettled = settleResult[p].alreadySettled
        /\ settleResult'[p].isHappened = settleResult[p].isHappened
    <3>1. settleResult[p] \in SettlementInfo  BY <2>1
    <3> QED  BY <2>2, <3>1 DEF SettlementInfo
  <2> QED  BY <2>2, <2>3 DEF OwesQuotas, GotResult
<1>4. PICK Q, F \in Nat : F <= Q /\ Books(p, s, 0 - Q, 0, 0 - (Q - F), F)
  BY <1>1, <1>2, DistributeEffect, Zenon
<1>5. /\ 0 - Q \in Int /\ 0 \in Int /\ 0 - (Q - F) \in Int /\ F \in Int
      /\ 0 - (Q - F) = (0 - Q) + F
  BY <1>4
<1>6. CASE whichStablecoin[p] = s
  BY <1>2, <1>3, <1>4, <1>5, <1>6, PotFollows, Zenon
<1>7. CASE whichStablecoin[p] = NoCoin
  <2>1. TotalQuota(p) = 0 /\ TotalTokens(p) = 0
    BY <1>7 DEF CoinInv, NothingWithoutPool
  <2>2. TotalQuota(p)' = 0 - Q  BY <1>4, <2>1 DEF Books
  <2>3. CoreTypeOK' => DebtsTyped'  BY DueTypedNext
  <2>4. TotalQuota(p)' \in Nat
    BY <2>3 DEF DebtsTyped
  <2>5. Q = 0 /\ F = 0  BY <1>4, <2>2, <2>4
  <2>6. PotMoves(s, 0, 0)
    <3>1. 0 - (Q - F) = 0  BY <2>5
    <3> QED  BY <1>4, <2>5, <3>1 DEF Books
  <2>7. \A q \in Policies : q # p => Due(idle, q)' = Due(idle, q)
    BY <1>3, <1>4, DueTyped, <2>3 DEF DebtsTyped, Books
  <2>8. \A c \in Stablecoins, q \in Policies : Debts(idle, c)'[q] = Debts(idle, c)[q]
    BY <1>2, <1>7, <2>7, CoinAssumption DEF Debts
  <2>9. 0 \in Int  OBVIOUS
  <2> QED  BY <2>6, <2>8, <2>9, PotKept, Zenon
<1> QED  BY <1>6, <1>7

\* What is paid out and what is kept as a fee is what is redeemed.
LEMMA FeeBalance ==
  ASSUME CoreTypeOK, NEW a \in Nat
  PROVE  /\ 0 - a \in Int /\ 0 \in Int /\ a \in Int
         /\ 0 - WithFee(a) \in Int /\ Fee(a) \in Int
         /\ 0 - WithFee(a) = (0 - a) + Fee(a)
         /\ a = a + 0
<1>1. toLotteryPart \in 0..10  BY DEF CoreTypeOK
<1>2. WithFee(a) \in Nat /\ Fee(a) \in Nat /\ WithFee(a) + Fee(a) = a
  BY <1>1, FeeParts, Zenon
<1> QED  BY <1>2

LEMMA UserCovers ==
  ASSUME CoreTypeOK, CoreTypeOK', NEW idle \in Idle, PotCovers(idle), CoreUser
  PROVE  PotCovers(idle)'
<1>1. PICK p \in Policies, s \in Stablecoins, u \in Users :
          \/ redeemAfterSettlement(p, s, u)
          \/ \E a \in Amounts :
                 deposit(p, s, a, u) \/ redeem(p, s, a, u) \/ claim(p, s, a, u)
  BY DEF CoreUser
<1>2. CASE redeemAfterSettlement(p, s, u)
  <2>1. /\ whichStablecoin[p] = s /\ OwesQuotas(p)
        /\ whichStablecoin' = whichStablecoin /\ settleResult' = settleResult
    BY <1>2 DEF redeemAfterSettlement, validPolicyTokenWithStablecoin, listVars,
                OwesQuotas
  <2>2. PICK a \in Nat : Books(p, s, 0 - a, 0, 0 - WithFee(a), Fee(a))
    BY <1>2, RedeemAfterSettlementEffect, Zenon
  <2>3. \A q \in Policies : OwesQuotas(q)' <=> OwesQuotas(q)
    BY <2>1 DEF OwesQuotas, GotResult
  <2> QED  BY <2>1, <2>2, <2>3, FeeBalance, PotFollows, Zenon
<1>3. ASSUME NEW a \in Amounts, deposit(p, s, a, u) PROVE PotCovers(idle)'
  <2>1. /\ whichStablecoin[p] = s
        /\ whichStablecoin' = whichStablecoin /\ settleResult' = settleResult
    BY <1>3 DEF deposit, _deposit, CanDeposit, validPolicyTokenWithStablecoin, listVars
  <2>2. a \in Nat  BY AmountsNat
  <2>3. Books(p, s, a, a, a, 0)  BY <1>3, <2>2, DepositEffect, Zenon DEF deposit
  <2>4. \A q \in Policies : OwesQuotas(q)' <=> OwesQuotas(q)
    BY <2>1 DEF OwesQuotas, GotResult
  <2> QED  BY <2>1, <2>2, <2>3, <2>4, FeeBalance, PotFollows, Zenon
<1>4. ASSUME NEW a \in Amounts, redeem(p, s, a, u) PROVE PotCovers(idle)'
  <2>1. /\ whichStablecoin[p] = s
        /\ whichStablecoin' = whichStablecoin /\ settleResult' = settleResult
    BY <1>4 DEF redeem, validPolicyTokenWithStablecoin, listVars
  <2>2. a \in Nat  BY AmountsNat
  <2>3. Books(p, s, 0 - a, 0 - a, 0 - WithFee(a), Fee(a))
    BY <1>4, <2>2, RedeemEffect, Zenon
  <2>4. \A q \in Policies : OwesQuotas(q)' <=> OwesQuotas(q)
    BY <2>1 DEF OwesQuotas, GotResult
  <2> QED  BY <2>1, <2>2, <2>3, <2>4, FeeBalance, PotFollows, Zenon
<1>5. ASSUME NEW a \in Amounts, claim(p, s, a, u) PROVE PotCovers(idle)'
  <2>1. /\ whichStablecoin[p] = s /\ ~OwesQuotas(p)
        /\ whichStablecoin' = whichStablecoin /\ settleResult' = settleResult
    BY <1>5 DEF claim, validPolicyTokenWithStablecoin, listVars, OwesQuotas
  <2>2. a \in Nat  BY AmountsNat
  <2>3. Books(p, s, 0, 0 - a, 0 - WithFee(a), Fee(a))
    BY <1>5, <2>2, ClaimEffect, Zenon
  <2>4. \A q \in Policies : OwesQuotas(q)' <=> OwesQuotas(q)
    BY <2>1 DEF OwesQuotas, GotResult
  <2> QED  BY <2>1, <2>2, <2>3, <2>4, FeeBalance, PotFollows, Zenon
<1> QED  BY <1>1, <1>2, <1>3, <1>4, <1>5

\* A step that touches neither the pot nor the pending income.
LEMMA PotUntouched ==
  ASSUME CoreTypeOK, CoreTypeOK', NEW idle \in Idle, PotCovers(idle),
         \A c \in Stablecoins, q \in Policies : Debts(idle, c)'[q] = Debts(idle, c)[q],
         \A c \in Stablecoins : /\ stable'[c][Core] = stable[c][Core]
                                /\ PendingIncome(c)' = PendingIncome(c)
  PROVE  PotCovers(idle)'
<1>1. USDC \in Stablecoins  BY CoinAssumption
<1>2. PotMoves(USDC, 0, 0)  BY <1>1, BooksNat DEF PotMoves
<1>3. 0 \in Int  OBVIOUS
<1> QED  BY <1>1, <1>2, <1>3, PotKept, Zenon

\* The result decides whether quotas or tokens are owed; they are as many.
LEMMA SettleCovers ==
  ASSUME CoreTypeOK, CoreTypeOK', NEW idle \in Idle, CoinInv(idle), PotCovers(idle),
         NEW p \in Policies, settleFinalResult(p)
  PROVE  PotCovers(idle)'
<1>1. /\ TotalsKept /\ whichStablecoin' = whichStablecoin /\ ~GotResult(p)
      /\ \A q \in Policies : q # p => settleResult'[q] = settleResult[q]
  BY SettleTyped, SettleKeepsResults, Zenon
<1>2. UNCHANGED <<ledgerVars, incomeVars>>  BY DEF settleFinalResult
<1>3. ASSUME NEW q \in Policies PROVE Due(idle, q)' = Due(idle, q)
  <2>1. CASE q = p
    <3>1. TotalQuota(q) = TotalTokens(q) + idle[q] /\ idle[q] \in Int
      BY <1>1, <2>1 DEF CoinInv, QuotaMatches, Idle
    <3>2. TotalQuota(q)' = TotalQuota(q) /\ TotalTokens(q)' = TotalTokens(q)
      BY <1>1 DEF TotalsKept
    <3>3. Due(idle, q)' \in {TotalQuota(q)' - idle[q], TotalTokens(q)'}  BY DEF Due
    <3>4. Due(idle, q) \in {TotalQuota(q) - idle[q], TotalTokens(q)}  BY DEF Due
    <3>5. TotalTokens(q) \in Nat  BY BooksNat
    <3> QED  BY <3>1, <3>2, <3>3, <3>4, <3>5
  <2>2. CASE q # p
    <3>1. TotalQuota(q)' = TotalQuota(q) /\ TotalTokens(q)' = TotalTokens(q)
      BY <1>1 DEF TotalsKept
    <3> QED  BY <1>1, <2>2, <3>1 DEF Due, OwesQuotas, GotResult
  <2> QED  BY <2>1, <2>2
<1>4. \A c \in Stablecoins, q \in Policies : Debts(idle, c)'[q] = Debts(idle, c)[q]
  BY <1>1, <1>3 DEF Debts
<1>5. \A c \in Stablecoins : /\ stable'[c][Core] = stable[c][Core]
                             /\ PendingIncome(c)' = PendingIncome(c)
  BY <1>2 DEF ledgerVars, incomeVars, PendingIncome
<1> QED  BY <1>4, <1>5, PotUntouched, Zenon

\* The owner's other functions leave the pot alone, and a policy that gets its
\* coin has no debts yet.
LEMMA OwnerCovers ==
  ASSUME CoreTypeOK, CoreTypeOK', NEW idle \in Idle, CoinInv(idle), PotCovers(idle), TotalsKept,
         UNCHANGED <<ledgerVars, incomeVars, settleResult>>,
         \A p \in Policies : whichStablecoin[p] # NoCoin =>
             whichStablecoin'[p] = whichStablecoin[p]
  PROVE  PotCovers(idle)'
<1>1. \A q \in Policies : Due(idle, q)' = Due(idle, q)
  BY DEF Due, OwesQuotas, GotResult, TotalsKept
<1>2. \A q \in Policies : whichStablecoin[q] = NoCoin => Due(idle, q) = 0
  BY DEF CoinInv, NothingWithoutPool, Due
<1>3. \A c \in Stablecoins, q \in Policies : Debts(idle, c)'[q] = Debts(idle, c)[q]
  <2> SUFFICES ASSUME NEW c \in Stablecoins, NEW q \in Policies
               PROVE  Debts(idle, c)'[q] = Debts(idle, c)[q]
    OBVIOUS
  <2>1. CASE whichStablecoin[q] # NoCoin  BY <1>1, <2>1 DEF Debts
  <2>2. CASE whichStablecoin[q] = NoCoin
    BY <1>1, <1>2, <2>2, CoinAssumption DEF Debts
  <2> QED  BY <2>1, <2>2
<1>4. \A c \in Stablecoins : /\ stable'[c][Core] = stable[c][Core]
                             /\ PendingIncome(c)' = PendingIncome(c)
  BY DEF ledgerVars, incomeVars, PendingIncome
<1> QED  BY <1>3, <1>4, PotUntouched, Zenon

LEMMA NextCovers ==
  ASSUME CoreTypeOK, CoreTypeOK', NEW idle \in Idle, CoinInv(idle), PotCovers(idle),
         [CoreNext]_coreVars, [OwnerCareful]_coreVars
  PROVE  PotCovers(idle)'
<1>1. CASE Tick
  <2>1. TotalsKept /\ UNCHANGED <<ledgerVars, quotaVars, settleResult, incomeVars>>
    BY <1>1, SetupTyped, Zenon
  <2>2. whichStablecoin' = whichStablecoin  BY <1>1 DEF Tick, listVars
  <2> QED  BY <2>1, <2>2, OwnerCovers
<1>2. CASE CoreUser  BY <1>2, UserCovers, Zenon
<1>3. CASE CoreTransfer
  <2>1. PICK p \in Policies, u, v \in Traders, a \in Amounts :
            u # v /\ transferPolicyToken(p, u, v, a)
    BY <1>3 DEF CoreTransfer
  <2>2. u \in Holders /\ v \in Holders /\ a \in Nat
    BY HolderAssumption, UserNotCore, AmountsNat
  <2>3. TotalsKept  BY <2>1, <2>2, TransferEffect, Zenon
  <2>4. UNCHANGED <<stable, listVars, settleResult, incomeVars>>
    BY <2>1 DEF transferPolicyToken
  <2>5. \A c \in Stablecoins, q \in Policies : Debts(idle, c)'[q] = Debts(idle, c)[q]
    BY <2>3, <2>4 DEF Debts, Due, OwesQuotas, GotResult, TotalsKept, listVars
  <2>6. \A c \in Stablecoins : /\ stable'[c][Core] = stable[c][Core]
                               /\ PendingIncome(c)' = PendingIncome(c)
    BY <2>4 DEF incomeVars, PendingIncome
  <2> QED  BY <2>5, <2>6, PotUntouched, Zenon
<1>4. CASE CoreSettle
  <2>1. PICK p \in Policies : settleFinalResult(p)  BY <1>4 DEF CoreSettle
  <2> QED  BY <2>1, SettleCovers, Zenon
<1>5. CASE CoreDistribute
  <2>1. PICK p \in Policies, s \in Stablecoins, i, j \in 0..MaxDepositors :
            settleAllPolicyTokens(p, s, i, j)
    BY <1>5 DEF CoreDistribute
  <2>2. CASE OwnerCareful
    <3>1. whichStablecoin[p] \in {s, NoCoin} /\ NoDust(p)
      BY <2>1, <2>2 DEF OwnerCareful, OwnCoinDistributed, NoDustDistributed
    <3> QED  BY <2>1, <3>1, DistributeCovers, Zenon
  <2>3. CASE UNCHANGED coreVars
    <3>1. \A c \in Stablecoins, q \in Policies : Debts(idle, c)'[q] = Debts(idle, c)[q]
      BY <2>3 DEF coreVars, ledgerVars, listVars, quotaVars, Debts, Due, OwesQuotas, GotResult,
                  TotalQuota, TotalTokens
    <3>2. \A c \in Stablecoins : /\ stable'[c][Core] = stable[c][Core]
                                 /\ PendingIncome(c)' = PendingIncome(c)
      BY <2>3 DEF coreVars, ledgerVars, incomeVars, PendingIncome
    <3> QED  BY <3>1, <3>2, PotUntouched, Zenon
  <2> QED  BY <2>2, <2>3
<1>6. CASE CoreCollect
  <2>1. PICK s \in Stablecoins : collectIncome(s)  BY <1>6 DEF CoreCollect
  <2>2. TotalsKept /\ \E d \in Nat : PotMoves(s, 0 - d, 0 - d)
    BY <2>1, CollectEffect, Zenon
  <2>3. PICK d \in Nat : PotMoves(s, 0 - d, 0 - d)  BY <2>2
  <2>4. UNCHANGED <<listVars, settleResult>>  BY <2>1 DEF collectIncome
  <2>5. \A c \in Stablecoins, q \in Policies : Debts(idle, c)'[q] = Debts(idle, c)[q]
    BY <2>2, <2>4 DEF Debts, Due, OwesQuotas, GotResult, TotalsKept, listVars
  <2>6. 0 - d \in Int  OBVIOUS
  <2> QED  BY <2>3, <2>5, <2>6, PotKept, Zenon
<1>7. CASE CoreOwner
  <2>1. TotalsKept /\ UNCHANGED <<ledgerVars, quotaVars, settleResult, incomeVars>>
    BY <1>7, SetupTyped, Zenon
  <2>2. \A p \in Policies : whichStablecoin[p] # NoCoin =>
            whichStablecoin'[p] = whichStablecoin[p]
    BY DEF OwnerCareful, OnePoolEach, coreVars, listVars
  <2> QED  BY <2>1, <2>2, OwnerCovers
<1>8. CASE UNCHANGED coreVars
  <2>1. \A c \in Stablecoins, q \in Policies : Debts(idle, c)'[q] = Debts(idle, c)[q]
    BY <1>8 DEF coreVars, ledgerVars, listVars, quotaVars, Debts, Due, OwesQuotas, GotResult,
                TotalQuota, TotalTokens
  <2>2. \A c \in Stablecoins : /\ stable'[c][Core] = stable[c][Core]
                               /\ PendingIncome(c)' = PendingIncome(c)
    BY <1>8 DEF coreVars, ledgerVars, incomeVars, PendingIncome
  <2> QED  BY <2>1, <2>2, PotUntouched, Zenon
<1> QED  BY <1>1, <1>2, <1>3, <1>4, <1>5, <1>6, <1>7, <1>8 DEF CoreNext

LEMMA CoversIsSolvent == CoreTypeOK /\ PotCovers(NoIdle) => CorePotSolvent
  BY OwedIsSum DEF PotCovers, CorePotSolvent

\* The pot of every stablecoin holds exactly what its policies are owed and the
\* income not yet collected.  Deposits, redemptions, claims, settlements and
\* collections guarantee it by themselves.  Of the owner it takes three things
\* that the code does not check: a policy is distributed in its own coin, it
\* gets one pool, and while it is distributed nobody has a quota of a single
\* unit, whose fee would be booked as income again with every distribution.
THEOREM PotIsSolvent ==
    CoreSpec /\ [][OwnerCareful]_coreVars => []CorePotSolvent
<1>1. CoreTypeOK /\ CoreTypeOK' /\ CoinInv(NoIdle) /\ PotCovers(NoIdle)
          /\ [CoreNext]_coreVars /\ [OwnerCareful]_coreVars => PotCovers(NoIdle)'
  BY NextCovers, NoIdleTyped, Zenon
<1> QED  BY <1>1, InitCovers, CoversIsSolvent, CoreTypeCorrect, CoinsNamed, PTL
         DEF CoreSpec

\* With one stablecoin, as deployed, the owner cannot take the wrong one.
LEMMA OneCoinIsCareful ==
  ASSUME Stablecoins = {USDC}, CoreTypeOK, PoolsNamed, [CoreNext]_coreVars,
         [NoDustDistributed]_coreVars
  PROVE  [OwnerCareful]_coreVars
<1>1. \A p \in Policies : whichStablecoin[p] \in {USDC, NoCoin}  BY DEF CoreTypeOK
<1>2. \A p \in Policies : whichStablecoin[p] # NoCoin => <<p, USDC>> \in pools
  BY <1>1 DEF PoolsNamed
<1>3. ASSUME NEW p \in Policies, whichStablecoin[p] # NoCoin
      PROVE  whichStablecoin'[p] = whichStablecoin[p]
  <2>1. ASSUME UNCHANGED whichStablecoin PROVE whichStablecoin'[p] = whichStablecoin[p]
    BY <2>1
  <2>2. CASE CoreOwner
    <3>1. ASSUME NEW q \in Policies, NEW s \in Stablecoins,
                 deployPool(q, s, policyTokenInfo[q].deadline)
          PROVE  whichStablecoin'[p] = whichStablecoin[p]
      <4>1. q # p /\ whichStablecoin' = [whichStablecoin EXCEPT ![q] = s]
        BY <1>2, <1>3, <3>1 DEF deployPool
      <4>2. whichStablecoin \in [Policies -> Stablecoins \cup {NoCoin}]
        BY DEF CoreTypeOK
      <4> QED  BY <4>1, <4>2
    <3>2. ASSUME NEW q \in Policies, NEW terms \in Terms, deployPolicyToken(q, terms)
          PROVE  UNCHANGED whichStablecoin
      BY <3>2 DEF deployPolicyToken
    <3>3. ASSUME NEW s \in Stablecoins, addStablecoin(s) PROVE UNCHANGED whichStablecoin
      BY <3>3 DEF addStablecoin, listVars
    <3>4. ASSUME NEW part \in LotteryParts, setIncomeToLottery(part)
          PROVE  UNCHANGED whichStablecoin
      BY <3>4 DEF setIncomeToLottery, listVars
    <3>5. ASSUME NEW role \in Roles, setAddress(role) PROVE UNCHANGED whichStablecoin
      BY <3>5 DEF setAddress, listVars
    <3> QED  BY <2>1, <2>2, <3>1, <3>2, <3>3, <3>4, <3>5 DEF CoreOwner
  <2>3. CASE Tick  BY <2>1, <2>3 DEF Tick, listVars
  <2>4. CASE CoreUser
    BY <2>1, <2>4 DEF CoreUser, redeemAfterSettlement, deposit, _deposit, redeem, claim,
                      listVars
  <2>5. CASE CoreTransfer
    BY <2>1, <2>5 DEF CoreTransfer, transferPolicyToken, listVars
  <2>6. CASE CoreSettle
    BY <2>1, <2>6 DEF CoreSettle, settleFinalResult, listVars
  <2>7. CASE CoreDistribute
    BY <2>1, <2>7 DEF CoreDistribute, settleAllPolicyTokens, listVars
  <2>8. CASE CoreCollect
    BY <2>1, <2>8 DEF CoreCollect, collectIncome, listVars
  <2>9. CASE UNCHANGED coreVars  BY <2>1, <2>9 DEF coreVars, listVars
  <2> QED
    BY <2>2, <2>3, <2>4, <2>5, <2>6, <2>7, <2>8, <2>9 DEF CoreNext
<1> QED  BY <1>1, <1>3 DEF OwnerCareful, OnePoolEach, OwnCoinDistributed

\* With the one stablecoin of the deployment, its pot is solvent whatever the
\* owner does, but for the distribution of a quota of a single unit.
THEOREM OnePotIsSolvent ==
  ASSUME Stablecoins = {USDC}
  PROVE  CoreSpec /\ [][NoDustDistributed]_coreVars => []CorePotSolvent
<1>1. CoreTypeOK /\ CoinInv(NoIdle) /\ [CoreNext]_coreVars
          /\ [NoDustDistributed]_coreVars => [OwnerCareful]_coreVars
  BY OneCoinIsCareful, Zenon DEF CoinInv
<1> QED  BY <1>1, PotIsSolvent, CoreTypeCorrect, CoinsNamed, PTL DEF CoreSpec

(***************************************************************************)
(* Results and lists of depositors                                         *)
(***************************************************************************)
ListTyped ==
    /\ now \in Nat /\ deployed \subseteq Policies
    /\ policyTokenInfo \in [Policies -> TermsType]
    /\ settleResult \in [Policies -> SettlementInfo]
    /\ userQuota \in [Policies -> [Holders -> Nat]]
    /\ allDepositors \in [Policies -> Seq(Holders)]

\* A policy is settled after its time, distributed after it is settled, and
\* never beyond the end of its list.
Phases ==
    \A p \in Policies :
        /\ settleResult[p].alreadySettled =>
               p \in deployed /\ now >= policyTokenInfo[p].settleTimestamp
        /\ settleResult[p].currentDistributionIndex # 0 =>
               settleResult[p].alreadySettled
        /\ settleResult[p].currentDistributionIndex <= Len(allDepositors[p])

IInv == ListTyped /\ Phases /\ EveryQuotaHolderListed /\ DistributedArePaid

(***************************************************************************)
(* Lemmas                                                                  *)
(***************************************************************************)
\* The amount after the fee is a natural number, monotonic in the quota.
LEMMA FeeMonotonic ==
  ASSUME NEW a \in Nat, NEW b \in Nat, a <= b
  PROVE  WithFee(a) \in Nat /\ WithFee(a) <= WithFee(b) /\ WithFee(0) = 0
  BY Z3 DEF WithFee

LEMMA InitIInv == CoreInit => IInv
<1> SUFFICES ASSUME CoreInit PROVE IInv  OBVIOUS
<1>1. ListTyped
  <2>1. Unsettled \in SettlementInfo  BY DEF Unsettled, SettlementInfo
  <2>2. NoTerms \in TermsType  BY DEF NoTerms, TermsType, PoolTypes
  <2>3. <<>> \in Seq(Holders)  OBVIOUS
  <2> QED  BY <2>1, <2>2, <2>3, ValueAssumption DEF CoreInit, ListTyped
<1>2. \A p \in Policies : settleResult[p] = Unsettled /\ allDepositors[p] = <<>>
  BY DEF CoreInit
<1>3. Phases  BY <1>2 DEF Phases, Unsettled
<1>4. EveryQuotaHolderListed  BY DEF EveryQuotaHolderListed, CoreInit
<1>5. DistributedArePaid  BY <1>2 DEF DistributedArePaid, Unsettled
<1> QED  BY <1>1, <1>3, <1>4, <1>5 DEF IInv

\* A step that raises no quota and touches neither lists, terms nor results
\* keeps the invariant: redemptions, claims, transfers and most setters.
LEMMA QuotasFall ==
  ASSUME IInv, now' \in Nat, now' >= now,
         UNCHANGED <<deployed, policyTokenInfo, settleResult, allDepositors>>,
         userQuota' \in [Policies -> [Holders -> Nat]],
         \A p \in Policies, u \in Holders : userQuota'[p][u] <= userQuota[p][u]
  PROVE  IInv'
<1>1. ListTyped'  BY DEF IInv, ListTyped
<1>2. Phases'
  <2> SUFFICES ASSUME NEW p \in Policies
               PROVE  /\ settleResult[p].alreadySettled =>
                             p \in deployed /\ now' >= policyTokenInfo[p].settleTimestamp
                      /\ settleResult[p].currentDistributionIndex # 0 =>
                             settleResult[p].alreadySettled
                      /\ settleResult[p].currentDistributionIndex <= Len(allDepositors[p])
    BY DEF Phases
  <2>1. policyTokenInfo[p].settleTimestamp \in Nat  BY DEF IInv, ListTyped, TermsType
  <2> QED  BY <2>1 DEF IInv, ListTyped, Phases
<1>3. EveryQuotaHolderListed'
  <2> SUFFICES ASSUME NEW p \in Policies, NEW u \in Holders, userQuota'[p][u] > 0
               PROVE  \E i \in 1..Len(allDepositors[p]) : allDepositors[p][i] = u
    BY DEF EveryQuotaHolderListed
  <2>1. userQuota[p][u] \in Nat /\ userQuota'[p][u] \in Nat  BY DEF IInv, ListTyped
  <2>2. userQuota[p][u] > 0  BY <2>1
  <2> QED  BY <2>2 DEF IInv, EveryQuotaHolderListed
<1>4. DistributedArePaid'
  <2> SUFFICES ASSUME NEW p \in Policies,
                      policyTokenInfo[p].deadline < policyTokenInfo[p].settleTimestamp,
                      NEW i \in 1..settleResult[p].currentDistributionIndex
               PROVE  WithFee(userQuota'[p][allDepositors[p][i]]) = 0
    BY DEF DistributedArePaid
  <2>1. i \in 1..Len(allDepositors[p]) /\ allDepositors[p] \in Seq(Holders)
    <3>1. settleResult[p].currentDistributionIndex \in Nat
      BY DEF IInv, ListTyped, SettlementInfo
    <3>2. settleResult[p].currentDistributionIndex <= Len(allDepositors[p])
      BY DEF IInv, Phases
    <3>3. allDepositors[p] \in Seq(Holders)  BY DEF IInv, ListTyped
    <3> QED  BY <3>1, <3>2, <3>3
  <2>2. PICK u \in Holders : u = allDepositors[p][i]  BY <2>1
  <2>3. userQuota[p][u] \in Nat /\ userQuota'[p][u] \in Nat
        /\ userQuota'[p][u] <= userQuota[p][u]
    BY DEF IInv, ListTyped
  <2>4. WithFee(userQuota[p][u]) = 0  BY <2>2 DEF IInv, DistributedArePaid
  <2>5. /\ WithFee(userQuota'[p][u]) \in Nat
        /\ WithFee(userQuota'[p][u]) <= WithFee(userQuota[p][u])
    BY <2>3, FeeMonotonic
  <2> QED  BY <2>2, <2>4, <2>5
<1> QED  BY <1>1, <1>2, <1>3, <1>4 DEF IInv

LEMMA QuotasKept ==
  ASSUME IInv, now' \in Nat, now' >= now,
         UNCHANGED <<deployed, policyTokenInfo, settleResult, quotaVars>>
  PROVE  IInv'
<1>1. userQuota' = userQuota /\ allDepositors' = allDepositors  BY DEF quotaVars
<1>2. userQuota \in [Policies -> [Holders -> Nat]]  BY DEF IInv, ListTyped
<1>3. \A p \in Policies, u \in Holders : userQuota'[p][u] <= userQuota[p][u]
  BY <1>1, <1>2
<1> QED  BY <1>1, <1>2, <1>3, QuotasFall

LEMMA NowNat == ASSUME IInv PROVE now \in Nat /\ now >= now
  BY DEF IInv, ListTyped

LEMMA UserIsHolder == Users \subseteq Holders
  BY DEF Holders

(***************************************************************************)
(* One action at a time                                                    *)
(***************************************************************************)
LEMMA RedeemStep ==
  ASSUME IInv, NEW p \in Policies, NEW s, NEW a \in Amounts, NEW u \in Users,
         redeem(p, s, a, u)
  PROVE  IInv'
<1>1. /\ userQuota[p][u] >= a
      /\ userQuota' = [userQuota EXCEPT ![p][u] = @ - a]
      /\ UNCHANGED <<now, deployed, policyTokenInfo, allDepositors, settleResult>>
  BY DEF redeem, listVars
<1>2. a \in Nat /\ u \in Holders  BY ValueAssumption, UserIsHolder
<1>3. userQuota \in [Policies -> [Holders -> Nat]]  BY DEF IInv, ListTyped
<1>4. userQuota[p][u] - a \in Nat /\ userQuota[p][u] - a <= userQuota[p][u]
  BY <1>1, <1>2, <1>3
<1>5. userQuota' \in [Policies -> [Holders -> Nat]]  BY <1>1, <1>2, <1>3, <1>4
<1>6. \A q \in Policies, v \in Holders : userQuota'[q][v] <= userQuota[q][v]
  <2> SUFFICES ASSUME NEW q \in Policies, NEW v \in Holders
               PROVE  userQuota'[q][v] <= userQuota[q][v]
    OBVIOUS
  <2>1. userQuota[q][v] \in Nat  BY <1>3
  <2>2. CASE q = p /\ v = u  BY <1>1, <1>2, <1>3, <1>4, <2>2
  <2>3. CASE ~(q = p /\ v = u)  BY <1>1, <1>3, <2>1, <2>3
  <2> QED  BY <2>2, <2>3
<1> QED  BY <1>1, <1>5, <1>6, NowNat, QuotasFall

LEMMA RedeemAfterSettlementStep ==
  ASSUME IInv, NEW p \in Policies, NEW s, NEW u \in Users,
         redeemAfterSettlement(p, s, u)
  PROVE  IInv'
<1>1. /\ userQuota' = [userQuota EXCEPT ![p][u] = 0]
      /\ UNCHANGED <<now, deployed, policyTokenInfo, allDepositors, settleResult>>
  BY DEF redeemAfterSettlement, listVars
<1>2. u \in Holders  BY UserIsHolder
<1>3. userQuota \in [Policies -> [Holders -> Nat]]  BY DEF IInv, ListTyped
<1>4. userQuota' \in [Policies -> [Holders -> Nat]]  BY <1>1, <1>2, <1>3
<1>5. \A q \in Policies, v \in Holders : userQuota'[q][v] <= userQuota[q][v]
  <2> SUFFICES ASSUME NEW q \in Policies, NEW v \in Holders
               PROVE  userQuota'[q][v] <= userQuota[q][v]
    OBVIOUS
  <2>1. userQuota[q][v] \in Nat  BY <1>3
  <2>2. userQuota'[q][v] \in {0, userQuota[q][v]}  BY <1>1, <1>2, <1>3
  <2> QED  BY <2>1, <2>2
<1> QED  BY <1>1, <1>4, <1>5, NowNat, QuotasFall

\* Deposits end before the settlement: nothing has been distributed yet.
LEMMA DepositStep ==
  ASSUME IInv, NEW p \in Policies, NEW s, NEW a \in Amounts, NEW u \in Users,
         deposit(p, s, a, u)
  PROVE  IInv'
<1>1. /\ now <= policyTokenInfo[p].deadline
      /\ allDepositors' = [allDepositors EXCEPT ![p] = Enlist(p, u)]
      /\ userQuota' = [userQuota EXCEPT ![p][u] = @ + a]
      /\ UNCHANGED <<now, deployed, policyTokenInfo, settleResult>>
  BY DEF deposit, _deposit, CanDeposit, beforeDeadline, RecordDeposit, listVars
<1>2. a \in Nat \ {0} /\ u \in Holders  BY ValueAssumption, UserIsHolder
<1>3. /\ userQuota \in [Policies -> [Holders -> Nat]]
      /\ allDepositors \in [Policies -> Seq(Holders)]
  BY DEF IInv, ListTyped
<1> DEFINE old == allDepositors[p]
           new == allDepositors'[p]
<1>4. old \in Seq(Holders) /\ new = Enlist(p, u)  BY <1>1, <1>3
<1>5. /\ new \in Seq(Holders) /\ Len(new) >= Len(old)
      /\ \A i \in 1..Len(old) : new[i] = old[i]
      /\ userQuota[p][u] = 0 => new[Len(new)] = u /\ Len(new) > 0
      /\ userQuota[p][u] # 0 => new = old
  <2>1. CASE userQuota[p][u] = 0  BY <1>2, <1>4, <2>1 DEF Enlist
  <2>2. CASE userQuota[p][u] # 0  BY <1>4, <2>2 DEF Enlist
  <2> QED  BY <2>1, <2>2
<1>6. userQuota' \in [Policies -> [Holders -> Nat]]
  <2>1. userQuota[p][u] + a \in Nat  BY <1>2, <1>3
  <2> QED  BY <1>1, <1>2, <1>3, <2>1
<1>7. ListTyped'
  <2>1. allDepositors' \in [Policies -> Seq(Holders)]  BY <1>1, <1>3, <1>4, <1>5
  <2> QED  BY <1>1, <1>6, <2>1 DEF IInv, ListTyped
<1>8. ASSUME NEW q \in Policies, q # p
      PROVE  userQuota'[q] = userQuota[q] /\ allDepositors'[q] = allDepositors[q]
  BY <1>1, <1>3, <1>8
<1>9. \A q \in Policies : Len(allDepositors[q]) <= Len(allDepositors'[q])
  <2> SUFFICES ASSUME NEW q \in Policies
               PROVE  Len(allDepositors[q]) <= Len(allDepositors'[q])
    OBVIOUS
  <2>1. CASE q = p  BY <1>5, <2>1
  <2>2. CASE q # p
    <3>1. Len(allDepositors[q]) \in Nat  BY <1>3
    <3> QED  BY <1>8, <2>2, <3>1
  <2> QED  BY <2>1, <2>2
<1>10. Phases'
  <2> SUFFICES ASSUME NEW q \in Policies
               PROVE  /\ settleResult[q].alreadySettled =>
                             q \in deployed /\ now >= policyTokenInfo[q].settleTimestamp
                      /\ settleResult[q].currentDistributionIndex # 0 =>
                             settleResult[q].alreadySettled
                      /\ settleResult[q].currentDistributionIndex <= Len(allDepositors'[q])
    BY <1>1 DEF Phases
  <2>1. settleResult[q].currentDistributionIndex \in Nat
    BY DEF IInv, ListTyped, SettlementInfo
  <2>2. Len(allDepositors[q]) \in Nat /\ Len(allDepositors'[q]) \in Nat
    BY <1>3, <1>7 DEF ListTyped
  <2> QED  BY <1>9, <2>1, <2>2 DEF IInv, Phases
<1>11. EveryQuotaHolderListed'
  <2> SUFFICES ASSUME NEW q \in Policies, NEW v \in Holders, userQuota'[q][v] > 0
               PROVE  \E i \in 1..Len(allDepositors'[q]) : allDepositors'[q][i] = v
    BY DEF EveryQuotaHolderListed
  <2>1. CASE q # p
    BY <1>8, <2>1 DEF IInv, EveryQuotaHolderListed
  <2>2. CASE q = p /\ userQuota[p][v] > 0
    <3>1. PICK i \in 1..Len(old) : old[i] = v
      BY <2>2 DEF IInv, EveryQuotaHolderListed
    <3>2. i \in 1..Len(new) /\ new[i] = v  BY <1>4, <1>5, <3>1
    <3> QED  BY <2>2, <3>2
  <2>3. CASE q = p /\ ~(userQuota[p][v] > 0)
    <3>1. userQuota[p][v] = 0  BY <1>3, <2>3
    <3>2. v = u  BY <1>1, <1>2, <1>3, <2>3, <3>1
    <3>3. Len(new) \in 1..Len(new) /\ new[Len(new)] = v
      BY <1>4, <1>5, <3>1, <3>2
    <3> QED  BY <2>3, <3>3
  <2> QED  BY <2>1, <2>2, <2>3
<1>12. DistributedArePaid'
  <2> SUFFICES ASSUME NEW q \in Policies,
                      policyTokenInfo[q].deadline < policyTokenInfo[q].settleTimestamp,
                      NEW i \in 1..settleResult[q].currentDistributionIndex
               PROVE  WithFee(userQuota'[q][allDepositors'[q][i]]) = 0
    BY <1>1 DEF DistributedArePaid
  <2>1. CASE q = p
    <3>1. /\ policyTokenInfo[p].deadline \in Nat
          /\ policyTokenInfo[p].settleTimestamp \in Nat /\ now \in Nat
      BY DEF IInv, ListTyped, TermsType
    <3>2. ~(now >= policyTokenInfo[p].settleTimestamp)  BY <1>1, <2>1, <3>1
    <3>3. settleResult[p].currentDistributionIndex = 0
      BY <3>2 DEF IInv, Phases
    <3> QED  BY <2>1, <3>3
  <2>2. CASE q # p
    BY <1>8, <2>2 DEF IInv, DistributedArePaid
  <2> QED  BY <2>1, <2>2
<1> QED  BY <1>7, <1>10, <1>11, <1>12 DEF IInv

LEMMA SettleStep ==
  ASSUME IInv, NEW p \in Policies, settleFinalResult(p)
  PROVE  IInv'
<1>1. /\ p \in deployed /\ now >= policyTokenInfo[p].settleTimestamp
      /\ ~settleResult[p].alreadySettled
      /\ UNCHANGED <<now, deployed, policyTokenInfo, userQuota, allDepositors>>
  BY DEF settleFinalResult, CanSettle, afterSettlement, listVars, quotaVars
<1>2. PICK price \in PossiblePrices(p) :
          settleResult' = [settleResult EXCEPT ![p].alreadySettled = TRUE,
                               ![p].price = price,
                               ![p].isHappened = Happens(p, price)]
  BY DEF settleFinalResult
<1>3. PICK happens \in BOOLEAN :
          settleResult' = [settleResult EXCEPT ![p].alreadySettled = TRUE,
                               ![p].price = price, ![p].isHappened = happens]
  <2>1. Happens(p, price) \in BOOLEAN
    <3>1. /\ (price >= policyTokenInfo[p].strikePrice) \in BOOLEAN
          /\ (price <= policyTokenInfo[p].strikePrice) \in BOOLEAN
      OBVIOUS
    <3> QED  BY <3>1, Zenon DEF Happens
  <2> QED  BY <1>2, <2>1
<1>4. price \in Nat
  <2>1. policyTokenInfo[p].poolType \in PoolTypes  BY DEF IInv, ListTyped, TermsType
  <2>2. PossiblePrices(p) \subseteq Prices
    BY <2>1, Zenon DEF PossiblePrices, PoolTypes
  <2> QED  BY <2>2, ValueAssumption
<1>5. settleResult \in [Policies -> SettlementInfo]  BY DEF IInv, ListTyped
<1>6. settleResult' \in [Policies -> SettlementInfo]
  BY <1>3, <1>4, <1>5 DEF SettlementInfo
<1>7. \A q \in Policies :
          /\ settleResult'[q].currentDistributionIndex
                 = settleResult[q].currentDistributionIndex
          /\ settleResult'[q].alreadySettled = IF q = p THEN TRUE
                                               ELSE settleResult[q].alreadySettled
  BY <1>3, <1>5 DEF SettlementInfo
<1>8. ListTyped'  BY <1>1, <1>6 DEF IInv, ListTyped
<1>9. Phases'  BY <1>1, <1>7 DEF IInv, Phases
<1>10. EveryQuotaHolderListed'  BY <1>1 DEF IInv, EveryQuotaHolderListed
<1>11. DistributedArePaid'  BY <1>1, <1>7 DEF IInv, DistributedArePaid
<1> QED  BY <1>8, <1>9, <1>10, <1>11 DEF IInv

\* The part of the list that is distributed is served on the way; the part
\* before it was served by the batches before, or is empty.
LEMMA DistributeStep ==
  ASSUME IInv, NEW p \in Policies, NEW s,
         NEW start \in 0..MaxDepositors, NEW stop \in 0..MaxDepositors,
         settleAllPolicyTokens(p, s, start, stop)
  PROVE  IInv'
<1> DEFINE length == Len(allDepositors[p])
           last   == IF start = 0 /\ stop = 0 THEN length ELSE stop
           index  == settleResult[p].currentDistributionIndex
<1>1. /\ settleResult[p].alreadySettled
      /\ \/ start = 0 /\ stop = 0
         \/ index = start /\ stop < length
      /\ _settlePolicy(p, s, start, last)
      /\ settleResult' = [settleResult EXCEPT ![p].currentDistributionIndex = last]
      /\ UNCHANGED <<now, deployed, policyTokenInfo, allDepositors>>
  BY DEF settleAllPolicyTokens, GotResult, listVars
<1>2. /\ userQuota \in [Policies -> [Holders -> Nat]]
      /\ allDepositors \in [Policies -> Seq(Holders)]
      /\ settleResult \in [Policies -> SettlementInfo]
      /\ length \in Nat /\ start \in Nat /\ stop \in Nat
  BY ValueAssumption DEF IInv, ListTyped
<1>3. last \in Nat /\ last <= length  BY <1>1, <1>2
<1>4. /\ index \in Nat /\ start # 0 => index = start
      /\ \A i \in 1..start : i \in 1..index
  <2>1. index \in Nat  BY <1>2 DEF SettlementInfo
  <2>2. start # 0 => index = start  BY <1>1
  <2> QED  BY <1>2, <2>1, <2>2
<1> HIDE DEF last
<1>5. userQuota' = [userQuota EXCEPT ![p] = QuotaAfter(p, start, last)]
  BY <1>1 DEF _settlePolicy
<1>6. \A u \in Holders :
          userQuota'[p][u] = IF u \in Served(p, start, last) THEN 0
                             ELSE userQuota[p][u]
  BY <1>2, <1>5 DEF QuotaAfter
<1>7. QuotaAfter(p, start, last) \in [Holders -> Nat]
  BY <1>2 DEF QuotaAfter
<1>8. userQuota' \in [Policies -> [Holders -> Nat]]  BY <1>2, <1>5, <1>7
<1>9. \A q \in Policies : q # p => userQuota'[q] = userQuota[q]
  BY <1>2, <1>5
<1>10. /\ settleResult' \in [Policies -> SettlementInfo]
       /\ \A q \in Policies :
              /\ settleResult'[q].alreadySettled = settleResult[q].alreadySettled
              /\ settleResult'[q].currentDistributionIndex =
                     IF q = p THEN last
                     ELSE settleResult[q].currentDistributionIndex
  BY <1>1, <1>2, <1>3 DEF SettlementInfo
<1>11. ListTyped'  BY <1>1, <1>8, <1>10 DEF IInv, ListTyped
<1>12. Phases'
  <2> SUFFICES ASSUME NEW q \in Policies
               PROVE  /\ settleResult'[q].alreadySettled =>
                             q \in deployed /\ now >= policyTokenInfo[q].settleTimestamp
                      /\ settleResult'[q].currentDistributionIndex # 0 =>
                             settleResult'[q].alreadySettled
                      /\ settleResult'[q].currentDistributionIndex <= Len(allDepositors[q])
    BY <1>1 DEF Phases
  <2>1. CASE q = p  BY <1>1, <1>3, <1>10, <2>1 DEF IInv, Phases
  <2>2. CASE q # p  BY <1>10, <2>2 DEF IInv, Phases
  <2> QED  BY <2>1, <2>2
<1>13. EveryQuotaHolderListed'
  <2> SUFFICES ASSUME NEW q \in Policies, NEW u \in Holders, userQuota'[q][u] > 0
               PROVE  \E i \in 1..Len(allDepositors[q]) : allDepositors[q][i] = u
    BY <1>1 DEF EveryQuotaHolderListed
  <2>1. userQuota'[q][u] = userQuota[q][u]
    <3>1. CASE q = p  BY <1>6, <3>1
    <3>2. CASE q # p  BY <1>9, <3>2
    <3> QED  BY <3>1, <3>2
  <2> QED  BY <2>1 DEF IInv, EveryQuotaHolderListed
<1>14. DistributedArePaid'
  <2> SUFFICES ASSUME NEW q \in Policies,
                      policyTokenInfo[q].deadline < policyTokenInfo[q].settleTimestamp,
                      NEW i \in 1..settleResult'[q].currentDistributionIndex
               PROVE  WithFee(userQuota'[q][allDepositors[q][i]]) = 0
    BY <1>1 DEF DistributedArePaid
  <2>1. CASE q # p
    BY <1>9, <1>10, <2>1 DEF IInv, DistributedArePaid
  <2>2. CASE q = p
    <3>1. i \in 1..last /\ i \in 1..length  BY <1>2, <1>3, <1>10, <2>2
    <3>2. PICK u \in Holders : u = allDepositors[p][i]  BY <1>2, <3>1
    <3>3. userQuota[p][u] \in Nat  BY <1>2, <3>2
    <3>4. WithFee(userQuota[p][u]) \in Nat /\ WithFee(0) = 0
      BY <3>3, FeeMonotonic
    <3>5. CASE i <= start
      <4>1. i \in 1..index  BY <1>2, <1>4, <3>1, <3>5
      <4>2. WithFee(userQuota[p][u]) = 0
        BY <2>2, <3>2, <4>1 DEF IInv, DistributedArePaid
      <4>3. WithFee(userQuota'[p][u]) = 0  BY <1>6, <3>2, <3>4, <4>2
      <4> QED  BY <2>2, <3>2, <4>3
    <3>6. CASE i > start
      <4>1. i \in (start + 1)..last  BY <1>2, <1>3, <3>1, <3>6
      <4>2. WithFee(userQuota[p][u]) > 0 => u \in Served(p, start, last)
        BY <3>2, <4>1 DEF Served
      <4>3. CASE WithFee(userQuota[p][u]) > 0
        BY <1>6, <2>2, <3>2, <3>4, <4>2, <4>3
      <4>4. CASE ~(WithFee(userQuota[p][u]) > 0)
        <5>1. WithFee(userQuota[p][u]) = 0  BY <3>4, <4>4
        <5>2. WithFee(userQuota'[p][u]) = 0  BY <1>6, <3>2, <3>4, <5>1
        <5> QED  BY <2>2, <3>2, <5>2
      <4> QED  BY <4>3, <4>4
    <3>7. i <= start \/ i > start  BY <1>2, <3>1
    <3> QED  BY <3>5, <3>6, <3>7
  <2> QED  BY <2>1, <2>2
<1> QED  BY <1>11, <1>12, <1>13, <1>14 DEF IInv

\* A name is deployed once, so that no settled policy gets new terms.
LEMMA DeployStep ==
  ASSUME IInv, NEW p \in Policies, NEW terms \in Terms, deployPolicyToken(p, terms)
  PROVE  IInv'
<1>1. /\ p \notin deployed /\ deployed' = deployed \cup {p}
      /\ policyTokenInfo' = [policyTokenInfo EXCEPT ![p] = terms]
      /\ UNCHANGED <<now, userQuota, allDepositors, settleResult>>
  BY DEF deployPolicyToken, quotaVars
<1>2. terms \in TermsType  BY ValueAssumption
<1>3. policyTokenInfo \in [Policies -> TermsType]  BY DEF IInv, ListTyped
<1>4. ListTyped'  BY <1>1, <1>2, <1>3 DEF IInv, ListTyped
<1>5. /\ ~settleResult[p].alreadySettled
      /\ settleResult[p].currentDistributionIndex = 0
  BY <1>1 DEF IInv, Phases
<1>6. \A q \in Policies : q # p => policyTokenInfo'[q] = policyTokenInfo[q]
  BY <1>1, <1>3
<1>7. Phases'
  <2> SUFFICES ASSUME NEW q \in Policies
               PROVE  /\ settleResult[q].alreadySettled =>
                             q \in deployed' /\ now >= policyTokenInfo'[q].settleTimestamp
                      /\ settleResult[q].currentDistributionIndex # 0 =>
                             settleResult[q].alreadySettled
                      /\ settleResult[q].currentDistributionIndex <= Len(allDepositors[q])
    BY <1>1 DEF Phases
  <2>1. CASE q = p  BY <1>5, <2>1 DEF IInv, Phases
  <2>2. CASE q # p  BY <1>1, <1>6, <2>2 DEF IInv, Phases
  <2> QED  BY <2>1, <2>2
<1>8. EveryQuotaHolderListed'  BY <1>1 DEF IInv, EveryQuotaHolderListed
<1>9. DistributedArePaid'
  <2> SUFFICES ASSUME NEW q \in Policies,
                      policyTokenInfo'[q].deadline < policyTokenInfo'[q].settleTimestamp,
                      NEW i \in 1..settleResult[q].currentDistributionIndex
               PROVE  WithFee(userQuota[q][allDepositors[q][i]]) = 0
    BY <1>1 DEF DistributedArePaid
  <2>1. q # p  BY <1>5
  <2> QED  BY <1>6, <2>1 DEF IInv, DistributedArePaid
<1> QED  BY <1>4, <1>7, <1>8, <1>9 DEF IInv

LEMMA TickStep == ASSUME IInv, Tick PROVE IInv'
<1>1. PICK t \in Instants :
          /\ t > now /\ now' = t
          /\ UNCHANGED <<deployed, policyTokenInfo, settleResult, quotaVars>>
  BY DEF Tick, listVars
<1>2. now \in Nat /\ t \in Nat  BY <1>1, NowNat, ValueAssumption
<1> QED  BY <1>1, <1>2, QuotasKept

LEMMA NextIInv == ASSUME IInv, [CoreNext]_coreVars PROVE IInv'
<1>1. ASSUME UNCHANGED <<now, deployed, policyTokenInfo, settleResult, quotaVars>>
      PROVE  IInv'
  BY <1>1, NowNat, QuotasKept
<1>2. CASE Tick  BY <1>2, TickStep
<1>3. CASE CoreUser
  <2>1. PICK p \in Policies, s \in Stablecoins, u \in Users :
            \/ redeemAfterSettlement(p, s, u)
            \/ \E a \in Amounts :
                   deposit(p, s, a, u) \/ redeem(p, s, a, u) \/ claim(p, s, a, u)
    BY <1>3 DEF CoreUser
  <2>2. CASE redeemAfterSettlement(p, s, u)  BY <2>2, RedeemAfterSettlementStep
  <2>3. ASSUME NEW a \in Amounts,
               deposit(p, s, a, u) \/ redeem(p, s, a, u) \/ claim(p, s, a, u)
        PROVE  IInv'
    <3>1. CASE deposit(p, s, a, u)  BY <3>1, DepositStep
    <3>2. CASE redeem(p, s, a, u)  BY <3>2, RedeemStep
    <3>3. CASE claim(p, s, a, u)  BY <1>1, <3>3 DEF claim, listVars
    <3> QED  BY <2>3, <3>1, <3>2, <3>3
  <2> QED  BY <2>1, <2>2, <2>3
<1>4. CASE CoreTransfer
  <2>1. PICK p \in Policies, u, v \in Traders, a \in Amounts :
            transferPolicyToken(p, u, v, a)
    BY <1>4 DEF CoreTransfer
  <2> QED  BY <1>1, <2>1 DEF transferPolicyToken, listVars
<1>5. CASE CoreSettle  BY <1>5, SettleStep DEF CoreSettle
<1>6. CASE CoreDistribute  BY <1>6, DistributeStep DEF CoreDistribute
<1>7. CASE CoreCollect
  <2>1. PICK s \in Stablecoins : collectIncome(s)  BY <1>7 DEF CoreCollect
  <2> QED  BY <1>1, <2>1 DEF collectIncome, listVars
<1>8. CASE CoreOwner
  <2>1. ASSUME NEW p \in Policies, NEW terms \in Terms, deployPolicyToken(p, terms)
        PROVE  IInv'
    BY <2>1, DeployStep
  <2>2. ASSUME NEW p \in Policies, NEW s \in Stablecoins,
               deployPool(p, s, policyTokenInfo[p].deadline)
        PROVE  IInv'
    BY <1>1, <2>2 DEF deployPool
  <2>3. ASSUME NEW s \in Stablecoins, addStablecoin(s) PROVE IInv'
    BY <1>1, <2>3 DEF addStablecoin, listVars
  <2>4. ASSUME NEW part \in LotteryParts, setIncomeToLottery(part) PROVE IInv'
    BY <1>1, <2>4 DEF setIncomeToLottery, listVars
  <2>5. ASSUME NEW role \in Roles, setAddress(role) PROVE IInv'
    BY <1>1, <2>5 DEF setAddress, listVars
  <2> QED  BY <1>8, <2>1, <2>2, <2>3, <2>4, <2>5 DEF CoreOwner
<1>9. CASE UNCHANGED coreVars  BY <1>1, <1>9 DEF coreVars, listVars
<1> QED  BY <1>2, <1>3, <1>4, <1>5, <1>6, <1>7, <1>8, <1>9 DEF CoreNext

(***************************************************************************)
(* Theorems                                                                *)
(***************************************************************************)
\* The inductive invariant of everything below.
THEOREM DistributionInvariant == CoreSpec => []IInv
<1> QED  BY InitIInv, NextIInv, PTL DEF CoreSpec

\* Everyone with a quota is in the list of depositors, so that a distribution
\* of the whole list (settleAllPolicyTokens) reaches them, however often
\* depositors redeem everything and come back.
THEOREM DepositorsListed == CoreSpec => []EveryQuotaHolderListed
<1>1. IInv => EveryQuotaHolderListed  BY DEF IInv
<1> QED  BY <1>1, DistributionInvariant, PTL

\* What settleAllPolicyTokens has passed is paid, in whatever batches the
\* owner distributes, also with depositors listed several times.
THEOREM DistributedPaid == CoreSpec => []DistributedArePaid
<1>1. IInv => DistributedArePaid  BY DEF IInv
<1> QED  BY <1>1, DistributionInvariant, PTL

\* settleFinalResult records price and outcome once, not before the
\* settlement timestamp, and nothing changes them later.
THEOREM ResultFinal == CoreSpec => ResultIsFinal
<1> DEFINE Final ==
        \A p \in Policies :
            <<settleResult'[p].price, settleResult'[p].isHappened>>
                # <<settleResult[p].price, settleResult[p].isHappened>> =>
                    /\ now >= policyTokenInfo[p].settleTimestamp
                    /\ ~settleResult[p].alreadySettled
                    /\ settleResult'[p].alreadySettled
<1>1. ASSUME settleResult' = settleResult PROVE Final  BY <1>1
<1>2. ASSUME IInv, CoreNext PROVE Final
  <2>1. CASE Tick  BY <1>1, <2>1 DEF Tick
  <2>2. CASE CoreUser
    BY <1>1, <2>2 DEF CoreUser, redeemAfterSettlement, deposit, _deposit, redeem, claim
  <2>3. CASE CoreTransfer  BY <1>1, <2>3 DEF CoreTransfer, transferPolicyToken
  <2>4. CASE CoreSettle
    <3>1. PICK p \in Policies : settleFinalResult(p)  BY <2>4 DEF CoreSettle
    <3>2. PICK price \in PossiblePrices(p) :
              settleResult' = [settleResult EXCEPT ![p].alreadySettled = TRUE,
                                   ![p].price = price,
                                   ![p].isHappened = Happens(p, price)]
      BY <3>1 DEF settleFinalResult
    <3>3. settleResult \in [Policies -> SettlementInfo]  BY <1>2 DEF IInv, ListTyped
    <3>4. settleResult'[p].alreadySettled  BY <3>2, <3>3 DEF SettlementInfo
    <3>5. \A q \in Policies : q # p => settleResult'[q] = settleResult[q]
      BY <3>2, <3>3
    <3>6. now >= policyTokenInfo[p].settleTimestamp /\ ~settleResult[p].alreadySettled
      BY <3>1 DEF settleFinalResult, CanSettle, afterSettlement
    <3> QED  BY <3>4, <3>5, <3>6
  <2>5. CASE CoreDistribute
    <3>1. PICK p \in Policies, s \in Stablecoins, i, j \in 0..MaxDepositors :
              settleAllPolicyTokens(p, s, i, j)
      BY <2>5 DEF CoreDistribute
    <3>2. PICK last : settleResult' = [settleResult EXCEPT
                                           ![p].currentDistributionIndex = last]
      BY <3>1 DEF settleAllPolicyTokens
    <3>3. settleResult \in [Policies -> SettlementInfo]  BY <1>2 DEF IInv, ListTyped
    <3>4. \A q \in Policies : /\ settleResult'[q].price = settleResult[q].price
                              /\ settleResult'[q].isHappened = settleResult[q].isHappened
      BY <3>2, <3>3 DEF SettlementInfo
    <3> QED  BY <3>4
  <2>6. CASE CoreCollect  BY <1>1, <2>6 DEF CoreCollect, collectIncome
  <2>7. CASE CoreOwner
    BY <1>1, <2>7 DEF CoreOwner, deployPolicyToken, deployPool, addStablecoin,
                      setIncomeToLottery, setAddress
  <2> QED  BY <1>2, <2>1, <2>2, <2>3, <2>4, <2>5, <2>6, <2>7 DEF CoreNext
<1>3. IInv /\ [CoreNext]_coreVars => [Final]_coreVars  BY <1>2
<1> QED  BY <1>3, DistributionInvariant, PTL DEF CoreSpec, ResultIsFinal

=============================================================================
