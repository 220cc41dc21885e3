-------------------------- MODULE NaughtyILMProofs --------------------------
(***************************************************************************)
(* The initial liquidity matching, for any number of users, any amounts    *)
(* and any fee: its calls leave the pool good, its books agree with its    *)
(* users' and the fees it holds cover what they have accrued (RoundBacked),*)
(* and the quotas it hands on are covered by the pot (UsersQuotaCovered).  *)
(***************************************************************************)
EXTENDS NaughtyILM, NaughtyMarketProofs

(***************************************************************************)
(* Types                                                                   *)
(***************************************************************************)
Accounts == Users \cup {ILM, Owner, EmergencyPool}

RoundType == [status : Statuses, started : BOOLEAN, ILMDeadline : Nat,
              amountA : Nat, amountB : Nat, paired : BOOLEAN,
              degisAmount : Nat, accDegisPerShare : Nat]

DepositType == [amountA : Nat, amountB : Nat, degisDebt : Nat]

RoundTypeOK ==
    /\ round \in RoundType
    /\ users \in [Users -> DepositType]
    /\ lptoken \in [Users -> Nat]
    /\ degis \in [Accounts -> Nat]
    /\ approved \in BOOLEAN /\ drained \in BOOLEAN /\ reopened \in BOOLEAN
    /\ matchSteps \in Nat

LEMMA RoundAddresses ==
  /\ ILM \in OtherContracts /\ ILM \in Holders /\ Owner \in Holders
  /\ ILM # Pair /\ ILM # Factory /\ ILM # Core /\ ILM # IncomeMaker
  /\ ILM # Owner /\ ILM # EmergencyPool /\ Owner # Core
  /\ ILM \in Accounts /\ Owner \in Accounts /\ EmergencyPool \in Accounts
  /\ \A u \in Users : u \in Accounts /\ u \in Holders /\ u # ILM /\ u # Pair
                      /\ u # Core
  /\ Partner(ILM)
  BY ILMAssumption, HolderAssumption, Addresses DEF Holders, Accounts, Partner

LEMMA UsersFinite == IsFiniteSet(Users)
  BY FiniteAssumption

LEMMA RoundNat ==
  ASSUME RoundTypeOK
  PROVE  /\ round.amountA \in Nat /\ round.amountB \in Nat
         /\ round.accDegisPerShare \in Nat /\ round.degisAmount \in Nat
         /\ Deposited(round) \in Nat
         /\ \A u \in Users : /\ users[u].amountA \in Nat /\ users[u].amountB \in Nat
                             /\ users[u].degisDebt \in Nat
                             /\ Deposited(users[u]) \in Nat
         /\ \A a \in Accounts : degis[a] \in Nat
         /\ RoundSupply \in Nat /\ \A u \in Users : lptoken[u] <= RoundSupply
<1>1. /\ round.amountA \in Nat /\ round.amountB \in Nat
      /\ round.accDegisPerShare \in Nat /\ round.degisAmount \in Nat
  BY DEF RoundTypeOK, RoundType
<1>2. ASSUME NEW u \in Users
      PROVE  /\ users[u].amountA \in Nat /\ users[u].amountB \in Nat
             /\ users[u].degisDebt \in Nat
  BY DEF RoundTypeOK, DepositType
<1>3. \A a \in Accounts : degis[a] \in Nat  BY DEF RoundTypeOK
<1>4. RoundSupply = SumOver(lptoken, Users)  BY DEF RoundSupply, Total, SumOver
<1>5. \A u \in Users : lptoken[u] \in Nat  BY DEF RoundTypeOK
<1>6. RoundSupply \in Nat /\ \A u \in Users : lptoken[u] <= RoundSupply
  BY <1>4, <1>5, UsersFinite, SumNat
<1> QED  BY <1>1, <1>2, <1>3, <1>6 DEF Deposited

(***************************************************************************)
(* Sums over the users of the round                                        *)
(***************************************************************************)
SideA == [u \in Users |-> users[u].amountA]
SideB == [u \in Users |-> users[u].amountB]
Stakes == [u \in Users |-> Deposited(users[u])]

\* What has accrued to each user and has not been paid out, in units of
\* 1 / SCALE: what Pending rounds down.
Claims == [u \in Users |-> Deposited(users[u]) * round.accDegisPerShare
                               - users[u].degisDebt * SCALE]

SidesAgree ==
    /\ round.amountA = SumOver(SideA, Users)
    /\ round.amountB = SumOver(SideB, Users)
    /\ ~round.paired => RoundSupply = Deposited(round)

\* The fees cover the claims; before the first fee nothing has accrued.
FeesInv ==
    /\ \A u \in Users : Claims[u] >= 0
    /\ round.degisAmount = 0 =>
           /\ round.accDegisPerShare = 0
           /\ \A u \in Users : Deposited(users[u]) = 0 /\ users[u].degisDebt = 0
    /\ ~drained => SumOver(Claims, Users) <= SCALE * (degis[ILM] + matchSteps)

\* The round holds the coins until it is finished.
CoinsHeld == ~drained /\ ~round.paired => stable[USDC][ILM] >= Deposited(round)

LEMMA StakesSum ==
  ASSUME RoundTypeOK, SidesAgree
  PROVE  SumOver(Stakes, Users) = Deposited(round)
<1>1. \A u \in Users : /\ SideA[u] \in Int /\ SideB[u] \in Int
                       /\ Stakes[u] = SideA[u] + SideB[u]
  BY RoundNat DEF SideA, SideB, Stakes, Deposited
<1>2. SumOver(Stakes, Users) = SumOver(SideA, Users) + SumOver(SideB, Users)
  <2> DEFINE A == SideA
             B == SideB
             S == Stakes
  <2>1. \A u \in Users : A[u] \in Int /\ B[u] \in Int /\ S[u] = A[u] + B[u]
    BY <1>1
  <2> HIDE DEF A, B, S
  <2>2. SumOver(S, Users) = SumOver(A, Users) + SumOver(B, Users)
    BY <2>1, UsersFinite, SumPlus
  <2> QED  BY <2>2 DEF A, B, S
<1> QED  BY <1>2 DEF SidesAgree, Deposited

LEMMA ClaimsTyped ==
  ASSUME RoundTypeOK
  PROVE  \A u \in Users : Claims[u] \in Int /\ Stakes[u] \in Nat
<1> SUFFICES ASSUME NEW u \in Users PROVE Claims[u] \in Int /\ Stakes[u] \in Nat
  OBVIOUS
<1> DEFINE x == Deposited(users[u])
           y == round.accDegisPerShare
           z == users[u].degisDebt
<1>1. x \in Nat /\ y \in Nat /\ z \in Nat /\ SCALE \in Nat
  BY RoundNat, ILMAssumption
<1>2. Claims[u] = x * y - z * SCALE /\ Stakes[u] = x  BY DEF Claims, Stakes
<1> HIDE DEF x, y, z
<1>3. x * y \in Nat /\ z * SCALE \in Nat  BY <1>1, ProductNat
<1> QED  BY <1>1, <1>2, <1>3

\* One user's deposit changes, and the sides with it.
LEMMA SidesChange ==
  ASSUME RoundTypeOK, NEW user \in Users, NEW new \in DepositType,
         users' = [users EXCEPT ![user] = new]
  PROVE  /\ users' \in [Users -> DepositType]
         /\ SumOver(SideA, Users)' = SumOver(SideA, Users)
                                         + (new.amountA - users[user].amountA)
         /\ SumOver(SideB, Users)' = SumOver(SideB, Users)
                                         + (new.amountB - users[user].amountB)
<1>1. users \in [Users -> DepositType]  BY DEF RoundTypeOK
<1>2. /\ users' \in [Users -> DepositType] /\ users'[user] = new
      /\ \A u \in Users : u # user => users'[u] = users[u]
  BY <1>1
<1>3. new.amountA \in Nat /\ new.amountB \in Nat  BY DEF DepositType
<1> DEFINE A == SideA
           C == SideA'
           B == SideB
           D == SideB'
<1>4. /\ \A u \in Users : A[u] \in Int /\ B[u] \in Int
      /\ A[user] = users[user].amountA /\ B[user] = users[user].amountB
      /\ C[user] = new.amountA /\ D[user] = new.amountB
      /\ \A u \in Users : u # user => C[u] = A[u] /\ D[u] = B[u]
  BY <1>2, RoundNat DEF SideA, SideB
<1> HIDE DEF A, B, C, D
<1>5. C[user] \in Int /\ D[user] \in Int  BY <1>3, <1>4
<1>6. /\ SumOver(C, Users) = SumOver(A, Users) + (C[user] - A[user])
      /\ SumOver(D, Users) = SumOver(B, Users) + (D[user] - B[user])
  BY <1>4, <1>5, UsersFinite, SumChange
<1> QED  BY <1>2, <1>4, <1>6 DEF A, B, C, D

LEMMA DegisMove ==
  ASSUME NEW L \in [Accounts -> Nat], NEW from \in Accounts, NEW to \in Accounts,
         from # to, NEW a \in Nat, L[from] >= a
  PROVE  /\ Move(L, from, to, a) \in [Accounts -> Nat]
         /\ Move(L, from, to, a)[from] = L[from] - a
         /\ Move(L, from, to, a)[to] = L[to] + a
<1>1. L[from] - a \in Nat /\ L[to] + a \in Nat  OBVIOUS
<1> QED  BY <1>1 DEF Move

LEMMA LesserNat ==
  ASSUME NEW x \in Nat, NEW y \in Nat
  PROVE  /\ Lesser(x, y) \in Nat /\ Lesser(x, y) <= x /\ Lesser(x, y) <= y
         /\ x >= y => Lesser(x, y) = y
         /\ x < y => Lesser(x, y) = x
  BY DEF Lesser

\* The argument for the fees in one place.  One user's deposit becomes `new`,
\* each share accrues delta, a fee comes in and w is due to the user: what the
\* user's claim becomes, and what the others gain, comes out of them but for
\* less than one unit that the call may lose.
LEMMA FeeStep ==
  ASSUME RoundTypeOK, SidesAgree, \A u \in Users : Claims[u] >= 0,
         NEW user \in Users, NEW new \in DepositType, NEW delta \in Nat,
         NEW fee \in Nat, NEW w \in Nat,
         users' = [users EXCEPT ![user] = new],
         round'.accDegisPerShare = round.accDegisPerShare + delta,
         degis'[ILM] = degis[ILM] - Lesser(degis[ILM], w) + fee,
         matchSteps' = matchSteps + 1,
         Claims'[user] \in Nat,
         Claims'[user] + delta * Deposited(round)
             <= (Claims[user] + Stakes[user] * delta) - w * SCALE
                    + fee * SCALE + SCALE
  PROVE  /\ \A u \in Users : Claims'[u] >= 0
         /\ SumOver(Claims, Users) <= SCALE * (degis[ILM] + matchSteps) =>
                SumOver(Claims, Users)' <= SCALE * (degis'[ILM] + matchSteps')
<1> DEFINE C == Claims
           D == Claims'
           S == Stakes
           T == [u \in Users |-> delta * S[u]]
           M == [u \in Users |-> C[u] + T[u]]
<1>1. \A u \in Users : C[u] \in Int /\ S[u] \in Nat /\ C[u] >= 0
  BY ClaimsTyped
<1>2. SumOver(S, Users) = Deposited(round) /\ Deposited(round) \in Nat
  BY StakesSum, RoundNat
<1>3. ASSUME NEW u \in Users, u # user PROVE D[u] = C[u] + delta * S[u]
  <2> DEFINE x == Deposited(users[u])
             y == round.accDegisPerShare
             z == users[u].degisDebt * SCALE
  <2>1. users'[u] = users[u]  BY <1>3 DEF RoundTypeOK
  <2>2. D[u] = x * (y + delta) - z /\ C[u] = x * y - z /\ S[u] = x
    BY <2>1 DEF Claims, Stakes
  <2>3. x \in Nat /\ y \in Nat /\ z \in Int
    BY RoundNat, ILMAssumption, ProductNat
  <2> HIDE DEF x, y, z, C, D, S
  <2>4. x * (y + delta) = x * y + delta * x  BY <2>3
  <2>5. x * y \in Nat /\ delta * x \in Nat  BY <2>3, ProductNat
  <2> QED  BY <2>2, <2>3, <2>4, <2>5
<1>4. /\ degis[ILM] \in Nat /\ matchSteps \in Nat /\ SCALE \in Nat \ {0}
  BY RoundNat, RoundAddresses, ILMAssumption DEF RoundTypeOK
<1>5. D[user] \in Nat
      /\ D[user] + delta * Deposited(round)
             <= (C[user] + S[user] * delta) - w * SCALE + fee * SCALE + SCALE
  OBVIOUS
<1> HIDE DEF C, D, S
<1>6. \A u \in Users : /\ T[u] \in Nat /\ T[u] = delta * S[u]
                       /\ M[u] \in Int /\ M[u] = C[u] + T[u]
  <2>1. \A u \in Users : delta * S[u] \in Nat  BY <1>1, ProductNat
  <2> QED  BY <1>1, <2>1
<1> HIDE DEF T, M
<1>7. SumOver(T, Users) = delta * Deposited(round)
  <2>1. \A u \in Users : S[u] \in Int /\ T[u] = delta * S[u]  BY <1>1, <1>6
  <2> QED  BY <1>2, <2>1, UsersFinite, SumScale
<1>8. SumOver(M, Users) = SumOver(C, Users) + SumOver(T, Users)
  BY <1>1, <1>6, UsersFinite, SumPlus
<1>9. \A u \in Users : u # user => D[u] = M[u]  BY <1>3, <1>6
<1>10. SumOver(D, Users) = SumOver(M, Users) + (D[user] - M[user])
  BY <1>5, <1>6, <1>9, UsersFinite, SumChange
<1>11. \A u \in Users : D[u] >= 0
  BY <1>1, <1>5, <1>6, <1>9
<1> DEFINE c == SumOver(C, Users)
           d == SumOver(D, Users)
           s == S[user]
           k == delta * Deposited(round)
           g == degis[ILM]
           h == degis'[ILM]
           m == matchSteps
<1>12. c \in Int /\ k \in Nat
  BY <1>1, <1>2, UsersFinite, SumInt, ProductNat
<1>13. d = c + k + D[user] - (C[user] + delta * s)
  <2>1. C[user] \in Int /\ D[user] \in Int /\ delta * s \in Int
    BY <1>1, <1>5, ProductNat
  <2> QED  BY <1>6, <1>7, <1>8, <1>10, <1>12, <2>1
<1>14. d <= c - w * SCALE + fee * SCALE + SCALE
  <2>1. C[user] \in Int /\ D[user] \in Int /\ delta * s \in Nat /\ s * delta = delta * s
    BY <1>1, <1>5, ProductNat
  <2>2. w * SCALE \in Nat /\ fee * SCALE \in Nat  BY <1>4, ProductNat
  <2>3. D[user] + k <= (C[user] + delta * s) - w * SCALE + fee * SCALE + SCALE
    BY <1>5, <2>1
  <2> HIDE DEF c, d, k, s
  <2> QED  BY <1>4, <1>12, <1>13, <2>1, <2>2, <2>3
<1>15. ASSUME c <= SCALE * (g + m) PROVE d <= SCALE * (h + matchSteps')
  <2>1. h = g - Lesser(g, w) + fee /\ matchSteps' = m + 1  OBVIOUS
  <2>2. g \in Nat /\ m \in Nat  BY <1>4
  <2>3. d \in Int
    BY <1>1, <1>5, <1>6, <1>12, <1>13, ProductNat
  <2> HIDE DEF c, d, g, h, m
  <2>4. SCALE * (g + m) - w * SCALE + fee * SCALE + SCALE
            = SCALE * (g - w + fee + (m + 1))
    BY <1>4, <2>2
  <2>5. g - w + fee + (m + 1) <= h + matchSteps' /\ h \in Nat
    <3> DEFINE q == Lesser(g, w)
    <3>1. q \in Nat /\ q <= g /\ q <= w  BY <2>2, LesserNat
    <3>2. h = g - q + fee /\ matchSteps' = m + 1  BY <2>1
    <3> HIDE DEF q
    <3> QED  BY <2>2, <3>1, <3>2
  <2>6. SCALE * (g - w + fee + (m + 1)) <= SCALE * (h + matchSteps')
    <3> DEFINE x == g - w + fee + (m + 1)
               y == h + matchSteps'
    <3>1. x \in Int /\ y \in Nat /\ x <= y  BY <2>1, <2>2, <2>5
    <3> HIDE DEF x, y
    <3>2. CASE x >= 0
      <4>1. x \in Nat  BY <3>1, <3>2
      <4> QED  BY <1>4, <3>1, <4>1, ProductMonotone DEF x, y
    <3>3. CASE x < 0
      <4>1. -x \in Nat /\ SCALE * (-x) = -(SCALE * x)  BY <1>4, <3>1, <3>3
      <4>2. SCALE * (-x) \in Nat /\ SCALE * y \in Nat  BY <1>4, <3>1, <4>1, ProductNat
      <4>3. SCALE * x \in Int  BY <1>4, <3>1
      <4>4. SCALE * x <= SCALE * y  BY <4>1, <4>2, <4>3
      <4> QED  BY <4>4 DEF x, y
    <3> QED  BY <3>1, <3>2, <3>3
  <2>7. /\ SCALE * (g + m) \in Int /\ w * SCALE \in Int /\ fee * SCALE \in Int
        /\ SCALE * (g - w + fee + (m + 1)) \in Int
        /\ SCALE * (h + matchSteps') \in Int
    BY <1>4, <2>1, <2>2, <2>5
  <2> QED  BY <1>4, <1>12, <1>14, <1>15, <2>3, <2>4, <2>6, <2>7
<1> QED  BY <1>11, <1>15 DEF C, D

(***************************************************************************)
(* What the calls have in common                                           *)
(***************************************************************************)
RoundInv == RoundTypeOK /\ SidesAgree /\ FeesInv /\ CoinsHeld

\* What accrues is rounded down to a unit.
LEMMA AccruedBounds ==
  ASSUME NEW x \in Nat, NEW y \in Nat
  PROVE  /\ Accrued(x, y) \in Nat /\ x * y \in Nat /\ Accrued(x, y) * SCALE \in Nat
         /\ Accrued(x, y) * SCALE <= x * y
         /\ x * y < Accrued(x, y) * SCALE + SCALE
<1>1. x * y \in Nat /\ SCALE \in Nat \ {0}  BY ProductNat, ILMAssumption
<1> DEFINE n == x * y
           q == n \div SCALE
<1>2. n \in Nat  BY <1>1
<1> HIDE DEF n
<1>3. q \in Nat /\ q * SCALE <= n /\ n < q * SCALE + SCALE
  BY <1>1, <1>2, QuotientBounds
<1>4. Accrued(x, y) = q  BY DEF Accrued, n
<1> HIDE DEF q
<1>5. q * SCALE \in Nat  BY <1>1, <1>3, ProductNat
<1> QED  BY <1>1, <1>3, <1>4, <1>5 DEF n

LEMMA PendingBounds ==
  ASSUME RoundTypeOK, NEW u \in Users, NEW y \in Nat
  PROVE  /\ Pending(u, y) \in Int
         /\ Pending(u, y) * SCALE
                <= Deposited(users[u]) * y - users[u].degisDebt * SCALE
<1> DEFINE x == Deposited(users[u])
           z == users[u].degisDebt
           a == Accrued(x, y)
<1>1. x \in Nat /\ z \in Nat /\ SCALE \in Nat  BY RoundNat, ILMAssumption
<1>2. Pending(u, y) = a - z  BY DEF Pending
<1> HIDE DEF x, z
<1>3. a \in Nat /\ x * y \in Nat /\ a * SCALE \in Nat /\ a * SCALE <= x * y
  BY <1>1, AccruedBounds
<1> HIDE DEF a
<1>4. (a - z) * SCALE = a * SCALE - z * SCALE /\ z * SCALE \in Nat
  BY <1>1, <1>3, ProductNat
<1> QED  BY <1>1, <1>2, <1>3, <1>4 DEF x, z

\* One balance of the round's token changes.
LEMMA RoundTokensChange ==
  ASSUME RoundTypeOK, NEW u \in Users, NEW v \in Nat,
         lptoken' = [lptoken EXCEPT ![u] = v]
  PROVE  /\ lptoken' \in [Users -> Nat]
         /\ RoundSupply' = RoundSupply + (v - lptoken[u])
<1> DEFINE L == lptoken
           M == lptoken'
<1>1. /\ L \in [Users -> Nat] /\ M \in [Users -> Nat] /\ M[u] = v
      /\ \A w \in Users : w # u => M[w] = L[w]
  BY DEF RoundTypeOK
<1> HIDE DEF L, M
<1>2. SumOver(M, Users) = SumOver(L, Users) + (M[u] - L[u])
  <2>1. \A w \in Users : L[w] \in Int  BY <1>1
  <2>2. M[u] \in Int  BY <1>1
  <2> QED  BY <1>1, <2>1, <2>2, UsersFinite, SumChange
<1>3. RoundSupply = SumOver(L, Users) /\ RoundSupply' = SumOver(M, Users)
  <2>1. RoundSupply = SumOver(L, Users)  BY DEF RoundSupply, Total, SumOver, L
  <2>2. RoundSupply' = Total(lptoken', Users)  BY DEF RoundSupply
  <2>3. Total(M, Users) = SumOver(M, Users)  BY DEF Total, SumOver
  <2> QED  BY <2>1, <2>2, <2>3 DEF M
<1> QED  BY <1>1, <1>2, <1>3 DEF L, M

\* What the calls of a round leave alone, but for finishing and claiming.
RoundFrame ==
    UNCHANGED <<now, tokens, setupVars, listVars, quotaVars, settleResult,
                incomeVars, reserve, kLast, incomeMakerSet,
                incomeMakerProportion, buyerTokens, marketSteps>>

BesideMarket ==
    /\ MarketInv' /\ PotKeeps
    /\ UNCHANGED <<listVars, quotaVars, settleResult, incomeVars>>

LEMMA RoundFrameGood ==
  ASSUME MarketInv, RoundFrame, lp' \in [Holders -> Nat],
         stable' \in [Stablecoins -> [Holders -> Nat]], CoinBalance' >= CoinBalance,
         \A c \in Stablecoins : stable'[c][Core] = stable[c][Core]
  PROVE  BesideMarket
<1>1. CoreTypeOK'
  BY DEF MarketInv, MarketTypeOK, CoreTypeOK, RoundFrame, setupVars, listVars,
         quotaVars, incomeVars
<1>2. MarketTypeOK'  BY <1>1 DEF MarketInv, MarketTypeOK, RoundFrame
<1>3. ReservesBacked'
  <2>1. TokenBalance' = TokenBalance  BY DEF RoundFrame, TokenBalance
  <2>2. CoinBalance \in Nat /\ reserve.coin \in Nat
    BY BankOfPool, TypesOfMarket, ReserveNat DEF MarketInv, PairTypeOK
  <2>3. CoinBalance' \in Nat
    BY CoinAssumption, Addresses DEF CoinBalance
  <2> QED  BY <2>1, <2>2, <2>3 DEF MarketInv, ReservesBacked, RoundFrame
<1>4. KGrows'  BY DEF MarketInv, KGrows, RoundFrame
<1>5. TotalsKept
  BY DEF RoundFrame, quotaVars, TotalsKept, TotalQuota, TotalTokens
<1>6. UNCHANGED <<listVars, quotaVars, settleResult, incomeVars>>
  BY DEF RoundFrame
<1> QED  BY <1>2, <1>3, <1>4, <1>5, <1>6 DEF BesideMarket, PotKeeps, MarketInv

\* Coins move between two accounts, neither the core nor from the pool.
LEMMA RoundCoinsMove ==
  ASSUME CoreTypeOK, NEW from \in Holders, NEW to \in Holders, from # to,
         from # Pair, from # Core, to # Core, NEW a \in Nat, a <= stable[USDC][from],
         stable' = [stable EXCEPT ![USDC] = Move(@, from, to, a)]
  PROVE  /\ stable' \in [Stablecoins -> [Holders -> Nat]]
         /\ CoinBalance' >= CoinBalance
         /\ \A c \in Stablecoins : stable'[c][Core] = stable[c][Core]
         /\ stable'[USDC][from] = stable[USDC][from] - a
         /\ stable'[USDC][to] = stable[USDC][to] + a
<1> DEFINE L == stable[USDC]
           N == Move(L, from, to, a)
<1>1. /\ stable \in [Stablecoins -> [Holders -> Nat]] /\ USDC \in Stablecoins
      /\ L \in [Holders -> Nat] /\ a <= L[from] /\ L = stable[USDC]
  BY BankOfPool
<1>2. stable' = [stable EXCEPT ![USDC] = N]  OBVIOUS
<1> HIDE DEF L
<1>3. L[from] >= a /\ Core \in Holders /\ Pair \in Holders  BY <1>1, Addresses
<1>4. /\ N \in [Holders -> Nat] /\ N[from] = L[from] - a /\ N[to] = L[to] + a
      /\ \A x \in Holders : x # from /\ x # to => N[x] = L[x]
  BY <1>1, <1>3, MoveEffect
<1> HIDE DEF N
<1>5. N[Pair] >= L[Pair]
  <2>1. L[Pair] \in Nat  BY <1>1, <1>3
  <2> QED  BY <1>3, <1>4, <2>1
<1>6. stable'[USDC] = N /\ \A c \in Stablecoins : c # USDC => stable'[c] = stable[c]
  BY <1>1, <1>2
<1>7. stable' \in [Stablecoins -> [Holders -> Nat]]  BY <1>1, <1>2, <1>4
<1>8. N[Core] = L[Core]  BY <1>3, <1>4
<1> QED  BY <1>1, <1>4, <1>5, <1>6, <1>7, <1>8 DEF CoinBalance

\* What a deposit does to the fees.
LEMMA DepositFees ==
  ASSUME RoundTypeOK, SidesAgree, FeesInv, NEW user \in Users, NEW a \in Nat,
         NEW b \in Nat, depositILM(user, a, b)
  PROVE  /\ FeesInv' /\ degis' \in [Accounts -> Nat] /\ round' \in RoundType
         /\ users'[user] \in DepositType
<1> DEFINE amount == a + b
           fee == amount * FeePerCoin
           x == Deposited(users[user])
           z == users[user].degisDebt
           D == Deposited(round)
           acc == round.accDegisPerShare
           y == FeePerShare(fee)
           w == FeeReward(user, fee)
           debt == DebtAfterDeposit(user, amount, fee)
           new == [amountA |-> users[user].amountA + a,
                   amountB |-> users[user].amountB + b, degisDebt |-> debt]
           c == Claims[user]
<1>1. /\ x \in Nat /\ z \in Nat /\ D \in Nat /\ acc \in Nat /\ amount \in Nat
      /\ SCALE \in Nat \ {0} /\ FeePerCoin \in Nat \ {0} /\ amount > 0
      /\ users[user].amountA \in Nat /\ users[user].amountB \in Nat
      /\ x = users[user].amountA + users[user].amountB
      /\ round.degisAmount \in Nat
      /\ round.amountA + a \in Nat /\ round.amountB + b \in Nat
  <2>1. /\ x \in Nat /\ z \in Nat /\ D \in Nat /\ acc \in Nat /\ round.degisAmount \in Nat
        /\ users[user].amountA \in Nat /\ users[user].amountB \in Nat
        /\ round.amountA \in Nat /\ round.amountB \in Nat
    BY RoundNat
  <2>2. amount >= MINIMUM_AMOUNT  BY DEF depositILM
  <2>3. x = users[user].amountA + users[user].amountB  BY DEF Deposited
  <2> HIDE DEF x, z, D, acc
  <2> QED  BY <2>1, <2>2, <2>3, ILMAssumption
<1>2. fee \in Nat /\ fee > 0
  <2>1. amount * 1 <= amount * FeePerCoin
    <3> HIDE DEF amount
    <3>1. amount \in Nat /\ 1 \in Nat /\ FeePerCoin \in Nat /\ 1 <= FeePerCoin
      BY <1>1
    <3> QED  BY <3>1, ProductMonotone
  <2> QED  BY <1>1, <2>1
<1>3. /\ users' = [users EXCEPT ![user] = new]
      /\ round' = [round EXCEPT
               !.amountA = @ + a, !.amountB = @ + b, !.degisAmount = @ + fee,
               !.accDegisPerShare = y]
      /\ w >= 0 /\ matchSteps' = matchSteps + 1 /\ drained' = drained
      /\ round.degisAmount > 0 => D > 0
  BY DEF depositILM, MatchStep, RoundTypeOK
<1>4. /\ round'.accDegisPerShare = y /\ round'.degisAmount = round.degisAmount + fee
      /\ round' = [round EXCEPT
               !.amountA = round.amountA + a, !.amountB = round.amountB + b,
               !.degisAmount = round.degisAmount + fee, !.accDegisPerShare = y]
  BY <1>3 DEF RoundTypeOK, RoundType
<1>5. Claims[user] = x * acc - z * SCALE /\ Stakes[user] = x
  BY DEF Claims, Stakes
<1>6. Claims'[user] = (x + amount) * y - debt * SCALE
  <2>1. users'[user] = new  BY <1>3 DEF RoundTypeOK
  <2>2. Deposited(new) = x + amount  BY <1>1 DEF Deposited
  <2>3. Claims'[user] = Deposited(users'[user]) * round'.accDegisPerShare
                            - users'[user].degisDebt * SCALE
    BY DEF Claims
  <2>4. users'[user].degisDebt = debt  BY <2>1
  <2> HIDE DEF new, debt, y, w
  <2> QED  BY <1>4, <2>1, <2>2, <2>3, <2>4
<1>7. c >= 0 /\ c \in Int
  BY ClaimsTyped DEF FeesInv
<1>8. \E delta \in Nat :
          /\ y = acc + delta /\ debt \in Nat /\ w \in Nat
          /\ Claims'[user] \in Nat
          /\ Claims'[user] + delta * D
                 <= (c + x * delta) - w * SCALE + fee * SCALE + SCALE
  <2>1. CASE round.degisAmount = 0
    <3>1. acc = 0 /\ x = 0 /\ z = 0 /\ \A u \in Users : Stakes[u] = 0
      BY <2>1 DEF FeesInv, Stakes
    <3>2. D = 0
      <4> DEFINE S == Stakes
      <4>1. \A u \in Users : S[u] = 0  BY <3>1
      <4> HIDE DEF S
      <4>2. SumOver(S, Users) = 0  BY <4>1, UsersFinite, SumZero
      <4> QED  BY <4>2, StakesSum DEF S
    <3>3. y = SCALE * FeePerCoin /\ w = 0 /\ debt = z
      BY <2>1 DEF FeePerShare, FeeReward, DebtAfterDeposit
    <3>4. y \in Nat  BY <1>1, <3>3, ProductNat
    <3>5. amount * y = fee * SCALE
      <4> HIDE DEF amount, y
      <4> QED  BY <1>1, <3>3
    <3>6. fee * SCALE \in Nat /\ y * 0 = 0 /\ 0 * SCALE = 0 /\ 0 * y = 0
      BY <1>1, <1>2, <3>4, ProductNat
    <3>7. c = 0 /\ Claims'[user] = fee * SCALE
      <4>1. 0 * acc = 0  BY <1>1
      <4> HIDE DEF amount, fee, y, debt, w, acc
      <4> QED  BY <1>1, <1>5, <1>6, <3>1, <3>3, <3>5, <3>6, <4>1
    <3>8. /\ y = acc + y /\ debt \in Nat /\ w \in Nat
          /\ Claims'[user] \in Nat
          /\ Claims'[user] + y * D
                 <= (c + x * y) - w * SCALE + fee * SCALE + SCALE
      <4>1. y = acc + y /\ debt \in Nat /\ w \in Nat
        <5> HIDE DEF y, debt, w, acc, x, z
        <5> QED  BY <1>1, <3>1, <3>3, <3>4
      <4>2. PICK p \in Nat : p = fee * SCALE  BY <3>6
      <4>3. SCALE \in Nat  BY <1>1
      <4> HIDE DEF amount, fee, y, debt, w, acc, c, x, z, D
      <4>4. y * D = 0 /\ x * y = 0 /\ w * SCALE = 0
        BY <3>1, <3>2, <3>3, <3>6
      <4>5. Claims'[user] + 0 <= (c + 0) - 0 + p + SCALE
        BY <3>7, <4>2, <4>3
      <4> QED  BY <3>7, <4>1, <4>2, <4>4, <4>5
    <3> QED  BY <3>4, <3>8
  <2>2. CASE round.degisAmount # 0
    <3>1. D > 0  BY <1>1, <1>3, <2>2
    <3> DEFINE delta == (fee * SCALE) \div D
    <3>2. fee * SCALE \in Nat  BY <1>1, <1>2, ProductNat
    <3>3. delta \in Nat /\ delta * D <= fee * SCALE /\ D * delta = delta * D
          /\ delta * D \in Nat
      <4> DEFINE n == fee * SCALE
      <4>1. n \in Nat /\ D \in Nat \ {0} /\ delta = n \div D  BY <1>1, <3>1, <3>2
      <4> HIDE DEF n, D, delta
      <4>2. delta \in Nat /\ delta * D <= n  BY <4>1, QuotientBounds
      <4>3. delta * D \in Nat  BY <4>1, <4>2, ProductNat
      <4> QED  BY <4>1, <4>2, <4>3 DEF n
    <3>4. y = acc + delta  BY <2>2 DEF FeePerShare
    <3>5. y \in Nat
      <4> HIDE DEF y, delta, acc
      <4> QED  BY <1>1, <3>3, <3>4
    <3>6. debt = Accrued(x + amount, y)
      BY <2>2 DEF DebtAfterDeposit
    <3>7. debt \in Nat /\ (x + amount) * y \in Nat /\ debt * SCALE \in Nat
          /\ debt * SCALE <= (x + amount) * y
          /\ (x + amount) * y < debt * SCALE + SCALE
      <4> DEFINE s == x + amount
      <4>1. s \in Nat  BY <1>1
      <4> HIDE DEF s, y, debt
      <4>2. PICK e \in Nat : e = s  BY <4>1
      <4>3. PICK f \in Nat : f = y  BY <3>5
      <4>4. /\ Accrued(e, f) \in Nat /\ e * f \in Nat /\ Accrued(e, f) * SCALE \in Nat
            /\ Accrued(e, f) * SCALE <= e * f
            /\ e * f < Accrued(e, f) * SCALE + SCALE
        BY AccruedBounds
      <4>5. debt = Accrued(e, f)  BY <3>6, <4>2, <4>3 DEF s
      <4> QED  BY <4>2, <4>3, <4>4, <4>5 DEF s
    <3>8. w \in Nat /\ w * SCALE <= c + x * delta /\ w * SCALE \in Nat
          /\ x * delta \in Nat
      <4>0. x * delta \in Nat
        <5> HIDE DEF x, delta
        <5> QED  BY <1>1, <3>3, ProductNat
      <4>1. CASE x = 0
        <5>1. w = 0  BY <4>1 DEF FeeReward
        <5> HIDE DEF w, x, delta, c
        <5> QED  BY <1>1, <1>7, <4>0, <5>1
      <4>2. CASE x # 0
        <5>1. w = Pending(user, y)  BY <2>2, <4>2 DEF FeeReward
        <5>2. w \in Int /\ w * SCALE <= x * y - z * SCALE
          <6> HIDE DEF y, w
          <6>1. PICK f \in Nat : f = y  BY <3>5
          <6>2. Pending(user, f) \in Int
                /\ Pending(user, f) * SCALE
                      <= Deposited(users[user]) * f - users[user].degisDebt * SCALE
            BY PendingBounds
          <6> QED  BY <5>1, <6>1, <6>2
        <5> HIDE DEF y, w, x, z, acc, delta
        <5>3. w \in Nat  BY <1>3, <5>2
        <5>4. x * y = x * acc + x * delta  BY <1>1, <3>3, <3>4
        <5>5. x * acc \in Nat /\ z * SCALE \in Nat /\ w * SCALE \in Nat
          BY <1>1, <5>3, ProductNat
        <5>6. c = x * acc - z * SCALE  BY <1>5
        <5> HIDE DEF c
        <5> QED  BY <1>1, <4>0, <5>2, <5>3, <5>4, <5>5, <5>6
      <4> QED  BY <4>1, <4>2
    <3> HIDE DEF y, w, x, z, acc, delta, debt, D, amount, fee, c
    <3>9. Claims'[user] \in Nat /\ Claims'[user] < SCALE
      BY <1>1, <1>6, <3>7
    <3>10. Claims'[user] + delta * D
                 <= (c + x * delta) - w * SCALE + fee * SCALE + SCALE
      BY <1>1, <1>7, <3>2, <3>3, <3>8, <3>9
    <3> QED  BY <3>3, <3>4, <3>7, <3>8, <3>9, <3>10
  <2> QED  BY <2>1, <2>2
<1> HIDE DEF y, w, x, z, acc, debt, D, amount, fee
<1>9. PICK delta \in Nat :
          /\ y = acc + delta /\ debt \in Nat /\ w \in Nat
          /\ Claims'[user] \in Nat
          /\ Claims'[user] + delta * D
                 <= (c + x * delta) - w * SCALE + fee * SCALE + SCALE
  BY <1>8
<1>10. new \in DepositType /\ users'[user] = new
  BY <1>1, <1>3, <1>9 DEF DepositType, RoundTypeOK
<1>11. round' \in RoundType
  <2>1. y \in Nat  BY <1>1, <1>9
  <2>2. round \in RoundType  BY DEF RoundTypeOK
  <2>3. round.degisAmount + fee \in Nat  BY <1>1, <1>2
  <2> QED  BY <1>1, <1>4, <2>1, <2>2, <2>3 DEF RoundType
<1>12. /\ degis' \in [Accounts -> Nat]
       /\ degis'[ILM] = degis[ILM] - Lesser(degis[ILM], w) + fee
  <2> DEFINE g == degis[ILM]
             r == Lesser(g, w)
             paid == Move(degis, ILM, user, r)
  <2>1. /\ degis' = Move(paid, user, ILM, fee) /\ paid[user] >= fee
    BY DEF depositILM, Affordable, w, fee, amount
  <2>2. degis \in [Accounts -> Nat] /\ g \in Nat  BY RoundNat, RoundAddresses DEF RoundTypeOK
  <2>3. r \in Nat /\ r <= g  BY <1>9, <2>2, LesserNat
  <2> HIDE DEF r
  <2>4. /\ paid \in [Accounts -> Nat] /\ paid[ILM] = g - r
    BY <2>2, <2>3, RoundAddresses, DegisMove
  <2> HIDE DEF paid
  <2>5. /\ Move(paid, user, ILM, fee) \in [Accounts -> Nat]
        /\ Move(paid, user, ILM, fee)[ILM] = paid[ILM] + fee
    BY <1>2, <2>1, <2>4, RoundAddresses, DegisMove
  <2> QED  BY <2>1, <2>4, <2>5 DEF r
<1>13. /\ \A u \in Users : Claims'[u] >= 0
       /\ SumOver(Claims, Users) <= SCALE * (degis[ILM] + matchSteps) =>
              SumOver(Claims, Users)' <= SCALE * (degis'[ILM] + matchSteps')
  <2>1. Stakes[user] = x  BY <1>5 DEF x
  <2>2. \A u \in Users : Claims[u] >= 0  BY DEF FeesInv
  <2>3. round'.accDegisPerShare = round.accDegisPerShare + delta
    BY <1>4, <1>9 DEF acc
  <2>4. Claims'[user] + delta * Deposited(round)
             <= (Claims[user] + Stakes[user] * delta) - w * SCALE
                    + fee * SCALE + SCALE
    BY <1>9, <2>1 DEF D
  <2> HIDE DEF new
  <2>5. w \in Nat /\ fee \in Nat /\ Claims'[user] \in Nat  BY <1>2, <1>9
  <2> QED  BY <1>3, <1>10, <1>12, <2>2, <2>3, <2>4, <2>5, FeeStep
<1>14. round'.degisAmount # 0  BY <1>1, <1>2, <1>4
<1>15. FeesInv'
  BY <1>3, <1>13, <1>14 DEF FeesInv
<1> QED  BY <1>10, <1>11, <1>12, <1>15

LEMMA DepositGood ==
  ASSUME MarketInv, RoundInv, NEW user \in Users, NEW a \in Nat, NEW b \in Nat,
         depositILM(user, a, b)
  PROVE  BesideMarket /\ RoundInv'
<1> DEFINE amount == a + b
           new == users'[user]
<1>1. /\ FeesInv' /\ degis' \in [Accounts -> Nat] /\ round' \in RoundType
      /\ new \in DepositType
  BY DepositFees DEF RoundInv
<1>2. /\ users' = [users EXCEPT ![user] = new]
      /\ new.amountA = users[user].amountA + a
      /\ new.amountB = users[user].amountB + b
      /\ lptoken' = [lptoken EXCEPT ![user] = lptoken[user] + amount]
      /\ stable' = [stable EXCEPT ![USDC] =
                        Move(stable[USDC], user, ILM, amount)]
      /\ amount <= stable[USDC][user] /\ amount \in Nat
      /\ matchSteps' = matchSteps + 1 /\ UNCHANGED <<approved, drained, reopened>>
      /\ lp' = lp
      /\ RoundFrame
  BY DEF depositILM, MatchStep, RoundInv, RoundTypeOK, RoundFrame, pairVars
<1>3. /\ round'.amountA = round.amountA + a /\ round'.amountB = round.amountB + b
      /\ round'.paired = round.paired
  BY DEF depositILM, RoundInv, RoundTypeOK, RoundType
<1>4. /\ stable' \in [Stablecoins -> [Holders -> Nat]] /\ CoinBalance' >= CoinBalance
      /\ \A c \in Stablecoins : stable'[c][Core] = stable[c][Core]
      /\ stable'[USDC][ILM] = stable[USDC][ILM] + amount
  <2>1. CoreTypeOK  BY DEF MarketInv, MarketTypeOK
  <2> HIDE DEF amount
  <2>2. PICK m \in Nat : m = amount  BY <1>2
  <2>3. /\ stable' = [stable EXCEPT ![USDC] = Move(@, user, ILM, m)]
        /\ m <= stable[USDC][user]
    BY <1>2, <2>2
  <2>4. user \in Holders /\ user # ILM /\ user # Pair /\ user # Core
        /\ ILM \in Holders /\ ILM # Core
    BY RoundAddresses
  <2> DEFINE L == stable
             M == stable'
  <2>5. /\ M \in [Stablecoins -> [Holders -> Nat]] /\ CoinBalance' >= CoinBalance
        /\ \A c \in Stablecoins : M[c][Core] = L[c][Core]
        /\ M[USDC][ILM] = L[USDC][ILM] + m
    <3> USE DEF Move
    <3> QED  BY <2>1, <2>3, <2>4, RoundCoinsMove
  <2> QED  BY <2>2, <2>5
<1>5. BesideMarket
  BY <1>2, <1>4, RoundFrameGood DEF MarketInv, MarketTypeOK
<1>6. /\ users' \in [Users -> DepositType]
      /\ SumOver(SideA, Users)' = SumOver(SideA, Users)
                                      + (new.amountA - users[user].amountA)
      /\ SumOver(SideB, Users)' = SumOver(SideB, Users)
                                      + (new.amountB - users[user].amountB)
  <2> HIDE DEF new
  <2> QED  BY <1>1, <1>2, SidesChange DEF RoundInv
<1>7. /\ users[user].amountA \in Nat /\ users[user].amountB \in Nat
      /\ round.amountA \in Nat /\ round.amountB \in Nat /\ lptoken[user] \in Nat
      /\ RoundSupply \in Nat /\ stable[USDC][ILM] \in Nat
  BY RoundNat, RoundAddresses, BankOfPool
     DEF RoundInv, RoundTypeOK, MarketInv, MarketTypeOK
<1>8. lptoken' \in [Users -> Nat] /\ RoundSupply' = RoundSupply + amount
  <2>1. lptoken[user] + amount \in Nat  BY <1>2, <1>7
  <2> HIDE DEF amount
  <2>2. PICK v \in Nat : v = lptoken[user] + amount  BY <2>1
  <2>3. /\ lptoken' \in [Users -> Nat]
        /\ RoundSupply' = RoundSupply + (v - lptoken[user])
    BY <1>2, <2>2, RoundTokensChange DEF RoundInv
  <2> QED  BY <1>2, <1>7, <2>2, <2>3
<1>9. RoundTypeOK'
  BY <1>1, <1>2, <1>6, <1>8 DEF RoundInv, RoundTypeOK
<1>10. Deposited(round') = Deposited(round) + amount /\ Deposited(round) \in Nat
  BY <1>3, <1>7 DEF Deposited
<1>11. SidesAgree'
  <2>1. round.amountA = SumOver(SideA, Users) /\ round.amountB = SumOver(SideB, Users)
    BY DEF RoundInv, SidesAgree
  <2>2. round'.amountA = SumOver(SideA, Users)' /\ round'.amountB = SumOver(SideB, Users)'
    <3> HIDE DEF new
    <3> QED  BY <1>2, <1>3, <1>6, <1>7, <2>1
  <2>3. ~round'.paired => RoundSupply' = Deposited(round')
    BY <1>3, <1>8, <1>10 DEF RoundInv, SidesAgree
  <2> QED  BY <2>2, <2>3 DEF SidesAgree
<1>12. CoinsHeld'
  <2> HIDE DEF amount
  <2> QED  BY <1>2, <1>3, <1>4, <1>7, <1>10 DEF CoinsHeld, RoundInv
<1> QED  BY <1>1, <1>5, <1>9, <1>11, <1>12 DEF RoundInv

\* What leaving does to the fees: the leaver's claim falls to less than a unit.
LEMMA WithdrawFees ==
  ASSUME RoundTypeOK, SidesAgree, FeesInv, NEW user \in Users, NEW a \in Nat,
         NEW b \in Nat, withdrawILM(user, a, b)
  PROVE  /\ FeesInv' /\ degis' \in [Accounts -> Nat]
         /\ users'[user] \in DepositType
<1> DEFINE acc == round.accDegisPerShare
           w == Pending(user, acc)
           left == [users[user] EXCEPT !.amountA = @ - a, !.amountB = @ - b]
           debt == Accrued(Deposited(left), acc)
           new == [left EXCEPT !.degisDebt = debt]
           s == Deposited(left)
           x == Deposited(users[user])
           z == users[user].degisDebt
<1>1. /\ users' = [users EXCEPT ![user] = new]
      /\ round' = [round EXCEPT !.amountA = round.amountA - a,
                                !.amountB = round.amountB - b]
      /\ degis' = Move(degis, ILM, EmergencyPool, Lesser(degis[ILM], w))
      /\ w >= 0 /\ matchSteps' = matchSteps + 1 /\ drained' = drained
      /\ a <= users[user].amountA /\ b <= users[user].amountB /\ x > 0
  BY DEF withdrawILM, MatchStep, RoundTypeOK, Affordable
<1>2. /\ users[user].amountA \in Nat /\ users[user].amountB \in Nat
      /\ acc \in Nat /\ x \in Nat /\ z \in Nat /\ SCALE \in Nat \ {0}
      /\ Deposited(round) \in Nat
  BY RoundNat, ILMAssumption
<1>3. users[user] \in DepositType  BY DEF RoundTypeOK
<1>4. /\ users[user].amountA - a \in Nat /\ users[user].amountB - b \in Nat
  BY <1>1, <1>2
<1>5. /\ left \in DepositType
      /\ left.amountA = users[user].amountA - a
      /\ left.amountB = users[user].amountB - b
  <2>1. PICK t \in DepositType : t = users[user]  BY <1>3
  <2>2. t.amountA - a \in Nat /\ t.amountB - b \in Nat  BY <1>4, <2>1
  <2>3. left = [t EXCEPT !.amountA = t.amountA - a, !.amountB = t.amountB - b]
    BY <2>1
  <2> HIDE DEF left
  <2> QED  BY <2>1, <2>2, <2>3 DEF DepositType
<1>6. s \in Nat /\ Deposited(new) = s
  <2> DEFINE l == left
  <2>1. l \in DepositType  BY <1>5
  <2> HIDE DEF l, debt
  <2>2. [l EXCEPT !.degisDebt = debt].amountA = l.amountA
        /\ [l EXCEPT !.degisDebt = debt].amountB = l.amountB
        /\ l.amountA \in Nat /\ l.amountB \in Nat
    BY <2>1 DEF DepositType
  <2> QED  BY <2>2 DEF l, Deposited
<1> HIDE DEF s
<1>7. /\ debt \in Nat /\ s * acc \in Nat /\ debt * SCALE \in Nat
      /\ debt * SCALE <= s * acc /\ s * acc < debt * SCALE + SCALE
  <2> HIDE DEF acc
  <2>1. PICK e \in Nat : e = s  BY <1>6
  <2>2. PICK f \in Nat : f = acc  BY <1>2
  <2>3. /\ Accrued(e, f) \in Nat /\ e * f \in Nat /\ Accrued(e, f) * SCALE \in Nat
        /\ Accrued(e, f) * SCALE <= e * f
        /\ e * f < Accrued(e, f) * SCALE + SCALE
    BY AccruedBounds
  <2>4. debt = Accrued(e, f)  BY <2>1, <2>2 DEF s
  <2> HIDE DEF debt
  <2> QED  BY <2>1, <2>2, <2>3, <2>4
<1>8. w \in Nat /\ w * SCALE <= x * acc - z * SCALE
  <2> HIDE DEF acc
  <2>1. PICK f \in Nat : f = acc  BY <1>2
  <2>2. Pending(user, f) \in Int
        /\ Pending(user, f) * SCALE
               <= Deposited(users[user]) * f - users[user].degisDebt * SCALE
    BY PendingBounds
  <2> QED  BY <1>1, <2>1, <2>2
<1>9. users' = [users EXCEPT ![user] = new] /\ users'[user] = new
      /\ new \in DepositType
  <2>1. new \in DepositType
    <3> HIDE DEF left, debt
    <3> QED  BY <1>5, <1>7 DEF DepositType
  <2>2. users' = [users EXCEPT ![user] = new]  BY <1>1
  <2> HIDE DEF new
  <2> QED  BY <2>1, <2>2 DEF RoundTypeOK
<1>10. round'.accDegisPerShare = acc + 0 /\ round'.degisAmount = round.degisAmount
  BY <1>1, <1>2 DEF RoundTypeOK, RoundType
<1>11. Claims'[user] = s * acc - debt * SCALE
  <2>1. Claims'[user] = Deposited(users'[user]) * round'.accDegisPerShare
                            - users'[user].degisDebt * SCALE
    BY DEF Claims
  <2>2. new.degisDebt = debt
    <3> HIDE DEF left, debt
    <3> QED  BY <1>5 DEF DepositType
  <2>3. round'.accDegisPerShare = acc  BY <1>2, <1>10
  <2> HIDE DEF new, debt, acc
  <2> QED  BY <1>6, <1>9, <2>1, <2>2, <2>3
<1>12. Claims[user] = x * acc - z * SCALE /\ Stakes[user] = x
  BY DEF Claims, Stakes
<1>13. Claims'[user] \in Nat /\ Claims'[user] < SCALE
  <2> HIDE DEF debt, acc
  <2> QED  BY <1>2, <1>7, <1>11
<1>14. /\ degis' \in [Accounts -> Nat]
       /\ degis'[ILM] = degis[ILM] - Lesser(degis[ILM], w) + 0
  <2> DEFINE g == degis[ILM]
             r == Lesser(g, w)
  <2>1. degis \in [Accounts -> Nat] /\ g \in Nat  BY RoundNat, RoundAddresses DEF RoundTypeOK
  <2>2. r \in Nat /\ r <= g
    <3>1. w \in Nat  BY <1>8
    <3> HIDE DEF w, g
    <3> QED  BY <2>1, <3>1, LesserNat
  <2>3. degis' = Move(degis, ILM, EmergencyPool, r)  BY <1>1
  <2> HIDE DEF r
  <2>4. /\ Move(degis, ILM, EmergencyPool, r) \in [Accounts -> Nat]
        /\ Move(degis, ILM, EmergencyPool, r)[ILM] = g - r
    BY <2>1, <2>2, RoundAddresses, DegisMove
  <2> QED  BY <2>1, <2>2, <2>3, <2>4 DEF r
<1>15. Claims'[user] + 0 * Deposited(round)
           <= (Claims[user] + Stakes[user] * 0) - w * SCALE + 0 * SCALE + SCALE
  <2>1. Claims[user] \in Int /\ Stakes[user] \in Nat  BY ClaimsTyped
  <2>2. w * SCALE \in Nat /\ w * SCALE <= Claims[user]
    <3>1. w * SCALE \in Nat  BY <1>2, <1>8, ProductNat
    <3> QED  BY <1>8, <1>12, <3>1
  <2>3. 0 * Deposited(round) = 0 /\ Stakes[user] * 0 = 0 /\ 0 * SCALE = 0
    BY <1>2, <2>1
  <2> HIDE DEF w
  <2>4. PICK v \in Nat : v = w * SCALE  BY <2>2
  <2>5. Claims'[user] + 0 <= (Claims[user] + 0) - v + 0 + SCALE
    BY <1>2, <1>13, <2>1, <2>2, <2>4
  <2> QED  BY <2>3, <2>4, <2>5
<1>16. /\ \A u \in Users : Claims'[u] >= 0
       /\ SumOver(Claims, Users) <= SCALE * (degis[ILM] + matchSteps) =>
              SumOver(Claims, Users)' <= SCALE * (degis'[ILM] + matchSteps')
  <2>1. \A u \in Users : Claims[u] >= 0  BY DEF FeesInv
  <2>2. PICK n \in Nat : n = 0  OBVIOUS
  <2>3. w \in Nat  BY <1>8
  <2>4. round'.accDegisPerShare = round.accDegisPerShare + n  BY <1>10, <2>2
  <2>5. degis'[ILM] = degis[ILM] - Lesser(degis[ILM], w) + n  BY <1>14, <2>2
  <2>6. Claims'[user] \in Nat
        /\ Claims'[user] + n * Deposited(round)
              <= (Claims[user] + Stakes[user] * n) - w * SCALE + n * SCALE + SCALE
    BY <1>13, <1>15, <2>2
  <2>7. matchSteps' = matchSteps + 1  BY <1>1
  <2> HIDE DEF new, w
  <2> QED  BY <1>9, <2>1, <2>3, <2>4, <2>5, <2>6, <2>7, FeeStep
<1>17. FeesInv'
  <2>1. round.degisAmount # 0  BY <1>1, <1>2 DEF FeesInv
  <2> QED  BY <1>1, <1>10, <1>16, <2>1 DEF FeesInv
<1> QED  BY <1>9, <1>14, <1>17

LEMMA WithdrawGood ==
  ASSUME MarketInv, RoundInv, NEW user \in Users, NEW a \in Nat, NEW b \in Nat,
         withdrawILM(user, a, b)
  PROVE  BesideMarket /\ RoundInv'
<1> DEFINE amount == a + b
           out == Lesser(stable[USDC][ILM], amount)
           new == users'[user]
<1>1. FeesInv' /\ degis' \in [Accounts -> Nat] /\ new \in DepositType
  BY WithdrawFees DEF RoundInv
<1>2. /\ users' = [users EXCEPT ![user] = new]
      /\ a <= users[user].amountA /\ b <= users[user].amountB
      /\ amount <= lptoken[user]
      /\ lptoken' = [lptoken EXCEPT ![user] = lptoken[user] - amount]
      /\ stable' = [stable EXCEPT ![USDC] = Move(@, ILM, user, out)]
      /\ matchSteps' = matchSteps + 1 /\ UNCHANGED <<approved, drained, reopened>>
      /\ lp' = lp
      /\ RoundFrame
  BY RoundNat
     DEF withdrawILM, MatchStep, RoundInv, RoundTypeOK, RoundFrame, pairVars,
         Affordable
<1>3. /\ new.amountA = users[user].amountA - a
      /\ new.amountB = users[user].amountB - b
  BY DEF withdrawILM, RoundInv, RoundTypeOK, DepositType
<1>4. /\ round' = [round EXCEPT !.amountA = round.amountA - a,
                                !.amountB = round.amountB - b]
      /\ round'.amountA = round.amountA - a /\ round'.amountB = round.amountB - b
      /\ round'.paired = round.paired
  BY DEF withdrawILM, RoundInv, RoundTypeOK, RoundType
<1>5. /\ users[user].amountA \in Nat /\ users[user].amountB \in Nat
      /\ round.amountA \in Nat /\ round.amountB \in Nat /\ lptoken[user] \in Nat
      /\ RoundSupply \in Nat /\ stable[USDC][ILM] \in Nat /\ amount \in Nat
  BY RoundNat, RoundAddresses, BankOfPool
     DEF RoundInv, RoundTypeOK, MarketInv, MarketTypeOK
<1>6. users[user].amountA <= round.amountA /\ users[user].amountB <= round.amountB
  <2> DEFINE A == SideA
             B == SideB
  <2>1. /\ \A u \in Users : A[u] \in Nat /\ B[u] \in Nat
        /\ A[user] = users[user].amountA /\ B[user] = users[user].amountB
    BY RoundNat DEF SideA, SideB, RoundInv
  <2>2. round.amountA = SumOver(A, Users) /\ round.amountB = SumOver(B, Users)
    BY DEF RoundInv, SidesAgree
  <2> HIDE DEF A, B
  <2>3. A[user] <= SumOver(A, Users) /\ B[user] <= SumOver(B, Users)
    BY <2>1, UsersFinite, SumNat
  <2> QED  BY <2>1, <2>2, <2>3
<1>7. round' \in RoundType
  <2>1. round.amountA - a \in Nat /\ round.amountB - b \in Nat
    BY <1>2, <1>5, <1>6
  <2>2. round \in RoundType  BY DEF RoundInv, RoundTypeOK
  <2> QED  BY <1>4, <2>1, <2>2 DEF RoundType
<1>8. /\ out \in Nat /\ out <= stable[USDC][ILM]
      /\ stable[USDC][ILM] >= amount => out = amount
  <2> DEFINE x == stable[USDC][ILM]
  <2>1. x \in Nat  BY <1>5
  <2> HIDE DEF x, amount
  <2>2. Lesser(x, amount) \in Nat /\ Lesser(x, amount) <= x
        /\ (x >= amount => Lesser(x, amount) = amount)
    BY <1>5, <2>1, LesserNat
  <2> QED  BY <2>2 DEF x
<1> HIDE DEF out, amount
<1>9. /\ stable' \in [Stablecoins -> [Holders -> Nat]] /\ CoinBalance' >= CoinBalance
      /\ \A c \in Stablecoins : stable'[c][Core] = stable[c][Core]
      /\ stable'[USDC][ILM] = stable[USDC][ILM] - out
  <2>1. CoreTypeOK  BY DEF MarketInv, MarketTypeOK
  <2>2. PICK m \in Nat : m = out  BY <1>8
  <2>3. /\ stable' = [stable EXCEPT ![USDC] = Move(@, ILM, user, m)]
        /\ m <= stable[USDC][ILM]
    BY <1>2, <1>8, <2>2
  <2>4. user \in Holders /\ user # ILM /\ user # Core
        /\ ILM \in Holders /\ ILM # Core /\ ILM # Pair
    BY RoundAddresses
  <2> DEFINE L == stable
             M == stable'
  <2>5. /\ M \in [Stablecoins -> [Holders -> Nat]] /\ CoinBalance' >= CoinBalance
        /\ \A c \in Stablecoins : M[c][Core] = L[c][Core]
        /\ M[USDC][ILM] = L[USDC][ILM] - m
    <3> USE DEF Move
    <3> QED  BY <2>1, <2>3, <2>4, RoundCoinsMove
  <2> QED  BY <2>2, <2>5
<1>10. BesideMarket
  <2>1. lp' \in [Holders -> Nat]  BY <1>2 DEF MarketInv, MarketTypeOK
  <2> QED  BY <1>2, <1>9, <2>1, RoundFrameGood
<1>11. /\ users' \in [Users -> DepositType]
       /\ SumOver(SideA, Users)' = SumOver(SideA, Users)
                                       + (new.amountA - users[user].amountA)
       /\ SumOver(SideB, Users)' = SumOver(SideB, Users)
                                       + (new.amountB - users[user].amountB)
  <2> HIDE DEF new
  <2> QED  BY <1>1, <1>2, SidesChange DEF RoundInv
<1>12. lptoken' \in [Users -> Nat] /\ RoundSupply' = RoundSupply - amount
  <2>1. lptoken[user] - amount \in Nat  BY <1>2, <1>5
  <2>2. PICK v \in Nat : v = lptoken[user] - amount  BY <2>1
  <2>3. /\ lptoken' \in [Users -> Nat]
        /\ RoundSupply' = RoundSupply + (v - lptoken[user])
    BY <1>2, <2>2, RoundTokensChange DEF RoundInv
  <2> QED  BY <1>5, <2>2, <2>3
<1>13. RoundTypeOK'
  BY <1>1, <1>2, <1>7, <1>11, <1>12 DEF RoundInv, RoundTypeOK
<1>14. /\ Deposited(round') = Deposited(round) - amount /\ Deposited(round) \in Nat
       /\ Deposited(round) >= amount
  BY <1>2, <1>4, <1>5, <1>6 DEF Deposited, amount
<1>15. SidesAgree'
  <2>1. round.amountA = SumOver(SideA, Users) /\ round.amountB = SumOver(SideB, Users)
    BY DEF RoundInv, SidesAgree
  <2>2. round'.amountA = SumOver(SideA, Users)' /\ round'.amountB = SumOver(SideB, Users)'
    <3> HIDE DEF new
    <3> QED  BY <1>3, <1>4, <1>5, <1>11, <2>1
  <2>3. ~round'.paired => RoundSupply' = Deposited(round')
    BY <1>4, <1>12, <1>14 DEF RoundInv, SidesAgree
  <2> QED  BY <2>2, <2>3 DEF SidesAgree
<1>16. CoinsHeld'
  <2>1. ~drained /\ ~round.paired => stable[USDC][ILM] >= Deposited(round)
    BY DEF CoinsHeld, RoundInv
  <2> QED  BY <1>2, <1>4, <1>5, <1>8, <1>9, <1>14, <2>1 DEF CoinsHeld
<1> QED  BY <1>1, <1>10, <1>13, <1>15, <1>16 DEF RoundInv

\* What claiming does to the fees: all that has accrued to the user is due.
LEMMA ClaimFees ==
  ASSUME RoundTypeOK, SidesAgree, FeesInv, NEW user \in Users, NEW amount \in Nat,
         claimILM(user, amount)
  PROVE  /\ FeesInv' /\ degis' \in [Accounts -> Nat] /\ users'[user] \in DepositType
         /\ users'[user].amountA = users[user].amountA
         /\ users'[user].amountB = users[user].amountB
<1> DEFINE acc == round.accDegisPerShare
           w == Pending(user, acc)
           x == Deposited(users[user])
           z == users[user].degisDebt
           new == [users[user] EXCEPT !.degisDebt = z + w]
<1>1. /\ users' = [users EXCEPT ![user].degisDebt = z + w]
      /\ degis' = Move(degis, ILM, user, Lesser(degis[ILM], w))
      /\ w >= 0 /\ matchSteps' = matchSteps + 1 /\ drained' = drained
      /\ round' = round
  BY DEF claimILM, MatchStep, RoundTypeOK, Affordable
<1>2. /\ users[user].amountA \in Nat /\ users[user].amountB \in Nat
      /\ acc \in Nat /\ x \in Nat /\ z \in Nat /\ SCALE \in Nat \ {0}
      /\ Deposited(round) \in Nat
  BY RoundNat, ILMAssumption
<1>3. w \in Nat /\ w * SCALE <= x * acc - z * SCALE
  <2> HIDE DEF acc
  <2>1. PICK f \in Nat : f = acc  BY <1>2
  <2>2. Pending(user, f) \in Int
        /\ Pending(user, f) * SCALE
               <= Deposited(users[user]) * f - users[user].degisDebt * SCALE
    BY PendingBounds
  <2> QED  BY <1>1, <2>1, <2>2
<1>4. /\ new \in DepositType /\ new.amountA = users[user].amountA
      /\ new.amountB = users[user].amountB /\ new.degisDebt = z + w
  <2>1. PICK t \in DepositType : t = users[user]  BY DEF RoundTypeOK
  <2>2. z + w \in Nat  BY <1>2, <1>3
  <2> HIDE DEF z, w
  <2> QED  BY <2>1, <2>2 DEF DepositType
<1>5. users' = [users EXCEPT ![user] = new] /\ users'[user] = new
  <2>1. users' = [users EXCEPT ![user] = new]  BY <1>1
  <2> HIDE DEF new
  <2> QED  BY <2>1 DEF RoundTypeOK
<1>6. Claims[user] = x * acc - z * SCALE /\ Stakes[user] = x
  BY DEF Claims, Stakes
<1>7. Claims'[user] = x * acc - (z + w) * SCALE
  <2>1. Claims'[user] = Deposited(users'[user]) * round'.accDegisPerShare
                            - users'[user].degisDebt * SCALE
    BY DEF Claims
  <2>2. Deposited(new) = x  BY <1>4 DEF Deposited
  <2> HIDE DEF new, w, x, z
  <2> QED  BY <1>1, <1>4, <1>5, <2>1, <2>2
<1>8. /\ x * acc \in Nat /\ z * SCALE \in Nat /\ w * SCALE \in Nat
      /\ (z + w) * SCALE = z * SCALE + w * SCALE
  <2> HIDE DEF x, acc, z, w
  <2> QED  BY <1>2, <1>3, ProductNat
<1>9. Claims'[user] \in Nat /\ Claims'[user] = Claims[user] - w * SCALE
  <2> HIDE DEF x, acc, z, w
  <2> QED  BY <1>3, <1>6, <1>7, <1>8
<1>10. /\ degis' \in [Accounts -> Nat]
       /\ degis'[ILM] = degis[ILM] - Lesser(degis[ILM], w) + 0
  <2> DEFINE g == degis[ILM]
             r == Lesser(g, w)
  <2>1. degis \in [Accounts -> Nat] /\ g \in Nat  BY RoundNat, RoundAddresses DEF RoundTypeOK
  <2>2. r \in Nat /\ r <= g  BY <1>3, <2>1, LesserNat
  <2>3. degis' = Move(degis, ILM, user, r)  BY <1>1
  <2> HIDE DEF r
  <2>4. /\ Move(degis, ILM, user, r) \in [Accounts -> Nat]
        /\ Move(degis, ILM, user, r)[ILM] = g - r
    BY <2>1, <2>2, RoundAddresses, DegisMove
  <2> QED  BY <2>1, <2>2, <2>3, <2>4 DEF r
<1>11. /\ \A u \in Users : Claims'[u] >= 0
       /\ SumOver(Claims, Users) <= SCALE * (degis[ILM] + matchSteps) =>
              SumOver(Claims, Users)' <= SCALE * (degis'[ILM] + matchSteps')
  <2>1. \A u \in Users : Claims[u] >= 0  BY DEF FeesInv
  <2>2. PICK n \in Nat : n = 0  OBVIOUS
  <2>3. w \in Nat  BY <1>3
  <2>4. round'.accDegisPerShare = round.accDegisPerShare + n  BY <1>1, <1>2, <2>2
  <2>5. degis'[ILM] = degis[ILM] - Lesser(degis[ILM], w) + n  BY <1>10, <2>2
  <2>6. Claims'[user] \in Nat
        /\ Claims'[user] + n * Deposited(round)
              <= (Claims[user] + Stakes[user] * n) - w * SCALE + n * SCALE + SCALE
    <3>1. Claims[user] \in Int /\ Stakes[user] \in Nat  BY ClaimsTyped
    <3>2. n * Deposited(round) = 0 /\ Stakes[user] * n = 0 /\ n * SCALE = 0
      BY <1>2, <2>2, <3>1
    <3> HIDE DEF w
    <3> QED  BY <1>2, <1>8, <1>9, <3>1, <3>2
  <2>7. matchSteps' = matchSteps + 1  BY <1>1
  <2> HIDE DEF new, w
  <2> QED  BY <1>4, <1>5, <2>1, <2>3, <2>4, <2>5, <2>6, <2>7, FeeStep
<1>12. ASSUME round'.degisAmount = 0
       PROVE  /\ round'.accDegisPerShare = 0
              /\ \A u \in Users : Deposited(users'[u]) = 0 /\ users'[u].degisDebt = 0
  <2>1. /\ acc = 0 /\ x = 0 /\ z = 0
        /\ \A u \in Users : Deposited(users[u]) = 0 /\ users[u].degisDebt = 0
    BY <1>1, <1>12 DEF FeesInv
  <2>2. w = 0
    <3> HIDE DEF w, acc, x, z
    <3>1. x * acc = 0 /\ z * SCALE = 0  BY <1>2, <2>1
    <3>2. w * SCALE <= 0  BY <1>3, <3>1
    <3>3. ASSUME w # 0 PROVE FALSE
      <4>1. 1 \in Nat /\ 1 <= w /\ SCALE \in Nat  BY <1>2, <1>3, <3>3
      <4>2. SCALE * 1 <= SCALE * w  BY <1>3, <4>1, ProductMonotone
      <4>3. SCALE * w = w * SCALE /\ SCALE * 1 = SCALE  BY <1>2, <1>3
      <4> QED  BY <1>2, <1>8, <3>2, <4>2, <4>3
    <3> QED  BY <3>3
  <2>3. Deposited(new) = 0 /\ new.degisDebt = 0
    BY <1>4, <2>1, <2>2 DEF Deposited
  <2>4. \A u \in Users : u # user => users'[u] = users[u]
    BY <1>5 DEF RoundTypeOK
  <2> HIDE DEF new
  <2> QED  BY <1>1, <1>5, <2>1, <2>3, <2>4
<1>13. FeesInv'
  BY <1>1, <1>11, <1>12 DEF FeesInv
<1> QED  BY <1>4, <1>5, <1>10, <1>13

\* What claiming does to the pool and to the quotas.
LEMMA ClaimPool ==
  ASSUME MarketInv, RoundInv, NEW user \in Users, NEW amount \in Nat,
         claimILM(user, amount)
  PROVE  /\ MarketInv' /\ MoneyKept
         /\ ClaimedQuota(amount) \in Nat
         /\ userQuota' = [userQuota EXCEPT ![Traded][user] = @ + ClaimedQuota(amount)]
         /\ TotalQuota(Traded)' = TotalQuota(Traded) + ClaimedQuota(amount)
         /\ \A q \in Policies : q # Traded => TotalQuota(q)' = TotalQuota(q)
<1> DEFINE l == (amount * lp[ILM]) \div RoundSupply
           out == Burned(Balances, l)
           quota == ClaimedQuota(amount)
<1>1. /\ amount > 0 /\ lptoken[user] >= amount /\ Deposited(round) > 0
      /\ CanBurn(Balances, l) /\ Trade(user, NoReserve, out, user)
      /\ lp' = LpBurned(ILM, l) /\ _update(Less(Balances, out))
      /\ RecordK(Less(Balances, out)) /\ updateUserQuota(Traded, user, quota)
      /\ UNCHANGED <<now, setupVars, listVars, allDepositors, settleResult,
                     incomeVars, incomeMakerSet, incomeMakerProportion,
                     buyerTokens, marketSteps>>
  BY Zenon DEF claimILM
<1>2. /\ lp[ILM] \in Nat /\ RoundSupply \in Nat /\ RoundSupply >= amount
      /\ round.amountA \in Nat /\ Deposited(round) \in Nat
  <2>1. lp[ILM] \in Nat  BY RoundAddresses DEF MarketInv, MarketTypeOK
  <2>2. /\ RoundSupply \in Nat /\ lptoken[user] <= RoundSupply
        /\ round.amountA \in Nat /\ Deposited(round) \in Nat
    BY RoundNat DEF RoundInv
  <2>3. lptoken[user] \in Nat  BY DEF RoundInv, RoundTypeOK
  <2> QED  BY <1>1, <2>1, <2>2, <2>3
<1>3. l \in Nat /\ l <= lp[ILM]
  <2> DEFINE x == lp[ILM]
             t == RoundSupply
             n == amount * x
  <2>1. x \in Nat /\ t \in Nat \ {0} /\ amount <= t  BY <1>1, <1>2
  <2> HIDE DEF x, t
  <2>2. n \in Nat /\ x * amount = n  BY <2>1, ProductNat
  <2> HIDE DEF n
  <2>3. PICK q : q = n \div t  OBVIOUS
  <2>4. q \in Nat /\ q * t <= n  BY <2>1, <2>2, <2>3, QuotientBounds
  <2>5. x * amount <= x * t /\ q * t \in Nat /\ x * t \in Nat
    BY <2>1, <2>4, ProductMonotone, ProductNat
  <2>6. q * t <= x * t  BY <2>2, <2>4, <2>5
  <2>7. q <= x  BY <2>1, <2>4, <2>6, ProductCancel
  <2> QED  BY <2>3, <2>4, <2>7 DEF x, t, n
<1>4. quota \in Nat
  <2> DEFINE n == round.amountA * amount
             D == Deposited(round)
  <2>1. n \in Nat /\ D \in Nat \ {0}  BY <1>1, <1>2, ProductNat
  <2>2. quota = n \div D  BY DEF ClaimedQuota
  <2> HIDE DEF n, D
  <2> QED  BY <2>1, <2>2, QuotientBounds
<1> HIDE DEF quota, l
<1>5. BankTyped /\ PoolFollows /\ MoneyKept
  <2>1. ILM \in Holders /\ Partner(user)  BY RoundAddresses, UsersArePartners
  <2> HIDE DEF out
  <2>2. l \in Nat /\ l <= lp[ILM]  BY <1>3
  <2>3. /\ CanBurn(Balances, l) /\ Trade(user, NoReserve, Burned(Balances, l), user)
        /\ lp' = LpBurned(ILM, l) /\ _update(Less(Balances, Burned(Balances, l)))
        /\ RecordK(Less(Balances, Burned(Balances, l)))
    BY <1>1 DEF out
  <2> QED  BY <2>1, <2>2, <2>3, WithdrawEffect, Zenon
<1>6. /\ userQuota' \in [Policies -> [Holders -> Nat]]
      /\ TotalQuota(Traded)' = TotalQuota(Traded) + quota
      /\ \A q \in Policies : q # Traded => TotalQuota(q)' = TotalQuota(q)
  <2>1. CoreTypeOK /\ Traded \in Policies /\ user \in Holders
    BY PairAssumption, RoundAddresses DEF MarketInv, MarketTypeOK
  <2>2. userQuota[Traded][user] \in Nat  BY <2>1 DEF CoreTypeOK
  <2>3. PICK v \in Nat : v = userQuota[Traded][user] + quota
    BY <1>4, <2>2
  <2>4. userQuota' = [userQuota EXCEPT ![Traded][user] = v]
    BY <1>1, <2>3 DEF updateUserQuota
  <2>5. /\ userQuota' \in [Policies -> [Holders -> Nat]]
        /\ TotalQuota(Traded)' = TotalQuota(Traded) + (v - userQuota[Traded][user])
        /\ \A q \in Policies : q # Traded => TotalQuota(q)' = TotalQuota(q)
    BY <2>1, <2>4, QuotaEffect
  <2>6. v - userQuota[Traded][user] = quota  BY <1>4, <2>2, <2>3
  <2> QED  BY <2>5, <2>6
<1>7. CoreTypeOK'
  BY <1>1, <1>5, <1>6
     DEF MarketInv, MarketTypeOK, CoreTypeOK, BankTyped, setupVars, listVars,
         incomeVars
<1>8. MarketTypeOK'
  BY <1>1, <1>5, <1>7 DEF MarketInv, MarketTypeOK, PoolFollows, TwoAmounts
<1>9. MarketInv'
  BY <1>5, <1>8, PoolFollowsGood DEF GoodStep, MarketInv
<1>10. userQuota' = [userQuota EXCEPT ![Traded][user] = @ + quota]
  BY <1>1 DEF updateUserQuota
<1> QED  BY <1>4, <1>5, <1>6, <1>9, <1>10 DEF quota

LEMMA ClaimGood ==
  ASSUME MarketInv, RoundInv, NEW user \in Users, NEW amount \in Nat,
         claimILM(user, amount)
  PROVE  /\ RoundInv' /\ round' = round /\ UNCHANGED reopened
         /\ UNCHANGED <<listVars, settleResult, incomeVars>>
         /\ RoundSupply' = RoundSupply - amount /\ amount <= RoundSupply
<1> DEFINE new == users'[user]
<1>1. /\ FeesInv' /\ degis' \in [Accounts -> Nat] /\ new \in DepositType
      /\ new.amountA = users[user].amountA /\ new.amountB = users[user].amountB
  BY ClaimFees DEF RoundInv
<1>2. /\ users' = [users EXCEPT ![user] = new]
      /\ lptoken[user] >= amount
      /\ lptoken' = [lptoken EXCEPT ![user] = lptoken[user] - amount]
      /\ round.paired /\ matchSteps' = matchSteps + 1
      /\ UNCHANGED <<round, approved, drained, reopened, listVars, settleResult,
                     incomeVars>>
  BY DEF claimILM, MatchStep, RoundInv, RoundTypeOK
<1> HIDE DEF new
<1>3. /\ users' \in [Users -> DepositType]
      /\ SumOver(SideA, Users)' = SumOver(SideA, Users)
                                      + (new.amountA - users[user].amountA)
      /\ SumOver(SideB, Users)' = SumOver(SideB, Users)
                                      + (new.amountB - users[user].amountB)
  BY <1>1, <1>2, SidesChange DEF RoundInv
<1>4. /\ users[user].amountA \in Nat /\ users[user].amountB \in Nat
      /\ round.amountA \in Nat /\ round.amountB \in Nat
      /\ RoundSupply \in Nat /\ lptoken[user] \in Nat /\ lptoken[user] <= RoundSupply
  BY RoundNat DEF RoundInv, RoundTypeOK
<1>5. lptoken' \in [Users -> Nat] /\ RoundSupply' = RoundSupply - amount
  <2>1. lptoken[user] - amount \in Nat  BY <1>2, <1>4
  <2>2. PICK v \in Nat : v = lptoken[user] - amount  BY <2>1
  <2>3. /\ lptoken' \in [Users -> Nat]
        /\ RoundSupply' = RoundSupply + (v - lptoken[user])
    BY <1>2, <2>2, RoundTokensChange DEF RoundInv
  <2> QED  BY <1>4, <2>2, <2>3
<1>6. RoundTypeOK'
  BY <1>1, <1>2, <1>3, <1>5 DEF RoundInv, RoundTypeOK
<1>7. SidesAgree'
  <2>1. round.amountA = SumOver(SideA, Users) /\ round.amountB = SumOver(SideB, Users)
    BY DEF RoundInv, SidesAgree
  <2>2. round'.amountA = SumOver(SideA, Users)' /\ round'.amountB = SumOver(SideB, Users)'
    BY <1>1, <1>2, <1>3, <1>4, <2>1
  <2> QED  BY <1>2, <2>2 DEF SidesAgree
<1>8. CoinsHeld'  BY <1>2 DEF CoinsHeld
<1> QED  BY <1>1, <1>2, <1>4, <1>5, <1>6, <1>7, <1>8 DEF RoundInv

\* Calls that change neither the deposits nor what accrues.
LEMMA RoundKept ==
  ASSUME RoundInv, UNCHANGED users, round' \in RoundType,
         round'.amountA = round.amountA, round'.amountB = round.amountB,
         round'.degisAmount = round.degisAmount,
         round'.accDegisPerShare = round.accDegisPerShare,
         round'.paired \/ ~round.paired,
         lptoken' \in [Users -> Nat], RoundSupply' = RoundSupply,
         degis' \in [Accounts -> Nat], matchSteps' \in Nat, matchSteps <= matchSteps',
         approved' \in BOOLEAN, drained' \in BOOLEAN, reopened' \in BOOLEAN,
         ~drained' => ~drained /\ degis'[ILM] = degis[ILM],
         ~drained' /\ ~round'.paired => stable[USDC][ILM] <= stable'[USDC][ILM],
         CoreTypeOK, CoreTypeOK'
  PROVE  RoundInv'
<1>1. RoundTypeOK'  BY DEF RoundInv, RoundTypeOK
<1>2. Deposited(round') = Deposited(round) /\ Deposited(round) \in Nat
  BY RoundNat DEF Deposited, RoundInv
<1>3. UNCHANGED <<SideA, SideB>>  BY DEF SideA, SideB
<1>4. SidesAgree'
  <2> DEFINE A == SideA
             B == SideB
  <2>1. /\ round.amountA = SumOver(A, Users) /\ round.amountB = SumOver(B, Users)
        /\ ~round.paired => RoundSupply = Deposited(round)
    BY DEF RoundInv, SidesAgree
  <2>2. A' = A /\ B' = B  BY <1>3
  <2> HIDE DEF A, B
  <2>3. round'.amountA = SumOver(A', Users) /\ round'.amountB = SumOver(B', Users)
    BY <2>1, <2>2
  <2> QED  BY <1>2, <2>1, <2>3 DEF SidesAgree, A, B
<1>5. Claims' = Claims  BY DEF Claims
<1>6. FeesInv'
  <2> DEFINE C == Claims
             g == degis[ILM] + matchSteps
             h == degis'[ILM] + matchSteps'
  <2>1. /\ \A u \in Users : C[u] >= 0
        /\ ~drained => SumOver(C, Users) <= SCALE * g
    BY DEF RoundInv, FeesInv
  <2>2. C' = C  BY <1>5
  <2>3. g \in Nat /\ SCALE \in Nat /\ (~drained' => h \in Nat /\ g <= h)
    <3>1. degis[ILM] \in Nat /\ matchSteps \in Nat
      BY RoundAddresses DEF RoundInv, RoundTypeOK
    <3> QED  BY <3>1, ILMAssumption
  <2>4. SumOver(C, Users) \in Int
    <3>1. \A u \in Users : C[u] \in Int  BY ClaimsTyped DEF RoundInv
    <3> HIDE DEF C
    <3> QED  BY <3>1, UsersFinite, SumInt
  <2> HIDE DEF C, g, h
  <2>5. ~drained' => SumOver(C', Users) <= SCALE * h
    <3> SUFFICES ASSUME ~drained' PROVE SumOver(C', Users) <= SCALE * h  OBVIOUS
    <3>1. SCALE * g <= SCALE * h /\ SCALE * g \in Nat /\ SCALE * h \in Nat
      BY <2>3, ProductMonotone, ProductNat
    <3>2. SumOver(C', Users) = SumOver(C, Users)  BY <2>2
    <3>3. SumOver(C, Users) <= SCALE * g  BY <2>1
    <3> QED  BY <2>4, <3>1, <3>2, <3>3
  <2>6. \A u \in Users : C'[u] >= 0  BY <2>1, <2>2
  <2>7. round'.degisAmount = 0 =>
           /\ round'.accDegisPerShare = 0
           /\ \A u \in Users : Deposited(users'[u]) = 0 /\ users'[u].degisDebt = 0
    BY DEF RoundInv, FeesInv
  <2> QED  BY <2>5, <2>6, <2>7 DEF FeesInv, C, h
<1>7. CoinsHeld'
  <2>1. stable[USDC][ILM] \in Nat /\ stable'[USDC][ILM] \in Nat
    BY RoundAddresses, CoinAssumption DEF CoreTypeOK
  <2> QED  BY <1>2, <2>1 DEF CoinsHeld, RoundInv
<1> QED  BY <1>1, <1>4, <1>6, <1>7 DEF RoundInv

(***************************************************************************)
(* What happens outside of the round                                       *)
(***************************************************************************)
\* Steps of the market take no coins from the round, and only the core touches
\* its quota.
LEMMA MarketLeavesRound ==
  ASSUME MarketInv, [MarketNext]_marketVars
  PROVE  /\ stable[USDC][ILM] <= stable'[USDC][ILM]
         /\ \/ [CoreNext]_coreVars
            \/ userQuota'[Traded][ILM] = userQuota[Traded][ILM]
<1> DEFINE Same == /\ stable'[USDC][ILM] = stable[USDC][ILM]
                   /\ userQuota'[Traded][ILM] = userQuota[Traded][ILM]
<1>1. /\ CoreTypeOK /\ stable[USDC][ILM] \in Nat
      /\ stable \in [Stablecoins -> [Holders -> Nat]] /\ USDC \in Stablecoins
      /\ userQuota \in [Policies -> [Holders -> Nat]] /\ Traded \in Policies
  <2>1. CoreTypeOK  BY DEF MarketInv, MarketTypeOK
  <2>2. userQuota \in [Policies -> [Holders -> Nat]]  BY <2>1 DEF CoreTypeOK
  <2>3. /\ stable \in [Stablecoins -> [Holders -> Nat]] /\ USDC \in Stablecoins
        /\ Traded \in Policies
    BY <2>1, BankOfPool
  <2> QED  BY <2>1, <2>2, <2>3, RoundAddresses
<1>2. CASE [CoreNext]_coreVars
  <2>1. ILM \in OtherContracts  BY RoundAddresses
  <2>2. AccountKept(ILM)  BY <1>1, <1>2, <2>1, CoreLeavesAccount
  <2>3. AccountKept(ILM) => stable[USDC][ILM] <= stable'[USDC][ILM]
    <3> SUFFICES ASSUME AccountKept(ILM) PROVE stable[USDC][ILM] <= stable'[USDC][ILM]
      OBVIOUS
    <3>1. stable'[USDC][ILM] >= stable[USDC][ILM]  BY DEF AccountKept
    <3>2. CoreTypeOK'  BY <1>1, <1>2, NextTyped
    <3>3. stable'[USDC][ILM] \in Nat
      BY <3>2, RoundAddresses, CoinAssumption DEF CoreTypeOK
    <3> QED  BY <1>1, <3>1, <3>3
  <2> QED  BY <1>2, <2>2, <2>3
<1>3. ASSUME Same
      PROVE  /\ stable[USDC][ILM] <= stable'[USDC][ILM]
             /\ userQuota'[Traded][ILM] = userQuota[Traded][ILM]
  BY <1>1, <1>3
<1>4. ASSUME UNCHANGED <<stable, userQuota>> PROVE Same  BY <1>4
<1>5. ASSUME NEW u \in Users, NEW in, NEW out, Trade(u, in, out, u),
             UNCHANGED userQuota
      PROVE  Same
  <2> DEFINE N == Move(Move(stable[USDC], u, Pair, in.coin), Pair, u, out.coin)
  <2>1. stable' = [stable EXCEPT ![USDC] = N]  BY <1>5 DEF Trade
  <2>2. N[ILM] = stable[USDC][ILM]  BY <1>1, RoundAddresses DEF Move
  <2> HIDE DEF N
  <2> QED  BY <1>1, <1>5, <2>1, <2>2
<1>6. ASSUME NEW u \in Users, NEW in, NEW L,
             PayIn(u, in, L, stable[USDC]), UNCHANGED userQuota
      PROVE  Same
  <2> DEFINE N == Move(stable[USDC], u, Pair, in.coin)
  <2>1. stable' = [stable EXCEPT ![USDC] = N]  BY <1>6 DEF PayIn
  <2>2. N[ILM] = stable[USDC][ILM]  BY <1>1, RoundAddresses DEF Move
  <2> HIDE DEF N
  <2> QED  BY <1>1, <1>6, <2>1, <2>2
<1>7. CASE Liquidity
  <2>1. PICK u \in Users :
            \/ \E a, b \in LiquidityAmounts :
                   \/ addLiquidity(u, [token |-> a, coin |-> b])
                   \/ addLiquidityWithUSD(u, [token |-> a, coin |-> b])
            \/ \E l \in LpAmounts : removeLiquidity(u, l)
    BY <1>7 DEF Liquidity
  <2>2. ASSUME NEW offer, addLiquidity(u, offer) PROVE Same
    <3> DEFINE N == Move(stable[USDC], u, Pair, Accepted(offer).coin)
    <3>1. stable' = [stable EXCEPT ![USDC] = N] /\ UNCHANGED userQuota
      BY <2>2 DEF addLiquidity, PayIn, Keeps, quotaVars
    <3>2. N[ILM] = stable[USDC][ILM]  BY <1>1, RoundAddresses DEF Move
    <3> HIDE DEF N
    <3> QED  BY <1>1, <3>1, <3>2
  <2>3. ASSUME NEW offer, addLiquidityWithUSD(u, offer) PROVE Same
    <3> DEFINE N == Move(Move(stable[USDC], u, Core, offer.token), u, Pair,
                         Accepted(offer).coin)
    <3>1. /\ stable' = [stable EXCEPT ![USDC] = N]
          /\ userQuota' = [userQuota EXCEPT ![Traded][u] = @ + offer.token]
      BY <2>3 DEF addLiquidityWithUSD, PayIn, RecordDeposit
    <3>2. N[ILM] = stable[USDC][ILM]  BY <1>1, RoundAddresses DEF Move
    <3>3. userQuota'[Traded][ILM] = userQuota[Traded][ILM]
      BY <1>1, <3>1, RoundAddresses
    <3> HIDE DEF N
    <3> QED  BY <1>1, <3>1, <3>2, <3>3
  <2>4. ASSUME NEW l, removeLiquidity(u, l) PROVE Same
    <3>1. /\ Trade(u, NoReserve, Burned(Balances, l), u) /\ UNCHANGED userQuota
      BY <2>4 DEF removeLiquidity, Keeps, quotaVars
    <3> QED  BY <1>5, <3>1, Zenon
  <2> QED  BY <1>3, <2>1, <2>2, <2>3, <2>4, Zenon
<1>8. CASE Swap
  <2>1. ASSUME NEW u \in Users, NEW isBuying, NEW amountIn, NEW amountOut,
               _swap(u, isBuying, amountIn, amountOut)
        PROVE  Same
    <3>1. /\ Trade(u, Paid(isBuying, amountIn), Given(isBuying, amountOut), u)
          /\ UNCHANGED userQuota
      BY <2>1 DEF _swap, quotaVars
    <3> QED  BY <1>5, <3>1, Zenon
  <2>2. ASSUME NEW u \in Users, NEW in, NEW out, directSwap(u, in, out) PROVE Same
    <3>1. Trade(u, in, out, u) /\ UNCHANGED userQuota
      BY <2>2 DEF directSwap, Keeps, quotaVars
    <3> QED  BY <1>5, <3>1, Zenon
  <2>3. PICK u \in Users, a \in SwapAmounts, isBuying \in BOOLEAN :
            \/ swapExactTokensforTokens(u, isBuying, a)
            \/ swapTokensforExactTokens(u, isBuying, a)
            \/ \E b \in SwapAmounts :
                   directSwap(u, Paid(isBuying, a), Given(isBuying, b))
    BY <1>8 DEF Swap
  <2>4. Same
    BY <2>1, <2>2, <2>3, Zenon DEF swapExactTokensforTokens, swapTokensforExactTokens
  <2> QED  BY <1>3, <2>4
<1>9. CASE Gift
  <2>1. PICK u \in Users, a \in GiftAmounts : gift(u, Token(a)) \/ gift(u, Coin(a))
    BY <1>9 DEF Gift
  <2>2. ASSUME NEW in, gift(u, in) PROVE Same
    <3>1. PayIn(u, in, tokens[Traded], stable[USDC]) /\ UNCHANGED userQuota
      BY <2>2 DEF gift, Keeps, quotaVars
    <3> QED  BY <1>6, <3>1, Zenon
  <2> QED  BY <1>3, <2>1, <2>2, Zenon
<1>10. CASE sync
  <2>1. UNCHANGED <<stable, userQuota>>
    BY <1>10 DEF sync, Keeps, quotaVars, ledgerVars
  <2> QED  BY <1>3, <1>4, <2>1
<1>11. CASE convertIncome
  <2>1. PICK x, y : /\ stable' = [stable EXCEPT ![USDC][Pair] = x,
                                       ![USDC][IncomeMaker] = 0,
                                       ![USDC][SharingVault] = @ + y]
                    /\ UNCHANGED userQuota
    BY <1>11 DEF convertIncome, Keeps, quotaVars
  <2>2. ILM # Pair /\ ILM # IncomeMaker /\ ILM # SharingVault /\ ILM \in Holders
    BY RoundAddresses, HolderAssumption
  <2>3. stable'[USDC][ILM] = stable[USDC][ILM]  BY <1>1, <2>1, <2>2
  <2> QED  BY <1>3, <2>1, <2>3
<1>12. CASE FactoryOwner
  <2>1. UNCHANGED <<stable, userQuota>>
    BY <1>12 DEF FactoryOwner, setIncomeMaker, setIncomeMakerProportion, coreVars,
                 ledgerVars, quotaVars
  <2> QED  BY <1>3, <1>4, <2>1
<1>13. CASE UNCHANGED marketVars
  <2>1. UNCHANGED <<stable, userQuota>>
    BY <1>13 DEF marketVars, coreVars, ledgerVars, quotaVars
  <2> QED  BY <1>3, <1>4, <2>1
<1> QED  BY <1>2, <1>7, <1>8, <1>9, <1>10, <1>11, <1>12, <1>13 DEF MarketNext

(***************************************************************************)
(* The other calls of a round                                              *)
(***************************************************************************)
\* Finishing issues the policy tokens of side A and provides all coins.
LEMMA FinishGood ==
  ASSUME MarketInv, RoundInv, finishILM
  PROVE  /\ MarketInv' /\ RoundInv'
         /\ Books(Traded, USDC, round.amountA, round.amountA, round.amountA, 0)
         /\ round' = [round EXCEPT !.status = "Finished", !.paired = TRUE]
         /\ pools' = pools \cup {<<Traded, USDC>>}
         /\ whichStablecoin' = [whichStablecoin EXCEPT ![Traded] = USDC]
         /\ RecordDeposit(Traded, round.amountA, ILM)
         /\ ~PairDeployed /\ Traded \in deployed
         /\ UNCHANGED <<settleResult, lptoken, reopened>>
<1> DEFINE offer == [token |-> round.amountA, coin |-> round.amountB]
           a == offer.token
<1>1. /\ stable[USDC][ILM] >= Deposited(round) /\ RecordDeposit(Traded, a, ILM)
      /\ PayIn(ILM, offer, [tokens[Traded] EXCEPT ![ILM] = @ + a],
               Move(stable[USDC], ILM, Core, a))
      /\ mint(Plus(Balances, offer), ILM)
      /\ UNCHANGED incomeVars
  BY Zenon DEF finishILM
<1>2. /\ pools' = pools \cup {<<Traded, USDC>>}
      /\ whichStablecoin' = [whichStablecoin EXCEPT ![Traded] = USDC]
      /\ round' = [round EXCEPT !.status = "Finished", !.paired = TRUE]
      /\ ~PairDeployed /\ Traded \in deployed
      /\ UNCHANGED <<now, setupVars, deployed, policyTokenInfo, settleResult,
                     incomeVars, incomeMakerSet, incomeMakerProportion,
                     buyerTokens, marketSteps, users, lptoken, degis, approved,
                     drained, reopened, matchSteps>>
  BY DEF finishILM
<1>3. /\ round.amountA \in Nat /\ round.amountB \in Nat /\ stable[USDC][ILM] \in Nat
  BY RoundNat, RoundAddresses, BankOfPool DEF RoundInv, MarketInv, MarketTypeOK
<1>4. offer \in TwoAmounts /\ a \in Nat /\ a = round.amountA
      /\ offer.token <= a /\ a + offer.coin <= stable[USDC][ILM]
  BY <1>1, <1>3 DEF TwoAmounts, Deposited
<1> HIDE DEF a
<1>5. /\ BankTyped /\ PoolFollows
      /\ userQuota' \in [Policies -> [Holders -> Nat]]
      /\ allDepositors' \in [Policies -> Seq(Holders)]
      /\ Books(Traded, USDC, a, a, a, 0)
  <2>1. Partner(ILM)  BY RoundAddresses
  <2> HIDE DEF offer
  <2> QED  BY <1>1, <1>4, <2>1, IssueEffect, Zenon
<1>6. /\ pools' \subseteq Policies \X Stablecoins
      /\ whichStablecoin' \in [Policies -> Stablecoins \cup {NoCoin}]
  BY <1>2, CoinAssumption, PairAssumption DEF MarketInv, MarketTypeOK, CoreTypeOK
<1>7. CoreTypeOK /\ CoreTypeOK'
  <2>1. CoreTypeOK  BY DEF MarketInv, MarketTypeOK
  <2>2. CoreTypeOK'
    BY <1>2, <1>5, <1>6, <2>1 DEF CoreTypeOK, BankTyped, setupVars, incomeVars
  <2> QED  BY <2>1, <2>2
<1>8. MarketTypeOK'
  BY <1>2, <1>5, <1>7 DEF MarketInv, MarketTypeOK, PoolFollows, TwoAmounts
<1>9. MarketInv'
  BY <1>5, <1>8, PoolFollowsGood DEF GoodStep, MarketInv
<1>10. /\ round' \in RoundType /\ round'.paired
       /\ round'.amountA = round.amountA /\ round'.amountB = round.amountB
       /\ round'.degisAmount = round.degisAmount
       /\ round'.accDegisPerShare = round.accDegisPerShare
  BY <1>2 DEF RoundInv, RoundTypeOK, RoundType, Statuses
<1>11. RoundSupply' = RoundSupply  BY <1>2 DEF RoundSupply
<1>12. RoundTypeOK  BY DEF RoundInv
<1>13. RoundInv'
  <2>1. /\ lptoken' \in [Users -> Nat] /\ degis' \in [Accounts -> Nat]
        /\ matchSteps' \in Nat /\ matchSteps <= matchSteps'
        /\ approved' \in BOOLEAN /\ drained' \in BOOLEAN /\ reopened' \in BOOLEAN
        /\ ~drained' => ~drained /\ degis'[ILM] = degis[ILM]
        /\ UNCHANGED users
    BY <1>2, <1>12 DEF RoundTypeOK
  <2>2. ~drained' /\ ~round'.paired => stable[USDC][ILM] <= stable'[USDC][ILM]
    BY <1>10
  <2> QED  BY <1>7, <1>10, <1>11, <2>1, <2>2, RoundKept
<1> QED  BY <1>1, <1>2, <1>4, <1>5, <1>9, <1>13

\* Steps of the market, and calls that only change the state of the round or
\* pass its tokens on.
LEMMA BesideGood ==
  ASSUME MarketInv, RoundInv, [MarketNext]_marketVars,
         \/ UNCHANGED matchVars
         \/ \E u \in Users : \E v \in Users \ {u}, amount \in ClaimAmounts :
                transferILMToken(u, v, amount)
         \/ approveStablecoin
         \/ \E t \in RoundDeadlines : startILM(t)
         \/ emergencyStop
         \/ emergencyRestart
  PROVE  /\ MarketInv' /\ RoundInv' /\ RoundSupply' = RoundSupply
         /\ round'.amountA = round.amountA /\ round'.amountB = round.amountB
         /\ round'.paired = round.paired
         /\ reopened => reopened'
<1>1. MarketInv'  BY NextGood DEF GoodStep, MarketInv
<1>2. CoreTypeOK /\ CoreTypeOK'  BY <1>1 DEF MarketInv, MarketTypeOK
<1>3. stable[USDC][ILM] <= stable'[USDC][ILM]  BY MarketLeavesRound
<1>4. RoundTypeOK  BY DEF RoundInv
<1>5. /\ round \in RoundType /\ lptoken \in [Users -> Nat]
      /\ degis \in [Accounts -> Nat] /\ matchSteps \in Nat
      /\ approved \in BOOLEAN /\ drained \in BOOLEAN /\ reopened \in BOOLEAN
  BY <1>4 DEF RoundTypeOK
<1> DEFINE Same == /\ UNCHANGED <<users, degis, drained>>
                   /\ round'.amountA = round.amountA
                   /\ round'.amountB = round.amountB
                   /\ round'.degisAmount = round.degisAmount
                   /\ round'.accDegisPerShare = round.accDegisPerShare
                   /\ round'.paired = round.paired
                   /\ round' \in RoundType
                   /\ lptoken' \in [Users -> Nat] /\ RoundSupply' = RoundSupply
                   /\ matchSteps' \in Nat /\ matchSteps <= matchSteps'
                   /\ approved' \in BOOLEAN /\ reopened' \in BOOLEAN
                   /\ reopened => reopened'
<1>6. ASSUME UNCHANGED lptoken PROVE RoundSupply' = RoundSupply
  BY <1>6 DEF RoundSupply
<1>7. ASSUME UNCHANGED matchVars PROVE Same
  <2>1. UNCHANGED <<round, users, lptoken, degis, approved, drained, reopened,
                    matchSteps>>
    BY <1>7 DEF matchVars
  <2> QED  BY <1>5, <1>6, <2>1
<1>8. ASSUME NEW u \in Users, NEW v \in Users \ {u}, NEW amount \in ClaimAmounts,
             transferILMToken(u, v, amount)
      PROVE  Same
  <2> DEFINE L == lptoken
             M == lptoken'
  <2>1. /\ lptoken[u] >= amount /\ lptoken' = Move(lptoken, u, v, amount)
        /\ matchSteps' = matchSteps + 1
        /\ UNCHANGED <<round, users, degis, approved, drained, reopened>>
    BY <1>8 DEF transferILMToken, MatchStep
  <2>2. amount \in Nat /\ L \in [Users -> Nat] /\ L[u] >= amount
        /\ L[u] \in Nat /\ L[v] \in Nat
    BY <1>5, <2>1, ILMAssumption
  <2>3. L[u] - amount \in Nat /\ L[v] + amount \in Nat  BY <2>2
  <2>4. /\ M \in [Users -> Nat] /\ M[u] = L[u] - amount /\ M[v] = L[v] + amount
        /\ \A w \in Users : w # u /\ w # v => M[w] = L[w]
    <3>1. M = [L EXCEPT ![u] = @ - amount, ![v] = @ + amount]  BY <2>1 DEF Move
    <3> HIDE DEF L, M
    <3>2. M = [L EXCEPT ![u] = L[u] - amount, ![v] = L[v] + amount]
      BY <2>2, <3>1
    <3>3. PICK p \in Nat : p = L[u] - amount  BY <2>3
    <3>4. PICK q \in Nat : q = L[v] + amount  BY <2>3
    <3>5. M = [L EXCEPT ![u] = p, ![v] = q]  BY <3>2, <3>3, <3>4
    <3> QED  BY <2>2, <3>3, <3>4, <3>5
  <2>5. RoundSupply = SumOver(L, Users)  BY DEF RoundSupply, Total, SumOver
  <2>6. RoundSupply' = Total(M, Users)  BY DEF RoundSupply
  <2> HIDE DEF L, M
  <2>7. Total(M, Users) = SumOver(M, Users)  BY DEF Total, SumOver
  <2>8. SumOver(M, Users) = SumOver(L, Users)
    <3>1. \A w \in Users : L[w] \in Int /\ M[w] \in Int  BY <2>2, <2>4
    <3>2. M[u] + M[v] = L[u] + L[v] /\ v \in Users /\ u # v  BY <2>2, <2>4
    <3>3. PICK f : f = L  OBVIOUS
    <3>4. PICK g : g = M  OBVIOUS
    <3>5. /\ \A w \in Users : f[w] \in Int /\ g[w] \in Int
          /\ \A w \in Users : w # u /\ w # v => g[w] = f[w]
          /\ g[u] + g[v] = f[u] + f[v]
      BY <2>4, <3>1, <3>2, <3>3, <3>4
    <3>6. SumOver(g, Users) = SumOver(f, Users)
      BY <3>2, <3>5, UsersFinite, SumTransfer
    <3> QED  BY <3>3, <3>4, <3>6
  <2>9. RoundSupply' = RoundSupply  BY <2>5, <2>6, <2>7, <2>8
  <2> QED  BY <1>5, <2>1, <2>4, <2>9 DEF M
<1>9. ASSUME UNCHANGED <<lptoken, users, degis, drained>>, round' \in RoundType,
             round'.amountA = round.amountA, round'.amountB = round.amountB,
             round'.degisAmount = round.degisAmount,
             round'.accDegisPerShare = round.accDegisPerShare,
             round'.paired = round.paired,
             matchSteps' \in {matchSteps, matchSteps + 1},
             approved' \in BOOLEAN, reopened' \in BOOLEAN, reopened => reopened'
      PROVE  Same
  BY <1>5, <1>6, <1>9
<1>10. ASSUME approveStablecoin PROVE Same
  BY <1>5, <1>6, <1>10 DEF approveStablecoin
<1>11. ASSUME \E t \in RoundDeadlines : startILM(t) PROVE Same
  <2>1. PICK t \in Nat : startILM(t)  BY <1>11, ILMAssumption
  <2>2. /\ round' = [round EXCEPT !.status = "Active", !.started = TRUE,
                                  !.ILMDeadline = t]
        /\ UNCHANGED <<users, lptoken, degis, approved, drained, reopened,
                       matchSteps>>
    BY <2>1 DEF startILM
  <2> QED  BY <1>5, <1>9, <2>2 DEF RoundType, Statuses
<1>12. ASSUME emergencyStop PROVE Same
  <2>1. /\ round' = [round EXCEPT !.status = "Stopped"]
        /\ matchSteps' = matchSteps + 1
        /\ UNCHANGED <<users, lptoken, degis, approved, drained, reopened>>
    BY <1>12 DEF emergencyStop, MatchStep
  <2> QED  BY <1>5, <1>9, <2>1 DEF RoundType, Statuses
<1>13. ASSUME emergencyRestart PROVE Same
  <2>1. /\ round' = [round EXCEPT !.status = "Active"]
        /\ reopened' = (reopened \/ round.paired)
        /\ matchSteps' = matchSteps + 1
        /\ UNCHANGED <<users, lptoken, degis, approved, drained>>
    BY <1>13 DEF emergencyRestart, MatchStep
  <2>2. reopened' \in BOOLEAN /\ (reopened => reopened')  BY <2>1
  <2> QED  BY <1>5, <1>9, <2>1, <2>2 DEF RoundType, Statuses
<1>14. Same  BY <1>7, <1>8, <1>10, <1>11, <1>12, <1>13
<1>15. degis'[ILM] = degis[ILM] /\ UNCHANGED <<users, drained>>
       /\ degis' \in [Accounts -> Nat] /\ drained' \in BOOLEAN
  BY <1>5, <1>14
<1>16. RoundInv'
  BY <1>2, <1>3, <1>14, <1>15, RoundKept
<1> QED  BY <1>1, <1>14, <1>16

\* The owner is paid from what the round holds.
LEMMA EmergencyWithdrawGood ==
  ASSUME MarketInv, RoundInv, NEW amount \in Nat, emergencyWithdraw(amount)
  PROVE  /\ BesideMarket /\ RoundInv'
         /\ UNCHANGED <<round, lptoken, reopened>>
<1>1. /\ matchSteps' = matchSteps + 1 /\ drained' = TRUE /\ RoundFrame
      /\ UNCHANGED <<round, users, lptoken, approved, reopened>>
  BY DEF emergencyWithdraw, MatchStep, RoundFrame
<1>2. CoreTypeOK /\ lp \in [Holders -> Nat]
      /\ stable \in [Stablecoins -> [Holders -> Nat]]
  BY DEF MarketInv, MarketTypeOK, CoreTypeOK
<1>3. RoundTypeOK  BY DEF RoundInv
<1> DEFINE Typed == /\ lp' \in [Holders -> Nat] /\ degis' \in [Accounts -> Nat]
                    /\ stable' \in [Stablecoins -> [Holders -> Nat]]
                    /\ CoinBalance' >= CoinBalance
                    /\ \A c \in Stablecoins : stable'[c][Core] = stable[c][Core]
<1>4. ASSUME UNCHANGED stable
      PROVE  /\ CoinBalance' >= CoinBalance
             /\ \A c \in Stablecoins : stable'[c][Core] = stable[c][Core]
  <2>1. CoinBalance' = CoinBalance  BY <1>4 DEF CoinBalance
  <2>2. CoinBalance \in Nat  BY <1>2, CoinAssumption, Addresses DEF CoinBalance
  <2> QED  BY <1>4, <2>1, <2>2
<1>5. ASSUME stable[USDC][ILM] >= amount,
             stable' = [stable EXCEPT ![USDC] = Move(@, ILM, Owner, amount)],
             UNCHANGED <<degis, lp>>
      PROVE  Typed
  <2>1. /\ ILM \in Holders /\ Owner \in Holders /\ ILM # Owner /\ ILM # Pair
        /\ ILM # Core /\ Owner # Core
    BY RoundAddresses
  <2>2. stable[USDC][ILM] \in Nat  BY <1>2, <2>1, CoinAssumption
  <2>3. amount <= stable[USDC][ILM]  BY <1>5, <2>2
  <2> DEFINE Moved == /\ stable' \in [Stablecoins -> [Holders -> Nat]]
                      /\ CoinBalance' >= CoinBalance
                      /\ \A c \in Stablecoins : stable'[c][Core] = stable[c][Core]
  <2>4. Moved
    <3> USE DEF Move
    <3> QED  BY <1>2, <1>5, <2>1, <2>3, RoundCoinsMove
  <2> QED  BY <1>2, <1>3, <1>5, <2>4 DEF RoundTypeOK
<1>6. ASSUME degis[ILM] >= amount, degis' = Move(degis, ILM, Owner, amount),
             UNCHANGED <<stable, lp>>
      PROVE  Typed
  <2>1. degis' \in [Accounts -> Nat]
    BY <1>3, <1>6, RoundAddresses, DegisMove DEF RoundTypeOK
  <2> QED  BY <1>2, <1>4, <1>6, <2>1
<1>7. ASSUME lp[ILM] >= amount, lp' = Move(lp, ILM, Owner, amount),
             UNCHANGED <<stable, degis>>
      PROVE  Typed
  <2>1. lp' \in [Holders -> Nat]
    BY <1>2, <1>7, RoundAddresses, MoveEffect
  <2> QED  BY <1>2, <1>3, <1>4, <1>7, <2>1 DEF RoundTypeOK
<1>8. Typed  BY <1>5, <1>6, <1>7 DEF emergencyWithdraw
<1>9. BesideMarket  BY <1>1, <1>8, RoundFrameGood
<1>10. CoreTypeOK'  BY <1>9 DEF BesideMarket, MarketInv, MarketTypeOK
<1>11. RoundSupply' = RoundSupply  BY <1>1 DEF RoundSupply
<1>12. RoundInv'
  <2>1. /\ round' \in RoundType /\ round' = round /\ lptoken' \in [Users -> Nat]
        /\ matchSteps' \in Nat /\ matchSteps <= matchSteps'
        /\ approved' \in BOOLEAN /\ drained' \in BOOLEAN /\ reopened' \in BOOLEAN
        /\ drained' = TRUE /\ UNCHANGED users
    BY <1>1, <1>3 DEF RoundTypeOK
  <2> QED  BY <1>2, <1>8, <1>10, <1>11, <2>1, RoundKept
<1> QED  BY <1>1, <1>9, <1>12

(***************************************************************************)
(* The invariant                                                           *)
(***************************************************************************)
LEMMA RoundInputs ==
  ASSUME RoundTypeOK
  PROVE  /\ \A a \in MatchAmounts \cup {0} : a \in Nat
         /\ \A a \in DrainAmounts : a \in Nat
         /\ \A u \in Users : \A a \in ClaimAmounts \cup {lptoken[u]} : a \in Nat
  BY ILMAssumption DEF RoundTypeOK

\* Calls that leave the pool and the books of the core alone.
Aside ==
    \/ \E u \in Users : \E a, b \in Nat : depositILM(u, a, b) \/ withdrawILM(u, a, b)
    \/ \E a \in Nat : emergencyWithdraw(a)

\* Steps of the market, and calls that do not move what the round holds.
Beside ==
    /\ [MarketNext]_marketVars
    /\ \/ UNCHANGED matchVars
       \/ \E u \in Users : \E v \in Users \ {u}, amount \in ClaimAmounts :
              transferILMToken(u, v, amount)
       \/ approveStablecoin
       \/ \E t \in RoundDeadlines : startILM(t)
       \/ emergencyStop
       \/ emergencyRestart

Claimed == \E u \in Users : \E amount \in Nat : claimILM(u, amount)

LEMMA RoundSteps ==
  ASSUME RoundTypeOK, [ILMNext]_ilmVars
  PROVE  Beside \/ Aside \/ Claimed \/ finishILM
<1>1. CASE UNCHANGED ilmVars
  <2>1. UNCHANGED marketVars /\ UNCHANGED matchVars  BY <1>1 DEF ilmVars
  <2> QED  BY <2>1 DEF Beside
<1>2. CASE MarketNext /\ UNCHANGED matchVars
  BY <1>2 DEF Beside
<1>3. CASE ILMUser
  <2>1. PICK u \in Users :
        \/ \E a, b \in MatchAmounts \cup {0} :
               depositILM(u, a, b) \/ withdrawILM(u, a, b)
        \/ \E amount \in ClaimAmounts \cup {lptoken[u]} : claimILM(u, amount)
        \/ \E v \in Users \ {u}, amount \in ClaimAmounts :
               transferILMToken(u, v, amount)
    BY <1>3 DEF ILMUser
  <2>2. CASE \E a, b \in MatchAmounts \cup {0} :
               depositILM(u, a, b) \/ withdrawILM(u, a, b)
    BY <2>2, RoundInputs, Zenon DEF Aside
  <2>3. CASE \E amount \in ClaimAmounts \cup {lptoken[u]} : claimILM(u, amount)
    BY <2>3, RoundInputs, Zenon DEF Claimed
  <2>4. CASE \E v \in Users \ {u}, amount \in ClaimAmounts :
               transferILMToken(u, v, amount)
    <3>1. PICK v \in Users \ {u}, amount \in ClaimAmounts :
               transferILMToken(u, v, amount)
      BY <2>4
    <3>2. UNCHANGED marketVars  BY <3>1 DEF transferILMToken
    <3> QED  BY <2>4, <3>2 DEF Beside
  <2> QED  BY <2>1, <2>2, <2>3, <2>4
<1>4. CASE ILMOwner
  <2>1. CASE \E t \in RoundDeadlines : startILM(t)
    <3>1. UNCHANGED marketVars  BY <2>1 DEF startILM
    <3> QED  BY <2>1, <3>1 DEF Beside
  <2>2. CASE emergencyStop
    <3>1. UNCHANGED marketVars  BY <2>2 DEF emergencyStop
    <3> QED  BY <2>2, <3>1 DEF Beside
  <2>3. CASE emergencyRestart
    <3>1. UNCHANGED marketVars  BY <2>3 DEF emergencyRestart
    <3> QED  BY <2>3, <3>1 DEF Beside
  <2>4. CASE \E amount \in DrainAmounts : emergencyWithdraw(amount)
    BY <2>4, RoundInputs, Zenon DEF Aside
  <2> QED  BY <1>4, <2>1, <2>2, <2>3, <2>4 DEF ILMOwner
<1>5. CASE approveStablecoin
  <2>1. UNCHANGED marketVars  BY <1>5 DEF approveStablecoin
  <2> QED  BY <1>5, <2>1 DEF Beside
<1> QED  BY <1>1, <1>2, <1>3, <1>4, <1>5 DEF ILMNext

LEMMA AsideGood ==
  ASSUME MarketInv, RoundInv, Aside
  PROVE  BesideMarket /\ RoundInv'
<1>1. ASSUME NEW u \in Users, NEW a \in Nat, NEW b \in Nat, depositILM(u, a, b)
      PROVE  BesideMarket /\ RoundInv'
  BY <1>1, DepositGood
<1>2. ASSUME NEW u \in Users, NEW a \in Nat, NEW b \in Nat, withdrawILM(u, a, b)
      PROVE  BesideMarket /\ RoundInv'
  BY <1>2, WithdrawGood
<1>3. ASSUME NEW a \in Nat, emergencyWithdraw(a)
      PROVE  BesideMarket /\ RoundInv'
  BY <1>3, EmergencyWithdrawGood
<1> QED  BY <1>1, <1>2, <1>3, Zenon DEF Aside

LEMMA RoundNextGood ==
  ASSUME MarketInv, RoundInv, [ILMNext]_ilmVars
  PROVE  MarketInv' /\ RoundInv'
<1>1. CASE Beside  BY <1>1, BesideGood DEF Beside
<1>2. CASE Aside  BY <1>2, AsideGood DEF BesideMarket
<1>3. CASE Claimed
  <2>1. PICK u \in Users, amount \in Nat : claimILM(u, amount)
    BY <1>3 DEF Claimed
  <2> QED  BY <2>1, ClaimPool, ClaimGood
<1>4. CASE finishILM  BY <1>4, FinishGood
<1>5. RoundTypeOK  BY DEF RoundInv
<1> QED  BY <1>1, <1>2, <1>3, <1>4, <1>5, RoundSteps

LEMMA RoundInits == ILMInit => MarketInv /\ RoundInv
<1> SUFFICES ASSUME ILMInit PROVE MarketInv /\ RoundInv  OBVIOUS
<1>1. MarketInv  BY MarketInitGood DEF ILMInit
<1>2. /\ round = NoRound /\ users = [u \in Users |-> NoDeposit]
      /\ lptoken = [u \in Users |-> 0] /\ matchSteps = 0
      /\ degis = [a \in Accounts |-> IF a \in Users THEN InitialDegis ELSE 0]
      /\ approved = FALSE /\ drained = FALSE /\ reopened = FALSE
  BY DEF ILMInit, Accounts
<1>3. RoundTypeOK
  BY <1>2, ILMAssumption
     DEF RoundTypeOK, RoundType, DepositType, NoRound, NoDeposit, Statuses
<1>4. \A u \in Users : /\ users[u].amountA = 0 /\ users[u].amountB = 0
                       /\ users[u].degisDebt = 0 /\ Deposited(users[u]) = 0
  BY <1>2 DEF NoDeposit, Deposited
<1>5. /\ round.amountA = 0 /\ round.amountB = 0 /\ Deposited(round) = 0
      /\ round.degisAmount = 0 /\ round.accDegisPerShare = 0
  BY <1>2 DEF NoRound, Deposited
<1>6. \A u \in Users : SideA[u] = 0 /\ SideB[u] = 0 /\ Claims[u] = 0
  <2>1. 0 * 0 - 0 * SCALE = 0  BY ILMAssumption
  <2> QED  BY <1>4, <1>5, <2>1 DEF SideA, SideB, Claims
<1>7. SidesAgree
  <2> DEFINE A == SideA
             B == SideB
             L == lptoken
  <2>1. \A u \in Users : A[u] = 0 /\ B[u] = 0 /\ L[u] = 0  BY <1>2, <1>6
  <2>2. RoundSupply = SumOver(L, Users)  BY DEF RoundSupply, Total, SumOver
  <2> HIDE DEF A, B, L
  <2>3. SumOver(A, Users) = 0 /\ SumOver(B, Users) = 0 /\ SumOver(L, Users) = 0
    BY <2>1, UsersFinite, SumZero
  <2> QED  BY <1>5, <2>2, <2>3 DEF SidesAgree, A, B
<1>8. FeesInv
  <2> DEFINE C == Claims
  <2>1. \A u \in Users : C[u] = 0  BY <1>6
  <2> HIDE DEF C
  <2>2. SumOver(C, Users) = 0  BY <2>1, UsersFinite, SumZero
  <2>3. degis[ILM] \in Nat /\ matchSteps \in Nat /\ SCALE \in Nat
    BY <1>3, RoundAddresses, ILMAssumption DEF RoundTypeOK
  <2>4. PICK n \in Nat : n = degis[ILM] + matchSteps  BY <2>3
  <2>5. SCALE * n >= 0  BY <2>3, <2>4, ProductNat
  <2> QED  BY <1>4, <1>5, <2>1, <2>2, <2>4, <2>5 DEF FeesInv, C
<1>9. CoinsHeld
  <2>1. stable[USDC][ILM] \in Nat
    BY <1>1, RoundAddresses, BankOfPool DEF MarketInv, MarketTypeOK
  <2> QED  BY <1>5, <2>1 DEF CoinsHeld
<1> QED  BY <1>1, <1>3, <1>7, <1>8, <1>9 DEF RoundInv

\* What the calls of the round and the steps of the market keep: the pool's
\* invariant, and the books, fees and coins of the round.
THEOREM RoundInvariant == ILMSpec => [](MarketInv /\ RoundInv)
<1>1. MarketInv /\ RoundInv /\ [ILMNext]_ilmVars => (MarketInv /\ RoundInv)'
  BY RoundNextGood
<1> QED  BY <1>1, RoundInits, PTL DEF ILMSpec

\* What the users can ask for, in whole units.
Accruals == [u \in Users |-> Pending(u, round.accDegisPerShare)]

LEMMA SideAIsSum ==
  RoundTypeOK => MapThenSumSet(LAMBDA u : users[u].amountA, Users) = SumOver(SideA, Users)
<1> DEFINE f == SideA
           Solves(e) == e = [t \in SUBSET Users |->
                    IF t = {} THEN 0
                    ELSE users[CHOOSE x \in t : TRUE].amountA
                         + e[t \ {CHOOSE x \in t : TRUE}]]
           h == CHOOSE e : Solves(e)
<1>1. MapThenSumSet(LAMBDA u : users[u].amountA, Users) = h[Users]
  BY DEF MapThenSumSet, MapThenFoldSet
<1>2. \A t \in SUBSET Users : t # {} =>
          users[CHOOSE x \in t : TRUE].amountA = f[CHOOSE x \in t : TRUE]
  BY DEF SideA
<1>3. PICK g : IsSum(g, f, Users)  BY UsersFinite, SumExists
<1>4. \A e : IsSum(e, f, Users) <=> Solves(e)
  BY <1>2 DEF IsSum
<1> HIDE DEF Solves
<1>5. IsSum(h, f, Users)
  <2> HIDE DEF f
  <2> QED  BY <1>3, <1>4
<1> HIDE DEF h
<1> QED  BY <1>1, <1>5, UsersFinite, SumUnique

LEMMA SideBIsSum ==
  RoundTypeOK => MapThenSumSet(LAMBDA u : users[u].amountB, Users) = SumOver(SideB, Users)
<1> DEFINE f == SideB
           Solves(e) == e = [t \in SUBSET Users |->
                    IF t = {} THEN 0
                    ELSE users[CHOOSE x \in t : TRUE].amountB
                         + e[t \ {CHOOSE x \in t : TRUE}]]
           h == CHOOSE e : Solves(e)
<1>1. MapThenSumSet(LAMBDA u : users[u].amountB, Users) = h[Users]
  BY DEF MapThenSumSet, MapThenFoldSet
<1>2. \A t \in SUBSET Users : t # {} =>
          users[CHOOSE x \in t : TRUE].amountB = f[CHOOSE x \in t : TRUE]
  BY DEF SideB
<1>3. PICK g : IsSum(g, f, Users)  BY UsersFinite, SumExists
<1>4. \A e : IsSum(e, f, Users) <=> Solves(e)
  BY <1>2 DEF IsSum
<1> HIDE DEF Solves
<1>5. IsSum(h, f, Users)
  <2> HIDE DEF f
  <2> QED  BY <1>3, <1>4
<1> HIDE DEF h
<1> QED  BY <1>1, <1>5, UsersFinite, SumUnique

LEMMA PendingIsSum ==
  MapThenSumSet(LAMBDA u : Pending(u, round.accDegisPerShare), Users)
      = SumOver(Accruals, Users)
<1> DEFINE f == Accruals
           Solves(e) == e = [t \in SUBSET Users |->
                    IF t = {} THEN 0
                    ELSE Pending(CHOOSE x \in t : TRUE, round.accDegisPerShare)
                         + e[t \ {CHOOSE x \in t : TRUE}]]
           h == CHOOSE e : Solves(e)
<1>1. MapThenSumSet(LAMBDA u : Pending(u, round.accDegisPerShare), Users) = h[Users]
  BY DEF MapThenSumSet, MapThenFoldSet
<1>2. \A t \in SUBSET Users : t # {} =>
          Pending(CHOOSE x \in t : TRUE, round.accDegisPerShare)
              = f[CHOOSE x \in t : TRUE]
  BY DEF Accruals
<1>3. PICK g : IsSum(g, f, Users)  BY UsersFinite, SumExists
<1>4. \A e : IsSum(e, f, Users) <=> Solves(e)
  BY <1>2 DEF IsSum
<1> HIDE DEF Solves
<1>5. IsSum(h, f, Users)
  <2> HIDE DEF f
  <2> QED  BY <1>3, <1>4
<1> HIDE DEF h
<1> QED  BY <1>1, <1>5, UsersFinite, SumUnique

\* What a user can ask for is his claim rounded down, and not negative.
LEMMA AccrualsBelowClaims ==
  ASSUME RoundTypeOK, FeesInv
  PROVE  \A u \in Users : Accruals[u] \in Nat /\ SCALE * Accruals[u] <= Claims[u]
<1> SUFFICES ASSUME NEW u \in Users
             PROVE  Accruals[u] \in Nat /\ SCALE * Accruals[u] <= Claims[u]
  OBVIOUS
<1> DEFINE x == Deposited(users[u])
           y == round.accDegisPerShare
           z == users[u].degisDebt
           a == Accrued(x, y)
<1>1. x \in Nat /\ y \in Nat /\ z \in Nat /\ SCALE \in Nat \ {0}
  BY RoundNat, ILMAssumption
<1>2. Accruals[u] = a - z /\ Claims[u] = x * y - z * SCALE /\ Claims[u] >= 0
  BY DEF Accruals, Pending, Claims, FeesInv
<1> HIDE DEF x, y, z
<1>3. /\ a \in Nat /\ x * y \in Nat /\ a * SCALE \in Nat /\ a * SCALE <= x * y
      /\ x * y < a * SCALE + SCALE
  BY <1>1, AccruedBounds
<1> HIDE DEF a
<1>4. z <= a
  <2> SUFFICES ASSUME a + 1 <= z PROVE FALSE  BY <1>1, <1>3
  <2>1. SCALE * (a + 1) <= SCALE * z  BY <1>1, <1>3, ProductMonotone
  <2>2. SCALE * (a + 1) = a * SCALE + SCALE /\ SCALE * z = z * SCALE
    BY <1>1, <1>3
  <2>3. z * SCALE \in Nat  BY <1>1, ProductNat
  <2> QED  BY <1>1, <1>2, <1>3, <2>1, <2>2, <2>3
<1>5. SCALE * (a - z) = a * SCALE - z * SCALE /\ z * SCALE \in Nat
  BY <1>1, <1>3, ProductNat
<1> QED  BY <1>1, <1>2, <1>3, <1>4, <1>5

LEMMA InvBacked == RoundInv => RoundBacked
<1> SUFFICES ASSUME RoundInv, ~drained
             PROVE  /\ ~round.paired =>
                           BooksAgree /\ stable[USDC][ILM] >= Deposited(round)
                    /\ FeesCovered
  BY DEF RoundBacked
<1>1. RoundTypeOK /\ SidesAgree /\ FeesInv /\ CoinsHeld  BY DEF RoundInv
<1>2. ASSUME ~round.paired
      PROVE  BooksAgree /\ stable[USDC][ILM] >= Deposited(round)
  BY <1>1, <1>2, SideAIsSum, SideBIsSum DEF BooksAgree, SidesAgree, CoinsHeld
<1>3. \A u \in Users : Accruals[u] \in Nat /\ SCALE * Accruals[u] <= Claims[u]
  BY <1>1, AccrualsBelowClaims
<1>4. \A u \in Users : Claims[u] \in Int  BY <1>1, ClaimsTyped
<1> DEFINE P == Accruals
           C == Claims
           S == [u \in Users |-> SCALE * P[u]]
           p == SumOver(P, Users)
           n == degis[ILM] + matchSteps
<1>5. SumOver(C, Users) <= SCALE * n  BY <1>1 DEF FeesInv
<1>6. n \in Nat /\ SCALE \in Nat \ {0}
  BY <1>1, RoundAddresses, ILMAssumption DEF RoundTypeOK
<1>7. p <= n
  <2> HIDE DEF P, C, n
  <2>1. \A u \in Users : /\ P[u] \in Nat /\ P[u] \in Int /\ S[u] = SCALE * P[u]
                         /\ S[u] \in Nat /\ S[u] \in Int /\ S[u] <= C[u] /\ C[u] \in Int
    BY <1>3, <1>4, <1>6, ProductNat DEF P, C
  <2> HIDE DEF S
  <2>2. SumOver(S, Users) = SCALE * p  BY <1>6, <2>1, UsersFinite, SumScale
  <2>3. SumOver(S, Users) <= SumOver(C, Users)  BY <2>1, UsersFinite, SumLeq
  <2>4. p \in Nat  BY <2>1, UsersFinite, SumNat
  <2>5. SumOver(C, Users) \in Int  BY <2>1, UsersFinite, SumInt
  <2> HIDE DEF p
  <2>6. SCALE * p \in Nat /\ SCALE * n \in Nat  BY <1>6, <2>4, ProductNat
  <2>7. SCALE * p <= SCALE * n  BY <1>5, <2>2, <2>3, <2>5, <2>6
  <2>8. p * SCALE <= n * SCALE  BY <1>6, <2>4, <2>7
  <2> QED  BY <1>6, <2>4, <2>8, ProductCancel
<1>8. FeesCovered
  <2>1. \A u \in Users : Pending(u, round.accDegisPerShare) >= 0
    BY <1>3 DEF Accruals
  <2> QED  BY <1>7, <2>1, PendingIsSum DEF FeesCovered
<1> QED  BY <1>2, <1>8

\* Until a round is finished its books agree with those of its users and its
\* coins are all there, so everyone can withdraw what he put in; the fees it
\* holds always cover what its users have accrued, up to a unit per call, and
\* nobody's debt bars him from withdrawing (depositILM, withdrawILM, claimILM
\* and safeTokenTransfer).  Only emergencyWithdraw takes this away.
THEOREM RoundIsBacked == ILMSpec => []RoundBacked
  BY RoundInvariant, InvBacked, PTL

\* Matching, finishing and claiming provide and withdraw liquidity besides the
\* market: all the same the pair holds at least the reserves it recorded.
THEOREM RoundKeepsReserves == ILMSpec => []ReservesBacked
<1>1. MarketInv => ReservesBacked  BY DEF MarketInv
<1> QED  BY <1>1, RoundInvariant, PTL

(***************************************************************************)
(* The quotas that come with the liquidity                                 *)
(***************************************************************************)
\* What a round has been through: before it is started nothing is in it, and a
\* finished round is not active unless it has been reopened.
RoundPhases ==
    /\ ~round.started => Deposited(round) = 0 /\ ~round.paired
    /\ round.paired /\ ~reopened => round.status # "Active"

\* The quota of the matching contract lies idle as it is handed on.
OnlyTraded(x) == [p \in Policies |-> IF p = Traded THEN x ELSE 0]

\* The contract still has the quota that it got when the round was finished.
Unpaid == ~reopened /\ (round.paired => userQuota[Traded][ILM] > 0)

\* The pot covers all quotas but x of those of the matching contract, which has
\* enough left for the liquidity not yet claimed.
CoversBut(x) ==
    /\ CoinInv(OnlyTraded(x)) /\ PotCovers(OnlyTraded(x))
    /\ ~round.paired => x = 0
    /\ round.paired => /\ whichStablecoin[Traded] # NoCoin /\ Deposited(round) > 0
                       /\ x + ClaimedQuota(RoundSupply) <= userQuota[Traded][ILM]

QuotaInv == RoundPhases /\ (Unpaid => \E x \in Nat : CoversBut(x))

LEMMA IdleTyped ==
  ASSUME NEW x \in Nat
  PROVE  /\ OnlyTraded(x) \in Idle /\ OnlyTraded(x)[Traded] = x
         /\ \A p \in Policies : p # Traded => OnlyTraded(x)[p] = 0
         /\ OnlyTraded(0) = NoIdle
  BY PairAssumption DEF OnlyTraded, Idle, NoIdle

\* Two quotients add up to no more than the quotient of the sum.
LEMMA QuotientSum ==
  ASSUME NEW n \in Nat, NEW m \in Nat, NEW d \in Nat \ {0}
  PROVE  (n \div d) + (m \div d) <= (n + m) \div d
<1> DEFINE a == n \div d
           b == m \div d
           c == (n + m) \div d
<1>1. n + m \in Nat  OBVIOUS
<1>2. /\ a \in Nat /\ b \in Nat /\ c \in Nat
      /\ a * d <= n /\ b * d <= m /\ n + m < c * d + d
  <2>1. a \in Nat /\ a * d <= n  BY QuotientBounds
  <2>2. b \in Nat /\ b * d <= m  BY QuotientBounds
  <2> DEFINE k == n + m
  <2>3. k \in Nat  BY <1>1
  <2> HIDE DEF k
  <2>4. k \div d \in Nat /\ k < (k \div d) * d + d  BY <2>3, QuotientBounds
  <2> QED  BY <2>1, <2>2, <2>4 DEF k
<1> HIDE DEF a, b, c
<1> SUFFICES ASSUME c + 1 <= a + b PROVE FALSE  BY <1>2 DEF a, b, c
<1>3. d * (c + 1) <= d * (a + b)  BY <1>2, ProductMonotone
<1>4. d * (c + 1) = c * d + d /\ d * (a + b) = a * d + b * d  BY <1>2
<1>5. a * d \in Nat /\ b * d \in Nat /\ c * d \in Nat  BY <1>2, ProductNat
<1> QED  BY <1>2, <1>3, <1>4, <1>5

\* Claiming in parts gives no more quota than claiming at once.
LEMMA ClaimedInParts ==
  ASSUME RoundTypeOK, Deposited(round) > 0, NEW s \in Nat, NEW a \in Nat, a <= s
  PROVE  /\ ClaimedQuota(a) \in Nat /\ ClaimedQuota(s) \in Nat
         /\ ClaimedQuota(s - a) \in Nat
         /\ ClaimedQuota(a) + ClaimedQuota(s - a) <= ClaimedQuota(s)
<1> DEFINE A == round.amountA
           d == Deposited(round)
<1>1. A \in Nat /\ d \in Nat \ {0}  BY RoundNat
<1>2. PICK r \in Nat : r = s - a  OBVIOUS
<1>3. /\ ClaimedQuota(a) = (A * a) \div d /\ ClaimedQuota(s) = (A * s) \div d
      /\ ClaimedQuota(r) = (A * r) \div d
  BY DEF ClaimedQuota
<1> HIDE DEF A, d
<1> DEFINE n == A * a
           m == A * r
<1>4. n \in Nat /\ m \in Nat  BY <1>1, <1>2, ProductNat
<1>5. A * s = n + m
  <2>1. s = a + r  BY <1>2
  <2> QED  BY <1>1, <1>2, <2>1
<1> HIDE DEF n, m
<1>6. n + m \in Nat  BY <1>4
<1>7. n \div d \in Nat /\ m \div d \in Nat
  BY <1>1, <1>4, QuotientBounds
<1>8. (n + m) \div d \in Nat
  <2> DEFINE k == n + m
  <2>1. k \in Nat  BY <1>6
  <2> HIDE DEF k
  <2>2. k \div d \in Nat  BY <1>1, <2>1, QuotientBounds
  <2> QED  BY <2>2 DEF k
<1>9. (n \div d) + (m \div d) <= (n + m) \div d  BY <1>1, <1>4, QuotientSum
<1>10. /\ ClaimedQuota(a) = n \div d /\ ClaimedQuota(s) = (n + m) \div d
       /\ ClaimedQuota(s - a) = m \div d
  BY <1>2, <1>3, <1>5 DEF n, m
<1> QED  BY <1>7, <1>8, <1>9, <1>10

\* The core leaves the quota of the matching contract, or pays all of it.
LEMMA CoreLeavesQuota ==
  ASSUME CoreTypeOK, [CoreNext]_coreVars
  PROVE  userQuota'[Traded][ILM] \in {userQuota[Traded][ILM], 0}
<1> DEFINE Left == userQuota'[Traded][ILM] \in {userQuota[Traded][ILM], 0}
<1>1. /\ userQuota \in [Policies -> [Holders -> Nat]] /\ Traded \in Policies
      /\ ILM \in Holders /\ \A u \in Users : u # ILM /\ u \in Holders
  BY BankOfPool, RoundAddresses DEF CoreTypeOK
<1>2. ASSUME UNCHANGED userQuota PROVE Left  BY <1>2
<1>3. ASSUME NEW p \in Policies, NEW u \in Users, NEW v,
             userQuota' = [userQuota EXCEPT ![p][u] = v]
      PROVE  Left
  <2>1. u # ILM  BY <1>1
  <2>2. userQuota'[Traded][ILM] = userQuota[Traded][ILM]  BY <1>1, <1>3, <2>1
  <2> QED  BY <2>2
<1>4. CASE Tick \/ CoreOwner
  <2>1. UNCHANGED userQuota  BY <1>4, SetupTyped DEF quotaVars
  <2> QED  BY <1>2, <2>1
<1>5. CASE CoreUser
  <2>1. PICK p \in Policies, s \in Stablecoins, u \in Users :
            \/ redeemAfterSettlement(p, s, u)
            \/ \E a \in Amounts :
                   deposit(p, s, a, u) \/ redeem(p, s, a, u) \/ claim(p, s, a, u)
    BY <1>5 DEF CoreUser
  <2>2. ASSUME redeemAfterSettlement(p, s, u) PROVE Left
    <3>1. userQuota' = [userQuota EXCEPT ![p][u] = 0]
      BY <2>2 DEF redeemAfterSettlement
    <3> QED  BY <1>3, <3>1
  <2>3. ASSUME NEW a \in Amounts, deposit(p, s, a, u) PROVE Left
    <3>1. userQuota' = [userQuota EXCEPT ![p][u] = userQuota[p][u] + a]
      BY <2>3 DEF deposit, _deposit, RecordDeposit
    <3> QED  BY <1>3, <3>1
  <2>4. ASSUME NEW a \in Amounts, redeem(p, s, a, u) PROVE Left
    <3>1. userQuota' = [userQuota EXCEPT ![p][u] = userQuota[p][u] - a]
      BY <2>4 DEF redeem
    <3> QED  BY <1>3, <3>1
  <2>5. ASSUME NEW a \in Amounts, claim(p, s, a, u) PROVE Left
    BY <1>2, <2>5 DEF claim, quotaVars
  <2> QED  BY <2>1, <2>2, <2>3, <2>4, <2>5
<1>6. CASE CoreTransfer \/ CoreSettle \/ CoreCollect \/ UNCHANGED coreVars
  <2>1. UNCHANGED userQuota
    BY <1>6 DEF CoreTransfer, transferPolicyToken, CoreSettle, settleFinalResult,
                CoreCollect, collectIncome, coreVars, quotaVars
  <2> QED  BY <1>2, <2>1
<1>7. CASE CoreDistribute
  <2>1. PICK p \in Policies, s \in Stablecoins, i, j \in 0..MaxDepositors :
            settleAllPolicyTokens(p, s, i, j)
    BY <1>7 DEF CoreDistribute
  <2>2. PICK last \in Nat : _settlePolicy(p, s, i, last)
    BY <2>1, DistributeBounds, Zenon
  <2>3. userQuota' = [userQuota EXCEPT ![p] = QuotaAfter(p, i, last)]
    BY <2>2 DEF _settlePolicy
  <2>4. QuotaAfter(p, i, last)[ILM] \in {userQuota[p][ILM], 0}
    BY <1>1 DEF QuotaAfter
  <2> QED  BY <1>1, <2>3, <2>4
<1> QED  BY <1>4, <1>5, <1>6, <1>7 DEF CoreNext

\* With one stablecoin, as deployed, the owner of the core cannot take the
\* wrong one in front of the market either.
LEMMA MarketIsCareful ==
  ASSUME Stablecoins = {USDC}, MarketInv, PoolsNamed, [MarketNext]_marketVars,
         [NoDustDistributed]_coreVars
  PROVE  [OwnerCareful]_coreVars
<1>1. CoreTypeOK  BY DEF MarketInv, MarketTypeOK
<1>2. CASE [CoreNext]_coreVars  BY <1>1, <1>2, OneCoinIsCareful
<1>3. CASE UNCHANGED listVars
  <2>1. \A p \in Policies : whichStablecoin[p] \in {USDC, NoCoin}
    BY <1>1 DEF CoreTypeOK
  <2>2. OnePoolEach  BY <1>3 DEF OnePoolEach, listVars
  <2>3. OwnCoinDistributed  BY <2>1 DEF OwnCoinDistributed
  <2> QED  BY <2>2, <2>3 DEF OwnerCareful
<1>4. CASE Issue  BY <1>3, <1>4, IssueBooks
<1> QED  BY <1>2, <1>3, <1>4, NextGood

LEMMA PhasesKept ==
  ASSUME RoundInv, RoundInv', RoundPhases, [ILMNext]_ilmVars
  PROVE  /\ RoundPhases'
         /\ reopened => reopened'
         /\ round.paired => round'.paired
<1> DEFINE Good == /\ RoundPhases'
                   /\ reopened => reopened'
                   /\ round.paired => round'.paired
<1>1. /\ RoundTypeOK /\ round \in RoundType /\ reopened \in BOOLEAN
      /\ Deposited(round) \in Nat
  BY RoundNat DEF RoundInv, RoundTypeOK
<1>2. ASSUME UNCHANGED <<round, reopened>> PROVE Good
  BY <1>2 DEF RoundPhases
<1>3. ASSUME NEW u \in Users, NEW a \in Nat, NEW b \in Nat, depositILM(u, a, b)
      PROVE  Good
  <2>1. /\ round.started /\ UNCHANGED reopened
        /\ round'.started = round.started /\ round'.paired = round.paired
        /\ round'.status = round.status
    BY <1>1, <1>3 DEF depositILM, RoundType
  <2> QED  BY <2>1 DEF RoundPhases
<1>4. ASSUME NEW u \in Users, NEW a \in Nat, NEW b \in Nat, withdrawILM(u, a, b)
      PROVE  Good
  <2>1. /\ UNCHANGED reopened
        /\ round'.started = round.started /\ round'.paired = round.paired
        /\ round'.status = round.status
        /\ round'.amountA = round.amountA - a /\ round'.amountB = round.amountB - b
    BY <1>1, <1>4 DEF withdrawILM, RoundType
  <2>2. round'.amountA \in Nat /\ round'.amountB \in Nat
        /\ round.amountA \in Nat /\ round.amountB \in Nat
    BY <1>1 DEF RoundInv, RoundTypeOK, RoundType
  <2>3. Deposited(round) = 0 => Deposited(round') = 0
    BY <2>1, <2>2 DEF Deposited
  <2> QED  BY <2>1, <2>3 DEF RoundPhases
<1>5. ASSUME NEW a \in Nat, emergencyWithdraw(a) PROVE Good
  BY <1>2, <1>5 DEF emergencyWithdraw
<1>6. ASSUME NEW u \in Users, NEW a \in Nat, claimILM(u, a) PROVE Good
  BY <1>2, <1>6 DEF claimILM
<1>7. CASE finishILM
  <2>1. /\ UNCHANGED reopened /\ Deposited(round) > 0
        /\ round' = [round EXCEPT !.status = "Finished", !.paired = TRUE]
    BY <1>7 DEF finishILM
  <2>2. /\ round'.started = round.started /\ round'.paired /\ round'.status = "Finished"
    BY <1>1, <2>1 DEF RoundType
  <2>3. round.started  BY <1>1, <2>1 DEF RoundPhases
  <2> QED  BY <2>1, <2>2, <2>3 DEF RoundPhases
<1>8. CASE Beside
  <2>1. CASE UNCHANGED matchVars  BY <1>2, <2>1 DEF matchVars
  <2>2. CASE \E u \in Users : \E v \in Users \ {u}, amount \in ClaimAmounts :
                 transferILMToken(u, v, amount)
    BY <1>2, <2>2 DEF transferILMToken
  <2>3. CASE approveStablecoin  BY <1>2, <2>3 DEF approveStablecoin
  <2>4. CASE \E t \in RoundDeadlines : startILM(t)
    <3>1. PICK t \in RoundDeadlines : startILM(t)  BY <2>4
    <3>2. /\ ~round.started /\ UNCHANGED reopened
          /\ round' = [round EXCEPT !.status = "Active", !.started = TRUE,
                                    !.ILMDeadline = t]
      BY <3>1 DEF startILM
    <3>3. ~round.paired  BY <3>2 DEF RoundPhases
    <3>4. round'.started /\ round'.paired = round.paired
      BY <1>1, <3>2 DEF RoundType
    <3> QED  BY <3>2, <3>3, <3>4 DEF RoundPhases
  <2>5. CASE emergencyStop
    <3>1. UNCHANGED reopened /\ round' = [round EXCEPT !.status = "Stopped"]
      BY <2>5 DEF emergencyStop
    <3>2. /\ round'.status = "Stopped" /\ round'.started = round.started
          /\ round'.paired = round.paired
          /\ round'.amountA = round.amountA /\ round'.amountB = round.amountB
      BY <1>1, <3>1 DEF RoundType
    <3> QED  BY <3>1, <3>2 DEF RoundPhases, Deposited
  <2>6. CASE emergencyRestart
    <3>1. /\ reopened' = (reopened \/ round.paired)
          /\ round' = [round EXCEPT !.status = "Active"]
      BY <2>6 DEF emergencyRestart
    <3>2. /\ round'.started = round.started /\ round'.paired = round.paired
          /\ round'.amountA = round.amountA /\ round'.amountB = round.amountB
      BY <1>1, <3>1 DEF RoundType
    <3> QED  BY <3>1, <3>2 DEF RoundPhases, Deposited
  <2> QED  BY <1>8, <2>1, <2>2, <2>3, <2>4, <2>5, <2>6 DEF Beside
<1>9. CASE Aside  BY <1>3, <1>4, <1>5, <1>9, Zenon DEF Aside
<1>10. CASE Claimed  BY <1>6, <1>10, Zenon DEF Claimed
<1> QED  BY <1>1, <1>7, <1>8, <1>9, <1>10, RoundSteps

\* Calls beside the pool: the pot and the totals stay, and a finished round is
\* not put into or withdrawn from.
LEMMA AsideQuota ==
  ASSUME MarketInv, MarketInv', RoundInv, RoundPhases, Aside,
         ~reopened, NEW x \in Nat, CoversBut(x)
  PROVE  CoversBut(x)'
<1>1. BesideMarket  BY AsideGood
<1>2. /\ PotKeeps /\ UNCHANGED <<listVars, quotaVars, settleResult, incomeVars>>
      /\ CoreTypeOK /\ CoreTypeOK'
  BY <1>1 DEF BesideMarket, MarketInv, MarketTypeOK
<1>3. PICK idle \in Idle : idle = OnlyTraded(x)  BY IdleTyped
<1>4. CoinInv(idle) /\ PotCovers(idle)  BY <1>3 DEF CoversBut
<1>5. CoinInv(idle)'
  <2>1. TotalsKept /\ UNCHANGED <<whichStablecoin, pools>>
    BY <1>2 DEF PotKeeps, listVars
  <2>2. \A q \in Policies : GotResult(q) => GotResult(q)'  BY <1>2 DEF GotResult
  <2> QED  BY <1>4, <2>1, <2>2, KeepsCoinInv
<1>6. PotCovers(idle)'
  <2>1. \A c \in Stablecoins, q \in Policies : Debts(idle, c)'[q] = Debts(idle, c)[q]
    BY <1>2 DEF Debts, Due, OwesQuotas, GotResult, PotKeeps, TotalsKept, listVars
  <2>2. \A c \in Stablecoins : /\ stable'[c][Core] = stable[c][Core]
                               /\ PendingIncome(c)' = PendingIncome(c)
    BY <1>2 DEF PotKeeps, incomeVars, PendingIncome
  <2> QED  BY <1>2, <1>4, <2>1, <2>2, PotUntouched, Zenon
<1>7. CASE \E u \in Users : \E a, b \in Nat : depositILM(u, a, b) \/ withdrawILM(u, a, b)
  <2>1. activePair /\ round'.paired = round.paired
    <3>1. round \in RoundType  BY DEF RoundInv, RoundTypeOK
    <3>2. ASSUME NEW u \in Users, NEW a \in Nat, NEW b \in Nat, depositILM(u, a, b)
          PROVE  activePair /\ round'.paired = round.paired
      BY <3>1, <3>2 DEF depositILM, RoundType
    <3>3. ASSUME NEW u \in Users, NEW a \in Nat, NEW b \in Nat, withdrawILM(u, a, b)
          PROVE  activePair /\ round'.paired = round.paired
      BY <3>1, <3>3 DEF withdrawILM, RoundType
    <3> QED  BY <1>7, <3>2, <3>3, Zenon
  <2>2. ~round.paired  BY <2>1 DEF RoundPhases, activePair
  <2> QED  BY <1>3, <1>5, <1>6, <2>1, <2>2 DEF CoversBut
<1>8. CASE \E a \in Nat : emergencyWithdraw(a)
  <2>1. UNCHANGED <<round, lptoken>>  BY <1>8 DEF emergencyWithdraw
  <2>2. /\ UNCHANGED <<whichStablecoin, userQuota>>  BY <1>2 DEF listVars, quotaVars
  <2>3. ClaimedQuota(RoundSupply)' = ClaimedQuota(RoundSupply)
    BY <2>1 DEF ClaimedQuota, RoundSupply
  <2> QED  BY <1>3, <1>5, <1>6, <2>1, <2>2, <2>3 DEF CoversBut
<1> QED  BY <1>7, <1>8 DEF Aside

\* Steps of the market, which leave the idle quota where it is.
LEMMA BesideQuota ==
  ASSUME Stablecoins = {USDC}, MarketInv, MarketInv', RoundInv, Beside,
         [NoDustDistributed]_coreVars, Unpaid', NEW x \in Nat, CoversBut(x)
  PROVE  CoversBut(x)'
<1>1. /\ RoundSupply' = RoundSupply /\ round'.paired = round.paired
      /\ round'.amountA = round.amountA /\ round'.amountB = round.amountB
  BY BesideGood DEF Beside
<1>2. [MarketNext]_marketVars /\ CoreTypeOK  BY DEF Beside, MarketInv, MarketTypeOK
<1>3. PICK idle \in Idle : idle = OnlyTraded(x)  BY IdleTyped
<1>4. CoinInv(idle) /\ PotCovers(idle)  BY <1>3 DEF CoversBut
<1>5. [OwnerCareful]_coreVars
  <2>1. PoolsNamed  BY <1>4 DEF CoinInv
  <2> QED  BY <1>2, <2>1, MarketIsCareful
<1>6. CoinInv(idle)' /\ PotCovers(idle)'
  BY <1>2, <1>4, <1>5, MarketCoinInv, MarketCovers
<1>7. ASSUME round.paired
      PROVE  /\ whichStablecoin'[Traded] # NoCoin
             /\ userQuota'[Traded][ILM] = userQuota[Traded][ILM]
  <2>1. whichStablecoin[Traded] # NoCoin /\ Traded \in Policies
    BY <1>7, PairAssumption DEF CoversBut
  <2>2. whichStablecoin'[Traded] # NoCoin
    BY <1>5, <2>1 DEF OwnerCareful, OnePoolEach, coreVars, listVars
  <2>3. userQuota'[Traded][ILM] \in {userQuota[Traded][ILM], 0}
    BY <1>2, MarketLeavesRound, CoreLeavesQuota
  <2>4. userQuota'[Traded][ILM] > 0  BY <1>1, <1>7 DEF Unpaid
  <2> QED  BY <2>2, <2>3, <2>4
<1>8. ClaimedQuota(RoundSupply)' = ClaimedQuota(RoundSupply)
      /\ Deposited(round)' = Deposited(round)
  BY <1>1 DEF ClaimedQuota, Deposited
<1> QED  BY <1>1, <1>3, <1>6, <1>7, <1>8 DEF CoversBut

\* A claim hands a part of the idle quota on: what the contract keeps is enough
\* for the rest.
LEMMA ClaimQuota ==
  ASSUME MarketInv, RoundInv, NEW user \in Users, NEW amount \in Nat,
         claimILM(user, amount), NEW x \in Nat, CoversBut(x)
  PROVE  \E y \in Nat : CoversBut(y)'
<1>1. /\ round' = round /\ UNCHANGED <<listVars, settleResult, incomeVars>>
      /\ RoundSupply' = RoundSupply - amount /\ amount <= RoundSupply
  BY ClaimGood
<1> DEFINE quota == ClaimedQuota(amount)
<1>2. /\ MoneyKept /\ quota \in Nat
      /\ userQuota' = [userQuota EXCEPT ![Traded][user] = @ + quota]
      /\ TotalQuota(Traded)' = TotalQuota(Traded) + quota
      /\ \A q \in Policies : q # Traded => TotalQuota(q)' = TotalQuota(q)
  BY ClaimPool
<1>3. round.paired  BY DEF claimILM
<1>4. /\ CoreTypeOK /\ CoreTypeOK' /\ RoundTypeOK
      /\ userQuota \in [Policies -> [Holders -> Nat]] /\ Traded \in Policies
      /\ user # ILM /\ ILM \in Holders /\ user \in Holders
  <2>1. CoreTypeOK /\ CoreTypeOK'
    BY ClaimPool DEF MarketInv, MarketTypeOK
  <2> QED  BY <2>1, BankOfPool, RoundAddresses DEF CoreTypeOK, RoundInv
<1>5. /\ whichStablecoin[Traded] # NoCoin /\ Deposited(round) > 0
      /\ x + ClaimedQuota(RoundSupply) <= userQuota[Traded][ILM]
  BY <1>3 DEF CoversBut
<1>6. userQuota'[Traded][ILM] = userQuota[Traded][ILM]  BY <1>2, <1>4
<1>7. PICK y \in Nat : y = x + quota  BY <1>2
<1>8. y + ClaimedQuota(RoundSupply)' <= userQuota'[Traded][ILM]
  <2>1. PICK s \in Nat : s = RoundSupply  BY <1>4, RoundNat
  <2>2. /\ ClaimedQuota(s) \in Nat /\ ClaimedQuota(s - amount) \in Nat
        /\ quota + ClaimedQuota(s - amount) <= ClaimedQuota(s)
    BY <1>1, <1>4, <1>5, <2>1, ClaimedInParts
  <2>3. ClaimedQuota(RoundSupply)' = ClaimedQuota(s - amount)
    BY <1>1, <2>1 DEF ClaimedQuota
  <2>4. ClaimedQuota(RoundSupply) = ClaimedQuota(s)  BY <2>1 DEF ClaimedQuota
  <2>5. userQuota[Traded][ILM] \in Nat  BY <1>4
  <2> QED  BY <1>2, <1>5, <1>6, <1>7, <2>2, <2>3, <2>4, <2>5
<1>9. PICK idle \in Idle : idle = OnlyTraded(x)  BY IdleTyped
<1>10. PICK next \in Idle : next = OnlyTraded(y)  BY IdleTyped
<1>11. /\ idle[Traded] = x /\ next[Traded] = y
       /\ \A p \in Policies : p # Traded => idle[p] = 0 /\ next[p] = 0
  BY <1>9, <1>10, IdleTyped
<1>12. CoinInv(idle) /\ PotCovers(idle)  BY <1>9 DEF CoversBut
<1> HIDE DEF quota
<1>13. \A p \in Policies : /\ TotalQuota(p) \in Nat /\ TotalTokens(p) \in Nat
                           /\ TotalTokens(p)' = TotalTokens(p)
                           /\ TotalQuota(p)' - next[p] = TotalQuota(p) - idle[p]
                           /\ GotResult(p)' <=> GotResult(p)
                           /\ OwesQuotas(p)' <=> OwesQuotas(p)
  <2> SUFFICES ASSUME NEW p \in Policies
               PROVE  /\ TotalQuota(p) \in Nat /\ TotalTokens(p) \in Nat
                      /\ TotalTokens(p)' = TotalTokens(p)
                      /\ TotalQuota(p)' - next[p] = TotalQuota(p) - idle[p]
                      /\ GotResult(p)' <=> GotResult(p)
                      /\ OwesQuotas(p)' <=> OwesQuotas(p)
    OBVIOUS
  <2>1. TotalQuota(p) \in Nat /\ TotalTokens(p) \in Nat  BY <1>4, BooksNat
  <2>2. TotalTokens(p)' = TotalTokens(p)  BY <1>2 DEF MoneyKept
  <2>3. (GotResult(p)' <=> GotResult(p)) /\ (OwesQuotas(p)' <=> OwesQuotas(p))
    BY <1>1 DEF GotResult, OwesQuotas
  <2>4. CASE p = Traded
    <3>1. TotalQuota(p)' = TotalQuota(p) + quota  BY <1>2, <2>4
    <3> QED  BY <1>2, <1>7, <1>11, <2>1, <2>2, <2>3, <2>4, <3>1
  <2>5. CASE p # Traded
    <3>1. TotalQuota(p)' = TotalQuota(p) /\ idle[p] = next[p]  BY <1>2, <1>11, <2>5
    <3> QED  BY <2>1, <2>2, <2>3, <3>1
  <2> QED  BY <2>4, <2>5
<1>14. whichStablecoin' = whichStablecoin /\ pools' = pools  BY <1>1 DEF listVars
<1>15. CoinInv(next)'
  <2>1. PoolsNamed'  BY <1>12, <1>14 DEF CoinInv, PoolsNamed
  <2>2. NothingWithoutPool'
    <3> SUFFICES ASSUME NEW p \in Policies, whichStablecoin[p] = NoCoin
                 PROVE  TotalQuota(p)' = 0 /\ TotalTokens(p)' = 0
      BY <1>14 DEF NothingWithoutPool
    <3>1. p # Traded  BY <1>5
    <3>2. TotalQuota(p) = 0 /\ TotalTokens(p) = 0
      BY <1>12 DEF CoinInv, NothingWithoutPool
    <3> QED  BY <1>2, <1>13, <3>1, <3>2
  <2>3. QuotaMatches(next)'
    <3> SUFFICES ASSUME NEW p \in Policies, ~GotResult(p)'
                 PROVE  TotalQuota(p)' = TotalTokens(p)' + next[p]
      BY DEF QuotaMatches
    <3>1. TotalQuota(p) = TotalTokens(p) + idle[p]
      BY <1>12, <1>13 DEF CoinInv, QuotaMatches
    <3>2. TotalQuota(p)' \in Nat  BY <1>4, DueTypedNext DEF DebtsTyped
    <3>3. idle[p] \in Int /\ next[p] \in Int  BY DEF Idle
    <3> QED  BY <1>13, <3>1, <3>2, <3>3
  <2>4. \A p \in Policies : whichStablecoin'[p] = NoCoin => next[p] = 0
    BY <1>5, <1>11, <1>14
  <2> QED  BY <2>1, <2>2, <2>3, <2>4 DEF CoinInv
<1>16. PotCovers(next)'
  <2> SUFFICES ASSUME NEW c \in Stablecoins
               PROVE  stable'[c][Core]
                          = SumOver(Debts(next, c)', Policies) + PendingIncome(c)'
    BY DEF PotCovers
  <2> DEFINE A == Debts(idle, c)
             B == Debts(next, c)'
  <2>1. \A p \in Policies : Due(next, p)' = Due(idle, p)
    <3> SUFFICES ASSUME NEW p \in Policies PROVE Due(next, p)' = Due(idle, p)
      OBVIOUS
    <3>1. /\ OwesQuotas(p) => Due(idle, p) = TotalQuota(p) - idle[p]
          /\ ~OwesQuotas(p) => Due(idle, p) = TotalTokens(p)
      BY <1>4, DueTyped DEF DebtsTyped
    <3>2. /\ OwesQuotas(p)' => Due(next, p)' = TotalQuota(p)' - next[p]
          /\ ~OwesQuotas(p)' => Due(next, p)' = TotalTokens(p)'
      BY <1>4, DueTypedNext DEF DebtsTyped
    <3> QED  BY <1>13, <3>1, <3>2
  <2>2. \A p \in Policies : A[p] = B[p]  BY <1>14, <2>1 DEF Debts
  <2>3. stable[c][Core] = SumOver(A, Policies) + PendingIncome(c)
    BY <1>12 DEF PotCovers
  <2>4. stable'[c][Core] = stable[c][Core] /\ PendingIncome(c)' = PendingIncome(c)
    BY <1>1, <1>2 DEF MoneyKept, incomeVars, PendingIncome
  <2> HIDE DEF A, B
  <2>5. SumOver(A, Policies) = SumOver(B, Policies)
    BY <2>2, FiniteAssumption, SumSame
  <2>6. stable'[c][Core] = SumOver(B, Policies) + PendingIncome(c)'
    BY <2>3, <2>4, <2>5
  <2> QED  BY <2>6 DEF B
<1>17. CoversBut(y)'
  <2>1. CoinInv(OnlyTraded(y))' /\ PotCovers(OnlyTraded(y))'
    BY <1>10, <1>15, <1>16
  <2> QED  BY <1>1, <1>3, <1>5, <1>8, <1>14, <2>1 DEF CoversBut
<1> QED  BY <1>17

\* Finishing a round opens the pot of the policy, and the contract gets as much
\* quota as all claims will hand on.
LEMMA FinishQuota ==
  ASSUME Stablecoins = {USDC}, MarketInv, RoundInv, RoundPhases, finishILM,
         ~reopened, NEW x \in Nat, CoversBut(x)
  PROVE  CoversBut(0)'
<1> DEFINE a == round.amountA
<1>1. /\ MarketInv' /\ Books(Traded, USDC, a, a, a, 0)
      /\ round' = [round EXCEPT !.status = "Finished", !.paired = TRUE]
      /\ pools' = pools \cup {<<Traded, USDC>>}
      /\ whichStablecoin' = [whichStablecoin EXCEPT ![Traded] = USDC]
      /\ RecordDeposit(Traded, a, ILM)
      /\ ~PairDeployed
      /\ UNCHANGED <<settleResult, lptoken, reopened>>
  BY FinishGood
<1>2. activePair /\ Deposited(round) > 0  BY DEF finishILM
<1>3. ~round.paired  BY <1>2 DEF RoundPhases, activePair
<1>4. /\ CoreTypeOK /\ CoreTypeOK' /\ RoundTypeOK /\ round \in RoundType
      /\ userQuota \in [Policies -> [Holders -> Nat]] /\ Traded \in Policies
      /\ whichStablecoin \in [Policies -> Stablecoins \cup {NoCoin}]
      /\ ILM \in Holders /\ USDC \in Stablecoins /\ USDC # NoCoin
  <2>1. CoreTypeOK /\ CoreTypeOK'  BY <1>1 DEF MarketInv, MarketTypeOK
  <2> QED
    BY <2>1, BankOfPool, RoundAddresses, CoinAssumption
       DEF CoreTypeOK, RoundInv, RoundTypeOK
<1>5. PICK n \in Nat : n = a  BY <1>4 DEF RoundType
<1> HIDE DEF a
<1>6. Books(Traded, USDC, n, n, n, 0)  BY <1>1, <1>5
<1>7. PICK idle \in Idle : idle = OnlyTraded(0)  BY IdleTyped
<1>8. CoinInv(idle) /\ PotCovers(idle) /\ \A p \in Policies : idle[p] = 0
  BY <1>3, <1>7, IdleTyped, NoIdleTyped DEF CoversBut
<1>9. whichStablecoin[Traded] = NoCoin
  BY <1>1, <1>4, <1>8 DEF CoinInv, PoolsNamed, PairDeployed
<1>10. TotalQuota(Traded) = 0 /\ TotalTokens(Traded) = 0
  BY <1>4, <1>8, <1>9 DEF CoinInv, NothingWithoutPool
<1>11. /\ TotalQuota(Traded)' = n /\ TotalTokens(Traded)' = n
       /\ \A p \in Policies : p # Traded => /\ TotalQuota(p)' = TotalQuota(p)
                                            /\ TotalTokens(p)' = TotalTokens(p)
  BY <1>6, <1>10 DEF Books
<1>12. \A p \in Policies : (GotResult(p)' <=> GotResult(p))
                               /\ (OwesQuotas(p)' <=> OwesQuotas(p))
  BY <1>1 DEF GotResult, OwesQuotas
<1>13. \A p \in Policies : p # Traded => whichStablecoin'[p] = whichStablecoin[p]
  BY <1>1, <1>4
<1>14. whichStablecoin'[Traded] = USDC  BY <1>1, <1>4
<1>15. CoinInv(idle)'
  <2>1. PoolsNamed'
    BY <1>1, <1>8, <1>13, <1>14 DEF CoinInv, PoolsNamed
  <2>2. NothingWithoutPool'
    BY <1>4, <1>8, <1>11, <1>13, <1>14 DEF CoinInv, NothingWithoutPool
  <2>3. QuotaMatches(idle)'
    <3> SUFFICES ASSUME NEW p \in Policies, ~GotResult(p)'
                 PROVE  TotalQuota(p)' = TotalTokens(p)' + idle[p]
      BY DEF QuotaMatches
    <3>1. CASE p = Traded  BY <1>8, <1>11, <3>1
    <3>2. CASE p # Traded
      <4>1. TotalQuota(p) = TotalTokens(p) + idle[p]
        BY <1>8, <1>12 DEF CoinInv, QuotaMatches
      <4> QED  BY <1>11, <3>2, <4>1
    <3> QED  BY <3>1, <3>2
  <2> QED  BY <1>8, <2>1, <2>2, <2>3 DEF CoinInv
<1>16. PotCovers(idle)'
  <2>1. PICK zero \in Int : zero = 0  OBVIOUS
  <2> SUFFICES ASSUME NEW c \in Stablecoins
               PROVE  stable'[c][Core]
                          = SumOver(Debts(idle, c)', Policies) + PendingIncome(c)'
    BY DEF PotCovers
  <2> DEFINE A == Debts(idle, c)
             B == Debts(idle, c)'
  <2>2. c = USDC  OBVIOUS
  <2>3. /\ stable'[c][Core] = stable[c][Core] + n
        /\ PendingIncome(c)' = PendingIncome(c) + 0
    BY <1>6, <2>2 DEF Books, PotMoves
  <2>4. \A p \in Policies : A[p] \in Int /\ B[p] \in Int
    BY <1>4, DueTyped, DueTypedNext DEF DebtsTyped
  <2>5. \A p \in Policies : p # Traded => B[p] = A[p]
    <3>1. \A p \in Policies : p # Traded => Due(idle, p)' = Due(idle, p)
      BY <1>4, <1>11, <1>12, DueTyped, DueTypedNext DEF DebtsTyped
    <3> QED  BY <1>13, <3>1 DEF Debts
  <2>6. A[Traded] = 0  BY <1>4, <1>9 DEF Debts
  <2>7. B[Traded] = n
    <3>1. Due(idle, Traded)' \in {TotalQuota(Traded)' - idle[Traded], TotalTokens(Traded)'}
      BY DEF Due
    <3>2. Due(idle, Traded)' = n  BY <1>4, <1>8, <1>11, <3>1
    <3> QED  BY <1>4, <1>14, <2>2, <3>2 DEF Debts
  <2>8. stable[c][Core] = SumOver(A, Policies) + PendingIncome(c)
        /\ SumOver(A, Policies) \in Int
    BY <1>4, <1>8, DueTyped DEF PotCovers, DebtsTyped
  <2>9. PendingIncome(c) \in Nat  BY <1>4, BooksNat
  <2> HIDE DEF A, B
  <2>10. SumOver(B, Policies) = SumOver(A, Policies) + (B[Traded] - A[Traded])
    BY <1>4, <2>4, <2>5, DebtChange
  <2>11. stable'[c][Core] = SumOver(B, Policies) + PendingIncome(c)'
    BY <2>3, <2>6, <2>7, <2>8, <2>9, <2>10
  <2> QED  BY <2>11 DEF B
<1>17. 0 + ClaimedQuota(RoundSupply)' <= userQuota'[Traded][ILM]
  <2>1. RoundSupply' = RoundSupply /\ RoundSupply = Deposited(round)
    BY <1>1, <1>3 DEF RoundSupply, RoundInv, SidesAgree
  <2>2. round'.amountA = n /\ Deposited(round') = Deposited(round)
    BY <1>1, <1>4, <1>5 DEF RoundType, Deposited, a
  <2>3. PICK d \in Nat \ {0} : d = Deposited(round)
    <3>1. Deposited(round) \in Nat \ {0}  BY <1>2, <1>4, RoundNat
    <3> QED  BY <3>1
  <2>4. ClaimedQuota(RoundSupply)' = (n * d) \div d
    BY <2>1, <2>2, <2>3 DEF ClaimedQuota
  <2>5. (n * d) \div d <= n /\ (n * d) \div d \in Nat
    <3> DEFINE m == n * d
               q == m \div d
    <3>1. m \in Nat  BY <2>3, ProductNat
    <3> HIDE DEF m
    <3>2. q \in Nat /\ q * d <= m  BY <2>3, <3>1, QuotientBounds
    <3> HIDE DEF q
    <3>3. q * d <= n * d  BY <3>2 DEF m
    <3>4. q <= n  BY <2>3, <3>2, <3>3, ProductCancel
    <3> QED  BY <3>2, <3>4 DEF q, m
  <2>6. userQuota'[Traded][ILM] = userQuota[Traded][ILM] + n
    BY <1>1, <1>4, <1>5 DEF RecordDeposit
  <2>7. userQuota[Traded][ILM] \in Nat  BY <1>4
  <2> QED  BY <2>4, <2>5, <2>6, <2>7
<1>18. round'.paired /\ Deposited(round') > 0
  BY <1>1, <1>2, <1>4 DEF RoundType, Deposited
<1>19. CoinInv(OnlyTraded(0))' /\ PotCovers(OnlyTraded(0))'  BY <1>7, <1>15, <1>16
<1> QED  BY <1>4, <1>14, <1>17, <1>18, <1>19 DEF CoversBut

LEMMA NextQuota ==
  ASSUME Stablecoins = {USDC}, MarketInv, RoundInv, QuotaInv,
         [ILMNext]_ilmVars, [NoDustDistributed]_coreVars
  PROVE  QuotaInv'
<1>1. MarketInv' /\ RoundInv' /\ RoundTypeOK  BY RoundNextGood DEF RoundInv
<1>2. RoundPhases  BY DEF QuotaInv
<1>3. RoundPhases' /\ (reopened => reopened') /\ (round.paired => round'.paired)
  BY <1>1, <1>2, PhasesKept
<1>4. SUFFICES ASSUME Unpaid' PROVE \E y \in Nat : CoversBut(y)'
  BY <1>3 DEF QuotaInv
<1>5. ~reopened /\ ~reopened'  BY <1>3, <1>4 DEF Unpaid
<1>6. CASE Beside
  <2>1. ASSUME round.paired PROVE userQuota[Traded][ILM] > 0
    <3>1. userQuota'[Traded][ILM] > 0  BY <1>3, <1>4, <2>1 DEF Unpaid
    <3>2. [MarketNext]_marketVars /\ CoreTypeOK
      BY <1>6 DEF Beside, MarketInv, MarketTypeOK
    <3>3. userQuota'[Traded][ILM] \in {userQuota[Traded][ILM], 0}
      BY <3>2, MarketLeavesRound, CoreLeavesQuota
    <3> QED  BY <3>1, <3>3
  <2>2. PICK x \in Nat : CoversBut(x)  BY <1>5, <2>1 DEF QuotaInv, Unpaid
  <2> QED  BY <1>1, <1>4, <1>6, <2>2, BesideQuota
<1>7. CASE Aside
  <2>1. BesideMarket  BY <1>7, AsideGood
  <2>2. UNCHANGED userQuota  BY <2>1 DEF BesideMarket, quotaVars
  <2>3. Unpaid  BY <1>3, <1>4, <1>5, <2>2 DEF Unpaid
  <2>4. PICK x \in Nat : CoversBut(x)  BY <2>3 DEF QuotaInv
  <2> QED  BY <1>1, <1>2, <1>5, <1>7, <2>4, AsideQuota
<1>8. CASE Claimed
  <2>1. PICK u \in Users, a \in Nat : claimILM(u, a)  BY <1>8 DEF Claimed
  <2>2. userQuota'[Traded][ILM] = userQuota[Traded][ILM]
    <3>1. /\ userQuota' = [userQuota EXCEPT ![Traded][u] = @ + ClaimedQuota(a)]
      BY <2>1, ClaimPool
    <3>2. userQuota \in [Policies -> [Holders -> Nat]]
      BY DEF MarketInv, MarketTypeOK, CoreTypeOK
    <3> QED  BY <3>1, <3>2, RoundAddresses
  <2>3. Unpaid  BY <1>3, <1>4, <1>5, <2>2 DEF Unpaid
  <2>4. PICK x \in Nat : CoversBut(x)  BY <2>3 DEF QuotaInv
  <2> QED  BY <2>1, <2>4, ClaimQuota
<1>9. CASE finishILM
  <2>1. ~round.paired
    BY <1>2, <1>5, <1>9 DEF finishILM, activePair, RoundPhases
  <2>2. PICK x \in Nat : CoversBut(x)  BY <1>5, <2>1 DEF QuotaInv, Unpaid
  <2>3. CoversBut(0)'  BY <1>2, <1>5, <1>9, <2>2, FinishQuota
  <2>4. 0 \in Nat  OBVIOUS
  <2> QED  BY <2>3, <2>4
<1> QED  BY <1>1, <1>6, <1>7, <1>8, <1>9, RoundSteps

LEMMA InitQuota == ILMInit => QuotaInv
<1> SUFFICES ASSUME ILMInit PROVE QuotaInv  OBVIOUS
<1>1. round = NoRound /\ MarketInit  BY DEF ILMInit
<1>2. ~round.started /\ ~round.paired /\ Deposited(round) = 0
  BY <1>1 DEF NoRound, Deposited
<1>3. PICK idle \in Idle : idle = NoIdle  BY NoIdleTyped
<1>4. CoinInv(idle) /\ PotCovers(idle)  BY <1>1, <1>3, MarketInits
<1>5. idle = OnlyTraded(0)  BY <1>3, IdleTyped
<1>6. CoversBut(0)  BY <1>2, <1>4, <1>5 DEF CoversBut
<1> QED  BY <1>2, <1>6 DEF QuotaInv, RoundPhases

LEMMA CoversQuotas ==
  ASSUME Stablecoins = {USDC}, MarketInv, RoundInv, QuotaInv
  PROVE  UsersQuotaCovered
<1> SUFFICES ASSUME Unpaid, ~(GotResult(Traded) /\ settleResult[Traded].isHappened)
             PROVE  QuotaOfUsers + PendingIncome(USDC) <= stable[USDC][Core]
  BY DEF UsersQuotaCovered, Unpaid
<1>1. PICK x \in Nat : CoversBut(x)  BY DEF QuotaInv
<1>2. PICK idle \in Idle : idle = OnlyTraded(x)  BY IdleTyped
<1>3. /\ CoreTypeOK /\ USDC \in Stablecoins /\ Traded \in Policies
      /\ userQuota \in [Policies -> [Holders -> Nat]] /\ ILM \in Holders
  <2>1. CoreTypeOK  BY DEF MarketInv, MarketTypeOK
  <2> QED  BY <2>1, BankOfPool, RoundAddresses DEF CoreTypeOK
<1>4. /\ CoinInv(idle) /\ PotCovers(idle) /\ idle[Traded] = x
      /\ \A p \in Policies : p # Traded => idle[p] = 0
  BY <1>1, <1>2, IdleTyped DEF CoversBut
<1> DEFINE q == TotalQuota(Traded)
           held == userQuota[Traded][ILM]
           D == Debts(idle, USDC)
<1>5. q \in Nat /\ held \in Nat /\ held <= q
  <2> DEFINE Q == userQuota[Traded]
  <2>1. Q \in [Holders -> Nat]  BY <1>3
  <2>2. q = Total(Q, Holders)  BY DEF TotalQuota
  <2> HIDE DEF Q
  <2>3. \A u \in Holders : Q[u] \in Nat  BY <2>1
  <2>4. SumOver(Q, Holders) \in Nat /\ Q[ILM] <= SumOver(Q, Holders)
    BY <1>3, <2>3, HoldersFinite, SumNat
  <2>5. Total(Q, Holders) = SumOver(Q, Holders)  BY DEF Total, SumOver
  <2>6. Q[ILM] \in Nat  BY <1>3, <2>3
  <2> QED  BY <2>2, <2>4, <2>5, <2>6 DEF Q
<1>6. QuotaOfUsers \in Int /\ QuotaOfUsers <= q - x /\ x <= q
  <2>1. CASE round.paired
    <3>1. PICK s \in Nat : s = RoundSupply  BY RoundNat DEF RoundInv
    <3>2. Deposited(round) > 0 /\ x + ClaimedQuota(RoundSupply) <= held
      BY <1>1, <2>1 DEF CoversBut
    <3>3. ClaimedQuota(s) \in Nat
      BY <3>1, <3>2, ClaimedInParts DEF RoundInv
    <3>4. QuotaOfUsers = q - held + ClaimedQuota(s)
      BY <2>1, <3>1 DEF QuotaOfUsers
    <3>5. x + ClaimedQuota(s) <= held  BY <3>1, <3>2
    <3> HIDE DEF q, held
    <3> QED  BY <1>5, <3>3, <3>4, <3>5
  <2>2. CASE ~round.paired
    <3>1. x = 0  BY <1>1, <2>2 DEF CoversBut
    <3>2. QuotaOfUsers = q - held + 0  BY <2>2 DEF QuotaOfUsers
    <3> HIDE DEF q, held
    <3> QED  BY <1>5, <3>1, <3>2
  <2> QED  BY <2>1, <2>2
<1>7. Due(idle, Traded) = q - x
  <2>1. CASE OwesQuotas(Traded)
    <3>1. Due(idle, Traded) = TotalQuota(Traded) - idle[Traded]
      BY <1>3, <2>1, DueTyped DEF DebtsTyped
    <3> QED  BY <1>4, <3>1
  <2>2. CASE ~OwesQuotas(Traded)
    <3>1. ~GotResult(Traded)  BY <2>2 DEF OwesQuotas
    <3>2. TotalQuota(Traded) = TotalTokens(Traded) + x
      BY <1>3, <1>4, <3>1 DEF CoinInv, QuotaMatches
    <3>3. Due(idle, Traded) = TotalTokens(Traded) /\ TotalTokens(Traded) \in Nat
      BY <1>3, <2>2, DueTyped DEF DebtsTyped
    <3> QED  BY <3>2, <3>3
  <2> QED  BY <2>1, <2>2
<1>8. \A p \in Policies : D[p] \in Nat
  <2> SUFFICES ASSUME NEW p \in Policies, whichStablecoin[p] = USDC
               PROVE  Due(idle, p) \in Nat
    BY DEF Debts
  <2>1. CASE p = Traded  BY <1>5, <1>6, <1>7, <2>1
  <2>2. CASE p # Traded
    <3>1. TotalQuota(p) \in Nat /\ TotalTokens(p) \in Nat  BY <1>3, BooksNat
    <3>2. Due(idle, p) \in {TotalQuota(p) - 0, TotalTokens(p)}
      BY <1>4, <2>2 DEF Due
    <3> QED  BY <3>1, <3>2
  <2> QED  BY <2>1, <2>2
<1>9. QuotaOfUsers <= D[Traded]
  <2>1. CASE whichStablecoin[Traded] = USDC
    <3>1. D[Traded] = q - x  BY <1>3, <1>7, <2>1 DEF Debts
    <3> QED  BY <1>6, <3>1
  <2>2. CASE whichStablecoin[Traded] # USDC
    <3>1. whichStablecoin[Traded] = NoCoin  BY <1>3, <2>2 DEF CoreTypeOK
    <3>2. q = 0 /\ x = 0
      BY <1>3, <1>4, <3>1 DEF CoinInv, NothingWithoutPool
    <3>3. D[Traded] = 0  BY <1>3, <2>2 DEF Debts
    <3> QED  BY <1>6, <3>2, <3>3
  <2> QED  BY <2>1, <2>2
<1>10. stable[USDC][Core] = SumOver(D, Policies) + PendingIncome(USDC)
       /\ PendingIncome(USDC) \in Nat
  BY <1>3, <1>4, BooksNat DEF PotCovers
<1> HIDE DEF D
<1>11. SumOver(D, Policies) \in Nat /\ D[Traded] <= SumOver(D, Policies)
  BY <1>3, <1>8, FiniteAssumption, SumNat
<1>12. D[Traded] \in Nat  BY <1>3, <1>8
<1> QED  BY <1>6, <1>9, <1>10, <1>11, <1>12

\* With the one stablecoin of the deployment, the pot covers the quotas of all
\* users and those that will come with the liquidity they have not claimed,
\* although updateUserQuota hands the quota of the matching contract on without
\* taking it from there: claims, in whatever parts and before or after the
\* settlement, hand on no more than the contract got when the round was
\* finished, and that much of the contract's own quota nobody can use.  It
\* takes of the owner that he distributes no quota of a single unit.
THEOREM UsersQuotasAreCovered ==
  ASSUME Stablecoins = {USDC}
  PROVE  ILMSpec /\ [][NoDustDistributed]_coreVars => []UsersQuotaCovered
<1>1. MarketInv /\ RoundInv /\ QuotaInv /\ [ILMNext]_ilmVars
          /\ [NoDustDistributed]_coreVars => QuotaInv'
  BY NextQuota
<1>2. MarketInv /\ RoundInv /\ QuotaInv => UsersQuotaCovered
  BY CoversQuotas
<1> QED  BY <1>1, <1>2, InitQuota, RoundInvariant, PTL DEF ILMSpec
=============================================================================
