------------------------ MODULE NaughtyMarketProofs ------------------------
(***************************************************************************)
(* The market of a policy token, for every fee rate, every number of users *)
(* and every amount: types, reserves that the pool owns, liquidity that    *)
(* nobody dilutes, quotes that the pool accepts, and a pot of the core     *)
(* that the market leaves solvent.                                         *)
(***************************************************************************)
EXTENDS NaughtyMarket, NaughtyCoreProofs

(***************************************************************************)
(* Arithmetic                                                              *)
(***************************************************************************)
\* A product grows with both factors.
LEMMA ProductLeq ==
  ASSUME NEW a \in Nat, NEW b \in Nat, NEW c \in Nat, NEW d \in Nat,
         a <= b, c <= d
  PROVE  a * c <= b * d
<1>1. a * c <= a * d  BY ProductMonotone
<1>2. d * a <= d * b  BY ProductMonotone
<1>3. d * a = a * d /\ d * b = b * d  OBVIOUS
<1>4. a * c \in Nat /\ a * d \in Nat /\ b * d \in Nat  BY ProductNat
<1> QED  BY <1>1, <1>2, <1>3, <1>4

\* The integer square root exists.
LEMMA RootBounds ==
  ASSUME NEW n \in Nat
  PROVE  /\ Root(n) \in Nat
         /\ Root(n) * Root(n) <= n
         /\ n < (Root(n) + 1) * (Root(n) + 1)
         /\ n > 0 => Root(n) > 0
<1> DEFINE T == {r \in Nat : n < (r + 1) * (r + 1)}
<1>1. n \in T
  <2>1. (n + 1) * (n + 1) = n * n + 2 * n + 1  OBVIOUS
  <2>2. n * n \in Nat  BY ProductNat
  <2> QED  BY <2>1, <2>2
<1>2. PICK r \in T : \A y \in T : r <= y
  <2>1. T \subseteq Nat /\ T # {}  BY <1>1
  <2> HIDE DEF T
  <2> QED  BY <2>1, LeastNumber
<1>3. r * r <= n
  <2>1. CASE r = 0  BY <2>1
  <2>2. CASE r # 0
    <3>1. r - 1 \in Nat /\ ~ (r <= r - 1)  BY <2>2
    <3>2. r - 1 \notin T  BY <1>2, <3>1
    <3>3. ~ (n < ((r - 1) + 1) * ((r - 1) + 1))  BY <3>1, <3>2
    <3>4. (r - 1) + 1 = r  OBVIOUS
    <3>5. ~ (n < r * r)  BY <3>3, <3>4
    <3>6. r * r \in Nat  BY ProductNat
    <3> QED  BY <3>5, <3>6
  <2> QED  BY <2>1, <2>2
<1>4. r \in 0..n
  <2>1. CASE r = 0  BY <2>1
  <2>2. CASE r # 0
    <3>1. r * 1 <= r * r  BY <2>2, ProductMonotone
    <3>2. r * r \in Nat  BY ProductNat
    <3> QED  BY <1>3, <3>1, <3>2
  <2> QED  BY <2>1, <2>2
<1>5. (r + 1) * (r + 1) > n  BY <1>2
<1>6. \E x \in 0..n : x * x <= n /\ (x + 1) * (x + 1) > n  BY <1>3, <1>4, <1>5
<1>7. /\ Root(n) \in 0..n
      /\ Root(n) * Root(n) <= n /\ (Root(n) + 1) * (Root(n) + 1) > n
  BY <1>6 DEF Root
<1> DEFINE q == Root(n)
<1> HIDE DEF q
<1>8. q \in Nat /\ q * q <= n /\ (q + 1) * (q + 1) > n  BY <1>7 DEF q
<1>9. n > 0 => q > 0
  <2>1. q = 0 => (q + 1) * (q + 1) = 1  OBVIOUS
  <2> QED  BY <1>8, <2>1
<1> QED  BY <1>8, <1>9 DEF q

LEMMA RootMonotone ==
  ASSUME NEW m \in Nat, NEW n \in Nat, m <= n PROVE Root(m) <= Root(n)
<1> DEFINE a == Root(m)
           b == Root(n)
<1>1. /\ a \in Nat /\ a * a <= m
      /\ b \in Nat /\ n < (b + 1) * (b + 1)
  BY RootBounds
<1> HIDE DEF a, b
<1>2. ASSUME b + 1 <= a PROVE FALSE
  <2>1. (b + 1) * (b + 1) <= a * a  BY <1>1, <1>2, ProductLeq
  <2>2. (b + 1) * (b + 1) \in Nat /\ a * a \in Nat  BY <1>1, ProductNat
  <2> QED  BY <1>1, <2>1, <2>2
<1>3. a <= b  BY <1>1, <1>2
<1> QED  BY <1>3 DEF a, b

\* Squares are ordered as their roots are.
LEMMA SquareCancel ==
  ASSUME NEW a \in Nat, NEW b \in Nat, a * a <= b * b PROVE a <= b
<1> SUFFICES ASSUME b + 1 <= a PROVE FALSE  OBVIOUS
<1>1. (b + 1) * (b + 1) <= a * a  BY ProductLeq
<1>2. (b + 1) * (b + 1) = b * b + 2 * b + 1  OBVIOUS
<1>3. a * a \in Nat /\ b * b \in Nat  BY ProductNat
<1> QED  BY <1>1, <1>2, <1>3

\* When each reserve grows at least like the number of LP tokens, so does the
\* product per squared LP token.
LEMMA TwoShares ==
  ASSUME NEW x \in Nat, NEW y \in Nat, NEW later \in Nat,
         NEW v \in Nat, NEW w \in Nat, NEW t \in Nat,
         x * later <= v * t, y * later <= w * t
  PROVE  (x * y) * later * later <= (v * w) * t * t
<1>1. (x * later) * (y * later) <= (v * t) * (w * t)
  <2>1. x * later \in Nat /\ y * later \in Nat /\ v * t \in Nat /\ w * t \in Nat
    BY ProductNat
  <2> QED  BY <2>1, ProductLeq
<1>2. (x * later) * (y * later) = (x * y) * later * later  OBVIOUS
<1>3. (v * t) * (w * t) = (v * w) * t * t  OBVIOUS
<1> QED  BY <1>1, <1>2, <1>3

\* A deposit: dx and dy are paid in, n LP tokens are minted.
LEMMA DepositShare ==
  ASSUME NEW x \in Nat, NEW d \in Nat, NEW n \in Nat, NEW t \in Nat,
         n * x <= d * t
  PROVE  x * (t + n) <= (x + d) * t
<1>1. x * (t + n) = x * t + n * x /\ (x + d) * t = x * t + d * t  OBVIOUS
<1>2. x * t \in Nat /\ n * x \in Nat /\ d * t \in Nat  BY ProductNat
<1> QED  BY <1>1, <1>2

\* A withdrawal: of the balance b, which covers the reserve x, o is paid out
\* for l of t LP tokens.
LEMMA WithdrawalShare ==
  ASSUME NEW x \in Nat, NEW b \in Nat, x <= b, NEW o \in Nat, o <= b,
         NEW t \in Nat, NEW l \in Nat, l <= t, o * t <= l * b
  PROVE  x * (t - l) <= (b - o) * t
<1>1. t - l \in Nat /\ b - o \in Nat  OBVIOUS
<1>2. (t - l) * x <= (t - l) * b  BY <1>1, ProductMonotone
<1>3. (t - l) * b = b * t - l * b  OBVIOUS
<1>4. (b - o) * t = b * t - o * t  OBVIOUS
<1>5. (t - l) * x = x * (t - l)  OBVIOUS
<1>6. b * t \in Nat /\ l * b \in Nat /\ o * t \in Nat  BY ProductNat
<1>7. x * (t - l) \in Nat  BY <1>1, ProductNat
<1> QED  BY <1>2, <1>3, <1>4, <1>5, <1>6, <1>7

\* The fee takes no more than the growth of the root of the product.
LEMMA FeeShare ==
  ASSUME NEW s \in Nat, NEW f \in Nat, NEW rk \in Nat, NEW rl \in Nat, rl <= rk,
         NEW c \in Nat, f * (rk * c + rl * 10) <= s * (rk - rl) * 10
  PROVE  rl * (s + f) <= rk * s
<1>1. f * (rk * c + rl * 10) = f * (rk * c) + (f * rl) * 10  OBVIOUS
<1>2. s * (rk - rl) * 10 = (s * rk) * 10 - (s * rl) * 10  OBVIOUS
<1>3. rk * c \in Nat /\ f * rl \in Nat /\ s * rk \in Nat /\ s * rl \in Nat
  BY ProductNat
<1>4. f * (rk * c) \in Nat  BY <1>3, ProductNat
<1>5. f * rl <= s * rk - s * rl  BY <1>1, <1>2, <1>3, <1>4
<1>6. rl * (s + f) = s * rl + f * rl /\ rk * s = s * rk  OBVIOUS
<1> QED  BY <1>3, <1>5, <1>6

\* From products to their roots: t is the supply s together with a fee.
LEMMA RootShare ==
  ASSUME NEW p \in Nat, NEW q \in Nat, NEW s \in Nat, NEW t \in Nat \ {0},
         NEW later \in Nat, NEW rl \in Nat,
         rl * t <= Root(p) * s, p * later * later <= q * t * t
  PROVE  rl * later <= (Root(q) + 1) * s
<1> DEFINE rk == Root(p)
           r == Root(q) + 1
<1>1. rk \in Nat /\ rk * rk <= p  BY RootBounds
<1>2. r \in Nat /\ q <= r * r
  <2>1. Root(q) \in Nat /\ q < (Root(q) + 1) * (Root(q) + 1)  BY RootBounds
  <2>2. r \in Nat /\ q < r * r  BY <2>1
  <2> HIDE DEF r
  <2>3. r * r \in Nat  BY <2>2, ProductNat
  <2> QED  BY <2>2, <2>3
<1>3. rl * t <= rk * s  OBVIOUS
<1> HIDE DEF rk, r
<1>4. rk * later <= r * t
  <2>1. (rk * rk) * later * later <= p * later * later
    <3>1. rk * rk \in Nat /\ later * later \in Nat  BY <1>1, ProductNat
    <3>2. (rk * rk) * (later * later) <= p * (later * later)
      BY <1>1, <3>1, ProductLeq
    <3>3. /\ (rk * rk) * (later * later) = (rk * rk) * later * later
          /\ p * (later * later) = p * later * later
      BY <1>1
    <3> QED  BY <3>2, <3>3
  <2>2. q * t * t <= (r * r) * t * t
    <3>1. r * r \in Nat /\ t * t \in Nat  BY <1>2, ProductNat
    <3>2. q * (t * t) <= (r * r) * (t * t)  BY <1>2, <3>1, ProductLeq
    <3>3. /\ q * (t * t) = q * t * t
          /\ (r * r) * (t * t) = (r * r) * t * t
      BY <1>2
    <3> QED  BY <3>2, <3>3
  <2>3. /\ (rk * rk) * later * later = (rk * later) * (rk * later)
        /\ (r * r) * t * t = (r * t) * (r * t)
    BY <1>1, <1>2
  <2>4. rk * later \in Nat /\ r * t \in Nat  BY <1>1, <1>2, ProductNat
  <2>5. (rk * later) * (rk * later) \in Nat /\ (r * t) * (r * t) \in Nat
    BY <2>4, ProductNat
  <2>6. p * later \in Nat /\ q * t \in Nat  BY ProductNat
  <2>7. p * later * later \in Nat /\ q * t * t \in Nat  BY <2>6, ProductNat
  <2>8. (rk * later) * (rk * later) <= (r * t) * (r * t)
    BY <2>1, <2>2, <2>3, <2>5, <2>7
  <2> QED  BY <2>4, <2>8, SquareCancel
<1>5. (rl * later) * t <= (r * s) * t
  <2>1. rl * t \in Nat /\ rk * s \in Nat /\ rk * later \in Nat /\ r * t \in Nat
    BY <1>1, <1>2, ProductNat
  <2>2. later * (rl * t) <= later * (rk * s)  BY <1>3, <2>1, ProductMonotone
  <2>3. s * (rk * later) <= s * (r * t)  BY <1>4, <2>1, ProductMonotone
  <2>4. /\ later * (rl * t) = (rl * later) * t
        /\ later * (rk * s) = s * (rk * later)
        /\ s * (r * t) = (r * s) * t
    BY <1>1, <1>2
  <2>5. /\ later * (rl * t) \in Nat /\ later * (rk * s) \in Nat
        /\ s * (r * t) \in Nat
    BY <2>1, ProductNat
  <2> QED  BY <2>2, <2>3, <2>4, <2>5
<1>6. rl * later \in Nat /\ r * s \in Nat  BY <1>2, ProductNat
<1>7. rl * later <= r * s  BY <1>5, <1>6, ProductCancel
<1> QED  BY <1>7 DEF r

(***************************************************************************)
(* The functions of the pool                                               *)
(***************************************************************************)
TwoAmounts == [token : Nat, coin : Nat]

PairTypeOK ==
    /\ lp \in [Holders -> Nat]
    /\ reserve \in TwoAmounts
    /\ kLast \in Nat
    /\ incomeMakerSet \in BOOLEAN /\ incomeMakerProportion \in Nat

\* The product that fees are counted from is never above the current one.
KGrows == kLast <= Product(reserve)

\* The accounts of the market are different from each other.
LEMMA Addresses ==
  /\ Pair \in Holders /\ Factory \in Holders /\ IncomeMaker \in Holders
  /\ Core \in Holders /\ SharingVault \in Holders /\ LotteryPool \in Holders
  /\ Pair # Factory /\ Pair # IncomeMaker /\ Factory # IncomeMaker
  /\ \A a \in {Pair, Factory, IncomeMaker} :
         a # Core /\ a # SharingVault /\ a # LotteryPool
  /\ SharingVault # Core /\ LotteryPool # Core
  /\ \A u \in Users :
         /\ u \in Holders /\ u # Pair /\ u # Factory /\ u # IncomeMaker
         /\ u # Core /\ u # SharingVault /\ u # LotteryPool
  BY PairAssumption, HolderAssumption DEF Holders

\* Who trades with the pool: users and the contracts around it.
Partner(u) == u \in Holders /\ u # Pair /\ u # Factory /\ u # Core

LEMMA UsersArePartners == \A u \in Users : Partner(u)
  BY Addresses DEF Partner

LEMMA ReserveNat ==
  ASSUME NEW r \in TwoAmounts
  PROVE  r.token \in Nat /\ r.coin \in Nat /\ Product(r) \in Nat
<1>1. r.token \in Nat /\ r.coin \in Nat  BY DEF TwoAmounts
<1> QED  BY <1>1, ProductNat DEF Product

\* The share of the income maker is a natural number, nothing unless it is
\* due, and no more than what the root of the product has grown by.
LEMMA FeeEffect ==
  ASSUME PairTypeOK, KGrows, CanMintFee
  PROVE  /\ LpSupply \in Nat /\ FeeLiquidity \in Nat
         /\ LpSupply = 0 => FeeLiquidity = 0
         /\ ~FeeDue => FeeLiquidity = 0
         /\ kLast # 0 => Root(kLast) * (LpSupply + FeeLiquidity)
                             <= Root(Product(reserve)) * LpSupply
<1>1. LpSupply \in Nat  BY TotalNat DEF LpSupply, PairTypeOK
<1>2. Product(reserve) \in Nat /\ kLast \in Nat /\ kLast <= Product(reserve)
  BY ReserveNat DEF PairTypeOK, KGrows
<1> DEFINE s == LpSupply
           rk == Root(Product(reserve))
           rl == Root(kLast)
           c == 1000 \div incomeMakerProportion - 10
           f == (s * (rk - rl) * 10) \div (rk * c + rl * 10)
<1>3. rk \in Nat /\ rl \in Nat /\ rl <= rk /\ (kLast # 0 => rl > 0)
  BY <1>2, RootBounds, RootMonotone
<1>4. CASE FeeDue
  <2>1. c \in Nat
    <3>1. incomeMakerProportion \in 1..100  BY <1>4 DEF CanMintFee
    <3>2. \A p \in 1..100 : 1000 \div p \in Nat /\ 1000 \div p >= 10  BY Z3
    <3> QED  BY <3>1, <3>2
  <2>2. FeeLiquidity = f  BY <1>4 DEF FeeLiquidity
  <2>3. rl > 0  BY <1>3, <1>4 DEF FeeDue
  <2>4. s \in Nat  BY <1>1
  <2> HIDE DEF s, rk, rl, c
  <2>5. rk - rl \in Nat  BY <1>3
  <2>6. s * (rk - rl) \in Nat /\ rk * c \in Nat  BY <1>3, <2>1, <2>4, <2>5, ProductNat
  <2> DEFINE n == s * (rk - rl) * 10
             d == rk * c + rl * 10
  <2>7. n \in Nat /\ d \in Nat \ {0}  BY <1>3, <2>3, <2>6
  <2>8. s = 0 => n = 0  BY <2>5
  <2>9. f = n \div d  OBVIOUS
  <2> HIDE DEF n, d, f
  <2>10. f \in Nat /\ f * d <= n  BY <2>7, <2>9, QuotientBounds
  <2>11. s = 0 => f = 0
    <3>1. ASSUME s = 0, f # 0 PROVE FALSE
      <4>1. 1 <= f /\ 1 <= d /\ n = 0  BY <2>7, <2>8, <2>10, <3>1
      <4>2. 1 * 1 <= f * d  BY <2>7, <2>10, <4>1, ProductLeq
      <4>3. f * d \in Nat  BY <2>7, <2>10, ProductNat
      <4> QED  BY <2>10, <4>1, <4>2, <4>3
    <3> QED  BY <3>1
  <2>12. rl * (s + f) <= rk * s
    <3>1. f * (rk * c + rl * 10) <= s * (rk - rl) * 10  BY <2>10 DEF n, d
    <3> QED  BY <1>3, <2>1, <2>4, <2>10, <3>1, FeeShare
  <2> QED  BY <1>4, <2>2, <2>4, <2>10, <2>11, <2>12 DEF s, rk, rl
<1>5. CASE ~FeeDue
  <2>1. FeeLiquidity = 0  BY <1>5 DEF FeeLiquidity
  <2>2. s \in Nat  BY <1>1
  <2> HIDE DEF s, rk, rl
  <2>3. s * rl <= s * rk  BY <1>3, <2>2, ProductMonotone
  <2>4. s * rl = rl * (s + 0) /\ s * rk = rk * s  BY <1>3, <2>2
  <2>5. rl * (s + 0) <= rk * s  BY <2>3, <2>4
  <2> QED  BY <2>1, <2>2, <2>5 DEF s, rk, rl
<1> QED  BY <1>4, <1>5

\* After the fee is minted.
LEMMA FeeMintedEffect ==
  ASSUME PairTypeOK, KGrows, CanMintFee
  PROVE  /\ FeeMinted \in [Holders -> Nat]
         /\ Total(FeeMinted, Holders) = LpSupply + FeeLiquidity
         /\ \A a \in Holders : lp[a] <= FeeMinted[a]
<1> DEFINE L == lp
           M == FeeMinted
<1>1. L \in [Holders -> Nat] /\ FeeLiquidity \in Nat /\ IncomeMaker \in Holders
  BY FeeEffect, Addresses DEF PairTypeOK
<1>2. M = [L EXCEPT ![IncomeMaker] = L[IncomeMaker] + FeeLiquidity]
  BY DEF FeeMinted
<1> HIDE DEF L, M
<1>3. L[IncomeMaker] + FeeLiquidity \in Nat  BY <1>1
<1>4. M \in [Holders -> Nat]  BY <1>1, <1>2, <1>3
<1>5. \A w \in Holders : w # IncomeMaker => M[w] = L[w]  BY <1>1, <1>2
<1>6. M[IncomeMaker] = L[IncomeMaker] + FeeLiquidity  BY <1>1, <1>2
<1>7. Total(M, Holders) = Total(L, Holders) + (M[IncomeMaker] - L[IncomeMaker])
  BY <1>1, <1>4, <1>5, TotalChange
<1>8. Total(L, Holders) \in Nat  BY <1>1, TotalNat
<1>9. Total(M, Holders) = Total(L, Holders) + FeeLiquidity
  BY <1>1, <1>6, <1>7, <1>8
<1>10. \A a \in Holders : L[a] <= M[a]  BY <1>1, <1>5, <1>6
<1> QED  BY <1>4, <1>9, <1>10 DEF L, M, LpSupply

\* What a step does to the liquidity providers: f is the fee it mints.
Undiluted ==
    LpSupply > 0 =>
        \E f \in Nat :
            /\ ~FeeDue => f = 0
            /\ kLast # 0 => Root(kLast) * (LpSupply + f)
                                <= Root(Product(reserve)) * LpSupply
            /\ Product(reserve) * LpSupply' * LpSupply'
                   <= Product(reserve') * (LpSupply + f) * (LpSupply + f)

\* The LP tokens for a deposit are at most its share of each reserve.
LEMMA NewLiquidityBounds ==
  ASSUME PairTypeOK, KGrows, NEW r \in TwoAmounts, NEW u, mint(r, u)
  PROVE  /\ NewLiquidity(r) \in Nat
         /\ LpSupply > 0 =>
                LET t == LpSupply + FeeLiquidity
                    n == NewLiquidity(r)
                IN  /\ n * reserve.token <= (r.token - reserve.token) * t
                    /\ n * reserve.coin <= (r.coin - reserve.coin) * t
<1> DEFINE t == LpSupply + FeeLiquidity
           n == NewLiquidity(r)
           x == reserve.token
           y == reserve.coin
           d == r.token - x
           e == r.coin - y
<1>1. /\ LpSupply \in Nat /\ FeeLiquidity \in Nat
      /\ LpSupply = 0 => FeeLiquidity = 0
  BY FeeEffect DEF mint
<1>2. t \in Nat /\ (LpSupply = 0 <=> t = 0)  BY <1>1
<1>3. x \in Nat /\ y \in Nat /\ d \in Nat /\ e \in Nat
  BY ReserveNat DEF mint, PairTypeOK
<1>4. n > 0 /\ (LpSupply > 0 => x > 0 /\ y > 0)  BY DEF mint
<1>5. n = IF t = 0 THEN Root(d * e) - MINIMUM_LIQUIDITY
          ELSE Lesser((d * t) \div x, (e * t) \div y)
  BY DEF NewLiquidity, Product
<1>6. CASE t = 0
  <2>1. Root(d * e) \in Nat  BY <1>3, ProductNat, RootBounds
  <2>2. n = Root(d * e) - MINIMUM_LIQUIDITY  BY <1>5, <1>6
  <2>3. n \in Int  BY <2>1, <2>2, PairAssumption
  <2> QED  BY <1>2, <1>4, <1>6, <2>3
<1>7. CASE t # 0
  <2>1. LpSupply > 0 /\ x > 0 /\ y > 0  BY <1>1, <1>2, <1>4, <1>7
  <2>2. n = Lesser((d * t) \div x, (e * t) \div y)  BY <1>5, <1>7
  <2> HIDE DEF n, t, x, y, d, e
  <2>3. x \in Nat \ {0} /\ y \in Nat \ {0} /\ d * t \in Nat /\ e * t \in Nat
    BY <1>2, <1>3, <2>1, ProductNat
  <2> DEFINE a == (d * t) \div x
             b == (e * t) \div y
  <2>4. a \in Nat /\ a * x <= d * t /\ b \in Nat /\ b * y <= e * t
    BY <2>3, QuotientBounds
  <2>5. n = Lesser(a, b)  BY <2>2
  <2> HIDE DEF a, b
  <2>6. n \in Nat /\ n <= a /\ n <= b  BY <2>4, <2>5 DEF Lesser
  <2>7. x * n <= x * a /\ y * n <= y * b  BY <2>3, <2>4, <2>6, ProductMonotone
  <2>8. x * n = n * x /\ x * a = a * x /\ y * n = n * y /\ y * b = b * y
    BY <2>3, <2>4, <2>6
  <2>9. n * x \in Nat /\ a * x \in Nat /\ n * y \in Nat /\ b * y \in Nat
    BY <2>3, <2>4, <2>6, ProductNat
  <2>10. n * x <= d * t /\ n * y <= e * t
    BY <2>3, <2>4, <2>7, <2>8, <2>9
  <2> QED  BY <2>6, <2>10 DEF n, t, x, y, d, e
<1> QED  BY <1>6, <1>7

LEMMA MintEffect ==
  ASSUME PairTypeOK, KGrows, NEW r \in TwoAmounts, NEW u, Partner(u), mint(r, u)
  PROVE  /\ lp' \in [Holders -> Nat] /\ reserve' = r
         /\ kLast' \in Nat /\ kLast' <= Product(r)
         /\ Undiluted
<1> DEFINE n == NewLiquidity(r)
           t == LpSupply + FeeLiquidity
           F == FeeMinted
           L == lp
           M == lp'
<1>1. /\ LpSupply \in Nat /\ FeeLiquidity \in Nat /\ n \in Nat
      /\ F \in [Holders -> Nat] /\ Total(F, Holders) = t
      /\ L \in [Holders -> Nat]
  BY FeeEffect, FeeMintedEffect, NewLiquidityBounds DEF mint, PairTypeOK
<1>2. reserve' = r /\ kLast' \in Nat /\ kLast' <= Product(r)
  BY ReserveNat DEF mint, _update, RecordK
<1>3. u \in Holders /\ Factory \in Holders /\ u # Factory
  BY Addresses DEF Partner
<1>4. CASE LpSupply = 0
  <2>1. M = [L EXCEPT ![Factory] = L[Factory] + MINIMUM_LIQUIDITY,
                      ![u] = L[u] + n]
    BY <1>3, <1>4 DEF mint
  <2> HIDE DEF n, L, M
  <2>2. L[Factory] + MINIMUM_LIQUIDITY \in Nat /\ L[u] + n \in Nat
    BY <1>1, <1>3, PairAssumption
  <2>3. M \in [Holders -> Nat]  BY <1>1, <2>1, <2>2
  <2> QED  BY <1>2, <1>4, <2>3 DEF M, Undiluted
<1>5. CASE LpSupply > 0
  <2>1. M = [F EXCEPT ![u] = F[u] + n]  BY <1>5 DEF mint
  <2> HIDE DEF n, F, M
  <2>2. F[u] + n \in Nat  BY <1>1, <1>3
  <2>3. M \in [Holders -> Nat] /\ M[u] = F[u] + n  BY <1>1, <1>3, <2>1, <2>2
  <2>4. \A w \in Holders : w # u => M[w] = F[w]  BY <1>1, <2>1
  <2>5. Total(M, Holders) = Total(F, Holders) + (M[u] - F[u])
    BY <1>1, <1>3, <2>3, <2>4, TotalChange
  <2>6. t \in Nat  BY <1>1
  <2>7. Total(M, Holders) = t + n  BY <1>1, <1>3, <2>3, <2>5, <2>6
  <2>8. LpSupply' = t + n  BY <2>7 DEF M, LpSupply
  <2> DEFINE x == reserve.token
             y == reserve.coin
             d == r.token - x
             e == r.coin - y
  <2>9. x \in Nat /\ y \in Nat /\ d \in Nat /\ e \in Nat
        /\ r.token = x + d /\ r.coin = y + e
    BY ReserveNat DEF mint, PairTypeOK
  <2>10. n * x <= d * t /\ n * y <= e * t
    BY <1>5, NewLiquidityBounds DEF n
  <2>11. Product(reserve) = x * y /\ Product(reserve') = (x + d) * (y + e)
    BY <1>2, <2>9 DEF Product
  <2> HIDE DEF x, y, d, e, t
  <2>12. x * (t + n) <= (x + d) * t /\ y * (t + n) <= (y + e) * t
    BY <1>1, <2>6, <2>9, <2>10, DepositShare
  <2>13. t + n \in Nat /\ x + d \in Nat /\ y + e \in Nat  BY <1>1, <2>6, <2>9
  <2>14. (x * y) * (t + n) * (t + n) <= ((x + d) * (y + e)) * t * t
    BY <2>6, <2>9, <2>12, <2>13, TwoShares
  <2>15. Product(reserve) * LpSupply' * LpSupply' <= Product(reserve') * t * t
    BY <2>8, <2>11, <2>14
  <2>16. /\ ~FeeDue => FeeLiquidity = 0
         /\ kLast # 0 => Root(kLast) * (LpSupply + FeeLiquidity)
                             <= Root(Product(reserve)) * LpSupply
    BY FeeEffect DEF mint
  <2>17. Undiluted  BY <1>1, <2>15, <2>16 DEF Undiluted, t
  <2> QED  BY <1>2, <2>3, <2>17 DEF M
<1> QED  BY <1>1, <1>4, <1>5

\* What is paid out for LP tokens is at most their share of the balances, the
\* fee of the income maker counted first.
LEMMA BurnEffect ==
  ASSUME PairTypeOK, KGrows, NEW b \in TwoAmounts,
         reserve.token <= b.token, reserve.coin <= b.coin,
         NEW from \in Holders, NEW l \in Nat, l <= lp[from],
         CanBurn(b, l), lp' = LpBurned(from, l)
  PROVE  LET out == Burned(b, l)
             t   == LpSupply + FeeLiquidity
         IN  /\ lp' \in [Holders -> Nat]
             /\ out \in TwoAmounts /\ Less(b, out) \in TwoAmounts
             /\ out.token <= b.token /\ out.coin <= b.coin
             /\ LpSupply > 0 /\ LpSupply' = t - l /\ l <= t
             /\ Product(reserve) * LpSupply' * LpSupply'
                    <= Product(Less(b, out)) * t * t
<1> DEFINE t == LpSupply + FeeLiquidity
           F == FeeMinted
           L == lp
           M == lp'
           x == reserve.token
           y == reserve.coin
           v == b.token
           w == b.coin
           o == (l * v) \div t
           p == (l * w) \div t
<1>1. /\ LpSupply \in Nat /\ FeeLiquidity \in Nat
      /\ LpSupply = 0 => FeeLiquidity = 0
      /\ F \in [Holders -> Nat] /\ Total(F, Holders) = t
      /\ L \in [Holders -> Nat] /\ L[from] <= F[from]
  BY FeeEffect, FeeMintedEffect DEF CanBurn, PairTypeOK
<1>2. /\ x \in Nat /\ y \in Nat /\ v \in Nat /\ w \in Nat /\ x <= v /\ y <= w
  BY ReserveNat DEF PairTypeOK
<1>3. t \in Nat \ {0} /\ LpSupply > 0  BY <1>1 DEF CanBurn
<1>4. Burned(b, l) = [token |-> o, coin |-> p]  BY DEF Burned
<1>5. M = [F EXCEPT ![from] = F[from] - l]  BY DEF LpBurned
<1>6. l <= L[from]  OBVIOUS
<1>7. LpSupply' = Total(M, Holders)  BY DEF LpSupply
<1>8. /\ Product(reserve) = x * y
      /\ Less(b, Burned(b, l)) = [token |-> v - o, coin |-> w - p]
  BY <1>4 DEF Product, Less
<1> HIDE DEF F, L, M, x, y, v, w, t
<1>9. F[from] - l \in Nat /\ l <= F[from]  BY <1>1, <1>6
<1>10. M \in [Holders -> Nat] /\ M[from] = F[from] - l
  BY <1>1, <1>5, <1>9
<1>11. \A a \in Holders : a # from => M[a] = F[a]  BY <1>1, <1>5
<1>12. Total(M, Holders) = Total(F, Holders) + (M[from] - F[from])
  BY <1>1, <1>10, <1>11, TotalChange
<1>13. Total(M, Holders) = t - l  BY <1>1, <1>3, <1>9, <1>10, <1>12
<1>14. l <= t
  <2>1. Total(M, Holders) \in Nat  BY <1>10, TotalNat
  <2> QED  BY <1>3, <1>13, <2>1
<1>15. ASSUME NEW z \in Nat
       PROVE  /\ (l * z) \div t \in Nat /\ (l * z) \div t <= z
              /\ ((l * z) \div t) * t <= l * z
  <2>1. l * z \in Nat  BY ProductNat
  <2> DEFINE q == (l * z) \div t
  <2>2. q \in Nat /\ q * t <= l * z  BY <1>3, <2>1, QuotientBounds
  <2> HIDE DEF q
  <2>3. l * z <= t * z  BY <1>3, <1>14, ProductLeq
  <2>4. t * z = z * t  BY <1>3
  <2>5. q * t \in Nat /\ z * t \in Nat  BY <1>3, <2>2, ProductNat
  <2>6. q * t <= z * t  BY <2>1, <2>2, <2>3, <2>4, <2>5
  <2>7. q <= z  BY <1>3, <2>2, <2>6, ProductCancel
  <2> QED  BY <2>2, <2>7 DEF q
<1>16. /\ o \in Nat /\ o <= v /\ o * t <= l * v
       /\ p \in Nat /\ p <= w /\ p * t <= l * w
  BY <1>2, <1>15
<1> HIDE DEF o, p
<1>17. x * (t - l) <= (v - o) * t /\ y * (t - l) <= (w - p) * t
  BY <1>2, <1>3, <1>14, <1>16, WithdrawalShare
<1>18. t - l \in Nat /\ v - o \in Nat /\ w - p \in Nat
  BY <1>2, <1>3, <1>14, <1>16
<1>19. (x * y) * (t - l) * (t - l) <= ((v - o) * (w - p)) * t * t
  BY <1>2, <1>3, <1>17, <1>18, TwoShares
<1>20. /\ Product(Less(b, Burned(b, l))) = (v - o) * (w - p)
       /\ Less(b, Burned(b, l)) \in TwoAmounts
  BY <1>8, <1>18 DEF Product, TwoAmounts
<1>21. /\ Burned(b, l) \in TwoAmounts
       /\ Burned(b, l).token <= b.token /\ Burned(b, l).coin <= b.coin
  BY <1>4, <1>16 DEF TwoAmounts, v, w
<1>22. LpSupply' = t - l  BY <1>7, <1>13
<1>23. Product(reserve) * LpSupply' * LpSupply'
           <= Product(Less(b, Burned(b, l))) * t * t
  BY <1>8, <1>19, <1>20, <1>22
<1> QED  BY <1>3, <1>10, <1>14, <1>20, <1>21, <1>22, <1>23 DEF M, t

\* What the pool pays out in a swap it has, and the product does not fall,
\* whatever the caller asks for.
LEMMA SwapEffect ==
  ASSUME NEW r \in TwoAmounts, NEW r0 \in TwoAmounts, NEW out \in TwoAmounts,
         CanSwap(r, r0, out)
  PROVE  /\ Less(r, out) \in TwoAmounts
         /\ out.token <= r.token /\ out.coin <= r.coin
         /\ Product(r0) <= Product(Less(r, out))
<1> DEFINE a == r.token - out.token
           b == r.coin - out.coin
           p == IF r.token > r0.token THEN r.token - r0.token ELSE 0
           q == IF r.coin > r0.coin THEN r.coin - r0.coin ELSE 0
           k == Product(r0)
           B == FEE_BASE
           R == FeeRate
<1>1. /\ r.token \in Nat /\ r.coin \in Nat /\ out.token \in Nat /\ out.coin \in Nat
      /\ r0.token \in Nat /\ r0.coin \in Nat /\ k \in Nat
  BY ReserveNat
<1>2. out.token <= r.token /\ out.coin <= r.coin  BY DEF CanSwap
<1>3. a \in Nat /\ b \in Nat /\ p \in Nat /\ q \in Nat  BY <1>1, <1>2
<1>4. Less(r, out) = [token |-> a, coin |-> b]  BY DEF Less
<1>5. /\ a * B >= p * R /\ b * B >= q * R
      /\ (a * B - p * R) * (b * B - q * R) >= k * B * B
  BY <1>4 DEF CanSwap
<1>6. B \in Nat \ {0} /\ R \in Nat  BY PairAssumption
<1> HIDE DEF a, b, p, q, k, B, R
<1>7. a * B \in Nat /\ b * B \in Nat /\ p * R \in Nat /\ q * R \in Nat
  BY <1>3, <1>6, ProductNat
<1> DEFINE c == a * B - p * R
           d == b * B - q * R
<1>8. c \in Nat /\ d \in Nat /\ c <= a * B /\ d <= b * B  BY <1>5, <1>7
<1>9. c * d >= k * B * B  BY <1>5
<1> HIDE DEF c, d
<1>10. c * d <= (a * B) * (b * B)  BY <1>7, <1>8, ProductLeq
<1>11. (a * B) * (b * B) = (a * b) * (B * B) /\ k * B * B = k * (B * B)
  BY <1>1, <1>3, <1>6
<1>12. a * b \in Nat /\ B * B \in Nat \ {0}
  <2>1. a * b \in Nat /\ B * B \in Nat  BY <1>3, <1>6, ProductNat
  <2>2. 1 * 1 <= B * B  BY <1>6, ProductLeq
  <2> QED  BY <2>1, <2>2
<1>13. k * (B * B) <= (a * b) * (B * B)
  <2>1. k * (B * B) \in Nat /\ (a * b) * (B * B) \in Nat  BY <1>1, <1>12, ProductNat
  <2>2. c * d \in Nat  BY <1>8, ProductNat
  <2> QED  BY <1>9, <1>10, <1>11, <2>1, <2>2
<1>14. k <= a * b  BY <1>1, <1>12, <1>13, ProductCancel
<1>15. Product(Less(r, out)) = a * b  BY <1>4 DEF Product
<1>16. Less(r, out) \in TwoAmounts  BY <1>3, <1>4 DEF TwoAmounts
<1> QED  BY <1>2, <1>14, <1>15, <1>16 DEF k

(***************************************************************************)
(* Payments to the pool and out of it                                      *)
(***************************************************************************)
LEMMA MoveTotal ==
  ASSUME NEW L \in [Holders -> Nat], NEW from \in Holders, NEW to \in Holders,
         from # to, NEW a \in Nat, a <= L[from]
  PROVE  Total(Move(L, from, to, a), Holders) = Total(L, Holders)
<1> DEFINE M == Move(L, from, to, a)
<1>1. /\ M \in [Holders -> Nat]
      /\ M[from] = L[from] - a /\ M[to] = L[to] + a
      /\ \A x \in Holders : x # from /\ x # to => M[x] = L[x]
  BY MoveEffect
<1> HIDE DEF M
<1>2. \A z \in Holders : L[z] \in Int /\ M[z] \in Int  BY <1>1
<1>3. M[from] + M[to] = L[from] + L[to]  BY <1>1
<1>4. SumOver(M, Holders) = SumOver(L, Holders)
  BY <1>1, <1>2, <1>3, HoldersFinite, SumTransfer
<1>5. Total(M, Holders) = Total(L, Holders)  BY <1>1, <1>4, TotalNat
<1> QED  BY <1>5 DEF M

\* Somebody pays the pool and is paid by it.
LEMMA TwoMoves ==
  ASSUME NEW L \in [Holders -> Nat], NEW u \in Holders, u # Pair,
         NEW a \in Nat, NEW b \in Nat, a <= L[u], b <= L[Pair] + a
  PROVE  LET M == Move(Move(L, u, Pair, a), Pair, u, b)
         IN  /\ M \in [Holders -> Nat]
             /\ M[Pair] = L[Pair] + a - b
             /\ \A x \in Holders : x # u /\ x # Pair => M[x] = L[x]
             /\ Total(M, Holders) = Total(L, Holders)
<1> DEFINE N == Move(L, u, Pair, a)
           M == Move(N, Pair, u, b)
<1>1. u \in Holders /\ Pair \in Holders /\ u # Pair  BY Addresses
<1>2. /\ N \in [Holders -> Nat]
      /\ N[u] = L[u] - a /\ N[Pair] = L[Pair] + a
      /\ \A x \in Holders : x # u /\ x # Pair => N[x] = L[x]
      /\ Total(N, Holders) = Total(L, Holders)
  BY <1>1, MoveEffect, MoveTotal
<1> HIDE DEF N
<1>3. b <= N[Pair]  BY <1>2
<1>4. /\ M \in [Holders -> Nat]
      /\ M[Pair] = N[Pair] - b /\ M[u] = N[u] + b
      /\ \A x \in Holders : x # Pair /\ x # u => M[x] = N[x]
      /\ Total(M, Holders) = Total(N, Holders)
  BY <1>1, <1>2, <1>3, MoveEffect, MoveTotal
<1> HIDE DEF M
<1>5. /\ M[Pair] = L[Pair] + a - b
      /\ \A x \in Holders : x # u /\ x # Pair => M[x] = L[x]
  BY <1>1, <1>2, <1>4
<1> QED  BY <1>2, <1>4, <1>5 DEF M, N

\* A payment neither touches the pot of the core nor the number of tokens.
MoneyKept ==
    /\ \A q \in Policies : TotalTokens(q)' = TotalTokens(q)
    /\ \A c \in Stablecoins : stable'[c][Core] = stable[c][Core]

\* The market neither touches the pot of the core nor the totals it owes.
PotKeeps ==
    /\ TotalsKept
    /\ \A c \in Stablecoins : stable'[c][Core] = stable[c][Core]

BankTyped ==
    /\ stable' \in [Stablecoins -> [Holders -> Nat]]
    /\ tokens' \in [Policies -> [Holders -> Nat]]

\* The ledgers of the traded policy and of the coin are replaced.
LEMMA LedgersReplaced ==
  ASSUME CoreTypeOK, NEW M, M \in [Holders -> Nat], NEW N, N \in [Holders -> Nat],
         tokens' = [tokens EXCEPT ![Traded] = M],
         stable' = [stable EXCEPT ![USDC] = N]
  PROVE  /\ BankTyped /\ TokenBalance' = M[Pair] /\ CoinBalance' = N[Pair]
         /\ \A q \in Policies : q # Traded => TotalTokens(q)' = TotalTokens(q)
         /\ TotalTokens(Traded)' = Total(M, Holders)
         /\ \A c \in Stablecoins : c # USDC => stable'[c][Core] = stable[c][Core]
         /\ stable'[USDC][Core] = N[Core]
<1>1. /\ tokens \in [Policies -> [Holders -> Nat]] /\ Traded \in Policies
      /\ stable \in [Stablecoins -> [Holders -> Nat]] /\ USDC \in Stablecoins
  BY PairAssumption, CoinAssumption DEF CoreTypeOK
<1>2. tokens'[Traded] = M /\ \A q \in Policies : q # Traded => tokens'[q] = tokens[q]
  BY <1>1
<1>3. stable'[USDC] = N /\ \A c \in Stablecoins : c # USDC => stable'[c] = stable[c]
  BY <1>1
<1>4. BankTyped  BY <1>1 DEF BankTyped
<1>5. TokenBalance' = M[Pair] /\ CoinBalance' = N[Pair]
  BY <1>2, <1>3 DEF TokenBalance, CoinBalance
<1>6. /\ \A q \in Policies : q # Traded => TotalTokens(q)' = TotalTokens(q)
      /\ TotalTokens(Traded)' = Total(M, Holders)
  BY <1>2 DEF TotalTokens
<1> QED  BY <1>3, <1>4, <1>5, <1>6

LEMMA TradeEffect ==
  ASSUME CoreTypeOK, NEW u, Partner(u), NEW in \in TwoAmounts, NEW out \in TwoAmounts,
         in.token <= tokens[Traded][u], in.coin <= stable[USDC][u],
         out.token <= TokenBalance + in.token, out.coin <= CoinBalance + in.coin,
         Trade(u, in, out, u)
  PROVE  /\ BankTyped /\ MoneyKept /\ (UNCHANGED userQuota => PotKeeps)
         /\ TokenBalance' = TokenBalance + in.token - out.token
         /\ CoinBalance' = CoinBalance + in.coin - out.coin
<1> DEFINE L == tokens[Traded]
           K == stable[USDC]
           M == Move(Move(L, u, Pair, in.token), Pair, u, out.token)
           N == Move(Move(K, u, Pair, in.coin), Pair, u, out.coin)
<1>1. L \in [Holders -> Nat] /\ K \in [Holders -> Nat]
  BY PairAssumption, CoinAssumption DEF CoreTypeOK
<1>2. /\ in.token \in Nat /\ in.coin \in Nat
      /\ out.token \in Nat /\ out.coin \in Nat
  BY ReserveNat
<1>3. /\ M \in [Holders -> Nat] /\ M[Pair] = L[Pair] + in.token - out.token
      /\ Total(M, Holders) = Total(L, Holders)
  <2>1. in.token <= L[u] /\ out.token <= L[Pair] + in.token  BY DEF TokenBalance
  <2>2. u \in Holders /\ u # Pair  BY DEF Partner
  <2> HIDE DEF L
  <2> QED  BY <1>1, <1>2, <2>1, <2>2, TwoMoves
<1>4. /\ N \in [Holders -> Nat] /\ N[Pair] = K[Pair] + in.coin - out.coin
      /\ N[Core] = K[Core]
  <2>1. in.coin <= K[u] /\ out.coin <= K[Pair] + in.coin  BY DEF CoinBalance
  <2>2. u \in Holders /\ u # Pair /\ Core \in Holders /\ Core # u /\ Core # Pair
    BY Addresses DEF Partner
  <2> HIDE DEF K
  <2> QED  BY <1>1, <1>2, <2>1, <2>2, TwoMoves
<1>5. /\ tokens' = [tokens EXCEPT ![Traded] = M]
      /\ stable' = [stable EXCEPT ![USDC] = N]
  BY DEF Trade
<1> HIDE DEF M, N
<1>6. /\ BankTyped /\ TokenBalance' = M[Pair] /\ CoinBalance' = N[Pair]
      /\ \A q \in Policies : q # Traded => TotalTokens(q)' = TotalTokens(q)
      /\ TotalTokens(Traded)' = Total(M, Holders)
      /\ \A c \in Stablecoins : c # USDC => stable'[c][Core] = stable[c][Core]
      /\ stable'[USDC][Core] = N[Core]
  BY <1>3, <1>4, <1>5, LedgersReplaced
<1>7. MoneyKept
  <2>1. TotalTokens(Traded)' = TotalTokens(Traded)  BY <1>3, <1>6 DEF TotalTokens
  <2> QED  BY <1>4, <1>6, <2>1 DEF MoneyKept
<1>8. UNCHANGED userQuota => PotKeeps
  BY <1>7 DEF MoneyKept, PotKeeps, TotalsKept, TotalQuota
<1> QED  BY <1>3, <1>4, <1>6, <1>7, <1>8 DEF TokenBalance, CoinBalance

\* A payment to the pool is a trade without an answer.
LEMMA PayInEffect ==
  ASSUME CoreTypeOK, NEW u, Partner(u), NEW in \in TwoAmounts,
         in.token <= tokens[Traded][u], in.coin <= stable[USDC][u],
         PayIn(u, in, tokens[Traded], stable[USDC]), UNCHANGED userQuota
  PROVE  /\ BankTyped /\ PotKeeps
         /\ TokenBalance' = TokenBalance + in.token
         /\ CoinBalance' = CoinBalance + in.coin
<1> DEFINE L == tokens[Traded]
           K == stable[USDC]
           M == Move(L, u, Pair, in.token)
           N == Move(K, u, Pair, in.coin)
<1>1. /\ L \in [Holders -> Nat] /\ K \in [Holders -> Nat]
      /\ in.token \in Nat /\ in.coin \in Nat
      /\ in.token <= L[u] /\ in.coin <= K[u]
  BY PairAssumption, CoinAssumption, ReserveNat DEF CoreTypeOK
<1>2. /\ u \in Holders /\ Pair \in Holders /\ u # Pair
      /\ Core \in Holders /\ Core # u /\ Core # Pair
  BY Addresses DEF Partner
<1>3. /\ tokens' = [tokens EXCEPT ![Traded] = M]
      /\ stable' = [stable EXCEPT ![USDC] = N]
  BY DEF PayIn
<1>4. /\ M \in [Holders -> Nat] /\ M[Pair] = L[Pair] + in.token
      /\ Total(M, Holders) = Total(L, Holders)
  <2> HIDE DEF L
  <2> QED  BY <1>1, <1>2, MoveEffect, MoveTotal
<1>5. /\ N \in [Holders -> Nat] /\ N[Pair] = K[Pair] + in.coin /\ N[Core] = K[Core]
  <2> HIDE DEF K
  <2> QED  BY <1>1, <1>2, MoveEffect
<1> HIDE DEF M, N
<1>6. /\ BankTyped /\ TokenBalance' = M[Pair] /\ CoinBalance' = N[Pair]
      /\ \A q \in Policies : q # Traded => TotalTokens(q)' = TotalTokens(q)
      /\ TotalTokens(Traded)' = Total(M, Holders)
      /\ \A c \in Stablecoins : c # USDC => stable'[c][Core] = stable[c][Core]
      /\ stable'[USDC][Core] = N[Core]
  BY <1>3, <1>4, <1>5, LedgersReplaced
<1>7. PotKeeps
  <2>1. TotalTokens(Traded)' = TotalTokens(Traded)  BY <1>4, <1>6 DEF TotalTokens
  <2>2. \A q \in Policies : TotalQuota(q)' = TotalQuota(q)  BY DEF TotalQuota
  <2> QED  BY <1>5, <1>6, <2>1, <2>2 DEF PotKeeps, TotalsKept
<1> QED  BY <1>4, <1>5, <1>6, <1>7 DEF TokenBalance, CoinBalance

(***************************************************************************)
(* The steps of the market                                                 *)
(***************************************************************************)
MarketInv == MarketTypeOK /\ ReservesBacked /\ KGrows

GoodStep == MarketTypeOK' /\ ReservesBacked' /\ KGrows' /\ Undiluted

LEMMA TypesOfMarket ==
  ASSUME MarketTypeOK
  PROVE  /\ CoreTypeOK /\ PairTypeOK /\ Balances \in TwoAmounts
         /\ Balances.token = TokenBalance /\ Balances.coin = CoinBalance
<1>1. CoreTypeOK /\ PairTypeOK
  BY DEF MarketTypeOK, PairTypeOK, TwoAmounts
<1>2. TokenBalance \in Nat /\ CoinBalance \in Nat
  BY <1>1, PairAssumption, CoinAssumption, Addresses
  DEF CoreTypeOK, TokenBalance, CoinBalance
<1> QED  BY <1>1, <1>2 DEF Balances, TwoAmounts

LEMMA StepTyped ==
  ASSUME MarketTypeOK, Step, BankTyped,
         userQuota' \in [Policies -> [Holders -> Nat]],
         allDepositors' \in [Policies -> Seq(Holders)],
         lp' \in [Holders -> Nat], reserve' \in TwoAmounts, kLast' \in Nat,
         buyerTokens' \in [Users -> Nat]
  PROVE  MarketTypeOK'
<1>1. CoreTypeOK'
  BY DEF MarketTypeOK, CoreTypeOK, BankTyped, Step, setupVars, listVars, incomeVars
<1>2. marketSteps' \in 0..MaxMarketSteps
  BY MarketAssumption DEF MarketTypeOK, Step
<1> QED  BY <1>1, <1>2 DEF MarketTypeOK, Step, TwoAmounts

\* Steps that leave the quotas and the buyer tokens alone.
LEMMA KeepsTyped ==
  ASSUME MarketTypeOK, Step, BankTyped, Keeps,
         lp' \in [Holders -> Nat], reserve' \in TwoAmounts, kLast' \in Nat
  PROVE  MarketTypeOK'
<1>1. /\ userQuota' \in [Policies -> [Holders -> Nat]]
      /\ allDepositors' \in [Policies -> Seq(Holders)]
      /\ buyerTokens' \in [Users -> Nat]
  BY DEF Keeps, MarketTypeOK, CoreTypeOK, quotaVars
<1> QED  BY <1>1, StepTyped

\* No LP token is minted or burnt and the product does not fall.
LEMMA NobodyDiluted ==
  ASSUME PairTypeOK, KGrows, lp' = lp, reserve' \in TwoAmounts,
         Product(reserve) <= Product(reserve')
  PROVE  Undiluted
<1> DEFINE s == LpSupply
           p == Product(reserve)
           q == Product(reserve')
           rk == Root(p)
           rl == Root(kLast)
<1>1. s \in Nat  BY TotalNat DEF LpSupply, PairTypeOK
<1>2. p \in Nat /\ q \in Nat /\ kLast \in Nat /\ kLast <= p
  BY ReserveNat DEF PairTypeOK, KGrows
<1>3. rk \in Nat /\ rl \in Nat /\ rl <= rk  BY <1>2, RootBounds, RootMonotone
<1>4. LpSupply' = s  BY DEF LpSupply
<1>5. p <= q  OBVIOUS
<1> HIDE DEF s, p, q, rk, rl
<1>6. rl * (s + 0) <= rk * s
  <2>1. rl * s <= rk * s  BY <1>1, <1>3, ProductLeq
  <2> QED  BY <1>1, <2>1
<1>7. p * s * s <= q * (s + 0) * (s + 0)
  <2>1. s * s \in Nat  BY <1>1, ProductNat
  <2>2. p * (s * s) <= q * (s * s)  BY <1>2, <1>5, <2>1, ProductLeq
  <2>3. p * (s * s) = p * s * s /\ q * (s * s) = q * (s + 0) * (s + 0)
    BY <1>1, <1>2
  <2> QED  BY <2>2, <2>3
<1> QED
  <2>1. 0 \in Nat  OBVIOUS
  <2> QED  BY <1>4, <1>6, <1>7, <2>1 DEF Undiluted, s, p, q, rk, rl

LEMMA OfferAccepted ==
  ASSUME MarketInv, NEW offer \in TwoAmounts, CanQuote(offer)
  PROVE  Accepted(offer) \in TwoAmounts
<1>1. /\ offer.token \in Nat /\ offer.coin \in Nat
      /\ reserve.token \in Nat /\ reserve.coin \in Nat
  BY ReserveNat, TypesOfMarket DEF MarketInv, PairTypeOK
<1>2. CASE reserve = NoReserve  BY <1>2 DEF Accepted
<1>3. CASE reserve # NoReserve
  <2>1. reserve.token > 0 /\ reserve.coin > 0  BY <1>3 DEF CanQuote
  <2> DEFINE c == _quote(offer.token, reserve.token, reserve.coin)
             k == _quote(offer.coin, reserve.coin, reserve.token)
  <2>2. c \in Nat /\ k \in Nat
    <3>1. ASSUME NEW a \in Nat, NEW b \in Nat \ {0}, NEW d \in Nat
          PROVE  _quote(a, b, d) \in Nat
      <4>1. a * d \in Nat  BY ProductNat
      <4> QED  BY <4>1, QuotientBounds DEF _quote
    <3>2. reserve.token \in Nat \ {0} /\ reserve.coin \in Nat \ {0}  BY <1>1, <2>1
    <3> QED  BY <1>1, <3>1, <3>2, Zenon
  <2>3. Accepted(offer) = IF c <= offer.coin THEN [offer EXCEPT !.coin = c]
                          ELSE [offer EXCEPT !.token = k]
    BY <1>3 DEF Accepted
  <2> HIDE DEF c, k
  <2> QED  BY <2>2, <2>3 DEF TwoAmounts
<1> QED  BY <1>2, <1>3

LEMMA AddLiquidityGood ==
  ASSUME MarketInv, NEW u \in Users, NEW offer \in TwoAmounts,
         addLiquidity(u, offer)
  PROVE  GoodStep /\ PotKeeps
<1> DEFINE paid == Accepted(offer)
           r == Plus(Balances, paid)
<1>1. paid \in TwoAmounts  BY OfferAccepted DEF addLiquidity
<1>2. /\ Step /\ mint(r, u) /\ Keeps
      /\ PayIn(u, paid, tokens[Traded], stable[USDC])
      /\ paid.token <= tokens[Traded][u] /\ paid.coin <= stable[USDC][u]
  <2>1. /\ Step /\ mint(r, u) /\ Keeps
        /\ PayIn(u, paid, tokens[Traded], stable[USDC])
        /\ tokens[Traded][u] >= paid.token /\ stable[USDC][u] >= paid.coin
    BY Zenon DEF addLiquidity
  <2>2. /\ tokens[Traded][u] \in Nat /\ stable[USDC][u] \in Nat
        /\ paid.token \in Nat /\ paid.coin \in Nat
    BY <1>1, ReserveNat, PairAssumption, CoinAssumption, Addresses
    DEF MarketInv, MarketTypeOK, CoreTypeOK
  <2> HIDE DEF paid, r
  <2> QED  BY <2>1, <2>2
<1>3. r \in TwoAmounts /\ r = [token |-> TokenBalance + paid.token,
                               coin |-> CoinBalance + paid.coin]
  BY <1>1, TypesOfMarket DEF Plus, TwoAmounts, MarketInv
<1> HIDE DEF paid, r
<1>4. CoreTypeOK /\ PairTypeOK /\ KGrows  BY TypesOfMarket DEF MarketInv
<1>5. UNCHANGED userQuota  BY <1>2 DEF Keeps, quotaVars
<1>6. /\ BankTyped /\ PotKeeps
      /\ TokenBalance' = TokenBalance + paid.token
      /\ CoinBalance' = CoinBalance + paid.coin
  BY <1>1, <1>2, <1>4, <1>5, PayInEffect, UsersArePartners, Zenon
<1>7. /\ lp' \in [Holders -> Nat] /\ reserve' = r
      /\ kLast' \in Nat /\ kLast' <= Product(r) /\ Undiluted
  BY <1>2, <1>3, <1>4, MintEffect, UsersArePartners
<1>8. MarketTypeOK'  BY <1>2, <1>3, <1>6, <1>7, KeepsTyped DEF MarketInv
<1>9. reserve'.token = TokenBalance' /\ reserve'.coin = CoinBalance'
  BY <1>3, <1>6, <1>7
<1>10. ReservesBacked'
  <2>1. TokenBalance' \in Nat /\ CoinBalance' \in Nat
    BY <1>3, <1>7, <1>9 DEF TwoAmounts
  <2> QED  BY <1>9, <2>1 DEF ReservesBacked
<1> QED  BY <1>6, <1>7, <1>8, <1>10 DEF GoodStep, KGrows

LEMMA PoolStepGood ==
  ASSUME MarketInv, Step, BankTyped, Keeps,
         lp' \in [Holders -> Nat], reserve' \in TwoAmounts,
         kLast' \in Nat, kLast' <= Product(reserve'),
         reserve'.token <= TokenBalance', reserve'.coin <= CoinBalance', Undiluted
  PROVE  GoodStep
<1>1. MarketTypeOK'  BY KeepsTyped DEF MarketInv
<1> QED  BY <1>1 DEF GoodStep, ReservesBacked, KGrows

LEMMA PartnerBalances ==
  ASSUME MarketInv, NEW u, Partner(u)
  PROVE  tokens[Traded][u] \in Nat /\ stable[USDC][u] \in Nat
  BY PairAssumption, CoinAssumption
  DEF MarketInv, MarketTypeOK, CoreTypeOK, Partner

\* The pool records its balances, and nobody is diluted.
PoolFollows ==
    /\ lp' \in [Holders -> Nat] /\ reserve' \in TwoAmounts
    /\ reserve'.token = TokenBalance' /\ reserve'.coin = CoinBalance'
    /\ kLast' \in Nat /\ kLast' <= Product(reserve')
    /\ Undiluted

LEMMA PoolFollowsGood ==
  ASSUME MarketTypeOK', PoolFollows PROVE GoodStep
<1>1. TokenBalance' \in Nat /\ CoinBalance' \in Nat
  BY DEF PoolFollows, TwoAmounts
<1> QED  BY <1>1 DEF GoodStep, PoolFollows, ReservesBacked, KGrows

\* A user whose balances suffice, as comparisons of natural numbers.
LEMMA UserBalances ==
  ASSUME MarketInv, NEW u \in Users
  PROVE  tokens[Traded][u] \in Nat /\ stable[USDC][u] \in Nat
  BY PairAssumption, CoinAssumption, Addresses
  DEF MarketInv, MarketTypeOK, CoreTypeOK

\* Policy tokens are issued first: the books of the core move as with a
\* deposit, and the rest is a payment to the pool.
LEMMA IssueEffect ==
  ASSUME MarketInv, NEW u, Partner(u), NEW a \in Nat, NEW paid \in TwoAmounts,
         paid.token <= a, a + paid.coin <= stable[USDC][u],
         RecordDeposit(Traded, a, u),
         PayIn(u, paid, [tokens[Traded] EXCEPT ![u] = @ + a],
               Move(stable[USDC], u, Core, a)),
         mint(Plus(Balances, paid), u), UNCHANGED incomeVars
  PROVE  /\ BankTyped /\ PoolFollows
         /\ userQuota' \in [Policies -> [Holders -> Nat]]
         /\ allDepositors' \in [Policies -> Seq(Holders)]
         /\ Books(Traded, USDC, a, a, a, 0)
<1> DEFINE r == Plus(Balances, paid)
           L == tokens[Traded]
           K == stable[USDC]
           M1 == [L EXCEPT ![u] = L[u] + a]
           N1 == Move(K, u, Core, a)
           M == Move(M1, u, Pair, paid.token)
           N == Move(N1, u, Pair, paid.coin)
<1>1. /\ mint(r, u) /\ a + paid.coin <= K[u]
      /\ tokens' = [tokens EXCEPT ![Traded] = M]
      /\ stable' = [stable EXCEPT ![USDC] = N]
      /\ allDepositors' = [allDepositors EXCEPT ![Traded] = Enlist(Traded, u)]
      /\ userQuota' = [userQuota EXCEPT ![Traded][u] = userQuota[Traded][u] + a]
  BY DEF PayIn, RecordDeposit
<1>3. paid.token \in Nat /\ paid.coin \in Nat /\ a \in Nat  BY ReserveNat
<1>5. CoreTypeOK /\ PairTypeOK /\ KGrows  BY TypesOfMarket DEF MarketInv
<1>6. /\ u \in Holders /\ Pair \in Holders /\ u # Pair
      /\ Core \in Holders /\ Core # u /\ Core # Pair /\ Traded \in Policies
  BY Addresses, PairAssumption DEF Partner
<1>7. L \in [Holders -> Nat] /\ K \in [Holders -> Nat]
  BY <1>5, PairAssumption, CoinAssumption DEF CoreTypeOK
<1>8. r = [token |-> L[Pair] + paid.token, coin |-> K[Pair] + paid.coin]
  BY DEF Plus, Balances, TokenBalance, CoinBalance
<1>9. L[Pair] \in Nat /\ K[Pair] \in Nat  BY <1>6, <1>7
<1>10. r \in TwoAmounts  BY <1>3, <1>8, <1>9 DEF TwoAmounts
<1>11. /\ Total(L, Holders) = TotalTokens(Traded) /\ K[Core] = stable[USDC][Core]
  BY DEF TotalTokens
<1> HIDE DEF r, L, K
<1>12. /\ M1 \in [Holders -> Nat] /\ M1[u] = L[u] + a /\ M1[Pair] = L[Pair]
       /\ Total(M1, Holders) = Total(L, Holders) + a
  <2>1. L[u] + a \in Nat  BY <1>3, <1>6, <1>7
  <2>2. /\ M1 \in [Holders -> Nat] /\ M1[u] = L[u] + a
        /\ \A w \in Holders : w # u => M1[w] = L[w]
    BY <1>6, <1>7, <2>1
  <2> HIDE DEF M1
  <2>3. Total(M1, Holders) = Total(L, Holders) + (M1[u] - L[u])
    BY <1>6, <1>7, <2>2, TotalChange
  <2>4. M1[u] - L[u] = a  BY <1>3, <1>6, <1>7, <2>2
  <2> QED  BY <1>6, <2>2, <2>3, <2>4
<1>13. /\ N1 \in [Holders -> Nat] /\ N1[u] = K[u] - a /\ N1[Core] = K[Core] + a
       /\ N1[Pair] = K[Pair]
  <2>1. a <= K[u] /\ K[u] \in Nat  BY <1>1, <1>3, <1>6, <1>7
  <2> QED  BY <1>3, <1>6, <1>7, <2>1, MoveEffect
<1> HIDE DEF M1, N1
<1>14. /\ M \in [Holders -> Nat] /\ M[Pair] = L[Pair] + paid.token
       /\ Total(M, Holders) = Total(L, Holders) + a
  <2>1. paid.token <= M1[u]  BY <1>3, <1>6, <1>7, <1>12
  <2> QED  BY <1>3, <1>6, <1>12, <2>1, MoveEffect, MoveTotal
<1>15. /\ N \in [Holders -> Nat] /\ N[Pair] = K[Pair] + paid.coin
       /\ N[Core] = K[Core] + a
  <2>1. paid.coin <= N1[u]  BY <1>1, <1>3, <1>6, <1>7, <1>13
  <2> QED  BY <1>3, <1>6, <1>13, <2>1, MoveEffect
<1> HIDE DEF M, N
<1>16. /\ BankTyped /\ TokenBalance' = M[Pair] /\ CoinBalance' = N[Pair]
       /\ \A q \in Policies : q # Traded => TotalTokens(q)' = TotalTokens(q)
       /\ TotalTokens(Traded)' = Total(M, Holders)
       /\ \A c \in Stablecoins : c # USDC => stable'[c][Core] = stable[c][Core]
       /\ stable'[USDC][Core] = N[Core]
  BY <1>1, <1>5, <1>14, <1>15, LedgersReplaced
<1>17. /\ userQuota' \in [Policies -> [Holders -> Nat]]
       /\ TotalQuota(Traded)' = TotalQuota(Traded) + a
       /\ \A q \in Policies : q # Traded => TotalQuota(q)' = TotalQuota(q)
  <2> DEFINE v == userQuota[Traded][u] + a
  <2>1. userQuota[Traded][u] \in Nat  BY <1>5, <1>6 DEF CoreTypeOK
  <2>2. v \in Nat /\ userQuota' = [userQuota EXCEPT ![Traded][u] = v]
    BY <1>1, <1>3, <2>1
  <2> HIDE DEF v
  <2>3. /\ userQuota' \in [Policies -> [Holders -> Nat]]
        /\ TotalQuota(Traded)' = TotalQuota(Traded) + (v - userQuota[Traded][u])
        /\ \A q \in Policies : q # Traded => TotalQuota(q)' = TotalQuota(q)
    BY <1>5, <1>6, <2>2, QuotaEffect, Zenon
  <2>4. v - userQuota[Traded][u] = a  BY <1>3, <2>1 DEF v
  <2> QED  BY <2>3, <2>4
<1>18. allDepositors' \in [Policies -> Seq(Holders)]
  <2>1. Enlist(Traded, u) \in Seq(Holders)  BY <1>5, <1>6 DEF Enlist, CoreTypeOK
  <2> QED  BY <1>1, <1>5, <1>6, <2>1 DEF CoreTypeOK
<1>19. /\ lp' \in [Holders -> Nat] /\ reserve' = r
       /\ kLast' \in Nat /\ kLast' <= Product(r) /\ Undiluted
  BY <1>1, <1>5, <1>10, MintEffect
<1>20. PoolFollows
  <2>1. reserve'.token = TokenBalance' /\ reserve'.coin = CoinBalance'
    BY <1>8, <1>14, <1>15, <1>16, <1>19
  <2> QED  BY <1>10, <1>19, <2>1 DEF PoolFollows
<1>23. \A c \in Stablecoins : PendingIncome(c)' = PendingIncome(c) + 0
  BY <1>1, <1>5, BooksNat DEF incomeVars, PendingIncome
<1>24. \A c \in Stablecoins : PendingIncome(c)' = PendingIncome(c)
  BY <1>1 DEF incomeVars, PendingIncome
<1>25. Books(Traded, USDC, a, a, a, 0)
  <2>1. USDC \in Stablecoins  BY CoinAssumption
  <2>2. TotalTokens(Traded)' = TotalTokens(Traded) + a  BY <1>11, <1>14, <1>16
  <2>3. stable'[USDC][Core] = stable[USDC][Core] + a  BY <1>11, <1>15, <1>16
  <2> QED  BY <1>16, <1>17, <1>23, <1>24, <2>1, <2>2, <2>3 DEF Books, PotMoves
<1> QED  BY <1>16, <1>17, <1>18, <1>20, <1>25

\* Liquidity of `holder` is withdrawn and paid out to `to`.
LEMMA WithdrawEffect ==
  ASSUME MarketInv, NEW holder \in Holders, NEW l \in Nat, l <= lp[holder],
         NEW to, Partner(to), CanBurn(Balances, l),
         Trade(to, NoReserve, Burned(Balances, l), to), lp' = LpBurned(holder, l),
         _update(Less(Balances, Burned(Balances, l))),
         RecordK(Less(Balances, Burned(Balances, l)))
  PROVE  BankTyped /\ PoolFollows /\ MoneyKept /\ (UNCHANGED userQuota => PotKeeps)
<1> DEFINE b == Balances
           out == Burned(b, l)
           left == Less(b, out)
           t == LpSupply + FeeLiquidity
<1>1. /\ CanBurn(b, l) /\ Trade(to, NoReserve, out, to)
      /\ lp' = LpBurned(holder, l) /\ _update(left) /\ RecordK(left)
  OBVIOUS
<1>2. /\ CoreTypeOK /\ PairTypeOK /\ KGrows /\ b \in TwoAmounts
      /\ b.token = TokenBalance /\ b.coin = CoinBalance
  BY TypesOfMarket DEF MarketInv
<1>3. reserve.token <= b.token /\ reserve.coin <= b.coin
  BY <1>2 DEF MarketInv, ReservesBacked
<1> HIDE DEF b
<1>5. /\ lp' \in [Holders -> Nat] /\ out \in TwoAmounts /\ left \in TwoAmounts
      /\ out.token <= b.token /\ out.coin <= b.coin
      /\ Product(reserve) * LpSupply' * LpSupply' <= Product(left) * t * t
  BY <1>1, <1>2, <1>3, BurnEffect
<1>6. /\ FeeLiquidity \in Nat
      /\ ~FeeDue => FeeLiquidity = 0
      /\ kLast # 0 => Root(kLast) * (LpSupply + FeeLiquidity)
                          <= Root(Product(reserve)) * LpSupply
  BY <1>1, <1>2, FeeEffect DEF CanBurn
<1>7. left.token = b.token - out.token /\ left.coin = b.coin - out.coin
  BY DEF Less
<1> HIDE DEF out, left
<1>8. reserve' = left /\ kLast' \in Nat /\ kLast' <= Product(left)
  BY <1>1, <1>5, ReserveNat DEF _update, RecordK
<1>9. Undiluted  BY <1>5, <1>6, <1>8 DEF Undiluted
<1>10. NoReserve \in TwoAmounts /\ NoReserve.token = 0 /\ NoReserve.coin = 0
  BY DEF NoReserve, TwoAmounts
<1>11. tokens[Traded][to] \in Nat /\ stable[USDC][to] \in Nat
  BY PartnerBalances
<1>13. /\ b.token \in Nat /\ b.coin \in Nat /\ out.token \in Nat /\ out.coin \in Nat
  BY <1>2, <1>5, ReserveNat
<1>14. /\ NoReserve.token <= tokens[Traded][to] /\ NoReserve.coin <= stable[USDC][to]
       /\ out.token <= TokenBalance + NoReserve.token
       /\ out.coin <= CoinBalance + NoReserve.coin
  BY <1>2, <1>5, <1>10, <1>11, <1>13
<1>15. /\ BankTyped /\ MoneyKept /\ (UNCHANGED userQuota => PotKeeps)
       /\ TokenBalance' = TokenBalance + NoReserve.token - out.token
       /\ CoinBalance' = CoinBalance + NoReserve.coin - out.coin
  BY <1>1, <1>2, <1>5, <1>10, <1>14, TradeEffect, Zenon
<1>16. TokenBalance' = left.token /\ CoinBalance' = left.coin
  BY <1>2, <1>7, <1>10, <1>13, <1>15
<1>17. reserve'.token = TokenBalance' /\ reserve'.coin = CoinBalance'
  BY <1>8, <1>16
<1>18. PoolFollows  BY <1>5, <1>8, <1>9, <1>17 DEF PoolFollows
<1> QED  BY <1>15, <1>18

LEMMA AddLiquidityWithUSDGood ==
  ASSUME MarketInv, NEW u \in Users, NEW offer \in TwoAmounts,
         addLiquidityWithUSD(u, offer)
  PROVE  /\ GoodStep
         /\ Books(Traded, USDC, offer.token, offer.token, offer.token, 0)
         /\ validPolicyTokenWithStablecoin(Traded, USDC)
<1> DEFINE paid == Accepted(offer)
           a == offer.token
<1>1. /\ Step /\ UNCHANGED buyerTokens
      /\ CanQuote(offer) /\ mint(Plus(Balances, paid), u)
      /\ stable[USDC][u] >= a + paid.coin
      /\ PayIn(u, paid, [tokens[Traded] EXCEPT ![u] = @ + a],
               Move(stable[USDC], u, Core, a))
      /\ RecordDeposit(Traded, a, u)
      /\ validPolicyTokenWithStablecoin(Traded, USDC)
  BY Zenon DEF addLiquidityWithUSD, CanDeposit
<1>2. paid \in TwoAmounts  BY <1>1, OfferAccepted
<1>3. paid.token \in Nat /\ paid.coin \in Nat /\ a \in Nat  BY <1>2, ReserveNat
<1>4. paid.token <= a  BY <1>1, <1>3 DEF CanQuote, Accepted
<1>5. UNCHANGED incomeVars  BY <1>1 DEF Step
<1>6. Partner(u)  BY UsersArePartners
<1> HIDE DEF paid, a
<1>7. a + paid.coin <= stable[USDC][u]
  BY <1>1, <1>3, <1>6, PartnerBalances
<1>8. /\ BankTyped /\ PoolFollows
      /\ userQuota' \in [Policies -> [Holders -> Nat]]
      /\ allDepositors' \in [Policies -> Seq(Holders)]
      /\ Books(Traded, USDC, a, a, a, 0)
  BY <1>1, <1>2, <1>3, <1>4, <1>5, <1>6, <1>7, IssueEffect, Zenon
<1>9. buyerTokens' \in [Users -> Nat]  BY <1>1 DEF MarketInv, MarketTypeOK
<1>10. MarketTypeOK'
  BY <1>1, <1>8, <1>9, StepTyped DEF MarketInv, PoolFollows
<1>11. GoodStep  BY <1>8, <1>10, PoolFollowsGood
<1> QED  BY <1>1, <1>8, <1>11 DEF a

LEMMA RemoveLiquidityGood ==
  ASSUME MarketInv, NEW u \in Users, NEW l \in Nat, removeLiquidity(u, l)
  PROVE  GoodStep /\ PotKeeps
<1>1. /\ Step /\ Keeps /\ CanBurn(Balances, l) /\ lp[u] >= l
      /\ Trade(u, NoReserve, Burned(Balances, l), u) /\ lp' = LpBurned(u, l)
      /\ _update(Less(Balances, Burned(Balances, l)))
      /\ RecordK(Less(Balances, Burned(Balances, l)))
  BY Zenon DEF removeLiquidity
<1>2. u \in Holders /\ l <= lp[u] /\ Partner(u)
  BY <1>1, Addresses, UsersArePartners DEF MarketInv, MarketTypeOK
<1>3. UNCHANGED userQuota  BY <1>1 DEF Keeps, quotaVars
<1>4. BankTyped /\ PoolFollows /\ PotKeeps
  BY <1>1, <1>2, <1>3, WithdrawEffect, Zenon
<1>5. MarketTypeOK'  BY <1>1, <1>4, KeepsTyped DEF MarketInv, PoolFollows
<1> QED  BY <1>4, <1>5, PoolFollowsGood

\* A swap through the router or past it: in is paid, out is paid out.
LEMMA AnySwapGood ==
  ASSUME MarketInv, NEW u \in Users, NEW in \in TwoAmounts, NEW out \in TwoAmounts,
         Step, tokens[Traded][u] >= in.token, stable[USDC][u] >= in.coin,
         CanSwap(Plus(Balances, in), reserve, out), Trade(u, in, out, u),
         _update(Less(Plus(Balances, in), out)), UNCHANGED <<lp, kLast, quotaVars>>,
         buyerTokens' \in [Users -> Nat]
  PROVE  GoodStep /\ PotKeeps
<1> DEFINE b == Balances
           r == Plus(b, in)
           left == Less(r, out)
<1>1. /\ CoreTypeOK /\ PairTypeOK /\ KGrows /\ b \in TwoAmounts
      /\ b.token = TokenBalance /\ b.coin = CoinBalance
      /\ reserve \in TwoAmounts
  BY TypesOfMarket DEF MarketInv, PairTypeOK
<1>2. /\ r.token = b.token + in.token /\ r.coin = b.coin + in.coin
      /\ r = [token |-> b.token + in.token, coin |-> b.coin + in.coin]
      /\ left.token = r.token - out.token /\ left.coin = r.coin - out.coin
  BY DEF Plus, Less
<1>3. /\ in.token \in Nat /\ in.coin \in Nat /\ out.token \in Nat /\ out.coin \in Nat
      /\ b.token \in Nat /\ b.coin \in Nat
  BY <1>1, ReserveNat
<1>4. r \in TwoAmounts  BY <1>2, <1>3 DEF TwoAmounts
<1>5. CanSwap(r, reserve, out) /\ _update(left)  OBVIOUS
<1> HIDE DEF b, r
<1>6. /\ left \in TwoAmounts /\ out.token <= r.token /\ out.coin <= r.coin
      /\ Product(reserve) <= Product(left)
  BY <1>1, <1>4, <1>5, SwapEffect
<1> HIDE DEF left
<1>7. reserve' = left  BY <1>5 DEF _update
<1>8. tokens[Traded][u] \in Nat /\ stable[USDC][u] \in Nat  BY UserBalances
<1>9. /\ in.token <= tokens[Traded][u] /\ in.coin <= stable[USDC][u]
      /\ out.token <= TokenBalance + in.token /\ out.coin <= CoinBalance + in.coin
  BY <1>1, <1>2, <1>3, <1>6, <1>8
<1>10. UNCHANGED userQuota  BY DEF quotaVars
<1>11. /\ BankTyped /\ PotKeeps
       /\ TokenBalance' = TokenBalance + in.token - out.token
       /\ CoinBalance' = CoinBalance + in.coin - out.coin
  BY <1>1, <1>9, <1>10, TradeEffect, UsersArePartners, Zenon
<1>12. TokenBalance' = left.token /\ CoinBalance' = left.coin
  BY <1>1, <1>2, <1>3, <1>11
<1>13. Undiluted  BY <1>1, <1>6, <1>7, NobodyDiluted
<1>14. MarketTypeOK'
  <2>1. /\ userQuota' \in [Policies -> [Holders -> Nat]]
        /\ allDepositors' \in [Policies -> Seq(Holders)]
    BY <1>1 DEF CoreTypeOK, quotaVars
  <2>2. lp' \in [Holders -> Nat] /\ kLast' \in Nat  BY <1>1 DEF PairTypeOK
  <2> QED  BY <1>6, <1>7, <1>11, <2>1, <2>2, StepTyped DEF MarketInv
<1>15. ReservesBacked'
  <2>1. left.token \in Nat /\ left.coin \in Nat  BY <1>6, ReserveNat
  <2> QED  BY <1>7, <1>12, <2>1 DEF ReservesBacked
<1>16. KGrows'
  <2>1. Product(reserve) \in Nat /\ Product(left) \in Nat /\ kLast \in Nat
    BY <1>1, <1>6, ReserveNat DEF PairTypeOK
  <2> QED  BY <1>1, <1>6, <1>7, <2>1 DEF KGrows
<1> QED  BY <1>11, <1>13, <1>14, <1>15, <1>16 DEF GoodStep

LEMMA PaidTyped ==
  ASSUME NEW b \in BOOLEAN, NEW a \in Nat
  PROVE  Paid(b, a) \in TwoAmounts /\ Given(b, a) \in TwoAmounts
  BY DEF Paid, Given, Coin, Token, TwoAmounts

\* A quote within the fee-reduced price leaves the product of the reserves
\* covered, whatever gifts gi and go the pool has received before.
LEMMA QuoteKeepsProduct ==
  ASSUME NEW ri \in Nat, NEW ro \in Nat, NEW gi \in Nat, NEW go \in Nat,
         NEW a \in Nat, NEW out \in Nat, NEW e \in Nat, NEW FB \in Nat,
         out <= ro, out * (ri * FB + a * e) <= (a * e) * ro
  PROVE  (ri * FB + (gi + a) * e) * ((ro - out) * FB + go * e)
             >= ((ri * ro) * FB) * FB
<1> DEFINE D == ri * FB + a * e
           X == ri * FB + (gi + a) * e
           left == ro - out
           Y == left * FB + go * e
<1>1. D \in Nat /\ left \in Nat /\ ri * FB \in Nat /\ a * e \in Nat  
  BY ProductNat
<1>2. X = D + gi * e /\ gi * e \in Nat /\ go * e \in Nat /\ left * FB \in Nat
  <2>1. (gi + a) * e = gi * e + a * e  OBVIOUS
  <2> QED  BY <1>1, <2>1, ProductNat
<1>3. X \in Nat /\ Y \in Nat /\ D <= X /\ left * FB <= Y  BY <1>1, <1>2
<1>4. D * left >= (ri * FB) * ro
  <2>1. D * left = D * ro - D * out
    <3> HIDE DEF D
    <3> QED  BY <1>1
  <2>2. D * ro = (ri * FB) * ro + (a * e) * ro
    <3> DEFINE y == ri * FB
               z == a * e
    <3> HIDE DEF y, z
    <3>1. (y + z) * ro = y * ro + z * ro  BY <1>1 DEF y, z
    <3> QED  BY <3>1 DEF y, z
  <2>3. D * out = out * D
    <3> HIDE DEF D
    <3> QED  BY <1>1
  <2>4. D * out <= (a * e) * ro  BY <2>3
  <2>5. (ri * FB) * ro \in Nat /\ (a * e) * ro \in Nat /\ D * out \in Nat
    BY <1>1, ProductNat
  <2> HIDE DEF D
  <2> QED  BY <2>1, <2>2, <2>4, <2>5
<1> HIDE DEF D, X, Y, left
<1>5. X * Y >= D * (left * FB)
  <2>1. X * (left * FB) <= X * Y  BY <1>2, <1>3, ProductMonotone
  <2>2. (left * FB) * D <= (left * FB) * X
    BY <1>1, <1>2, <1>3, ProductMonotone
  <2>3. X * (left * FB) \in Nat /\ X * Y \in Nat /\ D * (left * FB) \in Nat
    BY <1>1, <1>2, <1>3, ProductNat
  <2>4. (left * FB) * D = D * (left * FB) /\ (left * FB) * X = X * (left * FB)
    BY <1>1, <1>2, <1>3
  <2> QED  BY <2>1, <2>2, <2>3, <2>4
<1>6. D * (left * FB) >= ((ri * ro) * FB) * FB
  <2>1. FB * ((ri * FB) * ro) <= FB * (D * left)
    BY <1>1, <1>4, ProductNat, ProductMonotone
  <2>2. FB * (D * left) = D * (left * FB)  BY <1>1
  <2>3. FB * ((ri * FB) * ro) = ((ri * ro) * FB) * FB  OBVIOUS
  <2> QED  BY <2>1, <2>2, <2>3
<1>7. X * Y \in Nat /\ D * (left * FB) \in Nat /\ ((ri * ro) * FB) * FB \in Nat
  BY <1>1, <1>2, <1>3, ProductNat
<1>8. X * Y >= ((ri * ro) * FB) * FB  BY <1>5, <1>6, <1>7
<1> QED  BY <1>8 DEF X, Y, left

\* So the pool takes the quote: out leaves some of the reserve, and the checks
\* of swap hold for the balances, which may exceed the reserves.
LEMMA QuotePasses ==
  ASSUME NEW ri \in Nat \ {0}, NEW ro \in Nat \ {0}, NEW gi \in Nat,
         NEW go \in Nat, NEW a \in Nat \ {0}, NEW out \in Nat,
         out * (ri * FEE_BASE + a * (FEE_BASE - FeeRate))
             <= (a * (FEE_BASE - FeeRate)) * ro
  PROVE  /\ out < ro
         /\ (ri + gi + a) * FEE_BASE >= (gi + a) * FeeRate
         /\ (ro + go - out) * FEE_BASE >= go * FeeRate
         /\ ((ri + gi + a) * FEE_BASE - (gi + a) * FeeRate)
                * ((ro + go - out) * FEE_BASE - go * FeeRate)
                >= ((ri * ro) * FEE_BASE) * FEE_BASE
<1> DEFINE FB == FEE_BASE
           e  == FB - FeeRate
<1>1. FB \in Nat \ {0} /\ e \in Nat /\ FeeRate \in Nat /\ FeeRate = FB - e
  BY PairAssumption
<1> HIDE DEF FB, e
<1>2. out * (ri * FB + a * e) <= (a * e) * ro  BY DEF FB, e
<1>3. out < ro
  <2>1. SUFFICES ASSUME ro <= out PROVE FALSE  BY <1>1
  <2> DEFINE y == ri * FB
             z == a * e
  <2>2. y \in Nat /\ z \in Nat /\ y > 0
    <3>1. y \in Nat /\ z \in Nat  BY <1>1, ProductNat
    <3>2. ri * 1 <= ri * FB  BY <1>1, ProductMonotone
    <3> QED  BY <3>1, <3>2
  <2> HIDE DEF y, z
  <2>3. (y + z) * ro <= (y + z) * out  BY <2>1, <2>2, ProductMonotone
  <2>4. (y + z) * out = out * (y + z)  BY <2>2
  <2>5. out * (y + z) <= z * ro  BY <1>2 DEF y, z
  <2>6. (y + z) * ro = y * ro + z * ro  BY <2>2
  <2>7. y * 1 <= y * ro  BY <2>2, ProductMonotone
  <2>8. y * ro \in Nat /\ z * ro \in Nat /\ out * (y + z) \in Nat
    BY <2>2, ProductNat
  <2> QED  BY <2>2, <2>3, <2>4, <2>5, <2>6, <2>7, <2>8
<1>4. (ri + gi + a) * FB - (gi + a) * FeeRate = ri * FB + (gi + a) * e
  BY <1>1
<1>5. (ro + go - out) * FB - go * FeeRate = (ro - out) * FB + go * e
  BY <1>1
<1>6. /\ ri * FB + (gi + a) * e \in Nat
      /\ (ro - out) * FB + go * e \in Nat
      /\ (ri + gi + a) * FB \in Nat /\ (gi + a) * FeeRate \in Nat
      /\ (ro + go - out) * FB \in Nat /\ go * FeeRate \in Nat
  <2>1. ro - out \in Nat /\ ro + go - out \in Nat  BY <1>3
  <2> QED  BY <1>1, <2>1, ProductNat
<1>7. (ri * FB + (gi + a) * e) * ((ro - out) * FB + go * e)
          >= ((ri * ro) * FB) * FB
  BY <1>1, <1>2, <1>3, QuoteKeepsProduct
<1>8. /\ (ri + gi + a) * FB >= (gi + a) * FeeRate
      /\ (ro + go - out) * FB >= go * FeeRate
  <2> DEFINE p == (ri + gi + a) * FB
             q == (gi + a) * FeeRate
             v == (ro + go - out) * FB
             w == go * FeeRate
             x == ri * FB + (gi + a) * e
             t == (ro - out) * FB + go * e
  <2>1. p \in Nat /\ q \in Nat /\ v \in Nat /\ w \in Nat /\ x \in Nat
        /\ t \in Nat /\ p - q = x /\ v - w = t
    BY <1>4, <1>5, <1>6
  <2> HIDE DEF p, q, v, w, x, t
  <2>2. p >= q /\ v >= w  BY <2>1
  <2> QED  BY <2>2 DEF p, q, v, w
<1>9. ((ri + gi + a) * FB - (gi + a) * FeeRate)
          * ((ro + go - out) * FB - go * FeeRate) >= ((ri * ro) * FB) * FB
  BY <1>4, <1>5, <1>7, Zenon
<1> QED  BY <1>3, <1>8, <1>9, Zenon DEF FB

\* The amount that the router quotes for an exact payment.
LEMMA OutQuote ==
  ASSUME NEW ri \in Nat \ {0}, NEW ro \in Nat, NEW a \in Nat
  PROVE  /\ _getAmountOut(a, ri, ro) \in Nat
         /\ _getAmountOut(a, ri, ro)
                * (ri * FEE_BASE + a * (FEE_BASE - FeeRate))
                <= (a * (FEE_BASE - FeeRate)) * ro
<1> DEFINE w == a * (FEE_BASE - FeeRate)
           d == ri * FEE_BASE + w
<1>1. FEE_BASE \in Nat \ {0} /\ FEE_BASE - FeeRate \in Nat
  BY PairAssumption
<1>2. w \in Nat /\ ri * FEE_BASE \in Nat  BY <1>1, ProductNat
<1>3. ri * 1 <= ri * FEE_BASE  BY <1>1, ProductMonotone
<1>4. d \in Nat \ {0}
  <2> HIDE DEF w
  <2> QED  BY <1>2, <1>3
<1>5. w * ro \in Nat  BY <1>2, ProductNat
<1>6. _getAmountOut(a, ri, ro) = (w * ro) \div d  BY DEF _getAmountOut
<1> HIDE DEF w, d
<1>7. (w * ro) \div d \in Nat /\ ((w * ro) \div d) * d <= w * ro
  BY <1>4, <1>5, QuotientBounds
<1>8. /\ _getAmountOut(a, ri, ro) \in Nat
      /\ _getAmountOut(a, ri, ro) * d <= w * ro
  BY <1>6, <1>7, Zenon
<1> QED  BY <1>8, Zenon DEF d, w

\* The payment that the router quotes for an exact amount: its last unit, which
\* the rounding asks for, makes it enough.
LEMMA InQuote ==
  ASSUME NEW ri \in Nat, NEW ro \in Nat, NEW out \in Nat, out < ro,
         FeeRate < FEE_BASE
  PROVE  /\ _getAmountIn(out, ri, ro) \in Nat \ {0}
         /\ out * (ri * FEE_BASE
                       + _getAmountIn(out, ri, ro) * (FEE_BASE - FeeRate))
                <= (_getAmountIn(out, ri, ro) * (FEE_BASE - FeeRate)) * ro
<1> DEFINE e == FEE_BASE - FeeRate
           n == ri * out * FEE_BASE
           d == (ro - out) * e
           q == n \div d
           a == q + 1
<1>1. e \in Nat \ {0} /\ ro - out \in Nat \ {0} /\ FEE_BASE \in Nat
  BY PairAssumption
<1>2. n \in Nat
  <2>1. ri * out \in Nat  BY ProductNat
  <2> QED  BY <1>1, <2>1, ProductNat
<1>3. d \in Nat \ {0}
  <2>1. (ro - out) * 1 <= (ro - out) * e  BY <1>1, ProductMonotone
  <2>2. d \in Nat  BY <1>1, ProductNat
  <2> QED  BY <1>1, <2>1, <2>2
<1>4. _getAmountIn(out, ri, ro) = a  BY DEF _getAmountIn
<1>5. q \in Nat /\ n < q * d + d
  <2> HIDE DEF n, d
  <2> QED  BY <1>2, <1>3, QuotientBounds
<1>6. q * d + d = a * d
  <2> HIDE DEF d, q
  <2> QED  BY <1>3, <1>5
<1>7. out * (ri * FEE_BASE + a * e) = n + (out * a) * e
  <2> HIDE DEF q, e
  <2> QED  BY <1>1, <1>5
<1>8. (a * e) * ro = a * d + (out * a) * e
  <2> HIDE DEF q, e
  <2> QED  BY <1>1, <1>5
<1>9. a \in Nat /\ (out * a) * e \in Nat /\ a * d \in Nat
  <2> HIDE DEF q, d, e
  <2>1. a \in Nat  BY <1>5
  <2> HIDE DEF a
  <2> QED  BY <1>1, <1>3, <2>1, ProductNat
<1>10. out * (ri * FEE_BASE + a * e) <= (a * e) * ro
  <2> HIDE DEF n, a, d, e, q
  <2> QED  BY <1>2, <1>5, <1>6, <1>7, <1>8, <1>9
<1>11. a \in Nat \ {0}
  <2> HIDE DEF q
  <2> QED  BY <1>5
<1> HIDE DEF a
<1> QED  BY <1>4, <1>10, <1>11, Zenon DEF e

LEMMA RouterSwapGood ==
  ASSUME MarketInv, NEW u \in Users, NEW b \in BOOLEAN,
         NEW x \in Nat, NEW y \in Nat, _swap(u, b, x, y)
  PROVE  GoodStep /\ PotKeeps
<1> DEFINE in == Paid(b, x)
           out == Given(b, y)
<1>1. in \in TwoAmounts /\ out \in TwoAmounts  BY PaidTyped
<1>2. /\ Step /\ tokens[Traded][u] >= in.token /\ stable[USDC][u] >= in.coin
      /\ CanSwap(Plus(Balances, in), reserve, out) /\ Trade(u, in, out, u)
      /\ _update(Less(Plus(Balances, in), out))
      /\ UNCHANGED <<lp, kLast, quotaVars>>
      /\ buyerTokens' = [buyerTokens EXCEPT ![u] = buyerTokens[u] + in.coin]
  BY DEF _swap
<1> HIDE DEF in, out
<1>3. buyerTokens' \in [Users -> Nat]
  <2>1. buyerTokens \in [Users -> Nat]  BY DEF MarketInv, MarketTypeOK
  <2>2. buyerTokens[u] + in.coin \in Nat  BY <1>1, <2>1, ReserveNat
  <2> QED  BY <1>2, <2>1, <2>2
<1> QED  BY <1>1, <1>2, <1>3, AnySwapGood, Zenon

LEMMA SwapGood ==
  ASSUME MarketInv, Swap PROVE GoodStep /\ PotKeeps
<1>1. PICK u \in Users, a \in SwapAmounts, b \in BOOLEAN :
          \/ swapExactTokensforTokens(u, b, a)
          \/ swapTokensforExactTokens(u, b, a)
          \/ \E c \in SwapAmounts : directSwap(u, Paid(b, a), Given(b, c))
  BY DEF Swap
<1>2. SwapAmounts \subseteq Nat /\ a \in Nat  BY MarketAssumption
<1>3. reserve.token \in Nat /\ reserve.coin \in Nat
  BY TypesOfMarket, ReserveNat DEF MarketInv, PairTypeOK
<1>4. ReserveIn(b) \in Nat /\ ReserveOut(b) \in Nat
  BY <1>3 DEF ReserveIn, ReserveOut
<1>5. ASSUME reserve.token > 0, reserve.coin > 0
      PROVE  ReserveIn(b) \in Nat \ {0}
  BY <1>3, <1>5 DEF ReserveIn
<1>6. CASE swapExactTokensforTokens(u, b, a)
  <2>1. /\ reserve.token > 0 /\ reserve.coin > 0
        /\ _swap(u, b, a, AmountOut(b, a))
    BY <1>6 DEF swapExactTokensforTokens
  <2>2. AmountOut(b, a) \in Nat
    BY <1>2, <1>4, <1>5, <2>1, OutQuote DEF AmountOut
  <2> QED  BY <1>2, <2>1, <2>2, RouterSwapGood, Zenon
<1>7. CASE swapTokensforExactTokens(u, b, a)
  <2>1. /\ reserve.token > 0 /\ reserve.coin > 0 /\ CanAskFor(b, a)
        /\ _swap(u, b, AmountIn(b, a), a)
    BY <1>7 DEF swapTokensforExactTokens
  <2>2. AmountIn(b, a) \in Nat
    BY <1>2, <1>4, <1>5, <2>1, InQuote DEF AmountIn, CanAskFor
  <2> QED  BY <1>2, <2>1, <2>2, RouterSwapGood, Zenon
<1>8. ASSUME NEW c \in SwapAmounts, directSwap(u, Paid(b, a), Given(b, c))
      PROVE  GoodStep /\ PotKeeps
  <2> DEFINE in == Paid(b, a)
             out == Given(b, c)
  <2>1. c \in Nat  BY <1>2
  <2>2. in \in TwoAmounts /\ out \in TwoAmounts  BY <1>2, <2>1, PaidTyped
  <2>3. /\ Step /\ tokens[Traded][u] >= in.token /\ stable[USDC][u] >= in.coin
        /\ CanSwap(Plus(Balances, in), reserve, out) /\ Trade(u, in, out, u)
        /\ _update(Less(Plus(Balances, in), out))
        /\ UNCHANGED <<lp, kLast, quotaVars>> /\ buyerTokens' = buyerTokens
    BY <1>8 DEF directSwap, Keeps
  <2> HIDE DEF in, out
  <2>4. buyerTokens' \in [Users -> Nat]  BY <2>3 DEF MarketInv, MarketTypeOK
  <2> QED  BY <2>2, <2>3, <2>4, AnySwapGood, Zenon
<1> QED  BY <1>1, <1>6, <1>7, <1>8

LEMMA GiftGood ==
  ASSUME MarketInv, NEW u \in Users, NEW in \in TwoAmounts, gift(u, in)
  PROVE  GoodStep /\ PotKeeps
<1>1. /\ Step /\ Keeps /\ UNCHANGED <<lp, reserve, kLast>>
      /\ tokens[Traded][u] >= in.token /\ stable[USDC][u] >= in.coin
      /\ PayIn(u, in, tokens[Traded], stable[USDC])
  BY DEF gift
<1>2. /\ CoreTypeOK /\ PairTypeOK /\ KGrows /\ Balances \in TwoAmounts
      /\ Balances.token = TokenBalance /\ Balances.coin = CoinBalance
  BY TypesOfMarket DEF MarketInv
<1>3. /\ TokenBalance \in Nat /\ CoinBalance \in Nat
      /\ in.token \in Nat /\ in.coin \in Nat
      /\ reserve.token \in Nat /\ reserve.coin \in Nat /\ Product(reserve) \in Nat
  BY <1>2, ReserveNat DEF PairTypeOK
<1>4. tokens[Traded][u] \in Nat /\ stable[USDC][u] \in Nat  BY UserBalances
<1>5. in.token <= tokens[Traded][u] /\ in.coin <= stable[USDC][u]
  BY <1>1, <1>3, <1>4
<1>6. UNCHANGED userQuota  BY <1>1 DEF Keeps, quotaVars
<1>7. /\ BankTyped /\ PotKeeps
      /\ TokenBalance' = TokenBalance + in.token
      /\ CoinBalance' = CoinBalance + in.coin
  BY <1>1, <1>2, <1>5, <1>6, PayInEffect, UsersArePartners, Zenon
<1>8. /\ lp' \in [Holders -> Nat] /\ reserve' \in TwoAmounts /\ kLast' \in Nat
      /\ kLast' <= Product(reserve') /\ Product(reserve) <= Product(reserve')
  BY <1>1, <1>2, <1>3 DEF PairTypeOK, KGrows
<1>9. reserve'.token <= TokenBalance' /\ reserve'.coin <= CoinBalance'
  BY <1>1, <1>3, <1>7 DEF MarketInv, ReservesBacked
<1>10. Undiluted  BY <1>1, <1>2, <1>8, NobodyDiluted
<1>11. GoodStep  BY <1>1, <1>7, <1>8, <1>9, <1>10, PoolStepGood
<1> QED  BY <1>7, <1>11

LEMMA SyncGood ==
  ASSUME MarketInv, sync PROVE GoodStep /\ PotKeeps
<1>1. /\ Step /\ Keeps /\ UNCHANGED <<ledgerVars, lp, kLast>> /\ reserve' = Balances
  BY DEF sync, _update
<1>2. /\ CoreTypeOK /\ PairTypeOK /\ KGrows /\ Balances \in TwoAmounts
      /\ Balances.token = TokenBalance /\ Balances.coin = CoinBalance
  BY TypesOfMarket DEF MarketInv
<1>3. /\ TokenBalance \in Nat /\ CoinBalance \in Nat
      /\ reserve.token \in Nat /\ reserve.coin \in Nat /\ Product(reserve) \in Nat
      /\ Product(Balances) \in Nat
  BY <1>2, ReserveNat DEF PairTypeOK
<1>4. /\ TokenBalance' = TokenBalance /\ CoinBalance' = CoinBalance
  BY <1>1 DEF ledgerVars, TokenBalance, CoinBalance
<1>5. BankTyped  BY <1>1, <1>2 DEF CoreTypeOK, ledgerVars, BankTyped
<1>6. PotKeeps
  BY <1>1 DEF ledgerVars, Keeps, quotaVars, PotKeeps, TotalsKept, TotalQuota, TotalTokens
<1>7. Product(reserve) <= Product(Balances)
  <2>1. reserve.token <= TokenBalance /\ reserve.coin <= CoinBalance
    BY DEF MarketInv, ReservesBacked
  <2>2. reserve.token * reserve.coin <= TokenBalance * CoinBalance
    BY <1>3, <2>1, ProductLeq
  <2> QED  BY <1>2, <2>2 DEF Product
<1>8. /\ lp' \in [Holders -> Nat] /\ reserve' \in TwoAmounts /\ kLast' \in Nat
      /\ kLast' <= Product(reserve') /\ Product(reserve) <= Product(reserve')
  BY <1>1, <1>2, <1>3, <1>7 DEF PairTypeOK, KGrows
<1>9. reserve'.token <= TokenBalance' /\ reserve'.coin <= CoinBalance'
  BY <1>1, <1>2, <1>3, <1>4
<1>10. Undiluted  BY <1>1, <1>2, <1>8, NobodyDiluted
<1>11. GoodStep  BY <1>1, <1>5, <1>8, <1>9, <1>10, PoolStepGood
<1> QED  BY <1>6, <1>11

\* The owner of the factory.
LEMMA FactoryOwnerGood ==
  ASSUME MarketInv, FactoryOwner PROVE GoodStep /\ PotKeeps
<1>1. /\ UNCHANGED <<coreVars, lp, reserve, kLast, buyerTokens, marketSteps>>
      /\ incomeMakerSet' \in BOOLEAN /\ incomeMakerProportion' \in Nat
  BY MarketAssumption
  DEF FactoryOwner, setIncomeMaker, setIncomeMakerProportion, MarketInv, MarketTypeOK
<1>2. CoreTypeOK /\ PairTypeOK /\ KGrows  BY TypesOfMarket DEF MarketInv
<1>3. UNCHANGED <<now, ledgerVars, setupVars, listVars, quotaVars, settleResult,
                  incomeVars>>
  BY <1>1 DEF coreVars
<1>4. CoreTypeOK'
  BY <1>2, <1>3 DEF CoreTypeOK, ledgerVars, setupVars, listVars, quotaVars, incomeVars
<1>5. MarketTypeOK'  BY <1>1, <1>4 DEF MarketInv, MarketTypeOK
<1>6. ReservesBacked'
  BY <1>1, <1>3 DEF MarketInv, ReservesBacked, ledgerVars, TokenBalance, CoinBalance
<1>7. KGrows'  BY <1>1, <1>2 DEF KGrows
<1>8. PotKeeps
  BY <1>3 DEF ledgerVars, quotaVars, PotKeeps, TotalsKept, TotalQuota, TotalTokens
<1>9. Undiluted
  <2>1. reserve' \in TwoAmounts /\ Product(reserve) <= Product(reserve')
    BY <1>1, <1>2, ReserveNat DEF PairTypeOK
  <2> QED  BY <1>1, <1>2, <2>1, NobodyDiluted
<1> QED  BY <1>5, <1>6, <1>7, <1>8, <1>9 DEF GoodStep

\* The income maker burns its LP tokens and swaps in one call.
LEMMA ConvertIncomeGood ==
  ASSUME MarketInv, convertIncome PROVE GoodStep /\ PotKeeps
<1> DEFINE b == Balances
           l == lp[IncomeMaker]
           out == Burned(b, l)
           middle == Less(b, out)
           bought == _getAmountOut(out.token, middle.token, middle.coin)
           back == Plus(middle, Token(out.token))
           after == Less(back, Coin(bought))
           K == stable[USDC]
           coins == K[IncomeMaker] + out.coin + bought
           N == [K EXCEPT ![Pair] = after.coin, ![IncomeMaker] = 0,
                          ![SharingVault] = K[SharingVault] + coins]
           t == LpSupply + FeeLiquidity
<1>1. /\ Step /\ Keeps /\ UNCHANGED tokens /\ CanBurn(b, l)
      /\ lp' = LpBurned(IncomeMaker, l)
      /\ CanSwap(back, middle, Coin(bought))
      /\ _update(after) /\ kLast' = Product(middle)
  BY Zenon DEF convertIncome
<1>2. stable' = [stable EXCEPT ![USDC] = N]
  <2>1. stable' = [stable EXCEPT ![USDC][Pair] = after.coin,
                                 ![USDC][IncomeMaker] = 0,
                                 ![USDC][SharingVault] = stable[USDC][SharingVault] + coins]
    BY DEF convertIncome
  <2>2. /\ stable \in [Stablecoins -> [Holders -> Nat]] /\ USDC \in Stablecoins
    BY TypesOfMarket, CoinAssumption DEF MarketInv, CoreTypeOK
  <2> HIDE DEF after, coins
  <2> QED  BY <2>1, <2>2
<1>3. /\ CoreTypeOK /\ PairTypeOK /\ KGrows /\ b \in TwoAmounts
      /\ b.token = TokenBalance /\ b.coin = CoinBalance
  BY TypesOfMarket DEF MarketInv
<1>4. reserve.token <= b.token /\ reserve.coin <= b.coin
  BY <1>3 DEF MarketInv, ReservesBacked
<1>5. IncomeMaker \in Holders /\ l \in Nat /\ l <= lp[IncomeMaker]
  <2>1. IncomeMaker \in Holders  BY Addresses
  <2>2. l \in Nat  BY <1>3, <2>1 DEF PairTypeOK
  <2> QED  BY <2>1, <2>2
<1> HIDE DEF b, l
<1>6. /\ lp' \in [Holders -> Nat] /\ out \in TwoAmounts /\ middle \in TwoAmounts
      /\ out.token <= b.token /\ out.coin <= b.coin
      /\ Product(reserve) * LpSupply' * LpSupply' <= Product(middle) * t * t
  BY <1>1, <1>3, <1>4, <1>5, BurnEffect
<1>7. /\ FeeLiquidity \in Nat /\ LpSupply \in Nat
      /\ ~FeeDue => FeeLiquidity = 0
      /\ kLast # 0 => Root(kLast) * (LpSupply + FeeLiquidity)
                          <= Root(Product(reserve)) * LpSupply
  BY <1>1, <1>3, FeeEffect DEF CanBurn
<1>8. middle.token = b.token - out.token /\ middle.coin = b.coin - out.coin
  BY DEF Less
<1>9. /\ b.token \in Nat /\ b.coin \in Nat /\ out.token \in Nat /\ out.coin \in Nat
      /\ middle.token \in Nat /\ middle.coin \in Nat /\ Product(middle) \in Nat
  BY <1>3, <1>6, ReserveNat
<1>10. bought \in Nat
  <2>1. Coin(bought).token < middle.token  BY <1>1 DEF CanSwap
  <2>2. middle.token \in Nat \ {0}  BY <1>9, <2>1 DEF Coin
  <2> HIDE DEF middle, out
  <2> QED  BY <1>9, <2>2, OutQuote
<1>11. /\ back.token = middle.token + out.token /\ back.coin = middle.coin
       /\ back = [token |-> middle.token + out.token, coin |-> middle.coin]
       /\ after.token = back.token /\ after.coin = back.coin - bought
  <2>1. \A m, n : m \in Nat => m + 0 = m /\ m - 0 = m  OBVIOUS
  <2> HIDE DEF middle, out, bought
  <2>2. middle.token + out.token \in Nat  BY <1>9
  <2> QED  BY <1>9, <2>1, <2>2 DEF Plus, Less, Token, Coin
<1> HIDE DEF out, middle, bought
<1>12. back \in TwoAmounts /\ Coin(bought) \in TwoAmounts
  BY <1>9, <1>10, <1>11 DEF TwoAmounts, Coin
<1>13. CanSwap(back, middle, Coin(bought)) /\ after = Less(back, Coin(bought))
  BY <1>1
<1> HIDE DEF back, after
<1>14. after \in TwoAmounts /\ Product(middle) <= Product(after)
  BY <1>6, <1>12, <1>13, SwapEffect
<1>15. after.token \in Nat /\ after.coin \in Nat /\ Product(after) \in Nat
  BY <1>14, ReserveNat
<1>16. K \in [Holders -> Nat]  BY <1>3, CoinAssumption DEF CoreTypeOK
<1>17. /\ Pair \in Holders /\ IncomeMaker \in Holders /\ SharingVault \in Holders
       /\ Core \in Holders
       /\ Pair # IncomeMaker /\ Pair # SharingVault /\ IncomeMaker # SharingVault
       /\ Core # Pair /\ Core # IncomeMaker /\ Core # SharingVault
  BY Addresses
<1> HIDE DEF K
<1>18. K[SharingVault] + coins \in Nat  BY <1>9, <1>10, <1>16, <1>17
<1> HIDE DEF coins
<1>19. N \in [Holders -> Nat] /\ N[Pair] = after.coin /\ N[Core] = K[Core]
  BY <1>15, <1>16, <1>17, <1>18
<1> HIDE DEF N
<1>20. /\ stable \in [Stablecoins -> [Holders -> Nat]]
       /\ tokens \in [Policies -> [Holders -> Nat]] /\ USDC \in Stablecoins
  BY <1>3, CoinAssumption DEF CoreTypeOK
<1>21. BankTyped  BY <1>1, <1>2, <1>19, <1>20 DEF BankTyped
<1>22. TokenBalance' = TokenBalance /\ CoinBalance' = after.coin
  BY <1>1, <1>2, <1>19, <1>20 DEF TokenBalance, CoinBalance
<1>23. PotKeeps
  <2>1. \A c \in Stablecoins : stable'[c][Core] = stable[c][Core]
    BY <1>2, <1>19, <1>20 DEF K
  <2>2. TotalsKept  BY <1>1 DEF Keeps, quotaVars, TotalsKept, TotalQuota, TotalTokens
  <2> QED  BY <2>1, <2>2 DEF PotKeeps
<1>24. reserve' = after  BY <1>1 DEF _update
<1>25. Undiluted
  <2>1. Product(middle) * t * t <= Product(after) * t * t
    <3>1. t \in Nat  BY <1>7
    <3> HIDE DEF t
    <3>2. t * t \in Nat  BY <3>1, ProductNat
    <3>3. Product(middle) * (t * t) <= Product(after) * (t * t)
      BY <1>9, <1>14, <1>15, <3>2, ProductLeq
    <3>4. /\ Product(middle) * (t * t) = Product(middle) * t * t
          /\ Product(after) * (t * t) = Product(after) * t * t
      BY <1>9, <1>15, <3>1
    <3> QED  BY <3>3, <3>4
  <2>2. /\ Product(reserve) * LpSupply' * LpSupply' \in Nat
        /\ Product(middle) * t * t \in Nat /\ Product(after) * t * t \in Nat
    <3>1. t \in Nat /\ LpSupply' \in Nat /\ Product(reserve) \in Nat
      <4>1. LpSupply' \in Nat
        <5> DEFINE M == lp'
        <5>1. M \in [Holders -> Nat]  BY <1>6
        <5> HIDE DEF M
        <5>2. Total(M, Holders) \in Nat  BY <5>1, TotalNat
        <5> QED  BY <5>2 DEF M, LpSupply
      <4> QED  BY <1>3, <1>7, <4>1, ReserveNat DEF PairTypeOK
    <3> DEFINE x == Product(reserve)
               later == LpSupply'
    <3>2. x \in Nat /\ later \in Nat  BY <3>1
    <3> HIDE DEF t, x, later
    <3>3. x * later \in Nat /\ Product(middle) * t \in Nat /\ Product(after) * t \in Nat
      BY <1>9, <1>15, <3>1, <3>2, ProductNat
    <3>4. /\ x * later * later \in Nat
          /\ Product(middle) * t * t \in Nat /\ Product(after) * t * t \in Nat
      BY <3>1, <3>2, <3>3, ProductNat
    <3> QED  BY <3>4 DEF x, later
  <2>3. Product(reserve) * LpSupply' * LpSupply' <= Product(after) * t * t
    BY <1>6, <2>1, <2>2
  <2>4. Product(reserve) * LpSupply' * LpSupply' <= Product(reserve') * t * t
    BY <1>24, <2>3
  <2> QED  BY <1>7, <2>4 DEF Undiluted, t
<1>26. /\ reserve' \in TwoAmounts /\ kLast' \in Nat /\ kLast' <= Product(reserve')
  BY <1>1, <1>9, <1>14, <1>24
<1>27. /\ reserve'.token <= TokenBalance' /\ reserve'.coin <= CoinBalance'
  <2>1. after.token = TokenBalance  BY <1>3, <1>8, <1>9, <1>11
  <2> QED  BY <1>15, <1>22, <1>24, <2>1
<1>28. GoodStep  BY <1>1, <1>6, <1>21, <1>25, <1>26, <1>27, PoolStepGood
<1> QED  BY <1>23, <1>28

(***************************************************************************)
(* The core behind the market                                              *)
(***************************************************************************)
\* A transfer between other accounts.
LEMMA MoveElsewhere ==
  ASSUME NEW L \in [Holders -> Nat], NEW from \in Holders, NEW to \in Holders,
         NEW x \in Holders, from # x, to # x, NEW a
  PROVE  Move(L, from, to, a)[x] = L[x]
  BY DEF Move

\* An account that others leave what it has.
AccountKept(x) ==
    /\ tokens'[Traded][x] = tokens[Traded][x]
    /\ stable'[USDC][x] >= stable[USDC][x]

LEMMA BankOfPool ==
  ASSUME CoreTypeOK
  PROVE  /\ tokens \in [Policies -> [Holders -> Nat]] /\ Traded \in Policies
         /\ stable \in [Stablecoins -> [Holders -> Nat]] /\ USDC \in Stablecoins
         /\ TokenBalance \in Nat /\ CoinBalance \in Nat
<1>1. /\ tokens \in [Policies -> [Holders -> Nat]] /\ Traded \in Policies
      /\ stable \in [Stablecoins -> [Holders -> Nat]] /\ USDC \in Stablecoins
  BY PairAssumption, CoinAssumption DEF CoreTypeOK
<1>2. Pair \in Holders  BY Addresses
<1> QED  BY <1>1, <1>2 DEF TokenBalance, CoinBalance

LEMMA CoinMoved ==
  ASSUME CoreTypeOK, NEW s \in Stablecoins, NEW from \in Holders, NEW to \in Holders,
         NEW x \in Holders, from # x, to # x, NEW a,
         stable' = [stable EXCEPT ![s] = Move(stable[s], from, to, a)]
  PROVE  stable'[USDC][x] = stable[USDC][x]
<1> DEFINE N == Move(stable[s], from, to, a)
<1>1. stable \in [Stablecoins -> [Holders -> Nat]] /\ USDC \in Stablecoins
  BY BankOfPool
<1>2. N[x] = stable[s][x]
  <2> DEFINE L == stable[s]
  <2>1. L \in [Holders -> Nat]  BY <1>1
  <2> HIDE DEF L
  <2>2. Move(L, from, to, a)[x] = L[x]  BY <2>1, MoveElsewhere
  <2> QED  BY <2>2 DEF L
<1>3. stable' = [stable EXCEPT ![s] = N]  OBVIOUS
<1> HIDE DEF N
<1> QED  BY <1>1, <1>2, <1>3

LEMMA TokensOfOther ==
  ASSUME CoreTypeOK, NEW p \in Policies, NEW u \in Holders,
         NEW x \in Holders, u # x, NEW v,
         tokens' = [tokens EXCEPT ![p][u] = v]
  PROVE  tokens'[Traded][x] = tokens[Traded][x]
<1>1. tokens \in [Policies -> [Holders -> Nat]] /\ Traded \in Policies
  BY BankOfPool
<1> QED  BY <1>1

\* What the core does leaves the contracts around it what they have.
LEMMA CoreLeavesAccount ==
  ASSUME CoreTypeOK, [CoreNext]_coreVars, NEW x \in OtherContracts
  PROVE  AccountKept(x)
<1>1. /\ tokens[Traded][x] \in Nat /\ stable[USDC][x] \in Nat
      /\ \A u \in Users : u \in Holders /\ u # x /\ u # Core
      /\ Core \in Holders /\ Core # x /\ LotteryPool \in Holders
      /\ LotteryPool # x /\ SharingVault \in Holders /\ SharingVault # x
      /\ x \in Holders
  <2>1. /\ \A u \in Users : u \in Holders /\ u # x /\ u # Core
        /\ Core \in Holders /\ Core # x /\ LotteryPool \in Holders
        /\ LotteryPool # x /\ SharingVault \in Holders /\ SharingVault # x
        /\ x \in Holders
    BY HolderAssumption DEF Holders
  <2> QED  BY <2>1, BankOfPool
<1>2. ASSUME tokens'[Traded][x] = tokens[Traded][x], stable'[USDC][x] = stable[USDC][x]
      PROVE  AccountKept(x)
  BY <1>1, <1>2 DEF AccountKept
<1>3. ASSUME UNCHANGED ledgerVars PROVE AccountKept(x)
  BY <1>2, <1>3 DEF ledgerVars
<1>4. CASE Tick \/ CoreOwner
  <2>1. UNCHANGED ledgerVars  BY <1>4, SetupTyped
  <2> QED  BY <1>3, <2>1
<1>5. CASE CoreUser
  <2>1. PICK p \in Policies, s \in Stablecoins, u \in Users :
            \/ redeemAfterSettlement(p, s, u)
            \/ \E a \in Amounts :
                   deposit(p, s, a, u) \/ redeem(p, s, a, u) \/ claim(p, s, a, u)
    BY <1>5 DEF CoreUser
  <2>2. ASSUME NEW a, Pay(s, u, a) PROVE stable'[USDC][x] = stable[USDC][x]
    <3>1. stable' = [stable EXCEPT ![s] = Move(stable[s], Core, u, a)]
      BY <2>2 DEF Pay
    <3>2. /\ Core \in Holders /\ u \in Holders /\ x \in Holders
          /\ Core # x /\ u # x
      BY <1>1
    <3> QED  BY <3>1, <3>2, CoinMoved, Zenon
  <2>3. ASSUME NEW a, burn(p, u, a) PROVE tokens'[Traded][x] = tokens[Traded][x]
    <3>1. tokens' = [tokens EXCEPT ![p][u] = tokens[p][u] - a]  BY <2>3 DEF burn
    <3> QED  BY <1>1, <3>1, TokensOfOther, Zenon
  <2>4. CASE redeemAfterSettlement(p, s, u)
    <3>1. UNCHANGED tokens /\ Pay(s, u, WithFee(userQuota[p][u]))
      BY <2>4 DEF redeemAfterSettlement
    <3>2. tokens'[Traded][x] = tokens[Traded][x]  BY <3>1
    <3> QED  BY <1>2, <2>2, <3>1, <3>2, Zenon
  <2>5. ASSUME NEW a \in Amounts, deposit(p, s, a, u) PROVE AccountKept(x)
    <3>1. /\ stable' = [stable EXCEPT ![s] = Move(stable[s], u, Core, a)]
          /\ tokens' = [tokens EXCEPT ![p][u] = tokens[p][u] + a]
      BY <2>5 DEF deposit, _deposit
    <3>2. stable'[USDC][x] = stable[USDC][x]
      <4>1. /\ Core \in Holders /\ u \in Holders /\ x \in Holders
            /\ Core # x /\ u # x
        BY <1>1
      <4> QED  BY <3>1, <4>1, CoinMoved
    <3>3. tokens'[Traded][x] = tokens[Traded][x]  BY <1>1, <3>1, TokensOfOther, Zenon
    <3> QED  BY <1>2, <3>2, <3>3, Zenon
  <2>6. ASSUME NEW a \in Amounts, redeem(p, s, a, u) PROVE AccountKept(x)
    <3>1. Pay(s, u, WithFee(a)) /\ burn(p, u, a)  BY <2>6 DEF redeem
    <3> QED  BY <1>2, <2>2, <2>3, <3>1, Zenon
  <2>7. ASSUME NEW a \in Amounts, claim(p, s, a, u) PROVE AccountKept(x)
    <3>1. Pay(s, u, WithFee(a)) /\ burn(p, u, a)  BY <2>7 DEF claim
    <3> QED  BY <1>2, <2>2, <2>3, <3>1, Zenon
  <2> QED  BY <2>1, <2>4, <2>5, <2>6, <2>7
<1>6. CASE CoreTransfer
  <2>1. PICK p \in Policies, u, v \in Traders, a \in Amounts :
            u # v /\ transferPolicyToken(p, u, v, a)
    BY <1>6 DEF CoreTransfer
  <2>2. u \in Users /\ v \in Users  BY HolderAssumption
  <2>3. /\ tokens' = [tokens EXCEPT ![p] = Move(tokens[p], u, v, a)]
        /\ UNCHANGED stable
    BY <2>1 DEF transferPolicyToken
  <2> DEFINE L == tokens[p]
             N == Move(L, u, v, a)
  <2>4. tokens \in [Policies -> [Holders -> Nat]] /\ Traded \in Policies
    BY BankOfPool
  <2>5. L \in [Holders -> Nat]  BY <2>4
  <2>6. tokens' = [tokens EXCEPT ![p] = N] /\ L = tokens[p]  BY <2>3
  <2> HIDE DEF L
  <2>7. N[x] = L[x]  BY <1>1, <2>2, <2>5, MoveElsewhere
  <2> HIDE DEF N
  <2>8. tokens'[Traded][x] = tokens[Traded][x]  BY <2>4, <2>6, <2>7
  <2>9. stable'[USDC][x] = stable[USDC][x]  BY <2>3
  <2> QED  BY <1>2, <2>8, <2>9, Zenon
<1>7. CASE CoreSettle
  <2>1. UNCHANGED ledgerVars  BY <1>7 DEF CoreSettle, settleFinalResult
  <2> QED  BY <1>3, <2>1
<1>8. CASE CoreDistribute
  <2>1. PICK p \in Policies, s \in Stablecoins, i, j \in 0..MaxDepositors :
            settleAllPolicyTokens(p, s, i, j)
    BY <1>8 DEF CoreDistribute
  <2>2. /\ UNCHANGED tokens
        /\ \E last : _settlePolicy(p, s, i, last)
    BY <2>1, DistributeBounds, Zenon
  <2>3. PICK last : _settlePolicy(p, s, i, last)  BY <2>2
  <2> DEFINE paid == PaidTo(p, i, last)
             N == [a \in Holders |-> IF a = Core
                                     THEN stable[s][Core] - Total(paid, Holders)
                                     ELSE stable[s][a] + paid[a]]
  <2>4. stable' = [stable EXCEPT ![s] = N]  BY <2>3 DEF _settlePolicy, PaidTo
  <2>5. paid[x] \in Nat
    <3>2. userQuota[p][x] \in Nat /\ toLotteryPart \in 0..10
      BY <1>1 DEF CoreTypeOK
    <3>3. WithFee(userQuota[p][x]) \in Nat  BY <3>2, FeeParts
    <3> QED  BY <1>1, <3>3 DEF PaidTo
  <2>6. N[x] = stable[s][x] + paid[x]  BY <1>1, <2>5
  <2> HIDE DEF paid, N
  <2>7. stable \in [Stablecoins -> [Holders -> Nat]] /\ USDC \in Stablecoins
    BY BankOfPool
  <2>8. stable'[USDC][x] >= stable[USDC][x]
    <3>1. CASE s = USDC
      <4>1. stable'[USDC][x] = stable[USDC][x] + paid[x]
        BY <2>4, <2>6, <2>7, <3>1
      <4> QED  BY <1>1, <2>5, <4>1
    <3>2. CASE s # USDC
      <4>1. stable'[USDC][x] = stable[USDC][x]  BY <2>4, <2>7, <3>2
      <4> QED  BY <1>1, <4>1
    <3> QED  BY <3>1, <3>2
  <2>9. tokens'[Traded][x] = tokens[Traded][x]  BY <2>2
  <2> QED  BY <2>8, <2>9 DEF AccountKept
<1>9. CASE CoreCollect
  <2>1. PICK s \in Stablecoins : collectIncome(s)  BY <1>9 DEF CoreCollect
  <2> DEFINE L == stable[s]
             l == pendingIncomeToLottery[s]
             m == pendingIncomeToSharing[s]
             M == Move(L, Core, LotteryPool, l)
             N == Move(M, Core, SharingVault, m)
  <2>2. /\ stable \in [Stablecoins -> [Holders -> Nat]] /\ USDC \in Stablecoins
        /\ l \in Nat /\ m \in Nat
    BY BankOfPool DEF CoreTypeOK
  <2>3. /\ stable' = [stable EXCEPT ![s] = N] /\ UNCHANGED tokens
        /\ L[Core] >= l + m
    BY <2>1 DEF collectIncome
  <2>4. L \in [Holders -> Nat] /\ L = stable[s]  BY <2>2
  <2> HIDE DEF L, l, m
  <2>5. l <= L[Core] /\ LotteryPool # Core  BY <1>1, <2>2, <2>3, <2>4, Addresses
  <2>6. M \in [Holders -> Nat] /\ M[x] = L[x]
    BY <1>1, <2>2, <2>4, <2>5, MoveEffect, MoveElsewhere
  <2> HIDE DEF M
  <2>7. N[x] = M[x]  BY <1>1, <2>6, MoveElsewhere
  <2> HIDE DEF N
  <2>8. stable'[USDC][x] = stable[USDC][x]
    BY <2>2, <2>3, <2>4, <2>6, <2>7
  <2>9. tokens'[Traded][x] = tokens[Traded][x]  BY <2>3
  <2> QED  BY <1>2, <2>8, <2>9, Zenon
<1>10. CASE UNCHANGED coreVars
  <2>1. UNCHANGED ledgerVars  BY <1>10 DEF coreVars
  <2> QED  BY <1>3, <2>1
<1> QED  BY <1>4, <1>5, <1>6, <1>7, <1>8, <1>9, <1>10 DEF CoreNext

LEMMA CoreStepGood ==
  ASSUME MarketInv, [CoreNext]_coreVars,
         UNCHANGED <<pairVars, buyerTokens, marketSteps>>
  PROVE  GoodStep
<1>1. CoreTypeOK /\ PairTypeOK /\ KGrows  BY TypesOfMarket DEF MarketInv
<1>2. CoreTypeOK' /\ TokenBalance' = TokenBalance /\ CoinBalance' >= CoinBalance
  BY <1>1, NextTyped, CoreLeavesAccount, PairAssumption
  DEF AccountKept, TokenBalance, CoinBalance
<1>3. UNCHANGED <<lp, reserve, kLast, incomeMakerSet, incomeMakerProportion>>
  BY DEF pairVars
<1>4. MarketTypeOK'  BY <1>2, <1>3 DEF MarketInv, MarketTypeOK
<1>5. KGrows'  BY <1>1, <1>3 DEF KGrows
<1>6. ReservesBacked'
  <2>1. /\ TokenBalance \in Nat /\ CoinBalance \in Nat
        /\ TokenBalance' \in Nat /\ CoinBalance' \in Nat
        /\ reserve.token \in Nat /\ reserve.coin \in Nat
    <3>1. CoreTypeOK' => CoinBalance' \in Nat
      BY CoinAssumption, Addresses DEF CoreTypeOK, CoinBalance
    <3> QED  BY <1>1, <1>2, <3>1, BankOfPool, ReserveNat DEF PairTypeOK
  <2> QED  BY <1>2, <1>3, <2>1 DEF MarketInv, ReservesBacked
<1>7. Undiluted
  <2>1. reserve' \in TwoAmounts /\ Product(reserve) <= Product(reserve')
    BY <1>1, <1>3, ReserveNat DEF PairTypeOK
  <2> QED  BY <1>1, <1>3, <2>1, NobodyDiluted
<1> QED  BY <1>4, <1>5, <1>6, <1>7 DEF GoodStep

\* The amounts offered, removed and given.
LEMMA InputsNat ==
  /\ LpAmounts \subseteq Nat
  /\ \A a, b \in LiquidityAmounts : [token |-> a, coin |-> b] \in TwoAmounts
  /\ \A a \in LiquidityAmounts : a \in Nat
  /\ \A a \in GiftAmounts : Token(a) \in TwoAmounts /\ Coin(a) \in TwoAmounts
  BY MarketAssumption DEF TwoAmounts, Token, Coin

\* The deposits that the router makes in PolicyCore.
Issue ==
    \E u \in Users, a, b \in LiquidityAmounts :
        addLiquidityWithUSD(u, [token |-> a, coin |-> b])

\* A step of the market is one of the core, a deposit through the router, or
\* it leaves the money of the core alone.
LEMMA NextGood ==
  ASSUME MarketInv, [MarketNext]_marketVars
  PROVE  /\ GoodStep
         /\ \/ [CoreNext]_coreVars
            \/ PotKeeps /\ UNCHANGED <<listVars, settleResult, incomeVars>>
            \/ Issue
<1>1. CASE CoreNext /\ UNCHANGED <<pairVars, buyerTokens, marketSteps>>
  BY <1>1, CoreStepGood
<1>2. CASE UNCHANGED marketVars
  <2>1. UNCHANGED coreVars /\ UNCHANGED <<pairVars, buyerTokens, marketSteps>>
    BY <1>2 DEF marketVars
  <2> QED  BY <2>1, CoreStepGood
<1>3. Step => UNCHANGED <<listVars, settleResult, incomeVars>>
  BY DEF Step
<1>4. CASE Liquidity
  <2>1. PICK u \in Users :
            \/ \E a, b \in LiquidityAmounts :
                   \/ addLiquidity(u, [token |-> a, coin |-> b])
                   \/ addLiquidityWithUSD(u, [token |-> a, coin |-> b])
            \/ \E l \in LpAmounts : removeLiquidity(u, l)
    BY <1>4 DEF Liquidity
  <2>2. ASSUME NEW a \in LiquidityAmounts, NEW b \in LiquidityAmounts,
               addLiquidity(u, [token |-> a, coin |-> b])
        PROVE  GoodStep /\ PotKeeps /\ Step
    <3>1. [token |-> a, coin |-> b] \in TwoAmounts  BY InputsNat
    <3>2. Step  BY <2>2 DEF addLiquidity
    <3> QED  BY <2>2, <3>1, <3>2, AddLiquidityGood, Zenon
  <2>3. ASSUME NEW a \in LiquidityAmounts, NEW b \in LiquidityAmounts,
               addLiquidityWithUSD(u, [token |-> a, coin |-> b])
        PROVE  GoodStep /\ Issue
    <3>1. [token |-> a, coin |-> b] \in TwoAmounts  BY InputsNat
    <3>2. Issue  BY <2>3 DEF Issue
    <3> QED  BY <2>3, <3>1, <3>2, AddLiquidityWithUSDGood, Zenon
  <2>4. ASSUME NEW l \in LpAmounts, removeLiquidity(u, l)
        PROVE  GoodStep /\ PotKeeps /\ Step
    <3>1. l \in Nat  BY InputsNat
    <3>2. Step  BY <2>4 DEF removeLiquidity
    <3> QED  BY <2>4, <3>1, <3>2, RemoveLiquidityGood, Zenon
  <2> QED  BY <1>3, <2>1, <2>2, <2>3, <2>4, Zenon
<1>5. CASE Swap
  <2>1. Step
    BY <1>5 DEF Swap, swapExactTokensforTokens, swapTokensforExactTokens, _swap,
                directSwap
  <2> QED  BY <1>3, <1>5, <2>1, SwapGood
<1>6. CASE Gift
  <2>1. PICK u \in Users, a \in GiftAmounts : gift(u, Token(a)) \/ gift(u, Coin(a))
    BY <1>6 DEF Gift
  <2>2. Token(a) \in TwoAmounts /\ Coin(a) \in TwoAmounts  BY InputsNat
  <2>3. Step  BY <2>1 DEF gift
  <2> QED  BY <1>3, <2>1, <2>2, <2>3, GiftGood, Zenon
<1>7. CASE sync
  <2>1. Step  BY <1>7 DEF sync
  <2> QED  BY <1>3, <1>7, <2>1, SyncGood
<1>8. CASE convertIncome
  <2>1. Step  BY <1>8, Zenon DEF convertIncome
  <2> QED  BY <1>3, <1>8, <2>1, ConvertIncomeGood
<1>9. CASE FactoryOwner
  <2>1. UNCHANGED <<listVars, settleResult, incomeVars>>
    BY <1>9 DEF FactoryOwner, setIncomeMaker, setIncomeMakerProportion, coreVars
  <2> QED  BY <1>9, <2>1, FactoryOwnerGood
<1> QED  BY <1>1, <1>2, <1>4, <1>5, <1>6, <1>7, <1>8, <1>9 DEF MarketNext

LEMMA MarketInitGood == MarketInit => MarketInv
<1> SUFFICES ASSUME MarketInit PROVE MarketInv  OBVIOUS
<1>1. CoreTypeOK  BY InitTyped DEF MarketInit
<1>2. lp \in [Holders -> Nat] /\ buyerTokens \in [Users -> Nat]
  BY DEF MarketInit
<1>3. MarketTypeOK
  <2>1. reserve \in [token : Nat, coin : Nat] /\ kLast = 0  BY DEF MarketInit, NoReserve
  <2>2. incomeMakerSet \in BOOLEAN /\ incomeMakerProportion = 40  BY DEF MarketInit
  <2>3. marketSteps \in 0..MaxMarketSteps  BY MarketAssumption DEF MarketInit
  <2> QED  BY <1>1, <1>2, <2>1, <2>2, <2>3 DEF MarketTypeOK
<1>4. ReservesBacked
  <2>1. reserve.token = 0 /\ reserve.coin = 0  BY DEF MarketInit, NoReserve
  <2> QED  BY <1>1, <2>1, BankOfPool DEF ReservesBacked
<1>5. KGrows
  <2>1. Product(reserve) = 0 /\ kLast = 0  BY DEF MarketInit, NoReserve, Product
  <2> QED  BY <2>1 DEF KGrows
<1> QED  BY <1>3, <1>4, <1>5 DEF MarketInv

(***************************************************************************)
(* Theorems                                                                *)
(***************************************************************************)
LEMMA MarketInvariant == MarketSpec => []MarketInv
<1>1. MarketInv /\ [MarketNext]_marketVars => MarketInv'
  BY NextGood DEF GoodStep, MarketInv
<1> QED  BY <1>1, MarketInitGood, PTL DEF MarketSpec

\* No balance of coins, policy tokens or LP tokens falls below zero, and the
\* divisions of the pool and the router are by positive numbers.
THEOREM MarketTypeCorrect == MarketSpec => []MarketTypeOK
<1> QED  BY MarketInvariant, PTL DEF MarketInv

\* The pool owns the reserves it has recorded, whoever calls it or pays into
\* it in whatever order, and whatever the core does meanwhile.
THEOREM PoolOwnsReserves == MarketSpec => []ReservesBacked
<1> QED  BY MarketInvariant, PTL DEF MarketInv

\* Nobody dilutes the liquidity providers: no deposit, withdrawal, swap, gift
\* or conversion lowers the product of the reserves per squared LP token, and
\* the income maker takes no more than it has grown by.
THEOREM LiquidityIsKept == MarketSpec => LiquidityKeepsValue
<1> DEFINE Kept == LET supply == LpSupply
                       later  == LpSupply'
                   IN  supply > 0 =>
                           /\ ~FeeDue => Product(reserve') * supply * supply
                                             >= Product(reserve) * later * later
                           /\ (kLast # 0 /\ later # supply) =>
                                  (Root(Product(reserve')) + 1) * supply
                                      >= Root(kLast) * later
<1>1. MarketInv /\ [MarketNext]_marketVars => Kept
  <2> SUFFICES ASSUME MarketInv, [MarketNext]_marketVars, LpSupply > 0 PROVE Kept
    OBVIOUS
  <2>1. MarketTypeOK' /\ Undiluted  BY NextGood DEF GoodStep
  <2> DEFINE s == LpSupply
             later == LpSupply'
             p == Product(reserve)
             q == Product(reserve')
             rl == Root(kLast)
  <2>2. s \in Nat /\ p \in Nat /\ rl \in Nat
    BY TypesOfMarket, TotalNat, ReserveNat, RootBounds
    DEF MarketInv, PairTypeOK, LpSupply
  <2>3. later \in Nat /\ q \in Nat
    <3> DEFINE M == lp'
               r == reserve'
    <3>1. M \in [Holders -> Nat] /\ r \in TwoAmounts
      BY <2>1 DEF MarketTypeOK, TwoAmounts
    <3> HIDE DEF M, r
    <3>2. Total(M, Holders) \in Nat /\ Product(r) \in Nat
      BY <3>1, TotalNat, ReserveNat
    <3> QED  BY <3>2 DEF M, r, LpSupply
  <2>4. PICK f \in Nat :
            /\ ~FeeDue => f = 0
            /\ kLast # 0 => rl * (s + f) <= Root(p) * s
            /\ p * later * later <= q * (s + f) * (s + f)
    BY <2>1 DEF Undiluted
  <2>5. s > 0  OBVIOUS
  <2> HIDE DEF s, later, p, q, rl
  <2>6. ASSUME ~FeeDue PROVE q * s * s >= p * later * later
    <3>1. f = 0 /\ s + f = s  BY <2>2, <2>4, <2>6
    <3>2. p * later * later <= q * s * s  BY <2>4, <3>1
    <3>3. p * later \in Nat /\ q * s \in Nat  BY <2>2, <2>3, ProductNat
    <3>4. p * later * later \in Nat /\ q * s * s \in Nat
      BY <2>2, <2>3, <3>3, ProductNat
    <3> QED  BY <3>2, <3>4
  <2>7. ASSUME kLast # 0 PROVE (Root(q) + 1) * s >= rl * later
    <3> DEFINE t == s + f
    <3>1. t \in Nat \ {0}  BY <2>2, <2>5
    <3>2. rl * t <= Root(p) * s /\ p * later * later <= q * t * t
      BY <2>4, <2>7
    <3> HIDE DEF t
    <3>3. rl * later <= (Root(q) + 1) * s
      BY <2>2, <2>3, <3>1, <3>2, RootShare
    <3>4. rl * later \in Nat /\ (Root(q) + 1) * s \in Nat
      <4>1. Root(q) \in Nat  BY <2>3, RootBounds, Zenon
      <4>2. Root(q) + 1 \in Nat  BY <4>1
      <4> QED  BY <2>2, <2>3, <4>2, ProductNat
    <3> QED  BY <3>3, <3>4
  <2> QED  BY <2>6, <2>7 DEF s, later, p, q, rl
<1>2. MarketInv /\ [MarketNext]_marketVars => [Kept]_marketVars
  <2> HIDE DEF Kept
  <2> QED  BY <1>1
<1>3. LiquidityKeepsValue <=> [][Kept]_marketVars  BY DEF LiquidityKeepsValue
<1> HIDE DEF Kept
<1> QED  BY <1>2, <1>3, MarketInvariant, PTL DEF MarketSpec

(***************************************************************************)
(* The market leaves the core solvent                                      *)
(***************************************************************************)
LEMMA IssueBooks ==
  ASSUME MarketInv, Issue
  PROVE  /\ UNCHANGED <<listVars, settleResult>>
         /\ whichStablecoin[Traded] = USDC
         /\ \E a \in Nat : Books(Traded, USDC, a, a, a, 0)
<1>1. PICK u \in Users, a, b \in LiquidityAmounts :
          addLiquidityWithUSD(u, [token |-> a, coin |-> b])
  BY DEF Issue
<1> DEFINE offer == [token |-> a, coin |-> b]
<1>2. offer \in TwoAmounts /\ offer.token = a /\ a \in Nat  BY InputsNat
<1>3. addLiquidityWithUSD(u, offer)  BY <1>1
<1>4. UNCHANGED <<listVars, settleResult>>
  BY <1>1 DEF addLiquidityWithUSD, Step
<1> HIDE DEF offer
<1>5. /\ Books(Traded, USDC, offer.token, offer.token, offer.token, 0)
      /\ validPolicyTokenWithStablecoin(Traded, USDC)
  BY <1>2, <1>3, AddLiquidityWithUSDGood, Zenon
<1>6. Books(Traded, USDC, a, a, a, 0)  BY <1>2, <1>5
<1>7. whichStablecoin[Traded] = USDC  BY <1>5 DEF validPolicyTokenWithStablecoin
<1> QED  BY <1>2, <1>4, <1>6, <1>7

LEMMA MarketCoinInv ==
  ASSUME MarketInv, NEW idle \in Idle, CoinInv(idle), [MarketNext]_marketVars
  PROVE  CoinInv(idle)'
<1>1. CoreTypeOK  BY TypesOfMarket DEF MarketInv
<1>2. CASE [CoreNext]_coreVars  BY <1>1, <1>2, NextCoinInv
<1>3. CASE PotKeeps /\ UNCHANGED <<listVars, settleResult, incomeVars>>
  <2>1. TotalsKept /\ UNCHANGED <<whichStablecoin, pools>>
    BY <1>3 DEF PotKeeps, listVars
  <2>2. \A q \in Policies : GotResult(q) => GotResult(q)'  BY <1>3 DEF GotResult
  <2> QED  BY <2>1, <2>2, KeepsCoinInv
<1>4. CASE Issue
  <2>1. PICK a \in Nat : Books(Traded, USDC, a, a, a, 0)  BY <1>4, IssueBooks
  <2>2. /\ Traded \in Policies /\ a \in Int /\ whichStablecoin[Traded] # NoCoin
        /\ UNCHANGED <<whichStablecoin, pools, settleResult>>
    BY <1>4, IssueBooks, PairAssumption, CoinAssumption DEF listVars
  <2>3. a = a \/ GotResult(Traded)  OBVIOUS
  <2> QED  BY <1>1, <2>1, <2>2, <2>3, BooksKeepCoinInv, Zenon
<1> QED  BY <1>2, <1>3, <1>4, NextGood

LEMMA MarketCovers ==
  ASSUME MarketInv, MarketInv', NEW idle \in Idle, CoinInv(idle), PotCovers(idle),
         [MarketNext]_marketVars, [OwnerCareful]_coreVars
  PROVE  PotCovers(idle)'
<1>1. CoreTypeOK /\ CoreTypeOK'  BY DEF MarketInv, MarketTypeOK
<1>2. CASE [CoreNext]_coreVars  BY <1>1, <1>2, NextCovers
<1>3. CASE PotKeeps /\ UNCHANGED <<listVars, settleResult, incomeVars>>
  <2>1. \A c \in Stablecoins, q \in Policies : Debts(idle, c)'[q] = Debts(idle, c)[q]
    BY <1>3 DEF Debts, Due, OwesQuotas, GotResult, PotKeeps, TotalsKept, listVars
  <2>2. \A c \in Stablecoins : /\ stable'[c][Core] = stable[c][Core]
                               /\ PendingIncome(c)' = PendingIncome(c)
    BY <1>3 DEF PotKeeps, incomeVars, PendingIncome
  <2> QED  BY <1>1, <2>1, <2>2, PotUntouched, Zenon
<1>4. CASE Issue
  <2>1. PICK a \in Nat : Books(Traded, USDC, a, a, a, 0)  BY <1>4, IssueBooks
  <2>2. /\ Traded \in Policies /\ USDC \in Stablecoins
        /\ whichStablecoin[Traded] = USDC
        /\ UNCHANGED <<whichStablecoin, settleResult>>
    BY <1>4, IssueBooks, PairAssumption, CoinAssumption DEF listVars
  <2>3. \A q \in Policies : OwesQuotas(q)' <=> OwesQuotas(q)
    BY <2>2 DEF OwesQuotas, GotResult
  <2>4. a \in Int /\ 0 \in Int /\ a = a + 0  OBVIOUS
  <2> QED  BY <1>1, <2>1, <2>2, <2>3, <2>4, PotFollows, Zenon
<1> QED  BY <1>2, <1>3, <1>4, NextGood

LEMMA MarketInits == MarketInit => CoinInv(NoIdle) /\ PotCovers(NoIdle)
  BY InitCoinInv, InitCovers DEF MarketInit

LEMMA MarketCoins == MarketSpec => []CoinInv(NoIdle)
<1>1. MarketInv /\ CoinInv(NoIdle) /\ [MarketNext]_marketVars => CoinInv(NoIdle)'
  BY MarketCoinInv, NoIdleTyped
<1> QED  BY <1>1, MarketInits, MarketInvariant, PTL DEF MarketSpec

\* The same policy tokens that the market passes around are still as many as
\* the quotas, also those that the router issues for its users.
THEOREM QuotasMatchInMarket == MarketSpec => []QuotaMatchesSupply
<1>1. MarketInv /\ CoinInv(NoIdle) => QuotaMatchesSupply
  BY NoIdleMatches DEF MarketInv, MarketTypeOK
<1> QED  BY <1>1, MarketCoins, MarketInvariant, PTL

\* With the market in front, the pot of PolicyCore still holds exactly what it
\* owes: the pool, the router and the income maker take nothing out of it.  The
\* three things it takes of the owner are those of PotIsSolvent.
THEOREM MarketKeepsPotSolvent ==
    MarketSpec /\ [][OwnerCareful]_coreVars => []CorePotSolvent
<1>1. MarketInv /\ MarketInv' /\ CoinInv(NoIdle) /\ PotCovers(NoIdle)
          /\ [MarketNext]_marketVars /\ [OwnerCareful]_coreVars => PotCovers(NoIdle)'
  BY MarketCovers, NoIdleTyped, Zenon
<1>2. MarketInv /\ PotCovers(NoIdle) => CorePotSolvent
  BY CoversIsSolvent DEF MarketInv, MarketTypeOK
<1> QED  BY <1>1, <1>2, MarketInits, MarketInvariant, MarketCoins, PTL DEF MarketSpec

(***************************************************************************)
(* The quotes of the router                                                *)
(***************************************************************************)
\* A quote passes the checks of swap on balances r that are no less than the
\* reserves, as far as the widths of the pool's registers allow.
LEMMA QuoteCanSwap ==
  ASSUME NEW r \in TwoAmounts, reserve \in TwoAmounts,
         reserve.token > 0, reserve.coin > 0,
         reserve.token <= r.token, reserve.coin <= r.coin,
         NEW b \in BOOLEAN, NEW a \in Nat \ {0}, NEW out \in Nat \ {0},
         out * (ReserveIn(b) * FEE_BASE + a * (FEE_BASE - FeeRate))
             <= (a * (FEE_BASE - FeeRate)) * ReserveOut(b),
         Product(reserve) * FEE_BASE * FEE_BASE <= MAX_UINT112,
         FitsReserve(Less(Plus(r, Paid(b, a)), Given(b, out)))
  PROVE  CanSwap(Plus(r, Paid(b, a)), reserve, Given(b, out))
<1> DEFINE gt == r.token - reserve.token
           gc == r.coin - reserve.coin
           t  == reserve.token
           c  == reserve.coin
           bal   == Plus(r, Paid(b, a))
           given == Given(b, out)
           left  == Less(bal, given)
           paidToken == IF bal.token > reserve.token
                        THEN bal.token - reserve.token ELSE 0
           paidCoin  == IF bal.coin > reserve.coin
                        THEN bal.coin - reserve.coin ELSE 0
<1>1. /\ t \in Nat \ {0} /\ c \in Nat \ {0} /\ gt \in Nat /\ gc \in Nat
      /\ r.token = t + gt /\ r.coin = c + gc
  BY ReserveNat
<1>2. FEE_BASE \in Nat /\ FeeRate \in Nat  BY PairAssumption
<1>3. Product(reserve) = t * c  BY DEF Product
<1>4. SUFFICES
        /\ given.token > 0 \/ given.coin > 0
        /\ given.token < reserve.token /\ given.coin < reserve.coin
        /\ given.token <= bal.token /\ given.coin <= bal.coin
        /\ paidToken > 0 \/ paidCoin > 0
        /\ left.token * FEE_BASE >= paidToken * FeeRate
        /\ left.coin * FEE_BASE >= paidCoin * FeeRate
        /\ (left.token * FEE_BASE - paidToken * FeeRate)
               * (left.coin * FEE_BASE - paidCoin * FeeRate)
               >= Product(reserve) * FEE_BASE * FEE_BASE
  BY DEF CanSwap
<1>5. CASE b
  <2>1. /\ bal = [token |-> t + gt, coin |-> c + gc + a]
        /\ given = [token |-> out, coin |-> 0]
    BY <1>1, <1>5 DEF Paid, Given, Coin, Token, Plus
  <2>2. ReserveIn(b) = c /\ ReserveOut(b) = t
    BY <1>5 DEF ReserveIn, ReserveOut
  <2>3. out * (c * FEE_BASE + a * (FEE_BASE - FeeRate))
            <= (a * (FEE_BASE - FeeRate)) * t
    BY <2>2, Zenon
  <2>4. /\ bal.token = t + gt /\ bal.coin = c + gc + a
        /\ given.token = out /\ given.coin = 0
        /\ left.token = t + gt - out /\ left.coin = c + gc + a
    BY <1>1, <2>1 DEF Less
  <2>5. paidToken = gt /\ paidCoin = gc + a
    <3> HIDE DEF bal
    <3> QED  BY <1>1, <2>4
  <2> HIDE DEF gt, gc, t, c, bal, given, left, paidToken, paidCoin
  <2>6. /\ out < t
        /\ (c + gc + a) * FEE_BASE >= (gc + a) * FeeRate
        /\ (t + gt - out) * FEE_BASE >= gt * FeeRate
        /\ ((c + gc + a) * FEE_BASE - (gc + a) * FeeRate)
               * ((t + gt - out) * FEE_BASE - gt * FeeRate)
               >= ((c * t) * FEE_BASE) * FEE_BASE
    BY <1>1, <2>3, QuotePasses
  <2>7. (left.token * FEE_BASE - paidToken * FeeRate)
            * (left.coin * FEE_BASE - paidCoin * FeeRate)
            >= Product(reserve) * FEE_BASE * FEE_BASE
    <3> DEFINE x == (c + gc + a) * FEE_BASE - (gc + a) * FeeRate
               y == (t + gt - out) * FEE_BASE - gt * FeeRate
    <3>1. x \in Int /\ y \in Int  BY <1>1, <1>2
    <3>2. x * y >= ((c * t) * FEE_BASE) * FEE_BASE  BY <2>6
    <3> HIDE DEF x, y
    <3>3. x * y = y * x /\ c * t = t * c  BY <1>1, <3>1
    <3>4. y * x >= ((t * c) * FEE_BASE) * FEE_BASE  BY <3>2, <3>3
    <3> QED  BY <1>3, <2>4, <2>5, <3>4 DEF x, y
  <2>8. /\ left.token * FEE_BASE >= paidToken * FeeRate
        /\ left.coin * FEE_BASE >= paidCoin * FeeRate
    BY <2>4, <2>5, <2>6
  <2>9. /\ given.token > 0 /\ given.coin <= bal.coin
        /\ given.token < reserve.token /\ given.coin < reserve.coin
        /\ given.token <= bal.token /\ paidCoin > 0
    BY <1>1, <2>4, <2>5, <2>6 DEF t, c
  <2> QED  BY <2>7, <2>8, <2>9
<1>6. CASE ~b
  <2>1. /\ bal = [token |-> t + gt + a, coin |-> c + gc]
        /\ given = [token |-> 0, coin |-> out]
    BY <1>1, <1>6 DEF Paid, Given, Coin, Token, Plus
  <2>2. ReserveIn(b) = t /\ ReserveOut(b) = c
    BY <1>6 DEF ReserveIn, ReserveOut
  <2>3. out * (t * FEE_BASE + a * (FEE_BASE - FeeRate))
            <= (a * (FEE_BASE - FeeRate)) * c
    BY <2>2, Zenon
  <2>4. /\ bal.token = t + gt + a /\ bal.coin = c + gc
        /\ given.token = 0 /\ given.coin = out
        /\ left.token = t + gt + a /\ left.coin = c + gc - out
    BY <1>1, <2>1 DEF Less
  <2>5. paidToken = gt + a /\ paidCoin = gc
    <3> HIDE DEF bal
    <3> QED  BY <1>1, <2>4
  <2> HIDE DEF gt, gc, t, c, bal, given, left, paidToken, paidCoin
  <2>6. /\ out < c
        /\ (t + gt + a) * FEE_BASE >= (gt + a) * FeeRate
        /\ (c + gc - out) * FEE_BASE >= gc * FeeRate
        /\ ((t + gt + a) * FEE_BASE - (gt + a) * FeeRate)
               * ((c + gc - out) * FEE_BASE - gc * FeeRate)
               >= ((t * c) * FEE_BASE) * FEE_BASE
    BY <1>1, <2>3, QuotePasses
  <2>7. (left.token * FEE_BASE - paidToken * FeeRate)
            * (left.coin * FEE_BASE - paidCoin * FeeRate)
            >= Product(reserve) * FEE_BASE * FEE_BASE
    BY <1>3, <2>4, <2>5, <2>6
  <2>8. /\ left.token * FEE_BASE >= paidToken * FeeRate
        /\ left.coin * FEE_BASE >= paidCoin * FeeRate
    BY <2>4, <2>5, <2>6
  <2>9. /\ given.coin > 0 /\ given.token <= bal.token
        /\ given.token < reserve.token /\ given.coin < reserve.coin
        /\ given.coin <= bal.coin /\ paidToken > 0
    BY <1>1, <2>4, <2>5, <2>6 DEF t, c
  <2> QED  BY <2>7, <2>8, <2>9
<1> QED  BY <1>5, <1>6

\* The registers of the pool are wide enough for the swaps that the router
\* quotes: the product it compares with does not overflow, and the balances
\* after the swap fit the reserves (the requirement of _update).
QuotesFit ==
    /\ Product(reserve) * FEE_BASE * FEE_BASE <= MAX_UINT112
    /\ \A a \in SwapAmounts, b \in BOOLEAN :
           /\ FitsReserve(Less(Plus(Balances, Paid(b, a)),
                               Given(b, AmountOut(b, a))))
           /\ CanAskFor(b, a) =>
                  FitsReserve(Less(Plus(Balances, Paid(b, AmountIn(b, a))),
                                   Given(b, a)))

\* A swap that the router computes from the reserves passes the checks of the
\* pool in every state the market can reach, gifts to the pool included; only
\* the width of the registers can stand in its way.
THEOREM QuotesAreAccepted ==
    MarketSpec => [](QuotesFit => RouterQuoteAccepted)
<1>1. ASSUME MarketInv, QuotesFit PROVE RouterQuoteAccepted
  <2> SUFFICES ASSUME reserve.token > 0, reserve.coin > 0,
                      NEW a \in SwapAmounts, NEW b \in BOOLEAN
               PROVE  /\ AmountOut(b, a) > 0 =>
                             CanSwap(Plus(Balances, Paid(b, a)), reserve,
                                     Given(b, AmountOut(b, a)))
                      /\ CanAskFor(b, a) =>
                             CanSwap(Plus(Balances, Paid(b, AmountIn(b, a))),
                                     reserve, Given(b, a))
    BY DEF RouterQuoteAccepted
  <2>1. /\ Balances \in TwoAmounts /\ reserve \in TwoAmounts
        /\ reserve.token <= Balances.token /\ reserve.coin <= Balances.coin
    BY <1>1, TypesOfMarket DEF MarketInv, ReservesBacked, PairTypeOK
  <2>2. a \in Nat \ {0}  BY MarketAssumption
  <2>3. ReserveIn(b) \in Nat \ {0} /\ ReserveOut(b) \in Nat \ {0}
    BY <2>1, ReserveNat DEF ReserveIn, ReserveOut
  <2>4. Product(reserve) * FEE_BASE * FEE_BASE <= MAX_UINT112
    BY <1>1 DEF QuotesFit
  <2>5. ASSUME AmountOut(b, a) > 0
        PROVE  CanSwap(Plus(Balances, Paid(b, a)), reserve,
                       Given(b, AmountOut(b, a)))
    <3> DEFINE out == AmountOut(b, a)
    <3>1. /\ out \in Nat
          /\ out * (ReserveIn(b) * FEE_BASE + a * (FEE_BASE - FeeRate))
                 <= (a * (FEE_BASE - FeeRate)) * ReserveOut(b)
      BY <2>2, <2>3, OutQuote DEF AmountOut
    <3>2. FitsReserve(Less(Plus(Balances, Paid(b, a)), Given(b, out)))
      BY <1>1 DEF QuotesFit
    <3>3. out \in Nat \ {0}  BY <2>5, <3>1
    <3> HIDE DEF out
    <3>4. CanSwap(Plus(Balances, Paid(b, a)), reserve, Given(b, out))
      BY <2>1, <2>2, <2>4, <3>1, <3>2, <3>3, QuoteCanSwap
    <3> QED  BY <3>4 DEF out
  <2>6. ASSUME CanAskFor(b, a)
        PROVE  CanSwap(Plus(Balances, Paid(b, AmountIn(b, a))), reserve,
                       Given(b, a))
    <3> DEFINE in == AmountIn(b, a)
    <3>1. /\ in \in Nat \ {0}
          /\ a * (ReserveIn(b) * FEE_BASE + in * (FEE_BASE - FeeRate))
                 <= (in * (FEE_BASE - FeeRate)) * ReserveOut(b)
      BY <2>2, <2>3, <2>6, InQuote DEF AmountIn, CanAskFor
    <3>2. FitsReserve(Less(Plus(Balances, Paid(b, in)), Given(b, a)))
      BY <1>1, <2>6 DEF QuotesFit
    <3> HIDE DEF in
    <3>4. CanSwap(Plus(Balances, Paid(b, in)), reserve, Given(b, a))
      BY <2>1, <2>2, <2>4, <3>1, <3>2, QuoteCanSwap
    <3> QED  BY <3>4 DEF in
  <2> QED  BY <2>5, <2>6
<1> QED  BY <1>1, MarketInvariant, PTL
====
