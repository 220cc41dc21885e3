---------------------------- MODULE NaughtyPair ----------------------------
(***************************************************************************)
(* The constant product pool of one policy token and the stablecoin        *)
(* (NaughtyPair.sol, deployed by NaughtyFactory).  The pool compares its   *)
(* balances with the reserves it has recorded to find out what was paid    *)
(* in, so callers transfer first and call afterwards, within the same      *)
(* transaction.  The operators therefore take the balances at the time of  *)
(* the call as arguments; module NaughtyMarket composes them with the      *)
(* transfers of the callers.                                               *)
(*                                                                         *)
(* Amounts and the fee rate are small: FEE_BASE stands for the 1000 of the *)
(* code, MAX_UINT112 for the width in which the code multiplies reserves.  *)
(***************************************************************************)
EXTENDS NaughtyCore

CONSTANTS
    Traded,             \* the policy whose token is traded against USDC
    Pair,               \* address of the pool
    Factory,            \* address of NaughtyFactory
    IncomeMaker,        \* address of the income maker
    MINIMUM_LIQUIDITY,
    FEE_BASE,
    FeeRate,            \* fee rate the pool is deployed with
    MAX_UINT112

ASSUME PairAssumption ==
    /\ Traded \in Policies
    /\ {Pair, Factory, IncomeMaker} \subseteq OtherContracts
    /\ Pair # Factory /\ Pair # IncomeMaker /\ Factory # IncomeMaker
    /\ MINIMUM_LIQUIDITY \in Nat /\ MAX_UINT112 \in Nat
    /\ FEE_BASE \in Nat \ {0} /\ FeeRate \in 0..FEE_BASE

VARIABLES
    lp,                     \* balanceOf of the pool's LP token
    reserve,                \* reserve0 (policy token) and reserve1 (coin)
    kLast,
    incomeMakerSet,         \* NaughtyFactory.incomeMaker is not zero
    incomeMakerProportion

pairVars == <<lp, reserve, kLast, incomeMakerSet, incomeMakerProportion>>

NoReserve == [token |-> 0, coin |-> 0]

PairDeployed == <<Traded, USDC>> \in pools

\* The balances of the pool.
TokenBalance == tokens[Traded][Pair]
CoinBalance  == stable[USDC][Pair]

LpSupply == Total(lp, Holders)

Product(r) == r.token * r.coin

\* The largest number whose square is at most n (Math.sqrt).
Root(n) == CHOOSE r \in 0..n : r * r <= n /\ (r + 1) * (r + 1) > n

Lesser(x, y) == IF x < y THEN x ELSE y

-----------------------------------------------------------------------------
(* The share of the income maker *)

FeeDue == incomeMakerSet /\ kLast # 0 /\ Root(Product(reserve)) > Root(kLast)

CanMintFee ==
    /\ (incomeMakerSet /\ kLast # 0) => Product(reserve) <= MAX_UINT112
    /\ FeeDue => incomeMakerProportion \in 1..100

\* LP tokens that _mintFee gives to the income maker.
FeeLiquidity ==
    LET rootK     == Root(Product(reserve))
        rootKLast == Root(kLast)
    IN  IF FeeDue
        THEN (LpSupply * (rootK - rootKLast) * 10)
                 \div (rootK * (1000 \div incomeMakerProportion - 10)
                           + rootKLast * 10)
        ELSE 0

FeeMinted == [lp EXCEPT ![IncomeMaker] = @ + FeeLiquidity]

-----------------------------------------------------------------------------
(* Functions of the pool *)

FitsReserve(r) == r.token <= MAX_UINT112 /\ r.coin <= MAX_UINT112

_update(r) ==
    /\ FitsReserve(r)
    /\ reserve' = r

RecordK(r) ==
    /\ incomeMakerSet => Product(r) <= MAX_UINT112
    /\ kLast' = IF incomeMakerSet THEN Product(r) ELSE 0

\* Liquidity for what the balances exceed the reserves by.
NewLiquidity(r) ==
    LET supply == LpSupply + FeeLiquidity
        paid   == [token |-> r.token - reserve.token,
                   coin  |-> r.coin - reserve.coin]
    IN  IF supply = 0 THEN Root(Product(paid)) - MINIMUM_LIQUIDITY
        ELSE Lesser((paid.token * supply) \div reserve.token,
                    (paid.coin * supply) \div reserve.coin)

\* mint: r are the balances after the deposit.
mint(r, to) ==
    /\ r.token >= reserve.token /\ r.coin >= reserve.coin
    /\ CanMintFee
    /\ LpSupply > 0 => reserve.token > 0 /\ reserve.coin > 0
    /\ NewLiquidity(r) > 0
    /\ lp' = IF LpSupply = 0
             THEN [lp EXCEPT ![Factory] = @ + MINIMUM_LIQUIDITY,
                             ![to] = @ + NewLiquidity(r)]
             ELSE [FeeMinted EXCEPT ![to] = @ + NewLiquidity(r)]
    /\ _update(r)
    /\ RecordK(r)

\* What burning `liquidity` pays out of the balances r.
Burned(r, liquidity) ==
    LET supply == LpSupply + FeeLiquidity
    IN  [token |-> (liquidity * r.token) \div supply,
         coin  |-> (liquidity * r.coin) \div supply]

Less(r, q) == [token |-> r.token - q.token, coin |-> r.coin - q.coin]

\* The checks of burn; the LP tokens of `from` have been sent to the pool.
CanBurn(r, liquidity) ==
    /\ CanMintFee
    /\ LpSupply + FeeLiquidity > 0
    /\ Burned(r, liquidity).token > 0 /\ Burned(r, liquidity).coin > 0
    /\ FitsReserve(Less(r, Burned(r, liquidity)))

\* LP balances after `from` has sent liquidity and the pool has burnt it.
\* The fee is minted after the transfer, so that an income maker who burns
\* keeps the fee of this very call.
LpBurned(from, liquidity) == [FeeMinted EXCEPT ![from] = @ - liquidity]

CanSwap_Unchecked(r, r0, out) ==
    /\ out.token > 0 \/ out.coin > 0
    /\ out.token < r0.token /\ out.coin < r0.coin
    /\ out.token <= r.token /\ out.coin <= r.coin

\* The checks of swap.  r are the balances before paying out, r0 the reserves.
CanSwap(r, r0, out) ==
    LET left == Less(r, out)
        paidToken == IF r.token > r0.token THEN r.token - r0.token ELSE 0
        paidCoin  == IF r.coin > r0.coin THEN r.coin - r0.coin ELSE 0
    IN  /\ out.token > 0 \/ out.coin > 0
        /\ out.token < r0.token /\ out.coin < r0.coin
        /\ out.token <= r.token /\ out.coin <= r.coin
        /\ paidToken > 0 \/ paidCoin > 0
        /\ left.token * FEE_BASE >= paidToken * FeeRate
        /\ left.coin * FEE_BASE >= paidCoin * FeeRate
        /\ Product(r0) * FEE_BASE * FEE_BASE <= MAX_UINT112
        /\ (left.token * FEE_BASE - paidToken * FeeRate)
               * (left.coin * FEE_BASE - paidCoin * FeeRate)
               >= Product(r0) * FEE_BASE * FEE_BASE
        /\ FitsReserve(left)
=============================================================================
