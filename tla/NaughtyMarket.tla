--------------------------- MODULE NaughtyMarket ---------------------------
(***************************************************************************)
(* The market for a policy token: users reach the pool (NaughtyPair)       *)
(* through the router or directly, the income maker turns its share of the *)
(* fees into stablecoins, and PolicyCore (NaughtyCore) issues, redeems and *)
(* settles the policy tokens that are traded.                              *)
(*                                                                         *)
(* A user's limits on slippage and on the time of the transaction only     *)
(* narrow what is done, and are left out.                                  *)
(***************************************************************************)
EXTENDS NaughtyPair

CONSTANTS
    LiquidityAmounts,   \* amounts offered as liquidity
    LpAmounts,          \* LP tokens removed at a time
    SwapAmounts,        \* amounts given or asked for in a swap
    GiftAmounts,        \* amounts sent to the pool by a plain transfer
    Proportions,        \* values of incomeMakerProportion
    MaxMarketSteps      \* bound on the number of calls to the pool

ASSUME MarketAssumption ==
    /\ LiquidityAmounts \subseteq Nat \ {0} /\ LpAmounts \subseteq Nat \ {0}
    /\ SwapAmounts \subseteq Nat \ {0} /\ GiftAmounts \subseteq Nat \ {0}
    /\ Proportions \subseteq Nat /\ MaxMarketSteps \in Nat

VARIABLES
    buyerTokens,    \* BuyerToken.balanceOf, in units of the stablecoin
    marketSteps     \* number of calls so far

marketVars == <<coreVars, pairVars, buyerTokens, marketSteps>>

Balances == [token |-> TokenBalance, coin |-> CoinBalance]

Step ==
    /\ marketSteps < MaxMarketSteps
    /\ marketSteps' = marketSteps + 1
    /\ PairDeployed
    /\ UNCHANGED <<now, setupVars, listVars, settleResult, incomeVars,
                   incomeMakerSet, incomeMakerProportion>>

Keeps == UNCHANGED <<quotaVars, buyerTokens>>

\* The ledgers after an exchange of policy tokens and coins with the pool.
PayIn(user, in, tokenLedger, coinLedger) ==
    /\ tokens' = [tokens EXCEPT ![Traded] = Move(tokenLedger, user, Pair, in.token)]
    /\ stable' = [stable EXCEPT ![USDC] = Move(coinLedger, user, Pair, in.coin)]

Trade(user, in, out, to) ==
    /\ tokens' = [tokens EXCEPT ![Traded] =
                     Move(Move(@, user, Pair, in.token), Pair, to, out.token)]
    /\ stable' = [stable EXCEPT ![USDC] =
                     Move(Move(@, user, Pair, in.coin), Pair, to, out.coin)]

Plus(r, q) == [token |-> r.token + q.token, coin |-> r.coin + q.coin]

-----------------------------------------------------------------------------
(* Liquidity *)

_quote(amount, reserveA, reserveB) == (amount * reserveB) \div reserveA

\* The amounts that _addLiquidity takes: those offered when the pool is empty,
\* otherwise as much as fits the ratio of the reserves.
Accepted(offer) ==
    LET coin  == _quote(offer.token, reserve.token, reserve.coin)
        token == _quote(offer.coin, reserve.coin, reserve.token)
    IN  IF reserve = NoReserve THEN offer
        ELSE IF coin <= offer.coin THEN [offer EXCEPT !.coin = coin]
        ELSE [offer EXCEPT !.token = token]

CanQuote(offer) ==
    \/ reserve = NoReserve
    \/ /\ reserve.token > 0 /\ reserve.coin > 0
       /\ Accepted(offer).token <= offer.token

addLiquidity(user, offer) ==
    LET paid == Accepted(offer)
    IN  /\ Step
        /\ USDC \in supportedStablecoin
        /\ CanQuote(offer)
        /\ tokens[Traded][user] >= paid.token /\ stable[USDC][user] >= paid.coin
        /\ PayIn(user, paid, tokens[Traded], stable[USDC])
        /\ mint(Plus(Balances, paid), user)
        /\ Keeps

addLiquidityWithUSD_Unpaid(user, offer) ==
    LET paid == Accepted(offer)
    IN  /\ Step
        /\ USDC \in supportedStablecoin /\ "router" \in wired
        /\ CanDeposit(Traded, USDC, offer.token, user)
        /\ RecordDeposit(Traded, offer.token, user)
        /\ CanQuote(offer)
        /\ stable[USDC][user] >= paid.coin
        /\ PayIn(user, paid,
                 [tokens[Traded] EXCEPT ![user] = @ + offer.token],
                 stable[USDC])
        /\ mint(Plus(Balances, paid), user)
        /\ UNCHANGED buyerTokens

\* The policy tokens offered are issued first (PolicyCore.delegateDeposit).
addLiquidityWithUSD(user, offer) ==
    LET paid == Accepted(offer)
    IN  /\ Step
        /\ USDC \in supportedStablecoin /\ "router" \in wired
        /\ CanDeposit(Traded, USDC, offer.token, user)
        /\ RecordDeposit(Traded, offer.token, user)
        /\ CanQuote(offer)
        /\ stable[USDC][user] >= offer.token + paid.coin
        /\ PayIn(user, paid,
                 [tokens[Traded] EXCEPT ![user] = @ + offer.token],
                 Move(stable[USDC], user, Core, offer.token))
        /\ mint(Plus(Balances, paid), user)
        /\ UNCHANGED buyerTokens

removeLiquidity_Unchecked(user, liquidity) ==
    LET out == Burned(Balances, liquidity)
    IN  /\ Step
        /\ CanBurn(Balances, liquidity)
        /\ Trade(user, NoReserve, out, user)
        /\ lp' = LpBurned(user, liquidity)
        /\ _update(Less(Balances, out))
        /\ RecordK(Less(Balances, out))
        /\ Keeps

removeLiquidity_StaleBalances(user, liquidity) ==
    LET out == Burned(Balances, liquidity)
    IN  /\ Step
        /\ lp[user] >= liquidity
        /\ CanBurn(Balances, liquidity)
        /\ Trade(user, NoReserve, out, user)
        /\ lp' = LpBurned(user, liquidity)
        /\ _update(Balances)
        /\ RecordK(Balances)
        /\ Keeps

\* The pool pays its balances out, not its reserves: gifts included.
removeLiquidity(user, liquidity) ==
    LET out == Burned(Balances, liquidity)
    IN  /\ Step
        /\ lp[user] >= liquidity
        /\ CanBurn(Balances, liquidity)
        /\ Trade(user, NoReserve, out, user)
        /\ lp' = LpBurned(user, liquidity)
        /\ _update(Less(Balances, out))
        /\ RecordK(Less(Balances, out))
        /\ Keeps

-----------------------------------------------------------------------------
(* Swaps *)

poolOpen == now <= policyTokenInfo[Traded].deadline

_getAmountOut(amountIn, reserveIn, reserveOut) ==
    LET withFee == amountIn * (FEE_BASE - FeeRate)
    IN  (withFee * reserveOut) \div (reserveIn * FEE_BASE + withFee)

_getAmountIn_NoRounding(amountOut, reserveIn, reserveOut) ==
    (reserveIn * amountOut * FEE_BASE)
        \div ((reserveOut - amountOut) * (FEE_BASE - FeeRate))

_getAmountIn(amountOut, reserveIn, reserveOut) ==
    (reserveIn * amountOut * FEE_BASE)
        \div ((reserveOut - amountOut) * (FEE_BASE - FeeRate)) + 1

Token(amount) == [token |-> amount, coin |-> 0]
Coin(amount)  == [token |-> 0, coin |-> amount]

\* A purchase pays coins for policy tokens, a sale the other way round.
Paid(isBuying, amount)  == IF isBuying THEN Coin(amount) ELSE Token(amount)
Given(isBuying, amount) == Paid(~isBuying, amount)
ReserveIn(isBuying)     == IF isBuying THEN reserve.coin ELSE reserve.token
ReserveOut(isBuying)    == ReserveIn(~isBuying)

AmountOut(isBuying, amountIn) ==
    _getAmountOut(amountIn, ReserveIn(isBuying), ReserveOut(isBuying))

AmountIn(isBuying, amountOut) ==
    _getAmountIn(amountOut, ReserveIn(isBuying), ReserveOut(isBuying))

CanAskFor(isBuying, amountOut) ==
    amountOut < ReserveOut(isBuying) /\ FeeRate < FEE_BASE

\* The user transfers to the pool, gets buyer tokens for a purchase, and the
\* pool checks the swap.
_swap(user, isBuying, amountIn, amountOut) ==
    LET in  == Paid(isBuying, amountIn)
        out == Given(isBuying, amountOut)
    IN  /\ Step
        /\ poolOpen
        /\ tokens[Traded][user] >= in.token /\ stable[USDC][user] >= in.coin
        /\ CanSwap(Plus(Balances, in), reserve, out)
        /\ Trade(user, in, out, user)
        /\ _update(Less(Plus(Balances, in), out))
        /\ buyerTokens' = [buyerTokens EXCEPT ![user] = @ + in.coin]
        /\ UNCHANGED <<lp, kLast, quotaVars>>

swapExactTokensforTokens(user, isBuying, amount) ==
    /\ reserve.token > 0 /\ reserve.coin > 0
    /\ _swap(user, isBuying, amount, AmountOut(isBuying, amount))

swapTokensforExactTokens(user, isBuying, amount) ==
    /\ reserve.token > 0 /\ reserve.coin > 0
    /\ CanAskFor(isBuying, amount)
    /\ _swap(user, isBuying, AmountIn(isBuying, amount), amount)

\* A contract of the user pays the pool and calls swap itself, asking for
\* whatever it likes.
directSwap(user, in, out) ==
    /\ Step
    /\ poolOpen
    /\ tokens[Traded][user] >= in.token /\ stable[USDC][user] >= in.coin
    /\ CanSwap(Plus(Balances, in), reserve, out)
    /\ Trade(user, in, out, user)
    /\ _update(Less(Plus(Balances, in), out))
    /\ UNCHANGED <<lp, kLast>> /\ Keeps

\* A plain transfer to the pool, which does not notice it.
gift(user, in) ==
    /\ Step
    /\ tokens[Traded][user] >= in.token /\ stable[USDC][user] >= in.coin
    /\ PayIn(user, in, tokens[Traded], stable[USDC])
    /\ UNCHANGED <<lp, reserve, kLast>> /\ Keeps

sync ==
    /\ Step
    /\ _update(Balances)
    /\ UNCHANGED <<ledgerVars, lp, kLast>> /\ Keeps

-----------------------------------------------------------------------------
(* Income *)

\* Burns all LP tokens of the income maker, sells the policy tokens it gets
\* to the pool, also after the deadline, and sends the coins to the vault.
convertIncome ==
    LET liquidity == lp[IncomeMaker]
        out    == Burned(Balances, liquidity)
        middle == Less(Balances, out)
        bought == _getAmountOut(out.token, middle.token, middle.coin)
        after  == Less(Plus(middle, Token(out.token)), Coin(bought))
        coins  == stable[USDC][IncomeMaker] + out.coin + bought
    IN  /\ Step
        /\ incomeMakerSet
        /\ CanBurn(Balances, liquidity)
        /\ Product(middle) <= MAX_UINT112
        /\ CanSwap(Plus(middle, Token(out.token)), middle, Coin(bought))
        /\ lp' = LpBurned(IncomeMaker, liquidity)
        /\ _update(after)
        /\ kLast' = Product(middle)
        /\ stable' = [stable EXCEPT ![USDC][Pair] = after.coin,
                                    ![USDC][IncomeMaker] = 0,
                                    ![USDC][SharingVault] = @ + coins]
        /\ UNCHANGED tokens /\ Keeps

setIncomeMaker ==
    /\ ~incomeMakerSet
    /\ incomeMakerSet' = TRUE
    /\ UNCHANGED <<coreVars, lp, reserve, kLast, incomeMakerProportion,
                   buyerTokens, marketSteps>>

setIncomeMakerProportion ==
    /\ incomeMakerProportion' \in Proportions
    /\ UNCHANGED <<coreVars, lp, reserve, kLast, incomeMakerSet, buyerTokens,
                   marketSteps>>

-----------------------------------------------------------------------------
(* Specification *)

MarketInit ==
    /\ CoreInit
    /\ lp = [a \in Holders |-> 0]
    /\ reserve = NoReserve
    /\ kLast = 0
    /\ incomeMakerSet = FALSE
    /\ incomeMakerProportion = 40
    /\ buyerTokens = [u \in Users |-> 0]
    /\ marketSteps = 0

Liquidity ==
    \E u \in Users :
        \/ \E a, b \in LiquidityAmounts :
               \/ addLiquidity(u, [token |-> a, coin |-> b])
               \/ addLiquidityWithUSD(u, [token |-> a, coin |-> b])
        \/ \E l \in LpAmounts : removeLiquidity(u, l)

Swap ==
    \E u \in Users, a \in SwapAmounts, isBuying \in BOOLEAN :
        \/ swapExactTokensforTokens(u, isBuying, a)
        \/ swapTokensforExactTokens(u, isBuying, a)
        \/ \E b \in SwapAmounts :
               directSwap(u, Paid(isBuying, a), Given(isBuying, b))

Gift ==
    \E u \in Users, a \in GiftAmounts : gift(u, Token(a)) \/ gift(u, Coin(a))

FactoryOwner == setIncomeMaker \/ setIncomeMakerProportion

MarketNext ==
    \/ CoreNext /\ UNCHANGED <<pairVars, buyerTokens, marketSteps>>
    \/ Liquidity
    \/ Swap
    \/ Gift
    \/ sync
    \/ convertIncome
    \/ FactoryOwner

MarketSpec == MarketInit /\ [][MarketNext]_marketVars

-----------------------------------------------------------------------------
(* Properties *)

\* Types of the pool's variables.
MarketTypeOK ==
    /\ CoreTypeOK
    /\ lp \in [Holders -> Nat]
    /\ reserve \in [token : Nat, coin : Nat]
    /\ kLast \in Nat
    /\ incomeMakerSet \in BOOLEAN /\ incomeMakerProportion \in Nat
    /\ buyerTokens \in [Users -> Nat]
    /\ marketSteps \in 0..MaxMarketSteps

\* The pool owns at least the reserves it has recorded, whoever calls it in
\* whatever order: what it pays out, it has (NaughtyPair._update).
ReservesBacked ==
    /\ reserve.token <= TokenBalance
    /\ reserve.coin <= CoinBalance

\* Nobody dilutes the liquidity providers.  As long as no fee is due, the
\* product of the reserves per squared LP token never falls: not by swaps, not
\* by deposits or withdrawals of others.  A fee of the income maker takes no
\* more than the growth since the last deposit or withdrawal, up to the
\* rounding of the square root (NaughtyPair.mint, burn, swap and _mintFee).
LiquidityKeepsValue ==
    [][LET supply == LpSupply
           later  == LpSupply'
       IN  supply > 0 =>
               /\ ~FeeDue => Product(reserve') * supply * supply
                                 >= Product(reserve) * later * later
               /\ (kLast # 0 /\ later # supply) =>
                      (Root(Product(reserve')) + 1) * supply
                          >= Root(kLast) * later
      ]_marketVars

\* A swap that the router has computed from the reserves passes the check that
\* the pool makes with the balances, also after gifts to the pool.
RouterQuoteAccepted ==
    PairDeployed /\ reserve.token > 0 /\ reserve.coin > 0 =>
        \A a \in SwapAmounts, isBuying \in BOOLEAN :
            /\ AmountOut(isBuying, a) > 0 =>
                   CanSwap(Plus(Balances, Paid(isBuying, a)), reserve,
                           Given(isBuying, AmountOut(isBuying, a)))
            /\ CanAskFor(isBuying, a) =>
                   CanSwap(Plus(Balances, Paid(isBuying, AmountIn(isBuying, a))),
                           reserve, Given(isBuying, a))
=============================================================================
