--------------------------- MODULE InsurancePool ---------------------------
(***************************************************************************)
(* The reserve of the flight delay product (InsurancePool.sol): liquidity  *)
(* providers stake USD against LP tokens, PolicyFlow locks part of the     *)
(* stake for every policy it sells and releases it when the policy is      *)
(* settled.  The module defines one operator per external function.  The   *)
(* functions that only PolicyFlow may call are composed into its handlers  *)
(* in module FlightDelay, which also gives the specification.              *)
(*                                                                         *)
(* Solidity 0.8 arithmetic is checked: a subtraction below zero reverts    *)
(* the whole transaction, so every subtraction of the code appears here as *)
(* a guard of the operator.  Sums stay far below 2^256 and are not capped. *)
(*                                                                         *)
(* An operator named Operator_Variant is Operator with a seeded bug; it is *)
(* no part of the model and serves to test the properties.                 *)
(***************************************************************************)
EXTENDS Integers

CONSTANTS
    Users,          \* externally owned accounts: providers and policy buyers
    Pool,           \* address of this contract in the USD token
    Lottery,        \* address of the lottery contract
    EmergencyPool,  \* address of the emergency pool contract
    SCALE,          \* one in fixed-point arithmetic (1e18 in the code)
    InitialUSD,     \* USD every user owns at deployment
    Genesis         \* block timestamp of the deployment

Accounts == Users \cup {Pool, Lottery, EmergencyPool}

ASSUME AddressAssumption ==
    /\ {Pool, Lottery, EmergencyPool} \cap Users = {}
    /\ Pool # Lottery
    /\ Pool # EmergencyPool

ASSUME ScaleAssumption == SCALE \in Nat \ {0}

ASSUME GenesisAssumption == InitialUSD \in Nat /\ Genesis \in Nat

VARIABLES
    now,                  \* block.timestamp
    usd,                  \* USDToken.balanceOf
    lpBalance,            \* balanceOf of the LP token (the pool is an ERC20)
    lpSupply,             \* totalSupply of the LP token
    depositTime,          \* userInfo[user].depositTime
    LPValue,              \* USD per LP token, in fixed point
    totalStakingBalance,
    lockedBalance,
    lockedRatio,
    availableCapacity,
    activePremiums,       \* premiums of the policies that are still open
    collateralFactor,
    rewardDistribution,   \* percentages of a premium
    frozenTime

accountVars == <<usd, lpBalance, lpSupply, depositTime>>
reserveVars == <<totalStakingBalance, lockedBalance, availableCapacity,
                 activePremiums>>
rateVars    == <<LPValue, lockedRatio>>
factorVars  == <<collateralFactor, rewardDistribution, frozenTime>>
poolVars    == <<accountVars, reserveVars, rateVars, factorVars>>

-----------------------------------------------------------------------------
(* Fixed-point arithmetic and transfers *)

\* PRBMath.mulDivFixedPoint rounds half up, PRBMath.mulDiv truncates.
Mul(x, y) == (x * y + SCALE \div 2) \div SCALE
Div(x, y) == (x * SCALE) \div y

Transfer(from, to, amount) ==
    [usd EXCEPT ![from] = @ - amount, ![to] = @ + amount]

Smaller(x, y) == IF x <= y THEN x ELSE y

-----------------------------------------------------------------------------
(* Views *)

FreshLPValue_Stale(balance, premiums) == LPValue

\* _updateLPValue leaves the value alone when no LP token exists.
\* `balance` is the pool's USD at the time of the call.
FreshLPValue(balance, premiums) ==
    IF lpSupply = 0 THEN LPValue ELSE Div(balance - premiums, lpSupply)

CanRefresh(balance, premiums) == lpSupply = 0 \/ balance >= premiums

LockedRatioOf(locked, staking) ==
    IF locked = 0 THEN 0 ELSE Div(locked, staking)

CanRate(locked, staking) == locked = 0 \/ staking > 0

checkCapacity(payoff) == availableCapacity >= payoff

Unlocked == totalStakingBalance - lockedBalance

-----------------------------------------------------------------------------
(* Premium distribution *)

EmergencyShare(premium) == Mul(premium, Div(rewardDistribution.emergency, 100))

LotteryShare_TakesAll(premium) == premium - EmergencyShare(premium)

LotteryShare(premium) == Mul(premium, Div(rewardDistribution.lottery, 100))

RemainingPremium(premium) ==
    premium - EmergencyShare(premium) - LotteryShare(premium)

CanDistribute(premium) ==
    /\ usd[Pool] >= EmergencyShare(premium) + LotteryShare(premium)
    /\ RemainingPremium(premium) >= 0

Distributed_NoLottery(premium) ==
    [usd EXCEPT ![Pool] = @ - EmergencyShare(premium),
                ![EmergencyPool] = @ + EmergencyShare(premium)]

\* The ledger after _distributePremium.
Distributed(premium) ==
    [usd EXCEPT ![Pool] = @ - EmergencyShare(premium) - LotteryShare(premium),
                ![EmergencyPool] = @ + EmergencyShare(premium),
                ![Lottery] = @ + LotteryShare(premium)]

-----------------------------------------------------------------------------
(* Liquidity providers *)

\* _deposit, entered with the LP value that the caller has just refreshed.
_deposit(user, amount, value) ==
    LET staking == totalStakingBalance + amount
        shares  == Div(amount, value)
    IN  /\ value > 0
        /\ LPValue' = value
        /\ totalStakingBalance' = staking
        /\ availableCapacity' = availableCapacity
                                + Mul(amount, collateralFactor)
        /\ lockedRatio' = LockedRatioOf(lockedBalance, staking)
        /\ usd' = Transfer(user, Pool, amount)
        /\ lpBalance' = [lpBalance EXCEPT ![user] = @ + shares]
        /\ lpSupply' = lpSupply + shares
        /\ depositTime' = [depositTime EXCEPT ![user] = now]
        /\ UNCHANGED <<lockedBalance, activePremiums, factorVars>>

stake(user, amount) ==
    /\ amount > 0
    /\ usd[user] >= amount
    /\ CanRefresh(usd[Pool], activePremiums)
    /\ _deposit(user, amount, FreshLPValue(usd[Pool], activePremiums))

\* _withdraw, entered with the LP value that the caller has just refreshed.
_withdraw(user, amount, value) ==
    LET capacity == Mul(amount, collateralFactor)
        staking  == totalStakingBalance - amount
        shares   == Div(amount, value)
    IN  /\ staking >= 0
        /\ availableCapacity >= capacity
        /\ CanRate(lockedBalance, staking)
        /\ usd[Pool] >= amount
        /\ value > 0
        /\ lpBalance[user] >= shares /\ lpSupply >= shares
        /\ LPValue' = value
        /\ totalStakingBalance' = staking
        /\ availableCapacity' = availableCapacity - capacity
        /\ lockedRatio' = LockedRatioOf(lockedBalance, staking)
        /\ usd' = Transfer(Pool, user, amount)
        /\ lpBalance' = [lpBalance EXCEPT ![user] = @ - shares]
        /\ lpSupply' = lpSupply - shares
        /\ UNCHANGED <<depositTime, lockedBalance, activePremiums, factorVars>>

afterFrozenTime(user) == now >= depositTime[user] + frozenTime

unstake(user, amount) ==
    /\ afterFrozenTime(user)
    /\ Unlocked > 0
    /\ CanRefresh(usd[Pool], activePremiums)
    /\ LET value == FreshLPValue(usd[Pool], activePremiums)
       IN  /\ amount > 0
           /\ amount <= Mul(lpBalance[user], value)
           /\ _withdraw(user, Smaller(amount, Unlocked), value)

unstakeMax(user) ==
    /\ afterFrozenTime(user)
    /\ Unlocked > 0
    /\ CanRefresh(usd[Pool], activePremiums)
    /\ LET value == FreshLPValue(usd[Pool], activePremiums)
       IN  _withdraw(user, Smaller(Mul(lpBalance[user], value), Unlocked),
                     value)

-----------------------------------------------------------------------------
(* Calls from PolicyFlow *)

updateWhenBuy(premium, payoff, user) ==
    /\ availableCapacity >= payoff
    /\ CanRate(lockedBalance + payoff, totalStakingBalance)
    /\ usd[user] >= premium
    /\ lockedBalance' = lockedBalance + payoff
    /\ activePremiums' = activePremiums + premium
    /\ availableCapacity' = availableCapacity - payoff
    /\ lockedRatio' = LockedRatioOf(lockedBalance + payoff,
                                    totalStakingBalance)
    /\ usd' = Transfer(user, Pool, premium)
    /\ UNCHANGED <<totalStakingBalance, LPValue, lpBalance, lpSupply,
                   depositTime, factorVars>>

ReleasedCapacity_NoPremium(premium, payoff, realPayoff) == payoff - realPayoff

\* What a settlement gives back to availableCapacity.
ReleasedCapacity(premium, payoff, realPayoff) ==
    payoff - realPayoff + RemainingPremium(premium)

CanExpire_Unchecked(premium, payoff) == CanDistribute(premium)

\* The checks of updateWhenExpire, apart from its effect: PolicyFlow's
\* settlement succeeds exactly when they hold.
CanExpire(premium, payoff) ==
    /\ CanDistribute(premium)
    /\ activePremiums >= premium
    /\ lockedBalance >= payoff
    /\ CanRefresh(Distributed(premium)[Pool], activePremiums - premium)

updateWhenExpire(premium, payoff) ==
    /\ CanExpire(premium, payoff)
    /\ activePremiums' = activePremiums - premium
    /\ lockedBalance' = lockedBalance - payoff
    /\ availableCapacity' = availableCapacity
                            + ReleasedCapacity(premium, payoff, 0)
    /\ totalStakingBalance' = totalStakingBalance + RemainingPremium(premium)
    /\ usd' = Distributed(premium)
    /\ LPValue' = FreshLPValue(Distributed(premium)[Pool],
                               activePremiums - premium)
    /\ UNCHANGED <<lockedRatio, lpBalance, lpSupply, depositTime, factorVars>>

CanPayClaim(premium, payoff, realPayoff) ==
    /\ CanDistribute(premium)
    /\ lockedBalance >= payoff
    /\ totalStakingBalance >= realPayoff
    /\ payoff >= realPayoff
    /\ activePremiums >= premium
    /\ Distributed(premium)[Pool] >= realPayoff
    /\ CanRefresh(Distributed(premium)[Pool] - realPayoff,
                  activePremiums - premium)

payClaim(premium, payoff, realPayoff, user) ==
    /\ CanPayClaim(premium, payoff, realPayoff)
    /\ lockedBalance' = lockedBalance - payoff
    /\ totalStakingBalance' = totalStakingBalance - realPayoff
                              + RemainingPremium(premium)
    /\ availableCapacity' = availableCapacity
                            + ReleasedCapacity(premium, payoff, realPayoff)
    /\ activePremiums' = activePremiums - premium
    /\ usd' = [Distributed(premium) EXCEPT ![Pool] = @ - realPayoff,
                                           ![user] = @ + realPayoff]
    /\ LPValue' = FreshLPValue(Distributed(premium)[Pool] - realPayoff,
                               activePremiums - premium)
    /\ UNCHANGED <<lockedRatio, lpBalance, lpSupply, depositTime, factorVars>>

-----------------------------------------------------------------------------
(* Owner functions *)

setFrozenTime(time) ==
    /\ frozenTime' = time
    /\ UNCHANGED <<accountVars, reserveVars, rateVars, collateralFactor,
                   rewardDistribution>>

setRewardDistribution(share) ==
    /\ share.lp + share.lottery + share.emergency = 100
    /\ rewardDistribution' = share
    /\ UNCHANGED <<accountVars, reserveVars, rateVars, collateralFactor,
                   frozenTime>>

\* The factor is given in percent.
setCollateralFactor(factor) ==
    /\ factor > 0
    /\ collateralFactor' = Div(factor, 100)
    /\ UNCHANGED <<accountVars, reserveVars, rateVars, rewardDistribution,
                   frozenTime>>

-----------------------------------------------------------------------------
(* Deployment *)

PoolInit ==
    /\ now = Genesis
    /\ usd = [a \in Accounts |-> IF a \in Users THEN InitialUSD ELSE 0]
    /\ lpBalance = [u \in Users |-> 0]
    /\ lpSupply = 0
    /\ depositTime = [u \in Users |-> 0]
    /\ LPValue = SCALE
    /\ lockedRatio = SCALE
    /\ totalStakingBalance = 0
    /\ lockedBalance = 0
    /\ availableCapacity = 0
    /\ activePremiums = 0
    /\ collateralFactor = SCALE
    /\ rewardDistribution = [lp |-> 50, lottery |-> 40, emergency |-> 10]
    /\ frozenTime = 7
=============================================================================
