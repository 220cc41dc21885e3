------------------------- MODULE FlightDelayProofs -------------------------
(***************************************************************************)
(* Theorems about FlightDelay for all values of its constants.  First the  *)
(* contracts by themselves: types, the books of the pool, policies and     *)
(* their tokens.  Then what relates them: the balances that InsurancePool  *)
(* keeps up to date are those of the policies that PolicyFlow has open,    *)
(* which makes every open policy payable and the product an implementation *)
(* of the cover pool.                                                      *)
(***************************************************************************)
EXTENDS FlightDelay, SumTheorems

-----------------------------------------------------------------------------
(* Arithmetic *)

\* Dividing natural numbers gives a natural number.
LEMMA QuotientNat ==
    ASSUME NEW x \in Nat, NEW d \in Nat \ {0}
    PROVE  x \div d \in Nat
  OBVIOUS

\* Fixed-point products of natural numbers are natural numbers.
LEMMA MulNat ==
    ASSUME NEW x \in Nat, NEW y \in Nat
    PROVE  Mul(x, y) \in Nat
<1>1. SCALE \in Nat \ {0} BY ScaleAssumption
<1>2. SCALE \div 2 \in Nat BY <1>1, QuotientNat
<1>3. x * y \in Nat BY ProductNat
<1>4. x * y + SCALE \div 2 \in Nat BY <1>2, <1>3
<1>5. QED BY <1>1, <1>4, QuotientNat DEF Mul

\* Fixed-point quotients of natural numbers are natural numbers.
LEMMA DivNat ==
    ASSUME NEW x \in Nat, NEW y \in Nat \ {0}
    PROVE  Div(x, y) \in Nat
<1>1. x * SCALE \in Nat BY ScaleAssumption, ProductNat
<1>2. QED BY <1>1, QuotientNat DEF Div

\* A remainder below the divisor does not change the quotient.
LEMMA QuotientOfMultiple ==
    ASSUME NEW x \in Nat, NEW d \in Nat, NEW r \in Nat, r < d
    PROVE  (x * d + r) \div d = x
<1> DEFINE q == (x * d + r) \div d
<1>1. x * d + r \in Nat BY ProductNat
<1>2. /\ q \in Int
      /\ q * d <= x * d + r
      /\ x * d + r < (q + 1) * d
  BY <1>1
<1> HIDE DEF q
<1>3. q < x + 1
  <2>1. SUFFICES ASSUME q >= x + 1 PROVE FALSE BY <1>2
  <2>2. q * d >= (x + 1) * d BY <1>2, <2>1
  <2>3. QED BY <1>2, <2>2
<1>4. q + 1 > x
  <2>1. SUFFICES ASSUME q + 1 <= x PROVE FALSE BY <1>2
  <2>2. (q + 1) * d <= x * d BY <1>2, <2>1
  <2>3. QED BY <1>1, <1>2, <2>2
<1>5. QED BY <1>2, <1>3, <1>4 DEF q

\* Multiplying by one in fixed point changes nothing.
LEMMA MulByOne ==
    ASSUME NEW x \in Nat
    PROVE  Mul(x, SCALE) = x
<1>1. SCALE \in Nat \ {0} BY ScaleAssumption
<1>2. SCALE \div 2 \in Nat /\ SCALE \div 2 < SCALE BY <1>1
<1>3. QED BY <1>1, <1>2, QuotientOfMultiple DEF Mul

-----------------------------------------------------------------------------
(* The insurance pool *)

\* While the factor is one, the staking balance is available or locked.
Split ==
    /\ collateralFactor = SCALE
    /\ availableCapacity + lockedBalance = totalStakingBalance

\* What every operation of the pool preserves.
PoolStep ==
    /\ PoolTypeOK'
    /\ PoolSolvent => PoolSolvent'
    /\ Split => Split'

\* The contracts' addresses are accounts, and the pool is nobody else's.
LEMMA AccountFacts ==
    /\ Users \subseteq Accounts
    /\ Pool \in Accounts /\ Lottery \in Accounts /\ EmergencyPool \in Accounts
    /\ Pool \notin Users /\ Pool # Lottery /\ Pool # EmergencyPool
    /\ Lottery \notin Users /\ EmergencyPool \notin Users
  BY AddressAssumption DEF Accounts

\* A refreshed LP value is a natural number.
LEMMA FreshNat ==
    ASSUME PoolTypeOK, NEW b \in Nat, NEW p \in Nat, CanRefresh(b, p)
    PROVE  FreshLPValue(b, p) \in Nat
<1>1. CASE lpSupply = 0 BY <1>1 DEF FreshLPValue, PoolTypeOK
<1>2. CASE lpSupply # 0
  <2>1. b - p \in Nat BY <1>2 DEF CanRefresh
  <2>2. lpSupply \in Nat \ {0} BY <1>2 DEF PoolTypeOK
  <2>3. QED BY <1>2, <2>1, <2>2, DivNat DEF FreshLPValue
<1>3. QED BY <1>1, <1>2

\* The locked ratio is a natural number.
LEMMA RatioNat ==
    ASSUME NEW locked \in Nat, NEW staking \in Nat, CanRate(locked, staking)
    PROVE  LockedRatioOf(locked, staking) \in Nat
  BY DivNat DEF CanRate, LockedRatioOf

\* A transfer that is covered keeps balances natural numbers.
LEMMA TransferType ==
    ASSUME PoolTypeOK, NEW from \in Accounts, NEW to \in Accounts,
           from # to, NEW amount \in Nat, usd[from] >= amount
    PROVE  /\ Transfer(from, to, amount) \in [Accounts -> Nat]
           /\ Transfer(from, to, amount)[from] = usd[from] - amount
           /\ Transfer(from, to, amount)[to] = usd[to] + amount
  BY DEF PoolTypeOK, Transfer

\* _deposit keeps types, books and the split.
LEMMA DepositStep ==
    ASSUME PoolTypeOK, NEW user \in Users, NEW amount \in Nat,
           NEW value \in Nat, amount > 0, usd[user] >= amount,
           _deposit(user, amount, value), now' = now
    PROVE  PoolStep
<1>1. /\ Mul(amount, collateralFactor) \in Nat
      /\ Div(amount, value) \in Nat
  BY MulNat, DivNat DEF PoolTypeOK, _deposit
<1>2. LockedRatioOf(lockedBalance, totalStakingBalance + amount) \in Nat
  <2>1. /\ lockedBalance \in Nat /\ totalStakingBalance + amount \in Nat
        /\ CanRate(lockedBalance, totalStakingBalance + amount)
    BY DEF CanRate, PoolTypeOK
  <2>2. QED BY <2>1, RatioNat
<1>3. PoolTypeOK'
  BY <1>1, <1>2, AccountFacts, TransferType DEF PoolTypeOK, _deposit, factorVars
<1>4. PoolSolvent => PoolSolvent'
  BY AccountFacts, TransferType DEF PoolTypeOK, PoolSolvent, _deposit
<1>5. Split => Split'
  BY MulByOne DEF PoolTypeOK, Split, _deposit, factorVars
<1>6. QED BY <1>3, <1>4, <1>5 DEF PoolStep

\* _withdraw keeps types, books and the split.
LEMMA WithdrawStep ==
    ASSUME PoolTypeOK, NEW user \in Users, NEW amount \in Nat,
           NEW value \in Nat, _withdraw(user, amount, value), now' = now
    PROVE  PoolStep
<1>1. /\ Mul(amount, collateralFactor) \in Nat
      /\ Div(amount, value) \in Nat
  BY MulNat, DivNat DEF PoolTypeOK, _withdraw
<1>2. LockedRatioOf(lockedBalance, totalStakingBalance - amount) \in Nat
  BY RatioNat DEF CanRate, PoolTypeOK, _withdraw
<1>3. usd' \in [Accounts -> Nat] /\ usd'[Pool] = usd[Pool] - amount
  <2>1. usd' = Transfer(Pool, user, amount) /\ usd[Pool] >= amount
    BY DEF _withdraw
  <2>2. Pool \in Accounts /\ user \in Accounts /\ Pool # user
    BY AccountFacts
  <2>3. QED BY <2>1, <2>2, TransferType
<1>4. PoolTypeOK'
  <2>1. /\ totalStakingBalance - amount \in Nat
        /\ availableCapacity - Mul(amount, collateralFactor) \in Nat
    BY <1>1 DEF PoolTypeOK, _withdraw
  <2>2. lpBalance' \in [Users -> Nat]
    BY <1>1 DEF PoolTypeOK, _withdraw
  <2>3. lpSupply' \in Nat
    BY <1>1 DEF PoolTypeOK, _withdraw
  <2>4. QED BY <1>2, <1>3, <2>1, <2>2, <2>3 DEF PoolTypeOK, _withdraw, factorVars
<1>5. PoolSolvent => PoolSolvent'
  BY <1>3 DEF PoolTypeOK, PoolSolvent, _withdraw
<1>6. Split => Split'
  BY MulByOne DEF PoolTypeOK, Split, _withdraw, factorVars
<1>7. QED BY <1>4, <1>5, <1>6 DEF PoolStep

\* The value that a provider's operation refreshes is a natural number, and
\* so is the provider's share.
LEMMA RefreshedNat ==
    ASSUME PoolTypeOK, CanRefresh(usd[Pool], activePremiums), NEW user \in Users
    PROVE  /\ FreshLPValue(usd[Pool], activePremiums) \in Nat
           /\ Mul(lpBalance[user], FreshLPValue(usd[Pool], activePremiums))
                  \in Nat
  BY AccountFacts, FreshNat, MulNat DEF PoolTypeOK

\* stake, unstake and unstakeMax keep types, books and the split.
LEMMA ProviderStep ==
    ASSUME PoolTypeOK, NEW user \in Users, NEW amount \in Nat, now' = now,
           stake(user, amount) \/ unstake(user, amount) \/ unstakeMax(user)
    PROVE  PoolStep
<1> DEFINE value == FreshLPValue(usd[Pool], activePremiums)
<1>1. CASE stake(user, amount)
  <2>1. value \in Nat BY <1>1, RefreshedNat DEF stake
  <2>2. QED BY <1>1, <2>1, DepositStep DEF stake
<1>2. CASE unstake(user, amount)
  <2>1. value \in Nat BY <1>2, RefreshedNat DEF unstake
  <2>2. Smaller(amount, Unlocked) \in Nat
    BY <1>2 DEF unstake, Smaller, Unlocked, PoolTypeOK
  <2>3. QED BY <1>2, <2>1, <2>2, WithdrawStep DEF unstake
<1>3. CASE unstakeMax(user)
  <2>1. value \in Nat /\ Mul(lpBalance[user], value) \in Nat
    BY <1>3, RefreshedNat DEF unstakeMax
  <2>2. Smaller(Mul(lpBalance[user], value), Unlocked) \in Nat
    BY <1>3, <2>1 DEF unstakeMax, Smaller, Unlocked, PoolTypeOK
  <2>3. QED BY <1>3, <2>1, <2>2, WithdrawStep DEF unstakeMax
<1>4. QED BY <1>1, <1>2, <1>3

\* updateWhenBuy keeps types, books and the split.
LEMMA BuyStep ==
    ASSUME PoolTypeOK, NEW user \in Users, NEW premium \in Nat,
           NEW payoff \in Nat, updateWhenBuy(premium, payoff, user), now' = now
    PROVE  PoolStep
<1>1. LockedRatioOf(lockedBalance + payoff, totalStakingBalance) \in Nat
  BY RatioNat DEF PoolTypeOK, updateWhenBuy
<1>2. usd' \in [Accounts -> Nat] /\ usd'[Pool] = usd[Pool] + premium
  <2>1. usd' = Transfer(user, Pool, premium) /\ usd[user] >= premium
    BY DEF updateWhenBuy
  <2>2. Pool \in Accounts /\ user \in Accounts /\ Pool # user
    BY AccountFacts
  <2>3. QED BY <2>1, <2>2, TransferType
<1>3. PoolTypeOK'
  BY <1>1, <1>2 DEF PoolTypeOK, updateWhenBuy, factorVars
<1>4. PoolSolvent => PoolSolvent'
  BY <1>2 DEF PoolTypeOK, PoolSolvent, updateWhenBuy
<1>5. Split => Split'
  BY DEF PoolTypeOK, Split, updateWhenBuy, factorVars
<1>6. QED BY <1>3, <1>4, <1>5 DEF PoolStep

\* The shares of lottery and emergency pool leave the pool, the rest stays.
LEMMA DistributionFacts ==
    ASSUME PoolTypeOK, NEW premium \in Nat, CanDistribute(premium)
    PROVE  /\ Distributed(premium) \in [Accounts -> Nat]
           /\ Distributed(premium)[Pool]
                  = usd[Pool] - premium + RemainingPremium(premium)
           /\ RemainingPremium(premium) \in Nat
<1>1. /\ rewardDistribution.emergency \in Nat
      /\ rewardDistribution.lottery \in Nat
  BY DEF PoolTypeOK, RewardShares
<1>2. /\ Div(rewardDistribution.emergency, 100) \in Nat
      /\ Div(rewardDistribution.lottery, 100) \in Nat
  BY <1>1, DivNat
<1>3. EmergencyShare(premium) \in Nat /\ LotteryShare(premium) \in Nat
  BY <1>2, MulNat DEF EmergencyShare, LotteryShare
<1>4. RemainingPremium(premium) \in Nat
  BY <1>3 DEF RemainingPremium, CanDistribute
<1>5. Distributed(premium)[Pool]
          = usd[Pool] - EmergencyShare(premium) - LotteryShare(premium)
  BY AccountFacts DEF PoolTypeOK, Distributed
<1>6. Distributed(premium) \in [Accounts -> Nat]
  BY <1>3, AccountFacts DEF PoolTypeOK, Distributed, CanDistribute
<1>7. usd[Pool] \in Nat BY AccountFacts DEF PoolTypeOK
<1>8. QED BY <1>3, <1>4, <1>5, <1>6, <1>7 DEF RemainingPremium

\* updateWhenExpire keeps types, books and the split.
LEMMA ExpireStep ==
    ASSUME PoolTypeOK, NEW premium \in Nat, NEW payoff \in Nat,
           updateWhenExpire(premium, payoff), now' = now
    PROVE  PoolStep
<1>1. CanExpire(premium, payoff) BY DEF updateWhenExpire
<1>2. /\ Distributed(premium) \in [Accounts -> Nat]
      /\ Distributed(premium)[Pool]
             = usd[Pool] - premium + RemainingPremium(premium)
      /\ RemainingPremium(premium) \in Nat
  BY <1>1, DistributionFacts DEF CanExpire
<1>3. activePremiums - premium \in Nat BY <1>1 DEF CanExpire, PoolTypeOK
<1>4. LPValue' \in Nat
  BY <1>1, <1>2, <1>3, AccountFacts, FreshNat DEF CanExpire, updateWhenExpire
<1>5. usd[Pool] \in Nat BY AccountFacts DEF PoolTypeOK
<1>6. PoolTypeOK'
  BY <1>1, <1>2, <1>3, <1>4
  DEF PoolTypeOK, updateWhenExpire, CanExpire, ReleasedCapacity, factorVars
<1>7. PoolSolvent => PoolSolvent'
  BY <1>2, <1>5 DEF PoolTypeOK, PoolSolvent, updateWhenExpire
<1>8. Split => Split'
  BY <1>2 DEF PoolTypeOK, Split, updateWhenExpire, ReleasedCapacity, factorVars
<1>9. QED BY <1>6, <1>7, <1>8 DEF PoolStep

\* payClaim keeps types, books and the split.
LEMMA ClaimStep ==
    ASSUME PoolTypeOK, NEW premium \in Nat, NEW payoff \in Nat,
           NEW realPayoff \in Nat, NEW user \in Users,
           payClaim(premium, payoff, realPayoff, user), now' = now
    PROVE  PoolStep
<1>1. CanPayClaim(premium, payoff, realPayoff) BY DEF payClaim
<1>2. /\ Distributed(premium) \in [Accounts -> Nat]
      /\ Distributed(premium)[Pool]
             = usd[Pool] - premium + RemainingPremium(premium)
      /\ RemainingPremium(premium) \in Nat
  BY <1>1, DistributionFacts DEF CanPayClaim
<1>3. /\ activePremiums - premium \in Nat
      /\ Distributed(premium)[Pool] - realPayoff \in Nat
      /\ ReleasedCapacity(premium, payoff, realPayoff) \in Nat
  BY <1>1, <1>2, AccountFacts DEF CanPayClaim, PoolTypeOK, ReleasedCapacity
<1>4. LPValue' \in Nat
  BY <1>1, <1>3, FreshNat DEF CanPayClaim, payClaim
<1>5. usd[Pool] \in Nat BY AccountFacts DEF PoolTypeOK
<1>6. /\ usd' \in [Accounts -> Nat]
      /\ usd'[Pool] = Distributed(premium)[Pool] - realPayoff
  BY <1>2, <1>3, AccountFacts DEF payClaim
<1>7. PoolTypeOK'
  BY <1>1, <1>2, <1>3, <1>4, <1>6
  DEF PoolTypeOK, payClaim, CanPayClaim, factorVars
<1>8. PoolSolvent => PoolSolvent'
  BY <1>2, <1>5, <1>6 DEF PoolTypeOK, PoolSolvent, payClaim
<1>9. Split => Split'
  BY <1>2 DEF PoolTypeOK, Split, payClaim, ReleasedCapacity, factorVars
<1>10. QED BY <1>7, <1>8, <1>9 DEF PoolStep

\* The owner's changes of the pool's parameters keep types and books.
LEMMA PoolOwnerStep ==
    ASSUME PoolTypeOK, now' = now, OwnerOfPool
    PROVE  PoolTypeOK' /\ (PoolSolvent => PoolSolvent')
<1>1. CASE \E time \in FrozenTimes : setFrozenTime(time)
  BY <1>1, OwnerAssumption
  DEF setFrozenTime, PoolTypeOK, PoolSolvent, accountVars, reserveVars, rateVars
<1>2. CASE \E share \in RewardDistributions : setRewardDistribution(share)
  BY <1>2, OwnerAssumption
  DEF setRewardDistribution, PoolTypeOK, PoolSolvent, accountVars, reserveVars,
      rateVars
<1>3. CASE \E factor \in CollateralFactors : setCollateralFactor(factor)
  <2>1. PICK factor \in CollateralFactors : setCollateralFactor(factor) BY <1>3
  <2>2. Div(factor, 100) \in Nat BY OwnerAssumption, DivNat
  <2>3. QED
    BY <2>1, <2>2
    DEF setCollateralFactor, PoolTypeOK, PoolSolvent, accountVars, reserveVars,
        rateVars
<1>4. QED BY <1>1, <1>2, <1>3 DEF OwnerOfPool

-----------------------------------------------------------------------------
(* Type correctness *)

\* Requests are about policies that were issued, and an issued policy has a
\* user as its buyer: without this the type of a claim's receiver is unknown.
IssuedOK ==
    /\ \A r \in pending : requestList[r] \in Issued
    /\ \A p \in Issued : policyList[p].buyerAddress \in Users

TypeInv == TypeOK /\ IssuedOK

\* The types hold after deployment.
LEMMA InitType == Init => TypeInv
<1> SUFFICES ASSUME Init PROVE TypeInv OBVIOUS
<1>1. PoolTypeOK
  BY GenesisAssumption, ScaleAssumption
  DEF Init, PoolInit, PoolTypeOK, RewardShares
<1>2. FlowTypeOK
  <2>1. EmptyPolicy \in PolicyInfo
    BY DEF EmptyPolicy, PolicyInfo, Statuses
  <2>2. 180 * UNIT \in Nat BY UnitAssumption
  <2>3. MaxPolicies \in Nat /\ MaxRequests \in Nat /\ InitialLink \in Nat
    BY BoundAssumption
  <2>4. QED BY <2>1, <2>2, <2>3 DEF Init, FlowTypeOK
<1>3. IssuedOK BY DEF Init, IssuedOK, Issued
<1>4. QED BY <1>1, <1>2, <1>3 DEF TypeInv, TypeOK

\* A purchase keeps types, books and the split.
LEMMA BuyerStep ==
    ASSUME TypeInv, Buyer
    PROVE  TypeInv' /\ PoolStep
<1>1. PICK u \in Buyers, q \in Quotes : newApplication(u, q) BY DEF Buyer
<1>2. /\ u \in Users
      /\ q.premium \in Nat /\ q.landing \in Nat
  BY UserAssumption, InputAssumption
<1>3. PoolStep
  BY <1>1, <1>2, BuyStep DEF newApplication, TypeInv, TypeOK, FlowTypeOK
<1>4. totalPolicies + 1 \in PolicyIds /\ totalPolicies \in Nat
  BY <1>1, BoundAssumption DEF newApplication, TypeInv, TypeOK, FlowTypeOK, PolicyIds
<1>5. NewPolicy(u, q) \in PolicyInfo
  BY <1>2 DEF NewPolicy, PolicyInfo, Statuses, TypeInv, TypeOK, FlowTypeOK
<1>6. toNormal(q.premium) \in Nat
  BY <1>2, UnitAssumption, QuotientNat DEF toNormal
<1>7. policyList' \in [PolicyIds -> PolicyInfo]
  BY <1>1, <1>4, <1>5 DEF newApplication, TypeInv, TypeOK, FlowTypeOK
<1>8. /\ userPolicyList' \in [Users -> SUBSET PolicyIds]
      /\ tokenOwner' \in [PolicyIds -> Users \cup {NoUser}]
      /\ buyerTokens' \in [Users -> Nat]
  <2>1. userPolicyList' \in [Users -> SUBSET PolicyIds]
    BY <1>1, <1>4 DEF newApplication, TypeInv, TypeOK, FlowTypeOK
  <2>2. tokenOwner' \in [PolicyIds -> Users \cup {NoUser}]
    BY <1>1, <1>2
    DEF newApplication, mintPolicyToken, TypeInv, TypeOK, FlowTypeOK
  <2>3. buyerTokens' \in [Users -> Nat]
    BY <1>1, <1>2, <1>6 DEF newApplication, TypeInv, TypeOK, FlowTypeOK
  <2>4. QED BY <2>1, <2>2, <2>3
<1>9. FlowTypeOK'
  BY <1>1, <1>4, <1>7, <1>8
  DEF newApplication, mintPolicyToken, TypeInv, TypeOK, FlowTypeOK, paramVars,
      oracleVars, ghostVars, PolicyIds
<1>10. IssuedOK'
  BY <1>1, <1>2, <1>4
  DEF newApplication, TypeInv, TypeOK, FlowTypeOK, IssuedOK, Issued, NewPolicy,
      oracleVars, PolicyIds
<1>11. QED BY <1>3, <1>9, <1>10 DEF TypeInv, TypeOK, PoolStep

\* Sending an oracle request about an issued policy keeps the flow's types.
LEMMA RequestStep ==
    ASSUME TypeInv, NEW policyId \in Issued, newOracleRequest(policyId),
           forcedTimes' \in [PolicyIds -> Nat]
    PROVE  TypeInv'
<1>1. policyId \in PolicyIds /\ Issued \subseteq PolicyIds
  BY BoundAssumption DEF TypeInv, TypeOK, FlowTypeOK, Issued, PolicyIds
<1>2. lastRequest + 1 \in RequestIds /\ lastRequest \in Nat
  BY BoundAssumption
  DEF newOracleRequest, TypeInv, TypeOK, FlowTypeOK, RequestIds
<1>3. PoolTypeOK' BY DEF newOracleRequest, TypeInv, TypeOK, PoolTypeOK, poolVars,
                         accountVars, reserveVars, rateVars, factorVars
<1>4. RequestedPolicy(policyId) \in PolicyInfo
  <2>1. policyList[policyId] \in PolicyInfo
    BY <1>1 DEF TypeInv, TypeOK, FlowTypeOK
  <2>2. QED BY <2>1 DEF RequestedPolicy, PolicyInfo
<1>5. policyList' \in [PolicyIds -> PolicyInfo]
  BY <1>1, <1>4 DEF newOracleRequest, TypeInv, TypeOK, FlowTypeOK
<1>6. requestList' \in [RequestIds -> 0..MaxPolicies]
  BY <1>1, <1>2 DEF newOracleRequest, TypeInv, TypeOK, FlowTypeOK, PolicyIds
<1>7. pending' \subseteq 1..lastRequest' /\ lastRequest' \in 0..MaxRequests
  BY <1>2 DEF newOracleRequest, TypeInv, TypeOK, FlowTypeOK, RequestIds
<1>8. link' \in Nat
  BY DEF newOracleRequest, TypeInv, TypeOK, FlowTypeOK
<1>9. FlowTypeOK'
  BY <1>5, <1>6, <1>7, <1>8
  DEF newOracleRequest, TypeInv, TypeOK, FlowTypeOK, paramVars, tokenVars
<1>10. IssuedOK'
  <2>1. Issued' = Issued BY DEF newOracleRequest, Issued
  <2>2. \A r \in pending' : requestList'[r] \in Issued
    BY <1>2, BoundAssumption
    DEF newOracleRequest, TypeInv, TypeOK, FlowTypeOK, IssuedOK, RequestIds
  <2>3. \A p \in Issued : policyList'[p].buyerAddress \in Users
    BY <1>1
    DEF newOracleRequest, RequestedPolicy, TypeInv, TypeOK, FlowTypeOK, IssuedOK,
        PolicyInfo
  <2>4. QED BY <2>1, <2>2, <2>3 DEF IssuedOK
<1>11. QED BY <1>3, <1>9, <1>10 DEF TypeInv, TypeOK

\* Claim requests and forced requests keep types, books and the split.
LEMMA ClaimRequestStep ==
    ASSUME TypeInv, Claim \/ ForceUpdate
    PROVE  /\ TypeInv'
           /\ PoolSolvent => PoolSolvent'
           /\ UNCHANGED <<poolVars, ownerTouched>>
<1>1. PICK p \in PolicyIds : newClaimRequest(p) \/ forceClaimRequest(p)
  <2>1. CASE Claim BY <2>1 DEF Claim
  <2>2. CASE ForceUpdate BY <2>2 DEF ForceUpdate
  <2>3. QED BY <2>1, <2>2
<1>2. p \in Issued /\ newOracleRequest(p)
  BY <1>1 DEF newClaimRequest, forceClaimRequest
<1>3. forcedTimes' \in [PolicyIds -> Nat]
  BY <1>1
  DEF newClaimRequest, forceClaimRequest, TypeInv, TypeOK, FlowTypeOK
<1>4. TypeInv' BY <1>2, <1>3, RequestStep
<1>5. UNCHANGED <<poolVars, ownerTouched>> BY <1>2 DEF newOracleRequest
<1>6. QED
  BY <1>4, <1>5
  DEF PoolSolvent, poolVars, accountVars, reserveVars

\* Payoffs are natural numbers.
LEMMA PayoffNat ==
    ASSUME FlowTypeOK, NEW result \in Nat
    PROVE  RealPayoff(result) \in Nat
<1>1. result * result \in Nat BY ProductNat
<1>2. (result * result) \div 480 \in Nat BY <1>1, QuotientNat
<1>3. calcPayoff(result) \in Nat
  BY <1>2, UnitAssumption, ProductNat DEF calcPayoff
<1>4. QED BY <1>3 DEF RealPayoff, FlowTypeOK

\* A settlement keeps types, books and the split.
LEMMA FulfillStep ==
    ASSUME TypeInv, NEW r \in RequestIds, NEW d \in OracleResults, fulfill(r, d)
    PROVE  TypeInv' /\ PoolStep
<1> DEFINE p == requestList[r]
<1>1. /\ p \in Issued /\ p \in PolicyIds
      /\ policyList[p] \in PolicyInfo
      /\ policyList[p].premium \in Nat
      /\ policyList[p].buyerAddress \in Users
      /\ d \in Nat /\ MAX_PAYOFF \in Nat
  <2>1. p \in Issued BY DEF fulfill, TypeInv, IssuedOK
  <2>2. p \in PolicyIds
    BY <2>1, BoundAssumption DEF TypeInv, TypeOK, FlowTypeOK, Issued, PolicyIds
  <2>3. QED
    BY <2>1, <2>2, InputAssumption
    DEF TypeInv, TypeOK, FlowTypeOK, IssuedOK, PolicyInfo
<1>2. RealPayoff(d) \in Nat BY <1>1, PayoffNat DEF TypeInv, TypeOK
<1>3. PoolStep
  <2>1. CASE _policyExpired(p)
    BY <1>1, <2>1, ExpireStep DEF _policyExpired, fulfill, TypeInv, TypeOK
  <2>2. CASE _policyClaimed(p, d)
    BY <1>1, <1>2, <2>2, ClaimStep DEF _policyClaimed, fulfill, TypeInv, TypeOK
  <2>3. QED BY <2>1, <2>2 DEF fulfill
<1>4. /\ policyList' \in [PolicyIds -> PolicyInfo]
      /\ \A q \in PolicyIds : policyList'[q].buyerAddress
                                  = policyList[q].buyerAddress
  <2>1. CASE _policyExpired(p)
    BY <1>1, <2>1
    DEF _policyExpired, TypeInv, TypeOK, FlowTypeOK, PolicyInfo, Statuses
  <2>2. CASE _policyClaimed(p, d)
    BY <1>1, <2>2
    DEF _policyClaimed, TypeInv, TypeOK, FlowTypeOK, PolicyInfo, Statuses
  <2>3. QED BY <2>1, <2>2 DEF fulfill
<1>5. settledTimes' \in [PolicyIds -> Nat]
  BY <1>1 DEF fulfill, TypeInv, TypeOK, FlowTypeOK
<1>6. FlowTypeOK'
  BY <1>4, <1>5 DEF fulfill, TypeInv, TypeOK, FlowTypeOK, paramVars, tokenVars
<1>7. IssuedOK'
  <2>1. Issued' = Issued /\ Issued \subseteq PolicyIds
    BY BoundAssumption
    DEF fulfill, Issued, PolicyIds, TypeInv, TypeOK, FlowTypeOK
  <2>2. \A q \in pending' : requestList'[q] \in Issued
    BY DEF fulfill, TypeInv, IssuedOK
  <2>3. QED BY <1>4, <2>1, <2>2 DEF TypeInv, IssuedOK
<1>8. QED BY <1>3, <1>6, <1>7 DEF TypeInv, TypeOK, PoolStep

\* An answer, settled or lost, keeps types, books and the split.
LEMMA AnswerStep ==
    ASSUME TypeInv, Answer
    PROVE  TypeInv' /\ PoolStep /\ ownerTouched' = ownerTouched
<1>1. PICK r \in RequestIds, d \in OracleResults :
          fulfill(r, d) \/ fulfillReverted(r, d)
  BY DEF Answer
<1>2. CASE fulfill(r, d) BY <1>2, FulfillStep DEF fulfill
<1>3. CASE fulfillReverted(r, d)
  <2>1. PoolStep /\ PoolTypeOK' /\ ownerTouched' = ownerTouched
    BY <1>3
    DEF fulfillReverted, TypeInv, TypeOK, PoolStep, PoolTypeOK, PoolSolvent,
        Split, poolVars, accountVars, reserveVars, rateVars, factorVars, ghostVars
  <2>2. FlowTypeOK' /\ IssuedOK'
    BY <1>3
    DEF fulfillReverted, TypeInv, TypeOK, FlowTypeOK, IssuedOK, Issued,
        policyVars, paramVars, tokenVars, ghostVars
  <2>3. QED BY <2>1, <2>2 DEF TypeInv, TypeOK
<1>4. QED BY <1>1, <1>2, <1>3

\* Time, token transfers and unrelated parameters leave the pool alone.
LEMMA PoolUntouched ==
    ASSUME TypeInv, UNCHANGED poolVars, now' \in Nat
    PROVE  PoolStep /\ PoolTypeOK'
  BY DEF TypeInv, TypeOK, PoolStep, PoolTypeOK, PoolSolvent, Split, poolVars,
         accountVars, reserveVars, rateVars, factorVars

\* A transfer of a policy token keeps types, books and the split.
LEMMA TransferStep ==
    ASSUME TypeInv, TokenTransfer
    PROVE  TypeInv' /\ PoolStep /\ ownerTouched' = ownerTouched
<1>1. PICK p \in Issued, u \in Users, v \in Recipients :
          transferOwner(p, u, v) \/ transferFrom(p, u, v)
  BY DEF TokenTransfer
<1>2. moveToken(p, v) BY <1>1 DEF transferOwner, transferFrom
<1>3. PoolStep /\ PoolTypeOK'
  BY <1>2, PoolUntouched DEF moveToken, TypeInv, TypeOK, PoolTypeOK
<1>4. /\ policyList' \in [PolicyIds -> PolicyInfo]
      /\ \A q \in PolicyIds : \/ policyList'[q].buyerAddress = v
                              \/ policyList'[q] = policyList[q]
  <2>1. v \in Users BY UserAssumption
  <2>2. CASE policyList' = policyList
    BY <2>2 DEF TypeInv, TypeOK, FlowTypeOK
  <2>3. CASE policyOwnerTransfer(p, u, v)
    <3>1. policyList \in [PolicyIds -> PolicyInfo]
      BY DEF TypeInv, TypeOK, FlowTypeOK
    <3>2. \A x \in PolicyInfo : /\ [x EXCEPT !.buyerAddress = v] \in PolicyInfo
                                 /\ [x EXCEPT !.buyerAddress = v].buyerAddress = v
      BY <2>1 DEF PolicyInfo
    <3>3. policyList' = [policyList EXCEPT ![p] =
                            [policyList[p] EXCEPT !.buyerAddress = v]]
      BY <2>3 DEF policyOwnerTransfer
    <3>4. QED BY <3>1, <3>2, <3>3
  <2>4. QED BY <1>1, <2>2, <2>3 DEF transferOwner, transferFrom
<1>5. FlowTypeOK'
  <2>1. tokenOwner' \in [PolicyIds -> Users \cup {NoUser}]
    BY <1>2, UserAssumption DEF moveToken, TypeInv, TypeOK, FlowTypeOK
  <2>2. QED
    BY <1>2, <1>4, <2>1
    DEF moveToken, TypeInv, TypeOK, FlowTypeOK, paramVars, oracleVars, ghostVars
<1>6. IssuedOK'
  <2>1. Issued' = Issued /\ Issued \subseteq PolicyIds
    BY <1>2, BoundAssumption
    DEF moveToken, Issued, PolicyIds, TypeInv, TypeOK, FlowTypeOK
  <2>2. v \in Users BY UserAssumption
  <2>3. QED
    BY <1>2, <1>4, <2>1, <2>2 DEF moveToken, TypeInv, IssuedOK, oracleVars
<1>7. QED BY <1>2, <1>3, <1>5, <1>6 DEF TypeInv, TypeOK, moveToken, ghostVars

\* The owner's changes keep types and books; all but those of the collateral
\* factor keep the split.
LEMMA OwnerStep ==
    ASSUME TypeInv, Owner
    PROVE  /\ TypeInv'
           /\ PoolSolvent => PoolSolvent'
           /\ \/ "factor" \in ownerTouched'
              \/ (Split => Split') /\ ownerTouched \subseteq ownerTouched'
<1> DEFINE Kinds == {"payoff", "threshold", "minTime", "fee", "frozenTime",
                     "distribution", "factor"}
           ParamType == /\ MAX_PAYOFF \in Nat /\ DELAY_THRESHOLD_MIN \in Nat
                        /\ DELAY_THRESHOLD_MAX \in Nat
                        /\ MIN_TIME_BEFORE_DEPARTURE \in Nat /\ fee \in Nat
<1>1. PICK kind \in Kinds : Touch(kind)
  BY DEF Owner, OwnerOfPool, setMaxPayoff, setDelayThreshold,
         setMinTimeBeforeDeparture, setFee
<1>2. ParamType'
  BY OwnerAssumption
  DEF TypeInv, TypeOK, FlowTypeOK, Owner, setMaxPayoff, setDelayThreshold,
      setMinTimeBeforeDeparture, setFee, paramVars
<1>3. /\ PoolTypeOK'
      /\ PoolSolvent => PoolSolvent'
      /\ "factor" \in ownerTouched' \/ (Split => Split')
  <2>1. now' = now BY <1>1 DEF Touch
  <2>2. CASE UNCHANGED poolVars
    BY <2>1, <2>2, PoolUntouched DEF TypeInv, TypeOK, PoolTypeOK, PoolStep
  <2>3. CASE OwnerOfPool
    <3>1. PoolTypeOK' /\ (PoolSolvent => PoolSolvent')
      BY <2>1, <2>3, PoolOwnerStep DEF TypeInv, TypeOK
    <3>2. "factor" \in ownerTouched' \/ (Split => Split')
      BY <2>3
      DEF OwnerOfPool, Touch, setFrozenTime, setRewardDistribution, Split,
          reserveVars
    <3>3. QED BY <3>1, <3>2
  <2>4. QED
    BY <2>2, <2>3
    DEF Owner, setMaxPayoff, setDelayThreshold, setMinTimeBeforeDeparture, setFee
<1>4. FlowTypeOK'
  BY <1>1, <1>2
  DEF Touch, TypeInv, TypeOK, FlowTypeOK, policyVars, tokenVars, oracleVars
<1>5. IssuedOK'
  BY <1>1 DEF Touch, TypeInv, IssuedOK, Issued, policyVars, oracleVars
<1>6. ownerTouched \subseteq ownerTouched' BY <1>1 DEF Touch
<1>7. QED BY <1>3, <1>4, <1>5, <1>6 DEF TypeInv, TypeOK

\* Every step keeps the types, and what it changes in the books it changes on
\* both sides.
LEMMA NextStep ==
    ASSUME TypeInv, [Next]_vars
    PROVE  /\ TypeInv'
           /\ PoolSolvent => PoolSolvent'
           /\ \/ "factor" \in ownerTouched'
              \/ (Split => Split') /\ ownerTouched \subseteq ownerTouched'
<1>1. CASE Tick
  <2>1. now' \in Nat /\ UNCHANGED poolVars BY <1>1, InputAssumption DEF Tick
  <2>2. PoolStep /\ PoolTypeOK' BY <2>1, PoolUntouched
  <2>3. FlowTypeOK' /\ IssuedOK' /\ ownerTouched' = ownerTouched
    BY <1>1
    DEF Tick, TypeInv, TypeOK, FlowTypeOK, IssuedOK, Issued, flowVars, policyVars,
        paramVars, tokenVars, oracleVars, ghostVars
  <2>4. QED BY <2>2, <2>3 DEF TypeInv, TypeOK, PoolStep
<1>2. CASE Provider
  <2>1. PICK u \in Providers : \/ \E a \in StakeAmounts : stake(u, a) \/ unstake(u, a)
                               \/ unstakeMax(u)
    BY <1>2 DEF Provider
  <2>2. u \in Users /\ StakeAmounts \subseteq Nat /\ 0 \in Nat
    BY UserAssumption, InputAssumption
  <2>3. now' = now /\ UNCHANGED flowVars BY <1>2 DEF Provider
  <2>4. PoolStep
    BY <2>1, <2>2, <2>3, ProviderStep DEF TypeInv, TypeOK
  <2>5. FlowTypeOK' /\ IssuedOK' /\ ownerTouched' = ownerTouched
    BY <2>3
    DEF TypeInv, TypeOK, FlowTypeOK, IssuedOK, Issued, flowVars, policyVars,
        paramVars, tokenVars, oracleVars, ghostVars
  <2>6. QED BY <2>4, <2>5 DEF TypeInv, TypeOK, PoolStep
<1>3. CASE Buyer
  <2>1. ownerTouched' = ownerTouched
    BY <1>3 DEF Buyer, newApplication, ghostVars
  <2>2. QED BY <1>3, <2>1, BuyerStep DEF PoolStep
<1>4. CASE Claim \/ ForceUpdate
  <2>1. Split => Split'
    BY <1>4, ClaimRequestStep DEF Split, poolVars, reserveVars, factorVars
  <2>2. QED BY <1>4, <2>1, ClaimRequestStep
<1>5. CASE Answer BY <1>5, AnswerStep DEF PoolStep
<1>6. CASE TokenTransfer BY <1>6, TransferStep DEF PoolStep
<1>7. CASE Owner BY <1>7, OwnerStep
<1>8. CASE UNCHANGED vars
  <2>1. PoolStep /\ PoolTypeOK'
    BY <1>8, PoolUntouched DEF vars, TypeInv, TypeOK, PoolTypeOK
  <2>2. FlowTypeOK' /\ IssuedOK' /\ ownerTouched' = ownerTouched
    BY <1>8
    DEF vars, TypeInv, TypeOK, FlowTypeOK, IssuedOK, Issued, flowVars, policyVars,
        paramVars, tokenVars, oracleVars, ghostVars
  <2>3. QED BY <2>1, <2>2 DEF TypeInv, TypeOK, PoolStep
<1>9. QED BY <1>1, <1>2, <1>3, <1>4, <1>5, <1>6, <1>7, <1>8 DEF Next

-----------------------------------------------------------------------------
(* Theorems *)

\* The storage keeps its types, and no checked subtraction goes below zero
\* unnoticed, in every reachable state of PolicyFlow, FDPolicyToken,
\* FlightOracle and InsurancePool.
THEOREM TypeCorrect == Spec => []TypeOK
<1>1. Init => TypeInv BY InitType
<1>2. TypeInv /\ [Next]_vars => TypeInv' BY NextStep
<1>3. TypeInv => TypeOK BY DEF TypeInv
<1>4. QED BY <1>1, <1>2, <1>3, PTL DEF Spec

\* The USD of the pool are the providers' balance plus the open premiums,
\* whatever providers, buyers, oracle and owner do (InsurancePool.sol).
THEOREM PoolIsSolvent == Spec => []PoolSolvent
<1>1. Init => TypeInv /\ PoolSolvent
  <2>1. Init => PoolSolvent
    BY AccountFacts DEF Init, PoolInit, PoolSolvent
  <2>2. QED BY <2>1, InitType
<1>2. TypeInv /\ PoolSolvent /\ [Next]_vars => (TypeInv /\ PoolSolvent)'
  BY NextStep
<1>3. QED BY <1>1, <1>2, PTL DEF Spec

\* As long as the collateral factor is untouched, every unit of the staking
\* balance is either locked or available for sale (InsurancePool.sol).
THEOREM CapacityIsSplit == Spec => []CapacitySplit
<1> DEFINE SplitInv == "factor" \notin ownerTouched => Split
<1>1. Init => TypeInv /\ SplitInv
  <2>1. Init => Split BY DEF Init, PoolInit, Split
  <2>2. QED BY <2>1, InitType
<1>2. TypeInv /\ SplitInv /\ [Next]_vars => (TypeInv /\ SplitInv)'
  BY NextStep
<1>3. SplitInv => CapacitySplit BY DEF Split, CapacitySplit
<1>4. QED BY <1>1, <1>2, <1>3, PTL DEF Spec

(***************************************************************************)
(* The life of a policy: its identity in the two contracts that number it, *)
(* who holds it, and how often it is settled.                              *)
(***************************************************************************)
\* Where PolicyFlow and FDPolicyToken agree on which policies exist.
IdInv ==
    /\ nextId = totalPolicies + 1
    /\ \A p \in Issued : policyList[p].status # "INI" /\ tokenOwner[p] \in Users
    /\ \A p \in PolicyIds \ Issued :
           policyList[p] = EmptyPolicy /\ tokenOwner[p] = NoUser

\* Issued policies are policies, and the next one is not issued yet.
LEMMA IssuedFacts ==
    ASSUME TypeInv
    PROVE  /\ Issued \subseteq PolicyIds
           /\ totalPolicies \in Nat
           /\ totalPolicies + 1 \notin Issued
           /\ totalPolicies' = totalPolicies => Issued' = Issued
           /\ totalPolicies' = totalPolicies + 1
                  => Issued' = Issued \cup {totalPolicies + 1}
<1>1. totalPolicies \in 0..MaxPolicies /\ totalPolicies \in Nat
  BY BoundAssumption DEF TypeInv, TypeOK, FlowTypeOK
<1>2. Issued \subseteq PolicyIds
  BY <1>1, BoundAssumption DEF Issued, PolicyIds
<1>3. totalPolicies + 1 \notin Issued BY <1>1 DEF Issued
<1>4. totalPolicies' = totalPolicies => Issued' = Issued BY DEF Issued
<1>5. ASSUME totalPolicies' = totalPolicies + 1
      PROVE  Issued' = Issued \cup {totalPolicies + 1}
  <2>1. 1..(totalPolicies + 1) = (1..totalPolicies) \cup {totalPolicies + 1}
    BY <1>1
  <2>2. QED BY <1>5, <2>1 DEF Issued
<1>6. QED BY <1>1, <1>2, <1>3, <1>4, <1>5

\* A purchase adds one policy and one token of the same number.
LEMMA BuyerIds ==
    ASSUME TypeInv, IdInv, Buyer
    PROVE  IdInv'
<1>1. PICK u \in Buyers, q \in Quotes : newApplication(u, q) BY DEF Buyer
<1> DEFINE n == totalPolicies + 1
<1>2. /\ u \in Users
      /\ n \in PolicyIds /\ n \notin Issued
      /\ Issued' = Issued \cup {n} /\ Issued \subseteq PolicyIds
  <2>1. u \in Users BY UserAssumption
  <2>2. totalPolicies < MaxPolicies /\ totalPolicies' = n
    BY <1>1 DEF newApplication
  <2>3. n \in PolicyIds
    BY <2>2, BoundAssumption, IssuedFacts DEF PolicyIds
  <2>4. QED BY <2>1, <2>2, <2>3, IssuedFacts
<1>3. /\ nextId' = n + 1 /\ totalPolicies' = n
      /\ policyList' = [policyList EXCEPT ![n] = NewPolicy(u, q)]
      /\ tokenOwner' = [tokenOwner EXCEPT ![n] = u]
  BY <1>1 DEF newApplication, mintPolicyToken, IdInv
<1>4. NewPolicy(u, q).status = "SOLD" BY DEF NewPolicy
<1>5. QED
  BY <1>2, <1>3, <1>4 DEF IdInv, TypeInv, TypeOK, FlowTypeOK

\* Steps that neither issue a policy nor take a token away keep the identity.
LEMMA SameIds ==
    ASSUME TypeInv, IdInv, UNCHANGED <<totalPolicies, nextId>>,
           \A p \in PolicyIds \ Issued :
               policyList'[p] = policyList[p] /\ tokenOwner'[p] = tokenOwner[p],
           \A p \in Issued :
               policyList'[p].status # "INI" /\ tokenOwner'[p] \in Users
    PROVE  IdInv'
  BY IssuedFacts DEF IdInv

\* A step touches at most one issued policy, which stays sold or settled.
LEMMA OnePolicyIds ==
    ASSUME TypeInv, IdInv, UNCHANGED <<totalPolicies, tokenVars>>,
           NEW q \in Issued, NEW policy,
           policyList' = [policyList EXCEPT ![q] = policy],
           policy.status # "INI"
    PROVE  IdInv'
<1>1. Issued \subseteq PolicyIds BY IssuedFacts
<1>2. \A p \in PolicyIds :
          policyList'[p] = IF p = q THEN policy ELSE policyList[p]
  BY DEF TypeInv, TypeOK, FlowTypeOK
<1>3. QED BY <1>1, <1>2, SameIds DEF tokenVars, IdInv

\* Every step keeps the identity.
LEMMA NextIds ==
    ASSUME TypeInv, IdInv, [Next]_vars
    PROVE  IdInv'
<1>1. CASE Buyer BY <1>1, BuyerIds
<1>2. CASE Claim \/ ForceUpdate
  <2>1. PICK p \in PolicyIds : newClaimRequest(p) \/ forceClaimRequest(p)
    <3>1. CASE Claim BY <3>1 DEF Claim
    <3>2. CASE ForceUpdate BY <3>2 DEF ForceUpdate
    <3>3. QED BY <1>2, <3>1, <3>2
  <2>2. p \in Issued /\ newOracleRequest(p)
    BY <2>1 DEF newClaimRequest, forceClaimRequest
  <2>3. RequestedPolicy(p).status # "INI"
    BY <2>2, IssuedFacts
    DEF RequestedPolicy, IdInv, TypeInv, TypeOK, FlowTypeOK, PolicyInfo
  <2>4. QED BY <2>2, <2>3, OnePolicyIds DEF newOracleRequest
<1>3. CASE Answer
  <2>1. PICK r \in RequestIds, d \in OracleResults :
            fulfill(r, d) \/ fulfillReverted(r, d)
    BY <1>3 DEF Answer
  <2>2. CASE fulfillReverted(r, d)
    BY <2>2, SameIds DEF fulfillReverted, policyVars, tokenVars, IdInv
  <2>3. CASE fulfill(r, d)
    <3> DEFINE q == requestList[r]
               policy(status, result) ==
                   [[policyList[q] EXCEPT !.status = status]
                        EXCEPT !.delayResult = result]
    <3>1. q \in Issued /\ q \in PolicyIds /\ policyList[q] \in PolicyInfo
      BY <2>3, IssuedFacts
      DEF fulfill, TypeInv, IssuedOK, TypeOK, FlowTypeOK
    <3>2. \/ policyList' = [policyList EXCEPT ![q] = policy("EXPIRED", 0)]
          \/ policyList' = [policyList EXCEPT ![q] = policy("CLAIMED", d)]
      BY <2>3, <3>1
      DEF fulfill, _policyExpired, _policyClaimed, TypeInv, TypeOK, FlowTypeOK,
          PolicyInfo
    <3>3. /\ policy("EXPIRED", 0).status = "EXPIRED"
          /\ policy("CLAIMED", d).status = "CLAIMED"
      BY <3>1 DEF PolicyInfo
    <3>4. UNCHANGED <<totalPolicies, tokenVars>> BY <2>3 DEF fulfill
    <3> HIDE DEF policy
    <3>5. QED BY <3>1, <3>2, <3>3, <3>4, OnePolicyIds
  <2>4. QED BY <2>1, <2>2, <2>3
<1>4. CASE TokenTransfer
  <2>1. PICK p \in Issued, u \in Users, v \in Recipients :
            transferOwner(p, u, v) \/ transferFrom(p, u, v)
    BY <1>4 DEF TokenTransfer
  <2>2. moveToken(p, v) /\ v \in Users /\ p \in PolicyIds
    BY <2>1, UserAssumption, IssuedFacts DEF transferOwner, transferFrom
  <2>3. \A q \in PolicyIds :
            tokenOwner'[q] = IF q = p THEN v ELSE tokenOwner[q]
    BY <2>2 DEF moveToken, TypeInv, TypeOK, FlowTypeOK
  <2>4. /\ \A q \in PolicyIds : policyList'[q].status = policyList[q].status
        /\ \A q \in PolicyIds : q # p => policyList'[q] = policyList[q]
    BY <2>1, <2>2
    DEF transferOwner, transferFrom, policyOwnerTransfer, TypeInv, TypeOK,
        FlowTypeOK, PolicyInfo
  <2>5. QED
    BY <2>2, <2>3, <2>4, SameIds, IssuedFacts DEF moveToken, IdInv
<1>5. CASE UNCHANGED <<policyVars, tokenVars>>
  BY <1>5, SameIds DEF policyVars, tokenVars, IdInv
<1>6. Tick \/ Provider \/ Owner \/ UNCHANGED vars
          => UNCHANGED <<policyVars, tokenVars>>
  BY DEF Tick, Provider, Owner, OwnerOfPool, Touch, setMaxPayoff,
         setDelayThreshold, setMinTimeBeforeDeparture, setFee, flowVars, vars
<1>7. QED BY <1>1, <1>2, <1>3, <1>4, <1>5, <1>6 DEF Next

\* The identity after deployment.
LEMMA InitIds == Init => IdInv
  BY BoundAssumption DEF Init, IdInv, Issued

\* The counters of PolicyFlow and FDPolicyToken never drift apart, so that a
\* token is about the policy of the same number (mintPolicyToken).
THEOREM TokenIdsMatch == Spec => []TokenIdIsPolicyId
<1>1. Init => TypeInv /\ IdInv BY InitType, InitIds
<1>2. TypeInv /\ IdInv /\ [Next]_vars => (TypeInv /\ IdInv)'
  BY NextStep, NextIds
<1>3. TypeInv /\ IdInv => TokenIdIsPolicyId
  BY IssuedFacts, UserAssumption DEF IdInv, TokenIdIsPolicyId, EmptyPolicy
<1>4. QED BY <1>1, <1>2, <1>3, PTL DEF Spec

-----------------------------------------------------------------------------
(* Who is paid *)

\* A step changes the recorded buyer of an issued policy only by transferOwner.
LEMMA NextBuyer ==
    ASSUME TypeInv, IdInv, [Next]_vars,
           NEW p \in Issued,
           policyList'[p].buyerAddress # policyList[p].buyerAddress
    PROVE  /\ policyList[p].buyerAddress = tokenOwner[p]
           /\ policyList'[p].buyerAddress = tokenOwner'[p]
<1> p \in PolicyIds /\ policyList[p] \in PolicyInfo
  BY IssuedFacts DEF TypeInv, TypeOK, FlowTypeOK
<1>1. CASE Buyer
  <2>1. PICK u \in Buyers, q \in Quotes : newApplication(u, q) BY <1>1 DEF Buyer
  <2>2. p # totalPolicies + 1 BY IssuedFacts
  <2>3. policyList'[p] = policyList[p]
    BY <2>1, <2>2 DEF newApplication, TypeInv, TypeOK, FlowTypeOK
  <2>4. QED BY <2>3
<1>2. CASE Claim \/ ForceUpdate
  <2>1. PICK q \in PolicyIds : newOracleRequest(q)
    BY <1>2 DEF Claim, ForceUpdate, newClaimRequest, forceClaimRequest
  <2>2. policyList'[p].buyerAddress = policyList[p].buyerAddress
    BY <2>1
    DEF newOracleRequest, RequestedPolicy, TypeInv, TypeOK, FlowTypeOK,
        PolicyInfo
  <2>3. QED BY <2>2
<1>3. CASE Answer
  <2>1. PICK r \in RequestIds, d \in OracleResults :
            fulfill(r, d) \/ fulfillReverted(r, d)
    BY <1>3 DEF Answer
  <2> DEFINE q == requestList[r]
  <2>2. CASE fulfillReverted(r, d)
    BY <2>2 DEF fulfillReverted, policyVars
  <2>3. ASSUME NEW st, NEW dr,
               policyList' = [policyList EXCEPT ![q].status = st,
                                                ![q].delayResult = dr]
        PROVE  policyList'[p].buyerAddress = policyList[p].buyerAddress
    <3>1. policyList \in [PolicyIds -> PolicyInfo]
      BY DEF TypeInv, TypeOK, FlowTypeOK
    <3> HIDE DEF q
    <3>2. QED BY <2>3, <3>1 DEF PolicyInfo
  <2>4. CASE fulfill(r, d)
    <3>1. _policyExpired(q) \/ _policyClaimed(q, d)
      BY <2>4 DEF fulfill
    <3> HIDE DEF q
    <3>2. policyList'[p].buyerAddress = policyList[p].buyerAddress
      <4>1. CASE _policyExpired(q) BY <4>1, <2>3 DEF _policyExpired
      <4>2. CASE _policyClaimed(q, d) BY <4>2, <2>3 DEF _policyClaimed
      <4>3. QED BY <3>1, <4>1, <4>2
    <3>3. QED BY <3>2
  <2>5. QED BY <2>1, <2>2, <2>4
<1>4. CASE TokenTransfer
  <2>1. PICK q \in Issued, u \in Users, v \in Recipients :
            transferOwner(q, u, v) \/ transferFrom(q, u, v)
    BY <1>4 DEF TokenTransfer
  <2>2. q = p /\ transferOwner(q, u, v)
    BY <2>1
    DEF transferOwner, transferFrom, policyOwnerTransfer, TypeInv, TypeOK,
        FlowTypeOK
  <2>3. QED
    BY <2>2
    DEF transferOwner, policyOwnerTransfer, moveToken, TypeInv, TypeOK,
        FlowTypeOK, PolicyInfo
<1>5. CASE UNCHANGED policyList BY <1>5
<1>6. Tick \/ Provider \/ Owner \/ UNCHANGED vars => UNCHANGED policyList
  BY DEF Tick, Provider, Owner, OwnerOfPool, Touch, setMaxPayoff,
         setDelayThreshold, setMinTimeBeforeDeparture, setFee, flowVars,
         policyVars, vars
<1>7. QED BY <1>1, <1>2, <1>3, <1>4, <1>5, <1>6 DEF Next

\* The account that a settlement pays is changed by nobody but the holder of
\* the token, together with the token (policyOwnerTransfer).
THEOREM BuyerIsTokenHolder == Spec => BuyerMovesWithToken
<1>1. Init => TypeInv /\ IdInv BY InitType, InitIds
<1>2. TypeInv /\ IdInv /\ [Next]_vars => (TypeInv /\ IdInv)'
  BY NextStep, NextIds
<1>3. TypeInv /\ IdInv /\ [Next]_vars
          => [\A p \in Issued :
                 policyList'[p].buyerAddress # policyList[p].buyerAddress =>
                     /\ policyList[p].buyerAddress = tokenOwner[p]
                     /\ policyList'[p].buyerAddress = tokenOwner'[p]]_vars
  BY NextBuyer
<1>4. QED BY <1>1, <1>2, <1>3, PTL DEF Spec, BuyerMovesWithToken

-----------------------------------------------------------------------------
(* How often a policy is settled *)

\* Settlements so far, settlements that may still arrive, and the one that
\* newClaimRequest may start.
Chance(p) == IF policyList[p].alreadySettled THEN 0 ELSE 1

SettleInv ==
    \A p \in PolicyIds :
        settledTimes[p] + Cardinality(PendingFor(p)) + Chance(p)
            <= 1 + forcedTimes[p]

\* The requests about a policy are finitely many.
LEMMA PendingFacts ==
    ASSUME TypeInv, NEW p \in PolicyIds
    PROVE  /\ IsFiniteSet(PendingFor(p))
           /\ Cardinality(PendingFor(p)) \in Nat
           /\ Chance(p) \in 0..1
           /\ settledTimes[p] \in Nat /\ forcedTimes[p] \in Nat
<1>1. lastRequest \in Int
  BY BoundAssumption DEF TypeInv, TypeOK, FlowTypeOK
<1>2. IsFiniteSet(1..lastRequest) BY <1>1, FS_Interval
<1>3. PendingFor(p) \subseteq 1..lastRequest
  BY DEF PendingFor, TypeInv, TypeOK, FlowTypeOK
<1>4. IsFiniteSet(PendingFor(p)) BY <1>2, <1>3, FS_Subset
<1>5. Cardinality(PendingFor(p)) \in Nat BY <1>4, FS_CardinalityType
<1>6. QED BY <1>4, <1>5 DEF Chance, TypeInv, TypeOK, FlowTypeOK

\* A step that keeps the marks, the requests and the counts.
LEMMA SameSettle ==
    ASSUME TypeInv, SettleInv,
           UNCHANGED <<settledTimes, forcedTimes, pending, requestList>>,
           \A p \in PolicyIds : policyList'[p].alreadySettled
                                    = policyList[p].alreadySettled
    PROVE  SettleInv'
<1>1. \A p \in PolicyIds : PendingFor(p)' = PendingFor(p) /\ Chance(p)' = Chance(p)
  BY DEF PendingFor, Chance
<1>2. QED BY <1>1 DEF SettleInv

\* A request uses up the chance that newClaimRequest found, or the one that
\* the owner has just added by force.
LEMMA RequestSettle ==
    ASSUME TypeInv, SettleInv, NEW q \in PolicyIds, newOracleRequest(q),
           \/ ~policyList[q].alreadySettled /\ UNCHANGED forcedTimes
           \/ forcedTimes' = [forcedTimes EXCEPT ![q] = @ + 1]
    PROVE  SettleInv'
<1> DEFINE n == lastRequest + 1
<1>1. /\ settledTimes' = settledTimes
      /\ pending' = pending \cup {n}
      /\ requestList' = [requestList EXCEPT ![n] = q]
      /\ policyList' = [policyList EXCEPT ![q] = RequestedPolicy(q)]
  BY DEF newOracleRequest
<1>2. n \notin pending /\ n \in RequestIds /\ pending \subseteq RequestIds
  BY BoundAssumption
  DEF newOracleRequest, RequestIds, TypeInv, TypeOK, FlowTypeOK
<1>3. \A r \in pending : requestList'[r] = requestList[r]
  BY <1>1, <1>2 DEF TypeInv, TypeOK, FlowTypeOK
<1>4. requestList'[n] = q
  BY <1>1, <1>2 DEF TypeInv, TypeOK, FlowTypeOK
<1>5. /\ PendingFor(q)' = PendingFor(q) \cup {n}
      /\ \A p \in PolicyIds : p # q => PendingFor(p)' = PendingFor(p)
  BY <1>1, <1>3, <1>4 DEF PendingFor
<1>6. Cardinality(PendingFor(q)') = Cardinality(PendingFor(q)) + 1
  <2>1. n \notin PendingFor(q) BY <1>2 DEF PendingFor
  <2>2. QED BY <1>5, <2>1, PendingFacts, FS_AddElement
<1>7. /\ Chance(q)' = 0
      /\ \A p \in PolicyIds : p # q => Chance(p)' = Chance(p)
  BY <1>1 DEF Chance, RequestedPolicy, TypeInv, TypeOK, FlowTypeOK, PolicyInfo
<1>8. \/ Chance(q) = 1 /\ UNCHANGED forcedTimes
      \/ forcedTimes' = [forcedTimes EXCEPT ![q] = @ + 1]
  BY DEF Chance
<1>9. \A p \in PolicyIds : p # q => forcedTimes'[p] = forcedTimes[p]
  BY <1>8 DEF TypeInv, TypeOK, FlowTypeOK
<1>10. settledTimes'[q] + Cardinality(PendingFor(q)') + Chance(q)'
           <= 1 + forcedTimes'[q]
  <2>1. settledTimes[q] + Cardinality(PendingFor(q)) + Chance(q)
            <= 1 + forcedTimes[q]
    BY DEF SettleInv
  <2>2. CASE Chance(q) = 1 /\ UNCHANGED forcedTimes
    BY <2>1, <2>2, <1>1, <1>6, <1>7, PendingFacts
  <2>3. CASE forcedTimes' = [forcedTimes EXCEPT ![q] = @ + 1]
    <3>1. forcedTimes'[q] = forcedTimes[q] + 1
      BY <2>3 DEF TypeInv, TypeOK, FlowTypeOK
    <3>2. QED BY <2>1, <3>1, <1>1, <1>6, <1>7, PendingFacts
  <2>4. QED BY <1>8, <2>2, <2>3
<1>11. QED BY <1>1, <1>5, <1>7, <1>9, <1>10 DEF SettleInv

\* An answer turns a pending request into a settlement, or loses it.
LEMMA AnswerSettle ==
    ASSUME TypeInv, SettleInv, NEW r \in pending, pending' = pending \ {r},
           UNCHANGED <<requestList, forcedTimes>>,
           \A p \in PolicyIds : policyList'[p].alreadySettled
                                    = policyList[p].alreadySettled,
           requestList[r] \in PolicyIds,
           \/ settledTimes' = [settledTimes EXCEPT ![requestList[r]] = @ + 1]
           \/ UNCHANGED settledTimes
    PROVE  SettleInv'
<1> DEFINE q == requestList[r]
<1>1. /\ PendingFor(q)' = PendingFor(q) \ {r}
      /\ r \in PendingFor(q)
      /\ \A p \in PolicyIds : p # q => PendingFor(p)' = PendingFor(p)
  BY DEF PendingFor
<1>2. Cardinality(PendingFor(q)') = Cardinality(PendingFor(q)) - 1
  BY <1>1, PendingFacts, FS_RemoveElement
<1>3. \A p \in PolicyIds : Chance(p)' = Chance(p) BY DEF Chance
<1>4. settledTimes'[q] <= settledTimes[q] + 1 /\ settledTimes'[q] \in Nat
  BY DEF TypeInv, TypeOK, FlowTypeOK
<1>5. \A p \in PolicyIds : p # q => settledTimes'[p] = settledTimes[p]
  BY DEF TypeInv, TypeOK, FlowTypeOK
<1>6. settledTimes'[q] + Cardinality(PendingFor(q)') + Chance(q)'
          <= 1 + forcedTimes'[q]
  <2>1. settledTimes[q] + Cardinality(PendingFor(q)) + Chance(q)
            <= 1 + forcedTimes[q]
    BY DEF SettleInv
  <2>2. QED BY <2>1, <1>2, <1>3, <1>4, PendingFacts
<1>7. QED BY <1>1, <1>3, <1>5, <1>6 DEF SettleInv

\* Every step keeps the count.
LEMMA NextSettle ==
    ASSUME TypeInv, IdInv, SettleInv, [Next]_vars
    PROVE  SettleInv'
<1>1. CASE Buyer
  <2>1. PICK u \in Buyers, q \in Quotes : newApplication(u, q) BY <1>1 DEF Buyer
  <2> DEFINE n == totalPolicies + 1
  <2>2. policyList[n] = EmptyPolicy /\ n \in PolicyIds
    BY <2>1, IssuedFacts, BoundAssumption DEF newApplication, IdInv, PolicyIds
  <2>3. policyList' = [policyList EXCEPT ![n] = NewPolicy(u, q)]
    BY <2>1 DEF newApplication
  <2>4. \A p \in PolicyIds : policyList'[p].alreadySettled
                                 = policyList[p].alreadySettled
    <3>1. \A p \in PolicyIds :
              policyList'[p] = IF p = n THEN NewPolicy(u, q) ELSE policyList[p]
      BY <2>3 DEF TypeInv, TypeOK, FlowTypeOK
    <3>2. SUFFICES ASSUME NEW p \in PolicyIds
                   PROVE  policyList'[p].alreadySettled
                              = policyList[p].alreadySettled
      OBVIOUS
    <3>3. CASE p = n
      <4>1. policyList'[p].alreadySettled = FALSE BY <3>1, <3>3 DEF NewPolicy
      <4>2. policyList[p].alreadySettled = FALSE BY <2>2, <3>3 DEF EmptyPolicy
      <4>3. QED BY <4>1, <4>2
    <3>4. CASE p # n BY <3>1, <3>4
    <3>5. QED BY <3>3, <3>4
  <2>5. UNCHANGED <<settledTimes, forcedTimes, pending, requestList>>
    BY <2>1 DEF newApplication, oracleVars, ghostVars
  <2>6. QED BY <2>4, <2>5, SameSettle
<1>2. CASE Claim
  BY <1>2, RequestSettle DEF Claim, newClaimRequest
<1>3. CASE ForceUpdate
  BY <1>3, RequestSettle DEF ForceUpdate, forceClaimRequest
<1>4. CASE Answer
  <2>1. PICK r \in RequestIds, d \in OracleResults :
            fulfill(r, d) \/ fulfillReverted(r, d)
    BY <1>4 DEF Answer
  <2>2. /\ r \in pending /\ pending' = pending \ {r}
        /\ UNCHANGED <<requestList, forcedTimes>>
        /\ \/ settledTimes' = [settledTimes EXCEPT ![requestList[r]] = @ + 1]
           \/ UNCHANGED settledTimes
    BY <2>1 DEF fulfill, fulfillReverted, policyVars, ghostVars
  <2>3. \A p \in PolicyIds : policyList'[p].alreadySettled
                                 = policyList[p].alreadySettled
    <3>1. CASE fulfillReverted(r, d) BY <3>1 DEF fulfillReverted, policyVars
    <3>2. CASE fulfill(r, d)
      <4>1. CASE _policyExpired(requestList[r])
        BY <4>1 DEF _policyExpired, TypeInv, TypeOK, FlowTypeOK, PolicyInfo
      <4>2. CASE _policyClaimed(requestList[r], d)
        BY <4>2 DEF _policyClaimed, TypeInv, TypeOK, FlowTypeOK, PolicyInfo
      <4>3. QED BY <3>2, <4>1, <4>2 DEF fulfill
    <3>3. QED BY <2>1, <3>1, <3>2
  <2>4. requestList[r] \in PolicyIds
    BY <2>2, IssuedFacts DEF TypeInv, IssuedOK
  <2>5. QED BY <2>2, <2>3, <2>4, AnswerSettle
<1>5. CASE TokenTransfer
  <2>1. PICK p \in Issued, u \in Users, v \in Recipients :
            transferOwner(p, u, v) \/ transferFrom(p, u, v)
    BY <1>5 DEF TokenTransfer
  <2>2. \A q \in PolicyIds : policyList'[q].alreadySettled
                                 = policyList[q].alreadySettled
    BY <2>1
    DEF transferOwner, transferFrom, policyOwnerTransfer, TypeInv, TypeOK,
        FlowTypeOK, PolicyInfo
  <2>3. UNCHANGED <<settledTimes, forcedTimes, pending, requestList>>
    BY <2>1 DEF transferOwner, transferFrom, moveToken, oracleVars, ghostVars
  <2>4. QED BY <2>2, <2>3, SameSettle
<1>6. CASE UNCHANGED <<policyVars, oracleVars, settledTimes, forcedTimes>>
  BY <1>6, SameSettle DEF policyVars, oracleVars
<1>7. Tick \/ Provider \/ Owner \/ UNCHANGED vars
          => UNCHANGED <<policyVars, oracleVars, settledTimes, forcedTimes>>
  BY DEF Tick, Provider, Owner, OwnerOfPool, Touch, setMaxPayoff,
         setDelayThreshold, setMinTimeBeforeDeparture, setFee, flowVars,
         ghostVars, vars
<1>8. QED BY <1>1, <1>2, <1>3, <1>4, <1>5, <1>6, <1>7 DEF Next

\* Nothing has been settled or requested after the deployment.
LEMMA InitSettle == Init => SettleInv
<1>1. SUFFICES ASSUME Init, NEW p \in PolicyIds
               PROVE  settledTimes[p] + Cardinality(PendingFor(p)) + Chance(p)
                          <= 1 + forcedTimes[p]
  BY DEF SettleInv
<1>2. PendingFor(p) = {} BY <1>1 DEF Init, PendingFor
<1>3. Cardinality(PendingFor(p)) = 0 BY <1>2, FS_EmptySet
<1>4. QED BY <1>1, <1>3 DEF Init, Chance, EmptyPolicy

\* A policy is paid or expires at most once, and once more for each request
\* the owner forces, in whatever order the oracle answers (finalSettlement
\* itself does not look at the policy's status).
THEOREM SettledOnce == Spec => []SettledAtMostOnce
<1>1. Init => TypeInv /\ IdInv /\ SettleInv BY InitType, InitIds, InitSettle
<1>2. TypeInv /\ IdInv /\ SettleInv /\ [Next]_vars
          => (TypeInv /\ IdInv /\ SettleInv)'
  BY NextStep, NextIds, NextSettle
<1>3. TypeInv /\ SettleInv => SettledAtMostOnce
  BY PendingFacts DEF SettleInv, SettledAtMostOnce
<1>4. QED BY <1>1, <1>2, <1>3, PTL DEF Spec

(***************************************************************************)
(* The pool's balances and the open policies                               *)
(***************************************************************************)
Cap == 180 * UNIT

\* What each policy holds locked, and its share of the active premiums.
Payoffs ==
    [p \in PolicyIds |-> IF policyList[p].status = "SOLD"
                         THEN policyList[p].payoff ELSE 0]
Premiums ==
    [p \in PolicyIds |-> IF policyList[p].status = "SOLD"
                         THEN policyList[p].premium ELSE 0]

\* The status tells whether a policy has been settled.
StatusInv ==
    \A p \in PolicyIds :
        settledTimes[p] = 0 <=> policyList[p].status \in {"INI", "SOLD"}

\* Every policy was sold with the payoff that its settlement will release.
PayoffInv ==
    "payoff" \notin ownerTouched =>
        MAX_PAYOFF = Cap /\ \A p \in Issued : policyList[p].payoff = Cap

\* The pool's balances are sums over the open policies.
BookInv ==
    Undisturbed =>
        /\ lockedBalance = SumOver(Payoffs, PolicyIds)
        /\ lockedBalance = Cap * Cardinality(OpenPolicies)
        /\ activePremiums = SumOver(Premiums, PolicyIds)

CoverInv == StatusInv /\ PayoffInv /\ BookInv

-----------------------------------------------------------------------------
(* What a step does to the policies and to the balances *)

\* Nothing is sold and nothing is settled.
Keeps ==
    /\ UNCHANGED <<lockedBalance, activePremiums, settledTimes, totalPolicies>>
    /\ \A p \in PolicyIds : /\ policyList'[p].status = policyList[p].status
                            /\ policyList'[p].payoff = policyList[p].payoff
                            /\ policyList'[p].premium = policyList[p].premium

\* The policies other than q stay.
OthersKept(q) ==
    \A p \in PolicyIds : p # q => /\ policyList'[p] = policyList[p]
                                  /\ settledTimes'[p] = settledTimes[p]

Sells(q) ==
    /\ q = totalPolicies + 1 /\ totalPolicies' = q
    /\ OthersKept(q) /\ settledTimes'[q] = settledTimes[q]
    /\ policyList'[q].status = "SOLD" /\ policyList'[q].payoff = MAX_PAYOFF
    /\ availableCapacity >= MAX_PAYOFF
    /\ totalStakingBalance' = totalStakingBalance
    /\ lockedBalance' = lockedBalance + MAX_PAYOFF
    /\ activePremiums' = activePremiums + policyList'[q].premium
    /\ MAX_PAYOFF' = MAX_PAYOFF

Settles(q) ==
    /\ q \in Issued /\ PendingFor(q) # {} /\ totalPolicies' = totalPolicies
    /\ OthersKept(q) /\ settledTimes'[q] = settledTimes[q] + 1
    /\ policyList'[q].status \in {"EXPIRED", "CLAIMED"}
    /\ policyList'[q].payoff = policyList[q].payoff
    /\ lockedBalance' = lockedBalance - MAX_PAYOFF
    /\ activePremiums' = activePremiums - policyList[q].premium
    /\ totalStakingBalance' >= totalStakingBalance - MAX_PAYOFF
    /\ MAX_PAYOFF' = MAX_PAYOFF

\* The providers' money is only moved by themselves and by settlements, and a
\* withdrawal is covered by the available capacity.
Staking ==
    \/ totalStakingBalance' = totalStakingBalance
    \/ totalStakingBalance' > totalStakingBalance
    \/ /\ totalStakingBalance' < totalStakingBalance
       /\ Split => totalStakingBalance' >= lockedBalance

\* The finitely many policies.
LEMMA PoliciesFinite ==
    /\ IsFiniteSet(PolicyIds)
    /\ PolicyIds \subseteq Nat
    /\ Cap \in Nat
<1>1. MaxPolicies \in Int  BY BoundAssumption
<1>2. IsFiniteSet(1..MaxPolicies)  BY <1>1, FS_Interval
<1> QED  BY <1>2, UnitAssumption DEF PolicyIds, Cap

\* A purchase sells the next policy.
LEMMA BuyerSells ==
    ASSUME TypeInv, IdInv, Buyer
    PROVE  \E q \in PolicyIds \ Issued : Sells(q)
<1>1. PICK u \in Buyers, o \in Quotes : newApplication(u, o)  BY DEF Buyer
<1> DEFINE n == totalPolicies + 1
<1>2. n \in PolicyIds /\ n \notin Issued
  <2>1. totalPolicies \in Nat /\ totalPolicies < MaxPolicies /\ MaxPolicies \in Nat
    BY <1>1, BoundAssumption DEF newApplication, TypeInv, TypeOK, FlowTypeOK
  <2>2. n \in PolicyIds  BY <2>1 DEF PolicyIds
  <2> QED  BY <2>2, IssuedFacts
<1>3. \A p \in PolicyIds :
          policyList'[p] = IF p = n THEN NewPolicy(u, o) ELSE policyList[p]
  BY <1>1 DEF newApplication, TypeInv, TypeOK, FlowTypeOK
<1>4. /\ settledTimes' = settledTimes /\ totalPolicies' = n
      /\ MAX_PAYOFF' = MAX_PAYOFF
      /\ updateWhenBuy(o.premium, MAX_PAYOFF, u)
  BY <1>1 DEF newApplication, ghostVars, paramVars
<1>5. OthersKept(n)  BY <1>3, <1>4 DEF OthersKept
<1>6. /\ policyList'[n].status = "SOLD" /\ policyList'[n].payoff = MAX_PAYOFF
      /\ policyList'[n].premium = o.premium
  <2>1. policyList'[n] = NewPolicy(u, o)  BY <1>2, <1>3
  <2> QED  BY <2>1 DEF NewPolicy
<1>7. Sells(n)
  BY <1>4, <1>5, <1>6 DEF Sells, updateWhenBuy
<1> QED  BY <1>2, <1>7

\* An answer settles the policy that it is about, or is lost.
LEMMA AnswerSettles ==
    ASSUME TypeInv, Answer
    PROVE  \/ Keeps /\ UNCHANGED totalStakingBalance
           \/ \E q \in PolicyIds : Settles(q)
<1>1. PICK r \in RequestIds, d \in OracleResults :
          fulfill(r, d) \/ fulfillReverted(r, d)
  BY DEF Answer
<1>2. CASE fulfillReverted(r, d)
  BY <1>2 DEF fulfillReverted, Keeps, poolVars, reserveVars, policyVars, ghostVars
<1>3. CASE fulfill(r, d)
  <2> DEFINE q == requestList[r]
             premium == policyList[q].premium
  <2>1. q \in Issued /\ q \in PolicyIds /\ policyList[q] \in PolicyInfo
        /\ MAX_PAYOFF \in Nat /\ RealPayoff(d) \in Nat
    BY <1>3, IssuedFacts, PayoffNat, InputAssumption
    DEF fulfill, TypeInv, IssuedOK, TypeOK, FlowTypeOK
  <2>2. r \in PendingFor(q)  BY <1>3 DEF fulfill, PendingFor
  <2>3. /\ totalPolicies' = totalPolicies /\ MAX_PAYOFF' = MAX_PAYOFF
        /\ settledTimes' = [settledTimes EXCEPT ![q] = @ + 1]
    BY <1>3 DEF fulfill, paramVars
  <2>4. /\ OthersKept(q)
        /\ policyList'[q].status \in {"EXPIRED", "CLAIMED"}
        /\ policyList'[q].payoff = policyList[q].payoff
    BY <1>3, <2>1, <2>3
    DEF fulfill, _policyExpired, _policyClaimed, OthersKept, TypeInv, TypeOK,
        FlowTypeOK, PolicyInfo
  <2>5. settledTimes'[q] = settledTimes[q] + 1
    BY <2>1, <2>3 DEF TypeInv, TypeOK, FlowTypeOK
  <2>6. /\ lockedBalance' = lockedBalance - MAX_PAYOFF
        /\ activePremiums' = activePremiums - premium
        /\ totalStakingBalance' >= totalStakingBalance - MAX_PAYOFF
    <3>1. premium \in Nat /\ PoolTypeOK
      BY <2>1 DEF PolicyInfo, TypeInv, TypeOK
    <3>2. totalStakingBalance \in Nat  BY <3>1 DEF PoolTypeOK
    <3>3. CASE _policyExpired(q)
      <4>1. updateWhenExpire(premium, MAX_PAYOFF)  BY <3>3 DEF _policyExpired
      <4>2. RemainingPremium(premium) \in Nat
        BY <3>1, <4>1, DistributionFacts DEF updateWhenExpire, CanExpire
      <4> QED  BY <2>1, <3>2, <4>1, <4>2 DEF updateWhenExpire
    <3>4. CASE _policyClaimed(q, d)
      <4> DEFINE user == policyList[q].buyerAddress
      <4>1. payClaim(premium, MAX_PAYOFF, RealPayoff(d), user)
        BY <3>4 DEF _policyClaimed
      <4>2. RemainingPremium(premium) \in Nat
        BY <3>1, <4>1, DistributionFacts DEF payClaim, CanPayClaim
      <4> QED  BY <2>1, <3>2, <4>1, <4>2 DEF payClaim, CanPayClaim
    <3> QED  BY <1>3, <3>3, <3>4 DEF fulfill
  <2> QED  BY <2>1, <2>2, <2>3, <2>4, <2>5, <2>6 DEF Settles
<1> QED  BY <1>1, <1>2, <1>3

\* Providers move their own money, as far as it is not locked.
LEMMA ProviderKeeps ==
    ASSUME TypeInv, Provider
    PROVE  Keeps /\ Staking
<1>1. PICK u \in Providers : \/ \E a \in StakeAmounts : stake(u, a) \/ unstake(u, a)
                             \/ unstakeMax(u)
  BY DEF Provider
<1>2. /\ PoolTypeOK /\ u \in Users /\ StakeAmounts \subseteq Nat
      /\ totalStakingBalance \in Nat
  BY UserAssumption, InputAssumption DEF TypeInv, TypeOK, PoolTypeOK
<1>3. UNCHANGED <<policyList, settledTimes, totalPolicies>>
  BY DEF Provider, flowVars, policyVars, ghostVars
<1>4. ASSUME NEW a \in Nat, NEW v, _withdraw(u, a, v)
      PROVE  UNCHANGED <<lockedBalance, activePremiums>> /\ Staking
  <2>1. /\ UNCHANGED <<lockedBalance, activePremiums>>
        /\ totalStakingBalance' = totalStakingBalance - a
        /\ availableCapacity >= Mul(a, collateralFactor)
    BY <1>4 DEF _withdraw
  <2>2. ASSUME Split PROVE totalStakingBalance' >= lockedBalance
    <3>1. Mul(a, collateralFactor) = a  BY <2>2, MulByOne DEF Split
    <3> QED  BY <1>2, <2>1, <2>2, <3>1 DEF Split, PoolTypeOK
  <2> QED  BY <1>2, <2>1, <2>2 DEF Staking
<1>5. ASSUME NEW a \in StakeAmounts, stake(u, a)
      PROVE  UNCHANGED <<lockedBalance, activePremiums>> /\ Staking
  BY <1>2, <1>5 DEF stake, _deposit, Staking
<1>6. ASSUME NEW a \in StakeAmounts, unstake(u, a)
      PROVE  UNCHANGED <<lockedBalance, activePremiums>> /\ Staking
  <2>1. Smaller(a, Unlocked) \in Nat
    BY <1>2, <1>6 DEF unstake, Smaller, Unlocked, PoolTypeOK
  <2> QED  BY <1>4, <1>6, <2>1 DEF unstake
<1>7. ASSUME unstakeMax(u)
      PROVE  UNCHANGED <<lockedBalance, activePremiums>> /\ Staking
  <2> DEFINE value == FreshLPValue(usd[Pool], activePremiums)
  <2>1. value \in Nat /\ Mul(lpBalance[u], value) \in Nat
    BY <1>2, <1>7, RefreshedNat DEF unstakeMax
  <2>2. Smaller(Mul(lpBalance[u], value), Unlocked) \in Nat
    BY <1>2, <1>7, <2>1 DEF unstakeMax, Smaller, Unlocked, PoolTypeOK
  <2> QED  BY <1>4, <1>7, <2>2 DEF unstakeMax
<1>8. UNCHANGED <<lockedBalance, activePremiums>> /\ Staking
  BY <1>1, <1>5, <1>6, <1>7
<1> QED  BY <1>3, <1>8 DEF Keeps

\* Every step is of one of the three kinds.
LEMMA NextKinds ==
    ASSUME TypeInv, IdInv, [Next]_vars
    PROVE  \/ Keeps /\ Staking
           \/ \E q \in PolicyIds \ Issued : Sells(q)
           \/ \E q \in PolicyIds : Settles(q)
<1>1. CASE Tick
  BY <1>1 DEF Tick, poolVars, reserveVars, flowVars, policyVars, ghostVars, Keeps,
              Staking
<1>2. CASE Provider  BY <1>2, ProviderKeeps
<1>3. CASE Buyer  BY <1>3, BuyerSells
<1>4. CASE Claim \/ ForceUpdate
  <2>1. PICK q \in PolicyIds : newOracleRequest(q)
    BY <1>4 DEF Claim, ForceUpdate, newClaimRequest, forceClaimRequest
  <2>2. /\ UNCHANGED <<lockedBalance, activePremiums, settledTimes, totalPolicies>>
        /\ UNCHANGED totalStakingBalance
    BY <2>1 DEF newOracleRequest, poolVars, reserveVars
  <2>3. \A p \in PolicyIds : /\ policyList'[p].status = policyList[p].status
                             /\ policyList'[p].payoff = policyList[p].payoff
                             /\ policyList'[p].premium = policyList[p].premium
    BY <2>1 DEF newOracleRequest, RequestedPolicy, TypeInv, TypeOK, FlowTypeOK,
                PolicyInfo
  <2> QED  BY <2>2, <2>3 DEF Keeps, Staking
<1>5. CASE Answer  BY <1>5, AnswerSettles DEF Staking
<1>6. CASE TokenTransfer
  <2>1. PICK q \in Issued, u \in Users, v \in Recipients :
            transferOwner(q, u, v) \/ transferFrom(q, u, v)
    BY <1>6 DEF TokenTransfer
  <2>2. /\ UNCHANGED <<lockedBalance, activePremiums, settledTimes, totalPolicies>>
        /\ UNCHANGED totalStakingBalance
    BY <2>1 DEF transferOwner, transferFrom, moveToken, poolVars, reserveVars,
                ghostVars
  <2>3. \A p \in PolicyIds : /\ policyList'[p].status = policyList[p].status
                             /\ policyList'[p].payoff = policyList[p].payoff
                             /\ policyList'[p].premium = policyList[p].premium
    BY <2>1 DEF transferOwner, transferFrom, policyOwnerTransfer, TypeInv, TypeOK,
                FlowTypeOK, PolicyInfo
  <2> QED  BY <2>2, <2>3 DEF Keeps, Staking
<1>7. CASE Owner
  <2>1. UNCHANGED <<policyList, settledTimes, totalPolicies>>
    BY <1>7 DEF Owner, OwnerOfPool, Touch, setMaxPayoff, setDelayThreshold,
                setMinTimeBeforeDeparture, setFee, policyVars
  <2>2. UNCHANGED <<lockedBalance, activePremiums, totalStakingBalance>>
    BY <1>7 DEF Owner, OwnerOfPool, setMaxPayoff, setDelayThreshold,
                setMinTimeBeforeDeparture, setFee, setFrozenTime,
                setRewardDistribution, setCollateralFactor, poolVars, reserveVars
  <2> QED  BY <2>1, <2>2 DEF Keeps, Staking
<1>8. CASE UNCHANGED vars
  BY <1>8 DEF vars, poolVars, reserveVars, flowVars, policyVars, ghostVars, Keeps,
              Staking
<1> QED  BY <1>1, <1>2, <1>3, <1>4, <1>5, <1>6, <1>7, <1>8 DEF Next

\* What the owner has done is not undone.
LEMMA NextTouches ==
    ASSUME TypeInv, [Next]_vars
    PROVE  /\ ownerTouched \subseteq ownerTouched'
           /\ Undisturbed' => Undisturbed
           /\ MAX_PAYOFF' = MAX_PAYOFF \/ "payoff" \in ownerTouched'
<1>1. CASE ForceUpdate
  <2>1. PICK q \in PolicyIds : forceClaimRequest(q)  BY <1>1 DEF ForceUpdate
  <2>2. UNCHANGED <<ownerTouched, MAX_PAYOFF>>
    BY <2>1 DEF forceClaimRequest, newOracleRequest, paramVars
  <2>3. forcedTimes'[q] # 0
    BY <2>1 DEF forceClaimRequest, TypeInv, TypeOK, FlowTypeOK
  <2> QED  BY <2>2, <2>3 DEF Undisturbed
<1>2. CASE Owner
  <2>1. ownerTouched \subseteq ownerTouched' /\ forcedTimes' = forcedTimes
    BY <1>2 DEF Owner, OwnerOfPool, Touch, setMaxPayoff, setDelayThreshold,
                setMinTimeBeforeDeparture, setFee
  <2>2. MAX_PAYOFF' = MAX_PAYOFF \/ "payoff" \in ownerTouched'
    BY <1>2 DEF Owner, Touch, setMaxPayoff, setDelayThreshold,
                setMinTimeBeforeDeparture, setFee, paramVars
  <2> QED  BY <2>1, <2>2 DEF Undisturbed
<1>3. CASE UNCHANGED <<ownerTouched, forcedTimes, MAX_PAYOFF>>
  BY <1>3 DEF Undisturbed
<1>4. Tick \/ Provider \/ Buyer \/ Claim \/ Answer \/ TokenTransfer \/ UNCHANGED vars
          => UNCHANGED <<ownerTouched, forcedTimes, MAX_PAYOFF>>
  BY DEF Tick, Provider, Buyer, newApplication, Claim, newClaimRequest,
         newOracleRequest, Answer, fulfill, fulfillReverted, TokenTransfer,
         transferOwner, transferFrom, moveToken, flowVars, paramVars, ghostVars, vars
<1> QED  BY <1>1, <1>2, <1>3, <1>4 DEF Next

-----------------------------------------------------------------------------
(* The balances follow the open policies *)

\* The parameters of a step that the invariant depends on.
Touches ==
    /\ ownerTouched \subseteq ownerTouched'
    /\ Undisturbed' => Undisturbed
    /\ MAX_PAYOFF' = MAX_PAYOFF \/ "payoff" \in ownerTouched'

\* Terms and sums are natural numbers.
LEMMA TermsNat ==
    ASSUME TypeInv
    PROVE  /\ \A p \in PolicyIds : Payoffs[p] \in Nat /\ Premiums[p] \in Nat
           /\ IsFiniteSet(OpenPolicies) /\ Cardinality(OpenPolicies) \in Nat
           /\ lockedBalance \in Nat /\ activePremiums \in Nat
           /\ totalStakingBalance \in Nat /\ availableCapacity \in Nat
<1>1. \A p \in PolicyIds : Payoffs[p] \in Nat /\ Premiums[p] \in Nat
  BY DEF Payoffs, Premiums, TypeInv, TypeOK, FlowTypeOK, PolicyInfo
<1>2. IsFiniteSet(OpenPolicies)
  BY PoliciesFinite, FS_Subset DEF OpenPolicies
<1>3. Cardinality(OpenPolicies) \in Nat  BY <1>2, FS_CardinalityType
<1> QED  BY <1>1, <1>2, <1>3 DEF TypeInv, TypeOK, PoolTypeOK

LEMMA TermsNatNext ==
    TypeInv' => \A p \in PolicyIds : Payoffs'[p] \in Nat /\ Premiums'[p] \in Nat
  BY DEF Payoffs, Premiums, TypeInv, TypeOK, FlowTypeOK, PolicyInfo

LEMMA KeepsCover ==
    ASSUME TypeInv, TypeInv', CoverInv, Keeps, Touches
    PROVE  CoverInv'
<1>1. StatusInv'  BY DEF CoverInv, StatusInv, Keeps
<1>2. PayoffInv'
  BY IssuedFacts DEF CoverInv, PayoffInv, Keeps, Touches, Issued
<1>3. BookInv'
  <2> SUFFICES ASSUME Undisturbed'
               PROVE  /\ lockedBalance' = SumOver(Payoffs', PolicyIds)
                      /\ lockedBalance' = Cap * Cardinality(OpenPolicies')
                      /\ activePremiums' = SumOver(Premiums', PolicyIds)
    BY DEF BookInv
  <2> DEFINE A == Payoffs
             B == Payoffs'
             C == Premiums
             D == Premiums'
  <2>1. \A p \in PolicyIds : A[p] = B[p] /\ C[p] = D[p]
    BY DEF Payoffs, Premiums, Keeps
  <2>2. /\ lockedBalance = SumOver(A, PolicyIds)
        /\ lockedBalance = Cap * Cardinality(OpenPolicies)
        /\ activePremiums = SumOver(C, PolicyIds)
    BY DEF CoverInv, BookInv, Touches
  <2>3. OpenPolicies' = OpenPolicies  BY DEF OpenPolicies, Keeps
  <2>4. lockedBalance' = lockedBalance /\ activePremiums' = activePremiums
    BY DEF Keeps
  <2> HIDE DEF A, B, C, D
  <2>5. \A p \in PolicyIds : A[p] = B[p]  BY <2>1
  <2>6. \A p \in PolicyIds : C[p] = D[p]  BY <2>1
  <2>7. SumOver(A, PolicyIds) = SumOver(B, PolicyIds)
    BY <2>5, PoliciesFinite, SumSame
  <2>8. SumOver(C, PolicyIds) = SumOver(D, PolicyIds)
    BY <2>6, PoliciesFinite, SumSame
  <2> QED  BY <2>2, <2>3, <2>4, <2>7, <2>8 DEF B, D
<1> QED  BY <1>1, <1>2, <1>3 DEF CoverInv

\* The sums move with the terms of the one policy that is sold or settled.
LEMMA TermMoves ==
    ASSUME TypeInv, TypeInv', NEW q \in PolicyIds, OthersKept(q)
    PROVE  /\ SumOver(Payoffs', PolicyIds)
                  = SumOver(Payoffs, PolicyIds) + (Payoffs'[q] - Payoffs[q])
           /\ SumOver(Premiums', PolicyIds)
                  = SumOver(Premiums, PolicyIds) + (Premiums'[q] - Premiums[q])
           /\ SumOver(Payoffs, PolicyIds) \in Nat
           /\ SumOver(Premiums, PolicyIds) \in Nat
<1> DEFINE A == Payoffs
           B == Payoffs'
           C == Premiums
           D == Premiums'
<1>1. \A p \in PolicyIds : p # q => B[p] = A[p] /\ D[p] = C[p]
  BY DEF OthersKept, Payoffs, Premiums
<1>2. \A p \in PolicyIds : A[p] \in Nat /\ B[p] \in Nat /\ C[p] \in Nat /\ D[p] \in Nat
  BY TermsNat, TermsNatNext
<1> HIDE DEF A, B, C, D
<1>3. \A p \in PolicyIds : p # q => B[p] = A[p]  BY <1>1
<1>4. \A p \in PolicyIds : p # q => D[p] = C[p]  BY <1>1
<1>5. \A p \in PolicyIds : A[p] \in Int  BY <1>2
<1>6. SumOver(B, PolicyIds) = SumOver(A, PolicyIds) + (B[q] - A[q])
  <2>1. B[q] \in Int  BY <1>2
  <2>2. IsFiniteSet(PolicyIds)  BY PoliciesFinite
  <2> QED  BY <1>3, <1>5, <2>1, <2>2, SumChange
<1>7. SumOver(D, PolicyIds) = SumOver(C, PolicyIds) + (D[q] - C[q])
  <2>1. \A p \in PolicyIds : C[p] \in Int  BY <1>2
  <2>2. D[q] \in Int  BY <1>2
  <2>3. IsFiniteSet(PolicyIds)  BY PoliciesFinite
  <2> QED  BY <1>4, <2>1, <2>2, <2>3, SumChange
<1>8. \A p \in PolicyIds : A[p] \in Nat  BY <1>2
<1>9. \A p \in PolicyIds : C[p] \in Nat  BY <1>2
<1>10. SumOver(A, PolicyIds) \in Nat  BY <1>8, PoliciesFinite, SumNat
<1>11. SumOver(C, PolicyIds) \in Nat  BY <1>9, PoliciesFinite, SumNat
<1> QED  BY <1>6, <1>7, <1>10, <1>11 DEF A, B, C, D

LEMMA SellsCover ==
    ASSUME TypeInv, TypeInv', IdInv, CoverInv, Touches,
           NEW q \in PolicyIds \ Issued, Sells(q)
    PROVE  CoverInv'
<1>1. /\ policyList[q].status = "INI" /\ policyList'[q].status = "SOLD"
      /\ OthersKept(q) /\ settledTimes'[q] = settledTimes[q]
  BY DEF Sells, IdInv, EmptyPolicy
<1>2. StatusInv'
  BY <1>1 DEF CoverInv, StatusInv, OthersKept
<1>3. PayoffInv'
  <2> SUFFICES ASSUME "payoff" \notin ownerTouched'
               PROVE  MAX_PAYOFF' = Cap /\ \A p \in Issued' : policyList'[p].payoff = Cap
    BY DEF PayoffInv
  <2>1. MAX_PAYOFF = Cap /\ \A p \in Issued : policyList[p].payoff = Cap
    BY DEF Touches, CoverInv, PayoffInv
  <2>2. Issued' = Issued \cup {q} /\ Issued \subseteq PolicyIds
    BY IssuedFacts DEF Sells
  <2> QED  BY <2>1, <2>2 DEF Sells, OthersKept
<1>4. BookInv'
  <2> SUFFICES ASSUME Undisturbed'
               PROVE  /\ lockedBalance' = SumOver(Payoffs', PolicyIds)
                      /\ lockedBalance' = Cap * Cardinality(OpenPolicies')
                      /\ activePremiums' = SumOver(Premiums', PolicyIds)
    BY DEF BookInv
  <2>1. /\ lockedBalance = SumOver(Payoffs, PolicyIds)
        /\ lockedBalance = Cap * Cardinality(OpenPolicies)
        /\ activePremiums = SumOver(Premiums, PolicyIds)
        /\ MAX_PAYOFF = Cap
    BY DEF CoverInv, BookInv, PayoffInv, Touches, Undisturbed
  <2>2. /\ Payoffs[q] = 0 /\ Payoffs'[q] = Cap
        /\ Premiums[q] = 0 /\ Premiums'[q] = policyList'[q].premium
    BY <1>1, <2>1 DEF Payoffs, Premiums, Sells
  <2>3. OpenPolicies' = OpenPolicies \cup {q} /\ q \notin OpenPolicies
    BY <1>1 DEF OpenPolicies, OthersKept
  <2>4. Cardinality(OpenPolicies') = Cardinality(OpenPolicies) + 1
    BY <2>3, TermsNat, FS_AddElement
  <2>5. \A n \in Nat : Cap * (n + 1) = Cap * n + Cap  BY PoliciesFinite
  <2>6. lockedBalance' = Cap * Cardinality(OpenPolicies')
    BY <2>1, <2>4, <2>5, TermsNat DEF Sells
  <2>7. Premiums'[q] \in Nat  BY TermsNatNext
  <2>8. /\ lockedBalance' = SumOver(Payoffs', PolicyIds)
        /\ activePremiums' = SumOver(Premiums', PolicyIds)
    BY <1>1, <2>1, <2>2, <2>7, TermMoves, PoliciesFinite DEF Sells
  <2> QED  BY <2>6, <2>8
<1> QED  BY <1>2, <1>3, <1>4 DEF CoverInv

\* Without a forced request the policy that is settled is open: its settlement
\* releases what its sale has locked.
LEMMA SettlesOpen ==
    ASSUME TypeInv, IdInv, SettleInv, CoverInv, Undisturbed,
           NEW q \in PolicyIds, q \in Issued, PendingFor(q) # {}
    PROVE  policyList[q].status = "SOLD" /\ policyList[q].payoff = MAX_PAYOFF
<1>1. /\ IsFiniteSet(PendingFor(q)) /\ Cardinality(PendingFor(q)) \in Nat
      /\ Chance(q) \in 0..1 /\ settledTimes[q] \in Nat
  BY PendingFacts
<1>2. Cardinality(PendingFor(q)) # 0  BY <1>1, FS_EmptySet
<1>3. forcedTimes[q] = 0  BY DEF Undisturbed
<1>4. settledTimes[q] = 0
  <2>1. settledTimes[q] + Cardinality(PendingFor(q)) + Chance(q) <= 1 + forcedTimes[q]
    BY DEF SettleInv
  <2> QED  BY <1>1, <1>2, <1>3, <2>1
<1>5. policyList[q].status \in {"INI", "SOLD"}  BY <1>4 DEF CoverInv, StatusInv
<1>6. policyList[q].status # "INI"  BY DEF IdInv
<1>7. policyList[q].payoff = MAX_PAYOFF
  BY DEF CoverInv, PayoffInv, Undisturbed
<1> QED  BY <1>5, <1>6, <1>7

LEMMA SettlesCover ==
    ASSUME TypeInv, TypeInv', IdInv, SettleInv, CoverInv, Touches,
           NEW q \in PolicyIds, Settles(q)
    PROVE  CoverInv'
<1>1. /\ q \in Issued /\ OthersKept(q)
      /\ policyList'[q].status \in {"EXPIRED", "CLAIMED"}
      /\ policyList'[q].payoff = policyList[q].payoff
      /\ settledTimes[q] \in Nat /\ settledTimes'[q] = settledTimes[q] + 1
  BY DEF Settles, TypeInv, TypeOK, FlowTypeOK
<1>2. StatusInv'
  BY <1>1 DEF CoverInv, StatusInv, OthersKept
<1>3. PayoffInv'
  <2>1. Issued' = Issued /\ Issued \subseteq PolicyIds  BY IssuedFacts DEF Settles
  <2> QED  BY <1>1, <2>1 DEF PayoffInv, CoverInv, Touches, OthersKept
<1>4. BookInv'
  <2> SUFFICES ASSUME Undisturbed'
               PROVE  /\ lockedBalance' = SumOver(Payoffs', PolicyIds)
                      /\ lockedBalance' = Cap * Cardinality(OpenPolicies')
                      /\ activePremiums' = SumOver(Premiums', PolicyIds)
    BY DEF BookInv
  <2>1. /\ lockedBalance = SumOver(Payoffs, PolicyIds)
        /\ lockedBalance = Cap * Cardinality(OpenPolicies)
        /\ activePremiums = SumOver(Premiums, PolicyIds)
        /\ MAX_PAYOFF = Cap /\ Undisturbed
    BY DEF CoverInv, BookInv, PayoffInv, Touches, Undisturbed
  <2>2. policyList[q].status = "SOLD" /\ policyList[q].payoff = MAX_PAYOFF
    BY <2>1, SettlesOpen DEF Settles
  <2>3. /\ Payoffs[q] = Cap /\ Payoffs'[q] = 0
        /\ Premiums[q] = policyList[q].premium /\ Premiums'[q] = 0
    BY <1>1, <2>1, <2>2 DEF Payoffs, Premiums
  <2>4. OpenPolicies' = OpenPolicies \ {q} /\ q \in OpenPolicies
    BY <1>1, <2>2 DEF OpenPolicies, OthersKept
  <2>5. Cardinality(OpenPolicies') = Cardinality(OpenPolicies) - 1
    BY <2>4, TermsNat, FS_RemoveElement
  <2>6. \A n \in Nat : Cap * (n - 1) = Cap * n - Cap  BY PoliciesFinite
  <2>7. lockedBalance' = Cap * Cardinality(OpenPolicies')
    BY <2>1, <2>5, <2>6, TermsNat DEF Settles
  <2>8. Premiums[q] \in Nat  BY TermsNat
  <2>9. /\ lockedBalance' = SumOver(Payoffs', PolicyIds)
        /\ activePremiums' = SumOver(Premiums', PolicyIds)
    BY <1>1, <2>1, <2>3, <2>8, TermMoves, PoliciesFinite DEF Settles
  <2> QED  BY <2>7, <2>9
<1> QED  BY <1>2, <1>3, <1>4 DEF CoverInv

LEMMA NextCover ==
    ASSUME TypeInv, TypeInv', IdInv, SettleInv, CoverInv, [Next]_vars
    PROVE  CoverInv'
<1>1. Touches  BY NextTouches DEF Touches
<1> QED  BY <1>1, NextKinds, KeepsCover, SellsCover, SettlesCover

LEMMA InitCover == Init => CoverInv
<1> SUFFICES ASSUME Init PROVE CoverInv  OBVIOUS
<1>1. \A p \in PolicyIds : policyList[p].status = "INI"
  BY DEF Init, EmptyPolicy
<1>2. StatusInv  BY <1>1 DEF Init, StatusInv
<1>3. PayoffInv  BY DEF Init, PayoffInv, Issued, Cap
<1>4. BookInv
  <2> DEFINE A == Payoffs
             C == Premiums
  <2>1. \A p \in PolicyIds : A[p] = 0 /\ C[p] = 0
    BY <1>1 DEF Payoffs, Premiums
  <2>2. OpenPolicies = {}  BY <1>1 DEF OpenPolicies
  <2> HIDE DEF A, C
  <2>3. \A p \in PolicyIds : A[p] = 0  BY <2>1
  <2>4. \A p \in PolicyIds : C[p] = 0  BY <2>1
  <2>5. SumOver(A, PolicyIds) = 0  BY <2>3, PoliciesFinite, SumZero
  <2>6. SumOver(C, PolicyIds) = 0  BY <2>4, PoliciesFinite, SumZero
  <2>7. Cap * Cardinality(OpenPolicies) = 0
    BY <2>2, FS_EmptySet, PoliciesFinite
  <2> QED  BY <2>5, <2>6, <2>7 DEF A, C, BookInv, Init, PoolInit
<1> QED  BY <1>2, <1>3, <1>4 DEF CoverInv

LEMMA SettlementInvariant == Spec => [](TypeInv /\ IdInv /\ SettleInv)
<1>1. Init => TypeInv /\ IdInv /\ SettleInv  BY InitType, InitIds, InitSettle
<1>2. TypeInv /\ IdInv /\ SettleInv /\ [Next]_vars
          => (TypeInv /\ IdInv /\ SettleInv)'
  BY NextStep, NextIds, NextSettle
<1> QED  BY <1>1, <1>2, PTL DEF Spec

LEMMA CoverInvariant == Spec => []CoverInv
<1>1. TypeInv /\ TypeInv' /\ IdInv /\ SettleInv /\ CoverInv /\ [Next]_vars => CoverInv'
  BY NextCover
<1> QED  BY <1>1, InitCover, SettlementInvariant, PTL DEF Spec

-----------------------------------------------------------------------------
(* The pool's balances are sums over the open policies *)

\* MapThenSumSet of the payoffs, as LockedCoversOpenPolicies takes it.
LEMMA PayoffsAreSum ==
    ASSUME TypeInv
    PROVE  MapThenSumSet(LAMBDA p : policyList[p].payoff, OpenPolicies)
               = SumOver(Payoffs, PolicyIds)
<1> DEFINE P == OpenPolicies
           f == Payoffs
           Solves(e) == e = [t \in SUBSET P |->
                    IF t = {} THEN 0
                    ELSE policyList[CHOOSE x \in t : TRUE].payoff
                         + e[t \ {CHOOSE x \in t : TRUE}]]
           h == CHOOSE e : Solves(e)
<1>1. MapThenSumSet(LAMBDA p : policyList[p].payoff, OpenPolicies) = h[P]
  BY DEF MapThenSumSet, MapThenFoldSet
<1>2. IsFiniteSet(P)  BY TermsNat
<1>3. \A t \in SUBSET P : t # {} =>
          policyList[CHOOSE x \in t : TRUE].payoff = f[CHOOSE x \in t : TRUE]
  <2>1. \A p \in P : f[p] = policyList[p].payoff  BY DEF Payoffs, OpenPolicies
  <2> HIDE DEF P, f
  <2>2. \A t \in SUBSET P : t # {} => (CHOOSE x \in t : TRUE) \in P  OBVIOUS
  <2> QED  BY <2>1, <2>2
<1>4. PICK g : IsSum(g, f, P)  BY <1>2, SumExists
<1>5. \A e : IsSum(e, f, P) <=> Solves(e)
  BY <1>3 DEF IsSum
<1> HIDE DEF Solves
<1>6. IsSum(h, f, P)
  <2> HIDE DEF P, f
  <2> QED  BY <1>4, <1>5
<1> HIDE DEF h
<1>7. h[P] = SumOver(f, P)  BY <1>2, <1>6, SumUnique
<1>8. SumOver(f, PolicyIds) = SumOver(f, P)
  <2>1. P \in SUBSET PolicyIds  BY DEF OpenPolicies
  <2>2. \A p \in PolicyIds : f[p] \in Nat  BY TermsNat
  <2>3. \A p \in PolicyIds \ P : f[p] = 0  BY DEF Payoffs, OpenPolicies
  <2>4. IsFiniteSet(PolicyIds)  BY PoliciesFinite
  <2> HIDE DEF P, f
  <2>5. \A p \in PolicyIds : f[p] \in Int  BY <2>2
  <2> QED  BY <2>1, <2>3, <2>4, <2>5, SumOutside
<1> QED  BY <1>1, <1>7, <1>8

\* The same for the premiums.
LEMMA PremiumsAreSum ==
    ASSUME TypeInv
    PROVE  MapThenSumSet(LAMBDA p : policyList[p].premium, OpenPolicies)
               = SumOver(Premiums, PolicyIds)
<1> DEFINE P == OpenPolicies
           f == Premiums
           Solves(e) == e = [t \in SUBSET P |->
                    IF t = {} THEN 0
                    ELSE policyList[CHOOSE x \in t : TRUE].premium
                         + e[t \ {CHOOSE x \in t : TRUE}]]
           h == CHOOSE e : Solves(e)
<1>1. MapThenSumSet(LAMBDA p : policyList[p].premium, OpenPolicies) = h[P]
  BY DEF MapThenSumSet, MapThenFoldSet
<1>2. IsFiniteSet(P)  BY TermsNat
<1>3. \A t \in SUBSET P : t # {} =>
          policyList[CHOOSE x \in t : TRUE].premium = f[CHOOSE x \in t : TRUE]
  <2>1. \A p \in P : f[p] = policyList[p].premium  BY DEF Premiums, OpenPolicies
  <2> HIDE DEF P, f
  <2>2. \A t \in SUBSET P : t # {} => (CHOOSE x \in t : TRUE) \in P  OBVIOUS
  <2> QED  BY <2>1, <2>2
<1>4. PICK g : IsSum(g, f, P)  BY <1>2, SumExists
<1>5. \A e : IsSum(e, f, P) <=> Solves(e)
  BY <1>3 DEF IsSum
<1> HIDE DEF Solves
<1>6. IsSum(h, f, P)
  <2> HIDE DEF P, f
  <2> QED  BY <1>4, <1>5
<1> HIDE DEF h
<1>7. h[P] = SumOver(f, P)  BY <1>2, <1>6, SumUnique
<1>8. SumOver(f, PolicyIds) = SumOver(f, P)
  <2>1. P \in SUBSET PolicyIds  BY DEF OpenPolicies
  <2>2. \A p \in PolicyIds : f[p] \in Nat  BY TermsNat
  <2>3. \A p \in PolicyIds \ P : f[p] = 0  BY DEF Premiums, OpenPolicies
  <2>4. IsFiniteSet(PolicyIds)  BY PoliciesFinite
  <2> HIDE DEF P, f
  <2>5. \A p \in PolicyIds : f[p] \in Int  BY <2>2
  <2> QED  BY <2>1, <2>3, <2>4, <2>5, SumOutside
<1> QED  BY <1>1, <1>7, <1>8

\* What InsurancePool counts up and down in four functions is at any time the
\* sum over the policies that PolicyFlow has open, for any number of policies
\* and every order of sales, settlements and lost answers, unless the owner
\* changes the maximum payoff or forces a request.
THEOREM BalancesAreSums == Spec => []LockedCoversOpenPolicies
<1>1. TypeInv /\ CoverInv => LockedCoversOpenPolicies
  BY PayoffsAreSum, PremiumsAreSum
  DEF CoverInv, BookInv, LockedCoversOpenPolicies
<1> QED  BY <1>1, SettlementInvariant, CoverInvariant, PTL

-----------------------------------------------------------------------------
(* Every open policy can be settled *)

\* The parameters that decide whether a settlement reverts are as deployed.
DeployedInv ==
    /\ "threshold" \notin ownerTouched =>
           DELAY_THRESHOLD_MIN = 30 /\ DELAY_THRESHOLD_MAX = 240
    /\ "distribution" \notin ownerTouched =>
           rewardDistribution = [lp |-> 50, lottery |-> 40, emergency |-> 10]
    /\ "factor" \notin ownerTouched => Split

LEMMA NextDeployed ==
    ASSUME TypeInv, DeployedInv, [Next]_vars
    PROVE  DeployedInv'
<1>1. ownerTouched \subseteq ownerTouched'  BY NextTouches
<1>2. "factor" \notin ownerTouched' => Split'
  BY <1>1, NextStep DEF DeployedInv
<1>3. UNCHANGED <<DELAY_THRESHOLD_MIN, DELAY_THRESHOLD_MAX>>
          \/ "threshold" \in ownerTouched'
  <2>1. CASE Owner
    BY <2>1 DEF Owner, Touch, setMaxPayoff, setDelayThreshold,
                setMinTimeBeforeDeparture, setFee, paramVars
  <2>2. Tick \/ Provider \/ Buyer \/ Claim \/ ForceUpdate \/ Answer \/ TokenTransfer
            \/ UNCHANGED vars => UNCHANGED paramVars
    BY DEF Tick, Provider, Buyer, newApplication, Claim, newClaimRequest,
           ForceUpdate, forceClaimRequest, newOracleRequest, Answer, fulfill,
           fulfillReverted, TokenTransfer, transferOwner, transferFrom, moveToken,
           flowVars, vars
  <2> QED  BY <2>1, <2>2 DEF Next, paramVars
<1>4. UNCHANGED rewardDistribution \/ "distribution" \in ownerTouched'
  <2>1. CASE Owner
    BY <2>1 DEF Owner, OwnerOfPool, Touch, setMaxPayoff, setDelayThreshold,
                setMinTimeBeforeDeparture, setFee, setFrozenTime,
                setRewardDistribution, setCollateralFactor, poolVars, factorVars
  <2>2. CASE Provider
    BY <2>2 DEF Provider, stake, unstake, unstakeMax, _deposit, _withdraw, factorVars
  <2>3. CASE Buyer
    BY <2>3 DEF Buyer, newApplication, updateWhenBuy, factorVars
  <2>4. CASE Answer
    BY <2>4 DEF Answer, fulfill, fulfillReverted, _policyExpired, _policyClaimed,
                updateWhenExpire, payClaim, poolVars, factorVars
  <2>5. Tick \/ Claim \/ ForceUpdate \/ TokenTransfer \/ UNCHANGED vars
            => UNCHANGED poolVars
    BY DEF Tick, Claim, newClaimRequest, ForceUpdate, forceClaimRequest,
           newOracleRequest, TokenTransfer, transferOwner, transferFrom, moveToken,
           vars
  <2> QED  BY <2>1, <2>2, <2>3, <2>4, <2>5 DEF Next, poolVars, factorVars
<1> QED  BY <1>1, <1>2, <1>3, <1>4 DEF DeployedInv

LEMMA DeployedInvariant == Spec => []DeployedInv
<1>1. Init => DeployedInv
  BY DEF Init, PoolInit, DeployedInv, Split
<1>2. TypeInv /\ DeployedInv /\ [Next]_vars => DeployedInv'  BY NextDeployed
<1> QED  BY <1>1, <1>2, SettlementInvariant, PTL DEF Spec

\* A share of k hundredths of a premium, rounded twice, is at most half a unit
\* above k hundredths.
LEMMA ShareBound ==
    ASSUME NEW premium \in Nat, NEW k \in Nat
    PROVE  /\ Mul(premium, Div(k, 100)) \in Nat
           /\ 100 * Mul(premium, Div(k, 100)) <= k * premium + 50
<1> DEFINE rate == Div(k, 100)
           half == SCALE \div 2
           m    == Mul(premium, rate)
<1>1. SCALE \in Nat /\ SCALE > 0  BY ScaleAssumption
<1>2. rate \in Nat /\ 100 * rate <= k * SCALE
  <2> DEFINE n == k * SCALE
  <2>1. n \in Nat  BY <1>1, ProductNat
  <2> HIDE DEF n
  <2>2. n \div 100 \in Nat /\ 100 * (n \div 100) <= n  BY <2>1, Z3
  <2> QED  BY <2>2 DEF n, Div
<1>3. half \in Nat /\ 2 * half <= SCALE  BY <1>1, Z3
<1>4. m \in Nat /\ m * SCALE <= premium * rate + half
  <2> DEFINE n == premium * rate + half
  <2>1. n \in Nat  BY <1>2, <1>3, ProductNat
  <2> HIDE DEF n
  <2>2. n \div SCALE \in Nat /\ (n \div SCALE) * SCALE <= n
    BY <1>1, <2>1, QuotientBounds
  <2>3. m = n \div SCALE  BY DEF Mul, n
  <2> QED  BY <2>2, <2>3 DEF n
<1> HIDE DEF rate, half, m
<1>5. premium * (100 * rate) <= premium * (k * SCALE)
  BY <1>1, <1>2, ProductNat, ProductMonotone
<1>6. (100 * m) * SCALE <= (k * premium + 50) * SCALE
  <2>1. 100 * (m * SCALE) <= 100 * (premium * rate) + 100 * half
    BY <1>1, <1>2, <1>3, <1>4, ProductNat
  <2>2. premium * (100 * rate) = 100 * (premium * rate)  BY <1>2
  <2>3. premium * (k * SCALE) = (k * premium) * SCALE  BY <1>1
  <2>4. (k * premium + 50) * SCALE = (k * premium) * SCALE + 50 * SCALE  BY <1>1
  <2>5. (100 * m) * SCALE = 100 * (m * SCALE)  BY <1>1, <1>4
  <2>6. /\ premium * rate \in Nat /\ (k * premium) * SCALE \in Nat
        /\ m * SCALE \in Nat /\ SCALE \in Nat
    BY <1>1, <1>2, <1>4, ProductNat
  <2> QED  BY <1>3, <1>5, <2>1, <2>2, <2>3, <2>4, <2>5, <2>6
<1>7. 100 * m <= k * premium + 50
  <2>1. 100 * m \in Nat /\ k * premium + 50 \in Nat  BY <1>4, ProductNat
  <2> QED  BY <1>1, <1>6, <2>1, ProductCancel
<1> QED  BY <1>4, <1>7 DEF m, rate

\* The lottery and the emergency pool never take more than the premium, though
\* both shares are rounded up from one half.
LEMMA PremiumCoversShares ==
    ASSUME NEW premium \in Nat,
           rewardDistribution = [lp |-> 50, lottery |-> 40, emergency |-> 10]
    PROVE  /\ EmergencyShare(premium) \in Nat /\ LotteryShare(premium) \in Nat
           /\ EmergencyShare(premium) + LotteryShare(premium) <= premium
<1>1. rewardDistribution.emergency = 10 /\ rewardDistribution.lottery = 40
  OBVIOUS
<1>2. /\ EmergencyShare(premium) \in Nat
      /\ 100 * EmergencyShare(premium) <= 10 * premium + 50
  BY <1>1, ShareBound DEF EmergencyShare
<1>3. /\ LotteryShare(premium) \in Nat
      /\ 100 * LotteryShare(premium) <= 40 * premium + 50
  BY <1>1, ShareBound DEF LotteryShare
<1> QED  BY <1>2, <1>3

\* No delay below the threshold is paid more than the maximum payoff.
LEMMA PayoffCapped ==
    ASSUME NEW d \in Nat, NormalResult(d), MAX_PAYOFF = Cap,
           DELAY_THRESHOLD_MIN = 30, DELAY_THRESHOLD_MAX = 240
    PROVE  RealPayoff(d) \in Nat /\ RealPayoff(d) <= Cap
<1>1. CASE d <= 240
  <2> DEFINE hundredths == IF d <= 30 THEN 0 ELSE (d * d) \div 480
  <2>1. d * d \in Nat /\ d * d <= 57600
    <3>1. d * d <= d * 240  BY <1>1, ProductMonotone
    <3> QED  BY <1>1, <3>1, ProductNat
  <2>2. (d * d) \div 480 \in Nat /\ (d * d) \div 480 <= 120
    <3> DEFINE n == d * d
    <3>1. n \in Nat /\ n <= 57600  BY <2>1
    <3> HIDE DEF n
    <3>2. n \div 480 \in Nat /\ n \div 480 <= 120  BY <3>1, Z3
    <3> QED  BY <3>2 DEF n
  <2>3. hundredths \in Nat /\ hundredths <= 180  BY <2>2
  <2>4. RealPayoff(d) = UNIT * hundredths
    BY <1>1 DEF RealPayoff, calcPayoff
  <2> HIDE DEF hundredths
  <2>5. UNIT * hundredths \in Nat /\ UNIT * hundredths <= UNIT * 180
    BY <2>3, UnitAssumption, ProductNat, ProductMonotone
  <2> QED  BY <2>4, <2>5, UnitAssumption DEF Cap
<1>2. CASE ~(d <= 240)
  BY <1>2, PoliciesFinite DEF RealPayoff
<1> QED  BY <1>1, <1>2

LEMMA OpenIsPayable ==
    ASSUME TypeInv, IdInv, CoverInv, DeployedInv, PoolSolvent, Undisturbed,
           ownerTouched \subseteq {"minTime", "fee", "frozenTime"},
           NEW p \in OpenPolicies, NEW d \in OracleResults, NormalResult(d)
    PROVE  CanSettle(p, d)
<1> DEFINE premium == policyList[p].premium
           real    == RealPayoff(d)
           rest    == RemainingPremium(premium)
<1>1. /\ p \in PolicyIds /\ p \in Issued /\ policyList[p].status = "SOLD"
      /\ d \in Nat
  BY InputAssumption DEF OpenPolicies, IdInv, EmptyPolicy
<1>2. /\ MAX_PAYOFF = Cap /\ policyList[p].payoff = Cap
      /\ DELAY_THRESHOLD_MIN = 30 /\ DELAY_THRESHOLD_MAX = 240
      /\ rewardDistribution = [lp |-> 50, lottery |-> 40, emergency |-> 10]
      /\ availableCapacity + lockedBalance = totalStakingBalance
      /\ lockedBalance = SumOver(Payoffs, PolicyIds)
      /\ activePremiums = SumOver(Premiums, PolicyIds)
  BY <1>1 DEF CoverInv, PayoffInv, BookInv, DeployedInv, Split
<1>3. premium \in Nat /\ premium <= activePremiums /\ Cap <= lockedBalance
  <2> DEFINE A == Payoffs
             C == Premiums
  <2>1. A[p] = Cap /\ C[p] = premium  BY <1>1, <1>2 DEF Payoffs, Premiums
  <2>2. \A q \in PolicyIds : A[q] \in Nat /\ C[q] \in Nat  BY TermsNat
  <2>3. IsFiniteSet(PolicyIds)  BY PoliciesFinite
  <2> HIDE DEF A, C
  <2>4. \A q \in PolicyIds : A[q] \in Nat  BY <2>2
  <2>5. \A q \in PolicyIds : C[q] \in Nat  BY <2>2
  <2>6. A[p] <= SumOver(A, PolicyIds)  BY <1>1, <2>3, <2>4, SumNat
  <2>7. C[p] <= SumOver(C, PolicyIds)  BY <1>1, <2>3, <2>5, SumNat
  <2>8. C[p] \in Nat  BY <1>1, <2>5
  <2>9. lockedBalance = SumOver(A, PolicyIds) /\ activePremiums = SumOver(C, PolicyIds)
    BY <1>2 DEF A, C
  <2> QED  BY <2>1, <2>6, <2>7, <2>8, <2>9
<1>4. /\ PoolTypeOK /\ usd[Pool] = totalStakingBalance + activePremiums
      /\ totalStakingBalance \in Nat /\ activePremiums \in Nat
      /\ availableCapacity \in Nat /\ lockedBalance \in Nat /\ Cap \in Nat
  BY TermsNat, PoliciesFinite DEF TypeInv, TypeOK, PoolSolvent
<1>5. real \in Nat /\ real <= Cap  BY <1>1, <1>2, PayoffCapped
<1>6. CanDistribute(premium)
  <2>1. /\ EmergencyShare(premium) \in Nat /\ LotteryShare(premium) \in Nat
        /\ EmergencyShare(premium) + LotteryShare(premium) <= premium
    BY <1>2, <1>3, PremiumCoversShares
  <2> QED  BY <1>3, <1>4, <2>1 DEF CanDistribute, RemainingPremium
<1>7. /\ rest \in Nat
      /\ Distributed(premium)[Pool] = usd[Pool] - premium + rest
  BY <1>3, <1>4, <1>6, DistributionFacts
<1> HIDE DEF premium, real, rest
<1>8. CanExpire(premium, MAX_PAYOFF)
  BY <1>2, <1>3, <1>4, <1>6, <1>7 DEF CanExpire, CanRefresh
<1>9. CanPayClaim(premium, MAX_PAYOFF, real)
  BY <1>2, <1>3, <1>4, <1>5, <1>6, <1>7 DEF CanPayClaim, CanRefresh
<1> QED  BY <1>8, <1>9 DEF CanSettle, premium, real

\* No settlement with a normal answer ever reverts for want of money: whatever
\* providers have withdrawn and whatever other policies have been paid, the
\* pool can settle each open policy, as long as the owner keeps the parameters
\* of the deployment that settlements depend on.
THEOREM EveryPolicyPayable == Spec => []OpenPoliciesPayable
<1>1. TypeInv /\ IdInv /\ CoverInv /\ DeployedInv /\ PoolSolvent
          => OpenPoliciesPayable
  BY OpenIsPayable DEF OpenPoliciesPayable
<1> QED
  BY <1>1, SettlementInvariant, CoverInvariant, DeployedInvariant, PoolIsSolvent, PTL

-----------------------------------------------------------------------------
(* LP tokens and the staking balance *)

\* A refreshed value never promises more than the balance it is computed from.
LEMMA FreshBacked ==
    ASSUME PoolTypeOK, NEW b \in Nat, NEW p \in Nat, NEW t \in Nat,
           b - p = t, CanRefresh(b, p)
    PROVE  /\ FreshLPValue(b, p) \in Nat
           /\ lpSupply * FreshLPValue(b, p) <= t * SCALE
<1>1. lpSupply \in Nat /\ SCALE \in Nat  BY ScaleAssumption DEF PoolTypeOK
<1>2. FreshLPValue(b, p) \in Nat  BY FreshNat
<1>3. CASE lpSupply = 0
  <2>1. lpSupply * FreshLPValue(b, p) = 0  BY <1>2, <1>3
  <2>2. t * SCALE \in Nat  BY <1>1, ProductNat
  <2> QED  BY <1>2, <2>1, <2>2
<1>4. CASE lpSupply # 0
  <2> DEFINE n == t * SCALE
             q == n \div lpSupply
  <2>1. n \in Nat  BY <1>1, ProductNat
  <2>2. FreshLPValue(b, p) = q  BY <1>4 DEF FreshLPValue, Div
  <2> HIDE DEF n
  <2>3. q \in Nat /\ q * lpSupply <= n  BY <1>1, <1>4, <2>1, QuotientBounds
  <2> HIDE DEF q
  <2>4. lpSupply * q = q * lpSupply  BY <1>1, <2>3
  <2> QED  BY <1>2, <2>2, <2>3, <2>4 DEF n
<1> QED  BY <1>3, <1>4

\* New LP tokens are rounded down.
LEMMA DepositBacked ==
    ASSUME PoolTypeOK, NEW user, NEW a \in Nat, NEW v \in Nat,
           lpSupply * v <= totalStakingBalance * SCALE, _deposit(user, a, v)
    PROVE  SharesBacked'
<1> DEFINE shares == (a * SCALE) \div v
<1>1. /\ v > 0 /\ LPValue' = v /\ totalStakingBalance' = totalStakingBalance + a
      /\ lpSupply' = lpSupply + shares
  BY DEF _deposit, Div
<1>2. lpSupply \in Nat /\ totalStakingBalance \in Nat /\ SCALE \in Nat
  BY ScaleAssumption DEF PoolTypeOK
<1>3. shares \in Nat /\ shares * v <= a * SCALE
  <2> DEFINE n == a * SCALE
  <2>1. n \in Nat  BY <1>2, ProductNat
  <2> HIDE DEF n
  <2>2. n \div v \in Nat /\ (n \div v) * v <= n  BY <1>1, <2>1, QuotientBounds
  <2> QED  BY <2>2 DEF n
<1> HIDE DEF shares
<1>4. /\ (lpSupply + shares) * v = lpSupply * v + shares * v
      /\ (totalStakingBalance + a) * SCALE = totalStakingBalance * SCALE + a * SCALE
  BY <1>2, <1>3
<1>5. /\ lpSupply * v \in Nat /\ shares * v \in Nat
      /\ totalStakingBalance * SCALE \in Nat /\ a * SCALE \in Nat
  BY <1>2, <1>3, ProductNat
<1>6. (lpSupply + shares) * v <= (totalStakingBalance + a) * SCALE + v
  BY <1>3, <1>4, <1>5
<1> QED  BY <1>1, <1>6 DEF SharesBacked

\* Burned LP tokens are rounded down too, which leaves less than one of them
\* without backing: the next refresh lowers the value accordingly.
LEMMA WithdrawBacked ==
    ASSUME PoolTypeOK, NEW user, NEW a \in Nat, NEW v \in Nat,
           lpSupply * v <= totalStakingBalance * SCALE, _withdraw(user, a, v)
    PROVE  SharesBacked'
<1> DEFINE shares == (a * SCALE) \div v
<1>1. /\ v > 0 /\ LPValue' = v /\ totalStakingBalance' = totalStakingBalance - a
      /\ lpSupply' = lpSupply - shares
      /\ totalStakingBalance - a >= 0 /\ lpSupply >= shares
  BY DEF _withdraw, Div
<1>2. lpSupply \in Nat /\ totalStakingBalance \in Nat /\ SCALE \in Nat
  BY ScaleAssumption DEF PoolTypeOK
<1>3. shares \in Nat /\ a * SCALE < shares * v + v
  <2> DEFINE n == a * SCALE
  <2>1. n \in Nat  BY <1>2, ProductNat
  <2> HIDE DEF n
  <2>2. n \div v \in Nat /\ n < (n \div v) * v + v  BY <1>1, <2>1, QuotientBounds
  <2> QED  BY <2>2 DEF n
<1> HIDE DEF shares
<1>4. /\ (lpSupply - shares) * v = lpSupply * v - shares * v
      /\ (totalStakingBalance - a) * SCALE = totalStakingBalance * SCALE - a * SCALE
  BY <1>2, <1>3
<1>5. /\ lpSupply * v \in Nat /\ shares * v \in Nat
      /\ totalStakingBalance * SCALE \in Nat /\ a * SCALE \in Nat
  BY <1>2, <1>3, ProductNat
<1>6. (lpSupply - shares) * v <= (totalStakingBalance - a) * SCALE + v
  BY <1>3, <1>4, <1>5
<1> QED  BY <1>1, <1>6 DEF SharesBacked

\* A settlement refreshes the value from the balance that it leaves.
LEMMA RefreshBacked ==
    ASSUME PoolTypeOK, NEW b \in Nat, NEW p \in Nat, CanRefresh(b, p),
           b - p = totalStakingBalance', totalStakingBalance' \in Nat,
           LPValue' = FreshLPValue(b, p), lpSupply' = lpSupply
    PROVE  SharesBacked'
<1> DEFINE v == FreshLPValue(b, p)
           t == totalStakingBalance'
<1>1. v \in Nat /\ lpSupply * v <= t * SCALE  BY FreshBacked
<1>2. lpSupply * v \in Nat /\ t * SCALE \in Nat
  BY <1>1, ScaleAssumption, ProductNat DEF PoolTypeOK
<1> HIDE DEF v, t
<1>3. lpSupply * v <= t * SCALE + v  BY <1>1, <1>2
<1> QED  BY <1>3 DEF SharesBacked, v, t

LEMMA ProviderBacked ==
    ASSUME TypeInv, PoolSolvent, Provider
    PROVE  SharesBacked'
<1> DEFINE value == FreshLPValue(usd[Pool], activePremiums)
<1>1. PICK u \in Providers : \/ \E a \in StakeAmounts : stake(u, a) \/ unstake(u, a)
                             \/ unstakeMax(u)
  BY DEF Provider
<1>2. /\ PoolTypeOK /\ u \in Users /\ StakeAmounts \subseteq Nat
      /\ totalStakingBalance \in Nat /\ activePremiums \in Nat /\ usd[Pool] \in Nat
      /\ usd[Pool] - activePremiums = totalStakingBalance
  BY UserAssumption, InputAssumption, AccountFacts
  DEF TypeInv, TypeOK, PoolTypeOK, PoolSolvent
<1>3. ASSUME CanRefresh(usd[Pool], activePremiums)
      PROVE  value \in Nat /\ lpSupply * value <= totalStakingBalance * SCALE
  BY <1>2, <1>3, FreshBacked
<1>4. ASSUME NEW a \in StakeAmounts, stake(u, a) PROVE SharesBacked'
  BY <1>2, <1>3, <1>4, DepositBacked DEF stake
<1>5. ASSUME NEW a \in StakeAmounts, unstake(u, a) PROVE SharesBacked'
  <2>1. Smaller(a, Unlocked) \in Nat
    BY <1>2, <1>5 DEF unstake, Smaller, Unlocked, PoolTypeOK
  <2> QED  BY <1>2, <1>3, <1>5, <2>1, WithdrawBacked DEF unstake
<1>6. ASSUME unstakeMax(u) PROVE SharesBacked'
  <2>1. Mul(lpBalance[u], value) \in Nat
    BY <1>2, <1>6, RefreshedNat DEF unstakeMax
  <2>2. Smaller(Mul(lpBalance[u], value), Unlocked) \in Nat
    BY <1>2, <1>6, <2>1 DEF unstakeMax, Smaller, Unlocked, PoolTypeOK
  <2> QED  BY <1>2, <1>3, <1>6, <2>2, WithdrawBacked DEF unstakeMax
<1> QED  BY <1>1, <1>4, <1>5, <1>6

LEMMA FulfillBacked ==
    ASSUME TypeInv, PoolSolvent, NEW r \in RequestIds, NEW d \in OracleResults,
           fulfill(r, d)
    PROVE  SharesBacked'
<1> DEFINE q == requestList[r]
           premium == policyList[q].premium
           user == policyList[q].buyerAddress
           real == RealPayoff(d)
           paid == Distributed(premium)[Pool]
           left == activePremiums - premium
<1>1. /\ q \in PolicyIds /\ premium \in Nat /\ PoolTypeOK
      /\ MAX_PAYOFF \in Nat /\ real \in Nat
  BY IssuedFacts, PayoffNat, InputAssumption
  DEF fulfill, TypeInv, IssuedOK, TypeOK, FlowTypeOK, PolicyInfo
<1>2. /\ usd[Pool] = totalStakingBalance + activePremiums
      /\ totalStakingBalance \in Nat /\ activePremiums \in Nat
  BY <1>1 DEF PoolSolvent, PoolTypeOK
<1>3. CASE _policyExpired(q)
  <2>1. updateWhenExpire(premium, MAX_PAYOFF)  BY <1>3 DEF _policyExpired
  <2>2. /\ CanDistribute(premium) /\ activePremiums >= premium
        /\ CanRefresh(paid, left)
    BY <2>1 DEF updateWhenExpire, CanExpire
  <2>3. /\ RemainingPremium(premium) \in Nat
        /\ paid = usd[Pool] - premium + RemainingPremium(premium)
    BY <1>1, <2>2, DistributionFacts
  <2>4. /\ totalStakingBalance' = totalStakingBalance + RemainingPremium(premium)
        /\ LPValue' = FreshLPValue(paid, left) /\ lpSupply' = lpSupply
    BY <2>1 DEF updateWhenExpire
  <2> HIDE DEF paid, left
  <2>5. /\ left \in Nat /\ paid \in Nat /\ totalStakingBalance' \in Nat
        /\ paid - left = totalStakingBalance'
    BY <1>1, <1>2, <2>2, <2>3, <2>4 DEF left
  <2> QED  BY <1>1, <2>2, <2>4, <2>5, RefreshBacked
<1>4. CASE _policyClaimed(q, d)
  <2>1. payClaim(premium, MAX_PAYOFF, real, user)  BY <1>4 DEF _policyClaimed
  <2>2. /\ CanDistribute(premium) /\ activePremiums >= premium
        /\ totalStakingBalance >= real /\ paid >= real
        /\ CanRefresh(paid - real, left)
    BY <2>1 DEF payClaim, CanPayClaim
  <2>3. /\ RemainingPremium(premium) \in Nat
        /\ paid = usd[Pool] - premium + RemainingPremium(premium)
    BY <1>1, <2>2, DistributionFacts
  <2>4. /\ totalStakingBalance'
               = totalStakingBalance - real + RemainingPremium(premium)
        /\ LPValue' = FreshLPValue(paid - real, left) /\ lpSupply' = lpSupply
    BY <2>1 DEF payClaim
  <2> HIDE DEF paid, left, real
  <2>5. /\ left \in Nat /\ paid - real \in Nat /\ totalStakingBalance' \in Nat
        /\ (paid - real) - left = totalStakingBalance'
    BY <1>1, <1>2, <2>2, <2>3, <2>4 DEF left
  <2> QED  BY <1>1, <2>2, <2>4, <2>5, RefreshBacked
<1> QED  BY <1>3, <1>4 DEF fulfill

\* LP tokens never promise more than the staking balance but for the rounding
\* of one LP token, for any number of providers and any order of stakes,
\* withdrawals and settlements: the errors of the divisions do not add up.
THEOREM SharesAreBacked == Spec => []SharesBacked
<1> DEFINE Same == UNCHANGED <<lpSupply, LPValue, totalStakingBalance>>
<1>1. Init => SharesBacked
  <2> SUFFICES ASSUME Init PROVE SharesBacked  OBVIOUS
  <2>1. lpSupply = 0 /\ LPValue = SCALE /\ totalStakingBalance = 0
    BY DEF Init, PoolInit
  <2> QED  BY <2>1, ScaleAssumption DEF SharesBacked
<1>2. TypeInv /\ PoolSolvent /\ SharesBacked /\ [Next]_vars => SharesBacked'
  <2> SUFFICES ASSUME TypeInv, PoolSolvent, SharesBacked, [Next]_vars
               PROVE  SharesBacked'
    OBVIOUS
  <2>1. CASE Provider  BY <2>1, ProviderBacked
  <2>2. CASE Answer
    <3>1. PICK r \in RequestIds, d \in OracleResults :
              fulfill(r, d) \/ fulfillReverted(r, d)
      BY <2>2 DEF Answer
    <3>2. CASE fulfill(r, d)  BY <3>2, FulfillBacked
    <3>3. CASE fulfillReverted(r, d)
      BY <3>3 DEF fulfillReverted, poolVars, accountVars, reserveVars, rateVars,
                  SharesBacked
    <3> QED  BY <3>1, <3>2, <3>3
  <2>3. CASE Buyer
    BY <2>3 DEF Buyer, newApplication, updateWhenBuy, SharesBacked
  <2>4. CASE Owner
    BY <2>4 DEF Owner, OwnerOfPool, setMaxPayoff, setDelayThreshold,
                setMinTimeBeforeDeparture, setFee, setFrozenTime,
                setRewardDistribution, setCollateralFactor, poolVars, accountVars,
                reserveVars, rateVars, SharesBacked
  <2>5. Tick \/ Claim \/ ForceUpdate \/ TokenTransfer \/ UNCHANGED vars => Same
    BY DEF Tick, Claim, newClaimRequest, ForceUpdate, forceClaimRequest,
           newOracleRequest, TokenTransfer, transferOwner, transferFrom, moveToken,
           vars, poolVars, accountVars, reserveVars, rateVars
  <2>6. CASE Same  BY <2>6 DEF SharesBacked
  <2> QED  BY <2>1, <2>2, <2>3, <2>4, <2>5, <2>6 DEF Next
<1> QED  BY <1>1, <1>2, SettlementInvariant, PoolIsSolvent, PTL DEF Spec

-----------------------------------------------------------------------------
(* The product implements the cover pool *)

\* The owner neither changes the terms of the cover nor forces settlements.
CoverKept == Undisturbed /\ "factor" \notin ownerTouched

\* The cover pool's open policies and reserve, under the refinement mapping.
LEMMA CoverFacts ==
    ASSUME TypeInv, CoverInv, DeployedInv, CoverKept
    PROVE  /\ Cover!Open = OpenPolicies
           /\ lockedBalance = Cover!Reserved
           /\ Split /\ MAX_PAYOFF = Cap
<1>1. Cover!Open = OpenPolicies
  BY DEF Cover!Open, OpenPolicies, Phase, TypeInv, TypeOK, FlowTypeOK, PolicyInfo,
         Statuses
<1>2. lockedBalance = Cap * Cardinality(OpenPolicies) /\ MAX_PAYOFF = Cap
  BY DEF CoverKept, CoverInv, BookInv, PayoffInv, Undisturbed
<1>3. Split  BY DEF CoverKept, DeployedInv
<1>4. \A S : Cover!Cardinality(S) = Cardinality(S)
  BY DEF Cover!Cardinality, Cardinality
<1>5. lockedBalance = Cover!Reserved
  BY <1>1, <1>2, <1>4 DEF Cover!Reserved, Cap
<1> QED  BY <1>1, <1>2, <1>3, <1>5

\* The phase of a policy follows its status alone.
LEMMA PhaseFacts ==
    /\ \A p : policyList'[p].status = policyList[p].status => Phase(p)' = Phase(p)
    /\ \A p : policyList[p].status = "INI" => Phase(p) = "unsold"
    /\ \A p : policyList[p].status = "SOLD" => Phase(p) = "open"
    /\ \A p : policyList'[p].status = "SOLD" => Phase(p)' = "open"
    /\ \A p : policyList'[p].status \in {"EXPIRED", "CLAIMED"} =>
                  Phase(p)' = "settled"
  BY DEF Phase

LEMMA StepImplements ==
    ASSUME TypeInv, IdInv, SettleInv, CoverInv, DeployedInv, CoverKept,
           [Next]_vars
    PROVE  [Cover!Next]_(Cover!coverVars)
<1> DEFINE phase == [p \in PolicyIds |-> Phase(p)]
<1>1. /\ Cover!Open = OpenPolicies /\ lockedBalance = Cover!Reserved
      /\ Split /\ MAX_PAYOFF = Cap
      /\ totalStakingBalance \in Nat /\ lockedBalance \in Nat
  BY CoverFacts, TermsNat
<1>2. CASE Keeps /\ Staking
  <2>1. phase' = phase  BY <1>2, PhaseFacts DEF Keeps
  <2>2. CASE totalStakingBalance' = totalStakingBalance
    BY <2>1, <2>2 DEF Cover!coverVars
  <2>3. CASE totalStakingBalance' > totalStakingBalance
    BY <2>1, <2>3 DEF Cover!Next, Cover!Fund
  <2>4. CASE /\ totalStakingBalance' < totalStakingBalance
             /\ Split => totalStakingBalance' >= lockedBalance
    <3>1. totalStakingBalance' >= Cover!Reserved  BY <1>1, <2>4
    <3> QED  BY <2>1, <2>4, <3>1 DEF Cover!Next, Cover!Withdraw
  <2> QED  BY <1>2, <2>2, <2>3, <2>4 DEF Staking
<1>3. ASSUME NEW q \in PolicyIds \ Issued, Sells(q) PROVE Cover!Sell(q)
  <2>1. policyList[q].status = "INI"  BY DEF IdInv, EmptyPolicy
  <2>2. phase[q] = "unsold"  BY <2>1, PhaseFacts
  <2>3. phase' = [phase EXCEPT ![q] = "open"]
    <3>1. Phase(q)' = "open"  BY <1>3, PhaseFacts DEF Sells
    <3>2. \A p \in PolicyIds : p # q => Phase(p)' = Phase(p)
      BY <1>3, PhaseFacts DEF Sells, OthersKept
    <3> QED  BY <3>1, <3>2
  <2>4. totalStakingBalance >= Cover!Reserved + Cap
    <3>1. /\ availableCapacity >= Cap
          /\ availableCapacity + lockedBalance = totalStakingBalance
      BY <1>1, <1>3 DEF Sells, Split
    <3>2. availableCapacity \in Nat  BY TermsNat
    <3> QED  BY <1>1, <3>1, <3>2, PoliciesFinite
  <2> QED  BY <1>3, <2>2, <2>3, <2>4 DEF Cover!Sell, Sells, Cap
<1>4. ASSUME NEW q \in PolicyIds, Settles(q) PROVE Cover!Settle(q)
  <2>1. policyList[q].status = "SOLD"
    BY <1>4, SettlesOpen DEF Settles, CoverKept
  <2>2. phase[q] = "open"  BY <2>1, PhaseFacts
  <2>3. phase' = [phase EXCEPT ![q] = "settled"]
    <3>1. Phase(q)' = "settled"  BY <1>4 DEF Settles, Phase
    <3>2. \A p \in PolicyIds : p # q => Phase(p)' = Phase(p)
      BY <1>4, PhaseFacts DEF Settles, OthersKept
    <3> QED  BY <3>1, <3>2
  <2> QED  BY <1>1, <1>4, <2>2, <2>3 DEF Cover!Settle, Settles, Cap
<1> QED  BY <1>2, <1>3, <1>4, NextKinds DEF Cover!Next

\* While the owner neither changes the maximum payoff or the collateral factor
\* nor forces settlements, the product implements the cover pool: no policy is
\* sold without capital that covers it, no provider withdraws what an open
\* policy may need, and each policy is settled once, at a cost within its cover.
THEOREM ImplementsCover == Spec /\ []CoverKept => ImplementsCoverPool
<1>1. Init => Cover!Init
  BY DEF Init, PoolInit, Cover!Init, Phase, EmptyPolicy
<1>2. TypeInv /\ IdInv /\ SettleInv /\ CoverInv /\ DeployedInv /\ CoverKept
          /\ [Next]_vars => [Cover!Next]_(Cover!coverVars)
  BY StepImplements
<1> QED
  BY <1>1, <1>2, SettlementInvariant, CoverInvariant, DeployedInvariant, PTL
  DEF Spec, ImplementsCoverPool, Cover!Spec

=============================================================================
