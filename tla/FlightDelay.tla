---------------------------- MODULE FlightDelay ----------------------------
(***************************************************************************)
(* The flight delay product: PolicyFlow sells and settles policies, each   *)
(* one represented by an ERC721 token (FDPolicyToken), FlightOracle turns  *)
(* claim requests into Chainlink requests and brings the answers back, and *)
(* the InsurancePool (module InsurancePool) holds the money.               *)
(*                                                                         *)
(* Time is counted in days.  Amounts are USD times UNIT, the stablecoin's  *)
(* 10^decimals.  A transaction is one step; what can interleave are the    *)
(* transactions of providers, buyers, the owner and the oracle, and the    *)
(* time between a request and its answer.                                  *)
(***************************************************************************)
EXTENDS InsurancePool, FiniteSetsExt

CONSTANTS
    NoUser,          \* the zero address
    UNIT,            \* one USD in the stablecoin's decimals (1e6)
    DECIMAL_DIFFERENCE, \* divisor of StablecoinDecimal.toNormal (1e12)
    Providers,       \* users that stake and unstake
    Buyers,          \* users that buy policies
    Recipients,      \* users that policy tokens are transferred to
    Moments,         \* block timestamps, in days
    Quotes,          \* offers signed by the backend
    StakeAmounts,    \* amounts that providers stake and unstake
    OracleResults,   \* answers the oracle may give, in minutes
    InitialLink,     \* LINK in FlightOracle, in units of the initial fee
    MaxPolicies,     \* bound on the policies sold
    MaxRequests,     \* bound on the oracle requests made
    MaxForced,       \* bound on the requests forced for one policy
    MaxPayoffs, DelayThresholds, MinTimes, Fees,        \* values the owner
    FrozenTimes, RewardDistributions, CollateralFactors \* may set

PolicyIds  == 1..MaxPolicies
RequestIds == 1..MaxRequests
Statuses   == {"INI", "SOLD", "EXPIRED", "CLAIMED"}
Cancelled  == 400     \* the oracle's answer for a cancelled flight

RewardShares == [lp : Nat, lottery : Nat, emergency : Nat]

ASSUME UserAssumption ==
    /\ NoUser \notin Users
    /\ Providers \subseteq Users /\ Buyers \subseteq Users
    /\ Recipients \subseteq Users
ASSUME UnitAssumption == UNIT \in Nat \ {0} /\ DECIMAL_DIFFERENCE \in Nat \ {0}
ASSUME BoundAssumption ==
    /\ MaxPolicies \in Nat /\ MaxRequests \in Nat
    /\ InitialLink \in Nat /\ MaxForced \in Nat
ASSUME InputAssumption ==
    /\ Moments \subseteq Nat
    /\ Quotes \subseteq [premium : Nat, departure : Nat, landing : Nat,
                         deadline : Nat]
    /\ StakeAmounts \subseteq Nat
    /\ OracleResults \subseteq Nat
ASSUME OwnerAssumption ==
    /\ MaxPayoffs \subseteq Nat
    /\ DelayThresholds \subseteq [min : Nat, max : Nat]
    /\ MinTimes \subseteq Nat
    /\ Fees \subseteq Nat
    /\ FrozenTimes \subseteq Nat
    /\ RewardDistributions \subseteq RewardShares
    /\ CollateralFactors \subseteq Nat

VARIABLES
    \* PolicyFlow
    totalPolicies,
    policyList,
    userPolicyList,
    requestList,        \* policy that a request is about
    MAX_PAYOFF,
    DELAY_THRESHOLD_MIN,
    DELAY_THRESHOLD_MAX,
    MIN_TIME_BEFORE_DEPARTURE,
    fee,
    \* FDPolicyToken
    nextId,             \* _nextId
    tokenOwner,         \* ERC721 ownerOf
    \* BuyerToken
    buyerTokens,        \* balanceOf
    \* FlightOracle and the Chainlink network
    link,               \* LINK balance of FlightOracle
    lastRequest,        \* number of requests sent
    pending,            \* requests that the oracle has not answered
    \* History, read by the properties only
    settledTimes,       \* settlements of each policy
    forcedTimes,        \* requests the owner forced on a settled policy
    ownerTouched        \* kinds of parameters that the owner has changed

policyVars == <<totalPolicies, policyList, userPolicyList, requestList>>
paramVars  == <<MAX_PAYOFF, DELAY_THRESHOLD_MIN, DELAY_THRESHOLD_MAX,
                MIN_TIME_BEFORE_DEPARTURE, fee>>
tokenVars  == <<nextId, tokenOwner, buyerTokens>>
oracleVars == <<link, lastRequest, pending>>
ghostVars  == <<settledTimes, forcedTimes, ownerTouched>>
flowVars   == <<policyVars, paramVars, tokenVars, oracleVars, ghostVars>>
vars       == <<now, poolVars, flowVars>>

PolicyInfo ==
    [buyerAddress : Users \cup {NoUser}, premium : Nat, payoff : Nat,
     landingTimestamp : Nat, status : Statuses, alreadySettled : BOOLEAN,
     delayResult : Nat]

\* The zero value of the struct, which the mapping holds for unknown ids.
EmptyPolicy ==
    [buyerAddress |-> NoUser, premium |-> 0, payoff |-> 0,
     landingTimestamp |-> 0, status |-> "INI", alreadySettled |-> FALSE,
     delayResult |-> 0]

Issued      == 1..totalPolicies
OpenPolicies == {p \in PolicyIds : policyList[p].status = "SOLD"}
PendingFor(p) == {r \in pending : requestList[r] = p}

-----------------------------------------------------------------------------
(* Buying *)

toNormal(value) == value \div DECIMAL_DIFFERENCE

NewPolicy_NotSold(user, quote) ==
    [buyerAddress |-> user, premium |-> quote.premium, payoff |-> MAX_PAYOFF,
     landingTimestamp |-> quote.landing, status |-> "INI",
     alreadySettled |-> FALSE, delayResult |-> 404]

NewPolicy(user, quote) ==
    [buyerAddress |-> user, premium |-> quote.premium, payoff |-> MAX_PAYOFF,
     landingTimestamp |-> quote.landing, status |-> "SOLD",
     alreadySettled |-> FALSE, delayResult |-> 404]

\* The token contract numbers the policies with a counter of its own.
mintPolicyToken(user) ==
    /\ nextId' = nextId + 1
    /\ tokenOwner' = [tokenOwner EXCEPT ![nextId] = user]

\* _checkSignature holds for the offers in Quotes: the backend signs the
\* flight, the buyer, the premium and a deadline, without a nonce, so an
\* offer may be used again until its deadline.
newApplication(user, quote) ==
    /\ totalPolicies < MaxPolicies
    /\ now <= quote.deadline
    /\ quote.departure >= now + MIN_TIME_BEFORE_DEPARTURE
    /\ checkCapacity(MAX_PAYOFF)
    /\ updateWhenBuy(quote.premium, MAX_PAYOFF, user)
    /\ totalPolicies' = totalPolicies + 1
    /\ policyList' = [policyList EXCEPT ![totalPolicies + 1] =
                                            NewPolicy(user, quote)]
    /\ userPolicyList' = [userPolicyList EXCEPT ![user] =
                                            @ \cup {totalPolicies + 1}]
    /\ mintPolicyToken(user)
    /\ buyerTokens' = [buyerTokens EXCEPT ![user] =
                                            @ + toNormal(quote.premium)]
    /\ UNCHANGED <<now, requestList, paramVars, oracleVars, ghostVars>>

-----------------------------------------------------------------------------
(* Claim requests *)

RequestedPolicy_NotMarked(policyId) == policyList[policyId]

\* The policy is marked as settled when the request is sent.
RequestedPolicy(policyId) ==
    [policyList[policyId] EXCEPT !.alreadySettled = TRUE]

\* FlightOracle.newOracleRequest: pays the fee in LINK and sends a request.
newOracleRequest(policyId) ==
    /\ lastRequest < MaxRequests
    /\ link >= fee
    /\ link' = link - fee
    /\ lastRequest' = lastRequest + 1
    /\ pending' = pending \cup {lastRequest + 1}
    /\ requestList' = [requestList EXCEPT ![lastRequest + 1] = policyId]
    /\ policyList' = [policyList EXCEPT ![policyId] = RequestedPolicy(policyId)]
    /\ UNCHANGED <<now, poolVars, totalPolicies, userPolicyList, paramVars,
                   tokenVars, settledTimes, ownerTouched>>

newClaimRequest_Repeatable(policyId) ==
    /\ policyId \in Issued
    /\ now >= policyList[policyId].landingTimestamp
    /\ newOracleRequest(policyId)
    /\ UNCHANGED forcedTimes

\* Anyone may ask for the result of a landed flight.
newClaimRequest(policyId) ==
    /\ policyId \in Issued
    /\ now >= policyList[policyId].landingTimestamp
    /\ ~policyList[policyId].alreadySettled
    /\ newOracleRequest(policyId)
    /\ UNCHANGED forcedTimes

\* The owner may ask again (_forceUpdate).
forceClaimRequest(policyId) ==
    /\ policyId \in Issued
    /\ now >= policyList[policyId].landingTimestamp
    /\ policyList[policyId].alreadySettled
    /\ forcedTimes[policyId] < MaxForced
    /\ newOracleRequest(policyId)
    /\ forcedTimes' = [forcedTimes EXCEPT ![policyId] = @ + 1]

-----------------------------------------------------------------------------
(* Settlement *)

calcPayoff_Halved(delay) ==
    UNIT * (IF delay <= DELAY_THRESHOLD_MIN THEN 0
            ELSE (delay * delay) \div 240)

calcPayoff(delay) ==
    UNIT * (IF delay <= DELAY_THRESHOLD_MIN THEN 0
            ELSE (delay * delay) \div 480)

NormalResult_NotCancelled(result) == result <= DELAY_THRESHOLD_MAX

NormalResult(result) ==
    result <= DELAY_THRESHOLD_MAX \/ result = Cancelled

RealPayoff(result) ==
    IF result <= DELAY_THRESHOLD_MAX THEN calcPayoff(result) ELSE MAX_PAYOFF

\* finalSettlement completes: nothing in it reverts.
CanSettle(policyId, result) ==
    LET premium == policyList[policyId].premium
    IN  /\ NormalResult(result)
        /\ IF result = 0
           THEN CanExpire(premium, MAX_PAYOFF)
           ELSE CanPayClaim(premium, MAX_PAYOFF, RealPayoff(result))

_policyExpired(policyId) ==
    /\ updateWhenExpire(policyList[policyId].premium, MAX_PAYOFF)
    /\ policyList' = [policyList EXCEPT ![policyId].status = "EXPIRED",
                                        ![policyId].delayResult = 0]

_policyClaimed(policyId, result) ==
    /\ payClaim(policyList[policyId].premium, MAX_PAYOFF, RealPayoff(result),
                policyList[policyId].buyerAddress)
    /\ policyList' = [policyList EXCEPT ![policyId].status = "CLAIMED",
                                        ![policyId].delayResult = result]

\* FlightOracle.fulfill: the request is consumed and the policy settled.
\* The code does not look at the policy's status.
fulfill(requestId, result) ==
    LET policyId == requestList[requestId]
    IN  /\ requestId \in pending
        /\ NormalResult(result)
        /\ pending' = pending \ {requestId}
        /\ \/ result = 0 /\ _policyExpired(policyId)
           \/ result # 0 /\ _policyClaimed(policyId, result)
        /\ settledTimes' = [settledTimes EXCEPT ![policyId] = @ + 1]
        /\ UNCHANGED <<now, totalPolicies, userPolicyList, requestList,
                       paramVars, tokenVars, link, lastRequest, forcedTimes,
                       ownerTouched>>

\* The oracle contract spends a request whether or not the callback reverts,
\* so an answer that finalSettlement rejects is lost.
fulfillReverted(requestId, result) ==
    /\ requestId \in pending
    /\ ~CanSettle(requestList[requestId], result)
    /\ pending' = pending \ {requestId}
    /\ UNCHANGED <<now, poolVars, policyVars, paramVars, tokenVars, link,
                   lastRequest, ghostVars>>

-----------------------------------------------------------------------------
(* Policy tokens *)

moveToken(policyId, to) ==
    /\ tokenOwner' = [tokenOwner EXCEPT ![policyId] = to]
    /\ UNCHANGED <<now, poolVars, totalPolicies, userPolicyList, requestList,
                   paramVars, nextId, buyerTokens, oracleVars, ghostVars>>

policyOwnerTransfer_Unchecked(policyId, from, to) ==
    policyList' = [policyList EXCEPT ![policyId].buyerAddress = to]

policyOwnerTransfer(policyId, from, to) ==
    /\ policyList[policyId].buyerAddress = from
    /\ policyList' = [policyList EXCEPT ![policyId].buyerAddress = to]

\* FDPolicyToken.transferOwner tells PolicyFlow about the new owner.
transferOwner(policyId, from, to) ==
    /\ tokenOwner[policyId] = from
    /\ policyOwnerTransfer(policyId, from, to)
    /\ moveToken(policyId, to)

\* ERC721.transferFrom moves the token only.
transferFrom(policyId, from, to) ==
    /\ tokenOwner[policyId] = from
    /\ moveToken(policyId, to)
    /\ UNCHANGED policyList

-----------------------------------------------------------------------------
(* Parameters *)

Touch(kind) ==
    /\ ownerTouched' = ownerTouched \cup {kind}
    /\ UNCHANGED <<now, policyVars, tokenVars, oracleVars, settledTimes,
                   forcedTimes>>

setMaxPayoff ==
    \E payoff \in MaxPayoffs :
        /\ MAX_PAYOFF' = payoff
        /\ Touch("payoff")
        /\ UNCHANGED <<poolVars, DELAY_THRESHOLD_MIN, DELAY_THRESHOLD_MAX,
                       MIN_TIME_BEFORE_DEPARTURE, fee>>

setDelayThreshold ==
    \E threshold \in DelayThresholds :
        /\ DELAY_THRESHOLD_MIN' = threshold.min
        /\ DELAY_THRESHOLD_MAX' = threshold.max
        /\ Touch("threshold")
        /\ UNCHANGED <<poolVars, MAX_PAYOFF, MIN_TIME_BEFORE_DEPARTURE, fee>>

setMinTimeBeforeDeparture ==
    \E time \in MinTimes :
        /\ MIN_TIME_BEFORE_DEPARTURE' = time
        /\ Touch("minTime")
        /\ UNCHANGED <<poolVars, MAX_PAYOFF, DELAY_THRESHOLD_MIN,
                       DELAY_THRESHOLD_MAX, fee>>

setFee ==
    \E f \in Fees :
        /\ fee' = f
        /\ Touch("fee")
        /\ UNCHANGED <<poolVars, MAX_PAYOFF, DELAY_THRESHOLD_MIN,
                       DELAY_THRESHOLD_MAX, MIN_TIME_BEFORE_DEPARTURE>>

OwnerOfPool ==
    \/ \E time \in FrozenTimes :
           setFrozenTime(time) /\ Touch("frozenTime")
    \/ \E share \in RewardDistributions :
           setRewardDistribution(share) /\ Touch("distribution")
    \/ \E factor \in CollateralFactors :
           setCollateralFactor(factor) /\ Touch("factor")

-----------------------------------------------------------------------------
(* Specification *)

Init ==
    /\ PoolInit
    /\ totalPolicies = 0
    /\ policyList = [p \in PolicyIds |-> EmptyPolicy]
    /\ userPolicyList = [u \in Users |-> {}]
    /\ requestList = [r \in RequestIds |-> 0]
    /\ MAX_PAYOFF = 180 * UNIT
    /\ DELAY_THRESHOLD_MIN = 30
    /\ DELAY_THRESHOLD_MAX = 240
    /\ MIN_TIME_BEFORE_DEPARTURE = 1
    /\ fee = 1
    /\ nextId = 1
    /\ tokenOwner = [p \in PolicyIds |-> NoUser]
    /\ buyerTokens = [u \in Users |-> 0]
    /\ link = InitialLink
    /\ lastRequest = 0
    /\ pending = {}
    /\ settledTimes = [p \in PolicyIds |-> 0]
    /\ forcedTimes = [p \in PolicyIds |-> 0]
    /\ ownerTouched = {}

Tick ==
    \E t \in Moments :
        /\ t > now
        /\ now' = t
        /\ UNCHANGED <<poolVars, flowVars>>

Provider ==
    \E u \in Providers :
        /\ \/ \E a \in StakeAmounts : stake(u, a) \/ unstake(u, a)
           \/ unstakeMax(u)
        /\ UNCHANGED <<now, flowVars>>

Buyer == \E u \in Buyers, q \in Quotes : newApplication(u, q)

Claim == \E p \in PolicyIds : newClaimRequest(p)

ForceUpdate == \E p \in PolicyIds : forceClaimRequest(p)

Answer ==
    \E r \in RequestIds, d \in OracleResults :
        fulfill(r, d) \/ fulfillReverted(r, d)

TokenTransfer ==
    \E p \in Issued, u \in Users, v \in Recipients :
        /\ u # v
        /\ transferOwner(p, u, v) \/ transferFrom(p, u, v)

Owner ==
    \/ setMaxPayoff
    \/ setDelayThreshold
    \/ setMinTimeBeforeDeparture
    \/ setFee
    \/ OwnerOfPool /\ UNCHANGED paramVars

Next ==
    \/ Tick
    \/ Provider
    \/ Buyer
    \/ Claim
    \/ ForceUpdate
    \/ Answer
    \/ TokenTransfer
    \/ Owner

Spec == Init /\ [][Next]_vars

-----------------------------------------------------------------------------
(* Properties *)

\* Types of all variables.
PoolTypeOK ==
    /\ now \in Nat
    /\ usd \in [Accounts -> Nat]
    /\ lpBalance \in [Users -> Nat]
    /\ lpSupply \in Nat
    /\ depositTime \in [Users -> Nat]
    /\ LPValue \in Nat /\ lockedRatio \in Nat
    /\ totalStakingBalance \in Nat /\ lockedBalance \in Nat
    /\ availableCapacity \in Nat /\ activePremiums \in Nat
    /\ collateralFactor \in Nat
    /\ rewardDistribution \in RewardShares
    /\ frozenTime \in Nat

FlowTypeOK ==
    /\ totalPolicies \in 0..MaxPolicies
    /\ policyList \in [PolicyIds -> PolicyInfo]
    /\ userPolicyList \in [Users -> SUBSET PolicyIds]
    /\ requestList \in [RequestIds -> 0..MaxPolicies]
    /\ MAX_PAYOFF \in Nat /\ DELAY_THRESHOLD_MIN \in Nat
    /\ DELAY_THRESHOLD_MAX \in Nat /\ MIN_TIME_BEFORE_DEPARTURE \in Nat
    /\ fee \in Nat
    /\ nextId \in Nat
    /\ tokenOwner \in [PolicyIds -> Users \cup {NoUser}]
    /\ buyerTokens \in [Users -> Nat]
    /\ link \in Nat
    /\ lastRequest \in 0..MaxRequests
    /\ pending \subseteq 1..lastRequest
    /\ settledTimes \in [PolicyIds -> Nat]
    /\ forcedTimes \in [PolicyIds -> Nat]
    /\ ownerTouched \subseteq {"payoff", "threshold", "minTime", "fee",
                               "frozenTime", "distribution", "factor"}

\* The variables of the product range over the types of the contracts'
\* storage, and no checked subtraction has been missed.
TypeOK == PoolTypeOK /\ FlowTypeOK

\* The pool owns exactly what its books say: the providers' staking balance
\* and the premiums of open policies, after any order of stakes, withdrawals,
\* sales, expiries, claims and changes of parameters (InsurancePool.sol).
PoolSolvent == usd[Pool] = totalStakingBalance + activePremiums

\* While the collateral factor is 100%, the staking balance is either locked
\* for a policy or available for the next one, even after the owner has
\* changed the maximum payoff or settled a policy twice (InsurancePool.sol
\* updates the three balances in six different functions).
CapacitySplit ==
    "factor" \notin ownerTouched =>
        availableCapacity + lockedBalance = totalStakingBalance

Undisturbed ==
    /\ "payoff" \notin ownerTouched
    /\ \A p \in PolicyIds : forcedTimes[p] = 0

\* The pool's locked balance and active premiums are the sums over the
\* policies that PolicyFlow still has open: two contracts, never out of step
\* as long as the owner neither changes the maximum payoff nor forces a
\* second settlement.
LockedCoversOpenPolicies ==
    Undisturbed =>
        /\ lockedBalance = MapThenSumSet(LAMBDA p : policyList[p].payoff,
                                         OpenPolicies)
        /\ activePremiums = MapThenSumSet(LAMBDA p : policyList[p].premium,
                                          OpenPolicies)

\* Whatever providers withdrew in the meantime, each open policy can be
\* settled with any normal oracle result: finalSettlement does not revert.
OpenPoliciesPayable ==
    (Undisturbed /\ ownerTouched \subseteq {"minTime", "fee", "frozenTime"}) =>
        \A p \in OpenPolicies, d \in OracleResults :
            NormalResult(d) => CanSettle(p, d)

\* A policy is settled at most once, plus once for every request that the
\* owner forces: newClaimRequest sets alreadySettled when the request is
\* sent, which closes the window in which two requests could be pending.
SettledAtMostOnce ==
    \A p \in PolicyIds : settledTimes[p] <= 1 + forcedTimes[p]

\* The policy id that PolicyFlow counts and the token id that FDPolicyToken
\* counts stay the same number, and only issued ids have an owner.
TokenIdIsPolicyId ==
    /\ nextId = totalPolicies + 1
    /\ \A p \in PolicyIds :
           (tokenOwner[p] # NoUser) <=> (policyList[p].status # "INI")

\* LP tokens never promise more than the staking balance: the rounding of
\* stake, unstake and of the LP value adds up to less than one LP token unit.
SharesBacked ==
    lpSupply * LPValue <= totalStakingBalance * SCALE + LPValue

\* While the premiums are distributed as deployed, the value of an LP token
\* never reaches zero with LP tokens outstanding: a zero value would make
\* every later stake revert on a division by zero.
PoolStaysOpen ==
    ("distribution" \notin ownerTouched /\ lpSupply > 0) =>
        FreshLPValue(usd[Pool], activePremiums) > 0

\* The recorded buyer, who is paid, changes only together with the token and
\* only from its previous holder (policyOwnerTransfer).
BuyerMovesWithToken ==
    [][\A p \in Issued :
        policyList'[p].buyerAddress # policyList[p].buyerAddress =>
            /\ policyList[p].buyerAddress = tokenOwner[p]
            /\ policyList'[p].buyerAddress = tokenOwner'[p]]_vars

-----------------------------------------------------------------------------
(* Liveness *)

\* Blocks are produced; anyone, the holder first of all, may send the claim
\* request; the oracle answers each request with a normal result.
Fairness ==
    /\ WF_vars(Tick)
    /\ \A p \in PolicyIds : WF_vars(newClaimRequest(p))
    /\ \A r \in RequestIds :
           WF_vars(\E d \in OracleResults : fulfill(r, d))

FairSpec == Spec /\ Fairness

\* Every policy that was sold is settled in the end.
EventuallySettled ==
    \A p \in PolicyIds :
        policyList[p].status = "SOLD" ~> policyList[p].status # "SOLD"

-----------------------------------------------------------------------------
(* Refinement *)

Phase(p) == CASE policyList[p].status = "INI"  -> "unsold"
              [] policyList[p].status = "SOLD" -> "open"
              [] OTHER                         -> "settled"

Cover == INSTANCE CoverPool WITH
            Policies <- PolicyIds,
            Cover    <- 180 * UNIT,
            phase    <- [p \in PolicyIds |-> Phase(p)],
            capital  <- totalStakingBalance

\* The product implements the cover pool: the three balances that the pool
\* keeps up to date amount to counting the open policies.
ImplementsCoverPool == Cover!Spec

-----------------------------------------------------------------------------
(* What comments of the code say and the code does not do *)

\* PolicyFlow.sol:489: "@param _payoff the payoff of the policy sold".  A
\* settlement that completes unlocks the payoff that the sale had locked.
SettlementUnlocksSoldPayoff ==
    [][\A p \in PolicyIds :
        settledTimes'[p] > settledTimes[p] =>
            lockedBalance - lockedBalance' = policyList[p].payoff]_vars
=============================================================================
