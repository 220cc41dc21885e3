---------------------------- MODULE NaughtyCore ----------------------------
(***************************************************************************)
(* The core of the naughty price product (PolicyCore.sol).  Depositing a   *)
(* stablecoin mints as many policy tokens (NPPolicyToken) and gives the    *)
(* depositor a quota.  Before the deadline tokens and quota together       *)
(* redeem the deposit.  After the settlement the policy tokens claim it    *)
(* when the insured event has happened, the quotas redeem it otherwise.    *)
(* The stablecoins of all policies lie in one pot per stablecoin.          *)
(*                                                                         *)
(* A policy is named by its token name; the token's address, decimals and  *)
(* the generation of the name are left out: all stablecoins have the same  *)
(* decimals, so that CREATE2 refuses to deploy a name twice.               *)
(***************************************************************************)
EXTENDS Integers, FiniteSets, SequencesExt

CONSTANTS
    Users,          \* externally owned accounts
    Traders,        \* users that policy tokens are passed between
    Core,           \* address of this contract
    LotteryPool,    \* address of the lottery contract
    SharingVault,   \* address of the income sharing contract
    OtherContracts, \* further accounts: pairs and matching rounds
    Policies,       \* policy token names
    Stablecoins,    \* stablecoins, supported or not
    USDC,           \* the stablecoin supported from the start
    NoCoin,         \* the zero address
    InitialBalance, \* of each stablecoin, per user
    Start,          \* block timestamp of the deployment
    Instants,       \* block timestamps
    Terms,          \* terms that the owner may give a policy
    Amounts,        \* amounts of deposits, redemptions, claims, transfers
    Prices,         \* prices the price getters may return
    LotteryParts,   \* values the owner may give to toLotteryPart
    InitiallyWired, \* addresses set by the deployment scripts
    MaxDepositors   \* bound on the length of a depositor list

Holders == Users \cup OtherContracts \cup {Core, LotteryPool, SharingVault}

\* Addresses that the owner sets after the deployment.
Roles == {"lottery", "incomeSharing", "router", "ILM", "IDO", "arbitrary"}

PoolTypes == {"normal", "IDO", "arbitrary"}

TermsType == [isCall : BOOLEAN, strikePrice : Nat, deadline : Nat,
              settleTimestamp : Nat, poolType : PoolTypes]

ASSUME HolderAssumption ==
    /\ \A a \in {Core, LotteryPool, SharingVault} :
           a \notin Users \cup OtherContracts
    /\ Users \cap OtherContracts = {} /\ Traders \subseteq Users
    /\ Core \notin {LotteryPool, SharingVault}
    /\ LotteryPool # SharingVault
ASSUME FiniteAssumption ==
    IsFiniteSet(Users) /\ IsFiniteSet(OtherContracts) /\ IsFiniteSet(Policies)
ASSUME CoinAssumption == USDC \in Stablecoins /\ NoCoin \notin Stablecoins
ASSUME ValueAssumption ==
    /\ InitialBalance \in Nat /\ Start \in Nat /\ MaxDepositors \in Nat
    /\ Instants \subseteq Nat /\ Amounts \subseteq Nat \ {0}
    /\ Prices \subseteq Nat /\ LotteryParts \subseteq Nat
    /\ Terms \subseteq TermsType /\ InitiallyWired \subseteq Roles

VARIABLES
    now,                \* block.timestamp
    stable,             \* balanceOf of each stablecoin
    tokens,             \* balanceOf of each policy token
    wired,              \* roles whose address has been set
    supportedStablecoin,
    toLotteryPart,
    deployed,           \* policies with a token
    policyTokenInfo,    \* policyTokenInfoMapping
    whichStablecoin,
    pools,              \* pairs deployed by the factory
    userQuota,
    allDepositors,
    settleResult,
    pendingIncomeToLottery,
    pendingIncomeToSharing

ledgerVars == <<stable, tokens>>
setupVars  == <<wired, supportedStablecoin, toLotteryPart>>
listVars   == <<deployed, policyTokenInfo, whichStablecoin, pools>>
quotaVars  == <<userQuota, allDepositors>>
incomeVars == <<pendingIncomeToLottery, pendingIncomeToSharing>>
coreVars   == <<now, ledgerVars, setupVars, listVars, quotaVars, settleResult,
                incomeVars>>

Unsettled == [price |-> 0, isHappened |-> FALSE, alreadySettled |-> FALSE,
              currentDistributionIndex |-> 0]

NoTerms == [isCall |-> FALSE, strikePrice |-> 0, deadline |-> 0,
            settleTimestamp |-> 0, poolType |-> "normal"]

Total(f, S) == MapThenSumSet(LAMBDA x : f[x], S)

Move(ledger, from, to, amount) ==
    [ledger EXCEPT ![from] = @ - amount, ![to] = @ + amount]

-----------------------------------------------------------------------------
(* Modifiers *)

beforeDeadline(p) == now <= policyTokenInfo[p].deadline

afterSettlement(p) == now >= policyTokenInfo[p].settleTimestamp

validPolicyTokenWithStablecoin(p, s) == p \in deployed /\ whichStablecoin[p] = s

GotResult(p) == settleResult[p].price # 0 /\ settleResult[p].alreadySettled

-----------------------------------------------------------------------------
(* Fees *)

WithFee(amount) == (amount * 990) \div 1000

Fee(amount) == amount - WithFee(amount)

LotteryFee(amount) == (Fee(amount) * toLotteryPart) \div 10

_chargeFee(s, amount) ==
    /\ pendingIncomeToLottery' = [pendingIncomeToLottery EXCEPT
                                      ![s] = @ + LotteryFee(amount)]
    /\ pendingIncomeToSharing' = [pendingIncomeToSharing EXCEPT
                                      ![s] = @ + Fee(amount) - LotteryFee(amount)]

Pay(s, user, amount) ==
    /\ stable[s][Core] >= amount
    /\ stable' = [stable EXCEPT ![s] = Move(@, Core, user, amount)]

burn_Unchecked(p, user, amount) ==
    tokens' = [tokens EXCEPT ![p][user] = @ - amount]

burn(p, user, amount) ==
    /\ tokens[p][user] >= amount
    /\ tokens' = [tokens EXCEPT ![p][user] = @ - amount]

-----------------------------------------------------------------------------
(* Deposits *)

Enlist_AfterUpdate(p, user) == allDepositors[p]

\* A depositor without quota is pushed, also when they have been listed before.
Enlist(p, user) ==
    IF userQuota[p][user] = 0 THEN Append(allDepositors[p], user)
    ELSE allDepositors[p]

CanDeposit(p, s, amount, user) ==
    /\ beforeDeadline(p)
    /\ validPolicyTokenWithStablecoin(p, s)
    /\ amount > 0
    /\ stable[s][user] >= amount
    /\ Len(Enlist(p, user)) <= MaxDepositors

\* The part of _deposit that keeps the books.
RecordDeposit(p, amount, user) ==
    /\ allDepositors' = [allDepositors EXCEPT ![p] = Enlist(p, user)]
    /\ userQuota' = [userQuota EXCEPT ![p][user] = @ + amount]

_deposit(p, s, amount, user) ==
    /\ CanDeposit(p, s, amount, user)
    /\ RecordDeposit(p, amount, user)
    /\ stable' = [stable EXCEPT ![s] = Move(@, user, Core, amount)]
    /\ tokens' = [tokens EXCEPT ![p][user] = @ + amount]
    /\ UNCHANGED <<now, setupVars, listVars, settleResult, incomeVars>>

deposit(p, s, amount, user) == _deposit(p, s, amount, user)

redeem_KeepsTokens(p, s, amount, user) ==
    /\ beforeDeadline(p)
    /\ validPolicyTokenWithStablecoin(p, s)
    /\ userQuota[p][user] >= amount
    /\ userQuota' = [userQuota EXCEPT ![p][user] = @ - amount]
    /\ _chargeFee(s, amount)
    /\ Pay(s, user, WithFee(amount))
    /\ UNCHANGED <<now, tokens, setupVars, listVars, allDepositors, settleResult>>

redeem(p, s, amount, user) ==
    /\ beforeDeadline(p)
    /\ validPolicyTokenWithStablecoin(p, s)
    /\ userQuota[p][user] >= amount
    /\ userQuota' = [userQuota EXCEPT ![p][user] = @ - amount]
    /\ _chargeFee(s, amount)
    /\ Pay(s, user, WithFee(amount))
    /\ burn(p, user, amount)
    /\ UNCHANGED <<now, setupVars, listVars, allDepositors, settleResult>>

-----------------------------------------------------------------------------
(* Settlement *)

PossiblePrices_Zero(p) == Prices

\* The Chainlink getter turns a negative price into zero, and the IDO getter
\* multiplies by such a price; the arbitrary getter refuses a zero price.
PossiblePrices(p) ==
    CASE policyTokenInfo[p].poolType = "normal" -> Prices
      [] policyTokenInfo[p].poolType = "IDO" ->
             IF "IDO" \in wired THEN Prices ELSE {}
      [] policyTokenInfo[p].poolType = "arbitrary" ->
             IF "arbitrary" \in wired THEN Prices \ {0} ELSE {}

Happens(p, price) ==
    IF policyTokenInfo[p].isCall THEN price >= policyTokenInfo[p].strikePrice
    ELSE price <= policyTokenInfo[p].strikePrice

CanSettle_Again(p) == p \in deployed /\ afterSettlement(p)

CanSettle(p) ==
    /\ p \in deployed
    /\ afterSettlement(p)
    /\ ~settleResult[p].alreadySettled

settleFinalResult(p) ==
    /\ CanSettle(p)
    /\ \E price \in PossiblePrices(p) :
           settleResult' = [settleResult EXCEPT
               ![p].alreadySettled = TRUE,
               ![p].price = price,
               ![p].isHappened = Happens(p, price)]
    /\ UNCHANGED <<now, ledgerVars, setupVars, listVars, quotaVars, incomeVars>>

redeemAfterSettlement(p, s, user) ==
    LET quota == userQuota[p][user]
    IN  /\ afterSettlement(p)
        /\ validPolicyTokenWithStablecoin(p, s)
        /\ GotResult(p) /\ ~settleResult[p].isHappened
        /\ quota > 0
        /\ _chargeFee(s, quota)
        /\ Pay(s, user, WithFee(quota))
        /\ userQuota' = [userQuota EXCEPT ![p][user] = 0]
        /\ UNCHANGED <<now, tokens, setupVars, listVars, allDepositors,
                       settleResult>>

claim(p, s, amount, user) ==
    /\ afterSettlement(p)
    /\ validPolicyTokenWithStablecoin(p, s)
    /\ GotResult(p) /\ settleResult[p].isHappened
    /\ _chargeFee(s, amount)
    /\ Pay(s, user, WithFee(amount))
    /\ burn(p, user, amount)
    /\ UNCHANGED <<now, setupVars, listVars, quotaVars, settleResult>>

-----------------------------------------------------------------------------
(* Distribution by the owner *)

\* The quota that _settlePolicy charges at position i of the depositor list.
\* A depositor listed twice is charged once, but the quota of one whose
\* amount after the fee is zero stays and is charged every time.
ChargedAt(p, start, i) ==
    LET user  == allDepositors[p][i]
        quota == userQuota[p][user]
        again == \E j \in (start + 1)..(i - 1) : allDepositors[p][j] = user
    IN  IF again /\ WithFee(quota) > 0 THEN 0 ELSE quota

Served(p, start, stop) ==
    {user \in Holders :
        /\ \E i \in (start + 1)..stop : allDepositors[p][i] = user
        /\ WithFee(userQuota[p][user]) > 0}

QuotaAfter_Kept(p, start, stop) == userQuota[p]

QuotaAfter(p, start, stop) ==
    [user \in Holders |-> IF user \in Served(p, start, stop) THEN 0
                          ELSE userQuota[p][user]]

_settlePolicy(p, s, start, stop) ==
    LET positions == (start + 1)..stop
        toLottery == MapThenSumSet(LAMBDA i : LotteryFee(ChargedAt(p, start, i)),
                                   positions)
        fees == MapThenSumSet(LAMBDA i : Fee(ChargedAt(p, start, i)), positions)
        paid == [user \in Holders |-> IF user \in Served(p, start, stop)
                                      THEN WithFee(userQuota[p][user]) ELSE 0]
    IN  /\ stable[s][Core] >= Total(paid, Holders)
        /\ stable' = [stable EXCEPT ![s] = [a \in Holders |->
               IF a = Core THEN @[Core] - Total(paid, Holders)
               ELSE @[a] + paid[a]]]
        /\ userQuota' = [userQuota EXCEPT ![p] = QuotaAfter(p, start, stop)]
        /\ pendingIncomeToLottery' = [pendingIncomeToLottery EXCEPT
               ![s] = @ + toLottery]
        /\ pendingIncomeToSharing' = [pendingIncomeToSharing EXCEPT
               ![s] = @ + fees - toLottery]

\* The stablecoin is not compared with the policy's.  The bounds (0, 0) stand
\* for the whole list; the last depositor is reached in no other way.
settleAllPolicyTokens(p, s, start, stop) ==
    LET length == Len(allDepositors[p])
        all    == start = 0 /\ stop = 0
        last   == IF all THEN length ELSE stop
    IN  /\ p \in deployed
        /\ GotResult(p) /\ ~settleResult[p].isHappened
        /\ settleResult[p].currentDistributionIndex <= length
        /\ \/ all
           \/ /\ settleResult[p].currentDistributionIndex = start
              /\ stop < length
        /\ _settlePolicy(p, s, start, last)
        /\ settleResult' = [settleResult EXCEPT
                                ![p].currentDistributionIndex = last]
        /\ UNCHANGED <<now, tokens, setupVars, listVars, allDepositors>>

\* Version 1.0 did not reset the pending income.
collectIncome_KeepsPending(s) ==
    /\ {"lottery", "incomeSharing"} \subseteq wired
    /\ pendingIncomeToLottery[s] > 0 \/ pendingIncomeToSharing[s] > 0
    /\ stable[s][Core] >= pendingIncomeToLottery[s] + pendingIncomeToSharing[s]
    /\ stable' = [stable EXCEPT ![s] =
           Move(Move(@, Core, LotteryPool, pendingIncomeToLottery[s]),
                Core, SharingVault, pendingIncomeToSharing[s])]
    /\ UNCHANGED <<now, tokens, setupVars, listVars, quotaVars, settleResult,
                   incomeVars>>

collectIncome(s) ==
    /\ {"lottery", "incomeSharing"} \subseteq wired
    /\ pendingIncomeToLottery[s] > 0 \/ pendingIncomeToSharing[s] > 0
    /\ stable[s][Core] >= pendingIncomeToLottery[s] + pendingIncomeToSharing[s]
    /\ stable' = [stable EXCEPT ![s] =
           Move(Move(@, Core, LotteryPool, pendingIncomeToLottery[s]),
                Core, SharingVault, pendingIncomeToSharing[s])]
    /\ pendingIncomeToLottery' = [pendingIncomeToLottery EXCEPT ![s] = 0]
    /\ pendingIncomeToSharing' = [pendingIncomeToSharing EXCEPT ![s] = 0]
    /\ UNCHANGED <<now, tokens, setupVars, listVars, quotaVars, settleResult>>

-----------------------------------------------------------------------------
(* Called by the initial liquidity matching contract *)

updateUserQuota(p, user, amount) ==
    /\ "ILM" \in wired
    /\ userQuota' = [userQuota EXCEPT ![p][user] = @ + amount]

-----------------------------------------------------------------------------
(* Owner functions *)

deployPolicyToken(p, terms) ==
    /\ p \notin deployed
    /\ terms.deadline > now
    /\ terms.settleTimestamp >= terms.deadline
    /\ deployed' = deployed \cup {p}
    /\ policyTokenInfo' = [policyTokenInfo EXCEPT ![p] = terms]
    /\ UNCHANGED <<now, ledgerVars, setupVars, whichStablecoin, pools,
                   quotaVars, settleResult, incomeVars>>

\* Called by the owner or by the matching contract.  NaughtyFactory.deployPool
\* fails when the pair exists.
deployPool(p, s, poolDeadline) ==
    /\ s \in supportedStablecoin
    /\ p \in deployed
    /\ poolDeadline > now
    /\ poolDeadline = policyTokenInfo[p].deadline
    /\ <<p, s>> \notin pools
    /\ pools' = pools \cup {<<p, s>>}
    /\ whichStablecoin' = [whichStablecoin EXCEPT ![p] = s]
    /\ UNCHANGED <<now, ledgerVars, setupVars, deployed, policyTokenInfo,
                   quotaVars, settleResult, incomeVars>>

addStablecoin(s) ==
    /\ supportedStablecoin' = supportedStablecoin \cup {s}
    /\ UNCHANGED <<now, ledgerVars, wired, toLotteryPart, listVars, quotaVars,
                   settleResult, incomeVars>>

setIncomeToLottery(part) ==
    /\ part <= 10
    /\ toLotteryPart' = part
    /\ UNCHANGED <<now, ledgerVars, wired, supportedStablecoin, listVars,
                   quotaVars, settleResult, incomeVars>>

\* setLottery, setIncomeSharing, setNaughtyRouter, setILMContract,
\* setIDOPriceGetter and setArbitraryPriceGetter.
setAddress(role) ==
    /\ wired' = wired \cup {role}
    /\ UNCHANGED <<now, ledgerVars, supportedStablecoin, toLotteryPart,
                   listVars, quotaVars, settleResult, incomeVars>>

-----------------------------------------------------------------------------
(* Policy tokens change hands outside of this contract *)

transferPolicyToken(p, from, to, amount) ==
    /\ tokens[p][from] >= amount
    /\ tokens' = [tokens EXCEPT ![p] = Move(@, from, to, amount)]
    /\ UNCHANGED <<now, stable, setupVars, listVars, quotaVars, settleResult,
                   incomeVars>>

-----------------------------------------------------------------------------
(* Specification *)

CoreInit ==
    /\ now = Start
    /\ stable = [s \in Stablecoins |-> [a \in Holders |->
                    IF a \in Users THEN InitialBalance ELSE 0]]
    /\ tokens = [p \in Policies |-> [a \in Holders |-> 0]]
    /\ wired = InitiallyWired
    /\ supportedStablecoin = {USDC}
    /\ toLotteryPart = 2
    /\ deployed = {}
    /\ policyTokenInfo = [p \in Policies |-> NoTerms]
    /\ whichStablecoin = [p \in Policies |-> NoCoin]
    /\ pools = {}
    /\ userQuota = [p \in Policies |-> [a \in Holders |-> 0]]
    /\ allDepositors = [p \in Policies |-> <<>>]
    /\ settleResult = [p \in Policies |-> Unsettled]
    /\ pendingIncomeToLottery = [s \in Stablecoins |-> 0]
    /\ pendingIncomeToSharing = [s \in Stablecoins |-> 0]

Tick ==
    \E t \in Instants :
        /\ t > now
        /\ now' = t
        /\ UNCHANGED <<ledgerVars, setupVars, listVars, quotaVars,
                       settleResult, incomeVars>>

CoreUser ==
    \E p \in Policies, s \in Stablecoins, u \in Users :
        \/ redeemAfterSettlement(p, s, u)
        \/ \E a \in Amounts :
               \/ deposit(p, s, a, u)
               \/ redeem(p, s, a, u)
               \/ claim(p, s, a, u)

CoreTransfer ==
    \E p \in Policies, u, v \in Traders, a \in Amounts :
        u # v /\ transferPolicyToken(p, u, v, a)

CoreSettle == \E p \in Policies : settleFinalResult(p)

CoreDistribute ==
    \E p \in Policies, s \in Stablecoins, i, j \in 0..MaxDepositors :
        settleAllPolicyTokens(p, s, i, j)

CoreCollect == \E s \in Stablecoins : collectIncome(s)

CoreOwner ==
    \/ \E p \in Policies, terms \in Terms : deployPolicyToken(p, terms)
    \/ \E p \in Policies, s \in Stablecoins :
           deployPool(p, s, policyTokenInfo[p].deadline)
    \/ \E s \in Stablecoins : addStablecoin(s)
    \/ \E part \in LotteryParts : setIncomeToLottery(part)
    \/ \E role \in Roles : setAddress(role)

CoreNext ==
    \/ Tick
    \/ CoreUser
    \/ CoreTransfer
    \/ CoreSettle
    \/ CoreDistribute
    \/ CoreCollect
    \/ CoreOwner

CoreSpec == CoreInit /\ [][CoreNext]_coreVars

-----------------------------------------------------------------------------
(* Properties *)

SettlementInfo == [price : Nat, isHappened : BOOLEAN, alreadySettled : BOOLEAN,
                   currentDistributionIndex : Nat]

\* Types of all variables.
CoreTypeOK ==
    /\ now \in Nat
    /\ stable \in [Stablecoins -> [Holders -> Nat]]
    /\ tokens \in [Policies -> [Holders -> Nat]]
    /\ wired \subseteq Roles
    /\ supportedStablecoin \subseteq Stablecoins
    /\ toLotteryPart \in 0..10
    /\ deployed \subseteq Policies
    /\ policyTokenInfo \in [Policies -> TermsType]
    /\ whichStablecoin \in [Policies -> Stablecoins \cup {NoCoin}]
    /\ pools \subseteq Policies \X Stablecoins
    /\ userQuota \in [Policies -> [Holders -> Nat]]
    /\ allDepositors \in [Policies -> Seq(Holders)]
    /\ settleResult \in [Policies -> SettlementInfo]
    /\ pendingIncomeToLottery \in [Stablecoins -> Nat]
    /\ pendingIncomeToSharing \in [Stablecoins -> Nat]

TotalQuota(p)  == Total(userQuota[p], Holders)
TotalTokens(p) == Total(tokens[p], Holders)

\* What the pot owes to the holders of a policy.
Owed(p) == IF GotResult(p) /\ ~settleResult[p].isHappened THEN TotalQuota(p)
           ELSE TotalTokens(p)

PendingIncome(s) == pendingIncomeToLottery[s] + pendingIncomeToSharing[s]

\* The pot of a stablecoin holds exactly what is still owed to the policies
\* that use it and the income not yet collected, across all policies that
\* share it: no policy pays out of the deposits of another.
CorePotSolvent ==
    \A s \in Stablecoins :
        stable[s][Core] =
            MapThenSumSet(Owed, {p \in Policies : whichStablecoin[p] = s})
            + PendingIncome(s)

\* Until the result is known, there are as many policy tokens as quotas, even
\* though tokens travel and quotas do not: both outcomes are fully covered.
QuotaMatchesSupply ==
    \A p \in Policies : ~GotResult(p) => TotalQuota(p) = TotalTokens(p)

\* Everyone with a quota is in the list that the owner's distribution goes
\* through, also after redeeming everything and depositing again.
EveryQuotaHolderListed ==
    \A p \in Policies, u \in Holders :
        userQuota[p][u] > 0 =>
            \E i \in 1..Len(allDepositors[p]) : allDepositors[p][i] = u

\* When deposits end before the settlement, nobody in the part of the list
\* that has been distributed has a quota left.
DistributedArePaid ==
    \A p \in Policies :
        policyTokenInfo[p].deadline < policyTokenInfo[p].settleTimestamp =>
            \A i \in 1..settleResult[p].currentDistributionIndex :
                WithFee(userQuota[p][allDepositors[p][i]]) = 0

\* The result of a policy is final: price and outcome are recorded once and
\* never before the settlement timestamp.
ResultIsFinal ==
    [][\A p \in Policies :
        <<settleResult'[p].price, settleResult'[p].isHappened>>
            # <<settleResult[p].price, settleResult[p].isHappened>> =>
                /\ now >= policyTokenInfo[p].settleTimestamp
                /\ ~settleResult[p].alreadySettled
                /\ settleResult'[p].alreadySettled]_coreVars

-----------------------------------------------------------------------------
(* Liveness *)

\* Blocks are produced, anyone asks for the final result, and holders come
\* for their money.  Policy tokens may be passed around, which interrupts a
\* claim without preventing it for good: strong fairness for claims.
CoreFairness ==
    /\ WF_coreVars(Tick)
    /\ \A p \in Policies : WF_coreVars(settleFinalResult(p))
    /\ \A p \in Policies, u \in Users :
           /\ WF_coreVars(\E s \in Stablecoins : redeemAfterSettlement(p, s, u))
           /\ SF_coreVars(\E s \in Stablecoins, a \in Amounts :
                              claim(p, s, a, u))

FairCoreSpec == CoreSpec /\ CoreFairness

\* The money behind a policy is paid out in the end, whatever the result.
EventuallyPaidOut == \A p \in Policies : p \in deployed ~> Owed(p) = 0

-----------------------------------------------------------------------------
(* What comments of the code say and the code does not do *)

\* PolicyCore.sol:805: "Check if we have already settle the final price".
\* A settled policy passes the check.
SettledMeansResult ==
    \A p \in Policies : settleResult[p].alreadySettled => GotResult(p)
=============================================================================
