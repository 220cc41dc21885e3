----------------------------- MODULE AdminTasks -----------------------------
(***************************************************************************)
(* The hardhat tasks of tasks/ that change something, each as the steps it *)
(* awaits, in the vocabulary of DeployScripts.  Tasks that only print are  *)
(* left out.  A task starts by reading the address book (by itself or      *)
(* through the task "preparation") and addresses every contract by it.     *)
(* Tokens whose address the operator typed, or another contract told, are  *)
(* not in the book: approving them is part of the call they prepare.       *)
(***************************************************************************)
EXTENDS DeployScripts, FiniteSets

\* readAddressList() and nothing else, then one transaction.
Send(target) == <<Read("address"), Call(target)>>

\* The tasks of a file that each send one transaction to one contract.
Sends(target, tasks) == UNION {Named(task, Send(target)) : task \in tasks}

(***************************************************************************)
(* Registries: things created on chain that a JSON list records.  Create   *)
(* and Alter are transactions, Record writes the copy of the list.         *)
(***************************************************************************)
Create(kind, target, key) ==
    [op |-> "create", kind |-> kind, target |-> target, key |-> key]
Alter(kind, target, key) ==
    [op |-> "alter", kind |-> kind, target |-> target, key |-> key]
Record(kind, file, key, fresh) ==
    [op |-> "record", kind |-> kind, file |-> file, key |-> key, fresh |-> fresh]
\* The entry's own value is edited in place: there must be one.
RecordNew(kind, file, key)    == Record(kind, file, key, TRUE)
RecordChange(kind, file, key) == Record(kind, file, key, FALSE)
\* A view of the core that reverts for an unknown name.
Check(kind, key) == [op |-> "check", kind |-> kind, key |-> key]

\* deployNPToken computes the token's name itself; the core computes it from
\* the strike price and the number of decimals.  typed is the task's name,
\* named the core's: they differ when the operator writes the price otherwise.
DeployNPToken(typed, named) ==
    <<Read("address"), Read("NPToken"),
      Create("token", "PolicyCoreUpgradeable", named),
      Check("token", typed),
      RecordNew("token", "NPToken", typed), Store("NPToken")>>

\* The pair is created by the core; its address is then asked of the factory.
DeployNPPool(name) ==
    <<Read("address"), Read("NPPool"),
      Create("pool", "PolicyCoreUpgradeable", name),
      Attach("NaughtyFactoryUpgradeable"),
      RecordNew("pool", "NPPool", name), Store("NPPool")>>

StartILM(name) ==
    <<Read("address"), Read("ILM"),
      Create("ilm", "ILM", name),
      RecordNew("ilm", "ILM", name), Store("ILM")>>

\* The list that was changed is not stored.
StopILM_NotStored(name) ==
    <<Read("address"), Read("ILM"), Check("token", name), Alter("ilm", "ILM", name),
      RecordChange("ilm", "ILM", name)>>

\* finishILM makes the core deploy the pair.  The list's entry is changed in
\* place, after the transaction.
StopILM(name) ==
    <<Read("address"), Read("ILM"),
      Check("token", name),
      Alter("ilm", "ILM", name),
      RecordChange("ilm", "ILM", name), Store("ILM")>>

\* The farming list was read when hardhat loaded the file: no Read here.
AddFarmingPool(lp) ==
    <<Read("address"), Create("farm", "FarmingPoolUpgradeable", lp),
      RecordNew("farm", "FarmingPool", lp), Store("FarmingPool")>>

SetFarmingPoolDegisReward(lp) ==
    <<Read("address"), Alter("farm", "FarmingPoolUpgradeable", lp),
      RecordChange("farm", "FarmingPool", lp), Store("FarmingPool")>>

\* Empty the copy of one file, store it as another, or the same.
Clear(from, to) ==
    <<Read(from), [op |-> "clear", file |-> from, as |-> to], Store(to)>>

\* The token list is stored as the farming list.
ClearRecord_FarmingFromTokens ==
    Named("ContractAddress", Clear("address", "address"))
    \cup Named("FarmingPool", Clear("NPToken", "FarmingPool"))
    \cup Named("NaughtyPool", Clear("FarmingPool", "NPPool"))
    \cup Named("NaughtyToken", Clear("NPToken", "NPToken"))
    \cup Named("ProxyAdmin", Clear("proxyAdmin", "proxyAdmin"))

\* clearRecord empties the network's part of a file.  Its NaughtyPool case
\* reads the farming list and stores that as the pool list.
ClearRecord ==
    Named("ContractAddress", Clear("address", "address"))
    \cup Named("FarmingPool", Clear("FarmingPool", "FarmingPool"))
    \cup Named("NaughtyPool", Clear("FarmingPool", "NPPool"))
    \cup Named("NaughtyToken", Clear("NPToken", "NPToken"))
    \cup Named("ProxyAdmin", Clear("proxyAdmin", "proxyAdmin"))

(***************************************************************************)
(* Tasks that point one contract at another                                *)
(***************************************************************************)
NaughtyPriceWiring ==
    Named("setNPFactory", <<Read("address"),
        Set("NaughtyFactoryUpgradeable", "policyCore", "PolicyCoreUpgradeable")>>)
    \cup Named("setNPRouter", <<Read("address"),
        Set("NaughtyRouterUpgradeable", "policyCore", "PolicyCoreUpgradeable")>>)
    \cup Named("setNPCore", <<Read("address"),
        Set("PolicyCoreUpgradeable", "router", "NaughtyRouterUpgradeable")>>)

\* The lottery's income goes to the emergency pool.
CoreIncomeWiring ==
    Named("setLotteryAndIncomeInCore", <<Read("address"),
        Set("PolicyCoreUpgradeable", "incomeSharing", "IncomeSharingVault"),
        Set("PolicyCoreUpgradeable", "lottery", "EmergencyPool")>>)
    \cup Named("setILMInCore", <<Read("address"),
        Set("PolicyCoreUpgradeable", "ILMContract", "ILM")>>)

AddPriceFeed == Named("addPriceFeed", Send("PriceGetter"))
ArbitraryWiring ==
    Named("setArbitraryPriceGetterInCore", <<Read("address"),
        Set("PolicyCoreUpgradeable", "arbitraryPriceGetter", "ArbitraryPriceGetter")>>)

LotteryWiring ==
    Named("setLottery", <<Read("address"),
        Set("DegisLottery", "randomGenerator", "RandomNumberGenerator")>>)
    \cup Named("setRandGenerator", <<Read("address"),
        Set("RandomNumberGenerator", "DegisLottery", "DegisLottery")>>)
    \cup Named("setVRFMock", SetVRFMock) \cup Named("setTreasury", SetTreasury)
    \cup Named("setVRF", SetVRF)

SetOperator ==
    Named("setOperator", <<Read("address"),
        Set("DegisLottery", "operatorAddress", "InsurancePool")>>)

FlightWiring ==
    Named("setFDPolicyFlow", SetFDPolicyFlow) \cup Named("setFDPolicyToken", SetFDPolicyToken)
    \cup Named("setFDOracle", SetFDOracle) \cup Named("setFDInsurancePool", SetFDInsurancePool)

IncomeWiring ==
    Named("setIncomeMakerInFactory", SetIncomeMakerInFactory)
    \cup Named("setIncomeSharingInCore", <<Read("address"),
        Set("PolicyCoreUpgradeable", "incomeSharing", "IncomeSharingVault"),
        Set("PolicyCoreUpgradeable", "lottery", "EmergencyPool")>>)
    \cup Named("addIncomeSharingWL", <<Read("address"),
        Set("VoteEscrowedDegis", "whitelist", "IncomeSharingVault")>>)

FarmingTasks ==
    Sends("FarmingPoolUpgradeable",
          {"setFarmingStartTime", "setPieceWise-Farming", "stopPieceWise-Farming"})
    \cup Named("setVeDEG", <<Read("address"),
        Set("FarmingPoolUpgradeable", "veDEG", "VoteEscrowedDegis")>>)

DoubleRewardTasks ==
    Sends("DoubleRewarder", {"addDoubleRewardToken", "setDoubleRewardSpeed", "setClaimable"})
    \cup Named("setDoubleRewardContract", <<Read("address"),
        Set("FarmingPoolUpgradeable", "doubleRewarder", "DoubleRewarder")>>)

(***************************************************************************)
(* Tokens: roles, and amounts minted by hand                               *)
(***************************************************************************)
TokenRoles ==
    LET mayMint(token, entry) == AddMinterBurner("minter", token, entry)
    IN  Named("addStakingMinter", mayMint("DegisToken", "StakingPoolFactory"))
        \cup Named("addFarmingMinter", mayMint("DegisToken", "FarmingPoolUpgradeable"))
        \cup Named("addRouterMinter", mayMint("BuyerToken", "NaughtyRouterUpgradeable"))
        \cup Named("addAllMinterBurner", mayMint("BuyerToken", "NaughtyRouter"))

MintTasks(net) ==
    Named("mintBuyerToken", Send("BuyerToken"))
    \cup Named("mintDegisToken", Send("DegisToken"))
    \cup (IF net \in Avalanche
          THEN Named("mintUSD", <<Read("address")>>) \cup Named("ILMTestDEG", <<Read("address")>>)
          ELSE Named("mintUSD", Send("MockUSD"))
               \cup Named("ILMTestDEG", <<Read("address"), Set("DegisToken", "approved", "MockUSD"),
                                    Call("DegisToken")>>))

(***************************************************************************)
(* Tasks that send what the operator typed                                 *)
(***************************************************************************)
LotteryRoundTasks == Sends("DegisLotteryV2", {"startLotteryRound", "closeLotteryRound"})
RequestRandom == Named("requestRandom", Send("RandomNumberGeneratorV2"))
LotteryTicketTasks ==
    Sends("DegisLotteryV2", {"setRoundLength"})
    \cup Named("buyTickets", <<Read("address"),
        Set("DegisToken", "approved", "DegisLotteryV2"), Call("DegisLotteryV2")>>)

PurchaseIncentiveTasks ==
    Named("setVaultReward", <<Read("address"), Call("PurchaseIncentiveVault"),
        Call("PurchaseIncentiveVault")>>)
    \cup Sends("PurchaseIncentiveVault", {"settlePurchaseIncentive", "setPieceWise-Purchase"})

IncomePoolTasks ==
    Sends("IncomeSharingVault", {"startIncomeSharingPool", "setIncomeSpeed", "setRoundTime"})
UpdateLastRewardBalance == Sends("IncomeSharingVault", {"updateLastRewardBalance"})

ConvertIncome == Named("convertIncome", Send("IncomeMaker"))

VeDEGTasks ==
    Sends("VoteEscrowedDegis", {"setGenerationRate", "addWhiteList-Ve", "removeWhiteList-Ve"})
    \cup Named("upgradeVeDEG", <<Read("address"), Attach("VoteEscrowedDegis"), Call("ProxyAdmin")>>)
VeDEGLockTasks == Sends("VoteEscrowedDegis", {"setNFTStaking", "unlockVeDEG"})

FlightOracleTasks == Sends("FlightOracle", {"setOracleAddress", "setJobId"})
SetFrozenTime     == Sends("InsurancePool", {"setFrozenTime"})
SignerTasks       == Sends("SigManager", {"addSigner", "removeSigner"})

PolicyFlowTasks ==
    Sends("PolicyFlow", {"settleFDPolicy", "buyFDPolicy", "changeFee", "setURL"})

CoreTasks == Sends("PolicyCoreUpgradeable", {"settleNPToken", "collectIncome"})
AddStablecoin == Sends("PolicyCoreUpgradeable", {"addStablecoin"})

\* A deposit into the first core, on localhost only.
NPUserAction(net) ==
    Named("NPUserAction", IF net = "localhost" THEN Send("PolicyCore") ELSE <<Read("address")>>)

PriceFeedTasks ==
    Sends("IDOPriceGetter", {"addIDOPriceFeed", "samplePrice"})
    \cup Named("setIDOPriceGetter", <<Read("address"),
        Set("PolicyCoreUpgradeable", "idoPriceGetter", "IDOPriceGetter")>>)
SetIDOPrice == Sends("IDOPriceGetter", {"setIDOPrice"})

ArbitraryFeedTasks ==
    Sends("ArbitraryPriceGetter", {"addArbitraryPriceFeed", "setBaseToken"})

StakingTasks == Sends("StakingPoolFactory", {"setStakingReward", "deployStakingPool"})

ShieldTasks ==
    Sends("Shield", {"shieldApprove", "shieldDepositUSDC", "shieldDeposit", "shieldWithdraw",
                     "setTokenToPool", "unapprove"})

EmergencyPoolTasks ==
    Sends("EmergencyPool", {"depositEmergencyPool", "withdrawEmergencyPool"})

ILMTasks == Sends("ILM", {"approveStablecoin", "emergencyStopILM"})

\* Pause and UnPause take the contract's name, here one that can be paused.
ProxyTasks ==
    Named("upgrade", Send("ProxyAdmin"))
    \cup Sends("PurchaseIncentiveVault", {"Pause", "UnPause"})

\* Every task above, by its name.
TaskOf(net) ==
    NaughtyPriceWiring \cup CoreIncomeWiring \cup AddPriceFeed \cup ArbitraryWiring
    \cup LotteryWiring \cup SetOperator \cup FlightWiring \cup IncomeWiring \cup FarmingTasks
    \cup DoubleRewardTasks \cup TokenRoles \cup MintTasks(net) \cup LotteryRoundTasks
    \cup RequestRandom \cup LotteryTicketTasks \cup PurchaseIncentiveTasks \cup IncomePoolTasks
    \cup UpdateLastRewardBalance \cup ConvertIncome \cup VeDEGTasks \cup VeDEGLockTasks
    \cup FlightOracleTasks \cup SetFrozenTime \cup SignerTasks \cup PolicyFlowTasks
    \cup CoreTasks \cup AddStablecoin \cup NPUserAction(net) \cup PriceFeedTasks \cup SetIDOPrice
    \cup ArbitraryFeedTasks \cup StakingTasks \cup ShieldTasks \cup EmergencyPoolTasks
    \cup ILMTasks \cup ProxyTasks
=============================================================================
