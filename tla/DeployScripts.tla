--------------------------- MODULE DeployScripts ---------------------------
(***************************************************************************)
(* The hardhat-deploy scripts of deploy/, each as the sequence of the      *)
(* steps it awaits.  A script reads the address book (info/address.json),  *)
(* looks up earlier deployments, deploys, writes the addresses into its    *)
(* copy of the book and stores the whole copy back.  Some then run tasks   *)
(* of tasks/, whose steps follow in place.                                 *)
(*                                                                         *)
(* Contracts are named by their deployment name, entries by their key in   *)
(* the address book.  Operations gives the steps their meaning.            *)
(***************************************************************************)
EXTENDS Sequences, TLC

(***************************************************************************)
(* The steps.  Read and Store move one whole JSON file.  Need looks up     *)
(* saved deployments and fails on a missing one.  Deploy deploys or reuses *)
(* a contract and puts its address under an entry of the copies named by   *)
(* into.  Set sends a setter whose argument is the address under an entry, *)
(* Call a transaction whose arguments the operator typed.                  *)
(***************************************************************************)
Read(file)  == [op |-> "read", file |-> file]
Store(file) == [op |-> "store", file |-> file]
Need(names) == [op |-> "need", names |-> names]

Book(entry) == [from |-> "book", key |-> entry]
Got(name)   == [from |-> "got", key |-> name]

\* proxy: "none", "init" (its initializer runs once) or "execute" (the
\* initializer also runs on an upgrade).
DeployTo(files, name, entry, proxy, args) ==
    [op |-> "deploy", into |-> files, name |-> name, entry |-> entry,
     proxy |-> proxy, args |-> args]

NoArgs == <<>>
Plain(name, args)        == DeployTo({"address"}, name, name, "none", args)
Proxied(name, args)      == DeployTo({"address"}, name, name, "init", args)
ProxiedAs(name, e, args) == DeployTo({"address"}, name, e, "init", args)
Save(name) == [op |-> "save", name |-> name, entry |-> name]

Set(target, field, entry) ==
    [op |-> "set", target |-> target, field |-> field, entry |-> entry]
Call(target) == [op |-> "call", target |-> target]
\* A contract object made for an address that is only read from.
Attach(target) == [op |-> "attach", target |-> target]

Script(names, deploys) ==
    <<Read("address")>>
        \o (IF names = {} THEN <<>> ELSE <<Need(names)>>)
        \o deploys \o <<Store("address")>>

\* Programs by the name an operator calls them: sets of named programs.
Named(name, steps) == {[name |-> name, steps |-> steps]}

\* The networks on which the Avalanche mainnet addresses are used.
Avalanche == {"avax", "avaxTest"}

(***************************************************************************)
(* Tasks the scripts run                                                   *)
(***************************************************************************)
\* addMinterBurner looks up the token and the new member by name, asks the
\* token whether it already has the role and only then grants it.
AddMinterBurner(role, token, entry) ==
    <<Read("address"),
      [op |-> "checkRole", role |-> role, token |-> token, entry |-> entry],
      [op |-> "grantRole", role |-> role, token |-> token, entry |-> entry]>>

SetVRFMock  == <<Read("address"), Set("VRFMock", "DegisLottery", "DegisLotteryV2")>>
SetTreasury == <<Read("address"), Call("DegisLotteryV2")>>
SetVRF ==
    <<Read("address"), Set("RandomNumberGeneratorV2", "DegisLottery", "DegisLotteryV2")>>

SetFDPolicyFlow    == <<Read("address"), Set("PolicyFlow", "flightOracle", "FlightOracle")>>
SetFDPolicyToken   == <<Read("address"), Set("FDPolicyToken", "policyFlow", "PolicyFlow")>>
SetFDOracle        == <<Read("address"), Set("FlightOracle", "policyFlow", "PolicyFlow")>>
SetFDInsurancePool == <<Read("address"), Set("InsurancePool", "policyFlow", "PolicyFlow")>>

SetIncomeMakerInFactory ==
    <<Read("address"), Set("NaughtyFactoryUpgradeable", "incomeMaker", "IncomeMaker")>>

(***************************************************************************)
(* The scripts, in file order                                              *)
(***************************************************************************)
Deploy00ProxyAdmin ==
    <<Read("address"), Read("proxyAdmin"),
      DeployTo({"address", "proxyAdmin"}, "ProxyAdmin", "ProxyAdmin", "none", NoArgs),
      Store("address"), Store("proxyAdmin")>>

Deploy01Tokens(net) ==
    Script({}, <<Plain("DegisToken", NoArgs), Plain("BuyerToken", NoArgs),
                 IF net \in Avalanche THEN Save("USDCe") ELSE Plain("MockUSD", NoArgs)>>)

\* MUTANT: the address is not put into the book.
Deploy02EmergencyPool_NoEntry ==
    Script({}, <<DeployTo({}, "EmergencyPool", "EmergencyPool", "none", NoArgs)>>)

Deploy02EmergencyPool == Script({}, <<Plain("EmergencyPool", NoArgs)>>)

Deploy03Farming ==
    Script({}, <<Proxied("FarmingPoolUpgradeable", [degis |-> Book("DegisToken")])>>)

Deploy04PurchaseIncentive(net) ==
    Script({"DegisToken", "BuyerToken"},
           <<Proxied("PurchaseIncentiveVault",
                     [buyerToken |-> Got("BuyerToken"), degis |-> Got("DegisToken")])>>)
        \o IF net # "avax"
             THEN AddMinterBurner("minter", "DegisToken", "PurchaseIncentiveVault")
             ELSE <<>>

Deploy05LuckyBox(net) ==
    LET rand == IF net \in Avalanche \cup {"fuji"}
                  THEN "RandomNumberGeneratorV2" ELSE "VRFMock"
    IN  Script({"DegisToken"},
               <<Plain(rand, NoArgs),
                 Proxied("DegisLotteryV2",
                         [degis |-> Got("DegisToken"), randomGenerator |-> Book(rand)])>>)
          \o (IF rand = "VRFMock" THEN SetVRFMock ELSE <<>>)
          \o SetTreasury \o SetVRF

Deploy06FlightDelay ==
    Script({"MockUSD", "DegisLottery", "EmergencyPool"},
           <<Plain("FDPolicyToken", NoArgs), Plain("SigManager", NoArgs),
             Plain("InsurancePool", [emergencyPool |-> Got("EmergencyPool"),
                                     lottery |-> Got("DegisLottery"),
                                     usd |-> Got("MockUSD")])>>)

Deploy07PolicyFlow ==
    Script({}, <<DeployTo({"address"}, "PolicyFlow", "PolicyFlow", "execute",
                          [insurancePool |-> Book("InsurancePool"),
                           policyToken |-> Book("FDPolicyToken"),
                           sigManager |-> Book("SigManager"),
                           buyerToken |-> Book("BuyerToken")])>>)

\* MUTANT: the policy token and the reserve are not told of a new policy flow.
Deploy08FDOracle_TwoPointers ==
    Script({}, <<Plain("FlightOracle", [policyFlow |-> Book("PolicyFlow")])>>)
        \o SetFDPolicyFlow \o SetFDOracle

Deploy08FDOracle ==
    Script({}, <<Plain("FlightOracle", [policyFlow |-> Book("PolicyFlow")])>>)
        \o SetFDPolicyFlow \o SetFDPolicyToken \o SetFDOracle \o SetFDInsurancePool

Deploy09PriceGetter == Script({}, <<Plain("PriceGetter", NoArgs)>>)

\* Only the core: the factory and the router are commented out of the script
\* and their addresses come from the book.
Deploy10NaughtyPrice(net) ==
    Script({"BuyerToken", "PriceGetter"} \cup IF net \in Avalanche THEN {} ELSE {"MockUSD"},
           <<Proxied("PolicyCoreUpgradeable",
                     [factory |-> Book("NaughtyFactoryUpgradeable"),
                      priceGetter |-> Book("PriceGetter")])>>)

Deploy11Staking ==
    Script({}, <<Plain("StakingPoolFactory", [degis |-> Book("DegisToken")])>>)

Deploy12VeDEG ==
    Script({}, <<ProxiedAs("VeDEG", "VoteEscrowedDegis",
                           [degis |-> Book("DegisToken"),
                            farmingPool |-> Book("FarmingPoolUpgradeable")])>>)

Deploy13IncomeSharingVault ==
    Script({"VeDEG"}, <<Proxied("IncomeSharingVault", [veDEG |-> Got("VeDEG")])>>)

Deploy14IncomeMaker ==
    Script({"NaughtyRouterUpgradeable", "NaughtyFactoryUpgradeable", "IncomeSharingVault"},
           <<Proxied("IncomeMaker", [router |-> Got("NaughtyRouterUpgradeable"),
                                     factory |-> Got("NaughtyFactoryUpgradeable"),
                                     vault |-> Got("IncomeSharingVault")])>>)
        \o SetIncomeMakerInFactory

Deploy15ILM ==
    Script({"DegisToken", "PolicyCoreUpgradeable", "NaughtyRouterUpgradeable", "EmergencyPool"},
           <<Proxied("ILM", [degis |-> Got("DegisToken"),
                             policyCore |-> Got("PolicyCoreUpgradeable"),
                             router |-> Got("NaughtyRouterUpgradeable"),
                             emergencyPool |-> Got("EmergencyPool")])>>)

Deploy16IDOPriceGetter ==
    Script({"PriceGetter", "PolicyCoreUpgradeable"},
           <<Proxied("IDOPriceGetter", [priceGetter |-> Got("PriceGetter"),
                                        policyCore |-> Got("PolicyCoreUpgradeable")])>>)

Deploy17DoubleRewarder ==
    Script({"FarmingPoolUpgradeable"},
           <<Proxied("DoubleRewarder", [farmingPool |-> Got("FarmingPoolUpgradeable")])>>)

\* storeAddressList forgotten.
Deploy18MockERC20_NotStored == <<Read("address"), Plain("MockERC20", NoArgs)>>
Deploy18MockERC20 == Script({}, <<Plain("MockERC20", NoArgs)>>)
Deploy19Shield    == Script({}, <<Proxied("Shield", NoArgs)>>)
Deploy20IncomeSharingCompensate == Script({}, <<Plain("IncomeCompensate", NoArgs)>>)

Deploy21ArbitraryPriceGetter ==
    Script({"PolicyCoreUpgradeable"},
           <<Proxied("ArbitraryPriceGetter", [policyCore |-> Got("PolicyCoreUpgradeable")])>>)

\* The scripts hardhat-deploy runs on a network, by their file number.
ScriptOf(net) ==
    Named("00", Deploy00ProxyAdmin) \cup Named("01", Deploy01Tokens(net))
    \cup Named("02", Deploy02EmergencyPool) \cup Named("03", Deploy03Farming)
    \cup Named("04", Deploy04PurchaseIncentive(net)) \cup Named("05", Deploy05LuckyBox(net))
    \cup Named("06", Deploy06FlightDelay) \cup Named("07", Deploy07PolicyFlow)
    \cup Named("08", Deploy08FDOracle) \cup Named("09", Deploy09PriceGetter)
    \cup Named("10", Deploy10NaughtyPrice(net)) \cup Named("11", Deploy11Staking)
    \cup Named("12", Deploy12VeDEG) \cup Named("13", Deploy13IncomeSharingVault)
    \cup Named("14", Deploy14IncomeMaker) \cup Named("15", Deploy15ILM)
    \cup Named("16", Deploy16IDOPriceGetter) \cup Named("17", Deploy17DoubleRewarder)
    \cup Named("18", Deploy18MockERC20) \cup Named("19", Deploy19Shield)
    \cup Named("20", Deploy20IncomeSharingCompensate) \cup Named("21", Deploy21ArbitraryPriceGetter)
=============================================================================
