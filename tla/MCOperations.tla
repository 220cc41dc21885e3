---------------------------- MODULE MCOperations ----------------------------
(***************************************************************************)
(* Two networks as their deployments were left: fuji, where the naughty    *)
(* price contracts run, and localhost, where flight delay runs without its *)
(* oracle.                                                                 *)
(***************************************************************************)
EXTENDS Operations

CONSTANTS s1, s2

SavedAs(names) ==
    [x \in names |-> [at |-> Address(x, 1), code |-> 0, args |-> Empty]]

MCInitSaved ==
    "fuji" :> SavedAs({"ProxyAdmin", "DegisToken", "BuyerToken", "MockUSD", "EmergencyPool",
                       "FarmingPoolUpgradeable", "PurchaseIncentiveVault", "PriceGetter",
                       "NaughtyFactoryUpgradeable", "PolicyCoreUpgradeable",
                       "NaughtyRouterUpgradeable", "VeDEG", "IncomeSharingVault", "IncomeMaker",
                       "ILM", "DegisLotteryV2", "RandomNumberGeneratorV2", "IDOPriceGetter"})
    @@ "localhost" :>
        ("InsurancePool" :>
            [at |-> Address("InsurancePool", 1), code |-> 0,
             args |-> [emergencyPool |-> Address("EmergencyPool", 1),
                       lottery |-> Address("DegisLottery", 1), usd |-> Address("MockUSD", 1)]]
         @@ SavedAs({"ProxyAdmin", "DegisToken", "BuyerToken", "MockUSD", "EmergencyPool",
                     "DegisLottery", "FDPolicyToken", "SigManager", "PolicyFlow"}))

\* On fuji a policy token has been created and its ILM has started.
MCInitMade ==
    [n \in {"fuji", "localhost"} |-> [k \in Kinds |->
        IF n = "fuji" /\ k \in {"token", "ilm"} THEN "AVAX" :> "new" ELSE Empty]]

\* Every task; clearRecord is left to operators who mean it.
MCTasks == {x.name : x \in AllTasks("fuji")} \ {"NaughtyPool"}
MCScripts == {x.name : x \in ScriptOf("fuji")}

SessionSymmetry == Permutations(Sessions)
=============================================================================
