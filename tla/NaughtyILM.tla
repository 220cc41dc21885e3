----------------------------- MODULE NaughtyILM -----------------------------
(***************************************************************************)
(* Initial liquidity matching (NaughtyPriceILM.sol).  Before a policy has  *)
(* a pool, users put coins on the side of the policy tokens (A) or of the  *)
(* coins (B).  When the round is over anyone finishes it: the contract     *)
(* deploys the pool, has PolicyCore issue policy tokens for side A and     *)
(* provides all as the first liquidity.  Holders of the round's own token  *)
(* claim their part of the liquidity, and a quota for side A.  An entrance *)
(* fee in DEGIS goes to those who came before.                             *)
(*                                                                         *)
(* One round, for the policy Traded of module NaughtyMarket.  DEGIS is     *)
(* counted in such units that FeePerCoin is whole.                         *)
(***************************************************************************)
EXTENDS NaughtyMarket

CONSTANTS
    ILM,                \* address of this contract
    Owner,              \* its owner
    EmergencyPool,
    InitialDegis,       \* DEGIS of each user
    FeePerCoin,         \* 10**decimalDiff / FEE_DENOMINATOR
    SCALE,              \* of accDegisPerShare
    MINIMUM_AMOUNT,
    RoundDeadlines,     \* deadlines that the owner may give the round
    MatchAmounts,       \* amounts put on a side or withdrawn from it
    ClaimAmounts,       \* amounts of the round's token claimed or passed on
    DrainAmounts,       \* amounts of emergency withdrawals
    MaxMatchSteps       \* bound on calls of users, stops and restarts

ASSUME ILMAssumption ==
    /\ {ILM, Owner, EmergencyPool} \subseteq OtherContracts
    /\ ILM \notin {Pair, Factory, IncomeMaker, Owner, EmergencyPool}
    /\ InitialDegis \in Nat /\ FeePerCoin \in Nat \ {0} /\ SCALE \in Nat \ {0}
    /\ MINIMUM_AMOUNT \in Nat \ {0} /\ MaxMatchSteps \in Nat
    /\ RoundDeadlines \subseteq Nat /\ MatchAmounts \subseteq Nat
    /\ ClaimAmounts \subseteq Nat /\ DrainAmounts \subseteq Nat

VARIABLES
    round,      \* pairs[Traded]
    users,      \* users[user][Traded]
    lptoken,    \* balanceOf of the round's token
    degis,      \* DegisToken.balanceOf
    approved,   \* approveStablecoin has been called
    drained,    \* history: emergencyWithdraw took something
    reopened,   \* history: a finished round was restarted
    matchSteps

matchVars == <<round, users, lptoken, degis, approved, drained, reopened,
               matchSteps>>
ilmVars   == <<marketVars, matchVars>>

Statuses == {"BeforeStart", "Active", "Finished", "Stopped"}

\* started: lptoken has been deployed; paired: naughtyPairAddress is set.
NoRound == [status |-> "BeforeStart", started |-> FALSE, ILMDeadline |-> 0,
            amountA |-> 0, amountB |-> 0, paired |-> FALSE,
            degisAmount |-> 0, accDegisPerShare |-> 0]

NoDeposit == [amountA |-> 0, amountB |-> 0, degisDebt |-> 0]

Deposited(x) == x.amountA + x.amountB

RoundSupply == Total(lptoken, Users)

activePair == round.status = "Active"

MatchStep ==
    /\ matchSteps < MaxMatchSteps
    /\ matchSteps' = matchSteps + 1

-----------------------------------------------------------------------------
(* The entrance fee *)

\* _safeTokenTransfer: what can be paid out of a balance.
Affordable(ledger, amount) == Lesser(ledger[ILM], amount)

Accrued(amount, perShare) == (amount * perShare) \div SCALE

Pending(user, perShare) ==
    Accrued(Deposited(users[user]), perShare) - users[user].degisDebt

\* The first deposit of a round is its own reference.  Later ones are shared
\* by the coins already there, of which there must be some.
FeePerShare(fee) ==
    IF round.degisAmount = 0 THEN SCALE * FeePerCoin
    ELSE round.accDegisPerShare + (fee * SCALE) \div Deposited(round)

FeeReward(user, fee) ==
    IF round.degisAmount = 0 \/ Deposited(users[user]) = 0 THEN 0
    ELSE Pending(user, FeePerShare(fee))

DebtAfterDeposit_OldShares(user, amount, fee) ==
    IF round.degisAmount = 0 THEN users[user].degisDebt
    ELSE Accrued(Deposited(users[user]), FeePerShare(fee))

DebtAfterDeposit(user, amount, fee) ==
    IF round.degisAmount = 0 THEN users[user].degisDebt
    ELSE Accrued(Deposited(users[user]) + amount, FeePerShare(fee))

-----------------------------------------------------------------------------
(* Functions for users *)

depositILM(user, a, b) ==
    LET amount == a + b
        fee    == amount * FeePerCoin
        reward == Affordable(degis, FeeReward(user, fee))
        paid   == Move(degis, ILM, user, reward)
    IN  /\ MatchStep
        /\ activePair /\ round.started
        /\ amount >= MINIMUM_AMOUNT
        /\ round.degisAmount > 0 => Deposited(round) > 0
        /\ FeeReward(user, fee) >= 0
        /\ paid[user] >= fee /\ stable[USDC][user] >= amount
        /\ degis' = Move(paid, user, ILM, fee)
        /\ stable' = [stable EXCEPT ![USDC] = Move(@, user, ILM, amount)]
        /\ round' = [round EXCEPT
               !.amountA = @ + a, !.amountB = @ + b, !.degisAmount = @ + fee,
               !.accDegisPerShare = FeePerShare(fee)]
        /\ users' = [users EXCEPT ![user] =
               [amountA |-> @.amountA + a, amountB |-> @.amountB + b,
                degisDebt |-> DebtAfterDeposit(user, amount, fee)]]
        /\ lptoken' = [lptoken EXCEPT ![user] = @ + amount]
        /\ UNCHANGED <<now, tokens, setupVars, listVars, quotaVars, settleResult,
                       incomeVars, pairVars, buyerTokens, marketSteps, approved,
                       drained, reopened>>

\* The accrued fee of one who leaves goes to the emergency pool.
withdrawILM(user, a, b) ==
    LET accrued == Pending(user, round.accDegisPerShare)
        left    == [users[user] EXCEPT !.amountA = @ - a, !.amountB = @ - b]
    IN  /\ MatchStep
        /\ activePair
        /\ Deposited(users[user]) > 0
        /\ a <= users[user].amountA /\ b <= users[user].amountB
        /\ accrued >= 0
        /\ lptoken[user] >= a + b
        /\ degis' = Move(degis, ILM, EmergencyPool, Affordable(degis, accrued))
        /\ stable' = [stable EXCEPT ![USDC] =
                         Move(@, ILM, user, Affordable(@, a + b))]
        /\ round' = [round EXCEPT !.amountA = @ - a, !.amountB = @ - b]
        /\ users' = [users EXCEPT ![user] = [left EXCEPT !.degisDebt =
                         Accrued(Deposited(left), round.accDegisPerShare)]]
        /\ lptoken' = [lptoken EXCEPT ![user] = @ - (a + b)]
        /\ UNCHANGED <<now, tokens, setupVars, listVars, quotaVars, settleResult,
                       incomeVars, pairVars, buyerTokens, marketSteps, approved,
                       drained, reopened>>

\* The pool is deployed with the policy's deadline, and all is provided as
\* liquidity through the router, which has the policy tokens issued.
finishILM ==
    LET offer == [token |-> round.amountA, coin |-> round.amountB]
    IN  /\ activePair
        /\ now > round.ILMDeadline
        /\ Deposited(round) > 0
        /\ {"ILM", "router"} \subseteq wired /\ approved
        /\ USDC \in supportedStablecoin /\ Traded \in deployed
        /\ policyTokenInfo[Traded].deadline > now
        /\ ~PairDeployed
        /\ offer.token > 0
        /\ stable[USDC][ILM] >= Deposited(round)
        /\ Len(Enlist(Traded, ILM)) <= MaxDepositors
        /\ pools' = pools \cup {<<Traded, USDC>>}
        /\ whichStablecoin' = [whichStablecoin EXCEPT ![Traded] = USDC]
        /\ RecordDeposit(Traded, offer.token, ILM)
        /\ PayIn(ILM, offer, [tokens[Traded] EXCEPT ![ILM] = @ + offer.token],
                 Move(stable[USDC], ILM, Core, offer.token))
        /\ mint(Plus(Balances, offer), ILM)
        /\ round' = [round EXCEPT !.status = "Finished", !.paired = TRUE]
        /\ UNCHANGED <<now, setupVars, deployed, policyTokenInfo, settleResult,
                       incomeVars, incomeMakerSet, incomeMakerProportion,
                       buyerTokens, marketSteps, users, lptoken, degis, approved,
                       drained, reopened, matchSteps>>

\* The quota that comes with the liquidity.
ClaimedQuota_Whole(amount) == amount

ClaimedQuota(amount) == (round.amountA * amount) \div Deposited(round)

\* The status is not looked at; the round's tokens may have been bought.
claimILM(user, amount) ==
    LET liquidity == (amount * lp[ILM]) \div RoundSupply
        out       == Burned(Balances, liquidity)
        reward    == Pending(user, round.accDegisPerShare)
    IN  /\ MatchStep
        /\ round.paired
        /\ amount > 0 /\ lptoken[user] >= amount /\ Deposited(round) > 0
        /\ reward >= 0
        /\ CanBurn(Balances, liquidity)
        /\ degis' = Move(degis, ILM, user, Affordable(degis, reward))
        /\ users' = [users EXCEPT ![user].degisDebt = @ + reward]
        /\ Trade(user, NoReserve, out, user)
        /\ lp' = LpBurned(ILM, liquidity)
        /\ _update(Less(Balances, out))
        /\ RecordK(Less(Balances, out))
        /\ updateUserQuota(Traded, user, ClaimedQuota(amount))
        /\ lptoken' = [lptoken EXCEPT ![user] = @ - amount]
        /\ UNCHANGED <<now, setupVars, listVars, allDepositors, settleResult,
                       incomeVars, incomeMakerSet, incomeMakerProportion,
                       buyerTokens, marketSteps, round, approved, drained,
                       reopened>>

\* The round's token is an ERC20.
transferILMToken(from, to, amount) ==
    /\ MatchStep
    /\ lptoken[from] >= amount
    /\ lptoken' = Move(lptoken, from, to, amount)
    /\ UNCHANGED <<marketVars, round, users, degis, approved, drained, reopened>>

approveStablecoin ==
    /\ approved' = TRUE
    /\ UNCHANGED <<marketVars, round, users, lptoken, degis, drained, reopened,
                   matchSteps>>

-----------------------------------------------------------------------------
(* Functions for the owner; emergencyWithdraw is for anyone, but pays him *)

startILM(ILMDeadline) ==
    /\ Traded \in deployed /\ USDC \in supportedStablecoin
    /\ ILMDeadline < policyTokenInfo[Traded].deadline
    /\ ~round.started
    /\ round' = [round EXCEPT !.status = "Active", !.started = TRUE,
                              !.ILMDeadline = ILMDeadline]
    /\ UNCHANGED <<marketVars, users, lptoken, degis, approved, drained,
                   reopened, matchSteps>>

emergencyStop ==
    /\ MatchStep
    /\ round' = [round EXCEPT !.status = "Stopped"]
    /\ UNCHANGED <<marketVars, users, lptoken, degis, approved, drained, reopened>>

\* A finished round becomes active again, too.
emergencyRestart ==
    /\ MatchStep
    /\ round' = [round EXCEPT !.status = "Active"]
    /\ reopened' = (reopened \/ round.paired)
    /\ UNCHANGED <<marketVars, users, lptoken, degis, approved, drained>>

emergencyWithdraw(amount) ==
    /\ MatchStep
    /\ drained' = TRUE
    /\ \/ /\ stable[USDC][ILM] >= amount
          /\ stable' = [stable EXCEPT ![USDC] = Move(@, ILM, Owner, amount)]
          /\ UNCHANGED <<degis, lp>>
       \/ /\ degis[ILM] >= amount
          /\ degis' = Move(degis, ILM, Owner, amount)
          /\ UNCHANGED <<stable, lp>>
       \/ /\ lp[ILM] >= amount
          /\ lp' = Move(lp, ILM, Owner, amount)
          /\ UNCHANGED <<stable, degis>>
    /\ UNCHANGED <<now, tokens, setupVars, listVars, quotaVars, settleResult,
                   incomeVars, reserve, kLast, incomeMakerSet,
                   incomeMakerProportion, buyerTokens, marketSteps, round, users,
                   lptoken, approved, reopened>>

-----------------------------------------------------------------------------
(* Specification *)

ILMInit ==
    /\ MarketInit
    /\ round = NoRound
    /\ users = [u \in Users |-> NoDeposit]
    /\ lptoken = [u \in Users |-> 0]
    /\ degis = [a \in Users \cup {ILM, Owner, EmergencyPool} |->
                   IF a \in Users THEN InitialDegis ELSE 0]
    /\ approved = FALSE /\ drained = FALSE /\ reopened = FALSE
    /\ matchSteps = 0

ILMUser ==
    \E u \in Users :
        \/ \E a, b \in MatchAmounts \cup {0} :
               depositILM(u, a, b) \/ withdrawILM(u, a, b)
        \/ \E amount \in ClaimAmounts \cup {lptoken[u]} : claimILM(u, amount)
        \/ \E v \in Users \ {u}, amount \in ClaimAmounts :
               transferILMToken(u, v, amount)

ILMOwner ==
    \/ \E t \in RoundDeadlines : startILM(t)
    \/ emergencyStop
    \/ emergencyRestart
    \/ \E amount \in DrainAmounts : emergencyWithdraw(amount)

ILMNext ==
    \/ MarketNext /\ UNCHANGED matchVars
    \/ ILMUser
    \/ ILMOwner
    \/ finishILM
    \/ approveStablecoin

ILMSpec == ILMInit /\ [][ILMNext]_ilmVars

-----------------------------------------------------------------------------
(* Properties *)

\* Books of the round: what was put on its sides is what users put there, and
\* one token of the round exists for each coin.
BooksAgree ==
    /\ round.amountA = MapThenSumSet(LAMBDA u : users[u].amountA, Users)
    /\ round.amountB = MapThenSumSet(LAMBDA u : users[u].amountB, Users)
    /\ RoundSupply = Deposited(round)

\* Nobody's debt exceeds what has accrued to him, which would bar him from
\* withdrawing and claiming, and the fees held cover what has accrued to all,
\* up to a unit per call, which the divisions may lose.
FeesCovered ==
    /\ \A u \in Users : Pending(u, round.accDegisPerShare) >= 0
    /\ MapThenSumSet(LAMBDA u : Pending(u, round.accDegisPerShare), Users)
           <= degis[ILM] + matchSteps

\* Until a round is finished everyone can leave it: its coins are all there
\* (withdraw).  The fees cover what has accrued, also after claims.  Only
\* emergencyWithdraw takes either away.
RoundBacked ==
    ~drained =>
        /\ ~round.paired => BooksAgree /\ stable[USDC][ILM] >= Deposited(round)
        /\ FeesCovered

\* Quotas of all but the matching contract, and those that will come with the
\* liquidity not yet claimed.
QuotaOfUsers ==
    TotalQuota(Traded) - userQuota[Traded][ILM]
        + (IF round.paired THEN ClaimedQuota(RoundSupply) ELSE 0)

\* updateUserQuota hands the quota of the matching contract on without taking
\* it from there.  The pot covers every user's quota all the same, whether
\* liquidity is claimed before or after the settlement, as long as no finished
\* round is reopened and the owner's distribution (settleAllPolicyTokens) has
\* not paid the matching contract as well.
UsersQuotaCovered ==
    /\ ~reopened
    /\ round.paired => userQuota[Traded][ILM] > 0
    /\ ~(GotResult(Traded) /\ settleResult[Traded].isHappened)
    => QuotaOfUsers + PendingIncome(USDC) <= stable[USDC][Core]
=============================================================================
