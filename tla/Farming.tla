------------------------------ MODULE Farming ------------------------------
(***************************************************************************)
(* The farming pools: stakers of an LP token share a stream of DEGIS by    *)
(* their stake and a second stream, the bonus, by the square root of their *)
(* stake times their balance of veDEG.                                     *)
(*                                                                         *)
(* The contract sits behind a proxy.  It was deployed as version 1.0       *)
(* (archive/FarmingPoolUpgradeable-1.0.ts) and replaced by the present     *)
(* FarmingPoolUpgradeable.sol, which continues with the same storage.      *)
(* What both versions share is written once; where they differ a           *)
(* definition looks at impl.                                               *)
(*                                                                         *)
(* Every call works on a copy of the contract's storage (a world, as a     *)
(* transaction does) whose field ok says that nothing has reverted.        *)
(***************************************************************************)
EXTENDS Integers, Sequences, FiniteSetsExt

CONSTANTS
    Users,
    Lps,         \* number of LP tokens that may get a pool: pools 1 .. Lps
    SCALE,
    startTimestamp,
    InitialLp,   \* LP tokens of each kind a user owns
    LpAmounts,   \* amounts staked or withdrawn
    Speeds,      \* pairs of basic and bonus reward per second the owner sets
    Pieces,      \* records of thresholds and rewards the owner sets
    MaxTime,     \* bounds: time, calls of the owner and of contracts he has appointed
    MaxSettings

ASSUME FarmingAssumption ==
    /\ IsFiniteSet(Users)
    /\ Lps \in Nat \ {0} /\ SCALE \in Nat \ {0} /\ startTimestamp \in Nat
    /\ InitialLp \in Nat /\ LpAmounts \subseteq Nat \ {0}
    /\ Speeds \subseteq Nat \X Nat
    /\ \A piece \in Pieces :
          /\ piece.threshold \in Seq(Nat) /\ piece.reward \in Seq(Nat)
          /\ Len(piece.threshold) = Len(piece.reward) /\ piece.reward # <<>>
    /\ MaxTime \in Nat \ {0} /\ MaxSettings \in Nat

VARIABLES
    now,
    impl,        \* versions behind the proxies of the farming pool and of veDEG
    poolList,    \* pool id -> PoolInfo, its piecewise speed and its level
    isFarming,
    userInfo,    \* pool id -> user -> UserInfo and extraClaimable
    currentRewardLevel, \* version 1.0 has one level for all pools
    degis,       \* DEGIS in the contract
    veDEG,       \* whether the contract knows veDEG
    veBalance,   \* balances of veDEG, a variable of that contract
    settings,
    stale        \* history: stakes whose owner's veDEG changed while the pool was stopped

farmingState == <<poolList, isFarming, userInfo, currentRewardLevel, degis>>
farmingVars == <<now, impl, farmingState, veDEG, settings, stale>>

PoolIds == 1 .. Lps
NoPool == [basicDegisPerSecond |-> 0, bonusDegisPerSecond |-> 0, lastRewardTimestamp |-> 0,
           accDegisPerShare |-> 0, accDegisPerBonusShare |-> 0, totalBonus |-> 0,
           threshold |-> <<>>, piecewise |-> <<>>, level |-> 0]
NoStake == [rewardDebt |-> 0, stakingBalance |-> 0, bonus |-> 0, extraClaimable |-> 0]

Total(f) == MapThenSumSet(LAMBDA u : f[u], Users)
Least(x, y) == IF x < y THEN x ELSE y
Greatest(S) == CHOOSE x \in S : \A y \in S : y <= x

\* Math.sqrt
Root(n) == CHOOSE r \in 0 .. n : r * r <= n /\ n < (r + 1) * (r + 1)

(***************************************************************************)
(* The storage a transaction works on                                      *)
(***************************************************************************)
World == [pool |-> poolList, user |-> userInfo, level |-> currentRewardLevel,
          degis |-> degis, ok |-> TRUE]

Commit(w) ==
    /\ w.ok
    /\ poolList' = w.pool /\ userInfo' = w.user
    /\ currentRewardLevel' = w.level /\ degis' = w.degis

Require(w, condition) == [w EXCEPT !.ok = @ /\ condition]

\* balanceOf(this) of the pool's LP token: stakes come in and go out in full.
LpSupply(w, p) == Total([u \in Users |-> w.user[p][u].stakingBalance])

\* The value of a stake and of a bonus at the pool's accumulators.
Value(pool, user) ==
    user.stakingBalance * pool.accDegisPerShare + user.bonus * pool.accDegisPerBonusShare

Accrued(w, p, u) == Value(w.pool[p], w.user[p][u])

Pending(w, p, u) ==
    Accrued(w, p, u) \div SCALE + w.user[p][u].extraClaimable - w.user[p][u].rewardDebt

(***************************************************************************)
(* Updating pools                                                          *)
(***************************************************************************)
LevelOf(w, p) == IF impl.farming = 1 THEN w.level ELSE w.pool[p].level

\* The highest threshold that the liquidity reaches gives the speed.
Reached(w, p) == {i \in DOMAIN w.pool[p].threshold : LpSupply(w, p) >= w.pool[p].threshold[i]}

\* Below the first threshold the loop counts an unsigned index below zero.
_updateRewardSpeed(w, p) ==
    IF Reached(w, p) = {} THEN Require(w, FALSE)
    ELSE LET i == Greatest(Reached(w, p))
             sped == [w EXCEPT !.pool[p].basicDegisPerSecond = w.pool[p].piecewise[i]]
         IN  IF impl.farming = 1 THEN [sped EXCEPT !.level = i - 1]
                                 ELSE [sped EXCEPT !.pool[p].level = i - 1]

\* The level counts from zero.  It may lie beyond thresholds that were set later.
LevelLeft(w, p) ==
    LET threshold == w.pool[p].threshold
        level == LevelOf(w, p)
    IN  \/ level < Len(threshold) - 1 /\ LpSupply(w, p) >= threshold[level + 2]
        \/ LpSupply(w, p) < threshold[level + 1]

UpdatedSpeed(w, p) ==
    IF w.pool[p].threshold = <<>> THEN w
    ELSE IF LevelOf(w, p) >= Len(w.pool[p].threshold) THEN Require(w, FALSE)
    ELSE IF LevelLeft(w, p) THEN _updateRewardSpeed(w, p) ELSE w

\* The rewards since the last update, minted to the contract and shared out.
Rewarded(w, p) ==
    LET pool   == w.pool[p]
        passed == now - pool.lastRewardTimestamp
        basic  == passed * pool.basicDegisPerSecond
        bonus  == passed * pool.bonusDegisPerSecond
        shared == [pool EXCEPT
            !.accDegisPerShare = @ + (basic * SCALE) \div LpSupply(w, p),
            !.accDegisPerBonusShare =
                IF pool.totalBonus = 0 THEN 0 ELSE @ + (bonus * SCALE) \div pool.totalBonus,
            !.lastRewardTimestamp = now]
    IN  [w EXCEPT !.degis = @ + basic + bonus, !.pool[p] = shared]

\* updatePool does not ask whether the pool is farming.
Updated(w, p) ==
    IF now <= w.pool[p].lastRewardTimestamp THEN w
    ELSE IF LpSupply(w, p) = 0 THEN [w EXCEPT !.pool[p].lastRewardTimestamp = now]
    ELSE UpdatedSpeed(Rewarded(w, p), p)

\* What a withdrawal, a harvest or a mass update does to a pool that is not
\* farming: the present version moves its timestamp.
Passed(w, p) ==
    IF impl.farming = 1 THEN w ELSE [w EXCEPT !.pool[p].lastRewardTimestamp = now]

Refreshed(w, p) == IF isFarming[p] THEN Updated(w, p) ELSE Passed(w, p)

Exists(p) == poolList[p].lastRewardTimestamp # 0

\* The storage when the loop of massUpdatePools has passed the first pools.
MassUpdated ==
    LET after[p \in 0 .. Lps] ==
            IF p = 0 THEN World
            ELSE IF Exists(p) THEN Refreshed(after[p - 1], p) ELSE after[p - 1]
    IN  after[Lps]

(***************************************************************************)
(* Stakes                                                                  *)
(***************************************************************************)
\* MUTANT: what was recorded as extra is paid on top, though it is part of the rest.
PaidOut_ExtraTwice(w, p, u) ==
    LET reward == Least(Pending(w, p, u), w.degis) + w.user[p][u].extraClaimable
    IN  Require([w EXCEPT !.degis = @ - reward, !.user[p][u].extraClaimable = 0],
                w.degis > 0 /\ Pending(w, p, u) >= 0)

\* _safeDegisTransfer pays what there is and refuses when there is nothing.
\* Whatever was paid, the extra record is cleared.
PaidOut(w, p, u) ==
    LET reward == Least(Pending(w, p, u), w.degis)
    IN  Require([w EXCEPT !.degis = @ - reward, !.user[p][u].extraClaimable = 0],
                w.degis > 0 /\ Pending(w, p, u) >= 0)

\* The debt is set anew after a stake or a bonus has changed.
Settled(w, p, u) == [w EXCEPT !.user[p][u].rewardDebt = Accrued(w, p, u) \div SCALE]

WithBonus(w, p, u, bonus) ==
    [w EXCEPT !.pool[p].totalBonus = @ + bonus - w.user[p][u].bonus,
              !.user[p][u].bonus = bonus]

\* MUTANT: the debt stays that of the old stake.
WithStake_DebtKept(w, p, u, balance) ==
    LET staked == [w EXCEPT !.user[p][u].stakingBalance = balance]
    IN  IF veDEG THEN WithBonus(staked, p, u, Root(balance * veBalance[u])) ELSE staked

\* The stake and, once veDEG is known, the bonus.
WithStake(w, p, u, balance) ==
    LET staked == [w EXCEPT !.user[p][u].stakingBalance = balance]
    IN  Settled(IF veDEG THEN WithBonus(staked, p, u, Root(balance * veBalance[u]))
                         ELSE staked, p, u)

Touch(p, u) == stale' = stale \ {<<p, u>>}

stake(u, p, amount) ==
    LET updated == Updated(World, p)
        balance == userInfo[p][u].stakingBalance
        paid    == IF balance > 0 THEN PaidOut(updated, p, u) ELSE updated
    IN  /\ isFarming[p] /\ Exists(p) /\ balance + amount <= InitialLp
        /\ Commit(WithStake(paid, p, u, balance + amount))
        /\ Touch(p, u)
        /\ UNCHANGED <<now, impl, isFarming, veDEG, veBalance, settings>>

withdraw(u, p, amount) ==
    LET balance == userInfo[p][u].stakingBalance
    IN  /\ balance >= amount
        /\ Commit(WithStake(PaidOut(Refreshed(World, p), p, u), p, u, balance - amount))
        /\ Touch(p, u)
        /\ UNCHANGED <<now, impl, isFarming, veDEG, veBalance, settings>>

harvest(u, p) ==
    LET w == Refreshed(World, p)
    IN  /\ Exists(p) /\ Pending(w, p, u) > 0
        /\ Commit(Settled(PaidOut(w, p, u), p, u))
        /\ UNCHANGED <<now, impl, isFarming, veDEG, veBalance, settings, stale>>

updatePool(p) ==
    /\ Exists(p) /\ Commit(Updated(World, p))
    /\ UNCHANGED <<now, impl, isFarming, veDEG, veBalance, settings, stale>>

massUpdatePools ==
    /\ Commit(MassUpdated)
    /\ UNCHANGED <<now, impl, isFarming, veDEG, veBalance, settings, stale>>

(***************************************************************************)
(* What veDEG calls when a balance has changed                             *)
(***************************************************************************)
\* MUTANT: the debt of the old bonus is kept.
Rebonused_DebtKept(w, p, u, balance) ==
    LET updated == Updated(w, p)
        pending == Accrued(updated, p, u) \div SCALE - updated.user[p][u].rewardDebt
        claimed == [updated EXCEPT !.user[p][u].extraClaimable = @ + pending]
    IN  Require(WithBonus(claimed, p, u, Root(balance * w.user[p][u].stakingBalance)), pending >= 0)

\* One pool in the loop of updateBonus.
Rebonused(w, p, u, balance) ==
    LET updated == Updated(w, p)
        pending == Accrued(updated, p, u) \div SCALE - updated.user[p][u].rewardDebt
        claimed == [updated EXCEPT !.user[p][u].extraClaimable = @ + pending]
        bonus   == Root(balance * w.user[p][u].stakingBalance)
    IN  Require(Settled(WithBonus(claimed, p, u, bonus), p, u), pending >= 0)

Staked(p, u) == userInfo[p][u].stakingBalance > 0

\* MUTANT: pools that pay no bonus at present are skipped, too.
AllRebonused_PaidOnly(u, balance) ==
    LET after[p \in 0 .. Lps] ==
            IF p = 0 THEN World
            ELSE IF isFarming[p] /\ Staked(p, u) /\ poolList[p].bonusDegisPerSecond > 0
                   THEN Rebonused(after[p - 1], p, u, balance)
            ELSE after[p - 1]
    IN  after[Lps]

\* The loop of updateBonus.  Pools that are stopped are skipped, and so are
\* pools without a stake.
AllRebonused(u, balance) ==
    LET after[p \in 0 .. Lps] ==
            IF p = 0 THEN World
            ELSE IF isFarming[p] /\ Staked(p, u)
                   THEN Rebonused(after[p - 1], p, u, balance)
            ELSE after[p - 1]
    IN  after[Lps]

updateBonus(u, balance) ==
    /\ veDEG
    /\ Commit(AllRebonused(u, balance))
    /\ stale' = {x \in stale : x[2] # u}
            \cup {<<p, u>> : p \in {q \in PoolIds : Staked(q, u) /\ ~ isFarming[q]}}

(***************************************************************************)
(* The owner                                                               *)
(***************************************************************************)
Setting == settings < MaxSettings /\ settings' = settings + 1

\* What undoes a setting does not count towards the bound.
SettingUnless(undoes) == IF undoes THEN UNCHANGED settings ELSE Setting
BonusNeedsBasic(speed) == speed[2] > 0 => speed[1] > 0

WithSpeed(w, p, speed) ==
    [w EXCEPT !.pool[p].basicDegisPerSecond = speed[1], !.pool[p].bonusDegisPerSecond = speed[2]]

\* Pools get their ids in order.  They are added without a second reward token.
add(p, speed, withUpdate) ==
    LET w == IF withUpdate THEN MassUpdated ELSE World
    IN  /\ ~ Exists(p) /\ \A q \in 1 .. p - 1 : Exists(q)
        /\ BonusNeedsBasic(speed)
        /\ Commit(WithSpeed([w EXCEPT !.pool[p].lastRewardTimestamp =
                                IF now > startTimestamp THEN now ELSE startTimestamp], p, speed))
        /\ isFarming' = [isFarming EXCEPT ![p] = @ \/ speed[1] > 0]
        /\ UNCHANGED <<now, impl, veDEG, veBalance, settings, stale>>

\* Version 1.0 leaves the speeds of a pool that it stops.
Stopped(w, p) == IF impl.farming = 1 THEN w ELSE WithSpeed(w, p, <<0, 0>>)

setDegisReward(p, speed, withUpdate) ==
    LET w == IF withUpdate THEN MassUpdated ELSE Updated(World, p)
    IN  /\ Exists(p) /\ BonusNeedsBasic(speed) /\ SettingUnless(~ isFarming[p] /\ speed[1] > 0)
        /\ Commit(IF speed[1] = 0 THEN Stopped(w, p) ELSE WithSpeed(w, p, speed))
        /\ isFarming' = [isFarming EXCEPT ![p] = speed[1] > 0]
        /\ UNCHANGED <<now, impl, veDEG, veBalance, stale>>

\* Neither the level nor the speed is set anew, and no pool need exist.
setPiecewise(p, piece) ==
    /\ Setting
    /\ poolList' = [poolList EXCEPT ![p].threshold = piece.threshold,
                                    ![p].piecewise = piece.reward]
    /\ isFarming' = IF impl.farming = 1 THEN isFarming
                    ELSE [isFarming EXCEPT ![p] = piece.reward[1] > 0]
    /\ UNCHANGED <<now, impl, userInfo, currentRewardLevel, degis, veDEG, veBalance, stale>>

setVeDEG ==
    /\ ~ veDEG /\ veDEG' = TRUE
    /\ UNCHANGED <<now, impl, farmingState, veBalance, settings, stale>>

\* The proxy gets the present implementation.
upgradeFarming ==
    /\ impl.farming = 1 /\ impl' = [impl EXCEPT !.farming = 2]
    /\ UNCHANGED <<now, farmingState, veDEG, veBalance, settings, stale>>

Tick ==
    /\ now < MaxTime /\ now' = now + 1
    /\ UNCHANGED <<impl, farmingState, veDEG, veBalance, settings, stale>>

\* Deployed as version 1.0; a deployment of the present code is one upgraded at once.
FarmingInit ==
    /\ now = 1 /\ impl = [farming |-> 1, veDEG |-> 1]
    /\ poolList = [p \in PoolIds |-> NoPool]
    /\ isFarming = [p \in PoolIds |-> FALSE]
    /\ userInfo = [p \in PoolIds |-> [u \in Users |-> NoStake]]
    /\ currentRewardLevel = 0 /\ degis = 0 /\ veDEG = FALSE
    /\ veBalance = [u \in Users |-> 0]
    /\ settings = 0 /\ stale = {}

FarmingNext ==
    \/ \E p \in PoolIds :
          \/ \E u \in Users :
                \/ \E a \in LpAmounts : stake(u, p, a) \/ withdraw(u, p, a)
                \/ harvest(u, p)
          \/ updatePool(p)
          \/ \E speed \in Speeds, all \in BOOLEAN : add(p, speed, all) \/ setDegisReward(p, speed, all)
          \/ \E piece \in Pieces : setPiecewise(p, piece)
    \/ massUpdatePools \/ setVeDEG \/ upgradeFarming

(***************************************************************************)
(* What stakers rely on                                                    *)
(***************************************************************************)
\* TYPE: every balance, accumulator and total is a natural number, and what
\* is staked are LP tokens of the user.
FarmingTypeOK ==
    /\ degis \in Nat /\ currentRewardLevel \in Nat /\ now \in 1 .. MaxTime
    /\ \A p \in PoolIds :
          /\ \A f \in DOMAIN NoPool \ {"threshold", "piecewise"} : poolList[p][f] \in Nat
          /\ \A u \in Users :
                /\ \A f \in DOMAIN NoStake : userInfo[p][u][f] \in Nat
                /\ userInfo[p][u].stakingBalance <= InitialLp

\* The subtraction of the debt never reverts: whatever the order of stakes,
\* updates, stops, bonus changes and upgrades, a staker's accrued value and
\* recorded extra reach the debt.  Otherwise the stake could not be withdrawn.
DebtIsCovered ==
    \A p \in PoolIds, u \in Users :
        Value(poolList[p], userInfo[p][u]) \div SCALE >= userInfo[p][u].rewardDebt

\* Everything that stakers could claim now, in units of 1 / SCALE.
Owed ==
    LET owedTo == [x \in PoolIds \X Users |->
          LET user == userInfo[x[1]][x[2]]
          IN  Value(poolList[x[1]], user) + SCALE * (user.extraClaimable - user.rewardDebt)]
    IN  MapThenSumSet(LAMBDA x : owedTo[x], PoolIds \X Users)
Backing == SCALE * degis - Owed

\* The DEGIS in the contract that nobody is owed.  A call may round in the
\* caller's favour by less than one unit of DEGIS per stake it settles anew and
\* takes nothing more of what the others have accrued.
RewardsStayBacked ==
    [][LET resettled == {x \in PoolIds \X Users : userInfo'[x[1]][x[2]] # userInfo[x[1]][x[2]]}
       IN  Backing' >= Backing - (SCALE - 1) * Cardinality(resettled)]_farmingState

\* The bonus of a stake is that of its owner's present veDEG balance, whatever
\* changed it and in which pool; excepted are stakes whose pool was stopped when
\* the balance changed, until the owner stakes, withdraws or gets veDEG again.
BonusFollowsVeDEG ==
    \A p \in PoolIds, u \in Users :
        \/ <<p, u>> \in stale
        \/ userInfo[p][u].bonus = Root(userInfo[p][u].stakingBalance * veBalance[u])

\* FarmingPoolUpgradeable.sol:53 gives two ways to start a pool, "set the basic
\* reward to >0" being the first, and line 54 two ways to stop it.  However a
\* pool of the present version was stopped and started, it can be updated
\* while it is farming: otherwise its stakers can neither harvest nor withdraw.
StartedPoolsUpdate ==
    impl.farming = 2 =>
        \A p \in PoolIds : Exists(p) /\ isFarming[p] => Updated(World, p).ok
=============================================================================
