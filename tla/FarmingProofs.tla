--------------------------- MODULE FarmingProofs ---------------------------
(***************************************************************************)
(* For all values of the constants: however stakes, settings, balances of  *)
(* veDEG and the versions of the contracts change, a stake's value covers  *)
(* its debt, bonuses follow balances, and a call takes no more from what   *)
(* the others have accrued than it rounds.                                 *)
(*                                                                         *)
(* A call is followed through the worlds it works on.  What updates a pool *)
(* leaves a better world; what settles a stake leaves one that is worse by *)
(* less than a unit; loops over pools are sequences of such worlds.        *)
(***************************************************************************)
EXTENDS VeDEGProofs, SumTheorems

(***************************************************************************)
(* Numbers                                                                 *)
(***************************************************************************)
\* Every number has an integer square root, and that of zero is zero.
LEMMA RootNat == ASSUME NEW n \in Nat PROVE Root(n) \in Nat
<1> DEFINE G == {k \in Nat : \E r \in 0 .. k : r * r <= k /\ k < (r + 1) * (r + 1)}
<1>1. 0 \in G
  <2>1. 0 \in 0 .. 0 /\ 0 * 0 <= 0 /\ 0 < (0 + 1) * (0 + 1)  OBVIOUS
  <2> QED  BY <2>1
<1>2. ASSUME NEW k \in Nat, k \in G PROVE k + 1 \in G
  <2>1. PICK r \in 0 .. k : r * r <= k /\ k < (r + 1) * (r + 1)  BY <1>2
  <2> DEFINE s == r + 1
  <2>2. r \in Nat /\ s \in Nat /\ r \in 0 .. k + 1 /\ s \in 0 .. k + 1  BY <2>1
  <2>3. CASE k + 1 < s * s
    <3>1. r * r <= k + 1  BY <2>1, <2>2
    <3> QED  BY <2>2, <2>3, <3>1
  <2>4. CASE s * s <= k + 1
    <3> HIDE DEF s
    <3>1. (s + 1) * (s + 1) = s * s + s + s + 1  BY <2>2
    <3>2. k < s * s  BY <2>1 DEF s
    <3>3. s * s \in Nat  BY <2>2, ProductNat
    <3>4. k + 1 < (s + 1) * (s + 1)  BY <2>2, <3>1, <3>2, <3>3
    <3> QED  BY <2>2, <2>4, <3>4
  <2>5. s * s \in Nat  BY <2>2, ProductNat
  <2> QED  BY <2>3, <2>4, <2>5
<1>3. n \in G
  <2> HIDE DEF G
  <2> QED  BY <1>1, <1>2, NumberInduction
<1>4. \E r \in 0 .. n : r * r <= n /\ n < (r + 1) * (r + 1)  BY <1>3
<1>5. Root(n) \in 0 .. n  BY <1>4 DEF Root
<1> QED  BY <1>5

LEMMA RootOfZero == Root(0) = 0
<1>1. 0 \in 0 .. 0 /\ 0 * 0 <= 0 /\ 0 < (0 + 1) * (0 + 1)  OBVIOUS
<1>2. Root(0) \in 0 .. 0  BY <1>1 DEF Root
<1> QED  BY <1>2

\* What a whole number of units leaves of a value.
LEMMA QuotientRest ==
  ASSUME NEW x \in Nat
  PROVE  /\ x \div SCALE \in Nat
         /\ SCALE * (x \div SCALE) \in Nat
         /\ SCALE * (x \div SCALE) <= x
         /\ x - SCALE * (x \div SCALE) <= SCALE - 1
<1> DEFINE q == x \div SCALE
<1>1. SCALE \in Nat \ {0}  BY FarmingAssumption
<1>2. q \in Nat /\ q * SCALE <= x /\ x < q * SCALE + SCALE
  BY <1>1, QuotientBounds
<1> HIDE DEF q
<1>3. SCALE * q = q * SCALE /\ q * SCALE \in Nat  BY <1>1, <1>2, ProductNat
<1>4. x - SCALE * q <= SCALE - 1  BY <1>1, <1>2, <1>3
<1> QED  BY <1>1, <1>2, <1>3, <1>4 DEF q

(***************************************************************************)
(* Worlds                                                                  *)
(***************************************************************************)
PoolType == [basicDegisPerSecond : Nat, bonusDegisPerSecond : Nat, lastRewardTimestamp : Nat,
             accDegisPerShare : Nat, accDegisPerBonusShare : Nat, totalBonus : Nat,
             threshold : Seq(Nat), piecewise : Seq(Nat), level : Nat]
StakeType == [rewardDebt : Nat, stakingBalance : Nat, bonus : Nat, extraClaimable : Nat]
WorldType == [pool : [PoolIds -> PoolType], user : [PoolIds -> [Users -> StakeType]],
              level : Nat, degis : Nat, ok : BOOLEAN]

Bonuses(w, p) == [u \in Users |-> w.user[p][u].bonus]
Stakes(w, p) == [u \in Users |-> w.user[p][u].stakingBalance]

\* The bonuses add up to the total they are paid by, and every threshold has
\* its speed.
Booked(w, p) ==
    /\ w.pool[p].totalBonus = SumOver(Bonuses(w, p), Users)
    /\ Len(w.pool[p].threshold) = Len(w.pool[p].piecewise)

Sound(w) == w \in WorldType /\ \A p \in PoolIds : Booked(w, p)

CoveredAt(w, p, u) == w.user[p][u].rewardDebt <= Accrued(w, p, u) \div SCALE
Covered(w) == \A p \in PoolIds, u \in Users : CoveredAt(w, p, u)

\* What a staker could claim, in units of 1 / SCALE, and what the contract
\* holds beyond all of it.
Due(w, p, u) ==
    Accrued(w, p, u) + SCALE * (w.user[p][u].extraClaimable - w.user[p][u].rewardDebt)
DueTable(w) == [x \in PoolIds \X Users |-> Due(w, x[1], x[2])]
Free(w) == SCALE * w.degis - SumOver(DueTable(w), PoolIds \X Users)

\* A world as good as another one: sound, every debt covered, with the same
\* stakes and nothing lost.
Better(v, w) ==
    /\ Sound(v) /\ Covered(v) /\ v.user = w.user
    /\ Free(v) >= Free(w)

LEMMA UsersFinite ==
  /\ IsFiniteSet(Users) /\ IsFiniteSet(PoolIds) /\ IsFiniteSet(PoolIds \X Users)
  /\ SCALE \in Nat \ {0} /\ SCALE \in Nat /\ SCALE \in Int /\ Lps \in Nat
<1>1. IsFiniteSet(Users) /\ SCALE \in Nat \ {0} /\ Lps \in Nat  BY FarmingAssumption
<1>2. IsFiniteSet(PoolIds)  BY <1>1, FS_Interval DEF PoolIds
<1>3. IsFiniteSet(PoolIds \X Users)  BY <1>1, <1>2, FS_Product
<1> QED  BY <1>1, <1>2, <1>3

\* The fields of a typed world.
LEMMA FieldTypes ==
  ASSUME NEW w \in WorldType
  PROVE  /\ w.level \in Nat /\ w.degis \in Nat /\ w.ok \in BOOLEAN
         /\ w.pool \in [PoolIds -> PoolType]
         /\ w.user \in [PoolIds -> [Users -> StakeType]]
         /\ \A p \in PoolIds :
              /\ w.pool[p] \in PoolType
              /\ w.pool[p].basicDegisPerSecond \in Nat
              /\ w.pool[p].bonusDegisPerSecond \in Nat
              /\ w.pool[p].lastRewardTimestamp \in Nat
              /\ w.pool[p].accDegisPerShare \in Nat
              /\ w.pool[p].accDegisPerBonusShare \in Nat
              /\ w.pool[p].totalBonus \in Nat
              /\ w.pool[p].threshold \in Seq(Nat)
              /\ w.pool[p].piecewise \in Seq(Nat)
              /\ w.pool[p].level \in Nat
              /\ w.user[p] \in [Users -> StakeType]
              /\ \A u \in Users :
                    /\ w.user[p][u] \in StakeType
                    /\ w.user[p][u].rewardDebt \in Nat
                    /\ w.user[p][u].stakingBalance \in Nat
                    /\ w.user[p][u].bonus \in Nat
                    /\ w.user[p][u].extraClaimable \in Nat
<1>1. /\ w.level \in Nat /\ w.degis \in Nat /\ w.ok \in BOOLEAN
      /\ w.pool \in [PoolIds -> PoolType]
      /\ w.user \in [PoolIds -> [Users -> StakeType]]
  BY DEF WorldType
<1>2. \A p \in PoolIds : w.pool[p] \in PoolType /\ w.user[p] \in [Users -> StakeType]
  BY <1>1
<1>3. \A p \in PoolIds, u \in Users : w.user[p][u] \in StakeType  BY <1>2
<1> QED  BY <1>1, <1>2, <1>3 DEF PoolType, StakeType

\* Values are natural numbers, dues whole numbers.
LEMMA DueTypes ==
  ASSUME NEW w \in WorldType
  PROVE  /\ \A p \in PoolIds, u \in Users :
               /\ Accrued(w, p, u) \in Nat /\ Due(w, p, u) \in Int
               /\ Pending(w, p, u) \in Int
         /\ \A x \in PoolIds \X Users : DueTable(w)[x] \in Int
         /\ SumOver(DueTable(w), PoolIds \X Users) \in Int
         /\ Free(w) \in Int
<1>1. ASSUME NEW p \in PoolIds, NEW u \in Users
      PROVE  /\ Accrued(w, p, u) \in Nat /\ Due(w, p, u) \in Int
             /\ Pending(w, p, u) \in Int
  <2> DEFINE s == w.user[p][u].stakingBalance
             b == w.user[p][u].bonus
             x == w.pool[p].accDegisPerShare
             y == w.pool[p].accDegisPerBonusShare
             e == w.user[p][u].extraClaimable
             d == w.user[p][u].rewardDebt
  <2>1. s \in Nat /\ b \in Nat /\ x \in Nat /\ y \in Nat /\ e \in Nat /\ d \in Nat
    BY FieldTypes
  <2>2. Accrued(w, p, u) = s * x + b * y  BY DEF Accrued, Value
  <2>3. Due(w, p, u) = Accrued(w, p, u) + SCALE * (e - d)  BY DEF Due
  <2>4. Pending(w, p, u) = Accrued(w, p, u) \div SCALE + e - d  BY DEF Pending
  <2> HIDE DEF s, b, x, y, e, d
  <2>5. s * x \in Nat /\ b * y \in Nat  BY <2>1, ProductNat
  <2>6. Accrued(w, p, u) \in Nat  BY <2>2, <2>5
  <2>7. Accrued(w, p, u) \div SCALE \in Nat  BY <2>6, QuotientRest
  <2>8. SCALE \in Int /\ SCALE * (e - d) \in Int  BY <2>1, UsersFinite
  <2> QED  BY <2>1, <2>3, <2>4, <2>6, <2>7, <2>8
<1>2. \A x \in PoolIds \X Users : DueTable(w)[x] \in Int  BY <1>1 DEF DueTable
<1>3. SumOver(DueTable(w), PoolIds \X Users) \in Int  BY <1>2, UsersFinite, SumInt
<1>4. SCALE * w.degis \in Int  BY UsersFinite, FieldTypes
<1> QED  BY <1>1, <1>2, <1>3, <1>4 DEF Free

\* Nothing changes for the stakers when stakes and accumulators stay.
LEMMA SameDues ==
  ASSUME NEW w \in WorldType, NEW v \in WorldType, v.user = w.user,
         \A p \in PoolIds :
             /\ v.pool[p].accDegisPerShare = w.pool[p].accDegisPerShare
             /\ v.pool[p].accDegisPerBonusShare = w.pool[p].accDegisPerBonusShare
  PROVE  /\ \A p \in PoolIds, u \in Users :
               /\ Accrued(v, p, u) = Accrued(w, p, u)
               /\ Due(v, p, u) = Due(w, p, u)
         /\ Covered(w) => Covered(v)
         /\ v.degis = w.degis => Free(v) = Free(w)
<1>1. \A p \in PoolIds, u \in Users : Accrued(v, p, u) = Accrued(w, p, u)
  BY DEF Accrued, Value
<1>2. \A p \in PoolIds, u \in Users : Due(v, p, u) = Due(w, p, u)  BY <1>1 DEF Due
<1>3. Covered(w) => Covered(v)  BY <1>1 DEF Covered, CoveredAt
<1>4. DueTable(v) = DueTable(w)
  <2>1. \A x \in PoolIds \X Users : Due(v, x[1], x[2]) = Due(w, x[1], x[2])  BY <1>2
  <2> QED  BY <2>1 DEF DueTable
<1>5. v.degis = w.degis => Free(v) = Free(w)  BY <1>4 DEF Free
<1> QED  BY <1>1, <1>2, <1>3, <1>5

\* Nor for the books, when the totals and the thresholds stay.
LEMMA SameBooks ==
  ASSUME NEW w, NEW v \in WorldType, Sound(w), v.user = w.user,
         \A p \in PoolIds :
             /\ v.pool[p].totalBonus = w.pool[p].totalBonus
             /\ v.pool[p].threshold = w.pool[p].threshold
             /\ v.pool[p].piecewise = w.pool[p].piecewise
  PROVE  Sound(v)
<1>1. \A p : Bonuses(v, p) = Bonuses(w, p)  BY DEF Bonuses
<1>2. \A p \in PoolIds : Booked(v, p)  BY <1>1 DEF Sound, Booked
<1> QED  BY <1>2 DEF Sound

(***************************************************************************)
(* Updating pools                                                          *)
(***************************************************************************)
LEMMA SupplyIs ==
  ASSUME NEW w \in WorldType, NEW p \in PoolIds
  PROVE  /\ LpSupply(w, p) = SumOver(Stakes(w, p), Users) /\ LpSupply(w, p) \in Nat
         /\ \A u \in Users : Stakes(w, p)[u] = w.user[p][u].stakingBalance
                             /\ Stakes(w, p)[u] \in Nat
<1>1. LpSupply(w, p) = SumOver(Stakes(w, p), Users)
  BY DEF LpSupply, Total, SumOver, Stakes
<1>2. \A u \in Users : Stakes(w, p)[u] = w.user[p][u].stakingBalance
                       /\ Stakes(w, p)[u] \in Nat
  BY FieldTypes DEF Stakes
<1>3. SumOver(Stakes(w, p), Users) \in Nat  BY <1>2, UsersFinite, SumNat
<1> QED  BY <1>1, <1>2, <1>3

LEMMA BonusesAre ==
  ASSUME NEW w \in WorldType, NEW p \in PoolIds
  PROVE  /\ \A u \in Users : Bonuses(w, p)[u] = w.user[p][u].bonus
                             /\ Bonuses(w, p)[u] \in Nat
                             /\ Bonuses(w, p)[u] <= SumOver(Bonuses(w, p), Users)
         /\ SumOver(Bonuses(w, p), Users) \in Nat
<1>1. \A u \in Users : Bonuses(w, p)[u] = w.user[p][u].bonus
                       /\ Bonuses(w, p)[u] \in Nat
  BY FieldTypes DEF Bonuses
<1> QED  BY <1>1, UsersFinite, SumNat

\* What is shared out by stake and by bonus adds up over all.
LEMMA SharedOut ==
  ASSUME NEW S, IsFiniteSet(S), NEW f, NEW g, NEW stakes, NEW bonuses,
         NEW x \in Nat, NEW y \in Nat,
         \A u \in S : f[u] \in Int /\ stakes[u] \in Nat /\ bonuses[u] \in Nat
                      /\ g[u] = f[u] + (x * stakes[u] + y * bonuses[u])
  PROVE  SumOver(g, S)
           = SumOver(f, S) + (x * SumOver(stakes, S) + y * SumOver(bonuses, S))
<1> DEFINE d == [u \in S |-> x * stakes[u]]
           e == [u \in S |-> y * bonuses[u]]
           h == [u \in S |-> x * stakes[u] + y * bonuses[u]]
<1>1. \A u \in S : /\ x * stakes[u] \in Nat /\ y * bonuses[u] \in Nat
                   /\ stakes[u] \in Int /\ bonuses[u] \in Int
  BY ProductNat
<1>2. \A u \in S : /\ d[u] \in Int /\ e[u] \in Int /\ h[u] = d[u] + e[u]
                   /\ h[u] \in Int /\ g[u] = f[u] + h[u] /\ f[u] \in Int
                   /\ d[u] = x * stakes[u] /\ e[u] = y * bonuses[u]
  BY <1>1
<1> HIDE DEF d, e, h
<1>3. SumOver(g, S) = SumOver(f, S) + SumOver(h, S)  BY <1>2, SumPlus
<1>4. SumOver(h, S) = SumOver(d, S) + SumOver(e, S)  BY <1>2, SumPlus
<1>5. x \in Int /\ y \in Int  OBVIOUS
<1>6. SumOver(d, S) = x * SumOver(stakes, S)  BY <1>1, <1>2, <1>5, SumScale
<1>7. SumOver(e, S) = y * SumOver(bonuses, S)  BY <1>1, <1>2, <1>5, SumScale
<1>8. SumOver(f, S) \in Int /\ SumOver(d, S) \in Int /\ SumOver(e, S) \in Int
  BY <1>2, SumInt
<1> QED  BY <1>3, <1>4, <1>6, <1>7, <1>8

\* The fields after the rewards have been minted and shared out.
LEMMA RewardedIs ==
  ASSUME NEW w \in WorldType, NEW p \in PoolIds, now \in Nat,
         w.pool[p].lastRewardTimestamp < now, LpSupply(w, p) # 0
  PROVE  LET v     == Rewarded(w, p)
             pool  == w.pool[p]
             basic == (now - pool.lastRewardTimestamp) * pool.basicDegisPerSecond
             bonus == (now - pool.lastRewardTimestamp) * pool.bonusDegisPerSecond
         IN  /\ v \in WorldType /\ v.user = w.user /\ v.level = w.level /\ v.ok = w.ok
             /\ basic \in Nat /\ bonus \in Nat
             /\ v.degis = w.degis + basic + bonus
             /\ \A q \in PoolIds : q # p => v.pool[q] = w.pool[q]
             /\ v.pool[p].accDegisPerShare
                  = pool.accDegisPerShare + (basic * SCALE) \div LpSupply(w, p)
             /\ v.pool[p].accDegisPerBonusShare
                  = IF pool.totalBonus = 0 THEN 0
                    ELSE pool.accDegisPerBonusShare + (bonus * SCALE) \div pool.totalBonus
             /\ v.pool[p].totalBonus = pool.totalBonus
             /\ v.pool[p].threshold = pool.threshold
             /\ v.pool[p].piecewise = pool.piecewise
<1> DEFINE v     == Rewarded(w, p)
           pool  == w.pool[p]
           t     == now - pool.lastRewardTimestamp
           basic == t * pool.basicDegisPerSecond
           bonus == t * pool.bonusDegisPerSecond
           x     == pool.accDegisPerShare + (basic * SCALE) \div LpSupply(w, p)
           y     == IF pool.totalBonus = 0 THEN 0
                    ELSE pool.accDegisPerBonusShare + (bonus * SCALE) \div pool.totalBonus
           next  == [pool EXCEPT !.accDegisPerShare = x, !.accDegisPerBonusShare = y,
                                 !.lastRewardTimestamp = now]
<1>1. /\ pool \in PoolType /\ w.degis \in Nat /\ pool.lastRewardTimestamp \in Nat
      /\ pool.basicDegisPerSecond \in Nat /\ pool.bonusDegisPerSecond \in Nat
      /\ pool.totalBonus \in Nat /\ pool.accDegisPerShare \in Nat
      /\ pool.accDegisPerBonusShare \in Nat /\ w.pool \in [PoolIds -> PoolType]
  BY FieldTypes
<1>2. t \in Nat  BY <1>1
<1>3. basic \in Nat /\ bonus \in Nat
  <2> HIDE DEF t
  <2> QED  BY <1>1, <1>2, ProductNat
<1>4. x \in Nat /\ y \in Nat
  <2> HIDE DEF basic, bonus, t
  <2>1. basic * SCALE \in Nat /\ bonus * SCALE \in Nat  BY <1>3, UsersFinite, ProductNat
  <2>2. LpSupply(w, p) \in Nat \ {0}  BY SupplyIs
  <2>3. (basic * SCALE) \div LpSupply(w, p) \in Nat  BY <2>1, <2>2, QuotientBounds
  <2>4. pool.totalBonus # 0 => (bonus * SCALE) \div pool.totalBonus \in Nat
    <3> DEFINE T == pool.totalBonus
    <3>1. T \in Nat  BY <1>1
    <3> HIDE DEF T
    <3>2. T # 0 => (bonus * SCALE) \div T \in Nat  BY <2>1, <3>1, QuotientBounds
    <3> QED  BY <3>2 DEF T
  <2> QED  BY <1>1, <2>3, <2>4
<1>5. v = [w EXCEPT !.degis = w.degis + basic + bonus, !.pool[p] = next]
  BY DEF Rewarded
<1>6. next \in PoolType
  <2> HIDE DEF x, y
  <2> QED  BY <1>1, <1>4 DEF PoolType
<1>7. w.degis + basic + bonus \in Nat
  <2> HIDE DEF basic, bonus
  <2> QED  BY <1>1, <1>3
<1>8. /\ v \in WorldType /\ v.user = w.user /\ v.level = w.level /\ v.ok = w.ok
      /\ v.degis = w.degis + basic + bonus
      /\ v.pool = [w.pool EXCEPT ![p] = next]
  <2> HIDE DEF next, basic, bonus, v
  <2> QED  BY <1>5, <1>6, <1>7 DEF WorldType
<1>9. /\ \A q \in PoolIds : q # p => v.pool[q] = w.pool[q]
      /\ v.pool[p] = next
  <2> HIDE DEF next, v
  <2> QED  BY <1>1, <1>8
<1>10. /\ next.accDegisPerShare = x /\ next.accDegisPerBonusShare = y
       /\ next.totalBonus = pool.totalBonus /\ next.threshold = pool.threshold
       /\ next.piecewise = pool.piecewise
  <2> HIDE DEF x, y
  <2> QED  BY <1>1 DEF PoolType
<1> HIDE DEF next
<1> QED  BY <1>3, <1>8, <1>9, <1>10

\* Sharing out rewards mints what is shared, rounded down.
LEMMA RewardedBetter ==
  ASSUME NEW w, Sound(w), Covered(w), NEW p \in PoolIds, now \in Nat,
         w.pool[p].lastRewardTimestamp < now, LpSupply(w, p) # 0
  PROVE  Better(Rewarded(w, p), w)
<1> DEFINE v     == Rewarded(w, p)
           pool  == w.pool[p]
           basic == (now - pool.lastRewardTimestamp) * pool.basicDegisPerSecond
           bonus == (now - pool.lastRewardTimestamp) * pool.bonusDegisPerSecond
           S     == LpSupply(w, p)
           T     == pool.totalBonus
           x     == (basic * SCALE) \div S
           y     == IF T = 0 THEN 0 ELSE (bonus * SCALE) \div T
           old   == [u \in Users |-> Due(w, p, u)]
           new   == [u \in Users |-> Due(v, p, u)]
<1>1. w \in WorldType /\ Booked(w, p)  BY DEF Sound
<1>2. /\ v \in WorldType /\ v.user = w.user
      /\ basic \in Nat /\ bonus \in Nat
      /\ v.degis = w.degis + basic + bonus
      /\ \A q \in PoolIds : q # p => v.pool[q] = w.pool[q]
      /\ v.pool[p].accDegisPerShare = pool.accDegisPerShare + x
      /\ T # 0 => v.pool[p].accDegisPerBonusShare = pool.accDegisPerBonusShare + y
      /\ v.pool[p].totalBonus = pool.totalBonus
      /\ v.pool[p].threshold = pool.threshold
      /\ v.pool[p].piecewise = pool.piecewise
  BY <1>1, RewardedIs
<1>3. S \in Nat \ {0} /\ S = SumOver(Stakes(w, p), Users)  BY <1>1, SupplyIs
<1>4. T \in Nat /\ T = SumOver(Bonuses(w, p), Users) /\ w.degis \in Nat
  BY <1>1, FieldTypes DEF Booked
<1>5. \A u \in Users :
          /\ Stakes(w, p)[u] = w.user[p][u].stakingBalance /\ Stakes(w, p)[u] \in Nat
          /\ Bonuses(w, p)[u] = w.user[p][u].bonus /\ Bonuses(w, p)[u] \in Nat
          /\ T = 0 => Bonuses(w, p)[u] = 0
  <2> SUFFICES ASSUME NEW u \in Users
               PROVE  /\ Bonuses(w, p)[u] = w.user[p][u].bonus /\ Bonuses(w, p)[u] \in Nat
                      /\ T = 0 => Bonuses(w, p)[u] = 0
    BY <1>1, SupplyIs
  <2>1. Bonuses(w, p)[u] <= T /\ Bonuses(w, p)[u] \in Nat  BY <1>1, <1>4, BonusesAre
  <2>2. T = 0 => Bonuses(w, p)[u] = 0  BY <1>4, <2>1
  <2> QED  BY <1>1, <2>2, BonusesAre
<1> HIDE DEF v, basic, bonus, S, T
<1>6. /\ x \in Nat /\ y \in Nat /\ x * S <= basic * SCALE /\ y * T <= bonus * SCALE
      /\ basic * SCALE \in Nat /\ bonus * SCALE \in Nat
  <2>1. basic * SCALE \in Nat /\ bonus * SCALE \in Nat  BY <1>2, UsersFinite, ProductNat
  <2>2. x \in Nat /\ x * S <= basic * SCALE  BY <1>3, <2>1, QuotientBounds
  <2>3. CASE T = 0
    <3>1. y = 0 /\ y * T = 0  BY <2>3
    <3> QED  BY <2>1, <2>2, <3>1
  <2>4. CASE T # 0
    <3>1. T \in Nat \ {0}  BY <1>4, <2>4
    <3>2. y = (bonus * SCALE) \div T  BY <2>4
    <3>3. y \in Nat /\ y * T <= bonus * SCALE  BY <2>1, <3>1, <3>2, QuotientBounds
    <3> QED  BY <2>1, <2>2, <3>3
  <2> QED  BY <2>3, <2>4
<1> HIDE DEF x, y
\* What has accrued grows by stake and bonus.
<1>7. ASSUME NEW u \in Users
      PROVE  /\ Accrued(v, p, u) = Accrued(w, p, u)
                    + (x * Stakes(w, p)[u] + y * Bonuses(w, p)[u])
             /\ x * Stakes(w, p)[u] + y * Bonuses(w, p)[u] \in Nat
  <2> DEFINE s == w.user[p][u].stakingBalance
             b == w.user[p][u].bonus
             c == pool.accDegisPerShare
             d == pool.accDegisPerBonusShare
             e == v.pool[p].accDegisPerBonusShare
  <2>1. s \in Nat /\ b \in Nat /\ c \in Nat /\ d \in Nat /\ e \in Nat
    BY <1>1, <1>2, FieldTypes
  <2>2. Accrued(w, p, u) = s * c + b * d  BY DEF Accrued, Value
  <2>3. Accrued(v, p, u) = s * (c + x) + b * e  BY <1>2 DEF Accrued, Value
  <2>4. Stakes(w, p)[u] = s /\ Bonuses(w, p)[u] = b /\ (T = 0 => b = 0)
        /\ (T # 0 => e = d + y)
    BY <1>2, <1>5
  <2> HIDE DEF s, b, c, d, e
  <2>5. b * e = b * d + b * y
    <3>1. CASE T = 0
      <4>1. b = 0  BY <2>4, <3>1
      <4>2. 0 * e = 0 /\ 0 * d = 0 /\ 0 * y = 0  BY <1>6, <2>1
      <4> QED  BY <4>1, <4>2
    <3>2. CASE T # 0
      <4>1. e = d + y  BY <2>4, <3>2
      <4> QED  BY <1>6, <2>1, <4>1
    <3> QED  BY <3>1, <3>2
  <2>6. s * (c + x) = s * c + x * s /\ b * y = y * b  BY <1>6, <2>1
  <2>7. x * s \in Nat /\ y * b \in Nat /\ s * c \in Nat /\ b * d \in Nat
    BY <1>6, <2>1, ProductNat
  <2> QED  BY <2>2, <2>3, <2>4, <2>5, <2>6, <2>7
<1>8. \A q \in PoolIds, u \in Users : q # p =>
          Accrued(v, q, u) = Accrued(w, q, u) /\ Due(v, q, u) = Due(w, q, u)
  BY <1>2 DEF Accrued, Due
<1>9. Covered(v)
  <2> SUFFICES ASSUME NEW q \in PoolIds, NEW u \in Users PROVE CoveredAt(v, q, u)
    BY DEF Covered
  <2>1. CoveredAt(w, q, u)  BY DEF Covered
  <2>2. CASE q # p  BY <1>2, <1>8, <2>1, <2>2 DEF CoveredAt
  <2>3. CASE q = p
    <3> DEFINE a == Accrued(w, p, u)  b == Accrued(v, p, u)  d == w.user[p][u].rewardDebt
    <3>1. a \in Nat /\ b \in Nat /\ d \in Nat  BY <1>1, <1>2, DueTypes, FieldTypes
    <3>2. a <= b  BY <1>7, <3>1
    <3>3. d <= a \div SCALE /\ v.user[p][u].rewardDebt = d  BY <1>2, <2>1, <2>3 DEF CoveredAt
    <3>4. a \div SCALE \in Nat /\ b \div SCALE \in Nat  BY <3>1, QuotientRest
    <3> HIDE DEF a, b, d
    <3>5. a \div SCALE <= b \div SCALE  BY <3>1, <3>2, UsersFinite, QuotientMonotone
    <3>6. d <= b \div SCALE  BY <3>1, <3>3, <3>4, <3>5
    <3> QED  BY <2>3, <3>3, <3>6 DEF CoveredAt, b
  <2> QED  BY <2>2, <2>3
\* What is due grows by no more than what was minted.
<1>10. ASSUME NEW u \in Users
       PROVE  /\ old[u] \in Int /\ old[u] = DueTable(w)[<<p, u>>]
              /\ new[u] = DueTable(v)[<<p, u>>]
              /\ new[u] = old[u] + (x * Stakes(w, p)[u] + y * Bonuses(w, p)[u])
  <2>1. Due(w, p, u) \in Int  BY <1>1, DueTypes
  <2>2. old[u] = Due(w, p, u) /\ new[u] = Due(v, p, u)  OBVIOUS
  <2>3. DueTable(w)[<<p, u>>] = Due(w, p, u) /\ DueTable(v)[<<p, u>>] = Due(v, p, u)
    BY DEF DueTable
  <2> DEFINE a == Accrued(w, p, u)
             z == x * Stakes(w, p)[u] + y * Bonuses(w, p)[u]
             k == SCALE * (w.user[p][u].extraClaimable - w.user[p][u].rewardDebt)
  <2>4. Due(w, p, u) = a + k /\ Due(v, p, u) = (a + z) + k  BY <1>2, <1>7 DEF Due
  <2>5. a \in Nat /\ z \in Nat  BY <1>1, <1>7, DueTypes
  <2>6. k \in Int
    <3>1. w.user[p][u].extraClaimable \in Nat /\ w.user[p][u].rewardDebt \in Nat
      BY <1>1, FieldTypes
    <3> QED  BY <3>1, UsersFinite
  <2> HIDE DEF a, z, k
  <2>7. Due(v, p, u) = Due(w, p, u) + z  BY <2>4, <2>5, <2>6
  <2> QED  BY <2>1, <2>2, <2>3, <2>7 DEF z
<1>11. SumOver(new, Users) - SumOver(old, Users) <= basic * SCALE + bonus * SCALE
  <2>1. x * SumOver(Stakes(w, p), Users) <= basic * SCALE  BY <1>3, <1>6
  <2>2. y * SumOver(Bonuses(w, p), Users) <= bonus * SCALE  BY <1>4, <1>6
  <2> DEFINE stakes == Stakes(w, p)  bonuses == Bonuses(w, p)
             k == basic * SCALE  l == bonus * SCALE
  <2>3. \A u \in Users : old[u] \in Int /\ stakes[u] \in Nat /\ bonuses[u] \in Nat
                          /\ new[u] = old[u] + (x * stakes[u] + y * bonuses[u])
    BY <1>5, <1>10
  <2>4. x \in Nat /\ y \in Nat /\ k \in Nat /\ l \in Nat  BY <1>6
  <2>5. IsFiniteSet(Users)  BY UsersFinite
  <2> HIDE DEF old, new, stakes, bonuses, x, y, k, l
  <2>6. SumOver(new, Users)
          = SumOver(old, Users) + (x * SumOver(stakes, Users) + y * SumOver(bonuses, Users))
    BY <2>3, <2>4, <2>5, SharedOut
  <2>7. SumOver(old, Users) \in Int  BY <2>3, <2>5, SumInt
  <2>8. SumOver(stakes, Users) \in Nat /\ SumOver(bonuses, Users) \in Nat
    BY <2>3, <2>5, SumNat
  <2> DEFINE m == x * SumOver(stakes, Users)  n == y * SumOver(bonuses, Users)
  <2>9. m \in Nat /\ n \in Nat /\ m <= k /\ n <= l
    <3>1. m <= k /\ n <= l  BY <2>1, <2>2 DEF stakes, bonuses, k, l
    <3> QED  BY <2>4, <2>8, <3>1, ProductNat
  <2> HIDE DEF m, n, k, l
  <2> QED  BY <2>4, <2>6, <2>7, <2>9 DEF m, n, k, l
<1>12. SumOver(DueTable(v), PoolIds \X Users) - SumOver(DueTable(w), PoolIds \X Users)
         = SumOver(new, Users) - SumOver(old, Users)
  <2>1. \A z \in PoolIds \X Users : DueTable(w)[z] \in Int /\ DueTable(v)[z] \in Int
    BY <1>1, <1>2, DueTypes
  <2>2. \A z \in PoolIds \X Users : z[1] # p => DueTable(v)[z] = DueTable(w)[z]
    BY <1>8 DEF DueTable
  <2> HIDE DEF old, new
  <2> QED  BY <1>10, <2>1, <2>2, UsersFinite, SumRow
<1>13. Free(v) >= Free(w)
  <2> DEFINE a == SumOver(DueTable(w), PoolIds \X Users)
             b == SumOver(DueTable(v), PoolIds \X Users)
             k == basic * SCALE  l == bonus * SCALE
  <2>1. a \in Int /\ b \in Int  BY <1>1, <1>2, DueTypes
  <2>2. b - a <= k + l  BY <1>11, <1>12
  <2>3. Free(w) = SCALE * w.degis - a /\ Free(v) = SCALE * (w.degis + basic + bonus) - b
    BY <1>2 DEF Free
  <2> DEFINE g == w.degis
  <2>4. g \in Nat /\ SCALE \in Nat /\ k \in Nat /\ l \in Nat  BY <1>4, <1>6, UsersFinite
  <2>5. SCALE * (g + basic + bonus) = SCALE * g + k + l  BY <1>2, <2>4
  <2>6. SCALE * g \in Nat  BY <2>4, ProductNat
  <2> HIDE DEF a, b, k, l, g
  <2>7. (SCALE * g + k + l) - b >= SCALE * g - a  BY <2>1, <2>2, <2>4, <2>6
  <2> QED  BY <2>3, <2>5, <2>7 DEF g
<1>14. Sound(v)
  <2>1. \A q \in PoolIds :
            /\ v.pool[q].totalBonus = w.pool[q].totalBonus
            /\ v.pool[q].threshold = w.pool[q].threshold
            /\ v.pool[q].piecewise = w.pool[q].piecewise
    BY <1>2
  <2> QED  BY <1>2, <2>1, SameBooks
<1> QED  BY <1>2, <1>9, <1>13, <1>14 DEF Better, v

\* A nonempty set of indices has a greatest one.
LEMMA GreatestIs ==
  ASSUME NEW n \in Nat, NEW S, S \subseteq 1 .. n, S # {}
  PROVE  Greatest(S) \in S
<1> DEFINE T == {n - x : x \in S}
<1>1. T \subseteq Nat /\ T # {}
  <2>1. \A x \in S : x \in 1 .. n /\ n - x \in Nat  OBVIOUS
  <2> QED  BY <2>1
<1>2. PICK y \in T : \A z \in T : y <= z  BY <1>1, LeastNumber
<1>3. PICK x \in S : y = n - x  BY <1>2
<1>4. \A z \in S : z <= x
  <2> TAKE z \in S
  <2>1. y <= n - z  BY <1>2
  <2> QED  BY <1>3, <2>1
<1> QED  BY <1>4 DEF Greatest

\* Replacing one pool of a world, or one stake.
WithPool(w, p, pool) == [w EXCEPT !.pool[p] = pool]
WithUser(w, p, u, s) == [w EXCEPT !.user[p][u] = s]

LEMMA PoolReplaced ==
  ASSUME NEW w \in WorldType, NEW p \in PoolIds, NEW pool \in PoolType,
         NEW v, v = WithPool(w, p, pool)
  PROVE  /\ v \in WorldType /\ v.user = w.user /\ v.level = w.level /\ v.ok = w.ok
         /\ v.degis = w.degis /\ v.pool[p] = pool
         /\ \A q \in PoolIds : q # p => v.pool[q] = w.pool[q]
<1>1. w.pool \in [PoolIds -> PoolType]  BY FieldTypes
<1>2. /\ v \in WorldType /\ v.user = w.user /\ v.level = w.level /\ v.ok = w.ok
      /\ v.degis = w.degis /\ v.pool = [w.pool EXCEPT ![p] = pool]
  BY <1>1 DEF WorldType, WithPool
<1> QED  BY <1>1, <1>2

\* A world that differs in speeds, timestamps, levels or the verdict only.
LEMMA SameForStakers ==
  ASSUME NEW w, Sound(w), Covered(w), NEW v \in WorldType,
         v.user = w.user, v.degis = w.degis,
         \A p \in PoolIds :
             /\ v.pool[p].accDegisPerShare = w.pool[p].accDegisPerShare
             /\ v.pool[p].accDegisPerBonusShare = w.pool[p].accDegisPerBonusShare
             /\ v.pool[p].totalBonus = w.pool[p].totalBonus
             /\ v.pool[p].threshold = w.pool[p].threshold
             /\ v.pool[p].piecewise = w.pool[p].piecewise
  PROVE  Better(v, w)
<1>1. w \in WorldType  BY DEF Sound
<1>2. Sound(v)  BY SameBooks
<1>3. Covered(v) /\ Free(v) = Free(w)  BY <1>1, SameDues
<1>4. Free(w) \in Int  BY <1>1, DueTypes
<1> QED  BY <1>2, <1>3, <1>4 DEF Better

LEMMA BetterTransitive ==
  ASSUME NEW u, NEW v, NEW w, w \in WorldType, Better(v, w), Better(u, v)
  PROVE  Better(u, w)
<1>1. u \in WorldType /\ v \in WorldType  BY DEF Better, Sound
<1>2. Free(u) \in Int /\ Free(v) \in Int /\ Free(w) \in Int  BY <1>1, DueTypes
<1> QED  BY <1>2 DEF Better

LEMMA BetterSelf == ASSUME NEW w, Sound(w), Covered(w) PROVE Better(w, w)
<1>1. Free(w) \in Int  BY DueTypes DEF Sound
<1> QED  BY <1>1 DEF Better

\* A call that reverts has changed nothing that counts.
LEMMA RequireBetter ==
  ASSUME NEW w, Sound(w), Covered(w), NEW condition
  PROVE  /\ Better(Require(w, condition), w)
         /\ Require(w, condition).pool = w.pool /\ Require(w, condition).user = w.user
         /\ Require(w, condition).degis = w.degis
<1> DEFINE v == Require(w, condition)  b == w.ok /\ condition
<1>1. w \in WorldType /\ b \in BOOLEAN /\ v = [w EXCEPT !.ok = b]  BY DEF Sound, Require
<1> HIDE DEF b, v
<1>2. v \in WorldType /\ v.user = w.user /\ v.degis = w.degis /\ v.pool = w.pool
  BY <1>1 DEF WorldType
<1>3. Better(v, w)  BY <1>2, SameForStakers
<1> QED  BY <1>2, <1>3 DEF v

\* A new level brings its speed.
LEMMA SpeedBetter ==
  ASSUME NEW w, Sound(w), Covered(w), NEW p \in PoolIds
  PROVE  Better(_updateRewardSpeed(w, p), w)
<1>1. CASE Reached(w, p) = {}
  BY <1>1, RequireBetter DEF _updateRewardSpeed
<1>2. CASE Reached(w, p) # {}
  <2> DEFINE i    == Greatest(Reached(w, p))
             old  == w.pool[p]
             fast == [old EXCEPT !.basicDegisPerSecond = old.piecewise[i]]
             sped == WithPool(w, p, fast)
             v    == _updateRewardSpeed(w, p)
  <2>1. /\ w \in WorldType /\ old \in PoolType /\ Len(old.threshold) = Len(old.piecewise)
        /\ old.threshold \in Seq(Nat) /\ old.piecewise \in Seq(Nat)
    BY FieldTypes DEF Sound, Booked
  <2>2. i \in Reached(w, p) /\ Reached(w, p) \subseteq 1 .. Len(old.threshold)
    <3>1. Reached(w, p) \subseteq 1 .. Len(old.threshold)  BY <2>1 DEF Reached
    <3>2. Len(old.threshold) \in Nat  BY <2>1
    <3> QED  BY <1>2, <3>1, <3>2, GreatestIs
  <2>3. i \in 1 .. Len(old.piecewise) /\ i - 1 \in Nat /\ old.piecewise[i] \in Nat
    <3> DEFINE n == Len(old.threshold)
    <3>1. n \in Nat /\ i \in 1 .. n /\ n = Len(old.piecewise)  BY <2>1, <2>2
    <3> HIDE DEF n, i, old
    <3>2. i \in 1 .. Len(old.piecewise) /\ i - 1 \in Nat  BY <3>1
    <3> QED  BY <2>1, <3>2
  <2>4. v = IF impl.farming = 1 THEN [sped EXCEPT !.level = i - 1]
                                ELSE [sped EXCEPT !.pool[p].level = i - 1]
    BY <1>2 DEF _updateRewardSpeed, WithPool
  <2> HIDE DEF i
  <2>5. /\ fast \in PoolType
        /\ fast.accDegisPerShare = old.accDegisPerShare
        /\ fast.accDegisPerBonusShare = old.accDegisPerBonusShare
        /\ fast.totalBonus = old.totalBonus
        /\ fast.threshold = old.threshold /\ fast.piecewise = old.piecewise
    BY <2>1, <2>3 DEF PoolType
  <2> HIDE DEF fast
  <2>6. /\ sped \in WorldType /\ sped.user = w.user /\ sped.degis = w.degis
        /\ sped.pool[p] = fast
        /\ \A q \in PoolIds : q # p => sped.pool[q] = w.pool[q]
    BY <2>1, <2>5, PoolReplaced
  <2> HIDE DEF sped, v
  <2>7. CASE impl.farming = 1
    <3>1. v = [sped EXCEPT !.level = i - 1]  BY <2>4, <2>7
    <3>2. v \in WorldType /\ v.user = w.user /\ v.degis = w.degis /\ v.pool = sped.pool
      BY <2>3, <2>6, <3>1 DEF WorldType
    <3>3. Better(v, w)  BY <2>5, <2>6, <3>2, SameForStakers
    <3> QED  BY <3>3 DEF v
  <2>8. CASE impl.farming # 1
    <3> DEFINE next == [fast EXCEPT !.level = i - 1]
    <3>1. v = WithPool(sped, p, next)  BY <2>4, <2>6, <2>8 DEF WithPool
    <3>2. /\ next \in PoolType
          /\ next.accDegisPerShare = old.accDegisPerShare
          /\ next.accDegisPerBonusShare = old.accDegisPerBonusShare
          /\ next.totalBonus = old.totalBonus
          /\ next.threshold = old.threshold /\ next.piecewise = old.piecewise
      BY <2>3, <2>5 DEF PoolType
    <3> HIDE DEF next
    <3>3. sped \in WorldType /\ next \in PoolType  BY <2>6, <3>2
    <3>4. /\ v \in WorldType /\ v.user = sped.user /\ v.degis = sped.degis
          /\ v.pool[p] = next
          /\ \A q \in PoolIds : q # p => v.pool[q] = sped.pool[q]
      BY <3>1, <3>3, PoolReplaced
    <3>5. Better(v, w)  BY <2>6, <3>2, <3>4, SameForStakers
    <3> QED  BY <3>5 DEF v
  <2> QED  BY <2>7, <2>8
<1> QED  BY <1>1, <1>2

LEMMA UpdatedSpeedBetter ==
  ASSUME NEW w, Sound(w), Covered(w), NEW p \in PoolIds
  PROVE  Better(UpdatedSpeed(w, p), w)
<1>1. Better(w, w)  BY BetterSelf
<1>2. Better(Require(w, FALSE), w)  BY RequireBetter
<1>3. Better(_updateRewardSpeed(w, p), w)  BY SpeedBetter
<1> QED  BY <1>1, <1>2, <1>3, Zenon DEF UpdatedSpeed

\* Moving the timestamp of a pool alone.
LEMMA TimestampBetter ==
  ASSUME NEW w, Sound(w), Covered(w), NEW p \in PoolIds, NEW time \in Nat
  PROVE  Better([w EXCEPT !.pool[p].lastRewardTimestamp = time], w)
<1> DEFINE old == w.pool[p]
           next == [old EXCEPT !.lastRewardTimestamp = time]
           v == [w EXCEPT !.pool[p].lastRewardTimestamp = time]
<1>1. w \in WorldType /\ old \in PoolType  BY FieldTypes DEF Sound
<1>2. v = WithPool(w, p, next)  BY DEF WithPool
<1>3. /\ next \in PoolType
      /\ next.accDegisPerShare = old.accDegisPerShare
      /\ next.accDegisPerBonusShare = old.accDegisPerBonusShare
      /\ next.totalBonus = old.totalBonus
      /\ next.threshold = old.threshold /\ next.piecewise = old.piecewise
  BY <1>1 DEF PoolType
<1> HIDE DEF next, v
<1>4. /\ v \in WorldType /\ v.user = w.user /\ v.degis = w.degis /\ v.pool[p] = next
      /\ \A q \in PoolIds : q # p => v.pool[q] = w.pool[q]
  BY <1>1, <1>2, <1>3, PoolReplaced
<1>5. Better(v, w)  BY <1>3, <1>4, SameForStakers
<1> QED  BY <1>5 DEF v

\* An update of a pool, and what is done to one that is not farming.
LEMMA UpdatedBetter ==
  ASSUME NEW w, Sound(w), Covered(w), NEW p \in PoolIds, now \in Nat
  PROVE  Better(Updated(w, p), w) /\ Better(Refreshed(w, p), w)
<1>1. w \in WorldType /\ w.pool[p].lastRewardTimestamp \in Nat  BY FieldTypes DEF Sound
<1>2. Better(w, w)  BY BetterSelf
<1>3. Better([w EXCEPT !.pool[p].lastRewardTimestamp = now], w)  BY TimestampBetter
<1>4. Better(Updated(w, p), w)
  <2>1. CASE now <= w.pool[p].lastRewardTimestamp
    <3>1. Updated(w, p) = w  BY <2>1 DEF Updated
    <3> QED  BY <1>2, <3>1
  <2>2. CASE ~(now <= w.pool[p].lastRewardTimestamp) /\ LpSupply(w, p) = 0
    <3>1. Updated(w, p) = [w EXCEPT !.pool[p].lastRewardTimestamp = now]
      BY <2>2 DEF Updated
    <3> QED  BY <1>3, <3>1
  <2>3. CASE ~(now <= w.pool[p].lastRewardTimestamp) /\ LpSupply(w, p) # 0
    <3> DEFINE v == Rewarded(w, p)
    <3>1. Updated(w, p) = UpdatedSpeed(v, p)  BY <2>3 DEF Updated
    <3>2. w.pool[p].lastRewardTimestamp < now  BY <1>1, <2>3
    <3>3. Better(v, w)  BY <2>3, <3>2, RewardedBetter
    <3>4. Better(UpdatedSpeed(v, p), v)  BY <3>3, UpdatedSpeedBetter DEF Better
    <3> QED  BY <1>1, <3>1, <3>3, <3>4, BetterTransitive
  <2> QED  BY <2>1, <2>2, <2>3
<1>5. Better(Passed(w, p), w)  BY <1>2, <1>3 DEF Passed
<1> QED  BY <1>4, <1>5 DEF Refreshed

(***************************************************************************)
(* Loops over the pools                                                    *)
(***************************************************************************)
\* The elements of W that a loop of n rounds goes through.
Traces(W, base, n, step) ==
    {g \in [0 .. n -> W] : g[0] = base /\ \A p \in 1 .. n : g[p] = step[<<g[p - 1], p>>]}

\* A loop that steps from one of the elements of W to another can be run.
LEMMA LoopRuns ==
  ASSUME NEW W, NEW base \in W, NEW n \in Nat, NEW step \in [W \X (1 .. n) -> W]
  PROVE  Traces(W, base, n, step) # {}
<1> DEFINE Runs(g, k) == /\ g \in [0 .. k -> W] /\ g[0] = base
                         /\ \A p \in 1 .. k : g[p] = step[<<g[p - 1], p>>]
           G == {k \in Nat : k <= n => \E g : Runs(g, k)}
<1>1. 0 \in G
  <2> DEFINE g == [p \in 0 .. 0 |-> base]
  <2>1. Runs(g, 0)  OBVIOUS
  <2> QED  BY <2>1
<1>2. ASSUME NEW k \in Nat, k \in G PROVE k + 1 \in G
  <2> SUFFICES ASSUME k + 1 <= n PROVE \E g : Runs(g, k + 1)  OBVIOUS
  <2>1. PICK g : Runs(g, k)  BY <1>2
  <2> DEFINE v == step[<<g[k], k + 1>>]
             h == [p \in 0 .. k + 1 |-> IF p = k + 1 THEN v ELSE g[p]]
  <2>2. v \in W
    <3>1. g[k] \in W /\ k + 1 \in 1 .. n  BY <2>1
    <3> QED  BY <3>1
  <2>3. h[k + 1] = v /\ \A p \in 0 .. k : h[p] = g[p] /\ h[p] \in W
    <3>1. \A p \in 0 .. k : p # k + 1 /\ p \in 0 .. k + 1 /\ g[p] \in W  BY <2>1
    <3> QED  BY <3>1
  <2>4. h \in [0 .. k + 1 -> W]
    <3>1. \A p \in 0 .. k + 1 : p # k + 1 => p \in 0 .. k  OBVIOUS
    <3>2. \A p \in 0 .. k + 1 : (IF p = k + 1 THEN v ELSE g[p]) \in W
      BY <2>1, <2>2, <3>1
    <3> HIDE DEF v
    <3> QED  BY <3>2
  <2>5. ASSUME NEW p \in 1 .. k + 1 PROVE h[p] = step[<<h[p - 1], p>>]
    <3>1. p - 1 \in 0 .. k /\ h[p - 1] = g[p - 1]  BY <2>3
    <3>2. CASE p = k + 1
      <4>1. p - 1 = k  BY <3>2
      <4> HIDE DEF h
      <4> QED  BY <2>3, <3>1, <3>2, <4>1
    <3>3. CASE p # k + 1
      <4>1. p \in 1 .. k /\ p \in 0 .. k  BY <3>3
      <4>2. h[p] = g[p] /\ g[p] = step[<<g[p - 1], p>>]  BY <2>1, <2>3, <4>1
      <4> QED  BY <3>1, <4>2
    <3> QED  BY <3>2, <3>3
  <2>6. h[0] = base  BY <2>1, <2>3
  <2>7. Runs(h, k + 1)
    <3> HIDE DEF h
    <3> QED  BY <2>4, <2>5, <2>6
  <2> QED  BY <2>7
<1>3. n \in G
  <2> HIDE DEF G
  <2> QED  BY <1>1, <1>2, NumberInduction
<1>4. PICK g : Runs(g, n)  BY <1>3
<1>5. g \in Traces(W, base, n, step)  BY <1>4 DEF Traces
<1> QED  BY <1>5

\* What the storage satisfies between calls.
StorageOK == Sound(World) /\ Covered(World) /\ now \in Nat

\* The worlds that the loops go through.
GoodWorlds == {w \in WorldType : Sound(w) /\ Covered(w)}

MassLoop(g) ==
    g = [p \in 0 .. Lps |->
            IF p = 0 THEN World
            ELSE IF Exists(p) THEN Refreshed(g[p - 1], p) ELSE g[p - 1]]

LEMMA MassLoopRuns == StorageOK => \E g : MassLoop(g)
<1> SUFFICES ASSUME StorageOK PROVE \E g : MassLoop(g)  OBVIOUS
<1> DEFINE W == GoodWorlds
           step == [x \in W \X (1 .. Lps) |->
                       IF Exists(x[2]) THEN Refreshed(x[1], x[2]) ELSE x[1]]
<1>1. World \in W /\ Lps \in Nat /\ now \in Nat
  BY UsersFinite DEF StorageOK, Sound, GoodWorlds
<1>2. ASSUME NEW w \in W, NEW p \in 1 .. Lps PROVE Refreshed(w, p) \in W
  <2>1. Better(Refreshed(w, p), w)  BY <1>1, UpdatedBetter DEF GoodWorlds, PoolIds
  <2> QED  BY <2>1 DEF Better, Sound, GoodWorlds
<1>3. step \in [W \X (1 .. Lps) -> W]
  <2> HIDE DEF W
  <2> QED  BY <1>2
<1>4. \A w \in W, p \in 1 .. Lps :
          step[<<w, p>>] = IF Exists(p) THEN Refreshed(w, p) ELSE w
  OBVIOUS
<1> HIDE DEF step, W
<1>5. PICK g \in [0 .. Lps -> W] :
          g[0] = World /\ \A p \in 1 .. Lps : g[p] = step[<<g[p - 1], p>>]
  <2>1. PICK base \in W : base = World  BY <1>1
  <2>2. PICK n \in Nat : n = Lps  BY <1>1
  <2>3. step \in [W \X (1 .. n) -> W]  BY <1>3, <2>2
  <2>4. Traces(W, base, n, step) # {}  BY <2>3, LoopRuns, Zenon
  <2>5. PICK g \in [0 .. n -> W] :
            g[0] = base /\ \A p \in 1 .. n : g[p] = step[<<g[p - 1], p>>]
    BY <2>4 DEF Traces
  <2> QED  BY <2>1, <2>2, <2>5
<1>6. ASSUME NEW p \in 0 .. Lps
      PROVE  g[p] = IF p = 0 THEN World
                    ELSE IF Exists(p) THEN Refreshed(g[p - 1], p) ELSE g[p - 1]
  <2>1. CASE p = 0  BY <1>5, <2>1
  <2>2. CASE p # 0
    <3>1. p \in 1 .. Lps /\ g[p - 1] \in W  BY <1>1, <1>5, <2>2
    <3>2. g[p] = IF Exists(p) THEN Refreshed(g[p - 1], p) ELSE g[p - 1]
      BY <1>4, <1>5, <3>1
    <3> QED  BY <2>2, <3>2
  <2> QED  BY <2>1, <2>2
<1>7. MassLoop(g)  BY <1>6 DEF MassLoop
<1> QED  BY <1>7

\* After the loop of massUpdatePools nobody has lost anything.
LEMMA MassUpdatedBetter == StorageOK => Better(MassUpdated, World)
<1> SUFFICES ASSUME StorageOK PROVE Better(MassUpdated, World)  OBVIOUS
<1> DEFINE after == CHOOSE g : MassLoop(g)
<1>1. MassUpdated = after[Lps]  BY DEF MassUpdated, MassLoop
<1>2. MassLoop(after)  BY MassLoopRuns
<1> HIDE DEF after
<1> DEFINE G == {k \in Nat : k <= Lps => Better(after[k], World)}
<1>3. Lps \in Nat /\ now \in Nat /\ World \in WorldType /\ Better(World, World)
  BY UsersFinite, BetterSelf DEF StorageOK, Sound
<1>4. 0 \in G
  <2>1. after[0] = World  BY <1>2, <1>3 DEF MassLoop
  <2> QED  BY <1>3, <2>1
<1>5. ASSUME NEW k \in Nat, k \in G PROVE k + 1 \in G
  <2> SUFFICES ASSUME k + 1 <= Lps PROVE Better(after[k + 1], World)  OBVIOUS
  <2>1. k + 1 \in PoolIds /\ k + 1 \in 0 .. Lps /\ k + 1 # 0 /\ k <= Lps /\ (k + 1) - 1 = k
    BY <1>3 DEF PoolIds
  <2>2. after[k + 1] = IF Exists(k + 1) THEN Refreshed(after[k], k + 1) ELSE after[k]
    BY <1>2, <2>1 DEF MassLoop
  <2>3. Better(after[k], World)  BY <1>5, <2>1
  <2>4. Better(Refreshed(after[k], k + 1), after[k])
    BY <1>3, <2>1, <2>3, UpdatedBetter DEF Better
  <2>5. Better(Refreshed(after[k], k + 1), World)
    BY <1>3, <2>3, <2>4, BetterTransitive
  <2> QED  BY <2>2, <2>3, <2>5
<1>6. Lps \in G
  <2> HIDE DEF G
  <2> QED  BY <1>3, <1>4, <1>5, NumberInduction
<1>7. Better(after[Lps], World)  BY <1>3, <1>6
<1> QED  BY <1>1, <1>7

(***************************************************************************)
(* Settling a stake anew                                                   *)
(***************************************************************************)
LEMMA StakeReplaced ==
  ASSUME NEW w \in WorldType, NEW p \in PoolIds, NEW u \in Users, NEW s \in StakeType,
         NEW v, v = WithUser(w, p, u, s)
  PROVE  /\ v \in WorldType /\ v.pool = w.pool /\ v.level = w.level /\ v.ok = w.ok
         /\ v.degis = w.degis /\ v.user[p][u] = s
         /\ \A q \in PoolIds, x \in Users : q # p \/ x # u => v.user[q][x] = w.user[q][x]
<1> DEFINE row == [w.user[p] EXCEPT ![u] = s]
<1>1. w.user \in [PoolIds -> [Users -> StakeType]] /\ w.user[p] \in [Users -> StakeType]
  BY FieldTypes
<1>2. row \in [Users -> StakeType] /\ row[u] = s /\ \A x \in Users : x # u => row[x] = w.user[p][x]
  BY <1>1
<1> DEFINE rows == [w.user EXCEPT ![p] = row]
<1>3. v = [w EXCEPT !.user = rows]  BY DEF WithUser
<1> HIDE DEF row
<1>4. /\ rows \in [PoolIds -> [Users -> StakeType]] /\ rows[p] = row
      /\ \A q \in PoolIds : q # p => rows[q] = w.user[q]
  BY <1>1, <1>2
<1> HIDE DEF rows
<1>5. /\ v \in WorldType /\ v.pool = w.pool /\ v.level = w.level /\ v.ok = w.ok
      /\ v.degis = w.degis /\ v.user = rows
  BY <1>3, <1>4 DEF WorldType
<1> QED  BY <1>2, <1>4, <1>5

\* The stake of u in pool p, and the total bonus with it, has been settled
\* anew; what was paid and what is recorded is at most what was pending.
Resettled(v, w, p, u) ==
    /\ v \in WorldType
    /\ \A q \in PoolIds :
          /\ v.pool[q].accDegisPerShare = w.pool[q].accDegisPerShare
          /\ v.pool[q].accDegisPerBonusShare = w.pool[q].accDegisPerBonusShare
          /\ v.pool[q].threshold = w.pool[q].threshold
          /\ v.pool[q].piecewise = w.pool[q].piecewise
          /\ q # p => v.pool[q].totalBonus = w.pool[q].totalBonus
    /\ \A q \in PoolIds, x \in Users : q # p \/ x # u => v.user[q][x] = w.user[q][x]
    /\ v.pool[p].totalBonus
         = w.pool[p].totalBonus + (v.user[p][u].bonus - w.user[p][u].bonus)
    /\ v.user[p][u].rewardDebt = Accrued(v, p, u) \div SCALE
    /\ (w.degis - v.degis) + v.user[p][u].extraClaimable <= Pending(w, p, u)

\* A covered stake has a claim, and it is due.
LEMMA PendingIsDue ==
  ASSUME NEW w, Sound(w), Covered(w), NEW p \in PoolIds, NEW u \in Users
  PROVE  /\ Pending(w, p, u) \in Nat
         /\ w.user[p][u].extraClaimable <= Pending(w, p, u)
         /\ SCALE * Pending(w, p, u) <= Due(w, p, u)
<1> DEFINE a == Accrued(w, p, u)  k == a \div SCALE
           e == w.user[p][u].extraClaimable  d == w.user[p][u].rewardDebt
<1>1. w \in WorldType  BY DEF Sound
<1>2. a \in Nat /\ e \in Nat /\ d \in Nat  BY <1>1, DueTypes, FieldTypes
<1>3. k \in Nat /\ SCALE * k \in Nat /\ SCALE * k <= a  BY <1>2, QuotientRest
<1>4. d <= k  BY DEF Covered, CoveredAt
<1>5. Pending(w, p, u) = k + e - d /\ Due(w, p, u) = a + SCALE * (e - d)
  BY DEF Pending, Due
<1> HIDE DEF a, k, e, d
<1>6. SCALE * (k + e - d) = SCALE * k + SCALE * (e - d) /\ SCALE * (e - d) \in Int
  BY <1>2, <1>3, UsersFinite
<1>7. SCALE * (k + e - d) <= a + SCALE * (e - d)  BY <1>2, <1>3, <1>6
<1>8. k + e - d \in Nat /\ e <= k + e - d  BY <1>2, <1>3, <1>4
<1> QED  BY <1>5, <1>7, <1>8 DEF e

\* After settling, less than a unit is due beyond what is recorded.
LEMMA SettledDue ==
  ASSUME NEW v \in WorldType, NEW p \in PoolIds, NEW u \in Users,
         v.user[p][u].rewardDebt = Accrued(v, p, u) \div SCALE
  PROVE  /\ CoveredAt(v, p, u)
         /\ Due(v, p, u) <= SCALE * v.user[p][u].extraClaimable + (SCALE - 1)
<1> DEFINE a == Accrued(v, p, u)  k == a \div SCALE  e == v.user[p][u].extraClaimable
<1>1. a \in Nat /\ e \in Nat  BY DueTypes, FieldTypes
<1>2. k \in Nat /\ SCALE * k \in Nat /\ a - SCALE * k <= SCALE - 1  BY <1>1, QuotientRest
<1>3. Due(v, p, u) = a + SCALE * (e - k)  BY DEF Due
<1>4. v.user[p][u].rewardDebt = k  OBVIOUS
<1> HIDE DEF a, k, e
<1>5. SCALE * (e - k) = SCALE * e - SCALE * k /\ SCALE * e \in Nat /\ SCALE \in Nat
  BY <1>1, <1>2, UsersFinite, ProductNat
<1>6. Due(v, p, u) <= SCALE * e + (SCALE - 1)  BY <1>1, <1>2, <1>3, <1>5
<1>7. CoveredAt(v, p, u)
  <2>1. k <= k  BY <1>2
  <2> QED  BY <1>4, <2>1 DEF CoveredAt, k, a
<1> QED  BY <1>6, <1>7 DEF e

\* Settling costs the others less than a unit and keeps the books.
LEMMA ResettledKeeps ==
  ASSUME NEW w, Sound(w), Covered(w), NEW p \in PoolIds, NEW u \in Users,
         NEW v, Resettled(v, w, p, u)
  PROVE  Sound(v) /\ Covered(v) /\ Free(v) >= Free(w) - (SCALE - 1)
<1> DEFINE s == w.user[p][u]  t == v.user[p][u]
<1>1. w \in WorldType /\ v \in WorldType  BY DEF Sound, Resettled
<1>2. s \in StakeType /\ t \in StakeType /\ w.degis \in Nat /\ v.degis \in Nat
      /\ t.extraClaimable \in Nat
  BY <1>1, FieldTypes
<1>3. \A q \in PoolIds, x \in Users : q # p \/ x # u =>
          /\ v.user[q][x] = w.user[q][x]
          /\ Accrued(v, q, x) = Accrued(w, q, x) /\ Due(v, q, x) = Due(w, q, x)
  <2>1. \A q \in PoolIds, x \in Users : q # p \/ x # u =>
            /\ v.user[q][x] = w.user[q][x]
            /\ Accrued(v, q, x) = Accrued(w, q, x)
    BY DEF Resettled, Accrued, Value
  <2> QED  BY <2>1 DEF Due
<1>4. CoveredAt(v, p, u) /\ Due(v, p, u) <= SCALE * t.extraClaimable + (SCALE - 1)
  BY <1>1, SettledDue DEF Resettled
<1>5. Covered(v)
  <2> SUFFICES ASSUME NEW q \in PoolIds, NEW x \in Users, q # p \/ x # u
               PROVE  CoveredAt(v, q, x)
    BY <1>4 DEF Covered
  <2>1. CoveredAt(w, q, x)  BY DEF Covered
  <2> QED  BY <1>3, <2>1 DEF CoveredAt
<1>6. Sound(v)
  <2> SUFFICES ASSUME NEW q \in PoolIds PROVE Booked(v, q)  BY <1>1 DEF Sound
  <2>1. Booked(w, q)  BY DEF Sound
  <2>2. Len(v.pool[q].threshold) = Len(v.pool[q].piecewise)
    BY <2>1 DEF Booked, Resettled
  <2>3. CASE q # p
    <3>1. Bonuses(v, q) = Bonuses(w, q)  BY <1>3, <2>3 DEF Bonuses
    <3> QED  BY <2>1, <2>2, <2>3, <3>1 DEF Booked, Resettled
  <2>4. CASE q = p
    <3> DEFINE f == Bonuses(w, p)  g == Bonuses(v, p)
    <3>1. \A x \in Users : f[x] \in Int /\ g[x] \in Int  BY <1>1, BonusesAre
    <3>2. f[u] = s.bonus /\ g[u] = t.bonus  BY <1>1, BonusesAre
    <3>3. \A x \in Users : x # u => g[x] = f[x]  BY <1>3 DEF Bonuses
    <3> HIDE DEF f, g
    <3>4. SumOver(g, Users) = SumOver(f, Users) + (g[u] - f[u])
      BY <3>1, <3>3, UsersFinite, SumChange
    <3>5. w.pool[p].totalBonus = SumOver(f, Users)  BY <2>1, <2>4 DEF Booked, f
    <3>6. v.pool[p].totalBonus = SumOver(g, Users)  BY <3>2, <3>4, <3>5 DEF Resettled
    <3> QED  BY <2>2, <2>4, <3>6 DEF Booked, g
  <2> QED  BY <2>3, <2>4
<1>7. Free(v) >= Free(w) - (SCALE - 1)
  <2> DEFINE S == PoolIds \X Users  f == DueTable(w)  g == DueTable(v)  z == <<p, u>>
             a == Due(w, p, u)  b == Due(v, p, u)
             e == t.extraClaimable  m == Pending(w, p, u)
             c == w.degis  d == v.degis
  <2>1. \A x \in S : f[x] \in Int /\ g[x] \in Int  BY <1>1, DueTypes
  <2>2. \A x \in S : x # z => g[x] = f[x]
    <3> SUFFICES ASSUME NEW x \in S, x # z PROVE g[x] = f[x]  OBVIOUS
    <3>1. x[1] \in PoolIds /\ x[2] \in Users /\ (x[1] # p \/ x[2] # u)  OBVIOUS
    <3>2. Due(v, x[1], x[2]) = Due(w, x[1], x[2])  BY <1>3, <3>1
    <3> QED  BY <3>2 DEF DueTable
  <2>3. z \in S /\ f[z] = a /\ g[z] = b  BY DEF DueTable
  <2>4. SumOver(g, S) = SumOver(f, S) + (b - a)
    <3>1. IsFiniteSet(S)  BY UsersFinite
    <3>2. z \in S /\ g[z] \in Int /\ \A x \in S : f[x] \in Int  BY <2>1, <2>3
    <3> HIDE DEF S, f, g, z
    <3>3. SumOver(g, S) = SumOver(f, S) + (g[z] - f[z])  BY <2>2, <3>1, <3>2, SumChange
    <3> HIDE DEF a, b
    <3> QED  BY <2>3, <3>3
  <2>5. /\ SumOver(f, S) \in Int /\ a \in Int /\ b \in Int /\ e \in Nat /\ m \in Nat
        /\ c \in Nat /\ d \in Nat
        /\ SCALE * m <= a /\ b <= SCALE * e + (SCALE - 1) /\ (c - d) + e <= m
    BY <1>1, <1>2, <1>4, DueTypes, PendingIsDue DEF Resettled
  <2>6. Free(w) = SCALE * c - SumOver(f, S) /\ Free(v) = SCALE * d - SumOver(g, S)
    BY DEF Free
  <2> DEFINE F == SumOver(f, S)
  <2>7. SCALE \in Nat  BY UsersFinite
  <2> HIDE DEF S, f, g, z, a, b, e, m, c, d, F
  <2>8. SCALE * (c + e) <= SCALE * (m + d)
    <3>1. c + e \in Nat /\ m + d \in Nat /\ c + e <= m + d  BY <2>5
    <3> QED  BY <2>7, <3>1, ProductMonotone
  <2>9. SCALE * (c + e) = SCALE * c + SCALE * e /\ SCALE * (m + d) = SCALE * m + SCALE * d
    BY <2>5, <2>7
  <2>10. SCALE * c \in Nat /\ SCALE * e \in Nat /\ SCALE * m \in Nat /\ SCALE * d \in Nat
    BY <2>5, <2>7, ProductNat
  <2>11. SCALE * d - (F + (b - a)) >= (SCALE * c - F) - (SCALE - 1)
    <3>1. F \in Int  BY <2>5 DEF F
    <3> QED  BY <2>5, <2>7, <2>8, <2>9, <2>10, <3>1
  <2> QED  BY <2>4, <2>6, <2>11 DEF F
<1> QED  BY <1>5, <1>6, <1>7

\* The world m is w after the claim of u in pool p has been paid, or not.
PaidFor(m, w, p, u) ==
    /\ m \in WorldType /\ m.pool = w.pool
    /\ \A q \in PoolIds, x \in Users : q # p \/ x # u => m.user[q][x] = w.user[q][x]
    /\ m.user[p][u].stakingBalance = w.user[p][u].stakingBalance
    /\ m.user[p][u].bonus = w.user[p][u].bonus
    /\ (w.degis - m.degis) + m.user[p][u].extraClaimable <= Pending(w, p, u)

LEMMA NotPaid ==
  ASSUME NEW w, Sound(w), Covered(w), NEW p \in PoolIds, NEW u \in Users
  PROVE  PaidFor(w, w, p, u)
<1>1. w \in WorldType /\ w.degis \in Nat /\ w.user[p][u].extraClaimable \in Nat
  BY FieldTypes DEF Sound
<1>2. w.user[p][u].extraClaimable <= Pending(w, p, u) /\ Pending(w, p, u) \in Nat
  BY PendingIsDue
<1>3. (w.degis - w.degis) + w.user[p][u].extraClaimable <= Pending(w, p, u)
  BY <1>1, <1>2
<1> QED  BY <1>1, <1>3 DEF PaidFor

LEMMA PaidOutPays ==
  ASSUME NEW w, Sound(w), Covered(w), NEW p \in PoolIds, NEW u \in Users
  PROVE  /\ PaidFor(PaidOut(w, p, u), w, p, u)
         /\ PaidOut(w, p, u).user[p][u].extraClaimable = 0
<1> DEFINE reward == Least(Pending(w, p, u), w.degis)
           s    == [w.user[p][u] EXCEPT !.extraClaimable = 0]
           a    == [w EXCEPT !.degis = w.degis - reward]
           b    == WithUser(a, p, u, s)
           cond == w.degis > 0 /\ Pending(w, p, u) >= 0
           v    == PaidOut(w, p, u)
<1>1. w \in WorldType /\ w.degis \in Nat /\ w.user[p][u] \in StakeType
  BY FieldTypes DEF Sound
<1>2. Pending(w, p, u) \in Nat  BY PendingIsDue
<1>3. reward \in Nat /\ reward <= Pending(w, p, u) /\ w.degis - reward \in Nat
  BY <1>1, <1>2 DEF Least
<1>4. v = Require(b, cond)  BY DEF PaidOut, WithUser
<1> HIDE DEF reward, cond
<1>5. s \in StakeType /\ s.extraClaimable = 0 /\ s.bonus = w.user[p][u].bonus
      /\ s.stakingBalance = w.user[p][u].stakingBalance
  BY <1>1 DEF StakeType
<1>6. a \in WorldType /\ a.pool = w.pool /\ a.user = w.user /\ a.degis = w.degis - reward
  BY <1>1, <1>3 DEF WorldType
<1> HIDE DEF a, s
<1>7. /\ b \in WorldType /\ b.pool = a.pool /\ b.degis = a.degis /\ b.user[p][u] = s
      /\ \A q \in PoolIds, x \in Users : q # p \/ x # u => b.user[q][x] = a.user[q][x]
  BY <1>5, <1>6, StakeReplaced
<1> HIDE DEF b, v
<1>8. v \in WorldType /\ v.pool = b.pool /\ v.user = b.user /\ v.degis = b.degis
  <2> DEFINE k == b.ok /\ cond
  <2>1. v = [b EXCEPT !.ok = k] /\ k \in BOOLEAN  BY <1>4, <1>7, FieldTypes DEF Require
  <2> HIDE DEF k
  <2> QED  BY <1>7, <2>1 DEF WorldType
<1>9. (w.degis - v.degis) + 0 <= Pending(w, p, u)
  <2>1. v.degis = w.degis - reward  BY <1>6, <1>7, <1>8
  <2> QED  BY <1>1, <1>2, <1>3, <2>1
<1>10. v.user[p][u] = s /\ v.pool = w.pool
       /\ \A q \in PoolIds, x \in Users : q # p \/ x # u => v.user[q][x] = w.user[q][x]
  BY <1>6, <1>7, <1>8
<1>11. PaidFor(v, w, p, u)  BY <1>5, <1>8, <1>9, <1>10 DEF PaidFor
<1> QED  BY <1>5, <1>10, <1>11 DEF v

\* Setting the debt anew.
LEMMA SettledIs ==
  ASSUME NEW w \in WorldType, NEW p \in PoolIds, NEW u \in Users
  PROVE  LET v == Settled(w, p, u)
         IN  /\ v \in WorldType /\ v.pool = w.pool /\ v.degis = w.degis
             /\ \A q \in PoolIds, x \in Users : q # p \/ x # u => v.user[q][x] = w.user[q][x]
             /\ v.user[p][u].stakingBalance = w.user[p][u].stakingBalance
             /\ v.user[p][u].bonus = w.user[p][u].bonus
             /\ v.user[p][u].extraClaimable = w.user[p][u].extraClaimable
             /\ v.user[p][u].rewardDebt = Accrued(v, p, u) \div SCALE
<1> DEFINE d == Accrued(w, p, u) \div SCALE
           s == [w.user[p][u] EXCEPT !.rewardDebt = d]
           v == Settled(w, p, u)
<1>1. d \in Nat /\ w.user[p][u] \in StakeType  BY DueTypes, QuotientRest, FieldTypes
<1>2. v = WithUser(w, p, u, s)  BY DEF Settled, WithUser
<1> HIDE DEF d
<1>3. /\ s \in StakeType /\ s.rewardDebt = d /\ s.bonus = w.user[p][u].bonus
      /\ s.stakingBalance = w.user[p][u].stakingBalance
      /\ s.extraClaimable = w.user[p][u].extraClaimable
  BY <1>1 DEF StakeType
<1> HIDE DEF s
<1>4. /\ v \in WorldType /\ v.pool = w.pool /\ v.degis = w.degis /\ v.user[p][u] = s
      /\ \A q \in PoolIds, x \in Users : q # p \/ x # u => v.user[q][x] = w.user[q][x]
  BY <1>2, <1>3, StakeReplaced
<1>5. Accrued(v, p, u) = Accrued(w, p, u)  BY <1>3, <1>4 DEF Accrued, Value
<1> QED  BY <1>3, <1>4, <1>5 DEF d

\* Changing a bonus and the total with it.
LEMMA WithBonusIs ==
  ASSUME NEW w \in WorldType, NEW p \in PoolIds, NEW u \in Users, NEW k \in Nat,
         w.user[p][u].bonus <= w.pool[p].totalBonus
  PROVE  LET v == WithBonus(w, p, u, k)
         IN  /\ v \in WorldType /\ v.degis = w.degis
             /\ \A q \in PoolIds :
                   /\ v.pool[q].accDegisPerShare = w.pool[q].accDegisPerShare
                   /\ v.pool[q].accDegisPerBonusShare = w.pool[q].accDegisPerBonusShare
                   /\ v.pool[q].threshold = w.pool[q].threshold
                   /\ v.pool[q].piecewise = w.pool[q].piecewise
                   /\ q # p => v.pool[q].totalBonus = w.pool[q].totalBonus
             /\ v.pool[p].totalBonus = w.pool[p].totalBonus + (k - w.user[p][u].bonus)
             /\ \A q \in PoolIds, x \in Users : q # p \/ x # u => v.user[q][x] = w.user[q][x]
             /\ v.user[p][u].stakingBalance = w.user[p][u].stakingBalance
             /\ v.user[p][u].bonus = k
             /\ v.user[p][u].extraClaimable = w.user[p][u].extraClaimable
<1> DEFINE t    == w.pool[p].totalBonus + k - w.user[p][u].bonus
           pool == [w.pool[p] EXCEPT !.totalBonus = t]
           a    == WithPool(w, p, pool)
           s    == [a.user[p][u] EXCEPT !.bonus = k]
           v    == WithBonus(w, p, u, k)
<1>1. /\ w.pool[p] \in PoolType /\ w.pool[p].totalBonus \in Nat
      /\ w.user[p][u].bonus \in Nat /\ w.user[p][u] \in StakeType
  BY FieldTypes
<1>2. t \in Nat /\ t = w.pool[p].totalBonus + (k - w.user[p][u].bonus)  BY <1>1
<1>3. v = WithUser(a, p, u, s)  BY DEF WithBonus, WithUser, WithPool
<1> HIDE DEF t
<1>4. /\ pool \in PoolType /\ pool.totalBonus = t
      /\ pool.accDegisPerShare = w.pool[p].accDegisPerShare
      /\ pool.accDegisPerBonusShare = w.pool[p].accDegisPerBonusShare
      /\ pool.threshold = w.pool[p].threshold /\ pool.piecewise = w.pool[p].piecewise
  BY <1>1, <1>2 DEF PoolType
<1> HIDE DEF pool
<1>5. /\ a \in WorldType /\ a.user = w.user /\ a.degis = w.degis /\ a.pool[p] = pool
      /\ \A q \in PoolIds : q # p => a.pool[q] = w.pool[q]
  BY <1>4, PoolReplaced
<1> HIDE DEF a
<1>6. /\ s \in StakeType /\ s.bonus = k
      /\ s.stakingBalance = w.user[p][u].stakingBalance
      /\ s.extraClaimable = w.user[p][u].extraClaimable
  BY <1>1, <1>5 DEF StakeType
<1> HIDE DEF s
<1>7. /\ v \in WorldType /\ v.pool = a.pool /\ v.degis = a.degis /\ v.user[p][u] = s
      /\ \A q \in PoolIds, x \in Users : q # p \/ x # u => v.user[q][x] = a.user[q][x]
  BY <1>3, <1>5, <1>6, StakeReplaced
<1> QED  BY <1>2, <1>4, <1>5, <1>6, <1>7

LEMMA BonusInTotal ==
  ASSUME NEW w, Sound(w), NEW p \in PoolIds, NEW u \in Users
  PROVE  w.user[p][u].bonus <= w.pool[p].totalBonus
<1>1. w \in WorldType /\ Booked(w, p)  BY DEF Sound
<1> QED  BY <1>1, BonusesAre DEF Booked

\* The bonus of a stake of this balance, for a user with that much veDEG.
BonusFor(old, balance, ve) == IF veDEG THEN Root(balance * ve) ELSE old

\* A stake that is changed after its claim was paid is settled anew.
LEMMA WithStakeResettles ==
  ASSUME NEW w, Sound(w), Covered(w), NEW p \in PoolIds, NEW u \in Users,
         NEW m, PaidFor(m, w, p, u), NEW balance \in Nat, veBalance[u] \in Nat
  PROVE  LET v == WithStake(m, p, u, balance)
         IN  /\ Resettled(v, w, p, u)
             /\ v.user[p][u].stakingBalance = balance
             /\ v.user[p][u].bonus = BonusFor(w.user[p][u].bonus, balance, veBalance[u])
<1> DEFINE s      == [m.user[p][u] EXCEPT !.stakingBalance = balance]
           staked == WithUser(m, p, u, s)
           k      == Root(balance * veBalance[u])
           b      == IF veDEG THEN WithBonus(staked, p, u, k) ELSE staked
           v      == WithStake(m, p, u, balance)
<1>1. v = Settled(b, p, u)  BY DEF WithStake, WithUser
<1>2. m \in WorldType /\ m.user[p][u] \in StakeType  BY FieldTypes DEF PaidFor
<1>3. /\ s \in StakeType /\ s.stakingBalance = balance
      /\ s.bonus = w.user[p][u].bonus
      /\ s.extraClaimable = m.user[p][u].extraClaimable
  BY <1>2 DEF StakeType, PaidFor
<1>4. k \in Nat
  <2>1. balance * veBalance[u] \in Nat  BY ProductNat
  <2> QED  BY <2>1, RootNat
<1> HIDE DEF s, k
<1>5. /\ staked \in WorldType /\ staked.pool = m.pool /\ staked.degis = m.degis
      /\ staked.user[p][u] = s
      /\ \A q \in PoolIds, x \in Users : q # p \/ x # u =>
             staked.user[q][x] = m.user[q][x]
  BY <1>2, <1>3, StakeReplaced
<1> HIDE DEF staked
<1>6. /\ b \in WorldType /\ b.degis = m.degis
      /\ \A q \in PoolIds :
            /\ b.pool[q].accDegisPerShare = w.pool[q].accDegisPerShare
            /\ b.pool[q].accDegisPerBonusShare = w.pool[q].accDegisPerBonusShare
            /\ b.pool[q].threshold = w.pool[q].threshold
            /\ b.pool[q].piecewise = w.pool[q].piecewise
            /\ q # p => b.pool[q].totalBonus = w.pool[q].totalBonus
      /\ b.pool[p].totalBonus
           = w.pool[p].totalBonus + (b.user[p][u].bonus - w.user[p][u].bonus)
      /\ \A q \in PoolIds, x \in Users : q # p \/ x # u => b.user[q][x] = w.user[q][x]
      /\ b.user[p][u].stakingBalance = balance
      /\ b.user[p][u].bonus = BonusFor(w.user[p][u].bonus, balance, veBalance[u])
      /\ b.user[p][u].extraClaimable = m.user[p][u].extraClaimable
  <2>1. /\ staked.pool = w.pool
        /\ \A q \in PoolIds, x \in Users : q # p \/ x # u =>
               staked.user[q][x] = w.user[q][x]
    BY <1>5 DEF PaidFor
  <2>2. CASE ~ veDEG
    <3>1. b = staked  BY <2>2
    <3>2. w.pool[p].totalBonus
            = w.pool[p].totalBonus + (w.user[p][u].bonus - w.user[p][u].bonus)
      BY FieldTypes DEF Sound
    <3> HIDE DEF b
    <3> QED  BY <1>3, <1>5, <2>1, <2>2, <3>1, <3>2 DEF BonusFor
  <2>3. CASE veDEG
    <3>1. b = WithBonus(staked, p, u, k)  BY <2>3
    <3>2. staked.user[p][u].bonus <= staked.pool[p].totalBonus
      BY <1>3, <1>5, <2>1, BonusInTotal
    <3> HIDE DEF b
    <3>3. /\ b \in WorldType /\ b.degis = staked.degis
          /\ \A q \in PoolIds :
                /\ b.pool[q].accDegisPerShare = staked.pool[q].accDegisPerShare
                /\ b.pool[q].accDegisPerBonusShare = staked.pool[q].accDegisPerBonusShare
                /\ b.pool[q].threshold = staked.pool[q].threshold
                /\ b.pool[q].piecewise = staked.pool[q].piecewise
                /\ q # p => b.pool[q].totalBonus = staked.pool[q].totalBonus
          /\ b.pool[p].totalBonus
               = staked.pool[p].totalBonus + (k - staked.user[p][u].bonus)
          /\ \A q \in PoolIds, x \in Users : q # p \/ x # u =>
                b.user[q][x] = staked.user[q][x]
          /\ b.user[p][u].stakingBalance = staked.user[p][u].stakingBalance
          /\ b.user[p][u].bonus = k
          /\ b.user[p][u].extraClaimable = staked.user[p][u].extraClaimable
      <4>1. staked \in WorldType /\ k \in Nat  BY <1>4, <1>5
      <4> QED  BY <3>1, <3>2, <4>1, WithBonusIs
    <3> QED  BY <1>3, <1>5, <2>1, <2>3, <3>3 DEF BonusFor, k
  <2> QED  BY <2>2, <2>3
<1> HIDE DEF b, v
<1>7. /\ v \in WorldType /\ v.pool = b.pool /\ v.degis = b.degis
      /\ \A q \in PoolIds, x \in Users : q # p \/ x # u => v.user[q][x] = b.user[q][x]
      /\ v.user[p][u].stakingBalance = b.user[p][u].stakingBalance
      /\ v.user[p][u].bonus = b.user[p][u].bonus
      /\ v.user[p][u].extraClaimable = b.user[p][u].extraClaimable
      /\ v.user[p][u].rewardDebt = Accrued(v, p, u) \div SCALE
  <2>1. b \in WorldType  BY <1>6
  <2> QED  BY <1>1, <2>1, SettledIs
<1>8. (w.degis - v.degis) + v.user[p][u].extraClaimable <= Pending(w, p, u)
  BY <1>6, <1>7 DEF PaidFor
<1>9. Resettled(v, w, p, u)  BY <1>6, <1>7, <1>8 DEF Resettled
<1> QED  BY <1>6, <1>7, <1>9 DEF v

\* A harvest settles the stake without changing it.
LEMMA HarvestResettles ==
  ASSUME NEW w, Sound(w), Covered(w), NEW p \in PoolIds, NEW u \in Users,
         NEW m, PaidFor(m, w, p, u)
  PROVE  LET v == Settled(m, p, u)
         IN  /\ Resettled(v, w, p, u)
             /\ v.user[p][u].stakingBalance = w.user[p][u].stakingBalance
             /\ v.user[p][u].bonus = w.user[p][u].bonus
             /\ v.user[p][u].extraClaimable = m.user[p][u].extraClaimable
<1> DEFINE v == Settled(m, p, u)
<1>1. m \in WorldType  BY DEF PaidFor
<1>2. /\ v \in WorldType /\ v.pool = m.pool /\ v.degis = m.degis
      /\ \A q \in PoolIds, x \in Users : q # p \/ x # u => v.user[q][x] = m.user[q][x]
      /\ v.user[p][u].stakingBalance = m.user[p][u].stakingBalance
      /\ v.user[p][u].bonus = m.user[p][u].bonus
      /\ v.user[p][u].extraClaimable = m.user[p][u].extraClaimable
      /\ v.user[p][u].rewardDebt = Accrued(v, p, u) \div SCALE
  BY <1>1, SettledIs
<1>3. w.pool[p].totalBonus
        = w.pool[p].totalBonus + (w.user[p][u].bonus - w.user[p][u].bonus)
  BY FieldTypes DEF Sound
<1> HIDE DEF v
<1>4. Resettled(v, w, p, u)  BY <1>2, <1>3 DEF Resettled, PaidFor
<1> QED  BY <1>2, <1>4 DEF PaidFor, v

\* One pool in the loop of updateBonus: the claim is recorded, not paid.
LEMMA RebonusedResettles ==
  ASSUME NEW w, Sound(w), Covered(w), NEW p \in PoolIds, NEW u \in Users,
         NEW balance \in Nat, now \in Nat
  PROVE  LET v == Rebonused(w, p, u, balance)
             m == Updated(w, p)
         IN  /\ Resettled(v, m, p, u) /\ v.degis = m.degis
             /\ v.user[p][u].stakingBalance = w.user[p][u].stakingBalance
             /\ v.user[p][u].bonus = Root(balance * w.user[p][u].stakingBalance)
<1> DEFINE m    == Updated(w, p)
           pend == Accrued(m, p, u) \div SCALE - m.user[p][u].rewardDebt
           k    == Root(balance * w.user[p][u].stakingBalance)
           e    == m.user[p][u].extraClaimable + pend
           s    == [m.user[p][u] EXCEPT !.extraClaimable = e]
           c    == WithUser(m, p, u, s)
           b    == WithBonus(c, p, u, k)
           t    == Settled(b, p, u)
           v    == Rebonused(w, p, u, balance)
<1>1. v = Require(t, pend >= 0)  BY DEF Rebonused, WithUser
<1>2. Better(m, w)  BY UpdatedBetter
<1> HIDE DEF m
<1>3. Sound(m) /\ Covered(m) /\ m \in WorldType /\ m.user = w.user  BY <1>2 DEF Better, Sound
<1>4. /\ m.user[p][u] \in StakeType /\ w.user[p][u].stakingBalance \in Nat
      /\ m.user[p][u].extraClaimable \in Nat /\ m.user[p][u].rewardDebt \in Nat
      /\ m.degis \in Nat
  BY <1>3, FieldTypes
<1>5. k \in Nat
  <2>1. balance * w.user[p][u].stakingBalance \in Nat  BY <1>4, ProductNat
  <2> QED  BY <2>1, RootNat
<1>6. e = Pending(m, p, u) /\ e \in Nat
  <2>1. Pending(m, p, u) \in Nat  BY <1>3, PendingIsDue
  <2>2. Accrued(m, p, u) \div SCALE \in Nat  BY <1>3, DueTypes, QuotientRest
  <2>3. e = Pending(m, p, u)  BY <1>4, <2>2 DEF Pending
  <2> QED  BY <2>1, <2>3
<1> HIDE DEF e, k
<1>7. /\ s \in StakeType /\ s.extraClaimable = e /\ s.bonus = m.user[p][u].bonus
      /\ s.stakingBalance = m.user[p][u].stakingBalance
  BY <1>4, <1>6 DEF StakeType
<1> HIDE DEF s
<1>8. /\ c \in WorldType /\ c.pool = m.pool /\ c.degis = m.degis
      /\ c.user[p][u] = s
      /\ \A q \in PoolIds, x \in Users : q # p \/ x # u => c.user[q][x] = m.user[q][x]
  BY <1>3, <1>7, StakeReplaced
<1> HIDE DEF c
<1>9. c.user[p][u].bonus <= c.pool[p].totalBonus  BY <1>3, <1>7, <1>8, BonusInTotal
<1>10. /\ b \in WorldType /\ b.degis = c.degis
       /\ \A q \in PoolIds :
             /\ b.pool[q].accDegisPerShare = c.pool[q].accDegisPerShare
             /\ b.pool[q].accDegisPerBonusShare = c.pool[q].accDegisPerBonusShare
             /\ b.pool[q].threshold = c.pool[q].threshold
             /\ b.pool[q].piecewise = c.pool[q].piecewise
             /\ q # p => b.pool[q].totalBonus = c.pool[q].totalBonus
       /\ b.pool[p].totalBonus = c.pool[p].totalBonus + (k - c.user[p][u].bonus)
       /\ \A q \in PoolIds, x \in Users : q # p \/ x # u => b.user[q][x] = c.user[q][x]
       /\ b.user[p][u].stakingBalance = c.user[p][u].stakingBalance
       /\ b.user[p][u].bonus = k
       /\ b.user[p][u].extraClaimable = c.user[p][u].extraClaimable
  BY <1>5, <1>8, <1>9, WithBonusIs
<1> HIDE DEF b
<1>11. /\ t \in WorldType /\ t.pool = b.pool /\ t.degis = b.degis
       /\ \A q \in PoolIds, x \in Users : q # p \/ x # u => t.user[q][x] = b.user[q][x]
       /\ t.user[p][u].stakingBalance = b.user[p][u].stakingBalance
       /\ t.user[p][u].bonus = b.user[p][u].bonus
       /\ t.user[p][u].extraClaimable = b.user[p][u].extraClaimable
       /\ t.user[p][u].rewardDebt = Accrued(t, p, u) \div SCALE
  BY <1>10, SettledIs
<1> HIDE DEF t, v, pend
<1>12. v \in WorldType /\ v.pool = t.pool /\ v.user = t.user /\ v.degis = t.degis
  <2> DEFINE o == t.ok /\ pend >= 0
  <2>1. v = [t EXCEPT !.ok = o] /\ o \in BOOLEAN  BY <1>1, <1>11, FieldTypes DEF Require
  <2> HIDE DEF o
  <2> QED  BY <1>11, <2>1 DEF WorldType
<1>13. v.user[p][u].rewardDebt = Accrued(v, p, u) \div SCALE
  BY <1>11, <1>12 DEF Accrued
<1>14. (m.degis - v.degis) + v.user[p][u].extraClaimable <= Pending(m, p, u)
  BY <1>4, <1>6, <1>7, <1>8, <1>10, <1>11, <1>12
<1>15. Resettled(v, m, p, u)
  BY <1>7, <1>8, <1>10, <1>11, <1>12, <1>13, <1>14 DEF Resettled
<1> QED  BY <1>3, <1>7, <1>8, <1>10, <1>11, <1>12, <1>15 DEF v, m, k

(***************************************************************************)
(* What a call costs                                                       *)
(***************************************************************************)
\* The stakes that differ, and what settling them may cost the others.
Changed(v, w) == {x \in PoolIds \X Users : v.user[x[1]][x[2]] # w.user[x[1]][x[2]]}
Kept(v, w) == Free(v) >= Free(w) - (SCALE - 1) * Cardinality(Changed(v, w))

LEMMA ChangedFinite ==
  ASSUME NEW v, NEW w
  PROVE  IsFiniteSet(Changed(v, w)) /\ Cardinality(Changed(v, w)) \in Nat
<1>1. Changed(v, w) \subseteq PoolIds \X Users  BY DEF Changed
<1> QED  BY <1>1, UsersFinite, FS_Subset, FS_CardinalityType

\* Where no stake has changed nothing is lost.
LEMMA BetterKept ==
  ASSUME NEW v, NEW w \in WorldType, Better(v, w)
  PROVE  Kept(v, w)
<1>1. Changed(v, w) = {}  BY DEF Changed, Better
<1>2. Cardinality(Changed(v, w)) = 0  BY <1>1, FS_EmptySet
<1>3. (SCALE - 1) * 0 = 0  BY UsersFinite
<1>4. Free(w) \in Int  BY DueTypes
<1> QED  BY <1>2, <1>3, <1>4 DEF Kept, Better

\* A stake that has not been settled yet is settled: less than one unit more.
LEMMA ResettledCosts ==
  ASSUME NEW base \in WorldType, NEW w, Sound(w), Covered(w), Kept(w, base),
         NEW p \in PoolIds, NEW u \in Users, w.user[p][u] = base.user[p][u],
         NEW m, Better(m, w), NEW v, Resettled(v, m, p, u),
         v.user[p][u] # w.user[p][u] \/ v.degis = m.degis
  PROVE  /\ Sound(v) /\ Covered(v) /\ Kept(v, base)
         /\ \A q \in PoolIds, x \in Users : q # p \/ x # u => v.user[q][x] = w.user[q][x]
<1>1. Sound(m) /\ Covered(m) /\ m.user = w.user /\ Free(m) >= Free(w)  BY DEF Better
<1>2. Sound(v) /\ Covered(v) /\ Free(v) >= Free(m) - (SCALE - 1)
  BY <1>1, ResettledKeeps
<1>3. \A q \in PoolIds, x \in Users : q # p \/ x # u => v.user[q][x] = w.user[q][x]
  BY <1>1 DEF Resettled
<1>4. /\ w \in WorldType /\ m \in WorldType /\ v \in WorldType
      /\ Free(v) \in Int /\ Free(w) \in Int /\ Free(m) \in Int /\ Free(base) \in Int
      /\ SCALE - 1 \in Nat
  BY <1>1, <1>2, DueTypes, UsersFinite DEF Sound
<1> DEFINE C == Changed(w, base)  D == Changed(v, base)  z == <<p, u>>
<1>5. z \notin C  BY DEF Changed
<1>6. IsFiniteSet(C) /\ Cardinality(C) \in Nat  BY ChangedFinite
<1>7. CASE v.user[p][u] = w.user[p][u]
  <2>1. v.degis = m.degis  BY <1>7
  <2>2. v.user = m.user
    <3>1. v.user \in [PoolIds -> [Users -> StakeType]]
          /\ m.user \in [PoolIds -> [Users -> StakeType]]
      BY <1>4, FieldTypes
    <3>2. \A q \in PoolIds, x \in Users : v.user[q][x] = m.user[q][x]
      BY <1>1, <1>3, <1>7
    <3>3. \A q \in PoolIds : v.user[q] = m.user[q]
      <4> SUFFICES ASSUME NEW q \in PoolIds PROVE v.user[q] = m.user[q]  OBVIOUS
      <4>1. v.user[q] \in [Users -> StakeType] /\ m.user[q] \in [Users -> StakeType]
        BY <3>1
      <4> QED  BY <3>2, <4>1
    <3> QED  BY <3>1, <3>3
  <2>3. \A q \in PoolIds :
            /\ v.pool[q].accDegisPerShare = m.pool[q].accDegisPerShare
            /\ v.pool[q].accDegisPerBonusShare = m.pool[q].accDegisPerBonusShare
    BY DEF Resettled
  <2>4. Free(v) = Free(m)  BY <1>4, <2>1, <2>2, <2>3, SameDues
  <2>5. D = C  BY <1>1, <2>2 DEF Changed
  <2>6. Free(v) >= Free(w)  BY <1>1, <2>4
  <2> HIDE DEF C, D
  <2>7. (SCALE - 1) * Cardinality(C) \in Nat  BY <1>4, <1>6, ProductNat
  <2>8. Free(w) >= Free(base) - (SCALE - 1) * Cardinality(C)  BY DEF Kept, C
  <2>9. Free(v) >= Free(base) - (SCALE - 1) * Cardinality(D)
    BY <1>4, <2>5, <2>6, <2>7, <2>8
  <2> QED  BY <1>2, <1>3, <2>9 DEF Kept, D
<1>8. CASE v.user[p][u] # w.user[p][u]
  <2>1. D = C \cup {z}
    <3>1. \A x \in PoolIds \X Users : x # z => (x[1] # p \/ x[2] # u)  OBVIOUS
    <3>2. \A x \in PoolIds \X Users : x # z => v.user[x[1]][x[2]] = w.user[x[1]][x[2]]
      BY <1>3, <3>1
    <3>3. z \in PoolIds \X Users /\ z[1] = p /\ z[2] = u  OBVIOUS
    <3>4. z \in D  BY <1>8, <3>3 DEF Changed
    <3>5. \A x \in PoolIds \X Users : x # z => (x \in D <=> x \in C)
      BY <3>2 DEF Changed
    <3>6. D \subseteq PoolIds \X Users /\ C \subseteq PoolIds \X Users  BY DEF Changed
    <3> HIDE DEF C, D, z
    <3> QED  BY <3>3, <3>4, <3>5, <3>6
  <2> HIDE DEF C, D, z
  <2>2. Cardinality(D) = Cardinality(C) + 1  BY <1>5, <1>6, <2>1, FS_AddElement
  <2> DEFINE n == Cardinality(C)  k == SCALE - 1
  <2>3. k * (n + 1) = k * n + k /\ k * n \in Nat
    <3> HIDE DEF k, n
    <3> QED  BY <1>4, <1>6, ProductNat DEF k, n
  <2>4. Free(w) >= Free(base) - k * n  BY DEF Kept, C
  <2>5. Free(v) >= Free(base) - k * (n + 1)
    <3> HIDE DEF k, n
    <3>1. k \in Nat  BY <1>4 DEF k
    <3>2. Free(v) >= Free(m) - k  BY <1>2 DEF k
    <3> QED  BY <1>1, <1>4, <2>3, <2>4, <3>1, <3>2
  <2>6. Kept(v, base)  BY <2>2, <2>5 DEF Kept, D
  <2> QED  BY <1>2, <1>3, <2>6
<1> QED  BY <1>7, <1>8

(***************************************************************************)
(* The loop of updateBonus                                                 *)
(***************************************************************************)
Affected(p, u) == isFarming[p] /\ Staked(p, u)

BonusLoop(g, u, balance) ==
    g = [p \in 0 .. Lps |->
            IF p = 0 THEN World
            ELSE IF isFarming[p] /\ Staked(p, u) THEN Rebonused(g[p - 1], p, u, balance)
            ELSE g[p - 1]]

LEMMA RebonusedGood ==
  ASSUME NEW w, Sound(w), Covered(w), NEW p \in PoolIds, NEW u \in Users,
         NEW balance \in Nat, now \in Nat
  PROVE  Sound(Rebonused(w, p, u, balance)) /\ Covered(Rebonused(w, p, u, balance))
<1> DEFINE v == Rebonused(w, p, u, balance)  m == Updated(w, p)
<1>1. Better(m, w)  BY UpdatedBetter
<1>2. Resettled(v, m, p, u)  BY RebonusedResettles
<1> HIDE DEF v, m
<1>3. Sound(v) /\ Covered(v)  BY <1>1, <1>2, ResettledKeeps DEF Better
<1> QED  BY <1>3 DEF v

LEMMA BonusLoopRuns ==
  ASSUME StorageOK, NEW u \in Users, NEW balance \in Nat
  PROVE  \E g : BonusLoop(g, u, balance)
<1> DEFINE W == GoodWorlds
           step == [x \in W \X (1 .. Lps) |->
                       IF Affected(x[2], u) THEN Rebonused(x[1], x[2], u, balance) ELSE x[1]]
<1>1. World \in W /\ Lps \in Nat /\ now \in Nat
  BY UsersFinite DEF StorageOK, Sound, GoodWorlds
<1>2. ASSUME NEW w \in W, NEW p \in 1 .. Lps PROVE Rebonused(w, p, u, balance) \in W
  <2>1. Sound(Rebonused(w, p, u, balance)) /\ Covered(Rebonused(w, p, u, balance))
    BY <1>1, RebonusedGood DEF GoodWorlds, PoolIds
  <2> QED  BY <2>1 DEF Sound, GoodWorlds
<1>3. step \in [W \X (1 .. Lps) -> W]
  <2> HIDE DEF W
  <2> QED  BY <1>2
<1>4. \A w \in W, p \in 1 .. Lps :
          step[<<w, p>>] = IF Affected(p, u) THEN Rebonused(w, p, u, balance) ELSE w
  OBVIOUS
<1> HIDE DEF step, W
<1>5. PICK g \in [0 .. Lps -> W] :
          g[0] = World /\ \A p \in 1 .. Lps : g[p] = step[<<g[p - 1], p>>]
  <2>1. PICK base \in W : base = World  BY <1>1
  <2>2. PICK n \in Nat : n = Lps  BY <1>1
  <2>3. step \in [W \X (1 .. n) -> W]  BY <1>3, <2>2
  <2>4. Traces(W, base, n, step) # {}  BY <2>3, LoopRuns, Zenon
  <2>5. PICK g \in [0 .. n -> W] :
            g[0] = base /\ \A p \in 1 .. n : g[p] = step[<<g[p - 1], p>>]
    BY <2>4 DEF Traces
  <2> QED  BY <2>1, <2>2, <2>5
<1>6. ASSUME NEW p \in 0 .. Lps
      PROVE  g[p] = IF p = 0 THEN World
                    ELSE IF Affected(p, u) THEN Rebonused(g[p - 1], p, u, balance)
                    ELSE g[p - 1]
  <2>1. CASE p = 0  BY <1>5, <2>1
  <2>2. CASE p # 0
    <3>1. p \in 1 .. Lps /\ g[p - 1] \in W  BY <1>1, <1>5, <2>2
    <3>2. g[p] = IF Affected(p, u) THEN Rebonused(g[p - 1], p, u, balance) ELSE g[p - 1]
      BY <1>4, <1>5, <3>1
    <3> QED  BY <2>2, <3>2
  <2> QED  BY <2>1, <2>2
<1>7. BonusLoop(g, u, balance)  BY <1>6 DEF BonusLoop, Affected
<1> QED  BY <1>7

\* What the loop has done when it has passed the first k pools.
Rebonus(w, k, u, balance) ==
    /\ Sound(w) /\ Covered(w) /\ Kept(w, World)
    /\ \A q \in PoolIds, x \in Users :
          x # u \/ q > k \/ ~ Affected(q, u) => w.user[q][x] = userInfo[q][x]
    /\ \A q \in PoolIds : q <= k /\ Affected(q, u) =>
          /\ w.user[q][u].stakingBalance = userInfo[q][u].stakingBalance
          /\ w.user[q][u].bonus = Root(balance * userInfo[q][u].stakingBalance)

LEMMA RebonusStep ==
  ASSUME StorageOK, NEW u \in Users, NEW balance \in Nat, NEW k \in Nat,
         NEW p \in PoolIds, p = k + 1, NEW w, Rebonus(w, k, u, balance)
  PROVE  /\ Affected(p, u) => Rebonus(Rebonused(w, p, u, balance), p, u, balance)
         /\ ~ Affected(p, u) => Rebonus(w, p, u, balance)
<1>1. \A q \in PoolIds : q \in Int /\ (q > k <=> (q > p \/ q = p)) /\ (q <= p <=> (q <= k \/ q = p))
  BY DEF PoolIds
<1>2. CASE ~ Affected(p, u)
  <2>1. Rebonus(w, p, u, balance)  BY <1>1, <1>2 DEF Rebonus
  <2> QED  BY <1>2, <2>1
<1>3. CASE Affected(p, u)
  <2>v. PICK v : v = Rebonused(w, p, u, balance)  OBVIOUS
  <2>m. PICK m : m = Updated(w, p)  OBVIOUS
  <2>1. now \in Nat /\ World \in WorldType  BY DEF StorageOK, Sound
  <2>2. Sound(w) /\ Covered(w) /\ Kept(w, World)  BY DEF Rebonus
  <2>3. World.user = userInfo  BY DEF World
  <2>4. p > k  BY <1>1
  <2>5. w.user[p][u] = World.user[p][u]  BY <2>3, <2>4 DEF Rebonus
  <2>6. Better(m, w)  BY <2>1, <2>2, <2>m, UpdatedBetter
  <2>7. /\ Resettled(v, m, p, u) /\ v.degis = m.degis
        /\ v.user[p][u].stakingBalance = w.user[p][u].stakingBalance
        /\ v.user[p][u].bonus = Root(balance * w.user[p][u].stakingBalance)
    BY <2>1, <2>2, <2>v, <2>m, RebonusedResettles
  <2>8. /\ Sound(v) /\ Covered(v) /\ Kept(v, World)
        /\ \A q \in PoolIds, x \in Users : q # p \/ x # u => v.user[q][x] = w.user[q][x]
    <3>1. v.user[p][u] # w.user[p][u] \/ v.degis = m.degis  BY <2>7
    <3>2. Resettled(v, m, p, u)  BY <2>7
    <3>3. PICK base \in WorldType : base = World  BY <2>1
    <3>4. Kept(w, base) /\ w.user[p][u] = base.user[p][u]  BY <2>2, <2>5, <3>3
    <3>5. /\ Sound(v) /\ Covered(v) /\ Kept(v, base)
          /\ \A q \in PoolIds, x \in Users :
                q # p \/ x # u => v.user[q][x] = w.user[q][x]
      <4>1. Sound(w) /\ Covered(w)  BY <2>2
      <4> QED  BY <2>6, <3>1, <3>2, <3>4, <4>1, ResettledCosts
    <3> QED  BY <3>3, <3>5
  <2>9. \A q \in PoolIds, x \in Users :
            x # u \/ q > p \/ ~ Affected(q, u) => v.user[q][x] = userInfo[q][x]
    BY <1>1, <1>3, <2>8 DEF Rebonus
  <2>10. \A q \in PoolIds : q <= p /\ Affected(q, u) =>
            /\ v.user[q][u].stakingBalance = userInfo[q][u].stakingBalance
            /\ v.user[q][u].bonus = Root(balance * userInfo[q][u].stakingBalance)
    BY <1>1, <2>3, <2>5, <2>7, <2>8 DEF Rebonus
  <2>11. Rebonus(v, p, u, balance)  BY <2>8, <2>9, <2>10 DEF Rebonus
  <2> QED  BY <1>3, <2>v, <2>11
<1> QED  BY <1>2, <1>3

LEMMA AllRebonusedDone ==
  ASSUME StorageOK, NEW u \in Users, NEW balance \in Nat
  PROVE  Rebonus(AllRebonused(u, balance), Lps, u, balance)
<1> DEFINE after == CHOOSE g : BonusLoop(g, u, balance)
<1>1. AllRebonused(u, balance) = after[Lps]  BY DEF AllRebonused, BonusLoop
<1>2. BonusLoop(after, u, balance)  BY BonusLoopRuns
<1> HIDE DEF after
<1> DEFINE G == {k \in Nat : k <= Lps => Rebonus(after[k], k, u, balance)}
<1>3. Lps \in Nat /\ Sound(World) /\ Covered(World) /\ World \in WorldType
  BY UsersFinite DEF StorageOK, Sound
<1>4. 0 \in G
  <2>1. after[0] = World  BY <1>2, <1>3 DEF BonusLoop
  <2>2. Kept(World, World)  BY <1>3, BetterSelf, BetterKept
  <2>3. \A q \in PoolIds : ~ q <= 0  BY DEF PoolIds
  <2>4. World.user = userInfo  BY DEF World
  <2>5. Rebonus(World, 0, u, balance)  BY <1>3, <2>2, <2>3, <2>4 DEF Rebonus
  <2> QED  BY <2>1, <2>5
<1>5. ASSUME NEW k \in Nat, k \in G PROVE k + 1 \in G
  <2> SUFFICES ASSUME k + 1 <= Lps PROVE Rebonus(after[k + 1], k + 1, u, balance)  OBVIOUS
  <2>1. k + 1 \in PoolIds /\ k + 1 \in 0 .. Lps /\ k + 1 # 0 /\ k <= Lps /\ (k + 1) - 1 = k
    BY <1>3 DEF PoolIds
  <2>2. after[k + 1] = IF Affected(k + 1, u) THEN Rebonused(after[k], k + 1, u, balance)
                       ELSE after[k]
    BY <1>2, <2>1 DEF BonusLoop, Affected
  <2>3. Rebonus(after[k], k, u, balance)  BY <1>5, <2>1
  <2>4. PICK p \in PoolIds : p = k + 1  BY <2>1
  <2>5. /\ Affected(p, u) => Rebonus(Rebonused(after[k], p, u, balance), p, u, balance)
        /\ ~ Affected(p, u) => Rebonus(after[k], p, u, balance)
    BY <2>3, <2>4, RebonusStep
  <2> QED  BY <2>2, <2>4, <2>5
<1>6. Lps \in G
  <2> HIDE DEF G
  <2> QED  BY <1>3, <1>4, <1>5, NumberInduction
<1>7. Rebonus(after[Lps], Lps, u, balance)  BY <1>3, <1>6
<1> QED  BY <1>1, <1>7

(***************************************************************************)
(* Between two calls                                                       *)
(***************************************************************************)
\* What is committed is the storage of the next state.
LEMMA CommitIs ==
  ASSUME NEW w \in WorldType, Commit(w)
  PROVE  /\ World' = w /\ w.user = userInfo' /\ w.pool = poolList'
         /\ w.degis = degis' /\ w.level = currentRewardLevel'
         /\ Sound(w) => Sound(World)'
         /\ Covered(w) => Covered(World)'
         /\ Free(World)' = Free(w)
<1>1. World' = w
  <2>1. w = [pool |-> w.pool, user |-> w.user, level |-> w.level, degis |-> w.degis, ok |-> w.ok]
    BY DEF WorldType
  <2>2. w.ok = TRUE  BY FieldTypes DEF Commit
  <2> QED  BY <2>1, <2>2 DEF Commit, World
<1>2. Sound(World)' = Sound(World')  OBVIOUS
<1>3. Covered(World)' = Covered(World')  OBVIOUS
<1>4. Free(World)' = Free(World')  OBVIOUS
<1> QED  BY <1>1, <1>2, <1>3, <1>4 DEF Commit

\* A contract that does not know veDEG has seen none; a stake whose bonus is
\* stale is a stake.
NoneUnknown == ~ veDEG => stale = {} /\ \A u \in Users : veBalance[u] = 0
StaleStaked == \A p \in PoolIds, u \in Users : <<p, u>> \in stale => Staked(p, u)
StakesOwned == \A p \in PoolIds, u \in Users : userInfo[p][u].stakingBalance <= InitialLp

FarmingInv ==
    /\ Sound(World) /\ Covered(World) /\ now \in 1 .. MaxTime
    /\ StakesOwned /\ NoneUnknown /\ StaleStaked /\ BonusFollowsVeDEG

LEMMA FarmingInvGives ==
  ASSUME FarmingInv
  PROVE  /\ StorageOK /\ now \in Nat /\ World \in WorldType
         /\ World.user = userInfo /\ World.pool = poolList /\ World.degis = degis
         /\ Better(World, World) /\ Kept(World, World)
<1>1. now \in Nat  BY FarmingAssumption DEF FarmingInv
<1>2. StorageOK /\ World \in WorldType  BY <1>1 DEF FarmingInv, StorageOK, Sound
<1>3. World.user = userInfo /\ World.pool = poolList /\ World.degis = degis  BY DEF World
<1>4. Better(World, World)  BY <1>2, BetterSelf DEF StorageOK
<1>5. Kept(World, World)  BY <1>2, <1>4, BetterKept
<1> QED  BY <1>1, <1>2, <1>3, <1>4, <1>5

\* A call that settles no stake.
LEMMA NoStakeChanged ==
  ASSUME FarmingInv, NEW w, Better(w, World), Commit(w), now' \in 1 .. MaxTime,
         veBalance' = veBalance, stale' = stale, veDEG => veDEG'
  PROVE  FarmingInv' /\ Kept(World', World)
<1>1. World \in WorldType /\ World.user = userInfo  BY FarmingInvGives
<1>2. w \in WorldType /\ Sound(w) /\ Covered(w) /\ w.user = World.user
  BY DEF Better, Sound
<1>3. /\ World' = w /\ w.user = userInfo' /\ Sound(World)' /\ Covered(World)'
  BY <1>2, CommitIs
<1>4. userInfo' = userInfo  BY <1>1, <1>2, <1>3
<1>5. Kept(w, World)  BY <1>1, BetterKept
<1>6. StakesOwned' /\ NoneUnknown' /\ StaleStaked' /\ BonusFollowsVeDEG'
  BY <1>4 DEF FarmingInv, StakesOwned, NoneUnknown, StaleStaked, BonusFollowsVeDEG, Staked
<1> QED  BY <1>3, <1>5, <1>6 DEF FarmingInv

\* A step that leaves the storage alone.
LEMMA StorageUntouched ==
  ASSUME FarmingInv, UNCHANGED <<farmingState, veBalance, stale>>, now' \in 1 .. MaxTime,
         veDEG => veDEG'
  PROVE  FarmingInv' /\ Kept(World', World)
<1>1. Better(World, World)  BY FarmingInvGives
<1>2. Commit(World)  BY DEF World, Commit, farmingState
<1> QED  BY <1>1, <1>2, NoStakeChanged DEF farmingState

\* The bonus of a stake that is not stale, before veDEG was known, was zero.
LEMMA BonusAgrees ==
  ASSUME FarmingInv, NEW p \in PoolIds, NEW u \in Users, NEW balance \in Nat, ~ veDEG
  PROVE  userInfo[p][u].bonus = Root(balance * veBalance[u])
<1>1. veBalance[u] = 0 /\ stale = {}  BY DEF FarmingInv, NoneUnknown
<1>2. userInfo[p][u].bonus = Root(userInfo[p][u].stakingBalance * 0)
  BY <1>1 DEF FarmingInv, BonusFollowsVeDEG
<1>3. userInfo[p][u].stakingBalance \in Nat  BY FarmingInvGives, FieldTypes
<1>4. userInfo[p][u].stakingBalance * 0 = 0 /\ balance * 0 = 0  BY <1>3
<1> QED  BY <1>1, <1>2, <1>4

\* A stake or a withdrawal: the world of the caller's pool was refreshed, his
\* claim paid, and his stake set anew.
LEMMA OneStakeChanged ==
  ASSUME FarmingInv, VeTyped, NEW p \in PoolIds, NEW u \in Users, NEW w, Better(w, World),
         NEW m, PaidFor(m, w, p, u), NEW balance \in Nat, balance <= InitialLp,
         balance # userInfo[p][u].stakingBalance,
         Commit(WithStake(m, p, u, balance)), Touch(p, u),
         now' = now, veBalance' = veBalance, veDEG' = veDEG
  PROVE  FarmingInv' /\ Kept(World', World)
<1> DEFINE v == WithStake(m, p, u, balance)
<1>1. /\ World \in WorldType /\ World.user = userInfo /\ Kept(World, World)
      /\ Sound(World) /\ Covered(World)
  BY FarmingInvGives DEF FarmingInv
<1>2. Sound(w) /\ Covered(w) /\ w.user = userInfo  BY <1>1 DEF Better
<1>3. veBalance[u] \in Nat  BY DEF VeTyped
<1>4. /\ Resettled(v, w, p, u) /\ v.user[p][u].stakingBalance = balance
      /\ v.user[p][u].bonus = BonusFor(w.user[p][u].bonus, balance, veBalance[u])
  BY <1>2, <1>3, WithStakeResettles
<1>5. Commit(v)  OBVIOUS
<1> HIDE DEF v
<1>6. /\ Sound(v) /\ Covered(v) /\ Kept(v, World)
      /\ \A q \in PoolIds, x \in Users : q # p \/ x # u => v.user[q][x] = userInfo[q][x]
  <2>1. v.user[p][u] # World.user[p][u]  BY <1>1, <1>4
  <2>2. PICK base \in WorldType : base = World  BY <1>1
  <2>3. /\ Sound(base) /\ Covered(base) /\ Kept(base, base) /\ Better(w, base)
        /\ v.user[p][u] # base.user[p][u]
    BY <1>1, <2>1, <2>2
  <2>4. /\ Sound(v) /\ Covered(v) /\ Kept(v, base)
        /\ \A q \in PoolIds, x \in Users :
              q # p \/ x # u => v.user[q][x] = base.user[q][x]
    BY <1>4, <2>3, ResettledCosts
  <2> QED  BY <1>1, <2>2, <2>4
<1>7. World' = v /\ userInfo' = v.user /\ Sound(World)' /\ Covered(World)'
  <2>1. v \in WorldType  BY <1>6 DEF Sound
  <2> QED  BY <1>5, <1>6, <2>1, CommitIs
<1>8. userInfo'[p][u].bonus = Root(balance * veBalance[u])
  <2>1. CASE veDEG  BY <1>4, <1>7, <2>1 DEF BonusFor
  <2>2. CASE ~ veDEG
    <3>1. userInfo'[p][u].bonus = userInfo[p][u].bonus
      BY <1>2, <1>4, <1>7, <2>2 DEF BonusFor
    <3> QED  BY <2>2, <3>1, BonusAgrees
  <2> QED  BY <2>1, <2>2
<1>9. StakesOwned'  BY <1>4, <1>6, <1>7 DEF FarmingInv, StakesOwned
<1>10. stale' = stale \ {<<p, u>>}  BY DEF Touch
<1>11. NoneUnknown'  BY <1>10 DEF FarmingInv, NoneUnknown
<1>12. StaleStaked'
  <2> SUFFICES ASSUME NEW q \in PoolIds, NEW x \in Users, <<q, x>> \in stale'
               PROVE  Staked(q, x)'
    BY DEF StaleStaked
  <2>1. <<q, x>> \in stale /\ (q # p \/ x # u)  BY <1>10
  <2>2. userInfo'[q][x] = userInfo[q][x]  BY <1>6, <1>7, <2>1
  <2> QED  BY <2>1, <2>2 DEF FarmingInv, StaleStaked, Staked
<1>13. BonusFollowsVeDEG'
  <2> SUFFICES ASSUME NEW q \in PoolIds, NEW x \in Users, <<q, x>> \notin stale'
               PROVE  userInfo'[q][x].bonus
                        = Root(userInfo'[q][x].stakingBalance * veBalance'[x])
    BY DEF BonusFollowsVeDEG
  <2>1. CASE q = p /\ x = u  BY <1>4, <1>7, <1>8, <2>1
  <2>2. CASE q # p \/ x # u
    <3>1. <<q, x>> \notin stale /\ userInfo'[q][x] = userInfo[q][x]
      BY <1>6, <1>7, <1>10, <2>2
    <3> QED  BY <3>1 DEF FarmingInv, BonusFollowsVeDEG
  <2> QED  BY <2>1, <2>2
<1>14. now' \in 1 .. MaxTime  BY DEF FarmingInv
<1>15. Kept(World', World)  BY <1>6, <1>7
<1> QED  BY <1>7, <1>9, <1>11, <1>12, <1>13, <1>14, <1>15 DEF FarmingInv

\* A harvest settles a stake whose debt or record it changes.
LEMMA StakeHarvested ==
  ASSUME FarmingInv, NEW p \in PoolIds, NEW u \in Users, NEW w, Better(w, World),
         Pending(w, p, u) > 0, Commit(Settled(PaidOut(w, p, u), p, u)),
         UNCHANGED <<now, veDEG, veBalance, stale>>
  PROVE  FarmingInv' /\ Kept(World', World)
<1> DEFINE m == PaidOut(w, p, u)  v == Settled(m, p, u)
<1>1. /\ World \in WorldType /\ World.user = userInfo /\ Kept(World, World)
      /\ Sound(World) /\ Covered(World)
  BY FarmingInvGives DEF FarmingInv
<1>2. Sound(w) /\ Covered(w) /\ w \in WorldType /\ w.user = userInfo
  BY <1>1 DEF Better, Sound
<1>3. PaidFor(m, w, p, u) /\ m.user[p][u].extraClaimable = 0  BY <1>2, PaidOutPays
<1>4. Commit(v)  OBVIOUS
<1> HIDE DEF m
<1>5. /\ Resettled(v, w, p, u)
      /\ v.user[p][u].stakingBalance = w.user[p][u].stakingBalance
      /\ v.user[p][u].bonus = w.user[p][u].bonus
      /\ v.user[p][u].extraClaimable = 0
  BY <1>2, <1>3, HarvestResettles
<1> HIDE DEF v
<1>6. v.user[p][u] # userInfo[p][u]
  <2> SUFFICES ASSUME v.user[p][u] = userInfo[p][u] PROVE FALSE  OBVIOUS
  <2>1. /\ w.user[p][u].extraClaimable = 0
        /\ w.user[p][u].rewardDebt = Accrued(v, p, u) \div SCALE
    BY <1>2, <1>5 DEF Resettled
  <2>2. Accrued(v, p, u) = Accrued(w, p, u)
    BY <1>2, <1>5 DEF Resettled, Accrued, Value
  <2>3. Accrued(w, p, u) \div SCALE \in Nat  BY <1>2, DueTypes, QuotientRest
  <2> QED  BY <2>1, <2>2, <2>3 DEF Pending
<1>7. /\ Sound(v) /\ Covered(v) /\ Kept(v, World)
      /\ \A q \in PoolIds, x \in Users : q # p \/ x # u => v.user[q][x] = userInfo[q][x]
  <2>1. PICK base \in WorldType : base = World  BY <1>1
  <2>2. /\ Sound(base) /\ Covered(base) /\ Kept(base, base) /\ Better(w, base)
        /\ v.user[p][u] # base.user[p][u]
    BY <1>1, <1>6, <2>1
  <2>3. /\ Sound(v) /\ Covered(v) /\ Kept(v, base)
        /\ \A q \in PoolIds, x \in Users :
              q # p \/ x # u => v.user[q][x] = base.user[q][x]
    BY <1>5, <2>2, ResettledCosts
  <2> QED  BY <1>1, <2>1, <2>3
<1>8. World' = v /\ userInfo' = v.user /\ Sound(World)' /\ Covered(World)'
  <2>1. v \in WorldType  BY <1>7 DEF Sound
  <2> QED  BY <1>4, <1>7, <2>1, CommitIs
<1>9. \A q \in PoolIds, x \in Users :
          /\ userInfo'[q][x].stakingBalance = userInfo[q][x].stakingBalance
          /\ userInfo'[q][x].bonus = userInfo[q][x].bonus
  BY <1>2, <1>5, <1>7, <1>8
<1>10. StakesOwned' /\ NoneUnknown' /\ StaleStaked' /\ BonusFollowsVeDEG'
  BY <1>9 DEF FarmingInv, StakesOwned, NoneUnknown, StaleStaked, BonusFollowsVeDEG, Staked
<1>11. now' \in 1 .. MaxTime  BY DEF FarmingInv
<1> QED  BY <1>7, <1>8, <1>10, <1>11 DEF FarmingInv

\* A balance of veDEG changes, and the bonuses of its owner with it.
LEMMA BalanceSet ==
  ASSUME FarmingInv, VeTyped, NEW u \in Users, NEW balance \in Nat, SetBalance(u, balance),
         now' = now, veDEG' = veDEG
  PROVE  FarmingInv' /\ Kept(World', World)
<1> DEFINE v == AllRebonused(u, balance)
<1>1. StorageOK /\ World.user = userInfo /\ World \in WorldType  BY FarmingInvGives
<1>2. /\ veDEG /\ Commit(v) /\ veBalance' = [veBalance EXCEPT ![u] = balance]
      /\ stale' = {x \in stale : x[2] # u}
            \cup {<<p, u>> : p \in {q \in PoolIds : Staked(q, u) /\ ~ isFarming[q]}}
  BY DEF SetBalance, updateBonus
<1>3. veBalance'[u] = balance /\ \A x \in Users : x # u => veBalance'[x] = veBalance[x]
  BY <1>2 DEF VeTyped
<1>4. Rebonus(v, Lps, u, balance)  BY <1>1, AllRebonusedDone
<1> HIDE DEF v
<1>5. /\ Sound(v) /\ Covered(v) /\ Kept(v, World)
      /\ \A q \in PoolIds, x \in Users : x # u \/ ~ Affected(q, u) => v.user[q][x] = userInfo[q][x]
      /\ \A q \in PoolIds : Affected(q, u) =>
            /\ v.user[q][u].stakingBalance = userInfo[q][u].stakingBalance
            /\ v.user[q][u].bonus = Root(balance * userInfo[q][u].stakingBalance)
  <2>1. \A q \in PoolIds : q <= Lps  BY UsersFinite DEF PoolIds
  <2> QED  BY <1>4, <2>1 DEF Rebonus
<1>6. World' = v /\ userInfo' = v.user /\ Sound(World)' /\ Covered(World)'
  <2>1. v \in WorldType  BY <1>5 DEF Sound
  <2> QED  BY <1>2, <1>5, <2>1, CommitIs
<1>7. \A q \in PoolIds, x \in Users :
          userInfo'[q][x].stakingBalance = userInfo[q][x].stakingBalance
  BY <1>5, <1>6
<1>8. StakesOwned'  BY <1>7 DEF FarmingInv, StakesOwned
<1>9. NoneUnknown'  BY <1>2 DEF NoneUnknown
<1>10. \A q \in PoolIds, x \in Users :
           <<q, x>> \in stale' <=> \/ x # u /\ <<q, x>> \in stale
                                   \/ x = u /\ Staked(q, u) /\ ~ isFarming[q]
  BY <1>2
<1>11. StaleStaked'
  <2> SUFFICES ASSUME NEW q \in PoolIds, NEW x \in Users, <<q, x>> \in stale'
               PROVE  Staked(q, x)'
    BY DEF StaleStaked
  <2>1. Staked(q, x)  BY <1>10 DEF FarmingInv, StaleStaked
  <2> QED  BY <1>7, <2>1 DEF Staked
<1>12. BonusFollowsVeDEG'
  <2> SUFFICES ASSUME NEW q \in PoolIds, NEW x \in Users, <<q, x>> \notin stale'
               PROVE  userInfo'[q][x].bonus
                        = Root(userInfo'[q][x].stakingBalance * veBalance'[x])
    BY DEF BonusFollowsVeDEG
  <2> DEFINE s == userInfo[q][x].stakingBalance
  <2>1. s \in Nat /\ userInfo'[q][x].stakingBalance = s  BY <1>1, <1>7, FieldTypes
  <2>2. CASE x # u
    <3>1. userInfo'[q][x] = userInfo[q][x] /\ veBalance'[x] = veBalance[x] /\ <<q, x>> \notin stale
      BY <1>3, <1>5, <1>6, <1>10, <2>2
    <3> QED  BY <3>1 DEF FarmingInv, BonusFollowsVeDEG
  <2>3. CASE x = u /\ Affected(q, u)
    <3>1. userInfo'[q][x].bonus = Root(balance * s)  BY <1>5, <1>6, <2>3
    <3>2. balance * s = s * balance
      <4> HIDE DEF s
      <4> QED  BY <2>1
    <3> QED  BY <1>3, <2>1, <2>3, <3>1, <3>2
  <2>4. CASE x = u /\ ~ Affected(q, u)
    <3>1. ~ Staked(q, u) /\ <<q, x>> \notin stale
      BY <1>10, <2>4 DEF Affected, FarmingInv, StaleStaked
    <3>2. s = 0
      <4>1. ~ s > 0  BY <2>4, <3>1 DEF Staked
      <4> HIDE DEF s
      <4> QED  BY <2>1, <4>1
    <3>3. userInfo'[q][x].bonus = userInfo[q][x].bonus  BY <1>5, <1>6, <2>4
    <3>4. userInfo[q][x].bonus = Root(s * veBalance[x])
      BY <3>1 DEF FarmingInv, BonusFollowsVeDEG
    <3>5. veBalance[x] \in Nat  BY DEF VeTyped
    <3>6. s * veBalance[x] = s * balance
      <4> HIDE DEF s
      <4> QED  BY <3>2, <3>5
    <3> QED  BY <1>3, <2>1, <2>4, <3>3, <3>4, <3>6
  <2> QED  BY <2>2, <2>3, <2>4
<1>13. now' \in 1 .. MaxTime  BY DEF FarmingInv
<1> QED  BY <1>5, <1>6, <1>8, <1>9, <1>11, <1>12, <1>13 DEF FarmingInv

(***************************************************************************)
(* The calls                                                               *)
(***************************************************************************)
LEMMA StakeStep ==
  ASSUME FarmingInv, VeTyped, NEW u \in Users, NEW p \in PoolIds, NEW a \in LpAmounts,
         stake(u, p, a)
  PROVE  FarmingInv' /\ Kept(World', World)
<1> DEFINE w       == Updated(World, p)
           balance == userInfo[p][u].stakingBalance
           m       == IF balance > 0 THEN PaidOut(w, p, u) ELSE w
           n       == balance + a
<1>1. /\ Sound(World) /\ Covered(World) /\ now \in Nat /\ World \in WorldType
      /\ World.user = userInfo
  BY FarmingInvGives DEF FarmingInv
<1>2. a \in Nat \ {0} /\ balance \in Nat  BY <1>1, FieldTypes, FarmingAssumption
<1>3. n \in Nat /\ n # balance
  <2> HIDE DEF balance
  <2> QED  BY <1>2
<1>4. Better(w, World)  BY <1>1, UpdatedBetter
<1>5. n <= InitialLp /\ Commit(WithStake(m, p, u, n)) /\ Touch(p, u)
      /\ now' = now /\ veBalance' = veBalance /\ veDEG' = veDEG
  BY DEF stake
<1> HIDE DEF w
<1>6. PaidFor(PaidOut(w, p, u), w, p, u) /\ PaidFor(w, w, p, u)
  BY <1>4, PaidOutPays, NotPaid DEF Better
<1>7. PaidFor(m, w, p, u)  BY <1>6
<1> HIDE DEF m, n
<1> QED  BY <1>3, <1>4, <1>5, <1>7, OneStakeChanged

LEMMA WithdrawStep ==
  ASSUME FarmingInv, VeTyped, NEW u \in Users, NEW p \in PoolIds, NEW a \in LpAmounts,
         withdraw(u, p, a)
  PROVE  FarmingInv' /\ Kept(World', World)
<1> DEFINE w       == Refreshed(World, p)
           balance == userInfo[p][u].stakingBalance
           m       == PaidOut(w, p, u)
           n       == balance - a
<1>1. /\ Sound(World) /\ Covered(World) /\ now \in Nat /\ World \in WorldType
      /\ World.user = userInfo
  BY FarmingInvGives DEF FarmingInv
<1>2. /\ a \in Nat \ {0} /\ balance \in Nat /\ balance >= a
      /\ balance <= InitialLp /\ InitialLp \in Nat
  BY <1>1, FieldTypes, FarmingAssumption DEF withdraw, FarmingInv, StakesOwned
<1>3. n \in Nat /\ n # balance /\ n <= InitialLp
  <2> HIDE DEF balance
  <2> QED  BY <1>2
<1>4. Better(w, World)  BY <1>1, UpdatedBetter
<1>5. Commit(WithStake(m, p, u, n)) /\ Touch(p, u)
      /\ now' = now /\ veBalance' = veBalance /\ veDEG' = veDEG
  BY DEF withdraw
<1> HIDE DEF w
<1>6. PaidFor(m, w, p, u)  BY <1>4, PaidOutPays DEF Better
<1> HIDE DEF m, n
<1> QED  BY <1>3, <1>4, <1>5, <1>6, OneStakeChanged

LEMMA HarvestStep ==
  ASSUME FarmingInv, NEW u \in Users, NEW p \in PoolIds, harvest(u, p)
  PROVE  FarmingInv' /\ Kept(World', World)
<1> DEFINE w == Refreshed(World, p)
<1>1. Better(w, World)  BY FarmingInvGives, UpdatedBetter DEF FarmingInv
<1>2. /\ Pending(w, p, u) > 0 /\ Commit(Settled(PaidOut(w, p, u), p, u))
      /\ UNCHANGED <<now, veDEG, veBalance, stale>>
  BY DEF harvest
<1> HIDE DEF w
<1> QED  BY <1>1, <1>2, StakeHarvested

LEMMA UpdateStep ==
  ASSUME FarmingInv, massUpdatePools \/ \E p \in PoolIds : updatePool(p)
  PROVE  FarmingInv' /\ Kept(World', World)
<1>1. now' = now /\ veDEG' = veDEG /\ veBalance' = veBalance /\ stale' = stale
  BY DEF massUpdatePools, updatePool
<1>2. now' \in 1 .. MaxTime  BY <1>1 DEF FarmingInv
<1>3. CASE massUpdatePools
  <2>1. Better(MassUpdated, World)  BY FarmingInvGives, MassUpdatedBetter
  <2>2. Commit(MassUpdated)  BY <1>3 DEF massUpdatePools
  <2> QED  BY <1>1, <1>2, <2>1, <2>2, NoStakeChanged
<1>4. CASE \E p \in PoolIds : updatePool(p)
  <2>1. PICK p \in PoolIds : updatePool(p)  BY <1>4
  <2>2. Better(Updated(World, p), World)
    BY FarmingInvGives, UpdatedBetter DEF FarmingInv
  <2>3. Commit(Updated(World, p))  BY <2>1 DEF updatePool
  <2> QED  BY <1>1, <1>2, <2>2, <2>3, NoStakeChanged
<1> QED  BY <1>3, <1>4

\* The owner sets the speeds of a pool.
LEMMA WithSpeedBetter ==
  ASSUME NEW w, Sound(w), Covered(w), NEW p \in PoolIds, NEW speed \in Nat \X Nat
  PROVE  Better(WithSpeed(w, p, speed), w)
<1> DEFINE old  == w.pool[p]
           next == [old EXCEPT !.basicDegisPerSecond = speed[1],
                               !.bonusDegisPerSecond = speed[2]]
           v    == WithSpeed(w, p, speed)
<1>1. w \in WorldType /\ old \in PoolType /\ speed[1] \in Nat /\ speed[2] \in Nat
  BY FieldTypes DEF Sound
<1>2. v = WithPool(w, p, next)  BY DEF WithSpeed, WithPool
<1>3. /\ next \in PoolType
      /\ next.accDegisPerShare = old.accDegisPerShare
      /\ next.accDegisPerBonusShare = old.accDegisPerBonusShare
      /\ next.totalBonus = old.totalBonus
      /\ next.threshold = old.threshold /\ next.piecewise = old.piecewise
  BY <1>1 DEF PoolType
<1> HIDE DEF next, v
<1>4. /\ v \in WorldType /\ v.user = w.user /\ v.degis = w.degis /\ v.pool[p] = next
      /\ \A q \in PoolIds : q # p => v.pool[q] = w.pool[q]
  BY <1>1, <1>2, <1>3, PoolReplaced
<1>5. Better(v, w)  BY <1>3, <1>4, SameForStakers
<1> QED  BY <1>5 DEF v

LEMMA AddStep ==
  ASSUME FarmingInv, NEW p \in PoolIds, NEW speed \in Speeds, NEW all \in BOOLEAN,
         add(p, speed, all)
  PROVE  FarmingInv' /\ Kept(World', World)
<1> DEFINE w == IF all THEN MassUpdated ELSE World
           t == IF now > startTimestamp THEN now ELSE startTimestamp
           m == [w EXCEPT !.pool[p].lastRewardTimestamp = t]
           v == WithSpeed(m, p, speed)
<1>1. /\ World \in WorldType /\ t \in Nat /\ speed \in Nat \X Nat
      /\ Better(World, World) /\ Better(MassUpdated, World)
  BY FarmingInvGives, FarmingAssumption, MassUpdatedBetter
<1>2. Better(w, World)  BY <1>1
<1>3. /\ Commit(v) /\ now' = now /\ veDEG' = veDEG /\ veBalance' = veBalance
      /\ stale' = stale /\ now' \in 1 .. MaxTime
  BY DEF add, FarmingInv
<1> HIDE DEF w, t
<1>4. Better(m, w)  BY <1>1, <1>2, TimestampBetter DEF Better
<1> HIDE DEF m
<1>5. Better(v, m)  BY <1>1, <1>4, WithSpeedBetter DEF Better
<1> HIDE DEF v
<1>6. Better(m, World)  BY <1>1, <1>2, <1>4, BetterTransitive
<1>7. Better(v, World)  BY <1>1, <1>5, <1>6, BetterTransitive
<1> QED  BY <1>3, <1>7, NoStakeChanged

LEMMA SetRewardStep ==
  ASSUME FarmingInv, NEW p \in PoolIds, NEW speed \in Speeds, NEW all \in BOOLEAN,
         setDegisReward(p, speed, all)
  PROVE  FarmingInv' /\ Kept(World', World)
<1> DEFINE w == IF all THEN MassUpdated ELSE Updated(World, p)
           v == IF speed[1] = 0 THEN Stopped(w, p) ELSE WithSpeed(w, p, speed)
<1>1. /\ World \in WorldType /\ speed \in Nat \X Nat /\ <<0, 0>> \in Nat \X Nat
      /\ Better(MassUpdated, World) /\ Better(Updated(World, p), World)
  BY FarmingInvGives, FarmingAssumption, MassUpdatedBetter, UpdatedBetter DEF FarmingInv
<1>2. Better(w, World)  BY <1>1
<1>3. /\ Commit(v) /\ now' = now /\ veDEG' = veDEG /\ veBalance' = veBalance
      /\ stale' = stale /\ now' \in 1 .. MaxTime
  BY DEF setDegisReward, FarmingInv
<1> HIDE DEF w
<1>4. Better(w, w) /\ Better(WithSpeed(w, p, speed), w) /\ Better(WithSpeed(w, p, <<0, 0>>), w)
  BY <1>1, <1>2, BetterSelf, WithSpeedBetter DEF Better
<1>5. Better(v, w)  BY <1>4 DEF Stopped
<1> HIDE DEF v
<1>6. Better(v, World)  BY <1>1, <1>2, <1>5, BetterTransitive
<1> QED  BY <1>3, <1>6, NoStakeChanged

LEMMA PiecewiseStep ==
  ASSUME FarmingInv, NEW p \in PoolIds, NEW piece \in Pieces, setPiecewise(p, piece)
  PROVE  FarmingInv' /\ Kept(World', World)
<1> DEFINE old  == poolList[p]
           next == [old EXCEPT !.threshold = piece.threshold, !.piecewise = piece.reward]
           v    == WithPool(World, p, next)
<1>1. /\ World \in WorldType /\ World.pool = poolList /\ World.user = userInfo
      /\ Sound(World) /\ Covered(World) /\ Free(World) \in Int /\ old \in PoolType
  BY FarmingInvGives, FieldTypes, DueTypes DEF FarmingInv
<1>2. /\ piece.threshold \in Seq(Nat) /\ piece.reward \in Seq(Nat)
      /\ Len(piece.threshold) = Len(piece.reward)
  BY FarmingAssumption
<1>3. /\ next \in PoolType
      /\ next.accDegisPerShare = old.accDegisPerShare
      /\ next.accDegisPerBonusShare = old.accDegisPerBonusShare
      /\ next.totalBonus = old.totalBonus
      /\ next.threshold = piece.threshold /\ next.piecewise = piece.reward
  BY <1>1, <1>2 DEF PoolType
<1>4. poolList' = [poolList EXCEPT ![p] = next]
  BY DEF setPiecewise
<1> HIDE DEF next
<1>5. /\ v \in WorldType /\ v.user = World.user /\ v.level = World.level /\ v.ok = World.ok
      /\ v.degis = World.degis /\ v.pool[p] = next
      /\ \A q \in PoolIds : q # p => v.pool[q] = World.pool[q]
  <2>1. PICK w \in WorldType : w = World  BY <1>1
  <2>2. v = WithPool(w, p, next) /\ next \in PoolType  BY <1>3, <2>1
  <2> HIDE DEF v
  <2>3. /\ v \in WorldType /\ v.user = w.user /\ v.level = w.level /\ v.ok = w.ok
        /\ v.degis = w.degis /\ v.pool[p] = next
        /\ \A q \in PoolIds : q # p => v.pool[q] = w.pool[q]
    BY <2>2, PoolReplaced
  <2> QED  BY <2>1, <2>3
<1>6. v.pool = poolList'  BY <1>4 DEF WithPool, World
<1> HIDE DEF v
<1>7. Sound(v)
  <2> SUFFICES ASSUME NEW q \in PoolIds PROVE Booked(v, q)  BY <1>5 DEF Sound
  <2>1. Booked(World, q)  BY <1>1 DEF Sound
  <2>2. Bonuses(v, q) = Bonuses(World, q)  BY <1>5 DEF Bonuses
  <2> QED  BY <1>1, <1>2, <1>3, <1>5, <2>1, <2>2 DEF Booked
<1>8. Covered(v) /\ Free(v) = Free(World)  BY <1>1, <1>3, <1>5, SameDues
<1>9. Better(v, World)  BY <1>1, <1>5, <1>7, <1>8 DEF Better
<1>10. Commit(v)  BY <1>5, <1>6 DEF Commit, World, setPiecewise
<1>11. /\ now' = now /\ veDEG' = veDEG /\ veBalance' = veBalance
       /\ stale' = stale /\ now' \in 1 .. MaxTime
  BY DEF setPiecewise, FarmingInv
<1> QED  BY <1>9, <1>10, <1>11, NoStakeChanged

LEMMA QuietStep ==
  ASSUME FarmingInv, setVeDEG \/ upgradeFarming \/ Tick
  PROVE  FarmingInv' /\ Kept(World', World)
<1>1. UNCHANGED <<farmingState, veBalance, stale>> /\ (veDEG => veDEG')
  BY DEF setVeDEG, upgradeFarming, Tick
<1>2. now' = now \/ (now < MaxTime /\ now' = now + 1)
  BY DEF setVeDEG, upgradeFarming, Tick
<1>3. now' \in 1 .. MaxTime  BY <1>2, FarmingAssumption DEF FarmingInv
<1> QED  BY <1>1, <1>3, StorageUntouched

\* What veDEG does to the farming pools: nothing, or a balance changes.
Quiet == UNCHANGED <<farmingState, veBalance, stale>>
Heard == \E u \in Users : \E balance : SetBalance(u, balance)

LEMMA ClaimIsHeard == ASSUME NEW u \in Users, _claim(u) PROVE Quiet \/ Heard
  BY DEF _claim, _mint, SameFarming, Quiet, Heard

LEMMA DepositCalls ==
  ASSUME NEW u \in Users, NEW a,
         deposit(u, a) \/ depositMaxTime(u, a) \/ withdrawDegis(u, a)
         \/ claim(u) \/ withdrawLocked(u) \/ unBoostVeDEG(u)
  PROVE  (Quiet \/ Heard) /\ now' = now /\ veDEG' = veDEG
<1>1. CASE deposit(u, a)
  <2>1. _claim(u) \/ (UNCHANGED veBalance /\ SameFarming)  BY <1>1 DEF deposit
  <2>2. now' = now /\ veDEG' = veDEG  BY <1>1 DEF deposit, SameOwner
  <2> QED  BY <2>1, <2>2, ClaimIsHeard DEF SameFarming, Quiet
<1>2. CASE depositMaxTime(u, a)  BY <1>2 DEF depositMaxTime, _mint, SameOwner, Heard
<1>3. CASE withdrawDegis(u, a)  BY <1>3 DEF withdrawDegis, _burn, SameOwner, Heard
<1>4. CASE claim(u)  BY <1>4, ClaimIsHeard DEF claim, SameOwner
<1>5. CASE withdrawLocked(u)  BY <1>5 DEF withdrawLocked, _burn, SameOwner, Heard
<1>6. CASE unBoostVeDEG(u)  BY <1>6 DEF unBoostVeDEG, _burn, SameOwner, Heard
<1> QED  BY <1>1, <1>2, <1>3, <1>4, <1>5, <1>6

LEMMA AppointedCalls ==
  ASSUME NEW u \in Users, NEW a,
         lockVeDEG(u, a) \/ unlockVeDEG(u, a) \/ burnVeDEG(u, a) \/ boostVeDEG(u, a)
  PROVE  (Quiet \/ Heard) /\ now' = now /\ veDEG' = veDEG
<1>1. CASE lockVeDEG(u, a)  BY <1>1 DEF lockVeDEG, Appointed, SameFarming, Quiet
<1>2. CASE unlockVeDEG(u, a)  BY <1>2 DEF unlockVeDEG, SameFarming, Quiet
<1>3. CASE burnVeDEG(u, a)  BY <1>3 DEF burnVeDEG, _burn, Appointed, Heard
<1>4. CASE boostVeDEG(u, a)
  <2>1. now' = now /\ veDEG' = veDEG  BY <1>4 DEF boostVeDEG, Appointed
  <2>2. Quiet \/ Heard  BY <1>4 DEF boostVeDEG, _mint, SameFarming, Quiet, Heard
  <2> QED  BY <2>1, <2>2
<1> QED  BY <1>1, <1>2, <1>3, <1>4

LEMMA VeDEGCalls ==
  ASSUME VeDEGNext
  PROVE  (Quiet \/ Heard) /\ now' = now /\ veDEG' = veDEG
<1>1. Escrowers \subseteq Users  BY VeDEGAssumption
<1>2. CASE \E u \in Escrowers, a \in DegisAmounts :
              deposit(u, a) \/ depositMaxTime(u, a) \/ withdrawDegis(u, a)
  BY <1>1, <1>2, DepositCalls
<1>3. CASE \E u \in Escrowers, a \in VeAmounts :
              lockVeDEG(u, a) \/ unlockVeDEG(u, a) \/ burnVeDEG(u, a)
  BY <1>1, <1>3, AppointedCalls
<1>4. CASE \E u \in Escrowers : \E type \in {1, 2} : boostVeDEG(u, type)
  BY <1>1, <1>4, AppointedCalls
<1>5. CASE \E u \in Escrowers : claim(u) \/ withdrawLocked(u) \/ unBoostVeDEG(u)
  BY <1>1, <1>5, DepositCalls
<1>6. CASE \E ratio \in Ratios : setMaxCapRatio(ratio)
  BY <1>6 DEF setMaxCapRatio, SameFarming, Quiet
<1>7. CASE \E rate \in Rates : setGenerationRate(rate)
  BY <1>7 DEF setGenerationRate, SameFarming, Quiet
<1>8. CASE upgradeVeDEG  BY <1>8 DEF upgradeVeDEG, SameFarming, Quiet, veVars
<1> QED  BY <1>2, <1>3, <1>4, <1>5, <1>6, <1>7, <1>8 DEF VeDEGNext

LEMMA VeDEGStep ==
  ASSUME FarmingInv, VeTyped, VeTyped', VeDEGNext
  PROVE  FarmingInv' /\ Kept(World', World)
<1>1. (Quiet \/ Heard) /\ now' = now /\ veDEG' = veDEG  BY VeDEGCalls
<1>2. now' \in 1 .. MaxTime  BY <1>1 DEF FarmingInv
<1>3. CASE Quiet  BY <1>1, <1>2, <1>3, StorageUntouched DEF Quiet
<1>4. CASE Heard
  <2>1. PICK u \in Users : \E balance : SetBalance(u, balance)  BY <1>4 DEF Heard
  <2>2. PICK balance : SetBalance(u, balance)  BY <2>1
  <2>3. veBalance'[u] = balance /\ veBalance'[u] \in Nat
    BY <2>2 DEF SetBalance, VeTyped
  <2>4. balance \in Nat  BY <2>3
  <2> QED  BY <1>1, <2>2, <2>4, BalanceSet
<1> QED  BY <1>1, <1>3, <1>4

(***************************************************************************)
(* The invariant                                                           *)
(***************************************************************************)
LEMMA FarmingInitially == Init => FarmingInv
<1> SUFFICES ASSUME Init PROVE FarmingInv  OBVIOUS
<1>1. /\ now = 1 /\ poolList = [p \in PoolIds |-> NoPool]
      /\ userInfo = [p \in PoolIds |-> [u \in Users |-> NoStake]]
      /\ currentRewardLevel = 0 /\ degis = 0 /\ veDEG = FALSE
      /\ veBalance = [u \in Users |-> 0] /\ stale = {}
  BY DEF Init, FarmingInit
<1>2. NoPool \in PoolType /\ NoStake \in StakeType
  <2>1. <<>> \in Seq(Nat)  OBVIOUS
  <2> QED  BY <2>1 DEF NoPool, NoStake, PoolType, StakeType
<1>3. World \in WorldType  BY <1>1, <1>2 DEF World, WorldType
<1>4. World.pool = poolList /\ World.user = userInfo  BY DEF World
<1>5. \A p \in PoolIds, u \in Users : userInfo[p][u] = NoStake /\ poolList[p] = NoPool
  BY <1>1
<1>6. Sound(World)
  <2> SUFFICES ASSUME NEW p \in PoolIds PROVE Booked(World, p)  BY <1>3 DEF Sound
  <2> DEFINE f == Bonuses(World, p)
  <2>1. \A u \in Users : f[u] = 0  BY <1>4, <1>5 DEF Bonuses, NoStake
  <2> HIDE DEF f
  <2>2. SumOver(f, Users) = 0  BY <2>1, UsersFinite, SumZero
  <2>3. World.pool[p] = NoPool  BY <1>1, <1>4
  <2> QED  BY <2>2, <2>3 DEF Booked, NoPool, f
<1>7. Covered(World)
  <2> SUFFICES ASSUME NEW p \in PoolIds, NEW u \in Users PROVE CoveredAt(World, p, u)
    BY DEF Covered
  <2>1. Accrued(World, p, u) \div SCALE \in Nat  BY <1>3, DueTypes, QuotientRest
  <2>2. World.user[p][u].rewardDebt = 0  BY <1>4, <1>5 DEF NoStake
  <2> QED  BY <2>1, <2>2 DEF CoveredAt
<1>8. StakesOwned  BY <1>5, FarmingAssumption DEF StakesOwned, NoStake
<1>9. NoneUnknown /\ StaleStaked  BY <1>1 DEF NoneUnknown, StaleStaked
<1>10. BonusFollowsVeDEG
  <2> SUFFICES ASSUME NEW p \in PoolIds, NEW u \in Users
               PROVE  userInfo[p][u].bonus
                        = Root(userInfo[p][u].stakingBalance * veBalance[u])
    BY DEF BonusFollowsVeDEG
  <2>1. userInfo[p][u].bonus = 0 /\ userInfo[p][u].stakingBalance = 0 /\ veBalance[u] = 0
    BY <1>1, <1>5 DEF NoStake
  <2>2. 0 * 0 = 0  OBVIOUS
  <2> QED  BY <2>1, <2>2, RootOfZero
<1>11. now \in 1 .. MaxTime  BY <1>1, FarmingAssumption
<1> QED  BY <1>6, <1>7, <1>8, <1>9, <1>10, <1>11 DEF FarmingInv

LEMMA FarmingNextStep ==
  ASSUME FarmingInv, VeTyped, FarmingNext \/ Tick
  PROVE  FarmingInv' /\ Kept(World', World)
<1>1. CASE \E p \in PoolIds, u \in Users :
              (\E a \in LpAmounts : stake(u, p, a) \/ withdraw(u, p, a)) \/ harvest(u, p)
  BY <1>1, StakeStep, WithdrawStep, HarvestStep
<1>2. CASE massUpdatePools \/ \E p \in PoolIds : updatePool(p)  BY <1>2, UpdateStep
<1>3. CASE \E p \in PoolIds, speed \in Speeds, all \in BOOLEAN :
              add(p, speed, all) \/ setDegisReward(p, speed, all)
  BY <1>3, AddStep, SetRewardStep
<1>4. CASE \E p \in PoolIds, piece \in Pieces : setPiecewise(p, piece)
  BY <1>4, PiecewiseStep
<1>5. CASE setVeDEG \/ upgradeFarming \/ Tick  BY <1>5, QuietStep
<1> QED  BY <1>1, <1>2, <1>3, <1>4, <1>5 DEF FarmingNext

LEMMA AnyStepKeeps ==
  ASSUME FarmingInv, VeTyped, VeTyped', [Next]_vars
  PROVE  FarmingInv' /\ Kept(World', World)
<1>1. CASE VeDEGNext  BY <1>1, VeDEGStep
<1>2. CASE FarmingNext \/ Tick  BY <1>2, FarmingNextStep
<1>3. CASE UNCHANGED vars
  <2>1. /\ UNCHANGED <<farmingState, veBalance, stale>> /\ (veDEG => veDEG') /\ now' = now
    BY <1>3 DEF vars, farmingVars, veVars
  <2>2. now' \in 1 .. MaxTime  BY <2>1 DEF FarmingInv
  <2> QED  BY <2>1, <2>2, StorageUntouched
<1> QED  BY <1>1, <1>2, <1>3 DEF Next

\* The books of the farming pools agree in every reachable state.
THEOREM FarmingInvariant == Spec => []FarmingInv
<1>1. IInv => VeTyped  BY DEF IInv
<1>2. FarmingInv /\ VeTyped /\ VeTyped' /\ [Next]_vars => FarmingInv'  BY AnyStepKeeps
<1> QED  BY FarmingInitially, VeDEGInvariant, <1>1, <1>2, PTL DEF Spec

\* Balances, accumulators and totals of the farming pools stay natural
\* numbers, and stakes the LP tokens of their owners, through every sequence
\* of stakes, bonus changes, settings and upgrades.
THEOREM FarmingTypeCorrect == Spec => []FarmingTypeOK
<1>1. FarmingInv => FarmingTypeOK
  <2> SUFFICES ASSUME FarmingInv PROVE FarmingTypeOK  OBVIOUS
  <2>1. /\ World \in WorldType /\ World.user = userInfo /\ World.pool = poolList
        /\ World.degis = degis /\ World.level = currentRewardLevel
    BY FarmingInvGives DEF World
  <2>2. degis \in Nat /\ currentRewardLevel \in Nat /\ now \in 1 .. MaxTime
    BY <2>1, FieldTypes DEF FarmingInv
  <2>3. ASSUME NEW p \in PoolIds
        PROVE  \A f \in DOMAIN NoPool \ {"threshold", "piecewise"} : poolList[p][f] \in Nat
    <3>1. poolList[p] \in PoolType  BY <2>1, FieldTypes
    <3> QED  BY <3>1 DEF PoolType, NoPool
  <2>4. ASSUME NEW p \in PoolIds, NEW u \in Users
        PROVE  /\ \A f \in DOMAIN NoStake : userInfo[p][u][f] \in Nat
               /\ userInfo[p][u].stakingBalance <= InitialLp
    <3>1. userInfo[p][u] \in StakeType  BY <2>1, FieldTypes
    <3>2. \A f \in DOMAIN NoStake : userInfo[p][u][f] \in Nat
      BY <3>1 DEF StakeType, NoStake
    <3> QED  BY <3>2 DEF FarmingInv, StakesOwned
  <2> QED  BY <2>2, <2>3, <2>4 DEF FarmingTypeOK
<1> QED  BY <1>1, FarmingInvariant, PTL

\* Whatever the order of stakes, updates, stops, bonus changes and upgrades, a
\* stake's value reaches its debt: it can always be withdrawn.
THEOREM DebtStaysCovered == Spec => []DebtIsCovered
<1>1. FarmingInv => DebtIsCovered
  <2> SUFFICES ASSUME FarmingInv, NEW p \in PoolIds, NEW u \in Users
               PROVE  Value(poolList[p], userInfo[p][u]) \div SCALE >= userInfo[p][u].rewardDebt
    BY DEF DebtIsCovered
  <2>1. World \in WorldType /\ World.user = userInfo /\ World.pool = poolList
    BY FarmingInvGives
  <2>2. CoveredAt(World, p, u)  BY DEF FarmingInv, Covered
  <2>3. Accrued(World, p, u) = Value(poolList[p], userInfo[p][u])  BY <2>1 DEF Accrued
  <2>4. Accrued(World, p, u) \div SCALE \in Nat /\ userInfo[p][u].rewardDebt \in Nat
    BY <2>1, DueTypes, QuotientRest, FieldTypes
  <2> QED  BY <2>1, <2>2, <2>3, <2>4 DEF CoveredAt
<1> QED  BY <1>1, FarmingInvariant, PTL

\* Every bonus is that of its owner's veDEG, but for stakes whose pool was
\* stopped when his balance changed.
THEOREM BonusesFollowVeDEG == Spec => []BonusFollowsVeDEG
<1>1. FarmingInv => BonusFollowsVeDEG  BY DEF FarmingInv
<1> QED  BY <1>1, FarmingInvariant, PTL

LEMMA BackingIs == Backing = Free(World)
<1> DEFINE owedTo == [x \in PoolIds \X Users |->
               LET user == userInfo[x[1]][x[2]]
               IN  Value(poolList[x[1]], user) + SCALE * (user.extraClaimable - user.rewardDebt)]
<1>1. owedTo = DueTable(World)  BY DEF DueTable, Due, Accrued, World
<1>2. Owed = SumOver(owedTo, PoolIds \X Users)  BY DEF Owed, SumOver
<1> HIDE DEF owedTo
<1> QED  BY <1>1, <1>2 DEF Backing, Free, World

LEMMA BackingNext == (Backing = Free(World))'
  BY BackingIs, PTL

\* No call takes more of what the others have accrued than the rounding of the
\* stakes it settles: less than one unit of DEGIS for each of them.
THEOREM RewardsAreBacked == Spec => RewardsStayBacked
<1> DEFINE resettled == {x \in PoolIds \X Users : userInfo'[x[1]][x[2]] # userInfo[x[1]][x[2]]}
           A == Backing' >= Backing - (SCALE - 1) * Cardinality(resettled)
<1>1. ASSUME FarmingInv, VeTyped, VeTyped', [Next]_vars PROVE A
  <2>1. Kept(World', World)  BY <1>1, AnyStepKeeps
  <2>2. Changed(World', World) = resettled  BY DEF Changed, World
  <2>3. Backing' = Free(World') /\ Backing = Free(World)
    <3>1. Backing' = Free(World')  BY BackingNext
    <3> QED  BY <3>1, BackingIs
  <2> QED  BY <2>1, <2>2, <2>3 DEF Kept
<1>2. IInv => VeTyped  BY DEF IInv
<1> QED  BY FarmingInvariant, VeDEGInvariant, <1>1, <1>2, PTL DEF Spec, RewardsStayBacked

=============================================================================
