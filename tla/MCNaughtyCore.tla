--------------------------- MODULE MCNaughtyCore ---------------------------
(***************************************************************************)
(* Instances of NaughtyCore for TLC.                                       *)
(***************************************************************************)
EXTENDS NaughtyCore

CONSTANTS u1, u2, u3, p1, p2, usdc

MCCoins == {usdc}

\* Day 1 is the deployment, day 2 the deadline, day 3 the settlement.
MCInstants == {2, 3}

Put(deadline, settlement, type) ==
    [isCall |-> FALSE, strikePrice |-> 50, deadline |-> deadline,
     settleTimestamp |-> settlement, poolType |-> type]

Call(deadline, settlement, type) ==
    [Put(deadline, settlement, type) EXCEPT !.isCall = TRUE]

\* The second policy may be settled in the block of its deadline.
MCTerms        == {Put(2, 3, "normal"), Call(2, 2, "normal")}
PutTerms       == {Put(2, 3, "normal"), Put(2, 2, "IDO")}
ArbitraryTerms == {Call(2, 3, "arbitrary"), Put(2, 3, "arbitrary")}

TwoTerms       == {Put(2, 3, "normal"), Call(2, 3, "normal")}

\* Below and above the strike price of 50.
MCPrices == {40, 60}

ZeroPrice == MCPrices \cup {0}

AllWired == Roles

NoLottery == Roles \ {"lottery"}

\* Users and policies are interchangeable.
Symmetry == Permutations({u1, u2}) \cup Permutations({p1, p2})
=============================================================================
