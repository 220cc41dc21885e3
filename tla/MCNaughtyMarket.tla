-------------------------- MODULE MCNaughtyMarket --------------------------
(***************************************************************************)
(* Instances of NaughtyMarket for TLC: one policy, small amounts, and a    *)
(* fee of one part in fifty.                                               *)
(***************************************************************************)
EXTENDS NaughtyMarket, TLC

CONSTANTS u1, u2, p1, usdc

\* Day 1 is the deployment, day 2 the deadline, day 3 the settlement.
MCInstants == {2, 3}

OnePut == {[isCall |-> FALSE, strikePrice |-> 50, deadline |-> 2,
            settleTimestamp |-> 3, poolType |-> "normal"]}

AllWired == Roles

MCUsers == Permutations({u1, u2})

Contracts == {Pair, Factory, IncomeMaker}
=============================================================================
