---------------------------- MODULE MCNaughtyILM ----------------------------
(***************************************************************************)
(* Instances of NaughtyILM for TLC: one policy and its round.              *)
(***************************************************************************)
EXTENDS NaughtyILM

CONSTANTS u1, u2, p1, usdc

\* Day 1 is the deployment and the last of the round, day 3 the deadline of
\* the policy, day 4 the settlement.
MCInstants == {2, 4}

OnePut == {[isCall |-> FALSE, strikePrice |-> 50, deadline |-> 3,
            settleTimestamp |-> 4, poolType |-> "normal"]}

AllWired == Roles

MCUsers == Permutations({u1, u2})

Contracts == {Pair, Factory, IncomeMaker, ILM, Owner, EmergencyPool}
=============================================================================
