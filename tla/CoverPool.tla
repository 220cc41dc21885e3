----------------------------- MODULE CoverPool -----------------------------
(***************************************************************************)
(* What the flight delay product promises, without its bookkeeping: every  *)
(* policy is sold once and settled once, a claim costs the capital at most *)
(* its cover, and the capital that the open policies may still need cannot *)
(* be withdrawn or sold a second time.                                     *)
(***************************************************************************)
EXTENDS Integers, FiniteSets

CONSTANTS
    Policies,   \* policy identifiers
    Cover       \* the largest payoff of a policy

VARIABLES
    phase,      \* of each policy: unsold, open or settled
    capital     \* what the providers own together

coverVars == <<phase, capital>>

Open == {p \in Policies : phase[p] = "open"}

Reserved == Cover * Cardinality(Open)

Init ==
    /\ phase = [p \in Policies |-> "unsold"]
    /\ capital = 0

Fund ==
    /\ capital' > capital
    /\ UNCHANGED phase

Withdraw ==
    /\ capital' < capital
    /\ capital' >= Reserved
    /\ UNCHANGED phase

Sell(p) ==
    /\ phase[p] = "unsold"
    /\ capital >= Reserved + Cover
    /\ phase' = [phase EXCEPT ![p] = "open"]
    /\ UNCHANGED capital

\* The capital may also grow by a share of the premium.
Settle(p) ==
    /\ phase[p] = "open"
    /\ phase' = [phase EXCEPT ![p] = "settled"]
    /\ capital' >= capital - Cover

Next == Fund \/ Withdraw \/ \E p \in Policies : Sell(p) \/ Settle(p)

Spec == Init /\ [][Next]_coverVars
=============================================================================
