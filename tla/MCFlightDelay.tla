--------------------------- MODULE MCFlightDelay ---------------------------
(***************************************************************************)
(* Instances of FlightDelay for TLC.  Amounts are whole USD (UNIT = 1),    *)
(* fixed point has four digits.                                            *)
(***************************************************************************)
EXTENDS FlightDelay

CONSTANTS u1, u2, u3

MCUsers == {u1, u2}

ThreeUsers == MCUsers \cup {u3}

\* Both offers are for a flight that leaves on day 11.  The premium 15 does
\* not divide evenly among providers, lottery and emergency pool.
MCQuotes == {[premium |-> 15, departure |-> 11, landing |-> 12,
              deadline |-> 10]}

TwoFlights == MCQuotes \cup {[premium |-> 20, departure |-> 19,
                              landing |-> 20, deadline |-> 12]}

\* On time, half an hour, one hour, four hours, cancelled, and an answer that
\* is out of range.
NormalResults == {0, 60, 400}
CoreResults   == {0, 30, 240, 300, 400}

\* Day 10 is the deployment, day 12 the landing, day 20 is past the frozen
\* time of a stake made on day 12.
MCMoments == {12, 20}

LowerPayoff  == {100}
WiderDelay   == {[min |-> 15, max |-> 300]}
NoLpShare    == {[lp |-> 0, lottery |-> 50, emergency |-> 50]}
=============================================================================
