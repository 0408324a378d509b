----------------------------- MODULE MCForecast -----------------------------
(***************************************************************************)
(* Instances of Forecast for TLC: a morning readout, and the later one in  *)
(* which today is over, tonight is revised and the name of the area is not *)
(* heard right.                                                            *)
(***************************************************************************)
EXTENDS Forecast

CONSTANTS today, tonight, thursday, home, misheard

MCPeriod == {today, tonight, thursday}
MCNight  == {tonight}
MCPred   == [p \in MCPeriod |-> IF p = tonight THEN today ELSE None]
C(k, x)     == [kind |-> k, x |-> x]
Says(k, p, v) == C(k, [of |-> p, v |-> v])

Morning == <<C("area", home), C("header", today), Says("precip", today, 70),
             C("header", tonight), Says("steady", tonight, 60)>>
Evening == <<C("area", misheard), C("header", tonight), Says("low", tonight, 61),
             C("header", thursday), Says("high", thursday, 80)>>
MCReadouts == {Morning, Evening}
MCArea     == {home, misheard}

\* Both readouts are texts of one day.
ASSUME InOrderAssumption == TextsInOrder

=============================================================================
