----------------------------- MODULE MCPipeline -----------------------------
(***************************************************************************)
(* Instances of Pipeline for TLC.  The observation is read with one number *)
(* and then with another (obs1, obs2): the audio is alike, the second      *)
(* transcript is an update of the first.  The warning resembles neither.   *)
(***************************************************************************)
EXTENDS Pipeline, TLC

CONSTANTS obs1, obs2, warn, hdr, temp, sky

MCText     == {obs1, obs2, warn}
MCHeader   == {hdr}
MCField    == {temp, sky}
MCReadings == obs1 :> <<temp, sky>> @@ obs2 :> <<temp>> @@ warn :> <<>>
\* Routing does not depend on what a transcript states.
NoReadings == [t \in MCText |-> <<>>]
MCProduct  == obs1 :> "current_conditions" @@ obs2 :> "current_conditions"
                @@ warn :> "tornado_warning"
MCAlike    == {obs1, obs2} \X {obs1, obs2} \cup {<<warn, warn>>}
MCRatio    == [p \in MCText \X MCText |->
                 IF p[1] = p[2] THEN 100 ELSE IF warn \in {p[1], p[2]} THEN 20 ELSE 95]

=============================================================================
