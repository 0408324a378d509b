------------------------------ MODULE MCExport ------------------------------
(***************************************************************************)
(* Instances of Export for TLC: the STT worker writes a reading, the       *)
(* transcript and its alert detail, the producer thread a SAME alert.  The *)
(* smaller instance leaves the reading out.                                *)
(***************************************************************************)
EXTENDS Export

CONSTANTS obs, raw, det, alr, worker, producer

MCSection  == {obs, raw, det, alr}
MCOrder    == <<obs, alr, det, raw>>
NoObs      == {raw, det, alr}
NoObsOrder == <<alr, det, raw>>
W(s)       == [sec |-> s, stamp |-> "start"]
Own(s)     == [sec |-> s, stamp |-> "own"]
Spoken     == <<Own(raw), W(det)>>
Transcript == <<W(obs)>> \o Spoken
Alert      == <<W(raw), W(alr)>>
Single     == [s \in MCSection |-> 1]
\* Alerts come in smaller pages, as on the live feed.
AlertsLess == [s \in NoObs |-> IF s = alr THEN 1 ELSE 2]
MCWriter   == {worker, producer}
MCScripts  == [w \in MCWriter |-> IF w = worker THEN {Transcript} ELSE {Alert}]
NoObsScripts == [w \in MCWriter |-> IF w = worker THEN {Spoken} ELSE {Alert}]

=============================================================================
