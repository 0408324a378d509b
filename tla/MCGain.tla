------------------------------- MODULE MCGain -------------------------------
(***************************************************************************)
(* Instances of Gain for TLC: the defaults of agc.py, scaled to tenths of  *)
(* a decibel, with shorter times; stations from too quiet at any gain to   *)
(* clipping at the lowest.                                                 *)
(***************************************************************************)
EXTENDS Gain

MCFloor    == -350
MCClip     == -20
MCLow      == -300
MCHeadroom == -140
MCProgrammes == {-600, -400, -335, -230, -100, 10}
Audible      == {-230}

\* The levels of agc.py leave room for a step at this crest.
ASSUME DeadBandAssumption == DeadBand

=============================================================================
