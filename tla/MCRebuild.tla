----------------------------- MODULE MCRebuild -----------------------------
(***************************************************************************)
(* Instances of Rebuild for TLC: two readings of one field, one spoken     *)
(* warning, one SAME header.                                               *)
(***************************************************************************)
EXTENDS Rebuild

CONSTANTS temp1, temp2, warn, hdr

=============================================================================
