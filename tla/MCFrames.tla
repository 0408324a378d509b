------------------------------ MODULE MCFrames ------------------------------
(***************************************************************************)
(* An instance of Frames for TLC.  The pauses are longer than the windows  *)
(* they must be told from, the buffer and a segment shorter than the       *)
(* stream.                                                                 *)
(***************************************************************************)
EXTENDS Frames, TLC

CONSTANTS h1, h2
HeaderSymmetry == Permutations({h1, h2})

=============================================================================
