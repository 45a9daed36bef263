----------------------------- MODULE MCCapture -----------------------------
(* Capture on a short list, for TLC.                                       *)
EXTENDS Capture

ShortList == <<"r2", "r1">>
=============================================================================
