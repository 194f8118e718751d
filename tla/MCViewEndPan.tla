---------------------------- MODULE MCViewEndPan ----------------------------
(***************************************************************************)
(* The windows and moves of MCViewEnd that the view is right for.          *)
(***************************************************************************)
EXTENDS MCViewEnd

ASSUME InstanceWithinLimits == WithinLimits
=============================================================================
