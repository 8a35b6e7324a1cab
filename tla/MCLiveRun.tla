----------------------------- MODULE MCLiveRun -----------------------------
(* Small instances of LiveRun for TLC.                                     *)
EXTENDS LiveRun
=============================================================================
