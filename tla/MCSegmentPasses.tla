-------------------------- MODULE MCSegmentPasses --------------------------
(* Instances of SegmentPasses for TLC.                                      *)
EXTENDS MCSegmentStore, SegmentPasses
=============================================================================
