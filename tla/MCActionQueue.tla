---------------------------- MODULE MCActionQueue ----------------------------
(***************************************************************************)
(* A small instance of the action queue for TLC, in all its configurations.*)
(***************************************************************************)
EXTENDS ActionQueueProps

LowWatermarks == {0, 1}
AllConfigs == [low_watermark : LowWatermarks, handoff_policy : {"replace", "append"}]
=============================================================================
