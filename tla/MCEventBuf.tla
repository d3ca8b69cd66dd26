----------------------------- MODULE MCEventBuf -----------------------------
(* Instances of EventBuf for TLC.                                          *)
EXTENDS EventBuf

AllOps == {"push", "durable", "now", "steer"}
=============================================================================
