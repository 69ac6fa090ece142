---------------------------- MODULE MCLiveAlerts ----------------------------
(* An instance of LiveAlerts for TLC. *)
EXTENDS LiveAlerts, TLC

=============================================================================
