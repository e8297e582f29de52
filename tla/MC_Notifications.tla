--------------------------- MODULE MC_Notifications ---------------------------
(* Instances of Notifications for TLC. *)
EXTENDS Notifications
=============================================================================
