--------------------------- MODULE MCNotifications ---------------------------
(* Instances of Notifications. *)
EXTENDS Notifications
=============================================================================
