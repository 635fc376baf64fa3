-------------------------- MODULE MCNotifications --------------------------
(***************************************************************************)
(* Notifications for TLC: two clients, one transaction, two blocks.        *)
(***************************************************************************)
EXTENDS Notifications, TLC

CONSTANTS c1, c2, t1

=============================================================================
