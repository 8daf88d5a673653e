------------------------ MODULE MCNotificationOutbox ------------------------
(* NotificationOutbox with named processes. *)
EXTENDS NotificationOutbox

CONSTANTS w1, w2, s1, s2
=============================================================================
