----------------------- MODULE MCNotificationDelivery -----------------------
(* Small instances of NotificationDelivery for TLC.                         *)
EXTENDS NotificationDelivery
=============================================================================
