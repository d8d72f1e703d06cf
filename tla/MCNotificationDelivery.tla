------------------------ MODULE MCNotificationDelivery ------------------------
(* Two users; the first has two notifications, for one target.                 *)
EXTENDS NotificationDelivery, TLC

CONSTANTS u1, u2, t1, t2

TargetOfNote == [n \in Notes |-> IF n = 2 THEN t2 ELSE t1]
OwnerOfTarget == t1 :> u1 @@ t2 :> u2
=============================================================================
