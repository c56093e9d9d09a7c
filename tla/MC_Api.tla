------------------------------- MODULE MC_Api -------------------------------
(* Instance of CampaignApi for TLC: two merchants with a campaign each.    *)
(* Each workload is the operations that race for one thing: the list cache *)
(* and its invalidation, the writes that do not invalidate, the rows of a  *)
(* reorder, the ids of new campaigns, a claim, a nonce; and the reads with *)
(* the writes they may meet.                                               *)
EXTENDS CampaignApi, TLC

CONSTANTS m1, m2, u1

MC_Seed == <<m1, m2>>

MC_Workloads ==
    {("list" :> 2) @@ ("patch" :> 1) @@ ("tick" :> 1),
     ("list" :> 1) @@ ("patch" :> 1) @@ ("fault" :> 1) @@ ("restart" :> 1),
     ("list" :> 1) @@ ("delete" :> 1) @@ ("restore" :> 1) @@ ("tick" :> 2),
     ("reorder" :> 2) @@ ("delete" :> 1) @@ ("fault" :> 1),
     ("post" :> 2) @@ ("fault" :> 1) @@ ("restart" :> 1) @@ ("tick" :> 1),
     ("list" :> 1) @@ ("post" :> 1) @@ ("tick" :> 1),
     ("claim" :> 2) @@ ("report" :> 1) @@ ("fault" :> 1) @@ ("tick" :> 1),
     ("claim" :> 1) @@ ("rewards" :> 1) @@ ("delete" :> 1) @@ ("fault" :> 1),
     ("claim" :> 1) @@ ("analytics" :> 1) @@ ("fault" :> 1),
     ("post" :> 1) @@ ("audit-logs" :> 1) @@ ("fault" :> 1),
     ("record" :> 2) @@ ("transactions" :> 1) @@ ("fault" :> 1),
     ("sign-in" :> 1) @@ ("restart" :> 1) @@ ("tick" :> 2),
     ("patch" :> 1) @@ ("delete" :> 1) @@ ("shutdown" :> 1)}

MC_Filters ==
    {Everything, [Everything EXCEPT !.status = "active"],
     [status |-> "active", owner |-> m1]}

MC_Rows ==
    <<[owner |-> m1, active |-> TRUE, deleted |-> FALSE, order |-> 0],
      [owner |-> m2, active |-> TRUE, deleted |-> FALSE, order |-> 1]>>

MC_Orders == {<<1, 2>>, <<2, 7, 1, 2>>}
=============================================================================
