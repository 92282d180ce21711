----------------------- MODULE MCSubscriptionBilling -----------------------
(* Bounds for SubscriptionBilling: the plan catalog and its ranks. *)
EXTENDS SubscriptionBilling

MCRank == [p \in Plans |-> CASE p = "TRIAL" -> 0 [] p = "SOLO" -> 1
                             [] p = "PRO" -> 2 [] p = "ENTERPRISE" -> 3]

\* One order for each plan that is sold.
MCPlanOf == [o \in Orders |-> IF o = "o1" THEN "SOLO" ELSE "PRO"]
=============================================================================
