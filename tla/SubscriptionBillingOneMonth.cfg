SPECIFICATION Spec
CONSTANTS
    Orders = {"o1", "o2"}
    Handlers = {h1, h2}
    Plans = {"TRIAL", "SOLO", "PRO"}
    PlanOf <- MCPlanOf
    Rank <- MCRank
    FirstPlan = "TRIAL"
    AdminPlans = {"PRO"}
    Subscribed = {"order.paid", "payment.captured", "payment.failed", "refund.created", "refund.processed"}
    MaxIncidents = 2
INVARIANTS
    OneMonthPerPayment
CHECK_DEADLOCK FALSE
