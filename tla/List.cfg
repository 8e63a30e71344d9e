SPECIFICATION Spec
CONSTANTS
    Explored = {"orders", "payments", "proofs", "callbacks", "watchers", "fulfillments", "codeIssues", "deliveries", "tickets", "customers", "bindings", "botDeliveries", "recentOrders", "urgentTickets", "providerHealth"}
    Elsewhere = {"cancel", "resolve", "reject_proof", "retry_issue", "retry_record", "retry_delivered"}
    a = a
    b = b
    Keys <- Both
    None = None
    Waiting = Waiting
    Failed = Failed
    Done = Done
    MaxClicks = 2
    MaxCalls = 2
    MaxMoves = 1
INVARIANTS TypeOK TableIsServed BatchMatchesFilter ToldIsDone UnpaidIsNotDelivered
SYMMETRY Swap
CHECK_DEADLOCK FALSE
