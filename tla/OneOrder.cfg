SPECIFICATION Spec
CONSTANTS
    o1 = o1
    o2 = o2
    Orders = {o1}
    Quantity <- TwoAndOne
    Channel <- OnWeb
    IssuesCodes = {o1}
    Inventories = {1, 3}
    MaxRetries = 2
    Requests = {r1}
    MaxRefunds = 2
INVARIANTS TypeOK StockConserved QueuedRetryIsForFailed CompletedIsBacked
PROPERTIES ResultsSurvive PaymentKept
