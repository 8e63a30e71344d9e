SPECIFICATION Spec
CONSTANTS
    o1 = o1
    o2 = o2
    Orders = {o1}
    Quantity <- OneUnit
    Channel <- OnWeb
    IssuesCodes = {o1}
    Inventories = {1}
    MaxRetries = 1
    Requests = {}
    MaxRefunds = 2
PROPERTIES RefundsNotRepeated
