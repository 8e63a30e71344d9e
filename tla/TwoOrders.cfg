SPECIFICATION FairSpec
CONSTANTS
    o1 = o1
    o2 = o2
    Orders = {o1, o2}
    Quantity <- TwoAndOne
    Channel <- TelegramAndManual
    IssuesCodes = {o1}
    Inventories = {2, 3}
    MaxRetries = 1
    Requests = {}
    MaxRefunds = 1
PROPERTIES LedgerKept RetriesStop
