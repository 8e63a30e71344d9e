SPECIFICATION IntakeSpec
CONSTANTS
    o1 = o1
    o2 = o2
    t1 = t1
    Orders = {o1, o2}
    Quantity <- OneAndTwo
    Channel <- OnWeb
    IssuesCodes = {}
    Inventories = {1}
    MaxRetries = 0
    Requests = {}
    MaxRefunds = 0
    Transfers = {t1}
    Timeline <- OneTransfer
    ByAge <- Both
    Fit <- AllAlike
    SameAmount <- AllAlike
    Reports <- FirstOnly
    AutoFulfill = TRUE
    AutoDeliver = TRUE
    Calls = {c1, c2}
    Sweeper = sweeper
    None = None
INVARIANTS IntakeTypeOK TransferPaysOneOrder
PROPERTIES SweepIsSound PaymentRecordKept OrdersKept
SYMMETRY Alike
