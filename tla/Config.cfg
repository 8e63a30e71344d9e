SPECIFICATION Spec
CONSTANTS
    Explored = {"paymentChannels", "providers", "actions", "fulfillmentStrategies", "deliveryStrategies", "telegramConfigs", "internalClientKeys", "runtimeSettings", "auditLogs", "products", "priceTemplates"}
    a = a
    b = b
    Ids <- Both
    SeedIds <- TwoRows
    None = None
    Waiting = Waiting
    Failed = Failed
    Done = Done
    MaxKeys = 3
    MaxCalls = 2
    MaxClicks = 2
INVARIANTS TypeOK ToldIsStored ShownIsStored PricesHaveProducts
CHECK_DEADLOCK FALSE
