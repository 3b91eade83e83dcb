\* Two dispatchers: does a delivered delivery stay delivered?
SPECIFICATION Spec
CONSTANTS
    server = server
    cli = cli
    desktop = desktop
    e1 = e1
    w1 = w1
    l1 = l1
    None = None
    Server = server
    Dispatchers <- TwoDispatchers
    Endpoints <- OneEndpoint
    Watches <- OneWatch
    BankLines <- OneLine
    Carries <- EveryLine
    MaxAttempts = 3
    MaxRestarts = 1
PROPERTIES
    DeliveredIsDone
CHECK_DEADLOCK FALSE
