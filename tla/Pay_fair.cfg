\* The server's loop beside two other dispatchers, endpoints and watches coming and
\* going, passes dying.  Under the fairness of the loop alone.
SPECIFICATION FairSpec
CONSTANTS
    server = server
    cli = cli
    desktop = desktop
    e1 = e1
    w1 = w1
    l1 = l1
    None = None
    Server = server
    Dispatchers <- ThreeDispatchers
    Endpoints <- OneEndpoint
    Watches <- OneWatch
    BankLines <- OneLine
    Carries <- EveryLine
    MaxAttempts = 3
    MaxRestarts = 1
INVARIANTS
    SettledForAReason
    SecretsFollowEndpoints
PROPERTIES
    EventuallySettled
CHECK_DEADLOCK FALSE
