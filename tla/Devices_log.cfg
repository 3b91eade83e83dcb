\* Does a move that died and is run again keep every commit?
SPECIFICATION DevicesSpec
CONSTANTS
    desktop = desktop
    cli = cli
    home = home
    drive = drive
    None = None
    Movers <- OneMover
    Users <- OneUser
    Folders <- TwoFolders
    Home = home
    MaxCommits = 2
    MaxAttempts = 3
    MaxCrashes = 1
    Connectors = {"imap"}
    Mail = 0
    Unreadable = {}
    Filtered = {}
    Alerts = {}
    Contents = {}
    Attached <- MCAttached
    Unset = Unset
    MaxFailures = 0
    Rows = {}
    Facts = {}
    Sealers = {"app", "cli"}
    MaxDrift = 0
    MaxWrites = 0
    MaxWall = 0
    MaxKey = 0
    Devices = {"laptop", "phone"}
    Programs = {"app", "cli", "phone"}
    On <- MCOn
    Missing = Missing
    MaxKeys = 0
    Invites = {}
    MaxDeaths = 0
PROPERTIES
    MoveKeepsTheBooks
CHECK_DEADLOCK FALSE
