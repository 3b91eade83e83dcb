\* Is a message acknowledged only when its attachment is in the store?
SPECIFICATION DevicesSpec
CONSTANTS
    desktop = desktop
    cli = cli
    home = home
    drive = drive
    None = None
    Movers = {}
    Users = {}
    Folders <- TwoFolders
    Home = home
    MaxCommits = 0
    MaxAttempts = 0
    MaxCrashes = 0
    Connectors = {"imap", "gmail", "graph"}
    Mail = 4
    Unreadable = {2}
    Filtered = {4}
    Alerts = {3}
    Contents = {"slip"}
    Attached <- MCAttached
    Unset = Unset
    MaxFailures = 2
    Rows = {}
    Facts = {}
    Sealers = {"app", "cli"}
    MaxDrift = 0
    MaxWrites = 0
    MaxWall = 0
    MaxKey = 0
    Devices = {"laptop", "phone"}
    Programs = {"app", "cli", "phone"}
    On <- MCOn
    Missing = Missing
    MaxKeys = 0
    Invites = {}
    MaxDeaths = 0
INVARIANTS
    AckedMailIsStored
CHECK_DEADLOCK FALSE
