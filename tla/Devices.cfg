\* The data folder, the mailbox, the operation log and the identity, one at a time.
SPECIFICATION DevicesSpec
CONSTANTS
    desktop = desktop
    cli = cli
    home = home
    drive = drive
    None = None
    Movers <- OneMover
    Users <- OneUser
    Folders <- TwoFolders
    Home = home
    MaxCommits = 2
    MaxAttempts = 4
    MaxCrashes = 2
    Connectors = {"imap", "gmail", "graph"}
    Mail = 4
    Unreadable = {2}
    Filtered = {4}
    Alerts = {3}
    Contents = {"slip"}
    Attached <- MCAttached
    Unset = Unset
    MaxFailures = 2
    Rows = {"contact", "journal"}
    Facts = {"journal"}
    Sealers = {"app", "cli"}
    MaxDrift = 0
    MaxWrites = 3
    MaxWall = 1
    MaxKey = 2
    Devices = {"laptop", "phone"}
    Programs = {"app", "cli", "phone"}
    On <- MCOn
    Missing = Missing
    MaxKeys = 2
    Invites = {1}
    MaxDeaths = 1
INVARIANTS
    PointerNamesBooks
    TheirBooksUntouched
    CursorPassesNothing
    ReplayGivesTheTables
    PairingIsMutual
    IdentityIsWhole
PROPERTIES
    MovesAreResumed
    ImplementsMovableBooks
    MailGetsThrough
CHECK_DEADLOCK FALSE
