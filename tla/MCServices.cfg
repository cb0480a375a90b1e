\* Two administrators over two seconds, with one failing command; two accounts
\* and two requests at once; one delivery worker; two exports over three ticks;
\* three jobs, three items.
CONSTANTS
    Admins = {1, 2}
    MaxSecond = 2
    MaxEdits = 1
    MaxBackups = 2
    MaxBackupFaults = 1
    UserIds = {1, 2}
    UserNames = {"p", "q"}
    Requests = {1, 2}
    MaxPasswords = 1
    MaxAccountOps = 4
    Members = {1, 2}
    UserTypes = {"u"}
    AdminTypes = {"a"}
    DefaultOn = {"u"}
    KeyedTypes = {"a"}
    EventIds = {1, 2, 3}
    MaxEventTime = 1
    RetentionTime = 0
    MaxChannels = 2
    NotifyWorkers = {1}
    FeedLimit = 1
    MaxNotifyFaults = 1
    Libraries <- LibrarySet
    Destinations <- CopySet
    TagFold <- LowerCase
    DestPlatforms = {"pc"}
    DestStorefronts = {"steam"}
    NoStorefront = NoStorefront
    ExportJobs = {1, 2}
    ImportWorkers = {1, 2}
    MaxExportTime = 2
    FileAge = 1
    MaxExportEdits = 1
    MaxExportFaults = 1
    JobIds = {1, 2, 3}
    MaxTime = 3
    RowIds = {1, 2, 3}
    BatchOf <- Batches
    JobItemRows <- ItemRows
    ItemsPerPage = 2
SPECIFICATION Spec
INVARIANTS
    ServedWhole OneAtTheDatabase AdministratorStands TriedOnce FeedComplete
    DownloadIsOwn RoundTrip ViewsAgree
PROPERTIES RolledBackIsCurrent PollSeesCompletion
\* Every part ends when its bounds are reached.
CHECK_DEADLOCK FALSE
