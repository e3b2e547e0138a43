SPECIFICATION TabsSpec
CONSTANTS
    s1 = s1
    s2 = s2
    m1 = m1
    m2 = m2
    t1 = t1
    t2 = t2
    FilePaths <- Listing
    Directories <- Folders
    Archives <- Zips
    Trees <- Listings
    FileServers = {s1, s2}
    FirstServer = s1
    NoFile = NoFile
    EditFiles = {f1, f2}
    MaxEdits = 1
    NoText = NoText
    TaskIds = {k1}
    TaskServers = {s1, s2}
    HomeServer = s1
    Urls <- Addresses
    PresetOf <- Presets
    StoredTasks <- Configs
    NoTask = NoTask
    MaxTaskEdits = 1
    PageServers = {s1, s2}
    TpsSamples = {0, 14, 15, 18}
    FirstOfPage = s1
    NoServer = NoServer
    Gone = Gone
    ConsoleServers = {s1, s2}
    FirstConsole = s1
    MaxReconnects = 2
    PanelServers = {s1, s2}
    HomePanel = s1
    PanelModules = {m1, m2}
    HostOf <- Hosts
    NoModule = NoModule
    Templates = {t1, t2}
    PortsOf <- PortsAre
    HasVolumes = {t1}
    FirstFreePort = 8
    NoTemplate = NoTemplate
    MaxFormEdits = 1
    FormServers = {s1, s2}
    FirstForm = s1
    NoForm = NoForm
    ConfigFields = {f1, f2}
    MaxTabCalls = 2
CHECK_DEADLOCK FALSE
INVARIANTS TabsTypeOK ShowsItsOwn NothingLeftRunning FormsSendWhatTheyShow
PROPERTIES WaitingEnds
