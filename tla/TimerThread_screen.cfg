SPECIFICATION Spec
CONSTANTS
    Parts = {"pages", "statistics", "log", "dump", "theme"}
    rx0 = rx0
    Lcores = {rx0}
    MAX_DUMP_PACKETS = 3
    Bursts = {1, 2}
    Asked = {0, 2, 5}
    Quiet = TRUE
    MaxPackets = 7
    MaxCommands = 4
    NbPorts = 2
    PortsPerPage = 1
    UpdateInterval = 2
    PageRequests <- MCPageRequests
    MaxScreenCommands = 2
    StatPorts = {0, 1}
    ClearLists = {{1}, {0, 1}}
    CounterRange = 16
    MaxTraffic = 1
    MaxClears = 1
    Loggers = {"console", "lcore"}
    LOG_HISTORY = 5
    MAX_PAGE_LINES = 2
    MessageLines = {1, 2}
    MaxMessages = 5
    MaxPerDraw = 2
    ThemeItems <- MCItems
    ColorWords = {"black", "white", "default_fg", "mauve"}
    AttributeWords = {"underline", "shiny"}
    MaxThemeCommands = 4
INVARIANTS CopiesArePrinted ScreenIsTrue ThemeIsRestored
PROPERTIES DumpedIsPrinted PageAskedIsShown
CHECK_DEADLOCK FALSE
