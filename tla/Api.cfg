SPECIFICATION MCSpec
CONSTANTS
    Parts = {"accounts", "ui", "framing", "container", "archive", "lists"}
    Tabs = {t1, t2}
    Requests = {1, 2}
    MaxTokens = 3
    MaxBreaks = 1
    MaxFailures = 2
    Argon2Slots = 1
    Grants = {1}
    Managers = {1, 2}
    Pages = {1, 2}
    UiTtl = 2
    MaxNow = 5
    Builds = {1, 2}
    SsrSlots = 1
    Bytes = {0, 1, 2, 130}
    MaxFrame = 5
    MaxStream = 6
    MaxElements = 2
    MaxDepth = 3
    BundleSizes = {0, 1, 2, 3}
    p1 = p1
    p2 = p2
    ArcDevices = {1, 2}
    ArcProjects = {p1, p2}
    ArcBuilds = {"a", "b"}
    ArcHome <- TwoProjects
    ArcRequests = {u1, u2}
    ArcMaxRows = 2
    ArcReports = 2
    ArcFaults = 1
    ListIds = {1, 2, 3, 4}
    ListTimes = 3
    ListPage = 2
    ListLimit = 3
SYMMETRY Interchangeable
INVARIANTS CredentialsSpentOnce FramingFaithful ContainerFaithful EventsLinked ListingsComplete
CHECK_DEADLOCK FALSE
