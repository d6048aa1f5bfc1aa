SPECIFICATION MCSpec
CONSTANTS
    Parts = {"access"}
    OtaSockets = {}
    OtaTargets = {t1, t2}
    OtaMaxSockets = 2
    OtaFaults = 1
    CmdSockets = {}
    CmdMaxSockets = 1
    CmdResults = 3
    CmdFaults = 1
    LogSockets = {}
    LogMaxSockets = 2
    LogEvents = 3
    LogSlice = 2
    LogFaults = 1
    StSockets = {}
    StMaxSockets = 1
    StReports = 3
    StFaults = 1
    AccClients = {1, 2}
    AccConns = {1, 2, 3}
    AccRechecks = {1, 2}
    AccMaxConns = 2
    AccTokens = 2
    AccFaults = 1
PROPERTIES AccessSettles
CHECK_DEADLOCK FALSE
