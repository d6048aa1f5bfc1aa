SPECIFICATION MCSpec
CONSTANTS
    Parts = {"ota", "command", "log", "status"}
    OtaSockets = {w1, w2}
    OtaTargets = {t1, t2}
    OtaMaxSockets = 2
    OtaFaults = 1
    CmdSockets = {w1, w2}
    CmdMaxSockets = 1
    CmdResults = 3
    CmdFaults = 1
    LogSockets = {w1, w2}
    LogMaxSockets = 2
    LogEvents = 3
    LogSlice = 2
    LogFaults = 1
    StSockets = {w1, w2}
    StMaxSockets = 1
    StReports = 3
    StFaults = 1
    AccClients = {1}
    AccConns = {1}
    AccRechecks = {1}
    AccMaxConns = 2
    AccTokens = 1
    AccFaults = 1
PROPERTIES StreamsSettle
CHECK_DEADLOCK FALSE
