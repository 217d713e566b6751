CONSTANTS
    Servers <- MCServers
    RoleOf <- MCRoleOf
    IdOf <- MCIdOf
    Syncs <- MCSyncs
    SidOf <- MCSidOf
    Clients <- MCClients
    Ids <- MCIds
    Recs = {r1}
    Watchers = {w1}
    TheRec = r1
    TheWatcher = w1
    MaxBeats = 3
    Nil = Nil
SPECIFICATION RunSpec
PROPERTY HeartbeatsAreTokens
