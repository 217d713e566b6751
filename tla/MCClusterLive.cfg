CONSTANTS
    Servers <- MCServers
    RoleOf <- MCRoleOf
    IdOf <- MCIdOf
    Syncs <- NoSync
    SidOf <- NoSidOf
    Clients <- MCClients
    Ids <- MCIds
    Recs = {r1, r2}
    Watchers = {w1, w2}
    MaxBeats = 1
    Nil = Nil
    Faults = {"server"}
    MaxFaults = 2
    SerialStart = TRUE
SPECIFICATION FairSpec
INVARIANT BeatsWhereRegistered
INVARIANT LiveHasAddress
PROPERTY CrashDetected
PROPERTY Failover
