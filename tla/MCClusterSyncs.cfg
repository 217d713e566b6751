CONSTANTS
    Servers <- OneServers
    RoleOf <- OneRoleOf
    IdOf <- OneIdOf
    Syncs <- MCSyncs
    SidOf <- MCSidOf
    Clients <- MCClients
    Ids <- MCIds
    Recs = {r1}
    Watchers = {w1}
    MaxBeats = 1
    Nil = Nil
    Faults = {"sync", "rpc", "server"}
    MaxFaults = 2
    SerialStart = FALSE
SPECIFICATION FairSpec
INVARIANT ManagedOnce
PROPERTY EventuallyRegistered
