CONSTANTS
    Servers <- MCServers
    RoleOf <- MCRoleOf
    IdOf <- MCIdOf
    Syncs <- OneSync
    SidOf <- OneSidOf
    Clients <- TwoClients
    Ids <- TwoIds
    Recs = {r1, r2}
    Watchers = {w1, w2}
    MaxBeats = 1
    Nil = Nil
    Faults = {"server", "sync", "coord", "rpc", "beat"}
    MaxFaults = 1
    SerialStart = FALSE
SPECIFICATION Spec
SYMMETRY Symmetry
INVARIANT ClusterTypeOK
INVARIANT RoutedHome
INVARIANT RegisteredAtHome
INVARIANT WatchedMaster
INVARIANT StubsStayHome
INVARIANT LeadBounded
