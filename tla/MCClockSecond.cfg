CONSTANTS
    Servers <- OneServers
    RoleOf <- OneRoleOf
    IdOf <- OneIdOf
    Syncs <- MCSyncs
    SidOf <- MCSidOf
    Clients <- MCClients
    Ids <- MCIds
    Recs = {r1}
    Watchers = {w1, w2, w3, w4}
    MaxBeats = 20
    Nil = Nil
    Faults = {"server"}
    MaxFaults = 3
    SerialStart = TRUE
    MaxPeriods = 14
    MaxSlips = 0
SPECIFICATION PacedSpec
SYMMETRY Symmetry
INVARIANT AliveUnlessMissed
