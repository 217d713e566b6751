CONSTANTS
    Servers <- MCServers
    RoleOf <- MCRoleOf
    IdOf <- MCIdOf
    Syncs <- MCSyncs
    SidOf <- MCSidOf
    Clients <- MCClients
    Ids <- MCIds
    Recs = {r1}
    Watchers = {w1, w2, w3}
    MaxBeats = 20
    Nil = Nil
    Faults = {"server"}
    MaxFaults = 2
    SerialStart = TRUE
    MaxPeriods = 6
    MaxSlips = 1
SPECIFICATION PacedSpec
SYMMETRY Symmetry
INVARIANT NoFalseDeath
INVARIANT DetectedInTime
INVARIANT MasterKnowsSlave
