CONSTANTS
    Users <- ThreeUsers
    Clusters <- MCClusters
    HomeOf <- ThreeHomeOf
    Clients <- ThreeUsers
    Faults = {}
    MaxFaults = 0
    MaxFollows = 1
    NoFile = NoFile
SPECIFICATION Spec
PROPERTY FollowKillsNobody
