CONSTANTS
    Users <- MCUsers
    Clusters <- MCClusters
    HomeOf <- MCHomeOf
    Clients <- OneClient
    Faults = {"server", "sync"}
    MaxFaults = 1
    MaxFollows = 2
    NoFile = NoFile
SPECIFICATION FairSpec
INVARIANT FollowsTypeOK
INVARIANT AnnouncedIsFollowed
INVARIANT AnnouncedOnce
PROPERTY Announced
