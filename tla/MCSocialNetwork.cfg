CONSTANTS
    Names <- MCNames
    Clients <- MCClients
    NameOf <- MCNameOf
    Page = 1
    Faults = {"kill", "early", "stream", "late"}
    MaxFaults = 2
    MaxPosts <- MCMaxPosts
    Nil = Nil
    Gone = Gone
SPECIFICATION FairSpec
INVARIANT SocialTypeOK
INVARIANT Restartable
INVARIANT FiledInOrder
INVARIANT ShownOnce
PROPERTY GraphKept
PROPERTY Delivered
