SPECIFICATION Spec
CONSTANTS
    Users <- MCUsers
    Arrivals <- MCArrivals
    Addresses <- MCAddresses
    MaxAsks <- MCMaxAsks
    MaxSaves <- MCMaxSaves
INVARIANTS
    TypeOK
    PermissionsOfUser
    OwnRolesHeld
    ReadsGranted
    OffersGranted
    NoDeadLinks
    CacheOfUser
PROPERTIES
    SessionSettles
    PermissionsSettle
