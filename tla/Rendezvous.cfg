SPECIFICATION Spec
CONSTANTS
    None = None
    Ids = {"i1"}
    Keys = {"device", "stranger"}
    IdOf <- OneId
    Conns = {"d1", "d2", "s1"}
    KeyOf <- KeyOfConn
    Tokens = {"device"}
    Viewers = {"v1"}
    IdWanted <- WantedId
    KeyGranted <- GrantedKey
INVARIANTS
    TypeOK
    LatestStaysRegistered
    ManagedOutranks
    OnlyOnceReady
    ServedAreRemoved
