SPECIFICATION MCSpec
CONSTANTS
    OctetBits = 1
    Octets4 = 2
    Octets6 = 3
    EXPR_MAX_DEPTH = 4
    Less <- MCLess
    IntOf <- MCIntOf
    Regex <- MCRegex
    Group <- MCGroup
    IsUrl <- MCIsUrl
    IsAbsolute <- MCIsAbsolute
    Longer <- MCLonger
    Climbs <- MCClimbs
    Lower <- MCLower
    Upper <- MCSame
    Requoted <- MCOne
    AddrOf <- MCAddrOf
    NoCreds <- MCNoCreds
    Password <- MCPassword
    MAX_DIR_DEPTH = 3
    Files <- MCFiles
    Inodes = {1, 2}
    Contents <- MCContents
    SizeOf <- MCSizeOf
    Torn <- MCTorn
    Nothing <- MCNothing
    NoInode = 0
    NoEntry = NoEntry
    CACHE_MAX_ENTRIES = 2
    SizeLimit = 2
    Workers = {w1, w2}
    Clients = {c1, c2}
    w1 = w1
    c1 = c1
    c2 = c2
    Addresses <- MCAddresses
    NoIp = "none"
    TrustedProxy <- MCTrustedProxy
    Class <- MCClass
    Day = 1
    TTL = 1
    NoSecret = NoSecret
    NoCookie = NoCookie
    NoPuzzle = NoPuzzle
    EmptyKey = EmptyKey
    Requests <- MCRequests
    DocRoot <- MCRoot
    Vhroot <- MCSrv
    DirsOf <- MCDirsOf
    IpOf <- MCIp
    Present <- MCPresent
    Outside <- MCOutside
    IsHt <- MCIsHt
    IsPhp <- MCIsPhp
    Blacklisted <- MCBlacklisted
    MaxEdits = 2
    MaxAsked = 2
    MaxTrouble = 1
INVARIANTS Fresh MergedAsWritten ServedAsWritten RewrittenAsWritten SecretsAgree
PROPERTY NoLoops
CHECK_DEADLOCK FALSE
