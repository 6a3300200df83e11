SPECIFICATION RecordsSpec
CONSTANTS
    Ids = {d1, d2}
    Passwords = {p1, p2}
    MaxFaults = 1
    MaxEnds = 3
    MaxMoves = 2
    h1 = h1
    h2 = h2
    netmiko = netmiko
    paramiko = paramiko
    other = other
    Hosts <- MCHosts
    Sessions <- MCSessions
    HostOf <- MCHostOf
    Netmiko = {netmiko}
    Keys = {k1, k2}
    MaxRekeys = 1
    FileFails = TRUE
    Savers = {s1, s2, s3}
    Linked = {s1, s3}
    Deleters = {t1, t2}
    DiskFails = TRUE
SYMMETRY Symmetry
CHECK_DEADLOCK FALSE
INVARIANTS
    AnsweredPasswordsAreKept
    DeletedStaysDeleted
    MemoryMatchesDisk
    TrustIsKept
    BackupsAreKept
    LinksAreTrue
