SPECIFICATION Spec
CONSTANTS
    c1 = c1
    c2 = c2
    c3 = c3
    alice = alice
    bob = bob
    ip1 = ip1
    ip2 = ip2
    Socket = {c1, c2, c3}
    Username = {alice}
    IP = {ip1}
    MaxConnectionsPerIp = 2
    None = None
    Console = Console
    InitialRole <- OrdinaryUsers
    ConsoleOps = {"KICK", "BAN", "SET"}
    ClientOps = {"MSG"}
    NewRoles = {"moderator"}
    Stalling = {c1, c2, c3}
SYMMETRY ConnectionSymmetry
INVARIANTS IpCountsExact IpCapRespected ServerTypeOK FinishedLeavesNothing PendingOwned
PROPERTIES RegistrySpec BanHolds UniqueUntilForeignRelease
CHECK_DEADLOCK FALSE
