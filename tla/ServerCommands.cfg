SPECIFICATION FairSpec
CONSTANTS
    c1 = c1
    c2 = c2
    c3 = c3
    alice = alice
    bob = bob
    ip1 = ip1
    ip2 = ip2
    Socket = {c1, c2}
    Username = {alice, bob}
    IP = {ip1}
    MaxConnectionsPerIp = 2
    None = None
    Console = Console
    InitialRole <- ModeratorAndNobody
    ConsoleOps = {}
    ClientOps = {"KICK", "BAN", "UNBAN", "SET", "MSG"}
    NewRoles = {"admin"}
    Stalling = {c1, c2}
INVARIANTS NoEscalation NameIndexSound OnlineNotPending
PROPERTIES RankHolds PendingSettles SlotComesBack
CHECK_DEADLOCK FALSE
