--------------------------- MODULE MCChatServer ---------------------------
(***************************************************************************)
(* Small instances of ChatServer.  The configurations choose among these   *)
(* definitions and give the sets of sockets, names and addresses.          *)
(***************************************************************************)
EXTENDS ChatServer, TLC

CONSTANTS c1, c2, c3, alice, bob, ip1, ip2

\* users.json with ordinary accounts only, with a moderator or an administrator
\* and a name that is still free, and with a moderator and a user.
OrdinaryUsers == [n \in Username |-> "user"]
ModeratorAndNobody == [n \in Username |-> IF n = alice THEN "moderator" ELSE None]
AdminAndNobody == [n \in Username |-> IF n = alice THEN "admin" ELSE None]

ConnectionSymmetry == Permutations(Socket)
============================================================================
