---------------------------- MODULE MCUserStore ----------------------------
(* A small instance of UserStore: an account with an old hash, a name that is
   free and one that is not allowed. *)
EXTENDS UserStore

CONSTANTS t1, t2, t3, alice, bob, eve

LegacyAlice ==
    [n \in Username |-> IF n = alice THEN [hash |-> "legacy", role |-> "user"] ELSE None]

Req(op, n, r) == [op |-> op, name |-> n, role |-> r]

Requests ==
    {Req("REGISTER", bob, "user"), Req("REGISTER", eve, "user"),
     Req("SET", alice, "moderator"), Req("SET", bob, "admin"), Req("SET", alice, "owner"),
     Req("LOGIN", alice, "user"), Req("ROLE", bob, "user"),
     Req("BAN", alice, "user"), Req("UNBAN", alice, "user")}
============================================================================
