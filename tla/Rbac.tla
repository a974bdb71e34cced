------------------------------- MODULE Rbac -------------------------------
(***************************************************************************)
(* auth/rbac.py: the roles, what each may do, and the role hierarchy.      *)
(***************************************************************************)
EXTENDS Integers

Permission == {"CHAT", "KICK", "BAN", "UNBAN", "SET"}

Role == {"user", "moderator", "admin"}

\* Mutant: the table gives moderators every permission.
ModeratorsMaySet ==
    [admin |-> Permission, moderator |-> Permission, user |-> {"CHAT"}]

ROLES_PERMISSIONS ==
    [admin     |-> Permission,
     moderator |-> Permission \ {"SET"},
     user      |-> {"CHAT"}]

ROLE_RANK == [user |-> 0, moderator |-> 1, admin |-> 2]

\* Only roles of the table reach this point: set_user_role and register write
\* no other role, so the fall-back of dict.get (the empty set) is not needed.
has_permission(role, permission) == permission \in ROLES_PERMISSIONS[role]

\* Mutant: equal ranks may act on each other.
can_act_on_equals(actorRole, targetRole) == ROLE_RANK[actorRole] >= ROLE_RANK[targetRole]

can_act_on(actorRole, targetRole) == ROLE_RANK[actorRole] > ROLE_RANK[targetRole]
============================================================================
