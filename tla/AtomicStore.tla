---------------------------- MODULE AtomicStore ----------------------------
(***************************************************************************)
(* What auth/authentication.py and handlers/ban_handler.py promise about   *)
(* the account file and the ban file: every call takes effect at most once *)
(* and at one moment between the call and its answer, an answer of True    *)
(* means that it did, a call that raises or that a crash cuts off leaves no*)
(* trace unless it was already done, and a crash changes no file.  A LOGIN *)
(* may in addition renew the hash of its account and nothing else of it.   *)
(***************************************************************************)
CONSTANTS Thread, Nickname, Role, Request, None

VARIABLES
    users,   \* Username -> account, or None
    banned,  \* the banned names
    req,     \* the call each thread is in, or None
    ans      \* what it will return, or None while it has not taken effect

storeVars == <<users, banned, req, ans>>

AtomicInit == req = [t \in Thread |-> None] /\ ans = [t \in Thread |-> None]

Call(t) ==
    /\ req[t] = None
    /\ \E r \in Request : req' = [req EXCEPT ![t] = r]
    /\ UNCHANGED <<users, banned, ans>>

\* The calls under way: op is the function, name its first argument.
Open(t, op) == req[t] # None /\ ans[t] = None /\ req[t].op = op

Answer(t, a) == ans' = [ans EXCEPT ![t] = a] /\ UNCHANGED req

DoRegister(t) ==
    /\ Open(t, "REGISTER") /\ req[t].name \in Nickname /\ users[req[t].name] = None
    /\ users' = [users EXCEPT ![req[t].name] = [hash |-> "current", role |-> "user"]]
    /\ Answer(t, "True") /\ UNCHANGED banned

DoSet(t) ==
    /\ Open(t, "SET") /\ req[t].role \in Role /\ users[req[t].name] # None
    /\ users' = [users EXCEPT ![req[t].name].role = req[t].role]
    /\ Answer(t, "True") /\ UNCHANGED banned

\* An invalid name or one that is taken; an invalid role or no such account; no
\* such account or a wrong password.
RefuseRegister(t) ==
    /\ Open(t, "REGISTER")
    /\ req[t].name \notin Nickname \/ users[req[t].name] # None
    /\ Answer(t, "False") /\ UNCHANGED <<users, banned>>

RefuseSet(t) ==
    /\ Open(t, "SET")
    /\ req[t].role \notin Role \/ users[req[t].name] = None
    /\ Answer(t, "False") /\ UNCHANGED <<users, banned>>

RefuseLogin(t) == Open(t, "LOGIN") /\ Answer(t, "False") /\ UNCHANGED <<users, banned>>

DoBan(t) ==
    /\ Open(t, "BAN")
    /\ banned' = banned \cup {req[t].name}
    /\ Answer(t, "True") /\ UNCHANGED users

DoUnban(t) ==
    /\ Open(t, "UNBAN")
    /\ banned' = banned \ {req[t].name}
    /\ Answer(t, "True") /\ UNCHANGED users

Rehash(t) ==
    /\ Open(t, "LOGIN") /\ users[req[t].name] # None
    /\ users' = [users EXCEPT ![req[t].name].hash = "current"]
    /\ UNCHANGED <<banned, req, ans>>

\* login() finds the name on the ban list, or returns the role the account has.
LoginBanned(t) ==
    /\ Open(t, "LOGIN") /\ req[t].name \in banned
    /\ Answer(t, "banned") /\ UNCHANGED <<users, banned>>

ReadRole(t) ==
    /\ Open(t, "LOGIN") \/ Open(t, "ROLE")
    /\ users[req[t].name] # None
    /\ Answer(t, users[req[t].name].role) /\ UNCHANGED <<users, banned>>

NoRole(t) ==
    /\ Open(t, "ROLE") /\ users[req[t].name] = None
    /\ Answer(t, "none") /\ UNCHANGED <<users, banned>>

Raise(t) == req[t] # None /\ ans[t] = None /\ Answer(t, "raised") /\ UNCHANGED <<users, banned>>

Return(t) ==
    /\ ans[t] # None
    /\ req' = [req EXCEPT ![t] = None]
    /\ ans' = [ans EXCEPT ![t] = None]
    /\ UNCHANGED <<users, banned>>

Crash == AtomicInit' /\ UNCHANGED <<users, banned>>

AtomicNext ==
    \/ \E t \in Thread :
          \/ Call(t) \/ DoRegister(t) \/ RefuseRegister(t) \/ DoSet(t) \/ RefuseSet(t)
          \/ DoBan(t) \/ DoUnban(t) \/ Rehash(t) \/ RefuseLogin(t) \/ LoginBanned(t)
          \/ ReadRole(t) \/ NoRole(t) \/ Raise(t) \/ Return(t)
    \/ Crash

AtomicSpec == AtomicInit /\ [][AtomicNext]_storeVars
=============================================================================
