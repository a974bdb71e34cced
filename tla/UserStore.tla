----------------------------- MODULE UserStore -----------------------------
(***************************************************************************)
(* The account file and the ban file as the server's threads use them:     *)
(* register(), login(), get_user_role() and set_user_role() of             *)
(* auth/authentication.py, add_ban() and remove_ban() of                   *)
(* server_side/handlers/ban_handler.py.                                    *)
(*                                                                         *)
(* A change is made under the lock of its file: the file is loaded, the    *)
(* copy changed, the temporary file opened (which truncates it), written   *)
(* and moved over the file by os.replace().  Each of these may raise, and  *)
(* the process may be killed between any two; both files and the temporary *)
(* ones outlive it.  login() reads the account under the lock, renews an   *)
(* old hash under a second acquisition, and then reads the ban list and the*)
(* role without any lock.                                                  *)
(***************************************************************************)
EXTENDS Naturals, FiniteSets

CONSTANTS
    Thread,       \* the threads of the server
    Username,     \* the names requests use
    Nickname,     \* those validate_nickname() accepts
    Role,         \* the roles set_user_role() accepts
    Request,      \* the calls the threads make
    InitialUsers, \* the account file at the start
    DiskErrors,   \* whether a file operation may raise
    MaxCalls,     \* bound on the number of calls
    Partial,      \* what a file holds between open(tmp_path, "w") and the end of the dump
    None

Account == [hash : {"legacy", "current"}, role : Role]

\* The content of the account file, the content of the ban file, and what a call
\* may return.
Accounts == [Username -> Account \cup {None}]
Bans     == SUBSET Username
Answers  == Role \cup {"True", "False", "raised", "banned", "none"}

ASSUME StoreAssumption ==
    /\ Nickname \subseteq Username
    /\ Role = {"admin", "moderator", "user"}
    /\ Request \subseteq [op : {"REGISTER", "SET", "LOGIN", "ROLE", "BAN", "UNBAN"},
                          name : Username, role : STRING]
    /\ InitialUsers \in Accounts
    /\ DiskErrors \in BOOLEAN /\ MaxCalls \in Nat
    /\ None \notin Thread /\ None \notin Request /\ None \notin Account /\ None \notin Answers
    /\ Partial \notin Accounts /\ \A s \in Bans : Partial # s

VARIABLES
    disk,   \* "users" -> user.json, "ban" -> ban.txt
    tmp,    \* the temporary file of each, or None
    lock,   \* _users_lock and _ban_lock: the thread that holds it, or None
    pc,     \* the next step of each thread
    req,    \* the call it is in, or None
    copy,   \* the content it has loaded and changed, or None
    ans,    \* what the call returns, or None
    calls   \* the number of calls made

files   == <<disk, tmp, lock>>
threads == <<pc, req, copy, ans>>
vars    == <<files, threads, calls>>

Idle == [t \in Thread |-> "idle"]
Nothing == [t \in Thread |-> None]

Init ==
    /\ disk = [users |-> InitialUsers, ban |-> {}]
    /\ tmp = [users |-> None, ban |-> None]
    /\ lock = [users |-> None, ban |-> None]
    /\ pc = Idle /\ req = Nothing /\ copy = Nothing /\ ans = Nothing
    /\ calls = 0
-----------------------------------------------------------------------------
(* Steps.                                                                  *)

FileOf(t) == IF req[t].op \in {"BAN", "UNBAN"} THEN "ban" ELSE "users"

Goto(t, p) == pc' = [pc EXCEPT ![t] = p] /\ UNCHANGED <<req, ans, calls>>

Finish(t, a) ==
    /\ pc' = [pc EXCEPT ![t] = "return"]
    /\ ans' = [ans EXCEPT ![t] = a]
    /\ UNCHANGED <<req, calls>>

\* The end of a `with' block: login() goes on, the others return.
Leave(t, a) == IF req[t].op = "LOGIN" THEN Goto(t, "banlist") ELSE Finish(t, a)

Release(t) == lock' = [lock EXCEPT ![FileOf(t)] = None]

Call(t) ==
    /\ pc[t] = "idle" /\ calls < MaxCalls
    /\ \E r \in Request :
          /\ req' = [req EXCEPT ![t] = r]
          /\ pc' = [pc EXCEPT ![t] =
                      CASE r.op \in {"REGISTER", "SET"} -> "validate"
                        [] r.op \in {"BAN", "UNBAN"}    -> "lock"
                        [] r.op \in {"LOGIN", "ROLE"}   -> "read"]
    /\ calls' = calls + 1
    /\ UNCHANGED <<files, copy, ans>>

\* register() looks at the name, set_user_role() at the role, before they take
\* the lock.
Valid(r) == IF r.op = "REGISTER" THEN r.name \in Nickname ELSE r.role \in Role

Validate(t) ==
    /\ pc[t] = "validate"
    /\ IF Valid(req[t]) THEN Goto(t, "lock") ELSE Finish(t, "False")
    /\ UNCHANGED <<files, copy>>

\* Mutant: register() does not look again under the lock whether the name is taken.
AppliesToTaken(r, c) ==
    CASE r.op = "REGISTER"         -> TRUE
      [] r.op \in {"SET", "LOGIN"} -> c[r.name] # None
      [] r.op = "BAN"              -> r.name \notin c
      [] r.op = "UNBAN"            -> r.name \in c

\* When a change is made to the content c of its file, and what it makes of it.
Applies(r, c) ==
    CASE r.op = "REGISTER"         -> c[r.name] = None
      [] r.op \in {"SET", "LOGIN"} -> c[r.name] # None
      [] r.op = "BAN"              -> r.name \notin c
      [] r.op = "UNBAN"            -> r.name \in c

Changed(r, c) ==
    CASE r.op = "REGISTER" -> [c EXCEPT ![r.name] = [hash |-> "current", role |-> "user"]]
      [] r.op = "SET"      -> [c EXCEPT ![r.name].role = r.role]
      [] r.op = "LOGIN"    -> [c EXCEPT ![r.name].hash = "current"]
      [] r.op = "BAN"      -> c \cup {r.name}
      [] r.op = "UNBAN"    -> c \ {r.name}

\* add_ban() and remove_ban() return nothing, whether or not they changed it.
Unapplied(r) == IF r.op \in {"BAN", "UNBAN"} THEN "True" ELSE "False"

\* An exception in a `with' block releases the lock.
Raised(t) ==
    /\ DiskErrors
    /\ Release(t) /\ Finish(t, "raised")
    /\ copy' = [copy EXCEPT ![t] = None]

\* Mutant: the file is loaded without the lock.
LoadUnlocked(t) ==
    /\ pc[t] = "lock"
    /\ LET c == disk[FileOf(t)] IN
       \/ /\ Applies(req[t], c)
          /\ lock' = [lock EXCEPT ![FileOf(t)] = t]
          /\ copy' = [copy EXCEPT ![t] = Changed(req[t], c)]
          /\ Goto(t, "open")
       \/ ~Applies(req[t], c) /\ Leave(t, Unapplied(req[t])) /\ UNCHANGED <<lock, copy>>
    /\ UNCHANGED <<disk, tmp>>

\* Take the lock, load the file and change the copy.
Load(t) ==
    /\ pc[t] = "lock" /\ lock[FileOf(t)] = None
    /\ LET c == disk[FileOf(t)] IN
       \/ /\ Applies(req[t], c)
          /\ lock' = [lock EXCEPT ![FileOf(t)] = t]
          /\ copy' = [copy EXCEPT ![t] = Changed(req[t], c)]
          /\ Goto(t, "open")
       \/ ~Applies(req[t], c) /\ Leave(t, Unapplied(req[t])) /\ UNCHANGED <<lock, copy>>
       \/ Raised(t)
    /\ UNCHANGED <<disk, tmp>>

\* Mutant: the file itself is opened for writing.
OpenInPlace(t) ==
    /\ pc[t] = "open"
    /\ \/ /\ disk' = [disk EXCEPT ![FileOf(t)] = Partial]
          /\ Goto(t, "dump") /\ UNCHANGED <<tmp, lock, copy>>
       \/ Raised(t) /\ UNCHANGED <<disk, tmp>>

OpenTmp(t) ==
    /\ pc[t] = "open"
    /\ \/ /\ tmp' = [tmp EXCEPT ![FileOf(t)] = Partial]
          /\ Goto(t, "dump") /\ UNCHANGED <<lock, copy>>
       \/ Raised(t) /\ UNCHANGED tmp
    /\ UNCHANGED disk

Dump(t) ==
    /\ pc[t] = "dump"
    /\ \/ /\ tmp' = [tmp EXCEPT ![FileOf(t)] = copy[t]]
          /\ Goto(t, "replace") /\ UNCHANGED <<lock, copy>>
       \/ Raised(t) /\ UNCHANGED tmp
    /\ UNCHANGED disk

\* Mutant: an exception of os.replace() leaves the lock taken.
ReplaceKeepsLock(t) ==
    /\ pc[t] = "replace"
    /\ \/ /\ disk' = [disk EXCEPT ![FileOf(t)] = tmp[FileOf(t)]]
          /\ tmp' = [tmp EXCEPT ![FileOf(t)] = None]
          /\ copy' = [copy EXCEPT ![t] = None]
          /\ Release(t) /\ Leave(t, "True")
       \/ DiskErrors /\ Finish(t, "raised") /\ UNCHANGED <<files, copy>>

\* os.replace(), and the end of the `with' block.
Replace(t) ==
    /\ pc[t] = "replace"
    /\ \/ /\ disk' = [disk EXCEPT ![FileOf(t)] = tmp[FileOf(t)]]
          /\ tmp' = [tmp EXCEPT ![FileOf(t)] = None]
          /\ copy' = [copy EXCEPT ![t] = None]
          /\ Release(t) /\ Leave(t, "True")
       \/ Raised(t) /\ UNCHANGED <<disk, tmp>>

\* get_user_role(): a read under the lock.
GetUserRole(t) ==
    /\ pc[t] = "read" /\ req[t].op = "ROLE" /\ lock.users = None
    /\ LET account == disk.users[req[t].name] IN
       \/ Finish(t, IF account = None THEN "none" ELSE account.role)
       \/ DiskErrors /\ Finish(t, "raised")
    /\ UNCHANGED <<files, copy>>

\* login() reads the account under the lock.  It may be unknown or the password
\* wrong; an old hash is renewed next.
ReadUsers(t) ==
    /\ pc[t] = "read" /\ req[t].op = "LOGIN" /\ lock.users = None
    /\ LET account == disk.users[req[t].name] IN
       \/ Finish(t, "False")
       \/ account # None /\ Goto(t, IF account.hash = "legacy" THEN "lock" ELSE "banlist")
       \/ DiskErrors /\ Finish(t, "raised")
    /\ UNCHANGED <<files, copy>>

\* _load_banned_users() without a lock; an exception counts as an empty list.
ReadBanList(t) ==
    /\ pc[t] = "banlist"
    /\ \/ req[t].name \in disk.ban /\ Finish(t, "banned")
       \/ (req[t].name \notin disk.ban \/ DiskErrors) /\ Goto(t, "role")
    /\ UNCHANGED <<files, copy>>

\* The second _load_users() of login(), without a lock.
ReadRole(t) ==
    /\ pc[t] = "role"
    /\ \/ Finish(t, disk.users[req[t].name].role)
       \/ DiskErrors /\ Finish(t, "raised")
    /\ UNCHANGED <<files, copy>>

Return(t) ==
    /\ pc[t] = "return"
    /\ pc' = [pc EXCEPT ![t] = "idle"]
    /\ req' = [req EXCEPT ![t] = None]
    /\ ans' = [ans EXCEPT ![t] = None]
    /\ UNCHANGED <<files, copy, calls>>

\* The process is killed and started again.
Crash ==
    /\ pc' = Idle /\ req' = Nothing /\ copy' = Nothing /\ ans' = Nothing
    /\ lock' = [users |-> None, ban |-> None]
    /\ UNCHANGED <<disk, tmp, calls>>
-----------------------------------------------------------------------------
Step(t) ==
    \/ Validate(t) \/ Load(t) \/ OpenTmp(t) \/ Dump(t) \/ Replace(t)
    \/ GetUserRole(t) \/ ReadUsers(t) \/ ReadBanList(t) \/ ReadRole(t) \/ Return(t)

Next ==
    \/ \E t \in Thread : Call(t) \/ Step(t)
    \/ Crash

Spec == Init /\ [][Next]_vars /\ \A t \in Thread : WF_vars(Step(t))
-----------------------------------------------------------------------------
StoreTypeOK ==
    /\ Partial \notin {disk.users, disk.ban} /\ disk \in [users : Accounts, ban : Bans]
    /\ tmp \in [users : {None, Partial} \cup Accounts, ban : {None, Partial} \cup Bans]
    /\ lock \in [users : Thread \cup {None}, ban : Thread \cup {None}]
    /\ req \in [Thread -> Request \cup {None}]
    /\ pc \in [Thread -> {"idle", "validate", "lock", "open", "dump", "replace",
                          "read", "banlist", "role", "return"}]
    /\ ans \in [Thread -> Answers \cup {None}] /\ DOMAIN copy = Thread
    /\ calls \in 0..MaxCalls

\* The files behave as if every call of register(), set_user_role(), login(),
\* get_user_role(), add_ban() and remove_ban() happened in one moment: no change
\* of one thread undoes that of another, a renewed hash keeps the role that a SET
\* wrote meanwhile, nobody reads half a file, and what was answered with True
\* survives every crash.
Store == INSTANCE AtomicStore WITH users <- disk.users, banned <- disk.ban
Linearizable == Store!AtomicSpec

\* Whoever is about to write holds the lock of the file, and its copy is the
\* file as it is now with its own change: the reason why no change gets lost.
CopyCurrent ==
    \A t \in Thread : pc[t] \in {"open", "dump", "replace"} =>
        /\ lock[FileOf(t)] = t
        /\ Applies(req[t], disk[FileOf(t)])
        /\ copy[t] = Changed(req[t], disk[FileOf(t)])
        /\ pc[t] = "replace" => tmp[FileOf(t)] = copy[t]

\* Every call returns (or the process is killed): no path keeps a lock.
CallsReturn == \A t \in Thread : pc[t] # "idle" ~> pc[t] = "idle"
=============================================================================
