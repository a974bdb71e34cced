--------------------------- MODULE UserStoreProofs ---------------------------
(***************************************************************************)
(* Theorems about UserStore: its types, that nobody writes a file from a   *)
(* stale copy, and that it implements AtomicStore.                         *)
(***************************************************************************)
EXTENDS UserStore, TLAPS

\* The steps in which a thread holds the lock of its file.
Writing == {"open", "dump", "replace"}

\* Where a thread is in its call says what the call is, that it was checked, and
\* whether its answer is settled.
CallInv ==
    \A t \in Thread :
        /\ pc[t] = "idle" => req[t] = None
        /\ pc[t] # "idle" => req[t] \in Request
        /\ pc[t] = "return" <=> ans[t] # None
        /\ pc[t] = "validate" => req[t].op \in {"REGISTER", "SET"}
        /\ pc[t] = "read" => req[t].op \in {"LOGIN", "ROLE"}
        /\ pc[t] \in {"banlist", "role"} => req[t].op = "LOGIN"
        /\ pc[t] \in {"lock"} \cup Writing =>
              /\ req[t].op # "ROLE"
              /\ req[t].op \in {"REGISTER", "SET"} => Valid(req[t])

\* A login that is past the password has an account, which nobody takes away.
KnownInv ==
    \A t \in Thread :
        req[t] # None /\ req[t].op = "LOGIN" /\ pc[t] \in {"lock", "banlist", "role"} \cup Writing
            => disk.users[req[t].name] # None

StoreInv == StoreTypeOK /\ CallInv /\ KnownInv /\ CopyCurrent
-----------------------------------------------------------------------------
USE StoreAssumption

LEMMA ChangedBans ==
    ASSUME NEW r \in Request, NEW c \in Bans, r.op \in {"BAN", "UNBAN"}
    PROVE  Changed(r, c) \in Bans
BY DEF Changed, Bans

LEMMA ChangedAccounts ==
    ASSUME NEW r \in Request, NEW c \in Accounts, r.op \in {"REGISTER", "SET", "LOGIN"},
           r.op \in {"REGISTER", "SET"} => Valid(r), Applies(r, c)
    PROVE  /\ Changed(r, c) \in Accounts
           /\ \A n \in Username : c[n] # None => Changed(r, c)[n] # None
<1>1. r.name \in Username
    OBVIOUS
<1>2. CASE r.op = "REGISTER"
    BY <1>1, <1>2 DEF Changed, Accounts, Account
<1>3. CASE r.op = "SET"
    BY <1>1, <1>3 DEF Changed, Accounts, Account, Valid, Applies
<1>4. CASE r.op = "LOGIN"
    BY <1>1, <1>4 DEF Changed, Accounts, Account, Applies
<1>5. QED
    BY <1>2, <1>3, <1>4
LEMMA AccountRole ==
    ASSUME NEW c \in Accounts, NEW n \in Username, c[n] # None
    PROVE  c[n].role \in Role /\ c[n].role \in Answers /\ c[n].role # None
BY DEF Accounts, Account, Answers

LEMMA CallKeeps ==
    ASSUME StoreInv, NEW t \in Thread, Call(t)
    PROVE  StoreInv'
<1>1. StoreTypeOK'
    BY ChangedBans, ChangedAccounts DEF StoreInv, StoreTypeOK, CallInv, CopyCurrent, FileOf, Writing, Answers, Call, files
<1>2. CallInv'
    BY DEF StoreInv, StoreTypeOK, CallInv, Writing, FileOf, Valid, Answers, Call, files
<1>3. KnownInv'
    BY ChangedAccounts DEF StoreInv, StoreTypeOK, CallInv, KnownInv, CopyCurrent, FileOf, Writing, Call, files
<1>4. CopyCurrent'
    BY DEF StoreInv, StoreTypeOK, CallInv, CopyCurrent, FileOf, Writing, Call, files
<1>5. QED
    BY <1>1, <1>2, <1>3, <1>4 DEF StoreInv

LEMMA ValidateKeeps ==
    ASSUME StoreInv, NEW t \in Thread, Validate(t)
    PROVE  StoreInv'
<1>1. StoreTypeOK'
    BY ChangedBans, ChangedAccounts DEF StoreInv, StoreTypeOK, CallInv, CopyCurrent, FileOf, Writing, Answers, Validate, Goto, Finish, files
<1>2. CallInv'
    BY DEF StoreInv, StoreTypeOK, CallInv, Writing, FileOf, Valid, Answers, Validate, Goto, Finish, files
<1>3. KnownInv'
    BY ChangedAccounts DEF StoreInv, StoreTypeOK, CallInv, KnownInv, CopyCurrent, FileOf, Writing, Validate, Goto, Finish, files
<1>4. CopyCurrent'
    BY DEF StoreInv, StoreTypeOK, CallInv, CopyCurrent, FileOf, Writing, Validate, Goto, Finish, files
<1>5. QED
    BY <1>1, <1>2, <1>3, <1>4 DEF StoreInv

LEMMA LoadKeeps ==
    ASSUME StoreInv, NEW t \in Thread, Load(t)
    PROVE  StoreInv'
<1>1. StoreTypeOK'
    BY ChangedBans, ChangedAccounts DEF StoreInv, StoreTypeOK, CallInv, CopyCurrent, FileOf, Writing, Answers, Load, Raised, Release, Leave, Goto, Finish, Unapplied
<1>2. CallInv'
    BY DEF StoreInv, StoreTypeOK, CallInv, Writing, FileOf, Valid, Answers, Load, Raised, Release, Leave, Goto, Finish, Unapplied
<1>3. KnownInv'
    BY ChangedAccounts DEF StoreInv, StoreTypeOK, CallInv, KnownInv, CopyCurrent, FileOf, Writing, Load, Raised, Release, Leave, Goto, Finish, Unapplied
<1>4. CopyCurrent'
    <2> SUFFICES ASSUME NEW u \in Thread, pc'[u] \in Writing
                 PROVE  /\ lock'[FileOf(u)'] = u
                        /\ Applies(req'[u], disk'[FileOf(u)'])
                        /\ copy'[u] = Changed(req'[u], disk'[FileOf(u)'])
                        /\ pc'[u] = "replace" => tmp'[FileOf(u)'] = copy'[u]
        BY DEF CopyCurrent, Writing
    <2>1. CASE u = t
        BY <2>1 DEF StoreInv, StoreTypeOK, CallInv, CopyCurrent, FileOf, Writing, Load, Raised, Release, Leave, Goto, Finish, Unapplied
    <2>2. CASE u # t
        <3>1. pc[u] \in Writing /\ pc'[u] = pc[u] /\ req' = req /\ copy'[u] = copy[u]
            BY <2>2 DEF StoreInv, StoreTypeOK, Load, Raised, Release, Leave, Goto, Finish, Unapplied
        <3>2. lock[FileOf(u)] = u /\ FileOf(u) \in {"users", "ban"} /\ FileOf(t) # FileOf(u)
            BY <2>2, <3>1 DEF StoreInv, CopyCurrent, Writing, FileOf, Load, Raised, Release, Leave, Goto, Finish, Unapplied
        <3>3. /\ lock'[FileOf(u)] = lock[FileOf(u)] /\ disk'[FileOf(u)] = disk[FileOf(u)]
              /\ tmp'[FileOf(u)] = tmp[FileOf(u)]
            BY <3>2 DEF StoreInv, StoreTypeOK, Load, Raised, Release, Leave, Goto, Finish, Unapplied
        <3>4. FileOf(u)' = FileOf(u)
            BY <3>1 DEF FileOf
        <3>5. QED
            BY <3>1, <3>2, <3>3, <3>4 DEF StoreInv, CopyCurrent, Writing
    <2>3. QED
        BY <2>1, <2>2
<1>5. QED
    BY <1>1, <1>2, <1>3, <1>4 DEF StoreInv

LEMMA OpenTmpKeeps ==
    ASSUME StoreInv, NEW t \in Thread, OpenTmp(t)
    PROVE  StoreInv'
<1>1. StoreTypeOK'
    BY ChangedBans, ChangedAccounts DEF StoreInv, StoreTypeOK, CallInv, CopyCurrent, FileOf, Writing, Answers, OpenTmp, Raised, Release, Goto, Finish
<1>2. CallInv'
    BY DEF StoreInv, StoreTypeOK, CallInv, Writing, FileOf, Valid, Answers, OpenTmp, Raised, Release, Goto, Finish
<1>3. KnownInv'
    BY ChangedAccounts DEF StoreInv, StoreTypeOK, CallInv, KnownInv, CopyCurrent, FileOf, Writing, OpenTmp, Raised, Release, Goto, Finish
<1>4. CopyCurrent'
    <2> SUFFICES ASSUME NEW u \in Thread, pc'[u] \in Writing
                 PROVE  /\ lock'[FileOf(u)'] = u
                        /\ Applies(req'[u], disk'[FileOf(u)'])
                        /\ copy'[u] = Changed(req'[u], disk'[FileOf(u)'])
                        /\ pc'[u] = "replace" => tmp'[FileOf(u)'] = copy'[u]
        BY DEF CopyCurrent, Writing
    <2>1. CASE u = t
        BY <2>1 DEF StoreInv, StoreTypeOK, CallInv, CopyCurrent, FileOf, Writing, OpenTmp, Raised, Release, Goto, Finish
    <2>2. CASE u # t
        <3>1. pc[u] \in Writing /\ pc'[u] = pc[u] /\ req' = req /\ copy'[u] = copy[u]
            BY <2>2 DEF StoreInv, StoreTypeOK, OpenTmp, Raised, Release, Goto, Finish
        <3>2. lock[FileOf(u)] = u /\ FileOf(u) \in {"users", "ban"} /\ FileOf(t) # FileOf(u)
            BY <2>2, <3>1 DEF StoreInv, CopyCurrent, Writing, FileOf, OpenTmp, Raised, Release, Goto, Finish
        <3>3. /\ lock'[FileOf(u)] = lock[FileOf(u)] /\ disk'[FileOf(u)] = disk[FileOf(u)]
              /\ tmp'[FileOf(u)] = tmp[FileOf(u)]
            BY <3>2 DEF StoreInv, StoreTypeOK, OpenTmp, Raised, Release, Goto, Finish
        <3>4. FileOf(u)' = FileOf(u)
            BY <3>1 DEF FileOf
        <3>5. QED
            BY <3>1, <3>2, <3>3, <3>4 DEF StoreInv, CopyCurrent, Writing
    <2>3. QED
        BY <2>1, <2>2
<1>5. QED
    BY <1>1, <1>2, <1>3, <1>4 DEF StoreInv

LEMMA DumpKeeps ==
    ASSUME StoreInv, NEW t \in Thread, Dump(t)
    PROVE  StoreInv'
<1>1. StoreTypeOK'
    BY ChangedBans, ChangedAccounts DEF StoreInv, StoreTypeOK, CallInv, CopyCurrent, FileOf, Writing, Answers, Dump, Raised, Release, Goto, Finish
<1>2. CallInv'
    BY DEF StoreInv, StoreTypeOK, CallInv, Writing, FileOf, Valid, Answers, Dump, Raised, Release, Goto, Finish
<1>3. KnownInv'
    BY ChangedAccounts DEF StoreInv, StoreTypeOK, CallInv, KnownInv, CopyCurrent, FileOf, Writing, Dump, Raised, Release, Goto, Finish
<1>4. CopyCurrent'
    <2> SUFFICES ASSUME NEW u \in Thread, pc'[u] \in Writing
                 PROVE  /\ lock'[FileOf(u)'] = u
                        /\ Applies(req'[u], disk'[FileOf(u)'])
                        /\ copy'[u] = Changed(req'[u], disk'[FileOf(u)'])
                        /\ pc'[u] = "replace" => tmp'[FileOf(u)'] = copy'[u]
        BY DEF CopyCurrent, Writing
    <2>1. CASE u = t
        BY <2>1 DEF StoreInv, StoreTypeOK, CallInv, CopyCurrent, FileOf, Writing, Dump, Raised, Release, Goto, Finish
    <2>2. CASE u # t
        <3>1. pc[u] \in Writing /\ pc'[u] = pc[u] /\ req' = req /\ copy'[u] = copy[u]
            BY <2>2 DEF StoreInv, StoreTypeOK, Dump, Raised, Release, Goto, Finish
        <3>2. lock[FileOf(u)] = u /\ FileOf(u) \in {"users", "ban"} /\ FileOf(t) # FileOf(u)
            BY <2>2, <3>1 DEF StoreInv, CopyCurrent, Writing, FileOf, Dump, Raised, Release, Goto, Finish
        <3>3. /\ lock'[FileOf(u)] = lock[FileOf(u)] /\ disk'[FileOf(u)] = disk[FileOf(u)]
              /\ tmp'[FileOf(u)] = tmp[FileOf(u)]
            BY <3>2 DEF StoreInv, StoreTypeOK, Dump, Raised, Release, Goto, Finish
        <3>4. FileOf(u)' = FileOf(u)
            BY <3>1 DEF FileOf
        <3>5. QED
            BY <3>1, <3>2, <3>3, <3>4 DEF StoreInv, CopyCurrent, Writing
    <2>3. QED
        BY <2>1, <2>2
<1>5. QED
    BY <1>1, <1>2, <1>3, <1>4 DEF StoreInv

LEMMA ReplaceKeeps ==
    ASSUME StoreInv, NEW t \in Thread, Replace(t)
    PROVE  StoreInv'
<1>1. StoreTypeOK'
    BY ChangedBans, ChangedAccounts DEF StoreInv, StoreTypeOK, CallInv, CopyCurrent, FileOf, Writing, Answers, Replace, Raised, Release, Leave, Goto, Finish
<1>2. CallInv'
    BY DEF StoreInv, StoreTypeOK, CallInv, Writing, FileOf, Valid, Answers, Replace, Raised, Release, Leave, Goto, Finish
<1>3. KnownInv'
    BY ChangedAccounts DEF StoreInv, StoreTypeOK, CallInv, KnownInv, CopyCurrent, FileOf, Writing, Replace, Raised, Release, Leave, Goto, Finish
<1>4. CopyCurrent'
    <2> SUFFICES ASSUME NEW u \in Thread, pc'[u] \in Writing
                 PROVE  /\ lock'[FileOf(u)'] = u
                        /\ Applies(req'[u], disk'[FileOf(u)'])
                        /\ copy'[u] = Changed(req'[u], disk'[FileOf(u)'])
                        /\ pc'[u] = "replace" => tmp'[FileOf(u)'] = copy'[u]
        BY DEF CopyCurrent, Writing
    <2>1. CASE u = t
        BY <2>1 DEF StoreInv, StoreTypeOK, CallInv, CopyCurrent, FileOf, Writing, Replace, Raised, Release, Leave, Goto, Finish
    <2>2. CASE u # t
        <3>1. pc[u] \in Writing /\ pc'[u] = pc[u] /\ req' = req /\ copy'[u] = copy[u]
            BY <2>2 DEF StoreInv, StoreTypeOK, Replace, Raised, Release, Leave, Goto, Finish
        <3>2. lock[FileOf(u)] = u /\ FileOf(u) \in {"users", "ban"} /\ FileOf(t) # FileOf(u)
            BY <2>2, <3>1 DEF StoreInv, CopyCurrent, Writing, FileOf, Replace, Raised, Release, Leave, Goto, Finish
        <3>3. /\ lock'[FileOf(u)] = lock[FileOf(u)] /\ disk'[FileOf(u)] = disk[FileOf(u)]
              /\ tmp'[FileOf(u)] = tmp[FileOf(u)]
            BY <3>2 DEF StoreInv, StoreTypeOK, Replace, Raised, Release, Leave, Goto, Finish
        <3>4. FileOf(u)' = FileOf(u)
            BY <3>1 DEF FileOf
        <3>5. QED
            BY <3>1, <3>2, <3>3, <3>4 DEF StoreInv, CopyCurrent, Writing
    <2>3. QED
        BY <2>1, <2>2
<1>5. QED
    BY <1>1, <1>2, <1>3, <1>4 DEF StoreInv

LEMMA GetUserRoleKeeps ==
    ASSUME StoreInv, NEW t \in Thread, GetUserRole(t)
    PROVE  StoreInv'
<1>1. StoreTypeOK'
    BY AccountRole DEF KnownInv, StoreInv, StoreTypeOK, CallInv, CopyCurrent, FileOf, Writing, Answers, GetUserRole, Finish, files
<1>2. CallInv'
    BY AccountRole DEF KnownInv, StoreInv, StoreTypeOK, CallInv, Writing, FileOf, Valid, Answers, GetUserRole, Finish, files
<1>3. KnownInv'
    BY ChangedAccounts DEF StoreInv, StoreTypeOK, CallInv, KnownInv, CopyCurrent, FileOf, Writing, GetUserRole, Finish, files
<1>4. CopyCurrent'
    BY DEF StoreInv, StoreTypeOK, CallInv, CopyCurrent, FileOf, Writing, GetUserRole, Finish, files
<1>5. QED
    BY <1>1, <1>2, <1>3, <1>4 DEF StoreInv

LEMMA ReadUsersKeeps ==
    ASSUME StoreInv, NEW t \in Thread, ReadUsers(t)
    PROVE  StoreInv'
<1>1. StoreTypeOK'
    BY ChangedBans, ChangedAccounts DEF StoreInv, StoreTypeOK, CallInv, CopyCurrent, FileOf, Writing, Answers, ReadUsers, Goto, Finish, files
<1>2. CallInv'
    BY DEF StoreInv, StoreTypeOK, CallInv, Writing, FileOf, Valid, Answers, ReadUsers, Goto, Finish, files
<1>3. KnownInv'
    BY ChangedAccounts DEF StoreInv, StoreTypeOK, CallInv, KnownInv, CopyCurrent, FileOf, Writing, ReadUsers, Goto, Finish, files
<1>4. CopyCurrent'
    BY DEF StoreInv, StoreTypeOK, CallInv, CopyCurrent, FileOf, Writing, ReadUsers, Goto, Finish, files
<1>5. QED
    BY <1>1, <1>2, <1>3, <1>4 DEF StoreInv

LEMMA ReadBanListKeeps ==
    ASSUME StoreInv, NEW t \in Thread, ReadBanList(t)
    PROVE  StoreInv'
<1>1. StoreTypeOK'
    BY ChangedBans, ChangedAccounts DEF StoreInv, StoreTypeOK, CallInv, CopyCurrent, FileOf, Writing, Answers, ReadBanList, Goto, Finish, files
<1>2. CallInv'
    BY DEF StoreInv, StoreTypeOK, CallInv, Writing, FileOf, Valid, Answers, ReadBanList, Goto, Finish, files
<1>3. KnownInv'
    BY ChangedAccounts DEF StoreInv, StoreTypeOK, CallInv, KnownInv, CopyCurrent, FileOf, Writing, ReadBanList, Goto, Finish, files
<1>4. CopyCurrent'
    BY DEF StoreInv, StoreTypeOK, CallInv, CopyCurrent, FileOf, Writing, ReadBanList, Goto, Finish, files
<1>5. QED
    BY <1>1, <1>2, <1>3, <1>4 DEF StoreInv

LEMMA ReadRoleKeeps ==
    ASSUME StoreInv, NEW t \in Thread, ReadRole(t)
    PROVE  StoreInv'
<1>1. StoreTypeOK'
    BY AccountRole DEF KnownInv, StoreInv, StoreTypeOK, CallInv, CopyCurrent, FileOf, Writing, Answers, ReadRole, Finish, files
<1>2. CallInv'
    BY AccountRole DEF KnownInv, StoreInv, StoreTypeOK, CallInv, Writing, FileOf, Valid, Answers, ReadRole, Finish, files
<1>3. KnownInv'
    BY ChangedAccounts DEF StoreInv, StoreTypeOK, CallInv, KnownInv, CopyCurrent, FileOf, Writing, ReadRole, Finish, files
<1>4. CopyCurrent'
    BY DEF StoreInv, StoreTypeOK, CallInv, CopyCurrent, FileOf, Writing, ReadRole, Finish, files
<1>5. QED
    BY <1>1, <1>2, <1>3, <1>4 DEF StoreInv

LEMMA ReturnKeeps ==
    ASSUME StoreInv, NEW t \in Thread, Return(t)
    PROVE  StoreInv'
<1>1. StoreTypeOK'
    BY ChangedBans, ChangedAccounts DEF StoreInv, StoreTypeOK, CallInv, CopyCurrent, FileOf, Writing, Answers, Return, files
<1>2. CallInv'
    BY DEF StoreInv, StoreTypeOK, CallInv, Writing, FileOf, Valid, Answers, Return, files
<1>3. KnownInv'
    BY ChangedAccounts DEF StoreInv, StoreTypeOK, CallInv, KnownInv, CopyCurrent, FileOf, Writing, Return, files
<1>4. CopyCurrent'
    BY DEF StoreInv, StoreTypeOK, CallInv, CopyCurrent, FileOf, Writing, Return, files
<1>5. QED
    BY <1>1, <1>2, <1>3, <1>4 DEF StoreInv

LEMMA CrashKeeps ==
    ASSUME StoreInv, Crash
    PROVE  StoreInv'
BY DEF StoreInv, StoreTypeOK, CallInv, KnownInv, CopyCurrent, FileOf, Writing, Crash, Idle, Nothing

LEMMA StoreInit == Init => StoreInv
BY DEF Init, Idle, Nothing, StoreInv, StoreTypeOK, CallInv, KnownInv, CopyCurrent, FileOf, Writing, Bans

LEMMA StoreStep == StoreInv /\ [Next]_vars => StoreInv'
<1> SUFFICES ASSUME StoreInv, [Next]_vars PROVE StoreInv'
    OBVIOUS
<1>1. ASSUME NEW t \in Thread, Call(t) \/ Step(t)
      PROVE  StoreInv'
    BY <1>1, CallKeeps, ValidateKeeps, LoadKeeps, OpenTmpKeeps, DumpKeeps, ReplaceKeeps,
       GetUserRoleKeeps, ReadUsersKeeps, ReadBanListKeeps, ReadRoleKeeps, ReturnKeeps DEF Step
<1>2. CASE Crash
    BY <1>2, CrashKeeps
<1>3. CASE UNCHANGED vars
    BY <1>3 DEF vars, files, threads, StoreInv, StoreTypeOK, CallInv, KnownInv, CopyCurrent,
       FileOf, Writing
<1>4. QED
    BY <1>1, <1>2, <1>3 DEF Next

\* StoreInv is an invariant.
THEOREM StoreInvariant == Spec => []StoreInv
BY StoreInit, StoreStep, PTL DEF Spec

\* Both files always hold whole contents of their type, and so do the variables of the
\* threads, at whatever point a thread raises or the process is killed.
THEOREM StoreTypeCorrect == Spec => []StoreTypeOK
BY StoreInvariant, PTL DEF StoreInv

\* Nobody writes a file from a stale copy, for any number of threads and calls.
THEOREM CopiesCurrent == Spec => []CopyCurrent
BY StoreInvariant, PTL DEF StoreInv
-----------------------------------------------------------------------------

(* The refinement: each step of a thread is one step of AtomicStore or none.   *)

LEMMA AbstractAction ==
    ASSUME NEW t \in Thread,
           \/ Store!Call(t) \/ Store!DoRegister(t) \/ Store!RefuseRegister(t) \/ Store!DoSet(t)
           \/ Store!RefuseSet(t) \/ Store!DoBan(t) \/ Store!DoUnban(t) \/ Store!Rehash(t)
           \/ Store!RefuseLogin(t) \/ Store!LoginBanned(t) \/ Store!ReadRole(t) \/ Store!NoRole(t)
           \/ Store!Raise(t) \/ Store!Return(t)
    PROVE  Store!AtomicNext
BY DEF Store!AtomicNext

\* What holds of a thread in the middle of its call.
LEMMA CallOpen ==
    ASSUME StoreInv, NEW t \in Thread, pc[t] \notin {"idle", "return"}
    PROVE  /\ req[t] \in Request /\ req[t] # None /\ ans[t] = None
           /\ Store!Open(t, req[t].op)
BY DEF StoreInv, CallInv, Store!Open

LEMMA AnswerRefines ==
    ASSUME NEW t \in Thread, NEW a, Finish(t, a)
    PROVE  Store!Answer(t, a)
BY DEF Finish, Store!Answer

LEMMA RaisedRefines ==
    ASSUME StoreInv, NEW t \in Thread, pc[t] \notin {"idle", "return"},
           Finish(t, "raised"), UNCHANGED disk
    PROVE  Store!AtomicNext
BY CallOpen, AnswerRefines, AbstractAction DEF Store!Raise

LEMMA CallRefines ==
    ASSUME StoreInv, NEW t \in Thread, Call(t)
    PROVE  Store!AtomicNext
<1>1. Store!Call(t)
    BY DEF Call, files, StoreInv, CallInv, Store!Call
<1>2. QED
    BY <1>1, AbstractAction

LEMMA ValidateRefines ==
    ASSUME StoreInv, NEW t \in Thread, Validate(t)
    PROVE  Store!AtomicNext \/ UNCHANGED Store!storeVars
<1>1. CASE Valid(req[t])
    BY <1>1 DEF Validate, Goto, files, Store!storeVars
<1>2. CASE ~Valid(req[t])
    <2>1. Store!Answer(t, "False") /\ UNCHANGED disk
        BY <1>2, AnswerRefines DEF Validate, files
    <2>2. req[t].op \in {"REGISTER", "SET"} /\ Store!Open(t, req[t].op)
        BY CallOpen DEF Validate, StoreInv, CallInv
    <2>3. CASE req[t].op = "REGISTER"
        BY <1>2, <2>1, <2>2, <2>3, AbstractAction DEF Valid, Store!RefuseRegister
    <2>4. CASE req[t].op = "SET"
        BY <1>2, <2>1, <2>2, <2>4, AbstractAction DEF Valid, Store!RefuseSet
    <2>5. QED
        BY <2>2, <2>3, <2>4
<1>3. QED
    BY <1>1, <1>2

LEMMA LoadRefines ==
    ASSUME StoreInv, NEW t \in Thread, Load(t)
    PROVE  Store!AtomicNext \/ UNCHANGED Store!storeVars
<1> DEFINE c == disk[FileOf(t)]
<1>1. /\ pc[t] = "lock" /\ UNCHANGED disk
      /\ \/ Goto(t, "open")
         \/ ~Applies(req[t], c) /\ Leave(t, Unapplied(req[t]))
         \/ Finish(t, "raised")
    BY DEF Load, Raised
<1>2. req[t].op # "ROLE" /\ req[t] \in Request /\ Store!Open(t, req[t].op)
    BY <1>1, CallOpen DEF StoreInv, CallInv
<1>3. CASE Goto(t, "open")
    BY <1>1, <1>3 DEF Goto, Store!storeVars
<1>4. CASE ~Applies(req[t], c) /\ Leave(t, Unapplied(req[t]))
    <2>1. CASE req[t].op = "LOGIN"
        BY <1>1, <1>4, <2>1 DEF Leave, Goto, Store!storeVars
    <2>2. CASE req[t].op = "REGISTER"
        <3>1. Store!Answer(t, "False") /\ disk.users[req[t].name] # None
            BY <1>4, <2>2, AnswerRefines DEF Leave, Unapplied, Applies, FileOf
        <3>2. QED
            BY <1>1, <1>2, <2>2, <3>1, AbstractAction DEF Store!RefuseRegister
    <2>3. CASE req[t].op = "SET"
        <3>1. Store!Answer(t, "False") /\ disk.users[req[t].name] = None
            BY <1>4, <2>3, AnswerRefines DEF Leave, Unapplied, Applies, FileOf
        <3>2. QED
            BY <1>1, <1>2, <2>3, <3>1, AbstractAction DEF Store!RefuseSet
    <2>4. CASE req[t].op = "BAN"
        <3>1. Store!Answer(t, "True") /\ disk.ban \cup {req[t].name} = disk.ban
            BY <1>4, <2>4, AnswerRefines DEF Leave, Unapplied, Applies, FileOf
        <3>2. QED
            BY <1>1, <1>2, <2>4, <3>1, AbstractAction DEF Store!DoBan
    <2>5. CASE req[t].op = "UNBAN"
        <3>1. Store!Answer(t, "True") /\ disk.ban \ {req[t].name} = disk.ban
            BY <1>4, <2>5, AnswerRefines DEF Leave, Unapplied, Applies, FileOf
        <3>2. QED
            BY <1>1, <1>2, <2>5, <3>1, AbstractAction DEF Store!DoUnban
    <2>6. QED
        BY <1>2, <2>1, <2>2, <2>3, <2>4, <2>5
<1>5. CASE Finish(t, "raised")
    BY <1>1, <1>5, RaisedRefines
<1>6. QED
    BY <1>1, <1>3, <1>4, <1>5

\* Opening and writing the temporary file changes nothing that AtomicStore knows.
LEMMA TemporaryRefines ==
    ASSUME StoreInv, NEW t \in Thread, OpenTmp(t) \/ Dump(t)
    PROVE  Store!AtomicNext \/ UNCHANGED Store!storeVars
<1>1. /\ pc[t] \notin {"idle", "return"} /\ UNCHANGED disk
      /\ Goto(t, "dump") \/ Goto(t, "replace") \/ Finish(t, "raised")
    BY DEF OpenTmp, Dump, Raised
<1>2. QED
    BY <1>1, RaisedRefines DEF Goto, Store!storeVars

\* os.replace() is the moment at which a call takes effect.
LEMMA ReplaceRefines ==
    ASSUME StoreInv, NEW t \in Thread, Replace(t)
    PROVE  Store!AtomicNext
<1> DEFINE r == req[t]
<1>1. /\ pc[t] = "replace" /\ Store!Open(t, r.op)
      /\ r \in Request /\ r.op # "ROLE"
      /\ (r.op \in {"REGISTER", "SET"} => Valid(r))
    BY CallOpen DEF Replace, StoreInv, CallInv, Writing
<1>2. CASE Finish(t, "raised") /\ UNCHANGED disk
    BY <1>1, <1>2, RaisedRefines
<1>3. CASE disk' = [disk EXCEPT ![FileOf(t)] = tmp[FileOf(t)]] /\ Leave(t, "True")
    <2>1. /\ disk' = [disk EXCEPT ![FileOf(t)] = Changed(r, disk[FileOf(t)])]
          /\ Applies(r, disk[FileOf(t)])
        BY <1>1, <1>3 DEF StoreInv, CopyCurrent
    <2>2. CASE r.op = "REGISTER"
        <3>1. /\ disk.users[r.name] = None /\ r.name \in Nickname
              /\ disk'.users = [disk.users EXCEPT ![r.name] = [hash |-> "current", role |-> "user"]]
              /\ disk'.ban = disk.ban
            BY <1>1, <2>1, <2>2 DEF StoreInv, StoreTypeOK, FileOf, Applies, Changed, Valid
        <3>2. QED
            BY <1>1, <1>3, <2>2, <3>1, AnswerRefines, AbstractAction DEF Leave, Store!DoRegister
    <2>3. CASE r.op = "SET"
        <3>1. /\ disk.users[r.name] # None /\ r.role \in Role
              /\ disk'.users = [disk.users EXCEPT ![r.name].role = r.role]
              /\ disk'.ban = disk.ban
            BY <1>1, <2>1, <2>3 DEF StoreInv, StoreTypeOK, FileOf, Applies, Changed, Valid
        <3>2. QED
            BY <1>1, <1>3, <2>3, <3>1, AnswerRefines, AbstractAction DEF Leave, Store!DoSet
    <2>4. CASE r.op = "LOGIN"
        <3>1. /\ disk.users[r.name] # None
              /\ disk'.users = [disk.users EXCEPT ![r.name].hash = "current"]
              /\ disk'.ban = disk.ban
            BY <1>1, <2>1, <2>4 DEF StoreInv, StoreTypeOK, FileOf, Applies, Changed
        <3>2. QED
            BY <1>1, <1>3, <2>4, <3>1, AbstractAction DEF Leave, Goto, Store!Rehash
    <2>5. CASE r.op = "BAN"
        <3>1. disk'.users = disk.users /\ disk'.ban = disk.ban \cup {r.name}
            BY <1>1, <2>1, <2>5 DEF StoreInv, StoreTypeOK, FileOf, Changed
        <3>2. QED
            BY <1>1, <1>3, <2>5, <3>1, AnswerRefines, AbstractAction DEF Leave, Store!DoBan
    <2>6. CASE r.op = "UNBAN"
        <3>1. disk'.users = disk.users /\ disk'.ban = disk.ban \ {r.name}
            BY <1>1, <2>1, <2>6 DEF StoreInv, StoreTypeOK, FileOf, Changed
        <3>2. QED
            BY <1>1, <1>3, <2>6, <3>1, AnswerRefines, AbstractAction DEF Leave, Store!DoUnban
    <2>7. QED
        BY <1>1, <2>2, <2>3, <2>4, <2>5, <2>6, StoreAssumption
<1>4. QED
    BY <1>2, <1>3 DEF Replace, Raised

\* The reads of login() and get_user_role(), with or without the lock.
LEMMA ReadRefines ==
    ASSUME StoreInv, NEW t \in Thread,
           GetUserRole(t) \/ ReadUsers(t) \/ ReadBanList(t) \/ ReadRole(t)
    PROVE  Store!AtomicNext \/ UNCHANGED Store!storeVars
<1> DEFINE account == disk.users[req[t].name]
<1>1. /\ pc[t] \notin {"idle", "return"} /\ UNCHANGED disk /\ req[t] \in Request
      /\ Store!Open(t, req[t].op)
    BY CallOpen DEF GetUserRole, ReadUsers, ReadBanList, ReadRole, files
<1>2. CASE GetUserRole(t)
    <2>1. CASE Finish(t, "raised")
        BY <1>1, <2>1, RaisedRefines
    <2>2. CASE account = None /\ Finish(t, "none")
        BY <1>1, <1>2, <2>2, AnswerRefines, AbstractAction DEF GetUserRole, Store!NoRole
    <2>3. CASE account # None /\ Finish(t, account.role)
        BY <1>1, <1>2, <2>3, AnswerRefines, AbstractAction DEF GetUserRole, Store!ReadRole
    <2>4. QED
        BY <1>2, <2>1, <2>2, <2>3 DEF GetUserRole
<1>3. CASE ReadUsers(t)
    <2>1. CASE Finish(t, "raised")
        BY <1>1, <2>1, RaisedRefines
    <2>2. CASE Finish(t, "False")
        BY <1>1, <1>3, <2>2, AnswerRefines, AbstractAction DEF ReadUsers, Store!RefuseLogin
    <2>3. CASE UNCHANGED <<req, ans>>
        BY <1>1, <2>3 DEF Store!storeVars
    <2>4. QED
        BY <1>3, <2>1, <2>2, <2>3 DEF ReadUsers, Goto
<1>4. CASE ReadBanList(t)
    <2>1. req[t].op = "LOGIN"
        BY <1>4 DEF ReadBanList, StoreInv, CallInv
    <2>2. CASE req[t].name \in disk.ban /\ Finish(t, "banned")
        BY <1>1, <2>1, <2>2, AnswerRefines, AbstractAction DEF Store!LoginBanned
    <2>3. CASE UNCHANGED <<req, ans>>
        BY <1>1, <2>3 DEF Store!storeVars
    <2>4. QED
        BY <1>4, <2>2, <2>3 DEF ReadBanList, Goto
<1>5. CASE ReadRole(t)
    <2>1. req[t].op = "LOGIN" /\ account # None
        BY <1>1, <1>5 DEF ReadRole, StoreInv, CallInv, KnownInv
    <2>2. CASE Finish(t, account.role)
        BY <1>1, <2>1, <2>2, AnswerRefines, AbstractAction DEF Store!ReadRole
    <2>3. CASE Finish(t, "raised")
        BY <1>1, <2>3, RaisedRefines
    <2>4. QED
        BY <1>5, <2>2, <2>3 DEF ReadRole
<1>6. QED
    BY <1>2, <1>3, <1>4, <1>5

LEMMA ReturnRefines ==
    ASSUME StoreInv, NEW t \in Thread, Return(t)
    PROVE  Store!AtomicNext
<1>1. Store!Return(t)
    BY DEF Return, files, StoreInv, CallInv, Store!Return
<1>2. QED
    BY <1>1, AbstractAction

LEMMA StoreStepRefines == StoreInv /\ [Next]_vars => [Store!AtomicNext]_Store!storeVars
<1> SUFFICES ASSUME StoreInv, [Next]_vars
             PROVE  Store!AtomicNext \/ UNCHANGED Store!storeVars
    OBVIOUS
<1>1. ASSUME NEW t \in Thread, Call(t) \/ Step(t)
      PROVE  Store!AtomicNext \/ UNCHANGED Store!storeVars
    BY <1>1, CallRefines, ValidateRefines, LoadRefines, TemporaryRefines, ReplaceRefines,
       ReadRefines, ReturnRefines DEF Step
<1>2. CASE Crash
    BY <1>2 DEF Crash, Nothing, Store!AtomicNext, Store!Crash, Store!AtomicInit
<1>3. CASE UNCHANGED vars
    BY <1>3 DEF vars, files, threads, Store!storeVars
<1>4. QED
    BY <1>1, <1>2, <1>3 DEF Next

\* The account file and the ban file behave as the atomic store does, for any number
\* of threads and calls: every call takes effect at one moment, whatever other threads
\* do, whichever file operation fails and wherever the process is killed.
THEOREM StoreImplementsAtomic == Spec => Linearizable
<1>1. Init => Store!AtomicInit
    BY DEF Init, Nothing, Store!AtomicInit
<1>2. QED
    BY <1>1, StoreInvariant, StoreStepRefines, PTL DEF Spec, Linearizable, Store!AtomicSpec
==============================================================================
