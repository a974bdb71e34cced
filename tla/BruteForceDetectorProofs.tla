---------------------- MODULE BruteForceDetectorProofs ----------------------
(***************************************************************************)
(* Theorems about BruteForceDetector: its types, that the state file holds *)
(* what the memory holds, that a restart between two writes forgets no     *)
(* count, and the bound on the logins that slip past a block.              *)
(***************************************************************************)
EXTENDS BruteForceDetector, FiniteSetTheorems, TLAPS

\* The failures of a tick are numbered without gaps, so that the next number is free
\* and the set of failures counts like the list of time stamps.
Numbered(S) == \A f \in S : f.number <= Cardinality({g \in S : g.time = f.time})

HistoryInv ==
    \A ip \in IP : /\ IsFiniteSet(failed_attempts_history[ip])
                   /\ Numbered(failed_attempts_history[ip])

\* The ends of blocks in the file are whole seconds, so that loading and writing
\* them again changes nothing.
FileWhole == \A ip \in IP : WholeSeconds(Loaded.blocked_ips[ip]) = Loaded.blocked_ips[ip]

DetectorInv ==
    /\ DetectorTypeOK /\ HistoryInv /\ FileWhole /\ FileCurrent /\ OvershootBounded
-----------------------------------------------------------------------------
USE DetectorAssumption
(* The state file.                                                         *)

\* Dropping the fraction of a second twice is dropping it once.
LEMMA WholeSecondsIdempotent ==
    ASSUME NEW t \in {None} \cup Nat
    PROVE  /\ WholeSeconds(t) \in {None} \cup Nat
           /\ WholeSeconds(WholeSeconds(t)) = WholeSeconds(t)
<1>1. CASE t = None
    BY <1>1 DEF WholeSeconds
<1>2. CASE t # None
    <2> DEFINE T == TicksPerSecond
    <2>1. t \in Nat /\ T \in Nat \ {0}
        BY <1>2
    <2> HIDE DEF T
    <2>2. t \div T \in Nat /\ t = T * (t \div T) + (t % T) /\ t - (t % T) \in Nat
        <3>1. t \div T \in Nat
            BY <2>1
        <3>2. t = T * (t \div T) + (t % T)
            BY <2>1
        <3>3. t - (t % T) \in Nat
            BY <2>1
        <3>4. QED
            BY <3>1, <3>2, <3>3
    <2>3. t - (t % T) = T * (t \div T)
        BY <2>1, <2>2
    <2>4. \A q \in Nat : (T * q) % T = 0
        BY <2>1
    <2>5. (t - (t % T)) % T = 0
        BY <2>2, <2>3, <2>4
    <2>6. QED
        BY <1>2, <2>2, <2>5 DEF WholeSeconds, T
<1>3. QED
    BY <1>1, <1>2

LEMMA FileFacts ==
    ASSUME DetectorTypeOK
    PROVE  /\ Saved \in State /\ Loaded \in State /\ NoState \in State
           /\ \A s \in State : s # Truncated
           /\ \A ip \in IP : WholeSeconds(Saved.blocked_ips[ip]) = Saved.blocked_ips[ip]
<1>1. violation_count \in [IP -> Nat] /\ blocked_ips \in [IP -> {None} \cup Nat]
      /\ file \in State \cup {Truncated}
    BY DEF DetectorTypeOK
<1>2. \A ip \in IP : /\ WholeSeconds(blocked_ips[ip]) \in {None} \cup Nat
                     /\ WholeSeconds(WholeSeconds(blocked_ips[ip])) = WholeSeconds(blocked_ips[ip])
    BY <1>1, WholeSecondsIdempotent
<1>3. NoState \in State
    BY DEF NoState, State
<1>4. Saved \in State
    BY <1>1, <1>2 DEF Saved, State
<1>5. \A s \in State : s # Truncated
    BY DEF State, Truncated
<1>6. \A ip \in IP : WholeSeconds(Saved.blocked_ips[ip]) = Saved.blocked_ips[ip]
    BY <1>2 DEF Saved
<1>7. QED
    BY <1>1, <1>3, <1>4, <1>5, <1>6 DEF Loaded
-----------------------------------------------------------------------------
(* The failures of an address.                                             *)

LEMMA FailureFacts ==
    ASSUME DetectorInv, NEW ip \in IP, NEW t \in 0..now
    PROVE  /\ Recent(ip, t) \in SUBSET [time : 0..MaxTime, number : Nat \ {0}]
           /\ Failure(ip, t) \notin failed_attempts_history[ip]
           /\ IsFiniteSet(Recent(ip, t)) /\ Cardinality(Recent(ip, t)) \in Nat
           /\ Numbered(Recent(ip, t))
<1> DEFINE H == failed_attempts_history[ip]
           At(u) == {g \in H : g.time = u}
           R == Recent(ip, t)
           new == Failure(ip, t)
<1>1. /\ H \in SUBSET [time : 0..MaxTime, number : Nat \ {0}]
      /\ IsFiniteSet(H) /\ Numbered(H) /\ now \in 0..MaxTime /\ t \in 0..MaxTime
    BY DEF DetectorInv, DetectorTypeOK, HistoryInv
<1>2. IsFiniteSet(At(t)) /\ Cardinality(At(t)) \in Nat
    <2>1. At(t) \subseteq H
        OBVIOUS
    <2>2. IsFiniteSet(At(t))
        BY <1>1, <2>1, FS_Subset
    <2>3. QED
        BY <2>2, FS_CardinalityType
<1>3. new.time = t /\ new.number = Cardinality(At(t)) + 1
    BY DEF Failure
<1>4. new \in [time : 0..MaxTime, number : Nat \ {0}]
    BY <1>1, <1>2 DEF Failure
<1>5. new \notin H
    <2>1. \A f \in H : f.time = t => f.number <= Cardinality(At(t))
        BY <1>1 DEF Numbered
    <2>2. QED
        BY <1>2, <1>3, <2>1
<1>6. R \in SUBSET [time : 0..MaxTime, number : Nat \ {0}] /\ R \subseteq H \cup {new}
    BY <1>1, <1>4 DEF Recent
<1>7. IsFiniteSet(H \cup {new})
    BY <1>1, FS_AddElement
<1>8. IsFiniteSet(R) /\ Cardinality(R) \in Nat
    BY <1>6, <1>7, FS_Subset, FS_CardinalityType
<1>9. Numbered(R)
    <2> SUFFICES ASSUME NEW f \in R
                 PROVE  f.number <= Cardinality({g \in R : g.time = f.time})
        BY DEF Numbered
    <2> DEFINE G == {g \in R : g.time = f.time}
    <2>1. f.time >= t - Window
        BY DEF Recent
    <2>2. CASE f.time = t
        <3>1. G = At(t) \cup {new}
            BY <1>3, <2>1, <2>2 DEF Recent
        <3>2. new \notin At(t)
            BY <1>5
        <3>3. Cardinality(G) = Cardinality(At(t)) + 1
            BY <1>2, <3>1, <3>2, FS_AddElement
        <3>4. f.number <= Cardinality(At(t)) + 1
            <4>1. CASE f = new
                BY <1>2, <1>3, <4>1
            <4>2. CASE f \in H
                <5>1. f.number <= Cardinality(At(t)) /\ f.number \in Nat
                    BY <1>1, <2>2, <4>2 DEF Numbered
                <5>2. QED
                    BY <5>1, <1>2
            <4>3. QED
                BY <1>6, <4>1, <4>2
        <3>5. QED
            BY <3>3, <3>4
    <2>3. CASE f.time # t
        <3>1. f \in H
            BY <1>3, <1>6, <2>3
        <3>2. G = At(f.time)
            BY <1>3, <2>1, <2>3 DEF Recent
        <3>3. QED
            BY <1>1, <3>1, <3>2 DEF Numbered
    <2>4. QED
        BY <2>2, <2>3
<1>10. QED
    BY <1>5, <1>6, <1>8, <1>9
-----------------------------------------------------------------------------
(* What the methods do, as the proofs use it.                              *)

LEMMA InitInv == DetectorInit => DetectorInv
<1> SUFFICES ASSUME DetectorInit PROVE DetectorInv
    OBVIOUS
<1>1. IsFiniteSet({})
    BY FS_EmptySet
<1>2. NoState \in State /\ NoState # Truncated
    BY DEF NoState, State, Truncated
<1>3. DetectorTypeOK
    <2>1. NoState.violation_count \in [IP -> Nat] /\ NoState.blocked_ips \in [IP -> {None} \cup Nat]
        BY DEF NoState
    <2>2. late \in [IP -> Nat] /\ pc \in [Handler -> {"idle", "login", "refused", "failed"}]
        BY DEF DetectorInit
    <2>3. record \in [Handler -> {None} \cup [ip : IP, timestamp : {None} \cup 0..MaxTime]]
        BY DEF DetectorInit
    <2>4. failed_attempts_history \in [IP -> SUBSET [time : 0..MaxTime, number : Nat \ {0}]]
        BY DEF DetectorInit
    <2>5. violation_count \in [IP -> Nat] /\ blocked_ips \in [IP -> {None} \cup Nat]
        BY <2>1 DEF DetectorInit
    <2>6. file \in State \cup {Truncated}
        BY <1>2 DEF DetectorInit
    <2>7. now \in 0..MaxTime /\ saver \in Handler \cup {None} /\ \A h \in Handler : pc[h] = "idle"
        BY DEF DetectorInit
    <2>8. unsaved \in BOOLEAN
        BY DEF DetectorInit
    <2>9. QED
        BY <2>2, <2>3, <2>4, <2>5, <2>6, <2>7, <2>8 DEF DetectorTypeOK
<1>4. HistoryInv
    BY <1>1 DEF DetectorInit, HistoryInv, Numbered
<1>5. FileWhole /\ FileCurrent
    <2>1. Loaded = NoState
        BY <1>2 DEF DetectorInit, Loaded
    <2>2. \A ip \in IP : WholeSeconds(NoState.blocked_ips[ip]) = None /\ NoState.blocked_ips[ip] = None
        BY DEF NoState, WholeSeconds
    <2>3. Saved = NoState
        BY <2>2 DEF DetectorInit, Saved, NoState
    <2>4. QED
        BY <2>1, <2>2, <2>3 DEF FileWhole, FileCurrent
<1>6. OvershootBounded
    BY DEF DetectorInit, NoState, OvershootBounded, InForce
<1>7. QED
    BY <1>3, <1>4, <1>5, <1>6 DEF DetectorInv

\* The file is truncated, or the attempt to write it has failed.
Writing(h) ==
    \/ unsaved' = TRUE /\ UNCHANGED <<file, saver>>
    \/ file' = Truncated /\ saver' = h /\ UNCHANGED unsaved

LEMMA ExpireCases ==
    ASSUME DetectorTypeOK, NEW h \in Handler, NEW ip \in IP, NEW raised \in BOOLEAN,
           Expire(h, ip, raised)
    PROVE  /\ saver = None /\ UNCHANGED <<failed_attempts_history, violation_count>>
           /\ \/ ~Over(ip) /\ UNCHANGED <<blocked_ips, file, saver, unsaved>>
              \/ Over(ip) /\ blocked_ips' = [blocked_ips EXCEPT ![ip] = None] /\ Writing(h)
BY DEF Expire, BeginSave, Writing, disk

LEMMA RecordFacts ==
    ASSUME DetectorTypeOK, NEW h \in Handler, pc[h] # "idle"
    PROVE  /\ record[h] \in [ip : IP, timestamp : {None} \cup 0..MaxTime]
           /\ record[h].ip \in IP
           /\ pc[h] = "failed" => record[h].timestamp \in 0..now
BY DEF DetectorTypeOK

LEMMA BanDurationType ==
    ASSUME NEW n \in Nat PROVE BanDuration(n) \in Nat
<1>1. BanDuration(n) \in {BlockDuration * 1, BlockDuration * 5, BlockDuration * 30, BlockDuration * 1440}
    BY DEF BanDuration
<1>2. QED
    BY <1>1

\* What process_record() does with a failure: it counts it, or blocks the address.
LEMMA ProcessCases ==
    ASSUME DetectorInv, NEW h \in Handler, ProcessRecord(h)
    PROVE  LET ip == record[h].ip  t == record[h].timestamp IN
           /\ pc[h] = "failed" /\ saver = None /\ ip \in IP /\ t \in 0..now
           /\ pc' = [pc EXCEPT ![h] = "idle"] /\ record' = [record EXCEPT ![h] = None]
           /\ late' = [late EXCEPT ![ip] = IF InForce(ip) THEN @ + 1 ELSE 0]
           /\ UNCHANGED now
           /\ \/ /\ violation_count' = [violation_count EXCEPT ![ip] = @ + 1]
                 /\ \E end \in Nat : blocked_ips' = [blocked_ips EXCEPT ![ip] = end]
                 /\ failed_attempts_history' = [failed_attempts_history EXCEPT ![ip] = {}]
                 /\ Writing(h)
              \/ /\ failed_attempts_history' = [failed_attempts_history EXCEPT ![ip] = Recent(ip, t)]
                 /\ UNCHANGED <<violation_count, blocked_ips, file, saver, unsaved>>
<1> DEFINE ip == record[h].ip
           t == record[h].timestamp
<1>1. DetectorTypeOK /\ pc[h] = "failed" /\ saver = None
    BY DEF DetectorInv, ProcessRecord
<1>2. ip \in IP /\ t \in 0..now
    BY <1>1, RecordFacts
<1>3. /\ pc' = [pc EXCEPT ![h] = "idle"] /\ record' = [record EXCEPT ![h] = None]
      /\ late' = [late EXCEPT ![ip] = IF InForce(ip) THEN @ + 1 ELSE 0] /\ UNCHANGED now
    BY DEF ProcessRecord, Continue
<1>4. CASE Cardinality(Recent(ip, t)) >= MaxAttempts
    <2>1. Block(h, ip, t)
        BY <1>4 DEF ProcessRecord
    <2>2. violation_count' = [violation_count EXCEPT ![ip] = @ + 1] /\ violation_count'[ip] \in Nat
        BY <1>1, <1>2, <2>1 DEF Block, DetectorTypeOK
    <2>3. BanDuration(violation_count'[ip]) \in Nat
        BY <2>2, BanDurationType
    <2>4. t \in Nat /\ t + BanDuration(violation_count'[ip]) \in Nat
        BY <1>1, <1>2, <2>3 DEF DetectorTypeOK
    <2>5. \E end \in Nat : blocked_ips' = [blocked_ips EXCEPT ![ip] = end]
        BY <2>1, <2>4 DEF Block
    <2>6. failed_attempts_history' = [failed_attempts_history EXCEPT ![ip] = {}] /\ Writing(h)
        BY <2>1 DEF Block, BeginSave, Writing
    <2>7. QED
        BY <1>1, <1>2, <1>3, <2>2, <2>5, <2>6
<1>5. CASE ~(Cardinality(Recent(ip, t)) >= MaxAttempts)
    <2>1. /\ failed_attempts_history' = [failed_attempts_history EXCEPT ![ip] = Recent(ip, t)]
          /\ UNCHANGED <<violation_count, blocked_ips, file, saver, unsaved>>
        BY <1>5 DEF ProcessRecord, disk
    <2>2. QED
        BY <1>1, <1>2, <1>3, <2>1
<1>6. QED
    BY <1>4, <1>5
-----------------------------------------------------------------------------
(* Every step keeps the types.                                             *)

Memory == failed_attempts_history \in [IP -> SUBSET [time : 0..MaxTime, number : Nat \ {0}]]
          /\ violation_count \in [IP -> Nat] /\ blocked_ips \in [IP -> {None} \cup Nat]

Disk == file \in State \cup {Truncated} /\ saver \in Handler \cup {None} /\ unsaved \in BOOLEAN

Threads ==
    /\ pc \in [Handler -> {"idle", "login", "refused", "failed"}]
    /\ record \in [Handler -> {None} \cup [ip : IP, timestamp : {None} \cup 0..MaxTime]]
    /\ \A h \in Handler : pc[h] # "idle" => record[h] # None
    /\ \A h \in Handler : pc[h] = "failed" => record[h].timestamp \in 0..now

LEMMA TypeParts ==
    /\ DetectorTypeOK => now \in 0..MaxTime /\ late \in [IP -> Nat] /\ Memory /\ Disk /\ Threads
    /\ now' \in 0..MaxTime /\ late' \in [IP -> Nat] /\ Memory' /\ Disk' /\ Threads' => DetectorTypeOK'
BY DEF DetectorTypeOK, Memory, Disk, Threads

LEMMA WritingType ==
    ASSUME DetectorTypeOK, NEW h \in Handler, Writing(h)
    PROVE  Disk'
BY DEF DetectorTypeOK, Writing, Disk

LEMMA ContinueType ==
    ASSUME DetectorTypeOK, NEW h \in Handler, NEW raised \in BOOLEAN,
           NEW p \in {"idle", "login", "refused", "failed"},
           NEW r \in {None} \cup [ip : IP, timestamp : {None} \cup 0..MaxTime],
           p # "idle" => r # None, p = "failed" => r.timestamp \in 0..now,
           Continue(h, p, r, raised), UNCHANGED now
    PROVE  Threads'
<1>1. pc' \in [Handler -> {"idle", "login", "refused", "failed"}]
    BY DEF DetectorTypeOK, Continue
<1>2. record' \in [Handler -> {None} \cup [ip : IP, timestamp : {None} \cup 0..MaxTime]]
    BY DEF DetectorTypeOK, Continue
<1>3. ASSUME NEW g \in Handler, pc'[g] # "idle"
      PROVE  record'[g] # None /\ (pc'[g] = "failed" => record'[g].timestamp \in 0..now)
    BY <1>3 DEF DetectorTypeOK, Continue
<1>4. QED
    BY <1>1, <1>2, <1>3 DEF Threads

LEMMA ExpireType ==
    ASSUME DetectorTypeOK, NEW h \in Handler, NEW ip \in IP, NEW raised \in BOOLEAN,
           Expire(h, ip, raised)
    PROVE  Memory' /\ Disk'
<1>1. CASE ~Over(ip) /\ UNCHANGED <<blocked_ips, file, saver, unsaved>>
    BY <1>1, ExpireCases DEF DetectorTypeOK, Memory, Disk
<1>2. CASE blocked_ips' = [blocked_ips EXCEPT ![ip] = None] /\ Writing(h)
    BY <1>2, ExpireCases, WritingType DEF DetectorTypeOK, Memory
<1>3. QED
    BY <1>1, <1>2, ExpireCases

LEMMA TypeStep == DetectorInv /\ [DetectorNext]_detectorVars => DetectorTypeOK'
<1> SUFFICES ASSUME DetectorInv, [DetectorNext]_detectorVars PROVE DetectorTypeOK'
    OBVIOUS
<1> DEFINE Record == [ip : IP, timestamp : {None} \cup 0..MaxTime]
<1>0. /\ DetectorTypeOK /\ now \in 0..MaxTime /\ late \in [IP -> Nat] /\ Memory /\ Disk /\ Threads
    BY TypeParts DEF DetectorInv
<1>1. ASSUME NEW h \in Handler, CheckBlocked(h) PROVE DetectorTypeOK'
    <2>1. PICK ip \in IP, raised \in BOOLEAN :
            /\ Expire(h, ip, raised)
            /\ Continue(h, IF InForce(ip) THEN "refused" ELSE "login", [ip |-> ip, timestamp |-> None], raised)
        BY <1>1 DEF CheckBlocked
    <2>2. UNCHANGED <<now, late>>
        BY <1>1 DEF CheckBlocked
    <2>3. [ip |-> ip, timestamp |-> None] \in Record /\ [ip |-> ip, timestamp |-> None] # None
        OBVIOUS
    <2>4. Threads'
        BY <1>0, <2>1, <2>2, <2>3, ContinueType
    <2>5. QED
        BY <1>0, <2>1, <2>2, <2>4, ExpireType, TypeParts
<1>2. ASSUME NEW h \in Handler, GetRemainingBanTime(h) PROVE DetectorTypeOK'
    <2>1. PICK raised \in BOOLEAN :
            Expire(h, record[h].ip, raised) /\ Continue(h, "idle", None, raised)
        BY <1>2 DEF GetRemainingBanTime
    <2>2. UNCHANGED <<now, late>> /\ record[h].ip \in IP
        BY <1>0, <1>2, RecordFacts DEF GetRemainingBanTime
    <2>3. Threads'
        BY <1>0, <2>1, <2>2, ContinueType
    <2>4. QED
        BY <1>0, <2>1, <2>2, <2>3, ExpireType, TypeParts
<1>3. ASSUME NEW h \in Handler, NoFailure(h) PROVE DetectorTypeOK'
    <2>1. Continue(h, "idle", None, FALSE) /\ UNCHANGED <<now, memory, disk, late>>
        BY <1>3 DEF NoFailure
    <2>2. Threads'
        BY <1>0, <2>1, ContinueType
    <2>3. Memory' /\ Disk'
        BY <1>0, <2>1 DEF Memory, Disk, memory, disk
    <2>4. QED
        BY <1>0, <2>1, <2>2, <2>3, TypeParts
<1>4. ASSUME NEW h \in Handler, LoginFails(h) PROVE DetectorTypeOK'
    <2> DEFINE r == [record[h] EXCEPT !.timestamp = now]
    <2>1. Continue(h, "failed", r, FALSE) /\ UNCHANGED <<now, memory, disk, late>>
        BY <1>4 DEF LoginFails
    <2>2. record[h] \in Record
        BY <1>0, <1>4, RecordFacts DEF LoginFails
    <2>3. r \in Record /\ r # None /\ r.timestamp \in 0..now
        BY <1>0, <2>2
    <2>4. Threads'
        <3> HIDE DEF r
        <3> QED BY <1>0, <2>1, <2>3, ContinueType
    <2>5. Memory' /\ Disk'
        BY <1>0, <2>1 DEF Memory, Disk, memory, disk
    <2>6. QED
        BY <1>0, <2>1, <2>4, <2>5, TypeParts
<1>5. ASSUME NEW h \in Handler, ProcessRecord(h) PROVE DetectorTypeOK'
    <2> DEFINE ip == record[h].ip
               t == record[h].timestamp
    <2>1. ip \in IP /\ t \in 0..now /\ UNCHANGED now /\ Continue(h, "idle", None, FALSE)
        BY <1>5, ProcessCases DEF ProcessRecord
    <2>2. Threads'
        BY <1>0, <2>1, ContinueType
    <2>3. late' \in [IP -> Nat]
        BY <1>0, <1>5, <2>1, ProcessCases
    <2>4. Memory' /\ Disk'
        <3>1. CASE /\ violation_count' = [violation_count EXCEPT ![ip] = @ + 1]
                   /\ \E end \in Nat : blocked_ips' = [blocked_ips EXCEPT ![ip] = end]
                   /\ failed_attempts_history' = [failed_attempts_history EXCEPT ![ip] = {}]
                   /\ Writing(h)
            BY <1>0, <2>1, <3>1, WritingType DEF Memory
        <3>2. CASE /\ failed_attempts_history' = [failed_attempts_history EXCEPT ![ip] = Recent(ip, t)]
                   /\ UNCHANGED <<violation_count, blocked_ips, file, saver, unsaved>>
            <4>1. Recent(ip, t) \in SUBSET [time : 0..MaxTime, number : Nat \ {0}]
                BY <2>1, FailureFacts
            <4>2. QED
                BY <1>0, <2>1, <3>2, <4>1 DEF Memory, Disk
        <3>3. QED
            BY <1>5, <3>1, <3>2, ProcessCases
    <2>5. QED
        BY <1>0, <2>1, <2>2, <2>3, <2>4, TypeParts
<1>6. ASSUME NEW h \in Handler, EndSave(h) PROVE DetectorTypeOK'
    <2>1. UNCHANGED <<now, memory, late>> /\ saver' = None
        BY <1>6 DEF EndSave
    <2>2. Memory'
        BY <1>0, <2>1 DEF Memory, memory
    <2>3. CASE file' = Saved /\ unsaved' = FALSE /\ UNCHANGED threads
        <3>1. Disk'
            BY <1>0, <2>1, <2>3, FileFacts DEF Disk
        <3>2. Threads'
            BY <1>0, <2>1, <2>3 DEF Threads, threads
        <3>3. QED
            BY <1>0, <2>1, <2>2, <3>1, <3>2, TypeParts
    <2>4. CASE unsaved' = TRUE /\ Continue(h, "idle", None, TRUE) /\ UNCHANGED file
        <3>1. Disk'
            BY <1>0, <2>1, <2>4 DEF Disk
        <3>2. Threads'
            BY <1>0, <2>1, <2>4, ContinueType
        <3>3. QED
            BY <1>0, <2>1, <2>2, <3>1, <3>2, TypeParts
    <2>5. QED
        BY <1>6, <2>3, <2>4 DEF EndSave
<1>7. ASSUME Restart PROVE DetectorTypeOK'
    <2>1. Loaded.violation_count \in [IP -> Nat] /\ Loaded.blocked_ips \in [IP -> {None} \cup Nat]
        BY <1>0, FileFacts DEF State
    <2>2. Memory'
        BY <1>7, <2>1 DEF Restart, Memory
    <2>3. Disk' /\ UNCHANGED now /\ late' \in [IP -> Nat]
        BY <1>0, <1>7 DEF Restart, Disk
    <2>4. Threads'
        BY <1>7 DEF Restart, Threads
    <2>5. QED
        BY <1>0, <2>2, <2>3, <2>4, TypeParts
<1>8. ASSUME Tick PROVE DetectorTypeOK'
    <2>1. now' \in 0..MaxTime /\ \A t : t \in 0..now => t \in 0..now'
        BY <1>0, <1>8 DEF Tick
    <2>2. Memory' /\ Disk' /\ UNCHANGED late
        BY <1>0, <1>8 DEF Tick, Memory, Disk, memory, disk
    <2>3. Threads'
        BY <1>0, <1>8, <2>1 DEF Tick, Threads, threads
    <2>4. QED
        BY <1>0, <2>1, <2>2, <2>3, TypeParts
<1>9. ASSUME UNCHANGED detectorVars PROVE DetectorTypeOK'
    BY <1>0, <1>9 DEF detectorVars, memory, disk, threads, DetectorTypeOK
<1>10. QED
    BY <1>1, <1>2, <1>3, <1>4, <1>5, <1>6, <1>7, <1>8, <1>9 DEF DetectorNext
-----------------------------------------------------------------------------
(* Every step keeps the other parts of the invariant.                      *)

LEMMA HistoryStep == DetectorInv /\ [DetectorNext]_detectorVars => HistoryInv'
<1> SUFFICES ASSUME DetectorInv, [DetectorNext]_detectorVars PROVE HistoryInv'
    OBVIOUS
<1>0. DetectorTypeOK /\ HistoryInv /\ failed_attempts_history \in [IP -> SUBSET [time : 0..MaxTime, number : Nat \ {0}]]
    BY DEF DetectorInv, DetectorTypeOK
<1>1. IsFiniteSet({}) /\ Numbered({})
    BY FS_EmptySet DEF Numbered
<1>2. ASSUME UNCHANGED failed_attempts_history PROVE HistoryInv'
    BY <1>0, <1>2 DEF HistoryInv
<1>3. ASSUME NEW ip \in IP, NEW S, IsFiniteSet(S), Numbered(S),
             failed_attempts_history' = [failed_attempts_history EXCEPT ![ip] = S]
      PROVE  HistoryInv'
    BY <1>0, <1>3 DEF HistoryInv
<1>4. ASSUME NEW h \in Handler, ProcessRecord(h) PROVE HistoryInv'
    <2> DEFINE ip == record[h].ip
               t == record[h].timestamp
    <2>1. ip \in IP /\ t \in 0..now
        BY <1>4, ProcessCases
    <2>2. CASE failed_attempts_history' = [failed_attempts_history EXCEPT ![ip] = {}]
        BY <1>1, <1>3, <2>1, <2>2
    <2>3. CASE failed_attempts_history' = [failed_attempts_history EXCEPT ![ip] = Recent(ip, t)]
        <3>1. IsFiniteSet(Recent(ip, t)) /\ Numbered(Recent(ip, t))
            BY <2>1, FailureFacts
        <3>2. QED
            BY <1>3, <2>1, <2>3, <3>1
    <2>4. QED
        BY <1>4, <2>2, <2>3, ProcessCases
<1>5. ASSUME Restart PROVE HistoryInv'
    BY <1>1, <1>5 DEF Restart, HistoryInv
<1>6. ASSUME NEW h \in Handler,
             CheckBlocked(h) \/ GetRemainingBanTime(h) \/ NoFailure(h) \/ LoginFails(h) \/ EndSave(h)
      PROVE  UNCHANGED failed_attempts_history
    BY <1>6 DEF CheckBlocked, GetRemainingBanTime, NoFailure, LoginFails, EndSave, Expire, memory
<1>7. ASSUME Tick \/ UNCHANGED detectorVars PROVE UNCHANGED failed_attempts_history
    BY <1>7 DEF Tick, detectorVars, memory
<1>8. QED
    BY <1>2, <1>4, <1>5, <1>6, <1>7 DEF DetectorNext

\* While the file is being written, or could not be, the invariant asks nothing of it.
LEMMA WritingFile ==
    ASSUME DetectorInv, NEW h \in Handler, Writing(h)
    PROVE  FileWhole' /\ FileCurrent'
<1>1. CASE unsaved' = TRUE /\ UNCHANGED <<file, saver>>
    BY <1>1 DEF DetectorInv, FileWhole, FileCurrent, Loaded, WholeSeconds
<1>2. CASE file' = Truncated /\ saver' = h
    BY <1>2 DEF FileWhole, FileCurrent, Loaded, NoState, WholeSeconds
<1>3. QED
    BY <1>1, <1>2 DEF Writing

LEMMA SameFile ==
    ASSUME DetectorInv, UNCHANGED <<violation_count, blocked_ips, file, saver, unsaved>>
    PROVE  FileWhole' /\ FileCurrent'
BY DEF DetectorInv, FileWhole, FileCurrent, Loaded, Saved, WholeSeconds

LEMMA FileStep == DetectorInv /\ [DetectorNext]_detectorVars => FileWhole' /\ FileCurrent'
<1> SUFFICES ASSUME DetectorInv, [DetectorNext]_detectorVars PROVE FileWhole' /\ FileCurrent'
    OBVIOUS
<1>0. DetectorTypeOK
    BY DEF DetectorInv
<1>1. ASSUME NEW h \in Handler, NEW ip \in IP, NEW raised \in BOOLEAN, Expire(h, ip, raised)
      PROVE  FileWhole' /\ FileCurrent'
    BY <1>0, <1>1, ExpireCases, WritingFile, SameFile
<1>2. ASSUME NEW h \in Handler, CheckBlocked(h) PROVE FileWhole' /\ FileCurrent'
    BY <1>1, <1>2 DEF CheckBlocked
<1>3. ASSUME NEW h \in Handler, GetRemainingBanTime(h) PROVE FileWhole' /\ FileCurrent'
    <2>1. record[h].ip \in IP
        BY <1>0, <1>3, RecordFacts DEF GetRemainingBanTime
    <2>2. QED
        BY <1>1, <1>3, <2>1 DEF GetRemainingBanTime
<1>4. ASSUME NEW h \in Handler, ProcessRecord(h) PROVE FileWhole' /\ FileCurrent'
    BY <1>4, ProcessCases, WritingFile, SameFile
<1>5. ASSUME NEW h \in Handler, EndSave(h) PROVE FileWhole' /\ FileCurrent'
    <2>1. UNCHANGED <<violation_count, blocked_ips>> /\ saver' = None
        BY <1>5 DEF EndSave, memory
    <2>2. CASE file' = Saved
        <3>1. Saved' = Saved
            BY <2>1 DEF Saved, WholeSeconds
        <3>2. Loaded' = Saved
            BY <1>0, <2>2, FileFacts DEF Loaded
        <3>3. \A ip \in IP : WholeSeconds(Saved.blocked_ips[ip]) = Saved.blocked_ips[ip]
            BY <1>0, FileFacts
        <3>4. FileWhole'
            BY <3>2, <3>3 DEF FileWhole, WholeSeconds
        <3>5. QED
            BY <3>1, <3>2, <3>4 DEF FileCurrent
    <2>3. CASE unsaved' = TRUE /\ UNCHANGED file
        BY <2>3 DEF DetectorInv, FileWhole, FileCurrent, Loaded, WholeSeconds
    <2>4. QED
        BY <1>5, <2>2, <2>3 DEF EndSave
<1>6. ASSUME Restart PROVE FileWhole' /\ FileCurrent'
    <2>1. Loaded' = Loaded /\ violation_count' = Loaded.violation_count /\ blocked_ips' = Loaded.blocked_ips
        BY <1>6 DEF Restart, Loaded
    <2>2. FileWhole'
        BY <2>1 DEF DetectorInv, FileWhole, WholeSeconds
    <2>3. Loaded \in State
        BY <1>0, FileFacts
    <2>4. [ip \in IP |-> WholeSeconds(Loaded.blocked_ips[ip])] = Loaded.blocked_ips
        BY <2>3 DEF DetectorInv, FileWhole, State
    <2>5. Saved' = [violation_count |-> Loaded.violation_count, blocked_ips |-> Loaded.blocked_ips]
        BY <2>1, <2>4 DEF Saved, WholeSeconds
    <2>6. Saved' = Loaded
        BY <2>3, <2>5 DEF State
    <2>7. QED
        BY <2>1, <2>2, <2>6 DEF FileCurrent
<1>7. ASSUME NEW h \in Handler, NoFailure(h) \/ LoginFails(h) PROVE FileWhole' /\ FileCurrent'
    BY <1>7, SameFile DEF NoFailure, LoginFails, memory, disk
<1>8. ASSUME Tick \/ UNCHANGED detectorVars PROVE FileWhole' /\ FileCurrent'
    BY <1>8, SameFile DEF Tick, detectorVars, memory, disk
<1>9. QED
    BY <1>2, <1>3, <1>4, <1>5, <1>6, <1>7, <1>8 DEF DetectorNext
-----------------------------------------------------------------------------
(* The logins that slip past a block.                                      *)

LEMMA InFlightFinite ==
    ASSUME NEW S, S \subseteq Handler
    PROVE  IsFiniteSet(S) /\ Cardinality(S) \in Nat /\ Cardinality(S) <= Cardinality(Handler)
           /\ Cardinality(Handler) \in Nat
BY FS_Subset, FS_CardinalityType

\* The bound for one address.
Bounded(ip) == InForce(ip) => late[ip] + Cardinality(InFlight(ip)) < Cardinality(Handler)

\* It is kept when the address gets no new block and no new login.
LEMMA FewerInFlight ==
    ASSUME DetectorInv, NEW ip \in IP, InForce(ip)' => InForce(ip),
           late'[ip] = late[ip], InFlight(ip)' \subseteq InFlight(ip)
    PROVE  Bounded(ip)'
<1> SUFFICES ASSUME InForce(ip)' PROVE late'[ip] + Cardinality(InFlight(ip)') < Cardinality(Handler)
    BY DEF Bounded
<1>1. late[ip] + Cardinality(InFlight(ip)) < Cardinality(Handler) /\ late[ip] \in Nat
    BY DEF DetectorInv, OvershootBounded, DetectorTypeOK
<1>2. InFlight(ip) \subseteq Handler
    BY DEF InFlight
<1>3. IsFiniteSet(InFlight(ip)) /\ Cardinality(InFlight(ip)) \in Nat /\ Cardinality(Handler) \in Nat
    BY <1>2, InFlightFinite
<1>4. Cardinality(InFlight(ip)') \in Nat /\ Cardinality(InFlight(ip)') <= Cardinality(InFlight(ip))
    BY <1>3, FS_Subset, FS_CardinalityType
<1>5. QED
    BY <1>1, <1>3, <1>4

\* A check ends no block that is in force, and no address but its own is affected.
LEMMA ExpireInForce ==
    ASSUME DetectorTypeOK, NEW h \in Handler, NEW ip \in IP, NEW raised \in BOOLEAN,
           Expire(h, ip, raised), UNCHANGED now
    PROVE  /\ \A i \in IP : InForce(i)' => InForce(i)
           /\ InForce(ip)' <=> InForce(ip)
<1>1. blocked_ips \in [IP -> {None} \cup Nat] /\ now \in Nat
    BY DEF DetectorTypeOK
<1>2. CASE UNCHANGED blocked_ips
    BY <1>2 DEF InForce
<1>3. CASE Over(ip) /\ blocked_ips' = [blocked_ips EXCEPT ![ip] = None]
    BY <1>1, <1>3 DEF InForce, Over
<1>4. QED
    BY <1>2, <1>3, ExpireCases

LEMMA OvershootStep == DetectorInv /\ [DetectorNext]_detectorVars => OvershootBounded'
<1> SUFFICES ASSUME DetectorInv, [DetectorNext]_detectorVars, NEW ip \in IP PROVE Bounded(ip)'
    BY DEF OvershootBounded, Bounded
<1>0. DetectorTypeOK /\ pc \in [Handler -> {"idle", "login", "refused", "failed"}]
      /\ record \in [Handler -> {None} \cup [ip : IP, timestamp : {None} \cup 0..MaxTime]]
    BY DEF DetectorInv, DetectorTypeOK
<1>1. ASSUME NEW h \in Handler, CheckBlocked(h) PROVE Bounded(ip)'
    <2>1. PICK a \in IP, raised \in BOOLEAN :
            /\ Expire(h, a, raised)
            /\ Continue(h, IF InForce(a) THEN "refused" ELSE "login", [ip |-> a, timestamp |-> None], raised)
        BY <1>1 DEF CheckBlocked
    <2>2. pc[h] = "idle" /\ UNCHANGED <<now, late>>
        BY <1>1 DEF CheckBlocked
    <2>3. (InForce(ip)' => InForce(ip)) /\ (InForce(a)' <=> InForce(a))
        BY <1>0, <2>1, <2>2, ExpireInForce
    <2>4. CASE ip = a /\ ~InForce(a)
        BY <2>3, <2>4 DEF Bounded
    <2>5. CASE ip # a \/ InForce(a)
        <3>1. InFlight(ip)' \subseteq InFlight(ip)
            BY <1>0, <2>1, <2>2, <2>5 DEF InFlight, Continue
        <3>2. QED
            BY <2>2, <2>3, <3>1, FewerInFlight
    <2>6. QED
        BY <2>4, <2>5
<1>2. ASSUME NEW h \in Handler, GetRemainingBanTime(h) PROVE Bounded(ip)'
    <2>1. PICK raised \in BOOLEAN :
            Expire(h, record[h].ip, raised) /\ Continue(h, "idle", None, raised)
        BY <1>2 DEF GetRemainingBanTime
    <2>2. UNCHANGED <<now, late>> /\ record[h].ip \in IP
        BY <1>0, <1>2, RecordFacts DEF GetRemainingBanTime
    <2>3. InForce(ip)' => InForce(ip)
        BY <1>0, <2>1, <2>2, ExpireInForce
    <2>4. InFlight(ip)' \subseteq InFlight(ip)
        BY <1>0, <2>1 DEF InFlight, Continue
    <2>5. QED
        BY <2>2, <2>3, <2>4, FewerInFlight
<1>3. ASSUME NEW h \in Handler, NoFailure(h) \/ LoginFails(h) PROVE Bounded(ip)'
    <2>1. UNCHANGED <<now, blocked_ips, late>>
        BY <1>3 DEF NoFailure, LoginFails, memory
    <2>2. InForce(ip)' => InForce(ip)
        BY <2>1 DEF InForce
    <2>3. CASE NoFailure(h)
        <3>1. InFlight(ip)' \subseteq InFlight(ip)
            BY <1>0, <2>3 DEF NoFailure, InFlight, Continue
        <3>2. QED
            BY <2>1, <2>2, <3>1, FewerInFlight
    <2>4. CASE LoginFails(h)
        <3>1. record[h] \in [ip : IP, timestamp : {None} \cup 0..MaxTime] /\ pc[h] = "login"
            BY <1>0, <2>4, RecordFacts DEF LoginFails
        <3>2. [record[h] EXCEPT !.timestamp = now].ip = record[h].ip
            BY <3>1
        <3>3. InFlight(ip)' \subseteq InFlight(ip)
            BY <1>0, <2>4, <3>1, <3>2 DEF LoginFails, InFlight, Continue
        <3>4. QED
            BY <2>1, <2>2, <3>3, FewerInFlight
    <2>5. QED
        BY <1>3, <2>3, <2>4
<1>4. ASSUME NEW h \in Handler, ProcessRecord(h) PROVE Bounded(ip)'
    <2> DEFINE a == record[h].ip
    <2>1. /\ pc[h] = "failed" /\ a \in IP /\ UNCHANGED now
          /\ pc' = [pc EXCEPT ![h] = "idle"] /\ record' = [record EXCEPT ![h] = None]
          /\ late' = [late EXCEPT ![a] = IF InForce(a) THEN @ + 1 ELSE 0]
        BY <1>4, ProcessCases
    <2>2. late \in [IP -> Nat]
        BY DEF DetectorInv, DetectorTypeOK
    <2>3. CASE ip # a
        <3>1. blocked_ips'[ip] = blocked_ips[ip]
            <4>1. blocked_ips \in [IP -> {None} \cup Nat]
                BY <1>0 DEF DetectorTypeOK
            <4>2. UNCHANGED blocked_ips \/ \E end \in Nat : blocked_ips' = [blocked_ips EXCEPT ![a] = end]
                BY <1>4, ProcessCases
            <4>3. QED
                BY <2>1, <2>3, <4>1, <4>2
        <3>2. InForce(ip)' => InForce(ip)
            BY <2>1, <3>1 DEF InForce
        <3>3. late'[ip] = late[ip]
            BY <2>1, <2>2, <2>3
        <3>4. InFlight(ip)' \subseteq InFlight(ip)
            BY <1>0, <2>1 DEF InFlight
        <3>5. QED
            BY <3>2, <3>3, <3>4, FewerInFlight
    <2>4. CASE ip = a
        <3>1. h \in InFlight(ip) /\ InFlight(ip) \subseteq Handler
            BY <2>1, <2>4 DEF InFlight
        <3>2. InFlight(ip)' \subseteq InFlight(ip) \ {h}
            BY <1>0, <2>1 DEF InFlight
        <3>3. IsFiniteSet(InFlight(ip)) /\ Cardinality(InFlight(ip)) \in Nat
              /\ Cardinality(InFlight(ip)) <= Cardinality(Handler) /\ Cardinality(Handler) \in Nat
            BY <3>1, InFlightFinite
        <3>4. /\ IsFiniteSet(InFlight(ip) \ {h})
              /\ Cardinality(InFlight(ip) \ {h}) = Cardinality(InFlight(ip)) - 1
            BY <3>1, <3>3, FS_RemoveElement
        <3>5. /\ Cardinality(InFlight(ip)') \in Nat
              /\ Cardinality(InFlight(ip)') <= Cardinality(InFlight(ip)) - 1
            BY <3>2, <3>4, FS_Subset, FS_CardinalityType
        <3>6. CASE InForce(ip)
            <4>1. late'[ip] = late[ip] + 1 /\ late[ip] \in Nat
                BY <2>1, <2>2, <2>4, <3>6
            <4>2. late[ip] + Cardinality(InFlight(ip)) < Cardinality(Handler)
                BY <3>6 DEF DetectorInv, OvershootBounded
            <4>3. late'[ip] + Cardinality(InFlight(ip)') < Cardinality(Handler)
                BY <3>3, <3>5, <4>1, <4>2
            <4>4. QED
                BY <4>3 DEF Bounded
        <3>7. CASE ~InForce(ip)
            <4>1. late'[ip] = 0
                BY <2>1, <2>2, <2>4, <3>7
            <4>2. late'[ip] + Cardinality(InFlight(ip)') < Cardinality(Handler)
                BY <3>3, <3>5, <4>1
            <4>3. QED
                BY <4>2 DEF Bounded
        <3>8. QED
            BY <3>6, <3>7
    <2>5. QED
        BY <2>3, <2>4
<1>5. ASSUME NEW h \in Handler, EndSave(h) PROVE Bounded(ip)'
    <2>1. UNCHANGED <<now, blocked_ips, late>>
        BY <1>5 DEF EndSave, memory
    <2>2. InForce(ip)' => InForce(ip)
        BY <2>1 DEF InForce
    <2>3. InFlight(ip)' \subseteq InFlight(ip)
        BY <1>0, <1>5 DEF EndSave, InFlight, Continue, threads
    <2>4. QED
        BY <2>1, <2>2, <2>3, FewerInFlight
<1>6. ASSUME Restart PROVE Bounded(ip)'
    <2>1. InFlight(ip)' = {} /\ late'[ip] = 0
        BY <1>6 DEF Restart, InFlight
    <2>2. PICK h \in Handler : TRUE
        OBVIOUS
    <2>3. Cardinality(Handler) \in Nat /\ Cardinality(Handler) # 0 /\ Cardinality({}) = 0
        BY <2>2, FS_CardinalityType, FS_EmptySet
    <2>4. QED
        BY <2>1, <2>3 DEF Bounded
<1>7. ASSUME Tick \/ UNCHANGED detectorVars PROVE Bounded(ip)'
    <2>1. UNCHANGED <<blocked_ips, late, pc, record>> /\ now' >= now /\ now \in Nat /\ now' \in Nat
        BY <1>0, <1>7 DEF Tick, detectorVars, memory, threads, DetectorTypeOK
    <2>2. InForce(ip)' => InForce(ip)
        BY <1>0, <2>1 DEF InForce, DetectorTypeOK
    <2>3. InFlight(ip)' = InFlight(ip)
        BY <2>1 DEF InFlight
    <2>4. QED
        BY <2>1, <2>2, <2>3, FewerInFlight
<1>8. QED
    BY <1>1, <1>2, <1>3, <1>4, <1>5, <1>6, <1>7 DEF DetectorNext
-----------------------------------------------------------------------------
(* The theorems.                                                           *)

\* The invariant is inductive.
THEOREM DetectorInvariant == DetectorSpec => []DetectorInv
<1>1. DetectorInv /\ [DetectorNext]_detectorVars => DetectorInv'
    BY TypeStep, HistoryStep, FileStep, OvershootStep DEF DetectorInv
<1>2. QED
    BY <1>1, InitInv, PTL DEF DetectorSpec

\* In every reachable state the detector's memory, file and threads have their types;
\* a failure carries a time that is not in the future (_feed_detector() stamps it).
THEOREM DetectorTypeCorrect == DetectorSpec => []DetectorTypeOK
<1>1. DetectorInv => DetectorTypeOK
    BY DEF DetectorInv
<1>2. QED
    BY <1>1, DetectorInvariant, PTL

\* Whenever nobody writes the file and the last write did not fail, save_state() has
\* left in it what the memory holds.
THEOREM FileIsCurrent == DetectorSpec => []FileCurrent
<1>1. DetectorInv => FileCurrent
    BY DEF DetectorInv
<1>2. QED
    BY <1>1, DetectorInvariant, PTL

\* However many threads fail at once, those that is_ip_blocked() had let through
\* before a block count fewer failures during it than there are threads.
THEOREM OvershootIsBounded == DetectorSpec => []OvershootBounded
<1>1. DetectorInv => OvershootBounded
    BY DEF DetectorInv
<1>2. QED
    BY <1>1, DetectorInvariant, PTL

\* A restart loses no violation count, unless it comes during a write or after one
\* that failed.
THEOREM CountsAreKept == DetectorSpec => EscalationKept
<1>1. ASSUME DetectorInv, [DetectorNext]_detectorVars
      PROVE  [saver = None /\ ~unsaved =>
                 \A ip \in IP : violation_count'[ip] >= violation_count[ip]]_detectorVars
    <2> SUFFICES ASSUME saver = None, ~unsaved, NEW ip \in IP
                 PROVE  violation_count'[ip] >= violation_count[ip]
        OBVIOUS
    <2>1. DetectorTypeOK /\ violation_count \in [IP -> Nat]
        BY <1>1 DEF DetectorInv, DetectorTypeOK
    <2>2. ASSUME UNCHANGED violation_count PROVE violation_count'[ip] >= violation_count[ip]
        BY <2>1, <2>2
    <2>3. ASSUME NEW h \in Handler, ProcessRecord(h) PROVE violation_count'[ip] >= violation_count[ip]
        <3>1. CASE violation_count' = [violation_count EXCEPT ![record[h].ip] = @ + 1]
            BY <2>1, <3>1
        <3>2. QED
            BY <1>1, <2>2, <2>3, <3>1, ProcessCases
    <2>4. ASSUME Restart PROVE violation_count'[ip] >= violation_count[ip]
        <3>1. Loaded = Saved
            BY <1>1 DEF DetectorInv, FileCurrent
        <3>2. violation_count' = violation_count
            BY <2>4, <3>1 DEF Restart, Saved
        <3>3. QED
            BY <2>2, <3>2
    <2>5. ASSUME NEW h \in Handler,
                 CheckBlocked(h) \/ GetRemainingBanTime(h) \/ NoFailure(h) \/ LoginFails(h) \/ EndSave(h)
          PROVE  UNCHANGED violation_count
        BY <2>5 DEF CheckBlocked, GetRemainingBanTime, NoFailure, LoginFails, EndSave, Expire, memory
    <2>6. ASSUME Tick \/ UNCHANGED detectorVars PROVE UNCHANGED violation_count
        BY <2>6 DEF Tick, detectorVars, memory
    <2>7. QED
        BY <1>1, <2>2, <2>3, <2>4, <2>5, <2>6 DEF DetectorNext
<1>2. QED
    BY <1>1, DetectorInvariant, PTL DEF DetectorSpec, EscalationKept
=============================================================================
