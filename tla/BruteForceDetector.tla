------------------------- MODULE BruteForceDetector -------------------------
(***************************************************************************)
(* security/brute_force_detection.py, class BruteForceDetector, as the     *)
(* authentication loops of server.py use it: every line of a client first  *)
(* asks is_ip_blocked(); a LOGIN that fails reaches process_record()       *)
(* through log_event(), which reads the clock before it takes the lock.    *)
(*                                                                         *)
(* A public method holds the detector's lock throughout, the writing of    *)
(* the state file included; `saver' is the thread that holds it between the*)
(* truncation of the file by open() and the end of json.dump().  The server*)
(* may be killed and restarted at any moment, so the file matters at every *)
(* moment.  Time is counted in ticks, TicksPerSecond of them in a second,  *)
(* because the file keeps whole seconds only.  Of the list of an address's *)
(* failures the code uses how many there are, never their order: here it is*)
(* a set, in which a number tells failures of the same tick apart.         *)
(***************************************************************************)
EXTENDS Integers, FiniteSets

CONSTANTS
    Handler,         \* the threads of handle_new_connection
    IP,              \* client addresses
    MaxAttempts,     \* MAX_LOGIN_ATTEMPTS
    Window,          \* LOGIN_WINDOW, in ticks
    BlockDuration,   \* BLOCK_DURATION, in ticks
    TicksPerSecond,
    DiskErrors,      \* whether writing the state file may fail
    MaxTime,         \* bound on the clock
    None

ASSUME DetectorAssumption ==
    /\ IsFiniteSet(Handler) /\ Handler # {}
    /\ MaxAttempts \in Nat \ {0} /\ TicksPerSecond \in Nat \ {0}
    /\ Window \in Nat /\ BlockDuration \in Nat /\ MaxTime \in Nat
    /\ DiskErrors \in BOOLEAN
    /\ None \notin Handler /\ None \notin Nat
    /\ None \notin [ip : IP, timestamp : {None} \cup 0..MaxTime]

VARIABLES
    now,                      \* the clock
    failed_attempts_history,  \* IP -> its recent failures
    violation_count,          \* IP -> how often it was blocked
    blocked_ips,              \* IP -> the time its block ends, or None
    file,                     \* brute_force_state.json
    saver,                    \* the thread that is writing it, or None
    pc,                       \* where each handler thread is
    record,                   \* the address it works for, and the LogRecord's time
    unsaved,                  \* auxiliary: the last attempt to save failed
    late                      \* auxiliary: failures counted during the block in force

memory   == <<failed_attempts_history, violation_count, blocked_ips>>
disk     == <<file, saver, unsaved>>
threads  == <<pc, record>>
detectorVars == <<now, memory, disk, threads, late>>

State == [violation_count : [IP -> Nat], blocked_ips : [IP -> {None} \cup Nat]]

NoState == [violation_count |-> [ip \in IP |-> 0], blocked_ips |-> [ip \in IP |-> None]]

\* What a truncated file holds: json.load() raises, and load_state() goes on
\* without any state.
Truncated == [truncated |-> TRUE]

DetectorInit ==
    /\ now = 0
    /\ failed_attempts_history = [ip \in IP |-> {}]
    /\ violation_count = NoState.violation_count
    /\ blocked_ips = NoState.blocked_ips
    /\ file = NoState
    /\ saver = None
    /\ pc = [h \in Handler |-> "idle"]
    /\ record = [h \in Handler |-> None]
    /\ unsaved = FALSE
    /\ late = [ip \in IP |-> 0]

InForce(ip) == blocked_ips[ip] # None /\ now <= blocked_ips[ip]
-----------------------------------------------------------------------------
(* The state file.                                                         *)

\* strftime("%Y-%m-%d %H:%M:%S") drops the fraction of a second.
WholeSeconds(t) == IF t = None THEN None ELSE t - (t % TicksPerSecond)

\* Mutant: only the blocks are written.
SavedBlocksOnly ==
    [violation_count |-> NoState.violation_count,
     blocked_ips     |-> [ip \in IP |-> WholeSeconds(blocked_ips[ip])]]

Saved == [violation_count |-> violation_count,
          blocked_ips     |-> [ip \in IP |-> WholeSeconds(blocked_ips[ip])]]

Loaded == IF file = Truncated THEN NoState ELSE file

\* save_state() up to open(db_file, "w"): the old content is gone, or the call
\* raises.
BeginSave(h, raised) ==
    IF raised
    THEN DiskErrors /\ unsaved' = TRUE /\ UNCHANGED <<file, saver>>
    ELSE file' = Truncated /\ saver' = h /\ UNCHANGED unsaved

\* The connection of a thread in which an exception was raised is over.
Continue(h, p, r, raised) ==
    /\ pc' = [pc EXCEPT ![h] = IF raised THEN "idle" ELSE p]
    /\ record' = [record EXCEPT ![h] = IF raised THEN None ELSE r]

\* json.dump() and the end of the method that called save_state().
EndSave(h) ==
    /\ saver = h
    /\ saver' = None
    /\ \/ file' = Saved /\ unsaved' = FALSE /\ UNCHANGED threads
       \/ DiskErrors /\ unsaved' = TRUE /\ Continue(h, "idle", None, TRUE) /\ UNCHANGED file
    /\ UNCHANGED <<now, memory, late>>
-----------------------------------------------------------------------------
(* The methods, and the part of the authentication loop around them.       *)

Over(ip) == blocked_ips[ip] # None /\ now > blocked_ips[ip]

\* Mutant: the end of a block is not written to the file.
ExpireUnsaved(h, ip, raised) ==
    /\ saver = None
    /\ ~raised
    /\ blocked_ips' = IF Over(ip) THEN [blocked_ips EXCEPT ![ip] = None] ELSE blocked_ips
    /\ UNCHANGED <<disk, failed_attempts_history, violation_count>>

\* is_ip_blocked() deletes a block that is over.
Expire(h, ip, raised) ==
    /\ saver = None
    /\ IF Over(ip)
       THEN blocked_ips' = [blocked_ips EXCEPT ![ip] = None] /\ BeginSave(h, raised)
       ELSE ~raised /\ UNCHANGED <<blocked_ips, disk>>
    /\ UNCHANGED <<failed_attempts_history, violation_count>>

\* Mutant: the line of a blocked client is handled all the same.
CheckIgnored(h) ==
    /\ pc[h] = "idle"
    /\ \E ip \in IP, raised \in BOOLEAN :
          /\ Expire(h, ip, raised)
          /\ Continue(h, "login", [ip |-> ip, timestamp |-> None], raised)
    /\ UNCHANGED <<now, late>>

\* A line of a client.
CheckBlocked(h) ==
    /\ pc[h] = "idle"
    /\ \E ip \in IP, raised \in BOOLEAN :
          /\ Expire(h, ip, raised)
          /\ Continue(h, IF InForce(ip) THEN "refused" ELSE "login",
                      [ip |-> ip, timestamp |-> None], raised)
    /\ UNCHANGED <<now, late>>

\* The thread of a refused client calls get_remaining_ban_time(), which asks
\* is_ip_blocked() again, and closes the connection.
GetRemainingBanTime(h) ==
    /\ pc[h] = "refused"
    /\ \E raised \in BOOLEAN :
          Expire(h, record[h].ip, raised) /\ Continue(h, "idle", None, raised)
    /\ UNCHANGED <<now, late>>

\* The line is no LOGIN, or the password is right: the event is not counted.
NoFailure(h) ==
    /\ pc[h] = "login" /\ saver # h
    /\ Continue(h, "idle", None, FALSE)
    /\ UNCHANGED <<now, memory, disk, late>>

\* Mutant: the time is left for process_record() to fill in.
LoginFailsUnstamped(h) ==
    /\ pc[h] = "login" /\ saver # h
    /\ Continue(h, "failed", record[h], FALSE)
    /\ UNCHANGED <<now, memory, disk, late>>

\* LOGIN_FAILED: _feed_detector() stamps the record.
LoginFails(h) ==
    /\ pc[h] = "login" /\ saver # h
    /\ Continue(h, "failed", [record[h] EXCEPT !.timestamp = now], FALSE)
    /\ UNCHANGED <<now, memory, disk, late>>

\* _get_ban_duration() for an address blocked for the count-th time.
BanDuration(count) ==
    BlockDuration * (CASE count <= 1 -> 1
                       [] count = 2  -> 5
                       [] count = 3  -> 30
                       [] count > 3  -> 1440)

\* One failure more of ip at time t: the failures of a tick are numbered, and leave
\* the window together.
Failure(ip, t) ==
    [time   |-> t,
     number |-> Cardinality({f \in failed_attempts_history[ip] : f.time = t}) + 1]

\* The failures of ip in the window that ends at time t, this one included.
Recent(ip, t) ==
    {f \in failed_attempts_history[ip] \cup {Failure(ip, t)} : f.time >= t - Window}

Block(h, ip, t) ==
    /\ violation_count' = [violation_count EXCEPT ![ip] = @ + 1]
    /\ blocked_ips' = [blocked_ips EXCEPT ![ip] = t + BanDuration(violation_count'[ip])]
    /\ failed_attempts_history' = [failed_attempts_history EXCEPT ![ip] = {}]
    /\ \E raised \in BOOLEAN : BeginSave(h, raised)

ProcessRecord(h) ==
    /\ pc[h] = "failed" /\ saver = None
    /\ LET ip == record[h].ip
           recent == Recent(ip, record[h].timestamp)
       IN  /\ IF Cardinality(recent) >= MaxAttempts
              THEN Block(h, ip, record[h].timestamp)
              ELSE /\ failed_attempts_history' = [failed_attempts_history EXCEPT ![ip] = recent]
                   /\ UNCHANGED <<violation_count, blocked_ips, disk>>
           /\ late' = [late EXCEPT ![ip] = IF InForce(ip) THEN @ + 1 ELSE 0]
    /\ Continue(h, "idle", None, FALSE)
    /\ UNCHANGED now

\* The process ends, at any point of a save too, and is started again.
Restart ==
    /\ violation_count' = Loaded.violation_count
    /\ blocked_ips' = Loaded.blocked_ips
    /\ failed_attempts_history' = [ip \in IP |-> {}]
    /\ saver' = None
    /\ pc' = [h \in Handler |-> "idle"]
    /\ record' = [h \in Handler |-> None]
    /\ unsaved' = FALSE
    /\ late' = [ip \in IP |-> 0]
    /\ UNCHANGED <<now, file>>

Tick ==
    /\ now < MaxTime
    /\ now' = now + 1
    /\ UNCHANGED <<memory, disk, threads, late>>
-----------------------------------------------------------------------------
DetectorNext ==
    \/ \E h \in Handler :
          \/ CheckBlocked(h) \/ GetRemainingBanTime(h) \/ NoFailure(h)
          \/ LoginFails(h) \/ ProcessRecord(h) \/ EndSave(h)
    \/ Restart
    \/ Tick

DetectorSpec == DetectorInit /\ [][DetectorNext]_detectorVars
-----------------------------------------------------------------------------
DetectorTypeOK ==
    /\ now \in 0..MaxTime
    /\ failed_attempts_history \in [IP -> SUBSET [time : 0..MaxTime, number : Nat \ {0}]]
    /\ violation_count \in [IP -> Nat] /\ blocked_ips \in [IP -> {None} \cup Nat]
    /\ file \in State \cup {Truncated}
    /\ saver \in Handler \cup {None}
    /\ pc \in [Handler -> {"idle", "login", "refused", "failed"}]
    /\ record \in [Handler -> {None} \cup [ip : IP, timestamp : {None} \cup 0..MaxTime]]
    /\ \A h \in Handler : pc[h] # "idle" => record[h] # None
    /\ \A h \in Handler : pc[h] = "failed" => record[h].timestamp \in 0..now
    /\ unsaved \in BOOLEAN
    /\ late \in [IP -> Nat]

\* Whenever nobody is writing the file, and the last attempt to write it did not
\* fail, it holds what the memory holds (the end of a block to the second): a
\* server killed at such a moment loses no block and no count, however blocks,
\* expiries and earlier crashes followed each other.
FileCurrent == saver = None /\ ~unsaved => Loaded = Saved

\* Only a crash during a write, or after a failed one, makes the detector forget
\* how often an address was blocked, which is what its next block depends on.
EscalationKept ==
    [][saver = None /\ ~unsaved =>
          \A ip \in IP : violation_count'[ip] >= violation_count[ip]]_detectorVars

\* The logins of address ip that passed the check and are not counted yet.
InFlight(ip) == {h \in Handler : pc[h] \in {"login", "failed"} /\ record[h].ip = ip}

\* The check and the login are separate, so a blocked address can still have
\* logins under way; but while a block is in force (and a second one replaces
\* it) they cannot become more than its other connections were.
OvershootBounded ==
    \A ip \in IP : InForce(ip) => late[ip] + Cardinality(InFlight(ip)) < Cardinality(Handler)

\* The counts survive every restart.
PersistsAcrossRestarts ==
    [][\A ip \in IP : violation_count'[ip] >= violation_count[ip]]_detectorVars
=============================================================================
