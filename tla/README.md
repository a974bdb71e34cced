# TLSocket: a TLA+ model of the chat server

TLSocket is a TLS chat server in Python, one thread per connection, with
accounts, roles, bans, rate limits, a brute-force detector, a console for the
operator, a terminal client and a log analyzer. This directory holds TLA+
modules of the server's concurrent core, of its files, limits and line framing and of
the client, the TLC configurations that check them
on small instances, and theorems with proofs checked by TLAPS.

Paths below are relative to `src/tlsocket/` of the repository.

## 1. Inventory

| Component | State | Operations | Hard part |
| --- | --- | --- | --- |
| Client registry (`server_side/client_registry.py`) | `_sessions`, `_by_name`, `_client_ips`, `_ip_counts`, `_pending_logins`, `_writers`, all under one lock | reserve and release an IP slot, reserve and release a name, add, remove, set_role, snapshot, reset | called by every thread in every order; counters and indexes must not drift |
| Connection handling (`server_side/server.py`, `handle_new_connection`) | `reserved_username`, `session`, the socket | handshake, admission, REGISTER, LOGIN, add, OK line, hand-over to `handle_messages` | a login is a dozen separate lock acquisitions and file reads; every exception path must undo it |
| Message loop and moderation (`server_side/handlers/client_handler.py`) | the session's role, the sockets a broadcast failed on | MSG, KICK, BAN, UNBAN, SET, `clean_up_client`, `broadcast` | check-then-act on names and roles; recursive clean-ups; several threads clean up the same client |
| Console (`server.py`, `server_console_input`) | - | /set, /kick, /ban, /unban | runs beside every login; dies on a file error |
| Writer and send queue (`_ClientWriter`) | bounded queue, sentinel, the socket | enqueue, `_run`, stop | blocked `sendall()`, `shutdown()` against `close()`, a peer that does not read |
| Account and ban files (`auth/authentication.py`, `handlers/ban_handler.py`) | the two files, their temporary files, a lock for each | register, login, get_user_role, set_user_role, add_ban, remove_ban | read-modify-write under a lock, replaced through a temporary file; a login is up to four separate reads |
| Roles (`auth/rbac.py`) | tables | `has_permission`, `can_act_on` | - |
| Rate limiter (`security/rate_limiter.py`) | time stamps per key, under a lock | allow, forget | time read before the lock; a client forgotten while it sends |
| Brute-force detector (`security/brute_force_detection.py`, fed by `logs_management/record_logs.py`) | attempts, violations, blocks, a state file | process_record, is_ip_blocked, save, load | crash during save, escalation, expiry |
| Line framing (`read_line`, twice) | buffer | read a line | chunk boundaries, length limit, data behind the LOGIN line |
| Client (`client_side/`) | socket, `stop_threads` | connect, back-off, receive, write | 0.2 s of silence means accepted |
| Protocol and validation, log analyzer, logging, metrics, certificates | - | pure functions, input and output | - |

Interaction: the accept loop starts a handler thread per connection. Handlers
and the console share the registry and the two files; a broadcast puts a
message on the queue of every registered client, and a queue that is full makes
the broadcasting thread clean that client up, which broadcasts in turn. A
client's writer thread and its handler share the socket with every thread that
cleans the client up. Login failures reach the detector through `log_event`.

What makes each part correct, in one line each: the registry's counters and
indexes agree with its sessions and never exceed the limit; a login ends in one
session or in nothing; a connection that is over leaves nothing behind; bans and
roles hold against logins under way; a client receives what was accepted for it,
in order, from one thread, and both its threads end when it is removed; the files always hold the
result of whole calls; a limiter lets no more through than it promises; lines do
not depend on how the stream was cut; the client believes it is logged in only
when it is, under the name it is, and never waits for ever.

## 2. Modules

| Module | Models | Used by |
| --- | --- | --- |
| `Rbac` | `auth/rbac.py` | `ClientRegistry` |
| `ClientRegistry` | every method of class `ClientRegistry` as an action, and the discipline `RegistryNext` its callers have to keep | `ChatServer` extends it |
| `ClientRegistryProofs` | the theorems about it | - |
| `ChatServer` | handler threads and console over the registry and the files | `MCChatServer` |
| `ChatServerProofs` | the theorems about it, on top of those of `ClientRegistryProofs` | - |
| `UserStoreProofs`, `ClientConnectionProofs`, `BruteForceDetectorProofs`, `SlidingWindowLimiterProofs`, `LineFramingProofs`, `ChatClientProofs` | the theorems about the module of the same name without `Proofs` | - |
| `ClientConnection` | one client's queue, writer, socket and the threads that touch them | `MCClientConnection` |
| `BruteForceDetector` | the detector, its state file, the threads that use it, restarts | `MCBruteForceDetector` |
| `AtomicStore` | abstract: each call on the account and ban files takes effect at one moment | `UserStore` |
| `UserStore` | the same calls, one file operation at a time, with locks, exceptions and crashes | `MCUserStore` |
| `SlidingWindowLimiter` | the limiter and its two uses, clean-ups that forget a key | `MCSlidingWindowLimiter` |
| `LineFraming` | `read_line` and the two loops of the server that read with it | `MCLineFraming` |
| `ChatClient` | the terminal client and the server's end of its connection | `MCChatClient` |

**ClientRegistry.** A dictionary is a total function with `None` for an absent
key (0 in `_ip_counts`). Each method holds the lock throughout, so it is one
action; methods that return a bool have the result as a parameter. `RegistryNext`
allows all methods in all orders except that a socket takes a slot only if it
has none, is added only if it holds a slot and is not registered, and releases
its slot only when it is not registered. `RegistrySpec` is the abstract
specification of what the server may do to the registry: `ChatServer` is checked
and proved to implement it (property `RegistrySpec` of run `server_cleanup`; the state of
the registry is part of the state of the server, so the mapping is the identity).

**ChatServer.** A step is one acquisition of a lock or one read of a file. `pc`
follows the thread: `new, handshake, auth` up to the LOGIN line; `verify,
banlist, role, bancheck, reject` inside `login()` and the check behind it; `add,
greet, ungreet, joined` from `registry.add()` to the message loop; `chat`;
`closing, finally, done`; and the steps of the commands. `failed[t]` holds the
sockets thread `t` still has to pass to `clean_up_client`, `cleanup[t]` the call
it is in: remove, then release the slot, then announce, which may add to
`failed[t]`. The set replaces the call stack of the recursion: the order in which
a thread cleans several clients up is left open, and a second call on a client
already cleaned up, which changes nothing, is left out. Left to the environment:
passwords that match or not, file errors, timeouts, lines, disconnections, and
which queues of the clients in `Stalling` are full. A client that somebody
unregisters between the snapshot of a broadcast and the send is cleaned up a
second time in the code; this adds nothing to the registry.

**ClientConnection.** Starts at `registry.add()`. `registry.send()` is two steps
(`Lookup` under the lock, `Enqueue` after it), and so is `registry.remove()`
(`CleanUpRemove`, `Stop`). A message is a number. The socket calls are modelled
from their use: `sendall()` and `recv()` fail at once on a socket that is shut
down, closed or abandoned by the peer; `sendall()` blocks while the peer does not
read; `shutdown()` wakes a blocked call of another thread, `close()` does not
(this is how Linux behaves). The `accepted` history records every message for
which `enqueue()` returned True, `wire` every line the client has received. One of
them goes round the queue: a handler that reads a line of a client somebody has taken
out answers with `client.send()` itself (`RefuseLine`). A line over 2000 characters is
answered before the session is looked up (`LongLineArrives`).

**BruteForceDetector.** A handler thread asks `is_ip_blocked()` (`CheckBlocked`),
verifies a password, stamps the record (`LoginFails`) and counts it
(`ProcessRecord`). Methods run under the detector's lock; the one that saves keeps
it from the truncation of the file (`BeginSave`) to the end of `json.dump()`
(`EndSave`), and either may raise. `Restart` may happen at any moment. Two
auxiliary variables serve the properties: `unsaved` (the last save raised) and
`late` (failures counted while the block was in force). The file keeps the end of
a block in whole seconds, so time runs in fractions of a second. The wall clock is
assumed not to go back. The list of time stamps of an address is a set of failures,
each with its time and a number that tells those of one tick apart: the code uses only
how many there are within the window, and the proofs show that no two coincide.

**UserStore** and **AtomicStore.** A change takes the lock and loads the file
(`Load`), opens the temporary file, which truncates it (`OpenTmp`), writes it
(`Dump`) and moves it over the file (`Replace`); each may raise, which releases the
lock, and the process may be killed between any two (`Crash`). `login()` reads under
the lock (`ReadUsers`), renews an old hash under a second acquisition, and reads the
ban list and the role without a lock (`ReadBanList`, `ReadRole`); a reader always
finds a whole file because the only write to it is `os.replace()`. `AtomicStore`
says what a caller may rely on: a call that returns True took effect exactly once, at
one moment between the call and its return; one that raises or is cut off by a crash
did nothing (a LOGIN may have renewed its hash). `UserStore` is shown to implement it
with `disk` for the two files and the calls and answers as they are: property
`Linearizable`. Names are those left after `strip().lower()`; which passwords match is
left open.

**SlidingWindowLimiter.** `ReadClock` and `Allow` are separate because `allow()` reads
the clock before it takes the lock. The keys of `register_limiter` are addresses,
shared by handlers and never forgotten (their entries stay for the life of the
process); those of `message_limiter` are connections, used by one handler and
forgotten by every thread that cleans the client up. `accepted` and `forgotten` are
histories for the properties. A deque of time stamps is a set of events, each with its
time and its number among those accepted for the key, for the same reason as above.

**LineFraming.** The stream is a sequence of letters, blanks and newlines; `Recv` takes
any part of what has been sent, up to `ChunkSize`, and `Cut`, `Raw` and `Rest` are
`split(b"\n", 1)`. The reference definition `LinesOf` gives the lines of a stream
as a whole, by where they begin and end, and `Lists` compares them with the lines a
loop has handled: the place of a line in the list is the number of lines that end no
later. The authentication loop hands over to `handle_messages()`, which starts
with an empty buffer: what an impatient client sent behind its LOGIN line is dropped.
What a line says is a free choice.

**ChatClient.** `pc` follows `main()`: `connect, probe, sleep` in
`connect_with_backoff()`, `prompt, await` in the authentication loop, `input` in
`write()`, and `receiver` is the thread of `receive()`. `ProbeSilent` may happen
whenever no line has come yet, so the refusal may be as late as it likes. The server's
end is what the client can see of `handle_new_connection()`. The client sends a name as
it was typed and keeps it so; the server makes the account's name of it with `strip()`
and `lower()`. The constant function `Account` from `Spelling` to `Username` is that
conversion, and two spellings may be one account. `read_line()` also returns None for a
line that is too long, which only a broadcast can be (`GiveUpOnLongLine`). The server sends each line as one TLS record,
which one `recv()` returns, so lines arrive one at a time and the new buffer of
`receive()` loses nothing. `traceback` is the exception that the reconnection does not
catch.

## 3. Runs

| Run | Instance | Checks | Result |
| --- | --- | --- | --- |
| `server_cleanup` | 3 connections over a limit of 2, 1 account, console with /kick, /ban, /set, chat, every queue may be full | exact counters, the cap, types, nothing left behind, every reservation owned, the registry's discipline, bans hold, only a foreign release endangers unique sessions | holds |
| `server_commands` | 2 connections, a moderator and a free name, every client command, every queue may be full | name index and reservations consistent, no escalation, ranks respected; reservations settle and slots come back under fairness | holds |
| `server_two_sessions` | 3 connections, 1 account, /kick | `UniqueSession` | violated |
| `server_banned_online` | 3 connections, 1 account, /ban | `BannedOffline` | violated |
| `connection` | 2 other threads, one of which also kicks, queue of 2, a peer that talks, stalls, resumes, leaves | types, delivery order, one stop signal; the writer ends under fairness | holds |
| `connection_stalled` | a kicker, a peer that may stall, room in the queue | `HandlerEnds` | violated |
| `detector` | 4 connections of one address, 2 attempts, half-second ticks, disk errors, restarts | types, file agrees with memory, counts kept, bounded overshoot | holds |
| `store` | 3 threads, 3 calls out of 9, an account with an old hash, a free and an invalid name, disk errors, crashes | types, nobody writes from a stale copy, implements `AtomicStore`; every call returns under fairness | holds |
| `limiter` | 2 handlers of one address, 1 client, 1 cleaner, 2 events in a window of 2 ticks, a delay of 1 | types, the bound on what passes, refusals are due, nothing kept | holds |
| `framing` | lines of 2, chunks of 4, messages of 1, streams of up to 7 bytes, patient and impatient clients | lines independent of chunks, bounded buffer, hand-over; lines are read under fairness | holds |
| `client` | 2 accounts with 3 spellings, 3 attempts, delay 1 up to 3, 2 broadcasts | types, a login is genuine; the back-off ends, requests before the login are answered, a lost connection is noticed under fairness | holds |
| `client_other_name` | the same, 1 attempt, 1 broadcast | `NicknameAgrees` | violated |

The violated properties are statements of the repository's own documents that
the code does not keep:

- `server_two_sessions`: `reserved_username` outlives the reservation. After
  `add()` the name is no longer pending, yet until the OK line is queued the
  `finally` clause would still release it. A kick in that window lets a second
  connection reserve the name, the `finally` clause of the first releases it,
  and a third connection logs in beside the second. `UniqueUntilForeignRelease`, in
  `server_cleanup` with as many connections, is what remains true: sessions are unique
  and every login holds its own reservation until that release, and no other step
  disturbs this. Foreign releases happen in that run, too.
- `server_banned_online`: the last look at the ban file is a step of its own
  before `add()`. A /ban in the gap finds nobody online and is not noticed by the
  login. `BanHolds` is what remains true: a banned account that is not past its last
  check stays out; and this gap and a second session are the only causes (section 4,
  `BannedIsOffline`).
- `connection_stalled`: `stop()` uses `shutdown()` only if the queue is full. With
  room in the queue the sentinel waits behind a blocked `sendall()`.
- `client_other_name`: the server registers a client and then queues
  its OK line (`server.py:243-244`), so a broadcast may overtake it. `CHANGELOG.md:11`
  lists that order as fixed. The client takes the broadcast for an error and asks again;
  if that is a LOGIN with another name, the OK line passes for the answer, and the
  client keeps that name while the server has the first. `LoginGenuine` is what
  remains true, and that order is the only cause (section 4, `AgreeUnlessOvertaken`).

Three more configurations, each checking one property, are violated for causes that the
runs above or the exceptions of passing properties already name. They are kept for their
traces (`tlc -config ConnectionDirect.cfg MCClientConnection`, and so on):

- `ConnectionDirect.cfg` (`MCClientConnection`, `OnlyQueuedLines`): a client is kicked
  while its handler is about to look its session
  up. The handler then sends `ERR NOT_AUTHENTICATED` on the socket itself, beside the
  writer. `docs/SECURITY.md:48-49` says "that writer thread is the only code that ever
  calls `sendall()`/`close()` on a client's socket", and lines 56-59 and
  `docs/ARCHITECTURE.md:35` say the same. `DeliveredInOrder` is what remains true: the
  queued lines come in their order, and that line once at most and only after the removal.
- `ClientWaits.cfg` (`MCChatClient`, `AnswersCome`): as in `client_other_name`, but the
  second request is a REGISTER. It uses the OK line up, and the request after it is never
  answered because `handle_messages()` ignores it. `AnsweredBeforeLogin` is what remains
  true.
- `DetectorRestart.cfg` (`MCBruteForceDetector`, `PersistsAcrossRestarts`): the state file
  is truncated and then written. A process that ends in between leaves no state at all,
  although `docs/SECURITY.md:19-20` says "state persists to disk across restarts".
  `EscalationKept` is what remains true, with that moment as its exception.

What the passing runs say about the limits of a promise:

- `RateBound` is tight in both its corrections. Because the clock is read before the
  lock, `max_events + 1` events can fall into one window; they cannot fall into a
  window that is shorter by the longest time from the clock to the lock. And a client
  whose events are forgotten while it is sending gets one message more.
- `BufferBounded` is `MAX_LINE_LENGTH` plus a chunk: `docs/SECURITY.md:42` speaks of a
  buffer capped at `MAX_LINE_LENGTH`, and `read_line` tests before it reads.

The same models show what no run asks: a /set between `login()`'s read of the role and
`registry.add()` changes the file and not the session, which keeps the old role until
the next login (`ReadRole`, `SetUserRole`, `AddSession` of `ChatServer`); a broadcast
whose snapshot still held a client that has just been kicked calls `close()` on its
socket, the writer's `shutdown()` then fails and the handler stays in `recv()`
(`CleanUpRemove`, `Close`, `WriterShutdown` of `ClientConnection`); and a client that
sends a line while it is being kicked makes its handler call `client.send()` and
`close()` beside the writer, so "You were kicked!" can be lost.

**Bounds.** Two clean-ups of the same client need one connection and two more
threads; a login that races a login and an operator needs two connections and the
console; a foreign release that does harm, and with it the double session, needs three connections. One account is enough where
the property is about one name; the second name of `server_commands` gives the
moderator somebody to act on. A limit of 2 with 3 connections makes refusals
happen. The queue of 2 is full after two messages and the writer holds a third.
Four logins under way with two attempts make a second block replace the first
while it is in force; six ticks let a block end, be renewed and be loaded again
with its fraction lost; the properties speak of each address by itself.
Three calls by three threads let a SET fall between the two acquisitions of a
re-hashing login while a third call waits, and leave a temporary file behind for the
next to use. Two events, a window of two ticks and a delay of one are the smallest
instance in which stamps are recorded out of order and the window moves on. Seven
bytes hold a LOGIN line, the longest line exactly and one byte too long, and two lines
in one chunk. Three attempts reach the cap of the delay; two accounts, one of them with
two spellings, let the client ask under the same account and under another.
`server_commands` has no console: with it the state space is too large for the liveness
properties, and `server_cleanup` has its commands for safety.
`MaxChat` bounds the messages, `MaxTime` the clock, `MaxCalls` the calls and `MaxBytes`
the stream; nothing else is bounded, and every state space is explored completely. Sockets, or handlers of one address, are interchangeable wherever symmetry is used; the
runs with liveness use none. Deadlock is not checked where all connections of the
finite set `Socket` may be over (`ChatServer`) or the one connection is
(`ClientConnection`, `SlidingWindowLimiter`, `LineFraming`), the calls are used up
(`UserStore`) or the client has exited (`ChatClient`): the system may stop there.

**Fairness.** `ChatServer` assumes weak fairness of each thread's own steps: those
that wait for nobody but a lock that is held for a bounded time. No fairness is
assumed of clients, of the operator, of disk errors, or of the read that notices
that a client is gone. `ClientConnection` assumes weak fairness of the writer, the
handler and each sending thread; a step that waits for the peer is enabled only
when the peer lets it go on, so nothing is assumed of the peer. `WriterEnds`
states its own premise: the peer does not stall for ever. `UserStore` assumes weak
fairness of each thread, and none of disk errors or crashes; that a thread waiting for
a lock gets it needs no more because the calls are bounded. `LineFraming` assumes it of the
server's loop, not of the client, timeouts or resets. `ChatClient` assumes it of the
client's threads and of the server's handler, and nothing of the user, of other
clients, of kicks or of lost connections.

**Mutants.** For each property of a passing run a plausible mistake in the code is
kept next to the action it changes, marked "Mutant", and named in `PROJECT.json`;
TLC finds the property violated when the action is replaced by it. One of them,
`ReleaseIpSlotFallback`, is a bug that an earlier release had
(`docs/SECURITY.md`, "Per-IP connection-limit bypass").

## 4. Proofs

`ClientRegistryProofs` proves for every finite set of sockets, every set of names
and addresses and every limit, from `RegistryAssumption` alone:

- `RegistryTypeCorrect`, `CountersExact`, `ConnectionCap`, `NamesConsistent`,
  `SessionsBacked`: types, exact counters, the per-IP cap, the name index and
  reservations, and that every session holds a slot and has a writer.

The cap is not inductive by itself: `try_reserve_ip_slot` compares a counter, not
a number of sockets. The inductive invariant `RegistryInv` therefore says that the
counters are exact and that they are bounded, and exactness needs a socket that
takes a slot to have none. `SessionHoldsSlot` couples the slot half to the name
half; apart from it the two halves are disturbed by different methods, and the
proof has one lemma per method for the half it changes. Cardinalities come from
`FiniteSetTheorems`.

`ChatServerProofs` proves of `ChatServer`, for any finite number of connections and
any accounts, addresses and commands, from `RegistryAssumption` and
`ServerAssumption`:

- `ServerKeepsDiscipline`: `Spec => RegistrySpec`, the refinement; with it the
  theorems above hold of the server (`ServerConnectionCap` is stated for one);
- `NothingLeftBehind`, `ReservationsOwned`: a connection that is over leaves
  nothing, and no name stays reserved without a login that settles it;
- `BansHold`: the action property `BanHolds`;
- `ServerTypeCorrect`.

The inductive invariant is `RegistryInv /\ ServerInv`. `add()` needs a socket that
holds a slot and has no session, and `release_ip_slot()` one that has no session;
both calls come several steps after the thread established this, so the invariant
says what the other threads cannot change in between: before `add()` nobody else
knows the connection (`EntryInv`), and a client that was unregistered is never
registered again (`CleanUpInv`). `EntryInv` in turn needs that whoever a kick or a
broadcast finds is registered, which is `NameIndexSound` of `RegistryInv`.
`ExitInv` follows a thread's last `clean_up_client`. `PendingInv` is stronger than
`PendingOwned`, which is not inductive: a connection at `greet` drops its name
without releasing a reservation, so it must not be the only owner. `LoginInv` and
`CommandInv` carry the types of local variables from step to step. `ServerInv` was
first checked with TLC on the instances of `server_cleanup` and `server_commands`.

On top of it:

- `ReservedIsOffline`: `OnlineNotPending` of the server;
- `RolesNeverRise` and `RanksRespected`: `NoEscalation` and `RankHolds`, under the
  hypothesis `NoAdministrator` (no /set at the console, no account that starts as an
  administrator). The hypothesis is needed, not convenient: with SET a role may rise
  between the check of the ranks and the removal. The instance of `server_commands`
  satisfies it.

`RoleInv` adds that no thread is at a step of SET (only an administrator may send one,
and nobody becomes one) and that a login between its read of the role and `add()`
carries the role its account still has. `RankInv` covers the gap between the two
look-ups of a kick: the socket that `by_name()` found had that name and will not be
used for another login, so a session found there later is the same account; past the
check, the account is free or of lower rank than the sender. A name that was free may
be registered in the gap, as an ordinary user, who is below every sender because
`RankInv` also says that the sender is none.

Properties that do not hold in general, and of which a run shows a counterexample,
are proved under the conditions that exclude it; the theorems say that these are all
the ways there are.

- `UniqueUnlessForeignRelease`: `UniqueSession` in every behaviour whose steps satisfy
  `ReleasesOwn`, that is, no `finally` clause releases a name that another login holds;
- `OnlyForeignReleaseHurts`: the action property `UniqueUntilForeignRelease`, which
  needs no condition on the behaviour and says of every single step what the theorem
  above says of behaviours;
- `UniqueUnlessDisturbed`: `UniqueSession` in every behaviour whose steps satisfy
  `GreetsUndisturbed`, a condition on what happens to a client rather than on the name
  released: nobody takes it out between `add()` and its OK line, and its queue takes
  that line;
- `BannedIsOffline`: `BannedOffline` in every behaviour that satisfies `ReleasesOwn` and
  `BanMeetsNoLogin` (no ban is written while a login of that name is between its last
  ban check and `add()`).

`UniqueInv` is `UniqueSession` with `LoginsHoldNames`: every login under way still has
the reservation it made, and no two have one name. Without it a second login could be
past its check when the first adds its session. `ClaimInv` says that a connection
without a session has in `reserved_username` only a reservation of its own; it survives as long as no session
is removed before the OK line clears that variable, and it implies `ReleasesOwn` of
every step. `BanInv` says of a banned account that is online that some thread
executing the ban has still to look it up or has found this session and will remove it
before it does anything else; the look-up finds it because it is the only session of
its name. A login at `add` is of a name that is not banned. These invariants were
checked with TLC on three connections with the conditions conjoined to `Next`, so
behaviours that satisfy the conditions exist and are many.

`UserStoreProofs`, from `StoreAssumption`, for any threads, names, requests and
initial accounts:

- `StoreImplementsAtomic`: `Spec => Linearizable`, step by step: `Replace`, a `Load`
  that finds nothing to do, and the reads that settle an answer are the abstract
  call's effect, a return is a return, a `Crash` is a crash, everything else is a
  stutter;
- `CopiesCurrent` and `StoreTypeCorrect`.

`CopyCurrent` is what makes `Replace` equal to an atomic change: what it writes is the
change of what the file holds now. It is preserved only because at most one thread is
between `Load` and `Replace` of a file, which the lock variables of `StoreTypeOK` and
`CallInv` (where a thread is determines its request and its answer) give. `KnownInv`
says that no call takes an account away, so the role a login reads exists.

`ClientConnectionProofs`, from `ConnectionAssumption`, for any number of threads and
any queue size:

- `DeliveryInOrder`: what the client has received is, but for the handler's one direct
  line, a prefix of what was accepted;
- `WriterStoppedOnce`, `ConnectionTypeCorrect`.

The prefix is not inductive. `OrderInv` says where the rest of what was accepted is:
the message the writer holds, then the queue up to the sentinel. It has to be silent
about what is behind the sentinel (a thread that looked the writer up before the
removal may still enqueue there, and such messages are accepted and never sent), which
is sound only if there is one sentinel at most. `StopInv` gives that: the right to put
it is with the registry's entry, then with the one thread that removed the entry, then
spent. `DirectInv` says why the direct line comes once: the handler sends it only to a
client that is out, for good, and ends after it.

`BruteForceDetectorProofs`, from `DetectorAssumption`, for any finite number of
threads, any addresses, limits and durations:

- `FileIsCurrent`: between writes, and after one that did not fail, the file holds the
  memory; `CountsAreKept`: the action property `EscalationKept`;
- `OvershootIsBounded`: at most as many failures are counted or under way during a
  block as there are threads, less one; `DetectorTypeCorrect`.

`FileCurrent` compares the file with what a save would write now. `FileWhole`, the ends
of blocks in the file are whole seconds, is what makes it survive a restart: loading
and writing again changes nothing. `OvershootBounded` counts threads as well as
failures, so that a step moves one from one side to the other; when a block begins it
holds because the thread whose failure began it is no longer under way. `HistoryInv`
says that the set of failures counts like the list.

`SlidingWindowLimiterProofs`, from `LimiterAssumption`, for any threads, limit, window
and delay not longer than the window:

- `RateIsBounded`, `RefusalsAreJustified`, `NothingIsKept`, `LimiterTypeCorrect`.

`BoundInv` charges the extra message of a forgotten client only once it is accepted:
before that the handler may still be inside `allow()` and the bound has to leave room
for it. `DelayInv` and `DroppedInv` together say why a window shortened by `MaxDelay`
is safe: what `allow()` dropped is older than the window by the clock, hence by every
time stamp that is still to come. `ForgetInv` orders the removal of a session before
its key is forgotten.

`LineFramingProofs`, from `FramingAssumption`, for any line limit, chunk size and
stream:

- `BufferFollowsStream`: however `recv()` cuts the stream, the buffer is the last bytes
  received, in order, so what `read_line()` cuts off are the next bytes of the stream;
- `LinesAreThoseSent`: `ChunksInvisible`, the lines a loop has handled are those of the
  bytes it has consumed, in number, text and order;
- `LinesAreConsecutive`: `Spec => LineByLine`, an action property stated there: each
  step takes exactly the next line of the stream, the last one of a connection included;
- `BufferIsBounded`, `PatientIsHeard`.

`LineByLine` needs `AtLineStart` beside it: between two lines what is left of the
stream begins behind a newline, or where the loop began. So does `ChunksInvisible`,
whose step is that of `LineByLine` seen from the whole stream: reading on to the next
newline adds one line to `LinesOf`, behind all others (`LinesOfGrows`), the list of
texts grows by that line at its end (`ListsAppend`), and what is sent later changes no
line (`LinesOfKept`). No induction over the stream is needed because the state of the
program grows with it. `PatientIsHeard` rests on `PatientInv`: of what a patient client
has sent and the first loop has not handled, only the last byte can end a line, so
nothing stays behind in the first buffer. It needs `BufferIsWindow` to carry a fact
about the stream into the buffer.

`ChatClientProofs`, from `ClientAssumption`, for any names, numbers of attempts and
delays:

- `LoginIsGenuine`, `ClientTypeCorrect`;
- `AgreeUnlessOvertaken`: `NicknameAgrees` in every behaviour whose steps satisfy
  `OkBeforeBroadcasts`: no broadcast is queued between `registry.add()` and the OK line.

`Unauthenticated` says of a connection that is not logged in that at most one line is
under way and that it is a refusal or the answer to the request the client waits for;
`ClientInv` needs no more for `LoginGenuine`. `Authenticated`, which `AgreeInv` adds and
which a broadcast that overtakes the OK line breaks, says that the client waits for the
answer to the LOGIN that the server has accepted and that the next line is its OK.
Together they say that requests and answers alternate, which is what the client relies on
when it reads one line per request. Names as typed and names of accounts are compared
through `Account`, of which only its type is assumed.

Every inductive invariant was first checked with TLC on the instance of the
component's run.

Only model-checked is liveness (`PendingSettles`, `SlotComesBack`, `WriterEnds`,
`CallsReturn`, `LinesAreRead`, `ConnectEnds`, `AnsweredBeforeLogin`, `LossIsNoticed`), which is
out of the reach of the prover.

That the delay of the back-off is a power of two times the base is not stated: the
provers have no theory of exponents, and `ClientTypeOK` bounds it instead.

## 5. Not modelled, and the plan

Server shutdown ends the process with its daemon threads and is not modelled, nor
is the failure to start a thread. The text of messages, logging and metrics are
left out. Input validation and the protocol's formatting are pure functions of one
string that unit tests reach; the models use their outcome. The log analyzer is an
off-line report, regular expressions and counters in one thread, with nothing to
interleave. A power failure may leave less than `os.replace()` promises because the
files are not synchronised; what is left then is a matter of the file system.

All components with state and concurrency are modelled, and every invariant and action
property of a passing run is proved; of the violated ones, `UniqueSession`,
`BannedOffline` and `NicknameAgrees` are proved under the conditions named in section 4.
The hazards in `PROJECT.json` that have no property
say why.
