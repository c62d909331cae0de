# Verification of rust_gameserver

TLA+ models of the two servers of this repository (LoginServer and GameServer),
of the `net` crate they share, of AdminApi and the notice subscriber, and of the
load client (`dummy_client`), the TLC runs that check them on small
instances, and TLAPS proofs of every safety property the runs check, for every
number of sessions, users, tokens, jobs, messages, hosts, clients and admin
requests. `PROJECT.json` lists components, runs, mutants, the
definition-to-source map, findings, hazards and theorems.

## 1. Inventory

| Part | State | Operations | Talks to |
|---|---|---|---|
| `net::registry` | session id -> (user, kick token); user id -> session; one `Mutex` | register, remove, authenticate, disconnect | session tasks, AdminApi |
| session task (`session.rs` `run`/`event_loop`, both servers) | account, keep-alive time, position in the loop | biased `select!` over kick, frames, inner messages, deadline | registry, outbox, jobs |
| `net::outbox` | bounded channel, writer task, `FramedWrite` buffer | send, write_loop, close with drain timeout | session task, socket, kick token |
| GameServer jobs (`backend.rs`) | Redis `auth:token:*`, scores, accounts | take_auth_token, save_score, touch_last_login | session task over the inner channel |
| LoginServer jobs (`authenticate`) | account row read, hash permit | find_account, hash_limiter, verify, ban check, touch_last_login, issue_auth_token | session task over the inner channel |
| inner channel and deadline (`event_loop`) | bounded channel, `last_keep_alive` | `inner_tx.send`, `inner_rx.recv`, `sleep_until_opt` | jobs, session task |
| `net::codec` decoder | `FramedRead` buffer | decode, decode_eof | the peer's writer, session task or client |
| login attempt limiter | window start, attempts | try_consume_login_attempt | session task |
| `net::acceptor` | timestamps and bans per IP, last sweep | accept loop, should_block, sweep | `serve` |
| `serve` / `main` | root cancellation token, TaskTracker | ctrl_c, wait for session tasks, return | everything |
| AdminApi | session keys with an expiry in Redis, requests in flight | validate (GET, EXPIRE), login, logout, queries, forced disconnect, notice | registry, Redis, MySQL, `main` |
| broadcast | subscription, back-off | subscribe, publish | Redis, `main` |
| dummy_client | client tasks, three counters, channel of moves | connect, login phase, game phase, keyboard thread, monitor, shutdown | both servers, terminal |
| the servers' monitor, stats, config, password, proto | see section 7 | | |

What is hard here:

- a session task, its writer task, its jobs, other sessions and AdminApi run on
  several threads; the registry's mutex orders single calls, nothing orders
  sequences of them;
- a job outlives the request that caused it: its outcome may reach a session
  that has authenticated meanwhile, has been kicked, or is gone;
- Redis or MySQL may apply a command and lose the reply; an HTTP client may hang
  up at any await and take its handler with it; an admin key may expire between
  the two commands that check and extend it;
- the biased `select!` lets frames and outcomes keep the deadline waiting, and a
  full inner channel keeps jobs waiting;
- TCP cuts the byte stream anywhere;
- shutdown, the kick, the drain timeout and the retry of the logout record race
  each other;
- the limiters have boundaries (window edges, sweeps) that a test with a real
  clock hardly hits.

What makes each part correct: one live session per user and a map that does not
point at dead sessions (registry); the directory equals the running loops
(session task); a token authenticates once, logouts are recorded, shutdown ends
(GameServer); permits come back, a ban lets in nobody who was not looked up before
it (LoginServer); the client sees a prefix of what was accepted (outbox); forgetting old entries changes no
decision (acceptor); nobody passes or is refused beyond the limit (limiter); the
timeout cuts no live client and every silent one, and no outcome is lost (event
loop); a dead key stays dead (AdminApi); the subscriber comes back (broadcast);
shutdown ends every client, counters add up and the log line is off by no more
than the clients that moved while it was read (dummy_client).

## 2. Modules

```
Registry <- SessionTask <- GameServer   <- MCGameServer
                |       <- LoginServer  <- MCLoginServer
                |
        SessionTaskProofs <- GameServerProofs, LoginServerProofs
Outbox  (implements OutboxChannel) <- Framing        <- MCOutbox
                                         |
                                     OutboxProofs
ConnectionGuard (implements FloodPolicy)              <- MCConnectionGuard
      |
ConnectionGuardProofs
LoginLimit   <-    SessionInbox                       <- MCLoginLimit
                        |
                   SessionInboxProofs
AdminApi, Broadcast <- AdminProcess                   <- MCAdmin
                            |
                       AdminProofs
DummyClient                                           <- MCDummyClient
      |
DummyClientProofs
```

**Registry** is `registry.rs`. Each method holds the mutex from start to end and
is one action. `sessions` and `userOf` are `Inner.sessions`, `authenticated` is
`Inner.authenticated`, `cancelled` the kick tokens that were cancelled directly.
`issued` records the ids of `session_id::generate`; `switched` is a history
variable for sessions that authenticated as a second user. `RegistrySpec` lets
any caller make any call in any order, and is the abstract specification both
servers are shown to implement (`UsesRegistry`).

**SessionTask** holds what the two `session.rs` files share line for line. `pc`
is the await point of the task. One iteration of the biased `select!` is two
steps: `Poll` looks at the kick token; from `"ready"` exactly one handler runs,
so a token cancelled by another thread between the two is seen one iteration
later, as in the code. A handler runs without an await and is one step,
registry call, account, answer and `ControlFlow` included (`Reply` is
`Outbox::send_flow`: a full queue or a dead writer breaks the loop). The outbox
is its length here; `Outbox` has its contents. The keep-alive deadline of an
authenticated session may pass at any time. `Accept`, `AcceptorStop`,
`Shutdown` and `Exit` are the acceptor loop, `serve` and `main`; the acceptor's
`select!` is not biased, so `Accept` stays possible after `Shutdown`.

**GameServer** adds the handlers, the jobs of `spawn_inner` and
`record_logout`. `jobs[s][j]` counts jobs of session `s` at work and outcomes on
their way to or in its inner channel; jobs finish in any order, so the channel
is a bag. An outcome is dropped when the receiver is gone (`Finish`,
`LeaveLoop`). A job does not run after `Exit`: dropping the runtime ends it.
`TakeAuthTokenFails` covers a script that ran although its reply was lost.
`MoveRequest` and `EnterWorldRequest` store values that are only logged. A token
value that does not parse is answered like no value and is not told from it.

**LoginServer** has the stages of `authenticate` between its awaits. A job
carries the account status that `find_account` read, so a ban set later is not
seen, as in the code: a banned user may still get a token from each lookup made
before the ban, and `BanLetsNobodyNewIn` says that it gets no other. All failures are one outcome (they differ in the code of
the answer). `LoginRequest` may be refused at any attempt; which attempts are is
**LoginLimit**'s subject: `try_consume_login_attempt` with an integer clock.

**SessionInbox** is one session's `event_loop` with that clock: the frames that
have arrived, the bounded inner channel with the jobs that wait in
`inner_tx.send`, and the keep-alive deadline. `Loop` has one disjunct per branch
of the biased `select!`, each with the branches above it not ready in its guard.
`Return` drops the receiver, so waiting sends fail, and `Finish` after it drops
its outcome. Frames before authentication that have no handler end the session
(`Forbidden`), later they are ignored. `heard` is a history variable: when the
last `KeepAliveRequest` arrived, however late the loop reads it.

**Outbox** is `outbox.rs` with the encoder of `codec.rs`. A frame is three units,
two of header and the body, so the socket can take a part of one. `HighWater` is the backpressure boundary of
`FramedWrite` (external), from which `feed` writes before it encodes.
`OutboxChannel` is what a session may expect of it; `ChannelSteps` are its steps,
`ChannelSpec` adds that a closing channel completes or breaks.

**Framing** puts the decoder at the other end of that stream. `ReadChunk` takes
any number of the units that are on the wire, and is possible only when `decode`
returned `None`; `Decode` cuts one message; `Reject` is `InvalidLength` or a
protobuf error; `Eof` distinguishes an empty buffer from a torn frame; `Reset`
is a broken connection. `prologue` lets the stream begin with what this program
never writes: a length of zero or above the limit, or a body that does not parse.

**ConnectionGuard** is `should_block` with `prune` and `sweep_if_due`, one step
because the acceptor loop owns the guard. `FloodPolicy` states the same decisions
over the full history, without forgetting anything.

**AdminApi** has one record per request in flight with the stage it is in:
`validate` is `Get` and `Expire`, two Redis commands with anything in between;
the handlers are `Logout` and `Handle` (those that leave the keys alone);
`/api/auth/login` is `RefuseLogin`, `Issue` (SETEX, whose reply may be lost) and
`Reply`. `Cut` is a client that hangs up. `ttl` is what Redis holds. History
variables: `issued`, `dead` (expired or revoked), `known` (told to some client)
and the field `late` (the key was dead when the request came). The forced
disconnect acts on the registry and is an action of LoginServer.

**Broadcast** is `subscribe` in `broadcast.rs`, with its back-off, a Redis that
comes and goes, and the shutdown branches of both `select!`s. `broken` says that the
subscription's connection is lost although the subscriber has not noticed: the end
of the stream may be reported while Redis is away or long after it is back.
**AdminProcess**
composes the two with LoginServer's `main`, which awaits the session server,
AdminApi, the subscriber and the monitor in this order; `Drain` and `Drained` are
axum's graceful shutdown with its timeout; the requests it drops end in that step.
The session server and the monitor only end here.

**DummyClient** is `main`, `run` with its login and game phase for each client,
the monitor and the keyboard thread. `main` looks at shutdown before each connect
(`ConnectClient`) and not during it (`"dialing"`, `Dialed`). `pc[c]` is the await point or the counter update a
client is at; each update of an atomic counter is a step. `peer[c]` is how far
the server of the current phase has answered. Only client 1 has the channel of
moves; its receiver is dropped when its game phase or its task returns. The
monitor's snapshot is three loads, each a step (`LoadLogin`, `LoadGame`, `LogLine`);
`seen` is what it has loaded, `passed` a history variable: the clients that were
counted in a counter not loaded yet, and so may be on the line twice. The loads and
updates of the three relaxed atomics are seen in program order, as on x86-64; on a
weaker memory each figure is one its counter has had, but the sum of a line is not
bounded.

Definitions marked `Mutant:` in the modules are plausible bugs of the code next
to the definition they replace; each property is violated by one of them.

## 3. Runs

| Run | Instance | Shows |
|---|---|---|
| `registry` | 3 sessions, 2 users | one live session per user under any calls; `KickOnlyDuplicates` |
| `game_server` | 2 sessions, 2 users, 3 tokens, 2 token jobs, 1 score job, outbox of 1 | types (outbox bound), directory = tasks, one active loop per user, tokens used once, clean exit, logout recorded or cut by shutdown after an attempt, registry implemented |
| `game_live` | 2 sessions, 1 user, 1 token | shutdown completes and kicked sessions leave even if the database only fails; logouts get stored if it recovers |
| `login_server` | 2 sessions, 1 user that may be banned, 2 jobs, 1 permit | permits conserved, after a ban no token but from a lookup made before it, with AdminApi's disconnect; the directory, one active loop and the registry's refinement are proved for LoginServer (section 4) |
| `outbox` | 3 messages (1 oversized), 3 sends, queue of 2, high water of one frame, 2 alien messages (length zero, garbled) | the reader decodes a prefix of what was sent, all of it after a clean end, nothing of an alien stream; refinement of `OutboxChannel`; write errors end the session |
| `flood_guard` | 2 hosts + mapped form + loopback, 2 per window of 2, ban 3, sweep 2, time 6 | sweeps forget, refinement of `FloodPolicy` |
| `login_limit` | 2 per window of 2, channel of 1, keep-alive 2, 1 unread frame, attempts up to 4, time 4 | limiter span and refusals; the timeout cuts no live client and ends every silent one; no outcome lost, no sender stuck |
| `dummy_client` | 2 clients, room for 1 move | counters and the monitor's line, shutdown from every phase, keyboard thread not stuck while the player is in the game |
| `admin_api` | 2 requests, 1 key, expiry 2, back-off 1 to 3 | dead keys refused, lost keys expire, subscriber recovers, `main` returns |
| `game_work_lost`, `inbox_overflow`, `login_stale_mapping` | smallest that shows it | disagreements between code and comments, section 6 |

Bounds. Two sessions are what every race of the duplicate-login kick needs: the
old and the new one; the third session of `registry` covers a login that
displaces a session which itself displaced one, and every order in which
sessions change users. `game_server` lets a session authenticate twice, as the
same or as another user; the two runs that need one login more, or a second user
in LoginServer, are the ones of section 6. That larger instances add nothing to
these properties is what the proofs are for. An outbox of one slot reaches both
the full and the empty queue after one answer; an inner channel of one makes the
second job wait. One admin key is enough for two requests to race over it (one
logs out, or it expires, between the other's two commands); keys do not interact. `dummy_client` has a state constraint, `MonitorOrKeyboard`: the
monitor runs only where there is no terminal. The keyboard thread counts nothing,
and the monitor changes nothing another task reads and is not waited for, so every
order of counting and loading is there, and every behaviour of the tasks that the
liveness properties speak of. The theorems about the counters need no constraint.
`MaxJobs`, `MaxLogins`, `MaxSends`, `MaxFrames` and `MaxTime` bound what clients do
and the clock; they appear in guards and nowhere else (`SilentSessionEnds` names
`MaxTime` too, where the deadline lies beyond the time modelled). The
guard's times let a host fill a window, be banned, outlive the ban and be swept,
with both equalities (`= FloodWindow`, `= banned_until`) hit.

Symmetry is used in runs of safety properties only, over sessions, and over users
or tokens that the instance treats alike.

Fairness (`game_live`): weak fairness of a session task's next step and of the
logout steps, because tokio keeps scheduling a task that can run and the drain
timeout, the back-off sleep and database calls end; weak fairness of the
acceptor's and `serve`'s return; strong fairness of leaving the back-off once
shutdown is cancelled, because that `select!` finds the token ready at once
while the sleep has only started. `LogoutEventuallyRecorded` alone supposes
`DbRecovers`, that the database does not fail for ever. In `outbox`, the kick is
polled first and the drain timeout expires; nothing is assumed of the socket. For
`CleanEndDecodes` the peer keeps reading until the end of the stream. In
`login_limit` time passes, a loop that has a ready branch runs, and a job that
waits in `send` gets a free place; a job need not end, for its database may never
answer, and a client need not send. In `dummy_client` tasks that can run do, and
sends and connects end; leaving on shutdown and taking a move are strongly fair,
because that `select!` is not biased and picks among ready branches at random. No
server is assumed to answer. In `admin_api` tasks run, timers fire and time
passes; no request is assumed to be answered, and Redis may stay away for ever,
but in `SubscriberRecovers`, which supposes that it comes back to stay. That a lost
connection is noticed some time is TCP's doing. dummy_client's monitor has no
fairness.

Deadlock is checked in every run; the stuttering `Terminated`, `Finished` and
`Done` actions are the states where the program has returned or the bounds on
its clients are spent.

## 4. Proofs

Assumptions: those named in the modules (`RegistryAssumption`,
`SessionTaskAssumption`, `GameServerAssumption`, `LoginServerAssumption`,
`AdminAssumption`, `BroadcastAssumption`, `LimitAssumption`, `InboxAssumption`,
`OutboxAssumption`, `FramingAssumption`, `GuardAssumption`, `ClientAssumption`),
that is, the "none" values are outside their sets, capacities, limits and spans
of time are positive where the code's are, tokens name users, and what another
program sends is not one of our messages. TLC evaluates each of them in a run.

Every invariant and every safety action property of the runs is a theorem of its
specification, and each inductive invariant was checked by TLC on the instance
of its run before it was proved.

- `SessionTaskProofs`, first part, the registry: the inductive invariant
  `RegistryInv` is the types, "an unregistered session has no user",
  `OwnerOrKicked` and `MappingIsCurrent`. `OneLiveSessionPerUser` is not inductive
  by itself: that the newest session displaces the older one needs that the map
  points to it (`OwnerOrKicked`), since two owners of one map entry are equal.
  `SingleLogin`, `StaleOnlyBySwitch` and `KicksAreDuplicates` follow.
- `SessionTaskProofs`, second part: `TaskInv` adds the task types,
  `DirectoryMatchesTasks`, "a session not yet started has never been issued an
  id" (so `Register` is enabled) and the state of the server at exit. One lemma per
  kind of step (handlers, authentication, start, leave, close, writer, server),
  used by both servers.
- `GameServerProofs`: every step keeps `TaskInv` (`GameTasks`), hence
  `GameOneActiveSession`, `GameDirectory`, `GameExit`, and the step simulation
  `GameImplementsRegistry`. `GameTokenSingleUse` counts, for each token, the
  outcomes that carry it and the authentications made: a live key has neither,
  a deleted one has at most one of both. `GameLogoutRecorded` and `GameTyped` have
  their own small invariants.
- `LoginServerProofs`: the same for LoginServer, whose tasks AdminApi may cancel.
  `LoginBan` is about steps: a banned user's tokens and its logins under way that
  saw it active never grow in sum. A lookup after the ban copies the ban
  (`FindAccount`), a login with that copy does not pass the check (`NoneSawBan`, an
  invariant), and the step that sets the token ends the login. For `NoPermitLost` the permits out are written as a set, one
  pair `<<p, n>>` for each job past `hash_limiter.acquire` and its number among
  the jobs at the same place (`Held`). A step that takes or returns a permit adds
  or removes one pair and every other step leaves the set alone; that is all the
  theorem needs of counting. `LoginTyped` follows: `permits` stays within `0..Permits`
  only because of it.
- `SessionInboxProofs`: the limiter keeps a start and a count, and `SpanBound` and
  `RefusedForCause` speak of grants far back. `WindowGrants` says what the two
  stand for: the window's grants are the last ones, the first of them was made at
  `login_window`, and the grants `Attempts` before them are a whole window older.
  For `NeverCutAlive` the loop's `last_keep_alive` must stand for `heard`, which it
  does when no `KeepAliveRequest` is unread (`HeardIsRead`); the deadline's place at
  the end of the biased `select!` makes that so. `NoOutcomeLost` follows the
  positions an outcome has in the channel: `inner_tx.send` adds one at the end,
  `inner_rx.recv` takes one from the front and moves the others.
- `OutboxProofs`: `OutboxInv` holds that the wire, the buffer and the frames of
  what is held and queued are, in this order, the frames of what was sent
  (`NothingLost`), and that the writer has an empty buffer and nothing held where it
  waits or ends. The step simulation `OutboxImplementsChannel` follows;
  `FramingImplementsChannel` is the same beside a reader. For `DecodesSent`,
  `ReaderInv` relates three sequences: the reader's buffer is the end of the part of
  the stream it has received, the frames it decoded are the part before that, and
  the messages decoded are a start of the fitting messages sent. That the next
  unit of the buffer is then the header of the next fitting message needs the
  layout of `Frames`, three units for every message that fits (`FramesLaid`).
- `ConnectionGuardProofs`: the guard decides by what it has kept, the policy by
  the whole history. They agree since what is kept of a host is an end of its
  history and everything before that end has expired (`Remembers`), so both see
  the same fresh entries (`FreshCount`). That needs the histories to be in order of
  time, and the sweep to drop nothing but what has expired. `GuardRefinesPolicy`
  is the full refinement (`FloodPolicy` has no fairness); `GuardTyped` and
  `SweepForgets` are parts of the same invariant.
- `DummyClientProofs`: every update of a counter is a step between two places of
  `pc`, so each counter is the number of clients that are in its places
  (`CountInv`), among them the places before and after each half of a move from one
  counter to another. `CountersAgree` follows, with `AllDone` for the counters at
  the end of `main`. For the monitor's line, `LineInv` says after each load how much
  of the line is taken by what was loaded and the clients counted since: what a load
  read, plus the counters not loaded yet, is at most the clients and those that
  `passed`. `CountersAddUp` joins the two.
- `AdminProofs`: `AdminInv` adds to the types that a dead key is not in Redis, that
  a key in Redis was issued (`KeysApart`), and that a request whose key was dead
  on arrival is still before GET (`RequestsHonest`). `DeadKeyRefused` alone is not
  inductive: GET could let a late request through if a dead key were back in
  Redis. `ProcessTypeCorrect` needs that no request begins once axum has stopped
  serving.

Two arguments recur. The library's induction theorems take the statement as an
operator, which the provers cannot instantiate; where a statement about all
lengths is needed (`Frames`), it is made of the set of the lengths for which it
holds, and a set of numbers that contains 0 and every successor is `Nat`
(`AllNumbers`, from the well-foundedness of `<`). And counts are cardinalities of
sets of positions, places or pairs, so that a step adds or removes one element
and no sum has to be reasoned about.

Only model-checked: liveness and the fairness part of `ImplementsChannel`
(fairness and ENABLED are out of the prover's reach; `ChannelSteps` is the part
that is proved).

## 5. Hazards

`PROJECT.json` lists each at its line with the properties that would catch it.
Of a token whose SETEX reply was lost only the number after a ban is checked: nobody
holds it and it expires. A limit of `KeyPressesDrain`: it speaks of the game phase. While the
player waits in its login phase (for ever, after a refused login) nothing reads
the channel, and once the player's session is over the thread ends at the next
move; Q is then not seen, and the process ends by a signal from outside.

## 6. Disagreements between code and comments

1. `game_work_lost`: `spawn_inner`'s comment promises that the DB work is carried
   out to the end; jobs are not tracked, so `main` may return first and drop them.
2. `inbox_overflow`: `consts.rs:14` says that a session whose inner channel exceeds
   its capacity is closed by force, and `PORTING.md` that this was adopted. The
   jobs await `inner_tx.send`, so they wait for a place, the session goes on, and
   nothing is lost (`OutcomesKept`, `SendersGetTheirTurn`).
3. `login_stale_mapping`: `remove` is said to release a mapping that points to the
   ending session. In LoginServer the same double request leaves the first
   user's mapping on a session that has ended. The entry is harmless to others,
   since ids are not reused, but stays until that user logs in again. In
   GameServer two token requests in flight do the same to a session that is
   still running: it ends up serving the second user and is closed by the first
   user's next login. `docs/PORTING.md` keeps the missing re-check because a
   regular client sends one request.

`StaleOnlyBySwitch` and `KicksAreDuplicates` prove that sessions which
authenticated as a second user are the only source of 3.

## 7. Not modelled, and plan

Not modelled: password hashing (pure computation over bytes; its result is free
in `VerifyPassword`), connection set-up, the figures of the servers' monitor, statistics,
configuration, generated protocol code, logging, dummy_client's seeder (a batch
of INSERTs before anything else runs) and its CRLF writer, the contents of
notices. A user id is compared as a model value: the database's collation is left
out. A request whose admin key expires between GET and EXPIRE is let through
once, as in the code; `DeadKeyRefused` is about keys dead on arrival.

Planned: `LoginToGame`, both servers over the tokens in Redis, with an abstract
specification of who may be in the game and the proof that the two together
implement it.
