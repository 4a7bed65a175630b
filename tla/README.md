# TLA+ models of the OpenClaw mobile companion

The repository pairs glasses, phones and a laptop with an OpenClaw gateway
through a *bridge*: an HTTP and websocket server that owns the devices'
credentials and relays prompts. This directory holds TLA+ modules of its core
logic, TLC configurations that check them on small instances, and theorems
checked by TLAPS. `PROJECT.json` maps every definition to the source lines it
models.

## The system

| component | state | operations | talks to |
| --- | --- | --- | --- |
| auth service, `bridge/src/services.ts` | pairing sessions, bootstrap tokens, devices, refresh families and tokens, websocket tickets, prompt results | create and redeem a pairing, register, refresh, issue and consume a ticket, revoke, clean up, remember a prompt's result | its store, the routes, the relay |
| in-memory store, `memory-store.ts` | maps of those records; hands out the records themselves | get, create, update, list, cleanup; `withTransaction` only calls back | auth service |
| Postgres store, `postgres-store.ts` | rows; hands out copies | the same, as SQL; `withTransaction` is BEGIN, COMMIT or ROLLBACK on a pooled client | auth service, Postgres |
| relay, `relay.ts` | one connection for each device, timers, `readySent`, last pong | upgrade, bind, hello, resume, prompt, heartbeat, revoke, close all | auth service, OpenClaw client, device sockets |
| routes, `server.ts` | cleanup timer | HTTP endpoints, rate limits, startup and shutdown | all of the above |
| rate limiter, `rate-limit.ts` | timestamps by key | check | routes |
| OpenClaw client, `openclaw.ts` | nothing between calls | a completion with timeout and retry | gateway |
| hardware ingest, `hardware-bridge-ingest.ts` | event ids seen, with expiry | ingest a batch | laptop bridge |
| laptop bridge, `laptop-bridge/src` | bounded event queue, timers, adapter state | start, stop, flush, reconnect, resume after sleep | adapter, hardware ingest |
| mobile session, `mobile/src/websocket-session.ts` | socket, ticket, reconnect timer, pending prompt | connect, disconnect, reconnect, send | relay |
| mobile controller, `mobile/src/mobile-companion.ts` | registration (saved), access token, ticket | pair, restore, refresh, connect, repair | auth routes, session, storage, BLE |
| glasses controller, `glasses/src/app-controller.ts` | registration (saved), access token, pending prompt, abort controller | pair, resume, send, cancel, background, repair | auth and turn routes, storage |

What is hard in it, component by component (each hazard, with its line and the
properties about it or the reason why none is, is in `PROJECT.json`):

* **Auth service.** Handlers check, wait, and write on the strength of the
  check. Correct means: one code pairs one device; guessing is bounded; a
  refresh token is traded in once, and a second use is noticed; nothing
  outlives the family; a revoked device stays revoked and disconnected; a
  ticket opens one connection.
* **Postgres store.** Selects lock nothing, updates write whole rows back, every
  throw rolls back, and two handlers lock the same rows in opposite orders.
* **Relay.** A device has one connection, the newest; replies are remembered, so
  that a prompt is answered once; stale sockets are dropped and no healthy one.
* **Clients.** A refresh must be single-flight and its result saved before it
  is needed; a reconnect needs a new ticket; a cancelled request must not undo
  what came after it.
* **Laptop bridge.** Events are delivered at least once and recorded once, the
  queue is bounded, and a failed delivery is tried again.

## Modules

* `DeviceLifecycle` -- what the auth service promises about devices: pairing, locking
  a session, connecting, compromise and revocation, one step each.
* `BridgeAuth` -- the auth service over the in-memory store, with the relay's
  table of connections. It implements `DeviceLifecycle`.
* `MCBridgeAuth` -- its small instances (`Auth_*.cfg`).
* `BridgeAuth_proofs` -- its theorems.
* `BridgeAuthPg` -- the same handlers over Postgres, one SQL statement at a
  time. `MCBridgeAuthPg` -- its small instances (`Pg_*.cfg`).
  `BridgeAuthPg_proofs` -- its theorems.
* `Relay` -- the sockets, the heartbeat, and the prompts with their remembered
  results. `MCRelay` -- its small instances (`Relay_*.cfg`).
* `Relay_proofs` -- theorems about its sockets; `RelayPrompts_proofs` -- about its
  prompts and their remembered results.
* `EventLog` -- what the delivery of hardware events promises, in three actions.
* `LaptopBridge` -- the laptop's runtime, adapters, queue and flushes, with the
  bridge's ingest at the other end of the network. `MCLaptopBridge` -- its small
  instance (`Laptop_delivery.cfg`). `LaptopBridge_proofs` -- its theorems, that it
  implements `EventLog` among them.
* `RelaySession` -- the phone's websocket session with the bridge's end of each
  socket. `MobileCompanion` -- extends it with the phone's controller, screens,
  storage and the auth routes it calls. `MCMobileCompanion` -- its small instance
  (`Mobile_*.cfg`). `MobileCompanion_proofs` -- theorems about both.
* `GlassesController` -- the app on the glasses, with its storage and the bridge's
  answers. `MCGlassesController` -- its small instance (`Glasses_*.cfg`).
  `GlassesController_proofs` -- its theorems.

The bridge's own modules meet at two places. A good ticket is what lets
`Relay`'s `UpgradeBegin` happen; whether it is good is `BridgeAuth`'s `Upgrade`.
The route that revokes a device is `BridgeAuth`'s `RevokeDevice` for the store
and `Relay`'s `RevokeDevice` for the socket; `BridgeAuthPg` has both, with the
commit between them. The client modules each contain as much of the bridge as
answers them: tokens that are rotated once and revoke their device when used
again, tickets that open one socket, devices that are revoked. There each
handler of the bridge is one step; what happens inside it is `BridgeAuth`'s,
`BridgeAuthPg`'s and `Relay`'s to say.

### BridgeAuth

One variable for each of the store's maps, by id; `family` is indexed by the
device that owns it, since registration creates one family for each device.
Absent rows have status `"none"`, rows the cleanup removed `"deleted"` (their
fields are kept, because a refresh that is under way still holds the object).
Hashing, names, addresses and the revocation log are abstracted away. `access`
is the set of signed access tokens handed out, which no store remembers.
`connection[d]` is the ticket whose socket is the device's entry of
`activeConnections`.

One action is one handler up to its next real wait. Promises of the in-memory
store settle as microtasks, so nothing runs between its calls; the signature in
`accessTokens.issue` is computed on another thread, so `registerDevice` and
`refreshSession` are two actions each (`RegisterBegin`/`RegisterFinish`,
`RefreshBegin`/`RefreshFinish`), with their live locals in `registering` and
`refreshing`. `RefreshReuse` is the branch of `refreshSession` that finds the
token used. The branches of `redeemPairingCode` are `RedeemExpired`,
`RedeemWrongCode` and `Redeem`. `RevokeDevice` is the whole route, the relay's
part included: no wait lies between them with this store. A handler that only
answers an error changes nothing and has no action.

Time is a clock, `now`; the lifetimes are constants. Ids are drawn from finite
sets, and a drawn id is never drawn again (`createId`, `createOpaqueToken`).

`DeviceLifecycle` is what is left without codes, tokens, clocks and calls that
wait. `Lifecycle` maps to it by the sessions that are locked, the devices each
session made (through their bootstrap tokens), the status of the device rows and
the table of connections. `RegisterFinish` is `Pair`, `RefreshReuse` is `Compromise`,
`Upgrade` is `Connect`, whether or not it replaces a socket, a wrong code may be `Lock`;
everything else but revoking and closing is a stutter.

### BridgeAuthPg

`db` holds the committed rows by `<<table, key>>`. Each client of the pool runs
one transaction `tx[x]`: which handler (`kind`), what the request named and the
handler drew (`arg`), the next statement (`pc`), the objects read (`copy`), the
uncommitted rows, which are also the locks it holds (`wrote`), and the tokens a
revocation still has to update (`todo`). A handler is a sequence of statements:
`check` (a select whose row may make it throw), `read`, `write`, and `list` (the
tokens of a family, each then updated by `RevokeToken`). `Verdict` is where
`refreshSession` turns into `markFamilyCompromised` ("replay").

The database is Postgres at READ COMMITTED, the level a plain BEGIN gets: a
select sees committed rows and the transaction's own; an update waits for the
row's lock and then overwrites all columns; a cycle of waits is broken by
failing one of its members. `Fail` is any statement that fails. Foreign keys
take key-share locks only, which these updates do not conflict with, so they
are left out. `Commit` is the server's COMMIT, `Return` the moment the handler
hears of it: an upgrade then binds its socket, a revocation drops the device's.
`BridgeRestart` ends all transactions and connections at any time; that only the
acknowledgement of a COMMIT is lost, and the process goes on, is left out. Time does not
pass and nothing is cleaned up in this module.

`guesses`, `replayed`, `revokeDone`, `opened` and `late` are history: what was
answered to clients, for the properties to speak about.

### Relay

`connection[c]` is one `RelayConnection`, from the upgrade request to the close
event of its socket, `active` is `activeConnections`, `request[h]` one call of
`handlePrompt`, `handleResume` or the handler of `POST /v1/turn` with its live
locals, and `results` the table of prompt results. The routes share the table:
a turn can be answered with what a websocket prompt stored.

A socket is `upgrading` while `consumeWebSocketTicket` waits, `open`, `closing`
once the server has called `close` (its messages are still handled, its replies
go nowhere), `ending` once the peer has closed it or it broke, and `closed` when
the close event has been handled, which may be long after the device has another
connection. `cleanupConnection` is `Stopped` (the timer) together with
`WithoutActive` (the table). A connection id whose socket is closed and that no
handler refers to is used again for a new connection, which keeps the ids
finite without merging any two that are alive.

A handler is one step from each wait to the next: the request goes to the store
(`Arrive`), the store answers (`Lookup`), the handler replies or asks OpenClaw,
the completion arrives, the store executes the upsert, the reply is sent.
`CompletionFails` and `StoreFails` are the errors in between. The turn route
catches them; `onMessage` is called with `void`, so there they end the process
(`ProcessEnds`), as a rejected promise without a handler does in Node.

Timers are due at `beatAt` and run at most `TimerLag` late; an interval is
armed again when it runs. `missed` (heartbeats since the last pong), `known` (a
result was stored when the request came) and `outcome` (what the client was told)
are history for the properties. Conversations, texts, the `token.expiring`
notice and the connection event log, which nothing reads back, are abstracted
away. So is the length of prompt ids: the turn route cuts them to 128 characters
(`server.ts:562`), the socket only trims them, so that a longer id is remembered
under two names, where the model has one.

### EventLog and LaptopBridge

`EventLog` numbers the events as they happen. An event waits, is lost to newer
ones, or is settled once the log has it or refuses it; the log leaves no gap
before an event it takes. `LaptopBridge` refines it by `made`, `queue`, `dropped`
and `recorded`.

In `LaptopBridge` an event is its sequence number, and the queue, which the code
keeps in that order, a set. `phase` is the runtime between `start` and `stop`:
it is `starting` while `start` waits for the first attempt to connect, because
the flush and resume timers are set after it, while `close` and the reconnect
timer can be there before. `stop` is possible once `start` has returned: its
caller gets hold of the runtime only then. `connecting` counts the calls of the
adapter's `connect` by the wait they are at, since the resume and reconnect
timers start new ones without looking. `ticking` and `held` are the mock
adapter's interval timers: all that run, and whether the adapter still knows
one; a second successful `connect` forgets the first timer, which then runs on
after `stop`. `BeginConnect` is `tryConnect` up to the adapter's first wait, and
emits what the adapter emits until then: one status for the mock, three for the
stub, which ends there. `"ble"` is an adapter as the interface has it: its
`connect` may take any time and may reject.

`flush[f]` is a call of `flush`: the interval does not wait for the one before.
`Ingest` is the route with `HardwareBridgeIngest.ingest`, `IngestLate` the same
for a request whose sender gave up, and `Acknowledge` the rest of `flush`.
`DeliveryFails` covers a lost request, a lost answer, an error status and an
answer that does not parse. `seen` is `seenEventIds`, forgotten by
`BridgeRestart` and by time. An event that the validation refuses is in
`Malformed`; the laptop removes it like a recorded one. `recorded`, `loggedAt`,
`repeated` and `dropped` are history.

### RelaySession and MobileCompanion

`RelaySession` has the fields of `WebSocketSession` as variables, `wire` for every
socket there is, and the bridge's `ticketOf`, `spent`, `revoked` and `known`
prompts. The handlers of a socket work on `this.socket` and the other fields of
the session whichever socket they belong to, and so do the actions. A socket
the phone closes itself, in `onerror` or in `disconnect`, is closed when its close
event comes (`SocketCloses`). A socket that is closed is `"none"` and may be used
for the next one. `Revoke` is the operator's; `"revoking"` is a socket whose
`revoked` message and close are on their way; the two come right after each other
and are one step (`RevokedArrives`).

`MobileCompanion` is the app around it: `call[c]` is one run of an asynchronous
handler of `use-mobile-companion-app.ts` with the controller's method it calls,
from each wait to the next. `busy` keeps the buttons from starting a second one;
the network listener starts one at any time. Restoring at the start, pairing and
reconnecting are the same from `connect` on, so they share that `op`. A
registration is known by its refresh token, `registration` in memory and
`stored` in secure storage. Storage does not fail, and the keys of a
registration are written together; the app may end at any time
(`Restart`), also before a write or between the bridge's rotation and the
answer. A refresh request that has not reached the bridge when its call fails or
the app ends is taken back; that the bridge has executed it and the phone never
hears of it is the other order (`AuthRefresh`, then `RefreshFails` or `Restart`),
which `wasted` records. A ticket request carries the access token it was sent with
(`call[c].token`, by device). An access token that was fresh enough to be used
outlives a write to storage. Of the glasses' radio `connect` is a wait that never
rejects; scanning and messages are left out, and so is what prompts say.
`wasted` and `signedOut` are history.

### GlassesController

One variable for each field of the controller, `snapshot` with the parts that
decide what may be pressed. `call[c]` is one run of an asynchronous method; here
no flag keeps a second one out, only the states of the buttons, which the
guards of `Press` are. `controller` names the call that made
`currentAbortController`. Aborting a fetch rejects it at once, and the `catch`
runs before the next event of the host, so `Abort` ends a turn in the same step,
in one of two ways: with an `AbortError`, or, if the answer's body was being read,
with the error of a body that is missing, because `.catch(() => null)` swallows the
first one. `refresh` is called without a signal: its call goes on, knows
`aborted`, and fails when it comes to its turn. Both storage writes of a
registration count as one wait and take effect together. `storage.ts` writes or
clears the five keys of a registration side by side (`Promise.all`), so an end of
the app between two keys, which leaves a registration in part, is left out. The legacy token may be typed or removed at any
time. An empty prompt and fields that do not validate change nothing and have
no action. `forgotten` and `cancelled` are history.

## Runs

| run | question | bounds |
| --- | --- | --- |
| `auth_pairing` | can a code pair two devices, or be guessed without end; do pairing and registration implement the lifecycle; does an expired token leave the store? | 2 sessions, 2 bootstrap tokens, 2 devices, 2 refresh tokens, both client types, 2 attempts, clock to 2, no symmetry, fairness |
| `auth_session` | does a device in use implement the lifecycle: does a revoked or compromised one stay dead; how far does rotation go, and until when? | 1 device, 4 refresh tokens, 2 tickets, 2 refreshes at once, clock to 3 |
| `pg_sessions` | concurrent redeem, guess, register, issue, consume, touch and revoke, with failures and restarts | 2 transactions, 2 bootstrap tokens, 1 device, 2 tickets, 2 guesses |
| `pg_refresh` | concurrent refresh, replay and revoke; does every request end? | 2 transactions, 3 tokens, no symmetry, fairness |
| `relay_heartbeat` | who is in the table, whose timer runs, who is dropped and when? | 1 device, 2 connections, interval 2, pong timeout 2, 2 misses, lag 1, clock to 10 |
| `relay_prompts` | is a retry free, is an answer remembered, does every request end? | 1 connection (used again after each close), 1 prompt id, 2 requests, retention and clock 1, durable store, fairness |
| `laptop_delivery` | is an event lost, recorded twice, or left in the queue; does a running runtime keep trying? | all 3 adapters, queue and batch 2, 2 flushes at once, 5 events (2 for the adapter that may reject), one of them malformed, 2 attempts to connect at once, clock to 1, fairness |
| `mobile_app` | do the phone's credentials stay of use, and forgotten ones forgotten; is a pending prompt asked about; does the phone go on trying while its user can only wait? | 2 handlers, 2 sockets, 1 device, 2 tickets; 2 refresh tokens and prompts together, 1 prompt |
| `glasses_app` | does the display promise an end that nobody brings; is a repair undone? | 2 methods at once, 2 refresh tokens, 2 prompts, 3 of both together |

Lifetimes of one to three ticks let every expiry happen, and happen in every
order relative to the handlers, within the clock's bound. The absolute lifetime
is shorter than two sliding ones, so the cap is reached. Two overlapping calls
are what it takes to break a check-then-write; `MaxInFlight` is 2 for that
reason. Devices do not share rows, so one device is enough where the question
is not about pairing. In `relay_heartbeat` the stale threshold is 6 and the
clock goes to 10, so that a connection can be bound, answer, fall silent and be
dropped; a device needs two connections for one to replace the other while the
older one's close event is late. In `relay_prompts` two requests with the same id
overlap, or the second comes after the first was answered, expired, or lost in a
restart. No heartbeat is due within its clock: the two runs separate what does
not interact, and `relay_heartbeat` has no requests. In `laptop_delivery` the queue
overflows while a batch of its oldest events is on its way, two batches
overlap, and a late request arrives before, at and after the end of the
bridge's memory. In the client runs two overlapping methods are what it takes
for one to act on what the other is about to change; `MaxWork` bounds refresh
tokens and prompts together, which lets either reach its own bound without
multiplying the two.

Deadlock is checked in every run. Where a restart is possible at any time
(`pg_sessions`, the laptop's bridge, the phone, the glasses) that says little; what
must not get stuck is stated as a property there (`EveryTransactionEnds`,
`Delivered`, `WorkIsUnderWay`).

Every passing property has a mutant in the module, next to the definition it
changes: a plausible slip that the run must notice.

The `*_doc_*` runs each check one statement of the repository's documents that
the code does not meet; TLC's counterexample is the shortest way there.

* `pg_doc_revoked`: a request that read the device row before a revocation
  writes its old status back, and an upgrade overtaken by a revocation stays
  connected. Each half fails on its own; TLC stops at the shorter one.
* `mobile_doc_ticket`: the session's own reconnect presents the ticket that has
  opened its last socket. The bridge refuses it, again and again. The screen
  shown meanwhile, "connecting", has no buttons, so after an ordinary loss of the
  connection the user is stuck until a network event makes the listener fetch a
  new ticket, or the app is restarted.
* `glasses_doc_cancel`: the reply to a prompt that was cancelled by a double click
  is shown after all. A prompt that waits for a refresh is aborted by a
  background exit; a second click sends another one; when the first call ends,
  its `catch` drops the second's controller, a third click starts one more call
  for the same prompt, and the double click cancels only that.

Five more statements of `docs/openclaw-mobile-companion-architecture.md` fail. Each
is a definition of its module, and TLC finds it violated when a configuration
lists it; they have no run of their own, for the sake of the time all runs take
together.

* `CompromiseClosesConnection` (line 312, `BridgeAuth`): reuse detection leaves the
  device's socket open.
* `RecordedBeforeTheError` (lines 300, 309-310, `BridgeAuthPg`): the attempt count
  with its lock, and the compromise of a family, are rolled back by the error
  that reports them.
* `CredentialsAreSingleUse` (line 997, `BridgeAuthPg`): codes, bootstrap tokens and
  tickets can be used twice concurrently.
* `UpstreamErrorsReachClient` (line 211, `Relay`): an error of OpenClaw during a
  websocket prompt reaches no client; it ends the process.
* Line 388, without a definition: `prompt_interrupted` is for lost in-flight work,
  but a resume that overtakes its own prompt is told so while the prompt is on
  its way to OpenClaw.

The document also says that every refresh consumes the old token and that
reuse revokes every outstanding token. What holds over the in-memory store is
weaker: a token has as many successors as calls overlapped
(`RotationBoundedByOverlap`), and a refresh that was waiting for its signature
when reuse was detected stores an unrevoked token, which the family's status
keeps useless.

Replies are remembered less firmly than the words suggest, too. Two requests with
one prompt id that overlap both ask OpenClaw, and the later upsert replaces the
earlier one's text, which a client may have seen by then (`relay.ts:285-320`).
`AnsweredIsRemembered` says that nothing else replaces a text: a request that
arrives once there is a result neither asks again nor stores anything, until the
result expires.

Some things the client modules show are weaker than one might expect, and no
document promises more. On the phone and on the glasses two refreshes may
overlap, since nothing makes them one; the second presents a used token, and the
bridge revokes the device. `StoredTokenWorks` therefore allows for devices that
are revoked and for answers that were lost. A repair, on either, does not stop
calls that are under way, which may save a registration after it
(`SignedOutStaysOut` and `RepairForgets` speak of repairs without such calls).
Ending a session on the phone keeps its ticket, and the close event that follows
arms the reconnect timer. An abnormal exit of the glasses' host that aborts a
prompt ends as "connected", since only the background exit sets the flag that
the `catch` looks at. The phone's `repair` handler has no `catch` of its own: if
secure storage threw there, `busy` would stay set; in the model storage does not
throw.

Two passing properties of `BridgeAuthPg` hold for reasons worth knowing before
anyone changes the code. `RedeemedIsFinal` holds only because wrong codes are
rolled back: committing the attempt count without also locking the row would let
a wrong code undo a redemption. `UsedIsFinal` holds because a revocation locks
the device row first; a refresh that is halfway through then deadlocks with it
instead of having its `usedAt` overwritten.

## Fairness

`BridgeAuth`: a signature that was asked for arrives (one assumption for each
pending call), and the cleanup interval keeps firing. `BridgeAuthPg`: a statement
that was sent is executed; an update that waits for a row gets it eventually,
although others want it too (Postgres queues waiters, hence strong fairness); a
deadlock is detected. `Relay`: the store answers, and a completion arrives or
fails. The code bounds the latter by `openclawRequestTimeoutMs` until the headers
are there; for the body it relies on the HTTP client's own timeout.
`LaptopBridge`: the flush timer keeps firing while the runtime runs (weak
fairness of `FlushBegin`), a request nobody waits for does not stay on its way
for ever, and a delivery that is tried again and again gets through, there and
back, now and then (strong fairness of `Ingest` and `Acknowledge`: each attempt may
fail, but not all of them for ever). Nothing is assumed of clients, operators or
failures. The client modules have no liveness property: what they wait for is
a person, or, on the phone's screen without buttons, the network listener, of
which nothing can be assumed. `WorkIsUnderWay` says instead, as an invariant, that
a method is there to wait for. `KeepsTrying` says less: the phone has not stopped
trying. It does not say that trying helps, and with a spent ticket it does not
(see `mobile_doc_ticket`).

## Proofs

`BridgeAuth_proofs` shows, for arbitrary sets of ids, client types, lifetimes and
numbers of attempts, and without a bound on the clock's range other than the
parameter `MaxTime`, that `IndInv` is an invariant (`Inductive`), and from it
type correctness, `OneDevicePerPairing`, `LockedPairingIsDead`, `StatusesAgree`,
`RevokedHasNoConnection`, `AbsoluteLifetime`, `TicketOpensOnce` (`TicketsAreSpent`),
`RotationBoundedByOverlap` (`RotationIsBounded`), and that the service implements
`DeviceLifecycle` (`DevicesLiveOnce`). Two of its consequences, `RevocationIsFinal` and
`DeadDeviceOpensNothing`, are also proved directly; the runs check the whole
lifecycle instead.

Assumptions: `None` is no token, ticket or bootstrap token; the bounds are
natural numbers and at least one attempt is allowed; lifetimes are natural
numbers. TLC evaluates them in every run.

The argument. None of the interesting invariants is inductive alone.
`OneDevicePerPairing` needs `SingleUse` (a session has one bootstrap token, a
token at most one device, counting registrations under way), which needs
`FreshIds` (what a waiting call has drawn is used nowhere else).
`LockedPairingIsDead` needs `AttemptsLeft`: only a locked session has used up its
attempts. `AbsoluteLifetime` speaks about every token ever minted, so a pending
refresh must have been admitted before its family's end (`PendingLifetime`),
which it gets from the expiry of the token it presented, and tokens must point
at devices that exist (`WellLinked`). `IndInv` is the conjunction; there is one
lemma for each conjunct, with one step for each action. The rotation bound
counts (`Rotation`): a token is marked by the step that gives it its first successor,
so while calls can still begin with it, it has none, and those that wait are at
most `MaxInFlight`; afterwards each call that ends turns one waiting call into
one successor. For the refinement `MadeFrom` says that a device goes back to a
session whose code was accepted; hence a session that is still redeemable has
made no device, so that locking it is a step of the lifecycle, and a minted
bootstrap token belongs to none, so that redeeming is a stutter.

`Relay_proofs` shows, for arbitrary sets of devices, connections, prompts and
requests and arbitrary intervals, that `Relay`'s `IndInv` is an invariant, and from
it `TypeOK` (`RelayTypeCorrect`), `OnlyActiveIsOpen` (`OpenSocketsAreActive`),
`TimerWhileActive` (`TimersFollowTheTable`), `SilenceIsBounded`
(`SilenceIsDetected`) and `DroppedOnlyAfterMisses` (`AnsweringClientsStay`).
Assumptions: `None` is no id, the interval is positive, the other numbers are
natural. `AnsweringClientsStay` assumes in its statement that
`StaleMissCount * TimerLag <= PongTimeout`: if timers may run later than that,
the threshold can pass during fewer heartbeats than it is meant to allow. The
default configuration (2 misses, 10 seconds) tolerates timers that are five
seconds late.

The argument. That only the table's connections are open needs that the table
names a device's own connection, opened and not yet closed (`TableSound`), and
that a drawn connection has a device (`Owned`); removing an entry then disturbs
nobody else's. `TableUnmoved` and `TableRemoved` say so once for all steps that
leave the table alone or take one connection out of it. The time bounds need
`ClockSound`: the next beat lies within what the last pong and the misses since
allow, and the timer is not later than its lag. `SilenceIsBounded` is linear in it;
the misses are a product, so `AnsweringClientsStay` goes through `DropIsEarned`,
which does that arithmetic once.

`BridgeAuthPg_proofs` shows, for any number of clients of the pool and any ids,
that `BridgeAuthPg`'s `IndInv` is an invariant (`PgInductive`), and from it `TypeOK`
(`PgTypeCorrect`), `BoundAfterCommit` (`PgBoundAfterCommit`),
`LateRefreshMintsNothing` (`PgLateRefreshMintsNothing`) and the action properties
`RedeemedIsFinal`, `UsedIsFinal` and `RevokedTogether` (`PgRedeemedIsFinal` and so
on). Assumptions: `None` is no id, at least one attempt is allowed, the bound on
guesses is natural, and the requests are of the kinds that arrive (a replay is
what a refresh turns into).

The argument. Nothing holds the rows a handler has read, so all that can be said
of a transaction by itself (`TxSound`) is which rows it holds (`LocksSound`), what
its copies are worth (`CopiesSound`) and what it will commit (`RowsSound`). `Later`
says what a commit may do to the database: nothing that is revoked, used or
redeemed comes back. `OthersKeep` shows once that every other transaction is as
sound after such a change as before. The one clause `Later` does not keep is that
a revocation has listed its family's tokens as they are (`TokensSeen`): a refresh
could commit in between. It cannot, because the revocation then holds the
device's row and a refresh must hold it to commit (`DoneHolds`, `LocksDisjoint`).
`DrawsSound` (an id that was drawn is in nobody else's hands) keeps the rows of a
registration away from everyone until it is committed.

`RelayPrompts_proofs` adds, for any number of requests over any sockets and
routes, `RetryIsFree` (`StoredPromptsAreNotAskedAgain`) and `AnsweredIsRemembered`
(`AnswersOutliveTheProcess`), under the same assumptions. What a request's step
says about the rest of its record (`SoundAt`) is inductive by itself; the rest is
that a stored result belongs to a request which stored it and is dated as that
request (`ResultsSound`), and that such a request arrived before there was a
result. So a text that a client has seen is stored, has expired, or was replaced
by the text of a request that overlapped (`Keeps`). With a store that loses its memory at a restart the second property says
nothing, as in the code. `Later` collects what no step may do to what is
remembered, and `RememberedStays` draws the conclusion once for all steps.

`LaptopBridge_proofs` shows, for queues, batches and memories of any size, any
number of flushes at once and any of the adapters, type correctness
(`DeliveryTypeCorrect`), `SurvivesMaxQueue` (`QueueHoldsTheNewest`), `RecordedOnce`
(`NeverRecordedTwice`), `RetriesWhileStarted` (`RetriesGoOn`), and that
`LaptopBridge` implements `EventLog` (`NothingIsLost`). Assumptions: queue, batch and
memory are at least one, the other bounds are natural numbers, and the adapters
are the three there are. The refused events are any set.

The argument. The runtime and the delivery meet in one operator, `Emit`, so
`IndInv` falls into `RuntimeInv` and `DeliveryInv`, and `RuntimeOnlyEmits` is all the
second needs to know of the first. `RecordedOnce` needs `MemoryIsSound`: what was
logged less than `DedupTtl` ago is remembered until then. The refinement needs
`Accounted` (every event is queued, recorded, refused or dropped), from which a
new batch, being the front of the queue, has no gap (`BatchesHaveNoGap`, kept by
everything that happens to the batch afterwards), so that a late request cannot
log an event before an earlier one that is to come; and `AnswersAreSound`, so that
`Acknowledge` lets go only of what was settled. The bound on the queue goes
through `NewestAreFew`, which numbers the events that are kept by how many are
newer, and `ShiftedAreOld`.

`GlassesController_proofs` shows, for any number of methods that run at one time,
`TypeOK` (`GlassesTypeCorrect`), `WorkIsUnderWay` (`PromisesHaveMethods`) and
`RepairForgets` (`RepairIsFinal`). Assumptions: the bounds on tokens, prompts and
methods are natural numbers, and `NoCall` is no method. The argument: a method
keeps what its record says it is until it ends (`SameWork`), and whatever ends
it, an abort included, leaves a status that promises nothing (`Settled`); the
controller names a prompt that runs and has not been aborted
(`ControllerPrompts`). A registration can come back only from storage, from the
snapshot or from a method that waits with one (`Brings`), and the steps that
forget one end all of these.

`MobileCompanion_proofs` shows, for any number of handlers and sockets, `TypeOK`
(`CompanionTypeCorrect`), `PendingIsAsked` of the session (`PromptsAreResumed`),
`StoredTokenWorks` (`StorageKeepsUp`), `SignedOutStaysOut` (`ForgottenForGood`) and
`KeepsTrying` (`PhoneKeepsTrying`). Assumptions: the bounds are natural numbers, and
`NoSocket` is no socket. `StoredTokenWorks` is the hard one: the handlers share
a registration and no lock, and one that saves late could put back a token that
another has rotated. `CarriedIsNewest` says why none does: while a token is on
its way to storage the access token that came with it is fresh, so that nobody
starts to refresh, and no request under way presents it. `KeepsTrying` needs what
each step owes (`Owes`): a handler that made the app busy, or showed the screen
without buttons, does not end before it has undone that; and that a timer which
is set has a ticket (`SocketsSound`). `StartsAlone` is needed for the start of the
app, which no handler may overtake. `PendingIsAsked` needs that the socket that is
being opened was told of the prompt (`PendingWillBeAsked`) and that prompts are
new to the bridge when they are sent (`PromptsAreNew`).

Model-checked only: liveness (`ExpiredTokenSwept`, `EveryTransactionEnds`,
`RequestsEnd`, `Delivered`), since liveness under fairness and ENABLED are out of the
prover's reach. Every invariant and action property of the passing runs is a
theorem.

## Plan

Done: the auth service over both stores, with the device lifecycle as abstract
specification; the relay; the laptop's delivery with its abstract specification;
the phone; the glasses; proofs about all of them.

Left: how much of `DeviceLifecycle` the Postgres store keeps. One code can pair two
devices there when requests overlap (`CredentialsAreSingleUse`), and the row of a
revoked device can come back (`RevocationHolds`); the family's part of the lifecycle
holds (`RevokedTogether`).

## Not modelled

* *Rate limiter*: one map of timestamps, read and written by one synchronous
  call. A unit test reaches everything it does.
* *OpenClaw client*: `Relay` has a completion as one step that arrives or fails. Its
  attempts and timeouts change when and why that happens, and nothing else.
* *Health, readiness and the legacy turn route, connection events, the
  `token.expiring` notice*: they change no state that anything reads.
* *User interface and rendering, scanning for the glasses and their messages on
  the phone, input validation and protocol types, command line, deployment and
  audit scripts.*
* *Migrations*: they run once, before the server listens; see the hazard at
  `postgres-store.ts:513`.
