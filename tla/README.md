# Verification of termexo-relay

A TLA+ model of the relay in `src/src/`: its routing table and tunnel tasks, the feed of changes to
an upstream relay, relays joined into a chain, the supervisor of the upstream link, the tasks inside
one tunnel, a browser's request on its way to a device, enrollment and revocation, console sessions,
and what crashes and restarts leave in the data directory.  TLC checks every module on small
instances.  TLAPS proves every safety property that they check but one, and that the routing table
implements its abstract specification, for every value of the constants.

Run a configuration with `tlc -config X.cfg M`, check proofs with `tlapm RegistryProofs.tla`.
`PROJECT.json` lists components, runs, the source lines every definition stands for, hazards,
findings and theorems.

## 1. The system

A relay gives devices behind NAT a public address.  A device dials out, keeps one WebSocket open
(the tunnel), and the relay opens multiplexed streams back to it for every HTTP request that
arrives for the device.  A relay can itself be a client of another relay: it then announces its
devices upward, and streams reach them through both.  An operator manages users, devices and
enrollment codes in a web console served by the same process.

The process is one tokio runtime with many tasks.  Shared state is

| State | Guard | Written by |
|---|---|---|
| routing table (`registry.rs`) | one mutex, never held across an await | every tunnel task |
| sequence counter | atomic, taken *before* the mutex | every tunnel task |
| change broadcast | bounded channel (256), sent to *after* the mutex is released | every tunnel task |
| upstream reach and status | one `RwLock`/mutex each | the supervisor, console requests |
| the running upstream link | async mutex, held while the old supervisor ends | console requests |
| channels of one tunnel (`tunnel/*`) | bounded queues (64 commands, 64 requests, frames), one watch | its reader, writer and driver, every caller |
| SQLite | one connection, mutex taken per call, no transaction spans two calls | every request |
| data directory | none | every process started on it |

The recurring hazard is in the last column of that table: an operation of several critical sections
or several statements, with other tasks in between.

### Components

| Component | State | Operations | Talks to | What makes it correct |
|---|---|---|---|---|
| routing table, `registry.rs` | entries, relay_links, withdrawn, sequence | connect, disconnect, announce_device, apply_announcement, withdraw_device, publish | tunnel tasks; subscribers | the newest tunnel of a device is the one in the table; nothing is routed through a tunnel or a link that is gone; every change of reachability is published |
| tunnel handshake, `tunnel/*` | handshake progress, registration, frame being handled | authenticate, accept_hello, run, handle_control_frame | table, database, peer | displaced tunnels are closed, and only those |
| tunnel tasks, `tunnel/session.rs`, `handle.rs` | four bounded channels, requests for streams, the shutdown watch | open_stream, send_frame, close, read_frames, write_frames, drive_multiplexer, the teardown | the socket, callers of streams, table | whichever task ends first, all end and the device leaves the table; every request for a stream is answered, and one that timed out leaves nothing behind |
| upstream session, `upstream/session.rs` | subscription, socket | connect, await_welcome, refuse_loop, adopt, pump, withdraw | table (subscriber), upstream's tunnel task | the upstream's view converges to the table, through lag and lost sessions |
| chain of relays, `upstream/forward.rs`, `addresses.rs`, `proxy.rs` | chain, hops of a stream | extend, serve, carry, open_stream | the relays above and below | routes are simple paths and fit the hop budget; settled tables agree, and a stream opened in them arrives |
| supervisor, `upstream/mod.rs` | running link, reach, status, stored settings | connect, disconnect, start, stop, supervise, forget, resume, publish_addresses | database, session, attached devices | a replaced supervisor is cancelled and ends; a stopped link leaves nothing behind; no request hangs |
| enrollment, `api/enroll*.rs`, `api/devices.rs`, `api/users.rs`, `db/*` | codes, device rows, user rows | create, cancel, enroll, revoke, disable, delete | table (close the tunnel) | a code grants one device; a revoked device is closed; a removed owner's devices are revoked |
| console sessions, `auth/session.rs`, `api/sessions.rs`, `access.rs` | session rows | login, resolve, slide, logout, password change and reset | database | an ended session stays ended; the idle limit holds; a password change ends what was signed in |
| device proxy, `server.rs`, `access.rs`, `proxy.rs`, `address.rs`, `forwarded.rs` | the request, the pool of idle connections | route_device_host, dispatch, guard, forward, bridge_websocket, TunnelConnector::call, prepare_request_headers | table, database, tunnels | nobody gets past a policy that did not admit them; "offline" is true; the address that is advertised leads to the device; the session cookie stays here |
| start-up, `main.rs`, `server.rs`, `bootstrap.rs`, `tls.rs`, `paths.rs`, `db/mod.rs` | the data directory, the port | serve, link, admin reset-password, shut_down_on | database, file system, supervisor | identity and certificate survive every crash; the operator knows the password; secrets are not readable by others; the relay comes back |
| lockout, audit, pinning, views, web console | - | - | - | not modelled, see section 7 |

## 2. Modules

| Module | Models | Source |
|---|---|---|
| `Registry` | the table and the tunnel tasks that write it | `registry.rs`, `tunnel/session.rs` |
| `ChangeSource` | abstract: what the table promises a subscriber | `registry.rs` |
| `ChangeFeed` | `ChangeSource` with the broadcast channel, the pump, the socket, and the upstream's tunnel tasks and table | `registry.rs`, `upstream/session.rs`, `tunnel/session.rs` |
| `RelayChain` | several relays: handshakes, announcements up, streams down | `upstream/session.rs`, `forward.rs`, `addresses.rs`, `proxy.rs` |
| `UpstreamLink` | supervisor, console requests and what becomes of them when they are dropped, stored settings, restarts | `upstream/mod.rs`, `settings.rs`, `api/relays.rs` |
| `TunnelSession` | reader, writer, driver, channels and callers of one live tunnel | `tunnel/session.rs`, `tunnel/handle.rs` |
| `DeviceAddress` | addresses and headers as operators: both address forms, hop-by-hop headers, cookies, forwarding | `address.rs`, `config.rs`, `proxy.rs`, `forwarded.rs` |
| `DeviceProxy` | `DeviceAddress` with one request (or one stream of the upstream) and everything that changes under it | `server.rs`, `access.rs`, `proxy.rs`, `api/devices.rs` |
| `Startup` | processes that share a data directory, each a sequence of writes, with crashes | `main.rs`, `server.rs`, `bootstrap.rs`, `tls.rs`, `paths.rs`, `db/mod.rs` |
| `Enrollment` | codes, rows, tunnels and the console's removals, restarts | `api/*.rs`, `db/*.rs`, `tunnel/mod.rs` |
| `ConsoleSession` | accounts and sessions with a clock, restarts | `auth/session.rs`, `api/sessions.rs`, `db/sessions.rs` |
| `RegistryProofs`, `RelayChainProofs`, `TunnelSessionProofs`, `DeviceProxyProofs`, `StartupProofs`, `EnrollmentProofs`, `ConsoleSessionProofs` | the theorems about the module in the name | |
| `UpstreamProofs` | the theorems about `UpstreamLink` and `ChangeFeed` | |
| `MC*` | constants for TLC | |

`ChangeSource` is the seam: `Registry` is checked and proved to implement it (refinement mapping
`online <- announcement_of(d, entries[d])`, the chain a device is announced over, and
`unsent <- out`), and `ChangeFeed` extends it.  What is shown
of the feed therefore holds of any table that keeps the promise, the real one included.
`DeviceProxy` extends `DeviceAddress`, the pure part of the request path, and takes of `Registry`,
`ConsoleSession` and `TunnelSession` what a request sees of them: a table entry, a live session, a
socket that works.

### How the code becomes actions

**Registry.**  Each lock-to-unlock section is one action (`Connect`, `DisconnectListed`,
`DisconnectSuperseded`, `InstallAnnounced`, `KeepExisting`, `WithdrawOwned`, `WithdrawForeign`).  What
the code does outside the lock is an action of its own, since other tasks run in between:
`TakeSerial` and `TakeTicket` (the atomic counter), `CloseDisplaced`, `Publish`.  `ReceiveAnnounce`
splits a snapshot into one pending announcement per device plus the leftovers to withdraw, as
`apply_announcement` does.  A slot of `Sessions` is used by one tunnel after another of its device,
so two slots of a device are two tunnels that may overlap.  `told` and `claims` are history: which
handles were told to close, and what the peer last said.

**ChangeFeed.**  `FeedPublish` is `changes.send()`: dropped without a receiver, and pushing the
oldest change out at capacity.  `RecvLagged` answers with a fresh snapshot, as `pump` does.  A change
carries the chain that was computed under the lock; only a snapshot reads the table again, and both
leave out a chain that runs through the upstream (`is_routable_for`).  `handle_frame` is what the
upstream's registry makes of a frame: `installs` is `is_announcement_routable()` with `replaces()`, and
a device that a snapshot offers and that is refused is withdrawn as a leftover.  Each end of a session
ends on its own: `LinkDown` first here, `UpstreamDisconnect` first there.  A session that registers
before the former one has cleaned up displaces it (`Subscribe`), and what the displaced one had
received it may still apply (`StrayApply`).  `refused`, `strayed` and `lost` are history: whose last
announcement was not installed, whether a displaced session has applied something since the last
snapshot, and whether a change was ever lost or a session displaced.

Simplified here: the upstream's `connect()` and the `subscribe()` of this end are one step; a frame is
applied in one step, which `Registry` takes apart; the upstream has no other route of the device.

**RelayChain.**  `Welcome` is the upstream's half of the handshake, with the chain of that moment;
`Adopt` or `RefuseLoop` the downstream's.  `LinkDown` is the end of a session at the lower end.  The
upstream's half of it lives on in `ending` with the frames it has not read: it may read them
(`DeliverLate`), also after the relay has joined again and displaced it, until it ends (`EndSession`),
which cleans up only if it was not displaced.  `Deliver` applies one frame and announces the result
further up in the same step: `Registry` and `ChangeFeed` cover what lies between.  `Forward` is one
hop of a stream, `extend` included.  `strayed` and `steady` are history: on which links a displaced
session had the last word, and whether the tables had settled when the stream was opened and have not
changed since.  That the upstream notices a lost session before the relay below does is left to `ChangeFeed`.

**UpstreamLink.**  A supervisor is identified by its credential.  Every write to shared state between
two awaits is a step; a supervisor can be cancelled only where it awaits, and `Awaits` expresses that
the select is biased towards the token.  `Acquire` takes the link out of `running` and cancels it, as
`stop_running()` does before it awaits the task.  The wait may end before the task: `GiveUpWaiting` is
`SHUTDOWN_WAIT`, `DroppedWaiting` the handler's future being dropped because the client went away,
`DroppedInLine` the same while it queues for the lock.  `detached` is history: the supervisors that
nobody waited for, until a later `stop()` finds them ended.  `ForgetSettings` and `ClearSettings` may
fail to clear.  `publish_addresses()` is not modelled, see sections 4 and 7.

**Enrollment.**  Each statement is a step: look-up, insert, burn, revoke.  `Register` stands for
`connect()` with the close of the displaced tunnel, which `Registry` takes apart.  `late` marks a
tunnel that registered after its row was revoked, `excused` a device inserted while its owner was
being removed or was already disabled, or cut off by a restart.

**ConsoleSession.**  Time is a counter.  A request reads the clock once, when it resolves the cookie,
and writes the deadline computed from it later (`Extend`), so deadlines of concurrent requests cross.
`MaxLatency` bounds how long a request takes.

**TunnelSession.**  It begins where `Registry`'s tunnel has registered.  A task is at an await or
between two; a queue of payloads is its length, the queue of commands keeps their order.
`Abandoned` is the oneshot receiver that a timeout drops: the request stays queued with nobody to
answer.  `DriverEnds` may happen at any time, since yamux reports any error that way.  `peer` is the
socket: it takes what is written, is stalled, or has failed.

**DeviceProxy.**  `forward()` is taken apart at every read of shared state: `FindDevice` (the row),
`Admit` (the session), `CheckOnline`, `TakeRoute`, `OpenStream`, `Exchange`.  hyper's pool is the set
of tunnels that carry an idle connection of a device.  `Follow` is the browser following a redirect,
so a request is watched over all its hops.  `seen` and `wasDown` are history: what admitted the
request, and whether the device was out of reach, at some moment since it arrived; `asked` is the
request the browser sent first.  A host is the sequence of its labels, a path the sequence between its
slashes, a header map a function from names to their fields.  A request over HTTP/2 has no Host field,
which is all that `host_header()` looks at.

**Startup.**  A process is a command and a program counter; every write to the directory is a step
and a crash may come before each.  `fs::write` of the key is two steps (the file is created, then
filled).  `restrict_to_owner()` may fail, which the code warns about and goes on: the mode is then
"stuck".  Identifiers, passwords and certificates are numbered in the order they are generated, and
`served`, `shown` and `cut` are history: what others have met, what was printed, and whether a crash
came between storing a password and printing it.

## 3. Runs

| Run | Expect | Question and bounds |
|---|---|---|
| `registry` | pass | Do the serial guards keep table, indexes and live tunnels in step?  One downstream link announcing a device that also connects here itself over two overlapping tunnels; chains that are near, longer, and coming back through this relay; 4 sequence numbers, so that a reconnect, a displaced tunnel and an announcement each get one.  The refinement of `ChangeSource` is checked here. |
| `registry_ghost` | violation | The same for a link whose own tunnels overlap, see finding 1. |
| `feed` | pass | Does the upstream converge?  Two devices and three chains: this relay's own, a longer one, and one that runs through the upstream; one writing task; a buffer of 1 and 4 updates, so that lag happens and hides that a device went and came back over a longer chain; one lost session, noticed first by either end. |
| `chain` | pass | Routes and streams in a changing chain.  4 relays and a budget of 3 hops, so a chain exceeds the budget and a circle of any length up to 4 forms; 5 joins and losses together, so a relay leaves and joins elsewhere, or again before its old session has ended; the device attaches and detaches.  The relays other than the device's own are interchangeable. |
| `enroll` | pass | Two redemptions of one code against cancel, expiry, removal of the owner and one restart, and one operator who revokes or disconnects a device with two tunnel slots, so that a reconnect overlaps the revocation.  `TwoAtOnce` keeps at most two enrollment requests and tunnels under way at a time: every race above is between two. |
| `link` | pass | Two console requests at once, two credentials, so that a link is replaced while its session is anywhere; one request that is dropped, or stops waiting, before the task has ended; a restart; clearing the settings may fail.  Liveness: a cancelled supervisor ends, and every request is answered. |
| `link_reach` | violation | Does replacing a link withdraw its addresses, see finding 2. |
| `session` | pass | One account, two tokens, two requests, a lifetime of 3 and a threshold of 1 over 4 ticks, so that a deadline slides and a slid deadline passes; one password change, one restart. |
| `tunnel` | pass | Does a tunnel end as a whole, and is every request for a stream answered?  A caller that asks again and again, commands and requests queued two deep and frames one deep, so that every queue fills and a close is dropped; one stream at a time; up to four requests in the queues, abandoned ones included. |
| `proxy` | pass | Does every request go where it should, past the guard it should, with the headers it should?  A device with a row and an announced one, its owner and an administrator, two tunnels; with and without device subdomains; requests of every shape in `MCRequests` (both address forms, a missing slash, empty segments, HTTP/1.1 and HTTP/2, an upgrade, the session in each of the Cookie fields, a first field that is not text, a browser that claims a forwarding header, well formed or not, and lists the relay's own as hop-by-hop, hosts that are almost a device's). |
| `proxy_policy` | violation | Is a policy enforced on a stream from the upstream, see finding 3. |
| `startup` | pass | The service and an operator's process on one directory, two crashes and two commands, from a fresh directory or an old one, with and without TLS, on a file system that may refuse to narrow a mode.  Two crashes are enough for a crash in the repair of a crash; liveness: the relay serves again. |

`CHECK_DEADLOCK FALSE` everywhere but in `startup`: a relay nobody connects to rests, and the bounds
end every behaviour.  `startup` checks for deadlock, since the service manager always has a next step.
Except for `TwoAtOnce`, no bound is a state constraint; each is a conjunct of the guard of the action
it limits: `MaxSequence` (serials), `MaxUpdates`, `MaxDrops`, `WireCapacity`, `WireBound` (frames in
flight), `MaxMoves` (joins and losses), `MaxToggles`, `MaxAbandoned`, `MaxRestarts`, `MaxTime`,
`MaxLatency`, `MaxChanges` (passwords), `MaxRequests` (queued requests), `MaxTunnel`, `MaxCrashes`,
`MaxCommands`.  `CHANGE_CAPACITY` is 256 and `SESSION_LIFETIME` seven days
in the code; the models use the smallest values with the same case distinctions.

### What the properties say

* `registry`: `DirectHasTunnel` (no entry survives its tunnel), `EvictedOnlyByNewer` and
  `ClosedIsSuperseded` (a reconnect only ever removes and closes the older tunnel),
  `RelayLinksRegistered`, `AnnouncedThroughLiveLink` and `RoutedIsClaimed` (a route through a link
  needs the link and its word), `WithdrawnIsOffline` and `WithdrawnWhileLinkUp` (what the offline page
  is drawn from), `ImplementsChangeSource` (no change is lost or invented).  `registry_ghost`:
  `AnnouncedLinkRegistered`.
* `feed`: `FeedInv` (once everything has arrived, the upstream routes a device over the chain it has
  here, or has refused that chain), `RefusedIsUnrouted` (what that leaves, and when it can be) and
  `EventuallyAgrees` (the last update arrives).  All three leave out what a displaced session of the
  upstream does after the registered one's last snapshot: finding 1.
* `chain`: `RouteInv`, `SettledRoutesAgree` (settled tables fit together along the chain) and
  `SettledStreamsArrive` (a stream opened in settled tables, and under which nothing changes, reaches
  the device whatever way the relays are joined).
* `enroll`: `CodeInv` (a code makes one device), `LoserRevoked` (the row of a request that lost the
  race is revoked), `RemovedOwnerRevoked` (removing an account revokes its devices) and
  `RevokedIsClosed` (revoking sends a close to every tunnel registered before).
* `link`: `SupervisorInv` (of two supervisors that are alive one is cancelled and was not waited for;
  a `stop()` that finds its task ended leaves nothing behind), `CancelledEnds` (the cancelled one ends,
  whether or not anyone waits) and `RequestsAnswered`.  `link_reach`: `ReachIsLive`.
* `session`: `SessionInv`, `IdleLimit` (a deadline is close to the last use) and `ChangeEndsSessions`
  (a password change ends what was signed in).
* `tunnel`: `RequestInv`, `OpensAreAnswered` (`open_stream()` returns), `OneEndsAll` (any task that
  ends takes the device out of the table) and `CloseEndsTunnel`.
* `proxy`: `RoutingInv` (a request reaches what its URL names, if the relay is told the host),
  `GuardedRequests` (nobody passes a policy that never allowed it), `OfflineIsTrue` (who is told that a
  device is offline, and in which two cases it may be running all the same), `SessionStaysHere` (the
  console's cookie crosses no tunnel if the first Cookie field is text) and `ToldByRelay` (forwarding
  headers are the relay's own).  `proxy_policy`: `GuardedStreams`.
* `startup`: `IdentityInv`, `AdminKnown` (somebody was shown a password), `SecretsUnreadable` (no
  moment at which others can read, unless the operator was warned) and `Recovers`.

### Invariants of several parts

A module's type invariant is checked as one conjunct of the invariant named for its idea, and the
parts keep their own names and comments:

| Invariant | Module | Parts |
|---|---|---|
| `FeedInv` | `ChangeFeed` | `FeedTypeOK`, `UpstreamAgrees` |
| `RouteInv` | `RelayChain` | `TypeOK`, `RoutesAreSimplePaths`, `RoutesFitBudget` |
| `CodeInv` | `Enrollment` | `TypeOK`, `OneDevicePerCode` |
| `SupervisorInv` | `UpstreamLink` | `TypeOK`, `OneSupervisor`, `StoppedIsClean` |
| `SessionInv` | `ConsoleSession` | `TypeOK`, `EndedStaysEnded` |
| `RequestInv` | `TunnelSession` | `TypeOK`, `StreamsHaveCallers`, `OneRequestPerCaller` |
| `RoutingInv` | `DeviceProxy` | `TypeOK`, `RoutedAsMeant`, `AdvertisedIsRouted`, `RedirectsEnd` |
| `IdentityInv` | `Startup` | `TypeOK`, `RelayIdStable`, `CertificateStable` |

### Fairness

* `ChangeFeed`: weak fairness of every publishing task, of the pump and of the upstream's reader, none
  of a displaced session.  These are runnable tasks on the tokio executor; the supervisor restarts a lost session for ever.
  No update and no loss is forced; losses are bounded by `MaxDrops`, since nothing converges over a
  link that keeps failing.
* `UpstreamLink`: weak fairness of the supervisor's own steps, strong fairness of a request that has
  begun, because tokio's mutex is a queue and the HTTP client that asks for the credential has a
  timeout (`ENROLL_TIMEOUT`).  Nothing makes the upstream answer, the back-off end or a request come, or
  go away.
* `TunnelSession`: weak fairness of the tasks, and strong fairness where a branch competes with
  endless traffic: `tokio::select!` polls its branches in random order and the channels queue those
  who wait, so a branch that is ready again and again is taken.  `Network` is the one assumption
  about the outside: a stalled socket becomes writable or fails (the kernel's own timeout).  Nothing
  makes the multiplexer open a stream, a frame arrive or a caller ask.
* `Startup`: weak fairness of a running process and of the service manager, which starts the relay again (`restart: unless-stopped` and `Restart=on-failure` in the repository's
  README).  No command and no stop is forced; crashes are bounded by `MaxCrashes`.

The other modules claim no liveness.

### Mutants

Every property of a passing run has a mutant in `PROJECT.json`: a definition changed the way a bug
would change it (a dropped serial check, an index that is not cleaned, an announcement limit that is
off by one, a cancelled task that is not waited for, headers set before others are stripped, a
directory that is only narrowed when it is new).  TLC finds the property violated.

## 4. Where the code departs from what it says

Each is a violation run whose trace is a short schedule of the tasks above.

1. **A route through a link that is gone** (`registry_ghost`, `registry.rs:372`).  A displaced
   session of a downstream link is still reading when the newer session of the link disconnects.
   `announce_device()` installs what it reads without looking whether its link is registered, and
   its own `disconnect()` does not match the serial and leaves the route behind.
2. **Addresses of a link that is down** (`link_reach`, `upstream/mod.rs:135`).  `start()` cancels the
   old session, which does not run `withdraw()`, and does not clear the reach itself.
3. **A policy that ends at the upstream** (`proxy_policy`, `upstream/forward.rs:57`).  `guard()` passes
   a device without a row because the relay it is enrolled with "enforces it on its own hop"
   (`access.rs:32`).  That hop is `carry()`, which joins the streams without looking at the row.

Further exposures met while modelling, which the properties leave out and no run is about.

Of the table, the feed and the chain:

* Changes are published after the lock is released (`registry.rs:264`).  Two tasks that update one
  device can publish the other way round, and the upstream keeps the older state until the next
  change or snapshot, which is more than the "one redundant `device-online`" of `upstream/session.rs:284`.
  `feed` has one writing task; with two, `UpstreamAgrees` fails.  `UpstreamTableAgrees` (section 5)
  says what it takes with any number of them: that no two have a change of one device to publish.
* `refuse_loop()` sees the chain of the welcome (`upstream/session.rs:149`).  Two relays that join
  each other at the same time both see an empty chain and both join.  The properties of `chain` hold
  all the same, and the run contains those circles: `is_announcement_routable()` and `extend()` catch
  what the handshake lets through.
* "Falling behind is recovered from with a fresh snapshot" (`upstream/session.rs:311`), but the snapshot
  may offer a device over a *longer* chain than the upstream has: it went and came back, and both
  changes were lost.  `replaces()` refuses it, the leftovers loop withdraws it (`registry.rs:337-343`,
  `372-376`), and a reachable device is offline above until its next change.  A session that displaces
  one that has not cleaned up meets the same with its first snapshot.  The comment on
  `announce_device()` knows of two reasons for a refusal only (`registry.rs:348`); `RefusedIsUnrouted`
  says when there are more.
* A device whose chain changes to one through the upstream is not announced there, and the upstream
  keeps the route it had (`upstream/session.rs:428`): `AgreesOn` says nothing of it, and in `chain`
  settled tables show that it does not last.
* A displaced session that applies a frame after the newer one's last snapshot brings back what that
  snapshot took away, also at the upstream: `strayed` marks it in `ChangeFeed` and in `RelayChain`.

Of enrollment, sessions and the link:

* The row of a device is read when the WebSocket is upgraded and not again when the tunnel registers
  (`tunnel/session.rs:96`): a tunnel authenticated just before a revocation and registered just after
  it stays up; `late` marks it.
* A password enrollment that read the account before it was disabled inserts its device after
  `revoke_devices_of()` has read the list (`api/users.rs:156`); `excused` marks it.
* `forget()` and `disconnect()` clear the stored settings without checking whose they are, so the
  settings a join has just stored can be lost while its link runs (`upstream/mod.rs:437`).  If clearing
  fails, `forget()` only logs it, and the next start dials with the revoked credential.
* A console request whose client goes away is dropped where it awaits (`api/relays.rs:90`, `100`).
  Inside `stop_running()` the link has been taken out and cancelled, and nothing else happens: no link
  runs, the reach and the status stay as they were, and the next `start()` does not wait for the old
  task (`upstream/mod.rs:204-208`).  A join dropped there, or in line for the lock, has stored its
  settings and not started its link.  `SHUTDOWN_WAIT` running out has the first of these effects as
  well.
* `publish_addresses()` reads the list and sends it without a lock (`upstream/mod.rs:371`): of two
  publishers the one that read first may send last; `send_frame()` drops it at a full queue
  (`tunnel/handle.rs:117`); and a tunnel that has been sent its welcome and is not registered yet is
  passed over (`tunnel/session.rs:199`).
* A login that verified the old password inserts its session after a change has dropped the
  account's sessions (`api/sessions.rs:70`).

Of one tunnel:

* A peer that acknowledges and never reads keeps the writer in `sink.send()`, the teardown in
  `writer.await` and the device in the table (`tunnel/session.rs:136`); `Network` excludes it.
* `close()` is dropped at a full queue, and the notice and the close of `revoke_tunnel()` are two
  commands of which only the first may fit.
* At `MAX_CONCURRENT_STREAMS` yamux may answer with an error, which ends the driver and with it the
  whole tunnel (`tunnel/session.rs:394`), where `handle.rs` speaks of a timeout.
* Requests that timed out gather in the driver's `pending`, which has no bound of its own.

Of the proxy:

* `take_console_session()` reads the first Cookie field and replaces all of them: over HTTP/2, where a
  browser may split its cookies, a device loses the others although "Other cookies are left alone";
  if the first field is not text, nothing is taken out of any, and a session in another one crosses.
* `host_header()` reads the Host header only (`server.rs:202-207`).  "A browser on a TLS relay talks
  HTTP/2" (`proxy.rs:153`), and there the host is the authority of the URI: such a request on a
  device's own subdomain, the address that is advertised for it, is not routed to the device.
  `HostIsTold` leaves it out, and `MCRequests` contains it.
* The rest of a path is said never to start with a slash (`proxy.rs:99`, `address.rs:35`); for
  `/d/x//ws` it does, and `Names` takes the URL at its word.
* A route that was taken to a tunnel which a healthy newer one then displaces, or a working tunnel that
  does not open a stream in time, is answered as offline (`proxy.rs:165-167`, `223-227`), although
  "calling that 'offline' would send the user to check a computer that is running fine".
* A bridged WebSocket outlives a change of policy and a sign-out.

Of start-up:

* A crash, or a full disk, between creating `key.pem` and filling it: both files can be read, so no
  start generates new ones, and none can load them until `tls/` is deleted.
* `read().ok()?` takes any failure to read for absence and generates a new certificate.
* Two first starts at the same moment read no relay id and both write one (`read_or_initialize_setting`
  reads, then upserts); so may their certificate and key interleave.  The model starts one `serve`
  at a time.
* A crash between storing a password and printing it leaves an account nobody can enter before
  `admin reset-password`; `cut` marks it.
* The stored upstream is dialled before the port is bound: a second `serve` started by mistake takes
  the running relay's tunnel until it exits.
* `restrict_to_owner()` that fails is warned about and the start goes on; "stuck" marks it.
* `admin reset-password` narrows the database file and not its directory.

## 5. Proofs

What TLC shows of one instance, these theorems state for all: any devices, relays, requests,
processes and bounds.  `UpstreamProofs` is about two modules, every other `XProofs` about `X`.

| Module | Theorem | States that always holds |
|---|---|---|
| `RegistryProofs` | `TypeCorrect` | `TypeOK` |
| | `DirectEntriesAreLive` | `DirectHasTunnel` |
| | `NewestTunnelStays` | `EvictedOnlyByNewer` |
| | `OnlySupersededClosed` | `ClosedIsSuperseded` |
| | `HopsAreRegistered` | `RelayLinksRegistered` |
| | `WithdrawnAreOffline` | `WithdrawnIsOffline` |
| | `LinkRoutesAreLive` | `AnnouncedThroughLiveLink`, if `LinksSequential` |
| | `WithdrawnGoWithLink` | `WithdrawnWhileLinkUp`, if `LinksSequential` |
| | `RoutesAreClaimed` | `RoutedIsClaimed`, if `LinksSequential` |
| | `RegistryRefinesChangeSource` | `Spec => ImplementsChangeSource` |
| `UpstreamProofs` | `UpstreamTableAgrees` | `FeedInv`, if always `NobodyOvertakes` |
| | `OneWriterAgrees` | `FeedInv`, if there is one publishing task |
| | `OneLinkAtATime` | `SupervisorInv` |
| `RelayChainProofs` | `RoutesAreWellFormed` | `RouteInv` |
| | `SettledTablesAgree` | `SettledRoutesAgree` |
| | `SettledStreamsReachDevice` | `SettledStreamsArrive` |
| `EnrollmentProofs` | `CodesAreOneTime` | `CodeInv` |
| | `LosersAreRevoked` | `LoserRevoked` |
| | `RemovalRevokesDevices` | `RemovedOwnerRevoked` |
| | `RevocationClosesTunnels` | `RevokedIsClosed` |
| `ConsoleSessionProofs` | `EndedSessionsStayEnded` | `SessionInv` |
| | `DeadlineFollowsUse` | `IdleLimit` |
| | `ChangeEndsEverySession` | `ChangeEndsSessions` |
| `TunnelSessionProofs` | `RequestsHaveCallers` | `RequestInv` |
| `DeviceProxyProofs` | `PolicyCoversRequests` | `GuardedRequests` |
| | `OfflineMeansDown` | `Spec => OfflineIsTrue`, about every step |
| | `RelaySpeaksForBrowser` | `ToldByRelay` |
| | `RequestsKeepTarget` | `RoutingInv` |
| | `SessionNeverCrosses` | `SessionStaysHere` |
| `StartupProofs` | `OneIdentity` | `IdentityInv` |
| | `OperatorKnowsPassword` | `AdminKnown` |
| | `SecretsStayPrivate` | `SecretsUnreadable` |

### Assumptions

* Each module's own `ASSUME`, which TLC evaluates on every run: sets of ids are disjoint where the
  program could not confuse their members, the value for "none" is not one of the values, bounds and
  capacities are numbers.  Three say more.  `ConsoleSession`: a request takes no longer than
  `SESSION_RENEWAL_THRESHOLD`, an hour in the code.  `Startup`: a torn file (`Torn`) is no certificate.
  `DeviceProxy` (`AddressAssumption`): the host of `--public-url` is not a well-formed device id under
  `--subdomain-base`, which the code takes from the operator as it is; and a Host header, where there is
  one, is the host of the URL.
* `LinksSequential` (three theorems of `Registry`): a link's next session begins after the last one
  has cleaned up.  The code does not see to it, and finding 1 is what happens without.
* `NobodyOvertakes` (`UpstreamTableAgrees`): no two tasks have a change of one device to publish at
  the same time.  The code does not see to this either, since it publishes after the lock is
  released: the theorem says what exactly the feed depends on, and section 4 what happens without.

### Inductive invariants

A property that says what a reader cares about is seldom kept by every step for that reason alone.
Each module's strengthening was given to TLC as an invariant before it was proved.

* **Registry**, in three layers.  `TunnelInv` is inductive by itself: that a clean-up does not evict a
  newer tunnel needs that no two live tunnels share a serial and that every serial in use is below
  the counter (`SerialsInv`), and that a serial taken but not yet registered is not already among
  those displaced or told to close (`TicketFreshInv`); `FramesInv` says that only links announce and
  only desktops are announced, so a control frame cannot touch a direct entry of a link.  `TableInv`
  (the two indexes) is inductive relative to it.  So is `LinkInv` while `LinksSequential` holds; the
  heart of it is that a device routed through a link is claimed by the peer or among the leftovers
  still to be withdrawn, at every step of a snapshot that is applied one lock at a time.
* **Registry implements ChangeSource**: `OutInv`, a task enters a critical section only with nothing
  left to publish.  Then every section is one `Update`:
  the changes it hands over are exactly the devices whose reachability it changed, with their new
  state.
* **ChangeFeed**: the *last* word on a device is what the table says, at each stage unless a later one
  is still to come: among the changes to publish (`CurrentInv`), in the receiver's buffer
  (`QueueInv`), and in what is held and on the wire (`BeliefInv`).  The last is a statement about where
  the frames that are on their way will leave the upstream, with what it refuses: `EndsWith` follows
  the last frame that names the device, a snapshot among them forgiving what a displaced session did
  before.  A receiver that has lagged lost only the oldest changes, and owes a snapshot before
  `BeliefInv` says anything again.
* **UpstreamLink**: the request inside `start()` or `stop()` is the one that holds the lock, with
  `running` empty (`LockInv`); a task that has not returned is the one in `running`, or the one a
  request waits for, or is detached and cancelled (`RunningInv`); and without a link and without
  detached tasks there is nothing to hand out (`CleanInv`).
* **RelayChain**: what a route needs is already true of every announcement on the wire and with every
  session that is ending (`WireInv`, `EndingInv`: it begins with its sender and repeats nobody) and of
  every table (`TableInv`).  `SettledRoutesAgree` relates neighbouring tables, by `ToldInv`: on a link,
  no announced path is longer than the one before it unless that was withdrawn, so the upstream
  refuses none that replaces its own entry; and the last one is the relay's own route, or the relay
  has since turned to one that is no longer but runs through the upstream, which it does not announce.
  `HeldInv` keeps every route on a session: one that is up, one that is ending and still registered,
  or a displaced one that had the last word.  In a settled chain the exception of `ToldInv` cannot be:
  take, among all routes that run through a relay with a longer route, a shortest; its next hop has a
  shorter one that does the same.  `SettledStreamsArrive` follows with `SteadyInv`: a stream that was
  opened in settled tables has crossed a prefix of its first relay's route, and the entry of the relay
  it is at is the rest of it.
* **Enrollment**: between the insert and the answer a request has a device that nobody else has and
  whose credential has not left (`EnrollerInv`), so of two requests with one code one burns it.  For a
  removal, a live device of the owner is still listed under them, and whoever has read the list has
  it among those to revoke (`OwnerInv`).  For a revocation, a tunnel that nobody told to close is the
  one in the table (`CurrentInv`).
* **ConsoleSession**: `RowInv` (only issued tokens have a row; a request is at most `MaxLatency` old).
  `IdleLimit` needs `ReadInv`: a deadline that a request found far enough away has not since been
  moved back by a request with an older clock.
* **TunnelSession**: `TasksOK`, and `AnsweredInv`: a caller waits just if it has a request in one of the
  two queues, and then in one of them, at one position.  "Occurs, and at one index only" replaces the
  counting of `OneRequestPerCaller`, which the provers cannot follow through `Tail` and `Append`.
* **DeviceProxy**: whatever the tables allow now, they have been seen to allow (`SightInv`), and the
  row a guard decides by held at some moment since the request arrived (`RowInv`); `DownInv` is the
  same for reachability.  For routing, `MeantInv`: as long as a request may still be sent on, its
  device and path are those that the URL asked for first names, which the first hop gets from the Host
  header or the path; and `RedirectInv`: the redirect to the
  path form comes from a device's own host only, the one to the directory and the login page from the
  path form only, which no longer is on such a host.  So one is never followed by another.
* **Startup**: what was served is what is stored, what a starting relay is about to serve is what is
  stored, and it writes only where nothing was served (`IdInv`, `CertInv`); at most one relay is
  between its first step and its listener; past the directory the mode is narrow or was warned
  about (`ModeInv`).

### Model-checked only

* Liveness (`EventuallyAgrees`, `CancelledEnds`, `RequestsAnswered`, `OpensAreAnswered`, `OneEndsAll`,
  `CloseEndsTunnel`, `Recovers`): the prover has neither fairness nor `ENABLED`.
* `RefusedIsUnrouted`: it needs the lengths of all chains that are on their way, which nothing else
  does.

No module declares a `RECURSIVE` operator.

## 6. Plan

1. Done: every module of section 2 and the theorems of section 5.
2. Still open to a proof: `RefusedIsUnrouted`.
3. Still open to a model: the addresses pushed to each tunnel against the welcome it was sent.

## 7. Not modelled

* Of the proxy: bodies and their size limit, HTML, query strings, the scheme and host that are
  forwarded, and the copying of a bridged WebSocket.  The stream's preface is taken to fit the buffer
  every stream has.
* The multiplexer (yamux), TLS, certificate pinning, HTTP server and client, SQLite: libraries.
  Their outcomes (a stream opens or fails, a statement is atomic) are actions.
* The lockout after failed logins: its logic is `FailureThrottle` of the `termexo-relay-protocol`
  crate, which is not in the repository.
* The audit trail: append-only, nothing reads it back to decide anything.
* Password hashing, random codes, percent-encoding, the CSRF header (a request with it or without is
  the relay's own to answer).
* Argument parsing, the names in a certificate, an operator's own certificate (`--tls cert:`), signals
  other than the stop.
* The serialised views of the console (`api/views.rs`, `api/settings.rs`) and the static files.
* The web console: a client of the HTTP API without state the relay depends on.
* `publish_addresses()`: the pushes of address lists.  They change nothing of the link's own; per tunnel
  they would need the product of `UpstreamLink` and `Registry`.
