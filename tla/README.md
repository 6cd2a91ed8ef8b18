# Verification of opencode-remote-control

TLA+ modules, TLC configurations and TLAPS proofs for the program in `src/`. An owner shares one
opencode conversation through a public *relay*: a *bridge* process on the owner's machine
registers the conversation's session id at the relay and keeps a WebSocket to it; *viewers* join
with an access code, and the relay forwards their requests over that socket and fans opencode's
events out to them.

Parse, check and prove from this directory:

    tlasany M.tla
    tlc -workers 2 -config X.cfg M
    tlapm M.tla

`PROJECT.json` lists the components, runs, mutants, hazards and theorems, and maps every
definition that models code to the lines it stands for.

## 1. The system

| Component | Code | State | Operations |
|---|---|---|---|
| Registration store | `relay/src/store.ts`, `api/skill.ts` | `sessions`, `claims` (reservations of ended ids), `registrations` (hourly counters), `restoredAt` | register (new, replace, resume), delete, touch, reap, evict, restore |
| Viewer activation and tokens | `relay/src/store.ts`, `api/activate.ts`, `api/leave.ts` | viewers of a session, `viewerIndex`, `unindexedViewers`, `sessionFails`, `sessionActivations`, `codeFails`, `blockedCodes`, the log budget | activate, verify a token, leave, expire, make room for a viewer |
| Bridge hub | `relay/src/ws/bridge.ts` | `clients`, `pending`, `waiters`, `droppedAt`, keep-alive rounds | upgrade, message, close, ping, request, waitForConnection, disconnect |
| State file | `relay/src/persist.ts`, `server.ts` | pending snapshot, debounce timer, generation, the unreadable-file mark | load, schedule, background write, flush, close |
| Viewer proxy | `relay/src/proxy/adapter.ts`, `event-drops.ts` | viewer streams and slots, resyncs under way, byte budgets, ancestry walks, drop counters | proxied GET and POST, the prompt's look-up, event streams, resync, shutdown |
| Relay server, configuration, pages | `relay/src/server.ts`, `config.ts` | the reaper's timer, shutdown deadline; in the browser the cookie, the guard's window and the drafts | start, reap, shut down; serve a share's page, join, leave |
| Bridge link | `bridge/src/relay.ts` | socket, back-off timer, keep-alive strikes, event subscription, requests in flight, what is known of other sessions | dial, re-dial, keep-alive, forward events, answer proxy requests, close |
| Bridge command line | `bridge/src/index.ts`, `state.ts` | a state file per share, the install secret | start (register, resume, settle an earlier share), stop, watchdog |
| Plugin | `plugin/*.js` | the bridge processes it started, their logs, `bridge.log` | start, cancel, stop, status |
| Generated bundle | `plugin/bridge/*.cjs` | built from `bridge/src` | none of its own |

How they interact. The relay's parts live in one Node process and call each other synchronously:
a registration replaces a share in the store and has the hub disconnect its socket in the same
handler; the hub's socket listeners call `touchSession`; the store tells the proxy when a
registration ends (`onRegistrationEnd`); every change of the store schedules a write of the state
file. The relay and the bridge share only the WebSocket and the HTTP registration, and neither
sees the other's process: each learns of the other's end by a close code, a refused dial or
silence. Bridges, stops and plugins on one machine share state files and pids. Nearly every table
of the relay is keyed by the session id, while a *registration* of that id comes and goes; most of
what is hard follows from that.

What is hard, and where the hazards of `PROJECT.json` lie:

- An id changes hands: the owner replaces or resumes a share, stops it, is reaped or evicted, and
  the same or another install registers the id while sockets, waits, timers, walks, streams and
  claims of the earlier registration still exist.
- Order on the sockets: a bridge dials again before the relay noticed that its old socket died,
  closing sockets still deliver messages, a gunzip callback runs after its request was claimed,
  and links change while the bridge makes an answer.
- Retrying: a request whose link dropped may or may not have run.
- Limits: sessions, per-address counters, reservations, viewers' seats, stream slots, bytes in
  and out, walks, places of the bridge, each with its own rule for whom to turn away.
- Restarts: the state file is written in the background, may be encrypted with a key the next
  process lacks, and keeps only some of the fields the decisions are made from.
- The bridge has to get back to one link with events on it after any fault, and has to give up
  when the share has ended; viewers have to be caught up on what they missed meanwhile.
- On the owner's machine starts and stops overlap and are killed between any two steps.
- In the viewer's browser one cookie and one store of drafts serve the shares of all owners.

What makes each component correct: the store keeps an id with the install that shares it, for the
whole life of the share and of its reservation, ends no share for a request it refuses, and stays
within its caps. Activation bounds guesses and mints, takes no present viewer's seat, lets no
token outlive its share. The hub answers a request from the registration it was made for, once,
runs nothing twice but a GET, tells its caller the truth and leaves no request to its own long
timer. The state file never loses a file it cannot read, nor newer contents to older ones. The
proxy sends a viewer nothing of a later share and nothing outside the share's tree of sessions,
counts what it holds exactly and gives it back, and catches streams up. The bridge has one way
back to a link while its share is up, and reaches into opencode no further than the share's tree.
A machine's records name what runs there, and its failures refuse no later start. A page acts in
no share but its own.

## 2. The modules

| Module | Models | Proofs in |
|---|---|---|
| `ShareRegistry` | the registration store, its HTTP handlers, reaper and restart | `ShareRegistryProofs` |
| `RelayedRequest` | what `BridgeClient.request` promises its callers (abstract) | |
| `BridgeHub` | the hub, for one session id; implements `RelayedRequest` | `BridgeHubProofs` |
| `PromptDelivery` | `proxyPrompt` and `promptLanded` over the hub; extends `BridgeHub` | `BridgeHubProofs` |
| `ViewerSeats` | activation, seats and tokens, for one session id | `ShareAccessProofs` |
| `ActivationLog` | the budget of the `[activate]` lines | `EventStreamsProofs` |
| `StateFile` | the state file and the server's use of it | `StateFileProofs` |
| `RelaySettings` | the limits read from the environment, as operators | `StateFileProofs` |
| `EventStreams` | viewers' streams, slots and resync, for one session id | `EventStreamsProofs` |
| `ViewerPayloads` | which events a share's viewers are sent, and the drop counters | `EventStreamsProofs` |
| `TranscriptReplay` | what a replay does to the texts and records on a viewer's page | `EventStreamsProofs` |
| `RelayBudgets` | bytes of bodies and answers, posts in flight | `StateFileProofs` |
| `SubagentWalks` | ancestry walks and the caches they fill | `ShareAccessProofs` |
| `Subsequences` | the filters on arrays that both use | `ShareAccessProofs` |
| `ProxyRoutes` | the route tables of relay and bridge, as sets | |
| `BridgeLink` | `RelayWSClient` and `startBridge` from its first dial on | `BridgeLinkProofs` |
| `BridgeRequests` | what the bridge does with the relay's requests | `BridgeLinkProofs` |
| `SocketProgress` | what the two watchdogs see of a slow or frozen peer | `BridgeLinkProofs` |
| `LocalShares` | starts and stops of one session's share on one machine | `LocalSharesProofs` |
| `OwnerSecret` | racing starts that make the install secret | `LocalSharesProofs` |
| `OwnProcesses` | whose process a recorded pid is | `LocalSharesProofs` |
| `PluginStarts` | the plugin's starts, cancels and `bridge.log` | `LocalSharesProofs` |
| `ViewerPages` | the pages, cookie and drafts of one browser | `ViewerPagesProofs` |

An `MC` module gives its component's constants values for TLC, and holds nothing else but symmetry
sets and, in three of them, an assumption for TLC to evaluate: `TablesAgree` in
`MCBridgeRequests`, that the bridge lets through each route the relay forwards, `SampledLimitsFit`
in `MCRelayBudgets`, the settings' theorem on samples, and `ChainsAreRememberedInTurn` in
`MCSubagentWalks`, that a chain is remembered as the code does it, id by id. `ViewerSeats` needs
no such values and is run as it is. A proof module holds the proofs of the modules it extends, in
sections of their own.

**Atomicity.** Node runs a handler to completion, and the promise callbacks it settles before the
next event. So a handler with everything it calls is one action: `AcceptRegistration` is the rate
limit, the sweep, the eviction, the superseded share's reservation, the new record, the committed
counter and the disconnect. Where the code awaits, the model has two actions with everything
else possible between them: `Answer`/`Inflated`, `TimerFires`/`BackgroundEnds`,
`Subscribe`/`Fetched`, `Take`/`Walked`/`Listed`/`Called`/`Zipped`. Two loops of the store, the
reaper's and `restore()`'s, take one step per claim (the choice in `recordClaim` is per claim),
and `Idle` keeps other actions out meanwhile. On the owner's machine each call of another process,
of the relay or of the file system is a step, and a kill may fall between any two.

**ShareRegistry.** `sessions[id]` is the record of `Store.sessions` with the fields the decisions
read; `claims` and `registrations` are the store's maps; `connected` are the ids with an OPEN
socket and `closing` those with an older socket in its closing handshake, whose listeners still
run. `registered_at` is a history field. `Registrants` are the pairs of an install key (or none)
and an address that register; the code takes any pair. Codes and tokens are left out
but for whether the record still has the code's hash (a plaintext state file does not keep it), as
a resume depends on it. An `owner_key` is the install it proves. A choice among equals that the
code makes by map order (the oldest claim, the longest departed share) is nondeterministic.

**BridgeHub.** One session id, as the tables are keyed by it; `reg` numbers the registrations that
hold it in turn. A socket is `"open"`, `"gone"` (not OPEN, its `'close'` event to come),
`"closing"` (the same, in `disconnect()`'s handshake, so messages still arrive) or `"closed"`. A
request carries the registration it was made for, its attempt and the socket its failure is bound
to. `Disconnect`, `CloseEvent`, `Ping` and `Dial` each include what `request()` does with the
rejections they cause (`AfterLoss`). The bridge is modelled at the socket's other end: it runs
what arrived (`Run`) and answers on its latest socket (`Answer`). A request's kind stands for its
method and options: `"get"`, `"command"` (`failsWithSocket` false), `"checked"` (a prompt the
caller looks up after a loss). `PromptDelivery` adds that look-up: `drop` is how the prompt's link
was lost, `lookup` the list request it follows with; the turn in which it starts is kept free of
other steps.

**ViewerSeats.** One session id; a code is the number of the share it was minted for. The viewers
are a sequence in last-use order like the code's array. `entries` and `unindexed` are the digest
index and the count of restored records without an index key. `missesAt` and `mintsAt` count what
happened at each time of the recent past; only the two bounds read them. `ActivationLog` counts,
over one minute, the lines written and left out for each share.

**StateFile.** The store's contents are the number of the change that made them and whether any
session is left. `writing` is the background write with its snapshot and whether `flush()` or
`close()` moved the generation on since. Every rename can fail, the process can die in any state,
and `CrashSettingAside` is the one crash between two renames that leaves no file at all.

**EventStreams.** One id; `share` numbers the shares that hold it, a resume continues one. A
stream's `phase` runs from `"open"` over `"ended"` (`end()` called) or `"cut"` to `"dead"`, with
its two `'close'` events between; `tracked`, `home` and `current` are the set it is in and the map's
entry, which may be another set by then. `pass` is the resync, `again` its request for one more.
`hole` is a history variable: what an open stream missed and no pass has tried to make up for.
One set stands for a stream's entries in `viewerStreams` and in `eventListeners`, which are
created, filled and dropped alike. `ViewerPayloads` and `TranscriptReplay` are what flows on a
stream: which events pass the filter, and what a replay does to a page that live events reach
meanwhile. A text is its length, a record its version.

**RelayBudgets.** A request's `phase` follows `proxyPost` from its headers to the answer; `claim`
is charged before the body is read, `charged` what is charged now, `len` and `left` the answer's
bytes charged and not yet taken. `Viewer(r)` are the viewer's moves (send, take, hang up),
`Relay(r)` the parser's, the bridge's and the timers'. `ShareInbound = MaxInbound` in the
instance stands for loud shares enough to fill the ceiling.

**SubagentWalks.** `ParentOf[n]` is opencode's tree as the bridge of registration `n` reports it.
`known` is the cache of confirmed subagents, `ruledOut` that of ids found outside, each a FIFO of
`CacheMax` ids that drops its oldest; `task` are the walks under way, each waiting for one bridge.
A list is polled, starts walks
for what it cannot place, and is shown.

**BridgeRequests.** One `onMessage` call is `req[r]`: it climbs a chain of parents, lists the
pending prompts, calls opencode and compresses the answer, each an await, while `relay`, `told`,
`gzip` and `cap` follow the links and `proven`, `foreign` the events. `out` is the frame the step
put on the socket. `ProxyRoutes` gives the routes it may be asked for.

**BridgeLink.** `sock` is the current socket, `timer` the armed back-off, `subs` every call of
`startEventForwarding` that has not ended (there may be several, see the hazard at
`relay.ts:1133`), `aborts` the one `close()` would abort. `phase` follows `startBridge`. The relay
is the environment: `share` says whether it still holds the registration. `SocketProgress` has one
sender's frames, Node's write buffer, libuv's queue and the peer's intake, sampled by a watcher.

**LocalShares, OwnerSecret, OwnProcesses.** A start is a process at a stage of `startBridge`;
`file` is the session's state file, `relay` the relay's registration. A share is named after the
start that registered it: its token, code, pid and server. History variables record that commands
overlapped, that a start wrote over a later record, and that a stop removed another record than it
had read. `OwnerSecret` has the temporary file, the link and the rename; `OwnProcesses` pids that are
handed out again as soon as `Rest` allows, and what `ps` answers: in each step it shows the
processes of some pids and tells the start of some, chosen anew from `PsShows` and `PsDates`, and a
check goes without what it does not tell.

**PluginStarts.** `plug` is the promise of the plugin's `startBridge`, `bridge` the detached
process, `out` what its log shows the plugin, `files` the bridge's own state, `log` the code kept in
`bridge.log`. A stop reads that log, then looks for its code in the state files and removes whatever
log is there by then: two steps, between which the OpenCode at work does nothing else and another
one may. `lastUp` and `lostLog` are history variables.
What starts of one session do to each other is `LocalShares`' concern.

**ViewerPages.** A tab shows a `page` and may be on its way to another (`nav`); it makes one
request at a time (`fetch`), which the relay answers in one step with the cookie the browser held,
and whose answer arrives later. `drafts`, `key` and `seen` are the browser's stores. The page of no
share (`/terminal`) is left out, a clear of the drafts is one step, and drafts are followed until
those of two shares are mixed, which `mixed` records.

## 3. The runs

Times are rough, for two workers.

| Run | Time | Asks |
|---|---|---|
| `registry` | 3 min | two installs and keyless registrants at their addresses compete for three ids on a relay for two sessions and two reservations, through sweeps, evictions, resumes, stops and restarts |
| `hub` | 3 min | a GET and a command, or a prompt and its look-up, on two sockets of two registrations |
| `state_file` | 20 s | three processes, five changes, with the key, without and with a damaged file |
| `viewer_seats` | 1 min | guesses, joins, leaves and renewals of an id with two seats |
| `bridge_link` | 20 s | six faults of link, dial and event stream, and the share's end |
| `event_streams` | 2 min | two streams over two shares of an id, a resume, re-dials during a resync, revoked tokens |
| `relay_budgets` | 30 s | two requests of two shares, parsed, answered, cut and hung up on in every order |
| `subagent_walks` | 3 min | polled lists with a subagent, its subagent and a foreign session, one walk at a time |
| `bridge_requests` | 30 s | three requests inside and outside the share's tree, two at a time, over changing links |
| `local_shares` | 2 min | three starts and a stop of one session, one of them killed at any point |
| `plugin_starts` | 4 min | three starts of two sessions in one OpenCode, with a cancel, a stop or a kill |
| `viewer_pages` | 1 min | two tabs with the links of two shares and one cookie |

What they show:

- **Who holds an id.** `IdStaysWithItsInstall`: while a bridged share with a key lives or its
  reservation lasts, no other install and no keyless request gets its id, through replacement,
  resume, stop, reap, eviction and restart. `EndedShareStaysReserved`: every one of those ends
  leaves the reservation, save for a full map or a silence longer than its term.
  `ClaimKeptForItsTerm`: a reservation is displaced only by its own address block, and only while
  that block holds several. The instance has reaper ends and idle restarts within the term of a
  reservation, reservations displaced by the second of their block, and insertions that a full map
  refuses. `StoreIsSound` joins the types to the agreement of claims and holders.
- **Full relays.** `RefusalEndsNoShare`, `RoomComesFromOneDepartedShare`, `WithinLimits`.
- **Requests.** `AnsweredByItsShare` and `EveryRequestIsHeld` relate requests to sockets and
  registrations. `CallersAreTold` is what a caller may conclude: the refinement of
  `RelayedRequest` (each request is settled once, answered only if it ran, and run twice only if
  it is a GET), commands that survive a re-dial, and the verdict on a lost prompt.
  `LostRequestsRecover` says that a request on a dead socket gets on without its own two-minute
  timer.
- **Joining.** `GuessesAreBounded`: within one lock term a code takes at most
  `2 * LockThreshold - 1` misses (a window that ends may be followed at once by a new one, so
  `LockThreshold` is not the bound) and a share mints at most `2 * MintCap` tokens in a mint term;
  and a code nobody tried opens. A restart clears the counters, so these are bounds per process.
  `PresentViewerKeepsSeat`; `SeatsAreSound`: no token outlives its share, and the index agrees.
- **The file.** `BetterStateStays` (an unreadable file is set aside, a quiet start leaves the file
  alone, older contents replace no newer ones), `FileIsSound`, and `ChangesReachTheFile`.
- **Streams.** `StreamsAreAccounted`, `NoLaterShareIsHeard`, `HolesAreNoticed` and `SlotsComeBack`.
- **Memory.** `ChargesAreSound`: counters equal what their requests are charged, a body that stays
  has paid in bytes for its time, and a small body of a quiet share is let in, however full the
  others have made the relay, until quiet shares have spent the reserve between them.
- **Subagents.** `WalksAreSound`: what a bridge says widens no other registration's share, and
  walk slots are exact. `PendingPromptAppears`: a prompt of a subagent is shown at last, in every
  registration whose foreign sessions are no more than the relay remembers (see section 6 for more).
- **The bridge.** `LinkIsSound`: while the share is up, exactly one of a socket and a back-off
  timer exists. `LinkSettles`: when faults stop, a working link and a reader of the event stream
  stay, and a serving bridge stops after the relay ended its share, even if the 4001 was lost.
- **The owner's opencode.** `OnlyTheShareIsTouched`: a call is about the share's tree, and a write
  to an object that an event named lately, of a session outside, is refused. `FramesSuitTheLink`,
  `PlacesAreExact`, `AnsweredWhileLinked`.
- **The owner's machine.** `RecordsAreSound`, `RefusedOnlyByALiveBridge`, `UsedCodeIsTakenBack`;
  `StartsAreSound` and `ShareEndsWithItsOpenCode` for the plugin.
- **The browser.** `PagesKeepToTheirShare`; `DraftsAreKeptApart`: until pages of two shares are
  open at once, or a page that could not clear the browser's store sends a prompt, a page offers the
  prompts of one share only, those of its own where it could clear; `GuardLeavesForAReason` (the
  guard takes no page away while its access is good) and `DeadPagesLeave`.

Every property of a run has a mutant in `PROJECT.json`: the definition it changes is replaced by a
plausible bug (`\* Mutant:` marks the forms in the modules), and TLC then finds the property
violated under the same configuration.

Seven configurations belong to modules whose properties are carried by theorems, or show a
divergence of section 6; they are checked by hand: `ActivationLog` (144 thousand states),
`OwnerSecret`, `SocketProgress` (140 thousand), `ViewerPayloads`, `TranscriptReplay` (472
thousand), `OwnProcesses` (1.9 million) and `RegistryDivergences`, which is violated.
`OwnProcesses.cfg` has a `ps` that shows and dates every process and pids that rest longer than
`Slack + Asking`. Without `NobodyIsCutOff`, the same passes with `Pids = {p1, p2, p3}`, `Slack = 1`,
`Rest = 0`, `MaxTime = 2` and `{{p1, p2, p3}, {}}` for both `PsShows` and `PsDates` (1.6 million).

### Bounds

- Registry: a conflict about an id is between its holder and one other; an eviction needs the
  newcomer, the share it ends and one to compare it with; a displaced claim needs a second one of
  its block and a full map, so two reservations and two blocks bind. Reaping terms of 0, a
  reservation's term of 1 and a clock of three instants take every comparison on both sides of its
  limit, with reservations that outlast the reaper and ones that lapse. Each install has one
  address and the keyless registrants both, so that installs with their addresses are alike. `MCView` leaves out of a
  state what no later step and no property of the run reads: the last answer (which the action
  properties read in the step that gives it), `registered_at`, and counters whose window is over. An
  instance with installs that change addresses, four ids or a third reservation is beyond the
  minutes of a run; the theorems cover them.
- Hub: two sockets and two registrations. That is a re-dial on one registration or a change of
  hands, and both orders of a close event with each; three would repeat them. One grace round.
- Viewers: two seats, thresholds 2 and 3, a mint cap of 1, terms 1 and 2, two shares, three
  tokens, a clock of four instants: a lock is entered, left and entered again; a window restarts; a
  seat is contended by a third viewer; a replaced and a resumed share follow a first.
- State file: five changes and three processes: a write, one that overtakes it and one queued
  meanwhile, across a process without the key between two with it.
- Link: six faults are enough for each kind of fault to hit every stage of the recovery from
  another; at most seven subscriptions exist in that instance, so `MaxSubscriptions` never blocks.
- Streams: two streams fill two slots, and one may be in the set that the other's late `'close'`
  is about; two shares and two tokens give a stream of each and a renewed token.
- Budgets: bodies of one or two units under a share's limit of 2 and a reserve of 1, so two
  requests of one share meet its limit and those of two shares the ceiling.
- Walks: a subagent of depth two, a cache of one and one walk slot, so each of them binds, and a
  registration has room for one foreign session; one
  failure and one lapse of the memory of a list. `MaxLapses` is a bound on the code as well, see
  section 6.
- Requests: three with two places, a tree and a cache with one place too few, three events for two
  remembered objects. Shares: three starts are the running share, the one that takes it over and
  the one that races both. Plugin: two starts of one session and one of another, typed in one
  OpenCode; two OpenCodes (`MCTwoHosts`) exceed the minutes of a run, and are checked by hand with
  the starts `s1` and `s3` (70 thousand states).
- Pages: two tabs, two shares, one end and one visit. Larger instances (three tokens, two ends or
  two visits, up to 3 million states) pass too.

`MaxNow`, `MaxSockets`, `MaxRegs`, `MaxChanges`, `MaxStarts`, `MaxShares`, `MaxTokens`,
`MaxFaults`, `MaxSubscriptions`, `MaxKills`, `MaxStops`, `MaxTurns`, `MaxEnds`, `MaxVisits`,
`MaxEvents`, `MaxFails`, `MaxBytes` and `MaxTime` are bounds for TLC; the other constants are the code's
parameters. `CHECK_DEADLOCK FALSE` appears where the instance or the program really ends: sockets
or processes used up, a bridge that has stopped.

### Fairness

- `PromptDelivery` over the hub: a socket that is no longer OPEN has its `'close'` event (the
  library destroys it after its closing timeout), `waitForConnection`'s timer fires, gunzip calls
  back, and the turn that looks a prompt up comes. Nothing makes a bridge return or answer, and a
  request's own timer is deliberately left without fairness: `LostRequestsRecover` would otherwise
  hold for the wrong reason.
- `StateFile`: the debounce timer fires and the disk answers, well or badly, while the process
  lives. Nothing makes the process live.
- `BridgeLink`: a dial ends (`handshakeTimeout`), the timers fire, a socket that is not OPEN has
  its `'close'` event, and opencode answers a subscription that no fault befalls. Faults are
  limited in number, which is what "when faults stop" means; the relay's traffic has no fairness.
- `EventStreams`: `'finish'`, `'close'` events and the heartbeat of a stream. `RelayBudgets`: the
  stall checks, the arrival timeout, parser, `'finish'` and the close of a cut response, and an
  answer or timeout of the bridge; viewers owe nothing.
- `SubagentWalks`: each request of a walk is answered or fails, and the viewer polls on.
- `PluginStarts`: some bridge goes on, as its awaits have timeouts and its watchdog is a timer.
- `ViewerPages`: the relay answers, answers arrive, the page's event reader asks again, the
  guard's window ends.
- The other modules promise nothing that needs it.

## 4. The proofs

A proof covers every value of the constants under the named assumptions of the component's
module; TLC evaluates the same assumptions in every run. The assumptions say that null values are
no ids, that tables are total and that limits are natural (positive where a zero would switch the
component off, which `LimitsAlwaysFit` shows no environment can); those of the modules without a
run are hypotheses of their theorems (`LimitsAreSet` and the like).

No property here is inductive as it stands. The invariant of each module, and why:

**`ShareRegistryProofs`.** `IInv` adds to `StoreIsSound` that every claim still to be restored
names the install that holds its id (`RestorableMatchesHolder`): after a restart `RestoreClaim` puts
the file's claims back one by one. `WithinLimits` is inductive with the counting lemmas
(`OneMoreFits`, `OneLess`, `InsertedFits`, `AcceptedFits`); `Restoring` says that the claims still to
be restored have not lapsed and that those of one id, and the map's, name one owner. The lemmas follow the code's layers: `InsertedAddsOne`,
`PruneOnlyDrops`, `RecordClaimAddsOne`, `RoomMadeDropsDeparted`, `AcceptedStore`, `EndedStore`,
`TouchedStore`, `RestartedStore`; `StepPreserves` puts them together action by action. The action
properties rest on `DisplacedFromOwnBlock` (a full map takes room from the inserting block only),
`EndIsRecorded`, `ClaimsLast`, `EndedIsDeparted` and `DepartedIsSilent`.

**`BridgeHubProofs`.** `Sound` has `ClientIsKnown` (the client is open or its `'close'` is to come, so
whatever is bound to another socket has that event ahead), `OpenClientHoldsTheId`,
`MessagesKeepTheirShare` (a message names the registration its request was made for: `request`
compares registrations before it sends again, and `EndedForRoom` leaves waiting requests behind
that would otherwise reach the id's next holder) and `IdleIsUnanswered`. `HubKeepsItsPromise` is the
refinement of `RelayedRequest`: `Delivery` says that a request has run at most as often as it was
attempted, that only a GET is attempted twice, and that what may still answer it was run; `StepIsPromised` maps each step to one of the abstract
request's or a stutter. `LookUpIsSound` ties the look-up of a prompt to what the bridge had run
when the link was lost, for `ViewersAreToldTheTruth`; `PromptStepsAreHubSteps` carries the hub's
results over.

**`StateFileProofs`.** `VersionsAgree` (file and writes are no newer than the store they come from), `QuietIsQuiet`
(a store without a change has nothing on its way), `NothingIsForgotten` (an empty store's last change
is pending, being written or on disk, unless a write failed),
`SignalIsCovered` and `UnreadableIsKnown` (the process remembers that it could not read its file).
The same module proves `RelaySettings` for every
environment, by arithmetic on ceilings and fractions: that limits fit each other is a fact about
integers, with no state. `BudgetsMayAssume` ties them to the assumptions of `RelayBudgets`, whose
invariant `BudgetsInv` is proved there too. Bytes are summed by counting them one by one, as a
cardinality, so that one lemma (`SumMoves`) says how a sum follows the one request that moved;
`Becomes` says how the counters do. `ReserveIsKept` is what the ceiling is for: what shares hold
that are not quiet leaves the reserve free.

**`EventStreamsProofs`.** `StreamsKept` (a stream's phase, slot, set and home agree), `SharesKept`,
`PassKept` and `HolesKept` (a hole that is owed while the link is up has its pass ahead); the sets
are named after streams, and the pigeonhole lemma `SetsAreLeft` has a name left for each new one. For the payloads `IndexIsFamily` (what
events taught the relay is in the tree) and `SlotIsKept`; for the replay `ReplayPending` and
`TextsAreBehind` (a page shows no more of a text than there is, and all of one that had ended
once it is replayed); for the log
`SlotsAreEarned` and `SlotsSuffice` (nobody is displaced while there are slots for all).

**`BridgeLinkProofs`.** For the link `StrikesAreLeft`. For a slow peer `QueueIsSound`, `SameWrite`
(counters that look alike are of one write), `EvidenceIsExact` (they differ if and only if the peer
took something since the last sample) and `SilenceIsCounted`. For requests `BridgeInv`: `cap` and
`gzip` are those of the open link once its hello came (`LinkInv`), a request under way has passed the
guards before its stage, and its chain climbs from a child to its parent (`GuardInv`), places are counted (`PlacesInv`), what is remembered
as a subagent is one (`TreeInv`), and an object of another session is remembered until
`MaxForeign` others were named after it (`ForeignInv`). A climbing chain that reaches the tree lies in it
by induction along the chain; the library's induction theorems cannot be instantiated here, so
`LeastNatural` and `NaturalsByInduction` derive first-order induction on sets of naturals from the
well-ordering that cardinality gives.

**`LocalSharesProofs`.** `SharesInv`: what a start knows of earlier shares is of shares that are over
(`StartInv`), the file names shares that wrote it, and one that failed only marked as gone
(`FileInv`), the relay's code is that of the start that registered (`RelayInv`), and while commands take turns a code in use is in the file and in the hands of the
start at work. Each action is first restated as what it does to each field (`BeginDoes`,
`FailDoes`, ...), then shown to keep each part. `NobodyReplaces` is the secret's invariant;
`OwnOrLater`, `BridgesAreOwn` and `RecordsAreOwn` those of the pids: a recorded pid is its
share's process, or one that ended or began since the share's start
(a server's, which may have died before the record was written) or since the record (a bridge's, which wrote it). `RecycledPidsAreSpared`
assumes nothing of the system's pids or of `ps`. It says how far the identity check reaches: what is
signalled is the share's own, or took the pid over in the window that the check leaves, which is
bounded below by this invariant and above by the slack, or by nothing where `ps` tells no start.

For the plugin's starts `CodesAreSaved` and `PromisesKeepUp`: no code is known before its bridge
saved it, and a start that was not made has no bridge, one whose share is ended none left.
`LogFollows`: `bridge.log` has no older share's code, and in a lone OpenCode it is the one that a stop
at work has read.

**`ShareAccessProofs`.** What both modules filter is a sequence, and `Filtered` says by ranks what
is selected where (its `k`-th element is the one with `k` selected up to it), so `RanksAreExact`
and `FilteredKeeps` follow from cardinalities, without induction along the sequence. `WalksInv`:
what is known is a subagent of its registration, without repeats and within the cache
(`CachesKept`), a walk's chain climbs from child to parent and its slot is held (`WalkKept`), a list
has what its own walks found (`ListKept`). Subagents are the least set that is closed under
children, so a chain that ends in a known one lies in it by `ChainsAreKin`, along the chain's
numbers (`LeastOfNumbers`). For the viewers `SeatsInv` adds that seats have been minted, so a
join's token is in no seat; `DropLeaves` has the index follow whoever goes, one `dropIndexEntry`
at a time or many. `GuessesInv` ties the counters to the histories: `MissesOf`, that a window of
the lock has counted what there was in it and what came before is less than a lock takes,
`Unlocked`, that without a window there are fewer misses than a lock takes, and `MintsOf` for the
cap. The bound of two windows is not inductive without them: `WindowPassed` shows that a window
that ran out has kept at most the misses after its first, which is why the next may start.

**`ViewerPagesProofs`.** `RelayInv`, `BrowserInv`
(every page, navigation and answer was served for its token's share), `DraftInv` (while drafts are
kept apart, the open pages are of one share, and so is what is stored, unless a page could not
clear it) and `AnswerInv` (a page that is refused with the cookie it was served with is that of a
session outside its share).

| Property of a run | Theorem |
|---|---|
| `StoreIsSound`, `WithinLimits` | `StoreSound`, `LimitsHold` |
| `IdStaysWithItsInstall`, `EndedShareStaysReserved` | `NobodyTakesAnId`, `EndsAreReserved` |
| `RefusalEndsNoShare`, `RoomComesFromOneDepartedShare`, `ClaimKeptForItsTerm` | `RefusalsAreHarmless`, `OnlyTheLongestDepartedGoes`, `FloodsDisplaceTheirOwn` |
| `AnsweredByItsShare`, `EveryRequestIsHeld`, `CallersAreTold` | `AnswersComeFromTheShare`, `RequestsAreHeld`, `ViewersAreToldTheTruth` |
| `FileIsSound`, `BetterStateStays` | `FileStaysSound`, `NothingBetterIsLost` |
| `ChargesAreSound` | `ChargesStaySound` |
| `LinkIsSound` | `OneWayBackAlways` |
| `StreamsAreAccounted`, `NoLaterShareIsHeard`, `HolesAreNoticed` | `StreamsAlwaysAccounted`, `NoLaterShareIsEverHeard`, `HolesAreAlwaysNoticed` |
| `PlacesAreExact`, `FramesSuitTheLink` | `PlacesAlwaysExact`, `FramesAlwaysSuitTheLink` |
| `OnlyTheShareIsTouched`, `AnsweredWhileLinked` | `OnlyTheShareIsEverTouched`, `AlwaysAnsweredWhileLinked` |
| `RecordsAreSound`, `RefusedOnlyByALiveBridge`, `UsedCodeIsTakenBack` | `RecordsStaySound`, `FailedStartsDoNotRefuse`, `UsedCodesAreTakenBack` |
| `WalksAreSound` | `WalksStaySound` |
| `SeatsAreSound`, `GuessesAreBounded`, `PresentViewerKeepsSeat` | `SeatsStaySound`, `GuessesStayBounded`, `PresentViewersStay` |
| `StartsAreSound` | `StartsStaySound` |
| `PagesKeepToTheirShare`, `DraftsAreKeptApart`, `GuardLeavesForAReason` | `PagesAlwaysKeepToTheirShare`, `DraftsAreAlwaysKeptApart`, `GuardsLeaveForAReason` |

Theorems about properties no run asks for: `HubKeepsItsPromise` and `RedialsSpareCommands` (parts of
`CallersAreTold`), `ReservationNamesTheHolder`, `SocketsBelongToShares`, `NoRequestIsOrphaned`,
`NobodyWaitsForAnOpenBridge`; of the settings `LimitsAlwaysFit`, `FramesAlwaysFit`, `BodiesAlwaysFit`
and `SlowUplinksAlwaysGetThrough`; `LogStaysSound`, `PayloadsStaySound`, `ReadTextIsKept`,
`EndedTextIsShownWhole`; `MovingPeersStay`, `FrozenPeersGo`, `StreamsHoldLittle`;
`RacingStartsAgree`, `LandedSecretsStay`, `RecycledPidsAreSpared`.

## 5. What is only model-checked, and what is not modelled

Only model-checked:

- Liveness: `LostRequestsRecover`, `ChangesReachTheFile`, `LinkSettles`, `SlotsComeBack`,
  `ChargesComeBack`, `PendingPromptAppears`, `ShareEndsWithItsOpenCode`, `DeadPagesLeave`. The
  prover has no rule for fairness and ENABLED here.
- `NobodyIsCutOff` of `OwnProcesses`, by hand. It needs a rest between a process's end and the next
  use of its pid and a `ps` that shows and dates every process, and fails without any of the three.

Not modelled:

- the send queue's high-water mark of the bridge, the hub's `close()` and its fan-out of events to
  listeners, malformed event payloads, sessions deeper than the scan;
- URL rewriting, the query's pinning, the origin check, the project filter and static pages, which
  are pure functions of their input and have unit tests; health output; the page at `/terminal`;
- the FIFO bound of the activation counters (`maxTrackingEntries` on the viewers' side);
- configuration other than the relay's limits, arguments, detection of servers and the policies
  for a server named by flag, the retry after a 409;
- the plugin's dialogs and configuration; the generated bundle, built from `bridge/src`;
- two machines or users on one state directory: for a state file, a check and the unlink that
  follows it are one step.

## 6. Known divergences

Properties that the code's comments suggest and that fail. They are stated in the modules and no
run asks for them; each is shown by a configuration of this directory that is told to check it
instead.

| Check | Shows |
|---|---|
| `RegistryDivergences.cfg`: `EvictedOnlyAfterSilence` | `evictDepartedShare` (`store.ts:979`) ranks by `created_at`, of which a resume keeps the first, and loses `bridge_alive_at` (396-421): a share resumed a moment ago may be ended as long departed, against the comment at 960-962 |
| the same: `BoundOnlyByItsBridge` | a replaced registration's socket still reports life while it closes (`ws/bridge.ts:219`, 640-652), and takes the new registration up before its own bridge has dialled (`store.ts:45-48`) |
| the same: `ReservedFromItsEnd` | `restore()` (`store.ts:1280`) lets the file's older claim stand for a share it drops as idle, which is then reserved for less than its term (1274-1276, 458-459) |
| `Hub.cfg`: `FirstConnectionIsNoReconnect` | a share ended to make room leaves `droppedAt` behind (`store.ts:970-998`): the id's next registration has its first connection reported as a reconnect (`ws/bridge.ts:597-598`) |
| `BridgeLink.cfg`: `FatalEndsTheShare` | a fatal close during the first event subscription is unheard, as `onFatal` is set later (`index.ts:323`): the bridge serves on without a link (`relay.ts:861`) |
| `EventStreams.cfg`: `ResumedStreamsAreCaughtUp` | a resume disconnects the bridge (`skill.ts:140`), which clears the mark of a lost link: what streams missed around it is not replayed (`ws/bridge.ts:597`, `adapter.ts:2110-2112`) |
| `LocalShares.cfg`: `ServedShareHasItsRecord`, `StopSparesLaterShares` | a start that saves after a later registration, and a stop that clears by name (`index.ts:805`), leave a running share without its record (`state.ts:123-126`) |
| `ActivationLog.cfg`: `DisplacedOnlyByTheUnheard` | a share that was heard may displace another's reserve (`activate.ts:199-203`) |
| `OwnerSecret.cfg` with `SecretSpec`: `SecretIsShared` | after a damaged file two starts may differ about the secret (`state.ts:200-202`) |
| `SubagentWalks.cfg` with `MaxLapses = Unbounded`: `PendingPromptAppears` | polls further apart than the memory of a list (`adapter.ts:280-288`) start the walk anew for good |
| the same, with one lapse: `NothingIsLostForGood` | of a registration with more foreign sessions than the relay remembers, the oldest is forgotten and walked again with each list, in the order of the list: a subagent behind them may never have its turn (`adapter.ts:283-288`, 1657-1666) |
| `PluginStarts.cfg` with `Hosts = {h1, h2}` and `HostOf <- MCTwoHosts`: `LogIsNeverLost` | a stop in one OpenCode may remove the log of the share that came up last in another, having read an older code in it (`bridge-runner.js:131-144`, against 115-124) |
| `OwnProcesses.cfg` with `Rest = 0`, or with `{}` among `PsShows` or `PsDates`, and `MaxTime = 4`: `NobodyIsCutOff` | where a pid comes back within the slack or `ps` tells no start, the identity check lets a process of another share pass (`index.ts:881`, 1074), against 837-840 |
| `TranscriptReplay.cfg`: `ShownRecordsStay` | a replay may put a record back to an earlier version until its next event |

Observed while modelling, and by the code's design: a prompt still queued in the bridge when it is
looked up is reported lost and may run later; `bridge stop` of a cancelled start goes by session
id; a late answer to a tab of one share may overwrite the cookie of a join to another.

## 7. Plan

1. A proof of `NobodyIsCutOff`, with the rest of pids and the answers of `ps` as hypotheses.
2. Models of the send queue's mark, the hub's `close()` and the policies for named servers.
