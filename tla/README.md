# Formal models of the Birdie integration

TLA+ models of the Home Assistant integration in `src/custom_components/birdie`,
TLC runs that check them on small instances, and proofs that hold for every
instance. The integration talks to two kinds of devices: CO2 monitors over
Bluetooth (`client.py`, `coordinator.py`) and the Podium air purifier over the
local network (`lan/`, `purifier/`).

## Inventory

| Component | State | Operations | Talks to |
| --- | --- | --- | --- |
| `lan/device.py` `LanDevice` | settings, connection in use, connection being opened, flags, one background task, one worker thread | `async_connect`, `start`, `async_close`, `async_refresh`, `async_set_dps`, `async_reconfigure`, the loop `_run`, the worker functions `_w_*` | tinytuya; calls the purifier coordinator back |
| `purifier/coordinator.py` | runtime and setup counters of key rejections, the address search of each entry | setup, refresh, commands, host moves, callbacks of the device | `LanDevice`, discovery, config entries |
| `purifier/entry.py` | – | set up, unload an entry | coordinator, discovery |
| `purifier/discovery.py`, `lan/discovery.py` | reference count, shared listener, its sockets, callbacks and cached announcements | acquire, release, scan, announcement | UDP broadcasts; moves a coordinator's host; offers new purifiers |
| `lan/search.py` | concurrent attempts, each with a `LanDevice` of its own | find a device by its key | `LanDevice` |
| `lan/redact.py` | a counter per secret | register, unregister, filter | logging; used by `LanDevice` |
| `config_flow.py`, `purifier/flow.py` | the steps of a flow, a network search carried between steps | add or reauthenticate an entry | discovery, search, `LanDevice` |
| `purifier/model.py` | – (pure) | decode data points, encode commands | coordinator, entities |
| `client.py`, `coordinator.py`, `__init__.py` | BLE link, services, lock, availability | connect, reconnect on advertisement, write, disconnect | bleak |
| `ble.py`, `models.py` | – (pure) | parse characteristics | client |
| entities, diagnostics, `tools/` | – | show and command | coordinators |

Where it is hard:

- `LanDevice` shares attributes between the event loop and a worker thread, and
  everything it does may overlap a reconfiguration, a loss noticed by another
  task, or its own close. Results come back in the order the worker produced
  them, behind jobs other tasks queued meanwhile.
- Coroutines of the loop interleave at every await: a test before an await is
  stale after it (`async_acquire`, the reads of the BLE coordinator).
- Disconnects, timeouts, cancelled set-ups and silently dead connections.

What makes each component correct, in one line: `LanDevice` shows what the
connection is, never settles on old settings, leaks no socket, recovers, and
closes; discovery keeps a listener exactly as long as an entry needs it; the
BLE coordinator shows what the link is, never forgets one, and never blocks.
`PROJECT.json` lists the hazards one by one, with the line where each bites.

## Modules

| Module | What it is |
| --- | --- |
| `LanLink.tla` | abstract: what a `LanDevice` promises to its users |
| `LanDevice.tla` | `lan/device.py`; implements `LanLink` |
| `LanSearch.tla` | `lan/search.py`, `async_search_network`, the counter of `lan/redact.py` |
| `ConfigFlow.tla` | the purifier steps of `config_flow.py`, `purifier/flow.py`; extends `LanSearch` |
| `PurifierDiscovery.tla` | `purifier/discovery.py` and the sockets of `lan/discovery.py` |
| `PurifierSetup.tla` | `purifier/coordinator.py`, `purifier/entry.py`, `_async_on_device`, the forms that change an entry |
| `PurifierData.tla` | `purifier/model.py`, `purifier/fan.py`, `purifier/entity.py`, `async_send_dps`, the reports in `lan/device.py` |
| `BleCoordinator.tla` | `client.py`, `coordinator.py`, the tasks of `__init__.py` |
| `LanDeviceProofs.tla`, `LanLinkProofs.tla`, `LanUseProofs.tla` | theorems about `LanDevice`: its sockets and settings, the refinement and the close, what it shows and reads back |
| `ConfigFlowProofs.tla`, `PurifierDiscoveryProofs.tla`, `PurifierSetupProofs.tla`, `PurifierDataProofs.tla`, `BleCoordinatorProofs.tla` | theorems about the modules they are named after |
| `MC*.tla` | symmetry and state constraints for TLC |

The definitions called `Name_Something` next to an action are deliberately wrong
variants of it: replacing the action by one must break a property, which shows
that the property depends on what the code does.

### LanDevice

Two kinds of actors. The *event loop* runs the background task (`"run"`), the
callers of the public methods (`Callers`) and the close (`"close"`); `pc` says
what each awaits. `_run` at `"top"` is between two awaits, so nothing else runs
in the loop then (`LoopFree`). The *worker thread* takes jobs from `queue`, one
at a time (`work`); its results go to `ready` and are handed to their tasks in
that order (`Resume`). `_w_open` reads `_closed` and `_config` and writes `_api`
and `_opening` while the loop runs, so it is split at each of these (`stage`).

| Code | Model |
| --- | --- |
| `_api`, `_opening`, `api` in `_w_open` | `api`, `opening`, `local` |
| `api.socket` of each library object | `sock`: none, dialing, up, silent (dead without a sign), cut |
| the settings an object was made from | `peer` |
| host, key, port, version setting | one value `config`; `answersTo` is what the purifier accepts |
| `_last_rx` older than `dead_after` | `rxDead`, raised by `DeadTimer` |
| `_refresh_at` | `refreshAt`: none, armed, due |
| `_wake` | `wake` |

Versions are numbered; the purifier speaks the version `Speaks`, so an attempt
can be refused by some versions and accepted by a later one. The periodic status
may be due at any time, so `RunStatus` is always possible. The durations of
sleeps are abstracted: a sleep may end at any time. `dirty` is a ghost that no
action reads. `RunTop` leaves out the test of `_closed` (277): the close cancels
the task in the step that sets it, so the loop never sees it. Of the callers only
a setup that connects can be cancelled (`CancelConnect`); a refresh and a command
run to their end.

The order in which the device is used is that of its owner
(`purifier/coordinator.py`): before `start()` only the setup calls it, `start()`
follows a successful connect, and a reconfiguration checks that the device is
not closed (`coordinator.py:253`). That check is an assumption `LanDevice`
itself does not enforce.

### LanLink

What the coordinator and the checks of the config flow rely on, without thread,
task or library object: the settings in force, those of the connection in use,
the availability shown, and the life of the object (open, closing, closed).
`LanDevice` defines the mapping at its end: `connection` is `peer[api]` or
`Nowhere`, `life` comes from `_closed` and from whether `async_close` returned.
A connection is only made from none; nothing reports to be available again once
a close has begun; `async_close` returns without a connection, and none is made
after that. `ImplementsLink` is this safety part, `LinkIsLive` the part that needs
fairness: a connection to old settings goes down, a loss is reported, a close
returns. The latter is not trivial for the close, which awaits a job behind
those of other tasks and a thread that may be in a connection attempt.

### PurifierDiscovery

Entries and scans are tasks with a program counter; each await of
`async_acquire`, `async_scan` and `async_start` is a step. A port that cannot be
bound is skipped. A task may be cancelled at each await. `Unused` listeners can
stand for new ones, so a few identities are enough for any number of set-ups.

### BleCoordinator

The setup, the tasks that advertisements and number entities start, and the
unload interleave at their awaits. Links drop at any time (`Drop`), which runs
`_handle_disconnect` at once and schedules `_async_handle_disconnect`
(`unavailDue`). The reads and the subscriptions are one await each, which may
fail in part. A disconnect started by one task and the attempt of another may
overlap anywhere, because only attempts take `_connect_lock`.

| Code | Model |
| --- | --- |
| `_client`, `client` in `async_connect` | `client`, `mine` |
| `_services` | `services`, the link they were read from |
| `_connect_lock`, `_expected_connected` | `lock`, `expected` |
| `_expected_disconnect` | `expectedDisconnect` |
| `data.available` | `available` |

`_client` is set before the services are asked for, which is an await of its own
(`"discover"`): the link may drop in it, and `_services` is set all the same
(`Discovered`). The end of any link clears `_client`, whichever it is by then
(`LinkDown`). A `disconnect()` that fails is swallowed: `ForgetClient` is possible
with the link up. Such a link is not closed again unless the device or the radio
ends it, or the next attempt finds it (`close_stale_connections_by_address`); both
are `Drop`. The ghost `leftBehind` holds the links that the client gave up while
they were up.

A scheduled callback is handled before a radio link comes up, and before the
values of a connected link have been read (`LoopCaughtUp`, guard of `DialSucceeds`
and `ReadDone`): asyncio runs what is scheduled in its next iteration, and both
awaits take many. Without the guard a callback could be delayed beyond a whole
connection, and would hide it: `ConnectedIsShown` rests on this assumption.

### LanSearch

Search `s` is a task: it collects addresses, then tries each with an attempt of
its own, at most `Concurrency` at a time, and ends when one is accepted
(`FoundAt`) or all have failed. An attempt makes a `LanDevice`, which registers
the key, connects in the device's worker thread, and closes the device in a
`finally`. Cancellation (`CancelAttempts`) reaches an attempt in each of its
awaits: before its turn nothing is to do; while it connects it goes on to close;
while it closes it is torn out of the close, which leaves a thread that may still
connect, and the registered key. A second cancellation reaches the wait for the
others (`CancelSearches`). Only the address in `goal` accepts the key.

### ConfigFlow

Flow `f` runs its network search in task `f` of `LanSearch`. `step` is what Home
Assistant shows of a flow, `handler` the handler that is suspended, `flow` the
attributes of the flow object:

| Code | Model |
| --- | --- |
| `unique_id` | `uniqueId` |
| `_lan_devices` | `devices` |
| `_purifier` and the input of the manual form | `input`, `trusted` (announced as a Podium) |
| `_search` | `search` |
| `_lan_task`, `_search.task` | `step = "scan"`, `task[f]` |

A submission is a device ID, a key that is right, wrong or malformed, and perhaps
an address. A flow may be removed in any step, by the user or because another
flow added the device; a handler that is suspended then goes on, and its result
is dropped. Assumed of Home Assistant: creating an entry aborts the other flows
with the same unique id; from the unique-id check to the registered entry
nothing is awaited; after a progress step it may pass the form's input again.
`Evaluate` is the part of `async_step_purifier_manual` up to its first await.

### PurifierData

A loaded entry. The purifier obeys or ignores a command, reports a change or
keeps silent, changes by its own buttons, and loses its connection (`Break`). The
jobs of the background task and of one command at a time run in the order in
which they were submitted (`LanDevice` justifies the two queues); reports that
are under way are read before, or in place of, the answer to a status request.
`cache` is the device's `_dps`, `shown` the coordinator's data, which a command
changes at once. Power and mode are kept; `reportsMode` is false for a purifier
that never reports its mode. Modes, speeds, percentages and the filter life are
computed as in the code, with its roundings.

### PurifierSetup

The life of one entry: `pc` is where its setup is (`connect`, `scan` for an
announcement, connect `again`, `refresh`, `platforms`), that it is `loaded`,
being unloaded, waiting for a retry, failed for its key (`error`) or `removed`.
`LanDevice` appears only through its callbacks: a connection, a loss, and a
failed attempt that was rejected or found nothing (`RunConnected`, `RunLost`,
`RunUnreachable`, `RunRejected`).

| Code | Model |
| --- | --- |
| `entry.data`: host, key | `entryHost`, `entryRight` (the purifier has this key now) |
| the current coordinator's device | `host`, `devRight`, `up` |
| `_key_failures`, `DATA_SETUP_KEY_FAILURES` | `failures`, `rejections` |
| `AddressSearch` | `since` (none, recent, longer than `ADDRESS_SEARCH_AFTER`), `next` and `interval` in units of the first interval |
| the search's task | `search`, `found`, and `searcher`: the current coordinator or a discarded one |
| `ConfigEntries.async_schedule_reload` | `reload` |
| the device's drop after `async_reconfigure` | `dropping` |

Each attempt makes a new coordinator, while the search and the setup's counter
outlive it. A discarded coordinator can act only through its search, and there
is one search at a time, so one discarded coordinator is enough. The purifier
moves, is switched off, is busy (and then fails the handshake like one with
another key) or gets a new key at any time. At an address in `Strangers` another
device of the kind answers unless the purifier is there; to it, the entry's key
is wrong (`CanReject`). How Home Assistant retries, reloads and removes entries is
modelled from what this code relies on. `streak` is a ghost.

Two simplifications: the reauthentication form's check of the key and its update
of the entry are one step (`Reauthenticate`), so the form that finishes while a
connection aborts its flow is not covered; and nothing fails after the first
refresh of a setup (`SetupDone`; `entry.py:24-27` acquires the listener, which
`PurifierDiscovery` lets fail, and forwards the platforms).

## Runs

| Run | Instance | Result |
| --- | --- | --- |
| `lan_safety` | 2 callers, 2 settings, 2 library objects, 2 versions | passes, 615 000 states up to symmetry |
| `lan_liveness` | 1 caller, 2 settings, 1 library object, 2 versions | passes, 165 000 states |
| `discovery_safety` | 3 entries, 1 scan, 4 listeners, 2 ports, at most 4 users | passes, 122 000 states up to symmetry |
| `discovery_onelistener` | 2 entries, 1 scan | `OneListener` fails |
| `ble_pass` | setup, unload, 2 tasks, 3 links | passes, 164 000 states |
| `ble_unavailable`, `ble_unload` | setup, unload, 1 task, 2 links | `DisconnectedIsUnavailable`, `UnloadDisconnects` fail |
| `flow_pass` | 2 flows, a purifier and another device, 2 addresses tried at once, 2 submissions | passes, 700 000 states |
| `data_pass` | 2 modes, 2 percentages, one message each way | passes, 720 000 states |
| `setup_safety` | 2 addresses, one with another device, 2 rejections, interval up to 2 | passes, 1 770 000 states |
| `setup_liveness` | the same, interval 1 | passes, 1 230 000 states |
| `setup_follows` | the same, interval 1 | `FollowsAnnouncements` fails |

Bounds. Two callers are enough for a call to overlap another call and the loop
and the close at once; each task awaits at most one job, so the queue is bounded
without a constraint. Two settings give an old and a new one, and `Move` changes
what the purifier accepts again and again. The invariant `OneSocket` implies
that one library object is in use at a time, so two objects are enough to show a
leak. Two versions give a refused and an accepted attempt. `MaxUsers` bounds the
one counter that only grows when set-ups fail; it must exceed the number of
entries, which it does. Three links allow one to be orphaned while another is
made. Two addresses let the purifier leave, return, and be found where an old
announcement does not say, with and without another device in its place; two
rejections are the least that can be interrupted, and that a retry or a reload
can separate, and an interval that doubles once shows whether it starts over.
The liveness run asks nothing about the length of the intervals, so it has one.

Two flows are the least that can compete for a device, and two devices give a
Podium and something else that accepts the key. Two addresses that are tried at
once let one attempt be accepted while the other is in any of its steps. Two
submissions let both flows submit, or one flow go from a search back to the
form and check again; what a third one meets is a state the first two can leave.
A preset mode and one speed are the two kinds of modes, and 0 and 100 the two
kinds of percentages, for what is sent; `SpeedsRoundUp` looks at all the modes
and percentages, whatever is shown. One command at a time and one report under
way (and one more that a status request put back) already give every order of a
report, an answer and a command.

Properties of `LanDevice`:

- `OneSocket`: only the connection in use or the one being opened has a socket.
- `ConnectedToConfigured`: a connection to replaced settings has a drop ahead of
  it in the worker's queue.
- `AvailableMeansConnected`, `ConnectedMeansAvailable`: the flag shown and the
  connection disagree only while a task is on its way to correct it. That the
  results are handed over in the worker's order is what makes a late drop
  harmless: the mutant that delivers in any order breaks it.
- `ReadBackScheduled`: a command stays scheduled for a read-back until a status
  newer than the command was read.
- `ClosedIsClean`, `NoJobAfterShutdown`: close leaves nothing, and is not
  followed by a job.
- `ImplementsLink`, `LinkIsLive`: the device is a `LanLink`.
- `Recovers`: if from some time on the purifier answers to the configured
  settings, the device is open and no connection is broken by the network, it
  is for ever connected and shown so.

Of `PurifierDiscovery`: `NeverUndercounted`, `Served` (every loaded entry has
the listener with its callback), `SharedKeepsListening`. Of `BleCoordinator`:

- `NoOrphanLink`: until the unload a link that is up is the client's, the one
  being made, or was left behind by a disconnect that failed.
- `ServicesOfClient`: outside a discovery and a disconnect, a connected client
  has the services of its own link, though a drop in an earlier discovery left
  others.
- `ConnectedIsShown`, `AttemptsEnd`: a connected device is shown once nobody is
  connecting; every attempt ends and releases the lock.

Of `PurifierSetup`:

- `NoNeedlessReauth`, `OutageFromScratch`, `RunningReauthIsConsecutive`: while the
  purifier is connected no key is asked for and the next outage starts afresh;
  the running device asks only after rejections in a row.
- `FoundAgain`, under fairness: a purifier that stays somewhere is connected again
  without any announcement, or its entry waits for a key: because its setup
  failed, or because another device at the old address rejected the entry's key
  until the running device asked. Two mutants break it, one in what a discarded
  coordinator's search does, one in how a rejection counts for the outage.
- `AsksForKey`, under fairness: a purifier that keeps rejecting the key, at the
  address in use, makes the entry ask, at the last rejection of a streak that
  attempts, retries and reloads may cut.

Of `ConfigFlow` and `LanSearch`:

- `OnlyProven`: an entry is made only for a purifier that accepted the key, with
  the address at which it did, whatever was announced, typed or found before,
  and though the search's result is used two steps later.
- `NeverReplaced`: of two flows past their first check only one adds the device.
- `RemovalStopsSearch`, `OverIsOver`: a removed flow stops its search, and a
  search that is over has no attempt left, however often it was cancelled.
- `KeyRegistered`: the key stays redacted while any worker may log it, also that
  of a device whose close was cancelled.
- `StepsHaveTheirData`: the assertions of the handlers.
- `Answered`: whatever Home Assistant passes on after a progress step, the user
  gets a form or the flow ends; it does not search again for ever.

Of `PurifierData`:

- `CaughtUp`: partial reports, full reads and answers taken for each other merge
  into the purifier's values.
- `Converges`: what is shown becomes what the purifier does, also after commands
  that it ignored or did not report.
- `ShownMeansConnected`: no report marks the data as good after the loss.
- `SpeedsRoundUp`: a percentage selects the slowest speed that is at least as
  much, what is shown then selects the same speed again, and both kinds of
  requests wake a purifier that is off.

### Where code and documentation differ

1. `discovery_onelistener`: "one listener receives the devices' UDP broadcasts"
   (`purifier/discovery.py:3`). Two entries set up together both find
   `_listener` None before the await and both make one; the first is never
   stopped.
2. `ble_unavailable`: "Disconnect handling with unavailable entity states"
   (`README.md:24`). A drop during the initial reads is followed by
   `available=True`.
3. `ble_unload`: "Disconnect from the device" (`coordinator.py:87`). An attempt
   in flight completes after the unload and keeps its link, although no
   disconnect failed.
4. `setup_follows`: "It follows configured purifiers to a new address"
   (`purifier/discovery.py:4`). A search that outlived its coordinator moves the
   entry only. The device loaded meanwhile keeps the old address, and the
   announcement of the new one equals the entry's and is ignored (98). The
   device's own search finds the purifier later, as `FoundAgain` shows.

Seen in the models, without a run of their own:

- "When the purifier gets a new IP address, Home Assistant finds it again on its
  own" (`README.md:107`): if another device answers at the old address and rejects
  the key, each attempt is a rejection, which starts no search
  (`purifier/coordinator.py:276`, 288-301). The entry asks for a key instead, and
  the purifier is found by its announcement only. `FoundAgain` says exactly this.
- A `disconnect()` that fails leaves a link that the client has forgotten
  (`client.py:270-276`). When it ends later, `_handle_disconnect` (395-397) clears
  the `_client` of a newer link, which then is left behind as well.
- A drop while the services are asked for (`client.py:134-136`) leaves `_services`
  set without a client, and `async_connect` goes on. The next attempt does not
  clear them, since it tests `_client` (104); a write that comes while that
  attempt asks for its own services may use them.
- "reconnects right away" (`lan/device.py:250`): `_sleep` clears the event before
  it waits. If the reconfiguration cuts a status request, the loop's own drop
  queues behind that of the reconfiguration; `_wake.set()` happens in between
  and is cleared. The device reconnects after the full second instead.
- "Consecutive key rejections" (`const.py:34`): an unreachable attempt resets the
  counter of a running device (`purifier/coordinator.py:290`), not that of the
  setup (130).
- "Stop a network search that is still running" (`async_remove` of
  `config_flow.py`): a flow that is removed while its manual step awaits the scan
  (359) has no search yet; the step then starts one that nobody stops. It ends by
  itself (`LookupStartsSearch`, `Answered`).
- An attempt that is cancelled during `finally: await device.async_close()`
  (`lan/search.py:138`) leaves the key registered for good (`LeftBehind`). That is
  the safe side: `KeyRegistered` holds.

## Fairness

`LanDevice`: weak fairness of the worker thread, of the background task, of the
delivery of results (one conjunct: the loop handles its ready queue in order),
and of the two timers. The blocking calls return because the library's sockets
have timeouts (`connect_timeout`, `receive_timeout`) and the close interrupts
them. Nothing requires a caller to call, a purifier to move or a network to
break. `Recovers` carries its environment as a hypothesis.

`BleCoordinator`: weak fairness of every step of an attempt. Reads, writes and
subscriptions have timeouts in `client.py`, the dial passes its own to
`establish_connection`, and the calls that have none (`stop_notify`,
`disconnect`, service discovery) are bounded by bleak, which is external. Strong
fairness of taking the lock: `asyncio.Lock` serves its waiters in order.

`PurifierSetup`: weak fairness of the steps of a setup (connections, scans and
refreshes have timeouts; Home Assistant retries a setup that failed and performs
a scheduled reload), of the callbacks of the running device (its loop keeps
trying, see `Recovers`), of a search (bounded attempts with timeouts), and of
the passage of time. There is none for announcements and for the user, so
`FoundAgain` rests on the search by key alone.

`ConfigFlow`: weak fairness of handlers that are suspended (a scan of limited
length, a connection with timeouts), of progress steps (their tasks end, and
Home Assistant goes on), and of a search (bounded attempts with timeouts). None
for the user.

`PurifierData`: weak fairness of the purifier handling what it received, of the
worker, the loop, and the background task; strong fairness of a full read, which
comes due again and again (`status_interval`) however the other jobs interleave.
None for commands, own changes and losses; `Converges` assumes that they cease. It
also assumes of its environment that an attempt to connect succeeds (`WorkOpen`
never fails): attempts that fail, and the pauses between them, belong to
`LanDevice`, where `Recovers` shows that the connection comes back.

## Proofs

`LanDeviceProofs.tla` proves for all sets of callers, settings and library
objects, and any number of versions, from the assumptions named in `LanDevice`:

- `TypeCorrect`: `Spec => []TypeOK`
- `SocketsNeverLeak`: `Spec => []OneSocket`
- `NeverSettlesOnOldSettings`: `Spec => []ConnectedToConfigured`

`OneSocket` and `ConnectedToConfigured` are not inductive. `OneSocket` needs to
know that the local variable of `_w_open` is set only inside it, and `_api` only
outside: otherwise `_w_open` could put a second object next to the one in use.
That is `WorkerShape`. `ConnectedToConfigured` speaks of `_api` only, but an
object made from old settings is in `_w_open`'s local variable before it becomes
`_api`, so `DropsOldSettings` speaks of both. It also has to name the *right*
drop: a drop of the background task would not do, since the close cancels that
task and its queued job may be skipped; the drop that counts is a caller's
(`CallerDropPending`), which is never skipped, stays ahead in a first-in
first-out queue, and, once the worker takes it, finds no `_w_open` in progress.
The inductive invariant is

    IInv == TypeOK /\ WorkerShape /\ OneSocket /\ DropsOldSettings

It is preserved step by step in three groups: the worker taking a job
(`TakeKeeps`), the worker executing one (`WorkKeeps`), and everything else,
which changes no connection and only appends jobs (`LoopStep`, `LoopStepKeeps`),
apart from `async_reconfigure` (`ReconfigureKeeps`), which leaves old
connections and appends the drop in the same step.

`LanLinkProofs.tla` proves `KeepsItsPromises`: `Spec => ImplementsLink`. Most steps
are invisible to the users; the hard one is the end of the close. `Closed` of
`LanLink` has no connection and is followed by none, so the proof has to know
that the drop of the close is the last job that matters. `DropIsLast` follows that
job through the queue (no attempt to connect behind it), at work, and as a
result (no connection, no attempt left). It rests on `ClosingTasks`: the
background task has been cancelled before, and the setup's attempt ended.

It also proves

- `CloseLeavesNothing`: `Spec => []ClosedIsClean`
- `NobodyIsRefused`: `Spec => NoJobAfterShutdown`

The drop of the close need not be the last job in the queue: a caller whose
request is lost appends a drop of its own. `AskersFirst` says that a caller that
may still do that asked before the close, so its job or result is ahead of the
close's, and has been handled when the executor is shut down. It is preserved
because both queues are first in first out; the lemmas `AppendBehind`,
`AppendFirst`, `HeadFirst` and `TailNoClose` say so for any sequence.

`LanUseProofs.tla` proves, from the same assumptions,

- `AvailableIsCorrected`: `Spec => []AvailableMeansConnected`
- `ConnectedIsShown`: `Spec => []ConnectedMeansAvailable`
- `SentStaysScheduled`: `Spec => []ReadBackScheduled`

What the loop shows lags behind what the worker did by the results in `ready`,
and several tasks open, lose and drop connections at once. The properties say
only that some correction is under way, which is not inductive: it must be the
right one, and nothing behind it may undo it. The invariant says which:

- `ShowsConnection`: the last result that tells of a connection (an attempt that
  succeeded, a drop), or what is shown when there is none, agrees with `api`.
- `OpensUnconnected`: a task opens a connection only while there is none, so a
  failed attempt may report that the device is unavailable.
- `SentIsReadBack`: behind a command's result there is none of a status or an
  attempt, which would take it off the schedule; or the schedule holds it and
  none is under way; or the background task is about to read, or to drop.
- `JobsAwaited`, `OneJobEach`: a task has at most one job or result, and awaits
  it, so the results of one task tell what it will do next.
- `SetupAlone`: the setup connects while nobody else uses the device.

All of these hold while the device is in use. They end with the close, which
cancels the background task, and with a setup that is cancelled while it
connects: its attempt goes on and may make a connection that nobody is told of.
After that the device is only closed (`CancelledIsUnused`), and nothing was sent
(`OnlyStartedSends`). Every step of the loop is one of a single shape, a task that
takes its result and submits a job or not (`LoopMoves`); `MovesKeep` treats them
all at once, and `FinishKeepsUse` every job that ends. TLC checked the whole
invariant (`SInv`, with the constants of `lan_safety`) before it was proved.

`PurifierSetupProofs.tla` proves for all addresses, any of them with another device,
every number of rejections and every longest interval:

- `TypeCorrect`: `Spec => []TypeOK`
- `NobodyAskedInVain`: `Spec => []NoNeedlessReauth`
- `OutagesStartAfresh`: `Spec => []OutageFromScratch`
- `RunningAsksInARow`: `Spec => RunningReauthIsConsecutive`

The first two invariants need `UpShape`: a device is available only between its
first connection and its loss or unload, so that neither a failing setup, which
may ask for a key, nor the clock can meet an available one. The action property
needs `CountShape`: what a running device has counted was in a row (`failures`
is at most the streak). This cannot be had from the setup's counter, for which
the same statement fails (see the notes above); a running device starts its own
from zero.

`ConfigFlowProofs.tla` proves for any number of flows, devices and addresses, any
`Concurrency` and any bound on submissions: `OnlyProvenAreAdded`,
`EntriesAreNotReplaced`, `RemovedFlowsStopTheirSearch`, `NoAttemptIsLeft`,
`HandlersHaveTheirData`, each stating the property of the run. The inductive
invariant has a part for each module:

    IInv == SearchInv /\ FlowInv

`SearchInv` says that attempts exist only in a search that tries or cleans up,
and that only the address searched for was accepted. `FlowInv` has, besides the
shape of the flow objects, what `OnlyProven` needs: `Aimed`, the search of a flow
looks for the device of its input and no other, so a result found by an older
search or after a change of the form cannot be taken for it; and that a flow
that trusts a product key is about a Podium.

It also proves `TypeCorrect` (`Spec => []TypeOK`) and `KeysStayRegistered`
(`Spec => []KeyRegistered`). The first needs the second: that the counter of the
key never goes below zero is its type. They rest on a second invariant, `KInv`,
that counts: the attempts that hold the key (`Keyed`) and the flows that check it
(`Checking`) are together at most the counter (`CountInv`), and `WorkersInv`
says where a worker's device stands, so that each one unregisters what it
registered and no other does. A cancelled close makes the counter too high, never
too low, hence at most and not equal. Counting needs finitely many searches and
addresses (`FiniteAssumption`), which any program has.

`PurifierDiscoveryProofs.tla` proves for any entries, scans, listeners and ports:

- `TypeCorrect`: `Spec => []TypeOK`
- `CountIsNeverTooLow`: `Spec => []NeverUndercounted`
- `EntriesAreServed`: `Spec => []Served`
- `ScansSpareTheShared`: `Spec => SharedKeepsListening`

`NeverUndercounted` compares the counter with the number of entries present; the
lemmas `OneComes`, `OneGoes` and `NobodyComes` say what a step does to that
number. `Served` needs it: a release stops the listener when the counter reaches
zero, and the counter at zero means that nobody is present. `SharedKeepsListening`
needs `ScansApart`: the listener that a scan made itself never becomes the shared
one. The proof also uses that a listener is bound by one task at a time
(`BindersShape`); the invariant says nothing of how many listeners there are,
since `OneListener` does not hold.

`BleCoordinatorProofs.tla` proves for any number of tasks and links:

- `TypeCorrect`: `Spec => []TypeOK`
- `LinksAreKnown`: `Spec => []NoOrphanLink`
- `ServicesAreCurrent`: `Spec => []ServicesOfClient`
- `ConnectedDevicesAreShown`: `Spec => []ConnectedIsShown`

`LinksShape` says what the holder of the lock and the client share: the client
has no link until the attempt gives it one, then that one or none, and no other
is up during the reads but those left behind. Until the unload at most one link that was not left
behind is up (`OneLink`), so the end of a link forgets no other, unless one was
left behind, and then it joins those. `Shown` carries the availability from the
end of the reads on, over the callbacks that are still scheduled. A link that was
left behind may end at any time, so a notice may be scheduled while a new link is
being made; `LoopCaughtUp` is what has it handled before the reads end.

`PurifierDataProofs.tla` proves for any number of messages under way and any
modes, speeds and percentages that occur:

- `TypeCorrect`: `Spec => []TypeOK`
- `AvailableIsConnected`: `Spec => []ShownMeansConnected`
- `MergesInOrder`: `Spec => []CaughtUp`
- `SpeedsAreShown`: `Spec => []SpeedsRoundUp`
- `FilterLifeIsTheShare`: for every positive total and every number of minutes
  used the filter life is between 0 and 100, 0 when the filter is overdue, and
  within half a percent of the share that remains. It is about two numbers and
  no state, so no run states it.

`JobsShape` gives the background task and the command at most one job or result
each. `LinkShape` follows the connection through the results: a result of a
connection is handled before the result of its loss, so `_on_status` is not called
after it. `Telling` is what `CaughtUp` needs while reports are under way: for each
data point the last report that names it, in `pushes`, else in the results, else
the cache, has the purifier's value (`Told`), unless a change went unreported.
`SpeedsRoundUp` is shown by the four speeds in turn, for every percentage.

Assumptions. Every theorem uses only the named assumptions on the constants: the
tasks and `None` values are distinct from the members of the sets, numbers are
natural numbers where the code has a count, the bounds on what is under way
(`MessagesAssumption`, `MaxSubmissionsAssumption`) are any natural number, what
is used is among what there is (`UsedAssumption`, `SpeedsAssumption`,
`StrangersAssumption`), and sets that are counted are finite. TLC evaluates each of them in a run.

Model-checked only: all liveness (`Recovers`, `LinkIsLive`, `AttemptsEnd`, `Answered`,
`Converges`, `FoundAgain`, `AsksForKey`), since fairness and ENABLED are outside
what the prover handles. Every safety property of a passing run is also proved.

## Not modelled

- The Bluetooth steps of the config flow: a list of addresses and no await that
  matters.
- `ble.py`, `models.py`, the data points of `purifier/model.py` other than power,
  mode and filter, `looks_like_purifier` (a device is a Podium or not), sensors,
  diagnostics: values are decoded one by one and hold no state.
- The log filter and the variants of a key in `lan/redact.py`; request broadcast
  and decryption in `lan/discovery.py`; the choice of the Bluetooth backend.
- Exceptions the library raises outside its documented errors would end `_run`;
  which ones exist is not visible in this code.
- The list of subscribed characteristics is abstracted. The stop of Home Assistant
  disconnects like an unload does.
- The probe tool, a script that shares no state with the integration.

## Plan

Done, in this order: `LanDevice`, `PurifierDiscovery`, `BleCoordinator`,
`PurifierSetup` with the proofs of the first and the last; `LanSearch` and
`ConfigFlow`; `PurifierData`; `LanLink` and the refinement; the proofs of these
and of the discovery and Bluetooth modules.

Then every safety property of a run that passes, as a theorem: `LanDevice` in
use, the counter of the keys, the merge of reports.

Left: abstract specifications of the other components in the manner of `LanLink`,
and the steps that implement them: the link that `BleCoordinator` shows to its
entities, and the listener that `PurifierDiscovery` lends to entries and scans.
Liveness stays with TLC.
