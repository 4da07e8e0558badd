# A TLA+ model of the Nivona coffee machine integration

This directory specifies `custom_components/nivona_nicr`, a Home Assistant
integration that drives a Nivona coffee machine over Bluetooth Low Energy. The
modules are translated from the Python sources, checked with TLC on small
instances, and the properties that matter most are proved with TLAPS for every
value of the constants.

## 1. The system

Everything runs in one asyncio event loop: a coroutine is interrupted only where
it awaits. There are no threads, so the hard part is not data races but *what
may happen at an await*: another task runs, the link is lost, a callback fires, a
timer ends, a task is cancelled.

| Component | Source | State it keeps | Operations | What makes it correct |
|---|---|---|---|---|
| Connection manager | `ble_client.py`, `__init__.py` | `_client`, `_connected`, `_auto_reconnect`, `_disconnecting`, `_connect_lock`, `_reconnect_task`, `_poll_task`, `_reconnect_event`, the wedge counter | connect (three attempts: connect, notify, handshake, reads), reconnect loop with backoff, poll loop, disconnect, `_on_disconnect`, `set_ble_device`, repair, unload | no link is forgotten (the machine takes one), a session is polled and announced, an outage always has a loop that ends it |
| Request layer | `protocol.py` | per attempt to connect: `_lock`, `_ack_future`, `_frame_futures`, `_key_prefix` | send_and_wait_ack (2 attempts), send_and_wait_response, handshake, dispatch | a caller gets the answer to its own call, every call ends |
| Frame parser | `protocol.py` | per attempt to connect: `_recv_buffer`, `_frame_start_time` | on_ble_data, one byte at a time | every whole frame is dispatched, the buffer resynchronises |
| Brew and maintenance commands | `_ble_commands.py`, `_ble_settings.py` | `_brew_lock`, the poll task, the machine's temporary recipe registers | brew_nivona, brew_mycoffee_slot, write_alpha, cancel, HY, HE and HW commands | a brew uses its own recipe, polling is resumed |
| Status and auto-confirm | `ble_client.py` | `_status`, `_last_auto_confirmed` | `_on_status`, `_maybe_auto_confirm` | a soft prompt is confirmed once, a new one is answered |
| Clock synchronisation | `__init__.py` | `_last_sync` | on connect (throttled), daily (forced), the service | a clock that is off is set right |
| Config entry | `__init__.py` | `hass.data`: the database, the panel's flag; services, tasks, listeners | migrate, set up, register panel and services, unload, remove | what a loaded entry uses is there, setups and unloads end |
| Config and options flow | `config_flow.py` | the flow's step and machine, the entry's options | user, scan, manual, discovery, pair, the two option forms, reconfigure | one entry per machine, no form undoes another |
| Pairing agent | `ble_agent.py` | a D-Bus session | register, discover, pair, clean up | discovery, agent and bus are always released |
| Sommelier database | `sommelier_db.py` | one SQLite connection, `_lock`, the open transaction | set-up, migrations, seeding; statements on beans, hoppers, milks, sessions, favourites, ratings, presets, profiles | an answer is durable, what an operation has read still holds when it writes |
| Sommelier API | `sommelier_api.py`, `ai_recipes.py` | a request's own variables | WebSocket handlers | what is stored is whole |
| Panel API | `panel_api.py` | a request's own variables | producers, additives, tags, prompts, the language model's structured calls | they report what was done |
| Recipes, profiles, counters | `_ble_recipes.py` | caches | reads and writes of slots | not modelled |
| Brands, capabilities, domain | `brands/`, `coffee_platform/`, `capabilities.py`, `const.py` | tables | look-ups, decoders | not modelled |
| Entities | `sensor.py`, `button.py`, ... | sliders' `user_set` | press, set, available | not modelled |
| Diagnostics, frontend, ESPHome proxy | `diagnostics.py`, `www/`, `esphome/` | views | - | not modelled |

How they interact: entities and services call the client's commands; a command
tests `connected`, may take `_brew_lock`, and calls the request layer, which
takes `_lock`, writes chunks through `_write_ble` and waits for a future. The
radio calls back into `on_ble_data`, which parses frames and resolves the
futures or passes a status to `_on_status`, which may start an HY of its own.
Losing the link calls `_on_disconnect`, which starts the reconnect loop;
connecting calls `start_polling` and the connection callbacks, which start the
clock synchronisation and refresh the entities. The client is made once per
entry. The protocol object is not: every attempt to connect makes a new one
(`ble_client.py:694`), with a lock, futures, a receive buffer and a key of its
own. A call that outlives its link, because it waits for the lock, for its answer
or between two attempts, goes on with the old object; what it writes goes through
the same `_write_ble` out on the new link, beside the handshake and the calls of
the new object, which also gets what the machine answers to it.

All entries share one Sommelier database. The first setup, or a WebSocket
request that finds none, opens it; the handlers of all browser windows and the
capabilities probe of every entry execute their statements on its one
connection; the unload of the last entry closes it. Config flows run beside all
this; a pairing that a flow awaits goes on when the flow is dismissed.

What is hard: interleavings at awaits, lost links in the middle of anything,
answers that carry no identity and may be late, retries of commands that are not
idempotent, loops that start each other, cancellation, and state that was tested
before an await and is used after it. `PROJECT.json` lists the hazards at their
lines.

## 2. The plan

The order follows what a user loses when it breaks: the link, then the answers
to commands, then what is brewed with them, then everything else.

| # | Module | State | Composes | Abstract specification | Theorems |
|---|---|---|---|---|---|
| 1 | `BleConnection` | done | - | its safety properties | all four, and the types |
| 2 | `MachineCalls` | done | - | it is one: what a call of the request layer promises | - |
| 3 | `EugsterProtocol` | done | implements `MachineCalls` | `MachineCalls` | types, answers, the refinement |
| 4 | `BrewCommands` | done | uses `MachineCalls` | `OwnRecipe` | types, own recipe, polling |
| 5 | `LinkServices` | done | the session of `BleConnection`, HY, HR and HW of `MachineCalls`, each as one bit or step | its liveness properties | once per appearance |
| 6 | `FrameParser` | done | what `Dispatch` of `EugsterProtocol` receives | the frames sent | buffer, step with the sender, delivery |
| 7 | `SommelierDB` | done | - | the schema and its statements, as functions of a database | what each statement writes |
| 8 | `SharedConnection` | done | extends `SommelierDB` | - | schema, presets, durable answers, file reopens |
| 9 | `PanelApi`, `SommelierApi` | done | extend `SharedConnection` | - | types and lock, upserts, active profile, whole sessions, milk, errors |
| 10 | `Onboarding` | done | - | - | nothing left behind, options kept |
| 11 | `EntryLifecycle` | done | abstracts the database to the connection it opens | - | types, captured connections, shared registrations |

The first plan had auto-confirm and the clock as two modules; they became one,
because both are tasks that outlive the session they were started in and share
the session's losses. Pairing and the config flows became one module for the
same reason: a pairing outlives its flow. Not planned any more is the drift as
arithmetic on a circle: all the code does with it is to compare it with a
threshold. The database came last, as one proof module over the four that
extend each other. What is not proved is what the prover cannot reach, the
liveness properties. No module has a RECURSIVE operator.

## 3. Modules and the code

### BleConnection

One action is the code between two awaits of `ble_client.py`, or of the tasks in
`__init__.py` that drive it, named for what the await ended with. The state is
the client's attributes by their own names without the underscore (`connected`,
`client`, `auto`, `disconnecting`), the place of each task (`pc` for the two
loops, `stage` inside `_connect_impl`, `poll`, `closer` for the two callers of
`disconnect()`), the links (a `BleakClient` each) and the machine (`on`,
`present`).

| Code | Actions |
|---|---|
| `_async_connect_and_poll` | `InitialStarts`, `InitialWakes` |
| `_reconnect_loop` | `ReconnectStarts`, `ReconnectWakes`, `ConnectReturnsTrue`, `ConnectReturnsFalse` |
| `_connect_impl`, three attempts | `Acquire`, `EstablishFails`, `EstablishSucceeds`, `NotifyFails`, `SendChallenge`, `HandshakeReply`, `HandshakeSucceeds`, `HandshakeFails`, `DropDone`, `UnpairConnects`, `UnpairDone`, `WriteRaises`, `AbortDone`, `ReadType`, `Announce` |
| `_poll_loop` | `PollExits`, `PollReturns`, `PollRaises`, `PollCloses` |
| `disconnect` | `BeginDisconnect`, `EndDisconnect` |
| `async_unload_entry` | `UnloadStarts`, `UnloadEnds` |
| repair (service or wedge counter) | `RepairRequested`, `RepairStarts`, `AfterDisconnect`, `RepairRearms` |
| `_on_disconnect` | `OnDisconnect` within `LinkDrops` and wherever the code closes a link itself |
| `set_ble_device`, presence | `Advertise`, `PresenceExpires` |
| the machine and the radio | `LinkDrops`, `PowerOff`, `PowerOn`, `CalmBegins` |

A link that the machine has lost while `is_connected` is still true here is
"silent": writes without response succeed and no answer comes. Identities of
links are reused once nothing refers to them. `_reconnect_event` is represented
by the waits it ends (`woken`): both loops clear it just before they wait, which
is how a wakeup can be lost.

### MachineCalls and EugsterProtocol

`MachineCalls` is what the request layer promises: a call that is under way may
be carried out by the machine, at most once per attempt, and it ends with the
answer to that very call or with none. `EugsterProtocol` is how `protocol.py`
tries to keep it: `Call`, `Acquire` (`_lock` and the new future), `Written`,
`WriteRaises`, `Resume`, `Timeout`, `PauseEnds` are the steps of
`send_and_wait_ack` and `send_and_wait_response`, `PollCancelled` is
`_stop_polling` inside a poll, `MachineReads` is the machine. `lock`, `ack`,
`frames`, `answer` and `keyPrefix` are functions of the protocol object:
`protocol` is that of the last attempt to connect, which `Attempt` makes new, and
`uses` is the one each call under way has been made on. `Written` puts a frame on
the link there is, whichever object wrote it; `Dispatch` is `_dispatch_frame` of
the last object, which resolves its `_ack_future` with any A or N and a read's
future with any frame of that name. `HandshakeDone` and `LinkLost` change the
session and its key. An object that no call runs in is as good as new, so two
are enough for a call of an old one beside those of the last. `KeepsPromise` says
that the detailed module implements the abstract one, under the mapping that shows
a call from `Call` until its end and hides everything else.

### BrewCommands

The commands that hold `_brew_lock`, above the request layer, of which they see
`MachineCalls` only. `BrewTemp`, `BrewSaved` and `WriteAlpha` are the entries
(the tests, the lock and `_stop_polling` have no await between them);
`Written`, `WriteNext` and `StartProcess` go through the overrides of
`brew_nivona`; `Finish` and `Cancelled` are the `finally` clauses;
`LinkMade`, `ConnectReturns`, `LinkLost` and `PollExits` are what the connection
manager does to `connected` and to the poll task, at the two moments that matter
here (`_connected` is set some awaits before `start_polling`); `StatusArrives`
replaces the status that `_is_brew_ready` reads. `slot` is the machine's
temporary recipe, each register identified with the brew that wrote it.

The connection manager and the brew commands meet in the poll task and in
`connected`: `BleConnection` has the poll loop without the commands that pause
it, `BrewCommands` has these and only what the connection manager does to it.

### LinkServices

`StatusArrives` is `_on_status` with `_maybe_auto_confirm`: `status`, `last`
(`_last_auto_confirmed`) and the task it creates, which waits for the protocol in
`confirms` and ends as `ConfirmLands` or `ConfirmFails`. HY carries no prompt, so
`ConfirmLands` confirms whatever is shown by then, and since "the machine always
ACKs `HY`" and its A is no "prompt cleared" (`_ble_commands.py:442`) it may as well
leave it shown. In that case, as after a failure, the code does not try again as
long as the reports name this prompt; `PromptAnswered` says so and no more: `tried`
marks that a confirmation which was begun for the prompt shown has ended and left
it there. `_trigger_sync` is cut at its
awaits: `SyncBegins` (`connected` and the throttle), `ReadAnswers`/`ReadFails`,
`WriteLands`/`WriteFails`; `sync` says where each is, because several can be under
way. `DailyTick` and `Connects` start them, `ServiceSyncs` is the service. The
clock is right or off by the threshold; a rejected write sets `_last_sync` like a
good one.

### FrameParser

`Receive` is one byte in `_process_byte`: `Starts` (no frame, or one older than a
second), `Overflows`, `Collects`, `Completes` (with `_try_parse_frame`). The
machine's frames come in order (`queue`, `taken`). `Lose` loses a byte and leaves
the buffer alone, so that what is left of a frame meets the next one; `LinkLost`
loses all that is under way, and the buffer with it, because the next link has a
protocol object of its own.

### SommelierDB, SharedConnection, PanelApi, SommelierApi

`SommelierDB` has the schema (`Databases`), its foreign keys (`References`) and
one operator per writing statement; `Script` has the statements of the migrations,
each with its version, what it `needs` and whether it `fills` rows, and `migrated`
those that have gone through. `SharedConnection` adds how the one
connection is used: `work` is what it sees, `disk` what is committed, `writers`
who has executed without committing, `contended` the history that two activations
of profiles have overlapped, in this run or in an earlier one that left two active;
`Leftover` is a file that an earlier run may leave. `OpenDatabase`, `Migrate`,
`FinishMigration`, `SeedPreset`, `FinishSeeding` are `async_setup`. `Migrate` is one
statement, which goes through (`MigrationApplies`) or raises and is passed over
(`MigrationFails`): for want of what it needs, or for any other reason. A back-fill
opens a transaction, in which later statements and the version are then committed
together. `migration` has the statements still due and the history `failed`, those
whose last execution raised. `FinishMigration` writes the version whatever has
failed; without the table of the presets the seeding raises, and so does
`async_setup`. A statement of a request may raise for want of a column or table
that a migration failed to make (`StatementRaises`).
`LoseConnection` is a kill or the last entry's unload, `AcquireLock` is `async with
self._lock`, `Commit` commits what *everybody* has executed. `Execute` is a statement
that SQLite may refuse; the request then ends, and nothing is rolled back. A
handler that is one statement is a `Single`; the others are operators of the
handler's name with a disjunct for each await (`WsGenerate`, `WsFavoritesUpdate`,
`WsProfilesActivate`, ...). `EnsurePanelSchema` is the
`executescript()` with which every panel command begins, and which commits.
`TextReply` with `Judged` is an attempt of `_structured_call`.

### Onboarding

`flow` has the step of each config or options flow, `pairing` the await at which its
`async_pair_device` is: `BusConnects`, `AdapterFound`, `AgentRegistered`, `Checked`,
`DeviceAppears`, `PairReturns`, and `CleansUp` for `_cleanup`. `Claims` is
`async_set_unique_id` with `_abort_if_unique_id_configured`. `Creates`, `Dismisses` and
`RemovesEntry` are Home Assistant's. `OpensForm` and `SubmitsForm` are the two
option forms; a form returns the values it showed when it was opened.

### EntryLifecycle

`pc` is the await at which the setup or unload of each entry is, `own` the database
connection it is opening or closing, `handle` the one its probe callback has
captured. `SetupStarts` is `async_migrate_entry` (`Migrated`) and
`async_setup_entry` up to `_async_get_db`; `LibraryOpened`, `Forwarded`,
`PanelRegistered` and their failures are the rest; `UnloadStarts`,
`PlatformsUnloaded`, `Disconnected` (with `TearDown` when no other entry is
configured) and `Closed` are `async_unload_entry`. The services are registered in
the same step as the platforms return. `crossed` records that this happened while
a last unload awaited the close of the database, after which it removes the
services.

## 4. What is checked

| Run | Instance | Properties | What it shows |
|---|---|---|---|
| `conn_safety` | proxy, 3 links, 2 errors, repair after 1 | `TypeOK`, `LinkOwned`, `SessionPolled`, `SessionAnnounced`, `OutageArmed`, `IInv` | no order of loops, polls, repairs, unloads and losses leaks a link, leaves a session unpolled or unannounced, or an announced outage without a loop |
| `conn_recovers` | local adapter, 2 links, 1 error | `OutageRetried`, `CalmRecovers` | such an outage is retried; when the machine stays on and nothing is lost any more, it ends in a connection |
| `proto_calls` | poll loop and 2 callers, 1 write, 2 reads, 2 protocol objects and keys, 2 frames under way | `TypeOK`, `AnswersItsCall`, `IInv`, `KeepsPromise` | over any number of reconnects, and with a machine that answers in time or not at all and keeps its sessions apart, nobody gets another call's answer; the request layer implements `MachineCalls` |
| `proto_ends` | poll loop and 1 caller, 2 protocol objects, any machine | `CallEnds` | every call ends |
| `brew_lock` | 2 callers, 2 overrides | `TypeOK`, `OwnRecipe`, `PollingResumes`, `IInv`, `BrewEnds` | temporary recipes are not mixed, polling comes back, the lock is let go |
| `link_services` | 2 soft prompts, a hard one, a machine that clears a prompt on HY or not, one reconnect's synchronisation beside the daily one, 2 confirmations under way | `OncePerAppearance`, `PromptAnswered`, `ClockCorrected` | a prompt is confirmed once while it is reported, a new one is answered, the daily tick repairs what the throttle passed over |
| `parser` | 5 frames, buffer of 6, bytes and links lost anywhere | `BufferBounded`, `InStep`, `DeliveredWhole` | what meets an empty or stale buffer and arrives whole is dispatched, once and alone |
| `db_library` | 2 clients, 3 requests of ten commands, a library in use, one of the first version or none, 3 statements of migrations of which one fails | `TypeOK`, `UpsertsSeeTheRow`, `OneActiveUncontended`, `GeneratedWhole`, `SystemPresetsStay`, `SchemaComplete` | the lock keeps ratings apart, sessions are stored whole, only overlapping activations leave two active profiles, presets are whole, and nothing is missing of a schema but what failed |
| `db_catalog` | 2 clients, 2 requests of thirty commands, a pantry or no file, losses | `AnswerIsSaved`, `ErrorsTellValidity`, `MilkKept`, `RequestsEnd` | answers are durable, errors are those of the reply, toggles survive a bulk save, requests end |
| `onboarding` | 2 flows, 2 machines | `OptionsKept`, `NothingLeftBehind` | options survive the other form and a late pairing, no pairing leaves anything at BlueZ |
| `entry_life` | 2 entries, one of an older version, 1 request that opens the library, 3 connections | `TypeOK`, `CapturedIsOpen`, `SharedWhileLoaded`, `SetupsRest` | what a loaded entry uses is there, setups and unloads come to rest |

The code also does what its documentation excludes. The last of these is a run,
`entry_renames`, which expects its violation; the others are kept as
configurations, and `tlc -config conn_leak.cfg MCBleConnection`, for one,
reproduces its trace. Each is an ordinary sequence of legal steps.

| Configuration | What is said | What happens |
|---|---|---|
| `conn_unarmed` | BLE_ARCHITECTURE.md:188, a disconnected client is in the reconnect loop | the link drops during the last read of a reconnect; `_on_disconnect` finds the reconnect task still running, which then ends with success |
| `conn_rearmed` | BLE_ARCHITECTURE.md:196, `_auto_reconnect` is False after shutdown | a repair that was awaiting switches it back on |
| `conn_leak` | CHANGELOG.md:2119, README.md:149, unloading frees the machine's one connection | `disconnect()` comes before the connect task is cancelled, and its link stays |
| `conn_zombie` | CHANGELOG.md:2121, three poll errors end a link that is dead without a callback | a poll without an answer returns None and resets the count |
| `proto_late_ack` | PROTOCOL.md:471, A means success | an A that comes after the timeout is taken for the answer to the next command |
| `proto_old_session` | PROTOCOL.md:471, A means success | a call outlives its link and writes its frame on the next one; the answer resolves the future of a call of the new protocol object, if the machine has chosen the old key again or answers N to a frame it cannot read |
| `brew_overrides` | `_ble_commands.py:109`, every override is written before HE | a failed write is logged and the brew started |
| `db_swallowed` | the comments at `sommelier_db.py:437` and `:470`, a statement that raises has found its column or table there already, and running it again is safe | any error is swallowed: the back-fill of the machine phases raises on a row that is not JSON, the version is written, no later start tries it again, and `_attach_machine_phases` makes up for the rows left over |
| `entry_renames` | CHANGELOG.md:129 and the comment at `__init__.py:724`, the migration to version 3 renames the statistics of Nivona entries | the test at `__init__.py:726` is `!= DEFAULT_BRAND`, which is Nivona: those are the ones that keep the old id |

One more disagreement needs a file that no run of this code leaves, and so has no
configuration: seeding "repairs gaps" after "partial damage", says the comment at
`sommelier_db.py:499`, but `async_seed_system_presets` returns at line 1175 when any
system preset is there. `Leftover` assumes such a file away.

**Bounds, and why they are enough.** Three links let the client have one while a
poll loop and `disconnect()` are each still closing another; a fourth would only
add a second one of a kind that is there already. With local BlueZ the unpairing
makes links of its own, which is the instance of `conn_recovers`. Two errors let
a poll fail without closing, one failure before a repair makes the wedge counter
reach its threshold in one step and saturate there. Two callers besides the poll
loop suffice for a foreign answer: one to be late, one to receive it; two
attempts are the code's own number. Two protocol objects are the last one and
one that a call has outlived, since an object nobody refers to is as good as
new; two keys are that of the session and an older one; two frames under way are
one of each. More of them are lost, like any frame may be. The theorems cover
any number. In `brew_lock` a third caller could only be refused like the second,
and two overrides are one that fails and one that does not. The attempt counters
and the failures are bounded by the code itself; `failures` stops at
`RepairAfter`, above which the code compares nothing. In `link_services` two
soft prompts let one replace the other before its confirmation lands, and a hard
one stands between two appearances. In `parser` the buffer is as long as the
longest frame, so that garbage overflows it; `MaxQueue` is 1 because a frame
only meets what earlier ones left in the buffer, which stays when they are gone
but for a lost link. In `db_library` two clients are a reader and the one that
writes in between, and the third request can come after either has ended;
callers, sessions and profiles are interchangeable. Its three statements of
migrations are a column, the back-fill that needs it, and a table that is then
defined inside the back-fill's transaction and that the seeding needs; one that
fails of itself makes the next one fail too. `db_catalog` has commands whose
hazard is one loss of the connection or one other command in between, so two
requests. Two flows are a claim and its competitor, or two forms. Two entries
are the last one and one that is set up during its unload; three connections are
one for each of them and one for the request.
The safety results of `conn_*`, `proto_*`, `brew_lock`, `link_services`, `parser`,
`onboarding`, `entry_life`, `db_library` and `db_catalog` are also proved for every
value of the constants, which is what makes those bounds uncritical.

Deadlock is checked in all runs but those of the connection, where an unloaded
entry rightly stops, and the two of the database, where the bound on requests
ends the behaviour.

**Fairness.** Timers fire, and every await ends by an answer, an exception or its
timeout (`frame_timeout`, the handshake's timeout, bleak's own): weak fairness of
the steps that follow them. `asyncio.Lock` wakes its waiters in order, so a task
that waits for the `_lock` of its protocol object or for `_connect_lock` gets it
although others keep taking it: strong fairness of `Acquire`. In `BrewCommands` weak fairness of a command's
steps rests on `CallEnds`. Users, advertisements, the radio, the machine's power
and, in `EugsterProtocol`, its answers owe nothing; `CalmRecovers` assumes a
machine that answers (`HandshakeReply`) and is about behaviours in which, from
some moment on, nothing more is lost, which is an action of the
environment (`CalmBegins`) and not fairness.

In `LinkServices` tasks run, polls go on while the session is up and a reconnect
comes (weak fairness). The daily tick is a timer; that it, its reading and its write
find the session up infinitely often is strong fairness, an assumption about the
environment: a machine that is off at every tick is never set right. In
`SommelierApi` a request's steps are weakly fair: aiosqlite's thread works off its
queue, the machine and the language model answer or fail, within their
timeouts. This is enough at the lock too, which the bounded number of requests
cannot take over and over. In
`EntryLifecycle` an await of a setup or unload ends, since nothing in them waits
for another entry. `FrameParser` and `Onboarding` have safety properties only and
assume no fairness.

## 5. What is proved

Eight modules have a proof module of their own; that of `SommelierApi` is also
about the three it extends. The theorems hold for any links,
callers, commands, value ids, keys, fields, thresholds, prompts, frames, flows,
machines, entries, clients, rows, migrations and numbers of requests that satisfy
the modules' named assumptions
(`ConstantsAssumption`, `ProtocolAssumption`, `BrewAssumption`, `PromptsAssumption`,
`SyncsAssumption`, `NoMachineAssumption`, `OpensAssumption`, `DBAssumption`), which
only say that constants do not coincide and that counts are counts, and, in
`FrameParser`, `KnownAssumption` (no command of the table begins another, each
fits the buffer) and `FramesAssumption` (a frame begins with S, ends with E).
`ConnectionAssumption` adds what the file may hold when Home Assistant starts
(`Leftover`): its foreign keys hold, and it has all of the system presets or none.
Of its schema nothing is assumed. `FileReopens` proves that every run leaves
such a file whenever it is cut off, so what is assumed of the first start holds of
all later ones.

- **Connection.** `TypeCorrect`, `Invariance`, `LinksAreOwned`, `SessionsArePolled`,
  `SessionsAreAnnounced`, `OutagesAreArmed`. None of the four properties is
  inductive. That a link is owned needs to know that the holder of
  `_connect_lock` is where its stage says (`LockHeld`), that nobody closes a link
  which is still `_client` (`OneOwner`), that `_safe_disconnect` forgets the client
  first (`ClientForgotten`) and that no attempt starts over a connected one
  (`NothingToOverwrite`); that a session is polled and announced needs to know
  that a link lost between the reads is noticed (`ReadsConnected`). `IInv` is the
  conjunction; the proof has a case per action and goes by groups of conjuncts.
- **Request layer.** `TypeCorrect`, `Invariance`, `AnswersAreTheirs`,
  `PromiseKept`. The argument: several calls may have frames on the way to the
  machine, one for each protocol object that is still in use, but the session's key
  is one that no call of an older object can write (`SessionsApart`), so all that
  comes back is for calls of the last object; its `_lock` lets one of them at a time
  wait (`LockHeld`, `InFlightIsWaitedFor`), so the anonymous A or N that resolves a
  future answers its frame (`ResolvedByItsAnswer`), and a frame leaves the link when
  it is carried out (`OncePerAttempt`). What a call of an old object has in its
  futures no longer changes: it times out. These four need a machine that is
  `Timely` and keeps its sessions `Separate`; without either they are false, and
  `proto_late_ack` and `proto_old_session` show how. `PromiseKept` is the
  step simulation behind `KeepsPromise`: each step of the request layer is a
  `Begin`, `CarryOut` or `End` of `MachineCalls`, or a stutter.
- **Brew.** `TypeCorrect`, `Invariance`, `RecipeIsOwn`, `SessionsPolled`.
  `_brew_lock` admits one command (`LockHeld`), so each register holds what its
  holder wrote or is old (`SlotInUse`), an acknowledged write is in its register
  (`CarriedOut`, from the promise of `MachineCalls`) and every override is
  written, failed or still to come until the brew starts (`Accounted`); an
  edit that stopped the polling of a session remembers it (`PollingDue`).
- **Link services.** `ConfirmedOnce`. The remembered prompt is a function of the last
  status (`DebounceFollows`): a report that repeats the status cannot start
  another confirmation, whatever has become of the first, and no other step
  touches either. What the machine makes of an HY is not needed for it.
- **Parser.** `Invariance`, `BufferIsBounded`, `ParserInStep`, `FramesDelivered`. The
  core is `PrefixIsNoFrame`: a proper beginning of a frame of the table is not a
  frame, because its command fixes its length, so an end byte inside
  ciphertext closes nothing; then the buffer is the frame so far (`InStep`) and its
  last byte completes it.
- **Onboarding.** `Invariance`, `PairingLeavesNothing`, `UserOptionsKept`. A machine that a
  flow adds has no entry (`ClaimedIsNew`), two flows never add one machine
  (`OneFlowEach`), options are set only for an entry (`OptionsWithEntry`): an entry
  that is created has nothing to lose. What a pairing holds, it holds only
  between its first await and its clean-up (`ReleasedAtRest`).
- **Config entries.** `Invariance`, `TypeCorrect`, `CapturedStaysOpen`, `LoadedIsServed`. An
  entry whose setup or unload is under way is configured (`BusyConfigured`), so a
  teardown, which needs that no other is, runs alone; a connection being opened is
  one nobody has (`OpeningIsNew`, `OwnersApart`) and one being closed is one nobody
  uses (`ClosingIsUnused`). The services need the history `crossed`, because a setup
  that passes while the teardown awaits the close does lose them.
- **Sommelier.** `SommelierInvariance`, `SommelierTypeCorrect`, `RatingUpsert`,
  `ActiveProfile`, `GeneratedSession`, `PresetsStay`, `AnswersLast`,
  `SchemaIsComplete`, `ReplyErrors`, `FileReopens`, `MilkIsKept`. Requests
  interleave at every await on one connection, so each step is shown to do two things:
  leave the others what they rely on (`Frame`) and come to a place where its
  request may rely on what it has read (`Own`). There is one lemma `WsXKeeps` per
  handler, one `XIsHarmless` or `XIsSafe` per statement, and one proof that the two
  together keep the invariant (`KeptInvariant`). What the invariant needs beyond
  the properties, and why:
  - The rating that async_set_rating has looked up stays as it is because
    ratings are written under `_lock` alone (`Locks`), and a commit of
    another request does not change what the connection sees.
  - An activation has cleared `active` before its second statement; another one in
    between is what `contended` records, so without it no two requests are there
    and nobody else makes a profile active (`OneActivates`).
  - A session's key is fresh, so its recipes are inserted by one request alone, and its
    countdown says which it has inserted (`Stage`). `clear_history` may
    delete the session in between: then the next recipe violates its foreign key
    and the request fails, and what was stored is gone by the cascade.
  - The version is written after the last statement, and in the transaction of
    what a back-fill has left uncommitted: what is no longer due has gone through or
    raised, in the file as well unless a transaction is open (`MigrationOnCourse`).
    What has gone through is never undone but with the version that tells of it. The
    presets are one transaction, so a file has all of them or none, and the commands
    refuse to change or delete one.
  - A valid reply ends the attempts (`ReplyInv`), so errors that are reported
    are those of a call without one.

The `IInv` of the first three modules is also an invariant of a run; those of the
others were checked with TLC on the same instances before they were proved.
Model-checked only: the
liveness properties (`OutageRetried`, `CalmRecovers`, `CallEnds`, `BrewEnds`,
`PromptAnswered`, `ClockCorrected`, `SetupsRest`, `RequestsEnd`), which are out of the
prover's reach, and the disagreements, which are traces.
The modules avoid `EXCEPT` applied to the result of another one on the same key,
which the prover's SMT translation does not treat reliably; each leaf was also
tried with FALSE in place of its goal, and fails.

## 6. What is assumed and what is left out

Assumptions of the models:

- `client.disconnect()` ends the link, and `_on_disconnect` follows within it.
- A cancelled task ends at once: what its `finally` awaits is part of the step.
- The machine takes one link; what Home Assistant knows of its presence may be
  old. One repair at a time is in progress.
- A write of several chunks is one step; a frame that is written in part does
  not count. Losing the link loses what is in flight in both directions.
- The machine answers N to writes only. In the results about answers it is
  `Timely`: it answers within `frame_timeout` or not at all; and it keeps its
  sessions `Separate`: it takes a key for each session that no call under way still
  has ("`key_prefix` changes on every new connection", PROTOCOL.md:475), and does not
  answer a frame encrypted with another one. The code enforces neither.
- Frames that calls of an old and of the new object write at once may mix their
  chunks on the link; the machine then reads neither, which is the loss of both.
- A caller may wait a step longer for `_lock` than asyncio would make it: more
  interleavings than the code has, never fewer.
- Only the poll loop is cancelled while the link stays up; in `BrewCommands` any
  command may be.
- What `MachineCalls` promises, and with it `CarriedOut` of `BrewCommands`, holds for
  such a machine.
- A poll that waits for the lock or for its write can raise after its link is gone,
  and then closes whatever client there is by now. In the model `PollRaises` is a
  poll on a link that is; that a later link is lost, in its handshake too, is
  `LinkDrops`.
- The machine may keep or lose its temporary recipe with the link.
- HY confirms what the machine shows when it arrives. That this may be another
  prompt than the one reported, even a hard one, is what the code does; no
  property is stated about it.
- The checksum accepts every frame that was sent, and any other run of bytes of
  the right shape perhaps. Payloads are one byte in the run, of any length in the
  theorems. A second is a step that may come between any two bytes.
- A row of the database is its key and the columns other code decides on; a read
  is modelled where a write depends on it. The tables that migrations add have the
  foreign keys of the full schema. A request whose connection is gone fails, and
  one whose statement finds no column or table may.
- An earlier run has left all of the system presets or none, as every run does
  (`FileReopens`); a file damaged from outside is not considered, nor is one whose
  version cannot be read for another reason than that the table is missing, which
  is taken for a new file (`sommelier_db.py:439`). The two hopper rows, whose
  insertion may fail unnoticed, are always there.
- Two activations of profiles that overlap may leave two profiles active; the
  property says that nothing else does.
- Home Assistant holds a lock per entry, replaces an entry that is created again
  under its unique id, and aborts a flow whose unique id another flow has. BlueZ
  forgets what a bus registered when it disconnects. `_cleanup` is one step; a
  pairing is not cancelled. (A cancellation inside the clean-up would pass over the
  end of the bus.)
- Whether a brew is allowed is what the last status says, any Boolean here; the
  status may be older than the last brew, because polling pauses for it. The
  model lets a second brew begin then, as the code does, and leaves it to the
  machine to refuse.

**Not modelled.** Payloads, register numbers, the key schedule, formatting and
logging; brand paths that the only brand of this repository answers with
`FeatureNotSupported` (recipe reads and writes, freestyle and direct-key brews,
profile recipes, cup counters), with `_ble_recipes.py` which has little else;
tables of brands, capabilities and constants; entities, diagnostics, the panel's
JavaScript and the ESPHome proxy, which keep no state that another component
depends on. Of the database and the APIs: commands that only read, the ingredients
and sanitising of a generated recipe (it is a number of recipes),
`async_set_extra_available`, which no handler calls. Of the config entry: the
service handlers that are one call of the request layer, the clean-up of stale
registry entries, repair issues. Commands that are a
single call of the request layer (`cancel_process`, `confirm_prompt`,
`execute_he_command`, settings) are `Call` of `EugsterProtocol` with the command
as its `op`.

## 7. Running it

    tlc -config conn_safety.cfg MCBleConnection
    tlapm BleConnection_proofs.tla

and likewise for the other runs and proof modules, listed in `PROJECT.json`. The
longest runs take three to four minutes. Definitions
marked *Mutant* stand next to the one they change; no specification uses them,
they show that the properties notice such a change.
