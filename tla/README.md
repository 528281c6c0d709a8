# TLA+ verification of esp32-nut-bluetti

The firmware connects to a BLUETTI power station over Bluetooth, publishes it
as a UPS on the network (NUT) and shuts Proxmox hosts down when the mains stays
away. This directory models the parts of it whose correctness depends on the
order in which several tasks act, checks them with TLC on small instances and
proves its safety properties with TLAPS for every instance.

## The system

| Component | Source | State | Operations | Hard because |
|---|---|---|---|---|
| pve_engine | `pve_shutdown/pve_engine.c` | outage clock, mains clock, a latch per host and per guest rule | `pve_eval`, `pve_engine_sync_guests`, countdowns | outages interleave with link losses, flapping mains and edits of the rules |
| pve_shutdown | `pve_shutdown/pve_shutdown.c` | configuration, engine, queue of due hosts and guests, "a worker is running" | observe, reconfigure, worker task, self-test | three tasks, one lock, minutes of unlocked network work on a copied configuration |
| bluetti_ble (poll loop) | `bluetti_ble/bluetti_ble.c` | plan and position in it, in-flight flag, failure count, write queue, decoded state | timer callback, Bluetooth callbacks, controls API | the timer callback sends before it marks; links drop between any two steps |
| bluetti_ble (scan/connect) | same | mode, resume flag, scan timer | scan, stop, GAP events | a scan interrupts the link and must give it back |
| bt_session | `bluetti_ble/bt_session.c` | handshake state, keys, reassembly buffer, label of the pending read | key exchange messages, plain fallback, Modbus | driven by the unit; raced by a fallback timer |
| bt_regs, bt_crypto | `bluetti_ble/bt_regs.c`, `bt_crypto.c` | none | plan, decode, derive; primitives | inference of "mains present" from fields that arrive one at a time |
| bridge | `main/main.c` | last status | publish on every frame, staleness task | two tasks publish the same things |
| notify | `notify/notify.c` | last state told, repeat guard, queue of 6 | edge detection, sending with retries | alerts are wanted exactly when the network is gone |
| nut_server | `nut_server/nut_server.c` | variable table, clients | set/clear, protocol, accept | a lock held while sending to a client |
| wifi_mgr | `wifi_mgr/wifi_mgr.c` | link state, fallback access point | events, reconnect, fallback task | events race a supervising task |
| app_config | `app_config/app_config.c` | NVS blobs with versions | load, save, migrate, guests | a reset between two writes |
| provisioning | `provisioning/provisioning.c` | login sessions, upload state | web handlers | one web task against everything else |
| ota_github, log_ring, led_status, dns_server | their directories | small | small | boundaries |

Interaction: the Bluetooth host task decodes a frame (`session_regs`) and calls
`bluetti_cb`, which publishes NUT variables, feeds `pve_shutdown_observe` and
`notify_ups_status`; the staleness task of `main.c` does the same with "unknown"
when nothing has come for a while. The web server's task replaces
configurations at any time. `pve_shutdown_observe` starts the worker task, which
talks to Proxmox without any lock.

What makes each component correct, in short: the engine never fires early, late
or twice; the runtime loses no work and keeps guests before nodes; the poll
loop never has two requests out and never mistakes "not asked yet" for "zero";
both ends of the encrypted link agree on their secret; the radio always returns
to the unit; missing data is never published as an outage, and is said to be
missing; alerts are neither false nor stuck behind one another; a NUT client
sees one moment's table and cannot lock the publishers out; the device finds
its network again and can be reached meanwhile; what was saved is what runs, and
nothing is armed that the user did not arm; an update leaves the device with an
image to start, whenever the power fails.

## Modules

### PveEngine, PveShutdown, ShutdownOrders

`PveEngine` holds `pve_engine.c` as pure operators with the names of the code:
`SyncGuests` (`pve_engine_sync_guests`), `TriggerMet`, `FoldPower` (the switch
of `pve_eval`), `MainsBack`, `DueHosts` and `DueGuests` (the loop), `pve_eval`,
`pve_fire` (its result), `pve_countdown_s`, `pve_guest_countdown_s`. An array of
latches is a set of indices, a guest list a set of ids with a trigger for each.
Readings come at whole minutes, the unit of every threshold, so the countdowns'
division to whole seconds leaves no remainder; between minutes the page may show
0 for the last fraction of a second, and nothing decides on that.

`PveShutdown` is the struct `P` of `pve_shutdown.c` and the tasks around it.

| Action | Code |
|---|---|
| `Observe(obs)` | `pve_shutdown_observe` from lock to unlock |
| `StartWorker`, `StartFails` | its `xTaskCreate`, outside the lock |
| `Reconfigure(c)` | `pve_shutdown_reconfigure` |
| `WorkerTake(i)`, `WorkerExit` | one pass of `worker_task` under the lock |
| `RunNothing`, `RunArmed` | the early returns of `run_host`, and going past them |
| `GuestPost(g, reply)` | one request of `shutdown_guest` (VM, then container) |
| `GuestsDone` | the end of the guest loop of `run_host` |
| `NodePost(reply)`, `NodeRetry` | one request of `shutdown_node`; the gap between attempts |
| `Tick` | a minute passes |

`tls_request` is its outcome: 200, refused (401/403), another status, or no
answer. A failed `realloc` is a nondeterministic loss of queue entries when
`Oom` is TRUE. `hist` is a history variable: it records the readings
themselves, independently of the engine's clocks, so that the properties speak
about what was observed and not about what the engine remembers of it.

`ShutdownOrders` is what becomes of a decision to shut something down, without
clocks, tasks or retries: orders pile up per host, one host at a time is taken
in hand with all of them, and is refused as a whole or worked through, guests
first. `PveShutdown!Orders` is the refinement mapping (the queues are the
orders, the worker's locals the host in hand); `OrdersCarriedOut` says that
`PveShutdown` implements it.

Left out: the texts and the results kept for the status page (`note_host`,
`note_guest`), the alerts (`emit`), the self-test task and Test connection.
A host is identified with its slot. A guest list has no duplicate ids.

### BtPoll, ControlWrites

The poll loop, with the Modbus half of `bt_session.c`. Three tasks: the
Bluetooth host task (`Connected`, `OnSub`, `SessionReady`, `Disconnected`,
`Answer`, `Ack`, `Exception`), the timer task (`PollDrop`, `PollTick`,
`PickWrite`, `PickRead`, `PickNothing`, `Send`, `SendFailed`, `Mark`), the web
server's task (`SetControls`, `WriteControl`). The timer callback is split at
every point where it holds no lock: check, pick, send, mark. The unit answers
in order (`air`); `Lost` drops a request, `Expire` lets `REQ_TIMEOUT_US` pass.

Data abstraction: a field is its register address; a value is "decoded" or not.
An answer may come after its request was given up (`tardy`, a history variable,
remembers that one has); `OneRequest` is stated for links on which none has. The
statements of `session_regs` after its unlock belong to its step; the difference
shows only for an answer at the very moment of the timeout.
Connect and `on_sub` write plan and counters without the lock; they are one
step each.

`ControlWrites` is what becomes of a write to a control, without polls or slots.
A write stops waiting in three ways only: a newer value for its register
replaces it (`Ask`), it is taken up (`TakeUp`), or the controls are switched off
(`Allow`). The one taken up goes on the air once (`Deliver`), or is given up
(`GiveUp`) because there is no session or the stack refuses it; nothing tries
again. Reads, answers and links that come and go (`Elsewhere`) touch none of
this. `BtPoll!Writes` maps it to `b.write_queue`, the callback between pick and
send, and the requests in the air; `LatestWrites` says that `BtPoll` implements
it.

### BtSession

The key exchange of `bt_session.c`, with `kex_timer_cb`, `on_sub` and the
connect and disconnect handlers of `bluetti_ble.c`.

| Action | Code |
|---|---|
| `Connected`, `Disconnected`, `OnSub` | the GAP events and `on_sub`; both ends of a link reset the session |
| `PollDrop` | the poll loop gives up on a session nobody answers |
| `KexExpires`, `KexFalls` | `kex_timer_cb` and `bt_session_use_plain`: the tests, then the writes |
| `OnChallenge`, `ChallengeAnswered` | `on_challenge` up to its transmission, and after it |
| `OnPeerPubkey`, `OnRepeatedPubkey` | `on_peer_pubkey`: a new key, the cached reply |
| `OnPubkeyUnverified`, `OnPubkeyNoKeypair`, `OnPubkeyUnsigned` | its failures: the unit's signature (`peer_pub` stays as it was), our keypair, our signature |
| `OnPubkeyAccepted`, `OnPubkeyRefused` | `on_pubkey_accepted` |
| `FeedIgnored` | what `bt_session_feed` and `handle_kex` drop |
| `Unit...` | the power station, external |

The session is unlocked state shared by the host task and the timer task; the
two splits above are where one can see the other half done. Cryptography is its
effect: a message under the handshake key is legible only with the challenge
the key was derived from, and a secret is the pair of public keys it came from.
Fragments are whole messages. The unit opens the exchange once per link, may
ask for our key any number of times and with a new key of its own, and settles
for, refuses or passes over a reply. `prompt` units open within the 15 s of the
fallback timer, others at any time. An acceptance without a key exchange before
it is not among the things a unit does. Two history variables name what the
properties except: `spurned` (the signature on the key last shown did not
verify) and `late` (this link came while `kex_timer_cb` stood between its test
and its write).

### BleLink

Who has the radio. `mode`, `resume`, `synced`, `connected` are the fields of
`b`; `gap` is the procedure NimBLE has under way and `linked` whether it has the
link, which `b.connected` denies once the poll loop has given up on it. The web
server's task (`PageAsks`, `PageNotes`, `PageClaims`, `PageArms`, `PageLooks`,
`PageTakes`: `h_ble_scan` and `bluetti_ble_scan`), the timer task
(`TimerCancels`, `TimerStops`, `TimerResumes`: `scan_timer_cb`,
`bluetti_ble_scan_stop`; `PollDrops`, `PollTerminates`: `poll_timer_cb` on a
silent link) and the host task (`FoundTarget`, `TryConnect`, `ConnectSucceeds`,
`ConnectFails`, `LinkLost`, `Terminated`, `HostReset`, `HostSync`,
`HostSyncFails`: no address) are split wherever another task can come between. `Start` is `bluetti_ble_start`, which fails for good when the host is
not synced within 5 s. Its specification is `BleSpec` and its type invariant
`BleTypeOK`, so that one proof module can hold both halves of `bluetti_ble.c`.

### Bridge

`main.c` between the decoded frame and everything that is told about it.
`Frame` hands a copy to `bluetti_cb`, whose calls are steps: `BleLed`,
`BlePublish` (the measurements), then `BleWait` and `BleUnknown` for an
unfinished sweep, or `BleObserve`, `BleStatus`, `BleNotify`. `StaleLook`,
`StaleLed`, `StaleStatus`, `StaleDriver`, `StaleNotify`, `StaleObserve` are
`staleness_task`. A reading keeps what decides an output: sweep complete, mains
present, charge low, and the two estimates of the runtime as none, short or
long. `runtime_low` is whether `runtime_low_s` is set at all. `newest` remembers
what the last frame said.

### Notify

`notify_ups_status` in two steps, `NotifyEdges` (comparing, queueing) and
`NotifyCommit` (storing), because two tasks call it without a lock;
`GuardExpires` closes the repeat window; `NotifyReconfigure`; `PveEvent` (the
messages of the Proxmox side share the queue); the worker: `WorkerReceive`,
`WorkerDiscards` (alerts switched off), `WorkerDelivers`, `WorkerFails`. A
message is the kind of edge it reports. `told` is what the chat was last told.
`slipped` is up while the last change of `N.power` went unannounced (switched
off, held back by the repeat guard, dropped by a full queue), met another call,
or had its message lost; the next change that one call sees and queues alone
takes it down. The specification is
`NotifySpec`, with the fairness of the worker `NotifyFairSpec`.

### NutServer

The table (`SetVar`, under `s.lock`), the accept task (`AcceptNext`,
`AcceptCheck`, `AcceptLoad`/`Store`, `AcceptSpawn`, `AcceptUnstore`), and client
tasks: `RecvPartial` and `Line` (the receive buffer), the commands (`Reply`,
`Username`, `Password`, `Login`, `GetVar`), `LIST VAR` as `ListBegin`,
`ListLock`, `ListLine`, `ListEnd`, `ListFails`, and the end of a connection.
Any send may fail, those of the `BEGIN` and `END` lines too.
`client_count` is read and written in separate steps, as no lock protects it;
`raced` remembers that two updates overlapped.

### WifiMgr, Setup

`WifiMgr` is the state of `wifi_mgr.c` with its event handler
(`OnDisconnected`, `OnGotIp`), the retry timer, `wifi_mgr_sta_connect`
(`StaConnect`, `StaKick`, `Woken`, `StaTimeout`), the access point and the
supervisor (`FallbackTick`, `FallbackRaises`, `FallbackFails`). The driver
(external) posts events that are handled later, and may refuse
`esp_wifi_connect` (`Connects`): no event follows, and `refused` is up until
another attempt is taken. The retry timer may fail to be created
(`ReconnectLater`), the access point to start (`FallbackFails`; `ap_start` aborts
inside `ESP_ERROR_CHECK` as the code stands, so its caller's error path is never
taken today). `leased` remembers that a lease was held. `Setup` composes it with its callers: `app_main` (`MainJoins`,
`MainArms`), the forms of the portal (`FormRefused`, `FormAp`, `FormStation`),
the connect tasks (`TaskConnects`, `TaskFails`, `TaskTakes`, `TaskStores`) and
the end of setup (`PortalCloses`).

### Admin

Settings in memory (`cfg`), in flash (`blob`, `guests`) and in use (`run`). A
request is a sequence of steps of the web server's task: a `Post...` action
(the form, into `P.pending`), `SaveGuests`, `Assign`, `Save`, `Apply`, or
`Erase`, `EraseBlob`. Writes may fail and take effect all the same; the task that
restarts the device may not be created, which no handler looks at; the services
of `MayFail` may not start (`dead`), guest rules not load. `unsaved` remembers
that the last save failed, `missed` what the services were not told of. `Restart`
and `PowerCut` come between any two steps; `Loaded` is `app_config_load` with its
layouts. Settings are grouped by how they take effect. The restart of the
device goes through `Boots`, which is `app_main` as far as settings go.

### Ota, AtomicUpdate

`Ota` has two slots of flash written piece by piece by the browser upload
(`h_ota`, which erases the slot when it begins) and the download task
(`ota_task`, which erases as it writes: `GhErase`), the boot selection, the trial of a
new image and its confirmation (`MarkValid`, the end of `app_main`), and `Reset`,
which is every restart, crash and power cut with what the bootloader then does
(external). `AtomicUpdate` is what an update promises, without slots, pieces or
tasks: an image becomes pending at once, is tried by a restart, and is either
confirmed or gives way to the last good one. `Ota!Update` is the refinement
mapping; `AtomicUpdates` says that `Ota` implements it.

## Runs

| Run | Instance | Shows |
|---|---|---|
| `pve_outage` | one host (2 min), guest 101 (1 min or charge 1), guest 102 (with the node only), 4 minutes, 2 saves among three configurations (normal, feature off, list cut and re-arm time doubled), four readings | `FireJustified`, `FireOnce`, `GuestLatchHolds`, `DeadlineFires` (hosts, and guests of a host that has not fired), `SweepComplete`, `QueueMatchesLatch` |
| `pve_worker` | two hosts, one guest, 2 attempts, 2 minutes, one save, one failed task creation, failing `realloc`; fair | `GuestsBeforeNode`, `WorkerAccounted`, `Drained` (queued work is carried out, unless the worker task could not be created), `OrdersCarriedOut` |
| `bt_poll` | plan of 1 + 1 + 1 fields, two of them controls (one always polled) with two values each, limit of 2 failures, two requests in the air, answers late or lost; fair | `TypeOK`, `OneRequest`, `QueueHoldsNewest`, `SweepAsked`, `AnswersOrDrops` (a link that stays up keeps being answered, unless the stack keeps refusing to send), `LatestWrites` |
| `bt_session` | two unit keys, two links, 3 messages under way, 2 failures, 1 stray frame, units of all four kinds; fair | `SecureAgrees`, `PlainOnThisLink`, `HandshakeEnds` |
| `bridge` | six readings (unfinished sweep, mains, battery, low by charge, by the unit's estimate, by the derived one); fair | `NoFalseOutage`, `RuntimeAgrees`, `BlindIsSaid` |
| `notify` | two callers, two charges, alerts on and off, queue of 2, 2 attempts; fair | `ChatTruthful`, `WorkerMovesOn` |
| `nut_server` | two clients, three names for a table of two, buffer of 2; fair | `TypeOK`, `ListingIsSnapshot`, `CountExact`, `PublisherGetsIn` |
| `setup` | one network, two connect tasks and `app_main`, 2 retries, 2 supervisor ticks, 2 events, refused connects, access point that fails to start; fair | `BitTellsTruth`, `RetryInSight`, `SetupHadALease` (setup ends, and a station's settings are stored, only after a lease was held), `NeverStranded`, `StaysReachable` |
| `ble_link` | 3 page scans, 4 faults; fair | `BleTypeOK`, `RadioAtWork`, `LinkComesBack` |
| `admin` | two values, layouts 11, 14, 18 and 19, 2 requests; NUT, Proxmox, guest rules and alerts may fail to start | `RunsWhatIsSaved`, `ArmedByUser` |
| `ota` | two images and a file that is none, 2 pieces | `AlwaysBootable`, `AtomicUpdates` |
| `bt_poll_sweep` | as `bt_poll`, one value; expected to fail | `SweepRead`: when `sweep_done` is set, every field of the plan has been read. A read the stack refuses, or that is lost, counts as well |

The bounds are the smallest in which the cases meet. Four minutes let a host
fire, the mains return for a minute and a second outage reach its deadline; two
saves cut the guest list and restore it, or switch the feature off and on; one
save during the worker's run makes its copied configuration stale; two hosts
keep the worker busy with one while the other fires; two attempts, or two
failures, let one be forgiven. Two links are needed for a key, a reply or a
fallback to outlive one, two unit keys for one to change. Two callers of the
edge detector and two clients are all there is between which its state can be
torn; three names overflow a table of two. Two requests let one fail to
save or to schedule its restart and the next make the leftovers permanent or put
them right; layouts
11 and 14 are the last on their side of a rule of `app_config_load` that is
below the current 18, and 19 is a downgrade. Two pieces let an image be half
written. Two of everything else is enough because the code treats slots,
registers, ids and names alike.

Fairness. FreeRTOS runs a ready task and calls a timer that is due, so weak
fairness of a task's own steps and of timers is assumed throughout.
`PveShutdown`: of `StartWorker` and the worker's steps (a request ends: 15 s
read timeout); nothing of readings or the user. `BtPoll`: of the timer, of
`Expire` and of `Lost` (a request that is never answered is eventually beyond
answering); nothing forces the unit to answer or the link to break. `BtSession`:
of both tasks and the one-shot timer, of the drop of a ready session the unit
does not understand (what `AnswersOrDrops` shows), of a unit that goes on with
the exchange, and strong fairness of its settling for a reply, because it may
pass over any one of them. `Bridge`: of both tasks and of `Ages`. `Notify`: of
the worker. `NutServer`: of the accept task and of the
end of a connection, and strong fairness of the mutex towards the publisher (it
goes to the waiting task of the highest priority); nothing of sends, which have
no timeout in the code: `PublisherGetsIn` says that only a `LIST VAR` that never
ends could keep a publisher out.
`Setup`: of the event task, both timers, the tasks and a driver that ends every
attempt it takes, and strong fairness of `FallbackRaises` (raising the access
point does not fail for ever); nothing of the network, which comes and goes, nor
of the driver's taking an attempt (`NeverStranded` is about one that does). `BleLink`: of the tasks
and of a unit that is in range and advertises.

Deadlock is checked except in `bt_session` and `ble_link`, where nothing is left
to do once the bounded links or faults are used up.

## Where code and documentation differ

One difference has a run (`bt_poll_sweep`). The others met while modelling are
part of the models, and the properties are stated so as to name them:

* Latches survive switching the Proxmox feature off, where the comment says
  "forget everything" (`pve_engine.c:91-92`). `FireOnce` and `GuestLatchHolds`
  leave open what a reading taken while it is off does to a latch. Queued work is carried out after that (`pve_shutdown.c:467`, against
  README.md:144).
* A guest's failed request is not retried (`pve_shutdown.c:404`, against
  docs/CONFIGURING.md:392).
* A guest added to a latched host shows a countdown that does nothing
  (`pve_engine.c:215`); `DeadlineFires` is therefore about hosts not yet fired.
* `sweep_done` counts fields picked, not read (`bluetti_ble.c:474`, against
  `bluetti_ble.h:33-39`, `main.c:207-214` and docs/CONFIGURING.md:455-457): the
  run `bt_poll_sweep`. `SweepAsked` and `NoFalseOutage` claim only what the code
  does.
* A write whose send the stack refuses has left the queue and is dropped
  (`bluetti_ble.c:455-457`, against docs/CONFIGURING.md:199-201, "each one is
  actually sent, in order"); `ControlWrites` says so (`GiveUp`). A write that
  waits through a disconnection is sent on the next link, before the unit there
  has been identified (against `bluetti_ble.h:125-131`, "rejected unless the
  session is ready, the unit is an EL10 family"). "One write is queued at a time"
  (same comment) is out of date: one per control is.
* The repeat guard compares with the last event only, so a supply that flaps
  within the minute, whose events alternate, is not suppressed (`notify.c:21`,
  `notify.h:6-7` and docs/CONFIGURING.md:262 say it is). `ChatTruthful` makes no
  claim about which changes are announced.
* `BT_SESSION_FAILED` is not final: a unit whose key was refused
  (`bt_session.c:287-293`) and that settles for an earlier reply still gets a
  session, on the key before; `SecureAgrees` excepts it (`spurned`).
* An answer later than the timeout is decoded under the label of the next
  request (`bt_session.c:462`). A read answered before it is marked, or answered
  with an exception, counts in `poll_fails`, "consecutive reads with no reply".
* The plain fallback happens although handshake bytes have come
  (`bt_session.c:679`, against `bt_session.h:61`).
* `app_config.c:19-21` says there is no migration; `app_config_load` migrates.
* `main.c:251` says two outputs "can never disagree": the staleness task and a
  frame interleave, so they may until the next frame. `LB` follows the unit's
  own estimate only, `battery.runtime` also the derived one.
* A host reset in the middle of a scan leaves MODE_IDLE, and `resume_connect` is
  never read again (`bluetti_ble.c:758`); `LinkComesBack` excepts it.
* A second download started in the 1.2 s before the restart erases the image
  just installed (`ota_github.c:285`); the device then goes on with the old one,
  which is why `SetPending` may also take an image back.
* `*P.cfg = P.pending` comes before a save that may fail
  (`provisioning.c:1677`): the next save of anything makes it permanent without
  applying it. The handlers that restart the device to apply settings ignore the
  result of `xTaskCreate` (`provisioning.c:1739`, `1747`, `1924`): the settings
  are saved and the old ones go on running. `RunsWhatIsSaved` confines either
  failure to the services concerned. It says nothing of guest rules and settings
  of one form, which a power cut can leave torn.
* A refused `esp_wifi_connect` is not noticed by `retry_timer_cb`
  (`wifi_mgr.c:57-59`): no event follows, so nothing tries again until a restart or
  a form of the setup portal. `RetryInSight` and `NeverStranded` except it.
* A second form during an attempt rewrites `P.pending`, which the first
  `connect_task` then stores without having tried it (`provisioning.c:447-475`).
  `SetupHadALease` claims a lease, not on which network.

## Proofs

`PveShutdown_proofs` proves every safety property of the two passing
`PveShutdown` runs for all hosts, guests, configurations, readings and bounds,
from the assumptions named in the modules (hosts are natural numbers, both
sets are not empty, configurations and readings are of their types, at least
one attempt). Theorems: `TypeCorrect`, `WorkerIsAccounted`,
`GuestsGoBeforeNode`, `FiresOnce`, `FiresAreJustified`, `DeadlinesFire`,
`SweepIsComplete`, `GuestLatchesHold`, `QueueFollowsLatch`,
`WorkerCarriesOutOrders`.

`TypeOK` is not inductive: after the first request of `shutdown_guest` the batch
entry of the guest in hand is decremented later, so it must be known to be
positive (`GuestInHand`). The safety properties need two more facts, gathered in
`IInv == Base /\ ClockInv`:

* `EngineInv`: the engine holds state for exactly the configured guests, and no
  `fired_now` flag is up while the feature is off (otherwise
  `pve_shutdown_observe` would queue the guest again with every reading);
* `ClockInv`: the engine's clocks against the history of readings. A running
  outage clock means that the last known reading was Battery and started no
  earlier than the first Battery reading since the last Line one; a running
  mains clock started no earlier than the unbroken run of Line readings; a host
  that has fired without the mains being steady since is latched.

`FireJustified` and `GuestLatchHolds` follow from the clock part of `ClockInv`,
`FireOnce` from its last part, `DeadlineFires` from what `Latch` does with a
deadline that has passed, `SweepComplete` and `QueueMatchesLatch` from
`EngineInv`, `GuestsBeforeNode` from the fact that a node and its guests enter
and leave the queue in one step. `OrdersCarriedOut` goes action by action: an
observation is `Order`, `WorkerTake` is `Take`, a guest's last request
`StopGuest`, its first one a stutter if a second follows, and so are the node's
retries. It uses `GuestInHand`, that a batch is done before the node's turn
comes (`BatchBeforeNode`) and `WorkerAccounted`: a worker started while another
has a host in hand would drop that host's orders.

`Ota_proofs` proves `TypeOK`, `AlwaysBootable` and the refinement
`AtomicUpdates` for every number of pieces and set of images and files (images
are files; `None`, blank and garbage content are none). The inductive invariant
adds to `AlwaysBootable` that nobody writes and no boot selection is pending
while an image is on trial: `esp_ota_begin` refuses it. The refinement then goes
action by action: erasing and writing change only the spare slot, so they change at most
what is pending, and only off trial; `Reset` is `Restart`, `MarkValid` is
`Confirm`. The fact behind every step is that a slot holds at most one whole
image, so that `ImageIn` is determined (it needs at least one piece).

`Bridge_proofs` proves `TypeOK`, `NoFalseOutage` and `RuntimeAgrees` for every
set of readings. The properties speak about moments between two frames; the
inductive invariant says for each place in `bluetti_cb` which outputs already
follow the frame in hand (`InHand`, `Shown`, `Justified`).

`Admin_proofs` proves `TypeOK`, `RunsWhatIsSaved` and `ArmedByUser` for every
set of values and layouts, any number of requests and any services that may fail.
Memory and flash agree but for a save that failed or is being made (`Stored`);
a service differs from them only if it missed something or the request at work
is about it (`Follows`, with `Apart == missed \cup Touched`); what did not start
has missed everything (`DeadMissed`); and the armed flag needs an asking user
wherever it stands, flash included (`OnlyIfAsked`). Every way of coming up goes
through one lemma (`BootsInv`), every form through another (`BeginInv`).

`BtPoll_proofs` proves `TypeOK`, `OneRequest`, `QueueHoldsNewest` and
`SweepAsked` for every plan, set of controls and limit, and `SlotToSpare`: a write
always finds room in `b.write_queue`, because the queue holds one entry per control
and has at least as many slots as there are controls. `OneRequest` and `SweepAsked`
are not inductive. The first needs to know why no second request starts: on a
link without a late answer, a request in the air is the one `pending_addr` names
and is about to be marked, or is marked and not overdue (`AirInHand`). The second
needs that the fields asked for are the first `sweep_reads` of the plan and that
the index follows them until the sweep is whole (`SweepInOrder`).
`QueueImplementsWrites` is the refinement `LatestWrites`: a write leaves the queue
only replaced, taken up or with the controls, and goes on the air once or is given
up for one of the two reasons named. A queue whose slots are
reused and shift is, as a set, what `ControlWrites` says, because no register has
two slots (`QueueHoldsNewest`) and a callback that is about to pick has no write
in hand. The module ends with the other half of `bluetti_ble.c`, `BleLink`:
`LinkTyped` (`BleTypeOK`) and `RadioNeverIdle` (`RadioAtWork`), for any number of
scans and faults. When nothing is at work on the unit, the host task is in
`try_connect` or the timer task is about to call `start_connect_scan`
(`WorkInv`, which adds that a link `b.connected` denies is being ended or
`poll_timer_cb` is about to end it); that in turn rests on the scan timer being armed, or its callback
under way, only while `b.mode` is not CONNECT (`ScanInv`).

`BtSession_proofs` proves `TypeOK`, `SecureAgrees` and `PlainOnThisLink` for every
set of unit keys and any number of links and failures. Agreement is about
messages that cross: the unit may present a new key while our answer to the last
one is under way. The inductive invariant therefore says what each message under
way knows: those from the unit belong to this link and the last key among them
is its present one, and nothing but noise follows an acceptance (`RxInv`); those
from us carry the session's one keypair (`TxInv`); with no key on its way, the session has the
unit's unless that was `spurned` (`PeerInv`); a secret is the unit's, with the same
exception, and nothing under way will change it (`SecretInv`). A fallback, done or
about to be, is this link's or `late` (`PlainInv`).

`NutServer_proofs` proves `TypeOK`, `ListingIsSnapshot`, `CountExact` and
`LockInUse` for any finite set of clients, any number of slots, names and values. `TypeOK` includes that
`client_count` never exceeds `max_clients`. That survives the lost updates of the
unlocked counter because an increment starts below the limit and a decrement
only ever writes back an older count less one (`LimitInv`). Exactness until two
updates overlap needs that there is then one update at a time, from a fresh
copy (`RaceInv`). The client whose listing is in progress is the one that holds
the lock, and every line it has sent is that of the used slot with the same rank
(`LockInv`, `ListInv`); no other step leaves the lock with anybody, which is the
part of `PublisherGetsIn` that is safety (`LockInUse`, in the proof module).

`Setup_proofs` proves `TypeOK`, `BitTellsTruth`, `RetryInSight` and
`SetupHadALease` for any number of networks, `connect_task`s, retries and events. `BIT_CONNECTED` follows the link
through the event queue, so the invariant is about what the bit will be once the
queue is handled (`BitInv`). `RetryInSight` is what `NeverStranded` rests on: once the
events are handled and no call is half way, a station that is wanted is
connecting, joined, refused or has its retry timer armed. It is inductive with `BitInv`: the
last event handled is a disconnection, which arms the timer, because after an
address the link would be up. For `SetupHadALease` the
invariant is that without a lease there is no sign of success anywhere: not on
the link, in the bit, in an event under way, in a caller's result, in a task about
to store, nor in flash (`LeaseInv`). That holds however forms and attempts
overlap.

At the end of `Bridge_proofs`, `Notify`, which the bridge calls: `NotifyTypeOK` and
`ChatTruthful`, for any number of callers, settings, charges, queue depth and
attempts. While nothing has `slipped`, at most one call is in progress, and what is
queued and in hand, delivered in order, takes the chat to the state of the power:
the one stored, or the one that call is about to store (`ToldInv`). The proof showed that `NotifyEdges` first had a `CASE` whose guards
overlapped, which TLC reads in order and TLA+ does not; it is an `IF` now.

Every safety property of the passing runs, invariants and action properties alike, and
the refinements of `AtomicUpdate`, `ControlWrites` and `ShutdownOrders` are thus proved for every value of the constants.
The type invariants of `PveShutdown`, `Ota`, `Admin`, `Bridge`, `Notify`, `BtSession`
and `Setup` are proved and in no run; those of `BtPoll`, `NutServer` and `BleLink`,
which say more than types, are in both.
Only model-checked is liveness, which is beyond the prover: `Drained`,
`AnswersOrDrops`, `HandshakeEnds`, `BlindIsSaid`, `WorkerMovesOn`,
`PublisherGetsIn`, `NeverStranded`, `StaysReachable`, `LinkComesBack`.

## Not modelled

Byte-level framing and the cryptography of `bt_session.c`/`bt_crypto.c`; the
decoding and scaling of registers (`bt_regs.c`, beyond the plan); texts, JSON,
HTML and the status pages, with the results and alerts kept for them; login
sessions and password hashing; the self-test and Test connection of
`pve_shutdown.c`; the release list, version comparison and progress of
`ota_github.c`; Wi-Fi scan, static addresses and mDNS; `log_ring.c` (one lock,
one call), `dns_server.c` (stateless) and `led_status.c` (one assignment).
`PROJECT.json` lists every component with its status.

## Plan

1. More facts the liveness arguments rest on that are safety and can be proved, as
   `RetryInSight` and `LockInUse` are: from every waiting state some task has the
   next step (`BtPoll` without a late answer, the `Notify` worker).
2. Register decoding and the derived power state of `bt_regs.c` as pure operators
   against reference definitions; fragment reassembly likewise.
3. The identity of a Proxmox host apart from its slot, with the status page.
