# Verification of the blackBird-ESP32-S3 firmware

TLA+ models of the firmware's own core logic, TLC configurations that check them on small
instances, and theorems proved with TLAPS for every value of the constants. All paths
below are relative to the repository (`src/`).

The firmware runs on an ESP32-S3 (FreeRTOS, two cores). It is built from *actors*: each
has a task (its monitor), a queue of JSON commands, and a table of commands, properties and
events. An actor sends a command or a response to another one through the console
dispatcher, by name. What the product depends on is that the device finds a network, is
announced to its cloud, opens an IoT Hub session, keeps it, and gets it back by itself, for
years, unattended; and that it runs a schedule of light events on time. Both are modelled.

## 1. Inventory

### Connection

| Component | State it keeps | Operations | What makes it correct |
|---|---|---|---|
| **Server_Connect task** (`main/SYSTEM_Actor.c`) | `State`, `que_rx_delay`, eight `static` timers, three `timeout_count_credential*`, `BLE_INIT_Flag`, the text of the last DNS ping | one handler per state: credentials, BLE window, Wi-Fi enabled, scan, join, Ethernet, NTP, announce, two pings, IHUB, failed | climbs one rung at a time; every wait ends; no wait, timer or flag of one rung or attempt disturbs the next |
| **SYSTEM task** (`main/SYSTEM_Actor.c`) | task handles, flags, device properties | forwards answers to the two tasks' queues, SERVER_CONNECT, SETSERVCONNFLAG, `Reset_Stack`, `initiate_ServerConnect` | never two Server_Connect tasks; one owner of a reset at a time |
| **MonSrvConn task** (`main/SYSTEM_Actor.c`) | `CurrentMonSrvState`, `MonSrvConn_Que`, `l_wifi_status`, `l_eth_status`, the timers of its states | waits for link and IHUB events, polls IHUB's status every minute, looks for a link again, resets the stack | acts on a lost link or session; the wait for one ends; somebody is always in charge of the connection |
| **Announce back-off** (`main/SYSTEM_Actor.c`) | `Device_Announce_F_delay_u32`, two timers, a counter | doubles the delay after a failure, resets it | bounded, and reset after a success |
| **IHUB actor** (`main/iHub_Actor.c`) | `conn_status`, `Delete_task_flag`, the session task's handle, SAS token, MQTT context | CONNECT, DISCONNECT, INIT, DEINIT; session task: connect, subscribe, serve, renew the token, recover in place, tear down; also twin and telemetry | status, announcements and the task agree; recovery ends and escalates last; a stop is obeyed |
| **Connectivity supervisor** (`main/iHub_Actor.c`) | boot time, outage start, last activity, two flags, one of them in a file | periodic callback, connected and disconnected marks, ENABLE_WDT | reboots an outage in bounded time, and nothing else |
| **WIFI actor** (`main/WIFI_Actor.c`) | `wifi_connected`, `CONNECTED_BIT_u16`, the counters of networks, retries, `STATUS` | CONNECT_SSID: a loop over the networks of a scan, a join of at most ten seconds and three retries each; the event handler, in another task; scan task; DISCONNECT, DEINIT | every request answered; the announced link is the link there is |
| **ETH actor** (`main/ETH_Actor.c`) | link state | ENABLE, events | every request answered |
| **TLS transport, back-off** (`components/sample-azure-iot`) | attempts, jitter | connect with retries | delay within its cap |
| **HTTP, NTP** (`main/HTTP_Actor.c`, `main/NTP_Actor.c`) | one request | announce, time | (I/O wrappers) |

### Around it

| Component | Role and state | Candidate properties |
|---|---|---|
| Console dispatcher (`main/console_actor.c`, `main/split_argv.c`) | routing by name, payload ownership, queue sends with a timeout of one tick | each payload freed once; a full queue loses whole messages |
| BLE actor and services | GATT and the phone's menus | pending menu and its answer |
| EVENT actor (`main/EVENT_Actor.c`) | check task: `Schedule_table`, `priority_number`, `executedThisMinute`, time warp, sunset; executor: `Script_Execute_Que`, its answer queue, `EventActorMutex`, `execute_com` | a round a minute over the schedule; reload from the database; run a script's rows; scenes, actions, deferral | an event is sent once, in its minute; a round is right; the mutex is given back; the rows that run are those asked for |
| LED actor | blink patterns and their precedence | a higher pattern is restored |
| File system actors, TCP/UDP/web/SMTP/UART servers | storage and transport of commands | (I/O) |
| RTC, utilities, start-up, bootloader | BCD time, argument splitting, boot partition selection | conversions agree with a reference; a valid image boots |

`PROJECT.json` lists every component with its status.

### How they interact

Server_Connect sends requests (WIFI ENABLE, SCAN, SSID; ETH; HTTP; PING; IHUB CONNECT) and
then blocks in `xQueueReceive` for at most `que_rx_delay`. The answers go to the SYSTEM
task, which forwards them to the queue of Server_Connect by what they look like, not by who
asked or when. So an answer may be late and reach a handler of another state, or an
unrelated event may. IHUB's monitor and its session task share variables without a lock.
The supervisor's callback runs in the `esp_timer` task, on the other core. When IHUB broadcasts
DISCONNECTED, or the monitor finds the session or the link gone, the whole stack is reset
(`Reset_Stack`: DEINIT, INIT and SERVER_CONNECT, with delays of seconds between them), by the
monitor, by SYSTEM, or by Server_Connect itself, and the three may overlap.

WIFI's task shares its flags and counters with `wifi_event_handler`, in the task of the event loop
on the other core. EVENT's check task sends scripts to the executor, which asks the SQL
actor for their rows and takes the answers from one queue; the reload of the schedule refills
the table that the check task reads, and waits for the executor's mutex.

### What is hard

Interleavings on shared variables (IHUB's flag and status, the supervisor's clock); answers
out of order; state that outlives the attempt it belongs to (`static` timers, the persisted
flag across a reboot); a queue full for a tick; a stop that races a reconnect; recovery
that must neither give up early nor go on for ever; resets that overlap; a join that times out just
as it succeeds; a table refilled row by row under its reader; answers that do not say what
they answer. `PROJECT.json` lists each hazard at its line,
with the properties that cover it or the reason none does yet.

## 2. Modules

| Module | Models | Lines of code behind it |
|---|---|---|
| `ConnSupervisor` | the supervisor | `iHub_Actor.c`, `connectivity_supervisor_*`, `periodic_timer_callback` |
| `ConnSupervisorProofs` | theorems | |
| `HubPromise` | *abstract*: what IHUB promises those who hear its announcements | |
| `IHubSession` | IHUB's monitor and session tasks | `iHub_Actor.c`, `iHub_Connect` to `prvAttemptInTaskReconnect` |
| `IHubSessionProofs` | theorems, with the refinement of `HubPromise` | |
| `ConnAttempt` | *abstract*: what a connection attempt promises | |
| `ServerConnect` | the Server_Connect task and its environment | `SYSTEM_Actor.c`, `handle_*` and the task's loop |
| `MC_ServerConnect` | the limits for TLC | |
| `ServerConnectProofs` | theorems, with the refinement of `ConnAttempt` | |
| `ConnLifecycle` | the composition: SYSTEM, Server_Connect, MonSrvConn, IHUB | `SYSTEM_Actor.c`, `Reset_Stack`, `initiate_ServerConnect`, the monitor, the handlers of SYSTEM |
| `ConnLifecycleProofs` | theorems | |
| `AnnounceBackoff` | the announce delay and its timers | `SYSTEM_Actor.c`, `STATE_NTP_SYNC_CHECK`, two timer callbacks |
| `AnnounceBackoffProofs` | theorems | |
| `WifiConnect` | how WIFI joins a network | `WIFI_Actor.c`, CONNECT_SSID, the event handler, DISCONNECT, DEINIT |
| `WifiConnectProofs` | theorems | |
| `EventCheck` | the schedule of the lights | `EVENT_Actor.c`, `Tasks_EventCheck`, `Update_Schedule_Table`, the monitor's commands |
| `MC_EventCheck` | schedules for TLC | |
| `EventCheckProofs` | theorems | |
| `EventExecute` | the execution of scripts | `EVENT_Actor.c`, `Tasks_ExecuteMethodForEvent` and what feeds it |
| `MC_EventExecute` | scripts for TLC | |
| `EventExecuteProofs` | theorems | |

The names of variables and actions are the code's where TLA+ allows it; each variable's
comment says what it is in the code.

**ConnSupervisor.** The clock counts time since boot. The callback is three steps
(`TimerFires` to its health decision, `TimerTests` for its test of `disconnect_start_us`, `TimerJudges`
for its second read of it) and `connectivity_supervisor_mark_connected` is three
(`MarkConnectedBegin`, `MarkConnectedClears`, `MarkConnectedEnd`), because the other
core can run in between and nothing is locked; the clock does not move while either is half done. The
outage clock has 64 bits on a 32-bit machine: a store of 0 that meets the judging callback may be seen, or leave it, half done
(`OutageEnds`, `Judged`). `Reboot` loses
RAM and keeps `file`, the two properties in IHUB.json. `InitActor` is also the
re-initialisation of a stack reset: it clears the armed flag until the READ of the file is
answered. Three history variables (`lastConnect`, `raced`, `outageSince`) are read by properties only. Abstracted: the other properties
of the file, and `time_t` conversions. Reboots not started by the supervisor (the user's, a
reset after many failed stack resets) are not modelled: they end a boot early, and no property here
spans a boot.

**IHubSession.** The session task has the higher priority on the same core, so the monitor
runs only while the session task blocks. One value of `ses` is one place where it blocks, and one action is
everything from there to the next such place. The monitor can be overtaken at any point, so CONNECT is
three actions. `ToExit`, `GiveUp`, `FailClose`, `ExitClose` are the ways through the labels
`exit` and the end of the loop. `ConnectIHUB` is the outcome of `Connect_IHUB`: complete,
failed with or without the flag set, or an MQTT session without its subscriptions. The link
breaks or stalls at any time. `Lossy` lets a full queue drop the DEVICEID reply.
Not modelled: twin, telemetry and cloud-to-device commands, which change none of this state.

**HubPromise** is the abstract specification of the same actor, as SYSTEM sees it: a session is
opening, served, recovering or closing, CONNECTED is announced as it opens, a recovery is silent or
ends in DISCONNECTED, and nothing comes back from closing. `PromiseSpec` in `IHubSession` is its
instance under `phase <- phaseOf(ses)`; `told` is the same in both.

**ServerConnect.** One round of the loop is two actions: the receive (`ReceiveAnswer`,
`ReceiveEvent`, `TimesOut`) and the state's handler. `due` holds the requests whose answer may
still come, in any order, or never. A message arrives at once or in the last moment of the wait. The
timers survive the end of an attempt and of the task, as the `static` variables do, and so
do the flags of the BLE window within a task. `ReceiveEvent` is a message nobody asked for. Time is
in seconds; a timer's age is capped one past its limit, where `difftime(...) > limit` tells nothing
further apart. The task is created by `CreateTask`, and a failed attempt runs `Reset_Stack` in `HandleFailedState`. Left
out: LED patterns and texts.

**ConnAttempt** is the abstract specification: phases off, credentials, provisioning, network,
online, diagnosis, hub, done and failed, and the moves allowed between them. `AttemptSpec`
in `ServerConnect` is its instance under `phase <- phaseOf(state)`.

**ConnLifecycle** composes the connection at the level of `ConnAttempt` and of the status of
`IHubSession`. An attempt of Server_Connect is `ScConnectsHub` or `ScFails`; the monitor is
modelled state by state, the timers of its states being a choice. `Reset_Stack` is three places (`wait`,
`down`, `up`), one per delay, and each of the three tasks that call it can be in it while the others
are. IHUB's events at SYSTEM and the messages at Server_Connect are queues, because their order decides;
the other queues are sets. A handler of Server_Connect may sleep (`ScDelay`, `busy`: the delay before an announce may take hours)
while messages gather behind it, and it goes to the wait for IHUB with whatever its queue holds; `late` remembers that a
success in there is of a session whose monitor has ended. A delay ends only
when no task has something to take (`Quiet`), because handlers take milliseconds and delays
seconds. SYSTEM's restart of the device by RESET_TIME, after a count of resets, is not modelled:
it would end the behaviour early.

**AnnounceBackoff** has a step of time (`Passes`) and two timers that hold the time to their next call.
The start of a countdown is three steps (`StoresCount`, `TestsTimer`, `StartsTimer`) and the five-minute callback is two
(`FiveMinutes`, `Judges`), since the timer task preempts Server_Connect anywhere and lets it on only where it may block. The user
sets any value up to `UserMax`, unchecked, and `vTaskDelay` counts modulo `Wrap`. `own` and `crossed` are histories: who set the delay,
and whether a call met the start of the countdown.
The attempt doubles its own copy of the delay when its `vTaskDelay` returns, so a
write of the user or a reset by the three-hour timer in between is lost, as in the code.

**WifiConnect.** The task's loop is split where it blocks (`waiting`, the delay between
`esp_wifi_stop` and `esp_wifi_start`) and where the handler can change what it reads next. The
handler is split before its announcement. The driver's events are a queue of the event loop's length;
the list of networks is a sequence that says which entries match, and may differ between
its two parses. The wait of ten seconds and the delay of 100 ms end only when the handler
is not in the middle of an event. Left out: static addresses, the access point, ping.

**EventCheck.** A minute has an early and a late phase, as the code tells apart its first seconds. The clock
goes forward whatever the tasks do, and the check task works with a copy of it, the fields of `UserDateTime_1` (`now`): `Polls` stores them,
`Judges` and everything after looks there. GET_RTC_TIME reads the clock in one step and stores what it read later, field by field (`RtcTime`,
`RtcSecond`, `RtcDate`), on the other core, so what lands may be over, or half of one time and half of another. TIMEWARP
stores any start at any moment (`WarpStarts`), also 0, which cancels the warp, and any end (`WarpEnds`). The
reload clears the table in one step and stores a row in two, because the check task, on the other
core, may read a row half stored. Schedules may have any number of records. A store or a read past the last row
(`ReloadOverruns`, `Overruns`) sets `lost`, and the model stops there: C promises nothing of what follows. `Init` is the state
after the INIT and UPDATE_SCH_TABLE that the console sends at boot. Sunrise is treated as
sunset is. Not modelled: the counters reset at midnight, the daily reboot, a queue send that fails,
and exhausted memory.

**EventExecute.** What the executor does from one receive to the next is an action. The answers are in one queue, which
includes those on their way; with `Faulty` an answer may be lost, come late, or fail to parse. Any ScriptId
and any ActionIndex can be asked for, also those that Action.db does not have. The first step of a message takes the mutex (`Locks`), the next reads
it, and either may be the last (`ParseFails`). `regular`
is a history variable: every answer came in time, each ActionIndex is in Action.db, and each row of this device ran one method, no
scene, that succeeded. A wait for a row that runs out and is repeated changes nothing and is a stutter. Left out:
the ramp times, Override_Sport, the event log, and repeated SQL requests. So is what becomes of two senders
that both find no executor and create it on the same static stack (`EVENT_Actor.c:2042`, `3669`, `3759`): what two tasks on one stack do is below
the grain of the model, which has one executor.

## 3. Runs

Passing runs:

| Run | Properties | Shows |
|---|---|---|
| `supervisor` | `TypeOK`, `NoEarlyReboot`, `OutageBounded` | no reboot within the timeout of a connect, except one that falls between the callback's two reads of the outage clock; an outage that the armed, running supervisor watches without interruption ends in a reboot less than two periods after the timeout |
| `session` | `TypeOK`, `NoGhostSession`, `ServedAsAnnounced`, `OneDeviceId`, `EscalatesLast`, `RecoveryShrinks`, `PromiseSpec`, `StopHonoured`, `RecoveryEnds` | no way out leaves CONNECTED behind; a session served is one announced; a DEVICEID reply never starts a later session; recovery escalates only when exhausted or stopped, each of its steps uses it up, and it ends; a stop outside a reconnect call is obeyed; the actor implements the abstract promise |
| `server_connect` | `TypeOK`, `WindowOwned`, `WaitFits`, `AttemptSpec` | with an unexpected event at any moment the BLE window has an owner, its five-minute wait does not reach a polling state, and the task implements the abstract attempt |
| `server_connect_live` | `EveryWaitEnds` | with the code's own limits, and no answer guaranteed, every state with a timer is left |
| `lifecycle` | `TypeOK`, `InCharge`, `StackUp` | however the resets of three tasks overlap, and whatever message is lost, a task is in charge of the connection, except after the loss of the call that ends a reset, with connections disabled, or when Server_Connect takes a CONNECTED whose monitor has ended; a stack taken down is brought up |
| `lifecycle_live` | `NeverGivesUp` | with no message lost, attempts or sessions come again and again; one wait of the monitor, for an answer nothing will bring, and a CONNECTED taken late are excepted |
| `backoff` | `TypeOK`, `CountdownIsTrue`, `CountdownStops` | the code sets no delay beyond its cap, the countdown told to the user is right to one period, with its start interrupted anywhere, and only a call between the store of the count and the test of the timer takes it below zero |
| `wifi` | `TypeOK`, `LossIsTold`, `UpIsTold`, `AnswerIsDue`, `Answered` | with joins racing the handler and the driver, the last announcement is the link's state once all has settled, and a CONNECT_SSID is answered, whichever link's bit ended its wait |
| `event_check` | `TypeOK`, `KeepsToTable`, `OncePerMinute`, `SimulationIsMarked`, `RoundIsRight`, `EveryMinuteRuns` | with reloads, time warps started and cancelled, and late stores of the clock at any moment: the table is left only after a schedule that fills its last row; no row is sent twice for a minute and no polled minute is passed over, but for the disturbances each property names; the lights do not follow a simulation that goes on; an undisturbed round over a schedule its index can tell apart sends exactly the due rows of the lowest order |
| `event_execute` | `TypeOK`, `MutexIsReturned`, `RowsAreAsked`, `AnswersAreCounted`, `ReloadGetsIn` | every way out of the executor gives the mutex back, that of a message that does not parse too; while answers are in time, rows simple and indexes known, the executor waits for exactly the answers under way, a script runs its own rows and a waiting reload gets its turn |

Runs in which TLC finds the code to disagree with what a document or comment says (the
quotations are under "findings" in `PROJECT.json`):

| Run | Statement | What the code does |
|---|---|---|
| `lifecycle_recovery` | during a recovery the monitor does not reset the stack (`iHub_Actor.c:3281`) | a poll is answered with the status as a number, for want of a text for CONNECTION_IN_PROGRESS, and the monitor takes any text but "IHUB CONNECTED" for a loss (`SYSTEM_Actor.c:4167`) |
| `event_defer` | until ENDEPOC an event does not switch the lights on (`EVENT_Actor.c:916`) | the exemption is one variable, `execute_com`: a user's scene that comes while an event waits or runs exempts the event |

Divergences of the same kind that the models contain and that no run asks about:

- a watchdog off for longer than the activity timeout and on again reboots a connected device;
- a stop that arrives during a reconnect call of a recovery is forgotten (`iHub_Actor.c:3357`, `3273`);
- after a hundred rounds without internet CONNECTION_IN_PROGRESS stays, and every CONNECT is refused (`iHub_Actor.c:2504`, `919`);
- a token refresh whose subscriptions fail goes unnoticed (`iHub_Actor.c:3412`, `3212`);
- DEINIT, INIT and CONNECT in quick succession find the old session task alive (`iHub_Actor.c:2603`);
- a scan timer that ran out takes a device with Ethernet to the BLE window (`SYSTEM_Actor.c:2998`);
- IHUB's minute may be cut short by the timer of the attempt before (`SYSTEM_Actor.c:5989`);
- a restart taken in the BLE window leaves a scan without an end (`SYSTEM_Actor.c:2999`);
- the monitor's wait for the link's status has no end when the answer is lost (`SYSTEM_Actor.c:4155`);
- WIFI's STATUS may stay CONNECTED without a link, or the other way round (`WIFI_Actor.c:145`);
- a connect between the supervisor's test of the outage clock and its second read may reboot the device (`iHub_Actor.c:2957`, `2961`);
- a Server_Connect that sleeps before its announce may take the CONNECTED of a session that is over, exit, and leave the REINIT in its queue (`SYSTEM_Actor.c:2723`);
- a call of the five-minute timer while a countdown starts lets the timer be started again with less than a period left, and the count goes below zero (`SYSTEM_Actor.c:2642`);
- a SET stores a delay beyond the cap (`SYSTEM_Actor.c:316`), and one of more than 2^32 ticks is waited for modulo 2^32 (`SYSTEM_Actor.c:2653`);
- a schedule of 400 records leaves the loops without an end, one of more is stored beyond the table (`EVENT_Actor.c:1780`, `3187`);
- a reading of GET_RTC_TIME that is stored late runs a minute's round again or misses one (`EVENT_Actor.c:3963`);
- a warp cancelled by a start of 0 leaves the rest of its round unmarked, one started in a real round marks it (`EVENT_Actor.c:4034`, `2025`);
- after an ActionIndex that Action.db does not have the executor waits for ever with the mutex held (`EVENT_Actor.c:2315`, `2871`).

Each property of a passing run has a mutant in `PROJECT.json`: a plausible slip in a
definition of the model (a guard dropped, a count off by one, a status not written) under
which the same run finds that property violated. The mutated forms stand next to
the definitions, marked "Mutant".

### Bounds, and why they are enough

- `ConnSupervisor`: `Grace` 2, `DiscTimeout` 5, `ActTimeout` 2, `Interval` 2, `MaxTime` 12 (per
  boot; boots are unlimited). What matters of the source's values (a period of seconds, timeouts of
  minutes) is their order: the activity timeout is not shorter than the period, the disconnect timeout is
  longer than both. It is not a multiple of the period, which makes the bound of `OutageBounded`
  exact: one unit less and TLC finds it violated. Twelve units hold the grace and a whole outage after it, or
  a short outage, a connect and the beginning of the next one.
- `IHubSession`: three recovery attempts, as in the code; all other state is finite.
- `ServerConnect`: `SourceLimit` is the code's limits. `ShortLimit`, of the runs with events, keeps
  the two of three seconds and lets the others run out in the first receive that waits: only "expired or
  not" is read of them.
  `MaxEvents = 1`: one unexpected message or SETSERVCONNFLAG, at any time, on top of any late
  answers of earlier states and attempts, which are not counted. Attempts are unlimited. The theorems
  hold for any `Limit` and `MaxEvents`.
- `ConnLifecycle`: one command of the user or event of a network, one waiting SERVER_CONNECT, one message in
  each of the monitor's queue and `due`, one event of IHUB at SYSTEM, two messages at Server_Connect (a success with the REINIT behind it), any of
  them lost (8.2 million states).
  One command is enough for two resets at once, because the monitor, SYSTEM and a failing attempt
  reset on their own. The live run has no losses and no commands, two events of IHUB and one message at Server_Connect: what must go on by itself. The
  theorems hold for any bounds.
- `AnnounceBackoff`: `Start` 1, `Restart` 2, `Cap` 12, `UserMax` 16, `Wrap` 14, `Tick` 3, `Calm` 7. As in the source the
  delay can outlast several ticks and the three hours can end within it, the tick does not divide the three hours or most delays, and the
  user can set a delay beyond the cap and beyond the wrap.
- `WifiConnect`: two networks, `MaxRetries` 3 as in the code, three events in the event loop: enough for the
  loss, the association and the address of one link, or of two links in part. Commands are unlimited.
- `EventCheck`: two rows, days of two minutes, three minutes (a midnight and the
  sunsets of two days), two commands besides INIT, warps that begin or end at 0, 2 or 3, schedules that differ in order, in date, in sunset, in an
  order out of range, and in length: some fill the table, some overrun it (8.1 million states). GET_RTC_TIME counts for two commands, so
  that it alone fills a behaviour; together with a TIMEWARP it is covered by the proofs only. `IndexRange` equals `Rows`: the wrap of a `uint8_t` row index is in the
  model and not in this run (in the source 400 rows, 256 indices).
- `EventExecute`: five script ids (two devices' rows, a failing method, a scene, a scene of itself, and 0, which has no rows), an ActionIndex that no row
  has, a queue of two, three commands. That lets a scene add its script while another message waits, and fills the queue;
  with three messages an answer that came late meets a later question.

### Fairness, and why the code justifies it

- `IHubSession!Fairness`: the session task is scheduled when ready and all its blocking calls have a
  timeout; the monitor finishes a CONNECT it began. The DEVICEID response is strongly fair
  because the monitor is repeatedly busy with other messages and takes the queue in order; a
  request also wakes an actor that is not initialised. A *lost* reply is exempt (`DeviceIdLost`
  needs no fairness), and `StopHonoured` excludes the wait for it, which has no timeout in the code.
- `ServerConnect!FairSpec`: the scheduler runs the handlers, time passes, and the
  SERVER_CONNECT of a reset is taken from the queue. No answer of another actor is assumed.
- `ConnLifecycle!FairSpec`: each of the three tasks goes on when it can again and again (strong, because
  `Quiet` may be interrupted by messages); an attempt reaches IHUB or fails, which is what `EveryWaitEnds`
  shows of it; a session being opened, recovered or told to end does so, which is what
  `IHubSession` shows; IHUB answers a GET. Users and networks are under no fairness.
- `WifiConnect!FairSpec`: both tasks run when they can, and a link without an address gets one or is lost
  (the access point drops a client that it does not serve, or DHCP answers). A join itself may never be answered: the task's
  wait ends.
- `EventExecute!FairSpec`: the executor, and the reload once the mutex is free. Commands are finitely many, so
  the executor is idle in the end; an executor that never is idle could starve the
  reload, which waits without a timeout.
- `EveryMinuteRuns` of `EventCheck` is an action property and needs none: it says that the clock cannot leave a minute that
  was polled and not worked for.
- `ConnSupervisor` states its bounded response as the invariant `OutageBounded` and needs no fairness.

## 4. Proofs

Every theorem holds for all values of the constants that satisfy the named assumptions
(`TimesAssumption`, `ConstantsAssumption`, `DelayAssumption`, `WifiAssumption`, `EventCheckAssumption`, `EventExecuteAssumption`), and so for any clock, number of events and number of attempts.

| Theorem | Statement |
|---|---|
| `ConnSupervisorProofs!TypeCorrect` | `Spec => []TypeOK` |
| `ConnSupervisorProofs!NeverEarly` | `Spec => []NoEarlyReboot` |
| `ConnSupervisorProofs!NeverStarved` | `Spec => []OutageBounded` |
| `IHubSessionProofs!TypeCorrect`, `GhostFree`, `Announced`, `AnswersMatch` | `Spec => []TypeOK`, `[]NoGhostSession`, `[]ServedAsAnnounced`, `[]OneDeviceId` |
| `IHubSessionProofs!EscalationIsLast`, `RecoveryTerminates` | the action properties `Spec => EscalatesLast`, `RecoveryShrinks` |
| `IHubSessionProofs!ImplementsPromise` | `Spec => PromiseSpec` |
| `ServerConnectProofs!TypeCorrect`, `WindowAlwaysOwned`, `WaitsFit` | `Spec => []TypeOK`, `[]WindowOwned`, `[]WaitFits` |
| `ServerConnectProofs!ImplementsAttempt` | `Spec => AttemptSpec` |
| `ConnLifecycleProofs!TypeCorrect`, `StackComesUp`, `AlwaysInCharge` | `Spec => []TypeOK`, `[]StackUp`, `[]InCharge` |
| `AnnounceBackoffProofs!TypeCorrect`, `CountdownNeverNegative`, `CountdownCorrect` | `Spec => []TypeOK`, `[]CountdownStops`, `[]CountdownIsTrue` |
| `WifiConnectProofs!TypeCorrect`, `LossTold`, `UpTold`, `NoAnswerForgotten` | `Spec => []TypeOK`, `[]LossIsTold`, `[]UpIsTold`, `[]AnswerIsDue` |
| `EventCheckProofs!TypeCorrect`, `SimulationMarked`, `RunsOnce`, `RoundsAreRight` | `Spec => []TypeOK`, `[]SimulationIsMarked`, `[]OncePerMinute`, `[]RoundIsRight` |
| `EventCheckProofs!TableKept` | `Spec => []KeepsToTable` |
| `EventCheckProofs!NoMinuteMissed` | the action property `Spec => EveryMinuteRuns` |
| `EventExecuteProofs!TypeCorrect`, `MutexReturned`, `RowsWereAsked`, `AnswersCounted` | `Spec => []TypeOK`, `[]MutexIsReturned`, `[]RowsAreAsked`, `[]AnswersAreCounted` |

*NoEarlyReboot* is not inductive: that no reboot comes early depends on the outage clock never being
older than the last connect. The strengthening says so: unless `raced`, a running outage clock was started no earlier than the last
connect, and so was the value the judging callback has seen. A connect before the callback's test ends the outage it would
judge; one after its second read is too late to matter; one in between sets `raced`, and the theorem says that no other order reboots early.

*OutageBounded* needs more of the past: the running timer is due within one period (`DueInv`), and in a watched
outage (`InTime`) the next callback, or the one that is running, either falls into the outage's first
period or comes less than one period after the outage clock would run out. A callback that does not reboot
moves from the first case to the second; the clock of an earlier outage only makes it earlier.

*NoGhostSession*, *ServedAsAnnounced* and *OneDeviceId* need to know what the status and the announcement
are at each place where the task blocks, and that the request for a DEVICEID and its reply
exist only while the task waits: the strengthening relates `ses`, `status`, `told`, `idReq` and `idQ`.
*RecoveryShrinks* is the measure behind `RecoveryEnds`: the blocking calls left in the attempt plus three for each attempt
left. Setting and clearing the flag in between never raises it. *PromiseSpec* takes one step per action
(`PhaseMoves`): each is a move of `HubPromise` or leaves phase and announcement as they are.

*ServerConnect*: the invariant is `TypeOK /\ WindowOwned /\ WaitFits /\ IdleWaits`; `IdleWaits` says
that no message is in hand once the task has exited or is about to, so that no handler runs there. The proof has a lemma per group of variables (flags, timers, state,
count, requests) and then one per invariant. The refinement follows from one lemma per pair of phases
(`Moves`): each step is a move of `ConnAttempt` or leaves the phase as it is.

*StackUp* is inductive once the places of the three tasks are typed: each task initialises what is off when it leaves
`down`, whoever took it down. *InCharge* needs to know who follows a monitor on its way out (a waiting SERVER_CONNECT or
SYSTEM's poll), that nobody is expected with the flag off, and that a success in the queue of Server_Connect is of a session that a
monitor watches, or `late` (`Inherited`, `OffIsExcused`, `SuccessIsWatched`): a task that exits on a success which is not late leaves a monitor in charge.

*CountdownIsTrue* is about two clocks of different grain: while both run, the count is ahead of the delay's end by the time to the
next call less the time the timer had left at the start (`InPhase`); a stopped timer leaves less than a
period (`Stopped`). At the start the count is whole, or less by the one call that may come before the test (`Beginning`); that call is
what `crossed` remembers, and the only one after which the rest is not a whole period (*CountdownStops*).

*LossIsTold* and *UpIsTold* speak of the settled system; the strengthenings (`Telling`, `AddressIsTold`) say at every other moment what
is still to be told and by whom: an event in the queue, the handler before its announcement, or the flags and counters that
will make the handler announce the loss when it comes. The last event posted decides: a link that is not up was
lost after everything still to be delivered (`LossIsLast`). *AnswerIsDue* is what `Answered` rests on. From the wait that found the bit until
an announcement, the handler knows of the link or is about to (`LossWillBeTold`), a link that is gone has a loss still to be
delivered (`LossIsComing`), and an address has its event (`AddressIsComing`). So once the events have run out only a
link without an address is left.

*KeepsToTable*: as long as no record was stored in the last row that row is unused, ends both loops, and the reload has not passed it (`Filled`).

*OncePerMinute*: what was sent for the minute lies behind the row the round is at (`SentSoFar`), and a minute already worked
for is remembered by `executedThisMinute` until its late phase (`Remembered`), so that no second round begins in it. That needs the
time which the task works with to be one the clock has shown, not before the last round's (`Past`, `Judging`, `Behind`); a late store of
GET_RTC_TIME that breaks it is what `renewed` records.
*SimulationIsMarked*: from its reading to the end of its turn the task's view of the time warp is that of `startEPOC1`, unless TIMEWARP
came between (`Simulating`); `meanwhile` records whether it started or cancelled one.

*RoundIsRight* takes an invariant on each pass of the two loops while nothing disturbs the round (`Right`): what the first loop
stored for a row tells whether the row is due (`Seen`), the order is the minimum over the due rows passed so far (`LowestOf`), and
the rows sent are the rows asked for up to the row of the second loop (`SentOf`). It needs that a row's index meets its own date
(`Countable`): with more than 256 records the `uint8_t` of `Start_EpochDay` reads the date of another row, and
the property says nothing.
*EveryMinuteRuns*: a minute that is watched either has had its round or is still at its first poll, with
`executedThisMinute` cleared (`Watched`), because the late phase of the minute before clears it (`ClearedLate`).

*RowsAreAsked* rests on a counting argument: while `regular`, the rows asked for are those already run or skipped followed by the
answers still in the queue, in this order, and the executor's counter is the number of those (`InStep`); so it stops when
the queue is empty, and the next message finds no old answer. *AnswersAreCounted* follows from the same invariant.
*MutexIsReturned* has one case per way out, the message that does not parse included.

Every invariant and every action property of the passing runs, and both refinements, are proved. Only model-checked are the
liveness properties (`StopHonoured`, `RecoveryEnds`, `EveryWaitEnds`, `NeverGivesUp`, `Answered`, `ReloadGetsIn`), which
are out of the prover's reach, as is ENABLED; of `RecoveryEnds`, `Answered` and `ReloadGetsIn` the safety part
is proved: `RecoveryShrinks`, `AnswerIsDue`, `AnswersAreCounted`. No module declares a RECURSIVE operator.

## 5. Not modelled

`PROJECT.json` gives the reason for each component. Pure I/O (HTTP, NTP, storage, sockets),
vendored libraries (a file system with its drivers and character sets, a database: most of the repository's lines) and the
Azure middleware are left out; the last appears as the outcomes of its calls. Of SYSTEM, its other commands,
properties, counters and daily jobs; of IHUB, twin and telemetry; of WIFI, static addresses, the access point and ping; of
EVENT, EXECUTEEVENTID, the location table, ramp times and the astronomical formulas. `trimLightActor` is not part of the build.

## 6. Plan

1. **ETH** actor with its events, as what answers `ServerConnect` beside WIFI.
2. **Console dispatcher**: routing, payload ownership, and the one-tick sends. The losses those sends
   cause are already in the models of their receivers.
3. **EVENT**: EXECUTEEVENTID and the jobs at midnight.
4. **LED** (precedence), **bootloader** (partition selection).
5. Pure algorithms as operators against a reference: the retry back-off, the RTC's BCD
   conversion, the splitting of arguments.
