# A verification project for airies-ups

`airies-ups` is a daemon that watches one UPS, raises events and alerts about
it, streams its state to a web interface and, when the battery runs low, shuts
a site down host by host.  This directory holds TLA+ models of the daemon,
translated from the C source, with the TLC configurations that check them and
the theorems TLAPS proves about them.

All paths below are relative to the repository (`src/src/...` is the daemon).
`PROJECT.json` maps every definition to the lines it models.

## 1. The system and its parts

Threads of the daemon (`daemon/main.c`):

| thread | code | what it does |
|---|---|---|
| main | `main.c` | start-up, signal wait, teardown |
| slow monitor | `monitor.c` | polls every few seconds, fires events, calls the alerts and the trigger check, clears the HE inhibit |
| fast loop | `fast_loop.c` | polls power state every 200 ms, announces transitions at once |
| weather | `weather.c` | asks the forecast service, overrides one UPS register |
| HTTP | `api/server.c`, `api/routes/*` | JSON endpoints and the event stream |
| shutdown worker | `shutdown.c` | one per workflow; forks children for parallel groups |

What each component keeps, does, and must get right:

| component | state | operations | hard | correct when |
|---|---|---|---|---|
| Shutdown manager, asynchronous side (`shutdown.c:564-603, 1139-1278`) | the `shutdown_mgr` fields under `state_lock`: state, workflow id, kind, worker handle, snapshot | `shutdown_start_async`, `worker_main`, `result_append`, `shutdown_get_status`, `shutdown_free` | starts race starts and completions, in four critical sections | one workflow at a time, of the kind asked for; each thread joined once; pollers see one coherent history; the slot is given back |
| Shutdown trigger (`shutdown.c:949-1076`) | `trigger_first_met`, `triggered` | `shutdown_check_trigger`, called after each successful poll; settings rewritten over HTTP | any sequence of readings and settings; latch, debounce, restart | fires only after the whole delay; a lasting condition fires; a firing shuts the site down |
| Shutdown workflow (`shutdown.c:348-945`) | plan from the database, children, rows, events | phases 1 (groups), 2 (UPS), 3 (controller) | parallel children, ceilings, every call may fail | groups in order; honest rows; no key left; a dry run touches nothing; the events tell how it ended |
| UPS link (`ups/ups.c`, `ups_modbus.c`) | transport, error counter, capabilities, register list, identity, command lock | connect, read, write, command, reconnect, unlocked queries | pollers, HTTP writers and a reconnect share one transport; another unit may come back in place of the first | each handle is released once; what is cached describes the unit spoken to; attempts are spaced; the link comes back |
| UPS drivers (`ups_smt.c`, `ups_srt.c`, `ups_apc_hid.c`, `ups_cyberpower_hid.c`, `hid_pdc_core.c`) | register tables, resolved HID fields | read blocks, registers and reports; write registers; commands | the same address is written down in several tables; absent fields read as 0; a write shares a report with other fields | pages agree; a write touches one register; what is read is what the device says |
| HID parser (`hid_parser.c`) | parser state within one call | parse descriptors, find fields, extract values | item order, bit offsets, sign extension, table limits | the field read is the field described |
| Monitor (`monitor.c`, `status_snapshot.c`, `config_snapshot.c`) | last reading, HE inhibit, identity, persisted status | slow poll, events, retention, status file | connection loss, restart, a second thread that owns some bits | each transition announced once |
| Fast loop (`fast_loop.c`, `xfer_ring.c`) | last fast reading, ring of transfer reasons | 200 ms poll | shares events with the slow loop, restart | no transition announced twice or lost |
| Alerts (`alerts.c`) | active flags | check after a poll | hysteresis, restart | an alert raised is cleared once |
| Weather (`weather.c`) | override in force, saved register | forecast, override, restore | restart under an override, HE inhibit shared with the monitor | the saved value is restored |
| Event stream (`api/sse.c`) | subscribers, queues, cached frame | subscribe, broadcast, read, drop, shut down | reader, broadcaster, cleanup and teardown race; full queues | frames in order, none twice; slots come back; the teardown ends and nobody uses a destroyed broadcaster |
| Configuration page and audit trail (`api/routes/config.c`, `config_snapshot.c`) | audit rows, cached thresholds | set a register, daily snapshot | write, read back and record in three calls, among other writers | the client is told the truth; the trail ends up with what the unit holds |
| Other API routes, authentication (`api/`) | sessions, settings | JSON endpoints | | |
| Daemon (`main.c`) | the order of start and stop | start-up, teardown | threads outliving what they use | nothing is freed before its users end |
| CLI, frontend, packaging | none of their own | print, render, install | | |

How they interact: the slow monitor's poll callback (`main.c:161-167`) calls
`alerts_check` and `shutdown_check_trigger` on the poll thread;
the trigger and the HTTP route `POST /api/cmd` both call
`shutdown_start_async`; workflow milestones go through `monitor_fire_event`
to the events table and the event stream; the fast loop and the slow
loop both fire power events; the weather thread writes a UPS register and
moves the HE inhibit the slow loop also moves.

The hazards this code is exposed to are listed, each at its line and with the
properties that would catch it, under `hazards` in `PROJECT.json`.

## 2. What is modelled

### ShutdownService and ShutdownAsync

`ShutdownService` is the promise of `shutdown.h:104-144`: numbered requests,
one served at a time, of the kind asked for, each one launched or dropped and
then ended.  `ShutdownAsync` is the code.  An action is one critical section
of `state_lock`, or one pthread call between two of them:

| action | code |
|---|---|
| `StartBusy`, `StartClaim` | first critical section of `shutdown_start_async` |
| `StartJoin` | `pthread_join(prior)` outside the lock |
| `StartCreate`, `StartCreateFails` | `pthread_create` and its error path |
| `StartRecord` | last critical section: the handle is recorded |
| `WorkerBoot`, `WorkerAppend`, `WorkerFinish`, `WorkerExit` | `worker_main`, `result_append` |
| `GetStatus` | `shutdown_get_status` |
| `FreeTake`, `FreeJoin` | `shutdown_free` |

The thread of workflow *w* has handle *w*.  `asked` and the field `shown` of a
row are history variables.  `Service` is the refinement mapping: the abstract
phase is read off the worker thread, the abstract kind is the one the worker
really runs with.

### ShutdownTrigger

`shutdown_check_trigger` on the poll thread, composed with the manager in its
abstract form (`Mgr == INSTANCE ShutdownService WITH MaxWorkflows <- MaxRequests`; the
module's own `TriggerInit`, `TriggerNext` and so on carry the prefix because its proofs stand in one module with
the manager's).  The six `Check...` actions
are the paths through one check; the environment changes the reading, rewrites the
settings, ticks, steps the wall clock, asks for workflows over HTTP and
restarts the daemon.  A check reads only `now - trigger_first_met` and
whether `trigger_first_met` is 0, so the model keeps that age, saturated at
`MaxAge`.  `held`, the time for which every check has found the condition met, is
history and survives restarts.

### ShutdownWorkflow

`shutdown_execute_ex` with its children.  `pc`, `g` and `t` are the worker's
place; `proc`, `exit` and `shell` are the execution of each target, by the
worker (sequential group) or by a forked child (parallel group); `outcome`
is the array of that name.  What may fail in a run is the variable `faults`,
chosen once: allocations, queries, forks.  Time is not counted: a ceiling may
pass at any moment.  The signal handler is the one `main.c:351-352` installs,
which children inherit, so SIGTERM does not end them.

### Monitor

The slow loop of `monitor.c`, the fast loop of `fast_loop.c` and the main thread that
starts and stops them, with the bit alerts of `alerts.c` and the row of
`ups_status_snapshot`.  A reading is a set of bits; an event has a condition, says that
it began or ended, and is told in a step of its own, in the order of the code, so that a
crash may fall between any two.

| actions | code |
|---|---|
| `Boot`, `StartFast`, `StartSlowOnly` | `monitor_create`, `monitor_start` |
| `Stop`, `StopFast`, `FreeFast`, `DropFast`, `FinalSave` | `monitor_stop`, `fast_loop_stop` |
| `InitialRead`, `Poll`, `PollFlakes`, `PollLost`, `SlowTells`, `Save`, `LostTold`, `SlowEnds` | `monitor_thread` |
| `Tick`, `FastTells`, `TickEnds`, `FastEnds` | `fast_loop_thread` |
| `Crash`, `UpsChanges` | the environment |

`prev` stands for `prev_status` and the copy of the row in memory, which the code sets
to the same value at the end of each poll.  `said`, the conditions whose
last event says they hold, survives restarts; `untold` holds the ones this run started
from although the last event says otherwise, which only their next event can
mend: after a crash between an event and the row, and for every bit the
fast loop takes as its baseline.  The ring of transfer reasons, the HE inhibit, the daily
register snapshot and the threshold alerts have state of their own and are left out.

### Weather

The weather thread, the register it overrides, and the paragraph of the slow loop
that ends the HE inhibit on its own (`monitor.c:345-359`).  Nothing they share is
under a lock, so each store is a step of its own, and either thread may stand between
the flag of the inhibit and its source while the other one moves them.

| actions | code |
|---|---|
| `Assess`, `TakeSim`, `Look`, `Decide`, `TellWeather` | one cycle of `weather_thread` |
| `Save`, `Override` | `apply_severe`, `read_and_save_param`, `write_param` |
| `SetInhibit`, `SetSource` | `monitor_he_inhibit_set` |
| `Restore`, `Release`, `Unname` | `apply_restore`, `monitor_he_inhibit_clear` |
| `Poll`, `PollCheck`, `PollCount`, `PollClears`, `PollUnnames` | the HE inhibit in `monitor_thread` |
| `Simulate`, `OperatorSets`, `WeatherTurns`, `Restart` | the HTTP threads and the environment |

The weather service says one Boolean or does not answer, and `basis` remembers on what
`severe` rests.  `operators` is history: what the operator left the register at, which is
what a fixed `normal_raw_value` says it should go back to.  `forgotten` is history too: it
names the ways in which the code forgets that a register is overridden, and nothing else
may leave one overridden in fair weather.  Assumption: the operator does not write the
register while the thread overrides it.

### UpsLink

The link of `ups.c` to the device, with the drivers as that file sees them: who claims
which device, what each may do, and which registers each lists.  Everything
that runs under `cmd_mutex` is `at`, the place of the call that holds it; the queries that take no
lock look between two of its steps.

| actions | code |
|---|---|
| `ProbeOpens`, `ProbeSkips`, `Rejects`, `ConnectFails`, `Claims` | `ups_connect`, `driver->connect` and `driver->detect`; `ConnectFails` is its failing allocation |
| `NarrowCaps`, `DropList`, `ResolveRegs`, `RefreshInventory` | `ups_resolve_runtime` and what follows it |
| `Enter`, `TooSoon`, `AttemptFails`, `AttemptOpens` | `ups_ensure_transport`, `ups_try_reconnect` |
| `ReadOk`, `ReadFails`, `OtherCall` | the calls; `ups_handle_error` in `HandleError` |
| `FindConfigReg`, `ForgetConfigReg`, `Topology`, `TopologyAnswers` | `ups_find_config_reg`, `ups_topology` |
| `Close` (`Freed`) | `ups_close` |
| `Unplug`, `Plug`, `Tick`, `StepBack` | the environment |

A device is how it is attached, the marks its identification bears, the HID fields it declares and its
outlet groups.  `wire` is the device plugged in, `peer` the one detect claimed; `live` says that the open handle is of a line
that is still there.  A hidraw handle goes with its device, and so does a serial one when the adapter is pulled; when only the
cable is taken off the UPS the line stays, and the handle speaks to whatever is plugged in next (`Speaking`), without
a reconnection: `swapped` is the history of that.  A serial line opens with nothing on it, too.  `torn`, `since`, `guessed` and `unread` are
history as well; `polled` says that the poller's `read_status` has succeeded, after which it calls `read_dynamic`.  `held` says what became
of the descriptor a thread was handed, which a reconnection may free.  Four HID fields stand for the
lists of the HID drivers.

### HidParser and HidDevice

`HidParser` is the descriptor parser as a running state, a recursive function over the items (`After`, `Parse`), the lookup
of a field by its path (`Find`) and the extraction of its value (`Extract`), next to a reference
definition read off the HID specification (`Declared`, `Value`), which looks at every item from
where it stands instead of keeping a running state.  `HidDevice` is what the HID core and the two
drivers do with it: the standard fields (`StandardPaths`, `SummaryPaths`), the readers, the commands and the
registers, on a device whose reports change by themselves, whose requests fail and
which may accept a report and ignore it.

| actions | code |
|---|---|
| `Open` | `hid_pdc_open`, `resolve_standard_fields`, `apc_connect` |
| `ReadStatus`, `ReadDynamic`, `ReadThresholds`, `ReadInventory` | the `hid_pdc_read_...` functions |
| `CmdShutdown`, `Command` | the `hid_pdc_cmd_...` functions, and those of the APC driver |
| `ConfigRead`, `ConfigWrite` | `hid_pdc_config_read_field`, `hid_pdc_config_write_field` |
| `Changes` | the device and its front panel |

A byte has three bits in the instance (the width is a constant), so that a report of several bytes stays
a small number.  `WidthAssumption` keeps devices to fields of at most four bytes and reports that fit the buffer of
`hid_field_read_raw` (`REPORT_BYTES`): within it the C code's fixed widths (`int32_t` values, `uint16_t`
bit counters) hold every number the model computes, and outside it the model says nothing.  Left out: the layout of items in bytes (usages of four bytes are truncated there), the
items the parser ignores (push, pop, usage ranges), the conversion of dates and the synthesis of the outlet state.

### ModbusUps and ConfigRegs

`ModbusUps` has no state: it is the register maps of the SMT and SRT drivers, both the
descriptors of single registers and the block decoders of the readers, the commands, and
how one register is read, validated and written.  A reader takes the battery voltage, the efficiency and the timers as
signed words; a negative efficiency is the reason there is none.  `ConfigRegs` puts a unit behind it and lets the HTTP
threads, the daily snapshot, the weather thread, the shutdown workflow and the front panel at it.

| actions | code |
|---|---|
| `Post`, `PostInvalid`, `PostWrite`, `PostReadback`, `PostRecord`, `PostRefresh` | `POST /api/config/ups`, in its calls of the UPS, the database and `api_refresh_thresholds` |
| `SnapStart`, `SnapRead`, `SnapDecide`, `SnapInsert`, `SnapDone` | the daily snapshot of `monitor.c` and `monitor_config_snapshot_decide` |
| `About`, `Cmd`, `Answered` | the pages that list registers, `POST /api/cmd` |
| `ControlWrite`, `PanelSets` | the writers that leave no audit row |

`Listed` and `NotApplicable` are what `/api/about` says of a register, the number and the flag; `StatusPage`, `DynamicPage` and
`IdentityPage` are what the other pages say, with the battery's readings zeroed while it is disconnected (`Dropped`).

Left out: the application settings, the history route, the JSON details of a register, the decoding of
strings and the pacing of writes.

### EventStream

The broadcaster, the subscribers and `main`'s start and teardown around them.  A broadcast
holds the broadcaster's mutex throughout and is one step; the caching of a state frame is the next one,
under another acquisition.  What libmicrohttpd does with the reader and its cleanup is external and modelled
from how `server.c` and `sse.c` use it.

| actions | code |
|---|---|
| `Begin`, `Broadcast`, `Cache` | `sse_broadcaster_emit`, `sse_broadcaster_emit_cached` |
| `Subscribe` | `sse_handle_stream` |
| `Read`, `ReadEnds`, `Wait`, `Woken`, `TimedOut` | `sse_subscriber_read` and its heartbeat |
| `Detach`, `Free`, `Leaves` | `sse_subscriber_close`, the client |
| `ApiUp`, `ApiFails`, `GivesUp`, `WeatherStop`, `SseShutdown`, `ApiStop`, `ApiStopped`, `MonitorStop`, `ShutdownFree`, `Destroy` | `main` |

## 3. What is checked

| run | shows | bounds |
|---|---|---|
| `async_manager` | One slot holder (`OneWorkflow`), no double join (`JoinedOnce`), coherent snapshots and verdicts (`SnapshotCoherent`, `AllOkHonest`), no answer that goes back (`ViewAdvances`), the refinement with its fairness (`ImplementsService`), and that the slot is always released (`SlotReleased`) | 2 starters, 2 workflows, 2 rows each, failing allocations and thread creations |
| `trigger` | `TriggerDebounced`, `LastingConditionFires`, `FiringShutsDown` | 5 settings (software by runtime, by charge and by field; UPS mode with and without delay), 5 readings (NaN and an absent battery runtime included), delays up to 2 s, 2 workflows, 2 disturbances (restart, step back) |
| `workflow` | `GroupBarrier`, `RowsFollowPlan`, `OkRowHonest`, `KeysRemoved`, `DryRunTouchesNothing`, `EventStory`, `WorkflowEnds` | 4 plans of up to two groups of two targets: parallel then sequential, the reverse, an empty group without ceilings, none; no fault or one of the three |
| `monitor` | `StoryTold`, `RowIsLastObserved`, `AnnouncedBeforeSaved` | 3 readings (none; battery worn; HE mode, test, overload and fault state at once), one end of the daemon by a crash or a stop, failing writes of the row, no stop before the first complete poll |
| `weather` | `Restored` (in fair weather the register is what the operator left it at, unless the override was forgotten), `StoryTold` (the last event tells the weather, and the thread's inhibit does not outlast it), `WeatherFollowed` (in lasting severe weather the inhibit always comes back; in lasting fair weather it ends for good, unless the poll took its source off while it was being set) | 3 values of the register, restoring the saved value or a fixed one, 2 polls of HE mode end the inhibit (30 in the code), one restart; every read, write and answer may fail |
| `link` | `OneHandle`, `LinkHonest` (but for a serial cable moved to another unit before the handle was closed), `AttemptsSpaced`, `LinkRecovers` | 5 devices (two SMTs with one and two outlet groups, an SRT, a Back-UPS, one whose descriptor did not parse), a poller and a web thread, 2 errors close the handle (5 in the code), an interval of 2, one device plugged in later, one backward step of the clock |
| `hid` | `ParsedAsDescribed` on every descriptor of four items, `ReadsDescribed`, `ReadersHonest`, `ShutdownArms`, `WriteHonest` | 4 devices after the ones the drivers know (bits packed in a report, readings under PowerSummary, bitfields of three bytes, signed and oddly placed fields) and 4096 short descriptors; one report or all may fail; 2 writes or changes |
| `config` | `PagesAgree` (but for negative, not applicable and dropped readings, see below), `WritesApart`, `AnswerHonest`, `AuditCatchesUp` | both families with all their registers; in a behaviour one scalar, one bitfield or one string is set, by 2 requests, one other writer and the snapshot; one call fails |
| `stream` | `InOrder`, `DestroyedUnused`, `SlotsReturn`, `StopEnds` | 2 connections for 1 slot, the slow loop and the shutdown worker emitting, 2 frames of 2 pieces, a queue of 1, 2 connects |

The bounds suffice because the code never relates more than two of these
things: a starter races at most the worker it joined and the next starter,
whose handles are then overwritten (two of each); a barrier or a row order
relates two groups and two targets; the debounce relates the age of the trigger
to one delay; a transition relates two readings, and all a
run of the daemon inherits from the ones before is the row and what was said, which
one end of the daemon already drives apart in every way a poll can; the weather thread relates
the value it found, the severe one and the one to put back, which three values tell apart,
and a count of two already has a first poll and a last one.  What is cached about a device is
compared with one other device, which one replugging brings, of another family or of the same with other registers; a counter that closes the handle at two
has a first error and a last one.  A register write meets at most one other writer between two of its
three calls.  A frame is related to the one before it in the queue and to the cached one; a queue of one
is full at once and drops.  A frame of two pieces can be sent in part.  The theorems of section 5 cover
every size of the manager, the trigger, the workflow, the monitor, the weather thread, the link, the settings, the stream,
the parser and the HID devices.

Runs that show a disagreement between the code and what the repository says
of it (`findings` in `PROJECT.json`):

| run | property | what happens |
|---|---|---|
| `trigger_lost` | `FiringShutsDown` | A dry run in flight when the trigger fires swallows the shutdown, and the latch stays set. |
| `workflow_fork` | `OkRowsEarned` | A target whose fork failed is reported ok. |
| `link_topology` | `NeverCrashes` | A status request asks a HID driver for the topology without the lock, after five failed reads closed the handle: the driver dereferences NULL. |

### Met while modelling

Each property below is stated in its module and was found violated by TLC under the constants of the
module's passing run, or those given here; none has a run of its own, to keep the check short.

| module | property | what the code does, against what the repository says |
|---|---|---|
| `ShutdownAsync` | `FreeWaitsForWorker` | The last critical sections of two starters swap: the handle of the ended worker overwrites the live one's, and `shutdown_free` does not wait for it (`shutdown.c:1224`). |
| `ShutdownWorkflow` | `StragglersKilled` | Children inherit the SIGTERM handler and are not killed at the ceiling; the group waits for them (`shutdown.c:422`). |
| `Monitor` | `PowerAnnounced` | With `HasFastLoop` FALSE nobody announces the power bits: a HID UPS goes on battery and no event says so. |
| `Monitor` | `ImminentAnnounced` | Imminence that shows a poll after the battery does never fires "Shutdown Triggered": the guard compares the reading with itself (`monitor.c:438`; `PowerReadings`). |
| `Weather` | `SavedBeforeSevere` | The poll ends the inhibit of an override still in force; the next severe cycle saves the severe value over the operator's (`weather.c:130`). |
| `Weather` | `InhibitEnds` | The poll clears the inhibit while the weather thread sets it, and takes its source off afterwards: the flag stays, nobody's, in fair weather for ever (`monitor.c:649-653, 677-681` and `weather.c:417-431`, against `weather.h:10-11`). |
| `UpsLink` | `SwapNoticed` | A serial cable moved to another unit before enough reads have failed in a row: the line stays open, detect does not run, and the capabilities, the list and the identity are the old unit's (`ups.c:289-299`, against the guard of `ups.c:243-244`). |
| `UpsLink` | `DescriptorsLive` | A reconnection frees the list `ups_find_config_reg` handed a pointer into, while another thread is about to use it (`ups.h:28-31`). |
| `HidDevice` | `WriteSpares` | A write of a field sends the bytes of that field as the first of the report, over the fields it shares the report with (`hid_pdc_core.c:781-799`, against `hid_pdc_core.h:118-123`). |
| `HidDevice` | `FailureTold` | `hid_pdc_read_dynamic_standard` returns success with zeros when the device answers nothing (`hid_pdc_core.c:616-670`, against `ups_driver.h:408`). |
| `HidDevice` | `ShutdownRestarts` | A refused restart delay is ignored and the shutdown reports success (`hid_pdc_core.c:687-694`). |
| `ConfigRegs` | `ReadingsAgree` | A word read as signed, from 0x8000 on, is a negative battery voltage or timer, or an absent efficiency, on the status page and a large number in `/api/about`; an input voltage of 0xFFFF is "not applicable" there and a number here (`ups_smt.c:176, 186, 195-197`, `ups_srt.c:144`, against `config.c:46, 50-57`). |
| `ConfigRegs` | `ApiNotExternal` | A snapshot that reads between a request's write and its audit row records the request's own change as external (`monitor.c:166-169`). |
| `ConfigRegs` | `StringsUntouched` | A request that sets a number writes the first register of a string: validation lets it through (`ups.c:505-507`). |
| `EventStream` | `PrimedWithLatest` | A client that subscribes between a state's broadcast and its caching is primed with the one before and never gets the latest (`sse.c:205-216`, against `Manual.md:379`). |
| `EventStream` | `FramesWhole` | A full queue drops its head although a part of it is sent (`sse.c:76-85, 96-101`, against `sse.c:21-25`). |

Further, without a property:

The trigger: one armed before a switch to
manual mode is still armed when the mode comes back, and fires at once (`CheckIdle`; give
`Configs` the value `WithManual` and `TriggerDebounced` fails); the debounce counts
`time(NULL)`, so a forward step of the clock ends it early (add a positive
number to `ClockSteps` to see it); mains coming back disarms the trigger
without the "Shutdown Trigger Cleared" event (`CheckOnMains`, against
`shutdown.h:60-62`).

The workflow: when the snapshot cannot be allocated
`all_ok` is reported whatever failed (`AllOkHonest` excepts it by its `shown`);
when `done[]` or `outcome[]` cannot be allocated a parallel
group's children are left running (`Forked`; `GroupBarrier` and `KeysRemoved`
except it); when the path of a key file cannot be copied the file stays (`Fires`, `shutdown.c:302`; `KeysRemoved` excepts it); the Phase 1 event counts as succeeded every target
that did not fail, the skipped ones included (`Summary`).

The monitor: a stop between the initial read and the first poll writes
over the row a change nobody was told of (set `EarlyStops` to TRUE and
`AnnouncedBeforeSaved` fails), although `monitor.c:585-590` calls that write
insurance; the fast loop's baseline hides what changed while the daemon was down, which
`monitor.c:54-56` says the saved status is there to catch; "Fault Cleared" is fired when
one of the two fault bits clears although the other is set
(`StoryTold` excepts "Fault"); `monitor_stop` frees the fast loop before it joins the slow
thread, which may be about to read its ring (`FreeFast` while `slow_todo` holds an event of
`SlowWatch`).

The weather thread: no answer of the weather service counts as
fair weather, so an outage in a storm restores the register and fires "Conditions cleared,
parameter restored" (`Assess` with `basis = "silence"`, against `weather.c:428-434`); when the poll
ends an inhibit while the weather thread sets one, the flag may stay without its source (`InhibitEnds` above), and
the register is then never restored (`PollUnnames` after `SetSource`); a restoration that
cannot be written drops the saved value all the same (`Restore`); the daemon may stop under an
override, and keeps no memory of it (`Restart`); a simulation asked for
between the test of the request and its reset is lost (`TakeSim`, against
`weather.h:33-37`).  All but the first and the last are the ways `forgotten` names.

The link: readers of the HID drivers that report success of a device that is gone keep the error counter
down, so the handle is not closed (`MaskedRead`, which `LinkRecovers` excepts); between `Claims` and
`NarrowCaps` an unlocked query sees the capabilities of the whole family; while there is no list, which
is so during every reconnection and after a failed allocation, the queries fall back to the driver's static table.

HID: a byte-aligned field of whole bytes is read without its sign (`Fast`, `hid_parser.c:208-222`;
`ReadsDescribed` excepts it); a collection nested deeper than `HID_MAX_PATH` is not pushed but is popped, and
usages before an End Collection are not cleared (`Fits` excepts both); a readback that failed reads as 0, so writing 0
is reported as done (`WriteHonest` excepts it).

Settings: the audit row is inserted although the write failed (`PostRecord`, `config.c:305-306`), with 0 when the readback
failed too; a query for the last row that fails makes the snapshot record a new baseline (`SnapDecide`); of a string only the
first register is compared, so a change further on is never recorded (`SmtRaw`).

The teardown: main frees the monitor and closes the UPS before it joins the shutdown worker, which may still fire an
event through the monitor or command the UPS (`MonitorStop` before `ShutdownFree`); when the API server
cannot start, the monitor and the UPS are freed while the weather thread runs (`ApiFails`); the API server accepts requests before
its routes and its authentication are registered (`main.c:334-345`).

## 4. Fairness

`ShutdownAsync`: every thread that can run runs (weak fairness on each starter's
remaining steps, each worker's steps other than rows, and `FreeJoin`).  No
request, poll or stop is assumed to come.  Weak fairness is enough because
no step that a mutex guards can be disabled by another thread once enabled:
`state_lock` is held for one action.
A worker's end is assumed; it is what `ShutdownWorkflow` shows.

`ShutdownTrigger`: the poll thread keeps checking, time passes, an accepted
workflow is launched and completed.  Nothing is assumed of the environment.

`ShutdownWorkflow`: the worker runs, and each child and its shell run.  That a
command ends is an assumption: apart from ssh's ConnectTimeout nothing in
the code bounds it.  A ceiling is never forced to pass.

`Monitor`: the threads of a running daemon run, and of the reads a loop attempts for
ever some succeed (strong fairness of `Poll` and `Tick`, which a failed read
disables for a moment).  Nothing makes the daemon start, stop or crash.

`Weather`: the weather thread and the poll run, whatever the register, the weather service and the
operator do.  `WeatherFollowed` assumes of the environment what it says: weather that
lasts, a service that answers, no simulation pending.  Its second half excepts the inhibit that lost its source to the poll,
which nothing ends: it has to be there for ever, nobody's, and `dropped` has to say so.

`UpsLink`: time passes and the call that has `cmd_mutex` goes on (weak fairness).  The monitor keeps polling and gets the
mutex again and again (strong fairness of its `Enter`: other threads take the mutex in between).  Of the attempts to reopen
a device that is there some open it, and some of the devices opened are claimed (strong fairness, because a probe may fail
at random); `LinkRecovers` says "for ever plugged in", so nobody has to plug a device in.

`HidDevice` has no fairness: its properties are about single calls.

`ConfigRegs`: a request once begun is handled to its end and the snapshot runs day after day (weak fairness).  Calls fail
a bounded number of times, which is what "the trail catches up" needs: a database or a link that fails for ever
never records anything.

`EventStream`: emitters finish what they began to emit, the thread of a connection runs, and so does `main` once it tears
down (weak fairness).  Nobody has to connect, to leave or to emit, and no signal has to come.  A thread that waits is
woken by a frame, the end or the heartbeat, whose timeout is a step of the same thread.

## 5. What is proved

Every theorem holds for every value of the constants that satisfies the
module's named ASSUMEs.

* `ShutdownManagerProofs`, the manager: `AsyncTypeCorrect`, then `SlotAlways`, that `SlotInv` is
  invariant.  `OneWorkflow`, `DryRunHonoured` and `JoinedOnce` are not inductive:
  a starter that is about to create a thread must be known to own the latest number
  and no thread yet (`ClaimsNumbered`, `ThreadsCreated`), and the recorded handle must be
  known to be of a thread nobody joined and no starter is about to record
  (`HandleOnRecord`).  The three properties follow, and `ViewsAdvance` from
  `SlotInv` with `ViewBehind`: the last answer is of an earlier workflow or of
  an earlier moment of the latest.
  `SnapshotAlwaysCoherent` and `AllOkAlwaysHonest` rest on `ReportInv`: a worker that has not begun has no rows, those shown are an
  ascending part of the latest workflow's, the count of the snapshot knows of every failure that is shown, and COMPLETED is
  said of a worker past its last row; only with the last two can "no failure counted" be read as "none happened".
  `ManagerIsService` is the safety half of the refinement: initial states map to initial states, every step to a step of the
  service or a stutter.
* `ShutdownManagerProofs`, the trigger: under `Undisturbed` (no manual mode, no forward clock step, the two
  ways out section 3 tells) `ArmedSinceHeldAlways` and, from it,
  `TriggerAlwaysDebounced`; without it `TriggerTypeCorrect`.  The invariant is that an armed trigger is not
  older than the condition it waits on.
* `ShutdownWorkflowProofs`: for every plan, setting and fault, `DryRunAlwaysTouchesNothing`, `WorkflowTypeCorrect` and the other safety
  invariants that `workflow` checks.  A dry run's worker enters no stage in which a real one acts (`DryInv`).
  `GroupsNeverOverlap` and `NoKeyLeft` need `ActionInv`, how the child, its shell and its key file go together and that a
  target the worker has not come to is untouched (`Ahead`), and `BarrierInv`, which adds the children that have ended but are
  not reaped: without them a group could be left with one. `OkRowsHonest` needs `OutcomeInv`: from the wait to the rows, what is
  noted of a child is how it ended, and one that a ceiling cut off is noted before it is reaped.  `RowsAlwaysFollowPlan` says at each stage
  which rows have been written (`Filed`); `EventsTellTheEnd` follows the last event up to the end, and that a dry run never meets a refused poweroff.
* `MonitorProofs`: `TypeCorrect`, `RowKept`, `StoryKept`, `NeverRepeats` and, for a daemon that
  is not stopped before its first complete poll, `AnnouncedFirst`: all
  safety properties of the module, for any set of readings and any number of crashes and restarts.
  The lemmas on events come first: a title names one condition, of
  one bit but for "Fault", and the two threads share none (`RowEvents`, `FastEvents`,
  `Apart`).  None of the properties is inductive, because they speak of the moments
  between two polls: `SlowInv`, `FastInv` and `LinkInv` add what holds while a thread is
  telling, that each condition is either yet to be told or agrees with
  the reading (`Story`, `Heard`), and that an event yet to be told is not a repetition.
  `RowInv` ties the row to `prev`; for a condition the run started from untold,
  the row has not moved since, which is what lets `AnnouncedFirst` survive a crash.
* `UpsLinkProofs`: `LinkTypeCorrect`, `HandleReleasedOnce`, `LinkAlwaysHonest` and `AttemptsAlwaysSpaced`, for any devices,
  any number of threads, errors, replugs and steps of the clock.  `HandleInv` says in which steps
  of a call there is a handle (none while an attempt reopens, one from `Claims` on); `LinkInv` says at each step of a connection which of the
  cached things are already the new device's, which is why `LinkHonest` holds when the mutex is free, as long as the line
has not been `swapped` since detect; one device a driver opens tells of the others at the same place (`ConnectsFits`); `PaceInv` says that the wall clock's
  account of the last attempt never exceeds the true one unless a handle was closed since.
* `ConfigRegsProofs`: `ConfigTypeCorrect`, `AnswersAlwaysHonest`, `WritesAlwaysApart` and `PagesAlwaysAgree`, for either
  family with any outlet groups, any clients, values and sets of registers asked for.  `AnswerInv` adds to the shape of the
  requests what `AnswerHonest` needs between the calls of one: after an ok write, and after a verdict "written" of anything
  but 0, the asked value has been in the unit (`Backed`), whoever has written in between.  The other two are about the tables.
  One lemma per table says where its registers lie (`UnitPlaces` to `CommandPlaces`); from these, settings that
  share an address are one (`SettingsApart`), a setting is one word or a string (`SettingShape`), so that what is
  written covers a setting that nothing overlaps, and commands lie above every register.  For the pages, each row of each table
  is compared with the word its page decodes (`AgreesOn`), the signed ones where they are not negative.  The assumption on `Background` says no more than that a unit
  has the registers of its tables and that they are 16 bits wide.
* `EventStreamProofs`: `StreamTypeCorrect`, `FramesInOrder` and `BroadcasterOutlivesUse`, for any number of connections, slots and emitters, any
  queue depth and frame length.  The invariant `Follows` relates a queue to what its client was sent
  last: its frames ascend, are later than that one, and only the first may be that very frame, of which
  exactly as much was sent as the queue remembers.  It is kept by a frame that is appended (`EnqueueFollows`, `AppendFollows`)
  and one that is dropped, sent or not (`DropFollows`).  With `ConnInv`, that the slots are those of
  the connections served, `LimitInv` bounds both the slots and the queues.  `LifeInv` follows `main` through its stages: a thread that emits has ended
  from the stage on that joins it (`Past`), and no connection is left once the API server is stopped.
* `WeatherProofs`: `WeatherTypeCorrect`, `RegisterRestored` and `WeatherStoryKept`, for any register values, threshold and number of restarts.
  `OverrideInv` is what makes `Restored` inductive: an override that is remembered can be undone and will be,
  for the value to put back is at hand (`has_saved`, or a fixed one) and the inhibit that leads to `Restore` is in force or about to be; what is
  saved is the operator's value unless something was forgotten.  `TellInv` follows the last event and the thread's inhibit
  through the cycle: nobody but the thread sets the inhibit, and whoever else ends it is on record (`dropped`).

* `HidDeviceProofs`: `TypeCorrect`, `NoSharedBit`, `ParsedRight`, `ReadAsDescribed`, `PolledAsReported`, `ShutdownLeavesArmed` and
  `WrittenIsHeld`, for any devices and contents of their reports, any width of a byte and any sizes of the parser's tables.
  All of it goes by induction over numbers.  The library's induction takes an operator, so the module first
  proves it for a set: the numbers are well-founded, hence a nonempty set of them has a least one (`Least`, `SetInduction`).  With it come
  the facts about powers of two, which are a recursive function here (`Pow2`), that reading and writing a field needs.
  Of the parser, an item at a time, `IsState` is kept: no more fields than the table holds, none with a path too long, and of two
  fields of one type in a report the later one begins where the earlier one ends, at the latest; it gives
  `NoSharedBit` (`FieldsApart`, which holds of every descriptor, also where it outgrows the table).  `DeviceInv` is the inductive invariant of the device:
  the driver has resolved what the table says, and a report holds as many bits as it has.  What a call answers follows
  from `DeviceInv` before it (`Calls`), and the properties about calls from that.
  `ParsedRight` is the agreement of the running state with the reference at every item: the values in force
  (`GlobalsAgree`), the queue of usages (`QueueAgrees`), the path (`PathAgrees`), the offsets and, from these, the table (`TableStep`,
  `ParsedIsDeclared`); `Fits` is needed for all but the first.
  The conditions are those of the properties and say what nothing in the code enforces: the status bits are declared once, without a sign and
  in one report (`StatusInOneReport`), a field that is written has its report for itself (`Alone`), the shutdown delay
  fits a byte (`DeviceAssumption`).  No proof uses `WidthAssumption`.

Every safety property of a passing run is proved.  Only model-checked is what needs fairness, which is out
of the prover's reach: `SlotReleased`, `LastingConditionFires`, `FiringShutsDown`, `WorkflowEnds`, `WeatherFollowed`, `LinkRecovers`,
`AuditCatchesUp`, `SlotsReturn`, `StopEnds` and the fairness half of `ImplementsService`.

## 6. What is not modelled, and why

* Texts of events, JSON, HTTP: no property here is about them, or they are pure input and output.
* Scaling, dates, string decoding and labels of the drivers, the outlet state a HID driver makes up: arithmetic on one value,
  better served by unit tests.
* `curl`, SQLite, libmicrohttpd, libmodbus, the kernel's hidraw and systemd: external; the models keep what the daemon
  sees of them (a call fails or succeeds, a row is there or not, SIGTERM comes).
* A child of the workflow that is killed: nothing in the code would remove its key.
* The threshold alerts, the ring of transfer reasons, sessions and setup of the API, the configuration schema, the connectivity tests of shutdown
  targets: see the plan.
* Command line client and web frontend: they keep no state of the daemon's.

## 7. Plan

In the order of what a failure would cost:

1. The threshold alerts with their hysteresis, which start from the same saved status as the bit alerts.
2. The composition of `main` with the weather thread, the monitor and the shutdown worker, for the two teardown orders section 3 tells.
3. Sessions and setup of the API, the configuration schema.
