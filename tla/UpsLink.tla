------------------------------ MODULE UpsLink ------------------------------
(***************************************************************************)
(* The link to the UPS (src/src/ups/ups.c): the driver that claims the     *)
(* device at start-up, the handle it opens, the counter of failed reads    *)
(* that closes the handle, the reconnection the next call attempts, and    *)
(* what is cached about the device: its capabilities, the list of its      *)
(* configuration registers and its identity.                               *)
(*                                                                         *)
(* The slow monitor, the fast loop, the weather thread, the shutdown       *)
(* worker and the HTTP threads all call it.  A call into a driver is made  *)
(* under cmd_mutex; the capability, register and topology queries take no  *)
(* lock, so what a reconnection does is split where they may look.         *)
(*                                                                         *)
(* A device is what a driver can tell of it: how it is attached, the marks *)
(* its identification strings bear, the HID fields it declares and the     *)
(* outlet groups it has.  What is read from it is left out but for whether *)
(* the read succeeds.                                                      *)
(***************************************************************************)
EXTENDS Integers, Sequences

CONSTANTS
  Devices,       \* the devices that may be plugged in
  NoDevice,
  Params,        \* how the UPS is attached, from the configuration: "serial",
                 \* or the vendor of the configured USB identifiers
  Threads,
  Poller,        \* the slow monitor's thread
  NoList,        \* resolved_regs is NULL
  MAX_CONSECUTIVE_ERRORS, RECONNECT_INTERVAL_SEC,
  MaxPlugs,      \* bound on the devices plugged in after the first
  MaxStepBacks   \* bound on the steps of the wall clock, a second back each

Attachments == {"serial", "apc", "cyberpower", "other"}
Marks == {"SKU:SMT", "MODEL:SRT", "PRODUCT:Back-UPS", "MFG:APC", "MFG:CPS",
          "PRODUCT:CP"}

ASSUME LinkAssumption ==
  /\ \A d \in Devices :
       /\ d.attached \in Attachments /\ d.marks \subseteq Marks
       /\ d.groups \subseteq {"sog0", "sog1", "sog2"}
       /\ \A f \in d.fields : f \in STRING
  /\ \A d \in Devices : d # NoDevice
  /\ Params \subseteq Attachments
  /\ Poller \in Threads
  /\ MAX_CONSECUTIVE_ERRORS \in Nat \ {0}
  /\ RECONNECT_INTERVAL_SEC \in Nat \ {0}
  /\ MaxPlugs \in Nat /\ MaxStepBacks \in Nat

-----------------------------------------------------------------------------
(* The drivers *)

\* ups_drivers, in the order they are tried
Drivers == <<"srt", "smt", "apc_hid", "cyberpower_hid">>
Hid == {"apc_hid", "cyberpower_hid"}

SrtDetect(d) == "MODEL:SRT" \in d.marks
SmtDetect(d) == "SKU:SMT" \in d.marks
ApcDetect(d) == d.marks \cap {"PRODUCT:Back-UPS", "MFG:APC"} # {}
CyberpowerDetect(d) == d.marks \cap {"MFG:CPS", "PRODUCT:CP"} # {}

Detects(drv, d) ==
  CASE drv = "srt" -> SrtDetect(d)
    [] drv = "smt" -> SmtDetect(d)
    [] drv = "apc_hid" -> ApcDetect(d)
    [] drv = "cyberpower_hid" -> CyberpowerDetect(d)

\* Which handles open.  A serial line does, whatever is on it and also when
\* nothing is; a hidraw device is looked up by the configured identifiers.
SerialOpens(params) == params = "serial"
HidFound(d, params) == d # NoDevice /\ d.attached = params
ApcConnects(d, params) == params = "apc" /\ HidFound(d, params)
CyberpowerConnects(d, params) == params = "cyberpower" /\ HidFound(d, params)

Connects(drv, d, params) ==
  CASE drv \in {"srt", "smt"} -> SerialOpens(params)
    [] drv = "apc_hid" -> ApcConnects(d, params)
    [] drv = "cyberpower_hid" -> CyberpowerConnects(d, params)

\* The capabilities, and the HID fields those of a HID driver need
ApcBacking == [shutdown |-> "delay_before_shutdown", battery_test |-> "test",
               clear_faults |-> "module_reset", mute |-> "alarm_control",
               beep |-> "lights_test"]
CyberpowerBacking == [c \in DOMAIN ApcBacking \ {"beep"} |-> ApcBacking[c]]

SerialCaps == {"shutdown", "battery_test", "clear_faults", "mute", "beep",
               "he_mode"}
Caps(drv) ==
  CASE drv = "apc_hid" -> DOMAIN ApcBacking
    [] drv = "cyberpower_hid" -> DOMAIN CyberpowerBacking
    [] OTHER -> SerialCaps

ApcResolveCaps(d) == {c \in DOMAIN ApcBacking : ApcBacking[c] \in d.fields}
CyberpowerResolveCaps(d) ==
  {c \in DOMAIN CyberpowerBacking : CyberpowerBacking[c] \in d.fields}

ResolvedCaps(drv, d) ==
  CASE drv = "apc_hid" -> ApcResolveCaps(d)
    [] drv = "cyberpower_hid" -> CyberpowerResolveCaps(d)
    [] OTHER -> Caps(drv)

\* The registers.  Those of an SMT belong to the unit or to an outlet group;
\* those of a HID driver are the HID fields it has a descriptor for, of which
\* these stand for the rest.
SmtRegs == {"unit", "sog0", "sog1", "sog2"}
CyberpowerRegs == {"transfer_low", "alarm_control", "delay_before_shutdown"}
ApcRegs == CyberpowerRegs \cup {"sensitivity"}
Regs(drv) ==
  CASE drv = "apc_hid" -> ApcRegs
    [] drv = "cyberpower_hid" -> CyberpowerRegs
    [] drv = "smt" -> SmtRegs
    [] drv = "srt" -> {"unit"}

\* resolve_config_regs: an SMT whose outlet groups cannot be read is taken to
\* have them all; the SRT driver has no such hook.
SmtResolve(d, answers) == {"unit"} \cup (IF answers THEN d.groups
                                         ELSE SmtRegs \ {"unit"})
ApcResolve(d) == ApcRegs \cap d.fields
CyberpowerResolve(d) == CyberpowerRegs \cap d.fields

-----------------------------------------------------------------------------
VARIABLES
  wire,      \* the device plugged in where the configuration says
  params, driver,
  stage,     \* "connecting" in main, "up", "closed", or "crashed"
  probe,     \* the driver ups_connect tries
  at,        \* where the call that has cmd_mutex stands, or "free"
  caller, op,
  linked,    \* transport is not NULL
  peer,      \* the device that detect claimed, while the handle is recorded
  live,      \* a handle is open, and the line it is of is still there
  handles,   \* the handles a driver opened and did not release
  consecutive_errors,
  age,       \* now - last_reconnect_attempt, saturated
  caps,
  list,      \* resolved_regs: of which device, and which registers
  inventory, \* the device whose identity is cached
  held,      \* per thread, the descriptor it was handed: "none", of the
             \* "list", of the static "table", or "dangling"
  asking,    \* per thread, is it in get_topology
  polled,    \* read_dynamic is what the poller calls next, if it succeeded
  \* history
  guessed,   \* the registers of this connection could not be told
  unread,    \* nor its identity
  swapped,   \* since detect, the handle spoke to another device
  since,     \* the time since the last attempt, whatever the wall clock says
  torn,      \* the handle was closed since the last attempt
  plugs, step_backs

unit == <<wire, live, swapped, plugs>>
clock == <<age, since, step_backs, torn>>
owner == <<caller, op, polled>>
mutex == <<at, owner>>
start == <<params, driver, stage, probe>>
cached == <<caps, list, inventory, guessed, unread>>
handle == <<linked, peer, handles, consecutive_errors>>
queries == <<held, asking>>
vars == <<unit, clock, mutex, start, cached, handle, queries>>

Steps == {"free", "retry", "detect", "caps", "drop", "regs", "inventory",
          "call"}
Ops == {"status", "dynamic", "config_read", "other"}
Lists == [of : Devices, regs : SUBSET UNION {Regs(Drivers[i]) : i \in 1..4}]

ASSUME NoListAssumption == NoList \notin Lists

Holds(p) == at # "free" /\ caller = p
Trying == IF stage = "connecting" THEN Drivers[probe] ELSE driver
Here == {d \in Devices : d.attached = params} \cup {NoDevice}
Reachable == wire # NoDevice /\ Connects(Trying, wire, params)

\* The device the handle speaks to.  A line that is still there speaks to
\* whatever is plugged into it by now.
Speaking == IF live THEN wire ELSE NoDevice

\* The device a driver tells of: a HID driver keeps what it found when it
\* connected.
Told == IF driver \in Hid \/ Speaking = NoDevice THEN peer ELSE Speaking

\* resolve_config_regs of the driver for a device, when its groups are
\* `answered'; nothing when the driver has no such hook.
Resolved(d, answered) ==
  CASE driver = "srt" -> {}
    [] driver = "smt" -> SmtResolve(d, answered)
    [] driver = "apc_hid" -> ApcResolve(d)
    [] driver = "cyberpower_hid" -> CyberpowerResolve(d)

Init ==
  /\ params \in Params /\ wire \in Here
  /\ stage = "connecting" /\ probe = 1 /\ driver = Drivers[1]
  /\ at = "free" /\ caller = Poller /\ op = "other"
  /\ linked = FALSE /\ live = FALSE /\ peer = NoDevice /\ handles = 0
  /\ consecutive_errors = 0
  /\ age = RECONNECT_INTERVAL_SEC /\ since = age /\ torn = FALSE
  /\ caps = {} /\ list = NoList /\ inventory = NoDevice
  /\ guessed = FALSE /\ unread = FALSE /\ swapped = FALSE /\ polled = FALSE
  /\ held = [p \in Threads |-> "none"] /\ asking = [p \in Threads |-> FALSE]
  /\ plugs = 0 /\ step_backs = 0

\* cmd_mutex is free; who had it no longer matters.
Unlock == at' = "free" /\ caller' = Poller /\ op' = "other"
Fails == Unlock /\ UNCHANGED polled

-----------------------------------------------------------------------------
(* The environment *)

\* The handle of a USB device goes with it.  So does that of a serial line when
\* the adapter is pulled, but not when the cable is taken off the UPS.
Unplug ==
  /\ wire # NoDevice
  /\ wire' = NoDevice
  /\ live' = FALSE \/ (params = "serial" /\ UNCHANGED live)
  /\ UNCHANGED <<swapped, plugs, clock, mutex, start, cached, handle, queries>>

\* The same device, or another.
Plug ==
  /\ wire = NoDevice /\ plugs < MaxPlugs
  /\ wire' \in Here \ {NoDevice} /\ plugs' = plugs + 1
  /\ UNCHANGED <<live, clock, mutex, start, cached, handle, queries>>
  /\ swapped' = (swapped \/ (linked /\ Speaking' \notin {peer, NoDevice}))

Later(t) == IF t < RECONNECT_INTERVAL_SEC THEN t + 1 ELSE t

\* The clock is only read while no handle is open, and closing one after
\* errors sets last_reconnect_attempt to 0: what passes in between does not
\* matter.
Tick ==
  /\ handles = 0
  /\ age' = Later(age) /\ since' = Later(since)
  /\ UNCHANGED <<step_backs, torn, unit, mutex, start, cached, handle,
                 queries>>

\* The wall clock is stepped back.  It does not matter while
\* last_reconnect_attempt is 0.
StepBack ==
  /\ handles = 0
  /\ step_backs < MaxStepBacks /\ age < RECONNECT_INTERVAL_SEC
  /\ step_backs' = step_backs + 1 /\ age' = age - 1
  /\ UNCHANGED <<since, torn, unit, mutex, start, cached, handle, queries>>

-----------------------------------------------------------------------------
(* The steps of a connection, of ups_connect and of ups_try_reconnect *)

\* driver->connect opens a handle
Open ==
  /\ Connects(Trying, wire, params)
  /\ at' = "detect" /\ handles' = handles + 1 /\ live' = TRUE

\* A faulty Release, for the checks: the handle is left open.
ReleaseForgotten ==
  live' = FALSE /\ UNCHANGED <<handles, linked, consecutive_errors>>

\* driver->disconnect of a handle nobody recorded
Release ==
  /\ handles' = handles - 1 /\ live' = FALSE
  /\ UNCHANGED <<linked, consecutive_errors>>

\* ups_connect goes on to the next driver; main tries again from the first.
NextDriver == probe' = IF probe < Len(Drivers) THEN probe + 1 ELSE 1

ProbeOpens ==
  /\ stage = "connecting" /\ at = "free" /\ Open
  /\ driver' = Trying
  /\ UNCHANGED <<wire, swapped, plugs, clock, owner, params, stage,
                 probe, cached, linked, peer, consecutive_errors, queries>>

\* The driver is of another attachment, or its connect returns NULL.
ProbeSkips ==
  /\ stage = "connecting" /\ at = "free" /\ NextDriver
  /\ UNCHANGED <<unit, clock, mutex, params, driver, stage, cached, handle,
                 queries>>

\* What detect finds out
Claimable == Speaking # NoDevice /\ Detects(Trying, Speaking)

\* detect says no, or cannot read what it looks at.
Rejects ==
  /\ at = "detect" /\ (~Claimable \/ Trying \notin Hid)
  /\ Fails /\ Release
  /\ IF stage = "connecting" THEN NextDriver ELSE UNCHANGED probe
  /\ UNCHANGED <<wire, swapped, plugs, clock, params, driver, stage, cached,
                 peer, queries>>

\* There is no memory for the ups_t of a device detect claims: ups_connect
\* fails, and main starts over.
ConnectFails ==
  /\ at = "detect" /\ Claimable /\ stage = "connecting"
  /\ Fails /\ Release /\ probe' = 1
  /\ UNCHANGED <<wire, swapped, plugs, clock, params, driver, stage, cached,
                 peer, queries>>

\* detect says yes: the handle is recorded, and caps is what the driver may
\* have at most.
Claims ==
  /\ at = "detect" /\ Claimable
  /\ at' = "caps" /\ linked' = TRUE /\ consecutive_errors' = 0
  /\ peer' = Speaking /\ swapped' = FALSE
  /\ caps' = Caps(driver)
  /\ UNCHANGED <<wire, live, plugs, clock, owner, start, list,
                 inventory, guessed, unread, handles, queries>>

NarrowCaps ==
  /\ at = "caps" /\ at' = "drop"
  /\ caps' = ResolvedCaps(driver, peer)
  /\ UNCHANGED <<unit, clock, owner, start, list, inventory, guessed,
                 unread, handle, queries>>

\* A faulty DropList, for the checks: the previous list stays.
DropListLater ==
  /\ at = "drop" /\ at' = "regs"
  /\ UNCHANGED <<unit, clock, owner, start, cached, handle, queries>>

\* The previous list is freed, whoever holds a descriptor of it.
DropList ==
  /\ at = "drop" /\ at' = "regs"
  /\ list' = NoList
  /\ held' = [p \in Threads |-> IF held[p] = "list" THEN "dangling"
                                ELSE held[p]]
  /\ UNCHANGED <<unit, clock, owner, start, caps, inventory, guessed,
                 unread, handle, asking>>

\* The new list, when there is memory for it and it is not empty.  A HID driver
\* asks nothing of the device.
ResolveRegs ==
  /\ at = "regs" /\ at' = "inventory"
  /\ \E answered \in BOOLEAN, memory \in BOOLEAN :
       /\ IF driver = "smt" THEN answered => Speaking # NoDevice ELSE answered
       /\ IF memory /\ Resolved(Told, answered) # {}
          THEN list' = [of |-> Told, regs |-> Resolved(Told, answered)]
          ELSE UNCHANGED list
       /\ guessed' = (~answered \/ ~memory \/ Resolved(Told, answered) = {})
  /\ UNCHANGED <<unit, clock, owner, start, caps, inventory, unread,
                 handle, queries>>

\* The identity; a HID driver reads it from sysfs and does not fail.  Then
\* ups_connect is done, or the call that reconnected goes on.
RefreshInventory ==
  /\ at = "inventory"
  /\ \/ /\ driver \in Hid \/ Speaking # NoDevice
        /\ inventory' = Told /\ unread' = FALSE
     \/ driver \notin Hid /\ unread' = TRUE /\ UNCHANGED inventory
  /\ IF stage = "connecting" THEN Fails /\ stage' = "up"
     ELSE at' = "call" /\ UNCHANGED <<owner, stage>>
  /\ UNCHANGED <<unit, clock, params, driver, probe, caps, list,
                 guessed, handle, queries>>

-----------------------------------------------------------------------------
(* A call: cmd_mutex is taken, the handle reopened if need be, the driver  *)
(* called and the mutex released.                                          *)

\* read_status and read_transfer_reason; read_dynamic, which the poller calls
\* after a read_status that succeeded; config_read with a descriptor; and
\* "other": read_inventory, read_thresholds, a command or config_write, whose
\* failures are not counted.
Enter(p, o) ==
  /\ stage = "up" /\ at = "free" /\ ~asking[p]
  /\ o = "config_read" => held[p] # "none"
  /\ o = "dynamic" => p = Poller /\ polled
  /\ at' = IF linked THEN "call" ELSE "retry"
  /\ caller' = p /\ op' = o /\ polled' = (polled /\ p # Poller)
  /\ UNCHANGED <<unit, clock, start, cached, handle, queries>>

\* A faulty TooSoon, for the checks: the time of the attempt is recorded before
\* it is known to be one.
TooSoonRecorded ==
  /\ at = "retry" /\ age < RECONNECT_INTERVAL_SEC
  /\ Fails /\ age' = 0
  /\ UNCHANGED <<unit, since, step_backs, torn, start, cached, handle,
                 queries>>

\* ups_try_reconnect returns at once; so does the call, with UPS_ERR_IO.
TooSoon ==
  /\ at = "retry" /\ age < RECONNECT_INTERVAL_SEC
  /\ Fails
  /\ UNCHANGED <<unit, clock, start, cached, handle, queries>>

\* A faulty Attempt, for the checks: its time is not recorded.
AttemptUnrecorded ==
  /\ at = "retry" /\ age = RECONNECT_INTERVAL_SEC
  /\ since' = 0 /\ torn' = FALSE
  /\ UNCHANGED <<age, step_backs>>

\* last_reconnect_attempt = now
Attempt ==
  /\ at = "retry" /\ age = RECONNECT_INTERVAL_SEC
  /\ age' = 0 /\ since' = 0 /\ torn' = FALSE
  /\ UNCHANGED step_backs

AttemptFails ==
  /\ Attempt /\ Fails
  /\ UNCHANGED <<unit, start, cached, handle, queries>>

AttemptOpens ==
  /\ Attempt /\ Open
  /\ UNCHANGED <<wire, swapped, plugs, owner, start, cached, linked,
                 peer, consecutive_errors, queries>>

\* A device that is gone fails every call, but for the readers of the HID
\* drivers that take a failed ioctl for a zero.  Those fail on a descriptor
\* that names no field of the device.
MaskingOps == IF driver \in Hid THEN {"dynamic", "config_read"} ELSE {}
Answers == Speaking # NoDevice \/ op \in MaskingOps
MayFail == op \notin MaskingOps \/ held[caller] \in {"table", "dangling"}

ReadOk ==
  /\ at = "call" /\ op # "other" /\ Answers
  /\ Unlock /\ consecutive_errors' = 0
  /\ polled' = (polled \/ (caller = Poller /\ op = "status"))
  /\ UNCHANGED <<unit, clock, start, cached, linked, peer,
                 handles, queries>>

\* ups_handle_error: the last of MAX_CONSECUTIVE_ERRORS closes the handle.
HandleError ==
  IF consecutive_errors + 1 < MAX_CONSECUTIVE_ERRORS
  THEN /\ consecutive_errors' = consecutive_errors + 1
       /\ UNCHANGED <<linked, handles, peer, live, swapped, clock>>
  ELSE /\ consecutive_errors' = MAX_CONSECUTIVE_ERRORS
       /\ linked' = FALSE /\ handles' = handles - 1
       /\ peer' = NoDevice /\ live' = FALSE /\ swapped' = FALSE
       /\ age' = RECONNECT_INTERVAL_SEC /\ torn' = TRUE
       /\ UNCHANGED <<since, step_backs>>

ReadFails ==
  /\ at = "call" /\ op # "other" /\ MayFail
  /\ Fails /\ HandleError
  /\ UNCHANGED <<wire, plugs, start, cached, queries>>

OtherCall ==
  /\ at = "call" /\ op = "other"
  /\ Fails
  /\ UNCHANGED <<unit, clock, start, cached, handle, queries>>

-----------------------------------------------------------------------------
(* The queries that take no lock *)

\* ups_get_config_regs, ups_find_config_reg: a descriptor of the list, or of
\* the driver's static table while there is none
FindConfigReg(p) ==
  /\ stage = "up" /\ ~Holds(p) /\ held[p] = "none" /\ ~asking[p]
  /\ held' = [held EXCEPT ![p] = IF list = NoList THEN "table" ELSE "list"]
  /\ UNCHANGED <<unit, clock, mutex, start, cached, handle, asking>>

\* The caller is done with its descriptor.
ForgetConfigReg(p) ==
  /\ held[p] # "none" /\ ~Holds(p) /\ stage = "up"
  /\ held' = [held EXCEPT ![p] = "none"]
  /\ UNCHANGED <<unit, clock, mutex, start, cached, handle, asking>>

\* ups_topology: the HID drivers look into the handle they are given, which
\* may be NULL.  The poll thread asks too, after a poll that succeeded, which
\* adds nothing to what the others may meet.
Topology(p) ==
  /\ p # Poller
  /\ stage = "up" /\ ~Holds(p) /\ ~asking[p] /\ driver \in Hid
  /\ IF linked
     THEN /\ asking' = [asking EXCEPT ![p] = TRUE]
          /\ UNCHANGED <<stage, mutex, handles>>
     ELSE /\ stage' = "crashed" /\ Fails /\ handles' = 0
          /\ UNCHANGED asking
  /\ UNCHANGED <<unit, clock, params, driver, probe, cached,
                 linked, peer, consecutive_errors, held>>

TopologyAnswers(p) ==
  /\ asking[p] /\ asking' = [asking EXCEPT ![p] = FALSE]
  /\ UNCHANGED <<unit, clock, mutex, start, cached, handle, held>>

\* What ups_close does but for the handle: the ups_t is freed.
Freed ==
  /\ stage = "up" /\ at = "free"
  /\ \A p \in Threads : held[p] = "none" /\ ~asking[p]
  /\ stage' = "closed" /\ linked' = FALSE
  /\ peer' = NoDevice /\ live' = FALSE /\ swapped' = FALSE
  /\ caps' = {} /\ list' = NoList /\ inventory' = NoDevice
  /\ guessed' = FALSE /\ unread' = FALSE
  /\ UNCHANGED <<wire, plugs, clock, mutex, params, driver, probe,
                 consecutive_errors, queries>>

\* A faulty Close, for the checks: a handle closed after errors is closed
\* again.
CloseTwice == Freed /\ handles' = handles - 1

\* ups_close, when the threads are gone
Close == Freed /\ handles' = IF linked THEN handles - 1 ELSE handles

-----------------------------------------------------------------------------
Next ==
  \/ Unplug \/ Plug \/ Tick \/ StepBack
  \/ ProbeOpens \/ ProbeSkips
  \/ Rejects \/ ConnectFails \/ Claims \/ NarrowCaps \/ DropList
  \/ ResolveRegs \/ RefreshInventory
  \/ TooSoon \/ AttemptFails \/ AttemptOpens
  \/ ReadOk \/ ReadFails \/ OtherCall \/ Close
  \/ \E p \in Threads :
       \/ \E o \in Ops : Enter(p, o)
       \/ FindConfigReg(p) \/ ForgetConfigReg(p)
       \/ Topology(p) \/ TopologyAnswers(p)

\* The steps of the call that has the mutex
Proceeds ==
  \/ Rejects \/ ConnectFails \/ Claims \/ NarrowCaps \/ DropList
  \/ ResolveRegs \/ RefreshInventory
  \/ TooSoon \/ AttemptFails \/ AttemptOpens
  \/ ReadOk \/ ReadFails \/ OtherCall

\* A call that has the mutex goes on, time passes and the monitor keeps
\* polling; of the attempts to reopen a device that is there some open it and
\* some of those are claimed.  Nobody has to plug a device in.
Fairness ==
  /\ WF_vars(Tick) /\ WF_vars(Proceeds)
  /\ SF_vars(Enter(Poller, "status"))
  /\ SF_vars(AttemptOpens) /\ SF_vars(Claims)
  /\ \A p \in Threads : WF_vars(TopologyAnswers(p))

Spec == Init /\ [][Next]_vars /\ Fairness

-----------------------------------------------------------------------------
(* Properties *)

\* Type invariant.
TypeOK ==
  /\ {wire, peer} \subseteq Here
  /\ {linked, live, polled, guessed, unread, swapped, torn} \subseteq BOOLEAN
  /\ params \in Params /\ driver \in {Drivers[i] : i \in 1..4}
  /\ stage \in {"connecting", "up", "closed", "crashed"} /\ probe \in 1..4
  /\ at \in Steps /\ caller \in Threads /\ op \in Ops
  /\ handles \in 0..1 /\ consecutive_errors \in 0..MAX_CONSECUTIVE_ERRORS
  /\ age \in (-MaxStepBacks)..RECONNECT_INTERVAL_SEC
  /\ since \in 0..RECONNECT_INTERVAL_SEC
  /\ caps \subseteq SerialCaps /\ list \in Lists \cup {NoList}
  /\ inventory \in Devices \cup {NoDevice}
  /\ held \in [Threads -> {"none", "list", "table", "dangling"}]
  /\ asking \in [Threads -> BOOLEAN]
  /\ plugs \in 0..MaxPlugs /\ step_backs \in 0..MaxStepBacks

\* A handle is released exactly once (ups_driver.h:341-342): whatever the
\* way a connection ends, what is open is the recorded handle or the one
\* detect looks at.
OneHandle == handles = IF linked \/ at = "detect" THEN 1 ELSE 0

\* Between two calls the link describes the device it speaks to, also when a
\* reconnection met another one (ups.c:238-249): the driver claims it, the
\* capabilities are its own, the list of registers is of this device and
\* complete unless it could not be told, and so is the identity.  The exception
\* is a serial cable moved to another unit before enough reads have failed to
\* close the handle (ups.c:289-299), until the next reconnection.
LinkHonest ==
  linked /\ stage = "up" /\ at \in {"free", "call"} /\ ~swapped =>
    /\ Speaking \in {peer, NoDevice}
    /\ Detects(driver, peer) /\ Connects(driver, peer, params)
    /\ caps = ResolvedCaps(driver, peer)
    /\ list # NoList => list.of = peer
    /\ ~guessed => list # NoList /\ list.regs = Resolved(peer, TRUE)
    /\ unread \/ inventory = peer

\* Refuted: a different device on the same port is guarded against
\* (ups.c:243-244), whether or not the handle was closed in between.
SwapNoticed == linked => Speaking \in {peer, NoDevice}

\* The device is not hammered (ups.c:240-241): an attempt to reopen it comes
\* RECONNECT_INTERVAL_SEC after the one before, or after a handle that was
\* open since has been closed, which takes MAX_CONSECUTIVE_ERRORS failures.
AttemptsSpaced == [][Attempt => since = RECONNECT_INTERVAL_SEC \/ torn]_vars

\* A read reports success although the device is gone.
MaskedRead == ReadOk /\ Speaking = NoDevice

\* The retry path never gives up (ups.c:223-226): while a device the driver
\* knows stays plugged in, the link keeps coming back, unless reads that
\* report success of a device that is gone keep the counter down.
LinkRecovers ==
  <>[](stage = "up" /\ Reachable /\ Detects(driver, wire))
    => []<>(linked /\ Speaking = wire) \/ []<><<MaskedRead>>_vars

\* Every driver callback is called under cmd_mutex (ups_driver.h:34-36), so
\* with an open handle: the daemon does not fall over a missing one.
NeverCrashes == stage # "crashed"

\* Callers need no lock (ups.h:28-31): the descriptor a call is given is
\* still there.
DescriptorsLive ==
  at = "call" /\ op = "config_read" => held[caller] # "dangling"
=============================================================================
