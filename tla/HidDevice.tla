----------------------------- MODULE HidDevice -----------------------------
(***************************************************************************)
(* A USB UPS as the HID drivers see it (src/src/ups/hid_pdc_core.c and the *)
(* two drivers above it, ups_apc_hid.c and ups_cyberpower_hid.c): the      *)
(* standard fields found in its descriptor, the readers, the commands and  *)
(* the configuration registers, each a few requests for a report.          *)
(*                                                                         *)
(* Every call runs under the mutex of the UPS; between two calls the       *)
(* device and its front panel change what the reports hold.  A request may *)
(* fail, and a device may accept a report and ignore it.                   *)
(***************************************************************************)
EXTENDS HidParser

CONSTANTS
  Devices,       \* what may be opened
  REPORT_BYTES,  \* 63, the data bytes of the buffer a report is read into
  NoDevice,
  ShutdownDelay, \* 60 s
  Written,       \* the values registers are set to
  Panel,         \* the values a report changes to by itself
  MaxChanges     \* bound on the changes of the device and the calls that write

\* A device: its descriptor, the driver that claims it, what its reports hold
\* at first and the watts of its model in the driver's table, or 0.  The
\* shutdown delay fits a byte, with or without a sign.
ASSUME DeviceAssumption ==
  /\ \A d \in Devices : /\ Len(d.desc) \in Nat
                        /\ \A i \in 1..Len(d.desc) : IsItem(d.desc[i])
                        /\ d.vendor \in {"apc", "cyberpower"}
                        /\ d.reports \in [Ids -> Nat] /\ d.watts \in Nat
  /\ NoDevice \notin Devices
  /\ ShutdownDelay \in 0..(Pow2[BYTE - 1] - 1) /\ MaxChanges \in Nat
  /\ Written \subseteq Nat /\ Panel \subseteq Nat

\* Numbers here have no width.  Those of the code agree as long as no field is
\* wider than an int32_t and every report fits the buffer; then no counter of
\* bits, a uint16_t, wraps either.
ASSUME WidthAssumption ==
  /\ REPORT_BYTES \in Nat
  /\ \A d \in Devices : \A f \in ToSet(Parse(d.desc)) :
       f.size <= 4 * BYTE /\ f.offset + f.size <= REPORT_BYTES * BYTE

VARIABLES
  device,
  fields,        \* the parsed descriptor
  pdc,           \* the standard and vendor fields, NoField when absent
  memory,        \* the reports of the device
  nominal_watts,
  answer,        \* of the last call, until the device changes
  before,        \* history: the reports before that call
  changes
vars == <<device, fields, pdc, memory, nominal_watts, answer, before, changes>>

-----------------------------------------------------------------------------
(* The standard fields *)

Pw(u) == <<"power", u>>
Bt(u) == <<"battery", u>>
Under(c, p) == <<Pw(c), p>>

StandardPaths ==
  [input_voltage |-> Under("input", Pw("voltage")),
   output_voltage |-> Under("input", Pw("config_voltage")),
   battery_voltage |-> Under("battery", Pw("voltage")),
   remaining_capacity |-> Under("battery", Bt("remaining_capacity")),
   runtime_to_empty |-> Under("battery", Bt("runtime_to_empty")),
   percent_load |-> <<Pw("percent_load")>>,
   output_frequency |-> Under("output", Pw("frequency")),
   transfer_low |-> Under("input", Pw("low_voltage_transfer")),
   transfer_high |-> Under("input", Pw("high_voltage_transfer")),
   config_apparent_power |-> <<Pw("config_apparent_power")>>,
   config_active_power |-> <<Pw("config_active_power")>>,
   test |-> <<Pw("test")>>,
   alarm_control |-> <<Pw("audible_alarm_ctrl")>>,
   delay_before_shutdown |-> <<Pw("delay_before_shutdown")>>,
   delay_before_startup |-> <<Pw("delay_before_startup")>>,
   delay_before_reboot |-> <<Pw("delay_before_reboot")>>,
   module_reset |-> <<Pw("module_reset")>>,
   remaining_time_limit |-> <<Bt("remaining_time_limit")>>,
   remaining_cap_limit |-> <<Bt("remaining_cap_limit")>>,
   warning_cap_limit |-> <<Bt("warning_cap_limit")>>,
   design_capacity |-> <<Bt("design_capacity")>>,
   manufacture_date |-> <<Bt("manufacture_date")>>]

\* Those that may be under PowerSummary instead.  The code tries it for the
\* last five above too, whose own path is a suffix of that one.
SummaryPaths ==
  [battery_voltage |-> Under("power_summary", Pw("voltage")),
   remaining_capacity |-> Under("power_summary", Bt("remaining_capacity")),
   runtime_to_empty |-> Under("power_summary", Bt("runtime_to_empty"))]

\* Those of the APC driver
ApcPaths == [sensitivity |-> <<Pw("input"), <<"apc", "sensitivity">>>>,
             lights_test |-> <<<<"apc", "lights_test">>>>,
             batt_repl_date |-> <<Pw("battery"), <<"apc", "batt_repl_date">>>>,
             batt_cap_startup |-> <<<<"apc", "batt_cap_startup">>>>]

Standard == DOMAIN StandardPaths
Names == Standard \cup DOMAIN ApcPaths

\* resolve_standard_fields and, for the APC driver, apc_connect
Resolve(d, map, name) ==
  IF name \in Standard
  THEN LET first == Find(map, StandardPaths[name]) IN
       IF first = NoField /\ name \in DOMAIN SummaryPaths
       THEN Find(map, SummaryPaths[name]) ELSE first
  ELSE IF d.vendor = "apc" THEN Find(map, ApcPaths[name]) ELSE NoField

\* detect_topology; CyberPower's driver does not look.
Topology ==
  IF device.vendor = "cyberpower"
     \/ \E f \in ToSet(fields) : Pw("power_converter") \in ToSet(f.path)
  THEN "line_interactive" ELSE "standby"

-----------------------------------------------------------------------------
(* Requests *)

\* A report is as many whole bytes as its feature fields take.
Length(id) ==
  LET ends == {f.offset + f.size : f \in {x \in ToSet(fields) :
                                            x.type = "feature" /\ x.id = id}}
  IN IF ends = {} THEN 0 ELSE BYTE * ((Max(ends) + BYTE - 1) \div BYTE)

\* The reports the device may fail to give during a call: none, one, or all
Faults == {{}, Ids} \cup {{i} : i \in Ids}
Given(id, failing) == id \notin failing /\ Length(id) > 0

\* A failed request reads as 0, like a field the device does not have.
Raw(f, failing) ==
  IF f = NoField THEN 0
  ELSE IF ~Given(f.id, failing) THEN 0 ELSE Extract(f, memory[f.id])

Scaled(f, failing) ==
  [raw |-> Raw(f, failing), scale |-> IF f = NoField THEN 0 ELSE Scale(f)]

\* What becomes of a report that is sent
Fates == {"stored", "ignored", "refused"}

\* HIDIOCSFEATURE of n data bytes: they become the first of the report.
Sent(mem, id, n, data, fate) ==
  LET room == Pow2[Min({n * BYTE, Length(id)})]
      kept == mem[id] - (mem[id] % room)
  IN IF fate = "stored" THEN [mem EXCEPT ![id] = kept + (data % room)] ELSE mem

-----------------------------------------------------------------------------
Init ==
  /\ device = NoDevice /\ fields = <<>> /\ pdc = [n \in Names |-> NoField]
  /\ memory = [i \in Ids |-> 0] /\ before = memory
  /\ nominal_watts = 0 /\ answer = [call |-> "none"] /\ changes = 0

\* hid_pdc_open and the driver's connect
Open ==
  /\ device = NoDevice
  /\ \E d \in Devices :
       /\ device' = d /\ fields' = Parse(d.desc)
       /\ memory' = [i \in Ids |-> d.reports[i] % Pow2[Length(i)']]
       /\ pdc' = [n \in Names |-> Resolve(d, fields', n)]
  /\ answer' = [call |-> "open"]
  /\ UNCHANGED <<nominal_watts, before, changes>>

Opened == device # NoDevice
Answers(a) == answer' = a /\ before' = memory

\* The device: a reading, a status bit or its front panel
Changes ==
  /\ Opened /\ changes < MaxChanges
  /\ changes' = changes + 1
  /\ \E id \in Ids, v \in Panel :
       /\ Length(id) > 0
       /\ memory' = [memory EXCEPT ![id] = v % Pow2[Length(id)]]
  /\ answer' = [call |-> "none"] /\ before' = memory'
  /\ UNCHANGED <<device, fields, pdc, nominal_watts>>

Reads == Opened /\ UNCHANGED <<device, fields, pdc, memory, changes>>

-----------------------------------------------------------------------------
(* Status *)

Flags ==
  [online |-> {Bt("ac_present")}, on_battery |-> {Bt("discharging")},
   overload |-> {Pw("overload")}, fault |-> {Bt("voltage_not_regulated")},
   shut_pending |-> {Pw("shutdown_requested")},
   imminent |-> {Pw("shutdown_imminent"), Bt("remaining_time_expired")},
   input_bad |-> {Bt("below_cap_limit")}, comm |-> {Pw("comm_lost")},
   replace |-> {Bt("need_replacement")},
   boost |-> {Pw("boost")}, trim |-> {Pw("buck")}]
AvrFlags == {"boost", "trim"}

IsBit(f, usage) == f.type = "feature" /\ f.size = 1 /\ f.usage = usage

\* A faulty HasStatusBit, for the checks: a missing bit counts as there.
HasStatusBitAlways(usage) == TRUE

HasStatusBit(usage) == \E f \in ToSet(fields) : IsBit(f, usage)

\* read_status_bit: from the one report the caller holds, whatever the report
\* of the field
StatusBit(usage, id) ==
  LET i == SelectInSeq(fields, LAMBDA f : IsBit(f, usage)
                                          /\ f.offset < Length(id))
  IN i # 0 /\ Bits(memory[id], fields[i].offset, 1) = 1

StatusId ==
  LET i == SelectInSeq(fields, LAMBDA f : IsBit(f, Bt("ac_present")))
  IN IF i = 0 THEN 0 ELSE fields[i].id

FlagSet(flag, id) ==
  /\ flag \in AvrFlags => device.vendor # "cyberpower"
  /\ \E u \in Flags[flag] : StatusBit(u, id)

Disconnected(id) ==
  HasStatusBit(Bt("battery_present")) /\ ~StatusBit(Bt("battery_present"), id)

TestInProgress == 5

\* hid_pdc_read_status_standard
ReadStatus ==
  /\ Reads /\ UNCHANGED nominal_watts
  /\ \E failing \in Faults :
       Answers(
         IF ~Given(StatusId, failing) THEN [call |-> "status", ok |-> FALSE]
         ELSE [call |-> "status", ok |-> TRUE,
               flags |-> {g \in DOMAIN Flags : FlagSet(g, StatusId)},
               disconnected |-> Disconnected(StatusId),
               testing |-> Raw(pdc["test"], failing) = TestInProgress])

-----------------------------------------------------------------------------
(* Readings *)

Readings == {"remaining_capacity", "battery_voltage", "runtime_to_empty",
             "input_voltage", "percent_load"}
\* Those that are not filled in when the device lacks them
Optional == {"output_frequency", "delay_before_shutdown",
             "delay_before_startup", "delay_before_reboot"}

\* hid_pdc_read_dynamic_standard, after a status; it always returns 0.  The
\* timers are read without their units.
ReadDynamic ==
  /\ Reads /\ UNCHANGED nominal_watts
  /\ answer.call = "status" /\ answer.ok
  /\ \E failing \in Faults :
       LET R(name) == Scaled(pdc[name], failing)
           output == R(IF "on_battery" \in answer.flags THEN "output_voltage"
                       ELSE "input_voltage")
       IN Answers([call |-> "dynamic", ok |-> TRUE, failing |-> failing,
                   values |-> [n \in Readings |-> R(n)], output |-> output,
                   others |-> [n \in {x \in Optional : pdc[x] # NoField} |->
                                IF n = "output_frequency" THEN R(n)
                                ELSE Raw(pdc[n], failing)],
                   current |-> output.raw > 0 /\ nominal_watts > 0])

ReadThresholds ==
  /\ Reads /\ UNCHANGED nominal_watts
  /\ \E failing \in Faults :
       Answers([call |-> "thresholds", ok |-> TRUE,
                high |-> Scaled(pdc["transfer_high"], failing),
                low |-> Scaled(pdc["transfer_low"], failing)])

\* The nameplate watts: from the device, else those of its model
ReadInventory ==
  /\ Reads
  /\ \E failing \in Faults :
       LET w == Raw(pdc["config_active_power"], failing) IN
       nominal_watts' = IF w > 0 THEN w ELSE device.watts
  /\ Answers([call |-> "inventory", ok |-> TRUE])

-----------------------------------------------------------------------------
(* Commands *)

Writes ==
  /\ Opened /\ changes < MaxChanges /\ changes' = changes + 1
  /\ before' = memory
  /\ UNCHANGED <<device, fields, pdc, nominal_watts>>

\* A faulty CmdShutdown, for the checks: the restart delay is left alone.
CmdShutdownForGood ==
  LET countdown == pdc["delay_before_shutdown"] IN
  /\ Writes /\ countdown # NoField
  /\ \E fate \in Fates :
       /\ memory' = Sent(memory, countdown.id, 2, ShutdownDelay, fate)
       /\ answer' = [call |-> "shutdown", ok |-> fate # "refused",
                     fates |-> {fate}]

\* hid_pdc_cmd_shutdown: the restart delay, whether it is taken or not, then
\* the countdown
CmdShutdown ==
  LET countdown == pdc["delay_before_shutdown"]
      restart == pdc["delay_before_startup"]
  IN /\ Writes /\ countdown # NoField
     /\ \E first, second \in Fates :
          LET mid == IF restart = NoField THEN memory
                     ELSE Sent(memory, restart.id, 2, 0, first)
          IN /\ memory' = Sent(mid, countdown.id, 2, ShutdownDelay, second)
             /\ answer' = [call |-> "shutdown", ok |-> second # "refused",
                           fates |-> {second, IF restart = NoField THEN second
                                              ELSE first}]

\* The commands that send one report: the field, the bytes and the value
OneReport ==
  [abort_shutdown |-> <<"delay_before_shutdown", 2, Pow2[2 * BYTE] - 1>>,
   battery_test |-> <<"test", 1, 1>>,
   mute |-> <<"alarm_control", 1, 3>>, unmute |-> <<"alarm_control", 1, 2>>,
   clear_faults |-> <<"module_reset", 1, 2>>,
   beep_short |-> <<"lights_test", 1, 1>>]

Command(c) ==
  LET f == pdc[OneReport[c][1]] IN
  /\ Writes /\ f # NoField
  /\ \E fate \in Fates :
       /\ memory' = Sent(memory, f.id, OneReport[c][2], OneReport[c][3], fate)
       /\ answer' = [call |-> c, ok |-> fate # "refused"]

-----------------------------------------------------------------------------
(* Configuration registers *)

\* A register has the name of its field.  The manufacture date, converted
\* when it is read, is left out.
Bitfields == {"sensitivity", "alarm_control"}
Writable ==
  Bitfields \cup {"transfer_low", "transfer_high", "remaining_time_limit",
                  "remaining_cap_limit", "warning_cap_limit",
                  "delay_before_shutdown", "delay_before_startup",
                  "delay_before_reboot", "batt_repl_date", "batt_cap_startup"}
Registers ==
  Writable \cup Readings \cup {"output_voltage", "output_frequency",
    "config_apparent_power", "config_active_power", "design_capacity"}

\* The value byte of a bitfield that is wider
ValueByte(reg, v, f) ==
  IF reg \in Bitfields /\ f.size > BYTE THEN v % Pow2[BYTE] ELSE v

\* hid_pdc_config_read_field
ConfigRead(reg) ==
  /\ Reads /\ UNCHANGED nominal_watts /\ pdc[reg] # NoField
  /\ \E failing \in Faults :
       Answers([call |-> "config_read", ok |-> TRUE, reg |-> reg,
                given |-> Given(pdc[reg].id, failing),
                value |-> ValueByte(reg, Raw(pdc[reg], failing), pdc[reg])])

DataBytes(f) == (f.size + BYTE - 1) \div BYTE

\* A faulty Image, for the checks: the other bytes are not read first.
ImageBlank(reg, f, value) == value % Pow2[BYTE]

\* What a write sends: for a bitfield of several bytes the current ones but
\* the first
Image(reg, f, value) ==
  IF DataBytes(f) = 1 THEN value % Pow2[BYTE]
  ELSE IF reg \in Bitfields
       THEN LET now == memory[f.id] % Pow2[DataBytes(f) * BYTE] IN
            (now - (now % Pow2[BYTE])) + (value % Pow2[BYTE])
       ELSE value % Pow2[2 * BYTE]

\* hid_pdc_config_write_field
ConfigWrite(reg, value) ==
  LET f == pdc[reg]
      reading == reg \in Bitfields /\ DataBytes(f) > 1
      Answer(ok) == [call |-> "config_write", ok |-> ok, reg |-> reg,
                     value |-> value]
  IN /\ Writes /\ f # NoField
     /\ \/ /\ reading /\ UNCHANGED memory /\ answer' = Answer(FALSE)
        \/ \E fate \in Fates, given \in BOOLEAN :
             LET now == Sent(memory, f.id, DataBytes(f), Image(reg, f, value),
                             fate)
                 readback == IF given THEN Extract(f, now[f.id]) ELSE 0
             IN /\ memory' = now
                /\ answer' = Answer(/\ fate # "refused"
                                    /\ ValueByte(reg, readback, f) = value)

-----------------------------------------------------------------------------
Next ==
  \/ Open \/ Changes
  \/ ReadStatus \/ ReadDynamic \/ ReadThresholds \/ ReadInventory
  \/ CmdShutdown \/ \E c \in DOMAIN OneReport : Command(c)
  \/ \E reg \in Registers : ConfigRead(reg)
  \/ \E reg \in Writable, value \in Written : ConfigWrite(reg, value)

Spec == Init /\ [][Next]_vars

-----------------------------------------------------------------------------
(* Properties *)

\* Type invariant.
TypeOK ==
  /\ device \in Devices \cup {NoDevice}
  /\ Len(fields) <= HID_MAX_FIELDS
  /\ \A i \in 1..Len(fields) : Len(fields[i].path) <= HID_MAX_PATH
  /\ \A n \in Names : pdc[n] = NoField \/ pdc[n] \in ToSet(fields)
  /\ memory \in [Ids -> Nat] /\ nominal_watts \in Nat
  /\ Opened => \A i \in Ids : memory[i] < Pow2[Length(i)]
  /\ changes \in 0..MaxChanges

\* The fields are those the HID specification finds in the descriptor, each
\* in its collections, at its place in the report of its type
\* (hid_parser.h:8-11), when it fits the parser's tables.
ParsedAsDescribed ==
  answer.call = "open" /\ Fits(device.desc) => fields = Declared(device.desc)

\* The fields of one type in a report share no bit, in whatever order the
\* descriptor switches between reports, types and sizes (hid_parser.c:54-58).
FieldsApart ==
  \A i, j \in 1..Len(fields) :
    i < j /\ fields[i].id = fields[j].id /\ fields[i].type = fields[j].type =>
      fields[i].offset + fields[i].size <= fields[j].offset

\* A register is read as the descriptor says (hid_parser.c:187-242), of a
\* wide bitfield the first byte, unless the report was not given.  A field of
\* whole bytes with a negative minimum is left out: it is read unsigned.
ReadsDescribed ==
  answer.call = "config_read" /\ answer.given =>
    LET f == pdc[answer.reg] IN
    (f.min < 0 => ~Fast(f)) /\ f.size < 4 * BYTE =>
      answer.value = ValueByte(answer.reg, Value(f, memory[f.id]), f)

\* A feature of one bit
OneBit(f) == f.type = "feature" /\ f.size = 1

\* The bits of the status are in one report, that of the mains bit
\* (hid_pdc_core.c:512-513).  Each is declared once, and without a sign.
StatusInOneReport ==
  \A f, g \in ToSet(fields) : OneBit(f) /\ OneBit(g) =>
    /\ f.id = g.id /\ f.min >= 0
    /\ f.usage = g.usage => f = g
    /\ HasStatusBit(Bt("ac_present"))

\* The status says of each condition what the device says; of a battery it
\* has no bit for it says nothing (hid_pdc_core.c:569-573).
StatusHonest ==
  answer.call = "status" /\ answer.ok /\ StatusInOneReport =>
    LET Says(u, b) == \E f \in ToSet(fields) :
                        IsBit(f, u) /\ Value(f, memory[f.id]) = b
    IN /\ \A g \in DOMAIN Flags \ AvrFlags :
            g \in answer.flags <=> \E u \in Flags[g] : Says(u, 1)
       /\ answer.disconnected => Says(Bt("battery_present"), 0)

\* The readings are of the battery or, when it has none, of the power summary
\* (hid_pdc_core.c:342-347), and each is 0 when its report was not given.
DynamicHonest ==
  answer.call = "dynamic" =>
    \A n \in DOMAIN SummaryPaths :
      LET In(c) == {f \in ToSet(fields) :
            /\ f.type = "feature" /\ Last(f.path) = Last(StandardPaths[n])
            /\ Len(f.path) > 1 /\ f.path[Len(f.path) - 1] = Pw(c)}
          told == IF In("battery") # {} THEN In("battery")
                  ELSE In("power_summary")
      IN IF told = {} THEN answer.values[n].raw = 0
         ELSE \E f \in told : answer.values[n].raw =
                IF f.id \in answer.failing THEN 0
                ELSE Extract(f, memory[f.id])

\* What the monitor polls, the status and the readings, is what the device
\* reports (hid_pdc_core.c:510-670).
ReadersHonest == StatusHonest /\ DynamicHonest

\* A field of whole bytes with its report for itself
Alone(f) ==
  /\ f.offset = 0 /\ f.size > 0 /\ f.size % BYTE = 0
  /\ \A g \in ToSet(fields) : g.type = "feature" /\ g.id = f.id => g = f

\* A shutdown that was taken leaves the countdown running from its delay and
\* the output to be restored at once when the mains are back
\* (hid_pdc_core.c:687-691), unless the device refused or ignored a report or
\* a field is wider than the two bytes that are sent.
ShutdownArms ==
  answer.call = "shutdown" /\ answer.fates = {"stored"} =>
    LET down == pdc["delay_before_shutdown"]
        up == pdc["delay_before_startup"]
        Holds(f, v) == Alone(f) /\ f.size <= 2 * BYTE => Value(f, memory[f.id]) = v
    IN /\ answer.ok /\ Holds(down, ShutdownDelay)
       /\ up # NoField => Holds(up, 0)

\* A write that succeeded is in the device, and of a bitfield only the value
\* byte has changed (hid_pdc_core.c:774-776), for a field with a report of
\* its own.  Only 0 may be taken for stored when the readback failed.
WriteHonest ==
  answer.call = "config_write" =>
    LET f == pdc[answer.reg]
        held == Bits(memory[f.id], f.offset, f.size)
    IN Alone(f) =>
         /\ answer.ok /\ answer.value # 0 =>
              ValueByte(answer.reg, held, f) = answer.value
         /\ answer.reg \in Bitfields =>
              memory[f.id] \div Pow2[BYTE] = before[f.id] \div Pow2[BYTE]

\* A register is known by its place in the descriptor, so that fields that
\* share a report are told apart (hid_pdc_core.h:118-123): a write changes no
\* other field.
WriteSpares ==
  answer.call = "config_write" =>
    \A f \in ToSet(fields) :
      f.type = "feature" /\ f # pdc[answer.reg] =>
        Value(f, memory[f.id]) = Value(f, before[f.id])

\* A reader returns -1 on an I/O failure (ups_driver.h:408).
FailureTold ==
  answer.call = "dynamic" =>
    \A n \in Readings :
      pdc[n] # NoField /\ pdc[n].id \in answer.failing => ~answer.ok

\* Without the restart delay the UPS stays off for good
\* (hid_pdc_core.c:687-691): a shutdown that succeeded has written it.
ShutdownRestarts ==
  answer.call = "shutdown" /\ answer.ok /\ pdc["delay_before_startup"] # NoField
    => "refused" \notin answer.fates
=============================================================================
