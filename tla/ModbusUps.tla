----------------------------- MODULE ModbusUps -----------------------------
(***************************************************************************)
(* The registers of the APC units on a serial line and what the two        *)
(* drivers for them (src/src/ups/ups_smt.c and ups_srt.c) know of them:    *)
(* the blocks the readers take apart, the descriptors of single registers, *)
(* the commands and how a register is read and written.                    *)
(*                                                                         *)
(* A register is a word at an address.  The memory of a unit is a function *)
(* mem from addresses to words.  A name is that of an outlet               *)
(* group and of what is named.  Labels, units and scales are left out, and *)
(* so are the options of the registers nobody can write.                   *)
(***************************************************************************)
EXTENDS Integers, Sequences

WORD == 2^16
Families == {"smt", "srt"}
Outlets == {"sog0", "sog1", "sog2"}
Groups == {"unit", "mog"} \cup Outlets

-----------------------------------------------------------------------------
(* Descriptors *)

\* A descriptor of n registers.  No range is declared, nobody may write, and
\* no value means "not applicable".
Register(name, addr, n, type, category) ==
  [name |-> name, addr |-> addr, count |-> n, type |-> type,
   category |-> category, writable |-> FALSE, min |-> 0, max |-> 0,
   opts |-> {}, sentinel |-> <<>>]

Unit(what) == <<"unit", what>>
Scalar(name, addr, min, max) ==
  [Register(name, addr, 1, "scalar", "config") EXCEPT !.min = min, !.max = max]
Choice(what, addr, opts) ==
  [Register(Unit(what), addr, 1, "bitfield", "config") EXCEPT !.opts = opts]
Open(reg) == [reg EXCEPT !.writable = TRUE]
Word(what, addr, category) == Register(Unit(what), addr, 1, "scalar", category)
Long(what, addr, category) == Register(Unit(what), addr, 2, "scalar", category)
Flag(what, addr, n, category) ==
  Register(Unit(what), addr, n, "flags", category)
Text(name, addr, n, category) == Register(name, addr, n, "string", category)
MayLack(reg) ==
  [reg EXCEPT !.sentinel = [i \in 1..reg.count |-> WORD - 1]]

\* The values of the options of the bitfields somebody may write, which are
\* strict
SmtBatTestOpts == {1, 2, 16, 32}
SmtSensitivityOpts == {1, 2, 4}
SrtBatTestOpts == {1, 2, 16, 32}
SrtFreqTolOpts == {1, 2, 8, 16, 64}
SmtVoltageOpts == {1, 2, 4, 8, 16, 32, 64, 2048}
SrtVoltageOpts == SmtVoltageOpts

\* The settings of the unit
SmtUnit ==
  {Open(Scalar(Unit("transfer_high"), 1026, 110, 150)),
   Open(Scalar(Unit("transfer_low"), 1027, 80, 120)),
   Open(Choice("bat_test_interval", 1024, SmtBatTestOpts)),
   Open(Choice("sensitivity", 1028, SmtSensitivityOpts)),
   Choice("output_voltage_setting", 592, SmtVoltageOpts),
   Scalar(Unit("manufacture_date"), 591, 0, 65535),
   Open(Scalar(Unit("battery_date"), 595, 0, 65535))}

SrtUnit ==
  {Open(Scalar(Unit("transfer_high"), 1026, 110, 150)),
   Open(Scalar(Unit("transfer_low"), 1027, 80, 120)),
   Open(Choice("bat_test_interval", 1024, SrtBatTestOpts)),
   Choice("output_voltage_setting", 592, SrtVoltageOpts),
   Open(Choice("freq_tolerance", 593, SrtFreqTolOpts)),
   [Scalar(Unit("manufacture_date"), 591, 0, 65535)
      EXCEPT !.category = "identity"],
   Open(Scalar(Unit("battery_date"), 595, 0, 65535))}

\* Those of an outlet group: its delays, which anybody may write, and when it
\* sheds its load
Delays ==
  [turn_off_delay |-> [mog |-> 1029, sog0 |-> 1034, sog1 |-> 1039,
                       sog2 |-> 1044],
   turn_on_delay |-> [mog |-> 1030, sog0 |-> 1035, sog1 |-> 1040,
                      sog2 |-> 1045],
   min_return_runtime |-> [mog |-> 1033, sog0 |-> 1038, sog1 |-> 1043,
                           sog2 |-> 1048]]
LoadShed ==
  [loadshed_config |-> [mog |-> 1054, sog0 |-> 1056, sog1 |-> 1058,
                        sog2 |-> 1060],
   loadshed_runtime |-> [mog |-> 1072, sog0 |-> 1064, sog1 |-> 1065,
                         sog2 |-> 1066],
   loadshed_time_on_bat |-> [mog |-> 1073, sog0 |-> 1068, sog1 |-> 1069,
                             sog2 |-> 1070]]
ShedMax(what) == IF what = "loadshed_config" THEN 65535 ELSE 32767

DelaysOf(g) ==
  {Open(Scalar(<<g, what>>, Delays[what][g], 0, 32767)) :
     what \in DOMAIN Delays}
LoadShedOf(g) ==
  {Scalar(<<g, what>>, LoadShed[what][g], 0, ShedMax(what)) :
     what \in DOMAIN LoadShed}

SmtOutlet(g) == DelaysOf(g) \cup LoadShedOf(g)
SrtOutlet(g) == DelaysOf(g) \cup {Open(r) : r \in LoadShedOf(g)}

\* A faulty OutletStatus, for the checks: there is no gap between the groups.
OutletStatusPacked == [mog |-> 3, sog0 |-> 5, sog1 |-> 7, sog2 |-> 9]

\* The status block
OutletStatus == [mog |-> 3, sog0 |-> 6, sog1 |-> 9, sog2 |-> 12]
SmtStatus ==
  LET D(what, addr, n) == Flag(what, addr, n, "diagnostic") IN
  {D("ups_status", 0, 2), D("signaling_status", 18, 1),
   D("general_error", 19, 1), D("power_system_error", 20, 2),
   D("battery_system_error", 22, 1), D("replace_battery_test_status", 23, 1),
   D("runtime_calibration_status", 24, 1), D("battery_lifetime_status", 25, 1),
   D("ui_status", 26, 1),
   Register(Unit("transfer_reason"), 2, 1, "bitfield", "diagnostic")}
  \cup {Register(<<g, "status">>, OutletStatus[g], 2, "flags", "diagnostic") :
          g \in DOMAIN OutletStatus}
SrtStatus == SmtStatus

\* The dynamic block
SmtDynamic ==
  LET M(what, addr) == Word(what, addr, "measurement")
      L(what, addr) == Long(what, addr, "measurement")
      F(what, addr) == Flag(what, addr, 1, "measurement")
  IN {L("battery_runtime", 128), M("battery_charge_pct", 130),
      M("battery_voltage_pos", 131), MayLack(M("battery_voltage_neg", 132)),
      M("battery_internal_date", 133), M("battery_temperature", 135),
      M("output_load_pct", 136), M("output_apparent_power_pct", 138),
      M("output_current", 140), M("output_voltage", 142),
      M("output_frequency", 144), L("output_energy", 145),
      [F("bypass_input_status", 147) EXCEPT !.sentinel = <<0>>],
      MayLack(M("bypass_voltage", 148)), MayLack(M("bypass_frequency", 149)),
      F("input_status", 150), MayLack(M("input_voltage", 151)),
      MayLack(M("efficiency", 154))}

Countdowns == [mog |-> 155, sog0 |-> 159, sog1 |-> 163, sog2 |-> 167]
SmtCountdowns(g) ==
  LET at == Countdowns[g] IN
  {MayLack(Register(<<g, "off_countdown">>, at, 1, "scalar", "measurement")),
   MayLack(Register(<<g, "on_countdown">>, at + 1, 1, "scalar",
                    "measurement")),
   MayLack(Register(<<g, "stayoff_countdown">>, at + 2, 2, "scalar",
                    "measurement"))}

\* On an SRT the battery and the bypass never lack a value.
SrtDynamic ==
  {IF r.name[2] \in {"battery_voltage_neg", "bypass_input_status",
                     "bypass_voltage", "bypass_frequency"}
   THEN [r EXCEPT !.sentinel = <<>>] ELSE r : r \in SmtDynamic}
  \cup {MayLack(Word("shutdown_timer", 155, "measurement")),
        MayLack(Word("start_timer", 156, "measurement")),
        MayLack(Long("reboot_timer", 157, "measurement"))}

\* The inventory block
SmtInventory ==
  LET I(what, addr, n) == Text(Unit(what), addr, n, "identity") IN
  {I("firmware_version", 516, 8), I("model_name", 532, 16), I("sku", 548, 16),
   I("serial_number", 564, 8), I("battery_sku", 572, 8),
   Word("nominal_apparent_power", 588, "identity"),
   Word("nominal_real_power", 589, "identity"),
   Flag("sog_relay_config", 590, 1, "identity")}
SrtInventory ==
  SmtInventory \cup {Text(Unit("external_battery_sku"), 580, 8, "identity")}

\* A faulty NameAt, for the checks: the names are taken for half as long.
NameAtPacked ==
  [unit |-> 596, mog |-> 600, sog0 |-> 604, sog1 |-> 608, sog2 |-> 612]

\* The names
NameAt == [unit |-> 596, mog |-> 604, sog0 |-> 612, sog1 |-> 620, sog2 |-> 628]
SmtNames == {Open(Text(<<g, "name">>, NameAt[g], 8, "config")) : g \in Groups}
SrtNames == SmtNames

\* The tables.  That of an SMT is narrowed to the outlet groups the unit has.
SmtRegisters ==
  SmtUnit \cup SmtStatus \cup SmtDynamic \cup SmtInventory \cup SmtNames
  \cup UNION {SmtOutlet(g) \cup SmtCountdowns(g) : g \in Groups \ {"unit"}}
SrtRegisters ==
  SrtUnit \cup SrtStatus \cup SrtDynamic \cup SrtInventory \cup SrtNames
  \cup UNION {SrtOutlet(g) : g \in {"mog", "sog0", "sog1"}}

Present(family, outlets) ==
  IF family = "smt"
  THEN {r \in SmtRegisters : r.name[1] \notin Outlets \ outlets}
  ELSE SrtRegisters

-----------------------------------------------------------------------------
(* Single registers *)

\* The words of a register
Words(reg, mem) == [i \in 1..reg.count |-> mem[reg.addr + i - 1]]

\* config_read: the first register stands for a string.
SmtRaw(reg, mem) ==
  IF reg.count >= 2 /\ reg.type # "string"
  THEN SubSeq(Words(reg, mem), 1, 2) ELSE <<mem[reg.addr]>>
SrtRaw(reg, mem) ==
  IF reg.count >= 2 /\ reg.type # "string"
  THEN <<mem[reg.addr], mem[reg.addr + 1]>> ELSE <<mem[reg.addr]>>
Raw(family, reg, mem) ==
  IF family = "smt" THEN SmtRaw(reg, mem) ELSE SrtRaw(reg, mem)

\* ups_config_validate
Accepts(reg, value) ==
  CASE reg.type = "scalar" ->
         (reg.min = 0 /\ reg.max = 0) \/ value \in reg.min..reg.max
    [] reg.type = "bitfield" -> value \in reg.opts
    [] OTHER -> TRUE

\* What is there once a sequence is stored from addr on
Stored(mem, addr, words) ==
  [a \in DOMAIN mem |->
     IF a \in addr..(addr + Len(words) - 1) THEN words[a - addr + 1]
     ELSE mem[a]]

\* config_write: what is left when the unit took the value, and whether the
\* call succeeds, when the unit answered.  One register is written and read
\* back, whatever the descriptor counts.
SmtWritten(reg, value, mem, taken) ==
  IF taken THEN Stored(mem, reg.addr, <<value>>) ELSE mem
SrtWritten(reg, value, mem, taken) ==
  IF taken THEN Stored(mem, reg.addr, <<value>>) ELSE mem
Written(family, reg, value, mem, taken) ==
  IF family = "smt" THEN SmtWritten(reg, value, mem, taken)
  ELSE SrtWritten(reg, value, mem, taken)
WriteOk(family, reg, value, mem, taken, answered) ==
  answered /\ Written(family, reg, value, mem, taken)[reg.addr] = value

-----------------------------------------------------------------------------
(* Blocks: the registers a reader asks for at once, taken apart *)

Block(mem, addr, n) == [k \in 0..(n - 1) |-> mem[addr + k]]
Negative(w) == w >= WORD \div 2
Signed(w) == IF Negative(w) THEN w - WORD ELSE w

\* read_status
SmtReadStatus(mem) ==
  LET b == Block(mem, 0, 27) IN
  [ups_status |-> <<b[0], b[1]>>, transfer_reason |-> <<b[2]>>,
   mog |-> <<b[3], b[4]>>, sog0 |-> <<b[6], b[7]>>, sog1 |-> <<b[9], b[10]>>,
   signaling_status |-> <<b[18]>>, general_error |-> <<b[19]>>,
   power_system_error |-> <<b[20], b[21]>>,
   battery_system_error |-> <<b[22]>>,
   replace_battery_test_status |-> <<b[23]>>,
   runtime_calibration_status |-> <<b[24]>>,
   battery_lifetime_status |-> <<b[25]>>, ui_status |-> <<b[26]>>]
SrtReadStatus(mem) == SmtReadStatus(mem)

\* read_dynamic, before the words are scaled.  A negative efficiency is the
\* reason there is none.
SmtReadDynamic(mem) ==
  LET b == Block(mem, 128, 44)
      none == Negative(b[26])
  IN
  [battery_runtime |-> <<b[0], b[1]>>, battery_charge_pct |-> <<b[2]>>,
   battery_voltage_pos |-> <<Signed(b[3])>>, output_load_pct |-> <<b[8]>>,
   output_current |-> <<b[12]>>, output_voltage |-> <<b[14]>>,
   output_frequency |-> <<b[16]>>, output_energy |-> <<b[17], b[18]>>,
   input_status |-> <<b[22]>>, input_voltage |-> <<b[23]>>,
   efficiency |-> <<IF none THEN 0 ELSE b[26]>>,
   efficiency_reason |-> <<IF none THEN -Signed(b[26]) ELSE 0>>,
   shutdown_timer |-> <<Signed(b[27])>>, start_timer |-> <<Signed(b[28])>>,
   reboot_timer |-> <<Signed(b[29]), b[30]>>]

\* An SRT tells of its bypass too.
Bypass(mem) ==
  [bypass_input_status |-> <<mem[147]>>, bypass_voltage |-> <<mem[148]>>,
   bypass_frequency |-> <<mem[149]>>]
SrtReadDynamic(mem) ==
  LET d == SmtReadDynamic(mem)
      b == Bypass(mem)
  IN [f \in DOMAIN d \cup DOMAIN b |-> IF f \in DOMAIN d THEN d[f] ELSE b[f]]

\* read_inventory
SmtReadInventory(mem) ==
  LET b == Block(mem, 516, 80)
      S(k, n) == [i \in 1..n |-> b[k + i - 1]]
  IN [firmware_version |-> S(0, 8), model_name |-> S(16, 16), sku |-> S(32, 16),
      serial_number |-> S(48, 8), nominal_apparent_power |-> <<b[72]>>,
      nominal_real_power |-> <<b[73]>>, sog_relay_config |-> <<b[74]>>]
SrtReadInventory(mem) == SmtReadInventory(mem)

\* read_thresholds
SmtReadThresholds(mem) ==
  [transfer_high |-> <<mem[1026]>>, transfer_low |-> <<mem[1027]>>]
SrtReadThresholds(mem) == SmtReadThresholds(mem)

-----------------------------------------------------------------------------
(* Commands: the address and the words each one sends *)

SmtCommands ==
  [shutdown |-> <<1540, <<1>>>>, battery_test |-> <<1541, <<1>>>>,
   runtime_cal |-> <<1542, <<1>>>>, abort_runtime_cal |-> <<1542, <<2>>>>,
   clear_faults |-> <<1536, <<0, 512>>>>, mute |-> <<1543, <<4>>>>,
   unmute |-> <<1543, <<8>>>>, beep_short |-> <<1543, <<1>>>>,
   beep_continuous |-> <<1543, <<2>>>>]

\* An SRT also switches its bypass on and off.
BypassCommands ==
  [bypass |-> <<1536, <<0, 16>>>>, bypass_off |-> <<1536, <<0, 32>>>>]
SrtCommands ==
  [c \in DOMAIN SmtCommands \cup DOMAIN BypassCommands |->
     IF c \in DOMAIN SmtCommands THEN SmtCommands[c] ELSE BypassCommands[c]]
Commands(family) == IF family = "smt" THEN SmtCommands ELSE SrtCommands
=============================================================================
