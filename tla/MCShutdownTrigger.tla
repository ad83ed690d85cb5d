-------------------------- MODULE MCShutdownTrigger --------------------------
(* ShutdownTrigger with a few settings and readings, for TLC. *)
EXTENDS ShutdownTrigger

Config(mode, on_battery, source, delay) ==
  [mode |-> mode, on_battery |-> on_battery, source |-> source, delay |-> delay,
   runtime_sec |-> 2, battery_pct |-> 0,
   field |-> "efficiency", field_op |-> "lt", field_value |-> 5]

Reading(on_battery, imminent, runtime, field) ==
  [on_battery |-> on_battery, shutdown_imminent |-> imminent,
   runtime_sec |-> runtime, charge_pct |-> 3,
   fields |-> [efficiency |-> field]]

OnMains   == Reading(FALSE, FALSE, 4, 9)
NoField   == Reading(TRUE, FALSE, 0, NaN)
LowOnMain == Reading(FALSE, FALSE, 2, 5)
LowOnBatt == Reading(TRUE, FALSE, 2, 4)
Imminent  == Reading(TRUE, TRUE, 3, 4)

AllReadings == {OnMains, NoField, LowOnMain, LowOnBatt, Imminent}

Software   == Config("software", TRUE, "runtime", 2)
FieldWatch == Config("software", FALSE, "field", 2)
UpsDecides == Config("ups", TRUE, "runtime", 1)
AtOnce     == Config("ups", TRUE, "runtime", 0)
ByCharge   == [Config("software", FALSE, "runtime", 2) EXCEPT !.battery_pct = 3,
                                                             !.runtime_sec = 0]
ManualMode == Config("manual", TRUE, "runtime", 2)

Automatic == {Software, FieldWatch, UpsDecides, AtOnce, ByCharge}
WithManual == {Software, ManualMode}
SoftwareOnly == {Software}
TwoAutomatic == {Software, UpsDecides}
FewReadings == {OnMains, LowOnBatt, Imminent}

NoClockSteps == {}
StepsBack    == {-1}
BothKinds == BOOLEAN
RealOnly  == {FALSE}
==============================================================================
