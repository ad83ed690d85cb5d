---------------------------- MODULE MCHidDevice ----------------------------
(* HidDevice with a few devices, and with short descriptors of every shape. *)
EXTENDS HidDevice

I(tag, val) == [tag |-> tag, val |-> val]
End == I("end", 0)
Feature == I("feature", 0)
Collected(usage, items) ==
  <<I("page", "power"), I("usage", usage), I("collection", 0)>> \o items
    \o <<End>>
\* One field of some usages in a report of its own
Report(id, page, size, usages) ==
  <<I("page", page), I("id", id), I("size", size), I("count", Len(usages))>>
    \o [i \in 1..Len(usages) |-> I("usage", usages[i])] \o <<Feature>>

\* What the reports 1, 2... hold
Reports(held) == [i \in Ids |-> IF i \in DOMAIN held THEN held[i] ELSE 0]

\* A Back-UPS: readings under Battery, one report each
Readable ==
  Collected("ups",
    Collected("battery",
      Report(1, "battery", BYTE, <<"remaining_capacity">>)
      \o <<I("unit", <<2, 1>>), I("exp", 7)>>
      \o Report(2, "power", 2 * BYTE, <<"voltage">>))
    \o <<I("unit", <<0, 0>>)>>
    \o Report(3, "battery", 1, <<"ac_present", "discharging">>)
    \o Report(3, "battery", 1, <<"battery_present">>)
    \o Report(3, "power", 1, <<"buck">>)
    \o <<I("usage", "spare"), I("input", 0)>>)
BackUps == [desc |-> Readable, vendor |-> "apc", watts |-> 0,
            reports |-> Reports(<<5, Pow2[BYTE] + 3, 1>>)]

\* Its controls: a bitfield of three bytes, delays, alarm and test
Controls ==
  Collected("ups",
    Collected("input",
      Report(1, "apc", 3 * BYTE, <<"sensitivity">>))
    \o Report(2, "power", 2 * BYTE, <<"delay_before_shutdown">>)
    \o Report(3, "power", 2 * BYTE, <<"delay_before_startup">>)
    \o Report(4, "power", BYTE, <<"audible_alarm_ctrl">>))
BackUpsControls == [desc |-> Controls, vendor |-> "apc", watts |-> 330,
                    reports |-> Reports(<<Pow2[BYTE] + 1, 3, 2, 2>>)]

\* A CP1500PFCLCD: readings under PowerSummary, several limits in one report,
\* no bit for a removable battery, and a boost bit that is stuck
Packed ==
  Collected("ups",
    Collected("power_summary",
      Report(1, "battery", BYTE, <<"remaining_capacity">>)
      \o Report(2, "battery", BYTE, <<"warning_cap_limit",
                                      "remaining_cap_limit">>)
      \o Report(3, "battery", 1, <<"ac_present", "discharging">>)
      \o Report(3, "power", 1, <<"boost", "shutdown_imminent">>)))
PowerPanel == [desc |-> Packed, vendor |-> "cyberpower", watts |-> 0,
               reports |-> Reports(<<5, 4, 5>>)]

\* Signed fields, of a byte and of less, and an oddly placed one
Odd ==
  Collected("ups",
    <<I("min", -1)>>
    \o Collected("input", Report(1, "power", BYTE - 1, <<"voltage">>)
                          \o Report(1, "power", BYTE,
                                    <<"low_voltage_transfer">>))
    \o Report(2, "power", BYTE, <<"config_active_power", "test">>)
    \o Report(3, "power", BYTE, <<"module_reset">>)
    \o Report(4, "apc", BYTE, <<"lights_test">>))
OddBall == [desc |-> Odd, vendor |-> "apc", watts |-> 2,
            reports |-> Reports(<<Pow2[BYTE] - 1, 7>>)]

\* Every sequence of four of these items after a collection was opened
Pieces == {I("usage", "a"), I("usage", "b"),
           I("collection", 0), End, Feature, I("input", 0), I("id", 1),
           I("count", 3)}
Shapes ==
  {[desc |-> <<I("page", "battery"), I("size", BYTE - 1), I("usage", "ups"),
               I("collection", 0), I("count", 1)>> \o s,
    vendor |-> "apc", watts |-> 0, reports |-> Reports(<<>>)] :
     s \in [1..4 -> Pieces]}

FewDevices == {BackUps, BackUpsControls, PowerPanel, OddBall}
AllDevices == FewDevices \cup Shapes
============================================================================
