----------------------------- MODULE MCUpsLink -----------------------------
(* UpsLink with a few devices, for TLC. *)
EXTENDS UpsLink

Smt == [attached |-> "serial", marks |-> {"SKU:SMT"}, fields |-> {},
        groups |-> {"sog0"}]
LargerSmt == [Smt EXCEPT !.groups = {"sog0", "sog1"}]
Srt == [attached |-> "serial", marks |-> {"MODEL:SRT"}, fields |-> {},
        groups |-> {}]
BackUps == [attached |-> "apc", marks |-> {"PRODUCT:Back-UPS", "MFG:APC"},
            fields |-> {"delay_before_shutdown", "test", "sensitivity"},
            groups |-> {}]
Jammed == [BackUps EXCEPT !.fields = {}]  \* its descriptor did not parse

SerialAndUsb == {Smt, LargerSmt, Srt, BackUps, Jammed}
SerialAndApc == {"serial", "apc"}
============================================================================
