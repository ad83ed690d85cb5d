---------------------------- MODULE MCConfigRegs ----------------------------
(* A small instance of ConfigRegs for TLC.  In each behaviour one register  *)
(* is set, of every kind there is.  Every register of a unit holds its own  *)
(* address at first, so that no two are taken for each other; those whose   *)
(* address would not do hold something else.                                *)
EXTENDS ConfigRegs

MCTracked ==
  {Unit("transfer_low"), Unit("freq_tolerance"), <<"sog0", "name">>}
MCTrackedSets == {{n} : n \in MCTracked}
MCValues ==
  [n \in MCTracked |->
     CASE n = Unit("transfer_low") -> {0, 100}
       [] n = Unit("freq_tolerance") -> {2, 3}
       [] OTHER -> {40000}]
MCBackground == [a \in 0..1543 |->
                   IF a \in {593, 1024, 1028} THEN 1
                   ELSE IF a = 1027 THEN 106
                   ELSE IF a = 154 THEN 65533   \* no efficiency: reason 3
                   ELSE IF a = 155 THEN 65535   \* no shutdown timer
                   ELSE a]
MCOutletSets == {{"sog0"}}
=============================================================================
