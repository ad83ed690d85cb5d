------------------------------ MODULE MCWeather ------------------------------
(* Weather with three values of the register, for TLC. *)
EXTENDS Weather

CONSTANTS Wide, Narrow, Fixed

BothNormals == {Fixed, RestoreSaved}
ThreeValues == {Wide, Narrow, Fixed}
==============================================================================
