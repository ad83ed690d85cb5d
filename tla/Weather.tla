------------------------------- MODULE Weather -------------------------------
(***************************************************************************)
(* The weather thread (src/src/weather/weather.c): in severe weather it    *)
(* overrides a configuration register of the UPS, by default the frequency *)
(* tolerance, which keeps the UPS out of its high efficiency mode, and     *)
(* puts the register back when the weather clears.                         *)
(*                                                                         *)
(* It shares the HE inhibit with the monitor's slow thread, which ends the *)
(* inhibit on its own once it has met HE mode in HE_REENGAGE_THRESHOLD     *)
(* polls in a row, and the simulation request with the HTTP threads.       *)
(* Neither is under a lock, so each store is a step of its own.            *)
(*                                                                         *)
(* What the weather service says is one Boolean.  A register that is not   *)
(* found, cannot be written or refuses the value is a failed read or       *)
(* write.  The reasons, the report and the status page are left out.       *)
(***************************************************************************)
EXTENDS Naturals

CONSTANTS
  Values,        \* the values of the register
  SevereValue,   \* severe_raw_value
  NormalValues,  \* the settings of normal_raw_value: Values, or RestoreSaved
  RestoreSaved,  \* 0xFFFF
  SevereKeepsHE, \* the UPS may be in HE mode although the register is overridden
  Outages,       \* may the weather service not answer
  IoFails,       \* may a read or a write of the register fail
  HE_REENGAGE_THRESHOLD,
  MaxEnds        \* bound on the ends of the daemon

ASSUME WeatherAssumption ==
  /\ SevereValue \in Values
  /\ NormalValues \subseteq Values \cup {RestoreSaved}
  /\ RestoreSaved \notin Values
  /\ {SevereKeepsHE, Outages, IoFails} \subseteq BOOLEAN
  /\ HE_REENGAGE_THRESHOLD \in Nat \ {0} /\ MaxEnds \in Nat

VARIABLES
  storm,     \* the weather is severe
  normal,    \* normal_raw_value, as this run of the daemon loaded it
  reg,       \* the register
  weather,   \* where the weather thread stands
  severe,
  basis,     \* what severe rests on: an "answer" of the weather service, its
             \* "silence" or a "simulation"
  active,    \* he_active, as the thread read it
  saved,     \* saved_value, meaningful while has_saved
  has_saved,
  sim,       \* sim_severe: "none", "severe" or "clear"
  he_inhibit,
  he_source, \* "weather", or "none": the empty string
  monitor,   \* where the poll stands in its HE inhibit paragraph
  seen_he,   \* the HE bit of the reading of this poll
  he_reengage_count,
  \* history
  operators, \* what the operator left the register at
  forgotten, \* the override was forgotten since, in a way named below
  told,      \* the last event is "Weather: Severe"
  dropped,   \* the inhibit of that event was ended by the poll, or by a restart
  ends

inhibit == <<he_inhibit, he_source, he_reengage_count>>
cycle == <<severe, basis, active>>
saving == <<saved, has_saved>>
memory == <<normal, cycle, saving>>
poll == <<monitor, seen_he>>
register == <<reg, operators, forgotten>>
story == <<told, dropped>>
vars == <<storm, weather, memory, sim, inhibit, poll, register, story,
          ends>>

\* May the UPS be in HE mode?  An overridden frequency tolerance keeps it out.
MayEngage == SevereKeepsHE \/ reg # SevereValue

\* The register becomes `value'.  While it is not what the operator left it at,
\* the override is forgotten if `how', or if it was.
Register(value, how) ==
  /\ reg' = value
  /\ forgotten' = (value # operators /\ (forgotten \/ how))

\* The register stays; the override is forgotten if one is in force.
Forget == Register(reg, TRUE) /\ UNCHANGED operators

-----------------------------------------------------------------------------

Init ==
  /\ storm \in BOOLEAN /\ normal \in NormalValues
  /\ reg \in Values /\ operators = reg
  /\ weather = "asleep" /\ monitor = "idle"
  /\ severe = FALSE /\ basis = "answer" /\ active = FALSE
  /\ has_saved = FALSE /\ saved = SevereValue
  /\ sim = "none"
  /\ he_inhibit = FALSE /\ he_source = "none" /\ he_reengage_count = 0
  /\ seen_he = FALSE
  /\ forgotten = FALSE /\ told = FALSE /\ dropped = FALSE
  /\ ends = 0

WeatherTurns ==
  /\ storm' = ~storm
  /\ UNCHANGED <<weather, memory, sim, inhibit, poll, register, story, ends>>

\* The operator writes the register, from the UPS panel or the configuration
\* page.  Assumption: not while the thread overrides it or has a value to put
\* back.
OperatorSets ==
  /\ weather \in {"asleep", "assessed", "look"}
  /\ ~he_inhibit /\ ~has_saved /\ reg = operators
  /\ reg' \in Values \ {reg} /\ operators' = reg'
  /\ UNCHANGED <<storm, weather, memory, sim, inhibit, poll, forgotten,
                 story, ends>>

\* /api/weather/simulate
Simulate ==
  /\ sim' \in {"severe", "clear"} \ {sim}
  /\ UNCHANGED <<storm, weather, memory, inhibit, poll, register, story,
                 ends>>

-----------------------------------------------------------------------------
(* The weather thread *)

\* The checks of the weather service, and what a simulation makes of them.  No
\* answer counts as fair weather.
Assess ==
  /\ weather = "asleep"
  /\ weather' = IF sim = "none" THEN "look" ELSE "assessed"
  /\ \/ /\ sim = "none"
        /\ basis' \in IF Outages THEN {"answer", "silence"} ELSE {"answer"}
        /\ severe' = (storm /\ basis' = "answer")
     \/ /\ sim # "none"
        /\ basis' = "simulation"
        /\ severe' = (sim = "severe")
  /\ UNCHANGED <<storm, normal, active, saving, sim, inhibit, poll, register,
                 story, ends>>

\* The request is taken; one made since Assess read it is lost.
TakeSim ==
  /\ weather = "assessed"
  /\ weather' = "look"
  /\ sim' = "none"
  /\ UNCHANGED <<storm, memory, inhibit, poll, register, story, ends>>

\* monitor_he_inhibit_active
Look ==
  /\ weather = "look"
  /\ weather' = "decide"
  /\ active' = he_inhibit
  /\ UNCHANGED <<storm, normal, severe, basis, saving, sim, inhibit,
                 poll, register, story, ends>>

\* Faulty variants: the register is not overridden again while a value is saved;
\* without a saved value nothing is undone.
OverrideOnce == severe /\ ~active /\ ~has_saved
RestoreIfSaved == ~severe /\ active /\ he_source = "weather" /\ has_saved

\* The source is compared in place, after he_inhibit was read.
MustOverride == severe /\ ~active
MustRestore == ~severe /\ active /\ he_source = "weather"

Decide ==
  /\ weather = "decide"
  /\ weather' = CASE MustOverride -> "save"
                  [] MustRestore  -> "restore"
                  [] OTHER        -> "asleep"
  /\ UNCHANGED <<storm, memory, sim, inhibit, poll, register, story,
                 ends>>

\* Faulty variant of Found: the register is read after the override.
FoundLate == SevereValue

\* The value ups_config_read returns.
Found == reg

\* read_and_save_param
Save ==
  /\ weather = "save"
  /\ weather' = "override"
  /\ \/ saved' = Found /\ has_saved' = TRUE
     \/ IoFails /\ UNCHANGED <<saved, has_saved>>
  /\ UNCHANGED <<storm, normal, cycle, sim, inhibit, poll,
                 register, story, ends>>

\* Nothing was saved to restore.
NothingSaved == normal = RestoreSaved /\ ~has_saved

\* apply_severe writes, and does not ask whether it could.
Override ==
  /\ weather = "override"
  /\ weather' = "inhibit"
  /\ \/ Register(SevereValue, NothingSaved) /\ UNCHANGED operators
     \/ IoFails /\ UNCHANGED register
  /\ UNCHANGED <<storm, memory, sim, inhibit, poll, story, ends>>

\* monitor_he_inhibit_set: the flag...
SetInhibit ==
  /\ weather = "inhibit"
  /\ weather' = "name"
  /\ he_inhibit' = TRUE
  /\ dropped' = FALSE
  /\ UNCHANGED <<storm, memory, sim, he_source, he_reengage_count, poll,
                 register, told, ends>>

\* ... then the source.
SetSource ==
  /\ weather = "name"
  /\ weather' = "tell"
  /\ he_source' = "weather"
  /\ UNCHANGED <<storm, memory, sim, he_inhibit, he_reengage_count, poll,
                 register, story, ends>>

\* The value to put back.
Target == IF normal = RestoreSaved THEN saved ELSE normal

\* apply_restore: what was saved is dropped whether or not it could be written.
\* A fixed value is what the operator configured.
Restore ==
  /\ weather = "restore"
  /\ weather' = "release"
  /\ has_saved' = FALSE
  /\ \/ /\ ~NothingSaved
        /\ operators' = IF normal = RestoreSaved THEN operators
                                                      ELSE normal
        /\ reg' = Target
        /\ forgotten' = (reg' # operators' /\ forgotten)
     \/ NothingSaved /\ UNCHANGED register
     \/ IoFails /\ Forget
  /\ UNCHANGED <<storm, normal, cycle, saved, sim, inhibit, poll,
                 story, ends>>

\* monitor_he_inhibit_clear
Release ==
  /\ weather = "release"
  /\ weather' = "unname"
  /\ he_inhibit' = FALSE
  /\ UNCHANGED <<storm, memory, sim, he_source, he_reengage_count, poll,
                 register, story, ends>>

Unname ==
  /\ weather = "unname"
  /\ weather' = "tell"
  /\ he_source' = "none" /\ he_reengage_count' = 0
  /\ UNCHANGED <<storm, memory, sim, he_inhibit, poll, register, story,
                 ends>>

\* "Weather: Severe" or "Weather: Clear"
TellWeather ==
  /\ weather = "tell"
  /\ weather' = "asleep"
  /\ told' = severe
  /\ UNCHANGED <<storm, memory, sim, inhibit, poll, register, dropped,
                 ends>>

Cycle ==
  \/ Assess \/ TakeSim \/ Look \/ Decide
  \/ Save \/ Override \/ SetInhibit \/ SetSource
  \/ Restore \/ Release \/ Unname \/ TellWeather

-----------------------------------------------------------------------------
(* The poll *)

Poll ==
  /\ monitor = "idle"
  /\ monitor' = "check"
  /\ seen_he' \in IF MayEngage THEN BOOLEAN ELSE {FALSE}
  /\ UNCHANGED <<storm, weather, memory, sim, inhibit, register, story,
                 ends>>

\* A UPS without UPS_CAP_HE_MODE is one that Poll never sees in HE mode.
PollCheck ==
  /\ monitor = "check"
  /\ monitor' = IF he_inhibit THEN "count" ELSE "idle"
  /\ UNCHANGED <<storm, weather, memory, sim, inhibit, seen_he, register,
                 story, ends>>

\* Faulty variant of Stable: one poll too many.
StableLate(count) == count > HE_REENGAGE_THRESHOLD

Stable(count) == count >= HE_REENGAGE_THRESHOLD

Counted == IF seen_he THEN he_reengage_count + 1 ELSE 0

PollCount ==
  /\ monitor = "count"
  /\ he_reengage_count' = Counted
  /\ monitor' = IF Stable(he_reengage_count') THEN "clear" ELSE "idle"
  /\ UNCHANGED <<storm, weather, memory, sim, he_inhibit, he_source,
                 seen_he, register, story, ends>>

PollClears ==
  /\ monitor = "clear"
  /\ monitor' = "unname"
  /\ he_inhibit' = FALSE
  /\ Forget /\ dropped' = TRUE
  /\ UNCHANGED <<storm, weather, memory, sim, he_source,
                 he_reengage_count, seen_he, told, ends>>

PollUnnames ==
  /\ monitor = "unname"
  /\ monitor' = "idle"
  /\ he_source' = "none" /\ he_reengage_count' = 0
  /\ Forget /\ dropped' = TRUE
  /\ UNCHANGED <<storm, weather, memory, sim, he_inhibit, seen_he, told,
                 ends>>

PollStep == Poll \/ PollCheck \/ PollCount \/ PollClears \/ PollUnnames

-----------------------------------------------------------------------------

\* calloc'd memory again.
MemoryLost ==
  /\ weather' = "asleep" /\ monitor' = "idle"
  /\ severe' = FALSE /\ basis' = "answer" /\ active' = FALSE
  /\ has_saved' = FALSE /\ UNCHANGED saved
  /\ normal' \in NormalValues
  /\ sim' = "none"
  /\ he_inhibit' = FALSE /\ he_source' = "none" /\ he_reengage_count' = 0
  /\ seen_he' = FALSE

\* The daemon is stopped or killed, and started again: weather_stop restores
\* nothing, and no memory of the override is kept.
Restart ==
  /\ ends < MaxEnds
  /\ ends' = ends + 1
  /\ MemoryLost
  /\ Forget /\ dropped' = TRUE
  /\ UNCHANGED <<storm, told>>

Next ==
  \/ WeatherTurns \/ OperatorSets \/ Simulate
  \/ Cycle \/ PollStep
  \/ Restart

\* The two threads run.
Fairness == WF_vars(Cycle) /\ WF_vars(PollStep)

Spec == Init /\ [][Next]_vars /\ Fairness

-----------------------------------------------------------------------------
(* Properties *)

\* Every variable holds a value the code can give it.
TypeOK ==
  /\ {storm, severe, active, has_saved, he_inhibit, seen_he,
      forgotten, told, dropped} \subseteq BOOLEAN
  /\ {reg, saved, operators} \subseteq Values /\ normal \in NormalValues
  /\ basis \in {"answer", "silence", "simulation"}
  /\ weather \in {"asleep", "assessed", "look", "decide", "save", "override",
                  "inhibit", "name", "restore", "release", "unname", "tell"}
  /\ sim \in {"none", "severe", "clear"}
  /\ he_source \in {"none", "weather"}
  /\ monitor \in {"idle", "check", "count", "clear", "unname"}
  /\ he_reengage_count \in 0..HE_REENGAGE_THRESHOLD
  /\ ends \in 0..MaxEnds

\* In fair weather the register is what the operator left it at, unless the
\* override was forgotten: by a restart, by the poll's end of the inhibit, by a
\* read that saved nothing or a write that restored nothing (weather.c:352-373).
Restored ==
  weather = "asleep" /\ ~severe /\ reg # operators => forgotten

\* Between two cycles the last event tells the weather, and the thread's inhibit
\* does not outlast it, unless the poll or a restart ended it
\* (weather.c:420-439).
StoryTold ==
  weather = "asleep" =>
    /\ severe => told
    /\ ~severe /\ told => dropped
    /\ ~severe /\ he_inhibit => he_source # "weather"

\* In weather that stays severe, the UPS is inhibited again and again, whatever
\* the poll makes of it; in weather that stays fair the inhibit ends for good.
\* The exception is an inhibit the poll took the source off while the thread was
\* setting it: nobody asks for its restoration (monitor.c:649-653, 677-679).
WeatherFollowed ==
  /\ <>[](storm /\ sim = "none" /\ basis # "silence") => []<>he_inhibit
  /\ <>[](~storm /\ sim = "none") =>
       \/ <>[]~he_inhibit
       \/ <>[](he_inhibit /\ he_source = "none" /\ dropped)

\* Refuted: "Restores when conditions clear" (weather.h:10-11), without exception.
InhibitEnds == <>[](~storm /\ sim = "none") => <>[]~he_inhibit

\* Refuted: the value saved is the one of "before we wrote severe"
\* (weather.c:130), however often the override is applied.
SavedBeforeSevere ==
  has_saved /\ operators # SevereValue /\ ends = 0 => saved # SevereValue
==============================================================================
