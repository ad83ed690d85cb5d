--------------------------- MODULE ShutdownTrigger ---------------------------
(***************************************************************************)
(* shutdown_check_trigger (src/src/shutdown/shutdown.c), called by the     *)
(* monitor's poll thread after each successful poll, composed with the     *)
(* manager it asks for a workflow.  The manager appears as the abstract    *)
(* ShutdownService, which ShutdownAsync implements.  Settings are live:    *)
(* the HTTP API rewrites them between two checks.                          *)
(*                                                                         *)
(* A check reads `now - trigger_first_met' and whether trigger_first_met   *)
(* is 0, never the two times themselves: `first_met' is that difference,   *)
(* in the seconds of time(NULL), counted up to MaxAge.                     *)
(***************************************************************************)
EXTENDS Integers

CONSTANTS
  Configs,      \* the settings the operator may choose: Config records
  Readings,     \* the readings the UPS may give: Reading records
  ApiKinds,     \* dry_run arguments the API asks workflows for
  MaxAge,       \* ages saturate here, at or above every debounce delay
  MaxRequests,  \* bound on the workflows of one run of the daemon
  MaxDisturbances,  \* bound on the disturbances of the daemon
  ClockSteps,   \* seconds the wall clock may be stepped by
  ThreadsFail   \* may pthread_create fail

\* The value of a field that is not available (efficiency, mostly).
CONSTANT NaN

ASSUME TriggerAssumption ==
  /\ MaxAge \in Nat
  /\ MaxRequests \in Nat \ {0}
  /\ MaxDisturbances \in Nat
  /\ \A c \in Configs : c.delay \in Int /\ c.delay <= MaxAge
  /\ ClockSteps \subseteq Int
  /\ ThreadsFail \in BOOLEAN

VARIABLES
  cfg,        \* the settings in force
  data,       \* what the UPS reads now
  first_met,  \* seconds since trigger_first_met was set, or NotMet
  triggered,  \* 1 once the workflow was fired
  announced,  \* the last trigger event in the events table: "Armed", "Cleared"
  phase, id, dry, failed,  \* the manager, see ShutdownService
  \* history
  held,       \* seconds every check has found the condition met for, or NotMet
  real_ran,   \* a real workflow was executing at the firing, or has been since
  disturbances

serviceVars == <<phase, id, dry, failed>>
triggerVars == <<cfg, data, first_met, triggered, announced, serviceVars,
                 held, real_ran, disturbances>>

NotMet == -1
Ages   == NotMet..MaxAge

Mgr == INSTANCE ShutdownService WITH MaxWorkflows <- MaxRequests

-----------------------------------------------------------------------------
(* Trigger conditions *)

\* compare_field: an unknown operator and NaN compare false.
Compare(value, op, threshold) ==
  /\ value # NaN
  /\ \/ op = "lt" /\ value < threshold
     \/ op = "gt" /\ value > threshold
     \/ op = "eq" /\ value = threshold

\* get_ups_field: a name the driver does not know reads 0.
Field(d, name) == IF name \in DOMAIN d.fields THEN d.fields[name] ELSE 0

RuntimeLow(c, d) ==
  \/ c.runtime_sec > 0 /\ d.runtime_sec > 0 /\ d.runtime_sec <= c.runtime_sec
  \/ c.battery_pct > 0 /\ d.charge_pct <= c.battery_pct

FieldTripped(c, d) ==
  c.field # "" /\ Compare(Field(d, c.field), c.field_op, c.field_value)

\* The early return of the software mode: mains is back, or never went.
NotOnBattery(c, d) ==
  c.mode \notin {"manual", "ups"} /\ c.on_battery /\ ~d.on_battery

\* Any mode but "manual" and "ups" is the software mode.
ConditionMet(c, d) ==
  CASE c.mode = "manual" -> FALSE
    [] c.mode = "ups"    -> d.shutdown_imminent
    [] OTHER ->
         /\ ~NotOnBattery(c, d)
         /\ \/ c.source = "runtime" /\ RuntimeLow(c, d)
            \/ c.source = "field" /\ FieldTripped(c, d)

-----------------------------------------------------------------------------

TriggerInit ==
  /\ cfg \in Configs
  /\ data \in Readings
  /\ first_met = NotMet
  /\ triggered = FALSE
  /\ announced = "none"
  /\ Mgr!Init
  /\ held = NotMet
  /\ real_ran = FALSE
  /\ disturbances = 0

(* One check.  A check that finds `triggered' or the manual mode returns at
   once and changes nothing. *)

\* What the poll thread has observed, whatever it makes of it.
Observe ==
  held' = IF ConditionMet(cfg, data) THEN (IF held = NotMet THEN 0 ELSE held)
                                     ELSE NotMet

\* Faulty variants, each the wrong form of the definition that follows it.
AnyAge   == first_met # NotMet
ExactAge == first_met = cfg.delay
StartDry ==
  \/ Mgr!Accept /\ dry' = TRUE
  \/ phase \in {"accepted", "executing"} /\ UNCHANGED serviceVars

Disarm == first_met' = NotMet

\* Neither latched nor manual.
Evaluating == ~triggered /\ cfg.mode # "manual"

DebounceOver == first_met # NotMet /\ first_met >= cfg.delay

\* "Shutdown Trigger Cleared", if a trigger was armed.
Cleared == IF first_met # NotMet THEN "Cleared" ELSE announced

\* shutdown_start_async(mgr, 0, NULL): accepted, or -EALREADY because a
\* workflow, of either kind, is in flight.
StartReal ==
  \/ Mgr!Accept /\ dry' = FALSE
  \/ phase \in {"accepted", "executing"} /\ UNCHANGED serviceVars

\* Latched, or manual.
CheckIdle ==
  /\ ~Evaluating
  /\ Observe
  /\ UNCHANGED <<cfg, data, first_met, triggered, announced, serviceVars,
                 real_ran, disturbances>>

\* Software mode on mains: disarmed without an event.
CheckOnMains ==
  /\ Evaluating /\ NotOnBattery(cfg, data)
  /\ Disarm
  /\ Observe
  /\ UNCHANGED <<cfg, data, triggered, announced, serviceVars,
                 real_ran, disturbances>>

CheckNotMet ==
  /\ Evaluating /\ ~NotOnBattery(cfg, data)
  /\ ~ConditionMet(cfg, data)
  /\ announced' = Cleared
  /\ Disarm
  /\ Observe
  /\ UNCHANGED <<cfg, data, triggered, serviceVars, real_ran, disturbances>>

CheckArms ==
  /\ Evaluating /\ ConditionMet(cfg, data)
  /\ first_met = NotMet
  /\ first_met' = 0
  /\ announced' = "Armed"
  /\ Observe
  /\ UNCHANGED <<cfg, data, triggered, serviceVars, real_ran, disturbances>>

CheckDebounces ==
  /\ Evaluating /\ ConditionMet(cfg, data)
  /\ first_met # NotMet /\ ~DebounceOver
  /\ Observe
  /\ UNCHANGED <<cfg, data, first_met, triggered, announced, serviceVars,
                 real_ran, disturbances>>

\* The latch is set whatever shutdown_start_async then answers.
CheckFires ==
  /\ Evaluating /\ ConditionMet(cfg, data)
  /\ DebounceOver
  /\ triggered' = TRUE
  /\ StartReal
  /\ real_ran' = (phase = "executing" /\ ~dry)
  /\ Observe
  /\ UNCHANGED <<cfg, data, first_met, announced, disturbances>>

Check ==
  \/ CheckIdle \/ CheckOnMains \/ CheckNotMet
  \/ CheckArms \/ CheckDebounces \/ CheckFires

-----------------------------------------------------------------------------
(* The rest of the system *)

UpsChanges ==
  /\ data' \in Readings
  /\ UNCHANGED <<cfg, first_met, triggered, announced, serviceVars,
                 held, real_ran, disturbances>>

\* POST /api/shutdown/settings: any of the keys, in one transaction.
SetConfig ==
  /\ cfg' \in Configs
  /\ UNCHANGED <<data, first_met, triggered, announced, serviceVars,
                 held, real_ran, disturbances>>

Cap(n) == IF n > MaxAge THEN MaxAge ELSE n
Grow(age, n) == IF age = NotMet THEN NotMet ELSE Cap(age + n)

\* A second passes.
Tick ==
  /\ first_met' = Grow(first_met, 1)
  /\ held' = Grow(held, 1)
  /\ <<first_met, held>>' # <<first_met, held>>
  /\ UNCHANGED <<cfg, data, triggered, announced, serviceVars,
                 real_ran, disturbances>>

\* time(NULL) is the wall clock: setting it moves the debounce, not the held
\* time.  Steps that would take an armed age below 0 are left out.
StepClock(s) ==
  /\ disturbances < MaxDisturbances
  /\ disturbances' = disturbances + 1
  /\ first_met # NotMet /\ first_met + s >= 0
  /\ first_met' = Cap(first_met + s)
  /\ UNCHANGED <<cfg, data, triggered, announced, serviceVars, held, real_ran>>

\* The API asks for a workflow: refused while one is in flight.  The bound
\* leaves one workflow to the trigger.
ApiStarts(kind) ==
  /\ id < MaxRequests - 1
  /\ Mgr!Accept /\ dry' = kind
  /\ UNCHANGED <<cfg, data, first_met, triggered, announced, held, real_ran,
                 disturbances>>

WorkerLaunches ==
  /\ Mgr!Launch
  /\ real_ran' = (real_ran \/ (triggered /\ ~dry))
  /\ UNCHANGED <<cfg, data, first_met, triggered, announced, held,
                 disturbances>>

WorkerStepFails ==
  /\ Mgr!StepFails
  /\ UNCHANGED <<cfg, data, first_met, triggered, announced, held, real_ran,
                 disturbances>>

WorkerDropped ==
  /\ ThreadsFail /\ Mgr!Drop
  /\ UNCHANGED <<cfg, data, first_met, triggered, announced, held, real_ran,
                 disturbances>>

WorkerCompletes ==
  /\ Mgr!Complete
  /\ UNCHANGED <<cfg, data, first_met, triggered, announced, held, real_ran,
                 disturbances>>

\* The daemon dies and systemd restarts it: settings are in the database, the
\* trigger and the manager in memory only.  `announced' is of this run.
Restart ==
  /\ disturbances < MaxDisturbances
  /\ disturbances' = disturbances + 1
  /\ first_met' = NotMet
  /\ triggered' = FALSE
  /\ announced' = "none"
  /\ phase' = "idle" /\ id' = 0 /\ dry' = FALSE /\ failed' = FALSE
  /\ real_ran' = FALSE
  /\ UNCHANGED <<cfg, data, held>>

TriggerNext ==
  \/ Check
  \/ UpsChanges \/ SetConfig
  \/ Tick \/ \E s \in ClockSteps : StepClock(s)
  \/ \E kind \in ApiKinds : ApiStarts(kind)
  \/ WorkerLaunches \/ WorkerStepFails \/ WorkerDropped \/ WorkerCompletes
  \/ Restart

\* The poll thread keeps polling a UPS that answers, time passes, and the
\* manager serves what it accepted (ShutdownService).
TriggerFairness ==
  /\ WF_triggerVars(Check)
  /\ WF_triggerVars(Tick)
  /\ WF_triggerVars(WorkerLaunches)
  /\ WF_triggerVars(WorkerCompletes)

TriggerSafeSpec == TriggerInit /\ [][TriggerNext]_triggerVars
TriggerSpec == TriggerSafeSpec /\ TriggerFairness

-----------------------------------------------------------------------------
(* Properties *)

TriggerTypeOK ==
  /\ cfg \in Configs
  /\ data \in Readings
  /\ first_met \in Ages
  /\ triggered \in BOOLEAN
  /\ announced \in {"none", "Armed", "Cleared"}
  /\ phase \in Mgr!Phases /\ id \in 0..MaxRequests
  /\ dry \in BOOLEAN /\ failed \in BOOLEAN
  /\ held \in Ages
  /\ real_ran \in BOOLEAN
  /\ disturbances \in 0..MaxDisturbances

\* "If conditions are met for the configured debounce period, executes the
\* shutdown workflow" (shutdown.h:99-103): the site is never shut down on a
\* condition that any check of the last trigger_delay_sec seconds found
\* cleared, whatever was reconfigured, restarted or stepped meanwhile.
TriggerDebounced ==
  [][~triggered /\ triggered' =>
       ConditionMet(cfg, data) /\ held # NotMet /\ held >= cfg.delay]_triggerVars

\* What makes it inductive: the trigger was not armed before the condition
\* began to hold.
ArmedSinceHeld ==
  ~triggered /\ first_met # NotMet => held # NotMet /\ first_met <= held

\* A condition that lasts fires, as long as the settings stay what they are
\* and the UPS answers: no debounce starts over for ever.
LastingConditionFires ==
  <>[](cfg.mode # "manual" /\ ConditionMet(cfg, data)) => []<>triggered

\* A firing that latched the trigger is followed by a real workflow
\* (shutdown.h:99-103), unless the daemon restarts first or no thread can be
\* had for it: the latch is never left set over a workflow nobody asked for.
FiringShutsDown == triggered ~> (real_ran \/ ~triggered \/ phase = "idle")
==============================================================================
