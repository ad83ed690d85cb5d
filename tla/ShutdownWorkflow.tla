-------------------------- MODULE ShutdownWorkflow ---------------------------
(***************************************************************************)
(* One shutdown workflow, shutdown_execute_ex in src/src/shutdown/         *)
(* shutdown.c: the worker walks the user's groups of targets (phase 1),    *)
(* acts on the UPS (phase 2) and powers the controller off (phase 3).  A   *)
(* target's action is a shell command; in a parallel group each target has *)
(* a forked child that waits for its shell, so children, shells and the    *)
(* worker run side by side.                                                *)
(*                                                                         *)
(* Time is not counted: a ceiling, where a group has one, may pass at any  *)
(* moment, and a delay only separates two steps.                           *)
(***************************************************************************)
EXTENDS Naturals, Sequences, FiniteSets

CONSTANTS
  Plans,        \* sequences of groups the workflow may find in the database
  Settings,     \* UPS modes and controller flags the settings may hold
  Docker,       \* is this a docker build
  FaultSets     \* what may fail in a run: sets of "alloc", "db", "fork"

ASSUME WorkflowAssumption ==
  /\ \A p \in Plans :
       p \in Seq([methods : Seq(STRING), parallel : BOOLEAN, ceiling : BOOLEAN])
  /\ Docker \in BOOLEAN
  /\ FaultSets \subseteq SUBSET {"alloc", "db", "fork"}

VARIABLES
  faults,       \* what may fail in this run
  dry_run, plan,
  pc, g, t,     \* where the worker is: stage, group, target
  total,        \* phase1_total
  late,         \* has the running sequential group passed its ceiling
  proc,         \* execute_target of each step, in the worker or in a child
  exit,         \* how it ended: 0 ok, 1 failed
  shell,        \* the command of its action
  outcome,      \* the worker's outcome[] of a parallel group
  termed,       \* children at work when SIGTERM was sent to them
  keys,         \* steps whose ssh key file is in /dev/shm
  rows,         \* the result accumulator
  events,       \* titles in the events table, with their severities
  ups_sent, poweroff   \* what phases 2 and 3 did to the outside world

fixed    == <<faults, dry_run, plan>>
control  == <<fixed, pc, g, t, total, late>>
children == <<proc, exit, shell, outcome, termed, keys>>
reports  == <<rows, events>>
outside  == <<ups_sent, poweroff>>
vars     == <<control, children, reports, outside>>

\* The rows' phase and target: "phase1" "<group>/<target>", "phase2" "ups",
\* "phase3" "controller".
Target(i, j) == <<1, i, j>>
Ups          == <<2, 1, 1>>
Controller   == <<3, 1, 1>>

Size(i)  == Len(plan[i].methods)
TargetsOf(i) == {Target(i, j) : j \in 1..Size(i)}
Targets  == UNION {TargetsOf(i) : i \in DOMAIN plan}
Method(k) == plan[k[2]].methods[k[3]]

Current == Target(g, t)

\* The targets of all plans, for quantifiers outside of actions.
AllTargets ==
  UNION {UNION {{Target(i, j) : j \in 1..Len(p[i].methods)} : i \in DOMAIN p} :
           p \in Plans}

Failed  == Cardinality({i \in DOMAIN rows : rows[i].ok = 1})

-----------------------------------------------------------------------------
(* Faulty variants, each the wrong form of the definition it names. *)

BadReal       == TRUE                 \* Real
NoReap(k)     == TRUE                 \* Reapable
OnlyOk(k)     == proc[k] = "ended" /\ exit[k] = 0  \* Reapable
AlwaysOk(k)   == 0                    \* ExitCode
RawExit(k)    == IF shell[k] = "ok" THEN 0 ELSE 255  \* ExitCode
KeepKey(k)    == keys                 \* KeysWithout
NeverHalted   == FALSE                \* Halted

Real == ~dry_run

\* waitpid returns the child once it has ended.
Reapable(k) == proc[k] = "ended"

\* _exit(rc == 0 ? 0 : 1); in a sequential group, rc itself.
ExitCode(k) == IF shell[k] = "ok" THEN 0 ELSE 1

\* "%zu of %zu targets succeeded": phase1_total - phase1_failed.
Succeeded(n) == n - Failed

\* unlink(key_path)
KeysWithout(k) == keys \ {k}

\* result_append: an allocation failure drops the row.
AppendRow(step, ok) ==
  \/ rows' = Append(rows, [step |-> step, ok |-> ok])
  \/ "alloc" \in faults /\ UNCHANGED rows

\* emit_event
Event(title, sev) == [title |-> title, sev |-> sev]
Emit(title, sev)  == events' = Append(events, Event(title, sev))
Silent            == UNCHANGED events

Goto(stage) == pc' = stage

-----------------------------------------------------------------------------

Init ==
  /\ faults \in FaultSets
  /\ dry_run \in BOOLEAN
  /\ plan \in Plans
  /\ pc = "start" /\ g = 0 /\ t = 1 /\ total = 0 /\ late = FALSE
  /\ proc = [k \in Targets |-> "none"]
  /\ exit = [k \in Targets |-> 0]
  /\ shell = [k \in Targets |-> "none"]
  /\ outcome = [k \in Targets |-> 0]
  /\ termed = {}
  /\ keys = {}
  /\ rows = <<>>
  /\ events = <<>>
  /\ ups_sent = FALSE /\ poweroff = FALSE

\* The started event, and the query for the groups.
Begin ==
  /\ pc = "start"
  /\ Emit("Started", IF dry_run THEN "warning" ELSE "critical")
  /\ Goto("groups") \/ ("db" \in faults /\ Goto("ups"))
  /\ UNCHANGED <<fixed, g, t, total, late, children, rows, outside>>

-----------------------------------------------------------------------------
(* Phase 1: the groups, one after the other *)

\* The next group, by execution_order.  An empty group is skipped, and so is
\* one whose targets cannot be queried.
NextGroup ==
  /\ pc = "groups" /\ g < Len(plan)
  /\ g' = g + 1 /\ t' = 1 /\ late' = FALSE
  /\ \/ /\ Size(g + 1) = 0 \/ "db" \in faults
        /\ Goto("groups")
        /\ UNCHANGED total
     \/ /\ Size(g + 1) > 0
        /\ total' = total + Size(g + 1)
        /\ \/ ~Real /\ Goto("probe")
           \/ Real /\ ~plan[g + 1].parallel /\ Goto("sequence")
           \/ Real /\ plan[g + 1].parallel /\ Goto("fork")
           \/ /\ Real /\ plan[g + 1].parallel /\ "alloc" \in faults
              /\ Goto("groups")
  /\ UNCHANGED <<fixed, children, reports, outside>>

\* To the next target of the group, or out of the stage; LastDropped is the
\* faulty variant.
LastDropped(stage, after) ==
  IF t + 1 < Size(g) THEN t' = t + 1 /\ Goto(stage) ELSE t' = 1 /\ Goto(after)
Advance(stage, after) ==
  IF t < Size(g) THEN t' = t + 1 /\ Goto(stage) ELSE t' = 1 /\ Goto(after)

\* Dry run: the connectivity probe of one target passes or fails.
Probe ==
  /\ pc = "probe"
  /\ \E ok \in {0, 1} : AppendRow(Current, ok)
  /\ Advance("probe", "groups")
  /\ UNCHANGED <<fixed, g, total, late, children, events, outside>>

-----------------------------------------------------------------------------
(* execute_target and its shell command, wherever it runs *)

AtWork(k) == proc[k] \in {"start", "acting", "confirming"}

\* fire_target_action up to system().  An unknown method, or a key that
\* cannot be written, fails without a command; a key that was written stays
\* when there is no memory for its path.
Fires(k) ==
  /\ proc[k] = "start"
  /\ \/ /\ Method(k) \in {"command", "ssh_password", "ssh_key"}
        /\ keys' = IF Method(k) = "ssh_key" THEN keys \union {k} ELSE keys
        /\ shell' = [shell EXCEPT ![k] = "running"]
        /\ proc' = [proc EXCEPT ![k] = "acting"]
        /\ UNCHANGED exit
     \/ /\ Method(k) \in {"unknown", "ssh_key"}
        /\ proc' = [proc EXCEPT ![k] = "ended"]
        /\ exit' = [exit EXCEPT ![k] = 1]
        /\ \/ UNCHANGED keys
           \/ /\ Method(k) = "ssh_key" /\ "alloc" \in faults
              /\ keys' = keys \union {k}
        /\ UNCHANGED shell
  /\ UNCHANGED <<control, outcome, termed, reports, outside>>

\* The command ends, whoever waits for it.
ShellEnds(k) ==
  /\ shell[k] = "running"
  /\ \E end \in {"ok", "failed"} : shell' = [shell EXCEPT ![k] = end]
  /\ UNCHANGED <<control, proc, exit, outcome, termed, keys, reports, outside>>

\* system() returns: the key is removed; a failed action skips confirmation.
Acted(k) ==
  /\ proc[k] = "acting" /\ shell[k] # "running"
  /\ keys' = KeysWithout(k)
  /\ exit' = [exit EXCEPT ![k] = ExitCode(k)]
  /\ proc' =
       [proc EXCEPT ![k] = IF shell[k] = "ok" THEN "confirming" ELSE "ended"]
  /\ UNCHANGED <<control, shell, outcome, termed, reports, outside>>

\* The host is confirmed down, or confirmation times out: both end in success.
Confirmed(k) ==
  /\ proc[k] = "confirming"
  /\ proc' = [proc EXCEPT ![k] = "ended"]
  /\ UNCHANGED <<control, exit, shell, outcome, termed, keys, reports, outside>>

Execute(k) == Fires(k) \/ ShellEnds(k) \/ Acted(k) \/ Confirmed(k)

-----------------------------------------------------------------------------
(* execute_group_sequential *)

\* Once the group has passed its ceiling, what is left of it is skipped.
Skip ==
  /\ pc = "sequence"
  /\ plan[g].ceiling
  /\ late' = TRUE
  /\ AppendRow(Current, 2)
  /\ Advance("sequence", "groups")
  /\ UNCHANGED <<fixed, g, total, children, events, outside>>

\* The worker calls execute_target itself ...
Call ==
  /\ pc = "sequence" /\ ~late
  /\ proc' = [proc EXCEPT ![Current] = "start"]
  /\ Goto("called")
  /\ UNCHANGED <<fixed, g, t, total, late, exit, shell, outcome, termed, keys,
                 reports, outside>>

\* ... and appends its row when it returns.
Return ==
  /\ pc = "called" /\ proc[Current] = "ended"
  /\ proc' = [proc EXCEPT ![Current] = "reaped"]
  /\ AppendRow(Current, exit[Current])
  /\ Advance("sequence", "groups")
  /\ UNCHANGED <<fixed, g, total, late, exit, shell, outcome, termed, keys,
                 events, outside>>

-----------------------------------------------------------------------------
(* execute_group_parallel *)

\* fork(), whose -1 is stored like a pid.
Fork ==
  /\ pc = "fork"
  /\ \E child \in {"start", "unforked"} :
       /\ child = "unforked" => "fork" \in faults
       /\ proc' = [proc EXCEPT ![Current] = child]
  /\ Advance("fork", "forked")
  /\ UNCHANGED <<fixed, g, total, late, exit, shell, outcome, termed, keys,
                 reports, outside>>

\* The allocation of done[] and outcome[]; without them the children are
\* left to themselves and no row is appended.
Forked ==
  /\ pc = "forked"
  /\ Goto("wait") \/ ("alloc" \in faults /\ Goto("groups"))
  /\ UNCHANGED <<fixed, g, t, total, late, children, reports, outside>>

Unreaped == {k \in TargetsOf(g) : proc[k] \notin {"unforked", "reaped"}}

\* waitpid(WNOHANG) finds a child that has ended.
Reap(k) ==
  /\ pc = "wait" /\ k \in Unreaped /\ Reapable(k)
  /\ proc' = [proc EXCEPT ![k] = "reaped"]
  /\ outcome' = [outcome EXCEPT ![k] = exit[k]]
  /\ UNCHANGED <<control, exit, shell, termed, keys, reports, outside>>

AllDone ==
  /\ pc = "wait" /\ Unreaped = {}
  /\ Goto("rows")
  /\ UNCHANGED <<fixed, g, t, total, late, children, reports, outside>>

\* The group has passed its ceiling: SIGTERM to every child not yet reaped.
\* Children inherit the handler main installs (main.c:351-352), which only
\* clears a flag nothing reads there: each works on.
Ceiling ==
  /\ pc = "wait" /\ Unreaped # {}
  /\ plan[g].ceiling
  /\ termed' = termed \union {k \in Unreaped : AtWork(k)}
  /\ outcome' = [k \in Targets |-> IF k \in Unreaped THEN 2 ELSE outcome[k]]
  /\ Goto("reap")
  /\ UNCHANGED <<fixed, g, t, total, late, proc, exit, shell, keys,
                 reports, outside>>

\* waitpid without WNOHANG, child after child: the group waits for them all.
ReapAll ==
  /\ pc = "reap" /\ \A k \in Unreaped : Reapable(k)
  /\ proc' = [k \in Targets |-> IF k \in Unreaped THEN "reaped" ELSE proc[k]]
  /\ Goto("rows")
  /\ UNCHANGED <<fixed, g, t, total, late, exit, shell, outcome, termed, keys,
                 reports, outside>>

\* One row per target, in the targets' order.
GroupRow ==
  /\ pc = "rows"
  /\ AppendRow(Current, IF outcome[Current] = 0 THEN 0 ELSE 1)
  /\ Advance("rows", "groups")
  /\ UNCHANGED <<fixed, g, total, late, children, events, outside>>

-----------------------------------------------------------------------------
(* The summary of phase 1, and phases 2 and 3 *)

\* An event only if there were targets.
Summary ==
  /\ pc = "groups" /\ g = Len(plan)
  /\ IF total > 0
     THEN events' = Append(events,
            [title |-> "Phase1", sev |-> IF Failed > 0 THEN "error" ELSE "info",
             ok |-> Succeeded(total)])
     ELSE Silent
  /\ Goto("ups")
  /\ UNCHANGED <<fixed, g, t, total, late, children, rows, outside>>

\* What the UPS action may come to: the row's ok, and whether a command or a
\* register write went out.  A real one that is not sent has failed.
UpsResult(mode, ok, sent) ==
  \/ mode = "none" /\ ok = 2 /\ ~sent
  \/ /\ mode \in {"command", "register"} /\ ok \in {0, 1}
     /\ sent => Real
     /\ Real /\ ~sent => ok = 1
  \/ mode \notin {"none", "command", "register"} /\ ok = 1 /\ ~sent

UpsAction ==
  /\ pc = "ups"
  /\ \E s \in Settings, ok \in 0..2, sent \in BOOLEAN :
       /\ UpsResult(s.ups_mode, ok, sent)
       /\ AppendRow(Ups, ok)
       /\ ups_sent' = sent
       /\ Emit("UPS Action", IF Failed' > Failed THEN "error" ELSE "info")
  /\ Goto("controller")
  /\ UNCHANGED <<fixed, g, t, total, late, children, poweroff>>

\* A docker build, or a controller that is not to be powered off.
ControllerSkipped ==
  /\ pc = "controller"
  /\ Docker \/ \E s \in Settings : ~s.controller_enabled
  /\ AppendRow(Controller, 2)
  /\ Goto("terminal")
  /\ UNCHANGED <<fixed, g, t, total, late, children, events, outside>>

ControllerProbe ==
  /\ pc = "controller" /\ ~Docker /\ \E s \in Settings : s.controller_enabled
  /\ ~Real
  /\ \E ok \in {0, 1} : AppendRow(Controller, ok)
  /\ Goto("terminal")
  /\ UNCHANGED <<fixed, g, t, total, late, children, events, outside>>

\* The last event that is sure to land is written before the poweroff.
PoweroffAnnounced ==
  /\ pc = "controller" /\ ~Docker /\ \E s \in Settings : s.controller_enabled
  /\ Real
  /\ Emit("Controller Poweroff Initiated", "critical")
  /\ Goto("poweroff")
  /\ UNCHANGED <<fixed, g, t, total, late, children, rows, outside>>

PoweroffRefused ==
  /\ pc = "poweroff"
  /\ AppendRow(Controller, 1)
  /\ Emit("Controller Poweroff Failed", "error")
  /\ Goto("terminal")
  /\ UNCHANGED <<fixed, g, t, total, late, children, outside>>

PoweroffAccepted ==
  /\ pc = "poweroff"
  /\ AppendRow(Controller, 0)
  /\ poweroff' = TRUE
  /\ Goto("done")
  /\ UNCHANGED <<fixed, g, t, total, late, children, events, ups_sent>>

Halted ==
  \E i \in DOMAIN events : events[i].title = "Controller Poweroff Failed"

Terminal ==
  /\ pc = "terminal"
  /\ Emit(IF dry_run THEN "Dry Run Complete"
          ELSE IF Halted THEN "Shutdown Workflow Halted"
          ELSE "Shutdown Workflow Complete",
          IF Failed > 0 \/ Halted THEN "error" ELSE "info")
  /\ Goto("done")
  /\ UNCHANGED <<fixed, g, t, total, late, children, rows, outside>>

\* systemd stops the daemon it is powering off.
Stopped ==
  /\ pc = "done" /\ poweroff
  /\ Goto("stopped")
  /\ UNCHANGED <<fixed, g, t, total, late, children, reports, outside>>

Ended == pc \in {"done", "stopped"} /\ UNCHANGED vars

Phase1 ==
  \/ NextGroup \/ Probe
  \/ Skip \/ Call \/ Return
  \/ Fork \/ Forked \/ AllDone \/ Ceiling \/ ReapAll \/ GroupRow
  \/ \E k \in Targets : Reap(k)

Phases23 ==
  \/ Summary \/ UpsAction
  \/ ControllerSkipped \/ ControllerProbe
  \/ PoweroffAnnounced \/ PoweroffRefused \/ PoweroffAccepted
  \/ Terminal \/ Stopped

Next ==
  \/ Begin \/ Phase1 \/ Phases23
  \/ \E k \in Targets : Execute(k)
  \/ Ended

\* Threads and processes run, and a command, once started, ends: nothing in
\* the code bounds it, ssh's ConnectTimeout apart.
Fairness ==
  /\ WF_vars(Begin \/ Phase1 \/ Phases23)
  /\ \A k \in AllTargets : WF_vars(k \in Targets /\ Execute(k))

SafeSpec == Init /\ [][Next]_vars
Spec == SafeSpec /\ Fairness

-----------------------------------------------------------------------------
(* Properties *)

Stages == {"start", "groups", "probe", "sequence", "called", "fork", "forked",
           "wait", "reap", "rows", "ups", "controller", "poweroff", "terminal",
           "done", "stopped"}

TypeOK ==
  /\ faults \in FaultSets /\ dry_run \in BOOLEAN /\ plan \in Plans
  /\ pc \in Stages
  /\ g \in 0..Len(plan) /\ late \in BOOLEAN
  /\ pc \in {"probe", "sequence", "called", "fork", "rows"} =>
       Current \in Targets
  /\ proc \in [Targets -> {"none", "unforked", "start", "acting", "confirming",
                           "ended", "reaped"}]
  /\ exit \in [Targets -> {0, 1}]
  /\ shell \in [Targets -> {"none", "running", "ok", "failed"}]
  /\ outcome \in [Targets -> 0..2]
  /\ termed \subseteq Targets /\ keys \subseteq Targets
  /\ \A i \in DOMAIN rows : rows[i].ok \in 0..2
  /\ ups_sent \in BOOLEAN /\ poweroff \in BOOLEAN

Over == pc \in {"done", "stopped"}

\* "If dry_run is non-zero, logs what would happen without executing"
\* (shutdown.h:78): no host, no UPS and no controller is touched, whatever
\* fails on the way.
DryRunTouchesNothing ==
  dry_run => /\ \A k \in Targets : proc[k] = "none" /\ shell[k] = "none"
             /\ ~ups_sent /\ ~poweroff

\* "Groups execute sequentially", the UPS and the controller being the "final
\* implicit group" (migrations/004_shutdown.sql:3-5): while a target's action
\* or its confirmation is under way, the worker is still in that target's
\* group; nothing depends on a host that another host is still using.  (Without
\* memory for its bookkeeping a parallel group is left behind: Forked.)
GroupBarrier ==
  "alloc" \notin faults =>
  \A k \in Targets : AtWork(k) \/ shell[k] = "running" =>
    /\ k[2] = g
    /\ pc \in {"fork", "forked", "wait", "reap", "called"}
    /\ pc = "called" => k = Current

\* The report lists the steps in the plan's order, none twice, and, when
\* nothing of the daemon's own failed, each of them: a UPS row stands after a
\* row for every host.
Before(a, b) ==
  \/ a[1] < b[1]
  \/ a[1] = b[1] /\ a[2] < b[2]
  \/ a[1] = b[1] /\ a[2] = b[2] /\ a[3] < b[3]
RowsFollowPlan ==
  /\ \A i, j \in DOMAIN rows : i < j => Before(rows[i].step, rows[j].step)
  /\ Over /\ faults \intersect {"alloc", "db"} = {} =>
       {rows[i].step : i \in DOMAIN rows} = Targets \union {Ups, Controller}

\* A target reported ok (shutdown.h:44) is one whose action succeeded ...
OkRowsEarned ==
  \A i \in DOMAIN rows :
    Real /\ rows[i].ok = 0 /\ rows[i].step[1] = 1 => shell[rows[i].step] = "ok"

\* ... as long as every target of a parallel group got its child.
OkRowHonest == "fork" \notin faults => OkRowsEarned

\* The operator reading the events table learns how the workflow ended: the
\* last event is the poweroff handed to systemd, when it was accepted, or one
\* terminal event that tells a dry run, a refused poweroff and a completed
\* workflow apart (shutdown.c:847-857, 921-924).
Terminals == {"Dry Run Complete", "Shutdown Workflow Halted",
              "Shutdown Workflow Complete"}
EventStory ==
  Over =>
    LET last == events[Len(events)].title
        refused == \E i \in DOMAIN events :
                      events[i].title = "Controller Poweroff Failed"
    IN
    /\ poweroff => last = "Controller Poweroff Initiated"
    /\ ~poweroff =>
         last = CASE dry_run -> "Dry Run Complete"
                  [] refused -> "Shutdown Workflow Halted"
                  [] OTHER   -> "Shutdown Workflow Complete"
    /\ \A i \in 1..(Len(events) - 1) : events[i].title \notin Terminals

\* "The key never touches non-volatile storage", and its file is unlinked by
\* the caller (shutdown.c:270-273): no key is left behind, unless memory is
\* short: then a group may be left, or the path of a key (shutdown.c:302).
KeysRemoved == Over /\ "alloc" \notin faults => keys = {}

\* "Kills stragglers with SIGTERM if the group ceiling is reached"
\* (shutdown.c:422): a child that was at work then does not work on to its end.
StragglersKilled == \A k \in termed : proc[k] # "ended"

\* Every workflow ends: the worker waits for no child that cannot be reaped.
WorkflowEnds == <>Over
==============================================================================
