----------------------- MODULE ShutdownWorkflowProofs ------------------------
(***************************************************************************)
(* Proofs about ShutdownWorkflow, for every plan, every setting and        *)
(* whatever fails: a dry run touches nothing, groups do not overlap, and   *)
(* the rows and the events tell what happened.                             *)
(***************************************************************************)
EXTENDS ShutdownWorkflow, Integers, FiniteSetTheorems, TLAPS

(* The stages in which the worker acts on the outside world, or has set a
   child to do so. *)
RealStages == {"sequence", "called", "fork", "forked", "wait", "reap", "rows",
               "poweroff"}

(* The worker of a dry run never enters one of them. *)
DryInv == dry_run => pc \notin RealStages

IInv == DryRunTouchesNothing /\ DryInv

LEMMA DryInit == Init => IInv
  BY DEF Init, IInv, DryRunTouchesNothing, DryInv, RealStages

(* Neither the kind of the workflow nor its plan changes on the way. *)
LEMMA PlanFixed ==
  ASSUME [Next]_vars
  PROVE  dry_run' = dry_run /\ Targets' = Targets
<1>1. dry_run' = dry_run /\ plan' = plan
  BY DEF Next, Phase1, Phases23, Begin, NextGroup, Probe, Skip, Call, Return,
         Fork, Forked, Reap, AllDone, Ceiling, ReapAll, GroupRow, Summary,
         UpsAction, ControllerSkipped, ControllerProbe, PoweroffAnnounced,
         PoweroffRefused, PoweroffAccepted, Terminal, Stopped, Ended, Execute,
         Fires, ShellEnds, Acted, Confirmed, control, fixed, vars
<1>2. QED
  BY <1>1 DEF Targets, TargetsOf, Target, Size

LEMMA DryStep ==
  ASSUME IInv, [Next]_vars
  PROVE  IInv'
<1> SUFFICES ASSUME dry_run
             PROVE  /\ pc' \notin RealStages
                    /\ \A k \in Targets : proc'[k] = "none" /\ shell'[k] = "none"
                    /\ ~ups_sent' /\ ~poweroff'
  BY PlanFixed DEF IInv, DryRunTouchesNothing, DryInv
<1>a. /\ pc \notin RealStages
      /\ \A k \in Targets : proc[k] = "none" /\ shell[k] = "none"
      /\ ~ups_sent /\ ~poweroff
  BY DEF IInv, DryRunTouchesNothing, DryInv
<1>b. ASSUME UNCHANGED <<children, outside>>
      PROVE  /\ \A k \in Targets : proc'[k] = "none" /\ shell'[k] = "none"
             /\ ~ups_sent' /\ ~poweroff'
  BY <1>a, <1>b DEF children, outside
<1>1. CASE Begin
  BY <1>1, <1>b DEF Begin, Goto, RealStages
<1>2. CASE NextGroup
  <2>1. pc' \in {"groups", "probe"}
    BY <1>2 DEF NextGroup, Goto, Real
  <2>2. UNCHANGED <<children, outside>>
    BY <1>2 DEF NextGroup
  <2>3. QED
    BY <2>1, <2>2, <1>b DEF RealStages
<1>3. CASE Probe
  <2>1. pc' \in {"groups", "probe"}
    BY <1>3 DEF Probe, Advance, Goto
  <2>2. UNCHANGED <<children, outside>>
    BY <1>3 DEF Probe
  <2>3. QED
    BY <2>1, <2>2, <1>b DEF RealStages
<1>4. CASE \/ Skip \/ Call \/ Return \/ Fork \/ Forked \/ AllDone \/ Ceiling
           \/ ReapAll \/ GroupRow \/ PoweroffRefused \/ PoweroffAccepted
           \/ PoweroffAnnounced \/ \E k \in Targets : Reap(k)
  BY <1>4, <1>a DEF Skip, Call, Return, Fork, Forked, AllDone, Ceiling, ReapAll,
                    GroupRow, PoweroffRefused, PoweroffAccepted,
                    PoweroffAnnounced, Reap, RealStages, Real
<1>5. CASE Summary
  BY <1>5, <1>b DEF Summary, Goto, RealStages
<1>6. CASE UpsAction
  <2>1. PICK s \in Settings, ok \in 0..2, sent \in BOOLEAN :
          UpsResult(s.ups_mode, ok, sent) /\ ups_sent' = sent
    BY <1>6 DEF UpsAction
  <2>2. ~ups_sent'
    BY <2>1 DEF UpsResult, Real
  <2>3. UNCHANGED <<children, poweroff>> /\ pc' = "controller"
    BY <1>6 DEF UpsAction, Goto
  <2>4. QED
    BY <1>a, <2>2, <2>3 DEF children, RealStages
<1>7. CASE ControllerSkipped \/ ControllerProbe \/ Terminal
  BY <1>7, <1>b DEF ControllerSkipped, ControllerProbe, Terminal, Goto, RealStages
<1>8. CASE Stopped
  BY <1>8, <1>a DEF Stopped
<1>9. ASSUME NEW k \in Targets, Execute(k)
      PROVE  FALSE
  BY <1>9, <1>a DEF Execute, Fires, ShellEnds, Acted, Confirmed
<1>10. CASE Ended \/ UNCHANGED vars
  <2>1. UNCHANGED <<pc, children, outside>>
    BY <1>10 DEF Ended, vars, control, fixed
  <2>2. QED
    BY <1>a, <1>b, <2>1
<1>11. QED
  BY <1>1, <1>2, <1>3, <1>4, <1>5, <1>6, <1>7, <1>8, <1>9, <1>10
     DEF Next, Phase1, Phases23

(* A dry run leaves every host, the UPS and the controller alone
   (shutdown.h:78). *)
THEOREM DryRunAlwaysTouchesNothing == SafeSpec => []DryRunTouchesNothing
<1>1. SafeSpec => []IInv
  BY DryInit, DryStep, PTL DEF SafeSpec
<1>2. QED
  BY <1>1, PTL DEF IInv

-----------------------------------------------------------------------------
(* Types *)

\* The worker is at a target of the group, or waits for the whole group.
AtTarget == {"probe", "sequence", "called", "fork", "rows"}
InGroup  == AtTarget \union {"forked", "wait", "reap"}

\* What is reported: the rows' steps, and the events, the summary's with its
\* count.
Steps    == Targets \union {Ups, Controller}
Row      == [step : Steps, ok : 0..2]
Titles     == {"Started", "Phase1", "UPS Action", "Controller Poweroff Initiated",
               "Controller Poweroff Failed", "Dry Run Complete",
               "Shutdown Workflow Halted", "Shutdown Workflow Complete"}
Severities == {"info", "warning", "error", "critical"}
Reported   == [title : Titles, sev : Severities]
                \union [title : Titles, sev : Severities, ok : Int]

ControlType ==
  /\ faults \in FaultSets /\ dry_run \in BOOLEAN /\ plan \in Plans
  /\ pc \in Stages
  /\ g \in 0..Len(plan) /\ late \in BOOLEAN
  /\ t \in Nat \ {0} /\ total \in Nat
  /\ pc \in InGroup => g > 0
  /\ pc \in AtTarget => t <= Size(g)
  /\ pc \in {"forked", "wait", "reap"} => t = 1 /\ Size(g) > 0
ActionType ==
  /\ proc \in [Targets -> {"none", "unforked", "start", "acting", "confirming",
                           "ended", "reaped"}]
  /\ exit \in [Targets -> {0, 1}]
  /\ shell \in [Targets -> {"none", "running", "ok", "failed"}]
  /\ outcome \in [Targets -> 0..2]
  /\ termed \subseteq Targets /\ keys \subseteq Targets
ReportType ==
  /\ rows \in Seq(Row)
  /\ events \in Seq(Reported)
  /\ ups_sent \in BOOLEAN /\ poweroff \in BOOLEAN

TypeInv == ControlType /\ ActionType /\ ReportType

\* A plan is a sequence of groups, each with a sequence of methods.
LEMMA PlanShape ==
  ASSUME plan \in Plans
  PROVE  /\ Len(plan) \in Nat /\ DOMAIN plan = 1..Len(plan)
         /\ \A i \in DOMAIN plan :
              /\ Size(i) \in Nat
              /\ plan[i].parallel \in BOOLEAN /\ plan[i].ceiling \in BOOLEAN
<1> DEFINE Group == [methods : Seq(STRING), parallel : BOOLEAN, ceiling : BOOLEAN]
<1>1. plan \in Seq(Group)
  BY WorkflowAssumption DEF WorkflowAssumption
<1>2. Len(plan) \in Nat /\ DOMAIN plan = 1..Len(plan)
  BY <1>1
<1>3. ASSUME NEW i \in DOMAIN plan
      PROVE  plan[i] \in Group
  <2> HIDE DEF Group
  <2> QED
    BY <1>1, <1>2
<1>4. ASSUME NEW i \in DOMAIN plan
      PROVE  Size(i) \in Nat
  <2>1. plan[i].methods \in Seq(STRING)
    BY <1>3
  <2> QED
    BY <2>1 DEF Size
<1>5. ASSUME NEW i \in DOMAIN plan
      PROVE  plan[i].parallel \in BOOLEAN /\ plan[i].ceiling \in BOOLEAN
  BY <1>3
<1> QED
  BY <1>2, <1>4, <1>5

\* The targets are the places of the plan.
LEMMA TargetShape ==
  ASSUME plan \in Plans
  PROVE  /\ \A k \in Targets :
              /\ k = <<1, k[2], k[3]>>
              /\ k[2] \in 1..Len(plan) /\ k[3] \in 1..Size(k[2])
              /\ k \in TargetsOf(k[2])
         /\ \A i \in 1..Len(plan) : \A j \in 1..Size(i) : <<1, i, j>> \in Targets
         /\ \A i \in 1..Len(plan) :
              \A k \in TargetsOf(i) : k \in Targets /\ k[2] = i
BY PlanShape DEF Targets, TargetsOf, Target

\* Fixed is what no step changes, and what is computed from it.
LEMMA Fixed ==
  ASSUME [Next]_vars
  PROVE  /\ UNCHANGED fixed
         /\ Targets' = Targets /\ Steps' = Steps /\ Row' = Row
         /\ \A i : Size(i)' = Size(i) /\ TargetsOf(i)' = TargetsOf(i)
         /\ \A k : Method(k)' = Method(k)
<1>1. UNCHANGED fixed
  BY DEF Next, Phase1, Phases23, Begin, NextGroup, Probe, Skip, Call, Return,
         Fork, Forked, Reap, AllDone, Ceiling, ReapAll, GroupRow, Summary,
         UpsAction, ControllerSkipped, ControllerProbe, PoweroffAnnounced,
         PoweroffRefused, PoweroffAccepted, Terminal, Stopped, Ended, Execute,
         Fires, ShellEnds, Acted, Confirmed, control, fixed, vars
<1>2. plan' = plan
  BY <1>1 DEF fixed
<1> QED
  BY <1>1, <1>2
     DEF Targets, TargetsOf, Target, Size, Method, Steps, Row, Ups, Controller

\* The rows' failures are counted by a natural number.
LEMMA FailedType ==
  ASSUME rows \in Seq(Row) PROVE Failed \in Nat
<1> HIDE DEF Row
<1>1. DOMAIN rows = 1..Len(rows) /\ Len(rows) \in Nat
  OBVIOUS
<1>2. IsFiniteSet(1..Len(rows))
  BY <1>1, FS_Interval
<1>3. IsFiniteSet({i \in DOMAIN rows : rows[i].ok = 1})
  BY <1>1, <1>2, FS_Subset
<1> QED
  BY <1>3, FS_CardinalityType DEF Failed

LEMMA TypeInit == Init => TypeInv
<1> SUFFICES ASSUME Init PROVE TypeInv
  OBVIOUS
<1>1. ControlType
  <2>1. faults \in FaultSets /\ dry_run \in BOOLEAN /\ plan \in Plans
    BY DEF Init
  <2>2. pc = "start" /\ g = 0 /\ t = 1 /\ total = 0 /\ late = FALSE
    BY DEF Init
  <2>3. g \in 0..Len(plan) /\ t \in Nat \ {0} /\ total \in Nat
    BY <2>1, <2>2, PlanShape
  <2>4. late \in BOOLEAN
    BY <2>2
  <2> QED
    BY <2>1, <2>2, <2>3, <2>4 DEF ControlType, Stages, InGroup, AtTarget
<1>2. ActionType
  BY DEF Init, ActionType
<1>3. ReportType
  <2> HIDE DEF Row, Reported
  <2>1. rows \in Seq(Row) /\ events \in Seq(Reported)
    BY DEF Init
  <2>2. ups_sent \in BOOLEAN /\ poweroff \in BOOLEAN
    BY DEF Init
  <2> QED
    BY <2>1, <2>2 DEF ReportType
<1> QED
  BY <1>1, <1>2, <1>3 DEF TypeInv

LEMMA ControlStep ==
  ASSUME TypeInv, [Next]_vars PROVE ControlType'
<1>1. ControlType /\ plan \in Plans
  BY DEF TypeInv, ControlType
<1>2. UNCHANGED fixed /\ \A i : Size(i)' = Size(i)
  BY Fixed
<1> USE <1>1, <1>2, PlanShape
    DEF ControlType, Stages, InGroup, AtTarget, fixed, Goto, Advance
<1>3. CASE Begin
  BY <1>3 DEF Begin
<1>4. CASE NextGroup
  <2>1. /\ g' = g + 1 /\ g < Len(plan) /\ t' = 1 /\ late' = FALSE
        /\ g + 1 \in DOMAIN plan
    BY <1>4 DEF NextGroup
  <2>2. \/ pc' = "groups" /\ total' \in {total, total + Size(g + 1)}
        \/ /\ pc' \in {"groups", "probe", "sequence", "fork"} /\ Size(g + 1) > 0
           /\ total' = total + Size(g + 1)
    BY <1>4 DEF NextGroup
  <2>3. late' \in BOOLEAN /\ dry_run' \in BOOLEAN
    BY <2>1
  <2>4. g' \in 0..Len(plan') /\ t' \in Nat \ {0} /\ total' \in Nat
    BY <2>1, <2>2
  <2>5. Size(g') = Size(g + 1)
    BY <2>1
  <2> QED
    BY <2>1, <2>2, <2>3, <2>4, <2>5
<1>5. CASE Probe
  BY <1>5 DEF Probe
<1>6. CASE Skip
  BY <1>6 DEF Skip
<1>14. CASE Call \/ Return
  BY <1>14 DEF Call, Return
<1>7. CASE Fork
  BY <1>7 DEF Fork
<1>8. CASE Forked \/ AllDone \/ Ceiling \/ ReapAll
  BY <1>8 DEF Forked, AllDone, Ceiling, ReapAll
<1>9. CASE GroupRow
  BY <1>9 DEF GroupRow
<1>10. CASE Summary \/ UpsAction \/ ControllerSkipped \/ ControllerProbe
  BY <1>10 DEF Summary, UpsAction, ControllerSkipped, ControllerProbe
<1>11. CASE PoweroffAnnounced \/ PoweroffRefused \/ PoweroffAccepted
             \/ Terminal \/ Stopped
  BY <1>11 DEF PoweroffAnnounced, PoweroffRefused, PoweroffAccepted, Terminal,
     Stopped
<1>12. CASE \E k \in Targets : Reap(k) \/ Execute(k)
  BY <1>12 DEF Reap, Execute, Fires, ShellEnds, Acted, Confirmed, control
<1>13. CASE Ended \/ UNCHANGED vars
  BY <1>13 DEF Ended, vars, control
<1> QED
  BY <1>3, <1>4, <1>5, <1>6, <1>7, <1>8, <1>9, <1>10, <1>11, <1>12, <1>13,
     <1>14
     DEF Next, Phase1, Phases23

LEMMA ActionStep ==
  ASSUME TypeInv, [Next]_vars PROVE ActionType'
<1>1. ActionType /\ ControlType
  BY DEF TypeInv
<1>2. Targets' = Targets
  BY Fixed
<1>3. pc \in AtTarget => Current \in Targets
  BY <1>1, PlanShape, TargetShape DEF ControlType, AtTarget, InGroup, Current, Target
<1>4. ASSUME UNCHANGED children PROVE ActionType'
  BY <1>1, <1>2, <1>4 DEF ActionType, children
<1>5. CASE \/ Begin \/ NextGroup \/ Probe \/ Skip \/ Forked \/ AllDone
           \/ GroupRow \/ Summary \/ UpsAction \/ ControllerSkipped
           \/ ControllerProbe \/ PoweroffAnnounced \/ PoweroffRefused
           \/ PoweroffAccepted \/ Terminal \/ Stopped \/ Ended
           \/ UNCHANGED vars
  BY <1>4, <1>5
     DEF Begin, NextGroup, Probe, Skip, Forked, AllDone, GroupRow, Summary,
         UpsAction, ControllerSkipped, ControllerProbe, PoweroffAnnounced,
         PoweroffRefused, PoweroffAccepted, Terminal, Stopped, Ended, vars
<1> USE <1>1, <1>2, <1>3 DEF ActionType, AtTarget
<1>6. CASE Call \/ Return
  BY <1>6 DEF Call, Return
<1>7. CASE Fork
  BY <1>7 DEF Fork
<1>8. CASE Ceiling \/ ReapAll
  <2>1. CASE Ceiling
    <3>1. /\ UNCHANGED <<proc, exit, shell, keys>>
          /\ outcome' = [k \in Targets |-> IF k \in Unreaped THEN 2 ELSE outcome[k]]
          /\ termed' \subseteq termed \union Unreaped
      BY <2>1 DEF Ceiling
    <3>2. Unreaped \subseteq Targets
      BY <1>1, <2>1, PlanShape, TargetShape
         DEF Ceiling, Unreaped, ControlType, InGroup
    <3> QED
      BY <3>1, <3>2
  <2>2. CASE ReapAll
    BY <2>2 DEF ReapAll
  <2> QED
    BY <1>8, <2>1, <2>2
<1>9. ASSUME NEW k \in Targets, Reap(k) PROVE ActionType'
  BY <1>9 DEF Reap
<1>10. ASSUME NEW k \in Targets, Execute(k) PROVE ActionType'
  <2>1. CASE Fires(k)
    BY <2>1 DEF Fires
  <2>2. CASE ShellEnds(k)
    BY <2>2 DEF ShellEnds
  <2>3. CASE Acted(k)
    BY <2>3 DEF Acted, KeysWithout, ExitCode
  <2>4. CASE Confirmed(k)
    BY <2>4 DEF Confirmed
  <2> QED
    BY <1>10, <2>1, <2>2, <2>3, <2>4 DEF Execute
<1> QED
  BY <1>5, <1>6, <1>7, <1>8, <1>9, <1>10 DEF Next, Phase1, Phases23

\* A row or an event is appended.
LEMMA RowAppended ==
  ASSUME TypeInv, NEW s \in Steps, NEW ok \in 0..2, AppendRow(s, ok)
  PROVE  rows' \in Seq(Row)
<1>1. rows \in Seq(Row) /\ [step |-> s, ok |-> ok] \in Row
  BY DEF TypeInv, ReportType, Row
<1> HIDE DEF Row
<1> QED
  BY <1>1 DEF AppendRow

LEMMA EventAppended ==
  ASSUME TypeInv, NEW title \in Titles, NEW sev \in Severities, Emit(title, sev)
  PROVE  events' \in Seq(Reported)
<1> DEFINE e == Event(title, sev)
<1>1. events \in Seq(Reported) /\ e \in Reported
  BY DEF TypeInv, ReportType, Reported, Event
<1>2. events' = Append(events, e)
  BY DEF Emit
<1> HIDE DEF Reported, e
<1> QED
  BY <1>1, <1>2

LEMMA SummaryAppended ==
  ASSUME TypeInv, Summary PROVE events' \in Seq(Reported)
<1>1. CASE total > 0
  <2> DEFINE e == [title |-> "Phase1", sev |-> IF Failed > 0 THEN "error" ELSE "info",
                   ok |-> Succeeded(total)]
  <2>1. Succeeded(total) \in Int
    BY FailedType DEF TypeInv, ReportType, ControlType, Succeeded
  <2>2. events \in Seq(Reported) /\ e \in Reported
    BY <2>1 DEF TypeInv, ReportType, Reported, Titles, Severities
  <2>3. events' = Append(events, e)
    BY <1>1 DEF Summary
  <2> HIDE DEF Reported, e
  <2> QED
    BY <2>2, <2>3
<1>2. CASE ~(total > 0)
  BY <1>2 DEF Summary, Silent, TypeInv, ReportType
<1> QED
  BY <1>1, <1>2

LEMMA ReportStep ==
  ASSUME TypeInv, [Next]_vars PROVE ReportType'
<1>1. /\ rows \in Seq(Row) /\ events \in Seq(Reported)
      /\ ups_sent \in BOOLEAN /\ poweroff \in BOOLEAN
  BY DEF TypeInv, ReportType
<1>2. Row' = Row /\ Reported' = Reported
  BY Fixed DEF Reported, Titles, Severities
<1>3. Ups \in Steps /\ Controller \in Steps
  BY DEF Steps
<1>4. pc \in AtTarget => Current \in Steps
  BY PlanShape, TargetShape
     DEF TypeInv, ControlType, AtTarget, InGroup, Current, Target, Steps
<1>5. outcome \in [Targets -> 0..2] /\ exit \in [Targets -> {0, 1}]
  BY DEF TypeInv, ActionType
<1>6. ASSUME rows' \in Seq(Row), events' \in Seq(Reported),
             ups_sent' \in BOOLEAN, poweroff' \in BOOLEAN
      PROVE  ReportType'
  BY <1>2, <1>6 DEF ReportType
<1> HIDE DEF Row, Reported, Steps
<1>7. ASSUME UNCHANGED <<reports, outside>> PROVE ReportType'
  BY <1>1, <1>2, <1>7 DEF ReportType, reports, outside
<1>8. CASE \/ NextGroup \/ Call \/ Fork \/ Forked \/ AllDone \/ Ceiling
           \/ ReapAll \/ Stopped \/ Ended \/ UNCHANGED vars
           \/ \E k \in Targets : Reap(k) \/ Execute(k)
  BY <1>7, <1>8
     DEF NextGroup, Call, Fork, Forked, AllDone, Ceiling, ReapAll, Stopped,
         Ended, vars, Reap, Execute, Fires, ShellEnds, Acted, Confirmed
<1>9. ASSUME NEW s \in Steps, NEW ok \in 0..2, AppendRow(s, ok),
             UNCHANGED <<events, outside>>
      PROVE  ReportType'
  BY <1>1, <1>6, <1>9, RowAppended DEF outside
<1>10. CASE Probe
  <2>1. PICK ok \in {0, 1} : AppendRow(Current, ok)
    BY <1>10 DEF Probe
  <2>2. Current \in Steps /\ ok \in 0..2 /\ UNCHANGED <<events, outside>>
    BY <1>10, <1>4 DEF Probe, AtTarget
  <2> QED
    BY <2>1, <2>2, <1>9
<1>11. CASE Skip
  <2>1. AppendRow(Current, 2) /\ Current \in Steps /\ UNCHANGED <<events, outside>>
    BY <1>11, <1>4 DEF Skip, AtTarget
  <2> QED
    BY <2>1, <1>9
<1>12. CASE Return
  <2>1. /\ AppendRow(Current, exit[Current]) /\ Current \in Steps
        /\ UNCHANGED <<events, outside>>
    BY <1>12, <1>4 DEF Return, AtTarget
  <2>2. Current \in Targets
    BY <1>12, PlanShape, TargetShape
       DEF Return, TypeInv, ControlType, AtTarget, InGroup, Current, Target
  <2>3. exit[Current] \in 0..2
    BY <1>5, <2>2
  <2> QED
    BY <2>1, <2>3, <1>9
<1>13. CASE GroupRow
  <2>1. /\ AppendRow(Current, IF outcome[Current] = 0 THEN 0 ELSE 1)
        /\ Current \in Steps /\ UNCHANGED <<events, outside>>
    BY <1>13, <1>4 DEF GroupRow, AtTarget
  <2>2. (IF outcome[Current] = 0 THEN 0 ELSE 1) \in 0..2
    OBVIOUS
  <2> QED
    BY <2>1, <2>2, <1>9
<1>14. CASE Begin
  <2>1. Emit("Started", IF dry_run THEN "warning" ELSE "critical")
    BY <1>14 DEF Begin
  <2>2. events' \in Seq(Reported)
    BY <2>1, EventAppended DEF Titles, Severities
  <2> QED
    BY <1>1, <1>6, <1>14, <2>2 DEF Begin, outside
<1>15. CASE Summary
  BY <1>1, <1>6, <1>15, SummaryAppended DEF Summary, outside
<1>16. CASE UpsAction
  <2>1. PICK s \in Settings, ok \in 0..2, sent \in BOOLEAN :
          AppendRow(Ups, ok) /\ ups_sent' = sent
    BY <1>16 DEF UpsAction
  <2>2. Emit("UPS Action", IF Failed' > Failed THEN "error" ELSE "info")
    BY <1>16 DEF UpsAction
  <2>3. rows' \in Seq(Row)
    BY <1>3, <2>1, RowAppended
  <2>4. events' \in Seq(Reported)
    BY <2>2, EventAppended DEF Titles, Severities
  <2>5. ups_sent' \in BOOLEAN /\ poweroff' \in BOOLEAN
    BY <1>1, <1>16, <2>1 DEF UpsAction
  <2> QED
    BY <1>6, <2>3, <2>4, <2>5
<1>17. CASE ControllerSkipped
  BY <1>3, <1>9, <1>17 DEF ControllerSkipped
<1>18. CASE ControllerProbe
  <2>1. PICK ok \in {0, 1} : AppendRow(Controller, ok)
    BY <1>18 DEF ControllerProbe
  <2>2. ok \in 0..2 /\ UNCHANGED <<events, outside>>
    BY <1>18 DEF ControllerProbe
  <2> QED
    BY <1>3, <1>9, <2>1, <2>2
<1>19. CASE PoweroffAnnounced
  <2>1. events' \in Seq(Reported)
    BY <1>19, EventAppended DEF PoweroffAnnounced, Titles, Severities
  <2> QED
    BY <1>1, <1>6, <1>19, <2>1 DEF PoweroffAnnounced, outside
<1>20. CASE PoweroffRefused
  <2>1. events' \in Seq(Reported)
    BY <1>20, EventAppended DEF PoweroffRefused, Titles, Severities
  <2>2. AppendRow(Controller, 1)
    BY <1>20 DEF PoweroffRefused
  <2>4. 1 \in 0..2
    OBVIOUS
  <2>3. rows' \in Seq(Row)
    BY <1>3, <2>2, <2>4, RowAppended
  <2> QED
    BY <1>1, <1>6, <1>20, <2>1, <2>3 DEF PoweroffRefused, outside
<1>21. CASE PoweroffAccepted
  <2>1. rows' \in Seq(Row)
    BY <1>3, <1>21, RowAppended DEF PoweroffAccepted
  <2>2. ups_sent' \in BOOLEAN /\ poweroff' \in BOOLEAN /\ events' = events
    BY <1>1, <1>21 DEF PoweroffAccepted
  <2> QED
    BY <1>1, <1>6, <2>1, <2>2
<1>22. CASE Terminal
  <2>1. PICK title \in Titles, sev \in Severities : Emit(title, sev)
    <3>1. /\ (IF dry_run THEN "Dry Run Complete"
              ELSE IF Halted THEN "Shutdown Workflow Halted"
              ELSE "Shutdown Workflow Complete") \in Titles
          /\ (IF Failed > 0 \/ Halted THEN "error" ELSE "info") \in Severities
      BY DEF Titles, Severities
    <3> QED
      BY <1>22, <3>1 DEF Terminal
  <2>2. events' \in Seq(Reported)
    BY <2>1, EventAppended
  <2> QED
    BY <1>1, <1>6, <1>22, <2>2 DEF Terminal, outside
<1> QED
  BY <1>8, <1>10, <1>11, <1>12, <1>13, <1>14, <1>15, <1>16, <1>17, <1>18,
     <1>19, <1>20, <1>21, <1>22
     DEF Next, Phase1, Phases23

LEMMA TypeStep == TypeInv /\ [Next]_vars => TypeInv'
BY ControlStep, ActionStep, ReportStep DEF TypeInv

LEMMA TypeImplied == TypeInv => TypeOK
<1> SUFFICES ASSUME TypeInv PROVE TypeOK
  OBVIOUS
<1>1. pc \in AtTarget => Current \in Targets
  BY PlanShape, TargetShape
     DEF TypeInv, ControlType, AtTarget, InGroup, Current, Target
<1>2. \A i \in DOMAIN rows : rows[i].ok \in 0..2
  <2>1. rows \in Seq(Row) /\ \A r \in Row : r.ok \in 0..2
    BY DEF TypeInv, ReportType, Row
  <2> HIDE DEF Row
  <2> QED
    BY <2>1
<1> QED
  BY <1>1, <1>2
     DEF TypeInv, ControlType, ActionType, ReportType, TypeOK, AtTarget

\* Every reachable state of a workflow is well typed, whatever its plan.
THEOREM WorkflowTypeCorrect == SafeSpec => []TypeOK
<1>1. SafeSpec => []TypeInv
  BY TypeInit, TypeStep, PTL DEF SafeSpec
<1> QED
  BY <1>1, TypeImplied, PTL

-----------------------------------------------------------------------------
(* Actions: execute_target, its command and its key go together. *)

\* The targets the worker has not come to are untouched.
Ahead(k) ==
  \/ k[2] > g
  \/ k[2] = g /\ pc \in {"sequence", "fork"} /\ k[3] >= t
  \/ k[2] = g /\ pc = "called" /\ k[3] > t

Sound(k) ==
  /\ Ahead(k) => proc[k] = "none"
  /\ proc[k] \in {"none", "unforked", "start"} => shell[k] = "none"
  /\ shell[k] = "running" => proc[k] = "acting"
  /\ proc[k] = "confirming" => shell[k] = "ok" /\ exit[k] = 0
  /\ proc[k] \in {"ended", "reaped"} /\ exit[k] = 0 => shell[k] = "ok"
  /\ k \in keys /\ "alloc" \notin faults => proc[k] = "acting"

ActionInv == \A k \in Targets : Sound(k)

LEMMA ActionInvInit == Init => ActionInv
BY DEF Init, ActionInv, Sound

\* The worker comes to no target it has passed.
LEMMA NeverBack ==
  ASSUME TypeInv, [Next]_vars, NEW k \in Targets, Ahead(k)'
  PROVE  Ahead(k)
<1>1. /\ k[2] \in Nat /\ k[3] \in Nat /\ k[2] <= Len(plan) /\ k[3] <= Size(k[2])
      /\ g \in Nat /\ t \in Nat
  BY PlanShape, TargetShape DEF TypeInv, ControlType
<1> USE <1>1 DEF Ahead, Goto, Advance
<1>2. CASE \/ Begin \/ Forked \/ AllDone \/ Ceiling \/ ReapAll \/ Summary
           \/ UpsAction \/ ControllerSkipped \/ ControllerProbe
           \/ PoweroffAnnounced \/ PoweroffRefused \/ PoweroffAccepted
           \/ Terminal \/ Stopped
  BY <1>2
     DEF Begin, Forked, AllDone, Ceiling, ReapAll, Summary, UpsAction,
         ControllerSkipped, ControllerProbe, PoweroffAnnounced,
         PoweroffRefused, PoweroffAccepted, Terminal, Stopped
<1>3. CASE NextGroup
  BY <1>3 DEF NextGroup
<1>4. CASE Probe \/ Skip \/ Call \/ Return \/ Fork \/ GroupRow
  BY <1>4 DEF Probe, Skip, Call, Return, Fork, GroupRow
<1>5. CASE Ended \/ UNCHANGED vars \/ \E j \in Targets : Reap(j) \/ Execute(j)
  BY <1>5
     DEF Ended, vars, control, Reap, Execute, Fires, ShellEnds, Acted,
         Confirmed
<1> QED
  BY <1>2, <1>3, <1>4, <1>5 DEF Next, Phase1, Phases23

LEMMA ActionInvStep ==
  ASSUME TypeInv, ActionInv, [Next]_vars PROVE ActionInv'
<1>1. Targets' = Targets /\ faults' = faults
  BY Fixed DEF fixed
<1> SUFFICES ASSUME NEW k \in Targets PROVE Sound(k)'
  BY <1>1 DEF ActionInv
<1>2. Sound(k) /\ (Ahead(k)' => Ahead(k))
  BY NeverBack DEF ActionInv
<1>3. ActionType
  BY DEF TypeInv
<1>4. ASSUME UNCHANGED <<proc[k], shell[k], exit[k]>>, k \in keys' => k \in keys
      PROVE  Sound(k)'
  BY <1>1, <1>2, <1>4 DEF Sound
<1>5. CASE \/ Begin \/ NextGroup \/ Probe \/ Skip \/ Forked \/ AllDone
           \/ Ceiling \/ GroupRow \/ Summary \/ UpsAction \/ ControllerSkipped
           \/ ControllerProbe \/ PoweroffAnnounced \/ PoweroffRefused
           \/ PoweroffAccepted \/ Terminal \/ Stopped \/ Ended
           \/ UNCHANGED vars
  BY <1>4, <1>5
     DEF Begin, NextGroup, Probe, Skip, Forked, AllDone, Ceiling, GroupRow,
         Summary, UpsAction, ControllerSkipped, ControllerProbe,
         PoweroffAnnounced, PoweroffRefused, PoweroffAccepted, Terminal,
         Stopped, Ended, vars, children
<1> USE <1>3 DEF ActionType
<1>6. CASE Call \/ Fork
  <2>1. CASE k = Current
    <3>1. Ahead(k) /\ ~Ahead(k)'
      <4>1. g \in Nat /\ t \in Nat /\ Len(plan) \in Nat /\ Size(g) \in Nat
        BY <1>6, PlanShape DEF Call, Fork, TypeInv, ControlType, InGroup, AtTarget
      <4> QED
        BY <1>6, <2>1, <4>1
           DEF Call, Fork, Current, Target, Ahead, Advance, Goto
    <3>2. proc[k] = "none" /\ shell[k] = "none"
          /\ ("alloc" \in faults \/ k \notin keys)
      BY <1>2, <3>1 DEF Sound
    <3>3. proc'[k] \in {"start", "unforked"} /\ shell' = shell /\ keys' = keys
      BY <1>6, <2>1 DEF Call, Fork
    <3> QED
      BY <1>1, <3>1, <3>2, <3>3 DEF Sound
  <2>2. CASE k # Current
    <3>1. proc'[k] = proc[k] /\ UNCHANGED <<shell, exit, keys>>
      BY <1>6, <2>2 DEF Call, Fork
    <3> QED
      BY <3>1, <1>4
  <2> QED
    BY <2>1, <2>2
<1>7. CASE Return
  <2>1. proc'[k] = proc[k] \/ (proc[k] = "ended" /\ proc'[k] = "reaped")
    BY <1>7 DEF Return
  <2>2. UNCHANGED <<shell, exit, keys>>
    BY <1>7 DEF Return
  <2> QED
    BY <1>1, <1>2, <2>1, <2>2 DEF Sound
<1>8. CASE ReapAll \/ \E j \in Targets : Reap(j)
  <2>1. proc'[k] = proc[k] \/ (proc[k] = "ended" /\ proc'[k] = "reaped")
    BY <1>8 DEF ReapAll, Reap, Reapable
  <2>2. UNCHANGED <<shell, exit, keys>>
    BY <1>8 DEF ReapAll, Reap
  <2> QED
    BY <1>1, <1>2, <2>1, <2>2 DEF Sound
<1>9. ASSUME NEW j \in Targets, Execute(j) PROVE Sound(k)'
  <2>1. CASE j # k
    BY <1>9, <2>1, <1>4
       DEF Execute, Fires, ShellEnds, Acted, Confirmed, KeysWithout
  <2>2. CASE j = k
    <3>1. proc[k] # "none"
      BY <1>1, <1>2, <1>9, <2>2
         DEF Execute, Fires, ShellEnds, Acted, Confirmed, Sound
    <3>2. CASE Fires(k)
      BY <1>1, <1>2, <3>1, <3>2 DEF Fires, Sound
    <3>3. CASE ShellEnds(k)
      BY <1>1, <1>2, <3>1, <3>3 DEF ShellEnds, Sound
    <3>4. CASE Acted(k)
      BY <1>1, <1>2, <3>1, <3>4 DEF Acted, Sound, KeysWithout, ExitCode
    <3>5. CASE Confirmed(k)
      BY <1>1, <1>2, <3>1, <3>5 DEF Confirmed, Sound
    <3> QED
      BY <1>9, <2>2, <3>2, <3>3, <3>4, <3>5 DEF Execute
  <2> QED
    BY <2>1, <2>2
<1> QED
  BY <1>5, <1>6, <1>7, <1>8, <1>9 DEF Next, Phase1, Phases23

-----------------------------------------------------------------------------
(* The barrier between the groups *)

\* Nothing is under way but in the group, or the target, the worker is at.
Underway(k) == AtWork(k) \/ proc[k] = "ended"
Here(k) ==
  /\ k[2] = g
  /\ pc \in {"fork", "forked", "wait", "reap", "called"}
  /\ pc = "called" => k = Current
BarrierInv ==
  "alloc" \notin faults => \A k \in Targets : Underway(k) => Here(k)

LEMMA BarrierInit == Init => BarrierInv
BY DEF Init, BarrierInv, Underway, AtWork

LEMMA BarrierStep ==
  ASSUME TypeInv, BarrierInv, [Next]_vars PROVE BarrierInv'
<1>1. Targets' = Targets /\ faults' = faults /\ \A i : TargetsOf(i)' = TargetsOf(i)
  BY Fixed DEF fixed
<1> SUFFICES ASSUME "alloc" \notin faults, NEW k \in Targets, Underway(k)'
             PROVE  Here(k)'
  BY <1>1 DEF BarrierInv
<1>2. Underway(k) => Here(k)
  BY DEF BarrierInv
<1>3. /\ k = Target(k[2], k[3]) /\ k[2] \in Nat /\ k[3] \in Nat
      /\ k \in TargetsOf(k[2]) /\ g \in Nat /\ t \in Nat
  BY PlanShape, TargetShape DEF TypeInv, ControlType, Target
<1>4. ActionType
  BY DEF TypeInv
<1>5. CASE \/ Begin \/ NextGroup \/ Probe \/ Skip \/ GroupRow \/ Summary
           \/ UpsAction \/ ControllerSkipped \/ ControllerProbe
           \/ PoweroffAnnounced \/ PoweroffRefused \/ PoweroffAccepted
           \/ Terminal \/ Stopped
  <2>1. Underway(k)
    BY <1>5
       DEF Begin, NextGroup, Probe, Skip, GroupRow, Summary, UpsAction,
           ControllerSkipped, ControllerProbe, PoweroffAnnounced,
           PoweroffRefused, PoweroffAccepted, Terminal, Stopped, children,
           Underway, AtWork
  <2> QED
    BY <1>2, <1>5, <2>1
       DEF Begin, NextGroup, Probe, Skip, GroupRow, Summary, UpsAction,
           ControllerSkipped, ControllerProbe, PoweroffAnnounced,
           PoweroffRefused, PoweroffAccepted, Terminal, Stopped, Here
<1>6. CASE Ended \/ UNCHANGED vars
  BY <1>2, <1>6 DEF Ended, vars, control, children, Underway, AtWork, Here, Current
<1> USE <1>4 DEF ActionType
<1>7. CASE Call
  <2>1. ~Underway(k)
    BY <1>2, <1>7 DEF Call, Here
  <2>2. k = Current
    BY <1>7, <2>1 DEF Call, Underway, AtWork
  <2>3. k[2] = g
    BY <2>2 DEF Current, Target
  <2> QED
    BY <1>7, <2>2, <2>3 DEF Call, Here, Current, Goto
<1>8. CASE Return
  <2>1. Underway(k)
    BY <1>8 DEF Return, Underway, AtWork
  <2>2. k = Current
    BY <1>2, <1>8, <2>1 DEF Return, Here
  <2>3. proc'[k] = "reaped"
    BY <1>8, <2>2 DEF Return
  <2> QED
    BY <2>3 DEF Underway, AtWork
<1>9. CASE Fork
  <2>1. k[2] = g
    <3>1. CASE k = Current
      BY <3>1 DEF Current, Target
    <3>2. CASE k # Current
      <4>1. proc'[k] = proc[k]
        BY <1>9, <3>2 DEF Fork
      <4> QED
        BY <1>2, <4>1 DEF Underway, AtWork, Here
    <3> QED
      BY <3>1, <3>2
  <2> QED
    BY <1>9, <2>1 DEF Fork, Here, Advance, Goto
<1>10. CASE Forked \/ Ceiling
  <2>1. Underway(k)
    BY <1>10 DEF Forked, Ceiling, children, Underway, AtWork
  <2> QED
    BY <1>2, <1>10, <2>1 DEF Forked, Ceiling, Goto, Here
<1>11. CASE AllDone \/ ReapAll
  <2>1. Underway(k) /\ pc \in {"wait", "reap"} /\ proc'[k] # "reaped"
    BY <1>11 DEF AllDone, ReapAll, children, Underway, AtWork
  <2>2. k \in TargetsOf(g)
    BY <1>2, <1>3, <2>1 DEF Here
  <2>3. k \in Unreaped
    BY <2>1, <2>2 DEF Underway, AtWork, Unreaped
  <2> QED
    BY <1>11, <2>1, <2>3 DEF AllDone, ReapAll
<1>12. ASSUME NEW j \in Targets, Reap(j) \/ Execute(j) PROVE Here(k)'
  <2>1. Underway(k)
    BY <1>12
       DEF Reap, Reapable, Execute, Fires, ShellEnds, Acted, Confirmed,
           Underway, AtWork
  <2>2. UNCHANGED control
    BY <1>12 DEF Reap, Execute, Fires, ShellEnds, Acted, Confirmed
  <2> QED
    BY <1>2, <2>1, <2>2 DEF Here, Current, control
<1> QED
  BY <1>5, <1>6, <1>7, <1>8, <1>9, <1>10, <1>11, <1>12
     DEF Next, Phase1, Phases23

\* "Groups execute sequentially": while an action or its confirmation is under
\* way, the worker is in that target's group, unless memory was lacking for its
\* bookkeeping (migrations/004_shutdown.sql:3-5, execute_group_parallel).
THEOREM GroupsNeverOverlap == SafeSpec => []GroupBarrier
<1> DEFINE Inv == TypeInv /\ ActionInv /\ BarrierInv
<1>1. Init => Inv
  BY TypeInit, ActionInvInit, BarrierInit
<1>2. Inv /\ [Next]_vars => Inv'
  BY TypeStep, ActionInvStep, BarrierStep
<1>3. Inv => GroupBarrier
  BY DEF ActionInv, Sound, BarrierInv, Underway, Here, GroupBarrier, AtWork
<1> QED
  BY <1>1, <1>2, <1>3, PTL DEF SafeSpec

\* No key is left in /dev/shm when a workflow is over, whatever failed but
\* memory for a group's bookkeeping or the path of a key (shutdown.c:270-273).
THEOREM NoKeyLeft == SafeSpec => []KeysRemoved
<1> DEFINE Inv == TypeInv /\ ActionInv /\ BarrierInv
<1>1. Init => Inv
  BY TypeInit, ActionInvInit, BarrierInit
<1>2. Inv /\ [Next]_vars => Inv'
  BY TypeStep, ActionInvStep, BarrierStep
<1>3. Inv => KeysRemoved
  <2> SUFFICES ASSUME Inv, Over, "alloc" \notin faults, NEW k \in keys
               PROVE  FALSE
    BY DEF KeysRemoved
  <2>1. k \in Targets
    BY DEF TypeInv, ActionType
  <2>2. Underway(k)
    BY <2>1 DEF ActionInv, Sound, Underway, AtWork
  <2> QED
    BY <2>1, <2>2 DEF BarrierInv, Here, Over
<1> QED
  BY <1>1, <1>2, <1>3, PTL DEF SafeSpec

-----------------------------------------------------------------------------
(* The rows tell what became of the targets. *)

\* The report is the old one, or has one row more, which is sure to be there
\* when memory is not lacking.
LEMMA RowsGrow ==
  ASSUME TypeInv, NEW s \in Steps, NEW ok \in 0..2, AppendRow(s, ok)
  PROVE  /\ DOMAIN rows = 1..Len(rows) /\ Len(rows) \in Nat
         /\ DOMAIN rows' = 1..Len(rows')
         /\ \/ rows' = rows /\ "alloc" \in faults
            \/ /\ Len(rows') = Len(rows) + 1
               /\ \A i \in 1..Len(rows) : rows'[i] = rows[i]
               /\ rows'[Len(rows) + 1].step = s
               /\ rows'[Len(rows) + 1].ok = ok
<1> DEFINE row == [step |-> s, ok |-> ok]
<1>1. rows \in Seq(Row) /\ row \in Row
  BY DEF TypeInv, ReportType, Row
<1>2. row.step = s /\ row.ok = ok
  OBVIOUS
<1>3. rows' = Append(rows, row) \/ (rows' = rows /\ "alloc" \in faults)
  BY DEF AppendRow
<1> HIDE DEF row, Row
<1>4. /\ DOMAIN rows = 1..Len(rows) /\ Len(rows) \in Nat
      /\ rows' \in Seq(Row)
  BY <1>1, <1>3
<1>5. CASE rows' = Append(rows, row)
  <2>1. Len(rows') = Len(rows) + 1
    BY <1>1, <1>5
  <2>2. \A i \in 1..Len(rows) : rows'[i] = rows[i]
    BY <1>1, <1>4, <1>5
  <2>3. rows'[Len(rows) + 1] = row
    BY <1>1, <1>4, <1>5
  <2>4. DOMAIN rows' = 1..Len(rows')
    BY <1>4
  <2> QED
    BY <1>2, <1>4, <2>1, <2>2, <2>3, <2>4
<1>6. CASE rows' = rows /\ "alloc" \in faults
  BY <1>4, <1>6
<1> QED
  BY <1>3, <1>5, <1>6

\* The bookkeeping of a parallel group: while its children are at work and
\* when its rows are written, what is noted of a child is how it ended.
Reaped(k) == proc[k] = "reaped" /\ outcome[k] = 0 => shell[k] = "ok"
OutcomeInv ==
  /\ pc = "probe" => dry_run
  /\ pc \in {"fork", "forked"} => \A k \in TargetsOf(g) : proc[k] # "reaped"
  /\ pc \in {"wait", "reap", "rows"} => \A k \in TargetsOf(g) : Reaped(k)
  /\ pc = "reap" => \A k \in Unreaped : outcome[k] = 2
  /\ pc = "rows" => Unreaped = {}

LEMMA OutcomeInit == Init => OutcomeInv
BY DEF Init, OutcomeInv

\* A command that has succeeded stays so.
LEMMA OkStays ==
  ASSUME TypeInv, ActionInv, [Next]_vars, NEW k \in Targets, shell[k] = "ok"
  PROVE  shell'[k] = "ok"
<1>1. ActionType /\ Sound(k)
  BY DEF TypeInv, ActionInv
<1>2. CASE UNCHANGED shell
  BY <1>2
<1>3. ASSUME NEW j \in Targets, Execute(j) PROVE shell'[k] = "ok"
  BY <1>1, <1>3
     DEF Execute, Fires, ShellEnds, Acted, Confirmed, ActionType, Sound
<1> QED
  BY <1>2, <1>3
     DEF Next, Phase1, Phases23, Begin, NextGroup, Probe, Skip, Call, Return,
         Fork, Forked, Reap, AllDone, Ceiling, ReapAll, GroupRow, Summary,
         UpsAction, ControllerSkipped, ControllerProbe, PoweroffAnnounced,
         PoweroffRefused, PoweroffAccepted, Terminal, Stopped, Ended, vars,
         children

LEMMA OutcomeStep ==
  ASSUME TypeInv, ActionInv, OutcomeInv, [Next]_vars PROVE OutcomeInv'
<1>1. /\ Targets' = Targets /\ UNCHANGED <<dry_run, plan>>
      /\ \A i : TargetsOf(i)' = TargetsOf(i)
  BY Fixed DEF fixed
<1>2. ActionType
  BY DEF TypeInv
<1>3. pc \in InGroup => TargetsOf(g) \subseteq Targets
  BY PlanShape, TargetShape DEF TypeInv, ControlType
<1>4. \A k \in Targets : shell[k] = "ok" => shell'[k] = "ok"
  BY OkStays
<1>5. \A k \in Targets : Sound(k)
  BY DEF ActionInv
<1> USE DEF OutcomeInv
<1>6. CASE \/ Begin \/ Probe \/ Skip \/ Call \/ Return \/ Summary \/ UpsAction
           \/ ControllerSkipped \/ ControllerProbe \/ PoweroffAnnounced
           \/ PoweroffRefused \/ PoweroffAccepted \/ Terminal \/ Stopped
  BY <1>1, <1>6
     DEF Begin, Probe, Skip, Call, Return, Summary, UpsAction,
         ControllerSkipped, ControllerProbe, PoweroffAnnounced,
         PoweroffRefused, PoweroffAccepted, Terminal, Stopped, Goto, Advance
<1>7. CASE NextGroup
  <2>1. g + 1 \in 1..Len(plan) /\ g' = g + 1 /\ UNCHANGED proc
        /\ pc' \in {"groups", "probe", "sequence", "fork"}
        /\ (pc' = "probe" => dry_run)
    BY <1>7, PlanShape
       DEF NextGroup, TypeInv, ControlType, children, Goto, Real
  <2>2. \A k \in TargetsOf(g + 1) : k \in Targets /\ Ahead(k)
    <3>1. g \in Nat
      BY DEF TypeInv, ControlType
    <3> QED
      BY <2>1, <3>1, TargetShape DEF TypeInv, ControlType, Ahead
  <2>3. \A k \in TargetsOf(g + 1) : proc[k] # "reaped"
    BY <1>5, <2>2 DEF Sound
  <2>4. TargetsOf(g)' = TargetsOf(g + 1)
    BY <1>1, <2>1 DEF TargetsOf, Size, Target
  <2> QED
    BY <1>1, <2>1, <2>3, <2>4
<1>8. CASE Fork
  <2>1. /\ pc' \in {"fork", "forked"} /\ g' = g
        /\ \A k \in Targets : proc'[k] # "reaped" \/ proc'[k] = proc[k]
    BY <1>2, <1>8 DEF Fork, Goto, Advance, ActionType
  <2>2. pc = "fork"
    BY <1>8 DEF Fork
  <2> QED
    BY <1>1, <1>3, <2>1, <2>2 DEF InGroup, AtTarget
<1>9. CASE Forked
  BY <1>1, <1>9 DEF Forked, children, Goto, Reaped
<1>10. CASE AllDone \/ GroupRow
  BY <1>1, <1>10
     DEF AllDone, GroupRow, children, Goto, Advance, Reaped, Unreaped
<1>11. CASE Ceiling
  <2>1. /\ pc = "wait" /\ pc' = "reap" /\ UNCHANGED <<g, proc, shell>>
        /\ \A k \in Targets :
             outcome'[k] = IF k \in Unreaped THEN 2 ELSE outcome[k]
    BY <1>11 DEF Ceiling, Goto
  <2>2. Unreaped' = Unreaped
    BY <1>1, <2>1 DEF Unreaped
  <2>3. TargetsOf(g) \subseteq Targets /\ Unreaped \subseteq Targets
    BY <1>3, <2>1 DEF Unreaped, InGroup
  <2> QED
    BY <1>1, <2>1, <2>2, <2>3 DEF Reaped
<1>12. CASE ReapAll
  <2>1. /\ pc = "reap" /\ pc' = "rows" /\ UNCHANGED <<g, outcome, shell>>
        /\ \A k \in Targets :
             proc'[k] = IF k \in Unreaped THEN "reaped" ELSE proc[k]
    BY <1>12 DEF ReapAll, Goto
  <2>2. TargetsOf(g) \subseteq Targets
    BY <1>3, <2>1 DEF InGroup
  <2>3. Unreaped' = {}
    BY <1>1, <2>1, <2>2 DEF Unreaped
  <2>4. \A k \in TargetsOf(g) : Reaped(k)'
    BY <2>1, <2>2 DEF Reaped
  <2> QED
    BY <1>1, <2>1, <2>3, <2>4
<1>13. ASSUME NEW j \in Targets, Reap(j) PROVE OutcomeInv'
  <2>1. /\ pc = "wait" /\ UNCHANGED <<pc, g, shell>>
        /\ proc[j] = "ended"
        /\ \A k \in Targets \ {j} : UNCHANGED <<proc[k], outcome[k]>>
        /\ outcome'[j] = exit[j]
    BY <1>2, <1>13 DEF Reap, Reapable, control, ActionType
  <2>2. Reaped(j)'
    BY <1>5, <2>1 DEF Reaped, Sound
  <2>3. \A k \in TargetsOf(g) : Reaped(k)'
    BY <1>3, <2>1, <2>2 DEF Reaped, InGroup
  <2> QED
    BY <1>1, <2>1, <2>3
<1>14. ASSUME NEW j \in Targets, Execute(j) PROVE OutcomeInv'
  <2>1. UNCHANGED <<pc, g, t, outcome>>
    BY <1>14 DEF Execute, Fires, ShellEnds, Acted, Confirmed, control
  <2>2. \A k \in Targets :
          /\ proc'[k] = "reaped" <=> proc[k] = "reaped"
          /\ proc'[k] = "unforked" <=> proc[k] = "unforked"
    BY <1>2, <1>14
       DEF Execute, Fires, ShellEnds, Acted, Confirmed, ActionType
  <2>3. pc \in InGroup => Unreaped' = Unreaped
    BY <1>1, <1>3, <2>1, <2>2 DEF Unreaped
  <2>4. pc \in InGroup => \A k \in TargetsOf(g) : Reaped(k) => Reaped(k)'
    BY <1>3, <1>4, <2>1, <2>2 DEF Reaped
  <2> QED
    BY <1>1, <1>3, <2>1, <2>2, <2>3, <2>4 DEF InGroup, AtTarget
<1>15. CASE Ended \/ UNCHANGED vars
  BY <1>1, <1>15 DEF Ended, vars, control, children, Reaped, Unreaped
<1> QED
  BY <1>6, <1>7, <1>8, <1>9, <1>10, <1>11, <1>12, <1>13, <1>14, <1>15
     DEF Next, Phase1, Phases23

\* No row says ok of a target whose command has not succeeded.
Forkless == \A k \in Targets : proc[k] # "unforked"
OkInv == "fork" \notin faults => OkRowsEarned /\ Forkless

LEMMA OkInit == Init => OkInv
BY DEF Init, OkInv, OkRowsEarned, Forkless

\* What a row in the making has to answer for.
Earned(s, ok) == Real /\ ok = 0 /\ s[1] = 1 => shell[s] = "ok"

LEMMA RowEarned ==
  ASSUME TypeInv, ActionInv, OkRowsEarned, [Next]_vars,
         NEW s \in Steps, NEW ok \in 0..2, AppendRow(s, ok), Earned(s, ok)
  PROVE  OkRowsEarned'
<1>1. dry_run' = dry_run
  BY Fixed DEF fixed
<1>2. \A k \in Targets : shell[k] = "ok" => shell'[k] = "ok"
  BY OkStays
<1>3. \A r \in Steps : r[1] = 1 => r \in Targets
  BY DEF Steps, Ups, Controller
<1>4. \A i \in DOMAIN rows : rows[i].step \in Steps
  <2>1. rows \in Seq(Row) /\ \A r \in Row : r.step \in Steps
    BY DEF TypeInv, ReportType, Row
  <2> HIDE DEF Row
  <2> QED
    BY <2>1
<1>5. ASSUME NEW i \in DOMAIN rows'
      PROVE  \/ i \in DOMAIN rows /\ rows'[i] = rows[i]
             \/ rows'[i].step = s /\ rows'[i].ok = ok
  BY RowsGrow
<1> HIDE DEF Steps
<1> QED
  BY <1>1, <1>2, <1>3, <1>4, <1>5 DEF OkRowsEarned, Earned, Real

LEMMA OkStep ==
  ASSUME TypeInv, ActionInv, OutcomeInv, OkInv, DryInv, [Next]_vars
  PROVE  OkInv'
<1>1. Targets' = Targets /\ faults' = faults /\ dry_run' = dry_run
  BY Fixed DEF fixed
<1> SUFFICES ASSUME "fork" \notin faults PROVE OkRowsEarned' /\ Forkless'
  BY <1>1 DEF OkInv
<1>2. OkRowsEarned /\ Forkless /\ ActionType /\ ActionInv
  BY DEF OkInv, TypeInv
<1>3. Forkless'
  <2>1. CASE UNCHANGED proc
    BY <1>1, <1>2, <2>1 DEF Forkless
  <2>2. CASE Call \/ Return \/ Fork \/ ReapAll
    BY <1>1, <1>2, <2>2
       DEF Call, Return, Fork, ReapAll, Forkless, ActionType
  <2>3. ASSUME NEW j \in Targets, Reap(j) \/ Execute(j) PROVE Forkless'
    BY <1>1, <1>2, <2>3
       DEF Reap, Execute, Fires, ShellEnds, Acted, Confirmed, Forkless,
           ActionType
  <2> QED
    BY <2>1, <2>2, <2>3
       DEF Next, Phase1, Phases23, Begin, NextGroup, Probe, Skip, Forked,
           AllDone, Ceiling, GroupRow, Summary, UpsAction, ControllerSkipped,
           ControllerProbe, PoweroffAnnounced, PoweroffRefused,
           PoweroffAccepted, Terminal, Stopped, Ended, vars, children
<1>4. ASSUME UNCHANGED rows PROVE OkRowsEarned'
  <2>1. \A k \in Targets : shell[k] = "ok" => shell'[k] = "ok"
    BY OkStays
  <2>2. \A i \in DOMAIN rows : rows[i].step[1] = 1 => rows[i].step \in Targets
    <3>1. rows \in Seq(Row) /\ \A r \in Row : r.step[1] = 1 => r.step \in Targets
      BY DEF TypeInv, ReportType, Row, Steps, Ups, Controller
    <3> HIDE DEF Row
    <3> QED
      BY <3>1
  <2> QED
    BY <1>1, <1>2, <1>4, <2>1, <2>2 DEF OkRowsEarned, Real
<1>5. pc \in AtTarget => Current \in Targets /\ Current \in TargetsOf(g)
  BY PlanShape, TargetShape
     DEF TypeInv, ControlType, AtTarget, InGroup, Current, Target
<1>6. Targets \subseteq Steps /\ Ups \in Steps /\ Controller \in Steps
      /\ Ups[1] # 1 /\ Controller[1] # 1
  BY DEF Steps, Ups, Controller
<1> HIDE DEF Steps
<1>7. CASE Probe
  <2>1. PICK ok \in {0, 1} : AppendRow(Current, ok)
    BY <1>7 DEF Probe
  <2>2. ok \in 0..2 /\ Current \in Steps /\ ~Real
    BY <1>5, <1>6, <1>7 DEF Probe, AtTarget, OutcomeInv, Real
  <2> QED
    BY <1>2, <2>1, <2>2, <1>3, RowEarned DEF Earned
<1>8. CASE Skip
  <2>1. AppendRow(Current, 2) /\ Current \in Steps /\ 2 \in 0..2
    BY <1>5, <1>6, <1>8 DEF Skip, AtTarget
  <2>2. Earned(Current, 2)
    BY DEF Earned
  <2> QED
    BY <1>2, <2>1, <2>2, <1>3, RowEarned
<1>9. CASE Return
  <2>1. /\ AppendRow(Current, exit[Current]) /\ Current \in Targets
        /\ proc[Current] = "ended"
    BY <1>5, <1>9 DEF Return, AtTarget
  <2>2. exit[Current] \in 0..2 /\ Sound(Current) /\ Current \in Steps
    BY <1>2, <1>6, <2>1 DEF ActionType, ActionInv
  <2>3. Earned(Current, exit[Current])
    BY <2>1, <2>2 DEF Earned, Sound
  <2> QED
    BY <1>2, <2>1, <2>2, <2>3, <1>3, RowEarned
<1>10. CASE GroupRow
  <2> DEFINE ok == IF outcome[Current] = 0 THEN 0 ELSE 1
  <2>1. AppendRow(Current, ok) /\ Current \in TargetsOf(g) /\ Current \in Targets
        /\ pc = "rows" /\ ok \in 0..2
    BY <1>5, <1>10 DEF GroupRow, AtTarget
  <2>2. Reaped(Current) /\ Current \notin Unreaped
    BY <2>1 DEF OutcomeInv
  <2>3. proc[Current] = "reaped"
    BY <1>2, <2>1, <2>2 DEF Unreaped, Forkless
  <2>4. Earned(Current, ok)
    BY <2>2, <2>3 DEF Earned, Reaped
  <2>5. Current \in Steps
    BY <1>6, <2>1
  <2> HIDE DEF ok
  <2> QED
    BY <1>2, <2>1, <2>4, <2>5, <1>3, RowEarned
<1>11. CASE UpsAction
  <2>1. PICK ok \in 0..2 : AppendRow(Ups, ok)
    BY <1>11 DEF UpsAction
  <2> QED
    BY <1>2, <1>6, <2>1, <1>3, RowEarned DEF Earned
<1>12. CASE \/ ControllerSkipped \/ ControllerProbe \/ PoweroffRefused
            \/ PoweroffAccepted
  <2>1. PICK ok \in 0..2 : AppendRow(Controller, ok)
    <3>1. CASE ControllerSkipped
      BY <3>1 DEF ControllerSkipped
    <3>2. CASE ControllerProbe
      BY <3>2 DEF ControllerProbe
    <3>3. CASE PoweroffRefused
      <4>1. AppendRow(Controller, 1)
        BY <3>3 DEF PoweroffRefused
      <4>2. 1 \in 0..2
        OBVIOUS
      <4> QED
        BY <4>1, <4>2
    <3>4. CASE PoweroffAccepted
      BY <3>4 DEF PoweroffAccepted
    <3> QED
      BY <1>12, <3>1, <3>2, <3>3, <3>4
  <2> QED
    BY <1>2, <1>6, <2>1, <1>3, RowEarned DEF Earned
<1> QED
  BY <1>3, <1>4, <1>7, <1>8, <1>9, <1>10, <1>11, <1>12
     DEF Next, Phase1, Phases23, Begin, NextGroup, Call, Fork, Forked, Reap,
         AllDone, Ceiling, ReapAll, Summary, PoweroffAnnounced, Terminal,
         Stopped, Ended, Execute, Fires, ShellEnds, Acted, Confirmed, vars,
         reports

\* A target reported ok is one whose command has succeeded, whatever failed but
\* the making of its child (shutdown.h:44; execute_group_parallel).
THEOREM OkRowsHonest == SafeSpec => []OkRowHonest
<1> DEFINE Inv == TypeInv /\ ActionInv /\ OutcomeInv /\ OkInv /\ IInv
<1>1. Init => Inv
  BY TypeInit, ActionInvInit, OutcomeInit, OkInit, DryInit
<1>2. Inv /\ [Next]_vars => Inv'
  BY TypeStep, ActionInvStep, OutcomeStep, OkStep, DryStep DEF IInv
<1>3. Inv => OkRowHonest
  BY DEF OkInv, OkRowHonest
<1> QED
  BY <1>1, <1>2, <1>3, PTL DEF SafeSpec

-----------------------------------------------------------------------------
(* The report follows the plan. *)

\* The steps whose rows the worker has come to write, were nothing lost.
Filed ==
  {s \in Steps :
     \/ pc = "groups" /\ s[1] = 1 /\ s[2] <= g
     \/ /\ pc \in {"probe", "sequence", "called", "rows"} /\ s[1] = 1
        /\ s[2] < g \/ (s[2] = g /\ s[3] < t)
     \/ pc \in {"fork", "forked", "wait", "reap"} /\ s[1] = 1 /\ s[2] < g
     \/ pc = "ups" /\ s[1] = 1
     \/ pc \in {"controller", "poweroff"} /\ s[1] <= 2
     \/ pc \in {"terminal", "done", "stopped"}}

Reliable == faults \intersect {"alloc", "db"} = {}

RowsInv ==
  /\ pc = "start" => g = 0
  /\ \A i, j \in DOMAIN rows : i < j => Before(rows[i].step, rows[j].step)
  /\ \A i \in DOMAIN rows : rows[i].step \in Filed
  /\ Reliable =>
       \A s \in Filed : \E i \in DOMAIN rows : rows[i].step = s

LEMMA RowsInit == Init => RowsInv
BY DEF Init, RowsInv, Filed

\* Where a step stands in the plan.
LEMMA StepShape ==
  ASSUME TypeInv, NEW s \in Steps
  PROVE  \/ /\ s \in Targets /\ s = <<1, s[2], s[3]>> /\ s[1] = 1
            /\ s[2] \in 1..Len(plan) /\ s[3] \in 1..Size(s[2])
            /\ Size(s[2]) \in Nat
         \/ s = Ups /\ s[1] = 2
         \/ s = Controller /\ s[1] = 3
BY PlanShape, TargetShape DEF TypeInv, ControlType, Steps, Ups, Controller

LEMMA RowSteps ==
  ASSUME TypeInv PROVE \A i \in DOMAIN rows : rows[i].step \in Steps
<1>1. rows \in Seq(Row) /\ \A r \in Row : r.step \in Steps
  BY DEF TypeInv, ReportType, Row
<1> HIDE DEF Row
<1> QED
  BY <1>1

\* Nothing is reported.
LEMMA RowsKept ==
  ASSUME TypeInv, RowsInv, [Next]_vars, UNCHANGED rows, pc' # "start",
         Filed \subseteq Filed',
         Reliable => Filed' \subseteq Filed
  PROVE  RowsInv'
<1>1. Steps' = Steps /\ Reliable' = Reliable
  BY Fixed DEF fixed, Reliable
<1> HIDE DEF Steps
<1> QED
  BY <1>1, RowSteps DEF RowsInv

\* The next step is reported.
LEMMA RowsAppended ==
  ASSUME TypeInv, RowsInv, [Next]_vars, pc' # "start",
         NEW s \in Steps, NEW ok \in 0..2, AppendRow(s, ok), s \in Filed',
         \A x \in Filed : Before(x, s) /\ x \in Filed',
         Reliable => \A x \in Filed' : x \in Filed \/ x = s
  PROVE  RowsInv'
<1>1. Steps' = Steps /\ Reliable' = Reliable
  BY Fixed DEF fixed, Reliable
<1>2. Reliable => "alloc" \notin faults
  BY DEF Reliable
<1>3. \A i \in DOMAIN rows : rows[i].step \in Steps
  BY RowSteps
<1>4. CASE rows' = rows /\ "alloc" \in faults
  BY <1>1, <1>2, <1>3, <1>4 DEF RowsInv
<1>5. CASE /\ Len(rows') = Len(rows) + 1
           /\ \A i \in 1..Len(rows) : rows'[i] = rows[i]
           /\ rows'[Len(rows) + 1].step = s
  <2>1. /\ DOMAIN rows = 1..Len(rows) /\ Len(rows) \in Nat
        /\ DOMAIN rows' = 1..(Len(rows) + 1)
    BY <1>5, RowsGrow
  <2>2. ASSUME NEW i \in DOMAIN rows', NEW j \in DOMAIN rows', i < j
        PROVE  Before(rows'[i].step, rows'[j].step)
    <3>1. i \in DOMAIN rows /\ rows'[i] = rows[i]
      BY <1>5, <2>1, <2>2
    <3>2. CASE j \in DOMAIN rows
      BY <1>5, <2>1, <2>2, <3>1, <3>2 DEF RowsInv
    <3>3. CASE j = Len(rows) + 1
      BY <1>3, <1>5, <3>1, <3>3 DEF RowsInv
    <3> QED
      BY <2>1, <3>2, <3>3
  <2>3. ASSUME NEW i \in DOMAIN rows' PROVE rows'[i].step \in Filed'
    <3>1. CASE i \in DOMAIN rows
      BY <1>3, <1>5, <2>1, <3>1 DEF RowsInv
    <3>2. CASE i = Len(rows) + 1
      BY <1>5, <3>2
    <3> QED
      BY <2>1, <3>1, <3>2
  <2>4. ASSUME Reliable, NEW x \in Filed'
        PROVE  \E i \in DOMAIN rows' : rows'[i].step = x
    <3>1. CASE x \in Filed
      <4>1. PICK i \in DOMAIN rows : rows[i].step = x
        BY <2>4, <3>1 DEF RowsInv
      <4> QED
        BY <1>5, <2>1, <4>1
    <3>2. CASE x = s
      BY <1>5, <2>1, <3>2
    <3> QED
      BY <2>4, <3>1, <3>2
  <2> QED
    BY <1>1, <2>2, <2>3, <2>4 DEF RowsInv
<1> QED
  BY <1>4, <1>5, RowsGrow

\* The worker reports the target it is at, and goes on.
LEMMA CurrentReported ==
  ASSUME TypeInv, RowsInv, [Next]_vars, UNCHANGED g, NEW ok \in 0..2,
         NEW stage \in {"probe", "sequence", "rows"},
         pc = stage \/ (pc = "called" /\ stage = "sequence"),
         AppendRow(Current, ok), Advance(stage, "groups")
  PROVE  RowsInv'
<1>1. /\ g \in 1..Len(plan) /\ t \in 1..Size(g) /\ Len(plan) \in Nat
      /\ Size(g) \in Nat
  BY PlanShape DEF TypeInv, ControlType, AtTarget, InGroup
<1>2. Current \in Steps /\ Current = <<1, g, t>>
  BY <1>1, PlanShape, TargetShape DEF TypeInv, ControlType, Steps, Current, Target
<1>6. Steps' = Steps
  BY Fixed
<1>3. /\ pc' # "start" /\ Current \in Filed'
  BY <1>1, <1>2, <1>6 DEF Advance, Goto, Filed
<1>4. ASSUME NEW x \in Filed
      PROVE  Before(x, Current) /\ x \in Filed'
  BY <1>1, <1>2, <1>4, <1>6, StepShape DEF Advance, Goto, Filed, Before
<1>5. ASSUME NEW x \in Filed'
      PROVE  x \in Filed \/ x = Current
  BY <1>1, <1>2, <1>5, <1>6, StepShape DEF Advance, Goto, Filed
<1> QED
  BY <1>2, <1>3, <1>4, <1>5, RowsAppended

LEMMA RowsStep ==
  ASSUME TypeInv, ActionInv, RowsInv, [Next]_vars PROVE RowsInv'
<1>1. UNCHANGED <<faults, plan>> /\ Steps' = Steps
  BY Fixed DEF fixed
<1>2. /\ g \in Nat /\ g <= Len(plan) /\ t \in Nat \ {0} /\ Len(plan) \in Nat
      /\ pc \in InGroup => g > 0
      /\ pc \in {"forked", "wait", "reap"} => t = 1
  BY PlanShape DEF TypeInv, ControlType
<1>3. Ups \in Steps /\ Controller \in Steps /\ Ups[1] = 2 /\ Controller[1] = 3
  BY DEF Steps, Ups, Controller
<1>4. Filed \subseteq Steps
  BY DEF Filed
<1>5. CASE Begin
  <2>1. UNCHANGED <<rows, g>> /\ pc = "start" /\ g = 0
        /\ (pc' = "groups" \/ ("db" \in faults /\ pc' = "ups"))
    BY <1>5 DEF Begin, Goto, RowsInv
  <2>2. Filed = {}
    BY <2>1 DEF Filed
  <2>3. Reliable => Filed' = {}
    <3> SUFFICES ASSUME Reliable, NEW x \in Filed' PROVE FALSE
      OBVIOUS
    <3> QED
      BY <1>1, <1>2, <2>1, StepShape DEF Filed, Reliable
  <2> QED
    BY <2>1, <2>2, <2>3, RowsKept
<1>6. CASE NextGroup
  <2>1. /\ pc = "groups" /\ g' = g + 1 /\ t' = 1 /\ UNCHANGED rows
        /\ g + 1 \in 1..Len(plan) /\ Size(g + 1) \in Nat
        /\ \/ pc' = "groups" /\ (Reliable => Size(g + 1) = 0)
           \/ pc' \in {"probe", "sequence", "fork"}
    BY <1>2, <1>6, PlanShape
       DEF NextGroup, TypeInv, ControlType, reports, Goto, Reliable
  <2>2. Filed \subseteq Filed'
    BY <1>1, <1>2, <2>1, StepShape DEF Filed
  <2>3. ASSUME Reliable, NEW x \in Filed' PROVE x \in Filed
    BY <1>1, <1>2, <2>1, <2>3, StepShape DEF Filed
  <2> QED
    BY <2>1, <2>2, <2>3, RowsKept
<1>7. CASE Probe
  <2>1. PICK ok \in {0, 1} : AppendRow(Current, ok)
    BY <1>7 DEF Probe
  <2>2. ok \in 0..2 /\ UNCHANGED g /\ pc = "probe" /\ Advance("probe", "groups")
    BY <1>7 DEF Probe
  <2> QED
    BY <2>1, <2>2, CurrentReported
<1>8. CASE Skip
  <2>1. /\ AppendRow(Current, 2) /\ 2 \in 0..2 /\ UNCHANGED g
        /\ pc = "sequence" /\ Advance("sequence", "groups")
    BY <1>8 DEF Skip
  <2> QED
    BY <2>1, CurrentReported
<1>9. CASE Return
  <2>1. /\ AppendRow(Current, exit[Current]) /\ UNCHANGED g
        /\ pc = "called" /\ Advance("sequence", "groups")
    BY <1>9 DEF Return
  <2>2. exit[Current] \in 0..2
    <3>1. Current \in Targets
      BY <1>2, <2>1, PlanShape, TargetShape
         DEF TypeInv, ControlType, AtTarget, InGroup, Current, Target
    <3> QED
      BY <3>1 DEF TypeInv, ActionType
  <2> QED
    BY <2>1, <2>2, CurrentReported
<1>10. CASE GroupRow
  <2>1. PICK ok \in 0..2 : AppendRow(Current, ok)
    BY <1>10 DEF GroupRow
  <2>2. UNCHANGED g /\ pc = "rows" /\ Advance("rows", "groups")
    BY <1>10 DEF GroupRow
  <2> QED
    BY <2>1, <2>2, CurrentReported
<1>11. CASE \/ Call \/ Fork \/ Ended \/ UNCHANGED vars
            \/ \E k \in Targets : Reap(k) \/ Execute(k)
  <2>1. /\ UNCHANGED <<rows, g>>
        /\ \/ UNCHANGED <<pc, t>>
           \/ pc = "sequence" /\ pc' = "called" /\ t' = t
           \/ pc = "fork" /\ pc' \in {"fork", "forked"}
    BY <1>11
       DEF Call, Fork, Ended, vars, control, reports, Reap, Execute, Fires,
           ShellEnds, Acted, Confirmed, Advance, Goto
  <2>2. Filed' = Filed
    BY <1>1, <2>1 DEF Filed
  <2>3. pc' = "start" => pc = "start"
    BY <2>1
  <2>4. CASE pc' # "start"
    BY <2>1, <2>2, <2>4, RowsKept
  <2>5. CASE pc' = "start"
    BY <1>1, <2>1, <2>2, <2>3, <2>5 DEF RowsInv, Reliable
  <2> QED
    BY <2>4, <2>5
<1>12. CASE Forked \/ AllDone \/ Ceiling \/ ReapAll
  <2>1. /\ UNCHANGED <<rows, g, t>> /\ t = 1
        /\ pc \in {"forked", "wait", "reap"}
        /\ \/ pc' \in {"wait", "reap", "rows"}
           \/ pc' = "groups" /\ "alloc" \in faults
    BY <1>2, <1>12 DEF Forked, AllDone, Ceiling, ReapAll, reports, Goto
  <2>2. Filed \subseteq Filed'
    BY <1>1, <2>1, <1>2, StepShape DEF Filed
  <2>3. ASSUME Reliable, NEW x \in Filed' PROVE x \in Filed
    BY <1>1, <1>2, <2>1, <2>3, StepShape DEF Filed, Reliable
  <2> QED
    BY <2>1, <2>2, <2>3, RowsKept
<1>13. CASE Summary
  <2>1. UNCHANGED rows /\ pc = "groups" /\ pc' = "ups" /\ g = Len(plan)
    BY <1>13 DEF Summary, Goto
  <2>2. Filed' = Filed
    BY <1>1, <1>2, <2>1, StepShape DEF Filed
  <2> QED
    BY <2>1, <2>2, RowsKept
<1>14. CASE UpsAction
  <2>1. PICK ok \in 0..2 : AppendRow(Ups, ok)
    BY <1>14 DEF UpsAction
  <2>2. pc = "ups" /\ pc' = "controller"
    BY <1>14 DEF UpsAction, Goto
  <2>3. Ups \in Filed' /\ \A x \in Filed : Before(x, Ups) /\ x \in Filed'
    BY <1>1, <1>3, <2>2 DEF Filed, Before
  <2>4. \A x \in Filed' : x \in Filed \/ x = Ups
    BY <1>1, <1>3, <2>2, StepShape DEF Filed
  <2> QED
    BY <1>3, <2>1, <2>2, <2>3, <2>4, RowsAppended
<1>15. CASE \/ ControllerSkipped \/ ControllerProbe \/ PoweroffRefused
            \/ PoweroffAccepted
  <2>1. PICK ok \in 0..2 : AppendRow(Controller, ok)
    <3>1. CASE ControllerSkipped
      BY <3>1 DEF ControllerSkipped
    <3>2. CASE ControllerProbe
      BY <3>2 DEF ControllerProbe
    <3>3. CASE PoweroffRefused
      <4>1. AppendRow(Controller, 1)
        BY <3>3 DEF PoweroffRefused
      <4>2. 1 \in 0..2
        OBVIOUS
      <4> QED
        BY <4>1, <4>2
    <3>4. CASE PoweroffAccepted
      BY <3>4 DEF PoweroffAccepted
    <3> QED
      BY <1>15, <3>1, <3>2, <3>3, <3>4
  <2>2. pc \in {"controller", "poweroff"} /\ pc' \in {"terminal", "done"}
    BY <1>15
       DEF ControllerSkipped, ControllerProbe, PoweroffRefused,
           PoweroffAccepted, Goto
  <2>3. /\ Controller \in Filed'
        /\ \A x \in Filed : Before(x, Controller) /\ x \in Filed'
    BY <1>1, <1>3, <2>2, StepShape DEF Filed, Before
  <2>4. \A x \in Filed' : x \in Filed \/ x = Controller
    BY <1>1, <1>3, <2>2, StepShape DEF Filed
  <2> QED
    BY <1>3, <2>1, <2>2, <2>3, <2>4, RowsAppended
<1>16. CASE PoweroffAnnounced \/ Terminal \/ Stopped
  <2>1. /\ UNCHANGED rows
        /\ \/ pc = "controller" /\ pc' = "poweroff"
           \/ pc \in {"terminal", "done"} /\ pc' \in {"done", "stopped"}
    BY <1>16 DEF PoweroffAnnounced, Terminal, Stopped, reports, Goto
  <2>2. Filed' = Filed
    BY <1>1, <2>1 DEF Filed
  <2> QED
    BY <2>1, <2>2, RowsKept
<1> QED
  BY <1>5, <1>6, <1>7, <1>8, <1>9, <1>10, <1>11, <1>12, <1>13, <1>14, <1>15,
     <1>16
     DEF Next, Phase1, Phases23

\* The report lists the steps in the plan's order, none twice, and each of them
\* when neither memory nor the database was lacking: the UPS after every host,
\* the controller last (shutdown_execute_ex).
THEOREM RowsAlwaysFollowPlan == SafeSpec => []RowsFollowPlan
<1> DEFINE Inv == TypeInv /\ ActionInv /\ RowsInv
<1>1. Init => Inv
  BY TypeInit, ActionInvInit, RowsInit
<1>2. Inv /\ [Next]_vars => Inv'
  BY TypeStep, ActionInvStep, RowsStep
<1>3. Inv => RowsFollowPlan
  <2> SUFFICES ASSUME Inv PROVE RowsFollowPlan
    OBVIOUS
  <2>1. \A i \in DOMAIN rows : rows[i].step \in Steps
    BY RowSteps
  <2>2. Over => Filed = Steps
    BY DEF Over, Filed
  <2> QED
    BY <2>1, <2>2 DEF RowsInv, RowsFollowPlan, Reliable, Steps
<1> QED
  BY <1>1, <1>2, <1>3, PTL DEF SafeSpec

-----------------------------------------------------------------------------
(* The story the events tell *)

\* One event with this title is added.
Told(title) ==
  /\ Len(events) \in Nat /\ DOMAIN events = 1..Len(events)
  /\ Len(events') = Len(events) + 1 /\ DOMAIN events' = 1..(Len(events) + 1)
  /\ \A i \in 1..Len(events) : events'[i] = events[i]
  /\ events'[Len(events) + 1].title = title

LastTitle == events[Len(events)].title

LEMMA ToldLast ==
  ASSUME NEW title, Told(title)
  PROVE  /\ \A i \in DOMAIN events' :
               \/ i \in DOMAIN events /\ events'[i] = events[i]
               \/ i = Len(events') /\ events'[i].title = title
         /\ DOMAIN events \subseteq DOMAIN events'
         /\ Len(events') > 0 /\ LastTitle' = title
<1> DEFINE n == Len(events)
           m == Len(events')
<1>1. /\ n \in Nat /\ DOMAIN events = 1..n /\ m = n + 1
      /\ DOMAIN events' = 1..(n + 1)
      /\ \A i \in 1..n : events'[i] = events[i]
      /\ events'[n + 1].title = title
  BY DEF Told
<1> HIDE DEF n, m
<1>2. \A i \in 1..(n + 1) : i \in 1..n \/ i = n + 1
  BY <1>1
<1>3. 1..n \subseteq 1..(n + 1) /\ n + 1 \in 1..(n + 1) /\ n + 1 > 0
  BY <1>1
<1>4. /\ m > 0 /\ DOMAIN events \subseteq DOMAIN events'
      /\ events'[m].title = title
  BY <1>1, <1>3
<1>5. \A i \in DOMAIN events' :
        \/ i \in DOMAIN events /\ events'[i] = events[i]
        \/ i = m /\ events'[i].title = title
  BY <1>1, <1>2
<1> QED
  BY <1>4, <1>5 DEF n, m, LastTitle

LEMMA EmitTells ==
  ASSUME TypeInv, NEW title \in Titles, NEW sev \in Severities, Emit(title, sev)
  PROVE  Told(title)
<1> DEFINE e == Event(title, sev)
<1>1. events \in Seq(Reported) /\ e \in Reported /\ e.title = title
  BY DEF TypeInv, ReportType, Reported, Event
<1>2. events' = Append(events, e)
  BY DEF Emit
<1> HIDE DEF Reported, e
<1> QED
  BY <1>1, <1>2 DEF Told

LEMMA SummaryTells ==
  ASSUME TypeInv, Summary, total > 0 PROVE Told("Phase1")
<1> DEFINE e == [title |-> "Phase1", sev |-> IF Failed > 0 THEN "error" ELSE "info",
                 ok |-> Succeeded(total)]
<1>1. Succeeded(total) \in Int
  BY FailedType DEF TypeInv, ReportType, ControlType, Succeeded
<1>2. events \in Seq(Reported) /\ e \in Reported /\ e.title = "Phase1"
  BY <1>1 DEF TypeInv, ReportType, Reported, Titles, Severities
<1>3. events' = Append(events, e)
  BY DEF Summary
<1> HIDE DEF Reported, e
<1> QED
  BY <1>2, <1>3 DEF Told

\* A terminal event is the last thing a workflow tells; one that hands the
\* controller to systemd has announced it last and tells nothing after.
EventInv ==
  /\ pc # "start" => Len(events) > 0
  /\ \A i \in DOMAIN events :
       events[i].title \in Terminals => Over /\ i = Len(events)
  /\ ~Over => ~poweroff
  /\ pc = "poweroff" \/ (Over /\ poweroff) =>
       ~dry_run /\ LastTitle = "Controller Poweroff Initiated"
  /\ Over /\ ~poweroff =>
       LastTitle = IF dry_run THEN "Dry Run Complete"
                   ELSE IF Halted THEN "Shutdown Workflow Halted"
                   ELSE "Shutdown Workflow Complete"
  /\ dry_run => ~Halted

LEMMA EventInit == Init => EventInv
BY DEF Init, EventInv, Over, Halted

\* The workflow goes on in silence, or with an event that ends nothing.
LEMMA GoesOn ==
  ASSUME TypeInv, EventInv, ~Over, pc # "start",
         UNCHANGED <<dry_run, events, poweroff>>,
         pc' \notin {"poweroff", "done", "stopped"}
  PROVE  EventInv'
BY DEF EventInv, Over, LastTitle, Halted

LEMMA GoesOnTelling ==
  ASSUME TypeInv, EventInv, ~Over, UNCHANGED <<dry_run, poweroff>>,
         NEW title \in Titles \ Terminals, Told(title),
         pc' \notin {"done", "stopped"},
         pc' = "poweroff" => ~dry_run /\ title = "Controller Poweroff Initiated",
         dry_run => title # "Controller Poweroff Failed"
  PROVE  EventInv'
<1>1. \A i \in DOMAIN events' :
        \/ i \in DOMAIN events /\ events'[i] = events[i]
        \/ events'[i].title = title
  BY ToldLast
<1>2. \A i \in DOMAIN events' : events'[i].title \notin Terminals
  BY <1>1 DEF EventInv
<1>3. Len(events') > 0 /\ LastTitle' = title
  BY ToldLast
<1>4. dry_run => ~Halted'
  BY <1>1 DEF EventInv, Halted
<1> QED
  BY <1>2, <1>3, <1>4 DEF EventInv, Over

LEMMA EventStep ==
  ASSUME TypeInv, EventInv, [Next]_vars PROVE EventInv'
<1>1. UNCHANGED <<faults, dry_run, plan>>
  BY Fixed DEF fixed
<1>2. CASE Begin
  <2>1. PICK sev \in Severities : Emit("Started", sev)
    BY <1>2 DEF Begin, Severities
  <2>2. /\ ~Over /\ UNCHANGED poweroff /\ pc' \in {"groups", "ups"}
        /\ "Started" \in Titles \ Terminals /\ "Started" \in Titles
    BY <1>2 DEF Begin, Goto, outside, Over, Titles, Terminals
  <2>3. Told("Started")
    BY <2>1, <2>2, EmitTells
  <2> QED
    BY <1>1, <2>2, <2>3, GoesOnTelling
<1>3. CASE \/ NextGroup \/ Probe \/ Skip \/ Call \/ Return \/ Fork \/ Forked
           \/ AllDone \/ Ceiling \/ ReapAll \/ GroupRow \/ ControllerSkipped
           \/ ControllerProbe \/ \E k \in Targets : Reap(k)
  <2>1. /\ pc \notin {"start", "done", "stopped"} /\ UNCHANGED <<events, poweroff>>
        /\ pc' \notin {"poweroff", "done", "stopped"}
    BY <1>3
       DEF NextGroup, Probe, Skip, Call, Return, Fork, Forked, AllDone, Ceiling,
           ReapAll, GroupRow, ControllerSkipped, ControllerProbe, Reap, Advance,
           Goto, reports, outside, control
  <2> QED
    BY <1>1, <2>1, GoesOn DEF Over
<1>4. CASE Summary
  <2>1. /\ pc = "groups" /\ pc' = "ups" /\ UNCHANGED poweroff /\ ~Over
        /\ "Phase1" \in Titles \ Terminals
    BY <1>4 DEF Summary, Goto, outside, Over, Titles, Terminals
  <2>2. CASE total > 0
    BY <1>1, <1>4, <2>1, <2>2, SummaryTells, GoesOnTelling
  <2>3. CASE ~(total > 0)
    BY <1>1, <1>4, <2>1, <2>3, GoesOn DEF Summary, Silent
  <2> QED
    BY <2>2, <2>3
<1>5. CASE UpsAction
  <2>1. PICK sev \in Severities : Emit("UPS Action", sev)
    BY <1>5 DEF UpsAction, Severities
  <2>2. /\ ~Over /\ UNCHANGED poweroff /\ pc' = "controller"
        /\ "UPS Action" \in Titles \ Terminals /\ "UPS Action" \in Titles
    BY <1>5 DEF UpsAction, Goto, Over, Titles, Terminals
  <2>3. Told("UPS Action")
    BY <2>1, <2>2, EmitTells
  <2> QED
    BY <1>1, <2>2, <2>3, GoesOnTelling
<1>6. CASE PoweroffAnnounced
  <2> DEFINE title == "Controller Poweroff Initiated"
  <2>1. Emit(title, "critical")
    BY <1>6 DEF PoweroffAnnounced
  <2>2. /\ ~Over /\ UNCHANGED poweroff /\ pc' = "poweroff" /\ ~dry_run
        /\ title \in Titles \ Terminals /\ title \in Titles
        /\ "critical" \in Severities
    BY <1>6 DEF PoweroffAnnounced, Goto, Real, outside, Over, Titles, Terminals,
                Severities
  <2>3. Told(title)
    BY <2>1, <2>2, EmitTells
  <2> QED
    BY <1>1, <2>2, <2>3, GoesOnTelling
<1>7. CASE PoweroffRefused
  <2> DEFINE title == "Controller Poweroff Failed"
  <2>1. Emit(title, "error")
    BY <1>7 DEF PoweroffRefused
  <2>2. /\ ~Over /\ UNCHANGED poweroff /\ pc' = "terminal" /\ ~dry_run
        /\ title \in Titles \ Terminals /\ title \in Titles
        /\ "error" \in Severities
    BY <1>7 DEF PoweroffRefused, Goto, outside, Over, Titles, Terminals,
                Severities, EventInv
  <2>3. Told(title)
    BY <2>1, <2>2, EmitTells
  <2> QED
    BY <1>1, <2>2, <2>3, GoesOnTelling
<1>8. CASE PoweroffAccepted
  BY <1>1, <1>8 DEF PoweroffAccepted, Goto, EventInv, Over, LastTitle, Halted
<1>9. CASE Terminal
  <2>11. PICK title \in Titles :
            title = IF dry_run THEN "Dry Run Complete"
                    ELSE IF Halted THEN "Shutdown Workflow Halted"
                    ELSE "Shutdown Workflow Complete"
    BY DEF Titles
  <2>1. PICK sev \in Severities : Emit(title, sev)
    BY <1>9, <2>11 DEF Terminal, Severities
  <2>2. /\ title \in Titles /\ title # "Controller Poweroff Failed"
        /\ pc = "terminal" /\ pc' = "done" /\ UNCHANGED poweroff
    BY <1>9, <2>11 DEF Terminal, Goto, outside
  <2>3. Told(title)
    BY <2>1, <2>2, EmitTells
  <2>4. ~poweroff /\ ~Over /\ Over'
    BY <2>2 DEF EventInv, Over
  <2>5. LastTitle' = title /\ Len(events') > 0
    BY <2>3, ToldLast
  <2>6. ASSUME NEW i \in DOMAIN events'
        PROVE  \/ i \in DOMAIN events /\ events'[i] = events[i]
               \/ i = Len(events')
    BY <2>3, <2>6, ToldLast
  <2>7. ASSUME NEW i \in DOMAIN events', events'[i].title \in Terminals
        PROVE  i = Len(events')
    BY <2>4, <2>6, <2>7 DEF EventInv
  <2>10. \A i \in DOMAIN events : events'[i] = events[i]
    BY <2>3 DEF Told
  <2>8. Halted' <=> Halted
    BY <2>2, <2>3, <2>10, ToldLast DEF Halted
  <2>9. LastTitle' = IF dry_run' THEN "Dry Run Complete"
                     ELSE IF Halted' THEN "Shutdown Workflow Halted"
                     ELSE "Shutdown Workflow Complete"
    BY <1>1, <2>5, <2>8, <2>11
  <2> QED
    BY <1>1, <2>2, <2>4, <2>5, <2>7, <2>8, <2>9 DEF EventInv
<1>10. CASE Stopped
  <2>1. UNCHANGED <<events, poweroff>>
    BY <1>10 DEF Stopped, reports, outside
  <2>2. pc = "done" /\ pc' = "stopped" /\ poweroff
    BY <1>10 DEF Stopped, Goto
  <2> QED
    BY <1>1, <2>1, <2>2 DEF EventInv, Over, LastTitle, Halted
<1>11. CASE Ended \/ UNCHANGED vars \/ \E k \in Targets : Execute(k)
  <2>1. UNCHANGED <<pc, events, poweroff>>
    BY <1>11
       DEF Ended, vars, control, reports, outside, Execute, Fires, ShellEnds,
           Acted, Confirmed
  <2> QED
    BY <1>1, <2>1 DEF EventInv, Over, LastTitle, Halted
<1> QED
  BY <1>2, <1>3, <1>4, <1>5, <1>6, <1>7, <1>8, <1>9, <1>10, <1>11
     DEF Next, Phase1, Phases23

\* The last event tells how the workflow ended, and no event before it claims
\* an end (shutdown.c:847-857, 921-924).
THEOREM EventsTellTheEnd == SafeSpec => []EventStory
<1> DEFINE Inv == TypeInv /\ EventInv
<1>1. Init => Inv
  BY TypeInit, EventInit
<1>2. Inv /\ [Next]_vars => Inv'
  BY TypeStep, EventStep
<1>3. Inv => EventStory
  <2> SUFFICES ASSUME Inv, Over PROVE EventStory
    BY DEF EventStory
  <2>1. Len(events) \in Nat /\ DOMAIN events = 1..Len(events)
    <3>1. events \in Seq(Reported)
      BY DEF TypeInv, ReportType
    <3> HIDE DEF Reported
    <3> QED
      BY <3>1
  <2>3. \A i \in DOMAIN events : events[i].title \in Terminals => i = Len(events)
    BY DEF EventInv
  <2>4. ASSUME NEW n \in Nat
        PROVE  \A i \in 1..(n - 1) : i \in 1..n /\ i # n
    OBVIOUS
  <2>2. \A i \in 1..(Len(events) - 1) : events[i].title \notin Terminals
    BY <2>1, <2>3, <2>4
  <2>5. poweroff => LastTitle = "Controller Poweroff Initiated"
    BY DEF EventInv
  <2>6. ~poweroff =>
          LastTitle = IF dry_run THEN "Dry Run Complete"
                      ELSE IF Halted THEN "Shutdown Workflow Halted"
                      ELSE "Shutdown Workflow Complete"
    BY DEF EventInv
  <2>7. CASE poweroff
    BY <2>2, <2>5, <2>7 DEF EventStory, LastTitle
  <2>8. CASE ~poweroff
    <3>1. CASE dry_run
      BY <2>2, <2>6, <2>8, <3>1 DEF EventInv, EventStory, LastTitle, Halted
    <3>2. CASE ~dry_run /\ Halted
      BY <2>2, <2>6, <2>8, <3>2 DEF EventStory, LastTitle, Halted
    <3>3. CASE ~dry_run /\ ~Halted
      BY <2>2, <2>6, <2>8, <3>3 DEF EventStory, LastTitle, Halted
    <3> QED
      BY <3>1, <3>2, <3>3
  <2> QED
    BY <2>7, <2>8
<1> QED
  BY <1>1, <1>2, <1>3, PTL DEF SafeSpec
=============================================================================
