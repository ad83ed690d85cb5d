--------------------------- MODULE WeatherProofs ---------------------------
(***************************************************************************)
(* Proofs about Weather, for every set of register values, every setting,  *)
(* any number of restarts and every fault: in fair weather the register is *)
(* what the operator left it at unless the override was forgotten, and the *)
(* events tell the weather.                                                *)
(***************************************************************************)
EXTENDS Weather, TLAPS

-----------------------------------------------------------------------------
(* Types *)

\* The count is below the threshold but while the poll ends the inhibit.
TypeInv ==
  /\ TypeOK
  /\ monitor \in {"idle", "check", "count"} =>
       he_reengage_count < HE_REENGAGE_THRESHOLD

LEMMA TypeInit == Init => TypeInv
<1> SUFFICES ASSUME Init PROVE TypeInv
  OBVIOUS
<1>1. /\ {reg, saved, operators} \subseteq Values /\ normal \in NormalValues
      /\ he_reengage_count \in 0..HE_REENGAGE_THRESHOLD
      /\ he_reengage_count < HE_REENGAGE_THRESHOLD /\ ends \in 0..MaxEnds
  BY WeatherAssumption DEF WeatherAssumption, Init
<1>2. /\ {storm, severe, active, has_saved, he_inhibit, seen_he, forgotten,
         told, dropped} \subseteq BOOLEAN
      /\ basis = "answer" /\ weather = "asleep" /\ monitor = "idle"
      /\ sim = "none" /\ he_source = "none"
  BY DEF Init
<1> QED
  BY <1>1, <1>2 DEF TypeInv, TypeOK

LEMMA Numbers ==
  /\ HE_REENGAGE_THRESHOLD \in Nat /\ HE_REENGAGE_THRESHOLD > 0
  /\ MaxEnds \in Nat
BY WeatherAssumption

LEMMA TypeStep == TypeInv /\ [Next]_vars => TypeInv'
<1> SUFFICES ASSUME TypeInv, [Next]_vars PROVE TypeInv'
  OBVIOUS
<1> USE DEF TypeInv, TypeOK
<1>1. CASE WeatherTurns \/ OperatorSets \/ Simulate
  BY <1>1
     DEF WeatherTurns, OperatorSets, Simulate, memory, cycle, saving, inhibit,
         poll, register, story
<1>2. CASE Assess
  BY <1>2 DEF Assess, saving, inhibit, poll, register, story
<1>3. CASE TakeSim \/ Look \/ Decide
  BY <1>3
     DEF TakeSim, Look, Decide, memory, cycle, saving, inhibit, poll,
         register, story
<1>4. CASE Save
  BY <1>4 DEF Save, Found, cycle, inhibit, poll, register, story
<1>5. CASE Override
  BY <1>5, WeatherAssumption
     DEF Override, Register, memory, cycle, saving, inhibit, poll,
         register, story
<1>6. CASE SetInhibit \/ SetSource \/ TellWeather
  BY <1>6
     DEF SetInhibit, SetSource, TellWeather, memory, cycle, saving, inhibit,
         poll, register, story
<1>7. CASE Restore
  BY <1>7, WeatherAssumption
     DEF Restore, Target, Forget, Register, cycle, inhibit, poll, register,
         story
<1>8. CASE Release \/ Unname
  <2>1. CASE Release
    BY <2>1, Numbers
       DEF Release, memory, cycle, saving, poll, register, story
  <2>2. CASE Unname
    BY <2>2, Numbers
       DEF Unname, memory, cycle, saving, poll, register, story
  <2> QED
    BY <1>8, <2>1, <2>2
<1>9. CASE Poll \/ PollCheck
  BY <1>9
     DEF Poll, PollCheck, memory, cycle, saving, inhibit, register, story
<1>10. CASE PollCount
  BY <1>10, Numbers
     DEF PollCount, Counted, Stable, memory, cycle, saving, register, story
<1>11. CASE PollClears \/ PollUnnames
  <2>1. CASE PollClears
    BY <2>1, Numbers
       DEF PollClears, Forget, Register, memory, cycle, saving
  <2>2. CASE PollUnnames
    BY <2>2, Numbers
       DEF PollUnnames, Forget, Register, memory, cycle, saving
  <2> QED
    BY <1>11, <2>1, <2>2
<1>12. CASE Restart
  <2>1. ends' \in 0..MaxEnds
    BY <1>12, Numbers DEF Restart
  <2>2. UNCHANGED <<storm, told, reg, operators, saved>>
    BY <1>12 DEF Restart, MemoryLost, Forget, Register
  <2>3. /\ weather' = "asleep" /\ monitor' = "idle" /\ basis' = "answer"
        /\ sim' = "none" /\ he_source' = "none" /\ he_reengage_count' = 0
        /\ normal' \in NormalValues
    BY <1>12 DEF Restart, MemoryLost
  <2>4. {severe, active, has_saved, he_inhibit, seen_he, forgotten,
         dropped}' \subseteq BOOLEAN
    BY <1>12 DEF Restart, MemoryLost, Forget, Register
  <2> QED
    BY <2>1, <2>2, <2>3, <2>4, Numbers
<1>13. CASE UNCHANGED vars
  BY <1>13
     DEF vars, memory, cycle, saving, inhibit, poll, register, story
<1> QED
  BY <1>1, <1>2, <1>3, <1>4, <1>5, <1>6, <1>7, <1>8, <1>9, <1>10, <1>11,
     <1>12, <1>13
     DEF Next, Cycle, PollStep

-----------------------------------------------------------------------------
(* The register *)

\* The register is overridden and nothing has forgotten so.
Remembered == reg # operators /\ ~forgotten

\* What the thread has decided tells the weather it has seen.
Course ==
  /\ weather \in {"save", "override", "inhibit", "name"} => severe
  /\ weather \in {"restore", "release", "unname"} => ~severe

\* An override that is remembered can be undone, and will be: the value to put
\* back is at hand, and the inhibit that leads to Restore is in force or about
\* to be.  A register that is not what the operator left it at holds
\* the severe value.
OverrideInv ==
  /\ Course
  /\ reg \in {operators, SevereValue}
  /\ has_saved => saved \in {operators, SevereValue}
  /\ has_saved /\ ~forgotten => saved = operators
  /\ forgotten => reg # operators
  /\ Remembered =>
       /\ normal = RestoreSaved => has_saved
       /\ weather \notin {"save", "override", "release", "unname"}
       /\ weather = "name" => he_inhibit
       /\ weather \notin {"inhibit", "name"} =>
            he_inhibit /\ he_source = "weather"
       /\ weather = "decide" => active
       /\ weather \in {"asleep", "tell"} => severe

LEMMA OverrideInit == Init => OverrideInv
BY DEF Init, OverrideInv, Remembered, Course

LEMMA OverrideStep == OverrideInv /\ [Next]_vars => OverrideInv'
<1> SUFFICES ASSUME OverrideInv, [Next]_vars PROVE OverrideInv'
  OBVIOUS
<1> USE DEF OverrideInv, Remembered, Course
<1>1. CASE WeatherTurns \/ Simulate \/ Poll \/ PollCheck \/ PollCount
  <2>1. CASE WeatherTurns
    BY <2>1
       DEF WeatherTurns, memory, cycle, saving, inhibit, poll, register, story
  <2>2. CASE Simulate
    BY <2>2
       DEF Simulate, memory, cycle, saving, inhibit, poll, register, story
  <2>3. CASE Poll
    BY <2>3
       DEF Poll, memory, cycle, saving, inhibit, poll, register, story
  <2>4. CASE PollCheck
    BY <2>4
       DEF PollCheck, memory, cycle, saving, inhibit, poll, register, story
  <2>5. CASE PollCount
    BY <2>5
       DEF PollCount, memory, cycle, saving, inhibit, poll, register, story
  <2> QED
    BY <1>1, <2>1, <2>2, <2>3, <2>4, <2>5
<1>2. CASE OperatorSets
  BY <1>2 DEF OperatorSets, memory, cycle, saving, inhibit
<1>3. CASE Assess \/ TakeSim
  BY <1>3
     DEF Assess, TakeSim, memory, cycle, saving, inhibit, register
<1>4. CASE Look
  BY <1>4 DEF Look, saving, inhibit, register
<1>5. CASE Decide
  BY <1>5
     DEF Decide, MustOverride, MustRestore, memory, cycle, saving, inhibit,
         register
<1>6. CASE Save
  BY <1>6 DEF Save, Found, cycle, inhibit, register
<1>7. CASE Override
  <2>1. /\ weather = "override" /\ weather' = "inhibit"
        /\ UNCHANGED <<normal, severe, active, saved, has_saved, he_inhibit,
                       he_source, operators>>
    BY <1>7 DEF Override, Register, memory, cycle, saving, inhibit, register
  <2>2. CASE Register(SevereValue, NothingSaved)
    <3>1. reg' = SevereValue
      BY <2>2 DEF Register
    <3>2. forgotten' <=> SevereValue # operators /\ (forgotten \/ NothingSaved)
      BY <2>2 DEF Register
    <3> QED
      BY <2>1, <3>1, <3>2 DEF NothingSaved
  <2>3. CASE UNCHANGED register
    BY <2>1, <2>3 DEF register
  <2> QED
    BY <1>7, <2>2, <2>3 DEF Override
<1>8. CASE SetInhibit \/ SetSource
  BY <1>8
     DEF SetInhibit, SetSource, memory, cycle, saving, register
<1>9. CASE Restore
  <2>1. /\ weather = "restore" /\ weather' = "release" /\ ~has_saved'
        /\ UNCHANGED <<normal, severe, active, he_inhibit, he_source>>
    BY <1>9 DEF Restore, cycle, inhibit
  <2>2. CASE /\ ~NothingSaved
             /\ operators' = IF normal = RestoreSaved THEN operators
                                                           ELSE normal
             /\ reg' = Target
             /\ forgotten' = (reg' # operators' /\ forgotten)
    <3>1. forgotten' <=> reg' # operators' /\ forgotten
      BY <2>2
    <3> QED
      BY <2>1, <2>2, <3>1 DEF Target, NothingSaved
  <2>3. CASE NothingSaved /\ UNCHANGED register
    BY <2>1, <2>3 DEF NothingSaved, register
  <2>4. CASE Forget
    <3>1. UNCHANGED <<reg, operators>>
      BY <2>4 DEF Forget, Register
    <3>2. forgotten' <=> reg # operators
      BY <2>4 DEF Forget, Register
    <3> QED
      BY <2>1, <3>1, <3>2
  <2> QED
    BY <1>9, <2>2, <2>3, <2>4 DEF Restore
<1>10. CASE Release \/ Unname \/ TellWeather
  BY <1>10
     DEF Release, Unname, TellWeather, memory, cycle, saving, inhibit, register
<1>11. CASE PollClears \/ PollUnnames
  <2>1. CASE PollClears
    BY <2>1
       DEF PollClears, Forget, Register, memory, cycle, saving
  <2>2. CASE PollUnnames
    BY <2>2
       DEF PollUnnames, Forget, Register, memory, cycle, saving
  <2> QED
    BY <1>11, <2>1, <2>2
<1>12. CASE Restart
  BY <1>12 DEF Restart, MemoryLost, Forget, Register
<1>13. CASE UNCHANGED vars
  BY <1>13
     DEF vars, memory, cycle, saving, inhibit, poll, register, story
<1> QED
  BY <1>1, <1>2, <1>3, <1>4, <1>5, <1>6, <1>7, <1>8, <1>9, <1>10, <1>11,
     <1>12, <1>13
     DEF Next, Cycle, PollStep

-----------------------------------------------------------------------------
(* The events *)

\* The thread's inhibit and the last event agree when the thread is not on its
\* way from one to the other: nobody but the thread sets the inhibit, and
\* whoever else ends it is on record.
TellInv ==
  /\ Course
  /\ weather \in {"asleep", "assessed", "look", "decide"} =>
       /\ he_inhibit => told
       /\ told /\ ~dropped => he_inhibit /\ he_source = "weather"
  /\ weather = "decide" => (he_inhibit => active) /\ (active => told)
  /\ weather = "name" => he_inhibit \/ dropped
  /\ weather = "tell" /\ severe =>
       dropped \/ (he_inhibit /\ he_source = "weather")
  /\ weather = "unname" \/ (weather = "tell" /\ ~severe) => ~he_inhibit
  /\ weather = "asleep" => (severe => told)
  /\ weather = "asleep" /\ ~severe =>
       /\ told => dropped
       /\ he_inhibit => he_source # "weather"

LEMMA TellInit == Init => TellInv
BY DEF Init, TellInv, Course

LEMMA TellStep == TypeOK /\ TellInv /\ [Next]_vars => TellInv'
<1> SUFFICES ASSUME TypeOK, TellInv, [Next]_vars PROVE TellInv'
  OBVIOUS
<1> USE DEF TellInv, Course
<1>1. CASE WeatherTurns \/ Simulate \/ OperatorSets
  BY <1>1
     DEF WeatherTurns, Simulate, OperatorSets, memory, cycle, inhibit, story
<1>2. CASE Assess \/ TakeSim \/ Look
  BY <1>2
     DEF Assess, TakeSim, Look, memory, cycle, inhibit, story
<1>3. CASE Decide
  BY <1>3
     DEF Decide, MustOverride, MustRestore, memory, cycle, inhibit, story
<1>4. CASE Save \/ Override \/ Restore
  BY <1>4 DEF Save, Override, Restore, memory, cycle, inhibit, story
<1>5. CASE SetInhibit \/ SetSource
  BY <1>5 DEF SetInhibit, SetSource, memory, cycle, story
<1>6. CASE Release \/ Unname
  <2>1. CASE Release
    BY <2>1
       DEF Release, memory, cycle, story
  <2>2. CASE Unname
    BY <2>2
       DEF Unname, memory, cycle, story
  <2> QED
    BY <1>6, <2>1, <2>2
<1>7. CASE TellWeather
  BY <1>7 DEF TellWeather, memory, cycle, inhibit
<1>8. CASE Poll \/ PollCheck \/ PollCount
  <2>1. UNCHANGED <<weather, severe, active, he_inhibit, he_source, told,
                    dropped>>
    BY <1>8
       DEF Poll, PollCheck, PollCount, memory, cycle, inhibit, story
  <2> QED
    BY <2>1
<1>9. CASE PollClears \/ PollUnnames
  BY <1>9 DEF PollClears, PollUnnames, memory, cycle
<1>10. CASE Restart
  BY <1>10 DEF Restart, MemoryLost
<1>11. CASE UNCHANGED vars
  BY <1>11 DEF vars, memory, cycle, inhibit, story
<1> QED
  BY <1>1, <1>2, <1>3, <1>4, <1>5, <1>6, <1>7, <1>8, <1>9, <1>10, <1>11
     DEF Next, Cycle, PollStep

-----------------------------------------------------------------------------
(* The theorems *)

\* Every reachable state of the weather thread and of the poll's paragraph is
\* well typed.
THEOREM WeatherTypeCorrect == Spec => []TypeOK
<1>1. TypeInv => TypeOK
  BY DEF TypeInv
<1> QED
  BY <1>1, TypeInit, TypeStep, PTL DEF Spec

\* Whatever reads, writes and answers fail and however the poll and the thread
\* interleave: in fair weather the register is what the operator left it at,
\* unless the override was forgotten in one of the ways `forgotten' names
\* (apply_severe and apply_restore, weather.c:325-373).
THEOREM RegisterRestored == Spec => []Restored
<1>1. OverrideInv => Restored
  BY DEF OverrideInv, Remembered, Restored
<1> QED
  BY <1>1, OverrideInit, OverrideStep, PTL DEF Spec

\* Between two cycles the last event tells the weather and the inhibit of the
\* thread does not outlast it (weather_thread, weather.c:420-439).
THEOREM WeatherStoryKept == Spec => []StoryTold
<1>1. TellInv => StoryTold
  BY DEF TellInv, StoryTold
<1>2. TypeInv => TypeOK
  BY DEF TypeInv
<1> QED
  BY <1>1, <1>2, TypeInit, TypeStep, TellInit, TellStep, PTL DEF Spec

=============================================================================
