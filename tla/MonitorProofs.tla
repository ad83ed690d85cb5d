---------------------------- MODULE MonitorProofs ----------------------------
(***************************************************************************)
(* Proofs about Monitor, for every set of readings and any number of       *)
(* restarts.  The invariant says, for each condition and each place a      *)
(* thread can stand in, how the last event told, the memory of the thread  *)
(* and the saved row agree.                                                *)
(***************************************************************************)
EXTENDS Monitor, TLAPS

-----------------------------------------------------------------------------
(* The events *)

\* The conditions the slow thread alone tells of and whose bits the row keeps.
RowWatch == SlowWatch \cup AlertWatch

\* The fast loop's conditions of one bit.
OneBitWatch == {e \in FastWatch : e.title # "Fault"}

RowTitles  == {"HEMode", "SelfTest", "UPSOverload", "UPSFault",
               "UPSBatteryReplace"}
FastTitles == {"OnBattery", "OutputOff", "Bypass", "Fault", "Overload"}

\* The two events of a condition differ only in what they say.
LEMMA PairEvents ==
  ASSUME NEW nr, NEW title, NEW bits, NEW e \in Pair(nr, title, bits)
  PROVE  /\ e.title = title /\ e.bits = bits
         /\ e.on = TRUE \/ e.on = FALSE
         /\ \A f \in Pair(nr, title, bits) : e.on = f.on => e = f
<1> DEFINE began == [nr |-> nr, title |-> title, bits |-> bits, on |-> TRUE]
           ended == [nr |-> nr + 1, title |-> title, bits |-> bits,
                     on |-> FALSE]
<1>1. Pair(nr, title, bits) = {began, ended}
  BY DEF Pair
<1>2. began.on = TRUE /\ began.title = title /\ began.bits = bits
  OBVIOUS
<1>3. ended.on = FALSE /\ ended.title = title /\ ended.bits = bits
  OBVIOUS
<1> HIDE DEF began, ended
<1> QED
  BY <1>1, <1>2, <1>3

LEMMA PairBoth ==
  ASSUME NEW nr, NEW title, NEW bits
  PROVE  /\ \E f \in Pair(nr, title, bits) : f.on = TRUE
         /\ \E f \in Pair(nr, title, bits) : f.on = FALSE
<1> DEFINE began == [nr |-> nr, title |-> title, bits |-> bits, on |-> TRUE]
           ended == [nr |-> nr + 1, title |-> title, bits |-> bits,
                     on |-> FALSE]
<1>1. began.on = TRUE /\ ended.on = FALSE
  OBVIOUS
<1>2. began \in Pair(nr, title, bits) /\ ended \in Pair(nr, title, bits)
  BY DEF Pair
<1> HIDE DEF began, ended
<1> QED
  BY <1>1, <1>2

\* The row's conditions: who tells of them, and that a title names one
\* condition of one bit, which the row keeps.
LEMMA RowEvents ==
  \A e \in RowWatch :
    /\ e.title \in RowTitles
    /\ e.on = TRUE \/ e.on = FALSE
    /\ \E b : e.bits = {b} /\ b # "SHUTDOWN_IMMINENT"
    /\ \A f \in RowWatch :
         f.title = e.title => f.bits = e.bits /\ (f.on = e.on => f = e)
    /\ \E f, g \in RowWatch :
         /\ f.title = e.title /\ f.bits = e.bits /\ f.on = TRUE
         /\ g.title = e.title /\ g.bits = e.bits /\ g.on = FALSE
<1> DEFINE he == Pair(8, "HEMode", {"HE_MODE"})
           test == Pair(10, "SelfTest", {"TEST"})
           load == Pair(2, "UPSOverload", {"OVERLOAD"})
           fault == Pair(4, "UPSFault", {"FAULT"})
           worn == Pair(6, "UPSBatteryReplace", {"BAT_REPLACE"})
<1>1. RowWatch = he \cup test \cup load \cup fault \cup worn
  BY DEF RowWatch, SlowWatch, AlertWatch
<1>2. \A f \in he :
        /\ f.title = "HEMode" /\ f.bits = {"HE_MODE"}
        /\ f.on = TRUE \/ f.on = FALSE
        /\ \A g \in he : f.on = g.on => f = g
  BY PairEvents
<1>3. \A f \in test :
        /\ f.title = "SelfTest" /\ f.bits = {"TEST"}
        /\ f.on = TRUE \/ f.on = FALSE
        /\ \A g \in test : f.on = g.on => f = g
  BY PairEvents
<1>4. \A f \in load :
        /\ f.title = "UPSOverload" /\ f.bits = {"OVERLOAD"}
        /\ f.on = TRUE \/ f.on = FALSE
        /\ \A g \in load : f.on = g.on => f = g
  BY PairEvents
<1>5. \A f \in fault :
        /\ f.title = "UPSFault" /\ f.bits = {"FAULT"}
        /\ f.on = TRUE \/ f.on = FALSE
        /\ \A g \in fault : f.on = g.on => f = g
  BY PairEvents
<1>6. \A f \in worn :
        /\ f.title = "UPSBatteryReplace" /\ f.bits = {"BAT_REPLACE"}
        /\ f.on = TRUE \/ f.on = FALSE
        /\ \A g \in worn : f.on = g.on => f = g
  BY PairEvents
<1> HIDE DEF he, test, load, fault, worn
<1>7. ASSUME NEW e \in RowWatch
      PROVE  /\ e.title \in RowTitles
             /\ e.on = TRUE \/ e.on = FALSE
             /\ \E b : e.bits = {b} /\ b # "SHUTDOWN_IMMINENT"
  <2>1. CASE e \in he
    <3> e.bits = {"HE_MODE"} /\ "HE_MODE" # "SHUTDOWN_IMMINENT"
      BY <1>2, <2>1
    <3> QED
      BY <1>2, <2>1 DEF RowTitles
  <2>2. CASE e \in test
    <3> e.bits = {"TEST"} /\ "TEST" # "SHUTDOWN_IMMINENT"
      BY <1>3, <2>2
    <3> QED
      BY <1>3, <2>2 DEF RowTitles
  <2>3. CASE e \in load
    <3> e.bits = {"OVERLOAD"} /\ "OVERLOAD" # "SHUTDOWN_IMMINENT"
      BY <1>4, <2>3
    <3> QED
      BY <1>4, <2>3 DEF RowTitles
  <2>4. CASE e \in fault
    <3> e.bits = {"FAULT"} /\ "FAULT" # "SHUTDOWN_IMMINENT"
      BY <1>5, <2>4
    <3> QED
      BY <1>5, <2>4 DEF RowTitles
  <2>5. CASE e \in worn
    <3> e.bits = {"BAT_REPLACE"} /\ "BAT_REPLACE" # "SHUTDOWN_IMMINENT"
      BY <1>6, <2>5
    <3> QED
      BY <1>6, <2>5 DEF RowTitles
  <2> QED
    BY <1>1, <2>1, <2>2, <2>3, <2>4, <2>5
<1>8. ASSUME NEW e \in RowWatch, NEW f \in RowWatch, f.title = e.title
      PROVE  f.bits = e.bits /\ (f.on = e.on => f = e)
  <2>1. CASE e \in he
    <3>1. f \in he
      BY <1>1, <1>2, <1>3, <1>4, <1>5, <1>6, <1>8, <2>1
    <3> QED
      BY <1>2, <2>1, <3>1
  <2>2. CASE e \in test
    <3>1. f \in test
      BY <1>1, <1>2, <1>3, <1>4, <1>5, <1>6, <1>8, <2>2
    <3> QED
      BY <1>3, <2>2, <3>1
  <2>3. CASE e \in load
    <3>1. f \in load
      BY <1>1, <1>2, <1>3, <1>4, <1>5, <1>6, <1>8, <2>3
    <3> QED
      BY <1>4, <2>3, <3>1
  <2>4. CASE e \in fault
    <3>1. f \in fault
      BY <1>1, <1>2, <1>3, <1>4, <1>5, <1>6, <1>8, <2>4
    <3> QED
      BY <1>5, <2>4, <3>1
  <2>5. CASE e \in worn
    <3>1. f \in worn
      BY <1>1, <1>2, <1>3, <1>4, <1>5, <1>6, <1>8, <2>5
    <3> QED
      BY <1>6, <2>5, <3>1
  <2> QED
    BY <1>1, <2>1, <2>2, <2>3, <2>4, <2>5
<1>9. ASSUME NEW e \in RowWatch
      PROVE  \E f, g \in RowWatch :
               /\ f.title = e.title /\ f.bits = e.bits /\ f.on = TRUE
               /\ g.title = e.title /\ g.bits = e.bits /\ g.on = FALSE
  <2>1. CASE e \in he
    <3>1. PICK f \in he : f.on = TRUE
      BY PairBoth DEF he
    <3>2. PICK g \in he : g.on = FALSE
      BY PairBoth DEF he
    <3>3. f \in RowWatch /\ f.title = e.title /\ f.bits = e.bits
      BY <1>1, <1>2, <2>1
    <3>4. g \in RowWatch /\ g.title = e.title /\ g.bits = e.bits
      BY <1>1, <1>2, <2>1
    <3> QED
      BY <3>1, <3>2, <3>3, <3>4
  <2>2. CASE e \in test
    <3>1. PICK f \in test : f.on = TRUE
      BY PairBoth DEF test
    <3>2. PICK g \in test : g.on = FALSE
      BY PairBoth DEF test
    <3>3. f \in RowWatch /\ f.title = e.title /\ f.bits = e.bits
      BY <1>1, <1>3, <2>2
    <3>4. g \in RowWatch /\ g.title = e.title /\ g.bits = e.bits
      BY <1>1, <1>3, <2>2
    <3> QED
      BY <3>1, <3>2, <3>3, <3>4
  <2>3. CASE e \in load
    <3>1. PICK f \in load : f.on = TRUE
      BY PairBoth DEF load
    <3>2. PICK g \in load : g.on = FALSE
      BY PairBoth DEF load
    <3>3. f \in RowWatch /\ f.title = e.title /\ f.bits = e.bits
      BY <1>1, <1>4, <2>3
    <3>4. g \in RowWatch /\ g.title = e.title /\ g.bits = e.bits
      BY <1>1, <1>4, <2>3
    <3> QED
      BY <3>1, <3>2, <3>3, <3>4
  <2>4. CASE e \in fault
    <3>1. PICK f \in fault : f.on = TRUE
      BY PairBoth DEF fault
    <3>2. PICK g \in fault : g.on = FALSE
      BY PairBoth DEF fault
    <3>3. f \in RowWatch /\ f.title = e.title /\ f.bits = e.bits
      BY <1>1, <1>5, <2>4
    <3>4. g \in RowWatch /\ g.title = e.title /\ g.bits = e.bits
      BY <1>1, <1>5, <2>4
    <3> QED
      BY <3>1, <3>2, <3>3, <3>4
  <2>5. CASE e \in worn
    <3>1. PICK f \in worn : f.on = TRUE
      BY PairBoth DEF worn
    <3>2. PICK g \in worn : g.on = FALSE
      BY PairBoth DEF worn
    <3>3. f \in RowWatch /\ f.title = e.title /\ f.bits = e.bits
      BY <1>1, <1>6, <2>5
    <3>4. g \in RowWatch /\ g.title = e.title /\ g.bits = e.bits
      BY <1>1, <1>6, <2>5
    <3> QED
      BY <3>1, <3>2, <3>3, <3>4
  <2> QED
    BY <1>1, <2>1, <2>2, <2>3, <2>4, <2>5
<1> QED
  BY <1>7, <1>8, <1>9

\* The fast loop's conditions.
LEMMA FastEvents ==
  \A e \in FastWatch :
    /\ e.title \in FastTitles
    /\ e.on = TRUE \/ e.on = FALSE
    /\ e.title # "Fault" => \E b : e.bits = {b}
    /\ \A f \in FastWatch :
         f.title = e.title => f.bits = e.bits /\ (f.on = e.on => f = e)
    /\ \E f, g \in FastWatch :
         /\ f.title = e.title /\ f.bits = e.bits /\ f.on = TRUE
         /\ g.title = e.title /\ g.bits = e.bits /\ g.on = FALSE
<1> DEFINE battery == Pair(0, "OnBattery", {"ON_BATTERY"})
           off == Pair(2, "OutputOff", {"OUTPUT_OFF"})
           bypass == Pair(4, "Bypass", {"BYPASS"})
           fault == Pair(6, "Fault", {"FAULT", "FAULT_STATE"})
           load == Pair(8, "Overload", {"OVERLOAD"})
<1>1. FastWatch = battery \cup off \cup bypass \cup fault \cup load
  BY DEF FastWatch
<1>2. \A f \in battery :
        /\ f.title = "OnBattery" /\ f.bits = {"ON_BATTERY"}
        /\ f.on = TRUE \/ f.on = FALSE
        /\ \A g \in battery : f.on = g.on => f = g
  BY PairEvents
<1>3. \A f \in off :
        /\ f.title = "OutputOff" /\ f.bits = {"OUTPUT_OFF"}
        /\ f.on = TRUE \/ f.on = FALSE
        /\ \A g \in off : f.on = g.on => f = g
  BY PairEvents
<1>4. \A f \in bypass :
        /\ f.title = "Bypass" /\ f.bits = {"BYPASS"}
        /\ f.on = TRUE \/ f.on = FALSE
        /\ \A g \in bypass : f.on = g.on => f = g
  BY PairEvents
<1>5. \A f \in fault :
        /\ f.title = "Fault" /\ f.bits = {"FAULT", "FAULT_STATE"}
        /\ f.on = TRUE \/ f.on = FALSE
        /\ \A g \in fault : f.on = g.on => f = g
  BY PairEvents
<1>6. \A f \in load :
        /\ f.title = "Overload" /\ f.bits = {"OVERLOAD"}
        /\ f.on = TRUE \/ f.on = FALSE
        /\ \A g \in load : f.on = g.on => f = g
  BY PairEvents
<1> HIDE DEF battery, off, bypass, fault, load
<1>7. \A e \in FastWatch :
        /\ e.title \in FastTitles
        /\ e.on = TRUE \/ e.on = FALSE
        /\ e.title # "Fault" => \E b : e.bits = {b}
  BY <1>1, <1>2, <1>3, <1>4, <1>5, <1>6 DEF FastTitles
<1>8. ASSUME NEW e \in FastWatch, NEW f \in FastWatch, f.title = e.title
      PROVE  f.bits = e.bits /\ (f.on = e.on => f = e)
  <2>1. CASE e \in battery
    <3>1. f \in battery
      BY <1>1, <1>2, <1>3, <1>4, <1>5, <1>6, <1>8, <2>1
    <3> QED
      BY <1>2, <2>1, <3>1
  <2>2. CASE e \in off
    <3>1. f \in off
      BY <1>1, <1>2, <1>3, <1>4, <1>5, <1>6, <1>8, <2>2
    <3> QED
      BY <1>3, <2>2, <3>1
  <2>3. CASE e \in bypass
    <3>1. f \in bypass
      BY <1>1, <1>2, <1>3, <1>4, <1>5, <1>6, <1>8, <2>3
    <3> QED
      BY <1>4, <2>3, <3>1
  <2>4. CASE e \in fault
    <3>1. f \in fault
      BY <1>1, <1>2, <1>3, <1>4, <1>5, <1>6, <1>8, <2>4
    <3> QED
      BY <1>5, <2>4, <3>1
  <2>5. CASE e \in load
    <3>1. f \in load
      BY <1>1, <1>2, <1>3, <1>4, <1>5, <1>6, <1>8, <2>5
    <3> QED
      BY <1>6, <2>5, <3>1
  <2> QED
    BY <1>1, <2>1, <2>2, <2>3, <2>4, <2>5
<1>9. ASSUME NEW e \in FastWatch
      PROVE  \E f, g \in FastWatch :
               /\ f.title = e.title /\ f.bits = e.bits /\ f.on = TRUE
               /\ g.title = e.title /\ g.bits = e.bits /\ g.on = FALSE
  <2>1. CASE e \in battery
    <3>1. PICK f \in battery : f.on = TRUE
      BY PairBoth DEF battery
    <3>2. PICK g \in battery : g.on = FALSE
      BY PairBoth DEF battery
    <3>3. f \in FastWatch /\ f.title = e.title /\ f.bits = e.bits
      BY <1>1, <1>2, <2>1
    <3>4. g \in FastWatch /\ g.title = e.title /\ g.bits = e.bits
      BY <1>1, <1>2, <2>1
    <3> QED
      BY <3>1, <3>2, <3>3, <3>4
  <2>2. CASE e \in off
    <3>1. PICK f \in off : f.on = TRUE
      BY PairBoth DEF off
    <3>2. PICK g \in off : g.on = FALSE
      BY PairBoth DEF off
    <3>3. f \in FastWatch /\ f.title = e.title /\ f.bits = e.bits
      BY <1>1, <1>3, <2>2
    <3>4. g \in FastWatch /\ g.title = e.title /\ g.bits = e.bits
      BY <1>1, <1>3, <2>2
    <3> QED
      BY <3>1, <3>2, <3>3, <3>4
  <2>3. CASE e \in bypass
    <3>1. PICK f \in bypass : f.on = TRUE
      BY PairBoth DEF bypass
    <3>2. PICK g \in bypass : g.on = FALSE
      BY PairBoth DEF bypass
    <3>3. f \in FastWatch /\ f.title = e.title /\ f.bits = e.bits
      BY <1>1, <1>4, <2>3
    <3>4. g \in FastWatch /\ g.title = e.title /\ g.bits = e.bits
      BY <1>1, <1>4, <2>3
    <3> QED
      BY <3>1, <3>2, <3>3, <3>4
  <2>4. CASE e \in fault
    <3>1. PICK f \in fault : f.on = TRUE
      BY PairBoth DEF fault
    <3>2. PICK g \in fault : g.on = FALSE
      BY PairBoth DEF fault
    <3>3. f \in FastWatch /\ f.title = e.title /\ f.bits = e.bits
      BY <1>1, <1>5, <2>4
    <3>4. g \in FastWatch /\ g.title = e.title /\ g.bits = e.bits
      BY <1>1, <1>5, <2>4
    <3> QED
      BY <3>1, <3>2, <3>3, <3>4
  <2>5. CASE e \in load
    <3>1. PICK f \in load : f.on = TRUE
      BY PairBoth DEF load
    <3>2. PICK g \in load : g.on = FALSE
      BY PairBoth DEF load
    <3>3. f \in FastWatch /\ f.title = e.title /\ f.bits = e.bits
      BY <1>1, <1>6, <2>5
    <3>4. g \in FastWatch /\ g.title = e.title /\ g.bits = e.bits
      BY <1>1, <1>6, <2>5
    <3> QED
      BY <3>1, <3>2, <3>3, <3>4
  <2> QED
    BY <1>1, <2>1, <2>2, <2>3, <2>4, <2>5
<1> QED
  BY <1>7, <1>8, <1>9

LEMMA LinkEvents ==
  /\ LinkWatch = {Lost, Found} /\ Lost.on = TRUE /\ Found.on = FALSE
  /\ Lost.title = "UPSDisconnected" /\ Found.title = "UPSDisconnected"
<1> DEFINE lost  == [nr |-> 0, title |-> "UPSDisconnected", bits |-> {},
                     on |-> TRUE]
           found == [nr |-> 1, title |-> "UPSDisconnected", bits |-> {},
                     on |-> FALSE]
<1>1. LinkWatch = {lost, found}
  BY DEF LinkWatch, Pair
<1>2. /\ lost.on = TRUE /\ lost.title = "UPSDisconnected"
      /\ found.on = FALSE /\ found.title = "UPSDisconnected"
  OBVIOUS
<1> HIDE DEF lost, found
<1>3. Lost = lost
  BY <1>1, <1>2 DEF Lost
<1>4. Found = found
  BY <1>1, <1>2 DEF Found
<1> QED
  BY <1>1, <1>2, <1>3, <1>4

\* Titles of one thread or kind are not those of another.
LEMMA DistinctTitles ==
  /\ Triggered.title = "ShutdownTriggered"
  /\ RowTitles \cap FastTitles = {}
  /\ {"UPSDisconnected", "ShutdownTriggered"} \cap RowTitles = {}
  /\ {"UPSDisconnected", "ShutdownTriggered"} \cap FastTitles = {}
  BY DEF RowTitles, FastTitles, Triggered

LEMMA Apart ==
  /\ \A e \in RowWatch : e.title \in RowTitles
  /\ \A e \in FastWatch : e.title \in FastTitles
  /\ \A e \in {Lost, Found, Triggered} :
       /\ e.title \notin RowTitles \cup FastTitles
       /\ e \notin RowWatch /\ e \notin FastWatch
<1>1. \A e \in RowWatch : e.title \in RowTitles
  BY RowEvents
<1>2. \A e \in FastWatch : e.title \in FastTitles
  BY FastEvents
<1>3. \A e \in {Lost, Found, Triggered} :
        e.title \notin RowTitles \cup FastTitles
  BY LinkEvents, DistinctTitles
<1> QED
  BY <1>1, <1>2, <1>3

\* What a change fires is watched, and what is watched is an event.
LEMMA EdgesWatched ==
  ASSUME NEW watch, NEW old, NEW new
  PROVE  Edges(watch, old, new) \subseteq watch
  BY DEF Edges

LEMMA UnlikeTitles ==
  ASSUME NEW watch, watch \subseteq Events, NEW reading
  PROVE  Unlike(watch, reading) \subseteq AllTitles
  BY DEF Unlike, Titles, AllTitles

LEMMA EventParts ==
  /\ FastWatch \subseteq Events /\ RowWatch \subseteq Events
  /\ AlertWatch \subseteq Events /\ SlowWatch \subseteq Events
  /\ LinkWatch \subseteq Events /\ Triggered \in Events
  /\ Lost \in Events /\ Found \in Events
  /\ "UPSDisconnected" \in AllTitles
<1>1. Lost \in Events /\ Lost.title = "UPSDisconnected"
  BY LinkEvents DEF Events
<1>2. "UPSDisconnected" \in AllTitles
  BY <1>1 DEF AllTitles, Titles
<1> QED
  BY <1>1, <1>2, LinkEvents DEF Events, RowWatch

-----------------------------------------------------------------------------
(* Types *)

LEMMA TrackedReadable ==
  ASSUME NEW reading \in Readable
  PROVE  Tracked(reading) \in Readable
  BY DEF Readable, Tracked

\* A dead daemon has no thread and no memory, a thread not started yet neither,
\* and a poll that is being told has been published.
ThreadsOK ==
  /\ main = "down" => /\ slow = "none" /\ fast = "none"
                      /\ first_tick = TRUE /\ polled = FALSE
                      /\ gone = FALSE /\ was_connected = FALSE
  /\ main = "starting" => fast = "none" /\ first_tick = TRUE
  /\ slow = "initial" => polled = FALSE /\ gone = FALSE
  /\ slow = "announce" => data # NoData /\ was_connected = TRUE
  /\ main \in {"stopping", "join_fast", "drop_fast", "join_slow"} =>
       deaths < MaxDeaths

TypeInv == TypeOK /\ ThreadsOK

\* Every step keeps the types, and a thread that is not telling has nothing left
\* to tell.
LEMMA TypeStep ==
  ASSUME TypeInv, [Next]_vars
  PROVE  TypeInv'
<1> USE MonitorAssumption DEF MonitorAssumption
<1> USE DEF TypeInv, TypeOK, ThreadsOK, slowVars, slowMem, fastVars, fastMem,
            link, row, told
<1>1. Loaded \in Readable
  BY DEF Loaded, Readable
<1>2. CASE UpsChanges
  BY <1>2 DEF UpsChanges
<1>3. CASE Boot
  <2>1. untold' \subseteq AllTitles
    BY <1>3, UnlikeTitles, EventParts DEF Boot, RowWatch
  <2> QED
    BY <1>1, <1>3, <2>1 DEF Boot, Seed
<1>4. CASE StartFast
  BY <1>4 DEF StartFast
<1>5. CASE StartSlowOnly
  BY <1>5 DEF StartSlowOnly
<1>6. CASE Stop
  BY <1>6 DEF Stop
<1>7. CASE StopFast
  BY <1>7 DEF StopFast
<1>8. CASE FreeFast
  BY <1>8 DEF FreeFast
<1>9. CASE DropFast
  BY <1>9 DEF DropFast
<1>10. CASE FinalSave
  <2>1. saved' \in Readable \cup {NoRow} /\ row_lost' \in BOOLEAN
    BY <1>10, TrackedReadable DEF FinalSave, WriteRow
  <2>2. deaths' \in 0..MaxDeaths
    BY <1>10 DEF FinalSave
  <2> QED
    BY <1>10, <2>1, <2>2 DEF FinalSave, MemoryLost, Readable
<1>11. CASE Crash
  <2>1. deaths' \in 0..MaxDeaths
    BY <1>11 DEF Crash
  <2> QED
    BY <1>11, <2>1 DEF Crash, MemoryLost, Readable
<1>12. CASE InitialRead
  BY <1>12 DEF InitialRead
<1>13. CASE Poll
  BY <1>13, EdgesWatched, EventParts, TrackedReadable DEF Poll
<1>14. CASE PollFlakes
  BY <1>14 DEF PollFlakes, vars
<1>15. CASE PollLost
  BY <1>15, EventParts DEF PollLost
<1>16. CASE SlowTells
  BY <1>16 DEF SlowTells, Tell, AllTitles, Titles
<1>17. CASE Save
  BY <1>17, TrackedReadable DEF Save, WriteRow, AllTold
<1>18. CASE LostTold
  BY <1>18 DEF LostTold
<1>19. CASE SlowEnds
  BY <1>19 DEF SlowEnds, MayEnd
<1>20. CASE Tick
  BY <1>20, EdgesWatched, UnlikeTitles, EventParts DEF Tick
<1>21. CASE FastTells
  BY <1>21 DEF FastTells, Tell, AllTitles, Titles
<1>22. CASE TickEnds
  BY <1>22 DEF TickEnds
<1>23. CASE FastEnds
  BY <1>23 DEF FastEnds
<1>24. CASE UNCHANGED vars
  BY <1>24 DEF vars
<1> QED
  BY <1>2, <1>3, <1>4, <1>5, <1>6, <1>7, <1>8, <1>9, <1>10, <1>11, <1>12,
     <1>13, <1>14, <1>15, <1>16, <1>17, <1>18, <1>19, <1>20, <1>21, <1>22,
     <1>23, <1>24
     DEF Next, Starting, Stopping, SlowStep, FastStep

LEMMA TypeInit ==
  Init => TypeInv
<1> SUFFICES ASSUME Init PROVE TypeInv
  OBVIOUS
<1>1. {} \in Readable
  BY DEF Readable
<1>2. ThreadsOK
  BY DEF Init, ThreadsOK
<1>3. {was_connected, gone, first_tick, polled, row_lost} \subseteq BOOLEAN
  BY DEF Init
<1> QED
  BY <1>1, <1>2, <1>3, MonitorAssumption
     DEF MonitorAssumption, Init, TypeInv, TypeOK

\* Every variable of the monitor keeps its type (monitor.h, monitor.c:20-75).
THEOREM TypeCorrect == Spec => []TypeOK
<1>1. TypeInv => TypeOK
  BY DEF TypeInv
<1> QED
  BY <1>1, TypeInit, TypeStep, PTL DEF Spec

-----------------------------------------------------------------------------
(* The row *)

\* A run starts from the row and the row follows prev_status, but for a write
\* that failed.  prev_status is what the last poll read.
RowInv ==
  /\ slow # "none" /\ ~row_lost => Loaded = prev
  /\ slow \in {"idle", "lost", "ended"} /\ polled =>
       data # NoData /\ prev = Tracked(data)

LEMMA RowStep ==
  ASSUME TypeInv, RowInv, [Next]_vars
  PROVE  RowInv'
<1> USE MonitorAssumption DEF MonitorAssumption
<1> USE DEF RowInv, TypeInv, TypeOK, ThreadsOK, slowVars, slowMem, fastVars,
            fastMem, link, row, told, Loaded
<1>1. CASE Boot
  BY <1>1 DEF Boot
<1>2. CASE FinalSave \/ Crash
  <2>1. slow' = "none"
    BY <1>2 DEF FinalSave, Crash, MemoryLost
  <2> QED
    BY <2>1
<1>3. CASE InitialRead
  BY <1>3 DEF InitialRead
<1>4. CASE Poll
  BY <1>4 DEF Poll
<1>5. CASE Save
  BY <1>5, TrackedReadable DEF Save, AllTold, WriteRow, Changed
<1>6. CASE PollLost \/ SlowTells \/ LostTold \/ SlowEnds
  BY <1>6 DEF PollLost, SlowTells, LostTold, SlowEnds, MayEnd
<1>7. CASE UpsChanges \/ StartFast \/ StartSlowOnly \/ Stop \/ StopFast
             \/ FreeFast \/ DropFast
  BY <1>7 DEF UpsChanges, StartFast, StartSlowOnly, Stop, StopFast, FreeFast,
              DropFast
<1>8. CASE Tick \/ FastTells \/ TickEnds \/ FastEnds
  BY <1>8 DEF Tick, FastTells, TickEnds, FastEnds
<1>9. CASE PollFlakes \/ UNCHANGED vars
  BY <1>9 DEF PollFlakes, vars
<1> QED
  BY <1>1, <1>2, <1>3, <1>4, <1>5, <1>6, <1>7, <1>8, <1>9
     DEF Next, Starting, Stopping, SlowStep, FastStep

\* Between two polls, and after a clean stop, the row is what the last poll
\* read, unless the last write of it failed (monitor.c:452-467, 585-599).
THEOREM RowKept == Spec => []RowIsLastObserved
<1>1. Init => RowInv
  BY DEF Init, RowInv
<1>2. RowInv => RowIsLastObserved
  BY DEF RowInv, RowIsLastObserved
<1> QED
  BY <1>1, <1>2, RowStep, TypeInit, TypeStep, PTL DEF Spec

-----------------------------------------------------------------------------
(* What the slow thread tells *)

Shows(e, reading) == e.bits \cap reading # {}

\* The row keeps the bits of its conditions.
LEMMA ShowsTracked ==
  ASSUME NEW e \in RowWatch, NEW reading
  PROVE  Shows(e, Tracked(reading)) <=> Shows(e, reading)
<1>1. PICK b : e.bits = {b} /\ b # "SHUTDOWN_IMMINENT"
  BY RowEvents
<1> QED
  BY <1>1 DEF Shows, Tracked

\* The events a change fires on a condition of one bit.
LEMMA EdgesShow ==
  ASSUME NEW watch, NEW old, NEW new, NEW e \in watch,
         e.on = TRUE \/ e.on = FALSE, \E b : e.bits = {b}
  PROVE  e \in Edges(watch, old, new)
           <=> /\ ~(Shows(e, old) <=> Shows(e, new))
               /\ e.on = TRUE <=> Shows(e, new)
<1>1. PICK b : e.bits = {b}
  OBVIOUS
<1>2. CASE e.on = TRUE
  BY <1>1, <1>2 DEF Edges, Shows
<1>3. CASE e.on = FALSE
  BY <1>1, <1>3 DEF Edges, Shows
<1> QED
  BY <1>2, <1>3

\* A condition of the row, when the reading the slow thread remembers is
\* `reading': its last event tells what it shows, or, when this run started from
\* it untold, it is still what the row says.
Story(e, reading) ==
  /\ e.title \notin untold => (e.title \in said <=> Shows(e, reading))
  /\ e.title \in untold    => (Shows(e, Loaded) <=> Shows(e, reading))

\* An event is to be told of the condition of `e'.
ToTell(e, todo) == \E f \in todo : f.title = e.title

SlowInv ==
  /\ slow_todo \subseteq RowWatch \cup {Lost, Found, Triggered}
  /\ slow \in {"initial", "idle", "lost", "ended"} =>
       /\ alert_prev = prev
       /\ \A e \in RowWatch : Story(e, prev)
  /\ slow = "announce" =>
       /\ alert_prev = Tracked(data)
       /\ \A e \in RowWatch : ToTell(e, slow_todo) \/ Story(e, data)
  /\ \A e \in slow_todo \cap RowWatch :
       /\ slow = "announce"
       /\ e.on = TRUE <=> Shows(e, data)
       /\ e.title \notin untold => (e.title \in said <=> e.on = FALSE)

\* The same of the fast loop's conditions of one bit, which no row keeps.
Heard(e, reading) ==
  e.title \notin untold => (e.title \in said <=> Shows(e, reading))

FastInv ==
  /\ fast_todo \subseteq FastWatch
  /\ fast \in {"idle", "ended"} /\ first_tick = FALSE =>
       \A e \in OneBitWatch : Heard(e, prev_fast)
  /\ fast = "announce" =>
       /\ first_tick = FALSE
       /\ \A e \in OneBitWatch : ToTell(e, fast_todo) \/ Heard(e, prev_fast)
  /\ \A e \in fast_todo \cap OneBitWatch :
       /\ e.on = TRUE <=> Shows(e, prev_fast)
       /\ e.title \notin untold => (e.title \in said <=> e.on = FALSE)

\* Steps of the other threads change nothing of it: their titles are others.
LEMMA SlowFrame ==
  ASSUME SlowInv, UNCHANGED <<slow, slow_todo, data, prev, alert_prev, saved>>,
         \A t \in RowTitles : (t \in said' <=> t \in said)
                                /\ (t \in untold' <=> t \in untold)
  PROVE  SlowInv'
<1>1. \A e \in RowWatch : e.title \in RowTitles
  BY RowEvents
<1>2. \A e \in RowWatch : \A reading : Story(e, reading) <=> Story(e, reading)'
  BY <1>1 DEF Story, Loaded, Shows
<1> QED
  BY <1>1, <1>2 DEF SlowInv, ToTell

LEMMA SlowPoll ==
  ASSUME TypeInv, SlowInv, Poll
  PROVE  SlowInv'
<1> DEFINE fired == Edges(RowWatch, prev, status)
<1>1. alert_prev = prev /\ \A e \in RowWatch : Story(e, prev)
  BY DEF SlowInv, Poll
<1>2. slow_todo' \subseteq fired \cup {Lost, Found, Triggered}
  BY <1>1 DEF Poll, Edges, RowWatch
<1>3. fired \subseteq slow_todo'
  BY <1>1 DEF Poll, Edges, RowWatch
<1>4. data' = status /\ saved' = saved /\ said' = said /\ untold' = untold
      /\ slow' = "announce" /\ alert_prev' = Tracked(status)
  BY DEF Poll, row, told
<1>5. ASSUME NEW e \in RowWatch
      PROVE  /\ e.on = TRUE \/ e.on = FALSE
             /\ e \in fired <=> /\ ~(Shows(e, prev) <=> Shows(e, status))
                                /\ e.on = TRUE <=> Shows(e, status)
  <2>1. (e.on = TRUE \/ e.on = FALSE) /\ \E b : e.bits = {b}
    BY RowEvents
  <2> HIDE DEF fired
  <2>2. fired = Edges(RowWatch, prev, status)
    BY DEF fired
  <2> QED
    BY <2>1, <2>2, EdgesShow
<1>6. {Lost, Found, Triggered} \cap RowWatch = {}
  BY Apart
<1>7. ASSUME NEW e \in slow_todo' \cap RowWatch
      PROVE  /\ e.on = TRUE <=> Shows(e, status)
             /\ e.title \notin untold => (e.title \in said <=> e.on = FALSE)
  <2>1. e \in fired /\ e \in RowWatch
    BY <1>2, <1>6, <1>7
  <2>2. /\ ~(Shows(e, prev) <=> Shows(e, status))
        /\ e.on = TRUE <=> Shows(e, status)
        /\ e.on = TRUE \/ e.on = FALSE
    BY <1>5, <2>1
  <2> QED
    BY <1>1, <2>1, <2>2 DEF Story
<1>8. ASSUME NEW e \in RowWatch
      PROVE  ToTell(e, slow_todo') \/ Story(e, status)
  <2>1. CASE Shows(e, prev) <=> Shows(e, status)
    BY <1>1, <2>1 DEF Story
  <2>2. CASE ~(Shows(e, prev) <=> Shows(e, status))
    <3>1. PICK f \in RowWatch : /\ f.title = e.title /\ f.bits = e.bits
                                /\ f.on = TRUE <=> Shows(e, status)
      BY RowEvents
    <3>2. f \in fired
      BY <1>5, <2>2, <3>1 DEF Shows
    <3> QED
      BY <1>3, <3>1, <3>2 DEF ToTell
  <2> QED
    BY <2>1, <2>2
<1>9. \A e \in RowWatch : Story(e, status) => Story(e, data)'
  BY <1>4 DEF Story, Shows, Loaded
<1> QED
  BY <1>2, <1>4, <1>7, <1>8, <1>9, EdgesWatched DEF SlowInv, Shows, ToTell

\* Telling an event settles its condition and no other.
LEMMA SlowTelling ==
  ASSUME TypeInv, SlowInv, SlowTells
  PROVE  SlowInv'
<1>1. PICK e \in slow_todo : Tell(e) /\ slow_todo' = slow_todo \ {e}
  BY DEF SlowTells
<1>2. UNCHANGED <<slow, data, prev, alert_prev, saved>>
  BY DEF SlowTells, slowMem, row
<1>3. \A f : f.title # e.title =>
        /\ f.title \in said' <=> f.title \in said
        /\ f.title \in untold' <=> f.title \in untold
  BY <1>1 DEF Tell
<1>4. ASSUME NEW f \in RowWatch, f.title # e.title
      PROVE  /\ \A reading : Story(f, reading) => Story(f, reading)'
             /\ ToTell(f, slow_todo) => ToTell(f, slow_todo')
  BY <1>1, <1>2, <1>3, <1>4 DEF Story, ToTell, Shows, Loaded
<1>5. CASE e \notin RowWatch
  <2>2. \A f \in RowWatch : f.title # e.title
    BY <1>1, <1>5, Apart DEF SlowInv
  <2> QED
    BY <1>1, <1>2, <1>3, <1>4, <2>2 DEF SlowInv, Shows
<1>6. CASE e \in RowWatch
  <2>1. slow = "announce" /\ (e.on = TRUE <=> Shows(e, data))
    BY <1>1, <1>6 DEF SlowInv
  <2>2. /\ e.title \in said' <=> e.on = TRUE
        /\ e.title \notin untold'
    BY <1>1, <1>6, RowEvents DEF Tell
  <2>3. ASSUME NEW f \in RowWatch, f.title = e.title
        PROVE  Story(f, data)' /\ f \notin slow_todo'
    <3>1. f.bits = e.bits
      BY <1>6, <2>3, RowEvents
    <3>2. Story(f, data)'
      BY <1>2, <2>1, <2>2, <2>3, <3>1 DEF Story, Shows
    <3>3. ASSUME f \in slow_todo
          PROVE  f = e
      <4>1. f.on = TRUE <=> e.on = TRUE
        BY <2>1, <2>3, <3>1, <3>3 DEF SlowInv, Shows
      <4>2. f.on = e.on
        BY <1>6, <4>1, RowEvents
      <4> QED
        BY <1>6, <2>3, <4>2, RowEvents
    <3> QED
      BY <1>1, <3>2, <3>3
  <2> QED
    BY <1>1, <1>2, <1>3, <1>4, <2>1, <2>3 DEF SlowInv, Shows
<1> QED
  BY <1>5, <1>6

LEMMA SlowStepInv ==
  ASSUME TypeInv, RowInv, SlowInv, FastInv, [Next]_vars
  PROVE  SlowInv'
<1> USE DEF slowVars, slowMem, fastVars, fastMem, link, row, told
<1>1. CASE Boot
  <2>1. /\ slow' = "initial" /\ prev' = Loaded /\ alert_prev' = Loaded
        /\ slow_todo' = slow_todo /\ said' = said /\ saved' = saved
        /\ Unlike(RowWatch, Loaded) \subseteq untold'
    BY <1>1 DEF Boot, Seed, RowWatch
  <2>2. slow_todo = {}
    BY <1>1 DEF Boot, TypeInv, TypeOK, ThreadsOK
  <2>3. ASSUME NEW e \in RowWatch
        PROVE  Story(e, prev)'
    BY <2>1 DEF Unlike, Titles, Story, Shows, Loaded
  <2> QED
    BY <2>1, <2>2, <2>3 DEF SlowInv
<1>2. CASE FinalSave \/ Crash
  BY <1>2 DEF FinalSave, Crash, MemoryLost, SlowInv
<1>3. CASE InitialRead
  <2>1. UNCHANGED <<slow_todo, prev, alert_prev, saved, said, untold>>
        /\ slow = "initial" /\ slow' = "idle"
    BY <1>3 DEF InitialRead
  <2>2. slow_todo = {}
    BY <2>1 DEF TypeInv, TypeOK
  <2> QED
    BY <2>1, <2>2 DEF SlowInv, Story, Shows, Loaded
<1>4. CASE Poll
  BY <1>4, SlowPoll
<1>5. CASE PollLost
  <2>1. UNCHANGED <<prev, alert_prev, saved, said, untold>>
        /\ slow = "idle" /\ slow' = "lost" /\ slow_todo' = {Lost}
    BY <1>5 DEF PollLost
  <2>2. Lost \notin RowWatch
    BY Apart
  <2> QED
    BY <2>1, <2>2 DEF SlowInv, Story, Shows, Loaded
<1>6. CASE SlowTells
  BY <1>6, SlowTelling
<1>7. CASE Save
  <2>1. /\ slow = "announce" /\ slow' = "idle" /\ prev' = Tracked(data)
        /\ slow_todo = {} /\ slow_todo' = {} /\ alert_prev' = Tracked(data)
        /\ UNCHANGED <<said, untold>>
        /\ saved' = saved \/ saved' = Tracked(data)
    BY <1>7 DEF Save, AllTold, WriteRow, SlowInv
  <2>2. Tracked(data) # NoRow
    BY <2>1, TrackedReadable, MonitorAssumption
       DEF MonitorAssumption, TypeInv, TypeOK, ThreadsOK
  <2>3. ASSUME NEW e \in RowWatch
        PROVE  Story(e, prev)'
    <3>1. Story(e, data)
      BY <2>1 DEF SlowInv, ToTell
    <3>2. Shows(e, Tracked(data)) <=> Shows(e, data)
      BY ShowsTracked
    <3> QED
      BY <2>1, <2>2, <3>1, <3>2 DEF Story, Shows, Loaded
  <2> QED
    BY <2>1, <2>3 DEF SlowInv
<1>8. CASE LostTold \/ SlowEnds
  <2>1. UNCHANGED <<prev, alert_prev, saved, said, untold, slow_todo>>
        /\ slow \in {"lost", "idle"} /\ slow' \in {"idle", "ended"}
    BY <1>8 DEF LostTold, SlowEnds, MayEnd
  <2> QED
    BY <2>1 DEF SlowInv, Story, Shows, Loaded
<1>9. CASE UpsChanges \/ StartFast \/ StartSlowOnly \/ Stop \/ StopFast
             \/ FreeFast \/ DropFast
  BY <1>9, SlowFrame DEF UpsChanges, StartFast, StartSlowOnly, Stop, StopFast,
                         FreeFast, DropFast
<1>10. CASE Tick
  <2>1. Unlike(FastWatch, status) \cap RowTitles = {}
    BY Apart, DistinctTitles DEF Unlike, Titles
  <2>2. \A t \in RowTitles : t \in untold' <=> t \in untold
    BY <1>10, <2>1 DEF Tick
  <2> QED
    BY <1>10, <2>2, SlowFrame DEF Tick
<1>11. CASE FastTells
  <2>1. PICK e \in fast_todo : Tell(e)
    BY <1>11 DEF FastTells
  <2>2. e.title \notin RowTitles
    BY <2>1, Apart, DistinctTitles DEF FastInv
  <2> QED
    BY <1>11, <2>1, <2>2, SlowFrame DEF FastTells, Tell
<1>12. CASE TickEnds \/ FastEnds \/ PollFlakes \/ UNCHANGED vars
  BY <1>12, SlowFrame DEF TickEnds, FastEnds, PollFlakes, vars
<1> QED
  BY <1>1, <1>2, <1>3, <1>4, <1>5, <1>6, <1>7, <1>8, <1>9, <1>10, <1>11, <1>12
     DEF Next, Starting, Stopping, SlowStep, FastStep

-----------------------------------------------------------------------------
(* What the fast loop tells *)

LEMMA FastFrame ==
  ASSUME FastInv, UNCHANGED <<fast, fast_todo, first_tick, prev_fast>>,
         \A t \in FastTitles : (t \in said' <=> t \in said)
                                 /\ (t \in untold' <=> t \in untold)
  PROVE  FastInv'
<1>1. \A e \in OneBitWatch : e.title \in FastTitles
  BY FastEvents DEF OneBitWatch
<1>2. \A e \in OneBitWatch : \A reading : Heard(e, reading) <=> Heard(e, reading)'
  BY <1>1 DEF Heard, Shows
<1> QED
  BY <1>1, <1>2 DEF FastInv, ToTell

LEMMA FastTick ==
  ASSUME FastInv, Tick
  PROVE  FastInv'
<1> DEFINE fired == Edges(FastWatch, prev_fast, status)
<1>1. /\ fast = "idle" /\ fast' = "announce" /\ prev_fast' = status
      /\ first_tick' = FALSE /\ said' = said
  BY DEF Tick
<1>2. CASE first_tick
  <2>1. fast_todo' = {} /\ untold' = untold \cup Unlike(FastWatch, status)
    BY <1>2 DEF Tick
  <2>2. ASSUME NEW e \in OneBitWatch
        PROVE  Heard(e, prev_fast)'
    BY <1>1, <2>1 DEF OneBitWatch, Heard, Shows, Unlike, Titles
  <2> QED
    BY <1>1, <2>1, <2>2 DEF FastInv
<1>3. CASE ~first_tick
  <2>1. fast_todo' = fired /\ untold' = untold
    BY <1>3 DEF Tick
  <2>2. \A e \in OneBitWatch : Heard(e, prev_fast)
    BY <1>1, <1>3 DEF FastInv
  <2>3. ASSUME NEW e \in OneBitWatch
        PROVE  /\ e.on = TRUE \/ e.on = FALSE
               /\ e \in fired <=> /\ ~(Shows(e, prev_fast) <=> Shows(e, status))
                                  /\ e.on = TRUE <=> Shows(e, status)
    <3>1. /\ e.on = TRUE \/ e.on = FALSE
          /\ \E b : e.bits = {b}
          /\ e \in FastWatch
      BY FastEvents DEF OneBitWatch
    <3> HIDE DEF fired
    <3>2. fired = Edges(FastWatch, prev_fast, status)
      BY DEF fired
    <3> QED
      BY <3>1, <3>2, EdgesShow
  <2>4. ASSUME NEW e \in fast_todo' \cap OneBitWatch
        PROVE  /\ e.on = TRUE <=> Shows(e, status)
               /\ e.title \notin untold => (e.title \in said <=> e.on = FALSE)
    <3>1. e \in fired /\ e \in OneBitWatch
      BY <2>1, <2>4
    <3>2. /\ ~(Shows(e, prev_fast) <=> Shows(e, status))
          /\ e.on = TRUE <=> Shows(e, status)
          /\ e.on = TRUE \/ e.on = FALSE
      BY <2>3, <3>1
    <3> QED
      BY <2>2, <3>1, <3>2 DEF Heard
  <2>5. ASSUME NEW e \in OneBitWatch
        PROVE  ToTell(e, fast_todo') \/ Heard(e, status)
    <3>1. CASE Shows(e, prev_fast) <=> Shows(e, status)
      BY <2>2, <3>1 DEF Heard
    <3>2. CASE ~(Shows(e, prev_fast) <=> Shows(e, status))
      <4>1. PICK f \in FastWatch : /\ f.title = e.title /\ f.bits = e.bits
                                   /\ f.on = TRUE <=> Shows(e, status)
        BY FastEvents DEF OneBitWatch
      <4>2. f \in fired
        BY <2>3, <3>2, <4>1 DEF Shows, OneBitWatch
      <4> QED
        BY <2>1, <4>1, <4>2 DEF ToTell
    <3> QED
      BY <3>1, <3>2
  <2>6. \A e \in OneBitWatch : Heard(e, status) => Heard(e, prev_fast)'
    BY <1>1, <2>1 DEF Heard, Shows
  <2> QED
    BY <1>1, <2>1, <2>4, <2>5, <2>6, EdgesWatched DEF FastInv, Shows, ToTell
<1> QED
  BY <1>2, <1>3

LEMMA FastTelling ==
  ASSUME TypeInv, FastInv, FastTells
  PROVE  FastInv'
<1>1. PICK e \in fast_todo : Tell(e) /\ fast_todo' = fast_todo \ {e}
  BY DEF FastTells
<1>2. UNCHANGED <<fast, prev_fast, first_tick>> /\ fast = "announce"
  BY DEF FastTells, fastMem, TypeInv, TypeOK
<1>3. \A f : f.title # e.title =>
        /\ f.title \in said' <=> f.title \in said
        /\ f.title \in untold' <=> f.title \in untold
  BY <1>1 DEF Tell
<1>4. ASSUME NEW f \in OneBitWatch, f.title # e.title
      PROVE  /\ \A reading : Heard(f, reading) => Heard(f, reading)'
             /\ ToTell(f, fast_todo) => ToTell(f, fast_todo')
  BY <1>1, <1>2, <1>3, <1>4 DEF Heard, ToTell, Shows
<1>5. CASE e \notin OneBitWatch
  <2>1. \A f \in OneBitWatch : f.title # e.title
    BY <1>1, <1>5 DEF FastInv, OneBitWatch
  <2> QED
    BY <1>1, <1>2, <1>3, <1>4, <2>1 DEF FastInv, Shows
<1>6. CASE e \in OneBitWatch
  <2>1. e.on = TRUE <=> Shows(e, prev_fast)
    BY <1>1, <1>6 DEF FastInv
  <2>2. /\ e.title \in said' <=> e.on = TRUE
        /\ e.title \notin untold'
    BY <1>1, <1>6, FastEvents DEF Tell, OneBitWatch
  <2>3. ASSUME NEW f \in OneBitWatch, f.title = e.title
        PROVE  Heard(f, prev_fast)' /\ f \notin fast_todo'
    <3>1. f.bits = e.bits
      BY <1>6, <2>3, FastEvents DEF OneBitWatch
    <3>2. Heard(f, prev_fast)'
      BY <1>2, <2>1, <2>2, <2>3, <3>1 DEF Heard, Shows
    <3>3. ASSUME f \in fast_todo
          PROVE  f = e
      <4>1. f.on = TRUE <=> e.on = TRUE
        BY <2>1, <2>3, <3>1, <3>3 DEF FastInv, Shows
      <4>2. f.on = e.on
        BY <1>6, <4>1, FastEvents DEF OneBitWatch
      <4> QED
        BY <1>6, <2>3, <4>2, FastEvents DEF OneBitWatch
    <3> QED
      BY <1>1, <3>2, <3>3
  <2> QED
    BY <1>1, <1>2, <1>3, <1>4, <2>3 DEF FastInv, Shows
<1> QED
  BY <1>5, <1>6

LEMMA FastStepInv ==
  ASSUME TypeInv, SlowInv, FastInv, [Next]_vars
  PROVE  FastInv'
<1> USE DEF slowVars, slowMem, fastVars, fastMem, link, row, told
<1>1. CASE Boot
  <2>1. first_tick' = TRUE /\ fast' = "none" /\ fast_todo' = {}
    BY <1>1 DEF Boot, TypeInv, TypeOK, ThreadsOK
  <2> QED
    BY <2>1 DEF FastInv
<1>2. CASE FinalSave \/ Crash
  BY <1>2 DEF FinalSave, Crash, MemoryLost, FastInv
<1>3. CASE StartFast
  <2>1. first_tick' = TRUE /\ fast' = "idle" /\ fast_todo' = {}
    BY <1>3 DEF StartFast, TypeInv, TypeOK, ThreadsOK
  <2> QED
    BY <2>1 DEF FastInv
<1>4. CASE FreeFast
  <2>1. fast' = "none" /\ fast_todo' = {}
    BY <1>4 DEF FreeFast, TypeInv, TypeOK
  <2> QED
    BY <2>1 DEF FastInv
<1>5. CASE Tick
  BY <1>5, FastTick
<1>6. CASE FastTells
  BY <1>6, FastTelling
<1>7. CASE TickEnds \/ FastEnds
  <2>1. /\ UNCHANGED <<first_tick, prev_fast, fast_todo, said, untold>>
        /\ fast_todo = {}
        /\ \/ fast = "announce" /\ fast' = "idle"
           \/ fast = "idle" /\ fast' = "ended"
    BY <1>7 DEF TickEnds, FastEnds, TypeInv, TypeOK
  <2> QED
    BY <2>1 DEF FastInv, ToTell, Heard, Shows
<1>8. CASE SlowTells
  <2>1. PICK e \in slow_todo : Tell(e)
    BY <1>8 DEF SlowTells
  <2>2. e.title \notin FastTitles
    BY <2>1, Apart, DistinctTitles DEF SlowInv
  <2> QED
    BY <1>8, <2>1, <2>2, FastFrame DEF SlowTells, Tell
<1>9. CASE UpsChanges \/ StartSlowOnly \/ Stop \/ StopFast \/ DropFast
  BY <1>9, FastFrame DEF UpsChanges, StartSlowOnly, Stop, StopFast, DropFast
<1>10. CASE InitialRead \/ Poll \/ PollLost \/ Save \/ LostTold \/ SlowEnds
  BY <1>10, FastFrame DEF InitialRead, Poll, PollLost, Save, LostTold, SlowEnds
<1>11. CASE PollFlakes \/ UNCHANGED vars
  BY <1>11, FastFrame DEF PollFlakes, vars
<1> QED
  BY <1>1, <1>2, <1>3, <1>4, <1>5, <1>6, <1>7, <1>8, <1>9, <1>10, <1>11
     DEF Next, Starting, Stopping, SlowStep, FastStep

-----------------------------------------------------------------------------
(* What the slow thread tells of the connection *)

Gone == "UPSDisconnected"

LinkInv ==
  /\ slow \in {"initial", "idle", "ended"} /\ Gone \notin untold =>
       (Gone \in said <=> gone = TRUE /\ was_connected = FALSE)
  /\ slow = "announce" /\ Gone \notin untold =>
       (Gone \in said <=> Found \in slow_todo)
  /\ slow = "lost" =>
       /\ gone = TRUE /\ was_connected = FALSE
       /\ Gone \notin untold => (Gone \in said <=> Lost \notin slow_todo)
  /\ Lost \in slow_todo => slow = "lost"
  /\ Found \in slow_todo => slow = "announce"

LEMMA LinkFrame ==
  ASSUME LinkInv, UNCHANGED <<slow, slow_todo, gone, was_connected>>,
         Gone \in said' <=> Gone \in said, Gone \in untold' <=> Gone \in untold
  PROVE  LinkInv'
  BY DEF LinkInv

LEMMA LinkStep ==
  ASSUME TypeInv, SlowInv, FastInv, LinkInv, [Next]_vars
  PROVE  LinkInv'
<1> USE DEF slowVars, slowMem, fastVars, fastMem, link, row, told
<1>1. Lost # Found /\ Lost \notin RowWatch /\ Found \notin RowWatch
  BY LinkEvents, Apart
<1>2. /\ \A e \in RowWatch : e.title # Gone
      /\ \A e \in FastWatch : e.title # Gone
      /\ Triggered.title # Gone /\ Lost.title = Gone /\ Found.title = Gone
  BY Apart, LinkEvents, DistinctTitles DEF Gone
<1>3. CASE Boot
  <2>1. slow_todo' = {} /\ slow' = "initial" /\ gone' = FALSE
    BY <1>3 DEF Boot, TypeInv, TypeOK, ThreadsOK
  <2>2. Gone \in said' => Gone \in untold'
    BY <1>3 DEF Boot, Gone
  <2> QED
    BY <2>1, <2>2 DEF LinkInv
<1>4. CASE FinalSave \/ Crash
  BY <1>4 DEF FinalSave, Crash, MemoryLost, LinkInv
<1>5. CASE InitialRead
  <2>1. /\ slow = "initial" /\ slow' = "idle" /\ gone = FALSE /\ gone' = FALSE
        /\ UNCHANGED <<slow_todo, said, untold>>
    BY <1>5 DEF InitialRead, TypeInv, ThreadsOK
  <2> QED
    BY <2>1 DEF LinkInv
<1>6. CASE Poll
  <2>1. slow = "idle" /\ slow' = "announce" /\ UNCHANGED <<said, untold>>
    BY <1>6 DEF Poll
  <2>2. Lost \notin slow_todo'
    BY <1>1, <1>2, <1>6, EdgesWatched DEF Poll, RowWatch
  <2>3. Found \in slow_todo' <=> ~was_connected /\ gone
    BY <1>1, <1>2, <1>6, EdgesWatched DEF Poll, RowWatch
  <2>4. was_connected \in BOOLEAN /\ gone \in BOOLEAN
    BY DEF TypeInv, TypeOK
  <2> QED
    BY <2>1, <2>2, <2>3, <2>4 DEF LinkInv
<1>7. CASE PollLost
  <2>1. /\ slow = "idle" /\ slow' = "lost" /\ UNCHANGED <<said, untold>>
        /\ slow_todo' = {Lost} /\ was_connected /\ was_connected' = FALSE
        /\ gone' = TRUE
    BY <1>7 DEF PollLost
  <2> QED
    BY <1>1, <2>1 DEF LinkInv
<1>8. CASE SlowTells
  <2>1. PICK e \in slow_todo : Tell(e) /\ slow_todo' = slow_todo \ {e}
    BY <1>8 DEF SlowTells
  <2>2. UNCHANGED <<slow, gone, was_connected>>
    BY <1>8 DEF SlowTells
  <2>3. CASE e \in {Lost, Found}
    <3>1. Gone \notin untold' /\ (Gone \in said' <=> e = Lost)
      BY <1>2, <2>1, <2>3, LinkEvents DEF Tell
    <3> QED
      BY <1>1, <2>1, <2>2, <2>3, <3>1 DEF LinkInv
  <2>4. CASE e \notin {Lost, Found}
    <3>1. e.title # Gone
      BY <1>2, <2>1, <2>4 DEF SlowInv
    <3>2. /\ Gone \in said' <=> Gone \in said
          /\ Gone \in untold' <=> Gone \in untold
      BY <2>1, <3>1 DEF Tell
    <3> QED
      BY <2>1, <2>2, <2>4, <3>2 DEF LinkInv
  <2> QED
    BY <2>3, <2>4
<1>9. CASE Save
  <2>1. /\ slow = "announce" /\ slow' = "idle" /\ slow_todo = {}
        /\ UNCHANGED <<slow_todo, said, untold, gone, was_connected>>
        /\ was_connected = TRUE
    BY <1>9 DEF Save, AllTold, TypeInv, ThreadsOK
  <2> QED
    BY <2>1 DEF LinkInv
<1>10. CASE LostTold \/ SlowEnds
  <2>1. /\ slow \in {"lost", "idle"} /\ slow' \in {"idle", "ended"}
        /\ slow_todo = {} /\ slow_todo' = {}
        /\ UNCHANGED <<said, untold, gone, was_connected>>
    BY <1>10 DEF LostTold, SlowEnds, MayEnd, TypeInv, TypeOK
  <2> QED
    BY <2>1 DEF LinkInv
<1>11. CASE UpsChanges \/ StartFast \/ StartSlowOnly \/ Stop \/ StopFast
             \/ FreeFast \/ DropFast
  BY <1>11, LinkFrame DEF UpsChanges, StartFast, StartSlowOnly, Stop,
                          StopFast, FreeFast, DropFast
<1>12. CASE Tick
  <2>1. Gone \notin Unlike(FastWatch, status)
    BY <1>2 DEF Unlike, Titles
  <2>2. Gone \in untold' <=> Gone \in untold
    BY <1>12, <2>1 DEF Tick
  <2> QED
    BY <1>12, <2>2, LinkFrame DEF Tick
<1>13. CASE FastTells
  <2>1. PICK e \in fast_todo : Tell(e)
    BY <1>13 DEF FastTells
  <2> QED
    BY <1>2, <1>13, <2>1, LinkFrame DEF FastTells, Tell, FastInv
<1>14. CASE TickEnds \/ FastEnds \/ PollFlakes \/ UNCHANGED vars
  BY <1>14, LinkFrame DEF TickEnds, FastEnds, PollFlakes, vars
<1> QED
  BY <1>3, <1>4, <1>5, <1>6, <1>7, <1>8, <1>9, <1>10, <1>11, <1>12, <1>13,
     <1>14
     DEF Next, Starting, Stopping, SlowStep, FastStep

-----------------------------------------------------------------------------
(* The theorems *)

MonitorInv == TypeInv /\ RowInv /\ SlowInv /\ FastInv /\ LinkInv

LEMMA MonitorInvInit ==
  Init => MonitorInv
<1> SUFFICES ASSUME Init PROVE MonitorInv
  OBVIOUS
<1>1. slow = "none" /\ fast = "none" /\ slow_todo = {} /\ fast_todo = {}
  BY DEF Init
<1> QED
  BY <1>1, TypeInit DEF MonitorInv, RowInv, SlowInv, FastInv, LinkInv

LEMMA MonitorInvStep ==
  MonitorInv /\ [Next]_vars => MonitorInv'
  BY TypeStep, RowStep, SlowStepInv, FastStepInv, LinkStep DEF MonitorInv

THEOREM MonitorInvariant == Spec => []MonitorInv
  BY MonitorInvInit, MonitorInvStep, PTL DEF Spec

\* Between two polls, and between two ticks, the last event on each condition
\* tells what its thread saw last, for any readings, over any number of crashes
\* and restarts (monitor.c:362-449, fast_loop.c:104-165).
THEOREM StoryKept == Spec => []StoryTold
<1>1. ASSUME MonitorInv
      PROVE  StoryTold
  <2>1. ASSUME slow \in {"idle", "ended"}
        PROVE  /\ Unlike(SlowWatch, prev) \subseteq untold
               /\ Unlike(AlertWatch, prev) \subseteq untold
    <3>1. \A e \in RowWatch : Story(e, prev)
      BY <1>1, <2>1 DEF MonitorInv, SlowInv
    <3> QED
      BY <3>1 DEF Unlike, Titles, Story, Shows, RowWatch
  <2>2. ASSUME slow \in {"idle", "ended"}, "UPSDisconnected" \notin untold
        PROVE  ("UPSDisconnected" \in said) <=> (gone /\ ~was_connected)
    <3>1. gone \in BOOLEAN /\ was_connected \in BOOLEAN
      BY <1>1 DEF MonitorInv, TypeInv, TypeOK
    <3> QED
      BY <1>1, <2>2, <3>1 DEF MonitorInv, LinkInv, Gone
  <2>3. ASSUME fast \in {"idle", "ended"}, ~first_tick
        PROVE  Unlike(FastWatch, prev_fast) \subseteq untold \cup {"Fault"}
    <3>1. first_tick = FALSE
      BY <1>1, <2>3 DEF MonitorInv, TypeInv, TypeOK
    <3>2. \A e \in OneBitWatch : Heard(e, prev_fast)
      BY <1>1, <2>3, <3>1 DEF MonitorInv, FastInv
    <3> QED
      BY <3>2 DEF Unlike, Titles, Heard, Shows, OneBitWatch
  <2> QED
    BY <2>1, <2>2, <2>3 DEF StoryTold
<1> QED
  BY <1>1, MonitorInvariant, PTL

\* No event repeats the one before it on the same condition, over any number of
\* restarts (monitor.h:80-81).
THEOREM NeverRepeats == Spec => NoRepeat
<1>1. ASSUME MonitorInv, [Next]_vars
      PROVE  slow' = slow => \A e \in slow_todo \ slow_todo' : Told(e)
  <2>1. CASE SlowTells
    <3>1. PICK e \in slow_todo : slow_todo' = slow_todo \ {e}
      BY <2>1 DEF SlowTells
    <3>2. CASE e \in RowWatch
      <4>1. e.title \notin untold => (e.title \in said <=> e.on = FALSE)
        BY <1>1, <3>2 DEF MonitorInv, SlowInv
      <4>2. e.on = TRUE \/ e.on = FALSE
        BY <3>2, RowEvents
      <4> QED
        BY <3>1, <4>1, <4>2 DEF Told
    <3>3. CASE e = Lost \/ e = Found
      <4>1. Gone \notin untold => (Gone \in said <=> e = Found)
        BY <1>1, <3>3 DEF MonitorInv, LinkInv
      <4> QED
        BY <3>1, <3>3, <4>1, LinkEvents DEF Told, Gone
    <3>4. CASE e = Triggered
      BY <3>1, <3>4, DistinctTitles DEF Told
    <3> QED
      BY <1>1, <3>2, <3>3, <3>4 DEF MonitorInv, SlowInv
  <2>2. CASE FinalSave \/ Crash
    BY <1>1, <2>2 DEF FinalSave, Crash, MemoryLost, MonitorInv, TypeInv, TypeOK
  <2>3. CASE Next /\ ~SlowTells /\ ~FinalSave /\ ~Crash
    <3>1. slow' # slow \/ slow_todo' = slow_todo
      BY <2>3
         DEF Next, Starting, Stopping, SlowStep, FastStep, UpsChanges, Boot,
             StartFast, StartSlowOnly, Stop, StopFast, FreeFast, DropFast,
             InitialRead, Poll, PollFlakes, PollLost, Save, LostTold, SlowEnds,
             Tick, FastTells, TickEnds, FastEnds, slowVars, vars
    <3> QED
      BY <3>1
  <2>4. CASE UNCHANGED vars
    BY <2>4 DEF vars, slowVars
  <2> QED
    BY <1>1, <2>1, <2>2, <2>3, <2>4
<1>2. ASSUME MonitorInv, [Next]_vars
      PROVE  fast' = fast => \A e \in fast_todo \ fast_todo' : Told(e)
  <2>1. CASE FastTells
    <3>1. PICK e \in fast_todo : fast_todo' = fast_todo \ {e}
      BY <2>1 DEF FastTells
    <3>2. CASE e \in OneBitWatch
      <4>1. e.title \notin untold => (e.title \in said <=> e.on = FALSE)
        BY <1>2, <3>2 DEF MonitorInv, FastInv
      <4>2. e.on = TRUE \/ e.on = FALSE
        BY <3>2, FastEvents DEF OneBitWatch
      <4> QED
        BY <3>1, <4>1, <4>2 DEF Told
    <3>3. CASE e \notin OneBitWatch
      BY <1>2, <3>1, <3>3 DEF Told, OneBitWatch, MonitorInv, FastInv
    <3> QED
      BY <3>2, <3>3
  <2>2. CASE FinalSave \/ Crash \/ FreeFast
    BY <1>2, <2>2 DEF FinalSave, Crash, MemoryLost, FreeFast, MonitorInv,
                      TypeInv, TypeOK
  <2>3. CASE Next /\ ~FastTells /\ ~FinalSave /\ ~Crash /\ ~FreeFast
    <3>1. fast' # fast \/ fast_todo' = fast_todo
      BY <2>3
         DEF Next, Starting, Stopping, SlowStep, FastStep, UpsChanges, Boot,
             StartFast, StartSlowOnly, Stop, StopFast, DropFast, InitialRead,
             Poll, PollFlakes, PollLost, SlowTells, Save, LostTold, SlowEnds,
             Tick, TickEnds, FastEnds, fastVars, vars
    <3> QED
      BY <3>1
  <2>4. CASE UNCHANGED vars
    BY <2>4 DEF vars, fastVars
  <2> QED
    BY <1>2, <2>1, <2>2, <2>3, <2>4
<1>3. MonitorInv /\ [Next]_vars
        => [ /\ slow' = slow => \A e \in slow_todo \ slow_todo' : Told(e)
             /\ fast' = fast => \A e \in fast_todo \ fast_todo' : Told(e) ]_vars
  BY <1>1, <1>2
<1> QED
  BY <1>3, MonitorInvariant, PTL DEF NoRepeat, Spec

\* A daemon that is not stopped before its first complete poll may be stopped
\* only after one.
StopInv ==
  main \in {"stopping", "join_fast", "drop_fast", "join_slow"} => polled

LEMMA StopStep ==
  ASSUME ~EarlyStops, TypeInv, StopInv, [Next]_vars
  PROVE  StopInv'
<1> USE DEF StopInv, slowVars, slowMem, fastVars, fastMem, TypeInv, ThreadsOK
<1>1. CASE Boot \/ FinalSave \/ Crash
  BY <1>1 DEF Boot, FinalSave, Crash, MemoryLost
<1>2. CASE StartFast \/ StartSlowOnly \/ Stop \/ StopFast \/ FreeFast
             \/ DropFast
  BY <1>2 DEF StartFast, StartSlowOnly, Stop, StopFast, FreeFast, DropFast
<1>3. CASE UpsChanges \/ InitialRead \/ Poll \/ PollLost \/ SlowTells \/ Save
             \/ LostTold \/ SlowEnds
  BY <1>3 DEF UpsChanges, InitialRead, Poll, PollLost, SlowTells, Save,
              LostTold, SlowEnds
<1>4. CASE Tick \/ FastTells \/ TickEnds \/ FastEnds
  BY <1>4 DEF Tick, FastTells, TickEnds, FastEnds
<1>5. CASE PollFlakes \/ UNCHANGED vars
  BY <1>5 DEF PollFlakes, vars
<1> QED
  BY <1>1, <1>2, <1>3, <1>4, <1>5
     DEF Next, Starting, Stopping, SlowStep, FastStep

\* A change is announced before it reaches the row, whatever crashes between the
\* two, when the daemon is not stopped before its first complete poll: the last
\* write of the row would save the first read, which nothing announces
\* (monitor.c:53-58, 456-467, 585-599).
THEOREM AnnouncedFirst == ~EarlyStops /\ Spec => AnnouncedBeforeSaved
<1> SUFFICES ASSUME ~EarlyStops PROVE Spec => AnnouncedBeforeSaved
  OBVIOUS
<1>1. ASSUME MonitorInv, StopInv, [Next]_vars, saved' # saved,
             NEW e \in SlowWatch \cup AlertWatch,
             ~((e.bits \cap Loaded # {}) <=> (e.bits \cap saved' # {}))
      PROVE  (e.title \in said) <=> (e.bits \cap saved' # {})
  <2> USE DEF MonitorInv
  <2>1. e \in RowWatch
    BY DEF RowWatch
  <2>2. CASE Save
    <3>1. saved' = Tracked(data) /\ slow = "announce" /\ slow_todo = {}
      BY <1>1, <2>2 DEF Save, WriteRow, AllTold, row
    <3>2. Story(e, data)
      BY <1>1, <2>1, <3>1 DEF SlowInv, ToTell
    <3> QED
      BY <1>1, <2>1, <3>1, <3>2, ShowsTracked DEF Story, Shows
  <2>3. CASE FinalSave
    <3>1. saved' = Tracked(data) /\ slow = "ended" /\ main = "join_slow"
      BY <1>1, <2>3 DEF FinalSave, WriteRow, row
    <3>2. prev = Tracked(data) /\ Story(e, prev)
      BY <1>1, <2>1, <3>1 DEF StopInv, RowInv, SlowInv
    <3> QED
      BY <1>1, <3>1, <3>2 DEF Story, Shows
  <2>4. CASE (Next \/ UNCHANGED vars) /\ ~Save /\ ~FinalSave
    <3>1. saved' = saved
      BY <2>4
         DEF Next, Starting, Stopping, SlowStep, FastStep, UpsChanges, Boot,
             StartFast, StartSlowOnly, Stop, StopFast, FreeFast, DropFast,
             Crash, InitialRead, Poll, PollFlakes, PollLost, SlowTells,
             LostTold, SlowEnds, Tick, FastTells, TickEnds, FastEnds, row, vars
    <3> QED
      BY <1>1, <3>1
  <2> QED
    BY <1>1, <2>2, <2>3, <2>4
<1>2. MonitorInv /\ StopInv /\ [Next]_vars
        => [ saved' # saved =>
               \A e \in SlowWatch \cup AlertWatch :
                 (e.bits \cap Loaded # {}) # (e.bits \cap saved' # {})
                   => ((e.title \in said) <=> (e.bits \cap saved' # {})) ]_vars
  BY <1>1
<1>3. Init => StopInv
  BY DEF Init, StopInv
<1>4. MonitorInv => TypeInv
  BY DEF MonitorInv
<1>5. TypeInv /\ StopInv /\ [Next]_vars => StopInv'
  BY StopStep
<1> QED
  BY <1>2, <1>3, <1>4, <1>5, MonitorInvariant, PTL
     DEF AnnouncedBeforeSaved, Spec

=============================================================================
