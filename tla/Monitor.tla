------------------------------- MODULE Monitor -------------------------------
(***************************************************************************)
(* The monitor (src/src/monitor/monitor.c) and its fast loop               *)
(* (fast_loop.c): two threads that read the UPS at their own pace, tell    *)
(* what changed as events, and keep the status in the database so that     *)
(* the next run of the daemon starts from it.  The daemon may crash        *)
(* between any two events, or be stopped.                                  *)
(*                                                                         *)
(* A reading is the set of bits the UPS shows, of any register.  An event  *)
(* is told when its row is written and its callbacks ran; `said' holds the *)
(* conditions whose last event says that they hold.                        *)
(*                                                                         *)
(* The alert engine's bits (alerts.c) are here, because they start from    *)
(* the saved status; its thresholds are not.  Nor are the HE inhibit and   *)
(* the shutdown trigger, which the same poll drives on state of their own, *)
(* the texts of events, and mon->connected, which no thread here reads.    *)
(***************************************************************************)
EXTENDS Naturals

CONSTANTS
  Readings,    \* the readings the UPS may give, sets of bits
  HasFastLoop, \* the driver can read the transfer reason (Modbus, not HID)
  SavesFail,   \* may the write of the saved status fail
  EarlyStops,  \* may the daemon be stopped before its first complete poll
  MaxDeaths    \* bound on the ends of the daemon, by a crash or a stop

CONSTANTS NoData, NoRow

Bits == {"ON_BATTERY", "OUTPUT_OFF", "BYPASS", "FAULT", "FAULT_STATE",
         "OVERLOAD", "HE_MODE", "TEST", "BAT_REPLACE", "SHUTDOWN_IMMINENT"}

Readable == SUBSET Bits

ASSUME MonitorAssumption ==
  /\ Readings \subseteq Readable
  /\ MaxDeaths \in Nat
  /\ \A reading \in Readable : reading # NoData /\ reading # NoRow

VARIABLES
  status,     \* what the UPS shows now
  main,       \* where the main thread stands
  slow,       \* where the slow thread stands
  slow_todo,  \* the events it has yet to tell about this poll
  data,       \* mon->data, or NoData while has_data is 0
  prev,       \* prev_status and mon->snapshot, equal between two polls
  alert_prev, \* the alert engine's overload, fault and prev_*_error
  was_connected,
  gone,       \* disconnected_at > 0
  fast,       \* where the fast loop's thread stands
  fast_todo,  \* the events it has yet to tell about this tick
  first_tick,
  prev_fast,  \* prev_status_fast
  ring,       \* what mon->fast_loop points to: "none", "live" or "freed"
  saved,      \* the row of ups_status_snapshot
  \* history
  said,       \* the conditions whose last event says they hold
  untold,     \* the conditions this run started from without telling so
  polled,     \* a poll of the loop has succeeded in this run
  row_lost,   \* the last write of the row failed
  deaths

link     == <<was_connected, gone>>
slowMem  == <<data, prev, alert_prev, link, polled>>
slowVars == <<slow, slow_todo, slowMem>>
fastMem  == <<first_tick, prev_fast>>
fastVars == <<fast, fast_todo, fastMem>>
row      == <<saved, row_lost>>
told     == <<said, untold>>
vars     == <<status, main, slowVars, fastVars, ring, row, told, deaths>>

-----------------------------------------------------------------------------
(* Events: each has a condition, named for its title, and says that it began
   or that it ended. *)

\* The event of a condition that begins when one of `bits' is set, and the one
\* when one of them is cleared.  `nr' is their place in the order of the code.
Pair(nr, title, bits) ==
  {[nr |-> nr,     title |-> title, bits |-> bits, on |-> TRUE],
   [nr |-> nr + 1, title |-> title, bits |-> bits, on |-> FALSE]}

\* emit_transitions
FastWatch ==
  Pair(0, "OnBattery", {"ON_BATTERY"})
    \cup Pair(2, "OutputOff", {"OUTPUT_OFF"})
    \cup Pair(4, "Bypass", {"BYPASS"})
    \cup Pair(6, "Fault", {"FAULT", "FAULT_STATE"})
    \cup Pair(8, "Overload", {"OVERLOAD"})

\* alerts_check, its bits only.
AlertWatch ==
  Pair(2, "UPSOverload", {"OVERLOAD"}) \cup Pair(4, "UPSFault", {"FAULT"})
    \cup Pair(6, "UPSBatteryReplace", {"BAT_REPLACE"})

\* The bits the slow loop owns.
SlowWatch ==
  Pair(8, "HEMode", {"HE_MODE"}) \cup Pair(10, "SelfTest", {"TEST"})

LinkWatch == Pair(0, "UPSDisconnected", {})
Lost      == CHOOSE e \in LinkWatch : e.on
Found     == CHOOSE e \in LinkWatch : ~e.on
Triggered ==
  [nr |-> 12, title |-> "ShutdownTriggered", bits |-> {}, on |-> TRUE]

\* Faulty variants, each the wrong form of the definition that follows it.
AnyLevel(watch, old, new) ==
  {e \in watch : e.bits \cap (IF e.on THEN new ELSE old \ new) # {}}
OnlyEnds(watch, old, new) ==
  {e \in watch : ~e.on /\ e.bits \cap (old \ new) # {}}

\* The events of `watch' a change from `old' to `new' fires.
Edges(watch, old, new) ==
  {e \in watch : e.bits \cap (IF e.on THEN new \ old ELSE old \ new) # {}}

\* The event is told.
Tell(e) ==
  /\ said' = IF e.on THEN said \cup {e.title} ELSE said \ {e.title}
  /\ untold' = untold \ {e.title}

\* The event is the next of those left.
IsNext(e, todo) == \A f \in todo : e.nr <= f.nr

Titles(watch) == {e.title : e \in watch}

\* The conditions of `watch' whose last event disagrees with `reading'.
Unlike(watch, reading) ==
  Titles({e \in watch : (e.title \in said) # (e.bits \cap reading # {})})

\* What the row keeps of a reading: sig_status is not in it.
Tracked(reading) == reading \ {"SHUTDOWN_IMMINENT"}

MonRunning  == main \in {"starting", "running"}  \* mon->running
FastRunning == main \in {"starting", "running", "stopping"}  \* fl->running

-----------------------------------------------------------------------------

Init ==
  /\ status \in Readings
  /\ main = "down" /\ slow = "none" /\ fast = "none"
  /\ slow_todo = {} /\ fast_todo = {}
  /\ data = NoData
  /\ prev = {} /\ alert_prev = {} /\ prev_fast = {}
  /\ was_connected = FALSE /\ gone = FALSE /\ first_tick = TRUE
  /\ ring = "none"
  /\ saved = NoRow
  /\ said = {} /\ untold = {}
  /\ polled = FALSE /\ row_lost = FALSE
  /\ deaths = 0

UpsChanges ==
  /\ status' \in Readings \ {status}
  /\ UNCHANGED <<main, slowVars, fastVars, ring, row, told, deaths>>

-----------------------------------------------------------------------------
(* The main thread *)

\* What a run starts from: the row, or a healthy UPS on mains.
Loaded == IF saved = NoRow THEN {} ELSE saved

\* Faulty variant of Seed: the alert engine is not seeded.
Unseeded == {}

\* alerts_seed_from_snapshot
Seed == Loaded

\* monitor_create and the first half of monitor_start.
Boot ==
  /\ main = "down"
  /\ main' = "starting"
  /\ slow' = "initial"
  /\ prev' = Loaded
  /\ alert_prev' = Seed
  /\ untold' = Unlike(SlowWatch \cup AlertWatch, Loaded)
                 \cup (said \cap {"UPSDisconnected"})
  /\ UNCHANGED <<status, slow_todo, data, link, polled, fastVars, ring, row,
                 said, deaths>>

\* fast_loop_start
StartFast ==
  /\ main = "starting" /\ HasFastLoop
  /\ main' = "running"
  /\ fast' = "idle"
  /\ ring' = "live"
  /\ UNCHANGED <<status, slowVars, fast_todo, fastMem, row, told, deaths>>

\* The driver has no fast loop, or it cannot be started.
StartSlowOnly ==
  /\ main = "starting"
  /\ main' = "running"
  /\ UNCHANGED <<status, slowVars, fastVars, ring, row, told, deaths>>

\* monitor_stop is called.
Stop ==
  /\ main = "running"
  /\ EarlyStops \/ polled
  /\ deaths < MaxDeaths
  /\ main' = "stopping"
  /\ UNCHANGED <<status, slowVars, fastVars, ring, row, told, deaths>>

\* fast_loop_stop tells the thread to end...
StopFast ==
  /\ main = "stopping"
  /\ main' = IF ring = "none" THEN "join_slow" ELSE "join_fast"
  /\ UNCHANGED <<status, slowVars, fastVars, ring, row, told, deaths>>

\* ... joins it and frees the loop with its ring.
FreeFast ==
  /\ main = "join_fast" /\ fast = "ended"
  /\ main' = "drop_fast"
  /\ fast' = "none"
  /\ ring' = "freed"
  /\ UNCHANGED <<status, slowVars, fast_todo, fastMem, row, told, deaths>>

DropFast ==
  /\ main = "drop_fast"
  /\ main' = "join_slow"
  /\ ring' = "none"
  /\ UNCHANGED <<status, slowVars, fastVars, row, told, deaths>>

\* The process has ended: calloc'd memory again, and no thread.
MemoryLost ==
  /\ main' = "down" /\ slow' = "none" /\ fast' = "none" /\ ring' = "none"
  /\ slow_todo' = {} /\ fast_todo' = {}
  /\ data' = NoData
  /\ prev' = {} /\ alert_prev' = {} /\ prev_fast' = {}
  /\ was_connected' = FALSE /\ gone' = FALSE /\ first_tick' = TRUE
  /\ polled' = FALSE

\* status_snapshot_save
WriteRow ==
  \/ saved' = Tracked(data) /\ row_lost' = FALSE
  \/ SavesFail /\ row_lost' = TRUE /\ UNCHANGED saved

\* Join the slow thread, write the row a last time, free the monitor.
FinalSave ==
  /\ main = "join_slow" /\ slow = "ended"
  /\ MemoryLost
  /\ IF data = NoData THEN UNCHANGED row ELSE WriteRow
  /\ deaths' = deaths + 1
  /\ UNCHANGED <<status, told>>

\* The process is killed, at any moment.
Crash ==
  /\ main # "down" /\ deaths < MaxDeaths
  /\ MemoryLost
  /\ deaths' = deaths + 1
  /\ UNCHANGED <<status, row, told>>

-----------------------------------------------------------------------------
(* The slow thread *)

\* The read before the loop: no event but "Monitor Started".
InitialRead ==
  /\ slow = "initial"
  /\ slow' = "idle"
  /\ \/ data' = status /\ was_connected' = TRUE
     \/ UNCHANGED <<data, was_connected>>
  /\ UNCHANGED <<status, main, slow_todo, prev, alert_prev, gone, polled,
                 fastVars, ring, row, told, deaths>>

\* "Shutdown Triggered": on battery and imminent, and not both before.  For the
\* imminence before, the guard asks mon->data, which holds this poll's already.
Imminent(published) ==
  /\ {"ON_BATTERY", "SHUTDOWN_IMMINENT"} \subseteq status
  /\ ~("ON_BATTERY" \in prev /\ "SHUTDOWN_IMMINENT" \in published)

\* A read of the loop succeeds.
Poll ==
  /\ slow = "idle" /\ MonRunning
  /\ slow' = "announce"
  /\ data' = status
  /\ slow_todo' = Edges(AlertWatch, alert_prev, status)
                    \cup Edges(SlowWatch, prev, status)
                    \cup (IF ~was_connected /\ gone THEN {Found} ELSE {})
                    \cup (IF Imminent(data') THEN {Triggered} ELSE {})
  /\ gone' = (gone /\ was_connected)
  /\ was_connected' = TRUE
  /\ alert_prev' = Tracked(status)
  /\ UNCHANGED <<status, main, prev, polled, fastVars, ring, row, told,
                 deaths>>

\* A read fails and the transport is still open, or its loss is told already.
PollFlakes ==
  /\ slow = "idle" /\ MonRunning
  /\ UNCHANGED vars

\* A read fails and the transport is closed.
PollLost ==
  /\ slow = "idle" /\ MonRunning /\ was_connected
  /\ slow' = "lost"
  /\ slow_todo' = {Lost}
  /\ was_connected' = FALSE /\ gone' = TRUE
  /\ UNCHANGED <<status, main, data, prev, alert_prev, polled, fastVars, ring,
                 row, told, deaths>>

SlowTells ==
  /\ \E e \in slow_todo :
       IsNext(e, slow_todo) /\ Tell(e) /\ slow_todo' = slow_todo \ {e}
  /\ UNCHANGED <<status, main, slow, slowMem, fastVars, ring, row, deaths>>

\* Faulty variants: only the status register is compared; the row is written
\* before the events are told; the thread ends in the middle of a poll.
StatusChanged == Tracked(data) \ {"BAT_REPLACE"} # prev \ {"BAT_REPLACE"}
SaveFirst     == slow = "announce"
EndsMidPoll   == slow \in {"idle", "announce"} /\ ~MonRunning

\* The row is written when a field it keeps has changed.
Changed == Tracked(data) # prev

\* Every event of the poll is told.
AllTold == slow = "announce" /\ slow_todo = {}

\* The end of a poll: prev_status, then the row.
Save ==
  /\ AllTold
  /\ slow' = "idle"
  /\ prev' = Tracked(data)
  /\ IF Changed THEN WriteRow ELSE UNCHANGED row
  /\ polled' = TRUE
  /\ UNCHANGED <<status, main, slow_todo, data, alert_prev, link, fastVars,
                 ring, told, deaths>>

\* The end of an iteration whose read failed.
LostTold ==
  /\ slow = "lost" /\ slow_todo = {}
  /\ slow' = "idle"
  /\ UNCHANGED <<status, main, slow_todo, slowMem, fastVars, ring, row, told,
                 deaths>>

\* The slow thread finds that it may end, between two iterations only.
MayEnd == slow = "idle" /\ ~MonRunning

SlowEnds ==
  /\ MayEnd
  /\ slow' = "ended"
  /\ UNCHANGED <<status, main, slow_todo, slowMem, fastVars, ring, row, told,
                 deaths>>

SlowStep == SlowTells \/ Save \/ LostTold \/ SlowEnds

-----------------------------------------------------------------------------
(* The fast loop *)

\* Both reads of a tick succeed.  The first tick takes its reading for baseline.
Tick ==
  /\ fast = "idle" /\ FastRunning
  /\ fast' = "announce"
  /\ fast_todo' =
       IF first_tick THEN {} ELSE Edges(FastWatch, prev_fast, status)
  /\ prev_fast' = status
  /\ first_tick' = FALSE
  /\ untold' =
       untold \cup (IF first_tick THEN Unlike(FastWatch, status) ELSE {})
  /\ UNCHANGED <<status, main, slowVars, ring, row, said, deaths>>

FastTells ==
  /\ \E e \in fast_todo :
       IsNext(e, fast_todo) /\ Tell(e) /\ fast_todo' = fast_todo \ {e}
  /\ UNCHANGED <<status, main, slowVars, fast, fastMem, ring, row, deaths>>

TickEnds ==
  /\ fast = "announce" /\ fast_todo = {}
  /\ fast' = "idle"
  /\ UNCHANGED <<status, main, slowVars, fast_todo, fastMem, ring, row, told,
                 deaths>>

FastEnds ==
  /\ fast = "idle" /\ ~FastRunning
  /\ fast' = "ended"
  /\ UNCHANGED <<status, main, slowVars, fast_todo, fastMem, ring, row, told,
                 deaths>>

FastStep == FastTells \/ TickEnds \/ FastEnds

-----------------------------------------------------------------------------

Starting == Boot \/ StartFast \/ StartSlowOnly
Stopping == StopFast \/ FreeFast \/ DropFast \/ FinalSave

Next ==
  \/ UpsChanges
  \/ Starting \/ Stop \/ Stopping \/ Crash
  \/ InitialRead \/ Poll \/ PollFlakes \/ PollLost \/ SlowStep
  \/ Tick \/ FastStep

\* Threads run, and of the reads attempted for ever some succeed.  Nothing makes
\* the daemon start, stop or crash.
Fairness ==
  /\ WF_vars(StartFast \/ StartSlowOnly) /\ WF_vars(Stopping)
  /\ WF_vars(InitialRead) /\ WF_vars(SlowStep) /\ SF_vars(Poll)
  /\ WF_vars(FastStep) /\ SF_vars(Tick)

Spec == Init /\ [][Next]_vars /\ Fairness
-----------------------------------------------------------------------------
(* Properties *)

Events ==
  FastWatch \cup AlertWatch \cup SlowWatch \cup LinkWatch \cup {Triggered}
AllTitles == Titles(Events)

\* Every variable holds a value the code can give it, and a thread has events to
\* tell only while it is telling them.
TypeOK ==
  /\ status \in Readings
  /\ main \in {"down", "starting", "running", "stopping", "join_fast",
               "drop_fast", "join_slow"}
  /\ slow \in {"none", "initial", "idle", "announce", "lost", "ended"}
  /\ fast \in {"none", "idle", "announce", "ended"}
  /\ slow_todo \subseteq Events /\ fast_todo \subseteq Events
  /\ slow_todo # {} => slow \in {"announce", "lost"}
  /\ fast_todo # {} => fast = "announce"
  /\ data \in Readable \cup {NoData}
  /\ prev \in Readable /\ alert_prev \in Readable /\ prev_fast \in Readable
  /\ saved \in Readable \cup {NoRow}
  /\ {was_connected, gone, first_tick, polled, row_lost} \subseteq BOOLEAN
  /\ ring \in {"none", "live", "freed"}
  /\ said \subseteq AllTitles /\ untold \subseteq AllTitles
  /\ deaths \in 0..MaxDeaths

\* Between two polls, and between two ticks, the last event on each condition
\* tells what the thread that owns it saw last, across crashes and restarts and
\* whatever the other thread told meanwhile (monitor.c:362-449,
\* fast_loop.c:104-165).
\* Excepted are the conditions the run started from without telling (untold),
\* until their next event, and "Fault", which two bits share.
StoryTold ==
  /\ slow \in {"idle", "ended"} =>
       /\ Unlike(SlowWatch, prev) \subseteq untold
       /\ Unlike(AlertWatch, prev) \subseteq untold
       /\ "UPSDisconnected" \notin untold =>
            (("UPSDisconnected" \in said) <=> (gone /\ ~was_connected))
  /\ fast \in {"idle", "ended"} /\ ~first_tick =>
       Unlike(FastWatch, prev_fast) \subseteq untold \cup {"Fault"}

Told(e) == e.title \notin untold \cup {"Fault", "ShutdownTriggered"} =>
             (e.title \in said) # e.on

\* No event repeats the one before it on the same condition: not in a run, nor
\* when a restart meets a condition that is still there (monitor.h:80-81).  A
\* crash between an event and the write of the row excepts that condition.
NoRepeat == [][ /\ slow' = slow => \A e \in slow_todo \ slow_todo' : Told(e)
                /\ fast' = fast => \A e \in fast_todo \ fast_todo' : Told(e)
              ]_vars

\* A change is announced before it reaches the row, whatever crashes between the
\* two: a run that starts from a row finds every change in it told
\* (monitor.c:53-58, 456-467, 585-599).
AnnouncedBeforeSaved ==
  [][ saved' # saved =>
        \A e \in SlowWatch \cup AlertWatch :
          (e.bits \cap Loaded # {}) # (e.bits \cap saved' # {})
            => ((e.title \in said) <=> (e.bits \cap saved' # {})) ]_vars

\* "The on-disk row always reflects the last observed transition"
\* (monitor.c:452-453): between two polls, and after a clean stop, it holds what
\* the last poll read, unless the last write of it failed.
RowIsLastObserved ==
  /\ slow \in {"idle", "ended"} /\ polled /\ ~row_lost => Loaded = Tracked(data)

\* A mode the UPS enters and stays in, while the daemon runs, is announced.
LastingModeAnnounced ==
  \A e \in {w \in SlowWatch : w.on} :
    <>[](main = "running" /\ e.bits \subseteq status)
      => <>[](e.title \in said \cup untold)

\* Refuted: a power condition that lasts while the daemon runs is announced, by
\* the fast loop or by the slow loop alone (monitor.c:564-566,
\* fast_loop.h:27-31).
PowerAnnounced ==
  \A e \in {w \in FastWatch : w.on} :
    <>[](main = "running" /\ e.bits \subseteq status) => <>(e.title \in said)

\* Refuted: once a poll has met "on battery + shutdown imminent"
\* (monitor.c:433), the trigger has been announced.
ImminentAnnounced ==
  slow = "idle" /\ polled /\ data # NoData
    /\ {"ON_BATTERY", "SHUTDOWN_IMMINENT"} \subseteq data
    => "ShutdownTriggered" \in said
==============================================================================
