---------------------------- MODULE UpsLinkProofs ----------------------------
(***************************************************************************)
(* Proofs about UpsLink, for every set of devices, every number of threads *)
(* and every limit: a handle is released once, what is cached describes    *)
(* the device behind it, and attempts to reopen it are spaced.             *)
(***************************************************************************)
EXTENDS UpsLink, TLAPS

\* The specification without its fairness
SafeSpec == Init /\ [][Next]_vars

-----------------------------------------------------------------------------
(* The handle *)

Reopening == {"retry", "detect"}
Connected == {"caps", "drop", "regs", "inventory", "call"}

\* The handle is recorded exactly while a call is past detect; nothing is
\* recorded before the first driver claims a device or after the end.
HandleInv ==
  /\ handles = IF linked \/ at = "detect" THEN 1 ELSE 0
  /\ at \in Steps
  /\ at \in Connected => linked
  /\ at \in Reopening => ~linked
  /\ stage = "connecting" /\ at = "free" => ~linked
  /\ stage = "connecting" => at \notin {"retry", "call"}
  /\ stage \in {"closed", "crashed"} => ~linked /\ at = "free"
  /\ stage \in {"connecting", "up", "closed", "crashed"}

LEMMA HandleInit == Init => HandleInv
BY DEF Init, HandleInv, Steps, Connected, Reopening

LEMMA HandleStep == HandleInv /\ [Next]_vars => HandleInv'
<1> SUFFICES ASSUME HandleInv, [Next]_vars PROVE HandleInv'
  OBVIOUS
<1> USE DEF HandleInv, Steps, Connected, Reopening
<1>1. CASE Unplug
  BY <1>1 DEF Unplug, mutex, start, handle
<1>2. CASE Plug
  BY <1>2 DEF Plug, mutex, start, handle
<1>3. CASE Tick
  BY <1>3 DEF Tick, mutex, start, handle
<1>4. CASE StepBack
  BY <1>4 DEF StepBack, mutex, start, handle
<1>5. CASE ProbeOpens
  BY <1>5 DEF ProbeOpens, Open
<1>6. CASE ProbeSkips
  BY <1>6 DEF ProbeSkips, mutex, handle
<1>7. CASE Rejects \/ ConnectFails
  BY <1>7 DEF Rejects, ConnectFails, Fails, Unlock, Release
<1>8. CASE Claims
  BY <1>8 DEF Claims, start
<1>9. CASE NarrowCaps
  BY <1>9 DEF NarrowCaps, start, handle
<1>10. CASE DropList
  BY <1>10 DEF DropList, start, handle
<1>11. CASE ResolveRegs
  BY <1>11 DEF ResolveRegs, start, handle
<1>12. CASE RefreshInventory
  <2>1. /\ at = "inventory" /\ linked' = linked /\ handles' = handles
        /\ \/ stage = "connecting" /\ Fails /\ stage' = "up"
           \/ stage # "connecting" /\ at' = "call" /\ stage' = stage
    BY <1>12 DEF RefreshInventory, handle
  <2> QED
    BY <2>1 DEF Fails, Unlock
<1>13. CASE TooSoon
  BY <1>13 DEF TooSoon, Fails, Unlock, start, handle
<1>14. CASE AttemptFails
  BY <1>14 DEF AttemptFails, Attempt, Fails, Unlock, start, handle
<1>15. CASE AttemptOpens
  BY <1>15 DEF AttemptOpens, Attempt, Open, start
<1>16. CASE ReadOk
  BY <1>16 DEF ReadOk, Unlock, start
<1>17. CASE ReadFails
  <2>1. /\ at = "call" /\ at' = "free" /\ stage' = stage
        /\ \/ UNCHANGED <<linked, handles>>
           \/ linked' = FALSE /\ handles' = handles - 1
    BY <1>17 DEF ReadFails, Fails, Unlock, HandleError, start
  <2>2. linked /\ handles = 1 /\ stage = "up"
    BY <2>1
  <2>3. CASE UNCHANGED <<linked, handles>>
    BY <2>1, <2>2, <2>3
  <2>4. CASE linked' = FALSE /\ handles' = handles - 1
    BY <2>1, <2>2, <2>4
  <2> QED
    BY <2>1, <2>3, <2>4
<1>18. CASE OtherCall
  BY <1>18 DEF OtherCall, Fails, Unlock, start, handle
<1>19. CASE Close
  BY <1>19 DEF Close, Freed, mutex
<1>20. ASSUME NEW p \in Threads, NEW o \in Ops, Enter(p, o)
       PROVE  HandleInv'
  BY <1>20 DEF Enter, start, handle
<1>21. ASSUME NEW p \in Threads, FindConfigReg(p)
       PROVE  HandleInv'
  BY <1>21 DEF FindConfigReg, mutex, start, handle
<1>22. ASSUME NEW p \in Threads, ForgetConfigReg(p)
       PROVE  HandleInv'
  BY <1>22 DEF ForgetConfigReg, mutex, start, handle
<1>23. ASSUME NEW p \in Threads, Topology(p)
       PROVE  HandleInv'
  BY <1>23 DEF Topology, Fails, Unlock, mutex
<1>24. ASSUME NEW p \in Threads, TopologyAnswers(p)
       PROVE  HandleInv'
  BY <1>24 DEF TopologyAnswers, mutex, start, handle
<1>25. CASE UNCHANGED vars
  BY <1>25 DEF vars, mutex, start, handle
<1> QED
  BY <1>1, <1>2, <1>3, <1>4, <1>5, <1>6, <1>7, <1>8, <1>9, <1>10, <1>11,
     <1>12, <1>13, <1>14, <1>15, <1>16, <1>17, <1>18, <1>19, <1>20, <1>21,
     <1>22, <1>23, <1>24, <1>25 DEF Next

-----------------------------------------------------------------------------
(* What is cached *)

\* The driver is of the attachment the configuration names.
Fits(drv) == \A d \in Here \ {NoDevice} : Connects(drv, d, params)

\* From the moment a handle is open to the next call: the driver is one of this
\* attachment, and past detect one that claims the device; what a connection
\* has set so far is of the device detect claimed unless another one took its
\* place, and what it has yet to set is not believed.
LinkInv ==
  /\ stage = "up" => Trying = driver
  /\ at = "detect" => driver = Trying /\ Fits(driver)
  /\ linked =>
       /\ peer \in Devices
       /\ Detects(driver, peer) /\ Connects(driver, peer, params)
       /\ at # "caps" => caps = ResolvedCaps(driver, peer)
       /\ at = "regs" => list = NoList
  /\ linked /\ ~swapped =>
       /\ Speaking \in {peer, NoDevice}
       /\ at \notin {"caps", "drop"} =>
            (list # NoList => list.of = peer)
       /\ at \notin {"caps", "drop", "regs"} =>
            (~guessed => list # NoList /\ list.regs = Resolved(peer, TRUE))
       /\ at \in {"free", "call"} => unread \/ inventory = peer

\* One device that opens tells of the others: a driver goes by the attachment.
LEMMA ConnectsFits ==
  ASSUME NEW drv \in {Drivers[i] : i \in 1..4}, NEW d,
         Connects(drv, d, params)
  PROVE  Fits(drv)
<1>1. drv \in {"srt", "smt", "apc_hid", "cyberpower_hid"}
  BY DEF Drivers
<1> QED
  BY <1>1 DEF Fits, Here, Connects, SerialOpens, ApcConnects,
     CyberpowerConnects, HidFound

\* Steps that leave the handle and what is cached alone
LEMMA LinkKept ==
  ASSUME HandleInv, LinkInv,
         UNCHANGED <<linked, peer, driver, params, probe, caps, list, guessed,
                     unread, inventory>>,
         linked /\ ~swapped' =>
           ~swapped /\ Speaking' \in {Speaking, peer, NoDevice},
         stage' = stage \/ stage' \notin {"connecting", "up"},
         \/ at' = at
         \/ at \in {"free", "call"} /\ at' \in {"free", "call"}
         \/ ~linked /\ at' # "detect"
  PROVE  LinkInv'
<1>1. /\ Resolved(peer, TRUE)' = Resolved(peer, TRUE)
      /\ Fits(driver)' = Fits(driver)
  BY DEF Resolved, Fits, Here
<1>2. stage' = "up" => Trying' = driver'
  BY DEF LinkInv, Trying
<1>3. at' = "detect" => driver' = Trying' /\ Fits(driver)'
  <2> SUFFICES ASSUME at' = "detect" PROVE driver' = Trying' /\ Fits(driver)'
    OBVIOUS
  <2>1. at = "detect" /\ driver = Trying /\ Fits(driver)
    BY DEF LinkInv
  <2> QED
    BY <1>1, <2>1 DEF Trying
<1>4. linked' =>
       /\ peer' \in Devices
       /\ Detects(driver', peer') /\ Connects(driver', peer', params')
       /\ at' # "caps" => caps' = ResolvedCaps(driver', peer')
       /\ at' = "regs" => list' = NoList
  BY DEF LinkInv
<1>5. linked' /\ ~swapped' =>
       /\ Speaking' \in {peer', NoDevice}
       /\ at' \notin {"caps", "drop"} =>
            (list' # NoList => list'.of = peer')
       /\ at' \notin {"caps", "drop", "regs"} =>
            (~guessed' =>
               list' # NoList /\ list'.regs = Resolved(peer, TRUE)')
       /\ at' \in {"free", "call"} => unread' \/ inventory' = peer'
  BY <1>1 DEF LinkInv
<1> QED
  BY <1>2, <1>3, <1>4, <1>5 DEF LinkInv

LEMMA LinkInit == Init => LinkInv
BY DEF Init, LinkInv, Trying

\* What resolve_config_regs answers is a list of registers.
LEMMA ResolvedIsList ==
  ASSUME NEW d \in Devices, driver \in {Drivers[i] : i \in 1..4},
         NEW answered \in BOOLEAN
  PROVE  [of |-> d, regs |-> Resolved(d, answered)] \in Lists
<1> DEFINE all == UNION {Regs(Drivers[i]) : i \in 1..4}
<1>1. {Drivers[i] : i \in 1..4} = {"srt", "smt", "apc_hid", "cyberpower_hid"}
  BY DEF Drivers
<1>2. all = SmtRegs \cup ApcRegs
  <2>1. \A r : r \in all <=> \E i \in 1..4 : r \in Regs(Drivers[i])
    OBVIOUS
  <2>2. \A r : r \in all <=> \E drv \in {"srt", "smt", "apc_hid",
                                       "cyberpower_hid"} : r \in Regs(drv)
    BY <1>1, <2>1
  <2> HIDE DEF all
  <2> QED
    BY <2>2 DEF Regs, SmtRegs, ApcRegs, CyberpowerRegs
<1>3. d.groups \subseteq SmtRegs
  BY LinkAssumption DEF LinkAssumption, SmtRegs
<1>4. Resolved(d, answered) \subseteq SmtRegs \cup ApcRegs
  BY <1>1, <1>3 DEF Resolved, SmtResolve, ApcResolve, CyberpowerResolve,
     SmtRegs, ApcRegs, CyberpowerRegs
<1> QED
  BY <1>2, <1>4 DEF Lists

\* While a handle is recorded the driver tells of some device; of the one
\* detect claimed while no other took its place.
LEMMA ToldIsDevice ==
  ASSUME TypeOK, LinkInv, linked
  PROVE  Told \in Devices /\ (~swapped => Told = peer)
<1>1. peer \in Devices /\ (~swapped => Speaking \in {peer, NoDevice})
  BY DEF LinkInv
<1>2. Speaking \in Devices \cup {NoDevice}
  BY DEF TypeOK, Speaking, Here
<1> QED
  BY <1>1, <1>2 DEF Told

LEMMA LinkStep ==
  TypeOK /\ HandleInv /\ HandleInv' /\ LinkInv /\ [Next]_vars => LinkInv'
<1> SUFFICES ASSUME TypeOK, HandleInv, HandleInv', LinkInv, [Next]_vars
             PROVE  LinkInv'
  OBVIOUS
<1> USE DEF unit
<1>0. UNCHANGED unit => Speaking' = Speaking /\ swapped' = swapped
  BY DEF Speaking
<1>1. CASE Unplug
  <2>1. Speaking' = NoDevice /\ swapped' = swapped
    BY <1>1 DEF Unplug, Speaking
  <2> QED
    BY <1>1, <2>1, LinkKept DEF Unplug, mutex, start, cached, handle
<1>2. CASE Plug
  <2>1. linked /\ ~swapped' => ~swapped /\ Speaking' \in {peer, NoDevice}
    BY <1>2 DEF Plug
  <2> QED
    BY <1>2, <2>1, LinkKept DEF Plug, mutex, start, cached, handle
<1>3. CASE Tick
  BY <1>3, <1>0, LinkKept DEF Tick, mutex, start, cached, handle
<1>4. CASE StepBack
  BY <1>4, <1>0, LinkKept DEF StepBack, mutex, start, cached, handle
<1>5. CASE ProbeOpens
  <2>1. ~linked /\ ~linked' /\ stage = "connecting" /\ stage' = stage
    BY <1>5 DEF ProbeOpens, HandleInv
  <2>2. at' = "detect" /\ Trying' = Trying /\ driver' = Trying
    BY <1>5 DEF ProbeOpens, Open, Trying
  <2>3. Fits(driver)'
    <3>1. Connects(driver', wire', params')
      BY <1>5 DEF ProbeOpens, Open
    <3>2. driver' \in {Drivers[i] : i \in 1..4}
      BY <1>5 DEF ProbeOpens, Trying, TypeOK
    <3>3. Fits(driver')
      BY <1>5, <3>2, ConnectsFits DEF ProbeOpens, Open
    <3> QED
      BY <1>5, <3>3 DEF ProbeOpens, Fits, Here
  <2> QED
    BY <2>1, <2>2, <2>3 DEF LinkInv
<1>6. CASE ProbeSkips
  <2>1. /\ ~linked /\ linked' = linked /\ stage = "connecting"
        /\ stage' = stage /\ at' = "free"
    BY <1>6 DEF ProbeSkips, HandleInv, mutex, handle
  <2> QED
    BY <2>1 DEF LinkInv
<1>7. CASE Rejects \/ ConnectFails
  <2>1. ~linked /\ linked' = linked /\ at' = "free" /\ stage' = stage
    BY <1>7 DEF Rejects, ConnectFails, HandleInv, Reopening, Release, Fails,
       Unlock
  <2>2. stage = "up" => Trying' = Trying /\ driver' = driver
    BY <1>7 DEF Rejects, ConnectFails, Trying
  <2> QED
    BY <2>1, <2>2 DEF LinkInv
<1>8. CASE Claims
  <2>1. /\ at = "detect" /\ at' = "caps" /\ swapped' = FALSE
        /\ Speaking # NoDevice /\ Detects(Trying, Speaking)
        /\ peer' = Speaking
        /\ UNCHANGED <<stage, probe, driver, params, wire, live>>
    BY <1>8 DEF Claims, Claimable, start
  <2>2. Speaking \in Here \ {NoDevice} /\ Speaking' = Speaking
    BY <2>1 DEF Speaking, TypeOK
  <2>3. Speaking \in Devices
    BY <2>2 DEF Here
  <2>4. driver = Trying /\ Connects(driver, Speaking, params)
    BY <2>1, <2>2 DEF LinkInv, Fits
  <2> QED
    BY <2>1, <2>2, <2>3, <2>4 DEF LinkInv, Trying
<1>9. CASE NarrowCaps
  <2>1. /\ at = "caps" /\ at' = "drop" /\ caps' = ResolvedCaps(driver, peer)
        /\ UNCHANGED <<stage, probe, driver, peer, params, linked>>
        /\ UNCHANGED unit
    BY <1>9 DEF NarrowCaps, start, handle
  <2> QED
    BY <1>0, <2>1 DEF LinkInv, Trying
<1>10. CASE DropList
  <2>1. /\ at = "drop" /\ at' = "regs" /\ list' = NoList
        /\ UNCHANGED <<stage, probe, driver, peer, params, linked, caps>>
        /\ UNCHANGED unit
    BY <1>10 DEF DropList, start, handle
  <2> QED
    BY <1>0, <2>1 DEF LinkInv, Trying
<1>11. CASE ResolveRegs
  <2>1. /\ at = "regs" /\ at' = "inventory"
        /\ UNCHANGED <<stage, probe, driver, peer, params, linked, caps>>
        /\ UNCHANGED unit
    BY <1>11 DEF ResolveRegs, start, handle
  <2>2. PICK answered \in BOOLEAN, memory \in BOOLEAN :
          /\ IF memory /\ Resolved(Told, answered) # {}
             THEN list' = [of |-> Told, regs |-> Resolved(Told, answered)]
             ELSE UNCHANGED list
          /\ guessed' = (~answered \/ ~memory \/ Resolved(Told, answered) = {})
    BY <1>11 DEF ResolveRegs
  <2>3. linked /\ list = NoList
    BY <2>1 DEF LinkInv, HandleInv, Connected
  <2>4. Told \in Devices /\ (~swapped => Told = peer)
    BY <2>3, ToldIsDevice
  <2>5. Resolved(peer, TRUE)' = Resolved(peer, TRUE)
    BY <2>1 DEF Resolved
  <2>6. ~swapped => (list' = NoList \/ list'.of = peer)
    BY <2>2, <2>3, <2>4
  <2>7. ASSUME ~swapped, ~guessed'
        PROVE  list' # NoList /\ list'.regs = Resolved(peer, TRUE)
    <3>1. list' = [of |-> peer, regs |-> Resolved(peer, TRUE)]
      BY <2>2, <2>4, <2>7
    <3>2. [of |-> peer, regs |-> Resolved(peer, TRUE)] # NoList
      BY <2>4, <2>7, ResolvedIsList, NoListAssumption DEF TypeOK
    <3> QED
      BY <3>1, <3>2
  <2> QED
    BY <1>0, <2>1, <2>3, <2>5, <2>6, <2>7 DEF LinkInv, Trying
<1>12. CASE RefreshInventory
  <2>1. /\ at = "inventory"
        /\ unread' \/ inventory' = Told
        /\ at' \in {"free", "call"} /\ stage' \in {stage, "up"}
        /\ UNCHANGED <<probe, driver, peer, params, linked, caps, list,
                      guessed>>
        /\ UNCHANGED unit
    BY <1>12 DEF RefreshInventory, Fails, Unlock, handle
  <2>2. stage' = "up" => Trying' = driver
    BY <1>12, <2>1 DEF RefreshInventory, Trying
  <2>3. Resolved(peer, TRUE)' = Resolved(peer, TRUE)
    BY <2>1 DEF Resolved
  <2>4. linked /\ linked'
    BY <2>1 DEF HandleInv, Connected
  <2>5. ~swapped => unread' \/ inventory' = peer
    BY <2>1, <2>4, ToldIsDevice
  <2>6. ~swapped /\ ~guessed' =>
          list' # NoList /\ list'.regs = Resolved(peer, TRUE)'
    BY <2>1, <2>3, <2>4 DEF LinkInv
  <2>7. /\ caps' = ResolvedCaps(driver', peer')
        /\ peer' \in Devices /\ Detects(driver', peer')
        /\ Connects(driver', peer', params')
    BY <2>1, <2>4 DEF LinkInv
  <2>8. ~swapped => /\ Speaking \in {peer, NoDevice}
                    /\ list' # NoList => list'.of = peer'
    BY <2>1, <2>4 DEF LinkInv
  <2> QED
    BY <1>0, <2>1, <2>2, <2>5, <2>6, <2>7, <2>8 DEF LinkInv
<1>13. CASE TooSoon
  BY <1>13, <1>0, LinkKept
     DEF TooSoon, Fails, Unlock, start, cached, handle, HandleInv, Reopening
<1>14. CASE AttemptFails
  BY <1>14, <1>0, LinkKept
     DEF AttemptFails, Attempt, Fails, Unlock, start, cached, handle,
         HandleInv, Reopening
<1>15. CASE AttemptOpens
  <2>1. ~linked /\ ~linked' /\ at' = "detect" /\ stage' = stage
    BY <1>15 DEF AttemptOpens, Attempt, Open, HandleInv, Reopening, start
  <2>2. Trying' = Trying /\ driver' = driver /\ params' = params
    BY <1>15 DEF AttemptOpens, start, Trying
  <2>4. Trying = driver
    BY <1>15 DEF AttemptOpens, Attempt, LinkInv, HandleInv
  <2>3. Fits(driver)'
    <3>1. Fits(driver)
      BY <1>15, <2>4, ConnectsFits DEF AttemptOpens, Open, TypeOK
    <3> QED
      BY <2>2, <3>1 DEF Fits, Here
  <2> QED
    BY <2>1, <2>2, <2>3, <2>4 DEF LinkInv
<1>16. CASE ReadOk
  BY <1>16, <1>0, LinkKept DEF ReadOk, Unlock, start, cached
<1>17. CASE ReadFails
  <2>1. /\ at = "call" /\ at' = "free"
        /\ UNCHANGED <<stage, probe, driver, params, caps, list, guessed,
                      unread, inventory, wire>>
        /\ \/ UNCHANGED <<linked, peer, live, swapped>>
           \/ linked' = FALSE
    BY <1>17 DEF ReadFails, Fails, Unlock, HandleError, start, cached
  <2>2. CASE UNCHANGED <<linked, peer, live, swapped>>
    BY <2>1, <2>2, LinkKept DEF Speaking
  <2>3. CASE linked' = FALSE
    BY <2>1, <2>3 DEF LinkInv, Trying
  <2> QED
    BY <2>1, <2>2, <2>3
<1>18. CASE OtherCall
  BY <1>18, <1>0, LinkKept DEF OtherCall, Fails, Unlock, start, cached, handle
<1>19. CASE Close
  BY <1>19 DEF Close, Freed, mutex, LinkInv
<1>20. ASSUME NEW p \in Threads, NEW o \in Ops, Enter(p, o)
       PROVE  LinkInv'
  BY <1>20, <1>0, LinkKept DEF Enter, start, cached, handle
<1>21. ASSUME NEW p \in Threads, FindConfigReg(p)
       PROVE  LinkInv'
  BY <1>21, <1>0, LinkKept DEF FindConfigReg, mutex, start, cached, handle
<1>22. ASSUME NEW p \in Threads, ForgetConfigReg(p)
       PROVE  LinkInv'
  BY <1>22, <1>0, LinkKept DEF ForgetConfigReg, mutex, start, cached, handle
<1>23. ASSUME NEW p \in Threads, Topology(p)
       PROVE  LinkInv'
  <2>1. /\ UNCHANGED <<linked, peer, driver, params, probe, caps, list,
                      guessed, unread, inventory>>
        /\ \/ linked /\ stage' = stage /\ at' = at
           \/ ~linked /\ stage' = "crashed" /\ at' = "free"
        /\ UNCHANGED unit
    BY <1>23 DEF Topology, Fails, Unlock, mutex, cached
  <2> QED
    BY <1>0, <2>1, LinkKept
<1>24. ASSUME NEW p \in Threads, TopologyAnswers(p)
       PROVE  LinkInv'
  BY <1>24, <1>0, LinkKept DEF TopologyAnswers, mutex, start, cached, handle
<1>25. CASE UNCHANGED vars
  BY <1>25, <1>0, LinkKept DEF vars, mutex, start, cached, handle
<1> QED
  BY <1>1, <1>2, <1>3, <1>4, <1>5, <1>6, <1>7, <1>8, <1>9, <1>10, <1>11,
     <1>12, <1>13, <1>14, <1>15, <1>16, <1>17, <1>18, <1>19, <1>20, <1>21,
     <1>22, <1>23, <1>24, <1>25 DEF Next

-----------------------------------------------------------------------------
(* The pace of the attempts *)

\* By the wall clock an attempt is never further back than it is in truth,
\* unless the handle was closed since.
PaceInv ==
  /\ age \in Int /\ since \in Nat /\ step_backs \in Nat
  /\ -step_backs <= age /\ age <= RECONNECT_INTERVAL_SEC
  /\ since <= RECONNECT_INTERVAL_SEC
  /\ torn = TRUE \/ age <= since

LEMMA PaceInit == Init => PaceInv
BY LinkAssumption DEF LinkAssumption, Init, PaceInv

LEMMA PaceStep == PaceInv /\ [Next]_vars => PaceInv'
<1> SUFFICES ASSUME PaceInv, [Next]_vars PROVE PaceInv'
  OBVIOUS
<1> USE LinkAssumption DEF LinkAssumption, PaceInv
<1>1. CASE UNCHANGED clock
  BY <1>1 DEF clock
<1>2. CASE Tick
  BY <1>2 DEF Tick, Later
<1>3. CASE StepBack
  BY <1>3 DEF StepBack
<1>4. CASE Attempt
  BY <1>4 DEF Attempt
<1>5. CASE ReadFails
  <2>1. CASE consecutive_errors + 1 < MAX_CONSECUTIVE_ERRORS
    BY <1>1, <1>5, <2>1 DEF ReadFails, HandleError
  <2>2. CASE ~(consecutive_errors + 1 < MAX_CONSECUTIVE_ERRORS)
    <3>1. /\ age' = RECONNECT_INTERVAL_SEC /\ torn' = TRUE
          /\ since' = since /\ step_backs' = step_backs
      BY <1>5, <2>2 DEF ReadFails, HandleError
    <3> QED
      BY <3>1
  <2> QED
    BY <2>1, <2>2
<1>6. Next => Tick \/ StepBack \/ Attempt \/ ReadFails \/ UNCHANGED clock
  BY DEF Next, Unplug, Plug, ProbeOpens, ProbeSkips, Rejects, ConnectFails,
     Claims, NarrowCaps, DropList, ResolveRegs, RefreshInventory, TooSoon,
     AttemptFails, AttemptOpens, ReadOk, OtherCall, Close, Freed, Enter,
     FindConfigReg, ForgetConfigReg, Topology, TopologyAnswers
<1> QED
  BY <1>1, <1>2, <1>3, <1>4, <1>5, <1>6 DEF vars

-----------------------------------------------------------------------------
(* Types *)

LEMMA TypeInit == Init => TypeOK
<1> SUFFICES ASSUME Init PROVE TypeOK
  OBVIOUS
<1>1. driver \in {Drivers[i] : i \in 1..4}
  BY DEF Init
<1>2. /\ age \in (-MaxStepBacks)..RECONNECT_INTERVAL_SEC
      /\ since \in 0..RECONNECT_INTERVAL_SEC
      /\ handles \in 0..1 /\ consecutive_errors \in 0..MAX_CONSECUTIVE_ERRORS
      /\ plugs \in 0..MaxPlugs /\ step_backs \in 0..MaxStepBacks
      /\ probe \in 1..4
  BY LinkAssumption DEF LinkAssumption, Init
<1> QED
  BY <1>1, <1>2, LinkAssumption
     DEF LinkAssumption, Init, TypeOK, Here, Steps, Ops, SerialCaps

LEMMA TypeStep ==
  TypeOK /\ HandleInv /\ HandleInv' /\ LinkInv /\ PaceInv /\ [Next]_vars
    => TypeOK'
<1> SUFFICES ASSUME TypeOK, HandleInv, HandleInv', LinkInv, PaceInv,
                    [Next]_vars
             PROVE  TypeOK'
  OBVIOUS
<1>0. handles' \in 0..1
  BY DEF HandleInv
<1>a. Unlock => at' \in Steps /\ caller' \in Threads /\ op' \in Ops
  BY LinkAssumption DEF LinkAssumption, Unlock, Steps, Ops
<1>c. NoDevice \in Here /\ (params' = params => Here' = Here)
  BY DEF Here
<1>d. Speaking \in Here
  BY DEF TypeOK, Speaking, Here
<1>b. Attempt => /\ age' \in (-MaxStepBacks)..RECONNECT_INTERVAL_SEC
                 /\ since' \in 0..RECONNECT_INTERVAL_SEC
                 /\ torn' \in BOOLEAN /\ step_backs' = step_backs
  <2>1. Attempt => /\ age' = 0 /\ since' = 0 /\ torn' \in BOOLEAN
                   /\ step_backs' = step_backs
    BY DEF Attempt
  <2>2. /\ 0 \in (-MaxStepBacks)..RECONNECT_INTERVAL_SEC
        /\ 0 \in 0..RECONNECT_INTERVAL_SEC
    BY LinkAssumption DEF LinkAssumption
  <2> QED
    BY <2>1, <2>2
<1> USE <1>c, LinkAssumption DEF TypeOK, LinkAssumption, unit, clock, mutex,
        owner, start, cached, handle, queries
<1>1. CASE Unplug
  BY <1>1 DEF Unplug
<1>2. CASE Plug
  BY <1>2 DEF Plug
<1>3. CASE Tick
  BY <1>3 DEF Tick, Later
<1>4. CASE StepBack
  BY <1>4 DEF StepBack, PaceInv
<1>5. CASE ProbeOpens
  BY <1>0, <1>5 DEF ProbeOpens, Open, Trying, Drivers, Steps
<1>6. CASE ProbeSkips
  BY <1>6 DEF ProbeSkips, NextDriver, Drivers
<1>7. CASE Rejects
  <2>1. probe' \in 1..4
    BY <1>7 DEF Rejects, NextDriver, Drivers
  <2> QED
    BY <1>0, <1>a, <1>7, <2>1 DEF Rejects, Fails, Release
<1>7a. CASE ConnectFails
  <2>1. probe' \in 1..4
    BY <1>7a DEF ConnectFails
  <2> QED
    BY <1>0, <1>a, <1>7a, <2>1 DEF ConnectFails, Fails, Release
<1>8. CASE Claims
  <2>1. caps' \subseteq SerialCaps
    BY <1>8 DEF Claims, Caps, SerialCaps, ApcBacking, CyberpowerBacking
  <2>2. peer' \in Here' /\ consecutive_errors' \in 0..MAX_CONSECUTIVE_ERRORS
    BY <1>d, <1>8 DEF Claims
  <2> QED
    BY <1>8, <2>1, <2>2 DEF Claims, Steps
<1>9. CASE NarrowCaps
  BY <1>9 DEF NarrowCaps, ResolvedCaps, ApcResolveCaps, CyberpowerResolveCaps,
     Caps, SerialCaps, ApcBacking, CyberpowerBacking, Steps
<1>10. CASE DropList
  BY <1>10 DEF DropList, Steps
<1>11. CASE ResolveRegs
  <2>1. Told \in Devices
    BY <1>11, ToldIsDevice DEF ResolveRegs, HandleInv, Connected
  <2>2. list' \in Lists \cup {NoList}
    BY <1>11, <2>1, ResolvedIsList DEF ResolveRegs
  <2> QED
    BY <1>11, <2>2 DEF ResolveRegs, Steps
<1>12. CASE RefreshInventory
  <2>1. Told \in Devices
    BY <1>12, ToldIsDevice DEF RefreshInventory, HandleInv, Connected
  <2> QED
    BY <1>a, <1>12, <2>1 DEF RefreshInventory, Fails, Steps
<1>13. CASE TooSoon
  BY <1>a, <1>13 DEF TooSoon, Fails
<1>14. CASE AttemptFails
  BY <1>a, <1>b, <1>14 DEF AttemptFails, Fails
<1>15. CASE AttemptOpens
  BY <1>0, <1>b, <1>15 DEF AttemptOpens, Open, Steps
<1>16. CASE ReadOk
  BY <1>a, <1>16 DEF ReadOk
<1>17. CASE ReadFails
  <2>1. consecutive_errors' \in 0..MAX_CONSECUTIVE_ERRORS
    BY <1>17 DEF ReadFails, HandleError
  <2>2. /\ age' \in (-MaxStepBacks)..RECONNECT_INTERVAL_SEC
        /\ since' \in 0..RECONNECT_INTERVAL_SEC
        /\ step_backs' \in 0..MaxStepBacks
    BY <1>17 DEF ReadFails, HandleError
  <2>3. /\ {linked', torn', live', swapped'} \subseteq BOOLEAN
        /\ peer' \in Here
    BY <1>17 DEF ReadFails, HandleError, Here
  <2> QED
    BY <1>0, <1>a, <1>17, <2>1, <2>2, <2>3 DEF ReadFails, Fails
<1>18. CASE OtherCall
  BY <1>a, <1>18 DEF OtherCall, Fails
<1>19. CASE Close
  BY <1>0, <1>19 DEF Close, Freed, Here
<1>20. ASSUME NEW p \in Threads, NEW o \in Ops, Enter(p, o)
       PROVE  TypeOK'
  BY <1>20 DEF Enter, Steps
<1>21. ASSUME NEW p \in Threads, FindConfigReg(p)
       PROVE  TypeOK'
  BY <1>21 DEF FindConfigReg
<1>22. ASSUME NEW p \in Threads, ForgetConfigReg(p)
       PROVE  TypeOK'
  BY <1>22 DEF ForgetConfigReg
<1>23. ASSUME NEW p \in Threads, Topology(p)
       PROVE  TypeOK'
  BY <1>0, <1>a, <1>23 DEF Topology, Fails
<1>24. ASSUME NEW p \in Threads, TopologyAnswers(p)
       PROVE  TypeOK'
  BY <1>24 DEF TopologyAnswers
<1>25. CASE UNCHANGED vars
  BY <1>25 DEF vars
<1> QED
  BY <1>1, <1>2, <1>3, <1>4, <1>5, <1>6, <1>7, <1>8, <1>9, <1>10, <1>11,
     <1>12, <1>13, <1>14, <1>15, <1>16, <1>17, <1>18, <1>19, <1>20, <1>21,
     <1>22, <1>23, <1>24, <1>25, <1>7a DEF Next

-----------------------------------------------------------------------------
(* The theorems *)

LinkSafe == TypeOK /\ HandleInv /\ LinkInv /\ PaceInv

LEMMA LinkAlwaysSafe == SafeSpec => []LinkSafe
<1>1. Init => LinkSafe
  BY TypeInit, HandleInit, LinkInit, PaceInit DEF LinkSafe
<1>2. LinkSafe /\ [Next]_vars => LinkSafe'
  BY TypeStep, HandleStep, LinkStep, PaceStep DEF LinkSafe
<1> QED
  BY <1>1, <1>2, PTL DEF SafeSpec

\* Every reachable state of the link is well typed; in particular the error
\* counter and the clocks keep their ranges.
THEOREM LinkTypeCorrect == Spec => []TypeOK
<1>1. LinkSafe => TypeOK
  BY DEF LinkSafe
<1> QED
  BY <1>1, LinkAlwaysSafe, PTL DEF Spec, SafeSpec

\* A handle is released exactly once (ups_driver.h:341-342), whatever the
\* devices, the errors and the order of calls.
THEOREM HandleReleasedOnce == Spec => []OneHandle
<1>1. LinkSafe => OneHandle
  BY DEF LinkSafe, HandleInv, OneHandle
<1> QED
  BY <1>1, LinkAlwaysSafe, PTL DEF Spec, SafeSpec

\* Between two calls what is cached describes the device the link speaks to,
\* also when a reconnection met another one (ups.c:238-249), unless the cable
\* of a serial line was moved to another unit since detect.
THEOREM LinkAlwaysHonest == Spec => []LinkHonest
<1>1. LinkSafe => LinkHonest
  BY DEF LinkSafe, LinkInv, LinkHonest
<1> QED
  BY <1>1, LinkAlwaysSafe, PTL DEF Spec, SafeSpec

\* Two attempts to reopen the device are an interval apart, however the wall
\* clock is set back, unless a handle was closed in between (ups.c:240-241).
THEOREM AttemptsAlwaysSpaced == Spec => AttemptsSpaced
<1>1. LinkSafe /\ Attempt => since = RECONNECT_INTERVAL_SEC \/ torn
  BY LinkAssumption DEF LinkAssumption, LinkSafe, PaceInv, Attempt
<1>2. LinkSafe /\ [Next]_vars =>
        [Attempt => since = RECONNECT_INTERVAL_SEC \/ torn]_vars
  BY <1>1
<1> QED
  BY <1>2, LinkAlwaysSafe, PTL DEF Spec, SafeSpec, AttemptsSpaced
=============================================================================
