----------------------------- MODULE ConfigRegs -----------------------------
(***************************************************************************)
(* The settings of a serial UPS and their audit trail: the requests that   *)
(* set a register (src/src/api/routes/config.c), the daily snapshot that   *)
(* records what nobody told the daemon of (src/src/monitor/monitor.c and   *)
(* config_snapshot.c), and the writers that leave no record, which are the *)
(* weather thread, the shutdown workflow and the front panel.              *)
(*                                                                         *)
(* A register is read and written under the mutex of the UPS; what comes   *)
(* between two such calls of a request or of the snapshot is split.  The   *)
(* link is up; a unit may leave a request unanswered, or take a value and  *)
(* leave that unanswered.  The table of the audit rows is kept as the last *)
(* row of each register, which is all that is read of it to decide.        *)
(***************************************************************************)
EXTENDS ModbusUps, FiniteSets

CONSTANTS
  Clients,      \* the HTTP threads
  TrackedSets,  \* the names of the registers that are set or changed: in
                \* one behaviour those of one of these sets
  Values,       \* what each of them may be set to
  Background,   \* what the registers of a unit hold at first, by address
  OutletSets,   \* the outlet groups a unit may have
  MaxPosts, MaxChanges, MaxErrors \* bounds on requests, on what the others
                                  \* change, and on calls that fail

Tables == SmtRegisters \cup SrtRegisters

ASSUME ConfigAssumption ==
  /\ OutletSets \subseteq SUBSET Outlets
  /\ \A T \in TrackedSets :
       /\ T \subseteq {r.name : r \in Tables} /\ T \subseteq DOMAIN Values
       /\ \A n \in T : Values[n] \subseteq Nat
  /\ {MaxPosts, MaxChanges, MaxErrors} \subseteq Nat
  /\ DOMAIN Background \subseteq Nat
  /\ \A a \in DOMAIN Background : Background[a] \in 0..(WORD - 1)
  /\ \A r \in Tables : r.addr..(r.addr + r.count - 1) \subseteq DOMAIN Background

VARIABLES
  family, outlets,   \* the unit
  tracked,
  words,             \* what the registers that may change hold
  pc, req,           \* per client: where it stands, and what it asked for,
                     \* whether the write succeeded and what was read back
  job, seen, todo,   \* the snapshot: where it stands, the register it looks
                     \* at with the value it read, and those it has yet to
  rows,              \* the last audit row of each register
  thresholds,        \* the cached transfer thresholds
  \* history
  held,              \* per client, the unit has held the value it asked for
  origin,            \* who changed the word last
  behind,            \* the cache may be: another has changed a threshold, or
                     \* the thresholds could not be read
  posts, changes, errors

ups == <<family, outlets, tracked>>
http == <<pc, req, held, posts>>
snapshot == <<job, seen, todo>>
vars == <<ups, words, http, snapshot, rows, thresholds, origin, behind, changes,
          errors>>

\* The words that may change: all else is as in Background.
VariedOf ==
  [T \in TrackedSets |->
     {1026, 1027} \cup {r.addr : r \in {x \in Tables : x.name \in T}}]
Varied == VariedOf[tracked]
Mem == [a \in DOMAIN Background |->
          IF a \in Varied THEN words[a] ELSE Background[a]]
RegistersOf == [u \in Families \X SUBSET Outlets |-> Present(u[1], u[2])]
Registers == RegistersOf[<<family, outlets>>]
SettingsOf ==
  [T \in TrackedSets |->
     [u \in Families \X SUBSET Outlets |->
        {r \in RegistersOf[u] : r.name \in T /\ r.category = "config"}]]
Settings == SettingsOf[tracked][<<family, outlets>>]
Named(n) == {r \in Settings : r.name = n}
NoReg == [name |-> <<>>]
Asked(reg, value) == [reg |-> reg, value |-> value, ok |-> FALSE,
                      readback |-> <<0>>]
NoReq == Asked(NoReg, 0)
NoneSeen == [reg |-> NoReg, raw |-> <<>>, by |-> "none"]
NoRow == [raw |-> <<>>, source |-> "none", by |-> "none"]

Thresholds == {Unit("transfer_high"), Unit("transfer_low")}
ReadThresholds ==
  IF family = "smt" THEN SmtReadThresholds(Mem) ELSE SrtReadThresholds(Mem)

Fails == errors < MaxErrors /\ errors' = errors + 1
Works == UNCHANGED errors

Init ==
  /\ family \in Families
  /\ outlets \in IF family = "smt" THEN OutletSets ELSE {Outlets}
  /\ tracked \in TrackedSets
  /\ words = [a \in Varied |-> Background[a]]
  /\ pc = [c \in Clients |-> "idle"]
  /\ req = [c \in Clients |-> NoReq]
  /\ job = "idle" /\ seen = NoneSeen
  /\ todo = {}
  /\ rows = [n \in tracked |-> NoRow]
  /\ thresholds = ReadThresholds
  /\ held = [c \in Clients |-> FALSE]
  /\ origin = [a \in Varied |-> "panel"] /\ behind = FALSE
  /\ posts = 0 /\ changes = 0 /\ errors = 0

-----------------------------------------------------------------------------
(* POST /api/config/ups *)

Go(c, where) == pc' = [pc EXCEPT ![c] = where]
Returns(c) ==
  /\ Go(c, "idle") /\ req' = [req EXCEPT ![c] = NoReq]
  /\ held' = [held EXCEPT ![c] = FALSE]

\* The request is parsed and its register looked up; one that is not there or
\* is read-only, or a number that is no word, is refused here.
Post(c, n, value) ==
  /\ pc[c] = "idle" /\ posts < MaxPosts /\ posts' = posts + 1
  /\ value < WORD
  /\ \E r \in Named(n) :
       /\ r.writable /\ Go(c, "write")
       /\ req' = [req EXCEPT ![c] = Asked(r, value)]
  /\ UNCHANGED <<ups, held, words, snapshot, rows, thresholds, origin, behind,
                 changes, errors>>

\* A word is changed, or set to what it was.
SetWord(addr, value, who) ==
  /\ words' = [words EXCEPT ![addr] = value]
  /\ origin' = [origin EXCEPT ![addr] = who]
  /\ held' = [c \in Clients |->
       \/ held[c]
       \/ /\ pc[c] \in {"write", "readback"} /\ req[c].reg.addr = addr
          /\ req[c].value = value]

\* The value is refused before it gets to the wire.
PostInvalid(c) ==
  /\ pc[c] = "write" /\ ~Accepts(req[c].reg, req[c].value)
  /\ Returns(c)
  /\ UNCHANGED <<ups, words, posts, snapshot, rows, thresholds,
                 origin, behind, changes, errors>>

\* ups_config_write.  The unit takes the value or does not, and answers or
\* does not.
PostWrite(c) ==
  LET reg == req[c].reg
      value == req[c].value
  IN /\ pc[c] = "write" /\ Accepts(reg, value)
     /\ Go(c, "readback")
     /\ \E taken \in BOOLEAN, answered \in BOOLEAN :
          LET ok == WriteOk(family, reg, value, Mem, taken, answered) IN
          /\ req' = [req EXCEPT ![c].ok = ok]
          /\ IF taken THEN SetWord(reg.addr, value, "api")
             ELSE /\ held' = [held EXCEPT ![c] = @ \/ Mem[reg.addr] = value]
                  /\ UNCHANGED <<words, origin>>
          /\ IF ok THEN Works ELSE Fails
     /\ UNCHANGED <<ups, posts, snapshot, rows, thresholds, behind, changes>>

\* The register is read back; 0 when that fails.
PostReadback(c) ==
  /\ pc[c] = "readback" /\ Go(c, "record")
  /\ \/ /\ req' = [req EXCEPT ![c].readback = Raw(family, req[c].reg, Mem)]
        /\ held' = [held EXCEPT ![c] = @ \/ Mem[req[c].reg.addr] = req[c].value]
        /\ Works
     \/ req' = [req EXCEPT ![c].readback = <<0>>] /\ Fails /\ UNCHANGED held
  /\ UNCHANGED <<ups, words, posts, snapshot, rows, thresholds, origin,
                 behind, changes>>

\* A faulty Verdict, for the checks: the write is taken at its word.
VerdictTrusting(r) == "written"

\* What the client is told: "rejected" when the write failed and something
\* else was read back
Verdict(r) == IF ~r.ok /\ r.readback # <<r.value>> THEN "rejected" ELSE "written"

\* The audit row, whatever became of the write, and the answer; the insertion
\* may fail.  The thresholds are read again when one was set.
PostRecord(c) ==
  LET r == req[c] IN
  /\ pc[c] = "record"
  /\ IF r.reg.name \in Thresholds
     THEN Go(c, "refresh") /\ UNCHANGED <<req, held>>
     ELSE Returns(c)
  /\ \/ /\ rows' = [rows EXCEPT ![r.reg.name] =
                      [raw |-> r.readback, source |-> "api", by |-> "api"]]
        /\ Works
     \/ UNCHANGED rows /\ Fails
  /\ UNCHANGED <<ups, words, posts, snapshot, thresholds, origin, behind,
                 changes>>

\* A faulty PostRefresh, for the checks: the cache takes what was asked for.
PostRefreshAsAsked(c) ==
  /\ pc[c] = "refresh" /\ Returns(c)
  /\ thresholds' = [thresholds EXCEPT ![req[c].reg.name[2]] = <<req[c].value>>]
  /\ behind' = FALSE /\ Works
  /\ UNCHANGED <<ups, words, posts, snapshot, rows, origin, changes>>

\* api_refresh_thresholds
PostRefresh(c) ==
  /\ pc[c] = "refresh" /\ Returns(c)
  /\ \/ thresholds' = ReadThresholds /\ behind' = FALSE /\ Works
     \/ UNCHANGED thresholds /\ behind' = TRUE /\ Fails
  /\ UNCHANGED <<ups, words, posts, snapshot, rows, origin, changes>>

-----------------------------------------------------------------------------
(* The other requests.  They change nothing here: to bound a run, one of    *)
(* them is all that is asked in a behaviour.                               *)

\* reg_to_json: the number or the string listed, and whether it is flagged as
\* not applicable
Listed(reg) == IF reg.type = "string" THEN Words(reg, Mem)
               ELSE Raw(family, reg, Mem)
NotApplicable(reg) == Listed(reg) = reg.sentinel

\* What /api/status and the inventory page tell.  ups_read_dynamic drops the
\* readings of a battery that is disconnected.
StatusPage == IF family = "smt" THEN SmtReadStatus(Mem) ELSE SrtReadStatus(Mem)
IdentityPage ==
  IF family = "smt" THEN SmtReadInventory(Mem) ELSE SrtReadInventory(Mem)
Dropped == {"battery_runtime", "battery_charge_pct", "battery_voltage_pos"}
Disconnected == StatusPage.battery_system_error[1] % 2 = 1
DynamicPage ==
  LET d == IF family = "smt" THEN SmtReadDynamic(Mem) ELSE SrtReadDynamic(Mem)
  IN [f \in DOMAIN d |-> IF Disconnected /\ f \in Dropped
                         THEN [i \in DOMAIN d[f] |-> 0] ELSE d[f]]

\* The registers the pages do not agree on: the list takes a word as unsigned
\* that the readers take as signed, flags it, or keeps what was dropped.
ReadAsSigned == {"battery_voltage_pos", "efficiency", "shutdown_timer",
                 "start_timer", "reboot_timer"}
ToldApart(reg) ==
  \/ NotApplicable(reg)
  \/ reg.name[2] \in ReadAsSigned /\ Negative(Listed(reg)[1])
  \/ reg.name[2] \in Dropped /\ Disconnected

\* GET /api/about and GET /api/config/ups, which list what the registers say
About(c) ==
  /\ pc[c] = "idle" /\ posts = 0 /\ posts' = MaxPosts
  /\ Go(c, "about")
  /\ UNCHANGED <<ups, words, req, held, snapshot, rows, thresholds, origin,
                 behind, changes, errors>>

\* POST /api/cmd, for ups_cmd_execute
Cmd(c) ==
  /\ pc[c] = "idle" /\ posts = 0 /\ posts' = MaxPosts
  /\ Go(c, "command")
  /\ UNCHANGED <<ups, words, req, held, snapshot, rows, thresholds, origin,
                 behind, changes, errors>>

Answered(c) ==
  /\ pc[c] \in {"about", "command"} /\ Go(c, "idle")
  /\ UNCHANGED <<ups, words, req, held, posts, snapshot, rows,
                 thresholds, origin, behind, changes, errors>>

-----------------------------------------------------------------------------
(* The writers that leave no record *)

Changed(n) == behind' = (behind \/ n \in Thresholds)

\* Weather's write_param and the register action of the shutdown workflow, by
\* name, when the register is there and may be written
ControlWrite(n, value) ==
  /\ changes < MaxChanges /\ changes' = changes + 1 /\ Changed(n)
  /\ \E r \in Named(n) :
       /\ r.writable /\ value < WORD /\ Accepts(r, value)
       /\ SetWord(r.addr, value, "control")
  /\ UNCHANGED <<ups, pc, req, posts, snapshot, rows, thresholds,
                 errors>>

\* The front panel sets what the unit takes.
PanelSets(n, value) ==
  /\ changes < MaxChanges /\ changes' = changes + 1 /\ Changed(n)
  /\ \E r \in Named(n) :
       /\ r.writable /\ value < WORD /\ Accepts(r, value)
       /\ SetWord(r.addr, value, "panel")
  /\ UNCHANGED <<ups, pc, req, posts, snapshot, rows, thresholds,
                 errors>>

-----------------------------------------------------------------------------
(* The daily snapshot: the settings, one after the other *)

SnapStart ==
  /\ job = "idle" /\ job' = "read" /\ todo' = Settings
  /\ UNCHANGED <<ups, words, http, seen, rows, thresholds, origin, behind,
                 changes, errors>>

SnapRead(reg) ==
  /\ job = "read" /\ reg \in todo
  /\ todo' = todo \ {reg}
  /\ \/ /\ seen' = [reg |-> reg, raw |-> Raw(family, reg, Mem),
                    by |-> origin[reg.addr]]
        /\ job' = "decide" /\ Works
     \/ UNCHANGED <<seen, job>> /\ Fails
  /\ UNCHANGED <<ups, words, http, rows, thresholds, origin, behind, changes>>

\* A faulty Decision, for the checks: any earlier row will do.
DecisionOnce(row, raw) == IF row = NoRow THEN "baseline" ELSE "skip"

\* monitor_config_snapshot_decide
Decision(row, raw) ==
  IF row = NoRow THEN "baseline" ELSE IF row.raw = raw THEN "skip"
  ELSE "external"

\* The decision, on the last row there is now; a failed query finds none.
SnapDecide ==
  /\ job = "decide"
  /\ \/ /\ LET d == Decision(rows[seen.reg.name], seen.raw)
           IN job' = IF d = "skip" THEN "read" ELSE d
        /\ Works
     \/ job' = Decision(NoRow, seen.raw) /\ Fails
  /\ UNCHANGED <<ups, words, http, seen, todo, rows, thresholds, origin, behind,
                 changes>>

\* The row is inserted, as the decision has it.
SnapInsert ==
  /\ job \in {"baseline", "external"} /\ job' = "read"
  /\ \/ /\ rows' = [rows EXCEPT ![seen.reg.name] =
                      [raw |-> seen.raw, source |-> job, by |-> seen.by]]
        /\ Works
     \/ UNCHANGED rows /\ Fails
  /\ UNCHANGED <<ups, words, http, seen, todo, thresholds, origin, behind,
                 changes>>

SnapDone ==
  /\ job = "read" /\ todo = {} /\ job' = "idle"
  /\ seen' = NoneSeen
  /\ UNCHANGED <<ups, words, http, todo, rows, thresholds, origin, behind,
                 changes, errors>>

Snapshot ==
  \/ SnapStart \/ SnapDecide \/ SnapInsert \/ SnapDone
  \/ \E reg \in Settings : SnapRead(reg)

-----------------------------------------------------------------------------
Handles(c) ==
  \/ PostInvalid(c) \/ PostWrite(c) \/ PostReadback(c) \/ PostRecord(c)
  \/ PostRefresh(c) \/ Answered(c)

Next ==
  \/ \E c \in Clients :
       \/ \E n \in tracked : \E value \in Values[n] : Post(c, n, value)
       \/ About(c) \/ Cmd(c) \/ Handles(c)
  \/ \E n \in tracked : \E value \in Values[n] :
       ControlWrite(n, value) \/ PanelSets(n, value)
  \/ Snapshot

\* A request is handled to its end, and a snapshot is taken day after day.
\* Calls fail no more than MaxErrors times in all.
Fairness ==
  /\ \A c \in Clients : WF_vars(Handles(c))
  /\ WF_vars(Snapshot)

Spec == Init /\ [][Next]_vars /\ Fairness

-----------------------------------------------------------------------------
(* Properties *)

\* Type invariant.
TypeOK ==
  /\ family \in Families /\ outlets \in OutletSets \cup {Outlets}
  /\ tracked \in TrackedSets
  /\ words \in [Varied -> 0..(WORD - 1)]
  /\ pc \in [Clients -> {"idle", "write", "readback", "record", "refresh",
                     "about", "command"}]
  /\ job \in {"idle", "read", "decide", "baseline", "external"}
  /\ todo \subseteq Settings /\ DOMAIN rows = tracked
  /\ \A c \in Clients : pc[c] \in {"write", "readback", "record", "refresh"} =>
                         req[c].reg \in Registers

\* What a page of the UI says of a quantity another page says too: the
\* status, the readings, the identity and the thresholds are the numbers that
\* /api/about lists (config.c:333-338), but for those told apart.  A HID unit
\* has one source for both; here the addresses are written down twice.
PagesAgree ==
  LET Same(page, reg, what) ==
        what \in DOMAIN page => page[what] = Listed(reg)
  IN (\E c \in Clients : pc[c] = "about") =>
     \A reg \in Registers :
       LET what == IF reg.name[2] = "status" THEN reg.name[1] ELSE reg.name[2]
       IN \/ ToldApart(reg)
          \/ /\ reg.category = "diagnostic" => Same(StatusPage, reg, what)
             /\ reg.category = "measurement" => Same(DynamicPage, reg, what)
             /\ reg.category = "identity" => Same(IdentityPage, reg, what)
             /\ reg.name \in Thresholds => Same(ReadThresholds, reg, what)

\* Refuted: the readings are those listed, whatever the words.  A word read as
\* signed is listed unsigned (ups_smt.c:176, 186, 195-197 and config.c:46, 57),
\* and one listed as not applicable is a number on the status page.
ReadingsAgree ==
  (\E c \in Clients : pc[c] = "about") =>
    \A reg \in Registers :
      reg.category = "measurement" /\ reg.name[2] \in DOMAIN DynamicPage =>
        DynamicPage[reg.name[2]] = Listed(reg) /\ ~NotApplicable(reg)

\* Neither a write to a register nor a command touches what any other
\* register says, whatever is written.
WritesApart ==
  LET Spares(addr, sent, but) ==
        LET now == Stored(Mem, addr, sent) IN
        \A r \in Registers \ but : Words(r, now) = Words(r, Mem)
  IN \A c \in Clients :
       /\ pc[c] = "write" =>
            Spares(req[c].reg.addr, <<req[c].value>>, {req[c].reg})
       /\ pc[c] = "command" =>
            \A cmd \in DOMAIN Commands(family) :
              Spares(Commands(family)[cmd][1], Commands(family)[cmd][2], {})

\* A client told "written" asked for a value the unit has held since; 0 is
\* what a failed readback looks like.
AnswerHonest ==
  [][\A c \in Clients :
       PostRecord(c) /\ Verdict(req[c]) = "written" /\ req[c].value # 0
         => held[c]]_vars

\* The cached thresholds are those of the unit when no request is under way
\* (routes.c:437-441), unless another has changed one since they were read or
\* they could not be read.
ThresholdsFollow ==
  (\A c \in Clients : pc[c] = "idle") /\ ~behind => thresholds = ReadThresholds

\* The trail catches up (monitor.c:160-169): whatever requests, snapshots and
\* others did at once, the last row of a register ends up with what the unit
\* holds.
AuditCatchesUp ==
  <>[](\A reg \in Settings : rows[reg.name].raw = Raw(family, reg, Mem))

\* What was set by a request is not recorded as a change from outside as well
\* (monitor.c:166-169).
ApiNotExternal ==
  \A n \in tracked : rows[n].source = "external" => rows[n].by # "api"

\* A string is not written by a request that sets a number
\* (ups.c:505-507).
StringsUntouched ==
  \A reg \in Settings : reg.type = "string" => origin[reg.addr] # "api"
=============================================================================
