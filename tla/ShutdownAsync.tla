---------------------------- MODULE ShutdownAsync ----------------------------
(***************************************************************************)
(* The asynchronous side of the shutdown manager                           *)
(* (src/src/shutdown/shutdown.c): shutdown_start_async called by several   *)
(* threads, the worker threads it creates, the status a client polls, and  *)
(* shutdown_free.  An action is one critical section of state_lock, or one *)
(* pthread call between two of them.  What a worker does between the rows  *)
(* it publishes is the subject of ShutdownWorkflow.                        *)
(***************************************************************************)
EXTENDS Naturals, Sequences, FiniteSets

CONSTANTS
  Callers,       \* threads that call shutdown_start_async (poll, HTTP)
  MaxWorkflows,  \* bound on the workflows started in one behaviour
  MaxSteps,      \* bound on the rows one workflow appends
  Outcomes,      \* values of a row's ok field: 0 ok, 1 failed, 2 skipped
  AllocFails     \* may an allocation fail (drops a row, or the snapshot)

ASSUME AsyncAssumption ==
  /\ MaxWorkflows \in Nat \ {0}
  /\ MaxSteps \in Nat
  /\ Outcomes \subseteq 0..2
  /\ AllocFails \in BOOLEAN

VARIABLES
  \* fields of struct shutdown_mgr, guarded by state_lock
  state, workflow_id, active_dry_run, finished, worker, worker_started,
  snapshot,
  \* shutdown_start_async, per calling thread
  pc, prior, claim,
  \* worker threads; the thread of workflow w has handle w
  thread, dry_run, res,
  \* shutdown_free, called by main
  freer, freer_prior,
  \* the last shutdown_get_status answer handed to a polling client
  view,
  \* history: the dry_run argument workflow w was accepted with
  asked

mgrVars    == <<state, workflow_id, active_dry_run, finished, worker,
                worker_started, snapshot>>
callerVars == <<pc, prior, claim>>
workerVars == <<thread, dry_run, res>>
freeVars   == <<freer, freer_prior>>
vars       == <<mgrVars, callerVars, workerVars, freeVars, view, asked>>

Workflows == 1..MaxWorkflows
NoHandle  == 0                \* worker_started = 0 when the handle was captured
Handles   == {NoHandle} \union Workflows
States    == {"IDLE", "RUNNING", "COMPLETED"}

\* One shutdown_step_result_t; wf and step name the append that made it, and
\* shown says whether it reached the snapshot.
Rows == [wf : Workflows, step : 1..MaxSteps, ok : Outcomes, shown : BOOLEAN]

NoRows    == <<>>
Snapshots == [present : BOOLEAN, steps : Seq(Rows), n_failed : Nat]
Failed(rows) == Cardinality({i \in DOMAIN rows : rows[i].ok = 1})

Init ==
  /\ state = "IDLE"
  /\ workflow_id = 0
  /\ active_dry_run = FALSE
  /\ finished = FALSE
  /\ worker = NoHandle
  /\ worker_started = FALSE
  /\ snapshot = [present |-> FALSE, steps |-> NoRows, n_failed |-> 0]
  /\ pc = [c \in Callers |-> "idle"]
  /\ prior = [c \in Callers |-> NoHandle]
  /\ claim = [c \in Callers |-> 0]
  /\ thread = [w \in Workflows |-> "none"]
  /\ dry_run = [w \in Workflows |-> FALSE]
  /\ res = [w \in Workflows |-> NoRows]
  /\ freer = "up"
  /\ freer_prior = NoHandle
  /\ view = [state |-> "IDLE", id |-> 0, n_failed |-> 0, all_ok |-> FALSE]
  /\ asked = [w \in Workflows |-> FALSE]

-----------------------------------------------------------------------------
(* shutdown_start_async *)

\* Faulty variants, each the wrong form of the definition that follows it.
BadSlotFree       == ~worker_started
NoSlotCheck       == TRUE
BadNextId         == workflow_id
BadFresh(got)     == [snapshot EXCEPT !.present = got]
KeepHandle        == UNCHANGED worker_started

\* No workflow is in flight.
SlotFree == state # "RUNNING"

NextId == workflow_id + 1

\* The completed run's rows linger until exactly here; calloc may fail.
FreshSnapshot(got) == [present |-> got, steps |-> NoRows, n_failed |-> 0]

\* The handle to join, if one was recorded and not yet taken.
PriorHandle == IF worker_started THEN worker ELSE NoHandle

TakeHandle == worker_started' = FALSE

\* A workflow is running: the caller is told its id and -EALREADY, and the
\* manager is left as it is.
StartBusy(c) ==
  /\ pc[c] = "idle" /\ freer = "up"
  /\ ~SlotFree
  /\ UNCHANGED vars

\* First critical section: capture the previous handle, reset the snapshot
\* and take the RUNNING state.
StartClaim(c, d) ==
  /\ pc[c] = "idle" /\ freer = "up"
  /\ SlotFree
  /\ workflow_id < MaxWorkflows
  /\ prior' = [prior EXCEPT ![c] = PriorHandle]
  /\ TakeHandle
  /\ \E got \in BOOLEAN : (got \/ AllocFails) /\ snapshot' = FreshSnapshot(got)
  /\ state' = "RUNNING"
  /\ active_dry_run' = d
  /\ workflow_id' = NextId
  /\ finished' = FALSE
  /\ claim' = [claim EXCEPT ![c] = NextId]
  /\ pc' = [pc EXCEPT ![c] = "join"]
  /\ asked' = [asked EXCEPT ![NextId] = d]
  /\ UNCHANGED <<worker, workerVars, freeVars, view>>

\* pthread_join(prior), outside the lock: waits for that thread to return.
StartJoin(c) ==
  /\ pc[c] = "join"
  /\ \/ /\ prior[c] = NoHandle
        /\ UNCHANGED thread
     \/ /\ prior[c] # NoHandle
        /\ thread[prior[c]] = "exited"
        /\ thread' = [thread EXCEPT ![prior[c]] = "joined"]
  /\ prior' = [prior EXCEPT ![c] = NoHandle]
  /\ pc' = [pc EXCEPT ![c] = "create"]
  /\ UNCHANGED <<mgrVars, claim, dry_run, res, freeVars, view, asked>>

\* pthread_create succeeds: the worker may run before the handle is recorded.
StartCreate(c) ==
  /\ pc[c] = "create"
  /\ thread' = [thread EXCEPT ![claim[c]] = "boot"]
  /\ pc' = [pc EXCEPT ![c] = "record"]
  /\ UNCHANGED <<mgrVars, prior, claim, dry_run, res, freeVars, view, asked>>

\* pthread_create fails: back to IDLE under the lock, error to the caller.
StartCreateFails(c) ==
  /\ pc[c] = "create"
  /\ state' = "IDLE"
  /\ finished' = TRUE
  /\ claim' = [claim EXCEPT ![c] = 0]
  /\ pc' = [pc EXCEPT ![c] = "idle"]
  /\ UNCHANGED <<workflow_id, active_dry_run, worker, worker_started, snapshot,
                 prior, workerVars, freeVars, view, asked>>

\* Last critical section: record the new worker's handle and return.
StartRecord(c) ==
  /\ pc[c] = "record"
  /\ worker' = claim[c]
  /\ worker_started' = TRUE
  /\ claim' = [claim EXCEPT ![c] = 0]
  /\ pc' = [pc EXCEPT ![c] = "idle"]
  /\ UNCHANGED <<state, workflow_id, active_dry_run, finished, snapshot, prior,
                 workerVars, freeVars, view, asked>>

-----------------------------------------------------------------------------
(* worker_main.  A worker must not touch the manager once it is freed; the
   model stops there (FreeWaitsForWorker says whether it can happen). *)

\* The worker reads which kind of workflow it is to run.
WorkerBoot(w) ==
  /\ thread[w] = "boot" /\ freer # "freed"
  /\ dry_run' = [dry_run EXCEPT ![w] = active_dry_run]
  /\ thread' = [thread EXCEPT ![w] = "run"]
  /\ UNCHANGED <<mgrVars, callerVars, res, freeVars, view, asked>>

\* result_append: a row goes to the worker's accumulator and, while the
\* manager is RUNNING with a snapshot, to the snapshot, unless that cannot
\* grow.  (res stands for the rows the worker has made; nothing but a log line
\* reads the accumulator, which may fail to grow as well.)
WorkerAppend(w, ok) ==
  /\ thread[w] = "run" /\ freer # "freed"
  /\ Len(res[w]) < MaxSteps
  /\ \E shown \in BOOLEAN :
       LET row == [wf |-> w, step |-> Len(res[w]) + 1, ok |-> ok,
                   shown |-> shown] IN
       /\ res' = [res EXCEPT ![w] = Append(@, row)]
       /\ \/ /\ shown /\ state = "RUNNING" /\ snapshot.present
             /\ snapshot' = [snapshot EXCEPT
                               !.steps = Append(@, row),
                               !.n_failed = IF ok = 1 THEN @ + 1 ELSE @]
          \/ /\ ~shown
             /\ AllocFails \/ state # "RUNNING" \/ ~snapshot.present
             /\ UNCHANGED snapshot
  /\ UNCHANGED <<state, workflow_id, active_dry_run, finished, worker,
                 worker_started, callerVars, thread, dry_run, freeVars, view,
                 asked>>

\* The state published at the end, after two faulty variants.
BadFinalState == state
FourthState   == IF snapshot.n_failed > 0 THEN "FAILED" ELSE "COMPLETED"
FinalState    == "COMPLETED"

\* shutdown_execute_ex has returned: publish COMPLETED.
WorkerFinish(w) ==
  /\ thread[w] = "run" /\ freer # "freed"
  /\ state' = FinalState
  /\ finished' = TRUE
  /\ thread' = [thread EXCEPT ![w] = "tail"]
  /\ UNCHANGED <<workflow_id, active_dry_run, worker, worker_started, snapshot,
                 callerVars, dry_run, res, freeVars, view, asked>>

\* The thread function returns; the handle can be joined from here on.
WorkerExit(w) ==
  /\ thread[w] = "tail"
  /\ thread' = [thread EXCEPT ![w] = "exited"]
  /\ UNCHANGED <<mgrVars, callerVars, dry_run, res, freeVars, view, asked>>

-----------------------------------------------------------------------------
(* shutdown_get_status: one critical section.  The copy of the rows, which a
   failed malloc drops, is left out: no property reads it. *)

\* A faulty variant and the verdict the code computes.
BadAllOk == snapshot.n_failed = 0
AllOk    == state = "COMPLETED" /\ snapshot.n_failed = 0

GetStatus ==
  /\ freer = "up"
  /\ view' = [state    |-> state,
              id       |-> workflow_id,
              n_failed |-> snapshot.n_failed,
              all_ok   |-> AllOk]
  /\ UNCHANGED <<mgrVars, callerVars, workerVars, freeVars, asked>>

-----------------------------------------------------------------------------
(* shutdown_free.  main has stopped the HTTP server and the monitor before
   it, so no start_async is in progress and none follows. *)

FreeTake ==
  /\ freer = "up"
  /\ \A c \in Callers : pc[c] = "idle"
  /\ freer_prior' = PriorHandle
  /\ TakeHandle
  /\ freer' = "join"
  /\ UNCHANGED <<state, workflow_id, active_dry_run, finished, worker, snapshot,
                 callerVars, workerVars, view, asked>>

FreeJoin ==
  /\ freer = "join"
  /\ \/ /\ freer_prior = NoHandle
        /\ UNCHANGED thread
     \/ /\ freer_prior # NoHandle
        /\ thread[freer_prior] = "exited"
        /\ thread' = [thread EXCEPT ![freer_prior] = "joined"]
  /\ freer' = "freed"
  /\ UNCHANGED <<mgrVars, callerVars, dry_run, res, freer_prior, view, asked>>

\* The process is about to exit: nothing is left to happen.
Exited == freer = "freed" /\ UNCHANGED vars

-----------------------------------------------------------------------------

Start(c) ==
  \/ StartBusy(c)
  \/ \E d \in BOOLEAN : StartClaim(c, d)

StartRest(c) ==
  StartJoin(c) \/ StartCreate(c) \/ StartCreateFails(c) \/ StartRecord(c)

Worker(w) ==
  \/ WorkerBoot(w)
  \/ \E ok \in Outcomes : WorkerAppend(w, ok)
  \/ WorkerFinish(w)
  \/ WorkerExit(w)

Free == FreeTake \/ FreeJoin

Next ==
  \/ \E c \in Callers : Start(c) \/ StartRest(c)
  \/ \E w \in Workflows : Worker(w)
  \/ GetStatus
  \/ Free
  \/ Exited

\* The scheduler runs every thread that can run; that a new request or a
\* request to stop ever comes is not assumed.  A worker ends because every
\* command it waits for ends.
Fairness ==
  /\ \A c \in Callers : WF_vars(StartRest(c))
  /\ \A w \in Workflows :
       WF_vars(WorkerBoot(w) \/ WorkerFinish(w) \/ WorkerExit(w))
  /\ WF_vars(FreeJoin)

SafeSpec == Init /\ [][Next]_vars
Spec == SafeSpec /\ Fairness

-----------------------------------------------------------------------------
(* Properties *)

MgrTypeOK ==
  /\ state \in States
  /\ workflow_id \in 0..MaxWorkflows
  /\ active_dry_run \in BOOLEAN
  /\ finished \in BOOLEAN
  /\ worker \in Handles
  /\ worker_started \in BOOLEAN
  /\ snapshot \in Snapshots

CallerTypeOK ==
  /\ pc \in [Callers -> {"idle", "join", "create", "record"}]
  /\ prior \in [Callers -> Handles]
  /\ claim \in [Callers -> 0..MaxWorkflows]

WorkerTypeOK ==
  /\ thread \in [Workflows ->
                   {"none", "boot", "run", "tail", "exited", "joined"}]
  /\ dry_run \in [Workflows -> BOOLEAN]
  /\ res \in [Workflows -> Seq(Rows)]
  /\ asked \in [Workflows -> BOOLEAN]

FreeTypeOK ==
  /\ freer \in {"up", "join", "freed"}
  /\ freer_prior \in Handles

Views ==
  [state : States, id : 0..MaxWorkflows, n_failed : Nat, all_ok : BOOLEAN]

TypeOK ==
  /\ MgrTypeOK
  /\ CallerTypeOK
  /\ WorkerTypeOK
  /\ FreeTypeOK
  /\ view \in Views

\* Threads that hold the manager's single workflow slot: a starter between
\* its claim and its pthread_create, or a worker before its last unlock.
Starting == {c \in Callers : pc[c] \in {"join", "create"}}
Live     == {w \in Workflows : thread[w] \in {"boot", "run"}}

\* "Only one workflow runs at a time per manager" (shutdown.h:110): however
\* the starters and the workers interleave, the slot has one holder exactly
\* while the state is RUNNING, and a live worker is the latest one accepted.
OneWorkflow ==
  /\ \A c1, c2 \in Starting : c1 = c2
  /\ \A w \in Live : w = workflow_id
  /\ Starting = {} \/ Live = {}
  /\ state = "RUNNING" <=> (Starting # {} \/ Live # {})

\* The worker reads dry_run from the shared manager after it was created, in
\* another critical section than the one that stored it (shutdown.c:1145): it
\* must still be the value its own request asked for, or a dry run would shut
\* the site down.
DryRunHonoured ==
  \A w \in Workflows :
    /\ thread[w] \in {"run", "tail", "exited", "joined"} =>
         dry_run[w] = asked[w]
    /\ thread[w] = "boot" => active_dry_run = asked[w]
    /\ state = "RUNNING" /\ w = workflow_id => active_dry_run = asked[w]

\* What a poller reads is one workflow's history: every row of the snapshot
\* is of the latest workflow, in the order its worker appended them, and
\* n_failed counts the failed ones (shutdown.c:103-142, 1190-1195).
SnapshotCoherent ==
  /\ \A i \in DOMAIN snapshot.steps :
       /\ snapshot.steps[i].wf = workflow_id
       /\ \A j \in 1..(i-1) : snapshot.steps[j].step < snapshot.steps[i].step
  /\ snapshot.n_failed = Failed(snapshot.steps)

\* pthread_join on a handle already joined, or being joined by another
\* thread, is undefined: a handle is taken by one joiner, once, and is no
\* longer on record when it is (shutdown.c:590-595, 1183-1185, 1211).
Joining(c, w) == pc[c] = "join" /\ prior[c] = w
FreeJoining(w) == freer = "join" /\ freer_prior = w
JoinedOnce ==
  \A w \in Workflows :
    /\ \A c \in Callers : Joining(c, w) =>
         /\ ~FreeJoining(w)
         /\ \A d \in Callers : Joining(d, w) => d = c
    /\ (FreeJoining(w) \/ \E c \in Callers : Joining(c, w)) =>
         /\ thread[w] # "joined"
         /\ ~(worker_started /\ worker = w)

\* What ties the threads, the claims and the recorded handle together, and
\* makes the three properties above inductive.  Claims are distinct and of
\* workflows already numbered, the slot holder's being the latest;
ClaimsNumbered ==
  /\ \A c \in Callers :
       /\ pc[c] = "idle" => claim[c] = 0
       /\ pc[c] # "idle" => claim[c] \in 1..workflow_id /\ freer = "up"
       /\ pc[c] \in {"join", "create"} => claim[c] = workflow_id
       /\ \A d \in Callers : pc[c] # "idle" /\ claim[c] = claim[d] => c = d
  /\ state = "RUNNING" => workflow_id > 0

\* a claim has a thread exactly from its pthread_create on;
ThreadsCreated ==
  /\ \A c \in Callers :
       /\ pc[c] \in {"join", "create"} => thread[claim[c]] = "none"
       /\ pc[c] = "record" => thread[claim[c]] \notin {"none", "joined"}
       /\ pc[c] = "join" /\ prior[c] # NoHandle => thread[prior[c]] # "none"
  /\ \A w \in Workflows : w > workflow_id => thread[w] = "none"

\* the handle on record is of a thread nobody has joined, and a handle not
\* recorded yet is neither on record nor being joined.
HandleOnRecord ==
  /\ worker_started => /\ worker \in 1..workflow_id
                        /\ thread[worker] \notin {"none", "joined"}
  /\ \A c \in Callers : pc[c] = "record" =>
       /\ ~(worker_started /\ worker = claim[c])
       /\ \A d \in Callers : ~Joining(d, claim[c])

SlotInv ==
  /\ OneWorkflow
  /\ DryRunHonoured
  /\ JoinedOnce
  /\ ClaimsNumbered
  /\ ThreadsCreated
  /\ HandleOnRecord

\* Two successive answers to a poller (shutdown.c:1232-1270): ids never go
\* back; of the same workflow, the answer never returns to RUNNING and no
\* failure disappears.
ViewAdvances ==
  [][/\ view.id <= view'.id
     /\ view.id = view'.id =>
          /\ view'.state = "RUNNING" => view.state = "RUNNING"
          /\ view.n_failed <= view'.n_failed]_view

\* What makes ViewAdvances inductive: the last answer is of an earlier
\* workflow, or an earlier moment of the latest one.
ViewBehind ==
  /\ view.id <= workflow_id
  /\ view.id = workflow_id =>
       /\ state = "RUNNING" => view.state = "RUNNING"
       /\ view.n_failed <= snapshot.n_failed

\* all_ok tells the operator that a pre-flight or a shutdown went through
\* (shutdown.h:136): it is never set while the workflow is at work, nor when
\* one of its steps failed, unless memory for that step's row was lacking.
AllOkHonest ==
  view.all_ok =>
    /\ view.id \in Workflows
    /\ thread[view.id] \in {"tail", "exited", "joined"}
    /\ \A i \in DOMAIN res[view.id] :
         res[view.id][i].ok = 1 => ~res[view.id][i].shown

\* shutdown_free "blocks until the worker has exited so [...] we don't free
\* mgr out from under it" (shutdown.c:585-589).
FreeWaitsForWorker == freer = "freed" => Live = {}

\* The slot is always given back: no interleaving of joins, locks and failed
\* thread creations leaves the manager RUNNING for good.
SlotReleased == (state = "RUNNING") ~> (state # "RUNNING" \/ freer = "freed")

-----------------------------------------------------------------------------
(* Refinement: the phase is read off the worker thread, and the kind is the
   one the worker really runs with. *)

Executing == \E w \in Workflows : w = workflow_id /\ thread[w] = "run"

servicePhase ==
  CASE freer = "freed"                        -> "stopped"
    [] freer # "freed" /\ state = "IDLE"      -> "idle"
    [] freer # "freed" /\ state = "COMPLETED" -> "completed"
    [] OTHER -> IF Executing THEN "executing" ELSE "accepted"

serviceDry ==
  IF workflow_id = 0 THEN FALSE
  ELSE IF thread[workflow_id] \in {"none", "boot"} THEN asked[workflow_id]
  ELSE dry_run[workflow_id]

Service == INSTANCE ShutdownService
             WITH phase <- servicePhase, id <- workflow_id, dry <- serviceDry,
                  failed <- snapshot.n_failed > 0

\* The manager implements the one-at-a-time service of ShutdownService.
ImplementsService == Service!Spec

==============================================================================
