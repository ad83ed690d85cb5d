------------------------ MODULE ShutdownManagerProofs ------------------------
(***************************************************************************)
(* Proofs about the shutdown manager: its asynchronous workflow, for any   *)
(* set of calling threads and any bounds, and the automatic trigger that   *)
(* asks it for one, for any settings and readings.                         *)
(***************************************************************************)
EXTENDS ShutdownAsync, ShutdownTrigger, FiniteSetTheorems, TLAPS

-----------------------------------------------------------------------------
(* The asynchronous workflow *)

(* The manager and its threads stay within their types
   (struct shutdown_mgr, shutdown.c:22-49). *)
THEOREM AsyncTypeCorrect == SafeSpec => []TypeOK
<1> USE AsyncAssumption DEF AsyncAssumption, Workflows, Handles, NoHandle,
                            States
<1>1. Init => TypeOK
  <2> SUFFICES ASSUME Init
               PROVE  TypeOK
    OBVIOUS
  <2>1. NoRows \in Seq(Rows)
    BY DEF NoRows
  <2>2. MgrTypeOK
    <3>1. snapshot \in Snapshots
      <4>1. snapshot = [present |-> FALSE, steps |-> NoRows, n_failed |-> 0]
        BY DEF Init
      <4>2. QED
        BY <2>1, <4>1 DEF Snapshots
    <3>2. /\ state = "IDLE" /\ workflow_id = 0 /\ worker = 0
          /\ active_dry_run = FALSE /\ finished = FALSE
          /\ worker_started = FALSE
      BY DEF Init
    <3>3. {active_dry_run, finished, worker_started} \subseteq BOOLEAN
      BY <3>2
    <3>4. /\ state \in States /\ workflow_id \in 0..MaxWorkflows
          /\ worker \in Handles
      BY <3>2
    <3>5. QED
      BY <3>1, <3>3, <3>4, Zenon DEF MgrTypeOK
  <2>3. CallerTypeOK
    BY DEF Init, CallerTypeOK
  <2>4. WorkerTypeOK
    BY <2>1 DEF Init, WorkerTypeOK
  <2>5. FreeTypeOK /\ view \in Views
    BY DEF Init, FreeTypeOK, Views
  <2>6. QED
    BY <2>2, <2>3, <2>4, <2>5 DEF TypeOK
<1>2. TypeOK /\ [Next]_vars => TypeOK'
  <2> SUFFICES ASSUME TypeOK, [Next]_vars
               PROVE  TypeOK'
    OBVIOUS
  <2> USE DEF TypeOK, mgrVars, callerVars, workerVars, freeVars
  <2>1. ASSUME NEW c \in Callers, NEW d \in BOOLEAN, StartClaim(c, d)
        PROVE  TypeOK'
    <3>1. NoRows \in Seq(Rows)
      BY DEF NoRows
    <3>2. \A got \in BOOLEAN : FreshSnapshot(got) \in Snapshots
      BY <3>1 DEF FreshSnapshot, Snapshots
    <3>3. NextId \in 1..MaxWorkflows
      BY <2>1 DEF StartClaim, NextId, MgrTypeOK
    <3>4. PriorHandle \in Handles
      BY DEF PriorHandle, MgrTypeOK
    <3>5. MgrTypeOK'
      <4>1. snapshot' \in Snapshots
        BY <2>1, <3>2 DEF StartClaim
      <4>2. /\ state' = "RUNNING" /\ workflow_id' = NextId /\ worker' = worker
            /\ active_dry_run' = d /\ finished' = FALSE
            /\ worker_started' = FALSE
        BY <2>1 DEF StartClaim, TakeHandle
      <4>3. worker \in Handles
        BY DEF MgrTypeOK
      <4>4. {active_dry_run', finished', worker_started'} \subseteq BOOLEAN
        BY <4>2
      <4>5. /\ state' \in States /\ workflow_id' \in 0..MaxWorkflows
            /\ worker' \in Handles
        BY <3>3, <4>2, <4>3
      <4>6. QED
        BY <4>1, <4>4, <4>5, Zenon DEF MgrTypeOK
    <3>6. CallerTypeOK'
      BY <2>1, <3>3, <3>4 DEF StartClaim, CallerTypeOK
    <3>7. WorkerTypeOK'
      BY <2>1, <3>3 DEF StartClaim, WorkerTypeOK
    <3>8. QED
      BY <2>1, <3>5, <3>6, <3>7 DEF StartClaim, FreeTypeOK
  <2>2. ASSUME NEW c \in Callers, StartJoin(c)
        PROVE  TypeOK'
    <3>1. CallerTypeOK'
      BY <2>2 DEF StartJoin, CallerTypeOK
    <3>2. WorkerTypeOK'
      BY <2>2 DEF StartJoin, WorkerTypeOK
    <3>3. QED
      BY <2>2, <3>1, <3>2 DEF StartJoin, MgrTypeOK, FreeTypeOK
  <2>3. ASSUME NEW c \in Callers, StartCreate(c)
        PROVE  TypeOK'
    <3>1. CallerTypeOK'
      BY <2>3 DEF StartCreate, CallerTypeOK
    <3>2. WorkerTypeOK'
      BY <2>3 DEF StartCreate, WorkerTypeOK
    <3>3. QED
      BY <2>3, <3>1, <3>2 DEF StartCreate, MgrTypeOK, FreeTypeOK
  <2>4. ASSUME NEW c \in Callers, StartCreateFails(c)
        PROVE  TypeOK'
    <3>1. MgrTypeOK' /\ CallerTypeOK'
      BY <2>4 DEF StartCreateFails, MgrTypeOK, CallerTypeOK
    <3>2. QED
      BY <2>4, <3>1 DEF StartCreateFails, WorkerTypeOK, FreeTypeOK
  <2>5. ASSUME NEW c \in Callers, StartRecord(c)
        PROVE  TypeOK'
    <3>1. MgrTypeOK' /\ CallerTypeOK'
      BY <2>5 DEF StartRecord, MgrTypeOK, CallerTypeOK
    <3>2. QED
      BY <2>5, <3>1 DEF StartRecord, WorkerTypeOK, FreeTypeOK
  <2>6. ASSUME NEW w \in Workflows, WorkerBoot(w)
        PROVE  TypeOK'
    <3>1. WorkerTypeOK'
      BY <2>6 DEF WorkerBoot, WorkerTypeOK, MgrTypeOK
    <3>2. QED
      BY <2>6, <3>1 DEF WorkerBoot, MgrTypeOK, CallerTypeOK, FreeTypeOK
  <2>7. ASSUME NEW w \in Workflows, NEW ok \in Outcomes, WorkerAppend(w, ok)
        PROVE  TypeOK'
    <3> DEFINE row(shown) == [wf |-> w, step |-> Len(res[w]) + 1, ok |-> ok,
                              shown |-> shown]
               failures == IF ok = 1 THEN snapshot.n_failed + 1
                           ELSE snapshot.n_failed
               grown(shown) == [snapshot EXCEPT !.steps = Append(@, row(shown)),
                                                !.n_failed = failures]
    <3>1. PICK shown \in BOOLEAN :
            /\ res' = [res EXCEPT ![w] = Append(@, row(shown))]
            /\ snapshot' = grown(shown) \/ snapshot' = snapshot
      BY <2>7 DEF WorkerAppend
    <3>2. Len(res[w]) \in Nat /\ res[w] \in Seq(Rows)
      BY DEF WorkerTypeOK
    <3>3. row(shown) \in Rows
      BY <2>7, <3>2 DEF WorkerAppend, Rows
    <3>4. WorkerTypeOK'
      <4>1. Append(res[w], row(shown)) \in Seq(Rows)
        BY <3>2, <3>3
      <4>2. res' \in [Workflows -> Seq(Rows)]
        BY <3>1, <4>1 DEF WorkerTypeOK
      <4>3. QED
        BY <2>7, <4>2 DEF WorkerAppend, WorkerTypeOK
    <3>5. Append(snapshot.steps, row(shown)) \in Seq(Rows)
      BY <3>3 DEF MgrTypeOK, Snapshots
    <3>6. snapshot' \in Snapshots
      <4>1. snapshot \in [present : BOOLEAN, steps : Seq(Rows), n_failed : Nat]
        BY DEF MgrTypeOK, Snapshots
      <4>2. failures \in Nat
        BY <4>1
      <4>3. grown(shown) \in Snapshots
        BY <3>5, <4>1, <4>2 DEF Snapshots
      <4>4. QED
        BY <3>1, <4>3 DEF MgrTypeOK
    <3>7. QED
      BY <2>7, <3>4, <3>6 DEF WorkerAppend, MgrTypeOK, CallerTypeOK, FreeTypeOK
  <2>8. ASSUME NEW w \in Workflows, WorkerFinish(w)
        PROVE  TypeOK'
    <3>1. MgrTypeOK' /\ WorkerTypeOK'
      BY <2>8 DEF WorkerFinish, FinalState, MgrTypeOK, WorkerTypeOK
    <3>2. QED
      BY <2>8, <3>1 DEF WorkerFinish, CallerTypeOK, FreeTypeOK
  <2>9. ASSUME NEW w \in Workflows, WorkerExit(w)
        PROVE  TypeOK'
    <3>1. WorkerTypeOK'
      BY <2>9 DEF WorkerExit, WorkerTypeOK
    <3>2. QED
      BY <2>9, <3>1 DEF WorkerExit, MgrTypeOK, CallerTypeOK, FreeTypeOK
  <2>10. CASE GetStatus
    <3>1. view' \in Views
      BY <2>10 DEF GetStatus, AllOk, MgrTypeOK, Snapshots, Views
    <3>2. QED
      BY <2>10, <3>1 DEF GetStatus, MgrTypeOK, CallerTypeOK, WorkerTypeOK,
                         FreeTypeOK
  <2>11. CASE FreeTake
    BY <2>11 DEF FreeTake, PriorHandle, TakeHandle, MgrTypeOK, CallerTypeOK,
                 WorkerTypeOK, FreeTypeOK
  <2>12. CASE FreeJoin
    <3>1. WorkerTypeOK'
      BY <2>12 DEF FreeJoin, WorkerTypeOK, FreeTypeOK
    <3>2. QED
      BY <2>12, <3>1 DEF FreeJoin, MgrTypeOK, CallerTypeOK, FreeTypeOK
  <2>13. CASE UNCHANGED vars
    BY <2>13 DEF vars, MgrTypeOK, CallerTypeOK, WorkerTypeOK, FreeTypeOK
  <2>14. QED
    BY <2>1, <2>2, <2>3, <2>4, <2>5, <2>6, <2>7, <2>8, <2>9, <2>10, <2>11,
       <2>12, <2>13 DEF Next, Start, StartRest, StartBusy, Worker, Free, Exited
<1>3. QED
  BY <1>1, <1>2, PTL DEF SafeSpec

-----------------------------------------------------------------------------

(* SlotInv holds initially ... *)
LEMMA SlotInit == Init => SlotInv
  BY AsyncAssumption DEF AsyncAssumption, Init, SlotInv, OneWorkflow, Starting,
     Live, DryRunHonoured, JoinedOnce, Joining, FreeJoining, ClaimsNumbered,
     ThreadsCreated, HandleOnRecord, Workflows, NoHandle

(* ... and every step preserves it. *)
LEMMA SlotStep == TypeOK /\ SlotInv /\ [Next]_vars => SlotInv'
<1> SUFFICES ASSUME TypeOK, SlotInv, [Next]_vars
             PROVE  SlotInv'
  OBVIOUS
<1> USE AsyncAssumption DEF AsyncAssumption, Workflows, Handles, NoHandle,
        States, TypeOK, MgrTypeOK, CallerTypeOK, WorkerTypeOK, FreeTypeOK,
        SlotInv, mgrVars, callerVars, workerVars, freeVars
<1>1. ASSUME NEW c \in Callers, NEW d \in BOOLEAN, StartClaim(c, d)
      PROVE  SlotInv'
  <2>1. OneWorkflow'
    <3>1. Starting = {} /\ Live = {}
      BY <1>1 DEF StartClaim, SlotFree, OneWorkflow
    <3>2. Starting' = {c}
      BY <1>1, <3>1 DEF StartClaim, Starting
    <3>3. Live' = {} /\ state' = "RUNNING"
      BY <1>1, <3>1 DEF StartClaim, Live
    <3>4. QED
      BY <3>2, <3>3 DEF OneWorkflow
  <2>2. DryRunHonoured'
    <3>1. Live = {} /\ thread' = thread /\ dry_run' = dry_run
      BY <1>1 DEF StartClaim, SlotFree, OneWorkflow
    <3>2. NextId \in Workflows /\ thread[NextId] = "none"
      BY <1>1 DEF StartClaim, NextId, ThreadsCreated
    <3>3. active_dry_run' = d /\ workflow_id' = NextId
      BY <1>1 DEF StartClaim
    <3>4. asked' = [asked EXCEPT ![NextId] = d]
      BY <1>1 DEF StartClaim
    <3>5. /\ asked'[NextId] = d
          /\ \A w \in Workflows \ {NextId} : asked'[w] = asked[w]
      BY <3>2, <3>4
    <3>6. \A w \in Workflows : thread[w] # "boot"
      BY <3>1 DEF Live
    <3>7. QED
      BY <3>1, <3>2, <3>3, <3>5, <3>6 DEF DryRunHonoured
  <2>3. JoinedOnce'
    BY <1>1 DEF StartClaim, SlotFree, PriorHandle, TakeHandle, NextId,
       JoinedOnce, Joining, FreeJoining, ClaimsNumbered, ThreadsCreated,
       HandleOnRecord, OneWorkflow, Starting
  <2>4. ClaimsNumbered'
    <3>1. Starting = {}
      BY <1>1 DEF StartClaim, SlotFree, OneWorkflow
    <3>2. \A e \in Callers \ {c} :
            pc'[e] = pc[e] /\ claim'[e] = claim[e] /\ claim[e] <= workflow_id
      <4>1. \A e \in Callers \ {c} : pc'[e] = pc[e] /\ claim'[e] = claim[e]
        BY <1>1 DEF StartClaim
      <4>2. \A e \in Callers : claim[e] <= workflow_id
        BY DEF ClaimsNumbered
      <4>3. QED
        BY <4>1, <4>2
    <3>3. /\ pc'[c] = "join" /\ claim'[c] = workflow_id + 1
          /\ workflow_id' = workflow_id + 1 /\ freer = "up" /\ freer' = "up"
      BY <1>1 DEF StartClaim, NextId
    <3>4. \A e \in Callers \ {c} : pc[e] \notin {"join", "create"}
      BY <3>1 DEF Starting
    <3>5. workflow_id \in Nat /\ claim \in [Callers -> Nat]
      BY AsyncAssumption DEF AsyncAssumption, TypeOK, MgrTypeOK, CallerTypeOK
    <3>6. ASSUME NEW e \in Callers
          PROVE  /\ pc'[e] = "idle" => claim'[e] = 0
                 /\ pc'[e] # "idle" =>
                      claim'[e] \in 1..workflow_id' /\ freer' = "up"
                 /\ pc'[e] \in {"join", "create"} => claim'[e] = workflow_id'
      <4>1. CASE e = c
        BY <3>3, <3>5, <4>1
      <4>2. CASE e # c
        <5>1. /\ pc[e] = "idle" => claim[e] = 0
              /\ pc[e] # "idle" => claim[e] \in 1..workflow_id
              /\ pc[e] \notin {"join", "create"}
          BY <3>4, <4>2 DEF ClaimsNumbered
        <5>2. pc'[e] = pc[e] /\ claim'[e] = claim[e]
          BY <3>2, <4>2
        <5>3. pc[e] # "idle" => claim[e] \in 1..(workflow_id + 1)
          BY <3>5, <5>1
        <5>4. QED
          BY <3>3, <5>1, <5>2, <5>3
      <4>3. QED
        BY <4>1, <4>2
    <3>7. ASSUME NEW e \in Callers, NEW f \in Callers,
                 pc'[e] # "idle", claim'[e] = claim'[f]
          PROVE  e = f
      <4>1. CASE e = c \/ f = c
        BY <3>2, <3>3, <3>5, <3>7, <4>1
      <4>2. CASE e # c /\ f # c
        BY <3>2, <3>7, <4>2 DEF ClaimsNumbered
      <4>3. QED
        BY <4>1, <4>2
    <3>8. workflow_id' > 0
      BY <3>3, <3>5
    <3>9. QED
      BY <3>6, <3>7, <3>8 DEF ClaimsNumbered
  <2>5. ThreadsCreated'
    BY <1>1 DEF StartClaim, SlotFree, PriorHandle, TakeHandle, NextId,
       ThreadsCreated, ClaimsNumbered, HandleOnRecord, JoinedOnce, Joining,
       FreeJoining
  <2>6. HandleOnRecord'
    BY <1>1 DEF StartClaim, SlotFree, PriorHandle, TakeHandle, NextId,
       HandleOnRecord, ThreadsCreated, ClaimsNumbered, JoinedOnce, Joining,
       FreeJoining
  <2>7. QED
    BY <2>1, <2>2, <2>3, <2>4, <2>5, <2>6
<1>2. ASSUME NEW c \in Callers, StartJoin(c)
      PROVE  SlotInv'
  <2>1. OneWorkflow'
    BY <1>2 DEF StartJoin, OneWorkflow, Starting, Live, ClaimsNumbered,
       ThreadsCreated
  <2>2. DryRunHonoured'
    BY <1>2 DEF StartJoin, DryRunHonoured, OneWorkflow, Live, ClaimsNumbered,
       ThreadsCreated
  <2>3. JoinedOnce'
    BY <1>2 DEF StartJoin, JoinedOnce, Joining, FreeJoining, ClaimsNumbered,
       ThreadsCreated, HandleOnRecord, OneWorkflow, Starting
  <2>4. ClaimsNumbered'
    BY <1>2 DEF StartJoin, ClaimsNumbered, OneWorkflow, Starting
  <2>5. ThreadsCreated'
    <3>1. \A w \in Workflows : thread'[w] # thread[w] =>
             /\ w = prior[c] /\ pc[c] = "join"
             /\ thread[w] = "exited" /\ thread'[w] = "joined"
      BY <1>2 DEF StartJoin
    <3>2. \A d \in Callers : pc[d] = "record" => ~Joining(c, claim[d])
      BY DEF HandleOnRecord
    <3>3. \A d \in Callers : pc[d] # "idle" => claim[d] \in Workflows
      BY DEF ClaimsNumbered
    <3>4. \A d \in Callers :
            /\ pc'[d] = "record" => pc[d] = "record"
            /\ pc'[d] = "join" => pc[d] = "join" /\ prior'[d] = prior[d]
            /\ pc'[d] \in {"join", "create"} => pc[d] \in {"join", "create"}
      BY <1>2 DEF StartJoin
    <3>5. \A w \in Workflows : thread[w] = "none" <=> thread'[w] = "none"
      BY <3>1
    <3>6. \A d \in Callers : pc[d] = "record" =>
             thread'[claim[d]] \notin {"none", "joined"}
      <4>1. ASSUME NEW d \in Callers, pc[d] = "record"
            PROVE  thread'[claim[d]] = thread[claim[d]]
        <5>1. claim[d] \in Workflows
          BY <3>3, <4>1
        <5>2. ~(pc[c] = "join" /\ claim[d] = prior[c])
          BY <3>2, <4>1 DEF Joining
        <5>3. QED
          BY <3>1, <5>1, <5>2
      <4>2. QED
        BY <4>1 DEF ThreadsCreated
    <3>7. UNCHANGED <<claim, workflow_id>>
      BY <1>2 DEF StartJoin
    <3>8. ASSUME NEW d \in Callers
          PROVE  /\ pc'[d] \in {"join", "create"} => thread'[claim[d]] = "none"
                 /\ pc'[d] = "join" /\ prior'[d] # NoHandle =>
                      thread'[prior'[d]] # "none"
      <4>1. pc'[d] \in {"join", "create"} => thread'[claim[d]] = "none"
        BY <3>3, <3>4, <3>5 DEF ThreadsCreated
      <4>2. pc'[d] = "join" /\ prior'[d] # NoHandle =>
              prior[d] \in Workflows /\ thread[prior[d]] # "none"
        BY <3>4 DEF ThreadsCreated, TypeOK, CallerTypeOK, Handles
      <4>3. QED
        BY <3>4, <3>5, <4>1, <4>2
    <3>9. \A w \in Workflows : w > workflow_id => thread'[w] = "none"
      BY <3>5 DEF ThreadsCreated
    <3>10. \A d \in Callers :
             /\ pc'[d] \in {"join", "create"} => thread'[claim'[d]] = "none"
             /\ pc'[d] = "record" => thread'[claim'[d]] \notin {"none", "joined"}
             /\ pc'[d] = "join" /\ prior'[d] # NoHandle =>
                  thread'[prior'[d]] # "none"
      BY <3>4, <3>6, <3>7, <3>8
    <3>11. \A w \in Workflows : w > workflow_id' => thread'[w] = "none"
      BY <3>7, <3>9
    <3>12. QED
      BY <3>10, <3>11 DEF ThreadsCreated
  <2>6. HandleOnRecord'
    BY <1>2 DEF StartJoin, HandleOnRecord, ThreadsCreated, ClaimsNumbered,
       JoinedOnce, Joining, FreeJoining
  <2>7. QED
    BY <2>1, <2>2, <2>3, <2>4, <2>5, <2>6
<1>3. ASSUME NEW c \in Callers, StartCreate(c)
      PROVE  SlotInv'
  <2>1. OneWorkflow'
    BY <1>3 DEF StartCreate, OneWorkflow, Starting, Live, ClaimsNumbered,
       ThreadsCreated
  <2>2. DryRunHonoured'
    <3>1. claim[c] = workflow_id /\ claim[c] \in Workflows
      BY <1>3 DEF StartCreate, ClaimsNumbered
    <3>2. state = "RUNNING" /\ active_dry_run = asked[claim[c]]
      BY <1>3, <3>1 DEF StartCreate, OneWorkflow, Starting, DryRunHonoured
    <3>3. ASSUME NEW w \in Workflows, w # claim[c]
          PROVE  thread'[w] = thread[w]
      BY <1>3, <3>3 DEF StartCreate
    <3>4. thread'[claim[c]] = "boot"
      BY <1>3, <3>1 DEF StartCreate
    <3>5. UNCHANGED <<state, workflow_id, active_dry_run, asked, dry_run>>
      BY <1>3 DEF StartCreate
    <3>6. QED
      BY <3>1, <3>2, <3>3, <3>4, <3>5 DEF DryRunHonoured
  <2>3. JoinedOnce'
    BY <1>3 DEF StartCreate, JoinedOnce, Joining, FreeJoining, ClaimsNumbered,
       ThreadsCreated, HandleOnRecord, OneWorkflow, Starting
  <2>4. ClaimsNumbered'
    BY <1>3 DEF StartCreate, ClaimsNumbered, OneWorkflow, Starting
  <2>5. ThreadsCreated'
    BY <1>3 DEF StartCreate, ThreadsCreated, ClaimsNumbered, HandleOnRecord,
       JoinedOnce, Joining, FreeJoining
  <2>6. HandleOnRecord'
    BY <1>3 DEF StartCreate, HandleOnRecord, ThreadsCreated, ClaimsNumbered,
       JoinedOnce, Joining, FreeJoining
  <2>7. QED
    BY <2>1, <2>2, <2>3, <2>4, <2>5, <2>6
<1>4. ASSUME NEW c \in Callers, StartCreateFails(c)
      PROVE  SlotInv'
  <2>1. OneWorkflow'
    BY <1>4 DEF StartCreateFails, OneWorkflow, Starting, Live, ClaimsNumbered,
       ThreadsCreated
  <2>2. DryRunHonoured'
    BY <1>4 DEF StartCreateFails, DryRunHonoured, OneWorkflow, Live,
       ClaimsNumbered, ThreadsCreated
  <2>3. JoinedOnce'
    BY <1>4 DEF StartCreateFails, JoinedOnce, Joining, FreeJoining,
       ClaimsNumbered, ThreadsCreated, HandleOnRecord, OneWorkflow, Starting
  <2>4. ClaimsNumbered'
    BY <1>4 DEF StartCreateFails, ClaimsNumbered, OneWorkflow, Starting
  <2>5. ThreadsCreated'
    BY <1>4 DEF StartCreateFails, ThreadsCreated, ClaimsNumbered,
       HandleOnRecord, JoinedOnce, Joining, FreeJoining
  <2>6. HandleOnRecord'
    BY <1>4 DEF StartCreateFails, HandleOnRecord, ThreadsCreated,
       ClaimsNumbered, JoinedOnce, Joining, FreeJoining
  <2>7. QED
    BY <2>1, <2>2, <2>3, <2>4, <2>5, <2>6
<1>5. ASSUME NEW c \in Callers, StartRecord(c)
      PROVE  SlotInv'
  <2>1. OneWorkflow'
    BY <1>5 DEF StartRecord, OneWorkflow, Starting, Live, ClaimsNumbered,
       ThreadsCreated
  <2>2. DryRunHonoured'
    BY <1>5 DEF StartRecord, DryRunHonoured, OneWorkflow, Live, ClaimsNumbered,
       ThreadsCreated
  <2>3. JoinedOnce'
    BY <1>5 DEF StartRecord, JoinedOnce, Joining, FreeJoining, ClaimsNumbered,
       ThreadsCreated, HandleOnRecord, OneWorkflow, Starting
  <2>4. ClaimsNumbered'
    BY <1>5 DEF StartRecord, ClaimsNumbered, OneWorkflow, Starting
  <2>5. ThreadsCreated'
    BY <1>5 DEF StartRecord, ThreadsCreated, ClaimsNumbered, HandleOnRecord,
       JoinedOnce, Joining, FreeJoining
  <2>6. HandleOnRecord'
    BY <1>5 DEF StartRecord, HandleOnRecord, ThreadsCreated, ClaimsNumbered,
       JoinedOnce, Joining, FreeJoining
  <2>7. QED
    BY <2>1, <2>2, <2>3, <2>4, <2>5, <2>6
<1>6. ASSUME NEW w \in Workflows, WorkerBoot(w)
      PROVE  SlotInv'
  <2>1. OneWorkflow'
    BY <1>6 DEF WorkerBoot, OneWorkflow, Starting, Live, ClaimsNumbered,
       ThreadsCreated
  <2>2. DryRunHonoured'
    BY <1>6 DEF WorkerBoot, DryRunHonoured, OneWorkflow, Live, ClaimsNumbered,
       ThreadsCreated
  <2>3. JoinedOnce'
    BY <1>6 DEF WorkerBoot, JoinedOnce, Joining, FreeJoining, ClaimsNumbered,
       ThreadsCreated, HandleOnRecord, OneWorkflow, Starting
  <2>4. ClaimsNumbered'
    BY <1>6 DEF WorkerBoot, ClaimsNumbered, OneWorkflow, Starting
  <2>5. ThreadsCreated'
    BY <1>6 DEF WorkerBoot, ThreadsCreated, ClaimsNumbered, HandleOnRecord,
       JoinedOnce, Joining, FreeJoining
  <2>6. HandleOnRecord'
    BY <1>6 DEF WorkerBoot, HandleOnRecord, ThreadsCreated, ClaimsNumbered,
       JoinedOnce, Joining, FreeJoining
  <2>7. QED
    BY <2>1, <2>2, <2>3, <2>4, <2>5, <2>6
<1>7. ASSUME NEW w \in Workflows, NEW ok \in Outcomes, WorkerAppend(w, ok)
      PROVE  SlotInv'
  <2>1. OneWorkflow'
    BY <1>7 DEF WorkerAppend, OneWorkflow, Starting, Live, ClaimsNumbered,
       ThreadsCreated
  <2>2. DryRunHonoured'
    BY <1>7 DEF WorkerAppend, DryRunHonoured, OneWorkflow, Live,
       ClaimsNumbered, ThreadsCreated
  <2>3. JoinedOnce'
    BY <1>7 DEF WorkerAppend, JoinedOnce, Joining, FreeJoining, ClaimsNumbered,
       ThreadsCreated, HandleOnRecord, OneWorkflow, Starting
  <2>4. ClaimsNumbered'
    BY <1>7 DEF WorkerAppend, ClaimsNumbered, OneWorkflow, Starting
  <2>5. ThreadsCreated'
    BY <1>7 DEF WorkerAppend, ThreadsCreated, ClaimsNumbered, HandleOnRecord,
       JoinedOnce, Joining, FreeJoining
  <2>6. HandleOnRecord'
    BY <1>7 DEF WorkerAppend, HandleOnRecord, ThreadsCreated, ClaimsNumbered,
       JoinedOnce, Joining, FreeJoining
  <2>7. QED
    BY <2>1, <2>2, <2>3, <2>4, <2>5, <2>6
<1>8. ASSUME NEW w \in Workflows, WorkerFinish(w)
      PROVE  SlotInv'
  <2>1. OneWorkflow'
    BY <1>8 DEF WorkerFinish, FinalState, OneWorkflow, Starting, Live,
       ClaimsNumbered, ThreadsCreated
  <2>2. DryRunHonoured'
    BY <1>8 DEF WorkerFinish, FinalState, DryRunHonoured, OneWorkflow, Live,
       ClaimsNumbered, ThreadsCreated
  <2>3. JoinedOnce'
    BY <1>8 DEF WorkerFinish, FinalState, JoinedOnce, Joining, FreeJoining,
       ClaimsNumbered, ThreadsCreated, HandleOnRecord, OneWorkflow, Starting
  <2>4. ClaimsNumbered'
    BY <1>8 DEF WorkerFinish, FinalState, ClaimsNumbered, OneWorkflow, Starting
  <2>5. ThreadsCreated'
    BY <1>8 DEF WorkerFinish, FinalState, ThreadsCreated, ClaimsNumbered,
       HandleOnRecord, JoinedOnce, Joining, FreeJoining
  <2>6. HandleOnRecord'
    BY <1>8 DEF WorkerFinish, FinalState, HandleOnRecord, ThreadsCreated,
       ClaimsNumbered, JoinedOnce, Joining, FreeJoining
  <2>7. QED
    BY <2>1, <2>2, <2>3, <2>4, <2>5, <2>6
<1>9. ASSUME NEW w \in Workflows, WorkerExit(w)
      PROVE  SlotInv'
  <2>1. OneWorkflow'
    BY <1>9 DEF WorkerExit, OneWorkflow, Starting, Live, ClaimsNumbered,
       ThreadsCreated
  <2>2. DryRunHonoured'
    BY <1>9 DEF WorkerExit, DryRunHonoured, OneWorkflow, Live, ClaimsNumbered,
       ThreadsCreated
  <2>3. JoinedOnce'
    BY <1>9 DEF WorkerExit, JoinedOnce, Joining, FreeJoining
  <2>4. ClaimsNumbered'
    BY <1>9 DEF WorkerExit, ClaimsNumbered, OneWorkflow, Starting
  <2>5. ThreadsCreated'
    BY <1>9 DEF WorkerExit, ThreadsCreated, ClaimsNumbered, HandleOnRecord,
       JoinedOnce, Joining, FreeJoining
  <2>6. HandleOnRecord'
    BY <1>9 DEF WorkerExit, HandleOnRecord, ThreadsCreated, ClaimsNumbered,
       JoinedOnce, Joining, FreeJoining
  <2>7. QED
    BY <2>1, <2>2, <2>3, <2>4, <2>5, <2>6
<1>10. CASE GetStatus
  <2>1. OneWorkflow'
    BY <1>10 DEF GetStatus, OneWorkflow, Starting, Live, ClaimsNumbered,
       ThreadsCreated
  <2>2. DryRunHonoured'
    BY <1>10 DEF GetStatus, DryRunHonoured, OneWorkflow, Live, ClaimsNumbered,
       ThreadsCreated
  <2>3. JoinedOnce'
    BY <1>10 DEF GetStatus, JoinedOnce, Joining, FreeJoining, ClaimsNumbered,
       ThreadsCreated, HandleOnRecord, OneWorkflow, Starting
  <2>4. ClaimsNumbered'
    BY <1>10 DEF GetStatus, ClaimsNumbered, OneWorkflow, Starting
  <2>5. ThreadsCreated'
    BY <1>10 DEF GetStatus, ThreadsCreated, ClaimsNumbered, HandleOnRecord,
       JoinedOnce, Joining, FreeJoining
  <2>6. HandleOnRecord'
    BY <1>10 DEF GetStatus, HandleOnRecord, ThreadsCreated, ClaimsNumbered,
       JoinedOnce, Joining, FreeJoining
  <2>7. QED
    BY <2>1, <2>2, <2>3, <2>4, <2>5, <2>6
<1>11. CASE FreeTake
  <2>1. OneWorkflow'
    BY <1>11 DEF FreeTake, PriorHandle, TakeHandle, OneWorkflow, Starting,
       Live, ClaimsNumbered, ThreadsCreated
  <2>2. DryRunHonoured'
    BY <1>11 DEF FreeTake, PriorHandle, TakeHandle, DryRunHonoured,
       OneWorkflow, Live, ClaimsNumbered, ThreadsCreated
  <2>3. JoinedOnce'
    BY <1>11 DEF FreeTake, PriorHandle, TakeHandle, JoinedOnce, Joining,
       FreeJoining, ClaimsNumbered, ThreadsCreated, HandleOnRecord,
       OneWorkflow, Starting
  <2>4. ClaimsNumbered'
    BY <1>11 DEF FreeTake, PriorHandle, TakeHandle, ClaimsNumbered,
       OneWorkflow, Starting
  <2>5. ThreadsCreated'
    BY <1>11 DEF FreeTake, PriorHandle, TakeHandle, ThreadsCreated,
       ClaimsNumbered, HandleOnRecord, JoinedOnce, Joining, FreeJoining
  <2>6. HandleOnRecord'
    BY <1>11 DEF FreeTake, PriorHandle, TakeHandle, HandleOnRecord,
       ThreadsCreated, ClaimsNumbered, JoinedOnce, Joining, FreeJoining
  <2>7. QED
    BY <2>1, <2>2, <2>3, <2>4, <2>5, <2>6
<1>12. CASE FreeJoin
  <2>1. OneWorkflow'
    BY <1>12 DEF FreeJoin, OneWorkflow, Starting, Live, ClaimsNumbered,
       ThreadsCreated
  <2>2. DryRunHonoured'
    BY <1>12 DEF FreeJoin, DryRunHonoured, OneWorkflow, Live, ClaimsNumbered,
       ThreadsCreated
  <2>3. JoinedOnce'
    BY <1>12 DEF FreeJoin, JoinedOnce, Joining, FreeJoining, ClaimsNumbered,
       ThreadsCreated, HandleOnRecord, OneWorkflow, Starting
  <2>4. ClaimsNumbered'
    BY <1>12 DEF FreeJoin, ClaimsNumbered, OneWorkflow, Starting
  <2>5. ThreadsCreated'
    BY <1>12 DEF FreeJoin, ThreadsCreated, ClaimsNumbered, HandleOnRecord,
       JoinedOnce, Joining, FreeJoining
  <2>6. HandleOnRecord'
    BY <1>12 DEF FreeJoin, HandleOnRecord, ThreadsCreated, ClaimsNumbered,
       JoinedOnce, Joining, FreeJoining
  <2>7. QED
    BY <2>1, <2>2, <2>3, <2>4, <2>5, <2>6
<1>13. CASE UNCHANGED vars
  <2>1. OneWorkflow'
    BY <1>13 DEF vars, OneWorkflow, Starting, Live, ClaimsNumbered,
       ThreadsCreated
  <2>2. DryRunHonoured'
    BY <1>13 DEF vars, DryRunHonoured, OneWorkflow, Live, ClaimsNumbered,
       ThreadsCreated
  <2>3. JoinedOnce'
    BY <1>13 DEF vars, JoinedOnce, Joining, FreeJoining, ClaimsNumbered,
       ThreadsCreated, HandleOnRecord, OneWorkflow, Starting
  <2>4. ClaimsNumbered'
    BY <1>13 DEF vars, ClaimsNumbered, OneWorkflow, Starting
  <2>5. ThreadsCreated'
    BY <1>13 DEF vars, ThreadsCreated, ClaimsNumbered, HandleOnRecord,
       JoinedOnce, Joining, FreeJoining
  <2>6. HandleOnRecord'
    BY <1>13 DEF vars, HandleOnRecord, ThreadsCreated, ClaimsNumbered,
       JoinedOnce, Joining, FreeJoining
  <2>7. QED
    BY <2>1, <2>2, <2>3, <2>4, <2>5, <2>6
<1>14. QED
  BY <1>1, <1>2, <1>3, <1>4, <1>5, <1>6, <1>7, <1>8, <1>9, <1>10, <1>11, <1>12,
     <1>13
     DEF Next, Start, StartRest, StartBusy, Worker, Free, Exited

(* The slot's invariant holds always ... *)
LEMMA SlotAlways == SafeSpec => []SlotInv
  BY SlotInit, SlotStep, AsyncTypeCorrect, PTL DEF SafeSpec

(* ... and with it what shutdown.h:110 promises: one workflow at a time,
   however starters and workers interleave. *)
THEOREM OneWorkflowAlways == SafeSpec => []OneWorkflow
<1>1. SlotInv => OneWorkflow
  BY DEF SlotInv
<1>2. QED
  BY <1>1, SlotAlways, PTL

(* A worker runs as the kind of workflow its own request asked for, although
   it reads active_dry_run long after the request stored it
   (shutdown.c:1143-1146, 1203). *)
THEOREM DryRunAlwaysHonoured == SafeSpec => []DryRunHonoured
<1>1. SlotInv => DryRunHonoured
  BY DEF SlotInv
<1>2. QED
  BY <1>1, SlotAlways, PTL

(* No worker thread is joined twice (shutdown.c:590-595, 1183-1185, 1211). *)
THEOREM NeverJoinedTwice == SafeSpec => []JoinedOnce
<1>1. SlotInv => JoinedOnce
  BY DEF SlotInv
<1>2. QED
  BY <1>1, SlotAlways, PTL

-----------------------------------------------------------------------------

(* A polling client never sees a workflow go backwards
   (shutdown_get_status, shutdown.c:1232-1270). *)
THEOREM ViewsAdvance == SafeSpec => ViewAdvances
<1> USE DEF mgrVars, callerVars, workerVars, freeVars
<1>1. Init => ViewBehind
  BY DEF Init, ViewBehind
<1>2. TypeOK /\ SlotInv /\ ViewBehind /\ [Next]_vars => ViewBehind'
  <2> SUFFICES ASSUME TypeOK, SlotInv, ViewBehind, [Next]_vars
               PROVE  ViewBehind'
    OBVIOUS
  <2>0. /\ workflow_id \in Nat /\ view.id \in Nat /\ view.n_failed \in Nat
        /\ snapshot.n_failed \in Nat /\ view \in Views /\ snapshot \in Snapshots
    BY AsyncAssumption DEF AsyncAssumption, TypeOK, MgrTypeOK, Views, Snapshots
  <2>1. ASSUME NEW c \in Callers, NEW d \in BOOLEAN, StartClaim(c, d)
        PROVE  ViewBehind'
    BY <2>0, <2>1 DEF StartClaim, NextId, ViewBehind
  <2>2. ASSUME NEW c \in Callers, StartRest(c)
        PROVE  ViewBehind'
    BY <2>2 DEF StartRest, StartJoin, StartCreate, StartCreateFails,
                StartRecord, ViewBehind
  <2>3. ASSUME NEW w \in Workflows, NEW ok \in Outcomes, WorkerAppend(w, ok)
        PROVE  ViewBehind'
    <3>1. \/ snapshot'.n_failed = snapshot.n_failed
          \/ snapshot'.n_failed = snapshot.n_failed + 1
      BY <2>0, <2>3 DEF WorkerAppend, Snapshots
    <3>2. UNCHANGED <<view, workflow_id, state>>
      BY <2>3 DEF WorkerAppend
    <3>3. QED
      BY <2>0, <3>1, <3>2 DEF ViewBehind
  <2>4. ASSUME NEW w \in Workflows,
               WorkerBoot(w) \/ WorkerFinish(w) \/ WorkerExit(w)
        PROVE  ViewBehind'
    BY <2>4 DEF WorkerBoot, WorkerFinish, FinalState, WorkerExit, ViewBehind
  <2>5. CASE GetStatus
    BY <2>0, <2>5 DEF GetStatus, ViewBehind
  <2>6. CASE Free
    BY <2>6 DEF Free, FreeTake, FreeJoin, ViewBehind
  <2>7. CASE UNCHANGED vars
    BY <2>7 DEF vars, ViewBehind
  <2>8. QED
    BY <2>1, <2>2, <2>3, <2>4, <2>5, <2>6, <2>7
       DEF Next, Start, StartBusy, Worker, Exited
<1>3. TypeOK /\ ViewBehind /\ [Next]_vars =>
        [/\ view.id <= view'.id
         /\ view.id = view'.id =>
              /\ view'.state = "RUNNING" => view.state = "RUNNING"
              /\ view.n_failed <= view'.n_failed]_view
  <2> SUFFICES ASSUME ViewBehind, [Next]_vars, view' # view
               PROVE  /\ view.id <= view'.id
                      /\ view.id = view'.id =>
                           /\ view'.state = "RUNNING" => view.state = "RUNNING"
                           /\ view.n_failed <= view'.n_failed
    OBVIOUS
  <2>1. GetStatus
    BY DEF Next, Start, StartRest, StartBusy, StartClaim, StartJoin,
           StartCreate, StartCreateFails, StartRecord, Worker, WorkerBoot,
           WorkerAppend, WorkerFinish, WorkerExit, Free, FreeTake, FreeJoin,
           Exited, vars
  <2>2. QED
    BY <2>1 DEF GetStatus, ViewBehind
<1>4. QED
  BY <1>1, <1>2, <1>3, AsyncTypeCorrect, SlotAlways, PTL
     DEF SafeSpec, ViewAdvances

-----------------------------------------------------------------------------
(* What a poller is told *)

\* n_failed and the rows are counted together: a row appended adds one to the
\* failures when it is one.
LEMMA FailedNone == Failed(NoRows) = 0
<1>1. {i \in DOMAIN NoRows : NoRows[i].ok = 1} = {}
  BY DEF NoRows
<1> QED
  BY <1>1, FS_EmptySet DEF Failed

LEMMA FailedAppend ==
  ASSUME NEW s \in Seq(Rows), NEW r \in Rows
  PROVE  /\ Failed(s) \in Nat
         /\ Failed(Append(s, r)) = IF r.ok = 1 THEN Failed(s) + 1 ELSE Failed(s)
<1> DEFINE n == Len(s)
           u == Append(s, r)
           F == {i \in DOMAIN s : s[i].ok = 1}
           G == {i \in DOMAIN u : u[i].ok = 1}
<1> HIDE DEF Rows
<1>1. /\ n \in Nat /\ DOMAIN s = 1..n /\ DOMAIN u = 1..(n + 1)
      /\ u[n + 1] = r /\ \A i \in 1..n : u[i] = s[i]
  OBVIOUS
<1> HIDE DEF u
<1>2. IsFiniteSet(F) /\ n + 1 \notin F
  <2>1. IsFiniteSet(1..n)
    BY <1>1, FS_Interval
  <2>2. IsFiniteSet(F) /\ F \subseteq 1..n
    BY <1>1, <2>1, FS_Subset
  <2>3. n + 1 \notin 1..n
    BY <1>1
  <2> QED
    BY <2>2, <2>3
<1>3. Failed(s) = Cardinality(F) /\ Failed(u) = Cardinality(G)
  BY DEF Failed
<1>4. CASE r.ok = 1
  <2>1. G = F \union {n + 1}
    BY <1>1, <1>4
  <2>2. Cardinality(F \union {n + 1}) = Cardinality(F) + 1
    BY <1>2, FS_AddElement
  <2> QED
    BY <1>2, <1>3, <1>4, <2>1, <2>2, FS_CardinalityType DEF u
<1>5. CASE r.ok # 1
  <2>1. G = F
    BY <1>1, <1>5
  <2> QED
    BY <1>2, <1>3, <1>5, <2>1, FS_CardinalityType DEF u
<1> QED
  BY <1>4, <1>5

\* A worker that has not begun has no rows; what the snapshot shows are rows of
\* the latest workflow, in its worker's order, and its count knows of every
\* failure shown; COMPLETED is said of a worker past its last row.
Unbegun == \A w \in Workflows : thread[w] \in {"none", "boot"} => res[w] = NoRows
ShownRows ==
  \A i \in DOMAIN snapshot.steps :
    /\ snapshot.steps[i].wf = workflow_id
    /\ snapshot.steps[i].step <= Len(res[workflow_id])
    /\ \A j \in 1..(i - 1) : snapshot.steps[j].step < snapshot.steps[i].step
FailuresKnown ==
  \A w \in Workflows : w = workflow_id =>
    \A i \in DOMAIN res[w] :
      res[w][i].ok = 1 /\ res[w][i].shown => snapshot.n_failed > 0
Ending == {"tail", "exited", "joined"}
CompletedEnded ==
  state = "COMPLETED" => workflow_id \in Workflows /\ thread[workflow_id] \in Ending
ReportInv ==
  /\ Unbegun
  /\ ShownRows
  /\ snapshot.n_failed = Failed(snapshot.steps)
  /\ FailuresKnown
  /\ CompletedEnded
  /\ AllOkHonest

LEMMA ReportInit == Init => ReportInv
<1> SUFFICES ASSUME Init PROVE ReportInv
  OBVIOUS
<1>1. Unbegun /\ ShownRows /\ FailuresKnown /\ CompletedEnded /\ AllOkHonest
  BY DEF Init, Unbegun, ShownRows, NoRows, FailuresKnown, CompletedEnded,
         AllOkHonest
<1>2. snapshot.n_failed = Failed(snapshot.steps)
  BY FailedNone DEF Init
<1> QED
  BY <1>1, <1>2 DEF ReportInv

\* The shapes used below.
LEMMA ReportTypes ==
  ASSUME TypeOK
  PROVE  /\ workflow_id \in 0..MaxWorkflows /\ workflow_id \in Nat
         /\ MaxWorkflows \in Nat
         /\ snapshot = [present |-> snapshot.present, steps |-> snapshot.steps,
                        n_failed |-> snapshot.n_failed]
         /\ snapshot.steps \in Seq(Rows) /\ snapshot.n_failed \in Nat
         /\ res \in [Workflows -> Seq(Rows)]
<1> HIDE DEF Rows
<1> QED
  BY AsyncAssumption
     DEF AsyncAssumption, TypeOK, MgrTypeOK, WorkerTypeOK, Snapshots, Workflows

\* What is not about the rows: the state, the threads and the snapshot's reset.
LEMMA ReportClaim ==
  ASSUME TypeOK, SlotInv, ReportInv, NEW c \in Callers, NEW d \in BOOLEAN,
         StartClaim(c, d)
  PROVE  ReportInv'
<1>1. /\ snapshot'.steps = NoRows /\ snapshot'.n_failed = 0
      /\ UNCHANGED <<thread, res, view>>
      /\ state' = "RUNNING" /\ workflow_id' = workflow_id + 1
  BY DEF StartClaim, FreshSnapshot, NextId, workerVars
<1>2. workflow_id + 1 \in Workflows /\ thread[workflow_id + 1] = "none"
  <2>1. workflow_id + 1 \in Workflows /\ workflow_id + 1 > workflow_id
    BY ReportTypes DEF StartClaim, Workflows
  <2> QED
    BY <2>1 DEF SlotInv, ThreadsCreated
<1>3. res[workflow_id + 1] = NoRows
  BY <1>2 DEF ReportInv, Unbegun
<1>4. FailuresKnown'
  BY <1>1, <1>3 DEF FailuresKnown, NoRows
<1>5. ShownRows'
  BY <1>1 DEF ShownRows, NoRows
<1> QED
  BY <1>1, <1>4, <1>5, FailedNone
     DEF ReportInv, Unbegun, CompletedEnded, AllOkHonest

\* The threads move, and the rows stay.
LEMMA ReportKept ==
  ASSUME TypeOK, ReportInv, UNCHANGED <<workflow_id, snapshot, res>>,
         \A w \in Workflows :
           /\ thread'[w] \in {"none", "boot"} => thread[w] \in {"none", "boot"}
           /\ thread[w] \in Ending => thread'[w] \in Ending,
         state' = "COMPLETED" =>
           state = "COMPLETED" \/ (workflow_id \in Workflows /\ thread'[workflow_id] \in Ending),
         UNCHANGED view \/ GetStatus
  PROVE  ReportInv'
<1>1. Unbegun' /\ ShownRows' /\ FailuresKnown'
  BY DEF ReportInv, Unbegun, ShownRows, FailuresKnown
<1>2. (snapshot.n_failed = Failed(snapshot.steps))'
  BY DEF ReportInv
<1>3. CompletedEnded'
  BY DEF ReportInv, CompletedEnded
<1>4. CASE UNCHANGED view
  <2>1. AllOkHonest'
    BY <1>4 DEF ReportInv, AllOkHonest, Ending
  <2> QED
    BY <1>1, <1>2, <1>3, <2>1 DEF ReportInv
<1>5. CASE GetStatus
  <2>1. UNCHANGED <<state, thread>>
    BY <1>5 DEF GetStatus, mgrVars, workerVars
  <2>2. /\ view'.id = workflow_id
        /\ view'.all_ok => state = "COMPLETED" /\ snapshot.n_failed = 0
    BY <1>5 DEF GetStatus, AllOk
  <2>3. AllOkHonest'
    BY <2>1, <2>2
       DEF ReportInv, CompletedEnded, FailuresKnown, AllOkHonest, Ending
  <2> QED
    BY <1>1, <1>2, <1>3, <2>3 DEF ReportInv
<1> QED
  BY <1>4, <1>5

\* A row is appended, and shown to pollers or not.
LEMMA ReportAppend ==
  ASSUME TypeOK, SlotInv, ReportInv, NEW w \in Workflows, NEW ok \in Outcomes,
         WorkerAppend(w, ok)
  PROVE  ReportInv'
<1>1. PICK shown \in BOOLEAN :
        LET row == [wf |-> w, step |-> Len(res[w]) + 1, ok |-> ok,
                    shown |-> shown] IN
        /\ res' = [res EXCEPT ![w] = Append(@, row)]
        /\ \/ /\ shown
              /\ snapshot' = [snapshot EXCEPT
                                !.steps = Append(@, row),
                                !.n_failed = IF ok = 1 THEN @ + 1 ELSE @]
           \/ ~shown /\ UNCHANGED snapshot
  BY DEF WorkerAppend
<1> DEFINE n == Len(res[w])
           row == [wf |-> w, step |-> n + 1, ok |-> ok, shown |-> shown]
<1>2. /\ thread[w] = "run" /\ n < MaxSteps
      /\ UNCHANGED <<state, workflow_id, thread, view>>
  BY DEF WorkerAppend
<1>3. w = workflow_id
  BY <1>2 DEF SlotInv, OneWorkflow, Live
<1>4. res[w] \in Seq(Rows) /\ n \in Nat
  <2> HIDE DEF Rows
  <2> QED
    BY ReportTypes
<1>5. row \in Rows /\ row.wf = w /\ row.step = n + 1 /\ row.ok = ok
      /\ row.shown = shown
  <2>1. n + 1 \in 1..MaxSteps
    <3> HIDE DEF n
    <3> QED
      BY <1>2, <1>4, AsyncAssumption DEF AsyncAssumption
  <2> QED
    BY <2>1 DEF Rows
<1>6. /\ res' = [res EXCEPT ![w] = Append(res[w], row)]
      /\ \/ /\ shown /\ snapshot'.steps = Append(snapshot.steps, row)
            /\ snapshot'.n_failed = IF ok = 1 THEN snapshot.n_failed + 1
                                    ELSE snapshot.n_failed
         \/ ~shown /\ UNCHANGED snapshot
  BY <1>1, ReportTypes
<1> HIDE DEF row, n, Rows
<1>7. /\ DOMAIN res[w] = 1..n /\ DOMAIN res'[w] = 1..(n + 1)
      /\ Len(res'[w]) = n + 1
      /\ \A i \in 1..n : res'[w][i] = res[w][i]
      /\ res'[w][n + 1] = row
      /\ \A v \in Workflows : v # w => res'[v] = res[v]
  <2>1. res'[w] = Append(res[w], row) /\ n = Len(res[w])
    BY <1>6, ReportTypes DEF n
  <2>2. \A v \in Workflows : v # w => res'[v] = res[v]
    BY <1>6, ReportTypes
  <2> QED
    BY <1>4, <1>5, <2>1, <2>2
<1>8. Unbegun'
  BY <1>2, <1>7 DEF ReportInv, Unbegun
<1>9. CompletedEnded'
  BY <1>2 DEF ReportInv, CompletedEnded
<1>10. AllOkHonest'
  BY <1>2, <1>7 DEF ReportInv, AllOkHonest
<1>11. (snapshot.n_failed = Failed(snapshot.steps))'
  <2>1. snapshot.steps \in Seq(Rows)
    BY ReportTypes
  <2> QED
    BY <1>5, <1>6, <2>1, FailedAppend DEF ReportInv
<1>12. FailuresKnown'
  <2>1. snapshot'.n_failed \in Nat /\ snapshot'.n_failed >= snapshot.n_failed
        /\ snapshot.n_failed \in Nat
        /\ (shown /\ ok = 1 => snapshot'.n_failed > 0)
    BY <1>6, ReportTypes
  <2>2. ASSUME NEW i \in DOMAIN res'[w], res'[w][i].ok = 1, res'[w][i].shown
        PROVE  snapshot'.n_failed > 0
    <3>1. CASE i \in 1..n
      <4>1. snapshot.n_failed > 0
        BY <1>3, <1>7, <2>2, <3>1 DEF ReportInv, FailuresKnown
      <4> QED
        BY <2>1, <4>1
    <3>2. CASE i = n + 1
      BY <1>5, <1>7, <2>1, <2>2, <3>2
    <3> QED
      BY <1>4, <1>7, <3>1, <3>2
  <2> QED
    BY <1>2, <1>3, <2>2 DEF FailuresKnown
<1>13. ShownRows'
  <2>1. ASSUME NEW i \in DOMAIN snapshot.steps
        PROVE  /\ snapshot.steps[i].wf = workflow_id
               /\ snapshot.steps[i].step \in Nat /\ snapshot.steps[i].step <= n
               /\ \A j \in 1..(i - 1) :
                    snapshot.steps[j].step < snapshot.steps[i].step
    <3>1. snapshot.steps[i] \in Rows
      BY ReportTypes
    <3>2. snapshot.steps[i].step \in Nat
      BY <3>1, ReportTypes DEF Rows
    <3> QED
      BY <1>3, <2>1, <3>2 DEF ReportInv, ShownRows, n
  <2>2. CASE UNCHANGED snapshot
    <3>1. ASSUME NEW i \in DOMAIN snapshot.steps
          PROVE  snapshot.steps[i].step <= n + 1
      BY <1>4, <2>1
    <3> QED
      BY <1>2, <1>3, <1>7, <2>1, <2>2, <3>1 DEF ShownRows
  <2>3. CASE snapshot'.steps = Append(snapshot.steps, row)
    <3> DEFINE m == Len(snapshot.steps)
    <3>1. /\ m \in Nat /\ DOMAIN snapshot.steps = 1..m
          /\ DOMAIN snapshot'.steps = 1..(m + 1)
          /\ \A i \in 1..m : snapshot'.steps[i] = snapshot.steps[i]
          /\ snapshot'.steps[m + 1] = row
      BY <1>5, <2>3, ReportTypes
    <3> HIDE DEF m
    <3>2. ASSUME NEW i \in 1..m
          PROVE  /\ snapshot'.steps[i].wf = workflow_id
                 /\ snapshot'.steps[i].step <= n + 1
                 /\ \A j \in 1..(i - 1) :
                      snapshot'.steps[j].step < snapshot'.steps[i].step
      <4>1. \A j \in 1..(i - 1) : j \in 1..m
        BY <3>1
      <4>2. snapshot.steps[i].step \in Nat /\ snapshot.steps[i].step <= n
        BY <2>1, <3>1
      <4>3. ASSUME NEW j \in 1..(i - 1)
            PROVE  snapshot'.steps[j].step < snapshot'.steps[i].step
        BY <2>1, <3>1, <4>1
      <4>4. snapshot'.steps[i].wf = workflow_id
        BY <2>1, <3>1
      <4> QED
        BY <1>4, <3>1, <4>2, <4>3, <4>4
    <3>3. /\ row.wf = workflow_id /\ row.step <= n + 1
          /\ \A j \in 1..m : snapshot'.steps[j].step < row.step
      <4>1. row.wf = workflow_id /\ row.step = n + 1 /\ n + 1 <= n + 1
        BY <1>3, <1>4, <1>5
      <4>2. ASSUME NEW j \in 1..m PROVE snapshot'.steps[j].step < n + 1
        <5>1. snapshot.steps[j].step \in Nat /\ snapshot.steps[j].step <= n
          BY <2>1, <3>1
        <5>2. snapshot'.steps[j] = snapshot.steps[j]
          BY <3>1
        <5> QED
          BY <1>4, <5>1, <5>2
      <4> QED
        BY <4>1, <4>2
    <3>4. ASSUME NEW i \in DOMAIN snapshot'.steps
          PROVE  /\ snapshot'.steps[i].wf = workflow_id
                 /\ snapshot'.steps[i].step <= n + 1
                 /\ \A j \in 1..(i - 1) :
                      snapshot'.steps[j].step < snapshot'.steps[i].step
      <4>1. CASE i \in 1..m
        BY <3>2, <4>1
      <4>2. CASE i = m + 1
        <5>1. \A j \in 1..(i - 1) : j \in 1..m
          BY <3>1, <4>2
        <5> QED
          BY <3>1, <3>3, <4>2, <5>1
      <4> QED
        BY <3>1, <4>1, <4>2
    <3> QED
      BY <1>2, <1>3, <1>7, <3>4 DEF ShownRows
  <2> QED
    BY <1>6, <2>2, <2>3
<1> QED
  BY <1>8, <1>9, <1>10, <1>11, <1>12, <1>13 DEF ReportInv

LEMMA ReportStep ==
  ASSUME TypeOK, SlotInv, ReportInv, [Next]_vars PROVE ReportInv'
<1> USE DEF mgrVars, workerVars
<1>1. ASSUME NEW c \in Callers, StartRest(c) PROVE ReportInv'
  <2>2. pc[c] = "create" => thread[claim[c]] = "none"
    BY DEF SlotInv, ThreadsCreated
  <2>3. state' # "COMPLETED" \/ state' = state
    BY <1>1 DEF StartRest, StartJoin, StartCreate, StartCreateFails, StartRecord
  <2>4. \A w \in Workflows :
           /\ thread'[w] \in {"none", "boot"} => thread[w] \in {"none", "boot"}
           /\ thread[w] \in Ending => thread'[w] \in Ending
    BY <1>1, <2>2
       DEF TypeOK, WorkerTypeOK, Ending, StartRest, StartJoin, StartCreate,
           StartCreateFails, StartRecord
  <2>5. UNCHANGED <<workflow_id, snapshot, res, view>>
    BY <1>1 DEF StartRest, StartJoin, StartCreate, StartCreateFails, StartRecord
  <2> QED
    BY <2>3, <2>4, <2>5, ReportKept
<1>2. ASSUME NEW w \in Workflows, WorkerBoot(w) \/ WorkerFinish(w) \/ WorkerExit(w)
      PROVE  ReportInv'
  <2>1. UNCHANGED <<workflow_id, snapshot, res, view>>
    BY <1>2 DEF WorkerBoot, WorkerFinish, WorkerExit
  <2>2. \A v \in Workflows :
           /\ thread'[v] \in {"none", "boot"} => thread[v] \in {"none", "boot"}
           /\ thread[v] \in Ending => thread'[v] \in Ending
    BY <1>2 DEF TypeOK, WorkerTypeOK, Ending, WorkerBoot, WorkerFinish, WorkerExit
  <2>3. CASE WorkerFinish(w)
    <3>1. w = workflow_id /\ thread'[w] \in Ending
      BY <2>3 DEF WorkerFinish, SlotInv, OneWorkflow, Live, Ending, TypeOK, WorkerTypeOK
    <3> QED
      BY <2>1, <2>2, <3>1, ReportKept
  <2>4. CASE WorkerBoot(w) \/ WorkerExit(w)
    <3>1. UNCHANGED state
      BY <2>4 DEF WorkerBoot, WorkerExit
    <3> QED
      BY <2>1, <2>2, <3>1, ReportKept
  <2> QED
    BY <1>2, <2>3, <2>4
<1>3. CASE GetStatus \/ Free \/ UNCHANGED vars
  <2>1. UNCHANGED <<state, workflow_id, snapshot, res>> /\ (UNCHANGED view \/ GetStatus)
    BY <1>3 DEF GetStatus, Free, FreeTake, FreeJoin, vars
  <2>2. \A v \in Workflows :
           /\ thread'[v] \in {"none", "boot"} => thread[v] \in {"none", "boot"}
           /\ thread[v] \in Ending => thread'[v] \in Ending
    BY <1>3 DEF TypeOK, WorkerTypeOK, FreeTypeOK, Handles, NoHandle, Ending,
       GetStatus, Free, FreeTake, FreeJoin, vars
  <2> QED
    BY <2>1, <2>2, ReportKept
<1> QED
  BY <1>1, <1>2, <1>3, ReportClaim, ReportAppend
     DEF Next, Start, StartBusy, Worker, Exited

LEMMA ReportAlways == SafeSpec => []ReportInv
  BY ReportInit, ReportStep, AsyncTypeCorrect, SlotAlways, PTL DEF SafeSpec

\* A poller reads one workflow's history, whatever rows of earlier workflows
\* their workers left behind (shutdown.c:103-142, 1190-1195).
THEOREM SnapshotAlwaysCoherent == SafeSpec => []SnapshotCoherent
<1>1. ReportInv => SnapshotCoherent
  BY DEF ReportInv, ShownRows, SnapshotCoherent
<1> QED
  BY <1>1, ReportAlways, PTL

\* all_ok is told only of a workflow at its end, none of whose shown steps
\* failed (shutdown.h:136).
THEOREM AllOkAlwaysHonest == SafeSpec => []AllOkHonest
<1>1. ReportInv => AllOkHonest
  BY DEF ReportInv
<1> QED
  BY <1>1, ReportAlways, PTL

-----------------------------------------------------------------------------
(* The refinement: ShutdownAsync implements the safety part of             *)
(* ShutdownService.  Its initial states are initial states there and each  *)
(* of its steps is a step or a stutter there, under the mapping defined at *)
(* the end of ShutdownAsync.                                               *)

(* What the mapped phase is in each state of the manager. *)
LEMMA PhaseIs ==
  /\ freer = "freed" => servicePhase = "stopped"
  /\ freer # "freed" /\ state = "IDLE" => servicePhase = "idle"
  /\ freer # "freed" /\ state = "COMPLETED" => servicePhase = "completed"
  /\ freer # "freed" /\ state = "RUNNING" /\ Executing =>
       servicePhase = "executing"
  /\ freer # "freed" /\ state = "RUNNING" /\ ~Executing =>
       servicePhase = "accepted"
  BY DEF servicePhase

(* The manager starts as an idle service. *)
LEMMA RefinesInit == Init => Service!Init
<1> SUFFICES ASSUME Init
             PROVE  Service!Init
  OBVIOUS
<1>1. servicePhase = "idle"
  BY PhaseIs DEF Init
<1>2. serviceDry = FALSE /\ workflow_id = 0
  BY DEF Init, serviceDry
<1>3. ~(snapshot.n_failed > 0)
  BY DEF Init
<1>4. QED
  BY <1>1, <1>2, <1>3 DEF Service!Init

(* Each critical section is a step of the service or invisible to it. *)
LEMMA RefinesNext ==
  TypeOK /\ SlotInv /\ SlotInv' /\ [Next]_vars => [Service!Next]_(Service!vars)
<1> SUFFICES ASSUME TypeOK, SlotInv, SlotInv', [Next]_vars
             PROVE  [Service!Next]_(Service!vars)
  OBVIOUS
<1> USE AsyncAssumption DEF AsyncAssumption, Workflows, mgrVars, callerVars,
        workerVars, freeVars
<1>a. /\ workflow_id \in 0..MaxWorkflows /\ state \in States
      /\ snapshot.n_failed \in Nat /\ snapshot \in Snapshots
      /\ \A w \in Workflows : asked[w] \in BOOLEAN
  BY DEF TypeOK, MgrTypeOK, WorkerTypeOK, Snapshots
<1>b. servicePhase' = servicePhase /\ serviceDry' = serviceDry
      /\ UNCHANGED <<workflow_id, snapshot>> => UNCHANGED Service!vars
  BY DEF Service!vars
<1>1. ASSUME NEW c \in Callers, NEW d \in BOOLEAN, StartClaim(c, d)
      PROVE  Service!Accept
  <2>1. /\ state # "RUNNING" /\ freer = "up" /\ freer' = "up"
        /\ state' = "RUNNING" /\ workflow_id < MaxWorkflows
        /\ workflow_id' = workflow_id + 1 /\ thread' = thread
    BY <1>1 DEF StartClaim, SlotFree, NextId
  <2>2. servicePhase \in {"idle", "completed"}
    BY <1>a, <2>1, PhaseIs DEF States
  <2>3. workflow_id + 1 \in Workflows /\ thread[workflow_id + 1] = "none"
    BY <1>a, <2>1 DEF SlotInv, ThreadsCreated
  <2>4. servicePhase' = "accepted"
    <3>1. ~Executing'
      BY <2>1, <2>3 DEF Executing
    <3>2. freer' # "freed" /\ state' = "RUNNING"
      BY <2>1
    <3>3. QED
      BY <3>1, <3>2, PhaseIs DEF servicePhase, Executing
  <2>5. serviceDry' \in BOOLEAN
    <3>1. asked' = [asked EXCEPT ![workflow_id + 1] = d]
      BY <1>1 DEF StartClaim, NextId
    <3>2. asked'[workflow_id + 1] = d
      BY <2>3, <3>1 DEF TypeOK, WorkerTypeOK
    <3>3. serviceDry' = asked'[workflow_id']
      <4>1. workflow_id' # 0
        BY <1>a, <2>1
      <4>2. thread'[workflow_id'] = "none"
        BY <2>1, <2>3
      <4>3. QED
        BY <4>1, <4>2 DEF serviceDry
    <3>4. QED
      BY <2>1, <3>2, <3>3
  <2>6. (snapshot.n_failed > 0)' = FALSE
    <3>1. snapshot'.n_failed = 0
      BY <1>1 DEF StartClaim, FreshSnapshot
    <3>2. QED
      BY <3>1
  <2>7. QED
    BY <2>1, <2>2, <2>4, <2>5, <2>6 DEF Service!Accept
<1>2. ASSUME NEW c \in Callers, StartJoin(c)
      PROVE  UNCHANGED Service!vars
  <2>1. /\ UNCHANGED <<state, workflow_id, snapshot, asked, dry_run, freer>>
        /\ claim[c] = workflow_id /\ workflow_id \in Workflows
        /\ thread[workflow_id] = "none"
    BY <1>a, <1>2 DEF StartJoin, SlotInv, ClaimsNumbered, ThreadsCreated
  <2>2. thread'[workflow_id] = "none"
    <3>1. CASE thread' = thread
      BY <2>1, <3>1
    <3>2. CASE /\ thread[prior[c]] = "exited"
               /\ thread' = [thread EXCEPT ![prior[c]] = "joined"]
      <4>1. prior[c] # workflow_id
        BY <2>1, <3>2
      <4>2. thread'[workflow_id] = thread[workflow_id]
        BY <2>1, <3>2, <4>1 DEF TypeOK, WorkerTypeOK
      <4>3. QED
        BY <2>1, <4>2
    <3>3. QED
      BY <1>2, <3>1, <3>2 DEF StartJoin
  <2>3. Executing' = Executing
    BY <2>1, <2>2 DEF Executing
  <2>4. servicePhase' = servicePhase /\ serviceDry' = serviceDry
    BY <2>1, <2>2, <2>3 DEF servicePhase, serviceDry
  <2>5. QED
    BY <1>b, <2>1, <2>4
<1>3. ASSUME NEW c \in Callers, StartCreate(c)
      PROVE  UNCHANGED Service!vars
  <2>1. /\ UNCHANGED <<state, workflow_id, snapshot, asked, dry_run, freer>>
        /\ claim[c] = workflow_id /\ workflow_id \in Workflows
        /\ thread[workflow_id] = "none"
    BY <1>a, <1>3 DEF StartCreate, SlotInv, ClaimsNumbered, ThreadsCreated
  <2>2. thread'[workflow_id] = "boot"
    BY <1>3, <2>1 DEF StartCreate, TypeOK, WorkerTypeOK
  <2>3. Executing' = Executing
    BY <2>1, <2>2 DEF Executing
  <2>4. servicePhase' = servicePhase /\ serviceDry' = serviceDry
    BY <2>1, <2>2, <2>3 DEF servicePhase, serviceDry
  <2>5. QED
    BY <1>b, <2>1, <2>4
<1>4. ASSUME NEW c \in Callers, StartCreateFails(c)
      PROVE  Service!Drop
  <2>1. /\ UNCHANGED <<workflow_id, snapshot, asked, dry_run, freer, thread>>
        /\ thread[workflow_id] = "none" /\ state' = "IDLE" /\ freer = "up"
    BY <1>a, <1>4 DEF StartCreateFails, SlotInv, ClaimsNumbered, ThreadsCreated
  <2>2. state = "RUNNING"
    BY <1>4 DEF StartCreateFails, SlotInv, OneWorkflow, Starting
  <2>3. ~Executing
    BY <2>1 DEF Executing
  <2>4. servicePhase = "accepted"
    BY <2>1, <2>2, <2>3, PhaseIs
  <2>5. servicePhase' = "idle"
    BY <2>1 DEF servicePhase
  <2>6. serviceDry' = serviceDry
    BY <2>1 DEF serviceDry
  <2>7. QED
    BY <2>1, <2>4, <2>5, <2>6 DEF Service!Drop
<1>5. ASSUME NEW c \in Callers, StartRecord(c)
      PROVE  UNCHANGED Service!vars
  BY <1>5 DEF StartRecord, Service!vars, servicePhase, serviceDry, Executing
<1>6. ASSUME NEW w \in Workflows, WorkerBoot(w)
      PROVE  Service!Launch
  <2>1. /\ UNCHANGED <<workflow_id, snapshot, asked, freer, state>>
        /\ freer # "freed" /\ thread[w] = "boot" /\ thread'[w] = "run"
        /\ dry_run'[w] = active_dry_run
    BY <1>6 DEF WorkerBoot, TypeOK, WorkerTypeOK
  <2>2. w = workflow_id /\ state = "RUNNING" /\ active_dry_run = asked[w]
    BY <2>1 DEF SlotInv, OneWorkflow, Live, DryRunHonoured
  <2>3. ~Executing /\ Executing'
    BY <2>1, <2>2 DEF Executing
  <2>4. servicePhase = "accepted"
    BY <2>1, <2>2, <2>3, PhaseIs
  <2>5. servicePhase' = "executing"
    BY <2>1, <2>2, <2>3 DEF servicePhase
  <2>6. serviceDry' = serviceDry
    BY <2>1, <2>2 DEF serviceDry
  <2>7. QED
    BY <2>1, <2>4, <2>5, <2>6 DEF Service!Launch
<1>7. ASSUME NEW w \in Workflows, NEW ok \in Outcomes, WorkerAppend(w, ok)
      PROVE  [Service!Next]_(Service!vars)
  <2>1. UNCHANGED <<workflow_id, asked, dry_run, freer, state, thread>>
    BY <1>7 DEF WorkerAppend
  <2>2. UNCHANGED <<servicePhase, serviceDry>>
    BY <2>1 DEF servicePhase, serviceDry, Executing
  <2>3. CASE snapshot'.n_failed = snapshot.n_failed
    BY <2>1, <2>2, <2>3 DEF Service!vars
  <2>4. CASE snapshot'.n_failed = snapshot.n_failed + 1
    <3>1. thread[w] = "run" /\ freer # "freed"
      BY <1>7 DEF WorkerAppend
    <3>2. w = workflow_id /\ state = "RUNNING"
      BY <3>1 DEF SlotInv, OneWorkflow, Live
    <3>3. servicePhase = "executing"
      BY <3>1, <3>2, PhaseIs DEF Executing
    <3>4. snapshot'.n_failed > 0
      BY <1>a, <2>4
    <3>5. (snapshot.n_failed > 0)' = TRUE
      BY <3>4
    <3>6. Service!StepFails
      BY <2>1, <2>2, <3>3, <3>5 DEF Service!StepFails
    <3>7. QED
      BY <3>6 DEF Service!Next
  <2>5. QED
    BY <1>a, <1>7, <2>3, <2>4 DEF WorkerAppend, Snapshots
<1>8. ASSUME NEW w \in Workflows, WorkerFinish(w)
      PROVE  Service!Complete
  <2>1. /\ UNCHANGED <<workflow_id, snapshot, asked, freer, dry_run>>
        /\ freer # "freed" /\ thread[w] = "run" /\ thread'[w] = "tail"
        /\ state' = "COMPLETED"
    BY <1>8 DEF WorkerFinish, FinalState, TypeOK, WorkerTypeOK
  <2>2. w = workflow_id /\ state = "RUNNING"
    BY <2>1 DEF SlotInv, OneWorkflow, Live
  <2>3. servicePhase = "executing"
    BY <2>1, <2>2, PhaseIs DEF Executing
  <2>4. servicePhase' = "completed"
    BY <2>1 DEF servicePhase
  <2>5. serviceDry' = serviceDry
    BY <2>1, <2>2 DEF serviceDry
  <2>6. QED
    BY <2>1, <2>3, <2>4, <2>5 DEF Service!Complete
<1>9. ASSUME NEW w \in Workflows, WorkerExit(w)
      PROVE  UNCHANGED Service!vars
  <2>1. /\ UNCHANGED <<workflow_id, snapshot, asked, freer, dry_run, state>>
        /\ thread[w] = "tail" /\ thread'[w] = "exited"
        /\ \A v \in Workflows \ {w} : thread'[v] = thread[v]
    BY <1>9 DEF WorkerExit, TypeOK, WorkerTypeOK
  <2>2. Executing' = Executing
    BY <2>1 DEF Executing
  <2>3. workflow_id # 0 => workflow_id \in Workflows
    BY <1>a
  <2>4. serviceDry' = serviceDry
    BY <2>1, <2>3 DEF serviceDry
  <2>5. servicePhase' = servicePhase
    BY <2>1, <2>2 DEF servicePhase
  <2>6. QED
    BY <1>b, <2>1, <2>4, <2>5
<1>10. CASE GetStatus
  BY <1>10 DEF GetStatus, Service!vars, servicePhase, serviceDry, Executing
<1>11. CASE FreeTake
  <2>1. /\ UNCHANGED <<workflow_id, snapshot, asked, dry_run, state, thread>>
        /\ freer = "up" /\ freer' = "join"
    BY <1>11 DEF FreeTake
  <2>2. UNCHANGED <<servicePhase, serviceDry>>
    BY <2>1 DEF servicePhase, serviceDry, Executing
  <2>3. QED
    BY <1>b, <2>1, <2>2
<1>12. CASE FreeJoin
  <2>1. /\ UNCHANGED <<workflow_id, snapshot, asked, dry_run, state>>
        /\ freer = "join" /\ freer' = "freed"
        /\ \A v \in Workflows : thread'[v] # thread[v] =>
             thread[v] = "exited" /\ thread'[v] = "joined"
    BY <1>12 DEF FreeJoin, TypeOK, WorkerTypeOK, FreeTypeOK, Handles, NoHandle
  <2>2. servicePhase' = "stopped"
    BY <2>1 DEF servicePhase
  <2>3. servicePhase # "stopped"
    BY <1>a, <2>1, PhaseIs DEF States
  <2>4. workflow_id # 0 => workflow_id \in Workflows
    BY <1>a
  <2>5. serviceDry' = serviceDry
    BY <2>1, <2>4 DEF serviceDry
  <2>6. Service!Stop
    BY <2>1, <2>2, <2>3, <2>5 DEF Service!Stop
  <2>7. QED
    BY <2>6 DEF Service!Next
<1>13. CASE UNCHANGED vars
  BY <1>13 DEF vars, Service!vars, servicePhase, serviceDry, Executing
<1>14. QED
  BY <1>1, <1>2, <1>3, <1>4, <1>5, <1>6, <1>7, <1>8, <1>9, <1>10, <1>11,
     <1>12, <1>13
     DEF Next, Start, StartRest, StartBusy, Worker, Free, Exited, Service!Next

(* The manager, with its mutex and worker threads, is the one-at-a-time
   service of ShutdownService (shutdown.h:105-117). *)
THEOREM ManagerIsService == SafeSpec => Service!SafeSpec
<1>1. SafeSpec => [](TypeOK /\ SlotInv)
  BY AsyncTypeCorrect, SlotAlways, PTL
<1>2. QED
  BY <1>1, RefinesInit, RefinesNext, PTL DEF SafeSpec, Service!SafeSpec

-----------------------------------------------------------------------------
(* The automatic trigger.  Without the manual mode and without forward     *)
(* steps of the wall clock, the two ways out of the debounce that TLC      *)
(* shows, it fires only on a condition every check has found met for the   *)
(* configured delay.                                                       *)


(* The settings and clocks the theorem is about. *)
Undisturbed ==
  /\ \A c \in Configs : c.mode # "manual"
  /\ \A s \in ClockSteps : s <= 0

(* Ages stay ages when time passes. *)
LEMMA GrowIsAge ==
  ASSUME NEW a \in Ages, NEW n \in Nat
  PROVE  /\ Grow(a, n) \in Ages
         /\ a = NotMet <=> Grow(a, n) = NotMet
  BY TriggerAssumption DEF TriggerAssumption, Ages, NotMet, Grow, Cap

LEMMA GrowKeepsOrder ==
  ASSUME NEW a \in Ages, NEW b \in Ages, a # NotMet, b # NotMet, a <= b
  PROVE  Grow(a, 1) <= Grow(b, 1)
  BY TriggerAssumption DEF TriggerAssumption, Ages, NotMet, Grow, Cap

(* The ages are the part of the type invariant the debounce rests on. *)
AgesOK == cfg \in Configs /\ first_met \in Ages /\ held \in Ages

IInv == AgesOK /\ ArmedSinceHeld

LEMMA ObserveIsAge ==
  ASSUME AgesOK, Observe
  PROVE  /\ held' \in Ages
         /\ ConditionMet(cfg, data) => held' # NotMet
         /\ ConditionMet(cfg, data) /\ held # NotMet => held' = held
         /\ ConditionMet(cfg, data) /\ held = NotMet => held' = 0
  BY TriggerAssumption DEF TriggerAssumption, AgesOK, Observe, Ages, NotMet

LEMMA DebounceInit == TriggerInit => IInv
  BY TriggerAssumption
     DEF TriggerAssumption, TriggerInit, IInv, AgesOK, ArmedSinceHeld, Ages, NotMet

(* An armed trigger is younger than the condition it waits on: a check that
   finds the condition cleared disarms it, unless the mode is manual. *)
LEMMA DebounceStep ==
  ASSUME Undisturbed, IInv, [TriggerNext]_triggerVars
  PROVE  IInv'
<1> USE DEF IInv
<1>0. cfg.mode # "manual"
  BY DEF Undisturbed, AgesOK
<1>1. CASE CheckIdle
  <2>1. triggered /\ triggered' /\ UNCHANGED <<cfg, first_met>>
    BY <1>0, <1>1 DEF CheckIdle, Evaluating, AgesOK
  <2>2. held' \in Ages
    BY <1>1, ObserveIsAge DEF CheckIdle
  <2>3. QED
    BY <2>1, <2>2 DEF AgesOK, ArmedSinceHeld
<1>2. CASE CheckOnMains
  <2>1. first_met' = NotMet /\ cfg' = cfg
    BY <1>2 DEF CheckOnMains, Disarm
  <2>2. held' \in Ages
    BY <1>2, ObserveIsAge DEF CheckOnMains
  <2>3. QED
    BY <2>1, <2>2, TriggerAssumption
       DEF TriggerAssumption, AgesOK, ArmedSinceHeld, Ages, NotMet
<1>3. CASE CheckNotMet
  <2>1. first_met' = NotMet /\ cfg' = cfg
    BY <1>3 DEF CheckNotMet, Disarm
  <2>2. held' \in Ages
    BY <1>3, ObserveIsAge DEF CheckNotMet
  <2>3. QED
    BY <2>1, <2>2, TriggerAssumption
       DEF TriggerAssumption, AgesOK, ArmedSinceHeld, Ages, NotMet
<1>4. CASE CheckArms
  <2>1. first_met' = 0 /\ cfg' = cfg
    BY <1>4 DEF CheckArms
  <2>2. held' \in Ages /\ held' # NotMet
    BY <1>4, ObserveIsAge DEF CheckArms
  <2>3. QED
    BY <2>1, <2>2, TriggerAssumption
       DEF TriggerAssumption, AgesOK, ArmedSinceHeld, Ages, NotMet
<1>5. CASE CheckDebounces \/ CheckFires
  <2>1. /\ UNCHANGED <<cfg, first_met>>
        /\ ~triggered /\ first_met # NotMet /\ ConditionMet(cfg, data)
    BY <1>5 DEF CheckDebounces, CheckFires, Evaluating, DebounceOver
  <2>2. held # NotMet /\ first_met <= held
    BY <2>1 DEF ArmedSinceHeld
  <2>3. held' = held
    BY <1>5, <2>1, <2>2, ObserveIsAge DEF CheckDebounces, CheckFires
  <2>4. QED
    BY <2>1, <2>2, <2>3 DEF AgesOK, ArmedSinceHeld
<1>6. CASE Tick
  <2>1. /\ UNCHANGED <<cfg, triggered>>
        /\ first_met' = Grow(first_met, 1) /\ held' = Grow(held, 1)
    BY <1>6 DEF Tick
  <2>2. first_met' \in Ages /\ held' \in Ages
    BY <2>1, GrowIsAge DEF AgesOK
  <2>3. ASSUME ~triggered', first_met' # NotMet
        PROVE  held' # NotMet /\ first_met' <= held'
    <3>1. first_met # NotMet /\ ~triggered
      BY <2>1, <2>3, GrowIsAge DEF AgesOK
    <3>2. held # NotMet /\ first_met <= held
      BY <3>1 DEF ArmedSinceHeld
    <3>3. QED
      BY <2>1, <3>1, <3>2, GrowIsAge, GrowKeepsOrder DEF AgesOK
  <2>4. QED
    BY <2>1, <2>2, <2>3 DEF AgesOK, ArmedSinceHeld
<1>7. ASSUME NEW s \in ClockSteps, StepClock(s)
      PROVE  IInv'
  <2>1. /\ UNCHANGED <<cfg, triggered, held>>
        /\ first_met # NotMet /\ first_met + s >= 0
        /\ first_met' = Cap(first_met + s)
    BY <1>7 DEF StepClock
  <2>2. s \in Int /\ s <= 0
    BY TriggerAssumption DEF TriggerAssumption, Undisturbed
  <2>3. first_met' \in Ages /\ first_met' <= first_met
    BY <2>1, <2>2, TriggerAssumption
       DEF TriggerAssumption, Cap, Ages, NotMet, AgesOK
  <2>4. ASSUME ~triggered'
        PROVE  held' # NotMet /\ first_met' <= held'
    <3>1. held # NotMet /\ first_met <= held
      BY <2>1, <2>4 DEF ArmedSinceHeld
    <3>2. QED
      BY <2>1, <2>3, <3>1, TriggerAssumption
         DEF TriggerAssumption, Ages, NotMet, AgesOK
  <2>5. QED
    BY <2>1, <2>3, <2>4 DEF AgesOK, ArmedSinceHeld
<1>8. CASE UpsChanges \/ SetConfig \/ (\E kind \in ApiKinds : ApiStarts(kind))
           \/ WorkerLaunches \/ WorkerStepFails \/ WorkerDropped
           \/ WorkerCompletes
  <2>1. cfg' \in Configs /\ UNCHANGED <<first_met, triggered, held>>
    BY <1>8 DEF UpsChanges, SetConfig, ApiStarts, WorkerLaunches,
                WorkerStepFails, WorkerDropped, WorkerCompletes, AgesOK
  <2>2. QED
    BY <2>1 DEF AgesOK, ArmedSinceHeld
<1>9. CASE Restart
  BY <1>9, TriggerAssumption
     DEF TriggerAssumption, Restart, AgesOK, ArmedSinceHeld, Ages, NotMet
<1>10. CASE UNCHANGED triggerVars
  BY <1>10 DEF triggerVars, AgesOK, ArmedSinceHeld
<1>11. QED
  BY <1>1, <1>2, <1>3, <1>4, <1>5, <1>6, <1>7, <1>8, <1>9, <1>10
     DEF TriggerNext, Check

(* The only step that sets the latch finds the debounce over. *)
LEMMA FiresDebounced ==
  ASSUME IInv, [TriggerNext]_triggerVars, ~triggered, triggered'
  PROVE  ConditionMet(cfg, data) /\ held # NotMet /\ held >= cfg.delay
<1>1. CheckFires
  BY DEF TriggerNext, Check, CheckIdle, CheckOnMains, CheckNotMet, CheckArms,
         CheckDebounces, UpsChanges, SetConfig, Tick, StepClock, ApiStarts,
         WorkerLaunches, WorkerStepFails, WorkerDropped, WorkerCompletes,
         Restart, triggerVars
<1>2. ConditionMet(cfg, data) /\ first_met # NotMet /\ first_met >= cfg.delay
  BY <1>1 DEF CheckFires, DebounceOver
<1>3. held # NotMet /\ first_met <= held
  BY <1>2 DEF IInv, ArmedSinceHeld
<1>4. cfg.delay \in Int /\ first_met \in Int /\ held \in Int
  BY TriggerAssumption DEF TriggerAssumption, IInv, AgesOK, Ages, NotMet
<1>5. QED
  BY <1>2, <1>3, <1>4

(* An armed trigger is never older than the condition it waits on. *)
THEOREM ArmedSinceHeldAlways ==
  ASSUME Undisturbed PROVE TriggerSafeSpec => []ArmedSinceHeld
<1>1. TriggerSafeSpec => []IInv
  BY DebounceInit, DebounceStep, PTL DEF TriggerSafeSpec
<1>2. QED
  BY <1>1, PTL DEF IInv

(* No automatic shutdown without the configured debounce (shutdown.h:99-103),
   across restarts of the daemon and changes of the settings. *)
THEOREM TriggerAlwaysDebounced ==
  ASSUME Undisturbed PROVE TriggerSafeSpec => TriggerDebounced
<1>1. TriggerSafeSpec => []IInv
  BY DebounceInit, DebounceStep, PTL DEF TriggerSafeSpec
<1>2. IInv /\ [TriggerNext]_triggerVars =>
        [~triggered /\ triggered' =>
           ConditionMet(cfg, data) /\ held # NotMet /\ held >= cfg.delay]_triggerVars
  BY FiresDebounced
<1>3. QED
  BY <1>1, <1>2, PTL DEF TriggerSafeSpec, TriggerDebounced

(* Reachable states are well typed: a step of the poll thread, of time, of the
   operator or of the manager keeps every variable in its range. *)
LEMMA TypeInit == TriggerInit => TriggerTypeOK
<1>1. TriggerInit => /\ cfg \in Configs /\ data \in Readings
              /\ first_met = NotMet /\ held = NotMet /\ disturbances = 0
              /\ announced = "none"
              /\ triggered \in BOOLEAN /\ real_ran \in BOOLEAN
  BY DEF TriggerInit
<1>2. TriggerInit => /\ phase = "idle" /\ id = 0
              /\ dry \in BOOLEAN /\ failed \in BOOLEAN
  BY DEF TriggerInit, Mgr!Init
<1>3. /\ NotMet \in Ages /\ 0 \in 0..MaxDisturbances /\ 0 \in 0..MaxRequests
      /\ "idle" \in Mgr!Phases
  BY TriggerAssumption DEF TriggerAssumption, Ages, NotMet, Mgr!Phases
<1> QED
  BY <1>1, <1>2, <1>3 DEF TriggerTypeOK

LEMMA AcceptIsTyped ==
  ASSUME TriggerTypeOK, Mgr!Accept
  PROVE  /\ phase' \in Mgr!Phases /\ id' \in 0..MaxRequests
         /\ dry' \in BOOLEAN /\ failed' \in BOOLEAN
<1>1. phase' = "accepted" /\ id' = id + 1 /\ id < MaxRequests
  BY DEF Mgr!Accept
<1>2. dry' \in BOOLEAN /\ failed' \in BOOLEAN
  BY DEF Mgr!Accept
<1>3. phase' \in Mgr!Phases
  BY <1>1 DEF Mgr!Phases
<1>4. id' \in 0..MaxRequests
  BY <1>1, TriggerAssumption DEF TriggerAssumption, TriggerTypeOK
<1> QED
  BY <1>2, <1>3, <1>4

LEMMA TypeStep ==
  ASSUME TriggerTypeOK, [TriggerNext]_triggerVars
  PROVE  TriggerTypeOK'
<1>1. AgesOK
  BY DEF TriggerTypeOK, AgesOK
<1>2. NotMet \in Ages /\ 0 \in Ages
  BY TriggerAssumption DEF TriggerAssumption, Ages, NotMet
\* A check sets what it has observed, the trigger and, when it fires, the manager.
<1>3. CASE Check
  <2>1. held' \in Ages /\ UNCHANGED <<cfg, data, disturbances>>
    BY <1>1, <1>3, ObserveIsAge
       DEF Check, CheckIdle, CheckOnMains, CheckNotMet, CheckArms, CheckDebounces,
           CheckFires
  <2>2. first_met' \in Ages
    BY <1>1, <1>2, <1>3
       DEF Check, CheckIdle, CheckOnMains, CheckNotMet, CheckArms, CheckDebounces,
           CheckFires, Disarm, AgesOK
  <2>3. triggered' \in BOOLEAN /\ announced' \in {"none", "Armed", "Cleared"}
    BY <1>3
       DEF TriggerTypeOK, Check, CheckIdle, CheckOnMains, CheckNotMet, CheckArms,
           CheckDebounces, CheckFires, Cleared
  <2>4. real_ran' \in BOOLEAN
    BY <1>3
       DEF TriggerTypeOK, Check, CheckIdle, CheckOnMains, CheckNotMet, CheckArms,
           CheckDebounces, CheckFires
  <2>5. /\ phase' \in Mgr!Phases /\ id' \in 0..MaxRequests
        /\ dry' \in BOOLEAN /\ failed' \in BOOLEAN
    BY <1>3, AcceptIsTyped
       DEF TriggerTypeOK, Check, CheckIdle, CheckOnMains, CheckNotMet, CheckArms,
           CheckDebounces, CheckFires, StartReal, serviceVars
  <2> QED
    BY <2>1, <2>2, <2>3, <2>4, <2>5 DEF TriggerTypeOK
<1>4. CASE UpsChanges \/ SetConfig
  BY <1>4 DEF UpsChanges, SetConfig, TriggerTypeOK, serviceVars
<1>5. CASE Tick
  <2>1. first_met' \in Ages /\ held' \in Ages
    BY <1>1, <1>5, GrowIsAge DEF Tick, AgesOK
  <2> QED
    BY <1>5, <2>1 DEF Tick, TriggerTypeOK, serviceVars
<1>6. ASSUME NEW s \in ClockSteps, StepClock(s) PROVE TriggerTypeOK'
  <2>1. first_met' \in Ages
    BY <1>6, TriggerAssumption
       DEF TriggerAssumption, TriggerTypeOK, StepClock, Cap, Ages, NotMet
  <2>2. disturbances' \in 0..MaxDisturbances
    BY <1>6, TriggerAssumption DEF TriggerAssumption, TriggerTypeOK, StepClock
  <2> QED
    BY <1>6, <2>1, <2>2 DEF StepClock, TriggerTypeOK, serviceVars
<1>7. ASSUME NEW kind \in ApiKinds, ApiStarts(kind) PROVE TriggerTypeOK'
  BY <1>7, AcceptIsTyped DEF ApiStarts, TriggerTypeOK
<1>8. CASE WorkerLaunches \/ WorkerStepFails \/ WorkerDropped \/ WorkerCompletes
  BY <1>8
     DEF WorkerLaunches, WorkerStepFails, WorkerDropped, WorkerCompletes, TriggerTypeOK,
         Mgr!Launch, Mgr!StepFails, Mgr!Drop, Mgr!Complete, Mgr!Phases
<1>9. CASE Restart
  <2>1. disturbances' \in 0..MaxDisturbances
    BY <1>9, TriggerAssumption DEF TriggerAssumption, TriggerTypeOK, Restart
  <2>2. phase' \in Mgr!Phases /\ id' \in 0..MaxRequests
    BY <1>9, TriggerAssumption DEF TriggerAssumption, Restart, Mgr!Phases
  <2>3. /\ triggered' \in BOOLEAN /\ dry' \in BOOLEAN /\ failed' \in BOOLEAN
        /\ real_ran' \in BOOLEAN
    BY <1>9 DEF Restart
  <2> QED
    BY <1>2, <1>9, <2>1, <2>2, <2>3 DEF Restart, TriggerTypeOK
<1>10. CASE UNCHANGED triggerVars
  BY <1>10 DEF triggerVars, serviceVars, TriggerTypeOK
<1> QED
  BY <1>3, <1>4, <1>5, <1>6, <1>7, <1>8, <1>9, <1>10 DEF TriggerNext

(* For any settings, readings and clock steps, manual mode included, an age is
   between 0 and MaxAge or not there, and the numbers of workflows stay bounded. *)
THEOREM TriggerTypeCorrect == TriggerSafeSpec => []TriggerTypeOK
  BY TypeInit, TypeStep, PTL DEF TriggerSafeSpec
==============================================================================
