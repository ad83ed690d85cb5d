--------------------------- MODULE ShutdownService ---------------------------
(***************************************************************************)
(* What the shutdown manager promises the threads that use it              *)
(* (src/src/shutdown/shutdown.h, "Async workflow"): requests are numbered, *)
(* one at a time is served, the workflow that runs is the kind (dry or     *)
(* real) that was asked for, and every accepted request ends.              *)
(*                                                                         *)
(* ShutdownAsync implements this with a mutex, a worker thread per request *)
(* and four critical sections.                                             *)
(***************************************************************************)
EXTENDS Naturals

CONSTANT MaxWorkflows   \* bound on the requests accepted in one behaviour

VARIABLES
  phase,   \* where the manager is with the latest request
  id,      \* number of the latest accepted request, 0 before any
  dry,     \* the kind the latest request was accepted, or is executed, with
  failed   \* has a step of the latest request been published as failed

vars == <<phase, id, dry, failed>>

Phases == {"idle", "accepted", "executing", "completed", "stopped"}

Init ==
  /\ phase = "idle"
  /\ id = 0
  /\ dry = FALSE
  /\ failed = FALSE

\* A request is taken only when no other is being served.
Accept ==
  /\ phase \in {"idle", "completed"}
  /\ id < MaxWorkflows
  /\ phase' = "accepted"
  /\ id' = id + 1
  /\ dry' \in BOOLEAN
  /\ failed' = FALSE

\* No thread could be had for it: the request is dropped.
Drop ==
  /\ phase = "accepted"
  /\ phase' = "idle"
  /\ UNCHANGED <<id, dry, failed>>

\* Execution begins, with the kind the request was accepted with.
Launch ==
  /\ phase = "accepted"
  /\ phase' = "executing"
  /\ UNCHANGED <<id, dry, failed>>

\* A step has failed.  Failures are never forgotten while the request lasts.
StepFails ==
  /\ phase = "executing"
  /\ failed' = TRUE
  /\ UNCHANGED <<phase, id, dry>>

Complete ==
  /\ phase = "executing"
  /\ phase' = "completed"
  /\ UNCHANGED <<id, dry, failed>>

\* The daemon ends.
Stop ==
  /\ phase # "stopped"
  /\ phase' = "stopped"
  /\ UNCHANGED <<id, dry, failed>>

Next == Accept \/ Drop \/ Launch \/ StepFails \/ Complete \/ Stop

\* An accepted request is launched or dropped, and what is launched ends,
\* unless the daemon ends first.
Fairness ==
  /\ WF_vars(Drop \/ Launch \/ (phase = "accepted" /\ Stop))
  /\ WF_vars(Complete \/ (phase = "executing" /\ Stop))

SafeSpec == Init /\ [][Next]_vars
Spec == SafeSpec /\ Fairness

==============================================================================
