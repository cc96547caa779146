------------------------------- MODULE ScanJobs -------------------------------
(***************************************************************************)
(* Background lineage scans (services/scan_job_service.py), their rows in  *)
(* SQLite (repositories/lineage_repository.py) and the cached dependency   *)
(* that builds their manager (api/dependencies/lineage.py).                *)
(*                                                                         *)
(* The rows survive a crash; tasks and managers do not.  The manager is    *)
(* built on first use, in a worker thread, under lru_cache, which does not *)
(* keep two requests from building one each: a Managers set of one element *)
(* is the service whose first requests do not overlap.  Every access to    *)
(* the database may fail (disk full, lock timeout).                        *)
(***************************************************************************)
EXTENDS Integers, FiniteSets

CONSTANTS
  Jobs,            \* the scans that may be requested
  Managers,        \* the managers that may be built in one service run
  NoManager,       \* none
  MaxConcurrency,  \* the slots of a manager's semaphore
  MaxCrashes       \* bound of the number of crashes

ASSUME ManagersAssumption == NoManager \notin Managers
ASSUME FiniteAssumption == IsFiniteSet(Jobs)
ASSUME ConcurrencyAssumption == MaxConcurrency \in Nat \ {0}
ASSUME BoundsAssumption == MaxCrashes \in Nat

VARIABLES
  status,    \* status[j]: its row's status, "absent" without a row
  stored,    \* the jobs whose graph version is in the database
  phase,     \* phase[m]: "absent", "constructing" or "ready"
  cached,    \* the manager lru_cache returns, or NoManager
  owner,     \* owner[j]: the manager that runs j, or NoManager
  pc,        \* pc[j]: where the request's handler, then the task, stands
  crashes    \* crashes so far

rows == <<status, stored>>
managers == <<phase, cached>>
vars == <<rows, managers, owner, pc, crashes>>

Held == {"starting", "building", "saving", "reporting", "failing"}
Alive == Held \cup {"creating", "created", "waiting"}
Unsettled == {"queued", "running"}
Terminal == {"succeeded", "failed", "interrupted"}
Holders(m) == {j \in Jobs : owner[j] = m /\ pc[j] \in Held}
(* No second manager has been started since the service was.               *)
Alone == \A m, n \in Managers : phase[m] # "absent" /\ phase[n] # "absent" => m = n

Init ==
  /\ status = [j \in Jobs |-> "absent"]
  /\ stored = {}
  /\ phase = [m \in Managers |-> "absent"]
  /\ cached = NoManager
  /\ owner = [j \in Jobs |-> NoManager]
  /\ pc = [j \in Jobs |-> "none"]
  /\ crashes = 0

(***************************************************************************)
(* The manager.                                                            *)
(***************************************************************************)

(* A request misses the cache and begins to build a manager.               *)
Construct(m) ==
  /\ cached = NoManager
  /\ phase[m] = "absent"
  /\ phase' = [phase EXCEPT ![m] = "constructing"]
  /\ UNCHANGED <<rows, cached, owner, pc, crashes>>

(* Mistaken variants, each the slip its name tells, stand before the       *)
(* operator they falsify here and below; no specification uses them.       *)
RecoverQueuedOnly(m) ==
  /\ phase[m] = "constructing"
  /\ status' = [j \in Jobs |-> IF status[j] = "queued"
                               THEN "interrupted" ELSE status[j]]
  /\ phase' = [phase EXCEPT ![m] = "ready"]
  /\ cached' = IF cached = NoManager THEN m ELSE cached
  /\ UNCHANGED <<stored, owner, pc, crashes>>

RecoverEverything(m) ==
  /\ phase[m] = "constructing"
  /\ status' = [j \in Jobs |-> IF status[j] # "absent"
                               THEN "interrupted" ELSE status[j]]
  /\ phase' = [phase EXCEPT ![m] = "ready"]
  /\ cached' = IF cached = NoManager THEN m ELSE cached
  /\ UNCHANGED <<stored, owner, pc, crashes>>

(* Its constructor ends with fail_interrupted_jobs; lru_cache keeps the    *)
(* first manager that comes back.                                          *)
Recover(m) ==
  /\ phase[m] = "constructing"
  /\ status' = [j \in Jobs |-> IF status[j] \in Unsettled
                               THEN "interrupted" ELSE status[j]]
  /\ phase' = [phase EXCEPT ![m] = "ready"]
  /\ cached' = IF cached = NoManager THEN m ELSE cached
  /\ UNCHANGED <<stored, owner, pc, crashes>>

(* fail_interrupted_jobs raises: no manager, and nothing is cached.        *)
ConstructFails(m) ==
  /\ phase[m] = "constructing"
  /\ phase' = [phase EXCEPT ![m] = "absent"]
  /\ UNCHANGED <<rows, cached, owner, pc, crashes>>

(***************************************************************************)
(* submit and submit_live.                                                 *)
(***************************************************************************)
GoTo(j, next) == pc' = [pc EXCEPT ![j] = next]

(* A request uses the cached manager, or the one that it built itself.     *)
Submit(j, m) ==
  /\ pc[j] = "none"
  /\ phase[m] = "ready"
  /\ m = cached \/ \A k \in Jobs : owner[k] # m
  /\ owner' = [owner EXCEPT ![j] = m]
  /\ GoTo(j, "creating")
  /\ UNCHANGED <<rows, managers, crashes>>

CreateRow(j) ==
  /\ pc[j] = "creating"
  /\ \/ /\ status' = [status EXCEPT ![j] = "queued"]
        /\ GoTo(j, "created")
     \/ /\ UNCHANGED status
        /\ GoTo(j, "done")
  /\ UNCHANGED <<stored, managers, owner, crashes>>

Spawn(j) ==
  /\ pc[j] = "created"
  /\ GoTo(j, "waiting")
  /\ UNCHANGED <<rows, managers, owner, crashes>>

(***************************************************************************)
(* _execute and _execute_live.                                             *)
(***************************************************************************)

(* update_job: it writes the row and then reads it back, and either may    *)
(* fail: an update that raised may still have been made.                   *)
Update(j, s, next, raised) ==
  \/ status' = [status EXCEPT ![j] = s] /\ (GoTo(j, next) \/ GoTo(j, raised))
  \/ UNCHANGED status /\ GoTo(j, raised)

Acquire(j) ==
  /\ pc[j] = "waiting"
  /\ Cardinality(Holders(owner[j])) < MaxConcurrency
  /\ GoTo(j, "starting")
  /\ UNCHANGED <<rows, managers, owner, crashes>>

MarkRunningUnchecked(j) ==
  /\ pc[j] = "starting"
  /\ Update(j, "running", "building", "building")
  /\ UNCHANGED <<stored, managers, owner, crashes>>

(* This update is outside the try: if it raises, the task ends and the row *)
(* is left behind.                                                         *)
MarkRunning(j) ==
  /\ pc[j] = "starting"
  /\ Update(j, "running", "building", "abandoned")
  /\ UNCHANGED <<stored, managers, owner, crashes>>

(* Build the graph and validate it.                                        *)
Build(j) ==
  /\ pc[j] = "building"
  /\ GoTo(j, "saving") \/ GoTo(j, "failing")
  /\ UNCHANGED <<rows, managers, owner, crashes>>

SaveUnchecked(j) ==
  /\ pc[j] = "saving"
  /\ stored' = stored \cup {j} \/ UNCHANGED stored
  /\ GoTo(j, "reporting")
  /\ UNCHANGED <<status, managers, owner, crashes>>

Save(j) ==
  /\ pc[j] = "saving"
  /\ \/ stored' = stored \cup {j} /\ GoTo(j, "reporting")
     \/ UNCHANGED stored /\ GoTo(j, "failing")
  /\ UNCHANGED <<status, managers, owner, crashes>>

MarkSucceededOutsideTry(j) ==
  /\ pc[j] = "reporting"
  /\ Update(j, "succeeded", "done", "done")
  /\ UNCHANGED <<stored, managers, owner, crashes>>

MarkSucceeded(j) ==
  /\ pc[j] = "reporting"
  /\ Update(j, "succeeded", "done", "failing")
  /\ UNCHANGED <<stored, managers, owner, crashes>>

MarkFailed(j) ==
  /\ pc[j] = "failing"
  /\ Update(j, "failed", "done", "abandoned")
  /\ UNCHANGED <<stored, managers, owner, crashes>>

(* The process ends, whatever it was doing, and starts again.              *)
Crash ==
  /\ crashes < MaxCrashes
  /\ crashes' = crashes + 1
  /\ phase' = [m \in Managers |-> "absent"]
  /\ cached' = NoManager
  /\ owner' = [j \in Jobs |-> NoManager]
  /\ pc' = [j \in Jobs |-> IF pc[j] \in Alive THEN "killed" ELSE pc[j]]
  /\ UNCHANGED rows

Step(j) ==
  \/ CreateRow(j) \/ Spawn(j) \/ Acquire(j) \/ MarkRunning(j) \/ Build(j)
  \/ Save(j) \/ MarkSucceeded(j) \/ MarkFailed(j)

Next ==
  \/ Crash
  \/ \E m \in Managers : Construct(m) \/ Recover(m) \/ ConstructFails(m)
  \/ \E j \in Jobs : Step(j) \/ \E m \in Managers : Submit(j, m)

Spec == Init /\ [][Next]_vars

(* The event loop runs every ready task, the semaphore wakes its waiters   *)
(* in order and every await ends; nobody is bound to send a request.       *)
FairSpec == Spec /\ \A j \in Jobs : WF_vars(Step(j))

(***************************************************************************)
(* Properties.                                                             *)
(***************************************************************************)

(* The variables hold values of their types.                               *)
TypeOK ==
  /\ status \in [Jobs -> {"absent"} \cup Unsettled \cup Terminal]
  /\ stored \subseteq Jobs
  /\ phase \in [Managers -> {"absent", "constructing", "ready"}]
  /\ cached \in Managers \cup {NoManager}
  /\ owner \in [Jobs -> Managers \cup {NoManager}]
  /\ pc \in [Jobs -> Alive \cup {"none", "done", "abandoned", "killed"}]
  /\ crashes \in 0..MaxCrashes

(* Whatever fails and wherever the service stops, a job reported as        *)
(* succeeded has its graph in the database.                                *)
SuccessHasGraph == \A j \in Jobs : status[j] = "succeeded" => j \in stored

(* "Interrupted-job recovery": once a manager serves requests, a job shown *)
(* as queued or running has a task behind it.  The one exception is a job  *)
(* whose own status write failed.                                          *)
ShownJobsAreAlive ==
  cached # NoManager =>
    \A j \in Jobs : status[j] \in Unsettled => pc[j] \in Alive \cup {"abandoned"}

(* A task and its row agree while one manager is alone: no task works on a *)
(* job that a client has been told is over, and no more jobs are shown as  *)
(* running with a task behind them than "bounded asynchronous jobs" allow. *)
TasksMatchRows ==
  Alone =>
    /\ \A j \in Jobs :
         /\ pc[j] \in {"created", "waiting", "starting"} => status[j] = "queued"
         /\ pc[j] \in {"building", "saving", "reporting"} => status[j] = "running"
    /\ Cardinality({j \in Jobs : pc[j] \in Held}) <= MaxConcurrency

(* While one manager is alone a terminal status is the last one, and a     *)
(* poller may stop when it sees it; except that a job whose success was    *)
(* written but could not be read back becomes a failed one.                *)
TerminalIsFinal ==
  [][Alone => \A j \in Jobs : status[j] \in Terminal =>
       \/ status'[j] = status[j]
       \/ status[j] = "succeeded" /\ pc[j] = "failing" /\ status'[j] = "failed"]_vars

(* A job the client asked for is settled in the end, unless the write of   *)
(* its status failed or the service stopped.                               *)
JobsSettle ==
  \A j \in Jobs : status[j] \in Unsettled ~>
    (status[j] \in Terminal \/ pc[j] \in {"abandoned", "killed"})

(* lineage_repository.py: a job is interrupted with the message "The       *)
(* service stopped before the scan completed."                             *)
InterruptedMeansStopped ==
  \A j \in Jobs : status[j] = "interrupted" => pc[j] \notin Alive
=============================================================================
