---------------------------- MODULE ScanJobsProofs ----------------------------
(***************************************************************************)
(* The safety properties of ScanJobs, proved for any finite set of jobs,   *)
(* any managers, any concurrency and any number of crashes.                *)
(***************************************************************************)
EXTENDS ScanJobs, FiniteSetTheorems, TLAPS

(***************************************************************************)
(* The inductive invariant.                                                *)
(***************************************************************************)

(* A graph is in the database before its success is written.               *)
SavedFirst ==
  \A j \in Jobs : status[j] = "succeeded" \/ pc[j] = "reporting" => j \in stored

(* A task in the making has no row; a living one has a manager that is     *)
(* ready to run it.                                                        *)
Owned ==
  \A j \in Jobs :
    /\ pc[j] \in {"none", "creating"} => status[j] = "absent"
    /\ pc[j] \in Alive => owner[j] \in Managers /\ phase[owner[j]] = "ready"

(* A manager's semaphore bounds the tasks that hold one of its slots.      *)
Bounded == \A m \in Managers : Cardinality(Holders(m)) <= MaxConcurrency

(* Alone does not survive a second constructor that fails; that no second  *)
(* manager came out of its constructor does.                               *)
OneReady ==
  \A m, n \in Managers : phase[m] = "ready" /\ phase[n] = "ready" => m = n

(* A task and its row agree, unless a second manager has recovered rows.   *)
Agree ==
  OneReady => \A j \in Jobs :
    /\ pc[j] \in {"created", "waiting", "starting"} => status[j] = "queued"
    /\ pc[j] \in {"building", "saving", "reporting"} => status[j] = "running"
    /\ pc[j] = "failing" => status[j] \in {"running", "succeeded"}

IInv == /\ TypeOK /\ SavedFirst /\ Owned /\ Bounded /\ Agree
        /\ ShownJobsAreAlive

(***************************************************************************)
(* Lemmas about the holders of a slot.                                     *)
(***************************************************************************)

(* The jobs that hold a slot are finitely many.                            *)
LEMMA HoldersFinite ==
  \A m : IsFiniteSet(Holders(m)) /\ Cardinality(Holders(m)) \in Nat
<1> TAKE m
<1>1. Holders(m) \in SUBSET Jobs
  BY DEF Holders
<1>2. IsFiniteSet(Holders(m))
  BY <1>1, FS_Subset, FiniteAssumption
<1> QED
  BY <1>2, FS_CardinalityType

(* Letting slots go keeps to the bound.                                    *)
LEMMA FewerHolders ==
  ASSUME Bounded, \A m \in Managers : Holders(m)' \subseteq Holders(m)
  PROVE  Bounded'
<1> SUFFICES ASSUME NEW m \in Managers
             PROVE  Cardinality(Holders(m)') <= MaxConcurrency
  BY DEF Bounded
<1>1. Cardinality(Holders(m)) \in Nat /\ Cardinality(Holders(m)) <= MaxConcurrency
  BY HoldersFinite DEF Bounded
<1>2. /\ IsFiniteSet(Holders(m)')
      /\ Cardinality(Holders(m)') <= Cardinality(Holders(m))
  BY HoldersFinite, FS_Subset
<1>3. Cardinality(Holders(m)') \in Nat
  BY <1>2, FS_CardinalityType
<1> QED
  BY <1>1, <1>2, <1>3, ConcurrencyAssumption

(***************************************************************************)
(* The initial states and the steps.                                       *)
(***************************************************************************)

(* The service starts without jobs or managers.                            *)
LEMMA InitInv == Init => IInv
<1> SUFFICES ASSUME Init PROVE IInv
  OBVIOUS
<1>1. TypeOK
  BY BoundsAssumption DEF Init, TypeOK
<1>2. Bounded
  <2> SUFFICES ASSUME NEW m \in Managers
               PROVE  Cardinality(Holders(m)) <= MaxConcurrency
    BY DEF Bounded
  <2>1. Holders(m) = {}
    BY DEF Init, Holders, Held
  <2> QED
    BY <2>1, FS_EmptySet, ConcurrencyAssumption
<1>3. SavedFirst /\ Owned /\ Agree /\ ShownJobsAreAlive
  BY DEF Init, SavedFirst, Owned, Agree, ShownJobsAreAlive, Alive, Held
<1> QED
  BY <1>1, <1>2, <1>3 DEF IInv

(* A step of one job within its life: its row follows its task, and it     *)
(* takes no slot that it did not have.                                     *)
LEMMA JobStep ==
  ASSUME IInv, NEW j \in Jobs, NEW next, NEW s,
         pc[j] \in Alive \ {"waiting", "creating"},
         pc' = [pc EXCEPT ![j] = next],
         status' = [status EXCEPT ![j] = s],
         UNCHANGED <<managers, owner, crashes>>,
         stored \subseteq stored', stored' \subseteq Jobs,
         next \in (Alive \ {"creating"}) \cup {"done", "abandoned"},
         s \in {"absent"} \cup Unsettled \cup Terminal,
         next \in Held => pc[j] \in Held,
         s = "succeeded" \/ next = "reporting" => j \in stored',
         s \in Unsettled => next # "done",
         OneReady =>
           /\ next \in {"created", "waiting", "starting"} => s = "queued"
           /\ next \in {"building", "saving", "reporting"} => s = "running"
           /\ next = "failing" => s \in {"running", "succeeded"}
  PROVE  IInv'
<1> USE DEF IInv, managers
<1>1. TypeOK'
  BY DEF TypeOK
<1>2. SavedFirst'
  BY DEF TypeOK, SavedFirst
<1>3. Owned'
  BY DEF TypeOK, Owned, Alive, Held
<1>4. Bounded'
  <2>1. \A m \in Managers : Holders(m)' \subseteq Holders(m)
    BY DEF TypeOK, Holders
  <2> QED
    BY <2>1, FewerHolders
<1>5. Agree'
  BY DEF TypeOK, Agree, OneReady
<1>6. ShownJobsAreAlive'
  BY DEF TypeOK, ShownJobsAreAlive
<1> QED
  BY <1>1, <1>2, <1>3, <1>4, <1>5, <1>6

(* The steps of a task, but for taking a slot.                             *)
LEMMA TaskStep ==
  ASSUME IInv, NEW j \in Jobs,
         \/ Spawn(j) \/ MarkRunning(j) \/ Build(j) \/ Save(j)
         \/ MarkSucceeded(j) \/ MarkFailed(j)
  PROVE  IInv'
<1> USE DEF IInv, rows, GoTo, Alive, Held
<1>1. status[j] \in {"absent"} \cup Unsettled \cup Terminal /\ stored \subseteq Jobs
  BY DEF TypeOK
<1>2. status = [status EXCEPT ![j] = status[j]]
  BY DEF TypeOK
<1>3. CASE Spawn(j)
  <2>1. /\ pc[j] = "created" /\ pc' = [pc EXCEPT ![j] = "waiting"]
        /\ status' = [status EXCEPT ![j] = status[j]]
        /\ UNCHANGED <<stored, managers, owner, crashes>>
    BY <1>2, <1>3 DEF Spawn
  <2> QED
    BY <1>1, <2>1, JobStep DEF Agree, SavedFirst
<1>4. CASE MarkRunning(j)
  <2>1. pc[j] = "starting" /\ UNCHANGED <<stored, managers, owner, crashes>>
    BY <1>4 DEF MarkRunning
  <2>2. PICK s \in {status[j], "running"}, next \in {"building", "abandoned"} :
           /\ status' = [status EXCEPT ![j] = s] /\ pc' = [pc EXCEPT ![j] = next]
           /\ next = "building" => s = "running"
    BY <1>2, <1>4 DEF MarkRunning, Update
  <2> QED
    BY <1>1, <2>1, <2>2, JobStep DEF SavedFirst, Unsettled
<1>5. CASE Build(j)
  <2>1. /\ pc[j] = "building"
        /\ status' = [status EXCEPT ![j] = status[j]]
        /\ UNCHANGED <<stored, managers, owner, crashes>>
    BY <1>2, <1>5 DEF Build
  <2>2. PICK next \in {"saving", "failing"} : pc' = [pc EXCEPT ![j] = next]
    BY <1>5 DEF Build
  <2> QED
    BY <1>1, <2>1, <2>2, JobStep DEF Agree, SavedFirst
<1>6. CASE Save(j)
  <2>1. /\ pc[j] = "saving"
        /\ status' = [status EXCEPT ![j] = status[j]]
        /\ UNCHANGED <<managers, owner, crashes>>
    BY <1>2, <1>6 DEF Save
  <2>2. PICK next \in {"reporting", "failing"} :
          /\ pc' = [pc EXCEPT ![j] = next]
          /\ stored \subseteq stored' /\ stored' \subseteq Jobs
          /\ next = "reporting" => j \in stored'
    BY <1>1, <1>6 DEF Save
  <2> QED
    BY <1>1, <2>1, <2>2, JobStep DEF Agree, SavedFirst
<1>7. CASE MarkSucceeded(j)
  <2>1. pc[j] = "reporting" /\ UNCHANGED <<stored, managers, owner, crashes>>
    BY <1>7 DEF MarkSucceeded
  <2>2. PICK s \in {status[j], "succeeded"}, next \in {"done", "failing"} :
           /\ status' = [status EXCEPT ![j] = s] /\ pc' = [pc EXCEPT ![j] = next]
           /\ next = "done" => s = "succeeded"
    BY <1>2, <1>7 DEF MarkSucceeded, Update
  <2>3. j \in stored /\ (OneReady => status[j] = "running")
    BY <2>1 DEF SavedFirst, Agree
  <2> QED
    BY <1>1, <2>1, <2>2, <2>3, JobStep DEF Unsettled, Terminal
<1>8. CASE MarkFailed(j)
  <2>1. pc[j] = "failing" /\ UNCHANGED <<stored, managers, owner, crashes>>
    BY <1>8 DEF MarkFailed
  <2>2. PICK s \in {status[j], "failed"}, next \in {"done", "abandoned"} :
           /\ status' = [status EXCEPT ![j] = s] /\ pc' = [pc EXCEPT ![j] = next]
           /\ next = "done" => s = "failed"
    BY <1>2, <1>8 DEF MarkFailed, Update
  <2> QED
    BY <1>1, <2>1, <2>2, JobStep DEF SavedFirst, Unsettled, Terminal
<1> QED
  BY <1>3, <1>4, <1>5, <1>6, <1>7, <1>8

(* A request begins, and writes its job's row or fails to.                 *)
LEMMA RequestStep ==
  ASSUME IInv, NEW j \in Jobs,
         CreateRow(j) \/ \E m \in Managers : Submit(j, m)
  PROVE  IInv'
<1> USE DEF IInv, rows, managers, GoTo
<1>1. /\ pc[j] \in {"none", "creating"} /\ status[j] = "absent"
      /\ pc' \in [Jobs -> Alive \cup {"none", "done", "abandoned", "killed"}]
      /\ pc'[j] \in {"creating", "created", "done"}
      /\ pc'[j] \in Alive => owner'[j] \in Managers /\ phase'[owner'[j]] = "ready"
      /\ status'[j] = IF pc'[j] = "created" THEN "queued" ELSE "absent"
      /\ \A k \in Jobs \ {j} : /\ pc'[k] = pc[k] /\ status'[k] = status[k]
                               /\ owner'[k] = owner[k]
      /\ owner' \in [Jobs -> Managers \cup {NoManager}]
      /\ UNCHANGED <<stored, phase, cached, crashes>>
  BY DEF TypeOK, Owned, CreateRow, Submit, Alive, Held
<1>2. TypeOK'
  <2>1. status' \in [Jobs -> {"absent"} \cup Unsettled \cup Terminal]
    BY DEF TypeOK, CreateRow, Submit, Unsettled
  <2> QED
    BY <1>1, <2>1 DEF TypeOK
<1>3. SavedFirst' /\ Owned'
  BY <1>1 DEF SavedFirst, Owned
<1>4. Bounded'
  <2>1. \A m \in Managers : Holders(m)' \subseteq Holders(m)
    BY <1>1 DEF Holders, Held
  <2> QED
    BY <2>1, FewerHolders
<1>5. Agree' /\ ShownJobsAreAlive'
  BY <1>1 DEF Agree, OneReady, ShownJobsAreAlive, Unsettled, Alive
<1> QED
  BY <1>2, <1>3, <1>4, <1>5

(* A task takes a slot of its manager, and there is one.                   *)
LEMMA AcquireStep ==
  ASSUME IInv, NEW j \in Jobs, Acquire(j)
  PROVE  IInv'
<1> USE DEF IInv, Acquire, rows, managers, GoTo
<1>1. pc[j] = "waiting" /\ pc' = [pc EXCEPT ![j] = "starting"]
  OBVIOUS
<1>2. TypeOK'
  BY DEF TypeOK, Alive, Held
<1>3. SavedFirst' /\ Owned'
  BY DEF TypeOK, SavedFirst, Owned, Alive, Held
<1>4. Bounded'
  <2> SUFFICES ASSUME NEW m \in Managers
               PROVE  Cardinality(Holders(m)') <= MaxConcurrency
    BY DEF Bounded
  <2>1. CASE m = owner[j]
    <3>1. Holders(m)' = Holders(m) \cup {j} /\ j \notin Holders(m)
      BY <2>1 DEF Holders, TypeOK, Held
    <3>2. Cardinality(Holders(m)') = Cardinality(Holders(m)) + 1
      BY <3>1, HoldersFinite, FS_AddElement
    <3>3. Cardinality(Holders(m)) \in Nat /\ Cardinality(Holders(m)) < MaxConcurrency
      BY <2>1, HoldersFinite
    <3> QED
      BY <3>2, <3>3, ConcurrencyAssumption
  <2>2. CASE m # owner[j]
    <3>1. Holders(m)' = Holders(m)
      BY <2>2 DEF Holders, TypeOK
    <3> QED
      BY <3>1 DEF Bounded
  <2> QED
    BY <2>1, <2>2
<1>5. Agree' /\ ShownJobsAreAlive'
  BY DEF TypeOK, Agree, OneReady, ShownJobsAreAlive, Alive, Held
<1> QED
  BY <1>2, <1>3, <1>4, <1>5

(* A manager that begins to be built, or whose constructor fails, has not  *)
(* been given a job.                                                       *)
LEMMA ConstructStep ==
  ASSUME IInv, NEW m \in Managers, Construct(m) \/ ConstructFails(m)
  PROVE  IInv'
<1> USE DEF IInv, rows
<1>1. /\ phase[m] # "ready" /\ phase'[m] # "ready"
      /\ phase' \in [Managers -> {"absent", "constructing", "ready"}]
      /\ \A n \in Managers \ {m} : phase'[n] = phase[n]
      /\ UNCHANGED <<rows, cached, owner, pc, crashes>>
  BY DEF TypeOK, Construct, ConstructFails
<1>2. TypeOK' /\ SavedFirst' /\ Owned'
  BY <1>1 DEF TypeOK, SavedFirst, Owned
<1>3. Bounded'
  <2>1. \A n \in Managers : Holders(n)' \subseteq Holders(n)
    BY <1>1 DEF Holders
  <2> QED
    BY <2>1, FewerHolders
<1>4. Agree' /\ ShownJobsAreAlive'
  BY <1>1 DEF Agree, OneReady, ShownJobsAreAlive
<1> QED
  BY <1>2, <1>3, <1>4

(* A constructor ends the rows that claim to be alive.  The first manager  *)
(* to be ready finds no task of this run; a second one does.               *)
LEMMA RecoverStep ==
  ASSUME IInv, NEW m \in Managers, Recover(m)
  PROVE  IInv'
<1> USE DEF IInv, Recover
<1>1. TypeOK'
  BY DEF TypeOK, Terminal
<1>2. SavedFirst'
  BY DEF TypeOK, SavedFirst
<1>3. Owned'
  BY DEF TypeOK, Owned, Unsettled
<1>4. Bounded'
  <2>1. \A n \in Managers : Holders(n)' \subseteq Holders(n)
    BY DEF Holders
  <2> QED
    BY <2>1, FewerHolders
<1>5. Agree'
  <2> SUFFICES ASSUME OneReady', NEW j \in Jobs PROVE pc[j] \notin Alive
    BY DEF Agree, Alive, Held
  <2> SUFFICES ASSUME pc[j] \in Alive PROVE FALSE
    OBVIOUS
  <2>1. owner[j] \in Managers /\ phase[owner[j]] = "ready" /\ owner[j] # m
    BY DEF Owned
  <2>2. phase'[owner[j]] = "ready" /\ phase'[m] = "ready"
    BY <2>1 DEF TypeOK
  <2> QED
    BY <2>1, <2>2 DEF OneReady
<1>6. ShownJobsAreAlive'
  BY DEF ShownJobsAreAlive, Unsettled, TypeOK
<1> QED
  BY <1>1, <1>2, <1>3, <1>4, <1>5, <1>6

(* After a crash no task is left, and no manager.                          *)
LEMMA CrashStep ==
  ASSUME IInv, Crash
  PROVE  IInv'
<1> USE DEF IInv, Crash, rows
<1>1. TypeOK'
  BY BoundsAssumption DEF TypeOK
<1>2. \A j \in Jobs : pc'[j] \notin Alive /\ (pc'[j] = pc[j] \/ pc'[j] = "killed")
  BY DEF Alive, Held
<1>3. SavedFirst' /\ Owned'
  BY <1>2 DEF SavedFirst, Owned, Alive, Held
<1>4. Bounded'
  <2>1. \A m \in Managers : Holders(m)' \subseteq Holders(m)
    BY <1>2 DEF Holders, Alive
  <2> QED
    BY <2>1, FewerHolders
<1>5. Agree' /\ ShownJobsAreAlive'
  BY <1>2 DEF Agree, ShownJobsAreAlive, Alive, Held
<1> QED
  BY <1>1, <1>3, <1>4, <1>5

(* Every step preserves the invariant.                                     *)
LEMMA StepInv == IInv /\ [Next]_vars => IInv'
<1> SUFFICES ASSUME IInv, [Next]_vars PROVE IInv'
  OBVIOUS
<1>1. CASE Crash
  BY <1>1, CrashStep
<1>2. CASE \E m \in Managers : Construct(m) \/ Recover(m) \/ ConstructFails(m)
  BY <1>2, ConstructStep, RecoverStep
<1>3. CASE \E j \in Jobs : Step(j) \/ \E m \in Managers : Submit(j, m)
  BY <1>3, TaskStep, RequestStep, AcquireStep DEF Step
<1>4. CASE UNCHANGED vars
  <2> USE <1>4 DEF IInv, vars, rows, managers
  <2>1. TypeOK' /\ SavedFirst' /\ Owned'
    BY DEF TypeOK, SavedFirst, Owned
  <2>2. Bounded'
    BY FewerHolders DEF Holders
  <2>3. Agree' /\ ShownJobsAreAlive'
    BY DEF Agree, OneReady, ShownJobsAreAlive
  <2> QED
    BY <2>1, <2>2, <2>3
<1> QED
  BY <1>1, <1>2, <1>3, <1>4 DEF Next

(* The invariant holds in every reachable state.                           *)
LEMMA Invariance == Spec => []IInv
<1> QED
  BY InitInv, StepInv, PTL DEF Spec

(***************************************************************************)
(* The theorems.                                                           *)
(***************************************************************************)

(* The variables hold values of their types.                               *)
THEOREM TypeCorrect == Spec => []TypeOK
<1>1. IInv => TypeOK
  BY DEF IInv
<1> QED
  BY <1>1, Invariance, PTL

(* A job whose row says succeeded has its graph in the database, whatever  *)
(* write fails and wherever the service stops (_execute).                  *)
THEOREM SuccessIsReal == Spec => []SuccessHasGraph
<1>1. IInv => SuccessHasGraph
  BY DEF IInv, SavedFirst, SuccessHasGraph
<1> QED
  BY <1>1, Invariance, PTL

(* Once a manager serves requests, a row that says queued or running has a *)
(* task behind it or is the one its own failed write left behind.          *)
THEOREM ShownJobsLive == Spec => []ShownJobsAreAlive
<1>1. IInv => ShownJobsAreAlive
  BY DEF IInv
<1> QED
  BY <1>1, Invariance, PTL

(* While one manager is alone no task works on a job whose row says that   *)
(* it is over, and the semaphore bounds the tasks at work.                 *)
THEOREM TasksAgree == Spec => []TasksMatchRows
<1>1. IInv => TasksMatchRows
  <2> SUFFICES ASSUME IInv, Alone
               PROVE  /\ \A j \in Jobs :
                           /\ pc[j] \in {"created", "waiting", "starting"} =>
                                status[j] = "queued"
                           /\ pc[j] \in {"building", "saving", "reporting"} =>
                                status[j] = "running"
                      /\ Cardinality({j \in Jobs : pc[j] \in Held}) <= MaxConcurrency
    BY DEF TasksMatchRows
  <2> DEFINE Slots == {j \in Jobs : pc[j] \in Held}
  <2>1. OneReady
    BY DEF Alone, OneReady
  <2>2. Cardinality(Slots) <= MaxConcurrency
    <3>1. CASE Slots = {}
      BY <3>1, FS_EmptySet, ConcurrencyAssumption
    <3>2. CASE Slots # {}
      <4> PICK j \in Jobs : pc[j] \in Held
        BY <3>2
      <4> DEFINE m == owner[j]
      <4>1. m \in Managers /\ phase[m] = "ready"
        BY DEF IInv, Owned, Alive
      <4>2. Slots = Holders(m)
        BY <2>1, <4>1 DEF IInv, Owned, Alive, Holders, OneReady
      <4> QED
        BY <4>1, <4>2 DEF IInv, Bounded
    <3> QED
      BY <3>1, <3>2
  <2>3. \A j \in Jobs :
          /\ pc[j] \in {"created", "waiting", "starting"} => status[j] = "queued"
          /\ pc[j] \in {"building", "saving", "reporting"} => status[j] = "running"
    BY <2>1 DEF IInv, Agree
  <2> QED
    BY <2>2, <2>3
<1> QED
  BY <1>1, Invariance, PTL

(* While one manager is alone a terminal status is the last one, but for a *)
(* success that was written and could not be read back.                    *)
THEOREM TerminalStays == Spec => TerminalIsFinal
<1> DEFINE Final(j) == \/ status'[j] = status[j]
                       \/ status[j] = "succeeded" /\ pc[j] = "failing"
                            /\ status'[j] = "failed"
<1>1. IInv /\ [Next]_vars =>
        [Alone => \A j \in Jobs : status[j] \in Terminal => Final(j)]_vars
  <2> SUFFICES ASSUME IInv, [Next]_vars, Alone, NEW j \in Jobs,
                      status[j] \in Terminal
               PROVE  Final(j)
    OBVIOUS
  <2>1. OneReady
    BY DEF Alone, OneReady
  <2>2. pc[j] \in Held \cup {"created", "waiting"} =>
          pc[j] = "failing" /\ status[j] = "succeeded"
    BY <2>1 DEF IInv, Agree, Held, Terminal
  <2>3. pc[j] # "creating"
    BY DEF IInv, Owned, Terminal
  <2>4. ASSUME NEW k \in Jobs, Step(k) PROVE Final(j)
    <3>1. CASE k # j
      BY <2>4, <3>1 DEF IInv, TypeOK, Step, CreateRow, Spawn, Acquire, MarkRunning,
                        Build, Save, MarkSucceeded, MarkFailed, Update, rows
    <3>2. CASE k = j
      BY <2>2, <2>3, <2>4, <3>2
         DEF IInv, TypeOK, Step, CreateRow, Spawn, Acquire, MarkRunning, Build,
             Save, MarkSucceeded, MarkFailed, Update, rows, Held
    <3> QED
      BY <3>1, <3>2
  <2>5. ASSUME NEW m \in Managers, Recover(m) PROVE Final(j)
    BY <2>5 DEF Recover, Unsettled, Terminal
  <2>6. \/ \E k \in Jobs : Step(k)
        \/ \E m \in Managers : Recover(m)
        \/ UNCHANGED rows
    BY DEF Next, vars, Crash, Construct, ConstructFails, Submit
  <2> QED
    BY <2>4, <2>5, <2>6 DEF rows
<1> QED
  BY <1>1, Invariance, PTL DEF Spec, TerminalIsFinal
=============================================================================
