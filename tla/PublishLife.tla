----------------------------- MODULE PublishLife -----------------------------
(***************************************************************************)
(* Publish implements Publication, for every instance, as long as nobody   *)
(* unpublishes: a status is written, and services and connection are made, *)
(* after what it says of the build and the deployment was there.           *)
(***************************************************************************)
EXTENDS PublishAlone

\* Where the monitor has found the build of its work complete.
FoundBuilt == {"built", "deploy", "deploying", "serve", "connect", "running"}

\* What it has found still holds.
Looked == pc \in FoundBuilt => builds[cur] = "complete"

\* A virtualization that is or will be rolled out has a complete build.
BuiltFor(d) == \E w \in Works : dvOf[w] = d /\ builds[w] = "complete"
Rolled == \A d \in DVs : dc[d] # "none" \/ due[d] => BuiltFor(d)

\* A build is made for a task, and a task that has not made its build finds none.
Unbuilt ==
  /\ \A i \in 1..Len(taskQueue) : builds[taskQueue[i].work] = "none"
  /\ \A t \in PoolThreads : Runs(t, "configure", "create") => builds[thread[t].work] = "none"

\* A publish has no build before it is configured; what is deployed is built.
BuiltInTime(w) ==
  /\ status[w] \in {"UNUSED", "SUBMITTED"} => builds[w] = "none"
  /\ status[w] = "DEPLOYING" => builds[w] = "complete"

Life == Looked /\ Rolled /\ Unbuilt /\ \A w \in Works : BuiltInTime(w)

LifeInv == AloneInv /\ (Undisturbed => Life)

-----------------------------------------------------------------------------
(* The invariant.                                                          *)

\* The works that tasks and the monitor have.
LEMMA WorksAtHand ==
  ASSUME MonitorInv, Alone
  PROVE  /\ \A i \in 1..Len(taskQueue) : taskQueue[i].work \in Works
         /\ \A t \in PoolThreads : thread[t] # NoTask => thread[t].work \in Works
         /\ pc # "idle" => cur \in Works /\ dvOf[cur] \in DVs
  <1>1. /\ \A i \in 1..Len(taskQueue) : taskQueue[i] \in Task
        /\ \A t \in PoolThreads : thread[t] # NoTask => thread[t] \in Task
    BY DEF MonitorInv, TypeOK
  <1>2. QED
    BY <1>1, TaskStages, AtHand DEF Alone

\* A step that makes no build and starts no task.
LEMMA LifeKept ==
  ASSUME MonitorInv, Alone, Life,
         \A w \in Works : builds'[w] = builds[w] \/ builds[w] = "running",
         \A d \in DVs : dc'[d] # "none" \/ due'[d] => dc[d] # "none" \/ due[d] \/ BuiltFor(d)',
         dvOf' = dvOf,
         taskQueue' = taskQueue \/ taskQueue' = <<>>,
         \A t \in PoolThreads : thread'[t] = thread[t] \/ thread'[t] = NoTask,
         \A w \in Works : /\ status'[w] \in {"UNUSED", "SUBMITTED"} =>
                               status[w] \in {"UNUSED", "SUBMITTED"}
                          /\ status'[w] = "DEPLOYING" =>
                               status[w] = "DEPLOYING" \/ builds[w] = "complete",
         pc' # "idle" => pc' = "sleep" \/ cur' = cur,
         pc' \in FoundBuilt => pc # "idle" /\ builds[cur] = "complete"
  PROVE  Life'
  <1>1. Looked'
    <2>1. pc' \in FoundBuilt => cur' = cur /\ cur \in Works
      BY WorksAtHand DEF FoundBuilt
    <2>2. QED
      BY <2>1 DEF Looked
  <1>5. Rolled'
    <2>1. \A d \in DVs : BuiltFor(d) => BuiltFor(d)'
      BY DEF BuiltFor
    <2>2. QED
      BY <2>1 DEF Life, Rolled
  <1>2. Unbuilt'
    BY WorksAtHand DEF Life, Unbuilt, Runs, NoTask
  <1>3. ASSUME NEW w \in Works PROVE BuiltInTime(w)'
    BY DEF Life, BuiltInTime
  <1>4. QED
    BY <1>1, <1>2, <1>3, <1>5 DEF Life

LEMMA RestLife ==
  ASSUME MonitorInv, Alone, Life, Undisturbed, Undisturbed',
         NEW r \in Publishers \cup Unpublishers, Rest(r)
  PROVE  Life'
  <1> USE DEF workVars, monVars, poolVars, shiftVars
  <1>1. ASSUME NEW d \in DVs, PublishRead(r, d) PROVE Life'
    BY <1>1, LifeKept DEF PublishRead, Life, Looked, FoundBuilt
  <1>2. ASSUME NEW v \in Works, PublishEnqueue(r, v) PROVE Life'
    <2>1. /\ status[v] = "UNUSED" /\ status'[v] = "SUBMITTED"
          /\ \A w \in Works \ {v} : status'[w] = status[w] /\ dvOf'[w] = dvOf[w]
          /\ UNCHANGED <<cur, pc, taskQueue, thread, builds, dc, due>>
      BY <1>2 DEF PublishEnqueue, Fresh, MonitorInv, TypeOK
    <2>2. pc # "idle" => cur \in Works \ {v}
      BY <2>1 DEF MonitorInv, CurOK, Known, Exists
    <2>3. Looked'
      BY <2>1, <2>2 DEF Life, Looked, FoundBuilt
    <2>7. Rolled'
      <3>1. builds[v] = "none"
        BY <2>1 DEF Life, BuiltInTime
      <3>2. \A d \in DVs : BuiltFor(d) => BuiltFor(d)'
        BY <2>1, <3>1 DEF BuiltFor
      <3>3. QED
        BY <2>1, <3>2 DEF Life, Rolled
    <2>4. Unbuilt'
      BY <2>1 DEF Life, Unbuilt, Runs
    <2>5. ASSUME NEW w \in Works PROVE BuiltInTime(w)'
      BY <2>1 DEF Life, BuiltInTime
    <2>6. QED
      BY <2>3, <2>4, <2>5, <2>7 DEF Life
  <1>3. QED
    BY <1>1, <1>2, RestAlone

\* The monitor hands a work over that has no build yet.
LEMMA ConfigureLife ==
  ASSUME MonitorInv, Alone, Life, MonitorConfigure
  PROVE  Life'
  <1>1. /\ cur \in Works /\ status[cur] = "SUBMITTED" /\ builds[cur] = "none"
        /\ pc' = "finally"
        /\ taskQueue' = Append(taskQueue, ConfigureTask(cur))
        /\ status' = [status EXCEPT ![cur] = "CONFIGURING"]
        /\ UNCHANGED <<thread, builds, dc, due, dvOf>>
    BY WorksAtHand DEF MonitorConfigure, Resubmit, Alone, Stage, Life, BuiltInTime, shiftVars
  <1>2. Unbuilt'
    <2>1. taskQueue \in Seq(Task) /\ ConfigureTask(cur).work = cur
      BY DEF MonitorInv, TypeOK, ConfigureTask
    <2>2. /\ Len(taskQueue') = Len(taskQueue) + 1 /\ Len(taskQueue) \in Nat
          /\ taskQueue'[Len(taskQueue) + 1] = ConfigureTask(cur)
          /\ \A i \in 1..Len(taskQueue) : taskQueue'[i] = taskQueue[i]
      BY <1>1, <2>1
    <2>3. QED
      BY <1>1, <2>1, <2>2 DEF Life, Unbuilt, Runs
  <1>3. ASSUME NEW w \in Works PROVE BuiltInTime(w)'
    BY <1>1 DEF Life, BuiltInTime, MonitorInv, TypeOK
  <1>4. QED
    BY <1>1, <1>2, <1>3 DEF Life, Looked, FoundBuilt, Rolled, BuiltFor

LEMMA MonitorLife ==
  ASSUME MonitorInv, Alone, Life, Monitor
  PROVE  Life'
  <1>1. CASE MonitorConfigure
    BY <1>1, ConfigureLife
  <1>2. CASE ~MonitorConfigure
    <2> USE DEF workVars, poolVars, shiftVars
    <2>1. UNCHANGED <<builds, dvOf, thread>>
      BY <1>2 DEF Monitor, MonitorTake, MonitorAwaitDelete, MonitorRetryDelete, MonitorDeleted,
          MonitorEnded, MonitorProceed, MonitorRedelete, MonitorPublish, MonitorBuild, MonitorBuilt,
          MonitorDeployment, MonitorCreateDC, MonitorDeploying, MonitorServe, MonitorConnect,
          MonitorRunning, MonitorThrows, MonitorConnectUnsaved, MonitorDeployingThrows,
          MonitorFinally
    <2>2. ~MonitorRetryDelete /\ taskQueue' = taskQueue
      <3>1. pc = "sleep" => status[cur] \notin DeleteStatus
        BY WorksAtHand DEF Alone, Course, AtWork, DeleteStatus
      <3>2. QED
        BY <1>2, <3>1 DEF Monitor, MonitorTake, MonitorAwaitDelete, MonitorRetryDelete,
          MonitorDeleted, MonitorEnded, MonitorProceed, MonitorRedelete, MonitorPublish,
          MonitorBuild, MonitorBuilt, MonitorDeployment, MonitorCreateDC, MonitorDeploying, MonitorServe,
          MonitorConnect, MonitorRunning, MonitorThrows, MonitorConnectUnsaved,
          MonitorDeployingThrows, MonitorFinally, DeleteStatus
    <2>3. \A d \in DVs : dc'[d] # "none" \/ due'[d] => dc[d] # "none" \/ due[d] \/ BuiltFor(d)'
      <3>1. CASE MonitorCreateDC \/ MonitorDeploying
        <4>1. /\ cur \in Works /\ builds'[cur] = "complete" /\ dvOf' = dvOf
              /\ \A d \in DVs \ {dvOf[cur]} : dc'[d] = dc[d] /\ due'[d] = due[d]
          BY <2>1, <3>1, WorksAtHand
          DEF MonitorCreateDC, MonitorDeploying, Life, Looked, FoundBuilt, MonitorInv, TypeOK
        <4>2. QED
          BY <4>1 DEF BuiltFor
      <3>2. CASE ~(MonitorCreateDC \/ MonitorDeploying)
        BY <1>2, <3>2
        DEF Monitor, MonitorTake, MonitorAwaitDelete, MonitorRetryDelete, MonitorDeleted,
          MonitorEnded, MonitorProceed, MonitorRedelete, MonitorPublish, MonitorBuild, MonitorBuilt,
          MonitorDeployment, MonitorServe, MonitorConnect, MonitorRunning, MonitorThrows,
          MonitorConnectUnsaved, MonitorDeployingThrows, MonitorFinally
      <3>3. QED
        BY <3>1, <3>2
    <2>4. /\ pc' # "idle" => pc' = "sleep" \/ cur' = cur
          /\ pc' \in FoundBuilt => pc # "idle"
      BY MonitorMoves DEF MonitorTake, MonitorFinally, FoundBuilt
    <2>5. pc' \in FoundBuilt => builds[cur] = "complete"
      BY <1>2
      DEF Monitor, MonitorTake, MonitorAwaitDelete, MonitorRetryDelete, MonitorDeleted,
          MonitorEnded, MonitorProceed, MonitorRedelete, MonitorPublish, MonitorBuild, MonitorBuilt,
          MonitorDeployment, MonitorCreateDC, MonitorDeploying, MonitorServe, MonitorConnect,
          MonitorRunning, MonitorThrows, MonitorConnectUnsaved, MonitorDeployingThrows,
          MonitorFinally, Resubmit, Phase, Life, Looked, FoundBuilt
    <2>6. \/ status' = status
          \/ /\ pc \in {"build", "built", "redelete", "running"}
             /\ \E s \in {"FAILED", "CANCELLED", "RUNNING", "DELETE_SUBMITTED"} :
                  status' = [status EXCEPT ![cur] = s]
          \/ pc = "deploying" /\ status' = [status EXCEPT ![cur] = "DEPLOYING"]
      BY <1>2
      DEF Monitor, MonitorTake, MonitorAwaitDelete, MonitorRetryDelete, MonitorDeleted,
          MonitorEnded, MonitorProceed, MonitorRedelete, MonitorPublish, MonitorBuild, MonitorBuilt,
          MonitorDeployment, MonitorCreateDC, MonitorDeploying, MonitorServe, MonitorConnect,
          MonitorRunning, MonitorThrows, MonitorConnectUnsaved, MonitorDeployingThrows,
          MonitorFinally
    <2>7. \A w \in Works : /\ status'[w] \in {"UNUSED", "SUBMITTED"} =>
                                status[w] \in {"UNUSED", "SUBMITTED"}
                           /\ status'[w] = "DEPLOYING" =>
                                status[w] = "DEPLOYING" \/ builds[w] = "complete"
      BY <2>6 DEF Life, Looked, FoundBuilt, MonitorInv, TypeOK
    <2>8. QED
      BY <2>1, <2>2, <2>3, <2>4, <2>5, <2>7, LifeKept
  <1>3. QED
    BY <1>1, <1>2

LEMMA PoolLife ==
  ASSUME MonitorInv, OnceInv, Alone, Life, NEW t \in PoolThreads, PoolStep(t)
  PROVE  Life'
  <1> USE DEF workVars, monVars, shiftVars
  <1>a. Stage /\ Tasks
    BY DEF Alone
  <1>b. thread[t].kind \in {"configure", "delete"} =>
          /\ thread[t] # NoTask /\ thread[t].kind = "configure" /\ thread[t].work \in Works
          /\ status[thread[t].work] = "CONFIGURING"
    BY <1>a, WorksAtHand DEF Tasks, NoTask
  <1>c. \A u \in PoolThreads : thread[u] \in Task \cup {NoTask}
    BY DEF MonitorInv, TypeOK
  <1>1. CASE TaskTake(t)
    <2>1. /\ taskQueue' = Tail(taskQueue) /\ taskQueue \in Seq(Task) /\ taskQueue # <<>>
          /\ \A u \in PoolThreads : thread'[u] = IF u = t THEN taskQueue[1] ELSE thread[u]
          /\ UNCHANGED <<workVars, monVars, builds, dc, due>>
      BY <1>1 DEF TaskTake, MonitorInv, TypeOK
    <2>2. /\ \A i \in 1..Len(taskQueue') : /\ i + 1 \in 1..Len(taskQueue)
                                           /\ taskQueue'[i] = taskQueue[i + 1]
          /\ 1 \in 1..Len(taskQueue)
      BY <2>1
    <2>3. Unbuilt'
      BY <2>1, <2>2 DEF Life, Unbuilt, Runs
    <2>4. QED
      BY <2>1, <2>3 DEF Life, Looked, Rolled, BuiltFor, BuiltInTime
  <1>2. CASE ConfigureCreate(t)
    <2> DEFINE v == thread[t].work
    <2>1. /\ v \in Works /\ status[v] = "CONFIGURING" /\ builds[v] = "none"
          /\ thread[t].kind = "configure" /\ thread[t] \in Task
      BY <1>2, <1>b, <1>c DEF ConfigureCreate, Runs, Life, Unbuilt
    <2>2. /\ \A w \in Works \ {v} : builds'[w] = builds[w]
          /\ UNCHANGED <<workVars, monVars, taskQueue, dc, due>>
      BY <1>2 DEF ConfigureCreate, MonitorInv, TypeOK
    <2>3. /\ ~Runs(t, "configure", "create")'
          /\ \A u \in PoolThreads \ {t} : thread'[u] = thread[u]
      BY <1>2, <2>1 DEF ConfigureCreate, Goto, Runs, MonitorInv, TypeOK, Task
    <2>4. t \in RunningConfigure(v)
      BY <2>1 DEF RunningConfigure
    <2>5. QueuedConfigure(v) = {} /\ RunningConfigure(v) \subseteq {t}
      BY <2>1, <2>4 DEF OnceInv, ConfiguredOnce
    <2>6. \A i \in 1..Len(taskQueue) : taskQueue[i].work # v
      BY <1>a, <2>5 DEF QueuedConfigure, Tasks
    <2>7. \A u \in PoolThreads \ {t} : thread[u].kind = "configure" => thread[u].work # v
      BY <2>5 DEF RunningConfigure
    <2>8. Unbuilt'
      <3>1. \A i \in 1..Len(taskQueue') : builds'[taskQueue'[i].work] = "none"
        BY <2>2, <2>6, WorksAtHand DEF Life, Unbuilt
      <3>2. ASSUME NEW u \in PoolThreads, Runs(u, "configure", "create")'
            PROVE  builds'[thread'[u].work] = "none"
        <4>1. u # t /\ thread'[u] = thread[u] /\ Runs(u, "configure", "create")
          BY <2>3, <3>2 DEF Runs
        <4>2. thread[u].work \in Works \ {v}
          BY <2>7, <4>1, WorksAtHand DEF Runs, NoTask
        <4>3. QED
          BY <2>2, <4>1, <4>2 DEF Life, Unbuilt
      <3>3. QED
        BY <3>1, <3>2 DEF Unbuilt
    <2>9. Looked'
      <3>1. pc \in FoundBuilt => cur # v /\ cur \in Works
        BY <2>1, WorksAtHand DEF Life, Looked, FoundBuilt
      <3>2. QED
        BY <2>2, <3>1 DEF Life, Looked
    <2>10. ASSUME NEW w \in Works PROVE BuiltInTime(w)'
      BY <2>1, <2>2 DEF Life, BuiltInTime
    <2>12. Rolled'
      BY <2>1, <2>2 DEF Life, Rolled, BuiltFor
    <2>11. QED
      BY <2>8, <2>9, <2>10, <2>12 DEF Life
  <1>3. CASE ConfigureFinish(t) \/ ConfigureFails(t)
    <2>1. \A u \in PoolThreads : thread'[u] = thread[u] \/ thread'[u] = NoTask
      BY <1>3 DEF ConfigureFinish, ConfigureFails, Ends, MonitorInv, TypeOK
    <2>2. \A w \in Works : status'[w] = status[w] \/ status'[w] \in {"BUILDING", "FAILED"}
      BY <1>3 DEF ConfigureFinish, ConfigureFails, MonitorInv, TypeOK
    <2>3. UNCHANGED <<builds, dc, due, dvOf, taskQueue, pc, cur>>
      BY <1>3 DEF ConfigureFinish, ConfigureFails
    <2>4. QED
      BY <2>1, <2>2, <2>3, LifeKept DEF Life, Looked, FoundBuilt
  <1>4. CASE DeleteGroup(t) \/ DeleteGroupFails(t) \/ DeleteThrows(t) \/ DeleteFinish(t)
    BY <1>4, <1>b DEF DeleteGroup, DeleteGroupFails, DeleteThrows, DeleteFinish, Runs
  <1>5. QED
    BY <1>1, <1>2, <1>3, <1>4 DEF PoolStep

LEMMA LifeNext ==
  ASSUME MonitorInv, OnceInv, Alone, Life, [Next]_vars, Undisturbed, Undisturbed'
  PROVE  Life'
  <1> USE DEF workVars, monVars, poolVars, shiftVars
  <1>1. ASSUME NEW w \in Works, BuildEnds(w) PROVE Life'
    <2>1. \A x \in Works : builds'[x] = builds[x] \/ builds[x] = "running"
      BY <1>1 DEF BuildEnds, MonitorInv, TypeOK
    <2>2. \A d \in DVs : due'[d] => due[d] \/ BuiltFor(d)'
      BY <1>1 DEF BuildEnds, BuiltFor, MonitorInv, TypeOK
    <2>3. UNCHANGED <<workVars, monVars, poolVars, dc>>
      BY <1>1 DEF BuildEnds
    <2>4. QED
      BY <2>1, <2>2, <2>3, LifeKept DEF Life, Looked, FoundBuilt
  <1>7. ASSUME NEW w \in Works, Integrate(w) PROVE Life'
    BY <1>7, LifeKept DEF Integrate, Life, Looked, FoundBuilt
  <1>2. ASSUME NEW d \in DVs, RolloutStarts(d) \/ RolloutEnds(d) \/ DropDV(d) \/ CreateDV(d) PROVE Life'
    <2>1. \A x \in DVs : dc'[x] # "none" \/ due'[x] => dc[x] # "none" \/ due[x]
      BY <1>2 DEF RolloutStarts, RolloutEnds, DropDV, CreateDV, MonitorInv, TypeOK
    <2>2. UNCHANGED <<workVars, monVars, poolVars, builds>>
      BY <1>2 DEF RolloutStarts, RolloutEnds, DropDV, CreateDV
    <2>3. QED
      BY <2>1, <2>2, LifeKept DEF Life, Looked, FoundBuilt
  <1>3. CASE Restart
    BY <1>3, LifeKept DEF Restart, FoundBuilt
  <1>4. CASE UNCHANGED vars
    BY <1>4, LifeKept DEF vars, Life, Looked, FoundBuilt
  <1>5. QED
    BY <1>1, <1>2, <1>3, <1>4, <1>7, RestLife, MonitorLife, PoolLife DEF Next, OpenShift

LEMMA LifeInvariant == Spec => []LifeInv
  <1>1. Init => Life
    BY DEF Init, Life, Looked, FoundBuilt, Rolled, Unbuilt, BuiltInTime, Runs, NoTask
  <1>2. AloneInv /\ (Undisturbed => Life) /\ [Next]_vars => (Undisturbed => Life)'
    BY LifeNext, StillUndisturbed DEF AloneInv, MonitorInv
  <1>3. QED
    BY <1>1, <1>2, AloneInvariant, PTL DEF Spec, LifeInv

-----------------------------------------------------------------------------
(* The steps.                                                              *)

\* A step that Publication does not see.
LEMMA Unseen ==
  ASSUME UNCHANGED <<status, dvOf, builds, dc, services, connections, dvs, sourceId>>,
         \A w \in Works : FoundReady(w)' <=> FoundReady(w)
  PROVE  UNCHANGED Abstract!pvars
  <1>1. UNCHANGED PhaseOf
    BY DEF PhaseOf
  <1>2. QED
    BY <1>1 DEF Abstract!pvars, Abstract!cluster, Abstract!syndesis

\* A step that changes one phase.
LEMMA OnePhase ==
  ASSUME NEW v \in Works, NEW x,
         \A w \in Works \ {v} : status'[w] = status[w] /\ (FoundReady(w)' <=> FoundReady(w)),
         x = IF FoundReady(v)' THEN "READY" ELSE status'[v]
  PROVE  PhaseOf' = [PhaseOf EXCEPT ![v] = x]
  BY DEF PhaseOf

\* Only a deployment is found ready.
LEMMA ReadyDeploys ==
  ASSUME Alone, NEW w \in Works
  PROVE  PhaseOf[w] = status[w] \/ (PhaseOf[w] = "READY" /\ status[w] = "DEPLOYING" /\ FoundReady(w))
  BY DEF PhaseOf, FoundReady, Alone, Stage

LEMMA RestPromised ==
  ASSUME MonitorInv, Alone, Undisturbed, Undisturbed',
         NEW r \in Publishers \cup Unpublishers, Rest(r)
  PROVE  [Abstract!Next]_(Abstract!pvars)
  <1> USE DEF workVars, shiftVars, synVars
  <1>1. ASSUME NEW d \in DVs, PublishRead(r, d) PROVE UNCHANGED Abstract!pvars
    BY <1>1, Unseen DEF PublishRead, FoundReady, monVars
  <1>2. ASSUME NEW w \in Works, PublishEnqueue(r, w) PROVE Abstract!Next
    <2>1. request[r].dv \in DVs
      BY <1>2 DEF PublishEnqueue, MonitorInv, TypeOK, Request
    <2>2. status[w] = "UNUSED" /\ status' = [status EXCEPT ![w] = "SUBMITTED"]
          /\ UNCHANGED <<cur, pc>>
      BY <1>2 DEF PublishEnqueue, Fresh
    <2>3. PhaseOf[w] = "UNUSED" /\ ~FoundReady(w)
      BY <2>2, ReadyDeploys DEF PhaseOf
    <2>4. PhaseOf' = [PhaseOf EXCEPT ![w] = "SUBMITTED"]
      BY <2>2, <2>3, OnePhase DEF FoundReady, MonitorInv, TypeOK
    <2>5. Abstract!Ask(w, request[r].dv)
      BY <1>2, <2>3, <2>4 DEF PublishEnqueue, Abstract!Ask, Abstract!cluster, Abstract!syndesis
    <2>6. QED
      BY <2>1, <2>5 DEF Abstract!Publish, Abstract!Next
  <1>3. QED
    BY <1>1, <1>2, RestAlone

LEMMA MonitorPromised ==
  ASSUME MonitorInv, Alone, Life, Monitor
  PROVE  [Abstract!Next]_(Abstract!pvars)
  <1> USE DEF workVars, shiftVars, synVars, Abstract!cluster, Abstract!syndesis
  <1>a. pc # "idle" => cur \in Works /\ dvOf[cur] \in DVs
    BY WorksAtHand
  <1>b. pc \notin {"idle", "finally"} =>
          /\ Course(cur)
          /\ \/ status[cur] \in {"SUBMITTED", "CONFIGURING", "BUILDING", "DEPLOYING"}
             \/ status[cur] = "FAILED" /\ ~named[cur]
    BY <1>a DEF Alone, AtWork, Course
  <1>c. Stage /\ Looked /\ (pc # "idle" => BuiltInTime(cur))
    BY <1>a DEF Alone, Life
  <1>d. Abstract!Publish(cur) /\ pc # "idle" => Abstract!Next
    BY <1>a DEF Abstract!Next
  <1>e. pc # "idle" => /\ PhaseOf[cur] = IF FoundReady(cur) THEN "READY" ELSE status[cur]
                       /\ FoundReady(cur) <=> pc \in {"serve", "connect", "running"}
    BY <1>a DEF PhaseOf, FoundReady
  <1>f. ASSUME pc # "idle", cur' = cur, NEW x, x = IF FoundReady(cur)' THEN "READY" ELSE status'[cur],
               \A w \in Works \ {cur} : status'[w] = status[w]
        PROVE  PhaseOf' = [PhaseOf EXCEPT ![cur] = x]
    BY <1>a, <1>f, OnePhase DEF FoundReady
  <1>1. CASE MonitorTake \/ MonitorEnded \/ MonitorProceed \/ MonitorPublish
             \/ MonitorBuilt \/ MonitorFinally
    <2>1. \A w \in Works : FoundReady(w)' <=> FoundReady(w)
      BY <1>1 DEF MonitorTake, MonitorEnded, MonitorProceed, MonitorPublish, MonitorBuilt,
                  MonitorFinally, FoundReady, Resubmit
    <2>2. QED
      BY <1>1, <2>1, Unseen
      DEF MonitorTake, MonitorEnded, MonitorProceed, MonitorPublish, MonitorBuilt, MonitorFinally
  <1>2. CASE MonitorAwaitDelete \/ MonitorRetryDelete \/ MonitorDeleted \/ MonitorRedelete
    BY <1>2, <1>b, <1>c DEF MonitorAwaitDelete, MonitorRetryDelete, MonitorDeleted,
                            MonitorRedelete, Stage
  <1>3. CASE MonitorConfigure
    <2>1. pc = "configure" /\ status[cur] = "SUBMITTED" /\ pc' = "finally"
      BY <1>3, <1>c DEF MonitorConfigure, Stage, Resubmit
    <2>2. PhaseOf[cur] = "SUBMITTED" /\ PhaseOf' = [PhaseOf EXCEPT ![cur] = "CONFIGURING"]
      BY <1>3, <1>a, <1>e, <1>f, <2>1 DEF MonitorConfigure, FoundReady, MonitorInv, TypeOK
    <2>3. Abstract!Configure(cur)
      BY <1>3, <2>2 DEF MonitorConfigure, Abstract!Configure, Abstract!Moves
    <2>4. QED
      BY <1>d, <2>1, <2>3 DEF Abstract!Publish
  <1>4. CASE MonitorBuild
    <2>0. pc = "build" /\ pc' \in {"finally", "built"} /\ cur' = cur
      BY <1>4 DEF MonitorBuild, Resubmit
    <2>1. CASE UNCHANGED status
      BY <1>4, <2>0, <2>1, Unseen DEF MonitorBuild, FoundReady
    <2>2. CASE Phase(cur) \in {"failed", "cancelled"}
      <3>1. status[cur] = "BUILDING" /\ builds[cur] = Phase(cur)
        BY <1>4, <1>b, <1>c, <2>2 DEF MonitorBuild, Phase, Course, Stage, BuiltInTime
      <3>2. status' = [status EXCEPT ![cur] = IF Phase(cur) = "failed" THEN "FAILED" ELSE "CANCELLED"]
        BY <1>4, <2>2 DEF MonitorBuild
      <3>3. /\ PhaseOf[cur] = "BUILDING"
            /\ PhaseOf' = [PhaseOf EXCEPT ![cur] = IF Phase(cur) = "failed" THEN "FAILED" ELSE "CANCELLED"]
        BY <1>a, <1>e, <1>f, <2>0, <3>1, <3>2 DEF FoundReady, MonitorInv, TypeOK
      <3>4. Abstract!NotBuilt(cur)
        BY <1>4, <2>2, <3>1, <3>3 DEF MonitorBuild, Abstract!NotBuilt, Abstract!Moves
      <3>5. QED
        BY <1>d, <2>0, <3>4 DEF Abstract!Publish
    <2>3. QED
      BY <1>4, <2>1, <2>2 DEF MonitorBuild
  <1>5. CASE MonitorDeployment
    <2>0. pc = "built" /\ cur' = cur /\ status[cur] = "DEPLOYING" /\ PhaseOf[cur] = "DEPLOYING"
          /\ builds[cur] = "complete"
      BY <1>5, <1>c, <1>e DEF MonitorDeployment, Looked, FoundBuilt
    <2>1. CASE dc[dvOf[cur]] = "ready" /\ pc' = "serve" /\ UNCHANGED status
      <3>1. PhaseOf' = [PhaseOf EXCEPT ![cur] = "READY"]
        BY <1>f, <2>0, <2>1 DEF FoundReady
      <3>2. Abstract!NoticeReady(cur)
        BY <1>5, <2>0, <2>1, <3>1 DEF MonitorDeployment, Abstract!NoticeReady, Abstract!Moves
      <3>3. QED
        BY <1>d, <2>0, <3>2 DEF Abstract!Publish
    <2>2. CASE UNCHANGED status /\ pc' = "finally"
      BY <1>5, <2>0, <2>2, Unseen DEF MonitorDeployment, FoundReady
    <2>3. CASE /\ dc[dvOf[cur]] = "failed" /\ pc' = "finally"
               /\ status' = [status EXCEPT ![cur] = "FAILED"]
      <3>1. PhaseOf' = [PhaseOf EXCEPT ![cur] = "FAILED"]
        BY <1>a, <1>f, <2>0, <2>3 DEF FoundReady, MonitorInv, TypeOK
      <3>2. Abstract!NotRolledOut(cur)
        BY <1>5, <2>0, <2>3, <3>1 DEF MonitorDeployment, Abstract!NotRolledOut, Abstract!Moves
      <3>3. QED
        BY <1>d, <2>0, <3>2 DEF Abstract!Publish
    <2>4. QED
      BY <1>5, <2>1, <2>2, <2>3 DEF MonitorDeployment, Resubmit
  <1>6. CASE MonitorCreateDC
    <2>1. /\ pc = "deploy" /\ pc' = "deploying" /\ cur' = cur /\ UNCHANGED status
          /\ builds[cur] = "complete" /\ dc \in [DVs -> DCState]
      BY <1>6, <1>c DEF MonitorCreateDC, Looked, FoundBuilt, MonitorInv, TypeOK
    <2>2. \A w \in Works : FoundReady(w)' <=> FoundReady(w)
      BY <2>1 DEF FoundReady
    <2>3. CASE dc[dvOf[cur]] = "none"
      <3>1. Abstract!RollOut(dvOf[cur])
        BY <1>6, <1>a, <2>1, <2>2, <2>3 DEF MonitorCreateDC, Abstract!RollOut, PhaseOf
      <3>2. QED
        BY <1>a, <2>1, <3>1 DEF Abstract!Next
    <2>4. CASE dc[dvOf[cur]] # "none"
      <3>1. dc' = dc
        BY <1>6, <2>1, <2>4 DEF MonitorCreateDC
      <3>2. QED
        BY <1>6, <2>2, <3>1, Unseen DEF MonitorCreateDC
    <2>5. QED
      BY <2>3, <2>4
  <1>7. CASE MonitorDeploying \/ MonitorDeployingThrows
    <2>1. /\ pc = "deploying" /\ pc' = "finally" /\ cur' = cur /\ status[cur] = "BUILDING"
          /\ builds[cur] = "complete" /\ dc[dvOf[cur]] # "none"
      BY <1>7, <1>c DEF MonitorDeploying, MonitorDeployingThrows, Stage, Looked, FoundBuilt, Resubmit
    <2>2. PhaseOf[cur] = "BUILDING" /\ PhaseOf' = [PhaseOf EXCEPT ![cur] = "DEPLOYING"]
      BY <1>7, <1>a, <1>e, <1>f, <2>1
      DEF MonitorDeploying, MonitorDeployingThrows, FoundReady, MonitorInv, TypeOK
    <2>3. Abstract!Built(cur)
      BY <1>7, <2>1, <2>2 DEF MonitorDeploying, MonitorDeployingThrows, Abstract!Built, Abstract!Moves
    <2>4. QED
      BY <1>d, <2>1, <2>3 DEF Abstract!Publish
  <1>9. CASE MonitorServe
    <2>1. pc = "serve" /\ pc' = "connect" /\ cur' = cur /\ UNCHANGED status
      BY <1>9 DEF MonitorServe
    <2>2. PhaseOf[cur] = "READY" /\ UNCHANGED PhaseOf
      BY <1>e, <2>1 DEF PhaseOf, FoundReady
    <2>3. Abstract!Serve(cur)
      BY <1>9, <2>2 DEF MonitorServe, Abstract!Serve
    <2>4. QED
      BY <1>d, <2>1, <2>3 DEF Abstract!Publish
  <1>10. CASE MonitorConnect \/ MonitorConnectUnsaved
    <2>1. /\ pc = "connect" /\ pc' \in {"running", "finally"} /\ cur' = cur /\ UNCHANGED status
          /\ services[dvOf[cur]] /\ connections' = connections \cup {cur}
          /\ status[cur] = "DEPLOYING"
      BY <1>10, <1>c DEF MonitorConnect, MonitorConnectUnsaved, Stage
    <2>2. sourceId' \in {sourceId, [sourceId EXCEPT ![dvOf[cur]] = cur]}
      <3>1. [sourceId EXCEPT ![dvOf[cur]] = sourceId[dvOf[cur]]] = sourceId
        BY DEF MonitorInv, TypeOK
      <3>2. QED
        BY <1>10, <2>1, <3>1 DEF MonitorConnect, MonitorConnectUnsaved
    <2>3. PhaseOf[cur] = "READY" /\ PhaseOf' \in {PhaseOf, [PhaseOf EXCEPT ![cur] = "DEPLOYING"]}
      <3>1. CASE pc' = "running"
        BY <1>e, <2>1, <3>1 DEF PhaseOf, FoundReady
      <3>2. CASE pc' = "finally"
        BY <1>e, <1>f, <2>1, <3>2 DEF FoundReady
      <3>3. QED
        BY <2>1, <3>1, <3>2
    <2>4. Abstract!Connect(cur)
      BY <1>10, <2>1, <2>2, <2>3 DEF MonitorConnect, MonitorConnectUnsaved, Abstract!Connect
    <2>5. QED
      BY <1>d, <2>1, <2>4 DEF Abstract!Publish
  <1>11. CASE MonitorRunning
    <2>1. /\ pc = "running" /\ pc' = "finally" /\ cur' = cur /\ services[dvOf[cur]]
          /\ cur \in connections /\ (dvOf[cur] \notin Mortal => sourceId[dvOf[cur]] = cur)
      BY <1>11, <1>c DEF MonitorRunning, Stage
    <2>2. PhaseOf[cur] = "READY" /\ PhaseOf' = [PhaseOf EXCEPT ![cur] = "RUNNING"]
      BY <1>11, <1>a, <1>e, <1>f, <2>1 DEF MonitorRunning, FoundReady, MonitorInv, TypeOK
    <2>3. Abstract!Run(cur)
      BY <1>11, <2>1, <2>2 DEF MonitorRunning, Abstract!Run, Abstract!Moves
    <2>4. QED
      BY <1>d, <2>1, <2>3 DEF Abstract!Publish
  <1>13. CASE MonitorThrows
    <2>1. pc # "idle" /\ pc' = "finally" /\ cur' = cur /\ UNCHANGED status
      BY <1>13 DEF MonitorThrows
    <2>2. CASE pc \in {"serve", "connect"}
      <3>1. PhaseOf[cur] = "READY" /\ PhaseOf' = [PhaseOf EXCEPT ![cur] = "DEPLOYING"]
        BY <1>c, <1>e, <1>f, <2>1, <2>2 DEF FoundReady, Stage
      <3>2. Abstract!GiveUp(cur)
        BY <1>13, <3>1 DEF MonitorThrows, Abstract!GiveUp, Abstract!Moves
      <3>3. QED
        BY <1>d, <2>1, <3>2 DEF Abstract!Publish
    <2>3. CASE pc \notin {"serve", "connect"}
      BY <1>13, <2>1, <2>3, Unseen DEF MonitorThrows, FoundReady
    <2>4. QED
      BY <2>2, <2>3
  <1>12. QED
    BY <1>1, <1>2, <1>3, <1>4, <1>5, <1>6, <1>7, <1>9, <1>10, <1>11, <1>13 DEF Monitor

LEMMA PoolPromised ==
  ASSUME MonitorInv, Alone, Life, NEW t \in PoolThreads, PoolStep(t)
  PROVE  [Abstract!Next]_(Abstract!pvars)
  <1> USE DEF workVars, shiftVars, synVars, Abstract!cluster, Abstract!syndesis
  <1> DEFINE v == thread[t].work
  <1>a. thread[t].kind \in {"configure", "delete"} =>
          thread[t].kind = "configure" /\ v \in Works /\ status[v] = "CONFIGURING"
    BY WorksAtHand DEF Alone, Tasks, NoTask
  <1>b. Abstract!Publish(v) /\ v \in Works => Abstract!Next
    BY DEF Abstract!Next
  <1>c. \A w \in Works : FoundReady(w)' <=> FoundReady(w)
    BY DEF FoundReady, monVars, PoolStep, TaskTake, ConfigureCreate, ConfigureFinish,
           ConfigureFails, DeleteGroup, DeleteGroupFails, DeleteThrows, DeleteFinish
  <1>d. v \in Works /\ status[v] = "CONFIGURING" => PhaseOf[v] = "CONFIGURING" /\ ~FoundReady(v)
    BY ReadyDeploys DEF PhaseOf
  <1>e. ASSUME v \in Works, status[v] = "CONFIGURING", NEW x, status' = [status EXCEPT ![v] = x]
        PROVE  PhaseOf' = [PhaseOf EXCEPT ![v] = x]
    BY <1>c, <1>d, <1>e, OnePhase DEF MonitorInv, TypeOK
  <1>1. CASE TaskTake(t)
    BY <1>1, <1>c, Unseen DEF TaskTake
  <1>2. CASE ConfigureCreate(t)
    <2>1. v \in Works /\ status[v] = "CONFIGURING" /\ builds[v] = "none"
      BY <1>2, <1>a DEF ConfigureCreate, Runs, Life, Unbuilt
    <2>2. UNCHANGED PhaseOf
      BY <1>2, <1>c DEF ConfigureCreate, PhaseOf
    <2>3. Abstract!MakeBuild(v)
      BY <1>2, <1>d, <2>1, <2>2 DEF ConfigureCreate, Abstract!MakeBuild
    <2>4. QED
      BY <1>b, <2>1, <2>3 DEF Abstract!Publish
  <1>3. CASE ConfigureFinish(t)
    <2>1. v \in Works /\ status[v] = "CONFIGURING" /\ builds[v] # "none"
      BY <1>3, <1>a DEF ConfigureFinish, Runs, Alone, Tasks, NoTask
    <2>2. PhaseOf[v] = "CONFIGURING" /\ PhaseOf' = [PhaseOf EXCEPT ![v] = "BUILDING"]
      BY <1>3, <1>d, <1>e, <2>1 DEF ConfigureFinish
    <2>3. Abstract!Configured(v)
      BY <1>3, <2>1, <2>2 DEF ConfigureFinish, Abstract!Configured, Abstract!Moves
    <2>4. QED
      BY <1>b, <2>1, <2>3 DEF Abstract!Publish
  <1>4. CASE ConfigureFails(t)
    <2>1. v \in Works /\ status[v] = "CONFIGURING"
      BY <1>4, <1>a DEF ConfigureFails
    <2>2. PhaseOf[v] = "CONFIGURING" /\ PhaseOf' = [PhaseOf EXCEPT ![v] = "FAILED"]
      BY <1>4, <1>d, <1>e, <2>1 DEF ConfigureFails
    <2>3. Abstract!NotConfigured(v)
      BY <1>4, <2>2 DEF ConfigureFails, Abstract!NotConfigured, Abstract!Moves
    <2>4. QED
      BY <1>b, <2>1, <2>3 DEF Abstract!Publish
  <1>5. CASE DeleteGroup(t) \/ DeleteGroupFails(t) \/ DeleteThrows(t) \/ DeleteFinish(t)
    BY <1>5, <1>a DEF DeleteGroup, DeleteGroupFails, DeleteThrows, DeleteFinish, Runs
  <1>6. QED
    BY <1>1, <1>2, <1>3, <1>4, <1>5 DEF PoolStep

LEMMA StepPromised ==
  ASSUME MonitorInv, Alone, Life, [Next]_vars, Undisturbed, Undisturbed'
  PROVE  [Abstract!Next]_(Abstract!pvars)
  <1> USE DEF workVars, monVars, shiftVars, synVars, Abstract!cluster, Abstract!syndesis
  <1>0. UNCHANGED <<status, cur, pc>> => UNCHANGED PhaseOf
    BY DEF PhaseOf, FoundReady
  <1>1. ASSUME NEW w \in Works, BuildEnds(w) PROVE Abstract!Next
    <2>1. Abstract!BuildEnds(w)
      BY <1>0, <1>1 DEF BuildEnds, Abstract!BuildEnds
    <2>2. QED
      BY <2>1 DEF Abstract!Next
  <1>2. ASSUME NEW w \in Works, Integrate(w) PROVE UNCHANGED Abstract!pvars
    BY <1>2, Unseen DEF Integrate, FoundReady
  <1>3. ASSUME NEW d \in DVs, RolloutEnds(d) \/ DropDV(d) \/ CreateDV(d) PROVE Abstract!Next
    <2>1. Abstract!RolloutEnds(d) \/ Abstract!DropRow(d) \/ Abstract!CreateRow(d)
      BY <1>0, <1>3 DEF RolloutEnds, DropDV, CreateDV, Abstract!RolloutEnds, Abstract!DropRow,
                  Abstract!CreateRow
    <2>2. QED
      BY <2>1 DEF Abstract!Next
  <1>8. ASSUME NEW d \in DVs, RolloutStarts(d) PROVE Abstract!Next
    <2>1. BuiltFor(d)
      BY <1>8 DEF RolloutStarts, Life, Rolled
    <2>2. Abstract!RollOut(d)
      BY <1>0, <1>8, <2>1 DEF RolloutStarts, BuiltFor, Abstract!RollOut
    <2>3. QED
      BY <2>2 DEF Abstract!Next
  <1>4. CASE Restart
    <2>1. \A w \in Works : PhaseOf[w] = "UNUSED" <=> status[w] = "UNUSED"
      BY ReadyDeploys
    <2>2. PhaseOf' = [w \in Works |-> IF PhaseOf[w] = "UNUSED" THEN "UNUSED" ELSE "LOST"]
      BY <1>4, <2>1 DEF Restart, PhaseOf, FoundReady
    <2>3. QED
      BY <1>4, <2>2 DEF Restart, Abstract!Lose, Abstract!Next
  <1>5. CASE UNCHANGED vars
    BY <1>5, Unseen DEF vars, FoundReady
  <1>6. QED
    BY <1>1, <1>2, <1>3, <1>4, <1>5, <1>8, RestPromised, MonitorPromised, PoolPromised DEF Next, OpenShift

LEMMA InitPromised == Init => Abstract!Init
  BY DEF Init, Abstract!Init, PhaseOf, FoundReady

\* As long as nobody unpublishes, every step of the REST threads, the monitor and
\* the pool is a step of Publication or none, with failures and restarts.
THEOREM LifecycleCorrect == Spec => Lifecycle
  <1>1. LifeInv /\ [Next]_vars => [Undisturbed' => Abstract!Next]_(Abstract!pvars)
    BY StepPromised, StillUndisturbed DEF LifeInv, AloneInv, MonitorInv
  <1>2. QED
    BY InitPromised, LifeInvariant, <1>1, PTL DEF Spec, Lifecycle

\* Where nobody can unpublish, Publish implements Publication.
THEOREM PublishImplementsPublication ==
  ASSUME Unpublishers = {}
  PROVE  Spec => Abstract!Spec
  <1>1. LifeInv /\ [Next]_vars => [Abstract!Next]_(Abstract!pvars)
    <2>1. Undisturbed /\ Undisturbed'
      BY DEF Undisturbed
    <2>2. QED
      BY <2>1, StepPromised DEF LifeInv, AloneInv, MonitorInv
  <1>2. QED
    BY InitPromised, LifeInvariant, <1>1, PTL DEF Spec, Abstract!Spec
=============================================================================
