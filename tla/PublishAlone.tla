---------------------------- MODULE PublishAlone ----------------------------
(***************************************************************************)
(* Theorems about publishing, for every instance of Publish: a publish is  *)
(* configured once, whatever goes on; and as long as nobody unpublishes,   *)
(* it has one runner, moves forward only, is monitored until it ends, and  *)
(* is served once it is RUNNING.                                           *)
(***************************************************************************)
EXTENDS PublishProofs

-----------------------------------------------------------------------------
(* Configured once.                                                        *)

Unconfigured(w) == QueuedConfigure(w) = {} /\ RunningConfigure(w) = {}

\* The monitor is about to configure only what has no task yet.
OnceInv == ConfiguredOnce /\ (pc = "configure" => Unconfigured(cur))

\* A step that adds no task.
LEMMA SameTasks ==
  ASSUME MonitorInv, OnceInv,
         \/ taskQueue' = taskQueue \/ taskQueue' = <<>>
         \/ \E v \in Works : taskQueue' = Append(taskQueue, DeleteTask(v)),
         \A t \in PoolThreads :
           \/ thread'[t] = thread[t]
           \/ thread'[t].kind # "configure"
           \/ thread[t].kind = "configure" /\ thread'[t].work = thread[t].work,
         \A w \in Works : status'[w] \in {"UNUSED", "SUBMITTED"} =>
                            status[w] \in {"UNUSED", "SUBMITTED"},
         pc' = "configure" => /\ cur' = cur /\ cur \in Works
                              /\ pc = "configure" \/ status[cur] = "SUBMITTED"
  PROVE  OnceInv'
  <1>1. \A w \in Works : QueuedConfigure(w)' \subseteq QueuedConfigure(w)
    <2>1. CASE taskQueue' = taskQueue \/ taskQueue' = <<>>
      BY <2>1 DEF QueuedConfigure
    <2>2. ASSUME NEW v \in Works, taskQueue' = Append(taskQueue, DeleteTask(v))
          PROVE  \A w \in Works : QueuedConfigure(w)' \subseteq QueuedConfigure(w)
      <3>1. taskQueue \in Seq(Task) /\ DeleteTask(v).kind = "delete"
        BY DEF MonitorInv, TypeOK, DeleteTask
      <3>2. /\ Len(taskQueue') = Len(taskQueue) + 1
            /\ taskQueue'[Len(taskQueue) + 1] = DeleteTask(v)
            /\ \A i \in 1..Len(taskQueue) : taskQueue'[i] = taskQueue[i]
            /\ Len(taskQueue) \in Nat
        BY <2>2, <3>1
      <3>3. QED
        BY <3>1, <3>2 DEF QueuedConfigure
    <2>3. QED
      BY <2>1, <2>2
  <1>2. \A w \in Works : RunningConfigure(w)' \subseteq RunningConfigure(w)
    BY DEF RunningConfigure
  <1>3. ConfiguredOnce'
    <2> SUFFICES ASSUME NEW w \in Works
                 PROVE  /\ \A i, j \in QueuedConfigure(w)' : i = j
                        /\ \A t, u \in RunningConfigure(w)' : t = u
                        /\ \/ QueuedConfigure(w)' = {}
                           \/ RunningConfigure(w)' = {}
                        /\ status'[w] \in {"UNUSED", "SUBMITTED"} =>
                             /\ QueuedConfigure(w)' = {}
                             /\ RunningConfigure(w)' = {}
      BY DEF ConfiguredOnce
    <2>1. /\ QueuedConfigure(w)' \subseteq QueuedConfigure(w)
          /\ RunningConfigure(w)' \subseteq RunningConfigure(w)
      BY <1>1, <1>2
    <2>2. /\ \A i, j \in QueuedConfigure(w) : i = j
          /\ \A t, u \in RunningConfigure(w) : t = u
          /\ QueuedConfigure(w) = {} \/ RunningConfigure(w) = {}
          /\ status[w] \in {"UNUSED", "SUBMITTED"} =>
               QueuedConfigure(w) = {} /\ RunningConfigure(w) = {}
      BY DEF OnceInv, ConfiguredOnce
    <2>3. status'[w] \in {"UNUSED", "SUBMITTED"} =>
            status[w] \in {"UNUSED", "SUBMITTED"}
      OBVIOUS
    <2>4. QED
      BY <2>1, <2>2, <2>3
  <1>4. pc' = "configure" => Unconfigured(cur)'
    <2> SUFFICES ASSUME pc' = "configure" PROVE Unconfigured(cur)'
      OBVIOUS
    <2>1. cur' = cur /\ cur \in Works /\ Unconfigured(cur)
      BY DEF OnceInv, ConfiguredOnce, Unconfigured
    <2>2. QED
      BY <1>1, <1>2, <2>1 DEF Unconfigured, QueuedConfigure, RunningConfigure
  <1>5. QED
    BY <1>3, <1>4 DEF OnceInv

LEMMA OnceConfigure ==
  ASSUME MonitorInv, OnceInv, MonitorConfigure
  PROVE  OnceInv'
  <1>1. /\ cur \in Works /\ taskQueue \in Seq(Task) /\ pc' = "finally"
        /\ UNCHANGED <<cur, thread>>
    BY DEF MonitorConfigure, Resubmit, MonitorInv, CurOK, TypeOK
  <1>2. /\ ConfigureTask(cur).kind = "configure" /\ ConfigureTask(cur).work = cur
        /\ taskQueue' = Append(taskQueue, ConfigureTask(cur))
    BY DEF ConfigureTask, MonitorConfigure
  <1>3. /\ Len(taskQueue') = Len(taskQueue) + 1
        /\ taskQueue'[Len(taskQueue) + 1] = ConfigureTask(cur)
        /\ \A i \in 1..Len(taskQueue) : taskQueue'[i] = taskQueue[i]
        /\ Len(taskQueue) \in Nat
    BY <1>1, <1>2
  <1>4. /\ status'[cur] = "CONFIGURING"
        /\ \A w \in Works \ {cur} : status'[w] = status[w]
    BY <1>1 DEF MonitorConfigure, MonitorInv, TypeOK
  <1>5. \A w \in Works : RunningConfigure(w)' = RunningConfigure(w)
    BY <1>1 DEF RunningConfigure
  <1>6. Unconfigured(cur)
    BY DEF OnceInv, MonitorConfigure
  <1>7. \A i \in QueuedConfigure(cur)' : i = Len(taskQueue) + 1
    BY <1>1, <1>3, <1>6 DEF Unconfigured, QueuedConfigure
  <1>8. \A w \in Works \ {cur} : QueuedConfigure(w)' = QueuedConfigure(w)
    BY <1>2, <1>3 DEF QueuedConfigure
  <1>9. ASSUME NEW w \in Works
        PROVE  /\ \A i, j \in QueuedConfigure(w)' : i = j
               /\ \A t, u \in RunningConfigure(w)' : t = u
               /\ QueuedConfigure(w)' = {} \/ RunningConfigure(w)' = {}
               /\ status'[w] \in {"UNUSED", "SUBMITTED"} =>
                    QueuedConfigure(w)' = {} /\ RunningConfigure(w)' = {}
    <2>1. CASE w = cur
      BY <1>1, <1>4, <1>5, <1>6, <1>7, <2>1 DEF Unconfigured
    <2>2. CASE w # cur
      BY <1>4, <1>5, <1>8, <2>2 DEF OnceInv, ConfiguredOnce
    <2>3. QED
      BY <2>1, <2>2
  <1>10. QED
    BY <1>1, <1>9 DEF OnceInv, ConfiguredOnce

LEMMA OnceTake ==
  ASSUME MonitorInv, OnceInv, NEW t \in PoolThreads, TaskTake(t)
  PROVE  OnceInv'
  <1>1. /\ taskQueue \in Seq(Task) /\ taskQueue # <<>> /\ UNCHANGED <<cur, pc, status>>
        /\ taskQueue' = Tail(taskQueue)
        /\ \A u \in PoolThreads : thread'[u] = IF u = t THEN taskQueue[1] ELSE thread[u]
        /\ thread[t].kind # "configure"
    BY DEF TaskTake, MonitorInv, TypeOK, NoTask, workVars, monVars
  <1>2. /\ Len(taskQueue) \in Nat \ {0} /\ Len(taskQueue') = Len(taskQueue) - 1
        /\ \A i \in 1..Len(taskQueue') : taskQueue'[i] = taskQueue[i + 1]
    BY <1>1
  <1>3. ASSUME NEW w \in Works
        PROVE  /\ \A i \in QueuedConfigure(w)' : i + 1 \in QueuedConfigure(w) /\ i \in Nat \ {0}
               /\ \A u \in RunningConfigure(w)' :
                    u \in RunningConfigure(w) \/ (u = t /\ 1 \in QueuedConfigure(w))
    BY <1>1, <1>2 DEF QueuedConfigure, RunningConfigure
  <1>4. ASSUME NEW w \in Works
        PROVE  /\ \A i, j \in QueuedConfigure(w)' : i = j
               /\ \A u, v \in RunningConfigure(w)' : u = v
               /\ QueuedConfigure(w)' = {} \/ RunningConfigure(w)' = {}
               /\ Unconfigured(w) => QueuedConfigure(w)' = {} /\ RunningConfigure(w)' = {}
    <2>1. /\ \A i, j \in QueuedConfigure(w) : i = j
          /\ \A u, v \in RunningConfigure(w) : u = v
          /\ QueuedConfigure(w) = {} \/ RunningConfigure(w) = {}
      BY DEF OnceInv, ConfiguredOnce
    <2>2. \A i, j \in QueuedConfigure(w)' : i = j
      BY <1>3, <2>1
    <2>3. \A u, v \in RunningConfigure(w)' : u = v
      BY <1>3, <2>1
    <2>4. QueuedConfigure(w)' = {} \/ RunningConfigure(w)' = {}
      BY <1>3, <2>1
    <2>5. Unconfigured(w) => QueuedConfigure(w)' = {} /\ RunningConfigure(w)' = {}
      BY <1>3 DEF Unconfigured
    <2>6. QED
      BY <2>2, <2>3, <2>4, <2>5
  <1>5. ConfiguredOnce'
    BY <1>1, <1>4, ZenonT(60) DEF OnceInv, ConfiguredOnce, Unconfigured
  <1>6. pc' = "configure" => Unconfigured(cur)'
    <2>1. pc' = "configure" => cur' = cur /\ cur \in Works /\ Unconfigured(cur)
      BY <1>1 DEF OnceInv, MonitorInv, CurOK
    <2>2. pc' = "configure" => QueuedConfigure(cur)' = {} /\ RunningConfigure(cur)' = {}
      BY <1>4, <2>1
    <2>3. QED
      BY <1>1, <2>2 DEF Unconfigured
  <1>7. QED
    BY <1>5, <1>6 DEF OnceInv

LEMMA OnceMonitor ==
  ASSUME MonitorInv, OnceInv, Monitor
  PROVE  OnceInv'
  <1>1. CASE MonitorConfigure
    BY <1>1, OnceConfigure
  <1>2. CASE ~MonitorConfigure
    <2>1. /\ UNCHANGED thread
          /\ \/ taskQueue' = taskQueue
             \/ pc = "sleep" /\ taskQueue' = Append(taskQueue, DeleteTask(cur))
      BY <1>2, Zenon
      DEF Monitor, MonitorTake, MonitorAwaitDelete, MonitorRetryDelete, MonitorDeleted,
          MonitorEnded, MonitorProceed, MonitorRedelete, MonitorPublish, MonitorBuild, MonitorBuilt,
          MonitorDeployment, MonitorCreateDC, MonitorDeploying, MonitorServe, MonitorConnect,
          MonitorRunning, MonitorThrows, MonitorConnectUnsaved, MonitorDeployingThrows,
          MonitorFinally, poolVars
    <2>2. pc = "sleep" => cur \in Works
      BY DEF MonitorInv, CurOK
    <2>3. \/ status' = status
          \/ \E s \in Status \ {"SUBMITTED"} : status' = [status EXCEPT ![cur] = s]
      <3>1. {"DELETE_SUBMITTED", "CANCELLED", "FAILED", "DEPLOYING", "RUNNING"} \subseteq Status \ {"SUBMITTED"}
        BY DEF Status, PublishStatus, DeleteStatus
      <3>2. QED
        BY <1>2, <3>1
        DEF Monitor, MonitorTake, MonitorAwaitDelete, MonitorRetryDelete, MonitorDeleted,
            MonitorEnded, MonitorProceed, MonitorRedelete, MonitorPublish, MonitorBuild, MonitorBuilt,
            MonitorDeployment, MonitorCreateDC, MonitorDeploying, MonitorServe, MonitorConnect,
            MonitorRunning, MonitorThrows, MonitorConnectUnsaved, MonitorDeployingThrows,
            MonitorFinally, workVars
    <2>4. \A w \in Works : status'[w] \in {"UNUSED", "SUBMITTED"} =>
                             status[w] \in {"UNUSED", "SUBMITTED"}
      BY <2>3 DEF MonitorInv, TypeOK, Status, PublishStatus, DeleteStatus
    <2>5. pc' = "configure" => cur' = cur /\ pc = "publish" /\ status[cur] = "SUBMITTED"
      BY <1>2
      DEF Monitor, MonitorTake, MonitorAwaitDelete, MonitorRetryDelete, MonitorDeleted,
          MonitorEnded, MonitorProceed, MonitorRedelete, MonitorPublish, MonitorBuild, MonitorBuilt,
          MonitorDeployment, MonitorCreateDC, MonitorDeploying, MonitorServe, MonitorConnect,
          MonitorRunning, MonitorThrows, MonitorConnectUnsaved, MonitorDeployingThrows,
          MonitorFinally, Resubmit
    <2>6. pc = "publish" => cur \in Works
      BY DEF MonitorInv, CurOK
    <2>7. QED
      BY <2>1, <2>2, <2>4, <2>5, <2>6, SameTasks
  <1>3. QED
    BY <1>1, <1>2

LEMMA OnceInvariant == Spec => []OnceInv
  <1>1. Init => OnceInv
    BY DEF Init, OnceInv, ConfiguredOnce, QueuedConfigure, RunningConfigure, NoTask
  <1>2. MonitorInv /\ OnceInv /\ [Next]_vars => OnceInv'
    <2> SUFFICES ASSUME MonitorInv, OnceInv, [Next]_vars
                 PROVE  OnceInv'
      OBVIOUS
    <2> USE DEF workVars, monVars, poolVars
    <2>0. pc = "configure" => cur \in Works
      BY DEF MonitorInv, CurOK
    <2>1. ASSUME NEW r \in Publishers \cup Unpublishers, Rest(r)
          PROVE  OnceInv'
      <3>1. UNCHANGED <<cur, pc, thread>>
        BY <2>1 DEF Rest, PublishRead, UnpublishRead, PublishEnqueue, UnpublishFound, UnpublishActive,
                    UnpublishRefused, UnpublishSubmit, UnpublishMark
      <3>2. \/ taskQueue' = taskQueue
            \/ \E v \in Works : taskQueue' = Append(taskQueue, DeleteTask(v))
        BY <2>1 DEF Rest, PublishRead, UnpublishRead, PublishEnqueue, UnpublishFound, UnpublishActive,
                    UnpublishRefused, UnpublishSubmit, UnpublishMark, MonitorInv, TypeOK, Request
      <3>3. \A w \in Works : status'[w] \in {"UNUSED", "SUBMITTED"} =>
                               status[w] \in {"UNUSED", "SUBMITTED"}
        BY <2>1 DEF Rest, PublishRead, UnpublishRead, PublishEnqueue, UnpublishFound, UnpublishActive,
                    UnpublishRefused, UnpublishSubmit, UnpublishMark, MonitorInv, TypeOK, Fresh
      <3>4. QED
        BY <2>0, <3>1, <3>2, <3>3, SameTasks
    <2>2. CASE Monitor
      BY <2>2, OnceMonitor
    <2>3. ASSUME NEW t \in PoolThreads, PoolStep(t)
          PROVE  OnceInv'
      <3>1. CASE TaskTake(t)
        BY <3>1, OnceTake
      <3>2. CASE ~TaskTake(t)
        <4>1. UNCHANGED <<cur, pc, taskQueue>>
          BY <2>3, <3>2 DEF PoolStep, ConfigureCreate, ConfigureFinish, ConfigureFails,
                            DeleteGroup, DeleteGroupFails, DeleteThrows, DeleteFinish
        <4>2. \A u \in PoolThreads :
                \/ thread'[u] = thread[u]
                \/ thread'[u].kind # "configure"
                \/ thread[u].kind = "configure" /\ thread'[u].work = thread[u].work
          BY <2>3, <3>2 DEF PoolStep, ConfigureCreate, ConfigureFinish, ConfigureFails, DeleteGroup,
                            DeleteGroupFails, DeleteThrows, DeleteFinish, Goto, Ends, NoTask, Runs, MonitorInv, TypeOK, Task
        <4>3. \A w \in Works : status'[w] \in {"UNUSED", "SUBMITTED"} =>
                                 status[w] \in {"UNUSED", "SUBMITTED"}
          BY <2>3, <3>2 DEF PoolStep, ConfigureCreate, ConfigureFinish, ConfigureFails, DeleteGroup,
                            DeleteGroupFails, DeleteThrows, DeleteFinish, MonitorInv, TypeOK
        <4>4. QED
          BY <2>0, <4>1, <4>2, <4>3, SameTasks
      <3>3. QED
        BY <3>1, <3>2
    <2>4. ASSUME NEW w \in Works, BuildEnds(w) \/ Integrate(w)
          PROVE  OnceInv'
      BY <2>0, <2>4, SameTasks DEF BuildEnds, Integrate
    <2>5. ASSUME NEW d \in DVs, RolloutStarts(d) \/ RolloutEnds(d) \/ DropDV(d) \/ CreateDV(d)
          PROVE  OnceInv'
      BY <2>0, <2>5, SameTasks DEF RolloutStarts, RolloutEnds, DropDV, CreateDV
    <2>6. CASE Restart
      <3>1. /\ taskQueue' = <<>> /\ pc' = "idle"
            /\ \A t \in PoolThreads : thread'[t].kind # "configure"
            /\ \A w \in Works : status'[w] \in {"UNUSED", "SUBMITTED"} =>
                                  status[w] \in {"UNUSED", "SUBMITTED"}
        BY <2>6 DEF Restart, NoTask
      <3>2. QED
        BY <3>1, SameTasks
    <2>7. CASE UNCHANGED vars
      BY <2>0, <2>7, SameTasks DEF vars
    <2>8. QED
      BY <2>1, <2>2, <2>3, <2>4, <2>5, <2>6, <2>7 DEF Next, OpenShift
  <1>3. QED
    BY <1>1, <1>2, MonitorInvariant, PTL DEF Spec

\* A publish is configured once.
THEOREM ConfiguredOnceCorrect == Spec => []ConfiguredOnce
  BY OnceInvariant, PTL DEF OnceInv

-----------------------------------------------------------------------------
(* As long as nobody unpublishes.                                          *)

Runner ==
  /\ \A i, j \in 1..Len(queue) : queue[i] = queue[j] => i = j
  /\ pc \notin {"idle", "finally"} => ~InQueue(cur)

\* The monitor has the work, or will get to it.
AtWork(w) == InQueue(w) \/ (cur = w /\ pc \notin {"idle", "finally"})

\* Where the monitor is, and what it has found and done on the way there.
Stage ==
  /\ pc # "redelete"
  /\ pc = "configure" => status[cur] = "SUBMITTED"
  /\ pc \in {"build", "built"} => status[cur] \notin {"SUBMITTED", "CONFIGURING"}
  /\ pc = "built" => named[cur]
  /\ pc \in {"deploy", "deploying"} => status[cur] = "BUILDING"
  /\ pc = "deploying" => dc[dvOf[cur]] # "none"
  /\ pc \in {"serve", "connect", "running"} => status[cur] = "DEPLOYING"
  /\ pc \in {"connect", "running"} => services[dvOf[cur]]
  /\ pc = "running" => /\ cur \in connections
                       /\ dvOf[cur] \notin Mortal => sourceId[dvOf[cur]] = cur

\* All tasks configure a work that waits for it.
Tasks ==
  /\ \A i \in 1..Len(taskQueue) : /\ taskQueue[i].kind = "configure"
                                  /\ taskQueue[i].at = "create"
                                  /\ status[taskQueue[i].work] = "CONFIGURING"
  /\ \A t \in PoolThreads : thread[t] # NoTask =>
       /\ thread[t].kind = "configure"
       /\ status[thread[t].work] = "CONFIGURING"
       /\ thread[t].at = "finish" => builds[thread[t].work] # "none"

\* A work has what its status says; the monitor has only works that go on, and
\* those whose configuration failed.
Course(w) ==
  /\ status[w] \in PublishStatus \cup {"UNUSED", "LOST"}
  /\ status[w] \in {"UNUSED", "SUBMITTED", "CONFIGURING"} => ~named[w]
  /\ status[w] \in {"BUILDING", "DEPLOYING"} => named[w] /\ builds[w] # "none"
  /\ status[w] = "DEPLOYING" => dc[dvOf[w]] # "none"
  /\ AtWork(w) => \/ status[w] \in {"SUBMITTED", "CONFIGURING", "BUILDING", "DEPLOYING"}
                  \/ status[w] = "FAILED" /\ ~named[w]

Served(w) ==
  status[w] = "RUNNING" =>
    /\ services[dvOf[w]] /\ w \in connections
    /\ dvOf[w] \notin Mortal => /\ sourceId[dvOf[w]] \in connections
                                /\ dvOf[sourceId[dvOf[w]]] = dvOf[w]

Tended(w) == failures = 0 /\ status[w] \in {"BUILDING", "DEPLOYING"} => AtWork(w)

Given ==
  /\ DVs \ Mortal \subseteq dvs
  /\ \A c \in connections : Exists(c)
  /\ \A w \in Works : Exists(w) => dvOf[w] \in DVs
  /\ \A r \in Publishers : request[r].at \in {"idle", "enqueue", "done"}

Alone == Runner /\ Stage /\ Tasks /\ Given
         /\ \A w \in Works : Course(w) /\ Served(w) /\ Tended(w)

AloneInv == MonitorInv /\ OnceInv /\ (Undisturbed => Alone)

\* The work at hand.
LEMMA AtHand ==
  ASSUME MonitorInv, Given, pc # "idle"
  PROVE  cur \in Works /\ Exists(cur) /\ dvOf[cur] \in DVs
  BY DEF MonitorInv, CurOK, Known, Given

\* Who has unpublished goes on to have unpublished.
LEMMA StillUndisturbed ==
  ASSUME TypeOK, [Next]_vars, Undisturbed'
  PROVE  Undisturbed
  <1> SUFFICES ASSUME NEW u \in Unpublishers PROVE request[u] = Idle
    BY DEF Undisturbed
  <1>0. request'[u] = Idle /\ request \in [Publishers \cup Unpublishers -> Request]
    BY DEF Undisturbed, TypeOK
  <1>1. CASE request' = request
    BY <1>0, <1>1
  <1>2. ASSUME NEW r \in Publishers \cup Unpublishers, Rest(r)
        PROVE  request[u] = Idle
    <2>1. u # r => request[u] = Idle
      BY <1>0, <1>2 DEF Rest, PublishRead, UnpublishRead, PublishEnqueue, UnpublishFound,
                        UnpublishActive, UnpublishRefused, UnpublishSubmit, UnpublishMark
    <2>2. ASSUME NEW d \in DVs, PublishRead(r, d) \/ UnpublishRead(r, d)
          PROVE  request'[r].at # "idle"
      BY <1>0, <2>2 DEF PublishRead, UnpublishRead
    <2>3. ASSUME UnpublishSubmit(r)
          PROVE  request'[r].at # "idle"
      <3>1. request[r].at = "submit" /\ request[r] \in Request
        BY <1>0, <2>3 DEF UnpublishSubmit
      <3>2. [request[r] EXCEPT !.at = "mark"].at = "mark"
        BY <3>1 DEF Request
      <3>3. QED
        BY <1>0, <2>3, <3>2 DEF UnpublishSubmit
    <2>4. ASSUME NEW w \in Works, PublishEnqueue(r, w) \/ UnpublishFound(r, w)
          PROVE  request'[r].at # "idle"
      BY <1>0, <2>4 DEF PublishEnqueue, UnpublishFound, Fresh, Done
    <2>5. ASSUME UnpublishActive(r) \/ UnpublishRefused(r) \/ UnpublishMark(r)
          PROVE  request'[r].at # "idle"
      BY <1>0, <2>5 DEF UnpublishActive, UnpublishRefused, UnpublishMark, Done
    <2>6. request'[r].at # "idle"
      BY <1>2, <2>2, <2>3, <2>4, <2>5 DEF Rest
    <2>7. QED
      BY <1>0, <2>1, <2>6 DEF Idle
  <1>3. CASE Monitor
    BY <1>1, <1>3 DEF Monitor, MonitorTake, MonitorAwaitDelete, MonitorRetryDelete, MonitorDeleted,
          MonitorEnded, MonitorProceed, MonitorRedelete, MonitorPublish, MonitorConfigure,
          MonitorBuild, MonitorBuilt, MonitorDeployment, MonitorCreateDC, MonitorDeploying, MonitorServe,
          MonitorConnect, MonitorRunning, MonitorThrows, MonitorConnectUnsaved,
          MonitorDeployingThrows, MonitorFinally
  <1>4. ASSUME NEW t \in PoolThreads, PoolStep(t)
        PROVE  request[u] = Idle
    BY <1>1, <1>4 DEF PoolStep, TaskTake, ConfigureCreate, ConfigureFinish, ConfigureFails,
                      DeleteGroup, DeleteGroupFails, DeleteThrows, DeleteFinish
  <1>5. ASSUME NEW w \in Works, BuildEnds(w) \/ Integrate(w)
        PROVE  request[u] = Idle
    BY <1>1, <1>5 DEF BuildEnds, Integrate
  <1>6. ASSUME NEW d \in DVs, RolloutStarts(d) \/ RolloutEnds(d) \/ DropDV(d) \/ CreateDV(d)
        PROVE  request[u] = Idle
    BY <1>1, <1>6 DEF RolloutStarts, RolloutEnds, DropDV, CreateDV
  <1>7. CASE Restart
    BY <1>0, <1>7 DEF Restart, Idle, Done
  <1>8. CASE UNCHANGED vars
    BY <1>1, <1>8 DEF vars
  <1>9. QED
    BY <1>2, <1>3, <1>4, <1>5, <1>6, <1>7, <1>8 DEF Next, OpenShift

\* The requests that are made.
LEMMA RestAlone ==
  ASSUME MonitorInv, Alone, Undisturbed, Undisturbed', NEW r \in Publishers \cup Unpublishers, Rest(r)
  PROVE  /\ r \in Publishers
         /\ \/ \E d \in DVs : PublishRead(r, d)
            \/ \E w \in Works : PublishEnqueue(r, w)
  <1>1. request[r].at \in {"idle", "enqueue", "done"} /\ (r \in Unpublishers => request[r] = Idle)
    BY DEF Alone, Given, Undisturbed, Idle
  <1>2. ASSUME NEW d \in DVs PROVE ~UnpublishRead(r, d)
    <2> SUFFICES ASSUME UnpublishRead(r, d) PROVE FALSE
      OBVIOUS
    <2>1. request'[r] = Idle /\ request'[r].at \in {"lookup", "submit"}
      BY DEF UnpublishRead, Undisturbed, MonitorInv, TypeOK
    <2>2. QED
      BY <2>1 DEF Idle
  <1>3. QED
    BY <1>1, <1>2, PublishAssumption
    DEF Rest, PublishRead, PublishEnqueue, UnpublishFound, UnpublishActive, UnpublishRefused,
        UnpublishSubmit, UnpublishMark, Idle

\* A step of others, who leave the works alone.
LEMMA QuietAlone ==
  ASSUME MonitorInv, Alone,
         UNCHANGED <<workVars, monVars, poolVars, services, connections>>,
         failures' = 0 => failures = 0,
         \A w \in Works : builds[w] # "none" => builds'[w] # "none",
         \A d \in DVs : dc[d] # "none" => dc'[d] # "none",
         \A d \in DVs \ Mortal : sourceId'[d] = sourceId[d],
         Given'
  PROVE  Alone'
  <1> USE DEF workVars, monVars, poolVars
  <1>1. Runner'
    BY DEF Alone, Runner, InQueue
  <1>2. Stage'
    BY AtHand DEF Alone, Stage
  <1>3. Tasks'
    <2>1. \A t \in PoolThreads : thread[t] # NoTask => thread[t].work \in Works
      BY TaskStages DEF MonitorInv, TypeOK
    <2>2. QED
      BY <2>1 DEF Alone, Tasks
  <1>4. ASSUME NEW w \in Works PROVE Course(w)' /\ Served(w)' /\ Tended(w)'
    <2>1. AtWork(w)' <=> AtWork(w)
      BY DEF AtWork, InQueue
    <2>2. status[w] \in {"DEPLOYING", "RUNNING"} => dvOf[w] \in DVs
      BY DEF Alone, Given, Exists
    <2>3. Course(w) /\ Served(w) /\ Tended(w)
      BY DEF Alone
    <2>4. Course(w)'
      BY <2>1, <2>2, <2>3 DEF Course
    <2>5. Served(w)' /\ Tended(w)'
      BY <2>1, <2>2, <2>3 DEF Served, Tended
    <2>6. QED
      BY <2>4, <2>5
  <1>5. QED
    BY <1>1, <1>2, <1>3, <1>4 DEF Alone

\* A new publish.
LEMMA EnqueueAlone ==
  ASSUME MonitorInv, Alone, NEW r \in Publishers, NEW v \in Works, PublishEnqueue(r, v)
  PROVE  Alone'
  <1> USE DEF MonitorInv
  <1>1. /\ status[v] = "UNUSED" /\ status'[v] = "SUBMITTED"
        /\ \A w \in Works \ {v} : status'[w] = status[w] /\ dvOf'[w] = dvOf[w]
        /\ UNCHANGED <<named, cur, pc, activeJobs, poolVars, shiftVars, synVars>>
        /\ queue' = Append(queue, v)
    BY DEF PublishEnqueue, Fresh, TypeOK
  <1>2. dvOf'[v] \in DVs
    BY DEF PublishEnqueue, TypeOK, Request
  <1>3. pc # "idle" => cur \in Works \ {v}
    BY <1>1 DEF CurOK, Known, Exists
  <1>4. \A i \in 1..Len(queue) : queue[i] \in Works \ {v}
    BY <1>1 DEF Known, Exists, TypeOK
  <1>5. /\ Len(queue') = Len(queue) + 1 /\ queue'[Len(queue) + 1] = v
        /\ \A i \in 1..Len(queue) : queue'[i] = queue[i]
        /\ Len(queue) \in Nat
    BY <1>1 DEF TypeOK
  <1>6. \A w \in Works \ {v} : InQueue(w)' <=> InQueue(w)
    BY <1>5 DEF InQueue
  <1>7. Runner'
    <2>1. \A i, j \in 1..Len(queue') : queue'[i] = queue'[j] => i = j
      BY <1>4, <1>5 DEF Alone, Runner
    <2>2. pc' \notin {"idle", "finally"} => ~InQueue(cur)'
      <3>1. pc' \notin {"idle", "finally"} => ~InQueue(cur) /\ cur \in Works \ {v} /\ cur' = cur
        BY <1>1, <1>3 DEF Alone, Runner
      <3>2. QED
        BY <1>6, <3>1 DEF InQueue
    <2>3. QED
      BY <2>1, <2>2 DEF Runner
  <1>8. Stage'
    BY <1>1, <1>3, PublishAssumption DEF Alone, Stage, PC, shiftVars, synVars, TypeOK
  <1>9. Tasks'
    <2>1. \A i \in 1..Len(taskQueue) : taskQueue[i] \in Task
      BY DEF TypeOK
    <2>2. \A i \in 1..Len(taskQueue) : taskQueue[i].work \in Works
      BY <2>1, TaskStages
    <2>3. \A t \in PoolThreads : thread[t] # NoTask => thread[t].work \in Works
      BY TaskStages DEF TypeOK
    <2>4. \A i \in 1..Len(taskQueue) : taskQueue[i].work # v
      BY <1>1 DEF Alone, Tasks
    <2>5. \A t \in PoolThreads : thread[t] # NoTask => thread[t].work # v
      BY <1>1 DEF Alone, Tasks
    <2>6. UNCHANGED <<taskQueue, thread, builds>>
      BY <1>1 DEF poolVars, shiftVars
    <2>7. QED
      BY <1>1, <2>2, <2>3, <2>4, <2>5, <2>6 DEF Alone, Tasks
  <1>10. Given'
    <2>1. \A w \in Works : Exists(w)' => dvOf'[w] \in DVs
      BY <1>1, <1>2 DEF Alone, Given, Exists
    <2>2. \A q \in Publishers : request'[q].at \in {"idle", "enqueue", "done"}
      BY DEF PublishEnqueue, Done, Alone, Given, TypeOK
    <2>3. \A c \in connections' : Exists(c)'
      BY <1>1 DEF Alone, Given, Exists, synVars, TypeOK
    <2>4. QED
      BY <1>1, <2>1, <2>2, <2>3 DEF Alone, Given, synVars
  <1>11. ASSUME NEW w \in Works PROVE Course(w)' /\ Served(w)' /\ Tended(w)'
    <2>0. Course(w) /\ Served(w) /\ Tended(w)
      BY DEF Alone
    <2>1. CASE w = v
      <3>1. status'[w] = "SUBMITTED" /\ ~named'[w]
        BY <1>1, <2>0, <2>1 DEF Course, TypeOK
      <3>2. QED
        BY <3>1 DEF Course, Served, Tended, PublishStatus
    <2>2. CASE w # v
      <3>1. AtWork(w)' <=> AtWork(w)
        BY <1>1, <1>6, <2>2 DEF AtWork
      <3>2. /\ status'[w] = status[w] /\ dvOf'[w] = dvOf[w]
            /\ UNCHANGED <<named, builds, dc, services, failures, connections, sourceId>>
        BY <1>1, <2>2 DEF shiftVars, synVars
      <3>3. \A c \in connections : dvOf'[c] = dvOf[c]
        BY <1>1 DEF Alone, Given, Exists, TypeOK
      <3>4. QED
        BY <2>0, <3>1, <3>2, <3>3 DEF Course, Served, Tended
    <2>3. QED
      BY <2>1, <2>2
  <1>12. QED
    BY <1>7, <1>8, <1>9, <1>10, <1>11 DEF Alone

-----------------------------------------------------------------------------
(* The monitor.                                                            *)

\* The run of a work ends, and it is not resubmitted.
Leaves == pc \notin {"idle", "finally"} /\ pc' = "finally" /\ queue' = queue

\* One run of a work, from its start to its end.
LEMMA MonitorMoves ==
  ASSUME Monitor
  PROVE  \/ MonitorTake
         \/ MonitorFinally
         \/ /\ pc \notin {"idle", "finally"} /\ cur' = cur
            /\ \/ pc' \notin {"idle", "finally"} /\ queue' = queue
               \/ pc' = "finally" /\ queue' = queue
               \/ pc' = "finally" /\ queue' = Append(queue, cur)
  BY DEF Monitor, MonitorAwaitDelete, MonitorRetryDelete, MonitorDeleted,
         MonitorEnded, MonitorProceed, MonitorRedelete, MonitorPublish, MonitorConfigure,
         MonitorBuild, MonitorBuilt, MonitorDeployment, MonitorCreateDC, MonitorDeploying, MonitorServe,
         MonitorConnect, MonitorRunning, MonitorThrows, MonitorConnectUnsaved,
         MonitorDeployingThrows, Resubmit

LEMMA RunnerStep ==
  ASSUME MonitorInv, Runner, Monitor
  PROVE  /\ Runner'
         /\ \A w \in Works : AtWork(w)' <=> AtWork(w) /\ ~(Leaves /\ w = cur)
  <1> USE DEF MonitorInv
  <1>1. CASE MonitorTake
    <2>1. /\ pc = "idle" /\ pc' = "sleep" /\ queue \in Seq(Works) /\ queue # <<>>
          /\ cur' = queue[1] /\ queue' = Tail(queue)
      BY <1>1 DEF MonitorTake, TypeOK
    <2>2. /\ Len(queue) \in Nat \ {0} /\ Len(queue') = Len(queue) - 1
          /\ \A i \in 1..Len(queue') : queue'[i] = queue[i + 1]
      BY <2>1
    <2>3. Runner'
      <3>1. \A i, j \in 1..Len(queue') : queue'[i] = queue'[j] => i = j
        BY <2>2 DEF Runner
      <3>2. ~InQueue(cur)'
        BY <2>1, <2>2 DEF Runner, InQueue
      <3>3. QED
        BY <3>1, <3>2 DEF Runner
    <2>4. ASSUME NEW w \in Works PROVE AtWork(w)' <=> AtWork(w)
      <3>1. InQueue(w) <=> InQueue(w)' \/ cur' = w
        <4>1. ASSUME NEW i \in 1..Len(queue), queue[i] = w, i # 1
              PROVE  i - 1 \in 1..Len(queue') /\ queue'[i - 1] = w
          BY <2>2, <4>1
        <4>2. InQueue(w) => InQueue(w)' \/ cur' = w
          BY <2>1, <4>1 DEF InQueue
        <4>3. cur' = w => InQueue(w)
          <5>1. 1 \in 1..Len(queue)
            BY <2>2
          <5>2. QED
            BY <2>1, <5>1 DEF InQueue
        <4>4. InQueue(w)' => InQueue(w)
          BY <2>2 DEF InQueue
        <4>5. QED
          BY <4>2, <4>3, <4>4
      <3>2. QED
        BY <2>1, <3>1 DEF AtWork
    <2>5. QED
      BY <2>1, <2>3, <2>4 DEF Leaves
  <1>2. CASE MonitorFinally
    <2>1. pc = "finally" /\ pc' = "idle" /\ queue' = queue
      BY <1>2 DEF MonitorFinally
    <2>2. QED
      BY <2>1 DEF Runner, AtWork, InQueue, Leaves
  <1>3. CASE pc \notin {"idle", "finally"} /\ cur' = cur /\ queue' = queue
    BY <1>3, MonitorMoves DEF Runner, AtWork, InQueue, Leaves, MonitorTake, MonitorFinally
  <1>4. CASE /\ pc \notin {"idle", "finally"} /\ cur' = cur
             /\ pc' = "finally" /\ queue' = Append(queue, cur)
    <2>1. queue \in Seq(Works) /\ cur \in Works
      BY <1>4 DEF TypeOK, CurOK
    <2>2. /\ Len(queue') = Len(queue) + 1 /\ queue'[Len(queue) + 1] = cur
          /\ \A i \in 1..Len(queue) : queue'[i] = queue[i]
          /\ Len(queue) \in Nat
      BY <1>4, <2>1
    <2>3. Runner'
      BY <1>4, <2>2 DEF Runner, InQueue
    <2>4. \A w \in Works : InQueue(w)' <=> InQueue(w) \/ w = cur
      BY <2>2 DEF InQueue
    <2>5. queue' # queue
      BY <2>2
    <2>6. QED
      BY <1>4, <2>3, <2>4, <2>5 DEF AtWork, Leaves
  <1>5. QED
    BY <1>1, <1>2, <1>3, <1>4, MonitorMoves

\* A step of the monitor that changes no status.
LEMMA SameStatus ==
  ASSUME MonitorInv, Alone, Monitor,
         UNCHANGED <<workVars, poolVars, request, builds, dvs>>,
         \A d \in DVs : dc[d] # "none" => dc'[d] # "none",
         \A d \in DVs : services[d] => services'[d],
         connections' = connections \/ (connections' = connections \cup {cur} /\ pc # "idle"),
         \/ sourceId' = sourceId
         \/ /\ sourceId' = [sourceId EXCEPT ![dvOf[cur]] = cur]
            /\ cur \in connections' /\ pc # "idle",
         failures' = 0 => failures = 0,
         Leaves => failures' # 0 \/ status[cur] \notin {"BUILDING", "DEPLOYING"},
         Stage'
  PROVE  Alone'
  <1> USE DEF workVars, poolVars
  <1>1. /\ Runner'
        /\ \A w \in Works : AtWork(w)' <=> AtWork(w) /\ ~(Leaves /\ w = cur)
    BY RunnerStep DEF Alone
  <1>2. Tasks'
    BY DEF Alone, Tasks
  <1>3. Given'
    BY AtHand DEF Alone, Given, Exists
  <1>4. ASSUME NEW w \in Works PROVE Course(w)' /\ Served(w)' /\ Tended(w)'
    <2>1. Course(w) /\ Served(w) /\ Tended(w) /\ (AtWork(w)' => AtWork(w))
      BY <1>1 DEF Alone
    <2>2. status[w] \in {"DEPLOYING", "RUNNING"} => dvOf[w] \in DVs
      BY DEF Alone, Given, Exists
    <2>3. Course(w)'
      BY <2>1, <2>2 DEF Course
    <2>4. Served(w)'
      <3>1. CASE sourceId' = sourceId
        BY <2>1, <2>2, <3>1 DEF Served
      <3>2. CASE sourceId' # sourceId
        <4>1. /\ sourceId' = [sourceId EXCEPT ![dvOf[cur]] = cur] /\ cur \in connections'
              /\ sourceId \in [DVs -> Works \cup {None}]
          BY <3>2 DEF MonitorInv, TypeOK
        <4>2. QED
          BY <2>1, <2>2, <4>1 DEF Served
      <3>3. QED
        BY <3>1, <3>2
    <2>5. Tended(w)'
      BY <1>1, <2>1 DEF Tended
    <2>6. QED
      BY <2>3, <2>4, <2>5
  <1>5. QED
    BY <1>1, <1>2, <1>3, <1>4 DEF Alone

\* A step of the monitor that changes the status of a work with a build.
LEMMA NewStatus ==
  ASSUME MonitorInv, Alone, Monitor, pc \in {"build", "built", "deploying", "running"},
         named[cur], pc' = "finally", cur' = cur,
         NEW s \in {"DEPLOYING", "RUNNING", "FAILED", "CANCELLED"},
         status' = [status EXCEPT ![cur] = s],
         UNCHANGED <<dvOf, named, poolVars, request, builds, dc, services, connections, sourceId, dvs>>,
         s = "DEPLOYING" => pc = "deploying" /\ (Leaves => failures' # 0),
         s # "DEPLOYING" => Leaves,
         s = "RUNNING" => pc = "running",
         failures' = 0 => failures = 0
  PROVE  Alone'
  <1>0. cur \in Works /\ Exists(cur) /\ dvOf[cur] \in DVs
    BY AtHand DEF Alone
  <1>1. /\ Runner'
        /\ \A w \in Works : AtWork(w)' <=> AtWork(w) /\ ~(Leaves /\ w = cur)
    BY RunnerStep DEF Alone
  <1>2. /\ status'[cur] = s
        /\ \A w \in Works \ {cur} : status'[w] = status[w]
    BY <1>0 DEF MonitorInv, TypeOK
  <1>3. status[cur] \in {"BUILDING", "DEPLOYING"}
    <2>1. AtWork(cur) /\ Course(cur)
      BY <1>0 DEF Alone, AtWork
    <2>2. QED
      BY <2>1 DEF Course
  <1>4. Stage'
    BY DEF Stage
  <1>5. Tasks'
    <2>1. \A i \in 1..Len(taskQueue) : taskQueue[i] \in Task
      BY DEF MonitorInv, TypeOK
    <2>2. \A i \in 1..Len(taskQueue) : taskQueue[i].work \in Works
      BY <2>1, TaskStages
    <2>3. \A t \in PoolThreads : thread[t] # NoTask => thread[t].work \in Works
      BY TaskStages DEF MonitorInv, TypeOK
    <2>4. QED
      BY <1>2, <1>3, <2>2, <2>3 DEF Alone, Tasks, poolVars
  <1>6. Given'
    <2>1. \A w : w \in connections => w \in Works
      BY DEF MonitorInv, TypeOK
    <2>2. \A w \in Works : Exists(w)' <=> Exists(w)
      BY <1>0, <1>2 DEF Exists
    <2>3. QED
      BY <2>1, <2>2 DEF Alone, Given
  <1>7. ASSUME NEW w \in Works PROVE Course(w)' /\ Served(w)' /\ Tended(w)'
    <2>1. Course(w) /\ Served(w) /\ Tended(w) /\ Stage
      BY DEF Alone
    <2>2. CASE w = cur
      <3>1. Course(w)'
        BY <1>1, <1>2, <1>3, <2>1, <2>2 DEF Course, Stage, PublishStatus
      <3>2. Served(w)'
        BY <1>2, <2>1, <2>2 DEF Served, Stage
      <3>3. Tended(w)'
        <4>1. AtWork(w)
          BY <2>2 DEF AtWork
        <4>2. QED
          BY <1>1, <1>2, <2>2, <4>1 DEF Tended
      <3>4. QED
        BY <3>1, <3>2, <3>3
    <2>3. CASE w # cur
      <3>1. (AtWork(w)' <=> AtWork(w)) /\ status'[w] = status[w]
        BY <1>1, <1>2, <2>3
      <3>2. QED
        BY <2>1, <3>1 DEF Course, Served, Tended
    <2>4. QED
      BY <2>2, <2>3
  <1>8. QED
    BY <1>1, <1>4, <1>5, <1>6, <1>7 DEF Alone

LEMMA ConfigureAlone ==
  ASSUME MonitorInv, Alone, MonitorConfigure
  PROVE  Alone'
  <1>1. /\ cur \in Works /\ Exists(cur) /\ dvOf[cur] \in DVs /\ status[cur] = "SUBMITTED"
        /\ pc = "configure" /\ pc' = "finally" /\ cur' = cur /\ queue' = Append(queue, cur)
        /\ UNCHANGED <<dvOf, named, thread, request, shiftVars, synVars>>
    BY AtHand DEF MonitorConfigure, Resubmit, Alone, Stage
  <1>2. /\ Runner'
        /\ \A w \in Works : AtWork(w)' => AtWork(w)
        /\ \A w \in Works \ {cur} : AtWork(w)' <=> AtWork(w)
    BY RunnerStep DEF Alone, Monitor
  <1>3. /\ status'[cur] = "CONFIGURING"
        /\ \A w \in Works \ {cur} : status'[w] = status[w]
    BY <1>1 DEF MonitorConfigure, MonitorInv, TypeOK
  <1>4. Tasks'
    <2>1. taskQueue \in Seq(Task) /\ taskQueue' = Append(taskQueue, ConfigureTask(cur))
      BY DEF MonitorConfigure, MonitorInv, TypeOK
    <2>2. /\ Len(taskQueue') = Len(taskQueue) + 1
          /\ taskQueue'[Len(taskQueue) + 1] = ConfigureTask(cur)
          /\ \A i \in 1..Len(taskQueue) : taskQueue'[i] = taskQueue[i] /\ taskQueue[i] \in Task
          /\ Len(taskQueue) \in Nat
      BY <2>1
    <2>3. \A i \in 1..Len(taskQueue) : taskQueue[i].work \in Works
      BY <2>2, TaskStages
    <2>4. \A t \in PoolThreads : thread[t] # NoTask => thread[t].work \in Works
      BY TaskStages DEF MonitorInv, TypeOK
    <2>5. /\ ConfigureTask(cur).kind = "configure" /\ ConfigureTask(cur).work = cur
          /\ ConfigureTask(cur).at = "create"
      BY DEF ConfigureTask
    <2>6. \A i \in 1..Len(taskQueue') : /\ taskQueue'[i].kind = "configure"
                                        /\ taskQueue'[i].at = "create"
                                        /\ status'[taskQueue'[i].work] = "CONFIGURING"
      BY <1>3, <2>2, <2>3, <2>5 DEF Alone, Tasks
    <2>7. \A t \in PoolThreads : thread'[t] # NoTask =>
            /\ thread'[t].kind = "configure"
            /\ status'[thread'[t].work] = "CONFIGURING"
            /\ thread'[t].at = "finish" => builds'[thread'[t].work] # "none"
      BY <1>1, <1>3, <2>4 DEF Alone, Tasks, shiftVars
    <2>8. QED
      BY <2>6, <2>7 DEF Tasks
  <1>5. Given'
    <2>1. \A w : w \in connections => w \in Works
      BY DEF MonitorInv, TypeOK
    <2>2. \A w \in Works : Exists(w)' <=> Exists(w)
      BY <1>1, <1>3 DEF Exists
    <2>3. QED
      BY <1>1, <2>1, <2>2 DEF Alone, Given, synVars
  <1>6. ASSUME NEW w \in Works PROVE Course(w)' /\ Served(w)' /\ Tended(w)'
    <2>1. Course(w) /\ Served(w) /\ Tended(w)
      BY DEF Alone
    <2>2. UNCHANGED <<dvOf, named, builds, dc, services, failures, connections, sourceId>>
      BY <1>1 DEF shiftVars, synVars
    <2>3. CASE w = cur
      BY <1>1, <1>3, <2>1, <2>2, <2>3 DEF Course, Served, Tended, PublishStatus
    <2>4. CASE w # cur
      <3>1. (AtWork(w)' <=> AtWork(w)) /\ status'[w] = status[w]
        BY <1>2, <1>3, <2>4
      <3>2. QED
        BY <2>1, <2>2, <3>1 DEF Course, Served, Tended
    <2>5. QED
      BY <2>3, <2>4
  <1>7. Stage'
    BY <1>1 DEF Stage
  <1>8. QED
    BY <1>2, <1>4, <1>5, <1>6, <1>7 DEF Alone

LEMMA MonitorAlone ==
  ASSUME MonitorInv, Alone, Monitor
  PROVE  Alone'
  <1> USE DEF workVars, poolVars, shiftVars, synVars
  <1>a. pc # "idle" => cur \in Works /\ Exists(cur) /\ dvOf[cur] \in DVs
    BY AtHand DEF Alone
  <1>b. pc \notin {"idle", "finally"} =>
          /\ Course(cur)
          /\ \/ status[cur] \in {"SUBMITTED", "CONFIGURING", "BUILDING", "DEPLOYING"}
             \/ status[cur] = "FAILED" /\ ~named[cur]
    BY <1>a DEF Alone, AtWork, Course
  <1>c. Stage /\ failures \in Nat
    BY PublishAssumption DEF Alone, MonitorInv, TypeOK
  <1>1. CASE MonitorTake
    BY <1>1, SameStatus DEF MonitorTake, Stage, Leaves
  <1>2. CASE MonitorAwaitDelete \/ MonitorRetryDelete \/ MonitorDeleted
    BY <1>2, <1>b DEF MonitorAwaitDelete, MonitorRetryDelete, MonitorDeleted
  <1>3. CASE MonitorEnded
    BY <1>3, SameStatus DEF MonitorEnded, Stage
  <1>4. CASE MonitorProceed
    BY <1>4, SameStatus DEF MonitorProceed, Stage, Leaves
  <1>5. CASE MonitorRedelete
    BY <1>5, <1>c DEF MonitorRedelete, Stage
  <1>6. CASE MonitorPublish
    <2>1. CASE status[cur] = "CONFIGURING" /\ Resubmit
      BY <1>6, <2>1, SameStatus DEF MonitorPublish, Resubmit, Stage
    <2>2. CASE pc' \in {"configure", "build"}
      BY <1>6, <2>2, SameStatus DEF MonitorPublish, Resubmit, Stage, Leaves
    <2>3. QED
      BY <1>6, <2>1, <2>2 DEF MonitorPublish
  <1>7. CASE MonitorConfigure
    BY <1>7, ConfigureAlone
  <1>8. CASE MonitorBuild
    <2>1. CASE Phase(cur) = "running" /\ Resubmit /\ UNCHANGED status
      <3>1. ~Leaves
        BY <1>8, <1>a, <2>1 DEF MonitorBuild, Resubmit, Leaves, MonitorInv, TypeOK
      <3>2. QED
        BY <1>8, <2>1, <3>1, SameStatus DEF MonitorBuild, Resubmit, Stage
    <2>2. CASE Phase(cur) \in {"failed", "cancelled"}
      <3>1. /\ named[cur] /\ pc = "build" /\ pc' = "finally" /\ queue' = queue
            /\ status' = [status EXCEPT ![cur] = IF Phase(cur) = "failed" THEN "FAILED" ELSE "CANCELLED"]
        BY <1>8, <2>2 DEF MonitorBuild, Phase, Resubmit
      <3>2. QED
        BY <1>8, <3>1, NewStatus DEF MonitorBuild, Leaves
    <2>3. CASE Phase(cur) = "none" /\ pc' = "finally" /\ UNCHANGED <<status, queue>>
      <3>1. pc = "build" /\ status[cur] \notin {"BUILDING", "DEPLOYING"}
        BY <1>8, <1>b, <2>3 DEF MonitorBuild, Phase, Course
      <3>2. QED
        BY <1>8, <2>3, <3>1, SameStatus DEF MonitorBuild, Stage
    <2>4. CASE Phase(cur) = "complete" /\ pc' = "built" /\ UNCHANGED <<status, queue>>
      <3>1. named[cur] /\ pc = "build"
        BY <1>8, <2>4 DEF MonitorBuild, Phase
      <3>2. QED
        BY <1>8, <1>c, <2>4, <3>1, SameStatus DEF MonitorBuild, Stage, Leaves
    <2>5. QED
      BY <1>8, <2>1, <2>2, <2>3, <2>4 DEF MonitorBuild
  <1>20. CASE MonitorBuilt
    <2>1. status[cur] = "BUILDING" /\ pc = "built"
      BY <1>20, <1>b, <1>c DEF MonitorBuilt, Stage
    <2>2. QED
      BY <1>20, <2>1, SameStatus DEF MonitorBuilt, Stage, Leaves
  <1>9. CASE MonitorDeployment
    <2>0. pc = "built" /\ status[cur] = "DEPLOYING" /\ named[cur] /\ dc[dvOf[cur]] # "none"
      BY <1>9, <1>b DEF MonitorDeployment, Course
    <2>1. CASE dc[dvOf[cur]] = "ready" /\ pc' = "serve" /\ UNCHANGED <<status, queue>>
      BY <1>9, <2>0, <2>1, SameStatus DEF MonitorDeployment, Stage, Leaves
    <2>2. CASE dc[dvOf[cur]] = "progressing" /\ Resubmit /\ UNCHANGED status
      <3>1. ~Leaves
        BY <1>a, <2>0, <2>2 DEF Resubmit, Leaves, MonitorInv, TypeOK
      <3>2. QED
        BY <1>9, <2>2, <3>1, SameStatus DEF MonitorDeployment, Resubmit, Stage
    <2>3. CASE /\ pc' = "finally" /\ UNCHANGED queue
               /\ status' = [status EXCEPT ![cur] = "FAILED"]
      BY <1>9, <2>0, <2>3, NewStatus DEF MonitorDeployment, Leaves
    <2>4. QED
      BY <1>9, <2>0, <2>1, <2>2, <2>3 DEF MonitorDeployment
  <1>10. CASE MonitorCreateDC
    <2>1. dc'[dvOf[cur]] # "none" /\ (\A d \in DVs : dc[d] # "none" => dc'[d] # "none")
      BY <1>10, <1>a DEF MonitorCreateDC, MonitorInv, TypeOK
    <2>2. QED
      BY <1>10, <1>c, <2>1, SameStatus DEF MonitorCreateDC, Stage, Leaves
  <1>11. CASE MonitorDeploying
    <2>1. pc = "deploying" /\ named[cur] /\ dc[dvOf[cur]] # "none" /\ Resubmit
      BY <1>11, <1>b, <1>c DEF MonitorDeploying, Stage, Course
    <2>2. ~Leaves
      BY <1>a, <2>1 DEF Resubmit, Leaves, MonitorInv, TypeOK
    <2>3. QED
      BY <1>11, <2>1, <2>2, NewStatus DEF MonitorDeploying, Resubmit
  <1>12. CASE MonitorServe
    <2>1. services'[dvOf[cur]] /\ (\A d \in DVs : services[d] => services'[d])
      BY <1>12, <1>a DEF MonitorServe, MonitorInv, TypeOK
    <2>2. QED
      BY <1>12, <1>c, <2>1, SameStatus DEF MonitorServe, Stage, Leaves
  <1>13. CASE MonitorConnect
    <2>1. pc = "connect" /\ services[dvOf[cur]] /\ status[cur] = "DEPLOYING"
      BY <1>13, <1>c DEF MonitorConnect, Stage
    <2>2. connections' = connections \cup {cur}
      BY <1>13, <2>1 DEF MonitorConnect
    <2>3. /\ sourceId' = sourceId \/ sourceId' = [sourceId EXCEPT ![dvOf[cur]] = cur]
          /\ dvOf[cur] \notin Mortal => sourceId'[dvOf[cur]] = cur
      <3>1. dvOf[cur] \notin Mortal => dvOf[cur] \in dvs
        BY <1>a, <2>1 DEF Alone, Given
      <3>2. sourceId \in [DVs -> Works \cup {None}] /\ dvOf[cur] \in DVs
        BY <1>a, <2>1 DEF MonitorInv, TypeOK
      <3>3. QED
        BY <1>13, <2>1, <3>1, <3>2 DEF MonitorConnect
    <2>4. Stage'
      BY <1>13, <2>1, <2>2, <2>3 DEF MonitorConnect, Stage
    <2>5. QED
      BY <1>13, <2>1, <2>2, <2>3, <2>4, SameStatus DEF MonitorConnect, Leaves
  <1>14. CASE MonitorRunning
    <2>1. pc = "running" /\ named[cur]
      BY <1>14, <1>b, <1>c DEF MonitorRunning, Stage, Course
    <2>2. QED
      BY <1>14, <2>1, NewStatus DEF MonitorRunning, Leaves
  <1>15. CASE MonitorThrows
    BY <1>15, <1>c, SameStatus DEF MonitorThrows, Fails, Stage
  <1>16. CASE MonitorConnectUnsaved
    BY <1>16, <1>c, SameStatus DEF MonitorConnectUnsaved, Fails, Stage
  <1>17. CASE MonitorDeployingThrows
    <2>1. pc = "deploying" /\ named[cur] /\ failures' # 0
      BY <1>17, <1>b, <1>c DEF MonitorDeployingThrows, Fails, Stage, Course
    <2>2. QED
      BY <1>17, <2>1, NewStatus DEF MonitorDeployingThrows, Fails
  <1>18. CASE MonitorFinally
    BY <1>18, SameStatus DEF MonitorFinally, Stage, Leaves
  <1>19. QED
    BY <1>1, <1>2, <1>3, <1>4, <1>5, <1>6, <1>7, <1>8, <1>9, <1>10, <1>11, <1>12,
       <1>13, <1>14, <1>15, <1>16, <1>17, <1>18, <1>20 DEF Monitor

-----------------------------------------------------------------------------
(* The pool, and the whole.                                                *)

\* A step of the pool that does not concern the monitor's variables.
LEMMA PoolAlone ==
  ASSUME MonitorInv, OnceInv, Alone, NEW t \in PoolThreads, PoolStep(t)
  PROVE  Alone'
  <1> USE DEF workVars, monVars, shiftVars, synVars
  <1>a. /\ \A i \in 1..Len(taskQueue) : taskQueue[i] \in Task /\ taskQueue[i].work \in Works
        /\ \A u \in PoolThreads : thread[u] # NoTask => thread[u] \in Task /\ thread[u].work \in Works
    <2>1. /\ \A i \in 1..Len(taskQueue) : taskQueue[i] \in Task
          /\ \A u \in PoolThreads : thread[u] # NoTask => thread[u] \in Task
      BY DEF MonitorInv, TypeOK
    <2>2. QED
      BY <2>1, TaskStages
  <1>b. Runner /\ Stage /\ Tasks /\ Given
    BY DEF Alone
  <1>c. UNCHANGED <<monVars, request, dvOf, synVars>>
    BY DEF PoolStep, TaskTake, ConfigureCreate, ConfigureFinish, ConfigureFails,
           DeleteGroup, DeleteGroupFails, DeleteThrows, DeleteFinish
  <1>d. Runner' /\ (\A w \in Works : AtWork(w)' <=> AtWork(w))
    BY <1>b, <1>c DEF Runner, AtWork, InQueue
  <1>e. thread[t].kind \in {"configure", "delete"} =>
          /\ thread[t] # NoTask /\ thread[t].kind = "configure" /\ thread[t].work \in Works
          /\ status[thread[t].work] = "CONFIGURING"
    BY <1>a, <1>b DEF Tasks, NoTask
  <1>1. CASE TaskTake(t)
    <2>1. /\ taskQueue' = Tail(taskQueue) /\ taskQueue \in Seq(Task) /\ taskQueue # <<>>
          /\ \A u \in PoolThreads : thread'[u] = IF u = t THEN taskQueue[1] ELSE thread[u]
          /\ UNCHANGED <<workVars, shiftVars>>
      BY <1>1 DEF TaskTake, MonitorInv, TypeOK
    <2>2. /\ \A i \in 1..Len(taskQueue') : /\ i + 1 \in 1..Len(taskQueue)
                                           /\ taskQueue'[i] = taskQueue[i + 1]
          /\ 1 \in 1..Len(taskQueue)
      BY <2>1
    <2>3. taskQueue[1].at # "finish"
      BY <1>b, <2>2 DEF Tasks
    <2>4. Tasks'
      BY <1>b, <2>1, <2>2, <2>3 DEF Tasks
    <2>5. Stage' /\ Given'
      BY <1>b, <1>c, <2>1 DEF Stage, Given, Exists
    <2>6. ASSUME NEW w \in Works PROVE Course(w)' /\ Served(w)' /\ Tended(w)'
      BY <1>c, <1>d, <2>1 DEF Alone, Course, Served, Tended
    <2>7. QED
      BY <1>d, <2>4, <2>5, <2>6 DEF Alone
  <1>2. CASE ConfigureCreate(t)
    <2>1. /\ thread[t] \in Task /\ thread[t].work \in Works /\ thread[t].kind = "configure"
          /\ status[thread[t].work] = "CONFIGURING" /\ thread[t] # NoTask
      BY <1>2, <1>a, <1>e DEF ConfigureCreate, Runs
    <2>2. /\ builds'[thread[t].work] = "running"
          /\ \A w \in Works : builds[w] # "none" => builds'[w] # "none"
          /\ UNCHANGED <<workVars, taskQueue, dc, services, failures>>
      BY <1>2, <2>1 DEF ConfigureCreate, MonitorInv, TypeOK
    <2>3. /\ thread'[t].kind = "configure" /\ thread'[t].work = thread[t].work
          /\ \A u \in PoolThreads \ {t} : thread'[u] = thread[u]
      BY <1>2, <2>1 DEF ConfigureCreate, Goto, MonitorInv, TypeOK, Task
    <2>4. Tasks'
      BY <1>a, <1>b, <2>1, <2>2, <2>3 DEF Tasks
    <2>5. Stage' /\ Given'
      BY <1>b, <1>c, <2>2 DEF Stage, Given, Exists
    <2>6. ASSUME NEW w \in Works PROVE Course(w)' /\ Served(w)' /\ Tended(w)'
      BY <1>c, <1>d, <2>2 DEF Alone, Course, Served, Tended
    <2>7. QED
      BY <1>d, <2>4, <2>5, <2>6 DEF Alone
  <1>3. CASE ConfigureFinish(t) \/ ConfigureFails(t)
    <2> DEFINE v == thread[t].work
    <2>1. /\ v \in Works /\ thread[t].kind = "configure" /\ thread[t] # NoTask
          /\ status[v] = "CONFIGURING" /\ ~named[v]
      <3>1. /\ v \in Works /\ thread[t].kind = "configure" /\ thread[t] # NoTask
            /\ status[v] = "CONFIGURING"
        BY <1>3, <1>e DEF ConfigureFinish, ConfigureFails, Runs
      <3>2. Course(v)
        BY <3>1 DEF Alone
      <3>3. QED
        BY <3>1, <3>2 DEF Course
    <2>2. /\ status'[v] = IF ConfigureFails(t) THEN "FAILED" ELSE status'[v]
          /\ ~ConfigureFails(t) => status'[v] = "BUILDING" /\ named'[v] /\ failures' = failures
                                   /\ builds[v] # "none"
          /\ ConfigureFails(t) => ~named'[v]
          /\ \A w \in Works \ {v} : status'[w] = status[w] /\ named'[w] = named[w]
          /\ UNCHANGED <<taskQueue, builds, dc, services>>
      <3>1. CASE ConfigureFails(t)
        BY <2>1, <3>1 DEF ConfigureFails, MonitorInv, TypeOK
      <3>2. CASE ~ConfigureFails(t)
        <4>1. builds[v] # "none"
          BY <1>3, <1>b, <2>1, <3>2 DEF ConfigureFinish, Runs, Tasks
        <4>2. QED
          BY <1>3, <2>1, <3>2, <4>1 DEF ConfigureFinish, MonitorInv, TypeOK
      <3>3. QED
        BY <3>1, <3>2
    <2>3. failures' = 0 => failures = 0
      BY <1>3, PublishAssumption DEF ConfigureFinish, ConfigureFails, Fails, MonitorInv, TypeOK
    <2>4. \A u \in PoolThreads : thread'[u] = IF u = t THEN NoTask ELSE thread[u]
      BY <1>3 DEF ConfigureFinish, ConfigureFails, Ends, MonitorInv, TypeOK
    <2>5. status'[v] \in {"BUILDING", "FAILED"}
      BY <2>2
    <2>6. Tasks'
      <3>1. t \in RunningConfigure(v)
        BY <2>1 DEF RunningConfigure
      <3>2. QueuedConfigure(v) = {} /\ RunningConfigure(v) \subseteq {t}
        BY <2>1, <3>1 DEF OnceInv, ConfiguredOnce
      <3>3. \A i \in 1..Len(taskQueue) : taskQueue[i].work # v
        BY <1>b, <3>2 DEF QueuedConfigure, Tasks
      <3>4. \A u \in PoolThreads : thread'[u] # NoTask => thread'[u] = thread[u] /\ thread[u].work # v
        BY <1>b, <2>4, <3>2 DEF RunningConfigure, Tasks
      <3>5. QED
        BY <1>a, <1>b, <2>2, <3>3, <3>4 DEF Tasks
    <2>7. Stage'
      <3>1. pc \notin {"idle", "sleep", "publish", "finally"} => cur # v
        BY <1>b, <1>d, <2>1 DEF Alone, Course, Stage, AtWork, MonitorInv, TypeOK, PC
      <3>2. pc # "idle" => cur \in Works
        BY DEF MonitorInv, CurOK
      <3>3. QED
        BY <1>b, <1>c, <2>2, <3>1, <3>2 DEF Stage
    <2>8. Given'
      <3>1. \A w \in Works : Exists(w)' <=> Exists(w)
        BY <2>1, <2>2, <2>5 DEF Exists
      <3>2. \A w : w \in connections => w \in Works
        BY DEF MonitorInv, TypeOK
      <3>3. QED
        BY <1>b, <1>c, <3>1, <3>2 DEF Given
    <2>9. ASSUME NEW w \in Works PROVE Course(w)' /\ Served(w)' /\ Tended(w)'
      <3>1. Course(w) /\ Served(w) /\ Tended(w)
        BY DEF Alone
      <3>2. CASE w = v
        <4>1. AtWork(w)
          BY <2>1, <3>2 DEF MonitorInv, NotForgotten, AtWork
        <4>2. Course(w)' /\ Served(w)'
          BY <1>d, <2>2, <3>2, <4>1 DEF Course, Served, PublishStatus
        <4>3. Tended(w)'
          BY <1>d, <3>2, <4>1 DEF Tended
        <4>4. QED
          BY <4>2, <4>3
      <3>3. CASE w # v
        BY <1>c, <1>d, <2>2, <2>3, <3>1, <3>3 DEF Course, Served, Tended
      <3>4. QED
        BY <3>2, <3>3
    <2>10. QED
      BY <1>d, <2>6, <2>7, <2>8, <2>9 DEF Alone
  <1>4. CASE DeleteGroup(t) \/ DeleteGroupFails(t) \/ DeleteThrows(t) \/ DeleteFinish(t)
    BY <1>4, <1>e DEF DeleteGroup, DeleteGroupFails, DeleteThrows, DeleteFinish, Runs
  <1>5. QED
    BY <1>1, <1>2, <1>3, <1>4 DEF PoolStep

LEMMA RestartAlone ==
  ASSUME MonitorInv, Alone, Restart
  PROVE  Alone'
  <1>1. /\ \A w \in Works : status'[w] = IF status[w] = "UNUSED" THEN "UNUSED" ELSE "LOST"
        /\ queue' = <<>> /\ pc' = "idle" /\ taskQueue' = <<>>
        /\ \A t \in PoolThreads : thread'[t] = NoTask
        /\ UNCHANGED <<dvOf, named, connections, dvs>>
    BY DEF Restart
  <1>2. Runner' /\ Stage' /\ Tasks'
    BY <1>1 DEF Runner, Stage, Tasks
  <1>3. Given'
    <2>1. \A r \in Publishers : request'[r].at \in {"idle", "done"}
      BY DEF Restart, Idle, Done
    <2>2. \A w \in Works : Exists(w)' <=> Exists(w)
      BY <1>1 DEF Exists
    <2>3. \A w : w \in connections => w \in Works
      BY DEF MonitorInv, TypeOK
    <2>4. QED
      BY <1>1, <2>1, <2>2, <2>3 DEF Alone, Given
  <1>4. ASSUME NEW w \in Works PROVE Course(w)' /\ Served(w)' /\ Tended(w)'
    BY <1>1 DEF Alone, Course, Served, Tended, AtWork, InQueue
  <1>5. QED
    BY <1>2, <1>3, <1>4 DEF Alone

LEMMA AloneInit == Init => Alone
  <1> SUFFICES ASSUME Init PROVE Alone
    OBVIOUS
  <1>1. Runner /\ Stage
    BY DEF Init, Runner, Stage
  <1>2. Tasks
    BY DEF Init, Tasks
  <1>3. Given
    BY DEF Init, Given, Exists, Idle
  <1>4. ASSUME NEW w \in Works PROVE Course(w) /\ Served(w) /\ Tended(w)
    BY DEF Init, Course, Served, Tended, AtWork, InQueue
  <1>5. QED
    BY <1>1, <1>2, <1>3, <1>4 DEF Alone

LEMMA AloneNext ==
  ASSUME MonitorInv, OnceInv, Alone, [Next]_vars, Undisturbed, Undisturbed'
  PROVE  Alone'
  <1> USE DEF workVars, monVars, poolVars, shiftVars, synVars
  <1>0. Given
    BY DEF Alone
  <1>1. ASSUME NEW r \in Publishers \cup Unpublishers, Rest(r)
        PROVE  Alone'
    <2>1. ASSUME NEW d \in DVs, r \in Publishers, PublishRead(r, d)
          PROVE  Alone'
      <3>1. Given'
        <4>1. \A q \in Publishers : request'[q].at \in {"idle", "enqueue", "done"}
          BY <1>0, <2>1 DEF PublishRead, Given, MonitorInv, TypeOK
        <4>2. QED
          BY <1>0, <2>1, <4>1 DEF PublishRead, Given, Exists
      <3>2. failures' = 0 => failures = 0
        BY <2>1, PublishAssumption DEF PublishRead, Fails, MonitorInv, TypeOK
      <3>3. QED
        BY <2>1, <3>1, <3>2, QuietAlone DEF PublishRead
    <2>2. QED
      BY <1>1, <2>1, RestAlone, EnqueueAlone
  <1>2. CASE Monitor
    BY <1>2, MonitorAlone
  <1>3. ASSUME NEW t \in PoolThreads, PoolStep(t)
        PROVE  Alone'
    BY <1>3, PoolAlone
  <1>4. ASSUME NEW w \in Works, BuildEnds(w) \/ Integrate(w)
        PROVE  Alone'
    <2>1. \A x \in Works : builds[x] # "none" => builds'[x] # "none"
      BY <1>4 DEF BuildEnds, Integrate, MonitorInv, TypeOK
    <2>2. Given'
      BY <1>0, <1>4 DEF BuildEnds, Integrate, Given, Exists
    <2>3. QED
      BY <1>4, <2>1, <2>2, QuietAlone DEF BuildEnds, Integrate
  <1>5. ASSUME NEW d \in DVs, RolloutStarts(d) \/ RolloutEnds(d) \/ DropDV(d) \/ CreateDV(d)
        PROVE  Alone'
    <2>1. \A x \in DVs : dc[x] # "none" => dc'[x] # "none"
      BY <1>5 DEF RolloutStarts, RolloutEnds, DropDV, CreateDV, MonitorInv, TypeOK
    <2>2. \A x \in DVs \ Mortal : sourceId'[x] = sourceId[x]
      BY <1>5 DEF RolloutStarts, RolloutEnds, DropDV, CreateDV, MonitorInv, TypeOK
    <2>3. Given'
      BY <1>0, <1>5 DEF RolloutStarts, RolloutEnds, DropDV, CreateDV, Given, Exists
    <2>4. QED
      BY <1>5, <2>1, <2>2, <2>3, QuietAlone DEF RolloutStarts, RolloutEnds, DropDV, CreateDV
  <1>6. CASE Restart
    BY <1>6, RestartAlone
  <1>7. CASE UNCHANGED vars
    <2>1. Given'
      BY <1>0, <1>7 DEF vars, Given, Exists
    <2>2. QED
      BY <1>7, <2>1, QuietAlone DEF vars
  <1>8. QED
    BY <1>1, <1>2, <1>3, <1>4, <1>5, <1>6, <1>7 DEF Next, OpenShift

LEMMA AloneInvariant == Spec => []AloneInv
  <1>1. Init => (Undisturbed => Alone)
    BY AloneInit
  <1>2. MonitorInv /\ OnceInv /\ (Undisturbed => Alone) /\ [Next]_vars => (Undisturbed => Alone)'
    BY AloneNext, StillUndisturbed DEF MonitorInv
  <1>3. QED
    BY <1>1, <1>2, MonitorInvariant, OnceInvariant, PTL DEF Spec, AloneInv

\* As long as nobody unpublishes, no two runs of one work are queued or go on.
THEOREM OneRunnerCorrect == Spec => []OneRunner
  <1>1. AloneInv => OneRunner
    BY DEF AloneInv, Alone, Runner, OneRunner
  <1>2. QED
    BY <1>1, AloneInvariant, PTL

\* As long as nobody unpublishes and no call fails, what is built or deployed is
\* monitored.
THEOREM BuildMonitoredCorrect == Spec => []BuildMonitored
  <1>1. AloneInv => BuildMonitored
    BY DEF AloneInv, Alone, Tended, AtWork, BuildMonitored
  <1>2. QED
    BY <1>1, AloneInvariant, PTL

\* As long as nobody unpublishes, what is RUNNING is served and connected.
THEOREM RunningIsServedCorrect == Spec => []RunningIsServed
  <1>1. AloneInv => RunningIsServed
    BY DEF AloneInv, Alone, Served, RunningIsServed
  <1>2. QED
    BY <1>1, AloneInvariant, PTL

\* What a step makes of the status of a publish.
LEMMA ForwardStep ==
  ASSUME MonitorInv, Alone, [Next]_vars, Undisturbed, Undisturbed',
         NEW w \in Works, status[w] # status'[w]
  PROVE  Rank(status[w]) < Rank(status'[w])
  <1> USE DEF workVars
  <1>a. Stage /\ Tasks /\ Course(w)
    BY DEF Alone
  <1>b. status \in [Works -> Status \cup {"UNUSED", "LOST"}]
    BY DEF MonitorInv, TypeOK
  <1>1. ASSUME NEW r \in Publishers \cup Unpublishers, Rest(r)
        PROVE  Rank(status[w]) < Rank(status'[w])
    <2>1. PICK v \in Works : PublishEnqueue(r, v)
      BY <1>1, RestAlone DEF PublishRead
    <2>2. status[w] = "UNUSED" /\ status'[w] = "SUBMITTED"
      BY <1>b, <2>1 DEF PublishEnqueue, Fresh
    <2>3. QED
      BY <2>2 DEF Rank
  <1>2. CASE Monitor
    <2>0. /\ pc \notin {"idle", "finally"} =>
               /\ cur \in Works
               /\ Course(cur)
               /\ \/ status[cur] \in {"SUBMITTED", "CONFIGURING", "BUILDING", "DEPLOYING"}
                  \/ status[cur] = "FAILED" /\ ~named[cur]
      BY DEF Alone, AtWork, Course, MonitorInv, CurOK
    <2>1. CASE MonitorConfigure
      <3>1. status[w] = "SUBMITTED" /\ status'[w] = "CONFIGURING"
        BY <1>a, <1>b, <2>0, <2>1 DEF MonitorConfigure, Stage
      <3>2. QED
        BY <3>1 DEF Rank
    <2>2. CASE MonitorBuild \/ MonitorDeployment
      <3>1. status[w] \in {"BUILDING", "DEPLOYING"} /\ status'[w] \in {"FAILED", "CANCELLED"}
        BY <1>a, <1>b, <2>0, <2>2 DEF MonitorBuild, MonitorDeployment, Phase, Stage
      <3>2. QED
        BY <3>1 DEF Rank
    <2>3. CASE MonitorDeploying \/ MonitorDeployingThrows
      <3>1. status[w] = "BUILDING" /\ status'[w] = "DEPLOYING"
        BY <1>a, <1>b, <2>0, <2>3 DEF MonitorDeploying, MonitorDeployingThrows, Stage
      <3>2. QED
        BY <3>1 DEF Rank
    <2>4. CASE MonitorRunning
      <3>1. status[w] = "DEPLOYING" /\ status'[w] = "RUNNING"
        BY <1>a, <1>b, <2>0, <2>4 DEF MonitorRunning, Stage
      <3>2. QED
        BY <3>1 DEF Rank
    <2>5. QED
      BY <1>2, <1>a, <2>1, <2>2, <2>3, <2>4
      DEF Monitor, MonitorTake, MonitorAwaitDelete, MonitorRetryDelete, MonitorDeleted,
          MonitorEnded, MonitorProceed, MonitorRedelete, MonitorPublish, MonitorBuilt,
          MonitorCreateDC, MonitorServe, MonitorConnect, MonitorThrows, MonitorConnectUnsaved,
          MonitorFinally, Stage
  <1>3. ASSUME NEW t \in PoolThreads, PoolStep(t)
        PROVE  Rank(status[w]) < Rank(status'[w])
    <2>1. thread[t].kind \in {"configure", "delete"} =>
            /\ thread[t].kind = "configure"
            /\ status[thread[t].work] = "CONFIGURING"
      BY <1>a DEF Tasks, NoTask
    <2>2. status[w] = "CONFIGURING" /\ status'[w] \in {"BUILDING", "FAILED"}
      BY <1>3, <1>b, <2>1 DEF PoolStep, TaskTake, ConfigureCreate, ConfigureFinish, ConfigureFails,
                              DeleteGroup, DeleteGroupFails, DeleteThrows, DeleteFinish, Runs
    <2>3. QED
      BY <2>2 DEF Rank
  <1>4. ASSUME NEW v \in Works, BuildEnds(v) \/ Integrate(v)
        PROVE  Rank(status[w]) < Rank(status'[w])
    BY <1>4 DEF BuildEnds, Integrate
  <1>5. ASSUME NEW d \in DVs, RolloutStarts(d) \/ RolloutEnds(d) \/ DropDV(d) \/ CreateDV(d)
        PROVE  Rank(status[w]) < Rank(status'[w])
    BY <1>5 DEF RolloutStarts, RolloutEnds, DropDV, CreateDV
  <1>6. CASE Restart
    <2>1. status'[w] = "LOST" /\ status[w] \in PublishStatus
      BY <1>6, <1>a DEF Restart, Course
    <2>2. QED
      BY <2>1 DEF Rank, PublishStatus
  <1>7. CASE UNCHANGED vars
    BY <1>7 DEF vars
  <1>8. QED
    BY <1>1, <1>2, <1>3, <1>4, <1>5, <1>6, <1>7 DEF Next, OpenShift

\* As long as nobody unpublishes, the status of a publish only moves forward.
THEOREM StatusForwardCorrect == Spec => StatusForward
  <1>1. AloneInv /\ [Next]_vars =>
          [Undisturbed' => \A w \in Works : status[w] # status'[w] => Rank(status[w]) < Rank(status'[w])]_status
    BY ForwardStep, StillUndisturbed DEF AloneInv, MonitorInv
  <1>2. QED
    BY <1>1, AloneInvariant, PTL DEF Spec, StatusForward
=============================================================================
