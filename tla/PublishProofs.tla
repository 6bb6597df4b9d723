---------------------------- MODULE PublishProofs ----------------------------
(***************************************************************************)
(* Theorems about Publish, for every set of virtualizations, requests,     *)
(* works and pool threads and any number of failing calls.                 *)
(***************************************************************************)
EXTENDS Publish, TLAPS

\* The monitor has a work whenever it is not idle.
CurOK == pc # "idle" => cur \in Works

-----------------------------------------------------------------------------
(* Type correctness.                                                       *)

LEMMA DoneRequest == Idle \in Request /\ Done \in Request
  BY DEF Idle, Done, Request

LEMMA NewTask ==
  ASSUME NEW w \in Works
  PROVE  ConfigureTask(w) \in Task /\ DeleteTask(w) \in Task
  BY DEF ConfigureTask, DeleteTask, Task

LEMMA NoTaskIsNoTask == NoTask \notin Task
  BY DEF NoTask, Task

\* What the cluster says is a status, and none of a publish without a build.
LEMMA ClusterStatusNew ==
  ASSUME TypeOK, NEW d \in DVs
  PROVE  ClusterStatus(d) \subseteq Status \ {"SUBMITTED", "CONFIGURING"}
  <1>1. ASSUME NEW w \in BuildsOf(d)
        PROVE  builds[w] \in {"running", "complete", "failed", "cancelled"}
    BY <1>1 DEF TypeOK, BuildsOf, BuildPhase
  <1>2. dc[d] \in DCState
    BY DEF TypeOK
  <1>3. QED
    BY <1>1, <1>2 DEF ClusterStatus, Status, PublishStatus, DCState

\* The steps of the REST threads.
LEMMA RestType ==
  ASSUME TypeOK, NEW r \in Publishers \cup Unpublishers, Rest(r)
  PROVE  TypeOK'
  <1> USE DEF TypeOK, workVars, monVars, poolVars, shiftVars, synVars
  <1>1. ASSUME NEW d \in DVs, PublishRead(r, d) PROVE TypeOK'
    <2>1. [at |-> "enqueue", dv |-> d] \in Request
      BY DEF Request
    <2>2. usedCache' \in (SUBSET Works) \cup {None}
      BY <1>1 DEF PublishRead, SeenInUse
    <2>3. failures' \in 0..MaxFailures
      BY <1>1, PublishAssumption DEF PublishRead, Fails
    <2>4. QED
      BY <1>1, <2>1, <2>2, <2>3 DEF PublishRead
  <1>2. ASSUME NEW d \in DVs, UnpublishRead(r, d) PROVE TypeOK'
    <2>1. [at |-> "lookup", dv |-> d] \in Request
      BY DEF Request
    <2>2. activeJobs[d] # None =>
            [at |-> "submit", work |-> activeJobs[d], monitor |-> FALSE] \in Request
      BY DEF Request
    <2>3. QED
      BY <1>2, <2>1, <2>2 DEF UnpublishRead
  <1>3. ASSUME NEW w \in Works, PublishEnqueue(r, w) PROVE TypeOK'
    <2>1. request[r].dv \in DVs
      BY <1>3 DEF PublishEnqueue, Fresh, Request
    <2>2. QED
      BY <1>3, <2>1, DoneRequest DEF PublishEnqueue, Fresh, Status, PublishStatus
  <1>4. ASSUME NEW w \in Works, UnpublishFound(r, w) PROVE TypeOK'
    <2>1. request[r].dv \in DVs
      BY <1>4 DEF UnpublishFound, Fresh, Request
    <2>2. [at |-> "submit", work |-> w, monitor |-> TRUE] \in Request
      BY DEF Request
    <2>3. PICK s \in ClusterStatus(request[r].dv) : status' = [status EXCEPT ![w] = s]
      BY <1>4 DEF UnpublishFound, Fresh
    <2>4. s \in Status
      BY <2>1, <2>3, ClusterStatusNew
    <2>5. usedCache' \in (SUBSET Works) \cup {None}
      BY <1>4 DEF UnpublishFound, Fresh, SeenInUse
    <2>6. QED
      BY <1>4, <2>1, <2>2, <2>3, <2>4, <2>5 DEF UnpublishFound, Fresh
  <1>5. ASSUME UnpublishActive(r) PROVE TypeOK'
    <2>1. request[r].dv \in DVs
      BY <1>5 DEF UnpublishActive, Request
    <2>2. [at |-> "submit", work |-> activeJobs[request[r].dv], monitor |-> TRUE] \in Request
      BY <1>5, <2>1 DEF UnpublishActive, Request
    <2>3. QED
      BY <1>5, <2>2 DEF UnpublishActive
  <1>6. ASSUME UnpublishRefused(r) PROVE TypeOK'
    <2>1. usedCache' \in (SUBSET Works) \cup {None}
      BY <1>6 DEF UnpublishRefused, SeenInUse
    <2>2. failures' \in 0..MaxFailures
      BY <1>6, PublishAssumption DEF UnpublishRefused, Fails
    <2>3. QED
      BY <1>6, <2>1, <2>2, DoneRequest DEF UnpublishRefused
  <1>7. ASSUME UnpublishSubmit(r) PROVE TypeOK'
    <2>1. /\ request[r].work \in Works
          /\ [request[r] EXCEPT !.at = "mark"] \in Request
      BY <1>7 DEF UnpublishSubmit, Request
    <2>2. DeleteTask(request[r].work) \in Task
      BY <2>1, NewTask
    <2>3. QED
      BY <1>7, <2>1, <2>2 DEF UnpublishSubmit
  <1>8. ASSUME UnpublishMark(r) PROVE TypeOK'
    <2>1. request[r].work \in Works
      BY <1>8 DEF UnpublishMark, Request
    <2>2. QED
      BY <1>8, <2>1, DoneRequest DEF UnpublishMark, Status, DeleteStatus
  <1>9. QED
    BY <1>1, <1>2, <1>3, <1>4, <1>5, <1>6, <1>7, <1>8 DEF Rest

LEMMA ResubmitType ==
  ASSUME queue \in Seq(Works), cur \in Works, Resubmit
  PROVE  queue' \in Seq(Works) /\ pc' = "finally"
  BY DEF Resubmit

\* The steps of the monitor keep the types, and leave it idle or with a work.
LEMMA MonitorType ==
  ASSUME TypeOK, CurOK, Monitor
  PROVE  TypeOK' /\ CurOK'
  <1> USE DEF TypeOK, CurOK, workVars, monVars, poolVars, shiftVars, synVars, PC
  <1>1. CASE MonitorTake
    <2>1. Head(queue) \in Works /\ Tail(queue) \in Seq(Works)
      BY <1>1 DEF MonitorTake
    <2>2. QED
      BY <1>1, <2>1 DEF MonitorTake
  <1>2. CASE MonitorAwaitDelete
    BY <1>2 DEF MonitorAwaitDelete, Resubmit
  <1>18. CASE MonitorRetryDelete
    BY <1>18, NewTask DEF MonitorRetryDelete
  <1>19. CASE MonitorDeleted
    BY <1>19, PublishAssumption DEF MonitorDeleted, RemoveSyndesisConnection, Fails
  <1>20. CASE MonitorEnded
    BY <1>20 DEF MonitorEnded
  <1>21. CASE MonitorProceed
    BY <1>21 DEF MonitorProceed
  <1>3. CASE MonitorRedelete
    BY <1>3 DEF MonitorRedelete, Resubmit, Status, DeleteStatus
  <1>4. CASE MonitorPublish
    <2>1. cur \in Works
      BY <1>4 DEF MonitorPublish
    <2>2. Resubmit => queue' \in Seq(Works) /\ pc' = "finally"
      BY <2>1, ResubmitType
    <2>3. QED
      BY <1>4, <2>1, <2>2 DEF MonitorPublish
  <1>5. CASE MonitorConfigure
    BY <1>5, NewTask DEF MonitorConfigure, Resubmit, Status, PublishStatus
  <1>6. CASE MonitorBuild
    <2>1. cur \in Works
      BY <1>6 DEF MonitorBuild
    <2>2. Resubmit => queue' \in Seq(Works) /\ pc' = "finally"
      BY <2>1, ResubmitType
    <2>3. QED
      BY <1>6, <2>1, <2>2 DEF MonitorBuild, Status, PublishStatus
  <1>23. CASE MonitorBuilt
    BY <1>23 DEF MonitorBuilt
  <1>7. CASE MonitorDeployment
    <2>1. cur \in Works
      BY <1>7 DEF MonitorDeployment
    <2>2. Resubmit => queue' \in Seq(Works) /\ pc' = "finally"
      BY <2>1, ResubmitType
    <2>3. QED
      BY <1>7, <2>1, <2>2 DEF MonitorDeployment, Status, PublishStatus
  <1>8. CASE MonitorCreateDC
    BY <1>8 DEF MonitorCreateDC, DCState
  <1>9. CASE MonitorDeploying
    <2>1. cur \in Works
      BY <1>9 DEF MonitorDeploying
    <2>2. Resubmit => queue' \in Seq(Works) /\ pc' = "finally"
      BY <2>1, ResubmitType
    <2>3. pc' = "finally" /\ queue' \in Seq(Works) /\ due' \in [DVs -> BOOLEAN]
      BY <1>9, <2>2 DEF MonitorDeploying
    <2>4. status' \in [Works -> Status \cup {"UNUSED", "LOST"}]
      BY <1>9 DEF MonitorDeploying, Status, PublishStatus
    <2>5. QED
      BY <1>9, <2>1, <2>3, <2>4 DEF MonitorDeploying
  <1>10. CASE MonitorServe
    BY <1>10 DEF MonitorServe
  <1>11. CASE MonitorConnect
    <2>1. cur \in Works /\ connections' \subseteq Works
      BY <1>11 DEF MonitorConnect
    <2>2. sourceId' \in [DVs -> Works \cup {None}]
      BY <1>11, <2>1 DEF MonitorConnect
    <2>3. QED
      BY <1>11, <2>1, <2>2 DEF MonitorConnect
  <1>12. CASE MonitorRunning
    BY <1>12 DEF MonitorRunning, Status, PublishStatus
  <1>13. CASE MonitorThrows
    BY <1>13, PublishAssumption DEF MonitorThrows, Fails
  <1>14. CASE MonitorConnectUnsaved
    BY <1>14, PublishAssumption DEF MonitorConnectUnsaved, Fails
  <1>15. CASE MonitorDeployingThrows
    BY <1>15, PublishAssumption DEF MonitorDeployingThrows, Fails, Status, PublishStatus
  <1>16. CASE MonitorFinally
    BY <1>16 DEF MonitorFinally
  <1>17. QED
    BY <1>1, <1>2, <1>3, <1>4, <1>5, <1>6, <1>7, <1>8, <1>9, <1>10, <1>11, <1>12,
       <1>13, <1>14, <1>15, <1>16, <1>18, <1>19, <1>20, <1>21, <1>23 DEF Monitor

\* A task goes to one of its own stages.
LEMMA TaskStages ==
  ASSUME NEW x \in Task
  PROVE  /\ x.work \in Works
         /\ x.kind = "configure" => [x EXCEPT !.at = "finish"] \in Task
         /\ x.kind = "delete" /\ x.at # "finish" => [x EXCEPT !.at = After(x.at)] \in Task
  BY DEF Task, After

\* The steps of the pool.
LEMMA PoolType ==
  ASSUME TypeOK, NEW t \in PoolThreads, PoolStep(t)
  PROVE  TypeOK'
  <1> USE DEF TypeOK, workVars, monVars, poolVars, shiftVars, synVars
  <1>1. CASE TaskTake(t)
    <2>1. Head(taskQueue) \in Task /\ Tail(taskQueue) \in Seq(Task)
      BY <1>1 DEF TaskTake
    <2>2. QED
      BY <1>1, <2>1 DEF TaskTake
  <1>2. ASSUME thread[t].kind \in {"configure", "delete"}
        PROVE  thread[t] \in Task /\ thread[t].work \in Works
    <2>1. thread[t] # NoTask
      BY <1>2 DEF NoTask
    <2>2. thread[t] \in Task
      BY <2>1
    <2>3. QED
      BY <2>2, TaskStages
  <1>3. CASE ConfigureCreate(t)
    <2>1. thread[t] \in Task /\ thread[t].work \in Works
      BY <1>2, <1>3 DEF ConfigureCreate, Runs
    <2>2. [thread[t] EXCEPT !.at = "finish"] \in Task
      BY <1>3, <2>1, TaskStages DEF ConfigureCreate, Runs
    <2>3. QED
      BY <1>3, <2>1, <2>2 DEF ConfigureCreate, Goto, BuildPhase
  <1>4. CASE ConfigureFinish(t)
    <2>1. thread[t].work \in Works
      BY <1>2, <1>4 DEF ConfigureFinish, Runs
    <2>2. QED
      BY <1>4, <2>1 DEF ConfigureFinish, Ends, Status, PublishStatus
  <1>5. CASE ConfigureFails(t)
    <2>1. thread[t].work \in Works
      BY <1>2, <1>5 DEF ConfigureFails
    <2>2. QED
      BY <1>5, <2>1, PublishAssumption DEF ConfigureFails, Ends, Fails, Status, PublishStatus
  <1>6. CASE DeleteGroup(t)
    <2>1. thread[t] \in Task /\ thread[t].work \in Works
      BY <1>2, <1>6 DEF DeleteGroup
    <2>2. [thread[t] EXCEPT !.at = After(thread[t].at)] \in Task
      BY <1>6, <2>1, TaskStages DEF DeleteGroup
    <2>3. thread' \in [PoolThreads -> Task \cup {NoTask}]
      BY <1>6, <2>2 DEF DeleteGroup, Goto
    <2>4. builds' \in [Works -> BuildPhase] /\ dc' \in [DVs -> DCState]
          /\ services' \in [DVs -> BOOLEAN]
      BY <1>6 DEF DeleteGroup, BuildPhase, DCState
    <2>5. QED
      BY <1>6, <2>3, <2>4 DEF DeleteGroup
  <1>12. CASE DeleteThrows(t)
    BY <1>12, PublishAssumption DEF DeleteThrows, Ends, Fails
  <1>7. CASE DeleteGroupFails(t)
    <2>1. thread[t] \in Task /\ thread[t].work \in Works
      BY <1>2, <1>7 DEF DeleteGroupFails
    <2>2. [thread[t] EXCEPT !.at = After(thread[t].at)] \in Task
      BY <1>7, <2>1, TaskStages DEF DeleteGroupFails
    <2>3. thread' \in [PoolThreads -> Task \cup {NoTask}]
      BY <1>7, <2>2 DEF DeleteGroupFails, Goto
    <2>4. QED
      BY <1>7, <2>1, <2>3, PublishAssumption DEF DeleteGroupFails, Fails, Status, DeleteStatus
  <1>8. CASE DeleteFinish(t)
    <2>1. thread[t].work \in Works
      BY <1>2, <1>8 DEF DeleteFinish, Runs
    <2>2. QED
      BY <1>8, <2>1 DEF DeleteFinish, Ends, Status, DeleteStatus
  <1>9. QED
    BY <1>1, <1>3, <1>4, <1>5, <1>6, <1>7, <1>8, <1>12 DEF PoolStep

\* Every variable has its type, and the monitor a work unless it is idle.
THEOREM TypeCorrect == Spec => [](TypeOK /\ CurOK)
  <1>1. Init => TypeOK /\ CurOK
    <2> SUFFICES ASSUME Init PROVE TypeOK /\ CurOK
      OBVIOUS
    <2>1. queue \in Seq(Works) /\ taskQueue \in Seq(Task)
      BY DEF Init
    <2>2. request \in [Publishers \cup Unpublishers -> Request]
      BY DoneRequest DEF Init
    <2>3. failures \in 0..MaxFailures
      BY PublishAssumption DEF Init
    <2>4. QED
      BY <2>1, <2>2, <2>3 DEF Init, TypeOK, CurOK, PC, BuildPhase, DCState
  <1>2. TypeOK /\ CurOK /\ [Next]_vars => TypeOK' /\ CurOK'
    <2> SUFFICES ASSUME TypeOK, CurOK, [Next]_vars
                 PROVE  TypeOK' /\ CurOK'
      OBVIOUS
    <2> USE DEF workVars, monVars, poolVars, shiftVars, synVars
    <2>1. ASSUME NEW r \in Publishers \cup Unpublishers, Rest(r)
          PROVE  TypeOK' /\ CurOK'
      <3>1. UNCHANGED <<cur, pc>>
        BY <2>1 DEF Rest, PublishRead, PublishEnqueue, UnpublishRead, UnpublishActive,
                    UnpublishFound, UnpublishRefused, UnpublishSubmit, UnpublishMark
      <3>2. QED
        BY <2>1, <3>1, RestType DEF CurOK
    <2>2. CASE Monitor
      BY <2>2, MonitorType
    <2>3. ASSUME NEW t \in PoolThreads, PoolStep(t)
          PROVE  TypeOK' /\ CurOK'
      <3>1. UNCHANGED <<cur, pc>>
        BY <2>3 DEF PoolStep, TaskTake, ConfigureCreate, ConfigureFinish, ConfigureFails,
                    DeleteGroup, DeleteGroupFails, DeleteThrows, DeleteFinish
      <3>2. QED
        BY <2>3, <3>1, PoolType DEF CurOK
    <2>4. ASSUME NEW w \in Works, BuildEnds(w) \/ Integrate(w)
          PROVE  TypeOK' /\ CurOK'
      <3>0. builds' \in [Works -> BuildPhase]
        BY <2>4 DEF BuildEnds, Integrate, TypeOK, BuildPhase, shiftVars
      <3>1. due' \in [DVs -> BOOLEAN]
        BY <2>4 DEF BuildEnds, Integrate, TypeOK, shiftVars
      <3>2. usedIn' \subseteq Works
        BY <2>4 DEF BuildEnds, Integrate, TypeOK, synVars
      <3>3. QED
        BY <2>4, <3>0, <3>1, <3>2 DEF BuildEnds, Integrate, TypeOK, CurOK
    <2>5. ASSUME NEW d \in DVs, RolloutStarts(d) \/ RolloutEnds(d) \/ DropDV(d) \/ CreateDV(d)
          PROVE  TypeOK' /\ CurOK'
      BY <2>5 DEF RolloutStarts, RolloutEnds, DropDV, CreateDV, TypeOK, CurOK, DCState
    <2>6. CASE Restart
      <3>1. request' \in [Publishers \cup Unpublishers -> Request]
        BY <2>6, DoneRequest DEF Restart
      <3>2. status' \in [Works -> Status \cup {"UNUSED", "LOST"}]
        BY <2>6 DEF Restart, TypeOK
      <3>3. queue' \in Seq(Works) /\ taskQueue' \in Seq(Task)
        BY <2>6 DEF Restart
      <3>4. QED
        BY <2>6, <3>1, <3>2, <3>3 DEF Restart, TypeOK, CurOK, PC
    <2>7. CASE UNCHANGED vars
      BY <2>7 DEF vars, TypeOK, CurOK
    <2>8. QED
      BY <2>1, <2>2, <2>3, <2>4, <2>5, <2>6, <2>7 DEF Next, OpenShift
  <1>3. QED
    BY <1>1, <1>2, PTL DEF Spec

-----------------------------------------------------------------------------
(* The map of active jobs, and the works that nobody forgets.              *)

\* What the queue, the monitor and the requests refer to has been created.
Exists(w) == status[w] # "UNUSED"
Known ==
  /\ \A i \in 1..Len(queue) : Exists(queue[i])
  /\ pc # "idle" => Exists(cur)
  /\ \A r \in Publishers \cup Unpublishers :
       request[r].at \in {"submit", "mark"} => Exists(request[r].work)

MonitorInv == TypeOK /\ CurOK /\ Known /\ ActiveIsCurrent /\ NotForgotten

LEMMA QueueAppend ==
  ASSUME queue \in Seq(Works), NEW x \in Works, queue' = Append(queue, x)
  PROVE  /\ InQueue(x)'
         /\ \A w \in Works : InQueue(w) => InQueue(w)'
         /\ \A i \in 1..Len(queue') : queue'[i] = x \/ (i \in 1..Len(queue) /\ queue'[i] = queue[i])
  <1>1. /\ Len(queue') = Len(queue) + 1
        /\ \A i \in 1..Len(queue) : queue'[i] = queue[i]
        /\ queue'[Len(queue) + 1] = x
        /\ Len(queue) \in Nat
    OBVIOUS
  <1>2. InQueue(x)'
    BY <1>1 DEF InQueue
  <1>3. \A w \in Works : InQueue(w) => InQueue(w)'
    BY <1>1 DEF InQueue
  <1>4. \A i \in 1..Len(queue') : queue'[i] = x \/ (i \in 1..Len(queue) /\ queue'[i] = queue[i])
    BY <1>1
  <1>5. QED
    BY <1>2, <1>3, <1>4

\* A step that leaves the monitor and the requests alone and makes no work
\* SUBMITTED or CONFIGURING.
LEMMA QuietStep ==
  ASSUME MonitorInv, UNCHANGED <<dvOf, monVars, request>>,
         \/ UNCHANGED status
         \/ \E w \in Works, s \in Status \ {"SUBMITTED", "CONFIGURING"} :
              status' = [status EXCEPT ![w] = s]
  PROVE  Known' /\ ActiveIsCurrent' /\ NotForgotten'
  <1> USE DEF MonitorInv, monVars
  <1>1. \A w \in Works : \/ status'[w] = status[w]
                         \/ status'[w] \in Status \ {"SUBMITTED", "CONFIGURING"}
    BY DEF TypeOK
  <1>2. "UNUSED" \notin Status
    BY DEF Status, PublishStatus, DeleteStatus
  <1>3. \A w \in Works : Exists(w) => Exists(w)'
    BY <1>1, <1>2 DEF Exists
  <1>4. Known'
    <2>1. \A i \in 1..Len(queue) : queue[i] \in Works
      BY DEF TypeOK
    <2>2. \A r \in Publishers \cup Unpublishers :
            request[r].at \in {"submit", "mark"} => request[r].work \in Works
      BY DEF TypeOK, Request
    <2>3. QED
      BY <1>3, <2>1, <2>2 DEF Known, CurOK
  <1>5. ActiveIsCurrent'
    BY DEF ActiveIsCurrent
  <1>6. NotForgotten'
    BY <1>1 DEF NotForgotten, InQueue
  <1>7. QED
    BY <1>4, <1>5, <1>6

\* A step of the monitor within one run of a work.
LEMMA RunStep ==
  ASSUME MonitorInv, pc # "idle", pc' # "idle",
         UNCHANGED <<dvOf, cur, activeJobs, request>>,
         UNCHANGED queue \/ queue' = Append(queue, cur),
         \/ UNCHANGED status
         \/ \E s \in Status \ {"SUBMITTED"} : status' = [status EXCEPT ![cur] = s],
         \/ queue' = Append(queue, cur)
         \/ pc' \in {"sleep", "publish", "configure"}
         \/ status'[cur] \notin {"SUBMITTED", "CONFIGURING"}
         \/ pc \notin {"sleep", "publish", "configure"} /\ UNCHANGED status
  PROVE  Known' /\ ActiveIsCurrent' /\ NotForgotten'
  <1> USE DEF MonitorInv
  <1>1. cur \in Works
    BY DEF CurOK
  <1>2. \A w \in Works \ {cur} : status'[w] = status[w]
    BY <1>1 DEF TypeOK
  <1>3. \A w \in Works : Exists(w) => Exists(w)'
    BY <1>1, <1>2 DEF Exists, TypeOK, Status, PublishStatus, DeleteStatus
  <1>4. \A w \in Works : InQueue(w) => InQueue(w)'
    BY <1>1, QueueAppend DEF TypeOK, InQueue
  <1>5. queue' = Append(queue, cur) => InQueue(cur)'
    BY <1>1, QueueAppend DEF TypeOK
  <1>6. Known'
    <2>1. \A i \in 1..Len(queue') :
            queue'[i] = cur \/ (i \in 1..Len(queue) /\ queue'[i] = queue[i])
      BY <1>1, QueueAppend DEF TypeOK
    <2>2. \A i \in 1..Len(queue) : queue[i] \in Works
      BY DEF TypeOK
    <2>3. \A r \in Publishers \cup Unpublishers :
            request[r].at \in {"submit", "mark"} => request[r].work \in Works
      BY DEF TypeOK, Request
    <2>4. QED
      BY <1>1, <1>3, <2>1, <2>2, <2>3 DEF Known, Exists
  <1>7. ActiveIsCurrent'
    BY DEF ActiveIsCurrent
  <1>8. NotForgotten'
    <2> SUFFICES ASSUME NEW w \in Works, status'[w] \in {"SUBMITTED", "CONFIGURING"}
                 PROVE  InQueue(w)' \/ (cur' = w /\ pc' \in {"sleep", "publish", "configure"})
      BY DEF NotForgotten
    <2>1. CASE w # cur
      BY <1>2, <1>4, <2>1 DEF NotForgotten
    <2>2. CASE w = cur
      BY <1>4, <1>5, <2>2 DEF NotForgotten
    <2>3. QED
      BY <2>1, <2>2
  <1>9. QED
    BY <1>6, <1>7, <1>8

\* The steps of the monitor.
LEMMA MonitorKeeps ==
  ASSUME MonitorInv, Monitor
  PROVE  Known' /\ ActiveIsCurrent' /\ NotForgotten'
  <1> USE DEF workVars, monVars, poolVars, shiftVars, synVars
  <1>0. pc # "idle" => cur \in Works /\ status[cur] \in Status \cup {"UNUSED", "LOST"}
    BY DEF MonitorInv, CurOK, TypeOK
  <1>1. CASE MonitorTake
    <2>1. /\ \A i \in 1..Len(queue') : i + 1 \in 1..Len(queue) /\ queue'[i] = queue[i + 1]
          /\ \A i \in 1..Len(queue) : queue[i] = cur' \/ (i - 1 \in 1..Len(queue') /\ queue[i] = queue'[i - 1])
          /\ 1 \in 1..Len(queue) /\ cur' = queue[1]
      <3>1. queue \in Seq(Works) /\ queue # <<>> /\ queue' = Tail(queue) /\ cur' = Head(queue)
        BY <1>1 DEF MonitorTake, MonitorInv, TypeOK
      <3>2. /\ Len(queue) \in Nat /\ Len(queue) > 0 /\ Len(queue') = Len(queue) - 1
            /\ \A i \in 1..Len(queue') : queue'[i] = queue[i + 1]
        BY <3>1
      <3>3. cur' = queue[1]
        BY <3>1
      <3>4. \A i \in 1..Len(queue) : queue[i] = cur' \/ (i - 1 \in 1..Len(queue') /\ queue[i] = queue'[i - 1])
        <4> TAKE i \in 1..Len(queue)
        <4>1. CASE i = 1
          BY <4>1, <3>3
        <4>2. CASE i # 1
          <5>1. i - 1 \in 1..Len(queue') /\ (i - 1) + 1 = i
            BY <4>2, <3>2
          <5>2. QED
            BY <5>1, <3>2
        <4>3. QED
          BY <4>1, <4>2
      <3>5. QED
        BY <3>2, <3>3, <3>4
    <2>2. Known'
      <3>1. UNCHANGED <<status, request>>
        BY <1>1 DEF MonitorTake
      <3>2. \A i \in 1..Len(queue) : Exists(queue[i])
        BY DEF MonitorInv, Known
      <3>3. \A i \in 1..Len(queue') : Exists(queue'[i])
        BY <2>1, <3>2
      <3>4. Exists(cur')
        BY <2>1, <3>2
      <3>5. QED
        BY <3>1, <3>3, <3>4 DEF Known, Exists, MonitorInv
    <2>3. ActiveIsCurrent'
      BY <1>1 DEF MonitorTake, MonitorInv, ActiveIsCurrent, TypeOK
    <2>4. NotForgotten'
      <3>1. pc = "idle" /\ pc' = "sleep" /\ UNCHANGED status
        BY <1>1 DEF MonitorTake
      <3>2. \A w \in Works : InQueue(w) => InQueue(w)' \/ cur' = w
        BY <2>1 DEF InQueue
      <3>3. QED
        BY <3>1, <3>2 DEF MonitorInv, NotForgotten
    <2>5. QED
      BY <2>2, <2>3, <2>4
  <1>2. CASE MonitorAwaitDelete
    BY <1>2, RunStep DEF MonitorAwaitDelete, Resubmit
  <1>3. CASE MonitorRetryDelete
    BY <1>3, <1>0, RunStep DEF MonitorRetryDelete
  <1>4. CASE MonitorDeleted
    BY <1>4, RunStep DEF MonitorDeleted
  <1>5. CASE MonitorEnded
    BY <1>5, RunStep DEF MonitorEnded
  <1>6. CASE MonitorProceed
    BY <1>6, RunStep DEF MonitorProceed
  <1>7. CASE MonitorRedelete
    BY <1>7, RunStep DEF MonitorRedelete, Resubmit, Status, DeleteStatus
  <1>8. CASE MonitorPublish
    BY <1>8, RunStep DEF MonitorPublish, Resubmit
  <1>9. CASE MonitorConfigure
    BY <1>9, RunStep DEF MonitorConfigure, Resubmit, Status, PublishStatus
  <1>10. CASE MonitorBuild
    <2>1. \/ UNCHANGED status
          \/ \E s \in Status \ {"SUBMITTED"} : status' = [status EXCEPT ![cur] = s]
      BY <1>10 DEF MonitorBuild, Status, PublishStatus
    <2>2. \/ queue' = Append(queue, cur)
          \/ UNCHANGED <<status, queue>>
          \/ UNCHANGED queue /\ status'[cur] \notin {"SUBMITTED", "CONFIGURING"}
      BY <1>10, <1>0 DEF MonitorBuild, Resubmit, MonitorInv, TypeOK
    <2>3. pc = "build" /\ pc' # "idle" /\ UNCHANGED <<dvOf, cur, activeJobs, request>>
      BY <1>10 DEF MonitorBuild, Resubmit
    <2>4. QED
      BY <2>1, <2>2, <2>3, RunStep
  <1>21. CASE MonitorBuilt
    BY <1>21, RunStep DEF MonitorBuilt
  <1>11. CASE MonitorDeployment
    <2>1. \/ UNCHANGED status
          \/ \E s \in Status \ {"SUBMITTED"} : status' = [status EXCEPT ![cur] = s]
      BY <1>11 DEF MonitorDeployment, Status, PublishStatus
    <2>2. \/ queue' = Append(queue, cur)
          \/ UNCHANGED <<status, queue>>
          \/ UNCHANGED queue /\ status'[cur] \notin {"SUBMITTED", "CONFIGURING"}
      BY <1>11, <1>0 DEF MonitorDeployment, Resubmit, MonitorInv, TypeOK
    <2>3. pc = "built" /\ pc' # "idle" /\ UNCHANGED <<dvOf, cur, activeJobs, request>>
      BY <1>11 DEF MonitorDeployment, Resubmit
    <2>4. QED
      BY <2>1, <2>2, <2>3, RunStep
  <1>12. CASE MonitorCreateDC
    BY <1>12, RunStep DEF MonitorCreateDC
  <1>13. CASE MonitorDeploying
    <2>1. /\ status' = [status EXCEPT ![cur] = "DEPLOYING"]
          /\ status'[cur] = "DEPLOYING"
          /\ "DEPLOYING" \in Status \ {"SUBMITTED"}
      BY <1>13, <1>0 DEF MonitorDeploying, Status, PublishStatus, MonitorInv, TypeOK
    <2>2. UNCHANGED queue \/ queue' = Append(queue, cur)
      BY <1>13 DEF MonitorDeploying, Resubmit
    <2>3. pc = "deploying" /\ pc' # "idle" /\ UNCHANGED <<dvOf, cur, activeJobs, request>>
      BY <1>13 DEF MonitorDeploying, Resubmit
    <2>4. QED
      BY <2>1, <2>2, <2>3, RunStep
  <1>14. CASE MonitorServe
    BY <1>14, RunStep DEF MonitorServe
  <1>15. CASE MonitorConnect
    BY <1>15, RunStep DEF MonitorConnect
  <1>16. CASE MonitorRunning \/ MonitorDeployingThrows
    <2>1. PICK s \in {"RUNNING", "DEPLOYING"} : status' = [status EXCEPT ![cur] = s]
      BY <1>16 DEF MonitorRunning, MonitorDeployingThrows
    <2>2. status'[cur] = s /\ s \in Status \ {"SUBMITTED"}
      BY <1>16, <1>0, <2>1
      DEF MonitorRunning, MonitorDeployingThrows, Status, PublishStatus, MonitorInv, TypeOK
    <2>3. /\ pc # "idle" /\ pc' # "idle"
          /\ UNCHANGED <<dvOf, cur, activeJobs, request, queue>>
      BY <1>16 DEF MonitorRunning, MonitorDeployingThrows
    <2>4. QED
      BY <2>1, <2>2, <2>3, RunStep
  <1>17. CASE MonitorThrows
    BY <1>17, RunStep DEF MonitorThrows
  <1>18. CASE MonitorConnectUnsaved
    BY <1>18, RunStep DEF MonitorConnectUnsaved
  <1>19. CASE MonitorFinally
    <2>1. Known'
      BY <1>19 DEF MonitorFinally, MonitorInv, Known, Exists
    <2>2. ActiveIsCurrent'
      BY <1>19 DEF MonitorFinally, MonitorInv, ActiveIsCurrent, TypeOK
    <2>3. NotForgotten'
      BY <1>19 DEF MonitorFinally, MonitorInv, NotForgotten, InQueue
    <2>4. QED
      BY <2>1, <2>2, <2>3
  <1>20. QED
    BY <1>1, <1>2, <1>3, <1>4, <1>5, <1>6, <1>7, <1>8, <1>9, <1>10, <1>11, <1>12,
       <1>13, <1>14, <1>15, <1>16, <1>17, <1>18, <1>19, <1>21 DEF Monitor

\* A request that creates no work and marks none.
LEMMA AskStep ==
  ASSUME MonitorInv, NEW r \in Publishers \cup Unpublishers, NEW q \in Request,
         UNCHANGED <<workVars, monVars>>, request' = [request EXCEPT ![r] = q],
         q.at \in {"submit", "mark"} => q.work \in Works /\ Exists(q.work)
  PROVE  Known' /\ ActiveIsCurrent' /\ NotForgotten'
  <1> USE DEF workVars, monVars
  <1>1. \A x \in Publishers \cup Unpublishers :
          request'[x].at \in {"submit", "mark"} => Exists(request'[x].work)
    BY DEF MonitorInv, TypeOK, Known
  <1>2. Known'
    BY <1>1 DEF MonitorInv, Known, Exists
  <1>3. ActiveIsCurrent' /\ NotForgotten'
    BY DEF MonitorInv, ActiveIsCurrent, NotForgotten, InQueue
  <1>4. QED
    BY <1>2, <1>3

\* A request that creates the work w.
LEMMA CreateStep ==
  ASSUME MonitorInv, NEW r \in Publishers \cup Unpublishers, NEW q \in Request,
         NEW w \in Works, status[w] = "UNUSED",
         NEW s \in Status, status' = [status EXCEPT ![w] = s],
         NEW d \in DVs, dvOf' = [dvOf EXCEPT ![w] = d],
         request' = [request EXCEPT ![r] = q],
         q.at \in {"submit", "mark"} => q.work = w,
         UNCHANGED <<cur, pc, activeJobs>>,
         \/ queue' = Append(queue, w)
         \/ UNCHANGED queue /\ s \notin {"SUBMITTED", "CONFIGURING"}
  PROVE  Known' /\ ActiveIsCurrent' /\ NotForgotten'
  <1> USE DEF MonitorInv
  <1>1. s # "UNUSED" /\ status'[w] = s /\ (\A x \in Works \ {w} : status'[x] = status[x])
    BY DEF TypeOK, Status, PublishStatus, DeleteStatus
  <1>2. \A x \in Works : Exists(x) => Exists(x)'
    BY <1>1 DEF Exists
  <1>3. pc # "idle" => cur \in Works /\ cur # w
    BY DEF CurOK, Known, Exists
  <1>4. \A x \in Works : InQueue(x) => InQueue(x)'
    BY QueueAppend DEF TypeOK, InQueue
  <1>5. \A i \in 1..Len(queue) : queue[i] \in Works
    BY DEF TypeOK
  <1>6. Known'
    <2>1. \A i \in 1..Len(queue') : queue'[i] = w \/ (i \in 1..Len(queue) /\ queue'[i] = queue[i])
      BY QueueAppend DEF TypeOK
    <2>2. \A i \in 1..Len(queue') : status'[queue'[i]] # "UNUSED"
      BY <1>1, <1>2, <1>5, <2>1 DEF Known, Exists
    <2>3. pc' # "idle" => Exists(cur)'
      BY <1>2, <1>3 DEF Known
    <2>4. \A x \in Publishers \cup Unpublishers :
            request[x].at \in {"submit", "mark"} => request[x].work \in Works
      BY DEF TypeOK, Request
    <2>5. \A x \in Publishers \cup Unpublishers :
            request'[x].at \in {"submit", "mark"} => status'[request'[x].work] # "UNUSED"
      BY <1>1, <1>2, <2>4 DEF Known, Exists, TypeOK
    <2>6. QED
      BY <2>2, <2>3, <2>5 DEF Known, Exists
  <1>7. ActiveIsCurrent'
    BY <1>3 DEF ActiveIsCurrent, TypeOK
  <1>8. NotForgotten'
    <2> SUFFICES ASSUME NEW x \in Works, status'[x] \in {"SUBMITTED", "CONFIGURING"}
                 PROVE  InQueue(x)' \/ (cur' = x /\ pc' \in {"sleep", "publish", "configure"})
      BY DEF NotForgotten
    <2>1. CASE x = w
      BY <1>1, <2>1, QueueAppend DEF TypeOK
    <2>2. CASE x # w
      BY <1>1, <1>4, <2>2 DEF NotForgotten
    <2>3. QED
      BY <2>1, <2>2
  <1>9. QED
    BY <1>6, <1>7, <1>8

\* An unpublish request that marks its work.
LEMMA MarkStep ==
  ASSUME MonitorInv, NEW r \in Publishers \cup Unpublishers, UnpublishMark(r)
  PROVE  Known' /\ ActiveIsCurrent' /\ NotForgotten'
  <1> DEFINE v == request[r].work
  <1> USE DEF MonitorInv, workVars
  <1>1. v \in Works /\ UNCHANGED <<dvOf, cur, pc, activeJobs>>
    BY DEF UnpublishMark, TypeOK, Request
  <1>2. /\ status'[v] = "DELETE_SUBMITTED"
        /\ \A x \in Works \ {v} : status'[x] = status[x]
    BY <1>1 DEF UnpublishMark, TypeOK
  <1>3. queue' = Append(queue, v) \/ UNCHANGED queue
    BY DEF UnpublishMark
  <1>4. \A x \in Works : Exists(x) => Exists(x)'
    BY <1>2 DEF Exists
  <1>5. \A x \in Works : InQueue(x) => InQueue(x)'
    BY <1>1, <1>3, QueueAppend DEF TypeOK, InQueue
  <1>6. Known'
    <2>1. \A i \in 1..Len(queue') : queue'[i] = v \/ (i \in 1..Len(queue) /\ queue'[i] = queue[i])
      BY <1>1, <1>3, QueueAppend DEF TypeOK
    <2>2. \A i \in 1..Len(queue) : queue[i] \in Works
      BY DEF TypeOK
    <2>3. \A i \in 1..Len(queue') : status'[queue'[i]] # "UNUSED"
      BY <1>2, <1>4, <2>1, <2>2 DEF Known, Exists
    <2>4. pc' # "idle" => Exists(cur)'
      BY <1>1, <1>4 DEF Known, CurOK
    <2>5. \A x \in Publishers \cup Unpublishers :
            /\ request[x].at \in {"submit", "mark"} => request[x].work \in Works
            /\ request'[x].at \in {"submit", "mark"} => request'[x] = request[x]
      BY DEF TypeOK, Request, UnpublishMark, Done
    <2>6. \A x \in Publishers \cup Unpublishers :
            request'[x].at \in {"submit", "mark"} => status'[request'[x].work] # "UNUSED"
      BY <1>4, <2>5 DEF Known, Exists
    <2>7. QED
      BY <2>3, <2>4, <2>6 DEF Known, Exists
  <1>7. ActiveIsCurrent'
    BY <1>1 DEF ActiveIsCurrent
  <1>8. NotForgotten'
    BY <1>1, <1>2, <1>5 DEF NotForgotten
  <1>9. QED
    BY <1>6, <1>7, <1>8

LEMMA RestKeeps ==
  ASSUME MonitorInv, NEW r \in Publishers \cup Unpublishers, Rest(r)
  PROVE  Known' /\ ActiveIsCurrent' /\ NotForgotten'
  <1> USE DEF workVars, monVars
  <1>1. ASSUME NEW d \in DVs, PublishRead(r, d)
        PROVE  Known' /\ ActiveIsCurrent' /\ NotForgotten'
    <2>1. [at |-> "enqueue", dv |-> d] \in Request
      BY DEF Request
    <2>2. request' = [request EXCEPT ![r] = [at |-> "enqueue", dv |-> d]]
          /\ UNCHANGED <<workVars, monVars>>
      BY <1>1 DEF PublishRead
    <2>3. QED
      BY <2>1, <2>2, AskStep
  <1>2. ASSUME NEW d \in DVs, UnpublishRead(r, d)
        PROVE  Known' /\ ActiveIsCurrent' /\ NotForgotten'
    <2> DEFINE q == IF activeJobs[d] = None
                    THEN [at |-> "lookup", dv |-> d]
                    ELSE [at |-> "submit", work |-> activeJobs[d], monitor |-> FALSE]
    <2>1. q \in Request
      BY DEF Request, MonitorInv, TypeOK
    <2>2. q.at \in {"submit", "mark"} => q.work \in Works /\ Exists(q.work)
      BY DEF MonitorInv, TypeOK, ActiveIsCurrent, Known
    <2>3. request' = [request EXCEPT ![r] = q] /\ UNCHANGED <<workVars, monVars>>
      BY <1>2 DEF UnpublishRead
    <2>4. QED
      BY <2>1, <2>2, <2>3, AskStep
  <1>3. ASSUME NEW w \in Works, PublishEnqueue(r, w)
        PROVE  Known' /\ ActiveIsCurrent' /\ NotForgotten'
    <2>1. request[r].dv \in DVs
      BY <1>3 DEF PublishEnqueue, Fresh, Request, MonitorInv, TypeOK
    <2>2. Done \in Request /\ Done.at \notin {"submit", "mark"} /\ "SUBMITTED" \in Status
      BY DoneRequest DEF Done, Status, PublishStatus
    <2>3. QED
      BY <1>3, <2>1, <2>2, CreateStep DEF PublishEnqueue, Fresh
  <1>4. ASSUME NEW w \in Works, UnpublishFound(r, w)
        PROVE  Known' /\ ActiveIsCurrent' /\ NotForgotten'
    <2> DEFINE q == [at |-> "submit", work |-> w, monitor |-> TRUE]
    <2>1. request[r].dv \in DVs
      BY <1>4 DEF UnpublishFound, Fresh, Request, MonitorInv, TypeOK
    <2>2. q \in Request
      BY DEF Request
    <2>3. PICK s \in ClusterStatus(request[r].dv) : status' = [status EXCEPT ![w] = s]
      BY <1>4 DEF UnpublishFound, Fresh
    <2>4. s \in Status \ {"SUBMITTED", "CONFIGURING"}
      BY <2>1, <2>3, ClusterStatusNew DEF MonitorInv
    <2>5. /\ status[w] = "UNUSED" /\ request' = [request EXCEPT ![r] = q]
          /\ dvOf' = [dvOf EXCEPT ![w] = request[r].dv]
          /\ UNCHANGED monVars
      BY <1>4 DEF UnpublishFound, Fresh
    <2>6. q.at \in {"submit", "mark"} => q.work = w
      OBVIOUS
    <2> HIDE DEF q
    <2>7. QED
      BY <2>1, <2>2, <2>3, <2>4, <2>5, <2>6, CreateStep
  <1>5. ASSUME UnpublishActive(r)
        PROVE  Known' /\ ActiveIsCurrent' /\ NotForgotten'
    <2> DEFINE q == [at |-> "submit", work |-> activeJobs[request[r].dv], monitor |-> TRUE]
    <2>1. request[r].dv \in DVs
      BY <1>5 DEF UnpublishActive, Request, MonitorInv, TypeOK
    <2>2. q \in Request /\ q.work \in Works /\ Exists(q.work)
      BY <1>5, <2>1 DEF UnpublishActive, Request, MonitorInv, TypeOK, ActiveIsCurrent, Known
    <2>3. request' = [request EXCEPT ![r] = q] /\ UNCHANGED <<workVars, monVars>>
      BY <1>5 DEF UnpublishActive
    <2> HIDE DEF q
    <2>4. QED
      BY <2>2, <2>3, AskStep
  <1>6. ASSUME UnpublishRefused(r)
        PROVE  Known' /\ ActiveIsCurrent' /\ NotForgotten'
    <2>1. Done \in Request /\ Done.at \notin {"submit", "mark"}
      BY DoneRequest DEF Done
    <2>2. request' = [request EXCEPT ![r] = Done] /\ UNCHANGED <<workVars, monVars>>
      BY <1>6 DEF UnpublishRefused
    <2>3. QED
      BY <2>1, <2>2, AskStep
  <1>7. ASSUME UnpublishSubmit(r)
        PROVE  Known' /\ ActiveIsCurrent' /\ NotForgotten'
    <2> DEFINE q == [request[r] EXCEPT !.at = "mark"]
    <2>1. q \in Request /\ q.work = request[r].work /\ request[r].work \in Works
      BY <1>7 DEF UnpublishSubmit, Request, MonitorInv, TypeOK
    <2>2. Exists(request[r].work)
      BY <1>7 DEF UnpublishSubmit, MonitorInv, Known
    <2>3. request' = [request EXCEPT ![r] = q] /\ UNCHANGED <<workVars, monVars>>
      BY <1>7 DEF UnpublishSubmit
    <2> HIDE DEF q
    <2>4. QED
      BY <2>1, <2>2, <2>3, AskStep
  <1>8. QED
    BY <1>1, <1>2, <1>3, <1>4, <1>5, <1>6, <1>7, MarkStep DEF Rest

LEMMA PoolKeeps ==
  ASSUME MonitorInv, NEW t \in PoolThreads, PoolStep(t)
  PROVE  Known' /\ ActiveIsCurrent' /\ NotForgotten'
  <1> USE DEF workVars
  <1>1. ASSUME thread[t].kind \in {"configure", "delete"}
        PROVE  thread[t].work \in Works
    <2>1. thread[t] \in Task
      BY <1>1 DEF NoTask, MonitorInv, TypeOK
    <2>2. QED
      BY <2>1, TaskStages
  <1>2. {"BUILDING", "FAILED", "DELETE_REQUEUE", "DELETE_DONE"}
          \subseteq Status \ {"SUBMITTED", "CONFIGURING"}
    BY DEF Status, PublishStatus, DeleteStatus
  <1>3. CASE TaskTake(t) \/ ConfigureCreate(t) \/ DeleteGroup(t)
    BY <1>3, QuietStep DEF TaskTake, ConfigureCreate, DeleteGroup
  <1>4. CASE ConfigureFinish(t)
    BY <1>1, <1>2, <1>4, QuietStep DEF ConfigureFinish, Runs
  <1>5. CASE ConfigureFails(t)
    BY <1>1, <1>2, <1>5, QuietStep DEF ConfigureFails
  <1>6. CASE DeleteGroupFails(t)
    BY <1>1, <1>2, <1>6, QuietStep DEF DeleteGroupFails
  <1>10. CASE DeleteThrows(t)
    BY <1>10, QuietStep DEF DeleteThrows, workVars
  <1>7. CASE DeleteFinish(t)
    BY <1>1, <1>2, <1>7, QuietStep DEF DeleteFinish, Runs
  <1>8. QED
    BY <1>3, <1>4, <1>5, <1>6, <1>7, <1>10 DEF PoolStep

LEMMA MonitorInvariant == Spec => []MonitorInv
  <1>1. Init => Known /\ ActiveIsCurrent /\ NotForgotten
    BY DEF Init, Known, ActiveIsCurrent, NotForgotten, Idle
  <1>2. MonitorInv /\ [Next]_vars => Known' /\ ActiveIsCurrent' /\ NotForgotten'
    <2> SUFFICES ASSUME MonitorInv, [Next]_vars
                 PROVE  Known' /\ ActiveIsCurrent' /\ NotForgotten'
      OBVIOUS
    <2>1. ASSUME NEW w \in Works, BuildEnds(w) \/ Integrate(w)
          PROVE  Known' /\ ActiveIsCurrent' /\ NotForgotten'
      BY <2>1, QuietStep DEF BuildEnds, Integrate, workVars
    <2>2. ASSUME NEW d \in DVs, RolloutStarts(d) \/ RolloutEnds(d) \/ DropDV(d) \/ CreateDV(d)
          PROVE  Known' /\ ActiveIsCurrent' /\ NotForgotten'
      BY <2>2, QuietStep DEF RolloutStarts, RolloutEnds, DropDV, CreateDV, workVars
    <2>3. CASE Restart
      <3>1. \A w \in Works : status'[w] \in {"UNUSED", "LOST"}
        BY <2>3 DEF Restart
      <3>2. \A r \in Publishers \cup Unpublishers : request'[r].at \in {"idle", "done"}
        BY <2>3 DEF Restart, Idle, Done
      <3>3. queue' = <<>> /\ pc' = "idle" /\ activeJobs' = [d \in DVs |-> None]
        BY <2>3 DEF Restart
      <3>4. Known'
        BY <3>2, <3>3 DEF Known
      <3>5. ActiveIsCurrent'
        BY <3>3 DEF ActiveIsCurrent
      <3>6. NotForgotten'
        BY <3>1 DEF NotForgotten
      <3>7. QED
        BY <3>4, <3>5, <3>6
    <2>4. CASE UNCHANGED vars
      BY <2>4, QuietStep DEF vars, workVars
    <2>5. QED
      BY <2>1, <2>2, <2>3, <2>4, RestKeeps, MonitorKeeps, PoolKeeps DEF Next, OpenShift
  <1>3. QED
    BY <1>1, <1>2, TypeCorrect, PTL DEF Spec, MonitorInv

\* activeJobs names the work the monitor is at and nothing else, though it is
\* keyed by the name of the virtualization and the runner resubmits itself before
\* its finally clause removes the entry.
THEOREM MonitorCorrect == Spec => []ActiveIsCurrent
  BY MonitorInvariant, PTL DEF MonitorInv

\* A publish that was accepted and has no build yet is in the queue or at the
\* monitor, whatever an unpublish, a failing call or a second runner does to it.
THEOREM NotForgottenCorrect == Spec => []NotForgotten
  BY MonitorInvariant, PTL DEF MonitorInv
=============================================================================
