------------------------------- MODULE Publish -------------------------------
(***************************************************************************)
(* Publishing and unpublishing a virtualization on OpenShift, as           *)
(* TeiidOpenShiftClient does it.                                           *)
(*                                                                         *)
(* A BuildStatus object (a "work") is created per publish request, and per *)
(* unpublish request that finds nothing being monitored.  One monitor      *)
(* thread (workExecutor) takes works from a FIFO queue and resubmits them  *)
(* until they are over; a pool (configureService) runs the slow tasks that *)
(* configure a build or delete the resources of a virtualization; REST     *)
(* threads start both.  All of them read and write the same volatile       *)
(* status field without a lock, so every read and every write below that   *)
(* another thread can separate is an action of its own.                    *)
(***************************************************************************)
EXTENDS Naturals, Sequences

CONSTANTS
  DVs,           \* the virtualizations (by OpenShift name)
  Works,         \* the BuildStatus objects that may be created: bounds the requests
  Publishers,    \* the publish requests, each served by a REST thread of its own
  Unpublishers,  \* the unpublish requests
  PoolThreads,   \* the threads of configureService
  Mortal,        \* the virtualizations users may delete and create again
  MaxFailures,   \* how many calls of OpenShift or of Syndesis may fail (a bound)
  UsersIntegrate,\* whether users build integrations on the connections
  MayRestart,    \* whether the pod of the service may be restarted
  None           \* no work, no connection

ASSUME PublishAssumption ==
  /\ None \notin Works
  /\ Mortal \subseteq DVs
  /\ Publishers \cap Unpublishers = {}
  /\ MaxFailures \in Nat
  /\ UsersIntegrate \in BOOLEAN
  /\ MayRestart \in BOOLEAN

VARIABLES
  \* the BuildStatus objects
  status,        \* BuildStatus.status; "UNUSED" before the object exists, "LOST" after a restart
  dvOf,          \* the virtualization it is about
  named,         \* whether BuildStatus.name (the build) is set
  \* the monitor thread
  queue,         \* workExecutor's queue
  cur, pc,       \* the work of the running BuildStatusRunner, and where it is
  activeJobs,    \* the map OpenShift name -> work being run
  \* configureService
  taskQueue,     \* the tasks no thread has taken yet
  thread,        \* what each pool thread executes
  \* the REST threads
  request,       \* where each is in publishVirtualization or deleteVirtualization
  \* OpenShift
  builds,        \* the phase of the build that each work started
  dc, services,  \* the deployment config, the services of each virtualization
  due,           \* whether OpenShift is to roll a deployment config out again
  failures,      \* how many calls have failed
  \* Syndesis and the database
  connections,   \* the connections registered, named by the work that POSTed them
  usedIn,        \* the connections that integrations use
  usedCache,     \* the integrationsInUse cache; None before it is first read
  dvs,           \* the rows of data_virtualization
  sourceId       \* their source_id column

workVars  == <<status, dvOf, named>>
monVars   == <<queue, cur, pc, activeJobs>>
poolVars  == <<taskQueue, thread>>
shiftVars == <<builds, dc, due, services, failures>>
synVars   == <<connections, usedIn, usedCache, dvs, sourceId>>
vars == <<workVars, monVars, poolVars, request, shiftVars, synVars>>

-----------------------------------------------------------------------------
DeleteStatus  == {"DELETE_SUBMITTED", "DELETE_REQUEUE", "DELETE_DONE"}
PublishStatus == {"SUBMITTED", "CONFIGURING", "BUILDING", "DEPLOYING", "RUNNING",
                  "FAILED", "CANCELLED"}
Status == PublishStatus \cup DeleteStatus \cup {"NOTFOUND"}

PC == {"idle", "sleep", "publish", "configure", "redelete", "build",
       "built", "deploy", "deploying", "serve", "connect", "running", "finally"}

BuildPhase == {"none", "running", "complete", "failed", "cancelled"}
DCState    == {"none", "progressing", "ready", "failed"}

\* A task of configureService and how far it has come.
Task == [kind : {"configure"}, work : Works, at : {"create", "finish"}]
        \cup [kind : {"delete"}, work : Works,
              at : {"services", "builds", "dc", "finish"}]
NoTask == [kind |-> "none", work |-> None, at |-> "none"]

ConfigureTask(w) == [kind |-> "configure", work |-> w, at |-> "create"]
DeleteTask(w)    == [kind |-> "delete", work |-> w, at |-> "services"]

Request == [at : {"idle", "done"}]
           \cup [at : {"enqueue", "lookup"}, dv : DVs]
           \cup [at : {"submit", "mark"}, work : Works, monitor : BOOLEAN]
Idle == [at |-> "idle"]
Done == [at |-> "done"]

Init ==
  /\ status = [w \in Works |-> "UNUSED"]
  /\ dvOf = [w \in Works |-> None]
  /\ named = [w \in Works |-> FALSE]
  /\ queue = <<>> /\ cur = None /\ pc = "idle"
  /\ activeJobs = [d \in DVs |-> None]
  /\ taskQueue = <<>> /\ thread = [t \in PoolThreads |-> NoTask]
  /\ request = [r \in Publishers \cup Unpublishers |-> Idle]
  /\ builds = [w \in Works |-> "none"]
  /\ dc = [d \in DVs |-> "none"] /\ due = [d \in DVs |-> FALSE]
  /\ services = [d \in DVs |-> FALSE]
  /\ failures = 0
  /\ connections = {} /\ usedIn = {} /\ usedCache = None
  /\ dvs = DVs /\ sourceId = [d \in DVs |-> None]

Fails == failures < MaxFailures /\ failures' = failures + 1

-----------------------------------------------------------------------------
(* What the cluster says of a virtualization.                              *)

BuildsOf(d) == {w \in Works : dvOf[w] = d /\ builds[w] # "none"}

\* A variant that leaves the status of a BuildStatus with a build unset.
ClusterStatus_Unset(d) == IF BuildsOf(d) = {} THEN {"NOTFOUND"} ELSE {"UNSET"}

\* getVDBService looks at one build of the list.  A completed build without
\* a deployment config counts as DEPLOYING for 15 seconds and FAILED later; a
\* replication controller that outlives its builds makes it FAILED unless it
\* still has replicas.
ClusterStatus(d) ==
  IF BuildsOf(d) = {}
  THEN {"NOTFOUND"} \cup (IF dc[d] = "none" THEN {} ELSE {"FAILED"})
  ELSE UNION {CASE builds[w] = "running"   -> {"BUILDING"}
                [] builds[w] = "cancelled" -> {"CANCELLED"}
                [] builds[w] = "failed"    -> {"FAILED"}
                [] builds[w] = "complete"  ->
                     CASE dc[d] = "none"        -> {"DEPLOYING", "FAILED"}
                       [] dc[d] = "progressing" -> {"DEPLOYING"}
                       [] dc[d] = "ready"       -> {"RUNNING"}
                       [] dc[d] = "failed"      -> {"FAILED"}
              : w \in BuildsOf(d)}

\* getVirtualizationStatus: activeJobs first, then the cluster.  The scan of
\* the executor's queue between the two never matches: submit() wraps every
\* runner in a FutureTask.
VirtualizationStatus(d) ==
  IF activeJobs[d] # None THEN {status[activeJobs[d]]} ELSE ClusterStatus(d)

\* findIntegrationUsedIn, for the connections it sees in use.
UsedBy(d, seen) == d \in dvs /\ sourceId[d] \in seen

\* The cache is read the first time and whenever it is older than a minute.
SeenInUse == IF usedCache = None THEN {usedIn} ELSE {usedCache, usedIn}

-----------------------------------------------------------------------------
(* The REST threads.                                                       *)

\* publishVirtualization reads the status: a BUILDING one refuses the request.  A
\* cluster that cannot be asked says NOTFOUND.
PublishRead(r, d) ==
  /\ r \in Publishers /\ request[r] = Idle /\ d \in dvs
  /\ \/ /\ \E s \in VirtualizationStatus(d) \ {"BUILDING"} :
             IF s = "RUNNING" /\ activeJobs[d] = None
             THEN usedCache' \in SeenInUse
             ELSE UNCHANGED usedCache
        /\ UNCHANGED failures
     \/ Fails /\ activeJobs[d] = None /\ UNCHANGED usedCache
  /\ request' = [request EXCEPT ![r] = [at |-> "enqueue", dv |-> d]]
  /\ UNCHANGED <<workVars, monVars, poolVars, builds, dc, due, services,
                 connections, usedIn, dvs, sourceId>>

\* The next object; which one it is does not matter.
Fresh(w) == status[w] = "UNUSED" /\ w = CHOOSE v \in Works : status[v] = "UNUSED"

\* addToQueue
PublishEnqueue(r, w) ==
  /\ request[r].at = "enqueue" /\ Fresh(w)
  /\ status' = [status EXCEPT ![w] = "SUBMITTED"]
  /\ dvOf' = [dvOf EXCEPT ![w] = request[r].dv]
  /\ queue' = Append(queue, w)
  /\ request' = [request EXCEPT ![r] = Done]
  /\ UNCHANGED <<named, cur, pc, activeJobs, poolVars, shiftVars, synVars>>

\* deleteVirtualization asks activeJobs first.  The work it finds there is
\* monitored already; if there is none, it goes on to the full status.
UnpublishRead(r, d) ==
  /\ r \in Unpublishers /\ request[r] = Idle
  /\ request' = [request EXCEPT ![r] =
       IF activeJobs[d] = None
       THEN [at |-> "lookup", dv |-> d]
       ELSE [at |-> "submit", work |-> activeJobs[d], monitor |-> FALSE]]
  /\ UNCHANGED <<workVars, monVars, poolVars, shiftVars, synVars>>

\* The full status starts with activeJobs again, and the monitor may have taken
\* a work in between: that work then gets a second runner.
UnpublishActive(r) ==
  /\ request[r].at = "lookup" /\ activeJobs[request[r].dv] # None
  /\ request' = [request EXCEPT ![r] =
       [at |-> "submit", work |-> activeJobs[request[r].dv], monitor |-> TRUE]]
  /\ UNCHANGED <<workVars, monVars, poolVars, shiftVars, synVars>>

\* Otherwise a new BuildStatus is made from what the cluster says, ...
UnpublishFound(r, w) ==
  /\ request[r].at = "lookup" /\ activeJobs[request[r].dv] = None
  /\ Fresh(w)
  /\ \E s \in ClusterStatus(request[r].dv) \ {"NOTFOUND"}, seen \in SeenInUse :
       /\ IF s = "RUNNING"
          THEN usedCache' = seen /\ ~UsedBy(request[r].dv, seen)
          ELSE UNCHANGED usedCache
       /\ status' = [status EXCEPT ![w] = s]
  /\ dvOf' = [dvOf EXCEPT ![w] = request[r].dv]
  /\ request' = [request EXCEPT ![r] = [at |-> "submit", work |-> w, monitor |-> TRUE]]
  /\ UNCHANGED <<named, monVars, poolVars, shiftVars, connections, usedIn, dvs, sourceId>>

\* ... and that is the end of it if nothing is there, if the cluster cannot be
\* asked, or if the virtualization is used in an integration.
UnpublishRefused(r) ==
  /\ request[r].at = "lookup" /\ activeJobs[request[r].dv] = None
  /\ \/ "NOTFOUND" \in ClusterStatus(request[r].dv) /\ UNCHANGED <<usedCache, failures>>
     \/ Fails /\ UNCHANGED usedCache
     \/ /\ "RUNNING" \in ClusterStatus(request[r].dv) /\ UNCHANGED failures
        /\ usedCache' \in {seen \in SeenInUse : UsedBy(request[r].dv, seen)}
  /\ request' = [request EXCEPT ![r] = Done]
  /\ UNCHANGED <<workVars, monVars, poolVars, builds, dc, due, services,
                 connections, usedIn, dvs, sourceId>>

\* The delete task is submitted first, ...
UnpublishSubmit(r) ==
  /\ request[r].at = "submit"
  /\ taskQueue' = Append(taskQueue, DeleteTask(request[r].work))
  /\ request' = [request EXCEPT ![r].at = "mark"]
  /\ UNCHANGED <<workVars, monVars, thread, shiftVars, synVars>>

\* ... the status is written after it, whatever the task has written meanwhile.
UnpublishMark(r) ==
  /\ request[r].at = "mark"
  /\ status' = [status EXCEPT ![request[r].work] = "DELETE_SUBMITTED"]
  /\ queue' = IF request[r].monitor THEN Append(queue, request[r].work) ELSE queue
  /\ request' = [request EXCEPT ![r] = Done]
  /\ UNCHANGED <<dvOf, named, cur, pc, activeJobs, poolVars, shiftVars, synVars>>

-----------------------------------------------------------------------------
(* The monitor thread: BuildStatusRunner.run for the work cur.             *)

\* removeSyndesisConnection deletes the connection that the row names.  The
\* entity is detached by then: what it writes to it, setSourceId(null), is lost.
RemoveSyndesisConnection(d) ==
  /\ UNCHANGED sourceId
  /\ \/ /\ connections' = connections \ (IF d \in dvs THEN {sourceId[d]} ELSE {})
        /\ UNCHANGED failures
     \/ Fails /\ UNCHANGED connections

\* A variant that looks at the queue without taking from it.
MonitorTake_Peek ==
  /\ pc = "idle" /\ queue # <<>>
  /\ cur' = Head(queue) /\ UNCHANGED queue
  /\ activeJobs' = [activeJobs EXCEPT ![dvOf[Head(queue)]] = Head(queue)]
  /\ pc' = "sleep"
  /\ UNCHANGED <<workVars, poolVars, request, shiftVars, synVars>>

MonitorTake ==
  /\ pc = "idle" /\ queue # <<>>
  /\ cur' = Head(queue) /\ queue' = Tail(queue)
  /\ activeJobs' = [activeJobs EXCEPT ![dvOf[Head(queue)]] = Head(queue)]
  /\ pc' = "sleep"
  /\ UNCHANGED <<workVars, poolVars, request, shiftVars, synVars>>

\* A variant of Resubmit: the runner is not submitted.
Resubmit_Forgotten == UNCHANGED queue /\ pc' = "finally"

\* The runner's last statement submits it again, at the end of the queue.
Resubmit == queue' = Append(queue, cur) /\ pc' = "finally"

\* A variant that waits for the end of the delete at the head of the queue.
MonitorAwaitDelete_Waits ==
  pc = "sleep" /\ status[cur] = "DELETE_SUBMITTED" /\ UNCHANGED vars

\* After the delay, the statuses that do not concern a build come first: a
\* delete that is still going on, ...
MonitorAwaitDelete ==
  /\ pc = "sleep" /\ status[cur] = "DELETE_SUBMITTED" /\ Resubmit
  /\ UNCHANGED <<workVars, cur, activeJobs, poolVars, request, shiftVars, synVars>>

\* ... one to be tried again, by a deleteVirtualization that finds this very
\* work in activeJobs, ...
MonitorRetryDelete ==
  /\ pc = "sleep" /\ status[cur] = "DELETE_REQUEUE" /\ pc' = "redelete"
  /\ taskQueue' = Append(taskQueue, DeleteTask(cur))
  /\ UNCHANGED <<workVars, queue, cur, activeJobs, thread, request, shiftVars, synVars>>

\* ... one that is over, ...
MonitorDeleted ==
  /\ pc = "sleep" /\ status[cur] = "DELETE_DONE" /\ pc' = "finally"
  /\ RemoveSyndesisConnection(dvOf[cur])
  /\ UNCHANGED <<workVars, queue, cur, activeJobs, poolVars, request,
                 builds, dc, due, services, usedIn, usedCache, dvs>>

\* ... and a publish that ended badly.
MonitorEnded ==
  /\ pc = "sleep" /\ status[cur] \in {"FAILED", "CANCELLED"} /\ pc' = "finally"
  /\ UNCHANGED <<workVars, queue, cur, activeJobs, poolVars, request, shiftVars, synVars>>

MonitorProceed ==
  /\ pc = "sleep" /\ status[cur] \notin DeleteStatus \cup {"FAILED", "CANCELLED"}
  /\ pc' = "publish"
  /\ UNCHANGED <<workVars, queue, cur, activeJobs, poolVars, request, shiftVars, synVars>>

MonitorRedelete ==
  /\ pc = "redelete"
  /\ status' = [status EXCEPT ![cur] = "DELETE_SUBMITTED"]
  /\ Resubmit
  /\ UNCHANGED <<dvOf, named, cur, activeJobs, poolVars, request, shiftVars, synVars>>

\* The status is read again: SUBMITTED, CONFIGURING, or there is a build.
MonitorPublish ==
  /\ pc = "publish"
  /\ \/ status[cur] = "SUBMITTED" /\ pc' = "configure" /\ UNCHANGED queue
     \/ status[cur] = "CONFIGURING" /\ Resubmit
     \/ status[cur] \notin {"SUBMITTED", "CONFIGURING"} /\ pc' = "build" /\ UNCHANGED queue
  /\ UNCHANGED <<workVars, cur, activeJobs, poolVars, request, shiftVars, synVars>>

\* A variant of configureBuild that leaves the status to the task.
MonitorConfigure_Late ==
  /\ pc = "configure"
  /\ taskQueue' = Append(taskQueue, ConfigureTask(cur))
  /\ Resubmit
  /\ UNCHANGED <<workVars, cur, activeJobs, thread, request, shiftVars, synVars>>

\* configureBuild, and the work goes to the end of the queue.
MonitorConfigure ==
  /\ pc = "configure"
  /\ status' = [status EXCEPT ![cur] = "CONFIGURING"]
  /\ taskQueue' = Append(taskQueue, ConfigureTask(cur))
  /\ Resubmit
  /\ UNCHANGED <<dvOf, named, cur, activeJobs, thread, request, shiftVars, synVars>>

\* The phase of the build called work.getName(); there is none without a name.
Phase(w) == IF named[w] THEN builds[w] ELSE "none"

\* A build that runs is looked at again later, one that ended badly ends the
\* work, and one that is gone drops it, with its status as it is.
MonitorBuild ==
  /\ pc = "build"
  /\ \/ Phase(cur) = "running" /\ Resubmit /\ UNCHANGED status
     \/ /\ Phase(cur) \in {"failed", "cancelled"}
        /\ status' = [status EXCEPT ![cur] =
                        IF Phase(cur) = "failed" THEN "FAILED" ELSE "CANCELLED"]
        /\ pc' = "finally" /\ UNCHANGED queue
     \/ Phase(cur) = "none" /\ pc' = "finally" /\ UNCHANGED <<status, queue>>
     \/ Phase(cur) = "complete" /\ pc' = "built" /\ UNCHANGED <<status, queue>>
  /\ UNCHANGED <<dvOf, named, cur, activeJobs, poolVars, request, shiftVars, synVars>>

\* With the build complete the status is read again: DEPLOYING, or it is time to deploy.
MonitorBuilt ==
  /\ pc = "built" /\ status[cur] # "DEPLOYING" /\ pc' = "deploy"
  /\ UNCHANGED <<workVars, queue, cur, activeJobs, poolVars, request, shiftVars, synVars>>

\* A variant that takes a rollout that goes on for one that is ready.
MonitorDeployment_Early ==
  /\ pc = "built" /\ status[cur] = "DEPLOYING"
  /\ \/ dc[dvOf[cur]] \in {"progressing", "ready"} /\ pc' = "serve" /\ UNCHANGED <<status, queue>>
     \/ /\ dc[dvOf[cur]] = "failed" /\ pc' = "finally" /\ UNCHANGED queue
        /\ status' = [status EXCEPT ![cur] = "FAILED"]
     \/ dc[dvOf[cur]] = "none" /\ pc' = "finally" /\ UNCHANGED <<status, queue>>
  /\ UNCHANGED <<dvOf, named, cur, activeJobs, poolVars, request, shiftVars, synVars>>

\* A deployment: its dc may be ready, progressing, given up, or gone (the
\* NullPointerException drops the work).  A dc that is due still shows how its
\* last rollout ended.
MonitorDeployment ==
  /\ pc = "built" /\ status[cur] = "DEPLOYING"
  /\ \/ dc[dvOf[cur]] = "ready" /\ pc' = "serve" /\ UNCHANGED <<status, queue>>
     \/ dc[dvOf[cur]] = "progressing" /\ Resubmit /\ UNCHANGED status
     \/ /\ dc[dvOf[cur]] = "failed" /\ pc' = "finally" /\ UNCHANGED queue
        /\ status' = [status EXCEPT ![cur] = "FAILED"]
     \/ dc[dvOf[cur]] = "none" /\ pc' = "finally" /\ UNCHANGED <<status, queue>>
  /\ UNCHANGED <<dvOf, named, cur, activeJobs, poolVars, request, shiftVars, synVars>>

\* createSecret and createDeploymentConfig.  OpenShift rolls a new dc out at
\* once; createOrReplace of one that is there replaces its template and the
\* image it last saw, which makes a rollout due.
MonitorCreateDC ==
  /\ pc = "deploy" /\ pc' = "deploying"
  /\ LET d == dvOf[cur] IN
     IF dc[d] = "none" THEN dc' = [dc EXCEPT ![d] = "progressing"] /\ UNCHANGED due
                       ELSE due' = [due EXCEPT ![d] = TRUE] /\ UNCHANGED dc
  /\ UNCHANGED <<workVars, queue, cur, activeJobs, poolVars, request,
                 builds, services, failures, synVars>>

\* DEPLOYING is written, then deployLatest asks for a rollout: a dc that is
\* gone by now makes that call throw.
MonitorDeploying ==
  /\ pc = "deploying"
  /\ status' = [status EXCEPT ![cur] = "DEPLOYING"]
  /\ IF dc[dvOf[cur]] = "none"
     THEN pc' = "finally" /\ UNCHANGED <<queue, due>>
     ELSE Resubmit /\ due' = [due EXCEPT ![dvOf[cur]] = TRUE]
  /\ UNCHANGED <<dvOf, named, cur, activeJobs, poolVars, request,
                 builds, dc, services, failures, synVars>>

\* A variant that registers the connection before there are services.
MonitorServe_Skipped ==
  /\ pc = "serve" /\ pc' = "connect"
  /\ UNCHANGED <<workVars, queue, cur, activeJobs, poolVars, request, shiftVars, synVars>>

MonitorServe ==
  /\ pc = "serve" /\ pc' = "connect"
  /\ services' = [services EXCEPT ![dvOf[cur]] = TRUE]
  /\ UNCHANGED <<workVars, queue, cur, activeJobs, poolVars, request,
                 builds, dc, due, failures, synVars>>

\* createSyndesisConnection: no service, no connection; else the POST, then
\* the transaction that saves its id in the row, if there still is one.
MonitorConnect ==
  /\ pc = "connect" /\ pc' = "running"
  /\ IF services[dvOf[cur]]
     THEN /\ connections' = connections \cup {cur}
          /\ sourceId' = [sourceId EXCEPT ![dvOf[cur]] =
                            IF dvOf[cur] \in dvs THEN cur ELSE @]
     ELSE UNCHANGED <<connections, sourceId>>
  /\ UNCHANGED <<workVars, queue, cur, activeJobs, poolVars, request, shiftVars,
                 usedIn, usedCache, dvs>>

MonitorRunning ==
  /\ pc = "running" /\ pc' = "finally"
  /\ status' = [status EXCEPT ![cur] = "RUNNING"]
  /\ UNCHANGED <<dvOf, named, queue, cur, activeJobs, poolVars, request, shiftVars, synVars>>

\* A call that throws: the exception is logged and the work is not resubmitted.
MonitorThrows ==
  /\ Fails
  /\ pc \in {"build", "built", "deploy", "serve", "connect"} /\ pc' = "finally"
  /\ UNCHANGED <<workVars, queue, cur, activeJobs, poolVars, request,
                 builds, dc, due, services, synVars>>

\* createSyndesisConnection fails after its POST.
MonitorConnectUnsaved ==
  /\ Fails
  /\ pc = "connect" /\ services[dvOf[cur]] /\ pc' = "finally"
  /\ connections' = connections \cup {cur}
  /\ UNCHANGED <<workVars, queue, cur, activeJobs, poolVars, request,
                 builds, dc, due, services, usedIn, usedCache, dvs, sourceId>>

\* deployLatest fails after the status was written.
MonitorDeployingThrows ==
  /\ Fails
  /\ pc = "deploying" /\ pc' = "finally"
  /\ status' = [status EXCEPT ![cur] = "DEPLOYING"]
  /\ UNCHANGED <<dvOf, named, queue, cur, activeJobs, poolVars, request,
                 builds, dc, due, services, synVars>>

\* A variant whose entry stays in the map.
MonitorFinally_Stays ==
  /\ pc = "finally" /\ pc' = "idle" /\ cur' = None
  /\ UNCHANGED <<workVars, queue, activeJobs, poolVars, request, shiftVars, synVars>>

MonitorFinally ==
  /\ pc = "finally" /\ pc' = "idle"
  /\ activeJobs' = [activeJobs EXCEPT ![dvOf[cur]] = None]
  /\ cur' = None
  /\ UNCHANGED <<workVars, queue, poolVars, request, shiftVars, synVars>>

Monitor ==
  \/ MonitorTake \/ MonitorAwaitDelete \/ MonitorRetryDelete \/ MonitorDeleted
  \/ MonitorEnded \/ MonitorProceed \/ MonitorRedelete \/ MonitorPublish
  \/ MonitorConfigure \/ MonitorBuild \/ MonitorBuilt \/ MonitorDeployment
  \/ MonitorCreateDC \/ MonitorDeploying \/ MonitorServe \/ MonitorConnect \/ MonitorRunning
  \/ MonitorThrows \/ MonitorConnectUnsaved \/ MonitorDeployingThrows \/ MonitorFinally

-----------------------------------------------------------------------------
(* The tasks of configureService.                                          *)

TaskTake(t) ==
  /\ thread[t] = NoTask /\ taskQueue # <<>>
  /\ thread' = [thread EXCEPT ![t] = Head(taskQueue)]
  /\ taskQueue' = Tail(taskQueue)
  /\ UNCHANGED <<workVars, monVars, request, shiftVars, synVars>>

Runs(t, kind, at) == thread[t].kind = kind /\ thread[t].at = at
Goto(t, at) == thread' = [thread EXCEPT ![t].at = at]
Ends(t)     == thread' = [thread EXCEPT ![t] = NoTask]

\* createImageStream, createBuildConfig, createBuild
ConfigureCreate(t) ==
  /\ Runs(t, "configure", "create") /\ Goto(t, "finish")
  /\ builds' = [builds EXCEPT ![thread[t].work] = "running"]
  /\ UNCHANGED <<workVars, monVars, taskQueue, request, dc, due, services, failures, synVars>>

\* The environment and secret variables are there: the work is BUILDING.
ConfigureFinish(t) ==
  /\ Runs(t, "configure", "finish") /\ Ends(t)
  /\ named' = [named EXCEPT ![thread[t].work] = TRUE]
  /\ status' = [status EXCEPT ![thread[t].work] = "BUILDING"]
  /\ UNCHANGED <<dvOf, monVars, taskQueue, request, shiftVars, synVars>>

\* Any exception, before or after the build was created.
ConfigureFails(t) ==
  /\ Fails
  /\ thread[t].kind = "configure" /\ Ends(t)
  /\ status' = [status EXCEPT ![thread[t].work] = "FAILED"]
  /\ UNCHANGED <<dvOf, named, monVars, taskQueue, request, builds, dc, due, services, synVars>>

After(at) == CASE at = "services" -> "builds" [] at = "builds" -> "dc" [] at = "dc" -> "finish"

\* One group of deletions of deleteVDBServiceResources.
DeleteGroup(t) ==
  LET d == dvOf[thread[t].work] IN
  /\ thread[t].kind = "delete" /\ thread[t].at # "finish"
  /\ Goto(t, After(thread[t].at))
  /\ services' = IF thread[t].at = "services" THEN [services EXCEPT ![d] = FALSE] ELSE services
  /\ builds' = IF thread[t].at = "builds"
               THEN [w \in Works |-> IF dvOf[w] = d THEN "none" ELSE builds[w]] ELSE builds
  /\ dc' = IF thread[t].at = "dc" THEN [dc EXCEPT ![d] = "none"] ELSE dc
  /\ due' = IF thread[t].at = "dc" THEN [due EXCEPT ![d] = FALSE] ELSE due
  /\ UNCHANGED <<workVars, monVars, taskQueue, request, failures, synVars>>

\* A group that fails asks for the delete to be requeued, and the next one runs.
DeleteGroupFails(t) ==
  /\ Fails
  /\ thread[t].kind = "delete" /\ thread[t].at # "finish"
  /\ Goto(t, After(thread[t].at))
  /\ status' = [status EXCEPT ![thread[t].work] = "DELETE_REQUEUE"]
  /\ UNCHANGED <<dvOf, named, monVars, taskQueue, request, builds, dc, due, services, synVars>>

\* Anything but a KubernetesClientException ends the task: nobody reads the
\* Future that holds it, and the status stays as it is.
DeleteThrows(t) ==
  /\ Fails
  /\ thread[t].kind = "delete" /\ thread[t].at # "finish" /\ Ends(t)
  /\ UNCHANGED <<workVars, monVars, taskQueue, request, builds, dc, due, services, synVars>>

\* The last statement: DELETE_DONE, whether or not a group failed.
DeleteFinish(t) ==
  /\ Runs(t, "delete", "finish") /\ Ends(t)
  /\ status' = [status EXCEPT ![thread[t].work] = "DELETE_DONE"]
  /\ UNCHANGED <<dvOf, named, monVars, taskQueue, request, shiftVars, synVars>>

PoolStep(t) ==
  \/ TaskTake(t) \/ ConfigureCreate(t) \/ ConfigureFinish(t) \/ ConfigureFails(t)
  \/ DeleteGroup(t) \/ DeleteGroupFails(t) \/ DeleteThrows(t) \/ DeleteFinish(t)

-----------------------------------------------------------------------------
(* OpenShift, the users of Syndesis and of the service.                    *)

\* A complete build pushes its image, and the dc that is there has an automatic
\* ImageChange trigger.
BuildEnds(w) ==
  /\ builds[w] = "running"
  /\ \E p \in {"complete", "failed", "cancelled"} :
       /\ builds' = [builds EXCEPT ![w] = p]
       /\ due' = IF p = "complete" /\ dc[dvOf[w]] # "none"
                 THEN [due EXCEPT ![dvOf[w]] = TRUE] ELSE due
  /\ UNCHANGED <<workVars, monVars, poolVars, request, dc, services, failures, synVars>>

\* The rollout that is due starts, whatever became of the last one.
RolloutStarts(d) ==
  /\ due[d] /\ due' = [due EXCEPT ![d] = FALSE]
  /\ dc' = [dc EXCEPT ![d] = "progressing"]
  /\ UNCHANGED <<workVars, monVars, poolVars, request, builds, services, failures, synVars>>

\* A rollout succeeds or is given up after several tries.
RolloutEnds(d) ==
  /\ dc[d] = "progressing"
  /\ \E s \in {"ready", "failed"} : dc' = [dc EXCEPT ![d] = s]
  /\ UNCHANGED <<workVars, monVars, poolVars, request, builds, due, services, failures, synVars>>

OpenShift ==
  \/ \E w \in Works : BuildEnds(w)
  \/ \E d \in DVs : RolloutStarts(d) \/ RolloutEnds(d)

Integrate(c) ==
  /\ UsersIntegrate /\ c \in connections \ usedIn
  /\ usedIn' = usedIn \cup {c}
  /\ UNCHANGED <<workVars, monVars, poolVars, request, shiftVars,
                 connections, usedCache, dvs, sourceId>>

\* deleteDataVirtualization and createDataVirtualization, as far as the row goes.
DropDV(d) ==
  /\ d \in Mortal \cap dvs
  /\ dvs' = dvs \ {d} /\ sourceId' = [sourceId EXCEPT ![d] = None]
  /\ UNCHANGED <<workVars, monVars, poolVars, request, shiftVars,
                 connections, usedIn, usedCache>>

CreateDV(d) ==
  /\ d \in Mortal \ dvs /\ dvs' = dvs \cup {d}
  /\ UNCHANGED <<workVars, monVars, poolVars, request, shiftVars,
                 connections, usedIn, usedCache, sourceId>>

\* The pod goes and comes back: nothing that the client keeps in memory, the
\* works, their queue and the tasks, is read from anywhere on start-up.
Restart ==
  /\ MayRestart
  /\ status' = [w \in Works |-> IF status[w] = "UNUSED" THEN "UNUSED" ELSE "LOST"]
  /\ queue' = <<>> /\ cur' = None /\ pc' = "idle"
  /\ activeJobs' = [d \in DVs |-> None]
  /\ taskQueue' = <<>> /\ thread' = [t \in PoolThreads |-> NoTask]
  /\ request' = [r \in Publishers \cup Unpublishers |->
                   IF request[r] = Idle THEN Idle ELSE Done]
  /\ usedCache' = None
  /\ UNCHANGED <<dvOf, named, shiftVars, connections, usedIn, dvs, sourceId>>

-----------------------------------------------------------------------------
Rest(r) ==
  \/ \E d \in DVs : PublishRead(r, d) \/ UnpublishRead(r, d)
  \/ \E w \in Works : PublishEnqueue(r, w) \/ UnpublishFound(r, w)
  \/ UnpublishActive(r) \/ UnpublishRefused(r) \/ UnpublishSubmit(r) \/ UnpublishMark(r)

Next ==
  \/ \E r \in Publishers \cup Unpublishers : Rest(r)
  \/ Monitor
  \/ \E t \in PoolThreads : PoolStep(t)
  \/ OpenShift
  \/ \E w \in Works : Integrate(w)
  \/ \E d \in DVs : DropDV(d) \/ CreateDV(d)
  \/ Restart

Spec == Init /\ [][Next]_vars

\* The threads of the service run, the calls they started are finished, and
\* OpenShift goes on with builds and rollouts; users ask for nothing in particular.
Fairness ==
  /\ WF_vars(Monitor)
  /\ \A t \in PoolThreads : WF_vars(PoolStep(t))
  /\ \A r \in Unpublishers : WF_vars(UnpublishSubmit(r) \/ UnpublishMark(r))
  /\ WF_vars(OpenShift)

FairSpec == Spec /\ Fairness

-----------------------------------------------------------------------------
(* Properties.                                                             *)

\* Every variable has its type.
TypeOK ==
  /\ status \in [Works -> Status \cup {"UNUSED", "LOST"}]
  /\ dvOf \in [Works -> DVs \cup {None}]
  /\ named \in [Works -> BOOLEAN]
  /\ queue \in Seq(Works)
  /\ cur \in Works \cup {None}
  /\ pc \in PC
  /\ activeJobs \in [DVs -> Works \cup {None}]
  /\ taskQueue \in Seq(Task)
  /\ thread \in [PoolThreads -> Task \cup {NoTask}]
  /\ request \in [Publishers \cup Unpublishers -> Request]
  /\ builds \in [Works -> BuildPhase]
  /\ dc \in [DVs -> DCState]
  /\ due \in [DVs -> BOOLEAN]
  /\ services \in [DVs -> BOOLEAN]
  /\ failures \in 0..MaxFailures
  /\ connections \subseteq Works
  /\ usedIn \subseteq Works
  /\ usedCache \in (SUBSET Works) \cup {None}
  /\ dvs \subseteq DVs
  /\ sourceId \in [DVs -> Works \cup {None}]

\* activeJobs, the map that publish, unpublish and status requests consult
\* before the cluster, names the work the monitor is at and nothing else, also
\* when works of one virtualization follow each other and a work is resubmitted
\* before its entry is removed.
ActiveIsCurrent ==
  \A d \in DVs : activeJobs[d] = IF pc # "idle" /\ dvOf[cur] = d THEN cur ELSE None

InQueue(w) == \E i \in 1..Len(queue) : queue[i] = w

\* A publish that was accepted and has no build yet is never forgotten: as long
\* as its status is SUBMITTED or CONFIGURING the monitor has it or will get to
\* it, whatever unpublish requests, failing calls and restarts do.
NotForgotten ==
  \A w \in Works : status[w] \in {"SUBMITTED", "CONFIGURING"} =>
    InQueue(w) \/ (cur = w /\ pc \in {"sleep", "publish", "configure"})

\* The places of the pool that hold a configure task of w.
QueuedConfigure(w)  == {i \in 1..Len(taskQueue) : /\ taskQueue[i].kind = "configure"
                                                  /\ taskQueue[i].work = w}
RunningConfigure(w) == {t \in PoolThreads : /\ thread[t].kind = "configure"
                                            /\ thread[t].work = w}

\* A publish is configured once: the status CONFIGURING, written before the
\* task is handed to the pool, keeps the monitor from starting a second build
\* of a work it meets again, or in a second runner, while the task waits or runs.
ConfiguredOnce ==
  \A w \in Works :
    /\ \A i, j \in QueuedConfigure(w) : i = j
    /\ \A t, u \in RunningConfigure(w) : t = u
    /\ QueuedConfigure(w) = {} \/ RunningConfigure(w) = {}
    /\ status[w] \in {"UNUSED", "SUBMITTED"} =>
         QueuedConfigure(w) = {} /\ RunningConfigure(w) = {}

\* Nobody has unpublished anything so far.
Undisturbed == \A r \in Unpublishers : request[r] = Idle

\* As long as nobody unpublishes, a work has one runner: it is once in the
\* queue, or the monitor is at it, or its last run is about to leave the map.
OneRunner ==
  Undisturbed =>
    /\ \A i, j \in 1..Len(queue) : queue[i] = queue[j] => i = j
    /\ pc \notin {"idle", "finally"} => ~InQueue(cur)

\* As long as nobody unpublishes and calls do not fail, a work with a build or a
\* deployment under way is monitored: nothing is left half published.
BuildMonitored ==
  Undisturbed /\ failures = 0 =>
    \A w \in Works : status[w] \in {"BUILDING", "DEPLOYING"} =>
      InQueue(w) \/ (cur = w /\ pc # "idle")

\* As long as nobody unpublishes, a work that is RUNNING has services and a
\* registered connection, and the row of its virtualization, unless it was
\* made anew meanwhile, names a registered connection of that virtualization.
RunningIsServed ==
  Undisturbed =>
    \A w \in Works : status[w] = "RUNNING" =>
      LET d == dvOf[w] IN
      /\ services[d]
      /\ w \in connections
      /\ d \in dvs /\ d \notin Mortal => /\ sourceId[d] \in connections
                                         /\ dvOf[sourceId[d]] = d

\* The order of the statuses of a publish.
Rank(s) == CASE s = "UNUSED" -> 0 [] s = "SUBMITTED" -> 1 [] s = "CONFIGURING" -> 2
             [] s = "BUILDING" -> 3 [] s = "DEPLOYING" -> 4
             [] s \in {"RUNNING", "FAILED", "CANCELLED"} -> 5
             [] OTHER -> 6

\* As long as nobody unpublishes, the status of a publish only moves forward,
\* though the monitor and the pool write it in turn, and its end is final.
StatusForward ==
  [][Undisturbed' =>
       \A w \in Works : status[w] # status'[w] => Rank(status[w]) < Rank(status'[w])]_status

\* A publish whose deployment the monitor has found ready, until it is RUNNING or dropped.
FoundReady(w) == cur = w /\ pc \in {"serve", "connect", "running"}

\* What a status of this module is to a Publication.
PhaseOf == [w \in Works |-> IF FoundReady(w) THEN "READY" ELSE status[w]]

\* As long as nobody unpublishes, the monitor, its queue and the pool together are
\* no more than a Publication: a status is written, and services and connection are
\* made, only after what it says of build and deployment was there, and in no other
\* order, though others roll the same deployment out again in between.
Abstract == INSTANCE Publication
              WITH phase <- PhaseOf, of <- dvOf, build <- builds, rollout <- dc,
                   served <- services, registered <- connections, rows <- dvs,
                   source <- sourceId
Lifecycle == Abstract!Init /\ [][Undisturbed' => Abstract!Next]_(Abstract!pvars)

\* The monitor gets to every work in its queue: a work that is resubmitted
\* forever does not keep the others waiting.
QueueDrains == \A w \in Works : InQueue(w) ~> (cur = w \/ status[w] = "LOST")

\* A publish ends, unless somebody unpublishes, a call fails or the pod goes.
PublishEnds ==
  \A w \in Works : status[w] = "SUBMITTED" ~>
    \/ status[w] \in {"RUNNING", "FAILED", "CANCELLED", "LOST"}
    \/ failures > 0
    \/ \E r \in Unpublishers : request[r] # Idle
=============================================================================
