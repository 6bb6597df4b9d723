------------------------------ MODULE PreviewVdb ------------------------------
(***************************************************************************)
(* The preview vdbs of MetadataService.  A virtualization's service vdb is *)
(* deployed on demand, by the request that finds it missing or labelled    *)
(* with another version than its row; it imports the main preview vdb,     *)
(* which imports the connection vdbs.  When these change, the connection   *)
(* executor (one thread) undeploys the service vdbs and deploys the main   *)
(* preview vdb anew, one step after the other.                             *)
(*                                                                         *)
(* Request threads hold the lock of the virtualization and, for the        *)
(* deployment, masterLock; the executor holds masterLock around each of    *)
(* its steps; the request that deletes a virtualization holds nothing.     *)
(*                                                                         *)
(* Not every change of the views touches the row, and a request that lists *)
(* views reads the row in the transaction that has loaded them already.    *)
(***************************************************************************)
EXTENDS Naturals, FiniteSets

CONSTANTS
  DVs,         \* the names of virtualizations
  Threads,     \* the request threads
  Listers,     \* those of them that may serve a request that lists views
  Conns,       \* the connections that may have a connection vdb
  MaxVersion,  \* bounds the versions of a row
  MaxStamp,    \* bounds the changes of views, and the rows made anew
  MaxGen,      \* bounds the deployments of connection vdbs
  MayRecreate, \* whether a deleted virtualization is created again
  None         \* nobody, nothing

ASSUME PreviewAssumption ==
  /\ None \notin Threads \cup {"executor"} /\ None \notin Nat /\ None \notin [Conns -> 0..MaxGen]
  /\ "executor" \notin Threads /\ Listers \subseteq Threads
  /\ MaxVersion \in Nat /\ MaxStamp \in Nat /\ MaxGen \in Nat
  /\ MayRecreate \in BOOLEAN

VARIABLES
  \* the database
  version,     \* the version of each row, None if there is no row
  content,     \* the stamp of the last change of its views; 0 if it has none
  touched,     \* the stamp of the last of them that touched the row too
  stamp,       \* the stamps given so far, one to each row made anew too
  \* the Teiid server
  conn,        \* the generation of each connection vdb, 0 if there is none
  gen,         \* the generations given so far
  preview,     \* the main preview vdb: the generations it imports
  service,     \* the service vdbs: label, views, and the preview vdb they import
  \* MetadataService
  masterLock, dvLock,  \* who holds them
  thread,      \* what each request thread does
  owed,        \* threads that deployed a connection vdb and still have to ask for a refresh
  refreshes,   \* refreshes waiting in the executor's queue
  refresh      \* what the executor does

rowVars   == <<version, content, touched, stamp>>
connVars  == <<conn, gen, owed>>
lockVars  == <<masterLock, dvLock>>
execVars  == <<refreshes, refresh>>
vars == <<rowVars, connVars, preview, service, lockVars, thread, execVars>>

ThreadPC  == {"idle", "find", "remove", "list", "check", "lock", "recheck", "views",
              "master", "undeploy", "deploy", "done"}
RefreshPC == {"idle", "list", "undeploy", "drop", "deploy"}

Preview == [Conns -> 0..MaxGen]
\* A vdb knows whether the request that deployed it had listed views, so does a
\* request of the vdb that it works with.
Vdb     == [label : 0..MaxVersion, content : 0..MaxStamp, base : Preview, listed : BOOLEAN]
Thread  == [at : ThreadPC, dv : DVs \cup {None}, version : 0..MaxVersion,
            floor : 0..MaxStamp, content : 0..MaxStamp, listed : BOOLEAN]
Refresh == [at : RefreshPC, todo : SUBSET DVs, imports : SUBSET Conns]
Empty   == [c \in Conns |-> 0]

Begins(at, d, v, c) ==
  [at |-> at, dv |-> d, version |-> v, floor |-> c, content |-> 0, listed |-> FALSE]
Idle == Begins("idle", None, 0, 0)
Rest == [at |-> "idle", todo |-> {}, imports |-> {}]

\* init() deploys a first main preview vdb.
Init ==
  /\ version = [d \in DVs |-> 0] /\ stamp = 0
  /\ content = [d \in DVs |-> 0] /\ touched = [d \in DVs |-> 0]
  /\ conn = Empty /\ gen = 0 /\ preview = Empty
  /\ service = [d \in DVs |-> None]
  /\ masterLock = None /\ dvLock = [d \in DVs |-> None]
  /\ thread = [t \in Threads |-> Idle]
  /\ owed = 0 /\ refreshes = 0 /\ refresh = Rest

-----------------------------------------------------------------------------
(* The rows.                                                               *)

\* upsertViewEditorState, removeViewDefinition or importViews: the views change
\* and the row is touched in the same transaction.
Edit(d) ==
  /\ version[d] # None /\ version[d] < MaxVersion /\ stamp < MaxStamp
  /\ stamp' = stamp + 1
  /\ content' = [content EXCEPT ![d] = stamp + 1]
  /\ touched' = [touched EXCEPT ![d] = stamp + 1]
  /\ version' = [version EXCEPT ![d] = @ + 1]
  /\ UNCHANGED <<connVars, preview, service, lockVars, thread, execVars>>

\* upsertViewEditorState of a view that is there and parsable already: DDL that
\* is taken from the ui as it is, or complete set or cleared.
EditUntouched(d) ==
  /\ content[d] > 0 /\ stamp < MaxStamp
  /\ stamp' = stamp + 1
  /\ content' = [content EXCEPT ![d] = stamp + 1]
  /\ UNCHANGED <<version, touched, connVars, preview, service, lockVars, thread, execVars>>

\* updateDataVirtualization: only the row changes.
Describe(d) ==
  /\ version[d] # None /\ version[d] < MaxVersion
  /\ version' = [version EXCEPT ![d] = @ + 1]
  /\ UNCHANGED <<content, touched, stamp, connVars, preview, service, lockVars, thread, execVars>>

Create(d) ==
  /\ MayRecreate /\ version[d] = None /\ stamp < MaxStamp
  /\ stamp' = stamp + 1
  /\ version' = [version EXCEPT ![d] = 0]
  /\ UNCHANGED <<content, touched, connVars, preview, service, lockVars, thread, execVars>>

\* deleteDataVirtualization: the views go with the row; after the commit ...
Delete(t, d) ==
  /\ thread[t].at \in {"idle", "done"} /\ version[d] # None
  /\ version' = [version EXCEPT ![d] = None]
  /\ content' = [content EXCEPT ![d] = 0] /\ touched' = [touched EXCEPT ![d] = 0]
  /\ thread' = [thread EXCEPT ![t] = Begins("find", d, 0, 0)]
  /\ UNCHANGED <<stamp, connVars, preview, service, lockVars, execVars>>

\* ... removeVdb looks for the service vdb and undeploys what it found.
RemoveFind(t) ==
  /\ thread[t].at = "find"
  /\ thread' = [thread EXCEPT ![t] =
       IF service[thread[t].dv] = None THEN Idle ELSE [@ EXCEPT !.at = "remove"]]
  /\ UNCHANGED <<rowVars, connVars, preview, service, lockVars, execVars>>

RemoveUndeploy(t) ==
  /\ thread[t].at = "remove"
  /\ service' = [service EXCEPT ![thread[t].dv] = None]
  /\ thread' = [thread EXCEPT ![t] = Idle]
  /\ UNCHANGED <<rowVars, connVars, preview, lockVars, execVars>>

-----------------------------------------------------------------------------
(* updatePreviewVdb.                                                       *)

\* The row is read first.
UpdateRead(t, d) ==
  /\ thread[t].at \in {"idle", "done"} /\ version[d] # None
  /\ thread' = [thread EXCEPT ![t] = Begins("check", d, version[d], touched[d])]
  /\ UNCHANGED <<rowVars, connVars, preview, service, lockVars, execVars>>

\* getViewList and getViewDefinition load views ...
ListViews(t, d) ==
  /\ t \in Listers
  /\ thread[t].at \in {"idle", "done"} /\ version[d] # None /\ content[d] > 0
  /\ thread' = [thread EXCEPT ![t] =
       [at |-> "list", dv |-> d, version |-> 0, floor |-> touched[d],
        content |-> content[d], listed |-> TRUE]]
  /\ UNCHANGED <<rowVars, connVars, preview, service, lockVars, execVars>>

\* ... before updatePreviewVdb, in the same transaction, reads the row.
ListRead(t) ==
  LET v == version[thread[t].dv] IN
  /\ thread[t].at = "list"
  /\ thread' = [thread EXCEPT ![t] =
       IF v = None THEN Idle ELSE [@ EXCEPT !.at = "check", !.version = v]]
  /\ UNCHANGED <<rowVars, connVars, preview, service, lockVars, execVars>>

\* The vdb is there with the version that was read.
Current(t) == LET v == service[thread[t].dv] IN v # None /\ v.label = thread[t].version

Goto(t, at) == thread' = [thread EXCEPT ![t].at = at]

\* The request goes on with the vdb that is deployed.
Return(t) ==
  LET v == service[thread[t].dv] IN
  thread' = [thread EXCEPT ![t].at = "done", ![t].content = v.content, ![t].listed = v.listed]

\* A variant that takes any version for current.
UpdateCheck_AnyVersion(t) ==
  /\ thread[t].at = "check"
  /\ IF service[thread[t].dv] # None THEN Return(t) ELSE Goto(t, "lock")
  /\ UNCHANGED <<rowVars, connVars, preview, service, lockVars, execVars>>

UpdateCheck(t) ==
  /\ thread[t].at = "check"
  /\ IF Current(t) THEN Return(t) ELSE Goto(t, "lock")
  /\ UNCHANGED <<rowVars, connVars, preview, service, lockVars, execVars>>

UpdateLock(t) ==
  /\ thread[t].at = "lock" /\ dvLock[thread[t].dv] = None
  /\ dvLock' = [dvLock EXCEPT ![thread[t].dv] = t]
  /\ Goto(t, "recheck")
  /\ UNCHANGED <<rowVars, connVars, preview, service, masterLock, execVars>>

UpdateRecheck(t) ==
  /\ thread[t].at = "recheck"
  /\ IF Current(t)
     THEN Return(t) /\ dvLock' = [dvLock EXCEPT ![thread[t].dv] = None]
     ELSE Goto(t, "views") /\ UNCHANGED dvLock
  /\ UNCHANGED <<rowVars, connVars, preview, service, masterLock, execVars>>

\* findViewDefinitions finds what is committed by now, but a view that the
\* transaction has loaded stays as it was then.
Found(t) ==
  LET now == content[thread[t].dv] IN
  {now} \cup (IF thread[t].listed THEN thread[t].content..now ELSE {})

UpdateViews(t) ==
  /\ thread[t].at = "views"
  /\ \E c \in Found(t) :
       thread' = [thread EXCEPT ![t].at = "master", ![t].content = c]
  /\ UNCHANGED <<rowVars, connVars, preview, service, lockVars, execVars>>

UpdateMaster(t) ==
  /\ thread[t].at = "master" /\ masterLock = None
  /\ masterLock' = t
  /\ Goto(t, "undeploy")
  /\ UNCHANGED <<rowVars, connVars, preview, service, dvLock, execVars>>

\* deploy() undeploys what has the name, ...
UpdateUndeploy(t) ==
  /\ thread[t].at = "undeploy"
  /\ service' = [service EXCEPT ![thread[t].dv] = None]
  /\ Goto(t, "deploy")
  /\ UNCHANGED <<rowVars, connVars, preview, lockVars, execVars>>

\* A variant that labels the vdb with the version the row has by now.
UpdateDeploy_Relabel(t) ==
  LET d == thread[t].dv IN
  /\ thread[t].at = "deploy" /\ preview # None
  /\ service' = [service EXCEPT ![d] =
       [label |-> IF version[d] = None THEN thread[t].version ELSE version[d],
        content |-> thread[t].content, base |-> preview, listed |-> thread[t].listed]]
  /\ Goto(t, "done")
  /\ masterLock' = None /\ dvLock' = [dvLock EXCEPT ![d] = None]
  /\ UNCHANGED <<rowVars, connVars, preview, execVars>>

\* ... and deploys the new vdb, which needs the main preview vdb.
UpdateDeploy(t) ==
  LET d == thread[t].dv IN
  /\ thread[t].at = "deploy" /\ preview # None
  /\ service' = [service EXCEPT ![d] =
       [label |-> thread[t].version, content |-> thread[t].content, base |-> preview,
        listed |-> thread[t].listed]]
  /\ Goto(t, "done")
  /\ masterLock' = None /\ dvLock' = [dvLock EXCEPT ![d] = None]
  /\ UNCHANGED <<rowVars, connVars, preview, execVars>>

RequestStep(t) ==
  \/ RemoveFind(t) \/ RemoveUndeploy(t)
  \/ ListRead(t) \/ UpdateCheck(t) \/ UpdateLock(t) \/ UpdateRecheck(t) \/ UpdateViews(t)
  \/ UpdateMaster(t) \/ UpdateUndeploy(t) \/ UpdateDeploy(t)

-----------------------------------------------------------------------------
(* Connection vdbs, and the refresh they ask for.                          *)

\* doDeploySourceVdb deploys a connection vdb: a request thread may add one at
\* any time, only the executor replaces one.
ConnectionDeploy(c) ==
  /\ gen < MaxGen /\ (conn[c] = 0 \/ refresh = Rest)
  /\ gen' = gen + 1
  /\ conn' = [conn EXCEPT ![c] = gen + 1]
  /\ owed' = owed + 1
  /\ UNCHANGED <<rowVars, preview, service, lockVars, thread, execVars>>

\* A variant that does not ask while a refresh is going on.
AskRefresh_Coalesced ==
  /\ owed > 0 /\ owed' = owed - 1
  /\ refreshes' = IF refresh = Rest THEN refreshes + 1 ELSE refreshes
  /\ UNCHANGED <<rowVars, conn, gen, preview, service, lockVars, thread, refresh>>

\* The deployment done, it asks the executor for a refresh.
AskRefresh ==
  /\ owed > 0 /\ owed' = owed - 1
  /\ refreshes' = refreshes + 1
  /\ UNCHANGED <<rowVars, conn, gen, preview, service, lockVars, thread, refresh>>

\* The task of deleteSchema removes a connection vdb and refreshes.
ConnectionRemove(c) ==
  /\ refresh = Rest /\ conn[c] # 0
  /\ conn' = [conn EXCEPT ![c] = 0]
  /\ refresh' = [refresh EXCEPT !.at = "list"]
  /\ UNCHANGED <<rowVars, gen, owed, preview, service, lockVars, thread, refreshes>>

RefreshStart ==
  /\ refresh = Rest /\ refreshes > 0
  /\ refreshes' = refreshes - 1
  /\ refresh' = [refresh EXCEPT !.at = "list"]
  /\ UNCHANGED <<rowVars, connVars, preview, service, lockVars, thread>>

\* A variant that undeploys connection vdbs with the service vdbs.
RefreshList_AllVdbs ==
  /\ refresh.at = "list"
  /\ refresh' = [at |-> "undeploy", imports |-> {c \in Conns : conn[c] # 0},
                 todo |-> {d \in DVs : service[d] # None} \cup {c \in Conns : conn[c] # 0}]
  /\ UNCHANGED <<rowVars, connVars, preview, service, lockVars, thread, refreshes>>

\* refreshPreviewVdb lists the vdbs: connection vdbs are imported, ...
RefreshList ==
  /\ refresh.at = "list"
  /\ refresh' = [at |-> "undeploy", todo |-> {d \in DVs : service[d] # None},
                 imports |-> {c \in Conns : conn[c] # 0}]
  /\ UNCHANGED <<rowVars, connVars, preview, service, lockVars, thread, refreshes>>

\* A variant with the finer lock: the virtualization's, while masterLock is held.
RefreshUndeploy_Finer(d) ==
  /\ refresh.at = "undeploy" /\ d \in refresh.todo
  /\ \/ masterLock = None /\ masterLock' = "executor" /\ UNCHANGED <<service, refresh>>
     \/ /\ masterLock = "executor" /\ dvLock[d] = None /\ masterLock' = None
        /\ service' = [service EXCEPT ![d] = None]
        /\ refresh' = [refresh EXCEPT !.todo = @ \ {d}]
  /\ UNCHANGED <<rowVars, connVars, preview, dvLock, thread, refreshes>>

\* ... service vdbs are no longer valid, ...
RefreshUndeploy(d) ==
  /\ refresh.at = "undeploy" /\ d \in refresh.todo /\ masterLock = None
  /\ service' = [service EXCEPT ![d] = None]
  /\ refresh' = [refresh EXCEPT !.todo = @ \ {d}]
  /\ UNCHANGED <<rowVars, connVars, preview, lockVars, thread, refreshes>>

\* A variant that deploys without masterLock.
RefreshMaster_Unlocked ==
  /\ refresh.at = "undeploy" /\ refresh.todo = {}
  /\ refresh' = [refresh EXCEPT !.at = "drop"]
  /\ UNCHANGED <<rowVars, connVars, preview, service, lockVars, thread, refreshes>>

\* ... and the main preview vdb is deployed anew.
RefreshMaster ==
  /\ refresh.at = "undeploy" /\ refresh.todo = {} /\ masterLock = None
  /\ masterLock' = "executor"
  /\ refresh' = [refresh EXCEPT !.at = "drop"]
  /\ UNCHANGED <<rowVars, connVars, preview, service, dvLock, thread, refreshes>>

RefreshDrop ==
  /\ refresh.at = "drop"
  /\ preview' = None
  /\ refresh' = [refresh EXCEPT !.at = "deploy"]
  /\ UNCHANGED <<rowVars, connVars, service, lockVars, thread, refreshes>>

\* The imports are resolved to the connection vdbs that are deployed now.
RefreshDeploy ==
  /\ refresh.at = "deploy"
  /\ preview' = [c \in Conns |-> IF c \in refresh.imports THEN conn[c] ELSE 0]
  /\ masterLock' = None
  /\ refresh' = Rest
  /\ UNCHANGED <<rowVars, connVars, service, dvLock, thread, refreshes>>

Executor ==
  \/ RefreshStart \/ RefreshList \/ (\E d \in DVs : RefreshUndeploy(d))
  \/ RefreshMaster \/ RefreshDrop \/ RefreshDeploy

Next ==
  \/ \E d \in DVs : Edit(d) \/ EditUntouched(d) \/ Describe(d) \/ Create(d)
  \/ \E t \in Threads, d \in DVs : Delete(t, d) \/ UpdateRead(t, d) \/ ListViews(t, d)
  \/ \E t \in Threads : RequestStep(t)
  \/ \E c \in Conns : ConnectionDeploy(c) \/ ConnectionRemove(c)
  \/ AskRefresh
  \/ Executor

Spec == Init /\ [][Next]_vars

\* Threads run, and a lock that stays free is acquired.
Fairness ==
  /\ \A t \in Threads : WF_vars(RequestStep(t))
  /\ WF_vars(AskRefresh)
  /\ WF_vars(Executor)

FairSpec == Spec /\ Fairness

-----------------------------------------------------------------------------
(* Properties.                                                             *)

\* Every variable has its type.
TypeOK ==
  /\ version \in [DVs -> (0..MaxVersion) \cup {None}]
  /\ content \in [DVs -> 0..MaxStamp] /\ touched \in [DVs -> 0..MaxStamp]
  /\ stamp \in 0..MaxStamp
  /\ conn \in [Conns -> 0..MaxGen] /\ gen \in 0..MaxGen
  /\ preview \in Preview \cup {None}
  /\ service \in [DVs -> Vdb \cup {None}]
  /\ masterLock \in Threads \cup {"executor", None}
  /\ dvLock \in [DVs -> Threads \cup {None}]
  /\ thread \in [Threads -> Thread]
  /\ owed \in Nat /\ refreshes \in Nat
  /\ refresh \in Refresh

\* A service vdb that carries the version of its row shows at least the last
\* change of the views that touched the row, and nothing newer than the row's
\* views: what updatePreviewVdb takes for current is, up to the changes that do
\* not touch, whatever is committed between its reads. A request that had listed
\* views before is excepted (as is a name that is used twice).
LabelIsCurrent ==
  \A d \in DVs : LET v == service[d] IN
    v # None /\ v.label = version[d] =>
      v.content <= content[d] /\ (v.listed \/ v.content >= touched[d])

\* A request that ends works on views at least as recent as the last change that
\* touched the row before it began, also when others deploy for it or edit
\* meanwhile, unless a request that had listed views deployed what it works on
\* (and as long as the virtualization is not deleted).
FreshEnough ==
  \A t \in Threads : thread[t].at = "done" /\ version[thread[t].dv] # None =>
    thread[t].listed \/ thread[t].content >= thread[t].floor

\* No service vdb is deployed while the executor has the main preview vdb
\* undeployed: masterLock makes undeploy and deploy one step.
PreviewThere == \A t \in Threads : thread[t].at = "deploy" => preview # None

\* When no refresh is asked for or going on, the main preview vdb imports the
\* connection vdbs that are deployed, in their last generation: no deployment
\* that came during a refresh is missed.
PreviewSettled == owed = 0 /\ refreshes = 0 /\ refresh = Rest => preview = conn

\* a waits for a lock that b holds.
WaitsFor(a, b) ==
  \/ a \in Threads /\ thread[a].at = "lock" /\ dvLock[thread[a].dv] = b
  \/ a \in Threads /\ thread[a].at = "master" /\ masterLock = b
  \/ a = "executor" /\ refresh.at = "undeploy" /\ masterLock = b

\* Between taking a lock and releasing it.
Inside(b) ==
  \/ b = "executor" /\ refresh.at \in {"drop", "deploy"}
  \/ b \in Threads /\ thread[b].at \in {"recheck", "views", "master", "undeploy", "deploy"}

\* No requests, with or without the executor, wait for each other in a circle,
\* and a lock that is waited for is held by one who is on its way to release it.
NoCircularWait ==
  LET Actors == Threads \cup {"executor"} IN
  /\ \A S \in SUBSET Actors : S # {} => \E a \in S : \A b \in S : ~WaitsFor(a, b)
  /\ \A a, b \in Actors : WaitsFor(a, b) => Inside(b)

\* Every request comes to its end.
RequestEnds == \A t \in Threads : thread[t].at = "check" ~> thread[t].at \in {"done", "idle"}
=============================================================================
