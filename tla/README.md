# Verification of the Syndesis data virtualization service

TLA+ models of the service under `src/`, the TLC runs that check them on small
instances, and TLAPS proofs of their main invariants for every instance.

The service is one Spring Boot application. Users define *virtualizations*
(named sets of SQL views), preview them in an embedded Teiid server, and publish
them: an image is built and deployed in OpenShift and its database is registered
as a *connection* of Syndesis. Connections of Syndesis are in turn the sources
of virtualizations. In short file names below, `OC` is
`openshift/TeiidOpenShiftClient.java`, `CM` and `CS` are
`openshift/SyndesisConnectionMonitor.java` and `...Synchronizer.java`, `MS`,
`DS`, `ES` and `SV` are `server/endpoint/MetadataService.java`,
`DataVirtualizationService.java`, `EditorService.java` and
`ServiceVdbGenerator.java`, `DM` is
`metadata/internal/DefaultMetadataInstance.java`, `RM` is
`repository/RepositoryManagerImpl.java`.

## 1. Inventory

| Component | State | Operations | What makes it hard |
|---|---|---|---|
| Publishing and its monitor (`OC`, `BuildStatus`) | `BuildStatus` objects, `activeJobs`, the queue of the one monitor thread, the pool of configure threads; builds and deployments in OpenShift; `source_id` of a row | `publishVirtualization`, `deleteVirtualization`, `getVirtualizationStatus`, `BuildStatusRunner.run`, `configureBuild`, `deleteVDBServiceResources`, `createSyndesisConnection`, `removeSyndesisConnection` | REST threads, the monitor and the pool write one volatile status without a lock; every call of OpenShift or Syndesis may fail; a restart forgets all works |
| Preview vdbs (`MS`, `DM`) | service vdb of each virtualization, the main preview vdb, connection vdbs; `masterLock`, striped locks | `updatePreviewVdb`, `refreshPreviewVdb`, `removeVdb`, `doDeploySourceVdb`, `deleteSchema` | what is read in a transaction is used under locks taken later; two levels of locks; deletion and re-creation of names |
| Connections (`CM`, `CS`, cache in `OC`) | web socket, `connected`, the queue of `connectionExecutor`, `syndesisSources`, data sources of Teiid, rows of `source_schema` | `connect`, `handleMessage`, `synchronizeConnections`, `addConnection`, `deleteConnection` | lost, late and outdated events; a cache that several threads fill; steps of one task that fail |
| View editor and rows (`ES`, `DS`, `RM`, `model/`) | rows of `data_virtualization` and `view_definition`, with `@Version` | `upsertViewEditorState`, `removeViewDefinition`, `importViews`, create, describe, delete, import of a virtualization | read and write of a transaction are far apart; the virtualization's version must follow what the previews show |
| Loading of connection vdbs (`MS` 304-373, 544-616) | load vdbs, connection vdbs, the locks of their names, `source_schema.ddl` | `deploySourceVdb` in its modes, the vdb listener, `deleteSchema` | asynchronous loads that end in any order, also after their connection; three kinds of threads deploy what has one name |
| DDL generation, names, paths (`SV`, `utils/`) | none | pure functions | boundaries of names, joins, duplicate columns |
| Data source definitions, REST objects, export files, configuration, security, messages | none of their own | mapping and formatting | - |

How they interact:

- `ES` and `DS` change rows. A parsable view that comes, goes or stops being
  parsable also touches the virtualization's row; a change of a view that stays
  parsable need not. `MS.updatePreviewVdb` compares that row's version with the
  label of the deployed service vdb, and so misses the latter.
- `CS` registers data sources and has `MS` deploy a vdb for each; each such
  deployment asks `connectionExecutor` to refresh the main preview vdb.
- `OC` publishes what the rows say, POSTs a connection, saves its id in the row.
  Syndesis lists it to `CS` and tells `CM` of it; `CS` must recognize it by that id.
- `CM`, `CS` and the refreshes share the one thread of `connectionExecutor`; the
  monitor has one of its own; REST requests run in threads of the web server.

The hazards are listed with their lines in `PROJECT.json`.

## 2. Modules and how they correspond to the code

### Publish

A *work* is a `BuildStatus`. `status`, `dvOf`, `named` are its fields. The
monitor is one thread: `cur` and `pc` say where in `BuildStatusRunner.run` it is,
`queue` is `workExecutor`'s queue, `activeJobs` the map. Between two reads or
writes of shared state of the code there is a `pc`, so that REST threads and the
pool can come in between: taking a work and putting it into the map
(`MonitorTake`), the sleep, the looks at the status (`MonitorAwaitDelete` to
`MonitorProceed`), the switch over the status (`MonitorPublish`,
`MonitorConfigure`, `MonitorBuild`, `MonitorBuilt`, `MonitorDeployment`, ...), the
resubmission
and the `finally` clause. The pool takes tasks (`TaskTake`) and runs
`configureBuild` or `deleteVDBServiceResources` step by step, one group of
resources each. `UnpublishRead` to `UnpublishMark` are the steps of
`deleteVirtualization` with its two looks at `activeJobs`; `ClusterStatus` is
`getVDBService`, which makes a new `BuildStatus` from what the cluster shows, or one
that says NOTFOUND if the cluster cannot be asked. `Fails` is an exception of any
remote call; one that is no `KubernetesClientException` ends the task that deletes
(`DeleteThrows`).

A deployment config is rolled out more than once. `due` says that OpenShift is to
roll it out again: after `createOrReplace` of one that is there
(`MonitorCreateDC`), after `deployLatest` (`MonitorDeploying`), and when a complete
build pushes its image, by the ImageChange trigger (`BuildEnds`). The rollout
starts later (`RolloutStarts`), whatever became of the one before, and ends
(`RolloutEnds`). Until it starts the config shows how the previous one ended, and
the monitor, which looks only at the condition "Available" (OC:1022-1030), may take
that for the new one. OpenShift's steps, and the users who build integrations
(`Integrate`), are external. `MCPublish` adds the symmetry of threads.

### Publication

The abstract specification of publishing, for whoever watches a publish and does
not unpublish: asked for, configured, built, DEPLOYING, READY, served, connected,
RUNNING, or ended before. There is no monitor, no queue, no pool and no call that
fails in it; what a status says of the build, the rollout, the services and the
connection is part of the step that writes the status. READY is no status of the
code: a publish is READY from the moment its deployment is found ready (OC:225),
and what follows, services, connection and RUNNING, needs that it was found, not
that it still is, since another publish may roll the deployment out again in
between (`RollOut`); a publish may also fall back (`GiveUp`). `Publish` implements it
(`Abstract == INSTANCE Publication WITH ...`, `Lifecycle`) under the mapping that
forgets the monitor, its queue, `activeJobs`, the pool and the requests; `PhaseOf`
keeps of the monitor which work it has found ready. A restart is `Lose`.

### PreviewVdb

`version` and `content` are what a transaction sees of a virtualization: the
version of its row and a stamp of its views; `touched` is the stamp of the last
change that touched the row. `Edit` touches, `EditUntouched` does not: DDL that is
taken from the ui (ES:286), `complete` set or cleared (ES:274-277). `UpdateRead` ...
`UpdateDeploy` are `updatePreviewVdb`, `RefreshStart` ... `RefreshDeploy` are `refreshPreviewVdb`
on the executor, each lock and each call of the Teiid server a step. `Delete`,
`RemoveFind`, `RemoveUndeploy` are a deletion and its `removeVdb`. Connection
vdbs are deployed (with the request for a refresh after it, `AskRefresh`) and
removed by the environment. The striped locks are one for each name; two names
on one stripe only exclude more.

A request that lists views (`Listers`: `getViewList`, `getViewDefinition`) has
loaded view entities (`ListViews`) before `updatePreviewVdb` joins its transaction
(`runInTransaction`, RM:42-60) and reads the row (`ListRead`). The row is then as it
is committed by now, while each view it has loaded stays as it was: `Found` is what
`findViewDefinitions` may return, anything from what was loaded to what is
committed. What such a request deploys is marked (`listed`). `MCPreview` adds the
symmetry.

### Connections

Syndesis (`remote`, and the messages on each socket), `CM` (`connected`,
`scheduled`, `queue`), the task the executor is at, the cache, the data sources,
the rows. A task is what `synchronizeConnections` or a handler has computed: the
sources to add and the data sources to drop, taken one by one in any order
(`AddConnection`, `DropConnection` and their failures; in `AddConnectionKeeps` the
data source that an update deletes fails to close, so that the cached source stays
though another data source is made). `PublishReads` and
`PublishCaches` are `getSyndesisDataSource` called by a publishing thread, apart
because the REST call and `putIfAbsent` are. `PublishPosts` and `PublishSaves`
are `createSyndesisConnection`. Connections that no data source definition
matches are left out, as `buildSyndesisDataSource` leaves them out; Syndesis does
not use an id twice.

### ViewEditor

One virtualization and its views. A request reads rows (`ReadUpsert`,
`ReadRemove`, `ReadDV`, `ReadImported`, `ReadTouched`) and commits later
(`Commit`, `CommitDV`) or rolls back; `Matches` is what `@Version`, the unique
name and the foreign key let through. `Stored` and `Touches` are the branches of
`upsertViewEditorState`; a DDL is known by how it parses (it defines the view
over a table or none, it defines it with an error, it is something else). A
request that fails before it writes anything is no step. `MCViewEditor` adds the
symmetry of requests. The steps of this module that change `dv` are what
PreviewVdb's `Edit` and `Describe` stand for, those that change a view without
`dv` are its `EditUntouched`.

### Views and Catalog

`Views` has what both of the next share: the views there can be, what a client
sends, which branch of `upsertViewEditorState` stores what (`Stored`) and whether
it touches the virtualization (`Touches`). `Catalog` is the abstract
specification of the rows: every request is one step that reads and writes at
once, so there are no versions of views and nobody can be late. `ViewEditor`
implements it (`Serializable`) under the mapping that forgets what is under way
and the versions of views, and shows of each row what clients see
(`Atomic == INSTANCE Catalog WITH ...`): a commit is Catalog's step, a read or a
rollback is no step.

### SourceVdb

One Teiid name and the connections that have it one after the other; they differ
in their id. A request or the executor (`thread`) is in `deploySourceVdb` with a
mode: `live` (a created event, or the synchronization of a greeting), `refresh` (an
updated event, the periodic synchronization, or a user who asks), `reuse` (a request
that finds no vdb), `replace` (the task the listener submits). `ReadRow`, `CheckEnds`,
`CheckPasses`, `Undeploy`, `Deploy` are `doDeploySourceVdb`, apart where another
thread can come in between: the row is read in a transaction, the vdb is looked
at, the lock of its name is taken, the vdb is undeployed and deployed. `LoadEnds`
is the Teiid server's thread, `ListenerRemoves` to `ListenerSubmits` the listener
in that thread: it undeploys the load vdb by its name under the lock, stores the
DDL in a transaction that may find the row changed, and asks the executor to
replace the connection vdb. `AddConnection`, `UpdateConnection`,
`DeleteConnection` and their second steps are the executor's tasks as Connections
starts them: nothing before the first greeting is handled (`greeted`), whose
synchronization adds the connection or misses it (`GreetingMisses`); after that
updates without end, because the periodic synchronization updates every connection
(CM:229). `TaskRemove` is the task of `deleteSchema`. What PreviewVdb takes
as its environment, connection vdbs that come and go with a refresh after each
deployment, are the steps of this module.

## 3. Runs

Passing runs:

| Run | Instance | Shows |
|---|---|---|
| `PublishOnly` | two publishes of two virtualizations or twice of one, one of them mortal, restarts, one failing call, builds and rollouts, also again, no integrations, no unpublish; fair | `OneRunner`, `BuildMonitored`, `RunningIsServed`, `StatusForward`, `PublishEnds`; `Lifecycle`: Publish implements Publication |
| `UnpublishRaces` | a publish and an unpublish of one virtualization, two works, two pool threads, one failing call, integrations; fair | `TypeOK`, `ActiveIsCurrent`, `NotForgotten`, `ConfiguredOnce`; `QueueDrains`: nobody starves in the queue, also behind a work resubmitted for ever |
| `Preview` | one virtualization, two requests, either of which may list views, two versions, two changes of the views that touch the row or do not, two generations of one connection vdb | `LabelIsCurrent`, `FreshEnough`, `PreviewSettled` |
| `PreviewRecreated` | two virtualizations, one of which may be deleted and made again, two requests, one connection; fair | `TypeOK`, `PreviewThere`, `RequestEnds`; `NoCircularWait`: no set of requests, with or without the executor, in which everyone waits for a lock of another |
| `Connections` | a user's connection with two versions, one that publishing makes, one socket, two messages under way, one failure, lost socket or restart; fair | `TypeOK`, `RegisteredHasRow`, `NoRevival`, `Arrives` |
| `ViewEditor` | one view, one table, two requests, three row ids, each row changed once; clients send all there is of complete views | `TypeOK` (with the foreign key), `NoLostUpdate`, `ParsableIsVersioned`, `Serializable`: overlapping requests write what requests one after the other would |
| `SourceVdb` | two connections of one name one after the other, two loads at a time, a load that fails, a request, a refresh that is asked for or a restart, and updates | `TypeOK`, `OwnSchema`, `NoLeftover`, `LoadKept`, `ReplacedByExecutor` |
| `SourceVdbLive` | one load at a time, a source whose schema changes, a first synchronization that fails, a data source that cannot be made, a refresh that is asked for or a restart, and updates; fair | `ShowsRow`; `Loaded`: every connection is loaded in the end; `ReachesVdb`: its vdb follows its row, unless one of the two has failed |

Runs in which TLC shows that a statement of the code's comments does not hold:

| Run | Statement | What happens |
|---|---|---|
| `ClaimDeleteEnds` | the monitored delete comes to its end (OC:1473) | the task is over before `DELETE_SUBMITTED` is written over its `DELETE_DONE`: the monitor resubmits the work for ever |
| `ClaimOnDemand` | "since this vdb is created on-demand we're good" (DS:264) | versions of a name used again start from 0 as well: the vdb of the deleted virtualization passes for current |
| `ClaimCircular` | "avoid circular creation" (CS:120) | the connection is POSTed, then a socket greets and its full synchronization, which lists the connection, registers it before its id is saved; its created event, or the periodic synchronization, would do so too |
| `ClaimRemoved` | deletions are found in the cache (CS:111) | an update or the periodic synchronization empties the cache entry: later deletions are ignored for ever |

Bounds. Two requests are the least that race, and an unpublish needs a second
work because it makes one for what it finds in the cluster. One virtualization is
enough where the property is about one name, since the maps and locks are keyed
by name; `PublishOnly` and `PreviewRecreated` have two because the monitor
thread and the main preview vdb are shared. In `Preview` the row can change between
any two reads of a request, and once more; every re-creation of a name takes a
stamp, which bounds them. A failure budget of one lets any one
call fail at any moment; two versions let a row or a connection change once
under a reader. The instances of Connections have one socket: `connect` opens a
second one while a greeting waits, which duplicates events; duplicates of adds
and deletes arise with one socket too, through synchronizations. Connections
that publishing makes are not used as sources of builds. In ViewEditor a row is
changed once (`MaxTouches`, `MaxVersion` are 1), and made again (`MaxId`).
In SourceVdb two ids let a load outlive its connection; two loads at a time are
the load at hand and one whose listener has not ended, and the request and the
executor each deploy while the other is anywhere in between. With two loads the
run has between four and five million states, so the changing schema has a run of its own, with
one load. `MaxEvents` lets one refresh that is asked for or one restart happen in
each. Updates and what else the synchronizations start are not counted; an update
begins only while fewer than `MaxQueue` tasks wait: while none does, though tasks
may come as it goes on, and `AddConnection` may run with any number waiting.

`CHECK_DEADLOCK FALSE` is set everywhere because the system really may stop:
requests are made once each, users need not ask for anything, and counters are
bounded, so that a quiet system is an end and no deadlock. Waiting in a circle is
checked by `NoCircularWait`, and waiting for ever as liveness (`RequestEnds`,
`QueueDrains`, `PublishEnds`).

Fairness is of threads, and of OpenShift and Syndesis where the service waits for
them; but for SourceVdb it is weak fairness. Publish: the monitor and the pool
threads run (they are never blocked by users), an unpublish that has begun goes on,
OpenShift goes on with what it has to do, be it a build, a rollout or one that is
due. PreviewVdb: request threads that have begun and the executor run. A lock is
not fair: a request waits for a lock that others may take over and over, so that
`RequestEnds` is stated where the contention is bounded (finitely many changes and
re-creations, and a request that finds the vdb current takes no lock). Connections:
messages are delivered, the
executor takes what waits or is scheduled and goes on with its task. SourceVdb:
request threads that have begun, the executor's task and the loads go on; after a
start a socket greets, once (weak fairness of the first greeting, of nothing later);
the socket is up at infinitely many of the times at which the periodic
synchronization runs, and that synchronization stays scheduled; the executor serves
it and its queue in turn, hence strong fairness of taking either (each is enabled
again and again, though not while it is at the other). That a data source that is
there is found again by a MAKE_LIVE deployment is not assumed: the periodic
synchronization only refreshes. Nothing is assumed of users, and nothing of failures.

## 4. Proofs

For every value of the constants, that is for any number of virtualizations,
requests, threads, works, connections, failures and any bounds:

| Theorem | Property | Argument |
|---|---|---|
| `PublishProofs!TypeCorrect` | `TypeOK` of Publish | inductive with `CurOK`: the monitor has a work unless it is idle |
| `PublishProofs!MonitorCorrect`, `NotForgottenCorrect` | `ActiveIsCurrent`, `NotForgotten` | inductive with `Known`: what the queue, the monitor and the requests refer to has been created, so that a new work is none of them; a work taken off the queue is in the map before anything else happens, and put back before the entry is removed |
| `PublishAlone!ConfiguredOnceCorrect` | `ConfiguredOnce` | `OnceInv`: what the monitor is about to configure has no task yet (`Unconfigured`), and a work leaves `SUBMITTED` in the step that gives it its task |
| `PublishAlone!OneRunnerCorrect`, `BuildMonitoredCorrect`, `RunningIsServedCorrect`, `StatusForwardCorrect` | `OneRunner`, `BuildMonitored`, `RunningIsServed`, `StatusForward` | `Alone`, as long as nobody unpublishes (`Undisturbed`; once that is false it stays false): one runner (`Runner`); what the monitor has found before it came where it is still holds (`Stage`); every task of the pool configures a work that is `CONFIGURING` (`Tasks`); and for each work how far its publish has come (`Course`), what it has made on the way (`Served`) and who goes on with it (`Tended`, `AtWork`) |
| `PublishLife!LifecycleCorrect` | `Lifecycle` | every step is Publication's or changes nothing of it, as long as nobody unpublishes, by `LifeInv`: the build that the monitor has found complete stays so (`Looked`); what is or will be rolled out has a complete build (`Rolled`); a task that has not made its build finds none (`Unbuilt`); a work has no build before it is configured, and what is deployed is built (`BuiltInTime`). Nothing is said of a rollout once it was found ready: that it was is what READY records |
| `PublishLife!PublishImplementsPublication` | `Abstract!Spec` | from it: an instance without unpublishers is a Publication without condition |
| `PreviewProofs!PreviewTypeCorrect` | `TypeOK` of PreviewVdb | inductive with `Shape`: a thread that is at work has a virtualization |
| `PreviewProofs!PreviewThereCorrect` | `PreviewThere` | inductive with `MasterDiscipline`: who is between undeploy and deploy holds `masterLock`, and the main preview vdb is away only while the executor holds it |
| `PreviewProofs!NoCircularWaitCorrect` | `NoCircularWait` | inductive with `LockDiscipline`: who holds the lock of a virtualization is between taking and releasing it for that virtualization, who holds `masterLock` waits for nothing; so whoever waits, waits for one who waits at most for the holder of `masterLock` (`WaitsEnd`) |
| `PreviewProofs!LabelCorrect` | `LabelIsCurrent` | inductive with `Labelled`: a vdb, or a thread about to deploy one, knows no later version than the row's and no later views, and if it knows the row's version it shows the last change that touched, unless it had listed views; assumes that no name is used again, as `ClaimOnDemand` shows it must |
| `PreviewProofs!FreshEnoughCorrect` | `FreshEnough` | inductive with `Fresh`: what is deployed with the version a request has read is at least as recent as the last touching change the request has found with it (`Recent`), unless it was deployed by a request that had listed views; a new reader agrees because of `Labelled`, a new vdb because the stamps of a row only grow; same assumption |
| `PreviewProofs!PreviewSettledCorrect` | `PreviewSettled` | inductive with `Settling`: a refresh that is the last one has listed all there is |
| `EditorProofs!EditorTypeCorrect` | `TypeOK` of ViewEditor | inductive with `Known`: a request keeps id and version of the row it has read together |
| `EditorProofs!NoLostUpdateCorrect` | `NoLostUpdate` | from the same invariant: the version given is the one read, and `Matches` makes the one read the one written over |
| `EditorProofs!EditorIsSerializable` | `Serializable` | every step is Catalog's or no step, by `SerialInv`: a request has been made of the row it has read as long as that row has its id and version (`Follows`, with `Made`), and ids are not given again (`Older`); so a commit that `Matches` lets through is one that Catalog makes of the row as it is |
| `EditorProofs!ParsableIsVersionedCorrect` | `ParsableIsVersioned` | from the same invariant: a commit that changes what the previews take carries the touch |
| `ConnectionsProofs!ConnectionsTypeCorrect` | `TypeOK` of Connections | inductive with: a message that is handled names a connection Syndesis has had |
| `ConnectionsProofs!NoRevivalCorrect` | `NoRevival` | a connection that is gone stays gone, and a task, a message or a cache entry that could speak of it (`Speaks`) is made only by what spoke of it before: once it is over (`Over`) it stays over |
| `ConnectionsProofs!RegisteredHasRowCorrect` | `RegisteredHasRow` | inductive with `RowInv`: nothing is known of a connection before it is made (`Unborn`), what a task drops is gone (`Dropped`), one that exists and has a data source, or a source that knows its name, has its row (`Rowed`); and `TellInv`: messages tell of what was made, deletions of what is gone |
| `SourceVdbProofs!SourceTypeCorrect` | `TypeOK` of SourceVdb | inductive with `LockInv` |
| `SourceVdbProofs!LoadKeptCorrect` | `LoadKept` | `LockInv`: between its check and its deployment a thread holds the lock of the name (`ThreadFine`), and the load vdb is one that is there and not past its listener (`LoadFine`, `LoadThere`), so what the check saw still holds |
| `SourceVdbProofs!ReplacedByExecutorCorrect` | `ReplacedByExecutor` | `LockInv`: a thread that undeploys without the mode `replace` has seen, under the lock, that there is no vdb |
| `SourceVdbProofs!OwnSchemaCorrect` | `OwnSchema` | `OwnInv`: a data source with the name is that of `Holder`, the connection before until its data source is deleted; what a thread carries is of its own id (`OwnThread`), and so is what a load has read, unless the load's row is gone (`OwnLoad`) |
| `SourceVdbProofs!NoLeftoverCorrect` | `NoLeftover` | from the same invariant: what is deployed is read from the row of the same id, or the vdb is empty |
| `SourceShown!ShowsRowCorrect` | `ShowsRow` | inductive with `ShowInv`: whoever carries what the row does not hold any more (`LateFine`) is followed by a replacement, or finds a vdb and ends; a removal in the queue is older than the schema in the row (`RemovesFirst`); while there is no data source nothing waits to replace (`Sourceless`) |

Assumptions are the named `ASSUME`s of the modules: that `None` is nothing else
and that bounds are natural numbers. Each invariant is inductive only with its
strengthening: `TypeOK` alone does not say that `cur` is a work when the monitor
uses it, and `LabelIsCurrent` alone says nothing of what threads carry.

Only model-checked, and why: the liveness properties (`PublishEnds`,
`QueueDrains`, `RequestEnds`, `Arrives`, `Loaded`, `ReachesVdb`), which are out of
the prover's reach. Every invariant and every action property of the runs is proved,
as far as its theorem's assumption goes: `LabelIsCurrent` and `FreshEnough` for
names that are not used again, which is where the runs check them too, and those
of `PublishAlone` (but for `ConfiguredOnce`) and `PublishLife` up to the first
unpublish: an unpublish of a work at hand may make it a second runner, of which
none of them is true.

## 5. What the code does that no run claims otherwise

The models follow the code in these, and TLC shows them; they are described here
because a reader of the code may expect something else.

- Two publishes of one virtualization can both have a build under way:
  `publishVirtualization` refuses only while the status it reads is `BUILDING`.
- An unpublish that finds its work in `activeJobs` while the monitor is about to
  end it leaves a delete that nobody monitors.
- `deleteVDBServiceResources` writes `DELETE_DONE` over the `DELETE_REQUEUE` of
  a group of resources that failed.
- `removeSyndesisConnection` sets the source id of an entity whose transaction
  is over: the row keeps the id of a connection that is gone.
- An unpublish may be accepted although an integration uses the virtualization:
  a work in `activeJobs` has no `usedBy`, and the cache is a minute old.
- A service vdb deployed between the undeployments and the deployment of a
  refresh imports the old main preview vdb until the next edit or refresh.
- A data source of a connection that is gone may lack its row: a late update
  event is served from what a publishing thread put back into the cache. For a
  connection that exists, `RegisteredHasRow` holds.
- An exception other than `KException` ends the periodic synchronization until
  the next restart; `Arrives` is stated up to that, and the liveness of SourceVdb
  assumes that it does not happen.
- A connection deleted while the service is down leaves its row.
- A view whose DDL is taken from the ui (ES:286), or whose `complete` is set or
  cleared while it stays parsable, changes what a preview shows without a new
  version. PreviewVdb has these changes (`EditUntouched`): the vdb with the old
  views passes the version check, and requests work on it until the next change
  that touches the row. `LabelIsCurrent` and `FreshEnough` are therefore about
  the changes that touch.
- A request that lists views may pair a new version with the views it loaded
  before (RM:44): an edit that is committed between the two is missing in the
  vdb it deploys, which passes for current from then on. TLC shows it at once
  when the exception for `listed` is taken out of `LabelIsCurrent`.
- A second publish of a virtualization may find the deployment of the first one
  ready, before its own rollout has begun, and go on to RUNNING.
- `parsable` is kept when the DDL of a view changes to one with an error, or to
  none, and the preview takes the view for it (SV:187 and 217, ES:302).
- In SourceVdb: a `ConcurrencyFailureException` of the listener arises in one
  pod too, though the comment at MS:354 speaks of several; of two loads that end
  close to each other the older one's DDL may be stored last (MS:341); the
  listener of a load that failed undeploys, by name, a newer load that goes on,
  whose result is lost; a refresh asked for while a load goes on or has just
  ended is dropped, and a load of a deleted connection keeps a new one of its
  name waiting until the next update or greeting.
- Also there: if the synchronization of the greeting after a restart fails
  (CM:205), the connection vdb stays missing. The periodic synchronization loads
  the schema anew, but finding the DDL of the row in it, the listener replaces
  nothing (MS:345); only a request for the schema or a later greeting deploys the
  vdb. `ReachesVdb` excepts this case.
- Also there: if no data source can be made after an update, the connection vdb
  stays as it is, stale; a request that deploys from what it read before may
  leave a connection vdb of an older schema while the row says the load failed,
  or one without a schema after a removal.

## 6. Not modelled

The generation of DDL and of names and paths: pure functions over strings and
schemas, of which Connections and ViewEditor use the outcome (planned). The
Swagger UI under `src/main/resources/static`: minified files of another project,
which the service serves as they are; all code of the service itself is Java
under `src/src/main/java`, and that is what the models are of. Further: the
contents of builds and deployments, routes, logs, credentials, encryption; the
Teiid server beyond deploy, undeploy and its table of data sources; queries;
REST objects, listings and exports, which change nothing; data source
definitions, configuration, security filters and messages. Row locks and
isolation of the database are taken as: a statement sees what is committed, an
update of a row that has changed is rolled back, a deadlock is a rollback.

## 7. Plan

Order, the most important behaviour first; 1-7 are done.

1. Publish: the monitor and its races; types, `MonitorCorrect` and the properties
   of `PublishAlone` proved.
2. PreviewVdb: freshness and locks; six theorems.
3. Connections: events, synchronizations, cache; three theorems.
4. ViewEditor: rows and versions; two theorems.
5. SourceVdb: `doDeploySourceVdb` in its modes, load vdbs, the listener; six
   theorems, liveness of loads.
6. Refinement: Catalog, implemented by ViewEditor; proved.
7. Refinement: Publication, implemented by Publish as far as nobody unpublishes;
   proved from `Alone` and `LifeInv`.
8. Left: the theorems of `PublishAlone` and `PublishLife` hold while nobody
   unpublishes anything; the same argument per virtualization (an unpublish of one
   leaves the publish of another alone) is still to be stated and proved.
9. Left: pure functions (`getUniqueKomodoName`, `StringNameValidator`, columns and
   joins of `getODataViewDdl`, `PathUtils`), each checked against a definition
   over bounded inputs.
