------------------------------ MODULE SourceVdb ------------------------------
(***************************************************************************)
(* How MetadataService loads the schema of a connection.  A load vdb reads *)
(* it from the source, in a thread of the Teiid server; when that is over, *)
(* the server's listener, in the same thread, removes the load vdb, stores *)
(* the DDL in the row of source_schema, and asks connectionExecutor to     *)
(* replace the connection vdb, which is what previews import.              *)
(*                                                                         *)
(* The module is about one Teiid name.  The connections that have it, one  *)
(* after the other, differ in their id, and so do their rows, their data   *)
(* sources and their load vdbs; the vdbs are found by name.  Connections   *)
(* has the events that start the executor's tasks, PreviewVdb the refresh  *)
(* that follows each deployment of a connection vdb.                       *)
(***************************************************************************)
EXTENDS Naturals, Sequences

CONSTANTS
  Requests,    \* the REST threads
  Executor,    \* the thread of connectionExecutor
  Loads,       \* the load vdbs whose listener has not ended: bounds those at a time
  MaxId,       \* bounds the connections that get the name
  MaxVersion,  \* bounds the changes of the schema in the source
  MaxEvents,   \* bounds the refreshes asked for and the restarts
  MaxQueue,    \* bounds the tasks that wait when an update comes
  MayFail,     \* what may fail, once each: a first synchronization, to make a data
               \* source, to load a schema
  None,        \* nothing; of a DDL: not loaded yet
  Failed,      \* the DDL of a load that failed
  Empty        \* what a connection vdb shows whose row is gone

Actors   == Requests \cup {Executor}
Id       == 1..MaxId
Schema   == [of : Id, version : 0..MaxVersion]  \* a schema that was loaded, and from where
DDL      == Schema \cup {None, Failed}
Mode     == {"live", "refresh", "reuse", "replace"}

ASSUME SourceVdbAssumption ==
  /\ Executor \notin Requests
  /\ MaxId \in Nat \ {0} /\ MaxVersion \in Nat
  /\ MaxEvents \in Nat /\ MaxQueue \in Nat \ {0}
  /\ MayFail \subseteq {"greeting", "source", "load"}
  /\ None # Failed /\ None # Empty /\ {None, Failed, Empty} \cap Schema = {}
  /\ None \notin Loads \cup Id \cup Actors /\ None \notin Mode
  /\ None \notin [id : Id, ddl : DDL]

VARIABLES
  \* the source and the database
  version,     \* the version of the schema in the source
  current,     \* the id of the connection that has the name, or will get it
  row,         \* the row of source_schema, None if there is none
  \* the Teiid server
  source,      \* the id of the data source with the name, None if there is none
  load,        \* the load vdb with the name, None if there is none
  loads,       \* the load vdbs, also those that are undeployed, and their listeners
  connVdb,     \* what the connection vdb shows, None if there is no such vdb
  \* MetadataService
  loadLock, connLock,  \* who holds the locks of the two names
  thread,      \* where each thread is in deploySourceVdb, addConnection or deleteConnection
  queue,       \* the tasks of connectionExecutor that this module starts
  greeted,     \* since the start: the first "connected" was handled
  events,      \* how many of these there were
  failures     \* what has failed

dataVars == <<version, current, row>>
vdbVars  == <<load, loads, connVdb>>
lockVars == <<loadLock, connLock>>
countVars == <<events, failures>>
vars == <<dataVars, source, vdbVars, lockVars, thread, queue, greeted, countVars>>

-----------------------------------------------------------------------------
\* "loading"; "ended": loaded or failed, and the listener is called; it goes on
\* to "read" the row, to "commit", or to a "conflict", and to "submit".
LoadPC == {"loading", "ended", "read", "commit", "conflict", "submit"}
Unused == [at |-> "unused", id |-> None, ddl |-> None]
Load   == [at : LoadPC, id : Id, ddl : DDL] \cup {Unused}

Idle   == [at |-> "idle", mode |-> None, id |-> None, ddl |-> None]
Thread == {Idle}
          \cup [at : {"register", "row", "check", "undeploy", "deploy"},
                mode : Mode, id : Id, ddl : DDL]
          \cup [at : {"unregister"}, mode : {None}, id : Id, ddl : {None}]

Init ==
  /\ version = 0 /\ current = 1 /\ row = None
  /\ source = None /\ load = None /\ loads = [l \in Loads |-> Unused] /\ connVdb = None
  /\ loadLock = None /\ connLock = None
  /\ thread = [a \in Actors |-> Idle] /\ queue = <<>>
  /\ greeted = FALSE /\ events = 0 /\ failures = {}

Counts == events < MaxEvents /\ events' = events + 1 /\ UNCHANGED failures
Fails(what) ==
  what \in MayFail \ failures /\ failures' = failures \cup {what} /\ UNCHANGED events

Goto(a, at) == thread' = [thread EXCEPT ![a].at = at]
Ends(a)     == thread' = [thread EXCEPT ![a] = Idle]
Starts(a, at, mode, i) ==
  thread' = [thread EXCEPT ![a] = [at |-> at, mode |-> mode, id |-> i, ddl |-> None]]

HasRow(i) == row # None /\ row.id = i

-----------------------------------------------------------------------------
(* What starts a deployment.                                               *)

\* refreshSchema: the data source must be there.
AskRefresh(r) ==
  /\ Counts
  /\ thread[r] = Idle /\ source # None /\ Starts(r, "row", "refresh", source)
  /\ UNCHANGED <<dataVars, source, vdbVars, lockVars, queue, greeted>>

\* findSchemaModel, of any request for a schema, finds no connection vdb.
AskSchema(r) ==
  /\ thread[r] = Idle /\ source # None /\ connVdb = None
  /\ Starts(r, "row", "reuse", source)
  /\ UNCHANGED <<dataVars, source, vdbVars, lockVars, queue, greeted, countVars>>

\* createDataSource: the row comes with the name, ...
Named(i) == IF row = None THEN [id |-> i, ddl |-> None] ELSE row

\* ... then the data source, if there is none, then deploySourceVdb runs.
CreateSource(mode) ==
  /\ row' = Named(current)
  /\ source' = IF source = None THEN current ELSE source
  /\ Starts(Executor, "row", mode, current)

\* The row is there, but no data source can be made of the connection.
CreateSourceFails ==
  /\ Fails("source")
  /\ source = None /\ row' = Named(current) /\ Ends(Executor) /\ UNCHANGED source

\* addConnection of a created event, or of the synchronization that follows the
\* greeting of a socket.
AddConnection ==
  /\ thread[Executor] = Idle /\ greeted' = TRUE
  /\ \/ CreateSource("live") /\ UNCHANGED countVars
     \/ CreateSourceFails
  /\ UNCHANGED <<version, current, vdbVars, lockVars, queue>>

\* The first greeting is handled for nothing: Syndesis does not list a connection
\* yet, or cannot be asked.
GreetingMisses ==
  /\ ~greeted /\ thread[Executor] = Idle /\ greeted' = TRUE
  /\ \/ row = None /\ UNCHANGED countVars
     \/ Fails("greeting")
  /\ UNCHANGED <<dataVars, source, vdbVars, lockVars, thread, queue>>

\* addConnection of an updated event, or of the periodic synchronization, which
\* takes every connection for updated: its data source is deleted first, ...
UpdateConnection ==
  /\ greeted /\ Len(queue) < MaxQueue
  /\ thread[Executor] = Idle /\ Starts(Executor, "register", "refresh", current)
  /\ source' = None
  /\ UNCHANGED <<dataVars, vdbVars, lockVars, queue, greeted, countVars>>

\* ... and another one is made.
Register ==
  /\ thread[Executor].at = "register"
  /\ \/ CreateSource("refresh") /\ UNCHANGED countVars
     \/ CreateSourceFails
  /\ UNCHANGED <<version, current, vdbVars, lockVars, queue, greeted>>

\* A transaction that has read the row and will find it changed or gone.
Conflicts(others) == [l \in Loads |-> IF l \in others /\ loads[l].at = "commit"
                                      THEN [loads[l] EXCEPT !.at = "conflict"] ELSE loads[l]]

\* deleteConnection: deleteSchema first, which leaves the vdb to another task; ...
DeleteConnection ==
  /\ greeted /\ thread[Executor] = Idle /\ row # None /\ current < MaxId
  /\ row' = None /\ loads' = Conflicts(Loads)
  /\ current' = current + 1
  /\ queue' = Append(queue, "remove")
  /\ Starts(Executor, "unregister", None, row.id)
  /\ UNCHANGED <<version, source, load, connVdb, lockVars, greeted, countVars>>

\* ... then the data source goes.
Unregister ==
  /\ thread[Executor].at = "unregister" /\ Ends(Executor)
  /\ source' = None
  /\ UNCHANGED <<dataVars, vdbVars, lockVars, queue, greeted, countVars>>

\* That task: removeVdb, without a lock.
TaskRemove ==
  /\ thread[Executor] = Idle /\ queue # <<>> /\ Head(queue) = "remove"
  /\ queue' = Tail(queue) /\ connVdb' = None
  /\ UNCHANGED <<dataVars, source, load, loads, lockVars, thread, greeted, countVars>>

\* The task that the listener asks for; without a data source it ends at once.
TaskReplace ==
  /\ thread[Executor] = Idle /\ queue # <<>> /\ Head(queue) = "replace"
  /\ queue' = Tail(queue)
  /\ IF source = None THEN UNCHANGED thread ELSE Starts(Executor, "row", "replace", source)
  /\ UNCHANGED <<dataVars, source, vdbVars, lockVars, greeted, countVars>>

-----------------------------------------------------------------------------
(* doDeploySourceVdb.  A thread whose ddl is None deploys a load vdb, one   *)
(* that has a DDL the connection vdb.                                       *)

\* The row is read; without it, or without a DDL to reuse, this is the end.
ReadRow(a) ==
  LET t == thread[a] IN
  /\ t.at = "row"
  /\ IF ~HasRow(t.id) \/ (t.mode \in {"reuse", "replace"} /\ row.ddl = None)
     THEN Ends(a)
     ELSE thread' = [thread EXCEPT ![a].at = "check",
                                   ![a].ddl = IF t.mode = "refresh" THEN None ELSE row.ddl]
  /\ UNCHANGED <<dataVars, source, vdbVars, lockVars, queue, greeted, countVars>>

\* A variant of NoNeed that never replaces an active connection vdb.
NoNeed_Present(t) ==
  IF t.ddl = None THEN load # None /\ loads[load].ddl # Failed ELSE connVdb # None

\* A load that goes on, or is over and about to be removed, is not started
\* again; an active connection vdb is replaced only on purpose.
NoNeed(t) ==
  IF t.ddl = None THEN load # None /\ loads[load].ddl # Failed
                  ELSE connVdb # None /\ t.mode # "replace"

\* It is asked before the lock is taken and again under the lock; a thread for
\* which the answer is yes in between ends in either case.
CheckEnds(a) ==
  /\ thread[a].at = "check" /\ NoNeed(thread[a]) /\ Ends(a)
  /\ UNCHANGED <<dataVars, source, vdbVars, lockVars, queue, greeted, countVars>>

Free == {l \in Loads : loads[l] = Unused}

TakesLock(a) ==
  IF thread[a].ddl = None
  THEN /\ loadLock = None /\ loadLock' = a /\ UNCHANGED connLock
       /\ Free # {}
  ELSE connLock = None /\ connLock' = a /\ UNCHANGED loadLock

DropsLock(a) ==
  IF thread[a].ddl = None THEN loadLock' = None /\ UNCHANGED connLock
                          ELSE connLock' = None /\ UNCHANGED loadLock

\* A variant without the check under the lock.
CheckPasses_Once(a) ==
  /\ thread[a].at = "check" /\ TakesLock(a) /\ Goto(a, "undeploy")
  /\ UNCHANGED <<dataVars, source, vdbVars, queue, greeted, countVars>>

CheckPasses(a) ==
  /\ thread[a].at = "check" /\ ~NoNeed(thread[a])
  /\ TakesLock(a) /\ Goto(a, "undeploy")
  /\ UNCHANGED <<dataVars, source, vdbVars, queue, greeted, countVars>>

\* A load vdb that is undeployed while it loads notifies nobody.
Undeployed == IF load # None /\ loads[load].at = "loading"
              THEN [loads EXCEPT ![load] = Unused] ELSE loads

\* deploy() undeploys what has the name; after a load that failed, that is all.
Undeploy(a) ==
  /\ thread[a].at = "undeploy"
  /\ IF thread[a].ddl = None
     THEN load' = None /\ loads' = Undeployed /\ UNCHANGED connVdb
     ELSE connVdb' = None /\ UNCHANGED <<load, loads>>
  /\ IF thread[a].ddl = Failed THEN Ends(a) /\ DropsLock(a)
                               ELSE Goto(a, "deploy") /\ UNCHANGED lockVars
  /\ UNCHANGED <<dataVars, source, queue, greeted, countVars>>

\* Variants of Shown: the vdb carries the DDL; the row is read anew, by its name.
Shown_Carried(t) == t.ddl
Shown_Anew(t)    == IF row # None THEN row.ddl ELSE Empty

\* What DDLDBMetadataRepository finds when the server loads the connection vdb:
\* the entity this transaction has read, unless its row is gone.
Shown(t) == IF HasRow(t.id) THEN t.ddl ELSE Empty

\* It throws if the data source is gone by now.
Deploy(a) ==
  LET t == thread[a] IN
  /\ t.at = "deploy" /\ Ends(a) /\ DropsLock(a)
  /\ CASE source = None -> UNCHANGED vdbVars
       [] source # None /\ t.ddl = None ->
            LET l == CHOOSE l \in Free : TRUE IN
            /\ loads' = [loads EXCEPT ![l] = [at |-> "loading", id |-> t.id, ddl |-> None]]
            /\ load' = l /\ UNCHANGED connVdb
       [] source # None /\ t.ddl # None ->
            connVdb' = Shown(t) /\ UNCHANGED <<load, loads>>
  /\ UNCHANGED <<dataVars, source, queue, greeted, countVars>>

Deploying(a) ==
  ReadRow(a) \/ CheckEnds(a) \/ CheckPasses(a) \/ Undeploy(a) \/ Deploy(a)

-----------------------------------------------------------------------------
(* The load vdbs, and the listener that finishedDeployment calls.          *)

\* The schema is read through the data source that has the name by now.
LoadEnds(l) ==
  /\ loads[l].at = "loading"
  /\ \/ /\ source # None /\ UNCHANGED countVars
        /\ loads' = [loads EXCEPT ![l].at = "ended",
                                  ![l].ddl = [of |-> source, version |-> version]]
     \/ /\ (source = None /\ UNCHANGED countVars) \/ Fails("load")
        /\ loads' = [loads EXCEPT ![l].at = "ended", ![l].ddl = Failed]
  /\ UNCHANGED <<dataVars, source, load, connVdb, lockVars, thread, queue, greeted>>

\* A variant that leaves the load vdb deployed.
ListenerRemoves_Keeps(l) ==
  /\ loads[l].at = "ended" /\ loadLock = None
  /\ loads' = [loads EXCEPT ![l].at = "read"]
  /\ UNCHANGED <<dataVars, source, load, connVdb, lockVars, thread, queue, greeted, countVars>>

\* Under the lock it takes the schema of the vdb and undeploys it, both by name:
\* if the vdb is not its own any more, there is no schema, which throws, but a
\* failed one undeploys what it finds.
ListenerRemoves(l) ==
  /\ loads[l].at = "ended" /\ loadLock = None
  /\ IF loads[l].ddl # Failed /\ load # l
     THEN loads' = [loads EXCEPT ![l] = Unused] /\ UNCHANGED load
     ELSE load' = None /\ loads' = [Undeployed EXCEPT ![l].at = "read"]
  /\ UNCHANGED <<dataVars, source, connVdb, lockVars, thread, queue, greeted, countVars>>

\* A variant of ListenerReads: the row is looked up by its name.
ListenerReads_ByName(l) ==
  /\ loads[l].at = "read"
  /\ IF row # None /\ row.ddl # loads[l].ddl
     THEN loads' = [loads EXCEPT ![l].at = "commit"]
     ELSE loads' = [loads EXCEPT ![l] = Unused]
  /\ UNCHANGED <<dataVars, source, load, connVdb, lockVars, thread, queue, greeted, countVars>>

\* Without the lock, the row of its connection is read in a transaction.
ListenerReads(l) ==
  /\ loads[l].at = "read"
  /\ IF HasRow(loads[l].id) /\ row.ddl # loads[l].ddl
     THEN loads' = [loads EXCEPT ![l].at = "commit"]
     ELSE loads' = [loads EXCEPT ![l] = Unused]
  /\ UNCHANGED <<dataVars, source, load, connVdb, lockVars, thread, queue, greeted, countVars>>

ListenerCommits(l) ==
  /\ loads[l].at = "commit"
  /\ row' = [row EXCEPT !.ddl = loads[l].ddl]
  /\ loads' = [Conflicts(Loads \ {l}) EXCEPT ![l].at = "submit"]
  /\ UNCHANGED <<version, current, source, load, connVdb, lockVars, thread, queue, greeted, countVars>>

\* ConcurrencyFailureException: nothing is stored, but the vdb is replaced.
ListenerConflicts(l) ==
  /\ loads[l].at = "conflict"
  /\ loads' = [loads EXCEPT ![l] = Unused] /\ queue' = Append(queue, "replace")
  /\ UNCHANGED <<dataVars, source, load, connVdb, lockVars, thread, greeted, countVars>>

\* A variant of ListenerSubmits: the thread of the listener does nothing more.
ListenerSubmits_Not(l) ==
  /\ loads[l].at = "submit"
  /\ loads' = [loads EXCEPT ![l] = Unused]
  /\ UNCHANGED <<dataVars, source, load, connVdb, lockVars, thread, queue, greeted, countVars>>

ListenerSubmits(l) ==
  /\ loads[l].at = "submit"
  /\ loads' = [loads EXCEPT ![l] = Unused]
  /\ queue' = Append(queue, "replace")
  /\ UNCHANGED <<dataVars, source, load, connVdb, lockVars, thread, greeted, countVars>>

Loading(l) ==
  \/ LoadEnds(l) \/ ListenerRemoves(l) \/ ListenerReads(l) \/ ListenerCommits(l)
  \/ ListenerConflicts(l) \/ ListenerSubmits(l)

-----------------------------------------------------------------------------
\* Somebody changes the schema in the source; the service is not told.
SchemaChanges ==
  /\ version < MaxVersion /\ version' = version + 1
  /\ UNCHANGED <<current, row, source, vdbVars, lockVars, thread, queue, greeted, countVars>>

\* The pod goes and comes back: only the database is left.
Restart ==
  /\ Counts
  /\ source' = None /\ load' = None /\ loads' = [l \in Loads |-> Unused] /\ connVdb' = None
  /\ loadLock' = None /\ connLock' = None
  /\ thread' = [a \in Actors |-> Idle] /\ queue' = <<>> /\ greeted' = FALSE
  /\ UNCHANGED dataVars

Next ==
  \/ \E r \in Requests : AskRefresh(r) \/ AskSchema(r)
  \/ AddConnection \/ GreetingMisses \/ UpdateConnection \/ Register
  \/ DeleteConnection \/ Unregister \/ TaskRemove \/ TaskReplace
  \/ \E a \in Actors : Deploying(a)
  \/ \E l \in Loads : Loading(l)
  \/ SchemaChanges \/ Restart

Spec == Init /\ [][Next]_vars

\* The threads run and loads end; a socket is opened and greets, and is up at
\* infinitely many of the times at which the periodic synchronization runs; the
\* executor serves that and the tasks of its queue in turn.
Fairness ==
  /\ \A r \in Requests : WF_vars(Deploying(r))
  /\ WF_vars(Register \/ Unregister \/ Deploying(Executor))
  /\ WF_vars(\E l \in Loads : Loading(l))
  /\ WF_vars(~greeted /\ (AddConnection \/ GreetingMisses))
  /\ SF_vars(UpdateConnection) /\ SF_vars(TaskRemove \/ TaskReplace)

FairSpec == Spec /\ Fairness

-----------------------------------------------------------------------------
(* Properties.                                                             *)

\* Every variable has its type.
TypeOK ==
  /\ version \in 0..MaxVersion /\ current \in Id
  /\ row \in [id : Id, ddl : DDL] \cup {None}
  /\ source \in Id \cup {None}
  /\ load \in Loads \cup {None} /\ loads \in [Loads -> Load]
  /\ connVdb \in Schema \cup {None, Empty}
  /\ loadLock \in Actors \cup {None} /\ connLock \in Actors \cup {None}
  /\ thread \in [Actors -> Thread]
  /\ queue \in Seq({"remove", "replace"})
  /\ greeted \in BOOLEAN /\ events \in 0..MaxEvents /\ failures \subseteq MayFail

Queued(task) == \E i \in 1..Len(queue) : queue[i] = task

\* The row of a connection holds no schema but its own, though a load that was
\* started for a connection may end when another one has got its name.
OwnSchema == row # None /\ row.ddl \in Schema => row.ddl.of = row.id

\* The connection vdb of a deleted connection is gone with the task that
\* removes it: a request that deploys it later, from what it has read before,
\* brings no deleted schema back.
NoLeftover == connVdb \in Schema => HasRow(connVdb.of) \/ Queued("remove")

\* A load vdb that is loading is not undeployed by a request, which would lose
\* what it loads: two requests do not deploy it twice.
LoadKept ==
  \A a \in Actors :
    thread[a].at = "undeploy" /\ thread[a].ddl = None =>
      load = None \/ loads[load].at # "loading"

ReplacePending ==
  \/ Queued("replace") \/ thread[Executor].mode = "replace"
  \/ \E l \in Loads : loads[l].at = "submit"

\* The connection vdb shows the schema in the row, or is about to be replaced,
\* whatever requests have read before that schema was stored.
ShowsRow ==
  "source" \notin failures /\ row # None /\ row.ddl \in Schema /\ connVdb # None =>
    connVdb = row.ddl \/ ReplacePending

\* "Anything that ... can undeploy an active connection vdb will be delegated to
\* the connectionExecutor": no step of a request does, which is what the refresh
\* of the previews relies on.
ReplacedByExecutor ==
  [][connVdb # None /\ connVdb' # connVdb =>
       events' # events \/ \A r \in Requests : thread'[r] = thread[r]]_vars

\* A connection that is there has its schema loaded, or found impossible to
\* load, also if its first load is lost, to a restart or to another connection
\* that had the name.
Loaded == row # None /\ row.ddl = None ~> row = None \/ row.ddl # None

\* A connection vdb that is behind its row, or missing, catches up with it.
Behind     == row # None /\ row.ddl \in Schema /\ connVdb # row.ddl
ReachesVdb == Behind ~> ~Behind \/ failures \cap {"greeting", "source"} # {}
=============================================================================
