----------------------------- MODULE Connections -----------------------------
(***************************************************************************)
(* How the service follows the connections of Syndesis:                    *)
(* SyndesisConnectionMonitor keeps a web socket for their events,          *)
(* SyndesisConnectionSynchronizer makes a Teiid data source and a row of   *)
(* source_schema of each, and TeiidOpenShiftClient caches what it has read *)
(* of them.                                                                *)
(*                                                                         *)
(* All of it runs as tasks of connectionExecutor, one thread: events in    *)
(* their order, an attempt to connect every 15 seconds, a full             *)
(* synchronization every 5 minutes.  Pool threads that publish fill the    *)
(* cache too, and the monitor thread of Publish registers connections of   *)
(* its own, which must not come back as sources.                           *)
(***************************************************************************)
EXTENDS Naturals, Sequences

CONSTANTS
  Conns,        \* the connections, by id; Syndesis does not use an id again
  Own,          \* those that publishing a virtualization registers
  Sockets,      \* the web sockets that may be open together (a bound)
  MaxVersion,   \* bounds the changes of a connection
  MaxUnderWay,  \* bounds the messages under way when something changes
  MaxFailures,  \* bounds failing calls, lost sockets and restarts
  None          \* nothing; of a connection: gone

ASSUME ConnectionsAssumption ==
  /\ Own \subseteq Conns
  /\ {MaxVersion, MaxUnderWay} \subseteq Nat \ {0} /\ MaxFailures \in Nat
  /\ None \notin Nat
  /\ None \notin [ver : 1..MaxVersion, named : BOOLEAN]

VARIABLES
  \* Syndesis
  remote,      \* the version of each connection: 0 not made yet, None deleted
  wire,        \* the messages under way on each socket
  open,        \* the sockets that are open
  \* SyndesisConnectionMonitor
  connected,
  scheduled,   \* the full synchronization is scheduled
  queue,       \* the messages in the executor's queue
  task,        \* what the executor does
  \* TeiidOpenShiftClient, the Teiid server, the database
  cache,       \* syndesisSources
  registered,  \* the data sources: the version they were made from
  rows,        \* the connections with a row of source_schema
  fetched,     \* the versions that publishing threads have read and not cached yet
  saving,      \* the own connections whose id is about to be saved
  sourceIds,   \* the own connections that a row of data_virtualization names
  failures

netVars  == <<remote, wire, open>>
execVars == <<connected, scheduled, queue, task>>
srcVars  == <<cache, registered, rows, fetched>>
ownVars  == <<saving, sourceIds>>
vars == <<netVars, execVars, srcVars, ownVars, failures>>

-----------------------------------------------------------------------------
Greeting == [kind |-> "connected"]
Event    == [kind : {"created", "updated", "deleted"}, conn : Conns]
Message  == {Greeting} \cup Event

\* A DefaultSyndesisDataSource: what it was built from, whether its Teiid name is set.
Source == [ver : 1..MaxVersion, named : BOOLEAN]

\* A task adds sources, with or without update, then drops data sources; it is
\* the scheduled one or the handling of a message.
\* Of "cached", the source being added is the object in the cache itself.
Task == [periodic : BOOLEAN, update : BOOLEAN, add : [Conns -> Source \cup {None}],
         cached : SUBSET Conns, drop : SUBSET Conns]
Nothing == [c \in Conns |-> None]
Rest == [periodic |-> FALSE, update |-> FALSE, add |-> Nothing, cached |-> {}, drop |-> {}]

Init ==
  /\ remote = [c \in Conns |-> 0]
  /\ wire = [s \in Sockets |-> <<>>] /\ open = {}
  /\ connected = FALSE /\ scheduled = TRUE /\ queue = <<>> /\ task = Rest
  /\ cache = Nothing /\ registered = Nothing /\ rows = {}
  /\ fetched = Nothing
  /\ saving = {} /\ sourceIds = {}
  /\ failures = 0

Fails == failures < MaxFailures /\ failures' = failures + 1

Exists(c) == remote[c] # None /\ remote[c] # 0

-----------------------------------------------------------------------------
(* Syndesis, its users, and publishing.                                    *)

\* Every open socket is told.
Emit(kind, c) ==
  /\ \A s \in Sockets : Len(wire[s]) + Len(queue) < MaxUnderWay
  /\ wire' = [s \in Sockets |->
        IF s \in open THEN Append(wire[s], [kind |-> kind, conn |-> c]) ELSE wire[s]]

UserCreates(c) ==
  /\ c \notin Own /\ remote[c] = 0
  /\ remote' = [remote EXCEPT ![c] = 1] /\ Emit("created", c)
  /\ UNCHANGED <<open, execVars, srcVars, ownVars, failures>>

UserUpdates(c) ==
  /\ c \notin Own /\ Exists(c) /\ remote[c] < MaxVersion
  /\ remote' = [remote EXCEPT ![c] = @ + 1] /\ Emit("updated", c)
  /\ UNCHANGED <<open, execVars, srcVars, ownVars, failures>>

\* By a user, or by removeSyndesisConnection.
ConnectionGoes(c) ==
  /\ Exists(c)
  /\ remote' = [remote EXCEPT ![c] = None] /\ Emit("deleted", c)
  /\ UNCHANGED <<open, execVars, srcVars, ownVars, failures>>

\* createSyndesisConnection: the POST, then the transaction that saves the id, ...
PublishPosts(c) ==
  /\ c \in Own /\ remote[c] = 0
  /\ remote' = [remote EXCEPT ![c] = 1] /\ Emit("created", c)
  /\ saving' = saving \cup {c}
  /\ UNCHANGED <<open, execVars, srcVars, sourceIds, failures>>

\* ... unless the row is gone by then.
PublishSaves(c) ==
  /\ c \in saving /\ saving' = saving \ {c}
  /\ sourceIds' \in {sourceIds, sourceIds \cup {c}}
  /\ UNCHANGED <<netVars, execVars, srcVars, failures>>

DropDV(c) ==
  /\ c \in sourceIds /\ sourceIds' = sourceIds \ {c}
  /\ UNCHANGED <<netVars, execVars, srcVars, saving, failures>>

\* getSyndesisDataSource, for the build of a virtualization that uses c, of a
\* user: a source that is not cached is read and cached.
PublishReads(c) ==
  /\ c \notin Own /\ registered[c] # None /\ cache[c] = None /\ Exists(c) /\ fetched[c] = None
  /\ fetched' = [fetched EXCEPT ![c] = [ver |-> remote[c], named |-> c \in rows]]
  /\ UNCHANGED <<netVars, execVars, cache, registered, rows, ownVars, failures>>

PublishCaches(c) ==
  /\ fetched[c] # None
  /\ fetched' = [fetched EXCEPT ![c] = None]
  /\ cache' = [cache EXCEPT ![c] = IF @ = None THEN fetched[c] ELSE @]
  /\ UNCHANGED <<netVars, execVars, registered, rows, ownVars, failures>>

-----------------------------------------------------------------------------
(* The socket.                                                             *)

\* onMessage gives the message to the executor.
Deliver(s) ==
  /\ wire[s] # <<>>
  /\ queue' = Append(queue, Head(wire[s]))
  /\ wire' = [wire EXCEPT ![s] = Tail(@)]
  /\ UNCHANGED <<remote, open, connected, scheduled, task, srcVars, ownVars, failures>>

\* onClosing, onClosed, onFailure: what is under way is lost.
SocketDies(s) ==
  /\ Fails /\ s \in open
  /\ open' = open \ {s} /\ wire' = [wire EXCEPT ![s] = <<>>]
  /\ connected' = FALSE
  /\ UNCHANGED <<remote, scheduled, queue, task, srcVars, ownVars>>

-----------------------------------------------------------------------------
(* The tasks of the executor.                                              *)

\* connect, every 15 seconds: whatever socket there is, a new one is opened as
\* long as no greeting was handled.
Connect(s) ==
  /\ task = Rest /\ ~connected /\ s \notin open
  /\ open' = open \cup {s} /\ wire' = [wire EXCEPT ![s] = <<Greeting>>]
  /\ UNCHANGED <<remote, execVars, srcVars, ownVars, failures>>

\* buildSyndesisDataSource
Built(c) == [ver |-> remote[c], named |-> c \in rows]

\* A variant that takes from the cache what Syndesis does not list.
Synchronize_Cached(periodic) ==
  LET sources == {c \in Conns : Exists(c) \/ cache[c] # None} IN
  /\ task' = [periodic |-> periodic, update |-> periodic,
              add |-> [c \in Conns |-> IF Exists(c) THEN Built(c) ELSE cache[c]],
              cached |-> {c \in sources : cache[c] = None},
              drop |-> {c \in Conns : registered[c] # None} \ sources]
  /\ cache' = [c \in Conns |-> IF Exists(c) /\ cache[c] = None THEN Built(c) ELSE cache[c]]

\* synchronizeConnections: the connections there are now are added, the data
\* sources of others dropped.
Synchronize(periodic) ==
  LET sources == {c \in Conns : Exists(c)} IN
  /\ task' = [periodic |-> periodic, update |-> periodic,
              add |-> [c \in Conns |-> IF c \in sources THEN Built(c) ELSE None],
              cached |-> {c \in sources : cache[c] = None},
              drop |-> {c \in Conns : registered[c] # None} \ sources]
  /\ cache' = [c \in Conns |-> IF c \in sources /\ cache[c] = None THEN Built(c) ELSE cache[c]]

\* The synchronization scheduled every 5 minutes, while connected; it updates.
Periodic ==
  /\ task = Rest /\ connected /\ scheduled
  /\ \/ Synchronize(TRUE) /\ UNCHANGED failures
     \/ Fails /\ UNCHANGED <<task, cache>>
  /\ UNCHANGED <<netVars, connected, scheduled, queue, registered, rows, fetched, ownVars>>

Takes(kinds) ==
  /\ task = Rest /\ queue # <<>> /\ Head(queue).kind \in kinds
  /\ queue' = Tail(queue)

\* The greeting: connected is set, then everything is synchronized.
HandleGreeting ==
  /\ Takes({"connected"}) /\ connected' = TRUE
  /\ \/ Synchronize(FALSE) /\ UNCHANGED failures
     \/ Fails /\ UNCHANGED <<task, cache>>
  /\ UNCHANGED <<netVars, scheduled, registered, rows, fetched, ownVars>>

\* A variant that does not look whether Syndesis still has the connection.
HandleAdd_Unchecked ==
  LET c == Head(queue).conn
      source == IF cache[c] # None THEN cache[c] ELSE Built(c)
  IN
  /\ Takes({"created", "updated"})
  /\ task' = [Rest EXCEPT !.update = Head(queue).kind = "updated",
                          !.add[c] = source, !.cached = {c}]
  /\ cache' = [cache EXCEPT ![c] = source]
  /\ UNCHANGED <<netVars, connected, scheduled, registered, rows, fetched, ownVars, failures>>

\* handleAddConnection: the source comes from the cache; only without it
\* Syndesis is asked, which fails if the connection is gone.
HandleAdd ==
  LET c == Head(queue).conn
      source == IF cache[c] # None THEN cache[c] ELSE Built(c)
  IN
  /\ Takes({"created", "updated"})
  /\ \/ /\ cache[c] # None \/ Exists(c)
        /\ task' = [Rest EXCEPT !.update = Head(queue).kind = "updated",
                                !.add[c] = source, !.cached = {c}]
        /\ cache' = [cache EXCEPT ![c] = source]
        /\ UNCHANGED failures
     \/ cache[c] = None /\ ~Exists(c) /\ UNCHANGED <<task, cache, failures>>
     \/ cache[c] = None /\ Fails /\ UNCHANGED <<task, cache>>
  /\ UNCHANGED <<netVars, connected, scheduled, registered, rows, fetched, ownVars>>

\* handleDeleteConnection
HandleDelete ==
  /\ Takes({"deleted"})
  /\ task' = [Rest EXCEPT !.drop = {Head(queue).conn}]
  /\ UNCHANGED <<netVars, connected, scheduled, srcVars, ownVars, failures>>

\* The data source that is there already: an update deletes it first, if its
\* name is known.  A variant that never does.
Kept_Always(c) == registered[c]

Kept(c) == IF task.update /\ task.add[c].named THEN None ELSE registered[c]

\* getUniqueKomodoName: a source without a name gets it with its row.  A variant
\* that leaves the row to the loading of the metadata.
Row_Later(c) == rows

Row(c) == IF task.add[c].named THEN rows ELSE rows \cup {c}

\* addConnection: not what a virtualization published.  An update forgets the
\* cached source too; the data source is made unless it is there.
AddConnection(c) ==
  /\ task.add[c] # None
  /\ task' = [task EXCEPT !.add[c] = None]
  /\ IF c \in sourceIds
     THEN UNCHANGED <<cache, registered, rows>>
     ELSE /\ rows' = Row(c)
          /\ registered' = [registered EXCEPT ![c] =
               IF Kept(c) = None THEN task.add[c].ver ELSE Kept(c)]
          /\ cache' = [cache EXCEPT ![c] =
               IF task.update THEN None
               ELSE IF @ # None /\ c \in task.cached THEN [@ EXCEPT !.named = TRUE] ELSE @]
  /\ UNCHANGED <<netVars, connected, scheduled, queue, fetched, ownVars, failures>>

\* The lookup by source id fails: the task is over, and the scheduled one is not
\* run again, as its executor forgets a periodic task that throws.
AddConnectionThrows(c) ==
  /\ task.add[c] # None /\ Fails
  /\ task' = Rest
  /\ scheduled' = (scheduled /\ ~task.periodic)
  /\ UNCHANGED <<netVars, connected, queue, srcVars, ownVars>>

\* createDataSource fails, before or after the name: what was deleted stays so.
AddConnectionFails(c) ==
  /\ task.add[c] # None /\ c \notin sourceIds /\ Fails
  /\ task' = [task EXCEPT !.add[c] = None]
  /\ registered' = [registered EXCEPT ![c] = Kept(c)]
  /\ \E named \in {task.add[c].named, TRUE} :
       /\ rows' = IF named THEN Row(c) ELSE rows
       /\ cache' = [cache EXCEPT ![c] =
            IF task.update THEN None
            ELSE IF @ # None /\ c \in task.cached THEN [@ EXCEPT !.named = named] ELSE @]
  /\ UNCHANGED <<netVars, connected, scheduled, queue, fetched, ownVars>>

\* The data source that is deleted fails to close: the server has it no more and
\* another one is made, but the cached source stays.
AddConnectionKeeps(c) ==
  /\ task.add[c] # None /\ c \notin sourceIds /\ Fails
  /\ task.update /\ task.add[c].named /\ registered[c] # None
  /\ task' = [task EXCEPT !.add[c] = None]
  /\ registered' = [registered EXCEPT ![c] = task.add[c].ver]
  /\ UNCHANGED <<netVars, connected, scheduled, queue, cache, rows, fetched, ownVars>>

\* deleteConnection, of the cached source: without one, nothing is done.
DropConnection(c) ==
  /\ task.add = Nothing /\ c \in task.drop
  /\ task' = [task EXCEPT !.drop = @ \ {c}]
  /\ IF cache[c] = None
     THEN UNCHANGED <<cache, registered, rows>>
     ELSE /\ rows' = rows \ {c}
          /\ registered' = [registered EXCEPT ![c] = IF cache[c].named THEN None ELSE @]
          /\ cache' = [cache EXCEPT ![c] = None]
  /\ UNCHANGED <<netVars, connected, scheduled, queue, fetched, ownVars, failures>>

\* The row is not deleted; or the data source fails to close, which leaves the
\* cached source and ends the task.
DropConnectionFails(c) ==
  /\ task.add = Nothing /\ c \in task.drop /\ cache[c] # None /\ Fails
  /\ registered' = [registered EXCEPT ![c] = IF cache[c].named THEN None ELSE @]
  /\ \/ /\ task' = [task EXCEPT !.drop = @ \ {c}]
        /\ cache' = [cache EXCEPT ![c] = None] /\ UNCHANGED rows
     \/ /\ cache[c].named /\ registered[c] # None
        /\ task' = Rest /\ rows' = rows \ {c} /\ UNCHANGED cache
  /\ UNCHANGED <<netVars, connected, scheduled, queue, fetched, ownVars>>

TaskEnds ==
  /\ task # Rest /\ task.add = Nothing /\ task.drop = {}
  /\ task' = Rest
  /\ UNCHANGED <<netVars, connected, scheduled, queue, srcVars, ownVars, failures>>

TaskStep ==
  \/ \E c \in Conns : \/ AddConnection(c) \/ AddConnectionThrows(c) \/ AddConnectionFails(c)
                      \/ AddConnectionKeeps(c) \/ DropConnection(c) \/ DropConnectionFails(c)
  \/ TaskEnds

\* The pod goes and comes back.
Restart ==
  /\ Fails
  /\ wire' = [s \in Sockets |-> <<>>] /\ open' = {}
  /\ connected' = FALSE /\ scheduled' = TRUE /\ queue' = <<>> /\ task' = Rest
  /\ cache' = Nothing /\ registered' = Nothing /\ fetched' = Nothing
  /\ saving' = {}
  /\ UNCHANGED <<remote, rows, sourceIds>>

-----------------------------------------------------------------------------
Next ==
  \/ \E c \in Conns : \/ UserCreates(c) \/ UserUpdates(c) \/ ConnectionGoes(c)
                      \/ PublishPosts(c) \/ PublishSaves(c) \/ DropDV(c)
                      \/ PublishReads(c) \/ PublishCaches(c)
  \/ \E s \in Sockets : Deliver(s) \/ SocketDies(s) \/ Connect(s)
  \/ Periodic \/ HandleGreeting \/ HandleAdd \/ HandleDelete
  \/ TaskStep
  \/ Restart

Spec == Init /\ [][Next]_vars

\* Messages are delivered, the executor runs what is in its queue and what is
\* scheduled, and a task goes on to its end.
Fairness ==
  /\ \A s \in Sockets : WF_vars(Deliver(s))
  /\ WF_vars(\E s \in Sockets : Connect(s))
  /\ WF_vars(Periodic)
  /\ WF_vars(HandleGreeting \/ HandleAdd \/ HandleDelete)
  /\ WF_vars(TaskStep)

FairSpec == Spec /\ Fairness

-----------------------------------------------------------------------------
(* Properties.                                                             *)

\* Every variable has its type.
TypeOK ==
  /\ remote \in [Conns -> (0..MaxVersion) \cup {None}]
  /\ wire \in [Sockets -> Seq(Message)] /\ open \subseteq Sockets
  /\ {connected, scheduled} \subseteq BOOLEAN /\ queue \in Seq(Message) /\ task \in Task
  /\ cache \in [Conns -> Source \cup {None}]
  /\ registered \in [Conns -> (1..MaxVersion) \cup {None}]
  /\ rows \subseteq Conns
  /\ fetched \in [Conns -> Source \cup {None}]
  /\ saving \subseteq Own /\ sourceIds \subseteq Own
  /\ failures \in 0..MaxFailures

\* A data source of a connection that exists has its row, so that its metadata
\* are loaded and kept, through events that are lost or late and steps that fail.
RegisteredHasRow == \A c \in Conns \ Own : Exists(c) /\ registered[c] # None => c \in rows

\* No message about c is under way and no task has it at hand.
Settled(c) ==
  /\ \A s \in Sockets : \A i \in 1..Len(wire[s]) :
       wire[s][i].kind # "connected" => wire[s][i].conn # c
  /\ \A i \in 1..Len(queue) : queue[i].kind # "connected" => queue[i].conn # c
  /\ task.add[c] = None

\* A connection that is gone, with nothing about it left to handle, never gets a
\* data source again, though synchronizations work on a list they have read and
\* publishing threads put back into the cache what they read earlier.
Over(c) == remote[c] = None /\ Settled(c) /\ registered[c] = None
NoRevival == [][\A c \in Conns : Over(c) => Over(c)']_vars

\* A connection, and every change of it, comes to its data source in the end,
\* whatever is lost on the way, as long as the synchronization is scheduled.
Arrives ==
  \A c \in Conns \ Own :
    Exists(c) ~> remote[c] = None \/ registered[c] = remote[c] \/ ~scheduled

\* "this is avoid circular creation of the virtualization connection that is
\* published through syndesis": what a virtualization published is no source.
NoCircular == \A c \in Own : registered[c] = None

\* "the datasource is already deleted from the syndesis so we would need to
\* search by local cached event id": a connection that is deleted loses its
\* data source in the end.
DeletedIsRemoved == \A c \in Conns \ Own : remote[c] = None ~> registered[c] = None
=============================================================================
