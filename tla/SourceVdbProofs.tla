--------------------------- MODULE SourceVdbProofs ---------------------------
(***************************************************************************)
(* Theorems about SourceVdb, for any number of threads, loads, connections *)
(* with the name, schemas and events: types, what the two locks protect,   *)
(* and that what is stored and shown is the connection's own.              *)
(***************************************************************************)
EXTENDS SourceVdb, SequenceTheorems, TLAPS

Steps == {"row", "check", "undeploy", "deploy"}

HoldsLoad(a) == thread[a].at \in {"undeploy", "deploy"} /\ thread[a].ddl = None
HoldsConn(a) == thread[a].at \in {"undeploy", "deploy"} /\ thread[a].ddl # None

\* Who is past the check holds the lock of what it replaces, and what it found
\* missing, or failed, still is; a request found the connection vdb missing.
ThreadFine(a) ==
  /\ HoldsLoad(a) => /\ loadLock = a /\ Free # {}
                     /\ load # None => loads[load].ddl = Failed
  /\ HoldsConn(a) => connLock = a
  /\ thread[a].at = "deploy" => thread[a].ddl # Failed
  /\ a \in Requests => /\ thread[a].at \in Steps => thread[a].mode # "replace"
                       /\ HoldsConn(a) => connVdb = None

\* A load has its DDL from its end on, and commits to the row it has read.
LoadFine(l) ==
  /\ loads[l].at = "loading" => loads[l].ddl = None
  /\ loads[l].at \in LoadPC \ {"loading"} => loads[l].ddl # None
  /\ loads[l].at = "commit" => HasRow(loads[l].id)

\* The load vdb with the name is loading, or its listener has yet to remove it.
LoadThere == load # None => loads[load].at \in {"loading", "ended"}

LockInv == /\ TypeOK /\ LoadThere
           /\ \A a \in Actors : ThreadFine(a)
           /\ \A l \in Loads : LoadFine(l)

-----------------------------------------------------------------------------
(* Types.                                                                  *)

LEMMA ActorTypes == /\ Executor \in Actors /\ Requests \subseteq Actors /\ Executor \notin Requests
                    /\ None \notin Actors
  BY SourceVdbAssumption DEF Actors

LEMMA DDLTypes == /\ None \in DDL /\ Failed \in DDL /\ Schema \subseteq DDL /\ None # Failed
                  /\ None \notin Schema /\ Failed \notin Schema /\ Empty \notin Schema
                  /\ None \notin Id /\ None \notin Loads /\ None # Empty
                  /\ None \notin [id : Id, ddl : DDL]
  BY SourceVdbAssumption DEF DDL

LEMMA ThreadTypes ==
  ASSUME NEW t \in Thread
  PROVE  /\ t.at \in Steps \cup {"register"} => t.mode \in Mode /\ t.id \in Id /\ t.ddl \in DDL
         /\ t.at = "unregister" => t.id \in Id /\ t.ddl = None
         /\ t.at \in Steps \cup {"register", "unregister", "idle"}
  BY DEF Thread, Idle, Steps

LEMMA MadeThread ==
  ASSUME NEW at \in Steps \cup {"register"}, NEW mode \in Mode, NEW i \in Id, NEW d \in DDL
  PROVE  [at |-> at, mode |-> mode, id |-> i, ddl |-> d] \in Thread
  BY DEF Thread, Steps

LEMMA MovedThread ==
  ASSUME NEW t \in Thread, t.at \in Steps, NEW at \in Steps
  PROVE  LET moved == [t EXCEPT !.at = at]
         IN  /\ moved \in Thread
             /\ moved.at = at /\ moved.mode = t.mode /\ moved.id = t.id /\ moved.ddl = t.ddl
  <1> DEFINE Working == [at : Steps \cup {"register"}, mode : Mode, id : Id, ddl : DDL]
  <1>1. Working \subseteq Thread
    BY DEF Thread, Steps
  <1>2. t \in Working
    BY DEF Thread, Steps, Idle
  <1>3. QED
    BY <1>1, <1>2

LEMMA ReadThread ==
  ASSUME NEW t \in Thread, t.at \in Steps, NEW d \in DDL
  PROVE  LET read == [t EXCEPT !.at = "check", !.ddl = d]
         IN  /\ read \in Thread
             /\ read.at = "check" /\ read.mode = t.mode /\ read.id = t.id /\ read.ddl = d
  <1> DEFINE Working == [at : Steps \cup {"register"}, mode : Mode, id : Id, ddl : DDL]
  <1>1. Working \subseteq Thread /\ "check" \in Steps
    BY DEF Thread, Steps
  <1>2. t \in Working
    BY DEF Thread, Steps, Idle
  <1>3. QED
    BY <1>1, <1>2

LEMMA StartsType ==
  ASSUME TypeOK, NEW a \in Actors, NEW at \in {"row", "register"}, NEW mode \in Mode, NEW i \in Id,
         Starts(a, at, mode, i)
  PROVE  /\ thread' \in [Actors -> Thread]
         /\ thread'[a].at = at /\ thread'[a].mode = mode /\ thread'[a].id = i
         /\ thread'[a].ddl = None
         /\ \A b \in Actors \ {a} : thread'[b] = thread[b]
  <1>1. [at |-> at, mode |-> mode, id |-> i, ddl |-> None] \in Thread
    BY DDLTypes, MadeThread DEF Steps
  <1>2. QED
    BY <1>1 DEF Starts, TypeOK

LEMMA EndsType ==
  ASSUME TypeOK, NEW a \in Actors, Ends(a)
  PROVE  /\ thread' \in [Actors -> Thread] /\ thread'[a] = Idle
         /\ \A b \in Actors \ {a} : thread'[b] = thread[b]
  BY DEF Ends, TypeOK, Thread

LEMMA GotoType ==
  ASSUME TypeOK, NEW a \in Actors, NEW at \in Steps, thread[a].at \in Steps, Goto(a, at)
  PROVE  /\ thread' \in [Actors -> Thread]
         /\ thread'[a] = [thread[a] EXCEPT !.at = at]
         /\ \A b \in Actors \ {a} : thread'[b] = thread[b]
  <1>1. thread[a] \in Thread /\ thread \in [Actors -> Thread]
    BY DEF TypeOK
  <1>2. [thread[a] EXCEPT !.at = at] \in Thread
    BY <1>1, DDLTypes, MovedThread
  <1>3. QED
    BY <1>1, <1>2 DEF Goto

LEMMA LoadTypes ==
  ASSUME NEW d \in Load
  PROVE  /\ d.at \in LoadPC \cup {"unused"} /\ d.ddl \in DDL
         /\ d.at \in LoadPC => d.id \in Id
         /\ d.at = "unused" <=> d = Unused
         /\ d.at = "unused" => d.ddl = None
  BY DDLTypes DEF Load, Unused, LoadPC

LEMMA MovedLoad ==
  ASSUME NEW d \in Load, d.at \in LoadPC, NEW at \in LoadPC
  PROVE  LET moved == [d EXCEPT !.at = at]
         IN  /\ moved \in Load
             /\ moved.at = at /\ moved.id = d.id /\ moved.ddl = d.ddl
  <1> DEFINE Used == [at : LoadPC, id : Id, ddl : DDL]
  <1>1. d \in Used /\ Used \subseteq Load
    BY DEF Load, Unused, LoadPC
  <1>2. QED
    BY <1>1

LEMMA EndedLoad ==
  ASSUME NEW d \in Load, d.at \in LoadPC, NEW ddl \in DDL
  PROVE  LET ended == [d EXCEPT !.at = "ended", !.ddl = ddl]
         IN  /\ ended \in Load
             /\ ended.at = "ended" /\ ended.id = d.id /\ ended.ddl = ddl
  <1> DEFINE Used == [at : LoadPC, id : Id, ddl : DDL]
  <1>1. d \in Used /\ Used \subseteq Load /\ "ended" \in LoadPC
    BY DEF Load, Unused, LoadPC
  <1>2. QED
    BY <1>1

LEMMA UnusedLoad == Unused \in Load
  BY DEF Load

LEMMA IdTypes == current \in Id => (current < MaxId => current + 1 \in Id)
  BY SourceVdbAssumption DEF Id

LEMMA CountsType ==
  ASSUME TypeOK, Counts \/ (\E what : Fails(what)) \/ UNCHANGED countVars
  PROVE  events' \in 0..MaxEvents /\ failures' \subseteq MayFail
  <1>1. MaxEvents \in Nat /\ events \in 0..MaxEvents /\ failures \subseteq MayFail
    BY SourceVdbAssumption DEF TypeOK
  <1>2. CASE Counts
    BY <1>1, <1>2 DEF Counts
  <1>3. CASE \E what : Fails(what)
    BY <1>1, <1>3 DEF Fails
  <1>4. CASE UNCHANGED countVars
    BY <1>1, <1>4 DEF countVars
  <1>5. QED
    BY <1>2, <1>3, <1>4

LEMMA ConflictsType ==
  ASSUME TypeOK, NEW others
  PROVE  /\ Conflicts(others) \in [Loads -> Load]
         /\ \A l \in Loads : Conflicts(others)[l] =
              IF l \in others /\ loads[l].at = "commit"
              THEN [loads[l] EXCEPT !.at = "conflict"] ELSE loads[l]
  <1>1. ASSUME NEW l \in Loads, loads[l].at = "commit"
        PROVE  [loads[l] EXCEPT !.at = "conflict"] \in Load
    BY <1>1, DDLTypes, MovedLoad DEF TypeOK, LoadPC
  <1>2. QED
    BY <1>1 DEF Conflicts, TypeOK

LEMMA UndeployedType ==
  ASSUME TypeOK
  PROVE  /\ Undeployed \in [Loads -> Load]
         /\ \A l \in Loads : Undeployed[l] =
              IF l = load /\ loads[l].at = "loading" THEN Unused ELSE loads[l]
  BY UnusedLoad, DDLTypes DEF Undeployed, TypeOK

LEMMA NamedType ==
  ASSUME TypeOK
  PROVE  /\ Named(current) \in [id : Id, ddl : DDL]
         /\ row # None => Named(current) = row
         /\ row = None => Named(current) = [id |-> current, ddl |-> None]
  BY DDLTypes DEF TypeOK, Named

LEMMA InitLock == Init => LockInv
  <1> SUFFICES ASSUME Init  PROVE LockInv
    OBVIOUS
  <1>1. TypeOK
    <2>1. version \in 0..MaxVersion /\ current \in Id /\ events \in 0..MaxEvents
      BY SourceVdbAssumption DEF Init, Id
    <2>2. thread \in [Actors -> Thread] /\ loads \in [Loads -> Load]
      BY UnusedLoad DEF Init, Thread
    <2>3. greeted \in BOOLEAN /\ failures \subseteq MayFail
      BY DEF Init
    <2>4. QED
      BY <2>1, <2>2, <2>3 DEF Init, TypeOK
  <1>2. \A a \in Actors : thread[a].at = "idle"
    BY DEF Init, Idle
  <1>3. \A l \in Loads : loads[l].at = "unused"
    BY DEF Init, Unused
  <1>4. QED
    BY <1>1, <1>2, <1>3 DEF Init, LockInv, LoadThere, ThreadFine, LoadFine, HoldsLoad, HoldsConn,
                            Steps, LoadPC

-----------------------------------------------------------------------------
(* The steps that leave vdbs and locks alone.                              *)

LEMMA QuietLock ==
  ASSUME LockInv, TypeOK', UNCHANGED <<load, loads, connVdb, loadLock, connLock>>,
         \A i \in Id : HasRow(i) => HasRow(i)',
         \A b \in Actors :
           \/ thread'[b] = thread[b]
           \/ /\ thread'[b].at \notin {"undeploy", "deploy"}
              /\ b \in Requests /\ thread'[b].at \in Steps => thread'[b].mode # "replace"
  PROVE  LockInv'
  <1>1. ASSUME NEW b \in Actors  PROVE ThreadFine(b)'
    BY DEF LockInv, ThreadFine, HoldsLoad, HoldsConn, Free
  <1>2. ASSUME NEW l \in Loads  PROVE LoadFine(l)'
    <2>1. loads[l].at = "commit" => loads[l].id \in Id
      BY LoadTypes DEF LockInv, TypeOK, LoadPC
    <2>2. QED
      BY <2>1 DEF LockInv, LoadFine
  <1>3. QED
    BY <1>1, <1>2 DEF LockInv, LoadThere

LEMMA SourceMade ==
  ASSUME TypeOK, NEW mode \in {"live", "refresh"}, CreateSource(mode) \/ CreateSourceFails
  PROVE  /\ row' \in [id : Id, ddl : DDL] /\ source' \in Id \cup {None}
         /\ thread' \in [Actors -> Thread]
         /\ \A b \in Actors \ {Executor} : thread'[b] = thread[b]
         /\ thread'[Executor].at \in {"row", "idle"}
         /\ \A i \in Id : HasRow(i) => HasRow(i)'
  <1>1. row' = Named(current) /\ source' \in {source, current} /\ current \in Id
    BY DEF CreateSource, CreateSourceFails, TypeOK
  <1>2. CASE CreateSource(mode)
    <2>1. Starts(Executor, "row", mode, current) /\ mode \in Mode
      BY <1>2 DEF CreateSource, Mode
    <2>2. /\ thread' \in [Actors -> Thread] /\ thread'[Executor].at = "row"
          /\ \A b \in Actors \ {Executor} : thread'[b] = thread[b]
      BY <1>1, <2>1, StartsType, ActorTypes
    <2>3. QED
      BY <1>1, <2>2, NamedType DEF HasRow, TypeOK
  <1>3. CASE CreateSourceFails
    BY <1>1, <1>3, EndsType, ActorTypes, NamedType DEF CreateSourceFails, HasRow, TypeOK, Idle
  <1>4. QED
    BY <1>2, <1>3

LEMMA StartLock ==
  ASSUME LockInv,
         \/ \E r \in Requests : AskRefresh(r) \/ AskSchema(r)
         \/ AddConnection \/ GreetingMisses \/ UpdateConnection \/ Register \/ Unregister
         \/ TaskReplace \/ SchemaChanges
  PROVE  LockInv'
  <1> USE DEF dataVars, vdbVars, lockVars, countVars
  <1>0. TypeOK
    BY DEF LockInv
  <1>1. ASSUME NEW r \in Requests, AskRefresh(r) \/ AskSchema(r)  PROVE LockInv'
    <2>1. PICK mode \in {"refresh", "reuse"} : Starts(r, "row", mode, source)
      BY <1>1 DEF AskRefresh, AskSchema
    <2>2. source \in Id /\ r \in Actors
      BY <1>0, <1>1, ActorTypes DEF AskRefresh, AskSchema, TypeOK
    <2>3. /\ thread' \in [Actors -> Thread] /\ \A b \in Actors \ {r} : thread'[b] = thread[b]
          /\ thread'[r].at = "row" /\ thread'[r].mode # "replace"
      <3>1. mode \in Mode /\ mode # "replace"
        BY DEF Mode
      <3>2. QED
        BY <1>0, <2>1, <2>2, <3>1, StartsType
    <2>4. events' \in 0..MaxEvents /\ failures' \subseteq MayFail
      BY <1>0, <1>1, CountsType DEF AskRefresh, AskSchema
    <2>5. UNCHANGED <<dataVars, source, vdbVars, lockVars, queue, greeted>>
      BY <1>1 DEF AskRefresh, AskSchema
    <2>6. TypeOK'
      BY <1>0, <2>3, <2>4, <2>5 DEF TypeOK
    <2>7. \A i \in Id : HasRow(i) => HasRow(i)'
      BY <2>5 DEF HasRow
    <2>8. QED
      BY <2>3, <2>5, <2>6, <2>7, QuietLock
  <1>2. CASE AddConnection \/ Register
    <2>1. \E mode \in {"live", "refresh"} : CreateSource(mode) \/ CreateSourceFails
      BY <1>2 DEF AddConnection, Register
    <2>2. UNCHANGED <<version, current, vdbVars, lockVars, queue>> /\ greeted' \in {greeted, TRUE}
      BY <1>2 DEF AddConnection, Register
    <2>3. events' \in 0..MaxEvents /\ failures' \subseteq MayFail
      BY <1>0, <1>2, CountsType DEF AddConnection, Register, CreateSourceFails
    <2>4. TypeOK'
      BY <1>0, <2>1, <2>2, <2>3, SourceMade DEF TypeOK
    <2>5. QED
      BY <1>0, <2>1, <2>2, <2>4, SourceMade, QuietLock, ActorTypes
  <1>3. CASE UpdateConnection \/ Unregister \/ TaskReplace
    <2>1. UNCHANGED <<dataVars, vdbVars, lockVars, greeted>> /\ source' \in {source, None}
      BY <1>3 DEF UpdateConnection, Unregister, TaskReplace
    <2>2. queue' \in Seq({"remove", "replace"})
      BY <1>0, <1>3 DEF UpdateConnection, Unregister, TaskReplace, TypeOK
    <2>3. events' \in 0..MaxEvents /\ failures' \subseteq MayFail
      BY <1>0, <1>3, CountsType DEF UpdateConnection, Unregister, TaskReplace
    <2>4. /\ thread' \in [Actors -> Thread]
          /\ \A b \in Actors \ {Executor} : thread'[b] = thread[b]
          /\ thread'[Executor] = thread[Executor] \/ thread'[Executor].at \in {"row", "register", "idle"}
      <3>1. CASE Ends(Executor)
        BY <1>0, <3>1, EndsType, ActorTypes DEF Idle
      <3>2. CASE thread' = thread
        BY <1>0, <3>2 DEF TypeOK
      <3>3. ASSUME NEW at \in {"row", "register"}, NEW mode \in Mode, NEW i \in Id,
                   Starts(Executor, at, mode, i)
            PROVE  /\ thread' \in [Actors -> Thread]
                   /\ \A b \in Actors \ {Executor} : thread'[b] = thread[b]
                   /\ thread'[Executor].at \in {"row", "register"}
        BY <1>0, <3>3, StartsType, ActorTypes
      <3>4. Ends(Executor) \/ thread' = thread
            \/ \E at \in {"row", "register"}, mode \in Mode, i \in Id : Starts(Executor, at, mode, i)
        BY <1>0, <1>3 DEF UpdateConnection, Unregister, TaskReplace, TypeOK, Mode
      <3>5. QED
        BY <3>1, <3>2, <3>3, <3>4
    <2>5. TypeOK'
      BY <1>0, <2>1, <2>2, <2>3, <2>4 DEF TypeOK
    <2>6. QED
      BY <2>1, <2>4, <2>5, QuietLock, ActorTypes DEF HasRow
  <1>4. CASE SchemaChanges
    <2>1. version' \in 0..MaxVersion
      BY <1>0, <1>4, SourceVdbAssumption DEF SchemaChanges, TypeOK
    <2>2. TypeOK'
      BY <1>0, <1>4, <2>1 DEF SchemaChanges, TypeOK
    <2>3. QED
      BY <1>4, <2>2, QuietLock DEF SchemaChanges, HasRow
  <1>5. CASE GreetingMisses
    <2>1. events' \in 0..MaxEvents /\ failures' \subseteq MayFail
      BY <1>0, <1>5, CountsType DEF GreetingMisses
    <2>2. TypeOK'
      BY <1>0, <1>5, <2>1 DEF GreetingMisses, TypeOK
    <2>3. QED
      BY <1>5, <2>2, QuietLock DEF GreetingMisses, HasRow
  <1>6. QED
    BY <1>1, <1>2, <1>3, <1>4, <1>5

LEMMA ReadLock ==
  ASSUME LockInv, NEW a \in Actors, ReadRow(a) \/ CheckEnds(a)
  PROVE  LockInv'
  <1> USE DEF dataVars, vdbVars, lockVars, countVars
  <1>0. TypeOK /\ thread[a] \in Thread
    BY DEF LockInv, TypeOK
  <1>1. /\ thread' \in [Actors -> Thread] /\ \A b \in Actors \ {a} : thread'[b] = thread[b]
        /\ thread'[a].at \in {"idle", "check"}
        /\ thread'[a].at = "check" => thread[a].at \in Steps /\ thread'[a].mode = thread[a].mode
    <2>1. CASE Ends(a)
      BY <1>0, <2>1, EndsType DEF Idle
    <2>2. CASE ~Ends(a)
      <3>1. /\ ReadRow(a) /\ thread[a].at = "row" /\ HasRow(thread[a].id)
            /\ thread' = [thread EXCEPT ![a].at = "check",
                                        ![a].ddl = IF thread[a].mode = "refresh" THEN None ELSE row.ddl]
        BY <2>2 DEF ReadRow, CheckEnds
      <3> DEFINE d == IF thread[a].mode = "refresh" THEN None ELSE row.ddl
      <3>2. d \in DDL
        BY <1>0, <3>1, DDLTypes DEF HasRow, TypeOK
      <3>3. /\ [thread[a] EXCEPT !.at = "check", !.ddl = d] \in Thread
            /\ [thread[a] EXCEPT !.at = "check", !.ddl = d].at = "check"
            /\ [thread[a] EXCEPT !.at = "check", !.ddl = d].mode = thread[a].mode
        <4>1. thread[a].at \in Steps
          BY <3>1 DEF Steps
        <4> HIDE DEF d
        <4>2. QED
          BY <1>0, <3>2, <4>1, ReadThread
      <3>4. thread' = [thread EXCEPT ![a] = [thread[a] EXCEPT !.at = "check", !.ddl = d]]
        BY <1>0, <3>1 DEF TypeOK
      <3>5. thread'[a] = [thread[a] EXCEPT !.at = "check", !.ddl = d]
        BY <1>0, <3>4 DEF TypeOK
      <3>6. thread'[a].at = "check" /\ thread'[a].mode = thread[a].mode
        BY <3>3, <3>5
      <3>7. QED
        BY <1>0, <3>1, <3>3, <3>4, <3>6 DEF TypeOK, Steps
    <2>3. QED
      BY <2>1, <2>2
  <1>2. UNCHANGED <<dataVars, source, vdbVars, lockVars, queue, greeted, countVars>>
    BY DEF ReadRow, CheckEnds
  <1>3. TypeOK'
    BY <1>0, <1>1, <1>2 DEF TypeOK
  <1>4. a \in Requests /\ thread'[a].at \in Steps => thread'[a].mode # "replace"
    BY <1>1 DEF LockInv, ThreadFine, Steps
  <1>5. QED
    BY <1>1, <1>2, <1>3, <1>4, QuietLock DEF HasRow

-----------------------------------------------------------------------------
(* The steps of a deployment.                                              *)

LEMMA Exclusive ==
  ASSUME LockInv, NEW a \in Actors, NEW b \in Actors \ {a}
  PROVE  /\ ~(HoldsLoad(a) /\ HoldsLoad(b)) /\ ~(HoldsConn(a) /\ HoldsConn(b))
         /\ loadLock = None => ~HoldsLoad(a)
         /\ connLock = None => ~HoldsConn(a)
  BY ActorTypes DEF LockInv, ThreadFine

LEMMA CheckLock ==
  ASSUME LockInv, NEW a \in Actors, CheckPasses(a)
  PROVE  LockInv'
  <1> USE DEF dataVars, vdbVars, lockVars, countVars
  <1> DEFINE t == thread[a]
  <1>0. TypeOK /\ ThreadFine(a) /\ t.at = "check" /\ ~NoNeed(t) /\ TakesLock(a) /\ Goto(a, "undeploy")
        /\ UNCHANGED <<dataVars, source, vdbVars, queue, greeted, countVars>>
    BY DEF LockInv, CheckPasses
  <1>1. /\ thread' \in [Actors -> Thread] /\ \A b \in Actors \ {a} : thread'[b] = thread[b]
        /\ thread'[a] = [t EXCEPT !.at = "undeploy"]
    BY <1>0, GotoType DEF Steps
  <1>2. thread'[a].at = "undeploy" /\ thread'[a].mode = t.mode /\ thread'[a].ddl = t.ddl
    <2>1. t \in Thread /\ t.at \in Steps /\ "undeploy" \in Steps
      BY <1>0 DEF TypeOK, Steps
    <2>2. QED
      BY <1>1, <2>1, MovedThread
  <1>3. TypeOK'
    BY <1>0, <1>1 DEF TypeOK, TakesLock
  <1>4. ThreadFine(a)'
    <2>1. t.ddl = None => loadLock' = a /\ Free # {} /\ (load # None => loads[load].ddl = Failed)
      BY <1>0 DEF TakesLock, NoNeed
    <2>2. t.ddl # None => connLock' = a /\ (t.mode # "replace" => connVdb = None)
      BY <1>0 DEF TakesLock, NoNeed
    <2>3. QED
      BY <1>0, <1>2, <2>1, <2>2 DEF ThreadFine, HoldsLoad, HoldsConn, Free, Steps
  <1>5. ASSUME NEW b \in Actors \ {a}  PROVE ThreadFine(b)'
    <2>1. ThreadFine(b) /\ (HoldsLoad(b) => loadLock' = loadLock) /\ (HoldsConn(b) => connLock' = connLock)
      BY <1>0, Exclusive, ActorTypes DEF TakesLock, LockInv, ThreadFine
    <2>2. QED
      BY <1>0, <1>1, <2>1 DEF ThreadFine, HoldsLoad, HoldsConn, Free
  <1>6. QED
    BY <1>0, <1>3, <1>4, <1>5 DEF LockInv, LoadFine, LoadThere, HasRow

LEMMA UndeployLock ==
  ASSUME LockInv, NEW a \in Actors, Undeploy(a)
  PROVE  LockInv'
  <1> USE DEF dataVars, vdbVars, lockVars, countVars
  <1> DEFINE t == thread[a]
  <1>0. /\ TypeOK /\ LoadThere /\ ThreadFine(a) /\ t.at = "undeploy" /\ t \in Thread
        /\ \A b \in Actors : ThreadFine(b)
        /\ \A l \in Loads : LoadFine(l)
        /\ UNCHANGED <<dataVars, source, queue, greeted, countVars>>
    BY DEF LockInv, Undeploy, TypeOK
  <1>1. CASE t.ddl = None
    <2>1. load' = None /\ loads' = Undeployed /\ UNCHANGED <<connVdb, lockVars>> /\ Goto(a, "deploy")
      BY <1>0, <1>1, DDLTypes DEF Undeploy
    <2>2. /\ thread' \in [Actors -> Thread] /\ \A b \in Actors \ {a} : thread'[b] = thread[b]
          /\ thread'[a] = [t EXCEPT !.at = "deploy"]
      BY <1>0, <2>1, GotoType DEF Steps
    <2>3. thread'[a].at = "deploy" /\ thread'[a].mode = t.mode /\ thread'[a].ddl = t.ddl
      <3>1. t.at \in Steps /\ "deploy" \in Steps
        BY <1>0 DEF Steps
      <3>2. QED
        BY <1>0, <2>2, <3>1, MovedThread
    <2>4. TypeOK'
      BY <1>0, <2>1, <2>2, UndeployedType DEF TypeOK
    <2>5. \A l \in Loads : loads'[l] = loads[l] \/ loads'[l] = Unused
      BY <1>0, <2>1, UndeployedType
    <2>6. Free \subseteq Free'
      BY <2>5 DEF Free
    <2>7. ThreadFine(a)'
      BY <1>0, <1>1, <2>1, <2>3, <2>6, DDLTypes DEF ThreadFine, HoldsLoad, HoldsConn, Steps
    <2>8. ASSUME NEW b \in Actors \ {a}  PROVE ThreadFine(b)'
      <3>1. ThreadFine(b) /\ ~HoldsLoad(b)
        BY <1>0, <1>1, Exclusive DEF HoldsLoad
      <3>2. QED
        BY <2>1, <2>2, <3>1 DEF ThreadFine, HoldsLoad, HoldsConn
    <2>9. ASSUME NEW l \in Loads  PROVE LoadFine(l)'
      BY <1>0, <2>5 DEF LoadFine, Unused, LoadPC, HasRow
    <2>10. QED
      BY <2>1, <2>4, <2>7, <2>8, <2>9 DEF LockInv, LoadThere
  <1>2. CASE t.ddl # None
    <2>1. connVdb' = None /\ UNCHANGED <<load, loads>> /\ loadLock' = loadLock
      BY <1>0, <1>2 DEF Undeploy, DropsLock
    <2>2. /\ thread' \in [Actors -> Thread] /\ \A b \in Actors \ {a} : thread'[b] = thread[b]
          /\ \/ thread'[a] = Idle /\ connLock' = None
             \/ /\ thread'[a].at = "deploy" /\ thread'[a].mode = t.mode /\ thread'[a].ddl = t.ddl
                /\ t.ddl # Failed /\ connLock' = connLock
      <3>1. CASE t.ddl = Failed
        BY <1>0, <1>2, <3>1, EndsType DEF Undeploy, DropsLock
      <3>2. CASE t.ddl # Failed
        <4>1. Goto(a, "deploy") /\ connLock' = connLock
          BY <1>0, <3>2 DEF Undeploy
        <4>2. t.at \in Steps /\ "deploy" \in Steps
          BY <1>0 DEF Steps
        <4>3. /\ thread' \in [Actors -> Thread] /\ \A b \in Actors \ {a} : thread'[b] = thread[b]
              /\ thread'[a] = [t EXCEPT !.at = "deploy"]
          BY <1>0, <4>1, <4>2, GotoType
        <4>4. thread'[a].at = "deploy" /\ thread'[a].mode = t.mode /\ thread'[a].ddl = t.ddl
          BY <1>0, <4>2, <4>3, MovedThread
        <4>5. QED
          BY <3>2, <4>1, <4>3, <4>4
      <3>3. QED
        BY <3>1, <3>2
    <2>3. TypeOK'
      BY <1>0, <2>1, <2>2 DEF TypeOK
    <2>4. ThreadFine(a)'
      BY <1>0, <1>2, <2>1, <2>2 DEF ThreadFine, HoldsLoad, HoldsConn, Steps, Idle
    <2>5. ASSUME NEW b \in Actors \ {a}  PROVE ThreadFine(b)'
      <3>1. ThreadFine(b) /\ ~HoldsConn(b)
        BY <1>0, <1>2, Exclusive DEF HoldsConn
      <3>2. QED
        BY <2>1, <2>2, <3>1 DEF ThreadFine, HoldsLoad, HoldsConn, Free
    <2>6. QED
      BY <1>0, <2>1, <2>3, <2>4, <2>5 DEF LockInv, LoadThere, LoadFine, HasRow
  <1>3. QED
    BY <1>1, <1>2

LEMMA DeployLock ==
  ASSUME LockInv, NEW a \in Actors, Deploy(a)
  PROVE  LockInv'
  <1> USE DEF dataVars, vdbVars, lockVars, countVars
  <1> DEFINE t == thread[a]
  <1>0. /\ TypeOK /\ LoadThere /\ ThreadFine(a) /\ t.at = "deploy" /\ t \in Thread
        /\ \A b \in Actors : ThreadFine(b)
        /\ \A l \in Loads : LoadFine(l)
        /\ Ends(a) /\ DropsLock(a)
        /\ UNCHANGED <<dataVars, source, queue, greeted, countVars>>
    BY DEF LockInv, Deploy, TypeOK
  <1>1. /\ thread' \in [Actors -> Thread] /\ \A b \in Actors \ {a} : thread'[b] = thread[b]
        /\ thread'[a] = Idle
    BY <1>0, EndsType
  <1>2. t.id \in Id /\ t.ddl \in DDL
    BY <1>0, ThreadTypes DEF Steps
  <1>3. ThreadFine(a)'
    BY <1>1 DEF ThreadFine, HoldsLoad, HoldsConn, Idle, Steps
  <1>4. loadLock' \in {loadLock, None} /\ connLock' \in {connLock, None}
    BY <1>0 DEF DropsLock
  <1>5. CASE UNCHANGED vdbVars
    <2>1. TypeOK'
      BY <1>0, <1>1, <1>4, <1>5 DEF TypeOK
    <2>2. ASSUME NEW b \in Actors \ {a}  PROVE ThreadFine(b)'
      <3>1. ThreadFine(b) /\ (HoldsLoad(b) => loadLock' = loadLock) /\ (HoldsConn(b) => connLock' = connLock)
        BY <1>0, Exclusive DEF DropsLock, HoldsLoad, HoldsConn
      <3>2. QED
        BY <1>1, <1>5, <3>1 DEF ThreadFine, HoldsLoad, HoldsConn, Free
    <2>3. QED
      BY <1>0, <1>3, <1>5, <2>1, <2>2 DEF LockInv, LoadThere, LoadFine, HasRow
  <1>6. CASE source # None /\ t.ddl = None
    <2> DEFINE new == CHOOSE l \in Free : TRUE
    <2>1. new \in Loads /\ loads[new] = Unused
      BY <1>0, <1>6 DEF ThreadFine, HoldsLoad, Free
    <2>2. /\ loads' = [loads EXCEPT ![new] = [at |-> "loading", id |-> t.id, ddl |-> None]]
          /\ load' = new /\ connVdb' = connVdb
      BY <1>6, Zenon DEF Deploy
    <2> HIDE DEF new
    <2>3. [at |-> "loading", id |-> t.id, ddl |-> None] \in Load
      BY <1>2, DDLTypes DEF Load, LoadPC
    <2>4. TypeOK'
      BY <1>0, <1>1, <1>4, <2>1, <2>2, <2>3 DEF TypeOK
    <2>5. ASSUME NEW b \in Actors \ {a}  PROVE ThreadFine(b)'
      <3>1. ThreadFine(b) /\ ~HoldsLoad(b) /\ connLock' = connLock
        BY <1>0, <1>6, Exclusive DEF HoldsLoad, DropsLock
      <3>2. QED
        BY <1>1, <2>2, <3>1 DEF ThreadFine, HoldsLoad, HoldsConn
    <2>6. loads'[new] = [at |-> "loading", id |-> t.id, ddl |-> None]
          /\ \A l \in Loads \ {new} : loads'[l] = loads[l]
      BY <1>0, <2>1, <2>2 DEF TypeOK
    <2>7. ASSUME NEW l \in Loads  PROVE LoadFine(l)'
      BY <1>0, <2>6 DEF LoadFine, HasRow, LoadPC
    <2>8. LoadThere'
      BY <2>2, <2>6 DEF LoadThere
    <2>9. QED
      BY <1>3, <2>4, <2>5, <2>7, <2>8 DEF LockInv
  <1>7. CASE source # None /\ t.ddl # None
    <2>1. connVdb' = Shown(t) /\ UNCHANGED <<load, loads>> /\ loadLock' = loadLock
      BY <1>0, <1>7 DEF Deploy, DropsLock
    <2>2. Shown(t) \in Schema \cup {Empty}
      BY <1>0, <1>2, <1>7 DEF Shown, ThreadFine, DDL
    <2>3. TypeOK'
      BY <1>0, <1>1, <1>4, <2>1, <2>2 DEF TypeOK
    <2>4. ASSUME NEW b \in Actors \ {a}  PROVE ThreadFine(b)'
      <3>1. ThreadFine(b) /\ ~HoldsConn(b)
        BY <1>0, <1>7, Exclusive DEF HoldsConn
      <3>2. QED
        BY <1>1, <2>1, <3>1 DEF ThreadFine, HoldsLoad, HoldsConn, Free
    <2>5. QED
      BY <1>0, <1>3, <2>1, <2>3, <2>4 DEF LockInv, LoadThere, LoadFine, HasRow
  <1>8. QED
    BY <1>5, <1>6, <1>7, Zenon DEF Deploy

-----------------------------------------------------------------------------
(* The loads, the executor's removals, and the restart.                    *)

\* A load other than the one with the name moves on, or ends for good.
LEMMA ListenerLock ==
  ASSUME LockInv, TypeOK', NEW l \in Loads, loads[l].at \in LoadPC \ {"loading", "ended"},
         UNCHANGED <<load, connVdb, loadLock, connLock, thread>>,
         \A i \in Id : HasRow(i) => HasRow(i)',
         \A k \in Loads \ {l} :
           loads'[k] = loads[k] \/ (loads[k].at = "commit" /\ loads'[k] = [loads[k] EXCEPT !.at = "conflict"]),
         \/ loads'[l] = Unused
         \/ /\ loads'[l].at \in LoadPC \ {"loading"} /\ loads'[l].ddl = loads[l].ddl
            /\ loads'[l].at = "commit" => row' # None /\ row'.id = loads'[l].id
  PROVE  LockInv'
  <1>0. TypeOK /\ LoadThere /\ (\A b \in Actors : ThreadFine(b)) /\ \A k \in Loads : LoadFine(k)
    BY DEF LockInv
  <1>1. load # l
    BY <1>0, DDLTypes DEF LoadThere, LoadPC
  <1>2. ASSUME NEW k \in Loads, loads[k].at = "commit", loads'[k] = [loads[k] EXCEPT !.at = "conflict"]
        PROVE  loads'[k].at = "conflict" /\ loads'[k].ddl = loads[k].ddl
    BY <1>0, <1>2, MovedLoad DEF TypeOK, LoadPC
  <1>3. ASSUME NEW k \in Loads  PROVE LoadFine(k)'
    <2>1. LoadFine(k) /\ (loads[k].at = "commit" => loads[k].id \in Id)
      BY <1>0, LoadTypes DEF TypeOK, LoadPC
    <2>2. CASE k = l
      BY <1>0, <2>1, <2>2 DEF LoadFine, Unused, LoadPC, HasRow
    <2>3. CASE k # l
      BY <1>2, <2>1, <2>3 DEF LoadFine, LoadPC
    <2>4. QED
      BY <2>2, <2>3
  <1>4. Free \subseteq Free'
    BY <1>0, LoadTypes DEF Free, Unused, TypeOK, LoadPC
  <1>5. LoadThere' /\ (load # None => loads'[load] = loads[load])
    <2>1. load # None => load \in Loads \ {l} /\ loads[load].at \in {"loading", "ended"}
      BY <1>0, <1>1 DEF TypeOK, LoadThere
    <2>2. QED
      BY <2>1 DEF LoadThere
  <1>6. ASSUME NEW b \in Actors  PROVE ThreadFine(b)'
    BY <1>0, <1>4, <1>5 DEF ThreadFine, HoldsLoad, HoldsConn
  <1>7. QED
    BY <1>3, <1>5, <1>6 DEF LockInv

LEMMA RemovesLock ==
  ASSUME LockInv, NEW l \in Loads, LoadEnds(l) \/ ListenerRemoves(l)
  PROVE  LockInv'
  <1> USE DEF dataVars, vdbVars, lockVars, countVars
  <1>0. /\ TypeOK /\ LoadThere /\ (\A b \in Actors : ThreadFine(b)) /\ \A k \in Loads : LoadFine(k)
        /\ loads[l] \in Load /\ loads[l].at \in {"loading", "ended"} /\ loads[l].at \in LoadPC
    BY DEF LockInv, TypeOK, LoadEnds, ListenerRemoves, LoadPC
  <1>1. CASE LoadEnds(l)
    <2>1. PICK ddl \in DDL \ {None} : loads' = [loads EXCEPT ![l].at = "ended", ![l].ddl = ddl]
      <3>1. source # None => [of |-> source, version |-> version] \in Schema
        BY <1>0 DEF TypeOK, Schema
      <3>2. QED
        BY <1>1, <3>1, DDLTypes DEF LoadEnds
    <2>2. loads' = [loads EXCEPT ![l] = [loads[l] EXCEPT !.at = "ended", !.ddl = ddl]]
      BY <1>0, <2>1 DEF TypeOK
    <2>3. /\ loads' \in [Loads -> Load] /\ loads'[l].at = "ended" /\ loads'[l].ddl = ddl
          /\ \A k \in Loads \ {l} : loads'[k] = loads[k]
      BY <1>0, <2>2, EndedLoad DEF TypeOK
    <2>4. UNCHANGED <<dataVars, source, load, connVdb, lockVars, thread, queue, greeted>>
          /\ events' \in 0..MaxEvents /\ failures' \subseteq MayFail
      BY <1>0, <1>1, CountsType DEF LoadEnds
    <2>5. TypeOK'
      BY <1>0, <2>3, <2>4 DEF TypeOK
    <2>6. loads[l].at = "loading" /\ loads[l].ddl # Failed
      BY <1>0, <1>1, DDLTypes DEF LoadEnds, LoadFine
    <2>7. Free \subseteq Free'
      BY <2>3, <2>6 DEF Free, Unused
    <2>8. ASSUME NEW b \in Actors  PROVE ThreadFine(b)'
      <3>1. HoldsLoad(b) => load = None \/ (load \in Loads \ {l})
        BY <1>0, <2>6 DEF ThreadFine, TypeOK
      <3>2. QED
        BY <1>0, <2>3, <2>4, <2>7, <3>1 DEF ThreadFine, HoldsLoad, HoldsConn
    <2>9. ASSUME NEW k \in Loads  PROVE LoadFine(k)'
      BY <1>0, <2>1, <2>3, <2>4 DEF LoadFine, HasRow
    <2>10. LoadThere'
      BY <1>0, <2>3, <2>4 DEF LoadThere, TypeOK
    <2>11. QED
      BY <2>5, <2>8, <2>9, <2>10 DEF LockInv
  <1>2. CASE ListenerRemoves(l)
    <2>1. /\ UNCHANGED <<dataVars, source, connVdb, lockVars, thread, queue, greeted, countVars>>
          /\ loads[l].at = "ended"
          /\ \A b \in Actors : ~HoldsLoad(b)
      BY <1>0, <1>2, ActorTypes DEF ListenerRemoves, ThreadFine
    <2>2. CASE loads[l].ddl # Failed /\ load # l
      <3>1. load' = load /\ loads' = [loads EXCEPT ![l] = Unused]
        BY <1>2, <2>2 DEF ListenerRemoves
      <3>2. TypeOK'
        BY <1>0, <2>1, <3>1, UnusedLoad DEF TypeOK
      <3>3. \A k \in Loads : loads'[k] = IF k = l THEN Unused ELSE loads[k]
        BY <1>0, <3>1 DEF TypeOK
      <3>4. LoadThere' /\ \A k \in Loads : LoadFine(k)'
        BY <1>0, <2>1, <2>2, <3>1, <3>3 DEF LoadThere, LoadFine, Unused, LoadPC, HasRow, TypeOK
      <3>5. \A b \in Actors : ThreadFine(b)'
        BY <1>0, <2>1 DEF ThreadFine, HoldsLoad, HoldsConn
      <3>6. QED
        BY <3>2, <3>4, <3>5 DEF LockInv
    <2>3. CASE ~(loads[l].ddl # Failed /\ load # l)
      <3>1. load' = None /\ loads' = [Undeployed EXCEPT ![l].at = "read"]
        BY <1>2, <2>3 DEF ListenerRemoves
      <3>2. Undeployed \in [Loads -> Load] /\ Undeployed[l] = loads[l]
        BY <1>0, <2>1, UndeployedType
      <3>3. loads' = [Undeployed EXCEPT ![l] = [loads[l] EXCEPT !.at = "read"]]
        BY <3>1, <3>2
      <3>4. "read" \in LoadPC
        BY DEF LoadPC
      <3>5. /\ loads' \in [Loads -> Load] /\ loads'[l].at = "read" /\ loads'[l].ddl = loads[l].ddl
            /\ \A k \in Loads \ {l} : loads'[k] = Undeployed[k]
        BY <1>0, <3>2, <3>3, <3>4, MovedLoad
      <3>6. \A k \in Loads \ {l} : loads'[k] = loads[k] \/ loads'[k] = Unused
        BY <1>0, <3>5, UndeployedType
      <3>7. TypeOK'
        BY <1>0, <2>1, <3>1, <3>5 DEF TypeOK
      <3>8. ASSUME NEW k \in Loads  PROVE LoadFine(k)'
        <4>1. LoadFine(k) /\ (k = l => loads[k].ddl # None)
          BY <1>0, <2>1 DEF LoadFine, LoadPC
        <4>2. QED
          BY <2>1, <3>5, <3>6, <4>1 DEF LoadFine, Unused, LoadPC, HasRow
      <3>9. \A b \in Actors : ThreadFine(b)'
        BY <1>0, <2>1 DEF ThreadFine, HoldsLoad, HoldsConn
      <3>10. QED
        BY <3>1, <3>7, <3>8, <3>9 DEF LockInv, LoadThere
    <2>4. QED
      BY <2>2, <2>3
  <1>3. QED
    BY <1>1, <1>2

LEMMA ListensLock ==
  ASSUME LockInv, NEW l \in Loads,
         ListenerReads(l) \/ ListenerCommits(l) \/ ListenerConflicts(l) \/ ListenerSubmits(l)
  PROVE  LockInv'
  <1> USE DEF dataVars, vdbVars, lockVars, countVars
  <1>0. /\ TypeOK /\ loads[l] \in Load /\ loads[l].at \in LoadPC /\ loads[l].at \in LoadPC \ {"loading", "ended"}
        /\ LoadFine(l)
        /\ UNCHANGED <<version, current, source, load, connVdb, lockVars, thread, greeted, countVars>>
    BY DEF LockInv, TypeOK, ListenerReads, ListenerCommits, ListenerConflicts, ListenerSubmits, LoadPC
  <1>1. CASE row' = row /\ loads' = [loads EXCEPT ![l] = Unused]
             /\ queue' \in {queue, Append(queue, "replace")}
    <2>1. queue' \in Seq({"remove", "replace"})
      <3>1. queue \in Seq({"remove", "replace"}) /\ "replace" \in {"remove", "replace"}
        BY <1>0 DEF TypeOK
      <3>2. Append(queue, "replace") \in Seq({"remove", "replace"})
        BY <3>1, AppendProperties
      <3>3. QED
        BY <1>1, <3>1, <3>2
    <2>2. TypeOK'
      BY <1>0, <1>1, <2>1, UnusedLoad DEF TypeOK
    <2>3. loads'[l] = Unused /\ \A k \in Loads \ {l} : loads'[k] = loads[k]
      BY <1>0, <1>1 DEF TypeOK
    <2>4. \A i \in Id : HasRow(i) => HasRow(i)'
      BY <1>1 DEF HasRow
    <2>5. QED
      BY <1>0, <1>1, <2>2, <2>3, <2>4, ListenerLock
  <1>2. CASE ListenerReads(l) /\ HasRow(loads[l].id) /\ loads' = [loads EXCEPT ![l].at = "commit"]
    <2>1. loads' = [loads EXCEPT ![l] = [loads[l] EXCEPT !.at = "commit"]] /\ "commit" \in LoadPC
      BY <1>0, <1>2 DEF TypeOK, LoadPC
    <2>2. /\ loads' \in [Loads -> Load] /\ loads'[l].at = "commit" /\ loads'[l].ddl = loads[l].ddl
          /\ loads'[l].id = loads[l].id /\ \A k \in Loads \ {l} : loads'[k] = loads[k]
      BY <1>0, <2>1, MovedLoad DEF TypeOK
    <2>3. row' = row /\ queue' = queue
      BY <1>2 DEF ListenerReads
    <2>4. TypeOK'
      BY <1>0, <2>2, <2>3 DEF TypeOK
    <2>5. loads'[l].at \in LoadPC \ {"loading"} /\ row' # None /\ row'.id = loads'[l].id
          /\ \A i \in Id : HasRow(i) => HasRow(i)'
      BY <1>2, <2>1, <2>2, <2>3 DEF HasRow
    <2>6. QED
      BY <1>0, <2>2, <2>4, <2>5, ListenerLock
  <1>3. CASE ListenerCommits(l)
    <2>1. /\ row' = [row EXCEPT !.ddl = loads[l].ddl] /\ queue' = queue
          /\ loads' = [Conflicts(Loads \ {l}) EXCEPT ![l].at = "submit"]
          /\ row # None /\ row.id = loads[l].id
      BY <1>0, <1>3 DEF ListenerCommits, LoadFine, HasRow
    <2>2. row \in [id : Id, ddl : DDL] /\ loads[l].ddl \in DDL
      BY <1>0, <2>1, LoadTypes DEF TypeOK
    <2>3. row' \in [id : Id, ddl : DDL] /\ row'.id = row.id
      BY <2>1, <2>2
    <2>4. Conflicts(Loads \ {l}) \in [Loads -> Load] /\ Conflicts(Loads \ {l})[l] = loads[l]
      BY <1>0, ConflictsType
    <2>5. loads' = [Conflicts(Loads \ {l}) EXCEPT ![l] = [loads[l] EXCEPT !.at = "submit"]]
          /\ "submit" \in LoadPC
      BY <2>1, <2>4 DEF LoadPC
    <2>6. /\ loads' \in [Loads -> Load] /\ loads'[l].at = "submit" /\ loads'[l].ddl = loads[l].ddl
          /\ \A k \in Loads \ {l} : loads'[k] = Conflicts(Loads \ {l})[k]
      BY <1>0, <2>4, <2>5, MovedLoad
    <2>7. \A k \in Loads \ {l} : loads'[k] = loads[k]
            \/ (loads[k].at = "commit" /\ loads'[k] = [loads[k] EXCEPT !.at = "conflict"])
      BY <1>0, <2>6, ConflictsType
    <2>8. TypeOK'
      BY <1>0, <2>1, <2>3, <2>6 DEF TypeOK
    <2>9. loads'[l].at \in LoadPC \ {"loading"} /\ \A i \in Id : HasRow(i) => HasRow(i)'
      BY <2>3, <2>5, <2>6, DDLTypes DEF HasRow
    <2>10. QED
      BY <1>0, <2>6, <2>7, <2>8, <2>9, ListenerLock
  <1>4. QED
    BY <1>1, <1>2, <1>3, Zenon DEF ListenerReads, ListenerConflicts, ListenerSubmits

LEMMA GoneLock ==
  ASSUME LockInv, DeleteConnection \/ TaskRemove \/ Restart
  PROVE  LockInv'
  <1> USE DEF dataVars, vdbVars, lockVars, countVars
  <1>0. TypeOK /\ LoadThere /\ (\A b \in Actors : ThreadFine(b)) /\ \A k \in Loads : LoadFine(k)
    BY DEF LockInv
  <1>1. CASE DeleteConnection
    <2>1. /\ row # None /\ current < MaxId /\ row' = None /\ loads' = Conflicts(Loads)
          /\ current' = current + 1 /\ queue' = Append(queue, "remove")
          /\ Starts(Executor, "unregister", None, row.id)
          /\ UNCHANGED <<version, source, load, connVdb, lockVars, greeted, countVars>>
      BY <1>1 DEF DeleteConnection
    <2>2. row.id \in Id /\ current' \in Id
      BY <1>0, <2>1, IdTypes DEF TypeOK
    <2>3. [at |-> "unregister", mode |-> None, id |-> row.id, ddl |-> None] \in Thread
      BY <2>2 DEF Thread
    <2>4. /\ thread' \in [Actors -> Thread] /\ thread'[Executor].at = "unregister"
          /\ \A b \in Actors \ {Executor} : thread'[b] = thread[b]
      BY <1>0, <2>1, <2>3, ActorTypes DEF Starts, TypeOK
    <2>5. loads' \in [Loads -> Load] /\ \A k \in Loads :
            loads'[k] = IF loads[k].at = "commit" THEN [loads[k] EXCEPT !.at = "conflict"] ELSE loads[k]
      BY <1>0, <2>1, ConflictsType
    <2>6. ASSUME NEW k \in Loads, loads[k].at = "commit"
          PROVE  loads'[k].at = "conflict" /\ loads'[k].ddl = loads[k].ddl
      <3>1. loads[k] \in Load /\ loads[k].at \in LoadPC /\ "conflict" \in LoadPC
        BY <1>0, <2>6 DEF TypeOK, LoadPC
      <3>2. loads'[k] = [loads[k] EXCEPT !.at = "conflict"]
        BY <2>5, <2>6
      <3>3. QED
        BY <3>1, <3>2, MovedLoad
    <2>7. queue' \in Seq({"remove", "replace"})
      BY <1>0, <2>1 DEF TypeOK
    <2>8. TypeOK'
      BY <1>0, <2>1, <2>2, <2>4, <2>5, <2>7 DEF TypeOK
    <2>9. ASSUME NEW k \in Loads  PROVE LoadFine(k)'
      BY <1>0, <2>5, <2>6 DEF LoadFine, LoadPC
    <2>10. LoadThere' /\ (load # None => loads'[load] = loads[load])
      BY <1>0, <2>1, <2>5 DEF LoadThere, TypeOK
    <2>11. Free \subseteq Free'
      BY <2>5 DEF Free, Unused
    <2>12. ASSUME NEW b \in Actors  PROVE ThreadFine(b)'
      BY <1>0, <2>1, <2>4, <2>10, <2>11, ActorTypes DEF ThreadFine, HoldsLoad, HoldsConn, Steps
    <2>13. QED
      BY <2>8, <2>9, <2>10, <2>12 DEF LockInv
  <1>2. CASE TaskRemove
    <2>1. queue' \in Seq({"remove", "replace"})
      BY <1>0, <1>2 DEF TaskRemove, TypeOK
    <2>2. TypeOK'
      BY <1>0, <1>2, <2>1 DEF TaskRemove, TypeOK
    <2>3. \A b \in Actors : ThreadFine(b)'
      BY <1>0, <1>2 DEF TaskRemove, ThreadFine, HoldsLoad, HoldsConn, Free
    <2>4. QED
      BY <1>0, <1>2, <2>2, <2>3 DEF TaskRemove, LockInv, LoadThere, LoadFine, HasRow
  <1>3. CASE Restart
    <2>1. /\ source' = None /\ load' = None /\ loads' = [l \in Loads |-> Unused] /\ connVdb' = None
          /\ loadLock' = None /\ connLock' = None
          /\ thread' = [a \in Actors |-> Idle] /\ queue' = <<>> /\ greeted' = FALSE
          /\ UNCHANGED dataVars
      BY <1>3 DEF Restart
    <2>2. events' \in 0..MaxEvents /\ failures' \subseteq MayFail
      BY <1>0, <1>3, CountsType DEF Restart
    <2>3. TypeOK'
      <3>1. thread' \in [Actors -> Thread] /\ loads' \in [Loads -> Load]
        BY <2>1, UnusedLoad DEF Thread
      <3>2. greeted' \in BOOLEAN
        BY <2>1
      <3>3. QED
        BY <1>0, <2>1, <2>2, <3>1, <3>2 DEF TypeOK
    <2>4. QED
      BY <2>1, <2>3 DEF LockInv, LoadThere, LoadFine, ThreadFine, HoldsLoad, HoldsConn, Unused,
                        LoadPC, Idle, Steps
  <1>4. QED
    BY <1>1, <1>2, <1>3

LEMMA NextLock == LockInv /\ [Next]_vars => LockInv'
  <1> SUFFICES ASSUME LockInv, [Next]_vars  PROVE LockInv'
    OBVIOUS
  <1>1. CASE UNCHANGED vars
    BY <1>1 DEF vars, dataVars, vdbVars, lockVars, countVars, LockInv, TypeOK, LoadThere, ThreadFine,
                LoadFine, HoldsLoad, HoldsConn, Free, HasRow
  <1>2. ASSUME NEW a \in Actors, Deploying(a)  PROVE LockInv'
    BY <1>2, ReadLock, CheckLock, UndeployLock, DeployLock DEF Deploying
  <1>3. ASSUME NEW l \in Loads, Loading(l)  PROVE LockInv'
    BY <1>3, RemovesLock, ListensLock DEF Loading
  <1>4. QED
    BY <1>1, <1>2, <1>3, StartLock, GoneLock DEF Next

\* Every variable has its type, in every reachable state of every instance.
THEOREM SourceTypeCorrect == Spec => []TypeOK
  <1>1. LockInv => TypeOK
    BY DEF LockInv
  <1>2. QED
    BY InitLock, NextLock, <1>1, PTL DEF Spec

\* No request undeploys a load vdb that is loading, in any instance: who undeploys
\* one holds the lock, and has found it missing or failed.
THEOREM LoadKeptCorrect == Spec => []LoadKept
  <1>1. ASSUME LockInv, NEW a \in Actors, thread[a].at = "undeploy", thread[a].ddl = None
        PROVE  load = None \/ loads[load].at # "loading"
    <2>1. load # None => load \in Loads /\ loads[load].ddl = Failed
      BY <1>1 DEF LockInv, TypeOK, ThreadFine, HoldsLoad
    <2>2. QED
      BY <1>1, <2>1, DDLTypes DEF LockInv, LoadFine
  <1>2. LockInv => LoadKept
    BY <1>1 DEF LoadKept
  <1>3. QED
    BY InitLock, NextLock, <1>2, PTL DEF Spec

-----------------------------------------------------------------------------
(* What a request does to the connection vdb.                              *)

LEMMA RequestKeeps ==
  ASSUME LockInv, connVdb # None, connVdb' # connVdb, [Next]_vars
  PROVE  events' # events \/ \A r \in Requests : thread'[r] = thread[r]
  <1> USE DEF dataVars, vdbVars, lockVars, countVars
  <1>0. TypeOK
    BY DEF LockInv
  <1>1. CASE Restart
    BY <1>0, <1>1 DEF Restart, Counts, TypeOK
  <1>2. CASE TaskRemove
    BY <1>2 DEF TaskRemove
  <1>3. ASSUME NEW a \in Actors, Undeploy(a) \/ Deploy(a)
        PROVE  \A r \in Requests : thread'[r] = thread[r]
    <2>1. HoldsConn(a)
      BY <1>3 DEF Undeploy, Deploy, HoldsConn
    <2>2. a \notin Requests
      BY <2>1 DEF LockInv, ThreadFine
    <2>3. \A r \in Requests : thread'[r] = thread[r]
      BY <1>0, <1>3, <2>2, ActorTypes DEF Undeploy, Deploy, Goto, Ends, TypeOK
    <2>4. QED
      BY <2>3
  <1>4. CASE UNCHANGED connVdb
    BY <1>4
  <1>5. QED
    BY <1>1, <1>2, <1>3, <1>4
       DEF Next, Deploying, ReadRow, CheckEnds, CheckPasses, Loading, LoadEnds, ListenerRemoves,
           ListenerReads, ListenerCommits, ListenerConflicts, ListenerSubmits, AskRefresh, AskSchema,
           AddConnection, GreetingMisses, UpdateConnection, Register, DeleteConnection, Unregister,
           TaskReplace, SchemaChanges, vars

\* An active connection vdb is undeployed or replaced by the executor or by a
\* restart, in every step of every instance, whatever requests do at the time.
THEOREM ReplacedByExecutorCorrect == Spec => ReplacedByExecutor
  <1>1. LockInv /\ [Next]_vars =>
          [connVdb # None /\ connVdb' # connVdb =>
             events' # events \/ \A r \in Requests : thread'[r] = thread[r]]_vars
    BY RequestKeeps
  <1>2. QED
    BY InitLock, NextLock, <1>1, PTL DEF Spec, ReplacedByExecutor

-----------------------------------------------------------------------------
(* Whose schema is where.                                                  *)

\* The connection whose data source may have the name: the one before, until its
\* data source is gone.
Holder == IF thread[Executor].at = "unregister" THEN current - 1 ELSE current

OwnThread(t) == /\ t.at # "idle" => t.id <= Holder
                /\ t.ddl \in Schema => t.ddl.of = t.id

\* A load of a connection that is gone may read the schema of the next one; its
\* row is gone too.
OwnLoad(d) == /\ d.at # "unused" => d.id <= Holder
              /\ d.ddl \in Schema => d.ddl.of = d.id \/ d.id < current

OwnInv == /\ LockInv /\ OwnSchema /\ NoLeftover
          /\ row # None => row.id = current
          /\ thread[Executor].at = "unregister" => row = None /\ current > 1
          /\ source # None => source = Holder
          /\ \A a \in Actors : OwnThread(thread[a])
          /\ \A l \in Loads : OwnLoad(loads[l])

LEMMA HolderType == TypeOK => /\ Holder \in Int /\ Holder <= current /\ current \in Nat
                              /\ Id \subseteq Nat
  BY SourceVdbAssumption DEF TypeOK, Holder, Id

LEMMA InitOwn == Init => OwnInv
  <1> SUFFICES ASSUME Init  PROVE OwnInv
    OBVIOUS
  <1>1. LockInv
    BY InitLock
  <1>2. \A a \in Actors : thread[a].at = "idle" /\ thread[a].ddl = None
    BY DEF Init, Idle
  <1>3. \A l \in Loads : loads[l].at = "unused" /\ loads[l].ddl = None
    BY DEF Init, Unused
  <1>4. row = None /\ source = None /\ connVdb = None
    BY DEF Init
  <1>5. QED
    BY <1>1, <1>2, <1>3, <1>4, DDLTypes, ActorTypes
       DEF OwnInv, OwnSchema, NoLeftover, OwnThread, OwnLoad

\* What a step may do to the ids and the DDLs.
LEMMA OwnStep ==
  ASSUME OwnInv, LockInv', NoLeftover', Holder <= Holder', current <= current',
         thread'[Executor].at = "unregister" => row' = None /\ current' > 1,
         \/ row' = None
         \/ row' = row /\ current' = current
         \/ row'.id = current' /\ (row'.ddl \in Schema => row'.ddl.of = row'.id),
         source' # None => source' = Holder',
         \A a \in Actors :
           \/ thread'[a] = thread[a] \/ thread'[a] = Idle
           \/ thread'[a].id <= Holder' /\ (thread'[a].ddl \in Schema => thread'[a].ddl.of = thread'[a].id),
         \A l \in Loads :
           \/ loads'[l] = loads[l] \/ loads'[l] = Unused
           \/ /\ loads[l].at # "unused"
              /\ loads'[l].id = loads[l].id /\ loads'[l].ddl = loads[l].ddl
           \/ /\ loads'[l].id <= Holder'
              /\ loads'[l].ddl \in Schema => loads'[l].ddl.of = loads'[l].id \/ loads'[l].id < current'
  PROVE  OwnInv'
  <1>0. /\ TypeOK /\ TypeOK' /\ Holder \in Int /\ Holder' \in Int /\ current \in Nat /\ current' \in Nat
        /\ Id \subseteq Nat
    BY SourceVdbAssumption DEF OwnInv, LockInv, TypeOK, Holder, Id
  <1>1. ASSUME NEW a \in Actors  PROVE OwnThread(thread[a])'
    <2>1. OwnThread(thread[a]) /\ (thread[a].at # "idle" => thread[a].id \in Nat)
      BY <1>0, ThreadTypes DEF OwnInv, TypeOK, Steps
    <2>2. CASE thread'[a] = Idle
      BY <2>2, DDLTypes DEF OwnThread, Idle
    <2>3. CASE thread'[a] = thread[a]
      BY <1>0, <2>1, <2>3 DEF OwnThread
    <2>4. CASE thread'[a] # thread[a] /\ thread'[a] # Idle
      BY <2>4 DEF OwnThread
    <2>5. QED
      BY <2>2, <2>3, <2>4
  <1>2. ASSUME NEW l \in Loads  PROVE OwnLoad(loads[l])'
    <2>1. OwnLoad(loads[l]) /\ (loads[l].at # "unused" => loads[l].id \in Nat)
          /\ (loads[l].at = "unused" => loads[l].ddl \notin Schema)
      BY <1>0, LoadTypes, DDLTypes DEF OwnInv, TypeOK, LoadPC
    <2>2. CASE loads'[l] = Unused
      BY <2>2, DDLTypes DEF OwnLoad, Unused
    <2>3. CASE loads'[l] = loads[l]
      BY <1>0, <2>1, <2>3 DEF OwnLoad
    <2>4. CASE loads[l].at # "unused" /\ loads'[l].id = loads[l].id /\ loads'[l].ddl = loads[l].ddl
      BY <1>0, <2>1, <2>4 DEF OwnLoad
    <2>5. CASE /\ loads'[l].id <= Holder'
               /\ loads'[l].ddl \in Schema => loads'[l].ddl.of = loads'[l].id \/ loads'[l].id < current'
      BY <2>5 DEF OwnLoad
    <2>6. QED
      BY <2>2, <2>3, <2>4, <2>5
  <1>3. OwnSchema' /\ (row' # None => row'.id = current')
    BY DEF OwnInv, OwnSchema
  <1>4. QED
    BY <1>1, <1>2, <1>3 DEF OwnInv

\* Steps that do not show a schema anew.
LEMMA LeftoverStep ==
  ASSUME OwnInv, connVdb' \in {connVdb, None, Empty},
         Queued("remove") => Queued("remove")' \/ connVdb' = None,
         \A i \in Id : HasRow(i) => HasRow(i)' \/ Queued("remove")'
  PROVE  NoLeftover'
  <1>1. connVdb \in Schema => connVdb.of \in Id
    BY DEF Schema
  <1>2. QED
    BY <1>1, DDLTypes DEF OwnInv, NoLeftover

LEMMA QueuedAppend ==
  ASSUME TypeOK, NEW task \in {"remove", "replace"}, queue' = Append(queue, task)
  PROVE  (Queued("remove") => Queued("remove")') /\ (task = "remove" => Queued("remove")')
  <1>1. /\ Len(queue') = Len(queue) + 1 /\ queue'[Len(queue) + 1] = task /\ Len(queue) \in Nat
        /\ \A i \in 1..Len(queue) : queue'[i] = queue[i]
    BY AppendProperties, LenProperties DEF TypeOK
  <1>2. QED
    BY <1>1 DEF Queued

LEMMA QueuedTail ==
  ASSUME TypeOK, queue # <<>>, Head(queue) # "remove", queue' = Tail(queue), Queued("remove")
  PROVE  Queued("remove")'
  <1>1. /\ Len(queue) \in Nat /\ Len(queue) > 0 /\ Len(queue') = Len(queue) - 1
        /\ \A i \in 1..Len(queue') : queue'[i] = queue[i + 1]
        /\ Head(queue) = queue[1]
    BY HeadTailProperties, LenProperties, EmptySeq DEF TypeOK
  <1>2. PICK i \in 1..Len(queue) : queue[i] = "remove"
    BY DEF Queued
  <1>3. i # 1 /\ i - 1 \in 1..Len(queue') /\ queue'[i - 1] = "remove"
    BY <1>1, <1>2
  <1>4. QED
    BY <1>3 DEF Queued

LEMMA AskOwn ==
  ASSUME OwnInv, LockInv',
         \/ \E r \in Requests : AskRefresh(r) \/ AskSchema(r)
         \/ SchemaChanges
  PROVE  OwnInv'
  <1> USE DEF dataVars, vdbVars, lockVars, countVars
  <1>0. TypeOK /\ Holder \in Int /\ current \in Nat
    BY HolderType DEF OwnInv, LockInv
  <1>1. /\ UNCHANGED <<current, row, source, vdbVars, lockVars, queue>>
        /\ thread'[Executor].at = thread[Executor].at
        /\ \A a \in Actors : thread'[a] = thread[a]
             \/ (thread'[a].id = source /\ source = Holder /\ thread'[a].ddl = None)
    <2>1. ASSUME NEW r \in Requests, AskRefresh(r) \/ AskSchema(r)
          PROVE  /\ thread'[Executor].at = thread[Executor].at
                 /\ \A a \in Actors : thread'[a] = thread[a]
                      \/ (thread'[a].id = source /\ source = Holder /\ thread'[a].ddl = None)
      <3>1. PICK mode \in {"refresh", "reuse"} : Starts(r, "row", mode, source)
        BY <2>1 DEF AskRefresh, AskSchema
      <3>2. mode \in Mode /\ source \in Id /\ source = Holder /\ r \in Actors /\ r # Executor
        BY <1>0, <2>1, ActorTypes DEF AskRefresh, AskSchema, TypeOK, OwnInv, Mode
      <3>3. /\ thread'[r].id = source /\ thread'[r].ddl = None
            /\ \A b \in Actors \ {r} : thread'[b] = thread[b]
        BY <1>0, <3>1, <3>2, StartsType
      <3>4. QED
        BY <3>2, <3>3, ActorTypes
    <2>2. CASE SchemaChanges
      BY <2>2 DEF SchemaChanges
    <2>3. QED
      BY <2>1, <2>2 DEF AskRefresh, AskSchema, SchemaChanges
  <1>2. Holder' = Holder
    BY <1>1 DEF Holder
  <1>3. NoLeftover'
    BY <1>1, LeftoverStep DEF Queued, HasRow
  <1>4. QED
    BY <1>0, <1>1, <1>2, <1>3, DDLTypes, OwnStep DEF OwnInv

LEMMA ExecOwn ==
  ASSUME OwnInv, LockInv',
         AddConnection \/ GreetingMisses \/ UpdateConnection \/ Register \/ Unregister \/ TaskReplace
  PROVE  OwnInv'
  <1> USE DEF dataVars, vdbVars, lockVars, countVars
  <1>0. TypeOK /\ Holder \in Int /\ current \in Nat /\ current \in Id
    BY HolderType DEF OwnInv, LockInv, TypeOK
  <1>1. UNCHANGED <<current, connVdb, load, loads>>
    BY DEF AddConnection, GreetingMisses, UpdateConnection, Register, Unregister, TaskReplace
  <1>2. CASE Unregister
    <2>1. /\ thread'[Executor] = Idle /\ \A b \in Actors \ {Executor} : thread'[b] = thread[b]
          /\ thread[Executor].at = "unregister"
          /\ source' = None /\ row' = row /\ queue' = queue
      BY <1>0, <1>2, EndsType, ActorTypes DEF Unregister
    <2>2. Holder' = current /\ Holder = current - 1 /\ thread'[Executor].at # "unregister"
      BY <1>1, <2>1 DEF Holder, Idle
    <2>3. NoLeftover'
      BY <1>1, <2>1, LeftoverStep DEF Queued, HasRow
    <2>4. QED
      BY <1>0, <1>1, <2>1, <2>2, <2>3, OwnStep
  <1>3. CASE AddConnection \/ GreetingMisses \/ UpdateConnection \/ Register \/ TaskReplace
    <2>1. thread[Executor].at # "unregister" /\ Holder = current
      BY <1>3 DEF AddConnection, GreetingMisses, UpdateConnection, Register, TaskReplace, Holder, Idle
    <2>2. source' \in {source, None, current} /\ row' \in {row, Named(current)}
      BY <1>3 DEF AddConnection, GreetingMisses, UpdateConnection, Register, TaskReplace, CreateSource,
                  CreateSourceFails
    <2>3. /\ row' = row \/ (row = None /\ row' = [id |-> current, ddl |-> None])
          /\ Queued("remove") => Queued("remove")'
      <3>1. queue' = queue \/ (queue # <<>> /\ Head(queue) # "remove" /\ queue' = Tail(queue))
        BY <1>3 DEF AddConnection, GreetingMisses, UpdateConnection, Register, TaskReplace
      <3>2. QED
        BY <1>0, <2>2, <3>1, NamedType, QueuedTail DEF Queued
    <2>4. /\ \A b \in Actors \ {Executor} : thread'[b] = thread[b]
          /\ \/ thread'[Executor] = thread[Executor] \/ thread'[Executor] = Idle
             \/ /\ thread'[Executor].at # "unregister"
                /\ thread'[Executor].id = current /\ thread'[Executor].ddl = None
      <3>1. \/ Ends(Executor) \/ thread' = thread
            \/ \E at \in {"row", "register"}, mode \in Mode : Starts(Executor, at, mode, current)
        BY <1>3, <2>1 DEF AddConnection, GreetingMisses, UpdateConnection, Register, TaskReplace, CreateSource,
                          CreateSourceFails, Mode, OwnInv
      <3>2. CASE Ends(Executor)
        BY <1>0, <3>2, EndsType, ActorTypes
      <3>3. ASSUME NEW at \in {"row", "register"}, NEW mode \in Mode, Starts(Executor, at, mode, current)
            PROVE  /\ \A b \in Actors \ {Executor} : thread'[b] = thread[b]
                   /\ thread'[Executor].at # "unregister"
                   /\ thread'[Executor].id = current /\ thread'[Executor].ddl = None
        BY <1>0, <3>3, StartsType, ActorTypes
      <3>4. QED
        BY <3>1, <3>2, <3>3
    <2>5. thread'[Executor].at # "unregister" /\ Holder' = current
      BY <1>1, <2>1, <2>4 DEF Holder, Idle
    <2>6. NoLeftover'
      <3>1. \A i \in Id : HasRow(i) => HasRow(i)'
        BY <2>3 DEF HasRow
      <3>2. QED
        BY <1>1, <2>3, <3>1, LeftoverStep
    <2>7. source' # None => source' = Holder'
      BY <2>1, <2>2, <2>5 DEF OwnInv
    <2>8. ASSUME NEW a \in Actors
          PROVE  \/ thread'[a] = thread[a] \/ thread'[a] = Idle
                 \/ thread'[a].id <= Holder'
                    /\ (thread'[a].ddl \in Schema => thread'[a].ddl.of = thread'[a].id)
      BY <1>0, <2>4, <2>5, DDLTypes
    <2>9. \/ row' = None \/ (row' = row /\ current' = current)
          \/ row'.id = current' /\ (row'.ddl \in Schema => row'.ddl.of = row'.id)
      BY <1>1, <2>3, DDLTypes
    <2>10. Holder <= Holder' /\ current <= current'
      BY <1>0, <1>1, <2>1, <2>5
    <2>11. QED
      BY <1>1, <2>5, <2>6, <2>7, <2>8, <2>9, <2>10, OwnStep
  <1>4. QED
    BY <1>2, <1>3

LEMMA DeployingOwn ==
  ASSUME OwnInv, LockInv', NEW a \in Actors, Deploying(a)
  PROVE  OwnInv'
  <1> USE DEF dataVars, vdbVars, lockVars, countVars
  <1> DEFINE t == thread[a]
  <1>0. /\ LockInv /\ TypeOK /\ Holder \in Int /\ Holder <= current /\ current \in Nat
        /\ t \in Thread /\ t.at \in Steps /\ t.id <= Holder /\ t.id \in Id /\ t.ddl \in DDL
        /\ t.ddl \in Schema => t.ddl.of = t.id
    <2>1. TypeOK /\ LockInv /\ t.at \in Steps /\ OwnThread(t)
      BY DEF OwnInv, LockInv, Deploying, ReadRow, CheckEnds, CheckPasses, Undeploy, Deploy, Steps
    <2>2. t \in Thread
      BY <2>1 DEF TypeOK
    <2>3. QED
      BY <2>1, <2>2, HolderType, ThreadTypes DEF OwnThread, Steps
  <1>1. UNCHANGED <<current, row, source, queue>>
    BY DEF Deploying, ReadRow, CheckEnds, CheckPasses, Undeploy, Deploy
  <1>2. /\ \A b \in Actors \ {a} : thread'[b] = thread[b]
        /\ \/ thread'[a] = Idle
           \/ /\ thread'[a].at \in Steps /\ thread'[a].id = t.id
              /\ \/ thread'[a].ddl \in {t.ddl, None}
                 \/ HasRow(t.id) /\ thread'[a].ddl = row.ddl
    <2>1. CASE Ends(a)
      BY <1>0, <2>1, EndsType
    <2>2. ASSUME NEW at \in {"undeploy", "deploy"}, Goto(a, at)
          PROVE  /\ \A b \in Actors \ {a} : thread'[b] = thread[b]
                 /\ thread'[a].at \in Steps /\ thread'[a].id = t.id /\ thread'[a].ddl = t.ddl
      <3>1. at \in Steps
        BY DEF Steps
      <3>2. thread'[a] = [t EXCEPT !.at = at] /\ \A b \in Actors \ {a} : thread'[b] = thread[b]
        BY <1>0, <2>2, <3>1, GotoType
      <3>3. QED
        BY <1>0, <3>1, <3>2, MovedThread
    <2>3. CASE ReadRow(a) /\ ~Ends(a)
      <3> DEFINE d == IF t.mode = "refresh" THEN None ELSE row.ddl
      <3>1. HasRow(t.id) /\ thread' = [thread EXCEPT ![a].at = "check", ![a].ddl = d]
        BY <2>3 DEF ReadRow
      <3>2. d \in DDL /\ d \in {None, row.ddl}
        BY <1>0, <3>1, DDLTypes DEF HasRow, TypeOK
      <3>3. thread' = [thread EXCEPT ![a] = [t EXCEPT !.at = "check", !.ddl = d]]
        BY <1>0, <3>1 DEF TypeOK
      <3> HIDE DEF d
      <3>4. thread'[a] = [t EXCEPT !.at = "check", !.ddl = d]
            /\ \A b \in Actors \ {a} : thread'[b] = thread[b]
        BY <1>0, <3>3 DEF TypeOK
      <3>5. thread'[a].at = "check" /\ thread'[a].id = t.id /\ thread'[a].ddl = d
        <4>1. t \in Thread /\ t.at \in Steps /\ d \in DDL
          BY <1>0, <3>2
        <4> HIDE DEF t
        <4>2. LET read == [t EXCEPT !.at = "check", !.ddl = d]
              IN  read.at = "check" /\ read.id = t.id /\ read.ddl = d
          BY <4>1, ReadThread
        <4>3. QED
          BY <3>4, <4>2
      <3>6. QED
        BY <3>1, <3>2, <3>4, <3>5 DEF Steps
    <2>4. QED
      BY <2>1, <2>2, <2>3 DEF Deploying, ReadRow, CheckEnds, CheckPasses, Undeploy, Deploy
  <1>3. Holder' = Holder
    BY <1>0, <1>1, <1>2, ActorTypes DEF Holder, Steps, Idle
  <1>4. ASSUME NEW b \in Actors
        PROVE  \/ thread'[b] = thread[b] \/ thread'[b] = Idle
               \/ thread'[b].id <= Holder'
                  /\ (thread'[b].ddl \in Schema => thread'[b].ddl.of = thread'[b].id)
    <2>1. HasRow(t.id) /\ row.ddl \in Schema => row.ddl.of = t.id
      BY DEF HasRow, OwnInv, OwnSchema
    <2>2. QED
      BY <1>0, <1>2, <1>3, <2>1, DDLTypes
  <1>5. ASSUME NEW l \in Loads
        PROVE  \/ loads'[l] = loads[l] \/ loads'[l] = Unused
               \/ /\ loads'[l].id <= Holder'
                  /\ loads'[l].ddl \in Schema => loads'[l].ddl.of = loads'[l].id \/ loads'[l].id < current'
    <2>1. CASE UNCHANGED loads
      BY <2>1
    <2>2. CASE Undeploy(a) /\ loads' = Undeployed
      BY <1>0, <2>2, UndeployedType
    <2>3. CASE Deploy(a) /\ ~UNCHANGED loads
      <3> DEFINE new == CHOOSE k \in Free : TRUE
      <3>1. loads' = [loads EXCEPT ![new] = [at |-> "loading", id |-> t.id, ddl |-> None]]
        BY <2>3, Zenon DEF Deploy
      <3> HIDE DEF new
      <3>2. loads'[l] = loads[l] \/ loads'[l] = [at |-> "loading", id |-> t.id, ddl |-> None]
        BY <1>0, <3>1 DEF TypeOK
      <3>3. QED
        BY <1>0, <1>3, <3>2, DDLTypes
    <2>4. QED
      BY <2>1, <2>2, <2>3 DEF Deploying, ReadRow, CheckEnds, CheckPasses, Undeploy
  <1>6. NoLeftover'
    <2>1. connVdb' \in {connVdb, None, Empty} \/ (connVdb' = t.ddl /\ HasRow(t.id))
      BY DEF Deploying, ReadRow, CheckEnds, CheckPasses, Undeploy, Deploy, Shown
    <2>2. CASE connVdb' \in {connVdb, None, Empty}
      BY <1>1, <2>2, LeftoverStep DEF Queued, HasRow
    <2>3. CASE connVdb' = t.ddl /\ HasRow(t.id)
      BY <1>0, <1>1, <2>3 DEF NoLeftover, HasRow
    <2>4. QED
      BY <2>1, <2>2, <2>3
  <1>7. thread'[Executor].at = "unregister" => row' = None /\ current' > 1
    <2>1. thread'[Executor].at = "unregister" => thread'[Executor] = thread[Executor]
      BY <1>2, ActorTypes DEF Idle, Steps
    <2>2. QED
      BY <1>1, <2>1 DEF OwnInv
  <1>8. QED
    BY <1>0, <1>1, <1>3, <1>4, <1>5, <1>6, <1>7, OwnStep DEF OwnInv

LEMMA LoadingOwn ==
  ASSUME OwnInv, LockInv', NEW l \in Loads, Loading(l)
  PROVE  OwnInv'
  <1> USE DEF dataVars, vdbVars, lockVars, countVars
  <1>0. /\ LockInv /\ TypeOK /\ Holder \in Int /\ Holder <= current /\ current \in Nat
        /\ loads[l] \in Load /\ loads[l].at \in LoadPC /\ OwnLoad(loads[l]) /\ LoadFine(l)
        /\ loads[l].id <= Holder /\ loads[l].id \in Nat
    <2>1. /\ LockInv /\ TypeOK /\ loads[l] \in Load /\ loads[l].at \in LoadPC /\ OwnLoad(loads[l])
          /\ LoadFine(l)
      BY DEF OwnInv, LockInv, TypeOK, LoadPC, Loading, LoadEnds, ListenerRemoves, ListenerReads,
             ListenerCommits, ListenerConflicts, ListenerSubmits
    <2>2. QED
      BY <2>1, HolderType, LoadTypes DEF OwnLoad, LoadPC
  <1>1. UNCHANGED <<current, source, connVdb, thread>> /\ Holder' = Holder
    BY DEF Loading, LoadEnds, ListenerRemoves, ListenerReads, ListenerCommits, ListenerConflicts,
           ListenerSubmits, Holder
  <1>2. Queued("remove") => Queued("remove")'
    <2>1. queue' = queue \/ queue' = Append(queue, "replace")
      BY DEF Loading, LoadEnds, ListenerRemoves, ListenerReads, ListenerCommits, ListenerConflicts,
             ListenerSubmits
    <2>2. QED
      BY <1>0, <2>1, QueuedAppend DEF Queued
  <1>3. row' = row \/ /\ row # None /\ row'.id = row.id /\ row'.id = current
                      /\ row' \in [id : Id, ddl : DDL]
                      /\ row'.ddl \in Schema => row'.ddl.of = row'.id
    <2>1. CASE ListenerCommits(l)
      <3>1. /\ row' = [row EXCEPT !.ddl = loads[l].ddl] /\ row # None /\ row.id = loads[l].id
            /\ row.id = current /\ row \in [id : Id, ddl : DDL] /\ loads[l].ddl \in DDL
        BY <1>0, <2>1, LoadTypes DEF ListenerCommits, LoadFine, HasRow, TypeOK, OwnInv
      <3>2. loads[l].ddl \in Schema => loads[l].ddl.of = row.id
        BY <1>0, <3>1 DEF OwnLoad
      <3>3. QED
        BY <3>1, <3>2
    <2>2. CASE ~ListenerCommits(l)
      BY <2>2 DEF Loading, LoadEnds, ListenerRemoves, ListenerReads, ListenerConflicts, ListenerSubmits
    <2>3. QED
      BY <2>1, <2>2
  <1>4. NoLeftover'
    BY <1>1, <1>2, <1>3, LeftoverStep, DDLTypes DEF HasRow
  <1>5. ASSUME NEW k \in Loads
        PROVE  \/ loads'[k] = loads[k] \/ loads'[k] = Unused
               \/ /\ loads[k].at # "unused"
                  /\ loads'[k].id = loads[k].id /\ loads'[k].ddl = loads[k].ddl
               \/ /\ loads'[k].id <= Holder'
                  /\ loads'[k].ddl \in Schema => loads'[k].ddl.of = loads'[k].id \/ loads'[k].id < current'
    <2>1. CASE LoadEnds(l)
      <3>1. PICK ddl \in DDL : /\ loads' = [loads EXCEPT ![l].at = "ended", ![l].ddl = ddl]
                               /\ ddl \in Schema => source # None /\ ddl.of = source
        <4>1. source # None => [of |-> source, version |-> version] \in Schema
          BY <1>0 DEF TypeOK, Schema
        <4>2. QED
          BY <2>1, <4>1, DDLTypes DEF LoadEnds
      <3>2. loads' = [loads EXCEPT ![l] = [loads[l] EXCEPT !.at = "ended", !.ddl = ddl]]
        BY <1>0, <3>1 DEF TypeOK
      <3>3. k = l => loads'[k].id = loads[l].id /\ loads'[k].ddl = ddl
        BY <1>0, <3>2, EndedLoad DEF TypeOK
      <3>4. k # l => loads'[k] = loads[k]
        BY <1>0, <3>2 DEF TypeOK
      <3>5. source # None => source = Holder
        BY DEF OwnInv
      <3>6. QED
        BY <1>0, <1>1, <3>1, <3>3, <3>4, <3>5
    <2>2. CASE ListenerRemoves(l)
      <3>1. Undeployed \in [Loads -> Load] /\ Undeployed[k] \in {loads[k], Unused}
            /\ (loads[k].at # "loading" => Undeployed[k] = loads[k]) /\ loads[l].at = "ended"
        BY <1>0, <2>2, UndeployedType DEF ListenerRemoves
      <3>2. CASE loads' = [loads EXCEPT ![l] = Unused]
        BY <1>0, <3>2 DEF TypeOK
      <3>3. CASE loads' = [Undeployed EXCEPT ![l].at = "read"]
        <4>1. k # l => loads'[k] = Undeployed[k]
          BY <3>1, <3>3
        <4>2. k = l => loads'[k] = [loads[k] EXCEPT !.at = "read"] /\ "read" \in LoadPC
          BY <3>1, <3>3 DEF LoadPC
        <4>3. ASSUME k = l  PROVE loads'[k].id = loads[k].id /\ loads'[k].ddl = loads[k].ddl
          <5>1. loads[k] \in Load /\ loads[k].at \in LoadPC /\ "read" \in LoadPC
                /\ loads'[k] = [loads[k] EXCEPT !.at = "read"]
            BY <1>0, <4>2, <4>3
          <5>2. QED
            BY <5>1, MovedLoad
        <4>4. QED
          BY <3>1, <4>1, <4>3
      <3>4. QED
        BY <2>2, <3>2, <3>3 DEF ListenerRemoves
    <2>3. CASE ListenerReads(l) /\ loads' = [loads EXCEPT ![l].at = "commit"]
      <3>1. k # l => loads'[k] = loads[k]
        BY <1>0, <2>3 DEF TypeOK
      <3>2. k = l => loads'[k] = [loads[k] EXCEPT !.at = "commit"] /\ "commit" \in LoadPC
        BY <1>0, <2>3 DEF TypeOK, LoadPC
      <3>3. ASSUME k = l  PROVE loads'[k].id = loads[k].id /\ loads'[k].ddl = loads[k].ddl
        <4>1. loads[k] \in Load /\ loads[k].at \in LoadPC /\ "commit" \in LoadPC
              /\ loads'[k] = [loads[k] EXCEPT !.at = "commit"]
          BY <1>0, <3>2, <3>3
        <4>2. QED
          BY <4>1, MovedLoad
      <3>4. QED
        BY <2>3, <3>1, <3>3 DEF ListenerReads
    <2>4. CASE ListenerCommits(l)
      <3> DEFINE others == Loads \ {l}
      <3>1. /\ Conflicts(others) \in [Loads -> Load] /\ Conflicts(others)[l] = loads[l]
            /\ loads' = [Conflicts(others) EXCEPT ![l].at = "submit"]
        BY <1>0, <2>4, ConflictsType DEF ListenerCommits
      <3>2. k # l => loads'[k] = Conflicts(others)[k]
        BY <3>1
      <3>3. k = l => loads'[k] = [loads[k] EXCEPT !.at = "submit"] /\ "submit" \in LoadPC
        BY <3>1 DEF LoadPC
      <3>4. loads[k].at = "commit" \/ k # l => loads'[k] = loads[k]
              \/ \E at \in {"submit", "conflict"} :
                   loads[k].at = "commit" /\ loads'[k] = [loads[k] EXCEPT !.at = at]
        BY <1>0, <3>2, <3>3, ConflictsType
      <3>5. ASSUME NEW at \in {"submit", "conflict"}, loads[k].at = "commit",
                   loads'[k] = [loads[k] EXCEPT !.at = at]
            PROVE  loads[k].at # "unused" /\ loads'[k].id = loads[k].id /\ loads'[k].ddl = loads[k].ddl
        <4>1. loads[k] \in Load /\ loads[k].at \in LoadPC /\ at \in LoadPC
          BY <1>0, <3>5 DEF TypeOK, LoadPC
        <4>2. QED
          BY <3>5, <4>1, MovedLoad
      <3>6. QED
        BY <2>4, <3>4, <3>5 DEF ListenerCommits
    <2>5. CASE loads' = [loads EXCEPT ![l] = Unused]
      BY <1>0, <2>5 DEF TypeOK
    <2>6. QED
      BY <2>1, <2>2, <2>3, <2>4, <2>5, Zenon DEF Loading, ListenerReads, ListenerConflicts, ListenerSubmits
  <1>6. thread'[Executor].at = "unregister" => row' = None /\ current' > 1
    BY <1>1, <1>3 DEF OwnInv
  <1>7. source' # None => source' = Holder'
    BY <1>1 DEF OwnInv
  <1>8. QED
    BY <1>0, <1>1, <1>3, <1>4, <1>5, <1>6, <1>7, OwnStep

LEMMA GoneOwn ==
  ASSUME OwnInv, LockInv', DeleteConnection \/ TaskRemove \/ Restart
  PROVE  OwnInv'
  <1> USE DEF dataVars, vdbVars, lockVars, countVars
  <1>0. /\ LockInv /\ TypeOK /\ Holder \in Int /\ Holder <= current /\ current \in Nat /\ Id \subseteq Nat
    BY HolderType DEF OwnInv, LockInv
  <1>1. CASE DeleteConnection
    <2>1. /\ row # None /\ row.id = current /\ row' = None /\ loads' = Conflicts(Loads)
          /\ current' = current + 1 /\ queue' = Append(queue, "remove")
          /\ thread[Executor] = Idle /\ Starts(Executor, "unregister", None, row.id)
          /\ UNCHANGED <<version, source, load, connVdb, lockVars, greeted, countVars>>
      BY <1>1 DEF DeleteConnection, OwnInv
    <2>2. current \in Id
      BY <1>0 DEF TypeOK
    <2>3. thread' = [thread EXCEPT ![Executor] =
                       [at |-> "unregister", mode |-> None, id |-> current, ddl |-> None]]
      BY <2>1 DEF Starts
    <2>4. /\ thread'[Executor].at = "unregister" /\ thread'[Executor].id = current
          /\ thread'[Executor].ddl = None
          /\ \A b \in Actors \ {Executor} : thread'[b] = thread[b]
      BY <1>0, <2>3, ActorTypes DEF TypeOK
    <2>5. Holder = current /\ Holder' = current /\ current' > 1
      <3>1. current >= 1
        BY <2>2 DEF Id
      <3>2. QED
        BY <1>0, <2>1, <2>4, <3>1 DEF Holder, Idle
    <2>6. Queued("remove")'
      BY <1>0, <2>1, QueuedAppend
    <2>7. NoLeftover'
      BY <2>6 DEF NoLeftover
    <2>8. ASSUME NEW l \in Loads
          PROVE  \/ loads'[l] = loads[l]
                 \/ /\ loads[l].at # "unused"
                    /\ loads'[l].id = loads[l].id /\ loads'[l].ddl = loads[l].ddl
      <3>1. loads'[l] = IF loads[l].at = "commit" THEN [loads[l] EXCEPT !.at = "conflict"] ELSE loads[l]
        BY <1>0, <2>1, ConflictsType
      <3>2. CASE loads[l].at = "commit"
        <4>1. loads[l] \in Load /\ loads[l].at \in LoadPC /\ "conflict" \in LoadPC
              /\ loads'[l] = [loads[l] EXCEPT !.at = "conflict"]
          BY <1>0, <3>1, <3>2 DEF TypeOK, LoadPC
        <4>2. QED
          BY <3>2, <4>1, MovedLoad
      <3>3. QED
        BY <3>1, <3>2
    <2>9. \A a \in Actors : thread'[a] = thread[a]
            \/ (thread'[a].id <= Holder' /\ (thread'[a].ddl \in Schema => thread'[a].ddl.of = thread'[a].id))
      BY <1>0, <2>4, <2>5, DDLTypes
    <2>10. (source' # None => source' = Holder') /\ Holder <= Holder' /\ current <= current'
      BY <1>0, <2>1, <2>5 DEF OwnInv
    <2>11. QED
      BY <2>1, <2>5, <2>7, <2>8, <2>9, <2>10, OwnStep
  <1>2. CASE TaskRemove
    <2>1. UNCHANGED <<current, row, source, loads, thread>> /\ connVdb' = None
      BY <1>2 DEF TaskRemove
    <2>2. Holder' = Holder /\ NoLeftover'
      BY <2>1, DDLTypes DEF Holder, NoLeftover
    <2>3. QED
      BY <1>0, <2>1, <2>2, OwnStep DEF OwnInv
  <1>3. CASE Restart
    <2>1. /\ source' = None /\ loads' = [l \in Loads |-> Unused] /\ connVdb' = None
          /\ thread' = [a \in Actors |-> Idle] /\ UNCHANGED <<current, row>>
      BY <1>3 DEF Restart
    <2>2. thread'[Executor].at # "unregister"
      BY <2>1, ActorTypes DEF Idle
    <2>3. Holder' = current
      BY <2>1, <2>2 DEF Holder
    <2>4. NoLeftover'
      BY <2>1, DDLTypes DEF NoLeftover
    <2>5. QED
      BY <1>0, <2>1, <2>2, <2>3, <2>4, OwnStep
  <1>4. QED
    BY <1>1, <1>2, <1>3

LEMMA NextOwn == OwnInv /\ [Next]_vars => OwnInv'
  <1> SUFFICES ASSUME OwnInv, [Next]_vars  PROVE OwnInv'
    OBVIOUS
  <1>0. LockInv'
    BY NextLock DEF OwnInv
  <1>1. CASE UNCHANGED vars
    BY <1>0, <1>1 DEF vars, dataVars, vdbVars, OwnInv, OwnSchema, NoLeftover, Queued, HasRow,
                      Holder, OwnThread, OwnLoad
  <1>2. ASSUME NEW a \in Actors, Deploying(a)  PROVE OwnInv'
    BY <1>0, <1>2, DeployingOwn
  <1>3. ASSUME NEW l \in Loads, Loading(l)  PROVE OwnInv'
    BY <1>0, <1>3, LoadingOwn
  <1>4. QED
    BY <1>0, <1>1, <1>2, <1>3, AskOwn, ExecOwn, GoneOwn DEF Next

\* The row of a connection holds no schema but its own, in every instance, also
\* if a load ends when another connection has got the name.
THEOREM OwnSchemaCorrect == Spec => []OwnSchema
  <1>1. OwnInv => OwnSchema
    BY DEF OwnInv
  <1>2. QED
    BY InitOwn, NextOwn, <1>1, PTL DEF Spec

\* No request brings back the connection vdb of a connection that was deleted,
\* in any instance, other than until the task that removes it has run.
THEOREM NoLeftoverCorrect == Spec => []NoLeftover
  <1>1. OwnInv => NoLeftover
    BY DEF OwnInv
  <1>2. QED
    BY InitOwn, NextOwn, <1>1, PTL DEF Spec
=============================================================================
