----------------------------- MODULE SourceShown -----------------------------
(***************************************************************************)
(* Proof about SourceVdb: the connection vdb shows the schema in the row,  *)
(* or is about to be replaced.                                             *)
(***************************************************************************)
EXTENDS SourceVdbProofs

Submits   == \E l \in Loads : loads[l].at = "submit"
Asked     == Queued("replace") \/ Submits
Replacing == thread[Executor].mode = "replace"

\* The executor that replaces has a DDL and a data source from its first read
\* on; one that does not has found the connection vdb missing.
ExecFine ==
  LET t == thread[Executor] IN
  /\ Replacing => /\ t.at \in Steps /\ source # None /\ t.id = source
                  /\ t.at # "row" => t.ddl # None
  /\ HoldsConn(Executor) /\ ~Replacing => connVdb = None

\* While a connection has no data source, though none has failed, nothing asks
\* for its vdb: it is being updated, or the pod has just come back.
Sourceless ==
  "source" \notin failures /\ row # None /\ source = None =>
    \/ thread[Executor].at = "register"
    \/ /\ thread[Executor] = Idle /\ ~Queued("replace")
       /\ \A l \in Loads : loads[l] = Unused

\* A removal in the queue is older than the schema in the row.
RemovesFirst ==
  \A i \in 1..Len(queue) : queue[i] = "remove" =>
    \E j \in 1..Len(queue) : i < j /\ queue[j] = "replace"

\* What a thread has read is not what the row holds: the vdb it deploys is
\* replaced later, unless it finds one that is there.
Late(t)     == t.ddl # None /\ ~(HasRow(t.id) /\ t.ddl = row.ddl)
LateFine(a) ==
  LET t == thread[a] IN t.at \in Steps \ {"row"} /\ Late(t) =>
    \/ Asked
    \/ /\ t.mode # "replace"
       /\ Replacing \/ (t.at = "check" /\ connVdb # None)

Judged == "source" \notin failures /\ row # None /\ row.ddl \in Schema

Shows ==
  /\ connVdb # None => connVdb = row.ddl \/ Asked \/ Replacing
  /\ Submits \/ RemovesFirst
  /\ \A a \in Actors : LateFine(a)

ShowInv == OwnInv /\ ExecFine /\ Sourceless /\ (Judged => Shows)
-----------------------------------------------------------------------------
(* What a step may do.                                                     *)

LEMMA NotReplace == "replace" # None /\ "live" # None /\ "refresh" # None /\ "reuse" # None
  BY SourceVdbAssumption DEF Mode

LEMMA ShownTypes ==
  ASSUME ShowInv
  PROVE  /\ LockInv /\ TypeOK /\ thread \in [Actors -> Thread]
         /\ \A r \in Requests : thread[r].at \in Steps => thread[r].mode # "replace"
         /\ row # None => row.id = current
         /\ thread[Executor].at # "unregister" /\ source # None => source = current
         /\ source # None => source \in Id
  BY ActorTypes DEF ShowInv, OwnInv, LockInv, TypeOK, ThreadFine, Holder

\* The executor's thread stays as it is.
LEMMA SameExec ==
  ASSUME ExecFine, thread'[Executor] = thread[Executor], source' = source,
         HoldsConn(Executor) => connVdb' \in {connVdb, None}
  PROVE  ExecFine'
  BY DEF ExecFine, Replacing, HoldsConn

\* Nothing starts for a connection without a data source.
LEMMA SameSource ==
  ASSUME Sourceless, failures \subseteq failures', UNCHANGED <<row, source, queue>>,
         \/ thread'[Executor] = thread[Executor]
         \/ thread[Executor].at \in Steps,
         source = None => \A l \in Loads : loads[l] = Unused => loads'[l] = Unused
  PROVE  Sourceless'
  BY DEF Sourceless, Queued, Steps, Idle

\* Nothing that is promised is taken back, and nobody becomes late.
LEMMA SameShows ==
  ASSUME Judged => Shows, UNCHANGED <<row, queue, connVdb>>, failures \subseteq failures',
         Submits => Submits',
         Judged /\ Replacing => Replacing',
         \A b \in Actors :
           \/ thread'[b] = thread[b]
           \/ thread'[b].at \notin Steps \ {"row"}
           \/ thread'[b].ddl = None
           \/ HasRow(thread'[b].id) /\ thread'[b].ddl = row.ddl
  PROVE  Judged' => Shows'
  <1> SUFFICES ASSUME Judged'  PROVE Shows'
    OBVIOUS
  <1>1. Judged /\ Shows
    BY DEF Judged
  <1>2. Asked => Asked'
    BY DEF Asked, Queued
  <1>3. ASSUME NEW b \in Actors  PROVE LateFine(b)'
    <2>1. LateFine(b)
      BY <1>1 DEF Shows
    <2>2. CASE thread'[b] = thread[b]
      BY <1>1, <1>2, <2>1, <2>2 DEF LateFine, Late, HasRow
    <2>3. QED
      BY <2>2 DEF LateFine, Late, HasRow
  <1>4. QED
    BY <1>1, <1>2, <1>3 DEF Shows, RemovesFirst

LEMMA AskedShows ==
  ASSUME Asked', Submits' \/ RemovesFirst'
  PROVE  Shows'
  BY DEF Shows, LateFine

\* One element less.
LEMMA QueueTail ==
  ASSUME TypeOK, queue # <<>>, queue' = Tail(queue)
  PROVE  /\ 1 \in 1..Len(queue) /\ Head(queue) = queue[1]
         /\ \A i \in 1..Len(queue) : i # 1 => i - 1 \in 1..Len(queue') /\ queue'[i - 1] = queue[i]
         /\ \A i \in 1..Len(queue') : i + 1 \in 1..Len(queue) /\ queue'[i] = queue[i + 1]
         /\ RemovesFirst => RemovesFirst'
  <1>1. /\ Len(queue) \in Nat /\ Len(queue) > 0 /\ Len(queue') = Len(queue) - 1
        /\ \A i \in 1..Len(queue') : queue'[i] = queue[i + 1]
        /\ Head(queue) = queue[1]
    BY HeadTailProperties, LenProperties, EmptySeq DEF TypeOK
  <1>2. ASSUME NEW i \in 1..Len(queue), i # 1
        PROVE  i - 1 \in 1..Len(queue') /\ queue'[i - 1] = queue[i]
    <2>1. i - 1 \in 1..Len(queue') /\ (i - 1) + 1 = i
      BY <1>1, <1>2
    <2>2. QED
      BY <1>1, <2>1
  <1>3. ASSUME NEW i \in 1..Len(queue')
        PROVE  i + 1 \in 1..Len(queue) /\ queue'[i] = queue[i + 1]
    BY <1>1
  <1>4. ASSUME RemovesFirst  PROVE RemovesFirst'
    <2> SUFFICES ASSUME NEW i \in 1..Len(queue'), queue'[i] = "remove"
                 PROVE  \E j \in 1..Len(queue') : i < j /\ queue'[j] = "replace"
      BY DEF RemovesFirst
    <2>1. i + 1 \in 1..Len(queue) /\ queue[i + 1] = "remove"
      BY <1>3
    <2>2. PICK j \in 1..Len(queue) : i + 1 < j /\ queue[j] = "replace"
      BY <1>4, <2>1 DEF RemovesFirst
    <2>3. j - 1 \in 1..Len(queue') /\ queue'[j - 1] = "replace" /\ i < j - 1
      BY <1>1, <1>2, <2>2
    <2>4. QED
      BY <2>3
  <1>5. QED
    BY <1>1, <1>2, <1>3, <1>4

\* One replacement more, after all removals.
LEMMA QueueReplace ==
  ASSUME TypeOK, queue' = Append(queue, "replace")
  PROVE  Asked' /\ RemovesFirst'
  <1>1. /\ Len(queue') = Len(queue) + 1 /\ queue'[Len(queue) + 1] = "replace" /\ Len(queue) \in Nat
    BY AppendProperties, LenProperties DEF TypeOK
  <1>2. Len(queue') \in 1..Len(queue') /\ queue'[Len(queue')] = "replace"
    BY <1>1
  <1>3. ASSUME NEW i \in 1..Len(queue'), queue'[i] = "remove"
        PROVE  i < Len(queue')
    BY <1>1, <1>2, <1>3
  <1>4. QED
    BY <1>2, <1>3 DEF Asked, Queued, RemovesFirst

-----------------------------------------------------------------------------
(* The steps.                                                              *)

LEMMA InitShown == Init => ShowInv
  <1> SUFFICES ASSUME Init  PROVE ShowInv
    OBVIOUS
  <1>1. thread[Executor] = Idle /\ row = None
    BY ActorTypes DEF Init
  <1>2. ExecFine /\ Sourceless /\ ~Judged
    BY <1>1, NotReplace DEF ExecFine, Sourceless, Judged, Replacing, HoldsConn, Idle
  <1>3. QED
    BY <1>2, InitOwn DEF ShowInv

LEMMA AskShown ==
  ASSUME ShowInv, OwnInv',
         \/ \E r \in Requests : AskRefresh(r) \/ AskSchema(r)
         \/ SchemaChanges
  PROVE  ShowInv'
  <1> USE DEF dataVars, vdbVars, lockVars, countVars
  <1>0. TypeOK /\ ExecFine /\ Sourceless /\ (Judged => Shows)
    BY ShownTypes DEF ShowInv
  <1>1. /\ UNCHANGED <<row, source, load, loads, connVdb, queue, failures>>
        /\ thread'[Executor] = thread[Executor]
        /\ \A b \in Actors : thread'[b] = thread[b] \/ thread'[b].at = "row"
    <2>1. ASSUME NEW r \in Requests, AskRefresh(r) \/ AskSchema(r)
          PROVE  /\ thread'[Executor] = thread[Executor]
                 /\ \A b \in Actors : thread'[b] = thread[b] \/ thread'[b].at = "row"
      <3>1. PICK mode \in {"refresh", "reuse"} : Starts(r, "row", mode, source)
        BY <2>1 DEF AskRefresh, AskSchema
      <3>2. mode \in Mode /\ source \in Id /\ r \in Actors /\ r # Executor
        BY <1>0, <2>1, ActorTypes DEF AskRefresh, AskSchema, TypeOK, Mode
      <3>3. thread'[r].at = "row" /\ \A b \in Actors \ {r} : thread'[b] = thread[b]
        BY <1>0, <3>1, <3>2, StartsType
      <3>4. QED
        BY <3>2, <3>3, ActorTypes
    <2>2. CASE SchemaChanges
      BY <2>2 DEF SchemaChanges
    <2>3. QED
      BY <2>1, <2>2 DEF AskRefresh, AskSchema, SchemaChanges, Counts
  <1>2. Submits => Submits'
    BY <1>1 DEF Submits
  <1>3. ExecFine' /\ Sourceless'
    BY <1>0, <1>1, SameExec, SameSource
  <1>4. Judged' => Shows'
    BY <1>0, <1>1, <1>2, SameShows DEF Replacing, Steps
  <1>5. QED
    BY <1>3, <1>4 DEF ShowInv

\* A data source is made, or found impossible to make.
LEMMA MadeShown ==
  ASSUME ShowInv, OwnInv', ~Replacing, UNCHANGED <<connVdb, loads, queue>>,
         \E mode \in {"live", "refresh"} : CreateSource(mode) \/ CreateSourceFails,
         CreateSourceFails \/ UNCHANGED countVars
  PROVE  ShowInv'
  <1>0. TypeOK /\ (Judged => Shows) /\ current \in Id
    BY ShownTypes DEF ShowInv, TypeOK
  <1>1. CASE CreateSourceFails
    <2>1. thread'[Executor] = Idle /\ "source" \in failures'
      BY <1>0, <1>1, EndsType, ActorTypes DEF CreateSourceFails, Fails
    <2>2. ExecFine' /\ Sourceless' /\ ~Judged'
      BY <2>1, NotReplace DEF ExecFine, Sourceless, Judged, Replacing, HoldsConn, Idle
    <2>3. QED
      BY <2>2 DEF ShowInv
  <1>2. ASSUME NEW mode \in {"live", "refresh"}, CreateSource(mode), UNCHANGED countVars
        PROVE  ShowInv'
    <2>1. /\ row' = Named(current) /\ source' = (IF source = None THEN current ELSE source)
          /\ Starts(Executor, "row", mode, current) /\ mode \in Mode /\ failures' = failures
      BY <1>2 DEF CreateSource, Mode, countVars
    <2>2. /\ thread'[Executor].at = "row" /\ thread'[Executor].mode = mode
          /\ \A b \in Actors \ {Executor} : thread'[b] = thread[b]
      BY <1>0, <2>1, StartsType, ActorTypes
    <2>3. ExecFine' /\ Sourceless'
      BY <1>0, <2>1, <2>2, DDLTypes DEF ExecFine, Sourceless, Replacing, HoldsConn
    <2>4. Judged' => row' = row
      BY <1>0, <2>1, NamedType, DDLTypes DEF Judged
    <2>5. row' = row => (Judged' => Shows')
      <3>1. Submits => Submits'
        BY DEF Submits
      <3>2. QED
        BY <1>0, <2>1, <2>2, <3>1, SameShows DEF Steps
    <2>6. QED
      BY <2>3, <2>4, <2>5 DEF ShowInv
  <1>3. QED
    BY <1>1, <1>2

LEMMA ExecShown ==
  ASSUME ShowInv, OwnInv',
         AddConnection \/ GreetingMisses \/ UpdateConnection \/ Register \/ Unregister \/ TaskReplace
  PROVE  ShowInv'
  <1> USE DEF dataVars, vdbVars, lockVars, countVars
  <1>0. /\ LockInv /\ TypeOK /\ ExecFine /\ Sourceless /\ (Judged => Shows) /\ current \in Id
        /\ \A r \in Requests : thread[r].at \in Steps => thread[r].mode # "replace"
    BY ShownTypes DEF ShowInv, TypeOK
  <1>1. thread[Executor] = Idle \/ thread[Executor].at = "register" => ~Replacing
    BY <1>0, NotReplace DEF ExecFine, Replacing, Idle, Steps
  <1>2. CASE AddConnection \/ Register
    <2>1. /\ UNCHANGED <<connVdb, loads, queue>>
          /\ thread[Executor] = Idle \/ thread[Executor].at = "register"
          /\ \E mode \in {"live", "refresh"} : CreateSource(mode) \/ CreateSourceFails
          /\ CreateSourceFails \/ UNCHANGED countVars
      BY <1>2 DEF AddConnection, Register
    <2>2. QED
      BY <1>1, <2>1, MadeShown
  <1>3. CASE UpdateConnection
    <2>1. /\ thread[Executor] = Idle /\ Starts(Executor, "register", "refresh", current)
          /\ UNCHANGED <<row, connVdb, loads, queue, failures>> /\ "refresh" \in Mode
      BY <1>3 DEF UpdateConnection, Mode
    <2>2. /\ thread'[Executor].at = "register" /\ thread'[Executor].mode = "refresh"
          /\ \A b \in Actors \ {Executor} : thread'[b] = thread[b]
      BY <1>0, <2>1, StartsType, ActorTypes
    <2>3. ExecFine' /\ Sourceless'
      BY <2>2 DEF ExecFine, Sourceless, Replacing, HoldsConn
    <2>4. Submits => Submits'
      BY <2>1 DEF Submits
    <2>5. Judged' => Shows'
      BY <1>0, <1>1, <2>1, <2>2, <2>4, SameShows DEF Steps
    <2>6. QED
      BY <2>3, <2>5 DEF ShowInv
  <1>4. CASE Unregister
    <2>1. thread[Executor].at = "unregister" /\ Ends(Executor) /\ row' = row
      BY <1>4 DEF Unregister
    <2>2. row' = None /\ thread'[Executor] = Idle
      BY <1>0, <2>1, EndsType, ActorTypes DEF ShowInv, OwnInv
    <2>3. ExecFine' /\ Sourceless' /\ ~Judged'
      BY <2>2, NotReplace DEF ExecFine, Sourceless, Judged, Replacing, HoldsConn, Idle
    <2>4. QED
      BY <2>3 DEF ShowInv
  <1>5. CASE TaskReplace
    <2>1. /\ thread[Executor] = Idle /\ queue # <<>> /\ Head(queue) = "replace" /\ queue' = Tail(queue)
          /\ UNCHANGED <<row, source, connVdb, loads, failures>>
      BY <1>5 DEF TaskReplace
    <2>2. Queued("replace")
      BY <1>0, <2>1, QueueTail DEF Queued
    <2>3. CASE source = None
      <3>1. thread' = thread
        BY <1>5, <2>3 DEF TaskReplace
      <3>2. "source" \in failures \/ row = None
        BY <1>0, <2>1, <2>2, <2>3 DEF Sourceless, Idle
      <3>3. ExecFine' /\ Sourceless' /\ ~Judged'
        BY <1>0, <2>1, <3>1, <3>2, SameExec DEF Sourceless, Judged
      <3>4. QED
        BY <3>3 DEF ShowInv
    <2>4. CASE source # None
      <3>1. Starts(Executor, "row", "replace", source) /\ "replace" \in Mode /\ source \in Id
        BY <1>0, <1>5, <2>4 DEF TaskReplace, Mode, TypeOK
      <3>2. /\ thread'[Executor].at = "row" /\ thread'[Executor].mode = "replace"
            /\ thread'[Executor].id = source
            /\ \A b \in Actors \ {Executor} : thread'[b] = thread[b]
        BY <1>0, <3>1, StartsType, ActorTypes
      <3>3. ExecFine' /\ Sourceless' /\ Replacing'
        BY <2>1, <2>4, <3>2 DEF ExecFine, Sourceless, Replacing, HoldsConn, Steps
      <3>4. ASSUME NEW b \in Actors  PROVE LateFine(b)'
        <4>1. CASE b = Executor
          BY <3>2, <4>1 DEF LateFine
        <4>2. CASE b # Executor
          <5>1. thread'[b] = thread[b] /\ b \in Requests
            BY <3>2, <4>2 DEF Actors
          <5>2. QED
            BY <1>0, <3>3, <5>1 DEF LateFine
        <4>3. QED
          BY <4>1, <4>2
      <3>5. Judged' => Submits' \/ RemovesFirst'
        <4>1. Judged' => Submits \/ RemovesFirst
          BY <1>0, <2>1 DEF Judged, Shows
        <4>2. Submits => Submits'
          BY <2>1 DEF Submits
        <4>3. QED
          BY <1>0, <2>1, <4>1, <4>2, QueueTail
      <3>6. QED
        BY <3>3, <3>4, <3>5 DEF ShowInv, Shows
    <2>5. QED
      BY <2>3, <2>4
  <1>6. CASE GreetingMisses
    <2>1. /\ UNCHANGED <<row, source, thread, connVdb, loads, queue>>
          /\ failures \subseteq failures'
      BY <1>6 DEF GreetingMisses, Fails
    <2>2. ExecFine' /\ Sourceless'
      BY <1>0, <2>1, SameExec, SameSource
    <2>3. Submits => Submits'
      BY <2>1 DEF Submits
    <2>4. Judged' => Shows'
      BY <1>0, <2>1, <2>3, SameShows DEF Replacing
    <2>5. QED
      BY <2>2, <2>4 DEF ShowInv
  <1>7. QED
    BY <1>2, <1>3, <1>4, <1>5, <1>6

\* Of Deploying: the executor at work is about a connection with its source.
LEMMA AtWork ==
  ASSUME ShowInv, NEW a \in Actors, thread[a].at \in Steps, UNCHANGED <<row, source, queue, failures>>,
         \A b \in Actors \ {a} : thread'[b] = thread[b],
         source = None => \A l \in Loads : loads[l] = Unused => loads'[l] = Unused
  PROVE  /\ Sourceless'
         /\ Judged' = Judged
         /\ a # Executor => thread'[Executor] = thread[Executor] /\ (Replacing <=> Replacing')
         /\ Judged /\ Replacing => HasRow(thread[Executor].id)
  <1>1. thread'[Executor] = thread[Executor] \/ thread[Executor].at \in Steps
    BY ActorTypes
  <1>2. Sourceless'
    BY <1>1, SameSource DEF ShowInv
  <1>3. Judged /\ Replacing => HasRow(thread[Executor].id)
    BY ShownTypes DEF ShowInv, ExecFine, Judged, HasRow, Steps
  <1>4. QED
    BY <1>2, <1>3, ActorTypes DEF Judged, Replacing

LEMMA ReadShown ==
  ASSUME ShowInv, OwnInv', NEW a \in Actors, ReadRow(a)
  PROVE  ShowInv'
  <1> USE DEF dataVars, vdbVars, lockVars, countVars
  <1> DEFINE t == thread[a]
  <1>0. /\ TypeOK /\ ExecFine /\ Sourceless /\ (Judged => Shows) /\ t \in Thread
        /\ t.at = "row" /\ t.at \in Steps
        /\ UNCHANGED <<row, source, loads, connVdb, queue, failures>>
    BY ShownTypes DEF ShowInv, ReadRow, Steps
  <1>1. \/ /\ Ends(a)
           /\ ~HasRow(t.id) \/ (t.mode \in {"reuse", "replace"} /\ row.ddl = None)
        \/ \E d \in DDL :
             /\ thread' = [thread EXCEPT ![a] = [t EXCEPT !.at = "check", !.ddl = d]]
             /\ d = None \/ (HasRow(t.id) /\ d = row.ddl)
             /\ t.mode = "replace" => d # None
    <2>1. CASE ~HasRow(t.id) \/ (t.mode \in {"reuse", "replace"} /\ row.ddl = None)
      BY <2>1 DEF ReadRow
    <2>2. CASE ~(~HasRow(t.id) \/ (t.mode \in {"reuse", "replace"} /\ row.ddl = None))
      <3> DEFINE d == IF t.mode = "refresh" THEN None ELSE row.ddl
      <3>1. thread' = [thread EXCEPT ![a].at = "check", ![a].ddl = d]
        BY <2>2 DEF ReadRow
      <3>2. d \in DDL
        BY <1>0, <2>2, DDLTypes DEF TypeOK, HasRow
      <3>3. d = None \/ (HasRow(t.id) /\ d = row.ddl)
        BY <2>2
      <3>4. t.mode = "replace" => d # None
        BY <2>2
      <3>5. thread' = [thread EXCEPT ![a] = [t EXCEPT !.at = "check", !.ddl = d]]
        BY <1>0, <3>1 DEF TypeOK
      <3> HIDE DEF d
      <3>6. QED
        BY <3>2, <3>3, <3>4, <3>5
    <2>3. QED
      BY <2>1, <2>2
  <1>2. Submits => Submits'
    BY <1>0 DEF Submits
  <1>3. CASE /\ Ends(a)
             /\ ~HasRow(t.id) \/ (t.mode \in {"reuse", "replace"} /\ row.ddl = None)
    <2>1. thread'[a] = Idle /\ \A b \in Actors \ {a} : thread'[b] = thread[b]
      BY <1>0, <1>3, EndsType
    <2>2. /\ Sourceless' /\ Judged' = Judged
          /\ a # Executor => thread'[Executor] = thread[Executor] /\ (Replacing <=> Replacing')
          /\ Judged /\ Replacing => HasRow(thread[Executor].id)
      BY <1>0, <2>1, AtWork
    <2>3. ExecFine'
      BY <1>0, <2>1, <2>2, SameExec, NotReplace DEF ExecFine, Replacing, HoldsConn, Idle
    <2>4. Judged /\ Replacing => Replacing'
      BY <1>3, <2>2, DDLTypes DEF Judged, Replacing
    <2>5. Judged' => Shows'
      BY <1>0, <1>2, <2>1, <2>4, SameShows DEF Idle, Steps
    <2>6. QED
      BY <2>2, <2>3, <2>5 DEF ShowInv
  <1>4. ASSUME NEW d \in DDL, thread' = [thread EXCEPT ![a] = [t EXCEPT !.at = "check", !.ddl = d]],
               d = None \/ (HasRow(t.id) /\ d = row.ddl), t.mode = "replace" => d # None
        PROVE  ShowInv'
    <2>1. /\ thread'[a].at = "check" /\ thread'[a].mode = t.mode /\ thread'[a].id = t.id
          /\ thread'[a].ddl = d /\ \A b \in Actors \ {a} : thread'[b] = thread[b]
      BY <1>0, <1>4, ReadThread DEF TypeOK
    <2>2. /\ Sourceless'
          /\ a # Executor => thread'[Executor] = thread[Executor]
      BY <1>0, <2>1, AtWork
    <2>3. ExecFine' /\ (Replacing => Replacing')
      BY <1>0, <1>4, <2>1, <2>2, SameExec DEF ExecFine, Replacing, HoldsConn, Steps
    <2>4. Judged' => Shows'
      BY <1>0, <1>2, <1>4, <2>1, <2>3, SameShows
    <2>5. QED
      BY <2>2, <2>3, <2>4 DEF ShowInv
  <1>5. QED
    BY <1>1, <1>3, <1>4

LEMMA CheckShown ==
  ASSUME ShowInv, OwnInv', NEW a \in Actors, CheckEnds(a) \/ CheckPasses(a)
  PROVE  ShowInv'
  <1> USE DEF dataVars, vdbVars, lockVars, countVars
  <1> DEFINE t == thread[a]
  <1>0. /\ TypeOK /\ ExecFine /\ Sourceless /\ (Judged => Shows) /\ t \in Thread
        /\ t.at = "check" /\ t.at \in Steps
        /\ UNCHANGED <<row, source, loads, connVdb, queue, failures>>
    BY ShownTypes DEF ShowInv, CheckEnds, CheckPasses, Steps
  <1>1. Submits => Submits'
    BY <1>0 DEF Submits
  <1>2. CASE CheckEnds(a)
    <2>1. NoNeed(t) /\ thread'[a] = Idle /\ \A b \in Actors \ {a} : thread'[b] = thread[b]
      BY <1>0, <1>2, EndsType DEF CheckEnds
    <2>2. /\ Sourceless'
          /\ a # Executor => thread'[Executor] = thread[Executor] /\ (Replacing <=> Replacing')
      BY <1>0, <2>1, AtWork
    <2>3. ExecFine'
      BY <1>0, <2>1, <2>2, SameExec, NotReplace DEF ExecFine, Replacing, HoldsConn, Idle
    <2>4. Replacing => Replacing'
      BY <1>0, <2>1, <2>2 DEF NoNeed, ExecFine, Replacing
    <2>5. Judged' => Shows'
      BY <1>0, <1>1, <2>1, <2>4, SameShows DEF Idle, Steps
    <2>6. QED
      BY <2>2, <2>3, <2>5 DEF ShowInv
  <1>3. CASE CheckPasses(a)
    <2>1. ~NoNeed(t) /\ Goto(a, "undeploy") /\ "undeploy" \in Steps
      BY <1>3 DEF CheckPasses, Steps
    <2>2. /\ thread'[a] = [t EXCEPT !.at = "undeploy"]
          /\ \A b \in Actors \ {a} : thread'[b] = thread[b]
      BY <1>0, <2>1, GotoType
    <2>3. /\ thread'[a].at = "undeploy" /\ thread'[a].mode = t.mode /\ thread'[a].id = t.id
          /\ thread'[a].ddl = t.ddl
      BY <1>0, <2>1, <2>2, MovedThread
    <2>4. /\ Sourceless' /\ Judged' = Judged
          /\ a # Executor => thread'[Executor] = thread[Executor]
      BY <1>0, <2>2, AtWork
    <2>5. t.ddl # None /\ t.mode # "replace" => connVdb = None
      BY <2>1 DEF NoNeed
    <2>6. ExecFine' /\ (Replacing <=> Replacing')
      BY <1>0, <2>3, <2>4, <2>5, SameExec DEF ExecFine, Replacing, HoldsConn, Steps
    <2>7. ASSUME Judged  PROVE Shows'
      <3>1. Shows /\ (Asked => Asked')
        BY <1>0, <1>1, <2>7 DEF Asked, Queued
      <3>2. ASSUME NEW b \in Actors  PROVE LateFine(b)'
        <4>1. LateFine(b)
          BY <3>1 DEF Shows
        <4>2. CASE b = a
          BY <1>0, <2>3, <2>5, <2>6, <3>1, <4>1, <4>2 DEF LateFine, Late, HasRow, Steps
        <4>3. CASE b # a
          <5>1. thread'[b] = thread[b]
            BY <2>2, <4>3
          <5>2. QED
            BY <1>0, <2>6, <3>1, <4>1, <5>1 DEF LateFine, Late, HasRow
        <4>4. QED
          BY <4>2, <4>3
      <3>3. QED
        BY <1>0, <1>1, <2>6, <3>1, <3>2 DEF Shows, RemovesFirst
    <2>8. QED
      BY <2>4, <2>6, <2>7 DEF ShowInv
  <1>4. QED
    BY <1>2, <1>3

\* A load vdb that is undeployed, or started, promises nothing about the other.
LEMMA LoadVdbShown ==
  ASSUME ShowInv, OwnInv', NEW a \in Actors, thread[a].at \in Steps, thread[a].ddl = None,
         thread[a].at # "row",
         UNCHANGED <<row, source, connVdb, queue, failures>>,
         \A b \in Actors \ {a} : thread'[b] = thread[b],
         \/ thread'[a] = Idle
         \/ thread'[a].at \in Steps /\ thread'[a].mode = thread[a].mode /\ thread'[a].ddl = None,
         source = None => \A l \in Loads : loads[l] = Unused => loads'[l] = Unused,
         \A l \in Loads : loads[l].at = "submit" => loads'[l] = loads[l]
  PROVE  ShowInv'
  <1>0. ExecFine /\ (Judged => Shows)
    BY DEF ShowInv
  <1>1. Submits => Submits'
    BY DEF Submits
  <1>2. Sourceless' /\ (a # Executor => thread'[Executor] = thread[Executor])
    BY AtWork
  <1>3. a = Executor => ~Replacing
    BY <1>0 DEF ExecFine
  <1>4. ExecFine' /\ (Replacing => Replacing')
    <2>1. CASE a = Executor
      BY <1>3, <2>1, NotReplace DEF ExecFine, Replacing, HoldsConn, Idle
    <2>2. CASE a # Executor
      BY <1>0, <1>2, <2>2, SameExec DEF Replacing
    <2>3. QED
      BY <2>1, <2>2
  <1>5. Judged' => Shows'
    BY <1>0, <1>1, <1>4, SameShows DEF Idle, Steps
  <1>6. QED
    BY <1>2, <1>4, <1>5 DEF ShowInv

LEMMA UndeployShown ==
  ASSUME ShowInv, OwnInv', NEW a \in Actors, Undeploy(a)
  PROVE  ShowInv'
  <1> USE DEF dataVars, vdbVars, lockVars, countVars
  <1> DEFINE t == thread[a]
  <1>0. /\ LockInv /\ TypeOK /\ ExecFine /\ Sourceless /\ (Judged => Shows) /\ t \in Thread
        /\ t.at = "undeploy" /\ t.at \in Steps /\ "deploy" \in Steps
        /\ UNCHANGED <<row, source, queue, failures>>
        /\ \A r \in Requests : thread[r].at \in Steps => thread[r].mode # "replace"
    BY ShownTypes DEF ShowInv, Undeploy, Steps
  <1>1. Goto(a, "deploy") =>
          /\ thread'[a].at = "deploy" /\ thread'[a].mode = t.mode /\ thread'[a].id = t.id
          /\ thread'[a].ddl = t.ddl /\ \A b \in Actors \ {a} : thread'[b] = thread[b]
    <2> SUFFICES ASSUME Goto(a, "deploy")
                 PROVE  /\ thread'[a].at = "deploy" /\ thread'[a].mode = t.mode
                        /\ thread'[a].id = t.id /\ thread'[a].ddl = t.ddl
                        /\ \A b \in Actors \ {a} : thread'[b] = thread[b]
      OBVIOUS
    <2>1. /\ thread'[a] = [t EXCEPT !.at = "deploy"]
          /\ \A b \in Actors \ {a} : thread'[b] = thread[b]
      BY <1>0, GotoType
    <2>2. QED
      BY <1>0, <2>1, MovedThread
  <1>2. CASE t.ddl = None
    <2>1. loads' = Undeployed /\ connVdb' = connVdb /\ Goto(a, "deploy")
      BY <1>2, DDLTypes DEF Undeploy
    <2>2. \A l \in Loads : \/ loads'[l] = loads[l]
                           \/ loads[l].at = "loading" /\ loads'[l] = Unused
      BY <1>0, <2>1, UndeployedType
    <2>3. QED
      BY <1>0, <1>1, <1>2, <2>1, <2>2, LoadVdbShown
  <1>3. CASE t.ddl # None
    <2>1. connVdb' = None /\ loads' = loads
      BY <1>3 DEF Undeploy
    <2>2. Submits => Submits'
      BY <2>1 DEF Submits
    <2>3. /\ \A b \in Actors \ {a} : thread'[b] = thread[b]
          /\ \/ thread'[a] = Idle /\ t.ddl = Failed
             \/ /\ thread'[a].at = "deploy" /\ thread'[a].mode = t.mode /\ thread'[a].id = t.id
                /\ thread'[a].ddl = t.ddl
      <3>1. CASE t.ddl = Failed
        BY <1>0, <3>1, EndsType DEF Undeploy
      <3>2. CASE t.ddl # Failed
        BY <1>1, <3>2 DEF Undeploy
      <3>3. QED
        BY <3>1, <3>2
    <2>4. /\ Sourceless' /\ Judged' = Judged
          /\ a # Executor => thread'[Executor] = thread[Executor]
      BY <1>0, <2>1, <2>3, AtWork
    <2>5. ExecFine'
      <3>1. CASE a = Executor
        BY <1>0, <2>1, <2>3, <3>1, NotReplace DEF ExecFine, Replacing, HoldsConn, Idle
      <3>2. CASE a # Executor
        BY <1>0, <2>1, <2>4, <3>2, SameExec
      <3>3. QED
        BY <3>1, <3>2
    <2>6. ASSUME Judged  PROVE Shows'
      <3>1. Shows /\ (Asked => Asked')
        BY <1>0, <2>2, <2>6 DEF Asked, Queued
      <3>2. Submits' \/ RemovesFirst'
        BY <1>0, <2>2, <3>1 DEF Shows, RemovesFirst
      <3>3. CASE Asked
        BY <3>1, <3>2, <3>3, AskedShows
      <3>4. CASE ~Asked /\ t.mode = "replace"
        <4>1. a = Executor
          BY <1>0, <3>4 DEF Actors
        <4>2. t.ddl # Failed
          BY <1>0, <1>3, <2>6, <3>1, <3>4, DDLTypes DEF Shows, LateFine, Late, Judged
        <4>3. Replacing' /\ \A b \in Actors \ {a} : thread[b].at \in Steps => thread[b].mode # "replace"
          BY <1>0, <2>3, <3>4, <4>1, <4>2, NotReplace DEF Replacing, Actors, Idle
        <4>4. ASSUME NEW b \in Actors  PROVE LateFine(b)'
          <5>1. CASE b = a
            BY <1>0, <2>3, <3>1, <3>4, <4>2, <5>1, NotReplace
               DEF Shows, LateFine, Late, HasRow, Steps, Idle
          <5>2. CASE b # a
            BY <2>3, <4>3, <5>2 DEF LateFine
          <5>3. QED
            BY <5>1, <5>2
        <4>5. QED
          BY <2>1, <3>2, <4>4 DEF Shows
      <3>5. CASE ~Asked /\ t.mode # "replace"
        <4>1. connVdb = None
          BY <1>0, <1>3, <3>5, ActorTypes
             DEF ExecFine, Replacing, HoldsConn, LockInv, ThreadFine, Actors
        <4>2. Replacing <=> Replacing'
          BY <1>0, <2>3, <2>4, <3>5, NotReplace DEF Replacing, Idle
        <4>3. ASSUME NEW b \in Actors  PROVE LateFine(b)'
          <5>0. LateFine(b)
            BY <3>1 DEF Shows
          <5>1. CASE b = a
            BY <1>0, <2>3, <3>1, <4>1, <4>2, <5>0, <5>1 DEF LateFine, Late, HasRow, Steps, Idle
          <5>2. CASE b # a
            <6>1. thread'[b] = thread[b]
              BY <2>3, <5>2
            <6>2. QED
              BY <1>0, <2>1, <3>1, <4>1, <4>2, <5>0, <6>1 DEF LateFine, Late, HasRow
          <5>3. QED
            BY <5>1, <5>2
        <4>4. QED
          BY <2>1, <3>2, <4>3 DEF Shows
      <3>6. QED
        BY <3>3, <3>4, <3>5
    <2>7. QED
      BY <2>4, <2>5, <2>6 DEF ShowInv
  <1>4. QED
    BY <1>2, <1>3

LEMMA DeployShown ==
  ASSUME ShowInv, OwnInv', NEW a \in Actors, Deploy(a)
  PROVE  ShowInv'
  <1> USE DEF dataVars, vdbVars, lockVars, countVars
  <1> DEFINE t == thread[a]
  <1>0. /\ LockInv /\ TypeOK /\ ExecFine /\ Sourceless /\ (Judged => Shows) /\ t \in Thread
        /\ t.at = "deploy" /\ t.at \in Steps /\ Ends(a)
        /\ UNCHANGED <<row, source, queue, failures>>
        /\ \A r \in Requests : thread[r].at \in Steps => thread[r].mode # "replace"
    BY ShownTypes DEF ShowInv, Deploy, Steps
  <1>1. thread'[a] = Idle /\ \A b \in Actors \ {a} : thread'[b] = thread[b]
    BY <1>0, EndsType
  <1>2. CASE t.ddl = None /\ source # None
    <2> DEFINE new == CHOOSE l \in Free : TRUE
    <2>1. /\ loads' = [loads EXCEPT ![new] = [at |-> "loading", id |-> t.id, ddl |-> None]]
          /\ connVdb' = connVdb
      BY <1>2, Zenon DEF Deploy
    <2>2. new \in Loads /\ loads[new] = Unused
      BY <1>0, <1>2 DEF LockInv, ThreadFine, HoldsLoad, Free
    <2> HIDE DEF new
    <2>3. \A l \in Loads : loads[l].at = "submit" => loads'[l] = loads[l]
      BY <1>0, <2>1, <2>2 DEF TypeOK, Unused
    <2>4. QED
      BY <1>0, <1>1, <1>2, <2>1, <2>3, LoadVdbShown
  <1>3. CASE t.ddl = None /\ source = None
    <2>1. UNCHANGED <<load, loads, connVdb>>
      BY <1>3 DEF Deploy
    <2>2. QED
      BY <1>0, <1>1, <1>3, <2>1, LoadVdbShown
  <1>4. CASE t.ddl # None
    <2>1. /\ loads' = loads
          /\ IF source = None THEN connVdb' = connVdb ELSE connVdb' = Shown(t)
      BY <1>4, Zenon DEF Deploy
    <2>2. Submits => Submits'
      BY <2>1 DEF Submits
    <2>3. /\ Sourceless' /\ Judged' = Judged
          /\ a # Executor => thread'[Executor] = thread[Executor] /\ (Replacing <=> Replacing')
      BY <1>0, <1>1, <2>1, AtWork
    <2>4. ASSUME NEW b \in Actors \ {a}  PROVE ~HoldsConn(b)
      BY <1>0, <1>4, Exclusive DEF HoldsConn
    <2>5. ExecFine'
      <3>1. CASE a = Executor
        BY <1>1, <3>1, NotReplace DEF ExecFine, Replacing, HoldsConn, Idle
      <3>2. CASE a # Executor
        BY <1>0, <2>3, <2>4, <3>2, SameExec, ActorTypes
      <3>3. QED
        BY <3>1, <3>2
    <2>6. ASSUME Judged  PROVE Shows'
      <3>1. Shows /\ (Asked => Asked') /\ LateFine(a)
        BY <1>0, <2>2, <2>6 DEF Asked, Queued, Shows
      <3>2. Submits' \/ RemovesFirst'
        BY <1>0, <2>2, <3>1 DEF Shows, RemovesFirst
      <3>3. CASE Asked
        BY <3>1, <3>2, <3>3, AskedShows
      <3>4. CASE ~Asked /\ a # Executor /\ (Late(t) \/ source = None)
        <4>1. ASSUME NEW b \in Actors  PROVE LateFine(b)'
          <5>0. LateFine(b)
            BY <3>1 DEF Shows
          <5>1. CASE b = a
            BY <1>1, <5>1 DEF LateFine, Idle, Steps
          <5>2. CASE b # a
            <6>1. thread'[b] = thread[b] /\ ~HoldsConn(b)
              BY <1>1, <2>4, <5>2
            <6>2. CASE source = None
              BY <1>0, <2>1, <2>3, <3>1, <3>4, <5>0, <6>1, <6>2 DEF LateFine, Late, HasRow
            <6>3. CASE Late(t)
              <7>1. Replacing'
                BY <1>0, <1>4, <2>3, <3>1, <3>4, <6>3 DEF LateFine, Steps
              <7>2. QED
                BY <1>0, <2>3, <3>1, <3>4, <5>0, <6>1, <7>1 DEF LateFine, Late, HasRow, Steps
            <6>4. QED
              BY <3>4, <6>2, <6>3
          <5>3. QED
            BY <5>1, <5>2
        <4>2. connVdb' # None => connVdb' = row.ddl \/ Asked' \/ Replacing'
          BY <1>0, <2>1, <2>3, <3>1, <3>4 DEF Shows, LateFine, Steps
        <4>3. QED
          BY <1>0, <3>2, <4>1, <4>2 DEF Shows
      <3>5. CASE ~Asked /\ ~Late(t) /\ source # None
        <4>1. HasRow(t.id) /\ t.ddl = row.ddl
          BY <1>4, <3>5 DEF Late
        <4>2. connVdb' = row.ddl /\ connVdb' # None
          BY <1>4, <2>1, <3>5, <4>1 DEF Shown
        <4>3. ASSUME NEW b \in Actors  PROVE LateFine(b)'
          <5>0. LateFine(b)
            BY <3>1 DEF Shows
          <5>1. CASE b = a
            BY <1>1, <5>1 DEF LateFine, Idle, Steps
          <5>2. CASE b # a
            <6>1. thread'[b] = thread[b] /\ ~HoldsConn(b)
              BY <1>1, <2>4, <5>2
            <6>2. QED
              BY <1>0, <3>1, <3>5, <4>2, <5>0, <6>1 DEF LateFine, Late, HasRow, HoldsConn, Steps
          <5>3. QED
            BY <5>1, <5>2
        <4>4. QED
          BY <1>0, <3>2, <4>2, <4>3 DEF Shows
      <3>6. CASE ~Asked /\ a = Executor /\ (Late(t) \/ source = None)
        <4>1. source # None
          BY <1>0, <2>6, <3>6 DEF Sourceless, Judged, Steps, Idle
        <4>2. t.mode # "replace" /\ Replacing
          BY <1>0, <3>1, <3>6, <4>1 DEF LateFine, Steps
        <4>3. QED
          BY <3>6, <4>2 DEF Replacing
      <3>7. QED
        BY <3>3, <3>4, <3>5, <3>6
    <2>7. QED
      BY <2>3, <2>5, <2>6 DEF ShowInv
  <1>5. QED
    BY <1>2, <1>3, <1>4

LEMMA LoadingShown ==
  ASSUME ShowInv, OwnInv', NEW l \in Loads, Loading(l)
  PROVE  ShowInv'
  <1> USE DEF dataVars, vdbVars, lockVars, countVars
  <1>0. /\ LockInv /\ TypeOK /\ ExecFine /\ Sourceless /\ (Judged => Shows) /\ loads[l] \in Load
        /\ loads[l].at \in LoadPC /\ loads[l] # Unused
        /\ UNCHANGED <<source, connVdb, thread>> /\ failures \subseteq failures'
    BY ShownTypes DEF ShowInv, TypeOK, Loading, LoadEnds, ListenerRemoves, ListenerReads, ListenerCommits,
         ListenerConflicts, ListenerSubmits, LoadPC, Unused, Fails
  <1>1. ExecFine'
    BY <1>0, SameExec
  <1>2. CASE LoadEnds(l) \/ ListenerRemoves(l) \/ ListenerReads(l)
    <2>1. row' = row /\ queue' = queue
      BY <1>2 DEF LoadEnds, ListenerRemoves, ListenerReads
    <2>2. /\ loads[l].at # "submit"
          /\ \A k \in Loads \ {l} : loads'[k] = loads[k] \/ (loads'[k] = Unused /\ loads[k].at = "loading")
      <3>1. CASE LoadEnds(l) \/ ListenerReads(l)
        BY <1>0, <3>1 DEF LoadEnds, ListenerReads, TypeOK
      <3>2. CASE ListenerRemoves(l)
        BY <1>0, <3>2, UndeployedType DEF ListenerRemoves, TypeOK
      <3>3. QED
        BY <1>2, <3>1, <3>2
    <2>3. Submits => Submits'
      BY <2>2 DEF Submits
    <2>4. \A k \in Loads : loads[k] = Unused => loads'[k] = Unused
      BY <1>0, <2>2
    <2>5. Sourceless'
      BY <1>0, <2>1, <2>4, SameSource
    <2>6. Judged' => Shows'
      BY <1>0, <2>1, <2>3, SameShows DEF Replacing
    <2>7. QED
      BY <1>1, <2>5, <2>6 DEF ShowInv
  <1>3. CASE ListenerCommits(l) \/ ListenerConflicts(l) \/ ListenerSubmits(l)
    <2>1. row' # None => row # None
      <3>1. CASE ListenerCommits(l)
        BY <1>0, <3>1 DEF ListenerCommits, LockInv, LoadFine, HasRow
      <3>2. CASE ListenerConflicts(l) \/ ListenerSubmits(l)
        BY <3>2 DEF ListenerConflicts, ListenerSubmits
      <3>3. QED
        BY <1>3, <3>1, <3>2
    <2>2. Sourceless'
      BY <1>0, <2>1 DEF Sourceless
    <2>3. CASE ListenerCommits(l)
      <3>1. /\ loads' = [Conflicts(Loads \ {l}) EXCEPT ![l].at = "submit"]
            /\ Conflicts(Loads \ {l}) \in [Loads -> Load] /\ Conflicts(Loads \ {l})[l] = loads[l]
        BY <1>0, <2>3, ConflictsType DEF ListenerCommits
      <3>2. loads'[l] = [loads[l] EXCEPT !.at = "submit"] /\ "submit" \in LoadPC
        BY <3>1 DEF LoadPC
      <3>3. loads'[l].at = "submit"
        BY <1>0, <3>2, MovedLoad
      <3>4. Submits'
        BY <3>3 DEF Submits
      <3>5. Shows'
        BY <3>4, AskedShows DEF Asked
      <3>6. QED
        BY <1>1, <2>2, <3>5 DEF ShowInv
    <2>4. CASE ListenerConflicts(l) \/ ListenerSubmits(l)
      <3>1. queue' = Append(queue, "replace")
        BY <2>4 DEF ListenerConflicts, ListenerSubmits
      <3>2. Shows'
        BY <1>0, <3>1, QueueReplace, AskedShows
      <3>3. QED
        BY <1>1, <2>2, <3>2 DEF ShowInv
    <2>5. QED
      BY <1>3, <2>3, <2>4
  <1>4. QED
    BY <1>2, <1>3 DEF Loading

LEMMA GoneShown ==
  ASSUME ShowInv, OwnInv', DeleteConnection \/ TaskRemove \/ Restart
  PROVE  ShowInv'
  <1> USE DEF dataVars, vdbVars, lockVars, countVars
  <1>0. /\ LockInv /\ TypeOK /\ ExecFine /\ Sourceless /\ (Judged => Shows)
    BY ShownTypes DEF ShowInv
  <1>1. CASE DeleteConnection
    <2>1. row' = None /\ row # None /\ Starts(Executor, "unregister", None, row.id)
      BY <1>1 DEF DeleteConnection
    <2>2. thread'[Executor].at = "unregister" /\ thread'[Executor].mode = None
      BY <1>0, <2>1, ActorTypes DEF Starts, TypeOK
    <2>3. ExecFine' /\ Sourceless' /\ ~Judged'
      BY <2>1, <2>2, NotReplace DEF ExecFine, Sourceless, Judged, Replacing, HoldsConn
    <2>4. QED
      BY <2>3 DEF ShowInv
  <1>2. CASE TaskRemove
    <2>1. /\ queue # <<>> /\ Head(queue) = "remove" /\ queue' = Tail(queue) /\ connVdb' = None
          /\ UNCHANGED <<row, source, loads, thread, failures>>
      BY <1>2 DEF TaskRemove
    <2>2. ExecFine'
      BY <1>0, <2>1, SameExec
    <2>3. Queued("replace")' => Queued("replace")
      BY <1>0, <2>1, QueueTail DEF Queued
    <2>4. Sourceless'
      BY <1>0, <2>1, <2>3 DEF Sourceless
    <2>5. ASSUME Judged  PROVE Shows'
      <3>1. Submits \/ RemovesFirst
        BY <1>0, <2>5 DEF Shows
      <3>2. Submits => Submits'
        BY <2>1 DEF Submits
      <3>3. ASSUME RemovesFirst  PROVE Queued("replace")' /\ RemovesFirst'
        <4>1. PICK j \in 1..Len(queue) : 1 < j /\ queue[j] = "replace"
          BY <1>0, <2>1, <3>3, QueueTail DEF RemovesFirst
        <4>2. QED
          BY <1>0, <2>1, <3>3, <4>1, QueueTail DEF Queued
      <3>4. QED
        BY <3>1, <3>2, <3>3, AskedShows DEF Asked
    <2>6. Judged' => Judged
      BY <2>1 DEF Judged
    <2>7. QED
      BY <2>2, <2>4, <2>5, <2>6 DEF ShowInv
  <1>3. CASE Restart
    <2>1. /\ source' = None /\ loads' = [l \in Loads |-> Unused] /\ connVdb' = None
          /\ thread' = [a \in Actors |-> Idle] /\ queue' = <<>>
      BY <1>3 DEF Restart
    <2>2. \A b \in Actors : thread'[b] = Idle
      BY <2>1
    <2>3. 1..Len(queue') = {}
      BY <2>1
    <2>4. ExecFine' /\ Sourceless'
      BY <2>1, <2>2, <2>3, ActorTypes, NotReplace
         DEF ExecFine, Sourceless, Replacing, HoldsConn, Idle, Queued
    <2>5. Shows'
      BY <2>1, <2>2, <2>3 DEF Shows, RemovesFirst, LateFine, Idle, Steps
    <2>6. QED
      BY <2>4, <2>5 DEF ShowInv
  <1>4. QED
    BY <1>1, <1>2, <1>3

LEMMA NextShown == ShowInv /\ [Next]_vars => ShowInv'
  <1> SUFFICES ASSUME ShowInv, [Next]_vars  PROVE ShowInv'
    OBVIOUS
  <1>0. OwnInv'
    BY NextOwn DEF ShowInv
  <1>1. CASE UNCHANGED vars
    <2>1. UNCHANGED <<row, source, queue, connVdb, failures, loads, thread>>
      BY <1>1 DEF vars, dataVars, vdbVars, countVars
    <2>2. ExecFine' /\ Sourceless'
      BY <2>1, SameExec, SameSource DEF ShowInv
    <2>3. Judged' => Shows'
      BY <2>1, SameShows DEF ShowInv, Submits, Replacing
    <2>4. QED
      BY <1>0, <2>2, <2>3 DEF ShowInv
  <1>2. ASSUME NEW a \in Actors, Deploying(a)  PROVE ShowInv'
    BY <1>0, <1>2, ReadShown, CheckShown, UndeployShown, DeployShown DEF Deploying
  <1>3. ASSUME NEW l \in Loads, Loading(l)  PROVE ShowInv'
    BY <1>0, <1>3, LoadingShown
  <1>4. QED
    BY <1>0, <1>1, <1>2, <1>3, AskShown, ExecShown, GoneShown DEF Next

\* As long as a data source could be made, the connection vdb shows the schema in
\* the row or is about to be replaced, whatever requests had read before that
\* schema was stored, for any number of requests, loads and connections.
THEOREM ShowsRowCorrect == Spec => []ShowsRow
  <1>1. ShowInv => ShowsRow
    BY DEF ShowInv, Judged, Shows, ShowsRow, ReplacePending, Asked, Submits, Replacing
  <1>2. QED
    BY InitShown, NextShown, <1>1, PTL DEF Spec
=============================================================================
