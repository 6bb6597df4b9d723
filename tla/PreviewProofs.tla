---------------------------- MODULE PreviewProofs ----------------------------
(***************************************************************************)
(* Proofs about PreviewVdb: the two locks, and the label of a service vdb. *)
(***************************************************************************)
EXTENDS PreviewVdb, TLAPS

\* The thread between undeploy and deploy, and the executor while the main
\* preview vdb is gone, hold masterLock.
MasterDiscipline ==
  /\ \A t \in Threads : thread[t].at \in {"undeploy", "deploy"} => masterLock = t
  /\ refresh.at \in {"drop", "deploy"} => masterLock = "executor"
  /\ preview = None => refresh.at = "deploy"

\* Every variable has its type, and a thread that does something knows for
\* which virtualization.
Shape == TypeOK /\ \A t \in Threads : thread[t].at # "idle" => thread[t].dv \in DVs

LEMMA ShapeInit == Init => Shape
  <1> SUFFICES ASSUME Init  PROVE Shape
    OBVIOUS
  <1> USE PreviewAssumption
  <1>1. Idle \in Thread /\ Rest \in Refresh /\ Empty \in Preview
    BY DEF Idle, Begins, Rest, Empty, Thread, Refresh, Preview, ThreadPC, RefreshPC
  <1>2. thread \in [Threads -> Thread] /\ \A t \in Threads : thread[t].at = "idle"
    BY <1>1 DEF Init, Idle, Begins
  <1>3. refresh \in Refresh /\ preview \in Preview /\ conn \in [Conns -> 0..MaxGen]
    BY <1>1 DEF Init, Preview
  <1>4. QED
    BY <1>2, <1>3 DEF Init, Shape, TypeOK

LEMMA ShapeRows ==
  ASSUME Shape, NEW d \in DVs, Edit(d) \/ EditUntouched(d) \/ Describe(d) \/ Create(d)
  PROVE  Shape'
  <1> USE PreviewAssumption
  <1>1. version' \in [DVs -> (0..MaxVersion) \cup {None}]
    <2>1. version[d] # None => version[d] \in 0..MaxVersion
      BY DEF Shape, TypeOK
    <2>2. CASE version' = [version EXCEPT ![d] = @ + 1] /\ version[d] # None
                /\ version[d] < MaxVersion
      <3>1. version[d] + 1 \in 0..MaxVersion
        BY <2>1, <2>2
      <3>2. QED
        BY <2>2, <3>1 DEF Shape, TypeOK
    <2>3. CASE version' = [version EXCEPT ![d] = 0]
      BY <2>3 DEF Shape, TypeOK
    <2>4. CASE version' = version
      BY <2>4 DEF Shape, TypeOK
    <2>5. QED
      BY <2>2, <2>3, <2>4 DEF Edit, EditUntouched, Describe, Create
  <1>2. /\ content' \in [DVs -> 0..MaxStamp] /\ touched' \in [DVs -> 0..MaxStamp]
        /\ stamp' \in 0..MaxStamp
    BY DEF Shape, TypeOK, Edit, EditUntouched, Describe, Create
  <1>3. QED
    BY <1>1, <1>2 DEF Shape, TypeOK, Edit, EditUntouched, Describe, Create, connVars, lockVars, execVars

\* What a thread does next has the type of a thread.
LEMMA ThreadStep ==
  ASSUME Shape, NEW t \in Threads, NEW r \in Thread, r.at # "idle" => r.dv \in DVs,
         thread' = [thread EXCEPT ![t] = r]
  PROVE  /\ thread' \in [Threads -> Thread]
         /\ \A u \in Threads : thread'[u].at # "idle" => thread'[u].dv \in DVs
  BY DEF Shape, TypeOK

LEMMA IdleThread == Idle \in Thread /\ Idle.at = "idle"
  BY PreviewAssumption DEF Idle, Begins, Thread, ThreadPC

LEMMA GotoStep ==
  ASSUME Shape, NEW t \in Threads, thread[t].at # "idle", NEW at \in ThreadPC, Goto(t, at)
  PROVE  /\ thread' \in [Threads -> Thread]
         /\ \A u \in Threads : thread'[u].at # "idle" => thread'[u].dv \in DVs
  <1> DEFINE r == [thread[t] EXCEPT !.at = at]
  <1>1. r \in Thread /\ r.dv = thread[t].dv
    BY DEF Shape, TypeOK, Thread
  <1>2. thread' = [thread EXCEPT ![t] = r] /\ thread[t].dv \in DVs
    BY DEF Goto, Shape
  <1> HIDE DEF r
  <1>3. QED
    BY <1>1, <1>2, ThreadStep

\* A thread that takes note of some views and goes on.
LEMMA NoteStep ==
  ASSUME Shape, NEW t \in Threads, thread[t].at # "idle",
         NEW at \in ThreadPC, NEW c \in 0..MaxStamp, NEW l \in BOOLEAN,
         thread' = [thread EXCEPT ![t].at = at, ![t].content = c, ![t].listed = l]
  PROVE  /\ thread' \in [Threads -> Thread]
         /\ \A u \in Threads : thread'[u].at # "idle" => thread'[u].dv \in DVs
  <1> DEFINE r == [thread[t] EXCEPT !.at = at, !.content = c, !.listed = l]
  <1>1. r \in Thread /\ r.dv = thread[t].dv
    BY DEF Shape, TypeOK, Thread
  <1>2. thread' = [thread EXCEPT ![t] = r] /\ thread[t].dv \in DVs
    BY DEF Shape
  <1> HIDE DEF r
  <1>3. QED
    BY <1>1, <1>2, ThreadStep

LEMMA ReturnStep ==
  ASSUME Shape, NEW t \in Threads, thread[t].at # "idle", Current(t), Return(t)
  PROVE  /\ thread' \in [Threads -> Thread]
         /\ \A u \in Threads : thread'[u].at # "idle" => thread'[u].dv \in DVs
  <1>1. /\ service[thread[t].dv].content \in 0..MaxStamp /\ "done" \in ThreadPC
        /\ service[thread[t].dv].listed \in BOOLEAN
    BY DEF Shape, TypeOK, Current, Vdb, ThreadPC
  <1>2. QED
    BY <1>1, NoteStep DEF Return

LEMMA ShapeRequests ==
  ASSUME Shape, NEW t \in Threads,
         RequestStep(t) \/ \E d \in DVs : Delete(t, d) \/ UpdateRead(t, d) \/ ListViews(t, d)
  PROVE  Shape'
  <1> USE PreviewAssumption DEF rowVars, connVars, lockVars, execVars
  <1>0. {"find", "remove", "list", "check", "lock", "recheck", "views",
         "master", "undeploy", "deploy", "done"} \subseteq ThreadPC
    BY DEF ThreadPC
  <1>1. ASSUME NEW d \in DVs, Delete(t, d)  PROVE Shape'
    <2> DEFINE r == Begins("find", d, 0, 0)
    <2>1. thread' = [thread EXCEPT ![t] = r]
      BY <1>1 DEF Delete
    <2>2. r \in Thread /\ r.dv = d
      BY DEF Begins, Thread, ThreadPC
    <2> HIDE DEF r
    <2>3. /\ thread' \in [Threads -> Thread]
          /\ \A u \in Threads : thread'[u].at # "idle" => thread'[u].dv \in DVs
      BY <2>1, <2>2, ThreadStep
    <2>4. /\ version' \in [DVs -> (0..MaxVersion) \cup {None}]
          /\ content' \in [DVs -> 0..MaxStamp] /\ touched' \in [DVs -> 0..MaxStamp]
      BY <1>1 DEF Shape, TypeOK, Delete
    <2>5. QED
      BY <1>1, <2>3, <2>4 DEF Shape, TypeOK, Delete
  <1>2. ASSUME NEW d \in DVs, UpdateRead(t, d)  PROVE Shape'
    <2> DEFINE r == Begins("check", d, version[d], touched[d])
    <2>1. version[d] \in 0..MaxVersion /\ touched[d] \in 0..MaxStamp
      BY <1>2 DEF Shape, TypeOK, UpdateRead
    <2>2. r \in Thread /\ r.dv = d
      BY <2>1 DEF Begins, Thread, ThreadPC
    <2>3. thread' = [thread EXCEPT ![t] = r]
      BY <1>2 DEF UpdateRead
    <2> HIDE DEF r
    <2>4. /\ thread' \in [Threads -> Thread]
          /\ \A u \in Threads : thread'[u].at # "idle" => thread'[u].dv \in DVs
      BY <2>2, <2>3, ThreadStep
    <2>5. QED
      BY <1>2, <2>4 DEF Shape, TypeOK, UpdateRead
  <1>2a. ASSUME NEW d \in DVs, ListViews(t, d)  PROVE Shape'
    <2> DEFINE r == [at |-> "list", dv |-> d, version |-> 0, floor |-> touched[d],
                     content |-> content[d], listed |-> TRUE]
    <2>1. content[d] \in 0..MaxStamp /\ touched[d] \in 0..MaxStamp
      BY <1>2a DEF Shape, TypeOK
    <2>2. r \in Thread /\ r.dv = d
      BY <2>1 DEF Thread, ThreadPC
    <2>3. thread' = [thread EXCEPT ![t] = r]
      BY <1>2a DEF ListViews
    <2> HIDE DEF r
    <2>4. /\ thread' \in [Threads -> Thread]
          /\ \A u \in Threads : thread'[u].at # "idle" => thread'[u].dv \in DVs
      BY <2>2, <2>3, ThreadStep
    <2>5. QED
      BY <1>2a, <2>4 DEF Shape, TypeOK, ListViews
  <1>2b. CASE ListRead(t)
    <2> DEFINE v == version[thread[t].dv]
    <2>1. thread[t].at = "list" /\ thread[t].dv \in DVs /\ thread[t] \in Thread
      BY <1>2b DEF ListRead, Shape, TypeOK
    <2>2. /\ thread' \in [Threads -> Thread]
          /\ \A u \in Threads : thread'[u].at # "idle" => thread'[u].dv \in DVs
      <3>1. CASE v = None
        BY <1>2b, <3>1, IdleThread, ThreadStep DEF ListRead
      <3>2. CASE v # None
        <4> DEFINE r == [thread[t] EXCEPT !.at = "check", !.version = v]
        <4>1. v \in 0..MaxVersion
          BY <2>1, <3>2 DEF Shape, TypeOK
        <4>2. r \in Thread /\ r.dv \in DVs
          BY <1>0, <2>1, <4>1 DEF Thread
        <4>3. thread' = [thread EXCEPT ![t] = r]
          BY <1>2b, <3>2 DEF ListRead
        <4> HIDE DEF r
        <4>4. QED
          BY <4>2, <4>3, ThreadStep
      <3>3. QED
        BY <3>1, <3>2
    <2>3. QED
      BY <1>2b, <2>2 DEF Shape, TypeOK, ListRead
  <1>3. CASE RemoveFind(t)
    <2>1. /\ thread' \in [Threads -> Thread]
          /\ \A u \in Threads : thread'[u].at # "idle" => thread'[u].dv \in DVs
      <3>1. CASE service[thread[t].dv] = None
        BY <1>3, <3>1, IdleThread, ThreadStep DEF RemoveFind
      <3>2. CASE service[thread[t].dv] # None
        BY <1>0, <1>3, <3>2, GotoStep DEF RemoveFind, Goto
      <3>3. QED
        BY <3>1, <3>2
    <2>2. QED
      BY <1>3, <2>1 DEF Shape, TypeOK, RemoveFind
  <1>4. CASE RemoveUndeploy(t)
    <2>1. /\ thread' \in [Threads -> Thread]
          /\ \A u \in Threads : thread'[u].at # "idle" => thread'[u].dv \in DVs
      BY <1>4, IdleThread, ThreadStep DEF RemoveUndeploy
    <2>2. service' \in [DVs -> Vdb \cup {None}]
      BY <1>4 DEF Shape, TypeOK, RemoveUndeploy
    <2>3. QED
      BY <1>4, <2>1, <2>2 DEF Shape, TypeOK, RemoveUndeploy
  <1>5. CASE UpdateCheck(t) \/ UpdateRecheck(t)
    <2>1. thread[t].at # "idle"
      BY <1>5 DEF UpdateCheck, UpdateRecheck
    <2>2. /\ thread' \in [Threads -> Thread]
          /\ \A u \in Threads : thread'[u].at # "idle" => thread'[u].dv \in DVs
      <3>1. CASE Current(t)
        BY <1>5, <2>1, <3>1, ReturnStep DEF UpdateCheck, UpdateRecheck
      <3>2. CASE ~Current(t)
        BY <1>0, <1>5, <2>1, <3>2, GotoStep DEF UpdateCheck, UpdateRecheck
      <3>3. QED
        BY <3>1, <3>2
    <2>3. dvLock' \in [DVs -> Threads \cup {None}]
      BY <1>5 DEF Shape, TypeOK, UpdateCheck, UpdateRecheck
    <2>4. QED
      BY <1>5, <2>2, <2>3 DEF Shape, TypeOK, UpdateCheck, UpdateRecheck
  <1>6. CASE UpdateViews(t)
    <2>1. /\ thread[t].at # "idle" /\ thread[t].dv \in DVs /\ thread[t] \in Thread
          /\ content[thread[t].dv] \in 0..MaxStamp
      BY <1>6 DEF Shape, TypeOK, UpdateViews
    <2>2. Found(t) \subseteq 0..MaxStamp
      BY <2>1 DEF Found, Thread
    <2>2a. PICK c \in 0..MaxStamp : thread' = [thread EXCEPT ![t].at = "master", ![t].content = c]
      BY <1>6, <2>2 DEF UpdateViews
    <2>2b. thread' = [thread EXCEPT ![t].at = "master", ![t].content = c, ![t].listed = @]
      BY <2>1, <2>2a DEF Shape, TypeOK, Thread
    <2>2c. /\ thread' \in [Threads -> Thread]
          /\ \A u \in Threads : thread'[u].at # "idle" => thread'[u].dv \in DVs
      BY <1>0, <2>1, <2>2b, NoteStep DEF Thread
    <2>3. QED
      BY <1>6, <2>2c DEF Shape, TypeOK, UpdateViews
  <1>7. CASE UpdateLock(t) \/ UpdateMaster(t) \/ UpdateUndeploy(t) \/ UpdateDeploy(t)
    <2>1. /\ thread' \in [Threads -> Thread]
          /\ \A u \in Threads : thread'[u].at # "idle" => thread'[u].dv \in DVs
      BY <1>0, <1>7, GotoStep DEF UpdateLock, UpdateMaster, UpdateUndeploy, UpdateDeploy
    <2>2. masterLock' \in Threads \cup {"executor", None} /\ dvLock' \in [DVs -> Threads \cup {None}]
      BY <1>7 DEF Shape, TypeOK, UpdateLock, UpdateMaster, UpdateUndeploy, UpdateDeploy
    <2>3. service' \in [DVs -> Vdb \cup {None}]
      <3>1. CASE UpdateDeploy(t)
        <4> DEFINE v == [label |-> thread[t].version, content |-> thread[t].content,
                         base |-> preview, listed |-> thread[t].listed]
        <4>1. v \in Vdb
          BY <3>1 DEF Shape, TypeOK, Vdb, Thread, UpdateDeploy
        <4>2. service' = [service EXCEPT ![thread[t].dv] = v]
          BY <3>1 DEF UpdateDeploy
        <4> HIDE DEF v
        <4>3. QED
          BY <4>1, <4>2 DEF Shape, TypeOK
      <3>2. QED
        BY <1>7, <3>1 DEF Shape, TypeOK, UpdateLock, UpdateMaster, UpdateUndeploy
    <2>4. QED
      BY <1>7, <2>1, <2>2, <2>3
      DEF Shape, TypeOK, UpdateLock, UpdateMaster, UpdateUndeploy, UpdateDeploy
  <1>8. QED
    BY <1>1, <1>2, <1>2a, <1>2b, <1>3, <1>4, <1>5, <1>6, <1>7 DEF RequestStep

LEMMA ShapeExecutor ==
  ASSUME Shape,
         Executor \/ AskRefresh \/ \E c \in Conns : ConnectionDeploy(c) \/ ConnectionRemove(c)
  PROVE  Shape'
  <1> USE PreviewAssumption DEF rowVars, connVars, lockVars, execVars
  <1>1. ASSUME refresh' \in Refresh, conn' \in [Conns -> 0..MaxGen], gen' \in 0..MaxGen,
               preview' \in Preview \cup {None}, service' \in [DVs -> Vdb \cup {None}],
               masterLock' \in Threads \cup {"executor", None}, owed' \in Nat, refreshes' \in Nat,
               UNCHANGED <<rowVars, dvLock, thread>>
        PROVE  Shape'
    BY <1>1 DEF Shape, TypeOK
  <1>2. \A at \in RefreshPC : [refresh EXCEPT !.at = at] \in Refresh
    BY DEF Shape, TypeOK, Refresh
  <1>3. ASSUME NEW c \in Conns, ConnectionDeploy(c)  PROVE Shape'
    <2>1. gen' \in 0..MaxGen /\ conn' \in [Conns -> 0..MaxGen] /\ owed' \in Nat
      BY <1>3 DEF Shape, TypeOK, ConnectionDeploy
    <2>2. QED
      BY <1>1, <1>3, <2>1 DEF Shape, TypeOK, ConnectionDeploy
  <1>4. ASSUME NEW c \in Conns, ConnectionRemove(c)  PROVE Shape'
    <2>1. refresh' \in Refresh /\ conn' \in [Conns -> 0..MaxGen]
      BY <1>2, <1>4 DEF Shape, TypeOK, ConnectionRemove, RefreshPC
    <2>2. QED
      BY <1>1, <1>4, <2>1 DEF Shape, TypeOK, ConnectionRemove
  <1>5. CASE AskRefresh
    BY <1>1, <1>5 DEF Shape, TypeOK, AskRefresh
  <1>6. CASE RefreshStart
    <2>1. refresh' \in Refresh /\ refreshes' \in Nat
      BY <1>2, <1>6 DEF Shape, TypeOK, RefreshStart, RefreshPC
    <2>2. QED
      BY <1>1, <1>6, <2>1 DEF Shape, TypeOK, RefreshStart
  <1>7. CASE RefreshList
    <2>1. refresh' \in Refresh
      BY <1>7 DEF RefreshList, Refresh, RefreshPC
    <2>2. QED
      BY <1>1, <1>7, <2>1 DEF Shape, TypeOK, RefreshList
  <1>8. ASSUME NEW d \in DVs, RefreshUndeploy(d)  PROVE Shape'
    <2>1. refresh' \in Refresh /\ service' \in [DVs -> Vdb \cup {None}]
      BY <1>8 DEF Shape, TypeOK, RefreshUndeploy, Refresh
    <2>2. QED
      BY <1>1, <1>8, <2>1 DEF Shape, TypeOK, RefreshUndeploy
  <1>9. CASE RefreshMaster \/ RefreshDrop
    <2>1. refresh' \in Refresh
      BY <1>2, <1>9 DEF RefreshMaster, RefreshDrop, RefreshPC
    <2>2. QED
      BY <1>1, <1>9, <2>1 DEF Shape, TypeOK, RefreshMaster, RefreshDrop
  <1>10. CASE RefreshDeploy
    <2>1. preview' \in Preview
      BY <1>10 DEF Shape, TypeOK, RefreshDeploy, Preview
    <2>2. refresh' \in Refresh
      BY <1>10 DEF RefreshDeploy, Rest, Refresh, RefreshPC
    <2>3. QED
      BY <1>1, <1>10, <2>1, <2>2 DEF Shape, TypeOK, RefreshDeploy
  <1>11. QED
    BY <1>3, <1>4, <1>5, <1>6, <1>7, <1>8, <1>9, <1>10 DEF Executor

LEMMA ShapeCorrect == Spec => []Shape
  <1>1. Shape /\ [Next]_vars => Shape'
    <2> SUFFICES ASSUME Shape, [Next]_vars  PROVE Shape'
      OBVIOUS
    <2>1. CASE UNCHANGED vars
      BY <2>1 DEF Shape, TypeOK, vars, rowVars, connVars, lockVars, execVars
    <2>2. QED
      BY <2>1, ShapeRows, ShapeRequests, ShapeExecutor DEF Next
  <1>2. QED
    BY <1>1, ShapeInit, PTL DEF Spec

\* Type correctness of updatePreviewVdb and refreshPreviewVdb.
THEOREM PreviewTypeCorrect == Spec => []TypeOK
  BY ShapeCorrect, PTL DEF Shape

-----------------------------------------------------------------------------
\* Undeploy and deploy of the main preview vdb are one step for whoever deploys
\* a service vdb, for any number of threads, virtualizations and connections.
THEOREM PreviewThereCorrect == Spec => []PreviewThere
  <1>1. Init => MasterDiscipline
    BY PreviewAssumption DEF Init, MasterDiscipline, Idle, Begins, Rest, Empty
  <1>2. Shape /\ MasterDiscipline /\ [Next]_vars => MasterDiscipline'
    <2> SUFFICES ASSUME Shape, MasterDiscipline, [Next]_vars  PROVE MasterDiscipline'
      OBVIOUS
    <2> USE PreviewAssumption DEF rowVars, connVars, lockVars, execVars
    <2>1. ASSUME NEW d \in DVs, Edit(d) \/ EditUntouched(d) \/ Describe(d) \/ Create(d)  PROVE MasterDiscipline'
      BY <2>1 DEF MasterDiscipline, Edit, EditUntouched, Describe, Create
    <2>2. ASSUME NEW t \in Threads, NEW d \in DVs, Delete(t, d) \/ UpdateRead(t, d) \/ ListViews(t, d)
          PROVE  MasterDiscipline'
      <3>1. thread \in [Threads -> Thread]
        BY DEF Shape, TypeOK
      <3>2. \A u \in Threads : thread'[u] = thread[u] \/ thread'[u].at \in {"find", "list", "check"}
        BY <2>2, <3>1 DEF Delete, UpdateRead, ListViews, Begins
      <3>3. QED
        BY <2>2, <3>2 DEF MasterDiscipline, Delete, UpdateRead, ListViews
    <2>3. ASSUME NEW t \in Threads, RequestStep(t)  PROVE MasterDiscipline'
      <3>0. thread \in [Threads -> Thread]
        BY DEF Shape, TypeOK
      <3>1. CASE RemoveFind(t) \/ RemoveUndeploy(t)
        <4>1. \A u \in Threads : thread'[u] = thread[u] \/ thread'[u].at \in {"idle", "remove"}
          BY <3>0, <3>1 DEF RemoveFind, RemoveUndeploy, Idle, Begins, Thread
        <4>2. QED
          BY <3>1, <4>1 DEF MasterDiscipline, RemoveFind, RemoveUndeploy
      <3>1a. CASE ListRead(t)
        <4>1. \A u \in Threads : u # t => thread'[u] = thread[u]
          BY <3>0, <3>1a DEF ListRead
        <4>2. thread'[t].at \in {"idle", "check"}
          <5>1. CASE version[thread[t].dv] = None
            BY <3>0, <3>1a, <5>1 DEF ListRead, Idle, Begins
          <5>2. CASE version[thread[t].dv] # None
            BY <3>0, <3>1a, <5>2 DEF ListRead, Thread
          <5>3. QED
            BY <5>1, <5>2
        <4>3. QED
          BY <3>1a, <4>1, <4>2 DEF MasterDiscipline, ListRead
      <3>2. CASE UpdateCheck(t) \/ UpdateLock(t) \/ UpdateRecheck(t) \/ UpdateViews(t)
        <4>1. \A u \in Threads : \/ thread'[u] = thread[u]
                                 \/ thread'[u].at \in {"done", "lock", "recheck", "views", "master"}
          BY <3>0, <3>2 DEF UpdateCheck, UpdateLock, UpdateRecheck, UpdateViews, Return, Goto, Thread
        <4>2. QED
          BY <3>2, <4>1 DEF MasterDiscipline, UpdateCheck, UpdateLock, UpdateRecheck, UpdateViews
      <3>3. CASE UpdateMaster(t)
        <4>1. \A u \in Threads : thread'[u] # thread[u] => u = t
          BY <3>0, <3>3 DEF UpdateMaster, Goto
        <4>2. masterLock' = t /\ UNCHANGED <<refresh, preview>>
          BY <3>3 DEF UpdateMaster
        <4>3. \A u \in Threads : thread[u].at \notin {"undeploy", "deploy"}
          BY <3>3 DEF UpdateMaster, MasterDiscipline
        <4>4. refresh.at \notin {"drop", "deploy"}
          BY <3>3 DEF UpdateMaster, MasterDiscipline
        <4>5. QED
          BY <4>1, <4>2, <4>3, <4>4 DEF MasterDiscipline
      <3>4. CASE UpdateUndeploy(t)
        <4>0. thread' = [thread EXCEPT ![t].at = "deploy"]
          BY <3>4 DEF UpdateUndeploy, Goto
        <4>1. \A u \in Threads : thread'[u] # thread[u] => u = t
          BY <3>0, <4>0
        <4>2. masterLock = t /\ refresh.at \notin {"drop", "deploy"}
          BY <3>4 DEF MasterDiscipline, UpdateUndeploy
        <4>3. QED
          BY <3>4, <4>1, <4>2 DEF MasterDiscipline, UpdateUndeploy
      <3>5. CASE UpdateDeploy(t)
        <4>1. \A u \in Threads : thread'[u] = thread[u] \/ thread'[u].at = "done"
          BY <3>0, <3>5 DEF UpdateDeploy, Goto, Thread
        <4>2. \A u \in Threads : thread'[u] # thread[u] => u = t
          BY <3>0, <3>5 DEF UpdateDeploy, Goto
        <4>3. thread[t].at = "deploy" /\ thread'[t].at = "done"
          BY <3>0, <3>5 DEF UpdateDeploy, Goto, Thread
        <4>4. QED
          BY <3>5, <4>1, <4>2, <4>3 DEF MasterDiscipline, UpdateDeploy
      <3>6. QED
        BY <2>3, <3>1, <3>1a, <3>2, <3>3, <3>4, <3>5 DEF RequestStep
    <2>4. ASSUME NEW c \in Conns, ConnectionDeploy(c) \/ ConnectionRemove(c)
          PROVE  MasterDiscipline'
      BY <2>4 DEF Shape, TypeOK, Thread, Refresh, MasterDiscipline, ConnectionDeploy, ConnectionRemove, Rest
    <2>5. CASE AskRefresh
      BY <2>5 DEF MasterDiscipline, AskRefresh
    <2>6. CASE Executor
      <3>1. CASE RefreshStart \/ RefreshList
        BY <3>1 DEF Shape, TypeOK, Thread, Refresh, MasterDiscipline, RefreshStart, RefreshList, Rest
      <3>2. ASSUME NEW d \in DVs, RefreshUndeploy(d)  PROVE MasterDiscipline'
        BY <3>2 DEF Shape, TypeOK, Thread, Refresh, MasterDiscipline, RefreshUndeploy
      <3>3. CASE RefreshMaster
        BY <3>3 DEF Shape, TypeOK, Thread, Refresh, MasterDiscipline, RefreshMaster
      <3>4. CASE RefreshDrop
        BY <3>4 DEF Shape, TypeOK, Thread, Refresh, MasterDiscipline, RefreshDrop
      <3>5. CASE RefreshDeploy
        <4>1. preview' \in [Conns -> 0..MaxGen]
          BY <3>5 DEF Shape, TypeOK, RefreshDeploy
        <4>2. preview' # None
          BY <4>1
        <4>3. QED
          BY <3>5, <4>2 DEF MasterDiscipline, RefreshDeploy, Rest
      <3>6. QED
        BY <2>6, <3>1, <3>2, <3>3, <3>4, <3>5 DEF Executor
    <2>7. CASE UNCHANGED vars
      BY <2>7 DEF MasterDiscipline, vars
    <2>8. QED
      BY <2>1, <2>2, <2>3, <2>4, <2>5, <2>6, <2>7 DEF Next
  <1>3. MasterDiscipline => PreviewThere
    BY PreviewAssumption DEF MasterDiscipline, PreviewThere
  <1>4. QED
    BY <1>1, <1>2, <1>3, ShapeCorrect, PTL DEF Spec

-----------------------------------------------------------------------------
(* The two locks.                                                          *)

\* Whoever holds the lock of a virtualization is between taking and releasing it,
\* for that virtualization; whoever holds masterLock waits for nothing.
LockDiscipline ==
  /\ \A d \in DVs : dvLock[d] # None =>
       /\ thread[dvLock[d]].dv = d
       /\ thread[dvLock[d]].at \in {"recheck", "views", "master", "undeploy", "deploy"}
  /\ masterLock \in Threads => thread[masterLock].at \in {"undeploy", "deploy"}
  /\ masterLock = "executor" => refresh.at \in {"drop", "deploy"}

\* A step that takes no lock, of a thread that holds none.
LEMMA LockFree ==
  ASSUME Shape, LockDiscipline, UNCHANGED <<lockVars, refresh>>,
         NEW t \in Threads, \A u \in Threads : u # t => thread'[u] = thread[u],
         thread[t].at \notin {"recheck", "views", "master", "undeploy", "deploy"}
  PROVE  LockDiscipline'
  <1>1. \A d \in DVs : dvLock[d] # None => dvLock[d] \in Threads /\ dvLock[d] # t
    BY DEF Shape, TypeOK, LockDiscipline
  <1>2. masterLock # t
    BY DEF LockDiscipline
  <1>3. QED
    BY <1>1, <1>2 DEF LockDiscipline, lockVars

LEMMA LockRequests ==
  ASSUME Shape, LockDiscipline, NEW t \in Threads, RequestStep(t)
  PROVE  LockDiscipline'
  <1> USE PreviewAssumption DEF rowVars, connVars, lockVars, execVars
  <1>0. /\ thread \in [Threads -> Thread] /\ dvLock \in [DVs -> Threads \cup {None}]
        /\ thread[t].at # "idle" => thread[t].dv \in DVs
    BY DEF Shape, TypeOK
  <1>1. CASE RemoveFind(t) \/ RemoveUndeploy(t) \/ ListRead(t) \/ UpdateCheck(t)
    <2>1. /\ thread[t].at \in {"find", "remove", "list", "check"}
          /\ \A u \in Threads : u # t => thread'[u] = thread[u]
      BY <1>0, <1>1 DEF RemoveFind, RemoveUndeploy, ListRead, UpdateCheck, Return, Goto
    <2>2. QED
      BY <1>1, <2>1, LockFree DEF RemoveFind, RemoveUndeploy, ListRead, UpdateCheck
  <1>2. ASSUME NEW at \in {"recheck", "views", "master", "undeploy", "deploy"},
               thread'[t].at = at, thread'[t].dv = thread[t].dv,
               \A u \in Threads : u # t => thread'[u] = thread[u],
               masterLock' = t => at \in {"undeploy", "deploy"},
               masterLock' \in {masterLock, t}, refresh' = refresh,
               \A d \in DVs : dvLock'[d] = dvLock[d] \/ (dvLock'[d] = t /\ d = thread[t].dv)
        PROVE  LockDiscipline'
    <2>1. ASSUME NEW d \in DVs, dvLock'[d] # None
          PROVE  /\ thread'[dvLock'[d]].dv = d
                 /\ thread'[dvLock'[d]].at \in {"recheck", "views", "master", "undeploy", "deploy"}
      <3>1. CASE dvLock'[d] = t
        BY <1>2, <2>1, <3>1 DEF LockDiscipline
      <3>2. CASE dvLock'[d] # t
        BY <1>0, <1>2, <2>1, <3>2 DEF LockDiscipline
      <3>3. QED
        BY <3>1, <3>2
    <2>2. QED
      BY <1>2, <2>1 DEF LockDiscipline
  <1>3. CASE UpdateLock(t)
    <2>1. /\ thread'[t].at = "recheck" /\ thread'[t].dv = thread[t].dv /\ thread[t].at = "lock"
          /\ \A u \in Threads : u # t => thread'[u] = thread[u]
      BY <1>0, <1>3 DEF UpdateLock, Goto, Thread
    <2>2. \A d \in DVs : dvLock'[d] = dvLock[d] \/ (dvLock'[d] = t /\ d = thread[t].dv)
      BY <1>0, <1>3 DEF UpdateLock
    <2>3. masterLock' = masterLock /\ refresh' = refresh /\ masterLock # t
      BY <1>3, <2>1 DEF UpdateLock, LockDiscipline
    <2>4. QED
      BY <1>2, <2>1, <2>2, <2>3
  <1>4. CASE UpdateRecheck(t)
    <2>1. CASE Current(t)
      <3>1. /\ thread[t].at = "recheck" /\ thread[t].dv \in DVs
            /\ dvLock' = [dvLock EXCEPT ![thread[t].dv] = None]
            /\ \A u \in Threads : u # t => thread'[u] = thread[u]
            /\ UNCHANGED <<masterLock, refresh>>
        BY <1>0, <1>4, <2>1 DEF UpdateRecheck, Return
      <3>2. \A d \in DVs : dvLock'[d] # None => dvLock'[d] = dvLock[d] /\ dvLock[d] # t
        BY <1>0, <3>1 DEF LockDiscipline
      <3>3. masterLock # t
        BY <3>1 DEF LockDiscipline
      <3>4. QED
        BY <1>0, <3>1, <3>2, <3>3 DEF LockDiscipline
    <2>2. CASE ~Current(t)
      <3>1. /\ thread[t].at = "recheck" /\ thread'[t].at = "views" /\ thread'[t].dv = thread[t].dv
            /\ \A u \in Threads : u # t => thread'[u] = thread[u]
            /\ UNCHANGED <<lockVars, refresh>>
        BY <1>0, <1>4, <2>2 DEF UpdateRecheck, Goto, Thread
      <3>2. masterLock # t
        BY <3>1 DEF LockDiscipline
      <3>3. QED
        BY <1>2, <3>1, <3>2
    <2>3. QED
      BY <2>1, <2>2
  <1>5. CASE UpdateViews(t)
    <2>1. /\ thread[t].at = "views" /\ thread'[t].at = "master" /\ thread'[t].dv = thread[t].dv
          /\ \A u \in Threads : u # t => thread'[u] = thread[u]
          /\ UNCHANGED <<lockVars, refresh>>
      BY <1>0, <1>5 DEF UpdateViews, Thread
    <2>2. masterLock # t
      BY <2>1 DEF LockDiscipline
    <2>3. QED
      BY <1>2, <2>1, <2>2
  <1>6. CASE UpdateMaster(t)
    <2>1. /\ thread'[t].at = "undeploy" /\ thread'[t].dv = thread[t].dv
          /\ \A u \in Threads : u # t => thread'[u] = thread[u]
          /\ masterLock' = t /\ UNCHANGED <<dvLock, refresh>>
      BY <1>0, <1>6 DEF UpdateMaster, Goto, Thread
    <2>2. QED
      BY <1>2, <2>1
  <1>7. CASE UpdateUndeploy(t)
    <2>1. /\ thread'[t].at = "deploy" /\ thread'[t].dv = thread[t].dv
          /\ \A u \in Threads : u # t => thread'[u] = thread[u]
          /\ UNCHANGED <<lockVars, refresh>>
      BY <1>0, <1>7 DEF UpdateUndeploy, Goto, Thread
    <2>2. QED
      BY <1>2, <2>1
  <1>8. CASE UpdateDeploy(t)
    <2>1. /\ thread[t].at = "deploy" /\ thread[t].dv \in DVs
          /\ dvLock' = [dvLock EXCEPT ![thread[t].dv] = None] /\ masterLock' = None
          /\ \A u \in Threads : u # t => thread'[u] = thread[u]
          /\ refresh' = refresh
      BY <1>0, <1>8 DEF UpdateDeploy, Goto
    <2>2. \A d \in DVs : dvLock'[d] # None => dvLock'[d] = dvLock[d] /\ dvLock[d] # t
      BY <1>0, <2>1 DEF LockDiscipline
    <2>3. QED
      BY <1>0, <2>1, <2>2 DEF LockDiscipline
  <1>9. QED
    BY <1>1, <1>3, <1>4, <1>5, <1>6, <1>7, <1>8 DEF RequestStep

LEMMA LockExecutor ==
  ASSUME Shape, LockDiscipline, Executor
  PROVE  LockDiscipline'
  <1> USE PreviewAssumption DEF rowVars, connVars, lockVars, execVars
  <1>0. refresh \in Refresh /\ thread' = thread /\ dvLock' = dvLock
    BY DEF Shape, TypeOK, Executor, RefreshStart, RefreshList, RefreshUndeploy, RefreshMaster,
           RefreshDrop, RefreshDeploy
  <1>1. CASE RefreshStart \/ RefreshList
    <2>1. refresh.at \notin {"drop", "deploy"} /\ masterLock' = masterLock
      BY <1>1 DEF RefreshStart, RefreshList, Rest
    <2>2. QED
      BY <1>0, <2>1 DEF LockDiscipline
  <1>2. ASSUME NEW d \in DVs, RefreshUndeploy(d)  PROVE LockDiscipline'
    BY <1>0, <1>2 DEF RefreshUndeploy, LockDiscipline
  <1>3. CASE RefreshMaster
    BY <1>0, <1>3 DEF RefreshMaster, LockDiscipline, Refresh
  <1>4. CASE RefreshDrop
    BY <1>0, <1>4 DEF RefreshDrop, LockDiscipline, Refresh
  <1>5. CASE RefreshDeploy
    BY <1>0, <1>5 DEF RefreshDeploy, LockDiscipline
  <1>6. QED
    BY <1>1, <1>2, <1>3, <1>4, <1>5 DEF Executor

LEMMA LockNext ==
  ASSUME Shape, LockDiscipline, [Next]_vars
  PROVE  LockDiscipline'
  <1> USE PreviewAssumption DEF rowVars, connVars, lockVars, execVars
  <1>1. ASSUME NEW d \in DVs, Edit(d) \/ EditUntouched(d) \/ Describe(d) \/ Create(d)  PROVE LockDiscipline'
    BY <1>1 DEF LockDiscipline, Edit, EditUntouched, Describe, Create
  <1>2. ASSUME NEW t \in Threads, NEW d \in DVs, Delete(t, d) \/ UpdateRead(t, d) \/ ListViews(t, d)
        PROVE  LockDiscipline'
    <2>1. /\ thread[t].at \in {"idle", "done"} /\ UNCHANGED <<lockVars, refresh>>
          /\ \A u \in Threads : u # t => thread'[u] = thread[u]
      BY <1>2 DEF Shape, TypeOK, Delete, UpdateRead, ListViews
    <2>2. QED
      BY <2>1, LockFree
  <1>3. ASSUME NEW c \in Conns, ConnectionDeploy(c) \/ ConnectionRemove(c)
        PROVE  LockDiscipline'
    <2>1. \/ refresh' = refresh
          \/ refresh = Rest /\ refresh.at \notin {"drop", "deploy"}
      BY <1>3 DEF ConnectionDeploy, ConnectionRemove, Rest
    <2>2. UNCHANGED <<lockVars, thread>>
      BY <1>3 DEF ConnectionDeploy, ConnectionRemove
    <2>3. QED
      BY <2>1, <2>2 DEF LockDiscipline
  <1>4. CASE AskRefresh
    BY <1>4 DEF LockDiscipline, AskRefresh
  <1>5. CASE UNCHANGED vars
    BY <1>5 DEF LockDiscipline, vars
  <1>6. QED
    BY <1>1, <1>2, <1>3, <1>4, <1>5, LockRequests, LockExecutor DEF Next

\* Who is waited for holds the lock; if it is masterLock, he waits for nobody.
LEMMA WaitsEnd ==
  ASSUME Shape, LockDiscipline, NEW a \in Threads \cup {"executor"},
         NEW b \in Threads \cup {"executor"}, WaitsFor(a, b)
  PROVE  /\ Inside(b)
         /\ b \in Threads => thread[b].at # "lock"
         /\ \/ a \in Threads /\ thread[a].at = "lock"
            \/ \A c \in Threads \cup {"executor"} : ~WaitsFor(b, c)
  <1> USE PreviewAssumption
  <1>1. CASE a \in Threads /\ thread[a].at = "lock" /\ dvLock[thread[a].dv] = b
    <2>1. thread[a].dv \in DVs /\ b # None
      BY <1>1 DEF Shape
    <2>2. dvLock[thread[a].dv] \in Threads
      BY <1>1, <2>1 DEF Shape, TypeOK
    <2>3. QED
      BY <1>1, <2>1, <2>2 DEF LockDiscipline, Inside
  <1>2. CASE masterLock = b
    <2>1. \/ b \in Threads /\ thread[b].at \in {"undeploy", "deploy"}
          \/ b = "executor" /\ refresh.at \in {"drop", "deploy"}
      BY <1>2 DEF LockDiscipline
    <2>2. QED
      BY <2>1 DEF Inside, WaitsFor
  <1>3. QED
    BY <1>1, <1>2 DEF WaitsFor

\* Requests and the executor never wait for each other in a circle, for any number
\* of threads and virtualizations: the lock of a virtualization is taken before
\* masterLock, which the executor holds only while it waits for nothing, and
\* updatePreviewVdb releases both on every way out.
THEOREM NoCircularWaitCorrect == Spec => []NoCircularWait
  <1>1. Init => LockDiscipline
    BY PreviewAssumption DEF Init, LockDiscipline
  <1>2. Shape /\ LockDiscipline => NoCircularWait
    <2> SUFFICES ASSUME Shape, LockDiscipline  PROVE NoCircularWait
      OBVIOUS
    <2> DEFINE Actors == Threads \cup {"executor"}
    <2>1. \A a, b \in Actors : WaitsFor(a, b) => Inside(b)
      BY WaitsEnd
    <2>2. ASSUME NEW S \in SUBSET Actors, S # {}, \A a \in S : \E b \in S : WaitsFor(a, b)
          PROVE  FALSE
      <3>1. PICK a \in S : TRUE
        BY <2>2
      <3>2. PICK b \in S : WaitsFor(a, b)
        BY <2>2, <3>1
      <3>3. PICK c \in S : WaitsFor(b, c)
        BY <2>2, <3>2
      <3>4. PICK d \in S : WaitsFor(c, d)
        BY <2>2, <3>3
      <3>5. b \in Threads => thread[b].at # "lock"
        BY <3>1, <3>2, WaitsEnd
      <3>6. QED
        BY <3>2, <3>3, <3>4, <3>5, WaitsEnd
    <2>3. QED
      BY <2>1, <2>2 DEF NoCircularWait
  <1>3. Shape /\ LockDiscipline /\ [Next]_vars => LockDiscipline'
    BY LockNext
  <1>4. QED
    BY <1>1, <1>2, <1>3, ShapeCorrect, PTL DEF Spec

-----------------------------------------------------------------------------
(* The label of a service vdb, when no name is used twice.                 *)

\* A vdb, or a thread that is about to deploy one, does not know a later
\* version than the row's, or newer views. If it knows the row's version, and no
\* views had been listed before (l), it shows the last change that touched the row.
UpToDate(d, v, c, l) ==
  version[d] # None =>
    v <= version[d] /\ c <= content[d] /\ (v = version[d] /\ ~l => c >= touched[d])

Labelled ==
  /\ \A d \in DVs : touched[d] <= content[d] /\ content[d] <= stamp
  /\ \A d \in DVs : service[d] # None =>
       UpToDate(d, service[d].label, service[d].content, service[d].listed)
  /\ \A t \in Threads :
       /\ thread[t].at \in {"lock", "recheck", "views", "check"} /\ version[thread[t].dv] # None
            => thread[t].version <= version[thread[t].dv]
       /\ thread[t].at \in {"master", "undeploy", "deploy"}
            => UpToDate(thread[t].dv, thread[t].version, thread[t].content, thread[t].listed)

LEMMA LabelledRows ==
  ASSUME ~MayRecreate, Shape, Labelled, NEW d \in DVs, Edit(d) \/ EditUntouched(d) \/ Describe(d) \/ Create(d)
  PROVE  Labelled'
  <1>0. \A e \in DVs : /\ content[e] \in Nat /\ touched[e] \in Nat /\ stamp \in Nat
                       /\ touched[e] <= content[e] /\ content[e] <= stamp
    BY DEF Shape, TypeOK, Labelled
  <1>1. UNCHANGED <<service, thread>>
    BY DEF Edit, EditUntouched, Describe, Create
  <1>2. ASSUME NEW e \in DVs
        PROVE  /\ content[e] <= content'[e] /\ content'[e] \in Nat
               /\ touched'[e] <= content'[e] /\ content'[e] <= stamp'
               /\ version[e] = None => version'[e] = None
               /\ version[e] # None => version[e] \in Nat /\ version'[e] \in Nat
                                       /\ version[e] <= version'[e]
               /\ version'[e] = version[e] => touched'[e] = touched[e]
    <2>1. version[e] # None => version[e] \in Nat
      BY DEF Shape, TypeOK
    <2>2. CASE Edit(d)
      BY <1>0, <2>1, <2>2 DEF Edit, Shape, TypeOK
    <2>3. CASE EditUntouched(d)
      BY <1>0, <2>1, <2>3 DEF EditUntouched, Shape, TypeOK
    <2>4. CASE Describe(d)
      BY <1>0, <2>1, <2>4 DEF Describe, Shape, TypeOK
    <2>5. QED
      BY <2>2, <2>3, <2>4 DEF Create
  <1>5. ASSUME NEW e \in DVs, NEW v \in Nat, NEW c \in Nat, NEW l, UpToDate(e, v, c, l)
        PROVE  UpToDate(e, v, c, l)'
    <2>1. CASE version'[e] = None
      BY <2>1 DEF UpToDate
    <2>2. CASE version'[e] # None
      <3>1. /\ v <= version[e] /\ c <= content[e] /\ version[e] \in Nat /\ version'[e] \in Nat
            /\ v = version[e] /\ ~l => c >= touched[e]
        BY <1>2, <1>5, <2>2 DEF UpToDate
      <3>2. v <= version'[e] /\ c <= content'[e]
        BY <1>0, <1>2, <3>1
      <3>3. v = version'[e] => version'[e] = version[e] /\ touched'[e] = touched[e]
        BY <1>2, <3>1
      <3>4. QED
        BY <3>1, <3>2, <3>3 DEF UpToDate
    <2>3. QED
      BY <2>1, <2>2
  <1>6. ASSUME NEW e \in DVs, service[e] # None
        PROVE  UpToDate(e, service[e].label, service[e].content, service[e].listed)'
    <2>1. /\ service[e].label \in Nat /\ service[e].content \in Nat
          /\ UpToDate(e, service[e].label, service[e].content, service[e].listed)
      BY <1>6 DEF Shape, TypeOK, Vdb, Labelled
    <2>2. QED
      BY <1>1, <1>5, <2>1
  <1>7. ASSUME NEW t \in Threads, thread[t].at \in {"master", "undeploy", "deploy"}
        PROVE  UpToDate(thread[t].dv, thread[t].version, thread[t].content, thread[t].listed)'
    <2>1. thread[t].dv \in DVs /\ thread[t].version \in Nat /\ thread[t].content \in Nat
      BY <1>7 DEF Shape, TypeOK, Thread
    <2>2. UpToDate(thread[t].dv, thread[t].version, thread[t].content, thread[t].listed)
      BY <1>7 DEF Labelled
    <2>3. QED
      BY <1>1, <1>5, <2>1, <2>2
  <1>8. ASSUME NEW t \in Threads, thread[t].at \in {"check", "lock", "recheck", "views"},
               version'[thread[t].dv] # None
        PROVE  thread[t].version <= version'[thread[t].dv]
    <2>1. thread[t].dv \in DVs /\ thread[t].version \in Nat
      BY <1>8 DEF Shape, TypeOK, Thread
    <2>2. version[thread[t].dv] # None
      BY <1>2, <1>8, <2>1
    <2>3. thread[t].version <= version[thread[t].dv]
      BY <1>8, <2>2 DEF Labelled
    <2>4. QED
      BY <1>2, <2>1, <2>2, <2>3
  <1>9. QED
    BY <1>1, <1>2, <1>6, <1>7, <1>8 DEF Labelled

\* A step that leaves the rows alone and lets no thread know more.
LEMMA LabelledQuiet ==
  ASSUME Shape, Labelled, UNCHANGED rowVars,
         \A d \in DVs : service'[d] \in {service[d], None},
         \A t \in Threads : thread'[t] = thread[t] \/ thread'[t].at \in {"idle", "find", "remove", "list", "done"}
  PROVE  Labelled'
  BY DEF Labelled, UpToDate, rowVars

\* The reads of a request, and its deployment.
LEMMA LabelledRequests ==
  ASSUME Shape, Labelled, NEW t \in Threads,
         RequestStep(t) \/ \E d \in DVs : Delete(t, d) \/ UpdateRead(t, d) \/ ListViews(t, d)
  PROVE  Labelled'
  <1> USE DEF connVars, lockVars, execVars
  <1>0. thread \in [Threads -> Thread] /\ service \in [DVs -> Vdb \cup {None}]
    BY DEF Shape, TypeOK
  <1>1. ASSUME NEW d \in DVs, Delete(t, d)  PROVE Labelled'
    <2>1. /\ version'[d] = None /\ content'[d] = 0 /\ touched'[d] = 0 /\ stamp' = stamp
          /\ \A e \in DVs : e # d => /\ version'[e] = version[e] /\ content'[e] = content[e]
                                     /\ touched'[e] = touched[e]
      BY <1>1 DEF Delete, Shape, TypeOK
    <2>2. \A u \in Threads : thread'[u] = thread[u] \/ thread'[u].at = "find"
      BY <1>0, <1>1 DEF Delete, Begins
    <2>3. \A e \in DVs : \A v, c, l : UpToDate(e, v, c, l) => UpToDate(e, v, c, l)'
      BY <2>1 DEF UpToDate
    <2>4. service' = service
      BY <1>1 DEF Delete
    <2>5. \A u \in Threads : thread[u].at # "idle" => thread[u].dv \in DVs
      BY DEF Shape
    <2>6. \A e \in DVs : touched'[e] <= content'[e] /\ content'[e] <= stamp'
      BY <2>1 DEF Labelled, Shape, TypeOK
    <2>7. QED
      BY <2>1, <2>2, <2>3, <2>4, <2>5, <2>6 DEF Labelled
  <1>2. ASSUME NEW d \in DVs, UpdateRead(t, d)  PROVE Labelled'
    <2>1. thread' = [thread EXCEPT ![t] = Begins("check", d, version[d], touched[d])]
          /\ UNCHANGED <<rowVars, service>> /\ version[d] # None /\ version[d] \in Nat
      BY <1>2 DEF UpdateRead, Shape, TypeOK
    <2>2. \A u \in Threads : u # t => thread'[u] = thread[u]
      BY <1>0, <2>1
    <2>3. thread'[t].at = "check" /\ thread'[t].dv = d /\ thread'[t].version = version[d]
      BY <1>0, <2>1 DEF Begins
    <2>4. QED
      BY <2>1, <2>2, <2>3 DEF Labelled, UpToDate, rowVars
  <1>2a. ASSUME NEW d \in DVs, ListViews(t, d)  PROVE Labelled'
    <2>1. \A u \in Threads : thread'[u] = thread[u] \/ thread'[u].at = "list"
      BY <1>0, <1>2a DEF ListViews
    <2>2. QED
      BY <1>2a, <2>1, LabelledQuiet DEF ListViews
  <1>2b. CASE ListRead(t)
    <2> DEFINE d == thread[t].dv
    <2>1. thread[t].at = "list" /\ d \in DVs /\ UNCHANGED <<rowVars, service>>
      BY <1>2b DEF ListRead, Shape
    <2>2. \A u \in Threads : u # t => thread'[u] = thread[u]
      BY <1>0, <1>2b DEF ListRead
    <2>3. CASE version[d] = None
      <3>1. thread'[t].at = "idle"
        BY <1>0, <1>2b, <2>3 DEF ListRead, Idle, Begins
      <3>2. QED
        BY <2>1, <2>2, <3>1, LabelledQuiet
    <2>4. CASE version[d] # None
      <3>1. thread'[t].at = "check" /\ thread'[t].dv = d /\ thread'[t].version = version[d]
        BY <1>0, <1>2b, <2>4 DEF ListRead, Thread
      <3>2. version[d] \in Nat
        BY <2>1, <2>4 DEF Shape, TypeOK
      <3> HIDE DEF d
      <3>3. QED
        BY <2>1, <2>2, <3>1, <3>2 DEF Labelled, UpToDate, rowVars
    <2>5. QED
      BY <2>3, <2>4
  <1>3. CASE RemoveFind(t) \/ RemoveUndeploy(t)
    <2>1. \A u \in Threads : thread'[u] = thread[u] \/ thread'[u].at \in {"idle", "remove"}
      BY <1>0, <1>3 DEF RemoveFind, RemoveUndeploy, Idle, Begins, Thread
    <2>2. \A d \in DVs : service'[d] \in {service[d], None}
      BY <1>0, <1>3 DEF RemoveFind, RemoveUndeploy
    <2>3. QED
      BY <1>3, <2>1, <2>2, LabelledQuiet DEF RemoveFind, RemoveUndeploy
  <1>4. ASSUME NEW at \in {"lock", "recheck", "views"},
               thread[t].at \in {"check", "lock", "recheck"}, Goto(t, at), UNCHANGED <<rowVars, service>>
        PROVE  Labelled'
    <2>1. \A u \in Threads : u # t => thread'[u] = thread[u]
      BY <1>0, <1>4 DEF Goto
    <2>2. /\ thread'[t].at = at /\ thread'[t].dv = thread[t].dv
          /\ thread'[t].version = thread[t].version
      BY <1>0, <1>4 DEF Goto, Thread
    <2>3. QED
      BY <1>4, <2>1, <2>2 DEF Labelled, UpToDate, rowVars
  <1>5. ASSUME Return(t), UNCHANGED <<rowVars, service>>
        PROVE  Labelled'
    <2>1. \A u \in Threads : thread'[u] = thread[u] \/ thread'[u].at = "done"
      BY <1>0, <1>5 DEF Return, Thread
    <2>2. QED
      BY <1>5, <2>1, LabelledQuiet
  <1>6. CASE UpdateCheck(t) \/ UpdateLock(t) \/ UpdateRecheck(t)
    BY <1>4, <1>5, <1>6 DEF UpdateCheck, UpdateLock, UpdateRecheck
  <1>7. CASE UpdateViews(t)
    <2>1. \A u \in Threads : u # t => thread'[u] = thread[u]
      BY <1>0, <1>7 DEF UpdateViews
    <2>2. /\ thread'[t].at = "master" /\ thread'[t].dv = thread[t].dv
          /\ thread'[t].version = thread[t].version /\ thread'[t].listed = thread[t].listed
          /\ thread'[t].content \in Found(t)
      BY <1>0, <1>7 DEF UpdateViews, Thread
    <2>3. UNCHANGED <<version, content, touched, stamp, service>>
      BY <1>7 DEF UpdateViews, rowVars
    <2>4. version[thread[t].dv] # None => thread[t].version <= version[thread[t].dv]
      BY <1>7 DEF UpdateViews, Labelled
    <2>4a. UpToDate(thread[t].dv, thread[t].version, thread'[t].content, thread[t].listed)
      <3>1. thread[t].dv \in DVs /\ thread[t].content \in Nat
        BY <1>0, <1>7 DEF UpdateViews, Shape, Thread
      <3>2. /\ content[thread[t].dv] \in Nat /\ touched[thread[t].dv] <= content[thread[t].dv]
            /\ touched[thread[t].dv] \in Nat
        BY <3>1 DEF Shape, TypeOK, Labelled
      <3>3. /\ thread'[t].content \in Nat /\ thread'[t].content <= content[thread[t].dv]
            /\ ~thread[t].listed => thread'[t].content = content[thread[t].dv]
        BY <2>2, <3>1, <3>2 DEF Found
      <3>4. QED
        BY <2>4, <3>2, <3>3 DEF UpToDate
    <2>5. ASSUME NEW u \in Threads, thread'[u].at \in {"master", "undeploy", "deploy"}
          PROVE  UpToDate(thread'[u].dv, thread'[u].version, thread'[u].content, thread'[u].listed)
      BY <2>1, <2>2, <2>4a, <2>5 DEF Labelled
    <2>6. ASSUME NEW u \in Threads, thread'[u].at \in {"lock", "recheck", "views", "check"},
                 version'[thread'[u].dv] # None
          PROVE  thread'[u].version <= version'[thread'[u].dv]
      BY <2>1, <2>2, <2>3, <2>6 DEF Labelled
    <2>7. QED
      BY <2>3, <2>5, <2>6 DEF Labelled, UpToDate
  <1>8. CASE UpdateMaster(t) \/ UpdateUndeploy(t)
    <2>1. \A u \in Threads : u # t => thread'[u] = thread[u]
      BY <1>0, <1>8 DEF UpdateMaster, UpdateUndeploy, Goto
    <2>2. /\ thread[t].at \in {"master", "undeploy"} /\ thread'[t].at \in {"undeploy", "deploy"}
          /\ thread'[t].dv = thread[t].dv /\ thread'[t].listed = thread[t].listed
          /\ thread'[t].version = thread[t].version /\ thread'[t].content = thread[t].content
      BY <1>0, <1>8 DEF UpdateMaster, UpdateUndeploy, Goto, Thread
    <2>3. \A d \in DVs : service'[d] \in {service[d], None}
      BY <1>0, <1>8 DEF UpdateMaster, UpdateUndeploy
    <2>4. UNCHANGED rowVars
      BY <1>8 DEF UpdateMaster, UpdateUndeploy
    <2>5. QED
      BY <2>1, <2>2, <2>3, <2>4 DEF Labelled, UpToDate, rowVars
  <1>9. CASE UpdateDeploy(t)
    <2> DEFINE d == thread[t].dv
    <2>1. \A u \in Threads : thread'[u] = thread[u] \/ thread'[u].at = "done"
      BY <1>0, <1>9 DEF UpdateDeploy, Goto, Thread
    <2>2. d \in DVs /\ \A e \in DVs : e # d => service'[e] = service[e]
      BY <1>0, <1>9 DEF UpdateDeploy, Shape
    <2>3. /\ service'[d].label = thread[t].version /\ service'[d].content = thread[t].content
          /\ service'[d].listed = thread[t].listed
      BY <1>0, <1>9, <2>2 DEF UpdateDeploy
    <2>4. UpToDate(d, thread[t].version, thread[t].content, thread[t].listed) /\ UNCHANGED rowVars
      BY <1>9 DEF Labelled, UpdateDeploy
    <2> HIDE DEF d
    <2>5. QED
      BY <2>1, <2>2, <2>3, <2>4 DEF Labelled, UpToDate, rowVars
  <1>10. QED
    BY <1>1, <1>2, <1>2a, <1>2b, <1>3, <1>6, <1>7, <1>8, <1>9 DEF RequestStep

LEMMA LabelledCorrect ==
  ASSUME ~MayRecreate
  PROVE  Spec => []Labelled
  <1>1. Init => Labelled
    BY PreviewAssumption DEF Init, Labelled, Idle, Begins
  <1>2. Shape /\ Labelled /\ [Next]_vars => Labelled'
    <2> SUFFICES ASSUME Shape, Labelled, [Next]_vars  PROVE Labelled'
      OBVIOUS
    <2>1. CASE UNCHANGED vars
      BY <2>1 DEF Labelled, UpToDate, vars, rowVars
    <2>2. ASSUME NEW c \in Conns, ConnectionDeploy(c) \/ ConnectionRemove(c)  PROVE Labelled'
      BY <2>2, LabelledQuiet DEF ConnectionDeploy, ConnectionRemove
    <2>3. CASE AskRefresh \/ RefreshStart \/ RefreshList \/ RefreshMaster \/ RefreshDrop \/ RefreshDeploy
      BY <2>3, LabelledQuiet DEF AskRefresh, RefreshStart, RefreshList, RefreshMaster,
                                 RefreshDrop, RefreshDeploy
    <2>4. ASSUME NEW d \in DVs, RefreshUndeploy(d)  PROVE Labelled'
      BY <2>4, LabelledQuiet DEF RefreshUndeploy, Shape, TypeOK
    <2>5. QED
      BY <2>1, <2>2, <2>3, <2>4, LabelledRows, LabelledRequests DEF Next, Executor
  <1>3. QED
    BY <1>1, <1>2, ShapeCorrect, PTL DEF Spec

\* What carries the version of the row shows the last change that touched the row,
\* whatever the number of threads and of edits, unless a request that had listed
\* views deployed it, and as long as deleted names are not used again.
THEOREM LabelCorrect ==
  ASSUME ~MayRecreate
  PROVE  Spec => []LabelIsCurrent
  <1>1. Shape /\ Labelled => LabelIsCurrent
    BY PreviewAssumption DEF Shape, TypeOK, Vdb, Labelled, UpToDate, LabelIsCurrent
  <1>2. QED
    BY <1>1, ShapeCorrect, LabelledCorrect, PTL

-----------------------------------------------------------------------------
(* What a request works on, when no name is used twice.                    *)

\* The views c are at least as recent as what any request that has read the
\* version v of the row had found touched when it began.
Recent(d, v, c) ==
  \A t \in Threads :
    thread[t].dv = d /\ thread[t].version = v /\ thread[t].at # "list" => c >= thread[t].floor

FreshVdb(d) ==
  version[d] # None /\ service[d] # None /\ ~service[d].listed =>
    Recent(d, service[d].label, service[d].content)

FreshThread(t) ==
  LET d == thread[t].dv IN d \in DVs /\ version[d] # None =>
    /\ thread[t].floor <= touched[d]
    /\ thread[t].at = "done" => thread[t].listed \/ thread[t].content >= thread[t].floor
    /\ thread[t].at \in {"master", "undeploy", "deploy"} /\ ~thread[t].listed =>
         Recent(d, thread[t].version, thread[t].content)

Fresh ==
  /\ \A d \in DVs : FreshVdb(d)
  /\ \A t \in Threads : FreshThread(t)

\* The views of a row only become more recent.
LEMMA FreshRows ==
  ASSUME ~MayRecreate, Shape, Labelled, Fresh, NEW d \in DVs,
         Edit(d) \/ EditUntouched(d) \/ Describe(d) \/ Create(d)
  PROVE  Fresh'
  <1>1. UNCHANGED <<service, thread>>
    BY DEF Edit, EditUntouched, Describe, Create
  <1>2. ASSUME NEW e \in DVs
        PROVE  /\ touched[e] \in Nat /\ touched'[e] \in Nat /\ touched[e] <= touched'[e]
               /\ version[e] = None => version'[e] = None
    <2>1. /\ touched[e] \in Nat /\ stamp \in Nat /\ content[e] \in Nat
          /\ touched[e] <= content[e] /\ content[e] <= stamp
      BY DEF Shape, TypeOK, Labelled
    <2>2. CASE Edit(d)
      BY <2>1, <2>2 DEF Edit, Shape, TypeOK
    <2>3. CASE EditUntouched(d) \/ Describe(d)
      BY <2>1, <2>3 DEF EditUntouched, Describe, Shape, TypeOK
    <2>4. QED
      BY <2>2, <2>3 DEF Create
  <1>4. ASSUME NEW e \in DVs  PROVE FreshVdb(e)'
    BY <1>1, <1>2 DEF Fresh, FreshVdb, Recent
  <1>5. ASSUME NEW t \in Threads  PROVE FreshThread(t)'
    <2>1. thread[t].floor \in Nat
      BY DEF Shape, TypeOK, Thread
    <2>2. FreshThread(t) /\ thread' = thread
      BY <1>1 DEF Fresh
    <2>3. CASE thread[t].dv \in DVs /\ version'[thread[t].dv] # None
      <3>1. /\ version[thread[t].dv] # None
            /\ touched[thread[t].dv] \in Nat /\ touched'[thread[t].dv] \in Nat
            /\ touched[thread[t].dv] <= touched'[thread[t].dv]
        BY <1>2, <2>3
      <3>2. QED
        BY <2>1, <2>2, <2>3, <3>1 DEF FreshThread, Recent
    <2>4. QED
      BY <2>2, <2>3 DEF FreshThread
  <1>6. QED
    BY <1>4, <1>5 DEF Fresh

\* A step after which a thread knows what it knew, or nothing.
LEMMA FreshQuiet ==
  ASSUME Shape, Fresh, UNCHANGED rowVars,
         \A d \in DVs : service'[d] \in {service[d], None},
         \A t \in Threads :
           \/ thread'[t] = thread[t]
           \/ thread'[t].floor = 0 /\ thread'[t].at \in {"idle", "find", "remove"}
           \/ thread'[t].at = "list" /\ thread'[t].floor <= touched[thread'[t].dv]
           \/ /\ thread'[t].dv = thread[t].dv /\ thread'[t].version = thread[t].version
              /\ thread'[t].floor = thread[t].floor /\ thread[t].at # "list"
              /\ \/ thread'[t].at \in {"find", "remove", "lock", "recheck", "views"}
                 \/ /\ thread[t].at \in {"master", "undeploy"}
                    /\ thread'[t].at \in {"undeploy", "deploy"}
                    /\ thread'[t].content = thread[t].content /\ thread'[t].listed = thread[t].listed
                 \/ /\ thread'[t].at = "done"
                    /\ thread[t].dv \in DVs /\ version[thread[t].dv] # None =>
                         thread'[t].listed \/ thread'[t].content >= thread[t].floor
  PROVE  Fresh'
  <1>1. \A t \in Threads : thread[t].content \in Nat /\ thread[t].floor \in Nat
    BY DEF Shape, TypeOK, Thread
  <1>2. \A d \in DVs : /\ touched[d] \in Nat
                       /\ service[d] # None => service[d].content \in Nat
    BY DEF Shape, TypeOK, Vdb
  <1>3. ASSUME NEW d, NEW v, NEW c \in Nat, Recent(d, v, c),
               NEW u \in Threads, thread'[u].dv = d, thread'[u].version = v, thread'[u].at # "list"
        PROVE  c >= thread'[u].floor
    <2>1. \/ thread'[u].floor = 0
          \/ /\ thread[u].dv = d /\ thread[u].version = v /\ thread[u].at # "list"
             /\ thread'[u].floor = thread[u].floor
      BY <1>3
    <2>2. QED
      BY <1>3, <2>1 DEF Recent
  <1>4. ASSUME NEW d \in DVs  PROVE FreshVdb(d)'
    <2>1. CASE service'[d] = None
      BY <2>1 DEF FreshVdb
    <2>2. CASE service'[d] = service[d] /\ version[d] # None /\ service[d] # None /\ ~service[d].listed
      <3>1. Recent(d, service[d].label, service[d].content) /\ service[d].content \in Nat
        BY <1>2, <2>2 DEF Fresh, FreshVdb
      <3>2. QED
        BY <1>3, <2>2, <3>1 DEF FreshVdb, Recent
    <2>3. QED
      BY <2>1, <2>2 DEF FreshVdb, rowVars
  <1>5. ASSUME NEW t \in Threads  PROVE FreshThread(t)'
    <2> DEFINE d == thread[t].dv
    <2>0. FreshThread(t) /\ thread[t].content \in Nat /\ thread[t].floor \in Nat
      BY <1>1 DEF Fresh
    <2>1. CASE thread'[t].floor = 0 /\ thread'[t].at \in {"idle", "find", "remove"}
      BY <1>2, <2>1 DEF FreshThread, rowVars
    <2>2. ASSUME Recent(d, thread[t].version, thread[t].content)
          PROVE  \A u \in Threads :
                   thread'[u].dv = d /\ thread'[u].version = thread[t].version /\ thread'[u].at # "list" =>
                     thread[t].content >= thread'[u].floor
      BY <1>3, <2>0, <2>2
    <2>3. CASE thread'[t] = thread[t]
      BY <2>0, <2>2, <2>3 DEF FreshThread, Recent, rowVars
    <2>4. CASE thread'[t].dv = d /\ thread'[t].version = thread[t].version
               /\ thread'[t].floor = thread[t].floor
               /\ thread'[t].at \in {"find", "remove", "lock", "recheck", "views"}
      BY <2>0, <2>4 DEF FreshThread, rowVars
    <2>5. CASE thread'[t].dv = d /\ thread'[t].version = thread[t].version
               /\ thread'[t].floor = thread[t].floor /\ thread'[t].content = thread[t].content
               /\ thread'[t].listed = thread[t].listed
               /\ thread[t].at \in {"master", "undeploy"} /\ thread'[t].at \in {"undeploy", "deploy"}
      BY <2>0, <2>2, <2>5 DEF FreshThread, Recent, rowVars
    <2>6. CASE thread'[t].dv = d /\ thread'[t].version = thread[t].version
               /\ thread'[t].floor = thread[t].floor /\ thread'[t].at = "done"
               /\ (d \in DVs /\ version[d] # None =>
                     thread'[t].listed \/ thread'[t].content >= thread[t].floor)
      BY <2>0, <2>6 DEF FreshThread, rowVars
    <2>7. CASE thread'[t].at = "list" /\ thread'[t].floor <= touched[thread'[t].dv]
      BY <2>7 DEF FreshThread, rowVars
    <2>8. QED
      BY <2>1, <2>3, <2>4, <2>5, <2>6, <2>7
  <1>6. QED
    BY <1>4, <1>5 DEF Fresh

\* A thread has read the row, and had begun before.
LEMMA FreshReader ==
  ASSUME Shape, Labelled, Fresh, UNCHANGED <<rowVars, service>>,
         NEW t \in Threads, NEW d \in DVs, version[d] # None,
         \A u \in Threads : u # t => thread'[u] = thread[u],
         thread'[t].at = "check", thread'[t].dv = d, thread'[t].version = version[d],
         thread'[t].floor \in Nat, thread'[t].floor <= touched[d]
  PROVE  Fresh'
  <1>1. UNCHANGED <<version, content, touched, service>>
    BY DEF rowVars
  <1>2. \A e \in DVs : /\ touched[e] \in Nat
                       /\ service[e] # None => service[e].content \in Nat
    BY DEF Shape, TypeOK, Vdb
  <1>3. \A u \in Threads : thread[u].content \in Nat
    BY DEF Shape, TypeOK, Thread
  <1>4. ASSUME NEW e, NEW v, NEW c \in Nat, Recent(e, v, c),
               e = d /\ v = version[d] => c >= touched[d],
               NEW u \in Threads, thread'[u].dv = e, thread'[u].version = v, thread'[u].at # "list"
        PROVE  c >= thread'[u].floor
    <2>1. CASE u = t
      BY <1>2, <1>4, <2>1
    <2>2. CASE u # t
      BY <1>4, <2>2 DEF Recent
    <2>3. QED
      BY <2>1, <2>2
  <1>5. ASSUME NEW e \in DVs  PROVE FreshVdb(e)'
    <2> SUFFICES ASSUME version[e] # None, service[e] # None, ~service[e].listed,
                        NEW u \in Threads, thread'[u].dv = e,
                        thread'[u].version = service[e].label, thread'[u].at # "list"
                 PROVE  service[e].content >= thread'[u].floor
      BY <1>1 DEF FreshVdb, Recent
    <2>1. e = d /\ service[e].label = version[d] => service[e].content >= touched[d]
      BY DEF Labelled, UpToDate
    <2>2. Recent(e, service[e].label, service[e].content) /\ service[e].content \in Nat
      BY <1>2 DEF Fresh, FreshVdb
    <2>3. QED
      BY <1>4, <2>1, <2>2
  <1>6. ASSUME NEW u \in Threads  PROVE FreshThread(u)'
    <2>1. CASE u = t
      BY <1>1, <2>1 DEF FreshThread
    <2>2. CASE u # t
      <3>1. FreshThread(u) /\ thread'[u] = thread[u]
        BY <2>2 DEF Fresh
      <3>2. ASSUME thread[u].dv \in DVs, version[thread[u].dv] # None, ~thread[u].listed,
                   thread[u].at \in {"master", "undeploy", "deploy"},
                   NEW w \in Threads, thread'[w].dv = thread[u].dv,
                   thread'[w].version = thread[u].version, thread'[w].at # "list"
            PROVE  thread[u].content >= thread'[w].floor
        <4>1. thread[u].dv = d /\ thread[u].version = version[d] => thread[u].content >= touched[d]
          BY <3>2 DEF Labelled, UpToDate
        <4>2. Recent(thread[u].dv, thread[u].version, thread[u].content) /\ thread[u].content \in Nat
          BY <1>3, <3>1, <3>2 DEF FreshThread
        <4>3. QED
          BY <1>4, <3>2, <4>1, <4>2
      <3>3. QED
        BY <1>1, <3>1, <3>2 DEF FreshThread, Recent
    <2>3. QED
      BY <2>1, <2>2
  <1>7. QED
    BY <1>5, <1>6 DEF Fresh

LEMMA FreshRequests ==
  ASSUME Shape, Labelled, Fresh, NEW t \in Threads,
         RequestStep(t) \/ \E d \in DVs : Delete(t, d) \/ UpdateRead(t, d) \/ ListViews(t, d)
  PROVE  Fresh'
  <1> USE DEF connVars, lockVars, execVars
  <1>0. thread \in [Threads -> Thread] /\ service \in [DVs -> Vdb \cup {None}]
    BY DEF Shape, TypeOK
  <1>a. \A u \in Threads : thread[u].content \in Nat /\ thread[u].floor \in Nat
    BY DEF Shape, TypeOK, Thread
  <1>b. \A e \in DVs : /\ content[e] \in Nat /\ touched[e] \in Nat
                       /\ service[e] # None => service[e].content \in Nat
    BY DEF Shape, TypeOK, Vdb
  <1>1. ASSUME NEW d \in DVs, Delete(t, d)  PROVE Fresh'
    <2>1. /\ version'[d] = None /\ UNCHANGED service
          /\ \A e \in DVs : e # d => version'[e] = version[e] /\ touched'[e] = touched[e]
      BY <1>1 DEF Delete, Shape, TypeOK
    <2>2. /\ \A u \in Threads : u # t => thread'[u] = thread[u]
          /\ thread'[t].dv = d /\ thread'[t].floor = 0
      BY <1>0, <1>1 DEF Delete, Begins
    <2>4. ASSUME NEW e \in DVs  PROVE FreshVdb(e)'
      BY <1>b, <2>1, <2>2 DEF Fresh, FreshVdb, Recent
    <2>5. ASSUME NEW u \in Threads  PROVE FreshThread(u)'
      <3>1. CASE thread'[u].dv \in DVs /\ version'[thread'[u].dv] # None
        <4>1. u # t /\ thread'[u] = thread[u] /\ thread[u].dv # d
          BY <2>1, <2>2, <3>1
        <4>2. version[thread[u].dv] # None /\ touched'[thread[u].dv] = touched[thread[u].dv]
          BY <2>1, <3>1, <4>1
        <4>3. FreshThread(u)
          BY DEF Fresh
        <4>4. \A w \in Threads : thread'[w].dv = thread[u].dv => w # t /\ thread'[w] = thread[w]
          BY <2>2, <4>1
        <4>5. QED
          BY <3>1, <4>1, <4>2, <4>3, <4>4 DEF FreshThread, Recent
      <3>2. QED
        BY <3>1 DEF FreshThread
    <2>6. QED
      BY <2>4, <2>5 DEF Fresh
  <1>2. ASSUME NEW d \in DVs, UpdateRead(t, d)  PROVE Fresh'
    <2>1. thread' = [thread EXCEPT ![t] = Begins("check", d, version[d], touched[d])]
          /\ UNCHANGED <<rowVars, service>> /\ version[d] # None
      BY <1>2 DEF UpdateRead
    <2>2. \A u \in Threads : u # t => thread'[u] = thread[u]
      BY <1>0, <2>1
    <2>3. /\ thread'[t].at = "check" /\ thread'[t].dv = d /\ thread'[t].version = version[d]
          /\ thread'[t].floor = touched[d]
      BY <1>0, <2>1 DEF Begins
    <2>4. QED
      BY <1>b, <2>1, <2>2, <2>3, FreshReader
  <1>2a. ASSUME NEW d \in DVs, ListViews(t, d)  PROVE Fresh'
    <2>1. \A u \in Threads : u # t => thread'[u] = thread[u]
      BY <1>0, <1>2a DEF ListViews
    <2>2. thread'[t].at = "list" /\ thread'[t].dv = d /\ thread'[t].floor = touched[d]
      BY <1>0, <1>2a DEF ListViews
    <2>3. touched[d] \in Nat /\ UNCHANGED <<rowVars, service>>
      BY <1>b, <1>2a DEF ListViews
    <2>4. QED
      BY <2>1, <2>2, <2>3, FreshQuiet
  <1>2b. CASE ListRead(t)
    <2> DEFINE d == thread[t].dv
    <2>1. /\ thread[t].at = "list" /\ d \in DVs /\ thread[t] \in Thread
          /\ UNCHANGED <<rowVars, service>>
      BY <1>2b DEF ListRead, Shape, TypeOK
    <2>2. \A u \in Threads : u # t => thread'[u] = thread[u]
      BY <1>0, <1>2b DEF ListRead
    <2>3. CASE version[d] = None
      <3>1. thread'[t].floor = 0 /\ thread'[t].at = "idle"
        BY <1>0, <1>2b, <2>3 DEF ListRead, Idle, Begins
      <3>2. QED
        BY <2>1, <2>2, <3>1, FreshQuiet
    <2>4. CASE version[d] # None
      <3>1. /\ thread'[t].at = "check" /\ thread'[t].dv = d /\ thread'[t].version = version[d]
            /\ thread'[t].floor = thread[t].floor
        BY <1>0, <1>2b, <2>1, <2>4 DEF ListRead, Thread
      <3>2. thread[t].floor <= touched[d] /\ thread[t].floor \in Nat
        BY <1>a, <2>1, <2>4 DEF Fresh, FreshThread
      <3> HIDE DEF d
      <3>3. QED
        BY <2>1, <2>2, <2>4, <3>1, <3>2, FreshReader
    <2>5. QED
      BY <2>3, <2>4
  <1>3. CASE RemoveFind(t) \/ RemoveUndeploy(t)
    <2>1. \A u \in Threads : u # t => thread'[u] = thread[u]
      BY <1>0, <1>3 DEF RemoveFind, RemoveUndeploy
    <2>2. \/ thread'[t].floor = 0 /\ thread'[t].at = "idle"
          \/ /\ thread'[t].dv = thread[t].dv /\ thread'[t].version = thread[t].version
             /\ thread'[t].floor = thread[t].floor /\ thread'[t].at = "remove"
             /\ thread[t].at # "list"
      BY <1>0, <1>3 DEF RemoveFind, RemoveUndeploy, Idle, Begins, Thread
    <2>3. /\ \A d \in DVs : service'[d] \in {service[d], None}
          /\ UNCHANGED rowVars
      BY <1>0, <1>3 DEF RemoveFind, RemoveUndeploy
    <2>4. QED
      BY <2>1, <2>2, <2>3, FreshQuiet
  <1>4. ASSUME NEW at \in {"lock", "recheck", "views"}, thread[t].at # "list",
               Goto(t, at), UNCHANGED <<rowVars, service>>
        PROVE  Fresh'
    <2>1. \A u \in Threads : u # t => thread'[u] = thread[u]
      BY <1>0, <1>4 DEF Goto
    <2>2. /\ thread'[t].at = at /\ thread'[t].dv = thread[t].dv
          /\ thread'[t].version = thread[t].version /\ thread'[t].floor = thread[t].floor
      BY <1>0, <1>4 DEF Goto, Thread
    <2>3. QED
      BY <1>4, <2>1, <2>2, FreshQuiet
  <1>5. ASSUME thread[t].at \in {"check", "recheck"}, Current(t), Return(t), UNCHANGED <<rowVars, service>>
        PROVE  Fresh'
    <2> DEFINE d == thread[t].dv
    <2>1. \A u \in Threads : u # t => thread'[u] = thread[u]
      BY <1>0, <1>5 DEF Return
    <2>2. /\ thread'[t].at = "done" /\ thread'[t].dv = d /\ thread'[t].version = thread[t].version
          /\ thread'[t].floor = thread[t].floor /\ thread'[t].content = service[d].content
          /\ thread'[t].listed = service[d].listed
      BY <1>0, <1>5 DEF Return, Thread
    <2>3. service[d] # None /\ service[d].label = thread[t].version
      BY <1>5 DEF Current
    <2>4. d \in DVs /\ version[d] # None => service[d].listed \/ service[d].content >= thread[t].floor
      BY <1>5, <2>3 DEF Fresh, FreshVdb, Recent
    <2> HIDE DEF d
    <2>5. d \in DVs /\ version[d] # None => thread'[t].listed \/ thread'[t].content >= thread[t].floor
      BY <2>2, <2>4
    <2>6. QED
      BY <1>5, <2>1, <2>2, <2>5, FreshQuiet DEF d
  <1>6. CASE UpdateCheck(t) \/ UpdateLock(t) \/ UpdateRecheck(t)
    BY <1>4, <1>5, <1>6 DEF UpdateCheck, UpdateLock, UpdateRecheck
  <1>7. CASE UpdateViews(t)
    <2> DEFINE d == thread[t].dv
    <2>1. \A u \in Threads : u # t => thread'[u] = thread[u]
      BY <1>0, <1>7 DEF UpdateViews
    <2>2. /\ thread'[t].at = "master" /\ thread'[t].dv = d /\ thread'[t].floor = thread[t].floor
          /\ thread'[t].version = thread[t].version /\ thread'[t].listed = thread[t].listed
          /\ ~thread[t].listed => thread'[t].content = content[d]
          /\ thread[t].at = "views"
      BY <1>0, <1>7 DEF UpdateViews, Found, Thread
    <2>3. UNCHANGED <<version, content, touched, service>>
      BY <1>7 DEF UpdateViews, rowVars
    <2>4. \A u \in Threads : /\ thread'[u].dv = thread[u].dv /\ thread'[u].version = thread[u].version
                             /\ thread'[u].floor = thread[u].floor
                             /\ thread[u].at = "list" => thread'[u].at = "list"
      BY <2>1, <2>2
    <2>5. \A u \in Threads : thread[u].dv \in DVs /\ version[thread[u].dv] # None =>
                              thread[u].floor <= touched[thread[u].dv]
      BY DEF Fresh, FreshThread
    <2>5a. \A e \in DVs : touched[e] <= content[e]
      BY DEF Labelled
    <2>6. ASSUME NEW u \in Threads  PROVE FreshThread(u)'
      <3>0. FreshThread(u)
        BY DEF Fresh
      <3>1. CASE u = t
        BY <1>a, <1>b, <2>2, <2>3, <2>4, <2>5, <2>5a, <3>1 DEF FreshThread, Recent
      <3>2. CASE u # t
        BY <2>1, <2>3, <2>4, <3>0, <3>2 DEF FreshThread, Recent
      <3>3. QED
        BY <3>1, <3>2
    <2>7. \A e \in DVs : FreshVdb(e)'
      BY <2>3, <2>4 DEF Fresh, FreshVdb, Recent
    <2>8. QED
      BY <2>6, <2>7 DEF Fresh
  <1>8. CASE UpdateMaster(t) \/ UpdateUndeploy(t)
    <2>1. \A u \in Threads : u # t => thread'[u] = thread[u]
      BY <1>0, <1>8 DEF UpdateMaster, UpdateUndeploy, Goto
    <2>2. /\ thread[t].at \in {"master", "undeploy"} /\ thread'[t].at \in {"undeploy", "deploy"}
          /\ thread'[t].dv = thread[t].dv /\ thread'[t].floor = thread[t].floor
          /\ thread'[t].version = thread[t].version /\ thread'[t].content = thread[t].content
          /\ thread'[t].listed = thread[t].listed
      BY <1>0, <1>8 DEF UpdateMaster, UpdateUndeploy, Goto, Thread
    <2>3. \A d \in DVs : service'[d] \in {service[d], None}
      BY <1>0, <1>8 DEF UpdateMaster, UpdateUndeploy
    <2>4. UNCHANGED rowVars
      BY <1>8 DEF UpdateMaster, UpdateUndeploy
    <2>5. QED
      BY <2>1, <2>2, <2>3, <2>4, FreshQuiet
  <1>9. CASE UpdateDeploy(t)
    <2> DEFINE d == thread[t].dv
    <2>1. \A u \in Threads : u # t => thread'[u] = thread[u]
      BY <1>0, <1>9 DEF UpdateDeploy, Goto
    <2>2. /\ thread[t].at = "deploy" /\ thread'[t].at = "done" /\ thread'[t].dv = d
          /\ thread'[t].floor = thread[t].floor
          /\ thread'[t].version = thread[t].version /\ thread'[t].content = thread[t].content
          /\ thread'[t].listed = thread[t].listed
      BY <1>0, <1>9 DEF UpdateDeploy, Goto, Thread
    <2>3. d \in DVs /\ \A e \in DVs : e # d => service'[e] = service[e]
      BY <1>0, <1>9 DEF UpdateDeploy, Shape
    <2>4. /\ service'[d].label = thread[t].version /\ service'[d].content = thread[t].content
          /\ service'[d].listed = thread[t].listed
      BY <1>0, <1>9, <2>3 DEF UpdateDeploy
    <2>5. UNCHANGED <<version, touched>>
      BY <1>9 DEF UpdateDeploy, rowVars
    <2>6. \A u \in Threads : /\ thread'[u].dv = thread[u].dv /\ thread'[u].version = thread[u].version
                             /\ thread'[u].floor = thread[u].floor
                             /\ thread[u].at = "list" => thread'[u].at = "list"
      BY <2>1, <2>2
    <2>7. version[d] # None /\ ~thread[t].listed => Recent(d, thread[t].version, thread[t].content)
      BY <2>2, <2>3 DEF Fresh, FreshThread
    <2>8. ASSUME NEW e \in DVs  PROVE FreshVdb(e)'
      <3>1. CASE e = d
        BY <2>4, <2>5, <2>6, <2>7, <3>1 DEF FreshVdb, Recent
      <3>2. CASE e # d
        BY <2>3, <2>5, <2>6, <3>2 DEF Fresh, FreshVdb, Recent
      <3>3. QED
        BY <3>1, <3>2
    <2>9. ASSUME NEW u \in Threads  PROVE FreshThread(u)'
      <3>0. FreshThread(u)
        BY DEF Fresh
      <3>1. CASE u = t
        BY <2>2, <2>5, <2>7, <3>0, <3>1 DEF FreshThread, Recent
      <3>2. CASE u # t
        BY <2>1, <2>5, <2>6, <3>0, <3>2 DEF FreshThread, Recent
      <3>3. QED
        BY <3>1, <3>2
    <2>10. QED
      BY <2>5, <2>8, <2>9 DEF Fresh
  <1>10. QED
    BY <1>1, <1>2, <1>2a, <1>2b, <1>3, <1>6, <1>7, <1>8, <1>9 DEF RequestStep

\* Whoever deploys for a request, and whatever is edited meanwhile, a request ends
\* on views no older than the last change that had touched the row when it began,
\* unless a request that had listed views deployed what it ends on, and as long as
\* deleted names are not used again.
THEOREM FreshEnoughCorrect ==
  ASSUME ~MayRecreate
  PROVE  Spec => []FreshEnough
  <1>1. Init => Fresh
    BY PreviewAssumption DEF Init, Fresh, FreshVdb, FreshThread, Idle, Begins
  <1>2. Shape /\ Labelled /\ Fresh /\ [Next]_vars => Fresh'
    <2> SUFFICES ASSUME Shape, Labelled, Fresh, [Next]_vars  PROVE Fresh'
      OBVIOUS
    <2>1. CASE UNCHANGED vars
      BY <2>1 DEF Fresh, FreshVdb, FreshThread, Recent, vars, rowVars
    <2>2. ASSUME NEW c \in Conns, ConnectionDeploy(c) \/ ConnectionRemove(c)  PROVE Fresh'
      BY <2>2, FreshQuiet DEF ConnectionDeploy, ConnectionRemove
    <2>3. CASE AskRefresh \/ RefreshStart \/ RefreshList \/ RefreshMaster \/ RefreshDrop \/ RefreshDeploy
      BY <2>3, FreshQuiet DEF AskRefresh, RefreshStart, RefreshList, RefreshMaster,
                              RefreshDrop, RefreshDeploy
    <2>4. ASSUME NEW d \in DVs, RefreshUndeploy(d)  PROVE Fresh'
      BY <2>4, FreshQuiet DEF RefreshUndeploy, Shape, TypeOK
    <2>5. QED
      BY <2>1, <2>2, <2>3, <2>4, FreshRows, FreshRequests DEF Next, Executor
  <1>3. Shape /\ Fresh => FreshEnough
    BY DEF Shape, Fresh, FreshThread, FreshEnough
  <1>4. QED
    BY <1>1, <1>2, <1>3, ShapeCorrect, LabelledCorrect, PTL DEF Spec

-----------------------------------------------------------------------------
(* What the main preview vdb imports.                                      *)

\* Between two refreshes that owe nothing, the preview imports what there is;
\* during one, what it has listed is all there is, unless another is asked for.
Settling ==
  /\ refresh.at = "idle" => refresh = Rest
  /\ owed = 0 /\ refreshes = 0 =>
       /\ refresh.at = "idle" => preview = conn
       /\ refresh.at \in {"undeploy", "drop", "deploy"} =>
            \A c \in Conns : conn[c] # 0 => c \in refresh.imports

\* No deployment of a connection vdb, whenever it comes, is missed by the main
\* preview vdb once nothing is left to refresh.
THEOREM PreviewSettledCorrect == Spec => []PreviewSettled
  <1>1. Init => Settling
    BY DEF Init, Settling, Rest
  <1>2. Shape /\ Settling /\ [Next]_vars => Settling'
    <2> SUFFICES ASSUME Shape, Settling, [Next]_vars  PROVE Settling'
      OBVIOUS
    <2> USE DEF rowVars, connVars, lockVars, execVars
    <2>0. /\ owed \in Nat /\ refreshes \in Nat /\ refresh \in Refresh
          /\ conn \in [Conns -> 0..MaxGen]
      BY DEF Shape, TypeOK
    <2>1. ASSUME UNCHANGED <<connVars, preview, execVars>>  PROVE Settling'
      BY <2>1 DEF Settling
    <2>2. ASSUME NEW c \in Conns, ConnectionDeploy(c)  PROVE Settling'
      BY <2>0, <2>2 DEF ConnectionDeploy, Settling
    <2>3. ASSUME NEW c \in Conns, ConnectionRemove(c)  PROVE Settling'
      BY <2>0, <2>3 DEF ConnectionRemove, Settling, Refresh
    <2>4. CASE AskRefresh
      BY <2>0, <2>4 DEF AskRefresh, Settling
    <2>5. CASE RefreshStart \/ RefreshList
      BY <2>0, <2>5 DEF RefreshStart, RefreshList, Settling, Refresh
    <2>6. ASSUME NEW d \in DVs, RefreshUndeploy(d)  PROVE Settling'
      BY <2>0, <2>6 DEF RefreshUndeploy, Settling, Refresh
    <2>7. CASE RefreshMaster \/ RefreshDrop
      BY <2>0, <2>7 DEF RefreshMaster, RefreshDrop, Settling, Refresh
    <2>8. CASE RefreshDeploy
      <3>1. preview' = [c \in Conns |-> IF c \in refresh.imports THEN conn[c] ELSE 0]
            /\ refresh.at = "deploy" /\ refresh' = Rest /\ UNCHANGED <<conn, owed, refreshes>>
        BY <2>8 DEF RefreshDeploy
      <3>2. ASSUME owed = 0, refreshes = 0  PROVE preview' = conn
        <4>1. \A c \in Conns : conn[c] # 0 => c \in refresh.imports
          BY <3>1, <3>2 DEF Settling
        <4>2. QED
          BY <2>0, <3>1, <4>1
      <3>3. QED
        BY <3>1, <3>2 DEF Settling, Rest
    <2>9. ASSUME NEW d \in DVs, Edit(d) \/ EditUntouched(d) \/ Describe(d) \/ Create(d)  PROVE Settling'
      BY <2>1, <2>9 DEF Edit, EditUntouched, Describe, Create
    <2>10. ASSUME NEW t \in Threads, NEW d \in DVs, Delete(t, d) \/ UpdateRead(t, d) \/ ListViews(t, d)  PROVE Settling'
      BY <2>1, <2>10 DEF Delete, UpdateRead, ListViews
    <2>11. ASSUME NEW t \in Threads, RequestStep(t)  PROVE Settling'
      BY <2>1, <2>11 DEF RequestStep, RemoveFind, RemoveUndeploy, ListRead, UpdateCheck, UpdateLock,
           UpdateRecheck, UpdateViews, UpdateMaster, UpdateUndeploy, UpdateDeploy
    <2>12. CASE UNCHANGED vars
      BY <2>1, <2>12 DEF vars
    <2>13. QED
      BY <2>2, <2>3, <2>4, <2>5, <2>6, <2>7, <2>8, <2>9, <2>10, <2>11, <2>12 DEF Next, Executor
  <1>3. Settling => PreviewSettled
    BY DEF Settling, PreviewSettled, Rest
  <1>4. QED
    BY <1>1, <1>2, <1>3, ShapeCorrect, PTL DEF Spec
=============================================================================
