-------------------------- MODULE ConnectionsProofs --------------------------
(***************************************************************************)
(* Theorems about Connections, for every set of connections and sockets,   *)
(* any number of events under way and of failures: the types, that a data  *)
(* source has its row, and that a connection that is gone stays so.        *)
(***************************************************************************)
EXTENDS Connections, SequenceTheorems, TLAPS

USE ConnectionsAssumption DEF ConnectionsAssumption

LEMMA MessageKinds ==
  /\ Greeting \in Message /\ Greeting \notin Event /\ Greeting.kind = "connected"
  /\ \A m \in Message : m.kind # "connected" => m \in Event
  /\ \A m \in Event : m.conn \in Conns /\ m.kind \in {"created", "updated", "deleted"}
  /\ \A kind \in {"created", "updated", "deleted"}, c \in Conns :
       [kind |-> kind, conn |-> c] \in Event
  <1>1. "conn" \notin DOMAIN Greeting
    BY DEF Greeting
  <1>2. \A m \in Event : "conn" \in DOMAIN m
    BY DEF Event
  <1>3. QED
    BY <1>1, <1>2 DEF Message, Event, Greeting

LEMMA NothingType == Nothing \in [Conns -> Source \cup {None}] /\ Rest \in Task
  BY DEF Nothing, Rest, Task

LEMMA BuiltType ==
  ASSUME TypeOK, NEW c \in Conns, Exists(c)
  PROVE  Built(c) \in Source
  <1>1. remote[c] \in 1..MaxVersion
    BY DEF TypeOK, Exists
  <1>2. QED
    BY <1>1 DEF Built, Source

LEMMA FailsType == TypeOK /\ (Fails \/ UNCHANGED failures) => failures' \in 0..MaxFailures
  BY DEF TypeOK, Fails

\* The next message of a queue.
LEMMA TakesType ==
  ASSUME TypeOK, NEW kinds, Takes(kinds)
  PROVE  Head(queue) \in Message /\ queue' \in Seq(Message) /\ Head(queue).kind \in kinds
  BY HeadTailProperties DEF TypeOK, Takes

\* An event is told to the open sockets.
LEMMA EmitType ==
  ASSUME TypeOK, NEW kind \in {"created", "updated", "deleted"}, NEW c \in Conns, Emit(kind, c)
  PROVE  wire' \in [Sockets -> Seq(Message)]
  <1>1. [kind |-> kind, conn |-> c] \in Message
    BY MessageKinds DEF Message
  <1>2. \A s \in Sockets : Append(wire[s], [kind |-> kind, conn |-> c]) \in Seq(Message)
    BY <1>1, AppendProperties DEF TypeOK
  <1>3. QED
    BY <1>2 DEF Emit, TypeOK

-----------------------------------------------------------------------------
(* Types.                                                                  *)

LEMMA WorldType ==
  ASSUME TypeOK, NEW c \in Conns,
         \/ UserCreates(c) \/ UserUpdates(c) \/ ConnectionGoes(c)
         \/ PublishPosts(c) \/ PublishSaves(c) \/ DropDV(c)
         \/ PublishReads(c) \/ PublishCaches(c)
  PROVE  TypeOK'
  <1> USE DEF TypeOK, execVars, srcVars, ownVars, netVars
  <1>1. CASE UserCreates(c) \/ ConnectionGoes(c) \/ PublishPosts(c)
    <2>1. wire' \in [Sockets -> Seq(Message)]
      BY <1>1, EmitType DEF UserCreates, ConnectionGoes, PublishPosts
    <2>2. CASE UserCreates(c)
      BY <2>1, <2>2, SMTT(30) DEF UserCreates
    <2>3. CASE ConnectionGoes(c)
      BY <2>1, <2>3, SMTT(30) DEF ConnectionGoes
    <2>4. CASE PublishPosts(c)
      BY <2>1, <2>4, SMTT(30) DEF PublishPosts
    <2>5. QED
      BY <1>1, <2>2, <2>3, <2>4
  <1>2. CASE UserUpdates(c)
    <2>1. wire' \in [Sockets -> Seq(Message)]
      BY <1>2, EmitType DEF UserUpdates
    <2>2. remote[c] + 1 \in 0..MaxVersion
      BY <1>2 DEF UserUpdates, Exists
    <2>3. QED
      BY <1>2, <2>1, <2>2 DEF UserUpdates
  <1>3. CASE PublishSaves(c)
    BY <1>3 DEF PublishSaves
  <1>4. CASE DropDV(c)
    BY <1>4 DEF DropDV
  <1>5. CASE PublishReads(c)
    <2>1. [ver |-> remote[c], named |-> c \in rows] \in Source
      BY <1>5, BuiltType DEF PublishReads, Built
    <2>2. QED
      BY <1>5, <2>1 DEF PublishReads
  <1>6. CASE PublishCaches(c)
    BY <1>6 DEF PublishCaches
  <1>7. QED
    BY <1>1, <1>2, <1>3, <1>4, <1>5, <1>6

LEMMA SocketType ==
  ASSUME TypeOK, NEW s \in Sockets, Deliver(s) \/ SocketDies(s) \/ Connect(s)
  PROVE  TypeOK'
  <1> USE DEF TypeOK, execVars, srcVars, ownVars, netVars
  <1>1. CASE Deliver(s)
    <2>1. Head(wire[s]) \in Message /\ Tail(wire[s]) \in Seq(Message)
      BY <1>1, HeadTailProperties DEF Deliver
    <2>2. queue' \in Seq(Message)
      BY <1>1, <2>1, AppendProperties DEF Deliver
    <2>3. wire' \in [Sockets -> Seq(Message)]
      BY <1>1, <2>1 DEF Deliver
    <2>4. QED
      BY <1>1, <2>2, <2>3 DEF Deliver
  <1>2. CASE SocketDies(s)
    <2>1. wire' \in [Sockets -> Seq(Message)]
      BY <1>2, EmptySeq DEF SocketDies
    <2>2. failures' \in 0..MaxFailures
      BY <1>2, FailsType DEF SocketDies
    <2>3. QED
      BY <1>2, <2>1, <2>2 DEF SocketDies
  <1>3. CASE Connect(s)
    <2>1. <<Greeting>> \in Seq(Message)
      BY MessageKinds
    <2>2. QED
      BY <1>3, <2>1 DEF Connect
  <1>4. QED
    BY <1>1, <1>2, <1>3

LEMMA SynchronizeType ==
  ASSUME TypeOK, NEW periodic \in BOOLEAN, Synchronize(periodic)
  PROVE  task' \in Task /\ cache' \in [Conns -> Source \cup {None}]
  <1>1. \A c \in Conns : Exists(c) => Built(c) \in Source
    BY BuiltType
  <1>2. QED
    BY <1>1 DEF TypeOK, Synchronize, Task

LEMMA TakenType ==
  ASSUME TypeOK, Periodic \/ HandleGreeting \/ HandleAdd \/ HandleDelete
  PROVE  TypeOK'
  <1> USE DEF execVars, srcVars, ownVars, netVars
  <1>1. CASE Periodic
    <2>1. task' \in Task /\ cache' \in [Conns -> Source \cup {None}]
      BY <1>1, SynchronizeType DEF Periodic, TypeOK
    <2>2. failures' \in 0..MaxFailures
      <3>1. Fails \/ UNCHANGED failures
        BY <1>1, Zenon DEF Periodic
      <3>2. QED
        BY <3>1, FailsType
    <2>3. QED
      BY <1>1, <2>1, <2>2 DEF Periodic, TypeOK
  <1>2. CASE HandleGreeting
    <2>1. task' \in Task /\ cache' \in [Conns -> Source \cup {None}]
      BY <1>2, SynchronizeType DEF HandleGreeting, TypeOK
    <2>2. failures' \in 0..MaxFailures
      <3>1. Fails \/ UNCHANGED failures
        BY <1>2, Zenon DEF HandleGreeting
      <3>2. QED
        BY <3>1, FailsType
    <2>3. queue' \in Seq(Message)
      BY <1>2, TakesType DEF HandleGreeting
    <2>4. QED
      BY <1>2, <2>1, <2>2, <2>3 DEF HandleGreeting, TypeOK
  <1>3. CASE HandleAdd
    <2> DEFINE c == Head(queue).conn
               source == IF cache[c] # None THEN cache[c] ELSE Built(c)
    <2> HIDE DEF c, source
    <2>0. Takes({"created", "updated"})
      BY <1>3 DEF HandleAdd
    <2>1. c \in Conns /\ queue' \in Seq(Message)
      <3>1. Head(queue) \in Message /\ queue' \in Seq(Message)
            /\ Head(queue).kind \in {"created", "updated"}
        BY <2>0, TakesType
      <3>2. QED
        BY <3>1, MessageKinds DEF c
    <2>2. CASE UNCHANGED <<task, cache>>
      BY <1>3, <2>1, <2>2 DEF HandleAdd, Fails, TypeOK
    <2>3. CASE /\ cache[c] # None \/ Exists(c)
               /\ task' = [Rest EXCEPT !.update = Head(queue).kind = "updated",
                                       !.add[c] = source, !.cached = {c}]
               /\ cache' = [cache EXCEPT ![c] = source]
               /\ UNCHANGED failures
      <3>1. source \in Source
        BY <2>1, <2>3, BuiltType DEF source, TypeOK
      <3>2. task' \in Task
        BY <2>1, <2>3, <3>1 DEF Rest, Task, Nothing
      <3>3. QED
        BY <1>3, <2>1, <2>3, <3>1, <3>2 DEF HandleAdd, TypeOK
    <2>4. QED
      BY <1>3, <2>2, <2>3 DEF HandleAdd, c, source
  <1>4. CASE HandleDelete
    <2>1. Head(queue).conn \in Conns /\ queue' \in Seq(Message)
      <3>1. Head(queue) \in Message /\ queue' \in Seq(Message) /\ Head(queue).kind \in {"deleted"}
        BY <1>4, TakesType DEF HandleDelete
      <3>2. QED
        BY <3>1, MessageKinds
    <2>2. task' \in Task
      BY <1>4, <2>1, NothingType DEF HandleDelete, Task
    <2>3. QED
      BY <1>4, <2>1, <2>2 DEF HandleDelete, TypeOK
  <1>5. QED
    BY <1>1, <1>2, <1>3, <1>4

\* What AddConnection leaves of a data source and of the rows.
LEMMA KeptType ==
  ASSUME TypeOK, NEW c \in Conns
  PROVE  Kept(c) \in (1..MaxVersion) \cup {None} /\ Row(c) \subseteq Conns
  BY DEF TypeOK, Kept, Row

\* A source that is done with leaves the task.
LEMMA AddedType ==
  ASSUME TypeOK, NEW c \in Conns
  PROVE  /\ [task EXCEPT !.add[c] = None] \in Task
         /\ [task EXCEPT !.drop = @ \ {c}] \in Task
  BY DEF TypeOK, Task

LEMMA NamedType ==
  ASSUME TypeOK, NEW c \in Conns, cache[c] # None, NEW b \in BOOLEAN
  PROVE  [cache[c] EXCEPT !.named = b] \in Source
  BY DEF TypeOK, Source

LEMMA TaskType ==
  ASSUME TypeOK, TaskStep
  PROVE  TypeOK'
  <1> USE DEF netVars, srcVars, ownVars
  <1>1. ASSUME NEW c \in Conns, AddConnection(c)  PROVE TypeOK'
    <2>1. task.add[c] \in Source
      BY <1>1 DEF AddConnection, TypeOK, Task
    <2>2. task' \in Task
      BY <1>1, AddedType DEF AddConnection
    <2>3. CASE c \in sourceIds
      BY <1>1, <2>2, <2>3 DEF AddConnection, TypeOK
    <2>4. CASE c \notin sourceIds
      <3>1. registered' \in [Conns -> (1..MaxVersion) \cup {None}] /\ rows' \subseteq Conns
        BY <1>1, <2>1, <2>4, KeptType DEF AddConnection, TypeOK, Source
      <3>2. cache[c] # None => [cache[c] EXCEPT !.named = TRUE] \in Source
        BY NamedType
      <3>3. cache' \in [Conns -> Source \cup {None}]
        BY <1>1, <2>4, <3>2 DEF AddConnection, TypeOK
      <3>4. QED
        BY <1>1, <2>2, <3>1, <3>3 DEF AddConnection, TypeOK
    <2>5. QED
      BY <2>3, <2>4
  <1>2. ASSUME NEW c \in Conns, AddConnectionThrows(c)  PROVE TypeOK'
    <2>1. failures' \in 0..MaxFailures /\ task' \in Task /\ scheduled' \in BOOLEAN
      BY <1>2, FailsType, NothingType DEF AddConnectionThrows, TypeOK
    <2>2. QED
      BY <1>2, <2>1 DEF AddConnectionThrows, TypeOK
  <1>3. ASSUME NEW c \in Conns, AddConnectionFails(c)  PROVE TypeOK'
    <2>1. failures' \in 0..MaxFailures /\ task' \in Task
      BY <1>3, FailsType, AddedType DEF AddConnectionFails
    <2>2. registered' \in [Conns -> (1..MaxVersion) \cup {None}]
      BY <1>3, KeptType DEF AddConnectionFails, TypeOK
    <2>3. PICK named \in {task.add[c].named, TRUE} :
            /\ rows' = IF named THEN Row(c) ELSE rows
            /\ cache' = [cache EXCEPT ![c] =
                 IF task.update THEN None
                 ELSE IF @ # None /\ c \in task.cached THEN [@ EXCEPT !.named = named] ELSE @]
      BY <1>3 DEF AddConnectionFails
    <2>4. named \in BOOLEAN
      BY <1>3 DEF AddConnectionFails, TypeOK, Task, Source
    <2>5. cache[c] # None => [cache[c] EXCEPT !.named = named] \in Source
      BY <2>4, NamedType
    <2>6. cache' \in [Conns -> Source \cup {None}]
      BY <2>3, <2>5 DEF TypeOK
    <2>7. rows' \subseteq Conns
      BY <2>3, KeptType DEF TypeOK
    <2>8. QED
      BY <1>3, <2>1, <2>2, <2>6, <2>7 DEF AddConnectionFails, TypeOK
  <1>4. ASSUME NEW c \in Conns, DropConnection(c)  PROVE TypeOK'
    <2>1. task' \in Task
      BY <1>4, AddedType DEF DropConnection
    <2>2. QED
      BY <1>4, <2>1 DEF DropConnection, TypeOK
  <1>5. ASSUME NEW c \in Conns, DropConnectionFails(c)  PROVE TypeOK'
    <2>1. failures' \in 0..MaxFailures /\ task' \in Task
      BY <1>5, FailsType, AddedType, NothingType DEF DropConnectionFails
    <2>2. rows' \subseteq Conns /\ cache' \in [Conns -> Source \cup {None}]
      BY <1>5 DEF DropConnectionFails, TypeOK
    <2>3. registered' \in [Conns -> (1..MaxVersion) \cup {None}]
      BY <1>5 DEF DropConnectionFails, TypeOK
    <2>4. QED
      BY <1>5, <2>1, <2>2, <2>3 DEF DropConnectionFails, TypeOK
  <1>6. CASE TaskEnds
    BY <1>6, NothingType DEF TaskEnds, TypeOK
  <1>7. ASSUME NEW c \in Conns, AddConnectionKeeps(c)  PROVE TypeOK'
    <2>1. failures' \in 0..MaxFailures /\ task' \in Task
      BY <1>7, FailsType, AddedType DEF AddConnectionKeeps
    <2>2. registered' \in [Conns -> (1..MaxVersion) \cup {None}]
      BY <1>7 DEF AddConnectionKeeps, TypeOK, Task, Source
    <2>3. QED
      BY <1>7, <2>1, <2>2 DEF AddConnectionKeeps, TypeOK
  <1>8. QED
    BY <1>1, <1>2, <1>3, <1>4, <1>5, <1>6, <1>7 DEF TaskStep

LEMMA RestartType ==
  ASSUME TypeOK, Restart
  PROVE  TypeOK'
  <1>1. failures' \in 0..MaxFailures /\ task' \in Task
    BY FailsType, NothingType DEF Restart
  <1>2. wire' \in [Sockets -> Seq(Message)] /\ queue' \in Seq(Message)
    BY EmptySeq DEF Restart
  <1>3. cache' \in [Conns -> Source \cup {None}] /\ fetched' \in [Conns -> Source \cup {None}]
        /\ registered' \in [Conns -> (1..MaxVersion) \cup {None}]
    BY DEF Restart, Nothing
  <1>4. {connected', scheduled'} \subseteq BOOLEAN
    BY DEF Restart
  <1>5. QED
    BY <1>1, <1>2, <1>3, <1>4 DEF Restart, TypeOK

LEMMA InitType == Init => TypeOK
  <1> SUFFICES ASSUME Init  PROVE TypeOK
    OBVIOUS
  <1>1. wire \in [Sockets -> Seq(Message)] /\ queue \in Seq(Message) /\ task \in Task
    BY EmptySeq, NothingType DEF Init
  <1>2. cache \in [Conns -> Source \cup {None}] /\ fetched \in [Conns -> Source \cup {None}]
        /\ registered \in [Conns -> (1..MaxVersion) \cup {None}]
    BY DEF Init, Nothing
  <1>3. {connected, scheduled} \subseteq BOOLEAN
    BY DEF Init
  <1>4. QED
    BY <1>1, <1>2, <1>3 DEF Init, TypeOK

LEMMA NextType == TypeOK /\ [Next]_vars => TypeOK'
  <1> SUFFICES ASSUME TypeOK, [Next]_vars  PROVE TypeOK'
    OBVIOUS
  <1>1. CASE UNCHANGED vars
    BY <1>1 DEF vars, netVars, execVars, srcVars, ownVars, TypeOK
  <1>2. QED
    BY <1>1, WorldType, SocketType, TakenType, TaskType, RestartType DEF Next

\* Every variable keeps its type, for any number of connections, sockets,
\* messages and failures.
THEOREM ConnectionsTypeCorrect == Spec => []TypeOK
  BY InitType, NextType, PTL DEF Spec

-----------------------------------------------------------------------------
(* A connection that is gone.                                              *)

Speaks(q, c) == \E i \in 1..Len(q) : q[i].kind # "connected" /\ q[i].conn = c

LEMMA SpeaksAppend ==
  ASSUME NEW q \in Seq(Message), NEW m \in Message, NEW c,
         ~Speaks(q, c), m.kind = "connected" \/ m.conn # c
  PROVE  ~Speaks(Append(q, m), c)
  <1>1. /\ Len(Append(q, m)) = Len(q) + 1 /\ Append(q, m)[Len(q) + 1] = m
        /\ \A i \in 1..Len(q) : Append(q, m)[i] = q[i]
    BY AppendProperties
  <1>2. Len(q) \in Nat
    BY LenProperties
  <1>3. QED
    BY <1>1, <1>2 DEF Speaks

LEMMA SpeaksTail ==
  ASSUME NEW q \in Seq(Message), q # <<>>, NEW c, ~Speaks(q, c)
  PROVE  /\ ~Speaks(Tail(q), c)
         /\ Head(q).kind = "connected" \/ Head(q).conn # c
  <1>1. /\ Len(q) \in Nat /\ Len(q) > 0 /\ Len(Tail(q)) = Len(q) - 1
        /\ \A i \in 1..Len(Tail(q)) : Tail(q)[i] = q[i + 1]
        /\ Head(q) = q[1]
    BY HeadTailProperties, LenProperties, EmptySeq
  <1>2. QED
    BY <1>1 DEF Speaks

LEMMA SpeaksNone ==
  ASSUME NEW c
  PROVE  ~Speaks(<<>>, c) /\ ~Speaks(<<Greeting>>, c)
  BY MessageKinds DEF Speaks

\* The definition of Over, by what speaks of the connection.
LEMMA OverSpeaks ==
  ASSUME NEW c \in Conns
  PROVE  Over(c) <=> /\ remote[c] = None /\ registered[c] = None /\ task.add[c] = None
                     /\ ~Speaks(queue, c) /\ \A s \in Sockets : ~Speaks(wire[s], c)
  BY DEF Over, Settled, Speaks

LEMMA OverNext ==
  ASSUME NEW c \in Conns, remote'[c] = None, registered'[c] = None, task'.add[c] = None,
         ~Speaks(queue', c), \A s \in Sockets : ~Speaks(wire'[s], c)
  PROVE  Over(c)'
  BY DEF Over, Settled, Speaks

LEMMA OverEmit ==
  ASSUME TypeOK, NEW c \in Conns, Over(c), NEW d \in Conns \ {c},
         NEW kind \in {"created", "updated", "deleted"}, Emit(kind, d)
  PROVE  \A s \in Sockets : ~Speaks(wire'[s], c)
  <1>1. [kind |-> kind, conn |-> d] \in Message
    BY MessageKinds DEF Message
  <1>2. \A s \in Sockets : wire[s] \in Seq(Message) /\ ~Speaks(wire[s], c)
    BY OverSpeaks DEF TypeOK
  <1>3. \A s \in Sockets : ~Speaks(Append(wire[s], [kind |-> kind, conn |-> d]), c)
    BY <1>1, <1>2, SpeaksAppend
  <1>4. \A s \in Sockets : wire'[s] \in {wire[s], Append(wire[s], [kind |-> kind, conn |-> d])}
    BY DEF Emit
  <1>5. QED
    BY <1>2, <1>3, <1>4

LEMMA OverWorld ==
  ASSUME TypeOK, NEW c \in Conns, Over(c), NEW d \in Conns,
         \/ UserCreates(d) \/ UserUpdates(d) \/ ConnectionGoes(d)
         \/ PublishPosts(d) \/ PublishSaves(d) \/ DropDV(d)
         \/ PublishReads(d) \/ PublishCaches(d)
  PROVE  Over(c)'
  <1> USE OverSpeaks DEF execVars, srcVars, ownVars, netVars
  <1>1. CASE UserCreates(d) \/ UserUpdates(d) \/ ConnectionGoes(d) \/ PublishPosts(d)
    <2>1. d # c
      BY <1>1 DEF UserCreates, UserUpdates, ConnectionGoes, PublishPosts, Exists
    <2>2. \A s \in Sockets : ~Speaks(wire'[s], c)
      BY <1>1, <2>1, OverEmit DEF UserCreates, UserUpdates, ConnectionGoes, PublishPosts
    <2>3. remote'[c] = None /\ queue' = queue /\ task' = task /\ registered' = registered
      BY <1>1, <2>1 DEF UserCreates, UserUpdates, ConnectionGoes, PublishPosts, TypeOK
    <2>4. QED
      BY <2>2, <2>3, OverNext
  <1>2. CASE PublishSaves(d) \/ DropDV(d) \/ PublishReads(d) \/ PublishCaches(d)
    <2>1. remote' = remote /\ wire' = wire /\ queue' = queue /\ task' = task
          /\ registered' = registered
      BY <1>2 DEF PublishSaves, DropDV, PublishReads, PublishCaches
    <2>2. QED
      BY <2>1, OverNext
  <1>3. QED
    BY <1>1, <1>2

LEMMA OverSocket ==
  ASSUME TypeOK, NEW c \in Conns, Over(c), NEW z \in Sockets,
         Deliver(z) \/ SocketDies(z) \/ Connect(z)
  PROVE  Over(c)'
  <1> USE DEF execVars, srcVars, ownVars, netVars
  <1>0. /\ remote[c] = None /\ registered[c] = None /\ task.add[c] = None
        /\ ~Speaks(queue, c) /\ \A s \in Sockets : ~Speaks(wire[s], c)
    BY OverSpeaks
  <1>1. CASE Deliver(z)
    <2>1. wire[z] \in Seq(Message) /\ wire[z] # <<>> /\ queue \in Seq(Message)
      BY <1>1 DEF Deliver, TypeOK
    <2>2. ~Speaks(Tail(wire[z]), c) /\ (Head(wire[z]).kind = "connected" \/ Head(wire[z]).conn # c)
      BY <1>0, <2>1, SpeaksTail
    <2>3. Head(wire[z]) \in Message
      BY <2>1, HeadTailProperties
    <2>4. ~Speaks(queue', c)
      BY <1>0, <1>1, <2>1, <2>2, <2>3, SpeaksAppend DEF Deliver
    <2>5. \A s \in Sockets : wire'[s] = IF s = z THEN Tail(wire[z]) ELSE wire[s]
      BY <1>1 DEF Deliver, TypeOK
    <2>6. \A s \in Sockets : ~Speaks(wire'[s], c)
      BY <1>0, <2>2, <2>5
    <2>7. remote' = remote /\ task' = task /\ registered' = registered
      BY <1>1 DEF Deliver
    <2>8. QED
      BY <1>0, <2>4, <2>6, <2>7, OverNext
  <1>2. CASE SocketDies(z) \/ Connect(z)
    <2>1. \A s \in Sockets : wire'[s] \in {wire[s], <<>>, <<Greeting>>}
      BY <1>2 DEF SocketDies, Connect, TypeOK
    <2>2. \A s \in Sockets : ~Speaks(wire'[s], c)
      BY <1>0, <2>1, SpeaksNone
    <2>3. remote' = remote /\ queue' = queue /\ task' = task /\ registered' = registered
      BY <1>2 DEF SocketDies, Connect
    <2>4. QED
      BY <1>0, <2>2, <2>3, OverNext
  <1>3. QED
    BY <1>1, <1>2

LEMMA OverTaken ==
  ASSUME TypeOK, NEW c \in Conns, Over(c),
         Periodic \/ HandleGreeting \/ HandleAdd \/ HandleDelete
  PROVE  Over(c)'
  <1> USE DEF execVars, srcVars, ownVars, netVars
  <1>0. /\ remote[c] = None /\ registered[c] = None /\ task.add[c] = None
        /\ ~Speaks(queue, c) /\ \A s \in Sockets : ~Speaks(wire[s], c)
    BY OverSpeaks
  <1>1. remote' = remote /\ registered' = registered /\ wire' = wire
    BY DEF Periodic, HandleGreeting, HandleAdd, HandleDelete
  <1>2. ASSUME NEW kinds, Takes(kinds)
        PROVE  ~Speaks(queue', c) /\ (Head(queue).kind = "connected" \/ Head(queue).conn # c)
    <2>1. queue \in Seq(Message) /\ queue # <<>> /\ queue' = Tail(queue)
      BY <1>2 DEF Takes, TypeOK
    <2>2. QED
      BY <1>0, <2>1, SpeaksTail
  <1>3. ASSUME NEW p, Synchronize(p)  PROVE task'.add[c] = None
    BY <1>0, <1>3 DEF Synchronize, Exists
  <1>4. CASE Periodic
    <2>1. queue' = queue /\ task'.add[c] = None
      BY <1>0, <1>3, <1>4 DEF Periodic
    <2>2. QED
      BY <1>0, <1>1, <2>1, OverNext
  <1>5. CASE HandleGreeting
    <2>1. ~Speaks(queue', c) /\ task'.add[c] = None
      BY <1>0, <1>2, <1>3, <1>5 DEF HandleGreeting
    <2>2. QED
      BY <1>0, <1>1, <2>1, OverNext
  <1>6. CASE HandleAdd
    <2>1. Takes({"created", "updated"})
      BY <1>6 DEF HandleAdd
    <2>2. ~Speaks(queue', c) /\ Head(queue).conn # c /\ task = Rest
      BY <1>2, <2>1 DEF Takes
    <2>3. CASE UNCHANGED <<task, cache>>
      BY <1>0, <1>1, <2>2, <2>3, OverNext
    <2> DEFINE d == Head(queue).conn
               source == IF cache[d] # None THEN cache[d] ELSE Built(d)
    <2>4. CASE task' = [Rest EXCEPT !.update = Head(queue).kind = "updated",
                                    !.add[d] = source, !.cached = {d}]
      <3>1. task'.add[c] = None
        BY <2>2, <2>4 DEF Rest, Nothing
      <3>2. QED
        BY <1>0, <1>1, <2>2, <3>1, OverNext
    <2>5. QED
      BY <1>6, <2>3, <2>4, Zenon DEF HandleAdd
  <1>7. CASE HandleDelete
    <2>1. ~Speaks(queue', c)
      BY <1>2, <1>7 DEF HandleDelete
    <2>2. task'.add[c] = None
      BY <1>7 DEF HandleDelete, Rest, Nothing
    <2>3. QED
      BY <1>0, <1>1, <2>1, <2>2, OverNext
  <1>8. QED
    BY <1>4, <1>5, <1>6, <1>7

LEMMA OverTask ==
  ASSUME TypeOK, NEW c \in Conns, Over(c), TaskStep \/ Restart
  PROVE  Over(c)'
  <1> USE DEF execVars, srcVars, ownVars, netVars
  <1>0. /\ remote[c] = None /\ registered[c] = None /\ task.add[c] = None
        /\ ~Speaks(queue, c) /\ \A s \in Sockets : ~Speaks(wire[s], c)
    BY OverSpeaks
  <1>1. CASE Restart
    <2>1. \A s \in Sockets : wire'[s] = <<>>
      BY <1>1 DEF Restart
    <2>2. queue' = <<>> /\ remote' = remote /\ registered'[c] = None /\ task'.add[c] = None
      BY <1>1 DEF Restart, Nothing, Rest
    <2>3. QED
      BY <1>0, <2>1, <2>2, SpeaksNone, OverNext
  <1>2. CASE TaskStep
    <2>1. remote' = remote /\ wire' = wire /\ queue' = queue
      BY <1>2 DEF TaskStep, AddConnection, AddConnectionThrows, AddConnectionFails,
                  AddConnectionKeeps, DropConnection, DropConnectionFails, TaskEnds
    <2>2. task'.add[c] = None
      <3>1. task' = Rest \/ (\E d \in Conns : task' = [task EXCEPT !.add[d] = None])
            \/ (\E d \in Conns : task' = [task EXCEPT !.drop = @ \ {d}])
        BY <1>2 DEF TaskStep, AddConnection, AddConnectionThrows, AddConnectionFails,
                    AddConnectionKeeps, DropConnection, DropConnectionFails, TaskEnds
      <3>2. QED
        BY <1>0, <3>1 DEF Rest, Nothing, TypeOK, Task
    <2>3. registered'[c] = None
      <3>1. registered' = registered \/ (\E d \in Conns : \E v : registered' = [registered EXCEPT ![d] = v]
                                             /\ (task.add[d] # None \/ v \in {None, registered[d]}))
        BY <1>2 DEF TaskStep, AddConnection, AddConnectionThrows, AddConnectionFails,
                    AddConnectionKeeps, DropConnection, DropConnectionFails, TaskEnds
      <3>2. QED
        BY <1>0, <3>1 DEF TypeOK
    <2>4. QED
      BY <1>0, <2>1, <2>2, <2>3, OverNext
  <1>3. QED
    BY <1>1, <1>2

LEMMA StepOver ==
  ASSUME TypeOK, [Next]_vars, NEW c \in Conns, Over(c)
  PROVE  Over(c)'
  <1>1. CASE UNCHANGED vars
    BY <1>1 DEF vars, netVars, execVars, srcVars, ownVars, Over, Settled
  <1>2. QED
    BY <1>1, OverWorld, OverSocket, OverTaken, OverTask DEF Next

\* A connection that is gone, with nothing about it left to handle, never gets a
\* data source again, whatever is read, lost or repeated, for every instance.
THEOREM NoRevivalCorrect == Spec => NoRevival
  <1> DEFINE Stays == \A c \in Conns : Over(c) => Over(c)'
  <1>1. TypeOK /\ [Next]_vars => [Stays]_vars
    BY StepOver
  <1>2. QED
    BY InitType, NextType, <1>1, PTL DEF Spec, NoRevival

-----------------------------------------------------------------------------
(* The rows of data sources.                                               *)

\* A message is about a connection that was made, or is gone, by then.
Fits(m, r) ==
  m.kind # "connected" => r[m.conn] # 0 /\ (m.kind = "deleted" => r[m.conn] = None)
Told(q, r) == \A i \in 1..Len(q) : Fits(q[i], r)

Named(source) == source # None /\ source.named

\* Nothing is known of a connection before it is made; what is dropped is gone;
\* and of one that exists, a data source and a source with its name have the row.
Unborn(c) ==
  remote[c] = 0 =>
    cache[c] = None /\ fetched[c] = None /\ task.add[c] = None /\ registered[c] = None
Dropped(c) == c \in task.drop => remote[c] = None
Rowed(c) ==
  /\ Exists(c)
  /\ registered[c] # None \/ Named(cache[c]) \/ Named(fetched[c]) \/ Named(task.add[c])
  => c \in rows
Fine(c) == Unborn(c) /\ Dropped(c) /\ Rowed(c)

TellInv == Told(queue, remote) /\ \A s \in Sockets : Told(wire[s], remote)
RowInv  == TypeOK /\ TellInv /\ \A c \in Conns : Fine(c)

LEMMA ToldAppend ==
  ASSUME NEW q \in Seq(Message), NEW m \in Message, NEW r, Told(q, r), Fits(m, r)
  PROVE  Told(Append(q, m), r)
  <1>1. /\ Len(Append(q, m)) = Len(q) + 1 /\ Append(q, m)[Len(q) + 1] = m
        /\ \A i \in 1..Len(q) : Append(q, m)[i] = q[i]
    BY AppendProperties
  <1>2. Len(q) \in Nat
    BY LenProperties
  <1>3. QED
    BY <1>1, <1>2 DEF Told

LEMMA ToldTail ==
  ASSUME NEW q \in Seq(Message), q # <<>>, NEW r, Told(q, r)
  PROVE  Told(Tail(q), r) /\ Fits(Head(q), r)
  <1>1. /\ Len(q) \in Nat /\ Len(q) > 0 /\ Len(Tail(q)) = Len(q) - 1
        /\ \A i \in 1..Len(Tail(q)) : Tail(q)[i] = q[i + 1]
        /\ Head(q) = q[1]
    BY HeadTailProperties, LenProperties, EmptySeq
  <1>2. QED
    BY <1>1 DEF Told

LEMMA ToldNone == \A r : Told(<<>>, r) /\ Told(<<Greeting>>, r)
  BY MessageKinds DEF Told, Fits

\* Connections are made once, and go once.
LEMMA ToldGrows ==
  ASSUME NEW q \in Seq(Message), NEW r, NEW r2, Told(q, r),
         \A c \in Conns : (r[c] # 0 => r2[c] # 0) /\ (r[c] = None => r2[c] = None)
  PROVE  Told(q, r2)
  <1>1. ASSUME NEW i \in 1..Len(q)  PROVE Fits(q[i], r2)
    <2>1. q[i] \in Message /\ Fits(q[i], r)
      BY ElementOfSeq DEF Told
    <2>2. q[i].kind # "connected" => q[i].conn \in Conns
      BY <2>1, MessageKinds
    <2>3. QED
      BY <2>1, <2>2 DEF Fits
  <1>2. QED
    BY <1>1 DEF Told

LEMMA TellWorld ==
  ASSUME TypeOK, TellInv, NEW d \in Conns,
         UserCreates(d) \/ UserUpdates(d) \/ ConnectionGoes(d) \/ PublishPosts(d)
  PROVE  TellInv'
  <1> USE DEF execVars, srcVars, ownVars, netVars
  <1>1. \A c \in Conns : (remote[c] # 0 => remote'[c] # 0) /\ (remote[c] = None => remote'[c] = None)
    BY DEF UserCreates, UserUpdates, ConnectionGoes, PublishPosts, TypeOK, Exists
  <1>2. PICK kind \in {"created", "updated", "deleted"} :
          /\ Emit(kind, d) /\ remote'[d] # 0 /\ (kind = "deleted" => remote'[d] = None)
    <2>1. CASE UserCreates(d) \/ PublishPosts(d)
      BY <2>1 DEF UserCreates, PublishPosts, TypeOK
    <2>2. CASE UserUpdates(d)
      BY <2>2 DEF UserUpdates, TypeOK, Exists
    <2>3. CASE ConnectionGoes(d)
      BY <2>3 DEF ConnectionGoes, TypeOK
    <2>4. QED
      BY <2>1, <2>2, <2>3
  <1> DEFINE m == [kind |-> kind, conn |-> d]
  <1>3. m \in Message /\ Fits(m, remote')
    BY <1>2, MessageKinds DEF Message, Fits
  <1>4. queue' = queue /\ Told(queue, remote')
    <2>1. queue \in Seq(Message) /\ Told(queue, remote)
      BY DEF TypeOK, TellInv
    <2>2. QED
      BY <1>1, <2>1, ToldGrows DEF UserCreates, UserUpdates, ConnectionGoes, PublishPosts
  <1>5. ASSUME NEW s \in Sockets  PROVE Told(wire'[s], remote')
    <2>1. wire[s] \in Seq(Message) /\ Told(wire[s], remote)
      BY DEF TypeOK, TellInv
    <2>2. Told(wire[s], remote')
      BY <1>1, <2>1, ToldGrows
    <2>3. Told(Append(wire[s], m), remote')
      BY <1>3, <2>1, <2>2, ToldAppend
    <2>4. wire'[s] \in {wire[s], Append(wire[s], m)}
      BY <1>2 DEF Emit
    <2>5. QED
      BY <2>2, <2>3, <2>4
  <1>6. QED
    BY <1>4, <1>5 DEF TellInv

LEMMA FineWorld ==
  ASSUME TypeOK, \A c \in Conns : Fine(c), NEW d \in Conns,
         \/ UserCreates(d) \/ UserUpdates(d) \/ ConnectionGoes(d)
         \/ PublishPosts(d) \/ PublishSaves(d) \/ DropDV(d)
         \/ PublishReads(d) \/ PublishCaches(d),
         NEW c \in Conns
  PROVE  Fine(c)'
  <1> USE DEF execVars, srcVars, ownVars, netVars, Fine, Unborn, Dropped, Rowed
  <1>1. CASE UserCreates(d) \/ PublishPosts(d)
    <2>1. remote'[c] = IF c = d THEN 1 ELSE remote[c]
      BY <1>1 DEF UserCreates, PublishPosts, TypeOK
    <2>2. remote[d] = 0
      BY <1>1 DEF UserCreates, PublishPosts
    <2>3. UNCHANGED <<cache, fetched, task, registered, rows>>
      BY <1>1 DEF UserCreates, PublishPosts
    <2>4. QED
      BY <2>1, <2>2, <2>3 DEF Exists, Named
  <1>2. CASE UserUpdates(d) \/ ConnectionGoes(d)
    <2>1. Exists(d) /\ remote'[d] # 0 /\ (c # d => remote'[c] = remote[c])
      BY <1>2 DEF UserUpdates, ConnectionGoes, Exists, TypeOK
    <2>2. UNCHANGED <<cache, fetched, task, registered, rows>>
      BY <1>2 DEF UserUpdates, ConnectionGoes
    <2>3. QED
      BY <2>1, <2>2 DEF Exists, Named
  <1>3. CASE PublishSaves(d) \/ DropDV(d)
    BY <1>3 DEF PublishSaves, DropDV, Exists, Named
  <1>4. CASE PublishReads(d)
    BY <1>4 DEF PublishReads, Exists, Named, TypeOK
  <1>5. CASE PublishCaches(d)
    BY <1>5 DEF PublishCaches, Exists, Named, TypeOK
  <1>6. QED
    BY <1>1, <1>2, <1>3, <1>4, <1>5

LEMMA TellSocket ==
  ASSUME TypeOK, TellInv, NEW z \in Sockets, Deliver(z) \/ SocketDies(z) \/ Connect(z)
  PROVE  TellInv'
  <1> USE DEF execVars, srcVars, ownVars, netVars
  <1>1. remote' = remote
    BY DEF Deliver, SocketDies, Connect
  <1>2. CASE Deliver(z)
    <2>1. wire[z] \in Seq(Message) /\ wire[z] # <<>> /\ queue \in Seq(Message)
      BY <1>2 DEF Deliver, TypeOK
    <2>2. Told(Tail(wire[z]), remote) /\ Fits(Head(wire[z]), remote) /\ Head(wire[z]) \in Message
      BY <2>1, ToldTail, HeadTailProperties DEF TellInv
    <2>3. Told(queue', remote)
      BY <1>2, <2>1, <2>2, ToldAppend DEF Deliver, TellInv
    <2>4. \A s \in Sockets : wire'[s] = IF s = z THEN Tail(wire[z]) ELSE wire[s]
      BY <1>2 DEF Deliver, TypeOK
    <2>5. QED
      BY <1>1, <2>2, <2>3, <2>4 DEF TellInv
  <1>3. CASE SocketDies(z) \/ Connect(z)
    <2>1. queue' = queue /\ \A s \in Sockets : wire'[s] \in {wire[s], <<>>, <<Greeting>>}
      BY <1>3 DEF SocketDies, Connect, TypeOK
    <2>2. QED
      BY <1>1, <2>1, ToldNone DEF TellInv
  <1>4. QED
    BY <1>2, <1>3

LEMMA TellTaken ==
  ASSUME TypeOK, TellInv,
         UNCHANGED <<remote, wire>>, queue' = queue \/ \E kinds : Takes(kinds)
  PROVE  TellInv'
  <1>1. Told(queue', remote)
    <2>1. CASE queue' = queue
      BY <2>1 DEF TellInv
    <2>2. CASE \E kinds : Takes(kinds)
      BY <2>2, ToldTail DEF Takes, TellInv, TypeOK
    <2>3. QED
      BY <2>1, <2>2
  <1>2. QED
    BY <1>1 DEF TellInv

LEMMA FineSynchronize ==
  ASSUME TypeOK, \A c \in Conns : Fine(c), NEW p, Synchronize(p),
         UNCHANGED <<remote, registered, rows, fetched>>, NEW c \in Conns
  PROVE  Fine(c)'
  <1>1. Fine(c) /\ cache[c] \in Source \cup {None} /\ None \notin Source
    BY DEF TypeOK, Source
  <1>2. /\ task'.add[c] = IF Exists(c) THEN Built(c) ELSE None
        /\ task'.drop = {d \in Conns : registered[d] # None} \ {d \in Conns : Exists(d)}
        /\ cache'[c] = IF Exists(c) /\ cache[c] = None THEN Built(c) ELSE cache[c]
    BY DEF Synchronize
  <1>3. Unborn(c)'
    BY <1>1, <1>2 DEF Fine, Unborn, Exists
  <1>4. Dropped(c)'
    BY <1>1, <1>2 DEF Fine, Unborn, Dropped, Exists
  <1>5. ASSUME Exists(c), registered[c] # None \/ Named(cache'[c]) \/ Named(fetched[c])
                           \/ Named(task'.add[c])
        PROVE  c \in rows
    <2>1. task'.add[c] = Built(c) /\ cache'[c] \in {cache[c], Built(c)}
      BY <1>2, <1>5
    <2>2. Named(Built(c)) => c \in rows
      BY DEF Named, Built
    <2>3. registered[c] # None \/ Named(cache[c]) \/ Named(fetched[c]) => c \in rows
      BY <1>1, <1>5 DEF Fine, Rowed
    <2>4. QED
      BY <1>5, <2>1, <2>2, <2>3
  <1>6. Rowed(c)'
    BY <1>5 DEF Rowed, Exists
  <1>7. QED
    BY <1>3, <1>4, <1>6 DEF Fine

LEMMA FineTaken ==
  ASSUME TypeOK, TellInv, \A c \in Conns : Fine(c),
         Periodic \/ HandleGreeting \/ HandleAdd \/ HandleDelete, NEW c \in Conns
  PROVE  Fine(c)'
  <1> USE DEF execVars, srcVars, ownVars, netVars
  <1>1. UNCHANGED <<remote, registered, rows, fetched>>
    BY DEF Periodic, HandleGreeting, HandleAdd, HandleDelete
  <1>2. CASE UNCHANGED <<task, cache>>
    BY <1>1, <1>2 DEF Fine, Unborn, Dropped, Rowed, Exists, Named
  <1>3. CASE \E p : Synchronize(p)
    BY <1>1, <1>3, FineSynchronize
  <1>4. CASE HandleAdd /\ ~UNCHANGED <<task, cache>>
    <2> DEFINE d == Head(queue).conn
               source == IF cache[d] # None THEN cache[d] ELSE Built(d)
    <2>1. /\ Takes({"created", "updated"})
          /\ cache[d] # None \/ Exists(d)
          /\ task' = [Rest EXCEPT !.update = Head(queue).kind = "updated",
                                  !.add[d] = source, !.cached = {d}]
          /\ cache' = [cache EXCEPT ![d] = source]
      BY <1>4, Zenon DEF HandleAdd
    <2>2. d \in Conns
      <3>1. Takes({"created", "updated"})
        BY <1>4, Zenon DEF HandleAdd
      <3>2. Head(queue) \in Message /\ Head(queue).kind \in {"created", "updated"}
        BY <3>1, TakesType
      <3>3. QED
        BY <3>2, MessageKinds
    <2>3. Fine(c) /\ cache \in [Conns -> Source \cup {None}] /\ None \notin Source
      BY DEF TypeOK, Source
    <2>4. /\ task'.drop = {} /\ task'.add[c] = IF c = d THEN source ELSE None
          /\ cache'[c] = IF c = d THEN source ELSE cache[c]
      BY <2>1, <2>2, <2>3 DEF Rest, Nothing
    <2>5. Unborn(c)'
      BY <1>1, <2>1, <2>3, <2>4 DEF Fine, Unborn, Exists
    <2>6. Rowed(c)'
      <3>1. CASE c = d
        <4>1. Named(source) => Named(cache[c]) \/ c \in rows
          BY <3>1 DEF Named, Built
        <4>2. Exists(c) /\ (registered[c] # None \/ Named(cache[c]) \/ Named(fetched[c])) => c \in rows
          BY <2>3 DEF Fine, Rowed
        <4>3. task'.add[c] = source /\ cache'[c] = source
          BY <2>4, <3>1
        <4> HIDE DEF source, d
        <4>4. QED
          BY <1>1, <4>1, <4>2, <4>3 DEF Rowed, Exists
      <3>2. CASE c # d
        <4>1. task'.add[c] = None /\ cache'[c] = cache[c]
          BY <2>4, <3>2
        <4>2. QED
          BY <1>1, <2>3, <4>1 DEF Fine, Rowed, Exists, Named
      <3>3. QED
        BY <3>1, <3>2
    <2> HIDE DEF source, d
    <2>7. QED
      BY <2>4, <2>5, <2>6 DEF Fine, Dropped
  <1>5. CASE HandleDelete
    <2> DEFINE d == Head(queue).conn
    <2>1. Takes({"deleted"}) /\ task' = [Rest EXCEPT !.drop = {d}] /\ cache' = cache
      BY <1>5 DEF HandleDelete
    <2>2. remote[d] = None
      <3>1. queue \in Seq(Message) /\ queue # <<>> /\ Head(queue).kind \in {"deleted"}
        BY <2>1 DEF Takes, TypeOK
      <3>2. Fits(Head(queue), remote)
        BY <3>1, ToldTail DEF TellInv
      <3>3. QED
        BY <3>1, <3>2 DEF Fits
    <2>3. task'.drop = {d} /\ task'.add[c] = None
      BY <2>1 DEF Rest, Nothing
    <2>4. QED
      BY <1>1, <2>1, <2>2, <2>3 DEF Fine, Unborn, Dropped, Rowed, Exists, Named
  <1>6. QED
    BY <1>2, <1>3, <1>4, <1>5, Zenon DEF Periodic, HandleGreeting

LEMMA FineTask ==
  ASSUME TypeOK, \A c \in Conns : Fine(c), TaskStep, NEW c \in Conns
  PROVE  Fine(c)'
  <1> USE DEF netVars, srcVars, ownVars
  <1>0. /\ Fine(c) /\ remote' = remote /\ fetched' = fetched /\ None \notin Source
        /\ cache[c] \in Source \cup {None} /\ task.add[c] \in Source \cup {None}
        /\ registered \in [Conns -> (1..MaxVersion) \cup {None}]
        /\ cache \in [Conns -> Source \cup {None}] /\ rows \subseteq Conns
    BY DEF TypeOK, Task, Source, TaskStep, AddConnection, AddConnectionThrows,
           AddConnectionFails, AddConnectionKeeps, DropConnection, DropConnectionFails, TaskEnds
  <1>1. ASSUME NEW d \in Conns, AddConnection(d)  PROVE Fine(c)'
    <2>1. /\ task'.drop = task.drop
          /\ task'.add[c] = IF c = d THEN None ELSE task.add[c]
      BY <1>1 DEF AddConnection, TypeOK, Task
    <2>2. task.add[d] # None
      BY <1>1 DEF AddConnection
    <2>3. CASE d \in sourceIds \/ c # d
      <3>1. cache'[c] = cache[c] /\ registered'[c] = registered[c] /\ rows \subseteq rows'
        BY <1>0, <1>1, <2>3 DEF AddConnection, Row
      <3>2. QED
        BY <1>0, <2>1, <3>1 DEF Fine, Unborn, Dropped, Rowed, Exists, Named
    <2>4. CASE d \notin sourceIds /\ c = d
      <3>1. rows' = Row(c) /\ cache'[c] = IF task.update THEN None
              ELSE IF cache[c] # None /\ c \in task.cached THEN [cache[c] EXCEPT !.named = TRUE]
              ELSE cache[c]
        BY <1>0, <1>1, <2>4 DEF AddConnection
      <3>2. Unborn(c)'
        BY <1>0, <2>2, <2>4 DEF Fine, Unborn
      <3>3. Dropped(c)'
        BY <1>0, <2>1 DEF Fine, Dropped
      <3>4. Rowed(c)'
        <4>1. Exists(c) => c \in rows'
          BY <1>0, <2>2, <2>4, <3>1 DEF Fine, Rowed, Row, Named
        <4>2. QED
          BY <1>0, <4>1 DEF Rowed, Exists
      <3>5. QED
        BY <3>2, <3>3, <3>4 DEF Fine
    <2>5. QED
      BY <2>3, <2>4
  <1>2. CASE TaskEnds \/ \E d \in Conns : AddConnectionThrows(d)
    <2>1. task' = Rest /\ cache' = cache /\ registered' = registered /\ rows' = rows
      BY <1>2 DEF TaskEnds, AddConnectionThrows
    <2>2. task'.drop = {} /\ task'.add[c] = None
      BY <2>1 DEF Rest, Nothing
    <2>3. QED
      BY <1>0, <2>1, <2>2 DEF Fine, Unborn, Dropped, Rowed, Exists, Named
  <1>3. ASSUME NEW d \in Conns, AddConnectionFails(d)  PROVE Fine(c)'
    <2>1. /\ task'.drop = task.drop
          /\ task'.add[c] = IF c = d THEN None ELSE task.add[c]
          /\ task.add[d] # None
      BY <1>3 DEF AddConnectionFails, TypeOK, Task
    <2>2. PICK named \in {task.add[d].named, TRUE} :
            /\ rows' = IF named THEN Row(d) ELSE rows
            /\ cache' = [cache EXCEPT ![d] =
                 IF task.update THEN None
                 ELSE IF @ # None /\ d \in task.cached THEN [@ EXCEPT !.named = named] ELSE @]
      BY <1>3 DEF AddConnectionFails
    <2>3. registered'[c] \in {registered[c], None} /\ rows \subseteq rows'
      BY <1>0, <1>3, <2>2 DEF AddConnectionFails, Kept, Row
    <2>4. CASE c # d
      BY <1>0, <2>1, <2>2, <2>3, <2>4 DEF Fine, Unborn, Dropped, Rowed, Exists, Named
    <2>5. CASE c = d
      <3>1. Unborn(c)' /\ Dropped(c)'
        BY <1>0, <2>1, <2>5 DEF Fine, Unborn, Dropped
      <3>2. ASSUME Exists(c), Named(cache'[c])  PROVE c \in rows'
        <4>1. CASE cache'[c] = cache[c]
          BY <1>0, <2>3, <3>2, <4>1 DEF Fine, Rowed
        <4>2. CASE cache'[c] # cache[c]
          <5>1. cache[c] # None /\ cache'[c] = [cache[c] EXCEPT !.named = named]
            BY <1>0, <2>2, <2>5, <3>2, <4>2 DEF Named
          <5>2. named
            BY <1>0, <3>2, <5>1 DEF Named, Source
          <5>3. rows' = Row(c)
            BY <2>2, <2>5, <5>2
          <5>4. QED
            BY <1>0, <2>1, <2>5, <3>2, <5>3 DEF Fine, Rowed, Row, Named
        <4>3. QED
          BY <4>1, <4>2
      <3>3. Rowed(c)'
        BY <1>0, <2>1, <2>3, <2>5, <3>2 DEF Fine, Rowed, Exists, Named
      <3>4. QED
        BY <3>1, <3>3 DEF Fine
    <2>6. QED
      BY <2>4, <2>5
  <1>4. ASSUME NEW d \in Conns, DropConnection(d) \/ DropConnectionFails(d)  PROVE Fine(c)'
    <2>1. d \in task.drop /\ remote[d] = None
      BY <1>4 DEF DropConnection, DropConnectionFails, Fine, Dropped
    <2>2. /\ c # d => cache'[c] = cache[c] /\ registered'[c] = registered[c]
                      /\ (c \in rows' <=> c \in rows)
          /\ task'.drop \subseteq task.drop /\ task'.add[c] \in {task.add[c], None}
      <3>1. c # d => cache'[c] = cache[c] /\ registered'[c] = registered[c]
                     /\ (c \in rows' <=> c \in rows)
        BY <1>0, <1>4 DEF DropConnection, DropConnectionFails
      <3>2. task' = Rest \/ task' = [task EXCEPT !.drop = @ \ {d}]
        BY <1>4 DEF DropConnection, DropConnectionFails
      <3>3. CASE task' = Rest
        BY <3>1, <3>3 DEF Rest, Nothing
      <3>4. CASE task' = [task EXCEPT !.drop = @ \ {d}]
        BY <3>1, <3>4 DEF TypeOK, Task
      <3>5. QED
        BY <3>2, <3>3, <3>4
    <2>3. CASE c = d
      BY <1>0, <2>1, <2>3 DEF Fine, Unborn, Dropped, Rowed, Exists
    <2>4. CASE c # d
      BY <1>0, <2>2, <2>4 DEF Fine, Unborn, Dropped, Rowed, Exists, Named
    <2>5. QED
      BY <2>3, <2>4
  <1>5. ASSUME NEW d \in Conns, AddConnectionKeeps(d)  PROVE Fine(c)'
    <2>1. /\ UNCHANGED <<cache, rows>> /\ task.add[d] # None
          /\ task'.drop = task.drop
          /\ task'.add[c] = IF c = d THEN None ELSE task.add[c]
          /\ registered[c] # None \/ registered'[c] = registered[c]
      BY <1>0, <1>5 DEF AddConnectionKeeps, TypeOK, Task
    <2>2. c = d => Unborn(c)'
      BY <1>0, <2>1 DEF Fine, Unborn
    <2>3. QED
      BY <1>0, <2>1, <2>2 DEF Fine, Unborn, Dropped, Rowed, Exists, Named
  <1>6. QED
    BY <1>1, <1>2, <1>3, <1>4, <1>5 DEF TaskStep

LEMMA FineSocket ==
  ASSUME \A c \in Conns : Fine(c), NEW z \in Sockets, Deliver(z) \/ SocketDies(z) \/ Connect(z),
         NEW c \in Conns
  PROVE  Fine(c)'
  <1>1. UNCHANGED <<remote, cache, fetched, registered, rows, task>>
    BY DEF Deliver, SocketDies, Connect, srcVars, execVars
  <1>2. QED
    BY <1>1 DEF Fine, Unborn, Dropped, Rowed, Exists, Named

LEMMA FineRestart ==
  ASSUME TypeOK, Restart
  PROVE  TellInv' /\ \A c \in Conns : Fine(c)'
  <1>1. TellInv'
    BY ToldNone DEF Restart, TellInv
  <1>2. ASSUME NEW c \in Conns  PROVE Fine(c)'
    <2>1. /\ task'.add[c] = None /\ task'.drop = {}
          /\ cache'[c] = None /\ registered'[c] = None /\ fetched'[c] = None
      BY DEF Restart, Rest, Nothing
    <2>2. QED
      BY <2>1 DEF Fine, Unborn, Dropped, Rowed, Exists, Named
  <1>3. QED
    BY <1>1, <1>2

LEMMA RowInit == Init => RowInv
  <1> SUFFICES ASSUME Init  PROVE RowInv
    OBVIOUS
  <1>1. TypeOK
    BY InitType
  <1>2. TellInv
    BY ToldNone DEF Init, TellInv
  <1>3. ASSUME NEW c \in Conns  PROVE Fine(c)
    <2>1. /\ task.add[c] = None /\ task.drop = {}
          /\ cache[c] = None /\ registered[c] = None /\ fetched[c] = None
      BY DEF Init, Rest, Nothing
    <2>2. QED
      BY <2>1 DEF Fine, Unborn, Dropped, Rowed, Named
  <1>4. QED
    BY <1>1, <1>2, <1>3 DEF RowInv

LEMMA RowNext == RowInv /\ [Next]_vars => RowInv'
  <1> SUFFICES ASSUME RowInv, [Next]_vars  PROVE RowInv'
    OBVIOUS
  <1>0. TypeOK /\ TypeOK' /\ TellInv /\ \A c \in Conns : Fine(c)
    BY NextType DEF RowInv
  <1> USE <1>0
  <1>1. CASE UNCHANGED vars
    BY <1>1 DEF vars, netVars, execVars, srcVars, RowInv, TellInv, Fine, Unborn, Dropped,
                Rowed, Exists, Named
  <1>2. ASSUME NEW d \in Conns,
               \/ UserCreates(d) \/ UserUpdates(d) \/ ConnectionGoes(d)
               \/ PublishPosts(d) \/ PublishSaves(d) \/ DropDV(d)
               \/ PublishReads(d) \/ PublishCaches(d)
        PROVE  RowInv'
    <2>1. TellInv'
      <3>1. CASE UserCreates(d) \/ UserUpdates(d) \/ ConnectionGoes(d) \/ PublishPosts(d)
        BY <3>1, TellWorld
      <3>2. CASE PublishSaves(d) \/ DropDV(d) \/ PublishReads(d) \/ PublishCaches(d)
        BY <3>2 DEF PublishSaves, DropDV, PublishReads, PublishCaches, netVars, execVars, TellInv
      <3>3. QED
        BY <1>2, <3>1, <3>2
    <2>2. QED
      BY <1>2, <2>1, FineWorld DEF RowInv
  <1>3. ASSUME NEW z \in Sockets, Deliver(z) \/ SocketDies(z) \/ Connect(z)  PROVE RowInv'
    BY <1>3, TellSocket, FineSocket DEF RowInv
  <1>4. CASE Periodic \/ HandleGreeting \/ HandleAdd \/ HandleDelete
    <2>1. UNCHANGED <<remote, wire>> /\ (queue' = queue \/ \E kinds : Takes(kinds))
      BY <1>4, Zenon DEF Periodic, HandleGreeting, HandleAdd, HandleDelete, netVars
    <2>2. QED
      BY <1>4, <2>1, TellTaken, FineTaken DEF RowInv
  <1>5. CASE TaskStep
    <2>1. UNCHANGED <<remote, wire, queue>>
      BY <1>5 DEF TaskStep, AddConnection, AddConnectionThrows, AddConnectionFails,
                  AddConnectionKeeps, DropConnection, DropConnectionFails, TaskEnds, netVars
    <2>2. QED
      BY <1>5, <2>1, FineTask DEF RowInv, TellInv
  <1>6. CASE Restart
    BY <1>6, FineRestart DEF RowInv
  <1>7. QED
    BY <1>1, <1>2, <1>3, <1>4, <1>5, <1>6 DEF Next

\* A data source of a connection that exists has its row, whatever is lost, late
\* or fails, for every instance.
THEOREM RegisteredHasRowCorrect == Spec => []RegisteredHasRow
  <1>1. RowInv => RegisteredHasRow
    BY DEF RowInv, Fine, Rowed, RegisteredHasRow
  <1>2. QED
    BY RowInit, RowNext, <1>1, PTL DEF Spec
=============================================================================
